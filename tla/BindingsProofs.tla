--------------------------- MODULE BindingsProofs ---------------------------
(***************************************************************************)
(* For any number of callers and boxes: the manager outlives the calls     *)
(* that run in it, plugins that were shut down are idle, and every box     *)
(* that crosses the interface has one owner.                               *)
(***************************************************************************)
EXTENDS Bindings, TLAPS

Types ==
  /\ binding \in {"go", "python"}
  /\ pc \in [Goroutine -> {"idle", "locking", "running", "closing"}]
  /\ handle \in BOOLEAN
  /\ DOMAIN op = Goroutine

\* A goroutine that waits for the mutex knows what for.
NameInv ==
  \A g \in Goroutine :
    pc[g] = "locking" => op[g].name \in Invokes \cup {"Wait", "Initialize", "Shutdown"}

\* Who holds the mutex is where it says: inside Rust, or shutting down.
LockInv ==
  /\ readers = {g \in Goroutine : pc[g] = "running"}
  /\ writer = {g \in Goroutine : pc[g] = "closing"}
  /\ readers = {} \/ writer = {}
  /\ \A g, h \in writer : g = h

\* The handle is cleared in the critical section that frees the manager.
HandleInv ==
  /\ handle => manager = IF writer = {} THEN "alive" ELSE "closing"
  /\ ~handle => manager = "freed" /\ readers = {} /\ writer = {}

\* Plugins have been shut down by the shutdown that drained their tasks.
DrainInv == plugins = "stopped" => manager = "freed" /\ tasks = {}

IInv ==
  /\ Types
  /\ binding = "go" => NameInv /\ LockInv /\ HandleInv /\ DrainInv
  /\ binding = "python" => manager = "alive"
-----------------------------------------------------------------------------
\* A manager that has been made and not been called.
LEMMA InitEstablishes == Init => IInv
  BY Zenon DEF Init, FfiInit, GoInit, Nobody, IInv, Types, NameInv, LockInv, HandleInv, DrainInv

\* Every step of a goroutine, of the collector, of a Python task or of a
\* background task keeps the invariant.
LEMMA StepPreserves == IInv /\ [Next]_vars => IInv'
<1> SUFFICES ASSUME IInv, [Next]_vars PROVE IInv'
  BY Zenon
<1> USE DEF IInv, Types, NameInv, LockInv, HandleInv, DrainInv, Nobody, Invokes, ffi, mutex, objects, go
<1>1. ASSUME NEW g \in Goroutine, Begins(g), binding = "go", UNCHANGED <<binding, detached>>
      PROVE  IInv'
  <2>1. /\ pc' = [pc EXCEPT ![g] = "locking"] /\ DOMAIN op' = Goroutine
        /\ \A h \in Goroutine : h # g => op'[h] = op[h]
        /\ UNCHANGED <<ffi, mutex, handle>>
    BY Zenon, <1>1 DEF Begins
  <2>2. op'[g].name \in Invokes \cup {"Wait", "Initialize"}
    <3>1. CASE \E name \in Invokes, arg \in {ct[g], Null} :
                 op' = [op EXCEPT ![g] = [NoCall EXCEPT !.name = name, !.arg = arg]]
      BY Zenon, <3>1 DEF NoCall
    <3>2. CASE \E a \in bgs :
                 op' = [op EXCEPT ![g] = [NoCall EXCEPT !.name = "Wait", !.arg = a]]
      BY Zenon, <3>2 DEF NoCall
    <3>3. CASE op' = [op EXCEPT ![g] = [NoCall EXCEPT !.name = "Initialize"]]
      BY Zenon, <3>3 DEF NoCall
    <3> QED
      BY Zenon, <1>1, <3>1, <3>2, <3>3 DEF Begins
  <2>3. pc[g] = "idle"
    BY Zenon, <1>1 DEF Begins
  <2> QED
    BY Zenon, <1>1, <2>1, <2>2, <2>3
<1>2. ASSUME NEW g \in Goroutine, BeginsClose(g), binding = "go", UNCHANGED <<binding, detached>>
      PROVE  IInv'
  BY Zenon, <1>2 DEF BeginsClose, NoCall
<1>3. ASSUME NEW g \in Goroutine, CloseTable(g), binding = "go", UNCHANGED <<binding, detached>>
      PROVE  IInv'
  BY Zenon, <1>3 DEF CloseTable, ConsumesTable, Frees
<1>4. ASSUME NEW g \in Goroutine, DropTable(g), binding = "go", UNCHANGED <<binding, detached>>
      PROVE  IInv'
  BY Zenon, <1>4 DEF DropTable
<1>5. ASSUME NEW g \in Goroutine, Refused(g), binding = "go", UNCHANGED <<binding, detached>>
      PROVE  IInv'
  BY Zenon, <1>5 DEF Refused, MayEnter, MayRead, Returns, Leaks, Handed
<1>6. ASSUME NEW g \in Goroutine, MarshalFails(g), binding = "go", UNCHANGED <<binding, detached>>
      PROVE  IInv'
  BY Zenon, <1>6 DEF MarshalFails, MayEnter, Returns
<1>7. ASSUME NEW g \in Goroutine, Enters(g), binding = "go", UNCHANGED <<binding, detached>>
      PROVE  IInv'
  <2>1. UNCHANGED <<manager, plugins, handle>> /\ (tasks = {} => tasks' = {})
    BY Zenon, <1>7 DEF Enters, MayEnter, ConsumesTable, ConsumesTasks, Frees, Handed
  <2>2. /\ pc' = [pc EXCEPT ![g] = "running"] /\ readers' = readers \cup {g}
        /\ writer = {} /\ writer' = {}
    BY Zenon, <1>7 DEF Enters, MayEnter, MayRead, RLock
  <2>3. Types' /\ NameInv'
    BY Zenon, <1>7, <2>1, <2>2 DEF Enters
  <2>4. LockInv' /\ HandleInv' /\ DrainInv'
    BY <1>7, <2>1, <2>2 DEF Enters
  <2> QED
    BY Zenon, <1>7, <2>3, <2>4
<1>8. ASSUME NEW g \in Goroutine, TimesOut(g), binding = "go", UNCHANGED <<binding, detached>>
      PROVE  IInv'
  BY Zenon, <1>8 DEF TimesOut, StopsWaiting, Handed, RUnlock, Returns
<1>9. ASSUME NEW g \in Goroutine, Shutdown(g), binding = "go", UNCHANGED <<binding, detached>>
      PROVE  IInv'
  BY <1>9 DEF Shutdown, Lock, BeginsShutdown, Returns
<1>10. ASSUME NEW g \in Goroutine, ShutdownTimesOut(g), binding = "go", UNCHANGED <<binding, detached>>
      PROVE  IInv'
  <2>1. writer = {g} /\ readers = {} /\ handle
    BY <1>10 DEF ShutdownTimesOut
  <2>2. pc' = [pc EXCEPT ![g] = "idle"] /\ writer' = {} /\ readers' = {} /\ handle' = FALSE
    BY Zenon, <1>10, <2>1 DEF ShutdownTimesOut, Closed, Unlock, Returns
  <2>3. Types' /\ NameInv'
    BY Zenon, <1>10, <2>2 DEF ShutdownTimesOut, Closed, Returns
  <2>4. LockInv' /\ HandleInv'
    BY <1>10, <2>1, <2>2 DEF ShutdownTimesOut, AbandonsShutdown
  <2>5. DrainInv'
    BY Zenon, <1>10, <2>1 DEF ShutdownTimesOut, AbandonsShutdown
  <2> QED
    BY Zenon, <1>10, <2>3, <2>4, <2>5
<1>11. ASSUME NEW g \in Goroutine, Succeeds(g), binding = "go", UNCHANGED <<binding, detached>>
      PROVE  IInv'
  BY Zenon, <1>11 DEF Succeeds, Results, RUnlock, Returns
<1>12. ASSUME NEW g \in Goroutine, Undecodable(g), binding = "go", UNCHANGED <<binding, detached>>
      PROVE  IInv'
  BY Zenon, <1>12 DEF Undecodable, ResultsLost, RUnlock, Returns
<1>13. ASSUME NEW g \in Goroutine, ReturnsError(g), binding = "go", UNCHANGED <<binding, detached>>
      PROVE  IInv'
  BY Zenon, <1>13 DEF ReturnsError, Fails, RUnlock, Returns
<1>14. ASSUME NEW g \in Goroutine, Initialized(g), binding = "go", UNCHANGED <<binding, detached>>
      PROVE  IInv'
  BY Zenon, <1>14 DEF Initialized, Initializes, RUnlock, Returns
<1>15. ASSUME NEW g \in Goroutine, Waited(g), binding = "go", UNCHANGED <<binding, detached>>
      PROVE  IInv'
  BY Zenon, <1>15 DEF Waited, Fails, RUnlock, Returns
<1>16. ASSUME NEW g \in Goroutine, ShutdownEnds(g), binding = "go", UNCHANGED <<binding, detached>>
      PROVE  IInv'
  <2>1. writer = {g} /\ readers = {} /\ handle
    BY <1>16 DEF ShutdownEnds
  <2>2. pc' = [pc EXCEPT ![g] = "idle"] /\ writer' = {} /\ readers' = {} /\ handle' = FALSE
    BY Zenon, <1>16, <2>1 DEF ShutdownEnds, Closed, Unlock, Returns
  <2>3. Types' /\ NameInv'
    BY Zenon, <1>16, <2>2 DEF ShutdownEnds, Closed, Returns
  <2>4. LockInv' /\ HandleInv'
    BY <1>16, <2>1, <2>2 DEF ShutdownEnds, EndsShutdown, Drained
  <2>5. DrainInv'
    BY Zenon, <1>16, <2>1 DEF ShutdownEnds, EndsShutdown, Drained
  <2> QED
    BY Zenon, <1>16, <2>3, <2>4, <2>5
<1>17. ASSUME FinalizeTable, binding = "go", UNCHANGED <<binding, detached>> PROVE IInv'
  BY <1>17 DEF FinalizeTable, ConsumesTable, Frees
<1>18. ASSUME CloseTasks, binding = "go", UNCHANGED <<binding, detached>> PROVE IInv'
  BY <1>18 DEF CloseTasks, FreesTasks, ConsumesTasks, Frees, Handed
<1>19. ASSUME NEW g \in Goroutine, PyCalls(g), binding = "python", UNCHANGED binding PROVE IInv'
  BY Zenon, <1>19 DEF PyCalls, NoCall
<1>20. ASSUME NEW g \in Goroutine, PyReturns(g), binding = "python", UNCHANGED binding PROVE IInv'
  BY Zenon, <1>20 DEF PyReturns, Spawns, ResultsLost, Initializes, Fails, Returns
<1>21. ASSUME NEW g \in Goroutine, PyTimesOut(g), binding = "python", UNCHANGED binding PROVE IInv'
  BY Zenon, <1>21 DEF PyTimesOut, Returns
<1>22. ASSUME DetachedEnds, binding = "python", UNCHANGED binding PROVE IInv'
  BY Zenon, <1>22 DEF DetachedEnds, Spawns, ResultsLost
<1>23. ASSUME TasksEnd, UNCHANGED <<go, binding, detached>> PROVE IInv'
  BY Zenon, <1>23 DEF TasksEnd
<1>24. CASE UNCHANGED vars
  BY Zenon, <1>24 DEF vars
<1> QED
  BY Zenon, <1>1, <1>2, <1>3, <1>4, <1>5, <1>6, <1>7, <1>8, <1>9, <1>10, <1>11, <1>12,
     <1>13, <1>14, <1>15, <1>16, <1>17, <1>18, <1>19, <1>20, <1>21, <1>22, <1>23, <1>24
     DEF Next, GoNext, PyNext, Calls, Steps, Outcomes

\* A call that runs in the manager keeps it: whoever shuts it down waits for the
\* readers, and whoever comes later finds the handle cleared (manager.go 104-109,
\* 246-257).
THEOREM ManagerOutlivesCalls == Spec => []OutlivesCalls
<1>1. IInv => OutlivesCalls
  BY Zenon DEF IInv, Types, LockInv, HandleInv, OutlivesCalls
<1> QED
  BY <1>1, InitEstablishes, StepPreserves, PTL DEF Spec

\* Plugins that were shut down run neither a call nor a background task, and
\* nothing starts one again (manager.rs 894-901).
THEOREM ShutDownIsIdle == Spec => []StoppedIdle
<1>1. IInv => StoppedIdle
  BY Zenon DEF IInv, Types, LockInv, HandleInv, DrainInv, StoppedIdle
<1> QED
  BY <1>1, InitEstablishes, StepPreserves, PTL DEF Spec

\* Shutdown waits for the calls in the manager and for its background tasks
\* (manager.go 246-257, manager.rs 894-901).
THEOREM Waits == Spec => []ShutdownWaits
<1>1. OutlivesCalls /\ StoppedIdle => ShutdownWaits
  BY Zenon DEF ShutdownWaits
<1> QED
  BY <1>1, ManagerOutlivesCalls, ShutDownIsIdle, PTL
-----------------------------------------------------------------------------
(* Boxes *)

Name ==
  Invokes \cup {"none", "Wait", "Initialize", "Shutdown", "invoke_hook", "initialize", "shutdown"}

BoxTypes ==
  /\ heap \in [Addr -> {"none", "table", "tasks"}]
  /\ op \in [Goroutine -> [name : Name, arg : Addr \cup {Null}, yields : BOOLEAN]]
  /\ ct \in [Goroutine -> Addr \cup {Null}]
  /\ garbage \subseteq Addr
  /\ bgs \subseteq Addr

Waiting(g) == op[g].name = "Wait" /\ pc[g] # "running"

\* What a call was passed: a goroutine's own table, which it forgets when Rust takes
\* it, or a handle of tasks that nobody else has.
ArgInv ==
  \A g \in Goroutine :
    /\ pc[g] = "idle" => op[g] = NoCall
    /\ pc[g] = "locking" /\ op[g].name \in Invokes => op[g].arg \in {ct[g], Null}
    /\ op[g].name \in Invokes /\ op[g].arg # Null => op[g].name = "InvokeByName"
    /\ pc[g] = "running" /\ op[g].name \in Invokes => op[g].arg = Null \/ ct[g] = Null
    /\ Waiting(g) =>
         /\ op[g].arg \in Addr \ bgs
         /\ \A h \in Goroutine : h # g /\ Waiting(h) => op[h].arg # op[g].arg

\* A table has one holder, and so have tasks.
TablesOwn ==
  /\ \A g \in Goroutine : ct[g] # Null =>
       /\ heap[ct[g]] = "table" /\ ct[g] \notin garbage
       /\ \A h \in Goroutine : h # g => ct[h] # ct[g]
  /\ \A a \in garbage : heap[a] = "table"

TasksOwn ==
  /\ \A a \in bgs : heap[a] = "tasks"
  /\ \A g \in Goroutine : Waiting(g) => heap[op[g].arg] = "tasks"

AllOwned ==
  \A a \in Addr : heap[a] # "none" =>
    \/ a \in garbage \cup bgs
    \/ \E g \in Goroutine : ct[g] = a \/ (Waiting(g) /\ op[g].arg = a)

Bound == misused = {} /\ ArgInv /\ TablesOwn /\ TasksOwn /\ AllOwned

\* The Python binding holds no boxes.
Unbound ==
  /\ misused = {} /\ garbage = {} /\ bgs = {}
  /\ \A g \in Goroutine : ct[g] = Null /\ op[g].name # "Wait"

\* Only Shutdown takes the write lock.
Closers == \A g \in Goroutine : pc[g] = "closing" => op[g].name = "Shutdown"

\* Every invocation under way finds an address for each box of its result.
RoomFor ==
  InvokesUnderWay # {} =>
    /\ NewTable \in Free
    /\ \A denied : NewTasks(denied) = Null \/ NewTasks(denied) \in Free \ {NewTable}

\* What a step does to free addresses and to the invocations that need them: it
\* leaves as many to as few, begins an invocation, or ends one with its boxes.
Eases == Free \subseteq Free' /\ InvokesUnderWay' \subseteq InvokesUnderWay

Takes(g) ==
  /\ Room(Cardinality(InvokesUnderWay) + 1) /\ Free' = Free
  /\ g \notin InvokesUnderWay /\ InvokesUnderWay' = InvokesUnderWay \cup {g}

Fills(g, t, b) ==
  /\ t \in Free /\ Free' = (Free \ {t}) \ {b}
  /\ g \in InvokesUnderWay /\ InvokesUnderWay' = InvokesUnderWay \ {g}

Roomy == Eases \/ \E g : Takes(g) \/ \E t, b : Fills(g, t, b)
-----------------------------------------------------------------------------
USE FfiAssumption, GoAssumption

\* A step of g that neither passes nor frees a box.
LEMMA BoxesLeft ==
  ASSUME BoxTypes, BoxTypes', Bound, NEW g \in Goroutine,
         heap' = heap, misused' = misused, ct' = ct, garbage' = garbage, bgs' = bgs,
         \A h \in Goroutine : h # g => op'[h] = op[h] /\ pc'[h] = pc[h],
         ~Waiting(g),
         \/ pc'[g] = "idle" /\ op'[g] = NoCall
         \/ pc'[g] # "idle" /\ op'[g].name \notin Invokes \cup {"Wait"}
  PROVE  Bound' /\ Eases
<1> USE DEF Bound
<1>0. NoCall.name = "none" /\ NoCall.arg = Null
  BY Zenon DEF NoCall
<1>1. ~Waiting(g)' /\ op'[g].name \notin Invokes /\ \A h \in Goroutine : h # g => Waiting(h)' = Waiting(h)
  BY Zenon, <1>0 DEF Waiting, Invokes
<1>2. ArgInv'
  <2> SUFFICES ASSUME NEW k \in Goroutine
               PROVE  /\ pc'[k] = "idle" => op'[k] = NoCall
                      /\ pc'[k] = "locking" /\ op'[k].name \in Invokes => op'[k].arg \in {ct[k], Null}
                      /\ op'[k].name \in Invokes /\ op'[k].arg # Null => op'[k].name = "InvokeByName"
                      /\ pc'[k] = "running" /\ op'[k].name \in Invokes => op'[k].arg = Null \/ ct[k] = Null
                      /\ Waiting(k)' =>
                           /\ op'[k].arg \in Addr \ bgs
                           /\ \A h \in Goroutine : h # k /\ Waiting(h)' => op'[h].arg # op'[k].arg
    BY Zenon DEF ArgInv
  <2>1. CASE k = g
    BY Zenon, <1>1, <2>1
  <2>2. CASE k # g
    BY <1>1, <2>2 DEF ArgInv
  <2> QED BY Zenon, <2>1, <2>2
<1>3. Eases
  <2>1. InvokesUnderWay' \subseteq InvokesUnderWay
    BY Zenon, <1>1 DEF InvokesUnderWay
  <2> QED BY Zenon, <2>1 DEF Eases, Free
<1>4. TablesOwn'
  BY Zenon DEF TablesOwn
<1>5. TasksOwn'
  BY <1>1 DEF TasksOwn
<1>6. AllOwned'
  BY <1>1 DEF AllOwned
<1> QED BY Zenon, <1>2, <1>3, <1>4, <1>5, <1>6

\* A box is freed, or given up, and whoever held it forgets it.
Forgets(a) ==
  /\ heap' = IF a = Null THEN heap ELSE [heap EXCEPT ![a] = "none"]
  /\ misused' = misused

\* What is free stays free.
LEMMA FreesMore ==
  ASSUME BoxTypes, NEW a \in Addr \cup {Null}, Forgets(a)
  PROVE  /\ Free \subseteq Free'
         /\ \A b \in Addr : heap'[b] = IF b = a THEN "none" ELSE heap[b]
         /\ heap' \in [Addr -> {"none", "table", "tasks"}]
<1>1. Null \notin Addr
  BY DEF Null, Addr
<1> QED BY Zenon, <1>1 DEF BoxTypes, Forgets, Free

\* A box of the kind that is asked for is freed.
LEMMA FreesRightly ==
  ASSUME NEW a, NEW kind, Frees(a, kind), a = Null \/ heap[a] = kind
  PROVE  Forgets(a)
  BY Zenon DEF Frees, Forgets

\* A table is freed that g or the collector has: by Close, by a finalizer or by the
\* call that consumes it.
LEMMA TableFreed ==
  ASSUME BoxTypes, BoxTypes', Bound, NEW a \in Addr, heap[a] = "table", Forgets(a),
         bgs' = bgs, op' = op, pc' = pc,
         \/ garbage' = garbage \ {a} /\ a \in garbage /\ ct' = ct
         \/ \E g \in Goroutine :
              /\ garbage' = garbage /\ ct[g] = a /\ ct' = [ct EXCEPT ![g] = Null] /\ pc[g] = "idle"
  PROVE  Bound' /\ Eases
<1> USE DEF Bound
<1>0. a # Null /\ Free \subseteq Free' /\ \A b \in Addr : heap'[b] = IF b = a THEN "none" ELSE heap[b]
  BY FreesMore DEF Null, Addr
<1>1. \A h \in Goroutine : Waiting(h)' = Waiting(h)
  BY Zenon DEF Waiting
<1>2. \A h \in Goroutine : ct'[h] = ct[h] \/ (ct[h] = a /\ ct'[h] = Null /\ pc[h] = "idle")
  BY Zenon DEF BoxTypes
<1>3. \A h \in Goroutine : ct'[h] # a
  <2>1. CASE garbage' = garbage \ {a} /\ a \in garbage /\ ct' = ct
    BY Zenon, <1>0, <2>1 DEF TablesOwn
  <2>2. CASE \E g \in Goroutine :
               garbage' = garbage /\ ct[g] = a /\ ct' = [ct EXCEPT ![g] = Null] /\ pc[g] = "idle"
    BY <1>0, <2>2 DEF TablesOwn, BoxTypes
  <2> QED BY Zenon, <2>1, <2>2
<1>4. garbage' = garbage \ {a}
  BY <1>0 DEF TablesOwn
<1>5. ArgInv'
  <2>1. \A h \in Goroutine : pc[h] = "locking" => ct'[h] = ct[h]
    BY Zenon, <1>2
  <2> QED BY Zenon, <1>1, <1>2, <2>1 DEF ArgInv
<1>6. Eases
  <2>1. InvokesUnderWay' \subseteq InvokesUnderWay
    BY Zenon DEF InvokesUnderWay
  <2> QED BY Zenon, <1>0, <2>1 DEF Eases
<1>7. TablesOwn'
  <2>1. \A b \in garbage' : heap'[b] = "table"
    BY Zenon, <1>0, <1>4 DEF TablesOwn, BoxTypes
  <2>2. ASSUME NEW h \in Goroutine, ct'[h] # Null
        PROVE  heap'[ct'[h]] = "table" /\ ct'[h] \notin garbage'
               /\ \A k \in Goroutine : k # h => ct'[k] # ct'[h]
    <3>1. ct'[h] = ct[h] /\ ct[h] \in Addr /\ ct[h] # a
      BY <1>2, <1>3, <2>2 DEF BoxTypes
    <3> QED BY <1>0, <1>2, <1>4, <2>2, <3>1 DEF TablesOwn
  <2> QED BY Zenon, <2>1, <2>2 DEF TablesOwn
<1>8. TasksOwn'
  <2>1. \A b \in bgs : b # a /\ b \in Addr
    BY Zenon DEF TasksOwn, BoxTypes
  <2>2. \A h \in Goroutine : Waiting(h) => op[h].arg # a /\ op[h].arg \in Addr
    BY Zenon DEF TasksOwn, ArgInv
  <2> QED BY <1>0, <1>1, <2>1, <2>2 DEF TasksOwn
<1>9. AllOwned'
  <2> SUFFICES ASSUME NEW b \in Addr, heap'[b] # "none"
               PROVE  b \in garbage' \cup bgs' \/ \E h \in Goroutine : ct'[h] = b \/ (Waiting(h)' /\ op'[h].arg = b)
    BY Zenon DEF AllOwned
  <2>1. b # a /\ heap[b] # "none"
    BY Zenon, <1>0
  <2> QED BY <1>1, <1>2, <1>4, <2>1 DEF AllOwned
<1> QED BY Zenon, <1>0, <1>5, <1>6, <1>7, <1>8, <1>9 DEF Forgets

\* Tasks are freed, or given up, that g waits for or that nobody has waited for.
LEMMA TasksFreed ==
  ASSUME BoxTypes, BoxTypes', Bound, NEW a \in Addr, Forgets(a), garbage' = garbage, ct' = ct,
         \/ a \in bgs /\ bgs' = bgs \ {a} /\ op' = op /\ pc' = pc
         \/ \E g \in Goroutine :
              /\ Waiting(g) /\ op[g].arg = a /\ bgs' = bgs
              /\ \A h \in Goroutine : h # g => op'[h] = op[h] /\ pc'[h] = pc[h]
              /\ \/ pc'[g] = "idle" /\ op'[g] = NoCall
                 \/ pc'[g] = "running" /\ op'[g].name = "Wait"
  PROVE  Bound' /\ Eases
<1> USE DEF Bound
<1>0. a # Null /\ Free \subseteq Free' /\ \A b \in Addr : heap'[b] = IF b = a THEN "none" ELSE heap[b]
  BY FreesMore DEF Null, Addr
<1>1. heap[a] = "tasks" /\ bgs' = bgs \ {a}
  BY DEF TasksOwn, ArgInv
<1>2. \A h \in Goroutine :
        /\ Waiting(h)' => Waiting(h) /\ op'[h] = op[h] /\ op[h].arg # a
        /\ Waiting(h) /\ op[h].arg # a => Waiting(h)' /\ op'[h] = op[h]
        /\ op'[h].name \in Invokes => op'[h] = op[h] /\ pc'[h] = pc[h]
        /\ pc'[h] = "idle" => op'[h] = NoCall
  <2>1. CASE a \in bgs /\ bgs' = bgs \ {a} /\ op' = op /\ pc' = pc
    BY <2>1 DEF Waiting, ArgInv
  <2>2. ASSUME NEW g \in Goroutine, Waiting(g), op[g].arg = a,
               \A h \in Goroutine : h # g => op'[h] = op[h] /\ pc'[h] = pc[h],
               \/ pc'[g] = "idle" /\ op'[g] = NoCall
               \/ pc'[g] = "running" /\ op'[g].name = "Wait"
        PROVE  \A h \in Goroutine :
                 /\ Waiting(h)' => Waiting(h) /\ op'[h] = op[h] /\ op[h].arg # a
                 /\ Waiting(h) /\ op[h].arg # a => Waiting(h)' /\ op'[h] = op[h]
                 /\ op'[h].name \in Invokes => op'[h] = op[h] /\ pc'[h] = pc[h]
                 /\ pc'[h] = "idle" => op'[h] = NoCall
    <3>1. ~Waiting(g)' /\ op'[g].name \notin Invokes
      BY <2>2 DEF Waiting, NoCall, Invokes
    <3>2. \A h \in Goroutine : h # g => Waiting(h)' = Waiting(h)
      BY Zenon, <2>2 DEF Waiting
    <3> QED BY <2>2, <3>1, <3>2 DEF ArgInv
  <2> QED BY Zenon, <2>1, <2>2
<1>3. ArgInv'
  <2> SUFFICES ASSUME NEW k \in Goroutine
               PROVE  /\ pc'[k] = "idle" => op'[k] = NoCall
                      /\ pc'[k] = "locking" /\ op'[k].name \in Invokes => op'[k].arg \in {ct[k], Null}
                      /\ op'[k].name \in Invokes /\ op'[k].arg # Null => op'[k].name = "InvokeByName"
                      /\ pc'[k] = "running" /\ op'[k].name \in Invokes => op'[k].arg = Null \/ ct[k] = Null
                      /\ Waiting(k)' =>
                           /\ op'[k].arg \in Addr \ bgs'
                           /\ \A h \in Goroutine : h # k /\ Waiting(h)' => op'[h].arg # op'[k].arg
    BY Zenon DEF ArgInv
  <2> QED BY <1>1, <1>2 DEF ArgInv
<1>4. Eases
  <2>1. InvokesUnderWay' \subseteq InvokesUnderWay
    BY Zenon, <1>2 DEF InvokesUnderWay
  <2> QED BY Zenon, <1>0, <2>1 DEF Eases
<1>5. TablesOwn'
  <2>1. \A b \in garbage : b \in Addr /\ b # a
    BY Zenon, <1>1 DEF TablesOwn, BoxTypes
  <2>2. \A h \in Goroutine : ct[h] # Null => ct[h] \in Addr /\ ct[h] # a
    BY <1>1 DEF TablesOwn, BoxTypes
  <2> QED BY <1>0, <2>1, <2>2 DEF TablesOwn
<1>6. TasksOwn'
  <2>1. \A h \in Goroutine : Waiting(h)' => op[h].arg \in Addr
    BY Zenon, <1>2 DEF ArgInv
  <2> QED BY <1>0, <1>1, <1>2, <2>1 DEF TasksOwn, BoxTypes
<1>7. AllOwned'
  <2> SUFFICES ASSUME NEW b \in Addr, heap'[b] # "none"
               PROVE  b \in garbage' \cup bgs' \/ \E h \in Goroutine : ct'[h] = b \/ (Waiting(h)' /\ op'[h].arg = b)
    BY Zenon DEF AllOwned
  <2>1. b # a /\ heap[b] # "none"
    BY Zenon, <1>0
  <2> QED BY <1>1, <1>2, <2>1 DEF AllOwned
<1> QED BY Zenon, <1>3, <1>4, <1>5, <1>6, <1>7 DEF Forgets

\* A call takes its table into Rust and forgets it, or takes none.
LEMMA TableTaken ==
  ASSUME BoxTypes, BoxTypes', Bound, NEW g \in Goroutine, pc[g] = "locking", op[g].name \in Invokes,
         Forgets(op[g].arg), garbage' = garbage, bgs' = bgs,
         ct' = IF op[g].arg = Null THEN ct ELSE [ct EXCEPT ![g] = Null],
         \A h \in Goroutine : h # g => op'[h] = op[h] /\ pc'[h] = pc[h],
         pc'[g] = "running", op'[g].name = op[g].name, op'[g].arg = op[g].arg
  PROVE  Bound' /\ Eases
<1> USE DEF Bound
<1> DEFINE a == op[g].arg
<1>0. /\ a \in {ct[g], Null} /\ a \in Addr \cup {Null} /\ Null \notin Addr
      /\ Free \subseteq Free' /\ \A b \in Addr : heap'[b] = IF b = a THEN "none" ELSE heap[b]
  <2>1. a \in Addr \cup {Null}
    BY Zenon DEF BoxTypes
  <2> QED BY <2>1, FreesMore DEF ArgInv, Null, Addr
<1>1. ~Waiting(g) /\ ~Waiting(g)' /\ \A h \in Goroutine : h # g => Waiting(h)' = Waiting(h)
  BY Zenon DEF Waiting, Invokes
<1>2. /\ ct'[g] = IF a = Null THEN ct[g] ELSE Null
      /\ \A h \in Goroutine : h # g => ct'[h] = ct[h]
  BY Zenon DEF BoxTypes
<1>3. ArgInv'
  <2> SUFFICES ASSUME NEW k \in Goroutine
               PROVE  /\ pc'[k] = "idle" => op'[k] = NoCall
                      /\ pc'[k] = "locking" /\ op'[k].name \in Invokes => op'[k].arg \in {ct'[k], Null}
                      /\ op'[k].name \in Invokes /\ op'[k].arg # Null => op'[k].name = "InvokeByName"
                      /\ pc'[k] = "running" /\ op'[k].name \in Invokes => op'[k].arg = Null \/ ct'[k] = Null
                      /\ Waiting(k)' =>
                           /\ op'[k].arg \in Addr \ bgs'
                           /\ \A h \in Goroutine : h # k /\ Waiting(h)' => op'[h].arg # op'[k].arg
    BY Zenon DEF ArgInv
  <2>1. CASE k = g
    BY Zenon, <1>1, <1>2, <2>1 DEF ArgInv
  <2>2. CASE k # g
    BY <1>1, <1>2, <2>2 DEF ArgInv
  <2> QED BY Zenon, <2>1, <2>2
<1>4. Eases
  <2>1. InvokesUnderWay' \subseteq InvokesUnderWay
    BY Zenon DEF InvokesUnderWay
  <2> QED BY Zenon, <1>0, <2>1 DEF Eases
<1>5. TablesOwn'
  <2>1. \A b \in garbage : b \in Addr /\ b # a
    BY <1>0 DEF TablesOwn, BoxTypes
  <2>2. \A h \in Goroutine : ct'[h] # Null => ct'[h] \in Addr /\ ct'[h] # a /\ ct'[h] = ct[h]
    BY <1>0, <1>2 DEF TablesOwn, BoxTypes
  <2> HIDE DEF a
  <2> QED BY <1>0, <1>2, <2>1, <2>2 DEF TablesOwn
<1>6. TasksOwn'
  <2>1. \A b \in bgs : b \in Addr /\ b # a
    BY <1>0 DEF TablesOwn, TasksOwn, BoxTypes
  <2>2. \A h \in Goroutine : Waiting(h) => op[h].arg \in Addr /\ op[h].arg # a
    BY <1>0 DEF TablesOwn, TasksOwn, ArgInv
  <2> HIDE DEF a
  <2> QED BY <1>0, <1>1, <2>1, <2>2 DEF TasksOwn
<1>7. AllOwned'
  <2> SUFFICES ASSUME NEW b \in Addr, heap'[b] # "none"
               PROVE  b \in garbage' \cup bgs' \/ \E h \in Goroutine : ct'[h] = b \/ (Waiting(h)' /\ op'[h].arg = b)
    BY Zenon DEF AllOwned
  <2>1. b # a /\ heap[b] # "none"
    BY Zenon, <1>0
  <2>2. \A h \in Goroutine : ct[h] = b => ct'[h] = b
    BY Zenon, <1>0, <1>2, <2>1
  <2> QED BY <1>1, <2>1, <2>2 DEF AllOwned
<1> QED BY Zenon, <1>3, <1>4, <1>5, <1>6, <1>7 DEF Forgets

\* A goroutine drops its table, for the collector to find.
LEMMA TableDropped ==
  ASSUME BoxTypes, BoxTypes', Bound, NEW g \in Goroutine, DropTable(g)
  PROVE  Bound' /\ Eases
<1> USE DEF Bound
<1>1. /\ heap' = heap /\ misused' = misused /\ op' = op /\ pc' = pc /\ bgs' = bgs
      /\ garbage' = garbage \cup {ct[g]} /\ pc[g] = "idle" /\ ct[g] # Null
      /\ ct'[g] = Null /\ \A h \in Goroutine : h # g => ct'[h] = ct[h]
  BY Zenon DEF DropTable, ffi, BoxTypes
<1>2. \A h \in Goroutine : Waiting(h)' = Waiting(h)
  BY Zenon, <1>1 DEF Waiting
<1>3. ArgInv'
  <2>1. \A h \in Goroutine : pc[h] = "locking" \/ pc[h] = "running" => ct'[h] = ct[h]
    BY Zenon, <1>1
  <2> QED BY Zenon, <1>1, <1>2, <2>1 DEF ArgInv
<1>4. Eases
  BY Zenon, <1>1 DEF Eases, Free, InvokesUnderWay
<1>5. TablesOwn'
  BY <1>1 DEF TablesOwn
<1>6. TasksOwn'
  BY Zenon, <1>1, <1>2 DEF TasksOwn
<1>7. AllOwned'
  <2> SUFFICES ASSUME NEW b \in Addr, heap'[b] # "none"
               PROVE  b \in garbage' \cup bgs' \/ \E h \in Goroutine : ct'[h] = b \/ (Waiting(h)' /\ op'[h].arg = b)
    BY Zenon DEF AllOwned
  <2>1. \A h \in Goroutine : ct[h] = b => b \in garbage' \/ ct'[h] = b
    BY Zenon, <1>1
  <2> QED BY Zenon, <1>1, <1>2, <2>1 DEF AllOwned
<1> QED BY Zenon, <1>1, <1>3, <1>4, <1>5, <1>6, <1>7

\* A call begins: an invocation that finds room for the boxes of its result, or a
\* Wait that has its handle for itself.
LEMMA CallBegun ==
  ASSUME Threads \subseteq {"InvokeByName"}, Types, BoxTypes, BoxTypes', Bound,
         NEW g \in Goroutine, Begins(g)
  PROVE  Bound' /\ Roomy
<1> USE DEF Bound
<1>1. /\ heap' = heap /\ misused' = misused /\ ct' = ct /\ garbage' = garbage
      /\ pc[g] = "idle" /\ pc'[g] = "locking" /\ op[g] = NoCall /\ ~Waiting(g)
      /\ \A h \in Goroutine : h # g => pc'[h] = pc[h]
  <2>1. heap' = heap /\ misused' = misused /\ ct' = ct /\ garbage' = garbage
    BY Zenon DEF Begins, ffi
  <2>2. pc[g] = "idle" /\ pc'[g] = "locking" /\ \A h \in Goroutine : h # g => pc'[h] = pc[h]
    BY Zenon DEF Begins, Types
  <2>3. op[g] = NoCall
    BY Zenon, <2>2 DEF ArgInv
  <2>4. ~Waiting(g)
    BY <2>3 DEF Waiting, NoCall
  <2> QED BY Zenon, <2>1, <2>2, <2>3, <2>4
<1>2. \A h \in Goroutine : h # g => op'[h] = op[h] /\ (Waiting(h)' = Waiting(h))
  <2>1. \A h \in Goroutine : h # g => op'[h] = op[h]
    BY Zenon DEF Begins, BoxTypes
  <2> QED BY Zenon, <1>1, <2>1 DEF Waiting
<1>3. TablesOwn'
  BY Zenon, <1>1 DEF TablesOwn
<1>4. ASSUME NEW name \in Invokes, Room(Cardinality(InvokesUnderWay) + 1), bgs' = bgs,
             NEW arg \in (IF name \in Threads THEN {ct[g]} ELSE {}) \cup {Null},
             op' = [op EXCEPT ![g] = [NoCall EXCEPT !.name = name, !.arg = arg]]
      PROVE  Bound' /\ Roomy
  <2>1. op'[g].name = name /\ op'[g].arg = arg /\ ~Waiting(g)'
    BY Zenon, <1>4 DEF BoxTypes, NoCall, Waiting, Invokes
  <2>2. ArgInv'
    <3> SUFFICES ASSUME NEW k \in Goroutine
                 PROVE  /\ pc'[k] = "idle" => op'[k] = NoCall
                        /\ pc'[k] = "locking" /\ op'[k].name \in Invokes => op'[k].arg \in {ct'[k], Null}
                        /\ op'[k].name \in Invokes /\ op'[k].arg # Null => op'[k].name = "InvokeByName"
                        /\ pc'[k] = "running" /\ op'[k].name \in Invokes => op'[k].arg = Null \/ ct'[k] = Null
                        /\ Waiting(k)' =>
                             /\ op'[k].arg \in Addr \ bgs'
                             /\ \A h \in Goroutine : h # k /\ Waiting(h)' => op'[h].arg # op'[k].arg
      BY Zenon DEF ArgInv
    <3>1. CASE k = g
      BY Zenon, <1>1, <1>4, <2>1, <3>1
    <3>2. CASE k # g
      BY <1>1, <1>2, <1>4, <2>1, <3>2 DEF ArgInv
    <3> QED BY Zenon, <3>1, <3>2
  <2>3. Takes(g)
    <3>1. InvokesUnderWay' = InvokesUnderWay \cup {g} /\ g \notin InvokesUnderWay
      BY <1>1, <1>2, <1>4, <2>1 DEF InvokesUnderWay, NoCall, Invokes
    <3> QED BY Zenon, <1>1, <1>4, <3>1 DEF Takes, Free
  <2>4. TasksOwn'
    BY <1>1, <1>2, <1>4, <2>1 DEF TasksOwn
  <2>5. AllOwned'
    BY <1>1, <1>2, <1>4, <2>1 DEF AllOwned
  <2> QED BY Zenon, <1>1, <1>3, <2>2, <2>3, <2>4, <2>5 DEF Roomy
<1>5. ASSUME NEW a \in bgs, op' = [op EXCEPT ![g] = [NoCall EXCEPT !.name = "Wait", !.arg = a]],
             bgs' = bgs \ {a}
      PROVE  Bound' /\ Roomy
  <2>1. op'[g].name = "Wait" /\ op'[g].arg = a /\ Waiting(g)' /\ a \in Addr
    BY Zenon, <1>1, <1>5 DEF BoxTypes, NoCall, Waiting
  <2>2. ArgInv'
    <3> SUFFICES ASSUME NEW k \in Goroutine
                 PROVE  /\ pc'[k] = "idle" => op'[k] = NoCall
                        /\ pc'[k] = "locking" /\ op'[k].name \in Invokes => op'[k].arg \in {ct'[k], Null}
                        /\ op'[k].name \in Invokes /\ op'[k].arg # Null => op'[k].name = "InvokeByName"
                        /\ pc'[k] = "running" /\ op'[k].name \in Invokes => op'[k].arg = Null \/ ct'[k] = Null
                        /\ Waiting(k)' =>
                             /\ op'[k].arg \in Addr \ bgs'
                             /\ \A h \in Goroutine : h # k /\ Waiting(h)' => op'[h].arg # op'[k].arg
      BY Zenon DEF ArgInv
    <3>0. \A h \in Goroutine : h # g /\ Waiting(h)' => op'[h].arg # a
      BY <1>2, <1>5 DEF ArgInv
    <3>1. CASE k = g
      BY <1>1, <1>5, <2>1, <3>0, <3>1 DEF Invokes
    <3>2. CASE k # g
      BY <1>1, <1>2, <1>5, <2>1, <3>0, <3>2 DEF ArgInv
    <3> QED BY Zenon, <3>1, <3>2
  <2>3. Eases
    <3>1. InvokesUnderWay' \subseteq InvokesUnderWay
      BY Zenon, <1>2, <2>1 DEF InvokesUnderWay, Invokes
    <3> QED BY Zenon, <1>1, <3>1 DEF Eases, Free
  <2>4. TasksOwn'
    BY <1>1, <1>2, <1>5, <2>1 DEF TasksOwn
  <2>5. AllOwned'
    BY <1>1, <1>2, <1>5, <2>1 DEF AllOwned
  <2> QED BY Zenon, <1>1, <1>3, <2>2, <2>3, <2>4, <2>5 DEF Roomy
<1>6. CASE op' = [op EXCEPT ![g] = [NoCall EXCEPT !.name = "Initialize"]] /\ bgs' = bgs
  <2>1. op'[g].name = "Initialize"
    BY Zenon, <1>6 DEF BoxTypes, NoCall
  <2> QED BY Zenon, <1>1, <1>2, <1>6, <2>1, BoxesLeft DEF Invokes, Roomy
<1> QED BY Zenon, <1>4, <1>5, <1>6 DEF Begins

\* The result of an invocation arrives: its table is the caller's, and the one the
\* caller had is the collector's; its tasks can be waited for.
LEMMA ResultBound ==
  ASSUME RoomFor, Types, BoxTypes, BoxTypes', Bound, NEW g \in Goroutine, Succeeds(g)
  PROVE  Bound' /\ Roomy
<1> USE DEF Bound
<1>1. /\ pc[g] = "running" /\ op[g].name \in Invokes /\ misused' = misused
      /\ ct' = [ct EXCEPT ![g] = NewTable] /\ garbage' = garbage \cup Dropped(g)
      /\ Returns(g)
  BY Zenon DEF Succeeds, Results
<1>2. PICK denied \in {FALSE} \cup {op[g].name = "InvokeResolved"} :
        Results(denied) /\ bgs' = bgs \cup ({NewTasks(denied)} \ {Null})
  BY Zenon DEF Succeeds
<1>3. PICK t : t = NewTable
  BY Zenon
<1>4. PICK b : b = NewTasks(denied)
  BY Zenon
<1>5. g \in InvokesUnderWay
  BY Zenon, <1>1 DEF InvokesUnderWay
<1>6. t \in Free /\ (b = Null \/ b \in Free \ {t})
  BY Zenon, <1>3, <1>4, <1>5 DEF RoomFor
<1>7. /\ t \in Addr /\ t # Null /\ heap[t] = "none" /\ heap'[t] = "table"
      /\ b # Null => b \in Addr /\ b # t /\ heap[b] = "none" /\ heap'[b] = "tasks"
      /\ \A a \in Addr : a # t /\ a # b => heap'[a] = heap[a]
  <2>1. heap' = [a \in Addr |-> IF a = t THEN "table" ELSE IF a = b THEN "tasks" ELSE heap[a]]
    BY Zenon, <1>2, <1>3, <1>4 DEF Results
  <2> QED BY <1>6, <2>1 DEF Free, Addr, Null
<1>8. bgs' = bgs \cup ({b} \ {Null}) /\ ct'[g] = t /\ \A h \in Goroutine : h # g => ct'[h] = ct[h]
  BY Zenon, <1>1, <1>2, <1>3, <1>4 DEF BoxTypes
<1>9. /\ op'[g] = NoCall /\ pc'[g] = "idle" /\ ~Waiting(g) /\ ~Waiting(g)'
      /\ \A h \in Goroutine : h # g => op'[h] = op[h] /\ pc'[h] = pc[h] /\ (Waiting(h)' = Waiting(h))
  <2>1. /\ op'[g] = NoCall /\ pc'[g] = "idle"
        /\ \A h \in Goroutine : h # g => op'[h] = op[h] /\ pc'[h] = pc[h]
    BY Zenon, <1>1 DEF Returns, Types, BoxTypes
  <2>2. NoCall.name = "none"
    BY Zenon DEF NoCall
  <2>3. ~Waiting(g) /\ ~Waiting(g)'
    BY Zenon, <1>1, <2>1, <2>2 DEF Waiting
  <2>4. \A h \in Goroutine : h # g => (Waiting(h)' = Waiting(h))
    BY Zenon, <2>1 DEF Waiting
  <2> QED BY Zenon, <2>1, <2>3, <2>4
<1>10. /\ \A a \in garbage \cup bgs : a \in Addr /\ a # t /\ a # b
       /\ \A h \in Goroutine : ct[h] # t /\ (ct[h] # Null => ct[h] \in Addr /\ ct[h] # b)
       /\ \A h \in Goroutine : Waiting(h) => op[h].arg \in Addr /\ op[h].arg # t /\ op[h].arg # b
  <2>1. \A a \in garbage \cup bgs : a \in Addr /\ a # t /\ a # b
    BY <1>7 DEF TablesOwn, TasksOwn, BoxTypes, Addr, Null
  <2>2. \A h \in Goroutine : ct[h] # t /\ (ct[h] # Null => ct[h] \in Addr /\ ct[h] # b)
    BY <1>7 DEF TablesOwn, BoxTypes
  <2>3. \A h \in Goroutine : Waiting(h) => op[h].arg \in Addr /\ op[h].arg # t /\ op[h].arg # b
    <3>1. Null \notin Addr
      BY DEF Addr, Null
    <3>2. ASSUME NEW h \in Goroutine, Waiting(h)
          PROVE  op[h].arg \in Addr /\ heap[op[h].arg] = "tasks"
      BY Zenon, <3>2 DEF TasksOwn, ArgInv
    <3>3. ASSUME NEW a \in Addr, heap[a] = "tasks" PROVE a # t /\ a # b
      BY Zenon, <1>7, <3>1, <3>3
    <3> QED BY Zenon, <3>2, <3>3
  <2> QED BY Zenon, <2>1, <2>2, <2>3
<1>11. garbage' = garbage \cup (IF ct[g] = Null THEN {} ELSE {ct[g]})
  <2>1. ct[g] = Null \/ op[g].arg = Null
    BY Zenon, <1>1 DEF ArgInv
  <2> QED BY Zenon, <1>1, <2>1 DEF Dropped
<1>12. ArgInv'
  <2> SUFFICES ASSUME NEW k \in Goroutine
               PROVE  /\ pc'[k] = "idle" => op'[k] = NoCall
                      /\ pc'[k] = "locking" /\ op'[k].name \in Invokes => op'[k].arg \in {ct'[k], Null}
                      /\ op'[k].name \in Invokes /\ op'[k].arg # Null => op'[k].name = "InvokeByName"
                      /\ pc'[k] = "running" /\ op'[k].name \in Invokes => op'[k].arg = Null \/ ct'[k] = Null
                      /\ Waiting(k)' =>
                           /\ op'[k].arg \in Addr \ bgs'
                           /\ \A h \in Goroutine : h # k /\ Waiting(h)' => op'[h].arg # op'[k].arg
    BY Zenon DEF ArgInv
  <2>1. CASE k = g
    <3>1. NoCall.name \notin Invokes
      BY Zenon DEF NoCall, Invokes
    <3> QED BY Zenon, <1>9, <2>1, <3>1
  <2>2. CASE k # g
    <3>1. op'[k] = op[k] /\ pc'[k] = pc[k] /\ ct'[k] = ct[k] /\ (Waiting(k)' = Waiting(k))
      BY Zenon, <1>8, <1>9, <2>2
    <3>2. /\ pc[k] = "idle" => op[k] = NoCall
          /\ pc[k] = "locking" /\ op[k].name \in Invokes => op[k].arg \in {ct[k], Null}
          /\ op[k].name \in Invokes /\ op[k].arg # Null => op[k].name = "InvokeByName"
          /\ pc[k] = "running" /\ op[k].name \in Invokes => op[k].arg = Null \/ ct[k] = Null
      BY Zenon DEF ArgInv
    <3>3. ASSUME Waiting(k)
          PROVE  /\ op[k].arg \in Addr \ bgs'
                 /\ \A h \in Goroutine : h # k /\ Waiting(h)' => op'[h].arg # op[k].arg
      <4>1. /\ op[k].arg \in Addr \ bgs
            /\ \A h \in Goroutine : h # k /\ Waiting(h) => op[h].arg # op[k].arg
        BY Zenon, <3>3 DEF ArgInv
      <4>2. op[k].arg # b
        BY Zenon, <1>10, <3>3
      <4> QED BY Zenon, <1>8, <1>9, <4>1, <4>2
    <3> QED BY Zenon, <3>1, <3>2, <3>3
  <2> QED BY Zenon, <2>1, <2>2
<1>13. Fills(g, t, b)
  <2>1. InvokesUnderWay' = InvokesUnderWay \ {g}
    <3>1. op'[g].name \notin Invokes
      <4>1. NoCall.name \notin Invokes
        BY Zenon DEF NoCall, Invokes
      <4> QED BY Zenon, <1>9, <4>1
    <3> QED BY Zenon, <1>9, <3>1 DEF InvokesUnderWay
  <2>2. \A a \in Addr : heap'[a] = "none" <=> heap[a] = "none" /\ a # t /\ a # b
    BY <1>7 DEF Addr, Null
  <2>3. Free' = (Free \ {t}) \ {b}
    BY Zenon, <2>2 DEF Free
  <2> QED BY Zenon, <1>5, <1>6, <2>1, <2>3 DEF Fills
<1>14. TablesOwn'
  <2>1. \A a \in garbage' : heap'[a] = "table"
    BY <1>7, <1>10, <1>11 DEF TablesOwn
  <2>2. ASSUME NEW h \in Goroutine, ct'[h] # Null
        PROVE  heap'[ct'[h]] = "table" /\ ct'[h] \notin garbage'
               /\ \A k \in Goroutine : k # h => ct'[k] # ct'[h]
    <3>1. CASE h = g
      BY Zenon, <1>7, <1>8, <1>10, <1>11, <3>1
    <3>2. CASE h # g
      <4>1. ct'[h] = ct[h] /\ ct[h] # Null
        BY Zenon, <1>8, <2>2, <3>2
      <4>2. /\ heap[ct[h]] = "table" /\ ct[h] \notin garbage
            /\ \A k \in Goroutine : k # h => ct[k] # ct[h]
        BY Zenon, <4>1 DEF TablesOwn
      <4>3. ct[h] \in Addr /\ ct[h] # t /\ ct[h] # b
        BY Zenon, <1>10, <4>1
      <4>4. heap'[ct[h]] = "table"
        BY Zenon, <1>7, <4>2, <4>3
      <4>5. ct[h] \notin garbage'
        BY Zenon, <1>11, <3>2, <4>2
      <4>6. \A k \in Goroutine : k # h => ct'[k] # ct[h]
        BY Zenon, <1>8, <4>2, <4>3
      <4> QED BY Zenon, <4>1, <4>4, <4>5, <4>6
    <3> QED BY Zenon, <3>1, <3>2
  <2> QED BY Zenon, <2>1, <2>2 DEF TablesOwn
<1>15. TasksOwn'
  <2>1. \A a \in bgs' : heap'[a] = "tasks"
    BY <1>7, <1>8, <1>10 DEF TasksOwn
  <2>2. \A h \in Goroutine : Waiting(h)' => heap'[op'[h].arg] = "tasks"
    <3> SUFFICES ASSUME NEW h \in Goroutine, Waiting(h)' PROVE heap'[op'[h].arg] = "tasks"
      BY Zenon
    <3>1. op'[h] = op[h] /\ Waiting(h)
      BY Zenon, <1>9
    <3>2. op[h].arg \in Addr /\ op[h].arg # t /\ op[h].arg # b /\ heap[op[h].arg] = "tasks"
      BY Zenon, <1>10, <3>1 DEF TasksOwn
    <3> QED BY Zenon, <1>7, <3>1, <3>2
  <2> QED BY Zenon, <2>1, <2>2 DEF TasksOwn
<1>16. AllOwned'
  <2> SUFFICES ASSUME NEW a \in Addr, heap'[a] # "none"
               PROVE  a \in garbage' \cup bgs' \/ \E h \in Goroutine : ct'[h] = a \/ (Waiting(h)' /\ op'[h].arg = a)
    BY Zenon DEF AllOwned
  <2>1. CASE a = t
    BY Zenon, <1>8, <2>1
  <2>2. CASE a = b
    BY <1>8, <2>2 DEF Addr, Null
  <2>3. CASE a # t /\ a # b
    <3>1. heap[a] # "none" /\ a # Null
      BY <1>7, <2>3 DEF Addr, Null
    <3>2. \A h \in Goroutine : ct[h] = a => a \in garbage' \/ ct'[h] = a
      BY Zenon, <1>8, <1>11, <3>1
    <3>3. \A h \in Goroutine : Waiting(h) => Waiting(h)' /\ op'[h] = op[h]
      BY Zenon, <1>9
    <3>4. garbage \cup bgs \subseteq garbage' \cup bgs'
      BY Zenon, <1>8, <1>11
    <3> QED BY <3>1, <3>2, <3>3, <3>4 DEF AllOwned
  <2> QED BY Zenon, <2>1, <2>2, <2>3
<1> QED BY Zenon, <1>1, <1>12, <1>13, <1>14, <1>15, <1>16 DEF Roomy

\* The boxes, and the calls, are of their types after every step.
LEMMA BoxTypesKept ==
  ASSUME IInv, BoxTypes, binding = "go" => RoomFor, [Next]_vars
  PROVE  BoxTypes'
<1> DEFINE Op == [name : Name, arg : Addr \cup {Null}, yields : BOOLEAN]
<1>1. BoxTypes /\ op \in [Goroutine -> Op]
  BY Zenon DEF BoxTypes
<1>2. NoCall \in Op /\ \A n \in Name, a \in Addr \cup {Null} : [NoCall EXCEPT !.name = n, !.arg = a] \in Op
  BY Zenon DEF NoCall, Name
<1>3. \A n \in Name : [NoCall EXCEPT !.name = n] \in Op
  BY Zenon DEF NoCall, Name
<1>4. \A g \in Goroutine : Returns(g) => op' \in [Goroutine -> Op]
  <2> HIDE DEF Op
  <2> QED BY Zenon, <1>1, <1>2 DEF Returns
<1>5. ASSUME NEW g \in Goroutine, NEW y \in Yields(g), op' = [op EXCEPT ![g].yields = y]
      PROVE  op' \in [Goroutine -> Op]
  <2>1. y \in BOOLEAN
    BY Zenon DEF Yields
  <2>2. [op[g] EXCEPT !.yields = y] \in Op
    BY Zenon, <1>1, <2>1
  <2>3. op' = [op EXCEPT ![g] = [op[g] EXCEPT !.yields = y]]
    BY Zenon, <1>5
  <2> HIDE DEF Op
  <2> QED BY Zenon, <1>1, <2>2, <2>3
<1>6. ASSUME NEW g \in Goroutine, NEW n \in Name, NEW a \in Addr \cup {Null},
             op' = [op EXCEPT ![g] = [NoCall EXCEPT !.name = n, !.arg = a]]
      PROVE  op' \in [Goroutine -> Op]
  <2>1. [NoCall EXCEPT !.name = n, !.arg = a] \in Op
    BY Zenon, <1>2
  <2> HIDE DEF Op
  <2> QED BY Zenon, <1>1, <1>6, <2>1
<1>7. ASSUME NEW g \in Goroutine, NEW n \in Name, op' = [op EXCEPT ![g] = [NoCall EXCEPT !.name = n]]
      PROVE  op' \in [Goroutine -> Op]
  <2>1. [NoCall EXCEPT !.name = n] \in Op
    BY Zenon, <1>3
  <2> HIDE DEF Op
  <2> QED BY Zenon, <1>1, <1>7, <2>1
<1>8. \A a, kind : Frees(a, kind) => heap' \in [Addr -> {"none", "table", "tasks"}]
  BY Zenon, <1>1 DEF BoxTypes, Frees
<1> DEFINE Goal == /\ heap' \in [Addr -> {"none", "table", "tasks"}]
                   /\ op' \in [Goroutine -> Op]
                   /\ ct' \in [Goroutine -> Addr \cup {Null}]
                   /\ garbage' \subseteq Addr /\ bgs' \subseteq Addr
<1>9. SUFFICES Goal
  BY Zenon DEF BoxTypes
<1> HIDE DEF Op
<1>10. ASSUME NEW g \in Goroutine, Begins(g) PROVE Goal
  <2>1. op' \in [Goroutine -> Op]
    <3>1. Invokes \cup {"Wait", "Initialize"} \subseteq Name
      BY Zenon DEF Name
    <3>2. CASE \E name \in Invokes : \E arg \in {ct[g], Null} :
                 op' = [op EXCEPT ![g] = [NoCall EXCEPT !.name = name, !.arg = arg]]
      BY Zenon, <1>1, <1>6, <3>1, <3>2 DEF BoxTypes
    <3>3. CASE \E a \in bgs : op' = [op EXCEPT ![g] = [NoCall EXCEPT !.name = "Wait", !.arg = a]]
      BY Zenon, <1>1, <1>6, <3>1, <3>3 DEF BoxTypes
    <3>4. CASE op' = [op EXCEPT ![g] = [NoCall EXCEPT !.name = "Initialize"]]
      BY Zenon, <1>7, <3>1, <3>4
    <3> QED BY Zenon, <1>10, <3>2, <3>3, <3>4 DEF Begins
  <2>2. heap' = heap /\ ct' = ct /\ garbage' = garbage /\ bgs' \subseteq bgs
    BY Zenon, <1>10 DEF Begins, ffi
  <2> QED BY Zenon, <1>1, <2>1, <2>2 DEF BoxTypes
<1>11. ASSUME NEW g \in Goroutine, BeginsClose(g) PROVE Goal
  <2>1. op' \in [Goroutine -> Op]
    BY Zenon, <1>7, <1>11 DEF BeginsClose, Name
  <2> QED BY Zenon, <1>1, <1>11, <2>1 DEF BeginsClose, ffi, objects, BoxTypes
<1>12. ASSUME NEW g \in Goroutine, CloseTable(g) PROVE Goal
  BY Zenon, <1>1, <1>8, <1>12 DEF CloseTable, ConsumesTable, BoxTypes
<1>13. ASSUME NEW g \in Goroutine, DropTable(g) PROVE Goal
  BY Zenon, <1>1, <1>13 DEF DropTable, ffi, BoxTypes
<1>14. ASSUME NEW g \in Goroutine, Refused(g) PROVE Goal
  <2>1. heap' \in [Addr -> {"none", "table", "tasks"}]
    BY Zenon, <1>1, <1>14 DEF Refused, Leaks, ffi, BoxTypes
  <2> QED BY Zenon, <1>1, <1>4, <1>14, <2>1 DEF Refused, objects, BoxTypes
<1>15. ASSUME NEW g \in Goroutine, Enters(g), binding = "go" PROVE Goal
  <2>1. op' \in [Goroutine -> Op]
    BY Zenon, <1>5, <1>15 DEF Enters
  <2>2. op[g].name \in Invokes \cup {"Wait", "Initialize"}
    BY Zenon, <1>15 DEF Enters, MayEnter, IInv, NameInv
  <2>3. heap' \in [Addr -> {"none", "table", "tasks"}] /\ ct' \in [Goroutine -> Addr \cup {Null}]
    <3>1. CASE op[g].name \in Invokes
      BY Zenon, <1>1, <1>8, <1>15, <3>1 DEF Enters, ConsumesTable, ForgetsTable, Invokes, BoxTypes
    <3>2. CASE op[g].name = "Wait"
      BY Zenon, <1>1, <1>8, <1>15, <3>2 DEF Enters, ConsumesTasks, Invokes, BoxTypes
    <3>3. CASE op[g].name = "Initialize"
      BY Zenon, <1>1, <1>15, <3>3 DEF Enters, Invokes, BoxTypes, ffi
    <3> QED BY Zenon, <2>2, <3>1, <3>2, <3>3
  <2> QED BY Zenon, <1>1, <1>15, <2>1, <2>3 DEF Enters, BoxTypes
<1>16. ASSUME NEW g \in Goroutine, Shutdown(g) PROVE Goal
  <2>1. op' \in [Goroutine -> Op]
    BY Zenon, <1>4, <1>5, <1>16 DEF Shutdown
  <2> QED BY Zenon, <1>1, <1>16, <2>1 DEF Shutdown, BeginsShutdown, objects, ffi, BoxTypes
<1>17. ASSUME NEW g \in Goroutine, Succeeds(g), binding = "go" PROVE Goal
  <2>1. g \in InvokesUnderWay /\ RoomFor
    BY Zenon, <1>17 DEF Succeeds, InvokesUnderWay
  <2>2. PICK denied : Results(denied) /\ bgs' = bgs \cup ({NewTasks(denied)} \ {Null})
    BY Zenon, <1>17 DEF Succeeds
  <2>3. NewTable \in Addr /\ NewTasks(denied) \in Addr \cup {Null}
    BY Zenon, <2>1 DEF RoomFor, Free
  <2>4. heap' \in [Addr -> {"none", "table", "tasks"}]
    BY Zenon, <1>1, <2>2 DEF Results, BoxTypes
  <2>5. ct' \in [Goroutine -> Addr \cup {Null}]
    BY Zenon, <1>1, <1>17, <2>3 DEF Succeeds, BoxTypes
  <2>6. garbage' \subseteq Addr
    BY Zenon, <1>1, <1>17 DEF Succeeds, Dropped, BoxTypes
  <2>7. bgs' \subseteq Addr
    BY Zenon, <1>1, <2>2, <2>3 DEF BoxTypes
  <2> QED BY Zenon, <1>4, <1>17, <2>4, <2>5, <2>6, <2>7 DEF Succeeds
<1>18. ASSUME NEW g \in Goroutine, Undecodable(g) PROVE Goal
  BY Zenon, <1>1, <1>4, <1>18 DEF Undecodable, ResultsLost, BoxTypes
<1>19. ASSUME NEW g \in Goroutine,
              MarshalFails(g) \/ ReturnsError(g) \/ Initialized(g) \/ Waited(g) \/ TimesOut(g)
       PROVE  Goal
  BY Zenon, <1>1, <1>4, <1>19
     DEF MarshalFails, ReturnsError, Initialized, Waited, TimesOut, Fails, Initializes, StopsWaiting,
         objects, ffi, BoxTypes
<1>20. ASSUME NEW g \in Goroutine, ShutdownEnds(g) \/ ShutdownTimesOut(g) PROVE Goal
  BY Zenon, <1>1, <1>4, <1>20 DEF ShutdownEnds, ShutdownTimesOut, EndsShutdown, AbandonsShutdown, Closed, BoxTypes
<1>21. ASSUME FinalizeTable PROVE Goal
  BY Zenon, <1>1, <1>8, <1>21 DEF FinalizeTable, ConsumesTable, BoxTypes
<1>22. ASSUME CloseTasks PROVE Goal
  BY Zenon, <1>1, <1>8, <1>22 DEF CloseTasks, FreesTasks, ConsumesTasks, BoxTypes
<1>23. ASSUME NEW g \in Goroutine, PyCalls(g) PROVE Goal
  <2>1. op' \in [Goroutine -> Op]
    BY Zenon, <1>7, <1>23 DEF PyCalls, Name
  <2> QED BY Zenon, <1>1, <1>23, <2>1 DEF PyCalls, ffi, objects, BoxTypes
<1>24. ASSUME NEW g \in Goroutine, PyReturns(g) PROVE Goal
  BY Zenon, <1>1, <1>4, <1>24 DEF PyReturns, Spawns, ResultsLost, Initializes, Fails, ffi, objects, BoxTypes
<1>25. ASSUME NEW g \in Goroutine, PyTimesOut(g) PROVE Goal
  BY Zenon, <1>1, <1>4, <1>25 DEF PyTimesOut, ffi, objects, BoxTypes
<1>26. ASSUME DetachedEnds \/ (TasksEnd /\ UNCHANGED go) \/ UNCHANGED vars PROVE Goal
  BY Zenon, <1>1, <1>26 DEF DetachedEnds, Spawns, ResultsLost, TasksEnd, vars, ffi, go, objects, BoxTypes
<1> HIDE DEF Goal
<1> QED
  BY Zenon, <1>10, <1>11, <1>12, <1>13, <1>14, <1>15, <1>16, <1>17, <1>18, <1>19, <1>20, <1>21, <1>22,
     <1>23, <1>24, <1>25, <1>26
     DEF Next, GoNext, PyNext, Calls, Steps, Outcomes

\* Every step of a goroutine, of the collector or of a Python task leaves each box
\* with one holder.
LEMMA BoxStepPreserves ==
  ASSUME Threads \subseteq {"InvokeByName"}, IInv, BoxTypes, binding = "go" => RoomFor, [Next]_vars,
         IF binding = "go" THEN Bound /\ Closers ELSE Unbound
  PROVE  BoxTypes' /\ IF binding = "go" THEN Bound' /\ Closers' /\ Roomy ELSE Unbound'
<1>1. Types /\ BoxTypes /\ BoxTypes' /\ (binding = "go" => Bound /\ Closers) /\ (binding # "go" => Unbound)
  BY Zenon, BoxTypesKept DEF IInv
<1>3. \A g \in Goroutine : Returns(g) =>
        /\ pc'[g] = "idle" /\ op'[g] = NoCall
        /\ \A h \in Goroutine : h # g => op'[h] = op[h] /\ pc'[h] = pc[h]
  BY Zenon, <1>1 DEF Returns, Types, BoxTypes
<1>4. ASSUME binding = "go", NEW g \in Goroutine, Calls(g) PROVE Bound' /\ Roomy
  <2>1. CASE Begins(g)
    BY Zenon, <1>1, <1>4, <2>1, CallBegun
  <2>2. CASE BeginsClose(g)
    <3>1. pc'[g] = "locking" /\ op'[g].name = "Shutdown" /\ pc[g] = "idle"
      BY Zenon, <1>1, <2>2 DEF BeginsClose, Types, BoxTypes, NoCall
    <3>2. \A h \in Goroutine : h # g => op'[h] = op[h] /\ pc'[h] = pc[h]
      BY Zenon, <1>1, <2>2 DEF BeginsClose, Types, BoxTypes
    <3>3. op[g] = NoCall
      BY Zenon, <1>1, <1>4, <3>1 DEF Bound, ArgInv
    <3>4. ~Waiting(g)
      BY <3>3 DEF Waiting, NoCall
    <3>5. heap' = heap /\ misused' = misused /\ ct' = ct /\ garbage' = garbage /\ bgs' = bgs
      BY Zenon, <2>2 DEF BeginsClose, ffi, objects
    <3> QED BY Zenon, <1>1, <1>4, <3>1, <3>2, <3>4, <3>5, BoxesLeft DEF Roomy, Invokes
  <2>3. CASE CloseTable(g)
    <3>1. ct[g] \in Addr /\ heap[ct[g]] = "table" /\ Frees(ct[g], "table")
      BY Zenon, <1>1, <1>4, <2>3 DEF CloseTable, ConsumesTable, Bound, TablesOwn, BoxTypes
    <3>2. Forgets(ct[g])
      BY Zenon, <3>1, FreesRightly
    <3> QED BY Zenon, <1>1, <1>4, <2>3, <3>1, <3>2, TableFreed DEF Roomy, CloseTable
  <2>4. CASE DropTable(g)
    BY Zenon, <1>1, <1>4, <2>4, TableDropped DEF Roomy
  <2> QED BY Zenon, <1>4, <2>1, <2>2, <2>3, <2>4 DEF Calls
<1>5. ASSUME binding = "go", NEW g \in Goroutine, Refused(g) PROVE Bound' /\ Roomy
  <2>1. CASE op[g].name = "Wait"
    <3>1. Waiting(g) /\ Leaks(op[g].arg) /\ Returns(g) /\ UNCHANGED objects
      BY Zenon, <1>5, <2>1 DEF Refused, MayEnter, Waiting
    <3>2. op[g].arg \in Addr
      BY Zenon, <1>1, <1>5, <3>1 DEF Bound, ArgInv
    <3>3. Forgets(op[g].arg)
      BY <3>1, <3>2 DEF Leaks, Forgets, Addr, Null
    <3> QED BY Zenon, <1>1, <1>3, <1>5, <3>1, <3>2, <3>3, TasksFreed DEF Roomy, objects
  <2>2. CASE op[g].name # "Wait"
    <3>1. UNCHANGED ffi /\ UNCHANGED objects /\ Returns(g) /\ ~Waiting(g)
      BY Zenon, <1>5, <2>2 DEF Refused, Waiting
    <3> QED BY Zenon, <1>1, <1>3, <1>5, <3>1, BoxesLeft DEF Roomy, ffi, objects
  <2> QED BY Zenon, <2>1, <2>2
<1>6. ASSUME binding = "go", NEW g \in Goroutine, Enters(g) PROVE Bound' /\ Roomy
  <2>1. /\ pc[g] = "locking" /\ pc'[g] = "running" /\ garbage' = garbage /\ bgs' = bgs
        /\ \A h \in Goroutine : h # g => op'[h] = op[h] /\ pc'[h] = pc[h]
        /\ op'[g].name = op[g].name /\ op'[g].arg = op[g].arg
    <3>1. PICK y \in Yields(g) : op' = [op EXCEPT ![g].yields = y]
      BY Zenon, <1>6 DEF Enters
    <3>2. /\ op'[g].name = op[g].name /\ op'[g].arg = op[g].arg
          /\ \A h \in Goroutine : h # g => op'[h] = op[h]
      BY <1>1, <3>1 DEF BoxTypes
    <3>3. /\ pc[g] = "locking" /\ pc'[g] = "running"
          /\ \A h \in Goroutine : h # g => pc'[h] = pc[h]
      BY Zenon, <1>1, <1>6 DEF Enters, MayEnter, Types
    <3> QED BY Zenon, <1>6, <3>2, <3>3 DEF Enters
  <2>2. CASE op[g].name \in Invokes
    <3>1. ConsumesTable(op[g].arg) /\ ForgetsTable(g)
      BY Zenon, <1>6, <2>2 DEF Enters, Invokes
    <3>2. op[g].arg = Null \/ heap[op[g].arg] = "table"
      <4>1. ArgInv /\ TablesOwn
        BY Zenon, <1>1, <1>6 DEF Bound
      <4>2. op[g].arg \in {ct[g], Null}
        BY Zenon, <2>1, <2>2, <4>1 DEF ArgInv
      <4> QED BY Zenon, <4>1, <4>2 DEF TablesOwn
    <3>3. Forgets(op[g].arg)
      BY Zenon, <3>1, <3>2, FreesRightly DEF ConsumesTable
    <3>4. ct' = IF op[g].arg = Null THEN ct ELSE [ct EXCEPT ![g] = Null]
      BY Zenon, <1>1, <1>6, <2>2, <3>1 DEF ForgetsTable, Bound, ArgInv
    <3> QED BY Zenon, <1>1, <1>6, <2>1, <2>2, <3>3, <3>4, TableTaken DEF Roomy
  <2>3. CASE op[g].name = "Wait"
    <3>1. ConsumesTasks(op[g].arg, g) /\ ct' = ct /\ Waiting(g)
      BY Zenon, <1>6, <2>1, <2>3 DEF Enters, Invokes, Waiting
    <3>2. op[g].arg \in Addr /\ heap[op[g].arg] = "tasks"
      BY Zenon, <1>1, <1>6, <3>1 DEF Bound, ArgInv, TasksOwn
    <3>3. Forgets(op[g].arg)
      BY Zenon, <3>1, <3>2, FreesRightly DEF ConsumesTasks
    <3> QED BY Zenon, <1>1, <1>6, <2>1, <2>3, <3>1, <3>2, <3>3, TasksFreed DEF Roomy
  <2>4. CASE op[g].name = "Initialize"
    <3>1. UNCHANGED <<ffi, ct>> /\ ~Waiting(g)
      BY Zenon, <1>6, <2>4 DEF Enters, Invokes, Waiting
    <3> QED BY Zenon, <1>1, <1>6, <2>1, <2>4, <3>1, BoxesLeft DEF Roomy, ffi, Invokes
  <2>5. op[g].name \in Invokes \cup {"Wait", "Initialize"}
    BY Zenon, <1>6 DEF Enters, MayEnter, IInv, NameInv
  <2> QED BY Zenon, <2>2, <2>3, <2>4, <2>5
<1>7. ASSUME binding = "go", NEW g \in Goroutine, Shutdown(g) PROVE Bound' /\ Roomy
  <2>1. /\ heap' = heap /\ misused' = misused /\ ct' = ct /\ garbage' = garbage /\ bgs' = bgs
        /\ ~Waiting(g) /\ op[g].name = "Shutdown"
    BY Zenon, <1>7 DEF Shutdown, BeginsShutdown, ffi, objects, Waiting
  <2>2. CASE handle
    <3>1. PICK y \in Yields(g) : op' = [op EXCEPT ![g].yields = y]
      BY Zenon, <1>7, <2>2 DEF Shutdown
    <3>2. op'[g].name = "Shutdown" /\ \A h \in Goroutine : h # g => op'[h] = op[h]
      BY <1>1, <2>1, <3>1 DEF BoxTypes
    <3>3. pc'[g] = "closing" /\ \A h \in Goroutine : h # g => pc'[h] = pc[h]
      BY Zenon, <1>1, <1>7, <2>2 DEF Shutdown, Types
    <3> QED BY Zenon, <1>1, <1>7, <2>1, <3>2, <3>3, BoxesLeft DEF Roomy, Invokes
  <2>3. CASE ~handle
    <3>1. Returns(g)
      BY Zenon, <1>7, <2>3 DEF Shutdown
    <3> QED BY Zenon, <1>1, <1>3, <1>7, <2>1, <3>1, BoxesLeft DEF Roomy
  <2> QED BY Zenon, <2>2, <2>3
<1>8. ASSUME binding = "go", NEW g \in Goroutine,
             \/ MarshalFails(g) \/ Undecodable(g) \/ ReturnsError(g) \/ Initialized(g) \/ Waited(g)
             \/ TimesOut(g) \/ ShutdownEnds(g) \/ ShutdownTimesOut(g)
      PROVE  Bound' /\ Roomy
  <2>1. Returns(g)
    BY Zenon, <1>8 DEF MarshalFails, Undecodable, ReturnsError, Initialized, Waited, TimesOut, ShutdownEnds,
               ShutdownTimesOut, Closed
  <2>2. ~Waiting(g)
    <3>1. CASE MarshalFails(g)
      BY Zenon, <3>1 DEF MarshalFails, Waiting, Invokes
    <3>2. CASE ShutdownEnds(g) \/ ShutdownTimesOut(g)
      <4>1. pc[g] = "closing"
        BY Zenon, <3>2 DEF ShutdownEnds, ShutdownTimesOut
      <4> QED BY Zenon, <1>1, <1>8, <4>1 DEF Closers, Waiting
    <3>3. CASE pc[g] = "running"
      BY Zenon, <3>3 DEF Waiting
    <3> QED BY Zenon, <1>8, <3>1, <3>2, <3>3 DEF Undecodable, ReturnsError, Initialized, Waited, TimesOut
  <2>3. heap' = heap /\ misused' = misused /\ garbage' = garbage /\ bgs' = bgs
    BY Zenon, <1>8 DEF MarshalFails, Undecodable, ReturnsError, Initialized, Waited, TimesOut, ShutdownEnds,
               ShutdownTimesOut, Closed, ResultsLost, Fails, Initializes, StopsWaiting, EndsShutdown,
               AbandonsShutdown, ffi, objects
  <2>4. ct' = ct
    <3>1. CASE Undecodable(g)
      <4>1. ct[g] = op[g].arg => ct[g] = Null
        BY Zenon, <1>1, <1>8, <3>1 DEF Undecodable, Bound, ArgInv
      <4> QED BY <1>1, <3>1, <4>1 DEF Undecodable, BoxTypes
    <3>2. CASE ~Undecodable(g)
      BY Zenon, <1>8, <3>2 DEF MarshalFails, ReturnsError, Initialized, Waited, TimesOut, ShutdownEnds,
                        ShutdownTimesOut, Closed, objects
    <3> QED BY Zenon, <3>1, <3>2
  <2> QED BY Zenon, <1>1, <1>3, <1>8, <2>1, <2>2, <2>3, <2>4, BoxesLeft DEF Roomy
<1>9. ASSUME binding = "go", FinalizeTable PROVE Bound' /\ Roomy
  <2>1. PICK a \in garbage : ConsumesTable(a) /\ garbage' = garbage \ {a}
                             /\ UNCHANGED <<mutex, pc, op, handle, ct, bgs>>
    BY Zenon, <1>9 DEF FinalizeTable
  <2>2. a \in Addr /\ heap[a] = "table"
    BY Zenon, <1>1, <1>9 DEF Bound, TablesOwn, BoxTypes
  <2>3. Forgets(a)
    BY Zenon, <2>1, <2>2, FreesRightly DEF ConsumesTable
  <2> QED BY Zenon, <1>1, <1>9, <2>1, <2>2, <2>3, TableFreed DEF Roomy
<1>10. ASSUME binding = "go", CloseTasks PROVE Bound' /\ Roomy
  <2>1. PICK a \in bgs : FreesTasks(a) /\ bgs' = bgs \ {a}
                         /\ UNCHANGED <<mutex, pc, op, handle, ct, garbage>>
    BY Zenon, <1>10 DEF CloseTasks
  <2>2. a \in Addr /\ heap[a] = "tasks"
    BY Zenon, <1>1, <1>10 DEF Bound, TasksOwn, BoxTypes
  <2>3. Forgets(a)
    BY Zenon, <2>1, <2>2, FreesRightly DEF FreesTasks, ConsumesTasks
  <2> QED BY Zenon, <1>1, <1>10, <2>1, <2>2, <2>3, TasksFreed DEF Roomy
<1>11. ASSUME binding = "go", heap' = heap, misused' = misused, UNCHANGED go PROVE Bound' /\ Roomy
  <2>1. Bound
    BY Zenon, <1>1, <1>11
  <2>2. /\ pc' = pc /\ op' = op /\ ct' = ct /\ bgs' = bgs /\ garbage' = garbage
        /\ heap' = heap /\ misused' = misused
    BY Zenon, <1>11 DEF go, objects
  <2>3. ArgInv'
    BY Zenon, <2>1, <2>2 DEF Bound, ArgInv, Waiting
  <2>4. TablesOwn' /\ TasksOwn'
    BY Zenon, <2>1, <2>2 DEF Bound, TablesOwn, TasksOwn, Waiting
  <2>5. AllOwned'
    BY Zenon, <2>1, <2>2 DEF Bound, AllOwned, Waiting
  <2>6. Eases
    BY Zenon, <2>2 DEF Eases, Free, InvokesUnderWay
  <2> QED BY Zenon, <2>1, <2>2, <2>3, <2>4, <2>5, <2>6 DEF Bound, Roomy
<1>12. ASSUME binding # "go", PyNext \/ (TasksEnd /\ UNCHANGED go) \/ UNCHANGED vars PROVE Unbound'
  <2>0. Unbound
    BY Zenon, <1>1, <1>12
  <2>1. misused' = misused /\ ct' = ct /\ garbage' = garbage /\ bgs' = bgs
    BY Zenon, <1>12 DEF PyNext, PyCalls, PyReturns, PyTimesOut, DetachedEnds, Spawns, ResultsLost, Initializes,
                Fails, TasksEnd, vars, ffi, go, objects
  <2>2. \A g \in Goroutine : op'[g] = op[g] \/ op'[g].name # "Wait"
    <3>1. CASE DetachedEnds \/ (TasksEnd /\ UNCHANGED go) \/ UNCHANGED vars
      BY Zenon, <3>1 DEF DetachedEnds, vars, go
    <3>2. ASSUME NEW h \in Goroutine, PyCalls(h)
          PROVE  \A g \in Goroutine : op'[g] = op[g] \/ op'[g].name # "Wait"
      BY <1>1, <3>2 DEF PyCalls, BoxTypes, NoCall
    <3>3. ASSUME NEW h \in Goroutine, PyReturns(h) \/ PyTimesOut(h)
          PROVE  \A g \in Goroutine : op'[g] = op[g] \/ op'[g].name # "Wait"
      BY <1>3, <3>3 DEF PyReturns, PyTimesOut, NoCall
    <3> QED BY Zenon, <1>12, <3>1, <3>2, <3>3 DEF PyNext
  <2> QED BY Zenon, <2>0, <2>1, <2>2 DEF Unbound
<1>13. CASE binding = "go"
  <2>1. \/ \E g \in Goroutine : Calls(g) \/ Steps(g) \/ Outcomes(g)
        \/ FinalizeTable \/ CloseTasks \/ (TasksEnd /\ UNCHANGED go) \/ UNCHANGED vars
    BY Zenon, <1>13 DEF Next, GoNext
  <2>2. ASSUME (TasksEnd /\ UNCHANGED go) \/ UNCHANGED vars PROVE Bound' /\ Roomy
    BY Zenon, <1>11, <1>13, <2>2 DEF TasksEnd, vars, ffi
  <2>3. Bound' /\ Roomy
    BY Zenon, <1>1, <1>4, <1>5, <1>6, <1>7, <1>8, <1>9, <1>10, <1>13, <2>1, <2>2, ResultBound
       DEF Steps, Outcomes
  <2>4. Closers'
    <3>0. Closers
      BY Zenon, <1>1, <1>13
    <3>1. ASSUME NEW g \in Goroutine, Calls(g) \/ Steps(g) \/ Outcomes(g)
          PROVE  \/ op' = op /\ pc' = pc
                 \/ /\ pc'[g] # "closing" \/ (Shutdown(g) /\ handle)
                    /\ \A h \in Goroutine : h # g => op'[h] = op[h] /\ pc'[h] = pc[h]
      <4>1. CASE Returns(g)
        BY Zenon, <1>3, <4>1
      <4>2. CASE Begins(g)
        BY Zenon, <1>1, <4>2 DEF Begins, Types, BoxTypes
      <4>3. CASE BeginsClose(g)
        BY Zenon, <1>1, <4>3 DEF BeginsClose, Types, BoxTypes
      <4>4. CASE Enters(g)
        BY Zenon, <1>1, <4>4 DEF Enters, Types, BoxTypes
      <4>5. CASE Shutdown(g) /\ handle
        BY Zenon, <1>1, <4>5 DEF Shutdown, Types, BoxTypes
      <4>6. CASE Shutdown(g) /\ ~handle
        BY Zenon, <4>1, <4>6 DEF Shutdown
      <4>7. CASE CloseTable(g) \/ DropTable(g)
        BY Zenon, <4>7 DEF CloseTable, DropTable
      <4> QED
        BY Zenon, <3>1, <4>1, <4>2, <4>3, <4>4, <4>5, <4>6, <4>7
           DEF Calls, Steps, Outcomes, Refused, TimesOut, ShutdownTimesOut, ShutdownEnds, Closed,
               MarshalFails, Succeeds, Undecodable, ReturnsError, Initialized, Waited
    <3>2. ASSUME NEW g \in Goroutine, Shutdown(g), handle PROVE op'[g].name = "Shutdown"
      <4>1. PICK y \in Yields(g) : op' = [op EXCEPT ![g].yields = y]
        BY Zenon, <3>2 DEF Shutdown
      <4> QED BY <1>1, <3>2, <4>1 DEF Shutdown, BoxTypes
    <3>3. ASSUME op' = op /\ pc' = pc PROVE Closers'
      BY Zenon, <3>0, <3>3 DEF Closers
    <3>4. ASSUME NEW g \in Goroutine, Calls(g) \/ Steps(g) \/ Outcomes(g) PROVE Closers'
      BY Zenon, <3>0, <3>1, <3>2, <3>4 DEF Closers
    <3> QED BY Zenon, <2>1, <3>3, <3>4 DEF FinalizeTable, CloseTasks, go, vars
  <2> QED BY Zenon, <1>1, <1>13, <2>3, <2>4
<1>14. CASE binding # "go"
  BY Zenon, <1>1, <1>12, <1>14 DEF Next
<1> QED BY Zenon, <1>13, <1>14

-----------------------------------------------------------------------------
INSTANCE FiniteSetTheorems

INSTANCE WellFoundedInduction

\* There is room for the boxes of every invocation under way.
RoomInv ==
  /\ IsFiniteSet(InvokesUnderWay)
  /\ Cardinality(Free) >= 2 * Cardinality(InvokesUnderWay)

\* Every box has one holder.
BoxInv == BoxTypes /\ (IF binding = "go" THEN Bound /\ Closers /\ RoomInv ELSE Unbound)

\* The addresses that are taken are finitely many.
LEMMA FreeFinite == IsFiniteSet(Free) /\ Cardinality(Free) \in Nat
<1>1. IsFiniteSet(Addr)
  BY FS_Interval DEF Addr
<1>2. Free \in SUBSET Addr
  BY Zenon DEF Free
<1> QED BY Zenon, <1>1, <1>2, FS_Subset, FS_CardinalityType

\* A set of addresses that is not empty has a least one.
LEMMA LeastAddr ==
  ASSUME NEW S \in SUBSET Addr, S # {}
  PROVE  (CHOOSE a \in S : \A b \in S : a <= b) \in S
<1> DEFINE R == {ss \in Nat \X Nat : ss[1] < ss[2]}
<1>1. IsWellFoundedOn(R, Nat)
  BY Zenon, NatLessThanWellFounded DEF OpToRel
<1>2. S \subseteq Nat
  BY DEF Addr
<1>3. \E x \in S : \A y \in S : ~(<<y, x>> \in R)
  <2> HIDE DEF R
  <2> QED BY Zenon, <1>1, <1>2, WFMin
<1>4. PICK x \in S : \A y \in S : ~(<<y, x>> \in R)
  BY Zenon, <1>3
<1>5. \A y \in S : ~(y < x)
  BY Zenon, <1>2, <1>4
<1>6. \A y \in S : x <= y
  <2> HIDE DEF R
  <2> QED BY <1>2, <1>5
<1> QED BY Zenon, <1>6

\* An invocation under way finds an address for each box of its result.
LEMMA NewBoxes == RoomInv => RoomFor
<1> SUFFICES ASSUME RoomInv, NEW g \in InvokesUnderWay
             PROVE  /\ NewTable \in Free
                    /\ \A denied : NewTasks(denied) = Null \/ NewTasks(denied) \in Free \ {NewTable}
  BY Zenon DEF RoomFor
<1>1. Cardinality(InvokesUnderWay) \in Nat /\ Cardinality(InvokesUnderWay) # 0
  BY Zenon, FS_CardinalityType, FS_EmptySet DEF RoomInv
<1>2. Cardinality(Free) >= 2
  BY <1>1, FreeFinite DEF RoomInv
<1>3. Free # {}
  BY <1>2, FS_EmptySet
<1>4. Free \in SUBSET Addr
  BY Zenon DEF Free
<1>5. NewTable \in Free
  BY Zenon, <1>3, <1>4, LeastAddr DEF NewTable
<1>6. Free \ {NewTable} # {}
  <2>1. Cardinality(Free \ {NewTable}) = Cardinality(Free) - 1
    BY Zenon, <1>5, FreeFinite, FS_RemoveElement
  <2>2. Cardinality(Free \ {NewTable}) # 0
    BY <1>2, <2>1, FreeFinite
  <2> QED BY Zenon, <2>2, FS_EmptySet
<1>7. Free \ {NewTable} \in SUBSET Addr
  BY Zenon, <1>4
<1>8. (CHOOSE a \in Free \ {NewTable} : \A b \in Free \ {NewTable} : a <= b) \in Free \ {NewTable}
  BY Zenon, <1>6, <1>7, LeastAddr
<1> QED BY Zenon, <1>5, <1>8 DEF NewTasks

\* Invocations begin only when there is room, and take two boxes at most.
LEMMA RoomKept ==
  ASSUME RoomInv, Roomy
  PROVE  RoomInv'
<1>0. IsFiniteSet(Free') /\ Cardinality(Free') \in Nat
  <2>1. IsFiniteSet(Addr)
    BY FS_Interval DEF Addr
  <2>2. Free' \in SUBSET Addr
    BY Zenon DEF Free
  <2> QED BY Zenon, <2>1, <2>2, FS_Subset, FS_CardinalityType
<1>1. Cardinality(InvokesUnderWay) \in Nat
  BY Zenon, FS_CardinalityType DEF RoomInv
<1>2. CASE Eases
  <2>1. Cardinality(Free) <= Cardinality(Free')
    BY Zenon, <1>0, <1>2, FS_Subset DEF Eases
  <2>2. /\ IsFiniteSet(InvokesUnderWay')
        /\ Cardinality(InvokesUnderWay') <= Cardinality(InvokesUnderWay)
    BY Zenon, <1>2, FS_Subset DEF RoomInv, Eases
  <2>3. Cardinality(InvokesUnderWay') \in Nat
    BY Zenon, <2>2, FS_CardinalityType
  <2> QED BY <1>0, <1>1, <2>1, <2>2, <2>3, FreeFinite DEF RoomInv
<1>3. ASSUME NEW g, Takes(g) PROVE RoomInv'
  <2>1. IsFiniteSet(InvokesUnderWay') /\ Cardinality(InvokesUnderWay') = Cardinality(InvokesUnderWay) + 1
    BY Zenon, <1>3, FS_AddElement DEF RoomInv, Takes
  <2> QED BY Zenon, <1>3, <2>1 DEF RoomInv, Takes, Room
<1>4. ASSUME NEW g, NEW t, NEW b, Fills(g, t, b) PROVE RoomInv'
  <2>1. IsFiniteSet(InvokesUnderWay') /\ Cardinality(InvokesUnderWay') = Cardinality(InvokesUnderWay) - 1
    BY Zenon, <1>4, FS_RemoveElement DEF RoomInv, Fills
  <2>2. IsFiniteSet(Free \ {t}) /\ Cardinality(Free \ {t}) = Cardinality(Free) - 1
    BY Zenon, <1>4, FreeFinite, FS_RemoveElement DEF Fills
  <2>3. Cardinality(Free') >= Cardinality(Free) - 2
    <3>1. CASE b \in Free \ {t}
      <4>1. Cardinality(Free') = Cardinality(Free \ {t}) - 1
        BY Zenon, <1>4, <2>2, <3>1, FS_RemoveElement DEF Fills
      <4> QED BY <2>2, <4>1, FreeFinite
    <3>2. CASE b \notin Free \ {t}
      <4>1. Free' = Free \ {t}
        BY Zenon, <1>4, <3>2 DEF Fills
      <4> QED BY <2>2, <4>1, FreeFinite
    <3> QED BY Zenon, <3>1, <3>2
  <2> QED BY <1>0, <1>1, <2>1, <2>3, FreeFinite DEF RoomInv
<1> QED BY Zenon, <1>2, <1>3, <1>4 DEF Roomy

\* At first there are no boxes.
LEMMA BoxInitEstablishes == Init => BoxInv
<1> SUFFICES ASSUME Init PROVE BoxInv
  BY Zenon
<1>1. BoxTypes
  BY Zenon DEF Init, FfiInit, GoInit, BoxTypes, NoCall, Name
<1>2. \A g \in Goroutine : op[g] = NoCall /\ ~Waiting(g) /\ ct[g] = Null /\ op[g].name = "none"
  BY Zenon DEF Init, GoInit, NoCall, Waiting
<1>3. RoomInv
  <2>1. InvokesUnderWay = {}
    BY Zenon, <1>2 DEF InvokesUnderWay, Invokes
  <2>2. Cardinality(InvokesUnderWay) = 0 /\ IsFiniteSet(InvokesUnderWay)
    BY Zenon, <2>1, FS_EmptySet
  <2> QED BY <2>2, FreeFinite DEF RoomInv
<1>4. ArgInv /\ TablesOwn /\ TasksOwn /\ AllOwned /\ misused = {} /\ garbage = {} /\ bgs = {}
  BY Zenon, <1>2 DEF Init, FfiInit, GoInit, ArgInv, TablesOwn, TasksOwn, AllOwned, Invokes
<1>5. Closers
  BY Zenon DEF Init, GoInit, Closers
<1> QED BY Zenon, <1>1, <1>2, <1>3, <1>4, <1>5 DEF BoxInv, Bound, Unbound

\* When the host passes its context tables to InvokeByName, every box that crosses
\* the interface has one owner until it is freed: no call, Close or finalizer frees
\* or reads a box that is gone, and none is forgotten, whatever calls return and
\* however they interleave with a shutdown (lib.rs 699-723, manager.go 364-368,
\* 622-637).
THEOREM HandlesOwned ==
  ASSUME Threads \subseteq {"InvokeByName"}
  PROVE  Spec => []HandlesAccounted
<1>1. BoxInv => HandlesAccounted
  <2> SUFFICES ASSUME BoxInv PROVE HandlesAccounted
    BY Zenon
  <2>1. TasksHeld = bgs \cup {op[g].arg : g \in {h \in Goroutine : Waiting(h)}}
    BY Zenon DEF TasksHeld, Waiting
  <2>2. CASE binding = "go"
    <3>1. Bound /\ BoxTypes
      BY Zenon, <2>2 DEF BoxInv
    <3>2. HandlesValid
      <4>1. \A a \in Tables : heap[a] = "table" /\ a \notin garbage
        BY Zenon, <3>1 DEF Tables, Bound, TablesOwn
      <4>2. \A a \in garbage : heap[a] = "table"
        BY Zenon, <3>1 DEF Bound, TablesOwn
      <4>3. \A a \in TasksHeld : heap[a] = "tasks"
        BY Zenon, <2>1, <3>1 DEF Bound, TasksOwn
      <4>4. \A g, h \in Goroutine : g # h /\ ct[g] # Null => ct[g] # ct[h]
        BY Zenon, <3>1 DEF Bound, TablesOwn
      <4>5. misused = {}
        BY Zenon, <3>1 DEF Bound
      <4> QED BY Zenon, <4>1, <4>2, <4>3, <4>4, <4>5 DEF HandlesValid
    <3>3. NoneForgotten
      BY <2>1, <3>1 DEF NoneForgotten, Tables, Bound, AllOwned, Addr, Null
    <3> QED BY Zenon, <3>2, <3>3 DEF HandlesAccounted
  <2>3. CASE binding # "go"
    <3>1. Unbound
      BY Zenon, <2>3 DEF BoxInv
    <3>2. Tables = {} /\ TasksHeld = {} /\ garbage = {}
      BY Zenon, <2>1, <3>1 DEF Unbound, Tables, Waiting
    <3> QED BY Zenon, <2>3, <3>1, <3>2 DEF HandlesAccounted, HandlesValid, NoneForgotten, Unbound
  <2> QED BY Zenon, <2>2, <2>3
<1>2. Init => BoxInv
  BY Zenon, BoxInitEstablishes
<1>3. IInv /\ BoxInv /\ [Next]_vars => BoxInv'
  <2> SUFFICES ASSUME IInv, BoxInv, [Next]_vars PROVE BoxInv'
    BY Zenon
  <2>1. BoxTypes' /\ IF binding = "go" THEN Bound' /\ Closers' /\ Roomy ELSE Unbound'
    BY Zenon, BoxStepPreserves, NewBoxes DEF BoxInv
  <2>2. binding' = binding
    BY Zenon DEF Next, vars
  <2> QED BY Zenon, <2>1, <2>2, RoomKept DEF BoxInv
<1> QED BY <1>1, <1>2, <1>3, InitEstablishes, StepPreserves, PTL DEF Spec
=============================================================================
