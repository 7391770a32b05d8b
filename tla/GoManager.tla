----------------------------- MODULE GoManager -----------------------------
(***************************************************************************)
(* The Go wrapper of the runtime: goroutines that call a manager, wait for *)
(* background tasks and shut the manager down, under its RWMutex, and the  *)
(* objects that hold the addresses of boxes.                               *)
(*                                                                         *)
(* A goroutine threads one context table through its calls, as the table   *)
(* is not for concurrent use; a background handle is waited for or closed  *)
(* once, by any goroutine.                                                 *)
(***************************************************************************)
EXTENDS CpexFfi

CONSTANTS
  Goroutine,
  Threads, \* the calls the host passes context tables to
  Blocks   \* may a plugin block its thread for good, instead of yielding?

ASSUME GoAssumption == Threads \subseteq {"InvokeByName", "InvokeResolved"} /\ Blocks \in BOOLEAN

VARIABLES
  readers, writer, queued, \* the RWMutex: who holds it, and writers that wait for it
  handle,  \* is m.handle set?
  pc,      \* where each goroutine is in its call
  op,      \* its call: [name, arg, yields]
  ct,      \* the handle of the ContextTable each goroutine has
  garbage, \* handles of ContextTables nobody has any more
  bgs      \* handles of BackgroundTasks

mutex == <<readers, writer, queued>>

objects == <<handle, ct, garbage, bgs>>

go == <<mutex, objects, pc, op>>

NoCall == [name |-> "none", arg |-> Null, yields |-> TRUE]

Nobody == {}

GoInit ==
  /\ readers = {} /\ writer = Nobody /\ queued = {}
  /\ handle = TRUE
  /\ pc = [g \in Goroutine |-> "idle"]
  /\ op = [g \in Goroutine |-> NoCall]
  /\ ct = [g \in Goroutine |-> Null]
  /\ garbage = {} /\ bgs = {}

Invokes == {"InvokeByName", "InvokeResolved"}

Returns(g) == pc' = [pc EXCEPT ![g] = "idle"] /\ op' = [op EXCEPT ![g] = NoCall]
-----------------------------------------------------------------------------
(* sync.RWMutex: external.  A writer that waits keeps new readers out. *)

MayRead == writer = Nobody /\ queued = {}

RLock(g) == MayRead /\ readers' = readers \cup {g} /\ UNCHANGED <<writer, queued>>

RUnlock(g) == readers' = readers \ {g} /\ UNCHANGED <<writer, queued>>

Lock(g) ==
  /\ readers = {} /\ writer = Nobody
  /\ writer' = {g} /\ queued' = queued \ {g} /\ UNCHANGED readers

Unlock(g) == writer' = Nobody /\ UNCHANGED <<readers, queued>>
-----------------------------------------------------------------------------
(* Calls that read-lock *)

\* Addresses the results of the invocations under way may take.
Room(n) == Cardinality(Free) >= 2 * n

InvokesUnderWay == {g \in Goroutine : op[g].name \in Invokes}

\* The host calls.  Every call but the invocations and Wait only asks or changes
\* the manager; Initialize is the one whose effect matters here.
Begins(g) ==
  /\ pc[g] = "idle"
  /\ \/ \E name \in Invokes :
          /\ Room(Cardinality(InvokesUnderWay) + 1)
          /\ \E arg \in (IF name \in Threads THEN {ct[g]} ELSE {}) \cup {Null} :
               op' = [op EXCEPT ![g] = [NoCall EXCEPT !.name = name, !.arg = arg]]
          /\ UNCHANGED bgs
     \/ \E a \in bgs :
          /\ op' = [op EXCEPT ![g] = [NoCall EXCEPT !.name = "Wait", !.arg = a]]
          /\ bgs' = bgs \ {a}
     \/ op' = [op EXCEPT ![g] = [NoCall EXCEPT !.name = "Initialize"]] /\ UNCHANGED bgs
  /\ pc' = [pc EXCEPT ![g] = "locking"]
  /\ UNCHANGED <<ffi, mutex, handle, ct, garbage>>

\* A goroutine gets the lock and reads m.handle, which only a writer changes: up
\* to the entry into Rust this is one step.
MayEnter(g) == pc[g] = "locking" /\ op[g].name # "Shutdown" /\ MayRead

\* Fault: the table of a call that was refused is forgotten.
RefusedForgets(g) ==
  /\ MayEnter(g) /\ ~handle
  /\ Returns(g)
  /\ IF op[g].name = "Wait" THEN Leaks(op[g].arg) ELSE UNCHANGED ffi
  /\ ct' = [ct EXCEPT ![g] = Null]
  /\ UNCHANGED <<mutex, handle, garbage, bgs>>

\* The manager has been shut down, and Rust is not called.  Wait gives its handle
\* up; a context table stays with the caller.
Refused(g) ==
  /\ MayEnter(g) /\ ~handle
  /\ Returns(g)
  /\ IF op[g].name = "Wait" THEN Leaks(op[g].arg) ELSE UNCHANGED ffi
  /\ UNCHANGED <<mutex, objects>>

\* The payload cannot be encoded: Rust is not called either.
MarshalFails(g) ==
  /\ MayEnter(g) /\ handle /\ op[g].name \in Invokes
  /\ Returns(g)
  /\ UNCHANGED <<ffi, mutex, objects>>

\* InvokeByName forgets the handle before the call, InvokeResolved after one that
\* succeeded.
ForgetsTable(g) ==
  IF op[g].name = "InvokeByName" /\ op[g].arg # Null THEN ct' = [ct EXCEPT ![g] = Null] ELSE UNCHANGED ct

\* Plugins run on the thread of the call, unlike the background tasks that a Wait
\* is for.
Yields(g) == {TRUE} \cup (IF op[g].name = "Wait" THEN {} ELSE {~Blocks})

\* The entry into Rust, which takes the boxes it is passed.
Enters(g) ==
  /\ MayEnter(g) /\ handle
  /\ RLock(g)
  /\ pc' = [pc EXCEPT ![g] = "running"]
  /\ \E y \in Yields(g) : op' = [op EXCEPT ![g].yields = y]
  /\ CASE op[g].name \in Invokes      -> ConsumesTable(op[g].arg) /\ ForgetsTable(g)
       [] op[g].name = "Wait"         -> ConsumesTasks(op[g].arg, g) /\ UNCHANGED ct
       [] op[g].name = "Initialize"   -> UNCHANGED <<ffi, ct>>
  /\ UNCHANGED <<handle, garbage, bgs>>
-----------------------------------------------------------------------------
(* Returns from Rust *)

\* A ContextTable that is replaced by a new one is dropped.
Dropped(g) == IF ct[g] = Null \/ ct[g] = op[g].arg THEN {} ELSE {ct[g]}

\* The result arrives, and its boxes with it.
Succeeds(g) ==
  /\ pc[g] = "running" /\ op[g].name \in Invokes /\ op[g].yields
  /\ \E denied \in {FALSE} \cup {op[g].name = "InvokeResolved"} :
       /\ Results(denied)
       /\ bgs' = bgs \cup ({NewTasks(denied)} \ {Null})
  /\ ct' = [ct EXCEPT ![g] = NewTable]
  /\ garbage' = garbage \cup Dropped(g)
  /\ RUnlock(g) /\ Returns(g)
  /\ UNCHANGED handle

\* It arrives and cannot be decoded.
Undecodable(g) ==
  /\ pc[g] = "running" /\ op[g].name \in Invokes /\ op[g].yields
  /\ ResultsLost
  /\ ct' = IF ct[g] = op[g].arg THEN [ct EXCEPT ![g] = Null] ELSE ct
  /\ RUnlock(g) /\ Returns(g)
  /\ UNCHANGED <<handle, garbage, bgs>>

\* The call is invalid, its result cannot be encoded, or it panics.
ReturnsError(g) ==
  /\ pc[g] = "running" /\ op[g].name \in Invokes \cup {"Initialize"} /\ op[g].yields
  /\ Fails
  /\ RUnlock(g) /\ Returns(g)
  /\ UNCHANGED objects

Initialized(g) ==
  /\ pc[g] = "running" /\ op[g].name = "Initialize" /\ op[g].yields
  /\ Initializes
  /\ RUnlock(g) /\ Returns(g)
  /\ UNCHANGED objects

\* The tasks have ended.
Waited(g) ==
  /\ pc[g] = "running" /\ op[g].name = "Wait" /\ g \notin tasks
  /\ Fails
  /\ RUnlock(g) /\ Returns(g)
  /\ UNCHANGED objects

\* Fault: nothing bounds a call.
WallClockNever(g) == FALSE

\* The wall clock of run_safely is looked at when the call yields to the runtime.
WallClock(g) == op[g].yields

TimesOut(g) ==
  /\ pc[g] = "running" /\ WallClock(g)
  /\ StopsWaiting(g)
  /\ RUnlock(g) /\ Returns(g)
  /\ UNCHANGED objects
-----------------------------------------------------------------------------
(* Shutdown, and the finalizer of a manager that nobody else has any more *)

BeginsClose(g) ==
  /\ pc[g] = "idle"
  /\ op' = [op EXCEPT ![g] = [NoCall EXCEPT !.name = "Shutdown"]]
  /\ pc' = [pc EXCEPT ![g] = "locking"]
  /\ queued' = queued \cup {g}
  /\ UNCHANGED <<ffi, readers, writer, objects>>

\* Fault: the lock is not taken.
ShutdownUnlocked(g) ==
  /\ pc[g] = "locking" /\ op[g].name = "Shutdown"
  /\ queued' = queued \ {g} /\ UNCHANGED <<readers, writer>>
  /\ IF handle /\ manager = "alive"
     THEN BeginsShutdown /\ pc' = [pc EXCEPT ![g] = "closing"] /\ UNCHANGED op
     ELSE UNCHANGED ffi /\ Returns(g)
  /\ UNCHANGED objects

\* A manager that has been shut down is left alone.
Shutdown(g) ==
  /\ pc[g] = "locking" /\ op[g].name = "Shutdown"
  /\ IF handle
     THEN /\ Lock(g) /\ BeginsShutdown
          /\ pc' = [pc EXCEPT ![g] = "closing"]
          /\ \E y \in Yields(g) : op' = [op EXCEPT ![g].yields = y]
     ELSE /\ readers = {} /\ writer = Nobody
          /\ queued' = queued \ {g} /\ UNCHANGED <<readers, writer>>
          /\ UNCHANGED ffi /\ Returns(g)
  /\ UNCHANGED objects

Closed(g) == Unlock(g) /\ Returns(g) /\ handle' = FALSE /\ UNCHANGED <<ct, garbage, bgs>>

ShutdownEnds(g) == pc[g] = "closing" /\ op[g].yields /\ EndsShutdown /\ Closed(g)

ShutdownTimesOut(g) == pc[g] = "closing" /\ WallClock(g) /\ AbandonsShutdown /\ Closed(g)
-----------------------------------------------------------------------------
(* Handles outside of calls *)

\* ContextTable.Close by the host, and by the finalizer of one that was dropped.
CloseTable(g) ==
  /\ pc[g] = "idle" /\ ct[g] # Null
  /\ ConsumesTable(ct[g])
  /\ ct' = [ct EXCEPT ![g] = Null]
  /\ UNCHANGED <<mutex, pc, op, handle, garbage, bgs>>

DropTable(g) ==
  /\ pc[g] = "idle" /\ ct[g] # Null
  /\ garbage' = garbage \cup {ct[g]}
  /\ ct' = [ct EXCEPT ![g] = Null]
  /\ UNCHANGED <<ffi, mutex, pc, op, handle, bgs>>

FinalizeTable ==
  \E a \in garbage :
    /\ ConsumesTable(a)
    /\ garbage' = garbage \ {a}
    /\ UNCHANGED <<mutex, pc, op, handle, ct, bgs>>

\* BackgroundTasks.Close, which takes no lock.
CloseTasks ==
  \E a \in bgs :
    /\ FreesTasks(a)
    /\ bgs' = bgs \ {a}
    /\ UNCHANGED <<mutex, pc, op, handle, ct, garbage>>

Calls(g) == Begins(g) \/ BeginsClose(g) \/ CloseTable(g) \/ DropTable(g)

\* What the wrapper and the runtime do of themselves.
Steps(g) ==
  Refused(g) \/ Enters(g) \/ TimesOut(g) \/ Shutdown(g) \/ ShutdownTimesOut(g)

\* What plugins and hosts decide.
Outcomes(g) ==
  \/ MarshalFails(g) \/ Succeeds(g) \/ Undecodable(g) \/ ReturnsError(g)
  \/ Initialized(g) \/ Waited(g) \/ ShutdownEnds(g)

GoNext ==
  \/ \E g \in Goroutine : Calls(g) \/ Steps(g) \/ Outcomes(g)
  \/ FinalizeTable \/ CloseTasks
=============================================================================
