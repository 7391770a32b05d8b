------------------------- MODULE PythonPluginProofs -------------------------
(***************************************************************************)
(* For any number of invocations, workers, calls and attempts: of those    *)
(* that notice a death one replaces the worker, within the budget, the     *)
(* plugin has at most one process, and a response reaches the invocation   *)
(* it is for.                                                              *)
(***************************************************************************)
EXTENDS PythonPlugin, TLAPS

Steps ==
  {"idle", "lookup", "queue", "backoff", "reap", "launch", "verify", "send", "checked",
   "registered", "waiting", "expired", "answered"}

Types ==
  /\ process \in [Worker -> {"none", "running", "gone"}]
  /\ alive \in [Worker -> BOOLEAN]
  /\ pc \in [Caller -> Steps]
  /\ at \in [Caller -> Worker \cup {NoWorker}]
  /\ slot \in Worker \cup {NoWorker}
  /\ stopped \in Worker \cup {NoWorker}
  /\ lock \in Caller \cup {Free}
  /\ launched \in Worker \cup {NoWorker}
  /\ attempts \in Nat
  /\ host \in {"new", "up", "failed", "stopping", "down"}

\* The respawn lock is held from the reservation to the installation.
LockInv ==
  \A c \in Caller : pc[c] \in {"backoff", "reap", "launch", "verify"} <=> lock = c

\* Workers are numbered as they are launched.
NumberInv ==
  /\ \A w \in Worker : w > launched => process[w] = "none"
  /\ \A c \in Caller : at[c] <= launched
  /\ slot <= launched
  /\ stopped <= launched

\* Before initialize() and after it failed there is no worker to replace.
HostInv ==
  host \in {"new", "failed"} =>
    launched = 0 /\ \A c \in Caller : pc[c] \in {"idle", "lookup"}

\* The history counts what the budget counts.
BudgetInv == spent = attempts /\ attempts <= MaxRespawnAttempts

\* From the second look at the slot on, what is in it stays dead.
DeadInv ==
  \A c \in Caller :
    /\ pc[c] = "backoff" => Respawnable(slot)
    /\ pc[c] = "reap" /\ at[c] # NoWorker => ~alive[at[c]]

\* Where the process is: in the slot, or with the invocation that replaces it.
ProcessInv ==
  host \in {"new", "up", "failed"} =>
    \A w \in Worker : process[w] = "running" =>
      /\ lock = Free => w = slot
      /\ \A c \in Caller :
           /\ pc[c] = "backoff" => w = slot
           /\ pc[c] \in {"reap", "verify"} => w = at[c]
           /\ pc[c] # "launch"

IInv == Types /\ LockInv /\ NumberInv /\ HostInv /\ BudgetInv /\ DeadInv /\ ProcessInv
-----------------------------------------------------------------------------
USE PluginAssumption

\* Nothing has been launched.
LEMMA InitEstablishes == Init => IInv
<1> SUFFICES ASSUME Init PROVE IInv
  BY Zenon
<1> USE DEF Init, ClientInit, NoWorker, Worker
<1>1. Types
  BY Zenon DEF Types, Steps
<1>2. LockInv
  BY Zenon DEF LockInv
<1>3. NumberInv
  BY DEF NumberInv
<1>4. HostInv
  BY Zenon DEF HostInv
<1>5. BudgetInv
  BY DEF BudgetInv
<1>6. DeadInv
  BY Zenon DEF DeadInv, Respawnable
<1>7. ProcessInv
  BY Zenon DEF ProcessInv
<1> QED
  BY Zenon, <1>1, <1>2, <1>3, <1>4, <1>5, <1>6, <1>7 DEF IInv

\* What the invariant speaks of besides pc and at.
state == <<process, alive, slot, lock, launched, attempts, host, stopped, spent>>

\* A call that does not hold the lock returns.
LEMMA ReturnKeeps ==
  ASSUME IInv, NEW c \in Caller, Return(c), pc[c] \notin {"backoff", "reap", "launch", "verify"},
         UNCHANGED state
  PROVE  IInv'
<1> USE DEF Return, Forget, state, IInv, NoWorker, Worker
<1>1. Types'
  BY Zenon DEF Types, Steps
<1>2. LockInv' /\ HostInv' /\ BudgetInv'
  BY Zenon DEF Types, LockInv, HostInv, BudgetInv
<1>3. NumberInv'
  BY DEF Types, NumberInv
<1>4. DeadInv' /\ ProcessInv'
  BY DEF Types, DeadInv, ProcessInv, Respawnable
<1> QED
  BY Zenon, <1>1, <1>2, <1>3, <1>4

\* The steps of the manager, of an invocation, of a worker's tasks and of the
\* process keep the invariant.
LEMMA StepPreserves == IInv /\ [Next]_vars => IInv'
<1> SUFFICES ASSUME IInv, [Next]_vars PROVE IInv'
  BY Zenon
<1> USE DEF IInv, Types, LockInv, NumberInv, HostInv, BudgetInv, DeadInv, ProcessInv, Steps,
            NoWorker, Worker, Respawnable, client, io, call, plugin
<1>1. CASE Initialize
  <2>1. Types'
    BY <1>1 DEF Initialize, Spawn
  <2>2. LockInv'
    BY Zenon, <1>1 DEF Initialize, Spawn
  <2>3. NumberInv'
    <3>1. launched = 0 /\ launched' = 1 /\ slot' = 1 /\ at' = at /\ stopped' = stopped
      BY Zenon, <1>1 DEF Initialize
    <3>2. \A w \in Worker : w # 1 => process'[w] = process[w]
      BY Zenon, <1>1 DEF Initialize, Spawn
    <3> QED
      BY <3>1, <3>2
  <2>4. HostInv'
    BY Zenon, <1>1 DEF Initialize, Spawn
  <2>5. BudgetInv'
    BY Zenon, <1>1 DEF Initialize, Spawn
  <2>6. DeadInv'
    BY Zenon, <1>1 DEF Initialize, Spawn
  <2>7. ProcessInv'
    BY SMTT(30), <1>1 DEF Initialize, Spawn
  <2> QED
    BY Zenon, <2>1, <2>2, <2>3, <2>4, <2>5, <2>6, <2>7
<1>2. CASE InitializeFails
  BY Zenon, <1>2 DEF InitializeFails
<1>3. CASE Shutdown
  BY <1>3 DEF Shutdown
<1>4. CASE ShutdownEnds
  <2>1. Types'
    BY <1>4 DEF ShutdownEnds, Kill
  <2>2. LockInv'
    BY Zenon, <1>4 DEF ShutdownEnds, Kill
  <2>3. NumberInv'
    BY <1>4 DEF ShutdownEnds, Kill
  <2>4. HostInv'
    BY Zenon, <1>4 DEF ShutdownEnds, Kill
  <2>5. BudgetInv'
    BY Zenon, <1>4 DEF ShutdownEnds, Kill
  <2>6. DeadInv'
    BY <1>4 DEF ShutdownEnds, Kill
  <2>7. ProcessInv'
    BY Zenon, <1>4 DEF ShutdownEnds, Kill
  <2> QED
    BY Zenon, <2>1, <2>2, <2>3, <2>4, <2>5, <2>6, <2>7
<1>5. ASSUME NEW c \in Caller, Invoke(c) PROVE IInv'
  BY <1>5 DEF Invoke
<1>6. ASSUME NEW c \in Caller, Lookup(c) PROVE IInv'
  <2>1. CASE slot = NoWorker
    BY Zenon, <1>6, <2>1, ReturnKeeps DEF Lookup, state
  <2>2. CASE slot # NoWorker /\ alive[slot]
    <3>1. GoWith(c, "send", slot) /\ UNCHANGED <<client, calls, plugin>>
      BY Zenon, <1>6, <2>2 DEF Lookup
    <3>2. pc[c] = "lookup"
      BY Zenon, <1>6 DEF Lookup
    <3> QED
      BY <2>2, <3>1, <3>2 DEF GoWith
  <2>3. CASE slot # NoWorker /\ ~alive[slot]
    <3>1. GoTo(c, "queue") /\ UNCHANGED <<client, calls, plugin>>
      BY Zenon, <1>6, <2>3 DEF Lookup
    <3>2. pc[c] = "lookup"
      BY Zenon, <1>6 DEF Lookup
    <3> QED
      BY <2>3, <3>1, <3>2 DEF GoTo
  <2> QED
    BY Zenon, <2>1, <2>2, <2>3
<1>7. ASSUME NEW c \in Caller, RespawnWorker(c) PROVE IInv'
  <2>1. Types'
    BY <1>7 DEF RespawnWorker, Reserve, Return, Forget, GoTo, GoWith
  <2>2. LockInv'
    BY <1>7 DEF RespawnWorker, Reserve, Return, Forget, GoTo, GoWith
  <2>3. NumberInv'
    BY SMTT(30), <1>7 DEF RespawnWorker, Reserve, Return, Forget, GoTo, GoWith
  <2>4. HostInv'
    BY Zenon, <1>7 DEF RespawnWorker, Reserve, Return, Forget, GoTo, GoWith
  <2>5. BudgetInv'
    BY <1>7 DEF RespawnWorker, Reserve, Return, Forget, GoTo, GoWith
  <2>6. DeadInv'
    BY <1>7 DEF RespawnWorker, Reserve, Return, Forget, GoTo, GoWith
  <2>7. ProcessInv'
    BY <1>7 DEF RespawnWorker, Reserve, Return, Forget, GoTo, GoWith
  <2> QED
    BY Zenon, <2>1, <2>2, <2>3, <2>4, <2>5, <2>6, <2>7
<1>8. ASSUME NEW c \in Caller, TakeDead(c) PROVE IInv'
  BY <1>8 DEF TakeDead, GoWith
<1>9. ASSUME NEW c \in Caller, Reap(c) PROVE IInv'
  <2>1. Types'
    BY <1>9 DEF Reap, Kill, GoWith
  <2>2. LockInv'
    BY Zenon, <1>9 DEF Reap, Kill, GoWith
  <2>3. NumberInv'
    BY <1>9 DEF Reap, Kill, GoWith
  <2>4. HostInv'
    BY Zenon, <1>9 DEF Reap, Kill, GoWith
  <2>5. BudgetInv'
    BY Zenon, <1>9 DEF Reap, Kill, GoWith
  <2>6. DeadInv'
    BY <1>9 DEF Reap, Kill, GoWith
  <2>7. ProcessInv'
    BY <1>9 DEF Reap, Kill, GoWith
  <2> QED
    BY Zenon, <2>1, <2>2, <2>3, <2>4, <2>5, <2>6, <2>7
<1>10. ASSUME NEW c \in Caller, LaunchWorker(c) PROVE IInv'
  <2>1. Types'
    BY <1>10 DEF LaunchWorker, Spawn, GoWith
  <2>2. LockInv'
    BY Zenon, <1>10 DEF LaunchWorker, Spawn, GoWith
  <2>3. NumberInv'
    BY <1>10 DEF LaunchWorker, Spawn, GoWith
  <2>4. HostInv'
    BY Zenon, <1>10 DEF LaunchWorker, Spawn, GoWith
  <2>5. BudgetInv'
    BY Zenon, <1>10 DEF LaunchWorker, Spawn, GoWith
  <2>6. DeadInv'
    BY Zenon, <1>10 DEF LaunchWorker, Spawn, GoWith
  <2>7. ProcessInv'
    BY <1>10 DEF LaunchWorker, Spawn, GoWith
  <2> QED
    BY Zenon, <2>1, <2>2, <2>3, <2>4, <2>5, <2>6, <2>7
<1>11. ASSUME NEW c \in Caller, LaunchFails(c) PROVE IInv'
  BY <1>11 DEF LaunchFails, Return, Forget
<1>12. ASSUME NEW c \in Caller, Install(c) PROVE IInv'
  BY <1>12 DEF Install, GoTo
<1>13. ASSUME NEW c \in Caller, VerifyFails(c) PROVE IInv'
  <2>1. Types'
    BY Zenon, <1>13 DEF VerifyFails, Kill, Return, Forget
  <2>2. LockInv'
    BY <1>13 DEF VerifyFails, Kill, Return, Forget
  <2>3. NumberInv'
    BY <1>13 DEF VerifyFails, Kill, Return, Forget
  <2>4. HostInv'
    BY Zenon, <1>13 DEF VerifyFails, Kill, Return, Forget
  <2>5. BudgetInv'
    BY Zenon, <1>13 DEF VerifyFails, Kill, Return, Forget
  <2>6. DeadInv'
    BY <1>13 DEF VerifyFails, Kill, Return, Forget
  <2>7. ProcessInv'
    BY <1>13 DEF VerifyFails, Kill, Return, Forget
  <2> QED
    BY Zenon, <2>1, <2>2, <2>3, <2>4, <2>5, <2>6, <2>7
<1>14. ASSUME NEW c \in Caller, NoteWorkerHealthy(c) PROVE IInv'
  BY <1>14 DEF NoteWorkerHealthy, Return, Forget
<1>15. ASSUME NEW c \in Caller, CheckAlive(c), UNCHANGED plugin PROVE IInv'
  <2>1. CASE alive[at[c]]
    BY <1>15, <2>1 DEF CheckAlive, GoTo
  <2>2. CASE ~alive[at[c]]
    BY Zenon, <1>15, <2>2, ReturnKeeps DEF CheckAlive, state
  <2> QED
    BY Zenon, <2>1, <2>2
<1>16. ASSUME NEW c \in Caller, TaskTooLarge(c), UNCHANGED plugin PROVE IInv'
  BY Zenon, <1>16, ReturnKeeps DEF TaskTooLarge, state
<1>17. ASSUME NEW c \in Caller, Insert(c), UNCHANGED plugin PROVE IInv'
  BY <1>17 DEF Insert, GoTo
<1>18. ASSUME NEW c \in Caller, Submit(c), UNCHANGED plugin PROVE IInv'
  <2>1. CASE writing[at[c]]
    BY SMTT(30), <1>18, <2>1 DEF Submit, GoTo
  <2>2. CASE ~writing[at[c]]
    BY Zenon, <1>18, <2>2, ReturnKeeps DEF Submit, state
  <2> QED
    BY Zenon, <2>1, <2>2
<1>19. ASSUME NEW c \in Caller, Receive(c), UNCHANGED plugin PROVE IInv'
  <2>1. CASE GoTo(c, "answered")
    BY <1>19, <2>1 DEF Receive, GoTo
  <2>2. CASE Return(c)
    BY Zenon, <1>19, <2>2, ReturnKeeps DEF Receive, state
  <2> QED
    BY Zenon, <1>19, <2>1, <2>2 DEF Receive
<1>20. ASSUME NEW c \in Caller, TimesOut(c), UNCHANGED plugin PROVE IInv'
  <2>1. /\ pc[c] = "waiting" /\ pc' = [pc EXCEPT ![c] = "expired"]
        /\ at' = at /\ process' = process /\ alive' = alive /\ reader' = reader /\ writing' = writing
        /\ slot' = slot /\ stopped' = stopped /\ lock' = lock /\ launched' = launched
        /\ attempts' = attempts /\ host' = host /\ spent' = spent
    BY Zenon, <1>20 DEF TimesOut, GoTo
  <2>2. pc'[c] = "expired" /\ \A d \in Caller : d # c => pc'[d] = pc[d]
    BY Zenon, <2>1
  <2>3. Types'
    BY Zenon, <2>1
  <2>4. LockInv'
    BY Zenon, <2>1, <2>2
  <2>5. NumberInv'
    BY Zenon, <2>1
  <2>6. HostInv'
    BY Zenon, <2>1, <2>2
  <2>7. BudgetInv' /\ ProcessInv'
    BY <2>1, <2>2
  <2>8. DeadInv'
    BY <2>1, <2>2
  <2> QED
    BY Zenon, <2>3, <2>4, <2>5, <2>6, <2>7, <2>8
<1>21. ASSUME NEW c \in Caller, GiveUp(c), UNCHANGED plugin PROVE IInv'
  BY Zenon, <1>21, ReturnKeeps DEF GiveUp, state
<1>22. ASSUME NEW w \in Worker, WriterLoop(w), UNCHANGED plugin PROVE IInv'
  BY <1>22 DEF WriterLoop
<1>23. ASSUME NEW w \in Worker, ReadFrame(w), UNCHANGED plugin PROVE IInv'
  BY <1>23 DEF ReadFrame, Deliver
<1>24. ASSUME NEW w \in Worker, ReadEof(w), UNCHANGED plugin PROVE IInv'
  BY <1>24 DEF ReadEof, StopReading
<1>25. ASSUME NEW w \in Worker, ClearPending(w), UNCHANGED plugin PROVE IInv'
  BY <1>25 DEF ClearPending, Deliver
<1>26. ASSUME NEW w \in Worker, WorkerAnswers(w), UNCHANGED plugin PROVE IInv'
  BY <1>26 DEF WorkerAnswers
<1>27. ASSUME NEW w \in Worker, WorkerDies(w), UNCHANGED plugin PROVE IInv'
  BY <1>27 DEF WorkerDies, Kill
<1>28. ASSUME NEW w \in Worker, ReadError(w), UNCHANGED plugin PROVE IInv'
  BY <1>28 DEF ReadError, StopReading
<1>29. CASE UNCHANGED vars
  BY <1>29 DEF vars
<1>30. ASSUME NEW c \in Caller, Abandon(c) PROVE IInv'
  <2> USE DEF Abandon, Forget, Kill
  <2>1. Types'
    BY Zenon, <1>30
  <2>2. LockInv'
    BY <1>30
  <2>3. NumberInv'
    BY <1>30
  <2>4. HostInv'
    BY Zenon, <1>30
  <2>5. BudgetInv'
    BY Zenon, <1>30
  <2>6. DeadInv'
    BY <1>30
  <2>7. ProcessInv'
    BY <1>30
  <2> QED
    BY Zenon, <2>1, <2>2, <2>3, <2>4, <2>5, <2>6, <2>7
<1> QED
  BY Zenon, <1>1, <1>2, <1>3, <1>4, <1>5, <1>6, <1>7, <1>8, <1>9, <1>10, <1>11, <1>12, <1>13, <1>14, <1>15,
     <1>16, <1>17, <1>18, <1>19, <1>20, <1>21, <1>22, <1>23, <1>24, <1>25, <1>26, <1>27, <1>28, <1>29, <1>30
     DEF Next, InvocationStep, Respawn, SendTask, WorkerTasks, WorkerFaults

\* Of the invocations that noticed the same death one replaces the worker, and
\* none stops a live one (plugin.rs 534-539, 570-575).
THEOREM OnlyDeadReaped == Spec => []ReapsOnlyDead
<1>1. IInv => ReapsOnlyDead
  BY Zenon DEF IInv, DeadInv, ReapsOnlyDead
<1> QED
  BY <1>1, InitEstablishes, StepPreserves, PTL DEF Spec

\* Respawns without a completed round trip stay within the budget
\* (plugin.rs 592-604).
THEOREM BudgetKept == Spec => []BudgetHolds
<1>1. IInv => BudgetHolds
  BY Zenon DEF IInv, BudgetInv, BudgetHolds
<1> QED
  BY <1>1, InitEstablishes, StepPreserves, PTL DEF Spec

-----------------------------------------------------------------------------
(* The table of pending calls *)

\* A call that has not registered its one-shot, and one whose task was handed
\* to the writer.
Early == {"idle", "lookup", "queue", "backoff", "reap", "launch", "verify", "send", "checked"}
Late == {"waiting", "expired", "answered"}

\* Requests the worker, its pipes or its writer may still answer.
Sent(w) == outbound[w] \cup inbox[w] \cup {f.id : f \in frames[w]}

TableTypes ==
  /\ serial \in [Caller -> Nat]
  /\ calls \in Nat
  /\ answer \in [Caller -> Frame \cup {NoAnswer, Dropped}]
  /\ pending \in [Worker -> SUBSET RequestId]
  /\ outbound \in [Worker -> SUBSET RequestId]
  /\ inbox \in [Worker -> SUBSET RequestId]
  /\ frames \in [Worker -> SUBSET Frame]
  /\ discarded \subseteq RequestId
  /\ abandoned \subseteq RequestId

\* A one-shot is empty until it is registered and while it is, and holds no
\* other call's response.
OneShots ==
  \A c \in Caller :
    /\ IF pc[c] = "idle" THEN serial[c] = 0 ELSE serial[c] \in 1 .. MaxCalls /\ serial[c] <= calls
    /\ pc[c] \in Early => answer[c] = NoAnswer
    /\ pc[c] = "answered" => answer[c].kind = "line"
    /\ answer[c].kind = "line" => answer[c].id = Id(c)
    /\ answer[c] # NoAnswer => \A w \in Worker : Id(c) \notin pending[w]

\* A response under way that is a current call's is of a call that waits, or
\* waited, for this worker; no serial number is used twice.
SentInv ==
  \A w \in Worker : \A i \in Sent(w) :
    /\ i[2] <= calls
    /\ Id(i[1]) = i => at[i[1]] = w /\ pc[i[1]] \in Late

DiscardedInv == \A i \in discarded : Id(i[1]) = i /\ pc[i[1]] \in Late

Registered == {"registered", "waiting", "expired"}

\* An entry is that of a call under way or of one that was dropped; the number of a
\* dropped call is never a current one again.
Entries ==
  \A w \in Worker : \A i \in pending[w] :
    /\ i \notin abandoned => Id(i[1]) = i
    /\ Id(i[1]) = i => at[i[1]] = w /\ pc[i[1]] \in Registered

AbandonedInv == \A i \in abandoned : i[2] <= calls /\ Id(i[1]) # i

TableInv ==
  TableTypes /\ OneShots /\ SentInv /\ DiscardedInv /\ Entries /\ AbandonedInv /\ DiscardedNotAwaited
-----------------------------------------------------------------------------
\* A request id is a caller and the number of a call (worker.rs, request_id).
LEMMA Ids ==
  ASSUME NEW i \in RequestId
  PROVE  i[1] \in Caller /\ i[2] \in Nat /\ i[2] # 0 /\ (Id(i[1]) = i <=> serial[i[1]] = i[2])
  BY DEF RequestId, Id

\* The table does not change when no call is registered, told anything or ended.
LEMMA QuietKeeps ==
  ASSUME Types, Types', TableInv,
         pending' = pending, discarded' = discarded, abandoned' = abandoned, serial' = serial,
         answer' = answer,
         calls' = calls, TableTypes',
         \A w \in Worker : Sent(w)' \subseteq Sent(w),
         \A c \in Caller :
           \/ pc[c] \in Early \ {"idle"} /\ pc'[c] \in Early \ {"idle"}
           \/ pc'[c] = pc[c] /\ at'[c] = at[c]
           \/ pc[c] = "waiting" /\ pc'[c] = "expired" /\ at'[c] = at[c]
           \/ pc[c] = "waiting" /\ answer[c].kind = "line" /\ pc'[c] = "answered" /\ at'[c] = at[c]
  PROVE  TableInv'
<1> USE DEF TableInv
<1>1. OneShots'
  BY DEF OneShots, Early, Id, TableTypes
<1>2. SentInv'
  <2> SUFFICES ASSUME NEW w \in Worker, NEW i \in Sent(w)'
               PROVE  i[2] <= calls' /\ (Id(i[1])' = i => at'[i[1]] = w /\ pc'[i[1]] \in Late)
    BY Zenon DEF SentInv
  <2>1. i \in Sent(w) /\ i \in RequestId
    BY DEF TableTypes, Sent, Frame
  <2>2. i[1] \in Caller
    BY Zenon, <2>1, Ids
  <2> QED BY <2>1, <2>2 DEF SentInv, Id, Early, Late
<1>3. DiscardedInv'
  <2> SUFFICES ASSUME NEW i \in discarded
               PROVE  Id(i[1])' = i /\ pc'[i[1]] \in Late
    BY Zenon DEF DiscardedInv
  <2>1. i[1] \in Caller
    BY Zenon, Ids DEF TableTypes
  <2> QED BY Zenon, <2>1 DEF DiscardedInv, Id, Early, Late
<1>6. \A x : Id(x)' = Id(x)
  BY Zenon DEF Id
<1>4. Entries'
  <2> SUFFICES ASSUME NEW w \in Worker, NEW i \in pending[w], Id(i[1]) = i
               PROVE  at'[i[1]] = w /\ pc'[i[1]] \in Registered
    BY Zenon, <1>6 DEF Entries
  <2>1. i[1] \in Caller /\ Id(i[1]) = i
    BY Zenon, Ids DEF TableTypes
  <2>2. answer[i[1]].kind # "line"
    <3>1. answer[i[1]] = NoAnswer
      BY Zenon, <2>1 DEF OneShots
    <3>2. NoAnswer.kind # "line"
      BY Zenon DEF NoAnswer
    <3> QED BY Zenon, <3>1, <3>2
  <2>3. at[i[1]] = w /\ pc[i[1]] \in {"registered", "waiting", "expired"}
    BY Zenon, <2>1 DEF Entries, Registered
  <2> QED BY Zenon, <2>1, <2>2, <2>3 DEF Early, Registered
<1>5. DiscardedNotAwaited'
  BY Zenon DEF DiscardedNotAwaited
<1>7. AbandonedInv'
  BY Zenon, <1>6 DEF AbandonedInv
<1> QED BY Zenon, <1>1, <1>2, <1>3, <1>4, <1>5, <1>7

\* The entry of a call under way is in the table of the worker it uses.
LEMMA CurrentEntry ==
  ASSUME Entries, NEW w \in Worker, NEW d, Id(d) \in pending[w]
  PROVE  at[d] = w /\ pc[d] \in {"registered", "waiting", "expired"}
<1>1. Id(d)[1] = d
  BY Zenon DEF Id
<1>2. \A i \in pending[w] : Id(i[1]) = i => at[i[1]] = w /\ pc[i[1]] \in Registered
  BY Zenon DEF Entries
<1>3. Id(Id(d)[1]) = Id(d) => at[Id(d)[1]] = w /\ pc[Id(d)[1]] \in Registered
  BY Zenon, <1>2
<1> QED BY Zenon, <1>1, <1>3 DEF Registered

\* A call that ends has left nothing in the table, or was dropped (worker.rs 412-446).
LEMMA ReturnClears ==
  ASSUME Types, Types', TableInv, NEW c \in Caller, Forget(c), calls' = calls, TableTypes',
         \A w \in Worker : Sent(w)' \subseteq Sent(w) /\ pending'[w] \subseteq pending[w],
         \A w \in Worker : Id(c) \in pending'[w] => Id(c) \in abandoned',
         abandoned \subseteq abandoned', abandoned' \subseteq abandoned \cup {Id(c)}
  PROVE  TableInv'
<1> USE DEF TableInv
<1>1. /\ pc'[c] = "idle" /\ serial'[c] = 0 /\ answer'[c] = NoAnswer
      /\ \A d \in Caller : d # c => pc'[d] = pc[d] /\ at'[d] = at[d] /\ serial'[d] = serial[d] /\ answer'[d] = answer[d]
  BY DEF Return, Forget, Types, TableTypes
<1>2. \A d \in Caller : d # c => Id(d)' = Id(d)
  BY Zenon, <1>1 DEF Id
<1>3. ASSUME NEW i \in RequestId, i[1] = c PROVE Id(i[1])' # i
  BY <1>1, <1>3, Ids DEF Id
<1>10. NoAnswer.kind # "line"
  BY Zenon DEF NoAnswer
<1>4. OneShots'
  <2> SUFFICES ASSUME NEW d \in Caller
               PROVE  /\ IF pc'[d] = "idle" THEN serial'[d] = 0
                         ELSE serial'[d] \in 1 .. MaxCalls /\ serial'[d] <= calls
                      /\ pc'[d] \in Early => answer'[d] = NoAnswer
                      /\ pc'[d] = "answered" => answer'[d].kind = "line"
                      /\ answer'[d].kind = "line" => answer'[d].id = Id(d)'
                      /\ answer'[d] # NoAnswer => \A w \in Worker : Id(d)' \notin pending'[w]
    BY Zenon DEF OneShots
  <2>1. CASE d = c
    BY Zenon, <1>1, <1>10, <2>1
  <2>2. CASE d # c
    <3>1. pc'[d] = pc[d] /\ serial'[d] = serial[d] /\ answer'[d] = answer[d] /\ Id(d)' = Id(d)
      BY Zenon, <1>1, <1>2, <2>2
    <3>2. /\ IF pc[d] = "idle" THEN serial[d] = 0
             ELSE serial[d] \in 1 .. MaxCalls /\ serial[d] <= calls
          /\ pc[d] \in Early => answer[d] = NoAnswer
          /\ pc[d] = "answered" => answer[d].kind = "line"
          /\ answer[d].kind = "line" => answer[d].id = Id(d)
          /\ answer[d] # NoAnswer => \A w \in Worker : Id(d) \notin pending[w]
      BY Zenon DEF OneShots
    <3>3. \A w \in Worker : Id(d) \notin pending[w] => Id(d) \notin pending'[w]
      BY Zenon
    <3> HIDE DEF TableInv
    <3> QED BY Zenon, <3>1, <3>2, <3>3
  <2> QED BY Zenon, <2>1, <2>2
<1>5. SentInv'
  <2> SUFFICES ASSUME NEW w \in Worker, NEW i \in Sent(w)'
               PROVE  i[2] <= calls' /\ (Id(i[1])' = i => at'[i[1]] = w /\ pc'[i[1]] \in Late)
    BY Zenon DEF SentInv
  <2>1. i \in Sent(w) /\ i \in RequestId
    BY DEF TableTypes, Sent, Frame
  <2>2. i[1] \in Caller
    BY Zenon, <2>1, Ids
  <2> QED BY Zenon, <1>1, <1>2, <1>3, <2>1, <2>2 DEF SentInv
<1>6. DiscardedInv'
  <2> SUFFICES ASSUME NEW i \in discarded'
               PROVE  Id(i[1])' = i /\ pc'[i[1]] \in Late
    BY Zenon DEF DiscardedInv
  <2>1. i \in discarded /\ i # Id(c) /\ i \in RequestId
    BY Zenon DEF Return, Forget, TableTypes
  <2>2. i[1] \in Caller /\ i[1] # c
    BY Zenon, <2>1, Ids DEF DiscardedInv
  <2> QED BY Zenon, <1>1, <1>2, <2>1, <2>2 DEF DiscardedInv
<1>7. Entries'
  <2> SUFFICES ASSUME NEW w \in Worker, NEW i \in pending'[w]
               PROVE  /\ i \notin abandoned' => Id(i[1])' = i
                      /\ Id(i[1])' = i => at'[i[1]] = w /\ pc'[i[1]] \in Registered
    BY Zenon DEF Entries
  <2>1. i \in pending[w] /\ i \in RequestId
    BY Zenon DEF TableTypes
  <2>2. i[1] \in Caller
    BY Zenon, <2>1, Ids
  <2>3. /\ i \notin abandoned => Id(i[1]) = i
        /\ Id(i[1]) = i => at[i[1]] = w /\ pc[i[1]] \in Registered
    BY Zenon, <2>1 DEF Entries
  <2>4. CASE i[1] = c
    <3>1. Id(i[1])' # i
      BY Zenon, <1>3, <2>1, <2>4
    <3>2. i \in abandoned'
      BY Zenon, <2>3, <2>4
    <3> QED BY Zenon, <3>1, <3>2
  <2>5. CASE i[1] # c
    <3>1. Id(i[1])' = Id(i[1]) /\ at'[i[1]] = at[i[1]] /\ pc'[i[1]] = pc[i[1]]
      BY Zenon, <1>1, <1>2, <2>2, <2>5
    <3> QED BY Zenon, <2>3, <3>1
  <2> QED BY Zenon, <2>4, <2>5
<1>9. AbandonedInv'
  <2> SUFFICES ASSUME NEW i \in abandoned' PROVE i[2] <= calls /\ Id(i[1])' # i
    BY Zenon DEF AbandonedInv
  <2>1. i \in RequestId
    BY Zenon DEF TableTypes
  <2>2. i[1] \in Caller
    BY Zenon, <2>1, Ids
  <2>3. CASE i \in abandoned
    <3>1. i[2] <= calls /\ Id(i[1]) # i
      BY Zenon, <2>3 DEF AbandonedInv
    <3> QED BY Zenon, <1>2, <1>3, <2>1, <2>2, <3>1
  <2>4. CASE i = Id(c)
    <3>1. i[1] = c /\ i[2] = serial[c]
      BY Zenon, <2>4 DEF Id
    <3>2. serial[c] # 0
      BY Zenon, <2>1, <3>1, Ids
    <3>3. serial[c] <= calls
      BY Zenon, <3>2 DEF OneShots
    <3> QED BY Zenon, <1>3, <2>1, <3>1, <3>3
  <2> QED BY Zenon, <2>3, <2>4
<1>8. DiscardedNotAwaited'
  BY Zenon DEF DiscardedNotAwaited, Return, Forget
<1> QED BY Zenon, <1>4, <1>5, <1>6, <1>7, <1>8, <1>9

\* A new call's number is new, and nothing is kept for it yet (worker.rs, request_id).
LEMMA InvokeKeepsTable ==
  ASSUME Types, Types', TableInv, NEW c \in Caller, Invoke(c)
  PROVE  TableInv'
<1> USE DEF TableInv, Invoke, client, io, plugin
<1>1. /\ pc[c] = "idle" /\ pc'[c] = "lookup" /\ serial[c] = 0 /\ serial'[c] = calls + 1
      /\ answer'[c] = NoAnswer
      /\ \A d \in Caller : d # c => pc'[d] = pc[d] /\ serial'[d] = serial[d]
  BY Zenon DEF Types, TableTypes, OneShots, Early
<1>2. TableTypes'
  BY DEF TableTypes
<1>3. \A d \in Caller : d # c => Id(d)' = Id(d)
  BY Zenon, <1>1 DEF Id
<1>4. ASSUME NEW i \in RequestId, i[1] = c PROVE Id(i[1]) # i
  BY Zenon, <1>1, <1>4, Ids
<1>5. OneShots'
  <2>1. serial'[c] \in 1 .. MaxCalls /\ serial'[c] <= calls'
    <3>1. calls \in Nat /\ calls < MaxCalls /\ calls' = calls + 1 /\ serial'[c] = calls + 1
      BY Zenon, <1>1 DEF TableTypes
    <3> QED BY <3>1, PluginAssumption
  <2>2. \A d \in Caller : d # c /\ serial[d] <= calls => serial'[d] <= calls'
    BY <1>1 DEF TableTypes
  <2> SUFFICES ASSUME NEW d \in Caller
               PROVE  /\ IF pc'[d] = "idle" THEN serial'[d] = 0
                         ELSE serial'[d] \in 1 .. MaxCalls /\ serial'[d] <= calls'
                      /\ pc'[d] \in Early => answer'[d] = NoAnswer
                      /\ pc'[d] = "answered" => answer'[d].kind = "line"
                      /\ answer'[d].kind = "line" => answer'[d].id = Id(d)'
                      /\ answer'[d] # NoAnswer => \A w \in Worker : Id(d)' \notin pending'[w]
    BY Zenon DEF OneShots
  <2>3. CASE d = c
    <3>1. NoAnswer.kind # "line"
      BY DEF NoAnswer
    <3> QED BY Zenon, <1>1, <2>1, <2>3, <3>1
  <2>4. CASE d # c
    <3>1. /\ pc'[d] = pc[d] /\ serial'[d] = serial[d] /\ Id(d)' = Id(d)
          /\ answer' = answer /\ pending' = pending
      BY Zenon, <1>1, <1>3, <2>4
    <3>2. /\ IF pc[d] = "idle" THEN serial[d] = 0 ELSE serial[d] \in 1 .. MaxCalls /\ serial[d] <= calls
          /\ pc[d] \in Early => answer[d] = NoAnswer
          /\ pc[d] = "answered" => answer[d].kind = "line"
          /\ answer[d].kind = "line" => answer[d].id = Id(d)
          /\ answer[d] # NoAnswer => \A w \in Worker : Id(d) \notin pending[w]
      BY Zenon DEF OneShots
    <3>3. serial[d] <= calls => serial'[d] <= calls'
      BY Zenon, <2>2, <2>4
    <3> HIDE DEF TableInv, Invoke
    <3> QED BY Zenon, <3>1, <3>2, <3>3
  <2> QED BY Zenon, <2>3, <2>4
<1>6. SentInv'
  <2> SUFFICES ASSUME NEW w \in Worker, NEW i \in Sent(w)
               PROVE  i[2] <= calls' /\ (Id(i[1])' = i => at'[i[1]] = w /\ pc'[i[1]] \in Late)
    BY Zenon DEF SentInv, Sent
  <2>1. i \in RequestId
    BY DEF TableTypes, Sent, Frame
  <2>2. i[1] \in Caller /\ i[2] \in Nat /\ i[2] <= calls
    BY Zenon, <2>1, Ids DEF SentInv
  <2>3. CASE i[1] = c
    <3>1. Id(i[1])'[2] # i[2]
      BY <1>1, <2>2, <2>3 DEF Id, TableTypes
    <3> QED BY <2>2, <3>1 DEF TableTypes
  <2>4. CASE i[1] # c
    BY <1>1, <1>3, <2>2, <2>4 DEF SentInv, TableTypes
  <2> QED BY Zenon, <2>3, <2>4
<1>7. DiscardedInv'
  <2> SUFFICES ASSUME NEW i \in discarded PROVE Id(i[1])' = i /\ pc'[i[1]] \in Late
    BY Zenon DEF DiscardedInv
  <2>1. i[1] \in Caller /\ i[1] # c
    BY Zenon, <1>4, Ids DEF TableTypes, DiscardedInv
  <2> QED BY Zenon, <1>1, <1>3, <2>1 DEF DiscardedInv
<1>10. ASSUME NEW i \in RequestId, i[1] = c, i[2] <= calls PROVE Id(i[1])' # i
  <2>1. Id(i[1])'[2] = calls + 1
    BY Zenon, <1>1, <1>10 DEF Id
  <2>2. i[2] # calls + 1
    BY <1>10, Ids DEF TableTypes
  <2> QED BY Zenon, <2>1, <2>2
<1>11. AbandonedInv'
  <2> SUFFICES ASSUME NEW i \in abandoned PROVE i[2] <= calls' /\ Id(i[1])' # i
    BY Zenon DEF AbandonedInv
  <2>1. i \in RequestId
    BY Zenon DEF TableTypes
  <2>2. i[1] \in Caller /\ i[2] \in Nat /\ i[2] <= calls /\ Id(i[1]) # i
    BY Zenon, <2>1, Ids DEF AbandonedInv
  <2>3. i[2] <= calls'
    BY <2>2 DEF TableTypes
  <2> QED BY Zenon, <1>3, <1>10, <2>1, <2>2, <2>3
<1>8. Entries'
  <2> SUFFICES ASSUME NEW w \in Worker, NEW i \in pending[w]
               PROVE  /\ i \notin abandoned => Id(i[1])' = i
                      /\ Id(i[1])' = i => at[i[1]] = w /\ pc'[i[1]] \in Registered
    BY Zenon DEF Entries
  <2>1. i \in RequestId /\ i[1] \in Caller
    BY Zenon, Ids DEF TableTypes
  <2>2. /\ i \notin abandoned => Id(i[1]) = i
        /\ Id(i[1]) = i => at[i[1]] = w /\ pc[i[1]] \in Registered
    BY Zenon DEF Entries
  <2>3. CASE i[1] = c
    <3>1. i \in abandoned
      BY Zenon, <1>4, <2>1, <2>2, <2>3
    <3>2. Id(i[1])' # i
      BY Zenon, <1>10, <2>1, <2>3, <3>1 DEF AbandonedInv
    <3> QED BY Zenon, <3>1, <3>2
  <2>4. CASE i[1] # c
    <3>1. Id(i[1])' = Id(i[1]) /\ pc'[i[1]] = pc[i[1]]
      BY Zenon, <1>1, <1>3, <2>1, <2>4
    <3> HIDE DEF TableInv, Invoke
    <3> QED BY Zenon, <2>2, <3>1
  <2> QED BY Zenon, <2>3, <2>4
<1>9. DiscardedNotAwaited'
  BY Zenon DEF DiscardedNotAwaited
<1> QED BY Zenon, <1>2, <1>5, <1>6, <1>7, <1>8, <1>9, <1>11

\* A call registers under its own id (worker.rs 412-420).
LEMMA InsertKeepsTable ==
  ASSUME Types, Types', TableInv, NEW c \in Caller, Insert(c)
  PROVE  TableInv'
<1> USE DEF TableInv
<1>a. /\ pc[c] = "checked" /\ pc' = [pc EXCEPT ![c] = "registered"]
      /\ pending' = [pending EXCEPT ![at[c]] = @ \cup {Id(c)}]
  BY Zenon DEF Insert, GoTo
<1>b. /\ at' = at /\ serial' = serial /\ answer' = answer /\ discarded' = discarded /\ calls' = calls
      /\ abandoned' = abandoned
  BY Zenon DEF Insert, GoTo
<1>c. outbound' = outbound /\ inbox' = inbox /\ frames' = frames
  BY Zenon DEF Insert, io
<1>0. Id(c) \in RequestId
  BY Zenon, <1>a DEF Id, RequestId, OneShots
<1>1. /\ pc[c] = "checked" /\ pc'[c] = "registered" /\ answer[c] = NoAnswer
      /\ \A d \in Caller : d # c => pc'[d] = pc[d]
  BY Zenon, <1>a DEF Types, OneShots, Early
<1>2. \A w \in Worker : pending'[w] = pending[w] \/ (w = at[c] /\ pending'[w] = pending[w] \cup {Id(c)})
  BY Zenon, <1>a DEF TableTypes
<1>3. TableTypes'
  <2>1. pending' \in [Worker -> SUBSET RequestId]
    BY Zenon, <1>a, <1>0 DEF TableTypes
  <2> QED BY Zenon, <1>b, <1>c, <2>1 DEF TableTypes
<1>4. \A d \in Caller : Id(d)' = Id(d)
  BY Zenon, <1>b DEF Id
<1>5. \A d \in Caller : d # c => Id(d) # Id(c)
  BY Zenon DEF Id
<1>6. OneShots'
  <2> SUFFICES ASSUME NEW d \in Caller
               PROVE  /\ IF pc'[d] = "idle" THEN serial[d] = 0 ELSE serial[d] \in 1 .. MaxCalls /\ serial[d] <= calls
                      /\ pc'[d] \in Early => answer[d] = NoAnswer
                      /\ pc'[d] = "answered" => answer[d].kind = "line"
                      /\ answer[d].kind = "line" => answer[d].id = Id(d)
                      /\ answer[d] # NoAnswer => \A w \in Worker : Id(d) \notin pending'[w]
    BY Zenon, <1>b, <1>4 DEF OneShots
  <2>1. CASE d = c
    BY Zenon, <1>1, <2>1 DEF OneShots, Early
  <2>2. CASE d # c
    <3>1. pc'[d] = pc[d] /\ Id(d) # Id(c)
      BY Zenon, <1>1, <1>5, <2>2
    <3>2. ASSUME NEW w \in Worker, Id(d) \notin pending[w] PROVE Id(d) \notin pending'[w]
      <4>1. CASE pending'[w] = pending[w]
        BY Zenon, <3>2, <4>1
      <4>2. CASE pending'[w] = pending[w] \cup {Id(c)}
        BY Zenon, <3>1, <3>2, <4>2
      <4> QED BY Zenon, <1>2, <4>1, <4>2
    <3> QED BY Zenon, <3>1, <3>2 DEF OneShots
  <2> QED BY Zenon, <2>1, <2>2
<1>7. SentInv'
  <2> SUFFICES ASSUME NEW w \in Worker, NEW i \in Sent(w)
               PROVE  i[2] <= calls' /\ (Id(i[1])' = i => at'[i[1]] = w /\ pc'[i[1]] \in Late)
    BY Zenon, <1>c DEF SentInv, Sent
  <2>1. i \in RequestId
    BY DEF TableTypes, Sent, Frame
  <2>2. i[1] \in Caller
    BY Zenon, <2>1, Ids
  <2>3. i[2] <= calls /\ (Id(i[1]) = i => at[i[1]] = w /\ pc[i[1]] \in Late)
    BY Zenon DEF SentInv
  <2>4. pc[i[1]] \in Late => i[1] # c
    BY Zenon, <1>1 DEF Late
  <2> QED BY Zenon, <1>b, <1>1, <1>4, <2>2, <2>3, <2>4
<1>8. DiscardedInv'
  <2> SUFFICES ASSUME NEW i \in discarded PROVE Id(i[1])' = i /\ pc'[i[1]] \in Late
    BY Zenon, <1>b DEF DiscardedInv
  <2>1. i[1] \in Caller /\ Id(i[1]) = i /\ pc[i[1]] \in Late
    BY Zenon, Ids DEF TableTypes, DiscardedInv
  <2>2. i[1] # c
    BY Zenon, <1>1, <2>1 DEF Late
  <2> QED BY Zenon, <1>1, <1>4, <2>1, <2>2
<1>11. AbandonedInv'
  BY Zenon, <1>b, <1>4, Ids DEF AbandonedInv, TableTypes
<1>9. Entries'
  <2> SUFFICES ASSUME NEW w \in Worker, NEW i \in pending'[w]
               PROVE  /\ i \notin abandoned => Id(i[1])' = i
                      /\ Id(i[1])' = i => at'[i[1]] = w /\ pc'[i[1]] \in Registered
    BY Zenon, <1>b DEF Entries
  <2>1. CASE i \in pending[w]
    <3>1. i[1] \in Caller
      BY Zenon, <2>1, Ids DEF TableTypes
    <3>2. /\ i \notin abandoned => Id(i[1]) = i
          /\ Id(i[1]) = i => at[i[1]] = w /\ pc[i[1]] \in Registered
      BY Zenon, <2>1 DEF Entries
    <3>3. Id(i[1]) = i => i[1] # c
      BY Zenon, <1>1, <3>2 DEF Registered
    <3> QED BY Zenon, <1>b, <1>1, <1>4, <3>1, <3>2, <3>3
  <2>2. CASE i = Id(c) /\ w = at[c]
    <3>1. i[1] = c
      BY Zenon, <2>2 DEF Id
    <3> QED BY Zenon, <1>b, <1>1, <1>4, <2>2, <3>1 DEF Registered
  <2>3. pending'[w] = pending[w] \/ (w = at[c] /\ pending'[w] = pending[w] \cup {Id(c)})
    BY Zenon, <1>2
  <2>4. i \in pending[w] \/ (i = Id(c) /\ w = at[c])
    <3>1. CASE pending'[w] = pending[w]
      BY Zenon, <3>1
    <3>2. CASE w = at[c] /\ pending'[w] = pending[w] \cup {Id(c)}
      BY Zenon, <3>2
    <3> QED BY Zenon, <2>3, <3>1, <3>2
  <2> QED BY Zenon, <2>1, <2>2, <2>4
<1>10. DiscardedNotAwaited'
  <2>1. Id(c) \notin discarded
    <3>1. Id(c)[1] = c
      BY Zenon DEF Id
    <3> QED BY Zenon, <1>1, <3>1 DEF DiscardedInv, Late
  <2> QED BY Zenon, <1>b, <1>2, <2>1 DEF DiscardedNotAwaited
<1> QED BY Zenon, <1>3, <1>6, <1>7, <1>8, <1>9, <1>10, <1>11

\* A registered call hands its task to the writer (worker.rs 422-432).
LEMMA SubmitKeepsTable ==
  ASSUME Types, Types', TableInv, NEW c \in Caller, Submit(c), writing[at[c]]
  PROVE  TableInv'
<1> USE DEF TableInv
<1>a. /\ pc[c] = "registered" /\ pc' = [pc EXCEPT ![c] = "waiting"]
      /\ outbound' = [outbound EXCEPT ![at[c]] = @ \cup {Id(c)}]
  BY Zenon DEF Submit, GoTo
<1>b. /\ at' = at /\ serial' = serial /\ answer' = answer /\ discarded' = discarded /\ calls' = calls
      /\ pending' = pending /\ abandoned' = abandoned
  BY Zenon DEF Submit, GoTo
<1>c. inbox' = inbox /\ frames' = frames
  BY Zenon DEF Submit
<1>0. Id(c) \in RequestId /\ Id(c)[1] = c /\ Id(c)[2] = serial[c] /\ serial[c] <= calls
  BY Zenon, <1>a DEF Id, RequestId, OneShots
<1>1. /\ pc[c] = "registered" /\ pc'[c] = "waiting"
      /\ \A d \in Caller : d # c => pc'[d] = pc[d]
  BY Zenon, <1>a DEF Types
<1>2. \A w \in Worker : Sent(w)' = Sent(w) \/ (w = at[c] /\ Sent(w)' = Sent(w) \cup {Id(c)})
  <2> TAKE w \in Worker
  <2>1. outbound'[w] = outbound[w] \/ (w = at[c] /\ outbound'[w] = outbound[w] \cup {Id(c)})
    BY Zenon, <1>a DEF TableTypes
  <2> QED BY Zenon, <1>c, <2>1 DEF Sent
<1>3. TableTypes'
  <2>1. outbound' \in [Worker -> SUBSET RequestId]
    BY Zenon, <1>a, <1>0 DEF TableTypes
  <2> QED BY Zenon, <1>b, <1>c, <2>1 DEF TableTypes
<1>4. \A d \in Caller : Id(d)' = Id(d)
  BY Zenon, <1>b DEF Id
<1>5. OneShots'
  <2> SUFFICES ASSUME NEW d \in Caller
               PROVE  /\ IF pc'[d] = "idle" THEN serial[d] = 0 ELSE serial[d] \in 1 .. MaxCalls /\ serial[d] <= calls
                      /\ pc'[d] \in Early => answer[d] = NoAnswer
                      /\ pc'[d] = "answered" => answer[d].kind = "line"
    BY Zenon, <1>b, <1>4 DEF OneShots
  <2>1. CASE d = c
    BY Zenon, <1>1, <2>1 DEF OneShots, Early
  <2>2. CASE d # c
    BY Zenon, <1>1, <2>2 DEF OneShots
  <2> QED BY Zenon, <2>1, <2>2
<1>6. SentInv'
  <2> SUFFICES ASSUME NEW w \in Worker, NEW i \in Sent(w)'
               PROVE  i[2] <= calls' /\ (Id(i[1])' = i => at'[i[1]] = w /\ pc'[i[1]] \in Late)
    BY Zenon DEF SentInv
  <2>1. CASE i \in Sent(w)
    <3>1. i \in RequestId
      BY <2>1 DEF TableTypes, Sent, Frame
    <3>2. i[1] \in Caller
      BY Zenon, <3>1, Ids
    <3>3. i[2] <= calls /\ (Id(i[1]) = i => at[i[1]] = w /\ pc[i[1]] \in Late)
      BY Zenon, <2>1 DEF SentInv
    <3>4. pc[i[1]] \in Late => i[1] # c
      BY Zenon, <1>1 DEF Late
    <3> QED BY Zenon, <1>b, <1>1, <1>4, <3>2, <3>3, <3>4
  <2>2. CASE i = Id(c) /\ w = at[c]
    BY Zenon, <1>b, <1>0, <1>1, <2>2 DEF Late
  <2> QED BY Zenon, <1>2, <2>1, <2>2
<1>7. DiscardedInv'
  <2> SUFFICES ASSUME NEW i \in discarded PROVE Id(i[1])' = i /\ pc'[i[1]] \in Late
    BY Zenon, <1>b DEF DiscardedInv
  <2>1. i[1] \in Caller
    BY Zenon, Ids DEF TableTypes
  <2> QED BY Zenon, <1>1, <1>4, <2>1 DEF DiscardedInv, Late
<1>8. Entries'
  <2> SUFFICES ASSUME NEW w \in Worker, NEW i \in pending[w]
               PROVE  /\ i \notin abandoned => Id(i[1])' = i
                      /\ Id(i[1])' = i => at'[i[1]] = w /\ pc'[i[1]] \in Registered
    BY Zenon, <1>b DEF Entries
  <2>1. i[1] \in Caller
    BY Zenon, Ids DEF TableTypes
  <2>2. /\ i \notin abandoned => Id(i[1]) = i
        /\ Id(i[1]) = i => at[i[1]] = w /\ pc[i[1]] \in Registered
    BY Zenon DEF Entries
  <2> QED BY Zenon, <1>b, <1>1, <1>4, <2>1, <2>2 DEF Registered
<1>9. DiscardedNotAwaited'
  BY Zenon, <1>b DEF DiscardedNotAwaited
<1>10. AbandonedInv'
  BY Zenon, <1>b, <1>4, Ids DEF AbandonedInv, TableTypes
<1> QED BY Zenon, <1>3, <1>5, <1>6, <1>7, <1>8, <1>9, <1>10

\* The reader fills one-shots of registered calls only, and takes them off the
\* table (worker.rs 624-634, 637-674).
LEMMA DeliverKeepsTable ==
  ASSUME Types, Types', TableInv, NEW w \in Worker, NEW f, NEW ids \in SUBSET pending[w],
         Deliver(w, f, ids), TableTypes',
         f \in Frame \cup {Dropped}, f.kind = "line" => ids \subseteq {f.id},
         pc' = pc, at' = at, serial' = serial, calls' = calls, abandoned' = abandoned,
         \A v \in Worker : Sent(v)' \subseteq Sent(v),
         \/ discarded' = discarded
         \/ /\ discarded' = discarded \cup {f.id} /\ f.id \in Sent(w) /\ Id(f.id[1]) = f.id
            /\ f.id \notin pending'[w]
  PROVE  TableInv'
<1> USE DEF TableInv, Deliver
<1>1. \A d \in Caller : Id(d)' = Id(d)
  BY Zenon DEF Id
<1>2. \A v \in Worker : pending'[v] = IF v = w THEN pending[v] \ ids ELSE pending[v]
  BY Zenon DEF TableTypes
<1>3. \A d \in Caller : Id(d) \in ids => at[d] = w /\ pc[d] \in {"registered", "waiting", "expired"}
  BY Zenon, CurrentEntry
<1>4. \A d \in Caller : answer'[d] = IF Id(d) \in ids THEN f ELSE answer[d]
  BY Zenon
<1>5. OneShots'
  <2> SUFFICES ASSUME NEW d \in Caller
               PROVE  /\ IF pc[d] = "idle" THEN serial[d] = 0 ELSE serial[d] \in 1 .. MaxCalls /\ serial[d] <= calls
                      /\ pc[d] \in Early => answer'[d] = NoAnswer
                      /\ pc[d] = "answered" => answer'[d].kind = "line"
                      /\ answer'[d].kind = "line" => answer'[d].id = Id(d)
                      /\ answer'[d] # NoAnswer => \A v \in Worker : Id(d) \notin pending'[v]
    <3> HIDE DEF TableInv, Deliver
    <3> QED BY ZenonT(30), <1>1 DEF OneShots
  <2>1. CASE Id(d) \in ids
    <3>1. answer'[d] = f /\ pc[d] \in {"registered", "waiting", "expired"}
      BY Zenon, <1>3, <1>4, <2>1
    <3>2. \A v \in Worker : Id(d) \notin pending'[v]
      <4> HIDE DEF TableInv, Deliver
      <4> SUFFICES ASSUME NEW v \in Worker, Id(d) \in pending'[v] PROVE FALSE
        BY Zenon
      <4>1. Id(d) \in pending[v] /\ v # w
        BY Zenon, <1>2, <2>1
      <4>2. at[d] = v
        BY Zenon, <4>1, CurrentEntry DEF TableInv
      <4> QED BY Zenon, <1>3, <2>1, <4>1, <4>2
    <3> QED BY Zenon, <2>1, <3>1, <3>2 DEF OneShots, Early
  <2>2. CASE Id(d) \notin ids
    <3>1. answer'[d] = answer[d]
      BY Zenon, <1>4, <2>2
    <3>2. ASSUME NEW v \in Worker, Id(d) \notin pending[v] PROVE Id(d) \notin pending'[v]
      <4> HIDE DEF TableInv, Deliver
      <4> QED BY Zenon, <1>2, <3>2
    <3> QED BY Zenon, <3>1, <3>2 DEF OneShots
  <2> QED BY Zenon, <2>1, <2>2
<1>6. SentInv'
  <2> SUFFICES ASSUME NEW v \in Worker, NEW i \in Sent(v)
               PROVE  i[2] <= calls /\ (Id(i[1])' = i => at[i[1]] = v /\ pc[i[1]] \in Late)
    BY Zenon DEF SentInv
  <2>1. i \in RequestId
    BY DEF TableTypes, Sent, Frame
  <2>2. i[1] \in Caller
    BY Zenon, <2>1, Ids
  <2> QED BY Zenon, <1>1, <2>2 DEF SentInv
<1>7. DiscardedInv'
  <2> SUFFICES ASSUME NEW i \in discarded' PROVE Id(i[1])' = i /\ pc[i[1]] \in Late
    BY Zenon DEF DiscardedInv
  <2>1. i[1] \in Caller
    BY Zenon, Ids DEF TableTypes
  <2>2. CASE i \in discarded
    BY Zenon, <1>1, <2>1, <2>2 DEF DiscardedInv
  <2>3. CASE i = f.id /\ i \in Sent(w) /\ Id(i[1]) = i
    BY Zenon, <1>1, <2>1, <2>3 DEF SentInv
  <2> QED BY Zenon, <2>2, <2>3
<1>8. Entries'
  <2> SUFFICES ASSUME NEW v \in Worker, NEW i \in pending'[v]
               PROVE  /\ i \notin abandoned => Id(i[1])' = i
                      /\ Id(i[1])' = i => at[i[1]] = v /\ pc[i[1]] \in Registered
    BY Zenon DEF Entries
  <2>1. i \in pending[v] /\ i \in RequestId
    BY Zenon, <1>2 DEF TableTypes
  <2>2. i[1] \in Caller
    BY Zenon, <2>1, Ids
  <2> QED BY Zenon, <1>1, <2>1, <2>2 DEF Entries
<1>10. AbandonedInv'
  BY Zenon, <1>1, Ids DEF AbandonedInv, TableTypes
<1>9. DiscardedNotAwaited'
  <2> SUFFICES ASSUME NEW v \in Worker, NEW i \in pending'[v], i \in discarded' PROVE FALSE
    BY Zenon DEF DiscardedNotAwaited
  <2>1. i \in pending[v]
    BY <1>2
  <2>2. i \notin discarded
    BY Zenon, <2>1 DEF DiscardedNotAwaited
  <2>3. i = f.id /\ i \in Sent(w) /\ Id(i[1]) = i /\ i \notin pending'[w]
    BY Zenon, <2>2
  <2>4. at[i[1]] = w
    BY Zenon, <2>3 DEF SentInv
  <2>5. at[i[1]] = v
    BY Zenon, <2>1, <2>3 DEF Entries
  <2> QED BY Zenon, <2>3, <2>4, <2>5
<1> QED BY Zenon, <1>5, <1>6, <1>7, <1>8, <1>9, <1>10

\* The reader takes a frame and tells those it concerns.
LEMMA ReadFrameKeepsTable ==
  ASSUME Types, Types', TableInv, NEW w \in Worker, ReadFrame(w)
  PROVE  TableInv'
<1>1. PICK f \in frames[w] :
        /\ frames' = [frames EXCEPT ![w] = @ \ {f}]
        /\ Deliver(w, f, Recipients(w, f))
        /\ discarded' = IF f.kind # "line" /\ Id(f.id[1]) = f.id
                        THEN discarded \cup {f.id} ELSE discarded
  BY Zenon DEF ReadFrame
<1>2. f \in Frame /\ f.id \in RequestId /\ f.id \in Sent(w)
  BY DEF TableInv, TableTypes, Sent, Frame
<1>3. Recipients(w, f) \in SUBSET pending[w] /\ (f.kind = "line" => Recipients(w, f) \subseteq {f.id})
  BY Zenon DEF Recipients
<1>4. /\ pc' = pc /\ at' = at /\ serial' = serial /\ calls' = calls
      /\ inbox' = inbox /\ outbound' = outbound /\ abandoned' = abandoned
  BY Zenon DEF ReadFrame
<1>5. \A v \in Worker : Sent(v)' \subseteq Sent(v)
  BY Zenon, <1>1, <1>4 DEF Sent, TableInv, TableTypes
<1>6. f.kind # "line" => f.id \notin pending'[w]
  <2>1. pending'[w] = pending[w] \ Recipients(w, f)
    BY Zenon, <1>1 DEF Deliver, TableInv, TableTypes
  <2> QED BY Zenon, <2>1 DEF Recipients
<1>7. TableTypes'
  <2>1. answer' \in [Caller -> Frame \cup {NoAnswer, Dropped}]
    BY Zenon, <1>1, <1>2 DEF Deliver, TableInv, TableTypes
  <2>2. pending' \in [Worker -> SUBSET RequestId]
    BY Zenon, <1>1 DEF Deliver, TableInv, TableTypes
  <2>3. frames' \in [Worker -> SUBSET Frame]
    BY Zenon, <1>1 DEF TableInv, TableTypes
  <2> QED BY Zenon, <1>1, <1>2, <1>4, <2>1, <2>2, <2>3 DEF TableInv, TableTypes
<1> HIDE DEF TableInv
<1> QED BY Zenon, <1>1, <1>2, <1>3, <1>4, <1>5, <1>6, <1>7, DeliverKeepsTable

\* The reader that ends drops the senders of all registered calls (worker.rs 685-690).
LEMMA ClearPendingKeepsTable ==
  ASSUME Types, Types', TableInv, NEW w \in Worker, ClearPending(w)
  PROVE  TableInv'
<1>1. Deliver(w, Dropped, pending[w])
  BY Zenon DEF ClearPending
<1>2. /\ pc' = pc /\ at' = at /\ serial' = serial /\ calls' = calls /\ discarded' = discarded
      /\ inbox' = inbox /\ outbound' = outbound /\ frames' = frames /\ abandoned' = abandoned
  BY Zenon DEF ClearPending
<1>3. Dropped \in Frame \cup {Dropped} /\ Dropped.kind # "line"
  BY Zenon DEF Dropped
<1>4. \A v \in Worker : Sent(v)' \subseteq Sent(v)
  BY Zenon, <1>2 DEF Sent
<1>5. TableTypes'
  <2>1. answer' \in [Caller -> Frame \cup {NoAnswer, Dropped}]
    BY Zenon, <1>1 DEF Deliver, TableInv, TableTypes
  <2>2. pending' \in [Worker -> SUBSET RequestId]
    BY Zenon, <1>1 DEF Deliver, TableInv, TableTypes
  <2> QED BY Zenon, <1>2, <2>1, <2>2 DEF TableInv, TableTypes
<1> QED BY Zenon, <1>1, <1>2, <1>3, <1>4, <1>5, DeliverKeepsTable

\* No call has been made.
LEMMA InitTable == Init => TableInv
<1> SUFFICES ASSUME Init PROVE TableInv
  BY Zenon
<1> USE DEF Init, ClientInit
<1>1. TableTypes
  BY Zenon DEF TableTypes
<1>2. OneShots
  BY Zenon DEF OneShots, Early, NoAnswer
<1>3. \A w \in Worker : Sent(w) = {} /\ pending[w] = {}
  BY Zenon DEF Sent
<1> QED BY Zenon, <1>1, <1>2, <1>3 DEF TableInv, SentInv, DiscardedInv, Entries, AbandonedInv,
          DiscardedNotAwaited

\* What is sent and answered stays where it is.
LEMMA SentSame ==
  ASSUME inbox' = inbox, outbound' = outbound, frames' = frames
  PROVE  \A w \in Worker : Sent(w)' \subseteq Sent(w)
  BY Zenon DEF Sent

\* Neither the manager nor the search for a worker touches the table.
LEMMA LookupKeepsTable ==
  ASSUME Types, Types', TableInv, NEW c \in Caller, UNCHANGED <<client, calls>>,
         GoTo(c, "queue") \/ GoTo(c, "backoff") \/ GoTo(c, "checked") \/ GoTo(c, "send")
           \/ (\E w : GoWith(c, "send", w)) \/ (\E w : GoWith(c, "reap", w)),
         pc[c] \in Early \ {"idle"}
  PROVE  TableInv'
<1>1. \A d \in Caller : d # c => pc'[d] = pc[d] /\ at'[d] = at[d]
  BY Zenon DEF GoTo, GoWith, Types
<1>2. pc'[c] \in Early \ {"idle"}
  BY DEF GoTo, GoWith, Types, Early
<1>3. /\ pending' = pending /\ serial' = serial /\ answer' = answer /\ calls' = calls
      /\ discarded' = discarded /\ abandoned' = abandoned /\ inbox' = inbox /\ outbound' = outbound /\ frames' = frames
  BY Zenon DEF GoTo, GoWith, client, io
<1>4. TableTypes'
  BY Zenon, <1>3 DEF TableInv, TableTypes
<1> QED BY Zenon, <1>1, <1>2, <1>3, <1>4, SentSame, QuietKeeps

\* Nor do launches and deaths of workers.
LEMMA LaunchKeepsTable ==
  ASSUME Types, Types', TableInv, NEW c \in Caller, calls' = calls,
         \E w : GoWith(c, "launch", w) \/ GoWith(c, "verify", w),
         pc[c] \in Early \ {"idle"},
         UNCHANGED client \/ \E w : Kill(w) \/ Spawn(w)
  PROVE  TableInv'
<1>1. \A d \in Caller : d # c => pc'[d] = pc[d] /\ at'[d] = at[d]
  BY Zenon DEF GoWith, Types
<1>2. pc'[c] \in Early \ {"idle"}
  BY Zenon DEF GoWith, Types, Early
<1>3. /\ pending' = pending /\ serial' = serial /\ answer' = answer /\ calls' = calls
      /\ discarded' = discarded /\ abandoned' = abandoned /\ outbound' = outbound /\ frames' = frames
  BY Zenon DEF GoWith, client, io, Kill, Spawn
<1>4. inbox' \in [Worker -> SUBSET RequestId] /\ \A w \in Worker : inbox'[w] \subseteq inbox[w]
  BY Zenon DEF client, io, Kill, Spawn, TableInv, TableTypes
<1>5. TableTypes'
  BY Zenon, <1>3, <1>4 DEF TableInv, TableTypes
<1>6. \A w \in Worker : Sent(w)' \subseteq Sent(w)
  BY Zenon, <1>3, <1>4 DEF Sent
<1> QED BY Zenon, <1>1, <1>2, <1>3, <1>5, <1>6, QuietKeeps

\* A call without an entry returns.
LEMMA UnregisteredReturns ==
  ASSUME Types, Types', TableInv, NEW c \in Caller, Return(c), calls' = calls,
         pc[c] \in Early \cup {"answered"} \/ answer[c] # NoAnswer,
         UNCHANGED client \/ \E w : Kill(w)
  PROVE  TableInv'
<1>1. /\ pending' = pending /\ outbound' = outbound /\ frames' = frames
  BY Zenon DEF client, io, Kill
<1>2. inbox' \in [Worker -> SUBSET RequestId] /\ \A w \in Worker : inbox'[w] \subseteq inbox[w]
  BY Zenon DEF client, io, Kill, TableInv, TableTypes
<1>3. TableTypes'
  BY Zenon, <1>1, <1>2 DEF TableInv, TableTypes, Return, Forget
<1>4. \A w \in Worker : Sent(w)' \subseteq Sent(w)
  BY Zenon, <1>1, <1>2 DEF Sent
<1>5. \A w \in Worker : Id(c) \notin pending[w]
  <2>1. Id(c)[1] = c
    BY Zenon DEF Id
  <2> SUFFICES ASSUME NEW w \in Worker, Id(c) \in pending[w] PROVE FALSE
    BY Zenon
  <2>2. answer[c] = NoAnswer
    BY Zenon DEF TableInv, OneShots
  <2>3. pc[c] \in {"registered", "waiting", "expired"}
    BY Zenon, <2>1 DEF TableInv, Entries, Registered
  <2> QED BY Zenon, <2>2, <2>3 DEF Early
<1>6. Forget(c) /\ abandoned' = abandoned
  BY Zenon DEF Return
<1> QED BY Zenon, <1>1, <1>3, <1>4, <1>5, <1>6, ReturnClears

\* A call that gives up takes its entry off the table (worker.rs 436-446).
LEMMA GiveUpReturns ==
  ASSUME Types, Types', TableInv, NEW c \in Caller, Return(c), calls' = calls,
         pending' = [pending EXCEPT ![at[c]] = @ \ {Id(c)}],
         inbox' = inbox, outbound' = outbound, frames' = frames
  PROVE  TableInv'
<1>1. TableTypes'
  BY Zenon DEF TableInv, TableTypes, Return, Forget
<1>2. \A w \in Worker : pending'[w] \subseteq pending[w]
  BY Zenon DEF TableInv, TableTypes
<1>3. \A w \in Worker : Id(c) \notin pending'[w]
  <2>1. Id(c)[1] = c
    BY Zenon DEF Id
  <2> QED BY Zenon, <2>1 DEF TableInv, TableTypes, Entries
<1>4. Forget(c) /\ abandoned' = abandoned
  BY Zenon DEF Return
<1> QED BY Zenon, <1>1, <1>2, <1>3, <1>4, SentSame, ReturnClears

\* A call that is dropped leaves its entry, if it had one (executor.rs, timeout).
LEMMA AbandonKeepsTable ==
  ASSUME Types, Types', TableInv, NEW c \in Caller, Abandon(c)
  PROVE  TableInv'
<1>1. /\ Forget(c) /\ calls' = calls
      /\ abandoned' = abandoned \cup ({Id(c)} \cap UNION {pending[w] : w \in Worker})
  BY Zenon DEF Abandon
<1>2. /\ pending' = pending /\ outbound' = outbound /\ frames' = frames
      /\ inbox' = inbox \/ inbox' = [inbox EXCEPT ![at[c]] = {}]
  BY Zenon DEF Abandon, client, io, Kill
<1>3. inbox' \in [Worker -> SUBSET RequestId] /\ \A w \in Worker : inbox'[w] \subseteq inbox[w]
  BY <1>2 DEF TableInv, TableTypes
<1>4. abandoned' \subseteq RequestId
  <2>1. \A w \in Worker : pending[w] \subseteq RequestId
    BY Zenon DEF TableInv, TableTypes
  <2>2. UNION {pending[w] : w \in Worker} \subseteq RequestId
    BY Zenon, <2>1
  <2>3. abandoned \subseteq RequestId
    BY Zenon DEF TableInv, TableTypes
  <2> QED BY <1>1, <2>2, <2>3
<1>5. TableTypes'
  <2>1. /\ discarded' \subseteq RequestId
        /\ serial' = [serial EXCEPT ![c] = 0] /\ answer' = [answer EXCEPT ![c] = NoAnswer]
    BY Zenon, <1>1 DEF TableInv, TableTypes, Forget
  <2>2. serial' \in [Caller -> Nat]
    BY <2>1 DEF TableInv, TableTypes
  <2> QED BY <1>1, <1>2, <1>3, <1>4, <2>1, <2>2 DEF TableInv, TableTypes
<1>6. \A w \in Worker : Sent(w)' \subseteq Sent(w) /\ pending'[w] \subseteq pending[w]
  BY Zenon, <1>2, <1>3 DEF Sent
<1>7. \A w \in Worker : Id(c) \in pending'[w] => Id(c) \in abandoned'
  BY Zenon, <1>1, <1>2
<1>8. abandoned \subseteq abandoned' /\ abandoned' \subseteq abandoned \cup {Id(c)}
  BY Zenon, <1>1
<1> QED BY Zenon, <1>1, <1>5, <1>6, <1>7, <1>8, ReturnClears

\* What the writer, the process and the reader do to the lines under way.
LEMMA TrafficKeepsTable ==
  ASSUME Types, Types', TableInv, pending' = pending, UNCHANGED <<call, calls>>,
         inbox' \in [Worker -> SUBSET RequestId], outbound' \in [Worker -> SUBSET RequestId],
         frames' \in [Worker -> SUBSET Frame],
         \A w \in Worker : Sent(w)' \subseteq Sent(w)
  PROVE  TableInv'
<1>1. /\ pc' = pc /\ at' = at /\ serial' = serial /\ answer' = answer /\ calls' = calls
      /\ discarded' = discarded /\ abandoned' = abandoned
  BY Zenon DEF call
<1>2. TableTypes'
  BY Zenon, <1>1 DEF TableInv, TableTypes
<1> QED BY Zenon, <1>1, <1>2, QuietKeeps

\* Every step of the manager, the callers, the worker and its tasks keeps the table.
LEMMA StepKeepsTable ==
  ASSUME Types, Types', TableInv, [Next]_vars
  PROVE  TableInv'
<1>1. CASE Initialize
  <2>1. Spawn(1) /\ UNCHANGED <<call, calls>>
    BY Zenon, <1>1 DEF Initialize
  <2>2. pending' = pending /\ inbox' = inbox /\ outbound' = outbound /\ frames' = frames
    BY Zenon, <2>1 DEF Spawn
  <2> QED BY Zenon, <2>1, <2>2, SentSame, TrafficKeepsTable DEF TableInv, TableTypes
<1>2. CASE InitializeFails \/ Shutdown
  <2>1. UNCHANGED <<client, call, calls>>
    BY Zenon, <1>2 DEF InitializeFails, Shutdown
  <2>2. pending' = pending /\ inbox' = inbox /\ outbound' = outbound /\ frames' = frames
    BY Zenon, <2>1 DEF client, io
  <2> QED BY Zenon, <2>1, <2>2, SentSame, TrafficKeepsTable DEF TableInv, TableTypes
<1>3. ASSUME NEW w, Kill(w), UNCHANGED <<call, calls>> PROVE TableInv'
  <2>1. pending' = pending /\ outbound' = outbound /\ frames' = frames
    BY Zenon, <1>3 DEF Kill
  <2>2. inbox' \in [Worker -> SUBSET RequestId] /\ \A v \in Worker : inbox'[v] \subseteq inbox[v]
    BY Zenon, <1>3 DEF Kill, TableInv, TableTypes
  <2>3. \A v \in Worker : Sent(v)' \subseteq Sent(v)
    BY Zenon, <2>1, <2>2 DEF Sent
  <2> QED BY Zenon, <1>3, <2>1, <2>2, <2>3, TrafficKeepsTable DEF TableInv, TableTypes
<1>4. CASE ShutdownEnds
  <2>1. UNCHANGED <<call, calls>>
    BY Zenon, <1>4 DEF ShutdownEnds
  <2>2. CASE stopped = NoWorker
    <3>1. pending' = pending /\ inbox' = inbox /\ outbound' = outbound /\ frames' = frames
      BY Zenon, <1>4, <2>2 DEF ShutdownEnds, client, io
    <3> QED BY Zenon, <2>1, <3>1, SentSame, TrafficKeepsTable DEF TableInv, TableTypes
  <2>3. CASE stopped # NoWorker
    BY Zenon, <1>3, <1>4, <2>1, <2>3 DEF ShutdownEnds
  <2> QED BY Zenon, <2>2, <2>3
<1>5. ASSUME NEW c \in Caller, Invoke(c) PROVE TableInv'
  BY Zenon, <1>5, InvokeKeepsTable
<1>6. ASSUME NEW c \in Caller, Lookup(c) PROVE TableInv'
  <2>1. UNCHANGED <<client, calls>> /\ pc[c] = "lookup" /\ pc[c] \in Early \ {"idle"}
    BY Zenon, <1>6 DEF Lookup, Early
  <2>2. CASE slot = NoWorker
    BY Zenon, <1>6, <2>1, <2>2, UnregisteredReturns DEF Lookup
  <2>3. CASE slot # NoWorker /\ alive[slot]
    BY Zenon, <1>6, <2>1, <2>3, LookupKeepsTable DEF Lookup
  <2>4. CASE slot # NoWorker /\ ~alive[slot]
    BY Zenon, <1>6, <2>1, <2>4, LookupKeepsTable DEF Lookup
  <2> QED BY Zenon, <2>2, <2>3, <2>4
<1>7. ASSUME NEW c \in Caller, RespawnWorker(c) PROVE TableInv'
  <2>1. UNCHANGED <<client, calls>> /\ pc[c] \in Early \ {"idle"}
    BY Zenon, <1>7 DEF RespawnWorker, Early
  <2>2. Return(c) \/ GoTo(c, "backoff") \/ GoWith(c, "send", slot)
    BY Zenon, <1>7 DEF RespawnWorker, Reserve
  <2>3. CASE Return(c)
    BY Zenon, <2>1, <2>3, UnregisteredReturns
  <2>4. CASE GoTo(c, "backoff") \/ GoWith(c, "send", slot)
    BY Zenon, <2>1, <2>4, LookupKeepsTable
  <2> QED BY Zenon, <2>2, <2>3, <2>4
<1>8. ASSUME NEW c \in Caller, TakeDead(c) PROVE TableInv'
  <2>1. UNCHANGED <<client, calls>> /\ pc[c] \in Early \ {"idle"} /\ GoWith(c, "reap", slot)
    BY Zenon, <1>8 DEF TakeDead, Early
  <2> QED BY Zenon, <2>1, LookupKeepsTable
<1>9. ASSUME NEW c \in Caller, Reap(c) PROVE TableInv'
  <2>1. /\ calls' = calls /\ pc[c] \in Early \ {"idle"} /\ GoWith(c, "launch", NoWorker)
        /\ UNCHANGED client \/ Kill(at[c])
    BY Zenon, <1>9 DEF Reap, Early
  <2> QED BY Zenon, <2>1, LaunchKeepsTable
<1>10. ASSUME NEW c \in Caller, LaunchWorker(c) PROVE TableInv'
  <2>1. /\ calls' = calls /\ pc[c] \in Early \ {"idle"} /\ GoWith(c, "verify", launched + 1)
        /\ Spawn(launched + 1)
    BY Zenon, <1>10 DEF LaunchWorker, Early
  <2> QED BY Zenon, <2>1, LaunchKeepsTable
<1>11. ASSUME NEW c \in Caller, LaunchFails(c) \/ VerifyFails(c) PROVE TableInv'
  <2>1. /\ calls' = calls /\ pc[c] \in Early /\ Return(c)
        /\ UNCHANGED client \/ Kill(at[c])
    BY Zenon, <1>11 DEF LaunchFails, VerifyFails, Early
  <2> QED BY Zenon, <2>1, UnregisteredReturns
<1>12. ASSUME NEW c \in Caller, Install(c) PROVE TableInv'
  <2>1. UNCHANGED <<client, calls>> /\ pc[c] \in Early \ {"idle"} /\ GoTo(c, "send")
    BY Zenon, <1>12 DEF Install, Early
  <2> QED BY Zenon, <2>1, LookupKeepsTable
<1>13. ASSUME NEW c \in Caller, NoteWorkerHealthy(c) PROVE TableInv'
  <2>1. UNCHANGED <<client, calls>> /\ pc[c] = "answered" /\ Return(c)
    BY Zenon, <1>13 DEF NoteWorkerHealthy
  <2> QED BY Zenon, <2>1, UnregisteredReturns
<1>14. ASSUME NEW c \in Caller, CheckAlive(c) \/ TaskTooLarge(c) PROVE TableInv'
  <2>1. /\ UNCHANGED <<client, calls>> /\ pc[c] \in Early \ {"idle"}
        /\ GoTo(c, "checked") \/ Return(c)
    BY Zenon, <1>14 DEF CheckAlive, TaskTooLarge, Early
  <2> QED BY Zenon, <2>1, LookupKeepsTable, UnregisteredReturns
<1>15. ASSUME NEW c \in Caller, Insert(c) PROVE TableInv'
  BY Zenon, <1>15, InsertKeepsTable
<1>16. ASSUME NEW c \in Caller, Submit(c) PROVE TableInv'
  <2>1. CASE writing[at[c]]
    BY Zenon, <1>16, <2>1, SubmitKeepsTable
  <2>2. CASE ~writing[at[c]]
    <3>1. /\ Return(c) /\ calls' = calls /\ pending' = [pending EXCEPT ![at[c]] = @ \ {Id(c)}]
          /\ inbox' = inbox /\ outbound' = outbound /\ frames' = frames
      BY Zenon, <1>16, <2>2 DEF Submit
    <3> QED BY Zenon, <3>1, GiveUpReturns
  <2> QED BY Zenon, <2>1, <2>2
<1>17. ASSUME NEW c \in Caller, Receive(c) PROVE TableInv'
  <2>1. UNCHANGED <<client, calls>> /\ pc[c] = "waiting" /\ answer[c] # NoAnswer
    BY Zenon, <1>17 DEF Receive
  <2>2. CASE Return(c)
    BY Zenon, <2>1, <2>2, UnregisteredReturns
  <2>3. CASE answer[c].kind = "line" /\ GoTo(c, "answered")
    <3>1. /\ pending' = pending /\ serial' = serial /\ answer' = answer /\ calls' = calls
          /\ discarded' = discarded /\ abandoned' = abandoned /\ inbox' = inbox /\ outbound' = outbound /\ frames' = frames
      BY Zenon, <2>1, <2>3 DEF GoTo, client, io
    <3>2. \A d \in Caller : d # c => pc'[d] = pc[d] /\ at'[d] = at[d]
      BY Zenon, <2>3 DEF GoTo, Types
    <3>3. pc'[c] = "answered" /\ at'[c] = at[c]
      BY Zenon, <2>3 DEF GoTo, Types
    <3>4. TableTypes'
      BY Zenon, <3>1 DEF TableInv, TableTypes
    <3> QED BY Zenon, <2>1, <2>3, <3>1, <3>2, <3>3, <3>4, SentSame, QuietKeeps
  <2> QED BY Zenon, <1>17, <2>2, <2>3 DEF Receive
<1>18. ASSUME NEW c \in Caller, TimesOut(c) PROVE TableInv'
  <2>1. UNCHANGED <<client, calls>> /\ pc[c] = "waiting" /\ GoTo(c, "expired")
    BY Zenon, <1>18 DEF TimesOut
  <2>2. /\ pending' = pending /\ serial' = serial /\ answer' = answer /\ calls' = calls
        /\ discarded' = discarded /\ abandoned' = abandoned /\ inbox' = inbox /\ outbound' = outbound /\ frames' = frames
    BY Zenon, <2>1 DEF GoTo, client, io
  <2>3. \A d \in Caller : d # c => pc'[d] = pc[d] /\ at'[d] = at[d]
    BY Zenon, <2>1 DEF GoTo, Types
  <2>4. pc'[c] = "expired" /\ at'[c] = at[c]
    BY Zenon, <2>1 DEF GoTo, Types
  <2>5. TableTypes'
    BY Zenon, <2>2 DEF TableInv, TableTypes
  <2> QED BY Zenon, <2>1, <2>2, <2>3, <2>4, <2>5, SentSame, QuietKeeps
<1>19. ASSUME NEW c \in Caller, GiveUp(c) PROVE TableInv'
  <2>1. /\ Return(c) /\ calls' = calls /\ pending' = [pending EXCEPT ![at[c]] = @ \ {Id(c)}]
        /\ inbox' = inbox /\ outbound' = outbound /\ frames' = frames
    BY Zenon, <1>19 DEF GiveUp, io
  <2> QED BY Zenon, <2>1, GiveUpReturns
<1>20. ASSUME NEW w \in Worker, WriterLoop(w) PROVE TableInv'
  <2>1. UNCHANGED <<call, calls>> /\ pending' = pending /\ frames' = frames
    BY Zenon, <1>20 DEF WriterLoop
  <2>2. outbound' \in [Worker -> SUBSET RequestId] /\ inbox' \in [Worker -> SUBSET RequestId]
    <3>1. /\ outbound \in [Worker -> SUBSET RequestId] /\ inbox \in [Worker -> SUBSET RequestId]
          /\ outbound' = [outbound EXCEPT ![w] = {}]
          /\ inbox' = inbox \/ inbox' = [inbox EXCEPT ![w] = @] \/ inbox' = [inbox EXCEPT ![w] = @ \cup outbound[w]]
      BY Zenon, <1>20 DEF WriterLoop, TableInv, TableTypes
    <3> QED BY Zenon, <3>1
  <2>3. \A v \in Worker : outbound'[v] \subseteq outbound[v] /\ inbox'[v] \subseteq inbox[v] \cup outbound[v]
    <3>1. /\ outbound \in [Worker -> SUBSET RequestId] /\ inbox \in [Worker -> SUBSET RequestId]
          /\ outbound' = [outbound EXCEPT ![w] = {}]
          /\ inbox' = inbox \/ inbox' = [inbox EXCEPT ![w] = @] \/ inbox' = [inbox EXCEPT ![w] = @ \cup outbound[w]]
      BY Zenon, <1>20 DEF WriterLoop, TableInv, TableTypes
    <3> QED BY Zenon, <3>1
  <2>4. \A v \in Worker : Sent(v)' \subseteq Sent(v)
    BY Zenon, <2>1, <2>3 DEF Sent
  <2> QED BY Zenon, <2>1, <2>2, <2>4, TrafficKeepsTable DEF TableInv, TableTypes
<1>21. ASSUME NEW w \in Worker, ReadFrame(w) PROVE TableInv'
  BY Zenon, <1>21, ReadFrameKeepsTable
<1>22. ASSUME NEW w \in Worker, ReadEof(w) \/ ReadError(w) PROVE TableInv'
  <2>1. /\ UNCHANGED <<call, calls>> /\ pending' = pending /\ outbound' = outbound
        /\ frames' = [frames EXCEPT ![w] = {}] /\ inbox' = [inbox EXCEPT ![w] = {}]
    BY Zenon, <1>22 DEF ReadEof, ReadError, StopReading
  <2>2. /\ frames' \in [Worker -> SUBSET Frame] /\ inbox' \in [Worker -> SUBSET RequestId]
        /\ \A v \in Worker : frames'[v] \subseteq frames[v] /\ inbox'[v] \subseteq inbox[v]
    BY Zenon, <2>1 DEF TableInv, TableTypes
  <2>3. \A v \in Worker : Sent(v)' \subseteq Sent(v)
    BY Zenon, <2>1, <2>2 DEF Sent
  <2> QED BY Zenon, <2>1, <2>2, <2>3, TrafficKeepsTable DEF TableInv, TableTypes
<1>23. ASSUME NEW w \in Worker, ClearPending(w) PROVE TableInv'
  BY Zenon, <1>23, ClearPendingKeepsTable
<1>24. ASSUME NEW w \in Worker, WorkerAnswers(w) PROVE TableInv'
  <2>1. UNCHANGED <<call, calls>> /\ pending' = pending /\ outbound' = outbound
    BY Zenon, <1>24 DEF WorkerAnswers
  <2>2. PICK f \in Frame :
          /\ f.id \in inbox[w]
          /\ inbox' = [inbox EXCEPT ![w] = @ \ {f.id}]
          /\ frames' = [frames EXCEPT ![w] = @ \cup {f}]
    BY Zenon, <1>24 DEF WorkerAnswers
  <2>3. inbox' \in [Worker -> SUBSET RequestId] /\ frames' \in [Worker -> SUBSET Frame]
    BY Zenon, <2>2 DEF TableInv, TableTypes
  <2>4. \A v \in Worker : /\ inbox'[v] \subseteq inbox[v]
                          /\ frames'[v] = frames[v] \/ (v = w /\ frames'[v] = frames[v] \cup {f})
    BY Zenon, <2>2 DEF TableInv, TableTypes
  <2>5. \A v \in Worker : Sent(v)' \subseteq Sent(v)
    BY Zenon, <2>1, <2>2, <2>4 DEF Sent
  <2> QED BY Zenon, <2>1, <2>3, <2>5, TrafficKeepsTable DEF TableInv, TableTypes
<1>25. ASSUME NEW w \in Worker, WorkerDies(w) PROVE TableInv'
  BY Zenon, <1>3, <1>25 DEF WorkerDies
<1>26. CASE UNCHANGED vars
  <2>1. /\ UNCHANGED <<call, calls>> /\ pending' = pending /\ inbox' = inbox
        /\ outbound' = outbound /\ frames' = frames
    BY Zenon, <1>26 DEF vars, client, io
  <2> QED BY Zenon, <2>1, SentSame, TrafficKeepsTable DEF TableInv, TableTypes
<1>27. ASSUME NEW c \in Caller, Abandon(c) PROVE TableInv'
  BY Zenon, <1>27, AbandonKeepsTable
<1> QED
  BY Zenon, <1>1, <1>2, <1>4, <1>5, <1>6, <1>7, <1>8, <1>9, <1>10, <1>11, <1>12, <1>13, <1>14, <1>15, <1>16,
     <1>17, <1>18, <1>19, <1>20, <1>21, <1>22, <1>23, <1>24, <1>25, <1>26, <1>27
     DEF Next, InvocationStep, Respawn, SendTask, WorkerTasks, WorkerFaults

\* The table of pending calls, which callers, the reader and its teardown share,
\* matches every response with its call, keeps no entry of a call that ended by itself
\* and leaves none waiting for a discarded response (worker.rs 412-446, 624-690).
THEOREM Matching == Spec => []ResponsesMatched
<1>1. Init => IInv /\ TableInv
  BY Zenon, InitEstablishes, InitTable
<1>2. IInv /\ TableInv /\ [Next]_vars => IInv' /\ TableInv'
  <2> SUFFICES ASSUME IInv, TableInv, [Next]_vars PROVE IInv' /\ TableInv'
    BY Zenon
  <2>1. IInv'
    BY Zenon, StepPreserves
  <2>2. Types /\ Types'
    BY Zenon, <2>1 DEF IInv
  <2> QED BY Zenon, <2>1, <2>2, StepKeepsTable
<1>3. TableInv => ResponsesMatched
  BY Zenon DEF TableInv, OneShots, ResponsesMatched, OwnResponse, NoLeakedEntries, Entries, Registered
<1> QED BY <1>1, <1>2, <1>3, PTL DEF Spec
-----------------------------------------------------------------------------
INSTANCE FiniteSetTheorems

\* Until shutdown() a plugin has one process at most: the lock keeps launches
\* apart, and the old process is waited for before its replacement starts
\* (plugin.rs 570-579).
THEOREM SingleProcess == Spec => []OneProcess
<1>1. IInv => OneProcess
  <2> SUFFICES ASSUME IInv, host \in {"new", "up", "failed"}
               PROVE  Cardinality({w \in Worker : process[w] = "running"}) <= 1
    BY Zenon DEF OneProcess
  <2> DEFINE R == {w \in Worker : process[w] = "running"}
  <2>1. \A v, w \in R : v = w
    BY DEF IInv, Types, LockInv, ProcessInv, Steps
  <2>2. CASE R = {}
    BY <2>2, FS_EmptySet
  <2>3. CASE R # {}
    <3>1. PICK w \in R : TRUE
      BY Zenon, <2>3
    <3>2. R = {w}
      BY Zenon, <2>1, <3>1
    <3>3. Cardinality({w}) = 1
      BY Zenon, FS_Singleton
    <3> QED
      BY <3>2, <3>3
  <2> QED
    BY Zenon, <2>2, <2>3
<1> QED
  BY <1>1, InitEstablishes, StepPreserves, PTL DEF Spec

\* respawn_worker replaces dead workers only, one at a time and within its budget,
\* whoever races for it (plugin.rs 530-640).
THEOREM Replacement == Spec => []WorkerReplaced
<1>1. ReapsOnlyDead /\ BudgetHolds /\ OneProcess => WorkerReplaced
  BY Zenon DEF WorkerReplaced
<1> QED
  BY <1>1, OnlyDeadReaped, BudgetKept, SingleProcess, PTL
=============================================================================
