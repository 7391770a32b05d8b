---------------------------- MODULE PythonPlugin ----------------------------
(***************************************************************************)
(* An isolated Python plugin: invocations that look the worker up, respawn *)
(* a dead one under the respawn lock and its budget, send their task and   *)
(* return the budget after a completed round trip, while the manager       *)
(* initialises the plugin and shuts it down.                               *)
(***************************************************************************)
EXTENDS WorkerClient

CONSTANTS
  MaxRespawnAttempts, \* MAX_RESPAWN_ATTEMPTS
  Handshake           \* does the plugin declare a capability the worker must know?

Free == "free"

ASSUME PluginAssumption ==
  /\ MaxRespawnAttempts \in Nat \ {0}
  /\ MaxWorkers \in Nat \ {0}
  /\ MaxCalls \in Nat
  /\ Handshake \in BOOLEAN
  /\ Free \notin Caller

VARIABLES
  slot,       \* the live worker, or none
  lock,       \* the invocation that holds the respawn lock
  attempts,   \* respawns spent in the budget window; the window is open while it is not 0
  launched,   \* workers launched
  host,       \* the manager: "new", "up", "failed", "stopping", "down"
  stopped,    \* the worker shutdown() took
  spent       \* history: respawns since a round trip completed or the window elapsed

plugin == <<slot, lock, attempts, launched, host, stopped, spent>>

vars == <<client, call, calls, plugin>>

Init ==
  /\ ClientInit
  /\ slot = NoWorker
  /\ lock = Free
  /\ attempts = 0
  /\ launched = 0
  /\ host = "new"
  /\ stopped = NoWorker
  /\ spent = 0

Respawnable(w) == w = NoWorker \/ ~alive[w]
-----------------------------------------------------------------------------
(* The manager *)

\* launch_worker, verify_worker_understands and the installation.
Initialize ==
  /\ host = "new"
  /\ Spawn(1)
  /\ launched' = 1
  /\ slot' = 1
  /\ host' = "up"
  /\ UNCHANGED <<call, calls, lock, attempts, stopped, spent>>

InitializeFails ==
  /\ host = "new"
  /\ host' = "failed"
  /\ UNCHANGED <<client, call, calls, slot, lock, attempts, launched, stopped, spent>>

Shutdown ==
  /\ host = "up"
  /\ slot' = NoWorker
  /\ stopped' = slot
  /\ host' = "stopping"
  /\ UNCHANGED <<client, call, calls, lock, attempts, launched, spent>>

\* The worker exits within the grace window or is killed.
ShutdownEnds ==
  /\ host = "stopping"
  /\ IF stopped = NoWorker THEN UNCHANGED client ELSE Kill(stopped)
  /\ host' = "down"
  /\ stopped' = NoWorker
  /\ UNCHANGED <<call, calls, slot, lock, attempts, launched, spent>>
-----------------------------------------------------------------------------
(* An invocation finds its worker. *)

Invoke(c) ==
  /\ pc[c] = "idle"
  /\ calls < MaxCalls
  /\ calls' = calls + 1
  /\ serial' = [serial EXCEPT ![c] = calls + 1]
  /\ pc' = [pc EXCEPT ![c] = "lookup"]
  /\ UNCHANGED <<client, at, answer, discarded, abandoned, plugin>>

GoWith(c, step, w) ==
  /\ pc' = [pc EXCEPT ![c] = step]
  /\ at' = [at EXCEPT ![c] = w]
  /\ UNCHANGED <<serial, answer, discarded, abandoned>>

Lookup(c) ==
  /\ pc[c] = "lookup"
  /\ CASE slot = NoWorker -> Return(c)
       [] slot # NoWorker /\ alive[slot] ->
            GoWith(c, "send", slot)
       [] OTHER -> GoTo(c, "queue")
  /\ UNCHANGED <<client, calls, plugin>>

\* RespawnState::try_reserve: an open window may have elapsed by now.
Reserve(c) ==
  \E elapsed \in {FALSE, attempts > 0} :
    LET used == IF elapsed THEN 0 ELSE attempts IN
    IF used >= MaxRespawnAttempts
    THEN Return(c) /\ UNCHANGED <<lock, attempts, spent>>
    ELSE /\ GoTo(c, "backoff")
         /\ attempts' = used + 1
         /\ spent' = IF elapsed THEN 1 ELSE spent + 1
         /\ lock' = c

\* Fault: no second look at the slot under the lock.
RespawnUnchecked(c) ==
  /\ pc[c] = "queue"
  /\ lock = Free
  /\ Reserve(c)
  /\ UNCHANGED <<client, calls, slot, launched, host, stopped>>

\* Under the lock: another invocation may have replaced the worker already.
RespawnWorker(c) ==
  /\ pc[c] = "queue"
  /\ lock = Free
  /\ IF Respawnable(slot)
     THEN Reserve(c)
     ELSE /\ GoWith(c, "send", slot)
          /\ UNCHANGED <<lock, attempts, spent>>
  /\ UNCHANGED <<client, calls, slot, launched, host, stopped>>

\* After the backoff the corpse leaves the slot.
TakeDead(c) ==
  /\ pc[c] = "backoff"
  /\ slot' = NoWorker
  /\ GoWith(c, "reap", slot)
  /\ UNCHANGED <<client, calls, lock, attempts, launched, host, stopped, spent>>

\* Its shutdown() waits for the process or kills it.
Reap(c) ==
  /\ pc[c] = "reap"
  /\ IF at[c] = NoWorker THEN UNCHANGED client ELSE Kill(at[c])
  /\ GoWith(c, "launch", NoWorker)
  /\ UNCHANGED <<calls, plugin>>

LaunchWorker(c) ==
  /\ pc[c] = "launch"
  /\ launched < MaxWorkers
  /\ Spawn(launched + 1)
  /\ launched' = launched + 1
  /\ GoWith(c, "verify", launched + 1)
  /\ UNCHANGED <<calls, slot, lock, attempts, host, stopped, spent>>

\* No interpreter, no venv or no process: the slot stays empty.
LaunchFails(c) ==
  /\ pc[c] = "launch"
  /\ Return(c)
  /\ lock' = Free
  /\ UNCHANGED <<client, calls, slot, attempts, launched, host, stopped, spent>>

\* The worker reports the features the plugin needs, or none are needed.
Install(c) ==
  /\ pc[c] = "verify"
  /\ slot' = at[c]
  /\ lock' = Free
  /\ GoTo(c, "send")
  /\ UNCHANGED <<client, calls, attempts, launched, host, stopped, spent>>

\* The handshake fails or shows a feature missing: the client is dropped, and
\* dropping it kills the process.
VerifyFails(c) ==
  /\ pc[c] = "verify"
  /\ Handshake
  /\ Kill(at[c])
  /\ Return(c)
  /\ lock' = Free
  /\ UNCHANGED <<calls, slot, attempts, launched, host, stopped, spent>>

\* A completed round trip returns the budget.
NoteWorkerHealthy(c) ==
  /\ pc[c] = "answered"
  /\ lock = Free
  /\ attempts' = 0
  /\ spent' = 0
  /\ Return(c)
  /\ UNCHANGED <<client, calls, slot, lock, launched, host, stopped>>

\* The executor's own timeout drops the invocation where it awaits.  Its one-shot stays
\* in the table; the respawn lock is let go of, and with it the process that was being
\* reaped or not installed yet.
Abandon(c) ==
  /\ pc[c] \notin {"idle", "send"} /\ (pc[c] = "registered" => ~writing[at[c]])
  /\ Forget(c)
  /\ abandoned' = abandoned \cup ({Id(c)} \cap UNION {pending[w] : w \in Worker})
  /\ IF pc[c] \in {"reap", "verify"} /\ at[c] # NoWorker THEN Kill(at[c]) ELSE UNCHANGED client
  /\ lock' = IF lock = c THEN Free ELSE lock
  /\ UNCHANGED <<calls, slot, attempts, launched, host, stopped, spent>>
-----------------------------------------------------------------------------
Respawn(c) ==
  \/ RespawnWorker(c) \/ TakeDead(c) \/ Reap(c) \/ LaunchWorker(c) \/ LaunchFails(c)
  \/ Install(c) \/ VerifyFails(c)

InvocationStep(c) ==
  \/ Lookup(c) \/ Respawn(c) \/ NoteWorkerHealthy(c)
  \/ SendTask(c) /\ UNCHANGED plugin

Next ==
  \/ Initialize \/ InitializeFails \/ Shutdown \/ ShutdownEnds
  \/ \E c \in Caller : Invoke(c) \/ InvocationStep(c) \/ Abandon(c)
  \/ \E w \in Worker : (WorkerTasks(w) \/ WorkerFaults(w)) /\ UNCHANGED plugin

Spec == Init /\ [][Next]_vars

\* The runtime polls invocations that can move, fires their timers and hands
\* the lock on.  Nothing is assumed of the process, of its pipes or of the
\* manager; as calls are bounded, none can be passed over for ever.
Fairness == WF_vars(\E c \in Caller : InvocationStep(c))

FairSpec == Spec /\ Fairness
-----------------------------------------------------------------------------
\* The state of the client and of the plugin is of the types of their structs.
TypeOK ==
  /\ process \in [Worker -> {"none", "running", "gone"}]
  /\ \A w \in Worker : pending[w] \subseteq RequestId /\ frames[w] \subseteq Frame
  /\ slot \in Worker \cup {NoWorker}
  /\ lock \in Caller \cup {Free}
  /\ attempts \in 0 .. MaxRespawnAttempts

\* A response reaches the call it answers, however late it comes and whatever
\* other calls have been made or have given up since (worker.rs 624-634).
OwnResponse == \A c \in Caller : pc[c] = "answered" => answer[c].id = Id(c)

\* An id is in the table only while its call is between its registration and
\* its return (worker.rs 412-446): calls that time out or fail by themselves leave
\* nothing behind in a worker that lives for the whole process.  A call that the executor
\* drops does, until the worker answers it or ends.
NoLeakedEntries ==
  \A w \in Worker : \A i \in pending[w] :
    i \notin abandoned => Id(i[1]) = i /\ at[i[1]] = w /\ pc[i[1]] \in {"registered", "waiting", "expired"}

\* When a frame is discarded for its size, the call it was meant for is told:
\* no call stays registered for a response that no longer exists
\* (worker.rs 637-674).
DiscardedNotAwaited == \A w \in Worker : pending[w] \cap discarded = {}

\* The table of pending calls, which callers, the reader and the teardown share,
\* matches calls and responses.
ResponsesMatched == OwnResponse /\ NoLeakedEntries /\ DiscardedNotAwaited

\* Of the invocations that noticed the same death one replaces the worker: none
\* takes a live worker out of the slot and stops it (plugin.rs 534-539, 570-575).
ReapsOnlyDead ==
  \A c \in Caller : pc[c] = "reap" /\ at[c] # NoWorker => ~alive[at[c]]

\* The budget: with no completed round trip in between and within the
\* reset period a plugin is respawned MAX_RESPAWN_ATTEMPTS times at most, however many
\* replacements start and then crash (plugin.rs 592-604).
BudgetHolds == spent <= MaxRespawnAttempts

\* Until the plugin is shut down it has at most one process (plugin.rs 570-579).
OneProcess ==
  host \in {"new", "up", "failed"} => Cardinality({w \in Worker : process[w] = "running"}) <= 1

\* A dead worker is replaced once and within the budget, by callers that race for it.
WorkerReplaced == ReapsOnlyDead /\ BudgetHolds /\ OneProcess

\* Every invocation returns, whether the worker hangs, dies, answers late or
\* cannot be replaced, and whoever holds the respawn lock.
InvocationsReturn == \A c \in Caller : pc[c] # "idle" ~> pc[c] = "idle"
-----------------------------------------------------------------------------
\* "a send that races this teardown either sees the flag and fails fast, or
\* finds its sender dropped" (worker.rs:685): no call waits out its timeout on
\* a worker whose reader has gone.
FailsFastWhenDead ==
  \A c \in Caller : ~(pc[c] = "waiting" /\ answer[c] = NoAnswer /\ reader[at[c]] = "ended")

\* "settles into one retry per minute rather than either hammering or staying
\* dead forever" (plugin.rs:79): a plugin that is up and not being respawned
\* has a worker, dead or alive, that a later invocation can replace.
NotDeadForever == host = "up" /\ lock = Free => slot # NoWorker

\* "Stop the worker, killing it if it will not exit on its own" (plugin.rs:883):
\* once shutdown() has returned and no respawn is under way, no worker is left.
StoppedStaysStopped == host = "down" /\ lock = Free => slot = NoWorker

\* "fail exactly the one caller whose response was dropped instead of every
\* in-flight request" (worker.rs:710): a call is failed for an oversized frame
\* with a readable id only if it is its own.
BlamesOwner ==
  \A c \in Caller : pc[c] = "waiting" /\ answer[c].kind = "big" => answer[c].id = Id(c)
=============================================================================
