----------------------------- MODULE Lifecycle -----------------------------
(***************************************************************************)
(* initialize() and shutdown() of a PluginManager that callers share.      *)
(* Both read the `initialized` flag, await one plugin after the other and  *)
(* set the flag at the end, with no lock held.  The registry is a hash     *)
(* map: plugins are visited in any order.  Fire-and-forget tasks are       *)
(* counted by the manager's TaskTracker, which shutdown closes and waits   *)
(* on before it tears plugins down.                                        *)
(***************************************************************************)
EXTENDS Naturals, Sequences, FiniteSets

CONSTANTS Caller, Plugin, MaxCalls, MaxTasks

ASSUME LifecycleAssumption == MaxCalls \in Nat /\ MaxTasks \in Nat

VARIABLES
  registered,  \* plugins in the order they were registered
  initialized, \* the manager's flag
  pc,          \* what each caller does next
  todo,        \* plugins it has still to visit
  done,        \* plugins it has initialised, or shut down, in order
  known,       \* history: plugins registered when its last shutdown() began
  ups, downs,  \* initialize() and shutdown() calls each plugin has had
  early, tasks,\* tracked tasks, spawned before and after the tracker was closed
  spawned,     \* tasks spawned in all
  closed,      \* is the tracker closed?
  woken,       \* shutdowns whose wait on the tracker has been notified
  calls        \* initialize() and shutdown() calls made

tracker == <<early, tasks, spawned, closed, woken>>

vars == <<registered, initialized, pc, todo, done, known, ups, downs, tracker, calls>>

Registered == {registered[k] : k \in DOMAIN registered}

Init ==
  /\ registered = <<>>
  /\ initialized = FALSE
  /\ pc = [c \in Caller |-> "idle"]
  /\ todo = [c \in Caller |-> {}]
  /\ done = [c \in Caller |-> <<>>]
  /\ known = [c \in Caller |-> {}]
  /\ ups = [p \in Plugin |-> 0]
  /\ downs = [p \in Plugin |-> 0]
  /\ early = 0
  /\ tasks = 0
  /\ spawned = 0
  /\ closed = FALSE
  /\ woken = {}
  /\ calls = 0

Register(p) ==
  /\ p \notin Registered
  /\ registered' = Append(registered, p)
  /\ UNCHANGED <<known, initialized, pc, todo, done, ups, downs, tracker, calls>>

Initialize(c) ==
  /\ pc[c] \in {"idle", "failed"}
  /\ calls < MaxCalls
  /\ ~initialized
  /\ calls' = calls + 1
  /\ pc' = [pc EXCEPT ![c] = "init"]
  /\ todo' = [todo EXCEPT ![c] = Registered]
  /\ done' = [done EXCEPT ![c] = <<>>]
  /\ UNCHANGED <<known, registered, initialized, ups, downs, tracker>>

InitializePlugin(c, p) ==
  /\ pc[c] = "init"
  /\ p \in todo[c]
  /\ ups' = [ups EXCEPT ![p] = @ + 1]
  /\ todo' = [todo EXCEPT ![c] = @ \ {p}]
  /\ done' = [done EXCEPT ![c] = Append(@, p)]
  /\ UNCHANGED <<known, registered, initialized, pc, downs, tracker, calls>>

\* A plugin refuses to initialise: roll back those that did.
InitializeFails(c, p) ==
  /\ pc[c] = "init"
  /\ p \in todo[c]
  /\ pc' = [pc EXCEPT ![c] = "rollback"]
  /\ UNCHANGED <<known, registered, initialized, todo, done, ups, downs, tracker, calls>>

\* Fault: the rollback leaves the plugin initialised first alone.
RollbackKeepsFirst(c) ==
  /\ pc[c] = "rollback"
  /\ IF Len(done[c]) <= 1
     THEN pc' = [pc EXCEPT ![c] = "failed"] /\ UNCHANGED <<downs, done>>
     ELSE /\ downs' = [downs EXCEPT ![done[c][Len(done[c])]] = @ + 1]
          /\ done' = [done EXCEPT ![c] = SubSeq(@, 1, Len(@) - 1)]
          /\ UNCHANGED pc
  /\ UNCHANGED <<known, registered, initialized, todo, ups, tracker, calls>>

\* Shut down the last plugin initialised, whether or not it reports an error.
Rollback(c) ==
  /\ pc[c] = "rollback"
  /\ IF done[c] = <<>>
     THEN pc' = [pc EXCEPT ![c] = "failed"] /\ UNCHANGED <<downs, done>>
     ELSE /\ downs' = [downs EXCEPT ![done[c][Len(done[c])]] = @ + 1]
          /\ done' = [done EXCEPT ![c] = SubSeq(@, 1, Len(@) - 1)]
          /\ UNCHANGED pc
  /\ UNCHANGED <<known, registered, initialized, todo, ups, tracker, calls>>

InitializeEnds(c) ==
  /\ pc[c] = "init"
  /\ todo[c] = {}
  /\ initialized' = TRUE
  /\ pc' = [pc EXCEPT ![c] = "idle"]
  /\ UNCHANGED <<known, registered, todo, done, ups, downs, tracker, calls>>

Shutdown(c) ==
  /\ pc[c] \in {"idle", "failed"}
  /\ calls < MaxCalls
  /\ initialized
  /\ calls' = calls + 1
  /\ closed' = TRUE
  /\ pc' = [pc EXCEPT ![c] = "drain"]
  /\ known' = [known EXCEPT ![c] = Registered]
  /\ UNCHANGED <<registered, initialized, todo, done, ups, downs, early, tasks, spawned, woken>>

\* Fault: shutdown does not wait for the tracker.
DrainAtOnce(c) ==
  /\ pc[c] = "drain"
  /\ pc' = [pc EXCEPT ![c] = "teardown"]
  /\ todo' = [todo EXCEPT ![c] = Registered]
  /\ done' = [done EXCEPT ![c] = <<>>]
  /\ UNCHANGED <<known, registered, initialized, ups, downs, tracker, calls>>

\* Fault: shutdown waits for a notification even if the tracker is empty.
DrainedOnWake(c) ==
  /\ pc[c] = "drain"
  /\ c \in woken
  /\ pc' = [pc EXCEPT ![c] = "teardown"]
  /\ todo' = [todo EXCEPT ![c] = Registered]
  /\ done' = [done EXCEPT ![c] = <<>>]
  /\ woken' = woken \ {c}
  /\ UNCHANGED <<known, registered, initialized, ups, downs, early, tasks, spawned, closed, calls>>

\* The tracker is empty, or was at some moment since shutdown began to wait.
Drained(c) ==
  /\ pc[c] = "drain"
  /\ early + tasks = 0 \/ c \in woken
  /\ pc' = [pc EXCEPT ![c] = "teardown"]
  /\ todo' = [todo EXCEPT ![c] = Registered]
  /\ done' = [done EXCEPT ![c] = <<>>]
  /\ woken' = woken \ {c}
  /\ UNCHANGED <<known, registered, initialized, ups, downs, early, tasks, spawned, closed, calls>>

\* An error of plugin.shutdown() is logged and the next plugin visited.
ShutdownPlugin(c, p) ==
  /\ pc[c] = "teardown"
  /\ p \in todo[c]
  /\ downs' = [downs EXCEPT ![p] = @ + 1]
  /\ todo' = [todo EXCEPT ![c] = @ \ {p}]
  /\ done' = [done EXCEPT ![c] = Append(@, p)]
  /\ UNCHANGED <<known, registered, initialized, pc, ups, tracker, calls>>

\* Fault: a plugin's error ends the shutdown.
ShutdownEndsEarly(c) ==
  /\ pc[c] = "teardown"
  /\ done[c] # <<>>
  /\ initialized' = FALSE
  /\ pc' = [pc EXCEPT ![c] = "idle"]
  /\ UNCHANGED <<known, registered, todo, done, ups, downs, tracker, calls>>

ShutdownEnds(c) ==
  /\ pc[c] = "teardown"
  /\ todo[c] = {}
  /\ initialized' = FALSE
  /\ pc' = [pc EXCEPT ![c] = "idle"]
  /\ UNCHANGED <<known, registered, todo, done, ups, downs, tracker, calls>>

\* An invocation spawns a fire-and-forget task on the tracker.  Invocations do
\* not look at the flag; after a shutdown none should be made.
Spawn ==
  /\ spawned < MaxTasks
  /\ closed => initialized
  /\ spawned' = spawned + 1
  /\ IF closed THEN tasks' = tasks + 1 /\ UNCHANGED early
               ELSE early' = early + 1 /\ UNCHANGED tasks
  /\ UNCHANGED <<known, registered, initialized, pc, todo, done, ups, downs, closed, woken, calls>>

\* The last task to end wakes whoever waits on the closed tracker.
TaskEnds ==
  /\ \/ early > 0 /\ early' = early - 1 /\ UNCHANGED tasks
     \/ tasks > 0 /\ tasks' = tasks - 1 /\ UNCHANGED early
  /\ woken' = IF closed /\ early + tasks = 1
              THEN woken \cup {c \in Caller : pc[c] = "drain"} ELSE woken
  /\ UNCHANGED <<known, registered, initialized, pc, todo, done, ups, downs, spawned, closed, calls>>

InitializeStep(c) ==
  \/ (\E p \in Plugin : InitializePlugin(c, p)) \/ Rollback(c) \/ InitializeEnds(c)

ShutdownStep(c) == Drained(c) \/ (\E p \in Plugin : ShutdownPlugin(c, p)) \/ ShutdownEnds(c)

Step(c) == InitializeStep(c) \/ ShutdownStep(c)

Next ==
  \/ \E p \in Plugin : Register(p)
  \/ \E c \in Caller : Initialize(c) \/ Shutdown(c) \/ Step(c)
  \/ \E c \in Caller, p \in Plugin : InitializeFails(c, p)
  \/ Spawn \/ TaskEnds

Spec == Init /\ [][Next]_vars

\* A call that has begun is polled to its end, and plugins answer; tasks end.
Fairness == WF_vars(TaskEnds) /\ \A c \in Caller : WF_vars(Step(c))

FairSpec == Spec /\ Fairness
-----------------------------------------------------------------------------
\* A failed initialize() leaves nothing up: once no call is in progress and none
\* succeeded, every plugin has been shut down as often as initialised
\* (manager.rs 845-867).
RollbackComplete ==
  (\A c \in Caller : pc[c] \in {"idle", "failed"}) /\ ~initialized /\ ~closed
    => ups = downs

\* No task spawned before shutdown() closed the tracker is still running when a
\* plugin is shut down (manager.rs 894-901).
DrainedBeforeTeardown ==
  \A c \in Caller : pc[c] = "teardown" => early = 0

\* A shutdown leaves out no plugin that was registered when it began, whichever
\* of them fail (manager.rs 903-913): when it returns, it has itself shut down
\* each of them, those already registered while it drained the tasks included.
ShutdownReachesAll ==
  [][\A c \in Caller : pc[c] = "teardown" /\ pc'[c] = "idle" =>
       \A p \in known[c] : \E k \in DOMAIN done[c] : done[c][k] = p]_vars

\* Every initialize() and shutdown() that has begun returns.
CallsReturn == \A c \in Caller : pc[c] \notin {"idle", "failed"} ~> pc[c] \in {"idle", "failed"}
-----------------------------------------------------------------------------
\* "Idempotent - calling twice has no effect" (manager.rs:822): a
\* plugin is initialised at most once more than it has been shut down.
InitializeIdempotent == \A p \in Plugin : ups[p] <= downs[p] + 1

\* "Calls `plugin.shutdown()` on each registered plugin in reverse registration
\* order" (manager.rs:880).
ReverseOrder ==
  \A c \in Caller : pc[c] = "teardown" =>
    \A j, k \in DOMAIN done[c] : j < k =>
      \E a, b \in DOMAIN registered :
        registered[a] = done[c][j] /\ registered[b] = done[c][k] /\ a > b
=============================================================================
