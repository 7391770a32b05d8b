------------------------------ MODULE Bindings ------------------------------
(***************************************************************************)
(* The runtime under one of its two bindings, Go or Python.  The Python    *)
(* one shares the manager by reference count, has no lock, and runs each   *)
(* invocation as a task of its own, which a timeout detaches and does not  *)
(* stop.                                                                   *)
(***************************************************************************)
EXTENDS GoManager

VARIABLES
  binding, \* "go" or "python"
  detached \* are there invocations that run on after their caller has been told of a timeout?

vars == <<ffi, go, binding, detached>>

Init == FfiInit /\ GoInit /\ binding \in {"go", "python"} /\ detached = FALSE
-----------------------------------------------------------------------------
(* PyPluginManager; the callers are the tasks of its event loop *)

PyCalls(g) ==
  /\ pc[g] = "idle"
  /\ \E name \in {"invoke_hook", "initialize", "shutdown"} :
       /\ op' = [op EXCEPT ![g] = [NoCall EXCEPT !.name = name]]
       /\ pc' = [pc EXCEPT ![g] = IF name = "shutdown" THEN "closing" ELSE "running"]
  /\ UNCHANGED <<ffi, mutex, objects, detached>>

\* An invocation ends, having left background tasks behind or not: its handle to
\* them is dropped.
Spawns == ResultsLost

PyReturns(g) ==
  /\ \/ pc[g] = "running" /\ op[g].name = "invoke_hook" /\ Spawns
     \/ pc[g] = "running" /\ op[g].name = "initialize" /\ (Initializes \/ Fails)
     \/ /\ pc[g] = "closing"
        /\ plugins = "up" => Drained
        /\ plugins' = IF plugins = "up" THEN "stopped" ELSE plugins
        /\ UNCHANGED <<heap, misused, manager, tasks>>
  /\ Returns(g)
  /\ UNCHANGED <<mutex, objects, detached>>

\* A shutdown that times out leaves the plugins up.
PyTimesOut(g) ==
  /\ pc[g] # "idle"
  /\ detached' = (detached \/ op[g].name = "invoke_hook")
  /\ Returns(g)
  /\ UNCHANGED <<ffi, mutex, objects>>

\* A detached invocation ends; it may have been the last.
DetachedEnds ==
  /\ detached /\ detached' \in BOOLEAN
  /\ Spawns
  /\ UNCHANGED go
-----------------------------------------------------------------------------
PyNext == (\E g \in Goroutine : PyCalls(g) \/ PyReturns(g) \/ PyTimesOut(g)) \/ DetachedEnds

Next ==
  /\ \/ binding = "go" /\ GoNext /\ UNCHANGED detached
     \/ binding = "python" /\ PyNext
     \/ TasksEnd /\ UNCHANGED <<go, detached>>
  /\ UNCHANGED binding

\* Callers are scheduled, a mutex that is free again and again is handed to each
\* who waits for it, and timers fire; plugins need not finish, nor do hosts call.
Fairness ==
  \A g \in Goroutine :
    SF_vars(/\ UNCHANGED binding
            /\ \/ binding = "go" /\ Steps(g) /\ UNCHANGED detached
               \/ binding = "python" /\ PyTimesOut(g))

Spec == Init /\ [][Next]_vars /\ Fairness
-----------------------------------------------------------------------------
\* Types, and the lock: readers are the goroutines between RLock and RUnlock, and
\* nobody shuts down while somebody reads (manager.go 104-109).
TypeOK ==
  /\ heap \in [Addr -> {"none", "table", "tasks"}]
  /\ tasks \subseteq Addr \cup {Null} \cup Goroutine
  /\ ct \in [Goroutine -> Addr \cup {Null}]
  /\ binding = "go" =>
       /\ readers = {g \in Goroutine : pc[g] = "running"}
       /\ writer = {g \in Goroutine : pc[g] = "closing"}
       /\ readers = {} \/ writer = Nobody

\* The handles of Go objects: tables and tasks, also of objects that only the
\* collector knows, and of a Wait that has not reached Rust.
Tables == {ct[g] : g \in Goroutine} \ {Null}

TasksHeld == bgs \cup {op[g].arg : g \in {h \in Goroutine : op[h].name = "Wait" /\ pc[h] # "running"}}

\* A handle that a Go object holds is the address of a box of its kind that nobody
\* else holds, so that no call, Close or finalizer frees or reads a box that Rust
\* has consumed, whatever the return code of the call that consumed it
\* (lib.rs 699-723, manager.go 364-368, 637).
HandlesValid ==
  /\ misused = {}
  /\ \A a \in Tables \cup garbage : heap[a] = "table"
  /\ \A a \in TasksHeld : heap[a] = "tasks"
  /\ Tables \cap garbage = {}
  /\ \A g, h \in Goroutine : g # h /\ ct[g] # Null => ct[g] # ct[h]

\* No box is forgotten: each is held by a Go object, through which a finalizer (of a
\* table), Wait or Close (of tasks) frees it, also after calls that failed or were
\* refused, but for those of results that cannot be decoded and of a Wait that comes
\* after a shutdown (manager.go 411-414, 622-631).
NoneForgotten ==
  binding = "go" => {a \in Addr : heap[a] # "none"} \subseteq Tables \cup garbage \cup TasksHeld

\* Every box that crosses the interface has one owner until it is freed.
HandlesAccounted == HandlesValid /\ NoneForgotten

\* The manager is there for as long as a call runs in it, also when another
\* goroutine shuts it down meanwhile (TestShutdownDuringInvokesIsSafe).
OutlivesCalls == \A g \in Goroutine : pc[g] = "running" => manager = "alive"

\* When plugins have been shut down nothing runs in them any more: neither a call
\* nor a background task, though nobody waited for it (manager.rs 894-901,
\* manager.go 246-257).
StoppedIdle ==
  binding = "go" /\ plugins = "stopped" =>
    tasks = {} /\ \A g \in Goroutine : pc[g] # "running"

\* Shutdown, from whichever goroutine, stops the plugins and frees the manager only
\* when nothing runs in them.
ShutdownWaits == OutlivesCalls /\ StoppedIdle

\* Every call returns, whether plugins finish or not, and so do a shutdown among
\* callers that keep calling and a call that meets a shutdown.
CallsReturn == \A g \in Goroutine : pc[g] # "idle" ~> pc[g] = "idle"
-----------------------------------------------------------------------------
\* Not so: background tasks "are drained by `shutdown()`" (bindings/python/src/
\* manager.rs:16).
DrainedByShutdown == plugins = "stopped" => tasks = {}
=============================================================================
