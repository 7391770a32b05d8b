------------------------------ MODULE CpexFfi ------------------------------
(***************************************************************************)
(* The C surface of the runtime: what its entry points do with the boxes   *)
(* whose addresses a host holds, with the manager and with its background  *)
(* tasks.  An address is taken again once it has been freed.               *)
(***************************************************************************)
EXTENDS Naturals, FiniteSets

CONSTANT MaxBoxes \* bound: boxes at a time

ASSUME FfiAssumption == MaxBoxes \in Nat

VARIABLES
  heap,    \* what is at each address: "none", a context "table" or background "tasks"
  misused, \* history: addresses freed or read when nothing of their kind was there
  manager, \* the manager's box: "alive", "closing" or "freed"
  plugins, \* "new", "up", "stopped", or "left" by a shutdown that timed out
  tasks    \* who holds background tasks that are running: the address of a box, a caller
           \* that waits for them, or nobody (Null): then there are one or more

ffi == <<heap, misused, manager, plugins, tasks>>

Addr == 1 .. MaxBoxes

\* The null pointer.
Null == 0

Free == {a \in Addr : heap[a] = "none"}

FfiInit ==
  /\ heap = [a \in Addr |-> "none"]
  /\ misused = {}
  /\ manager = "alive" /\ plugins = "new" /\ tasks = {}
-----------------------------------------------------------------------------
\* Box::from_raw and the end of the box.
Frees(a, kind) ==
  /\ heap' = IF a = Null THEN heap ELSE [heap EXCEPT ![a] = "none"]
  /\ misused' = misused \cup (IF a = Null \/ heap[a] = kind THEN {} ELSE {a})

\* cpex_invoke and cpex_invoke_resolved own the table from their entry on.
ConsumesTable(a) == Frees(a, "table") /\ UNCHANGED <<manager, plugins, tasks>>

\* The two boxes of a result, for one whose identity was denied only the first.
NewTable == CHOOSE a \in Free : \A b \in Free : a <= b

NewTasks(denied) ==
  LET left == Free \ {NewTable}
  IN IF denied THEN Null ELSE CHOOSE a \in left : \A b \in left : a <= b

\* Running tasks get another holder.
Handed(from, to) == IF from \in tasks THEN (tasks \ {from}) \cup {to} ELSE tasks

\* RC_OK: the result, with its boxes.  Its background tasks, if it has any, run.
Results(denied) ==
  LET bg == NewTasks(denied)
  IN /\ heap' = [a \in Addr |-> IF a = NewTable THEN "table" ELSE IF a = bg THEN "tasks" ELSE heap[a]]
     /\ \E spawned \in SUBSET ({bg} \ {Null}) : tasks' = tasks \cup spawned
     /\ UNCHANGED <<misused, manager, plugins>>

\* The same when nobody gets to know the addresses: such a box is never freed, and
\* no longer counts.
ResultsLost ==
  /\ tasks' \in {tasks, tasks \cup {Null}}
  /\ UNCHANGED <<heap, misused, manager, plugins>>

\* The address of a box is given up without freeing it.
Leaks(a) ==
  /\ heap' = [heap EXCEPT ![a] = "none"]
  /\ tasks' = Handed(a, Null)
  /\ UNCHANGED <<misused, manager, plugins>>

\* Any other return code leaves the out parameters null.
Fails == UNCHANGED ffi

\* cpex_wait_background owns the box from its entry on, and waits for its tasks.
ConsumesTasks(a, waiter) ==
  Frees(a, "tasks") /\ tasks' = Handed(a, waiter) /\ UNCHANGED <<manager, plugins>>

\* The wait is over when they are, or at the wall clock, and then they run on.
StopsWaiting(waiter) ==
  tasks' = Handed(waiter, Null) /\ UNCHANGED <<heap, misused, manager, plugins>>

\* cpex_free_background: the tasks run on.
FreesTasks(a) == ConsumesTasks(a, Null)

\* cpex_initialize, which does nothing for a manager that is initialised.
Initializes ==
  /\ plugins' = "up"
  /\ UNCHANGED <<heap, misused, manager, tasks>>

\* Background tasks end, of themselves or at their plugin's timeout.
TasksEnd == \E t \in tasks : tasks' = tasks \ {t} /\ UNCHANGED <<heap, misused, manager, plugins>>
-----------------------------------------------------------------------------
(* cpex_shutdown *)

\* The box is taken; PluginManager::shutdown begins, which does nothing for a
\* manager that is not initialised.
BeginsShutdown == manager' = "closing" /\ UNCHANGED <<heap, misused, plugins, tasks>>

\* The task tracker is drained before plugins are shut down.
Drained == tasks = {}

EndsShutdown ==
  /\ plugins = "up" => Drained
  /\ plugins' = IF plugins = "up" THEN "stopped" ELSE plugins
  /\ manager' = "freed"
  /\ UNCHANGED <<heap, misused, tasks>>

\* The wall clock ends it: plugins that are still up are left as they are.
AbandonsShutdown ==
  /\ plugins' = IF plugins = "up" THEN "left" ELSE plugins
  /\ manager' = "freed"
  /\ UNCHANGED <<heap, misused, tasks>>
=============================================================================
