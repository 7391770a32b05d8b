---------------------------- MODULE Orchestration ----------------------------
(***************************************************************************)
(* cpex_orchestration::run_branches: N futures are spawned onto a JoinSet, *)
(* run on the multi-threaded runtime, and are joined one at a time in      *)
(* completion order.  The first joined deny aborts the rest when           *)
(* short-circuiting is on, and the outcomes are returned in input order.   *)
(*                                                                         *)
(* A task and the join loop are separate processes: a branch may finish    *)
(* before the last one is spawned, and a branch that is being polled when  *)
(* abort_all is called may still finish with a value or a panic.           *)
(***************************************************************************)
EXTENDS Naturals, Branches

CONSTANT N        \* number of branches

ASSUME NAssumption == N \in Nat

VARIABLES config,    \* the caller's BranchConfig
          spawned,   \* how many branches the spawn loop has spawned
          task,      \* task[i]: state of the i-th task
          out,       \* out[i]: what the i-th task ended with
          slots,     \* slots[i]: the outcome the join loop has recorded
          aborted,   \* abort_all has been called
          returned,  \* the function has returned
          result     \* the returned vector, once returned

vars == <<config, spawned, task, out, slots, aborted, returned, result>>

Branch == 1..N

None == [kind |-> "None"]

Cancelled == [kind |-> "Cancelled"]   \* a JoinError with is_cancelled

TaskEnd == (BranchOutcome \ {Aborted}) \cup {Cancelled}

Init ==
  /\ config \in BranchConfig
  /\ spawned = 0
  /\ task = [i \in Branch |-> "unspawned"]
  /\ out = [i \in Branch |-> None]
  /\ slots = [i \in Branch |-> None]
  /\ aborted = FALSE
  /\ returned = FALSE
  /\ result = [i \in Branch |-> None]

\* One iteration of the spawn loop.
Spawn ==
  /\ spawned < N
  /\ spawned' = spawned + 1
  /\ task' = [task EXCEPT ![spawned + 1] = "running"]
  /\ UNCHANGED <<config, out, slots, aborted, returned, result>>

\* Fault: a timer is started without a configured timeout.
TaskEndsStrayTimer(i, o) ==
  /\ task[i] = "running"
  /\ o = Cancelled => aborted
  /\ task' = [task EXCEPT ![i] = "ended"]
  /\ out' = [out EXCEPT ![i] = o]
  /\ UNCHANGED <<config, spawned, slots, aborted, returned, result>>

\* A running task ends: its future returned, its timer fired, it panicked, or
\* the runtime cancelled it at an await point after abort_all.
TaskEnds(i, o) ==
  /\ task[i] = "running"
  /\ o = TimedOut => config.timeout_per_branch
  /\ o = Cancelled => aborted
  /\ task' = [task EXCEPT ![i] = "ended"]
  /\ out' = [out EXCEPT ![i] = o]
  /\ UNCHANGED <<config, spawned, slots, aborted, returned, result>>

\* Faults: outcomes that arrive after abort_all are dropped, or abort_all is never
\* called.
JoinDropsLate(i) ==
  /\ spawned = N
  /\ task[i] = "ended"
  /\ task' = [task EXCEPT ![i] = "joined"]
  /\ slots' = [slots EXCEPT ![i] = IF out[i] = Cancelled \/ aborted THEN @ ELSE out[i]]
  /\ aborted' = (aborted \/ (Halts(out[i]) /\ config.short_circuit_on_deny))
  /\ UNCHANGED <<config, spawned, out, returned, result>>

JoinNeverAborts(i) ==
  /\ spawned = N
  /\ task[i] = "ended"
  /\ task' = [task EXCEPT ![i] = "joined"]
  /\ slots' = [slots EXCEPT ![i] = out[i]]
  /\ UNCHANGED <<config, spawned, out, aborted, returned, result>>

\* One iteration of the join loop: record the outcome of an ended task, and
\* abort the rest on the first deny.
Join(i) ==
  /\ spawned = N
  /\ task[i] = "ended"
  /\ task' = [task EXCEPT ![i] = "joined"]
  /\ slots' = [slots EXCEPT ![i] = IF out[i] = Cancelled THEN @ ELSE out[i]]
  /\ aborted' = (aborted \/ (Halts(out[i]) /\ config.short_circuit_on_deny))
  /\ UNCHANGED <<config, spawned, out, returned, result>>

\* The set is empty: unset slots become Aborted, and the vector is returned.
Return ==
  /\ ~returned
  /\ spawned = N
  /\ \A i \in Branch : task[i] = "joined"
  /\ returned' = TRUE
  /\ result' = [i \in Branch |-> IF slots[i] = None THEN Aborted ELSE slots[i]]
  /\ UNCHANGED <<config, spawned, task, out, slots, aborted>>

Next == \/ Spawn
        \/ \E i \in Branch, o \in TaskEnd : TaskEnds(i, o)
        \/ \E i \in Branch : Join(i)
        \/ Return

Spec == Init /\ [][Next]_vars

-----------------------------------------------------------------------------
(* Fairness.  The join loop runs, a cancelled task is dropped at its next  *)
(* await point, and a configured timer fires.  Nothing says that a branch  *)
(* without a timeout ever ends on its own.                                 *)

Fairness ==
  /\ WF_vars(Spawn)
  /\ \A i \in Branch : WF_vars(Join(i))
  /\ WF_vars(Return)
  /\ \A i \in Branch : WF_vars(TaskEnds(i, Cancelled))
  /\ \A i \in Branch : WF_vars(TaskEnds(i, TimedOut))

FairSpec == Spec /\ Fairness

-----------------------------------------------------------------------------
\* The types of run_branches' locals; a vector that has been returned has no
\* unset slot (lib.rs 65-81, 209-213).
TypeOK ==
  /\ config \in BranchConfig
  /\ spawned \in 0..N
  /\ task \in [Branch -> {"unspawned", "running", "ended", "joined"}]
  /\ out \in [Branch -> TaskEnd \cup {None}]
  /\ slots \in [Branch -> BranchOutcome \cup {None}]
  /\ aborted \in BOOLEAN
  /\ returned \in BOOLEAN
  /\ result \in [Branch -> IF returned THEN BranchOutcome ELSE {None}]

\* A branch's own ending is what the caller is told about it, whatever order
\* the tasks were joined in and however late after abort_all they ended: no
\* value, timeout or panic is lost, attributed to another branch, or reported
\* as an abort (the drain loop after abort_all, lib.rs 169-213).
OwnOutcomeReported ==
  returned => \A i \in Branch :
                result[i] = IF out[i] = Cancelled THEN Aborted ELSE out[i]

\* The vector handed back keeps the promise callers rely on: a branch is
\* Aborted only when short-circuiting is on and a deny is in the same vector,
\* so a caller that ignores Aborted entries never turns a group without a deny
\* into an allow (run_branches; used by run_concurrent_phase and
\* dispatch_parallel).
PromiseKept == returned => Promise(result, config)

\* What run_branches hands back is true of its branches and keeps its promise.
ReturnedAsPromised == OwnOutcomeReported /\ PromiseKept

\* run_branches implements the task-free promise: a branch settles when its
\* task ends, a cancelled task settles as Aborted.
Settled(i) == IF out[i] = None THEN [kind |-> "Unsettled"]
              ELSE IF out[i] = Cancelled THEN Aborted ELSE out[i]

BG == INSTANCE BranchGroup WITH outcome <- [i \in Branch |-> Settled(i)]

\* The refinement property: run_branches implements BranchGroup.
ImplementsBranchGroup == BG!Spec

\* With a per-branch timeout the group always returns, even if every branch
\* hangs (timeout_per_branch, lib.rs 154-165).
TimeoutBoundsGroup == config.timeout_per_branch ~> returned

\* Under short-circuiting one deny is enough for the group to return, even if
\* the other branches hang and have no timeout (abort_all, lib.rs 182-190).
DenyEndsGroup ==
  (config.short_circuit_on_deny /\ \E i \in Branch : Halts(out[i])) ~> returned

\* A timer per branch, or one deny under short-circuiting, is enough for the group
\* to return, whatever hangs (lib.rs 154-190).
GroupEnds == TimeoutBoundsGroup /\ DenyEndsGroup
=============================================================================
