----------------------------- MODULE BranchGroup -----------------------------
(***************************************************************************)
(* What run_branches promises its callers, with no tasks, join set, slots  *)
(* or abort flag: every branch settles exactly once, a branch settles as   *)
(* Aborted only after another one was seen to deny under short-circuiting, *)
(* and the group is returned when all branches have settled.               *)
(***************************************************************************)
EXTENDS Naturals, Branches

CONSTANT N        \* number of branches

VARIABLES config,    \* the caller's BranchConfig
          outcome,   \* outcome[i]: how branch i settled, or Unsettled
          returned   \* has the group been handed back

vars == <<config, outcome, returned>>

Branch == 1..N

Unsettled == [kind |-> "Unsettled"]

Init == /\ config \in BranchConfig
        /\ outcome = [i \in Branch |-> Unsettled]
        /\ returned = FALSE

MayAbort == /\ config.short_circuit_on_deny
            /\ \E j \in Branch : Halts(outcome[j])

Settle(i, o) ==
  /\ ~returned
  /\ outcome[i] = Unsettled
  /\ o = Aborted => MayAbort
  /\ o = TimedOut => config.timeout_per_branch
  /\ outcome' = [outcome EXCEPT ![i] = o]
  /\ UNCHANGED <<config, returned>>

Return ==
  /\ ~returned
  /\ \A i \in Branch : outcome[i] # Unsettled
  /\ returned' = TRUE
  /\ UNCHANGED <<config, outcome>>

Next == \/ \E i \in Branch, o \in BranchOutcome : Settle(i, o)
        \/ Return

Spec == Init /\ [][Next]_vars
=============================================================================
