------------------------------ MODULE Branches ------------------------------
(***************************************************************************)
(* Constant-level vocabulary of cpex_orchestration: what may become of one *)
(* branch of run_branches, and what a finished group of branches promises. *)
(***************************************************************************)
CONSTANTS Value,       \* what a branch future may return (the type T)
          DenyValue    \* the values for which the caller's is_deny holds

ASSUME DenyValueAssumption == DenyValue \subseteq Value

Completed(v) == [kind |-> "Completed", value |-> v]

TimedOut == [kind |-> "TimedOut"]

Aborted == [kind |-> "Aborted"]

Panicked == [kind |-> "Panicked"]

BranchOutcome == [kind : {"Completed"}, value : Value]
                   \cup {TimedOut, Aborted, Panicked}

\* The join loop's `halts`: a completed branch whose value is_deny accepts.
Halts(o) == o.kind = "Completed" /\ o.value \in DenyValue

\* The configuration knobs: is there a per-branch timeout, and does the first
\* deny abort the rest.
BranchConfig == [timeout_per_branch : BOOLEAN, short_circuit_on_deny : BOOLEAN]

\* What callers rely on when run_branches returns `outs`, one entry per branch.
\* A branch is reported Aborted only if short-circuiting is on and some other
\* branch is reported as a deny; it is reported TimedOut only if a timeout was
\* configured.
Promise(outs, config) ==
  /\ (\E i \in DOMAIN outs : outs[i] = Aborted)
       => /\ config.short_circuit_on_deny
          /\ \E j \in DOMAIN outs : Halts(outs[j])
  /\ (\E i \in DOMAIN outs : outs[i] = TimedOut) => config.timeout_per_branch
=============================================================================
