----------------------------- MODULE MCExecutor -----------------------------
(***************************************************************************)
(* One invocation, three plugins, every assignment of modes; the plugins   *)
(* share an error policy or have one of each.                              *)
(***************************************************************************)
EXTENDS Executor

MCPlugin == 1..3

LabelCaps == {"read_labels", "append_labels"}

OnErrors == {[p \in MCPlugin |-> e] : e \in OnError}
              \cup {<<"Fail", "Disable", "Ignore">>}

MCConfs ==
  {[p \in MCPlugin |-> [mode |-> m[p], on_error |-> e[p], caps |-> LabelCaps]] :
     m \in [MCPlugin -> Mode], e \in OnErrors}

MCEntrySets == {MCPlugin}

\* A plain allow, an allow that modifies both payload and extensions, a deny
\* whose modification must not be applied, a deny without a violation, and the
\* three ways not to answer.
MCResults == { Answer(TRUE, FALSE, FALSE, FALSE), Answer(TRUE, FALSE, TRUE, TRUE),
               Answer(FALSE, TRUE, TRUE, FALSE), Answer(FALSE, FALSE, FALSE, FALSE),
               Failure, WrongType, Panic }
=============================================================================
