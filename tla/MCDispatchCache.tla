-------------------------- MODULE MCDispatchCache --------------------------
(***************************************************************************)
(* Caches that requests share: two mutators and two callers of             *)
(* get_or_build by the old and the reloaded handler of one route; or two   *)
(* callers of the policy decision points while configurations are loaded.  *)
(* A behaviour is of one part.                                             *)
(***************************************************************************)
EXTENDS DispatchCache, DecisionPoints, TLC

VARIABLE part

\* To the plans a reload is a bump of the generation, as is unregistering a plugin that
\* is not there; the configurations and annotations have their own model.
MCConfigs == {}

MCDeclared(c) == {}

MCKeyOf(h) == "r"

\* The route names both plugins and overrides one; reloaded, it names the other alone.
MCNames(h) == IF h = "old" THEN {"p", "q"} ELSE {"p"}

MCFallible(h) == IF h = "old" THEN {"q"} ELSE {}

Pdp(dialect, engine, on_error) ==
  [dialect |-> dialect, engine |-> engine, on_error |-> on_error, cap |-> 1,
   packages |-> {"global"}, builds |-> TRUE]

Cel == Pdp("cel", "cel", "allow")
Opa == Pdp("opa", "opa", "allow")
StrictOpa == Pdp("opa", "opa", "deny")
Cedar == Pdp("cedar", "cedar", "deny")
Broken == [StrictOpa EXCEPT !.builds = FALSE]

MCResolver == {Cel, Opa, StrictOpa, Cedar, Broken}

MCDocuments == {<<Cedar, Cel, Opa>>, <<StrictOpa, Broken>>}

Text(parses, package) == [form |-> "text", parses |-> parses, package |-> package]

MCAsk ==
  {Text(TRUE, "a"), Text(TRUE, "b"), Text(TRUE, "global"), Text(FALSE, "a")}
    \cup {[form |-> "malformed", parses |-> FALSE, package |-> "a"]}

\* Whose handler a caller has before its first call tells nothing.
MCInit ==
  /\ Init /\ DpInit /\ part \in {"dispatch", "decisions"}
  /\ handler = [b \in Builder |-> "new"]

MCNext ==
  \/ part = "dispatch" /\ Next /\ UNCHANGED <<dpVars, part>>
  \/ part = "decisions" /\ DpNext /\ UNCHANGED <<vars, part>>

all == <<vars, dpVars, part>>

MCSpec == MCInit /\ [][MCNext]_all

\* What a caller that has its answer was called by, and with which generation, is read
\* by no step; its handler is one of the same route.
Relevant ==
  <<runtimeVars, plans, bpc, todo, entries, maker, since, valid, dpVars, part,
    [b \in Builder |-> IF bpc[b] = "done" THEN {} ELSE {<<handler[b], seenGen[b]>>}]>>

Symmetry == Permutations(Mutator) \cup Permutations(Builder) \cup Permutations(Client)
=============================================================================
