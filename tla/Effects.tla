------------------------------- MODULE Effects -------------------------------
(***************************************************************************)
(* The evaluator of compiled policies: effects, reactions, parallel blocks *)
(* and the two phases of a route.                                          *)
(*                                                                         *)
(* A request in evaluation is                                              *)
(*   st = [bag, taints, constraints, payload, modified, inv, heard]        *)
(* where payload maps "args" (and, in the post phase, "result") to a       *)
(* projection, modified holds the sides whose flag is set and heard, which *)
(* the code does not keep, the answers of everyone who was asked.  The     *)
(* world w answers for plugins, decision points, delegations and humans.   *)
(* A parallel block has as many outcomes as schedules, so an evaluation is *)
(* a set of results [out, st].                                             *)
(***************************************************************************)
EXTENDS Pipelines

CONSTANT Matches  \* the models each pattern of a model list matches
-----------------------------------------------------------------------------
(* The restrict effect: the constraint one restrict emits for a request,   *)
(* and the fold of a request's constraints into the one the host's router  *)
(* reads.  Optional values are sets of at most one element.  A set         *)
(* specification is <<"literal", S>> or <<"ref", path>>.  allow stands for *)
(* each of the three allow lists, which are folded alike; its members are  *)
(* patterns, as those of models are: a region or a site is a pattern that  *)
(* matches itself only.  A tier is its rank in the host's order.           *)

ResolveSet(spec, bag) ==
  IF spec[1] = "literal" THEN {spec[2]}
  ELSE UNION {CASE v[1] = "StringSet" -> {v[2]}
                [] v[1] = "String" -> {{v[2]}}
                [] OTHER -> {} : v \in Resolved(bag, spec[2])}

\* An unresolvable deny list denies the request: no constraint comes out.
ResolveRestrict(spec, bag) ==
  LET OrEmpty(sets) == IF sets = {} THEN {{}} ELSE sets
      denied == UNION {ResolveSet(s, bag) : s \in spec.deny}
  IN IF spec.deny # {} /\ denied = {} THEN {}
     ELSE {[allow |-> UNION {OrEmpty(ResolveSet(s, bag)) : s \in spec.allow},
            deny |-> UNION denied, tier |-> spec.tier, custom |-> spec.custom,
            on_empty |-> spec.on_empty]}

Unconstrained(c) == c.allow = {} /\ c.deny = {} /\ c.tier = {} /\ c.custom = {}
-----------------------------------------------------------------------------
\* custom is a set of <<label, value>>; a label required to hold two values is
\* a conflict.
Start == [allow |-> {}, deny |-> {}, tiers |-> {}, custom |-> {}, on_empty |-> "fallback",
          conflict |-> FALSE]

\* Fault: a later allow list replaces the earlier one.
IntersectIntoLast(acc, incoming) == IF incoming = {} THEN acc ELSE incoming

IntersectInto(acc, incoming) ==
  IF acc = {} THEN incoming ELSE {a \cap b : a \in acc, b \in IF incoming = {} THEN acc ELSE incoming}

Contradicts(a, b) == \E x \in a, y \in b : x[1] = y[1] /\ x[2] # y[2]

Strictest(a, b) == IF a = "fallback" /\ b = "fallback" THEN "fallback" ELSE "deny"

FoldOne(acc, c) ==
  IF acc.conflict \/ Contradicts(acc.custom, c.custom) THEN [acc EXCEPT !.conflict = TRUE]
  ELSE [allow |-> IntersectInto(acc.allow, c.allow), deny |-> acc.deny \cup c.deny,
        tiers |-> acc.tiers \cup c.tier, custom |-> acc.custom \cup c.custom,
        on_empty |-> Strictest(acc.on_empty, c.on_empty), conflict |-> FALSE]

\* {} is Ok(None).
FoldCandidateConstraints(constraints) ==
  LET folded == FoldLeft(FoldOne, Start, constraints)
  IN IF /\ ~folded.conflict /\ folded.allow = {} /\ folded.deny = {}
        /\ folded.tiers = {} /\ folded.custom = {}
     THEN {} ELSE {folded}

\* Does a backend [model, tier, labels] satisfy the folded constraint?
Accepts(c, backend) ==
  /\ \A patterns \in c.allow : \E p \in patterns : backend.model \in Matches[p]
  /\ \A p \in c.deny : backend.model \notin Matches[p]
  /\ \A ceiling \in c.tiers : backend.tier <= ceiling
  /\ c.custom \subseteq backend.labels
-----------------------------------------------------------------------------
(* Effects *)

Result(out, st) == [out |-> out, st |-> st]

Heard(st, by, said, on_error) ==
  [st EXCEPT !.heard = @ \cup {[by |-> by, said |-> said, on_error |-> on_error]}]

BagSet(st, entries) == [st EXCEPT !.bag = entries @@ @]
-----------------------------------------------------------------------------
\* One pipeline over one field of a side of the payload, and the write-back.
WriteBack(run, side, field, st) ==
  CASE run.outcome = "pass" -> Result("Continue", st)
    [] run.outcome = "replace" ->
         Result("Continue", [st EXCEPT !.payload[side][field] = run.value,
                                       !.modified = @ \cup {side}])
    [] run.outcome = "omit" ->
         Result("Continue", [st EXCEPT !.payload[side] = Restrict(@, DOMAIN @ \ {field}),
                                       !.modified = @ \cup {side}])
    [] run.outcome = "deny" -> Result("Halt", st)
    [] run.outcome = "panic" -> Result("Panic", st)

AfterPipeline(run, side, field, st) ==
  WriteBack(run, side, field,
            [st EXCEPT !.taints = @ \cup run.taints, !.inv = run.inv,
                       !.heard = @ \cup {[by |-> "plugin", said |-> a, on_error |-> "deny"] :
                                           a \in run.heard}])

RunPipeline(stages, side, field, st, w) ==
  AfterPipeline(EvaluatePipeline(stages, st.payload[side][field], st.bag, field, st.inv, w.plugins),
                side, field, st)

\* A field operation of another phase, or on a missing field, does nothing.
DispatchFieldOp(e, st, w, phase) ==
  CASE e.side \notin {"args", "result"} -> Result("Halt", st)
    [] e.side \in {"args", "result"} /\ e.side # (IF phase = "pre" THEN "args" ELSE "result") ->
         Result("Continue", st)
    [] OTHER -> IF e.side \notin DOMAIN st.payload \/ e.field \notin DOMAIN st.payload[e.side]
                THEN Result("Continue", st)
                ELSE RunPipeline(e.stages, e.side, e.field, st, w)

PluginAnswered(call, st) ==
  Result(CASE call.answer = "allow" -> "Continue"
           [] call.answer = "panic" -> "Panic"
           [] OTHER -> "Halt",
         Heard([st EXCEPT !.taints = @ \cup call.taints, !.inv = call.inv],
               "plugin", call.answer, "deny"))

DispatchPlugin(e, st, w) == PluginAnswered(Invoke(w.plugins[e.name], st.inv, "", {}), st)

OrContinue(on_error) == IF on_error = "continue" THEN "Continue" ELSE "Halt"

DispatchDelegate(e, st, w) ==
  LET answer == w.delegate[e.name]
      after == Heard(st, "delegate", answer, e.on_error)
  IN IF answer = "allow"
     THEN Result("Continue", BagSet(after, "delegation.granted" :> <<"Bool", TRUE>>))
     ELSE Result(OrContinue(e.on_error), after)

DispatchRestrict(e, st) ==
  LET resolved == ResolveRestrict(e.spec, st.bag)
  IN IF resolved = {} THEN Result("Halt", st)
     ELSE Result("Continue",
                 [st EXCEPT !.constraints =
                    @ \o SetToSeq({c \in resolved : ~Unconstrained(c)})])
-----------------------------------------------------------------------------
\* An elicitation: dispatched unless the bag already carries an id, then checked
\* and, once approved, validated.  Its id is the name of the step that sent it.
Status(st, s) == BagSet(st, "elicitation.status" :> <<"String", s>>)

Holds(parse, bag) == parse.ok /\ EvalExpression(parse.expr, bag)

ScopeHolds(e, bag) == \A toks \in e.scope : Holds(ParsePredicate(toks), bag)

ElicitationFails(e, st, why) == Result(OrContinue(e.on_error), Heard(st, "elicit", why, e.on_error))

Outcome(st, s) == BagSet(Status(st, "resolved"), "elicitation.outcome" :> <<"String", s>>)

CheckElicitation(e, st, answer) ==
  CASE answer = "pending" -> Result("Pending", Status(st, "pending"))
    [] answer = "expired" -> ElicitationFails(e, Status(st, "expired"), "expired")
    [] answer = "denied" -> Result("Halt", Heard(Outcome(st, "denied"), "elicit", "denied", "deny"))
    [] answer \in {"undeliverable", "unchecked", "invalid"} -> ElicitationFails(e, st, answer)
    [] answer = "approved" ->
         IF ~ScopeHolds(e, st.bag) THEN ElicitationFails(e, st, "out of scope")
         ELSE Result("Continue", Heard(Outcome(st, "approved"), "elicit", "allow", e.on_error))

DispatchElicitation(e, st, w) ==
  LET known == GetTyped(st.bag, "elicitation.id", "String")
  IN CASE GetTyped(st.bag, e.from, "String") = {} /\ e.ref -> ElicitationFails(e, st, "unresolved")
       [] known = {} /\ w.elicit[e.name] = "undeliverable" ->
            ElicitationFails(e, st, "undeliverable")
       [] OTHER ->
            IF known # {} THEN CheckElicitation(e, st, w.elicit[CHOOSE x \in known : TRUE])
            ELSE CheckElicitation(e, Status(BagSet(st, "elicitation.id" :> <<"String", e.name>>),
                                            "pending"), w.elicit[e.name])
-----------------------------------------------------------------------------
RECURSIVE DispatchEffect(_, _, _, _)

RECURSIVE RunAll(_, _, _, _)

\* The effects of a list in order, until one does not continue.
RunAll(effects, st, w, phase) ==
  IF effects = <<>> THEN {Result("Continue", st)}
  ELSE UNION {IF r.out = "Continue" THEN RunAll(Tail(effects), r.st, w, phase) ELSE {r} :
                r \in DispatchEffect(Head(effects), st, w, phase)}

\* The invoker is shared: each branch's plugin writes back what it made of the
\* message and the labels it was given, so writes may be lost; nothing need be
\* written by a block that is cut short.
Shared(inv, branch, cutShort) ==
  LET writers == {i \in DOMAIN branch : branch[i].st.inv # inv}
      Survivors == {S \in SUBSET writers : S # {} \/ cutShort \/ writers = {}}
      Over(order) ==
        FoldLeft(LAMBDA m, i : [f \in DOMAIN m |->
                                  IF branch[i].st.inv.message[f] # inv.message[f]
                                  THEN branch[i].st.inv.message[f] ELSE m[f]],
                 inv.message, order)
  IN {[message |-> Over(order), labels |-> inv.labels \cup UNION {branch[i].st.inv.labels : i \in T},
       modified |-> inv.modified \/ \E i \in writers : branch[i].st.inv.modified] :
        order \in UNION {SetToSeqs(S) : S \in Survivors}, T \in Survivors}

\* A branch whose plugin panics is dropped, and with it what the plugin said.
Dropped(heard) ==
  {IF h.said = "panic" THEN [h EXCEPT !.on_error = "dropped"] ELSE h : h \in heard}

\* What the parent keeps of the branches that completed: bags, payloads and
\* pending elicitations are dropped.
Kept(st, branch, completed, cutShort) ==
  LET C == SetToSortSeq(completed, <)
  IN {[st EXCEPT !.taints = @ \cup UNION {branch[i].st.taints : i \in completed},
                 !.constraints = FoldLeft(LAMBDA s, i : s \o branch[i].st.constraints, @, C),
                 !.heard = @ \cup UNION {branch[i].st.heard : i \in completed}
                             \cup UNION {Dropped(branch[i].st.heard) :
                                           i \in {j \in DOMAIN branch : branch[j].out = "Panic"}},
                 !.inv = inv] :
        inv \in Shared(st.inv, branch, cutShort)}

\* Without a halting branch every branch runs to its end; the first one to halt
\* stops those that are still running.
DispatchParallel(e, st, w, phase) ==
  LET N == DOMAIN e.parts
      start == [st EXCEPT !.taints = {}, !.constraints = <<>>]
      Runs == {b \in [N -> UNION {DispatchEffect(e.parts[i], start, w, phase) : i \in N}] :
                 \A i \in N : b[i] \in DispatchEffect(e.parts[i], start, w, phase)}
      Halting(b) == {i \in N : b[i].out = "Halt"}
      Ending(b) == {i \in N : b[i].out # "Panic"}
      Completed(b) == IF Halting(b) = {} THEN {Ending(b)}
                      ELSE {C \in SUBSET Ending(b) : C \cap Halting(b) # {}}
  IN UNION {UNION {{Result(IF Halting(b) = {} THEN "Continue" ELSE "Halt", s) :
                      s \in Kept(st, b, C, Halting(b) # {})} : C \in Completed(b)} : b \in Runs}

DispatchPdp(e, st, w, phase) ==
  LET answer == w.pdp[e.name]
      asked == Heard(st, "pdp", answer, "deny")
  IN CASE answer = "allow" -> RunAll(e.on_allow, asked, w, phase)
       [] answer = "deny" ->
            {IF r.out = "Continue" THEN Result("Halt", r.st) ELSE r :
               r \in RunAll(e.on_deny, asked, w, phase)}
       [] answer = "error" -> {Result("Halt", asked)}

DispatchEffect(e, st, w, phase) ==
  CASE e.do = "Allow" -> {Result("Continue", st)}
    [] e.do = "Deny" -> {Result("Halt", st)}
    [] e.do = "Plugin" -> {DispatchPlugin(e, st, w)}
    [] e.do = "Delegate" -> {DispatchDelegate(e, st, w)}
    [] e.do = "Elicit" -> {DispatchElicitation(e, st, w)}
    [] e.do = "Taint" -> {Result("Continue", [st EXCEPT !.taints = @ \cup ({e.label} \X e.scopes)])}
    [] e.do = "Restrict" -> {DispatchRestrict(e, st)}
    [] e.do = "FieldOp" -> {DispatchFieldOp(e, st, w, phase)}
    [] e.do = "Sequential" -> RunAll(e.parts, st, w, phase)
    [] e.do = "Parallel" -> DispatchParallel(e, st, w, phase)
    [] e.do = "When" -> IF EvalExpression(e.cond, st.bag) THEN RunAll(e.body, st, w, phase)
                        ELSE {Result("Continue", st)}
    [] e.do = "Pdp" -> DispatchPdp(e, st, w, phase)
-----------------------------------------------------------------------------
\* The two phases of a route: its field pipelines, then its policy.
Pipelined(rules, side, st, w) ==
  FoldLeft(LAMBDA r, rule :
             IF r.out # "Continue" \/ rule.field \notin DOMAIN r.st.payload[side] THEN r
             ELSE RunPipeline(rule.stages, side, rule.field, r.st, w),
           Result("Continue", st), rules)

ThenPolicy(r, effects, w, phase) ==
  IF r.out # "Continue" THEN {r} ELSE RunAll(effects, r.st, w, phase)

EvaluatePre(route, st, w) ==
  ThenPolicy(Pipelined(route.args, "args", st, w), route.policy, w, "pre")

EvaluatePost(route, st, w) ==
  ThenPolicy(IF "result" \in DOMAIN st.payload THEN Pipelined(route.result, "result", st, w)
             ELSE Result("Continue", st), route.post_policy, w, "post")
=============================================================================
