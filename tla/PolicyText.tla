----------------------------- MODULE PolicyText -----------------------------
(***************************************************************************)
(* From the YAML of an APL block to a compiled route: steps, effects, the  *)
(* checks on parallel blocks, and the layering of blocks.                  *)
(*                                                                         *)
(* A YAML entry is a record tagged y:                                      *)
(*   text        a string read as a rule: its tokens, the action after its *)
(*               last colon and, when it reads `args.f | ...`, the field   *)
(*               operation it is inside a do list                          *)
(*   call        a string calling taint, plugin, run, delegate or an       *)
(*               elicitation verb; do is "malformed" for one that does not *)
(*               parse                                                     *)
(*   when, delegate, restrict, sequential, parallel, pdp   the maps        *)
(*   other       a map with several keys, or neither a string nor a map    *)
(* A parse is Fail or Read(.., 0), as for predicates.                      *)
(***************************************************************************)
EXTENDS Effects

Done(x) == Read(x, 0)

Always == [op |-> "Always"]

Deny == [do |-> "Deny"]

Rule(cond, effects) == [do |-> "Rule", cond |-> cond, effects |-> effects]

\* A list of parses is the parse of a list.
AllOf(parses) ==
  IF \A i \in DOMAIN parses : parses[i].ok THEN Done([i \in DOMAIN parses |-> parses[i].expr])
  ELSE Fail

\* Stages come out of the text as they went in, except that validate(..) has no
\* implementation to run.
ParsePipeline(stages) ==
  IF \E i \in DOMAIN stages : stages[i].stage \in {"malformed", "validate"} THEN Fail
  ELSE Done(stages)

BareAction(e) ==
  CASE e.toks = <<"deny">> /\ e.action = "none" -> {Deny}
    [] e.toks = <<"allow">> /\ e.action = "none" -> {[do |-> "Allow"]}
    [] OTHER -> {}

\* The rule that a parsed condition guards.
Guarding(cond, effect) == IF cond.ok THEN Done(Rule(cond.expr, <<effect>>)) ELSE Fail

ParseRule(e) ==
  CASE Head(e.toks) = "require" ->
         IF e.action = "none" THEN Guarding(ParseRequireRule(e.toks), Deny) ELSE Fail
    [] BareAction(e) # {} -> Done(Rule(Always, SetToSeq(BareAction(e))))
    [] OTHER -> IF e.action \notin {"none", "deny", "allow"} THEN Fail
                ELSE Guarding(ParsePredicate(e.toks), IF e.action = "allow" THEN [do |-> "Allow"] ELSE Deny)
-----------------------------------------------------------------------------
RECURSIVE ContainsMutation(_)

RECURSIVE ValidateParallelPurity(_)

Inner(e) ==
  CASE e.do \in {"Sequential", "Parallel"} -> e.parts
    [] e.do = "When" -> e.body
    [] e.do = "Pdp" -> e.on_allow \o e.on_deny
    [] OTHER -> <<>>

ContainsMutation(e) ==
  \/ e.do \in {"FieldOp", "Delegate", "Elicit"}
  \/ \E i \in DOMAIN Inner(e) : ContainsMutation(Inner(e)[i])

ValidateParallelPurity(e) ==
  \A i \in DOMAIN Inner(e) :
    /\ e.do = "Parallel" => ~ContainsMutation(Inner(e)[i])
    /\ ValidateParallelPurity(Inner(e)[i])

\* Inside a do list a step must be one unconditional effect.
StepToEffect(step) ==
  CASE ~step.ok -> Fail
    [] step.ok /\ step.expr.do = "Rule" ->
         IF step.expr.cond = Always /\ Len(step.expr.effects) = 1
         THEN Done(step.expr.effects[1]) ELSE Fail
    [] step.ok /\ step.expr.do = "Pdp" -> Fail
    [] OTHER -> step

RestrictsNothing(spec) == spec.allow = {} /\ spec.deny = {} /\ spec.tier = {} /\ spec.custom = {}

ParseRestrictEffect(e) ==
  IF RestrictsNothing(e.spec) THEN Fail ELSE Done([do |-> "Restrict", spec |-> e.spec])

RECURSIVE ParseStep(_)

RECURSIVE ParseEffectValue(_)

ParseList(entries) == AllOf([i \in DOMAIN entries |-> ParseEffectValue(entries[i])])

WhenRule(cond, effects) ==
  IF cond.ok /\ effects.ok /\ effects.expr # <<>> THEN Done(Rule(cond.expr, effects.expr)) ELSE Fail

ParseWhen(e) == WhenRule(ParsePredicate(e.when), ParseList(e.body))

Pure(group) ==
  IF group.do = "Parallel" => ValidateParallelPurity(group) THEN Done(group) ELSE Fail

GroupOf(y, parts) ==
  IF ~parts.ok \/ parts.expr = <<>> THEN Fail
  ELSE Pure([do |-> IF y = "parallel" THEN "Parallel" ELSE "Sequential", parts |-> parts.expr])

ParseGroup(e) == GroupOf(e.y, ParseList(e.parts))

PdpStep(name, on_allow, on_deny) ==
  IF on_allow.ok /\ on_deny.ok
  THEN Done([do |-> "Pdp", name |-> name, on_allow |-> on_allow.expr, on_deny |-> on_deny.expr])
  ELSE Fail

ParseSteps(entries) == AllOf([i \in DOMAIN entries |-> ParseStep(entries[i])])

ParsePdp(e) == PdpStep(e.name, ParseSteps(e.on_allow), ParseSteps(e.on_deny))

ParseStepString(e) ==
  IF e.y = "text" THEN ParseRule(e)
  ELSE IF e.effect.do = "malformed" THEN Fail ELSE Done(e.effect)

Unconditional(effect) == IF effect.ok THEN Done(Rule(Always, <<effect.expr>>)) ELSE Fail

ParseStepMap(e) ==
  CASE e.y = "delegate" -> IF e.effect.do = "malformed" THEN Fail ELSE Done(e.effect)
    [] e.y = "when" -> ParseWhen(e)
    [] e.y = "restrict" -> ParseRestrictEffect(e)
    [] e.y \in {"sequential", "parallel"} -> Unconditional(ParseGroup(e))
    [] e.y = "pdp" -> ParsePdp(e)
    [] e.y = "other" -> Fail

ParseStep(e) == IF e.y \in {"text", "call"} THEN ParseStepString(e) ELSE ParseStepMap(e)

ParseFieldOp(op) ==
  IF ParsePipeline(op.stages).ok /\ op.stages # <<>>
  THEN Done([do |-> "FieldOp", side |-> op.side, field |-> op.field, stages |-> op.stages])
  ELSE Fail

ParseEffectString(e) ==
  CASE BareAction(e) # {} -> Done(CHOOSE a \in BareAction(e) : TRUE)
    [] BareAction(e) = {} /\ e.op # {} -> ParseFieldOp(CHOOSE op \in e.op : TRUE)
    [] OTHER -> StepToEffect(ParseRule(e))

ParseEffectValue(e) ==
  CASE e.y = "text" -> ParseEffectString(e)
    [] e.y \in {"sequential", "parallel"} -> ParseGroup(e)
    [] e.y = "restrict" -> ParseRestrictEffect(e)
    [] OTHER -> StepToEffect(ParseStep(e))
-----------------------------------------------------------------------------
RECURSIVE StepToTopLevelEffect(_)

StepToTopLevelEffect(step) ==
  CASE step.do = "Rule" -> [do |-> "When", cond |-> step.cond, body |-> step.effects]
    [] step.do = "Pdp" ->
         [step EXCEPT !.on_allow = [i \in DOMAIN @ |-> StepToTopLevelEffect(@[i])],
                      !.on_deny = [i \in DOMAIN @ |-> StepToTopLevelEffect(@[i])]]
    [] OTHER -> step

AtTopLevel(steps) ==
  IF steps.ok THEN Done([i \in DOMAIN steps.expr |-> StepToTopLevelEffect(steps.expr[i])]) ELSE Fail

CompileSteps(entries) == AtTopLevel(ParseSteps(entries))

\* The field rules come in the iteration order of a hash map: the block lists
\* them in an order the author did not choose.
CompileFields(rules) ==
  IF \A i \in DOMAIN rules : ParsePipeline(rules[i].stages).ok THEN Done(rules) ELSE Fail

CompiledRoute(b, policy, post) ==
  IF /\ ~b.legacy
     /\ b.auth_pre = <<>> \/ b.pre = <<>>
     /\ b.auth_post = <<>> \/ b.post = <<>>
     /\ policy.ok /\ post.ok /\ CompileFields(b.args).ok /\ CompileFields(b.result).ok
  THEN Done([policy |-> policy.expr, post_policy |-> post.expr,
             args |-> b.args, result |-> b.result])
  ELSE Fail

CompileAplBlocks(b) ==
  CompiledRoute(b, CompileSteps(b.auth_pre \o b.pre), CompileSteps(b.auth_post \o b.post))

NoRoute == [policy |-> <<>>, post_policy |-> <<>>, args |-> <<>>, result |-> <<>>]

FieldsOf(rules) == {rules[i].field : i \in DOMAIN rules}

ReplaceFields(broad, narrow) ==
  SelectSeq(broad, LAMBDA r : r.field \notin FieldsOf(narrow)) \o narrow

ApplyLayer(route, more) ==
  [policy |-> route.policy \o more.policy,
   post_policy |-> route.post_policy \o more.post_policy,
   args |-> ReplaceFields(route.args, more.args),
   result |-> ReplaceFields(route.result, more.result)]

RECURSIVE SafeUnderParallel(_, _, _)

\* Fault: the modes of plugins in parallel blocks are not looked at.
UnsafeUnderParallel(e, under, modes) == TRUE

\* modes holds the plugins that are registered.
SafeUnderParallel(e, under, modes) ==
  /\ e.do = "Plugin" /\ under =>
       e.name \in DOMAIN modes /\ modes[e.name] \in {"audit", "concurrent", "fire_and_forget", "disabled"}
  /\ \A i \in DOMAIN Inner(e) : SafeUnderParallel(Inner(e)[i], under \/ e.do = "Parallel", modes)

ValidateParallelPluginModes(route, modes) ==
  \A effects \in {route.policy, route.post_policy} :
    \A i \in DOMAIN effects : SafeUnderParallel(effects[i], FALSE, modes)
=============================================================================
