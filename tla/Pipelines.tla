----------------------------- MODULE Pipelines -----------------------------
(***************************************************************************)
(* Field pipelines and the CMF plugin invoker they share with policy       *)
(* steps.                                                                  *)
(*                                                                         *)
(* A field value is [kind, n, shown]: a string of n characters of which    *)
(* the last `shown` still are the caller's, or the number n.  A projection *)
(* (the arguments of a tool call, or its result) maps fields to values.    *)
(*                                                                         *)
(* The invoker keeps the request's message apart from the payload the      *)
(* pipelines edit: inv is [message, modified, labels].  A plugin is        *)
(* [answer, mode, edits, labels]; its answer is allow, deny, error (the    *)
(* invoker returns Err), wrongType (a payload of another type) or panic.   *)
(***************************************************************************)
EXTENDS Predicates, FiniteSets, TLC

Redacted == [kind |-> "string", n |-> 10, shown |-> 0]

Hashed == [kind |-> "string", n |-> 21, shown |-> 0]

\* The executor heeds a denial only from plugins of the first set, edits and
\* labels only from those of the second, and contains a concurrent plugin's panic.
CanBlock(mode) == mode \in {"sequential", "concurrent"}

CanModify(mode) == mode \in {"sequential", "transform"}

Answer(plugin) ==
  CASE plugin.answer = "error" -> "error"
    [] plugin.answer = "panic" -> IF plugin.mode = "concurrent" THEN "deny" ELSE "panic"
    [] plugin.answer = "deny" /\ CanBlock(plugin.mode) -> "deny"
    [] OTHER -> "allow"

Edited(plugin, message) ==
  [f \in DOMAIN message |-> IF f \in DOMAIN plugin.edits THEN plugin.edits[f] ELSE message[f]]

\* What a plugin did to the field of a pipeline stage: its value in the message
\* after the call, if the call changed it there.
Rewritten(before, current, after, field) ==
  {after[f] : f \in {g \in {field} \cap DOMAIN after : before[g] # after[g]}}

\* One plugin call, for a policy step (field = "") or a pipeline stage.  A payload
\* of another type is dropped; the labels that came with it are not.
Invoke(plugin, inv, field, current) ==
  LET accepted == Answer(plugin) = "allow" /\ CanModify(plugin.mode)
      edits == accepted /\ plugin.answer # "wrongType" /\ DOMAIN plugin.edits # {}
      after == IF edits THEN Edited(plugin, inv.message) ELSE inv.message
      labels == IF accepted THEN plugin.labels ELSE {}
  IN [answer |-> Answer(plugin),
      taints |-> {<<l, "session">> : l \in labels \ inv.labels},
      value |-> IF edits THEN Rewritten(inv.message, current, after, field) ELSE {},
      inv |-> [message |-> after, modified |-> inv.modified \/ edits,
               labels |-> inv.labels \cup labels]]
-----------------------------------------------------------------------------
\* The validators.  Email, url, uuid, enum and regex accept a set of strings,
\* which is empty for a pattern that does not compile.
Passes(stage, v) ==
  CASE stage.stage = "type" -> v.kind \in stage.kinds
    [] stage.stage = "len" -> v.kind = "string" /\ v.n \in stage.range
    [] stage.stage = "range" -> v.kind = "int" /\ v.n \in stage.range
    [] stage.stage = "content" -> v.kind = "string" /\ v \in stage.accepts
    [] stage.stage = "validate" -> FALSE
    [] stage.stage = "mask" -> v.kind = "string"
    [] OTHER -> TRUE

Masked(v, keep) == [v EXCEPT !.shown = IF @ > keep THEN keep ELSE @]

Transformed(stage, v, bag) ==
  CASE stage.stage = "mask" -> {Masked(v, stage.keep)}
    [] stage.stage = "redact" -> IF EvalExpression(stage.cond, bag) THEN {Redacted} ELSE {}
    [] stage.stage = "hash" -> {Hashed}
    [] stage.stage = "scan" -> IF stage.redact THEN {Redacted} ELSE {}
    [] OTHER -> {}

Emitted(stage) ==
  CASE stage.stage = "taint" -> {stage.label} \X stage.scopes
    [] stage.stage = "scan" -> {<<stage.label, "session">>}
    [] OTHER -> {}

\* A run is [outcome, value, taints, inv, heard]; heard collects the answers of
\* the plugins it called.
With(run, values) ==
  IF values = {} THEN run
  ELSE [run EXCEPT !.outcome = "replace", !.value = CHOOSE v \in values : TRUE]

Called(run, call) ==
  [run EXCEPT !.taints = @ \cup call.taints, !.inv = call.inv, !.heard = @ \cup {call.answer}]

AfterCall(run, call) ==
  CASE call.answer = "allow" -> With(Called(run, call), call.value)
    [] call.answer = "panic" -> [run EXCEPT !.outcome = "panic"]
    [] OTHER -> [Called(run, call) EXCEPT !.outcome = "deny"]

RunStage(run, stage, bag, field, plugins) ==
  CASE run.outcome \in {"omit", "deny", "panic"} -> run
    [] stage.stage = "omit" -> [run EXCEPT !.outcome = "omit"]
    [] stage.stage = "plugin" ->
         AfterCall(run, Invoke(plugins[stage.name], run.inv, field, run.value))
    [] stage.stage # "plugin" /\ ~Passes(stage, run.value) -> [run EXCEPT !.outcome = "deny"]
    [] OTHER -> With([run EXCEPT !.taints = @ \cup Emitted(stage)],
                     Transformed(stage, run.value, bag))

EvaluatePipeline(stages, value, bag, field, inv, plugins) ==
  FoldLeft(LAMBDA run, stage : RunStage(run, stage, bag, field, plugins),
           [outcome |-> "pass", value |-> value, taints |-> {}, inv |-> inv, heard |-> {}],
           stages)
=============================================================================
