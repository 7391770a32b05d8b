------------------------------- MODULE Policy -------------------------------
(***************************************************************************)
(* The policies of a host: a configuration document is loaded section by   *)
(* section, each route's handler is compiled from the layers that apply to *)
(* it, and requests are decided by whatever handler is installed when they *)
(* arrive.                                                                 *)
(*                                                                         *)
(* A document is [plugins, global, default, bundles, routes]: the modes of *)
(* its plugins, the optional global and default block, a sequence of       *)
(* [tag, block] and a sequence of [name, tags, block].  All routes are of  *)
(* one entity type; the handler of requests without an entity is "http".   *)
(***************************************************************************)
EXTENDS PolicyText

CONSTANTS Histories,  \* sequences of documents a host may load, one after another
          Worlds,     \* what plugins, decision points and humans answer
          Messages,   \* the fields of the requests and of their results
          Bag,        \* the attributes of a request
          Texts,      \* token strings read as predicates
          Bags        \* the bags those are evaluated in

VARIABLES
  registry,    \* the modes of the registered plugins
  annotations, \* the routes that have a handler, and the handler
  visitor,     \* the layers the visitor holds: [global, default, tags]
  history,     \* the documents loaded so far
  todo,        \* the sections that load has still to visit
  status,      \* "idle", "loading", "loaded", "failed" or "refused"
  served,      \* {} or the request decided last
  read         \* {} or the predicate read last

vars == <<registry, annotations, visitor, history, todo, status, served, read>>

EmptyFunction == [x \in {} |-> x]

Init ==
  /\ registry = EmptyFunction /\ annotations = EmptyFunction
  /\ visitor = [global |-> {}, default |-> {}, tags |-> EmptyFunction]
  /\ history = <<>> /\ todo = <<>> /\ status = "idle"
  /\ served = {} /\ read = {}
-----------------------------------------------------------------------------
\* Fault: the routes are visited before the bundles they name.
SectionsRoutesFirst(d) ==
  <<[visit |-> "global", block |-> d.global], [visit |-> "default", block |-> d.default]>>
    \o [i \in DOMAIN d.routes |-> [visit |-> "route", route |-> d.routes[i]]]
    \o [i \in DOMAIN d.bundles |-> [visit |-> "bundle", tag |-> d.bundles[i].tag,
                                    block |-> d.bundles[i].block]]

Sections(d) ==
  <<[visit |-> "global", block |-> d.global], [visit |-> "default", block |-> d.default]>>
    \o [i \in DOMAIN d.bundles |-> [visit |-> "bundle", tag |-> d.bundles[i].tag,
                                    block |-> d.bundles[i].block]]
    \o [i \in DOMAIN d.routes |-> [visit |-> "route", route |-> d.routes[i]]]

Following ==
  {h[Len(history) + 1] : h \in {g \in Histories : IsStrictPrefix(history, g)}}

Quiet == served = {} /\ read = {}

\* load_config publishes a snapshot without annotations; the visitor keeps the
\* layers of the load before.  Plugins that are registered already are refused,
\* which ends the load before anything is published.
LoadConfig ==
  /\ status # "loading" /\ Quiet
  /\ \E d \in Following :
       /\ history' = Append(history, d)
       /\ IF DOMAIN d.plugins \cap DOMAIN registry # {}
          THEN status' = "refused" /\ UNCHANGED <<registry, annotations, todo>>
          ELSE /\ registry' = d.plugins @@ registry
               /\ annotations' = EmptyFunction
               /\ todo' = Sections(d) /\ status' = "loading"
  /\ UNCHANGED <<visitor, served, read>>

Annotate(names, handler) == annotations' = [n \in names |-> handler] @@ annotations

\* Blocks are optional: {} or {block}.
Compiled(block) == {CompileAplBlocks(b) : b \in block}

CompileFails(block) == \E c \in Compiled(block) : ~c.ok

Layer(block) == {c.expr : c \in Compiled(block)}

VisitGlobal(section) ==
  \E layer \in Layer(section.block) :
    /\ visitor' = [visitor EXCEPT !.global = {layer}]
    /\ IF layer.args # <<>> \/ layer.policy # <<>> THEN Annotate({"http"}, layer)
       ELSE UNCHANGED annotations

VisitDefault(section) ==
  /\ visitor' = [visitor EXCEPT !.default = Layer(section.block)]
  /\ UNCHANGED annotations

VisitPolicyBundle(section) ==
  /\ \E layer \in Layer(section.block) : visitor' = [visitor EXCEPT !.tags = (section.tag :> layer) @@ @]
  /\ UNCHANGED annotations

\* The layers of a route, the broadest first.
Stack(route) ==
  SetToSeq(visitor.global) \o SetToSeq(visitor.default)
    \o FoldLeft(LAMBDA s, t : IF t \in DOMAIN visitor.tags THEN Append(s, visitor.tags[t]) ELSE s,
                <<>>, route.tags)
    \o SetToSeq(Layer(route.block))

Effective(route) == FoldLeft(ApplyLayer, NoRoute, Stack(route))

VisitRoute(section) ==
  /\ \E route \in {Effective(section.route)} :
       IF route = NoRoute THEN UNCHANGED annotations ELSE Annotate({section.route.name}, route)
  /\ UNCHANGED visitor

\* A block that does not compile, or a route whose parallel blocks call plugins
\* that may modify, ends the load where it is.
Refused(section) ==
  IF section.visit = "route"
  THEN ~CompileFails(section.route.block)
         => ~ValidateParallelPluginModes(Effective(section.route), registry)
  ELSE CompileFails(section.block)

HasNoBlock(section) == section.visit # "route" /\ section.block = {}

VisitSection ==
  /\ status = "loading" /\ todo # <<>> /\ Quiet
  /\ LET section == Head(todo)
     IN /\ ~Refused(section)
        /\ CASE HasNoBlock(section) -> UNCHANGED <<annotations, visitor>>
             [] section.visit = "global" /\ section.block # {} -> VisitGlobal(section)
             [] section.visit = "default" /\ section.block # {} -> VisitDefault(section)
             [] section.visit = "bundle" /\ section.block # {} -> VisitPolicyBundle(section)
             [] section.visit = "route" -> VisitRoute(section)
  /\ todo' = Tail(todo)
  /\ UNCHANGED <<registry, history, status, served, read>>

LoadFails ==
  /\ status = "loading" /\ todo # <<>> /\ Quiet
  /\ Refused(Head(todo))
  /\ status' = "failed" /\ todo' = <<>>
  /\ UNCHANGED <<registry, annotations, visitor, history, served, read>>

LoadSucceeds ==
  /\ status = "loading" /\ todo = <<>> /\ Quiet
  /\ status' = "loaded"
  /\ UNCHANGED <<registry, annotations, visitor, history, todo, served, read>>
-----------------------------------------------------------------------------
\* The message a handler hands on: the fields the pipelines changed, dropped or
\* kept, over whatever the plugins made of the message.
Forwarded(message, st, side) ==
  IF side \notin st.modified THEN IF st.inv.modified THEN st.inv.message ELSE message
  ELSE LET post == st.payload[side]
           rewritten == {f \in DOMAIN post : post[f] # message[f]}
           kept == DOMAIN st.inv.message \ (DOMAIN message \ DOMAIN post)
       IN [f \in kept \cup rewritten |-> IF f \in rewritten THEN post[f] ELSE st.inv.message[f]]

Started(message, phase) ==
  [bag |-> Bag, taints |-> {}, constraints |-> <<>>,
   payload |-> IF phase = "pre" THEN [args |-> message]
               ELSE [args |-> EmptyFunction, result |-> message],
   modified |-> {}, inv |-> [message |-> message, modified |-> FALSE, labels |-> {}], heard |-> {}]

Side(phase) == IF phase = "pre" THEN "args" ELSE "result"

\* A restrict conflict denies what the policy allowed.
Verdict(r) ==
  IF r.out = "Continue" /\ \E c \in FoldCandidateConstraints(r.st.constraints) : c.conflict
  THEN "Halt" ELSE r.out

Serve ==
  /\ Quiet
  /\ \E name \in DOMAIN annotations, phase \in {"pre", "post"}, message \in Messages, w \in Worlds :
     /\ name = "http" => phase = "pre"
     /\ \E r \in IF phase = "pre" THEN EvaluatePre(annotations[name], Started(message, phase), w)
                ELSE EvaluatePost(annotations[name], Started(message, phase), w) :
         served' = {[name |-> name, phase |-> phase, message |-> message, world |-> w,
                     out |-> Verdict(r), st |-> r.st,
                     forwarded |-> Forwarded(message, r.st, Side(phase))]}
  /\ UNCHANGED <<registry, annotations, visitor, history, todo, status, read>>

Answered ==
  /\ served # {} /\ served' = {}
  /\ UNCHANGED <<registry, annotations, visitor, history, todo, status, read>>

ReadPredicate ==
  /\ history = <<>> /\ Quiet
  /\ \E t \in Texts : read' = {t}
  /\ UNCHANGED <<registry, annotations, visitor, history, todo, status, served>>

Forget ==
  /\ read # {} /\ read' = {}
  /\ UNCHANGED <<registry, annotations, visitor, history, todo, status, served>>

Next ==
  \/ LoadConfig \/ VisitSection \/ LoadFails \/ LoadSucceeds
  \/ Serve \/ Answered \/ ReadPredicate \/ Forget

Spec == Init /\ [][Next]_vars
-----------------------------------------------------------------------------
\* Types: a load is under way while sections are left to visit, and only what some
\* configuration had is annotated (load_config, manager.rs).
TypeOK ==
  /\ status \in {"idle", "loading", "loaded", "failed", "refused"}
  /\ todo # <<>> => status = "loading"
  /\ DOMAIN annotations \subseteq {"http"} \cup UNION {{h[i].routes[j].name : j \in DOMAIN h[i].routes} :
                                                  h \in {history}, i \in DOMAIN history}
  /\ Cardinality(served) <= 1 /\ Cardinality(read) <= 1

\* What a string read as a require(..) must deny: nothing else than identifiers
\* separated by commas (all of them) or by bars (one of them) is accepted.
RequireValues(t, bag) ==
  LET inner == SubSeq(t, 3, Len(t) - 1)
      keys == {inner[i] : i \in {j \in DOMAIN inner : j % 2 = 1}}
      seps == {inner[i] : i \in {j \in DOMAIN inner : j % 2 = 0}}
  IN IF Len(t) > 3 /\ t[2] = "(" /\ Last(t) = ")" /\ Len(inner) % 2 = 1 /\ keys \subseteq Idents
        /\ Cardinality(seps) <= 1 /\ seps \subseteq {",", "|"}
     THEN {IF "|" \in seps THEN \A k \in keys : ~IsTruthy(bag, k) ELSE \E k \in keys : ~IsTruthy(bag, k)}
     ELSE {}

\* The recursive-descent parser (PredParser) accepts exactly the strings of the
\* grammar and gives each the meaning the grammar does: `&` binds tighter than
\* `|`, `!` tightest, `not in` is one operator and nothing may follow an
\* expression.  A require(..) denies unless all, or one, of its attributes hold.
ParserAgrees ==
  \A t \in read, bag \in Bags :
    LET require == t # <<>> /\ Head(t) = "require"
        parse == IF require THEN ParseRequireRule(t) ELSE ParsePredicate(t)
    IN (IF parse.ok THEN {EvalExpression(parse.expr, bag)} ELSE {})
         = (IF require THEN RequireValues(t, bag) ELSE OrValues(t, bag))

RECURSIVE InOrder(_)

InOrder(e) ==
  CASE e.do \in {"Parallel", "Sequential"} ->
         [do |-> "Sequential", parts |-> [i \in DOMAIN e.parts |-> InOrder(e.parts[i])]]
    [] e.do = "When" -> [e EXCEPT !.body = [i \in DOMAIN @ |-> InOrder(@[i])]]
    [] OTHER -> e

SameInOrder(s) ==
  LET route == annotations[s.name]
      seq == [route EXCEPT !.policy = [i \in DOMAIN @ |-> InOrder(@[i])],
                           !.post_policy = [i \in DOMAIN @ |-> InOrder(@[i])]]
      start == Started(s.message, s.phase)
      runs == IF s.phase = "pre" THEN EvaluatePre(seq, start, s.world)
              ELSE EvaluatePost(seq, start, s.world)
  IN \A r \in runs :
       /\ Verdict(r) = s.out
       /\ s.out = "Continue" =>
            /\ r.st.taints = s.st.taints /\ r.st.constraints = s.st.constraints
            /\ r.st.inv = s.st.inv /\ r.st.payload = s.st.payload

Panics(w) == \E p \in DOMAIN w.plugins : w.plugins[p].answer = "panic"

\* Running the branches of a parallel block at the same time decides nothing that
\* running them one after another would not: the purity check and the check of
\* plugin modes leave only branches whose order cannot be told.  A request that
\* is allowed also ends with the same taints, constraints and message.  Exempt are
\* worlds where a plugin panics, which ends the request outside a parallel block and
\* is dropped inside one (evaluator.rs 1077-1086).
ParallelLikeSequential ==
  \A s \in served : s.name # "http" /\ ~Panics(s.world) => SameInOrder(s)

\* A request goes through only if nobody who was asked refused: a plugin, a
\* decision point, a delegation or a human that denies, fails or cannot be
\* reached ends the evaluation, unless the step says on_error: continue, which
\* never covers a human's denial, or a plugin panics inside a parallel block.
FailClosed ==
  \A s \in served : s.out = "Continue" =>
    \A h \in s.st.heard :
      \/ h.said = "allow"
      \/ h.on_error = "continue" /\ h.said # "denied"
      \/ h.on_error = "dropped" /\ h.said = "panic"

FieldOpsOn(e, f) == e.do = "FieldOp" /\ e.field = f

RECURSIVE Touches(_, _)

Touches(e, f) == FieldOpsOn(e, f) \/ \E i \in DOMAIN Inner(e) : Touches(Inner(e)[i], f)

Touched(route, phase, f) ==
  LET effects == IF phase = "pre" THEN route.policy ELSE route.post_policy
  IN \E i \in DOMAIN effects : Touches(effects[i], f)

Rules(route, phase) == IF phase = "pre" THEN route.args ELSE route.result

\* What a pipeline redacts stays redacted in the message that is handed on, or is
\* gone from it, although the invoker's copy of the message still holds the plain
\* value: a later plugin of the pipeline that edits other fields does not bring
\* it back, nor one that edited the field before.  And a plugin's edit to a field
\* no pipeline is about is handed on.
EditsForwarded ==
  \A s \in served : s.out = "Continue" =>
    LET route == annotations[s.name]
        rules == Rules(route, s.phase)
        Leaves(stage, f) == stage.stage = "plugin" /\ f \notin DOMAIN s.world.plugins[stage.name].edits
        Redacts(r) == \E i \in DOMAIN r.stages :
                        /\ r.stages[i].stage = "redact" /\ r.stages[i].cond = Always
                        /\ \A j \in i + 1 .. Len(r.stages) : Leaves(r.stages[j], r.field)
    IN /\ \A i \in DOMAIN rules :
            (rules[i].field \in DOMAIN s.forwarded /\ Redacts(rules[i])
               /\ ~Touched(route, s.phase, rules[i].field))
              => s.forwarded[rules[i].field] = Redacted
       /\ \A f \in DOMAIN s.message :
            (f \notin FieldsOf(rules) /\ ~Touched(route, s.phase, f))
              => f \in DOMAIN s.forwarded /\ s.forwarded[f] = s.st.inv.message[f]

\* The constraint of one restrict by itself.
Alone(c) == FoldOne(Start, c)

\* The backends a constraint of the request can tell apart.
Backends ==
  LET folded == {Alone(c) : c \in UNION {Range(s.st.constraints) : s \in served}}
  IN [model : UNION {Matches[p] : p \in UNION {UNION c.allow \cup c.deny : c \in folded}} \cup {"unnamed"},
      tier : UNION {c.tiers : c \in folded} \cup {0},
      labels : {c.custom : c \in folded} \cup {{}}]

\* Two lists name a model by patterns that are not the same string.
NamedTwice(c, d) ==
  \E patterns \in c.allow, others \in d.allow : \E p \in patterns, q \in others :
    p # q /\ Matches[p] \cap Matches[q] # {}

\* The folded constraint accepts no backend that one of the request's restricts
\* excludes, whatever the order in which parallel branches handed them over, and
\* falls back on an empty set only if all of them agree to.  It accepts every
\* backend that all of them accept, unless two restricts name models by
\* patterns that overlap and are not equal.
RestrictionsHold ==
  \A s \in served : s.out = "Continue" =>
    \A order \in SetToSeqs({<<i, s.st.constraints[i]>> : i \in DOMAIN s.st.constraints}) :
      LET each == {Alone(order[i][2]) : i \in DOMAIN order}
      IN \A c \in FoldCandidateConstraints([i \in DOMAIN order |-> order[i][2]]) :
           /\ \A b \in Backends :
                /\ Accepts(c, b) => \A d \in each : Accepts(d, b)
                /\ (\A d \in each : Accepts(d, b)) =>
                     Accepts(c, b) \/ \E d, e \in each : NamedTwice(d, e)
           /\ c.on_empty = "fallback" => \A d \in each : d.on_empty = "fallback"

\* A message that goes through was refused by nobody, is forwarded as the policy
\* left it, and is routed as every restriction asks.
VerdictsStand == FailClosed /\ EditsForwarded /\ RestrictionsHold

Document == Last(history)

RouteNamed(n) == CHOOSE r \in Range(Document.routes) : r.name = n

\* The layers the latest document has for a route, the broadest first.
DocumentLayers(r) ==
  LET bundle(t) == {b \in Range(Document.bundles) : b.tag = t}
      blocks == SetToSeq(Document.global) \o SetToSeq(Document.default)
                  \o FoldLeft(LAMBDA seq, t : IF bundle(t) = {} THEN seq
                                              ELSE seq \o SetToSeq((CHOOSE b \in bundle(t) : TRUE).block),
                              <<>>, r.tags)
                  \o SetToSeq(r.block)
  IN [i \in DOMAIN blocks |-> CompileAplBlocks(blocks[i]).expr]

Steps(layers) == FoldLeft(LAMBDA seq, l : seq \o l.policy, <<>>, layers)

\* A route that has a handler, also while a load is under way and after one that
\* failed, has every step of every layer the document has for it, the broader
\* layers first, and for each field one pipeline: until a reload, after which a
\* layer the document no longer has may win, that of the narrowest layer.
LayersComplete ==
  status # "refused" => \A n \in DOMAIN annotations \ {"http"} :
    LET layers == DocumentLayers(RouteNamed(n))
        args == annotations[n].args
    IN /\ SelectSeq(annotations[n].policy, LAMBDA e : e \in Range(Steps(layers))) = Steps(layers)
       /\ \A i \in DOMAIN layers : \A r \in Range(layers[i].args) :
            /\ Cardinality({k \in DOMAIN args : args[k].field = r.field}) = 1
            /\ (Len(history) = 1 /\ \A j \in DOMAIN layers : j > i => r.field \notin FieldsOf(layers[j].args))
                 => r \in Range(args)
-----------------------------------------------------------------------------
\* Not so: the same of the handler of requests without an entity, whose plugin
\* modes nobody checks.
HttpParallelLikeSequential ==
  \A s \in served : s.name = "http" /\ ~Panics(s.world) => SameInOrder(s)

\* Not so: allow lists intersect (restrict.md 108), so a backend that every
\* restrict of a request accepts is accepted.
AllowSetsIntersect ==
  \A s \in served : s.out = "Continue" =>
    \A c \in FoldCandidateConstraints(s.st.constraints), b \in Backends :
      (\A i \in DOMAIN s.st.constraints : Accepts(Alone(s.st.constraints[i]), b)) => Accepts(c, b)

\* Not so: a gate of a parallel block that panics does not let the request
\* through.
PanicRefuses ==
  \A s \in served : s.out = "Continue" => \A h \in s.st.heard : h.said # "panic"

\* Not so: a layer that the document no longer has is gone after a reload.
NoStaleLayers ==
  status = "loaded" =>
    \A n \in DOMAIN annotations \ {"http"} : annotations[n].policy = Steps(DocumentLayers(RouteNamed(n)))

\* Not so: a route that had a handler keeps one while a document that has layers
\* for it is loaded.
NoPolicyGap ==
  (status = "loading" /\ Len(history) = 2) =>
    \A r \in Range(Document.routes) :
      (r.block # {} /\ ~CompileFails(r.block) /\ r.name \in {q.name : q \in Range(history[1].routes)})
        => r.name \in DOMAIN annotations
=============================================================================
