------------------------------ MODULE MCPolicy ------------------------------
(***************************************************************************)
(* Policies for model checking: every parallel block of two entries out of *)
(* a pool that has one of each kind, every policy of two steps out of      *)
(* another, some after field pipelines, and reloads of documents whose     *)
(* layers come and go; and every short predicate.                          *)
(***************************************************************************)
EXTENDS Policy

MCIdents == {"a", "b", "not", "role", "roles", "args.ssn", "redact", "delegation.granted"}
MCLiterals == [x \in {"'5'", "5", "true"} |->
                 CASE x = "'5'" -> <<"String", "5">> [] x = "5" -> <<"Int", 10>>
                   [] x = "true" -> <<"Bool", TRUE>>]
MCInterpolated == [x \in {"b"} |-> [inner |-> "role", at |-> [s \in {"hr", "it"} |-> s]]]
MCNumberOf == [s \in {"5"} |-> 10]

\* b stands for an interpolated path, data[role], that names the attribute hr.
MCBags ==
  {("a" :> a) @@ ("hr" :> <<"Bool", TRUE>>) @@ rest :
     a \in {<<"Bool", TRUE>>, <<"Bool", FALSE>>, <<"Int", 10>>, <<"String", "5">>,
            <<"StringSet", {"5"}>>},
     rest \in {[k \in {} |-> <<>>], "role" :> <<"String", "hr">>,
               ("role" :> <<"String", "it">>) @@ ("roles" :> <<"StringSet", {"it"}>>)}}

Strings(alphabet, n) == UNION {[1..k -> alphabet] : k \in 0..n}

MCTexts ==
  Strings({"a", "b", "&", "|", "!", "(", ")"}, 5)
    \cup {<<"(", x, o, y, ")", p, z>> : x \in {"a", "b"}, y \in {"a", "b"}, z \in {"a", "b"},
                                        o \in {"&", "|"}, p \in {"&", "|"}}
    \cup {<<x, o, y, p, z>> \o r : x \in {"a", "b"}, y \in {"a", "b"}, z \in {"a", "b"},
                                  o \in {"&", "|"}, p \in {"&", "|"}, r \in {<<>>, <<"|", "a">>, <<"&", "b">>}}
    \cup Strings({"role", "not", "in", "roles", "exists", "(", ")", "==", ">", "'5'", "5"}, 4)
    \cup {<<"require">> \o t : t \in Strings({"(", "a", "b", ",", "|", ")"}, 5)
                                       \cup {<<"(", x, s, y, t, z, ")">> :
                                               x \in {"a"}, y \in {"b"}, z \in {"a", "role"},
                                               s \in {",", "|"}, t \in {",", "|"}}}
-----------------------------------------------------------------------------
MCBag == ("a" :> <<"Bool", TRUE>>) @@ ("role" :> <<"String", "hr">>)
           @@ ("models" :> <<"StringSet", {"m1", "m2"}>>)

Long(k) == [kind |-> "string", n |-> 12, shown |-> k]
MCMessages == {("ssn" :> Long(12)) @@ ("note" :> Long(9))}

Modes == [p |-> "sequential", t |-> "transform", c |-> "concurrent", a |-> "audit"]

Plugin(name, answer, edits) ==
  [answer |-> answer, mode |-> Modes[name], edits |-> edits, labels |-> {"seen"}]

Nothing == [f \in {} |-> 0]
EditsOf == [p |-> ("ssn" :> Long(8)), t |-> ("note" :> Long(7)), c |-> ("note" :> Long(6)), a |-> Nothing]

World(p, c, pdp, delegate, elicit) ==
  [plugins |-> [x \in DOMAIN Modes |->
                  Plugin(x, CASE x = "p" -> p [] x = "c" -> c [] OTHER -> "allow", EditsOf[x])],
   pdp |-> [cedar |-> pdp], delegate |-> [idp |-> delegate], elicit |-> [boss |-> elicit, peer |-> "approved"]]

ElicitAnswers == {"pending", "expired", "denied", "undeliverable", "unchecked", "invalid", "approved"}

MCWorlds ==
  {World(p, c, "allow", "allow", "approved") : p \in {"allow", "deny", "error", "wrongType", "panic"},
                                               c \in {"allow", "deny", "panic"}}
    \cup {World("allow", "allow", pdp, delegate, "approved") :
            pdp \in {"allow", "deny", "error"}, delegate \in {"allow", "deny", "error"}}
    \cup {World("allow", "allow", pdp, "allow", elicit) :
            pdp \in {"allow", "deny"}, elicit \in ElicitAnswers}
    \cup {World("allow", "allow", "allow", "error", elicit) : elicit \in ElicitAnswers}
-----------------------------------------------------------------------------
Text(toks, action) == [y |-> "text", toks |-> toks, action |-> action, op |-> {}]
Call(effect) == [y |-> "call", effect |-> effect]
Run(name) == Call([do |-> "Plugin", name |-> name])
Taint(label) == Call([do |-> "Taint", label |-> label, scopes |-> {"session"}])
Delegate(on_error) == Call([do |-> "Delegate", name |-> "idp", on_error |-> on_error])
Elicit(name, on_error, scope) ==
  Call([do |-> "Elicit", name |-> name, from |-> "role", ref |-> FALSE, scope |-> scope,
        on_error |-> on_error])
FieldOp(side, field, stages) ==
  [y |-> "text", toks |-> <<"args.ssn", "|", "redact">>, action |-> "none",
   op |-> {[side |-> side, field |-> field, stages |-> stages]}]
Redact == [stage |-> "redact", cond |-> [op |-> "Always"]]
MCMatches == [p \in {"m1", "m2", "m3", "m*"} |-> IF p = "m*" THEN {"m1", "m2", "m3"} ELSE {p}]

RestrictTo(allow, deny, on_empty) ==
  [y |-> "restrict", spec |-> [allow |-> allow, deny |-> deny, tier |-> {}, custom |-> {},
                               on_empty |-> on_empty]]
Zoned(zone) ==
  [y |-> "restrict", spec |-> [allow |-> {}, deny |-> {}, tier |-> {}, custom |-> {<<"zone", zone>>},
                               on_empty |-> "deny"]]
Capped(tier) ==
  [y |-> "restrict", spec |-> [allow |-> {}, deny |-> {<<"literal", {"m*"}>>}, tier |-> {tier}, custom |-> {},
                               on_empty |-> "fallback"]]
When(toks, body) == [y |-> "when", when |-> toks, body |-> body]
Pdp(on_allow, on_deny) == [y |-> "pdp", name |-> "cedar", on_allow |-> on_allow, on_deny |-> on_deny]

\* The entries a parallel block may be written with.
Branches ==
  {Text(<<"allow">>, "none"), Text(<<"deny">>, "none"), Text(<<"a">>, "deny"), Run("p"), Run("c"), Run("a"),
   Taint("x"), Delegate("deny"), Elicit("boss", "deny", {}), FieldOp("args", "ssn", <<Redact>>),
   RestrictTo({<<"literal", {"m1"}>>}, {}, "fallback"), RestrictTo({<<"ref", "models">>}, {}, "deny"),
   RestrictTo({}, {<<"ref", "missing">>}, "deny"), RestrictTo({<<"literal", {"m*"}>>}, {}, "fallback"),
   Capped(1), Zoned("eu"), Zoned("us"),
   [y |-> "sequential", parts |-> <<Taint("y"), Run("c")>>],
   [y |-> "parallel", parts |-> <<Run("c"), Taint("z")>>],
   Pdp(<<>>, <<>>), [y |-> "other"]}

\* The steps a policy may be written with.
TopLevel ==
  {Text(<<"b">>, "deny"), Text(<<"require", "(", "a", ")">>, "none"), Run("p"), Run("t"), Run("c"), Taint("x"),
   Delegate("deny"), Delegate("continue"),
   Elicit("boss", "deny", {<<"a">>}), Elicit("boss", "continue", {}), Elicit("peer", "deny", {<<"!", "a">>}),
   RestrictTo({<<"literal", {"m1", "m3"}>>}, {<<"literal", {"m3"}>>}, "deny"),
   When(<<"a">>, <<FieldOp("args", "note", <<[stage |-> "omit"]>>), Taint("y")>>),
   When(<<"a">>, <<FieldOp("result", "ssn", <<[stage |-> "hash"]>>)>>),
   Pdp(<<Run("c")>>, <<Taint("d"), Elicit("boss", "deny", {})>>),
   Pdp(<<RestrictTo({<<"ref", "models">>}, {}, "deny")>>, <<>>),
   Text(<<"delegation.granted">>, "deny")}

FieldRules ==
  {<<[field |-> "ssn", stages |-> <<[stage |-> "type", kinds |-> {"string"}], Redact>>]>>,
   <<[field |-> "ssn", stages |-> <<[stage |-> "plugin", name |-> "p"], [stage |-> "mask", keep |-> 4]>>],
     [field |-> "note", stages |-> <<Redact, [stage |-> "plugin", name |-> "p"]>>]>>,
   <<[field |-> "note", stages |-> <<[stage |-> "plugin", name |-> "t"]>>],
     [field |-> "ssn", stages |-> <<[stage |-> "plugin", name |-> "t"], Redact>>]>>}

Block(pre, post, rules) ==
  [auth_pre |-> <<>>, auth_post |-> <<>>, pre |-> pre, post |-> post, args |-> rules, result |-> rules,
   legacy |-> FALSE]

Single(block) ==
  <<[plugins |-> Modes, global |-> {}, default |-> {}, bundles |-> <<>>,
     routes |-> <<[name |-> "tool", tags |-> <<>>, block |-> {block}]>>]>>

ParallelHistories ==
  {Single(Block(<<[y |-> "parallel", parts |-> <<x, y>>], Text(<<"delegation.granted">>, "deny")>>, <<>>, <<>>)) :
     x \in Branches, y \in Branches}

PolicyHistories ==
  {Single(Block(<<x, y>>, <<y>>, <<>>)) : x \in TopLevel, y \in TopLevel}
    \cup {Single(Block(<<x, y>>, <<x>>, rules)) : x \in TopLevel, y \in {Run("p"), Run("t"), Delegate("deny")},
                                                 rules \in FieldRules}
-----------------------------------------------------------------------------
\* Layers: a step that tells which layer it is from, and a pipeline of its own.
Of(layer) == Block(<<Taint(layer)>>, <<>>,
                   <<[field |-> "ssn", stages |-> <<[stage |-> "mask", keep |-> 4], [stage |-> "taint",
                      label |-> layer, scopes |-> {"session"}]>>]>>)
Broken == [Block(<<Taint("x")>>, <<>>, <<>>) EXCEPT !.legacy = TRUE]
Racing == Block(<<[y |-> "parallel", parts |-> <<Run("p"), Run("t")>>]>>, <<>>, <<>>)

Layered(plugins, global, default, bundle, route) ==
  [plugins |-> plugins, global |-> global, default |-> default,
   bundles |-> <<[tag |-> "hr", block |-> bundle]>>,
   routes |-> <<[name |-> "tool", tags |-> <<"hr", "it">>, block |-> route],
                [name |-> "other", tags |-> <<>>, block |-> route]>>]

First ==
  {Layered(Modes, g, d, b, r) : g \in {{}, {Of("global")}, {Racing}}, d \in {{}, {Of("default")}},
                               b \in {{}, {Of("bundle")}}, r \in {{}, {Of("route")}, {Broken}}}

Second ==
  {Layered(plugins, g, {}, b, r) : plugins \in {Modes, Nothing}, g \in {{}, {Of("new global")}},
                                  b \in {{Of("new bundle")}, {Broken}}, r \in {{}, {Of("new route")}}}

ReloadHistories == {<<x, y>> : x \in First, y \in Second}

MCHistories == ParallelHistories \cup PolicyHistories \cup ReloadHistories
=============================================================================
