------------------------- MODULE MCRouteResolution -------------------------
(***************************************************************************)
(* Two families of configurations.  In the first, three routes range over  *)
(* every shape of matcher, scope and when clause.  In the second, one      *)
(* route and a catch-all range over what they join, list and replace.      *)
(***************************************************************************)
EXTENDS RouteResolution

Ref(p) == [name |-> p, override |-> {}]

Overridden(p, layer) == [name |-> p, override |-> {layer}]

Policies ==
  [g \in {"all", "g", "h"} |->
     CASE g = "all" -> [plugins |-> <<Ref(3)>>, identity |-> <<Ref("idAll")>>]
       [] g = "g" -> [plugins |-> <<Overridden(2, "g"), Ref(1)>>, identity |-> <<Overridden("idG", "g")>>]
       [] g = "h" -> [plugins |-> <<Overridden(2, "h")>>, identity |-> <<>>]]

Config(policies, routes, routing) ==
  [routing |-> routing, cap |-> 1, plugins |-> <<1, 2, 3>>, policies |-> policies,
   defaults |-> [t \in {"tool"} |-> <<Ref(2)>>], identity |-> <<Ref("idGlobal")>>, routes |-> routes]

Matcher ==
  {[form |-> "exact", names |-> {"a"}], [form |-> "exact", names |-> {"a", "b"}],
   [form |-> "list", names |-> {"a", "b"}], [form |-> "glob", names |-> {"a", "b"}],
   [form |-> "star", names |-> {"a", "b"}]}

PlainRoute(m, scope, when) ==
  [type |-> "tool", form |-> m.form, names |-> m.names, scope |-> scope, when |-> when,
   tags |-> <<>>, groups |-> <<>>, plugins |-> <<>>, identity |-> {}]

PlainRoutes == {PlainRoute(m, s, w) : m \in Matcher, s \in {{}, {"s"}}, w \in BOOLEAN}

Scans == {Config(<<>>, <<r1, r2, r3>>, TRUE) : r1, r2, r3 \in PlainRoutes}

RichRoute(tags, groups, plugins, identity) ==
  [PlainRoute([form |-> "exact", names |-> {"a"}], {}, FALSE) EXCEPT
     !.tags = tags, !.groups = groups, !.plugins = plugins, !.identity = identity]

CatchAll ==
  [PlainRoute([form |-> "star", names |-> {"a", "b"}], {}, FALSE) EXCEPT !.plugins = <<Ref(1)>>]

Layered ==
  {Config(Policies, <<CatchAll, RichRoute(t, g, p, id)>>, routing) :
     t \in {<<>>, <<"g">>, <<"all", "x">>}, g \in {<<>>, <<"h">>, <<"g", "h">>},
     p \in {<<>>, <<Overridden(3, "route"), Ref(1)>>, <<Ref(1), Ref(2), Overridden(1, "route")>>},
     id \in {{}} \cup {{[replace |-> r, steps |-> s]} :
                         r \in BOOLEAN, s \in {<<>>, <<Ref("idRoute")>>}},
     routing \in BOOLEAN}

MCConfigs == Scans \cup Layered

MCRequests ==
  {[type |-> "tool", name |-> n, scope |-> s, tags |-> t] :
     n \in {"a", "b"}, s \in {{}, {"s"}}, t \in {{}, {"g"}}}
    \cup {[type |-> "prompt", name |-> "a", scope |-> {}, tags |-> {}]}
=============================================================================
