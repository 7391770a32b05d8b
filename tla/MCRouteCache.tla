---------------------------- MODULE MCRouteCache ----------------------------
(***************************************************************************)
(* Two configs that differ in their plugins, routes and cache capacity,    *)
(* and requests that differ in name, scope, tags and hook.  The first      *)
(* config authenticates with a plugin that it does not declare itself.     *)
(***************************************************************************)
EXTENDS RouteCache

Ref(p) == [name |-> p, override |-> {}]

MCRoute(plugins) ==
  [type |-> "tool", form |-> "star", names |-> {"a", "b"}, scope |-> {}, when |-> FALSE,
   tags |-> <<>>, groups |-> <<>>, plugins |-> plugins, identity |-> {}]

First ==
  [routing |-> TRUE, cap |-> 1, plugins |-> <<1>>, defaults |-> <<>>, identity |-> <<Ref(1), Ref(2)>>,
   policies |-> [g \in {"g"} |-> [plugins |-> <<Ref(1)>>, identity |-> <<>>]],
   routes |-> <<MCRoute(<<>>)>>]

Second ==
  [routing |-> TRUE, cap |-> 2, plugins |-> <<2>>, defaults |-> <<>>, identity |-> <<>>,
   policies |-> <<>>, routes |-> <<MCRoute(<<[name |-> 2, override |-> {"o"}]>>)>>]

MCConfigs == {First, Second}

MCDeclared(c) == ToSet(c.plugins)

Req(name, scope, tags, hook) ==
  [type |-> "tool", name |-> name, scope |-> scope, tags |-> tags, hook |-> hook]

MCRequest ==
  {Req("a", {}, {}, "tool_pre"), Req("a", {}, {"g"}, "tool_pre"), Req("b", {"s"}, {}, "tool_pre"),
   Req("a", {}, {}, "identity"),
   [type |-> "none", name |-> "a", scope |-> {}, tags |-> {}, hook |-> "tool_pre"]}

MCAnnotationKey == {KeyOf(Req("b", {}, {}, "tool_pre"))}

Symmetry == Permutations(Invoker)
=============================================================================
