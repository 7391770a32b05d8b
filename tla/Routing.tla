------------------------------ MODULE Routing ------------------------------
(***************************************************************************)
(* Route resolution of cpex-core's config: which plugins fire for an       *)
(* entity, and in which order.  A configuration is a record                *)
(*   routing   is routing enabled                                          *)
(*   cap       the capacity of the route cache                             *)
(*   plugins   the declared plugins, in order                              *)
(*   policies  a function from group names to [plugins, identity]          *)
(*   defaults  a function from entity types to sequences of references     *)
(*   identity  the global authentication steps                             *)
(*   routes    a sequence of routes.                                       *)
(* A reference is [name, override], as is an authentication step, and a    *)
(* route is                                                                *)
(* [type, form, names, scope, when, tags, groups, plugins, identity]:      *)
(* `form` is the shape of its entity matcher and `names` what it matches   *)
(* (an "exact" pattern may hold a `?` and match several), `identity` is an *)
(* optional [replace, steps].  Options are sets of at most one element.    *)
(* A request is [type, name, scope, tags].                                 *)
(***************************************************************************)
EXTENDS Naturals, Sequences, SequencesExt

Specificity == [exact |-> 1000, list |-> 500, glob |-> 300, star |-> 0]

Matches(route, req) ==
  /\ route.scope \in {{}, req.scope}
  /\ route.type = req.type
  /\ req.name \in route.names

Score(route) ==
  Specificity[route.form]
    + (IF route.scope = {} THEN 0 ELSE 100)
    + (IF route.when THEN 10 ELSE 0)

\* Fault: of equally specific routes the last one wins.
BetterOrEqual(route, best) == \A b \in best : Score(route) >= Score(b)

\* Does the route replace the best one found so far (an Option)?
Better(route, best) == \A b \in best : Score(route) > Score(b)

\* find_matching_route: one pass over the routes, an Option.
FindMatchingRoute(config, req) ==
  FoldLeft(LAMBDA best, route :
             IF Matches(route, req) /\ Better(route, best) THEN {route} ELSE best,
           {}, config.routes)

\* route_static_tags
RouteStaticTags(route) == route.tags \o route.groups

\* Fault: the order is not restored after the backward pass.
KeepReversed(ref, kept) ==
  IF \E k \in DOMAIN kept : kept[k].name = ref.name THEN kept ELSE Append(kept, ref)

\* One step of the backward pass that drops earlier references to a plugin.
KeepLater(ref, kept) ==
  IF \E k \in DOMAIN kept : kept[k].name = ref.name THEN kept ELSE <<ref>> \o kept

Dedup(refs) == FoldRight(KeepLater, refs, <<>>)

RefsOf(config, layer) ==
  IF layer \in DOMAIN config.policies THEN config.policies[layer].plugins ELSE <<>>

\* resolve_plugins_for_entity.  The merged tags are a hash set, walked in any
\* order: the result is one of a set of sequences.
ResolvePluginsForEntity(config, req) ==
  LET base == RefsOf(config, "all")
                \o (IF req.type \in DOMAIN config.defaults
                    THEN config.defaults[req.type] ELSE <<>>)
      Groups(route) ==
        ((req.tags \cup ToSet(RouteStaticTags(route))) \ {"all"}) \cap DOMAIN config.policies
      Joined(order) == FlattenSeq([k \in DOMAIN order |-> RefsOf(config, order[k])])
      best == FindMatchingRoute(config, req)
  IN IF ~config.routing
     THEN {[k \in DOMAIN config.plugins |-> [name |-> config.plugins[k], override |-> {}]]}
     ELSE IF best = {} THEN {Dedup(base)}
     ELSE UNION {{Dedup(base \o Joined(order) \o route.plugins) :
                    order \in SetToSeqs(Groups(route))} : route \in best}

\* The authentication steps a route inherits: the global ones, then those of
\* the groups its static tags name.
InheritedSteps(config, best) ==
  config.identity
    \o FlattenSeq(SetToSeq({FlattenSeq([k \in DOMAIN RouteStaticTags(route) |->
         LET tag == RouteStaticTags(route)[k]
         IN IF tag \in DOMAIN config.policies THEN config.policies[tag].identity ELSE <<>>]) :
         route \in best}))

StackSteps(inherited, own) == inherited \o own

\* resolve_identity_plugins_for_route: global, group and route steps, or the
\* route's alone when it replaces what it would inherit.
ResolveIdentityPluginsForRoute(config, req) ==
  LET best == FindMatchingRoute(config, req)
      block == UNION {route.identity : route \in best}
      own == FlattenSeq(SetToSeq({id.steps : id \in block}))
      inherited == IF \E id \in block : id.replace THEN <<>> ELSE InheritedSteps(config, best)
  IN StackSteps(inherited, own)

\* The part of validate_config that speaks of plugins, groups and routes.
NamesIn(refs) == {refs[k].name : k \in DOMAIN refs}

ValidateConfig(config) ==
  /\ Len(config.plugins) = Cardinality(ToSet(config.plugins))
  /\ config.routing =>
       /\ \A i \in DOMAIN config.routes :
            /\ NamesIn(config.routes[i].plugins) \subseteq ToSet(config.plugins)
            /\ ToSet(config.routes[i].groups) \subseteq DOMAIN config.policies
       /\ \A g \in DOMAIN config.policies :
            NamesIn(config.policies[g].plugins) \subseteq ToSet(config.plugins)
=============================================================================
