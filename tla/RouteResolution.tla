-------------------------- MODULE RouteResolution --------------------------
(***************************************************************************)
(* Requests resolved one after the other against a loaded configuration,   *)
(* with no cache in between: `chain` is what fires on an ordinary hook and *)
(* `steps` what fires on identity.resolve.  Plugins are numbered by their  *)
(* priority.                                                               *)
(***************************************************************************)
EXTENDS Routing

CONSTANTS Configs, Requests

VARIABLES config, req, chain, steps

vars == <<config, req, chain, steps>>

ASSUME ConfigsAreValid == \A c \in Configs : ValidateConfig(c)

Init ==
  /\ config \in Configs
  /\ req \in Requests
  /\ chain \in ResolvePluginsForEntity(config, req)
  /\ steps = ResolveIdentityPluginsForRoute(config, req)

Resolve(r) ==
  /\ req' = r
  /\ chain' \in ResolvePluginsForEntity(config, r)
  /\ steps' = ResolveIdentityPluginsForRoute(config, r)
  /\ UNCHANGED config

Next == \E r \in Requests : Resolve(r)

Spec == Init /\ [][Next]_vars
-----------------------------------------------------------------------------
\* The routes that match the request, as indices.
Candidates == {i \in DOMAIN config.routes : Matches(config.routes[i], req)}

FormRank == [exact |-> 3, list |-> 2, glob |-> 1, star |-> 0]

\* Is route i more specific than route j: by the shape of its matcher, then by
\* its scope, then by its when clause, then by its position?
MoreSpecific(i, j) ==
  LET a == config.routes[i]
      b == config.routes[j]
      Rank(r) == <<FormRank[r.form], IF r.scope = {} THEN 0 ELSE 1, IF r.when THEN 1 ELSE 0>>
  IN \/ \E k \in 1..3 : /\ Rank(a)[k] > Rank(b)[k]
                        /\ \A m \in 1..(k - 1) : Rank(a)[m] = Rank(b)[m]
     \/ Rank(a) = Rank(b) /\ i < j

\* The scores of find_matching_route (config.rs 1043-1084) add up to an order in
\* which no bonus outweighs a better matcher: the winner is the candidate that
\* is most specific by shape, then scope, then when clause, then position.
MostSpecificWins ==
  FindMatchingRoute(config, req) =
    {config.routes[i] : i \in {c \in Candidates : \A d \in Candidates \ {c} : MoreSpecific(c, d)}}

Layers ==
  LET route == FindMatchingRoute(config, req)
      tags == UNION {req.tags \cup ToSet(r.tags) \cup ToSet(r.groups) : r \in route}
  IN << ToSet(RefsOf(config, "all")),
        IF req.type \in DOMAIN config.defaults THEN ToSet(config.defaults[req.type]) ELSE {},
        UNION {ToSet(RefsOf(config, t)) : t \in tags \ {"all"}},
        UNION {ToSet(r.plugins) : r \in route} >>

\* resolve_plugins_for_entity (config.rs 845-909) runs every plugin a layer
\* names and no other, each once, with the override of the last layer naming it.
LaterLayerWins ==
  config.routing =>
    /\ NamesIn(chain) = UNION {{ref.name : ref \in Layers[l]} : l \in 1..4}
    /\ \A j, k \in DOMAIN chain : chain[j].name = chain[k].name => j = k
    /\ \A k \in DOMAIN chain : \E l \in 1..4 :
         /\ chain[k] \in Layers[l]
         /\ \A m \in (l + 1)..4 : \A ref \in Layers[m] : ref.name # chain[k].name

\* A route's own plugins run last and in the order the route lists them, after
\* everything it inherits (config.rs 893-908).
RoutePluginsLast ==
  \A r \in FindMatchingRoute(config, req) :
    config.routing => IsSuffix(Dedup(r.plugins), chain)

\* The configuration with every route's groups rewritten into tags.
Desugared ==
  [config EXCEPT !.routes = [i \in DOMAIN config.routes |->
     [config.routes[i] EXCEPT !.tags = config.routes[i].tags \o config.routes[i].groups,
                              !.groups = <<>>]]]

\* `groups:` is sugar for meta.tags (config.rs 321-323): rewriting every route's
\* groups into tags changes neither resolution.
GroupsAreTags ==
  /\ ResolvePluginsForEntity(Desugared, req) = ResolvePluginsForEntity(config, req)
  /\ ResolveIdentityPluginsForRoute(Desugared, req) = ResolveIdentityPluginsForRoute(config, req)

\* The global authentication steps run, first, on every request whose route does
\* not replace what it inherits (config.rs 944-1009): a route, or a group it
\* joins, can only add steps.
GlobalAuthenticationRuns ==
  config.routing /\ (\A r \in FindMatchingRoute(config, req) : \A id \in r.identity : ~id.replace)
    => IsPrefix(config.identity, steps)

\* The layers of a configuration, for plugins and for authentication, stack as
\* documented: global, tags and groups, route.
LayersStack == LaterLayerWins /\ RoutePluginsLast /\ GroupsAreTags /\ GlobalAuthenticationRuns
-----------------------------------------------------------------------------
\* "Routes are evaluated in order; first match wins"
\* (docs/specs/cpex-rust-spec.md:968).
FirstMatchWins ==
  \A i \in Candidates :
    (\A j \in Candidates : i <= j) => FindMatchingRoute(config, req) = {config.routes[i]}

\* "a host-injected runtime tag joins a group the same way when its name matches
\* a group" (docs/content/docs/configuration.md:135): the request's tags bring
\* in the group's authentication steps.
RuntimeTagAuthenticates ==
  \A t \in req.tags \cap DOMAIN config.policies :
    config.routing /\ (\E r \in FindMatchingRoute(config, req) : \A id \in r.identity : ~id.replace)
      => ToSet(config.policies[t].identity) \subseteq ToSet(steps)

\* "a `priority` that orders plugins within a hook (lower runs first)"
\* (docs/content/docs/configuration.md:150).
PriorityOrder ==
  \A j, k \in DOMAIN chain : j < k => chain[j].name <= chain[k].name
=============================================================================
