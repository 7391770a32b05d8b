----------------------------- MODULE RouteCache -----------------------------
(***************************************************************************)
(* Invocations that select their handlers through the manager's route      *)
(* cache while mutators replace the runtime snapshot.  An invocation loads *)
(* the snapshot once, looks the cache up, resolves the route (awaiting the *)
(* construction of override instances) and inserts what it found: each is  *)
(* a step of its own, and mutations run in between.                        *)
(*                                                                         *)
(* A request is one of Routing with the hook it fires; type "none" stands  *)
(* for a request without entity.  An entry is [name, override, instance].  *)
(* Plugins are numbered by priority, and carry no conditions of their own. *)
(***************************************************************************)
EXTENDS Runtime, Routing

CONSTANTS Invoker, Request

VARIABLES
  cache,      \* route_cache: a function from keys to chains
  ipc,        \* what each invocation does next
  snap,       \* the snapshot it loaded
  req,        \* its request
  chain,      \* the entries it has found
  published,  \* history: every snapshot that was current
  late        \* history: keys inserted by an invocation whose snapshot was replaced

cacheVars == <<cache, ipc, snap, req, chain, published, late>>

vars == <<runtimeVars, cacheVars>>

KeyOf(r) == [type |-> r.type, name |-> r.name, scope |-> r.scope, hook |-> r.hook]

Orchestrator == <<[name |-> 0, override |-> {}, instance |-> 0]>>

\* Is the request's route annotated, for its scope or for all?
IsAnnotated(s, r) ==
  /\ r.type # "none"
  /\ {KeyOf(r), [KeyOf(r) EXCEPT !.scope = {}]} \cap s.annotated # {}

Routed(s, r) == r.type # "none" /\ \E c \in s.config : c.routing

AllEntries(plugins) ==
  LET names == SetToSortSeq({p \in Plugin : plugins[p] # 0}, <)
  IN [k \in DOMAIN names |->
        [name |-> names[k], override |-> {}, instance |-> plugins[names[k]]]]

\* The entries of the resolved plugins that are registered, in resolution
\* order.  An override that cannot be built falls back to the base entry.
EntriesFor(plugins, refs) ==
  LET found == SelectSeq(refs, LAMBDA ref : plugins[ref.name] # 0)
      overridden == {k \in DOMAIN found : found[k].override # {}}
  IN {[k \in DOMAIN found |->
         [name |-> found[k].name, override |-> IF k \in base THEN {} ELSE found[k].override,
          instance |-> plugins[found[k].name]]] : base \in SUBSET overridden}

\* What resolving a request may give, with the plugins of one snapshot and the
\* config of another.
Resolution(plugins, config, r) ==
  UNION {EntriesFor(plugins, refs) :
           refs \in UNION {IF r.hook = "identity" THEN {ResolveIdentityPluginsForRoute(c, r)}
                           ELSE ResolvePluginsForEntity(c, r) : c \in config}}

Init ==
  /\ RuntimeInit
  /\ cache = <<>>
  /\ ipc = [i \in Invoker |-> "idle"]
  /\ snap = [i \in Invoker |-> Empty]
  /\ req \in [Invoker -> Request]
  /\ chain = [i \in Invoker |-> <<>>]
  /\ published = {Empty}
  /\ late = {}

\* With nothing registered and nothing annotated an invocation ends at once.
Idle(s) == s.annotated = {} /\ \A p \in Plugin : s.plugins[p] = 0

\* invoke_by_name loads the snapshot; filter_entries_by_route answers at once
\* for an annotated route, without routing and without an entity.
Start(i, r) ==
  /\ ipc[i] \in {"idle", "done"}
  /\ snap' = [snap EXCEPT ![i] = runtime]
  /\ req' = [req EXCEPT ![i] = r]
  /\ \/ /\ IsAnnotated(runtime, r)
        /\ chain' = [chain EXCEPT ![i] = Orchestrator]
        /\ ipc' = [ipc EXCEPT ![i] = "done"]
     \/ /\ ~IsAnnotated(runtime, r)
        /\ ~Routed(runtime, r) \/ Idle(runtime)
        /\ chain' = [chain EXCEPT ![i] = AllEntries(runtime.plugins)]
        /\ ipc' = [ipc EXCEPT ![i] = "done"]
     \/ /\ ~IsAnnotated(runtime, r)
        /\ Routed(runtime, r) /\ ~Idle(runtime)
        /\ chain' = [chain EXCEPT ![i] = <<>>]
        /\ ipc' = [ipc EXCEPT ![i] = "lookup"]
  /\ UNCHANGED <<runtimeVars, cache, published, late>>

LookupHit(i) ==
  /\ ipc[i] = "lookup"
  /\ KeyOf(req[i]) \in DOMAIN cache
  /\ chain' = [chain EXCEPT ![i] = cache[KeyOf(req[i])]]
  /\ ipc' = [ipc EXCEPT ![i] = "done"]
  /\ UNCHANGED <<runtimeVars, cache, snap, req, published, late>>

LookupMiss(i) ==
  /\ ipc[i] = "lookup"
  /\ KeyOf(req[i]) \notin DOMAIN cache
  /\ ipc' = [ipc EXCEPT ![i] = "resolve"]
  /\ UNCHANGED <<runtimeVars, cache, snap, req, chain, published, late>>

\* Fault: the registry is read again, after the config.
ResolveTorn(i) ==
  /\ ipc[i] = "resolve"
  /\ \E c \in Resolution(runtime.plugins, snap[i].config, req[i]) :
       chain' = [chain EXCEPT ![i] = c]
  /\ ipc' = [ipc EXCEPT ![i] = "insert"]
  /\ UNCHANGED <<runtimeVars, cache, snap, req, published, late>>

Resolve(i) ==
  /\ ipc[i] = "resolve"
  /\ \E c \in Resolution(snap[i].plugins, snap[i].config, req[i]) :
       chain' = [chain EXCEPT ![i] = c]
  /\ ipc' = [ipc EXCEPT ![i] = "insert"]
  /\ UNCHANGED <<runtimeVars, cache, snap, req, published, late>>

CapOf(s) == CHOOSE n \in {c.cap : c \in s.config} : TRUE

HasRoom(i) == Cardinality(DOMAIN cache) < CapOf(snap[i])

\* Reject-on-full: at capacity the chain is used but not memoised.
Insert(i) ==
  /\ ipc[i] = "insert"
  /\ IF HasRoom(i)
     THEN /\ cache' = [k \in DOMAIN cache \cup {KeyOf(req[i])} |->
                         IF k = KeyOf(req[i]) THEN chain[i] ELSE cache[k]]
          /\ late' = IF <<snap[i].plugins, snap[i].config>> = <<runtime.plugins, runtime.config>>
                     THEN late \ {KeyOf(req[i])} ELSE late \cup {KeyOf(req[i])}
     ELSE UNCHANGED <<cache, late>>
  /\ ipc' = [ipc EXCEPT ![i] = "done"]
  /\ UNCHANGED <<runtimeVars, snap, req, chain, published>>

Invocation(i) ==
  \/ \E r \in Request : Start(i, r)
  \/ LookupHit(i) \/ LookupMiss(i) \/ Resolve(i) \/ Insert(i)

StoreSnapshot(m) ==
  /\ Store(m)
  /\ published' = published \cup {runtime'}
  /\ UNCHANGED <<cache, ipc, snap, req, chain, late>>

\* Fault: a mutation returns without clearing the cache.
KeepRoutingCache(m) == Clear(m) /\ UNCHANGED cacheVars

ClearRoutingCache(m) ==
  /\ Clear(m)
  /\ cache' = <<>>
  /\ late' = {}
  /\ UNCHANGED <<ipc, snap, req, chain, published>>

MutatorStep(m) ==
  \/ (Mutate(m) \/ Bump(m)) /\ UNCHANGED cacheVars
  \/ StoreSnapshot(m)
  \/ ClearRoutingCache(m)

Next == (\E m \in Mutator : MutatorStep(m)) \/ (\E i \in Invoker : Invocation(i))

Spec == Init /\ [][Next]_vars
-----------------------------------------------------------------------------
\* What a snapshot gives a request with these tags, whatever the cache holds.
Answers(s, r, tags) ==
  IF IsAnnotated(s, r) THEN {Orchestrator}
  ELSE IF ~Routed(s, r) THEN {AllEntries(s.plugins)}
  ELSE Resolution(s.plugins, s.config, [r EXCEPT !.tags = tags])

Tags == UNION {r.tags : r \in Request}

\* An invocation never runs a mixture of two snapshots: its chain is what one
\* published snapshot gives its route (manager.rs 939-993, 1293-1480).
OneSnapshotPerChain ==
  \A i \in Invoker : ipc[i] = "done" =>
    \E s \in published, t \in SUBSET Tags : chain[i] \in Answers(s, req[i], t)

\* An annotated route is answered by its orchestrator alone, even where the
\* cache holds a chain from before the annotation, which annotate_route does
\* not clear (manager.rs 1232-1260, 1308-1337).
AnnotationTakesOver ==
  \A i \in Invoker : ipc[i] = "done" /\ IsAnnotated(snap[i], req[i]) => chain[i] = Orchestrator

\* What an invocation runs is one snapshot's answer to its request.
ChainOfRecord == OneSnapshotPerChain /\ AnnotationTakesOver

\* The cache never outgrows the largest capacity a config gave it, whatever
\* invocations insert at the same time (manager.rs 1450-1469).
CacheWithinCapacity ==
  cache # <<>> => \E s \in published : \E c \in s.config : Cardinality(DOMAIN cache) <= c.cap

\* Once a mutation has returned, the only chains the cache may hold of an older
\* snapshot are those an invocation that began before it inserted afterwards
\* (manager.rs 480-509, 1450-1469, 1767-1774).
OnlyLateInsertsStale ==
  (\A m \in Mutator : pc[m] = "idle") =>
    \A k \in DOMAIN cache \ late : \E t \in SUBSET Tags :
      cache[k] \in Resolution(runtime.plugins, runtime.config,
                              [type |-> k.type, name |-> k.name, scope |-> k.scope,
                               hook |-> k.hook, tags |-> t])

\* The cache is bounded, and current but for late inserts.
CacheSound == CacheWithinCapacity /\ OnlyLateInsertsStale
-----------------------------------------------------------------------------
\* "Populated on first access, invalidated on config reload" (manager.rs:223).
\* With no call in progress, every cached chain is of the current snapshot.
ReloadInvalidates ==
  (\A m \in Mutator : pc[m] = "idle") /\ (\A i \in Invoker : ipc[i] \in {"idle", "done"}) =>
    \A k \in DOMAIN cache : \E t \in SUBSET Tags :
      cache[k] \in Resolution(runtime.plugins, runtime.config,
                              [type |-> k.type, name |-> k.name, scope |-> k.scope,
                               hook |-> k.hook, tags |-> t])

\* "own the snapshot for the rest of the call so a concurrent
\* register/load_config swapping in a new snapshot doesn't change our view
\* mid-pipeline" (manager.rs:946).
OwnSnapshotThroughout ==
  \A i \in Invoker : ipc[i] = "done" =>
    \E t \in SUBSET Tags : chain[i] \in Answers(snap[i], req[i], t)

\* "a host-injected runtime tag joins a group the same way when its name matches
\* a group" (docs/content/docs/configuration.md:135): under one loaded config
\* the tags of a request bring in the groups they name.
RuntimeTagsCount ==
  \A i \in Invoker : ipc[i] = "done" /\ made = 1 =>
    chain[i] \in Answers(snap[i], req[i], req[i].tags)
=============================================================================
