------------------------------ MODULE Runtime ------------------------------
(***************************************************************************)
(* The runtime snapshot of a PluginManager and the calls that replace it.  *)
(* Readers load the snapshot in one atomic step.  A mutation loads it,     *)
(* changes a copy, stores the copy, bumps the config generation and, for   *)
(* some calls, clears the route cache: four steps with no lock around      *)
(* them.  A mutation that fails publishes nothing.                         *)
(*                                                                         *)
(* A snapshot holds the registered plugins (0 for none, otherwise the      *)
(* number of the mutation that made the instance), the loaded config, an   *)
(* Option, and the annotated route keys.  load_config_yaml is a            *)
(* load_config followed by an annotate_route of the same caller for every  *)
(* route a visitor takes over.                                             *)
(***************************************************************************)
EXTENDS Naturals, FiniteSets

CONSTANTS Mutator, Plugin, Configs, AnnotationKey, Declared(_), MaxMutations

ASSUME RuntimeAssumption ==
  /\ MaxMutations \in Nat
  /\ \A c \in Configs : Declared(c) \subseteq Plugin

VARIABLES
  runtime,     \* the published snapshot
  generation,  \* config_generation
  pc,          \* what each mutator does next
  next,        \* the copy it will store
  clears,      \* whether it ends by clearing the route cache
  made,        \* mutations begun
  adds,        \* history: the plugins it registers and nobody unregistered since
  acked        \* history: such plugins whose registration returned

runtimeVars == <<runtime, generation, pc, next, clears, made, adds, acked>>

Snapshot ==
  [plugins: [Plugin -> 0..MaxMutations], config: SUBSET Configs, annotated: SUBSET AnnotationKey]

Empty == [plugins |-> [p \in Plugin |-> 0], config |-> {}, annotated |-> {}]

RuntimeInit ==
  /\ runtime = Empty
  /\ generation = 0
  /\ pc = [m \in Mutator |-> "idle"]
  /\ next = [m \in Mutator |-> Empty]
  /\ clears = [m \in Mutator |-> FALSE]
  /\ made = 0
  /\ adds = [m \in Mutator |-> {}]
  /\ acked = {}

\* The mutator loads the snapshot and changes its copy.
Begin(m, copy, clear) ==
  /\ pc[m] = "idle"
  /\ made < MaxMutations
  /\ made' = made + 1
  /\ next' = [next EXCEPT ![m] = copy]
  /\ clears' = [clears EXCEPT ![m] = clear]
  /\ pc' = [pc EXCEPT ![m] = "store"]
  /\ UNCHANGED <<runtime, generation>>

\* load_config: instantiate the declared plugins into a copy of the registry,
\* which refuses a name it already holds; annotations start afresh.
LoadConfig(m, c) ==
  /\ \A p \in Declared(c) : runtime.plugins[p] = 0
  /\ Begin(m, [plugins |-> [p \in Plugin |-> IF p \in Declared(c) THEN made + 1
                                             ELSE runtime.plugins[p]],
               config |-> {c}, annotated |-> {}], TRUE)
  /\ adds' = [adds EXCEPT ![m] = Declared(c)]
  /\ UNCHANGED acked

\* register_handler, register_handler_for_names, register_raw
Register(m, p) ==
  /\ runtime.plugins[p] = 0
  /\ Begin(m, [runtime EXCEPT !.plugins[p] = made + 1], TRUE)
  /\ adds' = [adds EXCEPT ![m] = {p}]
  /\ UNCHANGED acked

\* unregister publishes a snapshot even when it removes nothing.
Unregister(m, p) ==
  /\ Begin(m, [runtime EXCEPT !.plugins[p] = 0], runtime.plugins[p] # 0)
  /\ adds' = [n \in Mutator |-> IF n = m THEN {} ELSE adds[n] \ {p}]
  /\ acked' = acked \ {p}

AnnotateRoute(m, k) ==
  /\ Begin(m, [runtime EXCEPT !.annotated = @ \cup {k}], FALSE)
  /\ adds' = [adds EXCEPT ![m] = {}]
  /\ UNCHANGED acked

RemoveRouteAnnotation(m, k) ==
  /\ Begin(m, [runtime EXCEPT !.annotated = @ \ {k}], FALSE)
  /\ adds' = [adds EXCEPT ![m] = {}]
  /\ UNCHANGED acked

Store(m) ==
  /\ pc[m] = "store"
  /\ runtime' = next[m]
  /\ pc' = [pc EXCEPT ![m] = "bump"]
  /\ UNCHANGED <<generation, next, clears, made, adds, acked>>

Bump(m) ==
  /\ pc[m] = "bump"
  /\ generation' = generation + 1
  /\ pc' = [pc EXCEPT ![m] = IF clears[m] THEN "clear" ELSE "idle"]
  /\ UNCHANGED <<runtime, next, clears, made, adds, acked>>

\* clear_routing_cache, and the call returns.
Clear(m) ==
  /\ pc[m] = "clear"
  /\ pc' = [pc EXCEPT ![m] = "idle"]
  /\ acked' = acked \cup adds[m]
  /\ UNCHANGED <<runtime, generation, next, clears, made, adds>>

Mutate(m) ==
  \/ \E c \in Configs : LoadConfig(m, c)
  \/ \E p \in Plugin : Register(m, p) \/ Unregister(m, p)
  \/ \E k \in AnnotationKey : AnnotateRoute(m, k) \/ RemoveRouteAnnotation(m, k)

-----------------------------------------------------------------------------
RuntimeTypeOK ==
  /\ runtime \in Snapshot
  /\ generation \in Nat
  /\ pc \in [Mutator -> {"idle", "store", "bump", "clear"}]
  /\ next \in [Mutator -> Snapshot]
  /\ clears \in [Mutator -> BOOLEAN]
  /\ made \in 0..MaxMutations
  /\ adds \in [Mutator -> SUBSET Plugin]
  /\ acked \subseteq Plugin

\* "Concurrent readers continue using the old snapshot; subsequent readers see
\* the new one" (manager.rs:385): a plugin whose registration returned, and that
\* nobody has unregistered, is in the snapshot a reader loads.
RegistrationKept == \A p \in acked : runtime.plugins[p] # 0
=============================================================================
