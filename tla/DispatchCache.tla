--------------------------- MODULE DispatchCache ---------------------------
(***************************************************************************)
(* The dispatch-plan cache of apl-cpex over the manager's runtime: a plan  *)
(* is tagged with the config generation read before it was built, and is   *)
(* used as long as the generation does not move.  A build loads the        *)
(* snapshot once for every plugin the route names, with an await between,  *)
(* so mutations and other builders run in the middle of it.  A plan is     *)
(* abstracted to the instance it holds for each plugin, 0 for none.        *)
(*                                                                         *)
(* The cache is keyed by route and survives a reload, which gives the      *)
(* route a new handler; requests under way still call the old one.  A      *)
(* caller is any handler of the route, and a plan is built from the        *)
(* compiled route and the registry that the caller captured.  `Fallible`   *)
(* are the plugins it overrides the config of: building their instance may *)
(* fail, and the plan then has none.                                       *)
(***************************************************************************)
EXTENDS Runtime

CONSTANTS Builder, Route, Handler, KeyOf(_), Names(_), Fallible(_)

ASSUME DispatchAssumption == \A h \in Handler : KeyOf(h) \in Route /\ Names(h) \subseteq Plugin

VARIABLES
  plans,   \* the cache: an Option of [gen, entries] per route; maker is history
  bpc,     \* what each caller of get_or_build does next
  handler, \* the handler it is called by
  seenGen, \* the generation it read
  todo,    \* the plugins it has still to resolve
  entries, \* the plan it has, in part or in whole
  maker,   \* history: the handler that plan was built for
  since,   \* history: snapshots current since the last bump
  valid    \* history: snapshots current since the caller's generation began

dispatchVars == <<plans, bpc, handler, seenGen, todo, entries, maker, since, valid>>

vars == <<runtimeVars, dispatchVars>>

Plan == [Plugin -> 0..MaxMutations]

NoPlan == [p \in Plugin |-> 0]

Init ==
  /\ RuntimeInit
  /\ plans = [r \in Route |-> {}]
  /\ bpc = [b \in Builder |-> "idle"]
  /\ handler \in [Builder -> Handler] /\ maker = handler
  /\ seenGen = [b \in Builder |-> 0]
  /\ todo = [b \in Builder |-> {}]
  /\ entries = [b \in Builder |-> NoPlan]
  /\ since = {Empty}
  /\ valid = [b \in Builder |-> {Empty}]

\* get_or_build starts by reading the generation.
ReadGeneration(b, h) ==
  /\ bpc[b] \in {"idle", "done"}
  /\ bpc' = [bpc EXCEPT ![b] = "lookup"]
  /\ handler' = [handler EXCEPT ![b] = h]
  /\ maker' = [maker EXCEPT ![b] = h]
  /\ seenGen' = [seenGen EXCEPT ![b] = generation]
  /\ valid' = [valid EXCEPT ![b] = since]
  /\ entries' = [entries EXCEPT ![b] = NoPlan]
  /\ UNCHANGED <<runtimeVars, plans, todo, since>>

\* The read-locked fast path: a cached plan of the generation read.
Hit(b) ==
  /\ bpc[b] = "lookup"
  /\ \E plan \in plans[KeyOf(handler[b])] :
       /\ plan.gen = seenGen[b]
       /\ entries' = [entries EXCEPT ![b] = plan.entries]
       /\ maker' = [maker EXCEPT ![b] = plan.maker]
  /\ bpc' = [bpc EXCEPT ![b] = "done"]
  /\ UNCHANGED <<runtimeVars, plans, handler, seenGen, todo, since, valid>>

Miss(b) ==
  /\ bpc[b] = "lookup"
  /\ \A plan \in plans[KeyOf(handler[b])] : plan.gen # seenGen[b]
  /\ bpc' = [bpc EXCEPT ![b] = "build"]
  /\ todo' = [todo EXCEPT ![b] = Names(handler[b])]
  /\ UNCHANGED <<runtimeVars, plans, handler, seenGen, entries, maker, since, valid>>

\* One turn of RouteDispatchPlan::build: build_override_entries loads the
\* snapshot and takes the plugin's entries, or finds or builds none.
BuildOne(b, p) ==
  /\ bpc[b] = "build"
  /\ p \in todo[b]
  /\ todo' = [todo EXCEPT ![b] = @ \ {p}]
  /\ \E e \in {runtime.plugins[p]} \cup (IF p \in Fallible(handler[b]) THEN {0} ELSE {}) :
       entries' = [entries EXCEPT ![b][p] = e]
  /\ UNCHANGED <<runtimeVars, plans, bpc, handler, seenGen, maker, since, valid>>

\* Fault: the plan is tagged with the generation at the time of the insert.
InsertLateTag(b) ==
  /\ bpc[b] = "build"
  /\ todo[b] = {}
  /\ plans' = [plans EXCEPT ![KeyOf(handler[b])] = {[gen |-> generation, entries |-> entries[b],
                                                        maker |-> handler[b]]}]
  /\ bpc' = [bpc EXCEPT ![b] = "done"]
  /\ UNCHANGED <<runtimeVars, handler, seenGen, todo, entries, maker, since, valid>>

\* The plan is stored under the generation read before the build.
Insert(b) ==
  /\ bpc[b] = "build"
  /\ todo[b] = {}
  /\ plans' = [plans EXCEPT ![KeyOf(handler[b])] = {[gen |-> seenGen[b], entries |-> entries[b],
                                                        maker |-> handler[b]]}]
  /\ bpc' = [bpc EXCEPT ![b] = "done"]
  /\ UNCHANGED <<runtimeVars, handler, seenGen, todo, entries, maker, since, valid>>

GetOrBuild(b) ==
  \/ \E h \in Handler : ReadGeneration(b, h)
  \/ Hit(b) \/ Miss(b) \/ Insert(b)
  \/ \E p \in Plugin : BuildOne(b, p)

\* The mutators' steps, and what they add to the histories.
BeginMutation(m) == Mutate(m) /\ UNCHANGED dispatchVars

StoreSnapshot(m) ==
  /\ Store(m)
  /\ since' = since \cup {runtime'}
  /\ valid' = [b \in Builder |-> valid[b] \cup {runtime'}]
  /\ UNCHANGED <<plans, bpc, handler, seenGen, todo, entries, maker>>

BumpGeneration(m) ==
  /\ Bump(m)
  /\ since' = {runtime}
  /\ UNCHANGED <<plans, bpc, handler, seenGen, todo, entries, maker, valid>>

EndMutation(m) == Clear(m) /\ UNCHANGED dispatchVars

MutatorStep(m) == BeginMutation(m) \/ StoreSnapshot(m) \/ BumpGeneration(m) \/ EndMutation(m)

Next == (\E m \in Mutator : MutatorStep(m)) \/ (\E b \in Builder : GetOrBuild(b))

Spec == Init /\ [][Next]_vars
-----------------------------------------------------------------------------
\* May a plan for handler h hold entry e for plugin p under snapshot s?
Gives(h, s, p, e) == e = s.plugins[p] \/ (p \in Fallible(h) /\ e = 0)

\* Types of the runtime (manager.rs 152-194) and of the cache with its callers
\* (dispatch_plan.rs 489-533).
TypeOK ==
  /\ RuntimeTypeOK
  /\ plans \in [Route -> SUBSET [gen: Nat, entries: Plan, maker: Handler]]
  /\ bpc \in [Builder -> {"idle", "lookup", "build", "done"}]
  /\ handler \in [Builder -> Handler] /\ maker \in [Builder -> Handler]
  /\ seenGen \in [Builder -> Nat]
  /\ todo \in [Builder -> SUBSET Plugin]
  /\ entries \in [Builder -> Plan]
  /\ since \in SUBSET Snapshot
  /\ valid \in [Builder -> SUBSET Snapshot]

\* A plan tagged with the current generation holds the instances the current
\* snapshot gives the handler it was built for, unless a mutation is between its store
\* and its bump (manager.rs 388-401, dispatch_plan.rs 513-532): however slow its
\* builder was, an instance that is gone is never taken for a current one.
CurrentPlanIsFresh ==
  \A r \in Route : \A plan \in plans[r] :
    plan.gen = generation /\ (\A m \in Mutator : pc[m] # "bump")
      => \A p \in Names(plan.maker) : Gives(plan.maker, runtime, p, plan.entries[p])

\* get_or_build never answers with an instance that was gone before it was
\* called: each plugin of the plan it returns is as in a snapshot that was
\* current since the last mutation that had returned by then, and the plan is one
\* for a handler of the caller's route (dispatch_plan.rs 513-532).
AnswerSinceCall ==
  \A b \in Builder : bpc[b] = "done" =>
    /\ KeyOf(maker[b]) = KeyOf(handler[b])
    /\ \A p \in Names(maker[b]) : \E s \in valid[b] : Gives(maker[b], s, p, entries[b][p])

\* Neither the cache nor a caller ends with instances older than its tag or its call.
PlansFresh == CurrentPlanIsFresh /\ AnswerSinceCall

\* "both produce identical plans and the second insert just overwrites the first"
\* (dispatch_plan.rs 504-505): not so after a reload that changes the route.  A
\* request that still runs the old handler files the old route's plan under the new
\* generation, and the new handler is answered with it.
OwnPlan == \A b \in Builder : bpc[b] = "done" => maker[b] = handler[b]
=============================================================================
