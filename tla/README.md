# A TLA+ model of the CPEX plugin framework

CPEX runs chains of plugins around the calls of an agent gateway: a host loads
a configuration, resolves which plugins and which policy apply to an entity,
and runs them in phases that may allow, deny or rewrite a message. This
directory models the parts of it that keep state, checks them with TLC and
proves the central ones with TLAPS. Line numbers in the modules refer to the
files named in `PROJECT.json`, which also lists every component, hazard, run,
mutant and theorem.

    tlc -workers 2 -config MCExecutor.cfg MCExecutor
    tlapm TaskProofs.tla

## The system

| Part | Source | Here |
| --- | --- | --- |
| Branch groups (`run_branches`) | `cpex-orchestration` | `Branches`, `BranchGroup`, `Orchestration` |
| Five-phase executor, breakers, contexts | `cpex-core` `executor.rs`, `registry.rs`, `context.rs` | `Executor` |
| Extensions: capability filter and merge | `cpex-core` `extensions/`, `cpex-hosts-python` | `Extensions`, `ExtensionChain` |
| Delegated tokens | `apl-cpex`, `builtins/`, `cpex-hosts-python` | `TokenExchange` |
| Route matching and layering | `cpex-core` `config.rs` | `Routing`, `RouteResolution` |
| Runtime snapshots and mutations | `cpex-core` `manager.rs` | `Runtime` |
| Route cache | `cpex-core` `manager.rs` | `RouteCache` |
| Dispatch plan cache | `apl-cpex` `dispatch_plan.rs` | `DispatchCache` |
| initialize and shutdown | `cpex-core` `manager.rs` | `Lifecycle` |
| Policy language: predicates, steps, pipelines, effects | `apl-core` | `Predicates`, `PolicyText`, `Pipelines`, `Effects` |
| Layers, reloads, route handler | `apl-cpex` | `Policy` |
| Decision points (Cedar, CEL, OPA) | `apl-cpex`, `builtins/pdps` | `DecisionPoints` |
| Sessions, approvals, retried calls | `apl-cpex`, Valkey store, `elicitation-ciba` | `SessionStores`, `CibaApprover`, `Requests` |
| JWT identity and key refresh | `builtins/` identity-jwt | `JwtIdentity` |
| Python plugin host | `cpex-hosts-python` | `WorkerClient`, `PythonPlugin`, `VenvCache` |
| C interface, Go and Python bindings | `cpex-ffi`, `go/cpex`, `bindings/python` | `CpexFfi`, `GoManager`, `Bindings` |

An invocation (`invoke_by_name`) loads the current snapshot of the runtime,
asks the route cache for the chain of the request's entity, resolving and
inserting it on a miss, and hands the entries to the executor. The executor
groups them by mode, leaves out plugins whose circuit breaker has tripped, and
runs SEQUENTIAL and TRANSFORM plugins one after the other, AUDIT plugins one
after the other without a right to block, CONCURRENT plugins through
`run_branches`, and FIRE_AND_FORGET plugins as background tasks. Each plugin
sees extensions filtered by its capabilities, and what it returns is merged
back slot by slot. A plugin may live in a Python worker, which adds a process
that dies and is respawned, a virtual environment shared by plugins, and a
second encoding of the extensions. Mutators replace the snapshot, bump the
generation and clear the route cache, with no lock across the three.

A route with a policy is handled by one plugin, the route handler: it loads the
session's labels, evaluates the compiled policy (rules, pipelines, decision
points, delegations, approvals, parallel blocks), stores new labels and folds
constraints into the answer. Policies are compiled from layers when a
configuration is loaded. The bindings hold the manager, its context tables and
its background tasks through handles.

## Modules

**Branches, BranchGroup, Orchestration.** `Branches` holds the outcomes of a
branch and `Promise`, what a caller may rely on. `BranchGroup` is the abstract
specification: branches settle once each, and the group is returned when all
have. `Orchestration` is the code: the spawn loop (`Spawn`), tasks that end
with a value, a panic, a timeout or a cancellation (`TaskEnds`), one turn of
the join loop (`Join`, with the abort on the first denial) and the final
collection (`Return`). tokio's JoinSet hands out ended tasks in any order; a
task that has ended before it is cancelled keeps its outcome.

**Executor.** Requests invoke hooks (`Invoke`); a serial plugin continues,
halts or panics (`SerialContinues`, `SerialHalts`, `SerialPanics`), an audit
plugin answers (`Audit`), the concurrent phase is `Concurrent`, and background
tasks are started by `SpawnFireAndForget` and end in `BackgroundEnds`. A
payload is the sequence of plugins whose modification was accepted, so "who saw
what" is visible. A handler answers with independent `continue`, `violation`,
`payload` and `ext` fields, fails (an error and a timeout take the same path),
returns the wrong type, or panics. The concurrent phase is one step that takes
any vector of outcomes allowed by `Promise`: that is what `Orchestration` is
proved to deliver, so the two compose without their interleavings.
`group_by_mode` reads the breakers one by one in the code and in one step here;
a breaker only ever trips, and one that trips during the grouping gives the
same result as one that trips just before or after it.

**Extensions, ExtensionChain.** `Extensions` translates the slot policies, the
filter and the merge over one representative slot per kind (the read-only
slots that are treated alike are one). `ExtensionChain` lets plugins with
varying capabilities, one after the other, return what they were shown with one
slot edited or left out, in the process or over a worker's wire format; an edit
of several slots is several steps. Raw credentials are shared with the host, so
a plugin hands back those it was shown, or none.

**TokenExchange.** The delegate steps of one request: the credential that is
presented (`Delegate`), the exchange with a provider or the attenuation of a
Biscuit and their failures (`MintBaseToken`, `Exchange`, `Attenuate`,
`IdpFails`, ...), and what is filed and told to the policy
(`ApplyToExtensions`). A token is the principals, audience and permissions it
was minted for; `BuildDelegated` is what a Python worker is sent. A delegator
whose handler times out or is disabled is lost (`PluginLost`): its plugin's own
`on_error` denies the step or lets it pass without a token.

**Routing, RouteResolution.** `Routing` has the pure functions: matching with
specificity scores, `when` clauses, static and runtime tags, layering of
plugins and of authentication steps. `RouteResolution` applies them to one
configuration and request at a time and compares them with reference
definitions that say what is wanted without scores or loops.

**Runtime, DispatchCache, RouteCache.** `Runtime` is the snapshot with its
generation: a mutation loads it, prepares the next one (`LoadConfig`,
`Register`, `Unregister`, `AnnotateRoute`, `RemoveRouteAnnotation`), then
stores, bumps and clears in separate steps. `DispatchCache` adds callers of
`get_or_build`, which read the generation, look up, resolve plugin after plugin
from whatever snapshot is current, and insert under the tag read first. The cache
is keyed by route and outlives reloads, so a caller is one of several handlers of
a route, each with the plugins its own compiled route names.
`RouteCache` adds invocations: annotation takeover, lookup, resolution and
bounded insertion. Both compose with `Runtime` by extending it. Release and
acquire pairs are taken as sequentially consistent. `load_config_yaml` is
`LoadConfig` followed by annotations of the same caller. Plugin conditions, a
pure filter of the entries, are left out.

**Lifecycle.** `initialize` with its rollback and `shutdown` with its drain,
one plugin per step, by several callers. The registry is a hash map, so plugins
are visited in any order. The TaskTracker is external and is modelled from its
use: a wait ends when the tracker is closed and empty, or was at some moment
since the wait began. No invocation is made after a shutdown has returned, as
the documentation of `shutdown` asks.

**Predicates, PolicyText, Pipelines, Effects, Policy.** `Predicates` is the
recursive-descent parser over tokens and the evaluation over a typed attribute
bag, beside a grammar that says which trees a text has. `PolicyText` compiles
entries into steps and steps into effects, with the check that keeps writers
out of parallel blocks. `Pipelines` runs the stages of a field; characters are
abstracted to how many are still the caller's. `Effects` evaluates effects one
after the other or as branches of a parallel block, in every order in which the
branches may read and write the invoker's shared state; a branch whose plugin
panics is dropped, with what it was told. Lists of models in a `restrict` hold
patterns: they are folded as text, and `Accepts` says which backends a fold
leaves. `Policy` composes them:
sections of a document are visited in order, layers accumulate, handlers are
compiled and installed one by one, a load may fail half way, and a request is
decided in a world that fixes what plugins, decision points and delegators
answer.

**DecisionPoints.** Registration by dialect, first one wins; calls that look up
a compiled program, compile it, insert it into a bounded cache shared with
other calls, evaluate it, or fall back to `on_error`.

**SessionStores, CibaApprover, Requests.** The session store is in memory or a
server whose commands may fail, run after their client gave up, or meet an
expired key. A session key is the digest of ids joined by colons, and the ids
may hold colons themselves: an id is a sequence of parts, a key their
concatenation, and the digest is taken to be injective. The approver is the
elicitation plugin with its table of correlations per node (whom the approval was
opened for, and who the provider says gave it) and an external provider that
answers an approval once. `Requests` composes them: calls are hydrated, suspended
for an approval, retried with its id, peeked at, validated, persisted and
delivered, while nodes restart. A retry may bring the id of any approval its
agent was told of, that of another step or another route included.

**JwtIdentity.** `initialize` with its fetches, one refresh task per issuer and
its timer, a provider that rotates keys and goes down, requests that pass a
chain of resolvers, and drop. A resolver's configured issuers are two lists, those
with their key in the configuration and those with a JWKS, as `new` splits them.

**WorkerClient, PythonPlugin.** The client's pending table, the writer and
reader tasks, timeouts, oversized frames, end of file and teardown; around it
the plugin's worker slot, the respawn lock with its budget, the handshake and
shutdown. The process is external: it answers, answers late, exits. The window
of time that gives the budget back is a step that may happen. The executor's own
timeout may drop an invocation wherever it awaits (`Abandon`); the respawn lock
and a process that is not installed yet go with it, the entry in the table does
not.

**VenvCache.** `ensure` and `release` over the directory, the metadata files
and the registry of owners, with edited declarations, failing steps and a crash
between any two steps; running pip is one external step. `shutdown` waits for
tracked tasks but not for invocations, so it may overlap a respawn that builds or
claims. Not modelled is what a respawn leaves running that the executor's timeout
drops: a pip without a parent, or a write on the blocking pool.

**CpexFfi, GoManager, Bindings.** `CpexFfi` is the heap of boxes behind the C
interface and the entry points that make, consume and free them. `GoManager`
holds handles in Go objects under an RWMutex, with finalizers for context tables
only: a host is taken to wait for or close the background tasks it is given.
`Bindings` adds the Python manager, whose calls keep a reference and whose
timed-out calls leave a task behind.

Definitions marked "Fault" are wrong variants of the definition that follows
them. Nothing uses them; they serve to see that a property notices the mistake.

`MCSharedPlugins`, `MCExtensionChain`, `MCDispatchCache` and `MCPythonPlugin`
instantiate two components that share no state. A behaviour is of one of them,
chosen at the start; the other stays in its initial state.

## Runs

| Run | Instance | States | Checks |
| --- | --- | --- | --- |
| `orchestration` | 3 branches, allow or deny | 2,676 | `ReturnedAsPromised`, `ImplementsBranchGroup`, `GroupEnds` |
| `executor` | 1 request, 3 plugins, all modes, 4 error-policy assignments, 7 answers | 93,981 | `VerdictJustified`, `FailuresAccounted`, `PayloadHandedOn`, `InvocationEnds` |
| `executor_shared` | 2 requests of 2 hooks, 2 plugins; or 2 resolvers, 3 key sets, 1 rotation | 114,868 | `CarriedOver`; `TokensVerified`, `RefreshSettles` |
| `extension_chain` | 7 capability sets, 2 delegation hops; or 2 delegate steps | 26,779 | `ViewsHarmless`, `EditsAlikeFromWorkers`, `TierRespected`; `TokensOfPrincipal`, `GrantsHonest` |
| `route_resolution` | 8,000 triples of routes and 270 layered configurations, 9 requests | 74,630 | `MostSpecificWins`, `LayersStack` |
| `dispatch_cache` | 2 mutators, 2 builders, 2 handlers of a route, 2 plugins, 2 mutations; or 2 clients of 3 decision points, 5 asks | 1,437,577 | `PlansFresh`; `DecisionsSound` |
| `route_cache` | 1 mutator, 2 invocations, 2 configurations, 2 mutations | 475,798 | `ChainOfRecord`, `CacheSound` |
| `lifecycle` | 2 callers, 2 plugins, 3 calls, 3 tasks | 152,370 | `RollbackComplete`, `DrainedBeforeTeardown`, `ShutdownReachesAll`, `CallsReturn` |
| `python_worker` | 2 callers, 2 workers, 2 calls, budget 1; or 2 plugins, 1 edit, 1 fault | 578,588 | `ResponsesMatched`, `WorkerReplaced`, `InvocationsReturn`; `VenvKept`, `ReadyIsInstalled` |
| `policy` | texts of up to 9 tokens; policies of 2 steps and parallel blocks of 2 branches in every world; 1 reload | 288,594 | `ParserAgrees`, `ParallelLikeSequential`, `VerdictsStand`, `LayersComplete` |
| `requests` | 2 calls, 2 nodes, 2 approvers, shared store with expiry, 1 fault | 166,174 | `ApprovalsCount`, `CarriedFaithfully`, `CallsEnd` |
| `bindings` | 2 callers, 3 boxes, Go or Python | 27,872 | `HandlesAccounted`, `ShutdownWaits`, `CallsReturn` |

What they show, in a sentence each, is in `PROJECT.json`.

Why the bounds are enough. Three branches are a denial, a branch that ended
before the abort and one that did not. Three plugins are a plugin before, at
and after the one that objects, in every combination of phases. Two requests
and two hooks are the least for a breaker tripped by one and met by the other,
before and after. One rotation with an outage gives a store that lags, one that
is empty and one that has caught up. Two hops and two authorities separate an
extended chain from a rewritten one; two delegate steps are a token and what
the next step makes of it. Three routes are a winner, a tie and a loser. Two
mutations and two builders let a builder straddle a mutation and a second one
use what it left. Two clients of a decision point with a cache of one entry
meet it empty, full and filled by the other. Two lifecycle callers overlap in
every way, and three calls are an initialisation, another one beside it, and a
shutdown. Two workers are the one that died and its replacement, and two
callers race for the respawn. Two plugins of one package are an owner and a
co-owner of the environment; one edit and one fault are a declaration that
moved on and a step that failed. Two steps of a policy are one that decides and
one that must, or must not, run after it. Two calls are two of one agent, which
share a session, or of two, which must not; two approvers are the one a step
asks for and another. Three boxes are a table, tasks and one more that a wrong
handle could reach; two invocations that both make boxes would need a fourth, and
never overlap in the run. `HandlesOwned` below has no such bound.

`MaxHooks`, `MaxHops`, `MaxMutations`, `MaxCalls`, `MaxTasks`, `MaxRotations`,
`MaxInits`, `MaxWorkers`, `MaxEdits`, `MaxFaults`, `MaxIds` and `MaxBoxes`
bound what is unbounded in the code; each appears in a guard only.
`route_cache` has one mutator because two lose updates (`RegistrationKept`
below), which would make every other property fail for that reason.
`dispatch_cache` and `route_cache` use symmetry, of callers that are alike, in
runs without liveness. `python_worker` has liveness, so instead `InTurn` fixes
which of the two callers, which are alike, makes the first call. Its `Met` lets a
shutdown meet one respawn, with neither a fault nor an edit before it: past that
point the properties of the environment claim little, and the states are many.
`dispatch_cache` has a VIEW that leaves out the handler and the generation of a
caller that has its answer, which no step reads.
`extension_chain` has a VIEW that leaves out the variable `by`, which records
who made the last edit and which no action reads.

Deadlock is not checked where the system may stop: a group that has returned, a
request, a manager or a worker with all its calls made.

## Fairness

`Orchestration`: the join loop runs, a cancelled task is dropped at its next
await, a configured timer fires. Nothing is assumed of a branch without a
timer. `Executor`: an invocation is polled and its handlers answer or time out.
`Lifecycle`: a call is polled, plugins answer it, tasks end, and finitely many
tasks are spawned. `JwtIdentity`: each refresh task is polled and its timer
fires; the provider owes nothing, and convergence is claimed for the time after
it rests. `PythonPlugin`: invocations are polled and their timers fire; the
worker may hang for ever. `Requests`: a call is polled, a suspended caller
retries, the human answers. `Bindings`: strong fairness of each goroutine's
steps, since Go's RWMutex lets a waiting writer and waiting readers through in
turn; in Python only the timeout is fair. No fairness is assumed of callers,
mutators, faults or restarts.

## Statements the code does not meet

While modelling, these statements of comments, documents and obvious
expectations turned out not to hold. Each is a definition of the model. To see
the counterexample, put the definition in place of the properties of the
configuration, with the changes named.

| Definition | In | Statement | The code |
| --- | --- | --- | --- |
| `LocalStatePersists` | `MCSharedPlugins` | local state persists across hooks | a denial loses it |
| `StopRequestHalts` | `MCExecutor` | `continue_processing = false` halts (`hooks/trait_def.rs:173`) | only with a violation in the serial phase |
| `FailingTaskIsDisabled` | `MCSharedPlugins` | `disable` takes a failing background plugin out (`executor.rs:721`) | tasks leave the breaker alone |
| `BackgroundErrorsDelivered` | `MCSharedPlugins` | background errors are delivered on wait (`executor.rs:399`) | only panics are |
| `AppendedLabelKept` | `MCExtensionChain` (1) | a hidden label is not a removal (`executor.rs:550`) | the append of a plugin without `read_labels` is dropped |
| `RawCredentialsOwnedByFramework` | `MCExtensionChain` (1) | plugins never write raw credentials (`extensions/tiers.rs:32`) | a returned value is assigned |
| `ExistingHopsUnchanged` | `MCExtensionChain` (1) | existing hops are unchanged (`extensions/container.rs:386`) | some of their fields are not compared |
| `CustomWriteAlone` | `MCExtensionChain` (2) | a worker's `custom` write brings nothing along (`cpex-hosts-python` `extensions.rs:397`) | filtered slots come along |
| `GrantedHasToken` | `MCExtensionChain` (2) | granted is set after a successful delegate step (`step.rs:927`) | also after one whose delegator was lost and skipped, without a token |
| `GrantedIsLatest` | `MCExtensionChain` (2) | no grant when the latest step denied (`step.rs:930`) | an earlier grant stays |
| `KeyTellsApart` | `MCExtensionChain` (2) | a cache key tells two token requests apart (`raw_credentials.rs:284`) | tokens for a client or workload and tokens with it as the actor can share a key |
| `ModeOfSubject` | `MCExtensionChain` (2) | the mode is derived from the subject (`delegation_invoker.rs:122`) | the Biscuit delegator files every token as on behalf of the user |
| `StablePick` | `MCExtensionChain` (2) | the same request picks the same token (`credentials.rs:348`) | ties are in map order |
| `FallsBackWithoutHeaders` | `MCSharedPlugins` (3) | raw token only without a header map (`resolver.rs:415`) | also when the header is missing |
| `ListImmutable` | `MCSharedPlugins` (3) | the issuer list is immutable after `initialize` (`resolver.rs:451`) | a second `initialize` extends it |
| `Converges` | `MCSharedPlugins` (3), `Resolvers <- NeverRefreshed` | an outage at boot recovers by itself (`resolver.rs:276`) | not with `refresh_secs: 0` |
| `FirstMatchWins` | `MCRouteResolution` | first match wins (`docs/specs/cpex-rust-spec.md:968`) | the most specific wins |
| `RuntimeTagAuthenticates` | `MCRouteResolution` | a runtime tag joins a group (`docs/content/docs/configuration.md:135`) | not for authentication steps |
| `PriorityOrder` | `MCRouteResolution` | priority orders plugins in a hook (`docs/content/docs/configuration.md:150`) | with routing, resolution order does |
| `RegistrationKept` | `MCRouteCache`, `Mutator = {m1, m2}` | later readers see the new snapshot (`manager.rs:385`) | one of two concurrent mutations is lost |
| `OwnPlan` | `MCDispatchCache` | concurrent builders of a route make identical plans (`dispatch_plan.rs:504`) | a request under way at a reload files the old route's plan, and the new handler is given it |
| `RuntimeTagsCount` | `MCRouteCache` | runtime tags join groups (`docs/content/docs/configuration.md:135`) | the cache key leaves them out |
| `ReloadInvalidates` | `MCRouteCache` | the cache is invalidated on reload (`manager.rs:223`) | a late insert survives |
| `OwnSnapshotThroughout` | `MCRouteCache` | a call keeps its snapshot (`manager.rs:946`) | the shared cache mixes them |
| `InitializeIdempotent` | `MCLifecycle` (4) | `initialize` is idempotent (`manager.rs:822`) | not while the first call runs |
| `ReverseOrder` | `MCLifecycle` (4) | shutdown in reverse registration order (`manager.rs:880`) | in hash map order |
| `BlamesOwner` | `MCPythonPlugin` (5) | an oversized frame fails its own call (`worker.rs:710`) | the late frame of a call that gave up fails everyone |
| `NotDeadForever` | `MCPythonPlugin` (5) | the plugin does not stay dead (`plugin.rs:79`) | a failed respawn empties the slot |
| `StoppedStaysStopped` | `MCPythonPlugin` (5) | shutdown leaves no worker (`plugin.rs:883`) | a respawn may finish after it |
| `FailsFastWhenDead` | `MCPythonPlugin` (5) | a send racing the teardown fails fast (`worker.rs:685`) | it may wait for its timeout |
| `UsableVenv` | `MCPythonPlugin` (6) | `ensure` gives a usable environment (`venv.rs:498`) | metadata may outlive what it describes |
| `RollbackReleases` | `MCPythonPlugin` (6) | co-owners that are gone hold nothing (`venv.rs:601`) | a failed start keeps its claim |
| `EveryShutdownReleases` | `MCPythonPlugin` (6) | shutdown gives up the claim on the environment (`plugin.rs:894`) | a respawn under way claims it again |
| `NeverWipedUnderWorker` | `MCPythonPlugin` (6) | the environment is not wiped under a running worker (`venv.rs:518`) | a respawn that overlaps a shutdown finds no co-owner and wipes it |
| `HttpParallelLikeSequential` | `MCPolicy` | parallel blocks as one after the other | unchecked for requests without entity |
| `AllowSetsIntersect` | `MCPolicy` | allow lists intersect (`docs/content/docs/apl/restrict.md:108`) | patterns are intersected as text: two that overlap and differ leave nothing |
| `PanicRefuses` | `MCPolicy` | a gate that panics lets nothing through | in a parallel block its branch is dropped |
| `NoPolicyGap` | `MCPolicy` | a route keeps a handler during a reload | it has none for a while |
| `NoStaleLayers` | `MCPolicy` | layers no longer in the document are gone | they stay |
| `ApprovedIsNotRejected` | `MCRequests` | an approval given is not turned down | two polls at a time, a lost reply or another node |
| `StepsApproverApproved` | `MCRequests` | the approver is checked against the step's `from` (`docs/content/docs/apl/elicitation.md:82`) | against whom the approval was opened for; a retry may bring another step's |
| `SubjectsSeparate` | `MCRequests` | one subject cannot address another's session (`session_resolver.rs:101`) | ids are joined by colons, which ids may hold |
| `RetaintStored` | `MCRequests` | labels are stored when a call is let through | labels it began with are not appended again, though the session may have expired |
| `PeekDoesNotCommit` | `MCRequests` | a peek lets no call through | a route without approval steps does |
| `HandlesValid` | `MCBindings`, `Threads = {"InvokeByName", "InvokeResolved"}` | handles are valid | `InvokeResolved` keeps a table that was consumed |
| `CallsReturn` | `MCBindings`, `Blocks = TRUE` | every call returns | not when a plugin never yields |
| `DrainedByShutdown` | `MCBindings` | background tasks are drained (`bindings/python/src/manager.rs:16`) | not those of timed-out calls |

(1) without VIEW, `Label = {"l1", "l2"}`, `Auth = {"a1"}`,
`Details = {"d1", "d2"}`, `MaxHops = 1`. (2) without VIEW. (3) SPECIFICATION
`IdentitySpec`. (4) SPECIFICATION `Spec`. (5) SPECIFICATION `WorkerSpec`,
`MaxCalls = 3`, `MaxRespawnAttempts = 2`, `Handshake = FALSE`,
`Plugin = {p1}`, `MaxEdits = 0`, `MaxFaults = 0`. (6) SPECIFICATION `VenvSpec`.

The checked properties exempt exactly these cases: `GrantsHonest` the bare flag
of a skipped delegator, `PlansFresh` whose plan a caller gets after a reload,
`ResponsesMatched` the table entries of invocations the executor dropped,
`VenvKept` what follows when a shutdown meets a respawn, `VerdictsStand` a plugin
that panics in a parallel block and patterns that overlap, `ApprovalsCount` which
step of the agent an approval was opened for, `CarriedFaithfully` subjects whose
ids read alike when joined. `ParallelLikeSequential` exempts worlds in which a
plugin panics: that ends a sequence and is dropped from a block.

`MCRequests` also has an instance with one node and a store in memory:
`Node = {n1}`, `Store = "memory"`, `Ttl = FALSE`, `Scenarios <- MCOneNode`,
with the properties of the run, which hold.

## Proofs

The theorems hold for every value of the constants that meets the named
assumptions of the modules; none of them depends on the bounds above. A safety
property is seldom inductive, so each proof module first defines an inductive
invariant, shows that the initial states satisfy it and that every action
preserves it, one lemma per action, and then derives the properties from it.

**TaskProofs**, the parts that work in tasks of their own. Branch groups, for
every number of branches and set of values (`N \in Nat`; the values that deny are
values). The invariant adds to the types: only spawned branches have a task, a
slot is filled exactly when its task was joined and did not end by cancellation,
a task has an outcome exactly when it has ended, a cancellation happens only
after a joined denial under short-circuiting, and a timeout only with a timer.
What the caller sees says nothing of tasks that have ended and are not joined,
which is why it is not inductive alone. `Promised` is `ReturnedAsPromised`;
`Refinement` shows that spawning and joining are stutters of `BranchGroup` and
that the end of a task settles its branch. Identity resolvers, for any chain of
resolvers, tokens and publications (`JwtAssumption`, `TokenAssumption`): the
invariant follows keys from the provider to the slots. `InitsInv` and `KeysInv`
say of a call of `initialize` and of a refresh task which publication it may be
about to store, `ChainInv` which slots the chain has filled and from which
header, and every token in a slot was verified with a key of its issuer; since
publications are only added, that stays so while keys are rotated. `Verified` is
`TokensVerified`, and `NoKeyLost` the part of `RefreshSettles` that is not
liveness.

**ExecutorProofs**, for every set of plugins, requests and configurations and
every answer of a handler (`ExecutorAssumption`). The invariant is a
conjunction per request: an entry that waits in a group belongs there, has not
run and was not barred (`Grouped`); nothing of a later phase has run
(`Placed`); until the result nobody has objected (`Unopposed`); and the verdict,
the errors, the background tasks, the breakers, the payload chain and the
context table are what the plugins that have run so far account for (`Judged`,
`Accounted`, `Tasked`, `Tripped`, `Chained`, `Stamped`). The concurrent phase
uses `Promise` as its only knowledge of the branches. `Verdicts`, `Failures`,
`Payloads` and `Carried` are the four safety properties of the two executor runs.

**ExtensionProofs**, for any labels, headers, authorities, tokens and capability
sets and any number of hops (`HopsAssumption`). The invariant is the shape of
the container, and the work is in the lemmas about `FilterExtensions`,
`MergeOwned` and `OwnedFromReturned`: what each slot of a view, of a merge and
of a copy rebuilt from a worker's answer holds. From them follow `Views` (a view
that is handed back changes nothing), `Tiers` (each step keeps to the tier of
every slot) and `Alike` (an edit in a worker has the effect of the same edit in
the process, unless it takes something away).

**AplProofs**, the parts that serve the policy language: delegated tokens,
dispatch plans and decision points. They share no state and are proved one after
the other. Tokens, for any routes, callers and replies of the providers
(`RouteAssumption`): the invariant `TxInv` follows a token from the request to
the map, which leg a step is on, what a token that is not yet filed was minted
for (`MintInv`), under which key it is filed (`KeyInv`), and that what was
granted is held, but for the flag of a skipped delegator. `TokensRight`, `Honest` and `ReplacedOnlyByLike` follow. Plans,
for any plugins, routes, handlers, mutators, builders and mutations: the argument
is by eras. An era is the time between two bumps, and `since` the snapshots current in
it. Every plan in the cache (`CacheInv`) and every plan under construction
(`BuildInv`) is drawn from snapshots that were current since the era of its tag
began, and without a store awaiting its bump the current era has one snapshot
(`EraInv`). `Fresh` speaks of the end of a build; a build in the middle is what
the strengthening covers. Decision points, for any clients, resolvers, texts and
loads: the compile caches are within their caps and hold only texts that
compile, there is one resolver per dialect, and what a call carries from its
lookup to its evaluation is the program of its text. `DecidesRightly` and
`CachedIsServed` follow.

**LifecycleProofs**, for any callers and plugins. `Draining` says which tasks a
shutdown still owes a wait, `Reaching` which plugins it has yet to visit, `Once`
and `Balanced` count the plugins an initialisation has brought up against the
ones its rollback takes down, although other callers do the same at the same
time. `RolledBack`, `DrainedFirst` and `AllReached` follow.

**PythonPluginProofs**, for any callers, workers, calls and budget
(`PluginAssumption`). Who holds the respawn lock, who is between taking the
dead worker and installing its replacement, and how much of the budget is spent
(`LockInv`, `HostInv`, `BudgetInv`, `DeadInv`, `ProcessInv`) give `Replacement`.
For `Matching`, `TableInv` relates four places a request can be in, the pending
table, the frames sent, the responses under way and the discarded ones: a
correlation number is used once, an entry has at most one answer coming, and an
entry that is gone is awaited by nobody. `AbandonedInv` says of the entries that
dropped invocations left that no call waits for them.

**VenvCacheProofs**, for any plugins, declarations, edits, faults and crashes
(`EnvAssumption`). `EnvInv` has one conjunct per stage of a plugin's life, for
the claims and the directory that stage relies on. These hold until a shutdown
meets a respawn (`Orderly => Core`), and again for the next host, which starts
with nothing running; what holds throughout is the shape of the state. `InstInv` says what the
metadata files tell of the directory at each step of a rebuild.
`EnvironmentKept` and `InstalledWhenReady` follow.

**BindingsProofs**, for any goroutines, tasks and boxes. `NameInv`, `LockInv`,
`HandleInv` and `DrainInv` give `Waits`. For `HandlesOwned`, `BoxInv` says of
every box who owns it: the call that made it, the Go object it was handed to,
or nobody, and that there is room for the boxes a call in progress may still
make. `HandlesOwned` is about callers that only use `InvokeByName`, as the run
is: with `InvokeResolved` the statement is false (see `HandlesValid` above).

Lemmas about sequences, finite sets and well-founded orders come from the
library's theorem modules.

### Only model-checked

- Every liveness property (`GroupEnds`, `InvocationEnds`, `RefreshSettles`, both
  `CallsReturn`, `InvocationsReturn`, `CallsEnd`): fairness and ENABLED are out
  of the prover's reach.
- `MostSpecificWins`, `LayersStack`: the code folds over lists of routes and
  layers, and a statement about every list needs induction over data.
- `ChainOfRecord`, `CacheSound`: resolution filters and sorts lists of plugins,
  with the same difficulty. `CacheSound` is moreover a statement about one
  mutator; with two it is false, as `RegistrationKept` shows.
- `ParserAgrees`, `ParallelLikeSequential`, `VerdictsStand`, `LayersComplete`:
  the parser and the evaluator are recursive operators, which the prover does
  not take.
- `ApprovalsCount`, `CarriedFaithfully`: in reach in principle, not attempted; a
  call there runs through some twenty stages with a store, a provider and
  restarts at each.

## Not modelled

Reading and printing YAML, JSON and CPEX's wire formats beyond what a property
speaks of; the mapping of messages to attributes; message types and their views;
type erasure in the hook adapters; what Cedar, CEL and OPA compute; the layout
of log and audit records; pattern matching of the PII scanner; how pip builds an
environment. These are pure functions or libraries without state of their own.
