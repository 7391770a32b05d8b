------------------------------ MODULE Executor ------------------------------
(***************************************************************************)
(* cpex-core's five-phase executor: requests drive hook invocations        *)
(* through SEQUENTIAL, TRANSFORM, AUDIT, CONCURRENT and FIRE_AND_FORGET,   *)
(* sharing only the plugins' circuit breakers.                             *)
(*                                                                         *)
(* Plugins are numbered in the order their entries are passed to execute.  *)
(* The payload is the sequence of plugins whose modification was accepted; *)
(* a plugin's writes to its context are the stamp <<hook, plugin>>; a      *)
(* label is the plugin that added it.  The concurrent phase relies on the  *)
(* promise of run_branches (module Branches), which module Orchestration   *)
(* is proved to keep.                                                      *)
(***************************************************************************)
EXTENDS Extensions

CONSTANTS Request,       \* requests in flight
          Plugin,        \* plugins, numbered in entry order
          Confs,         \* the plugin configurations considered
          EntrySets,     \* the sets of entries a hook may resolve to
          Results,       \* what a handler may answer
          ShortCircuit,  \* ExecutorConfig.short_circuit_on_deny
          MaxHooks       \* hook invocations per request

Serial == {"Sequential", "Transform"}

Mode == Serial \cup {"Audit", "Concurrent", "FireAndForget"}

OnError == {"Fail", "Ignore", "Disable"}

PluginConf == [mode : Mode, on_error : OnError, caps : SUBSET STRING]

\* A handler's answer: a result with its decision-bearing fields, an error or
\* timeout, a value of the wrong type, or a panic.
Answer(continue, violation, payload, ext) ==
  [kind |-> "Ok", continue |-> continue, violation |-> violation,
   payload |-> payload, ext |-> ext]

Failure == [kind |-> "Err"]

WrongType == [kind |-> "WrongType"]

Panic == [kind |-> "Panic"]

HandlerResult == {Answer(c, v, p, e) : c, v, p, e \in BOOLEAN}
                   \cup {Failure, WrongType, Panic}

\* What a concurrent branch returns to run_branches.
BranchData == {"Allow", "Deny", "DenyBare", "Error"}

BR == INSTANCE Branches WITH Value <- BranchData, DenyValue <- {"Deny", "DenyBare"}

ASSUME ExecutorAssumption ==
  /\ Plugin \subseteq Nat
  /\ Confs \subseteq [Plugin -> PluginConf]
  /\ EntrySets \subseteq SUBSET Plugin
  /\ Results \subseteq HandlerResult
  /\ ShortCircuit \in BOOLEAN
  /\ MaxHooks \in Nat

VARIABLES
  conf,        \* trusted_config of each plugin
  disabled,    \* circuit breakers: the plugins whose breaker has tripped
  hook,        \* hook[r]: hook invocations started
  phase,       \* phase[r]: where r's current invocation is
  groups,      \* groups[r][m]: entries of mode m still to run
  payload,     \* payload[r]: current payload
  modified,    \* modified[r]: payload_modified
  ext,         \* ext[r]: current extensions
  table,       \* table[r]: the context table
  errors,      \* errors[r]: plugins with an error record
  violation,   \* violation[r]: the plugin blamed for the denial, if any
  background,  \* fire-and-forget tasks
  ran,         \* history: what each plugin did in r's current invocation
  saw,         \* history: the payload each plugin was given
  barred       \* history: breakers already tripped when the invocation began

reqVars == <<hook, phase, groups, payload, modified, ext, table, errors,
             violation, ran, saw, barred>>

vars == <<conf, disabled, background, reqVars>>

NoGroups == [m \in Mode |-> {}]

HostExtensions ==
  [ request |-> Some("req"), agent |-> None, http |-> None,
    security |-> Some(DefaultSecurity), constraint |-> None,
    delegation |-> None, raw |-> None, custom |-> None ]

EmptyTable == [global |-> <<>>, local |-> [p \in Plugin |-> {}]]

Init ==
  /\ conf \in Confs
  /\ disabled = {}
  /\ background = {}
  /\ hook = [r \in Request |-> 0]
  /\ phase = [r \in Request |-> "Idle"]
  /\ groups = [r \in Request |-> NoGroups]
  /\ payload = [r \in Request |-> <<>>]
  /\ modified = [r \in Request |-> FALSE]
  /\ ext = [r \in Request |-> HostExtensions]
  /\ table = [r \in Request |-> EmptyTable]
  /\ errors = [r \in Request |-> {}]
  /\ violation = [r \in Request |-> None]
  /\ ran = [r \in Request |-> [p \in Plugin |-> "not_run"]]
  /\ saw = [r \in Request |-> [p \in Plugin |-> <<>>]]
  /\ barred = [r \in Request |-> {}]

-----------------------------------------------------------------------------
\* group_by_mode: entries by effective mode, leaving out tripped breakers.
GroupByMode(entries) ==
  [m \in Mode |-> {p \in entries \ disabled : conf[p].mode = m}]

\* Fault: only the local half of the context is stored.
StoreLocalOnly(t, h, p) == [t EXCEPT !.local[p] = @ \cup {h}]

\* PluginContextTable: store_context commits a handler's copy of the context,
\* take_context has removed the plugin's local state from the table.
StoreContext(t, h, p) ==
  [global |-> Append(t.global, <<h, p>>),
   local  |-> [t.local EXCEPT ![p] = @ \cup {h}]]

TakeContext(t, p) == [t EXCEPT !.local[p] = {}]

\* The next hook of a request: the host threads the context table and the
\* extensions of the previous result; with no entries the pipeline allows.
Invoke(r, entries) ==
  /\ phase[r] \in {"Idle", "Returned"}
  /\ hook[r] < MaxHooks
  /\ hook' = [hook EXCEPT ![r] = @ + 1]
  /\ phase' = [phase EXCEPT ![r] = IF entries = {} THEN "Returned" ELSE "Sequential"]
  /\ groups' = [groups EXCEPT ![r] = GroupByMode(entries)]
  /\ payload' = [payload EXCEPT ![r] = <<>>]
  /\ modified' = [modified EXCEPT ![r] = FALSE]
  /\ errors' = [errors EXCEPT ![r] = {}]
  /\ violation' = [violation EXCEPT ![r] = None]
  /\ ran' = [ran EXCEPT ![r] = [p \in Plugin |-> "not_run"]]
  /\ saw' = [saw EXCEPT ![r] = [p \in Plugin |-> <<>>]]
  /\ barred' = [barred EXCEPT ![r] = disabled]
  /\ UNCHANGED <<conf, disabled, background, ext, table>>

\* Fault: audit plugins run ahead of transforms.
AuditFirst == [Sequential |-> "Audit", Audit |-> "Transform",
               Transform |-> "Concurrent", Concurrent |-> "FireAndForget"]

\* The order of the phases.
NextPhase == [Sequential |-> "Transform", Transform |-> "Audit",
              Audit |-> "Concurrent", Concurrent |-> "FireAndForget"]

\* Fault: run_concurrent_phase waits for a branch although there is none.
EndPhaseWaits(r) ==
  /\ phase[r] \in DOMAIN NextPhase \ {"Concurrent"}
  /\ groups[r][phase[r]] = {}
  /\ phase' = [phase EXCEPT ![r] = NextPhase[phase[r]]]
  /\ UNCHANGED <<conf, disabled, background, hook, groups, payload, modified, ext,
                 table, errors, violation, ran, saw, barred>>

\* A phase whose entries have all run gives way to the next one.
EndPhase(r) ==
  /\ phase[r] \in DOMAIN NextPhase
  /\ groups[r][phase[r]] = {}
  /\ phase' = [phase EXCEPT ![r] = NextPhase[phase[r]]]
  /\ UNCHANGED <<conf, disabled, background, hook, groups, payload, modified, ext,
                 table, errors, violation, ran, saw, barred>>

\* p is the next entry of a serially executed phase, and it answers with an
\* outcome the history calls `what`.
Dispatch(r, p, what) ==
  /\ p \in groups[r][phase[r]]
  /\ \A q \in groups[r][phase[r]] : p <= q
  /\ groups' = [groups EXCEPT ![r][phase[r]] = @ \ {p}]
  /\ ran' = [ran EXCEPT ![r][p] = what]
  /\ saw' = [saw EXCEPT ![r][p] = payload[r]]

\* How the history names a handler's answer.
Outcome(res) ==
  IF res.kind = "Err" THEN "failed"
  ELSE IF res.kind = "Ok" /\ ~res.continue
       THEN IF res.violation THEN "deny" ELSE "bare_deny"
       ELSE "allow"

\* run_serial_phase gives up on the entry: a denial with a violation, or a
\* failure under on_error = fail, in the phase that can block.
Halts(p, res, can_block) ==
  /\ can_block
  /\ \/ Outcome(res) = "deny"
     \/ Outcome(res) = "failed" /\ conf[p].on_error = "Fail"

\* The handler's copy of its view, with its own label added.
Labelled(view, p) ==
  [view EXCEPT !.security = {[s EXCEPT !.labels = @ \cup {p}] : s \in @}]

\* run_serial_phase, an entry after which the loop goes on.  The context is
\* stored whatever the answer was.
SerialContinues(r, p, res) ==
  LET caps == conf[p].caps
  IN
  /\ phase[r] \in Serial
  /\ res.kind # "Panic"
  /\ ~Halts(p, res, phase[r] = "Sequential")
  /\ Dispatch(r, p, Outcome(res))
  /\ IF res.kind = "Ok" /\ res.payload
     THEN /\ payload' = [payload EXCEPT ![r] = Append(@, p)]
          /\ modified' = [modified EXCEPT ![r] = TRUE]
     ELSE UNCHANGED <<payload, modified>>
  /\ ext' = IF res.kind = "Ok" /\ res.ext
            THEN [ext EXCEPT ![r] =
                    AcceptExtensions(@, Labelled(FilterExtensions(@, caps), p), caps)]
            ELSE ext
  /\ IF res.kind = "Err"
     THEN /\ errors' = [errors EXCEPT ![r] = @ \cup {p}]
          /\ disabled' = IF conf[p].on_error = "Disable" THEN disabled \cup {p} ELSE disabled
     ELSE UNCHANGED <<errors, disabled>>
  /\ table' = [table EXCEPT ![r] = StoreContext(@, hook[r], p)]
  /\ UNCHANGED <<conf, background, hook, phase, violation, barred>>

\* run_serial_phase, an entry that ends the invocation: the early returns come
\* after take_context and before store_context.
SerialHalts(r, p, res) ==
  /\ phase[r] = "Sequential"
  /\ Halts(p, res, TRUE)
  /\ Dispatch(r, p, Outcome(res))
  /\ violation' = [violation EXCEPT ![r] = Some(p)]
  /\ table' = [table EXCEPT ![r] = TakeContext(@, p)]
  /\ phase' = [phase EXCEPT ![r] = "Returned"]
  /\ UNCHANGED <<conf, disabled, background, hook, payload, modified, ext, errors, barred>>

\* A panic in a handler the executor awaits in place unwinds the caller.
SerialPanics(r, p) ==
  /\ phase[r] \in Serial \cup {"Audit"}
  /\ Panic \in Results
  /\ Dispatch(r, p, "panicked")
  /\ phase' = [phase EXCEPT ![r] = "Unwound"]
  /\ UNCHANGED <<conf, disabled, background, hook, payload, modified, ext, table,
                 errors, violation, barred>>

\* run_ref_phase (AUDIT): the result and the context copy are discarded,
\* failures are recorded and may trip the breaker.
Audit(r, p, res) ==
  /\ phase[r] = "Audit"
  /\ res.kind # "Panic"
  /\ Dispatch(r, p, Outcome(res))
  /\ IF res.kind = "Err"
     THEN /\ errors' = [errors EXCEPT ![r] = @ \cup {p}]
          /\ disabled' = IF conf[p].on_error = "Disable" THEN disabled \cup {p} ELSE disabled
     ELSE UNCHANGED <<errors, disabled>>
  /\ UNCHANGED <<conf, background, hook, phase, payload, modified, ext, table,
                 violation, barred>>

\* How the history names the outcome of a concurrent branch.
BranchSays(o) ==
  CASE o = BR!Completed("Allow")    -> "allow"
    [] o = BR!Completed("Deny")     -> "deny"
    [] o = BR!Completed("DenyBare") -> "bare_deny"
    [] o = BR!Aborted               -> "aborted"
    [] OTHER                        -> "failed"

\* Fault: only denials halt.
HaltOnDenyOnly(entries, outs) ==
  {p \in entries : BranchSays(outs[p]) \in {"deny", "bare_deny"}}

\* The post-loop: which entries yield a violation.
HaltingBranches(entries, outs) ==
  {p \in entries : \/ BranchSays(outs[p]) \in {"deny", "bare_deny"}
                   \/ BranchSays(outs[p]) = "failed" /\ conf[p].on_error = "Fail"}

\* The post-loop keeps the first violation it meets.
FirstOf(halting) == {p \in halting : \A q \in halting : p <= q}

\* Fault: failures of plugins that are being disabled are not recorded.
RecordIgnored(failed) == {p \in failed : conf[p].on_error = "Ignore"}

\* The post-loop records the failures that do not halt.
Recorded(failed) == {p \in failed : conf[p].on_error # "Fail"}

\* execute returns as soon as the concurrent phase yields a violation.
AfterBranches(halting) == IF halting = {} THEN "Concurrent" ELSE "Returned"

\* run_concurrent_phase: all entries run as branches of one run_branches call,
\* and the outcomes are walked in input order.
Concurrent(r, outs) ==
  LET entries == groups[r]["Concurrent"]
      failed == {p \in entries : BranchSays(outs[p]) = "failed"}
      halting == HaltingBranches(entries, outs)
  IN
  /\ phase[r] = "Concurrent"
  /\ entries # {}
  /\ BR!Promise(outs, [timeout_per_branch |-> TRUE, short_circuit_on_deny |-> ShortCircuit])
  /\ groups' = [groups EXCEPT ![r]["Concurrent"] = {}]
  /\ errors' = [errors EXCEPT ![r] = @ \cup Recorded(failed)]
  /\ disabled' = disabled \cup {p \in failed : conf[p].on_error = "Disable"}
  /\ violation' = [violation EXCEPT ![r] = FirstOf(halting)]
  /\ phase' = [phase EXCEPT ![r] = AfterBranches(halting)]
  /\ ran' = [ran EXCEPT ![r] = [p \in Plugin |-> IF p \in entries THEN BranchSays(outs[p]) ELSE @[p]]]
  /\ saw' = [saw EXCEPT ![r] = [p \in Plugin |-> IF p \in entries THEN payload[r] ELSE @[p]]]
  /\ UNCHANGED <<conf, background, hook, payload, modified, ext, table, barred>>

\* spawn_fire_and_forget, then the allowed result.
SpawnFireAndForget(r) ==
  /\ phase[r] = "FireAndForget"
  /\ background' = background \cup
       {[req |-> r, hook |-> hook[r], plugin |-> p, saw |-> payload[r], state |-> "running"] :
          p \in groups[r]["FireAndForget"]}
  /\ groups' = [groups EXCEPT ![r]["FireAndForget"] = {}]
  /\ phase' = [phase EXCEPT ![r] = "Returned"]
  /\ UNCHANGED <<conf, disabled, hook, payload, modified, ext, table, errors,
                 violation, ran, saw, barred>>

\* A background task ends: errors and timeouts are logged, nothing else.
BackgroundEnds(t, state) ==
  /\ t.state = "running"
  /\ background' = (background \ {t}) \cup {[t EXCEPT !.state = state]}
  /\ UNCHANGED <<conf, disabled, reqVars>>

StepOf(r) ==
  \/ EndPhase(r)
  \/ \E p \in Plugin, res \in Results :
       SerialContinues(r, p, res) \/ SerialHalts(r, p, res) \/ Audit(r, p, res)
  \/ \E p \in Plugin : SerialPanics(r, p)
  \/ \E outs \in [groups[r]["Concurrent"] -> BR!BranchOutcome] : Concurrent(r, outs)
  \/ SpawnFireAndForget(r)

Next ==
  \/ \E r \in Request, entries \in EntrySets : Invoke(r, entries)
  \/ \E r \in Request : StepOf(r)
  \/ \E t \in background, state \in {"ok", "failed", "panicked"} : BackgroundEnds(t, state)

Spec == Init /\ [][Next]_vars

\* Every handler call is wrapped in a timeout, so an invocation never waits
\* for a handler for ever.
FairSpec == Spec /\ \A r \in Request : WF_vars(StepOf(r))

-----------------------------------------------------------------------------
\* wait_for_background_tasks: the plugins it returns an error for.
WaitForBackgroundTasks(r, h) ==
  {t.plugin : t \in {b \in background : b.req = r /\ b.hook = h /\ b.state = "panicked"}}

Blocking == {"Sequential", "Concurrent"}

Returned(r) == phase[r] = "Returned"

\* p gave r's current invocation a reason to be denied.
Objects(r, p) ==
  /\ conf[p].mode \in Blocking
  /\ \/ ran[r][p] = "deny"
     \/ ran[r][p] = "bare_deny" /\ conf[p].mode = "Concurrent"
     \/ ran[r][p] = "failed" /\ conf[p].on_error = "Fail"

Rank == [Sequential |-> 1, Transform |-> 2, Audit |-> 3, Concurrent |-> 4, FireAndForget |-> 5]

\* The order in which the pipeline reaches plugins.
Before(p, q) ==
  \/ Rank[conf[p].mode] < Rank[conf[q].mode]
  \/ conf[p].mode = conf[q].mode /\ p < q

TasksOf(r) == {t \in background : t.req = r /\ t.hook = hook[r]}

RanOutcome == {"not_run", "allow", "deny", "bare_deny", "failed", "aborted", "panicked"}

Task == [req : Request, hook : 1..MaxHooks, plugin : Plugin, saw : Seq(Plugin),
         state : {"running", "ok", "failed", "panicked"}]

\* Types of the executor's state (executor.rs 282-445): among them, that at most
\* one plugin is blamed for a denial.
TypeOK ==
  /\ conf \in Confs
  /\ disabled \subseteq Plugin
  /\ background \subseteq Task
  /\ hook \in [Request -> 0..MaxHooks]
  /\ phase \in [Request -> Mode \cup {"Idle", "Returned", "Unwound"}]
  /\ groups \in [Request -> [Mode -> SUBSET Plugin]]
  /\ payload \in [Request -> Seq(Plugin)]
  /\ modified \in [Request -> BOOLEAN]
  /\ DOMAIN ext = Request
  /\ table \in [Request -> [global : Seq((1..MaxHooks) \X Plugin),
                            local  : [Plugin -> SUBSET (1..MaxHooks)]]]
  /\ errors \in [Request -> SUBSET Plugin]
  /\ violation \in [Request -> {None} \cup {Some(p) : p \in Plugin}]
  /\ ran \in [Request -> [Plugin -> RanOutcome]]
  /\ saw \in [Request -> [Plugin -> Seq(Plugin)]]
  /\ barred \in [Request -> SUBSET Plugin]

\* An allowed result hides no objection: no blocking plugin denied, none
\* failed under on_error = fail, no branch was cut short, and every entry of
\* the hook that was not disabled has been dispatched.
AllowedIsSound ==
  \A r \in Request : Returned(r) /\ violation[r] = None =>
    /\ \A p \in Plugin : ~Objects(r, p) /\ ran[r][p] # "aborted"
    /\ \A m \in Mode : groups[r][m] = {}

\* A denied result blames exactly one plugin, the one that objected, and no
\* plugin that the pipeline reaches earlier objected too.
DeniedIsJustified ==
  \A r \in Request : Returned(r) /\ violation[r] # None =>
    \E p \in Plugin : /\ violation[r] = Some(p)
                      /\ Objects(r, p)
                      /\ \A q \in Plugin : Objects(r, q) => ~Before(q, p)

\* Once a plugin objects, no plugin of a later phase is dispatched in that
\* invocation: no transform, no audit, no branch, and no background task.
NothingAfterDenial ==
  \A r \in Request, p \in Plugin : Objects(r, p) =>
    /\ \A q \in Plugin : Rank[conf[p].mode] < Rank[conf[q].mode] => ran[r][q] = "not_run"
    /\ TasksOf(r) = {}

\* The verdict of an invocation is the pipeline's: an allow hides no objection, a
\* denial blames the first objector, and nothing runs after it.
VerdictJustified == AllowedIsSound /\ DeniedIsJustified /\ NothingAfterDenial

\* PipelineResult.errors names exactly the awaited plugins that failed without
\* a right to halt the pipeline, whatever the phase and the final decision.
FailuresAccounted ==
  \A r \in Request : Returned(r) =>
    errors[r] = {p \in Plugin : ran[r][p] = "failed" /\ ~Objects(r, p)}

\* Accepted payload modifications are chained in pipeline order, each plugin
\* was given what its predecessors left, and payload_modified is set exactly
\* when the returned payload differs from the one passed in.
ModificationsChained ==
  \A r \in Request :
    /\ modified[r] <=> payload[r] # <<>>
    /\ \A i, j \in DOMAIN payload[r] : i < j => Before(payload[r][i], payload[r][j])
    /\ \A i \in DOMAIN payload[r] : saw[r][payload[r][i]] = SubSeq(payload[r], 1, i - 1)

\* The read-only phases judge what is returned: audit plugins, concurrent
\* branches and background tasks were all given the final payload.
ReadersSawFinalPayload ==
  \A r \in Request : Returned(r) =>
    /\ \A p \in Plugin : conf[p].mode \in {"Audit", "Concurrent"} /\ ran[r][p] # "not_run"
                           => saw[r][p] = payload[r]
    /\ \A t \in TasksOf(r) : t.saw = payload[r]

\* Every plugin is handed the payload that its place in the pipeline calls for.
PayloadHandedOn == ModificationsChained /\ ReadersSawFinalPayload

\* A tripped breaker keeps its plugin out of every invocation that starts
\* later, on any request; failing under on_error = disable in an awaited phase
\* trips it; and nothing else does.
BreakersHold ==
  /\ \A p \in disabled : conf[p].on_error = "Disable"
  /\ \A r \in Request :
       /\ \A p \in Plugin : ran[r][p] = "failed" /\ conf[p].on_error = "Disable"
                              => p \in disabled
       /\ \A p \in barred[r] : ran[r][p] = "not_run"
       /\ \A t \in TasksOf(r) : t.plugin \notin barred[r]

\* The context table returned by an invocation holds the context writes of
\* every serial plugin that let it go on, and of no other plugin.
ContextWritesCommitted ==
  \A r \in Request : Returned(r) =>
    {s[2] : s \in {table[r].global[i] : i \in {j \in DOMAIN table[r].global :
                                                table[r].global[j][1] = hook[r]}}}
      = {p \in Plugin : /\ conf[p].mode \in Serial
                        /\ ran[r][p] # "not_run"
                        /\ p \notin violation[r]}

\* What invocations leave behind for later ones of the same or another request, the
\* breakers and the context table, is neither lost nor made up.
CarriedOver == BreakersHold /\ ContextWritesCommitted

\* Handlers run under a timeout, so every invocation returns or unwinds.
InvocationEnds ==
  \A r \in Request : phase[r] \in Mode ~> phase[r] \in {"Returned", "Unwound"}

\* Said of continue_processing = false: it halts the pipeline in the
\* Sequential and the Concurrent mode.
StopRequestHalts ==
  \A r \in Request, p \in Plugin :
    /\ Returned(r)
    /\ conf[p].mode \in Blocking
    /\ ran[r][p] \in {"deny", "bare_deny"}
    => violation[r] # None

\* Said of on_error = disable in the audit and fire-and-forget phases: a
\* failing plugin is taken out of rotation.
FailingTaskIsDisabled ==
  \A t \in background : t.state = "failed" /\ conf[t.plugin].on_error = "Disable"
                          => t.plugin \in disabled

\* Said of fire-and-forget errors: wait_for_background_tasks delivers them.
BackgroundErrorsDelivered ==
  \A r \in Request :
    (\A t \in TasksOf(r) : t.state # "running") =>
      {t.plugin : t \in {b \in TasksOf(r) : b.state # "ok"}}
        \subseteq WaitForBackgroundTasks(r, hook[r])

\* Said of local_state: what a plugin stashed in one hook is there in the
\* next one.
LocalStatePersists ==
  [][\A r \in Request, p \in Plugin : table[r].local[p] \subseteq table'[r].local[p]]_vars

=============================================================================
