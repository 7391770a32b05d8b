------------------------------ MODULE Requests ------------------------------
(***************************************************************************)
(* Requests under policies, on the nodes of a gateway: the route handler   *)
(* hydrates the labels of the session, evaluates the steps of the phase,   *)
(* which may ask a human or mint a token, stores the labels the phase has  *)
(* added and answers.  A call that is suspended is retried with the id of  *)
(* the approval; a call that is forwarded runs the tool, and its result is *)
(* handled by the post phase of the same route.                            *)
(*                                                                         *)
(* A route is [pre, post], two sequences of steps: a session taint or a    *)
(* gate that denies a session with a label, an approval by a human, whom   *)
(* `from` names unless it does not resolve, and whose scope the arguments  *)
(* satisfy or not, and a token delegation.                                 *)
(***************************************************************************)
EXTENDS SessionStores, CibaApprover

CONSTANTS
  Scenarios,  \* functions from Caller to [who, route, nodes, repeats]: who calls which route on
              \* which nodes, and whether only to repeat a call the agent has been told of
  MaxFaults   \* bound: failed commands, lost replies and restarts

\* Nodes share a Valkey store; an in-process store is a node's own.
ASSUME RequestsAssumption ==
  MaxFaults \in Nat /\ (Store = "memory" => Cardinality(Node) = 1)

OnError == {"deny", "continue"}

StepKinds ==
  [do : {"taint", "gate"}, label : STRING]
    \cup [do : {"elicit"}, on_error : OnError, from : {{}} \cup {{a} : a \in Approver}, scope : BOOLEAN]
    \cup [do : {"delegate"}, on_error : OnError]

ASSUME ScenariosAssumption ==
  \A p \in Scenarios : \A c \in Caller :
    /\ \A part \in {p[c].who.sub, p[c].who.agent, p[c].who.claim} : \A x, y \in part : x = y
    /\ p[c].route.pre \in Seq(StepKinds) /\ p[c].route.post \in Seq(StepKinds)
    /\ p[c].nodes \subseteq Node

VARIABLES
  plan,      \* the scenario
  call,      \* the state of each call
  told,      \* the approvals a call has been told the id of
  faults,    \* bound: faults so far
  committed, \* history: labels of the calls let through, by session
  contended  \* history: approvals polled by two calls, or by a node that does not know
             \* them, or whose answer was lost

history == <<committed, contended>>

vars == <<store, approver, plan, call, told, faults, history>>

NoNode == "none"

Fresh == [pc |-> "idle", phase |-> "pre", node |-> NoNode, header |-> {}, id |-> {}, peek |-> FALSE,
          labels |-> {}, hydrated |-> {}, initial |-> {}, taints |-> {}, at |-> 1, verdict |-> "allow",
          approved |-> FALSE, changed |-> {}, carries |-> {}, leased |-> FALSE, owed |-> {}]

Init ==
  /\ StoreInit /\ ApproverInit
  /\ plan \in Scenarios
  /\ call = [c \in Caller |-> Fresh]
  /\ told = [c \in Caller |-> {}]
  /\ faults = 0
  /\ committed = [k \in {} |-> {}] /\ contended = {}

Session(c) == ResolveSession(plan[c].who)

StepsOf(route, phase) == IF phase = "pre" THEN route.pre ELSE route.post

Steps(c) == StepsOf(plan[c].route, call[c].phase)

Step(c) == Steps(c)[call[c].at]

Fault == faults < MaxFaults /\ faults' = faults + 1

NoFault == UNCHANGED faults

Settled == {"idle", "suspended", "peeked", "broken", "tool", "delivered", "denied"}

InFlight(c) == call[c].pc \notin Settled

Set(c, r) == call' = [call EXCEPT ![c] = r]

\* What is left of a call between its requests, and of one that is over.
Remains(c, pc) ==
  LET r == call[c]
  IN CASE pc \in {"suspended", "peeked"} -> [Fresh EXCEPT !.pc = pc, !.id = r.id, !.peek = r.peek]
       [] pc = "denied" -> IF r.verdict = "deny"
                           THEN [Fresh EXCEPT !.pc = pc, !.phase = r.phase, !.id = r.id, !.at = r.at,
                                              !.verdict = r.verdict]
                           ELSE [Fresh EXCEPT !.pc = pc]
       [] OTHER -> [r EXCEPT !.pc = pc, !.hydrated = {}, !.initial = {}, !.taints = {}, !.at = 1]

Settles(c, pc) == Set(c, Remains(c, pc))

OwedTo(c) == UNION {committed[k] : k \in Session(c) \cap DOMAIN committed}
-----------------------------------------------------------------------------
(* The agent *)

\* The ids the agent of a call knows: its calls share them.
IdsOf(c) == UNION {told[d] : d \in {d \in Caller : plan[d].who = plan[c].who}}

Sends(c, n, id, peek) ==
  Set(c, [Fresh EXCEPT !.pc = "load", !.node = n, !.header = id, !.peek = peek, !.owed = OwedTo(c)])

\* A call, possibly one that repeats a suspended call of the same agent, and
\* possibly only to see whether it has been approved.
Arrive(c) ==
  /\ call[c].pc = "idle"
  /\ \E n \in plan[c].nodes, peek \in BOOLEAN :
       \/ ~plan[c].repeats /\ ~peek /\ Sends(c, n, {}, peek)
       \/ \E i \in IdsOf(c) : Sends(c, n, {i}, peek)
  /\ UNCHANGED <<store, approver, plan, told, faults, history>>

\* The agent repeats a suspended call and a call that broke off.
Retry(c) ==
  /\ call[c].pc \in {"suspended", "broken"}
  /\ \E n \in plan[c].nodes : Sends(c, n, call[c].id, call[c].peek)
  /\ UNCHANGED <<store, approver, plan, told, faults, history>>

\* The requester confirms: the call is sent again without the peek header.
Confirm(c) ==
  /\ call[c].pc = "peeked"
  /\ \E n \in plan[c].nodes : Sends(c, n, call[c].id, FALSE)
  /\ UNCHANGED <<store, approver, plan, told, faults, history>>

\* The tool has run: its result is handled on the node that forwarded the call,
\* with the labels the host kept, if it keeps them.
ToolReturns(c) ==
  /\ call[c].pc = "tool"
  /\ \E kept \in {{}, call[c].labels} :
       Set(c, [Fresh EXCEPT !.pc = "load", !.phase = "post",
                  !.node = call[c].node, !.header = call[c].header, !.peek = call[c].peek,
                  !.labels = kept, !.owed = OwedTo(c)])
  /\ UNCHANGED <<store, approver, plan, told, faults, history>>
-----------------------------------------------------------------------------
(* Evaluation up to the next step that waits *)

Sync(s) == s.do \in {"taint", "gate"} \/ (s.do = "elicit" /\ s.from = {})

\* A taint passes; a gate denies a session whose labels, as the phase found them
\* in the bag, have the one it is about; an approver that cannot be resolved is a
\* failure, and a failure is a denial unless the step says on_error: continue.
Denies(s, initial) ==
  \/ s.do = "gate" /\ s.label \in initial
  \/ s.do = "elicit" /\ s.from = {} /\ s.on_error = "deny"

Decides(r, verdict) == [r EXCEPT !.pc = "persist", !.verdict = verdict]

Stops(steps, j, initial) == j \in DOMAIN steps => ~Sync(steps[j]) \/ Denies(steps[j], initial)

\* The first step from i on that ends the evaluation or waits; none is one past
\* the last.
StopsAt(steps, i, initial) ==
  CHOOSE j \in i .. Len(steps) + 1 :
    Stops(steps, j, initial) /\ \A k \in i .. j - 1 : ~Stops(steps, k, initial)

\* evaluate_effects from step i on, for a call in state r.
Proceed(c, r, i) ==
  LET steps == StepsOf(plan[c].route, r.phase)
      at == StopsAt(steps, i, r.initial)
      taints == {steps[j].label : j \in {k \in i .. at - 1 : steps[k].do = "taint"}}
      here == [r EXCEPT !.at = at, !.taints = r.taints \cup taints]
  IN IF at > Len(steps) THEN Decides(here, "allow")
     ELSE IF Denies(steps[at], r.initial) THEN Decides(here, "deny")
     ELSE [here EXCEPT !.pc = IF steps[at].do = "delegate" THEN "delegate"
                              ELSE IF r.id = {} THEN "dispatch" ELSE "check"]

Passes(c, r) == Proceed(c, r, r.at + 1)

Failed(c) == IF Step(c).on_error = "continue" THEN Passes(c, call[c]) ELSE Decides(call[c], "deny")
-----------------------------------------------------------------------------
(* Hydration *)

\* Fault: the id of the header is not put into the bag.
SeededNot(c) == {}

\* The id of the header is put into the bag.
Seeded(c) == call[c].header

Starts(c, r) == Proceed(c, [r EXCEPT !.id = Seeded(c)], 1)

\* for_request.  A load that fails denies the call before any decision.
Hydrates(c, labels) ==
  LET all == call[c].labels \cup labels
      found == [call[c] EXCEPT !.labels = all, !.initial = all, !.hydrated = labels,
                               !.changed = IF labels # {} THEN {"security"} ELSE {}]
  IN Set(c, IF Ttl /\ Session(c) # {} THEN [found EXCEPT !.pc = "refresh"] ELSE Starts(c, found))

ForRequest(c) ==
  /\ call[c].pc = "load"
  /\ \/ Session(c) = {} /\ Hydrates(c, {}) /\ NoFault
     \/ \E k \in Session(c) : \E r \in LoadLabels(k) :
          \/ r.ok /\ Hydrates(c, r.labels) /\ NoFault
          \/ ~r.ok /\ Settles(c, "denied") /\ Fault
  /\ UNCHANGED <<store, approver, plan, told, history>>

\* The read renews the TTL of a key that is still there; whether that fails is
\* not looked at.
Refresh(c) ==
  /\ call[c].pc = "refresh"
  /\ \/ Set(c, Starts(c, [call[c] EXCEPT !.leased = Session(c) \subseteq DOMAIN stored])) /\ NoFault
     \/ Set(c, Starts(c, call[c])) /\ Fault
  /\ UNCHANGED <<store, approver, plan, told, history>>
-----------------------------------------------------------------------------
(* The steps that wait *)

\* The plugin denies or fails, or allows with or without a token; what it returns
\* is written to the extensions all plugins of the request share.
Delegate(c) ==
  /\ call[c].pc = "delegate"
  /\ \/ Set(c, Failed(c)) /\ Fault
     \/ /\ \E slots \in {{}, {"raw"}, {"raw", "delegation"}} :
             Set(c, Passes(c, [call[c] EXCEPT !.changed = call[c].changed \cup slots]))
        /\ NoFault
  /\ UNCHANGED <<store, approver, plan, told, history>>

\* dispatch_elicitation: without an id in the bag a new approval is opened; with
\* one, echoed by the agent or left by an earlier step, that approval is polled,
\* whoever it was opened for.
Dispatch(c) ==
  /\ call[c].pc = "dispatch"
  /\ \E from \in Step(c).from : OpensApproval(c, from)
  /\ Set(c, [call[c] EXCEPT !.pc = "dispatched"])
  /\ UNCHANGED <<store, plan, told, faults, history>>

DispatchAnswered(c) ==
  /\ call[c].pc = "dispatched"
  /\ \E m \in mail[c], from \in Step(c).from :
       /\ Dispatched(c, call[c].node, m.id, from)
       /\ Set(c, [call[c] EXCEPT !.pc = "check", !.id = {m.id}])
  /\ UNCHANGED <<store, plan, told, faults, history>>

Polled(i) == \E c \in Caller : call[c].pc \in {"polling", "polled"} /\ i \in call[c].id

\* The correlation store is read before the provider is asked.
Check(c) ==
  /\ call[c].pc = "check"
  /\ \E i \in call[c].id :
       /\ Set(c, [call[c] EXCEPT !.pc = IF Cached(call[c].node, i) THEN "validate" ELSE "polling"])
       /\ contended' = contended \cup (IF Known(call[c].node, i) /\ ~Polled(i) THEN {} ELSE {i})
  /\ UNCHANGED <<store, approver, plan, told, faults, committed>>

Poll(c) ==
  /\ call[c].pc = "polling"
  /\ \E i \in call[c].id : AnswersPoll(c, i)
  /\ Set(c, [call[c] EXCEPT !.pc = "polled"])
  /\ UNCHANGED <<store, plan, told, faults, history>>

PollAnswered(c) ==
  /\ call[c].pc = "polled"
  /\ \E m \in mail[c], i \in call[c].id :
       /\ Checked(c, call[c].node, i, m)
       /\ Set(c, CASE Status(m) = "approved" -> [call[c] EXCEPT !.pc = "validate"]
                   [] Status(m) = "pending"  -> Decides(call[c], "pending")
                   [] Status(m) = "denied"   -> Decides(call[c], "deny")
                   [] OTHER                  -> Failed(c))
  /\ UNCHANGED <<store, plan, told, faults, history>>

\* A request to the provider, or its reply, is lost, or the plugin times out; a
\* poll by a plugin whose failures are ignored then reads as pending.
ReplyLost(c) ==
  /\ call[c].pc \in {"dispatch", "dispatched", "polling", "polled", "validate"}
  /\ Lost(c) /\ Fault
  /\ \/ Set(c, Failed(c))
     \/ call[c].pc \in {"polling", "polled"} /\ Set(c, Decides(call[c], "pending"))
  /\ contended' = contended \cup call[c].id
  /\ UNCHANGED <<store, plan, told, committed>>

\* An approval counts if whom it was opened for gave it and the scope of the step
\* covers the arguments.
Validated(c) ==
  /\ call[c].pc = "validate"
  /\ \E i \in call[c].id :
       Set(c, IF Validate(call[c].node, i) /\ Step(c).scope
              THEN Passes(c, [call[c] EXCEPT !.approved = TRUE]) ELSE Failed(c))
  /\ UNCHANGED <<store, approver, plan, told, faults, history>>

-----------------------------------------------------------------------------
(* The answer *)

\* apply_session_taints.
Tainted(c) ==
  [labels |-> call[c].labels \cup call[c].taints,
   changed |-> call[c].changed \cup (IF call[c].taints # {} THEN {"security"} ELSE {})]

NewLabels(c) == Tainted(c).labels \ call[c].initial

ExtensionsChanged(changed) == changed \cap {"security", "delegation", "raw"} # {}

\* Suspension and peek come before a failed append, which denies only what would
\* have gone through.
Answer(c, persisted) ==
  CASE call[c].verdict = "deny"           -> "denied"
    [] call[c].verdict = "pending"        -> "suspended"
    [] call[c].peek /\ call[c].approved   -> "peeked"
    [] ~persisted                         -> "denied"
    [] call[c].phase = "pre"              -> "tool"
    [] OTHER                              -> "delivered"

LetThrough == {"tool", "delivered"}

Answers(c, persisted) ==
  LET pc == Answer(c, persisted)
      sure == NewLabels(c) \cup (call[c].taints \cap call[c].hydrated)
      carries == IF ExtensionsChanged(Tainted(c).changed) THEN call[c].changed ELSE {}
  IN /\ Set(c, IF pc \in LetThrough
               THEN [Remains(c, pc) EXCEPT !.labels = Tainted(c).labels, !.changed = Tainted(c).changed,
                                           !.carries = carries]
               ELSE Remains(c, pc))
     /\ told' = [told EXCEPT ![c] = IF pc \in {"suspended", "peeked"} THEN @ \cup call[c].id ELSE @]
     /\ committed' = IF pc \in LetThrough
                     THEN [k \in DOMAIN committed \cup Session(c) |->
                             IF k \in Session(c) THEN OwedTo(c) \cup sure ELSE committed[k]]
                     ELSE committed

\* persist_session and what the handler makes of its result.
Persist(c) ==
  /\ call[c].pc = "persist"
  /\ \/ /\ Session(c) = {} \/ NewLabels(c) = {}
        /\ Answers(c, TRUE) /\ NoFault /\ UNCHANGED store
     \/ /\ NewLabels(c) # {}
        /\ \E k \in Session(c) :
             \/ AppendLabels(k, NewLabels(c)) /\ Answers(c, TRUE) /\ NoFault
             \/ /\ Store = "valkey"
                /\ AppendFails \/ AppendTimesOut(k, NewLabels(c))
                /\ Answers(c, FALSE) /\ Fault
  /\ UNCHANGED <<approver, plan, contended>>
-----------------------------------------------------------------------------
(* The surroundings *)

ServerRunsLate == LateAppend /\ UNCHANGED <<approver, plan, call, told, faults, history>>

\* The TTL is longer than any request: a key whose TTL a request in flight has
\* renewed does not expire.
SessionExpires ==
  \E k \in DOMAIN stored :
    /\ Expires(k)
    /\ \A c \in Caller : k \in Session(c) /\ InFlight(c) => ~call[c].leased
    /\ committed' = [j \in DOMAIN committed \ {k} |-> committed[j]]
    /\ call' = [c \in Caller |-> IF k \in Session(c)
                                  THEN [call[c] EXCEPT !.owed = {}, !.hydrated = {}] ELSE call[c]]
  /\ UNCHANGED <<approver, plan, told, faults, contended>>

Human == (\E i \in Opened : HumanAnswers(i)) /\ UNCHANGED <<store, plan, call, told, faults, history>>

\* The process of a node ends: the calls in flight on it break off, and what it
\* held in memory is gone.
Restart(n) ==
  LET served == {c \in Caller : (InFlight(c) \/ call[c].pc = "tool") /\ call[c].node = n}
  IN /\ Fault
     /\ StoreRestart /\ ApproverRestart(n, served)
     /\ call' = [c \in Caller |->
          IF c \in served
          THEN IF call[c].phase = "post" \/ call[c].pc = "tool" THEN Remains(c, "denied")
               ELSE [Fresh EXCEPT !.pc = "broken", !.id = call[c].header, !.peek = call[c].peek]
          ELSE IF Store = "memory" THEN [call[c] EXCEPT !.owed = {}] ELSE call[c]]
     /\ committed' = IF Store = "memory" THEN [k \in {} |-> {}] ELSE committed
     /\ contended' = contended \cup Opened
     /\ UNCHANGED <<plan, told>>

Answering(c) ==
  \/ ForRequest(c) \/ Refresh(c)
  \/ Delegate(c) \/ Dispatch(c) \/ DispatchAnswered(c)
  \/ Check(c) \/ Poll(c) \/ PollAnswered(c) \/ Validated(c)
  \/ Persist(c)

Asking(c) == Arrive(c) \/ Retry(c) \/ Confirm(c) \/ ToolReturns(c)

Next ==
  \/ \E c \in Caller : Answering(c) \/ Asking(c) \/ ReplyLost(c)
  \/ ServerRunsLate \/ SessionExpires \/ Human
  \/ \E n \in Node : Restart(n)

\* Tasks are scheduled, the provider answers, agents retry and humans answer.
Fairness ==
  /\ \A c \in Caller : WF_vars(Answering(c)) /\ WF_vars(Asking(c))
  /\ WF_vars(Human)

Spec == Init /\ [][Next]_vars /\ Fairness
-----------------------------------------------------------------------------
Slots == {"security", "delegation", "raw"}

\* The type invariant: a call waits for a reply of the provider only while it is
\* at a request to it, and is at an approval only with its id.
TypeOK ==
  /\ late = {} \/ Store = "valkey"
  /\ \A c \in Caller :
       /\ call[c].pc \in Settled \cup {"load", "refresh", "delegate", "dispatch", "dispatched", "check",
                                      "polling", "polled", "validate", "persist"}
       /\ call[c].id \cup call[c].header \subseteq Opened /\ Cardinality(call[c].id) <= 1
       /\ call[c].changed \subseteq Slots
       /\ call[c].at \in 1 .. Len(Steps(c)) + 1
       /\ mail[c] # {} <=> call[c].pc \in {"dispatched", "polled"}
       /\ call[c].pc \in {"check", "polling", "polled", "validate"} => call[c].id # {}
  /\ faults \in 0 .. MaxFaults

StepsPassed(c) == {Steps(c)[i] : i \in DOMAIN Steps(c)}

ElicitSteps(route) ==
  {s \in {route.pre[i] : i \in DOMAIN route.pre} \cup {route.post[i] : i \in DOMAIN route.post} :
     s.do = "elicit"}

\* The humans the calls of a call's agent ask.
AskedByAgent(c) ==
  UNION {s.from : s \in UNION {ElicitSteps(plan[d].route) : d \in {d \in Caller : plan[d].who = plan[c].who}}}

\* A call that needs a human's approval goes through only with an approval that
\* its agent asked for and that the human it was opened for gave: not while it is
\* pending or being looked at, not when it was denied, expired, lost or given by
\* somebody else, and not when a restart or a second node has made the gateway
\* forget whom it asked (route_handler.rs 586-614, approver.rs do_check and
\* do_validate).  The human may be another than the one the step names.
ForwardedWasApproved ==
  \A c \in Caller : call[c].pc \in LetThrough =>
    \A s \in StepsPassed(c) : (s.do = "elicit" /\ s.on_error = "deny") =>
      /\ s.scope /\ ~call[c].peek
      /\ \E i \in call[c].id : GivenAsAsked(i) /\ op[i].hint \in AskedByAgent(c)

\* Labels are stored before what they are about gets out: a call that is made
\* after another call of its session was let through meets every label that call
\* was given, on whichever node, although appends fail, time out and race, unless
\* the session has expired since (persist_session, route_handler.rs 437, 625-643).
TaintsGate ==
  \A c \in Caller : call[c].pc \in LetThrough =>
    \A s \in StepsPassed(c) : s.do = "gate" => s.label \notin call[c].owed

RouteLabels(route) ==
  {s.label : s \in {t \in {route.pre[i] : i \in DOMAIN route.pre}
                        \cup {route.post[i] : i \in DOMAIN route.post} : t.do = "taint"}}

\* The id of one subject is that of the other, or continues it after a colon.
Comparable(sub, other) ==
  sub = other \/ \E x \in sub, y \in other : IsPrefix(x, y) \/ IsPrefix(y, x)

\* A call never meets a label that only calls of other subjects were given, also
\* when they name the same session (resolve_session, subject_scoped), unless the
\* id of one of the two subjects continues that of the other after a colon.
SessionsSeparate ==
  \A c \in Caller :
    call[c].labels \subseteq
      UNION {RouteLabels(plan[d].route) : d \in {d \in Caller : Comparable(plan[d].who.sub, plan[c].who.sub)}}

\* A token minted for a call leaves with it, whatever else the call changed
\* (delegation_invoker.rs 261-265, extensions_changed).
TokenCarried ==
  \A c \in Caller :
    call[c].pc \in LetThrough /\ "raw" \in call[c].changed => "raw" \in call[c].carries

\* What a call was given stays with it and its session: labels gate the calls that
\* follow, in that session only, and a minted token leaves with its call.
CarriedFaithfully == TaintsGate /\ SessionsSeparate /\ TokenCarried

\* An approval the provider hands out once serves every retry: a call whose asked
\* approver approved, and that the approval covers, is not turned down for it,
\* although a look at the approval has used it up, unless two calls polled it at
\* a time, the answer was lost or another node handles the retry (approver.rs
\* 241-254).
ApprovalKept ==
  \A c \in Caller :
    (call[c].pc = "denied" /\ call[c].verdict = "deny" /\ Step(c).do = "elicit"
       /\ Step(c).scope /\ Step(c).from # {})
      => \A i \in call[c].id : GivenAsAsked(i) => i \in contended

\* Approvals count for what they are: one that was given is not asked for again,
\* and none counts that the human it was opened for has not given.
ApprovalsCount == ForwardedWasApproved /\ ApprovalKept

\* Every call is answered for good: whoever keeps retrying a suspended call is
\* let through or denied once the human has answered, and a call that only looked
\* is confirmed.
CallsEnd == \A c \in Caller : (call[c].pc # "idle") ~> (call[c].pc \in {"delivered", "denied"})
-----------------------------------------------------------------------------
\* Not so: an approval the asked approver gave is never turned down.
ApprovedIsNotRejected ==
  \A c \in Caller :
    (call[c].pc = "denied" /\ call[c].verdict = "deny" /\ Step(c).do = "elicit"
       /\ Step(c).scope /\ Step(c).from # {})
      => \A i \in call[c].id : ~GivenAsAsked(i)

\* Not so: a call goes through only if the human the step names approved
\* (elicitation.md 82: the approver is "cross-checked against `from`"; the threat
\* model, line 40, names a sign-off that is reused for a different action).
StepsApproverApproved ==
  \A c \in Caller : call[c].pc \in LetThrough =>
    \A s \in StepsPassed(c) : (s.do = "elicit" /\ s.on_error = "deny") =>
      \E i \in call[c].id : op[i].state \in s.from

\* Not so: "a session id chosen by one principal cannot address another
\* principal's session bucket" (session_resolver.rs 101-102).
SubjectsSeparate ==
  \A c \in Caller :
    call[c].labels \subseteq
      UNION {RouteLabels(plan[d].route) : d \in {d \in Caller : plan[d].who.sub = plan[c].who.sub}}

\* Not so: the labels a call was given are in the store when it is let through.
RetaintStored ==
  [][\A c \in Caller : (call[c].pc = "persist" /\ call'[c].pc \in LetThrough) =>
       \A k \in Session(c) : call[c].taints # {} => k \in DOMAIN stored' /\ call[c].taints \subseteq stored'[k]]_vars

\* Not so: a call that only asks about its approval is not let through.
PeekDoesNotCommit ==
  \A c \in Caller : call[c].pc \in LetThrough => ~call[c].peek
=============================================================================
