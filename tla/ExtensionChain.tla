--------------------------- MODULE ExtensionChain ---------------------------
(***************************************************************************)
(* One request's canonical extensions under a chain of plugins that may    *)
(* modify them (the sequential and transform phases of the executor).      *)
(* Each plugin is dispatched with the view its capabilities allow, returns *)
(* a copy in which it may have changed anything, and the executor merges   *)
(* or rejects the copy.  A plugin runs in the process or in a worker.      *)
(***************************************************************************)
EXTENDS Extensions

CONSTANTS Label, Header,    \* security labels, HTTP headers
          Sensitive,        \* the headers that carry credentials
          Auth, Details,    \* the two parts of a delegation hop
          Token,            \* raw credential tokens
          CapSets,          \* capability sets plugins are configured with
          MaxHops           \* bound on the length of a returned chain

ASSUME HopsAssumption == MaxHops \in Nat

VARIABLES ext,   \* the pipeline's canonical extensions
          by     \* capabilities of the plugin that ran last

vars == <<ext, by>>

Hop == [auth : Auth, details : Details]

Chain == UNION {[1..n -> Hop] : n \in 0..MaxHops}

Opt(S) == {None} \cup {Some(x) : x \in S}

Subject == [id : {"alice", "bob"}, fields : [SubjectField -> SUBSET {"x"}]]

Security == [labels : SUBSET Label, subject : Opt(Subject), client : Opt({"app"}),
             workload : Opt({"peer"}), open : Opt({"meta"})]

Http == [line : Opt({"get", "other"}), headers : SUBSET Header]

Delegation == [chain : Chain, origin : Opt({"root"})]

Raw == [inbound : SUBSET Token, delegated : SUBSET Token]

Ext == [ request : Opt({"req", "other"}), agent : Opt({"agt", "other"}),
         http : Opt(Http), security : Opt(Security), constraint : Opt({"c1"}),
         delegation : Opt(Delegation), raw : Opt(Raw), custom : Opt({"v1"}) ]

\* Merging never leaves a slot in a shape the container cannot hold
\* (merge_owned, container.rs 292-455).
TypeOK == ext \in Ext /\ by \in CapSets \cup {{}}

-----------------------------------------------------------------------------
Alice == [id |-> "alice", fields |-> [f \in SubjectField |-> {"x"}]]

Bob == [id |-> "bob", fields |-> [f \in SubjectField |-> {}]]

\* What a host hands to the pipeline: every slot filled, or only the request.
FullExt ==
  [ request |-> Some("req"), agent |-> Some("agt"),
    http |-> Some([line |-> Some("get"), headers |-> Header]),
    security |-> Some([labels |-> {}, subject |-> Some(Alice), client |-> Some("app"),
                       workload |-> Some("peer"), open |-> Some("meta")]),
    constraint |-> None, delegation |-> None,
    raw |-> Some([inbound |-> Token, delegated |-> Token]), custom |-> None ]

BareExt ==
  [ request |-> Some("req"), agent |-> None, http |-> None, security |-> None,
    constraint |-> None, delegation |-> None, raw |-> None, custom |-> None ]

Init == ext \in {FullExt, BareExt} /\ by = {}

\* The copies a handler may return: its view with one slot edited or left out.
\* The raw credentials, which it shares with the host, are returned as shown or
\* left out.
Returned(view) ==
  LET sec == DefaultTo(view.security, DefaultSecurity)
  IN    {[view EXCEPT !.request = v] : v \in {None, Some("other")}}
   \cup {[view EXCEPT !.agent = v] : v \in {None, Some("other")}}
   \cup {[view EXCEPT !.http = v] : v \in Opt([line : {Some("other")}, headers : SUBSET Header])}
   \cup {[view EXCEPT !.security = None]}
   \cup {[view EXCEPT !.security = {[s EXCEPT !.labels = l] : s \in sec}] : l \in SUBSET Label}
   \cup {[view EXCEPT !.security = {[s EXCEPT !.subject = Some(Bob)] : s \in sec}]}
   \cup {[view EXCEPT !.constraint = v] : v \in Opt({"c1"})}
   \cup {[view EXCEPT !.delegation = v] : v \in Opt(Delegation)}
   \cup {[view EXCEPT !.raw = None]}
   \cup {[view EXCEPT !.custom = v] : v \in Opt({"v1"})}

\* A plugin with capabilities `caps` runs in a modifying phase.
RunPlugin(caps) ==
  /\ \E owned \in Returned(FilterExtensions(ext, caps)) :
       ext' = AcceptExtensions(ext, owned, caps)
  /\ by' = caps

-----------------------------------------------------------------------------
(* A plugin in a Python worker is sent its view without credentials, and the *)
(* host rebuilds from the reply the copy that the executor merges.  A message *)
(* is of the container's shape: the slots that do not travel (constraint,     *)
(* raw) are ignored in it, and None is both an omitted field and null.        *)

StripSensitive(headers) == headers \ Sensitive

SanitizeHttp(http) == [http EXCEPT !.headers = StripSensitive(@)]

\* attach_extensions: the view as the worker is sent it.
ToWire(view) ==
  [view EXCEPT !.http = {SanitizeHttp(h) : h \in @}, !.constraint = None, !.raw = None]

\* The request line is the one the executor issued.
ReturnedHttp(returned, inbound) ==
  [line |-> UNION {h.line : h \in inbound}, headers |-> StripSensitive(returned.headers)]

\* Fault: the first hop of a request has nothing to extend.
ChainTakenIfShown(returned, inbound) == \A r \in returned : \E d \in inbound : ChainExtends(d.chain, r.chain)

ChainTaken(returned, inbound) ==
  \A r \in returned, d \in DefaultTo(inbound, DefaultDelegation) : ChainExtends(d.chain, r.chain)

\* Labels are added to those the plugin was shown; nothing else is taken.
SecurityTaken(returned, inbound) ==
  {[b EXCEPT !.labels = @ \cup r.labels] : b \in DefaultTo(inbound, DefaultSecurity), r \in returned}

\* owned_from_returned_slot: {} when nothing was taken from the reply, and otherwise
\* the copy that the executor merges.  A gated slot needs the write token.
OwnedFromReturned(reply, view, caps) ==
  LET http == reply.http # None /\ "write_headers" \in caps
      security == reply.security # None /\ "append_labels" \in caps
      delegation == /\ reply.delegation # None /\ "append_delegation" \in caps
                    /\ ChainTaken(reply.delegation, view.delegation)
      custom == reply.custom # None
  IN  IF ~(http \/ security \/ delegation \/ custom) THEN {}
      ELSE {[view EXCEPT
               !.http = IF http THEN {ReturnedHttp(h, @) : h \in reply.http} ELSE @,
               !.security = IF security THEN SecurityTaken(reply.security, @) ELSE @,
               !.delegation = IF delegation THEN reply.delegation ELSE @,
               !.custom = IF custom THEN reply.custom ELSE @]}

\* The canonical extensions after the worker of a plugin that was shown `view` replied.
AfterReply(before, reply, view, caps) ==
  LET owned == OwnedFromReturned(reply, view, caps)
  IN  IF owned = {} THEN before ELSE AcceptExtensions(before, The(owned), caps)

\* A plugin in a worker runs, and the worker replies.  A reply with a slot that
\* cannot be parsed is the plugin's error and changes nothing.
RunRemotePlugin(caps) ==
  LET view == FilterExtensions(ext, caps)
  IN  /\ \/ \E reply \in Returned(ToWire(view)) : ext' = AfterReply(ext, reply, view, caps)
         \/ UNCHANGED ext
      /\ by' = caps

-----------------------------------------------------------------------------
Next == \E caps \in CapSets : RunPlugin(caps) \/ RunRemotePlugin(caps)

Spec == Init /\ [][Next]_vars

-----------------------------------------------------------------------------
\* The flat slots the tier table speaks about.
Slot == DOMAIN SlotPolicy

RawSlot == {"inbound", "delegated"}

SubjectOf(e) == UNION {s.subject : s \in e.security}

SlotValue(e, slot) ==
  CASE slot = "request"    -> e.request
    [] slot = "agent"      -> e.agent
    [] slot = "custom"     -> e.custom
    [] slot = "headers"    -> {h.headers : h \in e.http} \ {{}}
    [] slot = "labels"     -> UNION {s.labels : s \in e.security}
    [] slot = "subject"    -> {s.id : s \in SubjectOf(e)}
    [] slot \in SubjectField -> UNION {s.fields[slot] : s \in SubjectOf(e)}
    [] slot = "client"     -> UNION {s.client : s \in e.security}
    [] slot = "workload"   -> UNION {s.workload : s \in e.security}
    [] slot = "open"       -> UNION {s.open : s \in e.security}
    [] slot = "delegation" -> e.delegation
    [] slot = "inbound"    -> UNION {r.inbound : r \in e.raw}
    [] slot = "delegated"  -> UNION {r.delegated : r \in e.raw}

Grows(slot, before, after) ==
  IF slot = "delegation"
  THEN \A d \in before : \E a \in after : ChainExtends(d.chain, a.chain)
  ELSE before \subseteq after

\* May a plugin with capabilities `caps` take the slot from `before` to
\* `after`, according to the tier table?
TierAllows(slot, caps, before, after) ==
  \/ before = after
  \/ /\ SlotPolicy[slot].tier # "Immutable"
     /\ SlotPolicy[slot].write \subseteq caps
     /\ SlotPolicy[slot].tier = "Monotonic" => Grows(slot, before, after)

\* merge_owned and the tier table of slot_policy are two statements of who may
\* change what.  Whatever a chain of plugins returns, each slot other than the
\* raw credentials only changes as its tier and write capability allow; the
\* request line, the chain's root and the routing constraint follow their own
\* rules (container.rs 302-455, filter.rs 57-211).
TierStep ==
  /\ \A slot \in Slot \ RawSlot :
       TierAllows(slot, by', SlotValue(ext, slot), SlotValue(ext', slot))
  /\ \A h \in ext.http : {g.line : g \in ext'.http} = {h.line}
  /\ \A d \in ext.delegation : \A o \in d.origin :
       \A a \in ext'.delegation : a.origin = Some(o)
  /\ ext'.constraint # ext.constraint => "write_candidate_constraint" \in by'

\* Every step of the chain does.
TierRespected == [][TierStep]_vars

\* The slot with its content taken away.
Scrub(e, slot) ==
  LET OnSecurity(F(_)) == [e EXCEPT !.security = {F(s) : s \in @}]
      OnSubject(F(_)) == OnSecurity(LAMBDA s : [s EXCEPT !.subject = {F(j) : j \in @}])
  IN CASE slot = "agent"      -> [e EXCEPT !.agent = None]
       [] slot = "headers"    -> [e EXCEPT !.http = None]
       [] slot = "delegation" -> [e EXCEPT !.delegation = None]
       [] slot = "labels"     -> OnSecurity(LAMBDA s : [s EXCEPT !.labels = {}])
       [] slot = "subject"    -> OnSecurity(LAMBDA s : [s EXCEPT !.subject = None])
       [] slot \in SubjectField -> OnSubject(LAMBDA j : [j EXCEPT !.fields[slot] = {}])
       [] slot = "client"     -> OnSecurity(LAMBDA s : [s EXCEPT !.client = None])
       [] slot = "workload"   -> OnSecurity(LAMBDA s : [s EXCEPT !.workload = None])
       [] slot = "inbound"    -> [e EXCEPT !.raw = {[r EXCEPT !.inbound = {}] : r \in @}]
       [] slot = "delegated"  -> [e EXCEPT !.raw = {[r EXCEPT !.delegated = {}] : r \in @}]
       [] OTHER               -> e

\* A plugin's view does not depend on a slot it holds no capability for: the
\* view is the same as if the slot were empty, and for whole slots absent
\* (filter_extensions, filter.rs 280-473).
HiddenSlotsInvisible ==
  \A caps \in CapSets, slot \in Slot :
    ~HasReadAccess(slot, caps)
      => FilterExtensions(ext, caps) = FilterExtensions(Scrub(ext, slot), caps)

\* The canonical extensions after a plugin returns `owned`.
After(owned, caps) == AcceptExtensions(ext, owned, caps)

\* A plugin that hands its own view back untouched changes nothing outside the
\* raw credentials, however little of the extensions it could see: the blanks
\* the filter left in its copy are not taken for edits (merge_owned).
RoundTripHarmless ==
  \A caps \in CapSets :
    [After(FilterExtensions(ext, caps), caps) EXCEPT !.raw = ext.raw] = ext

\* What a plugin cannot see it neither learns nor, raw credentials aside, changes by
\* handing back its view.
ViewsHarmless == HiddenSlotsInvisible /\ RoundTripHarmless

\* What the two paths may differ in: raw credentials and the routing constraint do
\* not travel, and credential headers are stripped.
Comparable(e) ==
  [e EXCEPT !.raw = None, !.constraint = None, !.http = {SanitizeHttp(h) : h \in @}]

\* An edit has the same effect from a worker as from a plugin in the process with
\* the same capabilities, on all that travels, unless it takes something away:
\* the host's rebuilding of the copy and the executor's merge agree on who may
\* write what (owned_from_returned_slot and merge_owned).
RemoteLikeLocal ==
  \A caps \in CapSets :
    LET view == FilterExtensions(ext, caps)
    IN  \A edit \in Returned(view) :
          /\ view.custom = None \/ edit.custom # None
          /\ \A v \in view.security, e \in edit.security : v.labels \subseteq e.labels
          => Comparable(AfterReply(ext, edit, view, caps)) = Comparable(After(edit, caps))

\* Said of a worker's reply: "a `custom` write can no longer drag a
\* capability-filtered `security` or `http` view into the merge behind it"
\* (cpex-hosts-python extensions.rs 397-400).
CustomWriteAlone ==
  \A caps \in CapSets :
    LET view == FilterExtensions(ext, caps)
        reply == [ToWire(view) EXCEPT !.custom = Some("v1")]
    IN  AfterReply(ext, reply, view, caps).http = ext.http

\* Said of the raw credentials: plugins never write them (tiers.rs 30-34).
RawCredentialsOwnedByFramework ==
  [][ext'.raw = ext.raw]_vars

\* A holder of append_labels that adds a label to the view it was given adds
\* it to the request, also when it cannot read the labels already there
\* (executor.rs 550-554: a label absent from its view "is not a removal").
AppendedLabelKept ==
  \A caps \in CapSets, l \in Label :
    LET view == FilterExtensions(ext, caps)
        owned == [view EXCEPT !.security = {[s EXCEPT !.labels = @ \cup {l}] : s \in @}]
    IN "append_labels" \in caps /\ ext.security # None
         => l \in SlotValue(After(owned, caps), "labels")

\* Said of a chain that is taken back: every existing hop is unchanged
\* (container.rs 386-387).
ExistingHopsUnchanged ==
  [][ \A d \in ext.delegation, a \in ext'.delegation :
        \A i \in 1..Len(d.chain) : a.chain[i] = d.chain[i] ]_vars
=============================================================================
