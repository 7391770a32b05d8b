----------------------------- MODULE Extensions -----------------------------
(***************************************************************************)
(* The extensions container of cpex-core as operators: the capability      *)
(* filter that builds a plugin's view, and the field-by-field merge that   *)
(* takes a plugin's returned copy back.                                    *)
(*                                                                         *)
(* An Option is a set with at most one element.  Slots with the same       *)
(* treatment share a field: `request` stands for the seven unrestricted    *)
(* immutable slots, `workload` for the two workload identities, `open` for *)
(* the ungated sub-fields of security, `line` for the request line, and a  *)
(* hop's `details` for what chain_extends does not compare.  An immutable  *)
(* slot's value is the identity of its Arc.                                *)
(***************************************************************************)
EXTENDS Naturals, Sequences

None == {}

Some(x) == {x}

The(o) == CHOOSE x \in o : TRUE

SubjectField == {"roles", "permissions", "teams", "claims"}

\* slot_policy: tier, reading capability and writing capability of each slot.
\* An empty capability set means the slot is unrestricted (read) or that no
\* capability grants writing (write).
Policy(tier, read, write) == [tier |-> tier, read |-> read, write |-> write]

SlotPolicy ==
  [ request      |-> Policy("Immutable", None, None),
    open         |-> Policy("Immutable", None, None),
    agent        |-> Policy("Immutable", Some("read_agent"), None),
    headers      |-> Policy("Mutable", Some("read_headers"), Some("write_headers")),
    delegation   |-> Policy("Monotonic", Some("read_delegation"), Some("append_delegation")),
    labels       |-> Policy("Monotonic", Some("read_labels"), Some("append_labels")),
    subject      |-> Policy("Immutable", Some("read_subject"), None),
    roles        |-> Policy("Immutable", Some("read_roles"), None),
    permissions  |-> Policy("Immutable", Some("read_permissions"), None),
    teams        |-> Policy("Immutable", Some("read_teams"), None),
    claims       |-> Policy("Immutable", Some("read_claims"), None),
    client       |-> Policy("Immutable", Some("read_client"), None),
    workload     |-> Policy("Immutable", Some("read_workload"), None),
    inbound      |-> Policy("Immutable", Some("read_inbound_credentials"), None),
    delegated    |-> Policy("Immutable", Some("read_delegated_tokens"), None),
    custom       |-> Policy("Mutable", None, None) ]

HasAnySubjectCapability(caps) ==
  \E f \in SubjectField \cup {"subject"} : SlotPolicy[f].read \subseteq caps

HasReadAccess(slot, caps) ==
  \/ SlotPolicy[slot].read \subseteq caps
  \/ slot = "subject" /\ HasAnySubjectCapability(caps)

BuildFilteredSubject(subject, caps) ==
  [ id     |-> subject.id,
    fields |-> [f \in SubjectField |->
                  IF HasReadAccess(f, caps) THEN subject.fields[f] ELSE {}] ]

BuildFilteredSecurity(security, caps) ==
  [ labels   |-> IF HasReadAccess("labels", caps) THEN security.labels ELSE {},
    subject  |-> IF HasAnySubjectCapability(caps)
                 THEN {BuildFilteredSubject(s, caps) : s \in security.subject}
                 ELSE None,
    client   |-> IF HasReadAccess("client", caps) THEN security.client ELSE None,
    workload |-> IF HasReadAccess("workload", caps) THEN security.workload ELSE None,
    open     |-> security.open ]

BuildFilteredRawCredentials(raw, allow_inbound, allow_delegated) ==
  [ inbound   |-> IF allow_inbound THEN raw.inbound ELSE {},
    delegated |-> IF allow_delegated THEN raw.delegated ELSE {} ]

\* The view a plugin with capabilities `caps` is dispatched with.
FilterExtensions(ext, caps) ==
  LET inbound == HasReadAccess("inbound", caps)
      delegated == HasReadAccess("delegated", caps)
  IN [ request    |-> ext.request,
       custom     |-> ext.custom,
       constraint |-> ext.constraint,
       delegation |-> IF HasReadAccess("delegation", caps) THEN ext.delegation ELSE None,
       agent      |-> IF HasReadAccess("agent", caps) THEN ext.agent ELSE None,
       http       |-> IF HasReadAccess("headers", caps) THEN ext.http ELSE None,
       security   |-> {BuildFilteredSecurity(s, caps) : s \in ext.security},
       raw        |-> IF inbound \/ delegated
                      THEN {BuildFilteredRawCredentials(r, inbound, delegated) : r \in ext.raw}
                      ELSE None ]

\* ptr_eq_opt: a slot absent from the returned copy was hidden, not removed.
PtrEqOpt(a, b) == b = None \/ a = b

ValidateImmutable(ext, owned) ==
  /\ PtrEqOpt(ext.request, owned.request)
  /\ PtrEqOpt(ext.agent, owned.agent)

\* The executor's label check, applied to plugins that can read labels.
LabelsOk(ext, owned, caps) ==
  \/ "read_labels" \notin caps
  \/ \A orig \in ext.security, new \in owned.security : orig.labels \subseteq new.labels

CandidateConstraintWriteOk(ext, owned, caps) ==
  \/ "write_candidate_constraint" \in caps
  \/ owned.constraint = ext.constraint

DefaultHttp == [line |-> None, headers |-> {}]

DefaultSecurity == [labels |-> {}, subject |-> None, client |-> None,
                    workload |-> None, open |-> None]

DefaultDelegation == [chain |-> <<>>, origin |-> None]

DefaultTo(o, d) == IF o = None THEN Some(d) ELSE o

\* Headers are taken from the returned copy, the request line never is.
MergeHttp(http, owned, token) ==
  IF owned = None \/ ~token THEN http
  ELSE {[line |-> c.line, headers |-> o.headers] :
          c \in DefaultTo(http, DefaultHttp), o \in owned}

\* Faults: the returned label set is assigned, or the whole slot is.
MergeSecurityAssign(security, owned, token) ==
  IF owned = None \/ ~token THEN security
  ELSE {[b EXCEPT !.labels = o.labels] :
          b \in DefaultTo(security, DefaultSecurity), o \in owned}

MergeSecuritySwap(security, owned, token) == IF owned = None THEN security ELSE owned

\* Only labels are taken, and only when the returned set contains every
\* canonical label.
MergeSecurity(security, owned, token) ==
  LET base == DefaultTo(security, DefaultSecurity)
  IN IF \/ owned = None
        \/ ~token
        \/ \E b \in base, o \in owned : ~(b.labels \subseteq o.labels)
     THEN security
     ELSE {[b EXCEPT !.labels = b.labels \cup o.labels] : b \in base, o \in owned}

\* chain_extends compares the fields of a hop that carry authority.
ChainExtends(canonical, returned) ==
  /\ Len(returned) >= Len(canonical)
  /\ \A i \in 1..Len(canonical) : canonical[i].auth = returned[i].auth

MergeDelegation(delegation, owned, token) ==
  IF \/ owned = None
     \/ ~token
     \/ \E d \in delegation, o \in owned : ~ChainExtends(d.chain, o.chain)
  THEN delegation
  ELSE {[chain |-> o.chain, origin |-> IF d.origin = None THEN o.origin ELSE d.origin] :
          d \in DefaultTo(delegation, DefaultDelegation), o \in owned}

\* merge_owned, with the write tokens the executor derives from `caps`.
MergeOwned(ext, owned, caps) ==
  [ ext EXCEPT
      !.http       = MergeHttp(@, owned.http, "write_headers" \in caps),
      !.security   = MergeSecurity(@, owned.security, "append_labels" \in caps),
      !.constraint = owned.constraint,
      !.delegation = MergeDelegation(@, owned.delegation, "append_delegation" \in caps),
      !.custom     = owned.custom,
      !.raw        = IF owned.raw = None THEN @ ELSE owned.raw ]

\* What the serial phases do with a plugin's modified_extensions: merge it, or
\* reject it whole.
AcceptExtensions(ext, owned, caps) ==
  IF /\ ValidateImmutable(ext, owned)
     /\ LabelsOk(ext, owned, caps)
     /\ CandidateConstraintWriteOk(ext, owned, caps)
  THEN MergeOwned(ext, owned, caps)
  ELSE ext
=============================================================================
