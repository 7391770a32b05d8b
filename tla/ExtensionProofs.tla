-------------------------- MODULE ExtensionProofs --------------------------
(***************************************************************************)
(* What travels with a message: for any labels, headers, authorities,      *)
(* tokens, capability sets and number of hops, handing back the view of a  *)
(* plugin changes nothing, every step keeps to the tier of each slot, and  *)
(* an edit made in a worker has the effect of the same edit made in the    *)
(* process.                                                                *)
(***************************************************************************)
EXTENDS ExtensionChain, TLAPS

\* An Option holds one value or none.
LEMMA OptionOf ==
  ASSUME NEW S, NEW o \in Opt(S)
  PROVE  o = {} \/ \E x \in S : o = {x}
BY Zenon DEF Opt, None, Some

\* One value, or none, is an Option.
LEMMA OptionFrom ==
  ASSUME NEW S
  PROVE  {} \in Opt(S) /\ \A x \in S : {x} \in Opt(S)
BY Zenon DEF Opt, None, Some

\* What is in a container.
LEMMA Fields ==
  ASSUME NEW e \in Ext
  PROVE  /\ e.request \in Opt({"req", "other"}) /\ e.agent \in Opt({"agt", "other"})
         /\ e.http \in Opt(Http) /\ e.security \in Opt(Security) /\ e.constraint \in Opt({"c1"})
         /\ e.delegation \in Opt(Delegation) /\ e.raw \in Opt(Raw) /\ e.custom \in Opt({"v1"})
BY Zenon DEF Ext

\* The capability that reading each slot takes (slot_policy).
LEMMA Reads ==
  ASSUME NEW caps
  PROVE  /\ HasReadAccess("labels", caps) <=> "read_labels" \in caps
         /\ HasReadAccess("request", caps) /\ HasReadAccess("open", caps) /\ HasReadAccess("custom", caps)
         /\ HasReadAccess("subject", caps) <=> HasAnySubjectCapability(caps)
         /\ \A f \in SubjectField : HasReadAccess(f, caps) => HasAnySubjectCapability(caps)
<1>1. /\ SlotPolicy["labels"].read = {"read_labels"}
      /\ SlotPolicy["request"].read = {} /\ SlotPolicy["open"].read = {} /\ SlotPolicy["custom"].read = {}
  BY Zenon DEF SlotPolicy, Policy, None, Some
<1> QED
  BY Zenon, <1>1 DEF HasReadAccess, HasAnySubjectCapability, SubjectField

-----------------------------------------------------------------------------
\* A filtered security slot is one, without what the capabilities do not show
\* (build_filtered_security).
LEMMA SecurityFiltered ==
  ASSUME NEW s \in Security, NEW caps
  PROVE  /\ BuildFilteredSecurity(s, caps) \in Security
         /\ BuildFilteredSecurity(s, caps).labels
              = IF HasReadAccess("labels", caps) THEN s.labels ELSE {}
<1>1. /\ s.labels \in SUBSET Label /\ s.subject \in Opt(Subject) /\ s.client \in Opt({"app"})
      /\ s.workload \in Opt({"peer"}) /\ s.open \in Opt({"meta"})
  BY Zenon DEF Security
<1>2. \A j \in Subject : BuildFilteredSubject(j, caps) \in Subject
  BY Zenon DEF BuildFilteredSubject, Subject
<1>3. {BuildFilteredSubject(j, caps) : j \in s.subject} \in Opt(Subject)
  <2>1. CASE s.subject = {}
    <3>1. {BuildFilteredSubject(j, caps) : j \in s.subject} = {}
      BY Zenon, <2>1
    <3> QED
      BY Zenon, <3>1, OptionFrom
  <2>2. CASE \E j \in Subject : s.subject = {j}
    <3>1. PICK j \in Subject : s.subject = {j}
      BY Zenon, <2>2
    <3>2. {BuildFilteredSubject(i, caps) : i \in s.subject} = {BuildFilteredSubject(j, caps)}
      BY Zenon, <3>1
    <3> QED
      BY Zenon, <1>2, <3>2, OptionFrom
  <2> QED
    BY Zenon, <1>1, <2>1, <2>2, OptionOf
<1>4. None \in Opt(Subject) /\ None \in Opt({"app"}) /\ None \in Opt({"peer"})
  BY Zenon, OptionFrom DEF None
<1>5. {} \in SUBSET Label
  BY Zenon
<1> DEFINE v == BuildFilteredSecurity(s, caps)
<1>7. /\ v = [labels |-> v.labels, subject |-> v.subject, client |-> v.client, workload |-> v.workload,
              open |-> v.open]
      /\ v.labels = IF HasReadAccess("labels", caps) THEN s.labels ELSE {}
      /\ v.subject \in {{BuildFilteredSubject(j, caps) : j \in s.subject}, None}
      /\ v.client \in {s.client, None} /\ v.workload \in {s.workload, None} /\ v.open = s.open
  BY Zenon DEF BuildFilteredSecurity
<1> HIDE DEF v
<1>8. v \in Security
  BY Zenon, <1>1, <1>3, <1>4, <1>5, <1>7 DEF Security
<1> QED
  BY Zenon, <1>7, <1>8 DEF v

\* What a view is made of (filter_extensions).
LEMMA ViewFields ==
  ASSUME NEW e \in Ext, NEW caps
  PROVE  LET v == FilterExtensions(e, caps)
         IN  /\ v.request = e.request /\ v.custom = e.custom /\ v.constraint = e.constraint
             /\ v.delegation \in {e.delegation, {}} /\ v.agent \in {e.agent, {}} /\ v.http \in {e.http, {}}
             /\ v.security = {BuildFilteredSecurity(s, caps) : s \in e.security}
BY Zenon DEF FilterExtensions, None

\* A filtered slot of raw credentials is one (build_filtered_raw_credentials).
LEMMA RawFiltered ==
  ASSUME NEW r \in Raw, NEW a \in BOOLEAN, NEW b \in BOOLEAN
  PROVE  BuildFilteredRawCredentials(r, a, b) \in Raw
BY Zenon DEF BuildFilteredRawCredentials, Raw

\* A view is a container (filter_extensions).
LEMMA ViewTyped ==
  ASSUME NEW e \in Ext, NEW caps
  PROVE  FilterExtensions(e, caps) \in Ext
<1> DEFINE v == FilterExtensions(e, caps)
           a == HasReadAccess("inbound", caps)
           b == HasReadAccess("delegated", caps)
<1>1. v.security \in Opt(Security)
  <2>1. CASE e.security = {}
    <3>1. v.security = {}
      BY <2>1, ViewFields
    <3> QED
      BY Zenon, <3>1, OptionFrom
  <2>2. CASE \E s \in Security : e.security = {s}
    <3>1. PICK s \in Security : e.security = {s}
      BY Zenon, <2>2
    <3>2. v.security = {BuildFilteredSecurity(s, caps)}
      BY <3>1, ViewFields
    <3> QED
      BY Zenon, <3>2, SecurityFiltered, OptionFrom
  <2> QED
    BY <2>1, <2>2, Fields, OptionOf
<1>2. v.raw \in Opt(Raw)
  <2>1. v.raw = {} \/ v.raw = {BuildFilteredRawCredentials(r, a, b) : r \in e.raw}
    BY Zenon DEF FilterExtensions, None
  <2>2. a \in BOOLEAN /\ b \in BOOLEAN
    BY Zenon DEF HasReadAccess
  <2> HIDE DEF a, b, v
  <2>3. CASE v.raw = {} \/ e.raw = {}
    <3>1. v.raw = {}
      BY Zenon, <2>1, <2>3
    <3> QED
      BY Zenon, <3>1, OptionFrom
  <2>4. CASE v.raw # {} /\ \E r \in Raw : e.raw = {r}
    <3>1. PICK r \in Raw : e.raw = {r}
      BY Zenon, <2>4
    <3>2. v.raw = {BuildFilteredRawCredentials(r, a, b)}
      BY Zenon, <2>1, <2>4, <3>1
    <3> QED
      BY Zenon, <2>2, <3>2, RawFiltered, OptionFrom
  <2> QED
    BY <2>3, <2>4, Fields, OptionOf
<1>3. /\ v.request = e.request /\ v.custom = e.custom /\ v.constraint = e.constraint
      /\ v.delegation \in {e.delegation, {}} /\ v.agent \in {e.agent, {}} /\ v.http \in {e.http, {}}
  BY Zenon, ViewFields
<1>4. v = [request |-> v.request, agent |-> v.agent, http |-> v.http, security |-> v.security,
           constraint |-> v.constraint, delegation |-> v.delegation, raw |-> v.raw, custom |-> v.custom]
  BY Zenon DEF FilterExtensions
<1> HIDE DEF v
<1>5. /\ v.delegation \in Opt(Delegation) /\ v.agent \in Opt({"agt", "other"}) /\ v.http \in Opt(Http)
      /\ v.request \in Opt({"req", "other"}) /\ v.custom \in Opt({"v1"}) /\ v.constraint \in Opt({"c1"})
  BY Zenon, <1>3, Fields, OptionFrom
<1>6. v \in Ext
  BY Zenon, <1>1, <1>2, <1>4, <1>5 DEF Ext
<1> QED
  BY Zenon, <1>6 DEF v
-----------------------------------------------------------------------------
\* What a merged container is made of (merge_owned).
LEMMA MergedFields ==
  ASSUME NEW e \in Ext, NEW owned \in Ext, NEW caps
  PROVE  LET m == MergeOwned(e, owned, caps)
         IN  /\ m.request = e.request /\ m.agent = e.agent /\ m.custom = owned.custom
             /\ m.constraint = owned.constraint
             /\ m.http = MergeHttp(e.http, owned.http, "write_headers" \in caps)
             /\ m.security = MergeSecurity(e.security, owned.security, "append_labels" \in caps)
             /\ m.delegation = MergeDelegation(e.delegation, owned.delegation, "append_delegation" \in caps)
             /\ m.raw \in {e.raw, owned.raw}
             /\ m = [request |-> m.request, agent |-> m.agent, http |-> m.http, security |-> m.security,
                     constraint |-> m.constraint, delegation |-> m.delegation, raw |-> m.raw,
                     custom |-> m.custom]
<1> DEFINE m == MergeOwned(e, owned, caps)
           h == MergeHttp(e.http, owned.http, "write_headers" \in caps)
           s == MergeSecurity(e.security, owned.security, "append_labels" \in caps)
           d == MergeDelegation(e.delegation, owned.delegation, "append_delegation" \in caps)
           w == IF owned.raw = None THEN e.raw ELSE owned.raw
<1>1. m = [e EXCEPT !.http = h, !.security = s, !.constraint = owned.constraint,
                    !.delegation = d, !.custom = owned.custom, !.raw = w]
  BY Zenon DEF MergeOwned
<1> HIDE DEF h, s, d, w, m
<1>2. m = [request |-> e.request, agent |-> e.agent, http |-> h, security |-> s,
           constraint |-> owned.constraint, delegation |-> d, raw |-> w, custom |-> owned.custom]
  BY Zenon, <1>1 DEF Ext
<1>3. w \in {e.raw, owned.raw}
  BY Zenon DEF w
<1>4. m.http = h /\ m.security = s /\ m.delegation = d /\ m.raw = w
  BY Zenon, <1>2
<1>5. /\ m.request = e.request /\ m.agent = e.agent /\ m.custom = owned.custom
      /\ m.constraint = owned.constraint
  BY Zenon, <1>2
<1>6. m = [request |-> m.request, agent |-> m.agent, http |-> m.http, security |-> m.security,
           constraint |-> m.constraint, delegation |-> m.delegation, raw |-> m.raw,
           custom |-> m.custom]
  BY Zenon, <1>2, <1>4, <1>5
<1> QED
  BY Zenon, <1>3, <1>4, <1>5, <1>6 DEF m, h, s, d

\* Headers are replaced only with the token, and the request line never is
\* (merge_owned).
LEMMA HttpMerged ==
  ASSUME NEW e \in Ext, NEW owned \in Ext, NEW caps
  PROVE  LET t == "write_headers" \in caps
             h == e.http
             o == owned.http
             m == MergeOwned(e, owned, caps).http
         IN  /\ m \in Opt(Http)
             /\ ~t \/ o = {} => m = h
             /\ \A x \in h : \E g \in Http : m = {g} /\ g.line = x.line
             /\ h = {} => \A g \in m : g.line = {}
             /\ t => \A y \in o : \E g \in Http : m = {g} /\ g.headers = y.headers
<1> DEFINE t == "write_headers" \in caps
<1>0. PICK h \in Opt(Http), o \in Opt(Http), m \in {MergeOwned(e, owned, caps).http} :
        /\ h = e.http /\ o = owned.http
        /\ m = MergeHttp(h, o, t)
  <2>1. e.http \in Opt(Http) /\ owned.http \in Opt(Http)
    BY Zenon, Fields
  <2>2. MergeOwned(e, owned, caps).http = MergeHttp(e.http, owned.http, t)
    BY MergedFields
  <2> QED
    BY Zenon, <2>1, <2>2
<1> SUFFICES /\ m \in Opt(Http)
             /\ ~t \/ o = {} => m = h
             /\ \A x \in h : \E g \in Http : m = {g} /\ g.line = x.line
             /\ h = {} => \A g \in m : g.line = {}
             /\ t => \A y \in o : \E g \in Http : m = {g} /\ g.headers = y.headers
  BY <1>0
<1>1. CASE ~t \/ o = {}
  <2>1. m = h
    BY <1>1, <1>0 DEF MergeHttp, None
  <2>2. \A x \in h : x \in Http /\ h = {x}
    BY OptionOf
  <2> QED
    BY Zenon, <1>1, <2>1, <2>2
<1>2. CASE t /\ o # {}
  <2>1. PICK y \in Http : o = {y}
    BY <1>2, OptionOf
  <2>2. PICK c \in Http : DefaultTo(h, DefaultHttp) = {c} /\ (h # {} => h = {c})
    <3>1. DefaultHttp \in Http
      BY Zenon, OptionFrom DEF DefaultHttp, Http, None
    <3>2. CASE h = {}
      BY Zenon, <3>1, <3>2 DEF DefaultTo, None, Some
    <3>3. CASE h # {}
      BY <3>3, OptionOf DEF DefaultTo, None
    <3> QED
      BY Zenon, <3>2, <3>3
  <2>3. m = {[line |-> c.line, headers |-> y.headers]}
    BY <1>2, <2>1, <2>2, <1>0 DEF MergeHttp, None
  <2>4. [line |-> c.line, headers |-> y.headers] \in Http
    BY Zenon DEF Http
  <2>5. m \in Opt(Http)
    BY Zenon, <2>3, <2>4, OptionFrom
  <2>6. \A x \in h : \E g \in Http : m = {g} /\ g.line = x.line
    BY Zenon, <2>2, <2>3, <2>4
  <2>7. \A z \in o : \E g \in Http : m = {g} /\ g.headers = z.headers
    BY Zenon, <2>1, <2>3, <2>4
  <2>8. h = {} => c.line = {}
    BY <2>2 DEF DefaultTo, DefaultHttp, None, Some
  <2> QED
    BY <1>2, <2>3, <2>5, <2>6, <2>7, <2>8
<1> QED
  BY Zenon, <1>1, <1>2

\* The headers of a returned http slot count when the plugin may write them.
LEMMA HttpWritten ==
  ASSUME NEW e \in Ext, NEW owned \in Ext, NEW caps, "write_headers" \in caps
  PROVE  \A y \in owned.http : \E g \in Http : MergeOwned(e, owned, caps).http = {g} /\ g.headers = y.headers
BY HttpMerged

\* The security slot is left alone or, with the token, has labels added and
\* nothing else changed (merge_owned).
LEMMA SecurityMerged ==
  ASSUME NEW e \in Ext, NEW owned \in Ext, NEW caps
  PROVE  LET t == "append_labels" \in caps
             s == e.security
             o == owned.security
             m == MergeOwned(e, owned, caps).security
         IN  /\ m \in Opt(Security)
             /\ \/ m = s
                \/ /\ t
                   /\ \E b \in Security, y \in o, w \in Security :
                        /\ s = {b} \/ (s = {} /\ b = DefaultSecurity)
                        /\ b.labels \subseteq y.labels
                        /\ m = {w} /\ w.labels = y.labels /\ w.subject = b.subject
                        /\ w.client = b.client /\ w.workload = b.workload /\ w.open = b.open
<1> DEFINE t == "append_labels" \in caps
<1>0. PICK s \in Opt(Security), o \in Opt(Security), m \in {MergeOwned(e, owned, caps).security} :
        /\ s = e.security /\ o = owned.security
        /\ m = MergeSecurity(s, o, t)
  <2>1. e.security \in Opt(Security) /\ owned.security \in Opt(Security)
    BY Zenon, Fields
  <2>2. MergeOwned(e, owned, caps).security = MergeSecurity(e.security, owned.security, t)
    BY MergedFields
  <2> QED
    BY Zenon, <2>1, <2>2
<1> SUFFICES /\ m \in Opt(Security)
             /\ \/ m = s
                \/ /\ t
                   /\ \E b \in Security, y \in o, w \in Security :
                        /\ s = {b} \/ (s = {} /\ b = DefaultSecurity)
                        /\ b.labels \subseteq y.labels
                        /\ m = {w} /\ w.labels = y.labels /\ w.subject = b.subject
                        /\ w.client = b.client /\ w.workload = b.workload /\ w.open = b.open
  BY <1>0
<1> DEFINE base == DefaultTo(s, DefaultSecurity)
<1>1. CASE o = {} \/ ~t \/ \E b \in base, y \in o : ~(b.labels \subseteq y.labels)
  BY <1>1, <1>0 DEF MergeSecurity, None
<1>2. CASE ~(o = {} \/ ~t \/ \E b \in base, y \in o : ~(b.labels \subseteq y.labels))
  <2>1. PICK y \in Security : o = {y}
    BY Zenon, <1>2, OptionOf
  <2>2. DefaultSecurity \in Security
    BY Zenon, OptionFrom DEF DefaultSecurity, Security, None
  <2>3. PICK b \in Security : base = {b} /\ (s = {b} \/ (s = {} /\ b = DefaultSecurity))
    <3>1. CASE s = {}
      BY Zenon, <2>2, <3>1 DEF DefaultTo, None, Some
    <3>2. CASE s # {}
      BY <3>2, OptionOf DEF DefaultTo, None
    <3> QED
      BY Zenon, <3>1, <3>2
  <2>4. b.labels \subseteq y.labels
    BY Zenon, <1>2, <2>1, <2>3
  <2>5. m = {[b EXCEPT !.labels = b.labels \cup y.labels]}
    <3>1. m = {[c EXCEPT !.labels = c.labels \cup x.labels] : c \in base, x \in o}
      BY <1>2, <1>0 DEF MergeSecurity, None
    <3> HIDE DEF base
    <3> QED
      BY <2>1, <2>3, <3>1
  <2>6. b.labels \cup y.labels = y.labels
    BY Zenon, <2>4
  <2> DEFINE w == [b EXCEPT !.labels = y.labels]
  <2>7. /\ w \in Security /\ w.labels = y.labels /\ w.subject = b.subject
        /\ w.client = b.client /\ w.workload = b.workload /\ w.open = b.open
    BY Zenon DEF Security
  <2>8. m = {w}
    BY Zenon, <2>5, <2>6
  <2> HIDE DEF base, w
  <2>9. m \in Opt(Security)
    BY Zenon, <2>7, <2>8, OptionFrom
  <2> QED
    BY Zenon, <1>2, <2>1, <2>3, <2>4, <2>7, <2>8, <2>9
<1> QED
  BY Zenon, <1>1, <1>2

\* Labels stay as they are when the plugin returned none, or may not add any.
LEMMA SecurityKept ==
  ASSUME NEW e \in Ext, NEW owned \in Ext, NEW caps, owned.security = {} \/ "append_labels" \notin caps
  PROVE  MergeOwned(e, owned, caps).security = e.security
BY SecurityMerged

\* A chain extends itself.
LEMMA ChainReflexive ==
  ASSUME NEW d \in Delegation
  PROVE  ChainExtends(d.chain, d.chain)
<1>1. PICK n \in 0..MaxHops : d.chain \in [1..n -> Hop]
  BY Zenon DEF Delegation, Chain
<1>2. Len(d.chain) = n
  BY <1>1
<1> QED
  BY <1>2 DEF ChainExtends

\* The delegation is left alone or, with the token, becomes one whose chain extends
\* the canonical one and whose root stays (merge_owned).
LEMMA DelegationMerged ==
  ASSUME NEW e \in Ext, NEW owned \in Ext, NEW caps
  PROVE  LET t == "append_delegation" \in caps
             d == e.delegation
             o == owned.delegation
             m == MergeOwned(e, owned, caps).delegation
         IN  /\ m \in Opt(Delegation)
             /\ ~t \/ o = {} \/ (\E x \in d, y \in o : ~ChainExtends(x.chain, y.chain)) => m = d
             /\ \A x \in d : /\ \E a \in m : ChainExtends(x.chain, a.chain)
                             /\ \A r \in x.origin, a \in m : a.origin = {r}
<1> DEFINE t == "append_delegation" \in caps
<1>0. PICK d \in Opt(Delegation), o \in Opt(Delegation), m \in {MergeOwned(e, owned, caps).delegation} :
        /\ d = e.delegation /\ o = owned.delegation
        /\ m = MergeDelegation(d, o, t)
  <2>1. e.delegation \in Opt(Delegation) /\ owned.delegation \in Opt(Delegation)
    BY Zenon, Fields
  <2>2. MergeOwned(e, owned, caps).delegation = MergeDelegation(e.delegation, owned.delegation, t)
    BY MergedFields
  <2> QED
    BY Zenon, <2>1, <2>2
<1> SUFFICES /\ m \in Opt(Delegation)
             /\ ~t \/ o = {} \/ (\E x \in d, y \in o : ~ChainExtends(x.chain, y.chain)) => m = d
             /\ \A x \in d : /\ \E a \in m : ChainExtends(x.chain, a.chain)
                             /\ \A r \in x.origin, a \in m : a.origin = {r}
  BY Zenon, <1>0
<1>1. CASE o = {} \/ ~t \/ \E x \in d, y \in o : ~ChainExtends(x.chain, y.chain)
  <2>1. m = d
    BY <1>1, <1>0 DEF MergeDelegation, None
  <2>2. \A x \in d : x \in Delegation /\ d = {x}
    BY OptionOf
  <2>3. \A x \in Delegation : x.origin \in Opt({"root"})
    BY Zenon DEF Delegation
  <2>4. \A x \in d : ChainExtends(x.chain, x.chain)
    BY Zenon, <2>2, ChainReflexive
  <2>5. \A x \in d : \A r \in x.origin : x.origin = {r}
    BY <2>2, <2>3, OptionOf
  <2> QED
    BY <2>1, <2>2, <2>4, <2>5
<1>2. CASE ~(o = {} \/ ~t \/ \E x \in d, y \in o : ~ChainExtends(x.chain, y.chain))
  <2>1. PICK y \in Delegation : o = {y}
    BY <1>2, OptionOf
  <2>2. DefaultDelegation \in Delegation
    <3>1. << >> \in [1..0 -> Hop]
      OBVIOUS
    <3>2. << >> \in Chain
      BY <3>1, HopsAssumption DEF Chain
    <3> QED
      BY Zenon, <3>2, OptionFrom DEF DefaultDelegation, Delegation, None
  <2>3. PICK c \in Delegation : DefaultTo(d, DefaultDelegation) = {c} /\ (d # {} => d = {c})
    <3>1. CASE d = {}
      BY Zenon, <2>2, <3>1 DEF DefaultTo, None, Some
    <3>2. CASE d # {}
      BY <3>2, OptionOf DEF DefaultTo, None
    <3> QED
      BY Zenon, <3>1, <3>2
  <2> DEFINE a == [chain |-> y.chain, origin |-> IF c.origin = {} THEN y.origin ELSE c.origin]
  <2>4. m = {a}
    BY <1>2, <2>1, <2>3, <1>0 DEF MergeDelegation, None
  <2>5. /\ c.origin \in Opt({"root"}) /\ y.origin \in Opt({"root"}) /\ y.chain \in Chain
    BY Zenon DEF Delegation
  <2>6. a \in Delegation
    BY Zenon, <2>5 DEF Delegation
  <2>7. \A x \in d : ChainExtends(x.chain, a.chain)
    BY Zenon, <1>2, <2>1
  <2>8. \A x \in d : \A r \in x.origin : a.origin = {r}
    BY <2>3, <2>5, OptionOf
  <2> HIDE DEF a
  <2> QED
    BY Zenon, <1>2, <2>4, <2>6, <2>7, <2>8, OptionFrom
<1> QED
  BY Zenon, <1>1, <1>2

\* What is merged is a container (merge_owned).
LEMMA MergedTyped ==
  ASSUME NEW e \in Ext, NEW owned \in Ext, NEW caps
  PROVE  MergeOwned(e, owned, caps) \in Ext
<1> DEFINE m == MergeOwned(e, owned, caps)
<1>1. /\ m.http \in Opt(Http) /\ m.security \in Opt(Security) /\ m.delegation \in Opt(Delegation)
  BY Zenon, HttpMerged, SecurityMerged, DelegationMerged
<1>2. /\ m.request \in Opt({"req", "other"}) /\ m.agent \in Opt({"agt", "other"})
      /\ m.constraint \in Opt({"c1"}) /\ m.raw \in Opt(Raw) /\ m.custom \in Opt({"v1"})
  BY MergedFields, Fields
<1>3. m = [request |-> m.request, agent |-> m.agent, http |-> m.http, security |-> m.security,
           constraint |-> m.constraint, delegation |-> m.delegation, raw |-> m.raw, custom |-> m.custom]
  BY MergedFields
<1> HIDE DEF m
<1>4. m \in Ext
  BY Zenon, <1>1, <1>2, <1>3 DEF Ext
<1> QED
  BY Zenon, <1>4 DEF m

\* What the executor makes of a returned copy is a container (accept_extensions).
LEMMA AcceptTyped ==
  ASSUME NEW e \in Ext, NEW owned \in Ext, NEW caps
  PROVE  AcceptExtensions(e, owned, caps) \in Ext
BY Zenon, MergedTyped DEF AcceptExtensions
-----------------------------------------------------------------------------
\* A view handed back leaves every slot that is merged as it was, whatever the
\* capabilities (filter_extensions, merge_owned).
LEMMA RoundTripSlots ==
  ASSUME NEW e \in Ext, NEW caps
  PROVE  LET v == FilterExtensions(e, caps)
         IN  /\ LabelsOk(e, v, caps)
             /\ MergeHttp(e.http, v.http, "write_headers" \in caps) = e.http
             /\ MergeSecurity(e.security, v.security, "append_labels" \in caps) = e.security
             /\ MergeDelegation(e.delegation, v.delegation, "append_delegation" \in caps) = e.delegation
<1> DEFINE v == FilterExtensions(e, caps)
<1>1. /\ v.request = e.request /\ v.custom = e.custom /\ v.constraint = e.constraint
      /\ v.delegation \in {e.delegation, {}} /\ v.agent \in {e.agent, {}} /\ v.http \in {e.http, {}}
      /\ v.security = {BuildFilteredSecurity(s, caps) : s \in e.security}
  BY Zenon, ViewFields
<1>2. \A s \in e.security : s \in Security /\ e.security = {s} /\ v.security = {BuildFilteredSecurity(s, caps)}
  BY <1>1, Fields, OptionOf
<1> HIDE DEF v
<1>3. LabelsOk(e, v, caps)
  <2> SUFFICES ASSUME "read_labels" \in caps, NEW s \in e.security, NEW w \in v.security
               PROVE  s.labels \subseteq w.labels
    BY Zenon DEF LabelsOk
  <2>1. w = BuildFilteredSecurity(s, caps) /\ s \in Security
    BY Zenon, <1>2
  <2> QED
    BY Zenon, <2>1, SecurityFiltered, Reads
<1>4. MergeHttp(e.http, v.http, "write_headers" \in caps) = e.http
  <2> DEFINE t == "write_headers" \in caps
  <2>1. CASE v.http = {} \/ ~t
    BY <2>1 DEF MergeHttp, None
  <2>2. CASE v.http # {} /\ t
    <3>1. PICK h \in Http : e.http = {h} /\ v.http = {h}
      BY <1>1, <2>2, Fields, OptionOf
    <3>2. [line |-> h.line, headers |-> h.headers] = h
      BY Zenon DEF Http
    <3>3. MergeHttp(e.http, v.http, t) = {[line |-> h.line, headers |-> h.headers]}
      BY <2>2, <3>1 DEF MergeHttp, DefaultTo, None
    <3> QED
      BY Zenon, <3>1, <3>2, <3>3
  <2> QED
    BY Zenon, <2>1, <2>2
<1>5. MergeSecurity(e.security, v.security, "append_labels" \in caps) = e.security
  <2> DEFINE t == "append_labels" \in caps
  <2>1. CASE e.security = {}
    <3>1. v.security = {}
      BY Zenon, <1>1, <2>1
    <3> QED
      BY <3>1 DEF MergeSecurity, None
  <2>2. CASE e.security # {}
    <3>1. PICK s \in Security : e.security = {s} /\ v.security = {BuildFilteredSecurity(s, caps)}
      BY Zenon, <1>2, <2>2
    <3> DEFINE w == BuildFilteredSecurity(s, caps)
    <3>2. w.labels \in {s.labels, {}}
      BY Zenon, SecurityFiltered
    <3> HIDE DEF w
    <3>3. PICK x : x = MergeSecurity(e.security, v.security, t)
      BY Zenon
    <3>4. x = {s} \/ x = {[s EXCEPT !.labels = s.labels \cup w.labels]}
      <4>1. DefaultTo({s}, DefaultSecurity) = {s}
        BY Zenon DEF DefaultTo, None
      <4>2. e.security = {s} /\ v.security = {w}
        BY Zenon, <3>1 DEF w
      <4>3. CASE ~t \/ ~(s.labels \subseteq w.labels)
        <5>1. ~t \/ \E b \in DefaultTo(e.security, DefaultSecurity), o \in v.security : ~(b.labels \subseteq o.labels)
          BY Zenon, <4>1, <4>2, <4>3
        <5>2. x = e.security
          BY <3>3, <5>1 DEF MergeSecurity
        <5> QED
          BY Zenon, <4>2, <5>2
      <4>4. CASE ~(~t \/ ~(s.labels \subseteq w.labels))
        <5>1. x = {[b EXCEPT !.labels = b.labels \cup o.labels] : b \in {s}, o \in {w}}
          BY <3>3, <4>1, <4>2, <4>4 DEF MergeSecurity, None
        <5> QED
          BY <5>1
      <4> QED
        BY Zenon, <4>3, <4>4
    <3>5. s.labels \cup w.labels = s.labels
      BY Zenon, <3>2
    <3>6. [s EXCEPT !.labels = s.labels] = s
      BY Zenon DEF Security
    <3> QED
      BY Zenon, <3>1, <3>3, <3>4, <3>5, <3>6
  <2> QED
    BY Zenon, <2>1, <2>2
<1>6. MergeDelegation(e.delegation, v.delegation, "append_delegation" \in caps) = e.delegation
  <2> DEFINE t == "append_delegation" \in caps
  <2>1. CASE v.delegation = {} \/ ~t
    BY <2>1 DEF MergeDelegation, None
  <2>2. CASE v.delegation # {} /\ t
    <3>1. PICK d \in Delegation : e.delegation = {d} /\ v.delegation = {d}
      BY <1>1, <2>2, Fields, OptionOf
    <3>2. ChainExtends(d.chain, d.chain)
      BY Zenon, ChainReflexive
    <3>3. [chain |-> d.chain, origin |-> d.origin] = d
      BY Zenon DEF Delegation
    <3>4. DefaultTo({d}, DefaultDelegation) = {d}
      BY Zenon DEF DefaultTo, None
    <3>5. MergeDelegation(e.delegation, v.delegation, t)
            = {[chain |-> d.chain, origin |-> IF d.origin = None THEN d.origin ELSE d.origin]}
      BY <2>2, <3>1, <3>2, <3>4 DEF MergeDelegation, None
    <3> QED
      BY Zenon, <3>1, <3>3, <3>5
  <2> QED
    BY Zenon, <2>1, <2>2
<1> QED
  BY Zenon, <1>3, <1>4, <1>5, <1>6 DEF v

\* The slots of a container that a view was merged into.
LEMMA RoundTripMerged ==
  ASSUME NEW e \in Ext, NEW caps
  PROVE  LET v == FilterExtensions(e, caps)
             m == MergeOwned(e, v, caps)
         IN  /\ LabelsOk(e, v, caps)
             /\ m.http = e.http /\ m.security = e.security /\ m.delegation = e.delegation
BY RoundTripSlots, ViewTyped, MergedFields

\* A view handed back untouched changes nothing but the raw credentials, whatever
\* the capabilities (filter_extensions, merge_owned).
LEMMA RoundTrip ==
  ASSUME NEW e \in Ext, NEW caps
  PROVE  [AcceptExtensions(e, FilterExtensions(e, caps), caps) EXCEPT !.raw = e.raw] = e
<1> DEFINE v == FilterExtensions(e, caps)
           m == MergeOwned(e, v, caps)
<1>1. /\ v.request = e.request /\ v.custom = e.custom /\ v.constraint = e.constraint /\ v.agent \in {e.agent, {}}
  BY Zenon, ViewFields
<1>2. v \in Ext
  BY Zenon, ViewTyped
<1>3. /\ LabelsOk(e, v, caps)
      /\ MergeHttp(e.http, v.http, "write_headers" \in caps) = e.http
      /\ MergeSecurity(e.security, v.security, "append_labels" \in caps) = e.security
      /\ MergeDelegation(e.delegation, v.delegation, "append_delegation" \in caps) = e.delegation
  BY Zenon, RoundTripSlots
<1> HIDE DEF v
<1>4. ValidateImmutable(e, v)
  BY Zenon, <1>1 DEF ValidateImmutable, PtrEqOpt, None
<1>5. CandidateConstraintWriteOk(e, v, caps)
  BY Zenon, <1>1 DEF CandidateConstraintWriteOk
<1>6. AcceptExtensions(e, v, caps) = m
  BY Zenon, <1>3, <1>4, <1>5 DEF AcceptExtensions
<1>7. /\ m.request = e.request /\ m.agent = e.agent /\ m.custom = e.custom /\ m.constraint = e.constraint
      /\ m.http = e.http /\ m.security = e.security /\ m.delegation = e.delegation
  BY <1>1, <1>2, <1>3, MergedFields
<1>8. m \in Ext
  BY Zenon, <1>2, <1>6, AcceptTyped
<1> HIDE DEF m
<1>9. [m EXCEPT !.raw = e.raw] = e
  BY Zenon, <1>7, <1>8 DEF Ext
<1> QED
  BY Zenon, <1>6, <1>9 DEF v
-----------------------------------------------------------------------------
\* A container with another security slot shows the same if the slot does
\* (filter_extensions).
LEMMA SecurityShown ==
  ASSUME NEW e \in Ext, NEW caps, NEW X,
         {BuildFilteredSecurity(s, caps) : s \in X} = {BuildFilteredSecurity(s, caps) : s \in e.security}
  PROVE  FilterExtensions([e EXCEPT !.security = X], caps) = FilterExtensions(e, caps)
<1> DEFINE f == [e EXCEPT !.security = X]
<1>1. /\ f.request = e.request /\ f.custom = e.custom /\ f.constraint = e.constraint /\ f.security = X
      /\ f.delegation = e.delegation /\ f.agent = e.agent /\ f.http = e.http /\ f.raw = e.raw
  BY Zenon DEF Ext
<1> HIDE DEF f
<1>2. FilterExtensions(f, caps) = FilterExtensions(e, caps)
  BY Zenon, <1>1 DEF FilterExtensions
<1> QED
  BY Zenon, <1>2 DEF f

\* One security slot that shows the same as another may stand for it.
LEMMA SecurityReplaced ==
  ASSUME NEW e \in Ext, NEW caps, NEW s \in Security, NEW w,
         e.security = {s}, BuildFilteredSecurity(w, caps) = BuildFilteredSecurity(s, caps)
  PROVE  FilterExtensions([e EXCEPT !.security = {w}], caps) = FilterExtensions(e, caps)
<1> DEFINE X == {w}
<1>1. /\ {BuildFilteredSecurity(x, caps) : x \in X} = {BuildFilteredSecurity(w, caps)}
      /\ {BuildFilteredSecurity(x, caps) : x \in e.security} = {BuildFilteredSecurity(s, caps)}
  BY Zenon
<1> QED
  BY Zenon, <1>1, SecurityShown

\* A subject field that a plugin may not read is blank in its view
\* (build_filtered_subject).
LEMMA SubjectShown ==
  ASSUME NEW j \in Subject, NEW caps, NEW f \in SubjectField, ~HasReadAccess(f, caps)
  PROVE  BuildFilteredSubject([j EXCEPT !.fields[f] = {}], caps) = BuildFilteredSubject(j, caps)
<1> DEFINE i == [j EXCEPT !.fields[f] = {}]
<1>1. j.fields \in [SubjectField -> SUBSET {"x"}]
  BY Zenon DEF Subject
<1>2. i.id = j.id /\ i.fields = [j.fields EXCEPT ![f] = {}]
  BY Zenon DEF Subject
<1>3. \A g \in SubjectField : g # f => i.fields[g] = j.fields[g]
  BY Zenon, <1>1, <1>2
<1> HIDE DEF i
<1>4. BuildFilteredSubject(i, caps) = BuildFilteredSubject(j, caps)
  BY Zenon, <1>2, <1>3 DEF BuildFilteredSubject
<1> QED
  BY Zenon, <1>4 DEF i

\* What a plugin may not read of the security slot it does not see
\* (build_filtered_security).
LEMMA SecurityHidden ==
  ASSUME NEW s \in Security, NEW caps
  PROVE  /\ ~HasReadAccess("labels", caps) =>
              BuildFilteredSecurity([s EXCEPT !.labels = {}], caps) = BuildFilteredSecurity(s, caps)
         /\ ~HasReadAccess("subject", caps) =>
              BuildFilteredSecurity([s EXCEPT !.subject = None], caps) = BuildFilteredSecurity(s, caps)
         /\ ~HasReadAccess("client", caps) =>
              BuildFilteredSecurity([s EXCEPT !.client = None], caps) = BuildFilteredSecurity(s, caps)
         /\ ~HasReadAccess("workload", caps) =>
              BuildFilteredSecurity([s EXCEPT !.workload = None], caps) = BuildFilteredSecurity(s, caps)
         /\ \A f \in SubjectField : ~HasReadAccess(f, caps) =>
              BuildFilteredSecurity([s EXCEPT !.subject = {[j EXCEPT !.fields[f] = {}] : j \in s.subject}], caps)
                = BuildFilteredSecurity(s, caps)
<1>1. \A x : LET w == [s EXCEPT !.labels = x]
             IN  w.labels = x /\ w.subject = s.subject /\ w.client = s.client /\ w.workload = s.workload
                   /\ w.open = s.open
  BY Zenon DEF Security
<1>2. \A x : LET w == [s EXCEPT !.subject = x]
             IN  w.labels = s.labels /\ w.subject = x /\ w.client = s.client /\ w.workload = s.workload
                   /\ w.open = s.open
  BY Zenon DEF Security
<1>3. \A x : LET w == [s EXCEPT !.client = x]
             IN  w.labels = s.labels /\ w.subject = s.subject /\ w.client = x /\ w.workload = s.workload
                   /\ w.open = s.open
  BY Zenon DEF Security
<1>4. \A x : LET w == [s EXCEPT !.workload = x]
             IN  w.labels = s.labels /\ w.subject = s.subject /\ w.client = s.client /\ w.workload = x
                   /\ w.open = s.open
  BY Zenon DEF Security
<1>5. ASSUME ~HasReadAccess("labels", caps)
      PROVE  BuildFilteredSecurity([s EXCEPT !.labels = {}], caps) = BuildFilteredSecurity(s, caps)
  BY Zenon, <1>1, <1>5 DEF BuildFilteredSecurity
<1>6. ASSUME ~HasReadAccess("subject", caps)
      PROVE  BuildFilteredSecurity([s EXCEPT !.subject = None], caps) = BuildFilteredSecurity(s, caps)
  BY Zenon, <1>2, <1>6, Reads DEF BuildFilteredSecurity
<1>7. ASSUME ~HasReadAccess("client", caps)
      PROVE  BuildFilteredSecurity([s EXCEPT !.client = None], caps) = BuildFilteredSecurity(s, caps)
  BY Zenon, <1>3, <1>7 DEF BuildFilteredSecurity
<1>8. ASSUME ~HasReadAccess("workload", caps)
      PROVE  BuildFilteredSecurity([s EXCEPT !.workload = None], caps) = BuildFilteredSecurity(s, caps)
  BY Zenon, <1>4, <1>8 DEF BuildFilteredSecurity
<1>9. ASSUME NEW f \in SubjectField, ~HasReadAccess(f, caps)
      PROVE  BuildFilteredSecurity([s EXCEPT !.subject = {[j EXCEPT !.fields[f] = {}] : j \in s.subject}], caps)
               = BuildFilteredSecurity(s, caps)
  <2> DEFINE X == {[j EXCEPT !.fields[f] = {}] : j \in s.subject}
  <2>1. {BuildFilteredSubject(i, caps) : i \in X} = {BuildFilteredSubject(j, caps) : j \in s.subject}
    <3>1. s.subject \in Opt(Subject)
      BY Zenon DEF Security
    <3>2. CASE s.subject = {}
      BY Zenon, <3>2
    <3>3. CASE \E j \in Subject : s.subject = {j}
      <4>1. PICK j \in Subject : s.subject = {j}
        BY Zenon, <3>3
      <4>2. X = {[j EXCEPT !.fields[f] = {}]}
        BY Zenon, <4>1
      <4> HIDE DEF X
      <4>3. /\ {BuildFilteredSubject(i, caps) : i \in X} = {BuildFilteredSubject([j EXCEPT !.fields[f] = {}], caps)}
            /\ {BuildFilteredSubject(i, caps) : i \in s.subject} = {BuildFilteredSubject(j, caps)}
        BY Zenon, <4>1, <4>2
      <4> QED
        BY Zenon, <1>9, <4>3, SubjectShown
    <3> QED
      BY Zenon, <3>1, <3>2, <3>3, OptionOf
  <2> HIDE DEF X
  <2>2. BuildFilteredSecurity([s EXCEPT !.subject = X], caps) = BuildFilteredSecurity(s, caps)
    BY Zenon, <1>2, <2>1 DEF BuildFilteredSecurity
  <2> QED
    BY Zenon, <2>2 DEF X
<1> QED
  BY Zenon, <1>5, <1>6, <1>7, <1>8, <1>9

\* The names of the slots.
LEMMA SlotNames ==
  Slot = {"request", "open", "agent", "headers", "delegation", "labels", "subject", "roles", "permissions",
          "teams", "claims", "client", "workload", "inbound", "delegated", "custom"}
BY Zenon DEF Slot, SlotPolicy
\* What Scrub makes of a container whose security slot is filled with s.
LEMMA ScrubbedSecurity ==
  ASSUME NEW e, NEW s, e.security = {s}
  PROVE  /\ Scrub(e, "labels") = [e EXCEPT !.security = {[s EXCEPT !.labels = {}]}]
         /\ Scrub(e, "subject") = [e EXCEPT !.security = {[s EXCEPT !.subject = None]}]
         /\ Scrub(e, "client") = [e EXCEPT !.security = {[s EXCEPT !.client = None]}]
         /\ Scrub(e, "workload") = [e EXCEPT !.security = {[s EXCEPT !.workload = None]}]
<1>1. Scrub(e, "labels") = [e EXCEPT !.security = {[s EXCEPT !.labels = {}]}]
  <2>1. {[x EXCEPT !.labels = {}] : x \in {s}} = {[s EXCEPT !.labels = {}]}
    BY Zenon
  <2> QED
    BY Zenon, <2>1 DEF Scrub, SubjectField
<1>2. Scrub(e, "subject") = [e EXCEPT !.security = {[s EXCEPT !.subject = None]}]
  <2>1. {[x EXCEPT !.subject = None] : x \in {s}} = {[s EXCEPT !.subject = None]}
    BY Zenon
  <2> QED
    BY Zenon, <2>1 DEF Scrub, SubjectField
<1>3. Scrub(e, "client") = [e EXCEPT !.security = {[s EXCEPT !.client = None]}]
  <2>1. {[x EXCEPT !.client = None] : x \in {s}} = {[s EXCEPT !.client = None]}
    BY Zenon
  <2> QED
    BY Zenon, <2>1 DEF Scrub, SubjectField
<1>4. Scrub(e, "workload") = [e EXCEPT !.security = {[s EXCEPT !.workload = None]}]
  <2>1. {[x EXCEPT !.workload = None] : x \in {s}} = {[s EXCEPT !.workload = None]}
    BY Zenon
  <2> QED
    BY Zenon, <2>1 DEF Scrub, SubjectField
<1> QED
  BY Zenon, <1>1, <1>2, <1>3, <1>4

\* An empty security slot stays as it is.
LEMMA ScrubbedNothing ==
  ASSUME NEW e \in Ext, e.security = {}, NEW slot \in SubjectField \cup {"labels", "subject", "client", "workload"}
  PROVE  Scrub(e, slot) = e
<1>1. [e EXCEPT !.security = {}] = e
  BY Zenon DEF Ext
<1>2. Scrub(e, slot) = [e EXCEPT !.security = {}]
  BY Zenon DEF Scrub, SubjectField
<1> QED
  BY Zenon, <1>1, <1>2

\* Whole slots that a plugin may not read it does not see (filter_extensions).
LEMMA SlotsHidden ==
  ASSUME NEW e \in Ext, NEW caps, NEW slot \in {"agent", "headers", "delegation"}, ~HasReadAccess(slot, caps)
  PROVE  FilterExtensions(e, caps) = FilterExtensions(Scrub(e, slot), caps)
<1> DEFINE f == Scrub(e, slot)
<1>1. f = IF slot = "agent" THEN [e EXCEPT !.agent = None]
          ELSE IF slot = "headers" THEN [e EXCEPT !.http = None] ELSE [e EXCEPT !.delegation = None]
  BY Zenon DEF Scrub, SubjectField
<1>2. /\ f.request = e.request /\ f.custom = e.custom /\ f.constraint = e.constraint /\ f.security = e.security
      /\ f.raw = e.raw
      /\ slot # "agent" => f.agent = e.agent
      /\ slot # "headers" => f.http = e.http
      /\ slot # "delegation" => f.delegation = e.delegation
  BY Zenon, <1>1 DEF Ext
<1> HIDE DEF f
<1>3. FilterExtensions(f, caps) = FilterExtensions(e, caps)
  BY Zenon, <1>2 DEF FilterExtensions
<1> QED
  BY Zenon, <1>3 DEF f

\* Nor does it see raw credentials it may not read (filter_extensions).
LEMMA RawHidden ==
  ASSUME NEW e \in Ext, NEW caps, NEW slot \in {"inbound", "delegated"}, ~HasReadAccess(slot, caps)
  PROVE  FilterExtensions(e, caps) = FilterExtensions(Scrub(e, slot), caps)
<1> DEFINE a == HasReadAccess("inbound", caps)
           b == HasReadAccess("delegated", caps)
           Shown(r) == BuildFilteredRawCredentials(r, a, b)
           Blank(r) == IF slot = "inbound" THEN [r EXCEPT !.inbound = {}] ELSE [r EXCEPT !.delegated = {}]
           X == {Blank(r) : r \in e.raw}
           f == Scrub(e, slot)
<1>1. f = [e EXCEPT !.raw = X]
  <2>1. CASE slot = "inbound"
    BY Zenon, <2>1 DEF Scrub, SubjectField
  <2>2. CASE slot = "delegated"
    BY Zenon, <2>2 DEF Scrub, SubjectField
  <2> QED
    BY Zenon, <2>1, <2>2
<1>2. ASSUME NEW r \in Raw PROVE Shown(Blank(r)) = Shown(r)
  <2>1. CASE slot = "inbound"
    <3>1. [r EXCEPT !.inbound = {}].delegated = r.delegated
      BY Zenon DEF Raw
    <3> QED
      BY Zenon, <2>1, <3>1 DEF BuildFilteredRawCredentials
  <2>2. CASE slot = "delegated"
    <3>1. [r EXCEPT !.delegated = {}].inbound = r.inbound
      BY Zenon DEF Raw
    <3> QED
      BY Zenon, <2>2, <3>1 DEF BuildFilteredRawCredentials
  <2> QED
    BY Zenon, <2>1, <2>2
<1>3. {Shown(r) : r \in X} = {Shown(r) : r \in e.raw}
  <2>1. CASE e.raw = {}
    BY Zenon, <2>1
  <2>2. CASE \E r \in Raw : e.raw = {r}
    <3>1. PICK r \in Raw : e.raw = {r}
      BY Zenon, <2>2
    <3>2. X = {Blank(r)}
      BY Zenon, <3>1
    <3> HIDE DEF X, Blank, Shown
    <3>3. {Shown(x) : x \in X} = {Shown(Blank(r))} /\ {Shown(x) : x \in e.raw} = {Shown(r)}
      BY Zenon, <3>1, <3>2
    <3> QED
      BY Zenon, <1>2, <3>3
  <2> QED
    BY Zenon, <2>1, <2>2, Fields, OptionOf
<1>4. /\ f.request = e.request /\ f.custom = e.custom /\ f.constraint = e.constraint /\ f.security = e.security
      /\ f.agent = e.agent /\ f.http = e.http /\ f.delegation = e.delegation /\ f.raw = X
  <2> HIDE DEF X, f
  <2> QED
    BY Zenon, <1>1 DEF Ext
<1> HIDE DEF X, f
<1>5. FilterExtensions(f, caps) = FilterExtensions(e, caps)
  BY Zenon, <1>3, <1>4 DEF FilterExtensions
<1> QED
  BY Zenon, <1>5 DEF f

\* A plugin's view is the same as if a slot that it may not read were blank
\* (filter_extensions).
LEMMA Hidden ==
  ASSUME NEW e \in Ext, NEW caps, NEW slot \in Slot, ~HasReadAccess(slot, caps)
  PROVE  FilterExtensions(e, caps) = FilterExtensions(Scrub(e, slot), caps)
<1>1. CASE slot \in {"request", "open", "custom"}
  BY Zenon, <1>1, Reads
<1>2. CASE slot \in {"agent", "headers", "delegation"}
  BY Zenon, <1>2, SlotsHidden
<1>3. CASE slot \in {"inbound", "delegated"}
  BY Zenon, <1>3, RawHidden
<1>4. CASE slot \in SubjectField \cup {"labels", "subject", "client", "workload"}
  <2>1. CASE e.security = {}
    BY Zenon, <1>4, <2>1, ScrubbedNothing
  <2>2. CASE \E s \in Security : e.security = {s}
    <3>1. PICK s \in Security : e.security = {s}
      BY Zenon, <2>2
    <3>2. CASE slot = "labels"
      <4> DEFINE w == [s EXCEPT !.labels = {}]
      <4>1. Scrub(e, slot) = [e EXCEPT !.security = {w}]
        BY <3>1, <3>2, ScrubbedSecurity, Zenon
      <4>2. BuildFilteredSecurity(w, caps) = BuildFilteredSecurity(s, caps)
        BY <3>2, SecurityHidden, Zenon
      <4> HIDE DEF w
      <4>3. FilterExtensions([e EXCEPT !.security = {w}], caps) = FilterExtensions(e, caps)
        BY Zenon, <3>1, <4>2, SecurityReplaced
      <4> QED
        BY Zenon, <4>1, <4>3
    <3>3. CASE slot = "subject"
      <4> DEFINE w == [s EXCEPT !.subject = None]
      <4>1. Scrub(e, slot) = [e EXCEPT !.security = {w}]
        BY <3>1, <3>3, ScrubbedSecurity, Zenon
      <4>2. BuildFilteredSecurity(w, caps) = BuildFilteredSecurity(s, caps)
        BY <3>3, SecurityHidden, Zenon
      <4> HIDE DEF w
      <4>3. FilterExtensions([e EXCEPT !.security = {w}], caps) = FilterExtensions(e, caps)
        BY Zenon, <3>1, <4>2, SecurityReplaced
      <4> QED
        BY Zenon, <4>1, <4>3
    <3>4. CASE slot = "client"
      <4> DEFINE w == [s EXCEPT !.client = None]
      <4>1. Scrub(e, slot) = [e EXCEPT !.security = {w}]
        BY <3>1, <3>4, ScrubbedSecurity, Zenon
      <4>2. BuildFilteredSecurity(w, caps) = BuildFilteredSecurity(s, caps)
        BY <3>4, SecurityHidden, Zenon
      <4> HIDE DEF w
      <4>3. FilterExtensions([e EXCEPT !.security = {w}], caps) = FilterExtensions(e, caps)
        BY Zenon, <3>1, <4>2, SecurityReplaced
      <4> QED
        BY Zenon, <4>1, <4>3
    <3>5. CASE slot = "workload"
      <4> DEFINE w == [s EXCEPT !.workload = None]
      <4>1. Scrub(e, slot) = [e EXCEPT !.security = {w}]
        BY <3>1, <3>5, ScrubbedSecurity, Zenon
      <4>2. BuildFilteredSecurity(w, caps) = BuildFilteredSecurity(s, caps)
        BY <3>5, SecurityHidden, Zenon
      <4> HIDE DEF w
      <4>3. FilterExtensions([e EXCEPT !.security = {w}], caps) = FilterExtensions(e, caps)
        BY Zenon, <3>1, <4>2, SecurityReplaced
      <4> QED
        BY Zenon, <4>1, <4>3
    <3>6. CASE slot \in SubjectField
      <4> DEFINE w == [s EXCEPT !.subject = {[j EXCEPT !.fields[slot] = {}] : j \in s.subject}]
      <4>1. Scrub(e, slot) = [e EXCEPT !.security = {w}]
        <5>1. {[x EXCEPT !.subject = {[j EXCEPT !.fields[slot] = {}] : j \in x.subject}] : x \in {s}} = {w}
          BY Zenon
        <5> QED
          BY Zenon, <3>1, <3>6, <5>1 DEF Scrub, SubjectField
      <4>2. BuildFilteredSecurity(w, caps) = BuildFilteredSecurity(s, caps)
        BY Zenon, <3>6, SecurityHidden
      <4> HIDE DEF w
      <4>3. FilterExtensions([e EXCEPT !.security = {w}], caps) = FilterExtensions(e, caps)
        BY Zenon, <3>1, <4>2, SecurityReplaced
      <4> QED
        BY Zenon, <4>1, <4>3
    <3> QED
      BY Zenon, <1>4, <3>2, <3>3, <3>4, <3>5, <3>6
  <2> QED
    BY Zenon, <2>1, <2>2, Fields, OptionOf
<1> QED
  BY Zenon, <1>1, <1>2, <1>3, <1>4, SlotNames DEF SubjectField
-----------------------------------------------------------------------------
\* What the tier table says of the slots that may change (slot_policy).
LEMMA Writes ==
  /\ SlotPolicy["headers"].tier = "Mutable" /\ SlotPolicy["headers"].write = {"write_headers"}
  /\ SlotPolicy["labels"].tier = "Monotonic" /\ SlotPolicy["labels"].write = {"append_labels"}
  /\ SlotPolicy["delegation"].tier = "Monotonic" /\ SlotPolicy["delegation"].write = {"append_delegation"}
  /\ SlotPolicy["custom"].tier = "Mutable" /\ SlotPolicy["custom"].write = {}
BY Zenon DEF SlotPolicy, Policy, None, Some

\* What each slot holds.
LEMMA SlotValues ==
  ASSUME NEW e
  PROVE  /\ SlotValue(e, "request") = e.request /\ SlotValue(e, "agent") = e.agent
         /\ SlotValue(e, "custom") = e.custom /\ SlotValue(e, "delegation") = e.delegation
         /\ SlotValue(e, "headers") = {h.headers : h \in e.http} \ {{}}
         /\ SlotValue(e, "labels") = UNION {s.labels : s \in e.security}
         /\ SlotValue(e, "subject") = {j.id : j \in SubjectOf(e)}
         /\ \A f \in SubjectField : SlotValue(e, f) = UNION {j.fields[f] : j \in SubjectOf(e)}
         /\ SlotValue(e, "client") = UNION {s.client : s \in e.security}
         /\ SlotValue(e, "workload") = UNION {s.workload : s \in e.security}
         /\ SlotValue(e, "open") = UNION {s.open : s \in e.security}
<1>1. \A f \in SubjectField : SlotValue(e, f) = UNION {j.fields[f] : j \in SubjectOf(e)}
  BY Zenon DEF SlotValue, SubjectField
<1>2. /\ SlotValue(e, "request") = e.request /\ SlotValue(e, "agent") = e.agent
      /\ SlotValue(e, "custom") = e.custom /\ SlotValue(e, "delegation") = e.delegation
  BY Zenon DEF SlotValue, SubjectField
<1>3. /\ SlotValue(e, "headers") = {h.headers : h \in e.http} \ {{}}
      /\ SlotValue(e, "labels") = UNION {s.labels : s \in e.security}
      /\ SlotValue(e, "subject") = {j.id : j \in SubjectOf(e)}
  BY Zenon DEF SlotValue, SubjectField
<1>4. /\ SlotValue(e, "client") = UNION {s.client : s \in e.security}
      /\ SlotValue(e, "workload") = UNION {s.workload : s \in e.security}
      /\ SlotValue(e, "open") = UNION {s.open : s \in e.security}
  BY Zenon DEF SlotValue, SubjectField
<1> QED
  BY Zenon, <1>1, <1>2, <1>3, <1>4

\* Slots that live in one field are alike when it is.
LEMMA SlotsAlike ==
  ASSUME NEW e, NEW f
  PROVE  /\ f.http = e.http => SlotValue(f, "headers") = SlotValue(e, "headers")
         /\ f.security = e.security =>
              \A slot \in SubjectField \cup {"labels", "subject", "client", "workload", "open"} :
                SlotValue(f, slot) = SlotValue(e, slot)
<1>1. ASSUME f.http = e.http PROVE SlotValue(f, "headers") = SlotValue(e, "headers")
  BY Zenon, <1>1 DEF SlotValue, SubjectField
<1>2. ASSUME f.security = e.security, NEW slot \in SubjectField \cup {"labels", "subject", "client", "workload", "open"}
      PROVE  SlotValue(f, slot) = SlotValue(e, slot)
  BY Zenon, <1>2 DEF SlotValue, SubjectOf, SubjectField
<1> QED
  BY Zenon, <1>1, <1>2

\* Identities stay when labels are added (merge_owned).
LEMMA IdentitiesKept ==
  ASSUME NEW e \in Ext, NEW owned \in Ext, NEW caps, NEW slot \in SubjectField \cup {"subject", "client", "workload", "open"}
  PROVE  SlotValue(MergeOwned(e, owned, caps), slot) = SlotValue(e, slot)
<1> DEFINE m == MergeOwned(e, owned, caps)
<1>1. \/ m.security = e.security
      \/ \E b \in Security, w \in Security :
           /\ e.security = {b} \/ (e.security = {} /\ b = DefaultSecurity)
           /\ m.security = {w} /\ w.subject = b.subject
           /\ w.client = b.client /\ w.workload = b.workload /\ w.open = b.open
  BY SecurityMerged
<1> HIDE DEF m
<1>2. CASE m.security = e.security
  <2>1. SlotValue(m, slot) = SlotValue(e, slot)
    BY <1>2, SlotsAlike
  <2> QED
    BY Zenon, <2>1 DEF m
<1>3. CASE m.security # e.security
  <2>1. PICK b \in Security, w \in Security :
           /\ e.security = {b} \/ (e.security = {} /\ b = DefaultSecurity)
           /\ m.security = {w} /\ w.subject = b.subject
           /\ w.client = b.client /\ w.workload = b.workload /\ w.open = b.open
    BY Zenon, <1>1, <1>3
  <2>4. /\ UNION {s.subject : s \in m.security} = b.subject /\ UNION {s.client : s \in m.security} = b.client
        /\ UNION {s.workload : s \in m.security} = b.workload /\ UNION {s.open : s \in m.security} = b.open
    BY Zenon, <2>1
  <2>5. /\ UNION {s.subject : s \in e.security} = b.subject /\ UNION {s.client : s \in e.security} = b.client
        /\ UNION {s.workload : s \in e.security} = b.workload /\ UNION {s.open : s \in e.security} = b.open
    <3>1. CASE e.security = {b}
      BY Zenon, <3>1
    <3>2. CASE e.security = {} /\ b = DefaultSecurity
      BY Zenon, <3>2 DEF DefaultSecurity, None
    <3> QED
      BY Zenon, <2>1, <3>1, <3>2
  <2>6. SubjectOf(m) = SubjectOf(e)
    BY Zenon, <2>4, <2>5 DEF SubjectOf
  <2>7. SlotValue(m, slot) = SlotValue(e, slot)
    <3>1. CASE slot \in SubjectField \cup {"subject"}
      BY Zenon, <2>6, <3>1 DEF SlotValue, SubjectField
    <3>2. CASE slot \in {"client", "workload", "open"}
      BY Zenon, <2>4, <2>5, <3>2 DEF SlotValue, SubjectField
    <3> QED
      BY Zenon, <3>1, <3>2
  <2> QED
    BY Zenon, <2>7 DEF m
<1> QED
  BY Zenon, <1>2, <1>3

\* Whatever copy a plugin returns, each slot changes as its tier and its write
\* capability allow (merge_owned, slot_policy).
LEMMA SlotsRespected ==
  ASSUME NEW e \in Ext, NEW owned \in Ext, NEW caps, NEW slot \in Slot \ RawSlot
  PROVE  TierAllows(slot, caps, SlotValue(e, slot), SlotValue(AcceptExtensions(e, owned, caps), slot))
<1> DEFINE m == MergeOwned(e, owned, caps)
<1>1. CASE AcceptExtensions(e, owned, caps) = e
  BY Zenon, <1>1 DEF TierAllows
<1>2. CASE AcceptExtensions(e, owned, caps) = m
  <2> SUFFICES TierAllows(slot, caps, SlotValue(e, slot), SlotValue(m, slot))
    BY Zenon, <1>2
  <2>1. CASE slot \in {"request", "agent"}
    BY <2>1, MergedFields, SlotValues DEF TierAllows
  <2>2. CASE slot \in SubjectField \cup {"subject", "client", "workload", "open"}
    BY Zenon, <2>2, IdentitiesKept DEF TierAllows
  <2>3. CASE slot = "custom"
    BY Zenon, <2>3, Writes DEF TierAllows
  <2>4. CASE slot = "headers"
    <3>1. CASE "write_headers" \in caps
      BY Zenon, <2>4, <3>1, Writes DEF TierAllows
    <3>2. CASE "write_headers" \notin caps
      <4>1. m.http = e.http
        BY <3>2, HttpMerged
      <4> QED
        BY Zenon, <2>4, <4>1, SlotsAlike DEF TierAllows
    <3> QED
      BY Zenon, <3>1, <3>2
  <2>5. CASE slot = "labels"
    <3>1. CASE m.security = e.security
      BY Zenon, <2>5, <3>1, SlotsAlike DEF TierAllows
    <3>2. CASE m.security # e.security
      <4>1. PICK b \in Security, y \in owned.security, w \in Security :
              /\ e.security = {b} \/ (e.security = {} /\ b = DefaultSecurity)
              /\ b.labels \subseteq y.labels
              /\ m.security = {w} /\ w.labels = y.labels /\ "append_labels" \in caps
        BY <3>2, SecurityMerged
      <4>3. UNION {s.labels : s \in m.security} = y.labels
        BY Zenon, <4>1
      <4>4. UNION {s.labels : s \in e.security} \subseteq b.labels
        BY Zenon, <4>1
      <4>5. SlotValue(e, "labels") \subseteq SlotValue(m, "labels")
        BY <4>1, <4>3, <4>4, SlotValues
      <4> QED
        BY Zenon, <2>5, <4>1, <4>5, Writes DEF TierAllows, Grows
    <3> QED
      BY Zenon, <3>1, <3>2
  <2>6. CASE slot = "delegation"
    <3>2. CASE "append_delegation" \notin caps
      <4>1. m.delegation = e.delegation
        BY <3>2, DelegationMerged
      <4> QED
        BY Zenon, <2>6, <4>1, SlotValues DEF TierAllows
    <3>3. CASE "append_delegation" \in caps
      <4>1. \A x \in e.delegation : \E a \in m.delegation : ChainExtends(x.chain, a.chain)
        BY Zenon, DelegationMerged
      <4> QED
        BY Zenon, <2>6, <3>3, <4>1, Writes, SlotValues DEF TierAllows, Grows
    <3> QED
      BY Zenon, <3>2, <3>3
  <2> QED
    BY Zenon, <2>1, <2>2, <2>3, <2>4, <2>5, <2>6, SlotNames DEF SubjectField, RawSlot
<1> QED
  BY Zenon, <1>1, <1>2 DEF AcceptExtensions

\* Nor do the request line, the chain's root and the routing constraint change in
\* ways that are not allowed (merge_owned, candidate_constraint_write_ok).
LEMMA RestRespected ==
  ASSUME NEW e \in Ext, NEW owned \in Ext, NEW caps
  PROVE  LET f == AcceptExtensions(e, owned, caps)
         IN  /\ \A h \in e.http : {g.line : g \in f.http} = {h.line}
             /\ \A d \in e.delegation : \A o \in d.origin : \A a \in f.delegation : a.origin = Some(o)
             /\ f.constraint # e.constraint => "write_candidate_constraint" \in caps
<1> DEFINE m == MergeOwned(e, owned, caps)
           f == AcceptExtensions(e, owned, caps)
<1>1. CASE f = e
  <2>1. \A h \in e.http : e.http = {h}
    BY Fields, OptionOf
  <2>2. \A d \in e.delegation : d \in Delegation /\ e.delegation = {d}
    BY Fields, OptionOf
  <2>3. \A d \in Delegation : d.origin \in Opt({"root"})
    BY Zenon DEF Delegation
  <2>4. \A d \in e.delegation : \A o \in d.origin : d.origin = {o}
    BY <2>2, <2>3, OptionOf
  <2> HIDE DEF f
  <2>5. \A h \in e.http : {g.line : g \in f.http} = {h.line}
    BY Zenon, <1>1, <2>1
  <2> QED
    BY <1>1, <2>2, <2>4, <2>5 DEF Some, f
<1>2. CASE f = m /\ CandidateConstraintWriteOk(e, owned, caps)
  <2>1. m.constraint = owned.constraint
    BY MergedFields
  <2>2. \A h \in e.http : {g.line : g \in m.http} = {h.line}
    <3>1. \A h \in e.http : \E g \in Http : m.http = {g} /\ g.line = h.line
      BY HttpMerged
    <3> HIDE DEF m
    <3> QED
      BY Zenon, <3>1
  <2>3. \A d \in e.delegation : \A o \in d.origin : \A a \in m.delegation : a.origin = {o}
    BY DelegationMerged
  <2>4. m.constraint # e.constraint => "write_candidate_constraint" \in caps
    BY Zenon, <1>2, <2>1 DEF CandidateConstraintWriteOk
  <2> HIDE DEF m, f
  <2> QED
    BY Zenon, <1>2, <2>2, <2>3, <2>4 DEF Some, f
<1> QED
  BY Zenon, <1>1, <1>2 DEF AcceptExtensions
-----------------------------------------------------------------------------
\* What a handler in the process returns is a container.
LEMMA ReturnedTyped ==
  ASSUME NEW v \in Ext
  PROVE  Returned(v) \subseteq Ext
<1> DEFINE sec == DefaultTo(v.security, DefaultSecurity)
<1>1. DefaultSecurity \in Security
  BY Zenon, OptionFrom DEF DefaultSecurity, Security, None
<1>2. PICK s \in Security : sec = {s}
  <2>1. CASE v.security = {}
    BY Zenon, <1>1, <2>1 DEF DefaultTo, None, Some
  <2>2. CASE v.security # {}
    BY <2>2, Fields, OptionOf DEF DefaultTo, None
  <2> QED
    BY Zenon, <2>1, <2>2
<1>3. Bob \in Subject
  BY Zenon DEF Bob, Subject
<1> HIDE DEF sec
<1>4. \A x \in Opt({"req", "other"}) : [v EXCEPT !.request = x] \in Ext
  BY Zenon DEF Ext
<1>5. \A x \in Opt({"agt", "other"}) : [v EXCEPT !.agent = x] \in Ext
  BY Zenon DEF Ext
<1>6. \A x \in Opt(Http) : [v EXCEPT !.http = x] \in Ext
  BY Zenon DEF Ext
<1>7. \A x \in Opt(Security) : [v EXCEPT !.security = x] \in Ext
  BY Zenon DEF Ext
<1>8. \A x \in Opt({"c1"}) : [v EXCEPT !.constraint = x] \in Ext
  BY Zenon DEF Ext
<1>9. \A x \in Opt(Delegation) : [v EXCEPT !.delegation = x] \in Ext
  BY Zenon DEF Ext
<1>10. \A x \in Opt(Raw) : [v EXCEPT !.raw = x] \in Ext
  BY Zenon DEF Ext
<1>11. \A x \in Opt({"v1"}) : [v EXCEPT !.custom = x] \in Ext
  BY Zenon DEF Ext
<1>12. /\ None \in Opt({"req", "other"}) /\ Some("other") \in Opt({"req", "other"})
       /\ None \in Opt({"agt", "other"}) /\ Some("other") \in Opt({"agt", "other"})
       /\ None \in Opt(Security) /\ None \in Opt(Raw) /\ Some("other") \in Opt({"get", "other"})
  BY Zenon DEF Opt, None, Some
<1>13. Opt([line : {Some("other")}, headers : SUBSET Header]) \subseteq Opt(Http)
  <2>1. [line : {Some("other")}, headers : SUBSET Header] \subseteq Http
    BY Zenon, <1>12 DEF Http
  <2> QED
    BY Zenon, <2>1 DEF Opt
<1>14. \A l \in SUBSET Label : {[x EXCEPT !.labels = l] : x \in sec} \in Opt(Security)
  <2> TAKE l \in SUBSET Label
  <2>1. [s EXCEPT !.labels = l] \in Security
    BY Zenon DEF Security
  <2>2. {[x EXCEPT !.labels = l] : x \in sec} = {[s EXCEPT !.labels = l]}
    BY Zenon, <1>2
  <2> QED
    BY Zenon, <2>1, <2>2, OptionFrom
<1>15. {[x EXCEPT !.subject = Some(Bob)] : x \in sec} \in Opt(Security)
  <2>1. Some(Bob) \in Opt(Subject)
    BY Zenon, <1>3, OptionFrom DEF Some
  <2>2. [s EXCEPT !.subject = Some(Bob)] \in Security
    BY Zenon, <2>1 DEF Security
  <2>3. {[x EXCEPT !.subject = Some(Bob)] : x \in sec} = {[s EXCEPT !.subject = Some(Bob)]}
    BY Zenon, <1>2
  <2> QED
    BY Zenon, <2>2, <2>3, OptionFrom
<1>16. ASSUME NEW x \in Returned(v) PROVE x \in Ext
  <2>1. \/ \E y \in Opt({"req", "other"}) : x = [v EXCEPT !.request = y]
        \/ \E y \in Opt({"agt", "other"}) : x = [v EXCEPT !.agent = y]
        \/ \E y \in Opt(Http) : x = [v EXCEPT !.http = y]
        \/ \E y \in Opt(Security) : x = [v EXCEPT !.security = y]
        \/ \E y \in Opt({"c1"}) : x = [v EXCEPT !.constraint = y]
        \/ \E y \in Opt(Delegation) : x = [v EXCEPT !.delegation = y]
        \/ \E y \in Opt(Raw) : x = [v EXCEPT !.raw = y]
        \/ \E y \in Opt({"v1"}) : x = [v EXCEPT !.custom = y]
    BY Zenon, <1>12, <1>13, <1>14, <1>15, <1>16 DEF Returned, sec
  <2> QED
    BY Zenon, <2>1, <1>4, <1>5, <1>6, <1>7, <1>8, <1>9, <1>10, <1>11
<1> QED
  BY Zenon, <1>16

\* What a worker is sent is a container (attach_extensions).
LEMMA WireTyped ==
  ASSUME NEW v \in Ext
  PROVE  ToWire(v) \in Ext
<1>1. {SanitizeHttp(h) : h \in v.http} \in Opt(Http)
  <2>1. CASE v.http = {}
    <3>1. {SanitizeHttp(h) : h \in v.http} = {}
      BY Zenon, <2>1
    <3> QED
      BY Zenon, <3>1, OptionFrom
  <2>2. CASE \E h \in Http : v.http = {h}
    <3>1. PICK h \in Http : v.http = {h}
      BY Zenon, <2>2
    <3>2. SanitizeHttp(h) \in Http
      BY Zenon DEF SanitizeHttp, StripSensitive, Http
    <3>3. {SanitizeHttp(x) : x \in v.http} = {SanitizeHttp(h)}
      BY Zenon, <3>1
    <3> QED
      BY Zenon, <3>2, <3>3, OptionFrom
  <2> QED
    BY Zenon, <2>1, <2>2, Fields, OptionOf
<1>2. None \in Opt({"c1"}) /\ None \in Opt(Raw)
  BY Zenon, OptionFrom DEF None
<1> DEFINE X == {SanitizeHttp(h) : h \in v.http}
<1> HIDE DEF X
<1>3. X \in Opt(Http)
  BY Zenon, <1>1 DEF X
<1>4. [v EXCEPT !.http = X, !.constraint = None, !.raw = None] \in Ext
  BY Zenon, <1>2, <1>3 DEF Ext
<1> QED
  BY Zenon, <1>4 DEF ToWire, X

\* The http slot that is rebuilt from a reply (owned_from_returned_slot).
LEMMA HttpRebuilt ==
  ASSUME NEW v \in Opt(Http), NEW o \in Opt(Http)
  PROVE  /\ {ReturnedHttp(h, v) : h \in o} \in Opt(Http)
         /\ \A y \in o : /\ {ReturnedHttp(h, v) : h \in o} = {ReturnedHttp(y, v)}
                         /\ ReturnedHttp(y, v).headers = y.headers \ Sensitive
<1>1. UNION {h.line : h \in v} \in Opt({"get", "other"})
  <2>1. CASE v = {}
    <3>1. UNION {h.line : h \in v} = {}
      BY Zenon, <2>1
    <3> QED
      BY Zenon, <3>1, OptionFrom
  <2>2. CASE \E h \in Http : v = {h}
    <3>1. PICK h \in Http : v = {h}
      BY Zenon, <2>2
    <3>2. UNION {x.line : x \in v} = h.line
      BY Zenon, <3>1
    <3>3. h.line \in Opt({"get", "other"})
      BY Zenon DEF Http
    <3> QED
      BY Zenon, <3>2, <3>3
  <2> QED
    BY Zenon, <2>1, <2>2, OptionOf
<1>2. ASSUME NEW y \in o PROVE ReturnedHttp(y, v) \in Http /\ o = {y}
  <2>1. y \in Http /\ o = {y}
    BY OptionOf
  <2>2. y.headers \in SUBSET Header
    BY Zenon, <2>1 DEF Http
  <2>3. y.headers \ Sensitive \in SUBSET Header
    BY Zenon, <2>2
  <2> QED
    BY Zenon, <1>1, <2>1, <2>3 DEF ReturnedHttp, StripSensitive, Http
<1>3. \A y \in o : ReturnedHttp(y, v).headers = y.headers \ Sensitive
  BY Zenon DEF ReturnedHttp, StripSensitive
<1>4. \A y \in o : {ReturnedHttp(h, v) : h \in o} = {ReturnedHttp(y, v)}
  BY Zenon, <1>2
<1>5. CASE o = {}
  <2>1. {ReturnedHttp(h, v) : h \in o} = {}
    BY Zenon, <1>5
  <2> QED
    BY Zenon, <1>5, <2>1, OptionFrom
<1>6. CASE o # {}
  <2>1. PICK y : y \in o
    BY Zenon, <1>6
  <2>2. {ReturnedHttp(h, v) : h \in o} \in Opt(Http)
    BY <1>2, <1>4, <2>1, OptionFrom
  <2> QED
    BY Zenon, <1>3, <1>4, <2>2
<1> QED
  BY Zenon, <1>5, <1>6

\* The security slot that is rebuilt from a reply (owned_from_returned_slot).
LEMMA SecurityRebuilt ==
  ASSUME NEW v \in Opt(Security), NEW o \in Opt(Security)
  PROVE  /\ SecurityTaken(o, v) \in Opt(Security)
         /\ \A y \in o : \E b \in Security, z \in Security :
              /\ DefaultTo(v, DefaultSecurity) = {b}
              /\ SecurityTaken(o, v) = {z} /\ z.labels = b.labels \cup y.labels
<1>1. DefaultSecurity \in Security
  BY Zenon, OptionFrom DEF DefaultSecurity, Security, None
<1>2. PICK b \in Security : DefaultTo(v, DefaultSecurity) = {b}
  <2>1. CASE v = {}
    BY Zenon, <1>1, <2>1 DEF DefaultTo, None, Some
  <2>2. CASE v # {}
    BY <2>2, OptionOf DEF DefaultTo, None
  <2> QED
    BY Zenon, <2>1, <2>2
<1>3. CASE o = {}
  <2>1. SecurityTaken(o, v) = {}
    BY <1>3 DEF SecurityTaken
  <2> QED
    BY Zenon, <1>3, <2>1, OptionFrom
<1>4. CASE o # {}
  <2>1. PICK y \in Security : o = {y}
    BY <1>4, OptionOf
  <2> DEFINE z == [b EXCEPT !.labels = b.labels \cup y.labels]
  <2>2. SecurityTaken(o, v) = {z}
    BY <1>2, <2>1 DEF SecurityTaken
  <2>3. b.labels \cup y.labels \in SUBSET Label
    BY Zenon DEF Security
  <2>4. z \in Security /\ z.labels = b.labels \cup y.labels
    BY Zenon, <2>3 DEF Security
  <2> HIDE DEF z
  <2>5. SecurityTaken(o, v) \in Opt(Security)
    BY Zenon, <2>2, <2>4, OptionFrom
  <2> QED
    BY Zenon, <1>2, <2>1, <2>2, <2>4, <2>5
<1> QED
  BY Zenon, <1>3, <1>4

\* A copy r whose http slot is the view's, or the reply's without credentials.
HttpFrom(r, reply, v, caps) ==
  /\ reply.http = {} \/ "write_headers" \notin caps => r.http = v.http
  /\ "write_headers" \in caps =>
       \A y \in reply.http : \E z \in Http : r.http = {z} /\ z.headers = y.headers \ Sensitive

\* A copy r whose security slot is the view's, or has the reply's labels added.
SecurityFrom(r, reply, v, caps) ==
  /\ reply.security = {} \/ "append_labels" \notin caps => r.security = v.security
  /\ "append_labels" \in caps =>
       \A y \in reply.security : \E b \in Security, z \in Security :
         /\ DefaultTo(v.security, DefaultSecurity) = {b}
         /\ r.security = {z} /\ z.labels = b.labels \cup y.labels

\* What the host rebuilds from a reply (owned_from_returned_slot): nothing, or the
\* view with the slots that were taken.
LEMMA Rebuilt ==
  ASSUME NEW reply \in Ext, NEW v \in Ext, NEW caps,
         OwnedFromReturned(reply, v, caps) # {}
  PROVE  \E r \in Ext :
           /\ OwnedFromReturned(reply, v, caps) = {r}
           /\ r.request = v.request /\ r.agent = v.agent /\ r.constraint = v.constraint /\ r.raw = v.raw
           /\ HttpFrom(r, reply, v, caps) /\ SecurityFrom(r, reply, v, caps)
           /\ r.delegation = IF /\ reply.delegation # {} /\ "append_delegation" \in caps
                                /\ ChainTaken(reply.delegation, v.delegation)
                             THEN reply.delegation ELSE v.delegation
           /\ r.custom = IF reply.custom # {} THEN reply.custom ELSE v.custom
<1> DEFINE http == IF reply.http # {} /\ "write_headers" \in caps
                   THEN {ReturnedHttp(h, v.http) : h \in reply.http} ELSE v.http
           security == IF reply.security # {} /\ "append_labels" \in caps
                       THEN SecurityTaken(reply.security, v.security) ELSE v.security
           delegation == IF /\ reply.delegation # {} /\ "append_delegation" \in caps
                            /\ ChainTaken(reply.delegation, v.delegation)
                         THEN reply.delegation ELSE v.delegation
           custom == IF reply.custom # {} THEN reply.custom ELSE v.custom
           r == [v EXCEPT !.http = http, !.security = security, !.delegation = delegation, !.custom = custom]
<1>1. OwnedFromReturned(reply, v, caps) = {r}
  BY Zenon DEF OwnedFromReturned, None
<1>2. http \in Opt(Http)
  BY Zenon, Fields, HttpRebuilt
<1>3. security \in Opt(Security)
  BY Zenon, Fields, SecurityRebuilt
<1>4. delegation \in Opt(Delegation) /\ custom \in Opt({"v1"})
  BY Zenon, Fields
<1>5. PICK h, s, d, c : h = http /\ s = security /\ d = delegation /\ c = custom
  BY Zenon
<1>6. r = [v EXCEPT !.http = h, !.security = s, !.delegation = d, !.custom = c]
  BY Zenon, <1>5
<1> HIDE DEF http, security, delegation, custom, r
<1>7. r \in Ext
  BY Zenon, <1>2, <1>3, <1>4, <1>5, <1>6 DEF Ext
<1>8. /\ r.request = v.request /\ r.agent = v.agent /\ r.constraint = v.constraint /\ r.raw = v.raw
      /\ r.http = h /\ r.security = s /\ r.delegation = d /\ r.custom = c
  BY Zenon, <1>6 DEF Ext
<1>9. /\ reply.http = {} \/ "write_headers" \notin caps => h = v.http
      /\ "write_headers" \in caps =>
           \A y \in reply.http : \E z \in Http : h = {z} /\ z.headers = y.headers \ Sensitive
  <2>1. v.http \in Opt(Http) /\ reply.http \in Opt(Http)
    BY Zenon, Fields
  <2>2. reply.http = {} \/ "write_headers" \notin caps => h = v.http
    BY Zenon, <1>5 DEF http
  <2>3. ASSUME "write_headers" \in caps, NEW y \in reply.http
        PROVE  \E z \in Http : h = {z} /\ z.headers = y.headers \ Sensitive
    <3>1. h = {ReturnedHttp(x, v.http) : x \in reply.http}
      BY Zenon, <1>5, <2>3 DEF http
    <3>2. /\ {ReturnedHttp(x, v.http) : x \in reply.http} = {ReturnedHttp(y, v.http)}
          /\ ReturnedHttp(y, v.http).headers = y.headers \ Sensitive
      BY Zenon, <2>1, HttpRebuilt
    <3>3. h = {ReturnedHttp(y, v.http)} /\ h \in Opt(Http)
      BY Zenon, <1>2, <1>5, <3>1, <3>2
    <3>4. ReturnedHttp(y, v.http) \in Http
      BY <3>3, OptionOf
    <3> QED
      BY Zenon, <3>2, <3>3, <3>4
  <2> QED
    BY Zenon, <2>2, <2>3
<1>10. /\ reply.security = {} \/ "append_labels" \notin caps => s = v.security
       /\ "append_labels" \in caps =>
            \A y \in reply.security : \E b \in Security, z \in Security :
              /\ DefaultTo(v.security, DefaultSecurity) = {b}
              /\ s = {z} /\ z.labels = b.labels \cup y.labels
  <2>1. v.security \in Opt(Security) /\ reply.security \in Opt(Security)
    BY Zenon, Fields
  <2>2. reply.security = {} \/ "append_labels" \notin caps => s = v.security
    BY Zenon, <1>5 DEF security
  <2>3. ASSUME "append_labels" \in caps, NEW y \in reply.security
        PROVE  \E b \in Security, z \in Security :
                 /\ DefaultTo(v.security, DefaultSecurity) = {b}
                 /\ s = {z} /\ z.labels = b.labels \cup y.labels
    <3>1. s = SecurityTaken(reply.security, v.security)
      BY Zenon, <1>5, <2>3 DEF security
    <3> QED
      BY <2>1, <3>1, SecurityRebuilt
  <2> QED
    BY Zenon, <2>2, <2>3
<1>11. /\ d = IF /\ reply.delegation # {} /\ "append_delegation" \in caps
                 /\ ChainTaken(reply.delegation, v.delegation)
              THEN reply.delegation ELSE v.delegation
       /\ c = IF reply.custom # {} THEN reply.custom ELSE v.custom
  BY Zenon, <1>5 DEF delegation, custom
<1>12. HttpFrom(r, reply, v, caps) /\ SecurityFrom(r, reply, v, caps)
  BY Zenon, <1>8, <1>9, <1>10 DEF HttpFrom, SecurityFrom
<1> QED
  BY Zenon, <1>1, <1>7, <1>8, <1>11, <1>12

\* What is made of a reply is what is made of some copy, or nothing
\* (owned_from_returned_slot).
LEMMA ReplyAccepted ==
  ASSUME NEW e \in Ext, NEW reply \in Ext, NEW v \in Ext, NEW caps
  PROVE  \/ AfterReply(e, reply, v, caps) = e
         \/ \E r \in Ext : AfterReply(e, reply, v, caps) = AcceptExtensions(e, r, caps)
<1>1. CASE OwnedFromReturned(reply, v, caps) = {}
  BY Zenon, <1>1 DEF AfterReply
<1>2. CASE OwnedFromReturned(reply, v, caps) # {}
  <2>1. PICK r \in Ext : OwnedFromReturned(reply, v, caps) = {r}
    BY <1>2, Rebuilt
  <2>2. The({r}) = r
    BY Zenon DEF The
  <2> QED
    BY Zenon, <2>1, <2>2 DEF AfterReply
<1> QED
  BY Zenon, <1>1, <1>2
-----------------------------------------------------------------------------
\* The extensions are a container from the beginning.
LEMMA ChainInitially == Init => TypeOK
<1> SUFFICES ASSUME Init PROVE TypeOK
  BY Zenon
<1>1. /\ Some("req") \in Opt({"req", "other"}) /\ Some("agt") \in Opt({"agt", "other"})
      /\ Some("get") \in Opt({"get", "other"}) /\ Some("app") \in Opt({"app"}) /\ Some("peer") \in Opt({"peer"})
      /\ Some("meta") \in Opt({"meta"}) /\ None \in Opt({"c1"}) /\ None \in Opt(Delegation)
      /\ None \in Opt({"v1"}) /\ None \in Opt({"agt", "other"}) /\ None \in Opt(Http) /\ None \in Opt(Security)
      /\ None \in Opt(Raw)
  BY Zenon DEF Opt, None, Some
<1>2. Alice \in Subject
  BY Zenon DEF Alice, Subject
<1>3. Some(Alice) \in Opt(Subject)
  BY Zenon, <1>2, OptionFrom DEF Some
<1>4. Some([labels |-> {}, subject |-> Some(Alice), client |-> Some("app"), workload |-> Some("peer"),
            open |-> Some("meta")]) \in Opt(Security)
  <2>1. [labels |-> {}, subject |-> Some(Alice), client |-> Some("app"), workload |-> Some("peer"),
         open |-> Some("meta")] \in Security
    BY Zenon, <1>1, <1>3 DEF Security
  <2> QED
    BY Zenon, <2>1, OptionFrom DEF Some
<1>5. Some([line |-> Some("get"), headers |-> Header]) \in Opt(Http)
  <2>1. [line |-> Some("get"), headers |-> Header] \in Http
    BY Zenon, <1>1 DEF Http
  <2> QED
    BY Zenon, <2>1, OptionFrom DEF Some
<1>6. Some([inbound |-> Token, delegated |-> Token]) \in Opt(Raw)
  <2>1. [inbound |-> Token, delegated |-> Token] \in Raw
    BY Zenon DEF Raw
  <2> QED
    BY Zenon, <2>1, OptionFrom DEF Some
<1>7. FullExt \in Ext
  BY Zenon, <1>1, <1>4, <1>5, <1>6 DEF FullExt, Ext
<1>8. BareExt \in Ext
  BY Zenon, <1>1 DEF BareExt, Ext
<1> QED
  BY Zenon, <1>7, <1>8 DEF Init, TypeOK

\* A step of a plugin, in the process or in a worker, leaves the extensions alone or
\* merges a container into them (accept_extensions).
LEMMA StepAccepts ==
  ASSUME TypeOK, Next
  PROVE  /\ by' \in CapSets
         /\ ext' = ext \/ \E r \in Ext : ext' = AcceptExtensions(ext, r, by')
<1>1. PICK caps \in CapSets : RunPlugin(caps) \/ RunRemotePlugin(caps)
  BY Zenon DEF Next
<1> DEFINE v == FilterExtensions(ext, caps)
<1>2. ext \in Ext /\ v \in Ext
  BY Zenon, ViewTyped DEF TypeOK
<1>3. CASE RunPlugin(caps)
  BY Zenon, <1>2, <1>3, ReturnedTyped DEF RunPlugin
<1>4. CASE RunRemotePlugin(caps)
  <2>1. by' = caps
    BY Zenon, <1>4 DEF RunRemotePlugin
  <2>2. CASE ext' = ext
    BY Zenon, <2>1, <2>2
  <2>3. CASE ext' # ext
    <3>1. PICK reply \in Returned(ToWire(v)) : ext' = AfterReply(ext, reply, v, caps)
      BY Zenon, <1>4, <2>3 DEF RunRemotePlugin
    <3>2. reply \in Ext
      BY Zenon, <1>2, WireTyped, ReturnedTyped
    <3> QED
      BY <1>2, <2>1, <2>3, <3>1, <3>2, ReplyAccepted
  <2> QED
    BY Zenon, <2>2, <2>3
<1> QED
  BY Zenon, <1>1, <1>3, <1>4

\* Merging never leaves a slot in a shape the container cannot hold (merge_owned).
LEMMA ChainTyped == TypeOK /\ [Next]_vars => TypeOK'
<1> SUFFICES ASSUME TypeOK, [Next]_vars PROVE TypeOK'
  BY Zenon
<1>1. CASE Next
  <2>1. ext \in Ext
    BY Zenon DEF TypeOK
  <2> QED
    BY Zenon, <1>1, <2>1, StepAccepts, AcceptTyped DEF TypeOK
<1>2. CASE UNCHANGED vars
  BY Zenon, <1>2 DEF vars, TypeOK
<1> QED
  BY Zenon, <1>1, <1>2

\* What a plugin cannot see it neither learns nor changes by handing back its view
\* (filter_extensions, merge_owned), whatever the capabilities.
THEOREM Views == Spec => []ViewsHarmless
<1>1. ASSUME TypeOK PROVE ViewsHarmless
  <2>1. ext \in Ext
    BY Zenon, <1>1 DEF TypeOK
  <2>2. HiddenSlotsInvisible
    BY Zenon, <2>1, Hidden DEF HiddenSlotsInvisible
  <2>3. RoundTripHarmless
    BY Zenon, <2>1, RoundTrip DEF RoundTripHarmless, After
  <2> QED
    BY Zenon, <2>2, <2>3 DEF ViewsHarmless
<1>2. TypeOK => ViewsHarmless
  BY Zenon, <1>1
<1> QED
  BY ChainInitially, ChainTyped, <1>2, PTL DEF Spec

\* Whatever a chain of plugins returns, in the process or from workers, each slot
\* changes only as its tier and write capability allow (merge_owned, slot_policy).
THEOREM Tiers == Spec => TierRespected
<1>1. ASSUME TypeOK, Next PROVE TierStep
  <2>1. ext \in Ext
    BY Zenon, <1>1 DEF TypeOK
  <2>2. CASE ext' = ext
    <3>1. \A h \in ext.http : ext.http = {h}
      BY <2>1, Fields, OptionOf
    <3>2. \A d \in ext.delegation : d \in Delegation /\ ext.delegation = {d}
      BY <2>1, Fields, OptionOf
    <3>3. \A d \in Delegation : d.origin \in Opt({"root"})
      BY Zenon DEF Delegation
    <3>4. \A d \in ext.delegation : \A o \in d.origin : d.origin = {o}
      BY <3>2, <3>3, OptionOf
    <3>5. \A h \in ext.http : {g.line : g \in ext.http} = {h.line}
      BY Zenon, <3>1
    <3>6. \A slot : SlotValue(ext', slot) = SlotValue(ext, slot)
      BY Zenon, <2>2 DEF SlotValue, SubjectOf
    <3>7. \A slot \in Slot \ RawSlot : TierAllows(slot, by', SlotValue(ext, slot), SlotValue(ext', slot))
      BY Zenon, <3>6 DEF TierAllows
    <3> QED
      BY <2>2, <3>2, <3>4, <3>5, <3>7 DEF TierStep, Some
  <2>3. CASE \E r \in Ext : ext' = AcceptExtensions(ext, r, by')
    <3>1. PICK r \in Ext : ext' = AcceptExtensions(ext, r, by')
      BY Zenon, <2>3
    <3>2. \A slot \in Slot \ RawSlot :
            TierAllows(slot, by', SlotValue(ext, slot), SlotValue(ext', slot))
      BY Zenon, <2>1, <3>1, SlotsRespected
    <3>3. /\ \A h \in ext.http : {g.line : g \in ext'.http} = {h.line}
          /\ \A d \in ext.delegation : \A o \in d.origin : \A a \in ext'.delegation : a.origin = Some(o)
          /\ ext'.constraint # ext.constraint => "write_candidate_constraint" \in by'
      BY <2>1, <3>1, RestRespected
    <3> QED
      BY Zenon, <3>2, <3>3 DEF TierStep
  <2> QED
    BY Zenon, <1>1, <2>2, <2>3, StepAccepts
<1>2. TypeOK /\ [Next]_vars => [TierStep]_vars
  BY Zenon, <1>1
<1> QED
  BY ChainInitially, ChainTyped, <1>2, PTL DEF Spec, TierRespected
-----------------------------------------------------------------------------
\* A merged slot depends on the same slot of the copy only (merge_owned).
LEMMA MergedSame ==
  ASSUME NEW e \in Ext, NEW r \in Ext, NEW o \in Ext, NEW caps
  PROVE  LET m == MergeOwned(e, r, caps)
             n == MergeOwned(e, o, caps)
         IN  /\ r.http = o.http => m.http = n.http
             /\ r.security = o.security => m.security = n.security
             /\ r.delegation = o.delegation => m.delegation = n.delegation
BY MergedFields

\* A returned http slot has the same effect from a worker but for the headers that
\* do not travel (ReturnedHttp, merge_owned).
LEMMA HttpAlike ==
  ASSUME NEW e \in Ext, NEW v \in Ext, NEW r \in Ext, NEW o \in Ext, NEW caps,
         MergeOwned(e, v, caps).http = e.http, HttpFrom(r, o, v, caps)
  PROVE  {SanitizeHttp(x) : x \in MergeOwned(e, r, caps).http}
           = {SanitizeHttp(x) : x \in MergeOwned(e, o, caps).http}
<1>1. PICK m, n : m = MergeOwned(e, r, caps).http /\ n = MergeOwned(e, o, caps).http
  BY Zenon
<1>2. CASE o.http = {} \/ "write_headers" \notin caps
  <2>1. m = e.http
    BY <1>1, <1>2, MergedSame DEF HttpFrom
  <2>2. n = e.http
    BY <1>1, <1>2, HttpMerged
  <2> QED
    BY Zenon, <1>1, <2>1, <2>2
<1>3. CASE o.http # {} /\ "write_headers" \in caps
  <2>1. PICK y \in o.http : TRUE
    BY Zenon, <1>3
  <2>2. PICK z \in Http : r.http = {z} /\ z.headers = y.headers \ Sensitive
    BY Zenon, <1>3 DEF HttpFrom
  <2>3. PICK f \in Http : m = {f} /\ f.headers = z.headers
    <3>1. \A w \in r.http : \E f \in Http : MergeOwned(e, r, caps).http = {f} /\ f.headers = w.headers
      BY <1>3, HttpWritten
    <3> QED
      BY Zenon, <1>1, <2>2, <3>1
  <2>4. PICK g \in Http : n = {g} /\ g.headers = y.headers
    <3>1. \A w \in o.http : \E g \in Http : MergeOwned(e, o, caps).http = {g} /\ g.headers = w.headers
      BY <1>3, HttpWritten
    <3> QED
      BY Zenon, <1>1, <2>1, <3>1
  <2>5. f.line = g.line
    <3>1. CASE e.http = {}
      BY Zenon, <1>1, <2>3, <2>4, <3>1, HttpMerged
    <3>2. CASE e.http # {}
      <4>1. PICK x \in e.http : TRUE
        BY Zenon, <3>2
      <4>2. f.line = x.line
        <5>1. \E k \in Http : MergeOwned(e, r, caps).http = {k} /\ k.line = x.line
          BY <4>1, HttpMerged
        <5> QED
          BY Zenon, <1>1, <2>3, <5>1
      <4>3. g.line = x.line
        <5>1. \E k \in Http : MergeOwned(e, o, caps).http = {k} /\ k.line = x.line
          BY <4>1, HttpMerged
        <5> QED
          BY Zenon, <1>1, <2>4, <5>1
      <4> QED
        BY Zenon, <4>2, <4>3
    <3> QED
      BY Zenon, <3>1, <3>2
  <2>6. ASSUME NEW x \in Http PROVE SanitizeHttp(x) = [line |-> x.line, headers |-> x.headers \ Sensitive]
    BY SMTT(30) DEF SanitizeHttp, StripSensitive, Http
  <2>7. f.headers \ Sensitive = g.headers \ Sensitive
    BY Zenon, <2>2, <2>3, <2>4
  <2>8. SanitizeHttp(f) = SanitizeHttp(g)
    BY Zenon, <2>5, <2>6, <2>7
  <2>9. {SanitizeHttp(x) : x \in m} = {SanitizeHttp(f)} /\ {SanitizeHttp(x) : x \in n} = {SanitizeHttp(g)}
    BY Zenon, <2>3, <2>4
  <2> QED
    BY Zenon, <1>1, <2>8, <2>9
<1> QED
  BY Zenon, <1>2, <1>3

\* What the security slot becomes (merge_owned).
LEMMA MergedSecurity ==
  ASSUME NEW e \in Ext, NEW o \in Ext, NEW caps
  PROVE  MergeOwned(e, o, caps).security = MergeSecurity(e.security, o.security, "append_labels" \in caps)
BY MergedFields

\* Of the security slot of a copy the labels count, and nothing else (merge_owned).
LEMMA LabelsCount ==
  ASSUME NEW e \in Ext, NEW r \in Ext, NEW o \in Ext, NEW caps, NEW z \in Security, NEW y \in Security,
         r.security = {z}, o.security = {y}, z.labels = y.labels
  PROVE  MergeOwned(e, r, caps).security = MergeOwned(e, o, caps).security
<1> DEFINE t == "append_labels" \in caps
<1>1. PICK m, n : m = MergeOwned(e, r, caps).security /\ n = MergeOwned(e, o, caps).security
  BY Zenon
<1>2. m = MergeSecurity(e.security, r.security, t) /\ n = MergeSecurity(e.security, o.security, t)
  <2>1. MergeOwned(e, r, caps).security = MergeSecurity(e.security, r.security, t)
    BY MergedSecurity, Zenon
  <2>2. MergeOwned(e, o, caps).security = MergeSecurity(e.security, o.security, t)
    BY MergedSecurity, Zenon
  <2> QED
    BY Zenon, <1>1, <2>1, <2>2
<1>3. PICK b \in Security : DefaultTo(e.security, DefaultSecurity) = {b}
  <2>1. DefaultSecurity \in Security
    BY Zenon, OptionFrom DEF DefaultSecurity, Security, None
  <2>2. CASE e.security = {}
    BY Zenon, <2>1, <2>2 DEF DefaultTo, None, Some
  <2>3. CASE e.security # {}
    BY <2>3, Fields, OptionOf DEF DefaultTo, None
  <2> QED
    BY Zenon, <2>2, <2>3
<1>4. CASE ~t \/ ~(b.labels \subseteq y.labels)
  <2>1. ~t \/ \E c \in DefaultTo(e.security, DefaultSecurity), w \in r.security : ~(c.labels \subseteq w.labels)
    BY Zenon, <1>3, <1>4
  <2>2. ~t \/ \E c \in DefaultTo(e.security, DefaultSecurity), w \in o.security : ~(c.labels \subseteq w.labels)
    BY Zenon, <1>3, <1>4
  <2>3. m = e.security
    BY <1>2, <2>1 DEF MergeSecurity
  <2>4. n = e.security
    BY <1>2, <2>2 DEF MergeSecurity
  <2> QED
    BY Zenon, <1>1, <2>3, <2>4
<1>5. CASE t /\ b.labels \subseteq y.labels
  <2>1. m = {[c EXCEPT !.labels = c.labels \cup w.labels] : c \in {b}, w \in {z}}
    BY <1>2, <1>3, <1>5 DEF MergeSecurity, None
  <2>2. n = {[c EXCEPT !.labels = c.labels \cup w.labels] : c \in {b}, w \in {y}}
    BY <1>2, <1>3, <1>5 DEF MergeSecurity, None
  <2>3. m = {[b EXCEPT !.labels = b.labels \cup z.labels]}
    BY <2>1
  <2>4. n = {[b EXCEPT !.labels = b.labels \cup y.labels]}
    BY <2>2
  <2> QED
    BY Zenon, <1>1, <2>3, <2>4
<1> QED
  BY Zenon, <1>4, <1>5

\* Labels that are added have the same effect from a worker (SecurityTaken,
\* merge_owned).
LEMMA SecurityAlike ==
  ASSUME NEW e \in Ext, NEW v \in Ext, NEW r \in Ext, NEW o \in Ext, NEW caps,
         MergeOwned(e, v, caps).security = e.security,
         \A x \in v.security, y \in o.security : x.labels \subseteq y.labels,
         SecurityFrom(r, o, v, caps)
  PROVE  MergeOwned(e, r, caps).security = MergeOwned(e, o, caps).security
<1>1. CASE o.security = {} \/ "append_labels" \notin caps
  <2>1. MergeOwned(e, r, caps).security = e.security
    BY <1>1, MergedSame DEF SecurityFrom
  <2>2. MergeOwned(e, o, caps).security = e.security
    BY Zenon, <1>1, SecurityKept
  <2> QED
    BY Zenon, <2>1, <2>2
<1>2. CASE o.security # {} /\ "append_labels" \in caps
  <2>1. PICK y \in Security : o.security = {y}
    BY Zenon, <1>2, Fields, OptionOf
  <2>2. PICK b \in Security, z \in Security :
          /\ DefaultTo(v.security, DefaultSecurity) = {b}
          /\ r.security = {z} /\ z.labels = b.labels \cup y.labels
    BY Zenon, <1>2, <2>1 DEF SecurityFrom
  <2>3. b.labels \subseteq y.labels
    <3>1. CASE v.security = {}
      <4>1. b = DefaultSecurity
        BY Zenon, <2>2, <3>1 DEF DefaultTo, None, Some
      <4>2. DefaultSecurity.labels = {}
        BY Zenon DEF DefaultSecurity
      <4> QED
        BY Zenon, <4>1, <4>2
    <3>2. CASE v.security # {}
      BY Zenon, <2>1, <2>2, <3>2 DEF DefaultTo, None
    <3> QED
      BY Zenon, <3>1, <3>2
  <2>4. z.labels = y.labels
    BY Zenon, <2>2, <2>3
  <2> QED
    BY <2>1, <2>2, <2>4, LabelsCount
<1> QED
  BY Zenon, <1>1, <1>2

\* So has a returned chain (ChainTaken, merge_owned).
LEMMA DelegationAlike ==
  ASSUME NEW e \in Ext, NEW v \in Ext, NEW r \in Ext, NEW o \in Ext, NEW caps,
         MergeOwned(e, v, caps).delegation = e.delegation, v.delegation \in {e.delegation, {}},
         r.delegation = IF /\ o.delegation # {} /\ "append_delegation" \in caps
                           /\ ChainTaken(o.delegation, v.delegation)
                        THEN o.delegation ELSE v.delegation
  PROVE  MergeOwned(e, r, caps).delegation = MergeOwned(e, o, caps).delegation
<1>1. CASE r.delegation = o.delegation
  BY <1>1, MergedSame
<1>2. CASE r.delegation # o.delegation
  <2>1. MergeOwned(e, r, caps).delegation = e.delegation
    BY <1>2, MergedSame
  <2>2. CASE o.delegation = {} \/ "append_delegation" \notin caps
    BY <2>1, <2>2, DelegationMerged
  <2>3. CASE o.delegation # {} /\ ~ChainTaken(o.delegation, v.delegation)
    <3>1. PICK y \in o.delegation, x \in DefaultTo(v.delegation, DefaultDelegation) :
            ~ChainExtends(x.chain, y.chain)
      BY Zenon, <2>3 DEF ChainTaken
    <3>2. y \in Delegation
      BY Fields, OptionOf
    <3>3. v.delegation # {}
      <4> SUFFICES ASSUME v.delegation = {} PROVE FALSE
        BY Zenon
      <4>1. x.chain = << >>
        BY <3>1 DEF DefaultTo, DefaultDelegation, None, Some
      <4>2. PICK n \in 0..MaxHops : y.chain \in [1..n -> Hop]
        BY Zenon, <3>2 DEF Delegation, Chain
      <4>3. Len(y.chain) = n /\ n >= 0 /\ Len(<< >>) = 0
        BY <4>2
      <4>4. ChainExtends(<< >>, y.chain)
        BY <4>3 DEF ChainExtends
      <4> QED
        BY Zenon, <3>1, <4>1, <4>4
    <3>4. x \in e.delegation
      BY Zenon, <3>1, <3>3 DEF DefaultTo, None
    <3>5. MergeOwned(e, o, caps).delegation = e.delegation
      BY SMTT(30), <3>1, <3>4, DelegationMerged
    <3> QED
      BY Zenon, <2>1, <3>5
  <2> QED
    BY Zenon, <1>2, <2>2, <2>3
<1> QED
  BY Zenon, <1>1, <1>2

\* What counts in the comparison.
LEMMA ComparableFields ==
  ASSUME NEW x \in Ext, NEW y \in Ext,
         x.request = y.request, x.agent = y.agent, x.custom = y.custom, x.security = y.security,
         x.delegation = y.delegation, {SanitizeHttp(h) : h \in x.http} = {SanitizeHttp(h) : h \in y.http}
  PROVE  Comparable(x) = Comparable(y)
<1>1. PICK H : H = {SanitizeHttp(h) : h \in x.http} /\ H = {SanitizeHttp(h) : h \in y.http}
  BY Zenon
<1>2. /\ Comparable(x) = [x EXCEPT !.raw = None, !.constraint = None, !.http = H]
      /\ Comparable(y) = [y EXCEPT !.raw = None, !.constraint = None, !.http = H]
  BY Zenon, <1>1 DEF Comparable
<1>3. [x EXCEPT !.raw = None, !.constraint = None, !.http = H]
        = [y EXCEPT !.raw = None, !.constraint = None, !.http = H]
  BY Zenon DEF Ext
<1> QED
  BY Zenon, <1>2, <1>3
\* A copy that the executor merges has the same effect from a worker, on all that
\* travels, unless it takes something away (owned_from_returned_slot).
LEMMA MergedAlike ==
  ASSUME NEW e \in Ext, NEW caps, NEW edit \in Ext,
         FilterExtensions(e, caps).custom = {} \/ edit.custom # {},
         \A x \in FilterExtensions(e, caps).security, y \in edit.security : x.labels \subseteq y.labels
  PROVE  Comparable(AfterReply(e, edit, FilterExtensions(e, caps), caps)) = Comparable(MergeOwned(e, edit, caps))
<1> DEFINE v == FilterExtensions(e, caps)
           owned == OwnedFromReturned(edit, v, caps)
           R == AfterReply(e, edit, v, caps)
           M == MergeOwned(e, edit, caps)
<1>1. v \in Ext
  BY Zenon, ViewTyped
<1>2. /\ v.request = e.request /\ v.custom = e.custom /\ v.constraint = e.constraint /\ v.agent \in {e.agent, {}}
      /\ v.delegation \in {e.delegation, {}}
  BY Zenon, ViewFields
<1>3. /\ LabelsOk(e, v, caps)
      /\ MergeOwned(e, v, caps).http = e.http /\ MergeOwned(e, v, caps).security = e.security
      /\ MergeOwned(e, v, caps).delegation = e.delegation
  BY Zenon, RoundTripMerged
<1>4. (v.custom = {} \/ edit.custom # {}) /\ \A x \in v.security, y \in edit.security : x.labels \subseteq y.labels
  BY Zenon
<1>5. M.request = e.request /\ M.agent = e.agent /\ M.custom = edit.custom
  BY MergedFields
<1>6. M \in Ext
  BY Zenon, MergedTyped
<1>7. e.security # {} => v.security # {}
  BY ViewFields
<1> HIDE DEF v
<1>8. CASE owned = {}
  <2>1. R = e
    BY Zenon, <1>8 DEF AfterReply
  <2>2. /\ edit.http = {} \/ "write_headers" \notin caps
        /\ edit.security = {} \/ "append_labels" \notin caps
        /\ edit.delegation = {} \/ "append_delegation" \notin caps \/ ~ChainTaken(edit.delegation, v.delegation)
        /\ edit.custom = {}
    BY Zenon, <1>8 DEF OwnedFromReturned, None
  <2>3. M.http = e.http
    BY SMTT(30), <2>2, HttpMerged
  <2>4. M.security = e.security
    BY SMTT(30), <2>2, SecurityMerged
  <2>5. M.delegation = e.delegation
    BY SMTT(30), <1>1, <1>2, <1>3, <2>2, DelegationAlike
  <2>6. M.custom = e.custom
    BY Zenon, <1>2, <1>4, <1>5, <2>2
  <2> HIDE DEF M
  <2> QED
    BY Zenon, <1>5, <1>6, <2>1, <2>3, <2>4, <2>5, <2>6, ComparableFields DEF M, v
<1>9. CASE owned # {}
  <2>1. PICK r \in Ext :
         /\ owned = {r}
         /\ r.request = v.request /\ r.agent = v.agent /\ r.constraint = v.constraint /\ r.raw = v.raw
         /\ HttpFrom(r, edit, v, caps) /\ SecurityFrom(r, edit, v, caps)
         /\ r.delegation = IF /\ edit.delegation # {} /\ "append_delegation" \in caps
                              /\ ChainTaken(edit.delegation, v.delegation)
                           THEN edit.delegation ELSE v.delegation
         /\ r.custom = IF edit.custom # {} THEN edit.custom ELSE v.custom
    BY Zenon, <1>1, <1>9, Rebuilt
  <2>2. R = AcceptExtensions(e, r, caps)
    BY Zenon, <1>9, <2>1 DEF AfterReply, The
  <2>3. ValidateImmutable(e, r) /\ CandidateConstraintWriteOk(e, r, caps)
    BY Zenon, <1>2, <2>1 DEF ValidateImmutable, PtrEqOpt, CandidateConstraintWriteOk, None
  <2>4. LabelsOk(e, r, caps)
    <3> SUFFICES ASSUME "read_labels" \in caps, NEW x \in e.security, NEW z \in r.security
                 PROVE  x.labels \subseteq z.labels
      BY Zenon DEF LabelsOk
    <3>1. CASE r.security = v.security
      BY Zenon, <1>3, <3>1 DEF LabelsOk
    <3>2. CASE edit.security # {} /\ "append_labels" \in caps
      <4>1. PICK y \in edit.security : TRUE
        BY Zenon, <3>2
      <4>2. PICK b \in Security, w \in Security :
              /\ DefaultTo(v.security, DefaultSecurity) = {b}
              /\ r.security = {w} /\ w.labels = b.labels \cup y.labels
        BY Zenon, <2>1, <3>2, <4>1 DEF SecurityFrom
      <4>3. b \in v.security
        BY Zenon, <1>7, <4>2 DEF DefaultTo, None
      <4> QED
        BY Zenon, <1>3, <4>2, <4>3 DEF LabelsOk
    <3> QED
      BY Zenon, <2>1, <3>1, <3>2 DEF SecurityFrom
  <2>5. R = MergeOwned(e, r, caps)
    BY Zenon, <2>2, <2>3, <2>4 DEF AcceptExtensions
  <2>6. MergeOwned(e, r, caps).request = e.request /\ MergeOwned(e, r, caps).agent = e.agent
    BY MergedFields
  <2>7. MergeOwned(e, r, caps).custom = M.custom
    <3>1. MergeOwned(e, r, caps).custom = r.custom
      BY MergedFields
    <3> QED
      BY Zenon, <1>4, <1>5, <2>1, <3>1
  <2>8. {SanitizeHttp(h) : h \in MergeOwned(e, r, caps).http} = {SanitizeHttp(h) : h \in M.http}
    <3>1. HttpFrom(r, edit, v, caps) /\ MergeOwned(e, v, caps).http = e.http
      BY Zenon, <1>3, <2>1
    <3> QED
      BY <1>1, <3>1, HttpAlike
  <2>9. MergeOwned(e, r, caps).security = M.security
    <3>1. SecurityFrom(r, edit, v, caps) /\ MergeOwned(e, v, caps).security = e.security
      BY Zenon, <1>3, <2>1
    <3>2. \A x \in v.security, y \in edit.security : x.labels \subseteq y.labels
      BY Zenon, <1>4
    <3> QED
      BY <1>1, <3>1, <3>2, SecurityAlike
  <2>10. MergeOwned(e, r, caps).delegation = M.delegation
    <3>1. MergeOwned(e, v, caps).delegation = e.delegation /\ v.delegation \in {e.delegation, {}}
      BY Zenon, <1>2, <1>3
    <3>2. r.delegation = IF /\ edit.delegation # {} /\ "append_delegation" \in caps
                            /\ ChainTaken(edit.delegation, v.delegation)
                         THEN edit.delegation ELSE v.delegation
      BY Zenon, <2>1
    <3> QED
      BY <1>1, <3>1, <3>2, DelegationAlike
  <2>11. MergeOwned(e, r, caps) \in Ext
    BY Zenon, MergedTyped
  <2>12. PICK N : N = MergeOwned(e, r, caps)
    BY Zenon
  <2>13. Comparable(N) = Comparable(M)
    <3> HIDE DEF M
    <3> QED
      BY Zenon, <1>5, <1>6, <2>6, <2>7, <2>8, <2>9, <2>10, <2>11, <2>12, ComparableFields
  <2> QED
    BY Zenon, <2>5, <2>12, <2>13 DEF v
<1> QED
  BY Zenon, <1>8, <1>9

\* Edits of a slot the executor compares leave the other slots as they were shown.
LEMMA OnlySlotEdited ==
  ASSUME NEW v \in Ext, NEW edit \in Returned(v),
         edit.request # v.request \/ edit.agent # v.agent \/ edit.constraint # v.constraint
  PROVE  /\ edit.http = v.http /\ edit.security = v.security /\ edit.delegation = v.delegation
         /\ edit.custom = v.custom
<1>1. PICK x : edit \in {[v EXCEPT !.request = x], [v EXCEPT !.agent = x], [v EXCEPT !.constraint = x],
                         [v EXCEPT !.http = x], [v EXCEPT !.security = x], [v EXCEPT !.delegation = x],
                         [v EXCEPT !.raw = x], [v EXCEPT !.custom = x]}
  BY Zenon DEF Returned
<1>2. CASE edit = [v EXCEPT !.request = x]
  BY Zenon, <1>2 DEF Ext
<1>3. CASE edit = [v EXCEPT !.agent = x]
  BY Zenon, <1>3 DEF Ext
<1>4. CASE edit = [v EXCEPT !.constraint = x]
  BY Zenon, <1>4 DEF Ext
<1>5. CASE edit = [v EXCEPT !.http = x]
  BY Zenon, <1>5 DEF Ext
<1>6. CASE edit = [v EXCEPT !.security = x]
  BY Zenon, <1>6 DEF Ext
<1>7. CASE edit = [v EXCEPT !.delegation = x]
  BY Zenon, <1>7 DEF Ext
<1>8. CASE edit = [v EXCEPT !.raw = x]
  BY Zenon, <1>8 DEF Ext
<1>9. CASE edit = [v EXCEPT !.custom = x]
  BY Zenon, <1>9 DEF Ext
<1> QED
  BY Zenon, <1>1, <1>2, <1>3, <1>4, <1>5, <1>6, <1>7, <1>8, <1>9

\* An edit has the same effect from a worker as from a plugin in the process, on all
\* that travels, unless it takes something away (owned_from_returned_slot and
\* merge_owned), whatever the capabilities.
THEOREM Alike == Spec => []RemoteLikeLocal
<1>1. ASSUME TypeOK PROVE RemoteLikeLocal
  <2> SUFFICES ASSUME NEW caps \in CapSets, NEW edit \in Returned(FilterExtensions(ext, caps)),
                      FilterExtensions(ext, caps).custom = {} \/ edit.custom # {},
                      \A x \in FilterExtensions(ext, caps).security, y \in edit.security :
                        x.labels \subseteq y.labels
               PROVE  Comparable(AfterReply(ext, edit, FilterExtensions(ext, caps), caps))
                        = Comparable(AcceptExtensions(ext, edit, caps))
    BY Zenon DEF RemoteLikeLocal, After, None
  <2> DEFINE v == FilterExtensions(ext, caps)
             M == MergeOwned(ext, edit, caps)
  <2>1. ext \in Ext
    BY Zenon, <1>1 DEF TypeOK
  <2>2. v \in Ext /\ edit \in Ext
    BY Zenon, <2>1, ViewTyped, ReturnedTyped
  <2>3. Comparable(AfterReply(ext, edit, v, caps)) = Comparable(M)
    BY Zenon, <2>1, <2>2, MergedAlike
  <2>4. CASE AcceptExtensions(ext, edit, caps) = M
    BY Zenon, <2>3, <2>4
  <2>5. CASE AcceptExtensions(ext, edit, caps) # M
    <3>1. AcceptExtensions(ext, edit, caps) = ext
      BY Zenon, <2>5 DEF AcceptExtensions
    <3>2. /\ v.request = ext.request /\ v.custom = ext.custom /\ v.constraint = ext.constraint
          /\ v.agent \in {ext.agent, {}}
      BY Zenon, <2>1, ViewFields
    <3>3. /\ LabelsOk(ext, v, caps)
          /\ MergeOwned(ext, v, caps).http = ext.http /\ MergeOwned(ext, v, caps).security = ext.security
          /\ MergeOwned(ext, v, caps).delegation = ext.delegation
      BY Zenon, <2>1, RoundTripMerged
    <3>4. LabelsOk(ext, edit, caps)
      <4> SUFFICES ASSUME "read_labels" \in caps, NEW x \in ext.security, NEW y \in edit.security
                   PROVE  x.labels \subseteq y.labels
        BY Zenon DEF LabelsOk
      <4>1. PICK w \in v.security : TRUE
        BY <2>1, ViewFields
      <4> QED
        BY Zenon, <3>3, <4>1 DEF LabelsOk
    <3>5. edit.request # v.request \/ edit.agent # v.agent \/ edit.constraint # v.constraint
      <4> HIDE DEF v
      <4> QED
        BY Zenon, <2>5, <3>2, <3>4 DEF AcceptExtensions, ValidateImmutable, PtrEqOpt, CandidateConstraintWriteOk, None
    <3>6. /\ edit.http = v.http /\ edit.security = v.security /\ edit.delegation = v.delegation
          /\ edit.custom = v.custom
      BY Zenon, <2>2, <3>5, OnlySlotEdited
    <3>7. M.http = ext.http /\ M.security = ext.security /\ M.delegation = ext.delegation
      <4>1. /\ MergeOwned(ext, v, caps).http = M.http /\ MergeOwned(ext, v, caps).security = M.security
            /\ MergeOwned(ext, v, caps).delegation = M.delegation
        <5> HIDE DEF v
        <5> QED
          BY <2>1, <2>2, <3>6, MergedSame
      <4> QED
        BY Zenon, <3>3, <4>1
    <3>8. M.request = ext.request /\ M.agent = ext.agent /\ M.custom = ext.custom
      BY <2>1, <2>2, <3>2, <3>6, MergedFields
    <3>9. M \in Ext
      BY Zenon, <2>1, <2>2, MergedTyped
    <3>10. Comparable(M) = Comparable(ext)
      <4> HIDE DEF M
      <4> QED
        BY Zenon, <2>1, <3>7, <3>8, <3>9, ComparableFields
    <3> QED
      BY Zenon, <2>3, <3>1, <3>10
  <2> QED
    BY Zenon, <2>4, <2>5
<1>2. TypeOK => RemoteLikeLocal
  BY Zenon, <1>1
<1> QED
  BY ChainInitially, ChainTyped, <1>2, PTL DEF Spec
=============================================================================
