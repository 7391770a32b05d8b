---------------------------- MODULE SessionStores ---------------------------
(***************************************************************************)
(* Where the labels of sessions outlive a request: the in-process map or   *)
(* the Valkey set shared by the nodes of a gateway, whose commands may     *)
(* fail, take effect after the client has given up on them, and whose keys *)
(* may expire.  The key of a session is resolved from who is calling.      *)
(***************************************************************************)
EXTENDS Integers, SequencesExt

CONSTANTS
  Store, \* "memory" or "valkey"
  Ttl    \* has the Valkey store a TTL?

ASSUME StoreAssumption == Store \in {"memory", "valkey"} /\ Ttl \in BOOLEAN /\ (Ttl => Store = "valkey")

VARIABLES
  stored, \* the labels of the sessions the store has a key for
  late    \* appends whose client has timed out and that the server may still run

store == <<stored, late>>

StoreInit == stored = [k \in {} |-> {}] /\ late = {}
-----------------------------------------------------------------------------
\* A caller is [sub, agent, claim, actor]; sub, agent and claim are optional:
\* {} or {value}.  A value is the sequence of what its colons separate: <<"a", "b">>
\* is a:b.

\* Fault: a session value is used as it comes, without its subject.
SubjectScopedRaw(sub, raw) == raw

SubjectScoped(sub, raw) == {s \o r : s \in sub, r \in raw}

\* The key is a digest of the parts joined by ":", which stands for what is
\* digested: which part a colon came from cannot be told from it.
ResolveSession(who) ==
  LET agent == SubjectScoped(who.sub, who.agent)
      claim == SubjectScoped(who.sub, who.claim)
  IN IF agent # {} THEN agent
     ELSE IF claim # {} THEN claim
     ELSE {s \o who.actor \o <<"-">> : s \in who.sub}
-----------------------------------------------------------------------------
LabelsOf(k) == IF k \in DOMAIN stored THEN stored[k] ELSE {}

Fails == [ok |-> FALSE, labels |-> {}]

\* What load_labels may return.
LoadLabels(k) ==
  {[ok |-> TRUE, labels |-> LabelsOf(k)]} \cup (IF Store = "valkey" THEN {Fails} ELSE {})

Union(k, labels) ==
  [j \in DOMAIN stored \cup {k} |-> IF j = k THEN LabelsOf(k) \cup labels ELSE stored[j]]

\* append_labels succeeds: one server-side union.
AppendLabels(k, labels) == stored' = Union(k, labels) /\ UNCHANGED late

\* append_labels fails before the server sees the command, or times out while it
\* is under way.
AppendFails == UNCHANGED store

AppendTimesOut(k, labels) == late' = late \cup {[key |-> k, labels |-> labels]} /\ UNCHANGED stored

\* External: the server runs, or never runs, a command nobody waits for.
LateAppend ==
  \E a \in late :
    /\ late' = late \ {a}
    /\ stored' \in {Union(a.key, a.labels), stored}

\* External: a key whose TTL nobody renewed in time expires.
Expires(k) ==
  /\ Ttl /\ k \in DOMAIN stored
  /\ stored' = [j \in DOMAIN stored \ {k} |-> stored[j]]
  /\ UNCHANGED late

\* The process of a node ends: with the in-process store, its labels are gone.
StoreRestart ==
  /\ stored' = IF Store = "memory" THEN [k \in {} |-> {}] ELSE stored
  /\ UNCHANGED late
=============================================================================
