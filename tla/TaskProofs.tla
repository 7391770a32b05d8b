----------------------------- MODULE TaskProofs -----------------------------
(***************************************************************************)
(* Work in tasks of its own.  The identity resolvers, whose refresh tasks  *)
(* replace keys while requests are verified: for every chain of resolvers, *)
(* every history of publications and any number of initialisations, tokens *)
(* are verified with keys that were good, and a failed fetch takes none    *)
(* away.  The branches of a group: for any number of branches and any      *)
(* values, run_branches reports every branch's own outcome, keeps the      *)
(* promise of module Branches, and implements BranchGroup.                 *)
(***************************************************************************)
EXTENDS JwtIdentity, Orchestration, TLAPS

Configs == UNION {Range(Resolvers[r].inline) : r \in Chain}

Names == Provider \cup {c.iss : c \in Configs}

Stores == {FromJwks(j) : j \in Jwks} \cup {SingleFallback(c.key) : c \in Configs}

Running == {"asleep", "fetching", "replied", "stopped"}

Entries == [iss : Names, keys : Stores, since : Nat, task : Running \cup {"none"},
            from : Nat, reply : Nat]

Calls(r) == [call : Nat, got : [DOMAIN Pending(r) -> Int], from : [DOMAIN Pending(r) -> Nat]]

Token == UNION {TokensOf(req) : req \in Requests}

Slots == [Roles -> SUBSET Token]

Types ==
  /\ published \in [Provider -> Seq(Jwks)] /\ \A i \in Provider : Now(i) > 0
  /\ issuers \in [Chain -> Seq(Entries)]
  /\ DOMAIN inits = Chain /\ \A r \in Chain : inits[r] \subseteq Calls(r)
  /\ begun \in [Chain -> Nat]
  /\ request \in Requests \cup {NoRequest}
  /\ at \in 0..Len(Resolvers)
  /\ identity \in [slots : Slots, stash : Slots]

\* A publication that a fetch which began with publication `from` may have got.
Got(i, from, n) == n \in 1..Now(i) /\ from <= n /\ published[i][n] # NoKeys

\* An issuer with its key in the configuration of r.
Configured(r, e) ==
  e.task = "none" /\ \E k \in DOMAIN New(r) : e.iss = New(r)[k].iss /\ e.keys = New(r)[k].keys

\* What a store holds: nothing yet, or a publication since the fetch it came with.
Holds(e) ==
  \/ e.keys = EmptyStore
  \/ \E n \in 1..Now(e.iss) : e.since <= n /\ e.keys = FromJwks(published[e.iss][n])

\* An issuer with a JWKS: what it holds, and what its task is about to store.
Fetching(e) ==
  /\ e.task \in Running /\ e.iss \in Provider
  /\ e.from <= Now(e.iss)
  /\ e.reply # 0 => e.task = "replied" /\ Got(e.iss, e.from, e.reply)
  /\ Holds(e)

KeysInv == \A r \in Chain : \A k \in DOMAIN issuers[r] : Configured(r, Entry(r, k)) \/ Fetching(Entry(r, k))

\* What an initialisation has fetched so far.
Awaiting(r, c) ==
  \A k \in DOMAIN Pending(r) :
    /\ c.from[k] \in 1..Now(Pending(r)[k].iss)
    /\ c.got[k] \in {-1, 0} \/ Got(Pending(r)[k].iss, c.from[k], c.got[k])

InitsInv == \A r \in Chain : \A c \in inits[r] : Awaiting(r, c)

\* The slots that the chain has filled, and what with.
ChainInv ==
  /\ at = 0 /\ verdict = "none" => identity = NoIdentity
  /\ \A r \in Chain :
       LET x == Resolvers[r].role
       IN  /\ identity.stash[x] = identity.slots[x]
           /\ identity.slots[x] # {} => identity.slots[x] = RawToken(Resolvers[r].header)
           /\ r < at \/ (at = 0 /\ verdict = "ok") => identity.slots[x] # {}

IdInv == Types /\ KeysInv /\ InitsInv /\ ChainInv /\ AcceptedWithNamedKey
-----------------------------------------------------------------------------
(* Publications are only added. *)

Grows ==
  \A i \in Provider : Now(i) <= Now(i)' /\ \A n \in 1..Now(i) : published'[i][n] = published[i][n]

\* What a token that was accepted was verified with.
Good(r, t) ==
  IF t.kid = {}
  THEN \E k \in DOMAIN New(r) : New(r)[k].iss = t.iss /\ New(r)[k].keys.fallback = {t.key}
  ELSE t.iss \in Provider /\ \A x \in t.kid : \E n \in 1..Now(t.iss) :
         x \in DOMAIN published[t.iss][n] /\ published[t.iss][n][x] = t.key

\* A publication that was fetched stays one.
LEMMA GotStays ==
  ASSUME Types, Types', Grows, NEW i \in Provider, NEW from \in Nat, NEW n \in Nat, Got(i, from, n)
  PROVE  Got(i, from, n)'
<1>1. Now(i) \in Nat /\ Now(i)' \in Nat
  BY DEF Types, Now
<1>2. Now(i) <= Now(i)' /\ published'[i][n] = published[i][n]
  BY Zenon DEF Grows, Got
<1> QED
  BY <1>1, <1>2 DEF Got

\* An issuer with a JWKS stays in order when a provider publishes.
LEMMA FetchingStays ==
  ASSUME Types, Types', Grows, NEW e \in Entries, Fetching(e)
  PROVE  Fetching(e)'
<1>1. e.iss \in Provider /\ e.from \in Nat /\ e.reply \in Nat
  BY Zenon DEF Fetching, Entries
<1>2. Now(e.iss) \in Nat /\ Now(e.iss)' \in Nat /\ Now(e.iss) <= Now(e.iss)'
  BY <1>1 DEF Types, Now, Grows
<1>3. e.reply # 0 => Got(e.iss, e.from, e.reply)'
  BY Zenon, <1>1, GotStays DEF Fetching
<1>6. e.reply # 0 => e.task = "replied"
  BY Zenon DEF Fetching
<1>4. Holds(e)'
  <2>1. CASE e.keys = EmptyStore
    BY Zenon, <2>1 DEF Holds
  <2>2. ASSUME NEW n \in 1..Now(e.iss), e.since <= n, e.keys = FromJwks(published[e.iss][n])
        PROVE  Holds(e)'
    <3>1. published'[e.iss][n] = published[e.iss][n]
      BY Zenon, <1>1 DEF Grows
    <3>2. n \in 1..Now(e.iss)'
      BY <1>2
    <3> QED
      BY Zenon, <2>2, <3>1, <3>2 DEF Holds
  <2> QED
    BY Zenon, <2>1, <2>2 DEF Holds, Fetching
<1>5. e.from <= Now(e.iss)'
  BY <1>1, <1>2 DEF Fetching
<1> QED
  BY Zenon, <1>3, <1>4, <1>5, <1>6 DEF Fetching

\* A token that was good stays so.
LEMMA GoodStays ==
  ASSUME Types, Types', Grows, NEW r \in Chain, NEW t \in Token, Good(r, t)
  PROVE  Good(r, t)'
<1>1. CASE t.kid = {}
  BY Zenon, <1>1 DEF Good
<1>2. CASE t.kid # {}
  <2>1. t.iss \in Provider
    BY Zenon, <1>2 DEF Good
  <2>2. Now(t.iss) \in Nat /\ Now(t.iss)' \in Nat /\ Now(t.iss) <= Now(t.iss)'
    BY <2>1 DEF Types, Now, Grows
  <2>3. ASSUME NEW x \in t.kid, NEW n \in 1..Now(t.iss),
               x \in DOMAIN published[t.iss][n], published[t.iss][n][x] = t.key
        PROVE  \E m \in 1..Now(t.iss)' : x \in DOMAIN published'[t.iss][m] /\ published'[t.iss][m][x] = t.key
    <3>1. published'[t.iss][n] = published[t.iss][n]
      BY Zenon, <2>1 DEF Grows
    <3>2. n \in 1..Now(t.iss)'
      BY <2>2
    <3> QED
      BY Zenon, <2>3, <3>1, <3>2
  <2> QED
    BY Zenon, <1>2, <2>1, <2>3 DEF Good
<1> QED
  BY Zenon, <1>1, <1>2

\* What was accepted stays accepted, while the slots are left alone.
LEMMA AcceptedStays ==
  ASSUME Types, Types', Grows, AcceptedWithNamedKey, UNCHANGED identity
  PROVE  AcceptedWithNamedKey'
<1> SUFFICES ASSUME NEW r \in Chain, NEW t \in identity.slots[Resolvers[r].role]
             PROVE  Good(r, t)'
  BY Zenon DEF AcceptedWithNamedKey, Good
<1>1. Resolvers[r].role \in Roles
  BY Zenon DEF Roles
<1>2. t \in Token
  BY Zenon, <1>1 DEF Types, Slots
<1>3. Good(r, t)
  BY Zenon DEF AcceptedWithNamedKey, Good
<1> QED
  BY Zenon, <1>2, <1>3, GoodStays

\* Keys are fetched from providers.
LEMMA Provides ==
  ASSUME NEW r \in Chain, NEW k \in DOMAIN Pending(r)
  PROVE  Pending(r)[k].iss \in Provider
BY DEF Provider

\* The initialisations under way stay in order.
LEMMA InitsStay ==
  ASSUME Types, Types', Grows, InitsInv, UNCHANGED inits
  PROVE  InitsInv'
<1> SUFFICES ASSUME NEW r \in Chain, NEW c \in inits[r], NEW k \in DOMAIN Pending(r)
             PROVE  /\ c.from[k] \in 1..Now(Pending(r)[k].iss)'
                    /\ c.got[k] \in {-1, 0} \/ Got(Pending(r)[k].iss, c.from[k], c.got[k])'
  BY Zenon DEF InitsInv, Awaiting
<1> DEFINE i == Pending(r)[k].iss
<1>1. i \in Provider
  BY Zenon, Provides
<1>2. c.from[k] \in 1..Now(i) /\ (c.got[k] \in {-1, 0} \/ Got(i, c.from[k], c.got[k]))
  BY Zenon DEF InitsInv, Awaiting
<1>3. c.from[k] \in Nat
  BY DEF Types, Calls
<1>4. Now(i) \in Nat /\ Now(i)' \in Nat /\ Now(i) <= Now(i)'
  BY <1>1 DEF Types, Now, Grows
<1> HIDE DEF i
<1>5. c.from[k] \in 1..Now(i)'
  BY <1>2, <1>3, <1>4
<1>6. ASSUME Got(i, c.from[k], c.got[k]) PROVE Got(i, c.from[k], c.got[k])'
  <2>1. c.got[k] \in Nat
    BY <1>4, <1>6 DEF Got
  <2> QED
    BY Zenon, <1>1, <1>3, <1>6, <2>1, GotStays
<1> QED
  BY Zenon, <1>2, <1>5, <1>6 DEF i

\* The issuers stay in order.
LEMMA KeysStay ==
  ASSUME Types, Types', Grows, KeysInv, UNCHANGED issuers
  PROVE  KeysInv'
<1> SUFFICES ASSUME NEW r \in Chain, NEW k \in DOMAIN issuers'[r], NEW e \in Entries, e = issuers'[r][k]
             PROVE  (Configured(r, e) \/ Fetching(e))'
  <2>1. \A r \in Chain : \A k \in DOMAIN issuers'[r] : issuers'[r][k] \in Entries
    BY DEF Types
  <2> QED
    BY Zenon, <2>1 DEF KeysInv, Entry, Configured, Fetching, Holds, Got, Now
<1>1. Configured(r, e) \/ Fetching(e)
  BY Zenon DEF KeysInv, Entry
<1>2. CASE Configured(r, e)
  BY Zenon, <1>2 DEF Configured
<1> QED
  BY Zenon, <1>1, <1>2, FetchingStays
\* Every key store that holds keys goes on to hold keys.
Filled ==
  \A r \in Chain : \A k \in DOMAIN issuers[r] : ~IsEmpty(Entry(r, k).keys) => ~IsEmpty(issuers'[r][k].keys)
-----------------------------------------------------------------------------
(* The steps of the provider, of initialize() and of the tasks. *)

\* A provider publishes.
LEMMA RotateKeeps ==
  ASSUME IdInv, NEW i \in Provider, NEW jwks \in Jwks, Rotate(i, jwks)
  PROVE  IdInv'
<1>1. published' \in [Provider -> Seq(Jwks)] /\ \A j \in Provider : Len(published'[j]) > 0
  BY DEF IdInv, Types, Rotate, Now
<1>2. UNCHANGED <<issuers, inits, begun, dropped, request, at, identity, verdict>>
  BY Zenon DEF Rotate, chainVars
<1>3. Types'
  BY Zenon, <1>1, <1>2 DEF IdInv, Types, Now
<1>4. Grows
  BY DEF IdInv, Types, Rotate, Now, Grows
<1>5. ChainInv'
  BY Zenon, <1>2 DEF IdInv, ChainInv, RawToken
<1> QED
  BY Zenon, <1>2, <1>3, <1>4, <1>5, KeysStay, InitsStay, AcceptedStays DEF IdInv

\* Nothing is published.
LEMMA Still ==
  ASSUME Types, UNCHANGED published
  PROVE  Grows
BY DEF Types, Grows, Now

\* The answer to a fetch is good for every fetch that began by now.
LEMMA ReplyGot ==
  ASSUME Types, NEW i \in Provider, NEW from \in Nat, from <= Now(i), Reply(i) # 0
  PROVE  Got(i, from, Reply(i))
<1>1. published[i] \in Seq(Jwks) /\ Now(i) \in Nat /\ Now(i) > 0
  BY DEF Types, Now
<1> QED
  BY <1>1 DEF Got, Reply, Now, Current

\* One more call of initialize() is in order.
LEMMA InitsWith ==
  ASSUME InitsInv, UNCHANGED published, NEW r \in Chain, NEW c \in Calls(r), Awaiting(r, c),
         \A q \in Chain : \A d \in inits'[q] : d \in inits[q] \/ (q = r /\ d = c)
  PROVE  InitsInv'
<1>1. ASSUME NEW q \in Chain, NEW d \in inits'[q] PROVE Awaiting(q, d)
  BY Zenon DEF InitsInv
<1> QED
  BY Zenon, <1>1 DEF InitsInv, Awaiting, Got, Now

\* A call of initialize() begins.
LEMMA BeginKeeps ==
  ASSUME IdInv, NEW r \in Chain, BeginInitialize(r)
  PROVE  IdInv'
<1>1. UNCHANGED <<published, issuers, dropped, request, at, identity, verdict>>
  BY Zenon DEF BeginInitialize, chainVars
<1>2. PICK c \in {[call |-> begun[r], got |-> [k \in DOMAIN Pending(r) |-> -1],
                   from |-> [k \in DOMAIN Pending(r) |-> Now(Pending(r)[k].iss)]]} : TRUE
  BY Zenon
<1>3. inits' = [inits EXCEPT ![r] = @ \cup {c}]
  BY Zenon, <1>2 DEF BeginInitialize
<1>4. \A k \in DOMAIN Pending(r) : Now(Pending(r)[k].iss) \in Nat /\ Now(Pending(r)[k].iss) > 0
  <2>1. \A i \in Provider : Now(i) \in Nat /\ Now(i) > 0
    BY DEF IdInv, Types, Now
  <2> QED
    BY Zenon, <2>1, Provides
<1>5. c \in Calls(r)
  BY <1>2, <1>4 DEF Calls, IdInv, Types
<1>6. DOMAIN inits' = Chain /\ \A q \in Chain : inits'[q] \subseteq Calls(q)
  BY Zenon, <1>3, <1>5 DEF IdInv, Types
<1>7. begun' \in [Chain -> Nat]
  BY DEF IdInv, Types, BeginInitialize
<1>8. Types'
  BY Zenon, <1>1, <1>6, <1>7 DEF IdInv, Types, Now
<1>9. Grows
  BY Zenon, <1>1, Still DEF IdInv
<1>10. \A k \in DOMAIN Pending(r) : c.from[k] \in 1..Now(Pending(r)[k].iss) /\ c.got[k] \in {-1, 0}
  BY <1>2, <1>4
<1>11. InitsInv'
  <2>1. Awaiting(r, c)
    BY Zenon, <1>10 DEF Awaiting
  <2>2. \A q \in Chain : \A d \in inits'[q] : d \in inits[q] \/ (q = r /\ d = c)
    BY Zenon, <1>3 DEF IdInv, Types
  <2> QED
    BY Zenon, <1>1, <1>5, <2>1, <2>2, InitsWith DEF IdInv
<1>12. ChainInv'
  BY Zenon, <1>1 DEF IdInv, ChainInv, RawToken
<1> QED
  BY Zenon, <1>1, <1>8, <1>9, <1>11, <1>12, KeysStay, AcceptedStays DEF IdInv

\* A fetch of initialize() is answered.
LEMMA InitFetchedKeeps ==
  ASSUME IdInv, NEW r \in Chain, NEW c \in inits[r], NEW k \in DOMAIN c.got, InitFetched(r, c, k)
  PROVE  IdInv'
<1>1. UNCHANGED <<published, issuers, begun, dropped, request, at, identity, verdict>>
  BY Zenon DEF InitFetched, chainVars
<1> DEFINE i == Pending(r)[k].iss
<1>2. PICK d \in {[c EXCEPT !.got[k] = Reply(i)]} : TRUE
  BY Zenon
<1>3. inits' = [inits EXCEPT ![r] = (@ \ {c}) \cup {d}]
  BY Zenon, <1>2 DEF InitFetched
<1>4. c \in Calls(r) /\ k \in DOMAIN Pending(r)
  BY Zenon DEF IdInv, Types, Calls
<1>5. i \in Provider
  BY Zenon, <1>4, Provides
<1>6. Reply(i) \in Int /\ Now(i) \in Nat
  BY <1>5 DEF Reply, IdInv, Types, Now
<1> HIDE DEF i
<1>7. d \in Calls(r)
  BY <1>2, <1>4, <1>6 DEF Calls
<1>8. DOMAIN inits' = Chain /\ \A q \in Chain : inits'[q] \subseteq Calls(q)
  BY Zenon, <1>3, <1>7 DEF IdInv, Types
<1>9. Types'
  BY Zenon, <1>1, <1>8 DEF IdInv, Types, Now
<1>10. Grows
  BY Zenon, <1>1, Still DEF IdInv
<1>11. ASSUME NEW j \in DOMAIN Pending(r)
       PROVE  /\ d.from[j] \in 1..Now(Pending(r)[j].iss)
              /\ d.got[j] \in {-1, 0} \/ Got(Pending(r)[j].iss, d.from[j], d.got[j])
  <2>1. /\ c.from[j] \in 1..Now(Pending(r)[j].iss)
        /\ c.got[j] \in {-1, 0} \/ Got(Pending(r)[j].iss, c.from[j], c.got[j])
    BY Zenon DEF IdInv, InitsInv, Awaiting
  <2>2. d.from = c.from
    BY Zenon, <1>2, <1>4 DEF Calls
  <2>3. CASE j = k
    <3>1. d.got[j] = Reply(i)
      BY Zenon, <1>2, <1>4, <2>3 DEF Calls
    <3>2. c.from[j] \in Nat /\ c.from[j] <= Now(i)
      BY <2>1, <2>3, <1>4, <1>6 DEF Calls, i
    <3>3. Reply(i) = 0 \/ Got(i, c.from[j], Reply(i))
      BY Zenon, <1>5, <3>2, ReplyGot DEF IdInv
    <3> QED
      BY Zenon, <2>1, <2>2, <2>3, <3>1, <3>3 DEF i
  <2>4. CASE j # k
    <3>1. d.got[j] = c.got[j]
      BY Zenon, <1>2, <1>4, <2>4 DEF Calls
    <3> QED
      BY Zenon, <2>1, <2>2, <3>1
  <2> QED
    BY Zenon, <2>3, <2>4
<1>12. InitsInv'
  <2>1. Awaiting(r, d)
    BY Zenon, <1>11 DEF Awaiting
  <2>2. \A q \in Chain : \A e \in inits'[q] : e \in inits[q] \/ (q = r /\ e = d)
    BY Zenon, <1>3 DEF IdInv, Types
  <2> QED
    BY Zenon, <1>1, <1>7, <2>1, <2>2, InitsWith DEF IdInv
<1>13. ChainInv'
  BY Zenon, <1>1 DEF IdInv, ChainInv, RawToken
<1> QED
  BY Zenon, <1>1, <1>9, <1>10, <1>12, <1>13, KeysStay, AcceptedStays DEF IdInv

\* The issuers are in order after a step that publishes nothing.
LEMMA EntriesStay ==
  ASSUME UNCHANGED published,
         \A r \in Chain : \A k \in DOMAIN issuers'[r] :
           Configured(r, issuers'[r][k]) \/ Fetching(issuers'[r][k])
  PROVE  KeysInv'
<1> SUFFICES ASSUME NEW r \in Chain, NEW k \in DOMAIN issuers'[r]
             PROVE  (Configured(r, issuers[r][k]) \/ Fetching(issuers[r][k]))'
  BY Zenon DEF KeysInv, Entry
<1>1. PICK e \in {issuers'[r][k]} : Configured(r, e) \/ Fetching(e)
  BY Zenon
<1>2. Configured(r, e)' \/ Fetching(e)'
  <2>1. CASE Configured(r, e)
    BY Zenon, <2>1 DEF Configured
  <2>2. CASE Fetching(e)
    BY Zenon, <2>2 DEF Fetching, Holds, Got, Now
  <2> QED
    BY Zenon, <1>1, <2>1, <2>2
<1>3. e = issuers'[r][k]
  BY Zenon, <1>1
<1> QED
  BY Zenon, <1>2, <1>3 DEF Configured, Fetching, Holds, Got, Now

\* An issuer as initialize() leaves it.
LEMMA ResolvedIs ==
  ASSUME IdInv, NEW r \in Chain, NEW c \in inits[r], NEW k \in DOMAIN Pending(r), c.got[k] # -1
  PROVE  /\ Resolved(Pending(r)[k], c.got[k], c.from[k]) \in Entries
         /\ Fetching(Resolved(Pending(r)[k], c.got[k], c.from[k]))
<1> DEFINE i == Pending(r)[k].iss
           f == c.from[k]
<1>1. PICK n \in {c.got[k]} : n # -1
  BY Zenon
<1>2. i \in Provider /\ i \in Names
  BY Zenon, Provides DEF Names
<1>3. Spawned(Pending(r)[k]) \in Running
  BY Zenon DEF Spawned, Running
<1>4. f \in Nat /\ published[i] \in Seq(Jwks) /\ Now(i) \in Nat
  BY <1>2 DEF IdInv, Types, Calls, Now
<1>5. n = 0 \/ Got(i, f, n)
  BY Zenon, <1>1 DEF IdInv, InitsInv, Awaiting
<1>6. EmptyStore \in Stores
  BY Zenon, JwtAssumption DEF EmptyStore, Stores
<1>7. CASE n = 0
  <2>1. Resolved(Pending(r)[k], n, f) =
          [iss |-> i, keys |-> EmptyStore, since |-> 0, task |-> Spawned(Pending(r)[k]), from |-> 0, reply |-> 0]
    BY Zenon, <1>7 DEF Resolved, Trusted
  <2> HIDE DEF i, f
  <2>2. PICK e \in Entries : e = Resolved(Pending(r)[k], n, f)
    BY Zenon, <1>2, <1>3, <1>6, <2>1 DEF Entries
  <2>3. e.iss = i /\ e.keys = EmptyStore /\ e.from = 0 /\ e.reply = 0 /\ e.task \in Running
    BY <1>3, <2>1, <2>2
  <2>4. 0 <= Now(i)
    BY <1>4
  <2>5. Fetching(e)
    BY Zenon, <1>2, <2>3, <2>4 DEF Fetching, Holds
  <2> QED
    BY Zenon, <1>1, <2>2, <2>5 DEF f
<1>8. CASE n # 0
  <2>1. Resolved(Pending(r)[k], n, f) =
          [iss |-> i, keys |-> FromJwks(published[i][n]), since |-> f, task |-> Spawned(Pending(r)[k]),
           from |-> 0, reply |-> 0]
    BY Zenon, <1>8 DEF Resolved, Trusted
  <2>2. Got(i, f, n)
    BY Zenon, <1>5, <1>8
  <2> HIDE DEF i, f
  <2>3. n \in 1..Now(i) /\ f <= n
    BY Zenon, <2>2 DEF Got
  <2>4. published[i][n] \in Jwks
    BY <2>3, <1>4 DEF Now
  <2>5. FromJwks(published[i][n]) \in Stores
    BY Zenon, <2>4 DEF Stores
  <2>6. PICK e \in Entries : e = Resolved(Pending(r)[k], n, f)
    BY Zenon, <1>2, <1>3, <1>4, <2>1, <2>5 DEF Entries
  <2>7. e.iss = i /\ e.keys = FromJwks(published[i][n]) /\ e.since = f /\ e.from = 0 /\ e.reply = 0 /\ e.task \in Running
    BY <1>3, <2>1, <2>6
  <2>8. 0 <= Now(i)
    BY <1>4
  <2>9. Fetching(e)
    BY Zenon, <1>2, <2>3, <2>7, <2>8 DEF Fetching, Holds
  <2> QED
    BY Zenon, <1>1, <2>6, <2>9 DEF f
<1> QED
  BY Zenon, <1>7, <1>8

\* A fetch of every pending issuer is answered, and initialize() adds the issuers.
LEMMA InitEndsKeeps ==
  ASSUME IdInv, NEW r \in Chain, NEW c \in inits[r], InitEnds(r, c)
  PROVE  IdInv' /\ Filled
<1>1. UNCHANGED <<published, begun, dropped, request, at, identity, verdict>>
  BY Zenon DEF InitEnds, chainVars
<1>2. c \in Calls(r) /\ DOMAIN c.got = DOMAIN Pending(r)
  BY Zenon DEF IdInv, Types, Calls
<1>3. PICK added \in {[k \in DOMAIN c.got |-> Resolved(Pending(r)[k], c.got[k], c.from[k])]} : TRUE
  BY Zenon
<1>4. issuers' = [issuers EXCEPT ![r] = @ \o added]
  BY Zenon, <1>3 DEF InitEnds
<1>5. \A k \in DOMAIN Pending(r) : added[k] \in Entries /\ Fetching(added[k])
  BY Zenon, <1>2, <1>3, ResolvedIs DEF InitEnds
<1>6. Pending(r) \in Seq(Range(Pending(r)))
  BY Zenon, JwtAssumption DEF Pending
<1>7. added \in Seq(Entries)
  BY <1>2, <1>3, <1>5, <1>6
<1>8. issuers[r] \in Seq(Entries)
  BY Zenon DEF IdInv, Types
<1>9. issuers[r] \o added \in Seq(Entries)
  BY <1>7, <1>8
<1>10. issuers' \in [Chain -> Seq(Entries)]
  BY Zenon, <1>4, <1>9 DEF IdInv, Types
<1>11. inits' = [inits EXCEPT ![r] = @ \ {c}]
  BY Zenon DEF InitEnds
<1>12. DOMAIN inits' = Chain /\ \A q \in Chain : inits'[q] \subseteq inits[q]
  BY Zenon, <1>11 DEF IdInv, Types
<1>13. Types'
  BY Zenon, <1>1, <1>10, <1>12 DEF IdInv, Types, Now
<1>14. Grows
  BY Zenon, <1>1, Still DEF IdInv
<1>15. ASSUME NEW q \in Chain, NEW k \in DOMAIN issuers'[q]
       PROVE  Configured(q, issuers'[q][k]) \/ Fetching(issuers'[q][k])
  <2>1. CASE q = r
    <3>1. issuers'[q] = issuers[r] \o added
      BY Zenon, <1>4, <2>1 DEF IdInv, Types
    <3>2. CASE k \in DOMAIN issuers[r]
      <4>1. issuers'[q][k] = issuers[r][k]
        BY <3>1, <3>2, <1>7, <1>8
      <4> QED
        BY Zenon, <2>1, <3>2, <4>1 DEF IdInv, KeysInv, Entry
    <3>3. CASE k \notin DOMAIN issuers[r]
      <4>1. PICK j \in DOMAIN added : issuers'[q][k] = added[j]
        <5>1. k - Len(issuers[r]) \in DOMAIN added /\ issuers'[q][k] = added[k - Len(issuers[r])]
          BY <3>1, <3>3, <1>7, <1>8
        <5> QED
          BY Zenon, <5>1
      <4>2. DOMAIN added = DOMAIN Pending(r)
        BY Zenon, <1>2, <1>3
      <4> QED
        BY Zenon, <1>5, <4>1, <4>2
    <3> QED
      BY Zenon, <3>2, <3>3
  <2>2. CASE q # r
    <3>1. issuers'[q] = issuers[q]
      BY Zenon, <1>4, <2>2 DEF IdInv, Types
    <3> QED
      BY Zenon, <3>1 DEF IdInv, KeysInv, Entry
  <2> QED
    BY Zenon, <2>1, <2>2
<1>16. KeysInv'
  BY Zenon, <1>1, <1>15, EntriesStay
<1>17. InitsInv'
  <2>1. \A q \in Chain : \A d \in inits'[q] : Awaiting(q, d)
    BY Zenon, <1>12 DEF IdInv, InitsInv
  <2> QED
    BY Zenon, <1>1, <2>1 DEF InitsInv, Awaiting, Got, Now
<1>18. ChainInv'
  BY Zenon, <1>1 DEF IdInv, ChainInv, RawToken
<1>19. Filled
  <2>1. ASSUME NEW q \in Chain, NEW k \in DOMAIN issuers[q] PROVE issuers'[q][k] = issuers[q][k]
    <3>1. CASE q = r
      <4>1. issuers'[q] = issuers[r] \o added
        BY Zenon, <1>4, <3>1 DEF IdInv, Types
      <4> QED
        BY <3>1, <4>1, <1>7, <1>8
    <3>2. CASE q # r
      BY Zenon, <1>4, <3>2 DEF IdInv, Types
    <3> QED
      BY Zenon, <3>1, <3>2
  <2> QED
    BY Zenon, <2>1 DEF Filled, Entry
<1> QED
  BY Zenon, <1>1, <1>13, <1>14, <1>16, <1>17, <1>18, <1>19, AcceptedStays DEF IdInv

\* The task of one issuer makes a step.
LEMMA EntryKeeps ==
  ASSUME IdInv, NEW r \in Chain, NEW k \in DOMAIN issuers[r], NEW e \in Entries, Fetching(e),
         ~IsEmpty(issuers[r][k].keys) => ~IsEmpty(e.keys),
         issuers' = [issuers EXCEPT ![r][k] = e],
         UNCHANGED <<published, inits, begun, dropped, request, at, identity, verdict>>
  PROVE  IdInv' /\ Filled
<1>1. issuers[r] \in Seq(Entries)
  BY Zenon DEF IdInv, Types
<1>2. [issuers[r] EXCEPT ![k] = e] \in Seq(Entries)
  BY <1>1
<1>3. issuers' \in [Chain -> Seq(Entries)]
  BY Zenon, <1>2 DEF IdInv, Types
<1>4. Types'
  BY Zenon, <1>3 DEF IdInv, Types, Now
<1>5. Grows
  BY Zenon, Still DEF IdInv
<1>6. ASSUME NEW q \in Chain, NEW j \in DOMAIN issuers'[q]
      PROVE  Configured(q, issuers'[q][j]) \/ Fetching(issuers'[q][j])
  <2>1. (q = r /\ j = k /\ issuers'[q][j] = e) \/ (j \in DOMAIN issuers[q] /\ issuers'[q][j] = issuers[q][j])
    BY SMTT(30) DEF IdInv, Types
  <2> QED
    BY Zenon, <2>1 DEF IdInv, KeysInv, Entry
<1>7. KeysInv'
  BY Zenon, <1>6, EntriesStay
<1>8. InitsInv'
  BY Zenon, <1>4, <1>5, InitsStay DEF IdInv
<1>9. ChainInv'
  BY Zenon DEF IdInv, ChainInv, RawToken
<1>10. Filled
  <2>1. ASSUME NEW q \in Chain, NEW j \in DOMAIN issuers[q]
        PROVE  (q = r /\ j = k /\ issuers'[q][j] = e) \/ issuers'[q][j] = issuers[q][j]
    BY SMTT(30) DEF IdInv, Types
  <2> QED
    BY Zenon, <2>1 DEF Filled, Entry
<1> QED
  BY Zenon, <1>4, <1>5, <1>7, <1>8, <1>9, <1>10, AcceptedStays DEF IdInv

\* The refresh task asks, is answered, stores or keeps, and is cancelled.
LEMMA TaskKeeps ==
  ASSUME IdInv, NEW r \in Chain, NEW k \in DOMAIN issuers[r], TaskStep(r, k)
  PROVE  IdInv' /\ Filled
<1>1. PICK e \in Entries : e = issuers[r][k]
  BY DEF IdInv, Types
<1>2. Fetching(e)
  <2>1. e.task # "none"
    BY Zenon, <1>1 DEF TaskStep, Ticks, Fetched, Refreshes, TaskCancelled, Entry
  <2> QED
    BY Zenon, <1>1, <2>1 DEF IdInv, KeysInv, Configured, Entry
<1>3. e.iss \in Provider
  BY Zenon, <1>2 DEF Fetching
<1>4. published[e.iss] \in Seq(Jwks) /\ Now(e.iss) \in Nat
  BY <1>3 DEF IdInv, Types, Now
<1>5. UNCHANGED <<published, inits, begun, dropped, request, at, identity, verdict>>
  BY Zenon DEF TaskStep, Ticks, Fetched, Refreshes, TaskCancelled, chainVars
<1>0. \A f \in Entries : f.keys = e.keys => (~IsEmpty(issuers[r][k].keys) => ~IsEmpty(f.keys))
  BY Zenon, <1>1
<1>6. ASSUME Ticks(r, k) PROVE IdInv' /\ Filled
  <2>1. PICK f \in {[e EXCEPT !.task = "fetching", !.from = Now(e.iss)]} : TRUE
    BY Zenon
  <2>2. issuers' = [issuers EXCEPT ![r][k] = f]
    BY Zenon, <1>1, <1>6, <2>1 DEF Ticks, Entry
  <2>3. /\ f.iss = e.iss /\ f.keys = e.keys /\ f.since = e.since
        /\ f.reply = e.reply /\ f.from = Now(e.iss) /\ f.task = "fetching" /\ f \in Entries
    BY Zenon, <1>4, <2>1 DEF Entries, Running
  <2>4. e.reply = 0
    BY Zenon, <1>1, <1>2, <1>6 DEF Ticks, Entry, Fetching
  <2>5. f.task \in Running /\ f.from <= Now(f.iss)
    BY <1>4, <2>3 DEF Running
  <2>6. Fetching(f)
    BY Zenon, <1>2, <2>3, <2>4, <2>5 DEF Fetching, Holds
  <2> QED
    BY Zenon, <1>0, <1>5, <2>2, <2>3, <2>6, EntryKeeps
<1>7. ASSUME Fetched(r, k) PROVE IdInv' /\ Filled
  <2>1. PICK f \in {[e EXCEPT !.task = "replied", !.reply = Reply(e.iss)]} : TRUE
    BY Zenon
  <2>2. issuers' = [issuers EXCEPT ![r][k] = f]
    BY Zenon, <1>1, <1>7, <2>1 DEF Fetched, Entry
  <2>3. Reply(e.iss) \in Nat
    BY Zenon, <1>4 DEF Reply
  <2>4. /\ f.iss = e.iss /\ f.keys = e.keys /\ f.since = e.since
        /\ f.reply = Reply(e.iss) /\ f.from = e.from /\ f.task = "replied" /\ f \in Entries
    BY Zenon, <2>1, <2>3 DEF Entries, Running
  <2>5. e.from \in Nat /\ e.from <= Now(e.iss)
    BY Zenon, <1>2 DEF Fetching, Entries
  <2>6. Reply(e.iss) # 0 => Got(e.iss, e.from, Reply(e.iss))
    BY Zenon, <1>3, <2>5, ReplyGot DEF IdInv
  <2>7. Fetching(f)
    BY Zenon, <1>2, <2>4, <2>6 DEF Fetching, Holds, Running
  <2> QED
    BY Zenon, <1>0, <1>5, <2>2, <2>4, <2>7, EntryKeeps
<1>8. ASSUME Refreshes(r, k) PROVE IdInv' /\ Filled
  <2> DEFINE ok == e.reply # 0
  <2>1. PICK f \in {[e EXCEPT !.keys  = IF ok THEN Stored(e, e.reply) ELSE Kept(e),
                              !.since = IF ok THEN e.from ELSE @,
                              !.task  = GoesOn(e.reply), !.from = 0, !.reply = 0]} : TRUE
    BY Zenon
  <2>2. issuers' = [issuers EXCEPT ![r][k] = f]
    BY Zenon, <1>1, <1>8, <2>1 DEF Refreshes, Entry
  <2>3. f.iss = e.iss /\ f.task = "asleep" /\ f.from = 0 /\ f.reply = 0
    BY Zenon, <2>1 DEF Entries, GoesOn
  <2>4. 0 <= Now(f.iss) /\ f.task \in Running
    BY <1>4, <2>3 DEF Running
  <2>5. CASE ~ok
    <3>1. f.keys = e.keys /\ f.since = e.since /\ f \in Entries
      BY Zenon, <2>1, <2>5 DEF Entries, Kept, GoesOn, Running
    <3>2. Fetching(f)
      BY Zenon, <1>2, <2>3, <2>4, <3>1 DEF Fetching, Holds
    <3> QED
      BY Zenon, <1>0, <1>5, <2>2, <3>1, <3>2, EntryKeeps
  <2>6. CASE ok
    <3>1. Got(e.iss, e.from, e.reply)
      BY Zenon, <1>2, <2>6 DEF Fetching
    <3>2. published[e.iss][e.reply] \in Jwks
      BY <1>4, <3>1 DEF Got, Now
    <3>3. Stored(e, e.reply) \in Stores
      BY Zenon, <3>2 DEF Stored, Stores
    <3>4. f.keys = FromJwks(published[e.iss][e.reply]) /\ f.since = e.from /\ f \in Entries
      <4>1. PICK s \in Stores : s = Stored(e, e.reply)
        BY Zenon, <3>3
      <4>2. f = [e EXCEPT !.keys = s, !.since = e.from, !.task = "asleep", !.from = 0, !.reply = 0]
        BY Zenon, <2>1, <2>6, <4>1 DEF GoesOn
      <4>3. f.keys = s /\ f.since = e.from /\ f \in Entries
        BY Zenon, <4>2 DEF Entries, Running
      <4> QED
        BY Zenon, <4>1, <4>3 DEF Stored
    <3>5. Holds(f)
      BY Zenon, <2>3, <3>1, <3>4 DEF Holds, Got
    <3>6. Fetching(f)
      BY Zenon, <1>3, <2>3, <2>4, <3>5 DEF Fetching
    <3>7. ~IsEmpty(f.keys)
      BY <3>1, <3>4 DEF Got, IsEmpty, FromJwks
    <3> QED
      BY Zenon, <1>5, <2>2, <3>4, <3>6, <3>7, EntryKeeps
  <2> QED
    BY Zenon, <2>5, <2>6
<1>9. ASSUME TaskCancelled(r, k) PROVE IdInv' /\ Filled
  <2>1. PICK f \in {[e EXCEPT !.task = "stopped", !.from = 0, !.reply = 0]} : TRUE
    BY Zenon
  <2>2. issuers' = [issuers EXCEPT ![r][k] = f]
    BY Zenon, <1>1, <1>9, <2>1 DEF TaskCancelled
  <2>3. /\ f.iss = e.iss /\ f.keys = e.keys /\ f.since = e.since
        /\ f.reply = 0 /\ f.from = 0 /\ f.task = "stopped" /\ f \in Entries
    <3>1. f = [e EXCEPT !.task = "stopped", !.from = 0, !.reply = 0]
      BY Zenon, <2>1
    <3> QED
      BY Zenon, <3>1 DEF Entries, Running
  <2>4. f.task \in Running /\ 0 <= Now(f.iss)
    BY <1>4, <2>3 DEF Running
  <2>5. Fetching(f)
    BY Zenon, <1>2, <2>3, <2>4 DEF Fetching, Holds
  <2> QED
    BY Zenon, <1>0, <1>5, <2>2, <2>3, <2>5, EntryKeeps
<1> QED
  BY Zenon, <1>6, <1>7, <1>8, <1>9 DEF TaskStep
-----------------------------------------------------------------------------
(* The chain. *)

\* The slots and the request as the chain leaves them, keys and tasks alone.
LEMMA HostKeeps ==
  ASSUME IdInv, UNCHANGED <<published, issuers, inits, begun>>,
         request' \in Requests \cup {NoRequest}, at' \in 0..Len(Resolvers),
         identity' \in [slots : Slots, stash : Slots], ChainInv', AcceptedWithNamedKey'
  PROVE  IdInv'
<1>1. Types'
  BY Zenon DEF IdInv, Types, Now
<1>2. Grows
  BY Zenon, Still DEF IdInv
<1> QED
  BY Zenon, <1>1, <1>2, KeysStay, InitsStay DEF IdInv

\* No slot is filled.
LEMMA Blank == NoIdentity \in [slots : Slots, stash : Slots]
                 /\ \A x \in Roles : NoIdentity.slots[x] = {} /\ NoIdentity.stash[x] = {}
BY Zenon DEF NoIdentity, Slots

\* The host drops the resolvers, brings a request, and takes the result.
LEMMA HostSteps ==
  ASSUME IdInv, Drop \/ Leaves \/ \E req \in Requests : Arrives(req)
  PROVE  IdInv'
<1>1. \A r \in Chain : Resolvers[r].role \in Roles
  BY Zenon DEF Roles
<1>2. Len(Resolvers) \in Nat /\ Len(Resolvers) > 0
  BY JwtAssumption
<1>3. at \in Nat /\ at \in 0..Len(Resolvers) /\ identity \in [slots : Slots, stash : Slots]
  BY DEF IdInv, Types
<1>4. ASSUME Drop PROVE IdInv'
  <2>1. UNCHANGED <<published, issuers, inits, begun, request, at, identity, verdict>>
    BY Zenon, <1>4 DEF Drop, chainVars
  <2>2. ChainInv'
    BY Zenon, <2>1 DEF IdInv, ChainInv, RawToken
  <2>3. AcceptedWithNamedKey'
    BY Zenon, <2>1 DEF IdInv, AcceptedWithNamedKey, Now
  <2>4. request' \in Requests \cup {NoRequest}
    BY Zenon, <2>1 DEF IdInv, Types
  <2> QED
    BY Zenon, <1>3, <2>1, <2>2, <2>3, <2>4, HostKeeps
<1>5. ASSUME Leaves PROVE IdInv'
  <2>1. /\ UNCHANGED <<published, issuers, inits, begun>>
        /\ at = 0 /\ at' = 0 /\ request' = NoRequest /\ identity' = NoIdentity /\ verdict' = "none"
    BY Zenon, <1>5 DEF Leaves
  <2>2. ChainInv'
    <3>1. \A r \in Chain : ~(r < at')
      BY <2>1, JwtAssumption DEF Chain
    <3> QED
      BY Zenon, <1>1, <2>1, <3>1, Blank DEF ChainInv
  <2>3. AcceptedWithNamedKey'
    BY Zenon, <1>1, <2>1, Blank DEF AcceptedWithNamedKey
  <2> QED
    BY Zenon, <1>3, <2>1, <2>2, <2>3, Blank, HostKeeps
<1>6. ASSUME NEW req \in Requests, Arrives(req) PROVE IdInv'
  <2>1. /\ UNCHANGED <<published, issuers, inits, begun, identity, verdict>>
        /\ at = 0 /\ at' = 1 /\ request' = req /\ verdict = "none"
    BY Zenon, <1>6 DEF Arrives
  <2>2. identity' = NoIdentity
    BY Zenon, <2>1 DEF IdInv, ChainInv
  <2>3. ChainInv'
    <3>1. \A r \in Chain : ~(r < at')
      BY <2>1, JwtAssumption DEF Chain
    <3>2. at' # 0
      BY <2>1
    <3> QED
      BY Zenon, <1>1, <2>2, <3>1, <3>2, Blank DEF ChainInv
  <2>4. AcceptedWithNamedKey'
    BY Zenon, <1>1, <2>2, Blank DEF AcceptedWithNamedKey
  <2>5. at' \in 0..Len(Resolvers)
    BY <1>2, <2>1
  <2> QED
    BY Zenon, <2>1, <2>2, <2>3, <2>4, <2>5, Blank, HostKeeps
<1> QED
  BY Zenon, <1>4, <1>5, <1>6
-----------------------------------------------------------------------------
(* The handler. *)

\* A token names at most one key and is refused for a reason.
LEMMA TokenIs ==
  ASSUME NEW t \in Token
  PROVE  t.fault # "none" /\ \A x, y \in t.kid : x = y
<1>1. PICK req \in Requests : t \in TokensOf(req)
  BY Zenon DEF Token
<1> QED
  BY Zenon, <1>1, TokenAssumption

\* What a key store yields for a token whose kid is known or absent.
LEMMA KeySelected ==
  ASSUME IdInv, NEW r \in Chain, NEW e \in Entries, Configured(r, e) \/ Fetching(e),
         NEW t \in Token, e.iss = t.iss, ~IsEmpty(e.keys), t.key \in SelectKey(e.keys, t.kid)
  PROVE  Good(r, t)
<1>1. CASE Configured(r, e)
  <2>1. PICK k \in DOMAIN New(r) : e.iss = New(r)[k].iss /\ e.keys = New(r)[k].keys
    BY Zenon, <1>1 DEF Configured
  <2>2. e.keys = SingleFallback(Resolvers[r].inline[k].key)
    BY Zenon, <2>1 DEF New, Trusted
  <2>3. DOMAIN e.keys.by_kid = {} /\ e.keys.fallback = {Resolvers[r].inline[k].key}
    BY <2>2 DEF SingleFallback, NoKeys
  <2>4. t.kid = {}
    BY Zenon, <2>3 DEF SelectKey
  <2>5. e.keys.fallback = {t.key}
    BY Zenon, <2>3, <2>4 DEF SelectKey
  <2> QED
    BY Zenon, <2>1, <2>4, <2>5 DEF Good
<1>2. CASE Fetching(e)
  <2>1. e.iss \in Provider
    BY Zenon, <1>2 DEF Fetching
  <2>2. e.keys # EmptyStore
    BY DEF IsEmpty, EmptyStore, FromJwks
  <2>3. PICK n \in 1..Now(e.iss) : e.keys = FromJwks(published[e.iss][n])
    BY Zenon, <1>2, <2>2 DEF Fetching, Holds
  <2>4. e.keys.by_kid = published[e.iss][n] /\ e.keys.fallback = {}
    BY <2>3 DEF FromJwks
  <2>5. t.kid # {}
    BY Zenon, <2>4 DEF SelectKey
  <2>6. PICK y \in t.kid \cap DOMAIN published[e.iss][n] : t.key = published[e.iss][n][y]
    BY Zenon, <2>4, <2>5 DEF SelectKey
  <2>7. \A x \in t.kid : x = y
    BY Zenon, TokenIs
  <2> QED
    BY Zenon, <2>1, <2>5, <2>6, <2>7 DEF Good
<1> QED
  BY Zenon, <1>1, <1>2

\* A token that is accepted was verified with a good key of its issuer.
LEMMA AcceptedIsGood ==
  ASSUME IdInv, NEW r \in Chain, NEW t \in Token, Verdict(r, t) = "ok"
  PROVE  Good(r, t)
<1> DEFINE found == Find(r, t.iss)
           e == CHOOSE x \in found : TRUE
<1>1. found # {} /\ ValidateToken(t, e) = "ok"
  BY Zenon DEF Verdict
<1>2. e \in found
  BY Zenon, <1>1
<1>3. PICK k \in DOMAIN issuers[r] : e = issuers[r][k] /\ e.iss = t.iss
  BY Zenon, <1>2 DEF Find
<1>4. e \in Entries
  <2>1. issuers[r][k] \in Entries
    BY DEF IdInv, Types
  <2> QED
    BY Zenon, <1>3, <2>1
<1>5. Configured(r, e) \/ Fetching(e)
  BY Zenon, <1>3 DEF IdInv, KeysInv, Entry
<1> HIDE DEF e, found
<1> DEFINE key == SelectKey(e.keys, t.kid)
<1>6. ~IsEmpty(e.keys) /\ key # {} /\ Decode(t, CHOOSE x \in key : TRUE) = "ok"
  BY Zenon, <1>1 DEF ValidateToken
<1>7. t.key = CHOOSE x \in key : TRUE
  BY Zenon, <1>6 DEF Decode
<1>8. t.key \in key
  BY Zenon, <1>6, <1>7
<1> QED
  BY Zenon, <1>3, <1>4, <1>5, <1>6, <1>8, KeySelected

\* The handler always says something.
LEMMA VerdictSaid ==
  ASSUME NEW r \in Chain, NEW t \in Token
  PROVE  Verdict(r, t) # "none"
<1>1. t.fault # "none"
  BY Zenon, TokenIs
<1>2. ValidateToken(t, CHOOSE x \in Find(r, t.iss) : TRUE) # "none"
  BY Zenon, <1>1 DEF ValidateToken, Decode
<1> QED
  BY Zenon, <1>2 DEF Verdict

\* A resolver handles its token.
LEMMA HandleKeeps ==
  ASSUME IdInv, Handle
  PROVE  IdInv'
<1> DEFINE role == Resolvers[at].role
           token == RawToken(Resolvers[at].header)
           t == CHOOSE x \in token : TRUE
<1>1. at \in Chain /\ at \in 1..Len(Resolvers) /\ Len(Resolvers) \in Nat /\ Chain = 1..Len(Resolvers)
  <2>1. at # 0 /\ at \in 0..Len(Resolvers)
    BY Zenon DEF IdInv, Types, Handle
  <2>2. Len(Resolvers) \in Nat /\ Chain = 1..Len(Resolvers)
    BY JwtAssumption DEF Chain
  <2> QED
    BY <2>1, <2>2
<1>2. token \subseteq Token /\ \A x, y \in token : x = y
  <2>1. request \in Requests \/ request = NoRequest
    BY Zenon DEF IdInv, Types
  <2>2. CASE request = NoRequest
    <3>1. token = {}
      BY <2>2 DEF RawToken, NoRequest
    <3> QED
      BY Zenon, <3>1
  <2>3. CASE request \in Requests
    <3>1. token \subseteq TokensOf(request)
      BY Zenon DEF RawToken, TokensOf, Range
    <3>2. \A x, y \in token : x = y
      BY Zenon, <2>3, TokenAssumption DEF RawToken
    <3> QED
      BY Zenon, <2>3, <3>1, <3>2 DEF Token
  <2> QED
    BY Zenon, <2>1, <2>2, <2>3
<1>3. \A r \in Chain : Resolvers[r].role \in Roles
  BY Zenon DEF Roles
<1>4. UNCHANGED <<published, issuers, inits, begun, dropped, request>>
  BY Zenon DEF Handle
<1>5. PICK said \in {IF token = {} THEN "auth.malformed_header" ELSE Verdict(at, t)} : TRUE
  BY Zenon
<1>6. /\ verdict' = said
      /\ identity' = IF said # "ok" THEN identity
                     ELSE [slots |-> [identity.slots EXCEPT ![role] = token],
                           stash |-> Stashed(identity.stash, role, t)]
      /\ at' = IF said = "ok" /\ at < Len(Resolvers) THEN at + 1 ELSE 0
  BY Zenon, <1>5 DEF Handle
<1>7. said # "none"
  <2>1. CASE token = {}
    BY Zenon, <2>1, <1>5
  <2>2. CASE token # {}
    BY Zenon, <1>1, <1>2, <1>5, <2>2, VerdictSaid
  <2> QED
    BY Zenon, <2>1, <2>2
<1>8. at' \in 0..Len(Resolvers) /\ request' \in Requests \cup {NoRequest}
  <2>1. at' \in 0..Len(Resolvers)
    BY <1>1, <1>6
  <2> QED
    BY Zenon, <1>4, <2>1 DEF IdInv, Types
<1>9. CASE said # "ok"
  <2>1. UNCHANGED identity /\ at' = 0 /\ verdict' # "ok" /\ verdict' # "none"
    BY Zenon, <1>6, <1>7, <1>9
  <2>2. \A r \in Chain : ~(r < at')
    BY <2>1, <1>1
  <2>3. ChainInv'
    BY Zenon, <1>4, <2>1, <2>2 DEF IdInv, ChainInv, RawToken
  <2>4. AcceptedWithNamedKey'
    BY Zenon, <1>4, <2>1 DEF IdInv, AcceptedWithNamedKey, Now
  <2>5. identity' \in [slots : Slots, stash : Slots]
    BY Zenon, <2>1 DEF IdInv, Types
  <2> QED
    BY Zenon, <1>4, <1>8, <2>3, <2>4, <2>5, HostKeeps
<1>10. CASE said = "ok"
  <2>1. token # {} /\ Verdict(at, t) = "ok"
    BY Zenon, <1>5, <1>10
  <2>2. t \in token /\ token = {t} /\ t \in Token
    BY Zenon, <1>2, <2>1
  <2>3. Good(at, t)
    BY Zenon, <1>1, <2>1, <2>2, AcceptedIsGood
  <2>4. role \in Roles /\ identity.slots \in Slots /\ identity.stash \in Slots
    BY Zenon, <1>1, <1>3 DEF IdInv, Types
  <2>5. PICK filled \in {[identity.slots EXCEPT ![role] = token]},
             stash \in {[identity.stash EXCEPT ![role] = token]} : identity' = [slots |-> filled, stash |-> stash]
    BY Zenon, <1>6, <1>10, <2>2 DEF Stashed
  <2>6. filled \in Slots /\ stash \in Slots
    BY Zenon, <1>2, <2>4, <2>5 DEF Slots
  <2>7. identity'.slots = filled /\ identity'.stash = stash /\ identity' \in [slots : Slots, stash : Slots]
    BY Zenon, <2>5, <2>6
  <2>8. \A x \in Roles : IF x = role THEN filled[x] = token /\ stash[x] = token
                         ELSE filled[x] = identity.slots[x] /\ stash[x] = identity.stash[x]
    BY Zenon, <2>4, <2>5 DEF Slots
  <2>9. verdict' # "none"
    BY Zenon, <1>6, <1>7
  <2>10. \A r \in Chain : (r < at' \/ at' = 0) => r = at \/ r < at
    BY <1>1, <1>6, <1>10
  <2>11. \A r \in Chain : Resolvers[r].role = role => r = at
    BY Zenon, <1>1, JwtAssumption
  <2>12. ChainInv'
    <3> SUFFICES ASSUME NEW r \in Chain, NEW x \in Roles, x = Resolvers[r].role
                 PROVE  /\ stash[x] = filled[x]
                        /\ filled[x] # {} => filled[x] = RawToken(Resolvers[r].header)
                        /\ r < at' \/ at' = 0 => filled[x] # {}
      BY Zenon, <1>3, <1>4, <2>7, <2>9 DEF ChainInv, RawToken
    <3>1. CASE r = at
      BY Zenon, <2>1, <2>8, <3>1
    <3>2. CASE r # at
      <4>1. filled[x] = identity.slots[x] /\ stash[x] = identity.stash[x]
        BY Zenon, <2>8, <2>11, <3>2
      <4> QED
        BY Zenon, <2>10, <3>2, <4>1 DEF IdInv, ChainInv
    <3> QED
      BY Zenon, <3>1, <3>2
  <2>13. AcceptedWithNamedKey'
    <3>1. ASSUME NEW r \in Chain, NEW u \in filled[Resolvers[r].role] PROVE Good(r, u)
      <4>1. CASE r = at
        <5>1. filled[Resolvers[r].role] = token
          BY Zenon, <2>4, <2>8, <4>1
        <5>2. u = t
          BY Zenon, <2>2, <5>1
        <5> QED
          BY Zenon, <2>3, <4>1, <5>2
      <4>2. CASE r # at
        <5>1. u \in identity.slots[Resolvers[r].role]
          BY Zenon, <1>3, <2>8, <2>11, <4>2
        <5> QED
          BY Zenon, <5>1 DEF IdInv, AcceptedWithNamedKey, Good
      <4> QED
        BY Zenon, <4>1, <4>2
    <3>2. ASSUME NEW r \in Chain, NEW u \in filled[Resolvers[r].role] PROVE Good(r, u)'
      BY Zenon, <1>4, <3>1 DEF Good, Now
    <3> QED
      BY Zenon, <2>7, <3>2 DEF AcceptedWithNamedKey, Good
  <2> QED
    BY Zenon, <1>4, <1>8, <2>7, <2>12, <2>13, HostKeeps
<1> QED
  BY Zenon, <1>9, <1>10
-----------------------------------------------------------------------------
(* The theorems. *)

\* Before the first step there are the issuers of the configuration, a publication
\* of every provider and no request.
LEMMA IdInitKeeps ==
  ASSUME IdInit
  PROVE  IdInv
<1>1. published \in [Provider -> Seq(Jwks)] /\ \A i \in Provider : Now(i) > 0
  <2>1. ASSUME NEW i \in Provider PROVE published[i] \in Seq(Jwks) /\ Len(published[i]) = 1
    <3>1. PICK x \in Jwks : published[i] = <<x>>
      BY Zenon DEF IdInit
    <3> QED
      BY <3>1
  <2>2. \A i \in Provider : Now(i) > 0
    BY <2>1 DEF Now
  <2> QED
    BY Zenon, <2>1, <2>2 DEF IdInit
<1>2. ASSUME NEW r \in Chain
      PROVE  New(r) \in Seq(Entries) /\ \A k \in DOMAIN New(r) : New(r)[k].task = "none"
  <2>1. Resolvers[r].inline \in Seq(Range(Resolvers[r].inline))
    BY Zenon, JwtAssumption
  <2>2. ASSUME NEW k \in DOMAIN Resolvers[r].inline
        PROVE  New(r)[k] \in Entries /\ New(r)[k].task = "none"
    <3> DEFINE c == Resolvers[r].inline[k]
    <3>1. c \in Configs
      BY DEF Configs, Range
    <3>2. c.iss \in Names /\ SingleFallback(c.key) \in Stores
      BY Zenon, <3>1 DEF Names, Stores
    <3>3. New(r)[k] = [iss |-> c.iss, keys |-> SingleFallback(c.key), since |-> 0, task |-> "none",
                       from |-> 0, reply |-> 0]
      BY Zenon DEF New, Trusted
    <3> HIDE DEF c
    <3> QED
      BY <3>2, <3>3 DEF Entries
  <2>3. DOMAIN New(r) = DOMAIN Resolvers[r].inline
    BY Zenon DEF New
  <2>4. New(r) = [k \in 1..Len(Resolvers[r].inline) |-> New(r)[k]]
    BY <2>1 DEF New
  <2>5. Len(Resolvers[r].inline) \in Nat /\ \A k \in 1..Len(Resolvers[r].inline) : New(r)[k] \in Entries
    BY <2>1, <2>2
  <2>6. New(r) \in Seq(Entries)
    BY <2>4, <2>5
  <2> QED
    BY Zenon, <2>2, <2>3, <2>6
<1>3. issuers \in [Chain -> Seq(Entries)]
  BY Zenon, <1>2 DEF IdInit
<1>4. at \in 0..Len(Resolvers) /\ \A r \in Chain : ~(r < at)
  BY JwtAssumption DEF IdInit, Chain
<1>5. DOMAIN inits = Chain /\ \A r \in Chain : inits[r] = {}
  BY Zenon DEF IdInit
<1>6. Types
  BY Zenon, <1>1, <1>3, <1>4, <1>5, Blank DEF IdInit, Types
<1>7. KeysInv
  BY Zenon, <1>2 DEF IdInit, KeysInv, Entry, Configured
<1>8. \A r \in Chain : Resolvers[r].role \in Roles
  BY Zenon DEF Roles
<1>9. ChainInv
  <2>1. verdict = "none" /\ identity = NoIdentity /\ verdict # "ok"
    BY Zenon DEF IdInit
  <2> QED
    BY Zenon, <1>4, <1>8, <2>1, Blank DEF ChainInv
<1>10. AcceptedWithNamedKey
  BY Zenon, <1>8, Blank DEF IdInit, AcceptedWithNamedKey
<1> QED
  BY Zenon, <1>5, <1>6, <1>7, <1>9, <1>10 DEF IdInv, InitsInv

\* Every step keeps the invariant.
LEMMA IdNextKeeps ==
  ASSUME IdInv, [IdNext]_idVars
  PROVE  IdInv'
<1>1. CASE UNCHANGED idVars
  <2>1. UNCHANGED <<published, issuers, inits, begun, dropped, request, at, identity, verdict>>
    BY Zenon, <1>1 DEF idVars
  <2>2. ChainInv'
    BY Zenon, <2>1 DEF IdInv, ChainInv, RawToken
  <2>3. AcceptedWithNamedKey'
    BY Zenon, <2>1 DEF IdInv, AcceptedWithNamedKey, Now
  <2>4. /\ request' \in Requests \cup {NoRequest} /\ at' \in 0..Len(Resolvers)
        /\ identity' \in [slots : Slots, stash : Slots]
    BY Zenon, <2>1 DEF IdInv, Types
  <2> QED
    BY Zenon, <2>1, <2>2, <2>3, <2>4, HostKeeps
<1>2. CASE IdNext
  BY Zenon, <1>2, RotateKeeps, BeginKeeps, InitFetchedKeeps, InitEndsKeeps, TaskKeeps, HostSteps, HandleKeeps
     DEF IdNext
<1> QED
  BY Zenon, <1>1, <1>2

\* The issuers, the initialisations, the chain and its slots are always in order.
LEMMA IdInvariance == IdSpec => []IdInv
<1>1. IdInit => IdInv
  BY Zenon, IdInitKeeps
<1>2. IdInv /\ [IdNext]_idVars => IdInv'
  BY Zenon, IdNextKeeps
<1> QED
  BY <1>1, <1>2, PTL DEF IdSpec

\* Whatever rotations, outages, refreshes and initialisations run meanwhile, the
\* identity of a request comes from its own tokens, each verified with a key that
\* its issuer had published under the name the token gives, or with the key in
\* the configuration; and a key store is one publication since its fetch began.
THEOREM Verified == IdSpec => []TokensVerified
<1>1. IdInv => KeysSinceFetch
  <2> SUFFICES ASSUME IdInv, NEW r \in Chain, NEW k \in DOMAIN issuers[r], NEW e \in Entries, e = issuers[r][k],
                      e.task # "none", ~IsEmpty(e.keys)
               PROVE  \E n \in e.since..Now(e.iss) : n > 0 /\ e.keys = FromJwks(published[e.iss][n])
    <3>1. IdInv => \A r \in Chain : \A k \in DOMAIN issuers[r] : issuers[r][k] \in Entries
      BY DEF IdInv, Types
    <3> QED
      BY Zenon, <3>1 DEF KeysSinceFetch, Entry
  <2>1. Fetching(e)
    BY Zenon DEF IdInv, KeysInv, Entry, Configured
  <2>2. e.keys # EmptyStore
    BY DEF IsEmpty, EmptyStore, FromJwks
  <2>3. PICK n \in 1..Now(e.iss) : e.since <= n /\ e.keys = FromJwks(published[e.iss][n])
    BY Zenon, <2>1, <2>2 DEF Fetching, Holds
  <2>4. e.since \in Nat /\ Now(e.iss) \in Nat
    BY <2>1 DEF Entries, IdInv, Types, Fetching, Now
  <2>5. n \in e.since..Now(e.iss) /\ n > 0
    BY <2>3, <2>4
  <2> QED
    BY Zenon, <2>3, <2>5
<1>2. IdInv => TokensKeptApart
  <2> SUFFICES ASSUME IdInv PROVE TokensKeptApart
    BY Zenon
  <2>1. \A r \in Chain :
          LET x == Resolvers[r].role
              h == Resolvers[r].header
          IN  /\ identity.stash[x] = identity.slots[x]
              /\ identity.slots[x] # {} /\ h \in DOMAIN request.headers
                   => identity.slots[x] = {request.headers[h]}
    BY Zenon DEF IdInv, ChainInv, RawToken
  <2>2. at = 0 /\ verdict = "ok" => \A x \in Roles : identity.slots[x] # {}
    BY Zenon DEF IdInv, ChainInv, Roles
  <2> QED
    BY Zenon, <2>1, <2>2 DEF TokensKeptApart
<1>3. IdInv => TokensVerified
  BY Zenon, <1>1, <1>2 DEF TokensVerified, IdInv
<1> QED
  BY <1>3, IdInvariance, PTL


\* An outage, or an answer without a usable key, takes no key away: the store of an
\* issuer that has been filled is never empty again, for any number of resolvers,
\* issuers and publications.
THEOREM NoKeyLost == IdSpec => OutageHarmless
<1>1. ASSUME IdInv, IdNext PROVE Filled
  <2>1. CASE UNCHANGED issuers
    BY Zenon, <2>1 DEF Filled, Entry
  <2>2. ASSUME NEW r \in Chain, NEW c \in inits[r], InitEnds(r, c) PROVE Filled
    BY Zenon, <1>1, <2>2, InitEndsKeeps
  <2>3. ASSUME NEW r \in Chain, NEW k \in DOMAIN issuers[r], TaskStep(r, k) PROVE Filled
    BY Zenon, <1>1, <2>3, TaskKeeps
  <2> QED
    BY Zenon, <1>1, <2>1, <2>2, <2>3
       DEF IdNext, Rotate, BeginInitialize, InitFetched, Drop, Arrives, Leaves, Handle
<1>2. IdInv /\ [IdNext]_idVars =>
        [\A r \in Chain : \A k \in DOMAIN issuers[r] :
           ~IsEmpty(Entry(r, k).keys) => ~IsEmpty(issuers'[r][k].keys)]_idVars
  BY Zenon, <1>1 DEF Filled
<1> QED
  BY <1>2, IdInvariance, PTL DEF IdSpec, OutageHarmless

-----------------------------------------------------------------------------
(* The branches of a group. *)

\* What links the tasks, the join loop's slots and the abort flag.
IInv ==
  /\ TypeOK
  /\ \A i \in Branch : task[i] = "unspawned" <=> i > spawned
  /\ \A i \in Branch : out[i] = None <=> task[i] \in {"unspawned", "running"}
  /\ \A i \in Branch :
       slots[i] = IF task[i] = "joined" /\ out[i] # Cancelled THEN out[i] ELSE None
  /\ \A i \in Branch : out[i] = Cancelled => aborted
  /\ \A i \in Branch : out[i] = TimedOut => config.timeout_per_branch
  /\ aborted => /\ config.short_circuit_on_deny
                /\ \E j \in Branch : task[j] = "joined" /\ Halts(out[j])
  /\ returned => \A i \in Branch : task[i] = "joined"
  /\ returned => result = [i \in Branch |-> IF slots[i] = None THEN Aborted ELSE slots[i]]

\* The kinds of outcome are told apart by their tag.
LEMMA Tags ==
  /\ None \notin BranchOutcome
  /\ Cancelled \notin BranchOutcome
  /\ None # Cancelled
  /\ None \notin TaskEnd
  /\ Cancelled \in TaskEnd
  /\ Aborted \in BranchOutcome
  /\ Aborted \notin TaskEnd
  /\ \A o \in TaskEnd : o # Cancelled => o \in BranchOutcome
  /\ ~Halts(Cancelled)
  /\ ~Halts(Aborted)
  /\ ~Halts(None)
  /\ TimedOut # Aborted
  /\ TimedOut # None
  BY Zenon DEF None, Cancelled, BranchOutcome, TaskEnd, Aborted, TimedOut, Panicked, Halts

\* Nothing has been spawned, so nothing has ended or been aborted.
LEMMA InitIInv == Init => IInv
<1> SUFFICES ASSUME Init PROVE IInv
  BY Zenon
<1>0. ~returned /\ [i \in Branch |-> None] \in [Branch -> {None}]
  BY Zenon DEF Init
<1>1. TypeOK
  <2>1. result \in [Branch -> IF returned THEN BranchOutcome ELSE {None}]
    BY Zenon, <1>0 DEF Init
  <2>2. spawned \in 0..N
    BY NAssumption DEF Init
  <2>3. /\ task \in [Branch -> {"unspawned", "running", "ended", "joined"}]
        /\ out \in [Branch -> TaskEnd \cup {None}]
        /\ slots \in [Branch -> BranchOutcome \cup {None}]
    BY Zenon DEF Init
  <2>4. config \in BranchConfig /\ aborted \in BOOLEAN /\ returned \in BOOLEAN
    BY Zenon DEF Init
  <2> QED
    BY Zenon, <2>1, <2>2, <2>3, <2>4 DEF TypeOK
<1> QED
  BY <1>1, NAssumption, Tags DEF Init, IInv, Branch

\* Every step of the function, of a task, and of the join loop keeps IInv.
LEMMA NextIInv == IInv /\ [Next]_vars => IInv'
<1> SUFFICES ASSUME IInv, [Next]_vars PROVE IInv'
  BY Zenon
<1> USE NAssumption, Tags
<1>1. CASE Spawn
  <2>1. spawned + 1 \in Branch /\ task[spawned + 1] = "unspawned"
    BY <1>1 DEF Spawn, IInv, TypeOK, Branch
  <2>2. TypeOK'
    BY <1>1, <2>1 DEF Spawn, IInv, TypeOK
  <2>3. returned' = FALSE
    BY Zenon, <1>1, <2>1 DEF Spawn, IInv, TypeOK
  <2> QED
    BY <1>1, <2>1, <2>2, <2>3 DEF Spawn, IInv, TypeOK, Branch
<1>2. ASSUME NEW i \in Branch, NEW o \in TaskEnd, TaskEnds(i, o)
      PROVE  IInv'
  <2>1. TypeOK'
    BY Zenon, <1>2 DEF TaskEnds, IInv, TypeOK
  <2>2. returned' = FALSE
    BY Zenon, <1>2 DEF TaskEnds, IInv, TypeOK
  <2>3. aborted' => \E j \in Branch : task'[j] = "joined" /\ Halts(out'[j])
    BY Zenon, <1>2 DEF TaskEnds, IInv, TypeOK
  <2> QED
    BY <1>2, <2>1, <2>2, <2>3 DEF TaskEnds, IInv, TypeOK
<1>3. ASSUME NEW i \in Branch, Join(i)
      PROVE  IInv'
  <2>1. out[i] \in TaskEnd /\ out[i] # None
    BY Zenon, <1>3 DEF Join, IInv, TypeOK
  <2>2. TypeOK'
    BY Zenon, <1>3, <2>1 DEF Join, IInv, TypeOK
  <2>3. returned' = FALSE
    BY Zenon, <1>3 DEF Join, IInv, TypeOK
  <2>4. aborted' => /\ config.short_circuit_on_deny
                    /\ \E j \in Branch : task'[j] = "joined" /\ Halts(out'[j])
    BY Zenon, <1>3 DEF Join, IInv, TypeOK
  <2>5. \A k \in Branch :
          slots'[k] = IF task'[k] = "joined" /\ out'[k] # Cancelled THEN out'[k] ELSE None
    BY Zenon, <1>3, <2>1 DEF Join, IInv, TypeOK
  <2> QED
    BY Zenon, <1>3, <2>1, <2>2, <2>3, <2>4, <2>5 DEF Join, IInv, TypeOK
<1>4. CASE Return
  <2>1. \A i \in Branch : slots[i] = None \/ slots[i] \in BranchOutcome
    BY Zenon DEF IInv, TypeOK
  <2>2. TypeOK'
    BY Zenon, <1>4, <2>1 DEF Return, IInv, TypeOK
  <2> QED
    BY Zenon, <1>4, <2>2 DEF Return, IInv, TypeOK
<1>5. CASE UNCHANGED vars
  BY Zenon, <1>5 DEF vars, IInv, TypeOK
<1> QED
  BY Zenon, <1>1, <1>2, <1>3, <1>4, <1>5 DEF Next

\* The inductive invariant holds in every reachable state.
THEOREM Invariance == Spec => []IInv
  BY InitIInv, NextIInv, PTL DEF Spec

\* Type correctness of run_branches' state.
THEOREM TypeCorrect == Spec => []TypeOK
<1>1. IInv => TypeOK
  BY Zenon DEF IInv
<1> QED
  BY <1>1, Invariance, PTL

\* What the caller is told about a branch is how that branch ended, in any
\* order of completion and however late after abort_all.
THEOREM OwnOutcome == Spec => []OwnOutcomeReported
<1>1. IInv => OwnOutcomeReported
  BY Zenon, Tags DEF IInv, TypeOK, OwnOutcomeReported
<1> QED
  BY <1>1, Invariance, PTL

\* An Aborted entry in the returned vector always comes with a deny in the
\* same vector, and only under short_circuit_on_deny.
THEOREM PromiseHolds == Spec => []PromiseKept
<1>1. ASSUME IInv, returned
      PROVE  Promise(result, config)
  <2>1. \A i \in Branch : result[i] = IF out[i] = Cancelled THEN Aborted ELSE out[i]
    BY Zenon, <1>1, Tags DEF IInv, TypeOK
  <2>2. \A i \in Branch : out[i] \in TaskEnd
    BY Zenon, <1>1, Tags DEF IInv, TypeOK
  <2>3. DOMAIN result = Branch
    BY Zenon, <1>1 DEF IInv, TypeOK
  <2>4. \A i \in Branch : result[i] = Aborted => out[i] = Cancelled
    BY Zenon, <2>1, <2>2, Tags
  <2>5. \A i \in Branch : result[i] = TimedOut => out[i] = TimedOut
    BY Zenon, <2>1, <2>2, Tags
  <2>6. aborted => \E j \in Branch : Halts(result[j])
    BY Zenon, <1>1, <2>1, Tags DEF IInv
  <2> QED
    BY <1>1, <2>3, <2>4, <2>5, <2>6 DEF IInv, Promise
<1> QED
  BY <1>1, Invariance, PTL DEF PromiseKept

\* run_branches implements BranchGroup: Spawn and Join are stutters, a task's
\* end settles its branch, and Return hands the group back.
THEOREM Refinement == Spec => ImplementsBranchGroup
<1> USE NAssumption, Tags
<1>0. /\ BG!Aborted = Aborted
      /\ BG!TimedOut = TimedOut
      /\ BG!BranchOutcome = BranchOutcome
      /\ BG!BranchConfig = BranchConfig
      /\ \A o : BG!Halts(o) <=> Halts(o)
  BY Zenon DEF BG!Aborted, Aborted, BG!TimedOut, TimedOut, BG!BranchOutcome, BranchOutcome,
         BG!Panicked, Panicked, BG!BranchConfig, BranchConfig, BG!Halts, Halts
<1>1. Init => BG!Init
  BY Zenon, <1>0 DEF Init, BG!Init, BG!Branch, Branch, BG!Unsettled, Settled
<1>2. IInv /\ [Next]_vars => [BG!Next]_BG!vars
  <2> SUFFICES ASSUME IInv, [Next]_vars PROVE [BG!Next]_BG!vars
    BY Zenon
  <2>1. CASE Spawn
    BY Zenon, <2>1 DEF Spawn, BG!vars, Settled
  <2>2. ASSUME NEW i \in Branch, NEW o \in TaskEnd, TaskEnds(i, o)
        PROVE  BG!Next
    <3> DEFINE so == IF o = Cancelled THEN Aborted ELSE o
    <3>1. so \in BranchOutcome
      BY Zenon, Tags
    <3>2. ~returned
      BY Zenon, <2>2 DEF TaskEnds, IInv
    <3>3. Settled(i) = BG!Unsettled
      BY Zenon, <2>2 DEF TaskEnds, IInv, Settled, BG!Unsettled
    <3>4. so = Aborted => o = Cancelled
      BY Zenon
    <3>5. aborted => /\ config.short_circuit_on_deny
                     /\ \E j \in Branch : Halts(Settled(j))
      BY Zenon DEF IInv, Settled
    <3>6. so = Aborted => BG!MayAbort
      BY Zenon, <1>0, <2>2, <3>4, <3>5 DEF TaskEnds, BG!MayAbort, BG!Branch, Branch
    <3>7. so = TimedOut => config.timeout_per_branch
      BY Zenon, <2>2 DEF TaskEnds
    <3>8. \A k \in Branch : Settled(k)' = IF k = i THEN so ELSE Settled(k)
      BY Zenon, <2>2 DEF TaskEnds, IInv, TypeOK, Settled
    <3>9. [k \in Branch |-> Settled(k)]' = [[k \in Branch |-> Settled(k)] EXCEPT ![i] = so]
      BY Zenon, <3>8 DEF Branch
    <3>10. BG!Settle(i, so)
      BY Zenon, <1>0, <2>2, <3>2, <3>3, <3>6, <3>7, <3>9 DEF TaskEnds, BG!Settle
    <3> QED
      BY Zenon, <1>0, <3>1, <3>10 DEF BG!Next, BG!Branch, Branch
  <2>3. ASSUME NEW i \in Branch, Join(i)
        PROVE  UNCHANGED BG!vars
    BY Zenon, <2>3 DEF Join, BG!vars, Settled
  <2>4. CASE Return
    <3>1. \A i \in Branch : Settled(i) # BG!Unsettled
      BY <2>4 DEF Return, IInv, TypeOK, Settled, BG!Unsettled, TaskEnd, BranchOutcome,
                  Cancelled, Aborted, TimedOut, Panicked, None
    <3>2. UNCHANGED <<config, [i \in Branch |-> Settled(i)]>>
      BY Zenon, <2>4 DEF Return, Settled
    <3> QED
      BY Zenon, <2>4, <3>1, <3>2 DEF Return, BG!Next, BG!Return, BG!Branch, Branch
  <2>5. CASE UNCHANGED vars
    BY Zenon, <2>5 DEF vars, BG!vars, Settled
  <2> QED
    BY Zenon, <2>1, <2>2, <2>3, <2>4, <2>5 DEF Next
<1> QED
  BY <1>1, <1>2, Invariance, PTL DEF Spec, ImplementsBranchGroup, BG!Spec

\* The vector that run_branches returns tells each branch's own end and keeps what
\* its callers rely on (lib.rs 154-206).
THEOREM Promised == Spec => []ReturnedAsPromised
<1>1. OwnOutcomeReported /\ PromiseKept => ReturnedAsPromised
  BY Zenon DEF ReturnedAsPromised
<1> QED
  BY <1>1, OwnOutcome, PromiseHolds, PTL
=============================================================================
