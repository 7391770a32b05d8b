---------------------------- MODULE JwtIdentity -----------------------------
(***************************************************************************)
(* The identity-jwt plugin: a chain of resolvers, each of which reads a    *)
(* token from its header, verifies it with the keys of a trusted issuer    *)
(* and fills the identity slot of its role.  Keys of a JWKS issuer are     *)
(* fetched by initialize() and then by a background task per issuer that   *)
(* replaces the key store while requests are verified.                     *)
(*                                                                         *)
(* A JWKS is a function from key ids to keys, and NoKeys one that cannot   *)
(* be had: the provider is down, or publishes no key that is usable.  Each *)
(* issuer's publications are numbered.                                     *)
(***************************************************************************)
EXTENDS Integers, Sequences, FiniteSets, Functions

CONSTANTS
  Resolvers,     \* the chain: records of role, header and the configured issuers, those
                 \* with their key inline and those with a JWKS, each kind in order
  Requests,      \* records of headers, a function to tokens, and raw, at most one
                 \* token; tokens are records of form, iss, kid, key, fault and roles
  Jwks,          \* what a provider may publish
  MaxRotations,  \* publications after the first
  MaxInits       \* calls of initialize() on a resolver

NoKeys == << >>

Chain == DOMAIN Resolvers

Roles == {Resolvers[r].role : r \in Chain}

\* The tokens a request carries.
TokensOf(req) == Range(req.headers) \cup req.raw

ASSUME JwtAssumption ==
  /\ Resolvers # << >> /\ Resolvers \in Seq(Range(Resolvers))
  /\ \A r, s \in Chain : r # s => Resolvers[r].role # Resolvers[s].role
  /\ \A r \in Chain : LET c == Resolvers[r] IN c.inline \in Seq(Range(c.inline)) /\ c.jwks \in Seq(Range(c.jwks))
  /\ NoKeys \in Jwks
  /\ {MaxRotations, MaxInits} \subseteq Nat

\* A header names at most one key, the host extracts at most one token, and a
\* token that is refused is refused for a reason.
ASSUME TokenAssumption ==
  \A req \in Requests :
    /\ \A s, t \in req.raw : s = t
    /\ \A t \in TokensOf(req) : t.fault # "none" /\ \A x, y \in t.kid : x = y

VARIABLES
  published,  \* published[i]: what the provider i has published, in order
  issuers,    \* issuers[r]: trusted_issuers, each with its key store and task
  inits,      \* inits[r]: the calls of initialize() that await their fetches
  begun,      \* begun[r]: calls of initialize() so far
  dropped,    \* has the host let go of the resolvers?
  request,    \* the request in the chain
  at,         \* the resolver that it is at, 0 for no request
  identity,   \* the identity slots and the stash of raw tokens
  verdict     \* what the last handler said

idVars == <<published, issuers, inits, begun, dropped, request, at, identity, verdict>>

chainVars == <<request, at, identity, verdict>>

NoRequest == [headers |-> << >>, raw |-> {}]

NoIdentity == [slots |-> [x \in Roles |-> {}], stash |-> [x \in Roles |-> {}]]

\* A key store that a token without a kid is checked with, and one of a JWKS.
SingleFallback(key) == [by_kid |-> NoKeys, fallback |-> {key}]

FromJwks(jwks) == [by_kid |-> jwks, fallback |-> {}]

EmptyStore == FromJwks(NoKeys)

IsEmpty(store) == store.by_kid = NoKeys /\ store.fallback = {}

\* A trusted issuer and its task, which began its last fetch when publication
\* `from` was current and got `reply`.  What is stored was fetched since `since`.
Trusted(iss, store, since, task) ==
  [iss |-> iss, keys |-> store, since |-> since, task |-> task, from |-> 0, reply |-> 0]

\* new(): keys that are in the configuration are built at once, and the issuers
\* with a JWKS are put aside as pending_jwks.
New(r) ==
  [k \in DOMAIN Resolvers[r].inline |->
     Trusted(Resolvers[r].inline[k].iss, SingleFallback(Resolvers[r].inline[k].key), 0, "none")]

Pending(r) == Resolvers[r].jwks

\* The providers that keys are fetched from.
Provider == UNION {{Pending(r)[k].iss : k \in DOMAIN Pending(r)} : r \in Chain}

IdInit ==
  /\ published \in [Provider -> {<<x>> : x \in Jwks}]
  /\ issuers = [r \in Chain |-> New(r)]
  /\ inits = [r \in Chain |-> {}]
  /\ begun = [r \in Chain |-> 0]
  /\ dropped = FALSE
  /\ request = NoRequest
  /\ at = 0 /\ identity = NoIdentity /\ verdict = "none"
-----------------------------------------------------------------------------
(* The provider: external.  It publishes keys, withdraws them, and goes     *)
(* down or out of reach; every fetch is answered with what is published at  *)
(* some moment while it is under way, or fails.                             *)

Now(i) == Len(published[i])

Current(i) == published[i][Now(i)]

Rotate(i, jwks) ==
  /\ Now(i) <= MaxRotations /\ jwks # Current(i)
  /\ published' = [published EXCEPT ![i] = Append(@, jwks)]
  /\ UNCHANGED <<issuers, inits, begun, dropped, chainVars>>

\* The answer to a fetch: the number of the publication, or 0 for a failure.
Reply(i) == IF Current(i) = NoKeys THEN 0 ELSE Now(i)
-----------------------------------------------------------------------------
\* initialize(): one fetch per pending issuer, all at once; without any, it
\* returns and has changed nothing.
BeginInitialize(r) ==
  /\ ~dropped /\ begun[r] < MaxInits /\ Pending(r) # << >>
  /\ begun' = [begun EXCEPT ![r] = @ + 1]
  /\ inits' = [inits EXCEPT ![r] = @ \cup
                  {[call |-> begun[r], got |-> [k \in DOMAIN Pending(r) |-> -1],
                    from |-> [k \in DOMAIN Pending(r) |-> Now(Pending(r)[k].iss)]]}]
  /\ UNCHANGED <<published, issuers, dropped, chainVars>>

\* join_all: the answers come in any order.
InitFetched(r, c, k) ==
  /\ c \in inits[r] /\ c.got[k] = -1
  /\ inits' = [inits EXCEPT ![r] = (@ \ {c}) \cup {[c EXCEPT !.got[k] = Reply(Pending(r)[k].iss)]}]
  /\ UNCHANGED <<published, issuers, begun, dropped, chainVars>>

\* tokio::time::interval panics on a period of zero, and with it the task.
Spawned(c) == IF c.refresh = 0 THEN "stopped" ELSE "asleep"

\* The issuer as it was fetched, or with an empty store; a task either way.
Resolved(c, n, from) ==
  IF n = 0 THEN Trusted(c.iss, EmptyStore, 0, Spawned(c))
           ELSE Trusted(c.iss, FromJwks(published[c.iss][n]), from, Spawned(c))

\* The rest of initialize() holds the write lock and awaits nothing.
InitEnds(r, c) ==
  /\ c \in inits[r] /\ \A k \in DOMAIN c.got : c.got[k] # -1
  /\ issuers' = [issuers EXCEPT ![r] =
                   @ \o [k \in DOMAIN c.got |-> Resolved(Pending(r)[k], c.got[k], c.from[k])]]
  /\ inits' = [inits EXCEPT ![r] = @ \ {c}]
  /\ UNCHANGED <<published, begun, dropped, chainVars>>
-----------------------------------------------------------------------------
(* The refresh task of issuer k of resolver r. *)

Entry(r, k) == issuers[r][k]

\* Drop aborts the task of every issuer.
TasksAborted == dropped

\* The ticker fires, and the task asks the provider again.
Ticks(r, k) ==
  /\ Entry(r, k).task = "asleep" /\ ~TasksAborted
  /\ issuers' = [issuers EXCEPT ![r][k] = [@ EXCEPT !.task = "fetching", !.from = Now(Entry(r, k).iss)]]
  /\ UNCHANGED <<published, inits, begun, dropped, chainVars>>

Fetched(r, k) ==
  /\ Entry(r, k).task = "fetching" /\ ~TasksAborted
  /\ issuers' = [issuers EXCEPT ![r][k] = [@ EXCEPT !.task = "replied", !.reply = Reply(Entry(r, k).iss)]]
  /\ UNCHANGED <<published, inits, begun, dropped, chainVars>>

\* Whole-store replacement.
Stored(entry, n) == FromJwks(published[entry.iss][n])

\* "keeping previous KeyStore".
Kept(entry) == entry.keys

\* Fault: the loop ends with the first fetch that fails.
GoesOnIfStored(n) == IF n = 0 THEN "stopped" ELSE "asleep"

\* The loop has no exit.
GoesOn(n) == "asleep"

\* The task is polled once more: it writes the store, or keeps it.  An abort that
\* comes while it runs takes effect at the next await.
Refreshes(r, k) ==
  LET entry == Entry(r, k)
      ok == entry.reply # 0
  IN  /\ entry.task = "replied"
      /\ issuers' = [issuers EXCEPT
           ![r][k] = [entry EXCEPT !.keys  = IF ok THEN Stored(entry, entry.reply) ELSE Kept(entry),
                                   !.since = IF ok THEN entry.from ELSE @,
                                   !.task  = GoesOn(entry.reply),
                                   !.from  = 0, !.reply = 0]]
      /\ UNCHANGED <<published, inits, begun, dropped, chainVars>>

\* An aborted task is dropped where it waits.
TaskCancelled(r, k) ==
  /\ TasksAborted /\ Entry(r, k).task \notin {"none", "stopped"}
  /\ issuers' = [issuers EXCEPT ![r][k] = [@ EXCEPT !.task = "stopped", !.from = 0, !.reply = 0]]
  /\ UNCHANGED <<published, inits, begun, dropped, chainVars>>

\* Calls hold the resolver: it is dropped when none is under way.
Drop ==
  /\ ~dropped /\ at = 0 /\ verdict = "none" /\ \A r \in Chain : inits[r] = {}
  /\ dropped' = TRUE
  /\ UNCHANGED <<published, issuers, inits, begun, chainVars>>
-----------------------------------------------------------------------------
(* The hook. *)

\* The host enters the chain with what the request carries.
Arrives(req) ==
  /\ ~dropped /\ at = 0 /\ verdict = "none"
  /\ request' = req
  /\ at' = 1
  /\ UNCHANGED <<published, issuers, inits, begun, dropped, identity, verdict>>

\* The host has the result of the chain.
Leaves ==
  /\ at = 0 /\ verdict # "none"
  /\ request' = NoRequest /\ identity' = NoIdentity /\ verdict' = "none"
  /\ UNCHANGED <<published, issuers, inits, begun, dropped, at>>

\* The token of the resolver's own header, else the one the host extracted.
RawToken(header) ==
  IF header \in DOMAIN request.headers THEN {request.headers[header]} ELSE request.raw

\* issuers.iter().find: the first that matches, if any.
Find(r, iss) ==
  LET of == {k \in DOMAIN issuers[r] : issuers[r][k].iss = iss}
  IN  {issuers[r][k] : k \in {j \in of : \A i \in of : j <= i}}

\* Fault: a kid that is not there falls back.
SelectLeniently(store, kid) ==
  {store.by_kid[x] : x \in kid \cap DOMAIN store.by_kid}
    \cup (IF kid \cap DOMAIN store.by_kid = {} THEN store.fallback ELSE {})

\* KeyStore::select: the key of the kid; the fallback only without one.
SelectKey(store, kid) ==
  IF kid # {} THEN {store.by_kid[x] : x \in kid \cap DOMAIN store.by_kid} ELSE store.fallback

\* jsonwebtoken: external.  The signature, then the claims.
Decode(token, key) == IF token.key # key THEN "auth.signature_invalid" ELSE token.fault

\* validate_token, under the read lock of the key store.
ValidateToken(token, entry) ==
  LET key == SelectKey(entry.keys, token.kid)
  IN  CASE IsEmpty(entry.keys) -> "auth.jwks_unavailable"
        [] ~IsEmpty(entry.keys) /\ key = {} -> "auth.unknown_kid"
        [] OTHER -> Decode(token, CHOOSE x \in key : TRUE)

\* What handle() says of the token: a violation's code, or "ok".
Verdict(r, token) ==
  LET found == Find(r, token.iss)
      said == ValidateToken(token, CHOOSE e \in found : TRUE)
  IN  CASE token.form # "jwt" -> "auth.malformed_header"
        [] token.form = "jwt" /\ found = {} -> "auth.untrusted_issuer"
        [] OTHER -> IF said = "ok" /\ Resolvers[r].role \notin token.roles
                    THEN "auth.mapping_failed" ELSE said

\* inbound_tokens.insert, by role.
Stashed(stash, role, token) == [stash EXCEPT ![role] = {token}]

\* The handler of resolver `at`.  It awaits nothing; a denial ends the chain.
Handle ==
  LET role == Resolvers[at].role
      token == RawToken(Resolvers[at].header)
      said == IF token = {} THEN "auth.malformed_header"
              ELSE Verdict(at, CHOOSE t \in token : TRUE)
  IN  /\ at # 0
      /\ verdict' = said
      /\ identity' = IF said # "ok" THEN identity
                    ELSE [slots |-> [identity.slots EXCEPT ![role] = token],
                          stash |-> Stashed(identity.stash, role, CHOOSE t \in token : TRUE)]
      /\ at' = IF said = "ok" /\ at < Len(Resolvers) THEN at + 1 ELSE 0
      /\ UNCHANGED <<published, issuers, inits, begun, dropped, request>>
-----------------------------------------------------------------------------
TaskStep(r, k) == Ticks(r, k) \/ Fetched(r, k) \/ Refreshes(r, k) \/ TaskCancelled(r, k)

IdNext ==
  \/ \E i \in Provider, jwks \in Jwks : Rotate(i, jwks)
  \/ \E r \in Chain : BeginInitialize(r)
  \/ \E r \in Chain : \E c \in inits[r] : InitEnds(r, c) \/ \E k \in DOMAIN c.got : InitFetched(r, c, k)
  \/ \E r \in Chain : \E k \in DOMAIN issuers[r] : TaskStep(r, k)
  \/ Drop
  \/ \E req \in Requests : Arrives(req)
  \/ Leaves
  \/ Handle

IdSpec == IdInit /\ [][IdNext]_idVars

\* The entries of a resolver that initialize() may add.
Refreshed(r) == Len(New(r)) + 1 .. Len(New(r)) + MaxInits * Len(Pending(r))

\* The ticker fires, fetches are answered or time out, and tasks are polled.
TaskFairness(r, k) == WF_idVars(k \in DOMAIN issuers[r] /\ TaskStep(r, k))

IdFairness == \A r \in Chain : \A k \in Refreshed(r) : TaskFairness(r, k)
-----------------------------------------------------------------------------
\* "Whole-store replacement" (resolver.rs 361-371, trusted_issuer.rs 83-91): the
\* keys of a JWKS issuer are exactly what its provider published at one moment
\* since the fetch they came with began, none that had been withdrawn by then.
KeysSinceFetch ==
  \A r \in Chain : \A k \in DOMAIN issuers[r] :
    LET e == Entry(r, k)
    IN  e.task = "none" \/ IsEmpty(e.keys)
          \/ \E n \in e.since..Now(e.iss) : n > 0 /\ e.keys = FromJwks(published[e.iss][n])

\* A token that names a key was verified with a key published under that name,
\* whatever refreshes and rotations ran meanwhile; one that names none with the
\* key in the configuration (trusted_issuer.rs 103-108, resolver.rs 657-700).
AcceptedWithNamedKey ==
  \A r \in Chain : \A t \in identity.slots[Resolvers[r].role] :
    IF t.kid = {}
    THEN \E k \in DOMAIN New(r) : New(r)[k].iss = t.iss /\ New(r)[k].keys.fallback = {t.key}
    ELSE t.iss \in Provider /\ \A x \in t.kid : \E n \in 1..Now(t.iss) :
           x \in DOMAIN published[t.iss][n] /\ published[t.iss][n][x] = t.key

\* Resolvers that share a request keep their tokens apart (resolver.rs 419-433,
\* 560-584): the token stashed under a role is the one its slot was filled from,
\* that of the resolver's own header if there is one; and a chain that ends
\* without a denial has filled every slot.
TokensKeptApart ==
  /\ \A r \in Chain :
       LET role == Resolvers[r].role
           header == Resolvers[r].header
       IN  /\ identity.stash[role] = identity.slots[role]
           /\ identity.slots[role] # {} /\ header \in DOMAIN request.headers
                => identity.slots[role] = {request.headers[header]}
  /\ at = 0 /\ verdict = "ok" => \A x \in Roles : identity.slots[x] # {}

\* The identity a request ends with comes from its own tokens, each verified with a
\* key of its issuer that was good.
TokensVerified == KeysSinceFetch /\ AcceptedWithNamedKey /\ TokensKeptApart

\* An outage of the provider, or an answer without a usable key, takes no key
\* away (resolver.rs 378-385, config.rs 302-310): a store once filled stays so.
OutageHarmless ==
  [][\A r \in Chain : \A k \in DOMAIN issuers[r] :
       ~IsEmpty(Entry(r, k).keys) => ~IsEmpty(issuers'[r][k].keys)]_idVars

\* "a transient IdP outage during boot recovers on its own" (resolver.rs:276), and
\* so does the lag of a rotation: once the provider rests, the store that tokens
\* are checked with holds what it publishes, duplicates of the issuer or not.
Converges ==
  \A r \in {x \in Chain : Pending(x) # << >>}, i \in Provider :
    <>[](\/ dropped \/ Current(i) = NoKeys
         \/ \A e \in Find(r, i) : e.task = "none" \/ e.keys = FromJwks(Current(i)))

\* No refresh loop outlives the resolvers (resolver.rs 250-258).
NoOrphans ==
  dropped ~> \A r \in Chain : \A k \in DOMAIN issuers[r] : Entry(r, k).task \in {"none", "stopped"}

\* The refresh loops do their work and no more: outages take no keys away, stores
\* catch up with their provider, and the loops end with the resolvers.
RefreshSettles == OutageHarmless /\ Converges /\ NoOrphans
-----------------------------------------------------------------------------
\* "After `initialize()` it's immutable for the resolver's lifetime"
\* (resolver.rs:451), of the issuer list.
ListImmutable ==
  [][\A r \in Chain : begun[r] > Cardinality(inits[r]) => Len(issuers'[r]) = Len(issuers[r])]_idVars

\* "Fall back to `payload.raw_token()` only when no header map is populated"
\* (resolver.rs:415-416).
FallsBackWithoutHeaders ==
  \A r \in Chain :
    request.headers # << >> /\ Resolvers[r].header \notin DOMAIN request.headers
      => identity.slots[Resolvers[r].role] = {}
=============================================================================
