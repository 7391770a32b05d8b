--------------------------- MODULE TokenExchange ---------------------------
(***************************************************************************)
(* The delegate steps of one request: each resolves whose credential to    *)
(* exchange, has the OAuth or the biscuit delegator mint a credential for  *)
(* the target, files it among the request's delegated tokens under the     *)
(* key later callers look it up by, and tells the policy what was granted. *)
(*                                                                         *)
(* A step is a record of the delegator, subject, actor, audience ("" for   *)
(* none), permissions (names without blanks, each its rank in their order) *)
(* and on_error; a step gives no attenuation, which only a host that       *)
(* invokes the hook itself can.  A credential is named by the role of its  *)
(* owner; a minted token is a record of whom it speaks for and who acts,   *)
(* its audience, scopes and delegator.  An optional value is a set of at   *)
(* most one.                                                               *)
(***************************************************************************)
EXTENDS Integers, Sequences, Functions

CONSTANTS
  Routes,    \* the routes: sequences of delegate steps
  Callers,   \* the sets of roles whose credentials and identity a request has
  Replies    \* the scopes an IdP may send: none, or a sequence

\* A route has a step, and a caller has credentials of the roles that are read.
ASSUME RouteAssumption ==
  /\ \A r \in Routes : r \in Seq([delegator : {"oauth", "biscuit", "missing"}, subject : STRING, actor : STRING,
                                   audience : STRING, permissions : Seq(Nat), on_error : {"deny", "continue"}])
                        /\ r # << >>
  /\ \A c \in Callers : c \subseteq {"user", "client", "caller_workload"}
  /\ \A scope \in Replies : scope \subseteq Seq(Nat)

VARIABLES
  steps,     \* the steps of the route
  caller,    \* the roles present in the request
  at,        \* the step that runs
  leg,       \* "begin", "assertion", "exchange", "attenuate", "minted", "over"
  minted,    \* {}, or the token that the step's delegator returned
  tokens,    \* delegated_tokens
  bag,       \* the delegation.granted.* keys
  heard      \* what each step so far came to

txVars == <<steps, caller, at, leg, minted, tokens, bag, heard>>

NothingGranted == [granted |-> FALSE, permissions |-> {}, audience |-> {}]

TxInit ==
  /\ steps \in Routes /\ caller \in Callers
  /\ at = 1 /\ leg = "begin" /\ minted = {}
  /\ tokens = << >> /\ bag = NothingGranted /\ heard = << >>

step == steps[at]
-----------------------------------------------------------------------------
(* The evaluator's reading of an outcome *)

\* Fault: a step that may continue counts as granted.
GrantsAnyway(outcome) ==
  IF outcome = "allow" \/ step.on_error = "continue" THEN [bag EXCEPT !.granted = TRUE] ELSE bag

\* An allow, with a token, or without one where the delegator was lost ("skipped").
Allowed(outcome) == outcome \in {"allow", "skipped"}

\* What a grant leaves in the bag; a key it has nothing to say of keeps its value.
Grants(outcome) ==
  LET scopes == UNION {Range(t.scopes) : t \in minted}
  IN  IF ~Allowed(outcome) THEN bag
      ELSE [granted |-> TRUE,
            audience |-> IF minted = {} THEN bag.audience ELSE {t.audience : t \in minted},
            permissions |-> IF scopes = {} THEN bag.permissions ELSE scopes]

\* A denial and an error alike end the request unless the step says continue.
Ends(outcome) ==
  LET goes == Allowed(outcome) \/ step.on_error = "continue"
  IN  /\ bag' = Grants(outcome)
      /\ heard' = Append(heard, outcome)
      /\ minted' = {}
      /\ IF goes /\ at < Len(steps) THEN at' = at + 1 /\ leg' = "begin" ELSE leg' = "over" /\ UNCHANGED at
      /\ UNCHANGED <<steps, caller>>

Fails(outcome) == Ends(outcome) /\ UNCHANGED tokens
-----------------------------------------------------------------------------
(* The step's credentials *)

Inbound == {"user", "client", "caller_workload"}

\* subject_from_cfg, role_from_cfg and reject_unsupported_actor_combo.
InvalidConfig ==
  \/ step.subject \notin Inbound \cup {"this_workload"}
  \/ step.actor \notin Inbound \cup {"none"}
  \/ step.actor # "none" /\ step.subject \in {"caller_workload", "this_workload"}

\* The actor whose credential the request has; without it the exchange is single-token.
Actor == IF step.actor \in caller THEN step.actor ELSE "none"

\* The checks that both delegators make first.  Only the OAuth delegator can act as
\* itself.
BadRequest ==
  \/ step.subject \notin caller /\ ~(step.subject = "this_workload" /\ step.delegator = "oauth")
  \/ step.audience = ""

Goes(l) == leg' = l /\ UNCHANGED <<steps, caller, at, minted, tokens, bag, heard>>

Delegate ==
  /\ leg = "begin"
  /\ \/ step.delegator = "missing" /\ Fails("error")
     \/ step.delegator # "missing" /\ InvalidConfig /\ Fails("error")
     \/ /\ step.delegator # "missing" /\ ~InvalidConfig
        /\ IF BadRequest THEN Fails("deny")
           ELSE Goes(IF step.delegator = "biscuit" THEN "attenuate"
                     ELSE IF step.subject = "caller_workload" THEN "assertion" ELSE "exchange")

\* The handler times out or fails, or is disabled, and its plugin's own on_error decides: fail
\* denies; ignore and disable allow with the payload as it was sent, which has no token.
PluginLost ==
  /\ \/ leg \in {"assertion", "exchange", "attenuate"}
     \/ leg = "begin" /\ step.delegator # "missing" /\ ~InvalidConfig
  /\ Fails("deny") \/ Fails("skipped")
-----------------------------------------------------------------------------
(* The OAuth delegator *)

\* The IdP times out, cannot be reached, refuses, or sends what is no token.
IdpFails ==
  /\ leg \in {"assertion", "exchange"}
  /\ Fails("deny")

\* Leg 1 of a workload's delegation: its SVID authenticates it as a client.
MintBaseToken == leg = "assertion" /\ Goes("exchange")

\* What the IdP granted wins over what was asked.
EffectiveScopes(scope) == IF scope = {} THEN step.permissions ELSE CHOOSE x \in scope : TRUE

Missing(scope) == UNION {Range(step.permissions) \ Range(x) : x \in scope}

\* The IdP mints for the owner of the credential it is shown, and may drop the actor.
Exchange(scope, act) ==
  /\ leg = "exchange" /\ act \in {Actor, "none"}
  /\ IF Missing(scope) # {} THEN Fails("deny")
     ELSE /\ minted' = {[sub |-> step.subject, act |-> act, audience |-> step.audience,
                         scopes |-> EffectiveScopes(scope), by |-> "oauth"]}
          /\ leg' = "minted"
          /\ UNCHANGED <<steps, caller, at, tokens, bag, heard>>
-----------------------------------------------------------------------------
(* The biscuit delegator: verifies the inbound biscuit and appends a block *)

BiscuitInvalid == leg = "attenuate" /\ Fails("deny")

Attenuate ==
  /\ leg = "attenuate"
  /\ minted' = {[sub |-> step.subject, act |-> "none", audience |-> step.audience,
                 scopes |-> step.permissions, by |-> "biscuit"]}
  /\ leg' = "minted"
  /\ UNCHANGED <<steps, caller, at, tokens, bag, heard>>
-----------------------------------------------------------------------------
(* Filing the token: apply_to_extensions *)

\* involves_workload, involves_client.
Involves(role) == step.subject = role \/ Actor = role

IdOf(role) == IF role \in caller THEN role ELSE ""

DefaultMode == CASE step.subject = "user" -> "on_behalf_of_user"
                 [] step.subject = "client" -> "as_client"
                 [] step.subject = "caller_workload" -> "as_caller_workload"
                 [] step.subject = "this_workload" -> "as_this_workload"

\* The biscuit delegator's mode is fixed.
Mode == IF step.delegator = "biscuit" THEN "on_behalf_of_user" ELSE DefaultMode

\* Fault: only the subject takes part.
KeyOfSubject(token) ==
  [subject_id |-> IdOf("user"),
   workload_id |-> IF step.subject = "caller_workload" THEN IdOf("caller_workload") ELSE "",
   client_id |-> IF step.subject = "client" THEN IdOf("client") ELSE "",
   audience |-> token.audience, scopes |-> token.scopes, mode |-> Mode]

DelegationKey(token) ==
  [subject_id |-> IdOf("user"),
   workload_id |-> IF Involves("caller_workload") THEN IdOf("caller_workload") ELSE "",
   client_id |-> IF Involves("client") THEN IdOf("client") ELSE "",
   audience |-> token.audience, scopes |-> token.scopes, mode |-> Mode]

ApplyToExtensions ==
  /\ leg = "minted"
  /\ \E t \in minted : tokens' = [k \in DOMAIN tokens \cup {DelegationKey(t)} |->
                                     IF k = DelegationKey(t) THEN t ELSE tokens[k]]
  /\ Ends("allow")

TxNext ==
  \/ Delegate \/ PluginLost \/ IdpFails \/ MintBaseToken \/ BiscuitInvalid \/ Attenuate \/ ApplyToExtensions
  \/ \E scope \in Replies, act \in Inbound \cup {"none"} : Exchange(scope, act)

\* The request is over; its policy goes on elsewhere.
Done == leg = "over" /\ UNCHANGED txVars

TxSpec == TxInit /\ [][TxNext \/ Done]_txVars
-----------------------------------------------------------------------------
(* The credential that the Python host sends with the identity_resolve and *)
(* token_delegate hooks to a plugin that declared the capability: one of   *)
(* the request's inbound tokens, or one of the filed ones.  Where no token *)
(* will do there is none to choose, and the host refuses to dispatch.      *)

\* The user's token before the client's before the workload's.
BuildInbound ==
  LET rank == [user |-> 1, client |-> 2, caller_workload |-> 3]
  IN  {r \in caller : \A q \in caller : rank[r] <= rank[q]}

ModeRank(mode) == CASE mode = "on_behalf_of_user" -> 0
                    [] mode = "as_this_workload" -> 1
                    [] OTHER -> 2

\* Vec<String>'s order, of scopes named by their rank.
ScopesLess(s, t) ==
  \E i \in 1..Len(t) :
    /\ i > Len(s) \/ s[i] < t[i]
    /\ \A j \in 1..(i - 1) : j <= Len(s) /\ s[j] = t[j]

\* The subject_id, which the order also compares, is the same in all keys of a request.
SortsBefore(k, l) ==
  \/ ModeRank(k.mode) < ModeRank(l.mode)
  \/ ModeRank(k.mode) = ModeRank(l.mode) /\ ScopesLess(k.scopes, l.scopes)

\* The keys of the tokens for the requested audience, of all when none is requested.
CandidateKeys(audience) == {k \in DOMAIN tokens : \A a \in audience : k.audience = a /\ tokens[k].audience = a}

\* The tokens that may come first: the map's order decides among equals.
BuildDelegated(audience) ==
  LET keys == CandidateKeys(audience)
  IN  {tokens[k] : k \in {k \in keys : \A l \in keys : ~SortsBefore(l, k)}}
-----------------------------------------------------------------------------
(* Properties *)

Principals(k) == {k.subject_id, k.workload_id, k.client_id}

\* A token of the OAuth delegator is filed under the principal it speaks for: the
\* mode is that of its subject, and its subject and its actor are named in the key,
\* so that another principal's request cannot find it (apply_to_extensions).
FiledUnderPrincipal ==
  \A k \in DOMAIN tokens :
    LET t == tokens[k]
    IN  t.by = "oauth" =>
          /\ k.mode = "on_behalf_of_user" <=> t.sub = "user"
          /\ k.mode = "as_this_workload" <=> t.sub = "this_workload"
          /\ {t.sub, t.act} \ {"this_workload", "none"} \subseteq Principals(k)

\* A token filed over another of the same delegator speaks for the same principal,
\* to the same audience and with the same scopes; none is lost (DelegationKey).
ReplacedByLike ==
  [][\A k \in DOMAIN tokens :
       /\ k \in DOMAIN tokens'
       /\ tokens[k].by = "oauth" /\ tokens'[k].by = "oauth"
            => /\ tokens'[k].sub = tokens[k].sub
               /\ tokens'[k].audience = tokens[k].audience
               /\ tokens'[k].scopes = tokens[k].scopes]_txVars

\* What a step was granted is what it needs: a step that comes to allow has left a
\* token for its audience with every required permission, even if later steps
\* filed theirs under its key (handle, apply_to_extensions).
GrantSuffices ==
  \A i \in 1..Len(heard) :
    heard[i] = "allow" =>
      \E k \in DOMAIN tokens :
        /\ tokens[k].audience = steps[i].audience
        /\ Range(steps[i].permissions) \subseteq Range(tokens[k].scopes)

\* The policy reads of a grant what the request holds: the audience is that of a
\* token it has, and so are the permissions.  Without an audience the flag alone is set
\* only where a delegator was lost and its plugin's on_error let the step pass
\* (Effect::Delegate).
GrantedIsHeld ==
  /\ bag.granted => bag.audience # {} \/ "skipped" \in Range(heard)
  /\ \A a \in bag.audience : \E k \in DOMAIN tokens : tokens[k].audience = a
  /\ bag.permissions # {} => \E k \in DOMAIN tokens : Range(tokens[k].scopes) = bag.permissions

\* A token that a step or the policy counts on is one that the request holds.
GrantsHonest == GrantSuffices /\ GrantedIsHeld

\* "set to `true` after a successful `delegate(...)` step" (step.rs 927-928): not so
\* where a delegator is lost under on_error ignore or disable; the step allows without a token.
GrantedHasToken == bag.granted => DOMAIN tokens # {}

\* "Absent (i.e. evaluates to false) when no delegate step has run OR when the
\* most recent one denied" (step.rs 930-932).
GrantedIsLatest == bag.granted => Allowed(heard[Len(heard)])

\* "A cache key has to carry everything that makes two token requests different"
\* (raw_credentials.rs 284-287): filing a token keeps every token with another
\* subject or actor.
KeyTellsApart ==
  [][\A k \in DOMAIN tokens : <<tokens'[k].sub, tokens'[k].act>> = <<tokens[k].sub, tokens[k].act>>]_txVars

\* "The delegation mode is derived from `subject` by the handler"
\* (delegation_invoker.rs 122-125).
ModeOfSubject ==
  \A k \in DOMAIN tokens : k.mode = "on_behalf_of_user" => tokens[k].sub = "user"

Audiences == {{}} \cup {{s.audience} : s \in Range(steps)}

\* A plugin is sent a token for the audience its hook was invoked for, and one that
\* speaks for another than the user only where the user has none: neither the
\* delegate steps before it nor the order of the map can make the host send
\* another upstream's token (build_delegated, build_inbound).
RightCredential ==
  /\ \A a \in Audiences : \A t \in BuildDelegated(a) :
       /\ a \subseteq {t.audience}
       /\ t.by = "oauth" /\ t.sub # "user"
            => \A k \in DOMAIN tokens : a \subseteq {k.audience} => tokens[k].sub # "user"
  /\ "user" \in caller => BuildInbound = {"user"}

\* A delegated token is filed under, and handed out to, those it was minted for.
TokensOfPrincipal == FiledUnderPrincipal /\ RightCredential

\* "Arbitrary but stable, so the same request picks the same token every time"
\* (credentials.rs 348-350).
StablePick == \A a \in Audiences : \A t, u \in BuildDelegated(a) : t = u
=============================================================================
