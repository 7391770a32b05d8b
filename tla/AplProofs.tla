----------------------------- MODULE AplProofs -----------------------------
(***************************************************************************)
(* Delegated tokens, dispatch plans and decision points.                   *)
(*                                                                         *)
(* For any routes, callers and replies of the identity providers, a token  *)
(* of the OAuth delegator is filed under the principals it speaks for and  *)
(* is only ever replaced by its like, every step that came to allow still  *)
(* holds a token that suffices, what the policy hears of a grant is held,  *)
(* but for the flag of a skipped delegator, and a Python plugin is sent a  *)
(* token for the right audience and principal.                             *)
(*                                                                         *)
(* For any mutators, callers, plugins and handlers, the instances of a     *)
(* plan are as fresh as the snapshots its caller may see.  For any         *)
(* clients, resolvers and texts, a decision is one that its engine gave    *)
(* for the same question.                                                  *)
(***************************************************************************)
EXTENDS TokenExchange, DispatchCache, DecisionPoints, TLAPS

Busy == {"assertion", "exchange", "attenuate", "minted"}

\* A step that got past the checks.
Checked == leg \in Busy => step.delegator # "missing" /\ ~InvalidConfig /\ ~BadRequest

\* The legs of each delegator.
LegOf ==
  /\ leg \in {"assertion", "exchange"} => step.delegator = "oauth"
  /\ leg = "attenuate" => step.delegator = "biscuit"

\* What is known of a token that is not filed yet.
MintInv ==
  \A t \in minted :
    /\ leg = "minted"
    /\ t.by = step.delegator /\ t.sub = step.subject /\ t.act \in {Actor, "none"}
    /\ t.audience = step.audience /\ Range(step.permissions) \subseteq Range(t.scopes)

\* At most one token waits to be filed.
OneMinted == minted = {} \/ \E t : minted = {t}

ModeOf(sub) == IF sub = "user" THEN "on_behalf_of_user"
               ELSE IF sub = "client" THEN "as_client"
               ELSE IF sub = "caller_workload" THEN "as_caller_workload"
               ELSE "as_this_workload"

\* A token is filed under its audience and scopes, and in the mode of its delegator.
Filed(k, t) ==
  /\ k.audience = t.audience /\ k.scopes = t.scopes
  /\ t.by \in {"oauth", "biscuit"}
  /\ t.by = "biscuit" => k.mode = "on_behalf_of_user"
  /\ t.by = "oauth" => t.sub \in Inbound \cup {"this_workload"} /\ k.mode = ModeOf(t.sub)

KeyInv == \A k \in DOMAIN tokens : Filed(k, tokens[k])

Place ==
  /\ steps \in Routes /\ caller \in Callers
  /\ at \in 1..Len(steps)
  /\ leg \in Busy \cup {"begin", "over"}
  /\ Len(heard) = IF leg = "over" THEN at ELSE at - 1
  /\ heard \in Seq({"allow", "skipped", "deny", "error"})

TxInv ==
  /\ Place /\ Checked /\ LegOf /\ MintInv /\ OneMinted /\ KeyInv
  /\ FiledUnderPrincipal /\ GrantSuffices /\ GrantedIsHeld
-----------------------------------------------------------------------------
\* The request begins with the first step, and holds no token.
LEMMA Initially == TxInit => TxInv
<1> SUFFICES ASSUME TxInit PROVE TxInv
  BY Zenon
<1>1. steps \in Seq([delegator : {"oauth", "biscuit", "missing"}, subject : STRING, actor : STRING,
                     audience : STRING, permissions : Seq(Nat), on_error : {"deny", "continue"}])
      /\ steps # << >>
  BY Zenon, RouteAssumption DEF TxInit
<1>2. Place
  BY <1>1 DEF TxInit, Place, Busy
<1> QED
  BY <1>2 DEF TxInit, TxInv, Checked, LegOf, MintInv, OneMinted, KeyInv, FiledUnderPrincipal, GrantSuffices,
              GrantedIsHeld, NothingGranted, Busy

\* A step of the route is a step.
LEMMA StepType ==
  ASSUME Place
  PROVE  step.delegator \in {"oauth", "biscuit", "missing"}
<1> DEFINE S == [delegator : {"oauth", "biscuit", "missing"}, subject : STRING, actor : STRING,
                 audience : STRING, permissions : Seq(Nat), on_error : {"deny", "continue"}]
<1>1. steps \in Seq(S)
  BY Zenon, RouteAssumption DEF Place
<1>2. at \in 1..Len(steps)
  BY Zenon DEF Place
<1>3. \A s \in S : s.delegator \in {"oauth", "biscuit", "missing"}
  BY Zenon
<1> HIDE DEF S
<1>4. step \in S
  BY <1>1, <1>2 DEF step
<1> QED
  BY Zenon, <1>3, <1>4

\* A step that ends leaves the request at the next one or over (Effect::Delegate).
LEMMA EndsPlaces ==
  ASSUME Place, leg # "over", NEW o \in {"allow", "skipped", "deny", "error"}, Ends(o)
  PROVE  /\ Place' /\ Checked' /\ LegOf' /\ MintInv' /\ OneMinted'
         /\ steps' = steps /\ Len(heard') = at /\ heard'[at] = o
         /\ \A i \in 1..(at - 1) : heard'[i] = heard[i]
<1>1. /\ steps' = steps /\ caller' = caller /\ heard' = Append(heard, o) /\ minted' = {}
      /\ leg' \in {"begin", "over"}
      /\ \/ leg' = "begin" /\ at < Len(steps) /\ at' = at + 1
         \/ leg' = "over" /\ at' = at
  BY Zenon DEF Ends
<1>2. Len(heard) = at - 1 /\ heard \in Seq({"allow", "skipped", "deny", "error"}) /\ at \in Nat /\ Len(steps) \in Nat
  BY RouteAssumption DEF Place
<1>3. /\ Len(heard') = at /\ heard'[at] = o /\ heard' \in Seq({"allow", "skipped", "deny", "error"})
      /\ \A i \in 1..(at - 1) : heard'[i] = heard[i]
  BY <1>1, <1>2
<1>4. Place'
  BY <1>1, <1>2, <1>3 DEF Place, Busy
<1> QED
  BY Zenon, <1>1, <1>3, <1>4 DEF Checked, LegOf, MintInv, OneMinted, Busy

\* A step that fails files nothing.
LEMMA FailsKeeps ==
  ASSUME TxInv, leg \notin {"over", "minted"}, NEW o \in {"skipped", "deny", "error"}, Fails(o)
  PROVE  TxInv'
<1>1. Ends(o) /\ tokens' = tokens
  BY Zenon DEF Fails
<1>2. /\ Place' /\ Checked' /\ LegOf' /\ MintInv' /\ OneMinted'
      /\ steps' = steps /\ Len(heard') = at /\ heard'[at] = o
      /\ \A i \in 1..(at - 1) : heard'[i] = heard[i]
  BY Zenon, <1>1, EndsPlaces DEF TxInv
<1>3. KeyInv' /\ FiledUnderPrincipal'
  BY <1>1 DEF TxInv, KeyInv, Filed, ModeOf, FiledUnderPrincipal, Principals
<1>5. GrantedIsHeld'
  <2>1. minted = {}
    BY Zenon DEF TxInv, MintInv
  <2>2. /\ bag'.audience = bag.audience /\ bag'.permissions = bag.permissions
        /\ bag'.granted => bag.granted \/ o = "skipped"
    <3>1. UNION {Range(u.scopes) : u \in minted} = {}
      BY Zenon, <2>1
    <3> QED
      BY Zenon, <1>1, <2>1, <3>1 DEF Ends, Grants, Allowed
  <2>3. heard' = Append(heard, o) /\ heard \in Seq({"allow", "skipped", "deny", "error"})
    BY Zenon, <1>1 DEF TxInv, Place, Ends
  <2>4. Range(heard) \subseteq Range(heard') /\ o \in Range(heard')
    BY <2>3 DEF Range
  <2> QED
    BY Zenon, <1>1, <2>2, <2>4 DEF TxInv, GrantedIsHeld
<1>4. GrantSuffices'
  <2>1. Len(heard) = at - 1 /\ at \in Nat
    BY RouteAssumption DEF TxInv, Place
  <2> SUFFICES ASSUME NEW i \in 1..Len(heard'), heard'[i] = "allow"
               PROVE  \E k \in DOMAIN tokens' :
                        /\ tokens'[k].audience = steps'[i].audience
                        /\ Range(steps'[i].permissions) \subseteq Range(tokens'[k].scopes)
    BY Zenon DEF GrantSuffices
  <2>2. i \in 1..Len(heard) /\ heard[i] = "allow"
    BY <1>2, <2>1
  <2> QED
    BY Zenon, <1>1, <1>2, <2>2 DEF TxInv, GrantSuffices
<1> QED
  BY Zenon, <1>2, <1>3, <1>4, <1>5 DEF TxInv

\* The key of a token just minted names the principals it speaks for
\* (apply_to_extensions, default_mode).
LEMMA KeyOfMinted ==
  ASSUME TxInv, NEW t \in minted
  PROVE  LET k == DelegationKey(t)
         IN  /\ Filed(k, t)
             /\ t.by = "oauth" =>
                  /\ k.mode = "on_behalf_of_user" <=> t.sub = "user"
                  /\ k.mode = "as_this_workload" <=> t.sub = "this_workload"
                  /\ {t.sub, t.act} \ {"this_workload", "none"} \subseteq Principals(k)
<1> DEFINE k == DelegationKey(t)
<1>1. k.audience = t.audience /\ k.scopes = t.scopes /\ k.mode = Mode
  BY Zenon DEF DelegationKey
<1>2. ASSUME t.by = "oauth"
      PROVE  /\ k.mode = "on_behalf_of_user" <=> t.sub = "user"
             /\ k.mode = "as_this_workload" <=> t.sub = "this_workload"
             /\ {t.sub, t.act} \ {"this_workload", "none"} \subseteq Principals(k)
  <2>1. /\ step.delegator = "oauth" /\ t.sub = step.subject /\ t.act \in {Actor, "none"}
        /\ leg = "minted" /\ ~InvalidConfig /\ ~BadRequest
    BY Zenon, <1>2 DEF TxInv, MintInv, Checked, Busy
  <2>2. /\ step.subject \in {"user", "client", "caller_workload", "this_workload"}
        /\ step.subject \in {"user", "client", "caller_workload"} => step.subject \in caller
    BY Zenon, <2>1 DEF InvalidConfig, BadRequest, Inbound
  <2>3. Mode = IF step.subject = "user" THEN "on_behalf_of_user"
               ELSE IF step.subject = "client" THEN "as_client"
               ELSE IF step.subject = "caller_workload" THEN "as_caller_workload"
               ELSE "as_this_workload"
    BY Zenon, <2>1, <2>2 DEF Mode, DefaultMode
  <2>4. Actor \in {"user", "client", "caller_workload", "none"} /\ (Actor # "none" => Actor \in caller)
    BY Zenon, <2>1 DEF Actor, InvalidConfig, Inbound
  <2>5. /\ step.subject # "this_workload" => step.subject \in Principals(k)
        /\ Actor # "none" => Actor \in Principals(k)
    BY Zenon, <2>2, <2>4 DEF Principals, DelegationKey, Involves, IdOf
  <2> QED
    BY Zenon, <1>1, <2>1, <2>2, <2>3, <2>5
<1>3. Filed(k, t)
  <2>1. /\ t.by = step.delegator /\ t.sub = step.subject /\ step.delegator # "missing" /\ ~InvalidConfig
    BY Zenon DEF TxInv, MintInv, Checked, Busy
  <2>2. t.by \in {"oauth", "biscuit"}
    BY Zenon, <2>1, StepType DEF TxInv
  <2>3. t.sub \in Inbound \cup {"this_workload"}
    BY Zenon, <2>1 DEF InvalidConfig
  <2>4. t.by = "oauth" => Mode = ModeOf(t.sub)
    BY Zenon, <2>1, <2>3 DEF Mode, DefaultMode, ModeOf, Inbound
  <2>5. t.by = "biscuit" => Mode = "on_behalf_of_user"
    BY Zenon, <2>1 DEF Mode
  <2> QED
    BY Zenon, <1>1, <2>2, <2>3, <2>4, <2>5 DEF Filed
<1> QED
  BY Zenon, <1>1, <1>2, <1>3

\* Filing a token keeps all that is known of the others, also of one it replaces.
LEMMA FilingKeeps ==
  ASSUME TxInv, ApplyToExtensions
  PROVE  TxInv'
<1>1. PICK t \in minted : tokens' = [k \in DOMAIN tokens \cup {DelegationKey(t)} |->
                                       IF k = DelegationKey(t) THEN t ELSE tokens[k]]
  BY Zenon DEF ApplyToExtensions
<1>2. leg = "minted" /\ Ends("allow")
  BY Zenon DEF ApplyToExtensions
<1>3. /\ Place' /\ Checked' /\ LegOf' /\ MintInv' /\ OneMinted'
      /\ steps' = steps /\ Len(heard') = at /\ heard'[at] = "allow"
      /\ \A i \in 1..(at - 1) : heard'[i] = heard[i]
  BY Zenon, <1>2, EndsPlaces DEF TxInv
<1> DEFINE new == DelegationKey(t)
<1>4. /\ Filed(new, t)
      /\ t.by = "oauth" =>
           /\ new.mode = "on_behalf_of_user" <=> t.sub = "user"
           /\ new.mode = "as_this_workload" <=> t.sub = "this_workload"
           /\ {t.sub, t.act} \ {"this_workload", "none"} \subseteq Principals(new)
  BY Zenon, KeyOfMinted
<1>5. /\ DOMAIN tokens' = DOMAIN tokens \cup {new} /\ tokens'[new] = t
      /\ \A k \in DOMAIN tokens : k # new => tokens'[k] = tokens[k]
  BY Zenon, <1>1
<1> HIDE DEF new
<1>6. KeyInv'
  <2> SUFFICES ASSUME NEW k \in DOMAIN tokens' PROVE Filed(k, tokens'[k])
    BY Zenon DEF KeyInv, Filed, ModeOf
  <2>1. CASE k = new
    BY Zenon, <1>4, <1>5, <2>1
  <2>2. CASE k # new
    BY Zenon, <1>5, <2>2 DEF TxInv, KeyInv
  <2> QED
    BY Zenon, <2>1, <2>2
<1>7. FiledUnderPrincipal'
  BY SMTT(30), <1>4, <1>5 DEF TxInv, FiledUnderPrincipal, Principals
<1>8. GrantSuffices'
  <2>1. Len(heard) = at - 1 /\ at \in Nat /\ at >= 1
    <3>1. Len(steps) \in Nat
      BY RouteAssumption DEF TxInv, Place
    <3> QED
      BY <1>2, <3>1 DEF TxInv, Place
  <2> SUFFICES ASSUME NEW i \in 1..Len(heard'), heard'[i] = "allow"
               PROVE  \E k \in DOMAIN tokens' :
                        /\ tokens'[k].audience = steps'[i].audience
                        /\ Range(steps'[i].permissions) \subseteq Range(tokens'[k].scopes)
    BY Zenon DEF GrantSuffices
  <2>2. CASE i = at
    <3>1. t.audience = steps[at].audience /\ Range(steps[at].permissions) \subseteq Range(t.scopes)
      BY Zenon DEF TxInv, MintInv, step
    <3> QED
      BY Zenon, <1>3, <1>5, <2>2, <3>1
  <2>3. CASE i # at
    <3>1. i \in 1..Len(heard) /\ heard[i] = "allow"
      BY <1>3, <2>1, <2>3
    <3>2. PICK k \in DOMAIN tokens : /\ tokens[k].audience = steps[i].audience
                                     /\ Range(steps[i].permissions) \subseteq Range(tokens[k].scopes)
      BY Zenon, <3>1 DEF TxInv, GrantSuffices
    <3>3. k.audience = tokens[k].audience /\ k.scopes = tokens[k].scopes
      BY Zenon DEF TxInv, KeyInv, Filed
    <3>4. tokens'[k].audience = tokens[k].audience /\ tokens'[k].scopes = tokens[k].scopes
      BY Zenon, <1>4, <1>5, <3>3 DEF Filed
    <3> QED
      BY Zenon, <1>3, <1>5, <3>2, <3>4
  <2> QED
    BY Zenon, <2>2, <2>3
<1>9. GrantedIsHeld'
  <2>1. minted = {t}
    BY Zenon DEF TxInv, OneMinted
  <2>2. /\ bag'.granted /\ bag'.audience = {t.audience}
        /\ bag'.permissions = IF Range(t.scopes) = {} THEN bag.permissions ELSE Range(t.scopes)
    <3>1. UNION {Range(u.scopes) : u \in minted} = Range(t.scopes) /\ {u.audience : u \in minted} = {t.audience}
      BY Zenon, <2>1
    <3> QED
      BY Zenon, <1>2, <2>1, <3>1 DEF Ends, Grants, Allowed
  <2>3. \A k \in DOMAIN tokens : tokens'[k].scopes = tokens[k].scopes
    BY Zenon, <1>4, <1>5 DEF TxInv, KeyInv, Filed
  <2>4. bag'.permissions # {} => \E k \in DOMAIN tokens' : Range(tokens'[k].scopes) = bag'.permissions
    <3>1. CASE Range(t.scopes) = {}
      BY Zenon, <1>5, <2>2, <2>3, <3>1 DEF TxInv, GrantedIsHeld
    <3>2. CASE Range(t.scopes) # {}
      BY Zenon, <1>5, <2>2, <3>2
    <3> QED
      BY Zenon, <3>1, <3>2
  <2> QED
    BY Zenon, <1>5, <2>2, <2>4 DEF GrantedIsHeld
<1> QED
  BY Zenon, <1>3, <1>6, <1>7, <1>8, <1>9 DEF TxInv

\* A step that leaves the tokens, the bag and the answers alone.
LEMMA FilesNothing ==
  ASSUME TxInv, UNCHANGED <<steps, tokens, bag, heard>>
  PROVE  KeyInv' /\ FiledUnderPrincipal' /\ GrantSuffices' /\ GrantedIsHeld'
<1>1. KeyInv'
  BY Zenon DEF TxInv, KeyInv, Filed, ModeOf
<1>2. FiledUnderPrincipal'
  BY Zenon DEF TxInv, FiledUnderPrincipal, Principals
<1>3. GrantSuffices'
  BY Zenon DEF TxInv, GrantSuffices
<1>4. GrantedIsHeld'
  BY Zenon DEF TxInv, GrantedIsHeld
<1> QED
  BY Zenon, <1>1, <1>2, <1>3, <1>4

\* A step that goes on to another leg files nothing and passed the checks.
LEMMA GoesKeeps ==
  ASSUME TxInv, leg # "over", NEW l \in {"assertion", "exchange", "attenuate"}, Goes(l),
         step.delegator # "missing", ~InvalidConfig, ~BadRequest, leg # "minted",
         l = "attenuate" <=> step.delegator = "biscuit"
  PROVE  TxInv'
<1>1. /\ leg' = l /\ steps' = steps /\ caller' = caller /\ at' = at /\ minted' = minted
      /\ tokens' = tokens /\ bag' = bag /\ heard' = heard
  BY Zenon DEF Goes
<1>2. minted = {}
  BY Zenon DEF TxInv, MintInv
<1>3. step' = step
  BY Zenon, <1>1 DEF step
<1>4. Place'
  BY Zenon, <1>1 DEF TxInv, Place, Busy
<1>5. Checked'
  BY Zenon, <1>1, <1>3 DEF Checked, InvalidConfig, BadRequest
<1>6. LegOf'
  BY Zenon, <1>1, <1>3, StepType DEF TxInv, LegOf
<1>7. MintInv' /\ OneMinted' /\ KeyInv' /\ FiledUnderPrincipal' /\ GrantSuffices' /\ GrantedIsHeld'
  BY Zenon, <1>1, <1>2, FilesNothing DEF MintInv, OneMinted
<1> QED
  BY Zenon, <1>4, <1>5, <1>6, <1>7 DEF TxInv

\* A delegator that mints has a token with what the step requires (handle).
LEMMA MintsKeeps ==
  ASSUME TxInv, leg \in {"exchange", "attenuate"}, leg' = "minted",
         NEW t, minted' = {t}, t.by = step.delegator, t.sub = step.subject, t.act \in {Actor, "none"},
         t.audience = step.audience, Range(step.permissions) \subseteq Range(t.scopes),
         UNCHANGED <<steps, caller, at, tokens, bag, heard>>
  PROVE  TxInv'
<1>1. step' = step /\ Actor' = Actor
  BY Zenon DEF step, Actor
<1>2. Place'
  BY Zenon DEF TxInv, Place, Busy
<1>3. Checked' /\ LegOf'
  BY Zenon, <1>1 DEF TxInv, Checked, LegOf, InvalidConfig, BadRequest, Busy
<1>4. MintInv' /\ OneMinted'
  BY Zenon, <1>1 DEF MintInv, OneMinted
<1>5. KeyInv' /\ FiledUnderPrincipal' /\ GrantSuffices' /\ GrantedIsHeld'
  BY Zenon, FilesNothing
<1> QED
  BY Zenon, <1>2, <1>3, <1>4, <1>5 DEF TxInv

\* What the IdP's answer leaves, if nothing is missing, covers what is required.
LEMMA ScopesSuffice ==
  ASSUME Place, NEW scope \in Replies, Missing(scope) = {}
  PROVE  Range(step.permissions) \subseteq Range(EffectiveScopes(scope))
<1>1. CASE scope = {}
  BY Zenon, <1>1 DEF EffectiveScopes
<1>2. CASE scope # {}
  <2>1. EffectiveScopes(scope) \in scope
    BY Zenon, <1>2 DEF EffectiveScopes
  <2> QED
    BY <2>1 DEF Missing
<1> QED
  BY Zenon, <1>1, <1>2

\* Every step of the delegation keeps the invariant.
LEMMA NextKeeps == TxInv /\ [TxNext \/ Done]_txVars => TxInv'
<1> SUFFICES ASSUME TxInv, [TxNext \/ Done]_txVars PROVE TxInv'
  BY Zenon
<1>1. CASE Delegate
  <2>1. leg = "begin"
    BY Zenon, <1>1 DEF Delegate
  <2>2. CASE Fails("error") \/ Fails("deny")
    BY Zenon, <2>1, <2>2, FailsKeeps
  <2>3. CASE ~(Fails("error") \/ Fails("deny"))
    <3>1. /\ step.delegator # "missing" /\ ~InvalidConfig /\ ~BadRequest
          /\ Goes(IF step.delegator = "biscuit" THEN "attenuate"
                  ELSE IF step.subject = "caller_workload" THEN "assertion" ELSE "exchange")
      BY Zenon, <1>1, <2>3 DEF Delegate
    <3>2. CASE step.delegator = "biscuit"
      BY Zenon, <2>1, <3>1, <3>2, GoesKeeps
    <3>3. CASE step.delegator # "biscuit" /\ step.subject = "caller_workload"
      BY Zenon, <2>1, <3>1, <3>3, GoesKeeps
    <3>4. CASE step.delegator # "biscuit" /\ step.subject # "caller_workload"
      BY Zenon, <2>1, <3>1, <3>4, GoesKeeps
    <3> QED
      BY Zenon, <3>2, <3>3, <3>4
  <2> QED
    BY Zenon, <2>2, <2>3
<1>2. CASE PluginLost
  BY Zenon, <1>2, FailsKeeps DEF PluginLost
<1>3. CASE IdpFails
  BY Zenon, <1>3, FailsKeeps DEF IdpFails
<1>4. CASE MintBaseToken
  <2>1. leg = "assertion" /\ Goes("exchange")
    BY Zenon, <1>4 DEF MintBaseToken
  <2>2. step.delegator = "oauth" /\ ~InvalidConfig /\ ~BadRequest
    BY Zenon, <2>1 DEF TxInv, LegOf, Checked, Busy
  <2> QED
    BY Zenon, <2>1, <2>2, GoesKeeps
<1>5. CASE BiscuitInvalid
  BY Zenon, <1>5, FailsKeeps DEF BiscuitInvalid
<1>6. CASE Attenuate
  <2> DEFINE t == [sub |-> step.subject, act |-> "none", audience |-> step.audience,
                   scopes |-> step.permissions, by |-> "biscuit"]
  <2>1. /\ leg = "attenuate" /\ leg' = "minted" /\ minted' = {t}
        /\ UNCHANGED <<steps, caller, at, tokens, bag, heard>>
    BY Zenon, <1>6 DEF Attenuate
  <2>2. step.delegator = "biscuit"
    BY Zenon, <2>1 DEF TxInv, LegOf
  <2>3. /\ t.by = step.delegator /\ t.sub = step.subject /\ t.act \in {Actor, "none"}
        /\ t.audience = step.audience /\ Range(step.permissions) \subseteq Range(t.scopes)
    BY Zenon, <2>2
  <2> HIDE DEF t
  <2> QED
    BY Zenon, <2>1, <2>3, MintsKeeps
<1>7. CASE \E scope \in Replies, act \in Inbound \cup {"none"} : Exchange(scope, act)
  <2>1. PICK scope \in Replies, act \in Inbound \cup {"none"} : Exchange(scope, act)
    BY Zenon, <1>7
  <2>2. leg = "exchange" /\ act \in {Actor, "none"}
    BY Zenon, <2>1 DEF Exchange
  <2>3. CASE Missing(scope) # {}
    BY Zenon, <2>1, <2>2, <2>3, FailsKeeps DEF Exchange
  <2>4. CASE Missing(scope) = {}
    <3> DEFINE t == [sub |-> step.subject, act |-> act, audience |-> step.audience,
                     scopes |-> EffectiveScopes(scope), by |-> "oauth"]
    <3>1. /\ leg' = "minted" /\ minted' = {t}
          /\ UNCHANGED <<steps, caller, at, tokens, bag, heard>>
      BY Zenon, <2>1, <2>4 DEF Exchange
    <3>2. step.delegator = "oauth"
      BY Zenon, <2>2 DEF TxInv, LegOf
    <3>3. Range(step.permissions) \subseteq Range(EffectiveScopes(scope))
      BY Zenon, <2>4, ScopesSuffice DEF TxInv
    <3>4. /\ t.by = step.delegator /\ t.sub = step.subject /\ t.act \in {Actor, "none"}
          /\ t.audience = step.audience /\ Range(step.permissions) \subseteq Range(t.scopes)
      BY Zenon, <2>2, <3>2, <3>3
    <3> HIDE DEF t
    <3> QED
      BY Zenon, <2>2, <3>1, <3>4, MintsKeeps
  <2> QED
    BY Zenon, <2>3, <2>4
<1>8. CASE ApplyToExtensions
  BY Zenon, <1>8, FilingKeeps
<1>9. CASE UNCHANGED txVars
  <2>1. step' = step /\ Actor' = Actor
    BY Zenon, <1>9 DEF txVars, step, Actor
  <2>2. Place' /\ Checked' /\ LegOf'
    BY Zenon, <1>9, <2>1 DEF txVars, TxInv, Place, Checked, LegOf, InvalidConfig, BadRequest
  <2>3. MintInv' /\ OneMinted'
    BY Zenon, <1>9, <2>1 DEF txVars, TxInv, MintInv, OneMinted
  <2>4. KeyInv' /\ FiledUnderPrincipal' /\ GrantSuffices' /\ GrantedIsHeld'
    BY Zenon, <1>9, FilesNothing DEF txVars
  <2> QED
    BY Zenon, <2>2, <2>3, <2>4 DEF TxInv
<1> QED
  BY Zenon, <1>1, <1>2, <1>3, <1>4, <1>5, <1>6, <1>7, <1>8, <1>9 DEF TxNext, Done

\* Tokens of the OAuth delegator are filed under the principals they speak for
\* (apply_to_extensions), whatever the routes and the callers.
THEOREM TokensFiled == TxSpec => []FiledUnderPrincipal
<1>1. TxInv => FiledUnderPrincipal
  BY Zenon DEF TxInv
<1> QED
  BY Initially, NextKeeps, <1>1, PTL DEF TxSpec

\* Every step that came to allow still holds a token for its audience with all
\* required permissions (handle, apply_to_extensions).
THEOREM GrantsSuffice == TxSpec => []GrantSuffices
<1>1. TxInv => GrantSuffices
  BY Zenon DEF TxInv
<1> QED
  BY Initially, NextKeeps, <1>1, PTL DEF TxSpec

\* The policy is told of a grant only if the request holds a token with the
\* audience and the permissions it reads (Effect::Delegate).
THEOREM GrantsHeld == TxSpec => []GrantedIsHeld
<1>1. TxInv => GrantedIsHeld
  BY Zenon DEF TxInv
<1> QED
  BY Initially, NextKeeps, <1>1, PTL DEF TxSpec

\* Only filing a token changes the tokens.
LEMMA OnlyFiling ==
  ASSUME [TxNext \/ Done]_txVars
  PROVE  ApplyToExtensions \/ tokens' = tokens
BY Zenon DEF TxNext, Done, txVars, Delegate, Fails, Goes, PluginLost, IdpFails, MintBaseToken, BiscuitInvalid, Attenuate,
       Exchange

\* No token is lost, and one of the OAuth delegator is replaced only by one for the
\* same principal, audience and scopes (DelegationKey).
THEOREM ReplacedOnlyByLike == TxSpec => ReplacedByLike
<1> DEFINE A == \A k \in DOMAIN tokens :
                  /\ k \in DOMAIN tokens'
                  /\ tokens[k].by = "oauth" /\ tokens'[k].by = "oauth"
                       => /\ tokens'[k].sub = tokens[k].sub
                          /\ tokens'[k].audience = tokens[k].audience
                          /\ tokens'[k].scopes = tokens[k].scopes
<1>1. ASSUME TxInv, [TxNext \/ Done]_txVars PROVE A
  <2>1. CASE tokens' = tokens
    BY Zenon, <2>1
  <2>2. CASE ApplyToExtensions
    <3>1. TxInv'
      BY Zenon, <1>1, NextKeeps
    <3>2. DOMAIN tokens \subseteq DOMAIN tokens'
      BY Zenon, <2>2 DEF ApplyToExtensions
    <3> SUFFICES ASSUME NEW k \in DOMAIN tokens, tokens[k].by = "oauth", tokens'[k].by = "oauth"
                 PROVE  /\ tokens'[k].sub = tokens[k].sub
                        /\ tokens'[k].audience = tokens[k].audience
                        /\ tokens'[k].scopes = tokens[k].scopes
      BY Zenon, <3>2
    <3>3. Filed(k, tokens[k])
      BY Zenon, <1>1 DEF TxInv, KeyInv
    <3>4. Filed(k, tokens'[k])
      BY Zenon, <3>1, <3>2 DEF TxInv, KeyInv, Filed, ModeOf
    <3> QED
      BY Zenon, <3>3, <3>4 DEF Filed, ModeOf, Inbound
  <2> QED
    BY Zenon, <1>1, <2>1, <2>2, OnlyFiling
<1>2. TxInv /\ [TxNext \/ Done]_txVars => [A]_txVars
  BY Zenon, <1>1
<1> QED
  BY Initially, NextKeeps, <1>2, PTL DEF TxSpec, ReplacedByLike

\* A Python plugin is sent a token for the audience its hook was invoked for, and
\* another's than the user's only where the user has none (build_delegated,
\* build_inbound).
THEOREM CredentialIsRight == TxSpec => []RightCredential
<1>1. ASSUME TxInv PROVE RightCredential
  <2>1. "user" \in caller => BuildInbound = {"user"}
    <3>1. caller \subseteq {"user", "client", "caller_workload"}
      BY Zenon, <1>1, RouteAssumption DEF TxInv, Place
    <3> DEFINE rank == [user |-> 1, client |-> 2, caller_workload |-> 3]
    <3>2. rank["user"] = 1 /\ rank["client"] = 2 /\ rank["caller_workload"] = 3
      BY Zenon
    <3>3. BuildInbound = {r \in caller : \A q \in caller : rank[r] <= rank[q]}
      BY Zenon DEF BuildInbound
    <3> HIDE DEF rank
    <3>4. \A q \in caller : rank["user"] <= rank[q] /\ (rank[q] <= rank["user"] => q = "user")
      BY <3>1, <3>2
    <3>5. ASSUME "user" \in caller PROVE BuildInbound = {"user"}
      <4>1. "user" \in BuildInbound
        BY Zenon, <3>3, <3>4, <3>5
      <4>2. \A r \in BuildInbound : r = "user"
        BY Zenon, <3>3, <3>4, <3>5
      <4> QED
        BY Zenon, <4>1, <4>2
    <3> QED
      BY Zenon, <3>5
  <2>2. ASSUME NEW a \in Audiences, NEW t \in BuildDelegated(a)
        PROVE  /\ a \subseteq {t.audience}
               /\ t.by = "oauth" /\ t.sub # "user"
                    => \A k \in DOMAIN tokens : a \subseteq {k.audience} => tokens[k].sub # "user"
    <3>1. PICK k \in CandidateKeys(a) : t = tokens[k] /\ \A l \in CandidateKeys(a) : ~SortsBefore(l, k)
      BY Zenon, <2>2 DEF BuildDelegated
    <3>2. k \in DOMAIN tokens /\ \A x \in a : k.audience = x /\ t.audience = x
      BY Zenon, <3>1 DEF CandidateKeys
    <3>3. ASSUME t.by = "oauth", t.sub # "user",
                 NEW l \in DOMAIN tokens, a \subseteq {l.audience}, tokens[l].sub = "user"
          PROVE  FALSE
      <4>1. Filed(l, tokens[l]) /\ Filed(k, t)
        BY Zenon, <1>1, <3>1, <3>2 DEF TxInv, KeyInv
      <4>2. l \in CandidateKeys(a)
        BY Zenon, <3>3, <4>1 DEF CandidateKeys, Filed
      <4>3. l.mode = "on_behalf_of_user" /\ k.mode # "on_behalf_of_user"
        BY Zenon, <3>3, <4>1 DEF Filed, ModeOf
      <4>4. ModeRank(l.mode) = 0 /\ ModeRank(k.mode) \in {1, 2}
        BY Zenon, <4>3 DEF ModeRank
      <4>5. SortsBefore(l, k)
        BY SMTT(30), <4>4 DEF SortsBefore
      <4> QED
        BY Zenon, <3>1, <4>2, <4>5
    <3> QED
      BY Zenon, <3>2, <3>3
  <2> QED
    BY Zenon, <2>1, <2>2 DEF RightCredential
<1>2. TxInv => RightCredential
  BY Zenon, <1>1
<1> QED
  BY Initially, NextKeeps, <1>2, PTL DEF TxSpec

\* Tokens are filed under, and picked for, the principal they speak for
\* (apply_to_extensions, build_delegated).
THEOREM TokensRight == TxSpec => []TokensOfPrincipal
<1>1. FiledUnderPrincipal /\ RightCredential => TokensOfPrincipal
  BY Zenon DEF TokensOfPrincipal
<1> QED
  BY <1>1, TokensFiled, CredentialIsRight, PTL

\* Whoever is told of a grant can rely on a token that has it
\* (delegator.rs handle, Effect::Delegate).
THEOREM Honest == TxSpec => []GrantsHonest
<1>1. GrantSuffices /\ GrantedIsHeld => GrantsHonest
  BY Zenon DEF GrantsHonest
<1> QED
  BY <1>1, GrantsSuffice, GrantsHeld, PTL

-----------------------------------------------------------------------------
\* Does the plan hold, for each of the plugins, what one of the snapshots does?
DrawnFrom(h, plan, names, snaps) ==
  \A p \in names : \E s \in snaps : Gives(h, s, p, plan[p])

Active(b) == bpc[b] # "idle"

\* What relates the generation to the snapshots current since it was reached.
EraInv ==
  /\ runtime \in since
  /\ (\A m \in Mutator : pc[m] # "bump") => since = {runtime}
  /\ \A b \in Builder : Active(b) =>
       /\ seenGen[b] <= generation
       /\ runtime \in valid[b]
       /\ seenGen[b] = generation => valid[b] = since
  /\ \A b, c \in Builder : Active(b) /\ Active(c) /\ seenGen[b] = seenGen[c] => valid[b] = valid[c]

\* What a cached plan is drawn from: the snapshots of its generation or later.
CacheInv ==
  \A r \in Route : \A plan \in plans[r] :
    /\ plan.gen <= generation /\ KeyOf(plan.maker) = r
    /\ plan.gen = generation => DrawnFrom(plan.maker, plan.entries, Names(plan.maker), since)
    /\ \A b \in Builder : Active(b) /\ plan.gen = seenGen[b]
         => DrawnFrom(plan.maker, plan.entries, Names(plan.maker), valid[b])

\* What a caller has collected is drawn from the snapshots since its call.
BuildAt(b) ==
  /\ bpc[b] \in {"lookup", "build"} => maker[b] = handler[b]
  /\ bpc[b] = "build" => DrawnFrom(maker[b], entries[b], Names(maker[b]) \ todo[b], valid[b])
  /\ bpc[b] = "done" => /\ KeyOf(maker[b]) = KeyOf(handler[b])
                        /\ DrawnFrom(maker[b], entries[b], Names(maker[b]), valid[b])

BuildInv == \A b \in Builder : BuildAt(b)

IInv == TypeOK /\ EraInv /\ CacheInv /\ BuildInv

USE RuntimeAssumption, DispatchAssumption

\* The empty snapshot is a snapshot.
LEMMA EmptyIsSnapshot == Empty \in Snapshot
  BY DEF Empty, Snapshot

\* Every mutation of a snapshot is a snapshot, so Begin keeps the types.
LEMMA MutateTypes ==
  ASSUME NEW m \in Mutator, RuntimeTypeOK, Mutate(m)
  PROVE  /\ RuntimeTypeOK'
         /\ UNCHANGED <<runtime, generation>>
         /\ pc' = [pc EXCEPT ![m] = "store"]
         /\ pc[m] = "idle"
<1>1. made < MaxMutations => made + 1 \in 0..MaxMutations
  BY DEF RuntimeTypeOK
<1>2. ASSUME NEW copy \in Snapshot, NEW clear \in BOOLEAN, Begin(m, copy, clear),
             adds' \in [Mutator -> SUBSET Plugin], acked' \subseteq Plugin
      PROVE  /\ RuntimeTypeOK'
             /\ UNCHANGED <<runtime, generation>>
             /\ pc' = [pc EXCEPT ![m] = "store"]
             /\ pc[m] = "idle"
  BY Zenon, <1>1, <1>2 DEF RuntimeTypeOK, Begin
<1>3. CASE \E c \in Configs : LoadConfig(m, c)
  <2> PICK c \in Configs : LoadConfig(m, c)
    BY Zenon, <1>3
  <2> DEFINE copy == [plugins |-> [p \in Plugin |-> IF p \in Declared(c) THEN made + 1
                                                    ELSE runtime.plugins[p]],
                      config |-> {c}, annotated |-> {}]
  <2>1. copy \in Snapshot
    BY Zenon, <1>1 DEF RuntimeTypeOK, Snapshot, LoadConfig, Begin
  <2>2. adds' \in [Mutator -> SUBSET Plugin] /\ acked' \subseteq Plugin
    BY Zenon DEF RuntimeTypeOK, LoadConfig
  <2> QED
    BY Zenon, <1>2, <2>1, <2>2 DEF LoadConfig
<1>4. CASE \E p \in Plugin : Register(m, p)
  <2> PICK p \in Plugin : Register(m, p)
    BY Zenon, <1>4
  <2>1. [runtime EXCEPT !.plugins[p] = made + 1] \in Snapshot
    <3>1. runtime.plugins \in [Plugin -> 0..MaxMutations] /\ made + 1 \in 0..MaxMutations
      BY Zenon, <1>1 DEF RuntimeTypeOK, Snapshot, Register, Begin
    <3>2. [runtime.plugins EXCEPT ![p] = made + 1] \in [Plugin -> 0..MaxMutations]
      BY Zenon, <3>1
    <3> QED
      BY Zenon, <3>2 DEF RuntimeTypeOK, Snapshot
  <2>2. adds' \in [Mutator -> SUBSET Plugin] /\ acked' \subseteq Plugin
    BY Zenon DEF RuntimeTypeOK, Register
  <2> QED
    BY Zenon, <1>2, <2>1, <2>2 DEF Register
<1>5. CASE \E p \in Plugin : Unregister(m, p)
  <2> PICK p \in Plugin : Unregister(m, p)
    BY Zenon, <1>5
  <2>1. [runtime EXCEPT !.plugins[p] = 0] \in Snapshot
    <3>1. runtime.plugins \in [Plugin -> 0..MaxMutations] /\ 0 \in 0..MaxMutations
      BY DEF RuntimeTypeOK, Snapshot
    <3>2. [runtime.plugins EXCEPT ![p] = 0] \in [Plugin -> 0..MaxMutations]
      BY Zenon, <3>1
    <3> QED
      BY Zenon, <3>2 DEF RuntimeTypeOK, Snapshot
  <2>2. adds' \in [Mutator -> SUBSET Plugin] /\ acked' \subseteq Plugin
    BY Zenon DEF RuntimeTypeOK, Unregister
  <2> QED
    BY Zenon, <1>2, <2>1, <2>2 DEF Unregister
<1>6. CASE \E k \in AnnotationKey : AnnotateRoute(m, k)
  <2> PICK k \in AnnotationKey : AnnotateRoute(m, k)
    BY Zenon, <1>6
  <2>1. [runtime EXCEPT !.annotated = @ \cup {k}] \in Snapshot
    BY Zenon DEF RuntimeTypeOK, Snapshot
  <2>2. adds' \in [Mutator -> SUBSET Plugin] /\ acked' \subseteq Plugin
    BY Zenon DEF RuntimeTypeOK, AnnotateRoute
  <2> QED
    BY Zenon, <1>2, <2>1, <2>2 DEF AnnotateRoute
<1>7. CASE \E k \in AnnotationKey : RemoveRouteAnnotation(m, k)
  <2> PICK k \in AnnotationKey : RemoveRouteAnnotation(m, k)
    BY Zenon, <1>7
  <2>1. [runtime EXCEPT !.annotated = @ \ {k}] \in Snapshot
    BY Zenon DEF RuntimeTypeOK, Snapshot
  <2>2. adds' \in [Mutator -> SUBSET Plugin] /\ acked' \subseteq Plugin
    BY Zenon DEF RuntimeTypeOK, RemoveRouteAnnotation
  <2> QED
    BY Zenon, <1>2, <2>1, <2>2 DEF RemoveRouteAnnotation
<1> QED
  BY Zenon, <1>3, <1>4, <1>5, <1>6, <1>7 DEF Mutate

\* The initial state satisfies the invariant.
LEMMA InitIInv == Init => IInv
<1> SUFFICES ASSUME Init PROVE IInv
  BY Zenon
<1>1. Empty \in Snapshot
  BY Zenon, EmptyIsSnapshot
<1>2. NoPlan \in Plan
  BY DEF NoPlan, Plan
<1>3. TypeOK
  BY <1>1, <1>2 DEF Init, RuntimeInit, TypeOK, RuntimeTypeOK
<1>4. EraInv
  BY Zenon DEF Init, RuntimeInit, EraInv, Active
<1>5. CacheInv /\ BuildInv
  BY Zenon DEF Init, CacheInv, BuildInv, BuildAt
<1> QED
  BY Zenon, <1>3, <1>4, <1>5 DEF IInv

\* A plan drawn from some snapshots is drawn from any larger set of them.
LEMMA DrawnFromMore ==
  ASSUME NEW h, NEW plan, NEW names, NEW S, NEW T, S \subseteq T, DrawnFrom(h, plan, names, S)
  PROVE  DrawnFrom(h, plan, names, T)
  BY Zenon DEF DrawnFrom

\* The first step of a mutation touches neither snapshot nor generation.
LEMMA BeginKeeps ==
  ASSUME IInv, NEW m \in Mutator, BeginMutation(m) PROVE IInv'
<1>1. RuntimeTypeOK' /\ UNCHANGED <<runtime, generation>> /\ UNCHANGED dispatchVars
      /\ pc' = [pc EXCEPT ![m] = "store"] /\ pc[m] = "idle"
  BY Zenon, MutateTypes DEF BeginMutation, IInv, TypeOK
<1>2. TypeOK'
  BY Zenon, <1>1 DEF IInv, TypeOK, dispatchVars
<1>3. (\A n \in Mutator : pc'[n] # "bump") => (\A n \in Mutator : pc[n] # "bump")
  BY Zenon, <1>1 DEF IInv, TypeOK, RuntimeTypeOK
<1>4. EraInv'
  BY Zenon, <1>1, <1>3 DEF IInv, EraInv, Active, dispatchVars
<1>5. CacheInv'
  BY Zenon, <1>1 DEF IInv, CacheInv, Active, dispatchVars
<1>6. BuildInv'
  BY Zenon, <1>1 DEF IInv, BuildInv, BuildAt, dispatchVars
<1> QED
  BY Zenon, <1>2, <1>4, <1>5, <1>6 DEF IInv

\* A store adds the new snapshot to every era that is still open.
LEMMA StoreKeeps ==
  ASSUME IInv, NEW m \in Mutator, StoreSnapshot(m) PROVE IInv'
<1> USE DEF StoreSnapshot, Store
<1>1. TypeOK'
  BY DEF IInv, TypeOK, RuntimeTypeOK
<1>2. pc'[m] = "bump"
  BY Zenon DEF IInv, TypeOK, RuntimeTypeOK
<1>3. EraInv'
  BY Zenon, <1>2 DEF IInv, EraInv, Active
<1>4. CacheInv'
  <2> SUFFICES ASSUME NEW r \in Route, NEW plan \in plans[r]
               PROVE  /\ plan.gen <= generation /\ KeyOf(plan.maker) = r
                      /\ plan.gen = generation => DrawnFrom(plan.maker, plan.entries, Names(plan.maker), since')
                      /\ \A b \in Builder : Active(b) /\ plan.gen = seenGen[b]
                           => DrawnFrom(plan.maker, plan.entries, Names(plan.maker), valid'[b])
    BY Zenon DEF CacheInv, Active
  <2>1. /\ plan.gen <= generation /\ KeyOf(plan.maker) = r
        /\ plan.gen = generation => DrawnFrom(plan.maker, plan.entries, Names(plan.maker), since)
        /\ \A b \in Builder : Active(b) /\ plan.gen = seenGen[b]
             => DrawnFrom(plan.maker, plan.entries, Names(plan.maker), valid[b])
    BY Zenon DEF IInv, CacheInv
  <2>2. since \subseteq since' /\ \A b \in Builder : valid[b] \subseteq valid'[b]
    BY Zenon
  <2> QED
    BY Zenon, <2>1, <2>2, DrawnFromMore
<1>5. BuildInv'
  <2>1. \A b \in Builder : valid[b] \subseteq valid'[b]
    BY Zenon
  <2> QED
    BY Zenon, <2>1, DrawnFromMore DEF IInv, BuildInv, BuildAt
<1> QED
  BY Zenon, <1>1, <1>3, <1>4, <1>5 DEF IInv

\* A bump opens a new era: no plan and no caller has seen its generation.
LEMMA BumpKeeps ==
  ASSUME IInv, NEW m \in Mutator, BumpGeneration(m) PROVE IInv'
<1> USE DEF BumpGeneration, Bump
<1>1. TypeOK'
  BY DEF IInv, TypeOK, RuntimeTypeOK
<1>2. generation' = generation + 1 /\ generation \in Nat /\ seenGen \in [Builder -> Nat]
  BY Zenon DEF IInv, TypeOK, RuntimeTypeOK
<1>3. EraInv'
  BY <1>2 DEF IInv, EraInv, Active
<1>4. CacheInv'
  <2> SUFFICES ASSUME NEW r \in Route, NEW plan \in plans[r]
               PROVE  /\ plan.gen <= generation' /\ KeyOf(plan.maker) = r
                      /\ plan.gen # generation'
                      /\ \A b \in Builder : Active(b) /\ plan.gen = seenGen[b]
                           => DrawnFrom(plan.maker, plan.entries, Names(plan.maker), valid[b])
    BY Zenon DEF CacheInv, Active
  <2>1. plan.gen \in Nat /\ plan.gen <= generation
    <3>1. plan \in [gen : Nat, entries : Plan, maker : Handler]
      BY Zenon DEF IInv, TypeOK
    <3>2. plan.gen \in Nat
      BY Zenon, <3>1
    <3> QED
      BY Zenon, <3>2 DEF IInv, CacheInv
  <2>2. plan.gen <= generation + 1 /\ plan.gen # generation + 1
    BY <1>2, <2>1
  <2> QED
    BY Zenon, <1>2, <2>2 DEF IInv, CacheInv
<1>5. BuildInv'
  BY Zenon DEF IInv, BuildInv, BuildAt
<1> QED
  BY Zenon, <1>1, <1>3, <1>4, <1>5 DEF IInv

\* The end of a mutation touches none of it.
LEMMA EndKeeps ==
  ASSUME IInv, NEW m \in Mutator, EndMutation(m) PROVE IInv'
<1> USE DEF EndMutation, Clear, dispatchVars
<1>1. TypeOK'
  BY Zenon DEF IInv, TypeOK, RuntimeTypeOK
<1>2. (\A n \in Mutator : pc'[n] # "bump") => (\A n \in Mutator : pc[n] # "bump")
  BY Zenon DEF IInv, TypeOK, RuntimeTypeOK
<1>3. EraInv'
  BY Zenon, <1>2 DEF IInv, EraInv, Active
<1>4. CacheInv' /\ BuildInv'
  BY Zenon DEF IInv, CacheInv, BuildInv, BuildAt, Active
<1> QED
  BY Zenon, <1>1, <1>3, <1>4 DEF IInv

\* A new call joins the era of the generation it reads.
LEMMA ReadGenerationKeeps ==
  ASSUME IInv, NEW b \in Builder, NEW h \in Handler, ReadGeneration(b, h) PROVE IInv'
<1> USE DEF ReadGeneration, runtimeVars
<1>1. TypeOK'
  <2>1. NoPlan \in Plan
    BY DEF NoPlan, Plan
  <2> QED
    BY Zenon, <2>1 DEF IInv, TypeOK, RuntimeTypeOK
<1>2. /\ bpc' = [bpc EXCEPT ![b] = "lookup"] /\ seenGen' = [seenGen EXCEPT ![b] = generation]
      /\ valid' = [valid EXCEPT ![b] = since] /\ handler' = [handler EXCEPT ![b] = h]
      /\ maker' = [maker EXCEPT ![b] = h] /\ maker \in [Builder -> Handler]
      /\ bpc \in [Builder -> {"idle", "lookup", "build", "done"}] /\ seenGen \in [Builder -> Nat]
      /\ valid \in [Builder -> SUBSET Snapshot] /\ generation \in Nat /\ handler \in [Builder -> Handler]
  BY Zenon DEF IInv, TypeOK, RuntimeTypeOK
<1>3. EraInv'
  BY <1>2 DEF IInv, EraInv, Active
<1>4. CacheInv'
  <2> SUFFICES ASSUME NEW q \in Route, NEW plan \in plans[q]
               PROVE  /\ plan.gen <= generation /\ KeyOf(plan.maker) = q
                      /\ plan.gen = generation => DrawnFrom(plan.maker, plan.entries, Names(plan.maker), since)
                      /\ \A c \in Builder : Active(c)' /\ plan.gen = seenGen'[c]
                           => DrawnFrom(plan.maker, plan.entries, Names(plan.maker), valid'[c])
    BY Zenon DEF CacheInv
  <2>1. /\ plan.gen <= generation /\ KeyOf(plan.maker) = q
        /\ plan.gen = generation => DrawnFrom(plan.maker, plan.entries, Names(plan.maker), since)
        /\ \A c \in Builder : Active(c) /\ plan.gen = seenGen[c]
             => DrawnFrom(plan.maker, plan.entries, Names(plan.maker), valid[c])
    BY Zenon DEF IInv, CacheInv
  <2>2. seenGen'[b] = generation /\ valid'[b] = since
    BY Zenon, <1>2
  <2>3. \A c \in Builder : c # b => seenGen'[c] = seenGen[c] /\ valid'[c] = valid[c] /\ bpc'[c] = bpc[c]
    BY Zenon, <1>2
  <2> QED
    BY Zenon, <2>1, <2>2, <2>3 DEF Active
<1>5. BuildInv'
  <2>1. bpc'[b] = "lookup" /\ maker'[b] = handler'[b]
    BY Zenon, <1>2
  <2>2. entries \in [Builder -> Plan]
    BY Zenon DEF IInv, TypeOK
  <2>3. \A c \in Builder : c # b =>
          /\ bpc'[c] = bpc[c] /\ maker'[c] = maker[c] /\ handler'[c] = handler[c]
          /\ valid'[c] = valid[c] /\ entries'[c] = entries[c] /\ todo'[c] = todo[c]
    BY Zenon, <1>2, <2>2
  <2>4. BuildAt(b)'
    BY Zenon, <2>1 DEF BuildAt
  <2>5. ASSUME NEW c \in Builder, c # b PROVE BuildAt(c)'
    <3>1. BuildAt(c)
      BY Zenon DEF IInv, BuildInv
    <3>2. /\ bpc'[c] = bpc[c] /\ maker'[c] = maker[c] /\ handler'[c] = handler[c]
          /\ valid'[c] = valid[c] /\ entries'[c] = entries[c] /\ todo'[c] = todo[c]
      BY Zenon, <2>3, <2>5
    <3> QED
      BY Zenon, <3>1, <3>2 DEF BuildAt
  <2> QED
    BY Zenon, <2>4, <2>5 DEF BuildInv
<1> QED
  BY Zenon, <1>1, <1>3, <1>4, <1>5 DEF IInv

\* A hit answers with a plan of the caller's own era.
LEMMA HitKeeps ==
  ASSUME IInv, NEW b \in Builder, Hit(b) PROVE IInv'
<1> USE DEF runtimeVars
<1>1. PICK plan \in plans[KeyOf(handler[b])] :
        /\ plan.gen = seenGen[b]
        /\ entries' = [entries EXCEPT ![b] = plan.entries]
        /\ maker' = [maker EXCEPT ![b] = plan.maker]
  BY Zenon DEF Hit
<1>2. bpc[b] = "lookup" /\ bpc' = [bpc EXCEPT ![b] = "done"]
      /\ UNCHANGED <<runtimeVars, plans, handler, seenGen, todo, since, valid>>
  BY Zenon DEF Hit
<1>3. KeyOf(handler[b]) \in Route /\ plan.entries \in Plan /\ plan.maker \in Handler
  <2>1. KeyOf(handler[b]) \in Route
    BY Zenon DEF IInv, TypeOK
  <2>2. plan \in [gen : Nat, entries : Plan, maker : Handler]
    BY Zenon, <2>1 DEF IInv, TypeOK
  <2> QED
    BY Zenon, <2>1, <2>2
<1>4. TypeOK'
  BY Zenon, <1>1, <1>2, <1>3 DEF IInv, TypeOK, RuntimeTypeOK
<1>5. EraInv' /\ CacheInv'
  BY Zenon, <1>2 DEF IInv, EraInv, CacheInv, Active, TypeOK
<1>6. /\ KeyOf(plan.maker) = KeyOf(handler[b])
      /\ DrawnFrom(plan.maker, plan.entries, Names(plan.maker), valid[b])
  BY Zenon, <1>1, <1>2, <1>3 DEF IInv, CacheInv, Active
<1>7. BuildInv'
  BY Zenon, <1>1, <1>2, <1>6 DEF IInv, BuildInv, BuildAt, TypeOK
<1> QED
  BY Zenon, <1>4, <1>5, <1>7 DEF IInv

\* A miss has resolved nothing yet.
LEMMA MissKeeps ==
  ASSUME IInv, NEW b \in Builder, Miss(b) PROVE IInv'
<1> USE DEF Miss, runtimeVars
<1>1. TypeOK'
  BY Zenon DEF IInv, TypeOK, RuntimeTypeOK
<1>2. EraInv' /\ CacheInv'
  BY Zenon DEF IInv, EraInv, CacheInv, Active, TypeOK
<1>3. BuildInv'
  BY Zenon DEF IInv, BuildInv, BuildAt, TypeOK, DrawnFrom
<1> QED
  BY Zenon, <1>1, <1>2, <1>3 DEF IInv

\* A turn of the build takes an entry from the current snapshot.
LEMMA BuildOneKeeps ==
  ASSUME IInv, NEW b \in Builder, NEW p \in Plugin, BuildOne(b, p) PROVE IInv'
<1> USE DEF BuildOne, runtimeVars
<1>0. PICK e : /\ e \in {runtime.plugins[p]} \cup (IF p \in Fallible(handler[b]) THEN {0} ELSE {})
               /\ entries' = [entries EXCEPT ![b][p] = e]
  BY Zenon
<1>1. e \in 0..MaxMutations /\ Gives(maker[b], runtime, p, e)
  <2>1. maker[b] = handler[b]
    BY Zenon DEF IInv, BuildInv, BuildAt
  <2> QED
    BY <1>0, <2>1 DEF IInv, TypeOK, RuntimeTypeOK, Snapshot, Gives
<1>2. entries \in [Builder -> Plan] /\ [entries[b] EXCEPT ![p] = e] \in Plan
      /\ entries' = [entries EXCEPT ![b] = [entries[b] EXCEPT ![p] = e]]
  BY Zenon, <1>0, <1>1 DEF IInv, TypeOK, Plan
<1>3. TypeOK'
  BY Zenon, <1>2 DEF IInv, TypeOK, RuntimeTypeOK
<1>4. EraInv' /\ CacheInv'
  BY Zenon DEF IInv, EraInv, CacheInv, Active
<1>5. DrawnFrom(maker[b], [entries[b] EXCEPT ![p] = e],
                Names(maker[b]) \ (todo[b] \ {p}), valid[b])
  <2>1. runtime \in valid[b]
    BY Zenon DEF IInv, EraInv, Active
  <2>2. DrawnFrom(maker[b], entries[b], Names(maker[b]) \ todo[b], valid[b])
    BY Zenon DEF IInv, BuildInv, BuildAt
  <2>3. entries[b] \in [Plugin -> 0..MaxMutations] /\ Names(maker[b]) \subseteq Plugin
    BY Zenon, <1>2 DEF IInv, TypeOK, Plan
  <2> QED
    BY Zenon, <1>1, <2>1, <2>2, <2>3 DEF DrawnFrom
<1>6. BuildInv'
  BY Zenon, <1>2, <1>5 DEF IInv, BuildInv, BuildAt, TypeOK
<1> QED
  BY Zenon, <1>3, <1>4, <1>6 DEF IInv

\* The plan a builder inserts belongs to the era of every caller that can hit it.
LEMMA InsertKeeps ==
  ASSUME IInv, NEW b \in Builder, Insert(b) PROVE IInv'
<1> USE DEF Insert, runtimeVars
<1>1. TypeOK'
  BY DEF IInv, TypeOK, RuntimeTypeOK
<1>2. EraInv'
  BY DEF IInv, EraInv, Active, TypeOK
<1>3. maker[b] = handler[b] /\ DrawnFrom(maker[b], entries[b], Names(maker[b]), valid[b])
  BY Zenon DEF IInv, BuildInv, BuildAt, DrawnFrom
<1>4. CacheInv'
  <2> SUFFICES ASSUME NEW q \in Route, NEW plan \in plans'[q]
               PROVE  /\ plan.gen <= generation /\ KeyOf(plan.maker) = q
                      /\ plan.gen = generation => DrawnFrom(plan.maker, plan.entries, Names(plan.maker), since)
                      /\ \A c \in Builder : Active(c)' /\ plan.gen = seenGen[c]
                           => DrawnFrom(plan.maker, plan.entries, Names(plan.maker), valid[c])
    BY Zenon DEF CacheInv
  <2>1. \A c \in Builder : Active(c)' => Active(c)
    BY Zenon DEF Active, IInv, TypeOK
  <2>2. CASE plan \in plans[q]
    BY Zenon, <2>1, <2>2 DEF IInv, CacheInv
  <2>3. CASE plan \notin plans[q]
    <3>1. q = KeyOf(handler[b]) /\ plan = [gen |-> seenGen[b], entries |-> entries[b], maker |-> handler[b]]
      BY Zenon, <2>3 DEF IInv, TypeOK
    <3>2. Active(b)
      BY Zenon DEF Active
    <3> QED
      BY Zenon, <1>3, <2>1, <3>1, <3>2 DEF IInv, EraInv
  <2> QED
    BY Zenon, <2>2, <2>3
<1>5. BuildInv'
  BY Zenon, <1>3 DEF IInv, BuildInv, BuildAt, TypeOK
<1> QED
  BY Zenon, <1>1, <1>2, <1>4, <1>5 DEF IInv

\* Every step preserves the invariant.
LEMMA NextIInv == IInv /\ [Next]_vars => IInv'
<1> SUFFICES ASSUME IInv, [Next]_vars PROVE IInv'
  BY Zenon
<1>1. ASSUME NEW m \in Mutator, MutatorStep(m) PROVE IInv'
  BY Zenon, <1>1, BeginKeeps, StoreKeeps, BumpKeeps, EndKeeps DEF MutatorStep
<1>2. ASSUME NEW b \in Builder, GetOrBuild(b) PROVE IInv'
  BY Zenon, <1>2, ReadGenerationKeeps, HitKeeps, MissKeeps, BuildOneKeeps, InsertKeeps DEF GetOrBuild
<1>3. CASE UNCHANGED vars
  BY Zenon, <1>3 DEF vars, runtimeVars, dispatchVars, IInv, TypeOK, RuntimeTypeOK, EraInv, CacheInv,
              BuildInv, BuildAt, Active
<1> QED
  BY Zenon, <1>1, <1>2, <1>3 DEF Next

\* The invariant holds in every reachable state.
THEOREM Invariance == Spec => []IInv
<1> QED
  BY InitIInv, NextIInv, PTL DEF Spec

\* The manager's runtime and the cache keep their types (manager.rs 152-194,
\* dispatch_plan.rs 489-533).
THEOREM TypeCorrect == Spec => []TypeOK
<1>1. IInv => TypeOK
  BY Zenon DEF IInv
<1> QED
  BY <1>1, Invariance, PTL

\* A plan with the current generation has the instances the current snapshot gives
\* the handler it was built for, whenever no mutation is between its store and its
\* bump (dispatch_plan.rs 513-532).
THEOREM Freshness == Spec => []CurrentPlanIsFresh
<1>1. IInv => CurrentPlanIsFresh
  <2> SUFFICES ASSUME IInv, NEW r \in Route, NEW plan \in plans[r], plan.gen = generation,
                      \A m \in Mutator : pc[m] # "bump", NEW p \in Names(plan.maker)
               PROVE  Gives(plan.maker, runtime, p, plan.entries[p])
    BY Zenon DEF CurrentPlanIsFresh
  <2>1. since = {runtime} /\ DrawnFrom(plan.maker, plan.entries, Names(plan.maker), since)
    BY Zenon DEF IInv, EraInv, CacheInv
  <2> QED
    BY Zenon, <2>1 DEF DrawnFrom
<1> QED
  BY <1>1, Invariance, PTL

\* get_or_build answers with no instance older than the last mutation that had
\* returned when it was called (dispatch_plan.rs 513-532).
THEOREM Recency == Spec => []AnswerSinceCall
<1>1. IInv => AnswerSinceCall
  BY Zenon DEF IInv, BuildInv, BuildAt, DrawnFrom, AnswerSinceCall
<1> QED
  BY <1>1, Invariance, PTL

\* No plan in the cache or in a caller's hands has instances older than its tag or the
\* call allows (dispatch_plan.rs 513-532).
THEOREM Fresh == Spec => []PlansFresh
<1>1. CurrentPlanIsFresh /\ AnswerSinceCall => PlansFresh
  BY Zenon DEF PlansFresh
<1> QED
  BY <1>1, Freshness, Recency, PTL
-----------------------------------------------------------------------------
(* Decisions *)

Verdicts == {"allow", "deny", "error"}

Values == UNION {Yields(r.engine) : r \in Resolver}

Call ==
  [pc : {"idle", "lookup", "compile", "insert", "evaluate", "done"}, by : Resolver \cup {None},
   ask : Ask \cup {None}, value : Values \cup {"none"}, said : Verdicts \cup {"none"}]

Types ==
  /\ walk \in SUBSET Seq(Resolver)
  /\ router \in SUBSET Resolver
  /\ \A h \in installed : h \subseteq router
  /\ compiled \in [Resolver -> SUBSET Ask]
  /\ calls \in [Client -> Call]

Caches ==
  \A r \in Resolver :
    /\ IsFiniteSet(compiled[r]) /\ Cardinality(compiled[r]) <= r.cap
    /\ \A ask \in compiled[r] : Admissible(r, ask)

\* What is known of a call at each of its steps.
Sound(k) ==
  /\ k.by \in router \cup {None}
  /\ k.pc \in {"lookup", "compile", "insert", "evaluate"} =>
       k.by # None /\ k.value = "none" /\ k.said = "none"
  /\ k.pc = "idle" => k.said = "none"
  /\ k.pc \in {"lookup", "compile", "insert"} => k.ask \in Ask
  /\ k.pc \in {"insert", "evaluate"} /\ k.ask.form = "text" /\ k.by.engine # "cedar" => Admissible(k.by, k.ask)
  /\ k.said = "allow" =>
       /\ k.by # None
       /\ k.ask.form = "text" /\ k.by.engine # "cedar" => Admissible(k.by, k.ask)
       /\ k.value \in Granting \/ (k.by.on_error = "allow" /\ k.value \notin Refusing)
  /\ k.pc = "insert" => k.ask.form = "text" /\ k.by.engine # "cedar"
  /\ k.pc \in {"lookup", "compile"} => k.ask.form = "text" /\ k.by.engine # "cedar"

OnePerDialect == \A r, s \in router : r.dialect = s.dialect => r = s

DpInv == Types /\ Caches /\ OnePerDialect /\ \A c \in Client : Sound(calls[c])
-----------------------------------------------------------------------------
\* A load begins, registers or installs: no call changes, and the router only
\* grows, by a resolver of a dialect it did not have (visit_global).
LEMMA LoadKeeps ==
  ASSUME DpInv, (\E d \in Documents : BeginLoad(d)) \/ BuildPdp \/ Install
  PROVE  DpInv'
<1> USE DEF DpInv
<1>1. router \subseteq router' /\ router' \subseteq Resolver /\ OnePerDialect'
      /\ walk' \in SUBSET Seq(Resolver) /\ \A h \in installed' : h \subseteq router'
  <2>1. CASE \E d \in Documents : BeginLoad(d)
    BY Zenon, <2>1, DecisionAssumption DEF BeginLoad, Types, OnePerDialect
  <2>2. CASE BuildPdp
    <3>1. PICK left \in walk :
            /\ left # << >>
            /\ IF Head(left).builds
               THEN walk' = {Tail(left)} /\ router' = RegisterPdp(Head(left))
               ELSE walk' = {} /\ UNCHANGED router
            /\ UNCHANGED <<installed, compiled, calls>>
      BY Zenon, <2>2 DEF BuildPdp
    <3>2. left \in Seq(Resolver) /\ Head(left) \in Resolver /\ Tail(left) \in Seq(Resolver)
      BY <3>1 DEF Types
    <3>3. router' = router \/ router' = RegisterPdp(Head(left))
      BY Zenon, <3>1
    <3>4. router \subseteq router' /\ router' \subseteq Resolver /\ OnePerDialect'
      BY Zenon, <3>2, <3>3 DEF RegisterPdp, OnePerDialect, Types
    <3>5. walk' \in SUBSET Seq(Resolver)
      BY Zenon, <3>1, <3>2
    <3> QED BY Zenon, <3>1, <3>4, <3>5 DEF Types
  <2>3. CASE Install
    BY Zenon, <2>3 DEF Install, Types, OnePerDialect
  <2> QED BY Zenon, <2>1, <2>2, <2>3
<1>2. UNCHANGED <<compiled, calls>>
  BY Zenon DEF BeginLoad, BuildPdp, Install
<1>3. Types'
  BY Zenon, <1>1, <1>2 DEF Types
<1>4. Caches'
  BY Zenon, <1>2 DEF Caches, Admissible, Collides
<1>5. ASSUME NEW c \in Client PROVE Sound(calls[c])'
  <2>1. Sound(calls[c])
    BY Zenon
  <2> QED BY Zenon, <1>1, <1>2, <2>1 DEF Sound
<1> QED BY Zenon, <1>1, <1>3, <1>4, <1>5

\* What a program yields allows only if it grants, or if it is degenerate and
\* on_error says so (CelResolver, OpaResolver and CedarDirectResolver::evaluate).
LEMMA DecidesSoundly ==
  ASSUME NEW r \in Resolver, NEW value \in Yields(r.engine)
  PROVE  /\ Decides(r, value) \in Verdicts
         /\ Decides(r, value) = "allow" =>
              value \in Granting \/ (r.on_error = "allow" /\ value \notin Refusing)
<1> USE DecisionAssumption
<1>0. r.on_error \in {"allow", "deny"} /\ r.engine \in {"cel", "opa", "cedar"}
  BY Zenon
<1>1. CASE r.engine = "cel"
  <2>1. value \in {"true", "false", "other", "error"}
    BY Zenon, <1>1 DEF Yields
  <2>2. Decides(r, value) = CelDecides(r, value)
    BY Zenon, <1>1 DEF Decides
  <2>3. CelDecides(r, value) =
          IF value = "true" THEN "allow" ELSE IF value = "false" THEN "deny" ELSE r.on_error
    BY Zenon DEF CelDecides
  <2> QED BY Zenon, <1>0, <2>1, <2>2, <2>3 DEF Granting, Refusing, Verdicts
<1>2. CASE r.engine = "opa"
  <2>1. value \in {"true", "false", "undefined", "allowing", "denying", "silent",
                   "violations", "no violations", "other", "error", "panic"}
    BY Zenon, <1>2 DEF Yields
  <2>2. Decides(r, value) = OpaDecides(r, value)
    BY Zenon, <1>2 DEF Decides
  <2>3. OpaDecides(r, value) =
          IF value \in {"true", "allowing", "no violations"} THEN "allow"
          ELSE IF value \in {"false", "undefined", "denying", "violations", "panic"} THEN "deny"
          ELSE r.on_error
    BY Zenon DEF OpaDecides
  <2> QED BY Zenon, <1>0, <2>1, <2>2, <2>3 DEF Granting, Refusing, Verdicts
<1>3. CASE r.engine = "cedar"
  <2>1. value \in {"allow", "deny", "allow with errors", "invalid request"}
    BY Zenon, <1>3 DEF Yields
  <2>2. Decides(r, value) = CedarDecides(value)
    BY Zenon, <1>3 DEF Decides
  <2> QED BY Zenon, <2>1, <2>2 DEF CedarDecides, Translate, Granting, Refusing, Verdicts
<1> QED BY Zenon, <1>0, <1>1, <1>2, <1>3

\* A step of one call that leaves the caches alone and keeps that call sound
\* keeps everything else.
LEMMA CallKeeps ==
  ASSUME DpInv, NEW c \in Client, NEW k \in Call, Sound(k),
         calls' = [calls EXCEPT ![c] = k], UNCHANGED <<walk, router, installed, compiled>>
  PROVE  DpInv'
<1>1. Types'
  BY Zenon DEF DpInv, Types
<1>2. Caches'
  BY Zenon DEF DpInv, Caches, Admissible, Collides
<1>3. ASSUME NEW d \in Client PROVE Sound(calls[d])'
  <2>1. calls'[d] = IF d = c THEN k ELSE calls[d]
    BY Zenon DEF DpInv, Types
  <2>2. Sound(calls[d]) /\ Sound(k)
    BY Zenon DEF DpInv
  <2>3. router' = router
    BY Zenon
  <2>4. CASE d = c
    <3>1. calls'[d] = k
      BY Zenon, <2>1, <2>4
    <3> QED BY Zenon, <2>2, <2>3, <3>1 DEF Sound
  <2>5. CASE d # c
    <3>1. calls'[d] = calls[d]
      BY Zenon, <2>1, <2>5
    <3> QED BY Zenon, <2>2, <2>3, <3>1 DEF Sound
  <2> QED BY Zenon, <2>4, <2>5
<1> QED BY Zenon, <1>1, <1>2, <1>3 DEF DpInv, OnePerDialect

\* A call begins, in the handler it found (PdpRouter::evaluate).
LEMMA AsksKeeps ==
  ASSUME DpInv, NEW c \in Client, NEW captured \in installed, NEW dialect, NEW ask \in Ask,
         Asks(c, captured, dialect, ask)
  PROVE  DpInv'
<1> DEFINE found == {r \in captured : r.dialect = dialect}
           r == CHOOSE x \in found : TRUE
           At(stage, by, said) == [pc |-> stage, by |-> by, ask |-> ask, value |-> "none", said |-> said]
           k == IF found = {} THEN At("done", None, "error")
                ELSE IF Malformed(r, ask) THEN At("done", r, "error")
                ELSE At(IF ask.form = "text" /\ r.engine # "cedar" THEN "lookup" ELSE "evaluate", r, "none")
<1>1. calls' = [calls EXCEPT ![c] = k] /\ UNCHANGED <<walk, router, installed, compiled>>
  BY Zenon DEF Asks
<1>2. found # {} => r \in router /\ r \in Resolver /\ r # None
  BY Zenon, DecisionAssumption DEF DpInv, Types
<1> HIDE DEF found, r
<1>3. k \in Call
  BY Zenon, <1>2 DEF Call, Verdicts
<1>4. Sound(k)
  BY Zenon, <1>2 DEF Sound
<1> HIDE DEF k
<1> QED BY Zenon, <1>1, <1>3, <1>4, CallKeeps

\* A call looks up, compiles, evaluates or returns (get_or_compile, engine_for).
LEMMA StepKeeps ==
  ASSUME DpInv, NEW c \in Client,
         LookUp(c) \/ Compile(c) \/ (\E value : Evaluate(c, value)) \/ Return(c)
  PROVE  DpInv'
<1>0. calls[c] \in Call /\ Sound(calls[c])
  BY Zenon DEF DpInv, Types
<1>1. CASE LookUp(c)
  <2> DEFINE k == [calls[c] EXCEPT !.pc = IF calls[c].ask \in compiled[calls[c].by] THEN "evaluate" ELSE "compile"]
  <2>1. calls' = [calls EXCEPT ![c] = k] /\ UNCHANGED <<walk, router, installed, compiled>>
    BY Zenon, <1>1 DEF LookUp, DpInv, Types
  <2>2. k \in Call
    BY Zenon, <1>0 DEF Call
  <2>3. calls[c].ask \in compiled[calls[c].by] => Admissible(calls[c].by, calls[c].ask)
    BY Zenon, <1>0, <1>1 DEF LookUp, DpInv, Caches, Sound, Types
  <2>4. Sound(k)
    BY Zenon, <1>0, <1>1, <2>3 DEF Sound, LookUp, Call
  <2> HIDE DEF k
  <2> QED BY Zenon, <2>1, <2>2, <2>4, CallKeeps
<1>2. CASE Compile(c)
  <2> DEFINE k == IF Admissible(calls[c].by, calls[c].ask)
                  THEN [calls[c] EXCEPT !.pc = "insert"]
                  ELSE [calls[c] EXCEPT !.pc = "done", !.said = "deny"]
  <2>1. calls' = [calls EXCEPT ![c] = k] /\ UNCHANGED <<walk, router, installed, compiled>>
    BY Zenon, <1>2 DEF Compile, Says, DpInv, Types
  <2>2. k \in Call
    BY Zenon, <1>0 DEF Call, Verdicts
  <2>4. Sound(k)
    BY Zenon, <1>0, <1>2 DEF Sound, Compile, Call
  <2> HIDE DEF k
  <2> QED BY Zenon, <2>1, <2>2, <2>4, CallKeeps
<1>3. CASE \E value : Evaluate(c, value)
  <2>0. PICK value : Evaluate(c, value)
    BY Zenon, <1>3
  <2> DEFINE k == [calls[c] EXCEPT !.pc = "done", !.value = value, !.said = Decides(calls[c].by, value)]
  <2>1. calls' = [calls EXCEPT ![c] = k] /\ UNCHANGED <<walk, router, installed, compiled>>
    BY Zenon, <2>0 DEF Evaluate, DpInv, Types
  <2>2. calls[c].by \in Resolver /\ value \in Yields(calls[c].by.engine)
    BY Zenon, <1>0, <2>0 DEF Evaluate, Sound, Call
  <2>3. /\ Decides(calls[c].by, value) \in Verdicts
        /\ Decides(calls[c].by, value) = "allow" =>
             value \in Granting \/ (calls[c].by.on_error = "allow" /\ value \notin Refusing)
    BY Zenon, <2>2, DecidesSoundly
  <2>4. k \in Call
    <3>1. value \in Values
      BY Zenon, <2>2 DEF Values
    <3> QED
      BY Zenon, <1>0, <2>3, <3>1 DEF Call
  <2>5. Sound(k)
    BY Zenon, <1>0, <2>0, <2>2, <2>3 DEF Sound, Evaluate, Call, Verdicts
  <2> HIDE DEF k
  <2> QED BY Zenon, <2>1, <2>4, <2>5, CallKeeps
<1>4. CASE Return(c)
  <2>1. Waiting \in Call /\ Sound(Waiting)
    BY Zenon DEF Waiting, Call, Sound
  <2> QED BY Zenon, <1>4, <2>1, CallKeeps DEF Return
<1> QED BY Zenon, <1>1, <1>2, <1>3, <1>4

INSTANCE FiniteSetTheorems

\* An insertion keeps to the cap, since the length is read under the same lock
\* (get_or_compile, engine_for).
LEMMA AdmitKeeps ==
  ASSUME DpInv, NEW c \in Client, Admit(c)
  PROVE  DpInv'
<1> DEFINE r == calls[c].by
           ask == calls[c].ask
<1>0. calls[c] \in Call /\ Sound(calls[c]) /\ calls[c].pc = "insert"
  BY Zenon DEF DpInv, Types, Admit
<1>1. r \in Resolver /\ ask \in Ask /\ Admissible(r, ask)
  BY Zenon, <1>0 DEF Sound, Call
<1>2. CASE HasRoom(r, ask)
  <2> DEFINE k == [calls[c] EXCEPT !.pc = "evaluate"]
  <2>1. /\ calls' = [calls EXCEPT ![c] = k] /\ UNCHANGED <<walk, router, installed>>
        /\ compiled' = [compiled EXCEPT ![r] = @ \cup {ask}]
    BY Zenon, <1>2 DEF Admit, DpInv, Types
  <2>2. k \in Call /\ Sound(k)
    BY Zenon, <1>0, <1>1 DEF Call, Sound
  <2>3. Types'
    BY Zenon, <1>1, <2>1, <2>2 DEF DpInv, Types
  <2>4. ASSUME NEW s \in Resolver
        PROVE  /\ IsFiniteSet(compiled'[s]) /\ Cardinality(compiled'[s]) <= s.cap
               /\ \A a \in compiled'[s] : Admissible(s, a)
    <3>1. /\ IsFiniteSet(compiled[s]) /\ Cardinality(compiled[s]) <= s.cap
          /\ \A a \in compiled[s] : Admissible(s, a)
      BY Zenon DEF DpInv, Caches
    <3>2. CASE s # r
      BY Zenon, <3>1, <3>2, <1>1, <2>1 DEF DpInv, Types
    <3>3. CASE s = r /\ ask \in compiled[r]
      <4>1. compiled'[s] = compiled[s]
        BY Zenon, <3>3, <2>1 DEF DpInv, Types
      <4> QED BY Zenon, <3>1, <4>1
    <3>4. CASE s = r /\ ask \notin compiled[r]
      <4>1. compiled'[s] = compiled[s] \cup {ask}
        BY Zenon, <3>4, <2>1 DEF DpInv, Types
      <4>2. IsFiniteSet(compiled[s] \cup {ask}) /\ Cardinality(compiled[s] \cup {ask}) = Cardinality(compiled[s]) + 1
        BY Zenon, <3>1, <3>4, FS_AddElement
      <4>3. Cardinality(compiled[s]) < s.cap /\ Cardinality(compiled[s]) \in Nat /\ s.cap \in Nat
        BY Zenon, <1>2, <3>1, <3>4, FS_CardinalityType, DecisionAssumption DEF HasRoom
      <4>4. Cardinality(compiled[s]) + 1 <= s.cap
        BY <4>3
      <4>5. \A a \in compiled[s] \cup {ask} : Admissible(s, a)
        BY Zenon, <1>1, <3>1, <3>4
      <4> QED BY Zenon, <4>1, <4>2, <4>4, <4>5
    <3> QED BY Zenon, <3>2, <3>3, <3>4
  <2>5. Caches'
    BY Zenon, <2>4 DEF Caches, Admissible, Collides
  <2>6. ASSUME NEW d \in Client PROVE Sound(calls[d])'
    <3>1. calls'[d] = IF d = c THEN k ELSE calls[d]
      BY Zenon, <2>1 DEF DpInv, Types
    <3>2. Sound(calls[d])
      BY Zenon DEF DpInv
    <3> QED BY <3>1, <3>2, <2>1, <2>2 DEF Sound
  <2> QED BY Zenon, <2>1, <2>3, <2>5, <2>6 DEF DpInv, OnePerDialect
<1>3. CASE ~HasRoom(r, ask)
  <2> DEFINE k == [calls[c] EXCEPT !.pc = "done", !.said = WhenFull(r)]
  <2>1. calls' = [calls EXCEPT ![c] = k] /\ UNCHANGED <<walk, router, installed, compiled>>
    BY Zenon, <1>3 DEF Admit, Says, DpInv, Types
  <2>2. WhenFull(r) \in {"allow", "deny"} /\ (WhenFull(r) = "allow" => r.on_error = "allow")
    BY Zenon, <1>1, DecisionAssumption DEF WhenFull
  <2>3. k \in Call
    BY Zenon, <1>0, <2>2 DEF Call, Verdicts
  <2>4. Sound(k)
    BY Zenon, <1>0, <1>1, <2>2 DEF Call, Sound, Refusing
  <2> HIDE DEF k
  <2> QED BY Zenon, <2>1, <2>3, <2>4, CallKeeps
<1> QED BY Zenon, <1>2, <1>3
-----------------------------------------------------------------------------
\* The invariant behind the four theorems: it holds at first and every step of a
\* load or of a call keeps it.
THEOREM DpInvariance == DpSpec => []DpInv
<1>1. DpInit => DpInv
  <2> SUFFICES ASSUME DpInit PROVE DpInv
    BY Zenon
  <2>1. Waiting \in Call /\ Sound(Waiting)
    BY Zenon DEF Waiting, Call, Sound
  <2>2. Types /\ OnePerDialect
    BY Zenon, <2>1 DEF DpInit, Types, OnePerDialect
  <2>3. Caches
    BY FS_EmptySet, DecisionAssumption DEF DpInit, Caches
  <2> QED BY Zenon, <2>1, <2>2, <2>3 DEF DpInv, DpInit
<1>2. DpInv /\ [DpNext]_dpVars => DpInv'
  <2> SUFFICES ASSUME DpInv, [DpNext]_dpVars PROVE DpInv'
    BY Zenon
  <2>1. CASE (\E d \in Documents : BeginLoad(d)) \/ BuildPdp \/ Install
    BY Zenon, <2>1, LoadKeeps
  <2>2. CASE \E c \in Client, captured \in installed, r \in Resolver, ask \in Ask : Asks(c, captured, r.dialect, ask)
    BY Zenon, <2>2, AsksKeeps
  <2>3. CASE \E c \in Client : LookUp(c) \/ Compile(c) \/ (\E value : Evaluate(c, value)) \/ Return(c)
    BY Zenon, <2>3, StepKeeps
  <2>4. CASE \E c \in Client : Admit(c)
    BY Zenon, <2>4, AdmitKeeps
  <2>5. CASE UNCHANGED dpVars
    BY Zenon, <2>5 DEF dpVars, DpInv, Types, Caches, OnePerDialect, Sound, Admissible, Collides
  <2> QED BY Zenon, <2>1, <2>2, <2>3, <2>4, <2>5 DEF DpNext
<1> QED BY <1>1, <1>2, PTL DEF DpSpec

\* However many calls compile at once, no compile cache outgrows its cap.
THEOREM CapsHold == DpSpec => []CacheBounded
<1>1. DpInv => CacheBounded
  BY Zenon DEF DpInv, Caches, CacheBounded
<1> QED BY <1>1, DpInvariance, PTL

\* No call allows what neither its program nor on_error allows, and a refused
\* text is refused however often it is asked.
THEOREM NothingUnearned == DpSpec => []AllowIsEarned
<1>1. DpInv => AllowIsEarned
  <2> SUFFICES ASSUME DpInv, NEW c \in Client, calls[c].said = "allow"
               PROVE  /\ calls[c].by # None
                      /\ calls[c].ask.form = "text" /\ calls[c].by.engine # "cedar" => calls[c].ask.parses
                      /\ calls[c].ask.form = "text" /\ calls[c].by.engine = "opa"
                           => calls[c].ask.package \notin calls[c].by.packages
                      /\ \/ calls[c].value \in Granting
                         \/ calls[c].by.on_error = "allow" /\ calls[c].value \notin Refusing
    BY Zenon DEF AllowIsEarned
  <2>1. Sound(calls[c])
    BY Zenon DEF DpInv
  <2> QED BY Zenon, <2>1 DEF Sound, Admissible, Collides
<1> QED BY <1>1, DpInvariance, PTL

\* A dialect keeps its first resolver, and calls are answered by it.
THEOREM FirstResolverKept == DpSpec => []ResolverOfRecord
<1>1. DpInv => ResolverOfRecord
  BY Zenon DEF DpInv, OnePerDialect, Sound, ResolverOfRecord
<1> QED BY <1>1, DpInvariance, PTL

\* A call whose text is cached is not turned away, whatever it found before.
THEOREM CachedIsServed == DpSpec => AdmittedServed
<1> DEFINE Served(c) == calls[c].pc \in {"lookup", "compile", "insert"} /\ calls'[c].pc = "done"
                          => calls[c].ask \notin compiled[calls[c].by]
<1>1. DpInv /\ [DpNext]_dpVars => [\A c \in Client : Served(c)]_dpVars
  <2> SUFFICES ASSUME DpInv, DpNext, NEW c \in Client,
                      calls[c].pc \in {"lookup", "compile", "insert"}, calls'[c].pc = "done"
               PROVE  calls[c].ask \notin compiled[calls[c].by]
    BY Zenon
  <2>0. calls \in [Client -> Call] /\ Sound(calls[c]) /\ calls[c].by \in Resolver
    BY Zenon DEF DpInv, Types, Sound, Call
  <2>1. ~((\E d \in Documents : BeginLoad(d)) \/ BuildPdp \/ Install)
    BY Zenon DEF BeginLoad, BuildPdp, Install
  <2>2. PICK d \in Client :
          \/ \E captured \in installed, r \in Resolver, ask \in Ask : Asks(d, captured, r.dialect, ask)
          \/ LookUp(d) \/ Compile(d) \/ Admit(d) \/ (\E value : Evaluate(d, value)) \/ Return(d)
    BY Zenon, <2>1 DEF DpNext
  <2>3. d = c
    BY Zenon, <2>0, <2>2 DEF Asks, LookUp, Compile, Admit, Says, Evaluate, Return
  <2>4. CASE LookUp(c)
    BY Zenon, <2>0, <2>4 DEF LookUp, Call
  <2>5. CASE Compile(c)
    <3>1. ~Admissible(calls[c].by, calls[c].ask)
      BY Zenon, <2>0, <2>5 DEF Compile, Call
    <3> QED BY Zenon, <2>0, <3>1 DEF DpInv, Caches
  <2>6. CASE Admit(c)
    <3>1. ~HasRoom(calls[c].by, calls[c].ask)
      BY Zenon, <2>0, <2>6 DEF Admit, Call
    <3> QED BY Zenon, <3>1 DEF HasRoom
  <2>7. ~(\E captured \in installed, r \in Resolver, ask \in Ask : Asks(c, captured, r.dialect, ask))
        /\ ~(\E value : Evaluate(c, value)) /\ ~Return(c)
    BY Zenon DEF Asks, Evaluate, Return
  <2> QED BY Zenon, <2>2, <2>3, <2>4, <2>5, <2>6, <2>7
<1> QED BY <1>1, DpInvariance, PTL DEF DpSpec, AdmittedServed

\* What a decision point says is earned, is said by the resolver of record, and
\* costs no more memory than the cap (resolver.rs of the three engines, pdp_router.rs).
THEOREM DecidesRightly == DpSpec => []DecisionsSound
<1>1. CacheBounded /\ AllowIsEarned /\ ResolverOfRecord => DecisionsSound
  BY Zenon DEF DecisionsSound
<1> QED
  BY <1>1, CapsHold, NothingUnearned, FirstResolverKept, PTL
=============================================================================
