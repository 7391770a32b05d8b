-------------------------- MODULE MCSharedPlugins --------------------------
(***************************************************************************)
(* Plugins that requests share: two requests of two hooks and the breakers *)
(* of two plugins; or a chain of two identity resolvers whose provider     *)
(* rotates its keys, goes down and comes back.  A behaviour is of one part.*)
(***************************************************************************)
EXTENDS Executor, JwtIdentity

VARIABLE part

MCPlugin == 1..2

Conf(mode, on_error) == [mode |-> mode, on_error |-> on_error, caps |-> {}]

MCConfs == { <<Conf("Sequential", "Disable"), Conf("Sequential", "Fail")>>,
             <<Conf("Transform", "Disable"), Conf("Concurrent", "Disable")>>,
             <<Conf("Audit", "Disable"), Conf("FireAndForget", "Disable")>> }

MCEntrySets == {{}, MCPlugin}

MCResults == { Answer(TRUE, FALSE, TRUE, FALSE), Answer(FALSE, TRUE, FALSE, FALSE), Failure }

Inline == <<[iss |-> "local", key |-> "l"]>>

User(refresh) ==
  [role |-> "user", header |-> "x-user", inline |-> Inline, jwks |-> <<[iss |-> "idp", refresh |-> refresh]>>]
Client == [role |-> "client", header |-> "x-client", inline |-> Inline, jwks |-> << >>]

MCResolvers == <<User(1), Client>>
\* refresh_secs: 0
NeverRefreshed == <<User(0), Client>>

Jwt(iss, kid, key, roles) ==
  [form |-> "jwt", iss |-> iss, kid |-> kid, key |-> key, fault |-> "ok", roles |-> roles]
Both == {"user", "client"}
OfUser == Jwt("idp", {"k1"}, "a", {"user"})
Local == Jwt("local", {}, "l", Both)
Named == Jwt("local", {"k1"}, "l", Both)
ForUser == Jwt("local", {}, "l", {"user"})

Expired == [Local EXCEPT !.fault = "auth.token_expired"]
Stranger == Jwt("elsewhere", {}, "l", Both)
Garbled == [Local EXCEPT !.form = "garbled"]

Carries(user, client) == [h \in {"x-user", "x-client"} |-> IF h = "x-user" THEN user ELSE client]

Sends(headers) == [headers |-> headers, raw |-> {}]

MCRequests ==
  {Sends(Carries(t, Local)) : t \in {OfUser, Named}}
    \cup {Sends(Carries(Local, t)) : t \in {ForUser, Expired}}
    \cup {Sends([h \in {"x-user"} |-> t]) : t \in {Garbled, Stranger}}
    \cup {[headers |-> [h \in {"x-user"} |-> OfUser], raw |-> {Local}]}

MCJwks == {NoKeys, [k \in {"k1"} |-> "a"], [k \in {"k2"} |-> "b"]}

\* The other part stays in one of its initial states.
Idle ==
  /\ part = "executor" => published = [i \in Provider |-> <<NoKeys>>]
  /\ part = "identity" => conf = <<Conf("Sequential", "Disable"), Conf("Sequential", "Fail")>>

MCInit == Init /\ IdInit /\ part \in {"executor", "identity"} /\ Idle

MCNext ==
  \/ part = "executor" /\ Next /\ UNCHANGED <<idVars, part>>
  \/ part = "identity" /\ IdNext /\ UNCHANGED <<vars, part>>

all == <<vars, idVars, part>>

MCSpec == MCInit /\ [][MCNext]_all /\ IdFairness

\* The resolvers alone, for the configurations that check one property.
IdentitySpec == MCInit /\ part = "identity" /\ [][MCNext]_all /\ IdFairness
=============================================================================
