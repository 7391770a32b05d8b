--------------------------- MODULE DecisionPoints ---------------------------
(***************************************************************************)
(* The policy decision points of a host: the router the visitor fills as   *)
(* configurations are loaded, and the CEL, OPA and Cedar resolvers behind  *)
(* it.  CEL and OPA compile the text of a step once and share the result   *)
(* between calls through a cache that is bounded and never evicts.         *)
(*                                                                         *)
(* A resolver is a record of dialect, engine, on_error, cap (its           *)
(* max_cache_entries), packages (those of its global modules) and builds   *)
(* (does its factory succeed?).  What a step asks is a record of form      *)
(* ("text"; "none" for no inline module; "malformed" without its required  *)
(* argument), parses and package.                                          *)
(***************************************************************************)
EXTENDS Integers, Sequences, FiniteSets

CONSTANTS
  Client,
  Resolver,   \* the resolvers that configurations may declare
  Documents,  \* the configurations: sequences of resolvers
  Ask,        \* what a step may ask
  None        \* no resolver, nothing asked

ASSUME DecisionAssumption ==
  /\ \A r \in Resolver :
       r.cap \in Nat /\ r.engine \in {"cel", "opa", "cedar"} /\ r.on_error \in {"allow", "deny"}
  /\ \A d \in Documents : d \in Seq(Resolver)
  /\ None \notin Resolver \cup Ask

VARIABLES
  walk,       \* {}, or the entries that the load in progress has still to register
  router,     \* pdp_router: the resolvers it holds
  installed,  \* {}, or the router that the installed handlers captured
  compiled,   \* compiled[r]: the texts in the cache of r
  calls       \* calls[c]: where the call of c is, its resolver and what it asks,
              \* what the program yielded and what the call said

dpVars == <<walk, router, installed, compiled, calls>>

Waiting == [pc |-> "idle", by |-> None, ask |-> None, value |-> "none", said |-> "none"]

DpInit ==
  /\ walk = {} /\ router = {} /\ installed = {}
  /\ compiled = [r \in Resolver |-> {}]
  /\ calls = [c \in Client |-> Waiting]
-----------------------------------------------------------------------------
(* Loading a configuration.  Calls in flight hold the handler they began in. *)

\* The load replaces the snapshot, and with it the handlers.
BeginLoad(d) ==
  /\ walk = {}
  /\ walk' = {d} /\ installed' = {}
  /\ UNCHANGED <<router, compiled, calls>>

\* PdpRouter::register: the first resolver of a dialect is kept.
RegisterPdp(r) == IF \E x \in router : x.dialect = r.dialect THEN router ELSE router \cup {r}

\* build_pdp_from_config: a factory that fails ends the load.
BuildPdp ==
  \E left \in walk :
    /\ left # << >>
    /\ IF Head(left).builds
       THEN walk' = {Tail(left)} /\ router' = RegisterPdp(Head(left))
       ELSE walk' = {} /\ UNCHANGED router
    /\ UNCHANGED <<installed, compiled, calls>>

\* visit_route: each handler captures the router as it is now.
Install ==
  /\ walk = {<< >>}
  /\ walk' = {} /\ installed' = {router}
  /\ UNCHANGED <<router, compiled, calls>>
-----------------------------------------------------------------------------
(* A call.  on_error governs what is degenerate at run time only. *)

Says(c, said) == calls' = [calls EXCEPT ![c].pc = "done", ![c].said = said]

\* CEL must be given an expression; OPA may go without an inline module.
Malformed(r, ask) == ask.form = "malformed" \/ (r.engine = "cel" /\ ask.form = "none")

\* PdpRouter::evaluate, and the resolver's reading of the arguments.
Asks(c, handler, dialect, ask) ==
  LET found == {r \in handler : r.dialect = dialect}
      r == CHOOSE x \in found : TRUE
      cached == ask.form = "text" /\ r.engine # "cedar"
      At(pc, by, said) == [pc |-> pc, by |-> by, ask |-> ask, value |-> "none", said |-> said]
  IN  /\ calls[c].pc = "idle" /\ handler \in installed
      /\ calls' = [calls EXCEPT ![c] =
                     IF found = {} THEN At("done", None, "error")
                     ELSE IF Malformed(r, ask) THEN At("done", r, "error")
                     ELSE At(IF cached THEN "lookup" ELSE "evaluate", r, "none")]
      /\ UNCHANGED <<walk, router, installed, compiled>>

\* The read lock, held for the lookup only.
LookUp(c) ==
  /\ calls[c].pc = "lookup"
  /\ calls' = [calls EXCEPT ![c].pc = IF calls[c].ask \in compiled[calls[c].by] THEN "evaluate" ELSE "compile"]
  /\ UNCHANGED <<walk, router, installed, compiled>>

Collides(r, ask) == r.engine = "opa" /\ ask.package \in r.packages

\* A text that does not parse, or whose package a global module has, is refused
\* whatever on_error says.
Admissible(r, ask) == ask.parses /\ ~Collides(r, ask)

\* Fault: the prepared program is cached before its package is looked at.
CompileCachesFirst(c) ==
  LET r == calls[c].by
      ask == calls[c].ask
  IN  /\ calls[c].pc = "compile"
      /\ compiled' = [compiled EXCEPT ![r] = IF ask.parses THEN @ \cup {ask} ELSE @]
      /\ IF Admissible(r, ask) THEN calls' = [calls EXCEPT ![c].pc = "insert"] ELSE Says(c, "deny")
      /\ UNCHANGED <<walk, router, installed>>

\* Compiles without a lock.
Compile(c) ==
  /\ calls[c].pc = "compile"
  /\ IF Admissible(calls[c].by, calls[c].ask)
     THEN calls' = [calls EXCEPT ![c].pc = "insert"]
     ELSE Says(c, "deny")
  /\ UNCHANGED <<walk, router, installed, compiled>>

\* The check and the insertion share one hold of the write lock.
HasRoom(r, ask) == Cardinality(compiled[r]) < r.cap \/ ask \in compiled[r]

\* CEL treats a full cache as an error of the evaluation, OPA as one of the text.
WhenFull(r) == IF r.engine = "cel" THEN r.on_error ELSE "deny"

Admit(c) ==
  LET r == calls[c].by
      ask == calls[c].ask
  IN  /\ calls[c].pc = "insert"
      /\ IF HasRoom(r, ask)
         THEN /\ compiled' = [compiled EXCEPT ![r] = @ \cup {ask}]
              /\ calls' = [calls EXCEPT ![c].pc = "evaluate"]
         ELSE Says(c, WhenFull(r)) /\ UNCHANGED compiled
      /\ UNCHANGED <<walk, router, installed>>

\* What a program can yield in the request's bag: external.
Yields(engine) ==
  CASE engine = "cel" -> {"true", "false", "other", "error"}
    [] engine = "opa" -> {"true", "false", "undefined", "allowing", "denying", "silent",
                          "violations", "no violations", "other", "error", "panic"}
    [] engine = "cedar" -> {"allow", "deny", "allow with errors", "invalid request"}

CelDecides(r, value) ==
  CASE value = "true" -> "allow" [] value = "false" -> "deny" [] OTHER -> r.on_error

\* map_query_result; a panic of the blocking task always denies.
OpaDecides(r, value) ==
  CASE value \in {"true", "allowing", "no violations"} -> "allow"
    [] value \in {"false", "undefined", "denying", "violations", "panic"} -> "deny"
    [] OTHER -> r.on_error

\* A policy that failed outweighs the decision.
Translate(value) == IF value = "allow" THEN "allow" ELSE "deny"

CedarDecides(value) == IF value = "invalid request" THEN "error" ELSE Translate(value)

Decides(r, value) ==
  CASE r.engine = "cel" -> CelDecides(r, value)
    [] r.engine = "opa" -> OpaDecides(r, value)
    [] OTHER -> CedarDecides(value)

Evaluate(c, value) ==
  /\ calls[c].pc = "evaluate" /\ value \in Yields(calls[c].by.engine)
  /\ calls' = [calls EXCEPT ![c].pc = "done", ![c].value = value, ![c].said = Decides(calls[c].by, value)]
  /\ UNCHANGED <<walk, router, installed, compiled>>

Return(c) ==
  /\ calls[c].pc = "done"
  /\ calls' = [calls EXCEPT ![c] = Waiting]
  /\ UNCHANGED <<walk, router, installed, compiled>>

DpNext ==
  \/ \E d \in Documents : BeginLoad(d)
  \/ BuildPdp
  \/ Install
  \/ \E c \in Client :
       \/ \E handler \in installed, r \in Resolver, ask \in Ask : Asks(c, handler, r.dialect, ask)
       \/ LookUp(c)
       \/ Compile(c)
       \/ Admit(c)
       \/ \E value \in Yields("cel") \cup Yields("opa") \cup Yields("cedar") : Evaluate(c, value)
       \/ Return(c)

DpSpec == DpInit /\ [][DpNext]_dpVars
-----------------------------------------------------------------------------
(* Properties *)

\* However many calls compile at once, no cache holds more than its cap: the
\* length is read again under the lock that inserts.
CacheBounded == \A r \in Resolver : Cardinality(compiled[r]) <= r.cap

\* A call whose text is in the cache is evaluated, although it missed and the
\* cache has filled since: "the `contains_key` guard keeps a same-key racer from
\* being rejected once the cache is full".
AdmittedServed ==
  [][\A c \in Client :
       calls[c].pc \in {"lookup", "compile", "insert"} /\ calls'[c].pc = "done"
         => calls[c].ask \notin compiled[calls[c].by]]_dpVars

Granting == {"true", "allowing", "no violations", "allow"}

Refusing == {"false", "undefined", "denying", "violations", "panic",
             "deny", "allow with errors", "invalid request"}

\* A call allows only because its program said so, or because on_error says so of
\* what is degenerate; a text that does not parse or that reaches into a global
\* package never allows, whoever compiled it before and whatever on_error says.
AllowIsEarned ==
  \A c \in Client :
    LET r == calls[c].by
        ask == calls[c].ask
    IN  calls[c].said = "allow" =>
          /\ r # None
          /\ ask.form = "text" /\ r.engine # "cedar" => ask.parses
          /\ ask.form = "text" /\ r.engine = "opa" => ask.package \notin r.packages
          /\ \/ calls[c].value \in Granting
             \/ r.on_error = "allow" /\ calls[c].value \notin Refusing

\* Every call is answered by the one resolver that the router holds for its
\* dialect, however often configurations are loaded meanwhile: a handler's router
\* and a later one agree on the dialects they share.
ResolverOfRecord ==
  /\ \A r, s \in router : r.dialect = s.dialect => r = s
  /\ \A c \in Client : calls[c].by \in router \cup {None}

\* A call is decided by the resolver of its dialect, on what its program and its
\* configuration say, within the bounds of the caches.
DecisionsSound == CacheBounded /\ AllowIsEarned /\ ResolverOfRecord
=============================================================================
