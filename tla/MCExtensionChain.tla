-------------------------- MODULE MCExtensionChain --------------------------
(* Two parts, a behaviour being of one of them.  Extensions: one label, one  *)
(* header, hops with two authorities, and the capability sets that pair or   *)
(* separate reading and writing a slot.  Delegation: every pair of steps,    *)
(* each an exchange for one of the principals or one that goes wrong, for    *)
(* callers with some, all or none of the credentials.                        *)
EXTENDS ExtensionChain, TokenExchange

VARIABLE part

MCCapSets ==
  { {},
    {"append_labels", "read_inbound_credentials"},
    {"read_labels", "append_labels"},
    {"write_headers", "read_roles", "read_client"},
    {"read_headers", "write_headers", "read_agent"},
    {"append_delegation", "read_delegated_tokens"},
    {"read_delegation", "append_delegation", "write_candidate_constraint",
     "read_workload", "read_inbound_credentials", "read_delegated_tokens"} }

StepOf(delegator, subject, actor, permissions) ==
  [delegator |-> delegator, subject |-> subject, actor |-> actor, audience |-> "api",
   permissions |-> permissions, on_error |-> "continue"]

MCSteps ==
  {StepOf("oauth", s, a, <<1>>) : s \in {"user", "client"}, a \in {"none", "user", "client", "caller_workload"}}
  \cup {StepOf("oauth", s, "none", <<1>>) : s \in {"caller_workload", "this_workload", "users"}}
  \cup {StepOf("oauth", "user", "client", <<1, 2>>), StepOf("oauth", "caller_workload", "client", <<1>>)}
  \cup {StepOf("biscuit", "user", "none", <<>>), StepOf("biscuit", "client", "none", <<1>>)}
  \cup {[StepOf("oauth", "user", "none", <<1>>) EXCEPT !.audience = "", !.on_error = "deny"],
        [StepOf("oauth", "user", "none", <<1>>) EXCEPT !.audience = "db"],
        StepOf("missing", "user", "none", <<1>>)}

MCRoutes == MCSteps \X MCSteps

MCCallers == {{}, {"user"}, {"client", "caller_workload"}, {"user", "client", "caller_workload"}}

MCReplies == {{}, {<<>>}, {<<1>>}, {<<1, 2>>}}

IdleChain == ext = BareExt /\ by = {}

IdleExchange ==
  /\ steps = <<>> /\ caller = {} /\ at = 1 /\ leg = "over" /\ minted = {}
  /\ tokens = <<>> /\ bag = NothingGranted /\ heard = <<>>

MCInit ==
  \/ part = "extensions" /\ Init /\ IdleExchange
  \/ part = "delegation" /\ TxInit /\ IdleChain

MCNext ==
  /\ UNCHANGED part
  /\ \/ part = "extensions" /\ Next /\ UNCHANGED txVars
     \/ part = "delegation" /\ (TxNext \/ Done) /\ UNCHANGED vars

all == <<vars, txVars, part>>

MCSpec == MCInit /\ [][MCNext]_all

\* RemoteLikeLocal, in the part that has extensions: an edit by a plugin in a worker
\* (owned_from_returned_slot) has the effect of the same edit by one in the process
\* (merge_owned), unless it takes something away.
EditsAlikeFromWorkers == part = "extensions" => RemoteLikeLocal

\* Which plugin ran last matters to the steps, never to what may follow.
WithoutBy == <<ext, txVars, part>>
=============================================================================
