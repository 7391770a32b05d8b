---------------------------- MODULE CibaApprover ----------------------------
(***************************************************************************)
(* The CIBA approver: a request for a human's approval is opened at the    *)
(* OpenID provider, polled on every retry and, once answered, checked      *)
(* against the approver the request was opened for.  The provider hands    *)
(* the answer out once; the approver that gave it is kept in the           *)
(* correlation store of the node that polled.  Each call waits for at most *)
(* one reply.                                                              *)
(***************************************************************************)
EXTENDS Integers, FiniteSets

CONSTANTS
  Caller,   \* concurrent calls
  Node,     \* nodes of the gateway, each with its own correlation store
  Approver, \* the humans that approve
  MaxIds    \* bound: approvals opened at the provider

ASSUME ApproverAssumption ==
  /\ MaxIds \in Nat \ {0} /\ IsFiniteSet(Caller) /\ IsFiniteSet(Node)
  /\ Approver \cap {"waiting", "answered", "refused", "nobody"} = {}

VARIABLES
  op,    \* external: the provider's approvals [hint, state]: who was asked, and "waiting",
         \* "answered", "refused" or who the tokens named that it was exchanged for
  corr,  \* correlations of a node: [expected, resolved] of an id; resolved is {} or {by}
  mail   \* the provider's reply to a call, {} or {reply}

approver == <<op, corr, mail>>

Id == 1 .. MaxIds

\* Who the provider's token names: an approver, who need not be the one asked, or
\* nobody because it has no such claim.
By == Approver \cup {"nobody"}

ApproverInit ==
  /\ op = [i \in {} |-> i]
  /\ corr = [n \in Node |-> [i \in {} |-> {}]]
  /\ mail = [c \in Caller |-> {}]

Known(n, i) == i \in DOMAIN corr[n]
-----------------------------------------------------------------------------
(* The provider: external *)

Opened == DOMAIN op

\* The approver an approval was opened for has given it.
GivenAsAsked(i) == op[i].state = op[i].hint

\* The backchannel endpoint; ids are counted up.
OpensApproval(c, from) ==
  \E i \in Id \ Opened :
    /\ 1 .. i - 1 \subseteq Opened
    /\ op' = [j \in Opened \cup {i} |-> IF j = i THEN [hint |-> from, state |-> "waiting"] ELSE op[j]]
    /\ mail' = [mail EXCEPT ![c] = {[kind |-> "opened", id |-> i]}]
    /\ UNCHANGED corr

\* The token endpoint.  What the human has answered, or that it took too long,
\* shows when it is asked for; an approval is exchanged for tokens once.
Replies(i) ==
  CASE op[i].state = "waiting"  -> {[kind |-> "authorization_pending", then |-> "waiting"]}
    [] op[i].state = "answered" -> {[kind |-> "token", then |-> by] : by \in By}
                               \cup {[kind |-> k, then |-> "refused"] : k \in {"access_denied", "expired_token"}}
    [] op[i].state = "refused"  -> {[kind |-> k, then |-> "refused"] : k \in {"access_denied", "expired_token"}}
    [] op[i].state \in By       -> {[kind |-> "invalid_grant", then |-> op[i].state]}

AnswersPoll(c, i) ==
  \E reply \in Replies(i) :
    /\ mail' = [mail EXCEPT ![c] = {reply}]
    /\ op' = [op EXCEPT ![i].state = reply.then]
    /\ UNCHANGED corr

\* The human approves or denies, or the request expires.
HumanAnswers(i) ==
  /\ op[i].state = "waiting"
  /\ op' = [op EXCEPT ![i].state = "answered"]
  /\ UNCHANGED <<corr, mail>>
-----------------------------------------------------------------------------
(* The plugin *)

\* do_dispatch, when the reply arrives: the id is correlated with whom was asked.
Dispatched(c, n, i, from) ==
  /\ corr' = [corr EXCEPT ![n] = [j \in DOMAIN corr[n] \cup {i} |->
                                    IF j = i THEN [expected |-> from, resolved |-> {}] ELSE corr[n][j]]]
  /\ mail' = [mail EXCEPT ![c] = {}]
  /\ UNCHANGED op

\* do_check replays an approval it has seen.
Cached(n, i) == Known(n, i) /\ corr[n][i].resolved # {}

\* do_check, when the reply arrives: what the status is, and, of an approval, who
\* gave it.  A node that does not know the id forgets that.
Status(reply) ==
  CASE reply.kind = "token" -> "approved"
    [] reply.kind = "authorization_pending" -> "pending"
    [] reply.kind = "access_denied" -> "denied"
    [] reply.kind = "expired_token" -> "expired"
    [] reply.kind = "invalid_grant" -> "error"

Checked(c, n, i, reply) ==
  /\ corr' = IF reply.kind = "token" /\ reply.then # "nobody" /\ Known(n, i)
             THEN [corr EXCEPT ![n][i].resolved = {reply.then}] ELSE corr
  /\ mail' = [mail EXCEPT ![c] = {}]
  /\ UNCHANGED op

\* Fault: an unknown id counts as valid.
ValidateUnlessOther(n, i) == Known(n, i) => corr[n][i].resolved \subseteq {corr[n][i].expected}

\* do_validate: the approver that answered is the one the approval was opened
\* for.  It is not told which approver the step that validates is about.
Validate(n, i) == Known(n, i) /\ corr[n][i].resolved = {corr[n][i].expected}

\* Nobody waits for the reply any more.
Lost(c) == mail' = [mail EXCEPT ![c] = {}] /\ UNCHANGED <<op, corr>>

\* The process of a node ends, and the calls it was serving.
ApproverRestart(n, served) ==
  /\ corr' = [corr EXCEPT ![n] = [i \in {} |-> {}]]
  /\ mail' = [c \in Caller |-> IF c \in served THEN {} ELSE mail[c]]
  /\ UNCHANGED op
=============================================================================
