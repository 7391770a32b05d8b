----------------------------- MODULE MCRequests -----------------------------
(* Two calls on two nodes that share a Valkey store with a TTL: calls of    *)
(* one agent and of two, with and without a subject, of routes that taint,  *)
(* gate, mint and ask, before and after the tool.                           *)
EXTENDS Requests, TLC

Subject(sub, agent, claim) == [sub |-> sub, agent |-> agent, claim |-> claim, actor |-> <<"app">>]
Alice == Subject({<<"alice">>}, {<<"s">>}, {})
Bob == Subject({<<"bob">>}, {<<"s">>}, {})
AliceByClaim == Subject({<<"alice">>}, {}, {<<"s">>})
AliceAlone == Subject({<<"alice">>}, {}, {})
Anonymous == Subject({}, {<<"s">>}, {})
\* alice with the session eu:s, and alice:eu with the session s.
AliceInEu == Subject({<<"alice">>}, {<<"eu", "s">>}, {})
AliceOfEu == Subject({<<"alice", "eu">>}, {<<"s">>}, {})

Taints(l) == [do |-> "taint", label |-> l]
Gates(l) == [do |-> "gate", label |-> l]
MCApprover == {"boss", "peer"}

Asks(on_error, from, scope) == [do |-> "elicit", on_error |-> on_error, from |-> from, scope |-> scope]
Mints(on_error) == [do |-> "delegate", on_error |-> on_error]

Open == [pre |-> <<>>, post |-> <<>>]
Approved == [pre |-> <<Taints("pii"), Asks("deny", {"boss"}, TRUE)>>, post |-> <<>>]
ApprovedByPeer == [pre |-> <<Asks("deny", {"peer"}, TRUE)>>, post |-> <<>>]
ApprovedTwice == [pre |-> <<Asks("deny", {"boss"}, TRUE), Asks("deny", {"peer"}, TRUE)>>, post |-> <<>>]
Advised == [pre |-> <<Asks("continue", {"boss"}, TRUE)>>, post |-> <<>>]
Unresolved == [pre |-> <<Asks("deny", {}, TRUE)>>, post |-> <<>>]
Exceeded == [pre |-> <<Asks("deny", {"boss"}, FALSE)>>, post |-> <<>>]
Gated == [pre |-> <<Gates("pii")>>, post |-> <<>>]
Reader == [pre |-> <<>>, post |-> <<Taints("pii")>>]
Minting == [pre |-> <<Mints("deny")>>, post |-> <<>>]
Other == [pre |-> <<Mints("continue"), Taints("hr")>>, post |-> <<Gates("pii")>>]

CONSTANTS c1, c2, n1, n2

Makes(who, route) == [who |-> who, route |-> route, nodes |-> {n1}, repeats |-> FALSE]
Repeats(who, route) == [Makes(who, route) EXCEPT !.repeats = TRUE]
\* Nobody repeats a call nobody has made.
Absent == Repeats(Bob, Open)
Anywhere(call_) == [call_ EXCEPT !.nodes = {n1, n2}]

MCScenarios ==
  {(c1 :> x[1]) @@ (c2 :> x[2]) : x \in
    {<<Makes(Anonymous, Approved), Repeats(Anonymous, Approved)>>,
     <<Anywhere(Makes(Alice, Approved)), Absent>>,
     <<Makes(Alice, Approved), Repeats(Alice, Gated)>>,
     <<Makes(Anonymous, Approved), Repeats(Anonymous, ApprovedByPeer)>>,
     <<Makes(Alice, ApprovedTwice), Absent>>,
     <<Makes(AliceInEu, Reader), Makes(AliceOfEu, Gated)>>,
     <<Makes(Alice, Reader), Makes(AliceByClaim, Gated)>>,
     <<Makes(Alice, Reader), Makes(Alice, Other)>>,
     <<Makes(Alice, Other), Makes(Bob, Reader)>>,
     <<Makes(AliceAlone, Advised), Makes(Bob, Minting)>>,
     <<Makes(AliceAlone, Unresolved), Makes(Alice, Exceeded)>>}}

\* The same on one node.
MCOneNode == {[c \in Caller |-> [s[c] EXCEPT !.nodes = {n1}]] : s \in MCScenarios}
=============================================================================
