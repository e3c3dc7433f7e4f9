--------------------------- MODULE MCThroughput ----------------------------
(* Instances of Throughput: one client of two servers, and two clients of   *)
(* one server that also hears from a node that does not run the DCA.        *)
EXTENDS Throughput, TLC

CONSTANTS c1, c2, s1, s2

OneClient == (c1 :> <<s1, s2>>)
TwoClients == (c1 :> <<s1>>) @@ (c2 :> <<s1>>)
Twice == (c1 :> 2)
OnceEach == (c1 :> 1) @@ (c2 :> 1)
NoneTwice == [y \in {"START", "DATA", "TEST_ACK", "SUCCESS"} |-> 1]
StartTwice == [NoneTwice EXCEPT !["START"] = 2]
ListedFirst == <<s1>>

Stranger == {Packet("OTHER", "stranger", s1, <<"stranger", 0>>, {})}
=============================================================================
