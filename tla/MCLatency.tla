----------------------------- MODULE MCLatency ------------------------------
(* Instances of Latency: measurements of different neighbours, and of one    *)
(* of them again, on a list that holds another one already.                  *)
EXTENDS Latency

TwoNeighbours == {"A", "B"}
FirstThenSecond == <<"A", "B">>
FirstTwice == <<"A", "B", "A">>
ListedNone == <<>>
ListedSecond == <<"B">>
=============================================================================
