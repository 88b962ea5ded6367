------------------------------ MODULE MCSkEpPool ------------------------------
(* Requests to one endpoint: q1 has a timeout, q2 waits for its answer for *)
(* ever, q3 wants none.                                                    *)
EXTENDS SkEpPool

CONSTANTS q1, q2, q3

MixedReqs == {q1, q2, q3}
Timed == {q1}
Answered == {q1, q2}
==============================================================================
