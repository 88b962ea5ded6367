----------------------------- MODULE MCSkService -----------------------------
(* Three workers, one bio, four tasks: reads and writes, api calls and a   *)
(* timer job, run in place and on the bio.  No two of them that can run at *)
(* the same time share an engine, and none runs on the master, so that     *)
(* weak fairness of a handler is what the schedulers' queues give it.      *)
EXTENDS SkService, TLC

CONSTANTS w1, w2, w3, b1, m, r1, r2, x1, x2

MCWorker == {w1, w2, w3}
MCBio == <<b1>>
MCTask == {r1, r2, x1, x2}
MCElem == [t \in MCTask |-> IF t \in {r1, r2} THEN "READ" ELSE "WRITE"]
MCType == [t \in MCTask |-> IF t = x2 THEN "TIMER" ELSE "API"]
MCSrc == (r1 :> w1) @@ (r2 :> w2) @@ (x1 :> w3) @@ (x2 :> m)
MCBidx == (r1 :> 0) @@ (r2 :> 0) @@ (x1 :> -1) @@ (x2 :> 1)
==============================================================================
