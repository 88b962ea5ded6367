----------------------------- MODULE SkServiceAbs -----------------------------
(***************************************************************************)
(* What a service promises to the modules and timers that call it, with no *)
(* engines, messages, queues or counters: a readers-writer lock with       *)
(* admission control.  A request waits, and then is either granted once or *)
(* refused once; it is refused only when at least MaxSlots other requests  *)
(* of the service are waiting; a granted write runs alone, granted reads   *)
(* share.                                                                  *)
(***************************************************************************)
EXTENDS Naturals, FiniteSets

CONSTANTS Task, Elem, MaxSlots

VARIABLE client   \* what each caller can observe of its request

States == {"idle", "waiting", "running", "served", "refused"}

Waiting == {t \in Task : client[t] = "waiting"}
Running == {t \in Task : client[t] = "running"}

Init == client = [t \in Task |-> "idle"]

Move(t, from, to) == client[t] = from /\ client' = [client EXCEPT ![t] = to]

Request(t) == Move(t, "idle", "waiting")

Grant(t) ==
  /\ Move(t, "waiting", "running")
  /\ IF Elem[t] = "WRITE" THEN Running = {} ELSE \A u \in Running : Elem[u] = "READ"

Refuse(t) ==
  /\ Move(t, "waiting", "refused")
  /\ Cardinality(Waiting \ {t}) >= MaxSlots

Finish(t) == Move(t, "running", "served")

Return(t) == Move(t, "served", "idle") \/ Move(t, "refused", "idle")

Next ==
  \E t \in Task : Request(t) \/ Grant(t) \/ Refuse(t) \/ Finish(t) \/ Return(t)

Spec == Init /\ [][Next]_client
==============================================================================
