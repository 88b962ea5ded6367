---------------------------- MODULE SkEntity_proofs ----------------------------
(***************************************************************************)
(* Proofs about SkEntity, for any number of transactions, both kinds of    *)
(* entity and every workflow.  EntityInv adds to IInv what makes it        *)
(* inductive: the input queue holds exactly the queued transactions, each  *)
(* once; an entity that is listed for destruction is never active again;   *)
(* and with the concurrent option the queue is empty.                      *)
(***************************************************************************)
EXTENDS SkEntity, TLAPS, FiniteSetTheorems, SequenceTheorems

(* The input queue iq agrees with phases ph.                               *)
QueueHolds(iq, ph) ==
  /\ iq \in Seq(Txn)
  /\ \A i, j \in 1..Len(iq) : iq[i] = iq[j] => i = j
  /\ \A u \in Txn : ph[u] = "queued" <=> \E i \in 1..Len(iq) : iq[i] = u

(* The transactions of entity->txns under phases ph.                       *)
InTxnsOf(ph) == {u \in Txn : ph[u] \in {"running", "packed"}}

EntityInv ==
  /\ TypeOK
  /\ QueueHolds(iqueue, txn)
  /\ taskcnt = Cardinality(InTxns)
  /\ listed > 0 => status # "ACTIVE"
  /\ workflow.concurrent => iqueue = <<>>
  /\ ~workflow.concurrent => taskcnt <= 1
  /\ ~workflow.packFails => status # "INACTIVE"
  /\ NoneKilled /\ ListedOnceWhenDead /\ FaultCause

(* Any set of transactions is finite.                                      *)
LEMMA TxnSetFinite ==
  ASSUME NEW S, S \subseteq Txn
  PROVE  IsFiniteSet(S) /\ Cardinality(S) \in Nat
  BY FS_Subset, FS_CardinalityType, EntityAssumption

(* A queue without duplicates is as long as the set it holds is large.     *)
LEMMA QueueLength ==
  ASSUME NEW iq, NEW ph, QueueHolds(iq, ph)
  PROVE  Len(iq) = Cardinality({u \in Txn : ph[u] = "queued"})
<1> DEFINE Q == {u \in Txn : ph[u] = "queued"}
           f == [i \in 1..Len(iq) |-> iq[i]]
<1>1. iq \in Seq(Txn) /\ Len(iq) \in Nat /\ \A i \in 1..Len(iq) : iq[i] \in Txn
  BY DEF QueueHolds
<1>2. f \in Bijection(1..Len(iq), Q)
  BY <1>1 DEF QueueHolds, Bijection, Injection, Surjection, IsInjective
<1>3. ExistsBijection(1..Len(iq), Q)
  BY <1>2 DEF ExistsBijection
<1> QED
  BY <1>1, <1>3, FS_CountingElements

(* sk_entity_iqueue_push of a transaction that was not queued.             *)
LEMMA PushKeeps ==
  ASSUME NEW iq, NEW ph \in [Txn -> TxnPhases], QueueHolds(iq, ph),
         NEW t \in Txn, ph[t] # "queued"
  PROVE  QueueHolds(Append(iq, t), [ph EXCEPT ![t] = "queued"])
<1> DEFINE q == Append(iq, t)
           p == [ph EXCEPT ![t] = "queued"]
<1>1. /\ iq \in Seq(Txn) /\ Len(iq) \in Nat
      /\ q \in Seq(Txn) /\ Len(q) = Len(iq) + 1
      /\ \A i \in 1..Len(iq) : q[i] = iq[i]
      /\ q[Len(iq) + 1] = t
  BY DEF QueueHolds
<1>2. \A i \in 1..Len(iq) : iq[i] # t
  BY DEF QueueHolds
<1> HIDE DEF q
<1>3. \A i, j \in 1..Len(q) : q[i] = q[j] => i = j
  <2> TAKE i, j \in 1..Len(q)
  <2>1. i \in 1..Len(iq) \/ i = Len(iq) + 1
    BY <1>1
  <2>2. j \in 1..Len(iq) \/ j = Len(iq) + 1
    BY <1>1
  <2> QED
    BY <1>1, <1>2, <2>1, <2>2 DEF QueueHolds
<1>4. ASSUME NEW u \in Txn
      PROVE  p[u] = "queued" <=> \E i \in 1..Len(q) : q[i] = u
  <2>1. CASE u = t
    BY <1>1, <2>1
  <2>2. CASE u # t
    <3>1. (\E i \in 1..Len(q) : q[i] = u) <=> (\E i \in 1..Len(iq) : iq[i] = u)
      BY <1>1, <2>2
    <3> QED
      BY <2>2, <3>1 DEF QueueHolds
  <2> QED
    BY <2>1, <2>2
<1> QED
  BY <1>1, <1>3, <1>4 DEF QueueHolds, q

(* sk_entity_iqueue_pop, with the popped transaction in another phase.     *)
LEMMA PopKeeps ==
  ASSUME NEW iq, NEW ph, NEW ph2, QueueHolds(iq, ph), iq # <<>>,
         ph2[Head(iq)] # "queued",
         \A u \in Txn \ {Head(iq)} : ph2[u] = "queued" <=> ph[u] = "queued"
  PROVE  Head(iq) \in Txn /\ ph[Head(iq)] = "queued" /\ QueueHolds(Tail(iq), ph2)
<1> DEFINE q == Tail(iq)
<1>1. /\ iq \in Seq(Txn) /\ Len(iq) \in Nat \ {0} /\ Head(iq) = iq[1]
      /\ q \in Seq(Txn) /\ Len(q) = Len(iq) - 1
      /\ \A i \in 1..Len(q) : q[i] = iq[i + 1]
      /\ \A i \in 1..Len(iq) : iq[i] \in Txn
  BY HeadTailProperties DEF QueueHolds
<1>2. Head(iq) \in Txn /\ ph[Head(iq)] = "queued"
  BY <1>1 DEF QueueHolds
<1> HIDE DEF q
<1>3. \A i, j \in 1..Len(q) : q[i] = q[j] => i = j
  <2> TAKE i, j \in 1..Len(q)
  <2>1. i + 1 \in 1..Len(iq) /\ j + 1 \in 1..Len(iq)
    BY <1>1
  <2>2. iq[i + 1] = iq[j + 1] => i + 1 = j + 1
    BY <2>1 DEF QueueHolds
  <2> QED
    BY <1>1, <2>2
<1>4. ASSUME NEW u \in Txn
      PROVE  ph2[u] = "queued" <=> \E i \in 1..Len(q) : q[i] = u
  <2>1. CASE u = Head(iq)
    <3>1. ASSUME NEW i \in 1..Len(q), q[i] = u PROVE FALSE
      <4>1. i + 1 \in 1..Len(iq) /\ iq[i + 1] = iq[1] /\ 1 \in 1..Len(iq)
        BY <1>1, <2>1, <3>1
      <4>2. i + 1 = 1
        BY <4>1 DEF QueueHolds
      <4> QED
        BY <4>2
    <3> QED
      BY <2>1, <3>1
  <2>2. CASE u # Head(iq)
    <3>1. ASSUME NEW i \in 1..Len(iq), iq[i] = u
          PROVE  i - 1 \in 1..Len(q) /\ q[i - 1] = u
      <4>1. i # 1
        BY <1>1, <2>2, <3>1
      <4> QED
        BY <1>1, <3>1, <4>1
    <3>2. ASSUME NEW i \in 1..Len(q), q[i] = u
          PROVE  i + 1 \in 1..Len(iq) /\ iq[i + 1] = u
      BY <1>1, <3>2
    <3>3. (\E i \in 1..Len(q) : q[i] = u) <=> (\E i \in 1..Len(iq) : iq[i] = u)
      BY <3>1, <3>2
    <3> QED
      BY <2>2, <3>3 DEF QueueHolds
  <2> QED
    BY <2>1, <2>2
<1> QED
  BY <1>1, <1>2, <1>3, <1>4 DEF QueueHolds, q

(* EntityInv says all that IInv says.                                      *)
LEMMA EntityInvImplies ==
  ASSUME EntityInv
  PROVE  IInv /\ FaultCause
<1>1. Len(iqueue) = Cardinality({t \in Txn : txn[t] = "queued"})
  BY QueueLength DEF EntityInv
<1> QED
  BY <1>1 DEF EntityInv, IInv, CountsMatch, QueueHolds, SerialUnlessConcurrent

(* A transaction starts: entity->txns has one more element.                *)
LEMMA StartCounts ==
  ASSUME NEW ph, NEW ph2, NEW t \in Txn, InTxnsOf(ph2) = InTxnsOf(ph) \cup {t},
         t \notin InTxnsOf(ph)
  PROVE  Cardinality(InTxnsOf(ph2)) = Cardinality(InTxnsOf(ph)) + 1
<1>1. InTxnsOf(ph) \subseteq Txn
  BY DEF InTxnsOf
<1> QED
  BY <1>1, TxnSetFinite, FS_AddElement

(* A transaction leaves entity->txns: there was at least one.              *)
LEMMA LeaveCounts ==
  ASSUME NEW ph, NEW ph2, NEW t \in Txn, InTxnsOf(ph2) = InTxnsOf(ph) \ {t},
         t \in InTxnsOf(ph)
  PROVE  /\ Cardinality(InTxnsOf(ph2)) = Cardinality(InTxnsOf(ph)) - 1
         /\ Cardinality(InTxnsOf(ph)) > 0
         /\ Cardinality(InTxnsOf(ph2)) \in Nat
<1>1. InTxnsOf(ph) \subseteq Txn /\ InTxnsOf(ph2) \subseteq Txn
  BY DEF InTxnsOf
<1>2. IsFiniteSet(InTxnsOf(ph)) /\ Cardinality(InTxnsOf(ph)) \in Nat
      /\ Cardinality(InTxnsOf(ph2)) \in Nat
  BY <1>1, TxnSetFinite
<1>3. Cardinality(InTxnsOf(ph)) # 0
  BY <1>2, FS_EmptySet
<1> QED
  BY <1>2, <1>3, FS_RemoveElement, SMTT(60)

(* The end of a transaction never delivers another one: without the        *)
(* concurrent option the entity still counts this one, with it the queue   *)
(* is empty.                                                               *)
LEMMA NothingDeliveredAtEnd ==
  ASSUME EntityInv, NEW t \in Txn, txn[t] \in {"running", "packed"}
  PROVE  ~(Idle(taskcnt) /\ iqueue # <<>>) /\ taskcnt > 0
<1>1. t \in InTxns /\ InTxns \subseteq Txn
  BY DEF InTxns
<1>2. IsFiniteSet(InTxns) /\ taskcnt = Cardinality(InTxns) /\ taskcnt \in Nat
  BY <1>1, TxnSetFinite DEF EntityInv
<1>3. taskcnt > 0
  BY <1>1, <1>2, FS_EmptySet
<1> QED
  BY <1>2, <1>3 DEF Idle, EntityInv

(* What the end of a transaction does.                                     *)
LEMMA TxnGoneKeeps ==
  ASSUME EntityInv, NEW t \in Txn, txn[t] \in {"running", "packed"}, Up,
         NEW st \in StatusAfterPack(status), TxnGone(t, st),
         UNCHANGED <<workflow, kind, memory, fault>>
  PROVE  EntityInv'
<1>0. /\ TypeOK /\ QueueHolds(iqueue, txn) /\ taskcnt = Cardinality(InTxns)
      /\ listed > 0 => status # "ACTIVE"
      /\ workflow.concurrent => iqueue = <<>>
      /\ ~workflow.concurrent => taskcnt <= 1
      /\ ~workflow.packFails => status # "INACTIVE"
      /\ NoneKilled /\ ListedOnceWhenDead /\ FaultCause
  BY DEF EntityInv
<1>1. ~(Idle(taskcnt) /\ iqueue # <<>>) /\ taskcnt > 0
  BY NothingDeliveredAtEnd
<1>2. /\ iqueue' = iqueue /\ taskcnt' = taskcnt - 1
      /\ txn' = [u \in Txn |-> IF u = t THEN "freed" ELSE txn[u]]
      /\ IF (st # "ACTIVE" \/ kind = "udp") /\ taskcnt - 1 = 0
           THEN MgrDel(st)
           ELSE status' = st /\ UNCHANGED <<open, listed>>
  BY <1>1 DEF TxnGone
<1>3. /\ st \in {"ACTIVE", "INACTIVE", "DEAD"}
      /\ st = status \/ (workflow.packFails /\ st = "INACTIVE")
  BY <1>0 DEF StatusAfterPack, TypeOK
<1>4. taskcnt' \in Nat /\ taskcnt' = Cardinality(InTxns')
  <2>1. /\ InTxnsOf(txn) = InTxns /\ InTxnsOf(txn') = InTxns'
        /\ t \in InTxnsOf(txn) /\ InTxnsOf(txn') = InTxnsOf(txn) \ {t}
    BY <1>2 DEF InTxns, InTxnsOf
  <2> QED
    BY <1>0, <1>2, <2>1, LeaveCounts
<1>5. QueueHolds(iqueue, txn)'
  BY <1>0, <1>2 DEF QueueHolds
<1>5a. open' \in BOOLEAN
  BY <1>0, <1>2 DEF MgrDel, TypeOK
<1>6. /\ listed' \in Nat
      /\ \/ /\ status' = "DEAD"
            /\ \/ st # "DEAD" /\ listed' = listed + 1
               \/ st = "DEAD" /\ listed' = listed
         \/ /\ status' = st /\ listed' = listed
            /\ taskcnt' = 0 => st = "ACTIVE"
  BY <1>0, <1>2 DEF MgrDel, TypeOK
<1>7. TypeOK'
  <2>1. txn' \in [Txn -> TxnPhases]
    BY <1>0, <1>2 DEF TypeOK, TxnPhases
  <2> QED
    BY <1>0, <1>2, <1>3, <1>4, <1>5a, <1>6, <2>1 DEF TypeOK
<1>8. listed' > 0 => status' # "ACTIVE"
  BY <1>0, <1>3, <1>6
<1>9. NoneKilled'
  <2>1. \A u \in Txn : txn'[u] # "killed"
    BY <1>0, <1>2 DEF NoneKilled
  <2>2. listed' > 0 /\ taskcnt' = 0 => status' = "DEAD"
    BY <1>3, <1>6, <1>8
  <2> QED
    BY <2>1, <2>2 DEF NoneKilled
<1>10. ~workflow.packFails => status' # "INACTIVE"
  BY <1>0, <1>3, <1>6
<1>11. ListedOnceWhenDead'
  BY <1>0, <1>3, <1>6 DEF ListedOnceWhenDead, TypeOK, Up
<1>12. ~workflow.concurrent => taskcnt' <= 1
  BY <1>0, <1>1, <1>2, <1>4
<1>13. FaultCause'
  BY <1>0 DEF FaultCause
<1> QED
  BY <1>0, <1>2, <1>4, <1>5, <1>7, <1>8, <1>9, <1>10, <1>11, <1>12, <1>13 DEF EntityInv

(* Input that completes a transaction: it is queued, and the head of the   *)
(* queue is started if the entity is idle.                                 *)
LEMMA UnpackOkKeeps ==
  ASSUME EntityInv, NEW t \in Txn, UnpackOk(t)
  PROVE  EntityInv'
<1>0. /\ TypeOK /\ QueueHolds(iqueue, txn) /\ taskcnt = Cardinality(InTxns)
      /\ workflow.concurrent => iqueue = <<>>
      /\ ~workflow.concurrent => taskcnt <= 1
      /\ listed > 0 => status # "ACTIVE"
      /\ NoneKilled /\ ListedOnceWhenDead /\ FaultCause
  BY DEF EntityInv
<1> DEFINE iq == Append(iqueue, t)
           ph == [txn EXCEPT ![t] = "queued"]
<1>1. /\ Deliver(iq, taskcnt, ph) /\ status = "ACTIVE"
      /\ txn[t] \in {"half", "unused"}
      /\ UNCHANGED <<workflow, kind, status, open, listed, memory, fault>>
  BY DEF UnpackOk, Readable, IsInput
<1>2. txn \in [Txn -> TxnPhases] /\ ph \in [Txn -> TxnPhases] /\ taskcnt \in Nat
      /\ iqueue \in Seq(Txn)
  BY <1>0 DEF TypeOK, TxnPhases
<1>3. QueueHolds(iq, ph)
  BY <1>0, <1>1, <1>2, PushKeeps
<1>4. iq \in Seq(Txn) /\ iq # <<>> /\ InTxnsOf(ph) = InTxns /\ InTxns' = InTxnsOf(txn')
      /\ (\A u \in Txn : ph[u] # "killed")
  BY <1>0, <1>1, <1>2 DEF InTxns, InTxnsOf, NoneKilled
<1>5. workflow.concurrent => Tail(iq) = <<>>
  BY <1>0, <1>2
<1> HIDE DEF iq, ph
<1>6. CASE /\ Idle(taskcnt) /\ iq # <<>>
           /\ iqueue' = Tail(iq) /\ taskcnt' = taskcnt + 1
           /\ txn' = [ph EXCEPT ![Head(iq)] = "running"]
  <2>0. Head(iq) \in Txn
    BY <1>4
  <2>1. /\ txn'[Head(iq)] = "running"
        /\ \A u \in Txn \ {Head(iq)} : txn'[u] = ph[u]
        /\ txn' \in [Txn -> TxnPhases]
    BY <1>2, <1>6, <2>0 DEF TxnPhases
  <2>2. ph[Head(iq)] = "queued" /\ QueueHolds(Tail(iq), txn')
    BY <1>3, <1>4, <2>1, PopKeeps
  <2>3. QueueHolds(iqueue, txn)'
    BY <1>6, <2>2 DEF QueueHolds
  <2>4. /\ InTxnsOf(txn') = InTxnsOf(ph) \cup {Head(iq)}
        /\ Head(iq) \notin InTxnsOf(ph)
    BY <2>0, <2>1, <2>2 DEF InTxnsOf
  <2>5. Cardinality(InTxns') = taskcnt + 1
    BY <1>0, <1>4, <2>0, <2>4, StartCounts
  <2>6. TypeOK'
    BY <1>0, <1>1, <1>2, <1>6, <2>1, <2>3 DEF TypeOK, QueueHolds
  <2>7. ~workflow.concurrent => taskcnt' <= 1
    BY <1>2, <1>6 DEF Idle
  <2>8. NoneKilled'
    BY <1>0, <1>1, <1>2, <1>4, <1>6, <2>1 DEF NoneKilled
  <2> QED
    BY <1>0, <1>1, <1>5, <1>6, <2>3, <2>5, <2>6, <2>7, <2>8
    DEF EntityInv, ListedOnceWhenDead, FaultCause
<1>7. CASE /\ ~(Idle(taskcnt) /\ iq # <<>>)
           /\ iqueue' = iq /\ taskcnt' = taskcnt /\ txn' = ph
  <2>1. QueueHolds(iqueue, txn)'
    BY <1>3, <1>7 DEF QueueHolds
  <2>2. TypeOK'
    BY <1>0, <1>1, <1>2, <1>4, <1>7 DEF TypeOK
  <2>3. NoneKilled'
    BY <1>0, <1>1, <1>4, <1>7 DEF NoneKilled
  <2>4. ~workflow.concurrent
    BY <1>4, <1>7 DEF Idle
  <2> QED
    BY <1>0, <1>1, <1>4, <1>7, <2>1, <2>2, <2>3, <2>4
    DEF EntityInv, ListedOnceWhenDead, FaultCause
<1> QED
  BY <1>1, <1>6, <1>7 DEF Deliver

(* EntityInv survives every step.                                          *)
LEMMA EntityStep ==
  ASSUME EntityInv, [Next]_vars
  PROVE  EntityInv'
<1>0. /\ TypeOK /\ QueueHolds(iqueue, txn) /\ taskcnt = Cardinality(InTxns)
      /\ listed > 0 => status # "ACTIVE"
      /\ workflow.concurrent => iqueue = <<>>
      /\ ~workflow.concurrent => taskcnt <= 1
      /\ ~workflow.packFails => status # "INACTIVE"
      /\ NoneKilled /\ ListedOnceWhenDead /\ FaultCause
  BY DEF EntityInv
<1>1. CASE PeerClose
  <2>1. /\ Up /\ MgrDel(status)
        /\ UNCHANGED <<workflow, kind, iqueue, taskcnt, txn, memory, fault>>
    BY <1>1 DEF PeerClose
  <2>2. TypeOK' /\ status' = "DEAD"
    <3>1. open' \in BOOLEAN
      BY <1>0, <2>1 DEF TypeOK, MgrDel
    <3>2. status' = "DEAD" /\ listed' \in Nat
      BY <1>0, <2>1 DEF TypeOK, MgrDel
    <3> QED
      BY <1>0, <2>1, <3>1, <3>2 DEF TypeOK
  <2>3. ListedOnceWhenDead'
    BY <1>0, <2>1 DEF ListedOnceWhenDead, MgrDel, TypeOK, Up
  <2>4. NoneKilled' /\ QueueHolds(iqueue, txn)' /\ InTxns' = InTxns /\ FaultCause'
    BY <1>0, <2>1, <2>2 DEF NoneKilled, QueueHolds, InTxns, FaultCause
  <2> QED
    BY <1>0, <2>1, <2>2, <2>3, <2>4 DEF EntityInv
<1>2. CASE CleanDead
  <2>1. Up /\ listed > 0 /\ taskcnt = 0
    BY <1>2 DEF CleanDead
  <2>2. InTxns = {}
    <3>1. InTxns \subseteq Txn
      BY DEF InTxns
    <3> QED
      BY <1>0, <2>1, <3>1, TxnSetFinite, FS_EmptySet
  <2>3. CASE iqueue # <<>> /\ Crash("abort")
    <3>1. /\ ~workflow.concurrent /\ fault' = "abort"
          /\ UNCHANGED <<workflow, kind, status, open, iqueue, taskcnt, txn, listed, memory>>
      BY <1>0, <2>3 DEF Crash
    <3> QED
      BY <1>0, <3>1
      DEF EntityInv, TypeOK, QueueHolds, InTxns, NoneKilled, ListedOnceWhenDead, FaultCause
  <2>4. CASE /\ iqueue = <<>>
             /\ memory' = "freed" /\ taskcnt' = 0 /\ listed' = listed - 1
             /\ txn' = [t \in Txn |-> IF t \in InTxns THEN "killed" ELSE txn[t]]
             /\ UNCHANGED <<workflow, kind, status, open, iqueue, fault>>
    <3>1. txn' = txn
      BY <1>0, <2>2, <2>4 DEF TypeOK
    <3>2. /\ status = "DEAD" /\ listed' \in Nat
          /\ ~workflow.packFails => listed' = 0
      BY <1>0, <2>1, <2>4 DEF NoneKilled, ListedOnceWhenDead, TypeOK, Up
    <3>3. TypeOK'
      BY <1>0, <2>4, <3>1, <3>2 DEF TypeOK
    <3>4. /\ QueueHolds(iqueue, txn)' /\ InTxns' = InTxns
          /\ NoneKilled' /\ FaultCause' /\ ListedOnceWhenDead'
      BY <1>0, <2>4, <3>1, <3>2
      DEF QueueHolds, InTxns, NoneKilled, FaultCause, ListedOnceWhenDead
    <3> QED
      BY <1>0, <2>1, <2>4, <3>2, <3>3, <3>4 DEF EntityInv
  <2> QED
    BY <1>2, <2>3, <2>4 DEF CleanDead, EntityDestroy
<1>3. CASE CleanFreed
  <2>1. /\ fault' = "use_after_free" /\ fault = "none" /\ workflow.packFails
        /\ UNCHANGED <<workflow, kind, status, open, iqueue, taskcnt, txn, listed, memory>>
    BY <1>0, <1>3 DEF CleanFreed, Crash, ListedOnceWhenDead, TypeOK
  <2> QED
    BY <1>0, <2>1
    DEF EntityInv, TypeOK, QueueHolds, InTxns, NoneKilled, ListedOnceWhenDead, FaultCause
<1>4. ASSUME NEW t \in Txn, UnpackMore(t) \/ UnpackError(t) PROVE EntityInv'
  <2>1. /\ txn' = [txn EXCEPT ![t] = "half"] /\ txn[t] \in {"half", "unused"}
        /\ status = "ACTIVE" /\ Up
        /\ UNCHANGED <<workflow, kind, iqueue, taskcnt, fault>>
    BY <1>4 DEF UnpackMore, UnpackError, Readable, IsInput
  <2>2. \/ UNCHANGED <<status, open, listed, memory>>
        \/ status' = "DEAD" /\ open' = FALSE /\ listed' = listed + 1 /\ memory' = memory
        \/ status' = "DEAD" /\ open' = FALSE /\ listed' = listed /\ memory' = "freed"
    BY <1>4, <2>1 DEF UnpackMore, UnpackError, MgrDel
  <2>3. TypeOK'
    <3>1. open' \in BOOLEAN
      BY <1>0, <2>2 DEF TypeOK
    <3>2. /\ status' \in {"ACTIVE", "INACTIVE", "DEAD"} /\ listed' \in Nat
          /\ memory' \in {"live", "freed"} /\ txn' \in [Txn -> TxnPhases]
      BY <1>0, <2>1, <2>2 DEF TypeOK, TxnPhases
    <3> QED
      BY <1>0, <2>1, <3>1, <3>2 DEF TypeOK
  <2>4. InTxns' = InTxns /\ QueueHolds(iqueue, txn)'
    BY <1>0, <2>1 DEF InTxns, QueueHolds, TypeOK
  <2>5. NoneKilled'
    BY <1>0, <2>1, <2>2 DEF NoneKilled, TypeOK
  <2>6. ListedOnceWhenDead' /\ FaultCause'
    BY <1>0, <2>1, <2>2 DEF ListedOnceWhenDead, FaultCause, Up, TypeOK
  <2> QED
    BY <1>0, <2>1, <2>2, <2>3, <2>4, <2>5, <2>6 DEF EntityInv
<1>5. ASSUME NEW t \in Txn, UnpackOk(t) PROVE EntityInv'
  BY <1>5, UnpackOkKeeps
<1>6. ASSUME NEW t \in Txn, Finish(t) PROVE EntityInv'
  <2>1. PICK st \in StatusAfterPack(status) : TxnGone(t, st)
    BY <1>6 DEF Finish
  <2> QED
    BY <1>6, <2>1, TxnGoneKeeps DEF Finish
<1>7. ASSUME NEW t \in Txn, Pack(t) PROVE EntityInv'
  <2>1. /\ txn' = [txn EXCEPT ![t] = "packed"] /\ txn[t] = "running"
        /\ status' = status \/ (workflow.packFails /\ status' = "INACTIVE")
        /\ UNCHANGED <<workflow, kind, open, iqueue, taskcnt, listed, memory, fault>>
    BY <1>7 DEF Pack, StatusAfterPack
  <2>2. taskcnt > 0
    BY <2>1, NothingDeliveredAtEnd
  <2>3. TypeOK'
    BY <1>0, <2>1 DEF TypeOK, TxnPhases
  <2>4. InTxns' = InTxns /\ QueueHolds(iqueue, txn)'
    BY <1>0, <2>1 DEF InTxns, QueueHolds, TypeOK
  <2>5. NoneKilled'
    BY <1>0, <2>1, <2>2 DEF NoneKilled, TypeOK
  <2>6. ListedOnceWhenDead' /\ FaultCause'
    BY <1>0, <2>1 DEF ListedOnceWhenDead, FaultCause
  <2> QED
    BY <1>0, <2>1, <2>3, <2>4, <2>5, <2>6 DEF EntityInv
<1>8. ASSUME NEW t \in Txn, LastTaskDone(t) PROVE EntityInv'
  <2>1. status \in StatusAfterPack(status)
    BY DEF StatusAfterPack
  <2> QED
    BY <1>8, <2>1, TxnGoneKeeps DEF LastTaskDone
<1>9. CASE UNCHANGED vars
  BY <1>0, <1>9
  DEF vars, EntityInv, TypeOK, QueueHolds, InTxns, NoneKilled, ListedOnceWhenDead, FaultCause
<1> QED
  BY <1>1, <1>2, <1>3, <1>4, <1>5, <1>6, <1>7, <1>8, <1>9 DEF Next

(* EntityInv holds of a new entity.                                        *)
LEMMA EntityInit ==
  ASSUME Init
  PROVE  EntityInv
<1>1. TypeOK
  <2>1. /\ workflow \in Workflows /\ kind \in Kinds /\ status \in {"ACTIVE", "INACTIVE", "DEAD"}
        /\ iqueue \in Seq(Txn) /\ taskcnt \in Nat /\ txn \in [Txn -> TxnPhases]
        /\ listed \in Nat /\ memory \in {"live", "freed"}
        /\ fault \in {"none", "abort", "use_after_free"}
    BY DEF Init, TxnPhases
  <2>2. open \in BOOLEAN
    BY DEF Init
  <2> QED
    BY <2>1, <2>2 DEF TypeOK
<1>2. InTxns = {} /\ QueueHolds(iqueue, txn)
  BY DEF Init, InTxns, QueueHolds
<1> QED
  BY <1>1, <1>2, FS_EmptySet
  DEF Init, EntityInv, NoneKilled, ListedOnceWhenDead, FaultCause

LEMMA EntityInvariance == Spec => []EntityInv
<1>1. Init => EntityInv
  BY EntityInit
<1>2. EntityInv /\ [Next]_vars => EntityInv'
  BY EntityStep
<1> QED
  BY <1>1, <1>2, PTL DEF Spec

(* entity->task_cnt counts entity->txns, no transaction outlives its       *)
(* entity, unless pack fails the entity is listed once when it dies, and   *)
(* without the concurrent option at most one transaction runs, however     *)
(* input, ends and errors interleave.                                      *)
THEOREM Invariance == Spec => []IInv
  BY EntityInvariance, EntityInvImplies, PTL

(* The abort in sk_entity_destroy needs a workflow without the concurrent  *)
(* option, the double free a pack error.                                   *)
THEOREM Causes == Spec => []FaultCause
  BY EntityInvariance, EntityInvImplies, PTL

(* Requests are left in the input queue with nothing running only by the   *)
(* end of a transaction without the concurrent option, never by a handler  *)
(* that reads a request.                                                   *)
THEOREM StallsNeedEnd == Spec => StallNeedsEnd
<1> DEFINE Ended == \E t \in InTxns : txn'[t] = "freed"
           NoneRead == \A u \in Txn : txn[u] \in {"unused", "half"} =>
                                      txn'[u] \in {"unused", "half"}
<1>1. EntityInv /\ [Next]_vars
        => [Stalled' => ~workflow.concurrent /\ (Stalled \/ Ended) /\ NoneRead]_vars
  <2>1. SUFFICES ASSUME EntityInv, Next, EntityInv', Stalled'
                 PROVE  ~workflow.concurrent /\ (Stalled \/ Ended) /\ NoneRead
    BY EntityStep
  <2>2. /\ txn \in [Txn -> TxnPhases] /\ iqueue \in Seq(Txn) /\ taskcnt = Cardinality(InTxns)
        /\ memory' = "live" /\ iqueue' # <<>> /\ InTxns' = {}
    BY <2>1 DEF EntityInv, TypeOK, Stalled
  <2>3. ~workflow.concurrent
    <3>1. workflow' = workflow
      BY <2>1 DEF Next, PeerClose, CleanDead, EntityDestroy, CleanFreed, Crash,
                  UnpackMore, UnpackOk, UnpackError, Finish, Pack, LastTaskDone
    <3> QED
      BY <2>1, <2>2, <3>1 DEF EntityInv
  <2>4. CASE PeerClose \/ CleanDead \/ CleanFreed
    <3>1. UNCHANGED <<iqueue, txn>> /\ memory = "live"
      BY <2>2, <2>4 DEF PeerClose, CleanDead, EntityDestroy, CleanFreed, Crash, Up
    <3> QED
      BY <2>2, <2>3, <3>1 DEF Stalled, InTxns
  <2>5. ASSUME NEW t \in Txn, UnpackMore(t) \/ UnpackError(t)
        PROVE  Stalled /\ NoneRead
    <3>1. /\ txn' = [txn EXCEPT ![t] = "half"] /\ txn[t] \in {"half", "unused"}
          /\ iqueue' = iqueue /\ memory = "live"
      BY <2>5 DEF UnpackMore, UnpackError, Readable, IsInput, Up
    <3> QED
      BY <2>2, <3>1 DEF Stalled, InTxns
  <2>6. ASSUME NEW t \in Txn, UnpackOk(t)
        PROVE  FALSE
    <3>1. /\ Deliver(Append(iqueue, t), taskcnt, [txn EXCEPT ![t] = "queued"])
          /\ txn[t] \in {"half", "unused"}
      BY <2>6 DEF UnpackOk, IsInput
    <3>2. Append(iqueue, t) # <<>> /\ Head(Append(iqueue, t)) \in Txn
      <4>1. Append(iqueue, t) \in Seq(Txn) /\ Append(iqueue, t) # <<>>
        BY <2>2, AppendProperties
      <4> QED
        BY <4>1, HeadTailProperties
    <3>3. CASE Idle(taskcnt)
      <4>1. txn' = [[txn EXCEPT ![t] = "queued"]
                      EXCEPT ![Head(Append(iqueue, t))] = "running"]
        BY <3>1, <3>2, <3>3 DEF Deliver
      <4>2. Head(Append(iqueue, t)) \in InTxns'
        BY <2>2, <3>2, <4>1 DEF InTxns
      <4> QED
        BY <2>2, <4>2
    <3>4. CASE ~Idle(taskcnt)
      <4>1. txn' = [txn EXCEPT ![t] = "queued"]
        BY <3>1, <3>4 DEF Deliver
      <4>2. InTxns' = InTxns
        BY <2>2, <3>1, <4>1 DEF InTxns
      <4>3. taskcnt = 0
        BY <2>2, <4>2, FS_EmptySet
      <4> QED
        BY <3>4, <4>3 DEF Idle
    <3> QED
      BY <3>3, <3>4
  <2>7. ASSUME NEW t \in Txn, Finish(t) \/ LastTaskDone(t)
        PROVE  Ended /\ NoneRead
    <3>1. PICK st : TxnGone(t, st)
      BY <2>7 DEF Finish, LastTaskDone
    <3>2. txn[t] \in {"running", "packed"}
      BY <2>7 DEF Finish, LastTaskDone
    <3>3. ~(Idle(taskcnt) /\ iqueue # <<>>)
      BY <2>1, <3>2, NothingDeliveredAtEnd
    <3>4. txn' = [u \in Txn |-> IF u = t THEN "freed" ELSE txn[u]]
      BY <3>1, <3>3 DEF TxnGone
    <3> QED
      BY <3>2, <3>4 DEF InTxns
  <2>8. ASSUME NEW t \in Txn, Pack(t)
        PROVE  FALSE
    <3>1. t \in InTxns'
      BY <2>2, <2>8 DEF Pack, InTxns
    <3> QED
      BY <2>2, <3>1
  <2> QED
    BY <2>1, <2>3, <2>4, <2>5, <2>6, <2>7, <2>8 DEF Next
<1> QED
  BY <1>1, EntityInvariance, PTL DEF StallNeedsEnd, Spec
=============================================================================
