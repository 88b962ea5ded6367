--------------------------- MODULE SkService_proofs ---------------------------
(***************************************************************************)
(* Proofs about SkService, for every set of tasks, both queue modes and    *)
(* every queue capacity.  All safety properties follow from IInv; the only *)
(* step that is not bookkeeping is sk_service_schedule_tasks, which every  *)
(* master handler ends with: lemma ScheduleKeeps.                          *)
(***************************************************************************)
EXTENDS SkService, TLAPS, FiniteSetTheorems, SequenceTheorems

(* Any set of tasks is finite, so its cardinality is a number.             *)
LEMMA TaskSetFinite ==
  ASSUME NEW S \in SUBSET Task
  PROVE  IsFiniteSet(S) /\ Cardinality(S) \in Nat
  BY FS_Subset, FS_CardinalityType, ServiceAssumption

(* The first k elements of a sequence without duplicates are k tasks.      *)
LEMMA PrefixCardinality ==
  ASSUME NEW s \in Seq(Task), NEW k \in 1..Len(s),
         \A i, j \in 1..Len(s) : s[i] = s[j] => i = j
  PROVE  Cardinality({s[i] : i \in 1..k}) = k
<1> DEFINE B == {s[i] : i \in 1..k}
           f == [i \in 1..k |-> s[i]]
<1>1. k \in Nat /\ 1..k \subseteq 1..Len(s)
  OBVIOUS
<1>2. f \in Bijection(1..k, B)
  BY <1>1 DEF Bijection, Injection, Surjection, IsInjective
<1>3. ExistsBijection(1..k, B)
  BY <1>2 DEF ExistsBijection
<1> QED
  BY <1>1, <1>3, FS_CountingElements

(* What one call of sk_service_schedule_tasks starts: a non-empty prefix   *)
(* of a buffer that holds only reads, or a single write, and then only     *)
(* when the queue was idle.                                                *)
LEMMA BatchShape ==
  ASSUME NEW s \in Seq(Task), NEW st \in QueueStates, st # "WRITE",
         NEW k \in 1..Len(s), PullsExactly(s, st, k)
  PROVE  /\ StateAfter(s, st, k) = Elem[s[k]]
         /\ \/ \A i \in 1..k : Elem[s[i]] = "READ"
            \/ k = 1 /\ Elem[s[1]] = "WRITE" /\ st = "IDLE"
<1>1. \A i \in 1..Len(s) : s[i] \in Task /\ Elem[s[i]] \in {"READ", "WRITE"}
  BY QueueAssumption
<1>2. StateAfter(s, st, k) = Elem[s[k]]
  BY DEF StateAfter
<1>3. \A i \in 1..k : Admits(StateAfter(s, st, i - 1), s[i])
  BY DEF PullsExactly
<1>4. \A i \in 2..k : Elem[s[i - 1]] = "READ" /\ Elem[s[i]] = "READ"
  <2> TAKE i \in 2..k
  <2>1. Admits(Elem[s[i - 1]], s[i])
    BY <1>3 DEF StateAfter
  <2>2. Elem[s[i - 1]] \in {"READ", "WRITE"}
    BY <1>1
  <2> QED
    BY <2>1, <2>2 DEF Admits
<1>5. CASE k = 1
  <2>1. Admits(st, s[1])
    BY <1>3, <1>5 DEF StateAfter
  <2> QED
    BY <1>1, <1>2, <1>5, <2>1 DEF Admits
<1>6. CASE k # 1
  <2>1. k \in 2..k /\ 2 \in 2..k
    BY <1>6
  <2>2. ASSUME NEW i \in 1..k PROVE Elem[s[i]] = "READ"
    <3>1. CASE i = 1
      <4>1. Elem[s[2 - 1]] = "READ"
        BY <1>4, <2>1
      <4> QED
        BY <3>1, <4>1
    <3>2. CASE i # 1
      BY <1>4, <3>2
    <3> QED
      BY <3>1, <3>2
  <2> QED
    BY <1>2, <2>2
<1> QED
  BY <1>5, <1>6

(* Buffers, queue state, count and phases that agree with each other.      *)
Agree(ln, st, n, ph) ==
  /\ ln \in [Lanes -> Seq(Task)] /\ st \in QueueStates
  /\ n \in Nat /\ ph \in [Task -> Phases]
  /\ QueueOK(ln, ph) /\ CountOK(n, ph) /\ StateOK(st, ph)

(* The second alternative of ScheduleTasks: the first k tasks of buffer l  *)
(* are started.                                                            *)
StartBatch(ln, st, n, ph, l, k, ln2, st2, n2, ph2) ==
  /\ l = PullLane(ln, st)
  /\ PullsExactly(ln[l], st, k)
  /\ ln2 = [ln EXCEPT ![l] = SubSeq(@, k + 1, Len(@))]
  /\ st2 = StateAfter(ln[l], st, k)
  /\ n2 = n + k
  /\ ph2 = [t \in Task |-> IF \E i \in 1..k : ln[l][i] = t THEN "run" ELSE ph[t]]

(* Starting the batch keeps buffers, count and queue state in step with    *)
(* the phases, and leaves nothing behind that could be started.            *)
LEMMA BatchKeeps ==
  ASSUME NEW ln, NEW st, NEW n, NEW ph, NEW ln2, NEW st2, NEW n2, NEW ph2,
         NEW l \in Lanes, NEW k \in 1..Len(ln[l]),
         Agree(ln, st, n, ph),
         StartBatch(ln, st, n, ph, l, k, ln2, st2, n2, ph2)
  PROVE  Agree(ln2, st2, n2, ph2) /\ PullLane(ln2, st2) = NoLane
<1>0. /\ ln \in [Lanes -> Seq(Task)] /\ st \in QueueStates
      /\ n \in Nat /\ ph \in [Task -> Phases]
      /\ QueueOK(ln, ph) /\ CountOK(n, ph) /\ StateOK(st, ph)
      /\ l = PullLane(ln, st)
      /\ PullsExactly(ln[l], st, k)
      /\ ln2 = [ln EXCEPT ![l] = SubSeq(ln[l], k + 1, Len(ln[l]))]
      /\ st2 = StateAfter(ln[l], st, k)
      /\ n2 = n + k
      /\ ph2 = [t \in Task |-> IF \E i \in 1..k : ln[l][i] = t THEN "run" ELSE ph[t]]
  BY DEF Agree, StartBatch
<1> USE <1>0
<1> DEFINE s == ln[l]
           B == {s[i] : i \in 1..k}
           r == SubSeq(s, k + 1, Len(s))
<1>1. s \in Seq(Task) /\ k \in 1..Len(s) /\ Len(s) \in Nat
  OBVIOUS
<1>2. /\ r \in Seq(Task) /\ Len(r) = Len(s) - k
      /\ \A i \in 1..Len(r) : r[i] = s[k + i]
  <2>1. /\ SubSeq(s, k + 1, Len(s)) \in Seq(Task)
        /\ Len(SubSeq(s, k + 1, Len(s))) = IF k + 1 <= Len(s) THEN Len(s) - (k + 1) + 1 ELSE 0
        /\ \A i \in 1..(Len(s) - (k + 1) + 1) :
             SubSeq(s, k + 1, Len(s))[i] = s[(k + 1) + i - 1]
    BY <1>1, SubSeqProperties, \A i \in (k + 1)..Len(s) : i \in 1..Len(s)
  <2> QED
    BY <1>1, <2>1
<1>3. \A x \in Lanes : ln2[x] = IF x = l THEN r ELSE ln[x]
  OBVIOUS
<1>4. ln2 \in [Lanes -> Seq(Task)]
  BY <1>2
<1>5. \A i \in 1..Len(s) : s[i] \in Task
  BY <1>1
<1>6. st # "WRITE"
  <2>1. l # NoLane
    BY DEF NoLane, Lanes
  <2> QED
    BY <2>1 DEF PullLane, Admits
<1>7. /\ st2 = Elem[s[k]]
      /\ \/ \A i \in 1..k : Elem[s[i]] = "READ"
         \/ k = 1 /\ Elem[s[1]] = "WRITE" /\ st = "IDLE"
  <2>1. PullsExactly(s, st, k) /\ st2 = StateAfter(s, st, k)
    OBVIOUS
  <2> HIDE <1>0 DEF s
  <2>2. st \in QueueStates
    BY <1>0
  <2> QED
    BY <1>1, <1>6, <2>1, <2>2, BatchShape
<1>8. st2 \in {"READ", "WRITE"}
  BY <1>5, <1>7, QueueAssumption
<1>9. ph2 \in [Task -> Phases]
  BY DEF Phases
<1>10. B \subseteq Task /\ \A t \in Task : ph2[t] = IF t \in B THEN "run" ELSE ph[t]
  BY <1>5
<1>q. /\ \A i, j \in 1..Len(s) : s[i] = s[j] => i = j
      /\ \A i \in 1..Len(s) : ph[s[i]] = "queued" /\ LaneOf(s[i]) = l
  BY DEF QueueOK
<1>p. \A i \in 1..k : i \in 1..Len(s)
  BY <1>1
<1>11. \A t \in B : ph[t] = "queued"
  <2>1. \A i \in 1..k : ph[s[i]] = "queued"
    BY <1>q, <1>p
  <2> QED
    BY <2>1, Zenon
<1>b. s[k] \in B
  BY <1>1
<1>12. ActiveIn(ph2) = ActiveIn(ph) \cup B /\ ActiveIn(ph) \cap B = {}
  <2> HIDE DEF B
  <2>1. \A t \in Task : t \in ActiveIn(ph2) <=> t \in ActiveIn(ph) \/ t \in B
    BY <1>10, <1>11 DEF ActiveIn
  <2>2. \A t \in B : t \notin ActiveIn(ph)
    BY <1>11 DEF ActiveIn
  <2>3. ActiveIn(ph2) \subseteq Task /\ ActiveIn(ph) \subseteq Task
    BY DEF ActiveIn
  <2> QED
    BY <1>10, <2>1, <2>2, <2>3
<1>13. CountOK(n2, ph2)
  <2>1. Cardinality(B) = k
    BY <1>1, <1>q, PrefixCardinality
  <2>2. /\ IsFiniteSet(B) /\ IsFiniteSet(ActiveIn(ph))
        /\ Cardinality(ActiveIn(ph)) \in Nat
    BY <1>10, TaskSetFinite DEF ActiveIn
  <2>3. Cardinality(ActiveIn(ph) \cup B)
          = Cardinality(ActiveIn(ph)) + Cardinality(B) - Cardinality({})
    BY <1>12, <2>2, FS_Union
  <2>4. Cardinality({}) = 0
    BY FS_EmptySet
  <2>5. Cardinality(ActiveIn(ph2)) = Cardinality(ActiveIn(ph)) + Cardinality(B) - Cardinality({})
    BY <1>12, <2>3
  <2>6. n = Cardinality(ActiveIn(ph))
    BY DEF CountOK
  <2>7. Cardinality(ActiveIn(ph2)) = n2
    <3> HIDE DEF B
    <3> QED
      BY <2>1, <2>4, <2>5, <2>6
  <2> QED
    BY <2>7 DEF CountOK
<1>14. StateOK(st2, ph2)
  <2>1. ActiveIn(ph2) # {}
    <3> HIDE DEF B
    <3> QED
      BY <1>12, <1>b
  <2>2. CASE \A i \in 1..k : Elem[s[i]] = "READ"
    <3>1. st2 = "READ"
      BY <1>7, <2>2
    <3>2. \A t \in ActiveIn(ph) : Elem[t] = "READ"
      BY <1>6 DEF StateOK, QueueStates
    <3> QED
      BY <1>12, <2>1, <2>2, <3>1, <3>2 DEF StateOK
  <2>3. CASE k = 1 /\ Elem[s[1]] = "WRITE" /\ st = "IDLE"
    <3>1. st2 = "WRITE" /\ B = {s[1]}
      BY <1>7, <2>3
    <3>2. ActiveIn(ph2) = {s[1]}
      BY <1>12, <2>3, <3>1 DEF StateOK
    <3> QED
      BY <1>5, <2>3, <3>1, <3>2 DEF StateOK
  <2> QED
    BY <1>7, <2>2, <2>3
<1>15. QueueOK(ln2, ph2)
  <2>1. ASSUME NEW x \in Lanes, NEW i \in 1..Len(ln2[x]), NEW j \in 1..Len(ln2[x]),
               ln2[x][i] = ln2[x][j]
        PROVE  i = j
    <3>1. CASE x = l
      <4>1. /\ k + i \in 1..Len(s) /\ k + j \in 1..Len(s)
            /\ s[k + i] = s[k + j]
        BY <1>1, <1>2, <1>3, <2>1, <3>1
      <4>2. k + i = k + j
        BY <4>1, <1>q
      <4> QED
        BY <4>2
    <3>2. CASE x # l
      BY <1>3, <2>1, <3>2 DEF QueueOK
    <3> QED
      BY <3>1, <3>2
  <2>2. ASSUME NEW x \in Lanes, NEW i \in 1..Len(ln2[x])
        PROVE  ph2[ln2[x][i]] = "queued" /\ LaneOf(ln2[x][i]) = x
    <3>1. CASE x = l
      <4>1. k + i \in 1..Len(s) /\ ln2[x][i] = s[k + i]
        BY <1>1, <1>2, <1>3, <3>1
      <4>2. ph[s[k + i]] = "queued" /\ LaneOf(s[k + i]) = l /\ s[k + i] \in Task
        BY <1>5, <4>1 DEF QueueOK
      <4>3. \A j \in 1..k : s[j] # s[k + i]
        <5> SUFFICES ASSUME NEW j \in 1..k, s[j] = s[k + i] PROVE FALSE
          OBVIOUS
        <5>1. j \in 1..Len(s)
          BY <1>p
        <5>2. j = k + i
          BY <1>q, <4>1, <5>1
        <5> QED
          BY <1>1, <5>2
      <4> QED
        BY <1>10, <3>1, <4>1, <4>2, <4>3
    <3>2. CASE x # l
      <4>1. /\ ln2[x][i] = ln[x][i] /\ i \in 1..Len(ln[x]) /\ ln[x][i] \in Task
            /\ ph[ln[x][i]] = "queued" /\ LaneOf(ln[x][i]) = x
        BY <1>3, <3>2 DEF QueueOK
      <4>2. \A j \in 1..k : LaneOf(s[j]) = l
        BY DEF QueueOK
      <4> QED
        BY <1>10, <3>2, <4>1, <4>2
    <3> QED
      BY <3>1, <3>2
  <2>3. ASSUME NEW t \in Task, ph2[t] = "queued"
        PROVE  \E i \in 1..Len(ln2[LaneOf(t)]) : ln2[LaneOf(t)][i] = t
    <3>1. ph[t] = "queued" /\ t \notin B /\ LaneOf(t) \in Lanes
      BY <1>10, <2>3 DEF LaneOf, Lanes
    <3>2. PICK i \in 1..Len(ln[LaneOf(t)]) : ln[LaneOf(t)][i] = t
      BY <3>1 DEF QueueOK
    <3>3. CASE LaneOf(t) = l
      <4>1. i \in 1..Len(s) /\ ~(i \in 1..k) /\ s[i] = t
        BY <3>1, <3>2, <3>3
      <4>2. i - k \in 1..Len(r) /\ r[i - k] = t
        BY <1>1, <1>2, <4>1
      <4> QED
        BY <1>3, <3>3, <4>2
    <3>4. CASE LaneOf(t) # l
      BY <1>3, <3>1, <3>2, <3>4
    <3> QED
      BY <3>3, <3>4
  <2> QED
    BY <2>1, <2>2, <2>3 DEF QueueOK
<1>16. PullLane(ln2, st2) = NoLane
  <2>1. r = <<>> \/ (r # <<>> /\ Head(r) = s[k + 1] /\ ~Admits(st2, s[k + 1]))
    BY <1>1, <1>2, SMTT(60) DEF PullsExactly
  <2>2. CASE Mode = "RW_PW"
    <3>1. l = "mq"
      BY <2>2 DEF PullLane, NoLane, Lanes
    <3> QED
      BY <1>3, <2>1, <2>2, <3>1 DEF PullLane, Lanes
  <2>3. CASE Mode = "RW_PR" /\ l = "rmq"
    <3>1. \A i \in 1..Len(s) : Elem[s[i]] = "READ"
      BY <1>5, <2>3, QueueAssumption DEF QueueOK, LaneOf
    <3>2. st2 = "READ"
      BY <1>1, <1>7, <3>1
    <3>3. r = <<>>
      BY <1>1, <1>2, <2>1, <3>1, <3>2 DEF Admits
    <3> QED
      BY <1>3, <2>3, <3>2, <3>3 DEF PullLane, Lanes
  <2>4. CASE Mode = "RW_PR" /\ l = "wmq"
    <3>1. Elem[s[k]] = "WRITE"
      BY <1>1, <1>5, <2>4, QueueAssumption DEF QueueOK, LaneOf
    <3>2. st2 = "WRITE"
      BY <1>7, <3>1
    <3> QED
      BY <1>3, <2>4, <3>2 DEF PullLane, Lanes
  <2>5. l \in {"rmq", "wmq"} \/ Mode = "RW_PW"
    BY QueueAssumption DEF PullLane, Lanes, NoLane
  <2> QED
    BY <2>2, <2>3, <2>4, <2>5, QueueAssumption
<1>17. n2 \in Nat
  BY <1>1
<1> QED
  BY <1>4, <1>8, <1>9, <1>13, <1>14, <1>15, <1>16, <1>17 DEF QueueStates, Agree

(* sk_service_schedule_tasks, entered with values that agree, leaves       *)
(* values that agree and nothing in the queue that could be started.       *)
LEMMA ScheduleKeeps ==
  ASSUME NEW STATE ln, NEW STATE st, NEW STATE n, NEW STATE ph,
         Agree(ln, st, n, ph), ScheduleTasks(ln, st, n, ph)
  PROVE  /\ Agree(lanes', qstate', running', phase')
         /\ PullLane(lanes', qstate') = NoLane
<1>1. CASE /\ PullLane(ln, st) = NoLane
           /\ lanes' = ln /\ qstate' = st /\ running' = n /\ phase' = ph
  BY <1>1
<1>2. CASE \E l \in Lanes : \E k \in 1..Len(ln[l]) :
             StartBatch(ln, st, n, ph, l, k, lanes', qstate', running', phase')
  BY <1>2, BatchKeeps
<1> QED
  BY <1>1, <1>2 DEF ScheduleTasks, StartBatch

ActivePhases == {"run", "exec", "cb", "done"}

(* A task that moves between two phases outside the queue leaves the       *)
(* buffers in step with the phases.                                        *)
LEMMA MoveKeepsQueue ==
  ASSUME NEW ln \in [Lanes -> Seq(Task)], NEW ph \in [Task -> Phases],
         QueueOK(ln, ph), NEW t \in Task, NEW v \in Phases,
         ph[t] # "queued", v # "queued"
  PROVE  /\ [ph EXCEPT ![t] = v] \in [Task -> Phases]
         /\ QueueOK(ln, [ph EXCEPT ![t] = v])
<1> DEFINE ph2 == [ph EXCEPT ![t] = v]
<1>1. ph2 \in [Task -> Phases] /\ \A u \in Task : ph2[u] = IF u = t THEN v ELSE ph[u]
  OBVIOUS
<1>2. \A u \in Task : ph2[u] = "queued" <=> ph[u] = "queued"
  BY <1>1
<1>3. \A l \in Lanes : \A i \in 1..Len(ln[l]) : ln[l][i] \in Task
  OBVIOUS
<1> HIDE DEF ph2
<1>4. QueueOK(ln, ph2)
  BY <1>2, <1>3 DEF QueueOK
<1> QED
  BY <1>1, <1>4 DEF ph2

(* A move between two active, or between two inactive, phases leaves the   *)
(* set of active tasks alone.                                              *)
LEMMA MoveKeepsActive ==
  ASSUME NEW ph \in [Task -> Phases], NEW t \in Task, NEW v \in Phases,
         ph[t] \in ActivePhases <=> v \in ActivePhases
  PROVE  ActiveIn([ph EXCEPT ![t] = v]) = ActiveIn(ph)
  BY DEF ActiveIn, ActivePhases

(* sk_service_task_setcomplete: the last active task resets the queue      *)
(* state, any other leaves it as it is.                                    *)
LEMMA CompleteKeeps ==
  ASSUME NEW ph \in [Task -> Phases], NEW n \in Nat, NEW st \in QueueStates,
         CountOK(n, ph), StateOK(st, ph),
         NEW t \in Task, ph[t] = "done",
         NEW ph2, ph2 = [ph EXCEPT ![t] = "none"],
         NEW st2, st2 = IF n - 1 = 0 THEN "IDLE" ELSE st
  PROVE  n - 1 \in Nat /\ CountOK(n - 1, ph2) /\ st2 \in QueueStates /\ StateOK(st2, ph2)
<1>1. ActiveIn(ph2) = ActiveIn(ph) \ {t} /\ t \in ActiveIn(ph) /\ ActiveIn(ph) \subseteq Task
  BY DEF ActiveIn
<1>2. IsFiniteSet(ActiveIn(ph)) /\ IsFiniteSet(ActiveIn(ph2)) /\ n = Cardinality(ActiveIn(ph))
  BY <1>1, TaskSetFinite DEF CountOK
<1>3. Cardinality(ActiveIn(ph2)) = n - 1
  BY <1>1, <1>2, FS_RemoveElement
<1>4. n - 1 \in Nat
  BY <1>2, <1>3, FS_CardinalityType
<1>5. n - 1 = 0 <=> ActiveIn(ph2) = {}
  BY <1>2, <1>3, FS_EmptySet
<1>6. StateOK(st2, ph2)
  <2>1. CASE n - 1 = 0
    BY <1>5, <2>1 DEF StateOK
  <2>2. CASE n - 1 # 0
    <3>1. st2 = st /\ ActiveIn(ph2) # {}
      BY <1>5, <2>2
    <3>2. st # "WRITE"
      BY <1>1, <3>1 DEF StateOK
    <3> QED
      BY <1>1, <3>1, <3>2 DEF StateOK
  <2> QED
    BY <2>1, <2>2
<1> QED
  BY <1>3, <1>4, <1>6 DEF CountOK, QueueStates

(* sk_queue_push: the new task is in its buffer once and counts as queued. *)
LEMMA PushKeeps ==
  ASSUME NEW ln \in [Lanes -> Seq(Task)], NEW ph \in [Task -> Phases],
         QueueOK(ln, ph), NEW t \in Task, ph[t] = "req",
         NEW ln2, ln2 = Push(ln, t),
         NEW ph2, ph2 = [ph EXCEPT ![t] = "queued"]
  PROVE  /\ ln2 \in [Lanes -> Seq(Task)] /\ ph2 \in [Task -> Phases]
         /\ QueueOK(ln2, ph2) /\ ActiveIn(ph2) = ActiveIn(ph)
<1> DEFINE L == LaneOf(t)
<1>1. L \in Lanes
  BY DEF LaneOf, Lanes
<1> HIDE DEF L
<1>2. ln2 \in [Lanes -> Seq(Task)] /\ \A x \in Lanes : ln2[x] = IF x = L THEN Append(ln[L], t) ELSE ln[x]
  BY <1>1 DEF Push, L
<1>3. ph2 \in [Task -> Phases] /\ \A u \in Task : ph2[u] = IF u = t THEN "queued" ELSE ph[u]
  BY DEF Phases
<1>4. ActiveIn(ph2) = ActiveIn(ph)
  BY <1>3 DEF ActiveIn
<1>5. /\ \A x \in Lanes : \A i \in 1..Len(ln[x]) :
           ln[x][i] \in Task /\ ln[x][i] # t /\ ph2[ln[x][i]] = "queued" /\ LaneOf(ln[x][i]) = x
      /\ Len(ln[L]) \in Nat
  BY <1>1, <1>3 DEF QueueOK
<1>6. /\ Len(ln2[L]) = Len(ln[L]) + 1
      /\ ln2[L][Len(ln[L]) + 1] = t
      /\ \A i \in 1..Len(ln[L]) : ln2[L][i] = ln[L][i]
  <2>1. ln2[L] = Append(ln[L], t) /\ ln[L] \in Seq(Task)
    BY <1>1, <1>2
  <2> QED
    BY <2>1
<1>7. ASSUME NEW x \in Lanes, NEW i \in 1..Len(ln2[x]), NEW j \in 1..Len(ln2[x]),
             ln2[x][i] = ln2[x][j]
      PROVE  i = j
  <2>1. \A a, b \in 1..Len(ln[x]) : ln[x][a] = ln[x][b] => a = b
    BY DEF QueueOK
  <2>2. CASE x # L
    BY <1>2, <1>7, <2>1, <2>2
  <2>3. CASE x = L /\ i \in 1..Len(ln[L]) /\ j \in 1..Len(ln[L])
    BY <1>6, <1>7, <2>1, <2>3
  <2>4. CASE x = L /\ i = Len(ln[L]) + 1
    BY <1>1, <1>5, <1>6, <1>7, <2>4
  <2>5. CASE x = L /\ j = Len(ln[L]) + 1
    BY <1>1, <1>5, <1>6, <1>7, <2>5
  <2> QED
    BY <1>5, <1>6, <2>2, <2>3, <2>4, <2>5
<1>8. ASSUME NEW x \in Lanes, NEW i \in 1..Len(ln2[x])
      PROVE  ph2[ln2[x][i]] = "queued" /\ LaneOf(ln2[x][i]) = x
  <2>1. CASE x # L
    BY <1>2, <1>5, <2>1
  <2>2. CASE x = L /\ i \in 1..Len(ln[L])
    BY <1>5, <1>6, <2>2
  <2>3. CASE x = L /\ i = Len(ln[L]) + 1
    BY <1>3, <1>6, <2>3 DEF L
  <2> QED
    BY <1>5, <1>6, <2>1, <2>2, <2>3
<1>9. ASSUME NEW u \in Task, ph2[u] = "queued"
      PROVE  \E i \in 1..Len(ln2[LaneOf(u)]) : ln2[LaneOf(u)][i] = u
  <2>1. CASE u = t
    <3>1. Len(ln[L]) + 1 \in 1..Len(ln2[L])
      BY <1>5, <1>6
    <3> QED
      BY <1>6, <2>1, <3>1 DEF L
  <2>2. CASE u # t
    <3>1. ph[u] = "queued" /\ LaneOf(u) \in Lanes
      BY <1>3, <1>9, <2>2 DEF LaneOf, Lanes
    <3>2. PICK i \in 1..Len(ln[LaneOf(u)]) : ln[LaneOf(u)][i] = u
      BY <3>1 DEF QueueOK
    <3>3. CASE LaneOf(u) = L
      <4>1. i \in 1..Len(ln2[L]) /\ ln2[L][i] = u
        BY <1>5, <1>6, <3>2, <3>3
      <4> QED
        BY <3>3, <4>1
    <3>4. CASE LaneOf(u) # L
      BY <1>2, <3>1, <3>2, <3>4
    <3> QED
      BY <3>3, <3>4
  <2> QED
    BY <2>1, <2>2
<1>10. QueueOK(ln2, ph2)
  BY <1>7, <1>8, <1>9 DEF QueueOK
<1> QED
  BY <1>2, <1>3, <1>4, <1>10

(* A move of one task outside the queue that leaves it active, or          *)
(* inactive, keeps everything in agreement.                                *)
LEMMA MoveKeeps ==
  ASSUME NEW ln, NEW st, NEW n, NEW ph, Agree(ln, st, n, ph),
         NEW t \in Task, NEW v \in Phases, ph[t] # "queued", v # "queued",
         ph[t] \in ActivePhases <=> v \in ActivePhases
  PROVE  Agree(ln, st, n, [ph EXCEPT ![t] = v])
<1>1. /\ ln \in [Lanes -> Seq(Task)] /\ st \in QueueStates
      /\ n \in Nat /\ ph \in [Task -> Phases]
      /\ QueueOK(ln, ph) /\ CountOK(n, ph) /\ StateOK(st, ph)
  BY DEF Agree
<1> DEFINE ph2 == [ph EXCEPT ![t] = v]
<1>2. ph2 \in [Task -> Phases] /\ QueueOK(ln, ph2)
  BY <1>1, MoveKeepsQueue
<1>3. ActiveIn(ph2) = ActiveIn(ph)
  BY <1>1, MoveKeepsActive
<1> HIDE DEF ph2
<1>4. CountOK(n, ph2) /\ StateOK(st, ph2)
  BY <1>1, <1>3 DEF CountOK, StateOK
<1>5. Agree(ln, st, n, ph2)
  BY <1>1, <1>2, <1>4 DEF Agree
<1> QED
  BY <1>5 DEF ph2

(* The same for a task the master hears is done.                           *)
LEMMA CompleteAgrees ==
  ASSUME NEW ln, NEW st, NEW n, NEW ph, Agree(ln, st, n, ph),
         NEW t \in Task, ph[t] = "done"
  PROVE  Agree(ln, IF n - 1 = 0 THEN "IDLE" ELSE st, n - 1, [ph EXCEPT ![t] = "none"])
<1>1. /\ ln \in [Lanes -> Seq(Task)] /\ st \in QueueStates
      /\ n \in Nat /\ ph \in [Task -> Phases]
      /\ QueueOK(ln, ph) /\ CountOK(n, ph) /\ StateOK(st, ph)
  BY DEF Agree
<1> DEFINE st2 == IF n - 1 = 0 THEN "IDLE" ELSE st
           ph2 == [ph EXCEPT ![t] = "none"]
<1>2. n - 1 \in Nat /\ CountOK(n - 1, ph2) /\ st2 \in QueueStates /\ StateOK(st2, ph2)
  BY <1>1, CompleteKeeps
<1>3. ph2 \in [Task -> Phases] /\ QueueOK(ln, ph2)
  BY <1>1, MoveKeepsQueue DEF Phases
<1> HIDE DEF st2, ph2
<1>4. Agree(ln, st2, n - 1, ph2)
  BY <1>1, <1>2, <1>3 DEF Agree
<1> QED
  BY <1>4 DEF st2, ph2

(* The phase names, once for all steps.                                    *)
LEMMA PhaseNames ==
  /\ Phases = ActivePhases \cup {"none", "req", "queued", "busy", "busydone"}
  /\ ActivePhases = {"run", "exec", "cb", "done"}
  BY DEF Phases, ActivePhases

(* IInv is agreement of the four scheduling variables, plus the types of   *)
(* the other two and an exhausted queue.                                   *)
LEMMA IInvIsAgree ==
  IInv <=> /\ Agree(lanes, qstate, running, phase)
           /\ PullLane(lanes, qstate) = NoLane
           /\ pendings \in [Task -> Nat]
           /\ late \in [Task -> {"none", "cb", "done"}]
  BY DEF IInv, TypeOK, Agree, QueueMatchesPhase, RunningCount, StateMatchesActive

(* The same of the next state.                                             *)
LEMMA IInvPrimedIsAgree ==
  IInv' <=> /\ Agree(lanes', qstate', running', phase')
            /\ PullLane(lanes', qstate') = NoLane
            /\ pendings' \in [Task -> Nat]
            /\ late' \in [Task -> {"none", "cb", "done"}]
  BY DEF IInv, TypeOK, Agree, QueueMatchesPhase, RunningCount, StateMatchesActive

(* Nothing is out and nothing is queued when the master starts.            *)
LEMMA InitIInv == Init => IInv
<1> SUFFICES ASSUME Init PROVE IInv
  OBVIOUS
<1>1. /\ TypeOK
      /\ \A l \in Lanes : lanes[l] = <<>>
      /\ \A t \in Task : phase[t] = "none"
  BY DEF Init, TypeOK, EmptyLanes, QueueStates, Phases
<1>2. ActiveIn(phase) = {}
  BY <1>1 DEF ActiveIn
<1>3. RunningCount /\ StateMatchesActive
  BY <1>2, FS_EmptySet DEF Init, RunningCount, CountOK, StateMatchesActive, StateOK
<1>4. QueueMatchesPhase
  BY <1>1 DEF QueueMatchesPhase, QueueOK
<1>5. PullLane(lanes, qstate) = NoLane
  BY <1>1 DEF PullLane, Lanes
<1> QED
  BY <1>1, <1>3, <1>4, <1>5 DEF IInv

(* Both handlers that queue a request, and their BUSY answer.              *)
LEMMA PushTaskKeeps ==
  ASSUME NEW t \in Task, phase[t] = "req", PushTask(t),
         Agree(lanes, qstate, running, phase), PullLane(lanes, qstate) = NoLane
  PROVE  /\ Agree(lanes', qstate', running', phase')
         /\ PullLane(lanes', qstate') = NoLane
<1>1. CASE ScheduleTasks(Push(lanes, t), qstate, running, [phase EXCEPT ![t] = "queued"])
  <2> DEFINE ln2 == Push(lanes, t)
             ph2 == [phase EXCEPT ![t] = "queued"]
  <2>1. /\ ln2 \in [Lanes -> Seq(Task)] /\ ph2 \in [Task -> Phases]
        /\ QueueOK(ln2, ph2) /\ ActiveIn(ph2) = ActiveIn(phase)
    BY PushKeeps DEF Agree
  <2>2. ScheduleTasks(ln2, qstate, running, ph2)
    BY <1>1
  <2> HIDE DEF ln2, ph2
  <2>3. Agree(ln2, qstate, running, ph2)
    BY <2>1 DEF Agree, CountOK, StateOK
  <2> QED
    BY <2>2, <2>3, ScheduleKeeps
<1>2. CASE /\ phase' = [phase EXCEPT ![t] = "busy"]
           /\ UNCHANGED <<lanes, qstate, running>>
  BY <1>2, MoveKeeps, PhaseNames
<1> QED
  BY <1>1, <1>2 DEF PushTask

(* Every step of the service keeps IInv.                                   *)
LEMMA StepIInv == IInv /\ [Next]_vars => IInv'
<1> SUFFICES ASSUME IInv, [Next]_vars PROVE IInv'
  OBVIOUS
<1>1. /\ Agree(lanes, qstate, running, phase)
      /\ PullLane(lanes, qstate) = NoLane
      /\ pendings \in [Task -> Nat]
      /\ late \in [Task -> {"none", "cb", "done"}]
  BY IInvIsAgree
<1> DEFINE Kept == /\ Agree(lanes', qstate', running', phase')
                   /\ PullLane(lanes', qstate') = NoLane
                   /\ pendings' \in [Task -> Nat]
                   /\ late' \in [Task -> {"none", "cb", "done"}]
<1> SUFFICES Kept
  BY IInvPrimedIsAgree
<1>2. CASE UNCHANGED vars
  BY <1>1, <1>2 DEF vars
<1>3. ASSUME NEW t \in Task, Call(t) PROVE Kept
  BY <1>1, <1>3, MoveKeeps, PhaseNames DEF Call
<1>4. ASSUME NEW t \in Task, RecvIocall(t) PROVE Kept
  BY <1>1, <1>4, PushTaskKeeps DEF RecvIocall
<1>5. ASSUME NEW t \in Task, RecvTimerEmit(t) PROVE Kept
  BY <1>1, <1>5, PushTaskKeeps DEF RecvTimerEmit
<1>6. ASSUME NEW t \in Task, RunBegin(t) PROVE Kept
  BY <1>1, <1>6, MoveKeeps, PhaseNames DEF RunBegin
<1>7. ASSUME NEW t \in Task, TaskRunEnd(t) PROVE Kept
  <2>1. pendings' \in [Task -> Nat]
    BY <1>1, <1>7, ServiceAssumption DEF TaskRunEnd
  <2> QED
    BY <1>1, <1>7, <2>1, MoveKeeps, PhaseNames DEF TaskRunEnd
<1>8. ASSUME NEW t \in Task, TimerRunEnd(t) PROVE Kept
  BY <1>1, <1>8, MoveKeeps, PhaseNames DEF TimerRunEnd
<1>9. ASSUME NEW t \in Task, TaskCb(t) PROVE Kept
  BY <1>1, <1>9, MoveKeeps, PhaseNames DEF TaskCb
<1>10. ASSUME NEW t \in Task, BusyCb(t) PROVE Kept
  BY <1>1, <1>10, MoveKeeps, PhaseNames DEF BusyCb
<1>11. ASSUME NEW t \in Task, EpCb(t) PROVE Kept
  <2>1. pendings' \in [Task -> Nat] /\ late' \in [Task -> {"none", "cb", "done"}]
    BY <1>1, <1>11, ServiceAssumption DEF EpCb
  <2> QED
    BY <1>1, <1>11, <2>1 DEF EpCb
<1>12. ASSUME NEW t \in Task, LateCb(t) PROVE Kept
  BY <1>1, <1>12 DEF LateCb
<1>13. ASSUME NEW t \in Task, TaskDone(t) PROVE Kept
  <2> DEFINE st2 == IF running - 1 = 0 THEN "IDLE" ELSE qstate
             ph2 == [phase EXCEPT ![t] = "none"]
  <2>1. /\ phase[t] = "done" /\ pendings' = pendings /\ late' = late
        /\ ScheduleTasks(lanes, st2, running - 1, ph2)
    BY <1>13 DEF TaskDone, SetCompleteAndSchedule
  <2>2. Agree(lanes, st2, running - 1, ph2)
    BY <1>1, <2>1, CompleteAgrees
  <2> HIDE DEF st2, ph2
  <2> QED
    BY <1>1, <2>1, <2>2, ScheduleKeeps
<1>14. ASSUME NEW t \in Task, BusyDone(t) PROVE Kept
  <2> DEFINE ph2 == [phase EXCEPT ![t] = "none"]
  <2>1. Agree(lanes, qstate, running, ph2)
    BY <1>1, <1>14, MoveKeeps, PhaseNames DEF BusyDone
  <2>2. ScheduleTasks(lanes, qstate, running, ph2) /\ pendings' = pendings /\ late' = late
    BY <1>14 DEF BusyDone
  <2> HIDE DEF ph2
  <2> QED
    BY <1>1, <2>1, <2>2, ScheduleKeeps
<1>15. ASSUME NEW t \in Task, LateDone(t) PROVE Kept
  <2>1. ScheduleTasks(lanes, qstate, running, phase)
    BY <1>15 DEF LateDone
  <2>2. Agree(lanes', qstate', running', phase') /\ PullLane(lanes', qstate') = NoLane
    BY <1>1, <2>1, ScheduleKeeps
  <2>3. late' \in [Task -> {"none", "cb", "done"}] /\ pendings' = pendings
    BY <1>1, <1>15 DEF LateDone
  <2> QED
    BY <1>1, <2>2, <2>3
<1> QED
  BY <1>2, <1>3, <1>4, <1>5, <1>6, <1>7, <1>8, <1>9, <1>10, <1>11, <1>12, <1>13,
     <1>14, <1>15 DEF Next

(* What IInv is for: the safety properties the runs check.                 *)
LEMMA IInvSafe ==
  ASSUME IInv
  PROVE  WriteExclusion /\ DataAccessState /\ NothingStranded
<1>1. /\ TypeOK /\ StateOK(qstate, phase) /\ QueueOK(lanes, phase)
      /\ PullLane(lanes, qstate) = NoLane
  BY DEF IInv, StateMatchesActive, QueueMatchesPhase
<1>2. \A t \in Task : Elem[t] \in {"READ", "WRITE"}
  BY QueueAssumption
<1>3. ASSUME NEW t \in Task, phase[t] = "exec" PROVE qstate = Elem[t] /\ t \in ActiveIn(phase)
  <2>1. t \in ActiveIn(phase)
    BY <1>3 DEF ActiveIn
  <2>2. qstate \in {"READ", "WRITE"}
    BY <1>1, <2>1 DEF StateOK, TypeOK, QueueStates
  <2> QED
    BY <1>1, <1>2, <2>1, <2>2 DEF StateOK
<1>4. DataAccessState
  BY <1>3 DEF DataAccessState
<1>5. WriteExclusion
  <2> SUFFICES ASSUME NEW t \in Task, NEW u \in Task,
                      phase[t] = "exec", phase[u] = "exec", t # u
               PROVE  Elem[t] = "READ"
    BY DEF WriteExclusion
  <2>1. t \in ActiveIn(phase) /\ u \in ActiveIn(phase) /\ qstate = Elem[t]
    BY <1>3
  <2> QED
    BY <1>1, <1>2, <2>1 DEF StateOK
<1>6. NothingStranded
  <2>1. ASSUME NEW t \in Task, phase[t] = "queued", ActiveIn(phase) = {} PROVE FALSE
    <3>1. qstate = "IDLE"
      BY <1>1, <2>1 DEF StateOK
    <3>2. LaneOf(t) \in Lanes /\ lanes[LaneOf(t)] # <<>>
      BY <1>1, <2>1 DEF QueueOK, LaneOf, Lanes, TypeOK
    <3> QED
      BY <1>1, <3>1, <3>2, QueueAssumption DEF PullLane, LaneOf, Lanes, NoLane, Admits
  <2> QED
    BY <1>1, <2>1 DEF NothingStranded, Active
<1> QED
  BY <1>4, <1>5, <1>6

(* The inductive invariant holds in every reachable state.                 *)
THEOREM Invariance == Spec => []IInv
  BY InitIInv, StepIInv, PTL DEF Spec

(* Type correctness: in particular running_task_cnt never gets negative.   *)
THEOREM TypeCorrect == Spec => []TypeOK
<1>1. IInv => TypeOK
  BY DEF IInv
<1> QED
  BY <1>1, Invariance, PTL

(* running_task_cnt counts the tasks sent out and not reported done.       *)
THEOREM CountCorrect == Spec => []RunningCount
<1>1. IInv => RunningCount
  BY DEF IInv
<1> QED
  BY <1>1, Invariance, PTL

(* A write task has the service for itself, on every engine.               *)
THEOREM Exclusion == Spec => []WriteExclusion
<1>1. IInv => WriteExclusion
  BY IInvSafe
<1> QED
  BY <1>1, Invariance, PTL

(* A running task finds the queue in the state of its own element type.    *)
THEOREM DataAccess == Spec => []DataAccessState
<1>1. IInv => DataAccessState
  BY IInvSafe
<1> QED
  BY <1>1, Invariance, PTL

(* No task that could be started is left behind by a master handler.       *)
THEOREM NoStranding == Spec => []NothingStranded
<1>1. IInv => NothingStranded
  BY IInvSafe
<1> QED
  BY <1>1, Invariance, PTL

------------------------------------------------------------------------------
(* The service implements SkServiceAbs.                                    *)

(* sk_service_schedule_tasks changes no phase but from queued to run.      *)
LEMMA ScheduleMoves ==
  ASSUME NEW STATE ln, NEW STATE st, NEW STATE n, NEW STATE ph,
         Agree(ln, st, n, ph), ScheduleTasks(ln, st, n, ph)
  PROVE  \A u \in Task : phase'[u] = ph[u] \/ (ph[u] = "queued" /\ phase'[u] = "run")
<1>1. ph \in [Task -> Phases] /\ QueueOK(ln, ph)
  BY DEF Agree
<1>2. CASE phase' = ph
  BY <1>2
<1>3. ASSUME NEW l \in Lanes, NEW k \in 1..Len(ln[l]),
             phase' = [t \in Task |-> IF \E i \in 1..k : ln[l][i] = t THEN "run" ELSE ph[t]],
             NEW u \in Task
      PROVE  phase'[u] = ph[u] \/ (ph[u] = "queued" /\ phase'[u] = "run")
  <2>1. CASE \E i \in 1..k : ln[l][i] = u
    <3>1. PICK i \in 1..k : ln[l][i] = u
      BY <2>1
    <3>2. ln[l] \in Seq(Task) /\ i \in 1..Len(ln[l])
      BY DEF Agree
    <3>3. ph[u] = "queued"
      BY <1>1, <3>1, <3>2 DEF QueueOK
    <3> QED
      BY <1>3, <2>1, <3>3
  <2>2. CASE ~\E i \in 1..k : ln[l][i] = u
    BY <1>3, <2>2
  <2> QED
    BY <2>1, <2>2
<1> QED
  BY <1>2, <1>3 DEF ScheduleTasks

(* If only the view of t changes, the abstract client of t moves.          *)
LEMMA ClientMoves ==
  ASSUME NEW t \in Task,
         \A u \in Task : u # t => ViewOf(phase'[u]) = ViewOf(phase[u])
  PROVE  Abs!Move(t, ViewOf(phase[t]), ViewOf(phase'[t]))
<1>1. /\ Client = [u \in Task |-> ViewOf(phase[u])]
      /\ Client' = [u \in Task |-> ViewOf(phase'[u])]
  BY DEF Client
<1>2. Client' = [Client EXCEPT ![t] = ViewOf(phase'[t])]
  BY <1>1
<1> QED
  BY <1>1, <1>2 DEF Abs!Move

(* If no view changes, the abstract state stutters.                        *)
LEMMA ClientStutters ==
  ASSUME \A u \in Task : ViewOf(phase'[u]) = ViewOf(phase[u])
  PROVE  Client' = Client
  BY DEF Client

(* A full buffer means MaxSlots other waiting requests.                    *)
LEMMA FullMeansWaiting ==
  ASSUME IInv, NEW t \in Task, phase[t] = "req", ~HasRoom(lanes, t)
  PROVE  Cardinality(Abs!Waiting \ {t}) >= MaxSlots
<1> DEFINE s == lanes[LaneOf(t)]
           B == {s[i] : i \in 1..Len(s)}
<1>1. LaneOf(t) \in Lanes /\ s \in Seq(Task) /\ Len(s) \in Nat /\ MaxSlots \in Nat \ {0}
  BY QueueAssumption DEF LaneOf, Lanes, IInv, TypeOK
<1>2. Len(s) >= MaxSlots /\ Len(s) \in 1..Len(s)
  BY <1>1 DEF HasRoom
<1>3. /\ \A i, j \in 1..Len(s) : s[i] = s[j] => i = j
      /\ \A i \in 1..Len(s) : phase[s[i]] = "queued"
  BY <1>1 DEF IInv, QueueMatchesPhase, QueueOK
<1>4. Cardinality(B) = Len(s)
  BY <1>1, <1>2, <1>3, PrefixCardinality
<1>5. \A i \in 1..Len(s) : s[i] \in Abs!Waiting \ {t}
  BY <1>1, <1>3 DEF Abs!Waiting, Client, ViewOf
<1>6. B \subseteq Abs!Waiting \ {t}
  BY <1>5
<1>7. Abs!Waiting \ {t} \in SUBSET Task
  BY DEF Abs!Waiting
<1>8. IsFiniteSet(Abs!Waiting \ {t}) /\ Cardinality(Abs!Waiting \ {t}) \in Nat
  BY <1>7, TaskSetFinite
<1>9. Cardinality(B) <= Cardinality(Abs!Waiting \ {t})
  BY <1>6, <1>8, FS_Subset
<1> QED
  BY <1>1, <1>2, <1>4, <1>8, <1>9

(* A queued or a refused request, seen by its caller.                      *)
LEMMA PushTaskRefines ==
  ASSUME IInv, NEW t \in Task, phase[t] = "req", PushTask(t)
  PROVE  Abs!Refuse(t) \/ Client' = Client
<1>1. Agree(lanes, qstate, running, phase) /\ phase \in [Task -> Phases]
  BY IInvIsAgree DEF Agree
<1>2. CASE ScheduleTasks(Push(lanes, t), qstate, running, [phase EXCEPT ![t] = "queued"])
  <2> DEFINE ln2 == Push(lanes, t)
             ph2 == [phase EXCEPT ![t] = "queued"]
  <2>1. /\ ln2 \in [Lanes -> Seq(Task)] /\ ph2 \in [Task -> Phases]
        /\ QueueOK(ln2, ph2) /\ ActiveIn(ph2) = ActiveIn(phase)
    BY <1>1, PushKeeps DEF Agree
  <2>2. ScheduleTasks(ln2, qstate, running, ph2)
    BY <1>2
  <2>3. \A u \in Task : ViewOf(ph2[u]) = ViewOf(phase[u])
    BY <1>1 DEF ViewOf
  <2> HIDE DEF ln2, ph2
  <2>4. Agree(ln2, qstate, running, ph2)
    BY <1>1, <2>1 DEF Agree, CountOK, StateOK
  <2>5. \A u \in Task : phase'[u] = ph2[u] \/ (ph2[u] = "queued" /\ phase'[u] = "run")
    BY <2>2, <2>4, ScheduleMoves
  <2>6. \A u \in Task : ViewOf(phase'[u]) = ViewOf(phase[u])
    BY <2>3, <2>5 DEF ViewOf
  <2> QED
    BY <2>6, ClientStutters
<1>3. CASE ~HasRoom(lanes, t) /\ phase' = [phase EXCEPT ![t] = "busy"]
  <2>1. ViewOf(phase[t]) = "waiting" /\ ViewOf(phase'[t]) = "refused"
    BY <1>1, <1>3 DEF ViewOf
  <2>2. \A u \in Task : u # t => ViewOf(phase'[u]) = ViewOf(phase[u])
    BY <1>1, <1>3
  <2>3. Abs!Move(t, "waiting", "refused")
    BY <2>1, <2>2, ClientMoves
  <2>4. ~HasRoom(lanes, t)
    BY <1>3
  <2>5. Cardinality(Abs!Waiting \ {t}) >= MaxSlots
    BY <2>4, FullMeansWaiting
  <2>6. Abs!Cardinality(Abs!Waiting \ {t}) >= MaxSlots
    BY <2>5 DEF Cardinality, Abs!Cardinality
  <2> QED
    BY <2>3, <2>6 DEF Abs!Refuse
<1> QED
  BY <1>2, <1>3 DEF PushTask

(* A task that starts finds the lock free for it.                          *)
LEMMA StartIsGranted ==
  ASSUME IInv, NEW t \in Task, phase[t] = "run"
  PROVE  IF Elem[t] = "WRITE" THEN Abs!Running = {}
         ELSE \A u \in Abs!Running : Elem[u] = "READ"
<1>1. StateOK(qstate, phase) /\ qstate \in QueueStates /\ t \in ActiveIn(phase)
  BY DEF IInv, StateMatchesActive, TypeOK, ActiveIn
<1>2. \A u \in Abs!Running : u \in ActiveIn(phase) /\ u # t
  BY DEF Abs!Running, Client, ViewOf, ActiveIn
<1>3. CASE Elem[t] = "WRITE"
  BY <1>1, <1>2, <1>3 DEF StateOK, QueueStates
<1>4. CASE Elem[t] # "WRITE"
  BY <1>1, <1>2, <1>4 DEF StateOK, QueueStates
<1> QED
  BY <1>3, <1>4

(* A master handler that ends the call of t and schedules: to the callers, *)
(* t is idle again and nothing else has changed.                           *)
LEMMA EndOfCall ==
  ASSUME NEW t \in Task, phase \in [Task -> Phases],
         NEW STATE st, NEW STATE n, NEW STATE ph, ph = [phase EXCEPT ![t] = "none"],
         Agree(lanes, st, n, ph), ScheduleTasks(lanes, st, n, ph)
  PROVE  Abs!Move(t, ViewOf(phase[t]), "idle")
<1>1. \A u \in Task : phase'[u] = ph[u] \/ (ph[u] = "queued" /\ phase'[u] = "run")
  BY ScheduleMoves, ZenonT(60)
<1>2. phase'[t] = "none" /\ \A u \in Task : u # t => ViewOf(phase'[u]) = ViewOf(phase[u])
  BY <1>1 DEF ViewOf
<1>3. ViewOf(phase'[t]) = "idle"
  BY <1>2 DEF ViewOf
<1> QED
  BY <1>2, <1>3, ClientMoves

(* Every step of the service is a step of the lock, or invisible.          *)
LEMMA StepRefines == IInv /\ [Next]_vars => [Abs!Next]_Client
<1> SUFFICES ASSUME IInv, [Next]_vars PROVE Abs!Next \/ Client' = Client
  OBVIOUS
<1>1. Agree(lanes, qstate, running, phase) /\ phase \in [Task -> Phases]
  BY IInvIsAgree DEF Agree
<1>2. CASE UNCHANGED vars
  BY <1>2, ClientStutters DEF vars
<1>3. ASSUME NEW t \in Task, NEW v \in Phases, phase' = [phase EXCEPT ![t] = v]
      PROVE  Abs!Move(t, ViewOf(phase[t]), ViewOf(v))
  <2>1. phase'[t] = v /\ \A u \in Task : u # t => ViewOf(phase'[u]) = ViewOf(phase[u])
    BY <1>1, <1>3
  <2> QED
    BY <2>1, ClientMoves
<1>4. ASSUME NEW t \in Task, Call(t) PROVE Abs!Next
  <2>1. Abs!Move(t, "idle", "waiting")
    BY <1>3, <1>4, PhaseNames DEF Call, ViewOf
  <2> QED
    BY <2>1 DEF Abs!Next, Abs!Request
<1>5. ASSUME NEW t \in Task, RecvIocall(t) \/ RecvTimerEmit(t)
      PROVE  Abs!Next \/ Client' = Client
  <2>1. Abs!Refuse(t) \/ Client' = Client
    BY <1>5, PushTaskRefines DEF RecvIocall, RecvTimerEmit
  <2> QED
    BY <2>1 DEF Abs!Next
<1>6. ASSUME NEW t \in Task, RunBegin(t) PROVE Abs!Next
  <2>1. Abs!Move(t, "waiting", "running")
    BY <1>3, <1>6, PhaseNames DEF RunBegin, ViewOf
  <2>2. Abs!Grant(t)
    BY <1>6, <2>1, StartIsGranted DEF RunBegin, Abs!Grant
  <2> QED
    BY <2>2 DEF Abs!Next
<1>7. ASSUME NEW t \in Task, TaskRunEnd(t) \/ TimerRunEnd(t) PROVE Abs!Next
  <2>1. Abs!Move(t, "running", "served")
    BY <1>3, <1>7, PhaseNames DEF TaskRunEnd, TimerRunEnd, ViewOf
  <2> QED
    BY <2>1 DEF Abs!Next, Abs!Finish
<1>8. ASSUME NEW t \in Task, TaskCb(t) \/ BusyCb(t) PROVE Client' = Client
  <2>1. \A u \in Task : ViewOf(phase'[u]) = ViewOf(phase[u])
    BY <1>1, <1>8 DEF TaskCb, BusyCb, ViewOf
  <2> QED
    BY <2>1, ClientStutters
<1>9. ASSUME NEW t \in Task, EpCb(t) \/ LateCb(t) PROVE Client' = Client
  BY <1>9, ClientStutters DEF EpCb, LateCb
<1>10. ASSUME NEW t \in Task, TaskDone(t) PROVE Abs!Next
  <2> DEFINE st2 == IF running - 1 = 0 THEN "IDLE" ELSE qstate
             ph2 == [phase EXCEPT ![t] = "none"]
  <2>1. phase[t] = "done" /\ ScheduleTasks(lanes, st2, running - 1, ph2)
    BY <1>10 DEF TaskDone, SetCompleteAndSchedule
  <2>2. Agree(lanes, st2, running - 1, ph2)
    BY <1>1, <2>1, CompleteAgrees
  <2>3. ph2 = [phase EXCEPT ![t] = "none"] /\ ViewOf(phase[t]) = "served"
    BY <2>1 DEF ViewOf
  <2> HIDE DEF st2, ph2
  <2>4. Abs!Move(t, "served", "idle")
    BY <1>1, <2>1, <2>2, <2>3, EndOfCall
  <2> QED
    BY <2>4 DEF Abs!Next, Abs!Return
<1>11. ASSUME NEW t \in Task, BusyDone(t) PROVE Abs!Next
  <2> DEFINE ph2 == [phase EXCEPT ![t] = "none"]
  <2>1. phase[t] = "busydone" /\ ScheduleTasks(lanes, qstate, running, ph2)
    BY <1>11 DEF BusyDone
  <2>2. Agree(lanes, qstate, running, ph2)
    BY <1>1, <2>1, MoveKeeps, PhaseNames
  <2>3. ph2 = [phase EXCEPT ![t] = "none"] /\ ViewOf(phase[t]) = "refused"
    BY <2>1 DEF ViewOf
  <2> HIDE DEF ph2
  <2>4. Abs!Move(t, "refused", "idle")
    BY <1>1, <2>1, <2>2, <2>3, EndOfCall
  <2> QED
    BY <2>4 DEF Abs!Next, Abs!Return
<1>12. ASSUME NEW t \in Task, LateDone(t) PROVE Client' = Client
  <2>1. ScheduleTasks(lanes, qstate, running, phase)
    BY <1>12 DEF LateDone
  <2>2. \A u \in Task : phase'[u] = phase[u] \/ (phase[u] = "queued" /\ phase'[u] = "run")
    BY <1>1, <2>1, ScheduleMoves
  <2>3. \A u \in Task : ViewOf(phase'[u]) = ViewOf(phase[u])
    BY <2>2 DEF ViewOf
  <2> QED
    BY <2>3, ClientStutters
<1> QED
  BY <1>2, <1>4, <1>5, <1>6, <1>7, <1>8, <1>9, <1>10, <1>11, <1>12 DEF Next

(* The service implements the readers-writer lock with admission control:  *)
(* for every number of tasks, capacity and mode, a write never overlaps    *)
(* another task and a request is refused only when the queue is full.      *)
THEOREM Refinement == Spec => RefinesAbs
<1>1. Init => Abs!Init
  BY DEF Init, Abs!Init, Client, ViewOf
<1> QED
  BY <1>1, Invariance, StepRefines, PTL DEF Spec, RefinesAbs, Abs!Spec
==============================================================================
