------------------------------- MODULE SkQueue -------------------------------
(***************************************************************************)
(* The task queue of a service (src/common/sk_queue.c) in its two          *)
(* read/write modes.  A queue is a queue state and three lanes: "mq" is    *)
(* the single buffer of mode RW_PW (prefer write), "rmq" and "wmq" are the *)
(* two buffers of mode RW_PR (prefer read).  The operators take the lanes  *)
(* and the queue state as arguments, so that the modules that own a queue  *)
(* keep both as variables.  The byte buffers behind the lanes grow by      *)
(* doubling up to max_slots, which shows only as the capacity MaxSlots.    *)
(***************************************************************************)
EXTENDS Integers, Sequences

CONSTANTS
  Task,      \* the elements a queue may hold
  Elem,      \* the element type of each task: SK_QUEUE_ELEM_READ or _WRITE
  Mode,      \* SK_QUEUE_RW_PR or SK_QUEUE_RW_PW
  MaxSlots   \* max_slots: the capacity of each buffer

ASSUME QueueAssumption ==
  /\ Elem \in [Task -> {"READ", "WRITE"}]
  /\ Mode \in {"RW_PR", "RW_PW"}
  /\ MaxSlots \in Nat \ {0}

Lanes == {"mq", "rmq", "wmq"}
NoLane == "none"

(* sk_queue_state_t; INIT and DESTROY are only set while the user's init   *)
(* and release callbacks run, LOCK only in the exclusive mode.             *)
QueueStates == {"IDLE", "READ", "WRITE"}

EmptyLanes == [l \in Lanes |-> <<>>]

(* The buffer a push of task t goes to.                                    *)
LaneOf(t) ==
  IF Mode = "RW_PW" THEN "mq" ELSE IF Elem[t] = "READ" THEN "rmq" ELSE "wmq"

(* Mutant of HasRoom: the last slot is never used.                         *)
HasRoomOffByOne(ln, t) == Len(ln[LaneOf(t)]) + 1 < MaxSlots

(* sk_queue_push returns 0, the element is stored.                         *)
HasRoom(ln, t) == Len(ln[LaneOf(t)]) < MaxSlots

Push(ln, t) == [ln EXCEPT ![LaneOf(t)] = Append(@, t)]

(* Mutant of Admits: a write is let in among running reads.                *)
AdmitsWriteAmongReads(st, t) == st \in {"IDLE", "READ"}

(* Whether a pull of one element may take task t in queue state st.        *)
Admits(st, t) == st = "IDLE" \/ (st = "READ" /\ Elem[t] = "READ")

(* The buffer from which sk_queue_pull(queue, elems, 1) takes its element, *)
(* or NoLane when it pulls nothing: RW_PW looks only at the head of its    *)
(* single buffer, RW_PR at the write buffer only when no read is waiting.  *)
PullLane(ln, st) ==
  IF Mode = "RW_PW"
    THEN IF ln["mq"] # <<>> /\ Admits(st, Head(ln["mq"])) THEN "mq" ELSE NoLane
    ELSE IF ln["rmq"] # <<>> /\ st \in {"IDLE", "READ"} THEN "rmq"
         ELSE IF ln["rmq"] = <<>> /\ ln["wmq"] # <<>> /\ st = "IDLE" THEN "wmq"
         ELSE NoLane

(* The queue state after the first i elements of seq were pulled one by    *)
(* one and each was started: READ or WRITE after the last of them.         *)
StateAfter(seq, st, i) == IF i = 0 THEN st ELSE Elem[seq[i]]

(* Pulling one element at a time from seq, starting in state st and        *)
(* starting each pulled task, takes exactly the first k elements.          *)
PullsExactly(seq, st, k) ==
  /\ \A i \in 1..k : Admits(StateAfter(seq, st, i - 1), seq[i])
  /\ k < Len(seq) => ~Admits(StateAfter(seq, st, k), seq[k + 1])
==============================================================================
