------------------------------- MODULE SkEntity -------------------------------
(***************************************************************************)
(* The life of one entity, the core's handle of a connection (tcp, stdin)  *)
(* or of a datagram (udp), and of the transactions it carries:             *)
(* src/entities/sk_entity*.c, src/components/sk_entity_mgr.c, the driver   *)
(* side src/drivers/sk_driver_utils.c with its callers, and the end of a   *)
(* transaction in src/pto/sk_pto_workflow_run.c.                           *)
(*                                                                         *)
(* A datagram is read by the master and given to the worker that runs its  *)
(* first event; everything else runs on the worker that owns the entity.   *)
(* A transaction is                                                        *)
(*   unused    not created                                                 *)
(*   half      its input is not complete yet (entity->half_txn)            *)
(*   queued    in entity->iqueue                                           *)
(*   running   in entity->txns, its workflow is running                    *)
(*   packed    in entity->txns, answered, but with service calls out       *)
(*   freed     its workflow has ended                                      *)
(*   killed    freed with the entity while its workflow was still running  *)
(* What happens to a transaction between running and packed is module      *)
(* SkTxn.                                                                  *)
(***************************************************************************)
EXTENDS Integers, Sequences, FiniteSets

CONSTANTS
  Txn,          \* the transactions the peer's data may make
  Kinds,        \* which entities: "stream" (tcp, stdin), "udp", or both
  Workflows,    \* which workflows: records of concurrent (workflow->cfg->concurrent)
                \* and packFails (the last module's pack may return an error)
  PeerCloses    \* the peer may close the connection

ASSUME EntityAssumption ==
  /\ IsFiniteSet(Txn)
  /\ Kinds \subseteq {"stream", "udp"} /\ Kinds # {}
  /\ Workflows \subseteq [concurrent : BOOLEAN, packFails : BOOLEAN]
  /\ PeerCloses \in BOOLEAN

VARIABLES
  workflow,  \* sk_entity_workflow(entity)
  kind,      \* entity->type
  status,    \* entity->status
  open,      \* entity->ud: the evbuff or the datagram still exists
  iqueue,    \* entity->iqueue
  taskcnt,   \* entity->task_cnt
  txn,       \* the phase of every transaction
  listed,    \* how often the entity is in mgr->inactive_entities
  memory,    \* the entity object: "live" or "freed"
  fault      \* "none", or what ended the process

vars == <<workflow, kind, status, open, iqueue, taskcnt, txn, listed, memory, fault>>

TxnPhases == {"unused", "half", "queued", "running", "packed", "freed", "killed"}

TypeOK ==
  /\ workflow \in Workflows
  /\ kind \in Kinds
  /\ status \in {"ACTIVE", "INACTIVE", "DEAD"}
  /\ open \in BOOLEAN
  /\ iqueue \in Seq(Txn)
  /\ taskcnt \in Nat
  /\ txn \in [Txn -> TxnPhases]
  /\ listed \in Nat
  /\ memory \in {"live", "freed"}
  /\ fault \in {"none", "abort", "use_after_free"}

(* The connection is accepted, or the datagram has just been read.         *)
Init ==
  /\ workflow \in Workflows
  /\ kind \in Kinds
  /\ status = "ACTIVE" /\ open = TRUE
  /\ iqueue = <<>> /\ taskcnt = 0
  /\ txn = [t \in Txn |-> "unused"]
  /\ listed = 0 /\ memory = "live" /\ fault = "none"

Up == fault = "none" /\ memory = "live"

------------------------------------------------------------------------------
(* What the handlers are made of.                                          *)

(* Mutant of Idle: the task count is not looked at.                        *)
IdleAlways(n) == TRUE

(* sk_entity_idle, with task count n.                                      *)
Idle(n) == workflow.concurrent \/ n <= 0

(* sk_driver_util_deliver(entity, _, 1), entered with queue iq, task count *)
(* n and phases ph.                                                        *)
Deliver(iq, n, ph) ==
  \/ /\ Idle(n) /\ iq # <<>>
     /\ iqueue' = Tail(iq)
     /\ taskcnt' = n + 1
     /\ txn' = [ph EXCEPT ![Head(iq)] = "running"]
  \/ /\ ~(Idle(n) /\ iq # <<>>)
     /\ iqueue' = iq /\ taskcnt' = n /\ txn' = ph

(* Mutants of MgrDel: the entity is not put on the list; the check for     *)
(* DEAD is missing.                                                        *)
MgrDelUnlisted(st) == open' = FALSE /\ status' = "DEAD" /\ UNCHANGED listed

MgrDelAgain(st) ==
  /\ open' = FALSE
  /\ status' = "DEAD"
  /\ listed' = listed + 1

(* sk_entity_safe_destroy on the owner's engine, that is sk_entity_mgr_del *)
(* on an entity of status st: the connection or datagram is released and   *)
(* the entity waits for sk_entity_mgr_clean_dead.                          *)
MgrDel(st) ==
  \/ /\ st # "DEAD"
     /\ open' = FALSE
     /\ status' = "DEAD"
     /\ listed' = listed + 1
  \/ /\ st = "DEAD"
     /\ status' = st
     /\ UNCHANGED <<open, listed>>

Crash(how) ==
  /\ fault' = how
  /\ UNCHANGED <<workflow, kind, status, open, iqueue, taskcnt, txn, listed, memory>>

(* The transaction the next input goes to: the half one, if there is one.  *)
IsInput(t) ==
  \/ txn[t] = "half"
  \/ txn[t] = "unused" /\ \A u \in Txn : txn[u] # "half"

(* A datagram is read once, a connection while it is active.               *)
Readable ==
  /\ Up /\ status = "ACTIVE"
  /\ kind = "udp" => \A t \in Txn : txn[t] = "unused"

------------------------------------------------------------------------------
(* Input: _read_cb and UDP _readcb, by what the first module's unpack      *)
(* returns.                                                                *)

UnpackMore(t) ==
  /\ Readable /\ IsInput(t)
  /\ txn' = [txn EXCEPT ![t] = "half"]
  /\ UNCHANGED <<workflow, kind, status, open, iqueue, taskcnt, listed, memory, fault>>

(* Mutant of UnpackOk: the transaction is queued after the delivery.       *)
UnpackOkLate(t) ==
  LET next == Idle(taskcnt) /\ iqueue # <<>>
  IN  /\ Readable /\ IsInput(t)
      /\ iqueue' = Append(IF next THEN Tail(iqueue) ELSE iqueue, t)
      /\ taskcnt' = IF next THEN taskcnt + 1 ELSE taskcnt
      /\ txn' = [u \in Txn |-> IF u = t THEN "queued"
                               ELSE IF next /\ u = Head(iqueue) THEN "running" ELSE txn[u]]
      /\ UNCHANGED <<workflow, kind, status, open, listed, memory, fault>>

UnpackOk(t) ==
  /\ Readable /\ IsInput(t)
  /\ Deliver(Append(iqueue, t), taskcnt, [txn EXCEPT ![t] = "queued"])
  /\ UNCHANGED <<workflow, kind, status, open, listed, memory, fault>>

(* The entity is destroyed; a udp entity has no owner yet and is freed at  *)
(* once.  The half transaction stays behind.                               *)
UnpackError(t) ==
  /\ Readable /\ IsInput(t)
  /\ txn' = [txn EXCEPT ![t] = "half"]
  /\ \/ /\ kind = "stream"
        /\ MgrDel(status)
        /\ UNCHANGED memory
     \/ /\ kind = "udp"
        /\ status' = "DEAD" /\ open' = FALSE /\ memory' = "freed"
        /\ UNCHANGED listed
  /\ UNCHANGED <<workflow, kind, iqueue, taskcnt, fault>>

(* _error: the peer has gone.                                              *)
PeerClose ==
  /\ Up /\ PeerCloses /\ kind = "stream" /\ open
  /\ MgrDel(status)
  /\ UNCHANGED <<workflow, kind, iqueue, taskcnt, txn, memory, fault>>

------------------------------------------------------------------------------
(* The end of a transaction in WORKFLOW_RUN.                               *)

(* The entity's status after pack: an error marks it inactive.             *)
StatusAfterPack(st) == {st} \cup IF workflow.packFails THEN {"INACTIVE"} ELSE {}

(* _txn_log_and_destroy for a transaction without outstanding calls, on an *)
(* entity of status st: the next queued transaction is delivered before    *)
(* this one leaves entity->txns (so that none is, although the comment     *)
(* there says that it is triggered), and the entity goes with its last     *)
(* transaction when it is not active any more or is a udp entity.          *)
TxnGone(t, st) ==
  LET next == Idle(taskcnt) /\ iqueue # <<>>
      left == IF next THEN taskcnt ELSE taskcnt - 1
  IN  /\ iqueue' = IF next THEN Tail(iqueue) ELSE iqueue
      /\ taskcnt' = left
      /\ txn' = [u \in Txn |-> IF u = t THEN "freed"
                               ELSE IF next /\ u = Head(iqueue) THEN "running" ELSE txn[u]]
      /\ IF (st # "ACTIVE" \/ kind = "udp") /\ left = 0
           THEN MgrDel(st)
           ELSE status' = st /\ UNCHANGED <<open, listed>>

(* pack, and the transaction is gone in the same handler.                  *)
Finish(t) ==
  /\ Up /\ txn[t] = "running"
  /\ \E st \in StatusAfterPack(status) : TxnGone(t, st)
  /\ UNCHANGED <<workflow, kind, memory, fault>>

(* pack, but some no pending calls are still out.                          *)
Pack(t) ==
  /\ Up /\ txn[t] = "running"
  /\ status' \in StatusAfterPack(status)
  /\ txn' = [txn EXCEPT ![t] = "packed"]
  /\ UNCHANGED <<workflow, kind, open, iqueue, taskcnt, listed, memory, fault>>

(* The last of them has come back.                                         *)
LastTaskDone(t) ==
  /\ Up /\ txn[t] = "packed"
  /\ TxnGone(t, status)
  /\ UNCHANGED <<workflow, kind, memory, fault>>

------------------------------------------------------------------------------
(* The entity manager.                                                     *)

InTxns == {t \in Txn : txn[t] \in {"running", "packed"}}

(* sk_entity_destroy of a DEAD entity: it frees its transactions and       *)
(* itself; sk_txn_destroy aborts on a queued transaction, which is not in  *)
(* entity->txns.                                                           *)
EntityDestroy ==
  \/ iqueue # <<>> /\ Crash("abort")
  \/ /\ iqueue = <<>>
     /\ memory' = "freed" /\ taskcnt' = 0 /\ listed' = listed - 1
     /\ txn' = [t \in Txn |-> IF t \in InTxns THEN "killed" ELSE txn[t]]
     /\ UNCHANGED <<workflow, kind, status, open, iqueue, fault>>

(* Mutant of CleanDead: transactions are not waited for.                   *)
CleanDeadForced == Up /\ listed > 0 /\ EntityDestroy

(* sk_entity_mgr_clean_dead, at the end of every scheduler round.          *)
CleanDead == Up /\ listed > 0 /\ taskcnt = 0 /\ EntityDestroy

(* A second list entry of an entity that is already freed.                 *)
CleanFreed ==
  /\ fault = "none" /\ memory = "freed" /\ listed > 0
  /\ Crash("use_after_free")

Next ==
  \/ PeerClose \/ CleanDead \/ CleanFreed
  \/ \E t \in Txn :
       \/ UnpackMore(t) \/ UnpackOk(t) \/ UnpackError(t)
       \/ Finish(t) \/ Pack(t) \/ LastTaskDone(t)

Spec == Init /\ [][Next]_vars

(* Workflows end (SkTxn) and the worker's scheduler keeps running; the     *)
(* peer need not send anything, and need not close.                        *)
Fairness ==
  /\ WF_vars(CleanDead \/ CleanFreed)
  /\ \A t \in Txn : WF_vars(Finish(t) \/ Pack(t)) /\ WF_vars(LastTaskDone(t))

FairSpec == Spec /\ Fairness

------------------------------------------------------------------------------
(* Properties.                                                             *)

(* entity->task_cnt is the number of transactions in entity->txns, and a   *)
(* transaction is in the input queue once exactly while it is queued.      *)
CountsMatch ==
  /\ taskcnt = Cardinality(InTxns)
  /\ Len(iqueue) = Cardinality({t \in Txn : txn[t] = "queued"})
  /\ \A t \in Txn : txn[t] = "queued" => \E i \in 1..Len(iqueue) : iqueue[i] = t

(* The entity outlives the transactions that point to it, and what         *)
(* sk_entity_mgr_clean_dead takes from its list is DEAD.                   *)
NoneKilled ==
  /\ \A t \in Txn : txn[t] # "killed"
  /\ memory = "live" /\ listed > 0 /\ taskcnt = 0 => status = "DEAD"

(* Without the concurrent option the transactions of an entity run one     *)
(* after the other.                                                        *)
SerialUnlessConcurrent == ~workflow.concurrent => Cardinality(InTxns) <= 1

(* Unless pack fails, an entity waits in inactive_entities exactly once    *)
(* from the moment it is DEAD until it is freed, so that it is freed once. *)
ListedOnceWhenDead ==
  ~workflow.packFails =>
    listed = IF status = "DEAD" /\ memory = "live" THEN 1 ELSE 0

(* The bookkeeping of an entity: its types, its count of transactions, its *)
(* place in the manager's list, that it outlives its transactions, and     *)
(* that it has one at a time without the concurrent option.                *)
IInv == /\ TypeOK /\ CountsMatch /\ NoneKilled /\ ListedOnceWhenDead
        /\ SerialUnlessConcurrent

(* What the two faults below need: only a workflow without the concurrent  *)
(* option aborts, and only a pack error makes the entity be freed twice.   *)
FaultCause ==
  /\ fault = "abort" => ~workflow.concurrent
  /\ fault = "use_after_free" => workflow.packFails

(* Requests wait in the input queue and nothing of this entity runs that   *)
(* could be waited for.                                                    *)
Stalled == memory = "live" /\ iqueue # <<>> /\ InTxns = {}

(* Requests become stalled only at the end of a transaction without the    *)
(* concurrent option, and a request that is read never leaves them so, as  *)
(* it delivers the oldest: no other order of input, errors, a close and    *)
(* transactions that are packed but not gone strands a request.            *)
StallNeedsEnd ==
  [][Stalled' =>
       /\ ~workflow.concurrent
       /\ Stalled \/ \E t \in InTxns : txn'[t] = "freed"
       /\ \A u \in Txn : txn[u] \in {"unused", "half"} =>
                         txn'[u] \in {"unused", "half"}]_vars

(* A connection that was closed is released in the end, and so is a        *)
(* datagram whose transaction was started, unless the process dies first.  *)
ClosedIsFreed ==
  (~open \/ (kind = "udp" /\ InTxns # {})) ~> (memory = "freed" \/ fault # "none")
==============================================================================
