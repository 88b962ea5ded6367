-------------------------------- MODULE SkTxn --------------------------------
(***************************************************************************)
(* One transaction on its way through a workflow: src/common/sk_txn.c, the *)
(* WORKFLOW_RUN protocol that runs its modules and packs the answer        *)
(* (src/pto/sk_pto_workflow_run.c), the SVC_TASK_CB protocol that takes    *)
(* the answers of its service calls on the worker, and the part of         *)
(* SVC_TASK_DONE by which the master resumes the workflow.                 *)
(*                                                                         *)
(* The transaction belongs to one worker.  Its service calls (tasks) leave *)
(* for the master and come back as SVC_TASK_CB; what happens to them in    *)
(* between is module SkService.  A task is                                 *)
(*   unused    not called                                                  *)
(*   out       on its way through the service                              *)
(*   in        its SVC_TASK_CB is in the worker's input queues             *)
(*   ep        answered PENDING: it waits for endpoint calls               *)
(*   epin      its second SVC_TASK_CB is in the worker's input queues      *)
(*   complete                                                              *)
(* The worker handles everything in its input queues, what the handlers    *)
(* send to the worker itself included, before it looks at the messages     *)
(* from other engines again (sk_sched_start): action Dispatch.  Within the *)
(* input queues any order is allowed.                                      *)
(***************************************************************************)
EXTENDS Integers, FiniteSets

CONSTANTS
  Task,         \* the service calls the transaction may make
  HasCb,        \* the ones with a callback, the others are "no pending" calls
  PackTask,     \* the ones the last module's pack may make
  NumModules,   \* the length of the workflow
  HasTimeout    \* workflow->cfg->timeout > 0

ASSUME TxnAssumption ==
  /\ IsFiniteSet(Task)
  /\ HasCb \subseteq Task /\ PackTask \subseteq Task
  /\ NumModules \in Nat \ {0}
  /\ HasTimeout \in BOOLEAN

VARIABLES
  state,      \* txn->state
  midx,       \* how often txn->workflow_idx was advanced; once more than there
              \* are modules, and txn->current is NULL
  total,      \* txn->total_tasks
  complete,   \* txn->complete_tasks
  pending,    \* txn->pending_tasks
  task,       \* where each task is
  orphan,     \* the tasks whose taskdata->caller_module is NULL
  wfin,       \* WORKFLOW_RUN events in the worker's input queues
  resumes,    \* TASK_DONE with resume_wf, or the WORKFLOW_RUN the master makes of it
  expired,    \* the transaction is older than the timeout
  memory,     \* the txn object: "live" or "freed"
  fault       \* "none", or what ended the process

counters == <<total, complete, pending>>
vars == <<state, midx, counters, task, orphan, wfin, resumes, expired, memory, fault>>

Places == {"unused", "out", "in", "ep", "epin", "complete"}
TxnStates == {"UNPACKED", "RUNNING", "PENDING", "ERROR", "TIMEOUT", "DESTROYED"}
Faults == {"none", "abort", "use_after_free", "null_caller"}

TypeOK ==
  /\ state \in TxnStates
  /\ midx \in 0..(NumModules + 1)
  /\ total \in Nat /\ complete \in Nat /\ pending \in Nat
  /\ task \in [Task -> Places]
  /\ orphan \subseteq Task
  /\ wfin \in Nat /\ resumes \in Nat
  /\ expired \in BOOLEAN
  /\ memory \in {"live", "freed"}
  /\ fault \in Faults

(* sk_driver_util_unpack has filled the transaction (UNPACKED), or the     *)
(* driver of an autostart workflow has created it (RUNNING), and its first *)
(* WORKFLOW_RUN was sent.                                                  *)
Init ==
  /\ state \in {"UNPACKED", "RUNNING"} /\ midx = 0
  /\ total = 0 /\ complete = 0 /\ pending = 0
  /\ task = [t \in Task |-> "unused"] /\ orphan = {}
  /\ wfin = 1 /\ resumes = 0
  /\ expired = FALSE
  /\ memory = "live" /\ fault = "none"

Unused == {t \in Task : task[t] = "unused"}
Up == fault = "none"

------------------------------------------------------------------------------
(* The environment: time, and the messages from the other engines.         *)

Expire ==
  /\ Up /\ HasTimeout /\ ~expired
  /\ expired' = TRUE
  /\ UNCHANGED <<state, midx, counters, task, orphan, wfin, resumes, memory, fault>>

(* The worker has nothing left in its input queues and takes what has      *)
(* arrived from the master and the bios: tasks in S, and n WORKFLOW_RUN.   *)
Dispatch ==
  /\ Up /\ wfin = 0 /\ \A t \in Task : task[t] \notin {"in", "epin"}
  /\ \E S \in SUBSET {t \in Task : task[t] \in {"out", "ep"}}, n \in 0..resumes :
       /\ S # {} \/ n > 0
       /\ task' = [t \in Task |-> IF t \notin S THEN task[t]
                                  ELSE IF task[t] = "out" THEN "in" ELSE "epin"]
       /\ wfin' = n
       /\ resumes' = resumes - n
  /\ UNCHANGED <<state, midx, counters, orphan, expired, memory, fault>>

------------------------------------------------------------------------------
(* What the handlers are made of.                                          *)

(* sk_service_iocall for every task of S, called by user code: the tasks   *)
(* are added to counters tot and pend and sent out.  They keep the current *)
(* module of the transaction, and there is none once the list has ended.   *)
Calls(S, tsk, tot, pend) ==
  /\ orphan' = IF midx' > NumModules THEN orphan \cup S ELSE orphan
  /\ total' = tot + Cardinality(S)
  /\ pending' = pend + Cardinality(S \cap HasCb)
  /\ task' = [t \in Task |-> IF t \in S THEN "out" ELSE tsk[t]]

Crash(how) ==
  /\ fault' = how
  /\ UNCHANGED <<state, midx, counters, task, orphan, wfin, resumes, expired, memory>>

(* Mutant of PackAndDestroy: sk_txn_destroy without the check of           *)
(* sk_txn_safe_destroy.                                                    *)
PackAndFree(tsk, tot, pend) ==
  \E S \in SUBSET {t \in PackTask : tsk[t] = "unused"} :
    /\ Calls(S, tsk, tot, pend)
    /\ state' = "DESTROYED"
    /\ memory' = "freed"

(* From the COMPLETED, ERROR or TIMEOUT state to the end of the handler:   *)
(* pack, which may call the tasks of S, PACKED, DESTROYED, and             *)
(* sk_txn_safe_destroy, which keeps a transaction that has tasks out.      *)
(* tot and tsk are the counters and tasks at this point.                   *)
PackAndDestroy(tsk, tot, pend) ==
  \E S \in SUBSET {t \in PackTask : tsk[t] = "unused"} :
    /\ Calls(S, tsk, tot, pend)
    /\ state' = "DESTROYED"
    /\ memory' = IF complete < tot + Cardinality(S) THEN memory ELSE "freed"

(* The state a module is run in: RUNNING, unless the timeout check that    *)
(* comes first has overwritten it.                                         *)
RunState == IF expired THEN "TIMEOUT" ELSE "RUNNING"

(* _module_run: take the next module and run it; it calls the tasks of S   *)
(* and returns ret.                                                        *)
ModuleRun ==
  /\ midx < NumModules
  /\ midx' = midx + 1
  /\ \E S \in SUBSET Unused, ret \in {0, 1} :
       LET tsk  == [t \in Task |-> IF t \in S THEN "out" ELSE task[t]]
           tot  == total + Cardinality(S)
           pend == pending + Cardinality(S \cap HasCb)
       IN  \/ /\ pend > 0                           \* not complete: wait
              /\ Calls(S, task, total, pending)
              /\ state' = IF ret = 0 THEN "PENDING" ELSE "ERROR"
              /\ wfin' = wfin - 1
              /\ UNCHANGED memory
           \/ /\ pend = 0 /\ ret = 0 /\ midx' < NumModules   \* next module
              /\ Calls(S, task, total, pending)
              /\ state' = RunState
              /\ UNCHANGED <<wfin, memory>>         \* one handled, one sent
           \/ /\ pend = 0 /\ (ret = 1 \/ midx' = NumModules)
              /\ PackAndDestroy(tsk, tot, pend)
              /\ wfin' = wfin - 1

------------------------------------------------------------------------------
(* Worker: WORKFLOW_RUN, one action per state the transaction is found in. *)

WorkflowRunnable == Up /\ wfin > 0

RunModule ==
  /\ WorkflowRunnable /\ memory = "live"
  /\ state \in {"UNPACKED", "RUNNING", "PENDING"}
  /\ ModuleRun
  /\ UNCHANGED <<complete, resumes, expired, fault>>

(* Resumed after the last module, which awaited a callback: there is no    *)
(* next module, sk_txn_next_module makes txn->current NULL, and the        *)
(* workflow is complete.                                                   *)
RunComplete ==
  /\ WorkflowRunnable /\ memory = "live"
  /\ state \in {"UNPACKED", "RUNNING", "PENDING"}
  /\ midx = NumModules
  /\ midx' = midx + 1
  /\ PackAndDestroy(task, total, pending)
  /\ wfin' = wfin - 1
  /\ UNCHANGED <<complete, resumes, expired, fault>>

RunFailed ==
  /\ WorkflowRunnable /\ memory = "live"
  /\ state \in {"ERROR", "TIMEOUT"}
  /\ UNCHANGED <<midx, complete, resumes, expired, fault>>
  /\ PackAndDestroy(task, total, pending)
  /\ wfin' = wfin - 1

(* Resumed by the last no pending call.  The timeout check comes first:    *)
(* sk_txn_setstate aborts when a destroyed transaction is set to TIMEOUT.  *)
RunDestroyed ==
  /\ WorkflowRunnable /\ memory = "live" /\ state = "DESTROYED"
  /\ \/ expired /\ Crash("abort")
     \/ /\ ~expired
        /\ memory' = IF complete < total THEN memory ELSE "freed"
        /\ wfin' = wfin - 1
        /\ UNCHANGED <<state, midx, counters, task, orphan, resumes, expired, fault>>

(* A WORKFLOW_RUN that reaches a transaction that is already gone.         *)
RunFreed ==
  /\ WorkflowRunnable /\ memory = "freed"
  /\ Crash("use_after_free")

------------------------------------------------------------------------------
(* Worker: SVC_TASK_CB.                                                    *)

(* Mutants of ResumeWf: every answer resumes the workflow; only answers    *)
(* without a callback do.                                                  *)
ResumeWfAlways(t, comp, tot, pend) == TRUE
ResumeWfNoCbOnly(t, comp, tot, pend) == t \notin HasCb /\ comp = tot

(* resume_wf, with the counters of the end of the handler.                 *)
ResumeWf(t, comp, tot, pend) == IF t \in HasCb THEN pend = 0 ELSE comp = tot

SendTaskDone(resume) == resumes' = resumes + IF resume THEN 1 ELSE 0

(* Whatever the answer is, the handler first asks for the name of the      *)
(* module that made the call.                                              *)
CallerMissing(t) ==
  /\ Up /\ memory = "live" /\ task[t] \in {"in", "epin"} /\ t \in orphan
  /\ Crash("null_caller")

(* The service has returned but waits for endpoint calls.                  *)
TaskCbPending(t) ==
  /\ Up /\ memory = "live" /\ task[t] = "in" /\ t \notin orphan
  /\ task' = [task EXCEPT ![t] = "ep"]
  /\ SendTaskDone(ResumeWf(t, complete, total, pending))
  /\ UNCHANGED <<state, midx, counters, orphan, wfin, expired, memory, fault>>

(* DONE or BUSY: complete the task and run its callback, if it has one.    *)
(* The callback may call the tasks of S and returns ret.  After the end of *)
(* the transaction ret = 1 aborts; a C callback that asks for the status   *)
(* then (skull_txn_status) asserts too, and counts as one that returns 1.  *)
TaskCb(t) ==
  /\ Up /\ memory = "live" /\ task[t] \in {"in", "epin"} /\ t \notin orphan
  /\ \E S \in IF t \in HasCb THEN SUBSET Unused ELSE {{}},
        ret \in IF t \in HasCb THEN {0, 1} ELSE {0} :
       \/ ret = 1 /\ state = "DESTROYED" /\ Crash("abort")
       \/ /\ ret = 1 => state # "DESTROYED"
          /\ UNCHANGED <<midx, wfin, expired, memory, fault>>
          /\ complete' = complete + 1
          /\ Calls(S, [task EXCEPT ![t] = "complete"], total,
                   pending - Cardinality({t} \cap HasCb))
          /\ state' = IF ret = 1 THEN "ERROR" ELSE state
          /\ SendTaskDone(ResumeWf(t, complete', total', pending'))

Next ==
  \/ Expire \/ Dispatch
  \/ RunModule \/ RunComplete \/ RunFailed \/ RunDestroyed \/ RunFreed
  \/ \E t \in Task : CallerMissing(t) \/ TaskCbPending(t) \/ TaskCb(t)

Spec == Init /\ [][Next]_vars

(* The worker keeps handling its events and the services answer.           *)
Fairness ==
  /\ WF_vars(Dispatch)
  /\ WF_vars(RunModule \/ RunComplete \/ RunFailed \/ RunDestroyed \/ RunFreed)
  /\ WF_vars(\E t \in Task : CallerMissing(t) \/ TaskCbPending(t) \/ TaskCb(t))

FairSpec == Spec /\ Fairness

------------------------------------------------------------------------------
(* Properties.                                                             *)

InFlight == {t \in Task : task[t] \in {"out", "in", "ep", "epin"}}

(* The three counters of the transaction agree with its tasks.             *)
CountersMatch ==
  /\ total = Cardinality({t \in Task : task[t] # "unused"})
  /\ complete = Cardinality({t \in Task : task[t] = "complete"})
  /\ pending = Cardinality(InFlight \cap HasCb)

Used == {t \in Task : task[t] # "unused"}

(* The calls made so far all have a callback, or all have none.            *)
Uniform == Used \subseteq HasCb \/ Used \cap HasCb = {}

(* A transaction with calls of one sort is driven by one event at a time:  *)
(* at most one WORKFLOW_RUN (or request for one) exists, and none while a  *)
(* callback is awaited or after the transaction is gone, so that no        *)
(* handler touches it then; and a transaction that still exists has such   *)
(* an event or a task that will cause one.                                 *)
OneDriver ==
  Uniform =>
    /\ wfin + resumes <= 1
    /\ wfin + resumes = 1 => pending = 0 /\ memory = "live"
    /\ memory = "live" => wfin + resumes = 1 \/ InFlight # {}

(* A destroyed transaction is given another state, or asked for its        *)
(* status, and aborts, only if it made calls of both sorts, or timed out   *)
(* while it was kept for a no pending call, or its pack made a call with a *)
(* callback, which comes after the end; and not if the workflow had been   *)
(* resumed after its last module, unless calls of both sorts were made.    *)
AbortNeedsLateCall ==
  fault = "abort" =>
    \/ ~Uniform
    \/ /\ midx <= NumModules
       /\ \/ expired /\ Used # {} /\ Used \cap HasCb = {}
          \/ Used \cap HasCb \cap PackTask # {}

(* Only a transaction that made calls of both sorts is driven by a         *)
(* WORKFLOW_RUN after its memory was freed.                                *)
FreedUseNeedsBoth == fault = "use_after_free" => ~Uniform

(* The answer of a call finds no module only if the workflow was resumed   *)
(* after its last module, which awaited a callback, and the call was made  *)
(* after that: by pack, or by a late callback among calls of both sorts.   *)
NullNeedsResumedPack ==
  fault = "null_caller" =>
    /\ midx > NumModules
    /\ (Used \ orphan) \cap HasCb # {}
    /\ orphan # {}
    /\ Uniform => orphan \subseteq PackTask

(* What each way to die needs: the assertions on a destroyed transaction a *)
(* call that outlives the end, a freed one calls of both sorts, a missing  *)
(* module a last module with callbacks and a pack that makes calls.        *)
FaultCause == AbortNeedsLateCall /\ FreedUseNeedsBoth /\ NullNeedsResumedPack

(* A transaction is freed only when every one of its tasks has come back.  *)
FreedAfterTasks == memory = "freed" => InFlight = {}

(* The bookkeeping of a transaction: its types, its counters, and that no  *)
(* handler of a service call finds it freed.                               *)
IInv == TypeOK /\ CountersMatch /\ FreedAfterTasks

(* A module starts only when every callback of the modules before it has   *)
(* run.                                                                    *)
ModuleBarrier == [][midx' # midx /\ Uniform => pending = 0]_vars

(* Every transaction comes to its end and is freed: none hangs waiting for *)
(* an answer it already has, and none leaks.                               *)
EventuallyFreed == <>(memory = "freed" \/ fault # "none")
==============================================================================
