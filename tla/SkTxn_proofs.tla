----------------------------- MODULE SkTxn_proofs -----------------------------
(***************************************************************************)
(* Proofs about SkTxn, for every set of service calls, every choice of the *)
(* ones with a callback, every length of the workflow, with and without a  *)
(* timeout.  IInv is inductive once the three counters are known to count; *)
(* OneDriver and the causes of the faults need DriverInv, which says where *)
(* the tasks are while a WORKFLOW_RUN is under way, and CallerInv, which   *)
(* says which calls have no calling module.                                *)
(***************************************************************************)
EXTENDS SkTxn, TLAPS, FiniteSetTheorems

(* The counters of CountersMatch, for any assignment of places to tasks.   *)
UsedIn(tsk) == {t \in Task : tsk[t] # "unused"}
CompleteIn(tsk) == {t \in Task : tsk[t] = "complete"}
InFlightIn(tsk) == {t \in Task : tsk[t] \in {"out", "in", "ep", "epin"}}

Counted(tsk, tot, comp, pend) ==
  /\ tsk \in [Task -> Places]
  /\ tot = Cardinality(UsedIn(tsk))
  /\ comp = Cardinality(CompleteIn(tsk))
  /\ pend = Cardinality(InFlightIn(tsk) \cap HasCb)

(* Any set of tasks is finite, so its cardinality is a number.             *)
LEMMA TaskSetFinite ==
  ASSUME NEW S, S \subseteq Task
  PROVE  IsFiniteSet(S) /\ Cardinality(S) \in Nat
  BY FS_Subset, FS_CardinalityType, TxnAssumption

(* The size of two disjoint sets of tasks together.                        *)
LEMMA TwoSets ==
  ASSUME NEW A, NEW B, A \subseteq Task, B \subseteq Task, A \cap B = {}
  PROVE  Cardinality(A \cup B) = Cardinality(A) + Cardinality(B)
<1>1. IsFiniteSet(A) /\ IsFiniteSet(B) /\ Cardinality(A) \in Nat /\ Cardinality(B) \in Nat
  BY TaskSetFinite
<1>2. Cardinality(A \cup B) = Cardinality(A) + Cardinality(B) - Cardinality(A \cap B)
  BY <1>1, FS_Union
<1>3. Cardinality(A \cap B) = 0
  BY FS_EmptySet
<1> QED
  BY <1>1, <1>2, <1>3

(* What the counters tell: all tasks are back when complete_tasks has      *)
(* reached total_tasks, all callbacks are when pending_tasks is zero.      *)
LEMMA CountersTell ==
  ASSUME NEW tsk, NEW tot, NEW comp, NEW pend, Counted(tsk, tot, comp, pend)
  PROVE  /\ tot \in Nat /\ comp \in Nat /\ pend \in Nat
         /\ comp <= tot
         /\ comp = tot <=> InFlightIn(tsk) = {}
         /\ pend = 0 <=> InFlightIn(tsk) \cap HasCb = {}
<1>1. /\ UsedIn(tsk) \subseteq Task /\ CompleteIn(tsk) \subseteq UsedIn(tsk)
      /\ InFlightIn(tsk) \cap HasCb \subseteq Task
  BY DEF UsedIn, CompleteIn, InFlightIn
<1>2. /\ IsFiniteSet(UsedIn(tsk)) /\ IsFiniteSet(InFlightIn(tsk) \cap HasCb)
      /\ tot \in Nat /\ pend \in Nat
  BY <1>1, TaskSetFinite DEF Counted
<1>3. comp \in Nat /\ comp <= tot /\ (comp = tot => UsedIn(tsk) = CompleteIn(tsk))
  <2>1. CompleteIn(tsk) \in SUBSET UsedIn(tsk) /\ CompleteIn(tsk) \subseteq Task
    BY <1>1
  <2> QED
    BY <1>2, <2>1, FS_Subset, TaskSetFinite DEF Counted
<1>4. UsedIn(tsk) = CompleteIn(tsk) <=> InFlightIn(tsk) = {}
  BY DEF UsedIn, CompleteIn, InFlightIn, Counted, Places
<1>5. pend = 0 <=> InFlightIn(tsk) \cap HasCb = {}
  BY <1>2, FS_EmptySet DEF Counted
<1> QED
  BY <1>2, <1>3, <1>4, <1>5 DEF Counted

(* sk_txn_task_add for every task of S keeps the counters right.           *)
LEMMA CallsCounted ==
  ASSUME NEW tsk, NEW tot, NEW comp, NEW pend, Counted(tsk, tot, comp, pend),
         NEW S, S \subseteq {t \in Task : tsk[t] = "unused"}
  PROVE  Counted([t \in Task |-> IF t \in S THEN "out" ELSE tsk[t]],
                 tot + Cardinality(S), comp, pend + Cardinality(S \cap HasCb))
<1> DEFINE new == [t \in Task |-> IF t \in S THEN "out" ELSE tsk[t]]
<1>1. tsk \in [Task -> Places] /\ S \subseteq Task
  BY DEF Counted
<1>2. new \in [Task -> Places]
  BY <1>1 DEF Places
<1>3. /\ UsedIn(new) = UsedIn(tsk) \cup S /\ UsedIn(tsk) \cap S = {}
      /\ CompleteIn(new) = CompleteIn(tsk)
      /\ InFlightIn(new) \cap HasCb
           = (InFlightIn(tsk) \cap HasCb) \cup (S \cap HasCb)
      /\ (InFlightIn(tsk) \cap HasCb) \cap (S \cap HasCb) = {}
  BY <1>1 DEF UsedIn, CompleteIn, InFlightIn
<1>4. /\ UsedIn(tsk) \subseteq Task /\ InFlightIn(tsk) \cap HasCb \subseteq Task
      /\ S \cap HasCb \subseteq Task
  BY <1>1 DEF UsedIn, InFlightIn
<1>5. Cardinality(UsedIn(new)) = Cardinality(UsedIn(tsk)) + Cardinality(S)
  BY <1>1, <1>3, <1>4, TwoSets
<1>6. Cardinality(InFlightIn(new) \cap HasCb)
        = Cardinality(InFlightIn(tsk) \cap HasCb) + Cardinality(S \cap HasCb)
  BY <1>3, <1>4, TwoSets
<1> QED
  BY <1>2, <1>3, <1>5, <1>6 DEF Counted

(* sk_txn_task_setcomplete moves one task from in flight to complete.      *)
LEMMA CompletionCounted ==
  ASSUME NEW tsk, NEW tot, NEW comp, NEW pend, Counted(tsk, tot, comp, pend),
         NEW t \in Task, tsk[t] \in {"in", "epin"}
  PROVE  Counted([tsk EXCEPT ![t] = "complete"], tot, comp + 1,
                 pend - Cardinality({t} \cap HasCb))
<1> DEFINE new == [tsk EXCEPT ![t] = "complete"]
<1>1. tsk \in [Task -> Places]
  BY DEF Counted
<1>2. new \in [Task -> Places]
  BY <1>1 DEF Places
<1>3. /\ UsedIn(new) = UsedIn(tsk)
      /\ CompleteIn(new) = CompleteIn(tsk) \cup {t} /\ t \notin CompleteIn(tsk)
      /\ InFlightIn(new) = InFlightIn(tsk) \ {t} /\ t \in InFlightIn(tsk)
  BY <1>1 DEF UsedIn, CompleteIn, InFlightIn
<1>4. IsFiniteSet(CompleteIn(tsk)) /\ IsFiniteSet(InFlightIn(tsk) \cap HasCb)
  <2>1. CompleteIn(tsk) \subseteq Task /\ InFlightIn(tsk) \cap HasCb \subseteq Task
    BY DEF CompleteIn, InFlightIn
  <2> QED
    BY <2>1, TaskSetFinite
<1>5. Cardinality(CompleteIn(new)) = comp + 1
  BY <1>3, <1>4, FS_AddElement DEF Counted
<1>6. CASE t \in HasCb
  <2>1. Cardinality({t} \cap HasCb) = 1
    <3>1. {t} \cap HasCb = {t}
      BY <1>6
    <3> QED
      BY <3>1, FS_Singleton
  <2>2. InFlightIn(new) \cap HasCb = (InFlightIn(tsk) \cap HasCb) \ {t}
    BY <1>3
  <2>3. Cardinality(InFlightIn(new) \cap HasCb) = pend - 1
    BY <1>3, <1>4, <1>6, <2>2, FS_RemoveElement DEF Counted
  <2> QED
    BY <1>2, <1>3, <1>5, <2>1, <2>3 DEF Counted
<1>7. CASE t \notin HasCb
  <2>1. Cardinality({t} \cap HasCb) = 0
    <3>1. {t} \cap HasCb = {}
      BY <1>7
    <3> QED
      BY <3>1, FS_EmptySet
  <2>2. InFlightIn(new) \cap HasCb = InFlightIn(tsk) \cap HasCb
    BY <1>3, <1>7
  <2>3. pend - Cardinality({t} \cap HasCb) = pend
    BY <2>1, CountersTell
  <2> QED
    BY <1>2, <1>3, <1>5, <2>1, <2>2, <2>3 DEF Counted
<1> QED
  BY <1>6, <1>7

------------------------------------------------------------------------------
(* The counters of the state, as Counted sees them.                        *)
LEMMA CountedIs ==
  ASSUME IInv
  PROVE  /\ Counted(task, total, complete, pending)
         /\ InFlight = InFlightIn(task)
         /\ Used = UsedIn(task)
  BY DEF IInv, TypeOK, CountersMatch, Counted, InFlight, Used,
         UsedIn, CompleteIn, InFlightIn

LEMMA CountedMeans ==
  ASSUME Counted(task, total, complete, pending)'
  PROVE  /\ CountersMatch' /\ task' \in [Task -> Places]
         /\ total' \in Nat /\ complete' \in Nat /\ pending' \in Nat
         /\ pending' = 0 <=> InFlight' \cap HasCb = {}
         /\ complete' = total' <=> InFlight' = {}
<1>1. Counted(task', total', complete', pending')
  BY DEF Counted, UsedIn, CompleteIn, InFlightIn
<1>2. /\ total' \in Nat /\ complete' \in Nat /\ pending' \in Nat
      /\ complete' = total' <=> InFlightIn(task') = {}
      /\ pending' = 0 <=> InFlightIn(task') \cap HasCb = {}
  BY <1>1, CountersTell
<1>3. InFlight' = InFlightIn(task')
  BY DEF InFlight, InFlightIn
<1> QED
  BY <1>1, <1>2, <1>3
  DEF CountersMatch, Counted, InFlight, UsedIn, CompleteIn, InFlightIn

(* Tasks are only added: each one stays where it is or, unused, is called. *)
OnlyCalls ==
  \A t \in Task : \/ task'[t] = task[t]
                  \/ task[t] = "unused" /\ task'[t] = "out"

(* The end of a transaction: it is freed unless a task is out, and what is *)
(* then awaited with a callback was called by pack, if nothing was before. *)
Ends(pend) ==
  /\ state' = "DESTROYED"
  /\ memory' = IF InFlight' = {} THEN "freed" ELSE memory
  /\ pend = 0 => InFlight' \cap HasCb \subseteq PackTask

(* The tasks called in a step from tsk on, and which of them keep no       *)
(* calling module.                                                         *)
Called(tsk) == {t \in Task : tsk[t] = "unused" /\ task'[t] # "unused"}
OrphanRule(tsk) ==
  orphan' = IF midx' > NumModules THEN orphan \cup Called(tsk) ELSE orphan

(* sk_service_iocall keeps the calling module as OrphanRule says.          *)
LEMMA CallsOrphans ==
  ASSUME NEW tsk, tsk \in [Task -> Places], NEW tot, NEW pend,
         NEW S, S \subseteq {t \in Task : tsk[t] = "unused"},
         Calls(S, tsk, tot, pend)
  PROVE  OrphanRule(tsk) /\ Called(tsk) = S
<1>1. task' = [t \in Task |-> IF t \in S THEN "out" ELSE tsk[t]]
  BY DEF Calls
<1>2. Called(tsk) = S
  BY <1>1 DEF Called
<1> QED
  BY <1>2 DEF Calls, OrphanRule

(* PackAndDestroy ends the transaction, whatever pack calls.               *)
LEMMA PackEnds ==
  ASSUME NEW tsk, NEW tot, NEW pend, Counted(tsk, tot, complete, pend),
         PackAndDestroy(tsk, tot, pend), complete' = complete
  PROVE  /\ Counted(task, total, complete, pending)'
         /\ Ends(pend)
         /\ \A t \in Task : \/ task'[t] = tsk[t]
                            \/ tsk[t] = "unused" /\ task'[t] = "out"
         /\ OrphanRule(tsk) /\ Called(tsk) \subseteq PackTask
<1>1. PICK S \in SUBSET {t \in PackTask : tsk[t] = "unused"} :
        /\ Calls(S, tsk, tot, pend)
        /\ state' = "DESTROYED"
        /\ memory' = IF complete < tot + Cardinality(S) THEN memory ELSE "freed"
  BY DEF PackAndDestroy
<1>2. S \subseteq {t \in Task : tsk[t] = "unused"}
  BY TxnAssumption
<1>3. Counted(task', total', complete', pending')
  BY <1>1, <1>2, CallsCounted DEF Calls
<1>4. Counted(task, total, complete, pending)'
  BY <1>3 DEF Counted, UsedIn, CompleteIn, InFlightIn
<1>5. \A t \in Task : \/ task'[t] = tsk[t]
                      \/ tsk[t] = "unused" /\ task'[t] = "out" /\ t \in S
  BY <1>1, <1>2 DEF Calls
<1>6. memory' = IF InFlight' = {} THEN "freed" ELSE memory
  <2>1. total' = tot + Cardinality(S)
    BY <1>1 DEF Calls
  <2>2. complete' <= total'
    BY <1>3, CountersTell
  <2> QED
    BY <1>1, <1>4, <2>1, <2>2, CountedMeans
<1>7. ASSUME pend = 0 PROVE InFlight' \cap HasCb \subseteq PackTask
  <2>1. InFlightIn(tsk) \cap HasCb = {}
    BY <1>7, CountersTell
  <2>2. \A t \in InFlight' \cap HasCb : t \in S
    BY <1>5, <2>1 DEF InFlight, InFlightIn
  <2> QED
    BY <2>2
<1>8. OrphanRule(tsk) /\ Called(tsk) \subseteq PackTask
  BY <1>1, <1>2, CallsOrphans DEF Counted
<1> QED
  BY <1>1, <1>4, <1>5, <1>6, <1>7, <1>8 DEF Ends

(* One module: it waits for callbacks, or the next one follows, or the     *)
(* transaction ends.                                                       *)
LEMMA ModuleFacts ==
  ASSUME IInv, RunModule
  PROVE  /\ Counted(task, total, complete, pending)' /\ OnlyCalls
         /\ orphan' = orphan
         /\ \/ /\ pending' > 0 /\ state' \in {"PENDING", "ERROR"}
               /\ memory' = memory /\ wfin' = wfin - 1
            \/ /\ pending' = 0 /\ state' \in {"RUNNING", "TIMEOUT"}
               /\ memory' = memory /\ wfin' = wfin /\ midx' < NumModules
            \/ Ends(0) /\ wfin' = wfin - 1
<1>1. PICK S \in SUBSET Unused, ret \in {0, 1} :
       LET tsk  == [t \in Task |-> IF t \in S THEN "out" ELSE task[t]]
           tot  == total + Cardinality(S)
           pend == pending + Cardinality(S \cap HasCb)
       IN  \/ /\ pend > 0
              /\ Calls(S, task, total, pending)
              /\ state' = IF ret = 0 THEN "PENDING" ELSE "ERROR"
              /\ wfin' = wfin - 1
              /\ UNCHANGED memory
           \/ /\ pend = 0 /\ ret = 0 /\ midx' < NumModules
              /\ Calls(S, task, total, pending)
              /\ state' = RunState
              /\ UNCHANGED <<wfin, memory>>
           \/ /\ pend = 0 /\ (ret = 1 \/ midx' = NumModules)
              /\ PackAndDestroy(tsk, tot, pend)
              /\ wfin' = wfin - 1
  BY DEF RunModule, ModuleRun
<1> DEFINE tsk  == [t \in Task |-> IF t \in S THEN "out" ELSE task[t]]
           tot  == total + Cardinality(S)
           pend == pending + Cardinality(S \cap HasCb)
<1>2. complete' = complete /\ S \subseteq {t \in Task : task[t] = "unused"}
  BY DEF RunModule, Unused
<1>0. ~(midx' > NumModules)
  BY TxnAssumption DEF RunModule, ModuleRun, IInv, TypeOK
<1>3. Counted(tsk, tot, complete, pend)
  BY <1>2, CountedIs, CallsCounted
<1>4. CASE /\ Calls(S, task, total, pending)
           /\ \/ /\ pend > 0 /\ state' \in {"PENDING", "ERROR"}
                 /\ memory' = memory /\ wfin' = wfin - 1
              \/ /\ pend = 0 /\ state' = RunState /\ midx' < NumModules
                 /\ memory' = memory /\ wfin' = wfin
  <2>1. task' = tsk /\ total' = tot /\ pending' = pend
    BY <1>4 DEF Calls
  <2>2. Counted(task, total, complete, pending)'
    BY <1>2, <1>3, <2>1 DEF Counted, UsedIn, CompleteIn, InFlightIn
  <2>3. OnlyCalls
    BY <1>2, <2>1 DEF OnlyCalls
  <2> QED
    BY <1>0, <1>4, <2>1, <2>2, <2>3 DEF RunState, Calls
<1>5. CASE /\ PackAndDestroy(tsk, tot, pend)
           /\ wfin' = wfin - 1 /\ pend = 0
  <2> HIDE DEF tsk, tot, pend
  <2>1. /\ Counted(task, total, complete, pending)' /\ Ends(pend)
        /\ \A t \in Task : \/ task'[t] = tsk[t]
                           \/ tsk[t] = "unused" /\ task'[t] = "out"
        /\ OrphanRule(tsk)
    BY <1>2, <1>3, <1>5, PackEnds
  <2>2. OnlyCalls
    BY <1>2, <2>1 DEF OnlyCalls, tsk
  <2> QED
    BY <1>0, <1>5, <2>1, <2>2 DEF OrphanRule
<1> QED
  BY <1>1, <1>4, <1>5

(* One answer: the task is complete, its callback may have called others.  *)
(* Or the process ends.                                                    *)
LEMMA TaskCbFacts ==
  ASSUME IInv, NEW t \in Task, TaskCb(t)
  PROVE  \/ /\ fault' = "abort" /\ state = "DESTROYED" /\ t \in HasCb
            /\ UNCHANGED <<state, midx, counters, task, orphan, wfin, resumes, expired, memory>>
         \/ /\ Counted(task, total, complete, pending)'
            /\ task'[t] = "complete"
            /\ \A u \in Task \ {t} :
                 \/ task'[u] = task[u]
                 \/ task[u] = "unused" /\ task'[u] = "out" /\ t \in HasCb
            /\ state' = state \/ (state # "DESTROYED" /\ state' = "ERROR")
            /\ resumes' = resumes + IF ResumeWf(t, complete', total', pending')
                                    THEN 1 ELSE 0
            /\ OrphanRule(task)
            /\ UNCHANGED <<midx, wfin, expired, memory, fault>>
<1>1. PICK S \in IF t \in HasCb THEN SUBSET Unused ELSE {{}},
           ret \in IF t \in HasCb THEN {0, 1} ELSE {0} :
       \/ ret = 1 /\ state = "DESTROYED" /\ Crash("abort")
       \/ /\ ret = 1 => state # "DESTROYED"
          /\ complete' = complete + 1
          /\ Calls(S, [task EXCEPT ![t] = "complete"], total,
                   pending - Cardinality({t} \cap HasCb))
          /\ state' = IF ret = 1 THEN "ERROR" ELSE state
          /\ SendTaskDone(ResumeWf(t, complete', total', pending'))
          /\ UNCHANGED <<midx, wfin, expired, memory, fault>>
  BY DEF TaskCb
<1>2. CASE ret = 1 /\ state = "DESTROYED" /\ Crash("abort")
  BY <1>2 DEF Crash
<1>3. CASE /\ ret = 1 => state # "DESTROYED"
           /\ complete' = complete + 1
           /\ Calls(S, [task EXCEPT ![t] = "complete"], total,
                    pending - Cardinality({t} \cap HasCb))
           /\ state' = IF ret = 1 THEN "ERROR" ELSE state
           /\ SendTaskDone(ResumeWf(t, complete', total', pending'))
           /\ UNCHANGED <<midx, wfin, expired, memory, fault>>
  <2> DEFINE tsk  == [task EXCEPT ![t] = "complete"]
             pend == pending - Cardinality({t} \cap HasCb)
  <2>1. task[t] \in {"in", "epin"} /\ task \in [Task -> Places]
    BY DEF TaskCb, IInv, TypeOK
  <2>2. /\ S \subseteq {u \in Task : tsk[u] = "unused"}
        /\ S # {} => t \in HasCb
    BY <2>1 DEF Unused
  <2>3. Counted(tsk, total, complete', pend)
    BY <1>3, <2>1, CountedIs, CompletionCounted
  <2> HIDE DEF tsk, pend
  <2>4. Counted(task', total', complete', pending')
    BY <1>3, <2>2, <2>3, CallsCounted DEF Calls, tsk, pend
  <2>5. Counted(task, total, complete, pending)'
    BY <2>4 DEF Counted, UsedIn, CompleteIn, InFlightIn
  <2>6. /\ task'[t] = "complete"
        /\ \A u \in Task \ {t} :
             \/ task'[u] = task[u]
             \/ task[u] = "unused" /\ task'[u] = "out" /\ t \in HasCb
    BY <1>3, <2>1, <2>2 DEF Calls, tsk
  <2>9. OrphanRule(task)
    <3>1. tsk \in [Task -> Places] /\ OrphanRule(tsk)
      BY <1>3, <2>2, <2>3, CallsOrphans DEF Counted, tsk, pend
    <3>2. Called(tsk) = Called(task)
      BY <2>1, <2>6 DEF Called, tsk
    <3> QED
      BY <3>1, <3>2 DEF OrphanRule
  <2>7. resumes' = resumes + IF ResumeWf(t, complete', total', pending') THEN 1 ELSE 0
    BY <1>3 DEF SendTaskDone
  <2>8. state' = state \/ (state # "DESTROYED" /\ state' = "ERROR")
    BY <1>3
  <2> QED
    BY <1>3, <2>5, <2>6, <2>7, <2>8, <2>9
<1> QED
  BY <1>1, <1>2, <1>3

------------------------------------------------------------------------------
(* The types and the counters survive every step, and the transaction is   *)
(* freed only by a handler that has seen complete_tasks = total_tasks.     *)
LEMMA IInvStep ==
  ASSUME IInv, [Next]_vars
  PROVE  IInv'
<1> USE TxnAssumption
<1>0. TypeOK /\ CountersMatch /\ FreedAfterTasks
  BY DEF IInv
<1>1. CASE Expire
  BY <1>0, <1>1
  DEF Expire, IInv, TypeOK, CountersMatch, FreedAfterTasks, InFlight, counters
<1>2. CASE Dispatch
  <2>1. PICK S \in SUBSET {t \in Task : task[t] \in {"out", "ep"}}, n \in 0..resumes :
          /\ task' = [t \in Task |-> IF t \notin S THEN task[t]
                                    ELSE IF task[t] = "out" THEN "in" ELSE "epin"]
          /\ wfin' = n /\ resumes' = resumes - n
    BY <1>2 DEF Dispatch
  <2>2. UNCHANGED <<state, midx, total, complete, pending, orphan, expired, memory, fault>>
    BY <1>2 DEF Dispatch, counters
  <2>3. TypeOK'
    BY <1>0, <2>1, <2>2 DEF TypeOK, Places
  <2>4. /\ InFlight' = InFlight
        /\ {t \in Task : task[t] # "unused"}' = {t \in Task : task[t] # "unused"}
        /\ {t \in Task : task[t] = "complete"}' = {t \in Task : task[t] = "complete"}
    BY <1>0, <2>1 DEF InFlight, TypeOK
  <2> QED
    BY <1>0, <2>2, <2>3, <2>4 DEF IInv, CountersMatch, FreedAfterTasks
<1>3. CASE RunModule
  <2>1. /\ wfin > 0 /\ memory = "live" /\ midx' = midx + 1 /\ midx < NumModules
        /\ UNCHANGED <<complete, resumes, expired, fault>>
    BY <1>3 DEF RunModule, ModuleRun, WorkflowRunnable
  <2>2. Counted(task, total, complete, pending)' /\ orphan' = orphan
    BY <1>3, ModuleFacts
  <2>3. /\ state' \in TxnStates /\ wfin' \in Nat /\ memory' \in {"live", "freed"}
        /\ memory' = "freed" => InFlight' = {}
    BY <1>0, <1>3, <2>1, ModuleFacts DEF Ends, TypeOK, TxnStates
  <2> QED
    BY <1>0, <2>1, <2>2, <2>3, CountedMeans DEF IInv, TypeOK, FreedAfterTasks
<1>4. CASE RunComplete \/ RunFailed
  <2>1. /\ wfin > 0 /\ memory = "live" /\ PackAndDestroy(task, total, pending)
        /\ wfin' = wfin - 1 /\ UNCHANGED <<complete, resumes, expired, fault>>
        /\ midx' = midx \/ (midx = NumModules /\ midx' = midx + 1)
    <3>1. CASE RunComplete
      BY <3>1 DEF RunComplete, WorkflowRunnable
    <3>2. CASE RunFailed
      BY <3>2 DEF RunFailed, WorkflowRunnable
    <3> QED
      BY <1>4, <3>1, <3>2
  <2>2. Counted(task, total, complete, pending)' /\ Ends(pending) /\ OrphanRule(task)
    BY <2>1, CountedIs, PackEnds
  <2>4. orphan' \subseteq Task
    BY <1>0, <2>2 DEF OrphanRule, Called, TypeOK
  <2>3. /\ state' \in TxnStates /\ wfin' \in Nat /\ memory' \in {"live", "freed"}
        /\ memory' = "freed" => InFlight' = {}
    BY <1>0, <2>1, <2>2 DEF Ends, TypeOK, TxnStates
  <2> QED
    BY <1>0, <2>1, <2>2, <2>3, <2>4, CountedMeans DEF IInv, TypeOK, FreedAfterTasks
<1>5. CASE RunDestroyed
  <2>1. /\ UNCHANGED <<state, midx, total, complete, pending, task, orphan, resumes, expired>>
        /\ \/ fault' = "abort" /\ UNCHANGED <<wfin, memory>>
           \/ /\ memory' = IF complete < total THEN memory ELSE "freed"
              /\ wfin' = wfin - 1 /\ wfin > 0 /\ UNCHANGED fault
    BY <1>5 DEF RunDestroyed, Crash, WorkflowRunnable, counters
  <2>2. TypeOK'
    BY <1>0, <2>1 DEF TypeOK, Faults
  <2>3. CountersMatch' /\ InFlight' = InFlight
    BY <1>0, <2>1 DEF CountersMatch, InFlight
  <2>4. ~(complete < total) => InFlight = {}
    BY CountedIs, CountersTell
  <2> QED
    BY <1>0, <2>1, <2>2, <2>3, <2>4 DEF IInv, FreedAfterTasks
<1>6. CASE RunFreed
  BY <1>0, <1>6
  DEF RunFreed, Crash, IInv, TypeOK, Faults, CountersMatch, FreedAfterTasks, InFlight, counters
<1>7. ASSUME NEW t \in Task, TaskCbPending(t) PROVE IInv'
  <2>1. /\ task[t] = "in" /\ task' = [task EXCEPT ![t] = "ep"]
        /\ memory = "live"
        /\ \/ resumes' = resumes \/ resumes' = resumes + 1
        /\ UNCHANGED <<state, midx, total, complete, pending, orphan, wfin, expired, memory, fault>>
    BY <1>0, <1>7 DEF TaskCbPending, SendTaskDone, counters, TypeOK
  <2>2. TypeOK'
    BY <1>0, <2>1 DEF TypeOK, Places
  <2>3. /\ InFlight' = InFlight
        /\ {u \in Task : task[u] # "unused"}' = {u \in Task : task[u] # "unused"}
        /\ {u \in Task : task[u] = "complete"}' = {u \in Task : task[u] = "complete"}
    BY <1>0, <2>1 DEF InFlight, TypeOK
  <2> QED
    BY <1>0, <2>1, <2>2, <2>3 DEF IInv, CountersMatch, FreedAfterTasks
<1>8. ASSUME NEW t \in Task, TaskCb(t) PROVE IInv'
  <2>1. CASE /\ fault' = "abort"
             /\ UNCHANGED <<state, midx, counters, task, orphan, wfin, resumes, expired, memory>>
    BY <1>0, <2>1
    DEF IInv, TypeOK, Faults, CountersMatch, FreedAfterTasks, InFlight, counters
  <2>2. CASE /\ Counted(task, total, complete, pending)'
             /\ state' = state \/ state' = "ERROR"
             /\ resumes' = resumes + IF ResumeWf(t, complete', total', pending')
                                     THEN 1 ELSE 0
             /\ OrphanRule(task)
             /\ UNCHANGED <<midx, wfin, expired, memory, fault>>
    <3>1. memory = "live"
      BY <1>8 DEF TaskCb
    <3>2. resumes' \in Nat /\ state' \in TxnStates
      BY <1>0, <2>2 DEF TypeOK, TxnStates
    <3>3. orphan' \subseteq Task
      BY <1>0, <2>2 DEF OrphanRule, Called, TypeOK
    <3> QED
      BY <1>0, <2>2, <3>1, <3>2, <3>3, CountedMeans DEF IInv, TypeOK, FreedAfterTasks
  <2> QED
    BY <1>8, <2>1, <2>2, TaskCbFacts
<1>9. ASSUME NEW t \in Task, CallerMissing(t) PROVE IInv'
  BY <1>0, <1>9
  DEF CallerMissing, Crash, IInv, TypeOK, Faults, CountersMatch, FreedAfterTasks,
      InFlight, counters
<1>10. CASE UNCHANGED vars
  BY <1>0, <1>10
  DEF vars, counters, IInv, TypeOK, CountersMatch, FreedAfterTasks, InFlight
<1> QED
  BY <1>1, <1>2, <1>3, <1>4, <1>5, <1>6, <1>7, <1>8, <1>9, <1>10 DEF Next

(* Types, counters and lifetime hold at the start: nothing is called.      *)
LEMMA IInvInit ==
  ASSUME Init
  PROVE  IInv
<1>1. /\ {t \in Task : task[t] # "unused"} = {}
      /\ {t \in Task : task[t] = "complete"} = {}
      /\ InFlight = {} /\ InFlight \cap HasCb = {}
  BY DEF Init, InFlight
<1>2. CountersMatch
  BY <1>1, FS_EmptySet DEF Init, CountersMatch
<1>3. TypeOK
  <2>1. /\ state \in TxnStates /\ midx \in 0..(NumModules + 1) /\ orphan \subseteq Task
        /\ task \in [Task -> Places] /\ memory \in {"live", "freed"}
        /\ total \in Nat /\ complete \in Nat /\ pending \in Nat
        /\ wfin \in Nat /\ resumes \in Nat /\ fault \in Faults
    BY TxnAssumption DEF Init, TxnStates, Places, Faults
  <2>2. expired \in BOOLEAN
    BY DEF Init
  <2> QED
    BY <2>1, <2>2 DEF TypeOK
<1> QED
  BY <1>1, <1>2, <1>3 DEF IInv, FreedAfterTasks

(* The counters of sk_txn.c are right and no handler of a service call     *)
(* finds its transaction freed, for any number of calls and modules.       *)
THEOREM Invariance == Spec => []IInv
<1>1. Init => IInv
  BY IInvInit
<1>2. IInv /\ [Next]_vars => IInv'
  BY IInvStep
<1> QED
  BY <1>1, <1>2, PTL DEF Spec

------------------------------------------------------------------------------
(* Who drives the transaction.  While a WORKFLOW_RUN is in the worker's    *)
(* queues no answer is, since the worker takes in neither before its       *)
(* queues are empty; while one is on its way no task is in flight at all.  *)
Driven ==
  Uniform =>
    /\ wfin + resumes <= 1
    /\ wfin = 1 => /\ pending = 0 /\ memory = "live"
                   /\ \A t \in Task : task[t] \in {"unused", "out", "complete"}
    /\ resumes = 1 => InFlight = {} /\ memory = "live"
    /\ memory = "live" => wfin + resumes = 1 \/ InFlight # {}

(* A destroyed transaction that is kept is kept for no pending calls, or   *)
(* for a call with a callback that pack made.                              *)
KeptForLateCalls ==
  Uniform /\ memory = "live" /\ state = "DESTROYED" =>
    \/ Used # {} /\ Used \cap HasCb = {}
    \/ Used \cap HasCb \cap PackTask # {}

DriverInv ==
  /\ Driven /\ KeptForLateCalls
  /\ AbortNeedsLateCall /\ FreedUseNeedsBoth

(* Calls without a calling module are made only after RunComplete, which   *)
(* needs a last module that awaited a callback.  If all calls are of one   *)
(* sort they are pack's, and nothing else is in flight or under way.       *)
CallerInv ==
  /\ midx <= NumModules => orphan = {}
  /\ orphan \subseteq Used
  /\ midx = NumModules /\ state \in {"UNPACKED", "RUNNING", "PENDING"} =>
       Used \cap HasCb # {}
  /\ midx > NumModules => state = "DESTROYED" /\ (Used \ orphan) \cap HasCb # {}
  /\ Uniform /\ midx > NumModules =>
       /\ orphan \subseteq PackTask /\ InFlight \subseteq orphan
       /\ wfin = 0 /\ resumes = 0
  /\ NullNeedsResumedPack

(* Calls made later can only end uniformity.                               *)
LEMMA UniformBack ==
  ASSUME Used \subseteq Used', Uniform'
  PROVE  Uniform
  BY DEF Uniform

(* A handler that ends the transaction leaves no driver, and a live        *)
(* transaction only with a task out.                                       *)
LEMMA EndsKeep ==
  ASSUME IInv, IInv', DriverInv, NEW pend, Ends(pend), pend = 0 \/ pend = pending,
         wfin > 0, memory = "live", fault = "none", OnlyCalls,
         wfin' = wfin - 1, UNCHANGED <<resumes, fault>>
  PROVE  DriverInv'
<1>1. Used \subseteq Used' /\ InFlight' \subseteq Used'
  <2>1. task \in [Task -> Places]
    BY DEF IInv, TypeOK
  <2> QED
    BY <2>1 DEF OnlyCalls, Used, InFlight
<1>2. ASSUME Uniform'
      PROVE  /\ wfin' = 0 /\ resumes' = 0
             /\ InFlight' \cap HasCb \subseteq PackTask
  <2>1. Uniform
    BY <1>1, <1>2, UniformBack
  <2>2. wfin \in Nat /\ resumes \in Nat
    BY DEF IInv, TypeOK
  <2>3. wfin = 1 /\ resumes = 0 /\ pending = 0
    BY <2>1, <2>2 DEF DriverInv, Driven
  <2> QED
    BY <2>3 DEF Ends
<1>3. Driven'
  BY <1>2 DEF Driven, Ends
<1>4. KeptForLateCalls'
  <2>1. SUFFICES ASSUME Uniform', memory' = "live"
                 PROVE  \/ Used' # {} /\ Used' \cap HasCb = {}
                        \/ Used' \cap HasCb \cap PackTask # {}
    BY DEF KeptForLateCalls
  <2>2. PICK t : t \in InFlight'
    BY <2>1 DEF Ends
  <2> QED
    BY <1>1, <1>2, <2>1, <2>2 DEF Uniform
<1> QED
  BY <1>3, <1>4 DEF DriverInv, AbortNeedsLateCall, FreedUseNeedsBoth

(* Steps that neither make calls nor take a module.                        *)
LEMMA CallerKeeps ==
  ASSUME IInv, CallerInv, Up, fault' # "null_caller",
         UNCHANGED <<state, midx, orphan>>, Used' = Used, InFlight' = InFlight,
         Uniform /\ midx > NumModules => wfin' = 0 /\ resumes' = 0
  PROVE  CallerInv'
<1>1. Uniform' <=> Uniform
  BY DEF Uniform
<1> QED
  BY <1>1 DEF CallerInv, NullNeedsResumedPack

(* CallerInv survives every step.                                          *)
LEMMA CallerStep ==
  ASSUME IInv, IInv', DriverInv, CallerInv, [Next]_vars
  PROVE  CallerInv'
<1>0. /\ wfin \in Nat /\ resumes \in Nat /\ task \in [Task -> Places]
      /\ midx \in Int /\ NumModules \in Int /\ Driven
  BY TxnAssumption DEF IInv, TypeOK, DriverInv
<1>1. CASE Expire
  <2>1. /\ UNCHANGED <<state, midx, orphan, task, wfin, resumes, fault>> /\ Up
    BY <1>1 DEF Expire
  <2> QED
    BY <2>1, CallerKeeps DEF CallerInv, Used, InFlight, Up
<1>2. CASE Dispatch
  <2>1. PICK S \in SUBSET {t \in Task : task[t] \in {"out", "ep"}}, n \in 0..resumes :
          /\ task' = [t \in Task |-> IF t \notin S THEN task[t]
                                    ELSE IF task[t] = "out" THEN "in" ELSE "epin"]
          /\ wfin' = n /\ resumes' = resumes - n
    BY <1>2 DEF Dispatch
  <2>2. UNCHANGED <<state, midx, orphan, fault>> /\ Up
    BY <1>2 DEF Dispatch
  <2>3. Used' = Used /\ InFlight' = InFlight
    BY <1>0, <2>1 DEF Used, InFlight
  <2>4. resumes = 0 => wfin' = 0 /\ resumes' = 0
    <3>1. SUFFICES ASSUME resumes = 0 PROVE wfin' = 0 /\ resumes' = 0
      OBVIOUS
    <3>2. n = 0
      BY <3>1
    <3> QED
      BY <2>1, <3>1, <3>2
  <2> QED
    BY <2>2, <2>3, <2>4, CallerKeeps DEF CallerInv, Up
<1>3. CASE RunModule
  <2>1. /\ midx < NumModules /\ midx' = midx + 1 /\ fault' = fault /\ fault = "none"
    BY <1>3 DEF RunModule, ModuleRun, WorkflowRunnable, Up
  <2>2. /\ Counted(task, total, complete, pending)' /\ orphan' = orphan
        /\ \/ pending' > 0
           \/ midx' < NumModules
           \/ state' = "DESTROYED"
    BY <1>3, ModuleFacts DEF Ends
  <2>3. pending' > 0 => Used' \cap HasCb # {}
    <3>1. pending' > 0 => InFlight' \cap HasCb # {}
      BY <2>2, CountedMeans
    <3> QED
      BY <3>1 DEF InFlight, Used
  <2>4. orphan' = {} /\ ~(midx' > NumModules)
    BY <1>0, <2>1, <2>2 DEF CallerInv
  <2> QED
    BY <1>0, <2>1, <2>2, <2>3, <2>4 DEF CallerInv, NullNeedsResumedPack
<1>4. CASE RunComplete \/ RunFailed
  <2>1. /\ wfin > 0 /\ memory = "live" /\ PackAndDestroy(task, total, pending)
        /\ wfin' = wfin - 1 /\ fault = "none"
        /\ UNCHANGED <<complete, resumes, fault>>
        /\ \/ /\ midx' = midx + 1 /\ midx = NumModules
              /\ state \in {"UNPACKED", "RUNNING", "PENDING"}
           \/ midx' = midx /\ state \in {"ERROR", "TIMEOUT"}
    <3>1. CASE RunComplete
      BY <3>1 DEF RunComplete, WorkflowRunnable, Up
    <3>2. CASE RunFailed
      BY <3>2 DEF RunFailed, WorkflowRunnable, Up
    <3> QED
      BY <1>4, <3>1, <3>2
  <2>2. /\ state' = "DESTROYED" /\ OrphanRule(task)
        /\ Called(task) \subseteq PackTask /\ OnlyCalls
    BY <2>1, CountedIs, PackEnds DEF OnlyCalls, Ends
  <2>3. /\ Used' = Used \cup Called(task) /\ Used \cap Called(task) = {}
        /\ InFlight' = InFlight \cup Called(task)
    BY <1>0, <2>2 DEF OnlyCalls, Used, InFlight, Called
  <2>4. CASE midx' = midx
    <3>1. ~(midx > NumModules) /\ orphan = {}
      BY <1>0, <2>1, <2>4 DEF CallerInv
    <3> QED
      BY <1>0, <2>1, <2>2, <2>4, <3>1 DEF CallerInv, OrphanRule, NullNeedsResumedPack
  <2>5. CASE /\ midx' = midx + 1 /\ midx = NumModules
             /\ state \in {"UNPACKED", "RUNNING", "PENDING"}
    <3>1. orphan' = Called(task) /\ Used \cap HasCb # {}
      BY <1>0, <2>2, <2>5 DEF CallerInv, OrphanRule
    <3>2. (Used' \ orphan') \cap HasCb # {}
      BY <2>3, <3>1
    <3>3. ASSUME Uniform' PROVE InFlight = {} /\ wfin' = 0 /\ resumes' = 0
      <4>1. Uniform
        BY <2>3, <3>3, UniformBack
      <4>2. Used \subseteq HasCb
        BY <3>1, <4>1 DEF Uniform
      <4>3. wfin = 1 /\ resumes = 0 /\ pending = 0
        BY <1>0, <2>1, <4>1 DEF Driven
      <4>4. InFlight \cap HasCb = {}
        BY <4>3, CountedIs, CountersTell
      <4>5. InFlight \subseteq Used
        BY DEF InFlight, Used
      <4> QED
        BY <2>1, <4>2, <4>3, <4>4, <4>5
    <3> QED
      BY <1>0, <2>1, <2>2, <2>3, <2>5, <3>1, <3>2, <3>3
      DEF CallerInv, NullNeedsResumedPack
  <2> QED
    BY <2>1, <2>4, <2>5
<1>5. CASE RunDestroyed
  <2>1. /\ UNCHANGED <<state, midx, orphan, task, resumes>> /\ Up /\ wfin > 0
        /\ fault' # "null_caller"
    BY <1>5 DEF RunDestroyed, Crash, WorkflowRunnable, counters, Up
  <2>2. ~(Uniform /\ midx > NumModules)
    BY <2>1 DEF CallerInv
  <2> QED
    BY <2>1, <2>2, CallerKeeps DEF Used, InFlight
<1>6. CASE RunFreed
  <2>1. /\ UNCHANGED <<state, midx, orphan, task, wfin, resumes>> /\ Up
        /\ fault' # "null_caller"
    BY <1>6 DEF RunFreed, Crash, WorkflowRunnable, counters
  <2> QED
    BY <2>1, CallerKeeps DEF CallerInv, Used, InFlight
<1>7. ASSUME NEW t \in Task, TaskCbPending(t) PROVE CallerInv'
  <2>1. /\ task[t] = "in" /\ task' = [task EXCEPT ![t] = "ep"] /\ t \notin orphan
        /\ UNCHANGED <<state, midx, orphan, fault>> /\ Up
    BY <1>7 DEF TaskCbPending, counters
  <2>2. Used' = Used /\ InFlight' = InFlight /\ t \in InFlight
    BY <1>0, <2>1 DEF Used, InFlight
  <2>3. ~(Uniform /\ midx > NumModules)
    BY <2>1, <2>2 DEF CallerInv
  <2> QED
    BY <2>1, <2>2, <2>3, CallerKeeps DEF Up
<1>8. ASSUME NEW t \in Task, TaskCb(t) PROVE CallerInv'
  <2>1. task[t] \in {"in", "epin"} /\ t \notin orphan /\ fault = "none"
    BY <1>8 DEF TaskCb, Up
  <2>2. ~(Uniform /\ midx > NumModules)
    BY <2>1 DEF CallerInv, InFlight
  <2>3. CASE /\ fault' = "abort"
             /\ UNCHANGED <<state, midx, counters, task, orphan, wfin, resumes, expired, memory>>
    <3>1. Used' = Used /\ InFlight' = InFlight
      BY <2>3 DEF Used, InFlight
    <3> QED
      BY <2>1, <2>2, <2>3, <3>1, CallerKeeps DEF Up
  <2>4. CASE /\ task'[t] = "complete"
             /\ \A u \in Task \ {t} :
                  \/ task'[u] = task[u]
                  \/ task[u] = "unused" /\ task'[u] = "out" /\ t \in HasCb
             /\ state' = state \/ (state # "DESTROYED" /\ state' = "ERROR")
             /\ OrphanRule(task)
             /\ UNCHANGED <<midx, fault>>
    <3>1. Used' = Used \cup Called(task) /\ Used \cap Called(task) = {}
      BY <1>0, <2>1, <2>4 DEF Used, Called
    <3>2. Uniform' => Uniform
      BY <3>1, UniformBack
    <3>3. /\ midx <= NumModules => orphan' = orphan
          /\ midx > NumModules => orphan' = orphan \cup Called(task)
      BY <1>0, <2>4 DEF OrphanRule
    <3>4. Used \ orphan \subseteq Used' \ orphan'
      BY <1>0, <3>1, <3>3
    <3> QED
      BY <1>0, <2>1, <2>2, <2>4, <3>1, <3>2, <3>3, <3>4
      DEF CallerInv, NullNeedsResumedPack
  <2> QED
    BY <1>8, <2>3, <2>4, TaskCbFacts
<1>9. ASSUME NEW t \in Task, CallerMissing(t) PROVE CallerInv'
  <2>1. /\ t \in orphan /\ UNCHANGED <<state, midx, orphan, task, wfin, resumes>>
    BY <1>9 DEF CallerMissing, Crash, counters
  <2>2. /\ Used' = Used /\ InFlight' = InFlight /\ (Uniform' <=> Uniform)
    BY <2>1 DEF Used, InFlight, Uniform
  <2>3. midx > NumModules
    BY <1>0, <2>1 DEF CallerInv
  <2> QED
    BY <2>1, <2>2, <2>3 DEF CallerInv, NullNeedsResumedPack
<1>10. CASE UNCHANGED vars
  <2>1. UNCHANGED <<state, midx, orphan, task, wfin, resumes, fault>>
    BY <1>10 DEF vars
  <2>2. /\ Used' = Used /\ InFlight' = InFlight /\ (Uniform' <=> Uniform)
    BY <2>1 DEF Used, InFlight, Uniform
  <2> QED
    BY <2>1, <2>2 DEF CallerInv, NullNeedsResumedPack
<1> QED
  BY <1>1, <1>2, <1>3, <1>4, <1>5, <1>6, <1>7, <1>8, <1>9, <1>10 DEF Next

(* DriverInv survives every step.                                          *)
LEMMA DriverStep ==
  ASSUME IInv, IInv', DriverInv, CallerInv, [Next]_vars
  PROVE  DriverInv'
<1>0. /\ wfin \in Nat /\ resumes \in Nat /\ task \in [Task -> Places]
      /\ Driven /\ KeptForLateCalls /\ AbortNeedsLateCall /\ FreedUseNeedsBoth
      /\ midx \in Int /\ NumModules \in Int
  BY TxnAssumption DEF IInv, TypeOK, DriverInv
<1>1. CASE Expire
  BY <1>0, <1>1
  DEF Expire, Up, DriverInv, Driven, KeptForLateCalls, AbortNeedsLateCall,
      FreedUseNeedsBoth, Uniform, Used, InFlight, counters
<1>2. CASE Dispatch
  <2>1. PICK S \in SUBSET {t \in Task : task[t] \in {"out", "ep"}}, n \in 0..resumes :
          /\ S # {} \/ n > 0
          /\ task' = [t \in Task |-> IF t \notin S THEN task[t]
                                    ELSE IF task[t] = "out" THEN "in" ELSE "epin"]
          /\ wfin' = n /\ resumes' = resumes - n
    BY <1>2 DEF Dispatch
  <2>2. /\ UNCHANGED <<state, midx, total, complete, pending, expired, memory, fault>>
        /\ wfin = 0 /\ fault = "none"
    BY <1>2 DEF Dispatch, counters, Up
  <2>3. Used' = Used /\ InFlight' = InFlight /\ (Uniform' <=> Uniform)
    BY <1>0, <2>1 DEF Used, InFlight, Uniform
  <2>4. S \subseteq InFlight
    BY DEF InFlight
  <2>5. ASSUME Uniform, n > 0
        PROVE  /\ n = 1 /\ resumes = 1 /\ task' = task /\ InFlight = {} /\ pending = 0
               /\ memory = "live" /\ \A t \in Task : task[t] \in {"unused", "out", "complete"}
    <3>1. resumes = 1 /\ n = 1 /\ InFlight = {} /\ memory = "live"
      BY <1>0, <2>2, <2>5 DEF Driven
    <3>2. S = {}
      BY <2>4, <3>1
    <3>3. task' = task
      BY <1>0, <2>1, <3>2
    <3>4. \A t \in Task : task[t] \in {"unused", "complete"}
      BY <1>0, <3>1 DEF InFlight, Places
    <3>5. pending = 0
      BY <3>1, CountedIs, CountersTell
    <3> QED
      BY <3>1, <3>3, <3>4, <3>5
  <2>6. Driven'
    <3>1. CASE n > 0
      BY <2>1, <2>2, <2>3, <2>5, <3>1 DEF Driven
    <3>2. CASE n = 0
      BY <1>0, <2>1, <2>2, <2>3, <3>2 DEF Driven
    <3> QED
      BY <3>1, <3>2
  <2> QED
    BY <1>0, <2>2, <2>3, <2>6
    DEF DriverInv, KeptForLateCalls, AbortNeedsLateCall, FreedUseNeedsBoth
<1>3. CASE RunModule
  <2>1. /\ wfin > 0 /\ memory = "live" /\ fault = "none"
        /\ UNCHANGED <<complete, resumes, expired, fault>>
    BY <1>3 DEF RunModule, WorkflowRunnable, Up
  <2>2. OnlyCalls /\ Used \subseteq Used'
    <3>1. OnlyCalls
      BY <1>3, ModuleFacts
    <3> QED
      BY <1>0, <3>1 DEF OnlyCalls, Used
  <2>3. Uniform' => wfin = 1 /\ resumes = 0 /\ pending = 0
                    /\ \A t \in Task : task[t] \in {"unused", "out", "complete"}
    BY <1>0, <2>1, <2>2, UniformBack DEF Driven
  <2>4. CASE /\ pending' > 0 /\ state' \in {"PENDING", "ERROR"}
             /\ memory' = memory /\ wfin' = wfin - 1
    <3>1. InFlight' # {}
      <4>1. pending' # 0
        BY <2>4
      <4>2. Counted(task, total, complete, pending)'
        BY <1>3, ModuleFacts
      <4> QED
        BY <4>1, <4>2, CountedMeans
    <3> QED
      BY <2>1, <2>3, <2>4, <3>1
      DEF DriverInv, Driven, KeptForLateCalls, AbortNeedsLateCall, FreedUseNeedsBoth
  <2>5. CASE /\ pending' = 0 /\ state' \in {"RUNNING", "TIMEOUT"}
             /\ memory' = memory /\ wfin' = wfin
    <3>1. Uniform' => \A t \in Task : task'[t] \in {"unused", "out", "complete"}
      BY <2>2, <2>3 DEF OnlyCalls
    <3> QED
      BY <2>1, <2>3, <2>5, <3>1
      DEF DriverInv, Driven, KeptForLateCalls, AbortNeedsLateCall, FreedUseNeedsBoth
  <2>6. CASE Ends(0) /\ wfin' = wfin - 1
    BY <2>1, <2>2, <2>6, EndsKeep
  <2> QED
    BY <1>3, <2>4, <2>5, <2>6, ModuleFacts
<1>4. CASE RunComplete \/ RunFailed
  <2>1. /\ wfin > 0 /\ memory = "live" /\ PackAndDestroy(task, total, pending)
        /\ wfin' = wfin - 1 /\ fault = "none"
        /\ UNCHANGED <<complete, resumes, expired, fault>>
    <3>1. CASE RunComplete
      BY <3>1 DEF RunComplete, WorkflowRunnable, Up
    <3>2. CASE RunFailed
      BY <3>2 DEF RunFailed, WorkflowRunnable, Up
    <3> QED
      BY <1>4, <3>1, <3>2
  <2>2. Ends(pending) /\ OnlyCalls
    BY <2>1, CountedIs, PackEnds DEF OnlyCalls
  <2> QED
    BY <2>1, <2>2, EndsKeep
<1>5. CASE RunDestroyed
  <2>1. /\ UNCHANGED <<state, midx, pending, task, resumes, expired>>
        /\ wfin > 0 /\ fault = "none" /\ memory = "live" /\ state = "DESTROYED"
        /\ \/ expired /\ fault' = "abort" /\ UNCHANGED <<wfin, memory>>
           \/ /\ memory' = IF complete < total THEN memory ELSE "freed"
              /\ wfin' = wfin - 1 /\ UNCHANGED fault
    BY <1>5 DEF RunDestroyed, Crash, WorkflowRunnable, counters, Up
  <2>2. Used' = Used /\ InFlight' = InFlight /\ (Uniform' <=> Uniform)
    BY <2>1 DEF Used, InFlight, Uniform
  <2>3. complete < total => InFlight # {}
    BY CountedIs, CountersTell
  <2>4. Driven'
    BY <1>0, <2>1, <2>2, <2>3 DEF Driven
  <2>5. Uniform => midx <= NumModules
    BY <1>0, <2>1 DEF CallerInv
  <2> QED
    BY <1>0, <2>1, <2>2, <2>4, <2>5
    DEF DriverInv, KeptForLateCalls, AbortNeedsLateCall, FreedUseNeedsBoth
<1>6. CASE RunFreed
  <2>1. /\ wfin > 0 /\ memory = "freed" /\ fault = "none" /\ fault' = "use_after_free"
        /\ UNCHANGED <<state, midx, total, complete, pending, task, wfin, resumes, expired, memory>>
    BY <1>6 DEF RunFreed, WorkflowRunnable, Up, Crash, counters
  <2>2. ~Uniform
    BY <1>0, <2>1 DEF Driven
  <2>3. ~Uniform'
    BY <2>1, <2>2 DEF Uniform, Used
  <2> QED
    BY <2>1, <2>3
    DEF DriverInv, Driven, KeptForLateCalls, AbortNeedsLateCall, FreedUseNeedsBoth
<1>7. ASSUME NEW t \in Task, TaskCbPending(t) PROVE DriverInv'
  <2>1. /\ task[t] = "in" /\ task' = [task EXCEPT ![t] = "ep"] /\ fault = "none"
        /\ UNCHANGED <<state, pending, wfin, expired, memory, fault>>
    BY <1>7 DEF TaskCbPending, counters, Up
  <2>2. InFlight' = InFlight /\ Used' = Used /\ (Uniform' <=> Uniform) /\ t \in InFlight
    BY <1>0, <2>1 DEF InFlight, Used, Uniform
  <2>3. ~ResumeWf(t, complete, total, pending)
    BY <2>2, CountedIs, CountersTell DEF ResumeWf
  <2>4. resumes' = resumes
    BY <1>0, <1>7, <2>3 DEF TaskCbPending, SendTaskDone
  <2>5. Uniform => wfin = 0 /\ resumes = 0
    BY <1>0, <2>1, <2>2 DEF Driven
  <2> QED
    BY <1>0, <2>1, <2>2, <2>4, <2>5
    DEF DriverInv, Driven, KeptForLateCalls, AbortNeedsLateCall, FreedUseNeedsBoth
<1>8. ASSUME NEW t \in Task, TaskCb(t) PROVE DriverInv'
  <2>1. task[t] \in {"in", "epin"} /\ memory = "live" /\ fault = "none"
    BY <1>8 DEF TaskCb, Up
  <2>2. t \in InFlight /\ t \in Used
    BY <2>1 DEF InFlight, Used
  <2>3. Uniform => wfin = 0 /\ resumes = 0
    BY <1>0, <2>1, <2>2 DEF Driven
  <2>4. CASE /\ fault' = "abort" /\ state = "DESTROYED" /\ t \in HasCb
             /\ UNCHANGED <<state, midx, counters, task, orphan, wfin, resumes, expired, memory>>
    <3>1. /\ Used' = Used /\ InFlight' = InFlight /\ (Uniform' <=> Uniform)
          /\ UNCHANGED <<state, midx, pending, wfin, resumes, memory, task>>
      BY <2>4 DEF Used, InFlight, Uniform, counters
    <3>2. Uniform => midx <= NumModules
      <4>1. t \notin orphan
        BY <1>8 DEF TaskCb
      <4> QED
        BY <1>0, <2>2, <4>1 DEF CallerInv
    <3> QED
      BY <1>0, <2>1, <2>2, <2>4, <3>1, <3>2
      DEF DriverInv, Driven, KeptForLateCalls, AbortNeedsLateCall, FreedUseNeedsBoth
  <2>5. CASE /\ Counted(task, total, complete, pending)'
             /\ task'[t] = "complete"
             /\ \A u \in Task \ {t} :
                  \/ task'[u] = task[u]
                  \/ task[u] = "unused" /\ task'[u] = "out" /\ t \in HasCb
             /\ state' = state \/ (state # "DESTROYED" /\ state' = "ERROR")
             /\ resumes' = resumes + IF ResumeWf(t, complete', total', pending')
                                     THEN 1 ELSE 0
             /\ UNCHANGED <<midx, wfin, expired, memory, fault>>
    <3>1. Used \subseteq Used' /\ InFlight' \subseteq Used'
      BY <1>0, <2>5 DEF Used, InFlight
    <3>2. /\ complete' = total' <=> InFlight' = {}
          /\ pending' = 0 <=> InFlight' \cap HasCb = {}
      BY <2>5, CountedMeans
    <3>3. Uniform' => /\ ResumeWf(t, complete', total', pending') <=> InFlight' = {}
                      /\ Uniform
      <4>1. Uniform' => Uniform
        BY <3>1, UniformBack
      <4>2. CASE t \in HasCb
        <5>1. Uniform' => InFlight' \cap HasCb = InFlight'
          BY <2>2, <3>1, <4>2 DEF Uniform
        <5> QED
          BY <3>2, <4>1, <4>2, <5>1 DEF ResumeWf
      <4>3. CASE t \notin HasCb
        BY <3>2, <4>1, <4>3 DEF ResumeWf
      <4> QED
        BY <4>2, <4>3
    <3>4. Driven'
      <4>1. SUFFICES ASSUME Uniform' PROVE Driven'
        BY DEF Driven
      <4>2. wfin' = 0 /\ resumes' = IF InFlight' = {} THEN 1 ELSE 0
        BY <2>3, <2>5, <3>3, <4>1
      <4> QED
        BY <2>1, <2>5, <4>2 DEF Driven
    <3>5. KeptForLateCalls'
      <4>1. SUFFICES ASSUME Uniform', state' = "DESTROYED"
                     PROVE  \/ Used' # {} /\ Used' \cap HasCb = {}
                            \/ Used' \cap HasCb \cap PackTask # {}
        BY DEF KeptForLateCalls
      <4>2. \/ Used # {} /\ Used \cap HasCb = {}
            \/ Used \cap HasCb \cap PackTask # {}
        BY <1>0, <2>1, <2>5, <3>3, <4>1 DEF KeptForLateCalls
      <4>3. t \notin HasCb => Used' = Used
        BY <1>0, <2>1, <2>5 DEF Used
      <4> QED
        BY <2>2, <3>1, <4>2, <4>3
    <3> QED
      BY <2>1, <2>5, <3>4, <3>5 DEF DriverInv, AbortNeedsLateCall, FreedUseNeedsBoth
  <2> QED
    BY <1>8, <2>4, <2>5, TaskCbFacts
<1>9. ASSUME NEW t \in Task, CallerMissing(t) PROVE DriverInv'
  <2>1. /\ fault' = "null_caller"
        /\ UNCHANGED <<state, pending, task, wfin, resumes, memory>>
    BY <1>9 DEF CallerMissing, Crash, counters
  <2>2. Used' = Used /\ InFlight' = InFlight /\ (Uniform' <=> Uniform)
    BY <2>1 DEF Used, InFlight, Uniform
  <2> QED
    BY <1>0, <2>1, <2>2
    DEF DriverInv, Driven, KeptForLateCalls, AbortNeedsLateCall, FreedUseNeedsBoth
<1>10. CASE UNCHANGED vars
  BY <1>0, <1>10
  DEF vars, counters, DriverInv, Driven, KeptForLateCalls, AbortNeedsLateCall,
      FreedUseNeedsBoth, Uniform, Used, InFlight
<1> QED
  BY <1>1, <1>2, <1>3, <1>4, <1>5, <1>6, <1>7, <1>8, <1>9, <1>10 DEF Next

(* The three invariants together.                                          *)
LEMMA DriverInvariance == Spec => [](IInv /\ DriverInv /\ CallerInv)
<1>1. Init => IInv /\ DriverInv /\ CallerInv
  <2>1. SUFFICES ASSUME Init PROVE DriverInv /\ CallerInv
    BY IInvInit
  <2>2. InFlight = {} /\ wfin = 1 /\ resumes = 0
    BY <2>1 DEF Init, InFlight
  <2>3. DriverInv
    BY <2>1, <2>2
    DEF Init, DriverInv, Driven, KeptForLateCalls, AbortNeedsLateCall, FreedUseNeedsBoth
  <2>4. CallerInv
    BY <2>1, TxnAssumption DEF Init, CallerInv, NullNeedsResumedPack
  <2> QED
    BY <2>3, <2>4
<1>2. IInv /\ DriverInv /\ CallerInv /\ [Next]_vars => (IInv /\ DriverInv /\ CallerInv)'
  BY IInvStep, DriverStep, CallerStep
<1> QED
  BY <1>1, <1>2, PTL DEF Spec

(* A transaction with calls of one sort has one driver at a time: never    *)
(* two WORKFLOW_RUN, none while a callback is awaited or after it is       *)
(* freed, and none missing while it lives and has nothing out.             *)
THEOREM OneDriverHolds == Spec => []OneDriver
<1>1. IInv /\ DriverInv => OneDriver
  <2>1. SUFFICES ASSUME IInv, DriverInv, Uniform PROVE
          /\ wfin + resumes <= 1
          /\ wfin + resumes = 1 => pending = 0 /\ memory = "live"
          /\ memory = "live" => wfin + resumes = 1 \/ InFlight # {}
    BY DEF OneDriver
  <2>2. wfin \in Nat /\ resumes \in Nat
    BY <2>1 DEF IInv, TypeOK
  <2>3. InFlight = {} => pending = 0
    BY <2>1, CountedIs, CountersTell
  <2> QED
    BY <2>1, <2>2, <2>3 DEF DriverInv, Driven
<1> QED
  BY <1>1, DriverInvariance, PTL

(* What each way to die needs: an assertion on a destroyed transaction a   *)
(* call that outlives it, a WORKFLOW_RUN for a freed one calls of both     *)
(* sorts, and a NULL caller_module a workflow resumed after a last module  *)
(* that awaited a callback, and a call made from then on, by pack if all   *)
(* calls are of one sort.                                                  *)
THEOREM Causes == Spec => []FaultCause
<1>1. DriverInv /\ CallerInv => FaultCause
  BY DEF DriverInv, CallerInv, FaultCause
<1> QED
  BY <1>1, DriverInvariance, PTL

(* The barrier between modules: _module_run takes the next module only     *)
(* when no callback of an earlier one is awaited.                          *)
THEOREM Barrier == Spec => ModuleBarrier
<1>1. IInv /\ DriverInv /\ [Next]_vars => [midx' # midx /\ Uniform => pending = 0]_vars
  <2>1. SUFFICES ASSUME IInv, DriverInv, Next, midx' # midx, Uniform
                 PROVE  pending = 0
    OBVIOUS
  <2>2. RunModule \/ RunComplete
    BY <2>1 DEF Next, Expire, Dispatch, RunFailed, RunDestroyed,
                RunFreed, Crash, CallerMissing, TaskCbPending, TaskCb
  <2>3. wfin > 0 /\ wfin \in Nat /\ resumes \in Nat
    BY <2>1, <2>2 DEF RunModule, RunComplete, WorkflowRunnable, IInv, TypeOK
  <2> QED
    BY <2>1, <2>3 DEF DriverInv, Driven
<1> QED
  BY <1>1, DriverInvariance, PTL DEF ModuleBarrier, Spec
=============================================================================
