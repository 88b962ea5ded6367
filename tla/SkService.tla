------------------------------ MODULE SkService ------------------------------
(***************************************************************************)
(* One service of skull and the protocol that runs its tasks               *)
(* (src/components/sk_service.c and the service protocols of src/pto).     *)
(*                                                                         *)
(* A worker calls a service api, or a service timer fires: the request     *)
(* goes to the master engine, which queues it and, in the same handler,    *)
(* schedules as many queued tasks as the read/write mode allows.  A        *)
(* scheduled task runs on the caller's engine or on a background i/o       *)
(* engine, its completion travels back (for an api call through the        *)
(* callback on the calling worker) to the master, which then schedules     *)
(* again.  When the queue is full the caller gets a BUSY answer and the    *)
(* task never runs.                                                        *)
(*                                                                         *)
(* A task is a slot that is used for one call after another.  Its phase is *)
(* the message that is in flight for it, or the place it is at:            *)
(*   none      no call outstanding                                         *)
(*   req       SVC_IOCALL or TIMER_EMIT on its way to the master           *)
(*   queued    in the service's pending_tasks queue                        *)
(*   run       SVC_TASK_RUN or SVC_TIMER_RUN on its way to the target      *)
(*   exec      the user's code is running on the target engine             *)
(*   cb        SVC_TASK_CB with svc_task_done on its way to the caller     *)
(*   done      SVC_TASK_DONE/SVC_TIMER_DONE on its way to the master, for  *)
(*             a task the master counts as running                         *)
(*   busy      the BUSY answer on its way to the caller                    *)
(*   busydone  the master is being told of an answered BUSY                *)
(* An api call that made ep calls leaves a second chain behind: pendings   *)
(* counts the unanswered ep calls, and late[t] is the SVC_TASK_CB ("cb")   *)
(* or SVC_TASK_DONE ("done"), both without svc_task_done, that follow the  *)
(* last answer.                                                            *)
(*                                                                         *)
(* Messages of one task between the same two engines do not overtake each  *)
(* other, messages of different tasks may arrive in any order: this allows *)
(* every order the schedulers can produce.                                 *)
(***************************************************************************)
EXTENDS SkQueue, FiniteSets

CONSTANTS
  Type,         \* SK_SRV_TASK_API_QUERY ("API") or SK_SRV_TASK_TIMER ("TIMER")
  Master,       \* the master engine
  Worker,       \* the worker engines
  Bio,          \* the background i/o engines, a sequence: Bio[1] is bio-1
  Src,          \* the engine a task is called from
  Bidx,         \* the bio index the caller asked for; 0: no bio, negative: any
  MaxPendings   \* bound on the ep calls outstanding for one task

Engine == {Master} \cup Worker \cup {Bio[i] : i \in 1..Len(Bio)}

ASSUME ServiceAssumption ==
  /\ IsFiniteSet(Task)
  /\ Type \in [Task -> {"API", "TIMER"}]
  /\ Bio \in Seq(Engine)
  /\ Src \in [Task -> Engine]
  /\ \A t \in Task : Type[t] = "API" => Src[t] \in Worker
  /\ Bidx \in [Task -> Int]
  /\ MaxPendings \in Nat

VARIABLES
  lanes,      \* service->pending_tasks: the buffers
  qstate,     \* service->pending_tasks->state
  running,    \* service->running_task_cnt
  phase,      \* the phase of every task's current call
  pendings,   \* taskdata->pendings
  late        \* the second SVC_TASK_CB/SVC_TASK_DONE of an api call

vars == <<lanes, qstate, running, phase, pendings, late>>

Phases == {"none", "req", "queued", "run", "exec", "cb", "done", "busy", "busydone"}

TypeOK ==
  /\ lanes \in [Lanes -> Seq(Task)]
  /\ qstate \in QueueStates
  /\ running \in Nat
  /\ phase \in [Task -> Phases]
  /\ pendings \in [Task -> Nat]
  /\ late \in [Task -> {"none", "cb", "done"}]

Init ==
  /\ lanes = EmptyLanes
  /\ qstate = "IDLE"
  /\ running = 0
  /\ phase = [t \in Task |-> "none"]
  /\ pendings = [t \in Task |-> 0]
  /\ late = [t \in Task |-> "none"]

------------------------------------------------------------------------------
(* Where a task runs, and which engine is occupied by user code.           *)

ValidateBidx(t) == Bidx[t] # 0 => (IF Bidx[t] > 0 THEN Bidx[t] ELSE 1) \in 1..Len(Bio)

FindTargetSched(t) ==
  IF Bidx[t] = 0 THEN Src[t] ELSE IF Bidx[t] > 0 THEN Bio[Bidx[t]] ELSE Bio[1]

(* An engine is one thread: it takes no event while user code runs on it.  *)
Free(e) == \A t \in Task : phase[t] = "exec" => FindTargetSched(t) # e

------------------------------------------------------------------------------
(* sk_service_schedule_tasks, the tail of every master handler, entered    *)
(* with buffers ln, queue state st, running count n and phases ph.  All    *)
(* tasks one call pulls come from one buffer: after a read the state is    *)
(* READ, which only lets further reads of that buffer through, and after a *)
(* write it is WRITE, which lets nothing through.                          *)
ScheduleTasks(ln, st, n, ph) ==
  \/ /\ PullLane(ln, st) = NoLane
     /\ lanes' = ln /\ qstate' = st /\ running' = n /\ phase' = ph
  \/ \E l \in Lanes :
       /\ l = PullLane(ln, st)
       /\ \E k \in 1..Len(ln[l]) :
            /\ PullsExactly(ln[l], st, k)
            /\ lanes' = [ln EXCEPT ![l] = SubSeq(@, k + 1, Len(@))]
            /\ qstate' = StateAfter(ln[l], st, k)
            /\ running' = n + k
            /\ phase' = [t \in Task |->
                           IF \E i \in 1..k : ln[l][i] = t THEN "run" ELSE ph[t]]

(* sk_service_push_task and what both callers do with its result: a full   *)
(* queue sends the BUSY answer at once and schedules nothing.              *)
PushTask(t) ==
  \/ /\ HasRoom(lanes, t)
     /\ ScheduleTasks(Push(lanes, t), qstate, running, [phase EXCEPT ![t] = "queued"])
  \/ /\ ~HasRoom(lanes, t)
     /\ phase' = [phase EXCEPT ![t] = "busy"]
     /\ UNCHANGED <<lanes, qstate, running>>

(* Mutants of SetCompleteAndSchedule: the queue state is never reset; the  *)
(* queue is not scheduled again.                                           *)
SetCompleteNoReset(t) ==
  ScheduleTasks(lanes, qstate, running - 1, [phase EXCEPT ![t] = "none"])

SetCompleteNoSchedule(t) ==
  /\ lanes' = lanes /\ running' = running - 1
  /\ qstate' = IF running - 1 = 0 THEN "IDLE" ELSE qstate
  /\ phase' = [phase EXCEPT ![t] = "none"]

(* sk_service_task_setcomplete followed by sk_service_schedule_tasks.      *)
SetCompleteAndSchedule(t) ==
  ScheduleTasks(lanes, IF running - 1 = 0 THEN "IDLE" ELSE qstate, running - 1,
                [phase EXCEPT ![t] = "none"])

------------------------------------------------------------------------------
(* Calling engine: sk_service_iocall in a module, or a service timer.      *)
Call(t) ==
  /\ phase[t] = "none" /\ pendings[t] = 0 /\ late[t] = "none"
  /\ Free(Src[t])
  /\ ValidateBidx(t)
  /\ phase' = [phase EXCEPT ![t] = "req"]
  /\ UNCHANGED <<lanes, qstate, running, pendings, late>>

(* Master: SVC_IOCALL.                                                     *)
RecvIocall(t) ==
  /\ phase[t] = "req" /\ Type[t] = "API"
  /\ Free(Master)
  /\ PushTask(t)
  /\ UNCHANGED <<pendings, late>>

(* Master: TIMER_EMIT.                                                     *)
RecvTimerEmit(t) ==
  /\ phase[t] = "req" /\ Type[t] = "TIMER"
  /\ Free(Master)
  /\ PushTask(t)
  /\ UNCHANGED <<pendings, late>>

(* Target: SVC_TASK_RUN, SVC_TIMER_RUN: the user's code starts.            *)
RunBegin(t) ==
  /\ phase[t] = "run"
  /\ Free(FindTargetSched(t))
  /\ phase' = [phase EXCEPT ![t] = "exec"]
  /\ UNCHANGED <<lanes, qstate, running, pendings, late>>

(* Target: the api returns, with n ep calls still to be answered.          *)
TaskRunEnd(t) ==
  /\ phase[t] = "exec" /\ Type[t] = "API"
  /\ \E n \in 0..MaxPendings : pendings' = [pendings EXCEPT ![t] = n]
  /\ phase' = [phase EXCEPT ![t] = "cb"]
  /\ UNCHANGED <<lanes, qstate, running, late>>

(* Target: the timer job returns, SVC_TIMER_DONE goes straight to master.  *)
TimerRunEnd(t) ==
  /\ phase[t] = "exec" /\ Type[t] = "TIMER"
  /\ phase' = [phase EXCEPT ![t] = "done"]
  /\ UNCHANGED <<lanes, qstate, running, pendings, late>>

(* Caller: SVC_TASK_CB sent by the target, svc_task_done is true.          *)
TaskCb(t) ==
  /\ phase[t] = "cb"
  /\ Free(Src[t])
  /\ phase' = [phase EXCEPT ![t] = "done"]
  /\ UNCHANGED <<lanes, qstate, running, pendings, late>>

(* Caller: SVC_TASK_CB with status BUSY, or SVC_TIMER_RUN with status      *)
(* ERROR_BUSY: the callback is told and the master is notified.            *)
BusyCb(t) ==
  /\ phase[t] = "busy"
  /\ Free(Src[t])
  /\ phase' = [phase EXCEPT ![t] = "busydone"]
  /\ UNCHANGED <<lanes, qstate, running, pendings, late>>

(* Target: an ep call of task t is answered; its callback may make n new   *)
(* ep calls before pendings is decremented.  sk_service_api_complete sends *)
(* the second SVC_TASK_CB when nothing is pending any more.                *)
EpCb(t) ==
  /\ pendings[t] > 0
  /\ Free(FindTargetSched(t))
  /\ \E n \in 0..MaxPendings :
       /\ pendings[t] + n - 1 <= MaxPendings
       /\ pendings' = [pendings EXCEPT ![t] = pendings[t] + n - 1]
       /\ late' = [late EXCEPT ![t] = IF pendings[t] + n - 1 = 0 THEN "cb" ELSE @]
  /\ UNCHANGED <<lanes, qstate, running, phase>>

(* Caller: the second SVC_TASK_CB, svc_task_done is false.                 *)
LateCb(t) ==
  /\ late[t] = "cb" /\ phase[t] # "cb"
  /\ Free(Src[t])
  /\ late' = [late EXCEPT ![t] = "done"]
  /\ UNCHANGED <<lanes, qstate, running, phase, pendings>>

(* Master: SVC_TASK_DONE with svc_task_done, SVC_TIMER_DONE with JOB_OK.   *)
TaskDone(t) ==
  /\ phase[t] = "done"
  /\ Free(Master)
  /\ SetCompleteAndSchedule(t)
  /\ UNCHANGED <<pendings, late>>

(* Master: SVC_TASK_DONE without svc_task_done, SVC_TIMER_DONE with BUSY:  *)
(* nothing is counted down, but the queue is scheduled again.              *)
BusyDone(t) ==
  /\ phase[t] = "busydone"
  /\ Free(Master)
  /\ ScheduleTasks(lanes, qstate, running, [phase EXCEPT ![t] = "none"])
  /\ UNCHANGED <<pendings, late>>

LateDone(t) ==
  /\ late[t] = "done" /\ phase[t] # "done"
  /\ Free(Master)
  /\ late' = [late EXCEPT ![t] = "none"]
  /\ ScheduleTasks(lanes, qstate, running, phase)
  /\ UNCHANGED pendings

Next ==
  \E t \in Task :
    \/ Call(t) \/ RecvIocall(t) \/ RecvTimerEmit(t)
    \/ RunBegin(t) \/ TaskRunEnd(t) \/ TimerRunEnd(t)
    \/ TaskCb(t) \/ BusyCb(t) \/ EpCb(t) \/ LateCb(t)
    \/ TaskDone(t) \/ BusyDone(t) \/ LateDone(t)

Spec == Init /\ [][Next]_vars

(* Every engine keeps taking the events sent to it and user code returns;  *)
(* nothing obliges a module to call, or an endpoint to answer.  Weak       *)
(* fairness is enough as long as no engine is shared by tasks that keep    *)
(* coming; that an engine serves all its events in turn is the business of *)
(* its scheduler.                                                          *)
Fairness ==
  \A t \in Task :
    /\ WF_vars(RecvIocall(t) \/ RecvTimerEmit(t))
    /\ WF_vars(RunBegin(t))
    /\ WF_vars(TaskRunEnd(t) \/ TimerRunEnd(t))
    /\ WF_vars(TaskCb(t))
    /\ WF_vars(TaskDone(t))

FairSpec == Spec /\ Fairness

------------------------------------------------------------------------------
(* Properties.                                                             *)

(* The tasks the master counts in running_task_cnt.                        *)
ActiveIn(ph) == {t \in Task : ph[t] \in {"run", "exec", "cb", "done"}}
Active == ActiveIn(phase)

CountOK(n, ph) == n = Cardinality(ActiveIn(ph))

StateOK(st, ph) ==
  /\ st = "IDLE" <=> ActiveIn(ph) = {}
  /\ st = "READ" => \A t \in ActiveIn(ph) : Elem[t] = "READ"
  /\ st = "WRITE" => \E t \in Task : ActiveIn(ph) = {t} /\ Elem[t] = "WRITE"

QueueOK(ln, ph) ==
  /\ \A l \in Lanes : \A i, j \in 1..Len(ln[l]) : ln[l][i] = ln[l][j] => i = j
  /\ \A l \in Lanes : \A i \in 1..Len(ln[l]) :
       ph[ln[l][i]] = "queued" /\ LaneOf(ln[l][i]) = l
  /\ \A t \in Task : ph[t] = "queued" =>
       \E i \in 1..Len(ln[LaneOf(t)]) : ln[LaneOf(t)][i] = t

(* While the user's code of a write task runs, on whatever engine, no      *)
(* other task of the service runs on any engine: a write has the service   *)
(* data for itself.                                                        *)
WriteExclusion ==
  \A t, u \in Task :
    phase[t] = "exec" /\ phase[u] = "exec" /\ t # u => Elem[t] = "READ"

(* sk_service_data and sk_service_data_set, called by a running write      *)
(* task, find the queue in state WRITE and do not abort; a running read    *)
(* task finds it in state READ, so that it cannot get the data mutable.    *)
DataAccessState == \A t \in Task : phase[t] = "exec" => qstate = Elem[t]

(* running_task_cnt is the number of tasks sent out and not reported done, *)
(* whatever BUSY answers and late ep completions reach the master.         *)
RunningCount == CountOK(running, phase)

(* The queue state is IDLE exactly when nothing is out; READ stands for    *)
(* reads only and WRITE for one write.                                     *)
StateMatchesActive == StateOK(qstate, phase)

(* A task is in a buffer exactly once, in the buffer of its type, while it *)
(* is waiting, and in no buffer otherwise: none is lost or duplicated.     *)
QueueMatchesPhase == QueueOK(lanes, phase)

(* Between two master handlers no task is left in the queue that could be  *)
(* started: a waiting task always has a running one it waits for, whose    *)
(* completion schedules again.                                             *)
NothingStranded ==
  /\ PullLane(lanes, qstate) = NoLane
  /\ (\E t \in Task : phase[t] = "queued") => Active # {}

(* The inductive invariant behind the safety properties.                   *)
IInv ==
  /\ TypeOK
  /\ QueueMatchesPhase
  /\ RunningCount
  /\ StateMatchesActive
  /\ PullLane(lanes, qstate) = NoLane

(* No request starves, whatever other requests keep coming: in mode RW_PW  *)
(* every request comes to run or is refused; in mode RW_PR every read does *)
(* (a write may wait for ever behind a stream of reads, by design).        *)
NoStarvation ==
  \A t \in Task :
    (phase[t] = "req" /\ (Mode = "RW_PW" \/ Elem[t] = "READ"))
      ~> (phase[t] \in {"exec", "busy"})

(* The callers' view of a task in phase p.                                 *)
ViewOf(p) ==
  IF p = "none" THEN "idle"
  ELSE IF p \in {"req", "queued", "run"} THEN "waiting"
  ELSE IF p = "exec" THEN "running"
  ELSE IF p \in {"cb", "done"} THEN "served"
  ELSE "refused"

Client == [t \in Task |-> ViewOf(phase[t])]

Abs == INSTANCE SkServiceAbs WITH client <- Client

(* The service implements the readers-writer lock with admission control   *)
(* of SkServiceAbs.                                                        *)
RefinesAbs == Abs!Spec
==============================================================================
