------------------------------- MODULE SkJob -------------------------------
(***************************************************************************)
(* The timer jobs of a service: src/user-c/src/service.c (the api a user   *)
(* calls), src/components/sk_service.c (the job's timer and entity),       *)
(* src/common/sk_timer_service.c, the TIMER_* and SVC_TIMER_* handlers and *)
(* the destruction of an engine in src/components/sk_engine.c.             *)
(*                                                                         *)
(* A job owns three things with three owners: the user's data, which the   *)
(* entity releases; the entity, which the manager of the creating engine   *)
(* releases; and the timer with its own data, which the timer service      *)
(* releases.  A one-shot job visits the creating engine, the master, the   *)
(* engine it runs on, the master and the creating engine again; an         *)
(* interval job goes round and round.  The server may be stopped between   *)
(* any two steps, which drops the events that are under way.               *)
(*                                                                         *)
(* The queue of the service is that of SkService: here an accepted job is  *)
(* an SVC_TIMER_RUN that is under way for any time.                        *)
(***************************************************************************)
EXTENDS Naturals, FiniteSets

CONSTANTS Jobs,          \* the jobs the user code may submit
          Crons,         \* the internal timers of the master engine
          Apis,          \* service api calls that have reached an engine
          Workers, Bios, Master,
          BadBio,        \* an index that names no bio
          MaxFires,      \* bound: how often an interval timer fires
          Repeating,     \* bound: the jobs that may be interval jobs
          None

Engines == Workers \cup Bios \cup {Master}

ASSUME EnginesAssumption == /\ Master \notin Workers \cup Bios
                            /\ Workers \cap Bios = {}
                            /\ None \notin Engines \cup {BadBio} \cup Jobs \cup Apis
                            /\ BadBio \notin Engines
ASSUME SetsAssumption == /\ Jobs \cap Crons = {}
                         /\ IsFiniteSet(Jobs) /\ IsFiniteSet(Engines)
ASSUME BoundsAssumption == MaxFires \in Nat \ {0} /\ Repeating \subseteq Jobs

VARIABLES job,        \* what was submitted: its kind, engine, target, api
          timer,      \* "none", "live", "gone" (and its data with it)
          fires,      \* how often the timer has fired
          entity,     \* "none", "active", "dead", "freed"
          released,   \* how often the user's data was released
          msgs,       \* events under way
          ctx,        \* the user code an engine is running
          api,        \* "idle", "run", "wait", "done"
          pendings,   \* sk_txn_taskdata_t.pendings
          completed,  \* how often the api was reported as done
          engine,     \* "run", "left", "notimers", "gone"
          stopping,   \* sk_core_stop was called
          bad         \* what a handler touched after its end

vars == <<job, timer, fires, entity, released, msgs, ctx, api, pendings,
          completed, engine, stopping, bad>>

NoJob == [kind |-> "none", interval |-> FALSE, home |-> None, target |-> None, api |-> None]
JobSet == [kind : {"none", "refused", "pending", "np"}, interval : BOOLEAN,
           home : Engines \cup {None}, target : Engines \cup {None},
           api : Apis \cup {None}]
Ptos == {"TIMER_TRIGGERED", "TIMER_EMIT", "SVC_TIMER_RUN", "SVC_TIMER_DONE", "ENTITY_DESTROY"}
MsgSet == [pto : Ptos, job : Jobs, at : Engines, nth : 0..MaxFires, ok : BOOLEAN]
Msg(p, j, at, n, ok) == [pto |-> p, job |-> j, at |-> at, nth |-> n, ok |-> ok]

Idle == [in |-> "none", job |-> None, api |-> None, nth |-> 0, ok |-> FALSE]
CtxSet == [in : {"none", "init", "api", "job"}, job : Jobs \cup {None},
           api : Apis \cup {None}, nth : 0..MaxFires, ok : BOOLEAN]

OneShot(j) == ~job[j].interval
(* The engine whose timer service holds timer j. *)
Home(j) == IF j \in Crons THEN Master ELSE job[j].home

TypeOK == /\ job \in [Jobs -> JobSet]
          /\ timer \in [Jobs \cup Crons -> {"none", "live", "gone"}]
          /\ fires \in [Jobs -> 0..MaxFires]
          /\ entity \in [Jobs \cup Crons -> {"none", "active", "dead", "freed"}]
          /\ released \in [Jobs -> 0..2]
          /\ msgs \subseteq MsgSet
          /\ ctx \in [Engines -> CtxSet]
          /\ api \in [Apis -> {"idle", "run", "wait", "done"}]
          /\ pendings \in [Apis -> 0..Cardinality(Jobs)]
          /\ completed \in [Apis -> 0..2]
          /\ engine \in [Engines -> {"run", "left", "notimers", "gone"}]
          /\ stopping \in BOOLEAN
          /\ bad \subseteq {"timer", "entity", "owner", "ud", "task"}

(***************************************************************************)
(* Services are initialised on the master before any engine runs, and the  *)
(* master creates its timers on its way into its loop: entities that no    *)
(* manager owns.                                                           *)
(***************************************************************************)
Init == /\ job = [j \in Jobs |-> NoJob]
        /\ timer = [j \in Jobs \cup Crons |-> IF j \in Crons THEN "live" ELSE "none"]
        /\ fires = [j \in Jobs |-> 0]
        /\ entity = [j \in Jobs \cup Crons |-> IF j \in Crons THEN "active" ELSE "none"]
        /\ released = [j \in Jobs |-> 0]
        /\ msgs = {}
        /\ ctx = [e \in Engines |-> IF e = Master THEN [Idle EXCEPT !.in = "init"] ELSE Idle]
        /\ api = [a \in Apis |-> "idle"]
        /\ pendings = [a \in Apis |-> 0]
        /\ completed = [a \in Apis |-> 0]
        /\ engine = [e \in Engines |-> "run"]
        /\ stopping = FALSE
        /\ bad = {}

-----------------------------------------------------------------------------
(***************************************************************************)
(* User code.                                                              *)
(***************************************************************************)
Initialised == ctx[Master].in # "init"
Free(e) == engine[e] = "run" /\ ctx[e].in = "none" /\ Initialised

(* Releasing user data counts, so that a second release shows. *)
Plus(n) == IF n < 2 THEN n + 1 ELSE n
Release(S) == [j \in Jobs |-> IF j \in S THEN Plus(released[j]) ELSE released[j]]

(* _validate_bidx and _find_target_sched: 0 stays at home, the others need a bio. *)
ValidTarget(b, e) == b = e \/ b \in Bios

(***************************************************************************)
(* skull_service_job_create and skull_service_job_create_np, called by the *)
(* user code on engine e: no function, a pending job outside of an api or  *)
(* an index that names no bio is an error, after which the data is         *)
(* released at once.                                                       *)
(***************************************************************************)
Refuse(e, j) == /\ job' = [job EXCEPT ![j] = [NoJob EXCEPT !.kind = "refused"]]
                /\ released' = Release({j})
                /\ UNCHANGED <<timer, entity, pendings>>

Create(e, j, kind, itv, b) ==
    LET a == ctx[e].api IN
    /\ job' = [job EXCEPT ![j] = [kind |-> kind, interval |-> itv, home |-> e,
                                  target |-> b,
                                  api |-> IF kind = "pending" THEN a ELSE None]]
    /\ timer' = [timer EXCEPT ![j] = "live"]
    /\ entity' = [entity EXCEPT ![j] = "active"]
    /\ pendings' = IF kind = "pending" THEN [pendings EXCEPT ![a] = @ + 1] ELSE pendings
    /\ UNCHANGED released

SubmitPending(e, j, fn) ==
    /\ ctx[e].in # "none" /\ job[j] = NoJob
    /\ IF ctx[e].api = None \/ ~fn THEN Refuse(e, j)
       ELSE Create(e, j, "pending", FALSE, e)
    /\ UNCHANGED <<fires, msgs, ctx, api, completed, engine, stopping, bad>>

SubmitNp(e, j, itv, b, fn) ==
    /\ ctx[e].in # "none" /\ job[j] = NoJob
    /\ IF ~fn \/ ~ValidTarget(b, e) THEN Refuse(e, j)
       ELSE Create(e, j, "np", itv, b)
    /\ UNCHANGED <<fires, msgs, ctx, api, completed, engine, stopping, bad>>

(* The init callbacks of the services are done. *)
InitReturn == /\ ~Initialised
              /\ ctx' = [ctx EXCEPT ![Master] = Idle]
              /\ UNCHANGED <<job, timer, fires, entity, released, msgs, api, pendings,
                             completed, engine, stopping, bad>>

(* SVC_TASK_RUN of an api call, on a worker or a bio: the user's api runs and returns. *)
ApiRun(e, a) == /\ Free(e) /\ e # Master /\ api[a] = "idle"
                /\ ctx' = [ctx EXCEPT ![e] = [Idle EXCEPT !.in = "api", !.api = a]]
                /\ api' = [api EXCEPT ![a] = "run"]
                /\ UNCHANGED <<job, timer, fires, entity, released, msgs, pendings,
                               completed, engine, stopping, bad>>

ApiReturn(e) ==
    LET a == ctx[e].api IN
    /\ ctx[e].in = "api"
    /\ ctx' = [ctx EXCEPT ![e] = Idle]
    /\ api' = [api EXCEPT ![a] = IF pendings[a] = 0 THEN "done" ELSE "wait"]
    /\ completed' = IF pendings[a] = 0 THEN [completed EXCEPT ![a] = Plus(@)] ELSE completed
    /\ UNCHANGED <<job, timer, fires, entity, released, msgs, pendings, engine,
                   stopping, bad>>

-----------------------------------------------------------------------------
(***************************************************************************)
(* The timer service of an engine.                                         *)
(***************************************************************************)
(* fev_tmsvc_process calls _timer_triggered for a timer that has expired. *)
Fire(j) ==
    LET e == job[j].home IN
    /\ timer[j] = "live" /\ Free(e)
    /\ fires[j] < (IF job[j].interval THEN MaxFires ELSE 1)
    /\ fires' = [fires EXCEPT ![j] = @ + 1]
    /\ msgs' = msgs \cup {Msg("TIMER_TRIGGERED", j, e, fires[j], TRUE)}
    /\ UNCHANGED <<job, timer, entity, released, ctx, api, pendings, completed,
                   engine, stopping, bad>>

(* _jobdata_destroyer asserts that the job's entity has an owner. *)
JobdataFault(j) == IF j \in Jobs /\ entity[j] = "freed" THEN {"owner"} ELSE {}

(***************************************************************************)
(* TIMER_TRIGGERED: the callback of a job sends TIMER_EMIT to the master,  *)
(* then a one-shot timer is destroyed.  (The callbacks of the internal     *)
(* timers only update statistics.)                                         *)
(***************************************************************************)
TimerTriggered(m) ==
    LET j == m.job IN
    /\ m \in msgs /\ m.pto = "TIMER_TRIGGERED" /\ Free(m.at)
    /\ msgs' = (msgs \ {m}) \cup {Msg("TIMER_EMIT", j, Master, m.nth, TRUE)}
    /\ timer' = IF OneShot(j) THEN [timer EXCEPT ![j] = "gone"] ELSE timer
    /\ bad' = bad \cup (IF timer[j] # "live" THEN {"timer"} ELSE {})
                  \cup (IF OneShot(j) THEN JobdataFault(j) ELSE {})
    /\ UNCHANGED <<job, fires, entity, released, ctx, api, pendings, completed,
                   engine, stopping>>

(* TIMER_EMIT: the service's queue takes the job, or it goes home as BUSY. *)
TimerEmit(m, ok) ==
    /\ m \in msgs /\ m.pto = "TIMER_EMIT" /\ Free(Master)
    /\ LET at == IF ok THEN job[m.job].target ELSE job[m.job].home
       IN msgs' = (msgs \ {m}) \cup {Msg("SVC_TIMER_RUN", m.job, at, m.nth, ok)}
    /\ UNCHANGED <<job, timer, fires, entity, released, ctx, api, pendings, completed,
                   engine, stopping, bad>>

(* SVC_TIMER_RUN calls _job_cb, which calls the user's job. *)
TimerRun(m) ==
    LET j == m.job
        a == job[j].api
    IN /\ m \in msgs /\ m.pto = "SVC_TIMER_RUN" /\ Free(m.at)
       /\ msgs' = msgs \ {m}
       /\ ctx' = [ctx EXCEPT ![m.at] = [in |-> "job", job |-> j, api |-> a,
                                        nth |-> m.nth, ok |-> m.ok]]
       /\ bad' = bad \cup (IF released[j] > 0 THEN {"ud"} ELSE {})
                     \cup (IF a # None /\ api[a] = "done" THEN {"task"} ELSE {})
       /\ UNCHANGED <<job, timer, fires, entity, released, api, pendings, completed,
                      engine, stopping>>

(***************************************************************************)
(* The user's job returns: a pending one is taken off the count of its     *)
(* call, which sk_service_api_complete reports as done at zero; then       *)
(* SVC_TIMER_DONE goes to the master.                                      *)
(***************************************************************************)
CompleteAtOne(n) == n <= 1
Complete(n) == n = 0
JobReturn(e) ==
    LET c == ctx[e]
        a == c.api
        n == pendings[a] - 1
    IN /\ c.in = "job"
       /\ ctx' = [ctx EXCEPT ![e] = Idle]
       /\ msgs' = msgs \cup {Msg("SVC_TIMER_DONE", c.job, Master, c.nth, c.ok)}
       /\ IF a = None THEN UNCHANGED <<pendings, api, completed>>
          ELSE /\ pendings' = [pendings EXCEPT ![a] = n]
               /\ api' = IF Complete(n) THEN [api EXCEPT ![a] = "done"] ELSE api
               /\ completed' = IF Complete(n) THEN [completed EXCEPT ![a] = Plus(@)]
                               ELSE completed
       /\ UNCHANGED <<job, timer, fires, entity, released, engine, stopping, bad>>

(* sk_entity_mgr_del: a dead entity is freed at the end of the round. *)
MgrDelUnmarked(j) == entity
MgrDel(j) == [entity EXCEPT ![j] = IF @ = "active" THEN "dead" ELSE @]

DestroysEntityAlways(j) == TRUE
DestroysEntity(j) == OneShot(j)
(***************************************************************************)
(* SVC_TIMER_DONE: sk_entity_safe_destroy for a one-shot job, on the       *)
(* manager of the engine that created it.                                  *)
(***************************************************************************)
TimerDone(m) ==
    LET j == m.job IN
    /\ m \in msgs /\ m.pto = "SVC_TIMER_DONE" /\ Free(Master)
    /\ entity' = IF DestroysEntity(j) /\ job[j].home = Master THEN MgrDel(j) ELSE entity
    /\ msgs' = (msgs \ {m}) \cup
                 IF DestroysEntity(j) /\ job[j].home # Master /\ entity[j] = "active"
                 THEN {Msg("ENTITY_DESTROY", j, job[j].home, m.nth, TRUE)} ELSE {}
    /\ bad' = bad \cup IF DestroysEntity(j) /\ entity[j] = "freed" THEN {"entity"} ELSE {}
    /\ UNCHANGED <<job, timer, fires, released, ctx, api, pendings, completed,
                   engine, stopping>>

EntityDestroy(m) ==
    /\ m \in msgs /\ m.pto = "ENTITY_DESTROY" /\ Free(m.at)
    /\ msgs' = msgs \ {m}
    /\ entity' = MgrDel(m.job)
    /\ bad' = bad \cup IF entity[m.job] = "freed" THEN {"entity"} ELSE {}
    /\ UNCHANGED <<job, timer, fires, released, ctx, api, pendings, completed,
                   engine, stopping>>

(***************************************************************************)
(* The end of a round: the dead entities of the engine are freed, and with *)
(* each the data of the timers added to it.                                *)
(***************************************************************************)
FreeEntities(S) == /\ entity' = [j \in Jobs \cup Crons |-> IF j \in S THEN "freed" ELSE entity[j]]
                   /\ released' = Release(S)
Mine(e, st) == {j \in Jobs : job[j].home = e /\ entity[j] \in st}
CleanDead(e) ==
    /\ Free(e) /\ Mine(e, {"dead"}) # {}
    /\ FreeEntities(Mine(e, {"dead"}))
    /\ UNCHANGED <<job, timer, fires, msgs, ctx, api, pendings, completed, engine,
                   stopping, bad>>

-----------------------------------------------------------------------------
(***************************************************************************)
(* The end of the server: engines leave their loops, all are joined, then  *)
(* sk_engine_destroy takes the workers, the bios and the master apart.     *)
(***************************************************************************)
Stop == /\ Initialised /\ ~stopping
        /\ stopping' = TRUE
        /\ UNCHANGED <<job, timer, fires, entity, released, msgs, ctx, api, pendings,
                       completed, engine, bad>>

LeaveLoop(e) == /\ stopping /\ Free(e)
                /\ engine' = [engine EXCEPT ![e] = "left"]
                /\ UNCHANGED <<job, timer, fires, entity, released, msgs, ctx, api,
                               pendings, completed, stopping, bad>>

AllLeft == \A e \in Engines : engine[e] # "run"
Before(e) == IF e = Master THEN Workers \cup Bios ELSE IF e \in Bios THEN Workers ELSE {}
Turn(e) == AllLeft /\ \A f \in Before(e) : engine[f] = "gone"

(* sk_sched_destroy drops the events; sk_timersvc_destroy frees every timer and its data. *)
DestroyTimers(e) ==
    LET S == {j \in Jobs \cup Crons : timer[j] = "live" /\ Home(j) = e} IN
    /\ Turn(e) /\ engine[e] = "left"
    /\ msgs' = {m \in msgs : m.at # e}
    /\ timer' = [j \in Jobs \cup Crons |-> IF j \in S THEN "gone" ELSE timer[j]]
    /\ bad' = bad \cup UNION {JobdataFault(j) : j \in S}
    /\ entity' = [j \in Jobs \cup Crons |-> IF j \in S \cap Crons THEN "freed" ELSE entity[j]]
    /\ engine' = [engine EXCEPT ![e] = "notimers"]
    /\ UNCHANGED <<job, fires, released, ctx, api, pendings, completed, stopping>>

(* sk_entity_mgr_destroy: every entity is marked dead and freed by force. *)
DestroyEntities(e) ==
    /\ Turn(e) /\ engine[e] = "notimers"
    /\ FreeEntities(Mine(e, {"active", "dead"}))
    /\ engine' = [engine EXCEPT ![e] = "gone"]
    /\ UNCHANGED <<job, timer, fires, msgs, ctx, api, pendings, completed, stopping, bad>>

Ended == /\ \A e \in Engines : engine[e] = "gone"
         /\ UNCHANGED vars

-----------------------------------------------------------------------------
(* What the thread of engine e does with the events that have reached it. *)
Handle(e) == \E m \in msgs : /\ m.at = e
                             /\ \/ TimerTriggered(m)
                                \/ \E ok \in BOOLEAN : TimerEmit(m, ok)
                                \/ TimerRun(m)
                                \/ TimerDone(m)
                                \/ EntityDestroy(m)

Submit == \E e \in Engines, j \in Jobs, fn \in BOOLEAN :
            \/ SubmitPending(e, j, fn)
            \/ \E itv \in {FALSE, (j \in Repeating)}, b \in {e} \cup Bios \cup {BadBio} : SubmitNp(e, j, itv, b, fn)

UserReturns(e) == (e = Master /\ InitReturn) \/ ApiReturn(e) \/ JobReturn(e)

Thread(e) == UserReturns(e) \/ Handle(e) \/ CleanDead(e) \/ LeaveLoop(e)

Destroy == \E e \in Engines : DestroyTimers(e) \/ DestroyEntities(e)

Next == \/ Submit \/ Destroy \/ Stop \/ Ended
        \/ \E e \in Engines : Thread(e) \/ \E a \in Apis : ApiRun(e, a)
        \/ \E j \in Jobs : Fire(j)

(***************************************************************************)
(* While some thread can go on, one does: user code returns, a round       *)
(* handles the events that are there and ends, a loop that was told to     *)
(* stop is left, the main thread takes the engines apart, and an expired   *)
(* timer is found by the next round, since it bounds the poll.  (The bound *)
(* on jobs and fires makes this enough for each of them.)                  *)
(***************************************************************************)
Fairness == WF_vars(\/ \E e \in Engines : Thread(e)
                    \/ Destroy
                    \/ \E j \in Jobs : fires[j] = 0 /\ Fire(j))

Spec == Init /\ [][Next]_vars /\ Fairness

-----------------------------------------------------------------------------
(***************************************************************************)
(* Properties                                                              *)
(***************************************************************************)
(* The callback of job j has still to run, or is running. *)
Outstanding(j) == \/ timer[j] = "live"
                  \/ \E m \in msgs : /\ m.job = j
                                     /\ m.pto \in {"TIMER_TRIGGERED", "TIMER_EMIT", "SVC_TIMER_RUN"}
                  \/ \E e \in Engines : ctx[e].job = j

(* No handler, timer or callback uses a timer, an entity, user data or an  *)
(* api call that is gone, and _jobdata_destroyer finds its entity owned.   *)
NothingStale == bad = {}

(* The user's data is released at most once, never while its job may still *)
(* run, and of no job is it, an entity or a timer left when the server has *)
(* ended, wherever the stop found the job (user-c/src/service.c:66).       *)
ReleasedOnce ==
    /\ \A j \in Jobs : /\ released[j] <= 1
                       /\ released[j] = 1 => job[j].kind = "refused" \/ entity[j] = "freed"
                       /\ released[j] = 1 /\ ~stopping => ~Outstanding(j)
    /\ (\A e \in Engines : engine[e] = "gone") =>
         /\ \A j \in Jobs : job[j] # NoJob => released[j] = 1
         /\ \A j \in Jobs \cup Crons : timer[j] # "live" /\ entity[j] \in {"none", "freed"}

(* While the server runs, the pendings of a call are its outstanding jobs. *)
PendingsMatch ==
    (\A e \in Engines : engine[e] \in {"run", "left"}) =>
        \A a \in Apis : pendings[a] = Cardinality({j \in Jobs : job[j].api = a /\ Outstanding(j)})

(* The invariant of the jobs: types, nothing stale, data released once, and *)
(* the pendings of a call counted (the conjuncts above).                    *)
IInv == TypeOK /\ NothingStale /\ ReleasedOnce /\ PendingsMatch

(* A call is reported as done once, and not before the last of its pending *)
(* jobs has run, those created by its other jobs included                  *)
(* (sk_service_api_complete, sk_service.c:552).                            *)
ApiWaitsForJobs ==
    \A a \in Apis : /\ completed[a] = IF api[a] = "done" THEN 1 ELSE 0
                    /\ api[a] = "done" => pendings[a] = 0
                    /\ api[a] = "done" => \A e \in Engines : ctx[e].api # a

(* Every one-shot job gives its data back, and a call with pending jobs is *)
(* answered unless the server stops (sk_pto_service_timer_done.c:17).  As  *)
(* the jobs and calls are finitely many and stay ended, all of them are in *)
(* the end, whichever are made.                                            *)
JobEnds ==
    []<>(/\ \A j \in Jobs : job[j].kind \in {"pending", "np"} /\ ~job[j].interval => released[j] = 1
         /\ \A a \in Apis : api[a] = "wait" => stopping)
=============================================================================
