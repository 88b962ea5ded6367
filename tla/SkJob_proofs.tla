---------------------------- MODULE SkJob_proofs ----------------------------
(***************************************************************************)
(* Proofs about the timer jobs (SkJob), for any number of jobs, api calls  *)
(* and engines, any targets, and a stop at any moment.                     *)
(*                                                                         *)
(* What carries the argument: a one-shot job is at one place at a time (at *)
(* its timer, in one event, or on one engine), its entity lives until it   *)
(* has come home, and everything that belongs to an api call happens on    *)
(* the engine of that call.                                                *)
(***************************************************************************)
EXTENDS SkJob, TLAPS, FiniteSetTheorems

Created(j) == job[j].kind \in {"pending", "np"}

(* Some engine is still in its loop, and nothing is destroyed yet.         *)
Running == \E e \in Engines : engine[e] = "run"

(* A job, its timer, its entity and its data.                              *)
JobOK(j) ==
  /\ job[j].kind = "none" => job[j] = NoJob
  /\ ~Created(j) => /\ timer[j] = "none" /\ entity[j] = "none"
                    /\ job[j].api = None /\ job[j].home = None
  /\ Created(j) => /\ job[j].home \in Engines /\ job[j].target \in Engines
                   /\ timer[j] # "none" /\ entity[j] # "none"
  /\ job[j].kind = "pending" => /\ OneShot(j) /\ job[j].api \in Apis
                                /\ job[j].target = job[j].home
  /\ job[j].kind = "np" => job[j].api = None
  /\ timer[j] = "live" => entity[j] = "active" /\ engine[job[j].home] \in {"run", "left"}
  /\ entity[j] \in {"active", "dead"} => engine[job[j].home] # "gone"
  /\ released[j] = IF job[j].kind = "refused" \/ entity[j] = "freed" THEN 1 ELSE 0

(* An event of a job: it belongs to a job that exists, and a one-shot job  *)
(* has no timer once its event has left for the master.                    *)
MsgOK(m) ==
  /\ Created(m.job) /\ fires[m.job] # 0
  /\ m.pto = "TIMER_TRIGGERED" => m.at = job[m.job].home /\ timer[m.job] = "live"
  /\ m.pto = "SVC_TIMER_RUN" => m.at \in {job[m.job].home, job[m.job].target}
  /\ m.pto = "ENTITY_DESTROY" => OneShot(m.job)
  /\ m.pto # "TIMER_TRIGGERED" /\ OneShot(m.job) => timer[m.job] = "gone"
  /\ Running => entity[m.job] = "active"

(* The user code on an engine.                                             *)
CtxOK(e) ==
  /\ ctx[e].in = "none" => ctx[e].api = None
  /\ ctx[e].in # "none" => engine[e] = "run"
  /\ ctx[e].in # "job" => ctx[e].job = None
  /\ ctx[e].in = "init" => ctx[e].api = None
  /\ ctx[e].in = "api" => ctx[e].api \in Apis /\ api[ctx[e].api] = "run"
  /\ ctx[e].in = "job" =>
       /\ ctx[e].job \in Jobs /\ Created(ctx[e].job) /\ fires[ctx[e].job] # 0
       /\ ctx[e].api = job[ctx[e].job].api
       /\ e \in {job[ctx[e].job].home, job[ctx[e].job].target}
       /\ OneShot(ctx[e].job) => timer[ctx[e].job] = "gone"
       /\ entity[ctx[e].job] = "active"

(* A one-shot job has one event under way or runs on one engine.           *)
Single ==
  /\ \A m, n \in msgs : m.job = n.job /\ OneShot(m.job) => m = n
  /\ \A m \in msgs, e \in Engines : ctx[e].job = m.job => ~OneShot(m.job)
  /\ \A e, f \in Engines : ctx[e].job \in Jobs /\ ctx[e].job = ctx[f].job /\ OneShot(ctx[e].job)
                             => e = f

(* The internal timers go with the timer service of the master.            *)
CronOK(c) ==
  \/ timer[c] = "live" /\ entity[c] = "active" /\ engine[Master] \in {"run", "left"}
  \/ timer[c] = "gone" /\ entity[c] = "freed"

EngineOK(e) ==
  /\ engine[e] \in {"notimers", "gone"} => ~Running
  /\ ~stopping => engine[e] = "run"

(* A call: it is idle until it is run, and done when nothing of it is left. *)
ApiOK(a) ==
  /\ completed[a] = IF api[a] = "done" THEN 1 ELSE 0
  /\ api[a] = "done" => pendings[a] = 0 /\ \A e \in Engines : ctx[e].api # a
  /\ api[a] = "idle" => \A j \in Jobs : job[j].api # a
  /\ api[a] = "run" => \E e \in Engines : ctx[e].in = "api" /\ ctx[e].api = a

(* All that belongs to one call is on one engine.                          *)
SameEngine ==
  /\ \A j, k \in Jobs : job[j].api \in Apis /\ job[j].api = job[k].api => job[j].home = job[k].home
  /\ \A e \in Engines, j \in Jobs :
       ctx[e].api \in Apis /\ ctx[e].api = job[j].api => job[j].home = e
  /\ \A e, f \in Engines : ctx[e].api \in Apis /\ ctx[e].api = ctx[f].api => e = f

JobInv ==
  /\ TypeOK /\ bad = {} /\ Single /\ SameEngine /\ PendingsMatch
  /\ \A j \in Jobs : JobOK(j)
  /\ \A m \in msgs : MsgOK(m)
  /\ \A e \in Engines : CtxOK(e) /\ EngineOK(e)
  /\ \A c \in Crons : CronOK(c)
  /\ \A a \in Apis : ApiOK(a)

------------------------------------------------------------------------------
(* The records.                                                            *)
LEMMA Records ==
  /\ Idle \in CtxSet /\ Idle.in = "none" /\ Idle.job = None /\ Idle.api = None
  /\ NoJob \in JobSet /\ NoJob.kind = "none" /\ NoJob.api = None /\ NoJob.home = None
  /\ NoJob.interval = FALSE
BY BoundsAssumption DEF Idle, CtxSet, NoJob, JobSet

LEMMA Types ==
  ASSUME TypeOK
  PROVE  /\ \A j \in Jobs : job[j] \in JobSet /\ fires[j] \in 0..MaxFires
         /\ \A m \in msgs : /\ m \in MsgSet /\ m.job \in Jobs /\ m.at \in Engines
                            /\ m.nth \in 0..MaxFires /\ m.ok \in BOOLEAN /\ m.pto \in Ptos
         /\ \A e \in Engines : ctx[e] \in CtxSet
BY DEF TypeOK, MsgSet

(* Nothing that belongs to jobs changes, only user code begins or ends on  *)
(* engine e.                                                               *)
LEMMA OutstandingSame ==
  ASSUME UNCHANGED <<timer, msgs>>, \A e \in Engines : ctx'[e].job = ctx[e].job
  PROVE  \A j \in Jobs : Outstanding(j)' <=> Outstanding(j)
BY DEF Outstanding

LEMMA PendingsSame ==
  ASSUME PendingsMatch, UNCHANGED pendings,
         \A j \in Jobs : job'[j].api = job[j].api,
         \A e \in Engines : engine'[e] \in {"run", "left"} => engine[e] \in {"run", "left"},
         (\A e \in Engines : engine'[e] \in {"run", "left"}) =>
           \A j \in Jobs : job[j].api \in Apis => (Outstanding(j)' <=> Outstanding(j))
  PROVE  PendingsMatch'
<1> SUFFICES ASSUME \A e \in Engines : engine'[e] \in {"run", "left"}, NEW a \in Apis
             PROVE  pendings'[a] = Cardinality({j \in Jobs : job'[j].api = a /\ Outstanding(j)'})
  BY DEF PendingsMatch
<1>1. {j \in Jobs : job'[j].api = a /\ Outstanding(j)'} = {j \in Jobs : job[j].api = a /\ Outstanding(j)}
  OBVIOUS
<1>2. pendings[a] = Cardinality({j \in Jobs : job[j].api = a /\ Outstanding(j)})
  BY DEF PendingsMatch
<1> QED
  BY <1>1, <1>2

------------------------------------------------------------------------------
LEMMA InitReturnStep == ASSUME JobInv, InitReturn PROVE JobInv'
<1>1. /\ ctx' = [ctx EXCEPT ![Master] = Idle] /\ ctx[Master].in = "init" /\ Master \in Engines
      /\ UNCHANGED <<job, timer, fires, entity, released, msgs, api, pendings,
                     completed, engine, stopping, bad>>
  BY DEF InitReturn, Initialised, Engines
<1>2. /\ \A e \in Engines : ctx'[e] = IF e = Master THEN Idle ELSE ctx[e]
      /\ ctx[Master].job = None /\ ctx[Master].api = None
  BY <1>1 DEF JobInv, TypeOK, CtxOK
<1>3. \A e \in Engines : ctx'[e].job = ctx[e].job /\ ctx'[e].api = ctx[e].api
  BY <1>2, Records
<1>4. TypeOK'
  BY <1>1, <1>2, Records DEF JobInv, TypeOK
<1>5. Single' /\ SameEngine'
  BY <1>1, <1>3 DEF JobInv, Single, SameEngine, OneShot
<1>6. PendingsMatch'
  BY <1>1, <1>3, OutstandingSame, PendingsSame DEF JobInv
<1>7. \A j \in Jobs : JobOK(j)'
  BY <1>1 DEF JobInv, JobOK, Created, OneShot
<1>8. \A m \in msgs' : MsgOK(m)'
  BY <1>1 DEF JobInv, MsgOK, Created, OneShot, Running
<1>9. \A e \in Engines : CtxOK(e)'
  BY <1>1, <1>2, Records DEF JobInv, CtxOK, Created, OneShot
<1>10. \A e \in Engines : EngineOK(e)'
  BY <1>1 DEF JobInv, EngineOK, Running
<1>11. \A c \in Crons : CronOK(c)'
  BY <1>1 DEF JobInv, CronOK
<1>12. \A a \in Apis : ApiOK(a)'
  BY <1>1, <1>2, <1>3, Records DEF JobInv, ApiOK
<1> QED
  BY <1>1, <1>4, <1>5, <1>6, <1>7, <1>8, <1>9, <1>10, <1>11, <1>12 DEF JobInv

LEMMA ApiRunStep ==
  ASSUME JobInv, NEW e \in Engines, NEW a \in Apis, ApiRun(e, a)
  PROVE  JobInv'
<1> DEFINE c == [Idle EXCEPT !.in = "api", !.api = a]
<1>0. c \in CtxSet /\ c.in = "api" /\ c.api = a /\ c.job = None
  <2>1. PICK f : f = [Idle EXCEPT !.in = "api", !.api = a]
    OBVIOUS
  <2>2. f \in CtxSet /\ f.in = "api" /\ f.api = a /\ f.job = None
    BY <2>1, Records DEF CtxSet
  <2> QED
    BY <2>1, <2>2
<1> HIDE DEF c
<1>1. /\ ctx' = [ctx EXCEPT ![e] = c] /\ ctx[e].in = "none" /\ engine[e] = "run"
      /\ api' = [api EXCEPT ![a] = "run"] /\ api[a] = "idle"
      /\ UNCHANGED <<job, timer, fires, entity, released, msgs, pendings,
                     completed, engine, stopping, bad>>
  BY DEF ApiRun, Free, c
<1>2. /\ \A f \in Engines : ctx'[f] = IF f = e THEN c ELSE ctx[f]
      /\ \A b \in Apis : api'[b] = IF b = a THEN "run" ELSE api[b]
      /\ ctx[e].job = None /\ ctx[e].api = None /\ None \notin Apis
  BY <1>1, EnginesAssumption DEF JobInv, TypeOK, CtxOK
<1>3. \A f \in Engines : ctx'[f].job = ctx[f].job
  BY <1>0, <1>2
<1>4. \A f \in Engines : ctx[f].api # a
  BY <1>1, <1>2 DEF JobInv, CtxOK, ApiOK, TypeOK, CtxSet
<1>5. TypeOK'
  BY <1>0, <1>1, <1>2 DEF JobInv, TypeOK
<1>6. Single'
  BY <1>1, <1>3 DEF JobInv, Single, OneShot
<1>7. SameEngine'
  BY <1>0, <1>1, <1>2, <1>4 DEF JobInv, SameEngine, ApiOK
<1>8. PendingsMatch'
  BY <1>1, <1>3, OutstandingSame, PendingsSame DEF JobInv
<1>9. \A j \in Jobs : JobOK(j)'
  BY <1>1 DEF JobInv, JobOK, Created, OneShot
<1>10. \A m \in msgs' : MsgOK(m)'
  BY <1>1 DEF JobInv, MsgOK, Created, OneShot, Running
<1>11. \A f \in Engines : CtxOK(f)'
  BY <1>0, <1>1, <1>2, <1>4 DEF JobInv, CtxOK, Created, OneShot
<1>12. \A f \in Engines : EngineOK(f)'
  BY <1>1 DEF JobInv, EngineOK, Running
<1>13. \A x \in Crons : CronOK(x)'
  BY <1>1 DEF JobInv, CronOK
<1>14. \A b \in Apis : ApiOK(b)'
  <2> SUFFICES ASSUME NEW b \in Apis PROVE ApiOK(b)'
    OBVIOUS
  <2>1. CASE b = a
    BY <1>0, <1>1, <1>2, <2>1 DEF JobInv, ApiOK
  <2>2. CASE b # a
    BY <1>0, <1>1, <1>2, <2>2 DEF JobInv, ApiOK
  <2> QED
    BY <2>1, <2>2
<1> QED
  BY <1>1, <1>5, <1>6, <1>7, <1>8, <1>9, <1>10, <1>11, <1>12, <1>13, <1>14 DEF JobInv

(* The jobs of call a that are still to run, as far as they are counted.   *)
PendingJobs(a) == {j \in Jobs : job[j].api = a /\ Outstanding(j)}

LEMMA PendingsCounted ==
  ASSUME JobInv, Running, NEW a \in Apis
  PROVE  /\ pendings[a] = Cardinality(PendingJobs(a)) /\ IsFiniteSet(PendingJobs(a))
         /\ pendings[a] = 0 => \A j \in Jobs : job[j].api = a => ~Outstanding(j)
<1>1. \A e \in Engines : engine[e] \in {"run", "left"}
  BY DEF JobInv, EngineOK, TypeOK
<1>2. pendings[a] = Cardinality(PendingJobs(a))
  BY <1>1 DEF JobInv, PendingsMatch, PendingJobs
<1>3. IsFiniteSet(PendingJobs(a))
  <2>1. PendingJobs(a) \subseteq Jobs
    BY DEF PendingJobs
  <2> QED
    BY <2>1, SetsAssumption, FS_Subset
<1>4. pendings[a] = 0 => PendingJobs(a) = {}
  BY <1>2, <1>3, FS_EmptySet
<1> QED
  BY <1>2, <1>3, <1>4 DEF PendingJobs

(* An api that has returned is done, or waits for its jobs.                *)
LEMMA ApiReturnStep == ASSUME JobInv, NEW e \in Engines, ApiReturn(e) PROVE JobInv'
<1> DEFINE a == ctx[e].api
           z == pendings[a] = 0
<1>1. /\ ctx[e].in = "api" /\ ctx' = [ctx EXCEPT ![e] = Idle]
      /\ api' = [api EXCEPT ![a] = IF z THEN "done" ELSE "wait"]
      /\ completed' = IF z THEN [completed EXCEPT ![a] = Plus(@)] ELSE completed
      /\ UNCHANGED <<job, timer, fires, entity, released, msgs, pendings, engine,
                     stopping, bad>>
  BY DEF ApiReturn
<1>2. /\ engine[e] = "run" /\ a \in Apis /\ api[a] = "run" /\ ctx[e].job = None
      /\ completed[a] = 0 /\ None \notin Apis
  BY <1>1, EnginesAssumption DEF JobInv, CtxOK, ApiOK
<1>3. \A f \in Engines : f # e => ctx[f].api # a
  BY <1>2 DEF JobInv, SameEngine
<1> HIDE DEF a, z
<1>4. /\ \A f \in Engines : ctx'[f] = IF f = e THEN Idle ELSE ctx[f]
      /\ \A b \in Apis : api'[b] = IF b = a THEN (IF z THEN "done" ELSE "wait") ELSE api[b]
      /\ \A b \in Apis : completed'[b] = IF b = a /\ z THEN 1 ELSE completed[b]
      /\ completed' \in [Apis -> 0..2]
  BY <1>1, <1>2 DEF JobInv, TypeOK, Plus
<1>5. \A f \in Engines : ctx'[f].job = ctx[f].job
  BY <1>2, <1>4, Records
<1>6. TypeOK'
  BY <1>1, <1>2, <1>4, Records DEF JobInv, TypeOK
<1>7. Single'
  BY <1>1, <1>5 DEF JobInv, Single, OneShot
<1>8. SameEngine'
  BY <1>1, <1>2, <1>4, Records DEF JobInv, SameEngine
<1>9. PendingsMatch'
  BY <1>1, <1>5, OutstandingSame, PendingsSame DEF JobInv
<1>10. \A j \in Jobs : JobOK(j)'
  BY <1>1 DEF JobInv, JobOK, Created, OneShot
<1>11. \A m \in msgs' : MsgOK(m)'
  BY <1>1 DEF JobInv, MsgOK, Created, OneShot, Running
<1>12. \A f \in Engines : CtxOK(f)'
  BY <1>1, <1>2, <1>3, <1>4, Records DEF JobInv, CtxOK, Created, OneShot
<1>13. \A f \in Engines : EngineOK(f)'
  BY <1>1 DEF JobInv, EngineOK, Running
<1>14. \A x \in Crons : CronOK(x)'
  BY <1>1 DEF JobInv, CronOK
<1>15. \A b \in Apis : ApiOK(b)'
  <2> SUFFICES ASSUME NEW b \in Apis PROVE ApiOK(b)'
    OBVIOUS
  <2>1. CASE b = a
    BY <1>1, <1>2, <1>3, <1>4, <2>1, Records DEF JobInv, ApiOK, z
  <2>2. CASE b # a
    BY <1>1, <1>2, <1>4, <2>2, Records DEF JobInv, ApiOK, a
  <2> QED
    BY <2>1, <2>2
<1> QED
  BY <1>1, <1>6, <1>7, <1>8, <1>9, <1>10, <1>11, <1>12, <1>13, <1>14, <1>15 DEF JobInv

------------------------------------------------------------------------------
(* Before it is submitted nothing of a job exists.                         *)
LEMMA NewJob ==
  ASSUME JobInv, NEW j \in Jobs, job[j] = NoJob
  PROVE  /\ ~Created(j) /\ timer[j] = "none" /\ entity[j] = "none" /\ released[j] = 0
         /\ \A m \in msgs : m.job # j
         /\ \A f \in Engines : ctx[f].job # j
         /\ \A f \in Engines : ctx[f].in = "job" => ctx[f].job # j
         /\ ~Outstanding(j) /\ j \notin Crons
<1>1. ~Created(j)
  BY Records DEF Created
<1>2. timer[j] = "none" /\ entity[j] = "none" /\ released[j] = 0
  BY <1>1, Records DEF JobInv, JobOK
<1>3. \A m \in msgs : m.job # j
  BY <1>1 DEF JobInv, MsgOK
<1>4. \A f \in Engines : ctx[f].job # j
  BY <1>1, EnginesAssumption DEF JobInv, CtxOK
<1>5. ~Outstanding(j)
  BY <1>2, <1>3, <1>4 DEF Outstanding
<1> QED
  BY <1>1, <1>2, <1>3, <1>4, <1>5, SetsAssumption

LEMMA RefuseStep ==
  ASSUME JobInv, NEW e \in Engines, NEW j \in Jobs, job[j] = NoJob, Refuse(e, j),
         UNCHANGED <<fires, msgs, ctx, api, completed, engine, stopping, bad>>
  PROVE  JobInv'
<1> DEFINE y == [NoJob EXCEPT !.kind = "refused"]
<1>0. y \in JobSet /\ y.kind = "refused" /\ y.api = None /\ y.home = None /\ y.interval = FALSE
  BY DEF NoJob, JobSet
<1> HIDE DEF y
<1>1. job' = [job EXCEPT ![j] = y] /\ UNCHANGED <<timer, entity, pendings>>
  BY DEF Refuse, y
<1>2. /\ released[j] = 0 /\ timer[j] = "none" /\ entity[j] = "none"
      /\ \A m \in msgs : m.job # j
      /\ \A f \in Engines : ctx[f].job # j
  BY NewJob
<1>3. /\ \A k \in Jobs : job'[k] = IF k = j THEN y ELSE job[k]
      /\ \A k \in Jobs : released'[k] = IF k = j THEN 1 ELSE released[k]
      /\ released' \in [Jobs -> 0..2]
  BY <1>1, <1>2 DEF JobInv, TypeOK, Refuse, Release, Plus
<1>4. job[j].api = None /\ job[j].home = None /\ job[j].interval = FALSE
  BY Records
<1>5. \A k \in Jobs : job'[k].api = job[k].api
  BY <1>0, <1>3, <1>4
<1>6. TypeOK'
  BY <1>0, <1>1, <1>3 DEF JobInv, TypeOK
<1>7. Single'
  BY <1>0, <1>3, <1>4, Types DEF JobInv, Single, OneShot
<1>8. SameEngine'
  BY <1>0, <1>3, <1>4, EnginesAssumption DEF JobInv, SameEngine
<1>9. PendingsMatch'
  BY <1>1, <1>5, OutstandingSame, PendingsSame DEF JobInv
<1>10. \A k \in Jobs : JobOK(k)'
  <2> SUFFICES ASSUME NEW k \in Jobs PROVE JobOK(k)'
    OBVIOUS
  <2>1. CASE k = j
    BY <1>0, <1>1, <1>2, <1>3, <2>1 DEF JobOK, Created
  <2>2. CASE k # j
    BY <1>1, <1>3, <2>2 DEF JobInv, JobOK, Created, OneShot
  <2> QED
    BY <2>1, <2>2
<1>11. \A m \in msgs' : MsgOK(m)'
  BY <1>1, <1>2, <1>3, Types DEF JobInv, MsgOK, Created, OneShot, Running
<1>12. \A f \in Engines : CtxOK(f)'
  BY <1>1, <1>2, <1>3 DEF JobInv, CtxOK, Created, OneShot
<1>13. \A f \in Engines : EngineOK(f)'
  BY DEF JobInv, EngineOK, Running
<1>14. \A x \in Crons : CronOK(x)'
  BY <1>1 DEF JobInv, CronOK
<1>15. \A b \in Apis : ApiOK(b)'
  BY <1>1, <1>5 DEF JobInv, ApiOK
<1> QED
  BY <1>6, <1>7, <1>8, <1>9, <1>10, <1>11, <1>12, <1>13, <1>14, <1>15 DEF JobInv

(* The count of a call goes up by one with the job that is created for it. *)
LEMMA CreateCounts ==
  ASSUME JobInv, Running, NEW j \in Jobs, NEW a \in Apis \cup {None}, job[j] = NoJob,
         UNCHANGED <<msgs, ctx, engine>>,
         \A k \in Jobs : k # j => job'[k] = job[k] /\ timer'[k] = timer[k],
         job'[j].api = a, timer'[j] = "live",
         pendings' = IF a \in Apis THEN [pendings EXCEPT ![a] = @ + 1] ELSE pendings
  PROVE  PendingsMatch' /\ pendings' \in [Apis -> 0..Cardinality(Jobs)]
<1>1. ~Outstanding(j) /\ Outstanding(j)' /\ job[j].api = None /\ None \notin Apis
  BY NewJob, Records, EnginesAssumption DEF Outstanding
<1>2. \A k \in Jobs : k # j => (Outstanding(k)' <=> Outstanding(k))
  BY DEF Outstanding
<1>3. ASSUME NEW b \in Apis
      PROVE  /\ pendings'[b] = Cardinality(PendingJobs(b)')
             /\ pendings'[b] \in 0..Cardinality(Jobs)
  <2>0. /\ pendings[b] = Cardinality(PendingJobs(b)) /\ IsFiniteSet(PendingJobs(b))
        /\ pendings \in [Apis -> 0..Cardinality(Jobs)] /\ Cardinality(Jobs) \in Nat
    BY PendingsCounted, SetsAssumption, FS_CardinalityType DEF JobInv, TypeOK
  <2>1. CASE a = b
    <3>1. PendingJobs(b)' = PendingJobs(b) \cup {j} /\ j \notin PendingJobs(b)
      BY <1>1, <1>2, <2>1 DEF PendingJobs
    <3>2. Cardinality(PendingJobs(b)') = pendings[b] + 1
      BY <2>0, <3>1, FS_AddElement, ZenonT(60)
    <3>3. PendingJobs(b)' \subseteq Jobs
      BY DEF PendingJobs
    <3>4. Cardinality(PendingJobs(b)') <= Cardinality(Jobs)
      BY <3>3, SetsAssumption, FS_Subset
    <3> QED
      BY <2>0, <2>1, <3>2, <3>4
  <2>2. CASE a # b
    <3>1. PendingJobs(b)' = PendingJobs(b)
      BY <1>1, <1>2, <2>2 DEF PendingJobs
    <3> QED
      BY <2>0, <2>2, <3>1
  <2> QED
    BY <2>1, <2>2
<1>4. pendings' \in [Apis -> 0..Cardinality(Jobs)]
  <2>1. pendings \in [Apis -> 0..Cardinality(Jobs)]
    BY DEF JobInv, TypeOK
  <2>2. pendings' = [b \in Apis |-> pendings'[b]]
    BY <2>1
  <2> QED
    BY <1>3, <2>2
<1>5. PendingsMatch'
  BY <1>3 DEF PendingsMatch, PendingJobs
<1> QED
  BY <1>4, <1>5

LEMMA CreateStep ==
  ASSUME JobInv, NEW e \in Engines, NEW j \in Jobs, NEW kind \in {"pending", "np"},
         NEW itv \in BOOLEAN, NEW b, ctx[e].in # "none", job[j] = NoJob, ValidTarget(b, e),
         kind = "pending" => ctx[e].api # None /\ ~itv /\ b = e,
         Create(e, j, kind, itv, b),
         UNCHANGED <<fires, msgs, ctx, api, completed, engine, stopping, bad>>
  PROVE  JobInv'
<1> DEFINE a == IF kind = "pending" THEN ctx[e].api ELSE None
           y == [kind |-> kind, interval |-> itv, home |-> e, target |-> b, api |-> a]
<1>1. /\ engine[e] = "run" /\ Running /\ None \notin Apis
      /\ ctx[e].api \in Apis \cup {None} /\ a \in Apis \cup {None}
      /\ kind = "pending" => a \in Apis /\ a = ctx[e].api
      /\ kind = "np" => a = None
  BY EnginesAssumption, Types DEF JobInv, CtxOK, Running, CtxSet
<1>2. b \in Engines
  BY DEF ValidTarget, Engines
<1>3. /\ y \in JobSet /\ y.kind = kind /\ y.interval = itv /\ y.home = e /\ y.target = b
      /\ y.api = a
  BY <1>1, <1>2 DEF JobSet
<1>4. /\ job' = [job EXCEPT ![j] = y]
      /\ timer' = [timer EXCEPT ![j] = "live"] /\ entity' = [entity EXCEPT ![j] = "active"]
      /\ pendings' = IF a \in Apis THEN [pendings EXCEPT ![a] = @ + 1] ELSE pendings
      /\ released' = released
  BY <1>1 DEF Create
<1> HIDE DEF a, y
<1>5. /\ ~Created(j) /\ released[j] = 0 /\ j \notin Crons
      /\ \A m \in msgs : m.job # j
      /\ \A f \in Engines : ctx[f].job # j
  BY NewJob
<1>6. /\ \A k \in Jobs : job'[k] = IF k = j THEN y ELSE job[k]
      /\ \A k \in Jobs \cup Crons : timer'[k] = IF k = j THEN "live" ELSE timer[k]
      /\ \A k \in Jobs \cup Crons : entity'[k] = IF k = j THEN "active" ELSE entity[k]
  BY <1>4 DEF JobInv, TypeOK
<1>7. job[j].api = None /\ job[j].home = None
  BY Records
<1>8. PendingsMatch' /\ pendings' \in [Apis -> 0..Cardinality(Jobs)]
  BY <1>1, <1>3, <1>4, <1>6, CreateCounts
<1>9. TypeOK'
  BY <1>3, <1>4, <1>8 DEF JobInv, TypeOK
<1>10. Single'
  BY <1>5, <1>6, Types DEF JobInv, Single, OneShot
<1>11. SameEngine'
  <2>1. \A k \in Jobs : job[k].api = a /\ a \in Apis => job[k].home = e
    BY <1>1 DEF JobInv, SameEngine
  <2>2. \A f \in Engines : ctx[f].api = a /\ a \in Apis => f = e
    BY <1>1 DEF JobInv, SameEngine
  <2> QED
    BY <1>3, <1>6, <2>1, <2>2 DEF JobInv, SameEngine
<1>12. \A k \in Jobs : JobOK(k)'
  <2> SUFFICES ASSUME NEW k \in Jobs PROVE JobOK(k)'
    OBVIOUS
  <2>1. CASE k = j
    BY <1>1, <1>2, <1>3, <1>4, <1>5, <1>6, <2>1 DEF JobOK, Created, OneShot
  <2>2. CASE k # j
    BY <1>4, <1>6, <2>2 DEF JobInv, JobOK, Created, OneShot
  <2> QED
    BY <2>1, <2>2
<1>13. \A m \in msgs' : MsgOK(m)'
  BY <1>5, <1>6, Types DEF JobInv, MsgOK, Created, OneShot, Running
<1>14. \A f \in Engines : CtxOK(f)'
  BY <1>5, <1>6 DEF JobInv, CtxOK, Created, OneShot
<1>15. \A f \in Engines : EngineOK(f)'
  BY DEF JobInv, EngineOK, Running
<1>16. \A x \in Crons : CronOK(x)'
  BY <1>5, <1>6 DEF JobInv, CronOK
<1>17. \A x \in Apis : ApiOK(x)'
  <2>1. a \in Apis => api[a] \notin {"idle", "done"}
    <3> SUFFICES ASSUME a \in Apis PROVE api[a] \notin {"idle", "done"}
      OBVIOUS
    <3>1. a = ctx[e].api
      BY <1>1
    <3>2. ctx[e].in \in {"api", "job"}
      BY <1>1, <3>1, Types DEF JobInv, CtxOK, CtxSet
    <3>3. api[a] # "done"
      BY <3>1 DEF JobInv, ApiOK
    <3>4. api[a] # "idle"
      BY <3>1, <3>2 DEF JobInv, ApiOK, CtxOK
    <3> QED
      BY <3>3, <3>4
  <2> SUFFICES ASSUME NEW x \in Apis PROVE ApiOK(x)'
    OBVIOUS
  <2>2. CASE x = a
    BY <2>1, <2>2 DEF JobInv, ApiOK
  <2>3. CASE x # a
    <3>1. pendings'[x] = pendings[x]
      BY <1>4, <2>3 DEF JobInv, TypeOK
    <3> QED
      BY <1>3, <1>6, <2>3, <3>1 DEF JobInv, ApiOK
  <2> QED
    BY <2>2, <2>3
<1> QED
  BY <1>8, <1>9, <1>10, <1>11, <1>12, <1>13, <1>14, <1>15, <1>16, <1>17 DEF JobInv

LEMMA SubmitStep == ASSUME JobInv, Submit PROVE JobInv'
<1>1. PICK e \in Engines, j \in Jobs, fn \in BOOLEAN :
        \/ SubmitPending(e, j, fn)
        \/ \E itv \in {FALSE, (j \in Repeating)}, b \in {e} \cup Bios \cup {BadBio} :
             SubmitNp(e, j, itv, b, fn)
  BY DEF Submit
<1>2. CASE SubmitPending(e, j, fn)
  <2>1. /\ ctx[e].in # "none" /\ job[j] = NoJob
        /\ UNCHANGED <<fires, msgs, ctx, api, completed, engine, stopping, bad>>
    BY <1>2 DEF SubmitPending
  <2>2. CASE ctx[e].api = None \/ ~fn
    BY <1>2, <2>1, <2>2, RefuseStep DEF SubmitPending
  <2>3. CASE ctx[e].api # None /\ fn
    <3>1. Create(e, j, "pending", FALSE, e) /\ ValidTarget(e, e)
      BY <1>2, <2>3 DEF SubmitPending, ValidTarget
    <3> QED
      BY <2>1, <2>3, <3>1, CreateStep
  <2> QED
    BY <2>2, <2>3
<1>3. ASSUME NEW itv \in BOOLEAN, NEW b, SubmitNp(e, j, itv, b, fn)
      PROVE  JobInv'
  <2>1. /\ ctx[e].in # "none" /\ job[j] = NoJob
        /\ UNCHANGED <<fires, msgs, ctx, api, completed, engine, stopping, bad>>
    BY <1>3 DEF SubmitNp
  <2>2. CASE ~fn \/ ~ValidTarget(b, e)
    BY <1>3, <2>1, <2>2, RefuseStep DEF SubmitNp
  <2>3. CASE fn /\ ValidTarget(b, e)
    <3>1. Create(e, j, "np", itv, b)
      BY <1>3, <2>3 DEF SubmitNp
    <3> QED
      BY <2>1, <2>3, <3>1, CreateStep
  <2> QED
    BY <2>2, <2>3
<1>4. \A itv \in {FALSE, (j \in Repeating)} : itv \in BOOLEAN
  <2>1. CASE j \in Repeating
    <3>1. (j \in Repeating) = TRUE
      BY <2>1
    <3> QED
      BY <3>1
  <2>2. CASE j \notin Repeating
    <3>1. (j \in Repeating) = FALSE
      BY <2>2
    <3> QED
      BY <3>1
  <2> QED
    BY <2>1, <2>2
<1>5. CASE \E itv \in {FALSE, (j \in Repeating)}, b \in {e} \cup Bios \cup {BadBio} :
             SubmitNp(e, j, itv, b, fn)
  <2>1. PICK itv \in {FALSE, (j \in Repeating)}, b \in {e} \cup Bios \cup {BadBio} :
               SubmitNp(e, j, itv, b, fn)
    BY <1>5, Zenon
  <2>2. itv \in BOOLEAN
    BY <1>4, Zenon
  <2> QED
    BY <1>3, <2>1, <2>2, Zenon
<1> QED
  BY <1>1, <1>2, <1>5, Zenon

------------------------------------------------------------------------------
LEMMA FireStep == ASSUME JobInv, NEW j \in Jobs, Fire(j) PROVE JobInv'
<1> DEFINE e == job[j].home
           n == Msg("TIMER_TRIGGERED", j, e, fires[j], TRUE)
<1>1. /\ timer[j] = "live" /\ engine[e] = "run" /\ fires' = [fires EXCEPT ![j] = @ + 1]
      /\ msgs' = msgs \cup {n}
      /\ fires[j] < (IF job[j].interval THEN MaxFires ELSE 1)
      /\ UNCHANGED <<job, timer, entity, released, ctx, api, pendings, completed,
                     engine, stopping, bad>>
  BY DEF Fire, Free
<1>2. Created(j) /\ e \in Engines /\ entity[j] = "active" /\ Running
  BY <1>1 DEF JobInv, JobOK, Running
<1>3. /\ fires[j] \in Nat /\ fires[j] + 1 \in 0..MaxFires /\ fires[j] \in 0..MaxFires
      /\ OneShot(j) => fires[j] = 0
  BY <1>1, Types, BoundsAssumption DEF JobInv, OneShot
<1>4. n \in MsgSet /\ n.pto = "TIMER_TRIGGERED" /\ n.job = j /\ n.at = e
  BY <1>2, <1>3 DEF Msg, MsgSet, Ptos
<1> HIDE DEF n, e
<1>5. /\ \A k \in Jobs : fires'[k] = IF k = j THEN fires[j] + 1 ELSE fires[k]
      /\ fires' \in [Jobs -> 0..MaxFires]
  BY <1>1, <1>3 DEF JobInv, TypeOK
<1>6. OneShot(j) => /\ \A m \in msgs : m.job # j
                    /\ \A f \in Engines : ctx[f].job # j
  BY <1>3, EnginesAssumption DEF JobInv, MsgOK, CtxOK
<1>7. TypeOK'
  BY <1>1, <1>4, <1>5 DEF JobInv, TypeOK
<1>8. Single'
  BY <1>1, <1>4, <1>6 DEF JobInv, Single, OneShot
<1>9. SameEngine'
  BY <1>1 DEF JobInv, SameEngine
<1>10. PendingsMatch'
  <2>1. \A k \in Jobs : Outstanding(k)' <=> Outstanding(k)
    BY <1>1, <1>4 DEF Outstanding
  <2> QED
    BY <1>1, <2>1, PendingsSame DEF JobInv
<1>11. \A k \in Jobs : JobOK(k)'
  BY <1>1 DEF JobInv, JobOK, Created, OneShot
<1>12. ASSUME NEW m \in msgs' PROVE MsgOK(m)'
  <2>1. CASE m = n
    BY <1>1, <1>2, <1>3, <1>4, <1>5, <2>1 DEF MsgOK, Created, OneShot, Running, e
  <2>2. CASE m \in msgs
    BY <1>1, <1>3, <1>5, <2>2, Types DEF JobInv, MsgOK, Created, OneShot, Running
  <2> QED
    BY <1>1, <2>1, <2>2
<1>13. \A f \in Engines : CtxOK(f)'
  BY <1>1, <1>3, <1>5 DEF JobInv, CtxOK, Created, OneShot
<1>14. \A f \in Engines : EngineOK(f)'
  BY <1>1 DEF JobInv, EngineOK, Running
<1>15. \A x \in Crons : CronOK(x)'
  BY <1>1 DEF JobInv, CronOK
<1>16. \A a \in Apis : ApiOK(a)'
  BY <1>1 DEF JobInv, ApiOK
<1> QED
  BY <1>1, <1>7, <1>8, <1>9, <1>10, <1>11, <1>12, <1>13, <1>14, <1>15, <1>16 DEF JobInv

(* A handler that replaces an event of a job by the next one, or by none.  *)
Replaces(m, N) ==
  /\ m \in msgs /\ msgs' = (msgs \ {m}) \cup N
  /\ N \subseteq MsgSet /\ \A n \in N : n.job = m.job
  /\ \A n, o \in N : n = o
  /\ UNCHANGED <<job, fires, ctx, api, pendings, completed, engine, stopping>>

LEMMA ReplacesKeeps ==
  ASSUME JobInv, NEW m, NEW N, Replaces(m, N)
  PROVE  /\ msgs' \subseteq MsgSet /\ Single' /\ SameEngine'
         /\ \A f \in Engines : EngineOK(f)'
         /\ \A a \in Apis : ApiOK(a)'
         /\ m.job \in Jobs /\ m.at \in Engines /\ MsgOK(m)
         /\ OneShot(m.job) => /\ \A x \in msgs : x.job = m.job => x = m
                              /\ \A f \in Engines : ctx[f].job # m.job
<1>0. /\ m \in msgs /\ msgs' = (msgs \ {m}) \cup N
      /\ N \subseteq MsgSet /\ \A n \in N : n.job = m.job
      /\ \A n, o \in N : n = o
      /\ UNCHANGED <<job, fires, ctx, api, pendings, completed, engine, stopping>>
  BY DEF Replaces
<1>1. msgs' \subseteq MsgSet
  BY <1>0 DEF JobInv, TypeOK
<1>2. Single'
  BY <1>0 DEF JobInv, Single, OneShot
<1>3. SameEngine'
  BY <1>0 DEF JobInv, SameEngine
<1>4. \A f \in Engines : EngineOK(f)'
  BY <1>0 DEF JobInv, EngineOK, Running
<1>5. \A a \in Apis : ApiOK(a)'
  BY <1>0 DEF JobInv, ApiOK
<1>6. m.job \in Jobs /\ m.at \in Engines /\ MsgOK(m)
  BY <1>0, Types DEF JobInv
<1>7. OneShot(m.job) => /\ \A x \in msgs : x.job = m.job => x = m
                        /\ \A f \in Engines : ctx[f].job # m.job
  BY <1>0, <1>6 DEF JobInv, Single
<1> QED
  BY <1>1, <1>2, <1>3, <1>4, <1>5, <1>6, <1>7

LEMMA TimerTriggeredStep == ASSUME JobInv, NEW m, TimerTriggered(m) PROVE JobInv'
<1> DEFINE j == m.job
           n == Msg("TIMER_EMIT", j, Master, m.nth, TRUE)
<1>1. /\ m \in msgs /\ m.pto = "TIMER_TRIGGERED" /\ engine[m.at] = "run"
      /\ msgs' = (msgs \ {m}) \cup {n}
      /\ timer' = IF OneShot(j) THEN [timer EXCEPT ![j] = "gone"] ELSE timer
      /\ UNCHANGED <<job, fires, entity, released, ctx, api, pendings, completed,
                     engine, stopping>>
  BY DEF TimerTriggered, Free
<1>2. n \in MsgSet /\ n.pto = "TIMER_EMIT" /\ n.job = j
  <2>1. j \in Jobs /\ Master \in Engines /\ m.nth \in 0..MaxFires
    BY <1>1, Types DEF JobInv, Engines
  <2> QED
    BY <2>1 DEF Msg, MsgSet, Ptos
<1>3. Replaces(m, {n})
  BY <1>1, <1>2 DEF Replaces
<1>4. /\ j \in Jobs /\ Running /\ MsgOK(m) /\ timer[j] = "live" /\ entity[j] = "active"
      /\ j \notin Crons
  BY <1>1, <1>3, ReplacesKeeps, SetsAssumption DEF MsgOK, Running
<1>5. bad' = {}
  BY <1>4 DEF TimerTriggered, JobdataFault, JobInv
<1>6. /\ timer' \in [Jobs \cup Crons -> {"none", "live", "gone"}]
      /\ \A k \in Jobs \cup Crons :
           timer'[k] = IF k = j /\ OneShot(j) THEN "gone" ELSE timer[k]
  BY <1>1, <1>4 DEF JobInv, TypeOK
<1>7. OneShot(j) => \A x \in msgs : x.job = j => x = m
  BY <1>3, ReplacesKeeps
<1>8. TypeOK'
  BY <1>1, <1>3, <1>5, <1>6, ReplacesKeeps DEF JobInv, TypeOK
<1> HIDE DEF n, j
<1>9. PendingsMatch'
  <2>1. \A k \in Jobs : k # j => (Outstanding(k)' <=> Outstanding(k))
    BY <1>1, <1>2, <1>6 DEF Outstanding, j
  <2>2. Outstanding(j) /\ Outstanding(j)'
    BY <1>1, <1>2 DEF Outstanding, j
  <2> QED
    BY <1>1, <2>1, <2>2, PendingsSame DEF JobInv
<1>10. \A k \in Jobs : JobOK(k)'
  BY <1>1, <1>4, <1>6 DEF JobInv, JobOK, Created, OneShot
<1>11. ASSUME NEW x \in msgs' PROVE MsgOK(x)'
  <2>1. CASE x = n
    BY <1>1, <1>2, <1>4, <1>6, <2>1 DEF MsgOK, Created, OneShot, Running, j
  <2>2. CASE x \in msgs /\ x # m
    BY <1>1, <1>4, <1>6, <1>7, <2>2, Types DEF JobInv, MsgOK, Created, OneShot, Running
  <2> QED
    BY <1>1, <2>1, <2>2
<1>12. \A f \in Engines : CtxOK(f)'
  BY <1>1, <1>6 DEF JobInv, CtxOK, Created, OneShot
<1>13. \A x \in Crons : CronOK(x)'
  BY <1>1, <1>4, <1>6 DEF JobInv, CronOK
<1> QED
  BY <1>3, <1>5, <1>8, <1>9, <1>10, <1>11, <1>12, <1>13, ReplacesKeeps DEF JobInv

LEMMA TimerEmitStep == ASSUME JobInv, NEW m, NEW ok \in BOOLEAN, TimerEmit(m, ok) PROVE JobInv'
<1> DEFINE j == m.job
           at == IF ok THEN job[j].target ELSE job[j].home
           n == Msg("SVC_TIMER_RUN", j, at, m.nth, ok)
<1>1. /\ m \in msgs /\ m.pto = "TIMER_EMIT" /\ engine[Master] = "run" /\ Master \in Engines
      /\ msgs' = (msgs \ {m}) \cup {n}
      /\ UNCHANGED <<job, timer, fires, entity, released, ctx, api, pendings, completed,
                     engine, stopping, bad>>
  BY DEF TimerEmit, Free, Engines
<1>2. j \in Jobs /\ m.nth \in 0..MaxFires /\ MsgOK(m) /\ JobOK(j) /\ Running
  BY <1>1, Types DEF JobInv, Running
<1>3. at \in {job[j].home, job[j].target} /\ at \in Engines
  BY <1>2 DEF MsgOK, JobOK
<1>4. n \in MsgSet /\ n.pto = "SVC_TIMER_RUN" /\ n.job = j /\ n.at = at
  <2> HIDE DEF at, j
  <2> QED
    BY <1>2, <1>3 DEF Msg, MsgSet, Ptos
<1>5. Replaces(m, {n})
  BY <1>1, <1>4 DEF Replaces
<1>6. TypeOK'
  BY <1>1, <1>5, ReplacesKeeps DEF JobInv, TypeOK
<1> HIDE DEF n, at, j
<1>7. PendingsMatch'
  <2>1. \A k \in Jobs : k # j => (Outstanding(k)' <=> Outstanding(k))
    BY <1>1, <1>4 DEF Outstanding, j
  <2>2. Outstanding(j) /\ Outstanding(j)'
    BY <1>1, <1>4 DEF Outstanding, j
  <2> QED
    BY <1>1, <2>1, <2>2, PendingsSame DEF JobInv
<1>8. \A k \in Jobs : JobOK(k)'
  BY <1>1 DEF JobInv, JobOK, Created, OneShot
<1>9. ASSUME NEW x \in msgs' PROVE MsgOK(x)'
  <2>1. CASE x = n
    BY <1>1, <1>2, <1>3, <1>4, <2>1 DEF MsgOK, Created, OneShot, Running, j
  <2>2. CASE x \in msgs
    BY <1>1, <2>2, Types DEF JobInv, MsgOK, Created, OneShot, Running
  <2> QED
    BY <1>1, <2>1, <2>2
<1>10. \A f \in Engines : CtxOK(f)'
  BY <1>1 DEF JobInv, CtxOK, Created, OneShot
<1>11. \A x \in Crons : CronOK(x)'
  BY <1>1 DEF JobInv, CronOK
<1> QED
  BY <1>1, <1>5, <1>6, <1>7, <1>8, <1>9, <1>10, <1>11, ReplacesKeeps DEF JobInv

(* A job finds its data and its call, because it is one of the jobs they   *)
(* wait for.                                                               *)
LEMMA TimerRunStep == ASSUME JobInv, NEW m, TimerRun(m) PROVE JobInv'
<1> DEFINE j == m.job
           a == job[j].api
           e == m.at
           c == [in |-> "job", job |-> j, api |-> a, nth |-> m.nth, ok |-> m.ok]
<1>1. /\ m \in msgs /\ m.pto = "SVC_TIMER_RUN" /\ engine[e] = "run" /\ ctx[e].in = "none"
      /\ msgs' = msgs \ {m} /\ ctx' = [ctx EXCEPT ![e] = c]
      /\ UNCHANGED <<job, timer, fires, entity, released, api, pendings, completed,
                     engine, stopping>>
  BY DEF TimerRun, Free
<1>2. /\ j \in Jobs /\ e \in Engines /\ m.nth \in 0..MaxFires /\ m.ok \in BOOLEAN
      /\ MsgOK(m) /\ JobOK(j) /\ Running /\ None \notin Apis
      /\ a \in Apis \cup {None} /\ Created(j) /\ entity[j] = "active"
  BY <1>1, Types, EnginesAssumption DEF JobInv, Running, JobSet, MsgOK
<1>3. c \in CtxSet /\ c.in = "job" /\ c.job = j /\ c.api = a
  <2> HIDE DEF j, a
  <2> QED
    BY <1>2 DEF CtxSet
<1>4. Outstanding(j)
  BY <1>1 DEF Outstanding
<1>5. bad' = {}
  <2>1. released[j] = 0
    BY <1>2 DEF JobOK, Created
  <2>2. a # None => api[a] # "done"
    <3> SUFFICES ASSUME a \in Apis PROVE api[a] # "done"
      BY <1>2
    <3>1. pendings[a] # 0
      BY <1>2, <1>4, PendingsCounted
    <3> QED
      BY <3>1 DEF JobInv, ApiOK
  <2> QED
    BY <2>1, <2>2 DEF TimerRun, JobInv
<1> HIDE DEF c
<1>6. /\ \A f \in Engines : ctx'[f] = IF f = e THEN c ELSE ctx[f]
      /\ ctx[e].job = None /\ ctx[e].api = None
  BY <1>1, <1>2 DEF JobInv, TypeOK, CtxOK
<1>7. OneShot(j) => /\ \A x \in msgs : x.job = j => x = m
                    /\ \A f \in Engines : ctx[f].job # j
  BY <1>1, <1>2 DEF JobInv, Single
<1>8. a \in Apis => job[j].home = e
  BY <1>1, <1>2 DEF MsgOK, JobOK, Created
<1>9. a \in Apis => \A f \in Engines : ctx[f].api # a
  BY <1>2, <1>6, <1>8 DEF JobInv, SameEngine
<1> HIDE DEF j, a, e
<1>10. TypeOK'
  BY <1>1, <1>2, <1>3, <1>5, <1>6 DEF JobInv, TypeOK
<1>11. Single'
  BY <1>1, <1>2, <1>3, <1>6, <1>7, EnginesAssumption DEF JobInv, Single, OneShot
<1>12. SameEngine'
  <2>1. \A k \in Jobs : a \in Apis /\ job[k].api = a => job[k].home = e
    BY <1>2, <1>8 DEF JobInv, SameEngine, a
  <2> QED
    BY <1>1, <1>3, <1>6, <1>9, <2>1 DEF JobInv, SameEngine
<1>13. PendingsMatch'
  <2>1. \A k \in Jobs : k # j => (Outstanding(k)' <=> Outstanding(k))
    BY <1>1, <1>2, <1>3, <1>6, EnginesAssumption DEF Outstanding, j
  <2>2. Outstanding(j)'
    BY <1>2, <1>3, <1>6 DEF Outstanding
  <2> QED
    BY <1>1, <1>4, <2>1, <2>2, PendingsSame DEF JobInv
<1>14. \A k \in Jobs : JobOK(k)'
  BY <1>1 DEF JobInv, JobOK, Created, OneShot
<1>15. \A x \in msgs' : MsgOK(x)'
  BY <1>1, Types DEF JobInv, MsgOK, Created, OneShot, Running
<1>16. ASSUME NEW f \in Engines PROVE CtxOK(f)'
  <2>1. CASE f = e
    BY <1>1, <1>2, <1>3, <1>6, <2>1 DEF CtxOK, MsgOK, Created, OneShot, j, e, a
  <2>2. CASE f # e
    BY <1>1, <1>6, <2>2 DEF JobInv, CtxOK, Created, OneShot
  <2> QED
    BY <2>1, <2>2
<1>17. \A f \in Engines : EngineOK(f)'
  BY <1>1 DEF JobInv, EngineOK, Running
<1>18. \A x \in Crons : CronOK(x)'
  BY <1>1 DEF JobInv, CronOK
<1>19. ASSUME NEW b \in Apis PROVE ApiOK(b)'
  <2>1. /\ b = a => api[b] # "done"
        /\ \A f \in Engines : f # e => ctx'[f] = ctx[f]
        /\ ctx'[e].api = a /\ ctx[e].in = "none"
    <3>1. a \in Apis => pendings[a] # 0
      BY <1>2, <1>4, PendingsCounted DEF a
    <3>2. a \in Apis => api[a] # "done"
      BY <3>1 DEF JobInv, ApiOK
    <3> QED
      BY <1>1, <1>2, <1>3, <1>6, <3>2
  <2>2. /\ ApiOK(b) /\ e \in Engines
        /\ UNCHANGED <<job, api, pendings, completed>>
    BY <1>1, <1>2 DEF JobInv
  <2> QED
    BY <2>1, <2>2 DEF ApiOK
<1> QED
  BY <1>5, <1>10, <1>11, <1>12, <1>13, <1>14, <1>15, <1>16, <1>17, <1>18, <1>19 DEF JobInv

(* The count of a call goes down by one with each of its jobs that ends.   *)
LEMMA ReturnCounts ==
  ASSUME JobInv, Running, NEW j \in Jobs, NEW a \in Apis \cup {None}, job[j].api = a,
         UNCHANGED <<job, engine>>, a \in Apis => Outstanding(j) /\ ~Outstanding(j)',
         \A k \in Jobs : k # j => (Outstanding(k)' <=> Outstanding(k)),
         pendings' = IF a \in Apis THEN [pendings EXCEPT ![a] = pendings[a] - 1] ELSE pendings
  PROVE  PendingsMatch' /\ pendings' \in [Apis -> 0..Cardinality(Jobs)]
<1>3. ASSUME NEW b \in Apis
      PROVE  /\ pendings'[b] = Cardinality(PendingJobs(b)')
             /\ pendings'[b] \in 0..Cardinality(Jobs)
  <2>0. /\ pendings[b] = Cardinality(PendingJobs(b)) /\ IsFiniteSet(PendingJobs(b))
        /\ pendings \in [Apis -> 0..Cardinality(Jobs)] /\ Cardinality(Jobs) \in Nat
    BY PendingsCounted, SetsAssumption, FS_CardinalityType DEF JobInv, TypeOK
  <2>1. CASE a = b
    <3>1. PendingJobs(b)' = PendingJobs(b) \ {j} /\ j \in PendingJobs(b)
      BY <2>1 DEF PendingJobs
    <3>2. /\ Cardinality(PendingJobs(b)') = pendings[b] - 1
          /\ Cardinality(PendingJobs(b)') \in Nat
      BY <2>0, <3>1, FS_RemoveElement, FS_CardinalityType
    <3> QED
      BY <2>0, <2>1, <3>2
  <2>2. CASE a # b
    <3>1. PendingJobs(b)' = PendingJobs(b)
      BY <2>2 DEF PendingJobs
    <3> QED
      BY <2>0, <2>2, <3>1
  <2> QED
    BY <2>1, <2>2
<1>4. pendings' \in [Apis -> 0..Cardinality(Jobs)]
  <2>1. pendings \in [Apis -> 0..Cardinality(Jobs)]
    BY DEF JobInv, TypeOK
  <2>2. pendings' = [b \in Apis |-> pendings'[b]]
    BY <2>1
  <2> QED
    BY <1>3, <2>2
<1>5. PendingsMatch'
  BY <1>3 DEF PendingsMatch, PendingJobs
<1> QED
  BY <1>4, <1>5

LEMMA JobReturnStep == ASSUME JobInv, NEW e \in Engines, JobReturn(e) PROVE JobInv'
<1>0. PICK j, a : j = ctx[e].job /\ a = ctx[e].api
  OBVIOUS
<1> DEFINE z == a \in Apis /\ pendings[a] - 1 = 0
           n == Msg("SVC_TIMER_DONE", j, Master, ctx[e].nth, ctx[e].ok)
<1>1. /\ ctx[e].in = "job" /\ ctx' = [ctx EXCEPT ![e] = Idle]
      /\ msgs' = msgs \cup {n}
      /\ UNCHANGED <<job, timer, fires, entity, released, engine, stopping, bad>>
  BY <1>0 DEF JobReturn
<1>2. /\ engine[e] = "run" /\ Running /\ j \in Jobs /\ Created(j) /\ JobOK(j) /\ CtxOK(e)
      /\ a = job[j].api /\ a \in Apis \cup {None} /\ None \notin Apis /\ entity[j] = "active"
      /\ ctx[e].nth \in 0..MaxFires /\ ctx[e].ok \in BOOLEAN /\ Master \in Engines
  BY <1>0, <1>1, Types, EnginesAssumption DEF JobInv, CtxOK, CtxSet, Running, Engines
<1>3. /\ a \in Apis => OneShot(j)
      /\ OneShot(j) => /\ timer[j] = "gone" /\ \A m \in msgs : m.job # j
                       /\ \A f \in Engines : ctx[f].job = j => f = e
  BY <1>0, <1>1, <1>2 DEF JobInv, CtxOK, JobOK, Created, Single
<1>4. n \in MsgSet /\ n.pto = "SVC_TIMER_DONE" /\ n.job = j
  BY <1>2 DEF Msg, MsgSet, Ptos
<1>5. a \in Apis => /\ api[a] = "wait" /\ completed[a] = 0
                    /\ \A f \in Engines : f # e => ctx[f].api # a
  <2> SUFFICES ASSUME a \in Apis
               PROVE  /\ api[a] = "wait" /\ completed[a] = 0
                      /\ \A f \in Engines : f # e => ctx[f].api # a
    OBVIOUS
  <2>1. \A f \in Engines : f # e => ctx[f].api # a
    BY <1>0 DEF JobInv, SameEngine
  <2>2. api[a] # "done" /\ api[a] # "idle"
    BY <1>0, <1>2 DEF JobInv, ApiOK
  <2>3. api[a] # "run"
    BY <1>1, <2>1 DEF JobInv, ApiOK
  <2>4. api[a] \in {"idle", "run", "wait", "done"}
    BY DEF JobInv, TypeOK
  <2> QED
    BY <2>1, <2>2, <2>3, <2>4 DEF JobInv, ApiOK
<1>6. /\ pendings' = IF a \in Apis THEN [pendings EXCEPT ![a] = pendings[a] - 1] ELSE pendings
      /\ api' = IF z THEN [api EXCEPT ![a] = "done"] ELSE api
      /\ completed' = IF z THEN [completed EXCEPT ![a] = Plus(@)] ELSE completed
  BY <1>0, <1>2 DEF JobReturn, Complete
<1> HIDE DEF n
<1>7. /\ \A f \in Engines : ctx'[f] = IF f = e THEN Idle ELSE ctx[f]
      /\ ctx' \in [Engines -> CtxSet]
  BY <1>1, Records DEF JobInv, TypeOK
<1>8. /\ \A b \in Apis : api'[b] = IF z /\ b = a THEN "done" ELSE api[b]
      /\ api' \in [Apis -> {"idle", "run", "wait", "done"}]
      /\ \A b \in Apis : completed'[b] = IF z /\ b = a THEN 1 ELSE completed[b]
      /\ completed' \in [Apis -> 0..2]
  BY <1>5, <1>6 DEF JobInv, TypeOK, Plus
<1>9. \A k \in Jobs : k # j => (Outstanding(k)' <=> Outstanding(k))
  BY <1>0, <1>1, <1>4, <1>7, Records, EnginesAssumption DEF Outstanding
<1>10. a \in Apis => Outstanding(j) /\ ~Outstanding(j)'
  <2>1. Outstanding(j)
    BY <1>0 DEF Outstanding
  <2>2. OneShot(j) => ~Outstanding(j)'
    BY <1>1, <1>2, <1>3, <1>4, <1>7, Records, EnginesAssumption DEF Outstanding
  <2> QED
    BY <1>3, <2>1, <2>2
<1> HIDE DEF z
<1>11. PendingsMatch' /\ pendings' \in [Apis -> 0..Cardinality(Jobs)]
  BY <1>1, <1>2, <1>6, <1>9, <1>10, ReturnCounts
<1>12. TypeOK'
  BY <1>1, <1>4, <1>7, <1>8, <1>11 DEF JobInv, TypeOK
<1>13. Single'
  <2>0. Idle.job \notin Jobs /\ \A m \in msgs : m.job \in Jobs
    BY Records, EnginesAssumption, Types DEF JobInv
  <2>1. \A f \in Engines : ctx'[f].job \in Jobs => f # e /\ ctx'[f].job = ctx[f].job
    BY <1>7, <2>0
  <2>2. \A m, o \in msgs' : m.job = o.job /\ OneShot(m.job) => m = o
    BY <1>1, <1>3, <1>4 DEF JobInv, Single
  <2>3. \A m \in msgs', f \in Engines : ctx'[f].job = m.job => ~OneShot(m.job)
    BY <1>1, <1>2, <1>3, <1>4, <2>0, <2>1 DEF JobInv, Single
  <2>4. \A f, g \in Engines :
          ctx'[f].job \in Jobs /\ ctx'[f].job = ctx'[g].job /\ OneShot(ctx'[f].job) => f = g
    BY <2>1 DEF JobInv, Single
  <2> QED
    BY <1>1, <2>2, <2>3, <2>4 DEF Single, OneShot
<1>14. SameEngine'
  BY <1>1, <1>2, <1>7, Records DEF JobInv, SameEngine
<1>15. \A k \in Jobs : JobOK(k)'
  BY <1>1 DEF JobInv, JobOK, Created, OneShot
<1>16. ASSUME NEW m \in msgs' PROVE MsgOK(m)'
  <2>1. CASE m = n
    <3>1. fires[j] # 0
      BY <1>0, <1>1, <1>2 DEF CtxOK
    <3> QED
      BY <1>1, <1>2, <1>3, <1>4, <2>1, <3>1 DEF MsgOK, Created, OneShot, Running
  <2>2. CASE m \in msgs
    BY <1>1, <2>2 DEF JobInv, MsgOK, Created, OneShot, Running
  <2> QED
    BY <1>1, <2>1, <2>2
<1>17. ASSUME NEW f \in Engines PROVE CtxOK(f)'
  <2>1. CASE f = e
    BY <1>7, <2>1, Records DEF CtxOK
  <2>2. CASE f # e
    <3>1. CtxOK(f) /\ ctx'[f] = ctx[f] /\ (ctx[f].api \in Apis => api'[ctx[f].api] = api[ctx[f].api])
      BY <1>5, <1>7, <1>8, <2>2 DEF JobInv
    <3> QED
      BY <1>1, <3>1 DEF CtxOK, Created, OneShot
  <2> QED
    BY <2>1, <2>2
<1>18. \A f \in Engines : EngineOK(f)'
  BY <1>1 DEF JobInv, EngineOK, Running
<1>19. \A x \in Crons : CronOK(x)'
  BY <1>1 DEF JobInv, CronOK
<1>20. ASSUME NEW b \in Apis PROVE ApiOK(b)'
  <2>0. ApiOK(b) /\ job' = job
    BY <1>1 DEF JobInv
  <2>1. CASE b = a
    <3>1. pendings'[a] = pendings[a] - 1
      BY <1>6, <2>1 DEF JobInv, TypeOK
    <3> QED
      BY <1>2, <1>5, <1>7, <1>8, <2>0, <2>1, <3>1, Records DEF ApiOK, z
  <2>2. CASE b # a
    <3>1. pendings'[b] = pendings[b]
      BY <1>6, <2>2 DEF JobInv, TypeOK
    <3> QED
      BY <1>1, <1>2, <1>7, <1>8, <2>0, <2>2, <3>1, Records DEF ApiOK
  <2> QED
    BY <2>1, <2>2
<1> QED
  BY <1>1, <1>11, <1>12, <1>13, <1>14, <1>15, <1>16, <1>17, <1>18, <1>19, <1>20 DEF JobInv

------------------------------------------------------------------------------
(* The entity of a job that has come home dies, or is told to.             *)
LEMMA MgrStep ==
  ASSUME JobInv, NEW m, NEW N, Replaces(m, N), Running,
         m.pto \in {"SVC_TIMER_DONE", "ENTITY_DESTROY"},
         \A n \in N : n.pto = "ENTITY_DESTROY" /\ OneShot(m.job),
         UNCHANGED <<timer, released>>, bad' = {},
         \/ entity' = entity
         \/ OneShot(m.job) /\ N = {} /\ entity' = [entity EXCEPT ![m.job] = "dead"]
  PROVE  JobInv'
<1>0. /\ m \in msgs /\ msgs' = (msgs \ {m}) \cup N /\ \A n \in N : n.job = m.job
      /\ UNCHANGED <<job, fires, ctx, api, pendings, completed, engine, stopping>>
  BY DEF Replaces
<1>1. /\ m.job \in Jobs /\ MsgOK(m) /\ m.job \notin Crons
      /\ OneShot(m.job) => /\ \A x \in msgs : x.job = m.job => x = m
                           /\ \A f \in Engines : ctx[f].job # m.job
  BY ReplacesKeeps, SetsAssumption
<1>2. /\ Created(m.job) /\ entity[m.job] = "active"
      /\ OneShot(m.job) => timer[m.job] = "gone"
  BY <1>1 DEF MsgOK
<1>3. /\ entity' \in [Jobs \cup Crons -> {"none", "active", "dead", "freed"}]
      /\ \A k \in Jobs \cup Crons :
           entity'[k] = entity[k] \/ (k = m.job /\ OneShot(k) /\ N = {} /\ entity'[k] = "dead")
  BY <1>1 DEF JobInv, TypeOK
<1>4. TypeOK'
  BY <1>0, <1>3, ReplacesKeeps DEF JobInv, TypeOK
<1>5. PendingsMatch'
  <2>1. \A k \in Jobs : Outstanding(k)' <=> Outstanding(k)
    BY <1>0 DEF Outstanding
  <2> QED
    BY <1>0, <2>1, PendingsSame DEF JobInv
<1>6. ASSUME NEW k \in Jobs PROVE JobOK(k)'
  <2>1. CASE entity'[k] = entity[k]
    BY <1>0, <2>1 DEF JobInv, JobOK, Created, OneShot
  <2>2. CASE k = m.job /\ OneShot(k) /\ entity'[k] = "dead"
    <3>1. JobOK(k)
      BY DEF JobInv
    <3> QED
      BY <1>0, <1>2, <2>2, <3>1 DEF JobOK, Created, OneShot
  <2> QED
    BY <1>3, <2>1, <2>2
<1>7. ASSUME NEW x \in msgs' PROVE MsgOK(x)'
  <2>1. CASE x \in N
    BY <1>0, <1>1, <1>2, <1>3, <2>1 DEF MsgOK, Created, OneShot, Running
  <2>2. CASE x \in msgs /\ x # m
    <3>1. x.job \in Jobs /\ MsgOK(x) /\ (OneShot(m.job) => x.job # m.job)
      BY <1>1, <2>2, Types DEF JobInv
    <3>2. entity'[x.job] = entity[x.job]
      BY <1>3, <3>1
    <3> QED
      BY <1>0, <3>1, <3>2 DEF MsgOK, Created, OneShot, Running
  <2> QED
    BY <1>0, <2>1, <2>2
<1>8. ASSUME NEW f \in Engines PROVE CtxOK(f)'
  <2>1. ctx[f].in = "job" => entity'[ctx[f].job] = entity[ctx[f].job]
    BY <1>1, <1>3 DEF JobInv, CtxOK
  <2> QED
    BY <1>0, <2>1 DEF JobInv, CtxOK, Created, OneShot
<1>9. \A x \in Crons : CronOK(x)'
  BY <1>0, <1>1, <1>3 DEF JobInv, CronOK
<1> QED
  BY <1>4, <1>5, <1>6, <1>7, <1>8, <1>9, ReplacesKeeps DEF JobInv

LEMMA TimerDoneStep == ASSUME JobInv, NEW m, TimerDone(m) PROVE JobInv'
<1> DEFINE j == m.job
           n == Msg("ENTITY_DESTROY", j, job[j].home, m.nth, TRUE)
           N == IF OneShot(j) /\ job[j].home # Master /\ entity[j] = "active" THEN {n} ELSE {}
<1>1. /\ m \in msgs /\ m.pto = "SVC_TIMER_DONE" /\ Master \in Engines /\ engine[Master] = "run"
      /\ entity' = IF OneShot(j) /\ job[j].home = Master THEN MgrDel(j) ELSE entity
      /\ msgs' = (msgs \ {m}) \cup N
      /\ UNCHANGED <<job, timer, fires, released, ctx, api, pendings, completed,
                     engine, stopping>>
  BY DEF TimerDone, Free, DestroysEntity, Engines
<1>2. /\ Running /\ j \in Jobs /\ MsgOK(m) /\ JobOK(j) /\ m.nth \in 0..MaxFires
  BY <1>1, Types DEF JobInv, Running
<1>3. entity[j] = "active" /\ job[j].home \in Engines
  BY <1>2 DEF MsgOK, JobOK
<1>4. bad' = {}
  BY <1>3 DEF TimerDone, JobInv
<1>5. n \in MsgSet /\ n.pto = "ENTITY_DESTROY" /\ n.job = j
  <2> HIDE DEF j
  <2> QED
    BY <1>2, <1>3 DEF Msg, MsgSet, Ptos
<1>6. Replaces(m, N)
  <2> HIDE DEF n
  <2> QED
    BY <1>1, <1>5 DEF Replaces
<1>7. \A x \in N : x.pto = "ENTITY_DESTROY" /\ OneShot(m.job)
  <2> HIDE DEF n
  <2> QED
    BY <1>5
<1>8. \/ entity' = entity
      \/ OneShot(m.job) /\ N = {} /\ entity' = [entity EXCEPT ![m.job] = "dead"]
  <2> HIDE DEF n
  <2> QED
    BY <1>1, <1>3 DEF MgrDel
<1> HIDE DEF N, n, j
<1> QED
  BY <1>1, <1>2, <1>4, <1>6, <1>7, <1>8, MgrStep

LEMMA EntityDestroyStep == ASSUME JobInv, NEW m, EntityDestroy(m) PROVE JobInv'
<1>1. /\ m \in msgs /\ m.pto = "ENTITY_DESTROY" /\ engine[m.at] = "run"
      /\ entity' = MgrDel(m.job) /\ msgs' = msgs \ {m}
      /\ UNCHANGED <<job, timer, fires, released, ctx, api, pendings, completed,
                     engine, stopping>>
  BY DEF EntityDestroy, Free
<1>2. /\ Running /\ m.job \in Jobs /\ MsgOK(m)
  BY <1>1, Types DEF JobInv, Running
<1>3. entity[m.job] = "active" /\ OneShot(m.job)
  BY <1>1, <1>2 DEF MsgOK
<1>4. bad' = {}
  BY <1>3 DEF EntityDestroy, JobInv
<1>5. Replaces(m, {})
  BY <1>1 DEF Replaces
<1>6. entity' = [entity EXCEPT ![m.job] = "dead"]
  BY <1>1, <1>3 DEF MgrDel
<1>7. PICK N : N = {}
  OBVIOUS
<1>8. /\ Replaces(m, N) /\ \A n \in N : n.pto = "ENTITY_DESTROY" /\ OneShot(m.job)
      /\ OneShot(m.job) /\ N = {} /\ entity' = [entity EXCEPT ![m.job] = "dead"]
  BY <1>3, <1>5, <1>6, <1>7
<1> QED
  BY <1>1, <1>2, <1>4, <1>8, MgrStep

------------------------------------------------------------------------------
(* The dead entities of engine e are freed, and the data of their jobs.    *)
LEMMA CleanDeadStep == ASSUME JobInv, NEW e \in Engines, CleanDead(e) PROVE JobInv'
<1>0. PICK S : S = Mine(e, {"dead"})
  OBVIOUS
<1>1. /\ engine[e] = "run" /\ Running
      /\ entity' = [j \in Jobs \cup Crons |-> IF j \in S THEN "freed" ELSE entity[j]]
      /\ released' = Release(S)
      /\ UNCHANGED <<job, timer, fires, msgs, ctx, api, pendings, completed, engine,
                     stopping, bad>>
  BY <1>0 DEF CleanDead, Free, FreeEntities, Running
<1>2. S \subseteq Jobs /\ \A j \in S : entity[j] = "dead" /\ j \notin Crons
  BY <1>0, SetsAssumption DEF Mine
<1>3. \A j \in S : Created(j) /\ released[j] = 0 /\ timer[j] # "live"
  BY <1>2 DEF JobInv, JobOK, Created
<1>4. \A j \in Jobs : released'[j] = IF j \in S THEN 1 ELSE released[j]
  BY <1>1, <1>3 DEF Release, Plus
<1>5. \A j \in Jobs \cup Crons : entity'[j] = IF j \in S THEN "freed" ELSE entity[j]
  BY <1>1
<1>6. TypeOK'
  <2>1. released' \in [Jobs -> 0..2]
    BY <1>1 DEF JobInv, TypeOK, Release, Plus
  <2>2. entity' \in [Jobs \cup Crons -> {"none", "active", "dead", "freed"}]
    BY <1>1 DEF JobInv, TypeOK
  <2> QED
    BY <1>1, <2>1, <2>2 DEF JobInv, TypeOK
<1>7. Single' /\ SameEngine'
  BY <1>1 DEF JobInv, Single, SameEngine, OneShot
<1>8. PendingsMatch'
  BY <1>1, OutstandingSame, PendingsSame DEF JobInv
<1>9. ASSUME NEW k \in Jobs PROVE JobOK(k)'
  <2>1. CASE k \in S
    <3>1. JobOK(k)
      BY DEF JobInv
    <3> QED
      BY <1>1, <1>2, <1>3, <1>4, <1>5, <2>1, <3>1 DEF JobOK, Created, OneShot
  <2>2. CASE k \notin S
    BY <1>1, <1>4, <1>5, <2>2 DEF JobInv, JobOK, Created, OneShot
  <2> QED
    BY <2>1, <2>2
<1>10. ASSUME NEW m \in msgs' PROVE MsgOK(m)'
  <2>1. m.job \in Jobs /\ MsgOK(m)
    BY <1>1, Types DEF JobInv
  <2>2. entity'[m.job] = entity[m.job]
    BY <1>1, <1>2, <1>5, <2>1 DEF MsgOK
  <2> QED
    BY <1>1, <2>1, <2>2 DEF MsgOK, Created, OneShot, Running
<1>11. ASSUME NEW f \in Engines PROVE CtxOK(f)'
  <2>1. ctx[f].in = "job" => entity'[ctx[f].job] = entity[ctx[f].job]
    BY <1>2, <1>5 DEF JobInv, CtxOK
  <2> QED
    BY <1>1, <2>1 DEF JobInv, CtxOK, Created, OneShot
<1>12. \A f \in Engines : EngineOK(f)'
  BY <1>1 DEF JobInv, EngineOK, Running
<1>13. \A x \in Crons : CronOK(x)'
  BY <1>1, <1>2, <1>5 DEF JobInv, CronOK
<1>14. \A a \in Apis : ApiOK(a)'
  BY <1>1 DEF JobInv, ApiOK
<1> QED
  BY <1>1, <1>6, <1>7, <1>8, <1>9, <1>10, <1>11, <1>12, <1>13, <1>14 DEF JobInv

LEMMA StopStep == ASSUME JobInv, Stop PROVE JobInv'
<1>1. /\ stopping' = TRUE
      /\ UNCHANGED <<job, timer, fires, entity, released, msgs, ctx, api, pendings,
                     completed, engine, bad>>
  BY DEF Stop
<1>2. TypeOK'
  BY <1>1 DEF JobInv, TypeOK
<1>3. Single' /\ SameEngine'
  BY <1>1 DEF JobInv, Single, SameEngine, OneShot
<1>4. PendingsMatch'
  BY <1>1, OutstandingSame, PendingsSame DEF JobInv
<1>5. \A j \in Jobs : JobOK(j)'
  BY <1>1 DEF JobInv, JobOK, Created, OneShot
<1>6. \A m \in msgs' : MsgOK(m)'
  BY <1>1 DEF JobInv, MsgOK, Created, OneShot, Running
<1>7. \A e \in Engines : CtxOK(e)'
  BY <1>1 DEF JobInv, CtxOK, Created, OneShot
<1>8. \A e \in Engines : EngineOK(e)'
  BY <1>1 DEF JobInv, EngineOK, Running
<1>9. \A c \in Crons : CronOK(c)'
  BY <1>1 DEF JobInv, CronOK
<1>10. \A a \in Apis : ApiOK(a)'
  BY <1>1 DEF JobInv, ApiOK
<1> QED
  BY <1>1, <1>2, <1>3, <1>4, <1>5, <1>6, <1>7, <1>8, <1>9, <1>10 DEF JobInv

LEMMA LeaveLoopStep == ASSUME JobInv, NEW e \in Engines, LeaveLoop(e) PROVE JobInv'
<1>1. /\ stopping /\ engine[e] = "run" /\ ctx[e].in = "none"
      /\ engine' = [engine EXCEPT ![e] = "left"]
      /\ UNCHANGED <<job, timer, fires, entity, released, msgs, ctx, api,
                     pendings, completed, stopping, bad>>
  BY DEF LeaveLoop, Free
<1>2. \A f \in Engines : engine'[f] = IF f = e THEN "left" ELSE engine[f]
  BY <1>1 DEF JobInv, TypeOK
<1>3. Running' => Running
  BY <1>2 DEF Running
<1>4. TypeOK'
  BY <1>1 DEF JobInv, TypeOK
<1>5. Single' /\ SameEngine'
  BY <1>1 DEF JobInv, Single, SameEngine, OneShot
<1>6. PendingsMatch'
  BY <1>1, <1>2, OutstandingSame, PendingsSame DEF JobInv
<1>7. ASSUME NEW j \in Jobs PROVE JobOK(j)'
  <2>0. JobOK(j)
    BY DEF JobInv
  <2>1. Created(j) => /\ engine[job[j].home] \in {"run", "left"} => engine'[job[j].home] \in {"run", "left"}
                      /\ engine[job[j].home] # "gone" => engine'[job[j].home] # "gone"
    BY <1>2, <2>0 DEF JobOK
  <2> QED
    BY <1>1, <2>0, <2>1 DEF JobOK, Created, OneShot
<1>8. \A m \in msgs' : MsgOK(m)'
  BY <1>1, <1>3 DEF JobInv, MsgOK, Created, OneShot
<1>9. \A f \in Engines : CtxOK(f)'
  BY <1>1, <1>2 DEF JobInv, CtxOK, Created, OneShot
<1>10. \A f \in Engines : EngineOK(f)'
  BY <1>1, <1>2, <1>3 DEF JobInv, EngineOK
<1>11. \A c \in Crons : CronOK(c)'
  <2>1. Master \in Engines
    BY DEF Engines
  <2> QED
    BY <1>1, <1>2, <2>1 DEF JobInv, CronOK
<1>12. \A a \in Apis : ApiOK(a)'
  BY <1>1 DEF JobInv, ApiOK
<1> QED
  BY <1>1, <1>4, <1>5, <1>6, <1>7, <1>8, <1>9, <1>10, <1>11, <1>12 DEF JobInv

------------------------------------------------------------------------------
(* Once all engines have left their loops no user code runs.               *)
LEMMA AllQuiet ==
  ASSUME JobInv, AllLeft
  PROVE  ~Running /\ \A f \in Engines : ctx[f].in = "none" /\ ctx[f].job = None
BY DEF JobInv, CtxOK, AllLeft, Running

LEMMA DestroyTimersStep == ASSUME JobInv, NEW e \in Engines, DestroyTimers(e) PROVE JobInv'
<1>0. PICK S : S = {j \in Jobs \cup Crons : timer[j] = "live" /\ Home(j) = e}
  OBVIOUS
<1>1. /\ AllLeft /\ engine[e] = "left"
      /\ msgs' = {m \in msgs : m.at # e}
      /\ timer' = [j \in Jobs \cup Crons |-> IF j \in S THEN "gone" ELSE timer[j]]
      /\ bad' = bad \cup UNION {JobdataFault(j) : j \in S}
      /\ entity' = [j \in Jobs \cup Crons |-> IF j \in S \cap Crons THEN "freed" ELSE entity[j]]
      /\ engine' = [engine EXCEPT ![e] = "notimers"]
      /\ UNCHANGED <<job, fires, released, ctx, api, pendings, completed, stopping>>
  BY <1>0 DEF DestroyTimers, Turn
<1>2. /\ \A j \in Jobs : j \notin Crons
      /\ \A j \in Jobs : j \in S <=> timer[j] = "live" /\ job[j].home = e
      /\ \A c \in Crons : c \in S <=> timer[c] = "live" /\ e = Master
  BY <1>0, SetsAssumption DEF Home
<1>3. bad' = {}
  <2>1. \A j \in S : JobdataFault(j) = {}
    BY <1>0, <1>2 DEF JobInv, JobOK, JobdataFault
  <2> QED
    BY <1>1, <2>1 DEF JobInv
<1>4. /\ \A f \in Engines : engine'[f] = IF f = e THEN "notimers" ELSE engine[f]
      /\ \A j \in Jobs \cup Crons : timer'[j] = IF j \in S THEN "gone" ELSE timer[j]
      /\ \A j \in Jobs : entity'[j] = entity[j]
      /\ \A c \in Crons : entity'[c] = IF c \in S THEN "freed" ELSE entity[c]
  BY <1>1, <1>2 DEF JobInv, TypeOK
<1>5. ~Running /\ \A f \in Engines : ctx[f].in = "none" /\ ctx[f].job = None
  BY <1>1, AllQuiet
<1>6. ~Running'
  BY <1>4, <1>5 DEF Running
<1>7. TypeOK'
  BY <1>1, <1>3 DEF JobInv, TypeOK
<1>8. Single' /\ SameEngine'
  BY <1>1 DEF JobInv, Single, SameEngine, OneShot
<1>9. PendingsMatch'
  BY <1>4 DEF PendingsMatch
<1>10. ASSUME NEW j \in Jobs PROVE JobOK(j)'
  <2>0. JobOK(j) /\ (j \in S => timer[j] = "live" /\ job[j].home = e)
    BY <1>2 DEF JobInv
  <2>1. timer[j] = "live" => Created(j)
    BY <2>0 DEF JobOK
  <2>2. timer'[j] = "live" => /\ timer[j] = "live" /\ job[j].home # e
                              /\ engine'[job[j].home] = engine[job[j].home]
    <3>1. job[j].home \in Engines \/ ~Created(j)
      BY <2>0 DEF JobOK
    <3> QED
      BY <1>2, <1>4, <2>1, <3>1
  <2>3. entity[j] # "none" /\ engine'[job[j].home] = "gone" => engine[job[j].home] = "gone"
    BY <1>4, <2>0 DEF JobOK
  <2>4. timer'[j] = "none" <=> timer[j] = "none"
    BY <1>4, <2>0
  <2> QED
    BY <1>1, <1>4, <2>0, <2>1, <2>2, <2>3, <2>4 DEF JobOK, Created, OneShot
<1>11. ASSUME NEW m \in msgs' PROVE MsgOK(m)'
  <2>1. m.job \in Jobs /\ MsgOK(m) /\ m.at # e
    BY <1>1, Types DEF JobInv
  <2>2. timer[m.job] = "gone" => timer'[m.job] = "gone"
    BY <1>4, <2>1
  <2>3. m.pto = "TIMER_TRIGGERED" => timer'[m.job] = "live"
    BY <1>2, <1>4, <2>1 DEF MsgOK
  <2> QED
    BY <1>1, <1>6, <2>1, <2>2, <2>3 DEF MsgOK, Created, OneShot
<1>12. \A f \in Engines : CtxOK(f)'
  BY <1>1, <1>5 DEF JobInv, CtxOK
<1>13. \A f \in Engines : EngineOK(f)'
  BY <1>1, <1>4, <1>6 DEF JobInv, EngineOK
<1>14. \A c \in Crons : CronOK(c)'
  <2>1. Master \in Engines
    BY DEF Engines
  <2>2. \A c \in Crons : CronOK(c)
    BY DEF JobInv
  <2> QED
    BY <1>2, <1>4, <2>1, <2>2 DEF CronOK
<1>15. \A a \in Apis : ApiOK(a)'
  BY <1>1 DEF JobInv, ApiOK
<1> QED
  BY <1>3, <1>7, <1>8, <1>9, <1>10, <1>11, <1>12, <1>13, <1>14, <1>15 DEF JobInv

LEMMA DestroyEntitiesStep == ASSUME JobInv, NEW e \in Engines, DestroyEntities(e) PROVE JobInv'
<1>0. PICK S : S = Mine(e, {"active", "dead"})
  OBVIOUS
<1>1. /\ AllLeft /\ engine[e] = "notimers"
      /\ entity' = [j \in Jobs \cup Crons |-> IF j \in S THEN "freed" ELSE entity[j]]
      /\ released' = Release(S)
      /\ engine' = [engine EXCEPT ![e] = "gone"]
      /\ UNCHANGED <<job, timer, fires, msgs, ctx, api, pendings, completed, stopping, bad>>
  BY <1>0 DEF DestroyEntities, FreeEntities, Turn
<1>2. /\ S \subseteq Jobs /\ \A j \in S : j \notin Crons
      /\ \A j \in Jobs : j \in S <=> job[j].home = e /\ entity[j] \in {"active", "dead"}
  BY <1>0, SetsAssumption DEF Mine
<1>3. \A j \in S : Created(j) /\ released[j] = 0 /\ timer[j] # "live"
  BY <1>1, <1>2 DEF JobInv, JobOK, Created
<1>4. /\ \A j \in Jobs : released'[j] = IF j \in S THEN 1 ELSE released[j]
      /\ \A j \in Jobs \cup Crons : entity'[j] = IF j \in S THEN "freed" ELSE entity[j]
      /\ \A f \in Engines : engine'[f] = IF f = e THEN "gone" ELSE engine[f]
  BY <1>1, <1>3 DEF Release, Plus, JobInv, TypeOK
<1>5. ~Running /\ \A f \in Engines : ctx[f].in = "none" /\ ctx[f].job = None
  BY <1>1, AllQuiet
<1>6. ~Running'
  BY <1>4, <1>5 DEF Running
<1>7. TypeOK'
  <2>1. released' \in [Jobs -> 0..2]
    BY <1>1 DEF JobInv, TypeOK, Release, Plus
  <2>2. entity' \in [Jobs \cup Crons -> {"none", "active", "dead", "freed"}]
    BY <1>1 DEF JobInv, TypeOK
  <2>3. engine' \in [Engines -> {"run", "left", "notimers", "gone"}]
    BY <1>1 DEF JobInv, TypeOK
  <2> QED
    BY <1>1, <2>1, <2>2, <2>3 DEF JobInv, TypeOK
<1>8. Single' /\ SameEngine'
  BY <1>1 DEF JobInv, Single, SameEngine, OneShot
<1>9. PendingsMatch'
  BY <1>4 DEF PendingsMatch
<1>10. ASSUME NEW j \in Jobs PROVE JobOK(j)'
  <2>0. JobOK(j) /\ (Created(j) => job[j].home \in Engines)
    BY DEF JobInv, JobOK
  <2>1. CASE j \in S
    BY <1>1, <1>3, <1>4, <2>0, <2>1 DEF JobOK, Created, OneShot
  <2>2. CASE j \notin S
    <3>1. /\ entity'[j] = entity[j] /\ released'[j] = released[j]
          /\ entity[j] \in {"active", "dead"} => job[j].home # e
      BY <1>2, <1>4, <2>2
    <3>2. entity[j] \in {"active", "dead"} => engine'[job[j].home] = engine[job[j].home]
      BY <1>4, <2>0, <3>1 DEF JobOK
    <3> QED
      BY <1>1, <2>0, <3>1, <3>2 DEF JobOK, Created, OneShot
  <2> QED
    BY <2>1, <2>2
<1>11. \A m \in msgs' : MsgOK(m)'
  BY <1>1, <1>6 DEF JobInv, MsgOK, Created, OneShot
<1>12. \A f \in Engines : CtxOK(f)'
  BY <1>1, <1>5 DEF JobInv, CtxOK
<1>13. \A f \in Engines : EngineOK(f)'
  BY <1>1, <1>4, <1>6 DEF JobInv, EngineOK
<1>14. \A c \in Crons : CronOK(c)'
  BY <1>1, <1>2, <1>4 DEF JobInv, CronOK
<1>15. \A a \in Apis : ApiOK(a)'
  BY <1>1 DEF JobInv, ApiOK
<1> QED
  BY <1>1, <1>7, <1>8, <1>9, <1>10, <1>11, <1>12, <1>13, <1>14, <1>15 DEF JobInv

------------------------------------------------------------------------------
LEMMA InitInv == ASSUME Init PROVE JobInv
<1> DEFINE c == [Idle EXCEPT !.in = "init"]
<1>0. c \in CtxSet /\ c.in = "init" /\ c.job = None /\ c.api = None
  BY Records DEF CtxSet
<1> HIDE DEF c
<1>1. /\ \A j \in Jobs : /\ job[j] = NoJob /\ timer[j] = "none" /\ entity[j] = "none"
                         /\ released[j] = 0 /\ fires[j] = 0
      /\ \A x \in Crons : timer[x] = "live" /\ entity[x] = "active"
      /\ \A e \in Engines : ctx[e] = (IF e = Master THEN c ELSE Idle) /\ engine[e] = "run"
      /\ \A a \in Apis : api[a] = "idle" /\ pendings[a] = 0 /\ completed[a] = 0
      /\ msgs = {} /\ bad = {} /\ stopping = FALSE
  BY SetsAssumption DEF Init, c
<1>2. Master \in Engines /\ Running
  BY <1>1 DEF Engines, Running
<1>3. \A e \in Engines : ctx[e].job = None /\ ctx[e].api = None /\ ctx[e].in \in {"none", "init"}
  BY <1>0, <1>1, Records
<1>4. \A j \in Jobs : ~Outstanding(j) /\ ~Created(j)
  BY <1>1, <1>3, EnginesAssumption, Records DEF Outstanding, Created
<1>5. TypeOK
  <2>1. Cardinality(Jobs) \in Nat
    BY SetsAssumption, FS_CardinalityType
  <2>2. /\ job \in [Jobs -> JobSet] /\ fires \in [Jobs -> 0..MaxFires]
        /\ released \in [Jobs -> 0..2] /\ msgs \subseteq MsgSet
    BY Records, BoundsAssumption DEF Init
  <2>3. ctx \in [Engines -> CtxSet]
    BY <1>0, Records DEF Init, c
  <2>4. /\ timer \in [Jobs \cup Crons -> {"none", "live", "gone"}]
        /\ entity \in [Jobs \cup Crons -> {"none", "active", "dead", "freed"}]
        /\ engine \in [Engines -> {"run", "left", "notimers", "gone"}]
        /\ stopping \in BOOLEAN /\ bad = {}
    BY DEF Init
  <2>5. /\ api \in [Apis -> {"idle", "run", "wait", "done"}]
        /\ pendings \in [Apis -> 0..Cardinality(Jobs)]
        /\ completed \in [Apis -> 0..2]
    BY <2>1 DEF Init
  <2> QED
    BY <2>2, <2>3, <2>4, <2>5 DEF TypeOK
<1>6. Single /\ SameEngine
  BY <1>1, <1>3, EnginesAssumption, Records DEF Single, SameEngine
<1>7. PendingsMatch
  <2> SUFFICES ASSUME NEW a \in Apis
               PROVE  pendings[a] = Cardinality({j \in Jobs : job[j].api = a /\ Outstanding(j)})
    BY DEF PendingsMatch
  <2>1. {j \in Jobs : job[j].api = a /\ Outstanding(j)} = {}
    BY <1>4
  <2> QED
    BY <1>1, <2>1, FS_EmptySet
<1>8. \A j \in Jobs : JobOK(j)
  BY <1>1, <1>4, Records DEF JobOK
<1>9. \A e \in Engines : CtxOK(e) /\ EngineOK(e)
  BY <1>1, <1>3 DEF CtxOK, EngineOK
<1>10. \A x \in Crons : CronOK(x)
  BY <1>1, <1>2 DEF CronOK
<1>11. \A a \in Apis : ApiOK(a)
  BY <1>1, Records, EnginesAssumption DEF ApiOK
<1> QED
  BY <1>1, <1>5, <1>6, <1>7, <1>8, <1>9, <1>10, <1>11 DEF JobInv

LEMMA StutterStep == ASSUME JobInv, UNCHANGED vars PROVE JobInv'
<1>1. UNCHANGED <<job, timer, fires, entity, released, msgs, ctx, api, pendings,
                  completed, engine, stopping, bad>>
  BY DEF vars
<1>2. TypeOK'
  BY <1>1 DEF JobInv, TypeOK
<1>3. Single' /\ SameEngine'
  BY <1>1 DEF JobInv, Single, SameEngine, OneShot
<1>4. PendingsMatch'
  BY <1>1, OutstandingSame, PendingsSame DEF JobInv
<1>5. \A j \in Jobs : JobOK(j)'
  BY <1>1 DEF JobInv, JobOK, Created, OneShot
<1>6. \A m \in msgs' : MsgOK(m)'
  BY <1>1 DEF JobInv, MsgOK, Created, OneShot, Running
<1>7. \A e \in Engines : CtxOK(e)'
  BY <1>1 DEF JobInv, CtxOK, Created, OneShot
<1>8. \A e \in Engines : EngineOK(e)'
  BY <1>1 DEF JobInv, EngineOK, Running
<1>9. \A c \in Crons : CronOK(c)'
  BY <1>1 DEF JobInv, CronOK
<1>10. \A a \in Apis : ApiOK(a)'
  BY <1>1 DEF JobInv, ApiOK
<1> QED
  BY <1>1, <1>2, <1>3, <1>4, <1>5, <1>6, <1>7, <1>8, <1>9, <1>10 DEF JobInv

LEMMA NextInv == ASSUME JobInv, [Next]_vars PROVE JobInv'
<1>1. CASE UNCHANGED vars \/ Ended
  BY <1>1, StutterStep DEF Ended
<1>2. CASE Submit \/ Stop
  BY <1>2, SubmitStep, StopStep
<1>3. CASE Destroy
  BY <1>3, DestroyTimersStep, DestroyEntitiesStep DEF Destroy
<1>4. ASSUME NEW e \in Engines, Thread(e) PROVE JobInv'
  <2>1. CASE UserReturns(e)
    BY <2>1, InitReturnStep, ApiReturnStep, JobReturnStep DEF UserReturns
  <2>2. CASE Handle(e)
    BY <2>2, TimerTriggeredStep, TimerEmitStep, TimerRunStep, TimerDoneStep,
       EntityDestroyStep DEF Handle
  <2>3. CASE CleanDead(e) \/ LeaveLoop(e)
    BY <2>3, CleanDeadStep, LeaveLoopStep
  <2> QED
    BY <1>4, <2>1, <2>2, <2>3 DEF Thread
<1>5. ASSUME NEW e \in Engines, NEW a \in Apis, ApiRun(e, a) PROVE JobInv'
  BY <1>5, ApiRunStep
<1>6. ASSUME NEW j \in Jobs, Fire(j) PROVE JobInv'
  BY <1>6, FireStep
<1> QED
  BY <1>1, <1>2, <1>3, <1>4, <1>5, <1>6 DEF Next

(* What JobInv says about the properties.                                  *)
LEMMA JobInvMeans == ASSUME JobInv PROVE IInv /\ ApiWaitsForJobs
<1>1. ASSUME NEW j \in Jobs
      PROVE  /\ released[j] <= 1
             /\ released[j] = 1 => job[j].kind = "refused" \/ entity[j] = "freed"
  BY DEF JobInv, JobOK
<1>2. ASSUME NEW j \in Jobs, released[j] = 1, ~stopping
      PROVE  ~Outstanding(j)
  <2>1. Running
    BY <1>2 DEF JobInv, EngineOK, Running, Engines
  <2>2. timer[j] # "live" /\ (entity[j] # "active" \/ ~Created(j))
    BY <1>1, <1>2 DEF JobInv, JobOK, Created
  <2>3. \A m \in msgs : m.job # j
    BY <2>1, <2>2 DEF JobInv, MsgOK
  <2>4. \A e \in Engines : ctx[e].job # j
    BY <2>2, EnginesAssumption DEF JobInv, CtxOK
  <2> QED
    BY <2>2, <2>3, <2>4 DEF Outstanding
<1>3. ASSUME \A e \in Engines : engine[e] = "gone"
      PROVE  /\ \A j \in Jobs : job[j] # NoJob => released[j] = 1
             /\ \A j \in Jobs \cup Crons : timer[j] # "live" /\ entity[j] \in {"none", "freed"}
  <2>1. \A j \in Jobs : timer[j] # "live" /\ entity[j] \in {"none", "freed"}
    BY <1>3 DEF JobInv, JobOK, TypeOK
  <2>2. ASSUME NEW j \in Jobs, job[j] # NoJob
        PROVE  released[j] = 1
    <3>1. job[j].kind \in {"refused", "pending", "np"}
      BY <2>2, Types DEF JobInv, JobOK, JobSet
    <3> QED
      BY <2>1, <3>1 DEF JobInv, JobOK, Created
  <2>3. \A c \in Crons : timer[c] # "live" /\ entity[c] \in {"none", "freed"}
    <3>1. engine[Master] = "gone"
      BY <1>3 DEF Engines
    <3> QED
      BY <3>1 DEF JobInv, CronOK
  <2> QED
    BY <2>1, <2>2, <2>3
<1>4. ReleasedOnce
  BY <1>1, <1>2, <1>3 DEF ReleasedOnce
<1>5. ApiWaitsForJobs
  BY DEF JobInv, ApiOK, ApiWaitsForJobs
<1> QED
  BY <1>4, <1>5 DEF JobInv, IInv, NothingStale

------------------------------------------------------------------------------
(* The jobs of user-c/src/service.c, for any jobs, calls and engines and a *)
(* stop at any moment: no handler touches a timer, entity, data or call    *)
(* that is gone, the data of a job is released once, never while the job   *)
(* may run, and always by the end, and pendings counts what a call waits   *)
(* for.                                                                    *)
THEOREM Invariance == Spec => []IInv
<1>1. Init => JobInv
  BY InitInv
<1>2. JobInv /\ [Next]_vars => JobInv'
  BY NextInv
<1>3. JobInv => IInv
  BY JobInvMeans
<1> QED
  BY <1>1, <1>2, <1>3, PTL DEF Spec

(* sk_service_api_complete reports a call once, and not before the last of *)
(* its pending jobs has run.                                               *)
THEOREM CallsWait == Spec => []ApiWaitsForJobs
<1>1. Init => JobInv
  BY InitInv
<1>2. JobInv /\ [Next]_vars => JobInv'
  BY NextInv
<1>3. JobInv => ApiWaitsForJobs
  BY JobInvMeans
<1> QED
  BY <1>1, <1>2, <1>3, PTL DEF Spec
=============================================================================
