# A TLA+ verification of skull

skull is a serving framework: it accepts connections and datagrams, cuts their
data into transactions, runs each transaction through the modules of a workflow
and lets the modules call services. It is a C program of one process with a few
threads ("engines") that talk to each other only through queues of events, plus
language bindings. This directory holds TLA+ models of its concurrent core, of the
life of the process around it and of the layers above it that user code calls,
the TLC runs that check them on small instances, and proofs checked by TLAPS. Paths
below are relative to the repository; `PROJECT.json` has the line by line map.

## 1. Inventory

| Component | State | Operations | Talks to |
|---|---|---|---|
| scheduler, io bridges (`sk_sched.c`, `sk_io.c`, `sk_event.c`) | input and output queue per priority, bridge queue + eventfd per pair of linked engines, round robin index | `sk_sched_send`, `_deliver_one_io`, `_io_bridget_notify`, `_pull_and_run`, `_copy_event`, `sk_sched_start` | every protocol (`pto/*.c`) is an event it carries and runs |
| service queue (`sk_queue.c`) | one or two ring buffers, queue state | push, pull, setstate, in three modes | owned by the service |
| service (`sk_service.c`, `pto/sk_pto_service_*.c`, `pto/sk_pto_timer_emit.c`) | pending queue, running count, data access state | `sk_service_iocall`, push, schedule, setcomplete, api completion | workers and timers call; master schedules; target engine runs; caller's worker gets the callback |
| transaction and workflow (`sk_txn.c`, `pto/sk_pto_workflow_run.c`, `pto/sk_pto_service_task_cb.c`) | state, position in the workflow, three task counters | run next module, add and complete tasks, timeout, pack, destroy | its entity; services, through the master |
| entity, entity manager, drivers (`entities/*.c`, `sk_entity_mgr.c`, `drivers/*.c`) | status, half transaction, input queue, task count, list of dead entities | unpack, deliver, pack error, close, safe destroy, clean dead | event loop above, transactions below |
| timer service and jobs (`sk_timer_service.c`, `pto/sk_pto_timer_*.c`, `pto/sk_pto_service_timer_*.c`, `user-c/src/service.c`) | timer nodes with validity flags; per job a timer, an entity and the user's data | create, cancel, reset, trigger, destroy; create a pending or a free job, run it, repeat it, end it | services, endpoint pool, master, entity manager |
| endpoint pool (`sk_ep_pool.c`, `user-c/src/ep.c`) | per-connection and per-request state, timers | connect, send, receive, time out, shut down, recycle | services |
| monitor (`sk_mon.c`, the metrics part of `sk_admin.c`) | metric tables, ring of snapshots | inc, get, set, snapshot, reset; report current or last values | all engines, admin |
| memory statistics (`sk_malloc.c`) | atomic counters, a peak per scope | malloc, free, realloc hooks | everything |
| core lifecycle (`main.c`, `sk_core.c`, `sk_engine.c`) | core status, engines, tables of modules, services, drivers, workflows | init, start, stop by a signal, destroy | everything |
| configuration (`sk_config.c`, `scripts/bin/skull-config-utils.py`) | the file; the structure read from it | add workflow, module, service; load, delete | core, loaders |
| loaders (`sk_loader.c`, `sk_srv_loader.c`, `sk_user_loader.c`) | registries of loaders by type, opened libraries | register, load, unload | core, bindings |
| bindings (`user-c`, `user-cpp`, `user-py`) | the shared message of a transaction, requests and responses in the task data | entries of modules, services, jobs and callbacks; data access, service calls | transaction and service below, user code above |
| logging, time, small utilities, generators | none that outlives a call | - | - |

What is hard here:

* **Threads.** A bridge is filled by one thread and emptied by another, with an
  eventfd read and written in between: a wake-up could be lost. Tasks of one
  service run on any engine, and only the master's bookkeeping keeps a write
  away from the others.
* **Order.** Messages between two engines that are not linked pass through the
  master and are sorted into priorities on the way. Completions of different
  tasks reach the master, and callbacks the worker, in any order.
* **Several answers for one call.** An api call may be answered BUSY, once, or
  twice (first when the api returns, again when its endpoint calls are
  answered); only one of these answers counts as a completion.
* **Decisions used late.** Whether a workflow is to be resumed is decided on the
  worker and acted on two messages later; the timeout is looked at only on
  resumption, in whatever state the transaction is then.
* **Lifetimes.** A connection, its transactions and their service calls are
  ended by the peer, by errors, by the last call, or by each other, in any order.
* **Stopping.** A signal handler sets flags of other threads' loops, whatever they
  are doing; what is under way is dropped, and everything it owned must be given
  back by whoever owns it then, once, before what it needs has gone.
* **Buffers without an owner in the type.** Message, request and response are bytes
  that three language layers fill, read and release by convention.
* **Values read one by one.** The peak of the memory statistics and the reports of the
  monitors are computed from several reads while other threads write.
* **Limits.** Full service queues, full bridges, more events than one pull
  takes, round robin around slots that must be skipped.

For each component the properties that make it correct are those of section 3;
the hazards, with the line where each one bites and the property that covers it,
are in `PROJECT.json`.

## 2. Modules

| Module | Models | Run by |
|---|---|---|
| `SkQueue` | the read/write modes of `sk_queue.c` as operators | through `SkService` |
| `SkService` | one service and its protocol on all engines | `MCSkService` |
| `SkServiceAbs` | what a service promises: a readers-writer lock with admission control | refined by `SkService` |
| `SkTxn` | one transaction, its workflow and its service calls | `MCSkTxn` |
| `SkEntity` | one entity and all its transactions | `MCSkEntity` |
| `SkSched` | the schedulers of all engines and the bridges | `MCSkSched` |
| `SkEpPool` | the endpoint pool of an engine, its connections, requests and timers | `MCSkEpPool` |
| `SkJob` | the timer jobs of a service over their whole way, and the end of the engines | `MCSkJob` |
| `SkMon` | the monitors, the snapshot of every minute, the admin reports | `MCSkMon` |
| `SkMalloc` | the overridden allocation calls and their statistics | `MCSkMalloc` |
| `SkConfig` | the configuration file, the tool that edits it and the loader that reads it, as operators | through `SkCore` |
| `SkCore` | the process from the edited file to its exit | `MCSkCore` |
| `SkUser` | the buffers of one transaction in the layers for C, C++ and Python | `MCSkUser` |
| `SkService_proofs`, `SkTxn_proofs`, `SkEntity_proofs`, `SkSched_proofs`, `SkEpPool_proofs`, `SkJob_proofs`, `SkUser_proofs` | the theorems about the module of that name (section 5) | TLAPS |
| `SkProcess_proofs` | the theorems about the process as a whole: `SkMalloc`, `SkMon` and `SkCore` | TLAPS |

The modules fit together at their messages. `SkSched` establishes what the others
assume of the transport: no event is lost, duplicated or, within a
channel, reordered (`Conserved`, `ChannelOrder`), and every one is run
(`AllHandled`). `SkService` follows a call from the worker to the master, the
target and back; `SkTxn` has one such call per task and abstracts the way
between to "out" and "in", which `NoStarvation` and `RefinesAbs` justify;
`SkEntity` has one `SkTxn` per transaction, abstracted to its phases.
`SkEpPool` runs inside one engine; its `CalledBackOnce` is what lets `SkService`
count an endpoint call as one `EpCb`. `SkJob` opens what `SkService` shows as a timer task
(`RecvTimerEmit`, `TimerRunEnd`, `BusyDone`) and follows the objects behind it;
conversely a job that the queue has accepted is, in `SkJob`, an SVC_TIMER_RUN that
is under way for any time. `SkCore` extends `SkConfig` and is the frame of all of
them: its `PartsOutliveThreads` is what lets every other module take engines,
modules, services and configuration for granted, and its `LoopTurn` is one turn of
`SkSched`. `SkUser` takes the order of entries from `SkTxn` and the way of a call from
`SkService`, both simplified, and adds the contents.

### SkService, SkQueue, SkServiceAbs

A task is a call slot; `phase[t]` is the message in flight for its call or the
place the call is at (listed at the top of the module). The actions are the
handlers: `Call` (`sk_service_iocall` or a timer), `RecvIocall` and
`RecvTimerEmit` on the master, `RunBegin`/`TaskRunEnd`/`TimerRunEnd` on the
target, `TaskCb` and `BusyCb` on the caller, `TaskDone` and `BusyDone` on the
master, and `EpCb`, `LateCb`, `LateDone` for the second answer of an api that
made endpoint calls. `EpCb` also stands for the pending jobs an api creates: both
are counted by `taskdata->pendings` and complete the call in the same way.
Executing user code is the interval between `RunBegin` and its end, so that it
overlaps with everything other engines do (`Free`: an engine is one thread).

`sk_service_schedule_tasks` pulls one element at a time and starts it, in a loop
that every master handler ends with. `ScheduleTasks` gives its total effect as
one batch: the first `k` elements of one buffer, where `PullsExactly` says that
the loop takes these and stops. All come from one buffer because a read leaves
the state READ and a write leaves WRITE, which admits nothing. A full queue gives
the BUSY answer without scheduling, as in the code.

`SkServiceAbs` knows neither engines nor messages nor counters: a request waits,
and is granted or refused once. `ViewOf` is the refinement mapping: `req`,
`queued` and `run` are waiting, `exec` is running, `cb` and `done` served,
`busy` and `busydone` refused. The refinement says, among other things, that a
call is refused only if at least `MaxSlots` others wait.

### SkTxn

One transaction with its WORKFLOW_RUN events, split into what is in the worker's
input queues (`wfin`) and what is still on its way through the master
(`resumes`). `Dispatch` models the property of `sk_sched_start` that a worker
empties its own input queues, including what its handlers send to itself, before
it reads its bridges again. One action per state in which `_run` may find the
transaction; `RunFreed` is a WORKFLOW_RUN for a transaction that is gone.
`RunState` keeps a detail of `_run`: the timeout check sets the state to TIMEOUT
but the switch uses the value read before, so that the next module still runs.
`midx` is one more than the number of modules when the workflow was resumed after its last
module and `sk_txn_next_module` has made the current module NULL (`RunComplete`); calls made from
then on have no `caller_module` (`orphan`), and the worker that handles their answer crashes
(`CallerMissing`). `FaultCause` has three parts: `AbortNeedsLateCall` (the assertions on a destroyed
transaction, in `sk_txn_setstate` and `skull_txn_status`), `FreedUseNeedsBoth` (`RunFreed`) and
`NullNeedsResumedPack` (`CallerMissing`).

### SkEntity

One entity with its `iqueue`, its task count and the phase of each transaction.
The workflow's options are a variable that never changes, so that one run covers
all of them. `TxnGone` follows `_txn_log_and_destroy` in its order: first deliver
the next transaction, then remove this one, then destroy the entity if it was the
last and the entity is no longer active. What this order means for a transaction that waits in
the input queue is in `Stalled` (queued ones, none running, nothing to start them but more input),
and `StallNeedsEnd` says which steps may lead there. `CleanFreed` is a second list entry of an entity
that is already freed.

### SkSched

Each engine has a program counter in `sk_sched_start`; each push, pop, eventfd
read and eventfd write is an action of its own, so that the two threads of a bridge
interleave at that grain. `Send` may happen while a handler or an event loop
callback runs. Events are numbers with constant source, destination and
priority. `Queues` names every queue of every engine and `Content` what is in it, so that
`Conserved` can say that an event that was sent and not handled is at one place (`Spots`).
`SchedAssumption` has what `sk_core.c` sets up: at least one worker, engines that differ, and
events without destination from the master only, where the drivers run.

### SkEpPool

The connections to one target and the requests sent over them. All of it runs on
one thread, and what makes it hard is re-entrance: a handler calls the callback
of a request, which may send again before the handler goes on. The model
therefore cuts each handler in two at the callback (`Read` and `ReturnOk`,
`RecvTimeout` and `ReturnTimeout`, the rounds of `_handle_error` as `ErrorNext`
and `ReturnError`), and `ctx` says which one is open; every `Send...` action may
happen in between. Each timer is kept as what can still come of it: armed, fired
with its event in the queue, or nothing. A write that fails leaves the request
linked to its connection in state INIT, as in the code. Expiry takes no account
of time, so that every order of timers and answers is covered. The flag
`SK_EP_F_CONCURRENT` is not modelled, because `user-c/src/ep.c` always clears it,
and one target address stands for all, since connections are never shared
between addresses. `WrongAnswerNeedsGiveUp` follows the answers of a connection: behind a
request that was given up each answer may go to the next request, so a request gets
the answer of one that was given up or of one that was itself served a wrong one.

### SkJob

A job has three owned things: the user's data, an entity, and a timer. `SubmitPending` and
`SubmitNp` are the two calls of `user-c/src/service.c` (with their refusals); then
`Fire`, `TimerTriggered`, `TimerEmit`, `TimerRun`, `JobReturn`, `TimerDone` and
`EntityDestroy` are the handlers on the way from the creating engine to the master,
the target, the master and back. User code is an interval (`ctx`), in which jobs may
be created by an initialisation, an api or another job. `Stop` may come at any
step; each engine then leaves its loop at the end of a turn, and `DestroyTimers`
and `DestroyEntities` follow `sk_engine_destroy`. Whatever a handler touches after
its end is collected in `bad`. `Crons` are the internal timers of the master, whose entities no
manager owns.

### SkMon

`Inc` and `Set` count under the lock of a monitor, `SnapshotNext` moves one counter into the
window under the same lock. A report visits the monitors one by one, in two steps
each (`Take` under the lock, `Use` after it). `metrics` copies; `last` keeps a pointer into
the window. A snapshot is named by the minute it was taken in, so that "which minute
does this line show" can be asked. Responses grow line by line with the room
check of `sk_admin.c`.

### SkMalloc

Each overridden call is split at every atomic operation: the addition to `alloc_sz`, to
`dalloc_sz`, the read of the peak, the two reads of `sk_mem_allocated`, the
compare-and-swap, the real `free`. `Ready` allows one nested call at the point where tracing
logs. `maxUsed` and `drift` are history: what was really in use at most, and what
`realloc` leaves out. The bounds of an instance are in the guards (`Within`) only: the types are
natural numbers, as the proofs speak of any sizes.

### SkConfig and SkCore

`SkConfig` gives the edits of `skull-config-utils.py` and the checks of `sk_config.c` as
operators on a record. `SkCore` starts with an empty file that the tool edits, then runs
`main`: one action per step of `sk_core_init`, `sk_core_start` and `sk_core_destroy`, each of
which may end the process where the code exits or asserts (a socket of a driver that cannot be bound,
for example). A signal may interrupt any thread that
exists once the handler is installed; the handler is `Stop`, one step per engine it
stops, on the stack of the interrupted thread. Every part (`DestroyOrder`) that is
destroyed, and the handler, name the parts they use; using one that is gone crashes.

### SkUser

Three kinds of buffer: the message all modules of a transaction share (`raw`), and per call
a request and a response. Each entry of a module or service is one action on the
worker that runs it: it deserialises, the user code does one of the things it can
do (`Uses`: leave it, change it, empty it, ask for it twice, raise), and the
layer stores the result. `StoreMsgData`, `PyStore`, `CppCallback`, `PyCallback`, `StoreResp` are
the places where a layer decides who releases what. The phase `resume` is a workflow whose last
module awaits callbacks: pack then runs without a current module (`orphan`, `NoCaller`), as in
`SkTxn`. Modules are in either
language in every mix; services are C++ only, as there is no other loader for
them.

## 3. Runs

Bounds are chosen so that each conflict can happen: at least two tasks that
compete and one that waits, a queue shorter than the number of callers, more
events than a pull takes, and two modules so that "the next one" exists.

| Run | Instance | Shows |
|---|---|---|
| `service_pw` | prefer-write; two reads, a write and a timer write on three workers, master and bio; 2 slots; up to one endpoint call outstanding; fair | `WriteExclusion`, `RefinesAbs`; the inductive invariant `IInv` of the proofs, with the types, the running count, the queue and its state; every request is served or refused (`NoStarvation`) |
| `service_pr` | prefer-read, the same tasks, 1 slot per buffer; fair | `NothingStranded` with two buffers; every read is served or refused |
| `txn_all` | two modules, two calls with and two without callback, one of each made by pack if it wants, a timeout; fair | `IInv` (counters match, nothing is freed with a task out), `OneDriver`, `ModuleBarrier`, `FaultCause`, `EventuallyFreed` |
| `entity_all` | connection or datagram, three transactions, every workflow option, errors, a closing peer; fair | `IInv` (counts, no transaction outlives its entity, listed once, one at a time without the concurrent option), `FaultCause`, `StallNeedsEnd` (requests are left standing only by the end of a transaction), `ClosedIsFreed` |
| `sched_routed` | master, worker, bio; two events worker to bio and one back; pull 1; fair | `IInv` (`Conserved`, `IdlePoll`, `ShortestWay`), `ChannelOrder`, `NoLostWakeup`, `AllHandled` |
| `sched_shared` | master, two workers, a bio; three events without destination and one self-send; bridge of 1 | `EvenShares`, also when the bridge overflows and the process aborts |
| `ep_all` | a request with timeout, one that waits for ever, one that wants no answer; three connections, limit 2; fair | `IInv` (released once, one request per connection, counts, timers point to live objects, idle connections are timed), `CalledBackOnce`, `WrongAnswerNeedsGiveUp`, `FaultCause`, `EventuallyCalledBack` |
| `job_all` | two jobs, one of them perhaps repeated, an internal timer, one api call; a worker, a bio, the master, each of which may create and run jobs; a bio index that does not exist; a stop at any step; fair | `IInv` (nothing stale is touched, data released exactly once, pendings counted), `ApiWaitsForJobs`, `JobEnds` |
| `mon_all` | three monitors, window of 2, four snapshot rounds, a response that must grow | `MonInv` (nothing counted is lost, the window, the copies), `ReportFaithful`, `FaultCause` |
| `malloc_all` | two threads, two blocks, two scopes, sizes 1 and 2, 3 bytes allocated and 2 released in all; symmetric | `IInv` (bounds of the peak), `Accounted` (the sums), `PeakMonotone` |
| `core_all` | a file of up to two workflows, two modules (one name with two types) and a service with a good or a bad mode, four of these at most; ports in and out of range; one engine of each kind; two signals; fair | `CoreInv` (parts outlive their users, `CrashCause`), `ServesAsConfigured`, `StopEnds` |
| `user_all` | two modules in every mix of languages, two calls with and one without callback, one endpoint call or job per api | `IInv` (request and response held exactly as long as needed, what is left behind), `DataKept`, `FaultCause` |

Bounds and why they are enough: `MaxFires` 2 lets an interval job fire while its
previous round is still under way. `MaxRounds` 4 is twice the window, so that a
report can be overtaken by as many snapshots as the window holds. In
`malloc_all` a swap fails as soon as the second thread raises the same peak, and a
block can be released in the scope it was not allocated in. `MaxSignals` 2 gives a
handler that interrupts while another one runs on another thread. In `ep_all` a
connection carries two answered requests, enough for one late answer; that answers may be
shifted further takes four requests and is left to the theorem. Messages 0..2 in
`user_all` are the empty one and two that differ.

Prefer-read does not promise that a write is ever served: with reads that keep
coming a write waits for ever, by design of the mode; `NoStarvation` says so.

`CHECK_DEADLOCK FALSE` appears where the modelled object really ends (a
transaction or an entity that is freed, a pool that is destroyed, a process that
has aborted) and where a bound on what is ever allocated ends the instance (`malloc_all`).
All other runs check deadlock.

### What the models say about the code

Properties named `...Cause` or `...Needs...`, and `OneDriver` and `ModuleBarrier` with their
premises, delimit behaviours one would not expect; the mutants show that they are
tight on one side, and the actions named here that the behaviour exists.

* **Transactions.** A module that makes one call with and one without callback can have its
  workflow resumed twice (`resume_wf` in `pto/sk_pto_service_task_cb.c` asks two different
  questions), and the second WORKFLOW_RUN finds the transaction freed (`RunFreed`;
  `OneDriver` holds for modules that do not mix). A transaction that is answered but kept
  for a call without callback, and times out meanwhile, goes from DESTROYED to TIMEOUT, which
  `sk_txn_setstate` asserts against (`FaultCause`). A last module that awaits callbacks is
  followed by a resumed workflow without current module (`sk_txn.c:238-243`); a call that pack makes
  then has a NULL `caller_module`, which the handler of its answer dereferences
  (`pto/sk_pto_service_task_cb.c:42`, `CallerMissing`). After a timeout one more
  module is run (`RunState`).
* **Entities.** Without the `concurrent` option a transaction queued behind a running one is
  not started when that one ends: the delivery is tried before the ending one is
  uncounted (`TxnGone`), although the comment at `pto/sk_pto_workflow_run.c:149-150` says "Trigger
  next txn in entity iqueue if possible". It waits until the peer sends enough for another
  transaction, for ever if it does not (`Stalled` is reached). `StallNeedsEnd` confines the defect to
  this handler: no handler of input, errors or closes leaves requests standing. A pack
  error on an entity the peer has already closed lists it twice, and it is
  cleaned up after it was freed (`CleanFreed`, `FaultCause`).
* **Endpoints.** A request without timeout over a kept connection does not touch the
  shutdown timer that the previous request has left; when that expires the request
  fails (`sk_ep_pool.c:565`).
* **Jobs.** `skull_service_job_create` returns 1 whatever the reason of a refusal, although
  it has chosen a code for it (`user-c/src/service.c:266`). How long a stop takes is bounded only by the next timer of each
  engine.
* **Monitors.** `last` follows a NULL snapshot if it comes while the first minute is being taken, and
  a freed one if as many snapshots as the window holds overlap it (`FaultCause`). The
  uptime metric is reset every minute with the others
  (`scripts/config/metrics.yaml`). `_merge_one_stat` of the admin module omits standard
  input and endpoint timer entities.
* **Memory statistics.** `realloc` does not count a block that shrinks in place, and counts a block it
  failed to resize as released (`drift`).
* **Life of the process.** A stop before an engine has entered its loop is lost, because the loop
  sets the flag on entry (`sk_sched.c:550`; `StopEnds` begins when all engines loop). A
  signal on the main thread during `sk_core_destroy` uses freed parts. A module
  whose name has appeared earlier in the file is skipped, also in another workflow, which may leave
  that workflow empty, and input for an empty workflow crashes. Loading with no
  loader registered at all reads a registry that is not there. The Python library
  registers no loader of services. Any `stdin` item after a workflow that enables stdin, the
  value 0 included, ends the process (`sk_config.c:200`). `enable` of a service is
  read and not used. The status of the core is read by the admin module only.
* **User code.** In C++: emptying the message or the response leaves a dangling pointer, freed again
  later; asking for the message twice loses the first edits and leaks; exceptions of an api
  end the process although a comment says that the error is sent back, and those of callbacks are not caught;
  a pending job that asks for the request or response of its api aborts, because the
  constructor at `service_imp.cpp:64` fills a temporary. In Python: an emptied message keeps its old bytes. In
  both: an unpack that uses the message and asks for more input fails an assertion, and so does a
  callback that runs after pack and fails or asks for `txn.status()` (`user-c/src/txn.c:33`); a pack
  that makes calls after the callbacks of the last module crashes on their answers (`NoCaller`). The
  request of a call without callback, and of one that Python was refused, leaks; so
  does the message after a failed unpack, after a late callback, and after a Python module
  without `module_pack` (`LeftBehind`).

Smaller ones:

* A datagram for which unpack returns 0 (more data needed) leaves an entity that
  nothing frees (`drivers/sk_driver_udp.c:77`; `UnpackMore` with kind udp).
  `ClosedIsFreed` therefore speaks of datagrams whose transaction was started.
* After an unpack error the half transaction stays with the entity
  (`drivers/sk_driver_utils.c`), to be freed with it or not at all.
* Destroying an entity with a queued transaction fails the assertion of
  `sk_entity_txndel` (`entities/sk_entity.c:195`): `FaultCause` allows this one
  case and no other.
* `_handle_error` of the endpoint pool pops a request and calls it back while the
  dying connection still counts as connected and free: a send from the callback
  is linked to that connection and failed in the next round of the same loop (a
  callback that always retries never leaves it), and a second send from the same
  callback fails `SK_ASSERT(t->ntxn <= 1)` in `_find_ep` (`SendAborts`).
* After a receive timeout the connection is used again, and the late answer is given
  to the next request, whose own answer goes to the one after it, and so on
  (`WrongAnswerNeedsGiveUp` says that only this can mix up answers).
* A request whose write has failed was released by its caller but stays linked:
  data that arrives then is unpacked with the released user data, and a pool that
  is destroyed then releases it again (`FaultCause`, and `ReleasedOnce` in `IInv`).
* A full pool refuses a request even when one of its connections is free.
* `bidx = -1` is documented as a random pick and always takes bio-1.
* In `_sk_queue_pull` the destination of the second ring segment is scaled
  by the element size on a typed pointer; services pull one element at a time
  and never get there, so `SkQueue` does not model larger pulls.

## 4. Fairness

Liveness is checked under weak fairness only.

* `SkSched`: each engine's thread is scheduled again and again. Nobody is obliged
  to send. The poll returns at the latest after its timeout.
* `SkService`: handlers of arrived messages are run (`AllHandled`) and user code
  returns. No caller is obliged to call, no endpoint to answer. The instances
  place tasks that may run at the same time on different engines, and none on
  the master, so that weak fairness of a handler means what the scheduler's
  queues guarantee: an engine that is occupied now and then still comes to each
  message.
* `SkTxn`: the worker runs its events, and services answer, which is what
  `NoStarvation` gives for prefer-write.
* `SkEntity`: transactions come to their end (`EventuallyFreed`) and the
  scheduler calls `sk_entity_mgr_clean_dead` every round. The peer may stay
  silent and need not close.
* `SkEpPool`: callbacks return, timers expire and their events are run, and the
  event loop reports a connection on which a write has failed. The peer need not
  accept, answer or close.
* `SkJob`: while some thread can go on, one does (user code returns, a turn handles its
  events and ends, a loop that was told to stop is left, an expired timer is
  found by the next turn of its loop). With finitely many jobs this is enough
  for each of them. Nobody is obliged to submit a job, to call an api or to stop,
  and repeated timers need not fire again.
* `SkCore`: the same, for the main thread once it serves, the engine threads and a
  handler that has started. Signals and inputs need not come.

`SkMon`, `SkMalloc` and `SkUser` state safety only: they have no waiting but locks, and
the swap loop of `SkMalloc` may in principle lose again and again.

## 5. Proofs

TLC checks instances; the theorems hold for every value of the constants that the named
assumptions allow (TLC evaluates these in every run). Each component has a module
`..._proofs` with one inductive invariant, the lemmas that say what the parts of a
handler do to it, one step per action, and the theorems; the three components that
belong to the whole process share `SkProcess_proofs`, because they share the lemmas about
sums and folds (which is why the definitions of `SkMon` and `SkCore` carry a prefix:
`MonSpec`, `CoreSpec`). TLC finds the inductive
invariants true on the instances of section 3 (but for `SharesInv` of the scheduler, which
quantifies over all naturals; `EvenShares` is its checked consequence).

| Module | Theorems | For all |
|---|---|---|
| `SkService_proofs` | `Invariance` (`IInv`), `TypeCorrect`, `CountCorrect`, `Exclusion` (`WriteExclusion`), `DataAccess`, `NoStranding` (`NothingStranded`), `Refinement` (`RefinesAbs`) | finite sets of tasks, types, engines, bio indices, both modes, capacities |
| `SkTxn_proofs` | `Invariance` (`IInv`), `OneDriverHolds` (`OneDriver`), `Causes` (`FaultCause`), `Barrier` (`ModuleBarrier`) | calls with and without callback, calls of pack, numbers of modules |
| `SkEntity_proofs` | `Invariance` (`IInv`), `Causes` (`FaultCause`), `StallsNeedEnd` (`StallNeedsEnd`) | transactions, kinds and workflows |
| `SkSched_proofs` | `WakeupSafe` (`NoLostWakeup`), `Invariance` (`IInv`), `InOrder` (`ChannelOrder`), `Even` (`EvenShares`), `RunAtDestination` | workers, bios, events, priorities, sizes of bridges and pulls |
| `SkEpPool_proofs` | `Invariance` (`IInv`), `CalledBack` (`CalledBackOnce`), `Shifted` (`WrongAnswerNeedsGiveUp`), `Causes` (`FaultCause`) | requests of any sort, connections, limits |
| `SkJob_proofs` | `Invariance` (`IInv`), `CallsWait` (`ApiWaitsForJobs`) | jobs, calls, engines, internal timers, rounds of interval jobs, stops |
| `SkUser_proofs` | `Invariance` (`IInv`), `MessageKept` (`DataKept`), `Causes` (`FaultCause`) | modules, mixes of languages, calls |
| `SkProcess_proofs`, of `SkMalloc` | `Invariance` (`IInv`), `PeakNeverFalls` (`PeakMonotone`), `AccountHolds` (`Accounted`) | threads, blocks, scopes, sizes |
| `SkProcess_proofs`, of `SkMon` | `MonInvariance` (`MonInv`), `ReportHolds` (`ReportFaithful`), `MonCauses` (`FaultCause`) | orders of monitors, windows, counts, rounds, sizes of the response |
| `SkProcess_proofs`, of `SkCore` | `CoreInvariance` (`CoreInv`), `Serves` (`ServesAsConfigured`) | engines, languages, modules, services, files |

None of the properties is inductive by itself. What each needs:

* **Service.** Exclusion depends on the queue state telling the truth about what is out,
  this on the running count being exact when it reaches zero, this on no task being
  pulled twice, and that on the queue holding each waiting task exactly once. `IInv`
  is the conjunction: `TypeOK`, `QueueMatchesPhase`, `RunningCount`, `StateMatchesActive`, and
  `PullLane = NoLane` (nothing that could be started is left between two handlers).
  `BatchShape` and `BatchKeeps` say what one call of the scheduling loop does to them. For the
  refinement `FullMeansWaiting` counts a full buffer as `MaxSlots` waiting tasks, and
  `StartIsGranted` derives the lock's condition from `IInv`. TLC checks `RefinesAbs` in
  prefer-write mode; the theorem covers both.
* **Transaction.** `CountersMatch` is inductive with the types; what drives a transaction is not
  visible in the counters. `DriverInv` adds, for calls of one sort, that there is one
  WORKFLOW_RUN or none (`Driven`) and what a destroyed transaction is still kept for
  (`KeptForLateCalls`); `CallerInv` says which calls have no caller: those made after the list of
  modules has ended, which it does only after a callback was awaited. The barrier follows: whoever moves on to a module holds the one
  driver, and there is none while a callback is awaited.
* **Entity.** `EntityInv` adds that the input queue holds exactly the queued transactions,
  once each, that it is empty with the concurrent option, and that an entity in the
  manager's list is no longer active. `StallNeedsEnd` then follows handler by handler: each but
  `TxnGone` starts what it queues or leaves something running.
* **Scheduler.** Five layers: what an engine's place in its loop says about its queues (`EngineInv`),
  the notifications of a bridge (`NoLostWakeup` itself), every event at one place (`PlaceInv`), the place
  on its route with the hops done so far (`Routing`), and the earlier event of a channel ahead of the
  later one (`Order`, by the rank of a queue along the route). `SharesInv` says that the workers before
  the round robin slot have had one event more. All moves of events are reduced to one table
  of queues, in which each action adds, moves or removes at one place.
* **Endpoint pool.** `PoolInv` says where each request is (`HoldOK`, `Somewhere`), what its caller has seen
  (`ReqOK`), which timers a connection has (`EpOK`), what the thread is in the middle of
  (`CtxOK`) and whose answers may still come (`WireOK`). A handler changes one connection and one
  request; `Frame` takes care of all others. The proof showed that an earlier form of
  `WrongAnswerNeedsGiveUp`, without the shift, is false with four requests.
* **Jobs.** `JobInv`: a one-shot job is at one place at a time (its timer, one event, or one
  engine: `Single`), its entity is active as long as it has an event or runs (`MsgOK`, `CtxOK`),
  and everything of one call happens on one engine (`SameEngine`), so that no job of a call can
  end while its api still runs. After a stop the same facts are kept relative to what is already
  destroyed (`Running`, `EngineOK`).
* **Memory statistics.** `Covered`: the peak covers what is in use, or some thread will raise it, namely one
  that has not yet read the sums or has read the current `alloc_sz` (`Raises`); `Knows`: what a thread has read
  was in use at some moment. Reading `alloc_sz` before `dalloc_sz` is what makes it an underestimate.
  The account adds `Tidy`: a thread that frees or reallocates has its block to
  itself and owes nothing else, so that what a call has still to add is known at each of its
  steps (`AcctInv`). Every step changes one term of each sum.
* **Sums and folds.** `SumFunction` and `FoldLeft` of the library are defined by recursion on a finite set.
  The induction theorems of the library cannot be instantiated, but the strict order of
  the subsets of a finite set is well-founded, and `SubsetInduction` follows from that for a *set* of
  good subsets. With it, the recursive definition of a fold has one value and has it
  (`FoldingAgrees`, `FoldingExists`), a sum splits off any element (`SumSplit`) and changes by what its one
  changed term changes (`SumChange`), and what `LoadWorkflows` folds over a file is read
  place by place.
* **Monitors.** `MonStrong`: the stored part (`Conserved`, `WindowIsNewest`, `WalkInStep` with the types) is
  inductive by itself. What a running command holds is recent with respect to the start
  of the command and to now (`Running`), and the lines written so far are those of the
  monitors passed (`Reports`). Snapshots taken meanwhile move only the second bound; a
  walk that started before the command gives the first one its slack of a round.
  `MonCauses` needs that a snapshot the command holds leaves the window only after as
  many newer ones.
* **Process.** `CoreStrong`: at each point of the main thread, which parts exist (`PartsInv`; while
  destroying, what is left is an end of the order of destruction), which libraries,
  modules and services are loaded (`LoadedInv`), where the threads are and what their handlers
  rely on (`ThreadsInv`), and how far each workflow is set up (`WorkflowsInv`). A name that occurs
  again is skipped, so a workflow gets the modules at the places of first use (`Picks`):
  the names seen so far are those of the modules loaded so far. A failure at any step
  of the start exits with the parts of that step.
* **User layers.** `UserInv`: dangling pointers have a cause (`DataInv`, `RespInv`), the bytes are those the user meant
  unless one of two causes happened (`KeptInv`), a request is held while its call is away
  (`RequestsOK`), and calls without a caller exist only once pack has run after a callback of the last
  module (`OrphanInv`).

Every invariant and every safety action property that a run checks is stated by a
theorem. `MonStrong`, `CoreStrong` and `AcctInv` were checked by TLC on the instances of their runs
before they were proved.

Only model-checked is liveness, which needs fairness and ENABLED, beyond this prover:
`NoStarvation` (in both modes), `EventuallyFreed`, `ClosedIsFreed`, `AllHandled`,
`EventuallyCalledBack`, `JobEnds` and `StopEnds`.

## 6. Not modelled

* The exclusive mode of `sk_queue.c` (no service uses it) and the growth of its
  buffers.
* Connections shared by concurrent requests (`SK_EP_F_CONCURRENT`), which the user
  api switches off.
* Throttling and the statistics of events; the scopes of `sk_service_data.c` beyond
  who may access the data.
* The admin commands that format what other modules keep (status, memory,
  information) and the trace output of the memory statistics.
* Scalar options of the configuration (ports of the admin interface, limits, log
  names): they carry values and no control.
* The look-up of symbols in a library, and message factories.
* The lock of the Python interpreter: every entry takes it, and nothing under it
  waits for another thread.
* The mock layer for unit tests (`user-c/src/unittest.c` and its C++ and Python
  counterparts), which replaces the engine and is not part of the program.
* Logging, time and small utilities; the scripts that generate code or build a
  project.

## 7. Plan

Done, in this order: service and its proof, transaction, entity, scheduler,
endpoint pool, jobs and timers, monitors, memory statistics, configuration and
life of the process, user layers.

Proved: the safety of all of them, and the refinement of the service.

Next: an abstract specification of a workflow (modules in order, one answer) refined
by `SkTxn`, and a proof of the refinement in `SkTxn_proofs`.
