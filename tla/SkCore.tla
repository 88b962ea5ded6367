-------------------------------- MODULE SkCore --------------------------------
(***************************************************************************)
(* The life of a skull process: main.c, sk_core.c, the engine threads of   *)
(* sk_engine.c with the loop of sk_sched_start, the registries of loaders  *)
(* and the signal handler that stops it all.                               *)
(*                                                                         *)
(* The configuration file is edited with the tool, then the process reads  *)
(* it, builds its parts in the order of sk_core_init, starts its engines,  *)
(* serves, and takes its parts down in the order of sk_core_destroy.  The  *)
(* main thread runs all of that and the loop of the master engine; workers *)
(* and background io engines have threads of their own.  A signal          *)
(* interrupts any thread, which then runs sk_core_stop before it goes on.  *)
(***************************************************************************)
EXTENDS SkConfig, FiniteSets

CONSTANTS
  Workers, Bios,     \* sequences of engines, in the order of core->workers, core->bio
  Langs,             \* languages of the file
  Modules,           \* modules that may be added: records of a name and a type
  Services,          \* names of services that may be added
  ServiceItems,      \* their items: records of a type and a data mode
  Ports,             \* ports given to the tool
  MaxWorkflows,      \* bound: workflows of the file
  MaxModules,        \* bound: modules of the file
  MaxItems,          \* bound: workflows, modules and services of the file
  MaxSignals         \* bound: signals of a run

Master == "master"

EngineSeq == <<Master>> \o Workers \o Bios

Engines == Range(EngineSeq)

Threaded == Engines \ {Master}

ASSUME CoreAssumption ==
  /\ Workers \in Seq(Engines) /\ Bios \in Seq(Engines) /\ Len(Workers) > 0
  /\ IsInjective(EngineSeq)
  /\ Ports \subseteq Int
  /\ {MaxWorkflows, MaxModules, MaxItems, MaxSignals} \subseteq Nat

VARIABLES
  file,      \* the configuration file
  pc,        \* where the main thread is
  parts,     \* the parts of sk_core_t that exist
  wfs,       \* core->workflows: for each the modules added to it
  cur,       \* modules of the last workflow of wfs that have been looked at
  mods,      \* core->unique_modules
  srvs,      \* core->services
  libs,      \* what became of each user library
  inited,    \* modules and services whose init has run
  status,    \* core->status
  thr,       \* the threads of the engines
  run,       \* sched->running of the engines
  h,         \* for each thread, the step of the signal handler it is in, or 0
  sigs,      \* signals so far
  why        \* the reason of a crash

coreVars == <<file, pc, parts, wfs, cur, mods, srvs, libs, inited, status,
          thr, run, h, sigs, why>>

loading == <<file, wfs, cur, mods, srvs, libs>>

threads == <<thr, run, h, sigs>>

(***************************************************************************)
(* Parts and what they need                                                *)
(***************************************************************************)

\* Mutant: the configuration goes before the modules that point into it.
DestroyOrderConfigFirst ==
  <<"drivers", "engines", "config", "modules", "services", "mons",
    "workflows", "admin", "loaders", "logs", "env">>

\* The parts in the order in which sk_core_destroy takes them down.
DestroyOrder ==
  <<"drivers", "engines", "modules", "services", "mons", "config",
    "workflows", "admin", "loaders", "logs", "env">>

Parts == Range(DestroyOrder)

\* What sk_core_stop reads.
StopNeeds == {"config", "engines", "logs"}

Ended == pc \in {"exited", "crashed"}

Crash(w) ==
  /\ pc' = "crashed"
  /\ why' = w

\* A step of the main thread, which the signal handler may hold up.
Main(from) ==
  /\ pc = from
  /\ h[Master] = 0

ExitProcess == pc' = "exited" /\ UNCHANGED why

GoTo(to) == pc' = to /\ UNCHANGED why

CoreInit ==
  /\ file = EmptyFile
  /\ pc = "edit"
  /\ parts = {}
  /\ wfs = <<>> /\ cur = 0
  /\ mods = {} /\ srvs = {}
  /\ libs = [l \in Langs |-> "untried"]
  /\ inited = {}
  /\ status = "none"
  /\ thr = [e \in Engines |-> "none"]
  /\ run = [e \in Engines |-> FALSE]
  /\ h = [e \in Engines |-> 0]
  /\ sigs = 0
  /\ why = "none"

(***************************************************************************)
(* The tool, before the process starts                                     *)
(***************************************************************************)
NumModules(f) == FoldLeft(LAMBDA n, w : n + Len(w.modules), 0, f.workflows)

Items(f) == Len(f.workflows) + NumModules(f) + Cardinality(DOMAIN f.services)

Edit(f) ==
  /\ pc = "edit"
  /\ Items(f) <= MaxItems
  /\ file' = f
  /\ UNCHANGED <<pc, parts, wfs, cur, mods, srvs, libs, inited, status, threads, why>>

ToolAddWorkflow ==
  \E stdin \in {0, 1}, port \in Ports :
     /\ Len(file.workflows) < MaxWorkflows
     /\ Edit(AddWorkflow(file, stdin, port))

ToolAddModule ==
  \E i \in DOMAIN file.workflows, m \in Modules :
     /\ NumModules(file) < MaxModules
     /\ ModuleValid(file.workflows[i].modules, m)
     /\ Edit(AddModule(file, i, m))

ToolAddService ==
  \E s \in Services, item \in ServiceItems : Edit(AddService(file, s, item))

(***************************************************************************)
(* sk_core_init                                                            *)
(***************************************************************************)

\* main reads the command line, perhaps goes to the background, and calls
\* sk_core_init, which makes the environment of the main thread first.
InitEnv ==
  /\ Main("edit")
  /\ GoTo("config")
  /\ parts' = parts \cup {"env"}
  /\ status' = "init"
  /\ UNCHANGED <<loading, inited, threads>>

InitConfig ==
  /\ Main("config")
  /\ IF Loads(file)
     THEN GoTo("logs") /\ parts' = parts \cup {"config"}
     ELSE ExitProcess /\ UNCHANGED parts
  /\ UNCHANGED <<loading, inited, status, threads>>

\* The working directory, the two loggers and the limit of open files; each
\* of them may end the process.
InitLog ==
  /\ Main("logs")
  /\ \/ GoTo("loaders") /\ parts' = parts \cup {"logs"}
     \/ ExitProcess /\ UNCHANGED parts
  /\ UNCHANGED <<loading, inited, status, threads>>

\* A user library that cannot be opened is only noted.
LoadUserlib(l) ==
  /\ Main("loaders")
  /\ libs[l] = "untried"
  /\ \E r \in {"loaded", "missing"} : libs' = [libs EXCEPT ![l] = r]
  /\ UNCHANGED <<file, pc, parts, wfs, cur, mods, srvs, inited, status, threads, why>>

Loaded == {l \in Langs : libs[l] = "loaded"}

\* Every user library registers a loader of modules under its language when
\* it is loaded, only the one for C++ also a loader of services.
ModuleLoaders == Loaded

ServiceLoaders == Loaded \cap {"cpp"}

InitMonitors ==
  /\ Main("loaders")
  /\ \A l \in Langs : libs[l] # "untried"
  /\ GoTo("engines")
  /\ parts' = parts \cup {"loaders", "mons"}
  /\ UNCHANGED <<loading, inited, status, threads>>

SetupEngines ==
  /\ Main("engines")
  /\ GoTo("admin")
  /\ parts' = parts \cup {"engines"}
  /\ UNCHANGED <<loading, inited, status, threads>>

\* The workflow of the admin module and its driver; listening may fail.
InitAdmin ==
  /\ Main("admin")
  /\ \/ GoTo("services") /\ parts' = parts \cup {"admin", "drivers"}
     \/ ExitProcess /\ UNCHANGED parts
  /\ UNCHANGED <<loading, inited, status, threads>>

\* Loading through a registry: without a loader of that type it fails, but
\* with no loader at all the registry itself is missing and is read anyway.
\* Opening and configuring may fail as well.  Any failure ends the process.
Load(type, loaders, Keep) ==
  \/ loaders = {} /\ Crash("no registry") /\ UNCHANGED loading
  \/ loaders # {} /\ ExitProcess /\ UNCHANGED loading
  \/ type \in loaders /\ Keep /\ UNCHANGED <<pc, why>>

SetupService(s) ==
  /\ Main("services")
  /\ s \in DOMAIN file.services \ srvs
  /\ Load(file.services[s].type, ServiceLoaders,
          srvs' = srvs \cup {s} /\ UNCHANGED <<file, wfs, cur, mods, libs>>)
  /\ UNCHANGED <<parts, inited, status, threads>>

SetupServices ==
  /\ Main("services")
  /\ DOMAIN file.services = srvs
  /\ GoTo("workflows")
  /\ parts' = parts \cup {"services", "workflows", "modules"}
  /\ UNCHANGED <<loading, inited, status, threads>>

\* The module of the current workflow that is looked at next.
Listed == file.workflows[Len(wfs)].modules

AllListed == wfs # <<>> => cur = Len(Listed)

\* Mutant: only the workflow itself is searched for the name.
KnownInWorkflow(m) == \E k \in DOMAIN wfs[Len(wfs)] : wfs[Len(wfs)][k].name = m.name

\* A name that has been loaded is skipped, whatever its type, and not added.
Known(m) == \E n \in mods : n.name = m.name

SetupModule ==
  /\ Main("workflows")
  /\ ~AllListed
  /\ LET m == Listed[cur + 1] IN
       IF Known(m)
       THEN /\ cur' = cur + 1
            /\ UNCHANGED <<file, pc, why, wfs, mods, srvs, libs>>
       ELSE Load(m.type, ModuleLoaders,
                 /\ cur' = cur + 1
                 /\ wfs' = [wfs EXCEPT ![Len(wfs)] = Append(@, m)]
                 /\ mods' = mods \cup {m}
                 /\ UNCHANGED <<file, srvs, libs>>)
  /\ UNCHANGED <<parts, inited, status, threads>>

\* The next workflow; the one before is complete with its driver, which may
\* fail to listen.
SetupWorkflow ==
  /\ Main("workflows")
  /\ AllListed
  /\ \/ /\ Len(wfs) < Len(file.workflows)
        /\ wfs' = Append(wfs, <<>>)
        /\ cur' = 0
        /\ UNCHANGED <<pc, why>>
     \/ /\ wfs # <<>>
        /\ DriverType(file.workflows[Len(wfs)]) = "net"
        /\ ExitProcess
        /\ UNCHANGED <<wfs, cur>>
  /\ UNCHANGED <<file, parts, mods, srvs, libs, inited, status, threads>>

(***************************************************************************)
(* sk_core_start                                                           *)
(***************************************************************************)

\* sk_core_init returns, main installs the handler and calls sk_core_start.
Start ==
  /\ Main("workflows")
  /\ AllListed /\ Len(wfs) = Len(file.workflows)
  /\ GoTo("start")
  /\ status' = "starting"
  /\ UNCHANGED <<loading, parts, inited, threads>>

\* The hash table gives modules and services in any order; init may fail.
InitOne(x) ==
  /\ \/ inited' = inited \cup {x} /\ UNCHANGED <<pc, why>>
     \/ ExitProcess /\ UNCHANGED inited
  /\ UNCHANGED <<loading, parts, status, threads>>

ModuleInit ==
  /\ Main("start")
  /\ \E m \in mods \ inited : InitOne(m)

ServiceInit ==
  /\ Main("start")
  /\ mods \subseteq inited
  /\ \E s \in srvs \ inited : InitOne(s)

\* Workers, then background io engines; a thread may not be had.
StartEngine ==
  /\ Main("start")
  /\ mods \cup srvs \subseteq inited
  /\ \E k \in 2..Len(EngineSeq) :
       /\ thr[EngineSeq[k]] = "none"
       /\ \A j \in 2..(k - 1) : thr[EngineSeq[j]] # "none"
       /\ \/ thr' = [thr EXCEPT ![EngineSeq[k]] = "created"] /\ UNCHANGED <<pc, why>>
          \/ ExitProcess /\ UNCHANGED thr
  /\ UNCHANGED <<loading, parts, inited, status, run, h, sigs>>

\* The drivers run, the engine is said to be running, and the main thread
\* turns to the loop of the master.  Binding or registering a socket may fail,
\* which asserts; there always is one, that of the admin module.
RunDrivers ==
  /\ Main("start")
  /\ \A e \in Threaded : thr[e] # "none"
  /\ \/ /\ GoTo("master")
        /\ status' = "running"
        /\ thr' = [thr EXCEPT ![Master] = "created"]
     \/ ExitProcess /\ UNCHANGED <<status, thr>>
  /\ UNCHANGED <<loading, parts, inited, run, h, sigs>>

\* Mutant: the background io engines are not waited for.
WaitWorkers ==
  /\ Main("master")
  /\ thr[Master] = "done"
  /\ \A e \in Range(Workers) : thr[e] = "done"
  /\ GoTo("destroy")
  /\ status' = "destroying"
  /\ UNCHANGED <<loading, parts, inited, threads>>

\* After the loop of the master: wait for workers, then for background ios.
Wait ==
  /\ Main("master")
  /\ thr[Master] = "done"
  /\ \A e \in Threaded : thr[e] = "done"
  /\ GoTo("destroy")
  /\ status' = "destroying"
  /\ UNCHANGED <<loading, parts, inited, threads>>

(***************************************************************************)
(* Engine threads                                                          *)
(***************************************************************************)

\* sk_sched_start: running is set on entry, whatever has been asked before.
EnterLoop(e) ==
  /\ thr[e] = "created" /\ h[e] = 0
  /\ thr' = [thr EXCEPT ![e] = "loop"]
  /\ run' = [run EXCEPT ![e] = TRUE]
  /\ UNCHANGED <<loading, pc, parts, inited, status, h, sigs, why>>

\* One turn: timers, events, poll; then running is looked at.
LoopTurn(e) ==
  /\ thr[e] = "loop" /\ h[e] = 0
  /\ thr' = [thr EXCEPT ![e] = IF run[e] THEN "loop" ELSE "done"]
  /\ UNCHANGED <<loading, pc, parts, inited, status, run, h, sigs, why>>

Looping == {e \in Engines : thr[e] = "loop"}

\* Input for a workflow without modules: the driver of an autostart workflow
\* does not run it, but the ones for stdin and sockets unpack with its first
\* module, which is not there.
EmptyInput(i) ==
  /\ Master \in Looping
  /\ \E e \in Looping \cap Range(Workers) : h[e] = 0
  /\ wfs[i] = <<>>
  /\ DriverType(file.workflows[i]) # "app"
  /\ Crash("no module")
  /\ UNCHANGED <<loading, parts, inited, status, threads>>

(***************************************************************************)
(* The signal handler, on the thread that was interrupted                  *)
(***************************************************************************)

\* Threads that exist; the main thread has no handler before Start.
Interruptible(e) ==
  IF e = Master
  THEN pc \in {"start", "master", "destroy"}
  ELSE thr[e] \in {"created", "loop"}

Signal(e) ==
  /\ sigs < MaxSignals
  /\ Interruptible(e)
  /\ h[e] = 0
  /\ sigs' = sigs + 1
  /\ h' = [h EXCEPT ![e] = 1]
  /\ UNCHANGED <<loading, pc, parts, inited, status, thr, run, why>>

\* Mutant: the background io engines are not stopped.
StopSeqNoBio == <<Master>> \o Workers

\* The engines sk_core_stop stops, in its order.
StopSeq == <<Master>> \o Workers \o Bios

\* sk_core_stop: step 1 sets the status, step k + 1 stops the k-th engine,
\* and the handler returns after the last.
Stop(e) ==
  /\ h[e] > 0
  /\ IF StopNeeds \subseteq parts
     THEN /\ h' = [h EXCEPT ![e] = (@ + 1) % (Len(StopSeq) + 2)]
          /\ status' = IF h[e] = 1 THEN "stopping" ELSE status
          /\ run' = IF h[e] = 1 THEN run ELSE [run EXCEPT ![StopSeq[h[e] - 1]] = FALSE]
          /\ UNCHANGED <<pc, why>>
     ELSE /\ Crash("freed part")
          /\ UNCHANGED <<h, status, run>>
  /\ UNCHANGED <<loading, parts, inited, thr, sigs>>

(***************************************************************************)
(* sk_core_destroy                                                         *)
(***************************************************************************)

\* The part that goes next: all before it in the order are gone.
Destroy(p, needs) ==
  /\ Main("destroy")
  /\ p \in parts
  /\ \A k \in DOMAIN DestroyOrder :
       DestroyOrder[k] = p => \A j \in 1..(k - 1) : DestroyOrder[j] \notin parts
  /\ IF needs \subseteq parts
     THEN parts' = parts \ {p} /\ UNCHANGED <<pc, why>>
     ELSE Crash("freed part") /\ UNCHANGED parts
  /\ UNCHANGED <<file, wfs, cur, status, threads>>

\* What a part needs to log what it does.
Logging == {"logs", "env"}

\* A driver takes its listener off the event loop of the master.
DriverNeeds == {"engines"}

DestroyDrivers ==
  /\ Destroy("drivers", Logging \cup DriverNeeds)
  /\ UNCHANGED <<mods, srvs, libs, inited>>

\* An engine releases what its events, timers and entities still hold, with
\* the code of modules and services.
EngineNeeds == {"modules", "services", "loaders"}

\* As many engines as the configuration says.
DestroyEngines ==
  /\ Destroy("engines", Logging \cup {"config"} \cup EngineNeeds)
  /\ UNCHANGED <<mods, srvs, libs, inited>>

\* A module finds its loader by its type, which is in the configuration; it
\* must find one.
UnloadNeeds == {"config", "loaders"}

DestroyModules ==
  /\ Destroy("modules", Logging \cup UnloadNeeds)
  /\ inited' = inited \ mods
  /\ mods' = {}
  /\ UNCHANGED <<srvs, libs>>

\* So must a service.
ServiceUnloadNeeds == {"config", "loaders"}

DestroyServices ==
  /\ Destroy("services", Logging \cup ServiceUnloadNeeds)
  /\ inited' = inited \ srvs
  /\ srvs' = {}
  /\ UNCHANGED <<mods, libs>>

DestroyConfig ==
  /\ Destroy("config", {})
  /\ UNCHANGED <<mods, srvs, libs, inited>>

\* A workflow frees its list and no more: its configuration is gone already.
DestroyWorkflows ==
  /\ Destroy("workflows", {})
  /\ UNCHANGED <<mods, srvs, libs, inited>>

DestroyAdmin ==
  /\ Destroy("admin", Logging)
  /\ UNCHANGED <<mods, srvs, libs, inited>>

\* Every library that was loaded takes its loaders out of the registries.
DestroyLoaders ==
  /\ Destroy("loaders", {"env"})
  /\ libs' = [l \in Langs |-> "untried"]
  /\ UNCHANGED <<mods, srvs, inited>>

\* The monitors, the loggers and the environment of the main thread.
DestroyRest ==
  /\ Destroy("mons", {}) \/ Destroy("logs", {"env"}) \/ Destroy("env", {})
  /\ UNCHANGED <<mods, srvs, libs, inited>>

Leave ==
  /\ Main("destroy")
  /\ parts = {}
  /\ ExitProcess
  /\ UNCHANGED <<loading, parts, inited, status, threads>>

(***************************************************************************)
(* The specification                                                       *)
(***************************************************************************)
Tool == ToolAddWorkflow \/ ToolAddModule \/ ToolAddService

InitSteps ==
  \/ InitConfig \/ InitLog \/ InitMonitors \/ SetupEngines \/ InitAdmin
  \/ (\E l \in Langs : LoadUserlib(l))
  \/ (\E s \in Services : SetupService(s))
  \/ SetupServices \/ SetupModule \/ SetupWorkflow

StartSteps ==
  Start \/ ModuleInit \/ ServiceInit \/ StartEngine \/ RunDrivers \/ Wait

DestroySteps ==
  \/ DestroyDrivers \/ DestroyEngines \/ DestroyModules \/ DestroyServices
  \/ DestroyConfig \/ DestroyWorkflows \/ DestroyAdmin \/ DestroyLoaders
  \/ DestroyRest \/ Leave

MainStep == InitSteps \/ StartSteps \/ DestroySteps

\* After the process has ended.
Rest == Ended /\ UNCHANGED coreVars

CoreNext ==
  \/ /\ ~Ended
     /\ \/ Tool
        \/ InitEnv
        \/ MainStep
        \/ \E e \in Engines : EnterLoop(e) \/ LoopTurn(e) \/ Signal(e) \/ Stop(e)
        \/ \E i \in DOMAIN wfs : EmptyInput(i)
  \/ Rest

\* While the main thread, once it serves, an engine thread or a handler that
\* has started can go on, some of them does.
Fairness ==
  WF_coreVars(/\ ~Ended
          /\ \/ \E e \in Engines : EnterLoop(e) \/ LoopTurn(e) \/ Stop(e)
             \/ Wait \/ DestroySteps)

CoreSpec == CoreInit /\ [][CoreNext]_coreVars /\ Fairness

(***************************************************************************)
(* Properties                                                              *)
(***************************************************************************)
CoreTypeOK ==
  /\ file.workflows \in Seq([stdin : {0, 1}, port : Int, modules : Seq(Modules)])
  /\ parts \subseteq Parts
  /\ mods \subseteq Modules /\ srvs \subseteq Services
  /\ inited \subseteq mods \cup srvs
  /\ libs \in [Langs -> {"untried", "loaded", "missing"}]
  /\ thr \in [Engines -> {"none", "created", "loop", "done"}]
  /\ run \in [Engines -> BOOLEAN]
  /\ h \in [Engines -> 0..(Len(EngineSeq) + 1)]
  /\ status \in {"none", "init", "starting", "running", "stopping", "destroying"}

\* While a thread other than the main one exists, or the master is in its
\* loop, no part has been taken down and every module and service is
\* initialised: what runs on an engine can use all of them.
PartsOutliveThreads ==
  (\E e \in Engines : thr[e] \in {"created", "loop"}) =>
     /\ parts = Parts
     /\ inited = mods \cup srvs

\* A handler that runs on an engine thread finds what it reads: the thread is
\* not waited for before the handler returns.
HandlersOutlived == \A e \in Threaded : h[e] > 0 => StopNeeds \subseteq parts

\* A module or a service that exists can be unloaded: the library that
\* registered the loader of its type is still there.
LoadersOutliveUsers ==
  /\ "modules" \in parts => \A m \in mods : libs[m.type] = "loaded"
  /\ "services" \in parts => \A s \in srvs : libs[file.services[s].type] = "loaded"

\* Modules of the file before the k-th one of workflow i.
Before(i, k) ==
  {file.workflows[i].modules[l] : l \in 1..(k - 1)} \cup
  UNION {Range(file.workflows[j].modules) : j \in 1..(i - 1)}

FirstUse(i, k) ==
  \A m \in Before(i, k) : m.name # file.workflows[i].modules[k].name

\* Sequence w has the elements of ms at the places K, in their order.
Picks(w, ms, K) ==
  \E ks \in [DOMAIN w -> K] :
     /\ \A m, n \in DOMAIN w : m < n => ks[m] < ks[n]
     /\ Range(ks) = K
     /\ \A n \in DOMAIN w : w[n] = ms[ks[n]]

\* What is served is what the file says: the process gets past the file only
\* if at most the last workflow has stdin, every workflow is set up in its
\* place, and it has its modules in their order, except for those whose name
\* appears earlier in the file, which _sk_setup_workflows skips.
ServesAsConfigured ==
  /\ "config" \in parts =>
       \A i \in DOMAIN file.workflows :
          file.workflows[i].stdin = 1 => i = Len(file.workflows)
  /\ thr[Master] # "none" =>
       /\ Len(wfs) = Len(file.workflows)
       /\ \A i \in DOMAIN wfs :
            LET ms == file.workflows[i].modules
            IN Picks(wfs[i], ms, {k \in DOMAIN ms : FirstUse(i, k)})

\* The ways this process can go wrong: a signal that the main thread takes
\* after all engines have been waited for finds freed parts; input reaches a
\* workflow that the file left empty or whose modules all appear earlier; a
\* module or service is loaded while no user library registered a loader.
CrashCause ==
  pc = "crashed" =>
    \/ /\ why = "freed part"
       /\ h[Master] > 0
       /\ \A e \in Threaded : thr[e] = "done" /\ h[e] = 0
    \/ /\ why = "no module"
       /\ \E i \in DOMAIN wfs :
            \A k \in DOMAIN file.workflows[i].modules : ~FirstUse(i, k)
    \/ /\ why = "no registry"
       /\ "cpp" \notin Loaded

\* The invariant of the life cycle of sk_core.c: types, lifetimes of parts and
\* loaders, and the only ways to crash.
CoreInv ==
  /\ CoreTypeOK
  /\ PartsOutliveThreads
  /\ HandlersOutlived
  /\ LoadersOutliveUsers
  /\ CrashCause

\* A stop that begins when every engine is in its loop ends the process.
StopEnds ==
  (\E e \in Engines : h[e] = 1 /\ Looping = Engines) ~> Ended
=============================================================================
