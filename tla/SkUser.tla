-------------------------------- MODULE SkUser --------------------------------
(***************************************************************************)
(* The layers between the engine and the code of a project: user-c, and on *)
(* top of it user-cpp and user-py.  One transaction passes through modules *)
(* that may be written in either language.  They share one message, kept   *)
(* between two calls into user code as the bytes of a TxnSharedRawData,    *)
(* and they call services (always C++), whose requests and responses are   *)
(* kept as bytes in the task data.  The module follows these three         *)
(* buffers: what they hold, who releases them, and when.                   *)
(*                                                                         *)
(* When which entry of a module is called is SkTxn's matter and is kept    *)
(* simple here: a module runs when no callback is awaited, pack comes at   *)
(* the end, after an error or after a timeout, and the transaction goes    *)
(* when all of its calls have come back.  (Calls with and without callback *)
(* in one transaction may drive it twice, and a timeout may find it        *)
(* destroyed: the assertions this meets are SkTxn's too.)  Where a service *)
(* runs is SkService's.  Every entry of a module runs on the worker of the         *)
(* transaction from its begin to its end, a Python one under the lock of   *)
(* the interpreter; nothing it calls waits for another thread.             *)
(*                                                                         *)
(* A message is a number; 0 is the empty one, which has no bytes.          *)
(***************************************************************************)
EXTENDS Integers, FiniteSets

CONSTANTS
  Calls,        \* service calls the transaction may make
  HasCb,        \* the ones with a callback
  NumModules,   \* the length of the workflow
  MaxVal,       \* bound: messages are 0..MaxVal
  MaxPend       \* bound: endpoint calls and jobs an api waits for

ASSUME UserAssumption ==
  /\ IsFiniteSet(Calls) /\ HasCb \subseteq Calls
  /\ NumModules \in Nat \ {0}
  /\ {MaxVal, MaxPend} \subseteq Nat

Values == 0..MaxVal

\* Of a response it only matters whether it is empty.
Responses == {0, 1}

Langs == {"cpp", "py"}

VARIABLES
  lang,     \* the language of each module
  hasPack,  \* does the last module, if in Python, define module_pack?
  phase,    \* unpack, run, resume (pack, when the callbacks the last module
            \* awaits have run), pack, packed (kept for calls that are out), gone
  idx,      \* modules that have run
  raw,      \* txn->udata: the TxnSharedRawData and its bytes
  call,     \* where each call is
  by,       \* the language of the module that made it
  req,      \* its request: none (no bytes), live or freed
  resp,     \* its response
  pend,     \* endpoint calls and jobs its api waits for
  orphan,   \* calls without a caller_module
  meant,    \* history: the message as user code last left it
  hist,     \* history: what user code has done that matters below
  fault     \* how the process ended

calls == <<call, by, req, resp, pend, orphan>>

vars == <<lang, hasPack, phase, idx, raw, calls, meant, hist, fault>>

(***************************************************************************)
(* Buffers.  "none": there is no object; "null": no bytes; "held": bytes   *)
(* of the message val; "dangling": the bytes are freed, but the pointer to *)
(* them is still there; "broken": they were freed again.                   *)
(***************************************************************************)
None == [st |-> "none", val |-> 0]

Null == [st |-> "null", val |-> 0]

Held(v) == [st |-> "held", val |-> v]

Dangling(v) == [st |-> "dangling", val |-> v]

Broken == [st |-> "broken", val |-> 0]

\* The buffers TxnSharedRawData::reset may leave of r when it is given the
\* bytes of v.  No bytes are a null pointer, and then the old pointer is not
\* reset.  Bytes that were freed are freed again, unless the new ones happen
\* to have their address.
Reset(r, v) ==
  CASE r.st = "null"     -> {IF v = 0 THEN Null ELSE Held(v)}
    [] r.st = "held"     -> {IF v = 0 THEN Dangling(0) ELSE Held(v)}
    [] r.st = "dangling" -> {Broken} \cup (IF v = 0 THEN {} ELSE {Held(v)})

\* The copy of this class in user-py; Python never gives it no bytes.
PyReset(r, v) == Reset(r, v)

\* ~TxnSharedRawData.
Delete(r) == IF r.st = "dangling" THEN Broken ELSE None

Created(r) == IF r.st = "none" THEN Null ELSE r

\* TxnImp::data: the message made from the bytes; a dangling pointer has
\* size 0.
CppData(r) == r.val

\* Txn.data, txn_get: the same, and the object is not created.
PyData(r) == r.val

(***************************************************************************)
(* What an entry of user code does with the message: it may not ask for it *)
(* or leave it as val.  In C++ each call of data() makes a new message, so *)
(* that what was written through an earlier reference, meant, is lost; in  *)
(* Python the first one is kept.                                           *)
(***************************************************************************)
Untouched(seen) == [touched |-> FALSE, val |-> seen, meant |-> seen]

Touched(v, m) == [touched |-> TRUE, val |-> v, meant |-> m]

CppUses(seen) ==
  {Untouched(seen)} \cup {Touched(v, v) : v \in Values}
                    \cup {Touched(seen, m) : m \in Values}

PyUses(seen) == {Untouched(seen)} \cup {Touched(v, v) : v \in Values}

Uses(l, seen) == IF l = "cpp" THEN CppUses(seen) ELSE PyUses(seen)

\* ~TxnImp stores the message back, also after an exception.
CppStore(r, u) == IF u.touched THEN Reset(Created(r), u.val) ELSE {r}

\* txn_set: an empty message has no bytes and leaves the old ones there.
PySet(r, v) ==
  IF v = 0 THEN {Created(r)} ELSE PyReset(Created(r), v)

\* Mutant: bytes that are there are not replaced.
StoreMsgDataIfEmpty(r, u) ==
  IF u.touched /\ r.st # "held" THEN PySet(r, u.val) ELSE {r}

StoreMsgData(r, u) == IF u.touched THEN PySet(r, u.val) ELSE {r}

\* run_module_run, run_module_unpack: an exception skips storeMsgData.
PyStore(r, u, raised) == IF raised THEN {r} ELSE StoreMsgData(r, u)

Store(l, r, u, raised) ==
  IF l = "cpp" THEN CppStore(r, u) ELSE PyStore(r, u, raised)

\* The message after the entry, as far as user code can tell.
Meant(l, u, raised) ==
  IF u.touched /\ ~(l = "py" /\ raised) THEN u.meant ELSE meant

\* What an entry did that a later step may suffer from.
Notes(l, r, u, raised) ==
  {n \in {"reget", "cleared", "pyempty"} :
     CASE n = "reget"   -> u.val # u.meant
       [] n = "cleared" -> l = "cpp" /\ u.touched /\ u.val = 0 /\ r.st = "held"
       [] n = "pyempty" -> l = "py" /\ u.touched /\ ~raised /\ u.val = 0 /\ r.val # 0}

(***************************************************************************)
(* Service calls                                                           *)
(***************************************************************************)
Unused == {c \in Calls : call[c] = "unused"}

Away == {c \in Calls : call[c] \in {"out", "waiting", "back"}}

Awaited == Away \cap HasCb

\* ServiceApiReqData::serialize: no bytes for an empty request.
Serialize(empty) == IF empty THEN "none" ELSE "live"

Freed(b) == IF b = "live" THEN "freed" ELSE b

\* TxnImp::iocall: the bytes are freed at once if the call is refused.
CppRequest(accepted, empty) ==
  IF accepted THEN Serialize(empty) ELSE Freed(Serialize(empty))

\* Mutant: the request is released in any case once the call was made.
PyRequestFreed(accepted, empty) == "freed"

\* py_txn_iocall: there always is a buffer, and a refused call keeps it.
PyRequest(accepted, empty) == "live"

\* skull_txn_iocall for user code in language l that makes the calls of S,
\* which find the calls as where and the requests as held.  Those of A are
\* accepted; the others name no service, no api or no bio, or come too early.
\* Those of E have an empty request.
Iocall(S, A, E, l, where, held) ==
  /\ call' = [c \in Calls |-> IF c \notin S THEN where[c]
                              ELSE IF c \in A THEN "out" ELSE "refused"]
  /\ by' = [c \in Calls |-> IF c \in S THEN l ELSE by[c]]
  /\ req' = [c \in Calls |-> IF c \notin S THEN held[c]
                             ELSE IF l = "cpp" THEN CppRequest(c \in A, c \in E)
                             ELSE PyRequest(c \in A, c \in E)]

\* Any calls.  (One that Txn.iocall refuses for its arguments is not made.)
MakeCalls(l, where, held) ==
  \E S \in SUBSET Unused : \E A \in SUBSET S : \E E \in SUBSET S :
    Iocall(S, A, E, l, where, held)

\* sk_txn_state is INIT in unpack.
MakeRefused(l) ==
  \E S \in SUBSET Unused : \E E \in SUBSET S : Iocall(S, {}, E, l, call, req)

Up == fault = "none"

Crash(how, note) ==
  /\ fault' = how
  /\ hist' = hist \cup note
  /\ UNCHANGED <<lang, hasPack, phase, idx, raw, calls, meant>>

\* The end of an entry in language l that leaves r: the process dies of bytes
\* freed twice, or goes on.
Kept(r) ==
  /\ raw' = r
  /\ fault' = IF r.st = "broken" THEN "data freed twice" ELSE fault

(***************************************************************************)
(* Entries of modules, on the worker                                       *)
(***************************************************************************)
Init ==
  /\ lang \in [1..NumModules -> Langs]
  /\ hasPack \in {TRUE} \cup {b \in {FALSE} : lang[NumModules] = "py"}
  /\ phase \in {"unpack", "run"}        \* "run" in an autostart workflow
  /\ idx = 0
  /\ raw = None
  /\ call = [c \in Calls |-> "unused"]
  /\ by = [c \in Calls |-> "cpp"]
  /\ req = [c \in Calls |-> "none"]
  /\ resp = [c \in Calls |-> Null]
  /\ pend = [c \in Calls |-> 0]
  /\ orphan = {}
  /\ meant = 0
  /\ hist = {}
  /\ fault = "none"

\* The wrappers of the entry unpack: an exception is the result -1.
CppUnpack(raised, consumed) == raised => consumed = -1

\* So are a result that is no number and None.
PyUnpack(raised, consumed) == raised => consumed = -1

\* skull_module_unpack insists on a transaction without data, also when the
\* unpack before has asked for more input.  After an error the connection goes
\* with the half transaction, which is not packed.
Unpack ==
  /\ Up /\ phase = "unpack"
  /\ IF raw # None
     THEN Crash("aborted", {"partial"})
     ELSE \E u \in Uses(lang[1], 0), raised \in BOOLEAN, consumed \in {-1, 0, 1} :
            /\ IF lang[1] = "cpp" THEN CppUnpack(raised, consumed)
               ELSE PyUnpack(raised, consumed)
            /\ \E r \in Store(lang[1], raw, u, raised) : Kept(r)
            /\ MakeRefused(lang[1])
            /\ meant' = Meant(lang[1], u, raised)
            /\ hist' = hist \cup Notes(lang[1], raw, u, raised)
                            \cup {n \in {"badunpack"} : consumed = -1}
            /\ phase' = CASE consumed = 1  -> "run"
                          [] consumed = 0  -> "unpack"
                          [] consumed = -1 -> "gone"
            /\ UNCHANGED <<lang, hasPack, idx, resp, pend, orphan>>

\* The wrappers of the entry run: an exception is a failure.
CppRun(raised, failed) == raised => failed

\* A result that is not true is a failure too.
PyRun(raised, failed) == raised => failed

\* After the last module the engine goes on to pack, at once or, if callbacks
\* are awaited, when it is resumed.
Run ==
  /\ Up /\ phase = "run" /\ Awaited = {} /\ idx < NumModules
  /\ idx' = idx + 1
  /\ LET l == lang[idx + 1] IN
       \E u \in Uses(l, IF l = "cpp" THEN CppData(raw) ELSE PyData(raw)),
          raised, failed \in BOOLEAN :
            /\ IF l = "cpp" THEN CppRun(raised, failed) ELSE PyRun(raised, failed)
            /\ \E r \in Store(l, raw, u, raised) : Kept(r)
            /\ MakeCalls(l, call, req)
            /\ meant' = Meant(l, u, raised)
            /\ hist' = hist \cup Notes(l, raw, u, raised)
            /\ phase' = IF failed THEN "pack"
                        ELSE IF idx' < NumModules THEN "run"
                        ELSE IF Awaited' = {} THEN "pack" ELSE "resume"
  /\ UNCHANGED <<lang, hasPack, resp, pend, orphan>>

\* Found by the engine before it would run the next module.
Timeout ==
  /\ Up /\ phase = "run" /\ Awaited = {} /\ idx > 0
  /\ phase' = "pack"
  /\ UNCHANGED <<lang, hasPack, idx, raw, calls, meant, hist, fault>>

\* The wrapper of the entry pack: the data is deleted, also after an
\* exception.
CppPack(r) == Delete(r)

\* So it is in Python, ...
RunModulePack(r) == Delete(r)

\* ... but not if module_execute finds no such entry.
PyPack(r) == IF hasPack THEN RunModulePack(r) ELSE r

\* Pack may ask for the message and make calls.  In a transaction that was
\* resumed there is no current module any more, so that they have no caller.
\* The transaction stays if some call is out.
Pack ==
  /\ Up /\ phase \in {"pack", "resume"} /\ Awaited = {}
  /\ LET l == lang[NumModules] IN
       /\ Kept(IF l = "cpp" THEN CppPack(raw) ELSE PyPack(raw))
       /\ IF l = "py" /\ ~hasPack THEN UNCHANGED <<call, by, req>> ELSE MakeCalls(l, call, req)
  /\ orphan' = {c \in Unused : phase = "resume" /\ call'[c] = "out"}
  /\ phase' = IF Away' = {} THEN "gone" ELSE "packed"
  /\ UNCHANGED <<lang, hasPack, idx, resp, pend, meant, hist>>

\* WORKFLOW_RUN again, when the last call has come back after pack.
SafeDestroy ==
  /\ Up /\ phase = "packed" /\ Away = {}
  /\ phase' = "gone"
  /\ UNCHANGED <<lang, hasPack, idx, raw, calls, meant, hist, fault>>

(***************************************************************************)
(* The api of a service, on a worker or a background io engine             *)
(***************************************************************************)

\* The messages are made from these bytes.
ReqReadable(c) == req[c] # "freed"

RespReadable(c) == resp[c].st # "dangling"

Readable(c) == ReqReadable(c) /\ RespReadable(c)

\* Mutant: new bytes are entered in the task data only if there were none.
StoreRespLost(r, v) ==
  IF r.st = "held" THEN Dangling(r.val) ELSE IF v > 0 THEN Held(v) ELSE r

\* ~ServiceApiRespData: the old bytes are freed; a response that has become
\* empty leaves the pointer to them, with its size.
StoreResp(r, v) ==
  IF v > 0 THEN Held(v) ELSE IF r.st = "held" THEN Dangling(r.val) ELSE r

\* What an api, or a callback while n others are awaited, may leave pending:
\* every endpoint call and job it starts is counted.
Started(n) == n..MaxPend

\* The api returns when all it waits for has been called back.
Back(c, n) == IF n = 0 THEN "back" ELSE "waiting"

\* The queue of the service is full: the api is not run.
Busy(c) ==
  /\ Up /\ call[c] = "out"
  /\ call' = [call EXCEPT ![c] = "back"]
  /\ UNCHANGED <<lang, hasPack, phase, idx, raw, by, req, resp, pend, orphan, meant, hist, fault>>

\* The request is read, see RequestHeld.  An exception makes the api fail,
\* which the engine does not accept.
SrvIocall(c) ==
  /\ Up /\ call[c] = "out"
  /\ \/ Crash("aborted", {"threw"})
     \/ /\ \E v \in Responses, n \in Started(0) :
             /\ resp' = [resp EXCEPT ![c] = StoreResp(@, v)]
             /\ pend' = [pend EXCEPT ![c] = n]
             /\ call' = [call EXCEPT ![c] = Back(c, n)]
        /\ UNCHANGED <<lang, hasPack, phase, idx, raw, by, req, orphan, meant, hist, fault>>

\* One of them has been called back and the response is now r.
PendingDone(c, r) ==
  /\ resp' = [resp EXCEPT ![c] = r]
  /\ \E n \in Started(pend[c] - 1) :
       /\ pend' = [pend EXCEPT ![c] = n]
       /\ call' = [call EXCEPT ![c] = Back(c, n)]
  /\ UNCHANGED <<lang, hasPack, phase, idx, raw, by, req, orphan, meant, fault>>

\* rawEpPendingCb gives the callback, if there is one, request and response.
\* Nothing catches an exception.
EpCb(c) ==
  /\ Up /\ call[c] = "waiting"
  /\ \/ PendingDone(c, resp[c]) /\ UNCHANGED hist
     \/ ~Readable(c) /\ Crash("freed bytes read", {})
     \/ Readable(c) /\ Crash("aborted", {"threw"})
     \/ Readable(c) /\ \E v \in Responses :
          /\ PendingDone(c, StoreResp(resp[c], v))
          /\ hist' = hist \cup {n \in {"respcleared"} : v = 0 /\ resp[c].st = "held"}

\* The object meant to have request and response for a job: a temporary makes
\* them from the bytes, and stores the same response again.
JobData(c) == StoreResp(resp[c], resp[c].val)

\* _job_triggered gives the job that object; asking it for them aborts.
JobCb(c) ==
  /\ Up /\ call[c] = "waiting"
  /\ \/ ~Readable(c) /\ Crash("freed bytes read", {})
     \/ Readable(c) /\ \E why \in {"jobdata", "threw"} : Crash("aborted", {why})
     \/ Readable(c) /\ PendingDone(c, JobData(c)) /\ UNCHANGED hist

(***************************************************************************)
(* SVC_TASK_CB, on the worker                                              *)
(***************************************************************************)

\* skull_srv_iocomplete releases the response.
Iocomplete(c) == resp' = [resp EXCEPT ![c] = Null]

\* _skull_svc_api_callback releases the request.
CppCallback(c) == Freed(req[c])

\* _api_cb does as well.
PyCallback(c) == Freed(req[c])

\* The handler begins with the name of the module that made the call, also
\* when the api has only returned and waits.
NoCaller(c) ==
  /\ Up /\ c \in orphan /\ call[c] \in {"waiting", "back"}
  /\ Crash("no caller", {})

\* A call without a callback: nothing releases its request.
CompleteNoCb(c) ==
  /\ Up /\ call[c] = "back" /\ c \notin orphan /\ c \notin HasCb
  /\ IF resp[c].st = "dangling"
     THEN Crash("response freed twice", {})
     ELSE /\ call' = [call EXCEPT ![c] = "done"]
          /\ Iocomplete(c)
          /\ UNCHANGED <<lang, hasPack, phase, idx, raw, by, req, pend, orphan,
                         meant, hist, fault>>

\* With one: it may use the message, make further calls, and fail.  Once the
\* transaction is packed, failing and asking for its status (skull_txn_status)
\* abort.  Nothing catches an exception in C++.
CompleteCb(c) ==
  /\ Up /\ call[c] = "back" /\ c \notin orphan /\ c \in HasCb
  /\ \/ ~Readable(c) /\ Crash("freed bytes read", {})
     \/ Readable(c) /\ phase = "packed" /\ Crash("aborted", {})
     \/ Readable(c) /\ by[c] = "cpp" /\ Crash("aborted", {"threw"})
     \/ /\ Readable(c)
        /\ LET l == by[c] IN
             \E u \in Uses(l, IF l = "cpp" THEN CppData(raw) ELSE PyData(raw)),
                raised, failed \in BOOLEAN :
               /\ IF l = "cpp" THEN ~raised ELSE PyRun(raised, failed)
               /\ phase = "packed" => ~failed
               /\ \E r \in Store(l, raw, u, raised) : Kept(r)
               /\ MakeCalls(l, [call EXCEPT ![c] = "done"],
                            [req EXCEPT ![c] = IF l = "cpp" THEN CppCallback(c)
                                               ELSE PyCallback(c)])
               /\ meant' = Meant(l, u, raised)
               /\ hist' = hist \cup Notes(l, raw, u, raised)
                               \cup {n \in {"late"} : phase = "packed" /\ u.touched}
               /\ phase' = IF failed THEN "pack" ELSE phase
        /\ Iocomplete(c)
        /\ UNCHANGED <<lang, hasPack, idx, pend, orphan>>

(***************************************************************************)
(* The specification                                                       *)
(***************************************************************************)
Next ==
  \/ Unpack \/ Run \/ Timeout \/ Pack \/ SafeDestroy
  \/ \E c \in Calls :
       \/ Busy(c) \/ SrvIocall(c) \/ EpCb(c) \/ JobCb(c)
       \/ NoCaller(c) \/ CompleteNoCb(c) \/ CompleteCb(c)

Spec == Init /\ [][Next]_vars

(***************************************************************************)
(* Properties                                                              *)
(***************************************************************************)
TypeOK ==
  /\ phase \in {"unpack", "run", "resume", "pack", "packed", "gone"}
  /\ idx \in 0..NumModules
  /\ raw \in [st : {"none", "null", "held", "dangling", "broken"}, val : Values]
  /\ call \in [Calls -> {"unused", "refused", "out", "waiting", "back", "done"}]
  /\ req \in [Calls -> {"none", "live", "freed"}]
  /\ resp \in [Calls -> [st : {"null", "held", "dangling"}, val : Responses]]
  /\ pend \in [Calls -> 0..MaxPend]
  /\ orphan \subseteq Calls

\* From the call until its callback has run the request is not released, on
\* whichever engine the service reads it.
RequestHeld == \A c \in Away : req[c] # "freed"

\* There are response bytes only while the call is on its way back.
ResponseHeld == \A c \in Calls : call[c] \notin {"waiting", "back"} => resp[c] = Null

\* What is left when the transaction has gone: the request of a call without
\* callback, or of one that Python was refused; and the message, after an
\* unpack that failed, after a Python module without pack, or if a callback
\* has used it after pack.
LeftBehind ==
  phase = "gone" /\ Up =>
    /\ \A c \in Calls :
         req[c] = "live" => c \notin HasCb \/ (call[c] = "refused" /\ by[c] = "py")
    /\ raw # None =>
         \/ hist \cap {"badunpack", "late"} # {}
         \/ lang[NumModules] = "py" /\ ~hasPack

\* The buffers of a transaction: each has one owner until it is released.
IInv == TypeOK /\ RequestHeld /\ ResponseHeld /\ LeftBehind

\* A module reads the message as the modules and callbacks before it have
\* left it, whatever their languages, unless a C++ entry has asked for the
\* message twice or a Python one has emptied it.
DataKept ==
  Up /\ phase \in {"run", "resume", "pack"} =>
     raw.val = meant \/ hist \cap {"reget", "pyempty"} # {}

\* A callback that runs once the transaction is packed: of a call that pack,
\* or another such callback, has made.
LateCallback == phase = "packed" /\ \E c \in HasCb \ orphan : call[c] = "back"

\* The workflow was resumed after its last module, which awaited a callback,
\* and pack has made a call then.
PackAfterResume ==
  /\ phase = "packed" /\ idx = NumModules /\ orphan # {}
  /\ \E c \in HasCb \ orphan : call[c] = "done"

\* The ways to end the process from user code: a C++ entry that empties the
\* message, an endpoint callback that empties the response, an unpack that
\* uses the message and asks for more input, an api or a C++ callback that
\* throws, a job that asks for its data, a callback after pack that fails or
\* asks for the status, a call that pack makes in a workflow whose last module
\* awaited a callback.
FaultCause ==
  /\ fault = "data freed twice" => "cleared" \in hist
  /\ fault \in {"freed bytes read", "response freed twice"} => "respcleared" \in hist
  /\ fault = "aborted" => hist \cap {"partial", "threw", "jobdata"} # {} \/ LateCallback
  /\ fault = "no caller" => PackAfterResume
=============================================================================
