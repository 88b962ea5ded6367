---------------------------- MODULE SkUser_proofs ----------------------------
(***************************************************************************)
(* Proofs about SkUser, for any workflow, any service calls and any        *)
(* messages.  The three buffers are followed separately: what an entry of  *)
(* user code does to the message (EntryFacts), what calls do to requests   *)
(* (IocallFacts) and what apis and callbacks do to responses (RespFacts);  *)
(* UserInv joins them with the phases of the transaction.                  *)
(***************************************************************************)
EXTENDS SkUser, TLAPS

RawStates == {"none", "null", "held", "dangling", "broken"}
CallStates == {"unused", "refused", "out", "waiting", "back", "done"}
AwayStates == {"out", "waiting", "back"}
ReqStates == {"none", "live", "freed"}

(* The types TypeOK leaves out.                                            *)
MoreTypes ==
  /\ lang \in [1..NumModules -> Langs] /\ hasPack \in BOOLEAN
  /\ by \in [Calls -> Langs] /\ meant \in Values

(* A message buffer: only bytes that are held have a value.                *)
BufferOK(r) == r \in [st : RawStates, val : Values] /\ (r.st = "held" \/ r.val = 0)

(* The message: a dangling pointer has a cause, and bytes freed twice end  *)
(* the process.                                                            *)
DataInv ==
  /\ BufferOK(raw)
  /\ raw.st = "dangling" => "cleared" \in hist
  /\ raw.st = "broken" => fault # "none"
  /\ fault = "data freed twice" => "cleared" \in hist

KeptInv ==
  Up /\ phase \in {"unpack", "run", "resume", "pack"} =>
    raw.val = meant \/ hist \cap {"reget", "pyempty"} # {}

(* The requests q of calls at k, made in languages b: held while the call  *)
(* is away, released after it unless nothing releases it.                  *)
RequestsOK(k, q, b) ==
  \A c \in Calls :
    /\ k[c] \in AwayStates => q[c] # "freed"
    /\ q[c] = "live" => k[c] \in AwayStates \/ c \notin HasCb \/ (k[c] = "refused" /\ b[c] = "py")

(* The responses: there are bytes only while the api waits or the call is  *)
(* on its way back, and a dangling pointer has a cause.                    *)
RespOK(c) ==
  /\ resp[c] \in {Null, Held(1), Dangling(0), Dangling(1)}
  /\ call[c] \notin {"waiting", "back"} => resp[c] = Null
  /\ resp[c].st = "dangling" => "respcleared" \in hist
  /\ call[c] = "waiting" => pend[c] > 0

RespInv == \A c \in Calls : RespOK(c)

(* The phases: no call is away before the first module has run or after    *)
(* the transaction has gone, and what a packed one has left has a reason.  *)
PhaseInv ==
  /\ phase \in {"unpack", "gone"} => \A c \in Calls : call[c] \notin AwayStates
  /\ phase \in {"packed", "gone"} /\ Up /\ raw # None =>
       \/ hist \cap {"badunpack", "late"} # {}
       \/ lang[NumModules] = "py" /\ ~hasPack

(* A call whose callback has run is done for good.                         *)
SomeDone == \E c \in HasCb \ orphan : call[c] = "done"

(* Calls without a caller: they are made by pack, when the callbacks the   *)
(* last module has awaited are done.                                       *)
OrphanInv ==
  /\ orphan # {} => phase \in {"packed", "gone"} /\ idx = NumModules /\ SomeDone
  /\ phase = "resume" =>
       /\ idx = NumModules
       /\ \E c \in HasCb : call[c] \in AwayStates \cup {"done"}

UserInv ==
  /\ TypeOK /\ MoreTypes /\ DataInv /\ KeptInv /\ RequestsOK(call, req, by)
  /\ RespInv /\ PhaseInv /\ OrphanInv /\ FaultCause

------------------------------------------------------------------------------
(* TxnSharedRawData::reset: what is there is what was given, unless bytes  *)
(* are freed twice; the pointer dangles only after no bytes were given.    *)
LEMMA ResetFacts ==
  ASSUME NEW r, BufferOK(r), r.st \in {"null", "held", "dangling"},
         NEW v \in Values, NEW s \in Reset(r, v)
  PROVE  /\ BufferOK(s) /\ s.st # "none"
         /\ s.st = "broken" \/ s.val = v
         /\ s.st = "dangling" => v = 0 /\ r.st = "held"
         /\ s.st = "broken" => r.st = "dangling"
<1>1. 0 \in Values
  BY UserAssumption DEF Values
<1>2. CASE r.st = "null"
  BY <1>1, <1>2 DEF Reset, BufferOK, RawStates, Null, Held
<1>3. CASE r.st = "held"
  BY <1>1, <1>3 DEF Reset, BufferOK, RawStates, Dangling, Held
<1>4. CASE r.st = "dangling"
  BY <1>1, <1>4 DEF Reset, BufferOK, RawStates, Broken, Held
<1> QED
  BY <1>2, <1>3, <1>4

(* An entry of user code and the message.                                  *)
Entry(l, u, raised, r) ==
  /\ u \in Uses(l, raw.val) /\ raised \in BOOLEAN /\ r \in Store(l, raw, u, raised)

LEMMA UseFacts ==
  ASSUME NEW l \in Langs, NEW seen \in Values, NEW u \in Uses(l, seen)
  PROVE  /\ u.touched \in BOOLEAN /\ u.val \in Values /\ u.meant \in Values
         /\ ~u.touched => u.val = seen /\ u.meant = seen
         /\ l = "py" => u.val = u.meant
<1>1. ASSUME u = Untouched(seen)
      PROVE  u.touched = FALSE /\ u.val = seen /\ u.meant = seen
  BY <1>1 DEF Untouched
<1>2. ASSUME NEW v \in Values, u = Touched(v, v)
      PROVE  u.touched = TRUE /\ u.val = v /\ u.meant = v
  BY <1>2 DEF Touched
<1>3. ASSUME NEW m \in Values, u = Touched(seen, m)
      PROVE  u.touched = TRUE /\ u.val = seen /\ u.meant = m
  BY <1>3 DEF Touched
<1>4. \/ u = Untouched(seen)
      \/ \E v \in Values : u = Touched(v, v)
      \/ l = "cpp" /\ \E m \in Values : u = Touched(seen, m)
  BY DEF Uses, CppUses, PyUses, Langs
<1>5. CASE u = Untouched(seen)
  BY <1>1, <1>5
<1>6. CASE \E v \in Values : u = Touched(v, v)
  BY <1>2, <1>6
<1>7. CASE l = "cpp" /\ \E m \in Values : u = Touched(seen, m)
  BY <1>3, <1>7
<1> QED
  BY <1>4, <1>5, <1>6, <1>7

LEMMA EntryFacts ==
  ASSUME DataInv, MoreTypes, Up, NEW l \in Langs, NEW u, NEW raised, NEW r,
         Entry(l, u, raised, r)
  PROVE  /\ BufferOK(r) /\ Meant(l, u, raised) \in Values
         /\ r.st \in {"dangling", "broken"} => "cleared" \in hist \cup Notes(l, raw, u, raised)
         /\ ~u.touched => r = raw
         /\ \/ r.st = "broken"
            \/ r.val = Meant(l, u, raised)
            \/ Notes(l, raw, u, raised) \cap {"reget", "pyempty"} # {}
            \/ r.val = raw.val /\ Meant(l, u, raised) = meant
<1> DEFINE N == Notes(l, raw, u, raised)
<1>0. /\ BufferOK(raw) /\ raw.st # "broken" /\ raw.val \in Values
      /\ raw.st = "dangling" => "cleared" \in hist
      /\ meant \in Values /\ 0 \in Values
  BY UserAssumption DEF DataInv, BufferOK, Up, MoreTypes, Values
<1>1. /\ u.touched \in BOOLEAN /\ u.val \in Values /\ u.meant \in Values
      /\ ~u.touched => u.val = raw.val /\ u.meant = raw.val
      /\ l = "py" => u.val = u.meant
  BY <1>0, UseFacts DEF Entry
<1>2. /\ "reget" \in N <=> u.val # u.meant
      /\ "cleared" \in N <=> (l = "cpp" /\ u.touched /\ u.val = 0 /\ raw.st = "held")
      /\ "pyempty" \in N <=>
           (l = "py" /\ u.touched /\ ~raised /\ u.val = 0 /\ raw.val # 0)
  BY DEF Notes
<1>3. /\ BufferOK(Created(raw)) /\ Created(raw).val = raw.val
      /\ Created(raw).st \in {"null", "held", "dangling"}
      /\ Created(raw).st \in {"held", "dangling"} => Created(raw) = raw
  BY <1>0 DEF Created, Null, BufferOK, RawStates
<1> HIDE DEF N
<1>4. CASE ~u.touched
  <2>1. r = raw /\ Meant(l, u, raised) = meant
    BY <1>4 DEF Entry, Store, CppStore, PyStore, StoreMsgData, Meant
  <2> QED
    BY <1>0, <1>4, <2>1 DEF N
<1>5. CASE u.touched /\ l = "cpp"
  <2>1. r \in Reset(Created(raw), u.val) /\ Meant(l, u, raised) = u.meant
    BY <1>5 DEF Entry, Store, CppStore, Meant
  <2>2. /\ BufferOK(r) /\ (r.st = "broken" \/ r.val = u.val)
        /\ r.st = "dangling" => u.val = 0 /\ Created(raw).st = "held"
        /\ r.st = "broken" => Created(raw).st = "dangling"
    BY <1>1, <1>3, <2>1, ResetFacts
  <2>3. r.st \in {"dangling", "broken"} => "cleared" \in hist \cup N
    BY <1>0, <1>2, <1>3, <1>5, <2>2
  <2>4. r.val = u.meant \/ r.st = "broken" \/ "reget" \in N
    BY <1>2, <2>2
  <2> QED
    BY <1>1, <1>5, <2>1, <2>2, <2>3, <2>4 DEF N
<1>6. CASE u.touched /\ l = "py" /\ raised
  <2>1. r = raw /\ Meant(l, u, raised) = meant
    BY <1>6 DEF Entry, Store, PyStore, Meant
  <2> QED
    BY <1>0, <1>6, <2>1 DEF N
<1>7. CASE u.touched /\ l = "py" /\ ~raised
  <2>1. r \in PySet(raw, u.val) /\ Meant(l, u, raised) = u.val
    BY <1>1, <1>7 DEF Entry, Store, PyStore, StoreMsgData, Meant
  <2>2. CASE u.val = 0
    <3>1. r = Created(raw)
      BY <2>1, <2>2 DEF PySet
    <3>2. raw.val = 0 \/ "pyempty" \in N
      BY <1>2, <1>7, <2>2
    <3> QED
      BY <1>0, <1>1, <1>3, <1>7, <2>1, <2>2, <3>1, <3>2 DEF N
  <2>3. CASE u.val # 0
    <3>1. r \in Reset(Created(raw), u.val)
      BY <2>1, <2>3 DEF PySet, PyReset
    <3>2. /\ BufferOK(r) /\ (r.st = "broken" \/ r.val = u.val) /\ r.st # "dangling"
          /\ r.st = "broken" => Created(raw).st = "dangling"
      BY <1>1, <1>3, <2>3, <3>1, ResetFacts
    <3> QED
      BY <1>0, <1>1, <1>3, <1>7, <2>1, <3>2 DEF N
  <2> QED
    BY <2>2, <2>3
<1> QED
  BY <1>1, <1>4, <1>5, <1>6, <1>7 DEF Langs, Entry

(* What becomes of the message after an entry.                             *)
LEMMA DataStep ==
  ASSUME DataInv, MoreTypes, KeptInv, Up, NEW l \in Langs, NEW u, NEW raised, NEW r,
         Entry(l, u, raised, r), Kept(r), meant' = Meant(l, u, raised),
         hist \subseteq hist', Notes(l, raw, u, raised) \subseteq hist'
  PROVE  /\ DataInv' /\ meant' \in Values
         /\ ~u.touched => raw' = raw
         /\ phase \in {"unpack", "run", "resume", "pack"} /\ Up' =>
              raw'.val = meant' \/ hist' \cap {"reget", "pyempty"} # {}
<1>1. /\ BufferOK(r) /\ Meant(l, u, raised) \in Values
      /\ r.st \in {"dangling", "broken"} => "cleared" \in hist \cup Notes(l, raw, u, raised)
      /\ ~u.touched => r = raw
      /\ \/ r.st = "broken"
         \/ r.val = Meant(l, u, raised)
         \/ Notes(l, raw, u, raised) \cap {"reget", "pyempty"} # {}
         \/ r.val = raw.val /\ Meant(l, u, raised) = meant
  BY EntryFacts
<1>2. raw' = r /\ fault' = IF r.st = "broken" THEN "data freed twice" ELSE fault
  BY DEF Kept
<1>3. fault = "none"
  BY DEF Up
<1>4. BufferOK(raw)'
  BY <1>1, <1>2 DEF BufferOK
<1>5. DataInv'
  BY <1>1, <1>2, <1>3, <1>4 DEF DataInv
<1>6. phase \in {"unpack", "run", "resume", "pack"} =>
        raw.val = meant \/ hist \cap {"reget", "pyempty"} # {}
  BY DEF KeptInv
<1>7. phase \in {"unpack", "run", "resume", "pack"} /\ Up' =>
        raw'.val = meant' \/ hist' \cap {"reget", "pyempty"} # {}
  BY <1>1, <1>2, <1>6 DEF Up
<1> QED
  BY <1>1, <1>2, <1>5, <1>7

------------------------------------------------------------------------------
(* A request and the call it is for, however user code makes it.           *)
LEMMA RequestFacts ==
  ASSUME NEW accepted \in BOOLEAN, NEW empty \in BOOLEAN
  PROVE  /\ CppRequest(accepted, empty) \in ReqStates
         /\ accepted => CppRequest(accepted, empty) # "freed"
         /\ ~accepted => CppRequest(accepted, empty) # "live"
         /\ PyRequest(accepted, empty) = "live"
BY DEF CppRequest, PyRequest, Serialize, Freed, ReqStates

(* The calls an entry makes leave the others alone.                        *)
LEMMA IocallFacts ==
  ASSUME NEW where \in [Calls -> CallStates], NEW held \in [Calls -> ReqStates],
         by \in [Calls -> Langs], RequestsOK(where, held, by),
         NEW S \in SUBSET Calls, \A c \in S : where[c] = "unused",
         NEW A \in SUBSET S, NEW E \in SUBSET S, NEW l \in Langs,
         Iocall(S, A, E, l, where, held)
  PROVE  /\ call' \in [Calls -> CallStates] /\ by' \in [Calls -> Langs]
         /\ req' \in [Calls -> ReqStates] /\ RequestsOK(call', req', by')
         /\ \A c \in Calls : \/ call'[c] = where[c]
                             \/ where[c] = "unused" /\ call'[c] = "refused"
                             \/ where[c] = "unused" /\ call'[c] = "out" /\ A # {}
<1>1. \A c \in Calls :
        /\ c \notin S => call'[c] = where[c] /\ by'[c] = by[c] /\ req'[c] = held[c]
        /\ c \in S /\ c \in A => call'[c] = "out" /\ by'[c] = l
        /\ c \in S /\ c \notin A => call'[c] = "refused" /\ by'[c] = l
  BY DEF Iocall
<1>2. \A c \in S : /\ req'[c] \in ReqStates
                   /\ c \in A => req'[c] # "freed"
                   /\ c \notin A /\ l = "cpp" => req'[c] # "live"
  <2> TAKE c \in S
  <2>1. req'[c] = IF l = "cpp" THEN CppRequest(c \in A, c \in E)
                  ELSE PyRequest(c \in A, c \in E)
    BY DEF Iocall
  <2>2. (c \in A) \in BOOLEAN /\ (c \in E) \in BOOLEAN
    OBVIOUS
  <2>3. /\ CppRequest(c \in A, c \in E) \in ReqStates
        /\ (c \in A) => CppRequest(c \in A, c \in E) # "freed"
        /\ ~(c \in A) => CppRequest(c \in A, c \in E) # "live"
        /\ PyRequest(c \in A, c \in E) = "live"
    BY <2>2, RequestFacts
  <2> QED
    BY <2>1, <2>3 DEF ReqStates
<1>3. call' \in [Calls -> CallStates]
  BY DEF Iocall, CallStates
<1>4. by' \in [Calls -> Langs]
  BY DEF Iocall
<1>5. req' \in [Calls -> ReqStates]
  <2>1. req' = [c \in Calls |-> req'[c]]
    BY DEF Iocall
  <2>2. \A c \in Calls : req'[c] \in ReqStates
    BY <1>1, <1>2
  <2> QED
    BY <2>1, <2>2
<1>6. RequestsOK(call', req', by')
  <2> SUFFICES ASSUME NEW c \in Calls
               PROVE  /\ call'[c] \in AwayStates => req'[c] # "freed"
                      /\ req'[c] = "live" =>
                           \/ call'[c] \in AwayStates
                           \/ c \notin HasCb
                           \/ call'[c] = "refused" /\ by'[c] = "py"
    BY DEF RequestsOK
  <2>1. CASE c \notin S
    BY <1>1, <2>1 DEF RequestsOK
  <2>2. CASE c \in S /\ c \in A
    BY <1>1, <1>2, <2>2 DEF AwayStates
  <2>3. CASE c \in S /\ c \notin A
    BY <1>1, <1>2, <2>3 DEF AwayStates, Langs
  <2> QED
    BY <2>1, <2>2, <2>3
<1> QED
  BY <1>1, <1>3, <1>4, <1>5, <1>6

(* The calls of an entry that finds them at where, in unpack and elsewhere. *)
LEMMA CallsFacts ==
  ASSUME NEW where \in [Calls -> CallStates], NEW held \in [Calls -> ReqStates],
         by \in [Calls -> Langs], RequestsOK(where, held, by),
         \A c \in Unused : where[c] = "unused", NEW l \in Langs,
         MakeCalls(l, where, held)
  PROVE  /\ call' \in [Calls -> CallStates] /\ by' \in [Calls -> Langs]
         /\ req' \in [Calls -> ReqStates] /\ RequestsOK(call', req', by')
         /\ \A c \in Calls : \/ call'[c] = where[c]
                             \/ where[c] = "unused" /\ call'[c] \in {"refused", "out"}
<1>1. PICK S \in SUBSET Unused :
             \E A \in SUBSET S : \E E \in SUBSET S : Iocall(S, A, E, l, where, held)
  BY DEF MakeCalls
<1>2. PICK A \in SUBSET S, E \in SUBSET S : Iocall(S, A, E, l, where, held)
  BY <1>1
<1>3. S \in SUBSET Calls /\ \A c \in S : where[c] = "unused"
  BY DEF Unused
<1> QED
  BY <1>2, <1>3, IocallFacts, ZenonT(60)

LEMMA RefusedFacts ==
  ASSUME call \in [Calls -> CallStates], req \in [Calls -> ReqStates],
         by \in [Calls -> Langs], RequestsOK(call, req, by), NEW l \in Langs,
         MakeRefused(l)
  PROVE  /\ call' \in [Calls -> CallStates] /\ by' \in [Calls -> Langs]
         /\ req' \in [Calls -> ReqStates] /\ RequestsOK(call', req', by')
         /\ \A c \in Calls : \/ call'[c] = call[c]
                             \/ call[c] = "unused" /\ call'[c] = "refused"
<1>0. PICK S \in SUBSET Unused : \E E \in SUBSET S : Iocall(S, {}, E, l, call, req)
  BY DEF MakeRefused
<1>1. PICK E \in SUBSET S : Iocall(S, {}, E, l, call, req)
  BY <1>0
<1>2. S \in SUBSET Calls /\ \A c \in S : call[c] = "unused"
  BY DEF Unused
<1> DEFINE A == {}
<1>3. A \in SUBSET S /\ Iocall(S, A, E, l, call, req)
  BY <1>1
<1>5. A = {}
  OBVIOUS
<1> HIDE DEF A
<1>4. /\ call' \in [Calls -> CallStates] /\ by' \in [Calls -> Langs]
      /\ req' \in [Calls -> ReqStates] /\ RequestsOK(call', req', by')
      /\ \A c \in Calls : \/ call'[c] = call[c]
                          \/ call[c] = "unused" /\ call'[c] = "refused"
                          \/ call[c] = "unused" /\ call'[c] = "out" /\ A # {}
  BY <1>2, <1>3, IocallFacts, ZenonT(60)
<1> QED
  BY <1>4, <1>5

(* Responses change only for the calls of D.                               *)
LEMMA RespStep ==
  ASSUME RespInv, hist \subseteq hist', NEW D \in SUBSET Calls,
         \A x \in Calls \ D :
           /\ resp'[x] = resp[x] /\ pend'[x] = pend[x]
           /\ \/ call'[x] = call[x]
              \/ call[x] = "unused" /\ call'[x] \in {"refused", "out"},
         \A x \in D : RespOK(x)'
  PROVE  RespInv'
<1> SUFFICES ASSUME NEW x \in Calls \ D
             PROVE  RespOK(x)'
  BY DEF RespInv
<1>1. RespOK(x)
  BY DEF RespInv
<1> QED
  BY <1>1 DEF RespOK

(* No call moves but those that are made.                                  *)
OnlyNewCalls ==
  \A x \in Calls : \/ call'[x] = call[x]
                   \/ call[x] = "unused" /\ call'[x] \in {"refused", "out"}

LEMMA RespKept ==
  ASSUME RespInv, hist \subseteq hist', resp' = resp, pend' = pend, OnlyNewCalls
  PROVE  RespInv'
<1>1. {} \in SUBSET Calls
  OBVIOUS
<1> QED
  BY <1>1, RespStep DEF OnlyNewCalls

(* The end of the process with a cause.                                    *)
LEMMA CrashStep ==
  ASSUME UserInv, Up, NEW how, NEW note, Crash(how, note),
         \/ how \in {"freed bytes read", "response freed twice"} /\ "respcleared" \in hist
         \/ how = "aborted" /\ (note \cap {"partial", "threw", "jobdata"} # {} \/ LateCallback)
         \/ how = "no caller" /\ PackAfterResume
  PROVE  UserInv'
<1>1. /\ fault' = how /\ hist' = hist \cup note
      /\ UNCHANGED <<lang, hasPack, phase, idx, raw, call, by, req, resp, pend, orphan, meant>>
  BY DEF Crash, calls
<1>2. (TypeOK /\ MoreTypes)'
  BY <1>1 DEF UserInv, TypeOK, MoreTypes
<1>3. DataInv' /\ KeptInv'
  BY <1>1 DEF UserInv, DataInv, KeptInv, BufferOK, Up
<1>4. RequestsOK(call, req, by)'
  BY <1>1 DEF UserInv, RequestsOK
<1>5. RespInv'
  BY <1>1 DEF UserInv, RespInv, RespOK
<1>6. PhaseInv'
  BY <1>1 DEF UserInv, PhaseInv, Up
<1>7. FaultCause'
  BY <1>1 DEF FaultCause, LateCallback, PackAfterResume
<1>8. OrphanInv'
  BY <1>1 DEF UserInv, OrphanInv, SomeDone
<1> QED
  BY <1>2, <1>3, <1>4, <1>5, <1>6, <1>7, <1>8 DEF UserInv

------------------------------------------------------------------------------
(* The parts of the invariant an action of the engine leaves alone.        *)
LEMMA Steady ==
  ASSUME UserInv, Up, UNCHANGED <<lang, hasPack, raw, meant, hist, fault>>
  PROVE  /\ DataInv' /\ FaultCause' /\ Up'
         /\ phase' \in {"unpack", "run", "resume", "pack"} /\ phase \in {"unpack", "run", "resume", "pack"}
              => KeptInv'
         /\ phase' \in {"packed", "gone"} => KeptInv'
BY DEF UserInv, DataInv, BufferOK, FaultCause, Up, KeptInv

(* The phase goes on and calls move, but the ones that are done stay so.   *)
LEMMA OrphanStep ==
  ASSUME UserInv, UNCHANGED <<idx, orphan>>,
         phase' = phase \/ (orphan = {} /\ phase' # "resume") \/ phase' \in {"packed", "gone"},
         \A c \in Calls : call[c] = "done" => call'[c] = "done",
         phase' = "resume" => \A c \in Calls :
           call[c] \in AwayStates => call'[c] \in AwayStates \cup {"done"}
  PROVE  OrphanInv'
<1>1. ASSUME orphan' # {}
      PROVE  phase' \in {"packed", "gone"} /\ idx' = NumModules /\ SomeDone'
  <2>1. phase \in {"packed", "gone"} /\ idx = NumModules
    BY <1>1 DEF UserInv, OrphanInv
  <2>2. PICK c \in HasCb \ orphan : call[c] = "done"
    BY <1>1 DEF UserInv, OrphanInv, SomeDone
  <2>3. call'[c] = "done"
    BY <2>2, UserAssumption
  <2> QED
    BY <1>1, <2>1, <2>2, <2>3 DEF SomeDone
<1>2. ASSUME phase' = "resume"
      PROVE  idx' = NumModules /\ \E c \in HasCb : call'[c] \in AwayStates \cup {"done"}
  <2>1. phase = "resume" /\ idx = NumModules
    BY <1>2 DEF UserInv, OrphanInv
  <2>2. PICK c \in HasCb : call[c] \in AwayStates \cup {"done"}
    BY <2>1 DEF UserInv, OrphanInv
  <2>3. call'[c] \in AwayStates \cup {"done"}
    BY <1>2, <2>2, UserAssumption
  <2> QED
    BY <2>1, <2>3
<1> QED
  BY <1>1, <1>2 DEF OrphanInv

LEMMA InitInv == Init => UserInv
<1> SUFFICES ASSUME Init
             PROVE  UserInv
  OBVIOUS
<1>1. 0 \in Values /\ 0 \in 0..MaxPend /\ 0 \in 0..NumModules
  BY UserAssumption DEF Values
<1>2. TypeOK
  BY <1>1 DEF Init, TypeOK, None, Null, Responses
<1>3. MoreTypes
  BY <1>1 DEF Init, MoreTypes, Langs
<1>4. DataInv /\ KeptInv /\ FaultCause
  BY <1>1 DEF Init, DataInv, BufferOK, RawStates, None, KeptInv, FaultCause
<1>5. RequestsOK(call, req, by)
  BY DEF Init, RequestsOK, AwayStates
<1>6. RespInv
  BY DEF Init, RespInv, RespOK, Null
<1>7. PhaseInv /\ OrphanInv
  BY DEF Init, PhaseInv, OrphanInv, AwayStates
<1> QED
  BY <1>2, <1>3, <1>4, <1>5, <1>6, <1>7 DEF UserInv

(* The types an entry of a module keeps.                                   *)
LEMMA EntryTypes ==
  ASSUME TypeOK, MoreTypes, UNCHANGED <<lang, hasPack>>, DataInv', meant' \in Values,
         call' \in [Calls -> CallStates], by' \in [Calls -> Langs],
         req' \in [Calls -> ReqStates],
         resp' \in [Calls -> [st : {"null", "held", "dangling"}, val : Responses]],
         pend' \in [Calls -> 0..MaxPend], orphan' \subseteq Calls, idx' \in 0..NumModules,
         phase' \in {"unpack", "run", "resume", "pack", "packed", "gone"}
  PROVE  TypeOK' /\ MoreTypes'
<1>1. raw' \in [st : RawStates, val : Values]
  BY DEF DataInv, BufferOK
<1>2. TypeOK'
  BY <1>1 DEF TypeOK, RawStates, CallStates, ReqStates
<1>3. MoreTypes'
  BY DEF MoreTypes
<1> QED
  BY <1>2, <1>3

(* An entry adds no other fault than bytes freed twice.                    *)
LEMMA EntryFault ==
  ASSUME Up, FaultCause, DataInv', NEW r, Kept(r)
  PROVE  FaultCause'
<1>1. fault' \in {"none", "data freed twice"}
  BY DEF Kept, Up
<1>2. fault' = "data freed twice" => "cleared" \in hist'
  BY DEF DataInv
<1> QED
  BY <1>1, <1>2 DEF FaultCause

LEMMA UnpackStep == UserInv /\ Unpack => UserInv'
<1> SUFFICES ASSUME UserInv, Unpack
             PROVE  UserInv'
  OBVIOUS
<1>0. Up /\ phase = "unpack"
  BY DEF Unpack
<1>1. CASE raw # None
  <2>1. Crash("aborted", {"partial"})
    BY <1>1 DEF Unpack
  <2> QED
    BY <1>0, <2>1, CrashStep
<1>2. CASE raw = None
  <2> DEFINE l == lang[1]
  <2>1. PICK u \in Uses(l, 0), raised \in BOOLEAN, consumed \in {-1, 0, 1} :
            /\ \E r \in Store(l, raw, u, raised) : Kept(r)
            /\ MakeRefused(l)
            /\ meant' = Meant(l, u, raised)
            /\ hist' = hist \cup Notes(l, raw, u, raised)
                            \cup {n \in {"badunpack"} : consumed = -1}
            /\ phase' = CASE consumed = 1  -> "run"
                          [] consumed = 0  -> "unpack"
                          [] consumed = -1 -> "gone"
            /\ UNCHANGED <<lang, hasPack, idx, resp, pend, orphan>>
    BY <1>2 DEF Unpack
  <2>2. PICK r \in Store(l, raw, u, raised) : Kept(r)
    BY <2>1
  <2>3. l \in Langs
    BY UserAssumption DEF UserInv, MoreTypes
  <2> HIDE DEF l
  <2>4. Entry(l, u, raised, r)
    BY <1>2, <2>1, <2>2 DEF Entry, None
  <2>5. hist \subseteq hist' /\ Notes(l, raw, u, raised) \subseteq hist'
    BY <2>1
  <2>6. /\ DataInv' /\ meant' \in Values
        /\ phase \in {"unpack", "run", "resume", "pack"} /\ Up' =>
             raw'.val = meant' \/ hist' \cap {"reget", "pyempty"} # {}
    BY <1>0, <2>1, <2>2, <2>3, <2>4, <2>5, DataStep DEF UserInv
  <2>7. phase' \in {"run", "unpack", "gone"} /\ (phase' = "gone" => consumed = -1)
    BY <2>1
  <2>8. /\ call' \in [Calls -> CallStates] /\ by' \in [Calls -> Langs]
        /\ req' \in [Calls -> ReqStates] /\ RequestsOK(call', req', by')
        /\ \A c \in Calls : \/ call'[c] = call[c]
                            \/ call[c] = "unused" /\ call'[c] = "refused"
    BY <2>1, <2>3, RefusedFacts DEF UserInv, TypeOK, MoreTypes, CallStates, ReqStates
  <2>9. TypeOK' /\ MoreTypes'
    BY <2>1, <2>6, <2>7, <2>8, EntryTypes DEF UserInv, TypeOK
  <2>10. RespInv'
    <3>1. RespInv /\ hist \subseteq hist' /\ resp' = resp /\ pend' = pend
      BY <2>1, <2>5, <2>8 DEF UserInv
    <3>2. OnlyNewCalls
      BY <2>1, <2>5, <2>8 DEF OnlyNewCalls
    <3> QED
      BY <3>1, <3>2, RespKept
  <2>11. PhaseInv'
    <3>1. \A c \in Calls : call'[c] \notin AwayStates
      BY <1>0, <2>8 DEF UserInv, PhaseInv, AwayStates
    <3>2. phase' = "gone" => "badunpack" \in hist'
      BY <2>1, <2>7
    <3> QED
      BY <2>7, <3>1, <3>2 DEF PhaseInv
  <2>12. FaultCause'
    BY <1>0, <2>2, <2>6, EntryFault DEF UserInv
  <2>13. KeptInv'
    BY <1>0, <2>6 DEF KeptInv
  <2>14. RequestsOK(call, req, by)'
    BY <2>8
  <2>15. OrphanInv'
    <3>1. orphan = {}
      BY <1>0 DEF UserInv, OrphanInv
    <3> QED
      BY <2>1, <2>7, <3>1 DEF OrphanInv
  <2> QED
    BY <2>6, <2>9, <2>10, <2>11, <2>12, <2>13, <2>14, <2>15 DEF UserInv
<1> QED
  BY <1>1, <1>2

LEMMA RunStep == UserInv /\ Run => UserInv'
<1> SUFFICES ASSUME UserInv, Run
             PROVE  UserInv'
  OBVIOUS
<1> DEFINE l == lang[idx + 1]
<1>0. /\ Up /\ phase = "run" /\ idx < NumModules /\ idx' = idx + 1
      /\ UNCHANGED <<lang, hasPack, resp, pend, orphan>>
  BY DEF Run
<1>1. PICK u \in Uses(l, raw.val), raised \in BOOLEAN, failed \in BOOLEAN :
            /\ \E r \in Store(l, raw, u, raised) : Kept(r)
            /\ MakeCalls(l, call, req)
            /\ meant' = Meant(l, u, raised)
            /\ hist' = hist \cup Notes(l, raw, u, raised)
            /\ phase' = IF failed THEN "pack"
                        ELSE IF idx' < NumModules THEN "run"
                        ELSE IF Awaited' = {} THEN "pack" ELSE "resume"
  BY DEF Run, CppData, PyData
<1>2. PICK r \in Store(l, raw, u, raised) : Kept(r)
  BY <1>1
<1>3. l \in Langs /\ idx' \in 0..NumModules
  BY <1>0, UserAssumption DEF UserInv, MoreTypes, TypeOK
<1> HIDE DEF l
<1>4. Entry(l, u, raised, r)
  BY <1>1, <1>2 DEF Entry
<1>5. hist \subseteq hist' /\ Notes(l, raw, u, raised) \subseteq hist'
  BY <1>1
<1>6. /\ DataInv' /\ meant' \in Values
      /\ phase \in {"unpack", "run", "resume", "pack"} /\ Up' =>
           raw'.val = meant' \/ hist' \cap {"reget", "pyempty"} # {}
  BY <1>0, <1>1, <1>2, <1>3, <1>4, <1>5, DataStep DEF UserInv
<1>7. /\ phase' \in {"run", "resume", "pack"}
      /\ phase' = "resume" => ~(idx' < NumModules) /\ Awaited' # {}
  BY <1>1
<1>8. /\ call' \in [Calls -> CallStates] /\ by' \in [Calls -> Langs]
      /\ req' \in [Calls -> ReqStates] /\ RequestsOK(call', req', by')
      /\ \A c \in Calls : \/ call'[c] = call[c]
                          \/ call[c] = "unused" /\ call'[c] \in {"refused", "out"}
  <2>1. \A c \in Unused : call[c] = "unused"
    BY DEF Unused
  <2> QED
    BY <1>1, <1>3, <2>1, CallsFacts DEF UserInv, TypeOK, MoreTypes, CallStates, ReqStates
<1>9. TypeOK' /\ MoreTypes'
  BY <1>0, <1>3, <1>6, <1>7, <1>8, EntryTypes DEF UserInv, TypeOK
<1>10. RespInv'
  <2>1. RespInv /\ hist \subseteq hist' /\ resp' = resp /\ pend' = pend
    BY <1>0, <1>5, <1>8 DEF UserInv
  <2>2. OnlyNewCalls
    BY <1>0, <1>5, <1>8 DEF OnlyNewCalls
  <2> QED
    BY <2>1, <2>2, RespKept
<1>11. PhaseInv'
  BY <1>7 DEF PhaseInv
<1>12. FaultCause'
  BY <1>0, <1>2, <1>6, EntryFault DEF UserInv
<1>13. KeptInv'
  BY <1>0, <1>6 DEF KeptInv
<1>14. RequestsOK(call, req, by)'
  BY <1>8
<1>15. OrphanInv'
  <2>1. orphan' = {}
    BY <1>0 DEF UserInv, OrphanInv
  <2>2. ASSUME phase' = "resume"
        PROVE  idx' = NumModules /\ \E c \in HasCb : call'[c] \in AwayStates \cup {"done"}
    BY <1>3, <1>7, <2>2, UserAssumption DEF Awaited, Away, AwayStates
  <2> QED
    BY <2>1, <2>2 DEF OrphanInv
<1> QED
  BY <1>6, <1>9, <1>10, <1>11, <1>12, <1>13, <1>14, <1>15 DEF UserInv

LEMMA PackStep == UserInv /\ Pack => UserInv'
<1> SUFFICES ASSUME UserInv, Pack
             PROVE  UserInv'
  OBVIOUS
<1> DEFINE l == lang[NumModules]
           r == IF l = "cpp" THEN CppPack(raw) ELSE PyPack(raw)
<1>0. /\ Up /\ phase \in {"pack", "resume"} /\ Awaited = {} /\ Kept(r)
      /\ orphan' = {c \in Unused : phase = "resume" /\ call'[c] = "out"}
      /\ phase' = IF Away' = {} THEN "gone" ELSE "packed"
      /\ IF l = "py" /\ ~hasPack THEN UNCHANGED <<call, by, req>> ELSE MakeCalls(l, call, req)
      /\ UNCHANGED <<lang, hasPack, idx, resp, pend, meant, hist>>
  BY DEF Pack
<1>1. l \in Langs
  BY UserAssumption DEF UserInv, MoreTypes
<1>2. /\ r = Delete(raw) \/ (r = raw /\ l = "py" /\ ~hasPack)
      /\ Delete(raw) = IF raw.st = "dangling" THEN Broken ELSE None
  BY <1>1 DEF CppPack, PyPack, RunModulePack, Langs, Delete
<1>3. 0 \in Values /\ BufferOK(raw) /\ raw.st # "broken" /\ fault = "none"
      /\ (raw.st = "dangling" => "cleared" \in hist)
  BY <1>0, UserAssumption DEF Values, UserInv, DataInv, Up
<1>4. BufferOK(None) /\ BufferOK(Broken) /\ None.st = "none" /\ Broken.st = "broken"
  BY <1>3 DEF BufferOK, RawStates, None, Broken
<1>5. raw' = r /\ fault' = IF r.st = "broken" THEN "data freed twice" ELSE fault
  BY <1>0 DEF Kept
<1> HIDE DEF r
<1>6. DataInv'
  <2>1. BufferOK(raw)'
    BY <1>2, <1>3, <1>4, <1>5 DEF BufferOK
  <2> QED
    BY <1>0, <1>2, <1>3, <1>4, <1>5, <2>1 DEF DataInv
<1>7. /\ call' \in [Calls -> CallStates] /\ by' \in [Calls -> Langs]
      /\ req' \in [Calls -> ReqStates] /\ RequestsOK(call', req', by')
      /\ \A c \in Calls : \/ call'[c] = call[c]
                          \/ call[c] = "unused" /\ call'[c] \in {"refused", "out"}
  <2>0. \A c \in Unused : call[c] = "unused"
    BY DEF Unused
  <2>1. /\ call \in [Calls -> CallStates] /\ by \in [Calls -> Langs]
        /\ req \in [Calls -> ReqStates] /\ RequestsOK(call, req, by)
    BY DEF UserInv, TypeOK, MoreTypes, CallStates, ReqStates
  <2>2. CASE UNCHANGED <<call, by, req>>
    BY <2>1, <2>2
  <2>3. CASE MakeCalls(l, call, req)
    BY <1>1, <2>0, <2>1, <2>3, CallsFacts
  <2> QED
    BY <1>0, <2>2, <2>3
<1>8. phase' \in {"packed", "gone"} /\ (phase' = "gone" => Away' = {})
  BY <1>0
<1>9. TypeOK' /\ MoreTypes'
  <2>1. meant' \in Values /\ idx' \in 0..NumModules /\ orphan' \subseteq Calls
    BY <1>0 DEF UserInv, MoreTypes, TypeOK, Unused
  <2> QED
    BY <1>0, <1>6, <1>7, <1>8, <2>1, EntryTypes DEF UserInv, TypeOK
<1>10. RespInv'
  <2>1. RespInv /\ hist \subseteq hist' /\ resp' = resp /\ pend' = pend
    BY <1>0, <1>7 DEF UserInv
  <2>2. OnlyNewCalls
    BY <1>0, <1>7 DEF OnlyNewCalls
  <2> QED
    BY <2>1, <2>2, RespKept
<1>11. PhaseInv'
  <2>1. phase' = "gone" => \A c \in Calls : call'[c] \notin AwayStates
    BY <1>8 DEF Away, AwayStates
  <2>2. Up' /\ raw' # None => l = "py" /\ ~hasPack
    BY <1>2, <1>4, <1>5 DEF Up
  <2> QED
    BY <1>0, <1>8, <2>1, <2>2 DEF PhaseInv
<1>12. FaultCause'
  BY <1>0, <1>5, <1>6, EntryFault DEF UserInv, Kept
<1>13. KeptInv'
  BY <1>8 DEF KeptInv
<1>14. RequestsOK(call, req, by)'
  BY <1>7
<1>15. OrphanInv'
  <2>1. phase' \in {"packed", "gone"}
    BY <1>8
  <2>2. ASSUME orphan' # {}
        PROVE  idx' = NumModules /\ SomeDone'
    <3>1. phase = "resume"
      BY <1>0, <2>2
    <3>2. idx = NumModules /\ \E c \in HasCb : call[c] \in AwayStates \cup {"done"}
      BY <3>1 DEF UserInv, OrphanInv
    <3>3. PICK c \in HasCb : call[c] \in AwayStates \cup {"done"}
      BY <3>2
    <3>4. call[c] = "done" /\ c \in Calls
      BY <1>0, <3>3, UserAssumption DEF Awaited, Away, AwayStates
    <3>5. call'[c] = "done" /\ c \notin orphan'
      BY <1>0, <1>7, <3>4 DEF Unused
    <3> QED
      BY <1>0, <3>2, <3>3, <3>5 DEF SomeDone
  <2> QED
    BY <2>1, <2>2 DEF OrphanInv
<1> QED
  BY <1>6, <1>9, <1>10, <1>11, <1>12, <1>13, <1>14, <1>15 DEF UserInv

LEMMA TimeoutStep == UserInv /\ (Timeout \/ SafeDestroy) => UserInv'
<1> SUFFICES ASSUME UserInv, Timeout \/ SafeDestroy
             PROVE  UserInv'
  OBVIOUS
<1>1. /\ Up
      /\ UNCHANGED <<lang, hasPack, idx, raw, call, by, req, resp, pend, orphan, meant, hist, fault>>
      /\ \/ phase = "run" /\ phase' = "pack"
         \/ phase = "packed" /\ phase' = "gone" /\ Away = {}
  BY DEF Timeout, SafeDestroy, calls
<1>2. DataInv' /\ FaultCause' /\ KeptInv'
  BY <1>1, Steady
<1>3. TypeOK' /\ MoreTypes'
  BY <1>1 DEF UserInv, TypeOK, MoreTypes
<1>4. RequestsOK(call, req, by)'
  BY <1>1 DEF UserInv, RequestsOK
<1>5. RespInv'
  <2>1. RespInv /\ hist \subseteq hist' /\ resp' = resp /\ pend' = pend
    BY <1>1 DEF UserInv
  <2>2. OnlyNewCalls
    BY <1>1 DEF OnlyNewCalls
  <2> QED
    BY <2>1, <2>2, RespKept
<1>6. PhaseInv'
  BY <1>1 DEF UserInv, PhaseInv, Up, Away, AwayStates
<1>7. OrphanInv'
  <2>1. phase = "run" => orphan = {}
    BY DEF UserInv, OrphanInv
  <2> QED
    BY <1>1, <2>1, OrphanStep
<1> QED
  BY <1>2, <1>3, <1>4, <1>5, <1>6, <1>7 DEF UserInv

------------------------------------------------------------------------------
(* The api of a call c: the other calls, the message and the requests stay *)
(* as they are, c's call is on its way and its response is accounted for.  *)
LEMMA ApiStep ==
  ASSUME UserInv, Up, NEW c \in Calls, NEW w \in {"waiting", "back"},
         call[c] \in AwayStates, call' = [call EXCEPT ![c] = w],
         UNCHANGED <<lang, hasPack, phase, idx, raw, by, req, orphan, meant, fault>>,
         hist \subseteq hist',
         NEW n \in 0..MaxPend, NEW s, resp' = [resp EXCEPT ![c] = s],
         pend' = [pend EXCEPT ![c] = n],
         s \in {Null, Held(1), Dangling(0), Dangling(1)},
         s.st = "dangling" => "respcleared" \in hist',
         w = "waiting" => n > 0
  PROVE  UserInv'
<1>1. /\ call \in [Calls -> CallStates]
      /\ resp \in [Calls -> [st : {"null", "held", "dangling"}, val : Responses]]
      /\ pend \in [Calls -> 0..MaxPend]
  BY DEF UserInv, TypeOK, CallStates
<1>2. s \in [st : {"null", "held", "dangling"}, val : Responses]
  BY DEF Null, Held, Dangling, Responses
<1>3. TypeOK' /\ MoreTypes'
  <2>1. call' \in [Calls -> CallStates]
    BY <1>1 DEF CallStates
  <2>2. resp' \in [Calls -> [st : {"null", "held", "dangling"}, val : Responses]]
    BY <1>1, <1>2
  <2>3. pend' \in [Calls -> 0..MaxPend]
    BY <1>1
  <2>4. TypeOK'
    BY <2>1, <2>2, <2>3 DEF UserInv, TypeOK, CallStates
  <2>5. MoreTypes'
    BY DEF UserInv, MoreTypes
  <2> QED
    BY <2>4, <2>5
<1>4. DataInv' /\ KeptInv' /\ FaultCause'
  BY DEF UserInv, DataInv, BufferOK, KeptInv, Up, FaultCause
<1>5. \A x \in Calls : /\ call'[x] = IF x = c THEN w ELSE call[x]
                       /\ resp'[x] = IF x = c THEN s ELSE resp[x]
                       /\ pend'[x] = IF x = c THEN n ELSE pend[x]
  BY <1>1
<1>6. RequestsOK(call, req, by)'
  BY <1>5 DEF UserInv, RequestsOK, AwayStates
<1>7. RespOK(c)'
  BY <1>5 DEF RespOK
<1>8. RespInv'
  <2>1. {c} \in SUBSET Calls
    OBVIOUS
  <2> QED
    BY <1>5, <1>7, <2>1, RespStep, ZenonT(60) DEF UserInv
<1>9. PhaseInv'
  BY <1>5 DEF UserInv, PhaseInv, Up, AwayStates
<1>10. OrphanInv'
  <2>1. \A x \in Calls : /\ call[x] = "done" => call'[x] = "done"
                         /\ call[x] \in AwayStates => call'[x] \in AwayStates
    BY <1>5 DEF AwayStates
  <2> QED
    BY <2>1, OrphanStep
<1> QED
  BY <1>3, <1>4, <1>6, <1>8, <1>9, <1>10 DEF UserInv

(* A response that is stored is there, or was emptied.                     *)
LEMMA StoreRespFacts ==
  ASSUME NEW r \in {Null, Held(1)}, NEW v \in Responses
  PROVE  /\ StoreResp(r, v) \in {Null, Held(1), Dangling(0), Dangling(1)}
         /\ StoreResp(r, v).st = "dangling" <=> (v = 0 /\ r.st = "held")
BY DEF StoreResp, Null, Held, Dangling, Responses

LEMMA BackFacts ==
  ASSUME NEW c, NEW m \in -1..MaxPend, NEW n \in Started(m), m >= 0
  PROVE  /\ n \in 0..MaxPend /\ Back(c, n) \in {"waiting", "back"}
         /\ Back(c, n) = "waiting" => n > 0
BY UserAssumption DEF Started, Back

LEMMA BusyStep == ASSUME UserInv, NEW c \in Calls, Busy(c) PROVE UserInv'
<1>1. /\ Up /\ call[c] = "out" /\ call' = [call EXCEPT ![c] = "back"]
      /\ UNCHANGED <<lang, hasPack, phase, idx, raw, by, req, resp, pend, orphan, meant, hist, fault>>
  BY DEF Busy
<1>2. RespOK(c)
  BY DEF UserInv, RespInv
<1>3. resp[c] = Null /\ Null.st = "null" /\ pend[c] \in 0..MaxPend
  BY <1>1, <1>2 DEF RespOK, Null, UserInv, TypeOK
<1>4. /\ resp' = [resp EXCEPT ![c] = Null] /\ pend' = [pend EXCEPT ![c] = pend[c]]
  BY <1>1, <1>3 DEF UserInv, TypeOK
<1>5. "back" \in {"waiting", "back"} /\ call[c] \in AwayStates
      /\ Null \in {Null, Held(1), Dangling(0), Dangling(1)}
  BY <1>1 DEF AwayStates
<1> DEFINE n == pend[c]
           w == "back"
<1>6. /\ n \in 0..MaxPend /\ w \in {"waiting", "back"} /\ pend' = [pend EXCEPT ![c] = n]
      /\ call' = [call EXCEPT ![c] = w] /\ w # "waiting"
  BY <1>1, <1>3, <1>4
<1>7. UNCHANGED <<lang, hasPack, phase, idx, raw, by, req, orphan, meant, fault>>
      /\ hist \subseteq hist'
  BY <1>1
<1> DEFINE s == Null
<1>8. /\ s \in {Null, Held(1), Dangling(0), Dangling(1)} /\ s.st # "dangling"
      /\ resp' = [resp EXCEPT ![c] = s]
  BY <1>3, <1>4, <1>5
<1> HIDE DEF n, w, s
<1> QED
  BY <1>1, <1>5, <1>6, <1>7, <1>8, ApiStep

LEMMA SrvIocallStep == ASSUME UserInv, NEW c \in Calls, SrvIocall(c) PROVE UserInv'
<1>0. Up /\ call[c] = "out" /\ RespOK(c)
  BY DEF SrvIocall, UserInv, RespInv
<1>1. CASE Crash("aborted", {"threw"})
  BY <1>0, <1>1, CrashStep
<1>2. CASE /\ \E v \in Responses, n \in Started(0) :
                /\ resp' = [resp EXCEPT ![c] = StoreResp(@, v)]
                /\ pend' = [pend EXCEPT ![c] = n]
                /\ call' = [call EXCEPT ![c] = Back(c, n)]
           /\ UNCHANGED <<lang, hasPack, phase, idx, raw, by, req, orphan, meant, hist, fault>>
  <2>1. PICK v \in Responses, n \in Started(0) :
                /\ resp' = [resp EXCEPT ![c] = StoreResp(@, v)]
                /\ pend' = [pend EXCEPT ![c] = n]
                /\ call' = [call EXCEPT ![c] = Back(c, n)]
    BY <1>2
  <2> DEFINE s == StoreResp(resp[c], v)
             w == Back(c, n)
  <2>2. resp[c] = Null
    BY <1>0 DEF RespOK
  <2>3. /\ s \in {Null, Held(1), Dangling(0), Dangling(1)} /\ s.st # "dangling"
    BY <2>2, StoreRespFacts DEF Null
  <2>4. /\ n \in 0..MaxPend /\ w \in {"waiting", "back"} /\ (w = "waiting" => n > 0)
    <3>1. 0 \in -1..MaxPend
      BY UserAssumption
    <3> QED
      BY <3>1, BackFacts
  <2>5. resp' = [resp EXCEPT ![c] = s] /\ pend' = [pend EXCEPT ![c] = n]
        /\ call' = [call EXCEPT ![c] = w]
    BY <2>1
  <2>6. call[c] \in AwayStates
    BY <1>0 DEF AwayStates
  <2> HIDE DEF s, w
  <2> QED
    BY <1>0, <1>2, <2>3, <2>4, <2>5, <2>6, ApiStep
<1> QED
  BY <1>1, <1>2 DEF SrvIocall

(* A response stored when an endpoint call or a job has been called back.  *)
LEMMA PendingStep ==
  ASSUME UserInv, Up, NEW c \in Calls, call[c] = "waiting", NEW s,
         PendingDone(c, s), hist \subseteq hist',
         s \in {Null, Held(1), Dangling(0), Dangling(1)},
         s.st = "dangling" => "respcleared" \in hist'
  PROVE  UserInv'
<1>1. PICK n \in Started(pend[c] - 1) :
       /\ pend' = [pend EXCEPT ![c] = n]
       /\ call' = [call EXCEPT ![c] = Back(c, n)]
  BY DEF PendingDone
<1>2. /\ resp' = [resp EXCEPT ![c] = s]
      /\ UNCHANGED <<lang, hasPack, phase, idx, raw, by, req, orphan, meant, fault>>
  BY DEF PendingDone
<1>3. pend[c] \in 0..MaxPend /\ pend[c] > 0
  BY DEF UserInv, TypeOK, RespInv, RespOK
<1> DEFINE w == Back(c, n)
<1>4. /\ n \in 0..MaxPend /\ w \in {"waiting", "back"} /\ (w = "waiting" => n > 0)
  <2> DEFINE m == pend[c] - 1
  <2>1. m \in -1..MaxPend /\ m >= 0 /\ n \in Started(m)
    BY <1>3, UserAssumption
  <2> HIDE DEF m
  <2> QED
    BY <2>1, BackFacts
<1>5. call' = [call EXCEPT ![c] = w] /\ call[c] \in AwayStates
  BY <1>1 DEF AwayStates
<1> HIDE DEF w
<1> QED
  BY <1>1, <1>2, <1>4, <1>5, ApiStep

(* While the call is away the request is held, so that bytes which cannot  *)
(* be read are those of the response.                                      *)
LEMMA ReadableFacts ==
  ASSUME UserInv, NEW c \in Calls, call[c] \in {"waiting", "back"}
  PROVE  /\ ~Readable(c) => "respcleared" \in hist
         /\ Readable(c) => resp[c] \in {Null, Held(1)}
<1>1. RespOK(c) /\ req[c] # "freed"
  BY DEF UserInv, RespInv, RequestsOK, AwayStates
<1>2. Dangling(0).st = "dangling" /\ Dangling(1).st = "dangling"
  BY DEF Dangling
<1>3. RespReadable(c) <=> Readable(c)
  BY <1>1 DEF Readable, ReqReadable
<1> QED
  BY <1>1, <1>2, <1>3 DEF RespReadable, RespOK

LEMMA EpCbStep == ASSUME UserInv, NEW c \in Calls, EpCb(c) PROVE UserInv'
<1>0. Up /\ call[c] = "waiting" /\ RespOK(c)
  BY DEF EpCb, UserInv, RespInv
<1>1. CASE PendingDone(c, resp[c]) /\ UNCHANGED hist
  <2> DEFINE s == resp[c]
  <2>1. /\ PendingDone(c, s) /\ hist \subseteq hist'
        /\ s \in {Null, Held(1), Dangling(0), Dangling(1)}
        /\ s.st = "dangling" => "respcleared" \in hist'
    BY <1>0, <1>1 DEF RespOK
  <2> HIDE DEF s
  <2> QED
    BY <1>0, <2>1, PendingStep
<1>2. CASE ~Readable(c) /\ Crash("freed bytes read", {})
  BY <1>0, <1>2, ReadableFacts, CrashStep
<1>3. CASE Readable(c) /\ Crash("aborted", {"threw"})
  BY <1>0, <1>3, CrashStep
<1>4. CASE Readable(c) /\ \E v \in Responses :
            /\ PendingDone(c, StoreResp(resp[c], v))
            /\ hist' = hist \cup {n \in {"respcleared"} : v = 0 /\ resp[c].st = "held"}
  <2>1. PICK v \in Responses :
            /\ PendingDone(c, StoreResp(resp[c], v))
            /\ hist' = hist \cup {n \in {"respcleared"} : v = 0 /\ resp[c].st = "held"}
    BY <1>4
  <2> DEFINE s == StoreResp(resp[c], v)
  <2>2. resp[c] \in {Null, Held(1)}
    BY <1>0, <1>4, ReadableFacts
  <2>3. /\ PendingDone(c, s) /\ hist \subseteq hist'
        /\ s \in {Null, Held(1), Dangling(0), Dangling(1)}
        /\ s.st = "dangling" => "respcleared" \in hist'
    BY <2>1, <2>2, StoreRespFacts
  <2> HIDE DEF s
  <2> QED
    BY <1>0, <2>3, PendingStep
<1> QED
  BY <1>1, <1>2, <1>3, <1>4 DEF EpCb

LEMMA JobCbStep == ASSUME UserInv, NEW c \in Calls, JobCb(c) PROVE UserInv'
<1>0. Up /\ call[c] = "waiting"
  BY DEF JobCb
<1>1. CASE ~Readable(c) /\ Crash("freed bytes read", {})
  BY <1>0, <1>1, ReadableFacts, CrashStep
<1>2. CASE \E why \in {"jobdata", "threw"} : Crash("aborted", {why})
  BY <1>0, <1>2, CrashStep
<1>3. CASE Readable(c) /\ PendingDone(c, JobData(c)) /\ UNCHANGED hist
  <2> DEFINE s == JobData(c)
  <2>1. resp[c] \in {Null, Held(1)}
    BY <1>0, <1>3, ReadableFacts
  <2>2. s = resp[c] /\ s.st # "dangling"
    BY <2>1 DEF JobData, StoreResp, Null, Held
  <2>3. /\ PendingDone(c, s) /\ hist \subseteq hist'
        /\ s \in {Null, Held(1), Dangling(0), Dangling(1)}
    BY <1>3, <2>1, <2>2
  <2> HIDE DEF s
  <2> QED
    BY <1>0, <2>2, <2>3, PendingStep
<1> QED
  BY <1>1, <1>2, <1>3 DEF JobCb

------------------------------------------------------------------------------
(* The answer of a call without a caller.                                  *)
LEMMA NoCallerStep == ASSUME UserInv, NEW c \in Calls, NoCaller(c) PROVE UserInv'
<1>1. Up /\ c \in orphan /\ call[c] \in {"waiting", "back"} /\ Crash("no caller", {})
  BY DEF NoCaller
<1>2. phase \in {"packed", "gone"} /\ idx = NumModules /\ SomeDone
  BY <1>1 DEF UserInv, OrphanInv
<1>3. phase # "gone"
  BY <1>1 DEF UserInv, PhaseInv, AwayStates
<1>4. PackAfterResume
  BY <1>1, <1>2, <1>3 DEF PackAfterResume, SomeDone
<1> QED
  BY <1>1, <1>4, CrashStep

LEMMA CompleteNoCbStep ==
  ASSUME UserInv, NEW c \in Calls, CompleteNoCb(c) PROVE UserInv'
<1>0. Up /\ call[c] = "back" /\ c \notin HasCb /\ RespOK(c)
  BY DEF CompleteNoCb, UserInv, RespInv
<1>1. CASE resp[c].st = "dangling"
  <2>1. Crash("response freed twice", {}) /\ "respcleared" \in hist
    BY <1>0, <1>1 DEF CompleteNoCb, RespOK
  <2> QED
    BY <1>0, <2>1, CrashStep
<1>2. CASE resp[c].st # "dangling"
  <2>1. /\ call' = [call EXCEPT ![c] = "done"] /\ resp' = [resp EXCEPT ![c] = Null]
        /\ UNCHANGED <<lang, hasPack, phase, idx, raw, by, req, pend, orphan, meant, hist, fault>>
    BY <1>2 DEF CompleteNoCb, Iocomplete
  <2>2. /\ call \in [Calls -> CallStates]
        /\ resp \in [Calls -> [st : {"null", "held", "dangling"}, val : Responses]]
    BY DEF UserInv, TypeOK, CallStates
  <2>3. \A x \in Calls : /\ call'[x] = IF x = c THEN "done" ELSE call[x]
                         /\ resp'[x] = IF x = c THEN Null ELSE resp[x]
    BY <2>1, <2>2
  <2>4. TypeOK' /\ MoreTypes'
    <3>1. call' \in [Calls -> CallStates]
      BY <2>1, <2>2 DEF CallStates
    <3>2. resp' \in [Calls -> [st : {"null", "held", "dangling"}, val : Responses]]
      BY <2>1, <2>2 DEF Null, Responses
    <3>3. TypeOK'
      BY <2>1, <3>1, <3>2 DEF UserInv, TypeOK, CallStates
    <3>4. MoreTypes'
      BY <2>1 DEF UserInv, MoreTypes
    <3> QED
      BY <3>3, <3>4
  <2>5. DataInv' /\ KeptInv' /\ FaultCause'
    BY <1>0, <2>1 DEF UserInv, DataInv, BufferOK, KeptInv, Up, FaultCause
  <2>6. RequestsOK(call, req, by)'
    BY <1>0, <2>1, <2>3 DEF UserInv, RequestsOK, AwayStates
  <2>7. RespInv'
    <3>1. RespOK(c)'
      BY <2>3 DEF RespOK, Null
    <3>2. {c} \in SUBSET Calls
      OBVIOUS
    <3> QED
      BY <2>1, <2>3, <3>1, <3>2, RespStep DEF UserInv
  <2>8. PhaseInv'
    BY <2>1, <2>3 DEF UserInv, PhaseInv, Up, AwayStates
  <2>9. OrphanInv'
    <3>1. \A x \in Calls : /\ call[x] = "done" => call'[x] = "done"
                           /\ call[x] \in AwayStates => call'[x] \in AwayStates \cup {"done"}
      BY <2>3
    <3> QED
      BY <2>1, <3>1, OrphanStep
  <2> QED
    BY <2>4, <2>5, <2>6, <2>7, <2>8, <2>9 DEF UserInv
<1> QED
  BY <1>1, <1>2

(* The callback of a call c with one.                                      *)
LEMMA CompleteCbStep ==
  ASSUME UserInv, NEW c \in Calls, CompleteCb(c) PROVE UserInv'
<1>0. Up /\ call[c] = "back" /\ c \notin orphan /\ c \in HasCb /\ RespOK(c)
  BY DEF CompleteCb, UserInv, RespInv
<1>1. CASE ~Readable(c) /\ Crash("freed bytes read", {})
  BY <1>0, <1>1, ReadableFacts, CrashStep
<1>2. CASE phase = "packed" /\ Crash("aborted", {})
  <2>1. LateCallback
    BY <1>0, <1>2 DEF LateCallback
  <2> QED
    BY <1>0, <1>2, <2>1, CrashStep
<1>3. CASE Crash("aborted", {"threw"})
  BY <1>0, <1>3, CrashStep
<1> DEFINE l == by[c]
           where == [call EXCEPT ![c] = "done"]
           held == [req EXCEPT ![c] = Freed(req[c])]
<1>4. ASSUME NEW u \in Uses(l, raw.val), NEW raised \in BOOLEAN, NEW failed \in BOOLEAN,
             phase = "packed" => ~failed, NEW r \in Store(l, raw, u, raised), Kept(r),
             MakeCalls(l, where, held), meant' = Meant(l, u, raised),
             hist' = hist \cup Notes(l, raw, u, raised)
                          \cup {n \in {"late"} : phase = "packed" /\ u.touched},
             phase' = IF failed THEN "pack" ELSE phase, Iocomplete(c),
             UNCHANGED <<lang, hasPack, idx, pend, orphan>>
      PROVE  UserInv'
  <2>1. l \in Langs /\ by \in [Calls -> Langs]
    BY DEF UserInv, MoreTypes
  <2>2. /\ call \in [Calls -> CallStates] /\ req \in [Calls -> ReqStates]
        /\ resp \in [Calls -> [st : {"null", "held", "dangling"}, val : Responses]]
    BY DEF UserInv, TypeOK, CallStates, ReqStates
  <2>3. /\ where \in [Calls -> CallStates] /\ held \in [Calls -> ReqStates]
        /\ \A x \in Calls : /\ where[x] = IF x = c THEN "done" ELSE call[x]
                            /\ held[x] = IF x = c THEN Freed(req[c]) ELSE req[x]
        /\ Freed(req[c]) # "live"
    BY <2>2 DEF CallStates, ReqStates, Freed
  <2> HIDE DEF l, where, held
  <2>4. RequestsOK(where, held, by)
    BY <2>3 DEF UserInv, RequestsOK, AwayStates
  <2>5. \A x \in Unused : where[x] = "unused"
    BY <1>0, <2>3 DEF Unused
  <2>6. /\ call' \in [Calls -> CallStates] /\ by' \in [Calls -> Langs]
        /\ req' \in [Calls -> ReqStates] /\ RequestsOK(call', req', by')
        /\ \A x \in Calls : \/ call'[x] = where[x]
                            \/ where[x] = "unused" /\ call'[x] \in {"refused", "out"}
    BY <1>4, <2>1, <2>3, <2>4, <2>5, CallsFacts
  <2>7. Entry(l, u, raised, r)
    BY <1>4 DEF Entry
  <2>8. hist \subseteq hist' /\ Notes(l, raw, u, raised) \subseteq hist'
    BY <1>4
  <2>9. /\ DataInv' /\ meant' \in Values
        /\ ~u.touched => raw' = raw
        /\ phase \in {"unpack", "run", "resume", "pack"} /\ Up' =>
             raw'.val = meant' \/ hist' \cap {"reget", "pyempty"} # {}
    BY <1>0, <1>4, <2>1, <2>7, <2>8, DataStep DEF UserInv
  <2>10. phase \in {"run", "resume", "pack", "packed"}
    BY <1>0 DEF UserInv, TypeOK, PhaseInv, AwayStates
  <2>11. /\ phase' \in {"run", "resume", "pack", "packed"}
         /\ phase' = "packed" => phase = "packed"
         /\ phase = "packed" => phase' = "packed"
         /\ phase' = phase \/ phase' = "pack"
    BY <1>4, <2>10
  <2>12. resp' = [resp EXCEPT ![c] = Null]
    BY <1>4 DEF Iocomplete
  <2>13. TypeOK' /\ MoreTypes'
    <3>1. resp' \in [Calls -> [st : {"null", "held", "dangling"}, val : Responses]]
      BY <2>2, <2>12 DEF Null, Responses
    <3>2. /\ pend' \in [Calls -> 0..MaxPend] /\ idx' \in 0..NumModules
          /\ orphan' \subseteq Calls
      BY <1>4 DEF UserInv, TypeOK
    <3> QED
      BY <1>4, <2>6, <2>9, <2>11, <3>1, <3>2, EntryTypes DEF UserInv
  <2>14. RespInv'
    <3>1. call'[c] = "done" /\ resp'[c] = Null
      BY <2>2, <2>3, <2>6, <2>12
    <3>2. RespOK(c)'
      BY <3>1 DEF RespOK, Null
    <3>3. {c} \in SUBSET Calls
      OBVIOUS
    <3>4. \A x \in Calls \ {c} :
             /\ resp'[x] = resp[x] /\ pend'[x] = pend[x]
             /\ \/ call'[x] = call[x]
                \/ call[x] = "unused" /\ call'[x] \in {"refused", "out"}
      BY <1>4, <2>2, <2>3, <2>6, <2>12
    <3> QED
      BY <2>8, <3>2, <3>3, <3>4, RespStep DEF UserInv
  <2>15. PhaseInv'
    <3>1. phase = "packed" /\ u.touched => "late" \in hist'
      BY <1>4
    <3>2. u.touched \in BOOLEAN
      BY <2>1, <2>7, UseFacts DEF Entry, UserInv, DataInv, BufferOK
    <3>3. Up' /\ phase' = "packed" /\ raw' # None =>
            \/ hist' \cap {"badunpack", "late"} # {}
            \/ lang'[NumModules] = "py" /\ ~hasPack'
      BY <1>0, <1>4, <2>8, <2>9, <2>11, <3>1, <3>2 DEF UserInv, PhaseInv, Up
    <3> QED
      BY <2>11, <3>3 DEF PhaseInv
  <2>16. FaultCause'
    BY <1>0, <1>4, <2>9, EntryFault DEF UserInv
  <2>17. KeptInv'
    BY <2>9, <2>10, <2>11 DEF KeptInv
  <2>18. RequestsOK(call, req, by)'
    BY <2>6
  <2>19. OrphanInv'
    <3>1. \A x \in Calls : /\ call[x] = "done" => call'[x] = "done"
                           /\ call[x] \in AwayStates => call'[x] \in AwayStates \cup {"done"}
      BY <2>3, <2>6 DEF AwayStates
    <3>2. phase # "packed" => orphan = {}
      BY <2>10 DEF UserInv, OrphanInv
    <3> QED
      BY <1>4, <2>11, <3>1, <3>2, OrphanStep
  <2> QED
    BY <2>9, <2>13, <2>14, <2>15, <2>16, <2>17, <2>18, <2>19 DEF UserInv
<1> HIDE DEF where, held
<1>5. CASE \E u \in Uses(l, raw.val), raised, failed \in BOOLEAN :
               /\ phase = "packed" => ~failed
               /\ \E r \in Store(l, raw, u, raised) : Kept(r)
               /\ MakeCalls(l, where, held)
               /\ meant' = Meant(l, u, raised)
               /\ hist' = hist \cup Notes(l, raw, u, raised)
                               \cup {n \in {"late"} : phase = "packed" /\ u.touched}
               /\ phase' = IF failed THEN "pack" ELSE phase
               /\ Iocomplete(c)
               /\ UNCHANGED <<lang, hasPack, idx, pend, orphan>>
  BY <1>4, <1>5
<1> QED
  BY <1>1, <1>2, <1>3, <1>5
     DEF CompleteCb, CppData, PyData, CppCallback, PyCallback, where, held

------------------------------------------------------------------------------
LEMMA NextInv == UserInv /\ [Next]_vars => UserInv'
<1> SUFFICES ASSUME UserInv, [Next]_vars
             PROVE  UserInv'
  OBVIOUS
<1>1. CASE UNCHANGED vars
  <2>1. UNCHANGED <<lang, hasPack, phase, idx, raw, call, by, req, resp, pend, orphan, meant,
                    hist, fault>>
    BY <1>1 DEF vars, calls
  <2>2. TypeOK' /\ MoreTypes'
    BY <2>1 DEF UserInv, TypeOK, MoreTypes
  <2>3. DataInv' /\ KeptInv' /\ FaultCause'
    BY <2>1 DEF UserInv, DataInv, BufferOK, KeptInv, Up, FaultCause, LateCallback,
                PackAfterResume
  <2>4. RequestsOK(call, req, by)'
    BY <2>1 DEF UserInv, RequestsOK
  <2>5. RespInv' /\ PhaseInv' /\ OrphanInv'
    BY <2>1 DEF UserInv, RespInv, RespOK, PhaseInv, Up, OrphanInv, SomeDone
  <2> QED
    BY <2>2, <2>3, <2>4, <2>5 DEF UserInv
<1>2. CASE Unpack \/ Run \/ Timeout \/ Pack \/ SafeDestroy
  BY <1>2, UnpackStep, RunStep, TimeoutStep, PackStep
<1>3. ASSUME NEW c \in Calls,
             \/ Busy(c) \/ SrvIocall(c) \/ EpCb(c) \/ JobCb(c)
             \/ NoCaller(c) \/ CompleteNoCb(c) \/ CompleteCb(c)
      PROVE  UserInv'
  BY <1>3, BusyStep, SrvIocallStep, EpCbStep, JobCbStep, NoCallerStep, CompleteNoCbStep,
     CompleteCbStep
<1> QED
  BY <1>1, <1>2, <1>3 DEF Next

(* What UserInv says of the buffers of a transaction.                      *)
LEMMA UserInvMeans == UserInv => IInv /\ DataKept /\ FaultCause
<1> SUFFICES ASSUME UserInv
             PROVE  IInv /\ DataKept /\ FaultCause
  OBVIOUS
<1>1. RequestHeld
  BY DEF UserInv, RequestsOK, RequestHeld, Away, AwayStates
<1>2. ResponseHeld
  BY DEF UserInv, RespInv, RespOK, ResponseHeld
<1>3. LeftBehind
  BY DEF UserInv, RequestsOK, PhaseInv, LeftBehind
<1>4. DataKept
  BY DEF UserInv, KeptInv, DataKept
<1> QED
  BY <1>1, <1>2, <1>3, <1>4 DEF UserInv, IInv

(* Each buffer of a transaction has one owner until it is released, and    *)
(* what is left behind when it has gone is known, whatever modules and     *)
(* callbacks in two languages do and in which order services answer.       *)
THEOREM Invariance == Spec => []IInv
<1>1. Init => UserInv
  BY InitInv
<1>2. UserInv /\ [Next]_vars => UserInv'
  BY NextInv
<1>3. UserInv => IInv
  BY UserInvMeans
<1> QED
  BY <1>1, <1>2, <1>3, PTL DEF Spec

(* A module reads the message as the entries before it left it (~TxnImp,   *)
(* storeMsgData), unless one of two things user code may do happened.      *)
THEOREM MessageKept == Spec => []DataKept
<1>1. Init => UserInv
  BY InitInv
<1>2. UserInv /\ [Next]_vars => UserInv'
  BY NextInv
<1>3. UserInv => DataKept
  BY UserInvMeans
<1> QED
  BY <1>1, <1>2, <1>3, PTL DEF Spec

(* Every end of the process in these layers has a cause the code leaves to *)
(* the author of a module or a service: bytes are freed twice or read when *)
(* freed only after user code emptied a message or a response, an abort    *)
(* needs an exception, an unpack or job that misuses the data or a         *)
(* callback after pack, and a call finds its caller gone only if pack made *)
(* it after the callbacks of the last module.                              *)
THEOREM Causes == Spec => []FaultCause
<1>1. Init => UserInv
  BY InitInv
<1>2. UserInv /\ [Next]_vars => UserInv'
  BY NextInv
<1>3. UserInv => FaultCause
  BY UserInvMeans
<1> QED
  BY <1>1, <1>2, <1>3, PTL DEF Spec
=============================================================================
