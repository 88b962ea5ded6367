------------------------------- MODULE SkEpPool -------------------------------
(***************************************************************************)
(* The endpoint pool of one engine (src/components/sk_ep_pool.c): service  *)
(* code sends requests to an endpoint, over connections (eps) that carry   *)
(* one request at a time and are kept for the next one, and is called back *)
(* with the answer, an error or a timeout.  One target address and one     *)
(* manager; connecting may succeed at once, later or never, which covers   *)
(* tcp and udp.  Modelled with it: the flags of the timers the pool uses   *)
(* (src/common/sk_timer_service.c) and the release of a refused request by *)
(* skull_ep_send (src/user-c/src/ep.c).                                    *)
(*                                                                         *)
(* Everything runs on one thread.  But a handler of the pool calls user    *)
(* code, which may send again before the handler goes on; ctx says what    *)
(* the thread is in:                                                       *)
(*   idle      between two events, or in service code                      *)
(*   ok, timeout, error   in the callback of ctx.req, called by _handle_ok,*)
(*             _handle_timeout or _handle_error                            *)
(*   loop      in the loop of _handle_error                                *)
(*   stopped   the pool is destroyed                                       *)
(*                                                                         *)
(* A timer is armed, or fired (triggered, its TIMER_TRIGGERED event is     *)
(* queued), or none: not created, run, or cancelled.  A cancelled timer    *)
(* still expires, but its callback does nothing.  Time is not modelled: an *)
(* armed timer may fire at any moment.                                     *)
(***************************************************************************)
EXTENDS Integers, Sequences, FiniteSets

CONSTANTS
  Req,          \* the requests that may be sent
  HasTimeout,   \* those with handler.timeout > 0
  HasUnpack,    \* those with handler.unpack
  MaxEp,        \* bound: the connections that may be made, 1..MaxEp
  Max           \* mgr->max

Ep == 1..MaxEp
NoReq == "no request"

ASSUME EpPoolAssumption ==
  /\ IsFiniteSet(Req) /\ HasTimeout \subseteq Req /\ HasUnpack \subseteq Req
  /\ NoReq \notin Req
  /\ MaxEp \in Nat /\ Max \in Nat \ {0}

VARIABLES
  ep,      \* the sk_ep_t of every connection
  req,     \* the sk_ep_data_t of every request, and what its caller has seen
  nep,     \* mgr->nep
  ctx,     \* what the thread is in
  fault    \* "none", or what ended the process

vars == <<ep, req, nep, ctx, fault>>

TimerStates == {"none", "armed", "fired"}
Results == {"OK", "ERROR", "TIMEOUT"}

TypeOK ==
  /\ ep \in [Ep -> [status : {"none", "CONNECTING", "CONNECTED", "freed"},
                    txns   : Seq(Req),        \* ep->txns
                    ntxn   : Nat,             \* ep->ntxn
                    conn   : TimerStates,     \* ep->conn_timer
                    shut   : TimerStates,     \* ep->shutdown_timer
                    broken : BOOLEAN,         \* a write has failed
                    wire   : Seq(Req)]]       \* the answers the peer sends
  /\ req \in [Req -> [status   : {"unused", "INIT", "PENDING", "SENT", "gone"},
                      recv     : TimerStates,   \* ep_data->recv_timer
                      ret      : {"none", "OK", "ERROR"},  \* sk_ep_send's result
                      calls    : Seq(Results),  \* the calls of its callback
                      released : Nat,           \* the calls of handler.release
                      got      : Req \cup {NoReq}]]  \* whose answer it got
  /\ nep \in Nat
  /\ ctx \in [at  : {"idle", "ok", "timeout", "error", "loop", "stopped"},
              ep  : Ep \cup {0},
              req : Req \cup {NoReq}]
  /\ fault \in {"none", "abort", "use_after_free"}

Idle == [at |-> "idle", ep |-> 0, req |-> NoReq]

Init ==
  /\ ep = [e \in Ep |-> [status |-> "none", txns |-> <<>>, ntxn |-> 0, conn |-> "none",
                         shut |-> "none", broken |-> FALSE, wire |-> <<>>]]
  /\ req = [r \in Req |-> [status |-> "unused", recv |-> "none", ret |-> "none",
                           calls |-> <<>>, released |-> 0, got |-> NoReq]]
  /\ nep = 0 /\ ctx = Idle /\ fault = "none"

Up == fault = "none"
InLoop == Up /\ ctx = Idle

Crash(how) == fault' = how /\ UNCHANGED <<ep, req, nep, ctx>>

------------------------------------------------------------------------------
(* What the handlers are made of: functions from the state of a request or *)
(* of a connection to its next one.                                        *)

(* The list s without the node of r, which may have been popped before.    *)
Without(s, r) ==
  IF \A i \in 1..Len(s) : s[i] # r THEN s
  ELSE LET i == CHOOSE j \in 1..Len(s) : s[j] = r
       IN  SubSeq(s, 1, i - 1) \o SubSeq(s, i + 1, Len(s))

(* Mutant of NodeDestroyed: the receive timer is left alone.               *)
NodeDestroyedTimed(d, n) == [d EXCEPT !.status = "gone", !.released = @ + n]

(* _ep_node_destroy with release_userdata = n, the request's side ...      *)
NodeDestroyed(d, n) == [d EXCEPT !.status = "gone", !.recv = "none", !.released = @ + n]

(* ... and the connection's side.                                          *)
Unlinked(c, r) == [c EXCEPT !.txns = Without(@, r), !.ntxn = @ - 1]

(* Mutant of Destroyed: the shutdown timer is left alone.                  *)
DestroyedTimed(c) == [c EXCEPT !.status = "freed", !.conn = "none"]

(* _ep_mgr_del and _ep_destroy, for a connection without requests.         *)
Destroyed(c) == [c EXCEPT !.status = "freed", !.conn = "none", !.shut = "none"]

(* _ep_create_shutdown_timer: an armed timer is reset, a fired one is      *)
(* cancelled and replaced.                                                 *)
ShutdownTimed(c) == [c EXCEPT !.shut = "armed"]

(* skull_ep_send after sk_ep_send has failed.                              *)
Refused(d) == [d EXCEPT !.ret = "ERROR", !.released = @ + 1]

(* _ep_send of request r over c, when sk_entity_write succeeds: both       *)
(* timers, and an answer that may come.                                    *)
TimersAfterWrite(c, r) ==
  IF r \in HasTimeout \/ r \notin HasUnpack THEN ShutdownTimed(c) ELSE c

Wires(c, r) == {c.wire, Append(c.wire, r)}

WriteOk(d, r) ==
  [d EXCEPT !.status = "SENT", !.recv = IF r \in HasTimeout THEN "armed" ELSE "none"]

(* _handle_error: its loop starts with the next step.                      *)
HandleError(e) == ctx' = [at |-> "loop", ep |-> e, req |-> NoReq]

Callback(at, e, r) == ctx' = [at |-> at, ep |-> e, req |-> r]

------------------------------------------------------------------------------
(* sk_ep_send, by service code or in a callback, in its cases.             *)

CanSend(r) ==
  /\ Up /\ ctx.at \in {"idle", "ok", "timeout", "error"}
  /\ req[r].status = "unused"

Valid(r) == (r \in HasTimeout => r \in HasUnpack) /\ nep # Max

SendRefused(r) ==
  /\ CanSend(r) /\ ~Valid(r)
  /\ req' = [req EXCEPT ![r] = [Refused(@) EXCEPT !.status = "gone"]]
  /\ UNCHANGED <<ep, nep, ctx, fault>>

(* Mutant of Reusable: a connection is taken while it carries a request.   *)
ReusableBusy(e) == ep[e].status = "CONNECTED"

(* _find_ep: the connection is ready and carries no request ...            *)
Reusable(e) == ep[e].status = "CONNECTED" /\ ep[e].txns = <<>>

(* ... after its assertion.  The order of the list is left open.           *)
Overcounted == \E e \in Ep : ep[e].status = "CONNECTED" /\ ep[e].ntxn > 1

SendAborts(r) == CanSend(r) /\ Valid(r) /\ Overcounted /\ Crash("abort")

(* The node is linked to connection e, in state c otherwise, and written.  *)
WriteNew(r, e, c) ==
  LET linked == [c EXCEPT !.txns = Append(@, r), !.ntxn = @ + 1]
  IN  \/ /\ \E w \in Wires(c, r) :
              ep' = [ep EXCEPT ![e] = [TimersAfterWrite(linked, r) EXCEPT !.wire = w]]
         /\ req' = [req EXCEPT ![r] = [WriteOk(@, r) EXCEPT !.ret = "OK"]]
      \/ /\ ep' = [ep EXCEPT ![e] = [linked EXCEPT !.broken = TRUE]]
         /\ req' = [req EXCEPT ![r] = [Refused(@) EXCEPT !.status = "INIT"]]

SendReuse(r) ==
  /\ CanSend(r) /\ Valid(r)
  /\ \E e \in Ep : Reusable(e) /\ ep[e].ntxn <= 1 /\ WriteNew(r, e, ep[e])
  /\ UNCHANGED <<nep, ctx, fault>>

IsNew(e) == ep[e].status = "none" /\ \A d \in Ep : d < e => ep[d].status # "none"

MustConnect(r) == CanSend(r) /\ Valid(r) /\ ~Overcounted /\ \A e \in Ep : ~Reusable(e)

(* fnet_conn_async fails, or the request is too old: the new connection    *)
(* and the node are destroyed again.                                       *)
SendConnectFails(r) ==
  /\ MustConnect(r)
  /\ req' = [req EXCEPT ![r] = [Refused(@) EXCEPT !.status = "gone"]]
  /\ UNCHANGED <<ep, nep, ctx, fault>>

(* Connected at once.                                                      *)
SendConnected(r) ==
  /\ MustConnect(r)
  /\ \E e \in Ep : IsNew(e) /\ WriteNew(r, e, [ep[e] EXCEPT !.status = "CONNECTED"])
  /\ nep' = nep + 1
  /\ UNCHANGED <<ctx, fault>>

(* Mutant of SendConnecting: without a connection timer.                   *)
SendConnectingUntimed(r) ==
  /\ MustConnect(r)
  /\ \E e \in Ep :
       /\ IsNew(e)
       /\ ep' = [ep EXCEPT ![e] = [@ EXCEPT !.status = "CONNECTING", !.txns = <<r>>, !.ntxn = 1]]
  /\ req' = [req EXCEPT ![r].status = "PENDING", ![r].ret = "OK"]
  /\ nep' = nep + 1
  /\ UNCHANGED <<ctx, fault>>

(* Connecting: the request waits.                                          *)
SendConnecting(r) ==
  /\ MustConnect(r)
  /\ \E e \in Ep :
       /\ IsNew(e)
       /\ ep' = [ep EXCEPT ![e] = [@ EXCEPT !.status = "CONNECTING", !.txns = <<r>>, !.ntxn = 1,
                                            !.conn = IF r \in HasTimeout THEN "armed" ELSE "none"]]
  /\ req' = [req EXCEPT ![r].status = "PENDING", ![r].ret = "OK"]
  /\ nep' = nep + 1
  /\ UNCHANGED <<ctx, fault>>

------------------------------------------------------------------------------
(* Events of the connections.                                              *)

(* _on_connect without error: the waiting request is sent; a failing write *)
(* leaves it as it is.                                                     *)
OnConnect(e) ==
  /\ InLoop /\ ep[e].status = "CONNECTING"
  /\ LET r == Head(ep[e].txns)
         c == [ep[e] EXCEPT !.status = "CONNECTED", !.conn = "none"]
     IN  \/ /\ \E w \in Wires(c, r) :
                 ep' = [ep EXCEPT ![e] = [TimersAfterWrite(c, r) EXCEPT !.wire = w]]
            /\ req' = [req EXCEPT ![r] = WriteOk(@, r)]
         \/ ep' = [ep EXCEPT ![e] = [c EXCEPT !.broken = TRUE]] /\ UNCHANGED req
  /\ UNCHANGED <<nep, ctx, fault>>

(* _on_connect with an error, _error, or an unpack that returns an error.  *)
ConnError(e) ==
  /\ InLoop /\ ep[e].status \in {"CONNECTING", "CONNECTED"}
  /\ HandleError(e)
  /\ UNCHANGED <<ep, req, nep, fault>>

(* _read_cb, when the unpack of the request takes the answer that comes    *)
(* first; after a failed write the user's data of the request is gone.     *)
Read(e) ==
  /\ InLoop /\ ep[e].status = "CONNECTED"
  /\ ep[e].txns # <<>> /\ ep[e].wire # <<>> /\ Head(ep[e].txns) \in HasUnpack
  /\ LET r == Head(ep[e].txns)
     IN  \/ req[r].status = "INIT" /\ Crash("use_after_free")
         \/ /\ req[r].status # "INIT"
            /\ req' = [req EXCEPT ![r].recv = "none", ![r].got = Head(ep[e].wire),
                                  ![r].calls = Append(@, "OK")]
            /\ ep' = [ep EXCEPT ![e].wire = Tail(@)]
            /\ Callback("ok", e, r)
            /\ UNCHANGED <<nep, fault>>

------------------------------------------------------------------------------
(* Timers.                                                                 *)

Fire(t) == IF t = "armed" THEN "fired" ELSE t

ConnFires(e) == InLoop /\ ep[e].conn = "armed" /\ ep' = [ep EXCEPT ![e].conn = Fire(@)]
                /\ UNCHANGED <<req, nep, ctx, fault>>

ShutFires(e) == InLoop /\ ep[e].shut = "armed" /\ ep' = [ep EXCEPT ![e].shut = Fire(@)]
                /\ UNCHANGED <<req, nep, ctx, fault>>

RecvFires(r) == InLoop /\ req[r].recv = "armed" /\ req' = [req EXCEPT ![r].recv = Fire(@)]
                /\ UNCHANGED <<ep, nep, ctx, fault>>

(* _conn_timeout, with its assertion.                                      *)
ConnTimeout(e) ==
  /\ InLoop /\ ep[e].conn = "fired"
  /\ IF ep[e].status # "CONNECTING"
       THEN Crash("abort")
       ELSE /\ ep' = [ep EXCEPT ![e].conn = "none"]
            /\ HandleError(e)
            /\ UNCHANGED <<req, nep, fault>>

(* _shutdown_ep, whatever the connection carries.                          *)
ShutdownEp(e) ==
  /\ InLoop /\ ep[e].shut = "fired"
  /\ IF ep[e].status = "freed"
       THEN Crash("use_after_free")
       ELSE /\ ep' = [ep EXCEPT ![e].shut = "none"]
            /\ HandleError(e)
            /\ UNCHANGED <<req, nep, fault>>

Owner(r) == CHOOSE e \in Ep : \E i \in 1..Len(ep[e].txns) : ep[e].txns[i] = r

(* _recv_timeout.                                                          *)
RecvTimeout(r) ==
  /\ InLoop /\ req[r].recv = "fired"
  /\ IF req[r].status = "gone"
       THEN Crash("use_after_free")
       ELSE /\ req' = [req EXCEPT ![r].recv = "none", ![r].calls = Append(@, "TIMEOUT")]
            /\ Callback("timeout", Owner(r), r)
            /\ UNCHANGED <<ep, nep, fault>>

------------------------------------------------------------------------------
(* The handlers go on when the callback returns.                           *)

ReturnOk ==
  /\ Up /\ ctx.at = "ok"
  /\ req' = [req EXCEPT ![ctx.req] = NodeDestroyed(@, 1)]
  /\ ep' = [ep EXCEPT ![ctx.ep] = Unlinked(ShutdownTimed(@), ctx.req)]
  /\ ctx' = Idle
  /\ UNCHANGED <<nep, fault>>

ReturnTimeout ==
  /\ Up /\ ctx.at = "timeout"
  /\ req' = [req EXCEPT ![ctx.req] = NodeDestroyed(@, 1)]
  /\ ep' = [ep EXCEPT ![ctx.ep] = Unlinked(@, ctx.req)]
  /\ ctx' = Idle
  /\ UNCHANGED <<nep, fault>>

ReturnError ==
  /\ Up /\ ctx.at = "error"
  /\ req' = [req EXCEPT ![ctx.req] = NodeDestroyed(@, 1)]
  /\ ep' = [ep EXCEPT ![ctx.ep] = Unlinked(@, ctx.req)]
  /\ ctx' = [ctx EXCEPT !.at = "loop", !.req = NoReq]
  /\ UNCHANGED <<nep, fault>>

(* Mutant of ErrorNext: the callback of a refused request is called too.   *)
ErrorNextAll ==
  /\ Up /\ ctx.at = "loop" /\ ep[ctx.ep].txns # <<>>
  /\ LET r == Head(ep[ctx.ep].txns)
     IN  /\ req' = [req EXCEPT ![r].calls = Append(@, "ERROR")]
         /\ ep' = [ep EXCEPT ![ctx.ep].txns = Tail(@)]
         /\ Callback("error", ctx.ep, r)
  /\ UNCHANGED <<nep, fault>>

(* One round of the loop of _handle_error: the request is popped first; a  *)
(* request whose send was refused is destroyed without a callback.         *)
ErrorNext ==
  /\ Up /\ ctx.at = "loop" /\ ep[ctx.ep].txns # <<>>
  /\ LET r == Head(ep[ctx.ep].txns)
     IN  \/ /\ req[r].status = "INIT"
            /\ req' = [req EXCEPT ![r] = NodeDestroyed(@, 0)]
            /\ ep' = [ep EXCEPT ![ctx.ep] = Unlinked(@, r)]
            /\ UNCHANGED ctx
         \/ /\ req[r].status # "INIT"
            /\ req' = [req EXCEPT ![r].calls = Append(@, "ERROR")]
            /\ ep' = [ep EXCEPT ![ctx.ep].txns = Tail(@)]
            /\ Callback("error", ctx.ep, r)
  /\ UNCHANGED <<nep, fault>>

(* No request is left: _ep_mgr_del.                                        *)
ErrorEnd ==
  /\ Up /\ ctx.at = "loop" /\ ep[ctx.ep].txns = <<>>
  /\ ep' = [ep EXCEPT ![ctx.ep] = Destroyed(@)]
  /\ nep' = nep - 1
  /\ ctx' = Idle
  /\ UNCHANGED <<req, fault>>

(* sk_ep_pool_destroy, when the engine has stopped: what is left is        *)
(* released without a callback.                                            *)
PoolDestroy ==
  /\ InLoop
  /\ LET left == {r \in Req : \E e \in Ep : \E i \in 1..Len(ep[e].txns) : ep[e].txns[i] = r}
     IN  req' = [r \in Req |-> IF r \in left THEN NodeDestroyed(req[r], 1) ELSE req[r]]
  /\ ep' = [e \in Ep |-> IF ep[e].status = "none" THEN ep[e]
                         ELSE [Destroyed(ep[e]) EXCEPT !.txns = <<>>, !.ntxn = 0]]
  /\ ctx' = [Idle EXCEPT !.at = "stopped"]
  /\ UNCHANGED <<nep, fault>>

Return == ReturnOk \/ ReturnTimeout \/ ReturnError \/ ErrorNext \/ ErrorEnd

Next ==
  \/ Return \/ PoolDestroy
  \/ \E r \in Req :
       \/ SendRefused(r) \/ SendAborts(r) \/ SendReuse(r)
       \/ SendConnectFails(r) \/ SendConnected(r) \/ SendConnecting(r)
       \/ RecvFires(r) \/ RecvTimeout(r)
  \/ \E e \in Ep :
       \/ OnConnect(e) \/ ConnError(e) \/ Read(e)
       \/ ConnFires(e) \/ ConnTimeout(e) \/ ShutFires(e) \/ ShutdownEp(e)

Spec == Init /\ [][Next]_vars

(* Callbacks return, timers expire and their events are run, and the event *)
(* loop reports a connection on which a write has failed.  The peer need   *)
(* not answer.                                                             *)
Fairness ==
  /\ WF_vars(Return)
  /\ \A r \in Req : WF_vars(RecvFires(r)) /\ WF_vars(RecvTimeout(r))
  /\ \A e \in Ep :
       /\ WF_vars(ConnFires(e)) /\ WF_vars(ConnTimeout(e))
       /\ WF_vars(ShutFires(e)) /\ WF_vars(ShutdownEp(e))
       /\ WF_vars(ep[e].broken /\ ConnError(e))

FairSpec == Spec /\ Fairness

------------------------------------------------------------------------------
(* Properties.                                                             *)

Live(e) == ep[e].status \in {"CONNECTING", "CONNECTED"}

(* A request whose send has succeeded is called back once and not again,   *)
(* one that was refused never; when the pool is done with an accepted      *)
(* request it has been called back, unless the pool was destroyed.         *)
CalledBackOnce ==
  \A r \in Req :
    /\ Len(req[r].calls) <= 1
    /\ req[r].calls # <<>> => req[r].ret = "OK"
    /\ req[r].status = "gone" /\ req[r].ret = "OK" /\ ctx.at # "stopped"
         => req[r].calls # <<>>

(* The caller's data is released once, by the pool or by the caller of a   *)
(* refused send, and never before the callback; only a pool that is        *)
(* destroyed with a failed write left releases it again.                   *)
ReleasedOnce ==
  \A r \in Req :
    /\ req[r].released <= 1 \/ (ctx.at = "stopped" /\ req[r].ret = "ERROR")
    /\ req[r].status = "gone" => req[r].released >= 1
    /\ req[r].ret = "OK" /\ req[r].status # "gone" => req[r].released = 0

(* A connection carries one request at a time.                             *)
PingPong == \A e \in Ep : Len(ep[e].txns) <= 1

(* ep->ntxn counts the requests of a connection, the one in its error      *)
(* callback included, and mgr->nep the connections, within the limit.      *)
CountsMatch ==
  /\ \A e \in Ep :
       ep[e].ntxn = Len(ep[e].txns) + IF ctx.at = "error" /\ ctx.ep = e THEN 1 ELSE 0
  /\ ctx.at # "stopped" => nep = Cardinality({e \in Ep : Live(e)})
  /\ nep <= Max

(* A timer that may still act belongs to a connection or a request that    *)
(* exists, in a state its callback expects.                                *)
TimersPointToLive ==
  /\ \A e \in Ep : ep[e].conn # "none" => ep[e].status = "CONNECTING"
  /\ \A e \in Ep : ep[e].shut # "none" => ep[e].status = "CONNECTED"
  /\ \A r \in Req : req[r].recv # "none" => req[r].status = "SENT"

(* A connection that is kept for the next request has a shutdown timer,    *)
(* so that none stays open for ever.                                       *)
IdleIsTimed ==
  \A e \in Ep :
    ctx = Idle /\ ep[e].status = "CONNECTED" /\ ep[e].txns = <<>> => ep[e].shut # "none"

(* The bookkeeping of the pool: its types, its counts, its timers, the use *)
(* of a connection by one request at a time and the release of their data. *)
IInv ==
  TypeOK /\ ReleasedOnce /\ PingPong /\ CountsMatch /\ TimersPointToLive /\ IdleIsTimed

(* A request that was given up: it timed out, or did not want an answer.   *)
GivenUp(r) == r \notin HasUnpack \/ req[r].calls = <<"TIMEOUT">>

(* A request that got the answer of another one.                           *)
Mistaken(r) == req[r].got \notin {r, NoReq}

(* A request gets the answer of another one only if some other request was *)
(* given up.  The answers of that connection are shifted from then on: the *)
(* one whose answer it got was given up, or was mistaken itself.           *)
WrongAnswerNeedsGiveUp ==
  \A r \in Req : Mistaken(r) =>
    /\ \E g \in Req \ {r} : GivenUp(g)
    /\ GivenUp(req[r].got) \/ Mistaken(req[r].got)

(* The process dies only in these cases: an error callback that sends more *)
(* than once, and an answer on a connection on which a write has failed.   *)
FaultCause ==
  /\ fault = "abort" => ctx.at = "error"
  /\ fault = "use_after_free" => \E e \in Ep : Live(e) /\ ep[e].broken

(* A request with a timeout is called back in the end.                     *)
EventuallyCalledBack ==
  \A r \in HasTimeout :
    (req[r].ret = "OK") ~> (req[r].calls # <<>> \/ ctx.at = "stopped" \/ fault # "none")
==============================================================================
