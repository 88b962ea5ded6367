--------------------------- MODULE SkEpPool_proofs ---------------------------
(***************************************************************************)
(* Proofs about SkEpPool, for any requests, any number of connections and  *)
(* any limit.  PoolInv says where every request is (HoldOK, Somewhere),    *)
(* what its caller has seen (ReqOK), what state a connection is in and     *)
(* which timers it has (EpOK), what the thread is in the middle of         *)
(* (CtxOK), and whose answers may still come (WireOK).  A handler changes  *)
(* one connection and one request; Frame takes care of all others.         *)
(***************************************************************************)
EXTENDS SkEpPool, FiniteSetTheorems, TLAPS

EpRec == [status : {"none", "CONNECTING", "CONNECTED", "freed"}, txns : Seq(Req),
          ntxn : Nat, conn : TimerStates, shut : TimerStates, broken : BOOLEAN,
          wire : Seq(Req)]

ReqRec == [status : {"unused", "INIT", "PENDING", "SENT", "gone"}, recv : TimerStates,
           ret : {"none", "OK", "ERROR"}, calls : Seq(Results), released : Nat,
           got : Req \cup {NoReq}]

CtxRec == [at : {"idle", "ok", "timeout", "error", "loop", "stopped"},
           ep : Ep \cup {0}, req : Req \cup {NoReq}]

Holds(e, r) == ep[e].txns = <<r>>

(* _handle_error is at work on e.                                          *)
Dying(e) == ctx.at \in {"loop", "error"} /\ ctx.ep = e

(* In the callback of r.                                                   *)
Called(r) == ctx.at \in {"ok", "timeout", "error"} /\ ctx.req = r

Failing(r) == ctx.at = "error" /\ ctx.req = r

Kept(r) == req[r].status \in {"INIT", "PENDING", "SENT"}

(* A connection, apart from the request it carries.                        *)
EpOK(e) ==
  /\ ep[e].txns = <<>> \/ \E r \in Req : Holds(e, r)
  /\ ep[e].ntxn = (IF ep[e].txns = <<>> THEN 0 ELSE 1)
                    + (IF ctx.at = "error" /\ ctx.ep = e THEN 1 ELSE 0)
  /\ ep[e].conn # "none" => ep[e].status = "CONNECTING"
  /\ ep[e].shut # "none" => ep[e].status = "CONNECTED"
  /\ ~Live(e) => ep[e].txns = <<>>
  /\ ep[e].status \in {"none", "CONNECTING"} => ep[e].wire = <<>>
  /\ ep[e].txns = <<>> /\ Live(e) /\ ~Dying(e) =>
       ep[e].status = "CONNECTED" /\ ep[e].shut # "none"

(* A request and what its caller has seen of it.                           *)
ReqOK(r) ==
  /\ req[r].status = "unused" =>
       req[r].ret = "none" /\ req[r].calls = <<>> /\ req[r].released = 0
  /\ req[r].status = "INIT" =>
       req[r].ret = "ERROR" /\ req[r].calls = <<>> /\ req[r].released = 1
  /\ req[r].status \in {"PENDING", "SENT"} =>
       /\ req[r].ret = "OK" /\ req[r].released = 0
       /\ IF Called(r) THEN \E x \in Results : req[r].calls = <<x>>
          ELSE req[r].calls = <<>>
  /\ req[r].status = "gone" =>
       \/ /\ req[r].ret = "OK" /\ req[r].released = 1
          /\ \/ ctx.at = "stopped" /\ req[r].calls = <<>>
             \/ \E x \in Results : req[r].calls = <<x>>
       \/ /\ req[r].ret = "ERROR" /\ req[r].calls = <<>> /\ req[r].released >= 1
          /\ req[r].released = 1 \/ ctx.at = "stopped"
  /\ req[r].recv # "none" => req[r].status = "SENT" /\ r \in HasTimeout
  /\ req[r].calls = <<>> => req[r].got = NoReq

(* A connection and the request it carries.                                *)
HoldOK(e, r) ==
  Holds(e, r) =>
    /\ Live(e) /\ Kept(r) /\ ~Failing(r)
    /\ ep[e].status = "CONNECTING" => req[r].status = "PENDING"
    /\ req[r].status = "INIT" => ep[e].broken
    /\ req[r].status = "SENT" /\ r \in HasTimeout /\ ~Dying(e) => ep[e].shut # "none"
    /\ \A d \in Ep : Holds(d, r) => d = e

Somewhere(r) == Kept(r) => (\E e \in Ep : Holds(e, r)) \/ Failing(r)

CtxOK ==
  /\ ctx.at = "idle" => ctx = Idle
  /\ ctx.at \in {"ok", "timeout"} =>
       /\ ctx.ep \in Ep /\ ctx.req \in Req /\ Holds(ctx.ep, ctx.req)
       /\ ep[ctx.ep].status = "CONNECTED" /\ req[ctx.req].status \in {"PENDING", "SENT"}
  /\ ctx.at = "ok" => req[ctx.req].got # NoReq
  /\ ctx.at = "timeout" => ctx.req \in HasTimeout /\ req[ctx.req].status = "SENT"
                           /\ req[ctx.req].calls = <<"TIMEOUT">>
  /\ ctx.at = "error" =>
       /\ ctx.ep \in Ep /\ ctx.req \in Req /\ Live(ctx.ep)
       /\ req[ctx.req].status \in {"PENDING", "SENT"}
  /\ ctx.at = "loop" => ctx.ep \in Ep /\ Live(ctx.ep) /\ ctx.req = NoReq
  /\ ctx.at = "stopped" => \A e \in Ep : ~Live(e)

NepOK ==
  /\ ctx.at # "stopped" => nep = Cardinality({e \in Ep : Live(e)})
  /\ nep \in Nat /\ nep <= Max

(* An answer that may still come over e is the one its request waits for,  *)
(* which is the last one then, or nobody waits for it any more.            *)
WireOK(e) ==
  ep[e].status = "CONNECTED" /\ ~Dying(e) =>
    \A i \in 1..Len(ep[e].wire) :
      \/ /\ Holds(e, ep[e].wire[i]) /\ i = Len(ep[e].wire)
         /\ req[ep[e].wire[i]].status = "SENT" /\ req[ep[e].wire[i]].got = NoReq
      \/ GivenUp(ep[e].wire[i])
      \/ Mistaken(ep[e].wire[i])

WrongOK(r) ==
  Mistaken(r) =>
    /\ \E g \in Req \ {r} : GivenUp(g)
    /\ GivenUp(req[r].got) \/ Mistaken(req[r].got)

Types == ep \in [Ep -> EpRec] /\ req \in [Req -> ReqRec] /\ ctx \in CtxRec

PoolInv ==
  /\ Types /\ CtxOK /\ NepOK
  /\ \A e \in Ep : EpOK(e) /\ WireOK(e)
  /\ \A r \in Req : ReqOK(r) /\ Somewhere(r) /\ WrongOK(r)
  /\ \A e \in Ep, r \in Req : HoldOK(e, r)
  /\ fault \in {"none", "abort", "use_after_free"} /\ FaultCause

------------------------------------------------------------------------------
(* A step that touches the connections of E and the requests of R, which   *)
(* only carry each other, leaves the others as they were.                  *)
TouchesOnly(E, R) ==
  /\ \A x \in Ep \ E : ep'[x] = ep[x]
  /\ \A y \in Req \ R : req'[y] = req[y]
  /\ \/ ctx' = ctx
     \/ /\ ctx.ep \in E \cup {0} /\ ctx'.ep \in E \cup {0}
        /\ ctx.req \in R \cup {NoReq} /\ ctx'.req \in R \cup {NoReq}
  /\ \A x \in E, y \in Req \ R : ~Holds(x, y) /\ ~Holds(x, y)'
  /\ \A x \in Ep \ E, y \in R : ~Holds(x, y)
  /\ \A y \in R : /\ req[y].calls = <<"TIMEOUT">> => req'[y].calls = <<"TIMEOUT">>
                  /\ Mistaken(y) => Mistaken(y)'

LEMMA Frame ==
  ASSUME PoolInv, Up, ctx.at # "stopped", NEW E \in SUBSET Ep, NEW R \in SUBSET Req,
         Types', CtxOK', NepOK', TouchesOnly(E, R), fault' = fault,
         \A x \in E : EpOK(x)' /\ WireOK(x)',
         \A y \in R : ReqOK(y)' /\ Somewhere(y)' /\ WrongOK(y)',
         \A x \in E, y \in R : HoldOK(x, y)'
  PROVE  PoolInv'
<1> USE DEF Types
<1>0. 0 \notin Ep /\ NoReq \notin Req
  BY EpPoolAssumption DEF Ep
<1>1. \A x \in Ep \ E : (Dying(x)' <=> Dying(x)) /\ ep'[x] = ep[x]
                        /\ ((ctx'.at = "error" /\ ctx'.ep = x) <=> (ctx.at = "error" /\ ctx.ep = x))
  BY <1>0 DEF TouchesOnly, Dying
<1>2. \A y \in Req \ R : (Called(y)' <=> Called(y)) /\ (Failing(y)' <=> Failing(y))
                         /\ req'[y] = req[y]
  BY <1>0 DEF TouchesOnly, Called, Failing
<1>3. \A x \in Ep \ E, y \in Req : Holds(x, y)' <=> Holds(x, y)
  BY <1>1 DEF Holds
<1>4. \A y \in Req : (GivenUp(y) => GivenUp(y)') /\ (Mistaken(y) => Mistaken(y)')
  <2> TAKE y \in Req
  <2>1. CASE y \in R
    BY <2>1 DEF TouchesOnly, GivenUp
  <2>2. CASE y \notin R
    BY <2>2, <1>2 DEF GivenUp, Mistaken
  <2> QED
    BY <2>1, <2>2
<1>5. ASSUME NEW x \in Ep
      PROVE  EpOK(x)'
  <2>1. CASE x \in E
    BY <2>1
  <2>2. CASE x \notin E
    <3>1. EpOK(x)
      BY DEF PoolInv
    <3> QED
      BY <1>1, <1>3, <2>2, <3>1 DEF EpOK, Live
  <2> QED
    BY <2>1, <2>2
<1>6. ASSUME NEW x \in Ep
      PROVE  WireOK(x)'
  <2>1. CASE x \in E
    BY <2>1
  <2>2. CASE x \notin E
    <3>1. WireOK(x) /\ ep[x].wire \in Seq(Req)
      BY DEF PoolInv, EpRec
    <3> SUFFICES ASSUME ep'[x].status = "CONNECTED", ~Dying(x)',
                        NEW i \in 1..Len(ep'[x].wire)
                 PROVE  \/ /\ Holds(x, ep[x].wire[i])' /\ i = Len(ep'[x].wire)
                           /\ req'[ep'[x].wire[i]].status = "SENT"
                           /\ req'[ep'[x].wire[i]].got = NoReq
                        \/ GivenUp(ep[x].wire[i])'
                        \/ Mistaken(ep[x].wire[i])'
      BY DEF WireOK
    <3>2. ep'[x] = ep[x] /\ ~Dying(x)
      BY <1>1, <2>2
    <3> DEFINE q == ep[x].wire[i]
    <3>3. q \in Req /\ ep'[x].wire[i] = q
      BY <3>1, <3>2
    <3>4. \/ /\ Holds(x, q) /\ i = Len(ep[x].wire)
             /\ req[q].status = "SENT" /\ req[q].got = NoReq
          \/ GivenUp(q)
          \/ Mistaken(q)
      BY <3>1, <3>2 DEF WireOK
    <3>5. CASE /\ Holds(x, q) /\ i = Len(ep[x].wire)
               /\ req[q].status = "SENT" /\ req[q].got = NoReq
      <4>1. q \notin R
        BY <2>2, <3>3, <3>5 DEF TouchesOnly
      <4>2. req'[q] = req[q] /\ ep'[x].txns = <<q>>
        BY <1>2, <3>2, <3>3, <3>5, <4>1 DEF Holds
      <4> QED
        BY <3>2, <3>3, <3>5, <4>2 DEF Holds
    <3>6. CASE GivenUp(q)
      <4>1. GivenUp(ep[x].wire[i])'
        BY <1>4, <3>2, <3>3, <3>6 DEF GivenUp
      <4> QED
        BY <4>1
    <3>7. CASE Mistaken(q)
      <4>1. Mistaken(ep[x].wire[i])'
        BY <1>4, <3>2, <3>3, <3>7 DEF Mistaken
      <4> QED
        BY <4>1
    <3> QED
      BY <3>4, <3>5, <3>6, <3>7
  <2> QED
    BY <2>1, <2>2
<1>7. ASSUME NEW y \in Req
      PROVE  ReqOK(y)' /\ Somewhere(y)' /\ WrongOK(y)'
  <2>1. CASE y \in R
    BY <2>1
  <2>2. CASE y \notin R
    <3>1. ReqOK(y) /\ Somewhere(y) /\ WrongOK(y)
      BY DEF PoolInv
    <3>2. ReqOK(y)'
      BY <1>2, <2>2, <3>1 DEF ReqOK
    <3>3. Somewhere(y)'
      <4>1. \A x \in Ep : Holds(x, y) => Holds(x, y)'
        BY <1>3, <2>2 DEF TouchesOnly
      <4> QED
        BY <1>2, <2>2, <3>1, <4>1 DEF Somewhere, Kept
    <3>4. WrongOK(y)'
      <4>1. req'[y] = req[y] /\ req[y].got \in Req \cup {NoReq}
        BY <1>2, <2>2 DEF PoolInv, ReqRec
      <4> SUFFICES ASSUME Mistaken(y)'
                   PROVE  /\ \E g \in Req \ {y} : GivenUp(g)'
                          /\ GivenUp(req[y].got)' \/ Mistaken(req[y].got)'
        BY DEF WrongOK
      <4>2. Mistaken(y)
        BY <4>1 DEF Mistaken
      <4> DEFINE q == req[y].got
      <4>3. q \in Req /\ (GivenUp(q) \/ Mistaken(q))
        BY <3>1, <4>1, <4>2 DEF WrongOK, Mistaken
      <4>4. GivenUp(req[y].got)' \/ Mistaken(req[y].got)'
        BY <1>4, <4>1, <4>3 DEF GivenUp, Mistaken
      <4>5. \E g \in Req \ {y} : GivenUp(g)'
        BY <1>4, <3>1, <4>2 DEF WrongOK
      <4> QED
        BY <4>4, <4>5
    <3> QED
      BY <3>2, <3>3, <3>4
  <2> QED
    BY <2>1, <2>2
<1>8. ASSUME NEW x \in Ep, NEW y \in Req
      PROVE  HoldOK(x, y)'
  <2>1. CASE x \in E /\ y \in R
    BY <2>1
  <2>2. CASE x \in E /\ y \notin R
    BY <2>2 DEF TouchesOnly, HoldOK
  <2>3. CASE x \notin E /\ y \in R
    BY <2>3, <1>3 DEF TouchesOnly, HoldOK
  <2>4. CASE x \notin E /\ y \notin R
    <3>1. HoldOK(x, y)
      BY DEF PoolInv
    <3>2. \A d \in Ep : Holds(d, y)' => Holds(d, y)
      BY <1>3, <2>4 DEF TouchesOnly
    <3> QED
      BY <1>1, <1>2, <1>3, <2>4, <3>1, <3>2 DEF HoldOK, Live, Kept
  <2> QED
    BY <2>1, <2>2, <2>3, <2>4
<1>9. fault' \in {"none", "abort", "use_after_free"} /\ FaultCause'
  BY DEF Up, FaultCause
<1> QED
  BY <1>5, <1>6, <1>7, <1>8, <1>9 DEF PoolInv

------------------------------------------------------------------------------
(* mgr->nep counts the connections.                                        *)
LEMMA EpFinite == IsFiniteSet(Ep) /\ \A S \in SUBSET Ep : IsFiniteSet(S)
<1>1. IsFiniteSet(Ep)
  BY EpPoolAssumption, FS_Interval DEF Ep
<1> QED
  BY <1>1, FS_Subset

LEMMA NepSame ==
  ASSUME NepOK, nep' = nep, ctx.at # "stopped",
         \A x \in Ep : Live(x)' <=> Live(x)
  PROVE  NepOK'
<1>1. {x \in Ep : Live(x)}' = {x \in Ep : Live(x)}
  OBVIOUS
<1> QED
  BY <1>1 DEF NepOK

LEMMA NepMore ==
  ASSUME NepOK, nep # Max, nep' = nep + 1, ctx.at # "stopped", NEW e \in Ep,
         ~Live(e), Live(e)', \A x \in Ep \ {e} : Live(x)' <=> Live(x)
  PROVE  NepOK'
<1> DEFINE L == {x \in Ep : Live(x)}
           M == {x \in Ep : Live(x)}'
<1>1. M = L \cup {e} /\ e \notin L
  OBVIOUS
<1>2. IsFiniteSet(L)
  BY EpFinite
<1>3. nep = Cardinality(L) /\ nep \in Nat /\ nep <= Max
  BY DEF NepOK
<1>4. Cardinality(M) = Cardinality(L) + 1
  <2> HIDE DEF L, M
  <2> QED
    BY <1>1, <1>2, FS_AddElement
<1> QED
  BY <1>3, <1>4, EpPoolAssumption DEF NepOK

LEMMA NepLess ==
  ASSUME NepOK, nep' = nep - 1, ctx.at # "stopped", NEW e \in Ep,
         Live(e), ~Live(e)', \A x \in Ep \ {e} : Live(x)' <=> Live(x)
  PROVE  NepOK'
<1> DEFINE L == {x \in Ep : Live(x)}
           M == {x \in Ep : Live(x)}'
<1>1. M = L \ {e} /\ e \in L
  OBVIOUS
<1>2. IsFiniteSet(L)
  BY EpFinite
<1>3. nep = Cardinality(L) /\ nep \in Nat /\ nep <= Max
  BY DEF NepOK
<1>4. Cardinality(M) = Cardinality(L) - 1 /\ IsFiniteSet(M)
  <2> HIDE DEF L, M
  <2> QED
    BY <1>1, <1>2, FS_RemoveElement
<1>5. Cardinality(M) \in Nat
  <2> HIDE DEF M
  <2> QED
    BY <1>4, FS_CardinalityType
<1> QED
  BY <1>3, <1>4, <1>5, EpPoolAssumption DEF NepOK

(* The end of the process with a cause.                                    *)
LEMMA CrashStep ==
  ASSUME PoolInv, NEW how \in {"abort", "use_after_free"}, Crash(how),
         how = "abort" => ctx.at = "error",
         how = "use_after_free" => \E e \in Ep : Live(e) /\ ep[e].broken
  PROVE  PoolInv'
<1>1. fault' = how /\ ep' = ep /\ req' = req /\ nep' = nep /\ ctx' = ctx
  BY DEF Crash
<1>2. Types' /\ CtxOK' /\ NepOK'
  BY <1>1 DEF PoolInv, Types, CtxOK, NepOK, Live, Holds
<1>3. ASSUME NEW x \in Ep
      PROVE  EpOK(x)' /\ WireOK(x)'
  <2>1. EpOK(x) /\ WireOK(x)
    BY DEF PoolInv
  <2>2. EpOK(x)'
    BY <1>1, <2>1 DEF EpOK, Live, Holds, Dying
  <2>3. WireOK(x)'
    BY <1>1, <2>1 DEF WireOK, Holds, Dying, GivenUp, Mistaken
  <2> QED
    BY <2>2, <2>3
<1>4. ASSUME NEW y \in Req
      PROVE  ReqOK(y)' /\ Somewhere(y)' /\ WrongOK(y)'
  <2>1. ReqOK(y) /\ Somewhere(y) /\ WrongOK(y)
    BY DEF PoolInv
  <2>2. ReqOK(y)'
    BY <1>1, <2>1 DEF ReqOK, Called
  <2>3. Somewhere(y)'
    BY <1>1, <2>1 DEF Somewhere, Holds, Failing, Kept
  <2>4. WrongOK(y)'
    BY <1>1, <2>1 DEF WrongOK, GivenUp, Mistaken
  <2> QED
    BY <2>2, <2>3, <2>4
<1>5. \A x \in Ep, y \in Req : HoldOK(x, y)'
  BY <1>1 DEF PoolInv, HoldOK, Live, Holds, Dying, Failing, Kept
<1>6. FaultCause'
  BY <1>1 DEF FaultCause, Live
<1> QED
  BY <1>1, <1>2, <1>3, <1>4, <1>5, <1>6 DEF PoolInv

------------------------------------------------------------------------------
(* A step of one connection and one request, which is carried by no other  *)
(* connection.                                                             *)
Pair(e, r) ==
  /\ ep[e].txns \in {<<>>, <<r>>} /\ ep'[e].txns \in {<<>>, <<r>>}
  /\ \A x \in Ep \ {e} : ep'[x] = ep[x] /\ ~Holds(x, r)
  /\ \A y \in Req \ {r} : req'[y] = req[y]
  /\ \/ ctx' = ctx
     \/ ctx.ep \in {e, 0} /\ ctx'.ep \in {e, 0} /\ ctx.req \in {r, NoReq} /\ ctx'.req \in {r, NoReq}
  /\ req[r].calls = <<"TIMEOUT">> => req'[r].calls = <<"TIMEOUT">>
  /\ Mistaken(r) => Mistaken(r)'

LEMMA PairStep ==
  ASSUME PoolInv, Up, ctx.at # "stopped", NEW e \in Ep, NEW r \in Req, Pair(e, r),
         Types', CtxOK', NepOK', fault' = fault, EpOK(e)', WireOK(e)',
         ReqOK(r)', Somewhere(r)', WrongOK(r)',
         Holds(e, r)' =>
           /\ Live(e)' /\ Kept(r)' /\ ~Failing(r)'
           /\ ep'[e].status = "CONNECTING" => req'[r].status = "PENDING"
           /\ req'[r].status = "INIT" => ep'[e].broken
           /\ req'[r].status = "SENT" /\ r \in HasTimeout /\ ~Dying(e)' => ep'[e].shut # "none"
  PROVE  PoolInv'
<1> DEFINE E == {e}
           R == {r}
<1>1. E \in SUBSET Ep /\ R \in SUBSET Req
  OBVIOUS
<1>2. TouchesOnly(E, R)
  <2>1. ASSUME NEW y \in Req \ R
        PROVE  ~Holds(e, y) /\ ~Holds(e, y)'
    <3>1. ep[e].txns \in {<<>>, <<r>>} /\ ep'[e].txns \in {<<>>, <<r>>}
      BY DEF Pair
    <3>2. y # r
      OBVIOUS
    <3>3. <<y>> # <<>> /\ <<y>> # <<r>>
      BY <3>2, <<y>>[1] = y, <<r>>[1] = r
    <3>4. <<y>> \notin {<<>>, <<r>>}
      BY <3>3
    <3> QED
      BY ONLY <3>1, <3>4 DEF Holds
  <2> QED
    BY <2>1 DEF Pair, TouchesOnly
<1>3. HoldOK(e, r)'
  <2>1. \A d \in Ep : Holds(d, r)' => d = e
    BY DEF Pair, Holds
  <2> QED
    BY <2>1 DEF HoldOK
<1>4. /\ \A x \in E : EpOK(x)' /\ WireOK(x)'
      /\ \A y \in R : ReqOK(y)' /\ Somewhere(y)' /\ WrongOK(y)'
      /\ \A x \in E, y \in R : HoldOK(x, y)'
  BY <1>3
<1> HIDE DEF E, R
<1> QED
  BY <1>1, <1>2, <1>4, Frame

(* A step of one connection that carries nothing.                          *)
LEMMA EmptyStep ==
  ASSUME PoolInv, Up, ctx.at # "stopped", NEW e \in Ep,
         ep[e].txns = <<>>, ep'[e].txns = <<>>, req' = req,
         \A x \in Ep \ {e} : ep'[x] = ep[x],
         ctx.ep \in {e, 0}, ctx'.ep \in {e, 0}, ctx.req = NoReq, ctx'.req = NoReq,
         Types', CtxOK', NepOK', fault' = fault, EpOK(e)', WireOK(e)'
  PROVE  PoolInv'
<1> DEFINE E == {e}
           R == {}
<1>1. E \in SUBSET Ep /\ R \in SUBSET Req
  OBVIOUS
<1>2. TouchesOnly(E, R)
  <2>1. \A y \in Req : ~Holds(e, y) /\ ~Holds(e, y)'
    BY DEF Holds
  <2> QED
    BY <2>1 DEF TouchesOnly
<1>3. /\ \A x \in E : EpOK(x)' /\ WireOK(x)'
      /\ \A y \in R : ReqOK(y)' /\ Somewhere(y)' /\ WrongOK(y)'
      /\ \A x \in E, y \in R : HoldOK(x, y)'
  OBVIOUS
<1> HIDE DEF E, R
<1> QED
  BY <1>1, <1>2, <1>3, Frame

(* A step of one request that no connection carries.                       *)
LEMMA LooseStep ==
  ASSUME PoolInv, Up, ctx.at # "stopped", NEW r \in Req, \A x \in Ep : ~Holds(x, r),
         ep' = ep, nep' = nep, ctx' = ctx, \A y \in Req \ {r} : req'[y] = req[y],
         req[r].calls = <<"TIMEOUT">> => req'[r].calls = <<"TIMEOUT">>,
         Mistaken(r) => Mistaken(r)', ~Called(r),
         req' \in [Req -> ReqRec], fault' = fault, ReqOK(r)', Somewhere(r)', WrongOK(r)'
  PROVE  PoolInv'
<1> DEFINE E == {}
           R == {r}
<1>1. E \in SUBSET Ep /\ R \in SUBSET Req
  OBVIOUS
<1>2. TouchesOnly(E, R)
  BY DEF Holds, TouchesOnly
<1>3. /\ \A x \in E : EpOK(x)' /\ WireOK(x)'
      /\ \A y \in R : ReqOK(y)' /\ Somewhere(y)' /\ WrongOK(y)'
      /\ \A x \in E, y \in R : HoldOK(x, y)'
  OBVIOUS
<1>4. CtxOK'
  BY DEF PoolInv, CtxOK, Called, Holds, Live
<1>5. NepOK'
  BY DEF PoolInv, NepOK, Live
<1>6. Types'
  BY DEF PoolInv, Types
<1> HIDE DEF E, R
<1> QED
  BY <1>1, <1>2, <1>3, <1>4, <1>5, <1>6, Frame

------------------------------------------------------------------------------
(* What the parts of the handlers do to a request ...                      *)
RefusedWith(d, s) == [Refused(d) EXCEPT !.status = s]

LEMMA RefusedFacts ==
  ASSUME NEW d \in ReqRec, NEW s \in {"unused", "INIT", "PENDING", "SENT", "gone"},
         NEW g, g = RefusedWith(d, s)
  PROVE  /\ g \in ReqRec /\ g.status = s /\ g.ret = "ERROR"
         /\ g.released = d.released + 1
         /\ g.calls = d.calls /\ g.recv = d.recv /\ g.got = d.got
<1>1. PICK n \in Nat : n = d.released + 1
  BY DEF ReqRec
<1>2. PICK f : f = [d EXCEPT !.ret = "ERROR", !.released = n, !.status = s]
  OBVIOUS
<1>3. g = f
  BY <1>1, <1>2 DEF RefusedWith, Refused, ReqRec
<1>4. /\ f \in ReqRec /\ f.status = s /\ f.ret = "ERROR" /\ f.released = n
      /\ f.calls = d.calls /\ f.recv = d.recv /\ f.got = d.got
  BY <1>2 DEF ReqRec
<1> QED
  BY <1>1, <1>3, <1>4

LEMMA NodeDestroyedFacts ==
  ASSUME NEW d \in ReqRec, NEW m \in {0, 1},
         NEW g, g = NodeDestroyed(d, m)
  PROVE  /\ g \in ReqRec /\ g.status = "gone" /\ g.recv = "none"
         /\ g.released = d.released + m
         /\ g.calls = d.calls /\ g.ret = d.ret /\ g.got = d.got
<1>1. PICK n \in Nat : n = d.released + m
  BY DEF ReqRec
<1>2. PICK f : f = [d EXCEPT !.status = "gone", !.recv = "none", !.released = n]
  OBVIOUS
<1>3. g = f
  BY <1>1, <1>2 DEF NodeDestroyed, ReqRec
<1>4. /\ f \in ReqRec /\ f.status = "gone" /\ f.recv = "none" /\ f.released = n
      /\ f.calls = d.calls /\ f.ret = d.ret /\ f.got = d.got
  BY <1>2 DEF ReqRec, TimerStates
<1> QED
  BY <1>1, <1>3, <1>4

LEMMA WriteOkFacts ==
  ASSUME NEW d \in ReqRec, NEW r \in Req,
         NEW g, g = WriteOk(d, r)
  PROVE  /\ g \in ReqRec /\ g.status = "SENT"
         /\ g.recv # "none" => r \in HasTimeout
         /\ g.calls = d.calls /\ g.ret = d.ret /\ g.got = d.got
         /\ g.released = d.released
<1>1. PICK t \in TimerStates : t = IF r \in HasTimeout THEN "armed" ELSE "none"
  BY DEF TimerStates
<1>2. PICK f : f = [d EXCEPT !.status = "SENT", !.recv = t]
  OBVIOUS
<1>3. g = f
  BY <1>1, <1>2 DEF WriteOk
<1>4. /\ f \in ReqRec /\ f.status = "SENT" /\ f.recv = t
      /\ f.calls = d.calls /\ f.ret = d.ret /\ f.got = d.got /\ f.released = d.released
  BY <1>2 DEF ReqRec
<1> QED
  BY <1>1, <1>3, <1>4

(* ... and to a connection.                                                *)
LEMMA WithoutFacts ==
  ASSUME NEW r \in Req
  PROVE  /\ Without(<<>>, r) = <<>> /\ Without(<<r>>, r) = <<>>
         /\ \A s \in Req : s # r => Without(<<s>>, r) = <<s>>
<1>1. Without(<<>>, r) = <<>>
  BY DEF Without
<1>2. Without(<<r>>, r) = <<>>
  <2>1. Len(<<r>>) = 1 /\ <<r>>[1] = r
    OBVIOUS
  <2>2. (CHOOSE j \in 1..Len(<<r>>) : <<r>>[j] = r) = 1
    BY <2>1
  <2>3. SubSeq(<<r>>, 1, 0) = <<>> /\ SubSeq(<<r>>, 2, 1) = <<>>
    OBVIOUS
  <2>4. Without(<<r>>, r) = SubSeq(<<r>>, 1, 0) \o SubSeq(<<r>>, 2, 1)
    BY <2>1, <2>2 DEF Without
  <2> QED
    BY <2>3, <2>4
<1>3. \A s \in Req : s # r => Without(<<s>>, r) = <<s>>
  BY DEF Without
<1> QED
  BY <1>1, <1>2, <1>3

LEMMA UnlinkedFacts ==
  ASSUME NEW c \in EpRec, NEW r \in Req, c.ntxn > 0,
         c.txns = <<>> \/ \E s \in Req : c.txns = <<s>>,
         NEW g, g = Unlinked(c, r)
  PROVE  /\ g \in EpRec /\ g.ntxn = c.ntxn - 1
         /\ c.txns = <<r>> => g.txns = <<>>
         /\ c.txns # <<r>> => g.txns = c.txns
         /\ g.status = c.status /\ g.conn = c.conn /\ g.shut = c.shut
         /\ g.broken = c.broken /\ g.wire = c.wire
<1>1. PICK n \in Nat : n = c.ntxn - 1
  BY DEF EpRec
<1>2. PICK t \in Seq(Req) : /\ t = Without(c.txns, r)
                            /\ c.txns = <<r>> => t = <<>>
                            /\ c.txns # <<r>> => t = c.txns
  <2>1. c.txns \in Seq(Req) /\ <<>> # <<r>>
    BY DEF EpRec
  <2>2. CASE c.txns = <<>>
    BY <2>1, <2>2, WithoutFacts
  <2>3. CASE c.txns = <<r>>
    <3>0. Without(<<r>>, r) = <<>>
      BY WithoutFacts
    <3>1. Without(c.txns, r) = <<>> /\ <<>> \in Seq(Req)
      BY <2>3, <3>0
    <3> QED
      BY <2>3, <3>1
  <2>4. CASE \E s \in Req : c.txns = <<s>> /\ s # r
    BY <2>1, <2>4, WithoutFacts
  <2> QED
    BY <2>2, <2>3, <2>4
<1>3. PICK f : f = [c EXCEPT !.txns = t, !.ntxn = n]
  OBVIOUS
<1>4. g = f
  BY <1>1, <1>2, <1>3 DEF Unlinked, EpRec
<1>5. /\ f \in EpRec /\ f.ntxn = n /\ f.txns = t
      /\ f.status = c.status /\ f.conn = c.conn /\ f.shut = c.shut
      /\ f.broken = c.broken /\ f.wire = c.wire
  BY <1>3 DEF EpRec
<1> QED
  BY <1>1, <1>2, <1>4, <1>5

------------------------------------------------------------------------------
(* What a connection of the pool looks like between two events.            *)
LEMMA IdleFacts ==
  ASSUME PoolInv, ctx = Idle
  PROVE  /\ ctx.at = "idle" /\ ctx.ep = 0 /\ ctx.req = NoReq
         /\ \A x \in Ep : ~Dying(x)
         /\ \A y \in Req : ~Called(y) /\ ~Failing(y)
BY DEF Idle, Dying, Called, Failing

(* A request is carried by one connection only.                            *)
LEMMA HolderFacts ==
  ASSUME PoolInv, NEW e \in Ep, NEW r \in Req, Holds(e, r)
  PROVE  /\ \A x \in Ep \ {e} : ~Holds(x, r)
         /\ Live(e) /\ Kept(r) /\ ~Failing(r)
         /\ ep[e].status = "CONNECTING" => req[r].status = "PENDING"
         /\ req[r].status = "INIT" => ep[e].broken
         /\ req[r].status = "SENT" /\ r \in HasTimeout /\ ~Dying(e) => ep[e].shut # "none"
<1>1. HoldOK(e, r)
  BY DEF PoolInv
<1> QED
  BY <1>1 DEF HoldOK

(* The answers that may still come, when no request of e goes unanswered.  *)
LEMMA WireKept ==
  ASSUME NEW e \in Ep, WireOK(e), ep[e].wire \in Seq(Req), ~Dying(e),
         ep[e].status = "CONNECTED", ep'[e].wire = ep[e].wire,
         \A q \in Req : Holds(e, q) /\ req[q].status = "SENT" /\ req[q].got = NoReq =>
           \/ Holds(e, q)' /\ req'[q].status = "SENT" /\ req'[q].got = NoReq
           \/ GivenUp(q)'
           \/ Mistaken(q)',
         \A q \in Req : (GivenUp(q) => GivenUp(q)') /\ (Mistaken(q) => Mistaken(q)')
  PROVE  WireOK(e)'
<1> SUFFICES ASSUME NEW i \in 1..Len(ep'[e].wire)
             PROVE  \/ /\ Holds(e, ep[e].wire[i])' /\ i = Len(ep'[e].wire)
                       /\ req'[ep'[e].wire[i]].status = "SENT"
                       /\ req'[ep'[e].wire[i]].got = NoReq
                    \/ GivenUp(ep[e].wire[i])'
                    \/ Mistaken(ep[e].wire[i])'
  BY DEF WireOK
<1> DEFINE q == ep[e].wire[i]
<1>1. q \in Req /\ ep'[e].wire[i] = q
  OBVIOUS
<1>2. \/ /\ Holds(e, q) /\ i = Len(ep[e].wire)
         /\ req[q].status = "SENT" /\ req[q].got = NoReq
      \/ GivenUp(q)
      \/ Mistaken(q)
  BY DEF WireOK
<1>3. CASE GivenUp(q) \/ Mistaken(q)
  <2>1. GivenUp(ep[e].wire[i])' \/ Mistaken(ep[e].wire[i])'
    BY <1>1, <1>3 DEF GivenUp, Mistaken
  <2> QED
    BY <2>1
<1>4. CASE /\ Holds(e, q) /\ i = Len(ep[e].wire)
           /\ req[q].status = "SENT" /\ req[q].got = NoReq
  <2>1. \/ ep'[e].txns = <<q>> /\ req'[q].status = "SENT" /\ req'[q].got = NoReq
        \/ q \notin HasUnpack \/ req'[q].calls = <<"TIMEOUT">>
        \/ req'[q].got \notin {q, NoReq}
    BY <1>1, <1>4 DEF Holds, GivenUp, Mistaken
  <2> QED
    BY <1>1, <1>4, <2>1 DEF Holds, GivenUp, Mistaken
<1> QED
  BY <1>2, <1>3, <1>4

(* Timers of a connection, and the begin of _handle_error.                 *)
LEMMA TimerStep ==
  ASSUME PoolInv, Up, ctx = Idle, NEW e \in Ep, Live(e), NEW c \in EpRec,
         ep' = [ep EXCEPT ![e] = c], req' = req, nep' = nep, fault' = fault,
         c.status = ep[e].status, c.txns = ep[e].txns, c.ntxn = ep[e].ntxn,
         c.broken = ep[e].broken, c.wire = ep[e].wire,
         c.conn # "none" => ep[e].conn # "none",
         c.shut # "none" => ep[e].shut # "none",
         ctx' = Idle \/ ctx' = [at |-> "loop", ep |-> e, req |-> NoReq],
         ctx' = Idle => (ep[e].shut # "none" => c.shut # "none")
  PROVE  PoolInv'
<1>0. /\ ep \in [Ep -> EpRec] /\ req \in [Req -> ReqRec] /\ ctx \in CtxRec
      /\ EpOK(e) /\ WireOK(e)
  BY DEF PoolInv, Types
<1>1. ep'[e] = c /\ \A x \in Ep \ {e} : ep'[x] = ep[x]
  BY <1>0
<1>2. /\ ctx.at = "idle" /\ ctx.ep = 0 /\ ctx.req = NoReq /\ ~Dying(e)
      /\ \A y \in Req : ~Called(y) /\ ~Failing(y)
  BY IdleFacts
<1>3. /\ ctx'.at \in {"idle", "loop"} /\ ctx'.ep \in {e, 0} /\ ctx'.req = NoReq
      /\ ctx'.at = "loop" => ctx'.ep = e
      /\ ctx'.at = "idle" <=> ctx' = Idle
      /\ Dying(e)' <=> ctx'.at = "loop"
  BY <1>2 DEF Idle, Dying
<1>4. Types'
  BY <1>0, <1>3 DEF Types, CtxRec, Idle
<1>5. \A x \in Ep : Live(x)' <=> Live(x)
  BY <1>1 DEF Live
<1>6. NepOK'
  BY <1>2, <1>5, NepSame DEF PoolInv
<1>7. CtxOK'
  BY <1>3, <1>5 DEF CtxOK
<1>8. EpOK(e)'
  BY <1>0, <1>1, <1>2, <1>3, <1>5 DEF EpOK, Holds
<1>9. WireOK(e)'
  <2>1. CASE ctx'.at = "loop"
    BY <1>3, <2>1 DEF WireOK
  <2>2. CASE ctx'.at = "idle"
    <3>1. /\ ep'[e].wire = ep[e].wire /\ ep'[e].txns = ep[e].txns
          /\ ep'[e].status = ep[e].status /\ req' = req /\ ep[e].wire \in Seq(Req)
      BY <1>0, <1>1 DEF EpRec
    <3>2. \A q \in Req : /\ Holds(e, q) => Holds(e, q)'
                         /\ (GivenUp(q) => GivenUp(q)') /\ (Mistaken(q) => Mistaken(q)')
      BY <3>1 DEF Holds, GivenUp, Mistaken
    <3>3. CASE ep[e].status = "CONNECTED"
      BY <1>0, <1>2, <3>1, <3>2, <3>3, WireKept
    <3>4. CASE ep[e].status # "CONNECTED"
      BY <3>1, <3>4 DEF WireOK
    <3> QED
      BY <3>3, <3>4
  <2> QED
    BY <1>3, <2>1, <2>2
<1>10. CASE ep[e].txns = <<>>
  BY <1>1, <1>2, <1>3, <1>4, <1>6, <1>7, <1>8, <1>9, <1>10, EmptyStep
<1>11. CASE ep[e].txns # <<>>
  <2>1. PICK r \in Req : Holds(e, r)
    BY <1>0, <1>11 DEF EpOK
  <2>2. /\ \A x \in Ep \ {e} : ~Holds(x, r)
        /\ Live(e) /\ Kept(r)
        /\ ep[e].status = "CONNECTING" => req[r].status = "PENDING"
        /\ req[r].status = "INIT" => ep[e].broken
        /\ req[r].status = "SENT" /\ r \in HasTimeout /\ ~Dying(e) => ep[e].shut # "none"
    BY <2>1, HolderFacts
  <2>3. Pair(e, r)
    BY <1>1, <1>2, <1>3, <2>1, <2>2 DEF Pair, Holds, Mistaken
  <2>4. ReqOK(r) /\ WrongOK(r)
    BY DEF PoolInv
  <2>5. ReqOK(r)'
    BY <1>2, <1>3, <2>4, EpPoolAssumption DEF ReqOK, Called
  <2>6. WrongOK(r)'
    BY <2>4 DEF WrongOK, GivenUp, Mistaken
  <2>7. Holds(e, r)' /\ Somewhere(r)'
    BY <1>1, <2>1 DEF Holds, Somewhere
  <2>8. ~Failing(r)'
    BY <1>3 DEF Failing
  <2>9. /\ Live(e)' /\ Kept(r)'
        /\ ep'[e].status = "CONNECTING" => req'[r].status = "PENDING"
        /\ req'[r].status = "INIT" => ep'[e].broken
        /\ req'[r].status = "SENT" /\ r \in HasTimeout /\ ~Dying(e)' => ep'[e].shut # "none"
    BY <1>1, <1>2, <1>3, <1>5, <2>2 DEF Kept
  <2> QED
    BY <1>2, <1>4, <1>6, <1>7, <1>8, <1>9, <2>3, <2>5, <2>6, <2>7, <2>8, <2>9, PairStep
<1> QED
  BY <1>10, <1>11

LEMMA ConnFiresStep == ASSUME PoolInv, NEW e \in Ep, ConnFires(e) PROVE PoolInv'
<1> DEFINE c == [ep[e] EXCEPT !.conn = "fired"]
<1>0. ep[e] \in EpRec /\ EpOK(e)
  BY DEF PoolInv, Types
<1>1. /\ Up /\ ctx = Idle /\ ep[e].conn = "armed" /\ ep' = [ep EXCEPT ![e] = c]
      /\ req' = req /\ nep' = nep /\ ctx' = ctx /\ fault' = fault
  BY <1>0 DEF ConnFires, InLoop, Fire, EpRec
<1>2. /\ c \in EpRec /\ c.status = ep[e].status /\ c.txns = ep[e].txns /\ c.ntxn = ep[e].ntxn
      /\ c.broken = ep[e].broken /\ c.wire = ep[e].wire /\ c.shut = ep[e].shut
  BY <1>0 DEF EpRec, TimerStates
<1>3. Live(e)
  BY <1>0, <1>1 DEF EpOK, Live
<1> HIDE DEF c
<1> QED
  BY <1>1, <1>2, <1>3, TimerStep

LEMMA ShutFiresStep == ASSUME PoolInv, NEW e \in Ep, ShutFires(e) PROVE PoolInv'
<1> DEFINE c == [ep[e] EXCEPT !.shut = "fired"]
<1>0. ep[e] \in EpRec /\ EpOK(e)
  BY DEF PoolInv, Types
<1>1. /\ Up /\ ctx = Idle /\ ep[e].shut = "armed" /\ ep' = [ep EXCEPT ![e] = c]
      /\ req' = req /\ nep' = nep /\ ctx' = ctx /\ fault' = fault
  BY <1>0 DEF ShutFires, InLoop, Fire, EpRec
<1>2. /\ c \in EpRec /\ c.status = ep[e].status /\ c.txns = ep[e].txns /\ c.ntxn = ep[e].ntxn
      /\ c.broken = ep[e].broken /\ c.wire = ep[e].wire /\ c.conn = ep[e].conn
      /\ c.shut # "none"
  BY <1>0 DEF EpRec, TimerStates
<1>3. Live(e)
  BY <1>0, <1>1 DEF EpOK, Live
<1>4. ep[e].shut # "none"
  BY <1>1
<1> HIDE DEF c
<1> QED
  BY <1>1, <1>2, <1>3, <1>4, TimerStep

LEMMA ConnErrorStep == ASSUME PoolInv, NEW e \in Ep, ConnError(e) PROVE PoolInv'
<1> DEFINE c == ep[e]
<1>0. ep \in [Ep -> EpRec] /\ c \in EpRec
  BY DEF PoolInv, Types
<1>1. /\ Up /\ ctx = Idle /\ Live(e) /\ ep' = [ep EXCEPT ![e] = c]
      /\ req' = req /\ nep' = nep /\ fault' = fault
      /\ ctx' = [at |-> "loop", ep |-> e, req |-> NoReq]
  BY <1>0 DEF ConnError, InLoop, HandleError, Live
<1>2. ctx' # Idle
  BY <1>1 DEF Idle
<1>3. /\ c.status = ep[e].status /\ c.txns = ep[e].txns /\ c.ntxn = ep[e].ntxn
      /\ c.broken = ep[e].broken /\ c.wire = ep[e].wire /\ c.conn = ep[e].conn
      /\ c.shut = ep[e].shut
  OBVIOUS
<1> HIDE DEF c
<1> QED
  BY <1>0, <1>1, <1>2, <1>3, TimerStep

LEMMA ConnTimeoutStep == ASSUME PoolInv, NEW e \in Ep, ConnTimeout(e) PROVE PoolInv'
<1> DEFINE c == [ep[e] EXCEPT !.conn = "none"]
<1>0. ep[e] \in EpRec /\ EpOK(e)
  BY DEF PoolInv, Types
<1>1. ep[e].status = "CONNECTING"
  BY <1>0 DEF ConnTimeout, EpOK
<1>2. /\ Up /\ ctx = Idle /\ Live(e) /\ ep' = [ep EXCEPT ![e] = c]
      /\ req' = req /\ nep' = nep /\ fault' = fault
      /\ ctx' = [at |-> "loop", ep |-> e, req |-> NoReq]
  BY <1>0, <1>1 DEF ConnTimeout, InLoop, HandleError, Live
<1>3. ctx' # Idle
  BY <1>2 DEF Idle
<1>4. /\ c \in EpRec /\ c.status = ep[e].status /\ c.txns = ep[e].txns /\ c.ntxn = ep[e].ntxn
      /\ c.broken = ep[e].broken /\ c.wire = ep[e].wire /\ c.conn = "none"
      /\ c.shut = ep[e].shut
  BY <1>0 DEF EpRec, TimerStates
<1> HIDE DEF c
<1> QED
  BY <1>2, <1>3, <1>4, TimerStep

LEMMA ShutdownEpStep == ASSUME PoolInv, NEW e \in Ep, ShutdownEp(e) PROVE PoolInv'
<1> DEFINE c == [ep[e] EXCEPT !.shut = "none"]
<1>0. ep[e] \in EpRec /\ EpOK(e)
  BY DEF PoolInv, Types
<1>1. ep[e].status = "CONNECTED"
  BY <1>0 DEF ShutdownEp, EpOK
<1>2. /\ Up /\ ctx = Idle /\ Live(e) /\ ep' = [ep EXCEPT ![e] = c]
      /\ req' = req /\ nep' = nep /\ fault' = fault
      /\ ctx' = [at |-> "loop", ep |-> e, req |-> NoReq]
  BY <1>0, <1>1 DEF ShutdownEp, InLoop, HandleError, Live
<1>3. ctx' # Idle
  BY <1>2 DEF Idle
<1>4. /\ c \in EpRec /\ c.status = ep[e].status /\ c.txns = ep[e].txns /\ c.ntxn = ep[e].ntxn
      /\ c.broken = ep[e].broken /\ c.wire = ep[e].wire /\ c.conn = ep[e].conn
      /\ c.shut = "none"
  BY <1>0 DEF EpRec, TimerStates
<1> HIDE DEF c
<1> QED
  BY <1>2, <1>3, <1>4, TimerStep

(* The receive timer of r fires: its TIMER_TRIGGERED event is sent.        *)
LEMMA RecvFiresStep == ASSUME PoolInv, NEW r \in Req, RecvFires(r) PROVE PoolInv'
<1> DEFINE d == [req[r] EXCEPT !.recv = "fired"]
<1>0. /\ ep \in [Ep -> EpRec] /\ req \in [Req -> ReqRec] /\ ctx \in CtxRec
      /\ ReqOK(r) /\ Somewhere(r) /\ WrongOK(r)
  BY DEF PoolInv, Types
<1>1. /\ Up /\ ctx = Idle /\ req[r].recv = "armed" /\ req' = [req EXCEPT ![r] = d]
      /\ ep' = ep /\ nep' = nep /\ ctx' = ctx /\ fault' = fault
  BY <1>0 DEF RecvFires, InLoop, Fire, ReqRec
<1>2. d \in ReqRec
  BY <1>0 DEF ReqRec, TimerStates
<1>3. /\ req'[r].status = req[r].status /\ req'[r].ret = req[r].ret
      /\ req'[r].calls = req[r].calls /\ req'[r].released = req[r].released
      /\ req'[r].got = req[r].got
      /\ \A y \in Req \ {r} : req'[y] = req[y]
  BY <1>0, <1>1 DEF ReqRec
<1>4. /\ ctx.at = "idle" /\ ctx.ep = 0 /\ ctx.req = NoReq
      /\ \A x \in Ep : ~Dying(x)
      /\ \A y \in Req : ~Called(y) /\ ~Failing(y)
  BY <1>1, IdleFacts
<1>5. req[r].status = "SENT" /\ r \in HasTimeout
  BY <1>0, <1>1 DEF ReqOK
<1>6. PICK e \in Ep : Holds(e, r)
  BY <1>0, <1>4, <1>5 DEF Somewhere, Kept
<1>7. /\ \A x \in Ep \ {e} : ~Holds(x, r)
      /\ Live(e) /\ Kept(r)
      /\ ep[e].status = "CONNECTING" => req[r].status = "PENDING"
      /\ req[r].status = "INIT" => ep[e].broken
      /\ req[r].status = "SENT" /\ r \in HasTimeout /\ ~Dying(e) => ep[e].shut # "none"
  BY <1>6, HolderFacts
<1>8. Types'
  BY <1>0, <1>1, <1>2 DEF Types
<1>9. CtxOK' /\ NepOK'
  BY <1>1, <1>4 DEF PoolInv, CtxOK, NepOK, Live
<1>10. Pair(e, r)
  BY <1>1, <1>3, <1>6, <1>7 DEF Pair, Holds, Mistaken
<1>11. EpOK(e) /\ WireOK(e)
  BY DEF PoolInv
<1>12. EpOK(e)'
  BY <1>1, <1>11 DEF EpOK, Live, Holds, Dying
<1>13. WireOK(e)'
  <2>1. \A q \in Req : /\ req'[q].status = req[q].status /\ req'[q].got = req[q].got
                       /\ req'[q].calls = req[q].calls
    BY <1>3
  <2>2. \A q \in Req : /\ Holds(e, q) => Holds(e, q)'
                       /\ (GivenUp(q) => GivenUp(q)') /\ (Mistaken(q) => Mistaken(q)')
    BY <1>1, <2>1 DEF Holds, GivenUp, Mistaken
  <2>3. ep[e].wire \in Seq(Req) /\ ep'[e] = ep[e] /\ ~Dying(e)
    BY <1>0, <1>1, <1>4 DEF EpRec
  <2>4. CASE ep[e].status = "CONNECTED"
    BY <1>11, <2>1, <2>2, <2>3, <2>4, WireKept
  <2>5. CASE ep[e].status # "CONNECTED"
    BY <2>3, <2>5 DEF WireOK
  <2> QED
    BY <2>4, <2>5
<1>14. ReqOK(r)'
  BY <1>0, <1>1, <1>3, <1>5 DEF ReqOK, Called
<1>15. Somewhere(r)' /\ Holds(e, r)'
  BY <1>1, <1>6 DEF Somewhere, Holds
<1>16. WrongOK(r)'
  <2>1. \A q \in Req : (GivenUp(q) => GivenUp(q)') /\ (Mistaken(q) => Mistaken(q)')
    BY <1>3 DEF GivenUp, Mistaken
  <2>2. req[r].got \in Req \cup {NoReq}
    BY <1>0 DEF ReqRec
  <2> QED
    BY <1>0, <1>3, <2>1, <2>2 DEF WrongOK, Mistaken, GivenUp
<1>17. /\ Live(e)' /\ Kept(r)' /\ ~Failing(r)'
       /\ ep'[e].status = "CONNECTING" => req'[r].status = "PENDING"
       /\ req'[r].status = "INIT" => ep'[e].broken
       /\ req'[r].status = "SENT" /\ r \in HasTimeout /\ ~Dying(e)' => ep'[e].shut # "none"
  BY <1>1, <1>3, <1>4, <1>7 DEF Live, Kept, Failing, Dying
<1> QED
  BY <1>1, <1>4, <1>8, <1>9, <1>10, <1>12, <1>13, <1>14, <1>15, <1>16, <1>17, PairStep

------------------------------------------------------------------------------
(* sk_ep_send by service code or in a callback.                            *)
LEMMA SendFacts ==
  ASSUME PoolInv, NEW r \in Req, CanSend(r)
  PROVE  /\ Up /\ ctx.at # "stopped" /\ req[r].status = "unused" /\ req[r].ret = "none"
         /\ req[r].calls = <<>> /\ req[r].released = 0 /\ req[r].recv = "none"
         /\ req[r].got = NoReq /\ ~Called(r) /\ ~Failing(r) /\ ~Mistaken(r)
         /\ \A x \in Ep : ~Holds(x, r)
         /\ req[r].calls # <<"TIMEOUT">>
<1>1. ReqOK(r) /\ req[r] \in ReqRec /\ CtxOK /\ \A x \in Ep : HoldOK(x, r)
  BY DEF PoolInv, Types
<1>2. Up /\ ctx.at \in {"idle", "ok", "timeout", "error"} /\ req[r].status = "unused"
  BY DEF CanSend
<1>3. ~Called(r) /\ ~Failing(r)
  BY <1>1, <1>2 DEF CtxOK, Called, Failing
<1>4. \A x \in Ep : ~Holds(x, r)
  BY <1>1, <1>2 DEF HoldOK, Kept
<1>5. req[r].calls = <<>> /\ <<>> # <<"TIMEOUT">>
  BY <1>1, <1>2 DEF ReqOK
<1> QED
  BY <1>1, <1>2, <1>3, <1>4, <1>5 DEF ReqOK, ReqRec, Mistaken

LEMMA RefusedStep ==
  ASSUME PoolInv, NEW r \in Req, SendRefused(r) \/ SendConnectFails(r)
  PROVE  PoolInv'
<1> DEFINE d == [Refused(req[r]) EXCEPT !.status = "gone"]
<1>0. CanSend(r) /\ req' = [req EXCEPT ![r] = d]
      /\ ep' = ep /\ nep' = nep /\ ctx' = ctx /\ fault' = fault
  BY DEF SendRefused, SendConnectFails, MustConnect
<1>1. /\ Up /\ ctx.at # "stopped" /\ req[r].status = "unused" /\ req[r].ret = "none"
      /\ req[r].calls = <<>> /\ req[r].released = 0 /\ req[r].recv = "none"
      /\ req[r].got = NoReq /\ ~Called(r) /\ ~Failing(r) /\ ~Mistaken(r)
      /\ \A x \in Ep : ~Holds(x, r)
      /\ req[r].calls # <<"TIMEOUT">>
  BY <1>0, SendFacts
<1>2. req \in [Req -> ReqRec]
  BY DEF PoolInv, Types
<1>3. /\ d \in ReqRec /\ d.status = "gone" /\ d.ret = "ERROR" /\ d.released = 1
      /\ d.calls = <<>> /\ d.recv = "none" /\ d.got = NoReq
  <2>1. req[r] \in ReqRec /\ d = RefusedWith(req[r], "gone")
    BY <1>2 DEF RefusedWith
  <2> HIDE DEF d
  <2> QED
    BY <1>1, <2>1, RefusedFacts
<1> HIDE DEF d
<1>4. /\ req' \in [Req -> ReqRec] /\ req'[r] = d
      /\ \A y \in Req \ {r} : req'[y] = req[y]
  BY <1>0, <1>2, <1>3
<1>5. ReqOK(r)' /\ Somewhere(r)' /\ WrongOK(r)'
  BY <1>3, <1>4 DEF ReqOK, Somewhere, Kept, WrongOK, Mistaken
<1>6. req[r].calls = <<"TIMEOUT">> => req'[r].calls = <<"TIMEOUT">>
  BY <1>1
<1> QED
  BY <1>0, <1>1, <1>4, <1>5, <1>6, LooseStep

(* A node is linked to a connection that carries nothing, and written.     *)
Linked(c, r) == [c EXCEPT !.txns = Append(@, r), !.ntxn = @ + 1]

LEMMA LinkedFacts ==
  ASSUME NEW c \in EpRec, c.txns = <<>>, NEW r \in Req, NEW g, g = Linked(c, r)
  PROVE  /\ g \in EpRec /\ g.txns = <<r>> /\ g.ntxn = c.ntxn + 1
         /\ g.status = c.status /\ g.conn = c.conn /\ g.shut = c.shut
         /\ g.broken = c.broken /\ g.wire = c.wire
<1>1. PICK n \in Nat : n = c.ntxn + 1
  BY DEF EpRec
<1>2. PICK t \in Seq(Req) : t = <<r>> /\ t = Append(c.txns, r)
  <2>1. Append(<<>>, r) = <<r>> /\ <<r>> \in Seq(Req)
    OBVIOUS
  <2> QED
    BY <2>1
<1>3. PICK f : f = [c EXCEPT !.txns = t, !.ntxn = n]
  OBVIOUS
<1>4. g = f
  BY <1>1, <1>2, <1>3 DEF Linked, EpRec
<1>5. /\ f \in EpRec /\ f.ntxn = n /\ f.txns = t
      /\ f.status = c.status /\ f.conn = c.conn /\ f.shut = c.shut
      /\ f.broken = c.broken /\ f.wire = c.wire
  BY <1>3 DEF EpRec
<1> QED
  BY <1>1, <1>2, <1>4, <1>5

WrittenConn(c, r, w) == [TimersAfterWrite(c, r) EXCEPT !.wire = w]

LEMMA WrittenFacts ==
  ASSUME NEW c \in EpRec, NEW r \in Req, NEW w \in Seq(Req), NEW g, g = WrittenConn(c, r, w)
  PROVE  /\ g \in EpRec /\ g.wire = w /\ g.txns = c.txns /\ g.ntxn = c.ntxn
         /\ g.status = c.status /\ g.conn = c.conn /\ g.broken = c.broken
         /\ g.shut = c.shut \/ g.shut = "armed"
         /\ r \in HasTimeout => g.shut = "armed"
<1>1. CASE r \in HasTimeout \/ r \notin HasUnpack
  <2>1. PICK f : f = [c EXCEPT !.shut = "armed", !.wire = w]
    OBVIOUS
  <2>2. g = f
    BY <1>1, <2>1 DEF WrittenConn, TimersAfterWrite, ShutdownTimed, EpRec
  <2>3. /\ f \in EpRec /\ f.wire = w /\ f.txns = c.txns /\ f.ntxn = c.ntxn
        /\ f.status = c.status /\ f.conn = c.conn /\ f.broken = c.broken /\ f.shut = "armed"
    BY <2>1 DEF EpRec, TimerStates
  <2> QED
    BY <2>2, <2>3
<1>2. CASE ~(r \in HasTimeout \/ r \notin HasUnpack)
  <2>1. PICK f : f = [c EXCEPT !.wire = w]
    OBVIOUS
  <2>2. g = f
    BY <1>2, <2>1 DEF WrittenConn, TimersAfterWrite
  <2>3. /\ f \in EpRec /\ f.wire = w /\ f.txns = c.txns /\ f.ntxn = c.ntxn
        /\ f.status = c.status /\ f.conn = c.conn /\ f.broken = c.broken /\ f.shut = c.shut
    BY <2>1 DEF EpRec
  <2> QED
    BY <1>2, <2>2, <2>3
<1> QED
  BY <1>1, <1>2

(* The outcomes of a write of r over a connection in state g with a        *)
(* request in state d.                                                     *)
Sent(c, r, g, d) ==
  /\ d.status = "SENT" /\ (d.recv # "none" => r \in HasTimeout)
  /\ d.ret = "OK" /\ d.released = 0
  /\ r \in HasTimeout => g.shut # "none"
  /\ g.wire \in {c.wire, Append(c.wire, r)}

NotSent(c, g, d) ==
  /\ d.status = "INIT" /\ d.recv = "none" /\ d.ret = "ERROR" /\ d.released = 1
  /\ g.broken = TRUE /\ g.wire = c.wire

LEMMA WriteNewFacts ==
  ASSUME ep \in [Ep -> EpRec], req \in [Req -> ReqRec], NEW e \in Ep, NEW r \in Req,
         NEW c \in EpRec, c.txns = <<>>, WriteNew(r, e, c),
         req[r].released = 0, req[r].calls = <<>>, req[r].got = NoReq, req[r].recv = "none"
  PROVE  \E g \in EpRec, d \in ReqRec :
           /\ ep' = [ep EXCEPT ![e] = g] /\ req' = [req EXCEPT ![r] = d]
           /\ g.status = c.status /\ g.txns = <<r>> /\ g.ntxn = c.ntxn + 1 /\ g.conn = c.conn
           /\ g.shut = c.shut \/ g.shut = "armed"
           /\ d.calls = <<>> /\ d.got = NoReq
           /\ Sent(c, r, g, d) \/ NotSent(c, g, d)
<1> DEFINE l == Linked(c, r)
<1>1. /\ l \in EpRec /\ l.txns = <<r>> /\ l.ntxn = c.ntxn + 1
      /\ l.status = c.status /\ l.conn = c.conn /\ l.shut = c.shut
      /\ l.broken = c.broken /\ l.wire = c.wire
  BY LinkedFacts
<1>2. \/ /\ \E w \in Wires(c, r) : ep' = [ep EXCEPT ![e] = WrittenConn(l, r, w)]
         /\ req' = [req EXCEPT ![r] = [WriteOk(@, r) EXCEPT !.ret = "OK"]]
      \/ /\ ep' = [ep EXCEPT ![e] = [l EXCEPT !.broken = TRUE]]
         /\ req' = [req EXCEPT ![r] = RefusedWith(@, "INIT")]
  BY DEF WriteNew, Linked, WrittenConn, RefusedWith
<1>3. req[r] \in ReqRec
  OBVIOUS
<1> HIDE DEF l
<1>4. CASE /\ \E w \in Wires(c, r) : ep' = [ep EXCEPT ![e] = WrittenConn(l, r, w)]
           /\ req' = [req EXCEPT ![r] = [WriteOk(@, r) EXCEPT !.ret = "OK"]]
  <2>1. PICK w \in Wires(c, r) : ep' = [ep EXCEPT ![e] = WrittenConn(l, r, w)]
    BY <1>4
  <2>2. w \in Seq(Req) /\ w \in {c.wire, Append(c.wire, r)}
    <3>1. c.wire \in Seq(Req)
      BY DEF EpRec
    <3>2. Append(c.wire, r) \in Seq(Req)
      BY <3>1
    <3> QED
      BY <3>1, <3>2 DEF Wires
  <2> DEFINE g == WrittenConn(l, r, w)
             f == WriteOk(req[r], r)
             d == [f EXCEPT !.ret = "OK"]
  <2>3. /\ g \in EpRec /\ g.wire = w /\ g.txns = l.txns /\ g.ntxn = l.ntxn
        /\ g.status = l.status /\ g.conn = l.conn /\ g.broken = l.broken
        /\ g.shut = l.shut \/ g.shut = "armed"
        /\ r \in HasTimeout => g.shut = "armed"
    BY <1>1, <2>2, WrittenFacts
  <2>4. /\ f \in ReqRec /\ f.status = "SENT"
        /\ f.recv # "none" => r \in HasTimeout
        /\ f.calls = req[r].calls /\ f.got = req[r].got
        /\ f.released = req[r].released
    BY <1>3, WriteOkFacts
  <2>5. ep' = [ep EXCEPT ![e] = g] /\ req' = [req EXCEPT ![r] = d]
    BY <1>4, <2>1
  <2> HIDE DEF g, f
  <2>6. /\ d \in ReqRec /\ d.status = f.status /\ d.recv = f.recv /\ d.calls = f.calls
        /\ d.released = f.released /\ d.got = f.got /\ d.ret = "OK"
    BY <2>4 DEF ReqRec
  <2> HIDE DEF d
  <2>7. Sent(c, r, g, d)
    BY <2>2, <2>3, <2>4, <2>6 DEF Sent
  <2> QED
    BY <1>1, <2>3, <2>4, <2>5, <2>6, <2>7
<1>5. CASE /\ ep' = [ep EXCEPT ![e] = [l EXCEPT !.broken = TRUE]]
           /\ req' = [req EXCEPT ![r] = RefusedWith(@, "INIT")]
  <2> DEFINE g == [l EXCEPT !.broken = TRUE]
             d == RefusedWith(req[r], "INIT")
  <2>1. /\ g \in EpRec /\ g.wire = l.wire /\ g.txns = l.txns /\ g.ntxn = l.ntxn
        /\ g.status = l.status /\ g.conn = l.conn /\ g.broken = TRUE /\ g.shut = l.shut
    BY <1>1 DEF EpRec
  <2>2. /\ d \in ReqRec /\ d.status = "INIT" /\ d.ret = "ERROR"
        /\ d.released = req[r].released + 1
        /\ d.calls = req[r].calls /\ d.recv = req[r].recv /\ d.got = req[r].got
    BY <1>3, RefusedFacts
  <2>3. ep' = [ep EXCEPT ![e] = g] /\ req' = [req EXCEPT ![r] = d]
    BY <1>5
  <2> HIDE DEF g, d
  <2>4. NotSent(c, g, d)
    BY <1>1, <2>1, <2>2 DEF NotSent
  <2> QED
    BY <1>1, <2>1, <2>2, <2>3, <2>4
<1> QED
  BY <1>2, <1>4, <1>5

(* A step that links r to e, which carried nothing, and leaves it waiting, *)
(* sent or failed.                                                         *)
LEMMA LinkStep ==
  ASSUME PoolInv, NEW e \in Ep, NEW r \in Req, CanSend(r), ep[e].txns = <<>>,
         NEW g \in EpRec, NEW d \in ReqRec,
         ep' = [ep EXCEPT ![e] = g], req' = [req EXCEPT ![r] = d],
         ctx' = ctx, fault' = fault, NepOK',
         Live(e) => g.status = ep[e].status,
         g.status \in {"CONNECTING", "CONNECTED"},
         g.txns = <<r>>, g.ntxn = ep[e].ntxn + 1,
         g.conn # "none" => g.status = "CONNECTING",
         g.shut # "none" => g.status = "CONNECTED",
         g.status = "CONNECTING" => g.wire = <<>>,
         g.wire = ep[e].wire \/ (g.wire = Append(ep[e].wire, r) /\ d.status = "SENT"),
         d.calls = <<>>, d.got = NoReq,
         d.recv # "none" => d.status = "SENT" /\ r \in HasTimeout,
         \/ d.status = "INIT" /\ d.ret = "ERROR" /\ d.released = 1 /\ g.broken
              /\ g.status = "CONNECTED"
         \/ d.status = "PENDING" /\ d.ret = "OK" /\ d.released = 0
         \/ d.status = "SENT" /\ d.ret = "OK" /\ d.released = 0 /\ g.status = "CONNECTED"
              /\ (r \in HasTimeout => g.shut # "none"),
         ep[e].status \in {"none", "CONNECTED"} \/ Dying(e)
  PROVE  PoolInv'
<1>0. /\ ep \in [Ep -> EpRec] /\ req \in [Req -> ReqRec] /\ ctx \in CtxRec
      /\ EpOK(e) /\ WireOK(e) /\ CtxOK
  BY DEF PoolInv, Types
<1>1. /\ Up /\ ctx.at # "stopped" /\ req[r].status = "unused" /\ req[r].ret = "none"
      /\ req[r].calls = <<>> /\ req[r].released = 0 /\ req[r].recv = "none"
      /\ req[r].got = NoReq /\ ~Called(r) /\ ~Failing(r) /\ ~Mistaken(r)
      /\ \A x \in Ep : ~Holds(x, r)
      /\ req[r].calls # <<"TIMEOUT">>
  BY SendFacts
<1>2. /\ ep'[e] = g /\ req'[r] = d
      /\ \A x \in Ep \ {e} : ep'[x] = ep[x]
      /\ \A y \in Req \ {r} : req'[y] = req[y]
  BY <1>0
<1>3. Types'
  BY <1>0 DEF Types
<1>4. <<>> # <<r>> /\ \A y \in Req : y # r => <<y>> # <<r>>
  OBVIOUS
<1>5. Pair(e, r)
  BY <1>1, <1>2 DEF Pair
<1>6. CtxOK'
  <2>1. CASE ctx.at \in {"ok", "timeout"}
    <3>1. ctx.ep # e /\ ctx.req # r /\ ctx.ep \in Ep /\ ctx.req \in Req
      BY <1>0, <1>1, <2>1 DEF CtxOK, Holds
    <3>2. ep'[ctx.ep] = ep[ctx.ep] /\ req'[ctx.req] = req[ctx.req]
      BY <1>2, <3>1
    <3> QED
      BY <1>0, <2>1, <3>1, <3>2 DEF CtxOK, Holds
  <2>2. CASE ctx.at \in {"idle", "loop", "error"}
    <3>1. ctx.at # "idle" => ctx.ep \in Ep /\ Live(ctx.ep)
      BY <1>0, <2>2 DEF CtxOK
    <3>2. ctx.at # "idle" => Live(ctx.ep)'
      BY <1>2, <3>1 DEF Live
    <3>3. ctx.at = "error" => ctx.req \in Req /\ ctx.req # r /\ req'[ctx.req] = req[ctx.req]
      BY <1>0, <1>1, <1>2 DEF CtxOK
    <3> QED
      BY <1>0, <2>2, <3>1, <3>2, <3>3 DEF CtxOK
  <2> QED
    BY <1>0, <1>1, <2>1, <2>2 DEF CtxRec
<1>7. EpOK(e)'
  <2>1. ep[e].ntxn = IF ctx.at = "error" /\ ctx.ep = e THEN 1 ELSE 0
    BY <1>0 DEF EpOK
  <2>2. Holds(e, r)' /\ Live(e)'
    BY <1>2 DEF Holds, Live
  <2>3. ep'[e].txns = <<r>> /\ ep'[e].txns # <<>> /\ ep'[e].status = g.status
        /\ ep'[e].conn = g.conn /\ ep'[e].shut = g.shut /\ ep'[e].wire = g.wire
    BY <1>2, <1>4
  <2>4. ep'[e].ntxn = 1 + (IF ctx'.at = "error" /\ ctx'.ep = e THEN 1 ELSE 0)
    BY <1>2, <2>1
  <2>5. \E s \in Req : Holds(e, s)'
    BY <2>2
  <2> QED
    BY <2>2, <2>3, <2>4, <2>5 DEF EpOK
<1>8. ReqOK(r)'
  <2>1. ~Called(r)'
    BY <1>1 DEF Called
  <2> QED
    BY <1>2, <2>1 DEF ReqOK
<1>9. Somewhere(r)' /\ Holds(e, r)' /\ WrongOK(r)'
  BY <1>2 DEF Somewhere, Holds, WrongOK, Mistaken
<1>10. WireOK(e)'
  <2>0. ep'[e] = g /\ (Dying(e)' <=> Dying(e))
    BY <1>2 DEF Dying
  <2> SUFFICES ASSUME g.status = "CONNECTED", ~Dying(e), NEW i \in 1..Len(g.wire)
               PROVE  \/ /\ g.txns = <<g.wire[i]>> /\ i = Len(g.wire)
                         /\ req'[g.wire[i]].status = "SENT" /\ req'[g.wire[i]].got = NoReq
                      \/ g.wire[i] \notin HasUnpack \/ req'[g.wire[i]].calls = <<"TIMEOUT">>
                      \/ req'[g.wire[i]].got \notin {g.wire[i], NoReq}
    BY <2>0 DEF WireOK, Holds, GivenUp, Mistaken
  <2>1. ep[e].wire \in Seq(Req)
    BY <1>0 DEF EpRec
  <2>2. CASE i \in 1..Len(ep[e].wire)
    <3> DEFINE q == ep[e].wire[i]
    <3>1. g.wire[i] = q /\ q \in Req
      BY <2>1, <2>2
    <3>2. ep[e].status = "CONNECTED"
      <4>1. ep[e].status = "none" => ep[e].wire = <<>>
        BY <1>0 DEF EpOK
      <4> QED
        BY <2>2, <4>1
    <3>3. GivenUp(q) \/ Mistaken(q)
      BY <1>0, <1>4, <2>2, <3>1, <3>2 DEF WireOK, Holds
    <3>4. q # r => req'[q] = req[q]
      BY <1>2, <3>1
    <3>5. q = r => r \notin HasUnpack
      BY <1>1, <3>3 DEF GivenUp
    <3> QED
      BY <3>1, <3>3, <3>4, <3>5 DEF GivenUp, Mistaken
  <2>3. CASE i \notin 1..Len(ep[e].wire)
    <3>1. g.wire = Append(ep[e].wire, r) /\ d.status = "SENT"
      BY <2>3
    <3>2. i = Len(g.wire) /\ g.wire[i] = r
      BY <2>1, <2>3, <3>1
    <3> QED
      BY <1>2, <3>1, <3>2
  <2> QED
    BY <2>2, <2>3
<1>11. /\ Live(e)' /\ Kept(r)' /\ ~Failing(r)'
       /\ ep'[e].status = "CONNECTING" => req'[r].status = "PENDING"
       /\ req'[r].status = "INIT" => ep'[e].broken
       /\ req'[r].status = "SENT" /\ r \in HasTimeout /\ ~Dying(e)' => ep'[e].shut # "none"
  BY <1>1, <1>2 DEF Live, Kept, Failing
<1> QED
  BY <1>1, <1>3, <1>5, <1>6, <1>7, <1>8, <1>9, <1>10, <1>11, PairStep

LEMMA SendReuseStep == ASSUME PoolInv, NEW r \in Req, SendReuse(r) PROVE PoolInv'
<1>1. PICK e \in Ep : Reusable(e) /\ WriteNew(r, e, ep[e])
  BY DEF SendReuse
<1>2. CanSend(r) /\ nep' = nep /\ ctx' = ctx /\ fault' = fault
  BY DEF SendReuse
<1>3. /\ ctx.at # "stopped" /\ req[r].released = 0 /\ req[r].calls = <<>>
      /\ req[r].got = NoReq /\ req[r].recv = "none"
  BY <1>2, SendFacts
<1>4. /\ ep \in [Ep -> EpRec] /\ req \in [Req -> ReqRec] /\ ep[e] \in EpRec
      /\ EpOK(e) /\ NepOK
  BY DEF PoolInv, Types
<1>5. ep[e].txns = <<>> /\ ep[e].status = "CONNECTED"
  BY <1>1 DEF Reusable
<1>6. PICK g \in EpRec, d \in ReqRec :
           /\ ep' = [ep EXCEPT ![e] = g] /\ req' = [req EXCEPT ![r] = d]
           /\ g.status = ep[e].status /\ g.txns = <<r>> /\ g.ntxn = ep[e].ntxn + 1
           /\ g.conn = ep[e].conn /\ (g.shut = ep[e].shut \/ g.shut = "armed")
           /\ d.calls = <<>> /\ d.got = NoReq
           /\ Sent(ep[e], r, g, d) \/ NotSent(ep[e], g, d)
  BY <1>1, <1>3, <1>4, <1>5, WriteNewFacts
<1>7. \A x \in Ep : Live(x)' <=> Live(x)
  BY <1>4, <1>5, <1>6 DEF Live
<1>8. NepOK'
  BY <1>2, <1>3, <1>4, <1>7, NepSame
<1>9. g.conn = "none"
  BY <1>4, <1>5, <1>6 DEF EpOK
<1>10. g.wire = ep[e].wire \/ (g.wire = Append(ep[e].wire, r) /\ d.status = "SENT")
  BY <1>6 DEF Sent, NotSent
<1>11. /\ d.recv # "none" => d.status = "SENT" /\ r \in HasTimeout
       /\ \/ d.status = "INIT" /\ d.ret = "ERROR" /\ d.released = 1 /\ g.broken
          \/ d.status = "SENT" /\ d.ret = "OK" /\ d.released = 0
               /\ (r \in HasTimeout => g.shut # "none")
  BY <1>6 DEF Sent, NotSent
<1> QED
  BY <1>2, <1>5, <1>6, <1>8, <1>9, <1>10, <1>11, LinkStep

LEMMA SendConnectedStep == ASSUME PoolInv, NEW r \in Req, SendConnected(r) PROVE PoolInv'
<1>1. PICK e \in Ep : IsNew(e) /\ WriteNew(r, e, [ep[e] EXCEPT !.status = "CONNECTED"])
  BY DEF SendConnected
<1>2. CanSend(r) /\ nep # Max /\ nep' = nep + 1 /\ ctx' = ctx /\ fault' = fault
  BY DEF SendConnected, MustConnect, Valid
<1>3. /\ ctx.at # "stopped" /\ req[r].released = 0 /\ req[r].calls = <<>>
      /\ req[r].got = NoReq /\ req[r].recv = "none"
  BY <1>2, SendFacts
<1>4. /\ ep \in [Ep -> EpRec] /\ req \in [Req -> ReqRec] /\ ep[e] \in EpRec
      /\ EpOK(e) /\ NepOK
  BY DEF PoolInv, Types
<1>5. ep[e].status = "none" /\ ~Live(e)
  BY <1>1 DEF IsNew, Live
<1>6. ep[e].txns = <<>> /\ ep[e].conn = "none"
  BY <1>4, <1>5 DEF EpOK
<1> DEFINE c == [ep[e] EXCEPT !.status = "CONNECTED"]
<1>7. /\ c \in EpRec /\ c.txns = <<>> /\ c.status = "CONNECTED" /\ c.ntxn = ep[e].ntxn
      /\ c.conn = "none" /\ c.shut = ep[e].shut /\ c.wire = ep[e].wire
  BY <1>4, <1>6 DEF EpRec
<1>8. WriteNew(r, e, c)
  BY <1>1
<1> HIDE DEF c
<1>9. PICK g \in EpRec, d \in ReqRec :
           /\ ep' = [ep EXCEPT ![e] = g] /\ req' = [req EXCEPT ![r] = d]
           /\ g.status = c.status /\ g.txns = <<r>> /\ g.ntxn = c.ntxn + 1
           /\ g.conn = c.conn /\ (g.shut = c.shut \/ g.shut = "armed")
           /\ d.calls = <<>> /\ d.got = NoReq
           /\ Sent(c, r, g, d) \/ NotSent(c, g, d)
  BY <1>3, <1>4, <1>7, <1>8, WriteNewFacts
<1>10. Live(e)' /\ \A x \in Ep \ {e} : Live(x)' <=> Live(x)
  BY <1>4, <1>7, <1>9 DEF Live
<1>11. NepOK'
  BY <1>2, <1>3, <1>4, <1>5, <1>10, NepMore
<1>12. g.wire = ep[e].wire \/ (g.wire = Append(ep[e].wire, r) /\ d.status = "SENT")
  BY <1>7, <1>9 DEF Sent, NotSent
<1>13. /\ d.recv # "none" => d.status = "SENT" /\ r \in HasTimeout
       /\ \/ d.status = "INIT" /\ d.ret = "ERROR" /\ d.released = 1 /\ g.broken
          \/ d.status = "SENT" /\ d.ret = "OK" /\ d.released = 0
               /\ (r \in HasTimeout => g.shut # "none")
  BY <1>9 DEF Sent, NotSent
<1>14. g.status = "CONNECTED" /\ g.conn = "none" /\ g.ntxn = ep[e].ntxn + 1
  BY <1>7, <1>9
<1> QED
  BY <1>2, <1>5, <1>6, <1>9, <1>11, <1>12, <1>13, <1>14, LinkStep

LEMMA SendConnectingStep == ASSUME PoolInv, NEW r \in Req, SendConnecting(r) PROVE PoolInv'
<1> DEFINE G(e, t) == [ep[e] EXCEPT !.status = "CONNECTING", !.txns = <<r>>, !.ntxn = 1, !.conn = t]
           d == [req[r] EXCEPT !.status = "PENDING", !.ret = "OK"]
<1>0. /\ ep \in [Ep -> EpRec] /\ req \in [Req -> ReqRec] /\ NepOK
  BY DEF PoolInv, Types
<1>1. PICK e \in Ep, t \in TimerStates : IsNew(e) /\ ep' = [ep EXCEPT ![e] = G(e, t)]
  BY DEF SendConnecting, TimerStates
<1>2. CanSend(r) /\ nep # Max /\ nep' = nep + 1 /\ ctx' = ctx /\ fault' = fault
  BY DEF SendConnecting, MustConnect, Valid
<1>3. /\ ctx.at # "stopped" /\ req[r].released = 0 /\ req[r].calls = <<>>
      /\ req[r].got = NoReq /\ req[r].recv = "none"
  BY <1>2, SendFacts
<1>4. EpOK(e) /\ ep[e] \in EpRec /\ ep[e].status = "none" /\ ~Live(e) /\ CtxOK
  BY <1>0, <1>1 DEF IsNew, Live, PoolInv
<1>5. /\ ep[e].txns = <<>> /\ ep[e].shut = "none" /\ ep[e].wire = <<>>
      /\ ep[e].ntxn = 0
  <2>1. ~(ctx.at = "error" /\ ctx.ep = e)
    BY <1>4 DEF CtxOK
  <2> QED
    BY <1>4, <2>1 DEF EpOK, Live
<1>6. req' = [req EXCEPT ![r] = d]
  BY <1>0 DEF SendConnecting
<1>7. /\ d \in ReqRec /\ d.status = "PENDING" /\ d.ret = "OK" /\ d.released = 0
      /\ d.calls = <<>> /\ d.got = NoReq /\ d.recv = "none"
  BY <1>0, <1>3 DEF ReqRec
<1> DEFINE g == G(e, t)
<1>8. /\ g \in EpRec /\ g.status = "CONNECTING" /\ g.txns = <<r>> /\ g.ntxn = 1
      /\ g.shut = ep[e].shut /\ g.wire = ep[e].wire
  <2>1. <<r>> \in Seq(Req) /\ 1 \in Nat
    OBVIOUS
  <2> QED
    BY <1>4, <2>1 DEF EpRec
<1>9. ep' = [ep EXCEPT ![e] = g]
  BY <1>1
<1> HIDE DEF d, g, G
<1>10. Live(e)' /\ \A x \in Ep \ {e} : Live(x)' <=> Live(x)
  BY <1>0, <1>8, <1>9 DEF Live
<1>11. NepOK'
  BY <1>0, <1>2, <1>3, <1>4, <1>10, NepMore
<1>12. g.ntxn = ep[e].ntxn + 1
  BY <1>5, <1>8
<1> QED
  BY <1>2, <1>4, <1>5, <1>6, <1>7, <1>8, <1>9, <1>11, <1>12, LinkStep

LEMMA SendAbortsStep == ASSUME PoolInv, NEW r \in Req, SendAborts(r) PROVE PoolInv'
<1>1. PICK e \in Ep : ep[e].ntxn > 1
  BY DEF SendAborts, Overcounted
<1>2. EpOK(e)
  BY DEF PoolInv
<1>3. ctx.at = "error"
  BY <1>1, <1>2 DEF EpOK
<1>4. Crash("abort")
  BY DEF SendAborts
<1> QED
  BY <1>3, <1>4, CrashStep

------------------------------------------------------------------------------
(* The request a connection carries, seen from the handler of an event.    *)
LEMMA CarriedFacts ==
  ASSUME PoolInv, ctx = Idle, NEW e \in Ep, NEW r \in Req, Holds(e, r)
  PROVE  /\ Head(ep[e].txns) = r /\ ep[e].ntxn = 1 /\ Kept(r)
         /\ \A x \in Ep \ {e} : ~Holds(x, r)
         /\ req[r].calls = <<>> /\ req[r].got = NoReq /\ ~Mistaken(r)
         /\ req[r].calls # <<"TIMEOUT">>
         /\ req[r].status # "INIT" => req[r].ret = "OK" /\ req[r].released = 0
<1>1. EpOK(e) /\ ReqOK(r)
  BY DEF PoolInv
<1>2. ctx.at = "idle" /\ ~Called(r)
  BY IdleFacts
<1>3. /\ \A x \in Ep \ {e} : ~Holds(x, r)
      /\ Kept(r)
  BY HolderFacts
<1>4. ep[e].txns = <<r>> /\ <<r>> # <<>> /\ Head(<<r>>) = r
  BY DEF Holds
<1>5. ep[e].ntxn = 1
  BY <1>1, <1>2, <1>4 DEF EpOK
<1>6. req[r].calls = <<>> /\ <<>> # <<"TIMEOUT">>
  BY <1>1, <1>2, <1>3 DEF ReqOK, Kept
<1>7. req[r].status # "INIT" => req[r].ret = "OK" /\ req[r].released = 0
  BY <1>1, <1>3 DEF ReqOK, Kept
<1>8. req[r].got = NoReq
  BY <1>1, <1>6 DEF ReqOK
<1> QED
  BY <1>3, <1>4, <1>5, <1>6, <1>7, <1>8 DEF Mistaken

(* The waiting request of e, now connected and in state g, is in state d.  *)
LEMMA ConnectedStep ==
  ASSUME PoolInv, Up, ctx = Idle, NEW e \in Ep, NEW r \in Req, Holds(e, r),
         ep[e].status = "CONNECTING", NEW g \in EpRec, NEW d \in ReqRec,
         ep' = [ep EXCEPT ![e] = g], req' = [req EXCEPT ![r] = d],
         nep' = nep, ctx' = ctx, fault' = fault,
         g.status = "CONNECTED", g.txns = <<r>>, g.ntxn = 1, g.conn = "none",
         g.wire \in {<<>>, <<r>>}, g.wire = <<r>> => d.status = "SENT",
         d.status \in {"PENDING", "SENT"}, d.ret = "OK", d.released = 0,
         d.calls = <<>>, d.got = NoReq,
         d.recv # "none" => d.status = "SENT" /\ r \in HasTimeout,
         d.status = "SENT" /\ r \in HasTimeout => g.shut # "none"
  PROVE  PoolInv'
<1>0. /\ ep \in [Ep -> EpRec] /\ req \in [Req -> ReqRec] /\ ctx \in CtxRec
  BY DEF PoolInv, Types
<1>1. /\ ctx.at = "idle" /\ ctx.ep = 0 /\ ctx.req = NoReq
      /\ \A x \in Ep : ~Dying(x)
      /\ \A y \in Req : ~Called(y) /\ ~Failing(y)
  BY IdleFacts
<1>2. /\ ep'[e] = g /\ req'[r] = d
      /\ \A x \in Ep \ {e} : ep'[x] = ep[x]
      /\ \A y \in Req \ {r} : req'[y] = req[y]
  BY <1>0
<1>3. Types'
  BY <1>0 DEF Types
<1>4. /\ \A x \in Ep \ {e} : ~Holds(x, r)
      /\ ~Mistaken(r) /\ req[r].calls # <<"TIMEOUT">>
  BY CarriedFacts
<1>5. Pair(e, r)
  <2>1. ep[e].txns = <<r>>
    BY DEF Holds
  <2> QED
    BY <1>2, <1>4, <2>1 DEF Pair
<1>6. CtxOK'
  BY <1>1 DEF CtxOK, PoolInv
<1>7. \A x \in Ep : Live(x)' <=> Live(x)
  BY <1>2 DEF Live
<1>8. NepOK'
  BY <1>1, <1>7, NepSame DEF PoolInv
<1>9. Holds(e, r)' /\ Somewhere(r)' /\ Live(e)'
  BY <1>2 DEF Holds, Somewhere, Live
<1>10. EpOK(e)'
  <2>0. <<>> # <<r>>
    OBVIOUS
  <2>1. ep'[e].txns # <<>>
    BY <1>2, <2>0
  <2>2. ep'[e].ntxn = 1 /\ ctx'.at # "error"
    BY <1>1, <1>2
  <2> QED
    BY <1>2, <1>9, <2>1, <2>2 DEF EpOK
<1>11. ReqOK(r)'
  <2>1. ~Called(r)'
    BY <1>1 DEF Called
  <2> QED
    BY <1>2, <2>1 DEF ReqOK
<1>12. WrongOK(r)'
  BY <1>2 DEF WrongOK, Mistaken
<1>13. WireOK(e)'
  <2> SUFFICES ASSUME NEW i \in 1..Len(g.wire)
               PROVE  /\ g.txns = <<g.wire[i]>> /\ i = Len(g.wire)
                      /\ req'[g.wire[i]].status = "SENT" /\ req'[g.wire[i]].got = NoReq
    BY <1>2 DEF WireOK, Holds
  <2>1. g.wire = <<r>> /\ Len(<<r>>) = 1 /\ <<r>>[1] = r
    OBVIOUS
  <2>2. i = 1 /\ g.wire[i] = r /\ Len(g.wire) = 1
    BY <2>1
  <2> QED
    BY <1>2, <2>1, <2>2
<1>14. /\ Kept(r)' /\ ~Failing(r)'
       /\ ep'[e].status = "CONNECTING" => req'[r].status = "PENDING"
       /\ req'[r].status = "INIT" => ep'[e].broken
       /\ req'[r].status = "SENT" /\ r \in HasTimeout /\ ~Dying(e)' => ep'[e].shut # "none"
  BY <1>1, <1>2 DEF Kept, Failing
<1> QED
  BY <1>1, <1>3, <1>5, <1>6, <1>8, <1>9, <1>10, <1>11, <1>12, <1>13, <1>14, PairStep

LEMMA OnConnectStep == ASSUME PoolInv, NEW e \in Ep, OnConnect(e) PROVE PoolInv'
<1>0. /\ Up /\ ctx = Idle /\ ep[e].status = "CONNECTING"
      /\ nep' = nep /\ ctx' = ctx /\ fault' = fault
  BY DEF OnConnect, InLoop
<1>1. /\ ep \in [Ep -> EpRec] /\ req \in [Req -> ReqRec] /\ ep[e] \in EpRec
      /\ EpOK(e)
  BY DEF PoolInv, Types
<1>2. PICK r \in Req : Holds(e, r)
  <2>1. ~Dying(e) /\ Live(e)
    BY <1>0, IdleFacts DEF Live
  <2> QED
    BY <1>0, <1>1, <2>1 DEF EpOK
<1>3. /\ Head(ep[e].txns) = r /\ ep[e].ntxn = 1
      /\ req[r].calls = <<>> /\ req[r].got = NoReq
      /\ req[r].status # "INIT" => req[r].ret = "OK" /\ req[r].released = 0
  BY <1>0, <1>2, CarriedFacts
<1>4. req[r].status = "PENDING" /\ req[r].ret = "OK" /\ req[r].released = 0
  BY <1>0, <1>2, <1>3, HolderFacts
<1>5. req[r] \in ReqRec /\ req[r].recv = "none"
  BY <1>1, <1>4 DEF PoolInv, ReqOK
<1> DEFINE c == [ep[e] EXCEPT !.status = "CONNECTED", !.conn = "none"]
<1>6. /\ c \in EpRec /\ c.status = "CONNECTED" /\ c.txns = ep[e].txns /\ c.ntxn = ep[e].ntxn
      /\ c.conn = "none" /\ c.shut = ep[e].shut /\ c.wire = ep[e].wire
  BY <1>1 DEF EpRec, TimerStates
<1>7. ep[e].wire = <<>> /\ ep[e].txns = <<r>>
  BY <1>0, <1>1, <1>2 DEF EpOK, Holds
<1>8. \/ /\ \E w \in Wires(c, r) : ep' = [ep EXCEPT ![e] = WrittenConn(c, r, w)]
         /\ req' = [req EXCEPT ![r] = WriteOk(@, r)]
      \/ ep' = [ep EXCEPT ![e] = [c EXCEPT !.broken = TRUE]] /\ req' = req
  BY <1>3 DEF OnConnect, WrittenConn
<1> HIDE DEF c
<1>9. CASE /\ \E w \in Wires(c, r) : ep' = [ep EXCEPT ![e] = WrittenConn(c, r, w)]
           /\ req' = [req EXCEPT ![r] = WriteOk(@, r)]
  <2>1. PICK w \in Wires(c, r) : ep' = [ep EXCEPT ![e] = WrittenConn(c, r, w)]
    BY <1>9
  <2>2. w \in {<<>>, <<r>>} /\ w \in Seq(Req)
    <3>1. Append(<<>>, r) = <<r>> /\ <<r>> \in Seq(Req) /\ <<>> \in Seq(Req)
      OBVIOUS
    <3> QED
      BY <1>6, <1>7, <3>1 DEF Wires
  <2> DEFINE g == WrittenConn(c, r, w)
             d == WriteOk(req[r], r)
  <2>3. /\ g \in EpRec /\ g.wire = w /\ g.txns = c.txns /\ g.ntxn = c.ntxn
        /\ g.status = c.status /\ g.conn = c.conn
        /\ r \in HasTimeout => g.shut = "armed"
    BY <1>6, <2>2, WrittenFacts
  <2>4. /\ d \in ReqRec /\ d.status = "SENT"
        /\ d.recv # "none" => r \in HasTimeout
        /\ d.calls = req[r].calls /\ d.ret = req[r].ret /\ d.got = req[r].got
        /\ d.released = req[r].released
    BY <1>5, WriteOkFacts
  <2>5. ep' = [ep EXCEPT ![e] = g] /\ req' = [req EXCEPT ![r] = d]
    BY <1>9, <2>1
  <2> HIDE DEF g, d
  <2>6. /\ g.status = "CONNECTED" /\ g.txns = <<r>> /\ g.ntxn = 1 /\ g.conn = "none"
        /\ g.wire \in {<<>>, <<r>>} /\ d.ret = "OK" /\ d.released = 0 /\ d.calls = <<>>
        /\ d.got = NoReq
    BY <1>3, <1>4, <1>6, <1>7, <2>2, <2>3, <2>4
  <2> QED
    BY <1>0, <1>2, <2>3, <2>4, <2>5, <2>6, ConnectedStep
<1>10. CASE ep' = [ep EXCEPT ![e] = [c EXCEPT !.broken = TRUE]] /\ req' = req
  <2> DEFINE g == [c EXCEPT !.broken = TRUE]
             d == req[r]
  <2>1. /\ g \in EpRec /\ g.wire = c.wire /\ g.txns = c.txns /\ g.ntxn = c.ntxn
        /\ g.status = c.status /\ g.conn = c.conn
    BY <1>6 DEF EpRec
  <2>2. ep' = [ep EXCEPT ![e] = g] /\ req' = [req EXCEPT ![r] = d]
    BY <1>1, <1>10
  <2>3. /\ d \in ReqRec /\ d.status = "PENDING" /\ d.ret = "OK" /\ d.released = 0
        /\ d.calls = <<>> /\ d.got = NoReq /\ d.recv = "none"
    BY <1>3, <1>4, <1>5
  <2>4. <<>> # <<r>>
    OBVIOUS
  <2> HIDE DEF g, d
  <2>5. /\ g.status = "CONNECTED" /\ g.txns = <<r>> /\ g.ntxn = 1 /\ g.conn = "none"
        /\ g.wire = <<>>
    BY <1>3, <1>6, <1>7, <2>1
  <2> QED
    BY <1>0, <1>2, <2>1, <2>2, <2>3, <2>4, <2>5, ConnectedStep
<1> QED
  BY <1>8, <1>9, <1>10

------------------------------------------------------------------------------
(* A handler of the pool calls the callback of r, which e carries.         *)
LEMMA CallStep ==
  ASSUME PoolInv, Up, ctx = Idle, NEW e \in Ep, NEW r \in Req, Holds(e, r),
         ep[e].status = "CONNECTED", req[r].status \in {"PENDING", "SENT"},
         NEW g \in EpRec, NEW d \in ReqRec, NEW at \in {"ok", "timeout"},
         ep' = [ep EXCEPT ![e] = g], req' = [req EXCEPT ![r] = d],
         nep' = nep, fault' = fault, ctx' = [at |-> at, ep |-> e, req |-> r],
         g.status = ep[e].status, g.txns = ep[e].txns, g.ntxn = ep[e].ntxn,
         g.conn = ep[e].conn, g.shut = ep[e].shut,
         d.status = req[r].status, d.ret = req[r].ret, d.released = req[r].released,
         d.recv = "none", \E x \in Results : d.calls = <<x>>,
         at = "ok" => d.got # NoReq,
         at = "timeout" => r \in HasTimeout /\ d.status = "SENT" /\ d.calls = <<"TIMEOUT">>,
         WireOK(e)', WrongOK(r)'
  PROVE  PoolInv'
<1>0. /\ ep \in [Ep -> EpRec] /\ req \in [Req -> ReqRec] /\ ctx \in CtxRec /\ EpOK(e)
  BY DEF PoolInv, Types
<1>1. /\ ctx.at = "idle" /\ ctx.ep = 0 /\ ctx.req = NoReq
      /\ \A x \in Ep : ~Dying(x)
      /\ \A y \in Req : ~Called(y) /\ ~Failing(y)
  BY IdleFacts
<1>2. /\ ep'[e] = g /\ req'[r] = d
      /\ \A x \in Ep \ {e} : ep'[x] = ep[x]
      /\ \A y \in Req \ {r} : req'[y] = req[y]
  BY <1>0
<1>3. ctx'.at = at /\ ctx'.ep = e /\ ctx'.req = r /\ ctx' \in CtxRec
  BY DEF CtxRec
<1>4. Types'
  BY <1>0, <1>3 DEF Types
<1>5. /\ \A x \in Ep \ {e} : ~Holds(x, r)
      /\ ~Mistaken(r) /\ req[r].calls # <<"TIMEOUT">>
      /\ req[r].ret = "OK" /\ req[r].released = 0
  BY CarriedFacts
<1>6. ep[e].txns = <<r>> /\ Holds(e, r)'
  BY <1>2 DEF Holds
<1>7. Pair(e, r)
  BY <1>1, <1>2, <1>3, <1>5, <1>6 DEF Pair
<1>8. CtxOK'
  BY <1>2, <1>3, <1>6 DEF CtxOK
<1>9. \A x \in Ep : Live(x)' <=> Live(x)
  BY <1>2 DEF Live
<1>10. NepOK'
  BY <1>1, <1>9, NepSame DEF PoolInv
<1>11. ~Dying(e)' /\ Called(r)' /\ ~Failing(r)'
  BY <1>3 DEF Dying, Called, Failing
<1>12. EpOK(e)'
  BY <1>0, <1>1, <1>2, <1>3, <1>6, <1>9, <1>11, ZenonT(60) DEF EpOK, Holds
<1>13. ReqOK(r)'
  <2>1. PICK x \in Results : d.calls = <<x>>
    OBVIOUS
  <2>2. <<x>> # <<>>
    OBVIOUS
  <2>3. req'[r].calls # <<>> /\ \E z \in Results : req'[r].calls = <<z>>
    BY <1>2, <2>1, <2>2
  <2>4. /\ req'[r].status \in {"PENDING", "SENT"} /\ req'[r].ret = "OK"
        /\ req'[r].released = 0 /\ req'[r].recv = "none"
    BY <1>2, <1>5
  <2> QED
    BY <1>11, <2>3, <2>4 DEF ReqOK
<1>14. Somewhere(r)'
  BY <1>6 DEF Somewhere
<1>15. /\ Live(e) /\ Kept(r)
       /\ ep[e].status = "CONNECTING" => req[r].status = "PENDING"
       /\ req[r].status = "INIT" => ep[e].broken
       /\ req[r].status = "SENT" /\ r \in HasTimeout /\ ~Dying(e) => ep[e].shut # "none"
  BY HolderFacts
<1>16. /\ Live(e)' /\ Kept(r)'
       /\ ep'[e].status = "CONNECTING" => req'[r].status = "PENDING"
       /\ req'[r].status = "INIT" => ep'[e].broken
       /\ req'[r].status = "SENT" /\ r \in HasTimeout /\ ~Dying(e)' => ep'[e].shut # "none"
  BY <1>1, <1>2, <1>9, <1>15 DEF Kept
<1> QED
  BY <1>1, <1>4, <1>7, <1>8, <1>10, <1>11, <1>12, <1>13, <1>14, <1>16, PairStep

LEMMA ReadStep == ASSUME PoolInv, NEW e \in Ep, Read(e) PROVE PoolInv'
<1>0. /\ Up /\ ctx = Idle /\ ep[e].status = "CONNECTED" /\ ep[e].txns # <<>>
      /\ ep[e].wire # <<>> /\ Head(ep[e].txns) \in HasUnpack
  BY DEF Read, InLoop
<1>1. /\ ep \in [Ep -> EpRec] /\ req \in [Req -> ReqRec] /\ ep[e] \in EpRec
      /\ EpOK(e) /\ WireOK(e) /\ ~Dying(e)
  BY <1>0, IdleFacts DEF PoolInv, Types
<1>2. PICK r \in Req : Holds(e, r)
  BY <1>0, <1>1 DEF EpOK
<1>3. /\ Head(ep[e].txns) = r /\ Kept(r)
      /\ req[r].calls = <<>> /\ req[r].got = NoReq /\ ~Mistaken(r)
      /\ req[r].calls # <<"TIMEOUT">>
  BY <1>0, <1>2, CarriedFacts
<1>4. CASE req[r].status = "INIT"
  <2>1. Crash("use_after_free")
    BY <1>3, <1>4 DEF Read
  <2>2. Live(e) /\ ep[e].broken
    BY <1>2, <1>4, HolderFacts
  <2> QED
    BY <2>1, <2>2, CrashStep
<1>5. CASE req[r].status # "INIT"
  <2> DEFINE q == Head(ep[e].wire)
             g == [ep[e] EXCEPT !.wire = Tail(ep[e].wire)]
             d == [req[r] EXCEPT !.recv = "none", !.got = q, !.calls = <<"OK">>]
  <2>1. /\ ep[e].wire \in Seq(Req) /\ q \in Req /\ Tail(ep[e].wire) \in Seq(Req)
        /\ Len(ep[e].wire) \in Nat /\ Len(ep[e].wire) >= 1 /\ q = ep[e].wire[1]
        /\ Len(Tail(ep[e].wire)) = Len(ep[e].wire) - 1
        /\ \A i \in 1..Len(Tail(ep[e].wire)) : Tail(ep[e].wire)[i] = ep[e].wire[i + 1]
    BY <1>0, <1>1 DEF EpRec
  <2>2. Append(<<>>, "OK") = <<"OK">> /\ <<"OK">> \in Seq(Results)
    BY DEF Results
  <2>3. /\ ep' = [ep EXCEPT ![e] = g] /\ nep' = nep /\ fault' = fault
        /\ ctx' = [at |-> "ok", ep |-> e, req |-> r]
    BY <1>1, <1>3, <1>5 DEF Read, Callback, EpRec
  <2>4. req' = [req EXCEPT ![r] = d]
    <3>1. req' = [req EXCEPT ![r] = [req[r] EXCEPT !.recv = "none", !.got = q,
                                                   !.calls = Append(req[r].calls, "OK")]]
      BY <1>1, <1>3, <1>5 DEF Read, ReqRec
    <3>2. Append(req[r].calls, "OK") = <<"OK">>
      BY <1>3, <2>2
    <3> QED
      BY <3>1, <3>2
  <2>5. /\ g \in EpRec /\ g.status = ep[e].status /\ g.txns = ep[e].txns
        /\ g.ntxn = ep[e].ntxn /\ g.conn = ep[e].conn /\ g.shut = ep[e].shut
        /\ g.wire = Tail(ep[e].wire)
    BY <1>1, <2>1 DEF EpRec
  <2>6. /\ d \in ReqRec /\ d.status = req[r].status /\ d.ret = req[r].ret
        /\ d.released = req[r].released /\ d.recv = "none" /\ d.calls = <<"OK">>
        /\ d.got = q
    BY <1>1, <2>1, <2>2, ZenonT(60) DEF ReqRec, TimerStates
  <2> HIDE DEF q, g, d
  <2>7. /\ ep'[e] = g /\ req'[r] = d
        /\ \A y \in Req \ {r} : req'[y] = req[y]
    BY <1>1, <2>3, <2>4
  <2>8. r \in HasUnpack /\ ~GivenUp(r)
    BY <1>0, <1>3 DEF GivenUp
  <2>9. \A s \in Req : Holds(e, s) => s = r
    BY <1>2 DEF Holds
  <2>10. WrongOK(r)'
    <3> SUFFICES ASSUME q # r
                 PROVE  /\ \E p \in Req \ {r} : GivenUp(p)'
                        /\ q \notin HasUnpack \/ req'[q].calls = <<"TIMEOUT">>
                           \/ req'[q].got \notin {q, NoReq}
      BY <2>6, <2>7 DEF WrongOK, Mistaken, GivenUp
    <3>1. GivenUp(q) \/ Mistaken(q)
      BY <1>0, <1>1, <2>1, <2>9 DEF WireOK
    <3>2. \E p \in Req \ {r} : GivenUp(p)
      <4>1. CASE GivenUp(q)
        BY <2>1, <4>1
      <4>2. CASE Mistaken(q)
        BY <2>1, <2>8, <4>2 DEF PoolInv, WrongOK
      <4> QED
        BY <3>1, <4>1, <4>2
    <3>3. \A p \in Req \ {r} : GivenUp(p) => GivenUp(p)'
      BY <2>7 DEF GivenUp
    <3> QED
      BY <2>1, <2>7, <3>1, <3>2, <3>3 DEF GivenUp, Mistaken
  <2>11. WireOK(e)'
    <3> SUFFICES ASSUME NEW i \in 1..Len(g.wire)
                 PROVE  \/ g.wire[i] \notin HasUnpack \/ req'[g.wire[i]].calls = <<"TIMEOUT">>
                        \/ req'[g.wire[i]].got \notin {g.wire[i], NoReq}
      BY <2>7 DEF WireOK, GivenUp, Mistaken
    <3> DEFINE p == ep[e].wire[i + 1]
    <3>1. /\ i + 1 \in 1..Len(ep[e].wire) /\ i + 1 # 1 /\ g.wire[i] = p
          /\ Len(ep[e].wire) # 1
      BY <2>1, <2>5
    <3>2. p \in Req
      BY <2>1, <3>1
    <3>3. Holds(e, p) \/ GivenUp(p) \/ Mistaken(p)
      BY <1>0, <1>1, <3>1 DEF WireOK
    <3>4. q # r
      BY <1>0, <1>1, <1>3, <2>1, <2>8, <3>1 DEF WireOK
    <3> HIDE DEF p
    <3>5. CASE p = r
      BY <2>1, <2>6, <2>7, <3>1, <3>4, <3>5, EpPoolAssumption
    <3>6. CASE p # r
      <4>1. req'[p] = req[p] /\ (GivenUp(p) \/ Mistaken(p))
        BY <2>7, <2>9, <3>2, <3>3, <3>6
      <4> QED
        BY <3>1, <4>1 DEF GivenUp, Mistaken
    <3> QED
      BY <3>5, <3>6
  <2>12. req[r].status \in {"PENDING", "SENT"}
    BY <1>3, <1>5 DEF Kept
  <2>13. \E x \in Results : d.calls = <<x>>
    BY <2>6 DEF Results
  <2>14. d.got # NoReq
    BY <2>1, <2>6, EpPoolAssumption
  <2> QED
    BY <1>0, <1>2, <2>3, <2>4, <2>5, <2>6, <2>10, <2>11, <2>12, <2>13, <2>14, CallStep
<1> QED
  BY <1>4, <1>5

(* The connection of a request.                                            *)
LEMMA OwnerFacts ==
  ASSUME PoolInv, NEW e \in Ep, NEW r \in Req, Holds(e, r)
  PROVE  Owner(r) = e
<1> DEFINE P(x) == \E i \in 1..Len(ep[x].txns) : ep[x].txns[i] = r
<1>1. P(e)
  <2>1. Len(<<r>>) = 1 /\ <<r>>[1] = r /\ 1 \in 1..1
    OBVIOUS
  <2> QED
    BY <2>1 DEF Holds
<1>2. ASSUME NEW x \in Ep, P(x)
      PROVE  x = e
  <2>1. EpOK(x)
    BY DEF PoolInv
  <2>2. PICK s \in Req : ep[x].txns = <<s>>
    <3>1. ep[x].txns # <<>>
      BY <1>2
    <3> QED
      BY <2>1, <3>1 DEF EpOK, Holds
  <2>3. s = r
    BY <1>2, <2>2
  <2> QED
    BY <2>2, <2>3, HolderFacts DEF Holds
<1>3. Owner(r) = CHOOSE x \in Ep : P(x)
  BY DEF Owner
<1> HIDE DEF P
<1> QED
  BY <1>1, <1>2, <1>3

LEMMA RecvTimeoutStep == ASSUME PoolInv, NEW r \in Req, RecvTimeout(r) PROVE PoolInv'
<1>0. Up /\ ctx = Idle /\ req[r].recv = "fired"
  BY DEF RecvTimeout, InLoop
<1>1. /\ ep \in [Ep -> EpRec] /\ req \in [Req -> ReqRec] /\ ReqOK(r) /\ Somewhere(r)
  BY DEF PoolInv, Types
<1>2. req[r].status = "SENT" /\ r \in HasTimeout
  BY <1>0, <1>1 DEF ReqOK
<1>3. PICK e \in Ep : Holds(e, r)
  BY <1>0, <1>1, <1>2, IdleFacts DEF Somewhere, Kept
<1>4. /\ req[r].calls = <<>> /\ req[r].got = NoReq
  BY <1>0, <1>3, CarriedFacts
<1>5. ep[e].status = "CONNECTED"
  BY <1>2, <1>3, HolderFacts DEF Live
<1>6. ep[e] \in EpRec /\ WireOK(e) /\ ~Dying(e)
  BY <1>0, <1>1, IdleFacts DEF PoolInv
<1> DEFINE g == ep[e]
           d == [req[r] EXCEPT !.recv = "none", !.calls = <<"TIMEOUT">>]
<1>7. Append(<<>>, "TIMEOUT") = <<"TIMEOUT">> /\ <<"TIMEOUT">> \in Seq(Results)
  BY DEF Results
<1>8. /\ ep' = [ep EXCEPT ![e] = g] /\ nep' = nep /\ fault' = fault
      /\ ctx' = [at |-> "timeout", ep |-> e, req |-> r]
  <2>1. Owner(r) = e
    BY <1>3, OwnerFacts
  <2> QED
    BY <1>1, <1>2, <2>1 DEF RecvTimeout, Callback
<1>9. req' = [req EXCEPT ![r] = d]
  <2>1. req' = [req EXCEPT ![r] = [req[r] EXCEPT !.recv = "none",
                                                 !.calls = Append(req[r].calls, "TIMEOUT")]]
    BY <1>1, <1>2 DEF RecvTimeout, ReqRec
  <2>2. Append(req[r].calls, "TIMEOUT") = <<"TIMEOUT">>
    BY <1>4, <1>7
  <2> QED
    BY <2>1, <2>2
<1>10. /\ d \in ReqRec /\ d.status = req[r].status /\ d.ret = req[r].ret
       /\ d.released = req[r].released /\ d.recv = "none" /\ d.calls = <<"TIMEOUT">>
       /\ d.got = NoReq
  BY <1>1, <1>4, <1>7 DEF ReqRec, TimerStates
<1>11. g \in EpRec /\ g.status = ep[e].status /\ g.txns = ep[e].txns
       /\ g.ntxn = ep[e].ntxn /\ g.conn = ep[e].conn /\ g.shut = ep[e].shut
  BY <1>6
<1> HIDE DEF g, d
<1>12. /\ ep' = ep /\ req'[r] = d
       /\ \A y \in Req \ {r} : req'[y] = req[y]
  BY <1>1, <1>2, <1>9, <1>10 DEF RecvTimeout
<1>13. WrongOK(r)'
  BY <1>10, <1>12 DEF WrongOK, Mistaken
<1>14. GivenUp(r)'
  BY <1>10, <1>12 DEF GivenUp
<1>15. WireOK(e)'
  <2>1. \A q \in Req : (GivenUp(q) => GivenUp(q)') /\ (Mistaken(q) => Mistaken(q)')
    <3> TAKE q \in Req
    <3>1. CASE q = r
      BY <1>4, <1>14, <3>1 DEF Mistaken
    <3>2. CASE q # r
      BY <1>12, <3>2 DEF GivenUp, Mistaken
    <3> QED
      BY <3>1, <3>2
  <2>2. \A q \in Req : Holds(e, q) => GivenUp(q)'
    BY <1>3, <1>14 DEF Holds
  <2>3. ep[e].wire \in Seq(Req) /\ ep'[e].wire = ep[e].wire
    BY <1>6, <1>12 DEF EpRec
  <2> QED
    BY <1>5, <1>6, <2>1, <2>2, <2>3, WireKept
<1>16. \E x \in Results : d.calls = <<x>>
  BY <1>10 DEF Results
<1> QED
  BY <1>0, <1>2, <1>3, <1>5, <1>8, <1>9, <1>10, <1>11, <1>13, <1>15, <1>16, CallStep

------------------------------------------------------------------------------
(* The callback of r has returned to _handle_ok or _handle_timeout.        *)
LEMMA ReturnStep ==
  ASSUME PoolInv, Up, ctx.at \in {"ok", "timeout"}, NEW c \in EpRec,
         c.status = ep[ctx.ep].status, c.txns = ep[ctx.ep].txns,
         c.ntxn = ep[ctx.ep].ntxn, c.conn = ep[ctx.ep].conn,
         c.wire = ep[ctx.ep].wire, c.shut # "none",
         req' = [req EXCEPT ![ctx.req] = NodeDestroyed(@, 1)],
         ep' = [ep EXCEPT ![ctx.ep] = Unlinked(c, ctx.req)],
         ctx' = Idle, nep' = nep, fault' = fault
  PROVE  PoolInv'
<1>0. /\ ep \in [Ep -> EpRec] /\ req \in [Req -> ReqRec] /\ ctx \in CtxRec /\ CtxOK
  BY DEF PoolInv, Types
<1>1. PICK e \in Ep, r \in Req : e = ctx.ep /\ r = ctx.req /\ Holds(e, r)
  BY <1>0 DEF CtxOK
<1>2. /\ ep[e].status = "CONNECTED" /\ req[r].status \in {"PENDING", "SENT"}
      /\ ctx.at = "ok" => req[r].got # NoReq
      /\ ctx.at = "timeout" => req[r].calls = <<"TIMEOUT">>
  BY <1>0, <1>1 DEF CtxOK
<1>3. EpOK(e) /\ WireOK(e) /\ ReqOK(r) /\ WrongOK(r)
  BY DEF PoolInv
<1>4. Called(r) /\ ~Dying(e)
  BY <1>1 DEF Called, Dying
<1>5. req[r].ret = "OK" /\ req[r].released = 0 /\ \E x \in Results : req[r].calls = <<x>>
  BY <1>2, <1>3, <1>4 DEF ReqOK
<1>6. \A x \in Ep \ {e} : ~Holds(x, r)
  BY <1>1, HolderFacts
<1>7. ep[e].txns = <<r>> /\ ep[e].ntxn = 1 /\ ep[e].conn = "none"
  <2>1. ep[e].txns = <<r>> /\ <<r>> # <<>>
    BY <1>1 DEF Holds
  <2> QED
    BY <1>2, <1>3, <2>1 DEF EpOK
<1> DEFINE g == Unlinked(c, r)
           d == NodeDestroyed(req[r], 1)
<1>8. /\ g \in EpRec /\ g.ntxn = 0 /\ g.txns = <<>> /\ g.status = "CONNECTED"
      /\ g.conn = "none" /\ g.shut # "none" /\ g.wire = ep[e].wire
  <2>1. c.ntxn = 1 /\ c.txns = <<r>> /\ c.status = "CONNECTED" /\ c.conn = "none"
        /\ c.wire = ep[e].wire
    BY <1>1, <1>2, <1>7
  <2>2. c.ntxn > 0 /\ (c.txns = <<>> \/ \E s \in Req : c.txns = <<s>>)
    BY <2>1
  <2> HIDE DEF g
  <2>3. g = Unlinked(c, r)
    BY DEF g
  <2>4. /\ g \in EpRec /\ g.ntxn = c.ntxn - 1
        /\ c.txns = <<r>> => g.txns = <<>>
        /\ g.status = c.status /\ g.conn = c.conn /\ g.shut = c.shut /\ g.wire = c.wire
    BY <2>2, <2>3, UnlinkedFacts
  <2> QED
    BY <2>1, <2>4
<1>9. /\ d \in ReqRec /\ d.status = "gone" /\ d.recv = "none" /\ d.released = 1
      /\ d.calls = req[r].calls /\ d.ret = "OK" /\ d.got = req[r].got
  <2>1. req[r] \in ReqRec /\ 1 \in {0, 1}
    BY <1>0
  <2> HIDE DEF d
  <2>2. d = NodeDestroyed(req[r], 1)
    BY DEF d
  <2> QED
    BY <1>5, <2>1, <2>2, NodeDestroyedFacts
<1>10. ep' = [ep EXCEPT ![e] = g] /\ req' = [req EXCEPT ![r] = d]
  BY <1>1
<1> HIDE DEF g, d
<1>11. /\ ep'[e] = g /\ req'[r] = d
       /\ \A x \in Ep \ {e} : ep'[x] = ep[x]
       /\ \A y \in Req \ {r} : req'[y] = req[y]
  BY <1>0, <1>10
<1>12. ctx'.at = "idle" /\ ctx'.ep = 0 /\ ctx'.req = NoReq /\ ctx' \in CtxRec
  BY DEF Idle, CtxRec
<1>13. Types'
  BY <1>0, <1>8, <1>9, <1>10, <1>12 DEF Types
<1>14. \A q \in Req : (GivenUp(q) => GivenUp(q)') /\ (Mistaken(q) => Mistaken(q)')
  <2>1. \A q \in Req : req'[q].calls = req[q].calls /\ req'[q].got = req[q].got
    BY <1>9, <1>11
  <2> QED
    BY <2>1 DEF GivenUp, Mistaken
<1>15. Pair(e, r)
  BY <1>1, <1>6, <1>7, <1>8, <1>9, <1>11, <1>12, <1>14 DEF Pair
<1>16. CtxOK'
  BY <1>12 DEF CtxOK
<1>17. NepOK'
  <2>1. \A x \in Ep : Live(x)' <=> Live(x)
    BY <1>2, <1>8, <1>11 DEF Live
  <2> QED
    BY <2>1, NepSame DEF PoolInv
<1>18. EpOK(e)'
  BY <1>8, <1>11, <1>12 DEF EpOK, Live
<1>19. WireOK(e)'
  <2>1. \A q \in Req : Holds(e, q) /\ req[q].status = "SENT" /\ req[q].got = NoReq =>
                         GivenUp(q)'
    <3> SUFFICES ASSUME req[r].got = NoReq
                 PROVE  GivenUp(r)'
      BY <1>7 DEF Holds
    <3>1. req[r].calls = <<"TIMEOUT">>
      BY <1>2
    <3> QED
      BY <1>9, <1>11, <3>1 DEF GivenUp
  <2>2. ep[e].wire \in Seq(Req) /\ ep'[e].wire = ep[e].wire
    BY <1>0, <1>8, <1>11 DEF EpRec
  <2> QED
    BY <1>2, <1>3, <1>4, <1>14, <2>1, <2>2, WireKept
<1>20. ReqOK(r)'
  <2>1. \E x \in Results : req'[r].calls = <<x>>
    BY <1>5, <1>9, <1>11
  <2>2. req'[r].calls # <<>>
    <3>1. PICK x \in Results : req'[r].calls = <<x>>
      BY <2>1
    <3>2. <<x>> # <<>>
      OBVIOUS
    <3> QED
      BY <3>1, <3>2
  <2> QED
    BY <1>9, <1>11, <2>1, <2>2 DEF ReqOK
<1>21. Somewhere(r)' /\ ~Holds(e, r)'
  <2>1. <<>> # <<r>>
    OBVIOUS
  <2> QED
    BY <1>8, <1>9, <1>11, <2>1 DEF Somewhere, Kept, Holds
<1>22. WrongOK(r)'
  <2>1. req[r].got \in Req \cup {NoReq} /\ req'[r].got = req[r].got
    BY <1>0, <1>9, <1>11 DEF ReqRec
  <2> QED
    BY <1>3, <1>14, <2>1 DEF WrongOK, Mistaken, GivenUp
<1> QED
  BY <1>13, <1>15, <1>16, <1>17, <1>18, <1>19, <1>20, <1>21, <1>22, PairStep

LEMMA ReturnOkStep == ASSUME PoolInv, ReturnOk PROVE PoolInv'
<1>0. ep \in [Ep -> EpRec] /\ Up /\ ctx.at = "ok" /\ ctx.ep \in Ep
  BY DEF PoolInv, Types, ReturnOk, CtxOK
<1> DEFINE c == ShutdownTimed(ep[ctx.ep])
<1>1. /\ c \in EpRec /\ c.status = ep[ctx.ep].status /\ c.txns = ep[ctx.ep].txns
      /\ c.ntxn = ep[ctx.ep].ntxn /\ c.conn = ep[ctx.ep].conn
      /\ c.wire = ep[ctx.ep].wire /\ c.shut = "armed"
  <2>1. PICK b \in EpRec : b = ep[ctx.ep]
    BY <1>0
  <2>2. c = [b EXCEPT !.shut = "armed"]
    BY <2>1 DEF ShutdownTimed
  <2> HIDE DEF c
  <2>3. /\ c \in EpRec /\ c.status = b.status /\ c.txns = b.txns /\ c.ntxn = b.ntxn
        /\ c.conn = b.conn /\ c.wire = b.wire /\ c.shut = "armed"
    BY <2>2 DEF EpRec, TimerStates
  <2> QED
    BY <2>1, <2>3
<1>2. /\ req' = [req EXCEPT ![ctx.req] = NodeDestroyed(@, 1)]
      /\ ep' = [ep EXCEPT ![ctx.ep] = Unlinked(c, ctx.req)]
      /\ ctx' = Idle /\ nep' = nep /\ fault' = fault
  BY DEF ReturnOk
<1> HIDE DEF c
<1> QED
  BY <1>0, <1>1, <1>2, ReturnStep

LEMMA ReturnTimeoutStep == ASSUME PoolInv, ReturnTimeout PROVE PoolInv'
<1> DEFINE c == ep[ctx.ep]
<1>0. ep \in [Ep -> EpRec] /\ Up /\ ctx.at = "timeout" /\ ctx.ep \in Ep /\ ctx.req \in Req
  BY DEF PoolInv, Types, ReturnTimeout, CtxOK
<1>1. Holds(ctx.ep, ctx.req) /\ req[ctx.req].status = "SENT" /\ ctx.req \in HasTimeout
  BY <1>0 DEF PoolInv, CtxOK
<1>2. c.shut # "none"
  <2>1. ~Dying(ctx.ep)
    BY <1>0 DEF Dying
  <2> QED
    BY <1>0, <1>1, <2>1, HolderFacts
<1>3. /\ c \in EpRec /\ c.status = ep[ctx.ep].status /\ c.txns = ep[ctx.ep].txns
      /\ c.ntxn = ep[ctx.ep].ntxn /\ c.conn = ep[ctx.ep].conn
      /\ c.wire = ep[ctx.ep].wire
  BY <1>0
<1>4. /\ req' = [req EXCEPT ![ctx.req] = NodeDestroyed(@, 1)]
      /\ ep' = [ep EXCEPT ![ctx.ep] = Unlinked(c, ctx.req)]
      /\ ctx' = Idle /\ nep' = nep /\ fault' = fault
  BY DEF ReturnTimeout
<1> HIDE DEF c
<1> QED
  BY <1>0, <1>2, <1>3, <1>4, ReturnStep

(* The error callback of r has returned; it may have sent a request s over *)
(* the same connection, which the loop of _handle_error takes next.        *)
LEMMA ReturnErrorStep == ASSUME PoolInv, ReturnError PROVE PoolInv'
<1>0. /\ ep \in [Ep -> EpRec] /\ req \in [Req -> ReqRec] /\ ctx \in CtxRec /\ CtxOK
      /\ Up /\ ctx.at = "error"
  BY DEF PoolInv, Types, ReturnError
<1>1. PICK e \in Ep, r \in Req : /\ e = ctx.ep /\ r = ctx.req
                                 /\ Live(e) /\ req[r].status \in {"PENDING", "SENT"}
  BY <1>0 DEF CtxOK
<1>2. EpOK(e) /\ ReqOK(r)
  BY DEF PoolInv
<1>3. Called(r) /\ Failing(r) /\ Dying(e) /\ \A y \in Req \ {r} : ~Called(y) /\ ~Failing(y)
  BY <1>0, <1>1 DEF Called, Failing, Dying
<1>4. req[r].ret = "OK" /\ req[r].released = 0 /\ \E x \in Results : req[r].calls = <<x>>
  BY <1>1, <1>2, <1>3 DEF ReqOK
<1>5. \A x \in Ep : ~Holds(x, r)
  BY <1>3 DEF PoolInv, HoldOK
<1>6. /\ ep[e].txns = <<>> \/ \E s \in Req : ep[e].txns = <<s>>
      /\ ep[e].txns # <<r>>
      /\ ep[e].ntxn = (IF ep[e].txns = <<>> THEN 0 ELSE 1) + 1
  BY <1>0, <1>1, <1>2, <1>5 DEF EpOK, Holds
<1> DEFINE g == Unlinked(ep[e], r)
           d == NodeDestroyed(req[r], 1)
<1>7. /\ g \in EpRec /\ g.ntxn = ep[e].ntxn - 1 /\ g.txns = ep[e].txns
      /\ g.status = ep[e].status /\ g.conn = ep[e].conn /\ g.shut = ep[e].shut
      /\ g.broken = ep[e].broken /\ g.wire = ep[e].wire
  <2>1. ep[e] \in EpRec /\ ep[e].ntxn > 0
    BY <1>0, <1>6
  <2> HIDE DEF g
  <2>2. g = Unlinked(ep[e], r)
    BY DEF g
  <2> QED
    BY <1>6, <2>1, <2>2, UnlinkedFacts
<1>8. /\ d \in ReqRec /\ d.status = "gone" /\ d.recv = "none" /\ d.released = 1
      /\ d.calls = req[r].calls /\ d.ret = "OK" /\ d.got = req[r].got
  <2>1. req[r] \in ReqRec /\ 1 \in {0, 1}
    BY <1>0
  <2> HIDE DEF d
  <2>2. d = NodeDestroyed(req[r], 1)
    BY DEF d
  <2> QED
    BY <1>4, <2>1, <2>2, NodeDestroyedFacts
<1>9. /\ ep' = [ep EXCEPT ![e] = g] /\ req' = [req EXCEPT ![r] = d]
      /\ nep' = nep /\ fault' = fault
  BY <1>1 DEF ReturnError
<1>10. ctx'.at = "loop" /\ ctx'.ep = e /\ ctx'.req = NoReq /\ ctx' \in CtxRec
  BY <1>0, <1>1 DEF ReturnError, CtxRec
<1> HIDE DEF g, d
<1>11. /\ ep'[e] = g /\ req'[r] = d
       /\ \A x \in Ep \ {e} : ep'[x] = ep[x]
       /\ \A y \in Req \ {r} : req'[y] = req[y]
  BY <1>0, <1>9
<1>12. Types'
  BY <1>0, <1>7, <1>8, <1>9, <1>10 DEF Types
<1>13. \A x \in Ep : (Live(x)' <=> Live(x)) /\ ep'[x].txns = ep[x].txns
  BY <1>7, <1>11 DEF Live
<1>14. NepOK'
  BY <1>0, <1>9, <1>13, NepSame DEF PoolInv
<1>15. CtxOK'
  BY <1>1, <1>10, <1>13 DEF CtxOK
<1>16. Dying(e)' /\ \A y \in Req : ~Called(y)' /\ ~Failing(y)'
  BY <1>10 DEF Dying, Called, Failing
<1>17. \A q \in Req : req'[q].calls = req[q].calls /\ req'[q].got = req[q].got
  BY <1>8, <1>11
<1>18. \A q \in Req : (GivenUp(q) => GivenUp(q)') /\ (Mistaken(q) => Mistaken(q)')
  BY <1>17 DEF GivenUp, Mistaken
<1> DEFINE E == {e}
           R == {r} \cup {s \in Req : Holds(e, s)}
<1>19. TouchesOnly(E, R)
  <2>1. \A x \in Ep \ E, y \in R : ~Holds(x, y)
    BY <1>5, HolderFacts
  <2>2. \A x \in E, y \in Req \ R : ~Holds(x, y) /\ ~Holds(x, y)'
    BY <1>13 DEF Holds
  <2>3. \A y \in R : /\ req[y].calls = <<"TIMEOUT">> => req'[y].calls = <<"TIMEOUT">>
                     /\ Mistaken(y) => Mistaken(y)'
    BY <1>17, <1>18
  <2> QED
    BY <1>1, <1>10, <1>11, <2>1, <2>2, <2>3 DEF TouchesOnly
<1>20. EpOK(e)'
  <2>1. ep'[e].ntxn = (IF ep'[e].txns = <<>> THEN 0 ELSE 1)
    BY <1>6, <1>7, <1>11
  <2>2. ctx'.at # "error"
    BY <1>10
  <2>3. ep'[e].ntxn = (IF ep'[e].txns = <<>> THEN 0 ELSE 1)
                       + (IF ctx'.at = "error" /\ ctx'.ep = e THEN 1 ELSE 0)
    BY <2>1, <2>2
  <2>4. /\ ep'[e].txns = ep[e].txns /\ ep'[e].status = ep[e].status /\ ep'[e].conn = ep[e].conn
        /\ ep'[e].shut = ep[e].shut /\ ep'[e].wire = ep[e].wire
    BY <1>7, <1>11
  <2> QED
    BY <1>2, <1>13, <1>16, <2>3, <2>4 DEF EpOK, Holds
<1>21. WireOK(e)'
  BY <1>16 DEF WireOK
<1>22. ReqOK(r)'
  <2>1. PICK x \in Results : req'[r].calls = <<x>>
    BY <1>4, <1>8, <1>11
  <2>2. <<x>> # <<>>
    OBVIOUS
  <2>3. req'[r].calls # <<>> /\ \E z \in Results : req'[r].calls = <<z>>
    BY <2>1, <2>2
  <2> QED
    BY <1>8, <1>11, <2>3 DEF ReqOK
<1>23. \A y \in Req \ {r} : ReqOK(y)'
  BY <1>0, <1>3, <1>10, <1>11, <1>16 DEF PoolInv, ReqOK
<1>24. \A y \in R : Somewhere(y)'
  <2>1. ~Kept(r)'
    BY <1>8, <1>11 DEF Kept
  <2>2. \A y \in Req : Holds(e, y) => Holds(e, y)'
    BY <1>13 DEF Holds
  <2> QED
    BY <2>1, <2>2 DEF Somewhere
<1>25. \A y \in Req : WrongOK(y)'
  <2> TAKE y \in Req
  <2>1. WrongOK(y) /\ req[y].got \in Req \cup {NoReq} /\ req'[y].got = req[y].got
    BY <1>0, <1>17 DEF PoolInv, ReqRec
  <2> QED
    BY <1>18, <2>1 DEF WrongOK, Mistaken, GivenUp
<1>26. \A y \in Req : HoldOK(e, y)'
  <2> TAKE y \in Req
  <2> SUFFICES ASSUME Holds(e, y)'
               PROVE  HoldOK(e, y)'
    BY DEF HoldOK
  <2>1. Holds(e, y) /\ y # r /\ req'[y] = req[y]
    BY <1>5, <1>11, <1>13 DEF Holds
  <2>2. HoldOK(e, y)
    BY DEF PoolInv
  <2>3. \A x \in Ep : Holds(x, y)' => Holds(x, y)
    BY <1>13 DEF Holds
  <2> QED
    BY <1>7, <1>11, <1>13, <1>16, <2>1, <2>2, <2>3 DEF HoldOK, Kept
<1>27. /\ \A x \in E : EpOK(x)' /\ WireOK(x)'
       /\ \A y \in R : ReqOK(y)' /\ Somewhere(y)' /\ WrongOK(y)'
       /\ \A x \in E, y \in R : HoldOK(x, y)'
       /\ E \in SUBSET Ep /\ R \in SUBSET Req
  BY <1>20, <1>21, <1>22, <1>23, <1>24, <1>25, <1>26
<1> HIDE DEF E, R
<1>28. ctx.at # "stopped" /\ fault' = fault
  BY <1>0, <1>9
<1> QED
  BY <1>0, <1>12, <1>14, <1>15, <1>19, <1>27, <1>28, Frame

(* The loop of _handle_error takes the request r of its connection: one    *)
(* whose send was refused is gone, any other is called back.               *)
LEMMA LoopStep ==
  ASSUME PoolInv, Up, ctx.at = "loop", NEW e \in Ep, e = ctx.ep, NEW r \in Req, Holds(e, r),
         NEW g \in EpRec, NEW d \in ReqRec,
         ep' = [ep EXCEPT ![e] = g], req' = [req EXCEPT ![r] = d],
         nep' = nep, fault' = fault,
         g.txns = <<>>, g.status = ep[e].status, g.conn = ep[e].conn, g.shut = ep[e].shut,
         g.wire = ep[e].wire, d.got = req[r].got, d.ret = req[r].ret,
         \/ /\ ctx' = ctx /\ req[r].status = "INIT" /\ d.status = "gone" /\ d.recv = "none"
            /\ d.released = req[r].released /\ d.calls = req[r].calls /\ g.ntxn = 0
         \/ /\ ctx' = [at |-> "error", ep |-> e, req |-> r] /\ req[r].status # "INIT"
            /\ d.status = req[r].status /\ d.recv = req[r].recv
            /\ d.released = req[r].released /\ d.calls = <<"ERROR">> /\ g.ntxn = 1
  PROVE  PoolInv'
<1>0. /\ ep \in [Ep -> EpRec] /\ req \in [Req -> ReqRec] /\ ctx \in CtxRec /\ CtxOK
      /\ EpOK(e) /\ ReqOK(r)
  BY DEF PoolInv, Types
<1>1. ctx.req = NoReq /\ ~Called(r) /\ Live(e)
  BY <1>0 DEF CtxOK, Called
<1>2. /\ \A x \in Ep \ {e} : ~Holds(x, r)
      /\ Kept(r)
  BY HolderFacts
<1>3. req[r].calls = <<>> /\ req[r].got = NoReq /\ <<>> # <<"TIMEOUT">> /\ <<"ERROR">> # <<>>
  BY <1>0, <1>1, <1>2 DEF ReqOK, Kept
<1>4. /\ ep'[e] = g /\ req'[r] = d
      /\ \A x \in Ep \ {e} : ep'[x] = ep[x]
      /\ \A y \in Req \ {r} : req'[y] = req[y]
  BY <1>0
<1>5. /\ ctx' \in CtxRec /\ ctx'.at \in {"loop", "error"} /\ ctx'.ep = e
      /\ ctx'.req \in {r, NoReq}
      /\ ctx'.at = "error" => ctx'.req = r /\ req[r].status # "INIT"
      /\ ctx'.at = "loop" => ctx'.req = NoReq
  BY <1>0, <1>1 DEF CtxRec
<1>6. Types'
  BY <1>0, <1>5 DEF Types
<1>7. ep[e].txns = <<r>> /\ <<r>> # <<>>
  BY DEF Holds
<1>8. Pair(e, r)
  BY <1>1, <1>2, <1>3, <1>4, <1>5, <1>7 DEF Pair, Mistaken
<1>9. \A x \in Ep : Live(x)' <=> Live(x)
  BY <1>4 DEF Live
<1>10. NepOK'
  BY <1>9, NepSame DEF PoolInv
<1>11. CtxOK'
  <2>1. ctx'.at = "error" => req'[r].status \in {"PENDING", "SENT"}
    BY <1>2, <1>4, <1>5 DEF Kept
  <2> QED
    BY <1>1, <1>5, <1>9, <2>1 DEF CtxOK
<1>12. Dying(e)'
  BY <1>5 DEF Dying
<1>13. EpOK(e)'
  <2>1. ep'[e].ntxn = IF ctx'.at = "error" /\ ctx'.ep = e THEN 1 ELSE 0
    BY <1>4, <1>5
  <2>2. g.conn # "none" => g.status = "CONNECTING"
    BY <1>0 DEF EpOK
  <2>3. g.shut # "none" => g.status = "CONNECTED"
    BY <1>0 DEF EpOK
  <2>4. g.status \in {"none", "CONNECTING"} => g.wire = <<>>
    BY <1>0 DEF EpOK
  <2> QED
    BY <1>4, <1>12, <2>1, <2>2, <2>3, <2>4 DEF EpOK
<1>14. WireOK(e)'
  BY <1>12 DEF WireOK
<1>15. WrongOK(r)'
  BY <1>3, <1>4 DEF WrongOK, Mistaken
<1>16. ~Holds(e, r)'
  BY <1>4, <1>7 DEF Holds
<1>17. CASE /\ ctx' = ctx /\ req[r].status = "INIT" /\ d.status = "gone" /\ d.recv = "none"
            /\ d.released = req[r].released /\ d.calls = req[r].calls
  <2>1. req[r].ret = "ERROR" /\ req[r].released = 1
    BY <1>0, <1>17 DEF ReqOK
  <2>2. ReqOK(r)'
    BY <1>3, <1>4, <1>17, <2>1 DEF ReqOK
  <2>3. Somewhere(r)'
    BY <1>4, <1>17 DEF Somewhere, Kept
  <2> QED
    BY <1>6, <1>8, <1>10, <1>11, <1>13, <1>14, <1>15, <1>16, <2>2, <2>3, PairStep
<1>18. CASE /\ ctx' = [at |-> "error", ep |-> e, req |-> r] /\ req[r].status # "INIT"
            /\ d.status = req[r].status /\ d.recv = req[r].recv
            /\ d.released = req[r].released /\ d.calls = <<"ERROR">>
  <2>1. req[r].status \in {"PENDING", "SENT"}
    BY <1>2, <1>18 DEF Kept
  <2>2. req[r].ret = "OK" /\ req[r].released = 0
    BY <1>0, <2>1 DEF ReqOK
  <2>3. Failing(r)' /\ Called(r)'
    BY <1>18 DEF Failing, Called
  <2>4. \E x \in Results : req'[r].calls = <<x>>
    BY <1>4, <1>18 DEF Results
  <2>5. req'[r].recv # "none" => req'[r].status = "SENT" /\ r \in HasTimeout
    BY <1>0, <1>4, <1>18 DEF ReqOK
  <2>6. req'[r].status \in {"PENDING", "SENT"} /\ req'[r].ret = "OK" /\ req'[r].released = 0
        /\ req'[r].calls # <<>>
    BY <1>3, <1>4, <1>18, <2>1, <2>2
  <2>7. ReqOK(r)'
    BY <2>3, <2>4, <2>5, <2>6 DEF ReqOK
  <2>8. Somewhere(r)'
    BY <2>3 DEF Somewhere
  <2> QED
    BY <1>6, <1>8, <1>10, <1>11, <1>13, <1>14, <1>15, <1>16, <2>7, <2>8, PairStep
<1> QED
  BY <1>17, <1>18

LEMMA ErrorNextStep == ASSUME PoolInv, ErrorNext PROVE PoolInv'
<1>0. /\ ep \in [Ep -> EpRec] /\ req \in [Req -> ReqRec] /\ CtxOK
      /\ Up /\ ctx.at = "loop" /\ ep[ctx.ep].txns # <<>> /\ nep' = nep /\ fault' = fault
  BY DEF PoolInv, Types, ErrorNext
<1>1. PICK e \in Ep : e = ctx.ep
  BY <1>0 DEF CtxOK
<1>2. EpOK(e) /\ ep[e] \in EpRec
  BY <1>0 DEF PoolInv
<1>3. PICK r \in Req : Holds(e, r)
  BY <1>0, <1>1, <1>2 DEF EpOK
<1>4. ep[e].txns = <<r>> /\ Head(ep[e].txns) = r /\ Tail(ep[e].txns) = <<>> /\ <<r>> # <<>>
  <2>1. Head(<<r>>) = r /\ Tail(<<r>>) = <<>> /\ <<r>> # <<>>
    OBVIOUS
  <2> QED
    BY <1>3, <2>1 DEF Holds
<1>5. ep[e].ntxn = 1
  BY <1>0, <1>2, <1>4 DEF EpOK
<1>6. req[r] \in ReqRec
  BY <1>0
<1>7. CASE req[r].status = "INIT"
  <2> DEFINE g == Unlinked(ep[e], r)
             d == NodeDestroyed(req[r], 0)
  <2>1. ep' = [ep EXCEPT ![e] = g] /\ req' = [req EXCEPT ![r] = d] /\ ctx' = ctx
    BY <1>1, <1>4, <1>7 DEF ErrorNext
  <2>2. ep[e].ntxn > 0 /\ (ep[e].txns = <<>> \/ \E s \in Req : ep[e].txns = <<s>>)
    BY <1>4, <1>5
  <2>3. 0 \in {0, 1} /\ req[r].released \in Nat
    BY <1>6 DEF ReqRec
  <2>4. g = Unlinked(ep[e], r) /\ d = NodeDestroyed(req[r], 0)
    OBVIOUS
  <2> HIDE DEF g, d
  <2>5. /\ g \in EpRec /\ g.ntxn = ep[e].ntxn - 1 /\ (ep[e].txns = <<r>> => g.txns = <<>>)
        /\ g.status = ep[e].status /\ g.conn = ep[e].conn /\ g.shut = ep[e].shut
        /\ g.wire = ep[e].wire
    BY <1>2, <2>2, <2>4, UnlinkedFacts
  <2>6. /\ d \in ReqRec /\ d.status = "gone" /\ d.recv = "none"
        /\ d.released = req[r].released + 0
        /\ d.calls = req[r].calls /\ d.ret = req[r].ret /\ d.got = req[r].got
    BY <1>6, <2>3, <2>4, NodeDestroyedFacts
  <2>7. g.ntxn = 0 /\ g.txns = <<>> /\ d.released = req[r].released
    BY <1>4, <1>5, <2>3, <2>5, <2>6
  <2> QED
    BY <1>0, <1>1, <1>3, <1>7, <2>1, <2>5, <2>6, <2>7, LoopStep
<1>8. CASE req[r].status # "INIT"
  <2> DEFINE g == [ep[e] EXCEPT !.txns = <<>>]
             d == [req[r] EXCEPT !.calls = <<"ERROR">>]
  <2>1. req[r].calls = <<>>
    <3>1. ReqOK(r) /\ ~Called(r) /\ Kept(r)
      BY <1>0, <1>3, HolderFacts DEF PoolInv, Called
    <3> QED
      BY <3>1 DEF ReqOK, Kept
  <2>2. Append(<<>>, "ERROR") = <<"ERROR">> /\ <<"ERROR">> \in Seq(Results)
    BY DEF Results
  <2>3. ctx' = [at |-> "error", ep |-> e, req |-> r]
    BY <1>1, <1>4, <1>8 DEF ErrorNext, Callback
  <2>4. ep' = [ep EXCEPT ![e] = g]
    BY <1>0, <1>1, <1>4, <1>8 DEF ErrorNext, EpRec
  <2>5. req' = [req EXCEPT ![r] = d]
    <3>1. req' = [req EXCEPT ![r] = [req[r] EXCEPT !.calls = Append(req[r].calls, "ERROR")]]
      BY <1>0, <1>1, <1>4, <1>8 DEF ErrorNext, ReqRec
    <3>2. Append(req[r].calls, "ERROR") = <<"ERROR">>
      BY <2>1, <2>2
    <3> QED
      BY <3>1, <3>2
  <2>6. /\ g \in EpRec /\ g.ntxn = 1 /\ g.txns = <<>> /\ g.status = ep[e].status
        /\ g.conn = ep[e].conn /\ g.shut = ep[e].shut /\ g.wire = ep[e].wire
    <3>1. <<>> \in Seq(Req)
      OBVIOUS
    <3> QED
      BY <1>2, <1>5, <3>1 DEF EpRec
  <2>7. /\ d \in ReqRec /\ d.status = req[r].status /\ d.recv = req[r].recv
        /\ d.released = req[r].released
        /\ d.calls = <<"ERROR">> /\ d.ret = req[r].ret /\ d.got = req[r].got
    BY <1>6, <2>2 DEF ReqRec
  <2> HIDE DEF g, d
  <2> QED
    BY <1>0, <1>1, <1>3, <1>8, <2>3, <2>4, <2>5, <2>6, <2>7, LoopStep
<1> QED
  BY <1>7, <1>8

LEMMA ErrorEndStep == ASSUME PoolInv, ErrorEnd PROVE PoolInv'
<1>0. /\ ep \in [Ep -> EpRec] /\ CtxOK /\ Types /\ NepOK
      /\ Up /\ ctx.at = "loop" /\ ep[ctx.ep].txns = <<>> /\ nep' = nep - 1
      /\ ctx' = Idle /\ req' = req /\ fault' = fault
  BY DEF PoolInv, Types, ErrorEnd
<1>1. PICK e \in Ep : e = ctx.ep /\ Live(e) /\ ctx.req = NoReq
  BY <1>0 DEF CtxOK
<1>2. EpOK(e) /\ ep[e] \in EpRec
  BY <1>0 DEF PoolInv
<1> DEFINE g == [ep[e] EXCEPT !.status = "freed", !.conn = "none", !.shut = "none"]
<1>3. ep' = [ep EXCEPT ![e] = g]
  BY <1>1 DEF ErrorEnd, Destroyed
<1>4. /\ g \in EpRec /\ g.status = "freed" /\ g.txns = <<>> /\ g.ntxn = 0
      /\ g.conn = "none" /\ g.shut = "none"
  <2>1. ep[e].ntxn = 0
    BY <1>0, <1>1, <1>2 DEF EpOK
  <2> QED
    BY <1>0, <1>1, <1>2, <2>1 DEF EpRec, TimerStates
<1> HIDE DEF g
<1>5. ep'[e] = g /\ \A x \in Ep \ {e} : ep'[x] = ep[x]
  BY <1>0, <1>3
<1>6. ctx'.at = "idle" /\ ctx'.ep = 0 /\ ctx'.req = NoReq /\ ctx' \in CtxRec
  BY <1>0 DEF Idle, CtxRec
<1>7. Types'
  BY <1>0, <1>3, <1>4, <1>6 DEF Types
<1>8. CtxOK'
  BY <1>0, <1>6 DEF CtxOK
<1>9. ~Live(e)' /\ \A x \in Ep \ {e} : Live(x)' <=> Live(x)
  BY <1>4, <1>5 DEF Live
<1>10. NepOK'
  <2>1. ctx.at # "stopped"
    BY <1>0
  <2> QED
    BY <1>0, <1>1, <1>9, <2>1, NepLess
<1>11. EpOK(e)' /\ WireOK(e)'
  BY <1>4, <1>5, <1>6, <1>9 DEF EpOK, WireOK
<1>12. ctx.at # "stopped" /\ ep[e].txns = <<>> /\ ep'[e].txns = <<>>
  BY <1>0, <1>1, <1>4, <1>5
<1> QED
  BY <1>0, <1>1, <1>5, <1>6, <1>7, <1>8, <1>10, <1>11, <1>12, EmptyStep

------------------------------------------------------------------------------
(* sk_ep_pool_destroy takes every connection and what it carries.          *)
LEMMA PoolDestroyStep == ASSUME PoolInv, PoolDestroy PROVE PoolInv'
<1>0. /\ ep \in [Ep -> EpRec] /\ req \in [Req -> ReqRec] /\ NepOK /\ Up /\ ctx = Idle
      /\ ctx' = [Idle EXCEPT !.at = "stopped"] /\ nep' = nep /\ fault' = fault
  BY DEF PoolInv, Types, PoolDestroy, InLoop
<1>1. /\ ctx.at = "idle" /\ ctx.ep = 0 /\ ctx.req = NoReq
      /\ \A x \in Ep : ~Dying(x)
      /\ \A y \in Req : ~Called(y) /\ ~Failing(y)
  BY <1>0, IdleFacts
<1>2. ctx'.at = "stopped" /\ ctx'.ep = 0 /\ ctx'.req = NoReq /\ ctx' \in CtxRec
  BY <1>0 DEF Idle, CtxRec
<1> DEFINE left == {r \in Req : \E e \in Ep : \E i \in 1..Len(ep[e].txns) : ep[e].txns[i] = r}
<1>3. \A y \in Req : y \in left <=> \E e \in Ep : Holds(e, y)
  <2> TAKE y \in Req
  <2>1. ASSUME NEW e \in Ep, Holds(e, y)
        PROVE  y \in left
    <3>1. Len(<<y>>) = 1 /\ <<y>>[1] = y /\ 1 \in 1..1
      OBVIOUS
    <3>2. \E i \in 1..Len(ep[e].txns) : ep[e].txns[i] = y
      BY <2>1, <3>1 DEF Holds
    <3> QED
      BY <3>2
  <2>2. ASSUME NEW e \in Ep, NEW i \in 1..Len(ep[e].txns), ep[e].txns[i] = y
        PROVE  Holds(e, y)
    <3>1. EpOK(e) /\ ep[e].txns # <<>>
      BY <2>2 DEF PoolInv
    <3>2. PICK s \in Req : ep[e].txns = <<s>>
      BY <3>1 DEF EpOK, Holds
    <3>3. s = y
      BY <2>2, <3>2
    <3> QED
      BY <3>2, <3>3 DEF Holds
  <2> QED
    BY <2>1, <2>2
<1>4. req' = [r \in Req |-> IF r \in left THEN NodeDestroyed(req[r], 1) ELSE req[r]]
  BY DEF PoolDestroy
<1> HIDE DEF left
<1>5. \A y \in Req : y \notin left => req'[y] = req[y]
  BY <1>4
<1>6. \A y \in left : y \in Req =>
        /\ req'[y] \in ReqRec /\ req'[y].status = "gone" /\ req'[y].recv = "none"
        /\ req'[y].released = req[y].released + 1
        /\ req'[y].calls = req[y].calls /\ req'[y].ret = req[y].ret /\ req'[y].got = req[y].got
  <2> TAKE y \in left
  <2> HAVE y \in Req
  <2>1. PICK d : d = NodeDestroyed(req[y], 1)
    OBVIOUS
  <2>2. req'[y] = d /\ req[y] \in ReqRec /\ 1 \in {0, 1}
    BY <1>0, <1>4, <2>1
  <2>3. /\ d \in ReqRec /\ d.status = "gone" /\ d.recv = "none"
        /\ d.released = req[y].released + 1
        /\ d.calls = req[y].calls /\ d.ret = req[y].ret /\ d.got = req[y].got
    BY <2>1, <2>2, NodeDestroyedFacts
  <2> QED
    BY <2>2, <2>3
<1>7. req' \in [Req -> ReqRec]
  <2>1. \A y \in Req : req'[y] \in ReqRec
    BY <1>0, <1>5, <1>6
  <2> QED
    BY <1>4, <2>1
<1>8. ASSUME NEW x \in Ep
      PROVE  /\ ep'[x] \in EpRec /\ ep'[x].txns = <<>> /\ ep'[x].ntxn = 0
             /\ ep'[x].conn = "none" /\ ep'[x].shut = "none"
             /\ ep'[x].status \in {"none", "freed"}
             /\ ep'[x].status = "none" => ep'[x].wire = <<>>
  <2>1. EpOK(x) /\ ep[x] \in EpRec
    BY <1>0 DEF PoolInv
  <2>2. CASE ep[x].status = "none"
    <3>1. ep'[x] = ep[x]
      BY <2>2 DEF PoolDestroy
    <3>2. ~Live(x)
      BY <2>2 DEF Live
    <3> QED
      BY <1>1, <2>1, <2>2, <3>1, <3>2 DEF EpOK
  <2>3. CASE ep[x].status # "none"
    <3>1. ep'[x] = [Destroyed(ep[x]) EXCEPT !.txns = <<>>, !.ntxn = 0]
      BY <2>3 DEF PoolDestroy
    <3>2. PICK g : g = [ep[x] EXCEPT !.status = "freed", !.conn = "none", !.shut = "none",
                                     !.txns = <<>>, !.ntxn = 0]
      OBVIOUS
    <3>3. ep'[x] = g
      BY <2>1, <3>1, <3>2 DEF Destroyed, EpRec
    <3>4. <<>> \in Seq(Req) /\ 0 \in Nat
      OBVIOUS
    <3>5. /\ g \in EpRec /\ g.txns = <<>> /\ g.ntxn = 0 /\ g.status = "freed"
          /\ g.conn = "none" /\ g.shut = "none"
      BY <2>1, <3>2, <3>4 DEF EpRec, TimerStates
    <3> QED
      BY <3>3, <3>5
  <2> QED
    BY <2>2, <2>3
<1>9. ep' \in [Ep -> EpRec]
  <2>1. \A x \in Ep : ep'[x] \in EpRec
    BY <1>8
  <2>2. ep' = [x \in Ep |-> ep'[x]]
    BY DEF PoolDestroy
  <2> QED
    BY <2>1, <2>2
<1>10. Types'
  BY <1>2, <1>7, <1>9 DEF Types
<1>11. \A x \in Ep : ~Live(x)'
  BY <1>8 DEF Live
<1>12. CtxOK' /\ NepOK'
  BY <1>0, <1>2, <1>11 DEF CtxOK, NepOK
<1>13. \A x \in Ep : EpOK(x)' /\ WireOK(x)'
  BY <1>2, <1>8, <1>11 DEF EpOK, WireOK
<1>14. \A x \in Ep, y \in Req : ~Holds(x, y)'
  <2>1. \A y \in Req : <<>> # <<y>>
    OBVIOUS
  <2> QED
    BY <1>8, <2>1 DEF Holds
<1>15. \A x \in Ep, y \in Req : HoldOK(x, y)'
  BY <1>14 DEF HoldOK
<1>16. \A q \in Req : req'[q].calls = req[q].calls /\ req'[q].got = req[q].got
  BY <1>5, <1>6
<1>17. \A q \in Req : (GivenUp(q) => GivenUp(q)') /\ (Mistaken(q) => Mistaken(q)')
  BY <1>16 DEF GivenUp, Mistaken
<1>18. ASSUME NEW y \in Req
      PROVE  ReqOK(y)' /\ Somewhere(y)' /\ WrongOK(y)'
  <2>1. ReqOK(y) /\ Somewhere(y) /\ WrongOK(y) /\ req[y].got \in Req \cup {NoReq}
    BY <1>0 DEF PoolInv, ReqRec
  <2>2. WrongOK(y)'
    BY <1>16, <1>17, <2>1 DEF WrongOK, Mistaken, GivenUp
  <2>3. ~Called(y)' /\ ~Called(y)
    BY <1>1, <1>2 DEF Called
  <2>4. CASE y \in left
    <3>1. Kept(y)
      BY <1>3, <2>4, HolderFacts
    <3>2. req[y].calls = <<>>
      BY <2>1, <2>3, <3>1 DEF ReqOK, Kept
    <3>3. \/ req[y].ret = "ERROR" /\ req[y].released = 1
          \/ req[y].ret = "OK" /\ req[y].released = 0
      BY <2>1, <3>1 DEF ReqOK, Kept
    <3>4. ReqOK(y)'
      BY <1>2, <1>6, <2>1, <2>4, <3>2, <3>3 DEF ReqOK
    <3>5. Somewhere(y)'
      BY <1>6, <2>4 DEF Somewhere, Kept
    <3> QED
      BY <2>2, <3>4, <3>5
  <2>5. CASE y \notin left
    <3>1. req'[y] = req[y]
      BY <1>5, <2>5
    <3>2. ~Kept(y)
      BY <1>1, <1>3, <2>1, <2>5 DEF Somewhere
    <3>3. ReqOK(y)'
      BY <1>2, <2>1, <2>3, <3>1 DEF ReqOK
    <3>4. Somewhere(y)'
      BY <3>1, <3>2 DEF Somewhere, Kept
    <3> QED
      BY <2>2, <3>3, <3>4
  <2> QED
    BY <2>4, <2>5
<1>19. fault' = "none" /\ FaultCause'
  BY <1>0 DEF Up, FaultCause
<1> QED
  BY <1>10, <1>12, <1>13, <1>15, <1>18, <1>19 DEF PoolInv

------------------------------------------------------------------------------
LEMMA InitInv == ASSUME Init PROVE PoolInv
<1>1. /\ \A x \in Ep : /\ ep[x].status = "none" /\ ep[x].txns = <<>> /\ ep[x].ntxn = 0
                       /\ ep[x].conn = "none" /\ ep[x].shut = "none" /\ ep[x].broken = FALSE
                       /\ ep[x].wire = <<>>
      /\ \A y \in Req : /\ req[y].status = "unused" /\ req[y].recv = "none"
                        /\ req[y].ret = "none" /\ req[y].calls = <<>>
                        /\ req[y].released = 0 /\ req[y].got = NoReq
      /\ nep = 0 /\ ctx = Idle /\ fault = "none"
  BY DEF Init
<1>2. ctx.at = "idle" /\ ctx.ep = 0 /\ ctx.req = NoReq /\ ctx \in CtxRec
  BY <1>1 DEF Idle, CtxRec
<1>3. Types
  <2>1. <<>> \in Seq(Req) /\ <<>> \in Seq(Results)
    OBVIOUS
  <2> QED
    BY <1>2, <2>1 DEF Init, Types, EpRec, ReqRec, TimerStates
<1>4. CtxOK
  BY <1>1, <1>2 DEF CtxOK
<1>5. NepOK
  <2>1. {x \in Ep : Live(x)} = {}
    BY <1>1 DEF Live
  <2> QED
    <3>1. Cardinality({}) = 0
      BY FS_EmptySet
    <3>2. nep = Cardinality({x \in Ep : Live(x)})
      BY <1>1, <2>1, <3>1
    <3>3. nep \in Nat /\ nep <= Max
      BY <1>1, EpPoolAssumption
    <3> QED
      BY <3>2, <3>3 DEF NepOK
<1>6. \A x \in Ep : EpOK(x) /\ WireOK(x)
  BY <1>1, <1>2 DEF EpOK, WireOK, Live
<1>7. \A y \in Req : ReqOK(y) /\ Somewhere(y) /\ WrongOK(y)
  BY <1>1 DEF ReqOK, Somewhere, Kept, WrongOK, Mistaken
<1>8. \A x \in Ep, y \in Req : HoldOK(x, y)
  <2>1. \A y \in Req : <<>> # <<y>>
    OBVIOUS
  <2> QED
    BY <1>1, <2>1 DEF HoldOK, Holds
<1> QED
  BY <1>1, <1>3, <1>4, <1>5, <1>6, <1>7, <1>8 DEF PoolInv, FaultCause

LEMMA StutterStep == ASSUME PoolInv, UNCHANGED vars PROVE PoolInv'
<1>1. ep' = ep /\ req' = req /\ nep' = nep /\ ctx' = ctx /\ fault' = fault
  BY DEF vars
<1>2. Types' /\ CtxOK' /\ NepOK'
  BY <1>1 DEF PoolInv, Types, CtxOK, NepOK, Live, Holds
<1>3. ASSUME NEW x \in Ep
      PROVE  EpOK(x)' /\ WireOK(x)'
  <2>1. EpOK(x) /\ WireOK(x)
    BY DEF PoolInv
  <2>2. EpOK(x)'
    BY <1>1, <2>1 DEF EpOK, Live, Holds, Dying
  <2>3. WireOK(x)'
    BY <1>1, <2>1 DEF WireOK, Holds, Dying, GivenUp, Mistaken
  <2> QED
    BY <2>2, <2>3
<1>4. ASSUME NEW y \in Req
      PROVE  ReqOK(y)' /\ Somewhere(y)' /\ WrongOK(y)'
  <2>1. ReqOK(y) /\ Somewhere(y) /\ WrongOK(y)
    BY DEF PoolInv
  <2>2. ReqOK(y)'
    BY <1>1, <2>1 DEF ReqOK, Called
  <2>3. Somewhere(y)'
    BY <1>1, <2>1 DEF Somewhere, Holds, Failing, Kept
  <2>4. WrongOK(y)'
    BY <1>1, <2>1 DEF WrongOK, GivenUp, Mistaken
  <2> QED
    BY <2>2, <2>3, <2>4
<1>5. \A x \in Ep, y \in Req : HoldOK(x, y)'
  BY <1>1 DEF PoolInv, HoldOK, Live, Holds, Dying, Failing, Kept
<1>6. fault' \in {"none", "abort", "use_after_free"} /\ FaultCause'
  BY <1>1 DEF PoolInv, FaultCause, Live
<1> QED
  BY <1>2, <1>3, <1>4, <1>5, <1>6 DEF PoolInv

LEMMA NextInv == ASSUME PoolInv, [Next]_vars PROVE PoolInv'
<1>1. CASE UNCHANGED vars
  BY <1>1, StutterStep
<1>2. CASE Return
  BY <1>2, ReturnOkStep, ReturnTimeoutStep, ReturnErrorStep, ErrorNextStep, ErrorEndStep
     DEF Return
<1>3. CASE PoolDestroy
  BY <1>3, PoolDestroyStep
<1>4. ASSUME NEW r \in Req,
             \/ SendRefused(r) \/ SendAborts(r) \/ SendReuse(r)
             \/ SendConnectFails(r) \/ SendConnected(r) \/ SendConnecting(r)
             \/ RecvFires(r) \/ RecvTimeout(r)
      PROVE  PoolInv'
  BY <1>4, RefusedStep, SendAbortsStep, SendReuseStep, SendConnectedStep, SendConnectingStep,
     RecvFiresStep, RecvTimeoutStep
<1>5. ASSUME NEW e \in Ep,
             \/ OnConnect(e) \/ ConnError(e) \/ Read(e)
             \/ ConnFires(e) \/ ConnTimeout(e) \/ ShutFires(e) \/ ShutdownEp(e)
      PROVE  PoolInv'
  BY <1>5, OnConnectStep, ConnErrorStep, ReadStep, ConnFiresStep, ConnTimeoutStep,
     ShutFiresStep, ShutdownEpStep
<1> QED
  BY <1>1, <1>2, <1>3, <1>4, <1>5 DEF Next

(* What PoolInv says in the terms of the specification.                    *)
LEMMA PoolInvMeans ==
  ASSUME PoolInv
  PROVE  IInv /\ CalledBackOnce /\ WrongAnswerNeedsGiveUp /\ FaultCause
<1>0. Types /\ CtxOK /\ NepOK
  BY DEF PoolInv
<1>1. TypeOK
  BY <1>0 DEF PoolInv, Types, NepOK, TypeOK, EpRec, ReqRec, CtxRec
<1>2. ReleasedOnce
  <2> SUFFICES ASSUME NEW r \in Req
               PROVE  /\ req[r].released <= 1 \/ (ctx.at = "stopped" /\ req[r].ret = "ERROR")
                      /\ req[r].status = "gone" => req[r].released >= 1
                      /\ req[r].ret = "OK" /\ req[r].status # "gone" => req[r].released = 0
    BY DEF ReleasedOnce
  <2>1. ReqOK(r) /\ req[r] \in ReqRec
    BY <1>0 DEF PoolInv, Types
  <2> QED
    BY <2>1 DEF ReqOK, ReqRec
<1>3. ASSUME NEW e \in Ep
      PROVE  /\ Len(ep[e].txns) = IF ep[e].txns = <<>> THEN 0 ELSE 1
             /\ EpOK(e)
  <2>1. EpOK(e)
    BY DEF PoolInv
  <2>2. CASE ep[e].txns = <<>>
    BY <2>1, <2>2
  <2>3. CASE ep[e].txns # <<>>
    <3>1. PICK r \in Req : ep[e].txns = <<r>>
      BY <2>1, <2>3 DEF EpOK, Holds
    <3>2. Len(<<r>>) = 1
      OBVIOUS
    <3> QED
      BY <2>1, <2>3, <3>1, <3>2
  <2> QED
    BY <2>2, <2>3
<1>4. PingPong
  BY <1>3 DEF PingPong
<1>5. CountsMatch
  <2>1. \A e \in Ep : ep[e].ntxn = Len(ep[e].txns)
                                    + IF ctx.at = "error" /\ ctx.ep = e THEN 1 ELSE 0
    <3> TAKE e \in Ep
    <3>1. /\ ep[e].ntxn = (IF ep[e].txns = <<>> THEN 0 ELSE 1)
                            + (IF ctx.at = "error" /\ ctx.ep = e THEN 1 ELSE 0)
          /\ Len(ep[e].txns) = IF ep[e].txns = <<>> THEN 0 ELSE 1
      BY <1>3 DEF EpOK
    <3> QED
      BY <3>1
  <2> QED
    BY <1>0, <2>1 DEF NepOK, CountsMatch
<1>6. TimersPointToLive
  <2>1. \A e \in Ep : EpOK(e)
    BY DEF PoolInv
  <2>2. \A r \in Req : ReqOK(r)
    BY DEF PoolInv
  <2> QED
    BY <2>1, <2>2 DEF TimersPointToLive, EpOK, ReqOK
<1>7. IdleIsTimed
  <2> SUFFICES ASSUME NEW e \in Ep, ctx = Idle, ep[e].status = "CONNECTED", ep[e].txns = <<>>
               PROVE  ep[e].shut # "none"
    BY DEF IdleIsTimed
  <2>1. ~Dying(e) /\ Live(e)
    BY IdleFacts DEF Live
  <2> QED
    BY <1>3, <2>1 DEF EpOK
<1>8. CalledBackOnce
  <2> SUFFICES ASSUME NEW r \in Req
               PROVE  /\ Len(req[r].calls) <= 1
                      /\ req[r].calls # <<>> => req[r].ret = "OK"
                      /\ req[r].status = "gone" /\ req[r].ret = "OK" /\ ctx.at # "stopped"
                           => req[r].calls # <<>>
    BY DEF CalledBackOnce
  <2>1. ReqOK(r) /\ req[r] \in ReqRec
    BY <1>0 DEF PoolInv, Types
  <2>2. req[r].calls = <<>> \/ \E x \in Results : req[r].calls = <<x>>
    BY <2>1 DEF ReqOK, ReqRec
  <2>3. \A x \in Results : Len(<<x>>) = 1 /\ <<x>> # <<>>
    OBVIOUS
  <2>4. Len(req[r].calls) <= 1
    <3>1. CASE req[r].calls = <<>>
      BY <3>1
    <3>2. CASE \E x \in Results : req[r].calls = <<x>>
      <4>1. PICK x \in Results : req[r].calls = <<x>>
        BY <3>2
      <4>2. Len(<<x>>) = 1
        OBVIOUS
      <4> QED
        BY <4>1, <4>2
    <3> QED
      BY <2>2, <3>1, <3>2
  <2>5. req[r].calls # <<>> => req[r].ret = "OK"
    BY <2>1 DEF ReqOK, ReqRec
  <2>6. req[r].status = "gone" /\ req[r].ret = "OK" /\ ctx.at # "stopped" => req[r].calls # <<>>
    BY <2>1, <2>3 DEF ReqOK
  <2> QED
    BY <2>4, <2>5, <2>6
<1>9. WrongAnswerNeedsGiveUp
  BY DEF PoolInv, WrongOK, WrongAnswerNeedsGiveUp
<1>10. FaultCause
  BY DEF PoolInv
<1> QED
  BY <1>1, <1>2, <1>4, <1>5, <1>6, <1>7, <1>8, <1>9, <1>10 DEF IInv

------------------------------------------------------------------------------
(* sk_ep_pool.c: whatever is sent, answered, given up or fails, and        *)
(* whatever a callback sends again: the lists, counters and timers of the  *)
(* pool stay consistent and the data of a request is released once.        *)
THEOREM Invariance == Spec => []IInv
<1>1. Init => PoolInv
  BY InitInv
<1>2. PoolInv /\ [Next]_vars => PoolInv'
  BY NextInv
<1>3. PoolInv => IInv
  BY PoolInvMeans
<1> QED
  BY <1>1, <1>2, <1>3, PTL DEF Spec

(* A request that sk_ep_send accepts is called back once, by _handle_ok,   *)
(* _handle_timeout or _handle_error, and a refused one never.              *)
THEOREM CalledBack == Spec => []CalledBackOnce
<1>1. Init => PoolInv
  BY InitInv
<1>2. PoolInv /\ [Next]_vars => PoolInv'
  BY NextInv
<1>3. PoolInv => CalledBackOnce
  BY PoolInvMeans
<1> QED
  BY <1>1, <1>2, <1>3, PTL DEF Spec

(* _read_cb hands a request the answer of another one only behind a        *)
(* request that was given up, and then of one that was given up or is      *)
(* mistaken itself, for any number of requests over one connection.        *)
THEOREM Shifted == Spec => []WrongAnswerNeedsGiveUp
<1>1. Init => PoolInv
  BY InitInv
<1>2. PoolInv /\ [Next]_vars => PoolInv'
  BY NextInv
<1>3. PoolInv => WrongAnswerNeedsGiveUp
  BY PoolInvMeans
<1> QED
  BY <1>1, <1>2, <1>3, PTL DEF Spec

(* The assertion of _find_ep fails only in an error callback, and freed    *)
(* data is only used on a connection whose write has failed.               *)
THEOREM Causes == Spec => []FaultCause
<1>1. Init => PoolInv
  BY InitInv
<1>2. PoolInv /\ [Next]_vars => PoolInv'
  BY NextInv
<1>3. PoolInv => FaultCause
  BY PoolInvMeans
<1> QED
  BY <1>1, <1>2, <1>3, PTL DEF Spec
==============================================================================
