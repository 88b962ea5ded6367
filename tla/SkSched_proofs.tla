---------------------------- MODULE SkSched_proofs ----------------------------
(***************************************************************************)
(* Proofs about SkSched, for any number of events, engines and priorities, *)
(* any batch and bridge size.  The argument is built in layers, each       *)
(* inductive on top of the ones before it: the types and where round robin *)
(* stands (TypeOK, SlotInv); where the engines are (EngineInv) and that no *)
(* bridge is forgotten (NoLostWakeup); that every event is in one place    *)
(* (PlaceInv); that the place is on the event's route (Routing); that the  *)
(* events of a channel follow each other along that route (Order); and the *)
(* shares of the workers (SharesInv).                                      *)
(***************************************************************************)
EXTENDS SkSched, TLAPS, FiniteSetTheorems, SequenceTheorems

(* What each engine's part of the state implies of another: callbacks run  *)
(* and bridges are emptied between the poll and the delivery, events only  *)
(* in a round that has found some, and a round that has found none is      *)
(* still at the highest priority and has sent nothing.                     *)
EngineOK(n) ==
  /\ copying[n] # NoLink => pc[n] = "events" /\ copying[n][2] = n
  /\ \A l \in ready[n] : l[2] = n
  /\ handler[n] => pc[n] = "run" /\ active[n]
  /\ batch[n] # <<>> => pc[n] = "run" /\ active[n]
  /\ pc[n] = "run" /\ ~active[n] => level[n] = MaxPri /\ NoOutput(n)
  /\ pc[n] = "poll" => NoInput(n) /\ NoOutput(n) /\ batch[n] = <<>>

EngineInv == \A n \in Engine : EngineOK(n)

(* Queues C hold every event of S at one place, and no others.             *)
OnePlace(C, S) ==
  /\ C \in [Queues -> Seq(Event)]
  /\ \A q, r \in Queues : \A i \in 1..Len(C[q]), j \in 1..Len(C[r]) :
       C[q][i] = C[r][j] => q = r /\ i = j
  /\ \A e \in Event : e \in S <=> \E q \in Queues : \E i \in 1..Len(C[q]) : C[q][i] = e

(* An event that goes through the master.                                  *)
Far(f, d) == f # Master /\ d \notin {f, Master}

(* The queues on the way of event e from f to d, with the hops done there. *)
OnRoute(q, e, f, d, h) ==
  \/ q = <<"output", f, Pri[e]>> /\ d # f /\ h = 0
  \/ q = <<"bridge", f, Master>> /\ f # Master /\ d # f /\ h = 1
  \/ q = <<"output", Master, Pri[e]>> /\ Far(f, d) /\ h = 1
  \/ q = <<"bridge", Master, d>> /\ f = Master /\ d # f /\ h = 1
  \/ q = <<"bridge", Master, d>> /\ Far(f, d) /\ h = 2
  \/ q = <<"input", d, Pri[e]>> /\ h = Distance(f, d)
  \/ q = <<"batch", d, 0>> /\ h = Distance(f, d)

Routing ==
  /\ \A e \in Event : dst[e] = To[e] \/ (To[e] = NoDst /\ dst[e] \in Range(Workers))
  /\ \A e \in Event \ sent : dst[e] = To[e] /\ hop[e] = 0
  /\ \A e \in handled : dst[e] # NoDst /\ hop[e] = Distance(From[e], dst[e])
  /\ \A q \in Queues : \A i \in 1..Len(Content[q]) :
       LET e == Content[q][i] IN OnRoute(q, e, From[e], dst[e], hop[e])

(* How far along its route an event from f is in queue q.                  *)
Rank(q, f) ==
  CASE q[1] = "output" -> IF q[2] = f THEN 1 ELSE 3
    [] q[1] = "bridge" -> IF q[2] = f THEN 2 ELSE 4
    [] q[1] = "input"  -> 5
    [] q[1] = "batch"  -> 6

(* The earlier event of a channel is ahead of the later one.               *)
Order ==
  \A d, e \in Event : Earlier(d, e) /\ To[e] # NoDst =>
    /\ e \in sent => d \in sent
    /\ e \in handled => d \in handled
    /\ \A q, r \in Queues : \A i \in 1..Len(Content[q]), j \in 1..Len(Content[r]) :
         Content[q][i] = d /\ Content[r][j] = e =>
           Rank(q, From[e]) > Rank(r, From[e]) \/ (q = r /\ i < j)

(* Round robin stays among the workers, or one behind the last of them.    *)
SlotInv == rr \in 1..(Len(Workers) + 1) /\ rr <= Len(BridgeTbl)

(* The events without destination each worker was given: the ones before   *)
(* slot rr have had one more.                                              *)
Shared(w) == {e \in Event : To[e] = NoDst /\ dst[e] = w}
SharesInv ==
  \E k \in Nat : \A i \in 1..Len(Workers) :
    Cardinality(Shared(Workers[i])) = k + IF i < rr THEN 1 ELSE 0

------------------------------------------------------------------------------
(* The constants: bridge_tbl lists the workers and then the bios.          *)
LEMMA Topology ==
  /\ Len(Workers) \in Nat \ {0} /\ Len(BridgeTbl) \in Nat
  /\ Len(Workers) <= Len(BridgeTbl)
  /\ \A i \in 1..Len(Workers) :
       Workers[i] \in Range(Workers) /\ BridgeTbl[i] = Workers[i]
  /\ \A i \in 1..Len(BridgeTbl) : BridgeTbl[i] \in Range(BridgeTbl)
  /\ Range(Workers) \subseteq Range(BridgeTbl)
  /\ \A w \in Range(Workers) : \E i \in 1..Len(Workers) : w = Workers[i]
  /\ Master \in Engine /\ Master \notin Range(BridgeTbl)
  /\ NoDst \notin Engine
<1> DEFINE S == Range(Workers) \cup Range(Bios)
<1>1. Workers \in Seq(S) /\ Bios \in Seq(S) /\ Workers # <<>>
  BY SchedAssumption
<1>2. /\ BridgeTbl \in Seq(S)
      /\ Len(BridgeTbl) = Len(Workers) + Len(Bios)
      /\ \A i \in 1..Len(Workers) + Len(Bios) :
           BridgeTbl[i] = IF i <= Len(Workers) THEN Workers[i] ELSE Bios[i - Len(Workers)]
  BY <1>1, ConcatProperties DEF BridgeTbl
<1>3. Len(Workers) \in Nat \ {0} /\ Len(Bios) \in Nat
  BY <1>1, EmptySeq
<1>4. /\ DOMAIN Workers = 1..Len(Workers) /\ DOMAIN BridgeTbl = 1..Len(BridgeTbl)
  BY <1>1, <1>2
<1>5. \A i \in 1..Len(Workers) :
        i \in 1..Len(Workers) + Len(Bios) /\ BridgeTbl[i] = Workers[i]
  BY <1>2, <1>3
<1>6. /\ \A i \in 1..Len(Workers) : Workers[i] \in Range(Workers)
      /\ \A i \in 1..Len(BridgeTbl) : BridgeTbl[i] \in Range(BridgeTbl)
      /\ \A w \in Range(Workers) : \E i \in 1..Len(Workers) : w = Workers[i]
  BY <1>4 DEF Range
<1>7. Range(Workers) \subseteq Range(BridgeTbl)
  BY <1>2, <1>5, <1>6
<1> QED
  BY <1>2, <1>3, <1>5, <1>6, <1>7, SchedAssumption DEF Engine

(* Every bridge has the master at one of its ends.                         *)
LEMMA LinkShape ==
  /\ \A l \in Links : /\ l = <<l[1], l[2]>> /\ l[1] \in Engine /\ l[2] \in Engine
                      /\ l[1] # l[2] /\ l # NoLink
                      /\ \/ l[1] = Master /\ l[2] \in Range(BridgeTbl)
                         \/ l[2] = Master /\ l[1] \in Range(BridgeTbl)
  /\ \A n \in Range(BridgeTbl) : <<Master, n>> \in Links /\ <<n, Master>> \in Links
  BY Topology DEF Links, Engine, NoLink

(* Remainders of numbers up to the divisor.                                *)
LEMMA SmallMod ==
  ASSUME NEW b \in Nat \ {0}, NEW a \in Nat
  PROVE  /\ a < b => a % b = a
         /\ b % b = 0
  OBVIOUS

(* _find_bridge_roundrobin takes slot rr, or the first one if rr has just  *)
(* passed the last worker.                                                 *)
LEMMA RoundRobinIs ==
  ASSUME SlotInv
  PROVE  /\ RoundRobin = IF rr <= Len(Workers) THEN rr ELSE 1
         /\ NextSlot(RoundRobin) = IF RoundRobin < Len(BridgeTbl) THEN RoundRobin + 1 ELSE 1
<1> DEFINE L == Len(BridgeTbl)
           W == Len(Workers)
           R(s) == /\ Routable(s)
                   /\ \E k \in 0..(L - 1) :
                        s = Slot(rr, k) /\ \A i \in 0..(k - 1) : ~Routable(Slot(rr, i))
<1>1. /\ L \in Nat \ {0} /\ W \in Nat \ {0} /\ W <= L
      /\ rr \in Nat /\ 1 <= rr /\ rr <= W + 1 /\ rr <= L
  BY Topology DEF SlotInv
<1>2. \A s \in Int : Routable(s) <=> s \in 1..W
  BY <1>1 DEF Routable
<1>3. RoundRobin = CHOOSE s \in 1..L : R(s)
  BY DEF RoundRobin
<1> HIDE DEF L, W
<1>4. ASSUME rr <= W PROVE RoundRobin = rr
  <2>1. Slot(rr, 0) = rr
    BY <1>1, SmallMod DEF Slot, L
  <2>2. R(rr)
    BY <1>1, <1>2, <1>4, <2>1
  <2>3. ASSUME NEW s \in 1..L, R(s) PROVE s = rr
    <3>1. PICK k \in 0..(L - 1) :
            s = Slot(rr, k) /\ \A i \in 0..(k - 1) : ~Routable(Slot(rr, i))
      BY <2>3
    <3>2. k = 0
      BY <1>1, <1>2, <1>4, <2>1, <3>1
    <3> QED
      BY <2>1, <3>1, <3>2
  <2>4. rr \in 1..L
    BY <1>1
  <2> HIDE DEF R
  <2>5. (CHOOSE s \in 1..L : R(s)) = rr
    BY <2>2, <2>3, <2>4
  <2> QED
    BY <1>3, <2>5
<1>5. ASSUME rr > W PROVE RoundRobin = 1
  <2>0. rr = W + 1 /\ W < L
    BY <1>1, <1>5
  <2>1. \A i \in 0..(L - W - 1) : Slot(rr, i) = W + i + 1 /\ ~Routable(Slot(rr, i))
    <3> TAKE i \in 0..(L - W - 1)
    <3>1. rr - 1 + i = W + i /\ W + i \in Nat /\ W + i < L
      BY <1>1, <2>0
    <3>2. (W + i) % L = W + i
      BY <1>1, <3>1, SmallMod
    <3>3. Slot(rr, i) = W + i + 1
      BY <3>1, <3>2 DEF Slot, L
    <3> QED
      BY <1>1, <1>2, <3>3
  <2>2. Slot(rr, L - W) = 1
    <3>1. rr - 1 + (L - W) = L
      BY <1>1, <2>0
    <3> QED
      BY <1>1, <3>1, SmallMod DEF Slot, L
  <2>3. R(1)
    <3>1. L - W \in 0..(L - 1) /\ Routable(1)
      BY <1>1, <1>2, <2>0
    <3>2. \A i \in 0..(L - W - 1) : ~Routable(Slot(rr, i))
      BY <2>1
    <3> QED
      BY <2>2, <3>1, <3>2
  <2>4. ASSUME NEW s \in 1..L, R(s) PROVE s = 1
    <3>1. PICK k \in 0..(L - 1) :
            s = Slot(rr, k) /\ \A i \in 0..(k - 1) : ~Routable(Slot(rr, i))
      BY <2>4
    <3>2. k >= L - W
      BY <1>1, <2>1, <2>4, <3>1
    <3>3. k <= L - W
      <4>1. Routable(Slot(rr, L - W))
        BY <1>1, <1>2, <2>2
      <4> QED
        BY <1>1, <3>1, <4>1
    <3> QED
      BY <1>1, <2>2, <3>1, <3>2, <3>3
  <2>5. 1 \in 1..L
    BY <1>1
  <2> HIDE DEF R
  <2>6. (CHOOSE s \in 1..L : R(s)) = 1
    BY <2>3, <2>4, <2>5
  <2> QED
    BY <1>3, <2>6
<1>6. RoundRobin = IF rr <= W THEN rr ELSE 1
  BY <1>1, <1>4, <1>5
<1>7. NextSlot(RoundRobin) = IF RoundRobin < L THEN RoundRobin + 1 ELSE 1
  <2>1. RoundRobin \in Nat /\ RoundRobin <= L
    BY <1>1, <1>6
  <2>2. CASE RoundRobin < L
    BY <1>1, <2>1, <2>2, SmallMod DEF NextSlot, L
  <2>3. CASE RoundRobin = L
    BY <1>1, <2>3, SmallMod DEF NextSlot, L
  <2> QED
    BY <1>1, <2>1, <2>2, <2>3
<1> QED
  BY <1>6, <1>7 DEF L, W

------------------------------------------------------------------------------
(* The bridge an event is pushed to starts at the engine that pushes it.   *)
LEMMA RouteIs ==
  ASSUME TypeOK, SlotInv, NEW n \in Engine, NEW e \in Event
  PROVE  /\ Route(n, e) \in Links /\ Route(n, e)[1] = n
         /\ n # Master => Route(n, e)[2] = Master
         /\ n = Master /\ dst[e] \in Range(BridgeTbl) => Route(n, e)[2] = dst[e]
         /\ n = Master /\ dst[e] \notin Range(BridgeTbl) =>
              /\ RoundRobin \in 1..Len(Workers)
              /\ Route(n, e)[2] = Workers[RoundRobin]
<1>1. RoundRobin \in 1..Len(Workers)
  BY RoundRobinIs, Topology DEF SlotInv
<1>2. BridgeTbl[RoundRobin] = Workers[RoundRobin] /\ BridgeTbl[RoundRobin] \in Range(BridgeTbl)
  BY <1>1, Topology
<1>3. n = Master \/ n \in Range(BridgeTbl)
  BY DEF Engine
<1> QED
  BY <1>1, <1>2, <1>3, LinkShape DEF Route

(* One event is pushed to its bridge.                                      *)
Pushed(n, p, e, l) ==
  /\ pc[n] = "deliver" /\ output[n][p] # <<>> /\ e = Head(output[n][p]) /\ l = Route(n, e)
  /\ hop[e] # MaxHop
  /\ output' = [output EXCEPT ![n][p] = Tail(@)]
  /\ mq' = [mq EXCEPT ![l] = Append(@, e)]
  /\ delivery' = [delivery EXCEPT ![l] = @ + 1]
  /\ hop' = [hop EXCEPT ![e] = @ + 1]
  /\ dst' = [dst EXCEPT ![e] = IF @ = NoDst THEN l[2] ELSE @]
  /\ rr' = IF UsesRoundRobin(n, e) THEN NextSlot(RoundRobin) ELSE rr
  /\ UNCHANGED <<input, batch, evfd, ready, copying, engines, history, fault>>

LEMMA DeliverFacts ==
  ASSUME TypeOK, SlotInv, NEW n \in Engine, DeliverOne(n)
  PROVE  \/ Crash
         \/ \E p \in Level, e \in Event, l \in Links : Pushed(n, p, e, l)
<1>1. PICK p \in Level : 
       /\ output[n][p] # <<>>
       /\ LET e == Head(output[n][p])
              l == Route(n, e)
          IN  IF hop[e] = MaxHop \/ Len(mq[l]) = BridgeSize
                THEN Crash
                ELSE /\ output' = [output EXCEPT ![n][p] = Tail(@)]
                     /\ mq' = [mq EXCEPT ![l] = Append(@, e)]
                     /\ delivery' = [delivery EXCEPT ![l] = @ + 1]
                     /\ hop' = [hop EXCEPT ![e] = @ + 1]
                     /\ dst' = [dst EXCEPT ![e] = IF @ = NoDst THEN l[2] ELSE @]
                     /\ rr' = IF UsesRoundRobin(n, e) THEN NextSlot(RoundRobin) ELSE rr
                     /\ UNCHANGED <<input, batch, evfd, ready, copying, engines,
                                    history, fault>>
  BY DEF DeliverOne
<1> DEFINE e == Head(output[n][p])
           l == Route(n, e)
<1>2. output[n][p] \in Seq(Event)
  BY DEF TypeOK
<1>3. e \in Event
  BY <1>1, <1>2, HeadTailProperties
<1>4. l \in Links
  BY <1>3, RouteIs
<1>5. pc[n] = "deliver"
  BY DEF DeliverOne
<1> HIDE DEF e, l
<1>6. CASE hop[e] = MaxHop \/ Len(mq[l]) = BridgeSize
  BY <1>1, <1>6 DEF e, l
<1>7. CASE ~(hop[e] = MaxHop \/ Len(mq[l]) = BridgeSize)
  <2>1. Pushed(n, p, e, l)
    BY <1>1, <1>5, <1>7 DEF Pushed, e, l
  <2> QED
    BY <1>3, <1>4, <2>1
<1> QED
  BY <1>6, <1>7

(* The first k events of an input queue become the batch.                  *)
Pulled(n, p, k) ==
  /\ batch[n] = <<>> /\ pc[n] = "run" /\ k \in 1..Len(input[n][p])
  /\ batch' = [batch EXCEPT ![n] = SubSeq(input[n][p], 1, k)]
  /\ input' = [input EXCEPT ![n][p] = SubSeq(@, k + 1, Len(@))]
  /\ level' = [level EXCEPT ![n] = p - 1]
  /\ active' = [active EXCEPT ![n] = TRUE]
  /\ handler' = [handler EXCEPT ![n] = FALSE]
  /\ UNCHANGED <<pc, output, bridges, rr, dst, hop, history, fault>>

LEMMA PullFacts ==
  ASSUME TypeOK, NEW n \in Engine, Pull(n)
  PROVE  \E p \in Level, k \in Nat : Pulled(n, p, k)
<1>1. PICK p \in Level :
       /\ NextLevel(n, p)
       /\ LET k == IF Len(input[n][p]) < PullNum THEN Len(input[n][p]) ELSE PullNum
          IN  /\ batch' = [batch EXCEPT ![n] = SubSeq(input[n][p], 1, k)]
              /\ input' = [input EXCEPT ![n][p] = SubSeq(@, k + 1, Len(@))]
       /\ level' = [level EXCEPT ![n] = p - 1]
  BY DEF Pull
<1> DEFINE k == IF Len(input[n][p]) < PullNum THEN Len(input[n][p]) ELSE PullNum
<1>2. input[n][p] \in Seq(Event) /\ input[n][p] # <<>>
  BY <1>1 DEF TypeOK, NextLevel
<1>3. Len(input[n][p]) \in Nat \ {0} /\ PullNum \in Nat \ {0}
  BY <1>2, EmptySeq, SchedAssumption
<1>4. k \in 1..Len(input[n][p]) /\ k \in Nat
  BY <1>3
<1>5. Pulled(n, p, k)
  BY <1>1, <1>4 DEF Pulled, Pull
<1> QED
  BY <1>4, <1>5

(* An event goes to the input or to the output queue of engine n.          *)
Queued(n, e, isInput) ==
  IF isInput
    THEN input' = [input EXCEPT ![n][Pri[e]] = Append(@, e)] /\ UNCHANGED output
    ELSE output' = [output EXCEPT ![n][Pri[e]] = Append(@, e)] /\ UNCHANGED input

(* One queue of a table of queues is replaced.                             *)
LEMMA TableUpdate ==
  ASSUME NEW f \in [Engine -> [Level -> Seq(Event)]],
         NEW n \in Engine, NEW p \in Level, NEW s \in Seq(Event),
         NEW g, g = [f EXCEPT ![n][p] = s]
  PROVE  /\ g \in [Engine -> [Level -> Seq(Event)]]
         /\ \A x \in Engine, y \in Level :
              g[x][y] = IF x = n /\ y = p THEN s ELSE f[x][y]
<1> DEFINE h == [f[n] EXCEPT ![p] = s]
<1>1. h \in [Level -> Seq(Event)] /\ \A y \in Level : h[y] = IF y = p THEN s ELSE f[n][y]
  OBVIOUS
<1>2. g = [f EXCEPT ![n] = h]
  OBVIOUS
<1> HIDE DEF h
<1> QED
  BY <1>1, <1>2

(* Queues stay sequences of events when one is appended.                   *)
LEMMA QueuedTypes ==
  ASSUME NEW n \in Engine, NEW e \in Event, NEW b, Queued(n, e, b),
         input \in [Engine -> [Level -> Seq(Event)]],
         output \in [Engine -> [Level -> Seq(Event)]]
  PROVE  /\ input' \in [Engine -> [Level -> Seq(Event)]]
         /\ output' \in [Engine -> [Level -> Seq(Event)]]
<1>1. Pri[e] \in Level
  BY SchedAssumption
<1>2. /\ Append(input[n][Pri[e]], e) \in Seq(Event)
      /\ Append(output[n][Pri[e]], e) \in Seq(Event)
  BY <1>1
<1>3. CASE b
  <2>1. input' = [input EXCEPT ![n][Pri[e]] = Append(input[n][Pri[e]], e)] /\ output' = output
    BY <1>3 DEF Queued
  <2> QED
    BY <1>1, <1>2, <2>1, TableUpdate
<1>4. CASE ~b
  <2>1. output' = [output EXCEPT ![n][Pri[e]] = Append(output[n][Pri[e]], e)] /\ input' = input
    BY <1>4 DEF Queued
  <2> QED
    BY <1>1, <1>2, <2>1, TableUpdate
<1> QED
  BY <1>3, <1>4

------------------------------------------------------------------------------
(* The first layer: types, and round robin among the workers.              *)

(* A step that changes nothing, or only ends the process.                  *)
Calm ==
  /\ UNCHANGED <<queues, bridges, engines, rr, dst, hop, history>>
  /\ fault' \in {fault, "abort"}

LEMMA SendTypes ==
  ASSUME TypeOK, NEW e \in Event, Send(e)
  PROVE  TypeOK'
<1>1. From[e] \in Engine
  BY SchedAssumption
<1>2. Queued(From[e], e, To[e] = From[e])
  BY DEF Send, Queued
<1>3. /\ input' \in [Engine -> [Level -> Seq(Event)]]
      /\ output' \in [Engine -> [Level -> Seq(Event)]]
  BY <1>1, <1>2, QueuedTypes DEF TypeOK
<1>4. sent' \subseteq Event
  BY DEF Send, TypeOK
<1>5. UNCHANGED <<batch, mq, evfd, delivery, ready, copying, pc, level, active, handler,
                  rr, dst, hop, handled, fault>>
  BY DEF Send, bridges, engines
<1> QED
  BY <1>3, <1>4, <1>5 DEF TypeOK

LEMMA DeliverTypes ==
  ASSUME TypeOK, SlotInv, NEW n \in Engine, NEW p \in Level, NEW e \in Event,
         NEW l \in Links, Pushed(n, p, e, l)
  PROVE  TypeOK' /\ SlotInv'
<1>1. UNCHANGED <<input, batch, evfd, ready, copying, pc, level, active, handler,
                  sent, handled, fault>>
  BY DEF Pushed, engines, history
<1>2. output' \in [Engine -> [Level -> Seq(Event)]]
  <2>1. output[n][p] \in Seq(Event) /\ output[n][p] # <<>>
    BY DEF TypeOK, Pushed
  <2>2. Tail(output[n][p]) \in Seq(Event)
    BY <2>1, HeadTailProperties
  <2>3. output' = [output EXCEPT ![n][p] = Tail(output[n][p])]
    BY DEF Pushed
  <2> QED
    BY <2>2, <2>3, TableUpdate DEF TypeOK
<1>3. mq' \in [Links -> Seq(Event)] /\ delivery' \in [Links -> Nat]
  <2>1. mq[l] \in Seq(Event) /\ delivery[l] \in Nat
    BY DEF TypeOK
  <2>2. Append(mq[l], e) \in Seq(Event) /\ delivery[l] + 1 \in Nat
    BY <2>1
  <2> QED
    BY <2>2 DEF TypeOK, Pushed
<1>4. hop' \in [Event -> 0..MaxHop]
  <2>1. MaxHop \in Nat /\ hop[e] \in 0..MaxHop /\ hop[e] # MaxHop
    BY SchedAssumption DEF TypeOK, Pushed
  <2>2. hop[e] + 1 \in 0..MaxHop
    BY <2>1
  <2> QED
    BY <2>2 DEF TypeOK, Pushed
<1>5. dst' \in [Event -> Engine \cup {NoDst}]
  <2>1. l[2] \in Engine
    BY LinkShape
  <2> QED
    BY <2>1 DEF TypeOK, Pushed
<1>6. SlotInv' /\ rr' \in 1..Len(BridgeTbl)
  <2>1. CASE rr' = rr
    BY <2>1 DEF SlotInv, TypeOK
  <2>2. CASE rr' = NextSlot(RoundRobin)
    BY <2>2, RoundRobinIs, Topology DEF SlotInv
  <2> QED
    BY <2>1, <2>2 DEF Pushed
<1> QED
  BY <1>1, <1>2, <1>3, <1>4, <1>5, <1>6 DEF TypeOK

LEMMA TypeStep ==
  ASSUME TypeOK, SlotInv, [Next]_vars
  PROVE  TypeOK' /\ SlotInv'
<1>1. ASSUME NEW e \in Event, Send(e) PROVE TypeOK' /\ SlotInv'
  <2>1. rr' = rr
    BY <1>1 DEF Send
  <2> QED
    BY <1>1, <2>1, SendTypes DEF SlotInv
<1>2. CASE Calm
  BY <1>2 DEF Calm, queues, bridges, engines, history, TypeOK, SlotInv
<1>3. ASSUME NEW n \in Engine, DeliverOne(n) PROVE TypeOK' /\ SlotInv'
  <2>1. Crash => Calm
    BY DEF Crash, Calm
  <2> QED
    BY <1>2, <1>3, <2>1, DeliverFacts, DeliverTypes
<1>4. ASSUME NEW n \in Engine, Notify(n) PROVE TypeOK' /\ SlotInv'
  <2>1. PICK l \in Links : /\ evfd' = [evfd EXCEPT ![l] = @ + delivery[l]]
                           /\ delivery' = [delivery EXCEPT ![l] = 0]
    BY <1>4 DEF Notify
  <2>2. evfd' \in [Links -> Nat] /\ delivery' \in [Links -> Nat]
    BY <2>1 DEF TypeOK
  <2> QED
    BY <1>4, <2>2 DEF Notify, TypeOK, SlotInv, queues, engines, history
<1>5. ASSUME NEW n \in Engine, Delivered(n) PROVE TypeOK' /\ SlotInv'
  <2>1. /\ pc' \in [Engine -> {"events", "deliver", "run", "poll"}]
        /\ level' \in [Engine -> 0..MaxPri]
    BY <1>5, SchedAssumption DEF Delivered, TypeOK, FirstLevel
  <2>2. active' \in [Engine -> BOOLEAN]
    BY <1>5 DEF Delivered, TypeOK
  <2> QED
    BY <1>5, <2>1, <2>2 DEF Delivered, TypeOK, SlotInv, queues, bridges, history
<1>6. ASSUME NEW n \in Engine, Pull(n) PROVE TypeOK' /\ SlotInv'
  <2>1. PICK p \in Level, k \in Nat : Pulled(n, p, k)
    BY <1>6, PullFacts
  <2> DEFINE s == input[n][p]
  <2>2. s \in Seq(Event) /\ Len(s) \in Nat /\ k \in 1..Len(s)
    BY <2>1 DEF TypeOK, Pulled
  <2>3. SubSeq(s, 1, k) \in Seq(Event) /\ SubSeq(s, k + 1, Len(s)) \in Seq(Event)
    BY <2>2, SubSeqProperties
  <2>4. input' = [input EXCEPT ![n][p] = SubSeq(s, k + 1, Len(s))]
    BY <2>1 DEF Pulled
  <2> HIDE DEF s
  <2>5. input' \in [Engine -> [Level -> Seq(Event)]]
    BY <2>3, <2>4, TableUpdate DEF TypeOK
  <2>6. batch' \in [Engine -> Seq(Event)] /\ level' \in [Engine -> 0..MaxPri]
    <3>1. p - 1 \in 0..MaxPri
      BY SchedAssumption DEF Level
    <3>2. level' = [level EXCEPT ![n] = p - 1] /\ batch' = [batch EXCEPT ![n] = SubSeq(s, 1, k)]
      BY <2>1 DEF Pulled, s
    <3> QED
      BY <2>3, <3>1, <3>2 DEF TypeOK
  <2>7. active' \in [Engine -> BOOLEAN] /\ handler' \in [Engine -> BOOLEAN]
    BY <2>1 DEF Pulled, TypeOK
  <2> QED
    BY <2>1, <2>5, <2>6, <2>7 DEF Pulled, TypeOK, SlotInv, bridges, history
<1>7. ASSUME NEW n \in Engine, RunEvent(n) PROVE TypeOK' /\ SlotInv'
  <2>1. CASE Crash
    BY <1>2, <2>1 DEF Crash, Calm
  <2>2. CASE ~Crash
    <3>1. /\ batch[n] # <<>> /\ batch' = [batch EXCEPT ![n] = Tail(@)]
          /\ handled' = handled \cup {Head(batch[n])}
          /\ handler' = [handler EXCEPT ![n] = TRUE]
          /\ UNCHANGED <<pc, level, active, input, output, bridges, rr, dst, hop, sent, fault>>
      BY <1>7, <2>2 DEF RunEvent
    <3>2. batch[n] \in Seq(Event)
      BY DEF TypeOK
    <3>3. Tail(batch[n]) \in Seq(Event) /\ Head(batch[n]) \in Event
      BY <3>1, <3>2, HeadTailProperties
    <3>4. batch' \in [Engine -> Seq(Event)] /\ handled' \subseteq Event
      BY <3>1, <3>3 DEF TypeOK
    <3>5. handler' \in [Engine -> BOOLEAN]
      BY <3>1 DEF TypeOK
    <3> QED
      BY <3>1, <3>4, <3>5 DEF TypeOK, SlotInv, bridges
  <2> QED
    BY <2>1, <2>2
<1>8. ASSUME NEW n \in Engine, EndRound(n) PROVE TypeOK' /\ SlotInv'
  <2>1. pc' \in [Engine -> {"events", "deliver", "run", "poll"}]
    BY <1>8 DEF EndRound, TypeOK
  <2>2. handler' \in [Engine -> BOOLEAN]
    BY <1>8 DEF EndRound, TypeOK
  <2> QED
    BY <1>8, <2>1, <2>2 DEF EndRound, TypeOK, SlotInv, queues, bridges, history
<1>9. ASSUME NEW n \in Engine, Wake(n) PROVE TypeOK' /\ SlotInv'
  <2>1. /\ pc' \in [Engine -> {"events", "deliver", "run", "poll"}]
        /\ ready' \in [Engine -> SUBSET Links]
    BY <1>9 DEF Wake, TypeOK
  <2> QED
    BY <1>9, <2>1 DEF Wake, TypeOK, SlotInv, queues, history
<1>10. ASSUME NEW n \in Engine, CopyBegin(n) PROVE TypeOK' /\ SlotInv'
  <2>1. PICK l \in ready[n] : /\ evfd' = [evfd EXCEPT ![l] = 0]
                              /\ copying' = [copying EXCEPT ![n] = l]
                              /\ ready' = [ready EXCEPT ![n] = @ \ {l}]
    BY <1>10 DEF CopyBegin
  <2>2. l \in Links
    BY DEF TypeOK
  <2>3. evfd' \in [Links -> Nat] /\ copying' \in [Engine -> Links \cup {NoLink}]
        /\ ready' \in [Engine -> SUBSET Links]
    BY <2>1, <2>2 DEF TypeOK
  <2> QED
    BY <1>10, <2>3 DEF CopyBegin, TypeOK, SlotInv, queues, engines, history
<1>11. ASSUME NEW n \in Engine, CopyOne(n) PROVE TypeOK' /\ SlotInv'
  <2> DEFINE l == copying[n]
             e == Head(mq[l])
  <2>1. l \in Links /\ mq[l] \in Seq(Event) /\ mq[l] # <<>>
    BY <1>11 DEF CopyOne, TypeOK
  <2>2. e \in Event /\ Tail(mq[l]) \in Seq(Event)
    BY <2>1, HeadTailProperties
  <2>3. Queued(n, e, dst[e] = n) /\ mq' = [mq EXCEPT ![l] = Tail(mq[l])]
    BY <1>11 DEF CopyOne, Queued
  <2> HIDE DEF e, l
  <2>4. /\ input' \in [Engine -> [Level -> Seq(Event)]]
        /\ output' \in [Engine -> [Level -> Seq(Event)]]
    BY <2>2, <2>3, QueuedTypes DEF TypeOK
  <2>5. mq' \in [Links -> Seq(Event)]
    BY <2>1, <2>2, <2>3 DEF TypeOK
  <2> QED
    BY <1>11, <2>4, <2>5 DEF CopyOne, TypeOK, SlotInv, engines, history
<1>12. ASSUME NEW n \in Engine, CopyEnd(n) PROVE TypeOK' /\ SlotInv'
  BY <1>12 DEF CopyEnd, TypeOK, SlotInv, queues, engines, history
<1>13. ASSUME NEW n \in Engine, EndEvents(n) PROVE TypeOK' /\ SlotInv'
  BY <1>13 DEF EndEvents, TypeOK, SlotInv, queues, bridges, history
<1>14. UNCHANGED vars => Calm
  BY DEF vars, Calm
<1> QED
  BY <1>1, <1>2, <1>3, <1>4, <1>5, <1>6, <1>7, <1>8, <1>9, <1>10, <1>11, <1>12, <1>13, <1>14
  DEF Next, Step

------------------------------------------------------------------------------
(* The second layer: the engines.                                          *)

(* A set of priorities has a highest one.                                  *)
LEMMA HighestLevel ==
  ASSUME NEW S, S \subseteq Level, S # {}
  PROVE  \E p \in S : \A q \in S : q <= p
<1> DEFINE T == {MaxPri - p : p \in S}
           R == OpToRel(<, Nat)
<1>1. MaxPri \in Nat /\ \A p \in S : p \in Int /\ p <= MaxPri
  BY SchedAssumption DEF Level
<1>2. T \subseteq Nat /\ T # {}
  BY <1>1
<1>3. IsWellFoundedOn(R, Nat)
  BY NatLessThanWellFounded
<1>4. PICK x \in T : \A y \in T : ~(<<y, x>> \in R)
  <2> HIDE DEF T, R
  <2> QED
    BY <1>2, <1>3, WFMin
<1>5. \A y \in T : ~(y < x)
  BY <1>2, <1>4 DEF OpToRel
<1>6. PICK p \in S : x = MaxPri - p
  OBVIOUS
<1>7. \A q \in S : MaxPri - q \in T
  OBVIOUS
<1>8. ASSUME NEW q \in S PROVE q <= p
  <2>1. ~(MaxPri - q < MaxPri - p)
    BY <1>5, <1>6, <1>7
  <2> QED
    BY <1>1, <2>1
<1> QED
  BY <1>8

(* A round that starts at the highest priority and finds no level to run   *)
(* leaves no input behind.                                                 *)
LEMMA RoundSeesAll ==
  ASSUME TypeOK, NEW n \in Engine, level[n] = MaxPri, ~\E p \in Level : NextLevel(n, p)
  PROVE  NoInput(n)
<1> DEFINE S == {p \in Level : input[n][p] # <<>>}
<1>1. SUFFICES ASSUME S # {} PROVE FALSE
  BY DEF NoInput
<1>2. PICK p \in S : \A q \in S : q <= p
  BY <1>1, HighestLevel
<1>3. MaxPri \in Nat /\ p \in 1..MaxPri
  BY SchedAssumption DEF Level
<1>4. ASSUME NEW q \in (p + 1)..level[n] PROVE input[n][q] = <<>>
  <2>1. q \in Level /\ ~(q <= p)
    BY <1>3, <1>4 DEF Level
  <2> QED
    BY <1>2, <2>1
<1>5. NextLevel(n, p)
  BY <1>3, <1>4 DEF NextLevel
<1> QED
  BY <1>5

(* What one engine does leaves the invariants of the others alone.         *)
LEMMA Elsewhere ==
  ASSUME NEW m \in Engine, EngineOK(m), pc'[m] = pc[m], level'[m] = level[m],
         active'[m] = active[m], handler'[m] = handler[m], batch'[m] = batch[m],
         copying'[m] = copying[m], ready'[m] = ready[m],
         input'[m] = input[m], output'[m] = output[m]
  PROVE  EngineOK(m)'
  BY DEF EngineOK, NoInput, NoOutput

LEMMA EngineStep ==
  ASSUME TypeOK, SlotInv, EngineInv, [Next]_vars, NEW m \in Engine
  PROVE  EngineOK(m)'
<1>0. EngineOK(m)
  BY DEF EngineInv
<1>a. CASE Calm
  BY <1>0, <1>a, Elsewhere DEF Calm, queues, bridges, engines
<1>1. ASSUME NEW e \in Event, Send(e) PROVE EngineOK(m)'
  <2>1. /\ UNCHANGED <<batch, copying, ready, pc, level, active, handler>>
        /\ Queued(From[e], e, To[e] = From[e])
        /\ pc[From[e]] = "events" \/ handler[From[e]]
    BY <1>1 DEF Send, bridges, engines, Queued
  <2>2. CASE m # From[e]
    <3>1. input'[m] = input[m] /\ output'[m] = output[m]
      BY <2>1, <2>2 DEF Queued, TypeOK
    <3> QED
      BY <1>0, <2>1, <3>1, Elsewhere
  <2>3. CASE m = From[e]
    BY <1>0, <2>1, <2>3 DEF EngineOK
  <2> QED
    BY <2>2, <2>3
<1>2. ASSUME NEW n \in Engine, DeliverOne(n) PROVE EngineOK(m)'
  <2>1. Crash => Calm
    BY DEF Crash, Calm
  <2>2. ASSUME NEW p \in Level, NEW e \in Event, NEW l \in Links, Pushed(n, p, e, l)
        PROVE  EngineOK(m)'
    <3>1. /\ UNCHANGED <<input, batch, copying, ready, pc, level, active, handler>>
          /\ pc[n] = "deliver" /\ output' = [output EXCEPT ![n][p] = Tail(output[n][p])]
      BY <2>2 DEF Pushed, engines
    <3>2. CASE m # n
      <4>1. output'[m] = output[m]
        BY <3>1, <3>2 DEF TypeOK
      <4> QED
        BY <1>0, <3>1, <4>1, Elsewhere
    <3>3. CASE m = n
      BY <1>0, <3>1, <3>3 DEF EngineOK
    <3> QED
      BY <3>2, <3>3
  <2> QED
    BY <1>2, <1>a, <2>1, <2>2, DeliverFacts
<1>3. ASSUME NEW n \in Engine, Notify(n) PROVE EngineOK(m)'
  BY <1>0, <1>3, Elsewhere DEF Notify, queues, engines
<1>4. ASSUME NEW n \in Engine, Delivered(n) PROVE EngineOK(m)'
  <2>1. UNCHANGED <<input, output, batch, copying, ready, handler>>
    BY <1>4 DEF Delivered, queues, bridges
  <2>2. CASE m # n
    BY <1>0, <1>4, <2>1, <2>2, Elsewhere DEF Delivered, TypeOK
  <2>3. CASE m = n
    <3>1. /\ pc[m] = "deliver" /\ NoOutput(m)' /\ pc'[m] = "run" /\ level'[m] = MaxPri
      BY <1>4, <2>1, <2>3 DEF Delivered, NoOutput, TypeOK, FirstLevel
    <3> QED
      BY <1>0, <2>1, <3>1 DEF EngineOK
  <2> QED
    BY <2>2, <2>3
<1>5. ASSUME NEW n \in Engine, Pull(n) PROVE EngineOK(m)'
  <2>1. PICK p \in Level, k \in Nat : Pulled(n, p, k)
    BY <1>5, PullFacts
  <2>2. UNCHANGED <<pc, output, copying, ready>>
    BY <2>1 DEF Pulled, bridges
  <2>3. CASE m # n
    <3>1. /\ batch'[m] = batch[m] /\ level'[m] = level[m] /\ active'[m] = active[m]
          /\ handler'[m] = handler[m] /\ input'[m] = input[m]
      BY <2>1, <2>3 DEF Pulled, TypeOK
    <3> QED
      BY <1>0, <2>2, <3>1, Elsewhere
  <2>4. CASE m = n
    <3>1. pc[m] = "run" /\ active'[m] /\ ~handler'[m]
      BY <2>1, <2>4 DEF Pulled, TypeOK
    <3> QED
      BY <1>0, <2>2, <3>1 DEF EngineOK
  <2> QED
    BY <2>3, <2>4
<1>6. ASSUME NEW n \in Engine, RunEvent(n) PROVE EngineOK(m)'
  <2>1. CASE Crash
    BY <1>a, <2>1 DEF Crash, Calm
  <2>2. CASE ~Crash
    <3>1. /\ batch[n] # <<>> /\ batch' = [batch EXCEPT ![n] = Tail(@)]
          /\ handler' = [handler EXCEPT ![n] = TRUE] /\ pc[n] = "run"
          /\ UNCHANGED <<pc, level, active, input, output, copying, ready>>
      BY <1>6, <2>2 DEF RunEvent, bridges
    <3>2. CASE m # n
      <4>1. batch'[m] = batch[m] /\ handler'[m] = handler[m]
        BY <3>1, <3>2 DEF TypeOK
      <4> QED
        BY <1>0, <3>1, <4>1, Elsewhere
    <3>3. CASE m = n
      BY <1>0, <3>1, <3>3 DEF EngineOK
    <3> QED
      BY <3>2, <3>3
  <2> QED
    BY <2>1, <2>2
<1>7. ASSUME NEW n \in Engine, EndRound(n) PROVE EngineOK(m)'
  <2>1. UNCHANGED <<level, active, input, output, batch, copying, ready>>
    BY <1>7 DEF EndRound, queues, bridges
  <2>2. CASE m # n
    BY <1>0, <1>7, <2>1, <2>2, Elsewhere DEF EndRound, TypeOK
  <2>3. CASE m = n
    <3>1. /\ pc[m] = "run" /\ batch[m] = <<>> /\ ~handler'[m]
          /\ pc'[m] = IF active[m] THEN "deliver" ELSE "poll"
      BY <1>7, <2>3 DEF EndRound, TypeOK
    <3>2. ~active[m] => NoInput(m) /\ NoOutput(m)
      BY <1>0, <1>7, <2>3, <3>1, RoundSeesAll DEF EndRound, EngineOK
    <3>3. ~active[m] => NoInput(m)' /\ NoOutput(m)'
      BY <2>1, <3>2 DEF NoInput, NoOutput
    <3> QED
      BY <1>0, <2>1, <3>1, <3>3 DEF EngineOK
  <2> QED
    BY <2>2, <2>3
<1>8. ASSUME NEW n \in Engine, Wake(n) PROVE EngineOK(m)'
  <2>1. UNCHANGED <<level, active, handler, input, output, batch, copying>>
    BY <1>8 DEF Wake, queues
  <2>2. CASE m # n
    BY <1>0, <1>8, <2>1, <2>2, Elsewhere DEF Wake, TypeOK
  <2>3. CASE m = n
    <3>1. pc[m] = "poll" /\ pc'[m] = "events" /\ \A l \in ready'[m] : l[2] = m
      BY <1>8, <2>3 DEF Wake, TypeOK
    <3> QED
      BY <1>0, <2>1, <3>1 DEF EngineOK
  <2> QED
    BY <2>2, <2>3
<1>9. ASSUME NEW n \in Engine, CopyBegin(n) PROVE EngineOK(m)'
  <2>1. PICK l \in ready[n] : /\ copying' = [copying EXCEPT ![n] = l]
                              /\ ready' = [ready EXCEPT ![n] = @ \ {l}]
    BY <1>9 DEF CopyBegin
  <2>2. UNCHANGED <<pc, level, active, handler, input, output, batch>> /\ pc[n] = "events"
    BY <1>9 DEF CopyBegin, queues, engines
  <2>3. CASE m # n
    BY <1>0, <2>1, <2>2, <2>3, Elsewhere DEF TypeOK
  <2>4. CASE m = n
    <3>1. l[2] = m /\ copying'[m] = l /\ ready'[m] \subseteq ready[m]
      BY <1>0, <2>1, <2>4 DEF EngineOK, TypeOK
    <3> QED
      BY <1>0, <2>2, <2>4, <3>1 DEF EngineOK
  <2> QED
    BY <2>3, <2>4
<1>10. ASSUME NEW n \in Engine, CopyOne(n) PROVE EngineOK(m)'
  <2> DEFINE e == Head(mq[copying[n]])
  <2>1. /\ UNCHANGED <<batch, ready, copying, pc, level, active, handler>>
        /\ Queued(n, e, dst[e] = n) /\ copying[n] # NoLink
    BY <1>10 DEF CopyOne, engines, Queued
  <2> HIDE DEF e
  <2>2. CASE m # n
    <3>1. input'[m] = input[m] /\ output'[m] = output[m]
      BY <2>1, <2>2 DEF Queued, TypeOK
    <3> QED
      BY <1>0, <2>1, <3>1, Elsewhere
  <2>3. CASE m = n
    BY <1>0, <2>1, <2>3 DEF EngineOK
  <2> QED
    BY <2>2, <2>3
<1>11. ASSUME NEW n \in Engine, CopyEnd(n) PROVE EngineOK(m)'
  <2>1. /\ UNCHANGED <<input, output, batch, ready, pc, level, active, handler>>
        /\ copying' = [copying EXCEPT ![n] = NoLink]
    BY <1>11 DEF CopyEnd, queues, engines
  <2>2. CASE m # n
    BY <1>0, <2>1, <2>2, Elsewhere DEF TypeOK
  <2>3. CASE m = n
    <3>1. copying'[m] = NoLink
      BY <2>1, <2>3 DEF TypeOK
    <3> QED
      BY <1>0, <2>1, <3>1 DEF EngineOK, NoInput, NoOutput
  <2> QED
    BY <2>2, <2>3
<1>12. ASSUME NEW n \in Engine, EndEvents(n) PROVE EngineOK(m)'
  <2>1. /\ UNCHANGED <<input, output, batch, ready, copying, level, active, handler>>
        /\ pc' = [pc EXCEPT ![n] = "deliver"] /\ copying[n] = NoLink /\ pc[n] = "events"
    BY <1>12 DEF EndEvents, queues, bridges
  <2>2. CASE m # n
    BY <1>0, <2>1, <2>2, Elsewhere DEF TypeOK
  <2>3. CASE m = n
    <3>1. pc'[m] = "deliver"
      BY <2>1, <2>3 DEF TypeOK
    <3> QED
      BY <1>0, <2>1, <2>3, <3>1 DEF EngineOK
  <2> QED
    BY <2>2, <2>3
<1>b. UNCHANGED vars => Calm
  BY DEF vars, Calm
<1> QED
  BY <1>a, <1>b, <1>1, <1>2, <1>3, <1>4, <1>5, <1>6, <1>7, <1>8, <1>9, <1>10, <1>11, <1>12
  DEF Next, Step

(* NoLostWakeup: the source pushes before it counts and notifies, the      *)
(* destination reads the eventfd before it empties the bridge and leaves   *)
(* it only when it is empty.                                               *)
LEMMA WakeupStep ==
  ASSUME TypeOK, SlotInv, EngineInv, NoLostWakeup, [Next]_vars
  PROVE  NoLostWakeup'
<1> SUFFICES ASSUME NEW l \in Links, mq'[l] # <<>>
             PROVE  evfd'[l] > 0 \/ delivery'[l] > 0 \/ copying'[l[2]] = l
  BY DEF NoLostWakeup
<1> DEFINE Goal == evfd'[l] > 0 \/ delivery'[l] > 0 \/ copying'[l[2]] = l
<1>0. /\ mq[l] # <<>> => evfd[l] > 0 \/ delivery[l] > 0 \/ copying[l[2]] = l
      /\ evfd[l] \in Nat /\ delivery[l] \in Nat /\ l[2] \in Engine /\ l # NoLink
  BY LinkShape DEF NoLostWakeup, TypeOK
<1>1. CASE UNCHANGED <<mq, evfd, delivery, copying>>
  BY <1>0, <1>1
<1>2. ASSUME NEW n \in Engine, DeliverOne(n) PROVE Goal
  <2>1. CASE Crash
    BY <1>1, <2>1 DEF Crash, bridges
  <2>2. ASSUME NEW p \in Level, NEW e \in Event, NEW r \in Links, Pushed(n, p, e, r)
        PROVE  Goal
    <3>1. CASE r = l
      <4>1. delivery'[l] = delivery[l] + 1
        BY <2>2, <3>1 DEF Pushed, TypeOK
      <4> QED
        BY <1>0, <4>1
    <3>2. CASE r # l
      <4>1. mq'[l] = mq[l] /\ delivery'[l] = delivery[l] /\ UNCHANGED <<evfd, copying>>
        BY <2>2, <3>2 DEF Pushed, TypeOK
      <4> QED
        BY <1>0, <4>1
    <3> QED
      BY <3>1, <3>2
  <2> QED
    BY <1>2, <2>1, <2>2, DeliverFacts
<1>3. ASSUME NEW n \in Engine, Notify(n) PROVE Goal
  <2>1. PICK r \in Links : /\ delivery[r] > 0
                           /\ evfd' = [evfd EXCEPT ![r] = @ + delivery[r]]
                           /\ delivery' = [delivery EXCEPT ![r] = 0]
    BY <1>3 DEF Notify
  <2>2. UNCHANGED <<mq, copying>>
    BY <1>3 DEF Notify
  <2>3. CASE r = l
    <3>1. evfd'[l] = evfd[l] + delivery[l] /\ delivery[l] > 0
      BY <2>1, <2>3 DEF TypeOK
    <3> QED
      BY <1>0, <3>1
  <2>4. CASE r # l
    <3>1. evfd'[l] = evfd[l] /\ delivery'[l] = delivery[l]
      BY <2>1, <2>4 DEF TypeOK
    <3> QED
      BY <1>0, <2>2, <3>1
  <2> QED
    BY <2>3, <2>4
<1>4. ASSUME NEW n \in Engine, CopyBegin(n) PROVE Goal
  <2>1. PICK r \in ready[n] : /\ evfd' = [evfd EXCEPT ![r] = 0]
                              /\ copying' = [copying EXCEPT ![n] = r]
    BY <1>4 DEF CopyBegin
  <2>2. UNCHANGED <<mq, delivery>> /\ copying[n] = NoLink
    BY <1>4 DEF CopyBegin
  <2>3. r[2] = n
    BY DEF EngineInv, EngineOK
  <2>4. CASE r = l
    BY <2>1, <2>3, <2>4 DEF TypeOK
  <2>5. CASE r # l
    <3>1. evfd'[l] = evfd[l]
      BY <2>1, <2>5 DEF TypeOK
    <3>2. copying[l[2]] = l => copying'[l[2]] = l
      BY <1>0, <2>1, <2>2 DEF TypeOK
    <3> QED
      BY <1>0, <2>2, <3>1, <3>2
  <2> QED
    BY <2>4, <2>5
<1>5. ASSUME NEW n \in Engine, CopyOne(n) PROVE Goal
  <2>1. /\ UNCHANGED <<evfd, delivery, copying>>
        /\ copying[n] # NoLink /\ mq[copying[n]] # <<>>
        /\ mq' = [mq EXCEPT ![copying[n]] = Tail(@)]
    BY <1>5 DEF CopyOne
  <2>2. mq[l] # <<>>
    BY <2>1 DEF TypeOK
  <2> QED
    BY <1>0, <2>1, <2>2
<1>6. ASSUME NEW n \in Engine, CopyEnd(n) PROVE Goal
  <2>1. /\ UNCHANGED <<mq, evfd, delivery>> /\ mq[copying[n]] = <<>>
        /\ copying' = [copying EXCEPT ![n] = NoLink]
    BY <1>6 DEF CopyEnd
  <2>2. copying[l[2]] = l => copying'[l[2]] = l
    BY <1>0, <2>1 DEF TypeOK
  <2> QED
    BY <1>0, <2>1, <2>2
<1>7. ASSUME NEW n \in Engine,
             Delivered(n) \/ Pull(n) \/ RunEvent(n) \/ EndRound(n) \/ Wake(n) \/ EndEvents(n)
      PROVE  Goal
  <2>1. UNCHANGED <<mq, evfd, delivery, copying>>
    BY <1>7 DEF Delivered, Pull, RunEvent, Crash, EndRound, Wake, EndEvents, bridges
  <2> QED
    BY <1>1, <2>1
<1>8. ASSUME NEW e \in Event, Send(e) PROVE Goal
  BY <1>1, <1>8 DEF Send, bridges
<1>9. UNCHANGED vars => UNCHANGED <<mq, evfd, delivery, copying>>
  BY DEF vars, bridges
<1> QED
  BY <1>1, <1>2, <1>3, <1>4, <1>5, <1>6, <1>7, <1>8, <1>9 DEF Next, Step

------------------------------------------------------------------------------
BaseInv == TypeOK /\ SlotInv /\ EngineInv /\ NoLostWakeup

LEMMA BaseStep ==
  ASSUME BaseInv, [Next]_vars
  PROVE  BaseInv'
  BY TypeStep, EngineStep, WakeupStep DEF BaseInv, EngineInv

LEMMA BaseInit ==
  ASSUME Init
  PROVE  BaseInv
<1>1. TypeOK
  <2>1. /\ pc \in [Engine -> {"events", "deliver", "run", "poll"}]
        /\ input \in [Engine -> [Level -> Seq(Event)]]
        /\ output \in [Engine -> [Level -> Seq(Event)]]
        /\ level \in [Engine -> 0..MaxPri] /\ batch \in [Engine -> Seq(Event)]
    BY SchedAssumption DEF Init
  <2>2. active \in [Engine -> BOOLEAN] /\ handler \in [Engine -> BOOLEAN]
    BY DEF Init
  <2>3. /\ mq \in [Links -> Seq(Event)] /\ evfd \in [Links -> Nat] /\ delivery \in [Links -> Nat]
        /\ ready \in [Engine -> SUBSET Links] /\ copying \in [Engine -> Links \cup {NoLink}]
    BY DEF Init
  <2>4. /\ rr \in 1..Len(BridgeTbl) /\ dst \in [Event -> Engine \cup {NoDst}]
        /\ hop \in [Event -> 0..MaxHop] /\ sent \subseteq Event /\ handled \subseteq Event
        /\ fault \in {"none", "abort"}
    BY SchedAssumption, Topology DEF Init
  <2> QED
    BY <2>1, <2>2, <2>3, <2>4 DEF TypeOK
<1>2. SlotInv
  BY Topology DEF Init, SlotInv
<1>3. EngineInv
  BY DEF Init, EngineInv, EngineOK
<1>4. NoLostWakeup
  BY DEF Init, NoLostWakeup
<1> QED
  BY <1>1, <1>2, <1>3, <1>4 DEF BaseInv

LEMMA BaseInvariance == Spec => []BaseInv
<1>1. Init => BaseInv
  BY BaseInit
<1>2. BaseInv /\ [Next]_vars => BaseInv'
  BY BaseStep
<1> QED
  BY <1>1, <1>2, PTL DEF Spec

(* No message stays behind in a bridge unnoticed, however the pushes and   *)
(* notifications of the source interleave with the destination's reads.    *)
THEOREM WakeupSafe == Spec => []NoLostWakeup
<1>1. BaseInv => NoLostWakeup
  BY DEF BaseInv
<1> QED
  BY <1>1, BaseInvariance, PTL

------------------------------------------------------------------------------
(* The third layer: the queues as one table.  A step does one of three     *)
(* things to it: it appends a new event e to a queue, it takes the first   *)
(* event of a queue away, or it moves the first k events of a queue to the *)
(* end of another.                                                         *)

Added(C, D, q, e) ==
  /\ q \in Queues /\ D \in [Queues -> Seq(Event)]
  /\ \A x \in Queues \ {q} : D[x] = C[x]
  /\ Len(D[q]) = Len(C[q]) + 1
  /\ \A i \in 1..Len(C[q]) : D[q][i] = C[q][i]
  /\ D[q][Len(C[q]) + 1] = e

Removed(C, D, q) ==
  /\ q \in Queues /\ D \in [Queues -> Seq(Event)]
  /\ \A x \in Queues \ {q} : D[x] = C[x]
  /\ Len(C[q]) > 0 /\ Len(D[q]) = Len(C[q]) - 1
  /\ \A i \in 1..Len(D[q]) : D[q][i] = C[q][i + 1]

Moved(C, D, q, r, k) ==
  /\ q \in Queues /\ r \in Queues /\ q # r /\ D \in [Queues -> Seq(Event)]
  /\ \A x \in Queues \ {q, r} : D[x] = C[x]
  /\ k \in 1..Len(C[q]) /\ Len(D[q]) = Len(C[q]) - k /\ Len(D[r]) = Len(C[r]) + k
  /\ \A i \in 1..Len(D[q]) : D[q][i] = C[q][i + k]
  /\ \A i \in 1..Len(C[r]) : D[r][i] = C[r][i]
  /\ \A i \in 1..k : D[r][Len(C[r]) + i] = C[q][i]

(* Where what is in D at index i of queue x has been in C: the index, and  *)
(* whether it was queue q instead of r.                                    *)
WasMoved(C, r, x, i) == x = r /\ i > Len(C[r])
OldQueue(C, q, r, x, i) == IF WasMoved(C, r, x, i) THEN q ELSE x
OldIndex(C, q, r, k, x, i) ==
  IF WasMoved(C, r, x, i) THEN i - Len(C[r]) ELSE IF x = q THEN i + k ELSE i

LEMMA MovedFrom ==
  ASSUME NEW C, NEW D, NEW q, NEW r, NEW k, Moved(C, D, q, r, k),
         C \in [Queues -> Seq(Event)]
  PROVE  \A x \in Queues : \A i \in 1..Len(D[x]) :
           /\ OldQueue(C, q, r, x, i) \in Queues
           /\ OldIndex(C, q, r, k, x, i) \in 1..Len(C[OldQueue(C, q, r, x, i)])
           /\ C[OldQueue(C, q, r, x, i)][OldIndex(C, q, r, k, x, i)] = D[x][i]
<1> TAKE x \in Queues
<1> TAKE i \in 1..Len(D[x])
<1>1. \A y \in Queues : Len(C[y]) \in Nat /\ Len(D[y]) \in Nat
  BY DEF Moved
<1>2. k \in Nat /\ q \in Queues /\ r \in Queues /\ q # r /\ k <= Len(C[q])
  BY <1>1 DEF Moved
<1>3. CASE x = q
  BY <1>1, <1>2, <1>3 DEF Moved, WasMoved, OldQueue, OldIndex
<1>4. CASE x = r /\ i <= Len(C[r])
  BY <1>1, <1>2, <1>4 DEF Moved, WasMoved, OldQueue, OldIndex
<1>5. CASE x = r /\ i > Len(C[r])
  <2>1. i - Len(C[r]) \in 1..k /\ Len(C[r]) + (i - Len(C[r])) = i
    BY <1>1, <1>2, <1>5 DEF Moved
  <2>2. D[r][Len(C[r]) + (i - Len(C[r]))] = C[q][i - Len(C[r])]
    BY <2>1 DEF Moved
  <2> QED
    BY <1>1, <1>2, <1>5, <2>1, <2>2 DEF WasMoved, OldQueue, OldIndex
<1>6. CASE x # q /\ x # r
  BY <1>1, <1>2, <1>6 DEF Moved, WasMoved, OldQueue, OldIndex
<1> QED
  BY <1>1, <1>2, <1>3, <1>4, <1>5, <1>6

(* What is where in C is somewhere in D.                                   *)
LEMMA MovedTo ==
  ASSUME NEW C, NEW D, NEW q, NEW r, NEW k, Moved(C, D, q, r, k),
         C \in [Queues -> Seq(Event)]
  PROVE  \A x \in Queues : \A i \in 1..Len(C[x]) :
           \E y \in Queues : \E j \in 1..Len(D[y]) : D[y][j] = C[x][i]
<1> TAKE x \in Queues
<1> TAKE i \in 1..Len(C[x])
<1>1. \A y \in Queues : Len(C[y]) \in Nat /\ Len(D[y]) \in Nat
  BY DEF Moved
<1>2. k \in Nat /\ q \in Queues /\ r \in Queues /\ q # r /\ k <= Len(C[q])
  BY <1>1 DEF Moved
<1>3. CASE x = q /\ i <= k
  <2>1. Len(C[r]) + i \in 1..Len(D[r]) /\ D[r][Len(C[r]) + i] = C[q][i]
    BY <1>1, <1>2, <1>3 DEF Moved
  <2> QED
    BY <1>2, <1>3, <2>1
<1>4. CASE x = q /\ i > k
  <2>1. i - k \in 1..Len(D[q]) /\ i - k + k = i
    BY <1>1, <1>2, <1>4 DEF Moved
  <2>2. D[q][i - k] = C[q][i - k + k]
    BY <2>1 DEF Moved
  <2> QED
    BY <1>2, <1>4, <2>1, <2>2
<1>5. CASE x = r
  <2>1. i \in 1..Len(D[r]) /\ D[r][i] = C[r][i]
    BY <1>1, <1>2, <1>5 DEF Moved
  <2> QED
    BY <1>5, <2>1
<1>6. CASE x # q /\ x # r
  BY <1>6 DEF Moved
<1> QED
  BY <1>1, <1>2, <1>3, <1>4, <1>5, <1>6

LEMMA MovedOnePlace ==
  ASSUME NEW C, NEW S, OnePlace(C, S), NEW D, NEW q, NEW r, NEW k, Moved(C, D, q, r, k)
  PROVE  OnePlace(D, S)
<1>0. C \in [Queues -> Seq(Event)]
  BY DEF OnePlace
<1>1. \A y \in Queues : Len(C[y]) \in Nat /\ Len(D[y]) \in Nat
  BY <1>0 DEF Moved
<1>2. k \in Nat /\ q \in Queues /\ r \in Queues /\ q # r /\ D \in [Queues -> Seq(Event)]
  BY <1>0, <1>1 DEF Moved
<1>u. \A x, y \in Queues : \A i \in 1..Len(C[x]), j \in 1..Len(C[y]) :
        C[x][i] = C[y][j] => x = y /\ i = j
  BY DEF OnePlace
<1>3. ASSUME NEW x \in Queues, NEW y \in Queues, NEW i \in 1..Len(D[x]), NEW j \in 1..Len(D[y]),
             D[x][i] = D[y][j]
      PROVE  x = y /\ i = j
  <2>1. /\ OldQueue(C, q, r, x, i) = OldQueue(C, q, r, y, j)
        /\ OldIndex(C, q, r, k, x, i) = OldIndex(C, q, r, k, y, j)
    <3> DEFINE X == OldQueue(C, q, r, x, i)
               Y == OldQueue(C, q, r, y, j)
               I == OldIndex(C, q, r, k, x, i)
               J == OldIndex(C, q, r, k, y, j)
    <3>1. X \in Queues /\ I \in 1..Len(C[X]) /\ C[X][I] = D[x][i]
      BY <1>0, MovedFrom
    <3>2. Y \in Queues /\ J \in 1..Len(C[Y]) /\ C[Y][J] = D[y][j]
      BY <1>0, MovedFrom
    <3> HIDE DEF X, Y, I, J
    <3>3. X = Y /\ I = J
      <4>1. C[X][I] = C[Y][J]
        BY <1>3, <3>1, <3>2
      <4> QED
        BY <1>u, <3>1, <3>2, <4>1
    <3> QED
      BY <3>3 DEF X, Y, I, J
  <2>2. CASE WasMoved(C, r, x, i) <=> WasMoved(C, r, y, j)
    BY <1>1, <1>2, <2>1, <2>2 DEF OldQueue, OldIndex, WasMoved
  <2>3. ASSUME NEW u \in Queues, NEW v \in Queues, NEW a \in 1..Len(D[u]), NEW b \in 1..Len(D[v]),
               WasMoved(C, r, u, a), ~WasMoved(C, r, v, b),
               OldQueue(C, q, r, u, a) = OldQueue(C, q, r, v, b),
               OldIndex(C, q, r, k, u, a) = OldIndex(C, q, r, k, v, b)
        PROVE  FALSE
    <3>1. v = q /\ u = r /\ a - Len(C[r]) = b + k
      BY <2>3 DEF OldQueue, OldIndex, WasMoved
    <3>2. Len(D[r]) = Len(C[r]) + k
      BY DEF Moved
    <3> QED
      BY <1>1, <1>2, <3>1, <3>2
  <2> QED
    BY <2>1, <2>2, <2>3
<1>4. ASSUME NEW e \in Event
      PROVE  (\E x \in Queues : \E i \in 1..Len(C[x]) : C[x][i] = e)
               <=> (\E x \in Queues : \E i \in 1..Len(D[x]) : D[x][i] = e)
  <2>1. ASSUME NEW x \in Queues, NEW i \in 1..Len(C[x]), C[x][i] = e
        PROVE  \E y \in Queues : \E j \in 1..Len(D[y]) : D[y][j] = e
    <3>1. \E y \in Queues : \E j \in 1..Len(D[y]) : D[y][j] = C[x][i]
      BY <1>0, MovedTo
    <3> QED
      BY <2>1, <3>1
  <2>2. ASSUME NEW x \in Queues, NEW i \in 1..Len(D[x]), D[x][i] = e
        PROVE  \E y \in Queues : \E j \in 1..Len(C[y]) : C[y][j] = e
    <3>1. /\ OldQueue(C, q, r, x, i) \in Queues
          /\ OldIndex(C, q, r, k, x, i) \in 1..Len(C[OldQueue(C, q, r, x, i)])
          /\ C[OldQueue(C, q, r, x, i)][OldIndex(C, q, r, k, x, i)] = D[x][i]
      BY <1>0, MovedFrom
    <3> QED
      BY <2>2, <3>1
  <2> QED
    BY <2>1, <2>2
<1> QED
  BY <1>2, <1>3, <1>4 DEF OnePlace

LEMMA AddedOnePlace ==
  ASSUME NEW C, NEW S, OnePlace(C, S), NEW D, NEW q, NEW e \in Event, e \notin S,
         Added(C, D, q, e)
  PROVE  OnePlace(D, S \cup {e})
<1>0. C \in [Queues -> Seq(Event)] /\ D \in [Queues -> Seq(Event)]
  BY DEF OnePlace, Added
<1>1. \A y \in Queues : Len(C[y]) \in Nat /\ Len(D[y]) \in Nat
  BY <1>0
<1>2. \A x \in Queues : \A i \in 1..Len(C[x]) : i \in 1..Len(D[x]) /\ D[x][i] = C[x][i] /\ C[x][i] # e
  BY <1>1, SMTT(60) DEF Added, OnePlace
<1>3. ASSUME NEW x \in Queues, NEW i \in 1..Len(D[x])
      PROVE  \/ i \in 1..Len(C[x])
             \/ x = q /\ i = Len(C[q]) + 1 /\ D[x][i] = e
  BY <1>1 DEF Added
<1>4. q \in Queues /\ Len(C[q]) + 1 \in 1..Len(D[q]) /\ D[q][Len(C[q]) + 1] = e
  BY <1>1 DEF Added
<1>5. \A x, y \in Queues : \A i \in 1..Len(D[x]), j \in 1..Len(D[y]) :
        D[x][i] = D[y][j] => x = y /\ i = j
  <2>0. \A x, y \in Queues : \A i \in 1..Len(C[x]), j \in 1..Len(C[y]) :
          C[x][i] = C[y][j] => x = y /\ i = j
    BY DEF OnePlace
  <2> TAKE x, y \in Queues
  <2> TAKE i \in 1..Len(D[x]), j \in 1..Len(D[y])
  <2> HAVE D[x][i] = D[y][j]
  <2>1. CASE i \in 1..Len(C[x]) /\ j \in 1..Len(C[y])
    <3>1. C[x][i] = C[y][j]
      BY <1>2, <2>1
    <3> QED
      BY <2>0, <2>1, <3>1, ZenonT(30)
  <2>2. CASE i \notin 1..Len(C[x]) \/ j \notin 1..Len(C[y])
    <3>1. ASSUME NEW u \in Queues, NEW v \in Queues, NEW a \in 1..Len(D[u]),
                 NEW b \in 1..Len(D[v]), D[u][a] = D[v][b], a \notin 1..Len(C[u])
          PROVE  u = v /\ a = b
      <4>1. u = q /\ a = Len(C[q]) + 1 /\ D[v][b] = e
        BY <1>3, <3>1
      <4>2. v = q /\ b = Len(C[q]) + 1
        BY <1>2, <1>3, <4>1
      <4> QED
        BY <4>1, <4>2
    <3> QED
      BY <2>2, <3>1
  <2> QED
    BY <2>1, <2>2
<1>6. \A d \in Event : d \in S \cup {e} <=> \E x \in Queues : \E i \in 1..Len(D[x]) : D[x][i] = d
  <2> TAKE d \in Event
  <2>0. d \in S <=> \E x \in Queues : \E i \in 1..Len(C[x]) : C[x][i] = d
    BY DEF OnePlace
  <2>1. ASSUME d \in S PROVE \E x \in Queues : \E i \in 1..Len(D[x]) : D[x][i] = d
    BY <1>2, <2>0, <2>1
  <2>2. d = e => \E x \in Queues : \E i \in 1..Len(D[x]) : D[x][i] = d
    BY <1>4
  <2>3. ASSUME NEW x \in Queues, NEW i \in 1..Len(D[x]), D[x][i] = d PROVE d \in S \cup {e}
    BY <1>2, <1>3, <2>0, <2>3
  <2> QED
    BY <2>1, <2>2, <2>3
<1> QED
  BY <1>0, <1>5, <1>6 DEF OnePlace

LEMMA RemovedOnePlace ==
  ASSUME NEW C, NEW S, OnePlace(C, S), NEW D, NEW q, Removed(C, D, q)
  PROVE  OnePlace(D, S \ {C[q][1]})
<1>0. C \in [Queues -> Seq(Event)] /\ D \in [Queues -> Seq(Event)]
  BY DEF OnePlace, Removed
<1>1. \A y \in Queues : Len(C[y]) \in Nat /\ Len(D[y]) \in Nat
  BY <1>0
<1> DEFINE Old(x, i) == IF x = q THEN i + 1 ELSE i
           New(x, i) == IF x = q THEN i - 1 ELSE i
<1>2. \A x \in Queues : \A i \in 1..Len(D[x]) :
        Old(x, i) \in 1..Len(C[x]) /\ D[x][i] = C[x][Old(x, i)] /\ (x = q => Old(x, i) # 1)
  BY <1>1 DEF Removed
<1>3. \A x \in Queues : \A i \in 1..Len(C[x]) : ~(x = q /\ i = 1) =>
        New(x, i) \in 1..Len(D[x]) /\ D[x][New(x, i)] = C[x][i]
  <2> TAKE x \in Queues
  <2> TAKE i \in 1..Len(C[x])
  <2> HAVE ~(x = q /\ i = 1)
  <2>1. CASE x = q
    <3>1. i - 1 \in 1..Len(D[q]) /\ (i - 1) + 1 = i
      BY <1>1, <2>1 DEF Removed
    <3>2. D[q][i - 1] = C[q][(i - 1) + 1]
      BY <3>1 DEF Removed
    <3> QED
      BY <2>1, <3>1, <3>2
  <2>2. CASE x # q
    BY <2>2 DEF Removed
  <2> QED
    BY <2>1, <2>2
<1>4. q \in Queues /\ 1 \in 1..Len(C[q])
  BY <1>1 DEF Removed
<1>5. \A x, y \in Queues : \A i \in 1..Len(D[x]), j \in 1..Len(D[y]) :
        D[x][i] = D[y][j] => x = y /\ i = j
  <2> TAKE x, y \in Queues
  <2> TAKE i \in 1..Len(D[x]), j \in 1..Len(D[y])
  <2> HAVE D[x][i] = D[y][j]
  <2>1. x = y /\ Old(x, i) = Old(y, j)
    <3> HIDE DEF Old
    <3>1. Old(x, i) \in 1..Len(C[x]) /\ Old(y, j) \in 1..Len(C[y])
          /\ C[x][Old(x, i)] = C[y][Old(y, j)]
      BY <1>2
    <3>2. \A a \in 1..Len(C[x]), b \in 1..Len(C[y]) : C[x][a] = C[y][b] => x = y /\ a = b
      BY DEF OnePlace
    <3> QED
      BY ONLY <3>1, <3>2, ZenonT(60)
  <2> QED
    BY <1>1, <2>1
<1>6. \A x \in Queues : \A i \in 1..Len(C[x]) : C[x][i] = C[q][1] <=> x = q /\ i = 1
  BY <1>4 DEF OnePlace
<1> HIDE DEF Old, New
<1>7. \A d \in Event : d \in S \ {C[q][1]} <=> \E x \in Queues : \E i \in 1..Len(D[x]) : D[x][i] = d
  <2> TAKE d \in Event
  <2>0. d \in S <=> \E x \in Queues : \E i \in 1..Len(C[x]) : C[x][i] = d
    BY DEF OnePlace
  <2>1. ASSUME d \in S, d # C[q][1] PROVE \E x \in Queues : \E i \in 1..Len(D[x]) : D[x][i] = d
    <3>1. PICK x \in Queues : \E i \in 1..Len(C[x]) : C[x][i] = d
      BY <2>0, <2>1
    <3>2. PICK i \in 1..Len(C[x]) : C[x][i] = d
      BY <3>1
    <3>3. New(x, i) \in 1..Len(D[x]) /\ D[x][New(x, i)] = d
      BY <1>3, <2>1, <3>2
    <3> QED
      BY <3>3
  <2>2. ASSUME NEW x \in Queues, NEW i \in 1..Len(D[x]), D[x][i] = d
        PROVE  d \in S \ {C[q][1]}
    <3>1. Old(x, i) \in 1..Len(C[x]) /\ d = C[x][Old(x, i)] /\ (x = q => Old(x, i) # 1)
      BY <1>2, <2>2
    <3> QED
      BY <1>6, <2>0, <3>1
  <2> QED
    BY <2>1, <2>2
<1> QED
  BY <1>0, <1>5, <1>7 DEF OnePlace

------------------------------------------------------------------------------
(* The actions as changes of that table.                                   *)

In(n, p) == <<"input", n, p>>
Out(n, p) == <<"output", n, p>>
Batch(n) == <<"batch", n, 0>>
Bridge(l) == <<"bridge", l[1], l[2]>>

LEMMA QueueNames ==
  /\ \A n \in Engine, p \in Level : In(n, p) \in Queues /\ Out(n, p) \in Queues
  /\ \A n \in Engine : Batch(n) \in Queues
  /\ \A l \in Links : Bridge(l) \in Queues
  /\ \A x \in Queues : \/ \E n \in Engine, p \in Level : x = In(n, p) \/ x = Out(n, p)
                       \/ \E n \in Engine : x = Batch(n)
                       \/ \E l \in Links : x = Bridge(l)
<1>1. \A n \in Engine, p \in Level : In(n, p) \in Queues /\ Out(n, p) \in Queues
  BY DEF Queues, In, Out
<1>2. \A n \in Engine : Batch(n) \in Queues
  BY DEF Queues, Batch
<1>3. \A l \in Links : Bridge(l) \in Queues
  BY DEF Queues, Bridge
<1>4. ASSUME NEW x \in Queues
      PROVE  \/ \E n \in Engine, p \in Level : x = In(n, p) \/ x = Out(n, p)
             \/ \E n \in Engine : x = Batch(n)
             \/ \E l \in Links : x = Bridge(l)
  <2>1. CASE x \in {"input", "output"} \X Engine \X Level
    <3>1. PICK t \in {"input", "output"}, n \in Engine, p \in Level : x = <<t, n, p>>
      BY <2>1
    <3> QED
      BY <3>1 DEF In, Out
  <2>2. CASE x \in {<<"batch", n, 0>> : n \in Engine}
    BY <2>2 DEF Batch
  <2>3. CASE x \in {<<"bridge", l[1], l[2]>> : l \in Links}
    BY <2>3 DEF Bridge
  <2> QED
    BY <2>1, <2>2, <2>3 DEF Queues
<1> QED
  BY <1>1, <1>2, <1>3, <1>4

Table(i, o, b, m) ==
  [q \in Queues |-> CASE q[1] = "input"  -> i[q[2]][q[3]]
                      [] q[1] = "output" -> o[q[2]][q[3]]
                      [] q[1] = "batch"  -> b[q[2]]
                      [] q[1] = "bridge" -> m[<<q[2], q[3]>>]]

TableOf(C, i, o, b, m) ==
  /\ C \in [Queues -> Seq(Event)]
  /\ \A n \in Engine, p \in Level : C[In(n, p)] = i[n][p] /\ C[Out(n, p)] = o[n][p]
  /\ \A n \in Engine : C[Batch(n)] = b[n]
  /\ \A l \in Links : C[Bridge(l)] = m[l]

LEMMA TableIs ==
  ASSUME NEW i \in [Engine -> [Level -> Seq(Event)]], NEW o \in [Engine -> [Level -> Seq(Event)]],
         NEW b \in [Engine -> Seq(Event)], NEW m \in [Links -> Seq(Event)]
  PROVE  TableOf(Table(i, o, b, m), i, o, b, m)
<1> DEFINE C == Table(i, o, b, m)
<1>1. \A n \in Engine, p \in Level : C[In(n, p)] = i[n][p]
  BY QueueNames DEF Table, In
<1>2. \A n \in Engine, p \in Level : C[Out(n, p)] = o[n][p]
  BY QueueNames DEF Table, Out
<1>3. \A n \in Engine : C[Batch(n)] = b[n]
  BY QueueNames DEF Table, Batch
<1>4. \A l \in Links : C[Bridge(l)] = m[l]
  <2> TAKE l \in Links
  <2>1. l = <<l[1], l[2]>>
    BY LinkShape
  <2> QED
    BY <2>1, QueueNames DEF Table, Bridge
<1> DEFINE F(q) == CASE q[1] = "input"  -> i[q[2]][q[3]]
                     [] q[1] = "output" -> o[q[2]][q[3]]
                     [] q[1] = "batch"  -> b[q[2]]
                     [] q[1] = "bridge" -> m[<<q[2], q[3]>>]
<1>5. C = [q \in Queues |-> F(q)]
  BY DEF Table
<1> HIDE DEF C, F
<1>6. ASSUME NEW x \in Queues PROVE F(x) \in Seq(Event)
  <2>1. F(x) = C[x]
    BY <1>5
  <2>2. ASSUME NEW n \in Engine, NEW p \in Level, x = In(n, p) \/ x = Out(n, p)
        PROVE  C[x] \in Seq(Event)
    BY <1>1, <1>2, <2>2
  <2>3. ASSUME NEW n \in Engine, x = Batch(n) PROVE C[x] \in Seq(Event)
    BY <1>3, <2>3
  <2>4. ASSUME NEW l \in Links, x = Bridge(l) PROVE C[x] \in Seq(Event)
    BY <1>4, <2>4
  <2> QED
    BY <2>1, <2>2, <2>3, <2>4, QueueNames
<1>7. C \in [Queues -> Seq(Event)]
  BY <1>5, <1>6
<1> QED
  BY <1>1, <1>2, <1>3, <1>4, <1>7 DEF TableOf, C

LEMMA ContentIs ==
  ASSUME TypeOK
  PROVE  TableOf(Content, input, output, batch, mq)
<1>1. Content = Table(input, output, batch, mq)
  BY DEF Content, Table
<1>2. TableOf(Table(input, output, batch, mq), input, output, batch, mq)
  BY TableIs DEF TypeOK
<1> QED
  BY <1>1, <1>2

LEMMA ContentNext ==
  ASSUME TypeOK'
  PROVE  TableOf(Content', input', output', batch', mq')
<1>1. Content' = Table(input', output', batch', mq')
  BY DEF Content, Table
<1>2. TableOf(Table(input', output', batch', mq'), input', output', batch', mq')
  BY TableIs DEF TypeOK
<1> QED
  BY <1>1, <1>2

(* Queues are told apart by their names.                                   *)
LEMMA NamesDiffer ==
  /\ \A n, m \in Engine, p, r \in Level :
       /\ In(n, p) # Out(m, r) /\ In(n, p) # Batch(m) /\ Out(n, p) # Batch(m)
       /\ In(n, p) = In(m, r) => n = m /\ p = r
       /\ Out(n, p) = Out(m, r) => n = m /\ p = r
  /\ \A n, m \in Engine : Batch(n) = Batch(m) => n = m
  /\ \A l, r \in Links : Bridge(l) = Bridge(r) => l = r
  /\ \A l \in Links, n \in Engine, p \in Level :
       Bridge(l) # In(n, p) /\ Bridge(l) # Out(n, p) /\ Bridge(l) # Batch(n)
<1>1. \A l, r \in Links : Bridge(l) = Bridge(r) => l = r
  BY LinkShape DEF Bridge
<1> QED
  BY <1>1 DEF In, Out, Batch, Bridge

(* Queues outside X that the step leaves alone are the same in both tables. *)
LEMMA Frame ==
  ASSUME NEW X, TypeOK, TypeOK',
         \A n \in Engine, p \in Level : In(n, p) \notin X => input'[n][p] = input[n][p],
         \A n \in Engine, p \in Level : Out(n, p) \notin X => output'[n][p] = output[n][p],
         \A n \in Engine : Batch(n) \notin X => batch'[n] = batch[n],
         \A l \in Links : Bridge(l) \notin X => mq'[l] = mq[l]
  PROVE  \A x \in Queues \ X : Content'[x] = Content[x]
<1> DEFINE C == Content
           D == Content'
<1>1. TableOf(C, input, output, batch, mq) /\ TableOf(D, input', output', batch', mq')
  BY ContentIs, ContentNext
<1> HIDE DEF C, D
<1>2. ASSUME NEW x \in Queues \ X PROVE D[x] = C[x]
  <2>1. ASSUME NEW n \in Engine, NEW p \in Level, x = In(n, p) \/ x = Out(n, p)
        PROVE  D[x] = C[x]
    BY <1>1, <2>1 DEF TableOf
  <2>2. ASSUME NEW n \in Engine, x = Batch(n) PROVE D[x] = C[x]
    BY <1>1, <2>2 DEF TableOf
  <2>3. ASSUME NEW l \in Links, x = Bridge(l) PROVE D[x] = C[x]
    BY <1>1, <2>3 DEF TableOf
  <2> QED
    BY <2>1, <2>2, <2>3, QueueNames
<1> QED
  BY <1>2 DEF C, D

(* Queued appends to one queue of engine n.                                *)
Target(n, e, isInput) == IF isInput THEN In(n, Pri[e]) ELSE Out(n, Pri[e])

LEMMA QueuedAppends ==
  ASSUME TypeOK, TypeOK', NEW n \in Engine, NEW e \in Event, NEW b, b \in BOOLEAN, Queued(n, e, b)
  PROVE  LET t == Target(n, e, b)
         IN  /\ t \in Queues /\ Content[t] \in Seq(Event)
             /\ Content'[t] = Append(Content[t], e)
             /\ \A m \in Engine, p \in Level :
                  /\ In(m, p) # t => input'[m][p] = input[m][p]
                  /\ Out(m, p) # t => output'[m][p] = output[m][p]
<1> DEFINE C == Content
           D == Content'
           t == Target(n, e, b)
           p == Pri[e]
<1>1. TableOf(C, input, output, batch, mq) /\ TableOf(D, input', output', batch', mq')
  BY ContentIs, ContentNext
<1>2. p \in Level
  BY SchedAssumption
<1> HIDE DEF C, D, p
<1>3. t \in Queues /\ C[t] \in Seq(Event)
  BY <1>1, <1>2, QueueNames DEF Target, TableOf, p
<1>4. /\ Append(input[n][p], e) \in Seq(Event) /\ Append(output[n][p], e) \in Seq(Event)
  BY <1>2 DEF TypeOK
<1>7. /\ input \in [Engine -> [Level -> Seq(Event)]]
      /\ output \in [Engine -> [Level -> Seq(Event)]]
  BY DEF TypeOK
<1>8. /\ C[In(n, p)] = input[n][p] /\ D[In(n, p)] = input'[n][p]
      /\ C[Out(n, p)] = output[n][p] /\ D[Out(n, p)] = output'[n][p]
  BY <1>1, <1>2 DEF TableOf
<1>5. CASE b = TRUE
  <2>1. input' = [input EXCEPT ![n][p] = Append(input[n][p], e)] /\ output' = output
    BY <1>5 DEF Queued, p
  <2>2. \A x \in Engine, y \in Level :
          input'[x][y] = IF x = n /\ y = p THEN Append(input[n][p], e) ELSE input[x][y]
    BY <1>2, <1>4, <1>7, <2>1, TableUpdate
  <2>3. t = In(n, p)
    BY <1>5 DEF Target, p
  <2>4. D[t] = Append(C[t], e)
    BY <1>2, <1>8, <2>2, <2>3
  <2>5. \A m \in Engine, r \in Level : In(m, r) # t => input'[m][r] = input[m][r]
    BY <2>2, <2>3
  <2> QED
    BY <1>3, <2>1, <2>4, <2>5 DEF C, D
<1>6. CASE b = FALSE
  <2>1. output' = [output EXCEPT ![n][p] = Append(output[n][p], e)] /\ input' = input
    BY <1>6 DEF Queued, p
  <2>2. \A x \in Engine, y \in Level :
          output'[x][y] = IF x = n /\ y = p THEN Append(output[n][p], e) ELSE output[x][y]
    BY <1>2, <1>4, <1>7, <2>1, TableUpdate
  <2>3. t = Out(n, p)
    BY <1>6 DEF Target, p
  <2>4. D[t] = Append(C[t], e)
    BY <1>2, <1>8, <2>2, <2>3
  <2>5. \A m \in Engine, r \in Level : Out(m, r) # t => output'[m][r] = output[m][r]
    BY <2>2, <2>3
  <2> QED
    BY <1>3, <2>1, <2>4, <2>5 DEF C, D
<1> QED
  BY <1>5, <1>6

(* What the steps do, for the layers that follow.                          *)
SentStep(e) ==
  /\ e \notin sent /\ sent' = sent \cup {e} /\ \A d \in Event : Earlier(d, e) => d \in sent
  /\ Added(Content, Content', Target(From[e], e, To[e] = From[e]), e)
  /\ UNCHANGED <<dst, hop, handled, rr>>

PushedStep(n, p, e, l) ==
  /\ Moved(Content, Content', Out(n, p), Bridge(l), 1)
  /\ e = Content[Out(n, p)][1] /\ l = Route(n, e)
  /\ hop' = [hop EXCEPT ![e] = @ + 1]
  /\ dst' = [dst EXCEPT ![e] = IF @ = NoDst THEN l[2] ELSE @]
  /\ rr' = IF UsesRoundRobin(n, e) THEN NextSlot(RoundRobin) ELSE rr
  /\ UNCHANGED <<sent, handled>>

PulledStep(n, p, k) ==
  /\ Moved(Content, Content', In(n, p), Batch(n), k)
  /\ UNCHANGED <<dst, hop, sent, handled, rr>>

RunStep(n, e) ==
  /\ Removed(Content, Content', Batch(n)) /\ e = Content[Batch(n)][1] /\ dst[e] = n
  /\ handled' = handled \cup {e}
  /\ UNCHANGED <<dst, hop, sent, rr>>

CopiedStep(n, l, e) ==
  /\ l[2] = n /\ e = Content[Bridge(l)][1]
  /\ Moved(Content, Content', Bridge(l), Target(n, e, dst[e] = n), 1)
  /\ UNCHANGED <<dst, hop, sent, handled, rr>>

StillStep == Content' = Content /\ UNCHANGED <<dst, hop, sent, handled, rr>>

LEMMA AppendIs ==
  ASSUME NEW s \in Seq(Event), NEW e \in Event
  PROVE  /\ Len(Append(s, e)) = Len(s) + 1 /\ Append(s, e)[Len(s) + 1] = e
         /\ \A i \in 1..Len(s) : Append(s, e)[i] = s[i]
  OBVIOUS

LEMMA TailIs ==
  ASSUME NEW s \in Seq(Event), s # <<>>
  PROVE  /\ Len(s) \in Nat \ {0} /\ Head(s) = s[1] /\ Head(s) \in Event
         /\ Len(Tail(s)) = Len(s) - 1 /\ \A i \in 1..Len(Tail(s)) : Tail(s)[i] = s[i + 1]
<1>1. Len(s) \in Nat \ {0}
  BY EmptySeq
<1> QED
  BY <1>1

LEMMA SendTable ==
  ASSUME TypeOK, TypeOK', NEW e \in Event, Send(e)
  PROVE  SentStep(e)
<1> DEFINE n == From[e]
           t == Target(n, e, To[e] = n)
<1>1. n \in Engine /\ (To[e] = n) \in BOOLEAN
  BY SchedAssumption
<1>2. Queued(n, e, To[e] = n) /\ UNCHANGED <<batch, mq>>
  BY DEF Send, Queued, bridges
<1>3. /\ t \in Queues /\ Content[t] \in Seq(Event) /\ Content'[t] = Append(Content[t], e)
      /\ \A m \in Engine, p \in Level :
           /\ In(m, p) # t => input'[m][p] = input[m][p]
           /\ Out(m, p) # t => output'[m][p] = output[m][p]
  <2> DEFINE b == (To[e] = n)
  <2>1. b \in BOOLEAN /\ n \in Engine /\ Queued(n, e, b) /\ t = Target(n, e, b)
    BY <1>1, <1>2
  <2> HIDE DEF b, n, t
  <2> QED
    BY <2>1, QueuedAppends
<1> HIDE DEF t
<1>4. \A x \in Queues \ {t} : Content'[x] = Content[x]
  BY <1>2, <1>3, Frame
<1>5. Content' \in [Queues -> Seq(Event)]
  BY ContentNext DEF TableOf
<1>6. Added(Content, Content', t, e)
  BY <1>3, <1>4, <1>5, AppendIs DEF Added
<1> QED
  BY <1>6 DEF SentStep, Send, t

LEMMA PushTable ==
  ASSUME TypeOK, TypeOK', NEW n \in Engine, NEW p \in Level, NEW e \in Event, NEW l \in Links,
         Pushed(n, p, e, l)
  PROVE  PushedStep(n, p, e, l)
<1> DEFINE C == Content
           D == Content'
           s == output[n][p]
<1>1. TableOf(C, input, output, batch, mq) /\ TableOf(D, input', output', batch', mq')
  BY ContentIs, ContentNext
<1>2. s \in Seq(Event) /\ s # <<>> /\ e = Head(s) /\ mq[l] \in Seq(Event)
  <2>1. s # <<>> /\ e = Head(s)
    BY DEF Pushed
  <2>2. s \in Seq(Event) /\ mq[l] \in Seq(Event)
    BY DEF TypeOK
  <2> QED
    BY <2>1, <2>2
<1>3. Tail(s) \in Seq(Event) /\ output \in [Engine -> [Level -> Seq(Event)]]
  BY <1>2, HeadTailProperties DEF TypeOK
<1>4. output' = [output EXCEPT ![n][p] = Tail(s)]
  BY DEF Pushed
<1>5. \A x \in Engine, y \in Level :
        output'[x][y] = IF x = n /\ y = p THEN Tail(s) ELSE output[x][y]
  <2> HIDE DEF s
  <2> QED
    BY <1>3, <1>4, TableUpdate
<1>6. \A r \in Links : mq'[r] = IF r = l THEN Append(mq[l], e) ELSE mq[r]
  BY DEF Pushed, TypeOK
<1>7. UNCHANGED <<input, batch, sent, handled>>
  BY DEF Pushed, history
<1>8. C[Out(n, p)] = s /\ D[Out(n, p)] = Tail(s) /\ C[Bridge(l)] = mq[l] /\ D[Bridge(l)] = Append(mq[l], e)
  BY <1>1, <1>5, <1>6 DEF TableOf
<1>9. \A x \in Queues \ {Out(n, p), Bridge(l)} : D[x] = C[x]
  BY <1>5, <1>6, <1>7, Frame
<1>10. D \in [Queues -> Seq(Event)]
  BY <1>1 DEF TableOf
<1>11. Out(n, p) \in Queues /\ Bridge(l) \in Queues /\ Out(n, p) # Bridge(l)
  BY QueueNames, NamesDiffer
<1> HIDE DEF C, D, s
<1>12. /\ Len(s) \in Nat \ {0} /\ e = s[1] /\ Len(Tail(s)) = Len(s) - 1
       /\ \A i \in 1..Len(Tail(s)) : Tail(s)[i] = s[i + 1]
  BY <1>2, TailIs
<1>13. /\ Len(mq[l]) \in Nat /\ Len(Append(mq[l], e)) = Len(mq[l]) + 1
       /\ Append(mq[l], e)[Len(mq[l]) + 1] = e
       /\ \A i \in 1..Len(mq[l]) : Append(mq[l], e)[i] = mq[l][i]
  BY <1>2, AppendIs
<1>14. Moved(C, D, Out(n, p), Bridge(l), 1)
  <2>1. \A i \in 1..1 : D[Bridge(l)][Len(C[Bridge(l)]) + i] = C[Out(n, p)][i]
    BY <1>8, <1>12, <1>13
  <2>2. 1 \in 1..Len(C[Out(n, p)])
    BY <1>8, <1>12
  <2>3. Len(D[Out(n, p)]) = Len(C[Out(n, p)]) - 1 /\ Len(D[Bridge(l)]) = Len(C[Bridge(l)]) + 1
    BY <1>8, <1>12, <1>13
  <2>4. \A i \in 1..Len(D[Out(n, p)]) : D[Out(n, p)][i] = C[Out(n, p)][i + 1]
    BY <1>8, <1>12
  <2>5. \A i \in 1..Len(C[Bridge(l)]) : D[Bridge(l)][i] = C[Bridge(l)][i]
    BY <1>8, <1>13
  <2> QED
    BY <1>9, <1>10, <1>11, <2>1, <2>2, <2>3, <2>4, <2>5 DEF Moved
<1> QED
  BY <1>7, <1>8, <1>12, <1>14 DEF PushedStep, Pushed, C, D

LEMMA PullTable ==
  ASSUME TypeOK, TypeOK', NEW n \in Engine, NEW p \in Level, NEW k \in Nat, Pulled(n, p, k)
  PROVE  PulledStep(n, p, k)
<1> DEFINE C == Content
           D == Content'
           s == input[n][p]
           a == SubSeq(s, 1, k)
           b == SubSeq(s, k + 1, Len(s))
<1>1. TableOf(C, input, output, batch, mq) /\ TableOf(D, input', output', batch', mq')
  BY ContentIs, ContentNext
<1>2. s \in Seq(Event) /\ Len(s) \in Nat /\ k \in 1..Len(s) /\ batch[n] = <<>>
  BY DEF Pulled, TypeOK
<1>3. /\ a \in Seq(Event) /\ Len(a) = k /\ \A i \in 1..k : a[i] = s[i]
      /\ b \in Seq(Event) /\ Len(b) = Len(s) - k /\ \A i \in 1..Len(b) : b[i] = s[i + k]
  <2> HIDE DEF s
  <2>1. a \in Seq(Event) /\ b \in Seq(Event)
    BY <1>2, SubSeqProperties
  <2>2. Len(a) = k /\ Len(b) = Len(s) - k
    BY <1>2
  <2>3. \A i \in 1..k : a[i] = s[i]
    BY <1>2
  <2>4. \A i \in 1..Len(b) : b[i] = s[i + k]
    BY <1>2, <2>2
  <2> QED
    BY <2>1, <2>2, <2>3, <2>4
<1>4. input' = [input EXCEPT ![n][p] = b] /\ input \in [Engine -> [Level -> Seq(Event)]]
  BY DEF Pulled, TypeOK
<1>5. \A m \in Engine : batch'[m] = IF m = n THEN a ELSE batch[m]
  BY DEF Pulled, TypeOK
<1>6. UNCHANGED <<output, mq, dst, hop, sent, handled, rr>>
  BY DEF Pulled, bridges, history
<1> HIDE DEF a, b, s
<1>7. \A x \in Engine, y \in Level : input'[x][y] = IF x = n /\ y = p THEN b ELSE input[x][y]
  BY <1>3, <1>4, TableUpdate
<1>8. C[In(n, p)] = s /\ D[In(n, p)] = b /\ C[Batch(n)] = <<>> /\ D[Batch(n)] = a
  BY <1>1, <1>2, <1>5, <1>7 DEF TableOf, s
<1>9. \A x \in Queues \ {In(n, p), Batch(n)} : D[x] = C[x]
  BY <1>5, <1>6, <1>7, Frame
<1>10. D \in [Queues -> Seq(Event)]
  BY <1>1 DEF TableOf
<1>11. In(n, p) \in Queues /\ Batch(n) \in Queues /\ In(n, p) # Batch(n)
  BY QueueNames, NamesDiffer
<1> HIDE DEF C, D
<1>12. Moved(C, D, In(n, p), Batch(n), k)
  <2>1. Len(C[Batch(n)]) = 0
    BY <1>8
  <2> QED
    <3>1. k \in 1..Len(C[In(n, p)]) /\ Len(D[In(n, p)]) = Len(C[In(n, p)]) - k
          /\ Len(D[Batch(n)]) = Len(C[Batch(n)]) + k
      BY <1>2, <1>3, <1>8, <2>1
    <3>2. \A i \in 1..Len(D[In(n, p)]) : D[In(n, p)][i] = C[In(n, p)][i + k]
      BY <1>3, <1>8
    <3>3. \A i \in 1..Len(C[Batch(n)]) : D[Batch(n)][i] = C[Batch(n)][i]
      BY <2>1
    <3>4. \A i \in 1..k : D[Batch(n)][Len(C[Batch(n)]) + i] = C[In(n, p)][i]
      BY <1>3, <1>8, <2>1
    <3> QED
      BY <1>9, <1>10, <1>11, <3>1, <3>2, <3>3, <3>4 DEF Moved
<1> QED
  BY <1>6, <1>12 DEF PulledStep, C, D

LEMMA RunTable ==
  ASSUME TypeOK, TypeOK', NEW n \in Engine, RunEvent(n), ~Crash
  PROVE  \E e \in Event : RunStep(n, e)
<1> DEFINE C == Content
           D == Content'
           s == batch[n]
           e == Head(s)
<1>1. TableOf(C, input, output, batch, mq) /\ TableOf(D, input', output', batch', mq')
  BY ContentIs, ContentNext
<1>2. s \in Seq(Event) /\ s # <<>>
  BY DEF RunEvent, TypeOK
<1>3. /\ dst[e] = n /\ handled' = handled \cup {e} /\ batch' = [batch EXCEPT ![n] = Tail(s)]
      /\ UNCHANGED <<input, output, mq, dst, hop, sent, rr>>
  BY DEF RunEvent, bridges
<1>4. \A m \in Engine : batch'[m] = IF m = n THEN Tail(s) ELSE batch[m]
  BY <1>3 DEF TypeOK
<1>5. C[Batch(n)] = s /\ D[Batch(n)] = Tail(s)
  BY <1>1, <1>4 DEF TableOf
<1>6. \A x \in Queues \ {Batch(n)} : D[x] = C[x]
  BY <1>3, <1>4, Frame
<1>7. D \in [Queues -> Seq(Event)] /\ Batch(n) \in Queues
  BY <1>1, QueueNames DEF TableOf
<1> HIDE DEF C, D, s
<1>8. /\ Len(s) \in Nat \ {0} /\ e = s[1] /\ e \in Event /\ Len(Tail(s)) = Len(s) - 1
      /\ \A i \in 1..Len(Tail(s)) : Tail(s)[i] = s[i + 1]
  BY <1>2, TailIs
<1>9. Removed(C, D, Batch(n))
  BY <1>5, <1>6, <1>7, <1>8 DEF Removed
<1> HIDE DEF e
<1>10. RunStep(n, e)
  BY <1>3, <1>5, <1>8, <1>9 DEF RunStep, C, D
<1> QED
  BY <1>8, <1>10

LEMMA CopyTable ==
  ASSUME TypeOK, TypeOK', EngineInv, NEW n \in Engine, CopyOne(n)
  PROVE  \E l \in Links, e \in Event : CopiedStep(n, l, e)
<1> DEFINE C == Content
           D == Content'
           l == copying[n]
           s == mq[l]
           e == Head(s)
           t == Target(n, e, dst[e] = n)
<1>1. TableOf(C, input, output, batch, mq) /\ TableOf(D, input', output', batch', mq')
  BY ContentIs, ContentNext
<1>2. l \in Links /\ s \in Seq(Event) /\ s # <<>> /\ l[2] = n
  <2>1. l # NoLink /\ s # <<>>
    BY DEF CopyOne
  <2>2. l \in Links /\ s \in Seq(Event)
    BY <2>1 DEF TypeOK
  <2>3. l[2] = n
    BY <2>1 DEF EngineInv, EngineOK
  <2> QED
    BY <2>1, <2>2, <2>3
<1>3. /\ mq' = [mq EXCEPT ![l] = Tail(s)] /\ Queued(n, e, dst[e] = n)
      /\ UNCHANGED <<batch, dst, hop, sent, handled, rr>>
  BY DEF CopyOne, Queued, history
<1>4. \A r \in Links : mq'[r] = IF r = l THEN Tail(s) ELSE mq[r]
  BY <1>2, <1>3 DEF TypeOK
<1> HIDE DEF l, s
<1>5. /\ Len(s) \in Nat \ {0} /\ e = s[1] /\ e \in Event /\ Len(Tail(s)) = Len(s) - 1
      /\ \A i \in 1..Len(Tail(s)) : Tail(s)[i] = s[i + 1]
  BY <1>2, TailIs
<1> HIDE DEF e
<1>6. /\ t \in Queues /\ C[t] \in Seq(Event) /\ D[t] = Append(C[t], e)
      /\ \A m \in Engine, p \in Level :
           /\ In(m, p) # t => input'[m][p] = input[m][p]
           /\ Out(m, p) # t => output'[m][p] = output[m][p]
  <2> DEFINE b == (dst[e] = n)
  <2>1. b \in BOOLEAN /\ e \in Event /\ Queued(n, e, b) /\ t = Target(n, e, b)
    BY <1>3, <1>5
  <2> HIDE DEF b, t
  <2> QED
    BY <2>1, QueuedAppends
<1>7. t # Bridge(l)
  <2>1. Pri[e] \in Level
    BY <1>5, SchedAssumption
  <2> QED
    BY <1>2, <2>1, NamesDiffer DEF Target
<1> HIDE DEF t
<1>8. \A x \in Queues \ {Bridge(l), t} : D[x] = C[x]
  <2> DEFINE X == {Bridge(l), t}
  <2>1. /\ \A m \in Engine, p \in Level : In(m, p) \notin X => input'[m][p] = input[m][p]
        /\ \A m \in Engine, p \in Level : Out(m, p) \notin X => output'[m][p] = output[m][p]
    BY <1>6
  <2>2. /\ \A m \in Engine : Batch(m) \notin X => batch'[m] = batch[m]
        /\ \A r \in Links : Bridge(r) \notin X => mq'[r] = mq[r]
    BY <1>3, <1>4
  <2> HIDE DEF X
  <2>3. \A x \in Queues \ X : D[x] = C[x]
    BY <2>1, <2>2, Frame
  <2> QED
    BY <2>3 DEF X
<1>9. C[Bridge(l)] = s /\ D[Bridge(l)] = Tail(s)
  BY <1>1, <1>2, <1>4 DEF TableOf, s
<1>10. D \in [Queues -> Seq(Event)] /\ Bridge(l) \in Queues
  BY <1>1, <1>2, QueueNames DEF TableOf
<1> HIDE DEF C, D
<1>11. /\ Len(C[t]) \in Nat /\ Len(D[t]) = Len(C[t]) + 1 /\ D[t][Len(C[t]) + 1] = e
       /\ \A i \in 1..Len(C[t]) : D[t][i] = C[t][i]
  BY <1>5, <1>6, AppendIs
<1>12. Moved(C, D, Bridge(l), t, 1)
  <2>1. \A i \in 1..1 : D[t][Len(C[t]) + i] = C[Bridge(l)][i]
    BY <1>5, <1>9, <1>11
  <2>2. 1 \in 1..Len(C[Bridge(l)]) /\ Len(D[Bridge(l)]) = Len(C[Bridge(l)]) - 1
    BY <1>5, <1>9
  <2>3. \A i \in 1..Len(D[Bridge(l)]) : D[Bridge(l)][i] = C[Bridge(l)][i + 1]
    BY <1>5, <1>9
  <2> QED
    BY <1>6, <1>7, <1>8, <1>10, <1>11, <2>1, <2>2, <2>3 DEF Moved
<1>13. CopiedStep(n, l, e)
  BY <1>2, <1>3, <1>5, <1>9, <1>12 DEF CopiedStep, C, D, t
<1> QED
  BY <1>2, <1>5, <1>13

LEMMA TableStep ==
  ASSUME BaseInv, [Next]_vars
  PROVE  \/ \E e \in Event : SentStep(e)
         \/ \E n \in Engine, p \in Level, e \in Event, l \in Links : PushedStep(n, p, e, l)
         \/ \E n \in Engine, p \in Level, k \in Nat : PulledStep(n, p, k)
         \/ \E n \in Engine, e \in Event : RunStep(n, e)
         \/ \E n \in Engine, l \in Links, e \in Event : CopiedStep(n, l, e)
         \/ StillStep
<1> DEFINE Goal == \/ \E e \in Event : SentStep(e)
                   \/ \E n \in Engine, p \in Level, e \in Event, l \in Links : PushedStep(n, p, e, l)
                   \/ \E n \in Engine, p \in Level, k \in Nat : PulledStep(n, p, k)
                   \/ \E n \in Engine, e \in Event : RunStep(n, e)
                   \/ \E n \in Engine, l \in Links, e \in Event : CopiedStep(n, l, e)
                   \/ StillStep
<1>0. TypeOK /\ TypeOK' /\ SlotInv /\ EngineInv
  BY BaseStep DEF BaseInv
<1>1. ASSUME NEW e \in Event, Send(e) PROVE Goal
  BY <1>0, <1>1, SendTable
<1>2. ASSUME UNCHANGED <<queues, mq, dst, hop, history, rr>> PROVE Goal
  BY <1>2 DEF StillStep, Content, queues, history
<1>3. ASSUME NEW n \in Engine, DeliverOne(n) PROVE Goal
  <2>1. CASE Crash
    BY <1>2, <2>1 DEF Crash, bridges
  <2>2. CASE ~Crash
    BY <1>0, <1>3, <2>2, DeliverFacts, PushTable
  <2> QED
    BY <2>1, <2>2
<1>4. ASSUME NEW n \in Engine, Pull(n) PROVE Goal
  BY <1>0, <1>4, PullFacts, PullTable
<1>5. ASSUME NEW n \in Engine, RunEvent(n) PROVE Goal
  <2>1. CASE Crash
    BY <1>2, <2>1 DEF Crash, bridges
  <2>2. CASE ~Crash
    BY <1>0, <1>5, <2>2, RunTable
  <2> QED
    BY <2>1, <2>2
<1>6. ASSUME NEW n \in Engine, CopyOne(n) PROVE Goal
  BY <1>0, <1>6, CopyTable
<1>7. ASSUME NEW n \in Engine,
             \/ Notify(n) \/ Delivered(n) \/ EndRound(n) \/ Wake(n)
             \/ CopyBegin(n) \/ CopyEnd(n) \/ EndEvents(n)
      PROVE  Goal
  <2>1. UNCHANGED <<queues, mq, dst, hop, history, rr>>
    BY <1>7 DEF Notify, Delivered, EndRound, Wake, CopyBegin, CopyEnd, EndEvents, bridges
  <2> QED
    BY <1>2, <2>1
<1>8. UNCHANGED vars => UNCHANGED <<queues, mq, dst, hop, history, rr>>
  BY DEF vars, bridges
<1> HIDE DEF Goal
<1>9. Goal
  <2>1. ASSUME NEW n \in Engine, Step(n) PROVE Goal
    BY <1>3, <1>4, <1>5, <1>6, <1>7, <2>1 DEF Step
  <2>2. CASE UNCHANGED vars
    BY <1>2, <1>8, <2>2
  <2> QED
    BY <1>1, <2>1, <2>2 DEF Next
<1> QED
  BY <1>9 DEF Goal

------------------------------------------------------------------------------
(* Every event is in one place.                                            *)
PlaceInv == OnePlace(Content, sent \ handled) /\ handled \subseteq sent

LEMMA PlaceStep ==
  ASSUME BaseInv, PlaceInv, [Next]_vars
  PROVE  PlaceInv'
<1> DEFINE C == Content
           D == Content'
           S == sent \ handled
<1>0. OnePlace(C, S) /\ handled \subseteq sent
  BY DEF PlaceInv
<1>1. ASSUME NEW e \in Event, SentStep(e) PROVE PlaceInv'
  <2>1. e \notin S /\ sent' \ handled' = S \cup {e} /\ handled' \subseteq sent'
    BY <1>0, <1>1 DEF SentStep
  <2>2. Added(C, D, Target(From[e], e, To[e] = From[e]), e)
    BY <1>1 DEF SentStep
  <2> HIDE DEF C, D, S
  <2>3. OnePlace(D, S \cup {e})
    BY <1>0, <2>1, <2>2, AddedOnePlace
  <2> QED
    BY <2>1, <2>3 DEF PlaceInv, D
<1>2. ASSUME NEW q, NEW r, NEW k, Moved(C, D, q, r, k), UNCHANGED <<sent, handled>>
      PROVE  PlaceInv'
  <2> HIDE DEF C, D, S
  <2>1. OnePlace(D, S)
    BY <1>0, <1>2, MovedOnePlace
  <2>2. S' = S /\ handled' \subseteq sent'
    BY <1>0, <1>2 DEF S
  <2> QED
    BY <2>1, <2>2 DEF PlaceInv, D, S
<1>3. ASSUME NEW n \in Engine, NEW e \in Event, RunStep(n, e) PROVE PlaceInv'
  <2>1. Removed(C, D, Batch(n)) /\ e = C[Batch(n)][1]
    BY <1>3 DEF RunStep
  <2>2. sent' = sent /\ handled' = handled \cup {e}
    BY <1>3 DEF RunStep
  <2> HIDE DEF C, D, S
  <2>3. OnePlace(D, S \ {e})
    BY <1>0, <2>1, RemovedOnePlace
  <2>4. e \in S
    <3>1. Batch(n) \in Queues /\ 1 \in 1..Len(C[Batch(n)])
      BY <1>0, <2>1 DEF Removed, OnePlace
    <3> QED
      BY <1>0, <2>1, <3>1 DEF OnePlace
  <2>5. sent' \ handled' = S \ {e} /\ handled' \subseteq sent'
    BY <1>0, <2>2, <2>4 DEF S
  <2> QED
    BY <2>3, <2>5 DEF PlaceInv, D
<1>4. StillStep => PlaceInv'
  BY <1>0 DEF StillStep, PlaceInv
<1>5. ASSUME NEW n \in Engine, NEW p \in Level, NEW e \in Event, NEW l \in Links,
             PushedStep(n, p, e, l)
      PROVE  PlaceInv'
  BY <1>2, <1>5 DEF PushedStep
<1>6. ASSUME NEW n \in Engine, NEW p \in Level, NEW k \in Nat, PulledStep(n, p, k)
      PROVE  PlaceInv'
  BY <1>2, <1>6 DEF PulledStep
<1>7. ASSUME NEW n \in Engine, NEW l \in Links, NEW e \in Event, CopiedStep(n, l, e)
      PROVE  PlaceInv'
  BY <1>2, <1>7 DEF CopiedStep
<1> QED
  BY <1>1, <1>3, <1>4, <1>5, <1>6, <1>7, TableStep

(* Nothing is queued at the start.                                         *)
LEMMA EmptyInit ==
  ASSUME Init
  PROVE  Content \in [Queues -> Seq(Event)] /\ \A x \in Queues : Len(Content[x]) = 0
<1> DEFINE C == Content
<1>1. TableOf(C, input, output, batch, mq)
  BY BaseInit, ContentIs DEF BaseInv
<1>2. /\ \A n \in Engine, p \in Level : input[n][p] = <<>> /\ output[n][p] = <<>>
      /\ \A n \in Engine : batch[n] = <<>>
      /\ \A l \in Links : mq[l] = <<>>
  BY DEF Init
<1> HIDE DEF C
<1>3. ASSUME NEW x \in Queues PROVE C[x] = <<>>
  <2>1. ASSUME NEW n \in Engine, NEW p \in Level, x = In(n, p) \/ x = Out(n, p)
        PROVE  C[x] = <<>>
    BY <1>1, <1>2, <2>1 DEF TableOf
  <2>2. ASSUME NEW n \in Engine, x = Batch(n) PROVE C[x] = <<>>
    BY <1>1, <1>2, <2>2 DEF TableOf
  <2>3. ASSUME NEW l \in Links, x = Bridge(l) PROVE C[x] = <<>>
    BY <1>1, <1>2, <2>3 DEF TableOf
  <2> QED
    BY <2>1, <2>2, <2>3, QueueNames
<1> QED
  BY <1>1, <1>3 DEF TableOf, C

LEMMA PlaceInit ==
  ASSUME Init
  PROVE  PlaceInv
<1>1. sent = {} /\ handled = {}
  BY DEF Init
<1>2. \A x \in Queues : 1..Len(Content[x]) = {}
  BY EmptyInit
<1> QED
  BY <1>1, <1>2, EmptyInit DEF PlaceInv, OnePlace

LEMMA PlaceInvConserved ==
  ASSUME PlaceInv
  PROVE  Conserved
<1> DEFINE C == Content
           S == sent \ handled
<1>0. OnePlace(C, S)
  BY DEF PlaceInv
<1> SUFFICES ASSUME NEW e \in Event
             PROVE  Cardinality(Spots(e)) = IF e \in S THEN 1 ELSE 0
  BY DEF Conserved
<1>1. \A z : z \in Spots(e) <=>
        \E q \in Queues : \E i \in 1..Len(C[q]) : C[q][i] = e /\ z = <<q, i>>
  BY DEF Spots
<1> HIDE DEF C, S
<1>2. CASE e \in S
  <2>1. PICK q \in Queues : \E i \in 1..Len(C[q]) : C[q][i] = e
    BY <1>0, <1>2 DEF OnePlace
  <2>2. PICK i \in 1..Len(C[q]) : C[q][i] = e
    BY <2>1
  <2>3. ASSUME NEW r \in Queues, NEW j \in 1..Len(C[r]), C[r][j] = e
        PROVE  r = q /\ j = i
    BY <1>0, <2>2, <2>3 DEF OnePlace
  <2>4. \A z : z \in Spots(e) <=> z = <<q, i>>
    BY <1>1, <2>2, <2>3
  <2>5. Spots(e) = {<<q, i>>}
    BY <2>4
  <2> QED
    BY <1>2, <2>5, FS_Singleton
<1>3. CASE e \notin S
  <2>1. \A z : z \notin Spots(e)
    BY <1>0, <1>1, <1>3 DEF OnePlace
  <2>2. Spots(e) = {}
    BY <2>1
  <2> QED
    BY <1>3, <2>2, FS_EmptySet
<1> QED
  BY <1>2, <1>3

------------------------------------------------------------------------------
(* The fourth layer: the place of an event is on its route.                *)

(* What a place says about the event in it.                                *)
LEMMA RouteAt ==
  ASSUME NEW e, NEW f, NEW d, NEW h
  PROVE  /\ \A n \in Engine, p \in Level : OnRoute(Out(n, p), e, f, d, h) =>
              p = Pri[e] /\ (\/ n = f /\ d # f /\ h = 0
                             \/ n = Master /\ Far(f, d) /\ h = 1)
         /\ \A n \in Engine, p \in Level : OnRoute(In(n, p), e, f, d, h) =>
              p = Pri[e] /\ n = d /\ h = Distance(f, d)
         /\ \A n \in Engine : OnRoute(Batch(n), e, f, d, h) => n = d /\ h = Distance(f, d)
         /\ \A l \in Links : OnRoute(Bridge(l), e, f, d, h) =>
              \/ l[1] = f /\ l[2] = Master /\ f # Master /\ d # f /\ h = 1
              \/ l[1] = Master /\ l[2] = d /\ f = Master /\ d # f /\ h = 1
              \/ l[1] = Master /\ l[2] = d /\ Far(f, d) /\ h = 2
<1>1. \A n \in Engine, p \in Level : OnRoute(Out(n, p), e, f, d, h) =>
        p = Pri[e] /\ (\/ n = f /\ d # f /\ h = 0
                       \/ n = Master /\ Far(f, d) /\ h = 1)
  BY DEF OnRoute, Out
<1>2. \A n \in Engine, p \in Level : OnRoute(In(n, p), e, f, d, h) =>
        p = Pri[e] /\ n = d /\ h = Distance(f, d)
  BY DEF OnRoute, In
<1>3. \A n \in Engine : OnRoute(Batch(n), e, f, d, h) => n = d /\ h = Distance(f, d)
  BY DEF OnRoute, Batch
<1>4. \A l \in Links : OnRoute(Bridge(l), e, f, d, h) =>
        \/ l[1] = f /\ l[2] = Master /\ f # Master /\ d # f /\ h = 1
        \/ l[1] = Master /\ l[2] = d /\ f = Master /\ d # f /\ h = 1
        \/ l[1] = Master /\ l[2] = d /\ Far(f, d) /\ h = 2
  BY DEF OnRoute, Bridge
<1> QED
  BY <1>1, <1>2, <1>3, <1>4

(* Where the events are after a move: the moved ones in queue r, the       *)
(* others where they were.                                                 *)
LEMMA MovedPlaces ==
  ASSUME NEW C, NEW S, OnePlace(C, S), NEW D, NEW q, NEW r, NEW k, Moved(C, D, q, r, k)
  PROVE  \A x \in Queues : \A i \in 1..Len(D[x]) :
           \/ x = r /\ i > Len(C[r]) /\ \E j \in 1..k : j \in 1..Len(C[q]) /\ D[x][i] = C[q][j]
           \/ /\ \A j \in 1..k : D[x][i] # C[q][j]
              /\ \E j \in 1..Len(C[x]) : D[x][i] = C[x][j] /\ j = IF x = q THEN i + k ELSE i
<1>0. C \in [Queues -> Seq(Event)]
  BY DEF OnePlace
<1>1. /\ \A y \in Queues : Len(C[y]) \in Nat /\ Len(D[y]) \in Nat
      /\ k \in Nat /\ q \in Queues /\ r \in Queues /\ q # r /\ k <= Len(C[q])
  BY <1>0 DEF Moved
<1>2. \A x, y \in Queues : \A i \in 1..Len(C[x]), j \in 1..Len(C[y]) :
        C[x][i] = C[y][j] => x = y /\ i = j
  BY DEF OnePlace
<1> TAKE x \in Queues
<1> TAKE i \in 1..Len(D[x])
<1> DEFINE X == OldQueue(C, q, r, x, i)
           I == OldIndex(C, q, r, k, x, i)
<1>3. X \in Queues /\ I \in 1..Len(C[X]) /\ C[X][I] = D[x][i]
  BY <1>0, MovedFrom
<1>4. CASE WasMoved(C, r, x, i)
  <2>1. X = q /\ I = i - Len(C[r]) /\ x = r /\ i > Len(C[r])
    BY <1>4 DEF OldQueue, OldIndex, WasMoved
  <2>2. I \in 1..k
    BY <1>1, <2>1 DEF Moved
  <2> HIDE DEF X, I
  <2> QED
    BY <1>3, <2>1, <2>2
<1>5. CASE ~WasMoved(C, r, x, i)
  <2>1. X = x /\ I = IF x = q THEN i + k ELSE i
    BY <1>5 DEF OldQueue, OldIndex, WasMoved
  <2> HIDE DEF X, I
  <2>2. ASSUME NEW j \in 1..k PROVE D[x][i] # C[q][j]
    <3>1. j \in 1..Len(C[q]) /\ ~(x = q /\ I = j)
      BY <1>1, <2>1
    <3> QED
      BY <1>1, <1>2, <1>3, <2>1, <3>1
  <2> QED
    BY <1>3, <2>1, <2>2
<1> QED
  BY <1>4, <1>5

(* The parts of Routing.                                                   *)
DstOK == \A e \in Event : dst[e] = To[e] \/ (To[e] = NoDst /\ dst[e] \in Range(Workers))
NewOK == \A e \in Event \ sent : dst[e] = To[e] /\ hop[e] = 0
DoneOK == \A e \in handled : dst[e] # NoDst /\ hop[e] = Distance(From[e], dst[e])
At(x, e) == OnRoute(x, e, From[e], dst[e], hop[e])
PlacesOK == \A x \in Queues : \A i \in 1..Len(Content[x]) : At(x, Content[x][i])

LEMMA RoutingParts == Routing <=> DstOK /\ NewOK /\ DoneOK /\ PlacesOK
  BY DEF Routing, DstOK, NewOK, DoneOK, PlacesOK, At

LEMMA SentRouting ==
  ASSUME TypeOK, PlaceInv, Routing, NEW e \in Event, SentStep(e)
  PROVE  Routing'
<1> DEFINE C == Content
           D == Content'
           t == Target(From[e], e, To[e] = From[e])
<1>1. DstOK /\ NewOK /\ DoneOK /\ PlacesOK
  BY RoutingParts
<1>2. UNCHANGED <<dst, hop, handled>> /\ sent' = sent \cup {e} /\ e \notin sent
  BY DEF SentStep
<1>3. DstOK' /\ NewOK' /\ DoneOK'
  BY <1>1, <1>2 DEF DstOK, NewOK, DoneOK
<1>4. /\ t \in Queues /\ \A x \in Queues \ {t} : D[x] = C[x]
      /\ Len(D[t]) = Len(C[t]) + 1
      /\ \A i \in 1..Len(C[t]) : D[t][i] = C[t][i]
      /\ D[t][Len(C[t]) + 1] = e
  BY DEF SentStep, Added
<1>5. C \in [Queues -> Seq(Event)]
  BY DEF PlaceInv, OnePlace
<1>6. At(t, e)
  <2>1. dst[e] = To[e] /\ hop[e] = 0
    BY <1>1, <1>2 DEF NewOK
  <2> QED
    BY <2>1 DEF At, OnRoute, Target, In, Out, Distance
<1>7. ASSUME NEW x \in Queues, NEW i \in 1..Len(D[x]) PROVE At(x, D[x][i])
  <2> HIDE DEF C, D, t
  <2>1. Len(C[x]) \in Nat /\ Len(C[t]) \in Nat
    BY <1>4, <1>5
  <2>2. CASE x = t /\ i = Len(C[t]) + 1
    BY <1>4, <1>6, <2>2
  <2>3. CASE ~(x = t /\ i = Len(C[t]) + 1)
    <3>1. i \in 1..Len(C[x]) /\ D[x][i] = C[x][i]
      BY <1>4, <2>1, <2>3
    <3>2. At(x, C[x][i])
      BY <1>1, <3>1 DEF PlacesOK, C
    <3> QED
      BY <3>1, <3>2
  <2> QED
    BY <2>2, <2>3
<1>8. \A x, d : At(x, d)' <=> At(x, d)
  BY <1>2 DEF At
<1>9. PlacesOK'
  BY <1>2, <1>7, <1>8 DEF PlacesOK, At
<1> QED
  BY <1>3, <1>9 DEF Routing, DstOK, NewOK, DoneOK, PlacesOK, At

(* A move that changes no event keeps Routing if the events moved are on   *)
(* their route in the new queue.                                           *)
LEMMA MoveRouting ==
  ASSUME PlaceInv, Routing, NEW q, NEW r, NEW k, Moved(Content, Content', q, r, k),
         UNCHANGED <<dst, hop, sent, handled>>,
         \A j \in 1..k : At(r, Content[q][j])
  PROVE  Routing'
<1> DEFINE C == Content
           D == Content'
<1>1. DstOK /\ NewOK /\ DoneOK /\ PlacesOK
  BY RoutingParts
<1>2. DstOK' /\ NewOK' /\ DoneOK'
  BY <1>1 DEF DstOK, NewOK, DoneOK
<1>3. OnePlace(C, sent \ handled) /\ Moved(C, D, q, r, k)
  BY DEF PlaceInv
<1>4. ASSUME NEW x \in Queues, NEW i \in 1..Len(D[x]) PROVE At(x, D[x][i])
  <2> HIDE DEF C, D
  <2>1. \/ x = r /\ \E j \in 1..k : D[x][i] = C[q][j]
        \/ \E j \in 1..Len(C[x]) : D[x][i] = C[x][j]
    BY <1>3, MovedPlaces
  <2>2. ASSUME NEW j \in 1..Len(C[x]) PROVE At(x, C[x][j])
    BY <1>1 DEF PlacesOK, C
  <2> QED
    BY <2>1, <2>2 DEF C
<1>5. PlacesOK'
  BY <1>4 DEF PlacesOK, At
<1> QED
  BY <1>2, <1>5 DEF Routing, DstOK, NewOK, DoneOK, PlacesOK, At

LEMMA PulledRouting ==
  ASSUME TypeOK, PlaceInv, Routing, NEW n \in Engine, NEW p \in Level, NEW k \in Nat,
         PulledStep(n, p, k)
  PROVE  Routing'
<1>1. /\ Moved(Content, Content', In(n, p), Batch(n), k)
      /\ UNCHANGED <<dst, hop, sent, handled>>
  BY DEF PulledStep
<1>2. ASSUME NEW j \in 1..k PROVE At(Batch(n), Content[In(n, p)][j])
  <2> DEFINE e == Content[In(n, p)][j]
  <2>1. In(n, p) \in Queues /\ j \in 1..Len(Content[In(n, p)])
    BY <1>1 DEF Moved, PlaceInv, OnePlace
  <2>2. At(In(n, p), e)
    BY <2>1, RoutingParts DEF PlacesOK
  <2> HIDE DEF e
  <2>3. n = dst[e] /\ hop[e] = Distance(From[e], dst[e])
    <3>1. OnRoute(In(n, p), e, From[e], dst[e], hop[e])
      BY <2>2 DEF At
    <3> QED
      BY ONLY <3>1 DEF OnRoute, In
  <2>4. At(Batch(n), e)
    BY <2>3 DEF At, OnRoute, Batch
  <2> QED
    BY <2>4 DEF e
<1> QED
  BY <1>1, <1>2, MoveRouting

LEMMA CopiedRouting ==
  ASSUME TypeOK, PlaceInv, Routing, NEW n \in Engine, NEW l \in Links, NEW e \in Event,
         CopiedStep(n, l, e)
  PROVE  Routing'
<1> DEFINE t == Target(n, e, dst[e] = n)
<1>1. /\ Moved(Content, Content', Bridge(l), t, 1)
      /\ UNCHANGED <<dst, hop, sent, handled>>
      /\ l[2] = n /\ e = Content[Bridge(l)][1]
  BY DEF CopiedStep
<1>2. Bridge(l) \in Queues /\ 1 \in 1..Len(Content[Bridge(l)])
  BY <1>1 DEF Moved
<1>3. At(Bridge(l), e)
  BY <1>1, <1>2, RoutingParts DEF PlacesOK
<1>4. \/ l[1] = From[e] /\ n = Master /\ From[e] # Master /\ dst[e] # From[e] /\ hop[e] = 1
      \/ l[1] = Master /\ n = dst[e] /\ From[e] = Master /\ dst[e] # From[e] /\ hop[e] = 1
      \/ l[1] = Master /\ n = dst[e] /\ Far(From[e], dst[e]) /\ hop[e] = 2
  <2>1. OnRoute(Bridge(l), e, From[e], dst[e], hop[e])
    BY <1>3 DEF At
  <2> DEFINE f == From[e]
             d == dst[e]
             h == hop[e]
  <2>2. l[2] = n
    BY <1>1
  <2> HIDE DEF f, d, h
  <2>3. OnRoute(Bridge(l), e, f, d, h)
    BY <2>1 DEF f, d, h
  <2>4. \/ l[1] = f /\ l[2] = Master /\ f # Master /\ d # f /\ h = 1
        \/ l[1] = Master /\ l[2] = d /\ f = Master /\ d # f /\ h = 1
        \/ l[1] = Master /\ l[2] = d /\ Far(f, d) /\ h = 2
    BY <2>3, RouteAt
  <2> QED
    BY <2>2, <2>4 DEF f, d, h
<1>5. At(t, e)
  <2>1. CASE dst[e] = n
    <3>1. hop[e] = Distance(From[e], dst[e])
      BY <1>4, <2>1 DEF Distance, Far
    <3> QED
      BY <2>1, <3>1 DEF At, OnRoute, Target, In
  <2>2. CASE dst[e] # n
    BY <1>4, <2>2 DEF At, OnRoute, Target, Out, Far
  <2> QED
    BY <2>1, <2>2
<1> HIDE DEF t
<1>6. \A j \in 1..1 : At(t, Content[Bridge(l)][j])
  BY <1>1, <1>5
<1> QED
  BY <1>1, <1>6, MoveRouting

LEMMA RunRouting ==
  ASSUME TypeOK, PlaceInv, Routing, NEW n \in Engine, NEW e \in Event, RunStep(n, e)
  PROVE  Routing'
<1> DEFINE C == Content
           D == Content'
           b == Batch(n)
<1>1. DstOK /\ NewOK /\ DoneOK /\ PlacesOK
  BY RoutingParts
<1>2. /\ UNCHANGED <<dst, hop, sent>> /\ handled' = handled \cup {e}
      /\ Removed(C, D, b) /\ e = C[b][1] /\ dst[e] = n
  BY DEF RunStep
<1>3. C \in [Queues -> Seq(Event)] /\ b \in Queues
  BY <1>2 DEF PlaceInv, OnePlace, Removed
<1>4. At(b, e)
  BY <1>1, <1>2, <1>3 DEF PlacesOK, Removed
<1>5. hop[e] = Distance(From[e], dst[e]) /\ dst[e] # NoDst
  <2>1. OnRoute(Batch(n), e, From[e], dst[e], hop[e])
    BY <1>4 DEF At
  <2>2. hop[e] = Distance(From[e], dst[e])
    BY <2>1, RouteAt, SMTT(60)
  <2> QED
    BY <1>2, <2>2, Topology
<1>6. DstOK' /\ NewOK' /\ DoneOK'
  BY <1>1, <1>2, <1>5 DEF DstOK, NewOK, DoneOK
<1>7. ASSUME NEW x \in Queues, NEW i \in 1..Len(D[x]) PROVE At(x, D[x][i])
  <2> HIDE DEF C, D, b
  <2>1. Len(C[x]) \in Nat /\ Len(D[b]) \in Nat
    BY <1>2, <1>3 DEF Removed
  <2>2. \E j \in 1..Len(C[x]) : D[x][i] = C[x][j]
    <3>1. CASE x = b
      BY <1>2, <2>1, <3>1, SMTT(60) DEF Removed
    <3>2. CASE x # b
      BY <1>2, <3>2 DEF Removed
    <3> QED
      BY <3>1, <3>2
  <2>3. \A j \in 1..Len(C[x]) : At(x, C[x][j])
    BY <1>1 DEF PlacesOK, C
  <2> QED
    BY <2>2, <2>3
<1>8. PlacesOK'
  BY <1>2, <1>7 DEF PlacesOK, At
<1> QED
  BY <1>6, <1>8 DEF Routing, DstOK, NewOK, DoneOK, PlacesOK, At

LEMMA PushedRouting ==
  ASSUME TypeOK, SlotInv, PlaceInv, Routing, NEW n \in Engine, NEW p \in Level,
         NEW e \in Event, NEW l \in Links, PushedStep(n, p, e, l)
  PROVE  Routing'
<1> DEFINE C == Content
           D == Content'
           q == Out(n, p)
           d == dst'[e]
<1>1. DstOK /\ NewOK /\ DoneOK /\ PlacesOK
  BY RoutingParts
<1>2. /\ Moved(C, D, q, Bridge(l), 1) /\ e = C[q][1] /\ l = Route(n, e)
      /\ UNCHANGED <<sent, handled>> /\ OnePlace(C, sent \ handled)
  BY DEF PushedStep, PlaceInv
<1>3. /\ \A x \in Event : x # e => dst'[x] = dst[x] /\ hop'[x] = hop[x]
      /\ d = IF dst[e] = NoDst THEN l[2] ELSE dst[e]
      /\ hop'[e] = hop[e] + 1
  BY DEF PushedStep, TypeOK
<1>4. q \in Queues /\ 1 \in 1..Len(C[q])
  BY <1>2 DEF Moved
<1>5. e \in sent /\ e \notin handled
  <2> HIDE DEF C, q
  <2> QED
    BY <1>2, <1>4 DEF OnePlace
<1>6. p = Pri[e] /\ (\/ n = From[e] /\ dst[e] # From[e] /\ hop[e] = 0
                     \/ n = Master /\ Far(From[e], dst[e]) /\ hop[e] = 1)
  <2>1. At(q, e)
    BY <1>1, <1>2, <1>4 DEF PlacesOK
  <2> QED
    BY <2>1, RouteAt, SMTT(60) DEF At
<1>7. dst[e] = NoDst => From[e] = Master /\ To[e] = NoDst
  BY <1>1, SchedAssumption, Topology DEF DstOK, Engine
<1>8. dst[e] \in Engine \cup {NoDst} /\ From[e] \in Engine
  BY SchedAssumption DEF TypeOK
<1>9. /\ l[1] = n /\ l[2] \in Engine
      /\ n # Master => l[2] = Master
      /\ n = Master /\ dst[e] \in Range(BridgeTbl) => l[2] = dst[e]
      /\ n = Master /\ dst[e] \notin Range(BridgeTbl) =>
           l[2] \in Range(Workers) /\ l[2] # Master
  <2>1. /\ l \in Links /\ l[1] = n /\ (n # Master => l[2] = Master)
        /\ n = Master /\ dst[e] \in Range(BridgeTbl) => l[2] = dst[e]
        /\ n = Master /\ dst[e] \notin Range(BridgeTbl) =>
             /\ RoundRobin \in 1..Len(Workers)
             /\ l[2] = Workers[RoundRobin]
    BY <1>2, RouteIs
  <2> QED
    BY <2>1, Topology, LinkShape
<1>10. dst[e] # Master /\ dst[e] \notin Range(BridgeTbl) => dst[e] = NoDst
  BY <1>8 DEF Engine
<1>11. DstOK'
  <2>1. dst[e] = NoDst => To[e] = NoDst /\ d \in Range(Workers)
    <3>1. dst[e] = NoDst => dst[e] \notin Range(BridgeTbl)
      BY Topology DEF Engine
    <3>2. dst[e] = NoDst => n = Master
      BY <1>6, <1>7 DEF Far
    <3> QED
      BY <1>3, <1>7, <1>9, <3>1, <3>2
  <2>2. ASSUME NEW x \in Event
        PROVE  dst'[x] = To[x] \/ (To[x] = NoDst /\ dst'[x] \in Range(Workers))
    BY <1>1, <1>3, <2>1 DEF DstOK
  <2> QED
    BY <2>2 DEF DstOK
<1>12. NewOK' /\ DoneOK'
  <2>1. \A x \in Event \ sent : dst'[x] = To[x] /\ hop'[x] = 0
    BY <1>1, <1>3, <1>5 DEF NewOK
  <2>2. \A x \in handled : dst'[x] # NoDst /\ hop'[x] = Distance(From[x], dst'[x])
    BY <1>1, <1>3, <1>5 DEF DoneOK, TypeOK
  <2> QED
    BY <1>2, <2>1, <2>2 DEF NewOK, DoneOK
<1>13. OnRoute(Bridge(l), e, From[e], d, hop'[e])
  <2>1. CASE n # Master
    <3>1. l[1] = From[e] /\ l[2] = Master /\ From[e] # Master /\ d # From[e] /\ hop'[e] = 1
      BY <1>3, <1>6, <1>7, <1>9, <2>1
    <3> QED
      BY <3>1 DEF OnRoute, Bridge
  <2>2. CASE n = Master /\ n = From[e]
    <3>1. l[1] = Master /\ l[2] = d /\ d # Master /\ hop'[e] = 1
      BY <1>3, <1>6, <1>9, <1>10, <2>2, Topology DEF Far
    <3> QED
      BY <2>2, <3>1 DEF OnRoute, Bridge
  <2>3. CASE n = Master /\ n # From[e]
    <3>1. Far(From[e], dst[e]) /\ hop'[e] = 2 /\ dst[e] # NoDst
      BY <1>3, <1>6, <1>7, <2>3
    <3>2. l[1] = Master /\ l[2] = d /\ d = dst[e]
      BY <1>3, <1>9, <1>10, <2>3, <3>1 DEF Far
    <3> QED
      BY <3>1, <3>2 DEF OnRoute, Bridge
  <2> QED
    BY <2>1, <2>2, <2>3
<1>14. ASSUME NEW x \in Queues, NEW i \in 1..Len(D[x])
       PROVE  OnRoute(x, D[x][i], From[D[x][i]], dst'[D[x][i]], hop'[D[x][i]])
  <2> HIDE DEF C, D, q
  <2>1. \/ x = Bridge(l) /\ \E j \in 1..1 : D[x][i] = C[q][j]
        \/ /\ \A j \in 1..1 : D[x][i] # C[q][j]
           /\ \E j \in 1..Len(C[x]) : D[x][i] = C[x][j]
    BY <1>2, MovedPlaces
  <2>2. CASE x = Bridge(l) /\ D[x][i] = e
    BY <1>13, <2>2
  <2>3. ASSUME NEW j \in 1..Len(C[x]), D[x][i] = C[x][j], D[x][i] # e
        PROVE  OnRoute(x, D[x][i], From[D[x][i]], dst'[D[x][i]], hop'[D[x][i]])
    <3>1. C[x][j] \in Event
      BY <1>2 DEF OnePlace
    <3>2. At(x, C[x][j])
      BY <1>1 DEF PlacesOK, C
    <3> QED
      BY <1>3, <2>3, <3>1, <3>2 DEF At
  <2>4. 1 \in 1..1 /\ \A j \in 1..1 : j = 1
    OBVIOUS
  <2> QED
    BY <1>2, <2>1, <2>2, <2>3, <2>4
<1>15. PlacesOK'
  BY <1>14 DEF PlacesOK, At
<1> QED
  BY <1>11, <1>12, <1>15 DEF Routing, DstOK, NewOK, DoneOK, PlacesOK, At

LEMMA RoutingStep ==
  ASSUME BaseInv, PlaceInv, Routing, [Next]_vars
  PROVE  Routing'
<1>0. TypeOK /\ SlotInv
  BY DEF BaseInv
<1>1. StillStep => Routing'
  BY DEF StillStep, Routing
<1> QED
  BY <1>0, <1>1, TableStep, SentRouting, PushedRouting, PulledRouting, RunRouting, CopiedRouting

LEMMA RoutingInit ==
  ASSUME Init
  PROVE  Routing
<1>1. \A x \in Queues : 1..Len(Content[x]) = {}
  BY EmptyInit
<1>2. DstOK /\ NewOK /\ DoneOK
  BY DEF Init, DstOK, NewOK, DoneOK
<1>3. PlacesOK
  BY <1>1 DEF PlacesOK
<1> QED
  BY <1>2, <1>3, RoutingParts

LEMMA RoutingShortest ==
  ASSUME TypeOK, PlaceInv, Routing
  PROVE  ShortestWay
<1>0. DstOK /\ NewOK /\ DoneOK /\ PlacesOK
  BY RoutingParts
<1> SUFFICES ASSUME NEW e \in Event, dst[e] # NoDst
             PROVE  /\ hop[e] <= Distance(From[e], dst[e])
                    /\ e \in handled => hop[e] = Distance(From[e], dst[e])
  BY DEF ShortestWay
<1>1. e \in handled => hop[e] = Distance(From[e], dst[e])
  BY <1>0 DEF DoneOK
<1>2. Distance(From[e], dst[e]) \in 0..2
  BY DEF Distance
<1>3. CASE e \in handled
  BY <1>1, <1>2, <1>3
<1>4. CASE e \notin sent
  <2>1. hop[e] = 0 /\ e \notin handled
    BY <1>0, <1>4 DEF NewOK, PlaceInv
  <2> QED
    BY <1>2, <2>1
<1>5. CASE e \in sent /\ e \notin handled
  <2> DEFINE C == Content
  <2>1. PICK x \in Queues : \E i \in 1..Len(C[x]) : C[x][i] = e
    BY <1>5 DEF PlaceInv, OnePlace
  <2>2. At(x, e)
    BY <1>0, <2>1 DEF PlacesOK
  <2>3. hop[e] <= Distance(From[e], dst[e])
    BY <1>2, <2>2 DEF At, OnRoute, Distance, Far
  <2> QED
    BY <1>5, <2>3
<1> QED
  BY <1>3, <1>4, <1>5

------------------------------------------------------------------------------
(* The fifth layer: the events of a channel.                               *)

LEMMA RankIs ==
  ASSUME NEW f
  PROVE  /\ \A n \in Engine, p \in Level : Rank(Out(n, p), f) = IF n = f THEN 1 ELSE 3
         /\ \A n \in Engine, p \in Level : Rank(In(n, p), f) = 5
         /\ \A n \in Engine : Rank(Batch(n), f) = 6
         /\ \A l \in Links : Rank(Bridge(l), f) = IF l[1] = f THEN 2 ELSE 4
         /\ \A x \in Queues : Rank(x, f) \in 1..6
<1>1. \A n \in Engine, p \in Level : Rank(Out(n, p), f) = IF n = f THEN 1 ELSE 3
  BY DEF Rank, Out
<1>2. \A n \in Engine, p \in Level : Rank(In(n, p), f) = 5
  BY DEF Rank, In
<1>3. \A n \in Engine : Rank(Batch(n), f) = 6
  BY DEF Rank, Batch
<1>4. \A l \in Links : Rank(Bridge(l), f) = IF l[1] = f THEN 2 ELSE 4
  BY DEF Rank, Bridge
<1>5. ASSUME NEW x \in Queues PROVE Rank(x, f) \in 1..6
  BY <1>1, <1>2, <1>3, <1>4, QueueNames
<1> QED
  BY <1>1, <1>2, <1>3, <1>4, <1>5

(* The rank of a place on a route tells the place.                         *)
LEMMA RouteRank ==
  ASSUME NEW x, NEW e, NEW f, NEW d, NEW h, OnRoute(x, e, f, d, h)
  PROVE  \/ x = Out(f, Pri[e]) /\ Rank(x, f) = 1 /\ d # f
         \/ x = <<"bridge", f, Master>> /\ f # Master /\ Rank(x, f) = 2 /\ d # f
         \/ x = Out(Master, Pri[e]) /\ Far(f, d) /\ Rank(x, f) = 3
         \/ x = <<"bridge", Master, d>> /\ f = Master /\ d # f /\ Rank(x, f) = 2
         \/ x = <<"bridge", Master, d>> /\ Far(f, d) /\ Rank(x, f) = 4
         \/ x = In(d, Pri[e]) /\ Rank(x, f) = 5
         \/ x = Batch(d) /\ Rank(x, f) = 6
  BY DEF OnRoute, Rank, Far, In, Out, Batch

(* Queue r comes next after queue q on the route of event e.               *)
Follows(q, r, e) ==
  /\ Rank(r, From[e]) > Rank(q, From[e])
  /\ \A x \in Queues, h \in 0..MaxHop :
       OnRoute(x, e, From[e], dst[e], h) /\ Rank(x, From[e]) > Rank(q, From[e]) =>
         Rank(x, From[e]) > Rank(r, From[e]) \/ x = r

LEMMA PullFollows ==
  ASSUME NEW n \in Engine, NEW p \in Level, NEW e \in Event, At(In(n, p), e)
  PROVE  Follows(In(n, p), Batch(n), e)
<1> DEFINE f == From[e]
           d == dst[e]
<1>1. n = d
  <2>1. OnRoute(In(n, p), e, From[e], dst[e], hop[e])
    BY DEF At
  <2> QED
    BY <2>1, RouteAt
<1>2. Rank(In(n, p), f) = 5 /\ Rank(Batch(n), f) = 6
  BY RankIs
<1>3. ASSUME NEW x \in Queues, NEW h \in 0..MaxHop, OnRoute(x, e, f, d, h), Rank(x, f) > 5
      PROVE  x = Batch(n)
  <2> HIDE DEF f, d
  <2> QED
    BY <1>1, <1>3, RouteRank DEF d
<1> QED
  BY <1>2, <1>3 DEF Follows

LEMMA CopyFollows ==
  ASSUME NEW n \in Engine, NEW l \in Links, NEW e \in Event, l[2] = n, At(Bridge(l), e)
  PROVE  Follows(Bridge(l), Target(n, e, dst[e] = n), e)
<1> DEFINE f == From[e]
           d == dst[e]
           t == Target(n, e, dst[e] = n)
<1>1. \/ l[1] = f /\ n = Master /\ f # Master /\ d # f
      \/ l[1] = Master /\ n = d /\ f = Master /\ d # f
      \/ l[1] = Master /\ n = d /\ Far(f, d)
  <2>1. OnRoute(Bridge(l), e, From[e], dst[e], hop[e])
    BY DEF At
  <2> DEFINE h == hop[e]
  <2> HIDE DEF f, d, h
  <2>2. OnRoute(Bridge(l), e, f, d, h)
    BY <2>1 DEF f, d, h
  <2>3. \/ l[1] = f /\ l[2] = Master /\ f # Master /\ d # f /\ h = 1
        \/ l[1] = Master /\ l[2] = d /\ f = Master /\ d # f /\ h = 1
        \/ l[1] = Master /\ l[2] = d /\ Far(f, d) /\ h = 2
    BY <2>2, RouteAt
  <2> QED
    BY <2>3
<1>2. /\ Rank(Bridge(l), f) = IF l[1] = f THEN 2 ELSE 4
      /\ Pri[e] \in Level
  BY RankIs, SchedAssumption
<1>3. CASE d = n
  <2>1. t = In(d, Pri[e]) /\ Rank(t, f) = 5
    BY <1>2, <1>3, RankIs DEF Target
  <2>2. ASSUME NEW x \in Queues, NEW h \in 0..MaxHop, OnRoute(x, e, f, d, h),
               Rank(x, f) > Rank(Bridge(l), f)
        PROVE  Rank(x, f) > 5 \/ x = t
    <3> HIDE DEF f, d, t
    <3>1. CASE Rank(Bridge(l), f) = 2 /\ ~Far(f, d)
      BY <2>1, <2>2, <3>1, RouteRank
    <3>2. CASE Rank(Bridge(l), f) = 4
      BY <2>1, <2>2, <3>2, RouteRank
    <3> QED
      BY <1>1, <1>2, <1>3, <3>1, <3>2 DEF Far
  <2> QED
    BY <1>2, <2>1, <2>2 DEF Follows
<1>4. CASE d # n
  <2>1. n = Master /\ l[1] = f /\ f # Master
    BY <1>1, <1>4
  <2>2. t = Out(Master, Pri[e]) /\ Rank(t, f) = 3 /\ Rank(Bridge(l), f) = 2
    BY <1>2, <1>4, <2>1, RankIs DEF Target
  <2>3. ASSUME NEW x \in Queues, NEW h \in 0..MaxHop, OnRoute(x, e, f, d, h), Rank(x, f) > 2
        PROVE  Rank(x, f) > 3 \/ x = t
    <3> HIDE DEF f, d, t
    <3> QED
      BY <2>2, <2>3, RouteRank
  <2> QED
    BY <2>2, <2>3 DEF Follows
<1> QED
  BY <1>3, <1>4

LEMMA PushFollows ==
  ASSUME TypeOK, SlotInv, NEW n \in Engine, NEW p \in Level, NEW e \in Event, NEW l \in Links,
         l = Route(n, e), At(Out(n, p), e), dst[e] # NoDst
  PROVE  Follows(Out(n, p), Bridge(l), e)
<1> DEFINE f == From[e]
           d == dst[e]
<1>1. \/ n = f /\ d # f
      \/ n = Master /\ Far(f, d)
  <2>1. OnRoute(Out(n, p), e, From[e], dst[e], hop[e])
    BY DEF At
  <2> DEFINE h == hop[e]
  <2> HIDE DEF f, d, h
  <2>2. OnRoute(Out(n, p), e, f, d, h)
    BY <2>1 DEF f, d, h
  <2>3. (n = f /\ d # f /\ h = 0) \/ (n = Master /\ Far(f, d) /\ h = 1)
    BY <2>2, RouteAt
  <2> QED
    BY <2>3
<1>2. /\ Rank(Bridge(l), f) = IF l[1] = f THEN 2 ELSE 4
      /\ Rank(Out(n, p), f) = IF n = f THEN 1 ELSE 3
  BY RankIs
<1>3. d \in Engine
  BY DEF TypeOK
<1>4. /\ l[1] = n /\ n # Master => l[2] = Master
      /\ n = Master /\ d \in Range(BridgeTbl) => l[2] = d
  BY RouteIs
<1>5. n = Master => l[2] = d
  BY <1>1, <1>3, <1>4 DEF Far, Engine
<1>6. l[1] = n
  BY RouteIs
<1>7. ASSUME NEW x \in Queues, NEW h \in 0..MaxHop, OnRoute(x, e, f, d, h),
             Rank(x, f) > Rank(Out(n, p), f)
      PROVE  Rank(x, f) > Rank(Bridge(l), f) \/ x = Bridge(l)
  <2> HIDE DEF f, d
  <2>1. CASE n = f
    <3>1. Bridge(l) = IF f = Master THEN <<"bridge", Master, d>> ELSE <<"bridge", f, Master>>
      BY <1>4, <1>5, <1>6, <2>1 DEF Bridge
    <3>2. Rank(x, f) > 1 /\ Rank(Bridge(l), f) = 2
      BY <1>2, <1>6, <1>7, <2>1
    <3> QED
      BY <1>7, <3>1, <3>2, RouteRank DEF Far
  <2>2. CASE n # f
    <3>1. Bridge(l) = <<"bridge", Master, d>> /\ n = Master
      BY <1>1, <1>5, <1>6, <2>2 DEF Bridge
    <3>2. Rank(x, f) > 3 /\ Rank(Bridge(l), f) = 4
      BY <1>2, <1>6, <1>7, <2>2
    <3> QED
      BY <1>7, <3>1, <3>2, RouteRank
  <2> QED
    BY <2>1, <2>2
<1>8. Rank(Bridge(l), f) > Rank(Out(n, p), f)
  BY <1>2, <1>6
<1> QED
  BY <1>7, <1>8 DEF Follows

(* In queues C, event d of a channel from f is ahead of event e.           *)
Ahead(C, f, d, e) ==
  \A x, y \in Queues : \A i \in 1..Len(C[x]), j \in 1..Len(C[y]) :
    C[x][i] = d /\ C[y][j] = e => Rank(x, f) > Rank(y, f) \/ (x = y /\ i < j)

Channel(d, e) == Earlier(d, e) /\ To[e] # NoDst

LEMMA OrderParts ==
  Order <=> \A d, e \in Event : Channel(d, e) =>
              /\ e \in sent => d \in sent
              /\ e \in handled => d \in handled
              /\ Ahead(Content, From[e], d, e)
  BY DEF Order, Channel, Ahead

(* A move to the next queue of the route keeps the order: an event that    *)
(* is overtaken would have to be behind its successor in queue q.          *)
LEMMA MoveAhead ==
  ASSUME NEW C, NEW S, OnePlace(C, S), NEW D, NEW q, NEW r, NEW k, Moved(C, D, q, r, k),
         NEW f, NEW d \in Event, NEW e \in Event, Ahead(C, f, d, e),
         \A j \in 1..k : C[q][j] \in {d, e} => Rank(r, f) > Rank(q, f),
         \A x \in Queues : \A i \in 1..Len(C[x]), j \in 1..k :
           C[x][i] = d /\ C[q][j] = e /\ Rank(x, f) > Rank(q, f) =>
             Rank(x, f) > Rank(r, f) \/ x = r
  PROVE  Ahead(D, f, d, e)
<1>0. C \in [Queues -> Seq(Event)]
  BY DEF OnePlace
<1>1. /\ \A y \in Queues : Len(C[y]) \in Nat /\ Len(D[y]) \in Nat
      /\ k \in Nat /\ q \in Queues /\ r \in Queues /\ q # r /\ k <= Len(C[q])
      /\ Len(D[r]) = Len(C[r]) + k
  BY <1>0 DEF Moved
<1>2. \A x \in Queues : Rank(x, f) \in Int
  <2>1. \A x \in Queues : Rank(x, f) \in 1..6
    BY RankIs
  <2> QED
    BY <2>1
<1> SUFFICES ASSUME NEW x \in Queues, NEW y \in Queues,
                    NEW i \in 1..Len(D[x]), NEW j \in 1..Len(D[y]),
                    D[x][i] = d, D[y][j] = e
             PROVE  Rank(x, f) > Rank(y, f) \/ (x = y /\ i < j)
  BY DEF Ahead
<1> DEFINE X == OldQueue(C, q, r, x, i)
           I == OldIndex(C, q, r, k, x, i)
           Y == OldQueue(C, q, r, y, j)
           J == OldIndex(C, q, r, k, y, j)
<1>3. X \in Queues /\ I \in 1..Len(C[X]) /\ C[X][I] = d
  BY <1>0, MovedFrom
<1>4. Y \in Queues /\ J \in 1..Len(C[Y]) /\ C[Y][J] = e
  BY <1>0, MovedFrom
<1>5. /\ WasMoved(C, r, x, i) => X = q /\ I = i - Len(C[r]) /\ x = r /\ I \in 1..k
      /\ ~WasMoved(C, r, x, i) =>
           X = x /\ I = (IF x = q THEN i + k ELSE i) /\ (x = r => i <= Len(C[r]))
  <2>1. CASE WasMoved(C, r, x, i)
    <3>1. X = q /\ I = i - Len(C[r]) /\ x = r /\ i > Len(C[r])
      BY <2>1 DEF OldQueue, OldIndex, WasMoved
    <3>2. i \in 1..Len(C[r]) + k
      BY <1>1, <3>1
    <3> HIDE DEF X, I
    <3> QED
      BY <1>1, <2>1, <3>1, <3>2, SMTT(60)
  <2>2. CASE ~WasMoved(C, r, x, i)
    <3>1. X = x /\ I = (IF x = q THEN i + k ELSE i)
      BY <2>2 DEF OldQueue, OldIndex, WasMoved
    <3>2. x = r => i <= Len(C[r])
      BY <1>1, <2>2 DEF WasMoved
    <3> QED
      BY <2>2, <3>1, <3>2
  <2> QED
    BY <2>1, <2>2
<1>6. /\ WasMoved(C, r, y, j) => Y = q /\ J = j - Len(C[r]) /\ y = r /\ J \in 1..k
      /\ ~WasMoved(C, r, y, j) =>
           Y = y /\ J = (IF y = q THEN j + k ELSE j) /\ (y = r => j <= Len(C[r]))
  <2>1. CASE WasMoved(C, r, y, j)
    <3>1. Y = q /\ J = j - Len(C[r]) /\ y = r /\ j > Len(C[r])
      BY <2>1 DEF OldQueue, OldIndex, WasMoved
    <3>2. j \in 1..Len(C[r]) + k
      BY <1>1, <3>1
    <3> HIDE DEF Y, J
    <3> QED
      BY <1>1, <2>1, <3>1, <3>2
  <2>2. CASE ~WasMoved(C, r, y, j)
    <3>1. Y = y /\ J = (IF y = q THEN j + k ELSE j)
      BY <2>2 DEF OldQueue, OldIndex, WasMoved
    <3>2. y = r => j <= Len(C[r])
      BY <1>1, <2>2 DEF WasMoved
    <3> QED
      BY <2>2, <3>1, <3>2
  <2> QED
    BY <2>1, <2>2
<1> HIDE DEF X, I, Y, J
<1>7. Rank(X, f) > Rank(Y, f) \/ (X = Y /\ I < J)
  BY <1>3, <1>4 DEF Ahead
<1>8. CASE WasMoved(C, r, x, i) /\ WasMoved(C, r, y, j)
  <2>1. X = q /\ Y = q /\ x = r /\ y = r /\ I = i - Len(C[r]) /\ J = j - Len(C[r])
    BY <1>5, <1>6, <1>8
  <2> QED
    BY <1>1, <1>2, <1>7, <2>1
<1>9. CASE WasMoved(C, r, x, i) /\ ~WasMoved(C, r, y, j)
  <2>1. X = q /\ I \in 1..k /\ x = r /\ Y = y
    BY <1>5, <1>6, <1>9
  <2>2. Rank(r, f) > Rank(q, f)
    BY <1>3, <2>1
  <2>3. Rank(q, f) > Rank(y, f) \/ q = y
    BY <1>7, <2>1
  <2> QED
    BY <1>1, <1>2, <2>1, <2>2, <2>3
<1>10. CASE ~WasMoved(C, r, x, i) /\ WasMoved(C, r, y, j)
  <2>1. X = x /\ I = (IF x = q THEN i + k ELSE i) /\ (x = r => i <= Len(C[r]))
    BY <1>5, <1>10
  <2>2. Y = q /\ J = j - Len(C[r]) /\ y = r /\ J \in 1..k /\ j > Len(C[r])
    BY <1>6, <1>10 DEF WasMoved
  <2>3. ~(X = Y /\ I < J)
    BY <1>1, <2>1, <2>2
  <2>4. Rank(x, f) > Rank(q, f)
    BY <1>7, <2>1, <2>2, <2>3
  <2>5. Rank(x, f) > Rank(r, f) \/ x = r
    BY <1>3, <1>4, <2>1, <2>2, <2>4
  <2> QED
    BY <1>1, <2>1, <2>2, <2>5
<1>11. CASE ~WasMoved(C, r, x, i) /\ ~WasMoved(C, r, y, j)
  <2>1. /\ X = x /\ I = (IF x = q THEN i + k ELSE i)
        /\ Y = y /\ J = (IF y = q THEN j + k ELSE j)
    BY <1>5, <1>6, <1>11
  <2> QED
    BY <1>1, <1>7, <2>1
<1> QED
  BY <1>8, <1>9, <1>10, <1>11

(* Events of a channel have the same route.                                *)
LEMMA SameRoute ==
  ASSUME Routing, NEW d \in Event, NEW e \in Event, Channel(d, e)
  PROVE  /\ From[d] = From[e] /\ Pri[d] = Pri[e]
         /\ dst[d] = To[e] /\ dst[e] = To[e] /\ To[d] = To[e] /\ To[e] # NoDst
         /\ \A x, h : OnRoute(x, d, From[d], dst[d], h) <=> OnRoute(x, e, From[e], dst[e], h)
<1>1. From[d] = From[e] /\ Pri[d] = Pri[e] /\ To[d] = To[e] /\ To[e] # NoDst
  BY DEF Channel, Earlier
<1>2. dst[d] = To[e] /\ dst[e] = To[e]
  BY <1>1 DEF Routing
<1>3. \A x, h : OnRoute(x, d, From[d], dst[d], h) <=> OnRoute(x, e, From[e], dst[e], h)
  BY <1>1, <1>2 DEF OnRoute
<1> QED
  BY <1>1, <1>2, <1>3

LEMMA MoveOrder ==
  ASSUME TypeOK, PlaceInv, Routing, Order, NEW q, NEW r, NEW k,
         Moved(Content, Content', q, r, k), UNCHANGED <<sent, handled>>,
         \A j \in 1..k : To[Content[q][j]] # NoDst => Follows(q, r, Content[q][j])
  PROVE  Order'
<1> DEFINE C == Content
           D == Content'
<1>1. OnePlace(C, sent \ handled) /\ Moved(C, D, q, r, k)
  BY DEF PlaceInv
<1>2. ASSUME NEW d \in Event, NEW e \in Event, Channel(d, e)
      PROVE  Ahead(D, From[e], d, e)
  <2> DEFINE f == From[e]
  <2>1. Ahead(C, f, d, e)
    BY <1>2, OrderParts
  <2>2. /\ From[d] = f /\ dst[d] = dst[e] /\ To[d] # NoDst /\ To[e] # NoDst
        /\ \A x, h : OnRoute(x, d, From[d], dst[d], h) <=> OnRoute(x, e, f, dst[e], h)
    BY <1>2, SameRoute
  <2>3. \A j \in 1..k : C[q][j] \in {d, e} => Follows(q, r, C[q][j]) /\ From[C[q][j]] = f
    BY <2>2
  <2> HIDE DEF f, C, D
  <2>4. \A j \in 1..k : C[q][j] \in {d, e} => Rank(r, f) > Rank(q, f)
    BY <2>3 DEF Follows
  <2>5. ASSUME NEW x \in Queues, NEW i \in 1..Len(C[x]), NEW j \in 1..k,
               C[x][i] = d, C[q][j] = e, Rank(x, f) > Rank(q, f)
        PROVE  Rank(x, f) > Rank(r, f) \/ x = r
    <3>1. At(x, d)
      BY <2>5, RoutingParts DEF PlacesOK, C
    <3>2. OnRoute(x, e, f, dst[e], hop[d]) /\ hop[d] \in 0..MaxHop
      BY <2>2, <3>1 DEF At, TypeOK
    <3>3. Follows(q, r, e)
      BY <2>3, <2>5
    <3> QED
      BY <2>5, <3>2, <3>3 DEF Follows, f
  <2> QED
    <3>1. \A x \in Queues : \A i \in 1..Len(C[x]), j \in 1..k :
            C[x][i] = d /\ C[q][j] = e /\ Rank(x, f) > Rank(q, f) =>
              Rank(x, f) > Rank(r, f) \/ x = r
      BY <2>5
    <3>2. Ahead(D, f, d, e)
      BY <1>1, <2>1, <2>4, <3>1, MoveAhead
    <3> QED
      BY <3>2 DEF f
<1>3. \A d, e \in Event : Channel(d, e) => /\ e \in sent => d \in sent
                                           /\ e \in handled => d \in handled
  BY OrderParts
<1>4. \A d, e \in Event : Channel(d, e) =>
        /\ e \in sent' => d \in sent'
        /\ e \in handled' => d \in handled'
        /\ Ahead(D, From[e], d, e)
  BY <1>2, <1>3
<1> QED
  BY <1>4 DEF Order, Channel, Ahead

LEMMA SentOrder ==
  ASSUME TypeOK, PlaceInv, Routing, Order, NEW b \in Event, SentStep(b)
  PROVE  Order'
<1> DEFINE C == Content
           D == Content'
           t == Target(From[b], b, To[b] = From[b])
<1>1. /\ b \notin sent /\ sent' = sent \cup {b} /\ handled' = handled
      /\ \A d \in Event : Earlier(d, b) => d \in sent
  BY DEF SentStep
<1>2. /\ t \in Queues /\ \A x \in Queues \ {t} : D[x] = C[x]
      /\ Len(D[t]) = Len(C[t]) + 1
      /\ \A i \in 1..Len(C[t]) : D[t][i] = C[t][i]
      /\ D[t][Len(C[t]) + 1] = b
  BY DEF SentStep, Added
<1>3. /\ OnePlace(C, sent \ handled) /\ handled \subseteq sent
      /\ \A x \in Queues : Len(C[x]) \in Nat
  BY DEF PlaceInv, OnePlace
<1>4. \A d, e \in Event : Channel(d, e) =>
        /\ e \in sent => d \in sent
        /\ e \in handled => d \in handled
        /\ Ahead(C, From[e], d, e)
  BY OrderParts
<1>5. ASSUME NEW x \in Queues, NEW i \in 1..Len(D[x])
      PROVE  \/ x = t /\ i = Len(C[t]) + 1 /\ D[x][i] = b
             \/ i \in 1..Len(C[x]) /\ D[x][i] = C[x][i] /\ D[x][i] \in sent
  <2> HIDE DEF C, D, t
  <2>1. CASE x = t /\ i = Len(C[t]) + 1
    BY <1>2, <2>1
  <2>2. CASE ~(x = t /\ i = Len(C[t]) + 1)
    <3>1. i \in 1..Len(C[x]) /\ D[x][i] = C[x][i]
      BY <1>2, <1>3, <2>2
    <3>2. C[x][i] \in Event /\ C[x][i] \in sent
      BY <1>3, <3>1 DEF OnePlace
    <3> QED
      BY <3>1, <3>2
  <2> QED
    BY <2>1, <2>2
<1>6. ASSUME NEW d \in Event, NEW e \in Event, Channel(d, e)
      PROVE  Ahead(D, From[e], d, e)
  <2> SUFFICES ASSUME NEW x \in Queues, NEW y \in Queues,
                      NEW i \in 1..Len(D[x]), NEW j \in 1..Len(D[y]),
                      D[x][i] = d, D[y][j] = e
               PROVE  Rank(x, From[e]) > Rank(y, From[e]) \/ (x = y /\ i < j)
    BY DEF Ahead
  <2> HIDE DEF C, D, t
  <2>1. d # e
    <3>1. d < e /\ d \in Nat /\ e \in Nat
      BY <1>6, SchedAssumption DEF Channel, Earlier
    <3> QED
      BY <3>1
  <2>2. CASE d # b /\ e # b
    <3>1. /\ i \in 1..Len(C[x]) /\ C[x][i] = d
          /\ j \in 1..Len(C[y]) /\ C[y][j] = e
      BY <1>5, <2>2
    <3> QED
      BY <1>4, <1>6, <3>1 DEF Ahead
  <2>3. CASE d = b
    <3>1. e \in sent
      BY <1>5, <2>1, <2>3
    <3> QED
      BY <1>1, <1>4, <1>6, <2>3, <3>1
  <2>4. CASE e = b
    <3>1. y = t /\ j = Len(C[t]) + 1
      BY <1>1, <1>5, <2>4
    <3>2. i \in 1..Len(C[x]) /\ C[x][i] = d
      BY <1>5, <2>1, <2>4
    <3>3. OnRoute(x, e, From[e], dst[e], hop[d]) /\ dst[e] = To[e] /\ From[e] \in Engine
      <4>1. At(x, d)
        BY <3>2, RoutingParts DEF PlacesOK, C
      <4> QED
        BY <1>6, <4>1, SameRoute, SchedAssumption DEF At
    <3>4. Pri[e] \in Level
      BY SchedAssumption
    <3>5. CASE To[e] = From[e]
      <4>1. t = In(To[e], Pri[e]) /\ Rank(t, From[e]) = 5
        <5>1. t = In(From[e], Pri[e])
          BY <2>4, <3>5 DEF t, Target
        <5>2. Rank(In(From[e], Pri[e]), From[e]) = 5
          BY <3>3, <3>4, RankIs
        <5> QED
          BY <3>5, <5>1, <5>2
      <4>2. x = In(To[e], Pri[e]) \/ Rank(x, From[e]) = 6
        BY <3>3, <3>5, RouteRank DEF Far
      <4> QED
        BY <1>3, <3>1, <3>2, <4>1, <4>2
    <3>6. CASE To[e] # From[e]
      <4>1. t = Out(From[e], Pri[e]) /\ Rank(t, From[e]) = 1
        <5>1. t = Out(From[e], Pri[e])
          BY <2>4, <3>6 DEF t, Target
        <5>2. Rank(Out(From[e], Pri[e]), From[e]) = 1
          BY <3>3, <3>4, RankIs
        <5> QED
          BY <3>6, <5>1, <5>2
      <4>2. x = Out(From[e], Pri[e]) \/ Rank(x, From[e]) > 1
        BY <3>3, RouteRank
      <4> QED
        BY <1>3, <3>1, <3>2, <4>1, <4>2
    <3> QED
      BY <3>5, <3>6
  <2> QED
    BY <2>2, <2>3, <2>4
<1>7. \A d, e \in Event : Channel(d, e) =>
        /\ e \in sent' => d \in sent'
        /\ e \in handled' => d \in handled'
        /\ Ahead(D, From[e], d, e)
  BY <1>1, <1>4, <1>6 DEF Channel
<1> QED
  BY <1>7 DEF Order, Channel, Ahead

LEMMA RunOrder ==
  ASSUME TypeOK, PlaceInv, Routing, Order, NEW n \in Engine, NEW b \in Event, RunStep(n, b)
  PROVE  Order'
<1> DEFINE C == Content
           D == Content'
           q == Batch(n)
<1>1. sent' = sent /\ handled' = handled \cup {b} /\ Removed(C, D, q) /\ b = C[q][1]
  BY DEF RunStep
<1>2. /\ OnePlace(C, sent \ handled) /\ handled \subseteq sent
      /\ \A x \in Queues : Len(C[x]) \in Nat
  BY DEF PlaceInv, OnePlace
<1>3. \A d, e \in Event : Channel(d, e) =>
        /\ e \in sent => d \in sent
        /\ e \in handled => d \in handled
        /\ Ahead(C, From[e], d, e)
  BY OrderParts
<1>4. q \in Queues /\ 1 \in 1..Len(C[q])
  BY <1>1, <1>2 DEF Removed
<1>5. ASSUME NEW d \in Event, Channel(d, b) PROVE d \in handled
  <2> HIDE DEF C
  <2>1. b \in sent
    BY <1>1, <1>2, <1>4 DEF OnePlace
  <2>2. SUFFICES ASSUME d \notin handled PROVE FALSE
    OBVIOUS
  <2>3. PICK x \in Queues : \E i \in 1..Len(C[x]) : C[x][i] = d
    BY <1>2, <1>3, <1>5, <2>1, <2>2 DEF OnePlace
  <2>4. PICK i \in 1..Len(C[x]) : C[x][i] = d
    BY <2>3
  <2>5. Rank(x, From[b]) \in 1..6 /\ Rank(q, From[b]) = 6
    BY RankIs
  <2>6. Rank(x, From[b]) > Rank(q, From[b]) \/ (x = q /\ i < 1)
    <3> HIDE DEF q
    <3> QED
      BY <1>1, <1>3, <1>4, <1>5, <2>4 DEF Ahead
  <2> QED
    BY <1>2, <2>4, <2>5, <2>6
<1>6. ASSUME NEW d \in Event, NEW e \in Event, Channel(d, e)
      PROVE  Ahead(D, From[e], d, e)
  <2> SUFFICES ASSUME NEW x \in Queues, NEW y \in Queues,
                      NEW i \in 1..Len(D[x]), NEW j \in 1..Len(D[y]),
                      D[x][i] = d, D[y][j] = e
               PROVE  Rank(x, From[e]) > Rank(y, From[e]) \/ (x = y /\ i < j)
    BY DEF Ahead
  <2> HIDE DEF C, D, q
  <2>1. \A z \in Queues : \A a \in 1..Len(D[z]) :
          LET o == IF z = q THEN a + 1 ELSE a IN o \in 1..Len(C[z]) /\ C[z][o] = D[z][a]
    <3> TAKE z \in Queues
    <3> TAKE a \in 1..Len(D[z])
    <3>1. CASE z = q
      BY <1>1, <1>2, <3>1 DEF Removed
    <3>2. CASE z # q
      BY <1>1, <3>2 DEF Removed
    <3> QED
      BY <3>1, <3>2
  <2> DEFINE I == IF x = q THEN i + 1 ELSE i
             J == IF y = q THEN j + 1 ELSE j
  <2>2. I \in 1..Len(C[x]) /\ C[x][I] = d /\ J \in 1..Len(C[y]) /\ C[y][J] = e
    BY <2>1
  <2>3. Rank(x, From[e]) > Rank(y, From[e]) \/ (x = y /\ I < J)
    <3> HIDE DEF I, J
    <3> QED
      BY <1>3, <1>6, <2>2 DEF Ahead
  <2>4. i \in Int /\ j \in Int
    OBVIOUS
  <2> QED
    BY <2>3, <2>4
<1>7. \A d, e \in Event : Channel(d, e) =>
        /\ e \in sent' => d \in sent'
        /\ e \in handled' => d \in handled'
        /\ Ahead(D, From[e], d, e)
  BY <1>1, <1>3, <1>5, <1>6
<1> QED
  BY <1>7 DEF Order, Channel, Ahead

LEMMA OrderStep ==
  ASSUME BaseInv, PlaceInv, Routing, Order, [Next]_vars
  PROVE  Order'
<1> DEFINE C == Content
<1>0. TypeOK /\ SlotInv /\ PlacesOK /\ C \in [Queues -> Seq(Event)]
  BY RoutingParts DEF BaseInv, PlaceInv, OnePlace
<1>1. StillStep => Order'
  BY DEF StillStep, Order
<1>2. ASSUME NEW n \in Engine, NEW p \in Level, NEW e \in Event, NEW l \in Links,
             PushedStep(n, p, e, l)
      PROVE  Order'
  <2>1. /\ Moved(C, Content', Out(n, p), Bridge(l), 1) /\ UNCHANGED <<sent, handled>>
        /\ e = C[Out(n, p)][1] /\ l = Route(n, e)
    BY <1>2 DEF PushedStep
  <2>2. At(Out(n, p), e)
    BY <1>0, <2>1 DEF PlacesOK, Moved
  <2>3. To[e] # NoDst => dst[e] # NoDst
    BY RoutingParts DEF DstOK
  <2>4. To[e] # NoDst => Follows(Out(n, p), Bridge(l), e)
    BY <1>0, <2>1, <2>2, <2>3, PushFollows
  <2>5. \A j \in 1..1 : To[C[Out(n, p)][j]] # NoDst => Follows(Out(n, p), Bridge(l), C[Out(n, p)][j])
    BY <2>1, <2>4
  <2> QED
    BY <1>0, <2>1, <2>5, MoveOrder
<1>3. ASSUME NEW n \in Engine, NEW p \in Level, NEW k \in Nat, PulledStep(n, p, k)
      PROVE  Order'
  <2>1. Moved(C, Content', In(n, p), Batch(n), k) /\ UNCHANGED <<sent, handled>>
    BY <1>3 DEF PulledStep
  <2>2. ASSUME NEW j \in 1..k PROVE Follows(In(n, p), Batch(n), C[In(n, p)][j])
    <3>1. In(n, p) \in Queues /\ j \in 1..Len(C[In(n, p)])
      BY <1>0, <2>1 DEF Moved
    <3>2. At(In(n, p), C[In(n, p)][j]) /\ C[In(n, p)][j] \in Event
      BY <1>0, <3>1 DEF PlacesOK
    <3> QED
      BY <3>2, PullFollows
  <2> QED
    BY <1>0, <2>1, <2>2, MoveOrder
<1>4. ASSUME NEW n \in Engine, NEW l \in Links, NEW e \in Event, CopiedStep(n, l, e)
      PROVE  Order'
  <2> DEFINE t == Target(n, e, dst[e] = n)
  <2>1. /\ Moved(C, Content', Bridge(l), t, 1) /\ UNCHANGED <<sent, handled>>
        /\ e = C[Bridge(l)][1] /\ l[2] = n
    BY <1>4 DEF CopiedStep
  <2>2. At(Bridge(l), e)
    BY <1>0, <2>1 DEF PlacesOK, Moved
  <2>3. Follows(Bridge(l), t, e)
    BY <2>1, <2>2, CopyFollows
  <2> HIDE DEF t
  <2>4. \A j \in 1..1 : Follows(Bridge(l), t, C[Bridge(l)][j])
    BY <2>1, <2>3
  <2> QED
    BY <1>0, <2>1, <2>4, MoveOrder
<1> QED
  BY <1>0, <1>1, <1>2, <1>3, <1>4, TableStep, SentOrder, RunOrder

LEMMA OrderInit ==
  ASSUME Init
  PROVE  Order
<1>1. \A x \in Queues : 1..Len(Content[x]) = {}
  BY EmptyInit
<1>2. sent = {} /\ handled = {}
  BY DEF Init
<1> QED
  BY <1>1, <1>2 DEF Order

------------------------------------------------------------------------------
(* The last layer: the shares of the workers.                              *)

(* Workers are listed once, and no bio is a worker.                        *)
LEMMA Distinct ==
  /\ \A i, j \in 1..Len(Workers) : Workers[i] = Workers[j] => i = j
  /\ \A b \in Range(Bios) : b \notin Range(Workers) /\ b \in Engine
<1> DEFINE S == Range(Workers) \cup Range(Bios)
           W == Len(Workers)
           B == Len(Bios)
<1>1. Workers \in Seq(S) /\ Bios \in Seq(S)
  BY SchedAssumption
<1>2. /\ W \in Nat /\ B \in Nat /\ BridgeTbl \in Seq(S) /\ Len(BridgeTbl) = W + B
      /\ \A i \in 1..W + B : BridgeTbl[i] = IF i <= W THEN Workers[i] ELSE Bios[i - W]
  BY <1>1, ConcatProperties DEF BridgeTbl
<1>3. \A i, j \in 1..W + B : BridgeTbl[i] = BridgeTbl[j] => i = j
  BY <1>2, SchedAssumption
<1>4. DOMAIN Bios = 1..B /\ DOMAIN BridgeTbl = 1..W + B
  BY <1>1, <1>2
<1>5. \A i \in 1..W : i \in 1..W + B /\ BridgeTbl[i] = Workers[i]
  BY <1>2
<1>6. ASSUME NEW b \in Range(Bios)
      PROVE  \E i \in 1..W + B : i > W /\ BridgeTbl[i] = b
  <2>1. PICK j \in 1..B : b = Bios[j]
    BY <1>4 DEF Range
  <2>2. W + j \in 1..W + B /\ W + j > W /\ W + j - W = j /\ ~(W + j <= W)
    BY <1>2
  <2>3. BridgeTbl[W + j] = Bios[j]
    BY <1>2, <2>2
  <2> QED
    BY <2>1, <2>2, <2>3
<1>7. ASSUME NEW b \in Range(Bios) PROVE b \notin Range(Workers) /\ b \in Engine
  <2>1. PICK i \in 1..W + B : i > W /\ BridgeTbl[i] = b
    BY <1>6
  <2>2. b \in Range(BridgeTbl)
    BY <1>4, <2>1 DEF Range
  <2>3. ASSUME b \in Range(Workers) PROVE FALSE
    <3>1. PICK j \in 1..W : b = Workers[j]
      BY <2>3, Topology
    <3>2. i = j
      BY <1>3, <1>5, <2>1, <3>1
    <3> QED
      BY <1>2, <2>1, <3>2
  <2> QED
    BY <2>2, <2>3 DEF Engine
<1> HIDE DEF W, B
<1>8. \A i, j \in 1..W : Workers[i] = Workers[j] => i = j
  BY <1>3, <1>5
<1> QED
  BY <1>7, <1>8 DEF W

(* A push by round robin is a push of an event without destination, and    *)
(* gives it to the worker whose turn it is.                                *)
LEMMA PushShares ==
  ASSUME TypeOK, SlotInv, PlaceInv, Routing, NEW n \in Engine, NEW p \in Level,
         NEW e \in Event, NEW l \in Links, PushedStep(n, p, e, l)
  PROVE  \/ UNCHANGED <<dst, rr>>
         \/ /\ To[e] = NoDst /\ dst[e] = NoDst /\ RoundRobin \in 1..Len(Workers)
            /\ dst' = [dst EXCEPT ![e] = Workers[RoundRobin]]
            /\ rr' = NextSlot(RoundRobin)
<1> DEFINE C == Content
           q == Out(n, p)
           f == From[e]
           d == dst[e]
           h == hop[e]
<1>1. /\ Moved(C, Content', q, Bridge(l), 1) /\ e = C[q][1] /\ l = Route(n, e)
      /\ dst' = [dst EXCEPT ![e] = IF dst[e] = NoDst THEN l[2] ELSE dst[e]]
      /\ rr' = IF UsesRoundRobin(n, e) THEN NextSlot(RoundRobin) ELSE rr
  BY DEF PushedStep
<1>2. q \in Queues /\ 1 \in 1..Len(C[q])
  BY <1>1 DEF Moved
<1>3. OnRoute(q, e, f, d, h)
  BY <1>1, <1>2, RoutingParts DEF PlacesOK, At
<1>4. d \in Engine \cup {NoDst}
  BY DEF TypeOK
<1>5. d = NoDst => To[e] = NoDst /\ From[e] = Master
  BY SchedAssumption, Topology, RoutingParts DEF DstOK, Engine
<1> HIDE DEF f, d, h
<1>6. (n = f /\ d # f /\ h = 0) \/ (n = Master /\ Far(f, d) /\ h = 1)
  BY <1>3, RouteAt
<1>7. UsesRoundRobin(n, e) <=> d = NoDst
  <2>1. d = NoDst => n = Master
    BY <1>5, <1>6 DEF f
  <2>2. d = NoDst => d \notin Range(BridgeTbl)
    BY Topology DEF Engine
  <2>3. n = Master => d # Master
    BY <1>6 DEF Far
  <2> QED
    BY <1>4, <2>1, <2>2, <2>3 DEF UsesRoundRobin, Engine, d
<1>8. CASE d = NoDst
  <2>1. n = Master /\ dst[e] \notin Range(BridgeTbl)
    BY <1>7, <1>8 DEF UsesRoundRobin
  <2>2. RoundRobin \in 1..Len(Workers) /\ l[2] = Workers[RoundRobin]
    BY <1>1, <2>1, RouteIs
  <2> QED
    BY <1>1, <1>5, <1>7, <1>8, <2>2 DEF d
<1>9. CASE d # NoDst
  <2>1. dst' = dst
    BY <1>1, <1>9 DEF d, TypeOK
  <2> QED
    BY <1>1, <1>7, <1>9, <2>1
<1> QED
  BY <1>8, <1>9

LEMMA SharesFinite == \A w : IsFiniteSet(Shared(w)) /\ Cardinality(Shared(w)) \in Nat
<1> TAKE w
<1>1. Shared(w) \subseteq Event /\ IsFiniteSet(Event)
  BY SchedAssumption DEF Shared
<1>2. IsFiniteSet(Shared(w))
  BY <1>1, FS_Subset
<1> QED
  BY <1>2, FS_CardinalityType

LEMMA SharesStep ==
  ASSUME BaseInv, PlaceInv, Routing, SharesInv, [Next]_vars
  PROVE  SharesInv'
<1>0. TypeOK /\ SlotInv
  BY DEF BaseInv
<1>1. ASSUME UNCHANGED <<dst, rr>> PROVE SharesInv'
  BY <1>1 DEF SharesInv, Shared
<1>2. ASSUME NEW e \in Event, To[e] = NoDst, dst[e] = NoDst,
             NEW s \in 1..Len(Workers), s = RoundRobin,
             dst' = [dst EXCEPT ![e] = Workers[s]], rr' = NextSlot(RoundRobin)
      PROVE  SharesInv'
  <2> DEFINE W == Len(Workers)
             L == Len(BridgeTbl)
             c(i) == Cardinality(Shared(Workers[i]))
             cc(i) == Cardinality(Shared(Workers[i])')
  <2>1. /\ W \in Nat \ {0} /\ L \in Nat /\ W <= L /\ rr \in Nat /\ 1 <= rr /\ rr <= W + 1
        /\ rr <= L
    BY <1>0, Topology DEF SlotInv
  <2>2. /\ s = IF rr <= W THEN rr ELSE 1
        /\ rr' = IF s < L THEN s + 1 ELSE 1
    BY <1>0, <1>2, RoundRobinIs
  <2>3. PICK k \in Nat : \A i \in 1..W : c(i) = k + IF i < rr THEN 1 ELSE 0
    BY DEF SharesInv
  <2>4. /\ Shared(Workers[s])' = Shared(Workers[s]) \cup {e} /\ e \notin Shared(Workers[s])
        /\ \A i \in 1..W : i # s => Shared(Workers[i])' = Shared(Workers[i])
    <3>1. \A i \in 1..W : Workers[i] # NoDst /\ (i # s => Workers[i] # Workers[s])
      BY <1>2, Topology, Distinct DEF Engine
    <3>2. \A x \in Event : dst'[x] = IF x = e THEN Workers[s] ELSE dst[x]
      BY <1>0, <1>2 DEF TypeOK
    <3>3. s \in 1..W
      OBVIOUS
    <3> QED
      <4>1. \A w : Shared(w)' = {x \in Event : To[x] = NoDst /\ dst'[x] = w}
        BY DEF Shared
      <4>2. e \notin Shared(Workers[s])
        BY <1>2, <3>1, <3>3 DEF Shared
      <4>3. Shared(Workers[s])' = Shared(Workers[s]) \cup {e}
        BY <1>2, <3>2, <4>1 DEF Shared
      <4>4. ASSUME NEW i \in 1..W, i # s PROVE Shared(Workers[i])' = Shared(Workers[i])
        BY <1>2, <3>1, <3>2, <4>1, <4>4 DEF Shared
      <4> QED
        BY <4>2, <4>3, <4>4
  <2>5. cc(s) = c(s) + 1
    BY <2>4, SharesFinite, FS_AddElement
  <2>6. \A i \in 1..W : i # s => cc(i) = c(i)
    BY <2>4
  <2>7. s \in 1..W
    OBVIOUS
  <2> HIDE DEF W, L, c, cc
  <2>8. CASE rr <= W /\ rr < L
    <3>1. \A i \in 1..W : cc(i) = k + IF i < rr' THEN 1 ELSE 0
      BY <2>1, <2>2, <2>3, <2>5, <2>6, <2>8
    <3> QED
      BY <3>1 DEF SharesInv, W, cc
  <2>9. CASE rr <= W /\ ~(rr < L)
    <3>1. \A i \in 1..W : cc(i) = (k + 1) + IF i < rr' THEN 1 ELSE 0
      BY <2>1, <2>2, <2>3, <2>5, <2>6, <2>9
    <3>2. k + 1 \in Nat
      OBVIOUS
    <3> QED
      BY <3>1, <3>2 DEF SharesInv, W, cc
  <2>10. CASE rr > W
    <3>1. \A i \in 1..W : cc(i) = (k + 1) + IF i < rr' THEN 1 ELSE 0
      BY <2>1, <2>2, <2>3, <2>5, <2>6, <2>7, <2>10
    <3>2. k + 1 \in Nat
      OBVIOUS
    <3> QED
      BY <3>1, <3>2 DEF SharesInv, W, cc
  <2> QED
    BY <2>1, <2>8, <2>9, <2>10
<1>3. ASSUME NEW n \in Engine, NEW p \in Level, NEW e \in Event, NEW l \in Links,
             PushedStep(n, p, e, l)
      PROVE  SharesInv'
  BY <1>0, <1>1, <1>2, <1>3, PushShares
<1>4. ASSUME NEW e \in Event, SentStep(e) PROVE SharesInv'
  BY <1>1, <1>4 DEF SentStep
<1>5. ASSUME NEW n \in Engine, NEW p \in Level, NEW k \in Nat, PulledStep(n, p, k) PROVE SharesInv'
  BY <1>1, <1>5 DEF PulledStep
<1>6. ASSUME NEW n \in Engine, NEW e \in Event, RunStep(n, e) PROVE SharesInv'
  BY <1>1, <1>6 DEF RunStep
<1>7. ASSUME NEW n \in Engine, NEW l \in Links, NEW e \in Event, CopiedStep(n, l, e)
      PROVE  SharesInv'
  BY <1>1, <1>7 DEF CopiedStep
<1>8. StillStep => SharesInv'
  BY <1>1 DEF StillStep
<1> QED
  BY <1>3, <1>4, <1>5, <1>6, <1>7, <1>8, TableStep

LEMMA SharesInit ==
  ASSUME Init
  PROVE  SharesInv
<1>1. rr = 1 /\ dst = To
  BY DEF Init
<1>2. ASSUME NEW i \in 1..Len(Workers) PROVE Cardinality(Shared(Workers[i])) = 0
  <2>1. Workers[i] # NoDst
    BY Topology DEF Engine
  <2>2. Shared(Workers[i]) = {}
    BY <1>1, <2>1 DEF Shared
  <2> QED
    BY <2>2, FS_EmptySet
<1>3. \A i \in 1..Len(Workers) : Cardinality(Shared(Workers[i])) = 0 + IF i < rr THEN 1 ELSE 0
  BY <1>1, <1>2, Topology
<1> QED
  BY <1>3 DEF SharesInv

LEMMA SharesEven ==
  ASSUME Routing, SharesInv, SlotInv
  PROVE  EvenShares
<1>1. PICK k \in Nat : \A i \in 1..Len(Workers) :
        Cardinality(Shared(Workers[i])) = k + IF i < rr THEN 1 ELSE 0
  BY DEF SharesInv
<1>2. ASSUME NEW v \in Range(Workers) PROVE Cardinality(Shared(v)) \in {k, k + 1}
  BY <1>1, Topology
<1>3. \A v, w \in Range(Workers) : Cardinality(Shared(v)) <= Cardinality(Shared(w)) + 1
  BY <1>2
<1>4. ASSUME NEW b \in Range(Bios) PROVE Cardinality(Shared(b)) = 0
  <2>1. Shared(b) = {}
    BY RoutingParts, Distinct, Topology DEF Shared, DstOK
  <2> QED
    BY <2>1, FS_EmptySet
<1> QED
  BY <1>3, <1>4 DEF EvenShares, Shared

------------------------------------------------------------------------------
(* The results.                                                            *)

SchedInv == BaseInv /\ PlaceInv /\ Routing /\ Order /\ SharesInv

LEMMA SchedInvariance == Spec => []SchedInv
<1>1. Init => SchedInv
  BY BaseInit, PlaceInit, RoutingInit, OrderInit, SharesInit DEF SchedInv
<1>2. SchedInv /\ [Next]_vars => SchedInv'
  BY BaseStep, PlaceStep, RoutingStep, OrderStep, SharesStep DEF SchedInv
<1> QED
  BY <1>1, <1>2, PTL DEF Spec

(* Every event that was sent and not yet run is in exactly one queue,      *)
(* events take the shortest way, and an engine that waits has left nothing *)
(* behind, for every number of engines, priorities and events and every    *)
(* batch and bridge size.                                                  *)
THEOREM Invariance == Spec => []IInv
<1>1. SchedInv => IInv
  <2> SUFFICES ASSUME SchedInv PROVE IInv
    OBVIOUS
  <2>1. IdlePoll
    BY DEF SchedInv, BaseInv, EngineInv, EngineOK, IdlePoll
  <2>2. Conserved
    BY PlaceInvConserved DEF SchedInv
  <2>3. ShortestWay
    BY RoutingShortest DEF SchedInv, BaseInv
  <2> QED
    BY <2>1, <2>2, <2>3 DEF IInv, SchedInv, BaseInv
<1> QED
  BY <1>1, SchedInvariance, PTL

(* Events of one channel are run in the order they were sent, also when    *)
(* the master forwards them.                                               *)
THEOREM InOrder == Spec => []ChannelOrder
<1>1. SchedInv => ChannelOrder
  BY DEF SchedInv, Order, ChannelOrder
<1> QED
  BY <1>1, SchedInvariance, PTL

(* Round robin deals the events without destination to the workers evenly, *)
(* and none to a bio.                                                      *)
THEOREM Even == Spec => []EvenShares
<1>1. SchedInv => EvenShares
  BY SharesEven DEF SchedInv, BaseInv
<1> QED
  BY <1>1, SchedInvariance, PTL

(* No engine ever runs an event that is for another: the assertion of      *)
(* _run_event holds.                                                       *)
AtDestination == \A n \in Engine : batch[n] # <<>> => dst[Head(batch[n])] = n

THEOREM RunAtDestination == Spec => []AtDestination
<1>1. SchedInv => AtDestination
  <2> SUFFICES ASSUME SchedInv, NEW n \in Engine, batch[n] # <<>>
               PROVE  dst[Head(batch[n])] = n
    BY DEF AtDestination
  <2>0. TypeOK /\ PlacesOK
    BY RoutingParts DEF SchedInv, BaseInv
  <2>1. batch[n] \in Seq(Event)
    BY <2>0 DEF TypeOK
  <2>2. Content[Batch(n)] = batch[n] /\ Batch(n) \in Queues
    BY <2>0, ContentIs, QueueNames DEF TableOf
  <2>3. Head(batch[n]) = batch[n][1] /\ 1 \in 1..Len(batch[n])
    BY <2>1, TailIs
  <2>4. At(Batch(n), Head(batch[n]))
    BY <2>0, <2>2, <2>3 DEF PlacesOK
  <2> DEFINE e == Head(batch[n])
  <2>5. OnRoute(Batch(n), e, From[e], dst[e], hop[e])
    BY <2>4 DEF At
  <2> HIDE DEF e
  <2>6. n = dst[e]
    BY <2>5 DEF OnRoute, Batch
  <2> QED
    BY <2>6 DEF e
<1> QED
  BY <1>1, SchedInvariance, PTL
=============================================================================
