------------------------------- MODULE SkSched -------------------------------
(***************************************************************************)
(* The schedulers of all engines and the io bridges that connect them      *)
(* (src/components/sk_sched.c, src/common/sk_io.c), in the topology of     *)
(* _sk_setup_engines: the master is linked with every worker and bio in    *)
(* both directions, workers and bios are not linked with each other.       *)
(*                                                                         *)
(* Every engine is a thread that loops in sk_sched_start.  Its pc is       *)
(*   events    callbacks of the event loop (_copy_event among them) and    *)
(*             expired timers                                              *)
(*   deliver   _deliver_msg: output queues to bridges, then notification   *)
(*   run       _pull_and_run for one priority after the other              *)
(*   poll      waiting in sk_eventloop_dispatch                            *)
(* A bridge is shared by two threads: the source pushes to mq and then     *)
(* writes the eventfd, the destination reads the eventfd and then empties  *)
(* mq; every push, pop, read and write is a step of its own.               *)
(*                                                                         *)
(* An event is a number and is sent once; the constants give its source,   *)
(* its destination and the priority of its protocol.  Those that agree in  *)
(* all three (a channel) are sent in the order of their numbers.           *)
(***************************************************************************)
EXTENDS Integers, Sequences, FiniteSets, Functions

CONSTANTS
  Event,         \* the events that may be sent, numbers
  From, To,      \* event.src and event.dst as given to sk_sched_send
  NoDst,         \* the value of To for a NULL destination
  Pri,           \* the priority of the event's protocol
  MaxPri,        \* SK_PTO_PRI_MAX; SK_PTO_PRI_MIN is 1 here
  Master,        \* the master engine
  Workers,       \* the workers, in the order they are linked
  Bios,          \* the bios, in the order they are linked
  PullNum,       \* SK_SCHED_PULL_NUM
  BridgeSize,    \* SK_SCHED_IO_BRIDGE_SZ
  MaxHop         \* SK_SCHED_MAX_ROUTING_HOP

(* The master's bridge_tbl, by destination.                                *)
BridgeTbl == Workers \o Bios
Engine == {Master} \cup Range(BridgeTbl)
Level == 1..MaxPri

ASSUME SchedAssumption ==
  /\ IsFiniteSet(Event) /\ Event \subseteq Nat
  /\ Workers \in Seq(Range(Workers)) /\ Bios \in Seq(Range(Bios))
  /\ \A i, j \in 1..Len(BridgeTbl) : BridgeTbl[i] = BridgeTbl[j] => i = j
  /\ Master \notin Range(BridgeTbl) /\ Workers # <<>> /\ NoDst \notin Engine
  /\ From \in [Event -> Engine]
  /\ To \in [Event -> Engine \cup {NoDst}]
  /\ \A e \in Event : To[e] = NoDst => From[e] = Master   \* only drivers do that
  /\ MaxPri \in Nat /\ Pri \in [Event -> Level]
  /\ {PullNum, BridgeSize, MaxHop} \subseteq Nat \ {0}

(* sk_engine_link: a bridge from the first to the second engine.           *)
Links == {<<Master, n>> : n \in Range(BridgeTbl)} \cup {<<n, Master>> : n \in Range(BridgeTbl)}

VARIABLES
  pc,        \* where each engine is in sk_sched_start
  input,     \* io_tbl[priority], SK_IO_INPUT
  output,    \* io_tbl[priority], SK_IO_OUTPUT
  level,     \* the priority _process_events_once is at
  batch,     \* events_buffer[i..], the events pulled and not yet run
  active,    \* nprocessed > 0
  handler,   \* a protocol's run function is being executed
  mq,        \* the bridges: the message queue,
  evfd,      \*   the eventfd's counter,
  delivery,  \*   the source's delivery[], pushed and not yet notified,
  ready,     \*   the bridges the destination's poll has reported,
  copying,   \*   and the one its _copy_event is emptying
  rr,        \* the master's last_delivery_idx (from 1)
  dst, hop,  \* event.dst and event.hop
  sent,      \* the events sent so far
  handled,   \* the events run so far
  fault      \* "none" or "abort"

queues == <<input, output, batch>>
bridges == <<mq, evfd, delivery, ready, copying>>
engines == <<pc, level, active, handler>>
history == <<sent, handled>>
vars == <<queues, bridges, engines, rr, dst, hop, history, fault>>

NoLink == <<>>

TypeOK ==
  /\ pc \in [Engine -> {"events", "deliver", "run", "poll"}]
  /\ input \in [Engine -> [Level -> Seq(Event)]]
  /\ output \in [Engine -> [Level -> Seq(Event)]]
  /\ level \in [Engine -> 0..MaxPri]
  /\ batch \in [Engine -> Seq(Event)]
  /\ active \in [Engine -> BOOLEAN] /\ handler \in [Engine -> BOOLEAN]
  /\ mq \in [Links -> Seq(Event)]
  /\ evfd \in [Links -> Nat] /\ delivery \in [Links -> Nat]
  /\ ready \in [Engine -> SUBSET Links]
  /\ copying \in [Engine -> Links \cup {NoLink}]
  /\ rr \in 1..Len(BridgeTbl)
  /\ dst \in [Event -> Engine \cup {NoDst}] /\ hop \in [Event -> 0..MaxHop]
  /\ sent \subseteq Event /\ handled \subseteq Event
  /\ fault \in {"none", "abort"}

Init ==
  /\ pc = [n \in Engine |-> "events"]
  /\ input = [n \in Engine |-> [p \in Level |-> <<>>]]
  /\ output = [n \in Engine |-> [p \in Level |-> <<>>]]
  /\ level = [n \in Engine |-> 0]
  /\ batch = [n \in Engine |-> <<>>]
  /\ active = [n \in Engine |-> FALSE] /\ handler = [n \in Engine |-> FALSE]
  /\ mq = [l \in Links |-> <<>>]
  /\ evfd = [l \in Links |-> 0] /\ delivery = [l \in Links |-> 0]
  /\ ready = [n \in Engine |-> {}]
  /\ copying = [n \in Engine |-> NoLink]
  /\ rr = 1
  /\ dst = To /\ hop = [e \in Event |-> 0]
  /\ sent = {} /\ handled = {}
  /\ fault = "none"

Up == fault = "none"

------------------------------------------------------------------------------
Earlier(d, e) == d < e /\ From[d] = From[e] /\ To[d] = To[e] /\ Pri[d] = Pri[e]

(* sk_sched_send(n, To[e], ...), by a protocol, a timer or a callback that *)
(* runs on engine n: to the own input queue or to the output queue.        *)
Send(e) ==
  LET n == From[e]
      p == Pri[e]
  IN  /\ Up /\ e \notin sent /\ \A d \in Event : Earlier(d, e) => d \in sent
      /\ pc[n] = "events" \/ handler[n]
      /\ sent' = sent \cup {e}
      /\ IF To[e] = n
           THEN /\ input' = [input EXCEPT ![n][p] = Append(@, e)]
                /\ UNCHANGED output
           ELSE /\ output' = [output EXCEPT ![n][p] = Append(@, e)]
                /\ UNCHANGED input
      /\ UNCHANGED <<batch, bridges, engines, rr, dst, hop, handled, fault>>

------------------------------------------------------------------------------
(* Routing.                                                                *)

Routable(i) == \E j \in 1..Len(Workers) : i = j     \* not SK_SCHED_NON_RR_ROUTABLE

(* The i-th slot of bridge_tbl after slot r, cyclically.                   *)
Slot(r, i) == ((r - 1 + i) % Len(BridgeTbl)) + 1

(* Mutant of RoundRobin: bios are not skipped.                             *)
RoundRobinAny == rr

(* _find_bridge_roundrobin on the master: the next routable slot.          *)
RoundRobin ==
  CHOOSE s \in 1..Len(BridgeTbl) :
    /\ Routable(s)
    /\ \E k \in 0..(Len(BridgeTbl) - 1) :
         s = Slot(rr, k) /\ \A i \in 0..(k - 1) : ~Routable(Slot(rr, i))

(* last_delivery_idx after slot s was used.                                *)
NextSlot(s) == (s % Len(BridgeTbl)) + 1

(* The bridge _deliver_one_io picks on engine n: the one to the            *)
(* destination if there is one, else round robin; the only bridge of a     *)
(* worker or a bio is the one to the master.                               *)
Route(n, e) ==
  IF n # Master THEN <<n, Master>>
  ELSE IF dst[e] \in Range(BridgeTbl) THEN <<Master, dst[e]>>
  ELSE <<Master, BridgeTbl[RoundRobin]>>

UsesRoundRobin(n, e) == n = Master /\ dst[e] \notin Range(BridgeTbl)

Crash == fault' = "abort" /\ UNCHANGED <<queues, bridges, engines, rr, dst, hop, history>>

(* One pass of _deliver_one_io: the first event of the highest priority    *)
(* that has one is pushed to its bridge.                                   *)
DeliverOne(n) ==
  /\ Up /\ pc[n] = "deliver"
  /\ \E p \in Level :
       /\ output[n][p] # <<>>
       /\ \A q \in Level : q > p => output[n][q] = <<>>
       /\ LET e == Head(output[n][p])
              l == Route(n, e)
          IN  IF hop[e] = MaxHop \/ Len(mq[l]) = BridgeSize
                THEN Crash
                ELSE /\ output' = [output EXCEPT ![n][p] = Tail(@)]
                     /\ mq' = [mq EXCEPT ![l] = Append(@, e)]
                     /\ delivery' = [delivery EXCEPT ![l] = @ + 1]
                     /\ hop' = [hop EXCEPT ![e] = @ + 1]
                     /\ dst' = [dst EXCEPT ![e] = IF @ = NoDst THEN l[2] ELSE @]
                     /\ rr' = IF UsesRoundRobin(n, e) THEN NextSlot(RoundRobin) ELSE rr
                     /\ UNCHANGED <<input, batch, evfd, ready, copying, engines,
                                    history, fault>>

NoOutput(n) == \A p \in Level : output[n][p] = <<>>
NoInput(n) == \A p \in Level : input[n][p] = <<>>

(* _io_bridget_notify, after all output was pushed.                        *)
Notify(n) ==
  /\ Up /\ pc[n] = "deliver" /\ NoOutput(n)
  /\ \E l \in Links :
       /\ l[1] = n /\ delivery[l] > 0
       /\ evfd' = [evfd EXCEPT ![l] = @ + delivery[l]]
       /\ delivery' = [delivery EXCEPT ![l] = 0]
  /\ UNCHANGED <<queues, mq, ready, copying, engines, rr, dst, hop, history, fault>>

(* Where the loop of _process_events_once over the priorities starts.      *)
FirstLevel == MaxPri

(* _deliver_msg returns.                                                   *)
Delivered(n) ==
  /\ Up /\ pc[n] = "deliver" /\ NoOutput(n)
  /\ \A l \in Links : l[1] = n => delivery[l] = 0
  /\ pc' = [pc EXCEPT ![n] = "run"]
  /\ level' = [level EXCEPT ![n] = FirstLevel]
  /\ active' = [active EXCEPT ![n] = FALSE]
  /\ UNCHANGED <<handler, queues, bridges, rr, dst, hop, history, fault>>

------------------------------------------------------------------------------
(* Running events.                                                         *)

(* Whether the round is at level p: the highest one not above the current  *)
(* level that has events.                                                  *)
NextLevel(n, p) ==
  /\ p \in 1..level[n] /\ input[n][p] # <<>>
  /\ \A q \in (p + 1)..level[n] : input[n][q] = <<>>

(* Mutant of Pull: what does not fit into the batch is lost.               *)
PullLoses(n) ==
  /\ Up /\ pc[n] = "run" /\ batch[n] = <<>>
  /\ \E p \in Level :
       /\ NextLevel(n, p)
       /\ batch' = [batch EXCEPT ![n] = SubSeq(input[n][p], 1, PullNum)]
       /\ input' = [input EXCEPT ![n][p] = <<>>]
       /\ level' = [level EXCEPT ![n] = p - 1]
  /\ active' = [active EXCEPT ![n] = TRUE]
  /\ handler' = [handler EXCEPT ![n] = FALSE]
  /\ UNCHANGED <<pc, output, bridges, rr, dst, hop, history, fault>>

(* sk_io_pull of up to SK_SCHED_PULL_NUM events.                           *)
Pull(n) ==
  /\ Up /\ pc[n] = "run" /\ batch[n] = <<>>
  /\ \E p \in Level :
       /\ NextLevel(n, p)
       /\ LET k == IF Len(input[n][p]) < PullNum THEN Len(input[n][p]) ELSE PullNum
          IN  /\ batch' = [batch EXCEPT ![n] = SubSeq(input[n][p], 1, k)]
              /\ input' = [input EXCEPT ![n][p] = SubSeq(@, k + 1, Len(@))]
       /\ level' = [level EXCEPT ![n] = p - 1]
  /\ active' = [active EXCEPT ![n] = TRUE]
  /\ handler' = [handler EXCEPT ![n] = FALSE]
  /\ UNCHANGED <<pc, output, bridges, rr, dst, hop, history, fault>>

(* _run_event; the protocol's run function may Send until the next step of *)
(* this engine.  An event at the wrong engine fails the assertion.         *)
RunEvent(n) ==
  /\ Up /\ pc[n] = "run" /\ batch[n] # <<>>
  /\ IF dst[Head(batch[n])] # n
       THEN Crash
       ELSE /\ batch' = [batch EXCEPT ![n] = Tail(@)]
            /\ handled' = handled \cup {Head(batch[n])}
            /\ handler' = [handler EXCEPT ![n] = TRUE]
            /\ UNCHANGED <<pc, level, active, input, output, bridges, rr, dst, hop,
                           sent, fault>>

(* The end of _process_events_once: another round if anything was run.     *)
EndRound(n) ==
  /\ Up /\ pc[n] = "run" /\ batch[n] = <<>> /\ ~\E p \in Level : NextLevel(n, p)
  /\ pc' = [pc EXCEPT ![n] = IF active[n] THEN "deliver" ELSE "poll"]
  /\ handler' = [handler EXCEPT ![n] = FALSE]
  /\ UNCHANGED <<level, active, queues, bridges, rr, dst, hop, history, fault>>

------------------------------------------------------------------------------
(* Polling.                                                                *)

(* The poll returns, because eventfds are readable, for another file       *)
(* descriptor, or because of the timeout.                                  *)
Wake(n) ==
  /\ Up /\ pc[n] = "poll"
  /\ pc' = [pc EXCEPT ![n] = "events"]
  /\ ready' = [ready EXCEPT ![n] = {l \in Links : l[2] = n /\ evfd[l] > 0}]
  /\ UNCHANGED <<level, active, handler, queues, mq, evfd, delivery, copying,
                 rr, dst, hop, history, fault>>

(* _copy_event: eventfd_read.                                              *)
CopyBegin(n) ==
  /\ Up /\ pc[n] = "events" /\ copying[n] = NoLink
  /\ \E l \in ready[n] :
       /\ evfd' = [evfd EXCEPT ![l] = 0]
       /\ copying' = [copying EXCEPT ![n] = l]
       /\ ready' = [ready EXCEPT ![n] = @ \ {l}]
  /\ UNCHANGED <<queues, mq, delivery, engines, rr, dst, hop, history, fault>>

(* Mutant of CopyOne: the last event of the bridge is taken first.         *)
CopyLast(n) ==
  /\ Up /\ copying[n] # NoLink /\ mq[copying[n]] # <<>>
  /\ LET l == copying[n]
         e == mq[l][Len(mq[l])]
         p == Pri[e]
     IN  /\ mq' = [mq EXCEPT ![l] = SubSeq(@, 1, Len(@) - 1)]
         /\ IF dst[e] = n
              THEN /\ input' = [input EXCEPT ![n][p] = Append(@, e)]
                   /\ UNCHANGED output
              ELSE /\ output' = [output EXCEPT ![n][p] = Append(@, e)]
                   /\ UNCHANGED input
  /\ UNCHANGED <<batch, evfd, delivery, ready, copying, engines, rr, dst, hop,
                 history, fault>>

(* _copy_event: one event from the bridge to the input queue, or to the    *)
(* output queue if it is for another engine.                               *)
CopyOne(n) ==
  /\ Up /\ copying[n] # NoLink /\ mq[copying[n]] # <<>>
  /\ LET l == copying[n]
         e == Head(mq[l])
         p == Pri[e]
     IN  /\ mq' = [mq EXCEPT ![l] = Tail(@)]
         /\ IF dst[e] = n
              THEN /\ input' = [input EXCEPT ![n][p] = Append(@, e)]
                   /\ UNCHANGED output
              ELSE /\ output' = [output EXCEPT ![n][p] = Append(@, e)]
                   /\ UNCHANGED input
  /\ UNCHANGED <<batch, evfd, delivery, ready, copying, engines, rr, dst, hop,
                 history, fault>>

(* Mutant of CopyEnd: _copy_event stops before the queue is empty.         *)
CopyEndEarly(n) ==
  /\ Up /\ copying[n] # NoLink
  /\ copying' = [copying EXCEPT ![n] = NoLink]
  /\ UNCHANGED <<queues, mq, evfd, delivery, ready, engines, rr, dst, hop, history, fault>>

(* _copy_event: fmbuf_pop finds nothing.                                   *)
CopyEnd(n) ==
  /\ Up /\ copying[n] # NoLink /\ mq[copying[n]] = <<>>
  /\ copying' = [copying EXCEPT ![n] = NoLink]
  /\ UNCHANGED <<queues, mq, evfd, delivery, ready, engines, rr, dst, hop, history, fault>>

(* All callbacks and timers are through.                                   *)
EndEvents(n) ==
  /\ Up /\ pc[n] = "events" /\ copying[n] = NoLink /\ ready[n] = {}
  /\ pc' = [pc EXCEPT ![n] = "deliver"]
  /\ UNCHANGED <<level, active, handler, queues, bridges, rr, dst, hop, history, fault>>

Step(n) ==
  \/ DeliverOne(n) \/ Notify(n) \/ Delivered(n)
  \/ Pull(n) \/ RunEvent(n) \/ EndRound(n)
  \/ Wake(n) \/ CopyBegin(n) \/ CopyOne(n) \/ CopyEnd(n) \/ EndEvents(n)

Next == (\E n \in Engine : Step(n)) \/ (\E e \in Event : Send(e))

Spec == Init /\ [][Next]_vars

(* Every thread gets the processor again and again.                        *)
Fairness == \A n \in Engine : WF_vars(Step(n))

FairSpec == Spec /\ Fairness

------------------------------------------------------------------------------
(* Properties.                                                             *)

(* All queues, as triples: <<"input", engine, priority>>, and so on.       *)
Queues ==
  ({"input", "output"} \X Engine \X Level)
    \cup {<<"batch", n, 0>> : n \in Engine}
    \cup {<<"bridge", l[1], l[2]>> : l \in Links}

Content ==
  [q \in Queues |-> CASE q[1] = "input"  -> input[q[2]][q[3]]
                      [] q[1] = "output" -> output[q[2]][q[3]]
                      [] q[1] = "batch"  -> batch[q[2]]
                      [] q[1] = "bridge" -> mq[<<q[2], q[3]>>]]

(* The places at which event e is: a queue and an index in it.             *)
Spots(e) ==
  UNION {{<<q, i>> : i \in {j \in 1..Len(Content[q]) : Content[q][j] = e}} : q \in Queues}

(* No event is lost and none is duplicated, whatever route it takes: from  *)
(* the moment it is sent until it is run it is in exactly one place.       *)
Conserved ==
  \A e \in Event : Cardinality(Spots(e)) = IF e \in sent \ handled THEN 1 ELSE 0

(* Events of one source, destination and priority are run in the order     *)
(* they were sent, also when the master forwards them.  (A NULL            *)
(* destination stands for many.)                                           *)
ChannelOrder ==
  \A d, e \in Event :
    Earlier(d, e) /\ To[e] # NoDst /\ e \in handled => d \in handled

(* An event in a bridge is never forgotten there: its eventfd is readable, *)
(* or its source is still going to write it, or the destination is         *)
(* emptying the bridge.                                                    *)
NoLostWakeup ==
  \A l \in Links : mq[l] # <<>> => evfd[l] > 0 \/ delivery[l] > 0 \/ copying[l[2]] = l

(* An engine goes to wait only when it has nothing left to run and nothing *)
(* left to deliver.                                                        *)
IdlePoll == \A n \in Engine : pc[n] = "poll" => NoInput(n) /\ NoOutput(n) /\ batch[n] = <<>>

(* The hops between two engines: none, one to or from the master, or two   *)
(* through the master.                                                     *)
Distance(a, b) == IF a = b THEN 0 ELSE IF Master \in {a, b} THEN 1 ELSE 2

(* An event is run at its destination after the shortest way; on its way   *)
(* it never takes more hops than that, so that it never comes near the hop *)
(* limit.                                                                  *)
ShortestWay ==
  \A e \in Event : dst[e] # NoDst =>
    /\ hop[e] <= Distance(From[e], dst[e])
    /\ e \in handled => hop[e] = Distance(From[e], dst[e])

(* The bookkeeping of the schedulers: their types, where the events are,   *)
(* the way they take, and what an engine leaves behind when it goes to     *)
(* wait.                                                                   *)
IInv == TypeOK /\ Conserved /\ IdlePoll /\ ShortestWay

(* The events without destination are shared out among the workers evenly, *)
(* and never go to a bio.                                                  *)
EvenShares ==
  LET Share(w) == Cardinality({e \in Event : To[e] = NoDst /\ dst[e] = w})
  IN  /\ \A v, w \in Range(Workers) : Share(v) <= Share(w) + 1
      /\ \A b \in Range(Bios) : Share(b) = 0

(* Every event that is sent is run in the end.                             *)
AllHandled == \A e \in Event : (e \in sent) ~> (e \in handled)
==============================================================================
