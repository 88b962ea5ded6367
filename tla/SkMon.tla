------------------------------- MODULE SkMon -------------------------------
(***************************************************************************)
(* The monitors of src/common/sk_mon.c, the snapshot the master takes of   *)
(* all of them every minute (sk_engine.c) and the admin commands that      *)
(* report them (src/components/sk_admin.c).                                *)
(*                                                                         *)
(* Every engine, and the user's code, counts in a monitor of its own under *)
(* its lock.  The master walks over the monitors and moves what each has   *)
(* counted into a window of two snapshots.  A worker that runs an admin    *)
(* command walks over the same monitors in the same order: `metrics'       *)
(* copies the counters under the lock, `last' takes a pointer into the     *)
(* window under the lock and follows it afterwards.                        *)
(***************************************************************************)
EXTENDS Naturals, Sequences, FiniteSets, Functions

CONSTANTS MonOrder,   \* global, master, workers, bios, user: the order of both walks
          Window,     \* SK_MON_DEFAULT_WINDOW
          Room,       \* ADMIN_RESP_MAX_LENGTH, in lines
          Grow,       \* the lines a realloc of the response adds
          MaxCount,   \* bound: what a monitor counts to in all
          MaxRounds   \* bound: snapshots of all monitors

Monitors == Range(MonOrder)
NMon == Len(MonOrder)

ASSUME OrderAssumption == MonOrder \in Seq(Monitors) /\ IsInjective(MonOrder) /\ NMon > 0
ASSUME BoundsAssumption == /\ {Window, Grow} \subseteq Nat \ {0}
                           /\ {Room, MaxCount, MaxRounds} \subseteq Nat

VARIABLES tbl,      \* mon_tbl: the counter of each monitor
          prev,     \* prev[1..Window]: the snapshots kept, 0 for NULL
          snaps,    \* every snapshot ever taken of a monitor: what it holds
          freed,    \* the snapshots that were released
          walk,     \* sk_mon_snapshot_all: the next monitor, 0 when not running
          rounds,   \* how often it was started
          counted,  \* what the callers of sk_mon_inc and sk_mon_set have counted
          cmd,      \* the admin command: "none", "metrics", "last"
          at,       \* the monitor the command is at, and the phase of its visit
          held,     \* the snapshots the command holds: global, current
          begun,    \* `rounds' and whether a walk was on when the command began
          resp,     \* the lines of the response
          room,     \* the lines that still fit
          copies,   \* the copies not yet released
          bad       \* "null", "freed": what the command followed

monVars == <<tbl, prev, snaps, freed, counted>>
walkVars == <<walk, rounds>>
cmdVars == <<cmd, at, held, begun, resp, room, copies>>
monitorVars == <<monVars, walkVars, cmdVars, bad>>

NoPtr == [mon |-> "none", nth |-> 0]
Phases == {"take", "use"}

MonTypeOK == /\ tbl \in [Monitors -> 0..MaxCount]
             /\ prev \in [Monitors -> [1..Window -> 0..MaxRounds]]
             /\ DOMAIN snaps = Monitors /\ DOMAIN freed = Monitors
             /\ \A m \in Monitors : snaps[m] \in Seq(0..MaxCount) /\ freed[m] \subseteq 1..Len(snaps[m])
             /\ counted \in [Monitors -> 0..MaxCount]
             /\ walk \in 0..NMon /\ rounds \in 0..MaxRounds
             /\ cmd \in {"none", "metrics", "last"}
             /\ at \in [mon : 1..NMon + 1, phase : Phases]
             /\ room \in Nat
             /\ bad \subseteq {"null", "freed"}

MonInit == /\ tbl = [m \in Monitors |-> 0]
           /\ prev = [m \in Monitors |-> [i \in 1..Window |-> 0]]
           /\ snaps = [m \in Monitors |-> <<>>]
           /\ freed = [m \in Monitors |-> {}]
           /\ counted = [m \in Monitors |-> 0]
           /\ walk = 0 /\ rounds = 0
           /\ cmd = "none" /\ at = [mon |-> 1, phase |-> "take"]
           /\ held = [global |-> NoPtr, cur |-> NoPtr]
           /\ begun = [rounds |-> 0, walking |-> FALSE]
           /\ resp = <<>> /\ room = Room /\ copies = {}
           /\ bad = {}

-----------------------------------------------------------------------------
(* sk_mon_inc, by any thread that counts in monitor m. *)
Inc(m) == /\ counted[m] < MaxCount
          /\ tbl' = [tbl EXCEPT ![m] = @ + 1]
          /\ counted' = [counted EXCEPT ![m] = @ + 1]
          /\ UNCHANGED <<prev, snaps, freed, walkVars, cmdVars, bad>>

(* sk_mon_set overwrites what was counted since the last snapshot. *)
Set(m) == /\ tbl[m] > 0
          /\ tbl' = [tbl EXCEPT ![m] = 0]
          /\ counted' = [counted EXCEPT ![m] = @ - tbl[m]]
          /\ UNCHANGED <<prev, snaps, freed, walkVars, cmdVars, bad>>

(***************************************************************************)
(* sk_mon_snapshot_and_reset: the counters go into a new snapshot, which   *)
(* goes to the front of the window and pushes the oldest one out.          *)
(***************************************************************************)
Shift(w, new) == [i \in 1..Window |-> IF i = 1 THEN new ELSE w[i - 1]]
SnapshotKeeping(m) == /\ snaps' = [snaps EXCEPT ![m] = Append(@, tbl[m])]
                      /\ prev' = [prev EXCEPT ![m] = Shift(@, Len(snaps[m]) + 1)]
                      /\ freed' = [freed EXCEPT ![m] = @ \cup ({prev[m][Window]} \ {0})]
                      /\ tbl' = tbl
SnapshotAndReset(m) == /\ snaps' = [snaps EXCEPT ![m] = Append(@, tbl[m])]
                       /\ prev' = [prev EXCEPT ![m] = Shift(@, Len(snaps[m]) + 1)]
                       /\ freed' = [freed EXCEPT ![m] = @ \cup ({prev[m][Window]} \ {0})]
                       /\ tbl' = [tbl EXCEPT ![m] = 0]

(* The minute timer of the master: sk_mon_snapshot_all begins with the global monitor... *)
NextMonSkipping(i) == IF i + 1 >= NMon THEN 0 ELSE i + 1
NextMon(i) == IF i = NMon THEN 0 ELSE i + 1
SnapshotAll == /\ walk = 0 /\ rounds < MaxRounds
               /\ rounds' = rounds + 1
               /\ SnapshotAndReset(MonOrder[1])
               /\ walk' = NextMon(1)
               /\ UNCHANGED <<counted, cmdVars, bad>>

(* ... and takes the others one after the other. *)
SnapshotNext == /\ walk # 0
                /\ SnapshotAndReset(MonOrder[walk])
                /\ walk' = NextMon(walk)
                /\ UNCHANGED <<counted, rounds, cmdVars, bad>>

-----------------------------------------------------------------------------
(***************************************************************************)
(* The response: _append_response drops a line that does not fit, _mon_cb  *)
(* makes room for a line of a metric.                                      *)
(***************************************************************************)
Line(kind, p) == [kind |-> kind, ptr |-> p]
AppendResponse(r, n, l) == [resp |-> IF n > 0 THEN Append(r, l) ELSE r,
                            room |-> IF n > 0 THEN n - 1 ELSE n]
MonCbFixed(r, n, l) == AppendResponse(r, n, l)
MonCb(r, n, l) == [resp |-> Append(r, l), room |-> IF n > 0 THEN n - 1 ELSE n + Grow - 1]

(* _admin_unpack and _admin_run start a command on a worker with a new response. *)
Begin(c) == /\ cmd = "none"
            /\ cmd' = c
            /\ at' = [mon |-> 1, phase |-> "take"]
            /\ held' = [global |-> NoPtr, cur |-> NoPtr]
            /\ begun' = [rounds |-> rounds, walking |-> walk # 0]
            /\ resp' = <<>> /\ room' = Room
            /\ UNCHANGED <<monVars, walkVars, copies, bad>>

(* sk_mon_snapshot(mon, loc), under the lock: a pointer into the window, or a copy *)
(* of the counters that the next snapshot will hold.                               *)
Snapshot(m) == [mon |-> m, nth |-> IF cmd = "last" THEN prev[m][1] ELSE Len(snaps[m]) + 1]

Take == LET p == Snapshot(MonOrder[at.mon]) IN
        /\ cmd # "none" /\ at.mon <= NMon /\ at.phase = "take"
        /\ held' = [global |-> IF at.mon = 1 THEN p ELSE held.global, cur |-> p]
        /\ IF at.mon = 1 /\ p.nth = 0     \* no global snapshot: the response is empty
           THEN /\ cmd' = "none"
                /\ UNCHANGED <<at, copies>>
           ELSE /\ at' = [at EXCEPT !.phase = "use"]
                /\ copies' = IF cmd = "metrics" THEN copies \cup {p} ELSE copies
                /\ UNCHANGED cmd
        /\ UNCHANGED <<monVars, walkVars, begun, resp, room, bad>>

(* What following pointer p meets; a copy is the command's own. *)
Fault(p) == IF cmd = "metrics" THEN IF p \in copies THEN {} ELSE {"freed"}
            ELSE IF p.nth = 0 THEN {"null"}
            ELSE IF p.nth \in freed[p.mon] THEN {"freed"} ELSE {}

(* sk_mon_snapshot_foreach, after the lock was released, between two plain lines;  *)
(* a copy is released, that of the global monitor is kept for the last line.       *)
Use == LET p == held.cur
           h == IF at.mon = 1 THEN AppendResponse(resp, room, Line("time", p))
                ELSE [resp |-> resp, room |-> room]
           a == MonCb(h.resp, h.room, Line("metric", p))
           b == AppendResponse(a.resp, a.room, Line("sep", NoPtr))
       IN /\ cmd # "none" /\ at.mon <= NMon /\ at.phase = "use"
          /\ bad' = Fault(p)
          /\ resp' = b.resp /\ room' = b.room
          /\ at' = [mon |-> at.mon + 1, phase |-> "take"]
          /\ copies' = IF at.mon # 1 THEN copies \ {p} ELSE copies
          /\ UNCHANGED <<monVars, walkVars, cmd, held, begun>>

(* The last line repeats the times of the global snapshot; _admin_pack sends the   *)
(* response and releases the data of the command.                                  *)
Finish == /\ cmd # "none" /\ at.mon = NMon + 1
          /\ bad' = Fault(held.global)
          /\ copies' = copies \ {held.global}
          /\ cmd' = "none" /\ resp' = <<>> /\ room' = Room
          /\ at' = [mon |-> 1, phase |-> "take"]
          /\ held' = [global |-> NoPtr, cur |-> NoPtr]
          /\ begun' = [rounds |-> 0, walking |-> FALSE]
          /\ UNCHANGED <<monVars, walkVars>>

-----------------------------------------------------------------------------
(* Nothing is said about what follows a pointer that led nowhere. *)
Crashed == bad # {} /\ UNCHANGED monitorVars

MonNext == \/ /\ bad = {}
              /\ \/ \E m \in Monitors : Inc(m) \/ Set(m)
                 \/ SnapshotAll \/ SnapshotNext
                 \/ Begin("metrics") \/ Begin("last")
                 \/ Take \/ Use \/ Finish
           \/ Crashed

MonSpec == MonInit /\ [][MonNext]_monitorVars

-----------------------------------------------------------------------------
(***************************************************************************)
(* Properties                                                              *)
(***************************************************************************)
(* Nothing that was counted is lost or counted twice by the snapshots: the *)
(* counter and all snapshots of a monitor add up (sk_mon.c:133).           *)
Conserved == \A m \in Monitors : counted[m] = tbl[m] + SumFunction(snaps[m])

(* The window holds the newest snapshots, the newest first, and exactly    *)
(* those that fell out of it are released.                                 *)
WindowIsNewest ==
    \A m \in Monitors :
        LET n == Len(snaps[m]) IN
        /\ \A i \in 1..Window : prev[m][i] = IF i <= n THEN n + 1 - i ELSE 0
        /\ freed[m] = {k \in 1..n : k + Window <= n}

(* The walk has taken one snapshot more of the monitors behind it. *)
WalkInStep == \A i \in 1..NMon : Len(snaps[MonOrder[i]]) =
                 IF walk # 0 /\ i >= walk THEN rounds - 1 ELSE rounds

(* A command owns the copy of the global monitor and that of the one it is at. *)
CopiesOwned == copies = IF cmd # "metrics" THEN {}
                        ELSE (IF at.mon > 1 \/ at.phase = "use" THEN {held.global} ELSE {})
                               \cup (IF at.phase = "use" THEN {held.cur} ELSE {})

(* The invariant of the monitors: the conjuncts above and the types. *)
MonInv == MonTypeOK /\ Conserved /\ WindowIsNewest /\ WalkInStep /\ (bad = {} => CopiesOwned)

(***************************************************************************)
(* A response has one line for every monitor visited, in order, even when  *)
(* plain lines no longer fit; and they are all of the same minute unless   *)
(* a snapshot of all monitors overlaps the command, when they are apart by *)
(* no more than the snapshots that overlap (sk_admin.c:180).               *)
(***************************************************************************)
ReportFaithful ==
    LET metrics == {j \in DOMAIN resp : resp[j].kind = "metric"}
        lo == begun.rounds - (IF begun.walking THEN 1 ELSE 0)
        ahead == IF cmd = "metrics" THEN 1 ELSE 0
    IN cmd # "none" /\ bad = {} =>
         \E js \in [1..(at.mon - 1) -> metrics] :
            /\ \A i, k \in DOMAIN js : i < k => js[i] < js[k]
            /\ Range(js) = metrics
            /\ \A i \in DOMAIN js : /\ resp[js[i]].ptr.mon = MonOrder[i]
                                    /\ resp[js[i]].ptr.nth - ahead \in lo..rounds

(***************************************************************************)
(* `last' follows a NULL snapshot only while the very first snapshot of    *)
(* all monitors is being taken (only the global one is checked for NULL),  *)
(* and a released one only when as many snapshots as the window holds were *)
(* started or under way since the command began (sk_mon.c:189).            *)
(***************************************************************************)
FaultCause ==
    [][/\ "null" \in bad' => cmd = "last" /\ begun.rounds <= 1
                              /\ (begun.rounds = 1 => begun.walking)
       /\ "freed" \in bad' => /\ cmd = "last"
                               /\ rounds + (IF begun.walking THEN 1 ELSE 0) >= begun.rounds + Window
      ]_monitorVars
=============================================================================
