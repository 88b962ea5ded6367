----------------------------- MODULE SkMalloc -----------------------------
(***************************************************************************)
(* The memory statistics of src/common/sk_malloc.c.  malloc, free, calloc, *)
(* realloc, posix_memalign and aligned_alloc are overridden; each adds the *)
(* size of the block to the statistics of the scope the thread is in (the  *)
(* core, a module, a service) with atomic additions, and then raises the   *)
(* peak with a compare-and-swap loop over values it has read one by one.   *)
(* A traced call logs, and logging allocates.                              *)
(***************************************************************************)
EXTENDS Integers, FiniteSets, Functions

CONSTANTS Threads, Blocks,
          Scopes,     \* the structures sk_mem_stat_t: core, modules, services
          Sizes,      \* the usable sizes of blocks
          MaxAlloc,   \* bound: what is ever counted as allocated
          MaxDalloc   \* bound: what is ever counted as released

ASSUME SizesAssumption == Sizes \subseteq Nat \ {0} /\ {MaxAlloc, MaxDalloc} \subseteq Nat
ASSUME FiniteAssumption == IsFiniteSet(Threads) /\ IsFiniteSet(Blocks) /\ IsFiniteSet(Scopes)

VARIABLES live,     \* the size of each block, 0 if it is not allocated
          alloc,    \* alloc_sz of each scope
          dalloc,   \* dalloc_sz
          peak,     \* peak_sz
          th,       \* where each thread is in its call, and what it has read
          depth,    \* api_entrance of each thread
          maxUsed,  \* history: the most that was ever in use in a scope
          drift     \* history: sizes the statistics of realloc leave out

vars == <<live, alloc, dalloc, peak, th, depth, maxUsed, drift>>

NoScope == "none"
Pcs == {"idle", "add", "sub", "peak", "used1", "used2", "cas", "real", "check"}
Idle == [pc |-> "idle", scope |-> NoScope, add |-> 0, sub |-> 0,
         gone |-> {}, cur |-> 0, a |-> 0, d |-> 0]

Used(a, d) == IF a > d THEN a - d ELSE 0

Init == /\ live = [b \in Blocks |-> 0]
        /\ alloc = [s \in Scopes |-> 0] /\ dalloc = [s \in Scopes |-> 0]
        /\ peak = [s \in Scopes |-> 0] /\ maxUsed = [s \in Scopes |-> 0]
        /\ th = [t \in Threads |-> Idle]
        /\ depth = [t \in Threads |-> 0]
        /\ drift = 0

-----------------------------------------------------------------------------
(***************************************************************************)
(* The calls.  Each enters (SK_MEM_ENTER), decides what it will add to     *)
(* alloc_sz and dalloc_sz of the scope of the thread, and goes through the *)
(* steps below.  A block that is being released is nobody's.  An admin     *)
(* command turns tracing on and off at any time, so that any outer call    *)
(* may log, and so call again, before it exits.                            *)
(***************************************************************************)
Ready(t) == th[t].pc = "idle" \/ (th[t].pc = "check" /\ depth[t] = 1)
Owned(b) == live[b] > 0 /\ \A t \in Threads : b \notin th[t].gone
Within(add, sub) ==
    /\ SumFunction(alloc) + SumFunction([t \in Threads |-> th[t].add]) + add <= MaxAlloc
    /\ SumFunction(dalloc) + SumFunction([t \in Threads |-> th[t].sub]) + sub <= MaxDalloc

(* SK_MEM_ENTER: the thread is one call deeper; with nothing to add it reads at once. *)
Enter(t, s, add, sub, gone) ==
    /\ Ready(t)
    /\ Within(add, sub)
    /\ depth' = [depth EXCEPT ![t] = @ + 1]
    /\ th' = [th EXCEPT ![t] = [Idle EXCEPT !.scope = s, !.add = add, !.sub = sub, !.gone = gone,
                  !.pc = IF add > 0 THEN "add" ELSE IF sub > 0 THEN "sub" ELSE "peak"]]
    /\ UNCHANGED <<alloc, dalloc, peak, maxUsed>>

(* A new block: the real call first, then it is counted. *)
Allocate(t, s, b, n) == /\ live[b] = 0
                        /\ live' = [live EXCEPT ![b] = n]
                        /\ Enter(t, s, n, 0, {})
                        /\ UNCHANGED drift
Malloc(t, s, b, n) == Allocate(t, s, b, n)
Calloc(t, s, b, n) == Allocate(t, s, b, n)
PosixMemalign(t, s, b, n) == Allocate(t, s, b, n)
AlignedAlloc(t, s, b, n) == Allocate(t, s, b, n)
ReallocNull(t, s, b, n) == Allocate(t, s, b, n)

(* free counts first and calls the real free after that. *)
Free(t, s, b) == /\ Owned(b)
                 /\ Enter(t, s, 0, live[b], {b})
                 /\ UNCHANGED <<live, drift>>

(* realloc to size 0 has released the block before it counts. *)
ReallocZero(t, s, b) == /\ Owned(b)
                        /\ live' = [live EXCEPT ![b] = 0]
                        /\ Enter(t, s, 0, live[b], {})
                        /\ UNCHANGED drift

(* Mutant of ReallocMoves: the old block is not counted as released. *)
ReallocMovesOnly(t, s, b, n) == /\ Owned(b)
                                /\ live' = [live EXCEPT ![b] = n]
                                /\ Enter(t, s, n, 0, {})
                                /\ UNCHANGED drift

(* realloc that moves the block counts the new one, then the old one. *)
ReallocMoves(t, s, b, n) == /\ Owned(b)
                            /\ live' = [live EXCEPT ![b] = n]
                            /\ Enter(t, s, n, live[b], {})
                            /\ UNCHANGED drift

(* In place, growth is counted and shrinking is not. *)
ReallocInPlace(t, s, b, n) == /\ Owned(b)
                              /\ live' = [live EXCEPT ![b] = n]
                              /\ Enter(t, s, IF n > live[b] THEN n - live[b] ELSE 0, 0, {})
                              /\ drift' = IF n < live[b] THEN drift + (live[b] - n) ELSE drift

(* realloc that fails counts the old block as released, which it is not. *)
ReallocFails(t, s, b) == /\ Owned(b)
                         /\ Enter(t, s, 0, live[b], {})
                         /\ drift' = drift - live[b]
                         /\ UNCHANGED live

-----------------------------------------------------------------------------
(***************************************************************************)
(* The steps of a call.                                                    *)
(***************************************************************************)
Goto(t, x, pc) == th' = [th EXCEPT ![t] = [x EXCEPT !.pc = pc]]
Max2(x, y) == IF x > y THEN x ELSE y

AddAlloc(t) ==
    LET x == th[t]
        s == x.scope
    IN /\ x.pc = "add"
       /\ alloc' = [alloc EXCEPT ![s] = @ + x.add]
       /\ maxUsed' = [maxUsed EXCEPT ![s] = Max2(@, Used(alloc[s] + x.add, dalloc[s]))]
       /\ Goto(t, [x EXCEPT !.add = 0], IF x.sub > 0 THEN "sub" ELSE "peak")
       /\ UNCHANGED <<live, dalloc, peak, depth, drift>>

AddDalloc(t) ==
    LET x == th[t] IN
    /\ x.pc = "sub"
    /\ dalloc' = [dalloc EXCEPT ![x.scope] = @ + x.sub]
    /\ Goto(t, [x EXCEPT !.sub = 0], "peak")
    /\ UNCHANGED <<live, alloc, peak, depth, maxUsed, drift>>

(* SK_ATOMIC_UPDATE_PEAKSZ: the peak is read first, then sk_mem_allocated reads two values. *)
ReadPeak(t) ==
    /\ th[t].pc = "peak"
    /\ Goto(t, [th[t] EXCEPT !.cur = peak[th[t].scope]], "used1")
    /\ UNCHANGED <<live, alloc, dalloc, peak, depth, maxUsed, drift>>

ReadSwapped(i, x) == IF i = 1 THEN [x EXCEPT !.d = dalloc[x.scope]]
                     ELSE [x EXCEPT !.a = alloc[x.scope]]
Read(i, x) == IF i = 1 THEN [x EXCEPT !.a = alloc[x.scope]]
              ELSE [x EXCEPT !.d = dalloc[x.scope]]
Allocated1(t) == /\ th[t].pc = "used1"
                 /\ Goto(t, Read(1, th[t]), "used2")
                 /\ UNCHANGED <<live, alloc, dalloc, peak, depth, maxUsed, drift>>
Allocated2(t) == /\ th[t].pc = "used2"
                 /\ Goto(t, Read(2, th[t]), "cas")
                 /\ UNCHANGED <<live, alloc, dalloc, peak, depth, maxUsed, drift>>

(* The swap, or another round if another thread has changed the peak; a free goes on *)
(* to the real free.                                                                 *)
SwapsAlways(s, cur) == TRUE
Swaps(s, cur) == peak[s] = cur
AfterPeak(x) == IF x.gone = {} THEN "check" ELSE "real"
Cas(t) ==
    LET x == th[t]
        used == Used(x.a, x.d)
        done == [x EXCEPT !.cur = 0, !.a = 0, !.d = 0]
    IN /\ x.pc = "cas"
       /\ \/ x.cur = used /\ Goto(t, done, AfterPeak(x)) /\ UNCHANGED peak
          \/ /\ x.cur # used /\ Swaps(x.scope, x.cur)
             /\ peak' = [peak EXCEPT ![x.scope] = Max2(x.cur, used)]
             /\ Goto(t, done, AfterPeak(x))
          \/ x.cur # used /\ ~Swaps(x.scope, x.cur) /\ Goto(t, done, "peak") /\ UNCHANGED peak
       /\ UNCHANGED <<live, alloc, dalloc, depth, maxUsed, drift>>

RealFree(t) ==
    /\ th[t].pc = "real"
    /\ live' = [b \in Blocks |-> IF b \in th[t].gone THEN 0 ELSE live[b]]
    /\ Goto(t, [th[t] EXCEPT !.gone = {}], "check")
    /\ UNCHANGED <<alloc, dalloc, peak, depth, maxUsed, drift>>

(* SK_MEM_CHECK_AND_BREAK and SK_MEM_EXIT: a nested call returns to the logging one.  *)
(* (What a traced call allocates to log is a call of its own, see Ready.)             *)
Exit(t) ==
    /\ th[t].pc = "check"
    /\ depth' = [depth EXCEPT ![t] = @ - 1]
    /\ th' = [th EXCEPT ![t] = IF depth[t] = 1 THEN Idle ELSE [Idle EXCEPT !.pc = "check"]]
    /\ UNCHANGED <<live, alloc, dalloc, peak, maxUsed, drift>>

Call(t) == \E s \in Scopes, b \in Blocks :
              \/ Free(t, s, b) \/ ReallocZero(t, s, b) \/ ReallocFails(t, s, b)
              \/ \E n \in Sizes : \/ Malloc(t, s, b, n) \/ Calloc(t, s, b, n)
                                  \/ PosixMemalign(t, s, b, n) \/ AlignedAlloc(t, s, b, n)
                                  \/ ReallocNull(t, s, b, n)
                                  \/ ReallocMoves(t, s, b, n)
                                  \/ ReallocInPlace(t, s, b, n)

Next == \E t \in Threads : \/ Call(t)
                           \/ AddAlloc(t) \/ AddDalloc(t)
                           \/ ReadPeak(t) \/ Allocated1(t) \/ Allocated2(t) \/ Cas(t)
                           \/ RealFree(t) \/ Exit(t)

Spec == Init /\ [][Next]_vars

-----------------------------------------------------------------------------
(***************************************************************************)
(* Properties                                                              *)
(***************************************************************************)
TypeOK == /\ live \in [Blocks -> Sizes \cup {0}]
          /\ alloc \in [Scopes -> Nat] /\ dalloc \in [Scopes -> Nat]
          /\ peak \in [Scopes -> Nat] /\ maxUsed \in [Scopes -> Nat]
          /\ th \in [Threads -> [pc : Pcs, scope : Scopes \cup {NoScope}, add : Nat, sub : Nat,
                                 gone : SUBSET Blocks, cur : Nat, a : Nat, d : Nat]]
          /\ depth \in [Threads -> 0..2]
          /\ drift \in Int

(***************************************************************************)
(* The sums of all scopes, with what the calls under way still have to     *)
(* add, are the bytes in use, but for the two cases realloc does not       *)
(* count: a block that shrank in place, and one that realloc failed for    *)
(* (sk_malloc.c:625).  A block released in another scope than it was       *)
(* allocated in moves between the scopes and is not lost.                  *)
(***************************************************************************)
Accounted ==
    SumFunction([s \in Scopes |-> alloc[s] - dalloc[s]])
      + SumFunction([t \in Threads |-> th[t].add - th[t].sub])
    = SumFunction([b \in Blocks |-> IF Owned(b) THEN live[b] ELSE 0]) + drift

(***************************************************************************)
(* The peak of a scope is no more than was ever in use in it, although it  *)
(* is computed from values read at different times, and no less than what  *)
(* is in use when no call is under way in the scope (sk_malloc.c:117).     *)
(***************************************************************************)
PeakBounds ==
    \A s \in Scopes :
        /\ peak[s] <= maxUsed[s]
        /\ (\A t \in Threads : th[t].pc \in {"idle", "real", "check"} \/ th[t].scope # s)
             => peak[s] >= Used(alloc[s], dalloc[s])

(* The invariant of the statistics: types and the peak. *)
IInv == TypeOK /\ PeakBounds

(* The peak never falls, whichever threads race to raise it (sk_malloc.c:124). *)
PeakMonotone == [][\A s \in Scopes : peak'[s] >= peak[s]]_vars
=============================================================================
