-------------------------- MODULE SkProcess_proofs --------------------------
(***************************************************************************)
(* Proofs about the modules of a process as a whole: its memory statistics *)
(* (SkMalloc), its monitors (SkMon) and its life cycle (SkCore), for any   *)
(* values of their constants.                                              *)
(*                                                                         *)
(* What SkMalloc and SkMon count are sums over finite sets, and what SkCore*)
(* reads of the file is a fold over a sequence.  The library defines both  *)
(* by recursion on finite sets; the first part proves what a sum is, by    *)
(* induction over the subsets of a finite set.                             *)
(***************************************************************************)
EXTENDS SkMalloc, SkMon, SkCore, FiniteSetTheorems, WellFoundedInduction, TLAPS

(***************************************************************************)
(* Finite sets: induction, folds and sums.                                 *)
(***************************************************************************)
(* Induction over the subsets of a finite set. *)
LEMMA SubsetInduction ==
  ASSUME NEW S, IsFiniteSet(S), NEW Good,
         \A T \in SUBSET S : (\A U \in SUBSET T : U # T => U \in Good) => T \in Good
  PROVE  \A T \in SUBSET S : T \in Good
<1> DEFINE Bad == {T \in SUBSET S : T \notin Good}
<1>1. SUFFICES ASSUME Bad # {} PROVE FALSE
  OBVIOUS
<1>2. Bad \subseteq FiniteSubsetsOf(S)
  BY FS_Subset DEF FiniteSubsetsOf
<1>3. PICK T \in Bad : \A U \in Bad : ~(<<U, T>> \in StrictSubsetOrdering(S))
  <2> HIDE DEF Bad
  <2> QED BY <1>1, <1>2, WFMin, FS_StrictSubsetOrderingWellFounded
<1>4. ASSUME NEW U \in SUBSET T, U # T PROVE U \in Good
  BY <1>3, <1>4 DEF StrictSubsetOrdering
<1> QED
  BY <1>3, <1>4

(* g takes the elements of a subset of S off in the order of ch and puts   *)
(* them together with F.                                                   *)
Folding(g, S, V, base, ch, F) ==
  /\ g \in [SUBSET S -> V]
  /\ \A s \in SUBSET S : g[s] = IF s = {} THEN base ELSE F[<<ch[s], g[s \ {ch[s]}]>>]

Chooses(ch, S) == \A s \in SUBSET S : s # {} => ch[s] \in s

LEMMA FoldingAgrees ==
  ASSUME NEW S, IsFiniteSet(S), NEW V, NEW base, NEW ch, Chooses(ch, S), NEW F,
         NEW A \in SUBSET S, NEW B \in SUBSET S, NEW f, NEW g,
         Folding(f, A, V, base, ch, F), Folding(g, B, V, base, ch, F)
  PROVE  \A s \in SUBSET (A \cap B) : f[s] = g[s]
<1> DEFINE Good == {s \in SUBSET S : s \in SUBSET (A \cap B) => f[s] = g[s]}
<1>1. ASSUME NEW T \in SUBSET S, \A U \in SUBSET T : U # T => U \in Good PROVE T \in Good
  <2> SUFFICES ASSUME T \in SUBSET (A \cap B), T # {} PROVE f[T] = g[T]
    BY DEF Folding
  <2>1. ch[T] \in T
    BY DEF Chooses
  <2>2. T \ {ch[T]} \in SUBSET T /\ T \ {ch[T]} # T
    BY <2>1
  <2>3. f[T \ {ch[T]}] = g[T \ {ch[T]}]
    BY <1>1, <2>2
  <2> QED
    BY <2>3 DEF Folding
<1> HIDE DEF Good
<1>2. \A T \in SUBSET S : T \in Good
  BY <1>1, SubsetInduction
<1> QED
  BY <1>2 DEF Good

LEMMA FoldingExists ==
  ASSUME NEW S, IsFiniteSet(S), NEW V, NEW base \in V, NEW ch, Chooses(ch, S), NEW F,
         \A x \in S, v \in V : F[<<x, v>>] \in V
  PROVE  \E g : Folding(g, S, V, base, ch, F)
<1> DEFINE G(T) == CHOOSE g : Folding(g, T, V, base, ch, F)
           Good == {T \in SUBSET S : Folding(G(T), T, V, base, ch, F)}
<1>1. ASSUME NEW T \in SUBSET S, \A U \in SUBSET T : U # T => U \in Good PROVE T \in Good
  <2> DEFINE top == IF T = {} THEN base ELSE F[<<ch[T], G(T \ {ch[T]})[T \ {ch[T]}]>>]
             g == [s \in SUBSET T |-> IF s = T THEN top ELSE G(s)[s]]
  <2>1. ASSUME NEW s \in SUBSET T, s # T PROVE Folding(G(s), s, V, base, ch, F)
    BY <1>1, <2>1
  <2>2. ASSUME NEW s \in SUBSET T, s # {}
        PROVE  ch[s] \in s /\ ch[s] \in S /\ s \ {ch[s]} \in SUBSET T /\ s \ {ch[s]} # T
    BY <2>2 DEF Chooses
  <2> HIDE DEF G
  <2>3. top \in V
    <3>1. CASE T # {}
      <4> DEFINE u == T \ {ch[T]}
      <4>1. u \in SUBSET T /\ u # T /\ ch[T] \in S
        BY <2>2, <3>1
      <4> HIDE DEF u
      <4>2. Folding(G(u), u, V, base, ch, F)
        BY <2>1, <4>1
      <4>3. G(u)[u] \in V
        BY <4>2 DEF Folding
      <4> QED
        BY <3>1, <4>1, <4>3 DEF u
    <3> QED
      BY <3>1
  <2>4. g \in [SUBSET T -> V]
    BY <2>1, <2>3 DEF Folding
  <2>5. ASSUME NEW s \in SUBSET T
        PROVE  g[s] = IF s = {} THEN base ELSE F[<<ch[s], g[s \ {ch[s]}]>>]
    <3>1. CASE s = {}
      <4>1. CASE s = T
        BY <3>1, <4>1
      <4>2. CASE s # T
        BY <2>1, <3>1, <4>2 DEF Folding
      <4> QED
        BY <4>1, <4>2
    <3>2. CASE s # {}
      <4> DEFINE u == s \ {ch[s]}
      <4>1. u \in SUBSET T /\ u # T /\ u \in SUBSET s
        BY <2>2, <3>2
      <4>2. g[u] = G(u)[u]
        BY <4>1
      <4>3. CASE s = T
        BY <3>2, <4>2, <4>3
      <4>4. CASE s # T
        <5>1. g[s] = G(s)[s] /\ Folding(G(s), s, V, base, ch, F) /\ Folding(G(u), u, V, base, ch, F)
          BY <2>1, <4>1, <4>4
        <5>2. G(s)[s] = F[<<ch[s], G(s)[u]>>]
          BY <3>2, <5>1 DEF Folding
        <5>3. s \in SUBSET S /\ u \in SUBSET S /\ u \in SUBSET (s \cap u)
          BY <4>1
        <5>4. G(s)[u] = G(u)[u]
          <6> DEFINE a == G(s)
                     b == G(u)
          <6>1. Folding(a, s, V, base, ch, F) /\ Folding(b, u, V, base, ch, F)
            BY <5>1
          <6> HIDE DEF a, b, u
          <6>2. \A r \in SUBSET (s \cap u) : a[r] = b[r]
            BY <5>3, <6>1, FoldingAgrees
          <6>3. a[u] = b[u]
            BY <5>3, <6>2
          <6> QED
            BY <6>3 DEF a, b
        <5> QED
          BY <3>2, <4>2, <5>1, <5>2, <5>4
      <4> QED
        BY <4>3, <4>4
    <3> QED
      BY <3>1, <3>2
  <2> HIDE DEF g
  <2>6. Folding(g, T, V, base, ch, F)
    BY <2>4, <2>5 DEF Folding
  <2> QED
    BY <2>6 DEF G
<1> HIDE DEF Good
<1>2. S \in Good
  BY <1>1, SubsetInduction
<1> QED
  BY <1>2 DEF Good

------------------------------------------------------------------------------
Elem(s) == CHOOSE x \in s : TRUE

(* g computes the sums of f over the subsets of S.                         *)
Sums(g, f, S) ==
  /\ g \in [SUBSET S -> Int]
  /\ \A s \in SUBSET S : g[s] = IF s = {} THEN 0 ELSE f[Elem(s)] + g[s \ {Elem(s)}]

LEMMA SumIs ==
  ASSUME NEW S, IsFiniteSet(S), NEW f, \A x \in S : f[x] \in Int
  PROVE  \E g : Sums(g, f, S) /\ SumFunctionOnSet(f, S) = g[S]
<1> DEFINE ch == [s \in SUBSET S |-> Elem(s)]
           F == [p \in S \X Int |-> f[p[1]] + p[2]]
           Eq(g) == g = [s \in SUBSET S |-> IF s = {} THEN 0 ELSE f[Elem(s)] + g[s \ {Elem(s)}]]
<1>1. Chooses(ch, S)
  BY DEF Chooses, Elem
<1>2. \A x \in S, v \in Int : F[<<x, v>>] = f[x] + v /\ F[<<x, v>>] \in Int
  OBVIOUS
<1>3. \A s \in SUBSET S : ch[s] = Elem(s) /\ (s # {} => Elem(s) \in S)
  BY DEF Elem
<1>4. \E g : Folding(g, S, Int, 0, ch, F)
  <2>1. \A x \in S, v \in Int : F[<<x, v>>] \in Int
    BY <1>2
  <2>2. 0 \in Int
    OBVIOUS
  <2> HIDE DEF ch, F
  <2> QED
    BY <1>1, <2>1, <2>2, FoldingExists
<1>5. ASSUME NEW g, Folding(g, S, Int, 0, ch, F) PROVE Eq(g)
  <2> HIDE DEF ch, F
  <2>1. \A s \in SUBSET S : s # {} => g[s] = F[<<Elem(s), g[s \ {Elem(s)}]>>] /\ g[s \ {Elem(s)}] \in Int
    BY <1>3, <1>5 DEF Folding
  <2>2. \A s \in SUBSET S : s # {} => g[s] = f[Elem(s)] + g[s \ {Elem(s)}]
    BY <1>2, <1>3, <2>1
  <2> QED
    BY <1>5, <2>2 DEF Folding
<1>6. \E g : Eq(g)
  BY <1>4, <1>5
<1> DEFINE gd == CHOOSE g : Eq(g)
<1>7. Eq(gd)
  BY <1>6
<1>8. SumFunctionOnSet(f, S) = gd[S]
  BY DEF SumFunctionOnSet, FoldFunctionOnSet, MapThenFoldSet, Elem
<1> HIDE DEF gd
<1>9. PICK g : Folding(g, S, Int, 0, ch, F)
  BY <1>4
<1>10. gd = g
  <2> DEFINE Good == {s \in SUBSET S : gd[s] = g[s]}
  <2>1. Eq(g)
    BY <1>5, <1>9
  <2>2. ASSUME NEW T \in SUBSET S, \A U \in SUBSET T : U # T => U \in Good PROVE T \in Good
    <3>1. CASE T = {}
      BY <1>7, <2>1, <3>1
    <3>2. CASE T # {}
      <4>1. Elem(T) \in T
        BY <3>2 DEF Elem
      <4>2. T \ {Elem(T)} \in SUBSET T /\ T \ {Elem(T)} # T
        BY <4>1
      <4>3. gd[T \ {Elem(T)}] = g[T \ {Elem(T)}]
        BY <2>2, <4>2
      <4>4. gd[T] = f[Elem(T)] + gd[T \ {Elem(T)}] /\ g[T] = f[Elem(T)] + g[T \ {Elem(T)}]
        BY <1>7, <2>1, <3>2
      <4> QED
        BY <4>3, <4>4
    <3> QED
      BY <3>1, <3>2
  <2> HIDE DEF Good
  <2>3. \A T \in SUBSET S : T \in Good
    BY <2>2, SubsetInduction
  <2>4. \A T \in SUBSET S : gd[T] = g[T]
    BY <2>3 DEF Good
  <2> QED
    BY <1>7, <2>1, <2>4
<1>11. Sums(g, f, S)
  <2> HIDE DEF ch, F
  <2>1. g \in [SUBSET S -> Int] /\ Eq(g)
    BY <1>5, <1>9 DEF Folding
  <2> QED
    BY <2>1 DEF Sums
<1> QED
  BY <1>8, <1>10, <1>11

LEMMA SumsAgree ==
  ASSUME NEW S, NEW f, NEW g, Sums(g, f, S), NEW R, NEW d, NEW gd, Sums(gd, d, R),
         NEW A \in SUBSET S, A \in SUBSET R, IsFiniteSet(A), \A x \in A : f[x] = d[x]
  PROVE  g[A] = gd[A]
<1> DEFINE Good == {s \in SUBSET A : g[s] = gd[s]}
<1>1. ASSUME NEW T \in SUBSET A, \A U \in SUBSET T : U # T => U \in Good PROVE T \in Good
  <2>1. CASE T = {}
    BY <2>1 DEF Sums
  <2>2. CASE T # {}
    <3>1. Elem(T) \in T
      BY <2>2 DEF Elem
    <3>2. T \ {Elem(T)} \in SUBSET T /\ T \ {Elem(T)} # T
      BY <3>1
    <3>3. g[T \ {Elem(T)}] = gd[T \ {Elem(T)}]
      BY <1>1, <3>2
    <3>4. g[T] = f[Elem(T)] + g[T \ {Elem(T)}] /\ gd[T] = d[Elem(T)] + gd[T \ {Elem(T)}]
      BY <2>2 DEF Sums
    <3> QED
      BY <3>1, <3>3, <3>4
  <2> QED
    BY <2>1, <2>2
<1> HIDE DEF Good
<1>2. A \in Good
  BY <1>1, SubsetInduction
<1> QED
  BY <1>2 DEF Good

LEMMA SumsSplit ==
  ASSUME NEW S, IsFiniteSet(S), NEW f, \A y \in S : f[y] \in Int, NEW g, Sums(g, f, S),
         NEW z \in S
  PROVE  g[S] = f[z] + g[S \ {z}]
<1> DEFINE Good == {T \in SUBSET S : \A x \in T : g[T] = f[x] + g[T \ {x}]}
<1>1. ASSUME NEW T \in SUBSET S, \A U \in SUBSET T : U # T => U \in Good PROVE T \in Good
  <2> SUFFICES ASSUME NEW x \in T PROVE g[T] = f[x] + g[T \ {x}]
    OBVIOUS
  <2> DEFINE y == Elem(T)
  <2>1. y \in T
    BY DEF Elem
  <2>2. g[T] = f[y] + g[T \ {y}]
    BY DEF Sums
  <2> HIDE DEF y
  <2>3. CASE x # y
    <3>1. /\ T \ {x} \in SUBSET T /\ T \ {x} # T /\ y \in T \ {x}
          /\ T \ {y} \in SUBSET T /\ T \ {y} # T /\ x \in T \ {y}
      BY <2>1, <2>3
    <3>2. g[T \ {x}] = f[y] + g[(T \ {x}) \ {y}]
      BY <1>1, <3>1
    <3>3. g[T \ {y}] = f[x] + g[(T \ {y}) \ {x}]
      BY <1>1, <3>1
    <3>4. (T \ {x}) \ {y} = (T \ {y}) \ {x}
      OBVIOUS
    <3>5. g[(T \ {x}) \ {y}] \in Int /\ f[x] \in Int /\ f[y] \in Int
      BY <2>1 DEF Sums
    <3> DEFINE a == f[x]
               b == f[y]
               c == g[(T \ {x}) \ {y}]
    <3>6. g[T \ {x}] = b + c /\ g[T] = b + (a + c)
      BY <2>2, <3>2, <3>3, <3>4
    <3>7. a \in Int /\ b \in Int /\ c \in Int
      BY <3>5
    <3> HIDE DEF a, b, c
    <3>8. b + (a + c) = a + (b + c)
      BY <3>7
    <3> QED
      BY <3>6, <3>8 DEF a
  <2> QED
    BY <2>2, <2>3
<1> HIDE DEF Good
<1>2. S \in Good
  BY <1>1, SubsetInduction
<1> QED
  BY <1>2 DEF Good

(* A sum over a finite set of integers, one element taken off it.          *)
LEMMA SumSplit ==
  ASSUME NEW S, IsFiniteSet(S), NEW f, \A x \in S : f[x] \in Int, NEW x \in S
  PROVE  /\ SumFunctionOnSet(f, S) = f[x] + SumFunctionOnSet(f, S \ {x})
         /\ SumFunctionOnSet(f, S \ {x}) \in Int
<1>1. PICK g : Sums(g, f, S) /\ SumFunctionOnSet(f, S) = g[S]
  BY SumIs
<1> DEFINE R == S \ {x}
<1>2. IsFiniteSet(R) /\ R \in SUBSET S /\ \A y \in R : f[y] \in Int
  BY FS_RemoveElement
<1> HIDE DEF R
<1>3. PICK gd : Sums(gd, f, R) /\ SumFunctionOnSet(f, R) = gd[R]
  BY <1>2, SumIs
<1>4. g[R] = gd[R]
  BY <1>1, <1>2, <1>3, SumsAgree
<1>5. S \in SUBSET S /\ gd[R] \in Int
  BY <1>3 DEF Sums
<1>6. g[S] = f[x] + g[S \ {x}]
  <2>1. Sums(g, f, S)
    BY <1>1
  <2>2. \A y \in S : f[y] \in Int
    OBVIOUS
  <2> QED
    BY <2>1, <2>2, SumsSplit, SMTT(20)
<1> QED
  BY <1>1, <1>3, <1>4, <1>5, <1>6 DEF R

LEMMA SumAgree ==
  ASSUME NEW S, IsFiniteSet(S), NEW f, NEW d, \A x \in S : f[x] \in Int /\ d[x] = f[x]
  PROVE  SumFunctionOnSet(f, S) = SumFunctionOnSet(d, S)
<1>1. PICK g : Sums(g, f, S) /\ SumFunctionOnSet(f, S) = g[S]
  BY SumIs
<1>2. \A x \in S : d[x] \in Int
  OBVIOUS
<1>3. PICK gd : Sums(gd, d, S) /\ SumFunctionOnSet(d, S) = gd[S]
  BY <1>2, SumIs
<1>4. g[S] = gd[S]
  BY <1>1, <1>3, SumsAgree
<1> QED
  BY <1>1, <1>3, <1>4

LEMMA SumType ==
  ASSUME NEW S, IsFiniteSet(S), NEW f, \A x \in S : f[x] \in Int
  PROVE  /\ SumFunctionOnSet(f, S) \in Int
         /\ S = {} => SumFunctionOnSet(f, S) = 0
<1>1. PICK g : Sums(g, f, S) /\ SumFunctionOnSet(f, S) = g[S]
  BY SumIs
<1> QED
  BY <1>1 DEF Sums

LEMMA SumZero ==
  ASSUME NEW S, IsFiniteSet(S), NEW f, \A x \in S : f[x] = 0
  PROVE  SumFunctionOnSet(f, S) = 0
<1>0. \A x \in S : f[x] \in Int
  OBVIOUS
<1>1. PICK g : Sums(g, f, S) /\ SumFunctionOnSet(f, S) = g[S]
  BY <1>0, SumIs
<1> DEFINE Good == {s \in SUBSET S : g[s] = 0}
<1>2. ASSUME NEW T \in SUBSET S, \A U \in SUBSET T : U # T => U \in Good PROVE T \in Good
  <2>1. CASE T = {}
    BY <1>1, <2>1 DEF Sums
  <2>2. CASE T # {}
    <3>1. Elem(T) \in T
      BY <2>2 DEF Elem
    <3>2. T \ {Elem(T)} \in SUBSET T /\ T \ {Elem(T)} # T
      BY <3>1
    <3>3. g[T \ {Elem(T)}] = 0
      BY <1>2, <3>2
    <3>4. g[T] = f[Elem(T)] + g[T \ {Elem(T)}]
      BY <1>1, <2>2 DEF Sums
    <3> QED
      BY <3>1, <3>3, <3>4
  <2> QED
    BY <2>1, <2>2
<1> HIDE DEF Good
<1>3. S \in Good
  BY <1>2, SubsetInduction
<1> QED
  BY <1>1, <1>3 DEF Good

(* One summand changes.                                                    *)
LEMMA SumChange ==
  ASSUME NEW S, IsFiniteSet(S), NEW f, NEW d, NEW x \in S,
         \A y \in S : f[y] \in Int /\ d[y] \in Int, \A y \in S \ {x} : d[y] = f[y]
  PROVE  SumFunctionOnSet(d, S) = SumFunctionOnSet(f, S) + (d[x] - f[x])
<1> DEFINE R == S \ {x}
<1>1. IsFiniteSet(R) /\ \A y \in R : f[y] \in Int /\ d[y] = f[y]
  BY FS_RemoveElement
<1>2. SumFunctionOnSet(f, S) = f[x] + SumFunctionOnSet(f, R) /\ SumFunctionOnSet(f, R) \in Int
  BY SumSplit
<1>3. SumFunctionOnSet(d, S) = d[x] + SumFunctionOnSet(d, R)
  BY SumSplit
<1> HIDE DEF R
<1>4. SumFunctionOnSet(f, R) = SumFunctionOnSet(d, R)
  BY <1>1, SumAgree
<1> QED
  BY <1>2, <1>3, <1>4

(***************************************************************************)
(* The memory statistics.  PeakInv says of a thread what it has read       *)
(* (Knows): its peak is not above the one that is there, and what it       *)
(* computes from alloc_sz and a later dalloc_sz was once in use; and of a  *)
(* scope that its peak covers what is in use or that some thread is on its *)
(* way to raise it (Covered).                                              *)
(***************************************************************************)
ThRec == [pc : Pcs, scope : Scopes \cup {NoScope}, add : Nat, sub : Nat,
          gone : SUBSET Blocks, cur : Nat, a : Nat, d : Nat]

(* What thread t has read of its scope.                                    *)
Knows(t) ==
  LET x == th[t]
      s == x.scope
  IN  /\ x.pc \notin {"idle", "check"} => s \in Scopes
      /\ x.pc \in {"used1", "used2", "cas"} => x.cur <= peak[s]
      /\ x.pc = "used2" => Used(x.a, dalloc[s]) <= maxUsed[s]
      /\ x.pc = "cas" => Used(x.a, x.d) <= maxUsed[s]
      /\ x.pc = "idle" <=> depth[t] = 0

(* Thread t will raise the peak of scope s to what is in use there.        *)
Raises(t, s) ==
  /\ th[t].scope = s
  /\ \/ th[t].pc \in {"sub", "peak", "used1"}
     \/ th[t].pc = "used2" /\ th[t].a = alloc[s]
     \/ th[t].pc = "cas" /\ th[t].a = alloc[s] /\ th[t].d <= dalloc[s]

Covered(s) ==
  /\ Used(alloc[s], dalloc[s]) <= maxUsed[s] /\ peak[s] <= maxUsed[s]
  /\ peak[s] >= Used(alloc[s], dalloc[s]) \/ \E t \in Threads : Raises(t, s)

PeakInv ==
  /\ TypeOK
  /\ \A t \in Threads : Knows(t)
  /\ \A s \in Scopes : Covered(s)

LEMMA UsedFacts ==
  /\ \A a, d \in Nat : Used(a, d) \in Nat
  /\ \A a, d, e \in Nat : d <= e => Used(a, e) <= Used(a, d)
BY DEF Used

------------------------------------------------------------------------------
(* A step that leaves the statistics alone: thread t takes record y.       *)
LEMMA QuietStep ==
  ASSUME PeakInv, NEW t \in Threads, NEW y \in ThRec, NEW n \in 0..2,
         th' = [th EXCEPT ![t] = y], depth' = [depth EXCEPT ![t] = n],
         live' \in [Blocks -> Sizes \cup {0}], drift' \in Int,
         alloc' = alloc, dalloc' = dalloc, peak' = peak, maxUsed' = maxUsed,
         y.pc \notin {"idle", "check"} => y.scope \in Scopes,
         y.pc \in {"used1", "used2", "cas"} => y.cur <= peak[y.scope],
         y.pc = "used2" => Used(y.a, dalloc[y.scope]) <= maxUsed[y.scope],
         y.pc = "cas" => Used(y.a, y.d) <= maxUsed[y.scope],
         y.pc = "idle" <=> n = 0,
         \A s \in Scopes : Raises(t, s) => Raises(t, s)' \/ peak[s] >= Used(alloc[s], dalloc[s])
  PROVE  PeakInv'
<1>0. /\ th \in [Threads -> ThRec] /\ depth \in [Threads -> 0..2]
      /\ alloc \in [Scopes -> Nat] /\ dalloc \in [Scopes -> Nat]
      /\ peak \in [Scopes -> Nat] /\ maxUsed \in [Scopes -> Nat]
  BY DEF PeakInv, TypeOK, ThRec
<1>1. /\ th'[t] = y /\ depth'[t] = n
      /\ \A u \in Threads \ {t} : th'[u] = th[u] /\ depth'[u] = depth[u]
  BY <1>0
<1>2. TypeOK'
  BY <1>0 DEF TypeOK, ThRec
<1>3. ASSUME NEW u \in Threads
      PROVE  Knows(u)'
  <2>1. CASE u = t
    BY <1>1, <2>1 DEF Knows
  <2>2. CASE u # t
    <3>1. Knows(u)
      BY DEF PeakInv
    <3> QED
      BY <1>1, <2>2, <3>1 DEF Knows
  <2> QED
    BY <2>1, <2>2
<1>4. ASSUME NEW s \in Scopes
      PROVE  Covered(s)'
  <2>1. Covered(s)
    BY DEF PeakInv
  <2>2. \A u \in Threads \ {t} : Raises(u, s) => Raises(u, s)'
    BY <1>1 DEF Raises
  <2> QED
    BY <2>1, <2>2 DEF Covered
<1> QED
  BY <1>2, <1>3, <1>4 DEF PeakInv

(* SK_MEM_ENTER.                                                           *)
LEMMA EnterStep ==
  ASSUME PeakInv, NEW t \in Threads, NEW s \in Scopes, NEW add \in Nat, NEW sub \in Nat,
         NEW gone \in SUBSET Blocks, Enter(t, s, add, sub, gone),
         live' \in [Blocks -> Sizes \cup {0}], drift' \in Int
  PROVE  PeakInv'
<1>0. th[t] \in ThRec /\ depth \in [Threads -> 0..2] /\ Knows(t)
  BY DEF PeakInv, TypeOK, ThRec
<1>1. PICK p \in {"add", "sub", "peak"} :
         p = IF add > 0 THEN "add" ELSE IF sub > 0 THEN "sub" ELSE "peak"
  OBVIOUS
<1>2. PICK y : y = [Idle EXCEPT !.scope = s, !.add = add, !.sub = sub, !.gone = gone, !.pc = p]
  OBVIOUS
<1>3. y \in ThRec /\ y.pc = p /\ y.scope = s
  BY <1>1, <1>2 DEF Idle, ThRec, Pcs
<1>4. depth[t] \in {0, 1} /\ th[t].pc \in {"idle", "check"}
  BY <1>0 DEF Enter, Ready, Knows
<1>5. PICK n \in 1..2 : n = depth[t] + 1
  BY <1>4
<1>6. /\ th' = [th EXCEPT ![t] = y] /\ depth' = [depth EXCEPT ![t] = n]
      /\ alloc' = alloc /\ dalloc' = dalloc /\ peak' = peak /\ maxUsed' = maxUsed
  BY <1>0, <1>1, <1>2, <1>5 DEF Enter
<1>7. \A r \in Scopes : ~Raises(t, r)
  BY <1>4 DEF Raises
<1>8. n \in 0..2 /\ n # 0
  BY <1>5
<1>9. y.pc \notin {"idle", "check", "used1", "used2", "cas"}
  BY <1>3
<1> QED
  BY <1>3, <1>6, <1>7, <1>8, <1>9, QuietStep

LEMMA CallStep == ASSUME PeakInv, NEW t \in Threads, Call(t) PROVE PeakInv'
<1>0. live \in [Blocks -> Sizes \cup {0}] /\ drift \in Int
  BY DEF PeakInv, TypeOK
<1>1. Sizes \subseteq Nat /\ \A b \in Blocks : live[b] \in Nat
  <2>1. \A n \in Sizes : n \in Nat
    BY SizesAssumption
  <2>2. \A b \in Blocks : live[b] \in Sizes \/ live[b] = 0
    BY <1>0
  <2> QED
    BY <2>1, <2>2
<1>2. PICK s \in Scopes, b \in Blocks :
        \/ Free(t, s, b) \/ ReallocZero(t, s, b) \/ ReallocFails(t, s, b)
        \/ \E n \in Sizes : \/ Malloc(t, s, b, n) \/ Calloc(t, s, b, n)
                            \/ PosixMemalign(t, s, b, n) \/ AlignedAlloc(t, s, b, n)
                            \/ ReallocNull(t, s, b, n)
                            \/ ReallocMoves(t, s, b, n)
                            \/ ReallocInPlace(t, s, b, n)
  BY DEF Call
<1>3. 0 \in Nat /\ {} \in SUBSET Blocks /\ {b} \in SUBSET Blocks
  OBVIOUS
<1>4. CASE Free(t, s, b)
  <2>1. Enter(t, s, 0, live[b], {b}) /\ live' = live /\ drift' = drift
    BY <1>4 DEF Free
  <2> QED
    BY <1>0, <1>1, <1>3, <2>1, EnterStep
<1>5. CASE ReallocZero(t, s, b)
  <2>1. /\ Enter(t, s, 0, live[b], {}) /\ drift' = drift
        /\ live' = [live EXCEPT ![b] = 0]
    BY <1>5 DEF ReallocZero
  <2>2. live' \in [Blocks -> Sizes \cup {0}]
    BY <1>0, <2>1
  <2> QED
    BY <1>0, <1>1, <1>3, <2>1, <2>2, EnterStep
<1>6. CASE ReallocFails(t, s, b)
  <2>1. Enter(t, s, 0, live[b], {}) /\ drift' = drift - live[b] /\ live' = live
    BY <1>6 DEF ReallocFails
  <2>2. drift' \in Int
    BY <1>0, <1>1, <2>1
  <2> QED
    BY <1>0, <1>1, <1>3, <2>1, <2>2, EnterStep
<1>7. ASSUME NEW n \in Sizes, Allocate(t, s, b, n)
      PROVE  PeakInv'
  <2>1. Enter(t, s, n, 0, {}) /\ drift' = drift /\ live' = [live EXCEPT ![b] = n]
    BY <1>7 DEF Allocate
  <2>2. live' \in [Blocks -> Sizes \cup {0}] /\ n \in Nat
    BY <1>0, <1>1, <2>1
  <2> QED
    BY <1>0, <1>3, <2>1, <2>2, EnterStep
<1>8. ASSUME NEW n \in Sizes, ReallocMoves(t, s, b, n)
      PROVE  PeakInv'
  <2>1. Enter(t, s, n, live[b], {}) /\ drift' = drift /\ live' = [live EXCEPT ![b] = n]
    BY <1>8 DEF ReallocMoves
  <2>2. live' \in [Blocks -> Sizes \cup {0}] /\ n \in Nat
    BY <1>0, <1>1, <2>1
  <2> QED
    BY <1>0, <1>1, <1>3, <2>1, <2>2, EnterStep
<1>9. ASSUME NEW n \in Sizes, ReallocInPlace(t, s, b, n)
      PROVE  PeakInv'
  <2>0. n \in Nat /\ live[b] \in Nat
    BY <1>1
  <2>1. PICK k \in Nat : k = IF n > live[b] THEN n - live[b] ELSE 0
    BY <2>0
  <2>2. Enter(t, s, k, 0, {}) /\ live' = [live EXCEPT ![b] = n]
    BY <1>9, <2>1 DEF ReallocInPlace
  <2>3. drift' = IF n < live[b] THEN drift + (live[b] - n) ELSE drift
    BY <1>9 DEF ReallocInPlace
  <2>4. live' \in [Blocks -> Sizes \cup {0}] /\ drift' \in Int
    BY <1>0, <2>0, <2>2, <2>3
  <2> QED
    BY <1>3, <2>2, <2>4, EnterStep
<1> QED
  BY <1>2, <1>4, <1>5, <1>6, <1>7, <1>8, <1>9
     DEF Malloc, Calloc, PosixMemalign, AlignedAlloc, ReallocNull

------------------------------------------------------------------------------
(* The steps of a call that only read.                                     *)
LEMMA ThreadFacts ==
  ASSUME PeakInv, NEW t \in Threads
  PROVE  /\ th[t] \in ThRec /\ depth \in [Threads -> 0..2] /\ depth[t] \in 0..2
         /\ depth = [depth EXCEPT ![t] = depth[t]]
         /\ live \in [Blocks -> Sizes \cup {0}] /\ drift \in Int
         /\ Knows(t)
         /\ \A s \in Scopes : /\ alloc[s] \in Nat /\ dalloc[s] \in Nat /\ peak[s] \in Nat
                              /\ maxUsed[s] \in Nat /\ Covered(s)
BY DEF PeakInv, TypeOK, ThRec

LEMMA ReadPeakStep == ASSUME PeakInv, NEW t \in Threads, ReadPeak(t) PROVE PeakInv'
<1>0. /\ th[t] \in ThRec /\ depth[t] \in 0..2 /\ depth = [depth EXCEPT ![t] = depth[t]]
      /\ live \in [Blocks -> Sizes \cup {0}] /\ drift \in Int /\ Knows(t)
  BY ThreadFacts
<1>1. PICK s \in Scopes : th[t].pc = "peak" /\ s = th[t].scope
  BY <1>0 DEF ReadPeak, Knows
<1>2. PICK y : y = [th[t] EXCEPT !.cur = peak[s], !.pc = "used1"]
  OBVIOUS
<1>3. peak[s] \in Nat
  BY ThreadFacts
<1>4. y \in ThRec /\ y.pc = "used1" /\ y.scope = s /\ y.cur = peak[s]
  BY <1>0, <1>1, <1>2, <1>3 DEF ThRec, Pcs
<1>5. /\ th' = [th EXCEPT ![t] = y] /\ depth' = depth /\ live' = live /\ drift' = drift
      /\ alloc' = alloc /\ dalloc' = dalloc /\ peak' = peak /\ maxUsed' = maxUsed
  BY <1>0, <1>1, <1>2 DEF ReadPeak, Goto, ThRec
<1>6. th'[t] = y
  BY <1>5 DEF PeakInv, TypeOK
<1>7. \A r \in Scopes : Raises(t, r) => Raises(t, r)'
  BY <1>1, <1>4, <1>6 DEF Raises
<1>8. y.cur <= peak[y.scope] /\ depth[t] # 0
  BY <1>0, <1>1, <1>3, <1>4 DEF Knows
<1> QED
  BY <1>0, <1>4, <1>5, <1>7, <1>8, QuietStep

LEMMA Allocated1Step == ASSUME PeakInv, NEW t \in Threads, Allocated1(t) PROVE PeakInv'
<1>0. /\ th[t] \in ThRec /\ depth[t] \in 0..2 /\ depth = [depth EXCEPT ![t] = depth[t]]
      /\ live \in [Blocks -> Sizes \cup {0}] /\ drift \in Int /\ Knows(t)
  BY ThreadFacts
<1>1. PICK s \in Scopes : th[t].pc = "used1" /\ s = th[t].scope
  BY <1>0 DEF Allocated1, Knows
<1>2. PICK y : y = [th[t] EXCEPT !.a = alloc[s], !.pc = "used2"]
  OBVIOUS
<1>3. alloc[s] \in Nat /\ Used(alloc[s], dalloc[s]) <= maxUsed[s]
  BY ThreadFacts DEF Covered
<1>4. y \in ThRec /\ y.pc = "used2" /\ y.scope = s /\ y.a = alloc[s] /\ y.cur = th[t].cur
  BY <1>0, <1>1, <1>2, <1>3 DEF ThRec, Pcs
<1>5. /\ th' = [th EXCEPT ![t] = y] /\ depth' = depth /\ live' = live /\ drift' = drift
      /\ alloc' = alloc /\ dalloc' = dalloc /\ peak' = peak /\ maxUsed' = maxUsed
  BY <1>0, <1>1, <1>2 DEF Allocated1, Goto, Read, ThRec
<1>6. th'[t] = y
  BY <1>5 DEF PeakInv, TypeOK
<1>7. \A r \in Scopes : Raises(t, r) => Raises(t, r)'
  BY <1>1, <1>4, <1>5, <1>6 DEF Raises
<1>8. /\ y.cur <= peak[y.scope] /\ depth[t] # 0
      /\ Used(y.a, dalloc[y.scope]) <= maxUsed[y.scope]
  BY <1>0, <1>1, <1>3, <1>4 DEF Knows
<1> QED
  BY <1>0, <1>4, <1>5, <1>7, <1>8, QuietStep

LEMMA Allocated2Step == ASSUME PeakInv, NEW t \in Threads, Allocated2(t) PROVE PeakInv'
<1>0. /\ th[t] \in ThRec /\ depth[t] \in 0..2 /\ depth = [depth EXCEPT ![t] = depth[t]]
      /\ live \in [Blocks -> Sizes \cup {0}] /\ drift \in Int /\ Knows(t)
  BY ThreadFacts
<1>1. PICK s \in Scopes : th[t].pc = "used2" /\ s = th[t].scope
  BY <1>0 DEF Allocated2, Knows
<1>2. PICK y : y = [th[t] EXCEPT !.d = dalloc[s], !.pc = "cas"]
  OBVIOUS
<1>3. dalloc[s] \in Nat
  BY ThreadFacts
<1>4. /\ y \in ThRec /\ y.pc = "cas" /\ y.scope = s /\ y.d = dalloc[s]
      /\ y.cur = th[t].cur /\ y.a = th[t].a
  BY <1>0, <1>1, <1>2, <1>3 DEF ThRec, Pcs
<1>5. /\ th' = [th EXCEPT ![t] = y] /\ depth' = depth /\ live' = live /\ drift' = drift
      /\ alloc' = alloc /\ dalloc' = dalloc /\ peak' = peak /\ maxUsed' = maxUsed
  BY <1>0, <1>1, <1>2 DEF Allocated2, Goto, Read, ThRec
<1>6. th'[t] = y
  BY <1>5 DEF PeakInv, TypeOK
<1>7. \A r \in Scopes : Raises(t, r) => Raises(t, r)'
  BY <1>1, <1>3, <1>4, <1>5, <1>6 DEF Raises
<1>8. /\ y.cur <= peak[y.scope] /\ depth[t] # 0
      /\ Used(y.a, y.d) <= maxUsed[y.scope]
  BY <1>0, <1>1, <1>4 DEF Knows
<1> QED
  BY <1>0, <1>4, <1>5, <1>7, <1>8, QuietStep

LEMMA RealFreeStep == ASSUME PeakInv, NEW t \in Threads, RealFree(t) PROVE PeakInv'
<1>0. /\ th[t] \in ThRec /\ depth[t] \in 0..2 /\ depth = [depth EXCEPT ![t] = depth[t]]
      /\ live \in [Blocks -> Sizes \cup {0}] /\ drift \in Int /\ Knows(t)
  BY ThreadFacts
<1>1. th[t].pc = "real" /\ depth[t] # 0
  BY <1>0 DEF RealFree, Knows
<1>2. PICK y : y = [th[t] EXCEPT !.gone = {}, !.pc = "check"]
  OBVIOUS
<1>3. y \in ThRec /\ y.pc = "check"
  BY <1>0, <1>2 DEF ThRec, Pcs
<1>4. /\ th' = [th EXCEPT ![t] = y] /\ depth' = depth /\ drift' = drift
      /\ alloc' = alloc /\ dalloc' = dalloc /\ peak' = peak /\ maxUsed' = maxUsed
  BY <1>0, <1>2 DEF RealFree, Goto, ThRec
<1>5. live' \in [Blocks -> Sizes \cup {0}]
  BY <1>0 DEF RealFree
<1>6. \A r \in Scopes : ~Raises(t, r)
  BY <1>1 DEF Raises
<1> QED
  BY <1>0, <1>1, <1>3, <1>4, <1>5, <1>6, QuietStep

LEMMA ExitStep == ASSUME PeakInv, NEW t \in Threads, Exit(t) PROVE PeakInv'
<1>0. /\ th[t] \in ThRec /\ depth[t] \in 0..2
      /\ live \in [Blocks -> Sizes \cup {0}] /\ drift \in Int /\ Knows(t)
  BY ThreadFacts
<1>1. th[t].pc = "check" /\ depth[t] \in {1, 2}
  BY <1>0 DEF Exit, Knows
<1>2. PICK y : y = IF depth[t] = 1 THEN Idle ELSE [Idle EXCEPT !.pc = "check"]
  OBVIOUS
<1>3. /\ y \in ThRec /\ y.pc \in {"idle", "check"}
      /\ y.pc = "idle" <=> depth[t] = 1
  BY <1>2 DEF ThRec, Pcs, Idle
<1>4. PICK n \in 0..2 : n = depth[t] - 1 /\ (n = 0 <=> depth[t] = 1)
  BY <1>1
<1>5. /\ th' = [th EXCEPT ![t] = y] /\ depth' = [depth EXCEPT ![t] = n] /\ drift' = drift
      /\ live' = live
      /\ alloc' = alloc /\ dalloc' = dalloc /\ peak' = peak /\ maxUsed' = maxUsed
  BY <1>2, <1>4 DEF Exit
<1>6. \A r \in Scopes : ~Raises(t, r)
  BY <1>1 DEF Raises
<1>7. y.pc = "idle" <=> n = 0
  BY <1>3, <1>4
<1> QED
  BY <1>0, <1>3, <1>5, <1>6, <1>7, QuietStep

------------------------------------------------------------------------------
(* The atomic additions.                                                   *)
LEMMA AddAllocStep == ASSUME PeakInv, NEW t \in Threads, AddAlloc(t) PROVE PeakInv'
<1>0. /\ th \in [Threads -> ThRec] /\ alloc \in [Scopes -> Nat] /\ dalloc \in [Scopes -> Nat]
      /\ peak \in [Scopes -> Nat] /\ maxUsed \in [Scopes -> Nat] /\ TypeOK
      /\ th[t] \in ThRec /\ Knows(t)
  BY DEF PeakInv, TypeOK, ThRec
<1>1. PICK s \in Scopes : th[t].pc = "add" /\ s = th[t].scope
  BY <1>0 DEF AddAlloc, Knows
<1>2. PICK p \in {"sub", "peak"} : p = IF th[t].sub > 0 THEN "sub" ELSE "peak"
  OBVIOUS
<1>3. PICK y : y = [th[t] EXCEPT !.add = 0, !.pc = p]
  OBVIOUS
<1>4. y \in ThRec /\ y.pc = p /\ y.scope = s
  BY <1>0, <1>1, <1>2, <1>3 DEF ThRec, Pcs
<1>5. PICK k \in Nat : k = alloc[s] + th[t].add
  BY <1>0 DEF ThRec
<1>6. PICK m \in Nat : m = Max2(maxUsed[s], Used(k, dalloc[s]))
  BY <1>0, <1>5, UsedFacts DEF Max2
<1>7. m >= maxUsed[s] /\ m >= Used(k, dalloc[s])
  <2>1. Used(k, dalloc[s]) \in Nat /\ maxUsed[s] \in Nat
    BY <1>0, <1>5, UsedFacts
  <2> QED
    BY <1>6, <2>1 DEF Max2
<1>8. /\ alloc' = [alloc EXCEPT ![s] = k] /\ maxUsed' = [maxUsed EXCEPT ![s] = m]
      /\ dalloc' = dalloc /\ peak' = peak /\ depth' = depth /\ live' = live /\ drift' = drift
  BY <1>1, <1>5, <1>6 DEF AddAlloc
<1>9. th' = [th EXCEPT ![t] = y]
  BY <1>0, <1>2, <1>3 DEF AddAlloc, Goto, ThRec
<1>10. /\ th'[t] = y /\ \A u \in Threads \ {t} : th'[u] = th[u]
  BY <1>0, <1>9
<1>11. /\ alloc'[s] = k /\ maxUsed'[s] = m
       /\ \A r \in Scopes \ {s} : alloc'[r] = alloc[r] /\ maxUsed'[r] = maxUsed[r]
       /\ \A r \in Scopes : maxUsed'[r] >= maxUsed[r]
  BY <1>0, <1>7, <1>8
<1>12. TypeOK'
  <2>1. alloc' \in [Scopes -> Nat] /\ maxUsed' \in [Scopes -> Nat]
    BY <1>0, <1>8
  <2>2. th' \in [Threads -> ThRec]
    BY <1>0, <1>4, <1>9
  <2> QED
    BY <1>0, <1>8, <2>1, <2>2 DEF TypeOK, ThRec
<1>13. ASSUME NEW u \in Threads
      PROVE  Knows(u)'
  <2>1. CASE u = t
    BY <1>0, <1>1, <1>4, <1>8, <1>10, <2>1 DEF Knows
  <2>2. CASE u # t
    <3>1. Knows(u) /\ th'[u] = th[u] /\ th[u] \in ThRec
      BY <1>0, <1>10, <2>2 DEF PeakInv
    <3> DEFINE r == th[u].scope
    <3>2. th[u].pc \in {"used2", "cas"} => /\ r \in Scopes /\ maxUsed'[r] >= maxUsed[r]
                                           /\ maxUsed[r] \in Nat /\ maxUsed'[r] \in Nat
                                           /\ Used(th[u].a, dalloc[r]) \in Nat
                                           /\ Used(th[u].a, th[u].d) \in Nat
      <4>1. th[u].a \in Nat /\ th[u].d \in Nat
        BY <3>1 DEF ThRec
      <4> QED
        BY <1>0, <1>11, <1>12, <3>1, <4>1, UsedFacts DEF Knows, TypeOK
    <3> QED
      BY <1>8, <3>1, <3>2 DEF Knows
  <2> QED
    BY <2>1, <2>2
<1>14. ASSUME NEW r \in Scopes
       PROVE  Covered(r)'
  <2>1. Covered(r)
    BY DEF PeakInv
  <2>2. CASE r = s
    <3>1. Raises(t, s)'
      BY <1>2, <1>4, <1>10 DEF Raises
    <3>2. peak[s] \in Nat /\ maxUsed[s] \in Nat /\ peak[s] <= maxUsed[s]
      BY <1>0, <2>1, <2>2 DEF Covered
    <3> QED
      BY <1>7, <1>8, <1>11, <2>2, <3>1, <3>2 DEF Covered
  <2>3. CASE r # s
    <3>1. alloc'[r] = alloc[r] /\ maxUsed'[r] = maxUsed[r] /\ dalloc' = dalloc /\ peak' = peak
      BY <1>8, <1>11, <2>3
    <3>2. \A u \in Threads : Raises(u, r) => Raises(u, r)'
      BY <1>1, <1>10, <3>1 DEF Raises
    <3> QED
      BY <2>1, <3>1, <3>2 DEF Covered
  <2> QED
    BY <2>2, <2>3
<1> QED
  BY <1>12, <1>13, <1>14 DEF PeakInv

LEMMA AddDallocStep == ASSUME PeakInv, NEW t \in Threads, AddDalloc(t) PROVE PeakInv'
<1>0. /\ th \in [Threads -> ThRec] /\ alloc \in [Scopes -> Nat] /\ dalloc \in [Scopes -> Nat]
      /\ peak \in [Scopes -> Nat] /\ maxUsed \in [Scopes -> Nat] /\ TypeOK
      /\ th[t] \in ThRec /\ Knows(t)
  BY DEF PeakInv, TypeOK, ThRec
<1>1. PICK s \in Scopes : th[t].pc = "sub" /\ s = th[t].scope
  BY <1>0 DEF AddDalloc, Knows
<1>2. PICK y : y = [th[t] EXCEPT !.sub = 0, !.pc = "peak"]
  OBVIOUS
<1>3. y \in ThRec /\ y.pc = "peak" /\ y.scope = s
  BY <1>0, <1>1, <1>2 DEF ThRec, Pcs
<1>4. PICK k \in Nat : k = dalloc[s] + th[t].sub /\ k >= dalloc[s]
  BY <1>0 DEF ThRec
<1>5. /\ dalloc' = [dalloc EXCEPT ![s] = k]
      /\ alloc' = alloc /\ maxUsed' = maxUsed /\ peak' = peak /\ depth' = depth
      /\ live' = live /\ drift' = drift
  BY <1>1, <1>4 DEF AddDalloc
<1>6. th' = [th EXCEPT ![t] = y]
  BY <1>0, <1>2 DEF AddDalloc, Goto, ThRec
<1>7. /\ th'[t] = y /\ \A u \in Threads \ {t} : th'[u] = th[u]
  BY <1>0, <1>6
<1>8. /\ \A r \in Scopes : dalloc'[r] >= dalloc[r] /\ dalloc'[r] \in Nat
      /\ \A r \in Scopes \ {s} : dalloc'[r] = dalloc[r]
  BY <1>0, <1>4, <1>5
<1>9. \A r \in Scopes, a \in Nat : /\ Used(a, dalloc'[r]) <= Used(a, dalloc[r])
                                   /\ Used(a, dalloc'[r]) \in Nat /\ Used(a, dalloc[r]) \in Nat
  BY <1>0, <1>8, UsedFacts
<1>10. TypeOK'
  <2>1. dalloc' \in [Scopes -> Nat]
    BY <1>0, <1>5
  <2>2. th' \in [Threads -> ThRec]
    BY <1>0, <1>3, <1>6
  <2> QED
    BY <1>0, <1>5, <2>1, <2>2 DEF TypeOK, ThRec
<1>11. ASSUME NEW u \in Threads
       PROVE  Knows(u)'
  <2>1. CASE u = t
    BY <1>0, <1>1, <1>3, <1>5, <1>7, <2>1 DEF Knows
  <2>2. CASE u # t
    <3>1. Knows(u) /\ th'[u] = th[u] /\ th[u] \in ThRec
      BY <1>0, <1>7, <2>2 DEF PeakInv
    <3> DEFINE r == th[u].scope
    <3>2. th[u].pc = "used2" => Used(th[u].a, dalloc'[r]) <= maxUsed[r]
      <4> SUFFICES ASSUME th[u].pc = "used2"
                   PROVE  Used(th[u].a, dalloc'[r]) <= maxUsed[r]
        OBVIOUS
      <4>1. r \in Scopes /\ th[u].a \in Nat /\ Used(th[u].a, dalloc[r]) <= maxUsed[r]
        BY <3>1 DEF Knows, ThRec
      <4>2. maxUsed[r] \in Nat
        BY <1>0, <4>1
      <4>3. /\ Used(th[u].a, dalloc'[r]) <= Used(th[u].a, dalloc[r])
            /\ Used(th[u].a, dalloc'[r]) \in Nat /\ Used(th[u].a, dalloc[r]) \in Nat
        BY <1>9, <4>1
      <4> HIDE DEF r
      <4> QED
        BY <4>1, <4>2, <4>3
    <3> QED
      BY <1>5, <3>1, <3>2 DEF Knows
  <2> QED
    BY <2>1, <2>2
<1>12. ASSUME NEW r \in Scopes
       PROVE  Covered(r)'
  <2>1. Covered(r)
    BY DEF PeakInv
  <2>2. CASE r = s
    <3>1. Raises(t, s)'
      BY <1>3, <1>7 DEF Raises
    <3>2. Used(alloc[s], dalloc'[s]) <= maxUsed[s]
      <4>1. /\ Used(alloc[s], dalloc'[s]) <= Used(alloc[s], dalloc[s])
            /\ Used(alloc[s], dalloc'[s]) \in Nat /\ Used(alloc[s], dalloc[s]) \in Nat
            /\ maxUsed[s] \in Nat
        BY <1>0, <1>9
      <4>2. Used(alloc[s], dalloc[s]) <= maxUsed[s]
        BY <2>1, <2>2 DEF Covered
      <4> QED
        BY <4>1, <4>2
    <3> QED
      BY <1>5, <2>1, <2>2, <3>1, <3>2 DEF Covered
  <2>3. CASE r # s
    <3>1. alloc' = alloc /\ maxUsed' = maxUsed /\ dalloc'[r] = dalloc[r] /\ peak' = peak
      BY <1>5, <1>8, <2>3
    <3>2. \A u \in Threads : Raises(u, r) => Raises(u, r)'
      BY <1>1, <1>7, <2>3, <3>1 DEF Raises
    <3> QED
      BY <2>1, <3>1, <3>2 DEF Covered
  <2> QED
    BY <2>2, <2>3
<1> QED
  BY <1>10, <1>11, <1>12 DEF PeakInv

------------------------------------------------------------------------------
(* The compare-and-swap.                                                   *)
LEMMA CasFacts ==
  ASSUME PeakInv, NEW t \in Threads, Cas(t)
  PROVE  \E s \in Scopes, y \in ThRec, k \in Nat :
           /\ th[t].pc = "cas" /\ s = th[t].scope /\ y.scope = s
           /\ th' = [th EXCEPT ![t] = y] /\ peak' = [peak EXCEPT ![s] = k]
           /\ k >= peak[s] /\ k <= maxUsed[s]
           /\ y.pc = "peak" \/ (y.pc \in {"check", "real"} /\ k >= Used(th[t].a, th[t].d))
           /\ live' = live /\ alloc' = alloc /\ dalloc' = dalloc /\ depth' = depth
           /\ maxUsed' = maxUsed /\ drift' = drift
<1>0. /\ th[t] \in ThRec /\ Knows(t) /\ peak \in [Scopes -> Nat] /\ maxUsed \in [Scopes -> Nat]
  BY DEF PeakInv, TypeOK, ThRec
<1>1. PICK s \in Scopes : th[t].pc = "cas" /\ s = th[t].scope
  BY <1>0 DEF Cas, Knows
<1> DEFINE used == Used(th[t].a, th[t].d)
<1>2. /\ used \in Nat /\ used <= maxUsed[s] /\ th[t].cur <= peak[s] /\ th[t].cur \in Nat
      /\ peak[s] \in Nat /\ maxUsed[s] \in Nat /\ peak[s] <= maxUsed[s]
  <2>1. th[t].a \in Nat /\ th[t].d \in Nat /\ th[t].cur \in Nat
    BY <1>0 DEF ThRec
  <2>2. peak[s] <= maxUsed[s]
    BY DEF PeakInv, Covered
  <2> QED
    BY <1>0, <1>1, <2>1, <2>2, UsedFacts DEF Knows
<1>3. PICK x : x = [th[t] EXCEPT !.cur = 0, !.a = 0, !.d = 0]
  OBVIOUS
<1>4. x \in ThRec /\ x.scope = s
  BY <1>0, <1>1, <1>3 DEF ThRec
<1>5. \/ th[t].cur = used /\ Goto(t, x, AfterPeak(th[t])) /\ peak' = peak
      \/ /\ peak[s] = th[t].cur /\ peak' = [peak EXCEPT ![s] = Max2(th[t].cur, used)]
         /\ Goto(t, x, AfterPeak(th[t]))
      \/ Goto(t, x, "peak") /\ peak' = peak
  BY <1>1, <1>3 DEF Cas, Swaps
<1>6. /\ live' = live /\ alloc' = alloc /\ dalloc' = dalloc /\ depth' = depth
      /\ maxUsed' = maxUsed /\ drift' = drift
  BY DEF Cas
<1>7. ASSUME NEW p \in {"check", "real", "peak"}, Goto(t, x, p)
      PROVE  \E y \in ThRec : y.scope = s /\ y.pc = p /\ th' = [th EXCEPT ![t] = y]
  <2>1. PICK y : y = [x EXCEPT !.pc = p]
    OBVIOUS
  <2>2. y \in ThRec /\ y.scope = s /\ y.pc = p
    BY <1>4, <2>1 DEF ThRec, Pcs
  <2> QED
    BY <1>7, <2>1, <2>2 DEF Goto
<1>8. AfterPeak(th[t]) \in {"check", "real"}
  BY DEF AfterPeak
<1> HIDE DEF used
<1>9. CASE th[t].cur = used /\ Goto(t, x, AfterPeak(th[t])) /\ peak' = peak
  <2>1. PICK y \in ThRec : /\ y.scope = s /\ y.pc = AfterPeak(th[t])
                           /\ th' = [th EXCEPT ![t] = y]
    BY <1>7, <1>8, <1>9
  <2>2. peak[s] >= used /\ peak[s] >= peak[s] /\ peak' = [peak EXCEPT ![s] = peak[s]]
    BY <1>0, <1>2, <1>9
  <2> QED
    BY <1>1, <1>2, <1>6, <1>8, <2>1, <2>2 DEF used
<1>10. CASE /\ peak[s] = th[t].cur /\ peak' = [peak EXCEPT ![s] = Max2(th[t].cur, used)]
            /\ Goto(t, x, AfterPeak(th[t]))
  <2>1. PICK y \in ThRec : /\ y.scope = s /\ y.pc = AfterPeak(th[t])
                           /\ th' = [th EXCEPT ![t] = y]
    BY <1>7, <1>8, <1>10
  <2>2. PICK k \in Nat : /\ k = Max2(th[t].cur, used) /\ k >= peak[s] /\ k >= used
                         /\ k <= maxUsed[s]
    BY <1>2, <1>10 DEF Max2
  <2>3. peak' = [peak EXCEPT ![s] = k]
    BY <1>10, <2>2
  <2> QED
    BY <1>1, <1>6, <1>8, <2>1, <2>2, <2>3 DEF used
<1>11. CASE Goto(t, x, "peak") /\ peak' = peak
  <2>1. PICK y \in ThRec : y.scope = s /\ y.pc = "peak" /\ th' = [th EXCEPT ![t] = y]
    BY <1>7, <1>11
  <2>2. peak' = [peak EXCEPT ![s] = peak[s]] /\ peak[s] >= peak[s]
    BY <1>0, <1>2, <1>11
  <2> QED
    BY <1>1, <1>2, <1>6, <2>1, <2>2
<1> QED
  BY <1>5, <1>9, <1>10, <1>11

LEMMA CasStep == ASSUME PeakInv, NEW t \in Threads, Cas(t) PROVE PeakInv'
<1>0. /\ th \in [Threads -> ThRec] /\ alloc \in [Scopes -> Nat] /\ dalloc \in [Scopes -> Nat]
      /\ peak \in [Scopes -> Nat] /\ maxUsed \in [Scopes -> Nat] /\ TypeOK
      /\ th[t] \in ThRec /\ Knows(t)
  BY DEF PeakInv, TypeOK, ThRec
<1>1. PICK s \in Scopes, y \in ThRec, k \in Nat :
           /\ th[t].pc = "cas" /\ s = th[t].scope /\ y.scope = s
           /\ th' = [th EXCEPT ![t] = y] /\ peak' = [peak EXCEPT ![s] = k]
           /\ k >= peak[s] /\ k <= maxUsed[s]
           /\ y.pc = "peak" \/ (y.pc \in {"check", "real"} /\ k >= Used(th[t].a, th[t].d))
           /\ live' = live /\ alloc' = alloc /\ dalloc' = dalloc /\ depth' = depth
           /\ maxUsed' = maxUsed /\ drift' = drift
  BY CasFacts
<1>2. /\ th'[t] = y /\ \A u \in Threads \ {t} : th'[u] = th[u]
      /\ peak'[s] = k /\ \A r \in Scopes \ {s} : peak'[r] = peak[r]
      /\ \A r \in Scopes : peak'[r] >= peak[r] /\ peak'[r] \in Nat /\ peak[r] \in Nat
  BY <1>0, <1>1
<1>3. TypeOK'
  <2>1. peak' \in [Scopes -> Nat]
    BY <1>0, <1>1
  <2>2. th' \in [Threads -> ThRec]
    BY <1>0, <1>1
  <2> QED
    BY <1>0, <1>1, <2>1, <2>2 DEF TypeOK, ThRec
<1>4. ASSUME NEW u \in Threads
      PROVE  Knows(u)'
  <2>1. CASE u = t
    BY <1>0, <1>1, <1>2, <2>1 DEF Knows
  <2>2. CASE u # t
    <3>1. Knows(u) /\ th'[u] = th[u] /\ th[u] \in ThRec
      BY <1>0, <1>2, <2>2 DEF PeakInv
    <3>2. th[u].pc \in {"used1", "used2", "cas"} => th[u].cur <= peak'[th[u].scope]
      <4> SUFFICES ASSUME th[u].pc \in {"used1", "used2", "cas"}
                   PROVE  th[u].cur <= peak'[th[u].scope]
        OBVIOUS
      <4>1. PICK r \in Scopes : r = th[u].scope
        BY <3>1 DEF Knows
      <4>2. th[u].cur \in Nat /\ th[u].cur <= peak[r]
        BY <3>1, <4>1 DEF Knows, ThRec
      <4>3. peak'[r] >= peak[r] /\ peak'[r] \in Nat /\ peak[r] \in Nat
        BY <1>2
      <4>4. th[u].cur <= peak'[r]
        BY <4>2, <4>3
      <4> QED
        BY <4>1, <4>4
    <3> QED
      BY <1>1, <3>1, <3>2 DEF Knows
  <2> QED
    BY <2>1, <2>2
<1>5. ASSUME NEW r \in Scopes
      PROVE  Covered(r)'
  <2>1. Covered(r)
    BY DEF PeakInv
  <2>2. \A u \in Threads \ {t} : Raises(u, r) => Raises(u, r)'
    BY <1>1, <1>2 DEF Raises
  <2>3. Raises(t, r) => r = s
    BY <1>1 DEF Raises
  <2>4. peak'[r] <= maxUsed'[r] /\ Used(alloc'[r], dalloc'[r]) <= maxUsed'[r]
    BY <1>1, <1>2, <2>1 DEF Covered
  <2>5. CASE peak[r] >= Used(alloc[r], dalloc[r])
    <3>1. Used(alloc[r], dalloc[r]) \in Nat
      BY <1>0, UsedFacts
    <3>2. peak'[r] >= Used(alloc[r], dalloc[r])
      BY <1>2, <2>5, <3>1
    <3> QED
      BY <1>1, <2>4, <3>2 DEF Covered
  <2>6. CASE Raises(t, r)
    <3>1. r = s /\ th[t].a = alloc[s] /\ th[t].d <= dalloc[s]
      BY <1>1, <2>6 DEF Raises
    <3>2. Used(alloc[s], dalloc[s]) <= Used(th[t].a, th[t].d) /\ Used(alloc[s], dalloc[s]) \in Nat
          /\ Used(th[t].a, th[t].d) \in Nat
      <4>1. th[t].d \in Nat /\ alloc[s] \in Nat /\ dalloc[s] \in Nat
        BY <1>0 DEF ThRec
      <4> QED
        BY <3>1, <4>1, UsedFacts
    <3>3. CASE y.pc = "peak"
      <4>1. Raises(t, r)'
        BY <1>1, <1>2, <3>1, <3>3 DEF Raises
      <4> QED
        BY <2>4, <4>1 DEF Covered
    <3>4. CASE k >= Used(th[t].a, th[t].d)
      <4>1. peak'[r] >= Used(alloc'[r], dalloc'[r])
        BY <1>1, <1>2, <3>1, <3>2, <3>4
      <4> QED
        BY <2>4, <4>1 DEF Covered
    <3> QED
      BY <1>1, <3>3, <3>4
  <2>7. CASE \E u \in Threads \ {t} : Raises(u, r)
    BY <2>2, <2>4, <2>7 DEF Covered
  <2> QED
    BY <2>1, <2>5, <2>6, <2>7 DEF Covered
<1> QED
  BY <1>3, <1>4, <1>5 DEF PeakInv

------------------------------------------------------------------------------
LEMMA InitInv == ASSUME Init PROVE PeakInv
<1>1. /\ \A s \in Scopes : alloc[s] = 0 /\ dalloc[s] = 0 /\ peak[s] = 0 /\ maxUsed[s] = 0
      /\ \A t \in Threads : th[t] = Idle /\ depth[t] = 0
  BY DEF Init
<1>2. TypeOK
  BY DEF Init, TypeOK, Idle, Pcs
<1>3. \A t \in Threads : Knows(t)
  <2>1. Idle.pc = "idle"
    BY DEF Idle
  <2> QED
    BY <1>1, <2>1 DEF Knows
<1>4. \A s \in Scopes : Covered(s)
  BY <1>1 DEF Covered, Used
<1> QED
  BY <1>2, <1>3, <1>4 DEF PeakInv

LEMMA NextInv == ASSUME PeakInv, [Next]_vars PROVE PeakInv'
<1>1. CASE UNCHANGED vars
  <2>1. /\ live' = live /\ alloc' = alloc /\ dalloc' = dalloc /\ peak' = peak /\ th' = th
        /\ depth' = depth /\ maxUsed' = maxUsed /\ drift' = drift
    BY <1>1 DEF vars
  <2>2. TypeOK'
    BY <2>1 DEF PeakInv, TypeOK
  <2>3. \A t \in Threads : Knows(t)'
    BY <2>1 DEF PeakInv, Knows
  <2>4. \A s \in Scopes : Covered(s)'
    BY <2>1 DEF PeakInv, Covered, Raises
  <2> QED
    BY <2>2, <2>3, <2>4 DEF PeakInv
<1>2. ASSUME NEW t \in Threads,
             \/ Call(t)
             \/ AddAlloc(t) \/ AddDalloc(t)
             \/ ReadPeak(t) \/ Allocated1(t) \/ Allocated2(t) \/ Cas(t)
             \/ RealFree(t) \/ Exit(t)
      PROVE  PeakInv'
  BY <1>2, CallStep, AddAllocStep, AddDallocStep, ReadPeakStep, Allocated1Step,
     Allocated2Step, CasStep, RealFreeStep, ExitStep
<1> QED
  BY <1>1, <1>2 DEF Next

LEMMA PeakInvMeans == ASSUME PeakInv PROVE IInv
<1>1. ASSUME NEW s \in Scopes,
             \A t \in Threads : th[t].pc \in {"idle", "real", "check"} \/ th[t].scope # s
      PROVE  peak[s] >= Used(alloc[s], dalloc[s])
  <2>1. \A t \in Threads : ~Raises(t, s)
    BY <1>1 DEF Raises
  <2> QED
    BY <2>1 DEF PeakInv, Covered
<1>2. \A s \in Scopes : peak[s] <= maxUsed[s]
  BY DEF PeakInv, Covered
<1>3. PeakBounds
  BY <1>1, <1>2 DEF PeakBounds
<1> QED
  BY <1>3 DEF PeakInv, IInv

(* A step never lowers a peak.                                             *)
LEMMA PeakStep ==
  ASSUME PeakInv, [Next]_vars, NEW s \in Scopes
  PROVE  peak'[s] >= peak[s]
<1>0. peak[s] \in Nat /\ peak \in [Scopes -> Nat]
  BY DEF PeakInv, TypeOK
<1>1. CASE peak' = peak
  BY <1>0, <1>1
<1>2. ASSUME NEW t \in Threads, Cas(t)
      PROVE  peak'[s] >= peak[s]
  <2>1. PICK r \in Scopes, k \in Nat : peak' = [peak EXCEPT ![r] = k] /\ k >= peak[r]
    BY <1>2, CasFacts
  <2> QED
    BY <1>0, <2>1
<1>3. UNCHANGED vars => peak' = peak
  BY DEF vars
<1>4. ASSUME NEW t \in Threads, Call(t)
      PROVE  peak' = peak
  <2>0. \A r, add, sub, gone : Enter(t, r, add, sub, gone) => peak' = peak
    BY DEF Enter
  <2>1. \A r \in Scopes, b \in Blocks :
          Free(t, r, b) \/ ReallocZero(t, r, b) \/ ReallocFails(t, r, b) => peak' = peak
    BY <2>0 DEF Free, ReallocZero, ReallocFails
  <2>2. \A r \in Scopes, b \in Blocks, n \in Sizes : Allocate(t, r, b, n) => peak' = peak
    BY <2>0 DEF Allocate
  <2>3. \A r \in Scopes, b \in Blocks, n \in Sizes :
          ReallocMoves(t, r, b, n) \/ ReallocInPlace(t, r, b, n) => peak' = peak
    BY <2>0 DEF ReallocMoves, ReallocInPlace
  <2> QED
    BY <1>4, <2>1, <2>2, <2>3
       DEF Call, Malloc, Calloc, PosixMemalign, AlignedAlloc, ReallocNull
<1>5. \A t \in Threads :
        \/ AddAlloc(t) \/ AddDalloc(t) \/ ReadPeak(t) \/ Allocated1(t) \/ Allocated2(t)
        \/ RealFree(t) \/ Exit(t)
        => peak' = peak
  BY DEF AddAlloc, AddDalloc, ReadPeak, Allocated1, Allocated2, RealFree, Exit
<1> QED
  BY <1>1, <1>2, <1>3, <1>4, <1>5 DEF Next

------------------------------------------------------------------------------
(* SK_ATOMIC_UPDATE_PEAKSZ, raced by any number of threads: the peak of a  *)
(* scope is never more than was in use at some moment, and covers what is  *)
(* in use whenever no call is under way in the scope.                      *)
THEOREM Invariance == Spec => []IInv
<1>1. Init => PeakInv
  BY InitInv
<1>2. PeakInv /\ [Next]_vars => PeakInv'
  BY NextInv
<1>3. PeakInv => IInv
  BY PeakInvMeans
<1> QED
  BY <1>1, <1>2, <1>3, PTL DEF Spec

(* The peak never falls: a thread that lost the race for it reads again.   *)
THEOREM PeakNeverFalls == Spec => PeakMonotone
<1>1. Init => PeakInv
  BY InitInv
<1>2. PeakInv /\ [Next]_vars => PeakInv'
  BY NextInv
<1>3. PeakInv /\ [Next]_vars => [\A s \in Scopes : peak'[s] >= peak[s]]_vars
  BY PeakStep
<1> QED
  BY <1>1, <1>2, <1>3, PTL DEF Spec, PeakMonotone

(***************************************************************************)
(* The memory statistics: what the scopes have counted and the calls under *)
(* way have still to add is what is allocated.  AcctInv adds to PeakInv what*)
(* a call has left to count and that no two calls release the same block.  *)
(***************************************************************************)
(* The three sums of Accounted: what the scopes have counted, what the     *)
(* calls under way still have to add, what is allocated and not given up.  *)
Net(s) == alloc[s] - dalloc[s]
Pending(t) == th[t].add - th[t].sub
Held(b) == IF Owned(b) THEN live[b] ELSE 0

NetTotal == SumFunction([s \in Scopes |-> Net(s)])
PendingTotal == SumFunction([t \in Threads |-> Pending(t)])
HeldTotal == SumFunction([b \in Blocks |-> Held(b)])

(* Where a thread has something to add, or a block to release, that block  *)
(* is allocated and no other thread releases it.                           *)
Tidy(t) ==
  LET x == th[t]
  IN  /\ x.pc # "add" => x.add = 0
      /\ x.pc \notin {"add", "sub"} => x.sub = 0
      /\ x.pc \in {"idle", "check"} => x.gone = {}
      /\ \A b \in x.gone : live[b] > 0
      /\ \A u \in Threads \ {t} : x.gone \cap th[u].gone = {}

AcctInv == PeakInv /\ (\A t \in Threads : Tidy(t)) /\ Accounted

LEMMA AccountedMeans == Accounted <=> NetTotal + PendingTotal = HeldTotal + drift
BY DEF Accounted, NetTotal, PendingTotal, HeldTotal, Net, Pending, Held

LEMMA AccountedMeansNext ==
  Accounted' <=> NetTotal' + PendingTotal' = HeldTotal' + drift'
BY DEF Accounted, NetTotal, PendingTotal, HeldTotal, Net, Pending, Held

LEMMA NetChange ==
  ASSUME PeakInv, PeakInv'
  PROVE  /\ NetTotal \in Int
         /\ alloc' = alloc /\ dalloc' = dalloc => NetTotal' = NetTotal
         /\ \A s \in Scopes :
              (\A r \in Scopes \ {s} : alloc'[r] = alloc[r] /\ dalloc'[r] = dalloc[r])
                => NetTotal' = NetTotal + (Net(s)' - Net(s))
<1> DEFINE f == [s \in Scopes |-> Net(s)]
           d == [s \in Scopes |-> Net(s)']
<1>1. IsFiniteSet(Scopes) /\ \A s \in Scopes : f[s] \in Int /\ d[s] \in Int
  BY FiniteAssumption DEF PeakInv, TypeOK, Net
<1>2. NetTotal = SumFunctionOnSet(f, Scopes) /\ NetTotal' = SumFunctionOnSet(d, Scopes)
  BY DEF NetTotal, SumFunction, Net
<1>3. NetTotal \in Int
  BY <1>1, <1>2, SumType
<1>4. ASSUME alloc' = alloc, dalloc' = dalloc PROVE NetTotal' = NetTotal
  <2>1. \A s \in Scopes : d[s] = f[s]
    BY <1>4 DEF Net
  <2> HIDE DEF f, d
  <2> QED
    BY <1>1, <1>2, <2>1, SumAgree
<1>5. ASSUME NEW s \in Scopes,
             \A r \in Scopes \ {s} : alloc'[r] = alloc[r] /\ dalloc'[r] = dalloc[r]
      PROVE  NetTotal' = NetTotal + (Net(s)' - Net(s))
  <2>1. (\A r \in Scopes \ {s} : d[r] = f[r]) /\ d[s] = Net(s)' /\ f[s] = Net(s)
    BY <1>5 DEF Net
  <2> HIDE DEF f, d
  <2>2. SumFunctionOnSet(d, Scopes) = SumFunctionOnSet(f, Scopes) + (d[s] - f[s])
    BY <1>1, <2>1, SumChange
  <2> QED
    BY <1>2, <2>1, <2>2
<1> QED
  BY <1>3, <1>4, <1>5

LEMMA PendingChange ==
  ASSUME PeakInv, PeakInv', NEW t \in Threads, \A u \in Threads \ {t} : th'[u] = th[u]
  PROVE  PendingTotal \in Int /\ PendingTotal' = PendingTotal + (Pending(t)' - Pending(t))
<1> DEFINE f == [u \in Threads |-> Pending(u)]
           d == [u \in Threads |-> Pending(u)']
<1>1. IsFiniteSet(Threads) /\ \A u \in Threads : f[u] \in Int /\ d[u] \in Int
  <2>1. \A u \in Threads : th[u] \in ThRec /\ th'[u] \in ThRec
    BY DEF PeakInv, TypeOK, ThRec
  <2> QED
    BY <2>1, FiniteAssumption DEF Pending, ThRec
<1>2. PendingTotal = SumFunctionOnSet(f, Threads) /\ PendingTotal' = SumFunctionOnSet(d, Threads)
  BY DEF PendingTotal, SumFunction, Pending
<1>3. (\A u \in Threads \ {t} : d[u] = f[u]) /\ d[t] = Pending(t)' /\ f[t] = Pending(t)
  BY DEF Pending
<1> HIDE DEF f, d
<1>4. PendingTotal \in Int
  BY <1>1, <1>2, SumType
<1>5. SumFunctionOnSet(d, Threads) = SumFunctionOnSet(f, Threads) + (d[t] - f[t])
  BY <1>1, <1>3, SumChange
<1> QED
  BY <1>2, <1>3, <1>4, <1>5

LEMMA HeldChange ==
  ASSUME PeakInv, PeakInv'
  PROVE  /\ HeldTotal \in Int
         /\ (\A b \in Blocks : Held(b)' = Held(b)) => HeldTotal' = HeldTotal
         /\ \A b \in Blocks :
              (\A c \in Blocks \ {b} : Held(c)' = Held(c))
                => HeldTotal' = HeldTotal + (Held(b)' - Held(b))
<1> DEFINE f == [b \in Blocks |-> Held(b)]
           d == [b \in Blocks |-> Held(b)']
<1>1. IsFiniteSet(Blocks) /\ \A b \in Blocks : f[b] \in Int /\ d[b] \in Int
  <2>1. \A b \in Blocks : live[b] \in Int /\ live'[b] \in Int
    <3>1. \A n \in Sizes : n \in Int
      BY SizesAssumption
    <3>2. \A b \in Blocks : (live[b] \in Sizes \/ live[b] = 0) /\ (live'[b] \in Sizes \/ live'[b] = 0)
      BY DEF PeakInv, TypeOK
    <3> QED
      BY <3>1, <3>2
  <2> QED
    BY <2>1, FiniteAssumption DEF Held
<1>2. HeldTotal = SumFunctionOnSet(f, Blocks) /\ HeldTotal' = SumFunctionOnSet(d, Blocks)
  BY DEF HeldTotal, SumFunction, Held, Owned
<1>3. \A b \in Blocks : f[b] = Held(b) /\ d[b] = Held(b)'
  OBVIOUS
<1> HIDE DEF f, d
<1>4. HeldTotal \in Int
  BY <1>1, <1>2, SumType
<1>5. ASSUME \A b \in Blocks : Held(b)' = Held(b) PROVE HeldTotal' = HeldTotal
  BY <1>1, <1>2, <1>3, <1>5, SumAgree
<1>6. ASSUME NEW b \in Blocks, \A c \in Blocks \ {b} : Held(c)' = Held(c)
      PROVE  HeldTotal' = HeldTotal + (Held(b)' - Held(b))
  <2>1. \A c \in Blocks \ {b} : d[c] = f[c]
    BY <1>3, <1>6
  <2>2. SumFunctionOnSet(d, Blocks) = SumFunctionOnSet(f, Blocks) + (d[b] - f[b])
    BY <1>1, <2>1, SumChange
  <2> QED
    BY <1>2, <1>3, <2>2
<1> QED
  BY <1>4, <1>5, <1>6

------------------------------------------------------------------------------
(* The steps.                                                              *)
LEMMA AcctFacts ==
  ASSUME AcctInv
  PROVE  /\ th \in [Threads -> ThRec] /\ drift \in Int
         /\ \A s \in Scopes : alloc[s] \in Nat /\ dalloc[s] \in Nat
         /\ live \in [Blocks -> Sizes \cup {0}] /\ \A b \in Blocks : live[b] \in Nat
         /\ \A t \in Threads : Tidy(t) /\ Knows(t)
         /\ NetTotal + PendingTotal = HeldTotal + drift
         /\ \A n \in Sizes : n \in Nat /\ n > 0
<1>1. \A n \in Sizes : n \in Nat /\ n > 0
  BY SizesAssumption
<1>2. \A b \in Blocks : live[b] \in Sizes \/ live[b] = 0
  BY DEF AcctInv, PeakInv, TypeOK
<1> QED
  BY <1>1, <1>2, AccountedMeans DEF AcctInv, PeakInv, TypeOK, ThRec

(* Thread t takes a record that gives up no block, or one that was owned.  *)
LEMMA TidyStep ==
  ASSUME AcctInv, NEW t \in Threads, NEW y \in ThRec, th' = [th EXCEPT ![t] = y],
         y.pc # "add" => y.add = 0, y.pc \notin {"add", "sub"} => y.sub = 0,
         y.pc \in {"idle", "check"} => y.gone = {},
         \A b \in y.gone : b \in th[t].gone \/ \A u \in Threads : b \notin th[u].gone,
         \A u \in Threads : \A b \in th'[u].gone : live'[b] > 0
  PROVE  \A u \in Threads : Tidy(u)'
<1>0. th \in [Threads -> ThRec] /\ \A u \in Threads : Tidy(u)
  BY AcctFacts
<1>1. th'[t] = y /\ \A u \in Threads \ {t} : th'[u] = th[u]
  BY <1>0
<1>2. \A u, v \in Threads : u # v => th'[u].gone \cap th'[v].gone = {}
  BY <1>0, <1>1 DEF Tidy
<1>3. ASSUME NEW u \in Threads PROVE Tidy(u)'
  <2>1. CASE u = t
    BY <1>1, <1>2, <2>1 DEF Tidy
  <2>2. CASE u # t
    BY <1>0, <1>1, <1>2, <2>2 DEF Tidy
  <2> QED
    BY <2>1, <2>2
<1> QED
  BY <1>3

LEMMA HeldSame ==
  ASSUME NEW b \in Blocks, live'[b] = live[b],
         \A u \in Threads : b \in th'[u].gone <=> b \in th[u].gone
  PROVE  Held(b)' = Held(b)
BY DEF Held, Owned

(* A step that neither counts nor gives up anything.                       *)
LEMMA StillStep ==
  ASSUME AcctInv, PeakInv', NEW t \in Threads, NEW y \in ThRec, th' = [th EXCEPT ![t] = y],
         alloc' = alloc, dalloc' = dalloc, live' = live, drift' = drift,
         y.add = th[t].add, y.sub = th[t].sub, y.gone = th[t].gone,
         y.pc # "add" => y.add = 0, y.pc \notin {"add", "sub"} => y.sub = 0,
         y.pc \in {"idle", "check"} => y.gone = {}
  PROVE  AcctInv'
<1>0. /\ th \in [Threads -> ThRec] /\ drift \in Int /\ \A u \in Threads : Tidy(u)
      /\ NetTotal + PendingTotal = HeldTotal + drift /\ PeakInv
  BY AcctFacts DEF AcctInv
<1>1. th'[t] = y /\ \A u \in Threads \ {t} : th'[u] = th[u]
  BY <1>0
<1>2. \A u \in Threads : th'[u].gone = th[u].gone
  BY <1>1
<1>3. \A u \in Threads : Tidy(u)'
  <2>1. \A u \in Threads : \A b \in th'[u].gone : live'[b] > 0
    BY <1>0, <1>2 DEF Tidy
  <2> QED
    BY <2>1, TidyStep
<1>4. NetTotal' = NetTotal
  BY <1>0, NetChange
<1>5. PendingTotal' = PendingTotal
  <2>1. Pending(t)' = Pending(t) /\ Pending(t) \in Int
    BY <1>0, <1>1 DEF Pending, ThRec
  <2> QED
    BY <1>0, <1>1, <2>1, PendingChange
<1>6. HeldTotal' = HeldTotal
  <2>1. \A b \in Blocks : Held(b)' = Held(b)
    BY <1>2, HeldSame
  <2> QED
    BY <1>0, <2>1, HeldChange
<1>7. Accounted'
  BY <1>0, <1>4, <1>5, <1>6, AccountedMeansNext
<1> QED
  BY <1>3, <1>7 DEF AcctInv

(* SK_MEM_ENTER: what the call will add is what it does to block b.        *)
LEMMA EnterAccount ==
  ASSUME AcctInv, PeakInv', NEW t \in Threads, NEW s \in Scopes, NEW add \in Nat, NEW sub \in Nat,
         NEW b \in Blocks, NEW gone \in {{}, {b}}, Enter(t, s, add, sub, gone),
         \A u \in Threads : b \notin th[u].gone,
         live' \in [Blocks -> Sizes \cup {0}],
         \A c \in Blocks \ {b} : live'[c] = live[c], gone # {} => live'[b] > 0,
         (IF gone = {} THEN live'[b] ELSE 0) - live[b] + (drift' - drift) = add - sub
  PROVE  AcctInv'
<1>0. /\ th \in [Threads -> ThRec] /\ drift \in Int /\ \A u \in Threads : Tidy(u)
      /\ NetTotal + PendingTotal = HeldTotal + drift /\ PeakInv /\ drift' \in Int
      /\ live[b] \in Nat /\ live'[b] \in Nat
  <2>1. live'[b] \in Nat
    BY AcctFacts
  <2> QED
    BY <2>1, AcctFacts DEF AcctInv, PeakInv, TypeOK
<1>1. PICK p \in {"add", "sub", "peak"} :
         p = IF add > 0 THEN "add" ELSE IF sub > 0 THEN "sub" ELSE "peak"
  OBVIOUS
<1>2. PICK y : y = [Idle EXCEPT !.scope = s, !.add = add, !.sub = sub, !.gone = gone, !.pc = p]
  OBVIOUS
<1>3. y \in ThRec /\ y.pc = p /\ y.add = add /\ y.sub = sub /\ y.gone = gone
  BY <1>1, <1>2 DEF Idle, ThRec, Pcs
<1>4. /\ th' = [th EXCEPT ![t] = y]
      /\ alloc' = alloc /\ dalloc' = dalloc
  BY <1>1, <1>2 DEF Enter
<1>5. th'[t] = y /\ \A u \in Threads \ {t} : th'[u] = th[u]
  BY <1>0, <1>4
<1>6. th[t].add = 0 /\ th[t].sub = 0 /\ th[t].gone = {}
  BY <1>0 DEF Enter, Ready, Tidy
<1>7. \A u \in Threads : Tidy(u)'
  <2>1. ASSUME NEW u \in Threads, NEW c \in th'[u].gone PROVE live'[c] > 0
    <3>1. CASE u = t
      BY <1>3, <1>5, <2>1, <3>1
    <3>2. CASE u # t
      <4>1. c \in th[u].gone /\ c # b /\ c \in Blocks
        BY <1>0, <1>5, <2>1, <3>2 DEF ThRec
      <4> QED
        BY <1>0, <4>1 DEF Tidy
    <3> QED
      BY <3>1, <3>2
  <2>2. y.pc # "add" => y.add = 0
    BY <1>1, <1>3
  <2>3. y.pc \notin {"add", "sub"} => y.sub = 0
    BY <1>1, <1>3
  <2>4. \A c \in y.gone : \A u \in Threads : c \notin th[u].gone
    BY <1>3
  <2>5. y.pc \notin {"idle", "check"}
    BY <1>1, <1>3
  <2>6. y \in ThRec
    BY <1>3
  <2>7. \A u \in Threads : \A c \in th'[u].gone : live'[c] > 0
    BY <2>1
  <2> QED
    BY <1>4, <2>2, <2>3, <2>4, <2>5, <2>6, <2>7, TidyStep
<1>8. NetTotal \in Int /\ NetTotal' = NetTotal
  BY <1>0, <1>4, NetChange
<1>9. PendingTotal \in Int /\ PendingTotal' = PendingTotal + (add - sub)
  <2>1. Pending(t)' = add - sub /\ Pending(t) = 0
    BY <1>3, <1>5, <1>6 DEF Pending
  <2> QED
    BY <1>0, <1>5, <2>1, PendingChange
<1>10. HeldTotal \in Int
       /\ HeldTotal' = HeldTotal + ((IF gone = {} THEN live'[b] ELSE 0) - live[b])
  <2>1. \A c \in Blocks \ {b} : Held(c)' = Held(c)
    <3>1. \A c \in Blocks \ {b} : \A u \in Threads : c \in th'[u].gone <=> c \in th[u].gone
      BY <1>3, <1>5, <1>6
    <3> QED
      BY <3>1, HeldSame
  <2>2. Held(b) = live[b]
    BY <1>0 DEF Held, Owned
  <2>3. Held(b)' = IF gone = {} THEN live'[b] ELSE 0
    <3>1. \A u \in Threads \ {t} : b \notin th'[u].gone
      BY <1>5
    <3>2. th'[t].gone = gone
      BY <1>3, <1>5
    <3> QED
      BY <1>0, <3>1, <3>2 DEF Held, Owned
  <2> QED
    BY <1>0, <2>1, <2>2, <2>3, HeldChange
<1>11. Accounted'
  <2>1. (IF gone = {} THEN live'[b] ELSE 0) \in Int
    BY <1>0
  <2> QED
    BY <1>0, <1>8, <1>9, <1>10, <2>1, AccountedMeansNext
<1> QED
  BY <1>7, <1>11 DEF AcctInv

LEMMA CallAccount == ASSUME AcctInv, PeakInv', NEW t \in Threads, Call(t) PROVE AcctInv'
<1>0. /\ live \in [Blocks -> Sizes \cup {0}] /\ drift \in Int
      /\ \A n \in Sizes : n \in Nat /\ n > 0
      /\ \A b \in Blocks : live[b] \in Nat
      /\ \A u \in Threads : Tidy(u)
      /\ live' \in [Blocks -> Sizes \cup {0}]
  BY AcctFacts DEF PeakInv, TypeOK
<1>1. PICK s \in Scopes, b \in Blocks :
        \/ Free(t, s, b) \/ ReallocZero(t, s, b) \/ ReallocFails(t, s, b)
        \/ \E n \in Sizes : \/ Malloc(t, s, b, n) \/ Calloc(t, s, b, n)
                            \/ PosixMemalign(t, s, b, n) \/ AlignedAlloc(t, s, b, n)
                            \/ ReallocNull(t, s, b, n)
                            \/ ReallocMoves(t, s, b, n)
                            \/ ReallocInPlace(t, s, b, n)
  BY DEF Call
<1>2. 0 \in Nat /\ {} \in {{}, {b}} /\ {b} \in {{}, {b}} /\ live[b] \in Nat /\ {b} # {}
  BY <1>0
<1>3. live[b] = 0 \/ Owned(b) => \A u \in Threads : b \notin th[u].gone
  BY <1>0 DEF Owned, Tidy
<1>4. CASE Free(t, s, b)
  <2>1. /\ Enter(t, s, 0, live[b], {b}) /\ live' = live /\ drift' = drift /\ Owned(b)
        /\ live[b] > 0
    BY <1>4 DEF Free, Owned
  <2>2. /\ \A c \in Blocks \ {b} : live'[c] = live[c]
        /\ {b} # {} => live'[b] > 0
        /\ (IF {b} = {} THEN live'[b] ELSE 0) - live[b] + (drift' - drift) = 0 - live[b]
    BY <1>0, <1>2, <2>1
  <2> QED
    BY <1>0, <1>2, <1>3, <2>1, <2>2, EnterAccount
<1>5. CASE ReallocZero(t, s, b)
  <2>1. /\ Enter(t, s, 0, live[b], {}) /\ drift' = drift /\ Owned(b)
        /\ live' = [live EXCEPT ![b] = 0]
    BY <1>5 DEF ReallocZero
  <2>2. /\ \A c \in Blocks \ {b} : live'[c] = live[c]
        /\ (IF {} = {} THEN live'[b] ELSE 0) - live[b] + (drift' - drift) = 0 - live[b]
    BY <1>0, <1>2, <2>1
  <2> QED
    BY <1>0, <1>2, <1>3, <2>1, <2>2, EnterAccount
<1>6. CASE ReallocFails(t, s, b)
  <2>1. /\ Enter(t, s, 0, live[b], {}) /\ drift' = drift - live[b] /\ live' = live /\ Owned(b)
    BY <1>6 DEF ReallocFails
  <2>2. /\ \A c \in Blocks \ {b} : live'[c] = live[c]
        /\ (IF {} = {} THEN live'[b] ELSE 0) - live[b] + (drift' - drift) = 0 - live[b]
    BY <1>0, <1>2, <2>1
  <2> QED
    BY <1>0, <1>2, <1>3, <2>1, <2>2, EnterAccount
<1>7. ASSUME NEW n \in Sizes, Allocate(t, s, b, n)
      PROVE  AcctInv'
  <2>1. /\ Enter(t, s, n, 0, {}) /\ drift' = drift /\ live' = [live EXCEPT ![b] = n]
        /\ live[b] = 0
    BY <1>7 DEF Allocate
  <2>2. /\ n \in Nat /\ \A c \in Blocks \ {b} : live'[c] = live[c]
        /\ (IF {} = {} THEN live'[b] ELSE 0) - live[b] + (drift' - drift) = n - 0
    BY <1>0, <2>1
  <2> QED
    BY <1>0, <1>2, <1>3, <2>1, <2>2, EnterAccount
<1>8. ASSUME NEW n \in Sizes, ReallocMoves(t, s, b, n)
      PROVE  AcctInv'
  <2>1. /\ Enter(t, s, n, live[b], {}) /\ drift' = drift /\ live' = [live EXCEPT ![b] = n]
        /\ Owned(b)
    BY <1>8 DEF ReallocMoves
  <2>2. /\ n \in Nat /\ \A c \in Blocks \ {b} : live'[c] = live[c]
        /\ (IF {} = {} THEN live'[b] ELSE 0) - live[b] + (drift' - drift) = n - live[b]
    BY <1>0, <2>1
  <2> QED
    BY <1>0, <1>2, <1>3, <2>1, <2>2, EnterAccount
<1>9. ASSUME NEW n \in Sizes, ReallocInPlace(t, s, b, n)
      PROVE  AcctInv'
  <2>0. n \in Nat /\ live[b] \in Nat
    BY <1>0
  <2>1. PICK k \in Nat : k = IF n > live[b] THEN n - live[b] ELSE 0
    BY <2>0
  <2>2. Enter(t, s, k, 0, {}) /\ live' = [live EXCEPT ![b] = n] /\ Owned(b)
    BY <1>9, <2>1 DEF ReallocInPlace
  <2>3. drift' = IF n < live[b] THEN drift + (live[b] - n) ELSE drift
    BY <1>9 DEF ReallocInPlace
  <2>4. /\ \A c \in Blocks \ {b} : live'[c] = live[c]
        /\ (IF {} = {} THEN live'[b] ELSE 0) - live[b] + (drift' - drift) = k - 0
    <3>1. live'[b] = n
      BY <1>0, <2>2
    <3>2. n - live[b] + (drift' - drift) = k - 0
      BY <1>0, <2>0, <2>1, <2>3
    <3> QED
      BY <1>0, <2>2, <3>1, <3>2
  <2> QED
    BY <1>0, <1>2, <1>3, <2>2, <2>4, EnterAccount
<1> QED
  BY <1>1, <1>4, <1>5, <1>6, <1>7, <1>8, <1>9
     DEF Malloc, Calloc, PosixMemalign, AlignedAlloc, ReallocNull

LEMMA ReadAccount ==
  ASSUME AcctInv, PeakInv', NEW t \in Threads, ReadPeak(t) \/ Allocated1(t) \/ Allocated2(t)
  PROVE  AcctInv'
<1>0. th[t] \in ThRec /\ Knows(t) /\ Tidy(t)
  BY AcctFacts
<1>1. th[t].pc \in {"peak", "used1", "used2"} /\ th[t].scope \in Scopes
  BY <1>0 DEF ReadPeak, Allocated1, Allocated2, Knows
<1>2. /\ alloc[th[t].scope] \in Nat /\ dalloc[th[t].scope] \in Nat
      /\ peak[th[t].scope] \in Nat
  BY <1>1 DEF AcctInv, PeakInv, TypeOK
<1>3. PICK y \in ThRec :
        /\ th' = [th EXCEPT ![t] = y]
        /\ y.add = th[t].add /\ y.sub = th[t].sub /\ y.gone = th[t].gone
        /\ y.pc \in {"used1", "used2", "cas"}
  <2>1. CASE ReadPeak(t)
    <3>1. [[th[t] EXCEPT !.cur = peak[th[t].scope]] EXCEPT !.pc = "used1"] \in ThRec
      BY <1>0, <1>2 DEF ThRec, Pcs
    <3> QED
      BY <1>0, <2>1, <3>1 DEF ReadPeak, Goto, ThRec
  <2>2. CASE Allocated1(t)
    <3>1. [[th[t] EXCEPT !.a = alloc[th[t].scope]] EXCEPT !.pc = "used2"] \in ThRec
      BY <1>0, <1>2 DEF ThRec, Pcs
    <3>2. th' = [th EXCEPT ![t] = [[th[t] EXCEPT !.a = alloc[th[t].scope]] EXCEPT !.pc = "used2"]]
      BY <2>2 DEF Allocated1, Read, Goto
    <3> QED
      BY <1>0, <3>1, <3>2 DEF ThRec
  <2>3. CASE Allocated2(t)
    <3>1. [[th[t] EXCEPT !.d = dalloc[th[t].scope]] EXCEPT !.pc = "cas"] \in ThRec
      BY <1>0, <1>2 DEF ThRec, Pcs
    <3>2. th' = [th EXCEPT ![t] = [[th[t] EXCEPT !.d = dalloc[th[t].scope]] EXCEPT !.pc = "cas"]]
      BY <2>3 DEF Allocated2, Read, Goto
    <3> QED
      BY <1>0, <3>1, <3>2 DEF ThRec
  <2> QED
    BY <2>1, <2>2, <2>3
<1>4. alloc' = alloc /\ dalloc' = dalloc /\ live' = live /\ drift' = drift
  BY DEF ReadPeak, Allocated1, Allocated2
<1>5. /\ y.pc # "add" => y.add = 0
      /\ y.pc \notin {"add", "sub"} => y.sub = 0
      /\ y.pc \in {"idle", "check"} => y.gone = {}
  BY <1>0, <1>1, <1>3 DEF Tidy
<1> QED
  BY <1>3, <1>4, <1>5, StillStep

LEMMA CasAccount == ASSUME AcctInv, PeakInv', NEW t \in Threads, Cas(t) PROVE AcctInv'
<1>0. th[t] \in ThRec /\ Tidy(t) /\ th[t].pc = "cas"
  BY AcctFacts DEF Cas
<1>1. PICK p \in {AfterPeak(th[t]), "peak"} :
        th' = [th EXCEPT ![t] = [[th[t] EXCEPT !.cur = 0, !.a = 0, !.d = 0] EXCEPT !.pc = p]]
  BY DEF Cas, Goto
<1>2. p \in {"check", "real", "peak"} /\ (p = "check" => th[t].gone = {})
  BY DEF AfterPeak
<1>3. PICK y : y = [[th[t] EXCEPT !.cur = 0, !.a = 0, !.d = 0] EXCEPT !.pc = p]
  OBVIOUS
<1>4. y \in ThRec
  BY <1>0, <1>2, <1>3 DEF ThRec, Pcs
<1>5. /\ y.add = th[t].add /\ y.sub = th[t].sub /\ y.gone = th[t].gone /\ y.pc = p
  BY <1>0, <1>3 DEF ThRec
<1>6. alloc' = alloc /\ dalloc' = dalloc /\ live' = live /\ drift' = drift
  BY DEF Cas
<1>7. /\ y.pc # "add" => y.add = 0
      /\ y.pc \notin {"add", "sub"} => y.sub = 0
      /\ y.pc \in {"idle", "check"} => y.gone = {}
  BY <1>0, <1>2, <1>5 DEF Tidy
<1>8. th' = [th EXCEPT ![t] = y]
  BY <1>1, <1>3
<1> QED
  BY <1>4, <1>5, <1>6, <1>7, <1>8, StillStep

LEMMA ExitAccount == ASSUME AcctInv, PeakInv', NEW t \in Threads, Exit(t) PROVE AcctInv'
<1>0. th[t] \in ThRec /\ Tidy(t) /\ th[t].pc = "check"
  BY AcctFacts DEF Exit
<1>1. PICK y : y = IF depth[t] = 1 THEN Idle ELSE [Idle EXCEPT !.pc = "check"]
  OBVIOUS
<1>2. y \in ThRec /\ y.add = 0 /\ y.sub = 0 /\ y.gone = {}
  BY <1>1 DEF ThRec, Pcs, Idle
<1>3. /\ th' = [th EXCEPT ![t] = y]
      /\ alloc' = alloc /\ dalloc' = dalloc /\ live' = live /\ drift' = drift
  BY <1>1 DEF Exit
<1>4. th[t].add = 0 /\ th[t].sub = 0 /\ th[t].gone = {}
  BY <1>0 DEF Tidy
<1> QED
  BY <1>2, <1>3, <1>4, StillStep

(* The atomic additions: what was pending is now counted.                  *)
LEMMA AddAllocAccount == ASSUME AcctInv, PeakInv', NEW t \in Threads, AddAlloc(t) PROVE AcctInv'
<1>0. /\ th \in [Threads -> ThRec] /\ th[t] \in ThRec /\ \A u \in Threads : Tidy(u)
      /\ Knows(t) /\ th[t].pc = "add" /\ PeakInv /\ drift \in Int
      /\ NetTotal + PendingTotal = HeldTotal + drift
  BY AcctFacts DEF AcctInv, AddAlloc
<1>1. PICK s \in Scopes : s = th[t].scope
  BY <1>0 DEF Knows
<1>2. PICK p \in {"sub", "peak"} : p = IF th[t].sub > 0 THEN "sub" ELSE "peak"
  OBVIOUS
<1>3. PICK y : y = [[th[t] EXCEPT !.add = 0] EXCEPT !.pc = p]
  OBVIOUS
<1>4. y \in ThRec
  BY <1>0, <1>2, <1>3 DEF ThRec, Pcs
<1>5. /\ y.add = 0 /\ y.sub = th[t].sub /\ y.gone = th[t].gone /\ y.pc = p
      /\ th[t].add \in Nat /\ th[t].sub \in Nat
  BY <1>0, <1>3 DEF ThRec
<1>6. /\ th' = [th EXCEPT ![t] = y] /\ alloc' = [alloc EXCEPT ![s] = alloc[s] + th[t].add]
      /\ dalloc' = dalloc /\ live' = live /\ drift' = drift
  BY <1>1, <1>2, <1>3 DEF AddAlloc, Goto
<1>7. th'[t] = y /\ \A u \in Threads \ {t} : th'[u] = th[u]
  BY <1>0, <1>6
<1>8. \A u \in Threads : th'[u].gone = th[u].gone
  BY <1>5, <1>7
<1>9. \A u \in Threads : Tidy(u)'
  <2>1. \A u \in Threads : \A b \in th'[u].gone : live'[b] > 0
    BY <1>0, <1>6, <1>8 DEF Tidy
  <2>2. y.pc \notin {"add", "sub"} => y.sub = 0
    BY <1>2, <1>5
  <2>3. y.pc \notin {"idle", "check"} /\ \A b \in y.gone : b \in th[t].gone
    BY <1>2, <1>5
  <2> QED
    BY <1>4, <1>5, <1>6, <2>1, <2>2, <2>3, TidyStep
<1>10. NetTotal \in Int /\ NetTotal' = NetTotal + th[t].add
  <2>1. alloc \in [Scopes -> Nat] /\ dalloc[s] \in Nat /\ alloc[s] \in Nat
    BY <1>0 DEF PeakInv, TypeOK
  <2>2. \A r \in Scopes \ {s} : alloc'[r] = alloc[r] /\ dalloc'[r] = dalloc[r]
    BY <1>6, <2>1
  <2>3. Net(s)' - Net(s) = th[t].add
    BY <1>5, <1>6, <2>1 DEF Net
  <2> QED
    BY <1>0, <2>2, <2>3, NetChange
<1>11. PendingTotal \in Int /\ PendingTotal' = PendingTotal - th[t].add
  <2>1. Pending(t)' - Pending(t) = 0 - th[t].add
    BY <1>5, <1>7 DEF Pending
  <2> QED
    BY <1>0, <1>5, <1>7, <2>1, PendingChange
<1>12. HeldTotal' = HeldTotal
  <2>1. \A b \in Blocks : Held(b)' = Held(b)
    BY <1>6, <1>8, HeldSame
  <2> QED
    BY <1>0, <2>1, HeldChange
<1>13. Accounted'
  BY <1>0, <1>5, <1>6, <1>10, <1>11, <1>12, AccountedMeansNext
<1> QED
  BY <1>9, <1>13 DEF AcctInv

LEMMA AddDallocAccount == ASSUME AcctInv, PeakInv', NEW t \in Threads, AddDalloc(t) PROVE AcctInv'
<1>0. /\ th \in [Threads -> ThRec] /\ th[t] \in ThRec /\ \A u \in Threads : Tidy(u)
      /\ Knows(t) /\ th[t].pc = "sub" /\ PeakInv /\ drift \in Int
      /\ NetTotal + PendingTotal = HeldTotal + drift
  BY AcctFacts DEF AcctInv, AddDalloc
<1>1. PICK s \in Scopes : s = th[t].scope
  BY <1>0 DEF Knows
<1>2. PICK y : y = [[th[t] EXCEPT !.sub = 0] EXCEPT !.pc = "peak"]
  OBVIOUS
<1>3. y \in ThRec
  BY <1>0, <1>2 DEF ThRec, Pcs
<1>4. /\ y.add = th[t].add /\ y.sub = 0 /\ y.gone = th[t].gone /\ y.pc = "peak"
      /\ th[t].add \in Nat /\ th[t].sub \in Nat
  BY <1>0, <1>2 DEF ThRec
<1>5. /\ th' = [th EXCEPT ![t] = y] /\ dalloc' = [dalloc EXCEPT ![s] = dalloc[s] + th[t].sub]
      /\ alloc' = alloc /\ live' = live /\ drift' = drift
  BY <1>1, <1>2 DEF AddDalloc, Goto
<1>6. th'[t] = y /\ \A u \in Threads \ {t} : th'[u] = th[u]
  BY <1>0, <1>5
<1>7. \A u \in Threads : th'[u].gone = th[u].gone
  BY <1>4, <1>6
<1>8. \A u \in Threads : Tidy(u)'
  <2>1. \A u \in Threads : \A b \in th'[u].gone : live'[b] > 0
    BY <1>0, <1>5, <1>7 DEF Tidy
  <2>2. y.add = 0
    BY <1>0, <1>4 DEF Tidy
  <2> QED
    BY <1>3, <1>4, <1>5, <2>1, <2>2, TidyStep
<1>9. NetTotal \in Int /\ NetTotal' = NetTotal - th[t].sub
  <2>1. dalloc \in [Scopes -> Nat] /\ dalloc[s] \in Nat /\ alloc[s] \in Nat
    BY <1>0 DEF PeakInv, TypeOK
  <2>2. \A r \in Scopes \ {s} : alloc'[r] = alloc[r] /\ dalloc'[r] = dalloc[r]
    BY <1>5, <2>1
  <2>3. Net(s)' - Net(s) = 0 - th[t].sub
    BY <1>4, <1>5, <2>1 DEF Net
  <2> QED
    BY <1>0, <1>4, <2>2, <2>3, NetChange
<1>10. PendingTotal \in Int /\ PendingTotal' = PendingTotal + th[t].sub
  <2>1. Pending(t)' - Pending(t) = th[t].sub
    BY <1>4, <1>6 DEF Pending
  <2> QED
    BY <1>0, <1>4, <1>6, <2>1, PendingChange
<1>11. HeldTotal' = HeldTotal
  <2>1. \A b \in Blocks : Held(b)' = Held(b)
    BY <1>5, <1>7, HeldSame
  <2> QED
    BY <1>0, <2>1, HeldChange
<1>12. Accounted'
  BY <1>0, <1>4, <1>5, <1>9, <1>10, <1>11, AccountedMeansNext
<1> QED
  BY <1>8, <1>12 DEF AcctInv

(* The real free: the blocks that go were nobody's already.                *)
LEMMA RealFreeAccount == ASSUME AcctInv, PeakInv', NEW t \in Threads, RealFree(t) PROVE AcctInv'
<1>0. /\ th \in [Threads -> ThRec] /\ th[t] \in ThRec /\ \A u \in Threads : Tidy(u)
      /\ th[t].pc = "real" /\ PeakInv /\ drift \in Int
      /\ NetTotal + PendingTotal = HeldTotal + drift
  BY AcctFacts DEF AcctInv, RealFree
<1>1. PICK y : y = [[th[t] EXCEPT !.gone = {}] EXCEPT !.pc = "check"]
  OBVIOUS
<1>2. y \in ThRec
  BY <1>0, <1>1 DEF ThRec, Pcs
<1>3. /\ y.add = th[t].add /\ y.sub = th[t].sub /\ y.gone = {} /\ y.pc = "check"
      /\ th[t].add = 0 /\ th[t].sub = 0
  BY <1>0, <1>1 DEF ThRec, Tidy
<1>4. /\ th' = [th EXCEPT ![t] = y]
      /\ live' = [b \in Blocks |-> IF b \in th[t].gone THEN 0 ELSE live[b]]
      /\ alloc' = alloc /\ dalloc' = dalloc /\ drift' = drift
  BY <1>1 DEF RealFree, Goto
<1>5. th'[t] = y /\ \A u \in Threads \ {t} : th'[u] = th[u]
  BY <1>0, <1>4
<1>6. \A u \in Threads : Tidy(u)'
  <2>1. ASSUME NEW u \in Threads, NEW b \in th'[u].gone PROVE live'[b] > 0
    <3>1. u # t /\ b \in th[u].gone
      BY <1>3, <1>5, <2>1
    <3>2. b \in Blocks /\ b \notin th[t].gone /\ live[b] > 0
      BY <1>0, <3>1 DEF Tidy, ThRec
    <3> QED
      BY <1>4, <3>2
  <2>2. \A u \in Threads : \A b \in th'[u].gone : live'[b] > 0
    BY <2>1
  <2> QED
    BY <1>2, <1>3, <1>4, <2>2, TidyStep
<1>7. NetTotal \in Int /\ NetTotal' = NetTotal
  BY <1>0, <1>4, NetChange
<1>8. PendingTotal \in Int /\ PendingTotal' = PendingTotal
  <2>1. Pending(t)' - Pending(t) = 0
    BY <1>3, <1>5 DEF Pending
  <2> QED
    BY <1>0, <1>5, <2>1, PendingChange
<1>9. HeldTotal' = HeldTotal
  <2>1. ASSUME NEW b \in Blocks PROVE Held(b)' = Held(b)
    <3>1. CASE b \in th[t].gone
      BY <1>4, <3>1 DEF Held, Owned
    <3>2. CASE b \notin th[t].gone
      <4>1. live'[b] = live[b]
        BY <1>4, <3>2
      <4>2. \A u \in Threads : b \in th'[u].gone <=> b \in th[u].gone
        BY <1>3, <1>5, <3>2
      <4> QED
        BY <4>1, <4>2, HeldSame
    <3> QED
      BY <3>1, <3>2
  <2> QED
    BY <1>0, <2>1, HeldChange
<1>10. Accounted'
  BY <1>0, <1>4, <1>7, <1>8, <1>9, AccountedMeansNext
<1> QED
  BY <1>6, <1>10 DEF AcctInv

LEMMA InitAcct == ASSUME Init PROVE AcctInv
<1>1. PeakInv
  BY InitInv
<1>2. /\ \A t \in Threads : th[t] = Idle
      /\ \A b \in Blocks : live[b] = 0
      /\ \A s \in Scopes : alloc[s] = 0 /\ dalloc[s] = 0
      /\ drift = 0
  BY DEF Init
<1>3. Idle.pc = "idle" /\ Idle.add = 0 /\ Idle.sub = 0 /\ Idle.gone = {}
  BY DEF Idle
<1>4. \A t \in Threads : Tidy(t)
  BY <1>2, <1>3 DEF Tidy
<1>5. NetTotal = 0
  <2> DEFINE f == [s \in Scopes |-> Net(s)]
  <2>1. \A s \in Scopes : f[s] = 0
    BY <1>2 DEF Net
  <2>2. NetTotal = SumFunctionOnSet(f, Scopes)
    BY DEF NetTotal, SumFunction
  <2> QED
    BY <2>1, <2>2, FiniteAssumption, SumZero
<1>6. PendingTotal = 0
  <2> DEFINE f == [t \in Threads |-> Pending(t)]
  <2>1. \A t \in Threads : f[t] = 0
    BY <1>2, <1>3 DEF Pending
  <2>2. PendingTotal = SumFunctionOnSet(f, Threads)
    BY DEF PendingTotal, SumFunction
  <2> QED
    BY <2>1, <2>2, FiniteAssumption, SumZero
<1>7. HeldTotal = 0
  <2> DEFINE f == [b \in Blocks |-> Held(b)]
  <2>1. \A b \in Blocks : f[b] = 0
    BY <1>2 DEF Held
  <2>2. HeldTotal = SumFunctionOnSet(f, Blocks)
    BY DEF HeldTotal, SumFunction
  <2> QED
    BY <2>1, <2>2, FiniteAssumption, SumZero
<1> QED
  BY <1>1, <1>2, <1>4, <1>5, <1>6, <1>7, AccountedMeans DEF AcctInv

LEMMA NextAcct == ASSUME AcctInv, [Next]_vars PROVE AcctInv'
<1>1. PeakInv'
  BY NextInv DEF AcctInv
<1>2. CASE UNCHANGED vars
  BY <1>1, <1>2 DEF vars, AcctInv, Tidy, Accounted, Owned
<1>3. CASE Next
  BY <1>1, <1>3, CallAccount, AddAllocAccount, AddDallocAccount, ReadAccount, CasAccount,
     RealFreeAccount, ExitAccount DEF Next
<1> QED
  BY <1>2, <1>3

(* No byte is lost and none is counted twice: at every moment the counted  *)
(* sizes, with what the calls under way still have to add, are the sizes   *)
(* in use, but for what realloc does not count (sk_malloc.c:625).          *)
THEOREM AccountHolds == Spec => []Accounted
<1>1. Init => AcctInv
  BY InitAcct
<1>2. AcctInv /\ [Next]_vars => AcctInv'
  BY NextAcct
<1>3. AcctInv => Accounted
  BY DEF AcctInv
<1> QED
  BY <1>1, <1>2, <1>3, PTL DEF Spec

(***************************************************************************)
(* The monitors.                                                           *)
(***************************************************************************)
LEMMA SumNat ==
  ASSUME NEW S, IsFiniteSet(S), NEW f, \A x \in S : f[x] \in Nat
  PROVE  SumFunctionOnSet(f, S) \in Nat
<1>0. \A x \in S : f[x] \in Int
  OBVIOUS
<1>1. PICK g : Sums(g, f, S) /\ SumFunctionOnSet(f, S) = g[S]
  BY <1>0, SumIs
<1> DEFINE Good == {s \in SUBSET S : g[s] \in Nat}
<1>2. ASSUME NEW T \in SUBSET S, \A U \in SUBSET T : U # T => U \in Good PROVE T \in Good
  <2>1. CASE T = {}
    <3>1. g[T] = 0
      BY <1>1, <2>1 DEF Sums
    <3> QED
      BY <3>1
  <2>2. CASE T # {}
    <3>1. Elem(T) \in T
      BY <2>2 DEF Elem
    <3>2. T \ {Elem(T)} \in SUBSET T /\ T \ {Elem(T)} # T
      BY <3>1
    <3>3. g[T \ {Elem(T)}] \in Nat
      BY <1>2, <3>2
    <3>4. g[T] = f[Elem(T)] + g[T \ {Elem(T)}]
      BY <1>1, <2>2 DEF Sums
    <3> QED
      BY <3>1, <3>3, <3>4
  <2> QED
    BY <2>1, <2>2
<1> HIDE DEF Good
<1>3. \A T \in SUBSET S : T \in Good
  BY <1>2, SubsetInduction
<1> QED
  BY <1>1, <1>3 DEF Good

LEMMA SumAppend ==
  ASSUME NEW s \in Seq(Nat), NEW v \in Nat
  PROVE  /\ SumFunction(s) \in Nat
         /\ SumFunction(Append(s, v)) = SumFunction(s) + v
<1> DEFINE n == Len(s)
           S == 1..(n + 1)
           d == Append(s, v)
<1>1. /\ n \in Nat /\ DOMAIN s = 1..n /\ DOMAIN d = S /\ d[n + 1] = v
      /\ \A i \in 1..n : s[i] \in Nat /\ d[i] = s[i]
  OBVIOUS
<1> HIDE DEF d
<1>2. IsFiniteSet(S) /\ IsFiniteSet(1..n)
  BY <1>1, FS_Interval
<1>3. S \ {n + 1} = 1..n /\ n + 1 \in S
  BY <1>1
<1>4. \A i \in S : d[i] \in Int
  BY <1>1
<1>5. SumFunctionOnSet(d, S) = v + SumFunctionOnSet(d, 1..n)
  <2>1. SumFunctionOnSet(d, S) = d[n + 1] + SumFunctionOnSet(d, S \ {n + 1})
    BY <1>2, <1>3, <1>4, SumSplit
  <2> QED
    BY <1>1, <1>3, <2>1
<1>6. SumFunctionOnSet(d, 1..n) = SumFunctionOnSet(s, 1..n)
  <2>1. \A i \in 1..n : s[i] \in Int /\ d[i] = s[i]
    BY <1>1
  <2> QED
    BY <1>2, <2>1, SumAgree
<1>7. SumFunctionOnSet(s, 1..n) \in Nat
  BY <1>1, <1>2, SumNat
<1>8. /\ SumFunction(s) = SumFunctionOnSet(s, 1..n)
      /\ SumFunction(d) = SumFunctionOnSet(d, S)
  BY <1>1 DEF SumFunction
<1> QED
  BY <1>5, <1>6, <1>7, <1>8 DEF d

LEMMA SumEmpty == SumFunction(<<>>) = 0
<1>1. DOMAIN <<>> = {} /\ IsFiniteSet({})
  BY FS_EmptySet
<1>2. SumFunctionOnSet(<<>>, {}) = 0
  BY <1>1, SumType
<1> QED
  BY <1>1, <1>2 DEF SumFunction

------------------------------------------------------------------------------
Ptrs == [mon : Monitors \cup {"none"}, nth : Nat]
Lines == [kind : {"time", "metric", "sep"}, ptr : Ptrs]

Low == begun.rounds - (IF begun.walking THEN 1 ELSE 0)
Ahead == IF cmd = "metrics" THEN 1 ELSE 0

(* Snapshot p was taken of the i-th monitor while the command ran.         *)
Recent(p, i) == /\ p.mon = MonOrder[i]
                /\ p.nth >= Ahead /\ p.nth - Ahead \in Low..rounds

(* A command that runs: when it began, what it holds, what it has reported. *)
Running ==
  /\ begun.rounds <= rounds
  /\ begun.walking => begun.rounds > 0
  /\ walk # 0 /\ begun.rounds = rounds => begun.walking
  /\ at.phase = "use" => /\ at.mon <= NMon /\ Recent(held.cur, at.mon)
                         /\ at.mon = 1 => held.cur = held.global
  /\ at.mon > 1 \/ at.phase = "use" => Recent(held.global, 1) /\ held.global.nth > 0

CommandTypes == /\ held \in [global : Ptrs, cur : Ptrs]
                /\ begun \in [rounds : Nat, walking : BOOLEAN]
                /\ resp \in Seq(Lines)

Metrics == {j \in DOMAIN resp : resp[j].kind = "metric"}

(* js gives the line of each monitor that was visited.                     *)
Reports(js) ==
  LET N == 1..(at.mon - 1) IN
  /\ js \in [N -> Metrics]
  /\ \A i, k \in N : i < k => js[i] < js[k]
  /\ \A j \in Metrics : \E i \in N : js[i] = j
  /\ \A i \in N : Recent(resp[js[i]].ptr, i)

Stored == MonTypeOK /\ Conserved /\ WindowIsNewest /\ WalkInStep

MonStrong == /\ Stored /\ CommandTypes
             /\ bad = {} => CopiesOwned
             /\ bad = {} /\ cmd # "none" => Running /\ \E js : Reports(js)

LEMMA MonFacts ==
  /\ NMon \in Nat /\ NMon > 0 /\ DOMAIN MonOrder = 1..NMon
  /\ \A i \in 1..NMon : MonOrder[i] \in Monitors
  /\ \A i, k \in 1..NMon : MonOrder[i] = MonOrder[k] => i = k
  /\ \A m \in Monitors : \E i \in 1..NMon : m = MonOrder[i]
  /\ Window \in Nat /\ Window > 0 /\ Grow \in Nat /\ Grow > 0
  /\ Room \in Nat /\ MaxCount \in Nat /\ MaxRounds \in Nat
<1>1. MonOrder \in Seq(Monitors) /\ IsInjective(MonOrder) /\ NMon > 0
  BY OrderAssumption
<1>2. NMon \in Nat /\ DOMAIN MonOrder = 1..NMon
  BY <1>1 DEF NMon
<1>3. Window \in Nat /\ Window > 0 /\ Grow \in Nat /\ Grow > 0
  BY BoundsAssumption
<1>4. Room \in Nat /\ MaxCount \in Nat /\ MaxRounds \in Nat
  BY BoundsAssumption
<1>5. /\ \A i \in 1..NMon : MonOrder[i] \in Monitors
      /\ \A m \in Monitors : \E i \in 1..NMon : m = MonOrder[i]
  BY <1>2 DEF Monitors, Range
<1>6. \A i, k \in 1..NMon : MonOrder[i] = MonOrder[k] => i = k
  BY <1>1, <1>2 DEF IsInjective
<1> QED
  BY <1>1, <1>2, <1>3, <1>4, <1>5, <1>6

------------------------------------------------------------------------------
(* The counters and the window.                                            *)
LEMMA StoredFacts ==
  ASSUME Stored, NEW m \in Monitors
  PROVE  /\ tbl \in [Monitors -> 0..MaxCount] /\ tbl[m] \in 0..MaxCount
         /\ snaps[m] \in Seq(Nat) /\ snaps[m] \in Seq(0..MaxCount) /\ Len(snaps[m]) \in Nat
         /\ counted \in [Monitors -> 0..MaxCount]
         /\ SumFunction(snaps[m]) \in Nat /\ counted[m] = tbl[m] + SumFunction(snaps[m])
         /\ prev[m] \in [1..Window -> 0..MaxRounds]
         /\ rounds \in Nat /\ rounds <= MaxRounds /\ walk \in 0..NMon
<1>1. MaxCount \in Nat /\ MaxRounds \in Nat
  BY MonFacts
<1>2. snaps[m] \in Seq(0..MaxCount)
  BY DEF Stored, MonTypeOK
<1>3. snaps[m] \in Seq(Nat)
  BY <1>1, <1>2
<1>4. SumFunction(snaps[m]) \in Nat
  BY <1>3, SumAppend
<1> QED
  BY <1>1, <1>2, <1>3, <1>4 DEF Stored, MonTypeOK, Conserved

LEMMA Visited ==
  ASSUME Stored, NEW i \in 1..NMon
  PROVE  /\ MonOrder[i] \in Monitors
         /\ Len(snaps[MonOrder[i]]) = IF walk # 0 /\ i >= walk THEN rounds - 1 ELSE rounds
         /\ prev[MonOrder[i]][1] = Len(snaps[MonOrder[i]])
         /\ walk # 0 => rounds >= 1
<1>1. MonOrder[i] \in Monitors
  BY MonFacts
<1>2. /\ Len(snaps[MonOrder[i]]) = IF walk # 0 /\ i >= walk THEN rounds - 1 ELSE rounds
      /\ Len(snaps[MonOrder[i]]) \in Nat
  BY <1>1, StoredFacts DEF Stored, WalkInStep
<1>3. prev[MonOrder[i]][1] = Len(snaps[MonOrder[i]])
  <2>1. 1 \in 1..Window
    BY MonFacts
  <2> QED
    BY <1>1, <1>2, <2>1 DEF Stored, WindowIsNewest
<1>4. walk # 0 => rounds >= 1
  <2>1. NMon \in 1..NMon /\ walk \in 0..NMon /\ rounds \in Nat /\ MonOrder[NMon] \in Monitors
    BY <1>1, MonFacts, StoredFacts
  <2>2. walk # 0 => Len(snaps[MonOrder[NMon]]) = rounds - 1
    BY <2>1, MonFacts DEF Stored, WalkInStep
  <2>3. Len(snaps[MonOrder[NMon]]) \in Nat
    BY <2>1, StoredFacts
  <2> QED
    BY <2>1, <2>2, <2>3
<1> QED
  BY <1>1, <1>2, <1>3, <1>4

LEMMA CountStep ==
  ASSUME Stored, NEW m \in Monitors, Inc(m) \/ Set(m)
  PROVE  Stored'
<1>0. MaxCount \in Nat
  BY MonFacts
<1>1. /\ tbl \in [Monitors -> 0..MaxCount] /\ counted \in [Monitors -> 0..MaxCount]
      /\ tbl[m] \in Nat /\ counted[m] \in Nat /\ counted[m] <= MaxCount
      /\ SumFunction(snaps[m]) \in Nat /\ counted[m] = tbl[m] + SumFunction(snaps[m])
  BY <1>0, StoredFacts
<1>2. PICK k \in 0..MaxCount, c \in 0..MaxCount :
        /\ tbl' = [tbl EXCEPT ![m] = k] /\ counted' = [counted EXCEPT ![m] = c]
        /\ c = k + SumFunction(snaps[m])
  <2>1. CASE Inc(m)
    <3>1. tbl[m] + 1 \in 0..MaxCount /\ counted[m] + 1 \in 0..MaxCount
      BY <1>0, <1>1, <2>1 DEF Inc
    <3>2. /\ tbl' = [tbl EXCEPT ![m] = tbl[m] + 1]
          /\ counted' = [counted EXCEPT ![m] = counted[m] + 1]
      BY <2>1 DEF Inc
    <3>3. counted[m] + 1 = tbl[m] + 1 + SumFunction(snaps[m])
      BY <1>1
    <3> QED
      BY <3>1, <3>2, <3>3
  <2>2. CASE Set(m)
    <3>1. 0 \in 0..MaxCount /\ counted[m] - tbl[m] \in 0..MaxCount
      BY <1>0, <1>1
    <3>2. /\ tbl' = [tbl EXCEPT ![m] = 0]
          /\ counted' = [counted EXCEPT ![m] = counted[m] - tbl[m]]
      BY <2>2 DEF Set
    <3>3. counted[m] - tbl[m] = 0 + SumFunction(snaps[m])
      BY <1>1
    <3> QED
      BY <3>1, <3>2, <3>3
  <2> QED
    BY <2>1, <2>2
<1>3. /\ prev' = prev /\ snaps' = snaps /\ freed' = freed /\ walk' = walk /\ rounds' = rounds
      /\ cmd' = cmd /\ at' = at /\ room' = room /\ bad' = bad
  BY DEF Inc, Set, walkVars, cmdVars
<1>4. MonTypeOK'
  <2>1. tbl' \in [Monitors -> 0..MaxCount] /\ counted' \in [Monitors -> 0..MaxCount]
    BY <1>1, <1>2
  <2> QED
    BY <1>3, <2>1 DEF Stored, MonTypeOK
<1>5. Conserved'
  <2>1. ASSUME NEW l \in Monitors PROVE counted'[l] = tbl'[l] + SumFunction(snaps'[l])
    <3>1. CASE l = m
      BY <1>1, <1>2, <1>3, <3>1
    <3>2. CASE l # m
      BY <1>1, <1>2, <1>3, <3>2 DEF Stored, Conserved
    <3> QED
      BY <3>1, <3>2
  <2> QED
    BY <2>1 DEF Conserved
<1> QED
  BY <1>3, <1>4, <1>5 DEF Stored, WindowIsNewest, WalkInStep

(* The i-th monitor is snapshot, the first of the walk or the next one.    *)
LEMMA SnapshotStored ==
  ASSUME Stored, NEW i \in 1..NMon, SnapshotAndReset(MonOrder[i]), walk' = NextMon(i),
         \/ walk = 0 /\ i = 1 /\ rounds < MaxRounds /\ rounds' = rounds + 1
         \/ walk = i /\ rounds' = rounds,
         counted' = counted, cmd' = cmd, at' = at, room' = room, bad' = bad
  PROVE  Stored'
<1> DEFINE m == MonOrder[i]
           n == Len(snaps[m])
<1>0. /\ MaxCount \in Nat /\ MaxRounds \in Nat /\ Window \in Nat /\ Window > 0
      /\ NMon \in Nat /\ NMon > 0
  BY MonFacts
<1>1. /\ m = MonOrder[i] /\ n = Len(snaps[m])
      /\ m \in Monitors /\ n \in Nat /\ n + 1 = rounds' /\ n + 1 <= MaxRounds
      /\ rounds \in Nat /\ rounds' \in 0..MaxRounds
      /\ tbl[m] \in 0..MaxCount /\ snaps[m] \in Seq(0..MaxCount) /\ snaps[m] \in Seq(Nat)
  <2>1. m \in Monitors
    BY MonFacts
  <2>2. /\ n \in Nat /\ rounds \in Nat /\ rounds <= MaxRounds
        /\ n = IF walk # 0 /\ i >= walk THEN rounds - 1 ELSE rounds
        /\ tbl[m] \in 0..MaxCount /\ snaps[m] \in Seq(0..MaxCount) /\ snaps[m] \in Seq(Nat)
    BY <2>1, StoredFacts, Visited
  <2> QED
    BY <1>0, <2>1, <2>2
<1>2. /\ tbl' = [tbl EXCEPT ![m] = 0]
      /\ snaps' = [snaps EXCEPT ![m] = Append(snaps[m], tbl[m])]
      /\ prev' = [prev EXCEPT ![m] = Shift(prev[m], n + 1)]
      /\ freed' = [freed EXCEPT ![m] = freed[m] \cup ({prev[m][Window]} \ {0})]
  BY DEF SnapshotAndReset
<1> HIDE DEF m, n
<1>3. /\ tbl \in [Monitors -> 0..MaxCount] /\ DOMAIN snaps = Monitors
      /\ prev \in [Monitors -> [1..Window -> 0..MaxRounds]]
      /\ \A l \in Monitors : snaps[l] \in Seq(0..MaxCount) /\ freed[l] \subseteq 1..Len(snaps[l])
  BY DEF Stored, MonTypeOK
<1>4. /\ tbl'[m] = 0 /\ snaps'[m] = Append(snaps[m], tbl[m])
      /\ prev'[m] = Shift(prev[m], n + 1)
      /\ \A l \in Monitors \ {m} : tbl'[l] = tbl[l] /\ snaps'[l] = snaps[l] /\ prev'[l] = prev[l]
      /\ DOMAIN snaps' = Monitors
  BY <1>1, <1>2, <1>3
<1>5. snaps'[m] \in Seq(0..MaxCount) /\ Len(snaps'[m]) = n + 1
  BY <1>1, <1>4
<1>6. \A j \in 1..Window : prev[m][j] = IF j <= n THEN n + 1 - j ELSE 0
  BY <1>1 DEF Stored, WindowIsNewest
<1>7. \A j \in 1..Window : prev'[m][j] = IF j <= n + 1 THEN n + 2 - j ELSE 0
  <2>1. ASSUME NEW j \in 1..Window PROVE prev'[m][j] = IF j <= n + 1 THEN n + 2 - j ELSE 0
    <3>1. prev'[m][j] = IF j = 1 THEN n + 1 ELSE prev[m][j - 1]
      BY <1>4 DEF Shift
    <3>2. j # 1 => j - 1 \in 1..Window
      BY <1>0
    <3>3. CASE j = 1
      BY <1>1, <3>1, <3>3
    <3>4. CASE j # 1
      <4>1. prev'[m][j] = IF j - 1 <= n THEN n + 1 - (j - 1) ELSE 0
        BY <1>6, <3>1, <3>2, <3>4
      <4>2. (j - 1 <= n <=> j <= n + 1) /\ n + 1 - (j - 1) = n + 2 - j
        BY <1>1
      <4> QED
        BY <4>1, <4>2
    <3> QED
      BY <3>3, <3>4
  <2> QED
    BY <2>1
<1>8. prev' \in [Monitors -> [1..Window -> 0..MaxRounds]]
  <2>1. Shift(prev[m], n + 1) \in [1..Window -> 0..MaxRounds]
    <3>1. ASSUME NEW j \in 1..Window PROVE prev'[m][j] \in 0..MaxRounds
      <4>1. j <= n + 1 => n + 2 - j \in 0..MaxRounds
        <5>1. n \in Nat /\ n + 1 <= MaxRounds /\ MaxRounds \in Nat /\ j \in Nat /\ j >= 1
          BY <1>0, <1>1
        <5> QED
          BY <5>1
      <4>2. 0 \in 0..MaxRounds
        BY <1>0
      <4> QED
        BY <1>7, <4>1, <4>2
    <3> QED
      BY <1>4, <3>1 DEF Shift
  <2> QED
    BY <1>2, <1>3, <2>1
<1>9. /\ freed'[m] = {k \in 1..(n + 1) : k + Window <= n + 1}
      /\ \A l \in Monitors \ {m} : freed'[l] = freed[l]
      /\ DOMAIN freed' = Monitors
  <2>1. DOMAIN freed = Monitors /\ freed[m] = {k \in 1..n : k + Window <= n}
    BY <1>1 DEF Stored, MonTypeOK, WindowIsNewest
  <2>2. /\ freed'[m] = freed[m] \cup ({prev[m][Window]} \ {0})
        /\ \A l \in Monitors \ {m} : freed'[l] = freed[l]
        /\ DOMAIN freed' = Monitors
    BY <1>1, <1>2, <2>1
  <2>3. prev[m][Window] = IF Window <= n THEN n + 1 - Window ELSE 0
    BY <1>0, <1>6
  <2>4. {prev[m][Window]} \ {0} = {k \in 1..(n + 1) : k + Window = n + 1}
    <3>1. ASSUME NEW k PROVE k \in {prev[m][Window]} \ {0} <=> k \in {l \in 1..(n + 1) : l + Window = n + 1}
      <4>1. CASE Window <= n
        <5>3. prev[m][Window] = n + 1 - Window
          BY <2>3, <4>1
        <5>4. n \in Nat /\ Window \in Nat /\ Window > 0
          BY <1>0, <1>1
        <5>5. n + 1 - Window \in 1..(n + 1)
          BY <4>1, <5>4
        <5>1. prev[m][Window] = n + 1 - Window /\ n + 1 - Window \in 1..(n + 1)
          BY <5>3, <5>5
        <5>2. \A l \in 1..(n + 1) : l + Window = n + 1 <=> l = n + 1 - Window
          BY <1>0, <1>1
        <5> QED
          BY <1>1, <5>1, <5>2
      <4>2. CASE ~(Window <= n)
        BY <1>0, <1>1, <2>3, <4>2
      <4> QED
        BY <4>1, <4>2
    <3> QED
      BY <3>1
  <2>5. {k \in 1..n : k + Window <= n} \cup {k \in 1..(n + 1) : k + Window = n + 1}
          = {k \in 1..(n + 1) : k + Window <= n + 1}
    <3>1. ASSUME NEW k \in Int
          PROVE  (k \in 1..n /\ k + Window <= n) \/ (k \in 1..(n + 1) /\ k + Window = n + 1)
                   <=> k \in 1..(n + 1) /\ k + Window <= n + 1
      <4>1. n \in Int /\ Window \in Int /\ Window >= 1
        BY <1>0, <1>1
      <4> QED
        BY <4>1
    <3> QED
      BY <1>1, <3>1
  <2> QED
    BY <2>1, <2>2, <2>4, <2>5
<1>10. MonTypeOK'
  <2>1. tbl' \in [Monitors -> 0..MaxCount]
    <3>1. 0 \in 0..MaxCount
      BY <1>0
    <3> QED
      BY <1>2, <1>3, <3>1
  <2>2. walk' \in 0..NMon
    BY <1>0 DEF NextMon
  <2>3. ASSUME NEW l \in Monitors
        PROVE  snaps'[l] \in Seq(0..MaxCount) /\ freed'[l] \subseteq 1..Len(snaps'[l])
    BY <1>3, <1>4, <1>5, <1>9
  <2>4. /\ counted \in [Monitors -> 0..MaxCount] /\ cmd \in {"none", "metrics", "last"}
        /\ at \in [mon : 1..NMon + 1, phase : Phases] /\ room \in Nat
        /\ bad \subseteq {"null", "freed"}
    BY DEF Stored, MonTypeOK
  <2>5. /\ counted' \in [Monitors -> 0..MaxCount] /\ cmd' \in {"none", "metrics", "last"}
        /\ at' \in [mon : 1..NMon + 1, phase : Phases] /\ room' \in Nat
        /\ bad' \subseteq {"null", "freed"}
    BY <2>4
  <2>6. DOMAIN snaps' = Monitors /\ DOMAIN freed' = Monitors /\ rounds' \in 0..MaxRounds
    <3>1. DOMAIN snaps' = Monitors
      BY <1>4
    <3>2. DOMAIN freed' = Monitors
      BY <1>9
    <3> QED
      BY <1>1, <3>1, <3>2
  <2> QED
    BY <1>8, <2>1, <2>2, <2>3, <2>5, <2>6 DEF MonTypeOK
<1>11. Conserved'
  <2>1. ASSUME NEW l \in Monitors PROVE counted'[l] = tbl'[l] + SumFunction(snaps'[l])
    <3>1. CASE l = m
      <4>1. tbl[m] \in Nat
        BY <1>0, <1>1
      <4>2. SumFunction(snaps'[m]) = SumFunction(snaps[m]) + tbl[m] /\ SumFunction(snaps[m]) \in Nat
        BY <1>1, <1>4, <4>1, SumAppend
      <4>3. counted[m] = tbl[m] + SumFunction(snaps[m])
        BY <1>1 DEF Stored, Conserved
      <4>4. tbl'[m] = 0 /\ counted'[m] = counted[m]
        BY <1>4
      <4>5. counted'[m] = tbl'[m] + SumFunction(snaps'[m])
        BY <4>1, <4>2, <4>3, <4>4
      <4> QED
        BY <3>1, <4>5
    <3>2. CASE l # m
      BY <1>4, <3>2 DEF Stored, Conserved
    <3> QED
      BY <3>1, <3>2
  <2> QED
    BY <2>1 DEF Conserved
<1>12. WindowIsNewest'
  <2>1. ASSUME NEW l \in Monitors
        PROVE  /\ \A j \in 1..Window : prev'[l][j] = IF j <= Len(snaps'[l])
                                                     THEN Len(snaps'[l]) + 1 - j ELSE 0
               /\ freed'[l] = {k \in 1..Len(snaps'[l]) : k + Window <= Len(snaps'[l])}
    <3>1. CASE l = m
      <4>1. \A j \in 1..Window : n + 1 + 1 - j = n + 2 - j
        BY <1>1
      <4> QED
        BY <1>5, <1>7, <1>9, <3>1, <4>1
    <3>2. CASE l # m
      BY <1>4, <1>9, <3>2 DEF Stored, WindowIsNewest
    <3> QED
      BY <3>1, <3>2
  <2> QED
    BY <2>1 DEF WindowIsNewest
<1>13. WalkInStep'
  <2>1. ASSUME NEW j \in 1..NMon
        PROVE  Len(snaps'[MonOrder[j]]) = IF walk' # 0 /\ j >= walk' THEN rounds' - 1 ELSE rounds'
    <3>1. CASE j = i
      <4>1. ~(walk' # 0 /\ j >= walk')
        BY <1>0, <3>1 DEF NextMon
      <4> QED
        BY <1>1, <1>5, <3>1, <4>1
    <3>2. CASE j # i
      <4>1. MonOrder[j] \in Monitors \ {m}
        BY <1>1, <3>2, MonFacts
      <4>2. Len(snaps'[MonOrder[j]]) = IF walk # 0 /\ j >= walk THEN rounds - 1 ELSE rounds
        BY <1>4, <4>1, Visited
      <4>3. CASE walk = 0 /\ i = 1 /\ rounds' = rounds + 1
        <5>1. walk' # 0 /\ j >= walk' /\ rounds = rounds' - 1
          BY <1>0, <1>1, <3>2, <4>3 DEF NextMon
        <5> QED
          BY <4>2, <4>3, <5>1
      <4>4. CASE walk = i /\ rounds' = rounds
        <5>1. walk # 0 /\ j >= walk <=> walk' # 0 /\ j >= walk'
          BY <1>0, <3>2, <4>4 DEF NextMon
        <5> QED
          BY <4>2, <4>4, <5>1
      <4> QED
        BY <4>3, <4>4
    <3> QED
      BY <3>1, <3>2
  <2> QED
    BY <2>1 DEF WalkInStep
<1> QED
  BY <1>10, <1>11, <1>12, <1>13 DEF Stored

------------------------------------------------------------------------------
(* The commands.                                                           *)
LEMMA CommandFacts ==
  ASSUME MonStrong
  PROVE  /\ at \in [mon : 1..NMon + 1, phase : Phases] /\ at.mon \in Nat
         /\ at.mon \in 1..NMon + 1 /\ at.phase \in Phases
         /\ cmd \in {"none", "metrics", "last"} /\ Ahead \in Nat
         /\ rounds \in Nat /\ walk \in 0..NMon /\ room \in Nat
         /\ held.global \in Ptrs /\ held.cur \in Ptrs
         /\ begun.rounds \in Nat /\ begun.walking \in BOOLEAN
         /\ resp \in Seq(Lines) /\ Low \in Int
<1>1. NMon \in Nat /\ MaxRounds \in Nat
  BY MonFacts
<1>2. begun \in [rounds : Nat, walking : BOOLEAN] /\ held \in [global : Ptrs, cur : Ptrs]
  BY DEF MonStrong, CommandTypes
<1>3. begun.rounds \in Nat /\ begun.walking \in BOOLEAN
      /\ held.global \in Ptrs /\ held.cur \in Ptrs
  BY <1>2
<1> QED
  BY <1>1, <1>3 DEF MonStrong, CommandTypes, Stored, MonTypeOK, Low, Ahead

(* A step of another thread, which may start a walk.                       *)
LEMMA OtherStep ==
  ASSUME MonStrong, Stored', bad = {}, bad' = {}, UNCHANGED cmdVars,
         rounds' \in Nat, rounds <= rounds',
         walk' # 0 /\ begun.rounds = rounds' => begun.walking \/ cmd = "none"
  PROVE  MonStrong'
<1>0. /\ cmd' = cmd /\ at' = at /\ held' = held /\ begun' = begun /\ resp' = resp
      /\ room' = room /\ copies' = copies
  BY DEF cmdVars
<1>1. rounds \in Nat /\ Low \in Int /\ Ahead \in Nat /\ begun.rounds \in Nat /\ resp \in Seq(Lines)
      /\ held.global \in Ptrs /\ held.cur \in Ptrs
  BY CommandFacts
<1>2. Low' = Low /\ Ahead' = Ahead /\ Metrics' = Metrics
  BY <1>0 DEF Low, Ahead, Metrics
<1>3. ASSUME NEW p, NEW i, p.nth \in Nat, Recent(p, i) PROVE Recent(p, i)'
  BY <1>1, <1>2, <1>3 DEF Recent
<1>4. CommandTypes'
  BY <1>0 DEF MonStrong, CommandTypes
<1>5. CopiesOwned'
  BY <1>0 DEF MonStrong, CopiesOwned
<1>6. ASSUME cmd # "none" PROVE Running' /\ \E js : Reports(js)'
  <2>1. Running /\ \E js : Reports(js)
    BY <1>6 DEF MonStrong
  <2>2. held.global.nth \in Nat /\ held.cur.nth \in Nat
    BY <1>1 DEF Ptrs
  <2>3. Running'
    BY <1>0, <1>1, <1>3, <1>6, <2>1, <2>2 DEF Running
  <2>4. PICK js : Reports(js)
    BY <2>1
  <2>5. \A i \in 1..(at.mon - 1) : Recent(resp[js[i]].ptr, i)'
    <3>1. ASSUME NEW i \in 1..(at.mon - 1) PROVE Recent(resp[js[i]].ptr, i)'
      <4>1. js[i] \in DOMAIN resp /\ Recent(resp[js[i]].ptr, i)
        BY <2>4 DEF Reports, Metrics
      <4>2. resp[js[i]] \in Lines
        BY <1>1, <4>1
      <4>3. resp[js[i]].ptr.nth \in Nat
        BY <4>2 DEF Lines, Ptrs
      <4>4. PICK p : p = resp[js[i]].ptr
        OBVIOUS
      <4>5. Recent(p, i)'
        BY <1>3, <4>1, <4>3, <4>4
      <4>6. p = resp'[js[i]].ptr
        BY <1>0, <4>4
      <4>7. Recent(resp[js[i]].ptr, i)'
        BY <4>5, <4>6 DEF Recent
      <4> QED
        BY <4>7
    <3> QED
      BY <3>1
  <2>6. Reports(js)'
    BY <1>0, <1>2, <2>4, <2>5 DEF Reports
  <2> QED
    BY <2>3, <2>6
<1> QED
  BY <1>0, <1>4, <1>5, <1>6 DEF MonStrong

LEMMA BeginStep ==
  ASSUME MonStrong, Stored', bad = {}, bad' = {}, NEW c \in {"metrics", "last"}, Begin(c)
  PROVE  MonStrong'
<1>0. /\ cmd' = c /\ at' = [mon |-> 1, phase |-> "take"]
      /\ held' = [global |-> NoPtr, cur |-> NoPtr]
      /\ begun' = [rounds |-> rounds, walking |-> walk # 0]
      /\ resp' = <<>> /\ rounds' = rounds /\ walk' = walk /\ copies' = copies /\ cmd = "none"
  BY DEF Begin, monVars, walkVars
<1>1. rounds \in Nat /\ (walk # 0 => rounds >= 1)
  <2>1. 1 \in 1..NMon
    BY MonFacts
  <2> QED
    BY <2>1, CommandFacts, Visited DEF MonStrong
<1>2. NoPtr \in Ptrs
  BY DEF NoPtr, Ptrs
<1>3. CommandTypes'
  BY <1>0, <1>1, <1>2 DEF CommandTypes
<1>4. CopiesOwned'
  <2>1. copies = {}
    BY <1>0 DEF MonStrong, CopiesOwned
  <2>2. at'.mon = 1 /\ at'.phase = "take"
    BY <1>0
  <2> QED
    BY <1>0, <2>1, <2>2 DEF CopiesOwned
<1>5. Running'
  <2>1. /\ at'.mon = 1 /\ at'.phase = "take" /\ begun'.rounds = rounds
        /\ begun'.walking <=> walk # 0
    BY <1>0
  <2> QED
    BY <1>0, <1>1, <2>1 DEF Running
<1>6. \E js : Reports(js)'
  <2>1. at'.mon = 1 /\ Metrics' = {}
    BY <1>0 DEF Metrics
  <2>2. 1..(1 - 1) = {}
    OBVIOUS
  <2> DEFINE js == [i \in {} |-> 0]
  <2>3. Reports(js)'
    BY <2>1, <2>2 DEF Reports
  <2> QED
    BY <2>3
<1> QED
  BY <1>0, <1>3, <1>4, <1>5, <1>6 DEF MonStrong

(* A snapshot taken now is of this minute, or of the one the walk is at.   *)
LEMMA TakenRecent ==
  ASSUME MonStrong, bad = {}, cmd # "none", at.mon <= NMon
  PROVE  /\ Recent(Snapshot(MonOrder[at.mon]), at.mon)
         /\ Snapshot(MonOrder[at.mon]) \in Ptrs
<1> DEFINE m == MonOrder[at.mon]
           p == Snapshot(m)
<1>0. /\ at.mon \in 1..NMon /\ rounds \in Nat /\ begun.rounds \in Nat
      /\ begun.walking \in BOOLEAN /\ cmd \in {"metrics", "last"}
  BY CommandFacts
<1>1. /\ m \in Monitors
      /\ Len(snaps[m]) = IF walk # 0 /\ at.mon >= walk THEN rounds - 1 ELSE rounds
      /\ prev[m][1] = Len(snaps[m]) /\ (walk # 0 => rounds >= 1)
  BY <1>0, Visited DEF MonStrong
<1>2. Running
  BY DEF MonStrong
<1>3. PICK n \in Nat : n = Len(snaps[m]) /\ n \in Low..rounds
  <2>1. CASE walk # 0 /\ at.mon >= walk
    <3>1. begun.rounds = rounds => begun.walking
      BY <1>2, <2>1 DEF Running
    <3> QED
      BY <1>0, <1>1, <1>2, <2>1, <3>1 DEF Running, Low
  <2>2. CASE ~(walk # 0 /\ at.mon >= walk)
    BY <1>0, <1>1, <1>2, <2>2 DEF Running, Low
  <2> QED
    BY <2>1, <2>2
<1>4. p.mon = m /\ p.nth = (IF cmd = "last" THEN n ELSE n + 1) /\ p = [mon |-> p.mon, nth |-> p.nth]
  BY <1>1, <1>3 DEF Snapshot
<1> HIDE DEF p
<1>5. p.nth \in Nat /\ p.nth >= Ahead /\ p.nth - Ahead = n
  <2>1. CASE cmd = "last"
    BY <1>3, <1>4, <2>1 DEF Ahead
  <2>2. CASE cmd = "metrics"
    BY <1>3, <1>4, <2>2 DEF Ahead
  <2> QED
    BY <1>0, <2>1, <2>2
<1>6. p \in Ptrs
  BY <1>1, <1>4, <1>5 DEF Ptrs
<1>7. Recent(p, at.mon)
  BY <1>3, <1>4, <1>5 DEF Recent
<1> QED
  BY <1>6, <1>7 DEF p

LEMMA TakeStep ==
  ASSUME MonStrong, Stored', bad = {}, bad' = {}, Take
  PROVE  MonStrong'
<1> PICK p : p = Snapshot(MonOrder[at.mon])
  OBVIOUS
<1>0. /\ cmd # "none" /\ at.mon <= NMon /\ at.phase = "take"
      /\ held' = [global |-> IF at.mon = 1 THEN p ELSE held.global, cur |-> p]
      /\ resp' = resp /\ rounds' = rounds /\ walk' = walk /\ begun' = begun
      /\ IF at.mon = 1 /\ p.nth = 0
         THEN cmd' = "none" /\ at' = at /\ copies' = copies
         ELSE /\ at' = [at EXCEPT !.phase = "use"] /\ cmd' = cmd
              /\ copies' = IF cmd = "metrics" THEN copies \cup {p} ELSE copies
  BY DEF Take, walkVars
<1>1. p \in Ptrs /\ Recent(p, at.mon)
  BY <1>0, TakenRecent
<1>2. held.global \in Ptrs /\ held.cur \in Ptrs
      /\ at \in [mon : 1..NMon + 1, phase : Phases] /\ at.mon \in 1..NMon /\ at.mon \in Nat
      /\ cmd \in {"metrics", "last"} /\ rounds \in Nat
  BY <1>0, CommandFacts
<1>3. held'.global \in Ptrs /\ held'.cur = p /\ (at.mon = 1 => held'.global = p)
      /\ (at.mon # 1 => held'.global = held.global)
  BY <1>0, <1>1, <1>2
<1>4. CommandTypes'
  <2>1. held' \in [global : Ptrs, cur : Ptrs]
    BY <1>0, <1>1, <1>2
  <2> QED
    BY <1>0, <2>1 DEF MonStrong, CommandTypes
<1>5. CopiesOwned /\ Running /\ \E js : Reports(js)
  BY <1>0 DEF MonStrong
<1>6. CASE at.mon = 1 /\ p.nth = 0
  <2>1. cmd = "last"
    BY <1>1, <1>2, <1>6 DEF Recent, Ahead
  <2>2. CopiesOwned'
    BY <1>0, <1>5, <1>6, <2>1 DEF CopiesOwned
  <2> QED
    BY <1>0, <1>4, <1>6, <2>2 DEF MonStrong
<1>7. CASE ~(at.mon = 1 /\ p.nth = 0)
  <2>1. /\ at'.mon = at.mon /\ at'.phase = "use" /\ cmd' = cmd
        /\ copies' = IF cmd = "metrics" THEN copies \cup {p} ELSE copies
    BY <1>0, <1>2, <1>7
  <2>2. Low' = Low /\ Ahead' = Ahead /\ Metrics' = Metrics
    BY <1>0, <2>1 DEF Low, Ahead, Metrics
  <2>3. CopiesOwned'
    <3>1. CASE cmd = "last"
      BY <1>5, <2>1, <3>1 DEF CopiesOwned
    <3>2. CASE cmd = "metrics"
      <4>1. copies = IF at.mon > 1 THEN {held.global} ELSE {}
        BY <1>0, <1>5, <3>2 DEF CopiesOwned
      <4>2. copies' = {held'.global} \cup {held'.cur}
        BY <1>2, <1>3, <2>1, <3>2, <4>1
      <4> QED
        BY <2>1, <3>2, <4>2 DEF CopiesOwned
    <3> QED
      BY <1>2, <3>1, <3>2
  <2>4. Recent(held.cur, at.mon)' /\ Recent(held.global, 1)' /\ held'.global.nth > 0
    <3>1. Recent(p, at.mon)' /\ Recent(held.cur, at.mon)'
      BY <1>0, <1>1, <1>3, <2>1, <2>2 DEF Recent
    <3>2. CASE at.mon = 1
      <4>1. p.nth \in Nat
        BY <1>1 DEF Ptrs
      <4> QED
        BY <1>3, <1>7, <2>1, <3>1, <3>2, <4>1 DEF Recent
    <3>3. CASE at.mon # 1
      <4>1. Recent(held.global, 1) /\ held.global.nth > 0
        BY <1>2, <1>5, <3>3 DEF Running
      <4> QED
        BY <1>0, <1>3, <2>1, <2>2, <3>1, <3>3, <4>1 DEF Recent
    <3> QED
      BY <3>2, <3>3
  <2>5. Running'
    BY <1>0, <1>2, <1>3, <1>5, <2>1, <2>4 DEF Running
  <2>6. PICK js : Reports(js)
    BY <1>5
  <2>7. Reports(js)'
    <3>1. \A i \in 1..(at.mon - 1) : Recent(resp[js[i]].ptr, i)'
      BY <1>0, <2>1, <2>2, <2>6 DEF Reports, Recent
    <3> QED
      BY <2>1, <2>2, <2>6, <3>1 DEF Reports
  <2> QED
    BY <1>0, <1>4, <2>1, <2>3, <2>5, <2>7 DEF MonStrong
<1> QED
  BY <1>6, <1>7

(* The response grows by one line of a metric, whatever else fits.         *)
LEMMA AppendFits ==
  ASSUME NEW r \in Seq(Lines), NEW n \in Nat, NEW l \in Lines
  PROVE  /\ AppendResponse(r, n, l).resp \in {r, Append(r, l)}
         /\ AppendResponse(r, n, l).room \in Nat
BY DEF AppendResponse

LEMMA ResponseGrows ==
  ASSUME MonStrong, Use
  PROVE  /\ resp' \in Seq(Lines) /\ room' \in Nat
         /\ \E q \in DOMAIN resp' :
              /\ Metrics' = Metrics \cup {q} /\ resp'[q].ptr = held.cur
              /\ \A j \in Metrics : j < q /\ resp'[j] = resp[j]
<1> DEFINE p == held.cur
           hd == IF at.mon = 1 THEN AppendResponse(resp, room, Line("time", p))
                ELSE [resp |-> resp, room |-> room]
           a == MonCb(hd.resp, hd.room, Line("metric", p))
           b == AppendResponse(a.resp, a.room, Line("sep", NoPtr))
<1>0. resp \in Seq(Lines) /\ room \in Nat /\ p \in Ptrs
  BY CommandFacts
<1>1. /\ Line("time", p) \in Lines /\ Line("metric", p) \in Lines /\ Line("sep", NoPtr) \in Lines
      /\ Line("time", p).kind = "time" /\ Line("metric", p).kind = "metric"
      /\ Line("metric", p).ptr = p /\ Line("sep", NoPtr).kind = "sep"
  BY <1>0 DEF Line, Lines, NoPtr, Ptrs
<1>2. hd.resp \in {resp, Append(resp, Line("time", p))} /\ hd.room \in Nat
  BY <1>0, <1>1, AppendFits
<1>3. resp' = b.resp /\ room' = b.room
  BY DEF Use
<1> HIDE DEF hd
<1>4. PICK s : s = hd.resp
  OBVIOUS
<1>5. s \in Seq(Lines) /\ s \in {resp, Append(resp, Line("time", p))}
  <2> PICK l \in Lines : l = Line("time", p)
    BY <1>1
  <2>1. Append(resp, l) \in Seq(Lines)
    BY <1>0
  <2> QED
    BY <1>0, <1>2, <1>4, <2>1
<1>6. a.resp = Append(s, Line("metric", p)) /\ a.room \in Nat
  <2>1. Grow \in Nat /\ Grow > 0
    BY MonFacts
  <2> QED
    BY <1>2, <1>4, <2>1 DEF MonCb
<1> HIDE DEF a
<1>7. a.resp \in Seq(Lines)
  BY <1>1, <1>5, <1>6
<1>8. b.resp \in {a.resp, Append(a.resp, Line("sep", NoPtr))} /\ b.room \in Nat
  BY <1>1, <1>6, <1>7, AppendFits
<1> HIDE DEF b
<1>9. resp' \in Seq(Lines)
  <2> PICK l \in Lines : l = Line("sep", NoPtr)
    BY <1>1
  <2>1. Append(a.resp, l) \in Seq(Lines)
    BY <1>7
  <2> QED
    BY <1>3, <1>7, <1>8, <2>1
<1>10. PICK q : q = Len(s) + 1
  OBVIOUS
<1>11. /\ q \in Nat /\ Len(resp) < q /\ Len(resp) \in Nat /\ Len(s) \in Nat
       /\ \A j \in 1..Len(resp) : s[j] = resp[j]
       /\ \A j \in Len(resp) + 1..Len(s) : s[j].kind = "time"
  <2> PICK l \in Lines : l = Line("time", p) /\ l.kind = "time"
    BY <1>1
  <2>1. CASE s = resp
    BY <1>0, <1>10, <2>1
  <2>2. CASE s = Append(resp, l)
    BY <1>0, <1>10, <2>2
  <2> QED
    BY <1>5, <2>1, <2>2
<1>12. /\ q \in DOMAIN resp' /\ resp'[q] = Line("metric", p)
       /\ \A j \in 1..Len(s) : resp'[j] = s[j] /\ j \in DOMAIN resp'
       /\ \A j \in DOMAIN resp' : j \in Nat /\ j > 0 /\ (j > q => resp'[j].kind = "sep")
  <2>1. CASE resp' = a.resp
    BY <1>1, <1>5, <1>6, <1>10, <2>1
  <2>2. CASE resp' = Append(a.resp, Line("sep", NoPtr))
    BY <1>1, <1>5, <1>6, <1>7, <1>10, <2>2
  <2> QED
    BY <1>3, <1>8, <2>1, <2>2
<1>13. \A j \in 1..Len(resp) : j < q /\ resp'[j] = resp[j] /\ j \in DOMAIN resp'
  <2>1. \A j \in 1..Len(resp) : j \in 1..Len(s)
    BY <1>10, <1>11
  <2> QED
    BY <1>11, <1>12, <2>1
<1>14. Metrics' = Metrics \cup {q}
  <2>1. ASSUME NEW j PROVE j \in Metrics' <=> j \in Metrics \cup {q}
    <3>1. j \in Metrics => j \in 1..Len(resp) /\ resp[j].kind = "metric"
      BY <1>0 DEF Metrics
    <3>2. j \in Metrics \cup {q} => j \in Metrics'
      BY <1>1, <1>12, <1>13, <3>1 DEF Metrics
    <3>3. ASSUME j \in Metrics' PROVE j \in Metrics \cup {q}
      <4>1. j \in DOMAIN resp' /\ resp'[j].kind = "metric" /\ j \in Nat /\ j > 0
        BY <1>12, <3>3 DEF Metrics
      <4>2. ~(j > q)
        BY <1>12, <4>1
      <4>3. CASE j = q
        BY <4>3
      <4>4. CASE j < q
        <5>1. j \in 1..Len(s)
          BY <1>10, <1>11, <4>1, <4>4
        <5>2. j \in 1..Len(resp)
          <6>1. s[j].kind # "time"
            BY <1>12, <4>1, <5>1
          <6> QED
            BY <1>11, <5>1, <6>1
        <5> QED
          BY <1>0, <1>13, <4>1, <5>2 DEF Metrics
      <4> QED
        BY <1>11, <4>1, <4>2, <4>3, <4>4
    <3> QED
      BY <3>2, <3>3
  <2> QED
    BY <2>1
<1>15. \A j \in Metrics : j < q /\ resp'[j] = resp[j]
  BY <1>0, <1>13 DEF Metrics
<1> QED
  BY <1>1, <1>3, <1>8, <1>9, <1>12, <1>14, <1>15

(* The command releases the copy of a monitor it has reported, and not     *)
(* that of the global monitor, which it goes on to use.                    *)
LEMMA UseStep ==
  ASSUME MonStrong, Stored', bad = {}, Use
  PROVE  MonStrong'
<1>0. /\ cmd # "none" /\ at.mon <= NMon /\ at.phase = "use"
      /\ at' = [mon |-> at.mon + 1, phase |-> "take"]
      /\ copies' = IF at.mon # 1 THEN copies \ {held.cur} ELSE copies
      /\ cmd' = cmd /\ held' = held /\ begun' = begun /\ rounds' = rounds /\ walk' = walk
  BY DEF Use, walkVars
<1>1. /\ at.mon \in 1..NMon /\ at.mon \in Nat /\ cmd \in {"metrics", "last"}
      /\ held.global \in Ptrs /\ held.cur \in Ptrs /\ resp \in Seq(Lines)
  BY <1>0, CommandFacts
<1>2. CopiesOwned /\ Running /\ \E js : Reports(js)
  BY <1>0 DEF MonStrong
<1>3. PICK q \in DOMAIN resp' :
              /\ Metrics' = Metrics \cup {q} /\ resp'[q].ptr = held.cur
              /\ \A j \in Metrics : j < q /\ resp'[j] = resp[j]
  BY ResponseGrows
<1>4. Low' = Low /\ Ahead' = Ahead /\ at'.mon = at.mon + 1 /\ at'.phase = "take"
  BY <1>0 DEF Low, Ahead
<1>5. CommandTypes'
  BY <1>0, ResponseGrows DEF MonStrong, CommandTypes
<1>6. /\ Recent(held.cur, at.mon) /\ Recent(held.global, 1) /\ held.global.nth > 0
      /\ at.mon = 1 => held.cur = held.global
  BY <1>0, <1>2 DEF Running
<1>7. CopiesOwned'
  <2>1. CASE cmd = "last"
    BY <1>0, <1>2, <2>1 DEF CopiesOwned
  <2>2. CASE cmd = "metrics"
    <3>1. copies = {held.global} \cup {held.cur}
      BY <1>0, <1>2, <2>2 DEF CopiesOwned
    <3>2. at.mon # 1 => held.cur # held.global
      <4>1. 1 \in 1..NMon
        BY MonFacts
      <4> QED
        BY <1>1, <1>6, <4>1, MonFacts DEF Recent
    <3>3. copies' = {held.global}
      BY <1>0, <1>6, <3>1, <3>2
    <3>4. at'.mon > 1
      BY <1>1, <1>4
    <3> QED
      BY <1>0, <1>4, <2>2, <3>3, <3>4 DEF CopiesOwned
  <2> QED
    BY <1>1, <2>1, <2>2
<1>8. Running'
  <2>1. Recent(held.global, 1)' /\ held'.global.nth > 0
    BY <1>0, <1>4, <1>6 DEF Recent
  <2> QED
    BY <1>0, <1>2, <1>4, <2>1 DEF Running
<1>9. PICK js : Reports(js)
  BY <1>2
<1>10. \E ks : Reports(ks)'
  <2> PICK n : n = at.mon
    OBVIOUS
  <2> DEFINE ks == [i \in 1..n |-> IF i = n THEN q ELSE js[i]]
  <2>1. /\ n \in Nat /\ n > 0 /\ 1..(at'.mon - 1) = 1..n
        /\ \A i \in 1..n : i # n => i \in 1..(n - 1)
    BY <1>1, <1>4
  <2>2. ks[n] = q /\ \A i \in 1..(n - 1) : ks[i] = js[i] /\ js[i] \in Metrics /\ js[i] < q
    BY <1>3, <1>9, <2>1 DEF Reports
  <2>3. \A i \in 1..n : ks[i] \in Metrics'
    BY <1>3, <2>1, <2>2
  <2>4. ASSUME NEW i \in 1..n, NEW k \in 1..n, i < k PROVE ks[i] < ks[k]
    <3>1. i \in 1..(n - 1)
      BY <2>1, <2>4
    <3>2. CASE k = n
      BY <2>2, <3>1, <3>2
    <3>3. CASE k # n
      <4>1. k \in 1..(n - 1)
        BY <2>1, <3>3
      <4> QED
        BY <1>9, <2>2, <2>4, <3>1, <4>1 DEF Reports
    <3> QED
      BY <3>2, <3>3
  <2>5. ASSUME NEW j \in Metrics' PROVE \E i \in 1..n : ks[i] = j
    <3>1. CASE j = q
      BY <2>1, <2>2, <3>1
    <3>2. CASE j \in Metrics
      <4>1. PICK i \in 1..(n - 1) : js[i] = j
        BY <1>9, <3>2 DEF Reports
      <4>2. i \in 1..n
        BY <2>1
      <4> QED
        BY <2>2, <4>1, <4>2
    <3> QED
      BY <1>3, <3>1, <3>2
  <2>6. ASSUME NEW i \in 1..n PROVE Recent(resp[ks[i]].ptr, i)'
    <3>1. CASE i = n
      BY <1>0, <1>3, <1>4, <1>6, <2>2, <3>1 DEF Recent
    <3>2. CASE i # n
      <4>1. i \in 1..(n - 1)
        BY <2>1, <3>2
      <4>2. Recent(resp[js[i]].ptr, i) /\ js[i] \in Metrics /\ ks[i] = js[i]
        BY <1>9, <2>2, <4>1 DEF Reports
      <4>3. resp'[js[i]] = resp[js[i]]
        BY <1>3, <4>2
      <4> QED
        BY <1>0, <1>4, <4>2, <4>3 DEF Recent
    <3> QED
      BY <3>1, <3>2
  <2>7. ks \in [1..n -> Metrics']
    BY <2>3
  <2> HIDE DEF ks
  <2>8. Reports(ks)'
    BY <2>1, <2>4, <2>5, <2>6, <2>7 DEF Reports
  <2> QED
    BY <2>8
<1> QED
  BY <1>5, <1>7, <1>8, <1>10 DEF MonStrong

LEMMA FinishStep ==
  ASSUME MonStrong, Stored', bad = {}, Finish
  PROVE  MonStrong'
<1>0. /\ cmd # "none" /\ at.mon = NMon + 1
      /\ copies' = copies \ {held.global} /\ cmd' = "none" /\ resp' = <<>>
      /\ held' = [global |-> NoPtr, cur |-> NoPtr]
      /\ begun' = [rounds |-> 0, walking |-> FALSE]
  BY DEF Finish
<1>1. CommandTypes'
  <2>1. NoPtr \in Ptrs
    BY DEF NoPtr, Ptrs
  <2> QED
    BY <1>0, <2>1 DEF CommandTypes
<1>2. copies' = {}
  <2>1. CopiesOwned /\ Running
    BY <1>0 DEF MonStrong
  <2>2. at.phase # "use"
    <3>1. NMon \in Nat
      BY MonFacts
    <3> QED
      BY <1>0, <2>1, <3>1 DEF Running
  <2> QED
    BY <1>0, <2>1, <2>2 DEF CopiesOwned
<1>3. CopiesOwned'
  BY <1>0, <1>2 DEF CopiesOwned
<1> QED
  BY <1>0, <1>1, <1>3 DEF MonStrong

(* What following a pointer of the command can meet.                       *)
LEMMA FaultFacts ==
  ASSUME MonStrong, bad = {}, cmd # "none", NEW p \in Ptrs, NEW i \in 1..NMon, Recent(p, i),
         cmd = "metrics" => p \in copies
  PROVE  /\ Fault(p) \subseteq {"null", "freed"}
         /\ "null" \in Fault(p) => /\ cmd = "last" /\ p.nth = 0 /\ begun.rounds <= 1
                                   /\ begun.rounds = 1 => begun.walking
         /\ "freed" \in Fault(p) =>
              /\ cmd = "last"
              /\ rounds + (IF begun.walking THEN 1 ELSE 0) >= begun.rounds + Window
<1>0. /\ cmd \in {"metrics", "last"} /\ rounds \in Nat /\ begun.rounds \in Nat /\ p.nth \in Nat
      /\ begun.walking \in BOOLEAN /\ Running
  BY CommandFacts DEF Ptrs, MonStrong
<1>1. CASE cmd = "metrics"
  BY <1>1 DEF Fault
<1>2. CASE cmd = "last"
  <2>1. p.nth \in Low..rounds /\ p.mon = MonOrder[i]
    BY <1>0, <1>2 DEF Recent, Ahead
  <2>2. "null" \in Fault(p) => p.nth = 0
    BY <1>2 DEF Fault
  <2>3. p.nth = 0 => begun.rounds <= 1 /\ (begun.rounds = 1 => begun.walking)
    BY <1>0, <2>1 DEF Low
  <2>4. "freed" \in Fault(p) => p.nth \in freed[p.mon]
    BY <1>2 DEF Fault
  <2>5. ASSUME p.nth \in freed[p.mon]
        PROVE  rounds + (IF begun.walking THEN 1 ELSE 0) >= begun.rounds + Window
    <3>1. p.mon \in Monitors /\ Len(snaps[p.mon]) \in Nat /\ Len(snaps[p.mon]) <= rounds
      <4>1. p.mon \in Monitors
        BY <2>1, MonFacts
      <4>2. Stored /\ p.mon = MonOrder[i]
        BY <2>1 DEF MonStrong
      <4>3. /\ Len(snaps[p.mon]) \in Nat
            /\ Len(snaps[p.mon]) = IF walk # 0 /\ i >= walk THEN rounds - 1 ELSE rounds
        BY <4>1, <4>2, Visited, StoredFacts
      <4> QED
        BY <1>0, <4>1, <4>3
    <3>2. p.nth + Window <= Len(snaps[p.mon])
      BY <2>5, <3>1 DEF MonStrong, Stored, WindowIsNewest
    <3>3. Window \in Nat
      BY MonFacts
    <3> QED
      BY <1>0, <2>1, <3>1, <3>2, <3>3 DEF Low
  <2> QED
    BY <1>2, <2>2, <2>3, <2>4, <2>5 DEF Fault
<1> QED
  BY <1>0, <1>1, <1>2

(* The pointers the two steps follow.                                      *)
LEMMA Followed ==
  ASSUME MonStrong, bad = {}, Use \/ Finish
  PROVE  \E p \in Ptrs, i \in 1..NMon :
            /\ bad' = Fault(p) /\ Recent(p, i) /\ cmd # "none"
            /\ cmd = "metrics" => p \in copies
<1>0. NMon \in Nat /\ NMon > 0 /\ 1 \in 1..NMon
  BY MonFacts
<1>1. CASE Use
  <2>1. /\ bad' = Fault(held.cur) /\ cmd # "none" /\ at.mon <= NMon /\ at.phase = "use"
        /\ at.mon \in 1..NMon
    BY <1>1, CommandFacts DEF Use
  <2>2. CopiesOwned /\ Running
    BY <2>1 DEF MonStrong
  <2>3. Recent(held.cur, at.mon) /\ (cmd = "metrics" => held.cur \in copies) /\ held.cur \in Ptrs
    BY <2>1, <2>2, CommandFacts DEF Running, CopiesOwned
  <2> QED
    BY <2>1, <2>3
<1>2. CASE Finish
  <2>1. /\ bad' = Fault(held.global) /\ cmd # "none" /\ at.mon = NMon + 1
    BY <1>2 DEF Finish
  <2>2. CopiesOwned /\ Running
    BY <2>1 DEF MonStrong
  <2>3. Recent(held.global, 1) /\ (cmd = "metrics" => held.global \in copies)
        /\ held.global \in Ptrs
    BY <1>0, <2>1, <2>2, CommandFacts DEF Running, CopiesOwned
  <2> QED
    BY <1>0, <2>1, <2>3
<1> QED
  BY <1>1, <1>2

LEMMA CommandStored ==
  ASSUME MonStrong, bad = {}, Begin("metrics") \/ Begin("last") \/ Take \/ Use \/ Finish
  PROVE  Stored'
<1>0. /\ NMon \in Nat /\ NMon > 0 /\ Room \in Nat
  BY MonFacts
<1>1. /\ tbl' = tbl /\ prev' = prev /\ snaps' = snaps /\ freed' = freed /\ counted' = counted
      /\ walk' = walk /\ rounds' = rounds
  BY DEF Begin, Take, Use, Finish, monVars, walkVars
<1>2. /\ at \in [mon : 1..NMon + 1, phase : Phases] /\ at.mon \in Nat /\ room \in Nat
      /\ cmd \in {"none", "metrics", "last"} /\ at.mon \in 1..NMon + 1
  BY CommandFacts
<1>3. /\ cmd' \in {"none", "metrics", "last"} /\ room' \in Nat
      /\ at' \in [mon : 1..NMon + 1, phase : Phases]
  <2>0. [mon |-> 1, phase |-> "take"] \in [mon : 1..NMon + 1, phase : Phases]
    BY <1>0 DEF Phases
  <2>1. CASE Begin("metrics") \/ Begin("last")
    BY <1>0, <2>0, <2>1 DEF Begin
  <2>2. CASE Take
    <3>1. cmd' \in {cmd, "none"} /\ room' = room /\ at' \in {at, [at EXCEPT !.phase = "use"]}
      BY <2>2 DEF Take
    <3>2. [at EXCEPT !.phase = "use"] \in [mon : 1..NMon + 1, phase : Phases]
      BY <1>2 DEF Phases
    <3> QED
      BY <1>2, <3>1, <3>2
  <2>3. CASE Use
    <3>1. at.mon <= NMon /\ at' = [mon |-> at.mon + 1, phase |-> "take"] /\ cmd' = cmd
      BY <2>3 DEF Use
    <3>2. at.mon + 1 \in 1..NMon + 1
      BY <1>0, <1>2, <3>1
    <3>3. at' \in [mon : 1..NMon + 1, phase : Phases]
      BY <3>1, <3>2 DEF Phases
    <3> QED
      BY <1>2, <2>3, <3>1, <3>3, ResponseGrows
  <2>4. CASE Finish
    BY <1>0, <2>0, <2>4 DEF Finish
  <2> QED
    BY <2>1, <2>2, <2>3, <2>4
<1>4. bad' \subseteq {"null", "freed"}
  <2>1. CASE Use \/ Finish
    BY <2>1, Followed, FaultFacts
  <2>2. CASE Begin("metrics") \/ Begin("last") \/ Take
    <3>1. bad' = bad
      BY <2>2 DEF Begin, Take
    <3> QED
      BY <3>1 DEF MonStrong, Stored, MonTypeOK
  <2> QED
    BY <2>1, <2>2
<1>5. MonTypeOK'
  BY <1>1, <1>3, <1>4 DEF MonStrong, Stored, MonTypeOK
<1> QED
  BY <1>1, <1>5 DEF MonStrong, Stored, Conserved, WindowIsNewest, WalkInStep

LEMMA InitMon == ASSUME MonInit PROVE MonStrong
<1>0. /\ NMon \in Nat /\ NMon > 0 /\ Room \in Nat /\ MaxCount \in Nat /\ MaxRounds \in Nat
      /\ Window \in Nat /\ \A i \in 1..NMon : MonOrder[i] \in Monitors
  BY MonFacts
<1>1. /\ tbl = [m \in Monitors |-> 0] /\ counted = [m \in Monitors |-> 0]
      /\ prev = [m \in Monitors |-> [i \in 1..Window |-> 0]]
      /\ snaps = [m \in Monitors |-> <<>>] /\ freed = [m \in Monitors |-> {}]
      /\ walk = 0 /\ rounds = 0 /\ cmd = "none" /\ at = [mon |-> 1, phase |-> "take"]
      /\ held = [global |-> NoPtr, cur |-> NoPtr]
      /\ begun = [rounds |-> 0, walking |-> FALSE]
      /\ resp = <<>> /\ room = Room /\ copies = {} /\ bad = {}
  BY DEF MonInit
<1>2. MonTypeOK
  <2>1. at \in [mon : 1..NMon + 1, phase : Phases]
    BY <1>0, <1>1 DEF Phases
  <2>2. /\ tbl \in [Monitors -> 0..MaxCount] /\ counted \in [Monitors -> 0..MaxCount]
        /\ prev \in [Monitors -> [1..Window -> 0..MaxRounds]]
    BY <1>0, <1>1
  <2>3. \A m \in Monitors : snaps[m] \in Seq(0..MaxCount) /\ freed[m] \subseteq 1..Len(snaps[m])
    BY <1>1
  <2> QED
    BY <1>0, <1>1, <2>1, <2>2, <2>3 DEF MonTypeOK
<1>3. Conserved
  BY <1>1, SumEmpty DEF Conserved
<1>4. WindowIsNewest
  <2>1. ASSUME NEW m \in Monitors
        PROVE  /\ \A i \in 1..Window : prev[m][i] = IF i <= Len(snaps[m])
                                                    THEN Len(snaps[m]) + 1 - i ELSE 0
               /\ freed[m] = {k \in 1..Len(snaps[m]) : k + Window <= Len(snaps[m])}
    <3>1. Len(snaps[m]) = 0 /\ freed[m] = {} /\ \A i \in 1..Window : prev[m][i] = 0
      BY <1>1
    <3>2. 1..0 = {} /\ \A i \in 1..Window : ~(i <= 0)
      OBVIOUS
    <3> QED
      BY <3>1, <3>2
  <2> QED
    BY <2>1 DEF WindowIsNewest
<1>5. WalkInStep
  BY <1>0, <1>1 DEF WalkInStep
<1>6. CommandTypes
  BY <1>1 DEF CommandTypes, Ptrs, NoPtr
<1>7. CopiesOwned
  BY <1>1 DEF CopiesOwned
<1> QED
  BY <1>1, <1>2, <1>3, <1>4, <1>5, <1>6, <1>7 DEF MonStrong, Stored

LEMMA NextMonStrong == ASSUME MonStrong, [MonNext]_monitorVars PROVE MonStrong'
<1>0. /\ rounds \in Nat /\ walk \in 0..NMon /\ NMon \in Nat /\ NMon > 0
  BY CommandFacts, MonFacts
<1>1. CASE UNCHANGED monitorVars
  <2>1. /\ tbl' = tbl /\ prev' = prev /\ snaps' = snaps /\ freed' = freed /\ counted' = counted
        /\ walk' = walk /\ rounds' = rounds /\ cmd' = cmd /\ at' = at /\ room' = room /\ bad' = bad
        /\ held' = held /\ begun' = begun /\ resp' = resp /\ UNCHANGED cmdVars
    BY <1>1 DEF monitorVars, monVars, walkVars, cmdVars
  <2>2. Stored'
    BY <2>1 DEF MonStrong, Stored, MonTypeOK, Conserved, WindowIsNewest, WalkInStep
  <2>3. CASE bad = {}
    <3>1. walk' # 0 /\ begun.rounds = rounds' => begun.walking \/ cmd = "none"
      BY <2>1, <2>3 DEF MonStrong, Running
    <3> QED
      BY <1>0, <2>1, <2>2, <2>3, <3>1, OtherStep
  <2>4. CASE bad # {}
    BY <2>1, <2>2, <2>4 DEF MonStrong, CommandTypes
  <2> QED
    BY <2>3, <2>4
<1>2. SUFFICES ASSUME bad = {}, \/ \E m \in Monitors : Inc(m) \/ Set(m)
                                \/ SnapshotAll \/ SnapshotNext
                                \/ Begin("metrics") \/ Begin("last")
                                \/ Take \/ Use \/ Finish
               PROVE  MonStrong'
  BY <1>1 DEF MonNext, Crashed
<1>3. ASSUME NEW m \in Monitors, Inc(m) \/ Set(m) PROVE MonStrong'
  <2>1. Stored'
    BY <1>3, CountStep DEF MonStrong
  <2>2. UNCHANGED cmdVars /\ bad' = bad /\ walk' = walk /\ rounds' = rounds
    BY <1>3 DEF Inc, Set, walkVars
  <2>3. walk # 0 /\ begun.rounds = rounds => begun.walking \/ cmd = "none"
    BY <1>2 DEF MonStrong, Running
  <2> QED
    BY <1>0, <1>2, <2>1, <2>2, <2>3, OtherStep
<1>4. CASE SnapshotAll
  <2>1. /\ SnapshotAndReset(MonOrder[1]) /\ walk' = NextMon(1) /\ walk = 0
        /\ rounds < MaxRounds /\ rounds' = rounds + 1 /\ UNCHANGED cmdVars
        /\ counted' = counted /\ bad' = bad
    BY <1>4 DEF SnapshotAll
  <2>2. cmd' = cmd /\ at' = at /\ room' = room /\ 1 \in 1..NMon
    BY <1>0, <2>1 DEF cmdVars
  <2>3. Stored'
    BY <2>1, <2>2, SnapshotStored DEF MonStrong
  <2>4. cmd # "none" => begun.rounds # rounds'
    BY <1>0, <1>2, <2>1, CommandFacts DEF MonStrong, Running
  <2> QED
    BY <1>0, <1>2, <2>1, <2>3, <2>4, OtherStep
<1>5. CASE SnapshotNext
  <2>1. /\ SnapshotAndReset(MonOrder[walk]) /\ walk' = NextMon(walk) /\ walk # 0
        /\ rounds' = rounds /\ UNCHANGED cmdVars /\ counted' = counted /\ bad' = bad
    BY <1>5 DEF SnapshotNext
  <2>2. cmd' = cmd /\ at' = at /\ room' = room /\ walk \in 1..NMon
    BY <1>0, <2>1 DEF cmdVars
  <2>3. Stored'
    BY <2>1, <2>2, SnapshotStored DEF MonStrong
  <2>4. begun.rounds = rounds => begun.walking \/ cmd = "none"
    BY <1>2, <2>1 DEF MonStrong, Running
  <2> QED
    BY <1>0, <1>2, <2>1, <2>3, <2>4, OtherStep
<1>6. CASE Begin("metrics") \/ Begin("last")
  <2>1. bad' = bad
    BY <1>6 DEF Begin
  <2>2. Stored'
    BY <1>2, <1>6, CommandStored
  <2> QED
    BY <1>2, <1>6, <2>1, <2>2, BeginStep
<1>7. CASE Take
  <2>1. bad' = bad
    BY <1>7 DEF Take
  <2>2. Stored'
    BY <1>2, <1>7, CommandStored
  <2> QED
    BY <1>2, <1>7, <2>1, <2>2, TakeStep
<1>8. CASE Use
  BY <1>2, <1>8, CommandStored, UseStep
<1>9. CASE Finish
  BY <1>2, <1>9, CommandStored, FinishStep
<1> QED
  BY <1>2, <1>3, <1>4, <1>5, <1>6, <1>7, <1>8, <1>9

LEMMA ReportsMean == ASSUME MonStrong PROVE ReportFaithful
<1> SUFFICES ASSUME cmd # "none", bad = {} PROVE ReportFaithful
  BY DEF ReportFaithful
<1>1. PICK js : Reports(js)
  BY DEF MonStrong
<1>2. DOMAIN js = 1..(at.mon - 1) /\ js \in [1..(at.mon - 1) -> Metrics]
  BY <1>1 DEF Reports
<1>3. Range(js) = Metrics
  BY <1>1, <1>2 DEF Reports, Range
<1>4. \A i \in DOMAIN js : /\ resp[js[i]].ptr.mon = MonOrder[i]
                           /\ resp[js[i]].ptr.nth - Ahead \in Low..rounds
  BY <1>1, <1>2 DEF Reports, Recent
<1>5. \A i, k \in DOMAIN js : i < k => js[i] < js[k]
  BY <1>1, <1>2 DEF Reports
<1> QED
  BY <1>2, <1>3, <1>4, <1>5 DEF ReportFaithful, Metrics, Low, Ahead

(* The snapshots lose nothing, the windows hold the newest snapshots, all  *)
(* walks are in step and a command owns its copies (sk_mon.c:133, :189).   *)
THEOREM MonInvariance == MonSpec => []MonInv
<1>1. MonInit => MonStrong
  BY InitMon
<1>2. MonStrong /\ [MonNext]_monitorVars => MonStrong'
  BY NextMonStrong
<1>3. MonStrong => MonInv
  BY DEF MonStrong, Stored, MonInv
<1> QED
  BY <1>1, <1>2, <1>3, PTL DEF MonSpec

(* A report has the line of every monitor, all of one minute unless a      *)
(* snapshot of all monitors overlaps it (sk_admin.c:180).                  *)
THEOREM ReportHolds == MonSpec => []ReportFaithful
<1>1. MonInit => MonStrong
  BY InitMon
<1>2. MonStrong /\ [MonNext]_monitorVars => MonStrong'
  BY NextMonStrong
<1>3. MonStrong => ReportFaithful
  BY ReportsMean
<1> QED
  BY <1>1, <1>2, <1>3, PTL DEF MonSpec

LEMMA CauseStep ==
  ASSUME MonStrong, [MonNext]_monitorVars
  PROVE  [/\ "null" \in bad' => cmd = "last" /\ begun.rounds <= 1
                                 /\ (begun.rounds = 1 => begun.walking)
          /\ "freed" \in bad' =>
               /\ cmd = "last"
               /\ rounds + (IF begun.walking THEN 1 ELSE 0) >= begun.rounds + Window
         ]_monitorVars
<1> SUFFICES ASSUME MonNext, ~UNCHANGED monitorVars
             PROVE  /\ "null" \in bad' => cmd = "last" /\ begun.rounds <= 1
                                           /\ (begun.rounds = 1 => begun.walking)
                    /\ "freed" \in bad' =>
                         /\ cmd = "last"
                         /\ rounds + (IF begun.walking THEN 1 ELSE 0) >= begun.rounds + Window
  OBVIOUS
<1>1. bad = {}
  BY DEF MonNext, Crashed
<1>2. CASE Use \/ Finish
  BY <1>1, <1>2, Followed, FaultFacts
<1>3. CASE ~(Use \/ Finish)
  <2>1. bad' = {}
    BY <1>1, <1>3 DEF MonNext, Crashed, Inc, Set, SnapshotAll, SnapshotNext, Begin, Take
  <2> QED
    BY <2>1
<1> QED
  BY <1>2, <1>3

(* What `last' meets when it follows a pointer that leads nowhere, and     *)
(* when: the first snapshot, or a window that has gone by (sk_mon.c:189).  *)
THEOREM MonCauses == MonSpec => FaultCause
<1>1. MonInit => MonStrong
  BY InitMon
<1>2. MonStrong /\ [MonNext]_monitorVars => MonStrong'
  BY NextMonStrong
<1>3. MonStrong /\ [MonNext]_monitorVars =>
        [/\ "null" \in bad' => cmd = "last" /\ begun.rounds <= 1
                                /\ (begun.rounds = 1 => begun.walking)
         /\ "freed" \in bad' =>
              /\ cmd = "last"
              /\ rounds + (IF begun.walking THEN 1 ELSE 0) >= begun.rounds + Window
        ]_monitorVars
  BY CauseStep
<1> QED
  BY <1>1, <1>2, <1>3, PTL DEF MonSpec, FaultCause

(***************************************************************************)
(* The life of the process.  CoreStrong says for each point of the main    *)
(* thread which parts exist, what is loaded, where the threads are and how *)
(* much of the file has been set up.                                       *)
(***************************************************************************)
WorkflowRec == [stdin : {0, 1}, port : Int, modules : Seq(Modules)]

FileOK == /\ file = [workflows |-> file.workflows, services |-> file.services]
          /\ file.workflows \in Seq(WorkflowRec)

Early == {"edit", "config", "logs", "loaders", "engines", "admin", "services"}
Serving == {"start", "master", "destroy"}

(* The parts that exist at each point of the main thread.                  *)
PartsInv ==
  /\ pc \in Early \cup {"workflows"} \cup Serving \cup {"exited", "crashed"}
  /\ parts \subseteq Parts
  /\ pc = "edit" => parts = {}
  /\ pc = "config" => parts = {"env"}
  /\ pc = "logs" => parts = {"env", "config"}
  /\ pc = "loaders" => parts = {"env", "config", "logs"}
  /\ pc = "engines" => parts = {"env", "config", "logs", "loaders", "mons"}
  /\ pc = "admin" => parts = {"env", "config", "logs", "loaders", "mons", "engines"}
  /\ pc = "services" => parts = {"env", "config", "logs", "loaders", "mons", "engines",
                                 "admin", "drivers"}
  /\ pc \in {"workflows", "start", "master"} => parts = Parts
  /\ pc = "destroy" => \A k \in 1..10 : DestroyOrder[k] \in parts => DestroyOrder[k + 1] \in parts

(* What is loaded has its loader, and what needs no loader is not loaded.  *)
LoadedInv ==
  /\ mods \subseteq Modules /\ srvs \subseteq Services
  /\ libs \in [Langs -> {"untried", "loaded", "missing"}]
  /\ \A m \in mods : libs[m.type] = "loaded"
  /\ \A s \in srvs : libs[file.services[s].type] = "loaded"
  /\ pc \in Early => mods = {}
  /\ pc \in Early \ {"services"} => srvs = {}
  /\ pc = "destroy" => /\ "modules" \notin parts => mods = {}
                       /\ "services" \notin parts => srvs = {}

(* The threads, and what they rely on.                                     *)
ThreadsInv ==
  /\ inited \subseteq mods \cup srvs
  /\ thr \in [Engines -> {"none", "created", "loop", "done"}]
  /\ run \in [Engines -> BOOLEAN]
  /\ h \in [Engines -> 0..(Len(EngineSeq) + 1)]
  /\ status \in {"none", "init", "starting", "running", "stopping", "destroying"}
  /\ pc \in Early \cup {"workflows"} => \A e \in Engines : thr[e] = "none" /\ h[e] = 0
  /\ pc = "start" => thr[Master] = "none"
  /\ pc = "master" => \A e \in Engines : thr[e] # "none"
  /\ pc = "destroy" => \A e \in Engines : thr[e] = "done"
  /\ pc \in {"start", "master"} =>
       \A e \in Engines : thr[e] # "none" => mods \cup srvs \subseteq inited
  /\ \A e \in Threaded : h[e] > 0 => thr[e] \in {"created", "loop"}
  /\ PartsOutliveThreads

(* The workflows that are set up, as far as they are.                      *)
Done(i) == IF i < Len(wfs) THEN Len(file.workflows[i].modules) ELSE cur

SetUp(i) ==
  /\ Done(i) <= Len(file.workflows[i].modules)
  /\ Picks(wfs[i], file.workflows[i].modules, {k \in 1..Done(i) : FirstUse(i, k)})

Seen == IF wfs = <<>> THEN {} ELSE Before(Len(wfs), cur + 1)

WorkflowsInv ==
  /\ wfs \in Seq(Seq(Modules)) /\ cur \in Nat /\ Len(wfs) <= Len(file.workflows)
  /\ pc \in Early => wfs = <<>>
  /\ \A i \in DOMAIN wfs : SetUp(i)
  /\ pc = "workflows" => /\ \A n \in mods : \E m \in Seen : m.name = n.name
                         /\ \A m \in Seen : \E n \in mods : m.name = n.name
  /\ pc \in Serving \/ thr[Master] # "none" => Len(wfs) = Len(file.workflows) /\ AllListed
  /\ "config" \in parts =>
       \A i \in DOMAIN file.workflows :
          file.workflows[i].stdin = 1 => i = Len(file.workflows)

CoreStrong ==
  /\ FileOK /\ PartsInv /\ LoadedInv /\ ThreadsInv /\ WorkflowsInv /\ CrashCause

LEMMA EngineFacts ==
  /\ EngineSeq \in Seq(Engines) /\ Len(EngineSeq) \in Nat /\ Len(EngineSeq) > 1
  /\ EngineSeq[1] = Master /\ Master \in Engines
  /\ \A k \in 2..Len(EngineSeq) : EngineSeq[k] \in Threaded
  /\ \A e \in Threaded : \E k \in 2..Len(EngineSeq) : e = EngineSeq[k]
  /\ Threaded # {} /\ StopSeq = EngineSeq
<1>1. Workers \in Seq(Engines) /\ Bios \in Seq(Engines) /\ Len(Workers) > 0 /\ IsInjective(EngineSeq)
  BY CoreAssumption
<1>2. /\ Len(EngineSeq) = 1 + Len(Workers) + Len(Bios) /\ EngineSeq[1] = Master
      /\ DOMAIN EngineSeq = 1..Len(EngineSeq)
      /\ Len(Workers) \in Nat /\ Len(Bios) \in Nat
  BY <1>1 DEF EngineSeq
<1>3. Engines = {EngineSeq[k] : k \in 1..Len(EngineSeq)}
  BY <1>2 DEF Engines, Range
<1>4. \A k \in 2..Len(EngineSeq) : EngineSeq[k] # Master
  BY <1>1, <1>2 DEF IsInjective
<1>5. EngineSeq \in Seq(Engines) /\ Master \in Engines
  <2>1. Master \in Engines
    <3>1. 1 \in 1..Len(EngineSeq)
      BY <1>1, <1>2
    <3> QED
      BY <1>2, <1>3, <3>1
  <2>2. \A E, m : m \in E => \A s, t \in Seq(E) : <<m>> \o s \o t \in Seq(E)
    OBVIOUS
  <2> QED
    BY <1>1, <2>1, <2>2 DEF EngineSeq
<1>6. 2 \in 2..Len(EngineSeq) /\ Len(EngineSeq) \in Nat /\ Len(EngineSeq) > 1
  BY <1>1, <1>2
<1>7. StopSeq = EngineSeq
  BY DEF StopSeq, EngineSeq
<1>8. \A k \in 2..Len(EngineSeq) : EngineSeq[k] \in Threaded
  BY <1>3, <1>4, <1>6 DEF Threaded
<1>9. \A e \in Threaded : \E k \in 2..Len(EngineSeq) : e = EngineSeq[k]
  <2>1. \A k \in 1..Len(EngineSeq) : k = 1 \/ k \in 2..Len(EngineSeq)
    BY <1>6
  <2> QED
    BY <1>2, <1>3, <2>1 DEF Threaded
<1>10. EngineSeq[1] = Master
  BY <1>2
<1> QED
  BY <1>5, <1>6, <1>7, <1>8, <1>9, <1>10

LEMMA OrderFacts ==
  /\ DOMAIN DestroyOrder = 1..11
  /\ DestroyOrder[1] = "drivers" /\ DestroyOrder[2] = "engines" /\ DestroyOrder[3] = "modules"
  /\ DestroyOrder[4] = "services" /\ DestroyOrder[5] = "mons" /\ DestroyOrder[6] = "config"
  /\ DestroyOrder[7] = "workflows" /\ DestroyOrder[8] = "admin" /\ DestroyOrder[9] = "loaders"
  /\ DestroyOrder[10] = "logs" /\ DestroyOrder[11] = "env"
  /\ Parts = {"drivers", "engines", "modules", "services", "mons", "config",
              "workflows", "admin", "loaders", "logs", "env"}
<1>1. /\ DOMAIN DestroyOrder = 1..11
      /\ DestroyOrder[1] = "drivers" /\ DestroyOrder[2] = "engines" /\ DestroyOrder[3] = "modules"
      /\ DestroyOrder[4] = "services" /\ DestroyOrder[5] = "mons" /\ DestroyOrder[6] = "config"
      /\ DestroyOrder[7] = "workflows" /\ DestroyOrder[8] = "admin" /\ DestroyOrder[9] = "loaders"
      /\ DestroyOrder[10] = "logs" /\ DestroyOrder[11] = "env"
  BY DEF DestroyOrder
<1>2. Parts = {DestroyOrder[k] : k \in 1..11}
  BY <1>1 DEF Parts, Range
<1>3. 1..11 = {1, 2, 3, 4, 5, 6, 7, 8, 9, 10, 11}
  OBVIOUS
<1> QED
  BY <1>1, <1>2, <1>3

------------------------------------------------------------------------------
(* Reading the file, workflow by workflow.                                 *)
LEMMA MaxOfSet ==
  ASSUME NEW n \in Nat
  PROVE  \A T \in SUBSET (1..n) :
            T # {} => Max(T) \in T /\ \A y \in T : y <= Max(T)
<1> DEFINE S == 1..n
           Good == {T \in SUBSET S : T # {} => \E x \in T : \A y \in T : x >= y}
<1>1. IsFiniteSet(S)
  BY FS_Interval
<1>2. ASSUME NEW T \in SUBSET S, \A U \in SUBSET T : U # T => U \in Good PROVE T \in Good
  <2> SUFFICES ASSUME T # {} PROVE \E x \in T : \A y \in T : x >= y
    OBVIOUS
  <2>1. PICK z \in T : TRUE
    OBVIOUS
  <2>2. CASE T = {z}
    BY <2>2
  <2>3. CASE T # {z}
    <3>1. T \ {z} \in SUBSET T /\ T \ {z} # T /\ T \ {z} # {}
      BY <2>1, <2>3
    <3>2. PICK x \in T \ {z} : \A y \in T \ {z} : x >= y
      BY <1>2, <3>1
    <3>3. CASE x >= z
      BY <3>2, <3>3
    <3>4. CASE ~(x >= z)
      <4>1. \A y \in T : z >= y
        BY <2>1, <3>2, <3>4
      <4> QED
        BY <4>1
    <3> QED
      BY <3>3, <3>4
  <2> QED
    BY <2>2, <2>3
<1> HIDE DEF Good, S
<1>3. \A T \in SUBSET S : T \in Good
  BY <1>1, <1>2, SubsetInduction
<1>4. ASSUME NEW T \in SUBSET S, T # {} PROVE Max(T) \in T /\ \A y \in T : y <= Max(T)
  <2>1. \E x \in T : \A y \in T : x >= y
    BY <1>3, <1>4 DEF Good
  <2>2. Max(T) \in T /\ \A y \in T : Max(T) >= y
    BY <2>1 DEF Max
  <2> QED
    BY <2>2
<1> QED
  BY <1>4 DEF S

Accs == [ok : BOOLEAN, stdin : BOOLEAN, workflows : Seq(WorkflowRec)]
Acc0 == [ok |-> TRUE, stdin |-> FALSE, workflows |-> <<>>]

(* g gives what has been made of the workflows at each set of places.      *)
Reads(g, ws) ==
  /\ g \in [SUBSET DOMAIN ws -> Accs]
  /\ \A s \in SUBSET DOMAIN ws :
        g[s] = IF s = {} THEN Acc0 ELSE LoadWorkflow(g[s \ {Max(s)}], ws[Max(s)])

LEMMA LoadType ==
  ASSUME NEW acc \in Accs, NEW w \in WorkflowRec
  PROVE  LoadWorkflow(acc, w) \in Accs
<1>1. Append(acc.workflows, w) \in Seq(WorkflowRec)
  BY DEF Accs
<1> QED
  BY <1>1 DEF LoadWorkflow, Accs

LEMMA ReadsIs ==
  ASSUME NEW ws \in Seq(WorkflowRec)
  PROVE  \E g : Reads(g, ws) /\ LoadWorkflows(ws) = g[DOMAIN ws]
<1> DEFINE S == DOMAIN ws
           ch == [s \in SUBSET S |-> Max(s)]
           F == [p \in S \X Accs |-> LoadWorkflow(p[2], ws[p[1]])]
           Eq(g) == g = [s \in SUBSET S |->
                           IF s = {} THEN Acc0 ELSE LoadWorkflow(g[s \ {Max(s)}], ws[Max(s)])]
<1>0. IsFiniteSet(S)
  BY FS_Interval
<1>1. S = 1..Len(ws) /\ Len(ws) \in Nat /\ IsFiniteSet(S)
  BY FS_Interval
<1>2. \A s \in SUBSET S : s # {} => Max(s) \in s
  BY <1>1, MaxOfSet
<1>3. Chooses(ch, S)
  BY <1>2 DEF Chooses
<1>4. \A x \in S, v \in Accs : F[<<x, v>>] = LoadWorkflow(v, ws[x]) /\ F[<<x, v>>] \in Accs
  <2>1. \A x \in S : ws[x] \in WorkflowRec
    OBVIOUS
  <2> QED
    BY <2>1, LoadType
<1>5. Acc0 \in Accs
  BY DEF Acc0, Accs
<1>6. PICK f : Folding(f, S, Accs, Acc0, ch, F)
  <2> HIDE DEF F, ch, S
  <2> QED
    BY <1>1, <1>3, <1>4, <1>5, FoldingExists
<1>7. Reads(f, ws)
  <2>1. f \in [SUBSET S -> Accs]
    BY <1>6 DEF Folding
  <2>2. ASSUME NEW s \in SUBSET S, s # {}
        PROVE  f[s] = LoadWorkflow(f[s \ {Max(s)}], ws[Max(s)])
    <3>1. f[s] = F[<<ch[s], f[s \ {ch[s]}]>>] /\ ch[s] = Max(s)
      BY <1>6, <2>2 DEF Folding
    <3>2. Max(s) \in S /\ s \ {Max(s)} \in SUBSET S
      BY <1>2, <2>2
    <3>3. f[s \ {Max(s)}] \in Accs
      BY <2>1, <3>2
    <3> HIDE DEF F, ch
    <3> QED
      BY <1>4, <3>1, <3>2, <3>3
  <2>3. f[{}] = Acc0
    BY <1>6 DEF Folding
  <2> QED
    BY <2>1, <2>2, <2>3 DEF Reads
<1>8. Eq(f)
  BY <1>7 DEF Reads
<1> DEFINE c == CHOOSE g : Eq(g)
<1>9. Eq(c)
  <2> HIDE DEF Eq
  <2> QED
    BY <1>8
<1>10. LoadWorkflows(ws) = c[S]
  BY DEF LoadWorkflows, FoldLeft, MapThenFoldSet, Acc0
<1> HIDE DEF c
<1>11. c[S] = f[S]
  <2> DEFINE Good == {s \in SUBSET S : c[s] = f[s]}
  <2>1. \A s \in SUBSET S : /\ c[s] = IF s = {} THEN Acc0 ELSE LoadWorkflow(c[s \ {Max(s)}], ws[Max(s)])
                            /\ f[s] = IF s = {} THEN Acc0 ELSE LoadWorkflow(f[s \ {Max(s)}], ws[Max(s)])
    BY <1>8, <1>9
  <2>2. ASSUME NEW T \in SUBSET S, \A U \in SUBSET T : U # T => U \in Good PROVE T \in Good
    <3>1. CASE T = {}
      BY <2>1, <3>1
    <3>2. CASE T # {}
      <4>1. T \ {Max(T)} \in SUBSET T /\ T \ {Max(T)} # T
        BY <1>2, <3>2
      <4>2. c[T \ {Max(T)}] = f[T \ {Max(T)}]
        BY <2>2, <4>1
      <4> QED
        BY <2>1, <3>2, <4>2
    <3> QED
      BY <3>1, <3>2
  <2> HIDE DEF Good
  <2>3. \A T \in SUBSET S : T \in Good
    BY <1>0, <2>2, SubsetInduction
  <2> QED
    BY <2>3 DEF Good
<1> QED
  BY <1>7, <1>10, <1>11

(* A file that is read to its end has stdin in its last workflow at most.  *)
LEMMA LoadsLastStdin ==
  ASSUME NEW ws \in Seq(WorkflowRec), LoadWorkflows(ws).ok
  PROVE  \A i \in DOMAIN ws : ws[i].stdin = 1 => i = Len(ws)
<1> DEFINE S == DOMAIN ws
<1>0. IsFiniteSet(S)
  BY FS_Interval
<1>1. S = 1..Len(ws) /\ Len(ws) \in Nat /\ IsFiniteSet(S) /\ \A i \in S : ws[i] \in WorkflowRec
  BY FS_Interval
<1>2. \A s \in SUBSET S : s # {} => Max(s) \in s /\ \A y \in s : y <= Max(s)
  BY <1>1, MaxOfSet
<1>3. PICK g : Reads(g, ws) /\ LoadWorkflows(ws) = g[S]
  BY ReadsIs
<1> DEFINE Good == {s \in SUBSET S : g[s].ok =>
                      \A i \in s : ws[i].stdin = 1 => i = Max(s) /\ g[s].stdin}
<1>4. ASSUME NEW T \in SUBSET S, \A U \in SUBSET T : U # T => U \in Good PROVE T \in Good
  <2> SUFFICES ASSUME g[T].ok, NEW i \in T, ws[i].stdin = 1 PROVE i = Max(T) /\ g[T].stdin
    OBVIOUS
  <2> DEFINE m == Max(T)
             U == T \ {m}
  <2>1. m \in T /\ U \in SUBSET T /\ U # T /\ m \in S
    BY <1>2
  <2>2. g[T] = LoadWorkflow(g[U], ws[m]) /\ g[U] \in Accs
    BY <1>3, <2>1 DEF Reads
  <2>3. U \in Good
    BY <1>4, <2>1
  <2>4. g[U].ok => \A j \in U : ws[j].stdin = 1 => g[U].stdin
    BY <2>3
  <2> HIDE DEF m, U, Good
  <2>5. g[U].ok /\ ~g[U].stdin /\ (g[T].stdin <=> ws[m].stdin = 1)
    BY <2>2 DEF LoadWorkflow, Accs
  <2>6. i = m
    BY <2>4, <2>5 DEF U
  <2> QED
    BY <2>5, <2>6 DEF m
<1> HIDE DEF Good
<1>5. \A T \in SUBSET S : T \in Good
  BY <1>0, <1>4, SubsetInduction
<1>6. \A i \in S : ws[i].stdin = 1 => i = Max(S)
  BY <1>3, <1>5 DEF Good
<1>7. S # {} => Max(S) = Len(ws)
  <2>1. ASSUME S # {} PROVE Max(S) = Len(ws)
    <3>1. Max(S) \in S /\ \A y \in S : y <= Max(S)
      BY <1>2, <2>1
    <3>2. Len(ws) \in S
      BY <1>1, <2>1
    <3> QED
      BY <1>1, <3>1, <3>2
  <2> QED
    BY <2>1
<1> QED
  BY <1>6, <1>7 DEF S

------------------------------------------------------------------------------
(* Modules of a workflow, picked in their order.                           *)
LEMMA PicksNone ==
  ASSUME NEW ms, NEW K
  PROVE  Picks(<<>>, ms, K) <=> K = {}
<1>1. DOMAIN <<>> = {}
  OBVIOUS
<1>2. ASSUME K = {} PROVE Picks(<<>>, ms, K)
  <2> DEFINE ks == [n \in {} |-> 0]
  <2>1. ks \in [{} -> K] /\ Range(ks) = K
    BY <1>2 DEF Range
  <2> QED
    BY <1>1, <2>1 DEF Picks
<1>3. ASSUME Picks(<<>>, ms, K) PROVE K = {}
  BY <1>1, <1>3 DEF Picks, Range
<1> QED
  BY <1>2, <1>3

LEMMA PicksNext ==
  ASSUME NEW A, NEW w \in Seq(A), NEW ms, NEW K \in SUBSET Nat, NEW k \in Nat,
         \A j \in K : j < k, Picks(w, ms, K)
  PROVE  Picks(Append(w, ms[k]), ms, K \cup {k})
<1> DEFINE d == Append(w, ms[k])
           n == Len(w)
<1>1. /\ n \in Nat /\ DOMAIN w = 1..n /\ DOMAIN d = 1..(n + 1) /\ d[n + 1] = ms[k]
      /\ \A i \in 1..n : d[i] = w[i]
  OBVIOUS
<1>2. PICK ks \in [DOMAIN w -> K] :
        /\ \A i, j \in DOMAIN w : i < j => ks[i] < ks[j]
        /\ Range(ks) = K
        /\ \A i \in DOMAIN w : w[i] = ms[ks[i]]
  BY DEF Picks
<1> HIDE DEF d, n
<1> DEFINE ls == [i \in 1..(n + 1) |-> IF i = n + 1 THEN k ELSE ks[i]]
<1>3. ls[n + 1] = k /\ \A i \in 1..n : ls[i] = ks[i] /\ ks[i] \in K /\ i # n + 1
  BY <1>1, <1>2
<1>4. \A i \in 1..(n + 1) : i = n + 1 \/ i \in 1..n
  BY <1>1
<1>5. n + 1 \in 1..(n + 1) /\ \A i \in 1..n : i \in 1..(n + 1)
  BY <1>1
<1>6. ls \in [DOMAIN d -> K \cup {k}]
  BY <1>1, <1>3, <1>4
<1>7. Range(ls) = K \cup {k}
  <2>1. \A j \in K : \E i \in 1..n : ks[i] = j
    BY <1>1, <1>2 DEF Range
  <2>2. DOMAIN ls = 1..(n + 1)
    OBVIOUS
  <2> HIDE DEF ls
  <2>3. \A j : j \in Range(ls) <=> \E i \in 1..(n + 1) : ls[i] = j
    BY <2>2 DEF Range
  <2>4. ASSUME NEW j \in Range(ls) PROVE j \in K \cup {k}
    <3>1. PICK i \in 1..(n + 1) : ls[i] = j
      BY <2>3
    <3> QED
      BY <1>3, <1>4, <3>1
  <2>5. ASSUME NEW j \in K \cup {k} PROVE j \in Range(ls)
    <3>1. \E i \in 1..(n + 1) : ls[i] = j
      BY <1>3, <1>5, <2>1
    <3> QED
      BY <2>3, <3>1
  <2> QED
    BY <2>4, <2>5
<1>8. ASSUME NEW i \in 1..(n + 1), NEW j \in 1..(n + 1), i < j PROVE ls[i] < ls[j]
  <2>1. i \in 1..n
    BY <1>1, <1>8
  <2>2. CASE j = n + 1
    BY <1>3, <2>1, <2>2
  <2>3. CASE j \in 1..n
    BY <1>1, <1>2, <1>3, <1>8, <2>1, <2>3
  <2> QED
    BY <1>4, <2>2, <2>3
<1>9. ASSUME NEW i \in 1..(n + 1) PROVE d[i] = ms[ls[i]]
  BY <1>1, <1>2, <1>3, <1>4
<1> HIDE DEF ls
<1>10. Picks(d, ms, K \cup {k})
  BY <1>1, <1>6, <1>7, <1>8, <1>9 DEF Picks
<1> QED
  BY <1>10 DEF d

LEMMA BeforeNext ==
  ASSUME FileOK, NEW i \in 1..Len(file.workflows)
  PROVE  /\ \A k \in 1..Len(file.workflows[i].modules) :
               Before(i, k + 1) = Before(i, k) \cup {file.workflows[i].modules[k]}
         /\ Before(i + 1, 1) = Before(i, Len(file.workflows[i].modules) + 1)
<1> DEFINE ms == file.workflows[i].modules
           Old(j) == UNION {Range(file.workflows[l].modules) : l \in 1..(j - 1)}
<1>1. Len(file.workflows) \in Nat /\ ms \in Seq(Modules) /\ DOMAIN ms = 1..Len(ms) /\ Len(ms) \in Nat
  <2>1. file.workflows[i] \in WorkflowRec /\ Len(file.workflows) \in Nat
    BY DEF FileOK
  <2>2. ms \in Seq(Modules)
    BY <2>1 DEF WorkflowRec
  <2> HIDE DEF ms
  <2> QED
    BY <2>1, <2>2
<1>2. \A k \in Nat : Before(i, k) = {ms[l] : l \in 1..(k - 1)} \cup Old(i)
  BY DEF Before
<1>3. Range(ms) = {ms[l] : l \in 1..Len(ms)}
  BY <1>1 DEF Range
<1>4. Old(i + 1) = Old(i) \cup Range(ms)
  <2>1. 1..(i + 1 - 1) = 1..(i - 1) \cup {i}
    BY <1>1
  <2>2. \A x : x \in Old(i + 1) <=> \E l \in 1..(i + 1 - 1) : x \in Range(file.workflows[l].modules)
    OBVIOUS
  <2>3. \A x : x \in Old(i) <=> \E l \in 1..(i - 1) : x \in Range(file.workflows[l].modules)
    OBVIOUS
  <2> HIDE DEF Old
  <2> QED
    BY <2>1, <2>2, <2>3
<1>5. Before(i + 1, 1) = {file.workflows[i + 1].modules[l] : l \in 1..(1 - 1)} \cup Old(i + 1)
  BY DEF Before
<1>6. {file.workflows[i + 1].modules[l] : l \in 1..(1 - 1)} = {}
  OBVIOUS
<1> HIDE DEF Old, ms
<1>7. Before(i + 1, 1) = Before(i, Len(ms) + 1)
  <2>1. Before(i, Len(ms) + 1) = {ms[l] : l \in 1..(Len(ms) + 1 - 1)} \cup Old(i)
    BY <1>1, <1>2
  <2>2. Len(ms) + 1 - 1 = Len(ms)
    BY <1>1
  <2> QED
    BY <1>3, <1>4, <1>5, <1>6, <2>1, <2>2
<1>8. ASSUME NEW k \in 1..Len(ms)
      PROVE  Before(i, k + 1) = Before(i, k) \cup {ms[k]}
  <2>1. 1..(k + 1 - 1) = 1..(k - 1) \cup {k}
    BY <1>1
  <2>2. {ms[l] : l \in 1..(k + 1 - 1)} = {ms[l] : l \in 1..(k - 1)} \cup {ms[k]}
    BY <2>1
  <2> QED
    BY <1>1, <1>2, <2>2
<1> QED
  BY <1>7, <1>8 DEF ms

LEMMA BeforeFirst == Before(1, 1) = {}
BY DEF Before

------------------------------------------------------------------------------
(* The tool edits the file before anything exists.                         *)
LEMMA EditStep ==
  ASSUME CoreStrong, NEW f, Edit(f),
         f = [workflows |-> f.workflows, services |-> f.services],
         f.workflows \in Seq(WorkflowRec)
  PROVE  CoreStrong'
<1>1. /\ pc = "edit" /\ file' = f /\ pc' = pc /\ parts' = parts /\ wfs' = wfs /\ cur' = cur
      /\ mods' = mods /\ srvs' = srvs /\ libs' = libs /\ inited' = inited /\ status' = status
      /\ thr' = thr /\ run' = run /\ h' = h /\ sigs' = sigs /\ why' = why
  BY DEF Edit, threads
<1>2. FileOK'
  BY <1>1 DEF FileOK
<1>3. PartsInv'
  BY <1>1 DEF CoreStrong, PartsInv
<1>4. /\ mods = {} /\ srvs = {} /\ wfs = <<>> /\ parts = {} /\ thr[Master] = "none"
  BY <1>1, EngineFacts DEF CoreStrong, PartsInv, LoadedInv, ThreadsInv, WorkflowsInv, Early
<1>5. LoadedInv'
  BY <1>1, <1>4 DEF CoreStrong, LoadedInv
<1>6. ThreadsInv'
  BY <1>1 DEF CoreStrong, ThreadsInv, PartsOutliveThreads
<1>7. WorkflowsInv'
  <2>1. Len(f.workflows) \in Nat /\ Len(<<>>) = 0 /\ DOMAIN <<>> = {}
    OBVIOUS
  <2>2. pc \notin Serving /\ pc # "workflows"
    BY <1>1 DEF Serving
  <2>3. wfs' = <<>> /\ parts' = {} /\ thr'[Master] = "none" /\ cur' \in Nat /\ pc' = "edit"
    BY <1>1, <1>4 DEF CoreStrong, WorkflowsInv
  <2> QED
    BY <1>1, <2>1, <2>2, <2>3 DEF WorkflowsInv
<1>8. CrashCause'
  BY <1>1 DEF CrashCause
<1> QED
  BY <1>2, <1>3, <1>5, <1>6, <1>7, <1>8 DEF CoreStrong

LEMMA ToolStep == ASSUME CoreStrong, Tool PROVE CoreStrong'
<1>0. /\ file = [workflows |-> file.workflows, services |-> file.services]
      /\ file.workflows \in Seq(WorkflowRec)
  BY DEF CoreStrong, FileOK
<1>1. CASE ToolAddWorkflow
  <2>1. PICK stdin \in {0, 1}, port \in Ports : Edit(AddWorkflow(file, stdin, port))
    BY <1>1 DEF ToolAddWorkflow
  <2> DEFINE w == [CreateWorkflow EXCEPT !.stdin = IF stdin = 1 THEN 1 ELSE 0,
                                         !.port = IF stdin # 1 /\ port > 0 THEN port ELSE NoPort]
  <2>2. port \in Int /\ NoPort \in Int
    BY CoreAssumption DEF NoPort
  <2>3. w \in WorkflowRec
    <3>1. PICK a \in {0, 1}, b \in Int : /\ a = IF stdin = 1 THEN 1 ELSE 0
                                         /\ b = IF stdin # 1 /\ port > 0 THEN port ELSE NoPort
      BY <2>2
    <3>2. w = [CreateWorkflow EXCEPT !.stdin = a, !.port = b]
      BY <3>1
    <3>4. CreateWorkflow = [stdin |-> 0, port |-> NoPort, modules |-> <<>>]
      BY DEF CreateWorkflow
    <3>5. w = [stdin |-> a, port |-> b, modules |-> <<>>]
      <4> HIDE DEF w
      <4> QED
        BY <3>2, <3>4
    <3>3. <<>> \in Seq(Modules)
      OBVIOUS
    <3> QED
      BY <3>1, <3>3, <3>5 DEF WorkflowRec
  <2>4. AddWorkflow(file, stdin, port) = [file EXCEPT !.workflows = Append(file.workflows, w)]
    BY DEF AddWorkflow
  <2> HIDE DEF w
  <2>5. PICK f : f = AddWorkflow(file, stdin, port)
    OBVIOUS
  <2>6. /\ f = [workflows |-> f.workflows, services |-> f.services]
        /\ f.workflows = Append(file.workflows, w)
    BY <1>0, <2>4, <2>5
  <2>7. f.workflows \in Seq(WorkflowRec)
    BY <1>0, <2>3, <2>6
  <2> QED
    BY <2>1, <2>5, <2>6, <2>7, EditStep
<1>2. CASE ToolAddModule
  <2>1. PICK i \in DOMAIN file.workflows, m \in Modules : Edit(AddModule(file, i, m))
    BY <1>2 DEF ToolAddModule
  <2> DEFINE w == [file.workflows[i] EXCEPT !.modules = Append(file.workflows[i].modules, m)]
  <2>2. file.workflows[i] \in WorkflowRec
    BY <1>0
  <2>3. Append(file.workflows[i].modules, m) \in Seq(Modules)
    BY <2>2 DEF WorkflowRec
  <2>4. w \in WorkflowRec
    BY <2>2, <2>3 DEF WorkflowRec
  <2>5. AddModule(file, i, m) = [file EXCEPT !.workflows = [file.workflows EXCEPT ![i] = w]]
    BY DEF AddModule
  <2> HIDE DEF w
  <2>6. PICK f : f = AddModule(file, i, m)
    OBVIOUS
  <2>7. /\ f = [workflows |-> f.workflows, services |-> f.services]
        /\ f.workflows = [file.workflows EXCEPT ![i] = w]
    BY <1>0, <2>5, <2>6
  <2>8. f.workflows \in Seq(WorkflowRec)
    BY <1>0, <2>4, <2>7
  <2> QED
    BY <2>1, <2>6, <2>7, <2>8, EditStep
<1>3. CASE ToolAddService
  <2>1. PICK s \in Services, item \in ServiceItems : Edit(AddService(file, s, item))
    BY <1>3 DEF ToolAddService
  <2>2. PICK f : f = AddService(file, s, item)
    OBVIOUS
  <2>3. PICK v : f = [file EXCEPT !.services = v]
    BY <2>2 DEF AddService
  <2>4. f = [workflows |-> f.workflows, services |-> f.services] /\ f.workflows = file.workflows
    BY <1>0, <2>3
  <2> QED
    BY <1>0, <2>1, <2>2, <2>4, EditStep
<1> QED
  BY <1>1, <1>2, <1>3 DEF Tool

(* A step of sk_core_init before the workflows are set up.                 *)
LEMMA EarlyStep ==
  ASSUME CoreStrong, pc \in Early, PartsInv', LoadedInv', CrashCause',
         file' = file, wfs' = wfs, cur' = cur, mods' = mods, srvs \subseteq srvs',
         inited' = inited, thr' = thr, run' = run, h' = h,
         status' \in {status, "init"},
         pc' \in Early \cup {"workflows", "exited", "crashed"},
         "config" \in parts' => "config" \in parts \/ Loads(file)
  PROVE  CoreStrong'
<1>0. /\ FileOK /\ WorkflowsInv /\ ThreadsInv /\ LoadedInv
  BY DEF CoreStrong
<1>1. /\ mods = {} /\ wfs = <<>> /\ \A e \in Engines : thr[e] = "none" /\ h[e] = 0
  BY <1>0 DEF LoadedInv, WorkflowsInv, ThreadsInv
<1>2. FileOK'
  BY <1>0 DEF FileOK
<1>3. pc' \notin Serving /\ pc' # "start" /\ pc' # "master" /\ pc' # "destroy"
  BY DEF Serving, Early
<1>4. ThreadsInv'
  <2>1. PartsOutliveThreads'
    BY <1>1 DEF PartsOutliveThreads
  <2>2. inited' \subseteq mods' \cup srvs'
    BY <1>0 DEF ThreadsInv
  <2>3. /\ thr' \in [Engines -> {"none", "created", "loop", "done"}]
        /\ run' \in [Engines -> BOOLEAN] /\ h' \in [Engines -> 0..(Len(EngineSeq) + 1)]
        /\ status' \in {"none", "init", "starting", "running", "stopping", "destroying"}
    BY <1>0 DEF ThreadsInv
  <2> QED
    BY <1>1, <1>3, <2>1, <2>2, <2>3 DEF ThreadsInv, Threaded
<1>5. WorkflowsInv'
  <2>1. \A i \in DOMAIN file.workflows : file.workflows[i].stdin = 1 /\ "config" \in parts'
                                           => i = Len(file.workflows)
    <3>1. CASE "config" \in parts
      BY <1>0, <3>1 DEF WorkflowsInv
    <3>2. CASE Loads(file)
      BY <1>0, <3>2, LoadsLastStdin DEF Loads, FileOK
    <3> QED
      BY <3>1, <3>2
  <2>2. Seen' = {} /\ DOMAIN wfs' = {} /\ wfs' = <<>> /\ thr'[Master] = "none" /\ mods' = {}
    BY <1>1, EngineFacts DEF Seen
  <2>3. cur' \in Nat /\ Len(wfs') <= Len(file'.workflows) /\ wfs' \in Seq(Seq(Modules))
    BY <1>0 DEF WorkflowsInv
  <2> QED
    BY <1>3, <2>1, <2>2, <2>3 DEF WorkflowsInv
<1> QED
  BY <1>2, <1>4, <1>5 DEF CoreStrong

LEMMA EarlyFacts ==
  ASSUME CoreStrong, pc \in Early
  PROVE  /\ pc \notin {"workflows", "start", "master", "destroy", "exited", "crashed"}
         /\ mods = {} /\ (pc # "services" => srvs = {})
         /\ srvs \subseteq Services /\ libs \in [Langs -> {"untried", "loaded", "missing"}]
         /\ parts \subseteq Parts
         /\ \A s \in srvs : libs[file.services[s].type] = "loaded"
BY DEF CoreStrong, LoadedInv, Early, PartsInv

(* Steps that go from one point to the next, or end the process.           *)
Moves(to, new) ==
  /\ (pc' = to /\ parts' = parts \cup new) \/ (pc' = "exited" /\ parts' = parts)
  /\ \/ pc = "edit" /\ to = "config" /\ new = {"env"}
     \/ pc = "config" /\ to = "logs" /\ new = {"config"}
     \/ pc = "logs" /\ to = "loaders" /\ new = {"logs"}
     \/ pc = "loaders" /\ to = "engines" /\ new = {"loaders", "mons"}
     \/ pc = "engines" /\ to = "admin" /\ new = {"engines"}
     \/ pc = "admin" /\ to = "services" /\ new = {"admin", "drivers"}
     \/ pc = "services" /\ to = "workflows" /\ new = {"services", "workflows", "modules"}

LEMMA EarlyParts ==
  ASSUME CoreStrong, pc \in Early, NEW to, NEW new, Moves(to, new)
  PROVE  PartsInv' /\ pc' \in Early \cup {"workflows", "exited"}
<1>0. /\ (pc' = to /\ parts' = parts \cup new) \/ (pc' = "exited" /\ parts' = parts)
      /\ \/ pc = "edit" /\ to = "config" /\ new = {"env"}
         \/ pc = "config" /\ to = "logs" /\ new = {"config"}
         \/ pc = "logs" /\ to = "loaders" /\ new = {"logs"}
         \/ pc = "loaders" /\ to = "engines" /\ new = {"loaders", "mons"}
         \/ pc = "engines" /\ to = "admin" /\ new = {"engines"}
         \/ pc = "admin" /\ to = "services" /\ new = {"admin", "drivers"}
         \/ pc = "services" /\ to = "workflows" /\ new = {"services", "workflows", "modules"}
  BY DEF Moves
<1>1. parts \subseteq Parts /\ PartsInv
  BY DEF CoreStrong, PartsInv
<1>2. CASE pc' = "exited" /\ parts' = parts
  BY <1>1, <1>2 DEF PartsInv, Early
<1>3. CASE pc' = to /\ parts' = parts \cup new
  <2>1. CASE pc = "edit"
    BY <1>0, <1>1, <1>3, <2>1, OrderFacts DEF PartsInv, Early
  <2>2. CASE pc = "config"
    BY <1>0, <1>1, <1>3, <2>2, OrderFacts DEF PartsInv, Early
  <2>3. CASE pc = "logs"
    BY <1>0, <1>1, <1>3, <2>3, OrderFacts DEF PartsInv, Early
  <2>4. CASE pc = "loaders"
    BY <1>0, <1>1, <1>3, <2>4, OrderFacts DEF PartsInv, Early
  <2>5. CASE pc = "engines"
    BY <1>0, <1>1, <1>3, <2>5, OrderFacts DEF PartsInv, Early
  <2>6. CASE pc = "admin"
    BY <1>0, <1>1, <1>3, <2>6, OrderFacts DEF PartsInv, Early
  <2>7. CASE pc = "services"
    BY <1>0, <1>1, <1>3, <2>7, OrderFacts DEF PartsInv, Early
  <2> QED
    BY <1>0, <2>1, <2>2, <2>3, <2>4, <2>5, <2>6, <2>7
<1> QED
  BY <1>0, <1>2, <1>3

LEMMA AdvanceStep ==
  ASSUME CoreStrong, InitEnv \/ InitConfig \/ InitLog \/ InitMonitors \/ SetupEngines \/ InitAdmin
                       \/ SetupServices
  PROVE  CoreStrong'
<1>1. /\ pc \in Early /\ file' = file /\ wfs' = wfs /\ cur' = cur /\ mods' = mods /\ srvs' = srvs
      /\ libs' = libs /\ inited' = inited /\ thr' = thr /\ run' = run /\ h' = h
      /\ status' \in {status, "init"}
  BY DEF InitEnv, InitConfig, InitLog, InitMonitors, SetupEngines, InitAdmin, SetupServices, Main,
     GoTo, ExitProcess, loading, threads, Early
<1>2. \E to, new : Moves(to, new)
  <2>1. CASE InitEnv
    <3>1. Moves("config", {"env"})
      BY <2>1 DEF InitEnv, Main, GoTo, Moves
    <3> QED
      BY <3>1
  <2>2. CASE InitConfig
    <3>1. Moves("logs", {"config"})
      BY <2>2 DEF InitConfig, Main, GoTo, ExitProcess, Moves
    <3> QED
      BY <3>1
  <2>3. CASE InitLog
    <3>1. Moves("loaders", {"logs"})
      BY <2>3 DEF InitLog, Main, GoTo, ExitProcess, Moves
    <3> QED
      BY <3>1
  <2>4. CASE InitMonitors
    <3>1. Moves("engines", {"loaders", "mons"})
      BY <2>4 DEF InitMonitors, Main, GoTo, Moves
    <3> QED
      BY <3>1
  <2>5. CASE SetupEngines
    <3>1. Moves("admin", {"engines"})
      BY <2>5 DEF SetupEngines, Main, GoTo, Moves
    <3> QED
      BY <3>1
  <2>6. CASE InitAdmin
    <3>1. Moves("services", {"admin", "drivers"})
      BY <2>6 DEF InitAdmin, Main, GoTo, ExitProcess, Moves
    <3> QED
      BY <3>1
  <2>7. CASE SetupServices
    <3>1. Moves("workflows", {"services", "workflows", "modules"})
      BY <2>7 DEF SetupServices, Main, GoTo, Moves
    <3> QED
      BY <3>1
  <2> QED
    BY <2>1, <2>2, <2>3, <2>4, <2>5, <2>6, <2>7
<1>3. PartsInv' /\ pc' \in Early \cup {"workflows", "exited"}
  BY <1>1, <1>2, EarlyParts
<1>4. LoadedInv'
  <2>1. pc' # "destroy" /\ (pc # "services" => srvs = {}) /\ mods = {}
    BY <1>1, <1>3, EarlyFacts DEF Early
  <2>2. pc' \in Early \ {"services"} => pc # "services"
    BY <1>2 DEF Moves, Early
  <2> QED
    BY <1>1, <2>1, <2>2 DEF CoreStrong, LoadedInv
<1>5. CrashCause'
  BY <1>3 DEF CrashCause, Early
<1>6. "config" \in parts' => "config" \in parts \/ Loads(file)
  <2>1. CASE InitConfig
    BY <2>1 DEF InitConfig, ExitProcess
  <2>2. CASE ~InitConfig
    <3>1. pc # "config"
      BY <2>2 DEF InitEnv, InitLog, InitMonitors, SetupEngines, InitAdmin, SetupServices, Main
    <3> QED
      BY <1>2, <3>1 DEF Moves
  <2> QED
    BY <2>1, <2>2
<1> QED
  BY <1>1, <1>3, <1>4, <1>5, <1>6, EarlyStep

LEMMA LibraryStep ==
  ASSUME CoreStrong, NEW l \in Langs, LoadUserlib(l)
  PROVE  CoreStrong'
<1>1. /\ pc = "loaders" /\ pc' = pc /\ parts' = parts /\ why' = why /\ srvs' = srvs
      /\ file' = file /\ wfs' = wfs /\ cur' = cur /\ mods' = mods /\ inited' = inited
      /\ thr' = thr /\ run' = run /\ h' = h /\ status' = status
      /\ \E r \in {"loaded", "missing"} : libs' = [libs EXCEPT ![l] = r]
  BY DEF LoadUserlib, Main, threads
<1>2. pc \in Early
  BY <1>1 DEF Early
<1>3. PartsInv'
  BY <1>1 DEF CoreStrong, PartsInv
<1>4. LoadedInv'
  <2>1. mods = {} /\ srvs = {} /\ libs' \in [Langs -> {"untried", "loaded", "missing"}]
    BY <1>1, <1>2, EarlyFacts
  <2> QED
    BY <1>1, <2>1 DEF LoadedInv
<1>5. CrashCause'
  BY <1>1 DEF CrashCause
<1> QED
  BY <1>1, <1>2, <1>3, <1>4, <1>5, EarlyStep

LEMMA ServiceStep ==
  ASSUME CoreStrong, NEW s \in Services, SetupService(s)
  PROVE  CoreStrong'
<1>1. /\ pc = "services" /\ parts' = parts /\ inited' = inited /\ status' = status
      /\ thr' = thr /\ run' = run /\ h' = h
      /\ file' = file /\ wfs' = wfs /\ cur' = cur /\ mods' = mods /\ libs' = libs
  BY DEF SetupService, Main, threads, Load, loading
<1>2. \/ pc' = "crashed" /\ why' = "no registry" /\ ServiceLoaders = {} /\ srvs' = srvs
      \/ pc' = "exited" /\ srvs' = srvs
      \/ /\ pc' = pc /\ why' = why /\ srvs' = srvs \cup {s}
         /\ file.services[s].type \in ServiceLoaders
  BY DEF SetupService, Load, loading, Crash, ExitProcess
<1>3. pc \in Early /\ pc' \in Early \cup {"exited", "crashed"}
  BY <1>1, <1>2 DEF Early
<1>4. PartsInv'
  BY <1>1, <1>2 DEF CoreStrong, PartsInv, Early
<1>5. LoadedInv'
  <2>1. file.services[s].type \in ServiceLoaders => libs[file.services[s].type] = "loaded"
    BY DEF ServiceLoaders, Loaded
  <2>2. /\ srvs' \subseteq Services
        /\ \A x \in srvs' : libs[file.services[x].type] = "loaded"
    BY <1>2, <1>3, <2>1, EarlyFacts
  <2>3. mods = {} /\ pc' \notin Early \ {"services"} /\ pc' # "destroy"
    BY <1>1, <1>2, <1>3, EarlyFacts DEF Early
  <2> QED
    BY <1>1, <2>2, <2>3 DEF CoreStrong, LoadedInv
<1>6. CrashCause'
  <2>1. ServiceLoaders = {} => "cpp" \notin Loaded
    BY DEF ServiceLoaders
  <2>2. Loaded' = Loaded
    BY <1>1 DEF Loaded
  <2> QED
    BY <1>1, <1>2, <2>1, <2>2 DEF CrashCause
<1> QED
  BY <1>1, <1>2, <1>3, <1>4, <1>5, <1>6, EarlyStep

------------------------------------------------------------------------------
(* Setting up the workflows.                                               *)
LEMMA FileKept ==
  ASSUME file' = file
  PROVE  /\ \A i, k : Before(i, k)' = Before(i, k)
         /\ \A i, k : FirstUse(i, k)' <=> FirstUse(i, k)
         /\ \A i : SetUp(i)' <=>
               /\ Done(i)' <= Len(file.workflows[i].modules)
               /\ Picks(wfs'[i], file.workflows[i].modules, {k \in 1..Done(i)' : FirstUse(i, k)})
<1>1. \A i, k : Before(i, k)' = Before(i, k)
  BY DEF Before
<1>2. \A i, k : FirstUse(i, k)' <=> FirstUse(i, k)
  BY <1>1 DEF FirstUse
<1>3. ASSUME NEW i
      PROVE  SetUp(i)' <=>
               /\ Done(i)' <= Len(file.workflows[i].modules)
               /\ Picks(wfs'[i], file.workflows[i].modules, {k \in 1..Done(i)' : FirstUse(i, k)})
  <2>1. {k \in 1..Done(i)' : FirstUse(i, k)'} = {k \in 1..Done(i)' : FirstUse(i, k)}
    BY <1>2
  <2> QED
    BY <2>1 DEF SetUp
<1> QED
  BY <1>1, <1>2, <1>3

LEMMA WorkflowsKept ==
  ASSUME CoreStrong, file' = file, wfs' = wfs, cur' = cur,
         "config" \in parts' => "config" \in parts,
         pc' \in Early => pc \in Early,
         pc' = "workflows" => pc = "workflows" /\ mods' = mods,
         pc' \in Serving \/ thr'[Master] # "none" =>
            \/ pc \in Serving \/ thr[Master] # "none"
            \/ AllListed /\ Len(wfs) = Len(file.workflows)
  PROVE  WorkflowsInv'
<1>1. WorkflowsInv
  BY DEF CoreStrong
<1>2. Listed' = Listed /\ (AllListed' <=> AllListed) /\ Seen' = Seen
  <2>1. Listed' = Listed
    BY DEF Listed
  <2>2. Seen' = Seen
    BY FileKept DEF Seen
  <2> QED
    BY <2>1, <2>2 DEF AllListed
<1>3. \A i : SetUp(i)' <=> SetUp(i)
  <2>1. \A i : Done(i)' = Done(i)
    BY DEF Done
  <2> QED
    BY <2>1, FileKept DEF SetUp
<1>4. \A i \in DOMAIN wfs' : SetUp(i)'
  BY <1>1, <1>3 DEF WorkflowsInv
<1>6. pc' = "workflows" => /\ \A n \in mods' : \E m \in Seen' : m.name = n.name
                           /\ \A m \in Seen' : \E n \in mods' : m.name = n.name
  BY <1>1, <1>2 DEF WorkflowsInv
<1>7. pc' \in Serving \/ thr'[Master] # "none" => Len(wfs') = Len(file'.workflows) /\ AllListed'
  BY <1>1, <1>2 DEF WorkflowsInv
<1>8. /\ wfs' \in Seq(Seq(Modules)) /\ cur' \in Nat /\ Len(wfs') <= Len(file'.workflows)
      /\ pc' \in Early => wfs' = <<>>
      /\ "config" \in parts' =>
            \A i \in DOMAIN file'.workflows :
               file'.workflows[i].stdin = 1 => i = Len(file'.workflows)
  BY <1>1 DEF WorkflowsInv
<1> QED
  BY <1>4, <1>6, <1>7, <1>8 DEF WorkflowsInv

LEMMA SetupStep ==
  ASSUME CoreStrong, pc = "workflows", pc' \in {"workflows", "exited", "crashed"},
         parts' = parts, inited' = inited, status' = status, thr' = thr, run' = run, h' = h,
         file' = file, srvs' = srvs, libs' = libs, mods \subseteq mods', mods' \subseteq Modules,
         \A m \in mods' : libs[m.type] = "loaded",
         WorkflowsInv', CrashCause'
  PROVE  CoreStrong'
<1>1. /\ parts = Parts /\ pc \notin Early /\ pc' \notin Early
      /\ \A e \in Engines : thr[e] = "none" /\ h[e] = 0
  BY DEF CoreStrong, PartsInv, ThreadsInv, Early
<1>2. FileOK'
  BY DEF CoreStrong, FileOK
<1>3. PartsInv'
  BY <1>1 DEF CoreStrong, PartsInv
<1>4. LoadedInv'
  BY <1>1 DEF CoreStrong, LoadedInv
<1>5. ThreadsInv'
  <2>1. PartsOutliveThreads'
    BY <1>1 DEF PartsOutliveThreads
  <2>2. inited' \subseteq mods' \cup srvs'
    BY DEF CoreStrong, ThreadsInv
  <2> QED
    BY <1>1, <2>1, <2>2 DEF CoreStrong, ThreadsInv, Threaded
<1> QED
  BY <1>2, <1>3, <1>4, <1>5 DEF CoreStrong

LEMMA ListingFacts ==
  ASSUME CoreStrong, pc = "workflows", ~AllListed, NEW i, i = Len(wfs), NEW c, c = cur,
         NEW ms, ms = file.workflows[i].modules
  PROVE  /\ i \in 1..Len(file.workflows) /\ DOMAIN wfs = 1..i /\ i \in DOMAIN wfs
         /\ ms \in Seq(Modules) /\ c \in Nat /\ c + 1 \in 1..Len(ms) /\ Len(ms) \in Nat
         /\ ms[c + 1] \in Modules /\ Listed[cur + 1] = ms[c + 1]
         /\ wfs \in Seq(Seq(Modules)) /\ wfs[i] \in Seq(Modules)
         /\ Picks(wfs[i], ms, {k \in 1..c : FirstUse(i, k)})
         /\ Seen = Before(i, c + 1) /\ Seen \cup {ms[c + 1]} = Before(i, c + 2)
         /\ FirstUse(i, c + 1) <=> ~Known(ms[c + 1])
<1>1. WorkflowsInv /\ FileOK
  BY DEF CoreStrong
<1>2. wfs # <<>> /\ cur # Len(Listed)
  BY DEF AllListed
<1>3. /\ i \in 1..Len(file.workflows) /\ DOMAIN wfs = 1..i /\ i \in DOMAIN wfs
      /\ wfs \in Seq(Seq(Modules)) /\ c \in Nat
  BY <1>1, <1>2 DEF WorkflowsInv, FileOK
<1>4. file.workflows[i] \in WorkflowRec
  BY <1>1, <1>3 DEF FileOK
<1>5. ms \in Seq(Modules) /\ wfs[i] \in Seq(Modules)
  BY <1>3, <1>4 DEF WorkflowRec
<1>6. Done(i) = c /\ Listed = ms
  BY <1>3 DEF Done, Listed
<1>7. c <= Len(ms) /\ Picks(wfs[i], ms, {k \in 1..c : FirstUse(i, k)})
  BY <1>1, <1>3, <1>6 DEF WorkflowsInv, SetUp
<1>8. Len(ms) \in Nat /\ DOMAIN ms = 1..Len(ms)
  BY <1>5
<1>9. c + 1 \in 1..Len(ms)
  BY <1>2, <1>3, <1>6, <1>7, <1>8
<1>10. ms[c + 1] \in Modules /\ Listed[cur + 1] = ms[c + 1]
  BY <1>5, <1>6, <1>8, <1>9
<1>11. Seen = Before(i, c + 1)
  BY <1>2 DEF Seen
<1>12. Before(i, c + 2) = Before(i, c + 1) \cup {ms[c + 1]}
  <2>1. Before(i, (c + 1) + 1) = Before(i, c + 1) \cup {ms[c + 1]}
    BY <1>1, <1>3, <1>9, BeforeNext
  <2>2. (c + 1) + 1 = c + 2
    BY <1>3
  <2> QED
    BY <2>1, <2>2
<1>13. FirstUse(i, c + 1) <=> ~Known(ms[c + 1])
  <2>1. FirstUse(i, c + 1) <=> \A m \in Seen : m.name # ms[c + 1].name
    BY <1>11 DEF FirstUse
  <2>2. /\ \A n \in mods : \E m \in Seen : m.name = n.name
        /\ \A m \in Seen : \E n \in mods : m.name = n.name
    BY <1>1 DEF WorkflowsInv
  <2>3. Known(ms[c + 1]) <=> \E n \in mods : n.name = ms[c + 1].name
    BY DEF Known
  <2> QED
    BY <2>1, <2>2, <2>3
<1> QED
  BY <1>3, <1>5, <1>7, <1>8, <1>9, <1>10, <1>11, <1>12, <1>13

LEMMA ModuleStep ==
  ASSUME CoreStrong, SetupModule
  PROVE  CoreStrong'
<1> PICK i : i = Len(wfs)
  OBVIOUS
<1> PICK ms : ms = file.workflows[i].modules
  OBVIOUS
<1> PICK c : c = cur
  OBVIOUS
<1> PICK m : m = ms[c + 1]
  OBVIOUS
<1>1. /\ pc = "workflows" /\ ~AllListed /\ parts' = parts /\ inited' = inited /\ status' = status
      /\ thr' = thr /\ run' = run /\ h' = h /\ file' = file /\ srvs' = srvs /\ libs' = libs
  BY DEF SetupModule, Main, threads, Load, loading
<1>2. /\ i \in 1..Len(file.workflows) /\ DOMAIN wfs = 1..i /\ i \in DOMAIN wfs
      /\ ms \in Seq(Modules) /\ c \in Nat /\ c + 1 \in 1..Len(ms) /\ Len(ms) \in Nat
      /\ m \in Modules /\ Listed[cur + 1] = m
      /\ wfs \in Seq(Seq(Modules)) /\ wfs[i] \in Seq(Modules)
      /\ Picks(wfs[i], ms, {k \in 1..c : FirstUse(i, k)})
      /\ Seen = Before(i, c + 1) /\ Seen \cup {m} = Before(i, c + 2)
      /\ FirstUse(i, c + 1) <=> ~Known(m)
  BY <1>1, ListingFacts
<1>3. \/ Known(m) /\ cur' = c + 1 /\ pc' = pc /\ why' = why /\ wfs' = wfs /\ mods' = mods
      \/ /\ pc' = "crashed" /\ why' = "no registry" /\ ModuleLoaders = {}
         /\ wfs' = wfs /\ cur' = cur /\ mods' = mods
      \/ pc' = "exited" /\ wfs' = wfs /\ cur' = cur /\ mods' = mods
      \/ /\ ~Known(m) /\ cur' = c + 1 /\ pc' = pc /\ why' = why
         /\ wfs' = [wfs EXCEPT ![i] = Append(wfs[i], m)] /\ mods' = mods \cup {m}
         /\ m.type \in ModuleLoaders
  BY <1>2 DEF SetupModule, Load, loading, Crash, ExitProcess
<1>4. pc' \in {"workflows", "exited", "crashed"}
  BY <1>1, <1>3
<1>5. /\ mods \subseteq mods' /\ mods' \subseteq Modules
      /\ \A n \in mods' : libs[n.type] = "loaded"
  <2>1. m.type \in ModuleLoaders => libs[m.type] = "loaded"
    BY DEF ModuleLoaders, Loaded
  <2>2. mods \subseteq Modules /\ \A n \in mods : libs[n.type] = "loaded"
    BY DEF CoreStrong, LoadedInv
  <2> QED
    BY <1>2, <1>3, <2>1, <2>2
<1>6. CrashCause'
  <2>1. ModuleLoaders = {} => "cpp" \notin Loaded'
    BY <1>1 DEF ModuleLoaders, Loaded
  <2> QED
    BY <1>1, <1>3, <2>1 DEF CrashCause
<1>7. WorkflowsInv'
  <2>1. CASE cur' = cur /\ wfs' = wfs /\ pc' # "workflows"
    <3>1. pc' \notin Early /\ pc' \notin Serving /\ thr'[Master] = "none" /\ "config" \in parts
      BY <1>1, <1>4, <2>1, EngineFacts, OrderFacts DEF Early, Serving, CoreStrong, ThreadsInv, PartsInv
    <3> QED
      BY <1>1, <2>1, <3>1, WorkflowsKept
  <2>2. CASE cur' = c + 1 /\ pc' = "workflows"
    <3>1. \/ Known(m) /\ wfs' = wfs /\ mods' = mods
          \/ /\ ~Known(m) /\ wfs' = [wfs EXCEPT ![i] = Append(wfs[i], m)]
             /\ mods' = mods \cup {m}
      BY <1>2, <1>3, <2>2
    <3>2. /\ wfs' \in Seq(Seq(Modules)) /\ Len(wfs') = i /\ DOMAIN wfs' = 1..i
          /\ \A j \in 1..i : j # i => wfs'[j] = wfs[j]
      <4>1. PICK v : v = Append(wfs[i], m)
        OBVIOUS
      <4>2. v \in Seq(Modules)
        BY <1>2, <4>1
      <4>3. wfs' = wfs \/ wfs' = [wfs EXCEPT ![i] = v]
        BY <3>1, <4>1
      <4>4. CASE wfs' = wfs
        BY <1>2, <4>4
      <4>5. CASE wfs' = [wfs EXCEPT ![i] = v]
        BY <1>2, <4>2, <4>5
      <4> QED
        BY <4>3, <4>4, <4>5
    <3>3. /\ Known(m) => wfs'[i] = wfs[i]
          /\ ~Known(m) => wfs'[i] = Append(wfs[i], m)
      BY <1>2, <3>1
    <3>4. ASSUME NEW j \in 1..i PROVE SetUp(j)'
      <4>1. SetUp(j)' <=>
               /\ Done(j)' <= Len(file.workflows[j].modules)
               /\ Picks(wfs'[j], file.workflows[j].modules, {k \in 1..Done(j)' : FirstUse(j, k)})
        BY <1>1, FileKept
      <4>2. CASE j # i
        <5>1. Done(j)' = Done(j)
          BY <1>1, <1>2, <3>2, <4>2 DEF Done
        <5>2. SetUp(j)
          BY <1>2 DEF CoreStrong, WorkflowsInv
        <5> QED
          BY <3>2, <4>1, <4>2, <5>1, <5>2 DEF SetUp
      <4>3. CASE j = i
        <5>1. Done(j)' = c + 1
          BY <1>2, <2>2, <3>2, <4>3 DEF Done
        <5>2. c + 1 <= Len(ms)
          BY <1>2
        <5>3. ASSUME Known(m)
              PROVE  {k \in 1..(c + 1) : FirstUse(i, k)} = {k \in 1..c : FirstUse(i, k)}
          <6>1. ~FirstUse(i, c + 1) /\ \A k \in 1..(c + 1) : k = c + 1 \/ k \in 1..c
            BY <1>2, <5>3
          <6>2. \A k \in 1..c : k \in 1..(c + 1)
            BY <1>2
          <6> QED
            BY <6>1, <6>2
        <5>4. ASSUME ~Known(m)
              PROVE  {k \in 1..(c + 1) : FirstUse(i, k)} = {k \in 1..c : FirstUse(i, k)} \cup {c + 1}
          <6>1. FirstUse(i, c + 1) /\ \A k \in 1..(c + 1) : k = c + 1 \/ k \in 1..c
            BY <1>2, <5>4
          <6>2. \A k \in 1..c : k \in 1..(c + 1)
            BY <1>2
          <6>3. c + 1 \in 1..(c + 1)
            BY <1>2
          <6> QED
            BY <6>1, <6>2, <6>3
        <5>5. ASSUME ~Known(m)
              PROVE  Picks(Append(wfs[i], m), ms, {k \in 1..c : FirstUse(i, k)} \cup {c + 1})
          <6> DEFINE K == {k \in 1..c : FirstUse(i, k)}
          <6>1. K \in SUBSET Nat /\ c + 1 \in Nat /\ \A k \in K : k < c + 1
            BY <1>2
          <6>2. wfs[i] \in Seq(Modules) /\ Picks(wfs[i], ms, K)
            BY <1>2
          <6> HIDE DEF K
          <6>3. Picks(Append(wfs[i], ms[c + 1]), ms, K \cup {c + 1})
            BY <6>1, <6>2, PicksNext
          <6> QED
            BY <6>3 DEF K
        <5>6. Picks(wfs'[i], ms, {k \in 1..(c + 1) : FirstUse(i, k)})
          BY <1>2, <3>3, <5>3, <5>4, <5>5
        <5> QED
          BY <4>1, <4>3, <5>1, <5>2, <5>6
      <4> QED
        BY <4>2, <4>3
    <3>5. Seen' = Seen \cup {m}
      <4>1. Seen' = Before(i, c + 2)'
        BY <1>2, <2>2, <3>2 DEF Seen, Before
      <4> QED
        BY <1>1, <1>2, <4>1, FileKept
    <3>6. /\ \A n \in mods : \E x \in Seen : x.name = n.name
          /\ \A x \in Seen : \E n \in mods : x.name = n.name
      BY <1>1 DEF CoreStrong, WorkflowsInv
    <3>7. /\ \A n \in mods' : \E x \in Seen' : x.name = n.name
          /\ \A x \in Seen' : \E n \in mods' : x.name = n.name
      BY <3>1, <3>5, <3>6 DEF Known
    <3>8. thr'[Master] = "none" /\ pc' \notin Early /\ pc' \notin Serving
      BY <1>1, <2>2, EngineFacts DEF CoreStrong, ThreadsInv, Early, Serving
    <3>9. cur' \in Nat /\ Len(wfs') <= Len(file'.workflows)
      BY <1>1, <1>2, <2>2, <3>2 DEF CoreStrong, FileOK
    <3>10. "config" \in parts' => \A j \in DOMAIN file'.workflows :
               file'.workflows[j].stdin = 1 => j = Len(file'.workflows)
      BY <1>1 DEF CoreStrong, WorkflowsInv
    <3> QED
      BY <3>2, <3>4, <3>7, <3>8, <3>9, <3>10 DEF WorkflowsInv
  <2> QED
    BY <1>1, <1>3, <2>1, <2>2
<1> QED
  BY <1>1, <1>4, <1>5, <1>6, <1>7, SetupStep

LEMMA WorkflowStep ==
  ASSUME CoreStrong, SetupWorkflow
  PROVE  CoreStrong'
<1> PICK n : n = Len(wfs)
  OBVIOUS
<1>1. /\ pc = "workflows" /\ AllListed /\ parts' = parts /\ inited' = inited /\ status' = status
      /\ thr' = thr /\ run' = run /\ h' = h /\ file' = file /\ srvs' = srvs /\ libs' = libs
      /\ mods' = mods
  BY DEF SetupWorkflow, Main, threads
<1>2. \/ /\ n < Len(file.workflows) /\ wfs' = Append(wfs, <<>>) /\ cur' = 0
         /\ pc' = pc /\ why' = why
      \/ pc' = "exited" /\ wfs' = wfs /\ cur' = cur
  BY DEF SetupWorkflow, ExitProcess
<1>3. mods' \subseteq Modules /\ \A m \in mods' : libs[m.type] = "loaded"
  BY <1>1 DEF CoreStrong, LoadedInv
<1>4. CrashCause'
  BY <1>1, <1>2 DEF CrashCause
<1>5. thr'[Master] = "none" /\ "config" \in parts
  BY <1>1, EngineFacts, OrderFacts DEF CoreStrong, ThreadsInv, PartsInv
<1>6. CASE pc' = "exited" /\ wfs' = wfs /\ cur' = cur
  <2>1. pc' \notin Early /\ pc' \notin Serving
    BY <1>6 DEF Early, Serving
  <2>2. WorkflowsInv'
    BY <1>1, <1>5, <1>6, <2>1, WorkflowsKept
  <2> QED
    BY <1>1, <1>3, <1>4, <1>6, <2>2, SetupStep
<1>7. CASE n < Len(file.workflows) /\ wfs' = Append(wfs, <<>>) /\ cur' = 0 /\ pc' = pc /\ why' = why
  <2>1. pc' \notin Early /\ pc' \notin Serving
    BY <1>1, <1>7 DEF Early, Serving
  <2>2. wfs \in Seq(Seq(Modules)) /\ n \in Nat /\ file.workflows \in Seq(WorkflowRec) /\ cur \in Nat
    BY DEF CoreStrong, WorkflowsInv, FileOK
  <2>3. /\ wfs' \in Seq(Seq(Modules)) /\ Len(wfs') = n + 1 /\ DOMAIN wfs' = 1..(n + 1)
        /\ \A j \in 1..n : wfs'[j] = wfs[j]
        /\ wfs'[n + 1] = <<>> /\ wfs' # <<>> /\ Len(wfs') <= Len(file.workflows)
    BY <1>7, <2>2
  <2>4. n + 1 \in 1..Len(file.workflows) /\ DOMAIN wfs = 1..n
    BY <1>7, <2>2
  <2>5. file.workflows[n + 1] \in WorkflowRec
    BY <2>2, <2>4
  <2>6. Len(file.workflows[n + 1].modules) \in Nat
    BY <2>5 DEF WorkflowRec
  <2>7. ASSUME NEW j \in 1..(n + 1) PROVE SetUp(j)'
    <3>1. SetUp(j)' <=>
             /\ Done(j)' <= Len(file.workflows[j].modules)
             /\ Picks(wfs'[j], file.workflows[j].modules, {k \in 1..Done(j)' : FirstUse(j, k)})
      BY <1>1, FileKept
    <3>2. CASE j = n + 1
      <4>1. Done(j)' = 0
        BY <1>7, <2>2, <2>3, <3>2 DEF Done
      <4>2. {k \in 1..0 : FirstUse(j, k)} = {}
        OBVIOUS
      <4>3. Picks(<<>>, file.workflows[j].modules, {})
        BY PicksNone
      <4>4. {k \in 1..Done(j)' : FirstUse(j, k)} = {}
        BY <4>1, <4>2
      <4>5. Done(j)' <= Len(file.workflows[j].modules)
        BY <2>6, <3>2, <4>1
      <4>6. wfs'[j] = <<>>
        BY <2>3, <3>2
      <4> QED
        BY <3>1, <4>3, <4>4, <4>5, <4>6
    <3>3. CASE j # n + 1
      <4>1. j \in 1..n
        BY <2>2, <3>3
      <4>2. SetUp(j)
        BY <2>4, <4>1 DEF CoreStrong, WorkflowsInv
      <4>3. j < n + 1 /\ Done(j)' = Len(file.workflows[j].modules)
        BY <1>1, <2>2, <2>3, <4>1 DEF Done
      <4>4. Done(j) = Len(file.workflows[j].modules)
        <5>1. CASE j < n
          BY <5>1 DEF Done
        <5>2. CASE ~(j < n)
          <6>1. j = n /\ wfs # <<>>
            BY <2>2, <4>1, <5>2
          <6>2. cur = Len(file.workflows[n].modules)
            BY <1>1, <6>1 DEF AllListed, Listed
          <6> QED
            BY <2>2, <6>1, <6>2 DEF Done
        <5> QED
          BY <5>1, <5>2
      <4> QED
        BY <2>3, <3>1, <4>1, <4>2, <4>3, <4>4 DEF SetUp
    <3> QED
      BY <3>2, <3>3
  <2>8. Seen' = Seen
    <3>1. Seen' = Before(n + 1, 1)'
      BY <1>7, <2>3 DEF Seen, Before
    <3>2. Before(n + 1, 1)' = Before(n + 1, 1)
      BY <1>1, FileKept
    <3>3. CASE wfs = <<>>
      BY <3>1, <3>2, <3>3, BeforeFirst DEF Seen
    <3>4. CASE wfs # <<>>
      <4>1. n \in 1..Len(file.workflows)
        BY <2>2, <2>4, <3>4
      <4>2. Before(n + 1, 1) = Before(n, Len(file.workflows[n].modules) + 1)
        BY <4>1, BeforeNext DEF CoreStrong
      <4>3. cur = Len(file.workflows[n].modules)
        BY <1>1, <3>4 DEF AllListed, Listed
      <4> QED
        BY <3>1, <3>2, <3>4, <4>2, <4>3 DEF Seen
    <3> QED
      BY <3>3, <3>4
  <2>9. WorkflowsInv'
    <3>1. /\ \A x \in mods' : \E m \in Seen' : m.name = x.name
          /\ \A m \in Seen' : \E x \in mods' : m.name = x.name
      BY <1>1, <2>8 DEF CoreStrong, WorkflowsInv
    <3>2. "config" \in parts' => \A j \in DOMAIN file'.workflows :
             file'.workflows[j].stdin = 1 => j = Len(file'.workflows)
      BY <1>1 DEF CoreStrong, WorkflowsInv
    <3> QED
      BY <1>1, <1>5, <1>7, <2>1, <2>3, <2>7, <3>1, <3>2 DEF WorkflowsInv
  <2> QED
    BY <1>1, <1>3, <1>4, <1>7, <2>9, SetupStep
<1> QED
  BY <1>2, <1>6, <1>7

------------------------------------------------------------------------------
(* Steps that leave parts and what is loaded alone.                        *)
LEMMA RunStep ==
  ASSUME CoreStrong, UNCHANGED loading, parts' = parts, ThreadsInv', CrashCause',
         \/ pc' = pc \/ pc' = "exited" \/ pc' = "crashed"
         \/ pc = "workflows" /\ pc' = "start"
         \/ pc = "start" /\ pc' = "master"
         \/ pc = "master" /\ pc' = "destroy",
         pc' \in Serving \/ thr'[Master] # "none" =>
            \/ pc \in Serving \/ thr[Master] # "none"
            \/ AllListed /\ Len(wfs) = Len(file.workflows)
  PROVE  CoreStrong'
<1>1. /\ file' = file /\ wfs' = wfs /\ cur' = cur /\ mods' = mods /\ srvs' = srvs /\ libs' = libs
      /\ FileOK /\ PartsInv /\ LoadedInv
  BY DEF loading, CoreStrong
<1>2. /\ pc' \in Early => pc' = pc
      /\ pc' = "workflows" => pc = "workflows"
      /\ pc' = "destroy" => pc = "destroy" \/ parts = Parts
  BY <1>1 DEF Early, PartsInv
<1>3. FileOK'
  BY <1>1 DEF FileOK
<1>4. PartsInv'
  <2>1. parts = Parts => \A k \in 1..10 : DestroyOrder[k + 1] \in parts
    <3>1. \A k \in 1..10 : k + 1 \in 1..11
      OBVIOUS
    <3> QED
      BY <3>1, OrderFacts DEF Parts, Range
  <2>2. pc' = "destroy" =>
          \A k \in 1..10 : DestroyOrder[k] \in parts' => DestroyOrder[k + 1] \in parts'
    BY <1>1, <1>2, <2>1 DEF PartsInv
  <2>3. CASE pc' = pc
    BY <1>1, <2>3 DEF PartsInv
  <2>4. CASE pc' = "exited" \/ pc' = "crashed"
    BY <1>1, <2>4 DEF PartsInv
  <2>5. CASE \/ pc = "workflows" /\ pc' = "start"
             \/ pc = "start" /\ pc' = "master"
             \/ pc = "master" /\ pc' = "destroy"
    <3>1. parts = Parts /\ pc' \in Serving
      BY <1>1, <2>5 DEF PartsInv, Serving
    <3> QED
      BY <1>1, <2>2, <3>1 DEF PartsInv, Serving
  <2> QED
    BY <2>3, <2>4, <2>5
<1>5. LoadedInv'
  <2>1. "modules" \in Parts /\ "services" \in Parts
    BY OrderFacts
  <2> QED
    BY <1>1, <1>2, <2>1 DEF LoadedInv
<1>6. WorkflowsInv'
  BY <1>1, <1>2, WorkflowsKept
<1> QED
  BY <1>3, <1>4, <1>5, <1>6 DEF CoreStrong

LEMMA StartStep ==
  ASSUME CoreStrong, Start
  PROVE  CoreStrong'
<1>1. /\ pc = "workflows" /\ AllListed /\ Len(wfs) = Len(file.workflows) /\ pc' = "start"
      /\ status' = "starting" /\ parts' = parts /\ inited' = inited /\ UNCHANGED loading
      /\ thr' = thr /\ run' = run /\ h' = h
  BY DEF Start, Main, GoTo, threads
<1>2. ThreadsInv'
  <2>1. \A e \in Engines : thr[e] = "none" /\ h[e] = 0
    BY <1>1 DEF CoreStrong, ThreadsInv
  <2>2. PartsOutliveThreads'
    BY <1>1, <2>1 DEF PartsOutliveThreads
  <2>3. inited' \subseteq mods' \cup srvs'
    BY <1>1 DEF loading, CoreStrong, ThreadsInv
  <2> QED
    BY <1>1, <2>1, <2>2, <2>3, EngineFacts DEF CoreStrong, ThreadsInv, Threaded, Early
<1>3. CrashCause'
  BY <1>1 DEF CrashCause
<1> QED
  BY <1>1, <1>2, <1>3, RunStep

(* In a step that ends the process, or that changes no thread.             *)
LEMMA ThreadsKept ==
  ASSUME CoreStrong, UNCHANGED loading, parts' = parts, thr' = thr, run' = run, h' = h,
         inited \subseteq inited', inited' \subseteq mods \cup srvs,
         status' \in {"none", "init", "starting", "running", "stopping", "destroying"},
         pc' = pc \/ pc' = "exited" \/ pc' = "crashed"
  PROVE  ThreadsInv'
<1>1. mods' = mods /\ srvs' = srvs /\ ThreadsInv
  BY DEF loading, CoreStrong
<1>2. PartsOutliveThreads'
  BY <1>1 DEF PartsOutliveThreads, ThreadsInv
<1>3. \A e \in Threaded : h'[e] > 0 => thr'[e] \in {"created", "loop"}
  BY <1>1 DEF ThreadsInv
<1>4. /\ pc' \in Early \cup {"workflows"} => \A e \in Engines : thr'[e] = "none" /\ h'[e] = 0
      /\ pc' = "start" => thr'[Master] = "none"
      /\ pc' = "master" => \A e \in Engines : thr'[e] # "none"
      /\ pc' = "destroy" => \A e \in Engines : thr'[e] = "done"
      /\ pc' \in {"start", "master"} =>
           \A e \in Engines : thr'[e] # "none" => mods' \cup srvs' \subseteq inited'
  BY <1>1 DEF ThreadsInv, Early
<1> QED
  BY <1>1, <1>2, <1>3, <1>4 DEF ThreadsInv

LEMMA InitOneStep ==
  ASSUME CoreStrong, Main("start"), NEW x \in mods \cup srvs, InitOne(x)
  PROVE  CoreStrong'
<1>1. /\ pc = "start" /\ UNCHANGED loading /\ parts' = parts /\ status' = status
      /\ thr' = thr /\ run' = run /\ h' = h
      /\ (inited' = inited \cup {x} /\ pc' = pc /\ why' = why) \/ (inited' = inited /\ pc' = "exited")
  BY DEF Main, InitOne, ExitProcess, threads
<1>2. inited \subseteq mods \cup srvs
      /\ status \in {"none", "init", "starting", "running", "stopping", "destroying"}
  BY DEF CoreStrong, ThreadsInv
<1>3. inited \subseteq inited' /\ inited' \subseteq mods \cup srvs
  BY <1>1, <1>2
<1>4. ThreadsInv'
  BY <1>1, <1>2, <1>3, ThreadsKept
<1>5. CrashCause'
  BY <1>1 DEF CrashCause
<1> QED
  BY <1>1, <1>4, <1>5, RunStep DEF Serving

LEMMA InitsStep ==
  ASSUME CoreStrong, ModuleInit \/ ServiceInit
  PROVE  CoreStrong'
<1>1. Main("start") /\ \E x \in mods \cup srvs : InitOne(x)
  BY DEF ModuleInit, ServiceInit
<1> QED
  BY <1>1, InitOneStep

LEMMA EngineStep ==
  ASSUME CoreStrong, StartEngine
  PROVE  CoreStrong'
<1>1. /\ pc = "start" /\ UNCHANGED loading /\ parts' = parts /\ status' = status
      /\ run' = run /\ h' = h /\ inited' = inited /\ mods \cup srvs \subseteq inited
  BY DEF StartEngine, Main, threads
<1>2. PICK k \in 2..Len(EngineSeq) :
        \/ thr' = [thr EXCEPT ![EngineSeq[k]] = "created"] /\ pc' = pc /\ why' = why
        \/ pc' = "exited" /\ thr' = thr
  BY DEF StartEngine, ExitProcess
<1>3. ThreadsInv /\ parts = Parts
  BY <1>1 DEF CoreStrong, PartsInv
<1>4. CrashCause'
  BY <1>1, <1>2 DEF CrashCause
<1>5. CASE pc' = "exited" /\ thr' = thr
  <2>1. ThreadsInv'
    BY <1>1, <1>3, <1>5, ThreadsKept DEF ThreadsInv
  <2> QED
    BY <1>1, <1>4, <1>5, <2>1, RunStep DEF Serving
<1>6. CASE thr' = [thr EXCEPT ![EngineSeq[k]] = "created"] /\ pc' = pc /\ why' = why
  <2>1. EngineSeq[k] \in Threaded
    BY EngineFacts
  <2>2. /\ thr' \in [Engines -> {"none", "created", "loop", "done"}]
        /\ thr'[Master] = thr[Master]
        /\ \A e \in Engines : thr'[e] \in {thr[e], "created"}
    BY <1>3, <1>6, <2>1, EngineFacts DEF ThreadsInv, Threaded
  <2>3. mods' = mods /\ srvs' = srvs /\ inited \subseteq mods \cup srvs
    BY <1>1, <1>3 DEF loading, ThreadsInv
  <2>4. PartsOutliveThreads'
    <3>1. inited' = mods' \cup srvs' /\ parts' = Parts
      BY <1>1, <1>3, <2>3
    <3> QED
      BY <3>1 DEF PartsOutliveThreads
  <2>5. \A e \in Threaded : h'[e] > 0 => thr'[e] \in {"created", "loop"}
    BY <1>1, <1>3, <2>2 DEF ThreadsInv, Threaded
  <2>6. pc' = "start" /\ pc' \notin Early
    BY <1>1, <1>6 DEF Early
  <2>7. ThreadsInv'
    BY <1>1, <1>3, <2>2, <2>3, <2>4, <2>5, <2>6 DEF ThreadsInv
  <2> QED
    BY <1>1, <1>4, <1>6, <2>7, RunStep DEF Serving
<1> QED
  BY <1>2, <1>5, <1>6

LEMMA DriversStep ==
  ASSUME CoreStrong, RunDrivers
  PROVE  CoreStrong'
<1>1. /\ pc = "start" /\ UNCHANGED loading /\ parts' = parts
      /\ run' = run /\ h' = h /\ inited' = inited
      /\ \A e \in Threaded : thr[e] # "none"
      /\ \/ /\ pc' = "master" /\ why' = why /\ status' = "running"
            /\ thr' = [thr EXCEPT ![Master] = "created"]
         \/ pc' = "exited" /\ status' = status /\ thr' = thr
  BY DEF RunDrivers, Main, GoTo, ExitProcess
<1>2. ThreadsInv /\ parts = Parts
  BY <1>1 DEF CoreStrong, PartsInv
<1>3. CrashCause'
  <2>1. pc' # "crashed"
    BY <1>1
  <2> QED
    BY <2>1 DEF CrashCause
<1>4. CASE pc' = "exited" /\ status' = status /\ thr' = thr
  <2>1. ThreadsInv'
    BY <1>1, <1>2, <1>4, ThreadsKept DEF ThreadsInv
  <2> QED
    BY <1>1, <1>3, <1>4, <2>1, RunStep DEF Serving
<1>5. CASE /\ pc' = "master" /\ why' = why /\ status' = "running"
           /\ thr' = [thr EXCEPT ![Master] = "created"]
  <2>1. /\ thr' \in [Engines -> {"none", "created", "loop", "done"}]
        /\ thr'[Master] = "created" /\ \A e \in Threaded : thr'[e] = thr[e]
    BY <1>2, <1>5, EngineFacts DEF ThreadsInv, Threaded
  <2>2. \A e \in Engines : thr'[e] # "none"
    BY <1>1, <2>1 DEF Threaded
  <2>3. mods' = mods /\ srvs' = srvs /\ mods \cup srvs \subseteq inited
    <3>1. PICK e \in Threaded : TRUE
      BY EngineFacts
    <3>2. e \in Engines
      BY <3>1 DEF Threaded
    <3> QED
      BY <1>1, <1>2, <3>1, <3>2 DEF loading, ThreadsInv
  <2>4. PartsOutliveThreads'
    BY <1>1, <1>2, <2>3 DEF PartsOutliveThreads, ThreadsInv
  <2>5. \A e \in Threaded : h'[e] > 0 => thr'[e] \in {"created", "loop"}
    BY <1>1, <1>2, <2>1 DEF ThreadsInv
  <2>6. ThreadsInv'
    BY <1>1, <1>2, <1>5, <2>1, <2>2, <2>3, <2>4, <2>5 DEF ThreadsInv, Early
  <2> QED
    BY <1>1, <1>3, <1>5, <2>6, RunStep DEF Serving
<1> QED
  BY <1>1, <1>4, <1>5

LEMMA WaitStep ==
  ASSUME CoreStrong, Wait
  PROVE  CoreStrong'
<1>1. /\ pc = "master" /\ UNCHANGED loading /\ parts' = parts /\ status' = "destroying"
      /\ thr' = thr /\ run' = run /\ h' = h /\ inited' = inited /\ pc' = "destroy" /\ why' = why
      /\ \A e \in Engines : thr[e] = "done"
  BY DEF Wait, Main, GoTo, threads, Threaded
<1>2. ThreadsInv /\ mods' = mods /\ srvs' = srvs
  BY <1>1 DEF CoreStrong, loading
<1>3. PartsOutliveThreads'
  BY <1>1 DEF PartsOutliveThreads
<1>4. \A e \in Threaded : h'[e] > 0 => thr'[e] \in {"created", "loop"}
  BY <1>1, <1>2 DEF ThreadsInv
<1>5. ThreadsInv'
  BY <1>1, <1>2, <1>3, <1>4 DEF ThreadsInv, Early
<1>6. CrashCause'
  BY <1>1 DEF CrashCause
<1> QED
  BY <1>1, <1>5, <1>6, RunStep DEF Serving

(* A step of a thread, in its loop or in the signal handler.               *)
LEMMA ThreadStep ==
  ASSUME CoreStrong, NEW e \in Engines, UNCHANGED loading, parts' = parts, inited' = inited,
         pc' = pc, why' = why, pc # "crashed",
         thr' \in [Engines -> {"none", "created", "loop", "done"}],
         run' \in [Engines -> BOOLEAN], h' \in [Engines -> 0..(Len(EngineSeq) + 1)],
         status' \in {"none", "init", "starting", "running", "stopping", "destroying"},
         \A d \in Engines \ {e} : thr'[d] = thr[d] /\ h'[d] = h[d],
         \/ thr'[e] = thr[e] /\ h'[e] = h[e]
         \/ thr[e] \in {"created", "loop"} /\ thr'[e] \in {"loop", "done"} /\ h[e] = 0 /\ h'[e] = 0
         \/ thr'[e] = thr[e] /\ (h'[e] > 0 => h[e] > 0 \/ Interruptible(e))
  PROVE  CoreStrong'
<1>1. mods' = mods /\ srvs' = srvs /\ ThreadsInv
  BY DEF loading, CoreStrong
<1>2. \A d \in Engines : /\ thr'[d] = thr[d] \/ (thr[d] \in {"created", "loop"} /\ thr'[d] \in {"loop", "done"})
                         /\ h'[d] > 0 => thr'[d] = thr[d] /\ (h[d] > 0 \/ Interruptible(d))
  <2>1. ASSUME NEW d \in Engines, d # e, h'[d] > 0 PROVE h[d] > 0
    BY <2>1
  <2>2. h'[e] > 0 => thr'[e] = thr[e] /\ (h[e] > 0 \/ Interruptible(e))
    OBVIOUS
  <2> QED
    BY <2>1, <2>2
<1>3. \A d \in Engines : thr'[d] \in {"created", "loop"} => thr[d] \in {"created", "loop"}
  BY <1>2
<1>4. PartsOutliveThreads'
  BY <1>1, <1>3 DEF PartsOutliveThreads, ThreadsInv
<1>5. \A d \in Threaded : h'[d] > 0 => thr'[d] \in {"created", "loop"}
  <2>1. \A d \in Threaded : d \in Engines /\ d # Master
    BY DEF Threaded
  <2> QED
    BY <1>1, <1>2, <2>1 DEF ThreadsInv, Interruptible
<1>6. pc \in Early \cup {"workflows"} => \A d \in Engines : thr'[d] = "none" /\ h'[d] = 0
  <2>1. ASSUME pc \in Early \cup {"workflows"}, NEW d \in Engines PROVE thr'[d] = "none" /\ h'[d] = 0
    <3>1. thr[d] = "none" /\ h[d] = 0 /\ pc \notin {"start", "master", "destroy"}
      BY <1>1, <2>1 DEF ThreadsInv, Early
    <3>2. thr'[d] = "none"
      BY <1>2, <3>1
    <3>3. ~(h'[d] > 0)
      BY <1>2, <3>1 DEF Interruptible
    <3>4. h'[d] \in Nat
      BY EngineFacts
    <3> QED
      BY <3>2, <3>3, <3>4
  <2> QED
    BY <2>1
<1>7. pc = "start" => thr'[Master] = "none"
  BY <1>1, <1>2, EngineFacts DEF ThreadsInv
<1>8. /\ pc = "master" => \A d \in Engines : thr'[d] # "none"
      /\ pc = "destroy" => \A d \in Engines : thr'[d] = "done"
      /\ pc \in {"start", "master"} =>
           \A d \in Engines : thr'[d] # "none" => mods' \cup srvs' \subseteq inited'
  BY <1>1, <1>2 DEF ThreadsInv
<1>9. ThreadsInv'
  BY <1>1, <1>4, <1>5, <1>6, <1>7, <1>8 DEF ThreadsInv
<1>10. CrashCause'
  BY DEF CrashCause
<1>11. thr'[Master] # "none" => thr[Master] # "none"
  BY <1>2, EngineFacts
<1> QED
  BY <1>9, <1>10, <1>11, RunStep

LEMMA LoopSteps ==
  ASSUME CoreStrong, pc # "crashed", NEW e \in Engines, EnterLoop(e) \/ LoopTurn(e)
  PROVE  CoreStrong'
<1>1. /\ h[e] = 0 /\ UNCHANGED loading /\ parts' = parts /\ inited' = inited /\ pc' = pc
      /\ why' = why /\ status' = status /\ h' = h
      /\ (run' = run \/ run' = [run EXCEPT ![e] = TRUE])
      /\ thr[e] \in {"created", "loop"} /\ \E t \in {"loop", "done"} : thr' = [thr EXCEPT ![e] = t]
  BY DEF EnterLoop, LoopTurn
<1>2. ThreadsInv
  BY DEF CoreStrong
<1>3. /\ thr' \in [Engines -> {"none", "created", "loop", "done"}] /\ run' \in [Engines -> BOOLEAN]
      /\ thr'[e] \in {"loop", "done"} /\ \A d \in Engines \ {e} : thr'[d] = thr[d]
  BY <1>1, <1>2 DEF ThreadsInv
<1> QED
  BY <1>1, <1>2, <1>3, ThreadStep DEF ThreadsInv

LEMMA SignalStep ==
  ASSUME CoreStrong, pc # "crashed", NEW e \in Engines, Signal(e)
  PROVE  CoreStrong'
<1>1. /\ Interruptible(e) /\ UNCHANGED loading /\ parts' = parts /\ inited' = inited /\ pc' = pc
      /\ why' = why /\ status' = status /\ thr' = thr /\ run' = run /\ h' = [h EXCEPT ![e] = 1]
  BY DEF Signal
<1>2. ThreadsInv
  BY DEF CoreStrong
<1>3. h' \in [Engines -> 0..(Len(EngineSeq) + 1)] /\ \A d \in Engines \ {e} : h'[d] = h[d]
  BY <1>1, <1>2, EngineFacts DEF ThreadsInv
<1> QED
  BY <1>1, <1>2, <1>3, ThreadStep DEF ThreadsInv

LEMMA StopNeedsFacts == StopNeeds \subseteq Parts
BY OrderFacts DEF StopNeeds

LEMMA StopStep ==
  ASSUME CoreStrong, ~Ended, NEW e \in Engines, Stop(e)
  PROVE  CoreStrong'
<1>1. /\ h[e] > 0 /\ UNCHANGED loading /\ parts' = parts /\ inited' = inited /\ thr' = thr
  BY DEF Stop
<1>2. ThreadsInv /\ PartsInv
  BY DEF CoreStrong
<1>3. CASE StopNeeds \subseteq parts
  <2>1. /\ pc' = pc /\ why' = why /\ h' = [h EXCEPT ![e] = (h[e] + 1) % (Len(EngineSeq) + 2)]
        /\ status' \in {status, "stopping"}
        /\ run' = run \/ run' = [run EXCEPT ![StopSeq[h[e] - 1]] = FALSE]
    BY <1>3, EngineFacts DEF Stop
  <2>2. (h[e] + 1) % (Len(EngineSeq) + 2) \in 0..(Len(EngineSeq) + 1)
    <3>1. h[e] + 1 \in Int /\ Len(EngineSeq) + 2 \in Int /\ Len(EngineSeq) + 2 > 0
      BY <1>2, EngineFacts DEF ThreadsInv
    <3> QED
      BY <3>1
  <2>3. h' \in [Engines -> 0..(Len(EngineSeq) + 1)] /\ \A d \in Engines \ {e} : h'[d] = h[d]
    BY <1>2, <2>1, <2>2 DEF ThreadsInv
  <2>4. run' \in [Engines -> BOOLEAN]
    BY <1>2, <2>1 DEF ThreadsInv
  <2> QED
    BY <1>1, <1>2, <2>1, <2>3, <2>4, ThreadStep DEF ThreadsInv, Ended
<1>4. CASE ~(StopNeeds \subseteq parts)
  <2>1. /\ pc' = "crashed" /\ why' = "freed part" /\ h' = h /\ status' = status /\ run' = run
    BY <1>4 DEF Stop, Crash
  <2>2. parts # Parts
    BY <1>4, StopNeedsFacts
  <2>3. \A d \in Engines : thr[d] \notin {"created", "loop"}
    BY <1>2, <2>2 DEF ThreadsInv, PartsOutliveThreads
  <2>4. \A d \in Threaded : d \in Engines /\ ~(h[d] > 0) /\ h[d] \in Nat
    BY <1>2, <2>3, EngineFacts DEF ThreadsInv, Threaded
  <2>5. e = Master /\ \A d \in Threaded : h[d] = 0
    BY <1>1, <2>4 DEF Threaded
  <2>6. pc = "destroy"
    <3>1. pc \notin {"exited", "crashed"} /\ pc \notin {"workflows", "start", "master"}
      BY <1>2, <2>2 DEF Ended, PartsInv
    <3>2. pc \notin Early
      BY <1>1, <1>2 DEF ThreadsInv
    <3> QED
      BY <1>2, <3>1, <3>2 DEF PartsInv, Serving
  <2>7. \A d \in Engines : thr[d] = "done"
    BY <1>2, <2>6 DEF ThreadsInv
  <2>8. CrashCause'
    BY <1>1, <2>1, <2>4, <2>5, <2>7 DEF CrashCause
  <2>9. ThreadsInv'
    BY <1>1, <1>2, <2>1, ThreadsKept DEF ThreadsInv
  <2> QED
    BY <1>1, <2>1, <2>6, <2>8, <2>9, RunStep DEF Serving
<1> QED
  BY <1>3, <1>4

LEMMA InputStep ==
  ASSUME CoreStrong, NEW i \in DOMAIN wfs, EmptyInput(i)
  PROVE  CoreStrong'
<1>1. /\ UNCHANGED loading /\ parts' = parts /\ inited' = inited /\ status' = status
      /\ thr' = thr /\ run' = run /\ h' = h /\ pc' = "crashed" /\ why' = "no module"
      /\ wfs[i] = <<>> /\ thr[Master] = "loop"
  BY DEF EmptyInput, Crash, threads, Looping
<1>2. WorkflowsInv /\ FileOK /\ ThreadsInv
  BY DEF CoreStrong
<1>3. Len(wfs) = Len(file.workflows) /\ AllListed
  BY <1>1, <1>2 DEF WorkflowsInv
<1>4. Done(i) = Len(file.workflows[i].modules)
  <2>1. wfs \in Seq(Seq(Modules)) /\ i \in 1..Len(wfs) /\ Len(wfs) \in Nat
    BY <1>2 DEF WorkflowsInv
  <2>2. i = Len(wfs) => cur = Len(file.workflows[i].modules)
    BY <1>3, <2>1 DEF AllListed, Listed
  <2>3. i < Len(wfs) \/ i = Len(wfs)
    BY <2>1
  <2> QED
    BY <2>1, <2>2, <2>3 DEF Done
<1>5. file.workflows[i] \in WorkflowRec
  BY <1>2, <1>3 DEF FileOK, WorkflowsInv
<1>6. DOMAIN file.workflows[i].modules = 1..Len(file.workflows[i].modules)
  BY <1>5 DEF WorkflowRec
<1>7. {k \in 1..Done(i) : FirstUse(i, k)} = {}
  <2>1. Picks(<<>>, file.workflows[i].modules, {k \in 1..Done(i) : FirstUse(i, k)})
    BY <1>1, <1>2 DEF WorkflowsInv, SetUp
  <2> QED
    BY <2>1, PicksNone
<1>8. \A k \in DOMAIN file.workflows[i].modules : ~FirstUse(i, k)
  BY <1>4, <1>6, <1>7
<1>9. CrashCause'
  <2>1. \A k \in DOMAIN file'.workflows[i].modules : ~FirstUse(i, k)'
    BY <1>1, <1>8, FileKept DEF loading
  <2> QED
    BY <1>1, <2>1 DEF CrashCause, loading
<1>10. ThreadsInv'
  BY <1>1, <1>2, ThreadsKept DEF ThreadsInv
<1> QED
  BY <1>1, <1>9, <1>10, RunStep

------------------------------------------------------------------------------
(* Taking the parts down.                                                  *)
LEMMA ChainFacts ==
  ASSUME CoreStrong, pc = "destroy"
  PROVE  /\ "drivers" \in parts => "engines" \in parts
         /\ "engines" \in parts => "modules" \in parts
         /\ "modules" \in parts => "services" \in parts
         /\ "services" \in parts => "mons" \in parts
         /\ "mons" \in parts => "config" \in parts
         /\ "config" \in parts => "workflows" \in parts
         /\ "workflows" \in parts => "admin" \in parts
         /\ "admin" \in parts => "loaders" \in parts
         /\ "loaders" \in parts => "logs" \in parts
         /\ "logs" \in parts => "env" \in parts
<1>1. \A k \in 1..10 : DestroyOrder[k] \in parts => DestroyOrder[k + 1] \in parts
  BY DEF CoreStrong, PartsInv
<1>2. /\ DestroyOrder[1] \in parts => DestroyOrder[2] \in parts
      /\ DestroyOrder[2] \in parts => DestroyOrder[3] \in parts
      /\ DestroyOrder[3] \in parts => DestroyOrder[4] \in parts
      /\ DestroyOrder[4] \in parts => DestroyOrder[5] \in parts
      /\ DestroyOrder[5] \in parts => DestroyOrder[6] \in parts
  BY <1>1
<1>3. /\ DestroyOrder[6] \in parts => DestroyOrder[7] \in parts
      /\ DestroyOrder[7] \in parts => DestroyOrder[8] \in parts
      /\ DestroyOrder[8] \in parts => DestroyOrder[9] \in parts
      /\ DestroyOrder[9] \in parts => DestroyOrder[10] \in parts
      /\ DestroyOrder[10] \in parts => DestroyOrder[11] \in parts
  BY <1>1
<1> QED
  BY <1>2, <1>3, OrderFacts

LEMMA TakeDown ==
  ASSUME CoreStrong, NEW p, NEW needs, Destroy(p, needs), pc = "destroy" => needs \subseteq parts,
         mods' \subseteq mods, srvs' \subseteq srvs, inited' \subseteq mods' \cup srvs',
         libs' \in [Langs -> {"untried", "loaded", "missing"}],
         libs' = libs \/ (mods' = {} /\ srvs' = {}),
         p = "modules" => mods' = {}, p = "services" => srvs' = {}
  PROVE  CoreStrong'
<1>1. /\ pc = "destroy" /\ p \in parts
      /\ \A k \in DOMAIN DestroyOrder :
            DestroyOrder[k] = p => \A j \in 1..(k - 1) : DestroyOrder[j] \notin parts
      /\ file' = file /\ wfs' = wfs /\ cur' = cur /\ status' = status
      /\ thr' = thr /\ run' = run /\ h' = h
  BY DEF Destroy, Main, threads
<1>2. parts' = parts \ {p} /\ pc' = pc /\ why' = why
  BY <1>1 DEF Destroy
<1>3. FileOK'
  BY <1>1 DEF CoreStrong, FileOK
<1>4. PartsInv'
  <2>1. ASSUME NEW k \in 1..10, DestroyOrder[k] \in parts' PROVE DestroyOrder[k + 1] \in parts'
    <3>1. DestroyOrder[k] \in parts /\ DestroyOrder[k + 1] \in parts
      BY <1>1, <1>2, <2>1 DEF CoreStrong, PartsInv
    <3>2. DestroyOrder[k + 1] # p
      <4>1. k + 1 \in DOMAIN DestroyOrder /\ k \in 1..(k + 1 - 1)
        BY OrderFacts
      <4> QED
        BY <1>1, <3>1, <4>1
    <3> QED
      BY <1>2, <3>1, <3>2
  <2>2. parts' \subseteq Parts
    BY <1>2 DEF CoreStrong, PartsInv
  <2> QED
    BY <1>1, <1>2, <2>1, <2>2 DEF PartsInv, Serving
<1>5. LoadedInv'
  <2>1. /\ mods \subseteq Modules /\ srvs \subseteq Services
        /\ \A m \in mods : libs[m.type] = "loaded"
        /\ \A s \in srvs : libs[file.services[s].type] = "loaded"
        /\ "modules" \notin parts => mods = {}
        /\ "services" \notin parts => srvs = {}
    BY <1>1 DEF CoreStrong, LoadedInv
  <2>2. pc' \notin Early
    BY <1>1, <1>2 DEF Early
  <2>3. ("modules" \notin parts' => mods' = {}) /\ ("services" \notin parts' => srvs' = {})
    BY <1>2, <2>1
  <2>4. /\ \A m \in mods' : libs'[m.type] = "loaded"
        /\ \A s \in srvs' : libs'[file'.services[s].type] = "loaded"
    BY <1>1, <2>1
  <2> QED
    BY <2>1, <2>2, <2>3, <2>4 DEF LoadedInv
<1>6. ThreadsInv'
  <2>1. ThreadsInv /\ \A e \in Engines : thr[e] = "done"
    BY <1>1 DEF CoreStrong, ThreadsInv
  <2>2. PartsOutliveThreads'
    BY <1>1, <2>1 DEF PartsOutliveThreads
  <2>3. \A e \in Threaded : h'[e] > 0 => thr'[e] \in {"created", "loop"}
    BY <1>1, <2>1 DEF ThreadsInv
  <2> QED
    BY <1>1, <1>2, <2>1, <2>2, <2>3 DEF ThreadsInv, Early
<1>7. WorkflowsInv'
  BY <1>1, <1>2, WorkflowsKept DEF Early, Serving
<1>8. CrashCause'
  BY <1>1, <1>2 DEF CrashCause
<1> QED
  BY <1>3, <1>4, <1>5, <1>6, <1>7, <1>8 DEF CoreStrong

LEMMA DestroyStep ==
  ASSUME CoreStrong, DestroySteps
  PROVE  CoreStrong'
<1>1. /\ inited \subseteq mods \cup srvs
      /\ libs \in [Langs -> {"untried", "loaded", "missing"}]
  BY DEF CoreStrong, ThreadsInv, LoadedInv
<1>2. CASE DestroyDrivers
  <2>1. /\ Destroy("drivers", Logging \cup DriverNeeds)
        /\ mods' = mods /\ srvs' = srvs /\ libs' = libs /\ inited' = inited
    BY <1>2 DEF DestroyDrivers
  <2>2. pc = "destroy" => Logging \cup DriverNeeds \subseteq parts
    BY <2>1, ChainFacts DEF Destroy, Logging, DriverNeeds
  <2> QED
    BY <1>1, <2>1, <2>2, TakeDown
<1>3. CASE DestroyEngines
  <2>1. /\ Destroy("engines", Logging \cup {"config"} \cup EngineNeeds)
        /\ mods' = mods /\ srvs' = srvs /\ libs' = libs /\ inited' = inited
    BY <1>3 DEF DestroyEngines
  <2>2. pc = "destroy" => Logging \cup {"config"} \cup EngineNeeds \subseteq parts
    BY <2>1, ChainFacts DEF Destroy, Logging, EngineNeeds
  <2> QED
    BY <1>1, <2>1, <2>2, TakeDown
<1>4. CASE DestroyModules
  <2>1. /\ Destroy("modules", Logging \cup UnloadNeeds)
        /\ mods' = {} /\ srvs' = srvs /\ libs' = libs /\ inited' = inited \ mods
    BY <1>4 DEF DestroyModules
  <2>2. pc = "destroy" => Logging \cup UnloadNeeds \subseteq parts
    BY <2>1, ChainFacts DEF Destroy, Logging, UnloadNeeds
  <2>3. inited' \subseteq mods' \cup srvs'
    BY <1>1, <2>1
  <2> QED
    BY <1>1, <2>1, <2>2, <2>3, TakeDown
<1>5. CASE DestroyServices
  <2>1. /\ Destroy("services", Logging \cup ServiceUnloadNeeds)
        /\ mods' = mods /\ srvs' = {} /\ libs' = libs /\ inited' = inited \ srvs
    BY <1>5 DEF DestroyServices
  <2>2. pc = "destroy" => Logging \cup ServiceUnloadNeeds \subseteq parts
    BY <2>1, ChainFacts DEF Destroy, Logging, ServiceUnloadNeeds
  <2>3. inited' \subseteq mods' \cup srvs'
    BY <1>1, <2>1
  <2> QED
    BY <1>1, <2>1, <2>2, <2>3, TakeDown
<1>6. CASE DestroyConfig
  <2>1. /\ Destroy("config", {})
        /\ mods' = mods /\ srvs' = srvs /\ libs' = libs /\ inited' = inited
    BY <1>6 DEF DestroyConfig
  <2> QED
    BY <1>1, <2>1, TakeDown
<1>7. CASE DestroyWorkflows
  <2>1. /\ Destroy("workflows", {})
        /\ mods' = mods /\ srvs' = srvs /\ libs' = libs /\ inited' = inited
    BY <1>7 DEF DestroyWorkflows
  <2> QED
    BY <1>1, <2>1, TakeDown
<1>8. CASE DestroyAdmin
  <2>1. /\ Destroy("admin", Logging)
        /\ mods' = mods /\ srvs' = srvs /\ libs' = libs /\ inited' = inited
    BY <1>8 DEF DestroyAdmin
  <2>2. pc = "destroy" => Logging \subseteq parts
    BY <2>1, ChainFacts DEF Destroy, Logging
  <2> QED
    BY <1>1, <2>1, <2>2, TakeDown
<1>9. CASE DestroyLoaders
  <2>1. /\ Destroy("loaders", {"env"})
        /\ mods' = mods /\ srvs' = srvs /\ inited' = inited
        /\ libs' = [l \in Langs |-> "untried"]
    BY <1>9 DEF DestroyLoaders
  <2>2. /\ pc = "destroy" /\ "loaders" \in parts
        /\ \A k \in DOMAIN DestroyOrder :
              DestroyOrder[k] = "loaders" => \A j \in 1..(k - 1) : DestroyOrder[j] \notin parts
    BY <2>1 DEF Destroy, Main
  <2>3. {"env"} \subseteq parts
    BY <2>2, ChainFacts
  <2>4. DestroyOrder[3] \notin parts /\ DestroyOrder[4] \notin parts
    <3>1. 9 \in DOMAIN DestroyOrder /\ DestroyOrder[9] = "loaders"
      BY OrderFacts
    <3> QED
      BY <2>2, <3>1
  <2>5. mods = {} /\ srvs = {}
    BY <2>2, <2>4, OrderFacts DEF CoreStrong, LoadedInv
  <2> QED
    BY <1>1, <2>1, <2>3, <2>5, TakeDown
<1>10. CASE DestroyRest
  <2>1. mods' = mods /\ srvs' = srvs /\ libs' = libs /\ inited' = inited
    BY <1>10 DEF DestroyRest
  <2>2. CASE Destroy("mons", {})
    BY <1>1, <2>1, <2>2, TakeDown
  <2>3. CASE Destroy("logs", {"env"})
    <3>1. pc = "destroy" => {"env"} \subseteq parts
      BY <2>3, ChainFacts DEF Destroy
    <3> QED
      BY <1>1, <2>1, <2>3, <3>1, TakeDown
  <2>4. CASE Destroy("env", {})
    BY <1>1, <2>1, <2>4, TakeDown
  <2> QED
    BY <1>10, <2>2, <2>3, <2>4 DEF DestroyRest
<1>11. CASE Leave
  <2>1. /\ pc = "destroy" /\ pc' = "exited" /\ UNCHANGED loading /\ parts' = parts
        /\ inited' = inited /\ status' = status /\ thr' = thr /\ run' = run /\ h' = h
    BY <1>11 DEF Leave, Main, ExitProcess, threads
  <2>2. ThreadsInv'
    BY <1>1, <2>1, ThreadsKept DEF CoreStrong, ThreadsInv
  <2>3. CrashCause'
    BY <2>1 DEF CrashCause
  <2> QED
    BY <2>1, <2>2, <2>3, RunStep DEF Serving
<1> QED
  BY <1>2, <1>3, <1>4, <1>5, <1>6, <1>7, <1>8, <1>9, <1>10, <1>11 DEF DestroySteps

------------------------------------------------------------------------------
(* The invariant of the process.                                           *)
LEMMA CoreStutter ==
  ASSUME CoreStrong, UNCHANGED coreVars
  PROVE  CoreStrong'
<1>1. /\ UNCHANGED loading /\ parts' = parts /\ inited' = inited /\ status' = status /\ pc' = pc
      /\ thr' = thr /\ run' = run /\ h' = h /\ why' = why /\ file' = file /\ libs' = libs
      /\ wfs' = wfs
  BY DEF coreVars, loading
<1>2. ThreadsInv'
  BY <1>1, ThreadsKept DEF CoreStrong, ThreadsInv
<1>3. CrashCause'
  <2>1. CrashCause /\ Loaded' = Loaded /\ \A i, k : FirstUse(i, k)' <=> FirstUse(i, k)
    BY <1>1, FileKept DEF CoreStrong, Loaded
  <2> QED
    BY <1>1, <2>1 DEF CrashCause
<1> QED
  BY <1>1, <1>2, <1>3, RunStep

LEMMA InitCore == CoreInit => CoreStrong
<1> SUFFICES ASSUME CoreInit PROVE CoreStrong
  OBVIOUS
<1>1. FileOK
  <2>1. file = [workflows |-> <<>>, services |-> <<>>]
    BY DEF CoreInit, EmptyFile
  <2> QED
    BY <2>1 DEF FileOK
<1>2. pc = "edit" /\ parts = {} /\ pc \in Early
  BY DEF CoreInit, Early
<1>3. PartsInv
  BY <1>2 DEF PartsInv
<1>4. LoadedInv
  BY DEF CoreInit, LoadedInv
<1>5. ThreadsInv
  <2>1. thr \in [Engines -> {"none", "created", "loop", "done"}] /\ run \in [Engines -> BOOLEAN]
    BY DEF CoreInit
  <2>2. h \in [Engines -> 0..(Len(EngineSeq) + 1)]
    BY EngineFacts DEF CoreInit
  <2>3. \A e \in Engines : thr[e] = "none" /\ h[e] = 0
    BY DEF CoreInit
  <2>4. inited = {} /\ status = "none"
    BY DEF CoreInit
  <2> QED
    BY <1>2, <2>1, <2>2, <2>3, <2>4 DEF ThreadsInv, PartsOutliveThreads, Threaded
<1>6. WorkflowsInv
  <2>1. wfs = <<>> /\ cur = 0 /\ Len(wfs) = 0 /\ DOMAIN wfs = {} /\ wfs \in Seq(Seq(Modules))
    BY DEF CoreInit
  <2>2. thr[Master] = "none" /\ pc \notin Serving /\ pc # "workflows"
    BY <1>2, EngineFacts DEF CoreInit, Serving
  <2>3. Len(file.workflows) \in Nat
    BY <1>1 DEF FileOK
  <2> QED
    BY <1>2, <2>1, <2>2, <2>3 DEF WorkflowsInv
<1>7. CrashCause
  BY <1>2 DEF CrashCause
<1> QED
  BY <1>1, <1>3, <1>4, <1>5, <1>6, <1>7 DEF CoreStrong

LEMMA NextCore == CoreStrong /\ [CoreNext]_coreVars => CoreStrong'
<1> SUFFICES ASSUME CoreStrong, [CoreNext]_coreVars PROVE CoreStrong'
  OBVIOUS
<1>1. CASE UNCHANGED coreVars
  BY <1>1, CoreStutter
<1>2. CASE Tool
  BY <1>2, ToolStep
<1>3. CASE InitEnv
  BY <1>3, AdvanceStep
<1>4. CASE InitSteps
  BY <1>4, AdvanceStep, LibraryStep, ServiceStep, ModuleStep, WorkflowStep DEF InitSteps
<1>5. CASE StartSteps
  BY <1>5, StartStep, InitsStep, EngineStep, DriversStep, WaitStep DEF StartSteps
<1>6. CASE DestroySteps
  BY <1>6, DestroyStep
<1>7. ASSUME ~Ended, NEW e \in Engines, EnterLoop(e) \/ LoopTurn(e) \/ Signal(e) \/ Stop(e)
      PROVE  CoreStrong'
  <2>1. pc # "crashed"
    BY <1>7 DEF Ended
  <2> QED
    BY <1>7, <2>1, LoopSteps, SignalStep, StopStep
<1>8. ASSUME NEW i \in DOMAIN wfs, EmptyInput(i) PROVE CoreStrong'
  BY <1>8, InputStep
<1> QED
  BY <1>1, <1>2, <1>3, <1>4, <1>5, <1>6, <1>7, <1>8 DEF CoreNext, MainStep, Rest

LEMMA AllDone ==
  ASSUME CoreStrong, thr[Master] # "none"
  PROVE  /\ Len(wfs) = Len(file.workflows)
         /\ \A i \in DOMAIN wfs : /\ Done(i) = Len(file.workflows[i].modules)
                                  /\ file.workflows[i].modules \in Seq(Modules)
<1>1. WorkflowsInv /\ FileOK
  BY DEF CoreStrong
<1>2. Len(wfs) = Len(file.workflows) /\ AllListed /\ wfs \in Seq(Seq(Modules))
  BY <1>1 DEF WorkflowsInv
<1>3. ASSUME NEW i \in DOMAIN wfs
      PROVE  Done(i) = Len(file.workflows[i].modules) /\ file.workflows[i].modules \in Seq(Modules)
  <2>1. i \in 1..Len(wfs) /\ Len(wfs) \in Nat /\ wfs # <<>>
    BY <1>2
  <2>2. i = Len(wfs) => cur = Len(file.workflows[i].modules)
    BY <1>2, <2>1 DEF AllListed, Listed
  <2>3. i < Len(wfs) \/ i = Len(wfs)
    BY <2>1
  <2>4. file.workflows[i] \in WorkflowRec
    BY <1>1, <1>2, <2>1 DEF FileOK
  <2> QED
    BY <2>1, <2>2, <2>3, <2>4 DEF Done, WorkflowRec
<1> QED
  BY <1>2, <1>3

LEMMA StrongCore == CoreStrong => CoreInv
<1> SUFFICES ASSUME CoreStrong PROVE CoreInv
  OBVIOUS
<1>1. CoreTypeOK
  BY DEF CoreStrong, FileOK, WorkflowRec, PartsInv, LoadedInv, ThreadsInv, CoreTypeOK
<1>2. PartsOutliveThreads
  BY DEF CoreStrong, ThreadsInv
<1>3. HandlersOutlived
  <2>1. ASSUME NEW e \in Threaded, h[e] > 0 PROVE StopNeeds \subseteq parts
    <3>1. e \in Engines /\ thr[e] \in {"created", "loop"}
      BY <2>1 DEF CoreStrong, ThreadsInv, Threaded
    <3> QED
      BY <1>2, <3>1, StopNeedsFacts DEF PartsOutliveThreads
  <2> QED
    BY <2>1 DEF HandlersOutlived
<1>4. LoadersOutliveUsers
  BY DEF CoreStrong, LoadedInv, LoadersOutliveUsers
<1> QED
  BY <1>1, <1>2, <1>3, <1>4 DEF CoreInv, CoreStrong

LEMMA StrongServes == CoreStrong => ServesAsConfigured
<1> SUFFICES ASSUME CoreStrong PROVE ServesAsConfigured
  OBVIOUS
<1>1. WorkflowsInv
  BY DEF CoreStrong
<1>2. ASSUME thr[Master] # "none"
      PROVE  /\ Len(wfs) = Len(file.workflows)
             /\ \A i \in DOMAIN wfs :
                  LET ms == file.workflows[i].modules
                  IN Picks(wfs[i], ms, {k \in DOMAIN ms : FirstUse(i, k)})
  <2>1. ASSUME NEW i \in DOMAIN wfs
        PROVE  Picks(wfs[i], file.workflows[i].modules,
                     {k \in DOMAIN file.workflows[i].modules : FirstUse(i, k)})
    <3>1. DOMAIN file.workflows[i].modules = 1..Done(i)
      BY <1>2, AllDone
    <3> QED
      BY <1>1, <3>1 DEF WorkflowsInv, SetUp
  <2> QED
    BY <1>2, <2>1, AllDone
<1> QED
  BY <1>1, <1>2 DEF ServesAsConfigured, WorkflowsInv

(***************************************************************************)
(* The life cycle of sk_core.c holds together: parts outlive the threads   *)
(* and handlers that use them, loaders outlive what they loaded, and a     *)
(* crash has one of the causes of CrashCause, for every number of engines, *)
(* languages, modules, services, workflows and signals.                    *)
(***************************************************************************)
THEOREM CoreInvariance == CoreSpec => []CoreInv
<1>1. CoreInit => CoreStrong
  BY InitCore
<1>2. CoreStrong /\ [CoreNext]_coreVars => CoreStrong'
  BY NextCore
<1>3. CoreStrong => CoreInv
  BY StrongCore
<1> QED
  BY <1>1, <1>2, <1>3, PTL DEF CoreSpec

(***************************************************************************)
(* What _sk_setup_workflows builds is what the file says, for every file   *)
(* that the tool can write.                                                *)
(***************************************************************************)
THEOREM Serves == CoreSpec => []ServesAsConfigured
<1>1. CoreInit => CoreStrong
  BY InitCore
<1>2. CoreStrong /\ [CoreNext]_coreVars => CoreStrong'
  BY NextCore
<1>3. CoreStrong => ServesAsConfigured
  BY StrongServes
<1> QED
  BY <1>1, <1>2, <1>3, PTL DEF CoreSpec
==============================================================================
