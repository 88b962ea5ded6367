---------------------------- MODULE MCSkMalloc ----------------------------
(* Two threads, two blocks and two scopes: a block may be released, or its *)
(* peak raced for, in another scope than the one it was allocated in.      *)
(* Threads, blocks and scopes are alike.                                   *)
EXTENDS SkMalloc, TLC

Symm == Permutations(Threads) \cup Permutations(Blocks) \cup Permutations(Scopes)
=============================================================================
