------------------------------- MODULE MCSkUser -------------------------------
(* Two modules in every mix of languages, two calls with a callback and one *)
(* without.                                                                 *)
EXTENDS SkUser, TLC
CONSTANTS c, d, n
AllCalls == {c, d, n}
CbCalls == {c, d}
Symm == Permutations(CbCalls)
=============================================================================
