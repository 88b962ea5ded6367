------------------------------- MODULE MCSkTxn -------------------------------
(* A workflow of two modules and up to four service calls, two with        *)
(* a callback and two without; pack may make one of each.                  *)
EXTENDS SkTxn

CONSTANTS a, b, c, d

AllTasks == {a, b, c, d}
WithCb == {a, b}
InPack == {b, d}
==============================================================================
