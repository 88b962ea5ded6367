------------------------------ MODULE MCSkSched ------------------------------
(* A master, one or two workers and a bio, with three or four events.      *)
EXTENDS SkSched

CONSTANTS m, w1, w2, b1, none

OneWorker == <<w1>>
TwoWorkers == <<w1, w2>>
OneBio == <<b1>>

(* Two events from the worker to the bio through the master, and an answer *)
(* of higher priority.                                                     *)
RoutedEvents == 1..3
RoutedFrom == <<w1, w1, b1>>
RoutedTo == <<b1, b1, w1>>
RoutedPri == <<1, 1, 2>>

(* Three events of the drivers for any worker, and one a worker sends to   *)
(* itself.                                                                 *)
SharedEvents == 1..4
SharedFrom == <<m, m, m, w1>>
SharedTo == <<none, none, none, w1>>
SharedPri == <<1, 1, 1, 1>>
==============================================================================
