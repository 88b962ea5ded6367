------------------------------ MODULE MCSkMon ------------------------------
(* The global monitor, that of one engine and that of the user code. *)
EXTENDS SkMon

MCOrder == <<"global", "engine", "user">>
=============================================================================
