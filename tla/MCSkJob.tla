------------------------------ MODULE MCSkJob ------------------------------
(* Two user jobs, one internal timer, one api call; a worker, a bio and the *)
(* master, each of which may create jobs and run them.                      *)
EXTENDS SkJob
=============================================================================
