------------------------------- MODULE MCSkCore -------------------------------
(* One engine of each kind.  The file names the language "cpp" only, so that *)
(* a module of type "py" finds no loader and is fine only if it is skipped.  *)
EXTENDS SkCore
OneWorker == <<"worker">>
OneBio == <<"bio">>
ThreeModules == {[name |-> "a", type |-> "cpp"], [name |-> "a", type |-> "py"],
                 [name |-> "b", type |-> "cpp"]}
TwoItems == {[type |-> "cpp", mode |-> "rw-pr"], [type |-> "cpp", mode |-> ""]}
SomePorts == {NoPort, 80, MaxPort + 1}
=============================================================================
