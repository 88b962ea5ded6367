------------------------------- MODULE SkConfig -------------------------------
(***************************************************************************)
(* The configuration file of a project: how skull-config-utils.py edits it *)
(* and what sk_config.c makes of it when the engine starts.                *)
(*                                                                         *)
(* A file is a record of the list of workflows and of the services by      *)
(* name.  A workflow keeps its two trigger items and its list of modules   *)
(* "name:type", here records of a name and a type.  The tool writes every  *)
(* item of a workflow, also the ones left at their defaults; log names,    *)
(* levels, ports of the admin interface and limits are left out.           *)
(***************************************************************************)
EXTENDS Integers, Sequences, SequencesExt

NoPort == -1

MaxPort == 65535

\* A frame as the tool creates it: the item stdin is always there.
CreateWorkflow == [stdin |-> 0, port |-> NoPort, modules |-> <<>>]

\* An empty project.
EmptyFile == [workflows |-> <<>>, services |-> <<>>]

(***************************************************************************)
(* The tool.                                                               *)
(***************************************************************************)

\* `skull workflow --add': stdin wins over a port, a port not above 0 is none.
AddWorkflow(f, stdin, port) ==
  [f EXCEPT !.workflows =
     Append(@, [CreateWorkflow EXCEPT
                  !.stdin = IF stdin = 1 THEN 1 ELSE 0,
                  !.port  = IF stdin # 1 /\ port > 0 THEN port ELSE NoPort])]

\* A module may be listed again in a workflow, but not with another type.
ModuleValid(list, m) ==
  \A k \in DOMAIN list : list[k].name = m.name => list[k].type = m.type

\* `skull module --add', for a valid module of the workflow with index i.
AddModule(f, i, m) ==
  [f EXCEPT !.workflows[i].modules = Append(@, m)]

\* `skull service --add': an existing item is replaced.
AddService(f, s, item) ==
  [f EXCEPT !.services =
     [n \in DOMAIN f.services \cup {s} |-> IF n = s THEN item ELSE f.services[n]]]

(***************************************************************************)
(* The loader.  Reading a workflow either adds it to those read so far or  *)
(* ends the process: on a port out of range, and on any item stdin, the    *)
(* value 0 included, that comes after a workflow has enabled stdin.        *)
(***************************************************************************)
LoadWorkflow(acc, w) ==
  IF \/ ~acc.ok
     \/ acc.stdin
     \/ w.port > MaxPort
  THEN [acc EXCEPT !.ok = FALSE]
  ELSE [acc EXCEPT !.stdin = w.stdin = 1, !.workflows = Append(@, w)]

LoadWorkflows(ws) ==
  FoldLeft(LoadWorkflow, [ok |-> TRUE, stdin |-> FALSE, workflows |-> <<>>], ws)

\* The data modes _load_service_data_mode knows; another one ends the process.
DataModes == {"rw-pr", "rw-pw"}

LoadServices(ss) == \A s \in DOMAIN ss : ss[s].mode \in DataModes

\* Does the process survive reading the file?
Loads(f) == LoadWorkflows(f.workflows).ok /\ LoadServices(f.services)

\* The driver sk_driver_create picks for a workflow.
DriverType(w) ==
  IF w.stdin = 1 THEN "std" ELSE IF w.port > 0 THEN "net" ELSE "app"
=============================================================================
