------------------------------ MODULE MCSkEntity ------------------------------
(* An entity with three transactions, under every workflow.                *)
EXTENDS SkEntity

CONSTANTS t1, t2, t3

ThreeTxns == {t1, t2, t3}
AllKinds == {"stream", "udp"}

AllWorkflows == [concurrent : BOOLEAN, packFails : BOOLEAN]
==============================================================================
