----------------------------- MODULE MCMachine -----------------------------
(***************************************************************************)
(* Values for the constants of MachineNode.                                *)
(***************************************************************************)
EXTENDS MachineNode, TLC

One   == (1 :> [uuid |-> "a", limit |-> 1])
Two   == (1 :> [uuid |-> "a", limit |-> 1]) @@ (2 :> [uuid |-> "c", limit |-> 1])

Tables == {EmptyTable, One, Two}

\* One config for xray, any other for sing-box.
KernelsOf   == [c \in Configs |-> IF c = "x1" THEN "xray" ELSE "singbox"]
ProtocolsOf == [c \in Configs |-> "p"]

Steps == [b \in BudgetKinds |-> CASE b = "edits" -> 2 [] b = "trouble" -> 1 [] OTHER -> 0]
MachineStarts ==
  {[panel |-> p, budget |-> Steps] :
     p \in [cfg : {"x1"}, users : {EmptyTable, One}, ws : {TRUE}]}
=============================================================================
