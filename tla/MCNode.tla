------------------------------- MODULE MCNode -------------------------------
(***************************************************************************)
(* Values for the constants of NodeService: the configs and tables the     *)
(* runs are made of, and one budget per run.                               *)
(***************************************************************************)
EXTENDS NodeService, TLC

\* Three users; user 1 has two possible credentials and two possible limits.
One    == (1 :> [uuid |-> "a", limit |-> 1])
OneNew == (1 :> [uuid |-> "b", limit |-> 1])
TwoNew == OneNew @@ (2 :> [uuid |-> "c", limit |-> 1])
Three  == (1 :> [uuid |-> "a", limit |-> 2]) @@ (2 :> [uuid |-> "c", limit |-> 1])
            @@ (3 :> [uuid |-> "d", limit |-> 1])

\* Panels of the given configs and tables, which offer a WebSocket or do not, with the
\* budgets of their runs.
StartsOf(configs, tables, offers, steps) ==
  {[panel |-> p, budget |-> steps] : p \in [cfg : configs, users : tables, ws : {offers}]}

None == [b \in BudgetKinds |-> 0]
Edits(n) == [None EXCEPT !["edits"] = n]

NodeTables == {EmptyTable, One, TwoNew, Three}
GrowTables == {EmptyTable, One}
SoleTables == {One, OneNew}

\* The events race over a WebSocket and kernel calls fail; or polling is all there is,
\* and polls fail.
NodeStarts ==
  StartsOf({"s1", "x1"}, {One}, TRUE, Edits(2)) \cup
  StartsOf({"s1", "x1", "h1"}, {One}, TRUE, [Edits(1) EXCEPT !["kernel"] = 1]) \cup
  StartsOf({"s1", "x1", "h1"}, {One}, FALSE, [Edits(1) EXCEPT !["trouble"] = 2])

GrowStarts   == StartsOf(Configs, GrowTables, FALSE, Edits(1))
PollStarts   == StartsOf(Configs, SoleTables, FALSE, [Edits(1) EXCEPT !["trouble"] = 1])
LeakStarts   == StartsOf(Configs, SoleTables, TRUE, Edits(1))
UuidStarts   == StartsOf(Configs, SoleTables, TRUE, Edits(2))
FailedStarts == StartsOf(Configs, SoleTables, FALSE, [None EXCEPT !["trouble"] = 2])

\* Configs for sing-box, one of them hysteria version 1, and two for xray (one of another
\* protocol), one that the runtime refuses and one that is not even a valid NodeSpec.
KernelsOf   == [c \in Configs |-> IF c \in {"x1", "x2"} THEN "xray" ELSE "singbox"]
ProtocolsOf == [c \in Configs |-> IF c \in {"s2", "x2", "h1"} THEN "q" ELSE "p"]
=============================================================================
