---------------------------- MODULE MCSupervisor ----------------------------
(***************************************************************************)
(* Values for the constants of Supervisor.                                 *)
(***************************************************************************)
EXTENDS Supervisor, TLC

P == [host |-> "p", spelling |-> 0]

Top(c)    == [readable |-> TRUE, top |-> c, instances |-> <<>>]
Several(list) == [readable |-> TRUE, top |-> Blank, instances |-> list]

OneNode   == [Blank EXCEPT !.url = P, !.token = TRUE, !.node = 3]
TwoNodes  == [Blank EXCEPT !.url = P, !.token = TRUE, !.nodes = <<Entry(1), Entry(2)>>]
NodeTwice == [OneNode EXCEPT !.node = 2]
Override  == [TwoNodes EXCEPT !.nodes = <<[Entry(1) EXCEPT !.cert = TRUE],
                                           [Entry(2) EXCEPT !.kernel = TRUE]>>]
OwnPlace  == [OneNode EXCEPT !.dir = Path("named")]
Machine   == [Blank EXCEPT !.url = P, !.token = TRUE, !.machine = 7]

AllFiles ==
  [pair      |-> Several(<<TwoNodes, OneNode>>),
   swapped   |-> Several(<<OneNode, TwoNodes>>),
   named     |-> Several(<<Override, OwnPlace>>),
   clash     |-> Several(<<TwoNodes, NodeTwice>>),
   torn      |-> [Top(Blank) EXCEPT !.readable = FALSE],
   malformed |-> Top([OneNode EXCEPT !.url = BadUrl]),
   machine   |-> Top(Machine)]

NoEnv == [url |-> NoUrl, node |-> 0]

Bound(edit, signal, fail, listed, sync) ==
  ("edit" :> edit) @@ ("signal" :> signal) @@ ("fail" :> fail) @@ ("panel" :> listed)
  @@ ("sync" :> sync)

Start(f, listed, bound) == [file |-> f, panel |-> listed, budget |-> bound]

Cases == {Start("pair", {1}, Bound(2, 0, 0, 0, 0)), Start("pair", {1}, Bound(1, 1, 3, 0, 0)),
          Start("machine", {1}, Bound(0, 0, 1, 1, 1)), Start("machine", {1}, Bound(0, 1, 0, 0, 1)),
          Start("machine", {1, 2}, Bound(0, 0, 0, 2, 0)),
          Start("machine", {1}, Bound(1, 0, 1, 0, 0))}
=============================================================================
