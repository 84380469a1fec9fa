----------------------------- MODULE MCMetering -----------------------------
(***************************************************************************)
(* Values for the constants of Metering.                                   *)
(***************************************************************************)
EXTENDS Metering, TLC

OneUser  == ("up" :> 1) @@ ("down" :> 1)

\* Two sets of addresses whose digests collide: 1.1.1.1 + 12.3.4.5 and 1.1.1.11 + 2.3.4.5.
Digest == ("none" :> 0) @@ ("v" :> 1) @@ ("vx" :> 1)

Bound(use, view, trouble) ==
  ("use" :> use) @@ ("view" :> view) @@ ("trouble" :> trouble)

\* Traffic, addresses, and a little of both.
Bounds == {Bound(3, 0, 2), Bound(0, 3, 2), Bound(1, 1, 2)}
=============================================================================
