---------------------------- MODULE MCAdmission ----------------------------
(***************************************************************************)
(* Values for the constants of Admission.                                  *)
(***************************************************************************)
EXTENDS Admission, TLC

Capped      == {[limit |-> 1, speed |-> 0], [limit |-> 0, speed |-> 5]}

Bound(open, profile, start, view) ==
  ("open" :> open) @@ ("profile" :> profile) @@ ("start" :> start) @@ ("world" :> view)

Bounds == {Bound(3, 1, 0, 0), Bound(2, 1, 1, 0), Bound(2, 2, 0, 1)}
Symmetry == Permutations(Conns)
=============================================================================
