--------------------------- MODULE MCDesktopStore ---------------------------
(* Instances of DesktopStore for TLC. *)
EXTENDS DesktopStore, TLC

CONSTANTS p1, p2, c1, c2

\* One conversation in each project.
Apart == c1 :> p1 @@ c2 :> p2

\* The calls can be exchanged, and the projects together with their
\* conversations.
Swap == c1 :> c2 @@ c2 :> c1 @@ p1 :> p2 @@ p2 :> p1
Stay == [v \in {c1, c2, p1, p2} |-> v]
Symmetry == {f @@ g : f \in Permutations(Calls), g \in {Swap, Stay}}
=============================================================================
