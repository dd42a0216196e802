----------------------------- MODULE MCRegions -------------------------------
(* A small instance of Regions for TLC. *)
EXTENDS Regions, TLC

CONSTANTS ann, bob, u1, u2, u3, u4

\* Around the corner where four regions meet: Near is in the tether of the one
\* to the upper right and in sight of Right; from Left the regions on the right
\* are too far away to be told about.
Left  == <<764, 1034>>
Right == <<1124, 1034>>
Near  == <<1014, 1014>>

Corner  == {Left, Right, Near}
Western == {Left, Near}

Symmetric == Permutations(Uid)
=============================================================================
