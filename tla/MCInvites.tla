----------------------------- MODULE MCInvites -------------------------------
(* Small instances of Invites for TLC. *)
EXTENDS Invites, TLC

CONSTANTS ann, bob, cyd, dan, rex, pip, g1, g2, g3, g4

\* Keys of the Slab are interchangeable.
KeySymmetry == Permutations(GroupId)
=============================================================================
