------------------------------ MODULE MCSessions -----------------------------
(* Small instances of Sessions for TLC. *)
EXTENDS Sessions, TLC

CONSTANTS k1, k2, alice, c1

\* All connections and characters are of one account.
SameAccount == [k \in Connection |-> alice]
SameOwner   == [c \in Character |-> alice]

Symmetric == Permutations(Connection)
=============================================================================
