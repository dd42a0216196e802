----------------------------- MODULE MCSlowJobs ------------------------------
(* Small instances of SlowJobs for TLC. *)
EXTENDS SlowJobs, TLC

CONSTANTS main, side, a1, a2, a3, b1, A, B

\* Three jobs of one name and one of another.
TwoNames == [j \in Job |-> IF j \in {a1, a2, a3} THEN A ELSE B]
OneEach  == [n \in Name |-> 1]
=============================================================================
