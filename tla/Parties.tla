------------------------------- MODULE Parties -------------------------------
(***************************************************************************)
(* What groups promise their players: a party has a leader and at least    *)
(* two members, nobody is in two parties, and nobody joins one without     *)
(* having been asked by the player who will lead it.                       *)
(***************************************************************************)
EXTENDS Integers, FiniteSets

CONSTANT Player

VARIABLES
  parties,   \* a set of records [leader, members]
  asked      \* pairs <<leader, player>>

Init == parties = {} /\ asked = {}

\* The parties after p has gone: its own dissolves with its leader, or when
\* nobody else is left to lead.
Without(P, p) ==
  {x \in P : p \notin x.members} \cup
  {[x EXCEPT !.members = @ \ {p}] :
     x \in {y \in P : p \in y.members /\ y.leader # p /\ Cardinality(y.members) > 2}}

\* The leader leaves a party it does not lead.
With(P, l, p) ==
  LET own == {x \in P : x.leader = l}
  IN IF own # {}
     THEN (P \ own) \cup {[x EXCEPT !.members = @ \cup {p}] : x \in own}
     ELSE Without(P, l) \cup {[leader |-> l, members |-> {l, p}]}

Ask(l, p) ==
  /\ asked' = asked \cup {<<l, p>>}
  /\ UNCHANGED parties

Lapse ==
  /\ asked' \subseteq asked
  /\ UNCHANGED parties

Join(l, p) ==
  /\ <<l, p>> \in asked
  /\ asked' = asked \ {<<l, p>>}
  /\ parties' = With(Without(parties, p), l, p)

Part(p) ==
  /\ parties' = Without(parties, p)
  /\ asked' \subseteq asked

HandOver(p) ==
  /\ \E x \in parties :
       /\ p \in x.members
       /\ parties' = (parties \ {x}) \cup {[x EXCEPT !.leader = p]}
  /\ UNCHANGED asked

Next ==
  \/ Lapse
  \/ \E p \in Player :
       \/ Part(p)
       \/ HandOver(p)
       \/ \E l \in Player \ {p} : Ask(l, p) \/ Join(l, p)

Spec == Init /\ [][Next]_<<parties, asked>>
=============================================================================
