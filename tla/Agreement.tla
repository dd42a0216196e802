------------------------------ MODULE Agreement ------------------------------
(***************************************************************************)
(* What a trade promises, without slots, phases' flags or inventories: two *)
(* parties negotiate, at one moment both consent to terms, and from then   *)
(* on the deal is either settled on exactly those terms or called off.     *)
(***************************************************************************)
EXTENDS Naturals

CONSTANTS Deal, Terms, NoTerms

VARIABLES status, terms

DealVars == <<status, terms>>

Init ==
  /\ status = [d \in Deal |-> "none"]
  /\ terms  = [d \in Deal |-> NoTerms]

Open(d) ==
  /\ status[d] = "none"
  /\ status' = [status EXCEPT ![d] = "open"]
  /\ UNCHANGED terms

\* Both parties consent.
Seal(d, t) ==
  /\ status[d] = "open"
  /\ status' = [status EXCEPT ![d] = "sealed"]
  /\ terms'  = [terms EXCEPT ![d] = t]

\* The goods change hands, all at once.
Settle(d) ==
  /\ status[d] = "sealed"
  /\ status' = [status EXCEPT ![d] = "settled"]
  /\ UNCHANGED terms

\* A party declines, or the goods do not fit.
CallOff(d) ==
  /\ status[d] \in {"open", "sealed"}
  /\ status' = [status EXCEPT ![d] = "off"]
  /\ terms'  = [terms EXCEPT ![d] = NoTerms]

Next == \E d \in Deal :
  \/ Open(d) \/ Settle(d) \/ CallOff(d)
  \/ \E t \in Terms : Seal(d, t)

Spec == Init /\ [][Next]_DealVars
=============================================================================
