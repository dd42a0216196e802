---------------------------- MODULE TradeHistory -----------------------------
(***************************************************************************)
(* Trade with one history variable, the goods on the table when a trade    *)
(* enters its Review phase, and the relation of Trade to Agreement.        *)
(***************************************************************************)
EXTENDS Trade

VARIABLE sealed

historyVars == <<vars, sealed>>

HistoryInit == Init /\ sealed = [id \in TradeId |-> NoGoods]

\* The Review screen shows the trade the step produced.
RecordSealed ==
  sealed' = [id \in TradeId |->
    IF /\ Live(id) /\ trades[id].phase = "Mutate"
       /\ trades'[id] # NoTrade /\ trades'[id].phase = "Review"
      THEN TermsOf(id) ELSE sealed[id]]

HistorySpec == HistoryInit /\ [][Next /\ RecordSealed]_historyVars

\* What the official client allows within one trade: a player is party to one
\* live trade at a time and stays in the game, as the same character, until it
\* is over.
Trading(p) == \E id \in TradeId : Live(id) /\ p \in Parties(trades[id])

CarefulNext ==
  /\ panicked = "no"
  /\ \/ \E p \in Player :
          \/ \E q \in Player : ~Trading(p) /\ ~Trading(q) /\ BeginTrade(p, q)
          \/ /\ ~Trading(p)
             /\ \/ ExitInGame(p) \/ Disconnect(p)
                \/ \E c \in Char : EnterInGame(p, c)
     \/ TradeStep /\ next_id' = next_id
     \/ InventoryStep

CarefulSpec == HistoryInit /\ [][CarefulNext /\ RecordSealed]_historyVars

-----------------------------------------------------------------------------
(* Refinement *)

DealStatus == [id \in TradeId |->
  IF Live(id)
    THEN IF trades[id].phase = "Mutate" THEN "open" ELSE "sealed"
    ELSE CASE finished[id].result = "None"      -> "none"
           [] finished[id].result = "Completed" -> "settled"
           [] OTHER                             -> "off"]

DealTerms == [id \in TradeId |->
  CASE DealStatus[id] = "sealed"  -> sealed[id]
    [] DealStatus[id] = "settled" -> finished[id].goods
    [] OTHER                      -> NoGoods]

Bound == [Side -> [Kind -> 0..MaxAmount*NSlots]]

Deals == INSTANCE Agreement WITH
  Deal <- TradeId, Terms <- Bound, NoTerms <- NoGoods,
  status <- DealStatus, terms <- DealTerms

\* Players who trade one at a time and stay in the game get exactly the goods
\* they saw when the trade was sealed, or nothing moves: Trade implements
\* Agreement.
Implements == Deals!Spec

\* A completed trade delivers the goods both parties saw on entering the Review
\* phase.  common/src/trade.rs:55-61 says of slot references that a player who
\* swaps items during a trade could "remove an item from the trade even after
\* receiving the counterparty's phase2 accept", and that the gate of
\* handle_inventory prevents this.
DeliveredAsSealed ==
  \A id \in TradeId :
    finished[id].result = "Completed" => finished[id].goods = sealed[id]
=============================================================================
