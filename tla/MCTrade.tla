------------------------------ MODULE MCTrade --------------------------------
(* Small instances of Trade for TLC. *)
EXTENDS TradeHistory

CONSTANTS ann, bob, ann1, ann2, bob1, coin, sword, potion

MCOwner  == (ann1 :> ann) @@ (bob1 :> bob)
MCOwner2 == MCOwner @@ (ann2 :> ann)

Empty == [s \in Slot |-> NoItem]
One(k, n) == [Empty EXCEPT ![1] = [kind |-> k, amount |-> n]]

\* Ann holds a stack of coins, Bob a sword.
MCPack  == (ann1 :> One(coin, 2)) @@ (bob1 :> One(sword, 1))

\* One potion with Ann's first character, nothing with anybody else.
MCPotion == (ann1 :> One(potion, 1)) @@ (ann2 :> Empty) @@ (bob1 :> Empty)

\* Nobody leaves the game.
StayNext == panicked = "no" /\ (TradeStep \/ InventoryStep)
StaySpec == HistoryInit /\ [][StayNext /\ RecordSealed]_historyVars
=============================================================================
