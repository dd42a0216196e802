----------------------------- MODULE TradeProofs -----------------------------
(***************************************************************************)
(* Proofs about Trade, for any number of players, characters, slots, kinds *)
(* and trades.  First the types and the tables of trades; then the goods:  *)
(* nothing is duplicated (NoDuplication), the arithmetic on slots in       *)
(* commit_trade lets through only what fits and no merge       *)
(* overflows (OnlySelfMergePanics), a commit moves exactly the goods       *)
(* offered (FairExchange), and the trades of careful players are the deals *)
(* of Agreement (Implements).                                              *)
(***************************************************************************)
EXTENDS TradeHistory, FoldLemmas

-----------------------------------------------------------------------------
(* Inventory operations *)

\* An item that may grow stays an item.
LEMMA GrowType ==
  ASSUME NEW i \in Stack, NEW n \in Nat, i.kind \in Stackable, CanGrow(i, n)
  PROVE  Grow(i, n) \in Stack
BY MaxAmountAssumption DEF Stack, CanGrow, Grow

\* push yields an inventory or refuses.
LEMMA PushType ==
  ASSUME NEW inv \in Inventories, NEW i \in Stack
  PROVE  Push(inv, i) \in Inventories \cup {Full}
<1> DEFINE same  == {s \in Slot : i.kind \in Stackable /\ SameItem(inv[s], i)}
           empty == Slot \ Occupied(inv)
<1>1. same \subseteq Nat /\ empty \subseteq Nat
  BY DEF Slot
<1>2. CASE same # {}
  <2>1. Min(same) \in same
    BY <1>1, <1>2, MinExists
  <2>2. inv[Min(same)] \in Stack /\ inv[Min(same)].kind \in Stackable
    BY <2>1 DEF Inventories, SameItem
  <2>3. CanGrow(inv[Min(same)], i.amount) => Grow(inv[Min(same)], i.amount) \in Stack
    BY <2>2, GrowType DEF Stack
  <2> QED BY <1>2, <2>1, <2>3 DEF Push, Inventories
<1>3. CASE same = {} /\ empty # {}
  <2>1. Min(empty) \in Slot
    BY <1>1, <1>3, MinExists
  <2> QED BY <1>3, <2>1 DEF Push, Inventories
<1>4. CASE same = {} /\ empty = {}
  BY <1>4 DEF Push
<1> QED BY <1>2, <1>3, <1>4

\* An item that does not stack fits into an inventory with an empty slot: the
\* expect_none() of unequip.
LEMMA PushFits ==
  ASSUME NEW inv \in Inventories, NEW i \in Stack,
         i.kind \notin Stackable, Occupied(inv) # Slot
  PROVE  Push(inv, i) \in Inventories
<1> DEFINE empty == Slot \ Occupied(inv)
<1>1. empty # {} /\ empty \subseteq Nat
  BY DEF Occupied, Slot
<1>2. Min(empty) \in Slot
  BY <1>1, MinExists
<1>3. Push(inv, i) = [inv EXCEPT ![Min(empty)] = i]
  BY <1>1 DEF Push
<1> QED BY <1>2, <1>3 DEF Inventories

\* take, repeated, yields an inventory.
LEMMA TakeUnitsType ==
  ASSUME NEW inv \in Inventories, NEW s \in Slot, NEW n \in Nat
  PROVE  TakeUnits(inv, s, n) \in Inventories
<1>1. CASE n < Owned(inv, s)
  <2>1. inv[s] \in Stack /\ n < inv[s].amount
    BY <1>1 DEF Owned, Inventories
  <2>2. [inv[s] EXCEPT !.amount = @ - n] \in Stack
    BY <2>1, MaxAmountAssumption DEF Stack
  <2> QED BY <1>1, <2>2 DEF TakeUnits, Inventories
<1>2. CASE ~(n < Owned(inv, s))
  BY <1>2 DEF TakeUnits, RemoveSlot, Inventories
<1> QED BY <1>1, <1>2

\* Half a stack is an item.
LEMMA HalfType ==
  ASSUME NEW i \in Stack
  PROVE  /\ HalfOf(i) \in Nat
         /\ [kind |-> i.kind, amount |-> HalfOf(i)] \in Stack
         /\ [i EXCEPT !.amount = HalfOf(i)] \in Stack
BY MaxAmountAssumption DEF HalfOf, Stack

\* merge_stack_into, swap_slots, insert_or_stack_at and remove yield inventories.
LEMMA MergeType ==
  ASSUME NEW inv \in Inventories, NEW a \in Slot, NEW b \in Slot,
         CanMerge(inv, a, b), CanGrow(inv[b], inv[a].amount)
  PROVE  Merge(inv, a, b) \in Inventories
<1>1. inv[a] \in Stack /\ inv[b] \in Stack /\ inv[b].kind \in Stackable
  BY DEF CanMerge, SameItem, Inventories
<1>2. Grow(inv[b], inv[a].amount) \in Stack
  BY <1>1, GrowType DEF Stack
<1> QED BY <1>2 DEF Merge, Inventories

LEMMA SwapType ==
  ASSUME NEW inv \in Inventories, NEW a \in Slot, NEW b \in Slot
  PROVE  Swap(inv, a, b) \in Inventories
BY DEF Swap, Inventories

LEMMA InsertType ==
  ASSUME NEW inv \in Inventories, NEW s \in Slot, NEW i \in Stack
  PROVE  InsertOrStackAt(inv, s, i) \in Inventories
<1>1. CASE i.kind \in Stackable /\ SameItem(inv[s], i) /\ CanGrow(inv[s], i.amount)
  <2>1. inv[s] \in Stack /\ inv[s].kind \in Stackable
    BY <1>1 DEF SameItem, Inventories
  <2>2. Grow(inv[s], i.amount) \in Stack
    BY <1>1, <2>1, GrowType DEF Stack
  <2> QED BY <1>1, <2>2 DEF InsertOrStackAt, Inventories
<1>2. CASE ~(i.kind \in Stackable /\ SameItem(inv[s], i) /\ CanGrow(inv[s], i.amount))
  BY <1>2 DEF InsertOrStackAt, Inventories
<1> QED BY <1>1, <1>2

LEMMA RemoveType ==
  ASSUME NEW inv \in Inventories, NEW s \in Slot
  PROVE  RemoveSlot(inv, s) \in Inventories
BY DEF RemoveSlot, Inventories

-----------------------------------------------------------------------------
(* PendingTrade operations *)

LEMMA ResetType ==
  ASSUME NEW t \in PendingTrade
  PROVE  ResetFlags(t) \in PendingTrade
BY DEF ResetFlags, NoFlags, PendingTrade

\* What a slot's owner has of it is an amount.
LEMMA OwnedType ==
  ASSUME NEW inv \in Inventories, NEW s \in Slot
  PROVE  Owned(inv, s) \in 0..MaxAmount
BY MaxAmountAssumption DEF Owned, Inventories, Stack

\* which_party of a party
LEMMA PartyOfType ==
  ASSUME NEW t \in PendingTrade, NEW p \in Parties(t)
  PROVE  PartyOf(t, p) \in Side /\ t.parties[PartyOf(t, p)] = p
BY DEF PartyOf, Parties

LEMMA AddItemType ==
  ASSUME NEW t \in PendingTrade, NEW who \in Side, NEW s \in Slot,
         NEW delta \in Nat, NEW owned \in 0..MaxAmount
  PROVE  AddItem(t, who, s, delta, owned) \in PendingTrade
<1> DEFINE o     == t.offers[who]
           total == Min({Offered(o, s) + delta, owned})
           new   == [x \in DOMAIN o \cup {s} |-> IF x = s THEN total ELSE o[x]]
<1>0. o \in Offer
  BY DEF PendingTrade
<1>1. PICK S \in SUBSET Slot : o \in [S -> 0..MaxAmount]
  BY <1>0 DEF Offer
<1>2. Offered(o, s) \in Nat
  BY <1>1 DEF Offered
<1>3. total \in {Offered(o, s) + delta, owned}
  BY <1>2, MinExists
<1>4. total =< owned
  <2>1. \E x \in {Offered(o, s) + delta, owned} :
          \A y \in {Offered(o, s) + delta, owned} : x =< y
    BY <1>2
  <2> QED BY <2>1 DEF Min
<1>5. total \in 0..MaxAmount
  BY <1>2, <1>3, <1>4, MaxAmountAssumption
<1>6. new \in [S \cup {s} -> 0..MaxAmount]
  <2> HIDE DEF total
  <2> QED BY <1>1, <1>5
<1>7. new \in Offer
  <2> HIDE DEF new
  <2> QED BY <1>6 DEF Offer
<1>8. [t EXCEPT !.offers[who] = new] \in PendingTrade
  <2> HIDE DEF new
  <2> QED BY <1>7 DEF PendingTrade
<1> QED BY <1>8, ResetType DEF AddItem

LEMMA RemoveItemType ==
  ASSUME NEW t \in PendingTrade, NEW who \in Side, NEW s \in Slot, NEW delta \in Nat
  PROVE  RemoveItem(t, who, s, delta) \in PendingTrade
<1> DEFINE o    == t.offers[who]
           keep == IF Offered(o, s) > delta THEN DOMAIN o ELSE DOMAIN o \ {s}
           new  == [x \in keep |-> IF x = s THEN o[x] - delta ELSE o[x]]
<1>0. o \in Offer
  BY DEF PendingTrade
<1>1. PICK S \in SUBSET Slot : o \in [S -> 0..MaxAmount]
  BY <1>0 DEF Offer
<1>2. keep \subseteq S
  BY <1>1
<1>3. ASSUME NEW x \in keep PROVE new[x] \in 0..MaxAmount
  BY <1>1, <1>2, <1>3, MaxAmountAssumption DEF Offered
<1>4. new \in [keep -> 0..MaxAmount]
  <2> HIDE DEF keep
  <2> QED BY <1>3
<1>5. new \in Offer
  <2> HIDE DEF new, keep
  <2> QED BY <1>2, <1>4 DEF Offer
<1>6. [t EXCEPT !.offers[who] = new] \in PendingTrade
  <2> HIDE DEF new
  <2> QED BY <1>5 DEF PendingTrade
<1> QED BY <1>6, ResetType DEF RemoveItem

LEMMA AcceptType ==
  ASSUME NEW t \in PendingTrade, NEW who \in Side, NEW phase
  PROVE  AcceptPhase(t, who, phase) \in PendingTrade
<1> DEFINE flags == IF t.phase = phase THEN [t.accept_flags EXCEPT ![who] = TRUE]
                                       ELSE t.accept_flags
<1>1. flags \in [Side -> BOOLEAN]
  BY DEF PendingTrade
<1>2. [t EXCEPT !.accept_flags = flags] \in PendingTrade
  <2> HIDE DEF flags
  <2> QED BY <1>1 DEF PendingTrade
<1>3. [t EXCEPT !.phase = NextPhase(@)] \in PendingTrade
  BY DEF PendingTrade, NextPhase, Phase
<1> QED BY <1>2, <1>3, ResetType DEF AcceptPhase

-----------------------------------------------------------------------------
(* Type correctness *)

\* A player in the game has a typed inventory.
LEMMA InvType ==
  ASSUME TypeOK, NEW p \in Player, InGame(p)
  PROVE  /\ Inv(p) \in Inventories
         /\ worn[active[p]] \in Wearable
         /\ active[p] \in Char
BY DEF TypeOK, InGame, Inv

\* A live trade is a PendingTrade.
LEMMA LiveType ==
  ASSUME TypeOK, NEW id \in TradeId, Live(id)
  PROVE  trades[id] \in PendingTrade
BY DEF TypeOK, Live

\* handle_inventory around a manipulation that yields an inventory.
LEMMA ManipulateTypeOK ==
  ASSUME TypeOK, NEW p \in Player, NEW inv \in Inventories,
         NEW equipped \in Wearable, Manipulate(p, inv, equipped),
         ground' \in [Stack -> Nat], blocks' \subseteq Kind
  PROVE  TypeOK'
<1>1. active[p] \in Char
  BY DEF Manipulate, InGame
<1>2. pack' \in [Char -> Inventories] /\ worn' \in [Char -> Wearable]
  BY <1>1 DEF Manipulate, TypeOK
<1>3. trades' \in [TradeId -> PendingTrade \cup {NoTrade}]
  <2>1. CASE InMutableTrade(p)
    <3>1. entity_trades[p] \in TradeId
      BY <2>1 DEF InMutableTrade, InTrade, TypeOK
    <3>2. trades[entity_trades[p]] \in PendingTrade
      BY <2>1, <3>1, LiveType DEF InMutableTrade, InTrade
    <3>3. ResetFlags(trades[entity_trades[p]]) \in PendingTrade
      BY <3>2, ResetType
    <3> QED BY <2>1, <3>3 DEF Manipulate, ImplicitMutation, TypeOK
  <2>2. CASE ~InMutableTrade(p)
    BY <2>2 DEF Manipulate, TypeOK
  <2> QED BY <2>1, <2>2
<1> QED BY <1>2, <1>3 DEF Manipulate, TypeOK

LEMMA ManipulateOwnTypeOK ==
  ASSUME TypeOK, NEW p \in Player, NEW inv \in Inventories,
         NEW equipped \in Wearable, ManipulateOwn(p, inv, equipped)
  PROVE  TypeOK'
<1>1. ground' \in [Stack -> Nat] /\ blocks' \subseteq Kind
  BY DEF ManipulateOwn, TypeOK
<1> QED BY <1>1, ManipulateTypeOK DEF ManipulateOwn

LEMMA ManipulateDropTypeOK ==
  ASSUME TypeOK, NEW p \in Player, NEW inv \in Inventories,
         NEW equipped \in Wearable, NEW i \in Stack,
         ManipulateDrop(p, inv, equipped, i)
  PROVE  TypeOK'
<1>1. ground' \in [Stack -> Nat] /\ blocks' \subseteq Kind
  BY DEF ManipulateDrop, TypeOK
<1> QED BY <1>1, ManipulateTypeOK DEF ManipulateDrop

\* Every manipulation of an inventory keeps the types.
LEMMA InventoryTypeOK ==
  ASSUME TypeOK, InventoryStep
  PROVE  TypeOK'
<1> PICK p \in Player :
      \/ \E i \in Stack : Pickup(p, i)
      \/ \E k \in Kind : Collect(p, k)
      \/ \E s \in Slot : Use(p, s) \/ SwapEquipped(p, s) \/ Drop(p, s) \/ SplitDrop(p, s)
      \/ \E a, b \in Slot : SwapSlots(p, a, b) \/ SplitSwap(p, a, b)
      \/ UseEquipped(p)
      \/ DropEquipped(p)
  BY DEF InventoryStep
<1> InGame(p)
  BY DEF Pickup, Collect, Use, SwapEquipped, Drop, SplitDrop, SwapSlots,
         SplitSwap, UseEquipped, DropEquipped
<1> DEFINE inv == Inv(p)
           eq  == worn[active[p]]
<1>0. inv \in Inventories /\ eq \in Wearable
  BY InvType
<1>1. ASSUME NEW i \in Stack, Pickup(p, i) PROVE TypeOK'
  <2>1. CASE i.kind \in Equippable /\ eq = NoItem
    <3>1. inv # Full
      BY <1>0, FullAssumption
    <3>2. Manipulate(p, inv, i) /\ ground' = [ground EXCEPT ![i] = @ - 1] /\ blocks' = blocks
      BY <1>1, <2>1, <3>1 DEF Pickup
    <3>3. ground[i] > 0
      BY <1>1 DEF Pickup
    <3>4. ground' \in [Stack -> Nat] /\ blocks' \subseteq Kind
      BY <3>2, <3>3 DEF TypeOK
    <3>5. i \in Wearable
      BY <2>1 DEF Wearable
    <3> QED BY <1>0, <3>2, <3>4, <3>5, ManipulateTypeOK
  <2>2. CASE ~(i.kind \in Equippable /\ eq = NoItem) /\ Push(inv, i) = Full
    <3>1. ManipulateOwn(p, inv, eq)
      BY <1>1, <2>2 DEF Pickup
    <3> QED BY <1>0, <3>1, ManipulateOwnTypeOK
  <2>3. CASE ~(i.kind \in Equippable /\ eq = NoItem) /\ Push(inv, i) # Full
    <3>1. Push(inv, i) \in Inventories
      BY <1>0, <2>3, PushType
    <3>2. /\ Manipulate(p, Push(inv, i), eq)
          /\ ground' = [ground EXCEPT ![i] = @ - 1] /\ blocks' = blocks
      BY <1>1, <2>3 DEF Pickup
    <3>3. ground[i] > 0
      BY <1>1 DEF Pickup
    <3>4. ground' \in [Stack -> Nat] /\ blocks' \subseteq Kind
      BY <3>2, <3>3 DEF TypeOK
    <3> QED BY <1>0, <3>1, <3>2, <3>4, ManipulateTypeOK
  <2> QED BY <2>1, <2>2, <2>3
<1>2. ASSUME NEW k \in Kind, Collect(p, k) PROVE TypeOK'
  <2> DEFINE i == [kind |-> k, amount |-> 1]
  <2>1. i \in Stack
    BY MaxAmountAssumption DEF Stack
  <2>2. CASE Push(inv, i) = Full
    <3>1. ManipulateOwn(p, inv, eq)
      BY <1>2, <2>2 DEF Collect
    <3> QED BY <1>0, <3>1, ManipulateOwnTypeOK
  <2>3. CASE Push(inv, i) # Full
    <3>1. Push(inv, i) \in Inventories
      BY <1>0, <2>1, <2>3, PushType
    <3>2. Manipulate(p, Push(inv, i), eq) /\ blocks' = blocks \ {k} /\ ground' = ground
      BY <1>2, <2>3 DEF Collect
    <3>3. ground' \in [Stack -> Nat] /\ blocks' \subseteq Kind
      BY <3>2 DEF TypeOK
    <3> QED BY <1>0, <3>1, <3>2, <3>3, ManipulateTypeOK
  <2> QED BY <2>2, <2>3
<1>3. ASSUME NEW s \in Slot, Use(p, s) PROVE TypeOK'
  <2>1. CASE /\ inv[s] # NoItem /\ inv[s].kind \in Equippable
             /\ ManipulateOwn(p, [inv EXCEPT ![s] = eq], inv[s])
    <3>1. [inv EXCEPT ![s] = eq] \in Inventories /\ inv[s] \in Wearable
      BY <1>0, <2>1 DEF Inventories, Wearable
    <3> QED BY <2>1, <3>1, ManipulateOwnTypeOK
  <2>2. CASE ManipulateOwn(p, TakeUnits(inv, s, 1), eq)
    BY <1>0, <2>2, TakeUnitsType, ManipulateOwnTypeOK
  <2>3. CASE ManipulateOwn(p, inv, eq)
    BY <1>0, <2>3, ManipulateOwnTypeOK
  <2> QED BY <1>3, <2>1, <2>2, <2>3 DEF Use
<1>4. ASSUME NEW s \in Slot, SwapEquipped(p, s) PROVE TypeOK'
  <2>1. CASE ManipulateOwn(p, inv, eq)
    BY <1>0, <2>1, ManipulateOwnTypeOK
  <2>2. CASE /\ inv[s] = NoItem \/ inv[s].kind \in Equippable
             /\ ManipulateOwn(p, [inv EXCEPT ![s] = eq], inv[s])
    <3>1. [inv EXCEPT ![s] = eq] \in Inventories /\ inv[s] \in Wearable
      BY <1>0, <2>2 DEF Inventories, Wearable
    <3> QED BY <2>2, <3>1, ManipulateOwnTypeOK
  <2> QED BY <1>4, <2>1, <2>2 DEF SwapEquipped
<1>5. ASSUME NEW s \in Slot, Drop(p, s) PROVE TypeOK'
  <2>1. CASE inv[s] = NoItem
    <3>1. ManipulateOwn(p, inv, eq)
      BY <1>5, <2>1 DEF Drop
    <3> QED BY <1>0, <3>1, ManipulateOwnTypeOK
  <2>2. CASE inv[s] # NoItem
    <3>1. ManipulateDrop(p, RemoveSlot(inv, s), eq, inv[s])
      BY <1>5, <2>2 DEF Drop
    <3>2. inv[s] \in Stack
      BY <1>0, <2>2 DEF Inventories
    <3> QED BY <1>0, <3>1, <3>2, RemoveType, ManipulateDropTypeOK
  <2> QED BY <2>1, <2>2
<1>6. ASSUME NEW s \in Slot, SplitDrop(p, s) PROVE TypeOK'
  <2>1. CASE inv[s] = NoItem
    <3>1. ManipulateOwn(p, inv, eq)
      BY <1>6, <2>1 DEF SplitDrop
    <3> QED BY <1>0, <3>1, ManipulateOwnTypeOK
  <2>2. CASE inv[s] # NoItem
    <3> DEFINE half == [inv[s] EXCEPT !.amount = HalfOf(inv[s])]
               rest == TakeUnits(inv, s, HalfOf(inv[s]))
    <3>1. ManipulateDrop(p, rest, eq, half)
      BY <1>6, <2>2 DEF SplitDrop
    <3>2. inv[s] \in Stack
      BY <1>0, <2>2 DEF Inventories
    <3>3. half \in Stack /\ rest \in Inventories
      BY <1>0, <3>2, HalfType, TakeUnitsType
    <3> QED BY <1>0, <3>1, <3>3, ManipulateDropTypeOK
  <2> QED BY <2>1, <2>2
<1>7. ASSUME NEW a \in Slot, NEW b \in Slot, SwapSlots(p, a, b) PROVE TypeOK'
  <2>1. CASE /\ CanMerge(inv, a, b) /\ CanGrow(inv[b], inv[a].amount)
             /\ ManipulateOwn(p, Merge(inv, a, b), eq)
    BY <1>0, <2>1, MergeType, ManipulateOwnTypeOK
  <2>2. CASE ManipulateOwn(p, Swap(inv, a, b), eq)
    BY <1>0, <2>2, SwapType, ManipulateOwnTypeOK
  <2>3. CASE /\ panicked' \in {"overflow", "selfmerge"}
             /\ UNCHANGED <<tradeVars, itemVars, active>>
    BY <2>3 DEF TypeOK, tradeVars, itemVars
  <2> QED BY <1>7, <2>1, <2>2, <2>3 DEF SwapSlots
<1>8. ASSUME NEW a \in Slot, NEW b \in Slot, SplitSwap(p, a, b) PROVE TypeOK'
  <2>1. CASE inv[a] = NoItem
    <3>1. ManipulateOwn(p, inv, eq)
      BY <1>8, <2>1 DEF SplitSwap
    <3> QED BY <1>0, <3>1, ManipulateOwnTypeOK
  <2>2. CASE inv[a] # NoItem
    <3> DEFINE half == [kind |-> inv[a].kind, amount |-> HalfOf(inv[a])]
               rest == TakeUnits(inv, a, half.amount)
    <3>1. ManipulateOwn(p, InsertOrStackAt(rest, b, half), eq)
      BY <1>8, <2>2 DEF SplitSwap
    <3>2. inv[a] \in Stack
      BY <1>0, <2>2 DEF Inventories
    <3>3. half \in Stack /\ rest \in Inventories
      BY <1>0, <3>2, HalfType, TakeUnitsType
    <3>4. InsertOrStackAt(rest, b, half) \in Inventories
      BY <3>3, InsertType
    <3> QED BY <1>0, <3>1, <3>4, ManipulateOwnTypeOK
  <2> QED BY <2>1, <2>2
<1>9. ASSUME UseEquipped(p) PROVE TypeOK'
  <2>1. CASE ManipulateOwn(p, inv, eq)
    BY <1>0, <2>1, ManipulateOwnTypeOK
  <2>2. CASE eq # NoItem /\ Occupied(inv) # Slot /\ ManipulateOwn(p, Push(inv, eq), NoItem)
    <3>1. eq \in Stack /\ eq.kind \notin Stackable
      BY <1>0, <2>2, TradeAssumption DEF Wearable
    <3>2. Push(inv, eq) \in Inventories
      BY <1>0, <2>2, <3>1, PushFits
    <3>3. NoItem \in Wearable
      BY DEF Wearable
    <3> QED BY <2>2, <3>2, <3>3, ManipulateOwnTypeOK
  <2> QED BY <1>9, <2>1, <2>2 DEF UseEquipped
<1>10. ASSUME DropEquipped(p) PROVE TypeOK'
  <2>1. CASE eq = NoItem
    <3>1. ManipulateOwn(p, inv, NoItem)
      BY <1>10, <2>1 DEF DropEquipped
    <3>2. NoItem \in Wearable
      BY DEF Wearable
    <3> QED BY <1>0, <3>1, <3>2, ManipulateOwnTypeOK
  <2>2. CASE eq # NoItem
    <3>1. ManipulateDrop(p, inv, NoItem, eq)
      BY <1>10, <2>2 DEF DropEquipped
    <3>2. eq \in Stack /\ NoItem \in Wearable
      BY <1>0, <2>2 DEF Wearable
    <3> QED BY <1>0, <3>1, <3>2, ManipulateDropTypeOK
  <2> QED BY <2>1, <2>2
<1> QED BY <1>1, <1>2, <1>3, <1>4, <1>5, <1>6, <1>7, <1>8, <1>9, <1>10

\* A commit keeps the types, whatever it decides.
LEMMA CommitTypeOK ==
  ASSUME TypeOK, NEW id \in TradeId, NEW t \in PendingTrade,
         \A i \in Side : InGame(t.parties[i]), Commit(id, t)
  PROVE  TypeOK'
<1>1. trades' \in [TradeId -> PendingTrade \cup {NoTrade}]
  BY DEF Commit, TypeOK
<1>2. pack' \in [Char -> Inventories]
  <2>1. CASE pack' = pack
    BY <2>1 DEF TypeOK
  <2>2. CASE \E v, w \in Inventories :
               pack' = [pack EXCEPT ![active[t.parties[1]]] = v,
                                    ![active[t.parties[2]]] = w]
    <3> PICK v \in Inventories, w \in Inventories :
               pack' = [pack EXCEPT ![active[t.parties[1]]] = v,
                                    ![active[t.parties[2]]] = w]
      BY <2>2
    <3>1. [pack EXCEPT ![active[t.parties[1]]] = v] \in [Char -> Inventories]
      BY DEF TypeOK
    <3> QED BY <3>1
  <2>3. pack' = pack \/ \E v, w \in Inventories :
               pack' = [pack EXCEPT ![active[t.parties[1]]] = v,
                                    ![active[t.parties[2]]] = w]
    <3>1. SUFFICES ASSUME pack' # pack
                   PROVE  \E v, w \in Inventories :
                            pack' = [pack EXCEPT ![active[t.parties[1]]] = v,
                                                 ![active[t.parties[2]]] = w]
      OBVIOUS
    <3>2. PICK o1 \in OfferOrders(t, 1), o2 \in OfferOrders(t, 2) :
            LET after == <<PushAll(AfterGiving(t, 1), Given(t, 2, o2)),
                           PushAll(AfterGiving(t, 2), Given(t, 1, o1))>>
            IN  /\ \A i \in Side : after[i] \in Inventories
                /\ pack' = [pack EXCEPT ![active[t.parties[1]]] = after[1],
                                        ![active[t.parties[2]]] = after[2]]
      BY <3>1 DEF Commit
    <3>3. 1 \in Side /\ 2 \in Side
      BY DEF Side
    <3> QED BY <3>2, <3>3
  <2> QED BY <2>1, <2>2, <2>3
<1>3. /\ DOMAIN finished' = TradeId
      /\ \A x \in TradeId : finished'[x].result \in Result
  <2>1. finished' = finished \/ \E r \in Result : \E g : finished' =
          [finished EXCEPT ![id] = [result |-> r, goods |-> g]]
    BY DEF Commit, Finish, Result
  <2> QED BY <2>1 DEF TypeOK
<1>4. panicked' \in {"no", "leftover", "overflow", "selfmerge"}
  BY DEF Commit, TypeOK
<1> QED BY <1>1, <1>2, <1>3, <1>4 DEF Commit, TypeOK

\* The parties of a trade that can be processed are in the game.
LEMMA ProcessFacts ==
  ASSUME TypeOK, NEW p \in Player, NEW id \in TradeId, CanProcess(p, id)
  PROVE  /\ trades[id] \in PendingTrade
         /\ PartyOf(trades[id], p) \in Side
         /\ \A ours \in BOOLEAN : OwnerSide(p, id, ours) \in Side
         /\ \A i \in Side : trades[id].parties[i] \in Player /\ InGame(trades[id].parties[i])
<1>1. trades[id] \in PendingTrade
  BY LiveType DEF CanProcess
<1>2. PartyOf(trades[id], p) \in Side
  BY <1>1, PartyOfType DEF CanProcess
<1>3. \A i \in Side : trades[id].parties[i] \in Player /\ InGame(trades[id].parties[i])
  BY <1>1 DEF CanProcess, Parties, PendingTrade
<1> QED BY <1>1, <1>2, <1>3 DEF OwnerSide, Side

\* The trade handlers keep the types.
LEMMA TradeTypeOK ==
  ASSUME TypeOK, TradeStep
  PROVE  TypeOK'
<1> PICK p \in Player :
    \/ \E q \in Player : BeginTrade(p, q)
    \/ \E id \in TradeId :
         \/ \E s \in Slot, n \in 1..MaxOffer, ours \in BOOLEAN :
              \/ ProcessAddItem(p, id, s, n, ours)
              \/ ProcessRemoveItem(p, id, s, n, ours)
         \/ \E phase \in Phase : ProcessAccept(p, id, phase)
         \/ ProcessDecline(p, id)
  BY DEF TradeStep
<1>1. ASSUME NEW q \in Player, BeginTrade(p, q) PROVE TypeOK'
  <2> DEFINE t == [parties      |-> <<p, q>>,
                   offers       |-> [i \in Side |-> [s \in {} |-> 0]],
                   phase        |-> "Mutate",
                   accept_flags |-> NoFlags]
  <2>1. next_id \in TradeId /\ next_id + 1 \in 0..MaxTrades
    BY <1>1, TradeAssumption DEF BeginTrade, TypeOK, TradeId
  <2>2. [s \in {} |-> 0] \in Offer
    <3>1. [s \in {} |-> 0] \in [{} -> 0..MaxAmount]
      OBVIOUS
    <3> QED BY <3>1 DEF Offer
  <2>3. t \in PendingTrade
    BY <2>2 DEF PendingTrade, Side, Phase, NoFlags
  <2>4. trades' \in [TradeId -> PendingTrade \cup {NoTrade}]
    BY <1>1, <2>3 DEF BeginTrade, TypeOK
  <2>5. entity_trades' \in [Player -> TradeId \cup {NoTrade}]
    BY <1>1, <2>1 DEF BeginTrade, TypeOK
  <2> QED BY <1>1, <2>1, <2>4, <2>5 DEF BeginTrade, TypeOK, itemVars
<1>2. ASSUME NEW id \in TradeId, NEW s \in Slot, NEW n \in 1..MaxOffer,
             NEW ours \in BOOLEAN, ProcessAddItem(p, id, s, n, ours)
      PROVE  TypeOK'
  <2> DEFINE who == OwnerSide(p, id, ours)
             t   == trades[id]
  <2>1. CanProcess(p, id)
    BY <1>2 DEF ProcessAddItem
  <2>2. t \in PendingTrade /\ who \in Side /\ InGame(t.parties[who]) /\ t.parties[who] \in Player
    BY <2>1, ProcessFacts
  <2>3. Owned(Inv(t.parties[who]), s) \in 0..MaxAmount
    BY <2>2, InvType, OwnedType
  <2>4. AddItem(t, who, s, n, Owned(Inv(t.parties[who]), s)) \in PendingTrade
    BY <2>2, <2>3, AddItemType
  <2>5. trades' \in [TradeId -> PendingTrade \cup {NoTrade}]
    BY <1>2, <2>4 DEF ProcessAddItem, TypeOK
  <2> QED BY <1>2, <2>5 DEF ProcessAddItem, TypeOK, itemVars
<1>3. ASSUME NEW id \in TradeId, NEW s \in Slot, NEW n \in 1..MaxOffer,
             NEW ours \in BOOLEAN, ProcessRemoveItem(p, id, s, n, ours)
      PROVE  TypeOK'
  <2>1. CanProcess(p, id)
    BY <1>3 DEF ProcessRemoveItem
  <2>2. RemoveItem(trades[id], OwnerSide(p, id, ours), s, n) \in PendingTrade
    BY <2>1, ProcessFacts, RemoveItemType
  <2>3. trades' \in [TradeId -> PendingTrade \cup {NoTrade}]
    BY <1>3, <2>2 DEF ProcessRemoveItem, TypeOK
  <2> QED BY <1>3, <2>3 DEF ProcessRemoveItem, TypeOK, itemVars
<1>4. ASSUME NEW id \in TradeId, NEW phase \in Phase, ProcessAccept(p, id, phase)
      PROVE  TypeOK'
  <2> DEFINE t == AcceptPhase(trades[id], PartyOf(trades[id], p), phase)
  <2>1. CanProcess(p, id)
    BY <1>4 DEF ProcessAccept
  <2>2. t \in PendingTrade
    BY <2>1, ProcessFacts, AcceptType
  <2>3. t.parties = trades[id].parties
    BY <2>1, ProcessFacts DEF AcceptPhase, ResetFlags, PendingTrade
  <2>4. CASE Commit(id, t)
    <3>1. \A i \in Side : InGame(t.parties[i])
      BY <2>1, <2>3, ProcessFacts
    <3> HIDE DEF t
    <3> QED BY <2>2, <2>4, <3>1, CommitTypeOK
  <2>5. CASE /\ trades' = [trades EXCEPT ![id] = t]
             /\ UNCHANGED <<itemVars, active, entity_trades, next_id, finished, panicked>>
    <3>1. trades' \in [TradeId -> PendingTrade \cup {NoTrade}]
      BY <2>2, <2>5 DEF TypeOK
    <3> QED BY <2>5, <3>1 DEF TypeOK, itemVars
  <2> QED BY <1>4, <2>4, <2>5 DEF ProcessAccept
<1>5. ASSUME NEW id \in TradeId, ProcessDecline(p, id) PROVE TypeOK'
  <2>1. trades' \in [TradeId -> PendingTrade \cup {NoTrade}]
    BY <1>5 DEF ProcessDecline, TypeOK
  <2>2. entity_trades' \in [Player -> TradeId \cup {NoTrade}]
    BY <1>5 DEF ProcessDecline, TypeOK
  <2>3. DOMAIN finished' = TradeId /\ \A x \in TradeId : finished'[x].result \in Result
    BY <1>5 DEF ProcessDecline, Finish, TypeOK, Result
  <2> QED BY <1>5, <2>1, <2>2, <2>3 DEF ProcessDecline, TypeOK, itemVars
<1> QED BY <1>1, <1>2, <1>3, <1>4, <1>5

\* Leaving and entering the game keep the types.
LEMMA SessionTypeOK ==
  ASSUME TypeOK, SessionStep
  PROVE  TypeOK'
<1> PICK p \in Player :
      ExitInGame(p) \/ (\E c \in Char : EnterInGame(p, c)) \/ Disconnect(p)
  BY DEF SessionStep
<1>1. /\ active' \in [Player -> Char \cup {NoChar, Gone}]
      /\ \A q \in Player : active'[q] \in Char => OwnerOf[active'[q]] = q
  BY TradeAssumption DEF ExitInGame, EnterInGame, Disconnect, TypeOK
<1>2. UNCHANGED <<tradeVars, itemVars, panicked>>
  BY DEF ExitInGame, EnterInGame, Disconnect
<1> QED BY <1>1, <1>2 DEF TypeOK, tradeVars, itemVars

LEMMA InitTypeOK == Init => TypeOK
<1> SUFFICES ASSUME Init PROVE TypeOK
  OBVIOUS
<1>1. /\ trades \in [TradeId -> PendingTrade \cup {NoTrade}]
      /\ entity_trades \in [Player -> TradeId \cup {NoTrade}]
      /\ next_id \in 0..MaxTrades
  BY TradeAssumption DEF Init
<1>2. /\ active \in [Player -> Char \cup {NoChar, Gone}]
      /\ \A p \in Player : active[p] \in Char => OwnerOf[active[p]] = p
  BY DEF Init
<1>3. /\ pack \in [Char -> Inventories]
      /\ worn \in [Char -> Wearable]
      /\ ground \in [Stack -> Nat]
      /\ blocks \subseteq Kind
  BY TradeAssumption DEF Init, Wearable
<1>4. /\ DOMAIN finished = TradeId
      /\ \A id \in TradeId : finished[id].result \in Result
      /\ panicked = "no"
  BY DEF Init, Result
<1> QED BY <1>1, <1>2, <1>3, <1>4 DEF TypeOK

LEMMA NextTypeOK == TypeOK /\ [Next]_vars => TypeOK'
<1> SUFFICES ASSUME TypeOK, [Next]_vars PROVE TypeOK'
  OBVIOUS
<1>1. CASE TradeStep
  BY <1>1, TradeTypeOK
<1>2. CASE InventoryStep
  BY <1>2, InventoryTypeOK
<1>3. CASE SessionStep
  BY <1>3, SessionTypeOK
<1>4. CASE UNCHANGED vars
  BY <1>4 DEF TypeOK, vars, tradeVars, itemVars
<1> QED BY <1>1, <1>2, <1>3, <1>4 DEF Next

\* The handlers keep every piece of the trade and inventory state well formed:
\* offers stay maps from slots to amounts, stacks stay within u32 and unequipping
\* never loses the item to an inventory without room.
THEOREM TypeCorrect == Spec => []TypeOK
BY InitTypeOK, NextTypeOK, PTL DEF Spec

-----------------------------------------------------------------------------
(* The inductive invariant *)

IInv == TypeOK /\ AtRest /\ LiveBelow /\ MappingSound

\* What one step does to the record of a trade: handlers of other trades leave
\* it alone, its own handlers keep its parties and, past the Mutate phase, its
\* offers.
Evolves(id) ==
  Live(id)' =>
    \/ /\ ~Live(id) /\ id = next_id /\ next_id' = id + 1
       /\ trades'[id].phase = "Mutate" /\ trades'[id].accept_flags = NoFlags
    \/ /\ Live(id)
       /\ trades'[id].parties = trades[id].parties
       /\ trades'[id].phase # "Complete"
       /\ \E i \in Side : ~trades'[id].accept_flags[i]
       /\ trades[id].phase = "Review" =>
            trades'[id].phase = "Review" /\ trades'[id].offers = trades[id].offers
       /\ trades'[id].offers # trades[id].offers => trades'[id].accept_flags = NoFlags

\* A trade at rest that is neither accepted nor edited by the step.
LEMMA UnchangedEvolves ==
  ASSUME IInv, NEW id \in TradeId,
         Live(id)' => \/ trades'[id] = trades[id]
                      \/ Live(id) /\ trades'[id] = ResetFlags(trades[id])
  PROVE  Evolves(id)
<1> SUFFICES ASSUME Live(id)' PROVE Evolves(id)
  BY DEF Evolves
<1>1. Live(id) /\ trades[id] \in PendingTrade
  BY LiveType DEF IInv, Live, ResetFlags
<1>2. trades[id].phase # "Complete" /\ \E i \in Side : ~trades[id].accept_flags[i]
  BY <1>1 DEF IInv, AtRest
<1>3. CASE trades'[id] = trades[id]
  BY <1>1, <1>2, <1>3 DEF Evolves
<1>4. CASE trades'[id] = ResetFlags(trades[id])
  BY <1>1, <1>2, <1>4 DEF Evolves, ResetFlags, NoFlags, Side, PendingTrade
<1> QED BY <1>3, <1>4

\* What accepting does to a trade at rest.
LEMMA AcceptEvolves ==
  ASSUME NEW t \in PendingTrade, NEW who \in Side, NEW phase,
         t.phase # "Complete", AcceptPhase(t, who, phase).phase # "Complete"
  PROVE  LET u == AcceptPhase(t, who, phase)
         IN  /\ u.parties = t.parties /\ u.offers = t.offers
             /\ \E i \in Side : ~u.accept_flags[i]
             /\ t.phase = "Review" => u.phase = "Review"
BY DEF AcceptPhase, ResetFlags, NoFlags, NextPhase, PendingTrade, Phase, Side

\* What editing does to a trade.
LEMMA EditEvolves ==
  ASSUME NEW t \in PendingTrade, NEW who \in Side, NEW s, NEW delta, NEW owned,
         NEW u \in {AddItem(t, who, s, delta, owned), RemoveItem(t, who, s, delta)}
  PROVE  \/ u = t
         \/ /\ t.phase = "Mutate" /\ u.parties = t.parties /\ u.phase = "Mutate"
            /\ u.accept_flags = NoFlags
<1>1. CASE u = AddItem(t, who, s, delta, owned)
  BY <1>1 DEF AddItem, ResetFlags, PendingTrade
<1>2. CASE u = RemoveItem(t, who, s, delta)
  BY <1>2 DEF RemoveItem, ResetFlags, PendingTrade
<1> QED BY <1>1, <1>2

LEMMA TradeEvolves ==
  ASSUME IInv, TradeStep, NEW id \in TradeId
  PROVE  Evolves(id)
<1> PICK p \in Player :
    \/ \E q \in Player : BeginTrade(p, q)
    \/ \E x \in TradeId :
         \/ \E s \in Slot, n \in 1..MaxOffer, ours \in BOOLEAN :
              \/ ProcessAddItem(p, x, s, n, ours)
              \/ ProcessRemoveItem(p, x, s, n, ours)
         \/ \E phase \in Phase : ProcessAccept(p, x, phase)
         \/ ProcessDecline(p, x)
  BY DEF TradeStep
<1>t. TypeOK
  BY DEF IInv
<1>1. ASSUME NEW q \in Player, BeginTrade(p, q) PROVE Evolves(id)
  <2>1. CASE id = next_id
    <3>1. ~Live(id)
      BY <2>1, <1>t DEF IInv, LiveBelow, TypeOK
    <3>2. /\ trades'[id].phase = "Mutate" /\ trades'[id].accept_flags = NoFlags
          /\ next_id' = id + 1
      BY <1>1, <1>t, <2>1 DEF BeginTrade, TypeOK
    <3> QED BY <2>1, <3>1, <3>2 DEF Evolves
  <2>2. CASE id # next_id
    <3>1. trades'[id] = trades[id]
      BY <1>1, <1>t, <2>2 DEF BeginTrade, TypeOK
    <3> QED BY <3>1, UnchangedEvolves
  <2> QED BY <2>1, <2>2
<1>2. ASSUME NEW x \in TradeId, NEW s \in Slot, NEW n \in 1..MaxOffer,
             NEW ours \in BOOLEAN,
             ProcessAddItem(p, x, s, n, ours) \/ ProcessRemoveItem(p, x, s, n, ours)
      PROVE  Evolves(id)
  <2> DEFINE who == OwnerSide(p, x, ours)
             own == Owned(Inv(trades[x].parties[who]), s)
  <2>1. trades[x] \in PendingTrade /\ who \in Side /\ Live(x)
    BY <1>2, <1>t, ProcessFacts DEF ProcessAddItem, ProcessRemoveItem, CanProcess
  <2>2. PICK u \in {AddItem(trades[x], who, s, n, own), RemoveItem(trades[x], who, s, n)} :
          trades' = [trades EXCEPT ![x] = u]
    BY <1>2 DEF ProcessAddItem, ProcessRemoveItem
  <2>3. CASE id # x \/ u = trades[x]
    <3>1. trades'[id] = trades[id]
      BY <2>2, <2>3, <1>t DEF TypeOK
    <3> QED BY <3>1, UnchangedEvolves
  <2>4. CASE id = x /\ u # trades[x]
    <3>1. trades'[id] = u
      BY <2>2, <2>4, <1>t DEF TypeOK
    <3>2. /\ trades[id].phase = "Mutate" /\ u.parties = trades[id].parties
          /\ u.phase = "Mutate" /\ u.accept_flags = NoFlags
      <4> HIDE DEF who, own
      <4> QED BY SMTT(60), <2>1, <2>2, <2>4, EditEvolves
    <3> QED BY <2>1, <2>4, <3>1, <3>2 DEF Evolves, NoFlags, Side
  <2> QED BY <2>3, <2>4
<1>3. ASSUME NEW x \in TradeId, NEW phase \in Phase, ProcessAccept(p, x, phase)
      PROVE  Evolves(id)
  <2> DEFINE who == PartyOf(trades[x], p)
             u   == AcceptPhase(trades[x], who, phase)
  <2>1. trades[x] \in PendingTrade /\ who \in Side /\ Live(x)
    BY <1>3, <1>t, ProcessFacts DEF ProcessAccept, CanProcess
  <2>2. trades' = [trades EXCEPT ![x] = IF u.phase = "Complete" THEN NoTrade ELSE u]
    BY ZenonT(60), <1>3 DEF ProcessAccept, Commit
  <2>3. CASE id # x
    <3>1. trades'[id] = trades[id]
      BY <2>2, <2>3, <1>t DEF TypeOK
    <3> QED BY <3>1, UnchangedEvolves
  <2>4. CASE id = x /\ u.phase = "Complete"
    BY <2>2, <2>4, <1>t DEF Evolves, Live, TypeOK
  <2>5. CASE id = x /\ u.phase # "Complete"
    <3>1. trades'[id] = u
      BY <2>2, <2>5, <1>t DEF TypeOK
    <3>2. trades[x].phase # "Complete"
      BY <2>1 DEF IInv, AtRest
    <3>3. /\ u.parties = trades[x].parties /\ u.offers = trades[x].offers
          /\ \E i \in Side : ~u.accept_flags[i]
          /\ trades[x].phase = "Review" => u.phase = "Review"
      <4> HIDE DEF who
      <4> QED BY <2>1, <2>5, <3>2, AcceptEvolves
    <3> HIDE DEF u
    <3> QED BY <2>1, <2>5, <3>1, <3>3 DEF Evolves
  <2> QED BY <2>3, <2>4, <2>5
<1>4. ASSUME NEW x \in TradeId, ProcessDecline(p, x) PROVE Evolves(id)
  <2>1. Live(id)' => trades'[id] = trades[id]
    BY <1>4, <1>t DEF ProcessDecline, TypeOK, Live
  <2> QED BY <2>1, UnchangedEvolves
<1> QED BY <1>1, <1>2, <1>3, <1>4

\* What a manipulation by p can change: its own inventory and, in the Mutate
\* phase, the flags of its trade.
Manipulated(p) ==
  /\ InGame(p) /\ ~InImmutableTrade(p)
  /\ trades' = IF InMutableTrade(p) THEN ImplicitMutation(p) ELSE trades
  /\ UNCHANGED <<entity_trades, next_id, active>>
  /\ \A c \in Char : c # active[p] => pack'[c] = pack[c]

Untouched == UNCHANGED <<trades, entity_trades, next_id, active, pack>>

LEMMA InventoryFrame ==
  ASSUME TypeOK, InventoryStep
  PROVE  Untouched \/ \E p \in Player : Manipulated(p)
<1>1. ASSUME NEW p \in Player, NEW inv, NEW equipped, Manipulate(p, inv, equipped)
      PROVE  Manipulated(p)
  BY <1>1 DEF Manipulate, Manipulated, TypeOK
<1>2. ASSUME NEW p \in Player, NEW inv, NEW equipped, ManipulateOwn(p, inv, equipped)
      PROVE  Manipulated(p)
  BY <1>1, <1>2 DEF ManipulateOwn
<1>3. ASSUME NEW p \in Player, NEW inv, NEW equipped, NEW i, ManipulateDrop(p, inv, equipped, i)
      PROVE  Manipulated(p)
  BY <1>1, <1>3 DEF ManipulateDrop
<1>4. ASSUME NEW p \in Player, NEW i \in Stack, Pickup(p, i) PROVE Manipulated(p)
  BY <1>1, <1>2, <1>4 DEF Pickup
<1>5. ASSUME NEW p \in Player, NEW k \in Kind, Collect(p, k) PROVE Manipulated(p)
  BY <1>1, <1>2, <1>5 DEF Collect
<1>6. ASSUME NEW p \in Player, NEW s \in Slot, Use(p, s) PROVE Manipulated(p)
  BY <1>2, <1>6 DEF Use
<1>7. ASSUME NEW p \in Player, NEW s \in Slot, SwapEquipped(p, s) PROVE Manipulated(p)
  BY <1>2, <1>7 DEF SwapEquipped
<1>8. ASSUME NEW p \in Player, NEW s \in Slot, Drop(p, s) \/ SplitDrop(p, s)
      PROVE  Manipulated(p)
  BY <1>2, <1>3, <1>8 DEF Drop, SplitDrop
<1>9. ASSUME NEW p \in Player, NEW a \in Slot, NEW b \in Slot, SwapSlots(p, a, b)
      PROVE  Manipulated(p) \/ Untouched
  <2>1. CASE UNCHANGED <<tradeVars, itemVars, active>>
    BY <2>1 DEF tradeVars, itemVars, Untouched
  <2> QED BY <1>2, <1>9, <2>1 DEF SwapSlots
<1>10. ASSUME NEW p \in Player, NEW a \in Slot, NEW b \in Slot, SplitSwap(p, a, b)
       PROVE  Manipulated(p)
  BY <1>2, <1>10 DEF SplitSwap
<1>11. ASSUME NEW p \in Player, UseEquipped(p) PROVE Manipulated(p)
  BY <1>2, <1>11 DEF UseEquipped
<1>12. ASSUME NEW p \in Player, DropEquipped(p) PROVE Manipulated(p)
  BY <1>2, <1>3, <1>12 DEF DropEquipped
<1> QED
  BY <1>4, <1>5, <1>6, <1>7, <1>8, <1>9, <1>10, <1>11, <1>12 DEF InventoryStep

\* Outside the trade handlers a trade changes only by losing its flags.
LEMMA OtherEvolves ==
  ASSUME IInv, InventoryStep \/ SessionStep \/ UNCHANGED vars, NEW id \in TradeId
  PROVE  Evolves(id)
<1>1. \/ trades' = trades
      \/ \E p \in Player : InMutableTrade(p) /\ trades' = ImplicitMutation(p)
  <2>1. CASE InventoryStep
    BY <2>1, InventoryFrame DEF IInv, Manipulated, Untouched
  <2>2. CASE SessionStep \/ UNCHANGED vars
    BY <2>2 DEF SessionStep, ExitInGame, EnterInGame, Disconnect, vars, tradeVars
  <2> QED BY <2>1, <2>2
<1>2. CASE trades' = trades
  BY <1>2, UnchangedEvolves
<1>3. ASSUME NEW p \in Player, InMutableTrade(p), trades' = ImplicitMutation(p)
      PROVE  Evolves(id)
  <2>1. \/ trades'[id] = trades[id]
        \/ Live(id) /\ trades'[id] = ResetFlags(trades[id])
    BY <1>3 DEF ImplicitMutation, InMutableTrade, InTrade, IInv, TypeOK, Live
  <2> QED BY <2>1, UnchangedEvolves
<1> QED BY <1>1, <1>2, <1>3

LEMMA NextEvolves ==
  ASSUME IInv, [Next]_vars, NEW id \in TradeId
  PROVE  Evolves(id)
BY TradeEvolves, OtherEvolves DEF Next

\* How the counter of ids and the map from entities to trades move.
LEMMA MappingStep ==
  ASSUME IInv, [Next]_vars
  PROVE  \/ UNCHANGED <<next_id, entity_trades>>
         \/ /\ next_id' = next_id
            /\ \A p \in Player : entity_trades'[p] \in {entity_trades[p], NoTrade}
         \/ /\ next_id' = next_id + 1
            /\ \A p \in Player :
                 \/ entity_trades'[p] = entity_trades[p]
                 \/ entity_trades'[p] = next_id /\ p \in Parties(trades'[next_id])
<1> DEFINE Same     == UNCHANGED <<next_id, entity_trades>>
           Fewer    == /\ next_id' = next_id
                       /\ \A p \in Player : entity_trades'[p] \in {entity_trades[p], NoTrade}
           OneMore  == /\ next_id' = next_id + 1
                       /\ \A p \in Player :
                            \/ entity_trades'[p] = entity_trades[p]
                            \/ /\ entity_trades'[p] = next_id
                               /\ p \in Parties(trades'[next_id])
<1>t. TypeOK
  BY DEF IInv
<1>1. CASE InventoryStep
  BY <1>1, <1>t, InventoryFrame DEF Manipulated, Untouched
<1>2. CASE SessionStep \/ UNCHANGED vars
  BY <1>2 DEF SessionStep, ExitInGame, EnterInGame, Disconnect, vars, tradeVars
<1>3. ASSUME NEW p \in Player, NEW q \in Player, BeginTrade(p, q) PROVE OneMore
  <2>1. next_id \in TradeId
    BY <1>3, <1>t, TradeAssumption DEF BeginTrade, TypeOK, TradeId
  <2>2. trades'[next_id].parties = <<p, q>>
    BY <1>3, <1>t, <2>1 DEF BeginTrade, TypeOK
  <2>3. p \in Parties(trades'[next_id]) /\ q \in Parties(trades'[next_id])
    BY <2>2 DEF Parties, Side
  <2> QED BY <1>3, <1>t, <2>3 DEF BeginTrade, TypeOK
<1>4. ASSUME NEW p \in Player, NEW x \in TradeId, NEW s \in Slot, NEW n \in 1..MaxOffer,
             NEW ours \in BOOLEAN,
             ProcessAddItem(p, x, s, n, ours) \/ ProcessRemoveItem(p, x, s, n, ours)
      PROVE  Same
  BY <1>4 DEF ProcessAddItem, ProcessRemoveItem
<1>5. ASSUME NEW p \in Player, NEW x \in TradeId, NEW phase \in Phase,
             ProcessAccept(p, x, phase)
      PROVE  Same
  BY <1>5 DEF ProcessAccept, Commit
<1>6. ASSUME NEW p \in Player, NEW x \in TradeId, ProcessDecline(p, x) PROVE Fewer
  BY <1>6 DEF ProcessDecline
<1>7. CASE TradeStep
  <2> HIDE DEF Same, Fewer, OneMore
  <2>1. Same \/ Fewer \/ OneMore
    BY <1>3, <1>4, <1>5, <1>6, <1>7 DEF TradeStep
  <2> QED BY <2>1 DEF Same, Fewer, OneMore
<1> QED BY <1>1, <1>2, <1>7 DEF Next

LEMMA InitIInv == Init => IInv
BY InitTypeOK DEF Init, IInv, AtRest, LiveBelow, MappingSound, Live, InTrade

LEMMA NextIInv ==
  ASSUME IInv, [Next]_vars
  PROVE  IInv'
<1>t. TypeOK /\ TypeOK'
  BY NextTypeOK DEF IInv
<1>n. next_id \in Nat /\ next_id' \in {next_id, next_id + 1}
  BY <1>t, MappingStep DEF TypeOK
<1>1. AtRest'
  <2> SUFFICES ASSUME NEW id \in TradeId, Live(id)'
               PROVE  /\ trades'[id].phase # "Complete"
                      /\ \E i \in Side : ~trades'[id].accept_flags[i]
    BY DEF AtRest
  <2> QED BY NextEvolves DEF Evolves, NoFlags, Side
<1>2. LiveBelow'
  <2> SUFFICES ASSUME NEW id \in TradeId, Live(id)' PROVE id < next_id'
    BY DEF LiveBelow
  <2>1. id \in Int /\ (Live(id) => id < next_id)
    BY DEF IInv, LiveBelow, TradeId
  <2> QED BY <1>n, <2>1, NextEvolves DEF Evolves
<1>3. MappingSound'
  <2> SUFFICES ASSUME NEW p \in Player, entity_trades'[p] # NoTrade
               PROVE  /\ entity_trades'[p] < next_id'
                      /\ InTrade(p)' => p \in Parties(trades'[entity_trades'[p]])
    BY DEF MappingSound
  <2> PICK id \in TradeId : id = entity_trades'[p]
    BY <1>t DEF TypeOK
  <2>1. id \in Int
    BY DEF TradeId
  <2>2. CASE id = entity_trades[p]
    <3>1. id < next_id
      BY <2>2 DEF IInv, MappingSound
    <3>2. ASSUME Live(id)'
          PROVE  p \in Parties(trades'[id])
      <4>1. Live(id) /\ trades'[id].parties = trades[id].parties
        BY <2>1, <3>1, <3>2, <1>n, NextEvolves DEF Evolves
      <4>2. p \in Parties(trades[id])
        BY <2>2, <4>1 DEF IInv, MappingSound, InTrade
      <4> QED BY <4>1, <4>2 DEF Parties
    <3>3. InTrade(p)' => Live(id)'
      BY DEF InTrade
    <3> QED BY <1>n, <2>1, <3>1, <3>2, <3>3
  <2>3. CASE id # entity_trades[p]
    <3>1. id = next_id /\ next_id' = next_id + 1 /\ p \in Parties(trades'[next_id])
      BY <2>3, MappingStep
    <3> QED BY <1>n, <3>1
  <2> QED BY <2>2, <2>3
<1> QED BY <1>t, <1>1, <1>2, <1>3 DEF IInv

LEMMA Invariance == Spec => []IInv
BY InitIInv, NextIInv, PTL DEF Spec

\* Two flags never survive an event: the handler that sets the second one moves
\* the trade to its next phase, and a complete trade is gone with its handler.
THEOREM AtRestAlways == Spec => []AtRest
<1>1. IInv => AtRest
  BY DEF IInv
<1> QED BY <1>1, Invariance, PTL

\* However trades are begun, declined, committed and abandoned, entity_trades
\* names for an entity a trade of that entity or one that no longer exists.
THEOREM MappingAlways == Spec => []MappingSound
<1>1. IInv => MappingSound
  BY DEF IInv
<1> QED BY <1>1, Invariance, PTL

\* What can happen to the inventory of a party of an undisturbed live trade:
\* nothing, unless the party itself manipulates it past the gate.
LEMMA PartyPack ==
  ASSUME IInv, [Next]_vars, NEW id \in TradeId, Live(id), trades'[id] # NoTrade,
         Undisturbed(id), NEW p \in Parties(trades[id])
  PROVE  Inv(p)' = Inv(p) \/ Manipulated(p)
<1>t. TypeOK
  BY DEF IInv
<1>1. /\ trades[id] \in PendingTrade /\ p \in Player
      /\ InGame(p) /\ active[p] \in Char /\ active'[p] = active[p]
      /\ entity_trades[p] = id
  BY <1>t, LiveType DEF Undisturbed, Parties, PendingTrade, InGame
<1>2. SUFFICES ASSUME ~Manipulated(p) PROVE pack'[active[p]] = pack[active[p]]
  BY <1>1 DEF Inv
<1>3. \A q \in Player : active[q] = active[p] => q = p
  BY <1>1, <1>t DEF TypeOK
<1>4. CASE InventoryStep
  BY <1>1, <1>2, <1>3, <1>4, <1>t, InventoryFrame DEF Untouched, Manipulated
<1>5. CASE SessionStep \/ UNCHANGED vars
  BY <1>5 DEF SessionStep, ExitInGame, EnterInGame, Disconnect, vars, itemVars
<1>6. ASSUME NEW q \in Player, NEW x \in TradeId, NEW phase \in Phase,
             ProcessAccept(q, x, phase)
      PROVE  pack'[active[p]] = pack[active[p]]
  <2> DEFINE u == AcceptPhase(trades[x], PartyOf(trades[x], q), phase)
  <2>1. CASE u.phase # "Complete"
    BY <1>6, <2>1 DEF ProcessAccept, itemVars
  <2>2. CASE u.phase = "Complete"
    <3>1. Commit(x, u)
      BY SMTT(60), <1>6, <2>2 DEF ProcessAccept
    <3>2. x # id
      BY <3>1, <1>t DEF Commit, TypeOK
    <3>3. /\ Live(x) /\ trades[x] \in PendingTrade
          /\ \A r \in Parties(trades[x]) : InGame(r) /\ r \in Player
      BY <1>6, <1>t, LiveType DEF ProcessAccept, CanProcess, Parties, PendingTrade
    <3>4. p \notin Parties(trades[x])
      BY <3>2, <3>3 DEF Undisturbed
    <3>5. u.parties = trades[x].parties
      BY <3>3 DEF AcceptPhase, ResetFlags, PendingTrade
    <3>6. \A i \in Side : active[u.parties[i]] # active[p]
      BY <1>3, <3>3, <3>4, <3>5 DEF Parties
    <3>7. pack' = pack \/ \E a, b : pack' = [pack EXCEPT ![active[u.parties[1]]] = a,
                                                       ![active[u.parties[2]]] = b]
      <4> HIDE DEF u
      <4> QED BY <3>1 DEF Commit
    <3> HIDE DEF u
    <3> QED BY <1>1, <1>t, <3>6, <3>7 DEF Side, TypeOK
  <2> QED BY <2>1, <2>2
<1>7. CASE TradeStep
  BY <1>6, <1>7 DEF TradeStep, BeginTrade, ProcessAddItem, ProcessRemoveItem,
                    ProcessDecline, itemVars
<1> QED BY <1>4, <1>5, <1>7 DEF Next

\* In the Review phase of an undisturbed trade no step changes the terms.
LEMMA ReviewStep ==
  ASSUME IInv, [Next]_vars, NEW id \in TradeId,
         Live(id), trades[id].phase = "Review", trades'[id] # NoTrade, Undisturbed(id)
  PROVE  TermsOf(id)' = TermsOf(id)
<1>1. trades[id] \in PendingTrade
  BY LiveType DEF IInv
<1>2. trades'[id].parties = trades[id].parties /\ trades'[id].offers = trades[id].offers
  BY NextEvolves DEF Evolves, Live
<1>3. ASSUME NEW p \in Parties(trades[id])
      PROVE  Inv(p)' = Inv(p)
  <2>1. InImmutableTrade(p)
    BY NoTradeAssumption DEF Undisturbed, InImmutableTrade, InTrade
  <2> QED BY <2>1, PartyPack DEF Manipulated
<1>4. ASSUME NEW i \in Side
      PROVE  pack'[active'[trades[id].parties[i]]] = pack[active[trades[id].parties[i]]]
  <2>1. trades[id].parties[i] \in Parties(trades[id])
    BY DEF Parties
  <2> QED BY <1>3, <2>1 DEF Inv
<1> QED BY <1>2, <1>4 DEF TermsOf, Inv

\* The gate of handle_inventory does its work: what two parties see in the
\* Review phase of their only trade is what the commit will move, whatever they
\* and everybody else do in the meantime.
THEOREM ReviewIsSealed == Spec => SealedTermsKept
<1>1. IInv /\ [Next]_vars =>
        [\A id \in TradeId :
           /\ Live(id) /\ trades[id].phase = "Review"
           /\ trades'[id] # NoTrade /\ Undisturbed(id)
           => TermsOf(id)' = TermsOf(id)]_vars
  BY ReviewStep
<1> QED BY <1>1, Invariance, PTL DEF Spec, SealedTermsKept

\* An acceptance given in the Mutate phase never outlives a change of the offers
\* or of either party's inventory.
THEOREM AcceptanceStaysFresh == Spec => AcceptanceIsFresh
<1>1. ASSUME IInv, [Next]_vars, NEW id \in TradeId,
             Live(id), trades[id].phase = "Mutate", trades'[id] # NoTrade, Undisturbed(id),
             \/ trades'[id].offers # trades[id].offers
             \/ \E p \in Parties(trades[id]) : Inv(p)' # Inv(p)
      PROVE  trades'[id].accept_flags = NoFlags
  <2>1. CASE trades'[id].offers # trades[id].offers
    BY <1>1, <2>1, NextEvolves DEF Evolves, Live
  <2>2. ASSUME NEW p \in Parties(trades[id]), Inv(p)' # Inv(p)
        PROVE  trades'[id].accept_flags = NoFlags
    <3>1. Manipulated(p)
      BY <1>1, <2>2, PartyPack
    <3>2. entity_trades[p] = id /\ InMutableTrade(p)
      BY <1>1, <2>2, NoTradeAssumption DEF Undisturbed, InMutableTrade, InTrade
    <3>3. trades' = [trades EXCEPT ![id] = ResetFlags(trades[id])]
      BY <3>1, <3>2 DEF Manipulated, ImplicitMutation
    <3>4. trades[id] \in PendingTrade
      BY <1>1, LiveType DEF IInv
    <3> QED BY <1>1, <3>3, <3>4 DEF IInv, TypeOK, ResetFlags, PendingTrade
  <2> QED BY <1>1, <2>1, <2>2
<1>2. IInv /\ [Next]_vars =>
        [\A id \in TradeId :
           /\ Live(id) /\ trades[id].phase = "Mutate"
           /\ trades'[id] # NoTrade /\ Undisturbed(id)
           /\ \/ trades'[id].offers # trades[id].offers
              \/ \E p \in Parties(trades[id]) : Inv(p)' # Inv(p)
           => trades'[id].accept_flags = NoFlags]_vars
  BY <1>1
<1> QED BY <1>2, Invariance, PTL DEF Spec, AcceptanceIsFresh


-----------------------------------------------------------------------------
(* Units of a kind in an inventory *)

Unit(i, k) == IF i # NoItem /\ i.kind = k THEN i.amount ELSE 0

UnitsAt(inv, k) == [s \in Slot |-> Unit(inv[s], k)]

Units(inv, k) == SumOver(UnitsAt(inv, k), Slot)

LEMMA SlotFinite == IsFiniteSet(Slot) /\ Cardinality(Slot) = NSlots
BY FS_Interval, NSlotsAssumption DEF Slot

LEMMA UnitType ==
  ASSUME NEW i \in Stack \cup {NoItem}, NEW k
  PROVE  Unit(i, k) \in Nat /\ Unit(i, k) <= MaxAmount
BY MaxAmountAssumption DEF Unit, Stack

LEMMA UnitsAtType ==
  ASSUME NEW inv \in Inventories, NEW k, NEW s \in Slot
  PROVE  UnitsAt(inv, k)[s] = Unit(inv[s], k) /\ UnitsAt(inv, k)[s] \in Nat
BY UnitType, MaxAmountAssumption DEF UnitsAt, Inventories

LEMMA UnitsType ==
  ASSUME NEW inv \in Inventories, NEW k
  PROVE  Units(inv, k) \in Nat
BY UnitsAtType, SlotFinite, SumNat DEF Units

\* The same inventory but for one slot, or two.
SameBut(new, inv, T) == new \in Inventories /\ \A s \in Slot \ T : new[s] = inv[s]

LEMMA UnitsPut ==
  ASSUME NEW inv \in Inventories, NEW s \in Slot, NEW new, SameBut(new, inv, {s}), NEW k
  PROVE  Units(new, k) = Units(inv, k) - Unit(inv[s], k) + Unit(new[s], k)
<1> DEFINE f == UnitsAt(inv, k)
           g == UnitsAt(new, k)
<1>1. new \in Inventories /\ \A x \in Slot \ {s} : new[x] = inv[x]
  BY DEF SameBut
<1>2. \A x \in Slot : f[x] \in Int /\ f[x] = Unit(inv[x], k)
  BY UnitsAtType
<1>3. \A x \in Slot : g[x] \in Int /\ g[x] = Unit(new[x], k)
  BY <1>1, UnitsAtType
<1> HIDE DEF f, g
<1>4. \A x \in Slot \ {s} : g[x] = f[x]
  BY <1>1, <1>2, <1>3
<1>5. SumOver(g, Slot) = SumOver(f, Slot) - f[s] + g[s]
  BY <1>2, <1>3, <1>4, SlotFinite, SumUpdate
<1> QED BY <1>2, <1>3, <1>5 DEF Units, f, g

LEMMA UnitsPutTwo ==
  ASSUME NEW inv \in Inventories, NEW a \in Slot, NEW b \in Slot, a # b,
         NEW new, SameBut(new, inv, {a, b}), NEW k
  PROVE  Units(new, k) =
           Units(inv, k) - Unit(inv[a], k) - Unit(inv[b], k) + Unit(new[a], k) + Unit(new[b], k)
<1> DEFINE f == UnitsAt(inv, k)
           g == UnitsAt(new, k)
<1>1. new \in Inventories /\ \A x \in Slot \ {a, b} : new[x] = inv[x]
  BY DEF SameBut
<1>2. \A x \in Slot : f[x] \in Int /\ f[x] = Unit(inv[x], k)
  BY UnitsAtType
<1>3. \A x \in Slot : g[x] \in Int /\ g[x] = Unit(new[x], k)
  BY <1>1, UnitsAtType
<1> HIDE DEF f, g
<1>4. \A x \in Slot \ {a, b} : g[x] = f[x]
  BY <1>1, <1>2, <1>3
<1>5. SumOver(g, Slot) = SumOver(f, Slot) - f[a] - f[b] + g[a] + g[b]
  BY <1>2, <1>3, <1>4, SlotFinite, SumUpdateTwo
<1> QED BY <1>2, <1>3, <1>5 DEF Units, f, g

\* A slot holds no more than its inventory, and so do two.
LEMMA UnitsSlots ==
  ASSUME NEW inv \in Inventories, NEW a \in Slot, NEW k
  PROVE  /\ Unit(inv[a], k) <= Units(inv, k)
         /\ \A b \in Slot : a # b => Unit(inv[a], k) + Unit(inv[b], k) <= Units(inv, k)
<1> DEFINE f == UnitsAt(inv, k)
<1>1. \A s \in Slot : f[s] \in Nat /\ f[s] = Unit(inv[s], k)
  BY UnitsAtType
<1>2. f[a] <= SumOver(f, Slot) /\ \A b \in Slot : a # b => f[a] + f[b] <= SumOver(f, Slot)
  <2> HIDE DEF f
  <2> QED BY <1>1, SlotFinite, SumMembers
<1> QED BY <1>1, <1>2 DEF Units

(* What the operations do to the units *)

\* A stack that grows.
LEMMA GrowFacts ==
  ASSUME NEW i \in Stack, NEW j \in Stack, i.kind \in Stackable, CanGrow(i, j.amount)
  PROVE  /\ Grow(i, j.amount) \in Stack
         /\ Grow(i, j.amount).kind = i.kind
         /\ Grow(i, j.amount).amount = i.amount + j.amount
<1>1. j.amount \in Nat
  BY DEF Stack
<1>2. Grow(i, j.amount) \in Stack
  BY <1>1, GrowType
<1> QED BY <1>2 DEF Grow, Stack

\* push adds the item or refuses.
LEMMA PushUnits ==
  ASSUME NEW inv \in Inventories, NEW i \in Stack, NEW k, Push(inv, i) # Full
  PROVE  /\ Push(inv, i) \in Inventories
         /\ Units(Push(inv, i), k) = Units(inv, k) + Unit(i, k)
<1> DEFINE same  == {s \in Slot : i.kind \in Stackable /\ SameItem(inv[s], i)}
           empty == Slot \ Occupied(inv)
<1>0. Push(inv, i) \in Inventories
  BY PushType
<1>1. same \subseteq Nat /\ empty \subseteq Nat
  BY DEF Slot
<1>2. Unit(i, k) \in Nat /\ Units(inv, k) \in Nat
  BY UnitType, UnitsType
<1>3. CASE same # {}
  <2> DEFINE s == Min(same)
             j == Grow(inv[s], i.amount)
  <2>1. s \in same
    BY <1>1, <1>3, MinExists
  <2>2. inv[s] \in Stack /\ inv[s].kind \in Stackable /\ inv[s].kind = i.kind /\ inv[s] # NoItem
    BY <2>1 DEF Inventories, SameItem
  <2>3. CanGrow(inv[s], i.amount) /\ Push(inv, i) = [inv EXCEPT ![s] = j]
    BY <1>3 DEF Push
  <2>4. j \in Stack /\ j.kind = i.kind /\ j.amount = inv[s].amount + i.amount
    BY <2>2, <2>3, GrowFacts
  <2>5. Units(Push(inv, i), k) = Units(inv, k) - Unit(inv[s], k) + Unit(j, k)
    <3> HIDE DEF s, j
    <3>1. s \in Slot /\ Push(inv, i)[s] = j /\ SameBut(Push(inv, i), inv, {s})
      BY <1>0, <2>1, <2>3 DEF SameBut, Inventories
    <3> QED BY ZenonT(60), <3>1, UnitsPut
  <2>6. Unit(j, k) = Unit(inv[s], k) + Unit(i, k) /\ Unit(inv[s], k) \in Nat
    <3> HIDE DEF s, j
    <3>1. Unit(inv[s], k) \in Nat
      BY <2>2, UnitType
    <3>2. i # NoItem /\ j # NoItem
      BY <2>4, NoItemAssumption
    <3> QED BY <2>2, <2>4, <3>1, <3>2 DEF Unit
  <2> HIDE DEF s, j
  <2> QED BY <1>0, <1>2, <2>5, <2>6
<1>4. CASE same = {} /\ empty # {}
  <2> DEFINE s == Min(empty)
  <2>1. s \in Slot /\ inv[s] = NoItem
    BY <1>1, <1>4, MinExists DEF Occupied
  <2>2. Push(inv, i) = [inv EXCEPT ![s] = i]
    BY <1>4 DEF Push
  <2>3. Units(Push(inv, i), k) = Units(inv, k) - Unit(inv[s], k) + Unit(i, k)
    <3> HIDE DEF s
    <3>1. Push(inv, i)[s] = i /\ SameBut(Push(inv, i), inv, {s})
      BY <1>0, <2>1, <2>2 DEF SameBut, Inventories
    <3> QED BY <2>1, <3>1, UnitsPut
  <2>4. Unit(inv[s], k) = 0
    BY <2>1 DEF Unit
  <2> HIDE DEF s
  <2> QED BY <1>0, <1>2, <2>3, <2>4
<1>5. CASE same = {} /\ empty = {}
  BY <1>5 DEF Push
<1> QED BY <1>3, <1>4, <1>5

\* take removes the units asked for, or the whole item.
LEMMA TakeUnitsUnits ==
  ASSUME NEW inv \in Inventories, NEW s \in Slot, NEW n \in Nat, NEW k
  PROVE  Units(TakeUnits(inv, s, n), k) =
           Units(inv, k) - (IF inv[s] # NoItem /\ inv[s].kind = k
                              THEN IF n < inv[s].amount THEN n ELSE inv[s].amount
                              ELSE 0)
<1>0. TakeUnits(inv, s, n) \in Inventories /\ inv[s] \in Stack \cup {NoItem}
  BY TakeUnitsType DEF Inventories
<1>1. Units(inv, k) \in Nat /\ Unit(inv[s], k) \in Nat
  BY <1>0, UnitsType, UnitType
<1>2. CASE n < Owned(inv, s)
  <2> DEFINE j == [inv[s] EXCEPT !.amount = @ - n]
  <2>1. inv[s] \in Stack /\ inv[s] # NoItem /\ n < inv[s].amount
    BY <1>2 DEF Owned, Inventories
  <2>2. j \in Stack /\ j.kind = inv[s].kind /\ j.amount = inv[s].amount - n
    BY <2>1, MaxAmountAssumption DEF Stack
  <2>3. TakeUnits(inv, s, n) = [inv EXCEPT ![s] = j]
    BY <1>2 DEF TakeUnits
  <2>4. Units(TakeUnits(inv, s, n), k) = Units(inv, k) - Unit(inv[s], k) + Unit(j, k)
    <3> HIDE DEF j
    <3>1. TakeUnits(inv, s, n)[s] = j /\ SameBut(TakeUnits(inv, s, n), inv, {s})
      BY <1>0, <2>3 DEF SameBut, Inventories
    <3> QED BY <3>1, UnitsPut
  <2>5. j # NoItem /\ inv[s].amount \in Nat
    BY <2>1, <2>2, NoItemAssumption DEF Stack
  <2> HIDE DEF j
  <2> QED BY <1>1, <2>1, <2>2, <2>4, <2>5 DEF Unit
<1>3. CASE ~(n < Owned(inv, s))
  <2>1. TakeUnits(inv, s, n) = [inv EXCEPT ![s] = NoItem]
    BY <1>3 DEF TakeUnits, RemoveSlot
  <2>2. Units(TakeUnits(inv, s, n), k) = Units(inv, k) - Unit(inv[s], k) + Unit(NoItem, k)
    <3>1. TakeUnits(inv, s, n)[s] = NoItem /\ SameBut(TakeUnits(inv, s, n), inv, {s})
      BY <1>0, <2>1 DEF SameBut, Inventories
    <3> QED BY ZenonT(60), <3>1, UnitsPut
  <2>3. inv[s] # NoItem => inv[s].amount \in Nat /\ ~(n < inv[s].amount)
    BY <1>3 DEF Owned, Inventories, Stack
  <2> QED BY <1>1, <2>2, <2>3 DEF Unit
<1> QED BY <1>2, <1>3

\* merge_stack_into and swap_slots keep the units.
LEMMA MergeUnits ==
  ASSUME NEW inv \in Inventories, NEW a \in Slot, NEW b \in Slot, a # b,
         CanMerge(inv, a, b), CanGrow(inv[b], inv[a].amount), NEW k
  PROVE  Units(Merge(inv, a, b), k) = Units(inv, k)
<1> DEFINE j == Grow(inv[b], inv[a].amount)
<1>1. /\ inv[a] \in Stack /\ inv[b] \in Stack /\ inv[b].kind \in Stackable
      /\ inv[a].kind = inv[b].kind
  BY DEF CanMerge, SameItem, Inventories
<1>2. j \in Stack /\ j.kind = inv[b].kind /\ j.amount = inv[b].amount + inv[a].amount
  BY <1>1, GrowFacts
<1>3. Merge(inv, a, b) = [inv EXCEPT ![b] = j, ![a] = NoItem]
  BY DEF Merge, Inventories
<1>4. Units(Merge(inv, a, b), k) =
        Units(inv, k) - Unit(inv[a], k) - Unit(inv[b], k) + Unit(NoItem, k) + Unit(j, k)
  <2> HIDE DEF j
  <2>1. /\ Merge(inv, a, b)[a] = NoItem /\ Merge(inv, a, b)[b] = j
        /\ SameBut(Merge(inv, a, b), inv, {a, b})
    BY <1>3, MergeType DEF SameBut, Inventories
  <2> QED BY <2>1, UnitsPutTwo
<1>5. /\ Unit(inv[a], k) \in Nat /\ Unit(inv[b], k) \in Nat /\ Units(inv, k) \in Nat
      /\ Unit(NoItem, k) = 0
  BY <1>1, UnitType, UnitsType DEF Unit
<1>6. Unit(j, k) = Unit(inv[a], k) + Unit(inv[b], k)
  <2> HIDE DEF j
  <2>1. /\ j # NoItem /\ inv[a] # NoItem /\ inv[b] # NoItem
        /\ inv[a].amount \in Nat /\ inv[b].amount \in Nat
    BY <1>1, <1>2, NoItemAssumption DEF Stack
  <2> QED BY <1>1, <1>2, <2>1 DEF Unit
<1> HIDE DEF j
<1> QED BY <1>4, <1>5, <1>6

LEMMA SwapUnits ==
  ASSUME NEW inv \in Inventories, NEW a \in Slot, NEW b \in Slot, a # b, NEW k
  PROVE  Units(Swap(inv, a, b), k) = Units(inv, k)
<1>1. inv[a] \in Stack \cup {NoItem} /\ inv[b] \in Stack \cup {NoItem}
  BY DEF Inventories
<1>2. Units(Swap(inv, a, b), k) =
        Units(inv, k) - Unit(inv[a], k) - Unit(inv[b], k) + Unit(inv[b], k) + Unit(inv[a], k)
  <2>1. /\ Swap(inv, a, b)[a] = inv[b] /\ Swap(inv, a, b)[b] = inv[a]
        /\ SameBut(Swap(inv, a, b), inv, {a, b})
    BY SwapType DEF SameBut, Swap, Inventories
  <2> QED BY <2>1, UnitsPutTwo
<1>3. Unit(inv[a], k) \in Nat /\ Unit(inv[b], k) \in Nat /\ Units(inv, k) \in Nat
  BY <1>1, UnitType, UnitsType
<1> QED BY <1>2, <1>3

\* insert_or_stack_at adds no more than the item.
LEMMA InsertUnits ==
  ASSUME NEW inv \in Inventories, NEW s \in Slot, NEW i \in Stack, NEW k
  PROVE  Units(InsertOrStackAt(inv, s, i), k) <= Units(inv, k) + Unit(i, k)
<1>0. InsertOrStackAt(inv, s, i) \in Inventories /\ inv[s] \in Stack \cup {NoItem}
  BY InsertType DEF Inventories
<1>1. Unit(inv[s], k) \in Nat /\ Unit(i, k) \in Nat /\ Units(inv, k) \in Nat
  BY <1>0, UnitType, UnitsType
<1>2. CASE i.kind \in Stackable /\ SameItem(inv[s], i) /\ CanGrow(inv[s], i.amount)
  <2> DEFINE j == Grow(inv[s], i.amount)
  <2>1. inv[s] \in Stack /\ inv[s] # NoItem /\ inv[s].kind = i.kind
    BY <1>2 DEF SameItem, Inventories
  <2>2. j \in Stack /\ j.kind = i.kind /\ j.amount = inv[s].amount + i.amount
    <3>1. inv[s].kind \in Stackable /\ CanGrow(inv[s], i.amount)
      BY <1>2, <2>1
    <3> QED BY <2>1, <3>1, GrowFacts
  <2>3. InsertOrStackAt(inv, s, i) = [inv EXCEPT ![s] = j]
    BY <1>2 DEF InsertOrStackAt
  <2>4. Units(InsertOrStackAt(inv, s, i), k) = Units(inv, k) - Unit(inv[s], k) + Unit(j, k)
    <3> HIDE DEF j
    <3>1. /\ InsertOrStackAt(inv, s, i)[s] = j
          /\ SameBut(InsertOrStackAt(inv, s, i), inv, {s})
      BY <1>0, <2>3 DEF SameBut, Inventories
    <3> QED BY <3>1, UnitsPut
  <2>5. Unit(j, k) = Unit(inv[s], k) + Unit(i, k)
    <3> HIDE DEF j
    <3>1. j # NoItem /\ i # NoItem
      BY <2>2, NoItemAssumption
    <3> QED BY <2>1, <2>2, <3>1 DEF Unit
  <2> HIDE DEF j
  <2> QED BY <1>1, <2>4, <2>5
<1>3. CASE /\ i.kind \in Stackable /\ SameItem(inv[s], i)
           /\ ~CanGrow(inv[s], i.amount)
  BY <1>1, <1>3 DEF InsertOrStackAt
<1>4. CASE ~(i.kind \in Stackable /\ SameItem(inv[s], i))
  <2>1. InsertOrStackAt(inv, s, i) = [inv EXCEPT ![s] = i]
    BY <1>4 DEF InsertOrStackAt
  <2>2. Units(InsertOrStackAt(inv, s, i), k) = Units(inv, k) - Unit(inv[s], k) + Unit(i, k)
    <3>1. /\ InsertOrStackAt(inv, s, i)[s] = i
          /\ SameBut(InsertOrStackAt(inv, s, i), inv, {s})
      BY <1>0, <2>1 DEF SameBut, Inventories
    <3>2. Units(InsertOrStackAt(inv, s, i), k) =
            Units(inv, k) - Unit(inv[s], k) + Unit(InsertOrStackAt(inv, s, i)[s], k)
      BY ZenonT(60), <3>1, UnitsPut
    <3> QED BY <3>1, <3>2
  <2> QED BY <1>1, <2>2
<1> QED BY <1>2, <1>3, <1>4

-----------------------------------------------------------------------------
(* Handing over an offer *)

\* The units of a kind an offer names at a slot.
OfferedAt(offer, inv, k) ==
  [s \in Slot |-> IF s \in DOMAIN offer /\ inv[s] # NoItem /\ inv[s].kind = k
                    THEN offer[s] ELSE 0]

\* The slots named by an offer hold what is offered.
Covered(offer, inv) ==
  /\ offer \in Offer
  /\ \A s \in DOMAIN offer : inv[s] # NoItem /\ offer[s] <= inv[s].amount

LEMMA OfferType ==
  ASSUME NEW offer \in Offer
  PROVE  /\ DOMAIN offer \subseteq Slot
         /\ \A s \in DOMAIN offer : offer[s] \in Nat /\ offer[s] <= MaxAmount
BY MaxAmountAssumption DEF Offer

LEMMA OfferedAtType ==
  ASSUME NEW offer \in Offer, NEW inv, NEW k, NEW s \in Slot
  PROVE  /\ OfferedAt(offer, inv, k)[s] \in Nat
         /\ OfferedAt(offer, inv, k)[s] <= MaxAmount
BY OfferType, MaxAmountAssumption DEF OfferedAt

\* GoodsOf is the sum over all slots.
LEMMA GoodsSum ==
  ASSUME NEW offer \in Offer, NEW inv, NEW k \in Kind
  PROVE  GoodsOf(offer, inv)[k] = SumOver(OfferedAt(offer, inv, k), Slot)
<1> DEFINE T == {s \in DOMAIN offer : inv[s] # NoItem /\ inv[s].kind = k}
           f == OfferedAt(offer, inv, k)
<1>1. T \in SUBSET Slot /\ IsFiniteSet(T)
  BY OfferType, SlotFinite, FS_Subset
<1>2. \A s \in T : offer[s] \in Int /\ f[s] = offer[s]
  BY OfferType DEF OfferedAt
<1>3. \A s \in Slot \ T : f[s] = 0
  BY DEF OfferedAt
<1>4. \A s \in T : f[s] \in Int
  BY <1>2
<1>5. GoodsOf(offer, inv)[k] = SumOver(offer, T)
  BY DEF GoodsOf, SumOver
<1> HIDE DEF T, f
<1>6. SumOver(f, T) = SumOver(offer, T)
  BY <1>1, <1>2, SumEqual
<1>7. SumOver(f, Slot) = SumOver(f, T)
  BY <1>1, <1>3, <1>4, SlotFinite, SumSupport
<1> QED BY <1>5, <1>6, <1>7 DEF f

\* Every quantity of a trade lies within the bounds of Agreement's terms.
LEMMA GoodsBound ==
  ASSUME NEW offer \in Offer, NEW inv
  PROVE  GoodsOf(offer, inv) \in [Kind -> 0..MaxAmount * NSlots]
<1>1. ASSUME NEW k \in Kind PROVE GoodsOf(offer, inv)[k] \in 0..MaxAmount * NSlots
  <2> DEFINE f == OfferedAt(offer, inv, k)
  <2>1. \A s \in Slot : f[s] \in 0..MaxAmount
    <3> HIDE DEF f
    <3> QED BY OfferedAtType, MaxAmountAssumption DEF f
  <2>2. SumOver(f, Slot) \in 0..MaxAmount * Cardinality(Slot)
    <3> HIDE DEF f
    <3> QED BY <2>1, SlotFinite, SumBounds, MaxAmountAssumption
  <2> QED BY <2>2, GoodsSum, SlotFinite
<1>2. GoodsOf(offer, inv) = [k \in Kind |-> GoodsOf(offer, inv)[k]]
  BY DEF GoodsOf
<1> QED BY <1>1, <1>2

LEMMA GoodsType ==
  ASSUME NEW offer \in Offer, NEW inv
  PROVE  GoodsOf(offer, inv) \in [Kind -> Nat]
<1> DEFINE B == 0..MaxAmount * NSlots
<1>1. B \subseteq Nat
  OBVIOUS
<1>2. GoodsOf(offer, inv) \in [Kind -> B]
  BY GoodsBound
<1> HIDE DEF B
<1> QED BY <1>1, <1>2

\* An inventory once an offer is taken out of it.
Left(offer, inv) ==
  [s \in Slot |-> IF s \in DOMAIN offer THEN TakeUnits(inv, s, offer[s])[s] ELSE inv[s]]

LEMMA LeftType ==
  ASSUME NEW inv \in Inventories, NEW offer \in Offer
  PROVE  Left(offer, inv) \in Inventories
<1>1. ASSUME NEW s \in DOMAIN offer
      PROVE  TakeUnits(inv, s, offer[s])[s] \in Stack \cup {NoItem}
  <2>1. s \in Slot /\ offer[s] \in Nat
    BY OfferType
  <2>2. TakeUnits(inv, s, offer[s]) \in Inventories
    BY <2>1, TakeUnitsType
  <2> QED BY <2>1, <2>2 DEF Inventories
<1>2. \A s \in Slot : inv[s] \in Stack \cup {NoItem}
  BY DEF Inventories
<1> QED BY <1>1, <1>2 DEF Left, Inventories

\* What is left and what was taken are what there was.
LEMMA LeftUnits ==
  ASSUME NEW inv \in Inventories, NEW offer, Covered(offer, inv), NEW k \in Kind
  PROVE  /\ Left(offer, inv) \in Inventories
         /\ Units(inv, k) = Units(Left(offer, inv), k) + GoodsOf(offer, inv)[k]
<1> DEFINE left == Left(offer, inv)
           f == UnitsAt(left, k)
           g == OfferedAt(offer, inv, k)
           h == UnitsAt(inv, k)
<1>0. offer \in Offer
  BY DEF Covered
<1>1. ASSUME NEW s \in Slot
      PROVE  /\ left[s] \in Stack \cup {NoItem}
             /\ Unit(inv[s], k) = Unit(left[s], k) + g[s]
  <2>1. inv[s] \in Stack \cup {NoItem}
    BY DEF Inventories
  <2>2. CASE s \notin DOMAIN offer
    <3>1. left[s] = inv[s] /\ g[s] = 0
      BY <2>2 DEF Left, OfferedAt
    <3>2. Unit(inv[s], k) \in Nat
      BY <2>1, UnitType
    <3> QED BY <2>1, <3>1, <3>2
  <2>3. CASE s \in DOMAIN offer
    <3>1. /\ inv[s] # NoItem /\ inv[s] \in Stack /\ inv[s].amount \in Nat
          /\ offer[s] \in Nat /\ offer[s] <= inv[s].amount
      BY <1>0, <2>1, <2>3, OfferType DEF Covered, Stack
    <3>2. left[s] = TakeUnits(inv, s, offer[s])[s]
      BY <2>3 DEF Left
    <3>3. CASE offer[s] < inv[s].amount
      <4> DEFINE j == [inv[s] EXCEPT !.amount = @ - offer[s]]
      <4>1. left[s] = j
        BY <3>1, <3>2, <3>3 DEF TakeUnits, Owned, Inventories
      <4>2. j \in Stack /\ j.kind = inv[s].kind /\ j.amount = inv[s].amount - offer[s]
        BY <3>1, <3>3, MaxAmountAssumption DEF Stack
      <4>3. j # NoItem
        BY <4>2, NoItemAssumption
      <4> HIDE DEF j
      <4>4. g[s] = IF inv[s].kind = k THEN offer[s] ELSE 0
        BY <2>3, <3>1 DEF OfferedAt
      <4> HIDE DEF left, g
      <4> QED BY <3>1, <4>1, <4>2, <4>3, <4>4 DEF Unit
    <3>4. CASE offer[s] = inv[s].amount
      <4>1. left[s] = NoItem
        BY <3>1, <3>2, <3>4 DEF TakeUnits, Owned, RemoveSlot, Inventories
      <4>2. g[s] = IF inv[s].kind = k THEN offer[s] ELSE 0
        BY <2>3, <3>1 DEF OfferedAt
      <4> HIDE DEF left, g
      <4> QED BY <3>1, <3>4, <4>1, <4>2 DEF Unit
    <3> QED BY <3>1, <3>3, <3>4
  <2> QED BY <2>2, <2>3
<1>2. left \in Inventories
  <2>1. left = [s \in Slot |-> left[s]]
    BY DEF Left
  <2> QED BY <1>1, <2>1 DEF Inventories
<1>3. \A s \in Slot : f[s] \in Int /\ f[s] = Unit(left[s], k)
  <2> HIDE DEF left
  <2> QED BY <1>2, UnitsAtType
<1>4. \A s \in Slot : g[s] \in Int
  BY <1>0, OfferedAtType
<1>5. \A s \in Slot : h[s] = Unit(inv[s], k)
  BY UnitsAtType
<1> HIDE DEF left, f, g, h
<1>6. \A s \in Slot : h[s] = f[s] + g[s]
  BY <1>1, <1>3, <1>5
<1>7. SumOver(h, Slot) = SumOver(f, Slot) + SumOver(g, Slot)
  BY <1>3, <1>4, <1>6, SlotFinite, SumPlus
<1>8. GoodsOf(offer, inv)[k] = SumOver(g, Slot)
  BY <1>0, GoodsSum DEF g
<1> QED BY <1>2, <1>7, <1>8 DEF Units, f, h, left

-----------------------------------------------------------------------------
(* Receiving an offer *)

\* The number of empty slots.
Free(inv) == Cardinality(Slot \ Occupied(inv))

LEMMA FreeType ==
  ASSUME NEW inv
  PROVE  IsFiniteSet(Slot \ Occupied(inv)) /\ Free(inv) \in Nat
BY SlotFinite, FS_Difference, FS_CardinalityType DEF Free

\* push takes an item for which there is an empty slot and room in the stack.
LEMMA PushRoom ==
  ASSUME NEW inv \in Inventories, NEW i \in Stack,
         Units(inv, i.kind) + i.amount <= MaxAmount, Free(inv) >= 1
  PROVE  Push(inv, i) \in Inventories /\ Free(Push(inv, i)) >= Free(inv) - 1
<1> DEFINE same  == {s \in Slot : i.kind \in Stackable /\ SameItem(inv[s], i)}
           empty == Slot \ Occupied(inv)
<1>1. same \subseteq Nat /\ empty \subseteq Nat
  BY DEF Slot
<1>2. Free(inv) \in Nat /\ i.amount \in Nat /\ Units(inv, i.kind) \in Nat
  <2>1. i.amount \in Nat
    BY DEF Stack
  <2> QED BY <2>1, FreeType, UnitsType
<1>3. CASE same # {}
  <2> DEFINE s == Min(same)
             j == Grow(inv[s], i.amount)
  <2>1. s \in Slot /\ s \in same
    BY <1>1, <1>3, MinExists
  <2>2. inv[s] \in Stack /\ inv[s].kind \in Stackable /\ inv[s].kind = i.kind /\ inv[s] # NoItem
    BY <2>1 DEF Inventories, SameItem
  <2>3. CanGrow(inv[s], i.amount)
    <3> HIDE DEF s
    <3>1. Unit(inv[s], i.kind) = inv[s].amount /\ inv[s].amount \in Nat
      BY <2>2 DEF Unit, Stack
    <3>2. Unit(inv[s], i.kind) <= Units(inv, i.kind)
      BY <2>1, UnitsSlots
    <3> QED BY <1>2, <3>1, <3>2, MaxAmountAssumption DEF CanGrow
  <2>4. Push(inv, i) = [inv EXCEPT ![s] = j]
    BY <1>3, <2>3 DEF Push
  <2>5. j \in Stack /\ j # NoItem
    BY <2>2, <2>3, GrowFacts, NoItemAssumption
  <2>6. Push(inv, i) \in Inventories
    <3> HIDE DEF s, j
    <3> QED BY <2>1, <2>4, <2>5 DEF Inventories
  <2>7. Occupied(Push(inv, i)) = Occupied(inv)
    <3> HIDE DEF s, j
    <3> QED BY <2>1, <2>2, <2>4, <2>5 DEF Occupied, Inventories
  <2> QED BY <1>2, <2>6, <2>7 DEF Free
<1>4. CASE same = {}
  <2> DEFINE s == Min(empty)
  <2>1. empty # {}
    <3>1. Cardinality({}) = 0
      BY FS_EmptySet
    <3> QED BY <3>1 DEF Free
  <2>2. s \in empty
    BY <1>1, <2>1, MinExists
  <2>3. Push(inv, i) = [inv EXCEPT ![s] = i]
    BY <1>4, <2>1 DEF Push
  <2> HIDE DEF s
  <2>4. Push(inv, i) \in Inventories
    BY <2>2, <2>3 DEF Inventories
  <2>5. Slot \ Occupied(Push(inv, i)) = empty \ {s}
    BY <2>2, <2>3, NoItemAssumption DEF Occupied, Inventories
  <2>6. Cardinality(empty \ {s}) = Cardinality(empty) - 1
    BY <2>2, FreeType, FS_RemoveElement
  <2>7. Free(Push(inv, i)) = Free(inv) - 1
    BY <2>5, <2>6 DEF Free
  <2> QED BY <1>2, <2>4, <2>7
<1> QED BY <1>3, <1>4

\* push_all, item by item.
Run(run, inv, items, n) ==
  /\ run[0] = inv
  /\ \A m \in 1..n :
       run[m] = IF run[m - 1] = Full THEN Full ELSE Push(run[m - 1], items[m])

LEMMA PushAllRuns ==
  ASSUME NEW inv \in Inventories, NEW n \in Nat, NEW items \in [1..n -> Stack]
  PROVE  \E run : Run(run, inv, items, n) /\ PushAll(inv, items) = run[n]
<1> DEFINE V == Inventories \cup {Full}
           step == [m \in 1..n |-> [v \in V |-> IF v = Full THEN Full ELSE Push(v, items[m])]]
           Is(it) == it = [T \in SUBSET (1..n) |->
                      IF T = {} THEN inv
                      ELSE IF it[T \ {Max(T)}] = Full THEN Full
                           ELSE Push(it[T \ {Max(T)}], items[Max(T)])]
<1>1. \A m \in 1..n, v \in V : step[m][v] \in V
  BY PushType
<1>2. PICK g : Folding(g, n, V, inv, step)
  <2> HIDE DEF step, V
  <2>1. inv \in V
    BY DEF V
  <2> QED BY <1>1, <2>1, FoldingExists
<1>3. Is(g)
  <2>1. ASSUME NEW T \in SUBSET (1..n), T # {}
        PROVE  g[T] = IF g[T \ {Max(T)}] = Full THEN Full
                      ELSE Push(g[T \ {Max(T)}], items[Max(T)])
    <3>1. Max(T) \in 1..n /\ g[T \ {Max(T)}] \in V
      BY <1>2, <2>1, MaxExists DEF Folding
    <3>2. g[T] = step[Max(T)][g[T \ {Max(T)}]]
      BY <1>2, <2>1 DEF Folding
    <3> QED BY <3>1, <3>2
  <2> HIDE DEF V, step
  <2> QED BY <1>2, <2>1 DEF Folding
<1>4. PICK it : Is(it) /\ PushAll(inv, items) = it[1..n]
  <2>1. Is(CHOOSE it : Is(it))
    <3> HIDE DEF Is
    <3> QED BY <1>3
  <2>2. PushAll(inv, items) = (CHOOSE it : Is(it))[1..n]
    <3>1. DOMAIN items = 1..n
      OBVIOUS
    <3> QED BY <3>1 DEF PushAll, FoldLeft, MapThenFoldSet
  <2> HIDE DEF Is
  <2> QED BY <2>1, <2>2
<1> DEFINE run == [m \in 0..n |-> it[1..m]]
<1>5. run[0] = inv
  <2>1. 1..0 = {} /\ {} \in SUBSET (1..n)
    OBVIOUS
  <2> QED BY <1>4, <2>1
<1>6. ASSUME NEW m \in 1..n
      PROVE  run[m] = IF run[m - 1] = Full THEN Full ELSE Push(run[m - 1], items[m])
  <2>1. 1..m \in SUBSET (1..n) /\ 1..m # {} /\ m \in 0..n /\ m - 1 \in 0..n
    <3>1. m \in Nat /\ n \in Nat /\ 1 <= m /\ m <= n
      OBVIOUS
    <3>2. m \in 1..m /\ 1..m \in SUBSET (1..n)
      BY <3>1
    <3> QED BY <3>1, <3>2
  <2>2. Max(1..m) = m /\ (1..m) \ {m} = 1..(m - 1)
    BY MaxInterval
  <2>3. it[1..m] = IF it[(1..m) \ {Max(1..m)}] = Full THEN Full
                   ELSE Push(it[(1..m) \ {Max(1..m)}], items[Max(1..m)])
    BY <1>4, <2>1
  <2>4. it[1..m] = IF it[1..(m - 1)] = Full THEN Full ELSE Push(it[1..(m - 1)], items[m])
    BY <2>2, <2>3
  <2> QED BY <2>1, <2>4
<1>7. PushAll(inv, items) = run[n]
  BY SMTT(60), <1>4
<1> HIDE DEF run
<1> QED BY <1>5, <1>6, <1>7 DEF Run

\* The items of an offer in the order in which they are handed over.
Parcel(offer, inv, order) ==
  [m \in DOMAIN order |-> [kind |-> inv[order[m]].kind, amount |-> offer[order[m]]]]

Wanted(offer) == {s \in DOMAIN offer : offer[s] > 0}

LEMMA ParcelType ==
  ASSUME NEW inv \in Inventories, NEW offer, Covered(offer, inv),
         NEW order \in SetToSeqs(Wanted(offer))
  PROVE  LET n == Cardinality(Wanted(offer))
         IN  /\ n \in Nat /\ IsFiniteSet(Wanted(offer)) /\ Wanted(offer) \subseteq Slot
             /\ order \in [1..n -> Wanted(offer)]
             /\ \A l, m \in 1..n : l # m => order[l] # order[m]
             /\ Parcel(offer, inv, order) \in [1..n -> Stack]
             /\ \A m \in 1..n :
                  /\ Parcel(offer, inv, order)[m].kind = inv[order[m]].kind
                  /\ Parcel(offer, inv, order)[m].amount = offer[order[m]]
                  /\ inv[order[m]] # NoItem
<1> DEFINE W == Wanted(offer)
           n == Cardinality(W)
           items == Parcel(offer, inv, order)
<1>1. offer \in Offer /\ W \subseteq Slot /\ W \subseteq DOMAIN offer
  BY OfferType DEF Covered, Wanted
<1>2. IsFiniteSet(W) /\ n \in Nat
  BY <1>1, SlotFinite, FS_Subset, FS_CardinalityType
<1>3. order \in [1..n -> W] /\ \A l, m \in 1..n : l # m => order[l] # order[m]
  BY DEF SetToSeqs
<1>4. ASSUME NEW m \in 1..n
      PROVE  /\ items[m] \in Stack
             /\ items[m].kind = inv[order[m]].kind
             /\ items[m].amount = offer[order[m]]
             /\ inv[order[m]] # NoItem
  <2> DEFINE s == order[m]
  <2>1. s \in W /\ s \in DOMAIN offer /\ s \in Slot
    BY <1>1, <1>3
  <2>2. /\ offer[s] \in Nat /\ offer[s] > 0 /\ inv[s] \in Stack /\ inv[s] # NoItem
        /\ offer[s] <= inv[s].amount
    BY <1>1, <2>1, OfferType DEF Covered, Wanted, Inventories
  <2>3. items[m] = [kind |-> inv[s].kind, amount |-> offer[s]]
    BY <1>3 DEF Parcel
  <2>4. [kind |-> inv[s].kind, amount |-> offer[s]] \in Stack
    <3> HIDE DEF s
    <3> QED BY <2>2, MaxAmountAssumption DEF Stack
  <2> HIDE DEF s, items
  <2>5. items[m] \in Stack /\ items[m].kind = inv[s].kind /\ items[m].amount = offer[s]
    BY <2>3, <2>4
  <2> QED BY <2>2, <2>5 DEF s
<1>5. items \in [1..n -> Stack]
  <2>1. items = [m \in 1..n |-> items[m]]
    BY <1>3 DEF Parcel
  <2> HIDE DEF items, n
  <2> QED BY <1>4, <2>1
<1> HIDE DEF items, n, W
<1>6. /\ n \in Nat /\ IsFiniteSet(W) /\ W \subseteq Slot
      /\ order \in [1..n -> W] /\ \A l, m \in 1..n : l # m => order[l] # order[m]
      /\ items \in [1..n -> Stack]
      /\ \A m \in 1..n : /\ items[m].kind = inv[order[m]].kind
                          /\ items[m].amount = offer[order[m]]
                          /\ inv[order[m]] # NoItem
  BY <1>1, <1>2, <1>3, <1>4, <1>5
<1> QED BY <1>6 DEF items, n, W

\* The slots emptied by the first m items.
Sent(order, m) == {order[j] : j \in 1..m}

\* Receiving an offer adds its goods.  It fits if there is an empty slot for
\* each item and the units of no kind exceed a stack.
LEMMA Received ==
  ASSUME NEW into \in Inventories, NEW inv \in Inventories,
         NEW offer, Covered(offer, inv), NEW order \in SetToSeqs(Wanted(offer))
  PROVE  LET after == PushAll(into, Parcel(offer, inv, order))
         IN  /\ after # Full =>
                  /\ after \in Inventories
                  /\ \A k \in Kind : Units(after, k) = Units(into, k) + GoodsOf(offer, inv)[k]
             /\ /\ Free(into) >= Cardinality(Wanted(offer))
                /\ \A k \in Kind : Units(into, k) + GoodsOf(offer, inv)[k] <= MaxAmount
                => after \in Inventories
<1> DEFINE W == Wanted(offer)
           n == Cardinality(W)
           items == Parcel(offer, inv, order)
           at(k) == OfferedAt(offer, inv, k)
<1>0. /\ offer \in Offer
      /\ n \in Nat /\ IsFiniteSet(W) /\ W \subseteq Slot
      /\ order \in [1..n -> W] /\ \A l, m \in 1..n : l # m => order[l] # order[m]
      /\ items \in [1..n -> Stack]
      /\ \A m \in 1..n : /\ items[m].kind = inv[order[m]].kind
                          /\ items[m].amount = offer[order[m]]
                          /\ inv[order[m]] # NoItem
  BY ParcelType DEF Covered
<1>1. PICK run : Run(run, into, items, n) /\ PushAll(into, items) = run[n]
  <2> HIDE DEF items, n
  <2> QED BY <1>0, PushAllRuns
<1>2. ASSUME NEW m \in 1..n
      PROVE  /\ IsFiniteSet(Sent(order, m - 1)) /\ Sent(order, m - 1) \subseteq Slot
             /\ Sent(order, m) = Sent(order, m - 1) \cup {order[m]}
             /\ order[m] \notin Sent(order, m - 1) /\ order[m] \in Slot
  <2> HIDE DEF n, W, items
  <2>1. \A j \in 1..(m - 1) : j \in 1..n /\ j # m
    BY <1>0
  <2>2. m \in 1..m /\ \A j \in 1..m : j = m \/ j \in 1..(m - 1)
    BY <1>0
  <2>3. order[m] \in Slot /\ \A j \in 1..(m - 1) : order[j] \in Slot /\ order[j] # order[m]
    BY <1>0, <2>1
  <2>4. Sent(order, m - 1) \subseteq Slot /\ order[m] \notin Sent(order, m - 1)
    BY <2>3 DEF Sent
  <2>5. \A j \in 1..(m - 1) : j \in 1..m
    BY <1>0
  <2>6. Sent(order, m) = Sent(order, m - 1) \cup {order[m]}
    BY <2>2, <2>5 DEF Sent
  <2> QED BY <2>3, <2>4, <2>6, SlotFinite, FS_Subset
<1>3. ASSUME NEW k \in Kind, NEW m \in 1..n
      PROVE  SumOver(at(k), Sent(order, m)) =
               SumOver(at(k), Sent(order, m - 1)) + Unit(items[m], k)
  <2>1. \A s \in Slot : at(k)[s] \in Int
    BY <1>0, OfferedAtType
  <2>2. at(k)[order[m]] = Unit(items[m], k)
    <3>1. order[m] \in Slot /\ order[m] \in DOMAIN offer
      BY <1>0, <1>2 DEF Wanted
    <3>2. items[m] # NoItem
      <4> HIDE DEF items, n
      <4> QED BY <1>0, NoItemAssumption
    <3> HIDE DEF items, n
    <3> QED BY <1>0, <3>1, <3>2 DEF OfferedAt, Unit
  <2> DEFINE X == Sent(order, m - 1)
             f == at(k)
  <2>3. IsFiniteSet(X) /\ order[m] \notin X /\ \A s \in X \cup {order[m]} : f[s] \in Int
    BY <1>2, <2>1
  <2>4. Sent(order, m) = X \cup {order[m]}
    BY <1>2
  <2> HIDE DEF X, f, items
  <2>5. SumOver(f, X \cup {order[m]}) = SumOver(f, X) + f[order[m]]
    BY <2>3, SumInsert
  <2> QED BY <2>2, <2>4, <2>5 DEF f, X
<1>4. \A k \in Kind : SumOver(at(k), Sent(order, 0)) = 0
  <2>1. Sent(order, 0) = {}
    BY DEF Sent
  <2> QED BY <2>1, SumEmpty
<1>5. \A k \in Kind, m \in 0..n : /\ SumOver(at(k), Sent(order, m)) \in Nat
                                  /\ SumOver(at(k), Sent(order, m)) <= GoodsOf(offer, inv)[k]
  <2> SUFFICES ASSUME NEW k \in Kind, NEW m \in 0..n
               PROVE  /\ SumOver(at(k), Sent(order, m)) \in Nat
                      /\ SumOver(at(k), Sent(order, m)) <= GoodsOf(offer, inv)[k]
    OBVIOUS
  <2> DEFINE f == at(k)
             X == Sent(order, m)
  <2>1. X \in SUBSET Slot /\ IsFiniteSet(X)
    <3>1. \A j \in 1..m : j \in 1..n
      BY <1>0
    <3>2. X \in SUBSET Slot
      BY <1>0, <3>1 DEF Sent
    <3> QED BY <3>2, SlotFinite, FS_Subset
  <2>2. \A s \in Slot : f[s] \in Nat
    BY <1>0, OfferedAtType
  <2>3. GoodsOf(offer, inv)[k] = SumOver(f, Slot)
    BY <1>0, GoodsSum
  <2> HIDE DEF f, X
  <2>4. SumOver(f, X) \in Nat /\ SumOver(f, X) <= SumOver(f, Slot)
    BY <2>1, <2>2, SlotFinite, SumNat, SumSubset
  <2> QED BY <2>3, <2>4 DEF f, X
<1>6. \A k \in Kind : SumOver(at(k), Sent(order, n)) = GoodsOf(offer, inv)[k]
  <2> SUFFICES ASSUME NEW k \in Kind
               PROVE  SumOver(at(k), Sent(order, n)) = GoodsOf(offer, inv)[k]
    OBVIOUS
  <2> DEFINE f == at(k)
  <2>1. Sent(order, n) = W
    <3>1. order \in Injection(1..n, W)
      <4> HIDE DEF W, n
      <4>1. \A l, m \in 1..n : order[l] = order[m] => l = m
        BY <1>0
      <4>2. order \in [1..n -> W] /\ DOMAIN order = 1..n
        BY <1>0
      <4>3. IsInjective(order)
        BY <4>1, <4>2 DEF IsInjective
      <4> QED BY <4>2, <4>3 DEF Injection
    <3>2. IsFiniteSet(1..n) /\ Cardinality(1..n) = n
      <4>1. n \in Nat
        BY <1>0
      <4> HIDE DEF n
      <4> QED BY <4>1, FS_Interval
    <3>3. order \in Surjection(1..n, W)
      <4> HIDE DEF W
      <4> QED BY <1>0, <3>1, <3>2, FS_Injection DEF n
    <3> HIDE DEF W, n
    <3> QED BY <3>3 DEF Surjection, Sent
  <2>2. \A s \in Slot : f[s] \in Nat
    BY <1>0, OfferedAtType
  <2>3. \A s \in Slot \ W : f[s] = 0
    BY <1>0, OfferType DEF OfferedAt, Wanted
  <2>4. GoodsOf(offer, inv)[k] = SumOver(f, Slot)
    BY <1>0, GoodsSum
  <2>5. \A s \in W : f[s] \in Int
    BY <1>0, <2>2
  <2> HIDE DEF f, W
  <2>6. SumOver(f, Slot) = SumOver(f, W)
    BY <1>0, <2>3, <2>5, SlotFinite, SumSupport
  <2> QED BY <2>1, <2>4, <2>6 DEF f
<1> HIDE DEF W, n, items, at
\* The units, as long as nothing was refused.
<1>7. ASSUME NEW m \in 0..n, run[m] # Full
      PROVE  /\ run[m] \in Inventories
             /\ \A k \in Kind : Units(run[m], k) = Units(into, k) + SumOver(at(k), Sent(order, m))
  <2> DEFINE Good(l) == run[l] # Full =>
               /\ run[l] \in Inventories
               /\ \A k \in Kind : Units(run[l], k) = Units(into, k) + SumOver(at(k), Sent(order, l))
             C == {l \in Nat : l <= n => Good(l)}
  <2>1. 0 \in C
    <3>1. run[0] = into
      BY <1>1 DEF Run
    <3>2. \A k \in Kind : Units(into, k) \in Nat
      BY UnitsType
    <3> QED BY <1>4, <3>1, <3>2
  <2>2. ASSUME NEW l \in Nat, l \in C PROVE l + 1 \in C
    <3> SUFFICES ASSUME l + 1 <= n, run[l + 1] # Full PROVE Good(l + 1)
      OBVIOUS
    <3>1. l + 1 \in 1..n /\ (l + 1) - 1 = l /\ l <= n
      BY <1>0
    <3>2. run[l] # Full /\ run[l + 1] = Push(run[l], items[l + 1])
      BY <1>1, <3>1 DEF Run
    <3>3. Good(l)
      BY <2>2, <3>1
    <3>4. run[l] \in Inventories /\ items[l + 1] \in Stack
      BY <1>0, <3>1, <3>2, <3>3
    <3>5. run[l + 1] \in Inventories
      BY <3>2, <3>4, PushUnits
    <3>6. ASSUME NEW k \in Kind
          PROVE  Units(run[l + 1], k) = Units(into, k) + SumOver(at(k), Sent(order, l + 1))
      <4>1. Units(run[l + 1], k) = Units(run[l], k) + Unit(items[l + 1], k)
        BY <3>2, <3>4, PushUnits
      <4>2. Units(run[l], k) = Units(into, k) + SumOver(at(k), Sent(order, l))
        BY <3>2, <3>3
      <4>3. SumOver(at(k), Sent(order, l + 1)) =
              SumOver(at(k), Sent(order, l)) + Unit(items[l + 1], k)
        BY <1>3, <3>1
      <4>4. /\ Units(into, k) \in Nat /\ Unit(items[l + 1], k) \in Nat
            /\ SumOver(at(k), Sent(order, l)) \in Nat
        BY <1>5, <3>1, <3>4, UnitsType, UnitType
      <4> QED BY <4>1, <4>2, <4>3, <4>4
    <3> QED BY <3>5, <3>6
  <2> HIDE DEF C
  <2>3. \A l \in Nat : l \in C
    BY <2>1, <2>2, NatSetInduction
  <2> QED BY <1>0, <1>7, <2>3 DEF C
\* Nothing is refused if there is room.
<1>8. ASSUME Free(into) >= n,
             \A k \in Kind : Units(into, k) + GoodsOf(offer, inv)[k] <= MaxAmount
      PROVE  run[n] \in Inventories
  <2> DEFINE C == {l \in Nat : l <= n => run[l] # Full /\ Free(run[l]) >= n - l}
  <2>1. 0 \in C
    <3>1. run[0] = into /\ into # Full
      BY <1>1, FullAssumption DEF Run
    <3>2. n - 0 = n
      BY <1>0
    <3> QED BY <1>8, <3>1, <3>2
  <2>2. ASSUME NEW l \in Nat, l \in C PROVE l + 1 \in C
    <3> SUFFICES ASSUME l + 1 <= n PROVE run[l + 1] # Full /\ Free(run[l + 1]) >= n - (l + 1)
      OBVIOUS
    <3> DEFINE i == items[l + 1]
    <3>1. l + 1 \in 1..n /\ (l + 1) - 1 = l /\ l \in 0..n /\ l + 1 \in 0..n
      BY <1>0
    <3>2. run[l] # Full /\ Free(run[l]) >= n - l
      BY <2>2, <3>1
    <3>3. run[l] \in Inventories
      BY <1>7, <3>1, <3>2
    <3>4. i \in Stack /\ i.kind \in Kind /\ i.amount \in Nat /\ Unit(i, i.kind) = i.amount
      <4>1. i \in Stack
        BY <1>0, <3>1
      <4> HIDE DEF i
      <4> QED BY <4>1, NoItemAssumption DEF Stack, Unit
    <3>5. run[l + 1] = Push(run[l], i)
      BY <1>1, <3>1, <3>2 DEF Run
    <3> HIDE DEF i
    <3>6. Units(run[l], i.kind) + i.amount <= MaxAmount
      <4> DEFINE k == i.kind
      <4>1. k \in Kind
        BY <3>4
      <4> HIDE DEF k
      <4>2. Units(run[l], k) = Units(into, k) + SumOver(at(k), Sent(order, l))
        BY <1>7, <3>1, <3>2, <4>1
      <4>3. SumOver(at(k), Sent(order, l + 1)) = SumOver(at(k), Sent(order, l)) + Unit(i, k)
        BY <1>3, <3>1, <4>1 DEF i
      <4>4. /\ SumOver(at(k), Sent(order, l + 1)) <= GoodsOf(offer, inv)[k]
            /\ SumOver(at(k), Sent(order, l + 1)) \in Nat
            /\ SumOver(at(k), Sent(order, l)) \in Nat
        BY <1>5, <3>1, <4>1
      <4>5. Units(into, k) \in Nat /\ Units(into, k) + GoodsOf(offer, inv)[k] <= MaxAmount
        BY <1>8, <4>1, UnitsType
      <4>6. GoodsOf(offer, inv)[k] \in Nat
        BY <1>0, <4>1, GoodsBound, MaxAmountAssumption, NSlotsAssumption
      <4>7. Unit(i, k) = i.amount
        BY <3>4 DEF k
      <4>8. Units(run[l], k) + i.amount <= MaxAmount
        BY <3>4, <4>2, <4>3, <4>4, <4>5, <4>6, <4>7, MaxAmountAssumption
      <4> QED BY <4>8 DEF k
    <3>7. Free(run[l]) >= 1 /\ Free(run[l]) \in Nat
      <4>1. Free(run[l]) \in Nat
        BY FreeType
      <4>2. n - l >= 1 /\ n - l \in Nat
        BY <1>0, <3>1
      <4> QED BY <3>2, <4>1, <4>2
    <3>8. Push(run[l], i) \in Inventories /\ Free(Push(run[l], i)) >= Free(run[l]) - 1
      BY <3>3, <3>4, <3>6, <3>7, PushRoom
    <3>9. Free(Push(run[l], i)) \in Nat
      BY FreeType
    <3> QED BY <1>0, <3>2, <3>5, <3>7, <3>8, <3>9, FullAssumption
  <2> HIDE DEF C
  <2>3. \A l \in Nat : l \in C
    BY <2>1, <2>2, NatSetInduction
  <2>4. run[n] # Full
    BY <1>0, <2>3 DEF C
  <2> QED BY <1>0, <1>7, <2>4
<1>9. PushAll(into, items) # Full =>
        /\ PushAll(into, items) \in Inventories
        /\ \A k \in Kind :
             Units(PushAll(into, items), k) = Units(into, k) + GoodsOf(offer, inv)[k]
  BY <1>0, <1>1, <1>6, <1>7
<1> QED BY <1>1, <1>8, <1>9 DEF items, n, W

-----------------------------------------------------------------------------
(* The units of a kind in the world *)

\* What a character with the inventory inv, wearing eq, has.
HeldBy(inv, eq, k) == Units(inv, k) + Unit(eq, k)

LEMMA HeldIs ==
  ASSUME NEW inv \in Inventories, NEW k
  PROVE  MapThenSumSet(LAMBDA s : IF inv[s].kind = k THEN inv[s].amount ELSE 0, Occupied(inv))
           = Units(inv, k)
<1> DEFINE T == Occupied(inv)
           e == [s \in T |-> IF inv[s].kind = k THEN inv[s].amount ELSE 0]
           f == UnitsAt(inv, k)
<1>1. T \in SUBSET Slot /\ IsFiniteSet(T)
  BY SlotFinite, FS_Subset DEF Occupied
<1>2. MapThenSumSet(LAMBDA s : IF inv[s].kind = k THEN inv[s].amount ELSE 0, T) = SumOver(e, T)
  BY ZenonT(60) DEF MapThenSumSet, MapThenFoldSet, SumOver
<1>3. \A s \in Slot : f[s] \in Int /\ f[s] = Unit(inv[s], k)
  BY UnitsAtType
<1>4. /\ \A s \in T : e[s] = f[s]
      /\ \A s \in Slot \ T : f[s] = 0
  BY <1>3 DEF Occupied, Unit
<1> HIDE DEF T, e, f
<1>5. \A s \in T : f[s] \in Int
  BY <1>1, <1>3
<1>6. SumOver(e, T) = SumOver(f, T)
  BY <1>1, <1>4, <1>5, SumEqual
<1>7. SumOver(f, Slot) = SumOver(f, T)
  BY <1>1, <1>4, <1>5, SlotFinite, SumSupport
<1> QED BY <1>2, <1>6, <1>7 DEF Units, f, T

LEMMA WearableType == Wearable \subseteq Stack \cup {NoItem}
BY DEF Wearable

LEMMA HeldByType ==
  ASSUME NEW inv \in Inventories, NEW eq \in Wearable, NEW k
  PROVE  HeldBy(inv, eq, k) \in Nat
BY UnitsType, UnitType, WearableType DEF HeldBy

\* What all characters have, with the inventories pk and the equipment wn.
Carried(pk, wn, k) == SumOver([c \in Char |-> HeldBy(pk[c], wn[c], k)], Char)

LEMMA CarriedType ==
  ASSUME NEW pk \in [Char -> Inventories], NEW wn \in [Char -> Wearable], NEW k
  PROVE  /\ Carried(pk, wn, k) \in Nat
         /\ \A c \in Char : HeldBy(pk[c], wn[c], k) <= Carried(pk, wn, k)
<1> DEFINE f == [c \in Char |-> HeldBy(pk[c], wn[c], k)]
<1>1. \A c \in Char : f[c] \in Nat
  BY HeldByType
<1>2. \A c \in Char : f[c] = HeldBy(pk[c], wn[c], k)
  OBVIOUS
<1> HIDE DEF f
<1>3. SumOver(f, Char) \in Nat /\ \A c \in Char : f[c] <= SumOver(f, Char)
  BY <1>1, CharAssumption, SumNat, SumMembers
<1> QED BY <1>2, <1>3 DEF Carried, f

\* One character's things change.
LEMMA CarriedPut ==
  ASSUME NEW pk \in [Char -> Inventories], NEW wn \in [Char -> Wearable], NEW k,
         NEW pk2 \in [Char -> Inventories], NEW wn2 \in [Char -> Wearable],
         NEW d \in Char, \A c \in Char \ {d} : pk2[c] = pk[c] /\ wn2[c] = wn[c]
  PROVE  Carried(pk2, wn2, k) =
           Carried(pk, wn, k) - HeldBy(pk[d], wn[d], k) + HeldBy(pk2[d], wn2[d], k)
<1> DEFINE f == [c \in Char |-> HeldBy(pk[c], wn[c], k)]
           g == [c \in Char |-> HeldBy(pk2[c], wn2[c], k)]
<1>1. \A c \in Char : f[c] \in Int /\ f[c] = HeldBy(pk[c], wn[c], k)
  BY HeldByType
<1>2. \A c \in Char : g[c] \in Int /\ g[c] = HeldBy(pk2[c], wn2[c], k)
  BY HeldByType
<1>3. \A c \in Char \ {d} : g[c] = f[c]
  OBVIOUS
<1> HIDE DEF f, g
<1>4. SumOver(g, Char) = SumOver(f, Char) - f[d] + g[d]
  BY <1>1, <1>2, <1>3, CharAssumption, SumUpdate
<1> QED BY <1>1, <1>2, <1>4 DEF Carried, f, g

\* The things of two characters change.
LEMMA CarriedPutTwo ==
  ASSUME NEW pk \in [Char -> Inventories], NEW wn \in [Char -> Wearable], NEW k,
         NEW pk2 \in [Char -> Inventories], NEW wn2 \in [Char -> Wearable],
         NEW d \in Char, NEW e \in Char, d # e,
         \A c \in Char \ {d, e} : pk2[c] = pk[c] /\ wn2[c] = wn[c]
  PROVE  Carried(pk2, wn2, k) =
           Carried(pk, wn, k) - HeldBy(pk[d], wn[d], k) - HeldBy(pk[e], wn[e], k)
             + HeldBy(pk2[d], wn2[d], k) + HeldBy(pk2[e], wn2[e], k)
<1> DEFINE f == [c \in Char |-> HeldBy(pk[c], wn[c], k)]
           g == [c \in Char |-> HeldBy(pk2[c], wn2[c], k)]
<1>1. \A c \in Char : f[c] \in Int /\ f[c] = HeldBy(pk[c], wn[c], k)
  BY HeldByType
<1>2. \A c \in Char : g[c] \in Int /\ g[c] = HeldBy(pk2[c], wn2[c], k)
  BY HeldByType
<1>3. \A c \in Char \ {d, e} : g[c] = f[c]
  OBVIOUS
<1> HIDE DEF f, g
<1>4. SumOver(g, Char) = SumOver(f, Char) - f[d] - f[e] + g[d] + g[e]
  BY <1>1, <1>2, <1>3, CharAssumption, SumUpdateTwo
<1> QED BY <1>1, <1>2, <1>4 DEF Carried, f, g

Stacks(k) == {i \in Stack : i.kind = k}

LEMMA StacksFinite ==
  ASSUME NEW k
  PROVE  IsFiniteSet(Stacks(k))
<1> DEFINE f == [i \in Stacks(k) |-> i.amount]
<1>1. f \in [Stacks(k) -> 1..MaxAmount]
  BY DEF Stacks, Stack
<1>2. \A i, j \in Stacks(k) : f[i] = f[j] => i = j
  BY DEF Stacks, Stack
<1>3. f \in Injection(Stacks(k), 1..MaxAmount)
  BY <1>1, <1>2 DEF Injection, IsInjective
<1>4. IsFiniteSet(1..MaxAmount)
  BY FS_Interval, MaxAmountAssumption
<1> QED BY <1>3, <1>4, FS_Injection

\* The units lying on the ground.
LyingAt(g, k) == [i \in Stacks(k) |-> g[i] * i.amount]

Lying(g, k) == SumOver(LyingAt(g, k), Stacks(k))

\* n items more of the stack i.
LEMMA MoreItems ==
  ASSUME NEW n \in Nat, NEW a \in Nat
  PROVE  n * a \in Nat /\ (n + 1) * a = n * a + a
OBVIOUS

LEMMA LyingType ==
  ASSUME NEW g \in [Stack -> Nat], NEW k
  PROVE  /\ \A i \in Stacks(k) : LyingAt(g, k)[i] = g[i] * i.amount /\ LyingAt(g, k)[i] \in Nat
         /\ Lying(g, k) \in Nat
<1> DEFINE f == LyingAt(g, k)
<1>1. \A i \in Stacks(k) : f[i] = g[i] * i.amount /\ g[i] \in Nat /\ i.amount \in Nat
  BY DEF LyingAt, Stacks, Stack
<1>2. \A i \in Stacks(k) : f[i] \in Nat
  <2> HIDE DEF f
  <2> QED BY <1>1, MoreItems
<1>3. SumOver(f, Stacks(k)) \in Nat
  <2> HIDE DEF f
  <2> QED BY <1>2, StacksFinite, SumNat
<1> QED BY <1>1, <1>2, <1>3 DEF Lying

\* An item is put down.
LEMMA LyingMore ==
  ASSUME NEW g \in [Stack -> Nat], NEW h \in [Stack -> Nat], NEW i \in Stack, NEW k,
         h[i] = g[i] + 1, \A j \in Stack \ {i} : h[j] = g[j]
  PROVE  Lying(h, k) = Lying(g, k) + Unit(i, k)
<1> DEFINE S  == Stacks(k)
           fg == LyingAt(g, k)
           fh == LyingAt(h, k)
<1>1. /\ \A j \in S : fg[j] = g[j] * j.amount /\ fg[j] \in Int
      /\ \A j \in S : fh[j] = h[j] * j.amount /\ fh[j] \in Int
  BY LyingType
<1>2. S \subseteq Stack /\ IsFiniteSet(S) /\ (i \in S <=> i.kind = k)
  BY StacksFinite DEF Stacks
<1>3. i # NoItem /\ i.amount \in Nat /\ g[i] \in Nat
  BY NoItemAssumption DEF Stack
<1>4. Lying(g, k) = SumOver(fg, S) /\ Lying(h, k) = SumOver(fh, S)
  BY DEF Lying
<1>5. SumOver(fg, S) \in Int
  <2> HIDE DEF fg, S
  <2> QED BY <1>1, <1>2, SumType
<1> HIDE DEF S, fg, fh
<1>6. CASE i \in S
  <2>1. fh[i] = fg[i] + i.amount
    <3>1. fh[i] = (g[i] + 1) * i.amount /\ fg[i] = g[i] * i.amount
      BY <1>1, <1>6
    <3>2. (g[i] + 1) * i.amount = g[i] * i.amount + i.amount
      BY <1>3, MoreItems
    <3> QED BY <3>1, <3>2
  <2>2. \A j \in S \ {i} : fh[j] = fg[j]
    BY <1>1, <1>2
  <2>3. SumOver(fh, S) = SumOver(fg, S) - fg[i] + fh[i]
    BY <1>1, <1>2, <1>6, <2>2, SumUpdate
  <2>4. Unit(i, k) = i.amount
    BY <1>2, <1>3, <1>6 DEF Unit
  <2>5. fg[i] \in Int
    BY <1>1, <1>6
  <2> QED BY <1>3, <1>4, <1>5, <2>1, <2>3, <2>4, <2>5
<1>7. CASE i \notin S
  <2>1. \A j \in S : fh[j] = fg[j]
    BY <1>1, <1>2, <1>7
  <2>2. SumOver(fh, S) = SumOver(fg, S)
    BY <1>1, <1>2, <2>1, SumEqual
  <2>3. Unit(i, k) = 0
    BY <1>2, <1>7 DEF Unit
  <2> QED BY <1>4, <1>5, <2>2, <2>3
<1> QED BY <1>6, <1>7

\* An item is picked up.
LEMMA LyingLess ==
  ASSUME NEW g \in [Stack -> Nat], NEW h \in [Stack -> Nat], NEW i \in Stack, NEW k,
         h[i] = g[i] - 1, \A j \in Stack \ {i} : h[j] = g[j]
  PROVE  Lying(h, k) = Lying(g, k) - Unit(i, k)
<1>1. g[i] = h[i] + 1 /\ \A j \in Stack \ {i} : g[j] = h[j]
  OBVIOUS
<1>2. Lying(g, k) = Lying(h, k) + Unit(i, k)
  BY <1>1, LyingMore
<1>3. Lying(g, k) \in Nat /\ Lying(h, k) \in Nat /\ Unit(i, k) \in Nat
  BY LyingType, UnitType
<1> QED BY <1>2, <1>3

\* Whether there is a collectible block of the kind.
Standing(b, k) == IF k \in b THEN 1 ELSE 0

LEMMA StandingIs ==
  ASSUME NEW b, NEW k
  PROVE  Cardinality({k} \cap b) = Standing(b, k)
<1>1. CASE k \in b
  <2>1. {k} \cap b = {k}
    BY <1>1
  <2> QED BY <1>1, <2>1, FS_Singleton DEF Standing
<1>2. CASE k \notin b
  <2>1. {k} \cap b = {}
    BY <1>2
  <2> QED BY <1>2, <2>1, FS_EmptySet DEF Standing
<1> QED BY <1>1, <1>2

\* All units of the kind k.
Everything(pk, wn, g, b, k) == Carried(pk, wn, k) + Lying(g, k) + Standing(b, k)

LEMMA TotalIs ==
  ASSUME TypeOK, NEW k \in Kind
  PROVE  Total(k) = Everything(pack, worn, ground, blocks, k)
<1>1. \A c \in Char : Held(c, k) = HeldBy(pack[c], worn[c], k)
  BY HeldIs DEF Held, HeldBy, Unit, TypeOK
<1>2. MapThenSumSet(LAMBDA c : Held(c, k), Char) = SumOver([c \in Char |-> Held(c, k)], Char)
  BY ZenonT(60) DEF MapThenSumSet, MapThenFoldSet, SumOver
<1>3. MapThenSumSet(LAMBDA i : ground[i] * i.amount, {i \in Stack : i.kind = k})
        = SumOver(LyingAt(ground, k), Stacks(k))
  BY ZenonT(60) DEF MapThenSumSet, MapThenFoldSet, SumOver, LyingAt, Stacks
<1>4. [c \in Char |-> Held(c, k)] = [c \in Char |-> HeldBy(pack[c], worn[c], k)]
  BY <1>1
<1> QED BY <1>2, <1>3, <1>4, StandingIs DEF Total, Everything, Carried, Lying

-----------------------------------------------------------------------------
(* No step makes a unit *)

\* A step leaves no more units of any kind than there were.
Conserves(k) ==
  Everything(pack', worn', ground', blocks', k) <= Everything(pack, worn, ground, blocks, k)

LEMMA EverythingType ==
  ASSUME NEW pk \in [Char -> Inventories], NEW wn \in [Char -> Wearable],
         NEW g \in [Stack -> Nat], NEW b, NEW k
  PROVE  /\ Carried(pk, wn, k) \in Nat /\ Lying(g, k) \in Nat /\ Standing(b, k) \in Nat
         /\ Everything(pk, wn, g, b, k) = Carried(pk, wn, k) + Lying(g, k) + Standing(b, k)
         /\ \A c \in Char : HeldBy(pk[c], wn[c], k) <= Everything(pk, wn, g, b, k)
<1>1. Carried(pk, wn, k) \in Nat /\ Lying(g, k) \in Nat /\ Standing(b, k) \in Nat
  BY CarriedType, LyingType DEF Standing
<1>2. \A c \in Char : /\ HeldBy(pk[c], wn[c], k) <= Carried(pk, wn, k)
                      /\ HeldBy(pk[c], wn[c], k) \in Nat
  BY CarriedType, HeldByType
<1> QED BY <1>1, <1>2 DEF Everything

\* The share of the one who manipulates changes, nobody else's.
LEMMA ManipulateCarried ==
  ASSUME TypeOK, TypeOK', NEW p \in Player, NEW inv \in Inventories,
         NEW eq \in Wearable, Manipulate(p, inv, eq), NEW k
  PROVE  Carried(pack', worn', k) =
           Carried(pack, worn, k) - HeldBy(Inv(p), worn[active[p]], k) + HeldBy(inv, eq, k)
<1> DEFINE d == active[p]
<1>0. d \in Char
  BY DEF Manipulate, InGame
<1>1. pack' = [pack EXCEPT ![d] = inv] /\ worn' = [worn EXCEPT ![d] = eq]
  BY DEF Manipulate
<1>2. /\ pack \in [Char -> Inventories] /\ worn \in [Char -> Wearable]
      /\ pack' \in [Char -> Inventories] /\ worn' \in [Char -> Wearable]
  BY DEF TypeOK
<1>3. /\ pack'[d] = inv /\ worn'[d] = eq /\ pack[d] = Inv(p)
      /\ \A c \in Char \ {d} : pack'[c] = pack[c] /\ worn'[c] = worn[c]
  BY <1>0, <1>1, <1>2 DEF Inv
<1> HIDE DEF d
<1>4. Carried(pack', worn', k) =
        Carried(pack, worn, k) - HeldBy(pack[d], worn[d], k) + HeldBy(pack'[d], worn'[d], k)
  BY <1>0, <1>2, <1>3, CarriedPut
<1> QED BY <1>3, <1>4 DEF d

\* What a manipulation leaves, puts down or picks up is no more than what was
\* there.
LEMMA ManipulateConserves ==
  ASSUME TypeOK, TypeOK', NEW p \in Player, NEW inv \in Inventories,
         NEW eq \in Wearable, Manipulate(p, inv, eq), NEW k,
         HeldBy(inv, eq, k) + Lying(ground', k) + Standing(blocks', k)
           <= HeldBy(Inv(p), worn[active[p]], k) + Lying(ground, k) + Standing(blocks, k)
  PROVE  Conserves(k)
<1>1. Carried(pack', worn', k) =
        Carried(pack, worn, k) - HeldBy(Inv(p), worn[active[p]], k) + HeldBy(inv, eq, k)
  BY ManipulateCarried
<1>2. Inv(p) \in Inventories /\ worn[active[p]] \in Wearable
  BY InvType DEF Manipulate
<1>3. HeldBy(inv, eq, k) \in Nat /\ HeldBy(Inv(p), worn[active[p]], k) \in Nat
  BY <1>2, HeldByType
<1>4. /\ pack \in [Char -> Inventories] /\ worn \in [Char -> Wearable]
      /\ pack' \in [Char -> Inventories] /\ worn' \in [Char -> Wearable]
      /\ ground \in [Stack -> Nat] /\ ground' \in [Stack -> Nat]
  BY DEF TypeOK
<1>5. /\ Carried(pack, worn, k) \in Nat /\ Lying(ground, k) \in Nat
      /\ Standing(blocks, k) \in Nat
      /\ Lying(ground', k) \in Nat /\ Standing(blocks', k) \in Nat
  BY <1>4, EverythingType
<1> QED BY <1>1, <1>3, <1>5 DEF Conserves, Everything

LEMMA OwnConserves ==
  ASSUME TypeOK, TypeOK', NEW p \in Player, NEW inv \in Inventories,
         NEW eq \in Wearable, ManipulateOwn(p, inv, eq), NEW k,
         HeldBy(inv, eq, k) <= HeldBy(Inv(p), worn[active[p]], k)
  PROVE  Conserves(k)
<1>1. Manipulate(p, inv, eq) /\ ground' = ground /\ blocks' = blocks
  BY DEF ManipulateOwn
<1>2. Inv(p) \in Inventories /\ worn[active[p]] \in Wearable
  BY <1>1, InvType DEF Manipulate
<1>3. HeldBy(inv, eq, k) \in Nat /\ HeldBy(Inv(p), worn[active[p]], k) \in Nat
  BY <1>2, HeldByType
<1>4. Lying(ground, k) \in Nat /\ Standing(blocks, k) \in Nat
  BY LyingType DEF TypeOK, Standing
<1>5. HeldBy(inv, eq, k) + Lying(ground', k) + Standing(blocks', k)
        <= HeldBy(Inv(p), worn[active[p]], k) + Lying(ground, k) + Standing(blocks, k)
  BY <1>1, <1>3, <1>4
<1> QED BY <1>1, <1>5, ManipulateConserves

LEMMA DropConserves ==
  ASSUME TypeOK, TypeOK', NEW p \in Player, NEW inv \in Inventories,
         NEW eq \in Wearable, NEW i \in Stack, ManipulateDrop(p, inv, eq, i), NEW k,
         HeldBy(inv, eq, k) + Unit(i, k) <= HeldBy(Inv(p), worn[active[p]], k)
  PROVE  Conserves(k)
<1>1. /\ Manipulate(p, inv, eq) /\ ground' = [ground EXCEPT ![i] = @ + 1]
      /\ blocks' = blocks
  BY DEF ManipulateDrop
<1>2. Inv(p) \in Inventories /\ worn[active[p]] \in Wearable
  BY <1>1, InvType DEF Manipulate
<1>3. HeldBy(inv, eq, k) \in Nat /\ HeldBy(Inv(p), worn[active[p]], k) \in Nat
  BY <1>2, HeldByType
<1>4. ground \in [Stack -> Nat] /\ ground' \in [Stack -> Nat]
  BY DEF TypeOK
<1>5. ground'[i] = ground[i] + 1 /\ \A j \in Stack \ {i} : ground'[j] = ground[j]
  BY <1>1, <1>4
<1>6. Lying(ground', k) = Lying(ground, k) + Unit(i, k)
  BY <1>4, <1>5, LyingMore
<1>7. Lying(ground, k) \in Nat /\ Standing(blocks, k) \in Nat /\ Unit(i, k) \in Nat
  BY <1>4, LyingType, UnitType DEF Standing
<1>8. HeldBy(inv, eq, k) + Lying(ground', k) + Standing(blocks', k)
        <= HeldBy(Inv(p), worn[active[p]], k) + Lying(ground, k) + Standing(blocks, k)
  BY <1>1, <1>3, <1>6, <1>7
<1> QED BY <1>1, <1>8, ManipulateConserves

\* A slot's content is replaced.
LEMMA ReplaceUnits ==
  ASSUME NEW inv \in Inventories, NEW s \in Slot, NEW i \in Stack \cup {NoItem}, NEW k
  PROVE  /\ [inv EXCEPT ![s] = i] \in Inventories
         /\ Units([inv EXCEPT ![s] = i], k) = Units(inv, k) - Unit(inv[s], k) + Unit(i, k)
<1> DEFINE new == [inv EXCEPT ![s] = i]
<1>1. new \in Inventories /\ new[s] = i /\ \A x \in Slot \ {s} : new[x] = inv[x]
  BY DEF Inventories
<1> HIDE DEF new
<1>2. SameBut(new, inv, {s})
  BY <1>1 DEF SameBut
<1>3. Units(new, k) = Units(inv, k) - Unit(inv[s], k) + Unit(new[s], k)
  BY <1>2, UnitsPut
<1> QED BY <1>1, <1>3 DEF new

\* Half of a stack.
LEMMA HalfUnits ==
  ASSUME NEW i \in Stack, NEW k
  PROVE  /\ HalfOf(i) \in Nat /\ HalfOf(i) <= i.amount
         /\ Unit([kind |-> i.kind, amount |-> HalfOf(i)], k) = IF i.kind = k THEN HalfOf(i) ELSE 0
         /\ Unit([i EXCEPT !.amount = HalfOf(i)], k) = IF i.kind = k THEN HalfOf(i) ELSE 0
<1> DEFINE half == [kind |-> i.kind, amount |-> HalfOf(i)]
           part == [i EXCEPT !.amount = HalfOf(i)]
<1>1. HalfOf(i) \in Nat /\ HalfOf(i) <= i.amount
  BY MaxAmountAssumption DEF HalfOf, Stack
<1>2. half \in Stack /\ part \in Stack
  BY HalfType
<1>3. half # NoItem /\ part # NoItem
  BY <1>2, NoItemAssumption
<1>4. /\ half.kind = i.kind /\ half.amount = HalfOf(i)
      /\ part.kind = i.kind /\ part.amount = HalfOf(i)
  BY DEF Stack
<1> HIDE DEF half, part
<1>5. /\ Unit(half, k) = IF i.kind = k THEN HalfOf(i) ELSE 0
      /\ Unit(part, k) = IF i.kind = k THEN HalfOf(i) ELSE 0
  BY <1>3, <1>4 DEF Unit
<1> QED BY <1>1, <1>5 DEF half, part

\* Half of a stack taken.
LEMMA TakeHalfUnits ==
  ASSUME NEW inv \in Inventories, NEW s \in Slot, inv[s] # NoItem, NEW k
  PROVE  LET n == HalfOf(inv[s])
         IN  /\ TakeUnits(inv, s, n) \in Inventories
             /\ Units(TakeUnits(inv, s, n), k)
                  = Units(inv, k) - IF inv[s].kind = k THEN n ELSE 0
<1> DEFINE n == HalfOf(inv[s])
<1>1. inv[s] \in Stack
  BY DEF Inventories
<1>2. n \in Nat /\ n <= inv[s].amount /\ inv[s].amount \in Nat
  <2>1. n \in Nat /\ n <= inv[s].amount
    BY <1>1, HalfUnits
  <2>2. inv[s].amount \in Nat
    BY <1>1 DEF Stack
  <2> QED BY <2>1, <2>2
<1> HIDE DEF n
<1>3. TakeUnits(inv, s, n) \in Inventories
  BY <1>2, TakeUnitsType
<1>4. Units(TakeUnits(inv, s, n), k) =
        Units(inv, k) - (IF inv[s] # NoItem /\ inv[s].kind = k
                           THEN IF n < inv[s].amount THEN n ELSE inv[s].amount
                           ELSE 0)
  BY <1>2, TakeUnitsUnits
<1>5. Units(TakeUnits(inv, s, n), k) = Units(inv, k) - IF inv[s].kind = k THEN n ELSE 0
  BY <1>2, <1>4
<1> QED BY <1>3, <1>5 DEF n

\* Picking up takes the item off the ground.
LEMMA PickupConserves ==
  ASSUME TypeOK, TypeOK', NEW p \in Player, NEW i \in Stack, Pickup(p, i), NEW k
  PROVE  Conserves(k)
<1> DEFINE inv == Inv(p)
           eq  == worn[active[p]]
<1>0. InGame(p) /\ ground[i] > 0
  BY DEF Pickup
<1>1. inv \in Inventories /\ eq \in Wearable /\ eq \in Stack \cup {NoItem}
  BY <1>0, InvType, WearableType
<1>2. ASSUME NEW new \in Inventories, NEW neq \in Wearable, Manipulate(p, new, neq),
             ground' = [ground EXCEPT ![i] = @ - 1], blocks' = blocks,
             HeldBy(new, neq, k) = HeldBy(inv, eq, k) + Unit(i, k)
      PROVE  Conserves(k)
  <2>1. ground \in [Stack -> Nat] /\ ground' \in [Stack -> Nat]
    BY DEF TypeOK
  <2>2. ground'[i] = ground[i] - 1 /\ \A j \in Stack \ {i} : ground'[j] = ground[j]
    BY <1>2, <2>1
  <2>3. Lying(ground', k) = Lying(ground, k) - Unit(i, k)
    BY <2>1, <2>2, LyingLess
  <2>4. /\ Lying(ground, k) \in Nat /\ Standing(blocks, k) \in Nat /\ Unit(i, k) \in Nat
        /\ HeldBy(inv, eq, k) \in Nat
    BY <1>1, <2>1, LyingType, UnitType, HeldByType DEF Standing
  <2>5. HeldBy(new, neq, k) + Lying(ground', k) + Standing(blocks', k)
          <= HeldBy(inv, eq, k) + Lying(ground, k) + Standing(blocks, k)
    BY <1>2, <2>3, <2>4
  <2> QED BY <1>2, <2>5, ManipulateConserves
<1>3. CASE i.kind \in Equippable /\ eq = NoItem
  <2>1. inv # Full
    BY <1>1, FullAssumption
  <2>2. Manipulate(p, inv, i) /\ ground' = [ground EXCEPT ![i] = @ - 1] /\ blocks' = blocks
    BY <1>3, <2>1 DEF Pickup
  <2>3. i \in Wearable
    BY <1>3 DEF Wearable
  <2>4. HeldBy(inv, i, k) = HeldBy(inv, eq, k) + Unit(i, k)
    <3>1. Unit(eq, k) = 0
      BY <1>3 DEF Unit
    <3>2. Units(inv, k) \in Nat /\ Unit(i, k) \in Nat
      BY <1>1, UnitsType, UnitType
    <3> QED BY <3>1, <3>2 DEF HeldBy
  <2> QED BY <1>1, <1>2, <2>2, <2>3, <2>4
<1>4. CASE ~(i.kind \in Equippable /\ eq = NoItem) /\ Push(inv, i) = Full
  <2>1. ManipulateOwn(p, inv, eq)
    BY <1>4 DEF Pickup
  <2>2. HeldBy(inv, eq, k) <= HeldBy(inv, eq, k)
    BY <1>1, HeldByType
  <2> QED BY <1>1, <2>1, <2>2, OwnConserves
<1>5. CASE ~(i.kind \in Equippable /\ eq = NoItem) /\ Push(inv, i) # Full
  <2>1. /\ Manipulate(p, Push(inv, i), eq)
        /\ ground' = [ground EXCEPT ![i] = @ - 1] /\ blocks' = blocks
    BY <1>5 DEF Pickup
  <2>2. /\ Push(inv, i) \in Inventories
        /\ Units(Push(inv, i), k) = Units(inv, k) + Unit(i, k)
    BY <1>1, <1>5, PushUnits
  <2>3. Units(inv, k) \in Nat /\ Unit(i, k) \in Nat /\ Unit(eq, k) \in Nat
    BY <1>1, UnitsType, UnitType
  <2>4. HeldBy(Push(inv, i), eq, k) = HeldBy(inv, eq, k) + Unit(i, k)
    BY <2>2, <2>3 DEF HeldBy
  <2> QED BY <1>1, <1>2, <2>1, <2>2, <2>4
<1> QED BY <1>3, <1>4, <1>5

\* Collecting takes the block.
LEMMA CollectConserves ==
  ASSUME TypeOK, TypeOK', NEW p \in Player, NEW j \in Kind, Collect(p, j), NEW k
  PROVE  Conserves(k)
<1> DEFINE inv == Inv(p)
           eq  == worn[active[p]]
           i   == [kind |-> j, amount |-> 1]
<1>0. InGame(p) /\ j \in blocks
  BY DEF Collect
<1>1. inv \in Inventories /\ eq \in Wearable /\ eq \in Stack \cup {NoItem}
  BY <1>0, InvType, WearableType
<1>2. i \in Stack
  BY MaxAmountAssumption DEF Stack
<1>3. CASE Push(inv, i) = Full
  <2>1. ManipulateOwn(p, inv, eq)
    BY <1>3 DEF Collect
  <2>2. HeldBy(inv, eq, k) <= HeldBy(inv, eq, k)
    BY <1>1, HeldByType
  <2> QED BY <1>1, <2>1, <2>2, OwnConserves
<1>4. CASE Push(inv, i) # Full
  <2>1. Manipulate(p, Push(inv, i), eq) /\ blocks' = blocks \ {j} /\ ground' = ground
    BY <1>4 DEF Collect
  <2>2. Unit(i, k) = IF j = k THEN 1 ELSE 0
    <3>1. i # NoItem /\ i.kind = j /\ i.amount = 1
      BY <1>2, NoItemAssumption
    <3> QED BY <3>1 DEF Unit
  <2> HIDE DEF i
  <2>3. /\ Push(inv, i) \in Inventories
        /\ Units(Push(inv, i), k) = Units(inv, k) + Unit(i, k)
    BY <1>1, <1>2, <1>4, PushUnits
  <2>4. Units(inv, k) \in Nat /\ Unit(eq, k) \in Nat
    BY <1>1, UnitsType, UnitType
  <2>5. HeldBy(Push(inv, i), eq, k) = HeldBy(inv, eq, k) + Unit(i, k)
    BY <2>2, <2>3, <2>4 DEF HeldBy
  <2>6. Standing(blocks', k) = Standing(blocks, k) - Unit(i, k)
    BY <1>0, <2>1, <2>2 DEF Standing
  <2>7. Lying(ground, k) \in Nat /\ HeldBy(inv, eq, k) \in Nat /\ Standing(blocks, k) \in Nat
        /\ Unit(i, k) \in Nat
    BY <1>1, <2>2, LyingType, HeldByType DEF Standing, TypeOK
  <2>8. HeldBy(Push(inv, i), eq, k) + Lying(ground', k) + Standing(blocks', k)
          <= HeldBy(inv, eq, k) + Lying(ground, k) + Standing(blocks, k)
    BY <2>1, <2>5, <2>6, <2>7
  <2> QED BY <1>1, <2>1, <2>3, <2>8, ManipulateConserves
<1> QED BY <1>3, <1>4

\* Everything else that is done to an inventory.
LEMMA InventoryConserves ==
  ASSUME TypeOK, TypeOK', InventoryStep, NEW k \in Kind
  PROVE  Conserves(k)
<1> PICK p \in Player :
      \/ \E i \in Stack : Pickup(p, i)
      \/ \E j \in Kind : Collect(p, j)
      \/ \E s \in Slot : Use(p, s) \/ SwapEquipped(p, s) \/ Drop(p, s) \/ SplitDrop(p, s)
      \/ \E a, b \in Slot : SwapSlots(p, a, b) \/ SplitSwap(p, a, b)
      \/ UseEquipped(p)
      \/ DropEquipped(p)
  BY DEF InventoryStep
<1> DEFINE inv == Inv(p)
           eq  == worn[active[p]]
<1>g. InGame(p)
  BY DEF Pickup, Collect, Use, SwapEquipped, Drop, SplitDrop, SwapSlots,
         SplitSwap, UseEquipped, DropEquipped
<1>0. inv \in Inventories /\ eq \in Wearable /\ eq \in Stack \cup {NoItem}
  BY <1>g, InvType, WearableType
<1>n. NoItem \in Wearable /\ Unit(NoItem, k) = 0
  BY DEF Wearable, Unit
<1>u. Units(inv, k) \in Nat /\ Unit(eq, k) \in Nat /\ HeldBy(inv, eq, k) \in Nat
  BY <1>0, UnitsType, UnitType, HeldByType
<1>s. ASSUME ManipulateOwn(p, inv, eq) PROVE Conserves(k)
  <2>1. HeldBy(inv, eq, k) <= HeldBy(inv, eq, k)
    BY <1>u
  <2> QED BY <1>0, <1>s, <2>1, OwnConserves
<1>w. ASSUME NEW s \in Slot, inv[s] \in Wearable,
             ManipulateOwn(p, [inv EXCEPT ![s] = eq], inv[s])
      PROVE  Conserves(k)
  <2> DEFINE new == [inv EXCEPT ![s] = eq]
  <2>1. new \in Inventories /\ Units(new, k) = Units(inv, k) - Unit(inv[s], k) + Unit(eq, k)
    BY <1>0, ReplaceUnits
  <2>2. Unit(inv[s], k) \in Nat
    BY <1>w, UnitType, WearableType
  <2>3. ManipulateOwn(p, new, inv[s])
    BY <1>w
  <2> HIDE DEF new
  <2>4. HeldBy(new, inv[s], k) <= HeldBy(inv, eq, k)
    BY <1>u, <2>1, <2>2 DEF HeldBy
  <2> QED BY <1>w, <2>1, <2>3, <2>4, OwnConserves
<1>1. ASSUME NEW s \in Slot, Use(p, s) PROVE Conserves(k)
  <2>1. CASE /\ inv[s] # NoItem /\ inv[s].kind \in Equippable
             /\ ManipulateOwn(p, [inv EXCEPT ![s] = eq], inv[s])
    <3>1. inv[s] \in Wearable
      BY <1>0, <2>1 DEF Inventories, Wearable
    <3> QED BY <1>w, <2>1, <3>1
  <2>2. CASE ManipulateOwn(p, TakeUnits(inv, s, 1), eq)
    <3> DEFINE new == TakeUnits(inv, s, 1)
               less == IF inv[s] # NoItem /\ inv[s].kind = k
                         THEN IF 1 < inv[s].amount THEN 1 ELSE inv[s].amount ELSE 0
    <3>1. new \in Inventories
      BY <1>0, TakeUnitsType
    <3>2. Units(new, k) = Units(inv, k) - less
      BY <1>0, TakeUnitsUnits
    <3>3. less \in Nat
      BY <1>0 DEF Inventories, Stack
    <3>4. ManipulateOwn(p, new, eq)
      BY <2>2
    <3> HIDE DEF new, less
    <3>5. HeldBy(new, eq, k) <= HeldBy(inv, eq, k)
      BY <1>u, <3>2, <3>3 DEF HeldBy
    <3> QED BY <1>0, <3>1, <3>4, <3>5, OwnConserves
  <2> QED BY <1>1, <1>s, <2>1, <2>2 DEF Use
<1>2. ASSUME NEW s \in Slot, SwapEquipped(p, s) PROVE Conserves(k)
  <2>1. CASE /\ inv[s] = NoItem \/ inv[s].kind \in Equippable
             /\ ManipulateOwn(p, [inv EXCEPT ![s] = eq], inv[s])
    <3>1. inv[s] \in Wearable
      BY <1>0, <2>1 DEF Inventories, Wearable
    <3> QED BY <1>w, <2>1, <3>1
  <2> QED BY <1>2, <1>s, <2>1 DEF SwapEquipped
<1>3. ASSUME NEW s \in Slot, Drop(p, s) PROVE Conserves(k)
  <2>1. CASE inv[s] = NoItem
    BY <1>3, <1>s, <2>1 DEF Drop
  <2>2. CASE inv[s] # NoItem
    <3> DEFINE new == RemoveSlot(inv, s)
    <3>1. ManipulateDrop(p, new, eq, inv[s])
      BY <1>3, <2>2 DEF Drop
    <3>2. inv[s] \in Stack
      BY <1>0, <2>2 DEF Inventories
    <3>3. new \in Inventories /\ Units(new, k) = Units(inv, k) - Unit(inv[s], k) + Unit(NoItem, k)
      BY <1>0, ReplaceUnits DEF RemoveSlot
    <3>4. Unit(inv[s], k) \in Nat
      BY <3>2, UnitType
    <3> HIDE DEF new
    <3>5. HeldBy(new, eq, k) + Unit(inv[s], k) <= HeldBy(inv, eq, k)
      BY <1>n, <1>u, <3>3, <3>4 DEF HeldBy
    <3> QED BY <1>0, <3>1, <3>2, <3>3, <3>5, DropConserves
  <2> QED BY <2>1, <2>2
<1>4. ASSUME NEW s \in Slot, SplitDrop(p, s) PROVE Conserves(k)
  <2>1. CASE inv[s] = NoItem
    BY <1>4, <1>s, <2>1 DEF SplitDrop
  <2>2. CASE inv[s] # NoItem
    <3> DEFINE half == [inv[s] EXCEPT !.amount = HalfOf(inv[s])]
               rest == TakeUnits(inv, s, HalfOf(inv[s]))
    <3>1. ManipulateDrop(p, rest, eq, half)
      BY <1>4, <2>2 DEF SplitDrop
    <3>2. inv[s] \in Stack
      BY <1>0, <2>2 DEF Inventories
    <3>3. half \in Stack
      BY <3>2, HalfType
    <3>4. rest \in Inventories
      BY <1>0, <2>2, TakeHalfUnits
    <3>5. Units(rest, k) = Units(inv, k) - IF inv[s].kind = k THEN HalfOf(inv[s]) ELSE 0
      BY <1>0, <2>2, TakeHalfUnits
    <3>6. Unit(half, k) = IF inv[s].kind = k THEN HalfOf(inv[s]) ELSE 0
      BY <3>2, HalfUnits
    <3>7. HalfOf(inv[s]) \in Nat
      BY <3>2, HalfUnits
    <3> HIDE DEF half, rest
    <3>8. HeldBy(rest, eq, k) + Unit(half, k) <= HeldBy(inv, eq, k)
      BY <1>u, <3>5, <3>6, <3>7 DEF HeldBy
    <3> QED BY <1>0, <3>1, <3>3, <3>4, <3>8, DropConserves
  <2> QED BY <2>1, <2>2
<1>5. ASSUME NEW a \in Slot, NEW b \in Slot, SwapSlots(p, a, b) PROVE Conserves(k)
  <2>1. ASSUME NEW new \in Inventories, Units(new, k) = Units(inv, k),
               ManipulateOwn(p, new, eq)
        PROVE  Conserves(k)
    <3>1. HeldBy(new, eq, k) <= HeldBy(inv, eq, k)
      BY <1>u, <2>1 DEF HeldBy
    <3> QED BY <1>0, <2>1, <3>1, OwnConserves
  <2>2. CASE /\ a # b /\ CanMerge(inv, a, b) /\ CanGrow(inv[b], inv[a].amount)
             /\ ManipulateOwn(p, Merge(inv, a, b), eq)
    BY <1>0, <2>1, <2>2, MergeType, MergeUnits
  <2>3. CASE ManipulateOwn(p, Swap(inv, a, b), eq)
    <3>1. CASE a # b
      BY <1>0, <2>1, <2>3, <3>1, SwapType, SwapUnits
    <3>2. CASE a = b
      <4>1. Swap(inv, a, b) = inv
        BY <1>0, <3>2 DEF Swap, Inventories
      <4> QED BY <1>0, <2>1, <2>3, <4>1
    <3> QED BY <3>1, <3>2
  <2>4. CASE UNCHANGED itemVars
    <3>1. Everything(pack, worn, ground, blocks, k) \in Nat
      BY EverythingType DEF TypeOK
    <3> QED BY <2>4, <3>1 DEF Conserves, itemVars
  <2> QED BY <1>5, <2>2, <2>3, <2>4 DEF SwapSlots
<1>6. ASSUME NEW a \in Slot, NEW b \in Slot, SplitSwap(p, a, b) PROVE Conserves(k)
  <2>1. CASE inv[a] = NoItem
    BY <1>6, <1>s, <2>1 DEF SplitSwap
  <2>2. CASE inv[a] # NoItem
    <3> DEFINE half == [kind |-> inv[a].kind, amount |-> HalfOf(inv[a])]
               rest == TakeUnits(inv, a, HalfOf(inv[a]))
               new  == InsertOrStackAt(rest, b, half)
    <3>1. ManipulateOwn(p, new, eq)
      BY <1>6, <2>2 DEF SplitSwap
    <3>2. inv[a] \in Stack
      BY <1>0, <2>2 DEF Inventories
    <3>3. half \in Stack
      BY <3>2, HalfType
    <3>4. rest \in Inventories
      BY <1>0, <2>2, TakeHalfUnits
    <3>5. Units(rest, k) = Units(inv, k) - IF inv[a].kind = k THEN HalfOf(inv[a]) ELSE 0
      BY <1>0, <2>2, TakeHalfUnits
    <3>6. Unit(half, k) = IF inv[a].kind = k THEN HalfOf(inv[a]) ELSE 0
      BY <3>2, HalfUnits
    <3>7. HalfOf(inv[a]) \in Nat
      BY <3>2, HalfUnits
    <3> HIDE DEF half, rest
    <3>8. new \in Inventories /\ Units(new, k) <= Units(rest, k) + Unit(half, k)
      BY <3>3, <3>4, InsertType, InsertUnits
    <3>9. Units(new, k) \in Nat
      BY <3>8, UnitsType
    <3> HIDE DEF new
    <3>10. HeldBy(new, eq, k) <= HeldBy(inv, eq, k)
      BY <1>u, <3>5, <3>6, <3>7, <3>8, <3>9 DEF HeldBy
    <3> QED BY <1>0, <3>1, <3>8, <3>10, OwnConserves
  <2> QED BY <2>1, <2>2
<1>7. ASSUME UseEquipped(p) PROVE Conserves(k)
  <2>1. CASE eq # NoItem /\ Occupied(inv) # Slot /\ ManipulateOwn(p, Push(inv, eq), NoItem)
    <3>1. eq \in Stack /\ eq.kind \notin Stackable
      BY <1>0, <2>1, TradeAssumption DEF Wearable
    <3>2. Push(inv, eq) \in Inventories
      BY <1>0, <2>1, <3>1, PushFits
    <3>3. Units(Push(inv, eq), k) = Units(inv, k) + Unit(eq, k)
      BY <1>0, <3>1, <3>2, PushUnits, FullAssumption
    <3>4. HeldBy(Push(inv, eq), NoItem, k) <= HeldBy(inv, eq, k)
      BY <1>n, <1>u, <3>3 DEF HeldBy
    <3> QED BY <1>n, <2>1, <3>2, <3>4, OwnConserves
  <2> QED BY <1>7, <1>s, <2>1 DEF UseEquipped
<1>8. ASSUME DropEquipped(p) PROVE Conserves(k)
  <2>1. CASE eq = NoItem
    BY <1>8, <1>s, <2>1 DEF DropEquipped
  <2>2. CASE eq # NoItem
    <3>1. ManipulateDrop(p, inv, NoItem, eq)
      BY <1>8, <2>2 DEF DropEquipped
    <3>2. eq \in Stack
      BY <1>0, <2>2
    <3>3. HeldBy(inv, NoItem, k) + Unit(eq, k) <= HeldBy(inv, eq, k)
      BY <1>n, <1>u DEF HeldBy
    <3> QED BY <1>0, <1>n, <3>1, <3>2, <3>3, DropConserves
  <2> QED BY <2>1, <2>2
<1>9. ASSUME NEW i \in Stack, Pickup(p, i) PROVE Conserves(k)
  BY <1>9, PickupConserves
<1>10. ASSUME NEW j \in Kind, Collect(p, j) PROVE Conserves(k)
  BY <1>10, CollectConserves
<1> QED BY <1>1, <1>2, <1>3, <1>4, <1>5, <1>6, <1>7, <1>8, <1>9, <1>10

-----------------------------------------------------------------------------
(* The parties of a trade *)

\* A trade begins in handle_invite_accept and nowhere else.
LEMMA OnlyBegun ==
  ASSUME IInv, [Next]_vars, NEW id \in TradeId, ~Live(id), Live(id)'
  PROVE  id = next_id /\ \E p, q \in Player : BeginTrade(p, q)
<1>t. TypeOK
  BY DEF IInv
<1>0. trades[id] = NoTrade /\ trades'[id] # NoTrade
  BY DEF Live
<1>1. ASSUME NEW x \in TradeId, Live(x), NEW u, trades' = [trades EXCEPT ![x] = u]
      PROVE  FALSE
  <2>1. x # id
    BY <1>0, <1>1 DEF Live
  <2> QED BY <1>0, <1>1, <1>t, <2>1 DEF TypeOK
<1>2. CASE InventoryStep \/ SessionStep \/ UNCHANGED vars
  <2>1. \/ trades' = trades
        \/ \E p \in Player : InMutableTrade(p) /\ trades' = ImplicitMutation(p)
    <3>1. CASE InventoryStep
      BY <3>1, <1>t, InventoryFrame DEF Manipulated, Untouched
    <3>2. CASE SessionStep \/ UNCHANGED vars
      BY <3>2 DEF SessionStep, ExitInGame, EnterInGame, Disconnect, vars, tradeVars
    <3> QED BY <1>2, <3>1, <3>2
  <2>2. ASSUME NEW p \in Player, InMutableTrade(p), trades' = ImplicitMutation(p)
        PROVE  FALSE
    <3>1. entity_trades[p] \in TradeId /\ Live(entity_trades[p])
      BY <2>2, <1>t DEF InMutableTrade, InTrade, TypeOK
    <3>2. \E u : trades' = [trades EXCEPT ![entity_trades[p]] = u]
      BY <2>2 DEF ImplicitMutation
    <3> QED BY <1>1, <3>1, <3>2
  <2> QED BY <1>0, <2>1, <2>2
<1>3. CASE TradeStep
  <2>1. ASSUME NEW p \in Player, NEW x \in TradeId, NEW s \in Slot, NEW n \in 1..MaxOffer,
               NEW ours \in BOOLEAN,
               ProcessAddItem(p, x, s, n, ours) \/ ProcessRemoveItem(p, x, s, n, ours)
        PROVE  FALSE
    <3>1. Live(x) /\ \E u : trades' = [trades EXCEPT ![x] = u]
      BY <2>1 DEF ProcessAddItem, ProcessRemoveItem, CanProcess
    <3> QED BY <1>1, <3>1
  <2>2. ASSUME NEW p \in Player, NEW x \in TradeId, NEW phase \in Phase,
               ProcessAccept(p, x, phase)
        PROVE  FALSE
    <3>1. Live(x) /\ \E u : trades' = [trades EXCEPT ![x] = u]
      BY <2>2 DEF ProcessAccept, Commit, CanProcess
    <3> QED BY <1>1, <3>1
  <2>3. ASSUME NEW p \in Player, NEW x \in TradeId, ProcessDecline(p, x) PROVE FALSE
    <3>1. Live(x) /\ \E u : trades' = [trades EXCEPT ![x] = u]
      BY <2>3 DEF ProcessDecline
    <3> QED BY <1>1, <3>1
  <2>4. ASSUME NEW p \in Player, NEW q \in Player, BeginTrade(p, q) PROVE id = next_id
    BY <1>0, <1>t, <2>4 DEF BeginTrade, TypeOK
  <2> QED BY <1>3, <2>1, <2>2, <2>3, <2>4 DEF TradeStep
<1> QED BY <1>2, <1>3 DEF Next

\* handle_invite refuses a trade with oneself.
PartiesDiffer ==
  \A id \in TradeId : Live(id) => trades[id].parties[1] # trades[id].parties[2]

LEMMA PartiesDifferStep ==
  ASSUME IInv, PartiesDiffer, [Next]_vars
  PROVE  PartiesDiffer'
<1> SUFFICES ASSUME NEW id \in TradeId, Live(id)'
             PROVE  trades'[id].parties[1] # trades'[id].parties[2]
  BY DEF PartiesDiffer
<1>1. CASE Live(id)
  <2>1. next_id \in Int /\ (Live(id) => id < next_id)
    BY DEF IInv, TypeOK, LiveBelow
  <2>2. trades'[id].parties = trades[id].parties
    BY <1>1, <2>1, NextEvolves DEF Evolves
  <2> QED BY <1>1, <2>2 DEF PartiesDiffer
<1>2. CASE ~Live(id)
  <2>1. PICK p \in Player, q \in Player : id = next_id /\ BeginTrade(p, q)
    BY <1>2, OnlyBegun
  <2>2. trades'[id].parties = <<p, q>> /\ p # q
    BY <2>1 DEF BeginTrade, IInv, TypeOK
  <2> QED BY <2>2
<1> QED BY <1>1, <1>2

-----------------------------------------------------------------------------
(* commit_trade *)

\* The characters of two players in the game differ.
LEMMA DifferentChars ==
  ASSUME TypeOK, NEW t \in PendingTrade, t.parties[1] # t.parties[2],
         \A i \in Side : InGame(t.parties[i])
  PROVE  /\ active[t.parties[1]] \in Char /\ active[t.parties[2]] \in Char
         /\ active[t.parties[1]] # active[t.parties[2]]
         /\ \A i \in Side : /\ t.parties[i] \in Player
                            /\ Inv(t.parties[i]) \in Inventories
                            /\ Inv(t.parties[i]) = pack[active[t.parties[i]]]
<1>1. \A i \in Side : /\ t.parties[i] \in Player /\ active[t.parties[i]] \in Char
                      /\ OwnerOf[active[t.parties[i]]] = t.parties[i]
  BY DEF TypeOK, PendingTrade, InGame
<1>2. 1 \in Side /\ 2 \in Side
  BY DEF Side
<1> QED BY <1>1, <1>2 DEF Inv, TypeOK

\* What a party offers is what its slots hold.
LEMMA NotBroken ==
  ASSUME TypeOK, NEW t \in PendingTrade, NEW i \in Side, InGame(t.parties[i]),
         ~OfferBroken(t, i)
  PROVE  Covered(t.offers[i], Inv(t.parties[i]))
<1> DEFINE o == t.offers[i]
           inv == Inv(t.parties[i])
<1>1. o \in Offer /\ t.parties[i] \in Player
  BY DEF PendingTrade
<1>2. inv \in Inventories
  BY <1>1, InvType
<1>3. \A s \in DOMAIN o : s \in Slot /\ o[s] \in Nat
  BY <1>1, OfferType
<1>4. \A s \in DOMAIN o : inv[s] # NoItem /\ ~(Owned(inv, s) < o[s])
  BY DEF OfferBroken
<1>5. \A s \in DOMAIN o : Owned(inv, s) = inv[s].amount /\ inv[s].amount \in Nat
  BY <1>2, <1>3, <1>4 DEF Owned, Inventories, Stack
<1> QED BY <1>1, <1>3, <1>4, <1>5 DEF Covered

LEMMA GivingIs ==
  ASSUME NEW t, NEW i
  PROVE  /\ AfterGiving(t, i) = Left(t.offers[i], Inv(t.parties[i]))
         /\ \A o : Given(t, i, o) = Parcel(t.offers[i], Inv(t.parties[i]), o)
         /\ OfferOrders(t, i) = SetToSeqs(Wanted(t.offers[i]))
BY DEF AfterGiving, Left, Given, Parcel, OfferOrders, Wanted

\* The check of commit_trade counts the empty slots: those there are and those
\* of the stacks given away whole.
LEMMA EnoughSlots ==
  ASSUME TypeOK, NEW t \in PendingTrade, NEW i \in Side, InGame(t.parties[i]),
         Covered(t.offers[i], Inv(t.parties[i])), ~NoSpace(t, i)
  PROVE  Free(AfterGiving(t, i)) >= Cardinality(Wanted(t.offers[3 - i]))
<1> DEFINE o     == t.offers[i]
           other == t.offers[3 - i]
           inv   == Inv(t.parties[i])
           left  == AfterGiving(t, i)
           occ   == Occupied(inv)
           whole == {s \in DOMAIN o : o[s] = Owned(inv, s)}
           empty == Slot \ Occupied(inv)
<1>1. 3 - i \in Side /\ t.parties[i] \in Player /\ o \in Offer /\ other \in Offer
  BY DEF PendingTrade, Side
<1>2. inv \in Inventories
  BY <1>1, InvType
<1>3. /\ DOMAIN o \subseteq Slot /\ DOMAIN other \subseteq Slot
      /\ \A s \in DOMAIN o : inv[s] # NoItem /\ o[s] \in Nat
  BY <1>1, OfferType DEF Covered
<1>4. /\ IsFiniteSet(DOMAIN other) /\ Cardinality(DOMAIN other) \in Nat
      /\ IsFiniteSet(whole) /\ Cardinality(whole) \in Nat
      /\ IsFiniteSet(occ) /\ Cardinality(occ) \in Nat
      /\ IsFiniteSet(empty) /\ Cardinality(empty) \in Nat
  <2>1. whole \subseteq Slot /\ occ \subseteq Slot /\ empty \subseteq Slot
    BY <1>3 DEF Occupied
  <2> HIDE DEF whole, occ, empty, other
  <2> QED BY <1>3, <2>1, SlotFinite, FS_Subset, FS_CardinalityType
<1>5. Cardinality(occ) + (Cardinality(DOMAIN other) - Cardinality(whole)) <= NSlots
  <2>1. ~(Cardinality(occ) + (Cardinality(DOMAIN other) - Cardinality(whole)) > NSlots)
    BY DEF NoSpace, DeltaSlots
  <2> HIDE DEF whole, occ, other
  <2> QED BY <1>4, <2>1, NSlotsAssumption
<1>6. Cardinality(occ) + Cardinality(empty) = NSlots
  <2>1. occ \cup empty = Slot /\ occ \cap empty = {}
    BY DEF Occupied
  <2> HIDE DEF occ, empty
  <2>2. Cardinality(occ \cup empty) = Cardinality(occ) + Cardinality(empty) - Cardinality(occ \cap empty)
    BY <1>4, FS_Union
  <2>3. Cardinality(occ \cap empty) = 0 /\ Cardinality(occ \cup empty) = NSlots
    BY <2>1, SlotFinite, FS_EmptySet
  <2> QED BY <1>4, <2>2, <2>3
<1>7. Cardinality(empty \cup whole) = Cardinality(empty) + Cardinality(whole)
  <2>1. empty \cap whole = {}
    BY <1>3 DEF Occupied
  <2> HIDE DEF whole, empty
  <2>2. Cardinality(empty \cup whole) = Cardinality(empty) + Cardinality(whole) - Cardinality(empty \cap whole)
    BY <1>4, FS_Union
  <2>3. Cardinality(empty \cap whole) = 0
    BY <2>1, FS_EmptySet
  <2> QED BY <1>4, <2>2, <2>3
<1>8. empty \cup whole \subseteq Slot \ Occupied(left)
  <2> SUFFICES ASSUME NEW s \in empty \cup whole PROVE s \in Slot /\ left[s] = NoItem
    BY DEF Occupied
  <2>1. CASE s \in DOMAIN o
    <3>1. s \in whole /\ s \in Slot
      BY <1>3, <2>1 DEF Occupied
    <3>2. left[s] = TakeUnits(inv, s, o[s])[s]
      BY <2>1, <3>1 DEF AfterGiving
    <3>3. ~(o[s] < Owned(inv, s))
      BY <1>3, <3>1
    <3> QED BY <1>2, <3>1, <3>2, <3>3 DEF TakeUnits, RemoveSlot, Inventories
  <2>2. CASE s \notin DOMAIN o
    BY <2>2 DEF AfterGiving, Occupied
  <2> QED BY <2>1, <2>2
<1>9. Cardinality(empty \cup whole) <= Free(left)
  <2> HIDE DEF empty, whole, left
  <2> QED BY <1>8, FreeType, FS_Subset DEF Free
<1>10. Cardinality(Wanted(other)) <= Cardinality(DOMAIN other) /\ Cardinality(Wanted(other)) \in Nat
  <2>1. Wanted(other) \subseteq DOMAIN other
    BY DEF Wanted
  <2> HIDE DEF other
  <2> QED BY <1>4, <2>1, FS_Subset, FS_CardinalityType
<1>11. Free(left) \in Nat
  BY FreeType
<1> HIDE DEF o, other, inv, left, occ, whole, empty
<1>12. Free(left) >= Cardinality(Wanted(other))
  BY <1>4, <1>5, <1>6, <1>7, <1>9, <1>10, <1>11, NSlotsAssumption
<1> QED BY <1>12 DEF left, other

\* What a side has after the exchange, and that it fits.
LEMMA Exchange ==
  ASSUME TypeOK, NEW t \in PendingTrade, NEW i \in Side,
         \A j \in Side : InGame(t.parties[j]) /\ ~OfferBroken(t, j),
         NEW order \in OfferOrders(t, 3 - i)
  PROVE  LET mine   == GoodsOf(t.offers[i], Inv(t.parties[i]))
             theirs == GoodsOf(t.offers[3 - i], Inv(t.parties[3 - i]))
             after  == PushAll(AfterGiving(t, i), Given(t, 3 - i, order))
         IN  /\ after \in Inventories =>
                  \A k \in Kind :
                    Units(after, k) = Units(Inv(t.parties[i]), k) - mine[k] + theirs[k]
             /\ /\ ~NoSpace(t, i)
                /\ \A k \in Kind :
                     Units(Inv(t.parties[i]), k) + Units(Inv(t.parties[3 - i]), k) <= MaxAmount
                => after \in Inventories
<1> DEFINE mine   == GoodsOf(t.offers[i], Inv(t.parties[i]))
           theirs == GoodsOf(t.offers[3 - i], Inv(t.parties[3 - i]))
           left   == AfterGiving(t, i)
           after  == PushAll(left, Given(t, 3 - i, order))
           own    == Inv(t.parties[i])
           foreign == Inv(t.parties[3 - i])
           gift   == t.offers[3 - i]
<1>1. 3 - i \in Side /\ \A j \in Side : t.parties[j] \in Player /\ t.offers[j] \in Offer
  BY DEF PendingTrade, Side
<1>2. own \in Inventories /\ foreign \in Inventories
  BY <1>1, InvType
<1>3. Covered(t.offers[i], own) /\ Covered(gift, foreign)
  BY <1>1, NotBroken
<1>4. left = Left(t.offers[i], own) /\ order \in SetToSeqs(Wanted(gift))
  BY GivingIs
<1>5. after = PushAll(left, Parcel(gift, foreign, order))
  BY GivingIs
<1>6. /\ left \in Inventories
      /\ \A k \in Kind : Units(own, k) = Units(left, k) + mine[k]
  <2>1. mine = GoodsOf(t.offers[i], own)
    OBVIOUS
  <2> HIDE DEF own, left, mine
  <2>2. \A k \in Kind : Units(own, k) = Units(Left(t.offers[i], own), k)
                                         + GoodsOf(t.offers[i], own)[k]
    BY <1>2, <1>3, LeftUnits
  <2>3. Left(t.offers[i], own) \in Inventories
    BY <1>2, <1>3, LeftType DEF Covered
  <2> QED BY <1>4, <2>1, <2>2, <2>3
<1>7. \A k \in Kind : Units(foreign, k) = Units(Left(gift, foreign), k) + theirs[k]
  BY <1>2, <1>3, LeftUnits
<1>8. \A k \in Kind : /\ mine[k] \in Nat /\ theirs[k] \in Nat
                      /\ Units(left, k) \in Nat /\ Units(Left(gift, foreign), k) \in Nat
  <2>1. mine \in [Kind -> Nat] /\ theirs \in [Kind -> Nat]
    BY <1>1, GoodsType
  <2>2. Left(gift, foreign) \in Inventories
    BY <1>2, <1>3, LeftType DEF Covered
  <2> QED BY <1>6, <2>1, <2>2, UnitsType
<1> HIDE DEF mine, theirs, left, own, foreign, gift
<1>9. /\ PushAll(left, Parcel(gift, foreign, order)) # Full =>
           \A k \in Kind : Units(PushAll(left, Parcel(gift, foreign, order)), k)
                             = Units(left, k) + GoodsOf(gift, foreign)[k]
      /\ /\ Free(left) >= Cardinality(Wanted(gift))
         /\ \A k \in Kind : Units(left, k) + GoodsOf(gift, foreign)[k] <= MaxAmount
         => PushAll(left, Parcel(gift, foreign, order)) \in Inventories
  BY <1>2, <1>3, <1>4, <1>6, Received
<1>10. GoodsOf(gift, foreign) = theirs
  BY DEF gift, foreign, theirs
<1> HIDE DEF after
<1>11. after \in Inventories =>
         \A k \in Kind : Units(after, k) = Units(own, k) - mine[k] + theirs[k]
  BY <1>5, <1>6, <1>8, <1>9, <1>10, FullAssumption
<1>12. ASSUME ~NoSpace(t, i), \A k \in Kind : Units(own, k) + Units(foreign, k) <= MaxAmount
       PROVE  after \in Inventories
  <2>1. Free(left) >= Cardinality(Wanted(gift))
    BY <1>3, <1>12, EnoughSlots DEF left, gift, own
  <2>2. \A k \in Kind : Units(left, k) + theirs[k] <= MaxAmount
    BY <1>6, <1>7, <1>8, <1>12, MaxAmountAssumption
  <2> QED BY <1>5, <1>9, <1>10, <2>1, <2>2
<1> QED BY <1>11, <1>12 DEF after, own, foreign, mine, theirs, left

\* The goods of a trade change hands.
Moves(t) ==
  LET d == active[t.parties[1]]
      e == active[t.parties[2]]
      g == [i \in Side |-> GoodsOf(t.offers[i], Inv(t.parties[i]))]
  IN  /\ \A c \in Char \ {d, e} : pack'[c] = pack[c]
      /\ \A k \in Kind :
           /\ Units(pack'[d], k) = Units(pack[d], k) - g[1][k] + g[2][k]
           /\ Units(pack'[e], k) = Units(pack[e], k) - g[2][k] + g[1][k]

LEMMA CommitMoves ==
  ASSUME TypeOK, NEW id \in TradeId, NEW t \in PendingTrade,
         t.parties[1] # t.parties[2], \A i \in Side : InGame(t.parties[i]), Commit(id, t)
  PROVE  \/ /\ pack' = pack
            /\ \A x \in TradeId : finished'[x].result = "Completed" =>
                                    finished[x].result = "Completed"
         \/ Moves(t)
<1>f. \A x \in TradeId : \A r, g : Finish(id, r, g) /\ r # "Completed" /\
        finished'[x].result = "Completed" => finished[x].result = "Completed"
  BY DEF Finish, TypeOK
<1>1. CASE \E i \in Side : OfferBroken(t, i)
  BY <1>1, <1>f DEF Commit
<1>2. CASE /\ \A i \in Side : ~OfferBroken(t, i)
           /\ \E i \in Side : NoSpace(t, i)
  BY <1>2, <1>f DEF Commit
<1>3. CASE \A i \in Side : ~OfferBroken(t, i) /\ ~NoSpace(t, i)
  <2> DEFINE d == active[t.parties[1]]
             e == active[t.parties[2]]
             g(i) == GoodsOf(t.offers[i], Inv(t.parties[i]))
             a1(o2) == PushAll(AfterGiving(t, 1), Given(t, 2, o2))
             a2(o1) == PushAll(AfterGiving(t, 2), Given(t, 1, o1))
  <2>1. PICK o1 \in OfferOrders(t, 1), o2 \in OfferOrders(t, 2) :
          LET after == <<PushAll(AfterGiving(t, 1), Given(t, 2, o2)),
                         PushAll(AfterGiving(t, 2), Given(t, 1, o1))>>
          IN  IF \A i \in Side : after[i] \in Inventories
                THEN pack' = [pack EXCEPT ![active[t.parties[1]]] = after[1],
                                          ![active[t.parties[2]]] = after[2]]
                ELSE UNCHANGED <<pack, finished>>
    BY <1>3 DEF Commit
  <2>2. 1 \in Side /\ 2 \in Side /\ 3 - 1 = 2 /\ 3 - 2 = 1
    BY DEF Side
  <2>3. CASE UNCHANGED <<pack, finished>>
    BY <2>3
  <2>4. CASE /\ a1(o2) \in Inventories /\ a2(o1) \in Inventories
             /\ pack' = [pack EXCEPT ![d] = a1(o2), ![e] = a2(o1)]
    <3>1. /\ d \in Char /\ e \in Char /\ d # e
          /\ Inv(t.parties[1]) = pack[d] /\ Inv(t.parties[2]) = pack[e]
      BY <2>2, DifferentChars
    <3>2. \A k \in Kind : Units(a1(o2), k) = Units(Inv(t.parties[1]), k) - g(1)[k] + g(2)[k]
      <4>1. o2 \in OfferOrders(t, 3 - 1)
        BY <2>2
      <4> QED BY <1>3, <2>2, <2>4, <4>1, Exchange
    <3>3. \A k \in Kind : Units(a2(o1), k) = Units(Inv(t.parties[2]), k) - g(2)[k] + g(1)[k]
      <4>1. o1 \in OfferOrders(t, 3 - 2)
        BY <2>2
      <4> QED BY <1>3, <2>2, <2>4, <4>1, Exchange
    <3> DEFINE u == a1(o2)
               v == a2(o1)
    <3>4. pack' = [pack EXCEPT ![d] = u, ![e] = v]
      BY <2>4
    <3> HIDE DEF u, v, d, e
    <3>5. /\ \A c \in Char \ {d, e} : pack'[c] = pack[c]
          /\ pack'[d] = u /\ pack'[e] = v
      BY <3>1, <3>4 DEF TypeOK
    <3>6. \A k \in Kind : /\ Units(pack'[d], k) = Units(pack[d], k) - g(1)[k] + g(2)[k]
                          /\ Units(pack'[e], k) = Units(pack[e], k) - g(2)[k] + g(1)[k]
      BY <3>1, <3>2, <3>3, <3>5 DEF u, v
    <3> QED BY <2>2, <3>5, <3>6 DEF Moves, d, e
  <2>5. \/ UNCHANGED <<pack, finished>>
        \/ /\ a1(o2) \in Inventories /\ a2(o1) \in Inventories
           /\ pack' = [pack EXCEPT ![d] = a1(o2), ![e] = a2(o1)]
    <3> DEFINE after == <<PushAll(AfterGiving(t, 1), Given(t, 2, o2)),
                          PushAll(AfterGiving(t, 2), Given(t, 1, o1))>>
    <3>1. after[1] = a1(o2) /\ after[2] = a2(o1)
      OBVIOUS
    <3>2. IF \A i \in Side : after[i] \in Inventories
            THEN pack' = [pack EXCEPT ![d] = after[1], ![e] = after[2]]
            ELSE UNCHANGED <<pack, finished>>
      BY <2>1
    <3> HIDE DEF after, a1, a2, d, e
    <3> QED BY <2>2, <3>1, <3>2
  <2> HIDE DEF a1, a2, d, e
  <2> QED BY <2>3, <2>4, <2>5
<1> QED BY <1>1, <1>2, <1>3

\* A commit moves units between two characters.
LEMMA CommitConserves ==
  ASSUME TypeOK, TypeOK', NEW id \in TradeId, NEW t \in PendingTrade,
         t.parties[1] # t.parties[2], \A i \in Side : InGame(t.parties[i]), Commit(id, t),
         NEW k \in Kind
  PROVE  Conserves(k)
<1> DEFINE d == active[t.parties[1]]
           e == active[t.parties[2]]
           g1 == GoodsOf(t.offers[1], Inv(t.parties[1]))
           g2 == GoodsOf(t.offers[2], Inv(t.parties[2]))
<1>1. worn' = worn /\ ground' = ground /\ blocks' = blocks
  BY DEF Commit
<1>2. /\ pack \in [Char -> Inventories] /\ worn \in [Char -> Wearable]
      /\ pack' \in [Char -> Inventories] /\ ground \in [Stack -> Nat]
  BY DEF TypeOK
<1>3. /\ Everything(pack, worn, ground, blocks, k) \in Nat
      /\ Carried(pack, worn, k) \in Nat /\ Lying(ground, k) \in Nat
      /\ Standing(blocks, k) \in Nat
  BY <1>2, EverythingType
<1>4. CASE pack' = pack
  BY <1>1, <1>3, <1>4 DEF Conserves
<1>5. CASE Moves(t)
  <2>1. d \in Char /\ e \in Char /\ d # e
    BY DifferentChars
  <2>2. /\ \A c \in Char \ {d, e} : pack'[c] = pack[c] /\ worn[c] = worn[c]
        /\ Units(pack'[d], k) = Units(pack[d], k) - g1[k] + g2[k]
        /\ Units(pack'[e], k) = Units(pack[e], k) - g2[k] + g1[k]
    BY <1>5 DEF Moves, Side
  <2>3. g1[k] \in Nat /\ g2[k] \in Nat
    <3>1. t.offers[1] \in Offer /\ t.offers[2] \in Offer
      BY DEF PendingTrade, Side
    <3>2. g1 \in [Kind -> Nat] /\ g2 \in [Kind -> Nat]
      BY <3>1, GoodsType
    <3> QED BY <3>2
  <2> HIDE DEF d, e, g1, g2
  <2>4. /\ Units(pack[d], k) \in Nat /\ Units(pack[e], k) \in Nat
        /\ Unit(worn[d], k) \in Nat /\ Unit(worn[e], k) \in Nat
    BY <1>2, <2>1, UnitsType, UnitType, WearableType
  <2>5. Carried(pack', worn, k) =
          Carried(pack, worn, k) - HeldBy(pack[d], worn[d], k) - HeldBy(pack[e], worn[e], k)
            + HeldBy(pack'[d], worn[d], k) + HeldBy(pack'[e], worn[e], k)
    BY <1>2, <2>1, <2>2, CarriedPutTwo
  <2>6. Carried(pack', worn, k) = Carried(pack, worn, k)
    BY <1>3, <2>2, <2>3, <2>4, <2>5 DEF HeldBy
  <2> QED BY <1>1, <1>3, <2>6 DEF Conserves, Everything
<1> QED BY <1>4, <1>5, CommitMoves

-----------------------------------------------------------------------------
(* No step makes a unit, no commit overflows *)

\* The commit that ends an accept: an accepted trade of two players in the game.
LEMMA AcceptCommits ==
  ASSUME IInv, PartiesDiffer, NEW p \in Player, NEW id \in TradeId, NEW phase \in Phase,
         ProcessAccept(p, id, phase)
  PROVE  LET t == AcceptPhase(trades[id], PartyOf(trades[id], p), phase)
         IN  /\ t \in PendingTrade /\ t.parties = trades[id].parties
             /\ t.offers = trades[id].offers
             /\ t.parties[1] # t.parties[2] /\ \A i \in Side : InGame(t.parties[i])
             /\ \/ Commit(id, t) /\ t.phase = "Complete"
                \/ UNCHANGED <<itemVars, active, finished, panicked>>
<1> DEFINE old == trades[id]
           who == PartyOf(trades[id], p)
           t   == AcceptPhase(old, who, phase)
<1>1. CanProcess(p, id) /\ TypeOK
  BY DEF ProcessAccept, IInv
<1>2. /\ old \in PendingTrade /\ who \in Side /\ Live(id)
      /\ \A i \in Side : InGame(old.parties[i])
  BY <1>1, ProcessFacts DEF CanProcess
<1>3. old.parties[1] # old.parties[2]
  BY <1>2 DEF PartiesDiffer
<1>4. t \in PendingTrade
  <2> HIDE DEF old, who
  <2> QED BY <1>2, AcceptType
<1>5. t.parties = old.parties /\ t.offers = old.offers
  <2> HIDE DEF old, who
  <2> QED BY <1>2 DEF AcceptPhase, ResetFlags, PendingTrade
<1>6. \/ Commit(id, t) /\ t.phase = "Complete"
      \/ UNCHANGED <<itemVars, active, finished, panicked>>
  BY DEF ProcessAccept
<1> HIDE DEF t
<1> QED BY <1>2, <1>3, <1>4, <1>5, <1>6 DEF t

LEMMA NextConserves ==
  ASSUME IInv, PartiesDiffer, [Next]_vars, NEW k \in Kind
  PROVE  Conserves(k)
<1>t. TypeOK /\ TypeOK'
  BY NextTypeOK DEF IInv
<1>s. ASSUME UNCHANGED itemVars PROVE Conserves(k)
  <2>1. Everything(pack, worn, ground, blocks, k) \in Nat
    BY <1>t, EverythingType DEF TypeOK
  <2> QED BY <1>s, <2>1 DEF Conserves, itemVars
<1>1. CASE InventoryStep
  BY <1>1, <1>t, InventoryConserves
<1>2. CASE SessionStep \/ UNCHANGED vars
  BY <1>2, <1>s DEF SessionStep, ExitInGame, EnterInGame, Disconnect, vars
<1>3. ASSUME NEW p \in Player, NEW id \in TradeId, NEW phase \in Phase,
             ProcessAccept(p, id, phase)
      PROVE  Conserves(k)
  <2> DEFINE t == AcceptPhase(trades[id], PartyOf(trades[id], p), phase)
  <2>1. /\ t \in PendingTrade /\ t.parties[1] # t.parties[2]
        /\ \A i \in Side : InGame(t.parties[i])
        /\ Commit(id, t) \/ UNCHANGED itemVars
    BY <1>3, AcceptCommits
  <2> HIDE DEF t
  <2> QED BY <1>t, <1>s, <2>1, CommitConserves
<1>4. CASE TradeStep
  BY <1>3, <1>4, <1>s DEF TradeStep, BeginTrade, ProcessAddItem, ProcessRemoveItem,
                          ProcessDecline
<1> QED BY <1>1, <1>2, <1>4 DEF Next

\* The units there are at the start.
LEMMA StartIs ==
  ASSUME NEW k \in Kind, NEW wn, wn = [c \in Char |-> NoItem],
         NEW g, g = [i \in Stack |-> 0]
  PROVE  StartTotal(k) = Everything(StartPack, wn, g, StartBlocks, k) /\ StartTotal(k) \in Nat
<1> DEFINE of(c) == MapThenSumSet(LAMBDA s : IF StartPack[c][s].kind = k
                                               THEN StartPack[c][s].amount ELSE 0,
                                  Occupied(StartPack[c]))
           f == LyingAt(g, k)
           S == Stacks(k)
<1>1. StartPack \in [Char -> Inventories] /\ wn \in [Char -> Wearable] /\ g \in [Stack -> Nat]
  BY TradeAssumption DEF Wearable
<1>2. \A c \in Char : of(c) = HeldBy(StartPack[c], wn[c], k)
  <2> SUFFICES ASSUME NEW c \in Char PROVE of(c) = HeldBy(StartPack[c], wn[c], k)
    OBVIOUS
  <2>1. StartPack[c] \in Inventories
    BY <1>1
  <2>2. of(c) = Units(StartPack[c], k) /\ Units(StartPack[c], k) \in Nat
    BY <2>1, HeldIs, UnitsType
  <2>3. Unit(wn[c], k) = 0
    BY DEF Unit
  <2> HIDE DEF of
  <2> QED BY <2>2, <2>3 DEF HeldBy
<1>3. MapThenSumSet(LAMBDA c : of(c), Char) = SumOver([c \in Char |-> of(c)], Char)
  BY ZenonT(60) DEF MapThenSumSet, MapThenFoldSet, SumOver
<1>4. StartTotal(k) = MapThenSumSet(LAMBDA c : of(c), Char) + Cardinality({k} \cap StartBlocks)
  BY DEF StartTotal
<1> HIDE DEF of
<1>5. [c \in Char |-> of(c)] = [c \in Char |-> HeldBy(StartPack[c], wn[c], k)]
  BY <1>2
<1>6. StartTotal(k) = Carried(StartPack, wn, k) + Standing(StartBlocks, k)
  BY <1>3, <1>4, <1>5, StandingIs DEF Carried
<1>7. Lying(g, k) = 0
  <2>1. \A i \in S : f[i] = 0
    <3>1. \A i \in S : f[i] = g[i] * i.amount /\ g[i] = 0 /\ i.amount \in Nat
      BY <1>1, LyingType DEF Stacks, Stack
    <3> HIDE DEF f
    <3>2. \A n \in Nat : 0 * n = 0
      OBVIOUS
    <3> QED BY <3>1, <3>2
  <2>2. IsFiniteSet(S) /\ {} \in SUBSET S
    BY StacksFinite
  <2>3. Lying(g, k) = SumOver(f, S)
    BY DEF Lying
  <2> HIDE DEF f, S
  <2>4. SumOver(f, S) = SumOver(f, {})
    BY <2>1, <2>2, SumSupport
  <2> QED BY <2>3, <2>4, SumEmpty
<1>8. Carried(StartPack, wn, k) \in Nat /\ Standing(StartBlocks, k) \in Nat
  BY <1>1, CarriedType DEF Standing
<1> QED BY <1>6, <1>7, <1>8 DEF Everything

\* The inductive invariant.
Bounded == \A k \in Kind : Everything(pack, worn, ground, blocks, k) <= StartTotal(k)

GoodsInv == IInv /\ PartiesDiffer /\ Bounded

LEMMA InitGoods == Init => GoodsInv
<1> SUFFICES ASSUME Init PROVE PartiesDiffer /\ Bounded
  BY InitIInv DEF GoodsInv
<1>1. PartiesDiffer
  BY DEF Init, PartiesDiffer, Live
<1>2. Bounded
  BY StartIs DEF Init, Bounded
<1> QED BY <1>1, <1>2

LEMMA NextGoods == GoodsInv /\ [Next]_vars => GoodsInv'
<1> SUFFICES ASSUME GoodsInv, [Next]_vars PROVE GoodsInv'
  OBVIOUS
<1>1. IInv' /\ PartiesDiffer'
  BY NextIInv, PartiesDifferStep DEF GoodsInv
<1>2. Bounded'
  <2> SUFFICES ASSUME NEW k \in Kind
               PROVE  Everything(pack', worn', ground', blocks', k) <= StartTotal(k)
    BY DEF Bounded
  <2>1. Conserves(k)
    BY NextConserves DEF GoodsInv
  <2>2. Everything(pack, worn, ground, blocks, k) <= StartTotal(k)
    BY DEF GoodsInv, Bounded
  <2>3. StartTotal(k) \in Nat
    BY StartIs
  <2>4. /\ Everything(pack, worn, ground, blocks, k) \in Nat
        /\ Everything(pack', worn', ground', blocks', k) \in Nat
    <3>1. TypeOK /\ TypeOK'
      BY <1>1 DEF GoodsInv, IInv
    <3> QED BY <3>1, EverythingType DEF TypeOK
  <2> QED BY <2>1, <2>2, <2>3, <2>4 DEF Conserves
<1> QED BY <1>1, <1>2 DEF GoodsInv

LEMMA GoodsInvariance == Spec => []GoodsInv
BY InitGoods, NextGoods, PTL DEF Spec

\* No sequence of trades, manipulations, drops, pickups and character changes
\* makes a second copy of an item (common/src/trade.rs,
\* server/src/events/inventory_manip.rs): there are never more units of a kind
\* than at the start.
THEOREM NothingDuplicated == Spec => []NoDuplication
<1>1. GoodsInv => NoDuplication
  BY TotalIs DEF GoodsInv, IInv, Bounded, NoDuplication
<1> QED BY <1>1, GoodsInvariance, PTL

-----------------------------------------------------------------------------
(* No handler panics *)

\* Nobody, and no two characters together, carry more than there is.
LEMMA CarriedShares ==
  ASSUME TypeOK, NEW k
  PROVE  /\ \A c \in Char : Units(pack[c], k) <= Everything(pack, worn, ground, blocks, k)
         /\ \A c, d \in Char : c # d =>
              Units(pack[c], k) + Units(pack[d], k) <= Everything(pack, worn, ground, blocks, k)
<1> DEFINE f == [c \in Char |-> HeldBy(pack[c], worn[c], k)]
           all == Everything(pack, worn, ground, blocks, k)
<1>1. \A c \in Char : /\ f[c] = Units(pack[c], k) + Unit(worn[c], k)
                      /\ Units(pack[c], k) \in Nat /\ Unit(worn[c], k) \in Nat
  BY UnitsType, UnitType, WearableType DEF HeldBy, TypeOK
<1>2. all = SumOver(f, Char) + Lying(ground, k) + Standing(blocks, k)
  BY DEF Everything, Carried
<1>3. Lying(ground, k) \in Nat /\ Standing(blocks, k) \in Nat
  BY EverythingType DEF TypeOK
<1> HIDE DEF f, all
<1>4. \A c \in Char : f[c] \in Nat
  BY <1>1
<1>5. /\ SumOver(f, Char) \in Nat
      /\ \A c \in Char : /\ f[c] <= SumOver(f, Char)
                         /\ \A d \in Char : c # d => f[c] + f[d] <= SumOver(f, Char)
  BY <1>4, CharAssumption, SumNat, SumMembers
<1>6. \A c \in Char : Units(pack[c], k) <= all
  BY <1>1, <1>2, <1>3, <1>5
<1>7. \A c, d \in Char : c # d => Units(pack[c], k) + Units(pack[d], k) <= all
  BY <1>1, <1>2, <1>3, <1>5
<1> QED BY <1>6, <1>7 DEF all

\* The units of every kind that exist at the start fit in one stack.
OneStackEnough == \A k \in Kind : StartTotal(k) <= MaxAmount

LEMMA SharesFit ==
  ASSUME GoodsInv, OneStackEnough, NEW k \in Kind
  PROVE  /\ \A c \in Char : Units(pack[c], k) <= MaxAmount
         /\ \A c, d \in Char : c # d => Units(pack[c], k) + Units(pack[d], k) <= MaxAmount
<1> DEFINE all == Everything(pack, worn, ground, blocks, k)
<1>1. TypeOK
  BY DEF GoodsInv, IInv
<1>2. all \in Nat /\ StartTotal(k) \in Nat
  <2>1. all \in Nat
    BY <1>1, EverythingType DEF TypeOK
  <2>2. StartTotal(k) \in Nat
    BY StartIs
  <2> QED BY <2>1, <2>2
<1>3. all <= StartTotal(k) /\ StartTotal(k) <= MaxAmount
  BY DEF GoodsInv, Bounded, OneStackEnough
<1>4. \A c \in Char : Units(pack[c], k) \in Nat
  BY <1>1, UnitsType DEF TypeOK
<1>5. /\ \A c \in Char : Units(pack[c], k) <= all
      /\ \A c, d \in Char : c # d => Units(pack[c], k) + Units(pack[d], k) <= all
  BY <1>1, CarriedShares
<1> HIDE DEF all
<1> QED BY <1>2, <1>3, <1>4, <1>5, MaxAmountAssumption

LEMMA CommitFits ==
  ASSUME GoodsInv, OneStackEnough, NEW id \in TradeId, NEW t \in PendingTrade,
         t.parties[1] # t.parties[2], \A i \in Side : InGame(t.parties[i]), Commit(id, t)
  PROVE  panicked' = panicked
<1>t. TypeOK
  BY DEF GoodsInv, IInv
<1>1. CASE \E i \in Side : OfferBroken(t, i)
  BY <1>1 DEF Commit
<1>2. CASE /\ \A i \in Side : ~OfferBroken(t, i)
           /\ \E i \in Side : NoSpace(t, i)
  BY <1>2 DEF Commit
<1>3. CASE \A i \in Side : ~OfferBroken(t, i) /\ ~NoSpace(t, i)
  <2> DEFINE a1(o2) == PushAll(AfterGiving(t, 1), Given(t, 2, o2))
             a2(o1) == PushAll(AfterGiving(t, 2), Given(t, 1, o1))
  <2>1. PICK o1 \in OfferOrders(t, 1), o2 \in OfferOrders(t, 2) :
          LET after == <<PushAll(AfterGiving(t, 1), Given(t, 2, o2)),
                         PushAll(AfterGiving(t, 2), Given(t, 1, o1))>>
          IN  (\A i \in Side : after[i] \in Inventories) => UNCHANGED panicked
    BY <1>3 DEF Commit
  <2>2. /\ 1 \in Side /\ 2 \in Side /\ 3 - 1 = 2 /\ 3 - 2 = 1
        /\ \A i \in Side : i = 1 \/ i = 2
    BY DEF Side
  <2>3. /\ active[t.parties[1]] \in Char /\ active[t.parties[2]] \in Char
        /\ active[t.parties[1]] # active[t.parties[2]]
        /\ Inv(t.parties[1]) = pack[active[t.parties[1]]]
        /\ Inv(t.parties[2]) = pack[active[t.parties[2]]]
    BY <1>t, <2>2, DifferentChars
  <2>4. \A k \in Kind :
          /\ Units(Inv(t.parties[1]), k) + Units(Inv(t.parties[2]), k) <= MaxAmount
          /\ Units(Inv(t.parties[2]), k) + Units(Inv(t.parties[1]), k) <= MaxAmount
    BY <2>3, SharesFit
  <2>5. a1(o2) \in Inventories
    <3>1. o2 \in OfferOrders(t, 3 - 1)
      BY <2>2
    <3> QED BY <1>t, <1>3, <2>2, <2>4, <3>1, Exchange
  <2>6. a2(o1) \in Inventories
    <3>1. o1 \in OfferOrders(t, 3 - 2)
      BY <2>2
    <3> QED BY <1>t, <1>3, <2>2, <2>4, <3>1, Exchange
  <2>7. \A i \in Side : <<a1(o2), a2(o1)>>[i] \in Inventories
    <3> HIDE DEF a1, a2
    <3> QED BY <2>2, <2>5, <2>6
  <2> QED BY <2>1, <2>7
<1> QED BY <1>1, <1>2, <1>3

\* Two stacks of one inventory can always be merged.
LEMMA MergeFits ==
  ASSUME GoodsInv, OneStackEnough, NEW c \in Char, NEW a \in Slot, NEW b \in Slot, a # b,
         CanMerge(pack[c], a, b)
  PROVE  CanGrow(pack[c][b], pack[c][a].amount)
<1> DEFINE inv == pack[c]
           k == inv[a].kind
<1>1. inv \in Inventories
  BY DEF GoodsInv, IInv, TypeOK
<1>2. /\ inv[a] # NoItem /\ inv[b] # NoItem /\ inv[b].kind = k
      /\ inv[a] \in Stack /\ inv[b] \in Stack
  BY <1>1 DEF CanMerge, SameItem, Inventories
<1>3. k \in Kind /\ inv[a].amount \in Nat /\ inv[b].amount \in Nat
  BY <1>2 DEF Stack
<1>4. Unit(inv[a], k) = inv[a].amount /\ Unit(inv[b], k) = inv[b].amount
  BY <1>2 DEF Unit
<1> HIDE DEF k
<1>5. Units(inv, k) <= MaxAmount
  BY <1>3, SharesFit
<1> HIDE DEF inv
<1>6. Unit(inv[b], k) + Unit(inv[a], k) <= Units(inv, k) /\ Units(inv, k) \in Nat
  BY <1>1, UnitsSlots, UnitsType
<1> QED BY <1>3, <1>4, <1>5, <1>6, MaxAmountAssumption DEF CanGrow, inv

\* Manipulations end no trade; only a merge can panic.
LEMMA InventoryQuiet ==
  ASSUME InventoryStep
  PROVE  /\ finished' = finished
         /\ \/ panicked' \in {panicked, "selfmerge"}
            \/ \E p \in Player : \E a, b \in Slot :
                 /\ a # b /\ InGame(p) /\ CanMerge(Inv(p), a, b)
                 /\ ~CanGrow(Inv(p)[b], Inv(p)[a].amount)
<1> DEFINE Quiet == finished' = finished /\ panicked' = panicked
<1>m. \A p, inv, eq : Manipulate(p, inv, eq) => Quiet
  BY DEF Manipulate
<1>o. \A p, inv, eq : ManipulateOwn(p, inv, eq) => Quiet
  BY <1>m DEF ManipulateOwn
<1>d. \A p, inv, eq, i : ManipulateDrop(p, inv, eq, i) => Quiet
  BY <1>m DEF ManipulateDrop
<1> HIDE DEF Quiet
<1>1. \A p, i : Pickup(p, i) => Quiet
  BY <1>m, <1>o DEF Pickup
<1>2. \A p, k : Collect(p, k) => Quiet
  BY <1>m, <1>o DEF Collect
<1>3. \A p, s : Use(p, s) => Quiet
  BY <1>o DEF Use
<1>4. \A p, s : SwapEquipped(p, s) => Quiet
  BY <1>o DEF SwapEquipped
<1>5. \A p, s : Drop(p, s) => Quiet
  BY <1>o, <1>d DEF Drop
<1>6. \A p, s : SplitDrop(p, s) => Quiet
  BY <1>o, <1>d DEF SplitDrop
<1>7. \A p, a, b : SplitSwap(p, a, b) => Quiet
  BY <1>o DEF SplitSwap
<1>8. \A p : UseEquipped(p) => Quiet
  BY <1>o DEF UseEquipped
<1>9. \A p : DropEquipped(p) => Quiet
  BY <1>o, <1>d DEF DropEquipped
<1>10. \A p, a, b : SwapSlots(p, a, b) =>
         \/ Quiet
         \/ finished' = finished /\ panicked' = "selfmerge"
         \/ /\ finished' = finished
            /\ a # b /\ InGame(p) /\ CanMerge(Inv(p), a, b)
            /\ ~CanGrow(Inv(p)[b], Inv(p)[a].amount)
  BY <1>o DEF SwapSlots, tradeVars
<1>11. Quiet => finished' = finished /\ panicked' = panicked
  BY DEF Quiet
<1> QED BY <1>1, <1>2, <1>3, <1>4, <1>5, <1>6, <1>7, <1>8, <1>9, <1>10, <1>11
        DEF InventoryStep

LEMMA NextFits ==
  ASSUME GoodsInv, OneStackEnough, [Next]_vars
  PROVE  panicked' \in {panicked, "selfmerge"}
<1>1. CASE SessionStep \/ UNCHANGED vars
  BY <1>1 DEF SessionStep, ExitInGame, EnterInGame, Disconnect, vars
<1>2. CASE InventoryStep
  <2>1. ASSUME NEW p \in Player, NEW a \in Slot, NEW b \in Slot,
               a # b, InGame(p), CanMerge(Inv(p), a, b)
        PROVE  CanGrow(Inv(p)[b], Inv(p)[a].amount)
    <3>1. active[p] \in Char /\ Inv(p) = pack[active[p]]
      BY <2>1 DEF InGame, Inv
    <3> QED BY <2>1, <3>1, MergeFits
  <2> QED BY <1>2, <2>1, InventoryQuiet
<1>3. CASE TradeStep
  <2>1. ASSUME NEW p \in Player, NEW id \in TradeId, NEW phase \in Phase,
               ProcessAccept(p, id, phase)
        PROVE  panicked' = panicked
    <3> DEFINE t == AcceptPhase(trades[id], PartyOf(trades[id], p), phase)
    <3>1. /\ t \in PendingTrade /\ t.parties[1] # t.parties[2]
          /\ \A i \in Side : InGame(t.parties[i])
          /\ Commit(id, t) \/ panicked' = panicked
      BY <2>1, AcceptCommits DEF GoodsInv
    <3> HIDE DEF t
    <3> QED BY <3>1, CommitFits
  <2> QED BY <1>3, <2>1 DEF TradeStep, BeginTrade, ProcessAddItem, ProcessRemoveItem,
                            ProcessDecline
<1> QED BY <1>1, <1>2, <1>3 DEF Next

\* When no kind has more units than one stack can hold, the slots commit_trade
\* counts are enough for the items it pushes, in whatever order it iterates over
\* the offers, and merging two stacks never overflows: the panic of commit_trade
\* (server/src/events/trade.rs:230) and the second expect() of merge_stack_into
\* (common/src/comp/inventory/mod.rs:190) are out of reach.  The first one is
\* not: a stack can be swapped with itself.
THEOREM OnlySelfMerge ==
  ASSUME \A k \in Kind : StartTotal(k) <= MaxAmount
  PROVE  Spec => []OnlySelfMergePanics
<1>0. OneStackEnough
  BY DEF OneStackEnough
<1>1. Init => OnlySelfMergePanics
  BY DEF Init, OnlySelfMergePanics
<1>2. GoodsInv /\ OnlySelfMergePanics /\ [Next]_vars => OnlySelfMergePanics'
  BY <1>0, NextFits DEF OnlySelfMergePanics
<1> QED BY <1>1, <1>2, GoodsInvariance, PTL DEF Spec

-----------------------------------------------------------------------------
(* A completed trade *)

\* Held in terms of Units.
HeldSound == \A c \in Char, k \in Kind : Held(c, k) = HeldBy(pack[c], worn[c], k)

LEMMA HeldIsSound == TypeOK => HeldSound
BY HeldIs DEF HeldSound, Held, HeldBy, Unit, TypeOK

\* Only a commit completes a trade.
LEMMA OnlyCommits ==
  ASSUME IInv, PartiesDiffer, [Next]_vars, NEW id \in TradeId,
         finished[id].result = "None", finished'[id].result = "Completed"
  PROVE  \E t \in PendingTrade :
           /\ t.parties = trades[id].parties /\ t.offers = trades[id].offers
           /\ t.parties[1] # t.parties[2] /\ \A i \in Side : InGame(t.parties[i])
           /\ Commit(id, t)
<1>t. TypeOK
  BY DEF IInv
<1>1. ASSUME UNCHANGED finished PROVE FALSE
  BY <1>1
<1>2. ~(SessionStep \/ UNCHANGED vars)
  BY <1>1 DEF SessionStep, ExitInGame, EnterInGame, Disconnect, vars, tradeVars
<1>3. ~InventoryStep
  BY <1>1, InventoryQuiet
<1>4. ASSUME NEW p \in Player, NEW x \in TradeId, ProcessDecline(p, x) PROVE FALSE
  BY <1>4, <1>t DEF ProcessDecline, Finish, TypeOK
<1>5. PICK p \in Player, x \in TradeId, phase \in Phase : ProcessAccept(p, x, phase)
  BY <1>1, <1>2, <1>3, <1>4 DEF Next, TradeStep, BeginTrade, ProcessAddItem, ProcessRemoveItem
<1> DEFINE t == AcceptPhase(trades[x], PartyOf(trades[x], p), phase)
<1>6. /\ t \in PendingTrade /\ t.parties = trades[x].parties
      /\ t.offers = trades[x].offers
      /\ t.parties[1] # t.parties[2] /\ \A i \in Side : InGame(t.parties[i])
      /\ Commit(x, t)
  BY <1>1, <1>5, AcceptCommits
<1> HIDE DEF t
<1>7. x = id
  BY <1>6, <1>t DEF Commit, Finish, TypeOK
<1> QED BY <1>6, <1>7

\* The two parties of a completed trade exchange exactly the units that the
\* offers name of what is in their slots, and everybody else keeps what they
\* have (commit_trade, server/src/events/trade.rs:146-237).
THEOREM ExchangeIsFair == Spec => FairExchange
<1> DEFINE Fair(id) ==
      finished[id].result = "None" /\ finished'[id].result = "Completed" =>
         LET t == trades[id]
             g == [i \in Side |-> GoodsOf(t.offers[i], Inv(t.parties[i]))]
         IN  \A c \in Char, k \in Kind :
               Held(c, k)' = Held(c, k)
                 + (IF c = active[t.parties[1]] THEN g[2][k] - g[1][k] ELSE 0)
                 + (IF c = active[t.parties[2]] THEN g[1][k] - g[2][k] ELSE 0)
<1>1. ASSUME GoodsInv, HeldSound, HeldSound', [Next]_vars, NEW id \in TradeId
      PROVE  Fair(id)
  <2> SUFFICES ASSUME finished[id].result = "None", finished'[id].result = "Completed",
                      NEW c \in Char, NEW k \in Kind
               PROVE  LET t == trades[id]
                          g == [i \in Side |-> GoodsOf(t.offers[i], Inv(t.parties[i]))]
                      IN  Held(c, k)' = Held(c, k)
                            + (IF c = active[t.parties[1]] THEN g[2][k] - g[1][k] ELSE 0)
                            + (IF c = active[t.parties[2]] THEN g[1][k] - g[2][k] ELSE 0)
    OBVIOUS
  <2>t. TypeOK /\ IInv /\ PartiesDiffer
    BY <1>1 DEF GoodsInv, IInv
  <2>1. PICK t \in PendingTrade :
           /\ t.parties = trades[id].parties /\ t.offers = trades[id].offers
           /\ t.parties[1] # t.parties[2] /\ \A i \in Side : InGame(t.parties[i])
           /\ Commit(id, t)
    BY <1>1, <2>t, OnlyCommits
  <2> DEFINE d == active[t.parties[1]]
             e == active[t.parties[2]]
             g1 == GoodsOf(t.offers[1], Inv(t.parties[1]))
             g2 == GoodsOf(t.offers[2], Inv(t.parties[2]))
  <2>2. Moves(t)
    BY <2>t, <2>1, CommitMoves
  <2>3. d \in Char /\ e \in Char /\ d # e
    BY <2>t, <2>1, DifferentChars
  <2>4. /\ \A x \in Char \ {d, e} : pack'[x] = pack[x]
        /\ Units(pack'[d], k) = Units(pack[d], k) - g1[k] + g2[k]
        /\ Units(pack'[e], k) = Units(pack[e], k) - g2[k] + g1[k]
    BY <2>2 DEF Moves, Side
  <2>5. g1[k] \in Nat /\ g2[k] \in Nat
    <3>1. t.offers[1] \in Offer /\ t.offers[2] \in Offer
      BY DEF PendingTrade, Side
    <3>2. g1 \in [Kind -> Nat] /\ g2 \in [Kind -> Nat]
      BY <3>1, GoodsType
    <3> QED BY <3>2
  <2>6. worn' = worn
    BY <2>1 DEF Commit
  <2>7. Units(pack[c], k) \in Nat /\ Unit(worn[c], k) \in Nat
    BY <2>t, UnitsType, UnitType, WearableType DEF TypeOK
  <2>8. /\ Held(c, k) = Units(pack[c], k) + Unit(worn[c], k)
        /\ Held(c, k)' = Units(pack'[c], k) + Unit(worn'[c], k)
    BY <1>1 DEF HeldSound, HeldBy
  <2> HIDE DEF d, e, g1, g2
  <2>9. Held(c, k)' = Held(c, k) + (IF c = d THEN g2[k] - g1[k] ELSE 0)
                                 + (IF c = e THEN g1[k] - g2[k] ELSE 0)
    BY <2>3, <2>4, <2>5, <2>6, <2>7, <2>8
  <2> QED BY <2>1, <2>9 DEF d, e, g1, g2, Side
<1>2. GoodsInv /\ HeldSound /\ HeldSound' /\ [Next]_vars
        => [\A id \in TradeId : Fair(id)]_vars
  BY <1>1
<1>3. GoodsInv => HeldSound
  BY HeldIsSound DEF GoodsInv, IInv
<1> QED BY <1>2, <1>3, GoodsInvariance, PTL DEF Spec, FairExchange

-----------------------------------------------------------------------------
(* Trade implements Agreement *)

\* Which trades a step can change.
LEMMA TouchesOne ==
  ASSUME IInv, [Next]_vars
  PROVE  \/ \A x \in TradeId : trades'[x] = trades[x] /\ finished'[x] = finished[x]
         \/ \E id \in TradeId : \A x \in TradeId \ {id} :
              trades'[x] = trades[x] /\ finished'[x] = finished[x]
<1> DEFINE One(id) == \A x \in TradeId \ {id} :
                        trades'[x] = trades[x] /\ finished'[x] = finished[x]
           None == \A x \in TradeId : trades'[x] = trades[x] /\ finished'[x] = finished[x]
<1>t. TypeOK
  BY DEF IInv
<1>e. ASSUME NEW id \in TradeId, NEW u, trades' = [trades EXCEPT ![id] = u],
             finished' = finished \/ \E r, g : Finish(id, r, g)
      PROVE  One(id)
  BY <1>e, <1>t DEF Finish, TypeOK
<1>1. CASE InventoryStep
  <2>1. finished' = finished
    BY <1>1, InventoryQuiet
  <2>2. ASSUME NEW p \in Player, InMutableTrade(p), trades' = ImplicitMutation(p)
        PROVE  \E id \in TradeId : One(id)
    <3>1. entity_trades[p] \in TradeId
      BY <2>2, <1>t DEF InMutableTrade, InTrade, TypeOK
    <3>2. \E u : trades' = [trades EXCEPT ![entity_trades[p]] = u]
      BY <2>2 DEF ImplicitMutation
    <3> HIDE DEF One
    <3> QED BY <1>e, <2>1, <3>1, <3>2
  <2> HIDE DEF One
  <2> QED BY <1>1, <1>t, <2>1, <2>2, InventoryFrame DEF Manipulated, Untouched, One
<1>2. CASE SessionStep \/ UNCHANGED vars
  BY <1>2 DEF SessionStep, ExitInGame, EnterInGame, Disconnect, vars, tradeVars
<1>3. CASE TradeStep
  <2>1. ASSUME NEW p \in Player, NEW q \in Player, BeginTrade(p, q)
        PROVE  \E id \in TradeId : One(id)
    <3>1. next_id \in TradeId
      BY <1>t, <2>1, TradeAssumption DEF BeginTrade, TypeOK, TradeId
    <3>2. finished' = finished /\ \E u : trades' = [trades EXCEPT ![next_id] = u]
      BY <2>1 DEF BeginTrade
    <3> HIDE DEF One
    <3> QED BY <1>e, <3>1, <3>2
  <2>2. ASSUME NEW p \in Player, NEW x \in TradeId, NEW s \in Slot, NEW n \in 1..MaxOffer,
               NEW ours \in BOOLEAN,
               ProcessAddItem(p, x, s, n, ours) \/ ProcessRemoveItem(p, x, s, n, ours)
        PROVE  \E id \in TradeId : One(id)
    <3>1. finished' = finished /\ \E u : trades' = [trades EXCEPT ![x] = u]
      BY <2>2 DEF ProcessAddItem, ProcessRemoveItem
    <3> HIDE DEF One
    <3> QED BY <1>e, <3>1
  <2>3. ASSUME NEW p \in Player, NEW x \in TradeId, NEW phase \in Phase,
               ProcessAccept(p, x, phase)
        PROVE  \E id \in TradeId : One(id)
    <3>1. /\ \E u : trades' = [trades EXCEPT ![x] = u]
          /\ finished' = finished \/ \E r, g : Finish(x, r, g)
      BY <2>3 DEF ProcessAccept, Commit
    <3> HIDE DEF One
    <3> QED BY <1>e, <3>1
  <2>4. ASSUME NEW p \in Player, NEW x \in TradeId, ProcessDecline(p, x)
        PROVE  \E id \in TradeId : One(id)
    <3>1. /\ \E u : trades' = [trades EXCEPT ![x] = u]
          /\ \E r, g : Finish(x, r, g)
      BY <2>4 DEF ProcessDecline
    <3> HIDE DEF One
    <3> QED BY <1>e, <3>1
  <2> HIDE DEF One
  <2>5. \E id \in TradeId : One(id)
    BY <1>3, <2>1, <2>2, <2>3, <2>4 DEF TradeStep
  <2> QED BY <2>5 DEF One
<1> QED BY <1>1, <1>2, <1>3 DEF Next

\* How accepting moves a trade from phase to phase.
LEMMA AcceptMoves ==
  ASSUME NEW t \in PendingTrade, NEW who \in Side, NEW phase, t.phase # "Complete"
  PROVE  LET u == AcceptPhase(t, who, phase)
         IN  IF u.phase = "Complete" THEN t.phase = "Review"
             ELSE u.phase = t.phase \/ (t.phase = "Mutate" /\ u.phase = "Review")
<1> DEFINE flags == IF t.phase = phase THEN [t.accept_flags EXCEPT ![who] = TRUE]
                                       ELSE t.accept_flags
           u == AcceptPhase(t, who, phase)
<1>1. u.phase = t.phase \/ u.phase = NextPhase(t.phase)
  <2>1. u = IF \A i \in Side : flags[i]
              THEN ResetFlags([t EXCEPT !.phase = NextPhase(@)])
              ELSE [t EXCEPT !.accept_flags = flags]
    BY DEF AcceptPhase
  <2> HIDE DEF u, flags
  <2> QED BY <2>1 DEF ResetFlags, PendingTrade
<1>2. t.phase \in {"Mutate", "Review"}
  BY DEF PendingTrade, Phase
<1> HIDE DEF u
<1>3. IF u.phase = "Complete" THEN t.phase = "Review"
      ELSE u.phase = t.phase \/ (t.phase = "Mutate" /\ u.phase = "Review")
  BY <1>1, <1>2 DEF NextPhase
<1> QED BY <1>3 DEF u

\* How a commit ends a trade.
LEMMA CommitEnds ==
  ASSUME TypeOK, NEW id \in TradeId, NEW t \in PendingTrade, Commit(id, t),
         panicked' # "leftover"
  PROVE  /\ ~Live(id)'
         /\ \/ finished'[id].result \in {"Declined", "NotEnoughSpace"}
            \/ /\ finished'[id].result = "Completed"
               /\ finished'[id].goods = [i \in Side |-> GoodsOf(t.offers[i], Inv(t.parties[i]))]
<1>f. ASSUME NEW r, NEW g, Finish(id, r, g)
      PROVE  finished'[id].result = r /\ finished'[id].goods = g
  BY <1>f DEF Finish, TypeOK
<1>1. ~Live(id)'
  BY DEF Commit, TypeOK, Live
<1>2. \/ Finish(id, "Declined", NoGoods)
      \/ Finish(id, "NotEnoughSpace", NoGoods)
      \/ Finish(id, "Completed", [i \in Side |-> GoodsOf(t.offers[i], Inv(t.parties[i]))])
  BY DEF Commit
<1> QED BY <1>f, <1>1, <1>2

\* What becomes of a live trade.
LEMMA LiveStep ==
  ASSUME IInv, PartiesDiffer, panicked' # "leftover", [Next]_vars,
         NEW id \in TradeId, Live(id)
  PROVE  \/ /\ Live(id)' /\ finished'[id] = finished[id]
            /\ trades'[id].parties = trades[id].parties
            /\ \/ trades'[id].phase = trades[id].phase
               \/ /\ trades[id].phase = "Mutate" /\ trades'[id].phase = "Review"
                  /\ trades'[id].offers = trades[id].offers
                  /\ UNCHANGED <<pack, active>>
         \/ /\ ~Live(id)'
            /\ finished'[id].result \in {"Declined", "NotEnoughSpace"}
         \/ /\ ~Live(id)' /\ trades[id].phase = "Review"
            /\ finished'[id].result = "Completed" /\ finished'[id].goods = TermsOf(id)
<1> DEFINE Stays == /\ Live(id)' /\ finished'[id] = finished[id]
                    /\ trades'[id].parties = trades[id].parties
                    /\ trades'[id].phase = trades[id].phase
<1>t. TypeOK
  BY DEF IInv
<1>0. /\ trades[id] \in PendingTrade /\ trades[id].phase # "Complete"
      /\ trades[id] # NoTrade
  BY <1>t, LiveType DEF IInv, AtRest, Live
<1>s. ASSUME trades'[id] = trades[id], finished'[id] = finished[id] PROVE Stays
  BY <1>0, <1>s DEF Live
<1>r. ASSUME finished' = finished, NEW u \in PendingTrade, trades'[id] = u,
             u.parties = trades[id].parties, u.phase = trades[id].phase
      PROVE  Stays
  BY <1>r, NoPendingTradeAssumption DEF Live
<1>1. CASE InventoryStep
  <2>1. finished' = finished
    BY <1>1, InventoryQuiet
  <2>2. \/ trades'[id] = trades[id]
        \/ trades'[id] = ResetFlags(trades[id])
    BY <1>1, <1>t, InventoryFrame
       DEF Manipulated, Untouched, ImplicitMutation, InMutableTrade, InTrade, TypeOK
  <2>3. /\ ResetFlags(trades[id]) \in PendingTrade
        /\ ResetFlags(trades[id]).parties = trades[id].parties
        /\ ResetFlags(trades[id]).phase = trades[id].phase
    BY <1>0, ResetType DEF ResetFlags, PendingTrade
  <2>4. Stays
    <3> HIDE DEF Stays
    <3> QED BY <1>r, <1>s, <2>1, <2>2, <2>3
  <2> QED BY <2>4
<1>2. CASE SessionStep \/ UNCHANGED vars
  BY <1>2, <1>s DEF SessionStep, ExitInGame, EnterInGame, Disconnect, vars, tradeVars
<1>3. ASSUME NEW p \in Player, NEW q \in Player, BeginTrade(p, q) PROVE Stays
  <2>1. id # next_id
    BY <1>t DEF IInv, LiveBelow, TypeOK
  <2>2. trades'[id] = trades[id] /\ finished'[id] = finished[id]
    BY <1>3, <1>t, <2>1 DEF BeginTrade, TypeOK
  <2> QED BY <1>s, <2>2
<1>4. ASSUME NEW p \in Player, NEW x \in TradeId, NEW s \in Slot, NEW n \in 1..MaxOffer,
             NEW ours \in BOOLEAN,
             ProcessAddItem(p, x, s, n, ours) \/ ProcessRemoveItem(p, x, s, n, ours)
      PROVE  Stays
  <2> DEFINE who == OwnerSide(p, x, ours)
             own == Owned(Inv(trades[x].parties[who]), s)
  <2>1. trades[x] \in PendingTrade /\ who \in Side
    BY <1>4, <1>t, ProcessFacts DEF ProcessAddItem, ProcessRemoveItem
  <2>2. PICK u \in {AddItem(trades[x], who, s, n, own), RemoveItem(trades[x], who, s, n)} :
          trades' = [trades EXCEPT ![x] = u]
    BY <1>4 DEF ProcessAddItem, ProcessRemoveItem
  <2>3. finished' = finished
    BY <1>4 DEF ProcessAddItem, ProcessRemoveItem
  <2>4. \/ u = trades[x]
        \/ u.parties = trades[x].parties /\ u.phase = trades[x].phase
    <3> HIDE DEF who, own
    <3> QED BY <2>1, <2>2, EditEvolves
  <2>5. u \in PendingTrade
    <3>1. own \in 0..MaxAmount
      BY <1>t, <2>1, <1>4, ProcessFacts, InvType, OwnedType
         DEF ProcessAddItem, ProcessRemoveItem
    <3>2. n \in Nat
      BY TradeAssumption
    <3> HIDE DEF who, own
    <3> QED BY <2>1, <2>2, <3>1, <3>2, AddItemType, RemoveItemType
  <2>6. x # id => trades'[id] = trades[id]
    BY <1>t, <2>2 DEF TypeOK
  <2>7. x = id => trades'[id] = u
    BY <1>t, <2>2 DEF TypeOK
  <2> HIDE DEF Stays
  <2> QED BY <1>0, <1>r, <1>s, <2>3, <2>4, <2>5, <2>6, <2>7
<1>5. ASSUME NEW p \in Player, NEW x \in TradeId, NEW phase \in Phase,
             ProcessAccept(p, x, phase)
      PROVE  \/ Stays
             \/ /\ Live(id)' /\ finished'[id] = finished[id]
                /\ trades'[id].parties = trades[id].parties
                /\ trades[id].phase = "Mutate" /\ trades'[id].phase = "Review"
                /\ trades'[id].offers = trades[id].offers
                /\ UNCHANGED <<pack, active>>
             \/ /\ ~Live(id)'
                /\ finished'[id].result \in {"Declined", "NotEnoughSpace"}
             \/ /\ ~Live(id)' /\ trades[id].phase = "Review"
                /\ finished'[id].result = "Completed" /\ finished'[id].goods = TermsOf(id)
  <2> DEFINE who == PartyOf(trades[x], p)
             t == AcceptPhase(trades[x], who, phase)
  <2>1. /\ t \in PendingTrade /\ t.parties = trades[x].parties
        /\ t.offers = trades[x].offers
    BY <1>5, AcceptCommits
  <2>2. trades[x] \in PendingTrade /\ who \in Side
    BY <1>5, <1>t, ProcessFacts DEF ProcessAccept
  <2>3. CASE x # id
    <3>1. /\ \E u : trades' = [trades EXCEPT ![x] = u]
          /\ finished' = finished \/ \E r, g : Finish(x, r, g)
      BY <1>5 DEF ProcessAccept, Commit
    <3>2. trades'[id] = trades[id] /\ finished'[id] = finished[id]
      BY <1>t, <2>3, <3>1 DEF Finish, TypeOK
    <3> HIDE DEF Stays
    <3> QED BY <1>s, <3>2
  <2>4. CASE x = id /\ t.phase = "Complete"
    <3>1. Commit(id, t)
      BY <1>5, <2>4 DEF ProcessAccept
    <3>2. trades[id].phase = "Review"
      <4> HIDE DEF who
      <4> QED BY <1>0, <2>2, <2>4, AcceptMoves
    <3> HIDE DEF t, Stays
    <3>3. /\ ~Live(id)'
          /\ \/ finished'[id].result \in {"Declined", "NotEnoughSpace"}
             \/ /\ finished'[id].result = "Completed"
                /\ finished'[id].goods = [i \in Side |-> GoodsOf(t.offers[i], Inv(t.parties[i]))]
      BY <1>t, <2>1, <3>1, CommitEnds
    <3> QED BY <2>1, <2>4, <3>2, <3>3 DEF TermsOf
  <2>5. CASE x = id /\ t.phase # "Complete"
    <3>1. trades'[id] = t /\ finished' = finished /\ UNCHANGED <<pack, active>>
      BY <1>5, <1>t, <2>5 DEF ProcessAccept, TypeOK, itemVars
    <3>2. \/ t.phase = trades[id].phase
          \/ trades[id].phase = "Mutate" /\ t.phase = "Review"
      <4>1. trades[x].phase # "Complete" /\ trades[x] = trades[id]
        BY <1>0, <2>5
      <4> HIDE DEF who
      <4>2. IF t.phase = "Complete" THEN trades[x].phase = "Review"
            ELSE \/ t.phase = trades[x].phase
                 \/ trades[x].phase = "Mutate" /\ t.phase = "Review"
        BY <2>2, <4>1, AcceptMoves
      <4>3. \/ t.phase = trades[x].phase
            \/ trades[x].phase = "Mutate" /\ t.phase = "Review"
        <5> HIDE DEF t
        <5> QED BY <2>5, <4>2
      <4> HIDE DEF t
      <4> QED BY <4>1, <4>3
    <3>3. Live(id)'
      BY <2>1, <3>1, NoPendingTradeAssumption DEF Live
    <3> HIDE DEF t
    <3> QED BY <2>1, <2>5, <3>1, <3>2, <3>3
  <2> QED BY <2>3, <2>4, <2>5
<1>6. ASSUME NEW p \in Player, NEW x \in TradeId, ProcessDecline(p, x)
      PROVE  \/ Stays
             \/ ~Live(id)' /\ finished'[id].result \in {"Declined", "NotEnoughSpace"}
  <2>1. CASE x # id
    <3>1. trades'[id] = trades[id] /\ finished'[id] = finished[id]
      BY <1>t, <1>6, <2>1 DEF ProcessDecline, Finish, TypeOK
    <3> QED BY <1>s, <3>1
  <2>2. CASE x = id
    BY <1>t, <1>6, <2>2 DEF ProcessDecline, Finish, TypeOK, Live
  <2> QED BY <2>1, <2>2
<1>7. CASE TradeStep
  <2> HIDE DEF Stays
  <2>1. \/ Stays
        \/ /\ Live(id)' /\ finished'[id] = finished[id]
           /\ trades'[id].parties = trades[id].parties
           /\ trades[id].phase = "Mutate" /\ trades'[id].phase = "Review"
           /\ trades'[id].offers = trades[id].offers
           /\ UNCHANGED <<pack, active>>
        \/ /\ ~Live(id)'
           /\ finished'[id].result \in {"Declined", "NotEnoughSpace"}
        \/ /\ ~Live(id)' /\ trades[id].phase = "Review"
           /\ finished'[id].result = "Completed" /\ finished'[id].goods = TermsOf(id)
    BY <1>3, <1>4, <1>5, <1>6, <1>7 DEF TradeStep
  <2> QED BY <2>1 DEF Stays
<1> QED BY <1>1, <1>2, <1>7 DEF Next

\* A step finishes no trade but a live one.
LEMMA DeadStep ==
  ASSUME IInv, [Next]_vars, NEW id \in TradeId, ~Live(id)
  PROVE  finished'[id] = finished[id]
<1>t. TypeOK
  BY DEF IInv
<1>1. CASE InventoryStep
  BY <1>1, InventoryQuiet
<1>2. CASE SessionStep \/ UNCHANGED vars
  BY <1>2 DEF SessionStep, ExitInGame, EnterInGame, Disconnect, vars, tradeVars
<1>3. CASE TradeStep
  <2>1. ASSUME NEW x \in TradeId, Live(x), \E r, g : Finish(x, r, g)
        PROVE  finished'[id] = finished[id]
    <3>1. x # id
      BY <2>1
    <3> QED BY <1>t, <2>1, <3>1 DEF Finish, TypeOK
  <2>2. ASSUME NEW p \in Player, NEW x \in TradeId, NEW phase \in Phase,
               ProcessAccept(p, x, phase)
        PROVE  finished'[id] = finished[id]
    <3>1. Live(x) /\ (finished' = finished \/ \E r, g : Finish(x, r, g))
      BY <2>2 DEF ProcessAccept, CanProcess, Commit
    <3> QED BY <2>1, <3>1
  <2>3. ASSUME NEW p \in Player, NEW x \in TradeId, ProcessDecline(p, x)
        PROVE  finished'[id] = finished[id]
    <3>1. Live(x) /\ \E r, g : Finish(x, r, g)
      BY <2>3 DEF ProcessDecline
    <3> QED BY <2>1, <3>1
  <2> QED BY <1>3, <2>2, <2>3
          DEF TradeStep, BeginTrade, ProcessAddItem, ProcessRemoveItem
<1> QED BY <1>1, <1>2, <1>3 DEF Next

-----------------------------------------------------------------------------
(* What the official client's care makes invariant *)

\* A player is party to one live trade at a time.
OneTrade ==
  \A x, y \in TradeId : \A p \in Player :
    /\ Live(x) /\ p \in Parties(trades[x])
    /\ Live(y) /\ p \in Parties(trades[y])
    => x = y

\* The parties of a live trade are in the game and their entity_trades name it.
InPlay ==
  \A id \in TradeId : Live(id) =>
    \A p \in Parties(trades[id]) : InGame(p) /\ entity_trades[p] = id

\* What the parties saw on entering the Review phase is still on the table.
SealedSound ==
  \A id \in TradeId :
    Live(id) /\ trades[id].phase = "Review" => sealed[id] = TermsOf(id)

\* A trade that has not ended has no result.
Unfinished ==
  \A id \in TradeId : Live(id) \/ id >= next_id => finished[id].result = "None"

CarefulInv ==
  /\ GoodsInv /\ panicked # "leftover"
  /\ OneTrade /\ InPlay /\ SealedSound /\ Unfinished

LEMMA PartiesAre ==
  ASSUME TypeOK, NEW id \in TradeId, Live(id), NEW p \in Parties(trades[id])
  PROVE  p \in Player
BY LiveType DEF Parties, PendingTrade

\* The careful steps are steps of Trade.
LEMMA CarefulIsNext ==
  ASSUME CarefulNext
  PROVE  Next
<1>1. ASSUME NEW p \in Player, NEW q \in Player, BeginTrade(p, q) PROVE Next
  BY <1>1 DEF CarefulNext, Next, TradeStep
<1>2. ASSUME NEW p \in Player,
             ExitInGame(p) \/ Disconnect(p) \/ \E c \in Char : EnterInGame(p, c)
      PROVE  Next
  BY <1>2 DEF CarefulNext, Next, SessionStep
<1> QED BY <1>1, <1>2 DEF CarefulNext, Next

\* Only players who are not trading begin a trade.
LEMMA CarefulBegun ==
  ASSUME IInv, CarefulNext, NEW id \in TradeId, ~Live(id), Live(id)'
  PROVE  id = next_id /\ \E p, q \in Player : ~Trading(p) /\ ~Trading(q) /\ BeginTrade(p, q)
<1>t. TypeOK
  BY DEF IInv
<1>1. id = next_id /\ \E p, q \in Player : BeginTrade(p, q)
  BY CarefulIsNext, OnlyBegun
<1>2. next_id' # next_id
  BY <1>1, <1>t DEF BeginTrade, TypeOK
<1>3. ~InventoryStep
  BY <1>2, <1>t, InventoryFrame DEF Manipulated, Untouched
<1> QED BY <1>1, <1>2, <1>3
        DEF CarefulNext, ExitInGame, EnterInGame, Disconnect, tradeVars

\* While a trade goes on, its parties stay as they are.
LEMMA CarefulFrame ==
  ASSUME IInv, OneTrade, CarefulNext, NEW id \in TradeId, Live(id), Live(id)',
         NEW p \in Parties(trades[id])
  PROVE  active'[p] = active[p] /\ entity_trades'[p] = entity_trades[p]
<1>t. TypeOK
  BY DEF IInv
<1>p. p \in Player /\ Trading(p)
  BY <1>t, PartiesAre DEF Trading
<1>1. ASSUME NEW a \in Player, NEW b \in Player, ~Trading(a), ~Trading(b), BeginTrade(a, b)
      PROVE  active'[p] = active[p] /\ entity_trades'[p] = entity_trades[p]
  <2>1. p # a /\ p # b
    BY <1>p, <1>1
  <2> QED BY <1>1, <1>p, <1>t, <2>1 DEF BeginTrade, TypeOK
<1>2. ASSUME NEW q \in Player, ~Trading(q),
             ExitInGame(q) \/ Disconnect(q) \/ \E c \in Char : EnterInGame(q, c)
      PROVE  active'[p] = active[p] /\ entity_trades'[p] = entity_trades[p]
  <2>1. p # q
    BY <1>p, <1>2
  <2> QED BY <1>2, <1>p, <1>t, <2>1
          DEF ExitInGame, EnterInGame, Disconnect, tradeVars, TypeOK
<1>3. CASE InventoryStep
  BY <1>3, <1>t, InventoryFrame DEF Manipulated, Untouched
<1>4. CASE TradeStep /\ next_id' = next_id
  <2>1. ASSUME NEW a \in Player, NEW b \in Player PROVE ~BeginTrade(a, b)
    BY <1>4, <1>t DEF BeginTrade, TypeOK
  <2>2. ASSUME NEW q \in Player, NEW x \in TradeId, ProcessDecline(q, x)
        PROVE  active'[p] = active[p] /\ entity_trades'[p] = entity_trades[p]
    <3>1. Live(x) /\ ~Live(x)'
      BY <2>2, <1>t DEF ProcessDecline, Live, TypeOK
    <3>2. p \notin Parties(trades[x])
      BY <1>p, <3>1 DEF OneTrade
    <3> QED BY <1>p, <2>2, <3>2 DEF ProcessDecline
  <2>3. ASSUME NEW q \in Player, NEW x \in TradeId, NEW phase \in Phase,
               ProcessAccept(q, x, phase)
        PROVE  active' = active /\ entity_trades' = entity_trades
    BY <2>3 DEF ProcessAccept, Commit
  <2> QED BY <1>4, <2>1, <2>2, <2>3 DEF TradeStep, ProcessAddItem, ProcessRemoveItem
<1> QED BY <1>1, <1>2, <1>3, <1>4 DEF CarefulNext

LEMMA CarefulInit == HistoryInit => CarefulInv
<1> SUFFICES ASSUME HistoryInit PROVE CarefulInv
  OBVIOUS
<1>1. GoodsInv
  BY InitGoods DEF HistoryInit
<1>2. panicked = "no" /\ \A id \in TradeId : ~Live(id) /\ finished[id].result = "None"
  BY DEF HistoryInit, Init, Live
<1> QED BY <1>1, <1>2 DEF CarefulInv, OneTrade, InPlay, SealedSound, Unfinished

\* A trade that goes on keeps its parties.
LEMMA SameParties ==
  ASSUME IInv, PartiesDiffer, panicked' # "leftover", [Next]_vars,
         NEW id \in TradeId, Live(id), Live(id)'
  PROVE  trades'[id].parties = trades[id].parties
BY LiveStep

LEMMA CarefulStep ==
  ASSUME OneStackEnough, CarefulInv, CarefulNext, RecordSealed
  PROVE  CarefulInv'
<1>n. Next
  BY CarefulIsNext
<1>t. IInv /\ PartiesDiffer /\ TypeOK
  BY DEF CarefulInv, GoodsInv, IInv
<1>1. GoodsInv'
  BY <1>n, NextGoods DEF CarefulInv
<1>2. panicked' # "leftover"
  BY <1>n, NextFits DEF CarefulInv
<1>k. ASSUME NEW id \in TradeId, Live(id), Live(id)'
      PROVE  /\ Parties(trades'[id]) = Parties(trades[id])
             /\ \A p \in Parties(trades[id]) :
                  /\ p \in Player
                  /\ active'[p] = active[p] /\ entity_trades'[p] = entity_trades[p]
  <2>1. trades'[id].parties = trades[id].parties
    BY <1>k, <1>n, <1>t, <1>2, SameParties DEF CarefulInv
  <2>2. \A p \in Parties(trades[id]) :
          active'[p] = active[p] /\ entity_trades'[p] = entity_trades[p]
    BY <1>k, <1>t, CarefulFrame DEF CarefulInv
  <2> QED BY <1>k, <1>t, <2>1, <2>2, PartiesAre DEF Parties
<1>b. ASSUME NEW id \in TradeId, ~Live(id), Live(id)'
      PROVE  /\ id = next_id /\ trades'[id].phase = "Mutate"
             /\ \A p \in Parties(trades'[id]) :
                  ~Trading(p) /\ InGame(p)' /\ entity_trades'[p] = id
             /\ next_id' = id + 1
  <2>1. PICK p \in Player, q \in Player :
          id = next_id /\ ~Trading(p) /\ ~Trading(q) /\ BeginTrade(p, q)
    BY <1>b, <1>t, CarefulBegun
  <2>2. trades'[id].parties = <<p, q>> /\ trades'[id].phase = "Mutate"
    BY <1>t, <2>1 DEF BeginTrade, TypeOK
  <2>3. Parties(trades'[id]) = {p, q}
    BY <2>2 DEF Parties, Side
  <2>4. InGame(p)' /\ InGame(q)'
    BY <2>1 DEF BeginTrade, InGame
  <2>5. entity_trades'[p] = id /\ entity_trades'[q] = id /\ next_id' = id + 1
    BY <1>t, <2>1 DEF BeginTrade, TypeOK
  <2> QED BY <2>1, <2>2, <2>3, <2>4, <2>5
<1>3. OneTrade'
  <2> SUFFICES ASSUME NEW x \in TradeId, NEW y \in TradeId, NEW p \in Player,
                      Live(x)', p \in Parties(trades'[x]),
                      Live(y)', p \in Parties(trades'[y]), x # y
               PROVE  FALSE
    BY DEF OneTrade
  <2>1. Live(x) \/ Live(y)
    BY <1>b
  <2>2. ASSUME NEW z \in TradeId, Live(z), Live(z)', p \in Parties(trades'[z])
        PROVE  p \in Parties(trades[z]) /\ Trading(p)
    BY <1>k, <2>2 DEF Trading
  <2>3. Live(x) /\ Live(y)
    BY <1>b, <2>1, <2>2
  <2> QED BY <2>2, <2>3 DEF CarefulInv, OneTrade
<1>4. InPlay'
  <2> SUFFICES ASSUME NEW id \in TradeId, Live(id)', NEW p \in Parties(trades'[id])
               PROVE  InGame(p)' /\ entity_trades'[p] = id
    BY DEF InPlay
  <2>1. CASE Live(id)
    BY <1>k, <2>1 DEF CarefulInv, InPlay, InGame
  <2> QED BY <1>b, <2>1
<1>5. SealedSound'
  <2> SUFFICES ASSUME NEW id \in TradeId, Live(id)', trades'[id].phase = "Review"
               PROVE  sealed'[id] = TermsOf(id)'
    BY DEF SealedSound
  <2>1. Live(id)
    BY <1>b
  <2>2. trades[id].phase \in {"Mutate", "Review"}
    BY <1>t, <2>1, LiveType DEF IInv, AtRest, PendingTrade, Phase
  <2>3. CASE trades[id].phase = "Review"
    <3>1. Undisturbed(id)
      BY <1>k, <2>1, <1>t, PartiesAre DEF CarefulInv, OneTrade, InPlay, Undisturbed
    <3>2. TermsOf(id)' = TermsOf(id)
      BY <1>n, <1>t, <2>1, <2>3, <3>1, ReviewStep DEF Live
    <3>3. sealed'[id] = sealed[id] /\ sealed[id] = TermsOf(id)
      BY <2>1, <2>3 DEF RecordSealed, CarefulInv, SealedSound
    <3> QED BY <3>2, <3>3
  <2>4. CASE trades[id].phase = "Mutate"
    <3>1. /\ trades'[id].parties = trades[id].parties
          /\ trades'[id].offers = trades[id].offers
          /\ pack' = pack /\ active' = active
      BY <1>n, <1>t, <1>2, <2>1, <2>4, LiveStep DEF CarefulInv
    <3>2. TermsOf(id)' = TermsOf(id)
      BY <3>1 DEF TermsOf, Inv
    <3>3. sealed'[id] = TermsOf(id)
      BY <2>1, <2>4 DEF RecordSealed, Live
    <3> QED BY <3>2, <3>3
  <2> QED BY <2>2, <2>3, <2>4
<1>6. Unfinished'
  <2> SUFFICES ASSUME NEW id \in TradeId, Live(id)' \/ id >= next_id'
               PROVE  finished'[id].result = "None"
    BY DEF Unfinished
  <2>1. next_id \in Nat /\ next_id' \in Nat /\ next_id <= next_id'
    <3>1. next_id' = next_id \/ next_id' = next_id + 1
      <4>1. CASE InventoryStep
        BY <4>1, <1>t, InventoryFrame DEF Manipulated, Untouched
      <4>2. CASE SessionStep
        BY <4>2 DEF SessionStep, ExitInGame, EnterInGame, Disconnect, tradeVars
      <4>3. CASE TradeStep
        <5>1. ASSUME NEW p \in Player, NEW x \in TradeId, NEW phase \in Phase,
                     ProcessAccept(p, x, phase)
              PROVE  next_id' = next_id
          BY <5>1 DEF ProcessAccept, Commit
        <5> QED BY <4>3, <5>1 DEF TradeStep, BeginTrade, ProcessAddItem,
                                  ProcessRemoveItem, ProcessDecline
      <4> QED BY <1>n, <4>1, <4>2, <4>3 DEF Next
    <3> QED BY <1>t, <3>1 DEF TypeOK
  <2>2. Live(id) \/ id >= next_id
    BY <1>b, <2>1 DEF TradeId
  <2>3. finished[id].result = "None"
    BY <2>2 DEF CarefulInv, Unfinished
  <2>4. CASE ~Live(id)
    BY <1>n, <1>t, <2>3, <2>4, DeadStep
  <2>5. CASE Live(id)
    <3>1. Live(id)'
      <4>1. id < next_id
        BY <1>t, <2>5 DEF IInv, LiveBelow
      <4> QED BY <2>1, <4>1 DEF TradeId
    <3> QED BY <1>n, <1>t, <1>2, <2>3, <2>5, <3>1, LiveStep DEF CarefulInv
  <2> QED BY <2>4, <2>5
<1> QED BY <1>1, <1>2, <1>3, <1>4, <1>5, <1>6 DEF CarefulInv

-----------------------------------------------------------------------------
(* The refinement *)

\* The status and the terms of one trade.
StatusOf(id) ==
  IF Live(id)
    THEN IF trades[id].phase = "Mutate" THEN "open" ELSE "sealed"
    ELSE CASE finished[id].result = "None"      -> "none"
           [] finished[id].result = "Completed" -> "settled"
           [] OTHER                             -> "off"

TermsNow(id) ==
  CASE StatusOf(id) = "sealed"  -> sealed[id]
    [] StatusOf(id) = "settled" -> finished[id].goods
    [] OTHER                    -> NoGoods

LEMMA MappingIs ==
  /\ DealStatus = [id \in TradeId |-> StatusOf(id)]
  /\ DealTerms = [id \in TradeId |-> TermsNow(id)]
<1>1. DealStatus = [id \in TradeId |-> StatusOf(id)]
  BY DEF DealStatus, StatusOf
<1> QED BY <1>1 DEF DealTerms, TermsNow

\* The goods of a live trade are terms.
LEMMA TermsBound ==
  ASSUME TypeOK, NEW id \in TradeId, Live(id)
  PROVE  TermsOf(id) \in Bound
<1>1. \A i \in Side : trades[id].offers[i] \in Offer
  BY LiveType DEF PendingTrade
<1>2. \A i \in Side :
        GoodsOf(trades[id].offers[i], Inv(trades[id].parties[i]))
          \in [Kind -> 0..MaxAmount * NSlots]
  BY <1>1, GoodsBound
<1> QED BY <1>2 DEF TermsOf, Bound

\* What a careful step can do to one trade, as Agreement sees it.
Same(id) == StatusOf(id)' = StatusOf(id) /\ TermsNow(id)' = TermsNow(id)

Opens(id) ==
  StatusOf(id) = "none" /\ StatusOf(id)' = "open" /\ TermsNow(id)' = TermsNow(id)

Seals(id) ==
  StatusOf(id) = "open" /\ StatusOf(id)' = "sealed" /\ TermsNow(id)' \in Bound

Settles(id) ==
  StatusOf(id) = "sealed" /\ StatusOf(id)' = "settled" /\ TermsNow(id)' = TermsNow(id)

CalledOff(id) ==
  /\ StatusOf(id) \in {"open", "sealed"}
  /\ StatusOf(id)' = "off" /\ TermsNow(id)' = NoGoods

LEMMA SameStep ==
  ASSUME RecordSealed, NEW id \in TradeId,
         trades'[id] = trades[id], finished'[id] = finished[id]
  PROVE  Same(id)
<1>1. StatusOf(id)' = StatusOf(id)
  BY DEF StatusOf, Live
<1>2. sealed'[id] = sealed[id]
  BY DEF RecordSealed, Live
<1> QED BY <1>1, <1>2 DEF Same, TermsNow

LEMMA DealStep ==
  ASSUME OneStackEnough, CarefulInv, CarefulNext, RecordSealed, NEW id \in TradeId
  PROVE  Same(id) \/ Opens(id) \/ Seals(id) \/ Settles(id) \/ CalledOff(id)
<1>n. Next
  BY CarefulIsNext
<1>t. IInv /\ PartiesDiffer /\ TypeOK
  BY DEF CarefulInv, GoodsInv, IInv
<1>i. CarefulInv' /\ panicked' # "leftover"
  BY CarefulStep DEF CarefulInv
<1>1. CASE ~Live(id) /\ ~Live(id)'
  <2>1. trades'[id] = trades[id]
    BY <1>1 DEF Live
  <2>2. finished'[id] = finished[id]
    BY <1>n, <1>t, <1>1, DeadStep
  <2> QED BY <2>1, <2>2, SameStep
<1>2. CASE ~Live(id) /\ Live(id)'
  <2>1. id = next_id /\ \E p, q \in Player : BeginTrade(p, q)
    BY <1>n, <1>t, <1>2, OnlyBegun
  <2>2. trades'[id].phase = "Mutate"
    BY <1>t, <2>1 DEF BeginTrade, TypeOK
  <2>3. finished[id].result = "None"
    BY <2>1 DEF CarefulInv, Unfinished, TradeId
  <2>4. StatusOf(id) = "none" /\ StatusOf(id)' = "open"
    BY <1>2, <2>2, <2>3 DEF StatusOf
  <2>5. TermsNow(id) = NoGoods /\ TermsNow(id)' = NoGoods
    BY <2>4 DEF TermsNow
  <2> QED BY <2>4, <2>5 DEF Opens
<1>3. CASE Live(id)
  <2>0. trades[id].phase \in {"Mutate", "Review"}
    BY <1>t, <1>3, LiveType DEF IInv, AtRest, PendingTrade, Phase
  <2>s. StatusOf(id) = IF trades[id].phase = "Mutate" THEN "open" ELSE "sealed"
    BY <1>3 DEF StatusOf
  <2>1. CASE Live(id)' /\ trades'[id].phase = trades[id].phase
    <3>1. StatusOf(id)' = StatusOf(id)
      BY <1>3, <2>1 DEF StatusOf
    <3>2. StatusOf(id) \in {"open", "sealed"}
      BY <2>s
    <3>3. sealed'[id] = sealed[id]
      BY <1>3, <2>1 DEF RecordSealed
    <3> QED BY <3>1, <3>2, <3>3 DEF Same, TermsNow
  <2>2. CASE /\ Live(id)' /\ trades[id].phase = "Mutate" /\ trades'[id].phase = "Review"
    <3>1. StatusOf(id) = "open" /\ StatusOf(id)' = "sealed"
      BY <1>3, <2>2 DEF StatusOf
    <3>2. sealed'[id] = TermsOf(id)
      BY <1>3, <2>2 DEF RecordSealed, Live
    <3>3. TermsNow(id)' = sealed'[id]
      BY <3>1 DEF TermsNow
    <3> QED BY <1>t, <1>3, <3>1, <3>2, <3>3, TermsBound DEF Seals
  <2>3. CASE ~Live(id)' /\ finished'[id].result \in {"Declined", "NotEnoughSpace"}
    <3>1. StatusOf(id)' = "off"
      BY <2>3 DEF StatusOf
    <3>2. TermsNow(id)' = NoGoods
      BY <3>1 DEF TermsNow
    <3> QED BY <2>s, <3>1, <3>2 DEF CalledOff
  <2>4. CASE /\ ~Live(id)' /\ trades[id].phase = "Review"
             /\ finished'[id].result = "Completed" /\ finished'[id].goods = TermsOf(id)
    <3>1. StatusOf(id) = "sealed" /\ StatusOf(id)' = "settled"
      BY <2>s, <2>4 DEF StatusOf
    <3>2. TermsNow(id) = sealed[id] /\ TermsNow(id)' = finished'[id].goods
      BY <3>1 DEF TermsNow
    <3>3. sealed[id] = TermsOf(id)
      BY <1>3, <2>4 DEF CarefulInv, SealedSound
    <3> QED BY <2>4, <3>1, <3>2, <3>3 DEF Settles
  <2> QED BY <1>n, <1>t, <1>i, <1>3, <2>1, <2>2, <2>3, <2>4, LiveStep
<1> QED BY <1>1, <1>2, <1>3

\* A step of Trade is one step of one deal, or none at all.
LEMMA DealsStep ==
  ASSUME OneStackEnough, CarefulInv, CarefulNext, RecordSealed
  PROVE  [Deals!Next]_<<DealStatus, DealTerms>>
<1>n. Next /\ IInv
  BY CarefulIsNext DEF CarefulInv, GoodsInv
<1>1. PICK id \in TradeId \cup {NoTrade} : \A x \in TradeId \ {id} : Same(x)
  <2>1. CASE \A x \in TradeId : trades'[x] = trades[x] /\ finished'[x] = finished[x]
    BY <2>1, SameStep
  <2>2. CASE \E id \in TradeId : \A x \in TradeId \ {id} :
               trades'[x] = trades[x] /\ finished'[x] = finished[x]
    BY <2>2, SameStep
  <2> QED BY <1>n, <2>1, <2>2, TouchesOne
<1>s. /\ DealStatus = [x \in TradeId |-> StatusOf(x)]
      /\ DealTerms = [x \in TradeId |-> TermsNow(x)]
      /\ DealStatus' = [x \in TradeId |-> StatusOf(x)']
      /\ DealTerms' = [x \in TradeId |-> TermsNow(x)']
  <2>1. DealStatus' = [x \in TradeId |-> StatusOf(x)']
    BY DEF DealStatus, StatusOf
  <2>2. DealTerms' = [x \in TradeId |-> TermsNow(x)']
    BY <2>1 DEF DealTerms, TermsNow
  <2> QED BY <2>1, <2>2, MappingIs
<1>2. CASE \A x \in TradeId : Same(x)
  BY <1>s, <1>2 DEF Same
<1>3. CASE id \in TradeId /\ ~Same(id)
  <2>1. DealStatus' = [DealStatus EXCEPT ![id] = StatusOf(id)']
    BY <1>1, <1>3, <1>s DEF Same
  <2>2. DealTerms' = [DealTerms EXCEPT ![id] = TermsNow(id)']
    BY <1>1, <1>3, <1>s DEF Same
  <2>3. DealStatus[id] = StatusOf(id) /\ DealTerms[id] = TermsNow(id)
    BY <1>3, <1>s
  <2>4. DealTerms = [DealTerms EXCEPT ![id] = TermsNow(id)]
    BY <1>3, <1>s
  <2>5. CASE Opens(id)
    <3>1. Deals!Open(id)
      BY <2>1, <2>2, <2>3, <2>4, <2>5 DEF Opens, Deals!Open
    <3> QED BY <1>3, <3>1 DEF Deals!Next
  <2>6. CASE Seals(id)
    <3>1. Deals!Seal(id, TermsNow(id)')
      BY <2>1, <2>2, <2>3, <2>6 DEF Seals, Deals!Seal
    <3> QED BY <1>3, <2>6, <3>1 DEF Deals!Next, Seals
  <2>7. CASE Settles(id)
    <3>1. Deals!Settle(id)
      BY <2>1, <2>2, <2>3, <2>4, <2>7 DEF Settles, Deals!Settle
    <3> QED BY <1>3, <3>1 DEF Deals!Next
  <2>8. CASE CalledOff(id)
    <3>1. Deals!CallOff(id)
      BY <2>1, <2>2, <2>3, <2>8 DEF CalledOff, Deals!CallOff
    <3> QED BY <1>3, <3>1 DEF Deals!Next
  <2> QED BY <1>3, <2>5, <2>6, <2>7, <2>8, DealStep
<1> QED BY <1>1, <1>2, <1>3

\* For players who trade one at a time and stay in the game, a trade of the
\* server is a deal of Agreement: both parties consent to terms on entering the
\* Review phase, and from then on they get exactly those goods, all at once, or
\* nothing moves (PendingTrade::process_trade_action, common/src/trade.rs:124-177,
\* commit_trade and the gate of handle_inventory).
THEOREM AgreementImplemented ==
  ASSUME \A k \in Kind : StartTotal(k) <= MaxAmount
  PROVE  CarefulSpec => Implements
<1>0. OneStackEnough
  BY DEF OneStackEnough
<1>1. HistoryInit => CarefulInv
  BY CarefulInit
<1>2. CarefulInv /\ [CarefulNext /\ RecordSealed]_historyVars => CarefulInv'
  <2>1. ASSUME CarefulInv, UNCHANGED historyVars PROVE CarefulInv'
    <3>1. GoodsInv'
      BY <2>1, NextGoods DEF CarefulInv, historyVars
    <3> QED BY <2>1, <3>1
            DEF CarefulInv, OneTrade, InPlay, SealedSound, Unfinished, historyVars, vars,
                tradeVars, itemVars, Live, Parties, InGame, TermsOf, Inv
  <2> QED BY <1>0, <2>1, CarefulStep
<1>3. HistoryInit => Deals!Init
  <2> SUFFICES ASSUME HistoryInit PROVE Deals!Init
    OBVIOUS
  <2>1. \A id \in TradeId : StatusOf(id) = "none" /\ TermsNow(id) = NoGoods
    BY DEF HistoryInit, Init, StatusOf, TermsNow, Live
  <2> QED BY <2>1, MappingIs DEF Deals!Init
<1>4. CarefulInv /\ [CarefulNext /\ RecordSealed]_historyVars
        => [Deals!Next]_Deals!DealVars
  <2>1. ASSUME UNCHANGED historyVars PROVE UNCHANGED <<DealStatus, DealTerms>>
    BY <2>1 DEF historyVars, vars, tradeVars, DealStatus, DealTerms, Live
  <2> QED BY <1>0, <2>1, DealsStep DEF Deals!DealVars
<1> QED BY <1>1, <1>2, <1>3, <1>4, PTL DEF CarefulSpec, Implements, Deals!Spec
=============================================================================
