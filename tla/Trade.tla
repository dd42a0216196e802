------------------------------- MODULE Trade ---------------------------------
(***************************************************************************)
(* Trades between players: the Trades resource and the PendingTrade phases *)
(* (common/src/trade.rs), the handlers of trade actions                    *)
(* (server/src/events/trade.rs) and of inventory manipulations             *)
(* (server/src/events/inventory_manip.rs), whose gate protects sealed      *)
(* trades, and the steps that swap a player's inventory under a trade:     *)
(* leaving the game for the character screen, coming back with the same or *)
(* another character, and disconnecting.                                   *)
(*                                                                         *)
(* Every server event is handled to its end before the next one, so a      *)
(* handler is one step.                                                    *)
(***************************************************************************)
EXTENDS Inventory

CONSTANTS
  Player,       \* Uids of the players
  Char,         \* the characters of all players
  OwnerOf,      \* [Char -> Player]
  Equippable,   \* kinds that can be worn; they do not stack
  Consumable,   \* kinds that are used up by Use
  StartPack,    \* [Char -> Inventories], the inventories at the start
  StartBlocks,  \* kinds for which there is a collectible block in the world
  MaxTrades,    \* bound: number of trades begun in a behaviour
  MaxOffer,     \* bound: quantities named in a trade action
  NoTrade,      \* no such trade, no trade of this entity
  NoChar,       \* on the character screen: connected, without inventory
  Gone          \* disconnected: the Uid maps to no entity any more

ASSUME TradeAssumption ==
  /\ OwnerOf \in [Char -> Player]
  /\ Equippable \subseteq Kind \ Stackable
  /\ Consumable \subseteq Kind \ Equippable
  /\ StartPack \in [Char -> Inventories]
  /\ StartBlocks \subseteq Kind
  /\ MaxTrades \in Nat
  /\ MaxOffer \in 1..MaxAmount
  /\ {NoChar, Gone} \cap Char = {}

ASSUME CharAssumption == IsFiniteSet(Char)

TradeId == 0..MaxTrades-1
ASSUME NoTradeAssumption == NoTrade \notin TradeId

Side  == 1..2
Phase == {"Mutate", "Review", "Complete"}

\* HashMap<InvSlotId, u32>
Offer == UNION {[S -> 0..MaxAmount] : S \in SUBSET Slot}

PendingTrade == [parties      : [Side -> Player],
                 offers       : [Side -> Offer],
                 phase        : Phase,
                 accept_flags : [Side -> BOOLEAN]]

ASSUME NoPendingTradeAssumption == NoTrade \notin PendingTrade

\* What the equipment slot can_hold.
Wearable == {i \in Stack : i.kind \in Equippable} \cup {NoItem}

\* What a party gives, by kind.
Goods   == [Kind -> Nat]
NoGoods == [i \in Side |-> [k \in Kind |-> 0]]

Result == {"None", "Completed", "Declined", "NotEnoughSpace"}

VARIABLES
  trades,         \* Trades.trades
  entity_trades,  \* Trades.entity_trades
  next_id,        \* Trades.next_id
  active,         \* the character a player is in the game with
  pack,           \* the inventory slots of a character
  worn,           \* the character's equipment slot
  ground,         \* item entities lying in the world
  blocks,         \* collectible blocks in the world
  finished,       \* the TradeResult sent for a trade and what it moved
  panicked        \* which expect() or panic!() of a handler was reached

tradeVars == <<trades, entity_trades, next_id, finished>>
itemVars  == <<pack, worn, ground, blocks>>
vars      == <<tradeVars, itemVars, active, panicked>>

TypeOK ==
  /\ trades \in [TradeId -> PendingTrade \cup {NoTrade}]
  /\ entity_trades \in [Player -> TradeId \cup {NoTrade}]
  /\ next_id \in 0..MaxTrades
  /\ active \in [Player -> Char \cup {NoChar, Gone}]
  /\ \A p \in Player : active[p] \in Char => OwnerOf[active[p]] = p
  /\ pack \in [Char -> Inventories]
  /\ worn \in [Char -> Wearable]
  /\ ground \in [Stack -> Nat]
  /\ blocks \subseteq Kind
  /\ DOMAIN finished = TradeId
  /\ \A id \in TradeId : finished[id].result \in Result
  /\ panicked \in {"no", "leftover", "overflow", "selfmerge"}

Init ==
  /\ trades = [id \in TradeId |-> NoTrade]
  /\ entity_trades = [p \in Player |-> NoTrade]
  /\ next_id = 0
  /\ active \in [Player -> Char]
  /\ \A p \in Player : OwnerOf[active[p]] = p
  /\ pack = StartPack
  /\ worn = [c \in Char |-> NoItem]
  /\ ground = [i \in Stack |-> 0]
  /\ blocks = StartBlocks
  /\ finished = [id \in TradeId |-> [result |-> "None", goods |-> NoGoods]]
  /\ panicked = "no"

-----------------------------------------------------------------------------
(* Trades: lookups *)

InGame(p) == active[p] \in Char
Inv(p)    == pack[active[p]]

Live(id)     == trades[id] # NoTrade
Parties(t)   == {t.parties[i] : i \in Side}
\* which_party; the parties of a trade differ (handle_invite refuses oneself)
PartyOf(t, p) == CHOOSE i \in Side : t.parties[i] = p

\* The trade entity_trades names for p, if it still exists.
InTrade(p) == entity_trades[p] # NoTrade /\ Live(entity_trades[p])
\* Mutant: the gate closes one phase too late.
InImmutableTradeLate(p) == InTrade(p) /\ trades[entity_trades[p]].phase = "Complete"

InImmutableTrade(p) == InTrade(p) /\ trades[entity_trades[p]].phase # "Mutate"
InMutableTrade(p)   == InTrade(p) /\ trades[entity_trades[p]].phase = "Mutate"

NoFlags == [i \in Side |-> FALSE]
ResetFlags(t) == [t EXCEPT !.accept_flags = NoFlags]

\* Mutant: the flags survive a manipulation.
ImplicitMutationKeep(p) == trades

ImplicitMutation(p) == [trades EXCEPT ![entity_trades[p]] = ResetFlags(@)]

(* PendingTrade::process_trade_action, one operator for each TradeAction *)

Offered(o, s)  == IF s \in DOMAIN o THEN o[s] ELSE 0

\* Mutant: offers can grow in every phase.
AddItemAnyPhase(t, who, s, delta, owned) ==
  LET o     == t.offers[who]
      total == Min({Offered(o, s) + delta, owned})
  IN  ResetFlags([t EXCEPT !.offers[who] =
        [x \in DOMAIN o \cup {s} |-> IF x = s THEN total ELSE o[x]]])

AddItem(t, who, s, delta, owned) ==
  LET o     == t.offers[who]
      total == Min({Offered(o, s) + delta, owned})
  IN  IF t.phase = "Mutate" /\ delta > 0
        THEN ResetFlags([t EXCEPT !.offers[who] =
               [x \in DOMAIN o \cup {s} |-> IF x = s THEN total ELSE o[x]]])
        ELSE t

\* Mutant: a wrapping subtraction that keeps the entry.
RemoveItemWraps(t, who, s, delta) ==
  IF t.phase = "Mutate"
    THEN ResetFlags([t EXCEPT !.offers[who] =
           [x \in DOMAIN @ |-> IF x = s THEN @[x] - delta ELSE @[x]]])
    ELSE t

RemoveItem(t, who, s, delta) ==
  LET o    == t.offers[who]
      keep == IF Offered(o, s) > delta THEN DOMAIN o ELSE DOMAIN o \ {s}
  IN  IF t.phase = "Mutate"
        THEN ResetFlags([t EXCEPT !.offers[who] =
               [x \in keep |-> IF x = s THEN o[x] - delta ELSE o[x]]])
        ELSE t

NextPhase(phase) == IF phase = "Mutate" THEN "Review" ELSE "Complete"

\* Mutant: the flags of one phase count for the next.
AcceptPhaseKeepFlags(t, who, phase) ==
  LET flags == IF t.phase = phase THEN [t.accept_flags EXCEPT ![who] = TRUE]
                                  ELSE t.accept_flags
  IN  IF \A i \in Side : flags[i]
        THEN [t EXCEPT !.phase = NextPhase(@), !.accept_flags = flags]
        ELSE [t EXCEPT !.accept_flags = flags]

AcceptPhase(t, who, phase) ==
  LET flags == IF t.phase = phase THEN [t.accept_flags EXCEPT ![who] = TRUE]
                                  ELSE t.accept_flags
  IN  IF \A i \in Side : flags[i]
        THEN ResetFlags([t EXCEPT !.phase = NextPhase(@)])
        ELSE [t EXCEPT !.accept_flags = flags]

-----------------------------------------------------------------------------
(* commit_trade *)

\* What an offer names out of the inventory inv, by kind.
GoodsOf(offer, inv) ==
  [k \in Kind |->
    MapThenSumSet(LAMBDA s : offer[s],
                  {s \in DOMAIN offer : inv[s] # NoItem /\ inv[s].kind = k})]

\* An offered slot is empty or holds less than the offer.
OfferBroken(t, i) ==
  \E s \in DOMAIN t.offers[i] :
    \/ Inv(t.parties[i])[s] = NoItem
    \/ Owned(Inv(t.parties[i]), s) < t.offers[i][s]

\* Mutant: every offer is taken to empty its slot.
DeltaSlotsOptimistic(t, i) ==
  Cardinality(DOMAIN t.offers[3 - i]) - Cardinality(DOMAIN t.offers[i])

\* Net change in occupied slots: minus the stacks given away whole, plus one
\* for every offer of the other side.
DeltaSlots(t, i) ==
  Cardinality(DOMAIN t.offers[3 - i])
    - Cardinality({s \in DOMAIN t.offers[i] :
                     t.offers[i][s] = Owned(Inv(t.parties[i]), s)})

NoSpace(t, i) ==
  Cardinality(Occupied(Inv(t.parties[i]))) + DeltaSlots(t, i) > NSlots

\* Side i's inventory once everything it offers is taken out.
AfterGiving(t, i) ==
  [s \in Slot |->
    IF s \in DOMAIN t.offers[i]
      THEN TakeUnits(Inv(t.parties[i]), s, t.offers[i][s])[s]
      ELSE Inv(t.parties[i])[s]]

\* Mutant: the whole stack changes hands whatever the quantity offered.
GivenWhole(t, i, order) ==
  [n \in DOMAIN order |-> Inv(t.parties[i])[order[n]]]

\* The items side i hands over, in the order its offers were iterated.  The
\* units of one offer are pushed one after the other: one stack of them.
Given(t, i, order) ==
  [n \in DOMAIN order |->
    [kind   |-> Inv(t.parties[i])[order[n]].kind,
     amount |-> t.offers[i][order[n]]]]

\* HashMap iteration: the nonzero offers in any order.
OfferOrders(t, i) == SetToSeqs({s \in DOMAIN t.offers[i] : t.offers[i][s] > 0})

Finish(id, result, goods) ==
  finished' = [finished EXCEPT ![id] = [result |-> result, goods |-> goods]]

\* commit_trade and the removal of the trade that follows it.
Commit(id, t) ==
  /\ trades' = [trades EXCEPT ![id] = NoTrade]
  /\ UNCHANGED <<entity_trades, next_id, active, worn, ground, blocks>>
  /\ \/ /\ \E i \in Side : OfferBroken(t, i)
        /\ Finish(id, "Declined", NoGoods)
        /\ UNCHANGED <<pack, panicked>>
     \/ /\ \A i \in Side : ~OfferBroken(t, i)
        /\ \E i \in Side : NoSpace(t, i)
        /\ Finish(id, "NotEnoughSpace", NoGoods)
        /\ UNCHANGED <<pack, panicked>>
     \/ /\ \A i \in Side : ~OfferBroken(t, i) /\ ~NoSpace(t, i)
        /\ \E o1 \in OfferOrders(t, 1), o2 \in OfferOrders(t, 2) :
             LET after == <<PushAll(AfterGiving(t, 1), Given(t, 2, o2)),
                            PushAll(AfterGiving(t, 2), Given(t, 1, o1))>>
             IN  IF \A i \in Side : after[i] \in Inventories
                   THEN /\ pack' = [pack EXCEPT ![active[t.parties[1]]] = after[1],
                                                ![active[t.parties[2]]] = after[2]]
                        /\ Finish(id, "Completed",
                             [i \in Side |-> GoodsOf(t.offers[i], Inv(t.parties[i]))])
                        /\ UNCHANGED panicked
                   ELSE /\ panicked' = "leftover"   \* by push_all
                        /\ UNCHANGED <<pack, finished>>

-----------------------------------------------------------------------------
(* Handlers of trade events *)

\* Mutant: the id is not used up.
BeginTradeReuse(inviter, invitee) ==
  /\ inviter # invitee /\ InGame(inviter) /\ InGame(invitee)
  /\ next_id < MaxTrades
  /\ trades' = [trades EXCEPT ![next_id] =
       [parties      |-> <<inviter, invitee>>,
        offers       |-> [i \in Side |-> [s \in {} |-> 0]],
        phase        |-> "Mutate",
        accept_flags |-> NoFlags]]
  /\ entity_trades' = [entity_trades EXCEPT ![inviter] = next_id,
                                            ![invitee] = next_id]
  /\ UNCHANGED <<itemVars, active, next_id, finished, panicked>>

\* handle_invite_accept for a trade: nothing asks whether a party is trading.
BeginTrade(inviter, invitee) ==
  /\ inviter # invitee /\ InGame(inviter) /\ InGame(invitee)
  /\ next_id < MaxTrades
  /\ trades' = [trades EXCEPT ![next_id] =
       [parties      |-> <<inviter, invitee>>,
        offers       |-> [i \in Side |-> [s \in {} |-> 0]],
        phase        |-> "Mutate",
        accept_flags |-> NoFlags]]
  /\ entity_trades' = [entity_trades EXCEPT ![inviter] = next_id,
                                            ![invitee] = next_id]
  /\ next_id' = next_id + 1
  /\ UNCHANGED <<itemVars, active, finished, panicked>>

\* Trades::process_trade_action gets as far as the trade: the sender is one of
\* its parties and both parties have an inventory.
CanProcess(p, id) ==
  /\ InGame(p) /\ Live(id)
  /\ p \in Parties(trades[id])
  /\ \A q \in Parties(trades[id]) : InGame(q)

OwnerSide(p, id, ours) ==
  IF ours THEN PartyOf(trades[id], p) ELSE 3 - PartyOf(trades[id], p)

ProcessAddItem(p, id, s, quantity, ours) ==
  /\ CanProcess(p, id)
  /\ LET t   == trades[id]
         who == OwnerSide(p, id, ours)
     IN  trades' = [trades EXCEPT ![id] =
           AddItem(t, who, s, quantity, Owned(Inv(t.parties[who]), s))]
  /\ UNCHANGED <<itemVars, active, entity_trades, next_id, finished, panicked>>

ProcessRemoveItem(p, id, s, quantity, ours) ==
  /\ CanProcess(p, id)
  /\ trades' = [trades EXCEPT ![id] =
       RemoveItem(@, OwnerSide(p, id, ours), s, quantity)]
  /\ UNCHANGED <<itemVars, active, entity_trades, next_id, finished, panicked>>

\* Accept, and the commit when the trade is complete (should_commit).
ProcessAccept(p, id, phase) ==
  /\ CanProcess(p, id)
  /\ LET t == AcceptPhase(trades[id], PartyOf(trades[id], p), phase)
     IN  IF t.phase = "Complete"
           THEN Commit(id, t)
           ELSE /\ trades' = [trades EXCEPT ![id] = t]
                /\ UNCHANGED <<itemVars, active, entity_trades, next_id,
                               finished, panicked>>

\* decline_trade
ProcessDecline(p, id) ==
  /\ InGame(p) /\ Live(id)
  /\ p \in Parties(trades[id])
  /\ trades' = [trades EXCEPT ![id] = NoTrade]
  /\ entity_trades' = [q \in Player |-> IF q \in Parties(trades[id])
                                          THEN NoTrade ELSE entity_trades[q]]
  /\ Finish(id, "Declined", NoGoods)
  /\ UNCHANGED <<itemVars, active, next_id, panicked>>

-----------------------------------------------------------------------------
(* handle_inventory: the gate, one manipulation, and the reset of the flags *)

Manipulate(p, inv, equipped) ==
  /\ InGame(p)
  /\ ~InImmutableTrade(p)
  /\ pack' = [pack EXCEPT ![active[p]] = inv]
  /\ worn' = [worn EXCEPT ![active[p]] = equipped]
  /\ trades' = IF InMutableTrade(p) THEN ImplicitMutation(p) ELSE trades
  /\ UNCHANGED <<entity_trades, next_id, finished, active, panicked>>

\* One of the manipulations that leave the world alone.
ManipulateOwn(p, inv, equipped) ==
  Manipulate(p, inv, equipped) /\ UNCHANGED <<ground, blocks>>

\* One that drops the item i.
ManipulateDrop(p, inv, equipped, i) ==
  /\ Manipulate(p, inv, equipped)
  /\ ground' = [ground EXCEPT ![i] = @ + 1]
  /\ UNCHANGED blocks

\* InventoryManip::Pickup of an item in reach: worn if it can be, else pushed;
\* an item that does not fit stays where it is.
Pickup(p, i) ==
  /\ InGame(p) /\ ground[i] > 0
  /\ LET wear  == i.kind \in Equippable /\ worn[active[p]] = NoItem
         inv   == IF wear THEN Inv(p) ELSE Push(Inv(p), i)
     IN  IF inv = Full
           THEN ManipulateOwn(p, Inv(p), worn[active[p]])
           ELSE /\ Manipulate(p, inv, IF wear THEN i ELSE worn[active[p]])
                /\ ground' = [ground EXCEPT ![i] = @ - 1]
                /\ UNCHANGED blocks

\* Mutant: the block stays collectible.
CollectKeepBlock(p, k) ==
  /\ InGame(p) /\ k \in blocks
  /\ LET inv == Push(Inv(p), [kind |-> k, amount |-> 1])
     IN  ManipulateOwn(p, IF inv = Full THEN Inv(p) ELSE inv, worn[active[p]])

\* InventoryManip::Collect of a block in reach that yields a k.
Collect(p, k) ==
  /\ InGame(p) /\ k \in blocks
  /\ LET inv == Push(Inv(p), [kind |-> k, amount |-> 1])
     IN  IF inv = Full
           THEN ManipulateOwn(p, Inv(p), worn[active[p]])
           ELSE /\ Manipulate(p, inv, worn[active[p]])
                /\ blocks' = blocks \ {k}
                /\ UNCHANGED ground

\* InventoryManip::Use of a slot: wear the item, use one up, or put it back.
Use(p, s) ==
  /\ InGame(p)
  /\ LET inv == Inv(p)
         i   == inv[s]
     IN  \/ /\ i # NoItem /\ i.kind \in Equippable
            /\ ManipulateOwn(p, [inv EXCEPT ![s] = worn[active[p]]], i)
         \/ /\ i # NoItem /\ i.kind \in Consumable
            /\ ManipulateOwn(p, TakeUnits(inv, s, 1), worn[active[p]])
         \/ /\ i # NoItem => i.kind \notin Equippable \cup Consumable
            /\ ManipulateOwn(p, inv, worn[active[p]])

\* InventoryManip::Use of the equipment slot: unequip if there is a free slot.
UseEquipped(p) ==
  /\ InGame(p)
  /\ IF worn[active[p]] # NoItem /\ Occupied(Inv(p)) # Slot
       THEN ManipulateOwn(p, Push(Inv(p), worn[active[p]]), NoItem)
       ELSE ManipulateOwn(p, Inv(p), worn[active[p]])

\* InventoryManip::Swap of two slots: merge the stacks or exchange them.  One
\* expect() relies on the target still being there once the source is removed,
\* the other on the sum being an amount; nothing asks whether the slots differ.
SwapSlots(p, a, b) ==
  /\ InGame(p)
  /\ IF CanMerge(Inv(p), a, b)
       THEN IF a # b /\ CanGrow(Inv(p)[b], Inv(p)[a].amount)
              THEN ManipulateOwn(p, Merge(Inv(p), a, b), worn[active[p]])
              ELSE /\ ~InImmutableTrade(p)
                   /\ panicked' = IF a = b THEN "selfmerge" ELSE "overflow"
                   /\ UNCHANGED <<tradeVars, itemVars, active>>
       ELSE ManipulateOwn(p, Swap(Inv(p), a, b), worn[active[p]])

\* InventoryManip::Swap of the equipment slot and a slot (swap_inventory_loadout)
SwapEquipped(p, s) ==
  /\ InGame(p)
  /\ IF Inv(p)[s] # NoItem /\ Inv(p)[s].kind \notin Equippable
       THEN ManipulateOwn(p, Inv(p), worn[active[p]])
       ELSE ManipulateOwn(p, [Inv(p) EXCEPT ![s] = worn[active[p]]], Inv(p)[s])

\* InventoryManip::SplitSwap: half of the source goes to the target; two
\* different items end it before anything is done.
SplitSwap(p, a, b) ==
  /\ InGame(p)
  /\ LET inv  == Inv(p)
         half == [kind |-> inv[a].kind, amount |-> HalfOf(inv[a])]
     IN  /\ inv[a] # NoItem /\ inv[b] # NoItem => SameItem(inv[a], inv[b])
         /\ IF inv[a] = NoItem
              THEN ManipulateOwn(p, inv, worn[active[p]])
              ELSE ManipulateOwn(p, InsertOrStackAt(TakeUnits(inv, a, half.amount), b, half),
                              worn[active[p]])

\* InventoryManip::Drop of a slot
Drop(p, s) ==
  /\ InGame(p)
  /\ IF Inv(p)[s] = NoItem
       THEN ManipulateOwn(p, Inv(p), worn[active[p]])
       ELSE ManipulateDrop(p, RemoveSlot(Inv(p), s), worn[active[p]], Inv(p)[s])

\* InventoryManip::Drop of the equipment slot
DropEquipped(p) ==
  /\ InGame(p)
  /\ IF worn[active[p]] = NoItem
       THEN ManipulateOwn(p, Inv(p), NoItem)
       ELSE ManipulateDrop(p, Inv(p), NoItem, worn[active[p]])

\* InventoryManip::SplitDrop
SplitDrop(p, s) ==
  /\ InGame(p)
  /\ LET i == Inv(p)[s]
     IN  IF i = NoItem
           THEN ManipulateOwn(p, Inv(p), worn[active[p]])
           ELSE ManipulateDrop(p, TakeUnits(Inv(p), s, HalfOf(i)), worn[active[p]],
                            [i EXCEPT !.amount = HalfOf(i)])

-----------------------------------------------------------------------------
(* The player leaves the game and comes back; pending trades stay. *)

\* handle_exit_ingame: the Uid moves to an entity without an inventory.
ExitInGame(p) ==
  /\ InGame(p)
  /\ active' = [active EXCEPT ![p] = NoChar]
  /\ UNCHANGED <<tradeVars, itemVars, panicked>>

\* The character screen's choice, loaded: the same Uid, that character's items.
EnterInGame(p, c) ==
  /\ active[p] = NoChar /\ OwnerOf[c] = p
  /\ active' = [active EXCEPT ![p] = c]
  /\ UNCHANGED <<tradeVars, itemVars, panicked>>

\* handle_client_disconnect
Disconnect(p) ==
  /\ active[p] # Gone
  /\ active' = [active EXCEPT ![p] = Gone]
  /\ UNCHANGED <<tradeVars, itemVars, panicked>>

-----------------------------------------------------------------------------
TradeStep ==
  \E p \in Player :
    \/ \E q \in Player : BeginTrade(p, q)
    \/ \E id \in TradeId :
         \/ \E s \in Slot, n \in 1..MaxOffer, ours \in BOOLEAN :
              \/ ProcessAddItem(p, id, s, n, ours)
              \/ ProcessRemoveItem(p, id, s, n, ours)
         \/ \E phase \in Phase : ProcessAccept(p, id, phase)
         \/ ProcessDecline(p, id)

InventoryStep ==
  \E p \in Player :
    \/ \E i \in Stack : Pickup(p, i)
    \/ \E k \in Kind : Collect(p, k)
    \/ \E s \in Slot : Use(p, s) \/ SwapEquipped(p, s) \/ Drop(p, s) \/ SplitDrop(p, s)
    \/ \E a, b \in Slot : SwapSlots(p, a, b) \/ SplitSwap(p, a, b)
    \/ UseEquipped(p)
    \/ DropEquipped(p)

SessionStep ==
  \E p \in Player :
    \/ ExitInGame(p)
    \/ \E c \in Char : EnterInGame(p, c)
    \/ Disconnect(p)

Next == panicked = "no" /\ (TradeStep \/ InventoryStep \/ SessionStep)

Spec == Init /\ [][Next]_vars
-----------------------------------------------------------------------------
(* Properties *)

\* Units of kind k that character c carries or wears.
Held(c, k) ==
  MapThenSumSet(LAMBDA s : IF pack[c][s].kind = k THEN pack[c][s].amount ELSE 0,
                Occupied(pack[c]))
  + (IF worn[c] # NoItem /\ worn[c].kind = k THEN worn[c].amount ELSE 0)

\* Units of kind k anywhere in the world.
Total(k) ==
  MapThenSumSet(LAMBDA c : Held(c, k), Char)
  + MapThenSumSet(LAMBDA i : ground[i] * i.amount, {i \in Stack : i.kind = k})
  + Cardinality({k} \cap blocks)

StartTotal(k) ==
  MapThenSumSet(LAMBDA c :
      MapThenSumSet(LAMBDA s : IF StartPack[c][s].kind = k
                                 THEN StartPack[c][s].amount ELSE 0,
                    Occupied(StartPack[c])), Char)
  + Cardinality({k} \cap StartBlocks)

\* Between two events no trade is complete and no trade has both accept flags:
\* process_trade_action turns two flags into the next phase at once and a
\* complete trade is committed and removed by the same handler.
AtRest ==
  \A id \in TradeId : Live(id) =>
    /\ trades[id].phase # "Complete"
    /\ \E i \in Side : ~trades[id].accept_flags[i]

\* The trade entity_trades names for an entity was begun, and while it exists
\* the entity is one of its parties: the inventory gate never looks at
\* somebody else's trade, however begins, declines and commits interleave.
MappingSound ==
  \A p \in Player : entity_trades[p] # NoTrade =>
    /\ entity_trades[p] < next_id
    /\ InTrade(p) => p \in Parties(trades[entity_trades[p]])

\* Trade ids are handed out in order.
LiveBelow == \A id \in TradeId : Live(id) => id < next_id

\* The arithmetic on slots in commit_trade never lets through a trade whose
\* items do not fit, in whatever order the offers are iterated (the panic at
\* server/src/events/trade.rs:230), and no merge of two stacks overflows.  The
\* one way into a panic is the swap of a stack with itself, which the server
\* does not refuse (common/src/comp/inventory/mod.rs:187).
OnlySelfMergePanics == panicked \in {"no", "selfmerge"}

\* No sequence of trades, manipulations, character changes and pickups makes a
\* second copy of an item.
NoDuplication == \A k \in Kind : Total(k) <= StartTotal(k)

\* A completed trade moves between the two parties exactly what the offers say
\* of what was in their slots, and touches nobody else.
FairExchange ==
  [][\A id \in TradeId :
       finished[id].result = "None" /\ finished'[id].result = "Completed" =>
         LET t == trades[id]
             g == [i \in Side |-> GoodsOf(t.offers[i], Inv(t.parties[i]))]
         IN  \A c \in Char, k \in Kind :
               Held(c, k)' = Held(c, k)
                 + (IF c = active[t.parties[1]] THEN g[2][k] - g[1][k] ELSE 0)
                 + (IF c = active[t.parties[2]] THEN g[1][k] - g[2][k] ELSE 0)
    ]_vars

\* id is the only trade of both its parties, entity_trades says so, and this
\* step lets neither of them leave or change character.
Undisturbed(id) ==
  \A p \in Parties(trades[id]) :
    /\ entity_trades[p] = id
    /\ \A other \in TradeId \ {id} : Live(other) => p \notin Parties(trades[other])
    /\ InGame(p) /\ active'[p] = active[p]

\* The goods on the table.
TermsOf(id) ==
  [i \in Side |-> GoodsOf(trades[id].offers[i], Inv(trades[id].parties[i]))]

\* What the parties of an undisturbed trade see in the Review phase is what they
\* get: neither offers nor the contents of the offered slots can change, which
\* is what the gate of handle_inventory is for (common/src/trade.rs:55-61).
SealedTermsKept ==
  [][\A id \in TradeId :
       /\ Live(id) /\ trades[id].phase = "Review"
       /\ trades'[id] # NoTrade /\ Undisturbed(id)
       => TermsOf(id)' = TermsOf(id)]_vars

\* An accept flag set in the Mutate phase speaks of the inventories and offers
\* as they are: whatever changes them clears both flags
\* (common/src/trade.rs:63-65 and 122).
AcceptanceIsFresh ==
  [][\A id \in TradeId :
       /\ Live(id) /\ trades[id].phase = "Mutate"
       /\ trades'[id] # NoTrade /\ Undisturbed(id)
       /\ \/ trades'[id].offers # trades[id].offers
          \/ \E p \in Parties(trades[id]) : Inv(p)' # Inv(p)
       => trades'[id].accept_flags = NoFlags]_vars
=============================================================================
