------------------------------ MODULE Inventory ------------------------------
(***************************************************************************)
(* The built-in slots of an entity's inventory and the operations the      *)
(* server performs on them (common/src/comp/inventory/mod.rs).             *)
(*                                                                         *)
(* An item is known by its kind (Item's PartialEq compares only the item's *)
(* definition) and its amount.  Slots granted by equipped bags are left    *)
(* out, so the capacity is constant.  An operation that would return the   *)
(* item to its caller because it does not fit yields Full.                 *)
(***************************************************************************)
EXTENDS Integers, FiniteSets, FiniteSetsExt, SequencesExt

CONSTANTS
  Kind,        \* item definitions
  Stackable,   \* the kinds for which is_stackable() holds
  NSlots,      \* number of built-in slots (DEFAULT_INVENTORY_SLOTS)
  MaxAmount,   \* largest amount an item can hold (u32::MAX)
  NoItem,      \* an empty slot (None)
  Full         \* the result of an insertion that found no room

ASSUME StackableAssumption == Stackable \subseteq Kind
ASSUME NSlotsAssumption    == NSlots \in Nat \ {0}
ASSUME MaxAmountAssumption == MaxAmount \in Nat \ {0}

Slot == 1..NSlots

\* An item: a NonZeroU32 amount, which is 1 unless the kind is stackable.
Stack == {i \in [kind : Kind, amount : 1..MaxAmount] :
            i.kind \in Stackable \/ i.amount = 1}

Inventories == [Slot -> Stack \cup {NoItem}]

ASSUME NoItemAssumption == NoItem \notin Stack
ASSUME FullAssumption   == Full \notin Inventories

-----------------------------------------------------------------------------
Occupied(inv) == {s \in Slot : inv[s] # NoItem}

\* get(slot).map(amount).unwrap_or(0)
Owned(inv, s) == IF inv[s] = NoItem THEN 0 ELSE inv[s].amount

SameItem(i, j) == i # NoItem /\ j # NoItem /\ i.kind = j.kind

\* increase_amount: a checked addition, so the stack may refuse.
CanGrow(i, n) == i.amount + n <= MaxAmount
Grow(i, n)    == [i EXCEPT !.amount = @ + n]

\* push: join the first stack of the same kind, else the first empty slot.
Push(inv, i) ==
  LET same  == {s \in Slot : i.kind \in Stackable /\ SameItem(inv[s], i)}
      empty == Slot \ Occupied(inv)
  IN  IF same # {}
        THEN LET s == Min(same)
             IN  IF CanGrow(inv[s], i.amount)
                   THEN [inv EXCEPT ![s] = Grow(@, i.amount)]
                   ELSE Full
        ELSE IF empty # {} THEN [inv EXCEPT ![Min(empty)] = i] ELSE Full

\* push_all, given the items in the order the caller drains them: Full as
\* soon as one of them is left over.
PushAll(inv, items) ==
  FoldLeft(LAMBDA v, i : IF v = Full THEN Full ELSE Push(v, i), inv, items)

\* remove(slot)
RemoveSlot(inv, s) == [inv EXCEPT ![s] = NoItem]

\* n calls of take(slot): each removes one unit, the last one the item.
TakeUnits(inv, s, n) ==
  IF n < Owned(inv, s) THEN [inv EXCEPT ![s].amount = @ - n] ELSE RemoveSlot(inv, s)

\* The amount take_half takes: half of a stack, all of a single item.
HalfOf(i) == IF i.amount > 1 THEN i.amount \div 2 ELSE 1

\* What merge_stack_into asks of the two slots; they may be one and the same.
CanMerge(inv, src, dst) ==
  /\ SameItem(inv[src], inv[dst])
  /\ inv[src].kind \in Stackable

\* Mutant: the source stack stays.
MergeKeepSource(inv, src, dst) ==
  [inv EXCEPT ![dst] = Grow(@, inv[src].amount)]

\* What it makes of two different ones.
Merge(inv, src, dst) ==
  [inv EXCEPT ![dst] = Grow(@, inv[src].amount), ![src] = NoItem]

\* swap_slots
Swap(inv, a, b) == [inv EXCEPT ![a] = inv[b], ![b] = inv[a]]

\* insert_or_stack_at: whatever it returns (the item that was there, or the
\* item itself when the stack cannot grow) is dropped by its callers.
InsertOrStackAt(inv, s, i) ==
  IF i.kind \in Stackable /\ SameItem(inv[s], i)
    THEN IF CanGrow(inv[s], i.amount)
           THEN [inv EXCEPT ![s] = Grow(@, i.amount)] ELSE inv
    ELSE [inv EXCEPT ![s] = i]
=============================================================================
