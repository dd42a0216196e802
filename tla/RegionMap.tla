------------------------------ MODULE RegionMap ------------------------------
(* The map of regions the server keeps its entities in (common::region): a  *)
(* grid of 512 by 512 blocks, of which the inhabited regions are kept in an *)
(* IndexMap, each with the indices of its eight neighbours.  A region map   *)
(* is a sequence of regions; the events of a region are two sets, since the *)
(* code never depends on their order.  All of it is pure: the operators     *)
(* take a map and return the next one.                                      *)
EXTENDS Integers, Sequences, SequencesExt

CONSTANT None   \* no key, no position, no component

REGION_SIZE   == 512
TETHER_LENGTH == 16

NEIGHBOR_OFFSETS == <<<<0, 1>>, <<-1, 1>>, <<-1, 0>>, <<-1, -1>>,
                      <<0, -1>>, <<1, -1>>, <<1, 0>>, <<1, 1>>>>
Opposite(o) == ((o + 3) % 8) + 1

Neighbor(key, o) ==
  <<key[1] + NEIGHBOR_OFFSETS[o][1], key[2] + NEIGHBOR_OFFSETS[o][2]>>

pos_key(p)   == <<p[1] \div REGION_SIZE, p[2] \div REGION_SIZE>>
key_pos(key) == <<key[1] * REGION_SIZE, key[2] * REGION_SIZE>>

Distance(x, y) == IF x < y THEN y - x ELSE x - y

-----------------------------------------------------------------------------
(* Regions and their indices.  0 is the index of no region. *)

NewRegion(key) == [key |-> key, bitset |-> {}, neighbors |-> [o \in 1..8 |-> 0],
                   entered |-> {}, left |-> {}]

removable(region) == region.bitset = {} /\ region.entered = {} /\ region.left = {}

key_index(map, key) ==
  LET found == {i \in DOMAIN map : map[i].key = key}
  IN  IF found = {} THEN 0 ELSE CHOOSE i \in found : TRUE

\* Every region that `links` names as the neighbour in some direction gets
\* `index` as its neighbour in the opposite one.
Relink(map, links, index) ==
  [i \in DOMAIN map |-> [map[i] EXCEPT !.neighbors =
     [o \in 1..8 |-> IF links[Opposite(o)] = i THEN index ELSE @[o]]]]

insert(map, key) ==
  LET near == [o \in 1..8 |-> key_index(map, Neighbor(key, o))]
  IN  Append(Relink(map, near, Len(map) + 1),
             [NewRegion(key) EXCEPT !.neighbors = near])

\* Mutant: the neighbours of the last region are not told of its new index.
remove_index_unmapped(map, index) ==
  LET last    == Len(map)
      swapped == [i \in 1..(last - 1) |-> IF i = index THEN map[last] ELSE map[i]]
  IN  Relink(swapped, map[index].neighbors, 0)

\* swap_remove: the last region takes the place of the removed one, after its
\* neighbours have been told of its new index.
remove_index(map, index) ==
  LET last     == Len(map)
      remapped == IF index = last THEN map
                  ELSE Relink(map, map[last].neighbors, index)
      swapped  == [i \in 1..(last - 1) |->
                     IF i = index THEN remapped[last] ELSE remapped[i]]
  IN  Relink(swapped, remapped[index].neighbors, 0)

add_entity(map, id, p, from) ==
  LET key   == pos_key(p)
      index == key_index(map, key)
  IN  IF index # 0
      THEN [map EXCEPT ![index].bitset = @ \cup {id},
                       ![index].entered = @ \cup {[id |-> id, key |-> from]}]
      ELSE [insert(map, key) EXCEPT
              ![Len(map) + 1].bitset = {id},
              ![Len(map) + 1].entered = {[id |-> id, key |-> None]}]

RemoveEntity(map, index, id, to) ==
  [map EXCEPT ![index].bitset = @ \ {id},
              ![index].left = @ \cup {[id |-> id, key |-> to]}]

\* An entity changes its region when it has left it and is further than the
\* tether from the region's lower corner.
Strayed(key, p) ==
  /\ pos_key(p) # key
  /\ \E axis \in 1..2 : Distance(p[axis], key_pos(key)[axis]) > TETHER_LENGTH

-----------------------------------------------------------------------------
(* One tick.  pos is the Pos storage, tracked the entities in the map.  The *)
(* loops are folds over sets: what a fold chooses first it handles last.    *)

Untracked(tracked, pos) ==
  {id \in DOMAIN pos : pos[id] # None /\ id \notin tracked}

\* Adds entities in ascending order.
AddAll(map, ids, pos) ==
  MapThenFoldSet(LAMBDA id, m : add_entity(m, id, pos[id], None), map,
                 LAMBDA id : id, Max, ids)

\* A slot is the index of a region and an entity in it.
Slots(map) == UNION {{<<i, id>> : id \in map[i].bitset} : i \in DOMAIN map}

StrayedSlots(map, pos) ==
  {v \in Slots(map) : pos[v[2]] # None /\ Strayed(map[v[1]].key, pos[v[2]])}

First(slots) ==
  LET i == Min({v[1] : v \in slots})
  IN  <<i, Min({v[2] : v \in {w \in slots : w[1] = i}})>>

Switch(map, v, p) ==
  add_entity(RemoveEntity(map, v[1], v[2], pos_key(p)), v[2], p, map[v[1]].key)

\* Switches entities to the regions of their positions, the last one found first.
SwitchAll(map, slots, pos) ==
  MapThenFoldSet(LAMBDA v, m : Switch(m, v, pos[v[2]]), map,
                 LAMBDA v : v, First, slots)

Lost(region, pos) == {id \in region.bitset : pos[id] = None}

\* Removes the entities that have no position.
DropAll(map, pos) ==
  [i \in DOMAIN map |->
     [map[i] EXCEPT !.bitset = @ \ Lost(map[i], pos),
                    !.left = @ \cup {[id |-> id, key |-> None] : id \in Lost(map[i], pos)}]]

Prune(map, key) ==
  LET index == key_index(map, key)
  IN  IF removable(map[index]) THEN remove_index(map, index) ELSE map

\* Removes the regions that were removable in `before` and still are, by their
\* keys, since each removal moves another region.
PruneAll(map, before) ==
  MapThenFoldSet(LAMBDA i, m : Prune(m, before[i].key), map, LAMBDA i : i, Max,
                 {i \in DOMAIN before : removable(before[i])})

ClearEvents(map) ==
  [i \in DOMAIN map |-> [map[i] EXCEPT !.entered = {}, !.left = {}]]

tick(map, tracked, pos) ==
  LET new      == Untracked(tracked, pos)
      added    == AddAll(ClearEvents(map), new, pos)
      switched == SwitchAll(added, StrayedSlots(added, pos), pos)
  IN  [regions |-> PruneAll(DropAll(switched, pos), added),
       tracked |-> (tracked \cup new) \ UNION {Lost(added[i], pos) : i \in DOMAIN added}]

find_region(map, id) ==
  IF \E i \in DOMAIN map : id \in map[i].bitset
  THEN map[CHOOSE i \in DOMAIN map : id \in map[i].bitset].key
  ELSE None

-----------------------------------------------------------------------------
(* Which regions are in reach of a position.  A length is a number of       *)
(* blocks and a number of diagonals of a block, each of them the square     *)
(* root of two blocks long; positions are whole blocks.                     *)

\* The square of a length is more than `squared`.  Twice the product of its two
\* parts is what the squares of the parts leave to exceed.
Within(squared, length) ==
  LET v == length.blocks
      n == length.diagonals
      excess == squared - v * v - 2 * n * n
  IN  excess < 0 \/ excess * excess < 8 * (v * v) * (n * n)

Extended(vd) == [vd EXCEPT !.diagonals = @ + TETHER_LENGTH]

\* The whole blocks of a length, for less than a hundred diagonals.
Whole(length) == length.blocks + (length.diagonals * 14142) \div 10000

\* How far the position is from the region along an axis.
Gap(key, p, axis) ==
  LET e == key_pos(key)[axis] - p[axis]
  IN  IF e >= 0 THEN e
      ELSE IF e + REGION_SIZE < 0 THEN -(e + REGION_SIZE) ELSE 0

region_in_vd(key, p, vd) ==
  Within(Gap(key, p, 1) * Gap(key, p, 1) + Gap(key, p, 2) * Gap(key, p, 2), Extended(vd))

\* x less a length that is no whole number, as i32: rounded towards zero.
Below(x, length) ==
  IF x > Whole(length) THEN x - Whole(length) - 1 ELSE x - Whole(length)

regions_in_vd(p, vd) ==
  LET reach == Extended(vd)
      lo == pos_key(<<Below(p[1], reach), Below(p[2], reach)>>)
      hi == pos_key(<<p[1] + Whole(reach), p[2] + Whole(reach)>>)
  IN  {key \in (lo[1]..hi[1]) \X (lo[2]..hi[2]) : region_in_vd(key, p, vd)}
=============================================================================
