---------------------------- MODULE RegionsProofs -----------------------------
(***************************************************************************)
(* Proofs about Regions, for any number of entities, clients and places.   *)
(*                                                                         *)
(* The loops of a tick are folds; each is shown to keep the map sound by   *)
(* what its single step keeps: an insertion links the new region, a        *)
(* removal passes the last region's index to its neighbours, an addition,  *)
(* a switch and a removal of an entity keep the regions apart.  The same   *)
(* induction over a fold says what the map tells of an entity when the     *)
(* tick is over: which region it is in, and in the events of which regions *)
(* its way there can be read (Traced).                                     *)
(*                                                                         *)
(* From that follow the two halves of what clients know at the end of a    *)
(* tick: nothing they will not hear of again (NoGhosts, by GhostInv), and  *)
(* everything in sight (InView, by ViewInv).                               *)
(***************************************************************************)
EXTENDS Regions, FoldLemmas, SequenceTheorems

-----------------------------------------------------------------------------
(* Types of a region map *)

\* The keys of all regions there could be.
Key == Int \X Int

Happening == [id : Entity, key : Key \cup {None}]

Region == [key : Key, bitset : SUBSET Entity, neighbors : [1..8 -> Nat],
           entered : SUBSET Happening, left : SUBSET Happening]

Maps == Seq(Region)

-----------------------------------------------------------------------------
(* Keys and directions *)

LEMMA NeighborType ==
  ASSUME NEW key \in Key, NEW o \in 1..8
  PROVE  /\ Neighbor(key, o) \in Key
         /\ Neighbor(key, o) # key
         /\ Opposite(o) \in 1..8
         /\ Opposite(Opposite(o)) = o
         /\ Neighbor(Neighbor(key, o), Opposite(o)) = key
<1> DEFINE dx(p) == NEIGHBOR_OFFSETS[p][1]
           dy(p) == NEIGHBOR_OFFSETS[p][2]
<1>1. o \in {1, 2, 3, 4, 5, 6, 7, 8}
  OBVIOUS
<1>2. /\ Opposite(1) = 5 /\ Opposite(2) = 6 /\ Opposite(3) = 7 /\ Opposite(4) = 8
      /\ Opposite(5) = 1 /\ Opposite(6) = 2 /\ Opposite(7) = 3 /\ Opposite(8) = 4
  BY DEF Opposite
<1>3. /\ dx(1) = 0 /\ dx(2) = -1 /\ dx(3) = -1 /\ dx(4) = -1
      /\ dx(5) = 0 /\ dx(6) = 1 /\ dx(7) = 1 /\ dx(8) = 1
      /\ dy(1) = 1 /\ dy(2) = 1 /\ dy(3) = 0 /\ dy(4) = -1
      /\ dy(5) = -1 /\ dy(6) = -1 /\ dy(7) = 0 /\ dy(8) = 1
  BY DEF NEIGHBOR_OFFSETS
<1>4. PICK x \in Int, y \in Int : key = <<x, y>>
  BY DEF Key
<1>5. \A a \in Int, b \in Int, p \in 1..8 : Neighbor(<<a, b>>, p) = <<a + dx(p), b + dy(p)>>
  BY DEF Neighbor
<1> HIDE DEF dx, dy
<1>6. /\ Opposite(o) \in 1..8 /\ Opposite(Opposite(o)) = o
      /\ dx(o) \in Int /\ dy(o) \in Int /\ (dx(o) # 0 \/ dy(o) # 0)
      /\ dx(Opposite(o)) = -dx(o) /\ dy(Opposite(o)) = -dy(o)
  BY <1>1, <1>2, <1>3
<1>7. Neighbor(key, o) = <<x + dx(o), y + dy(o)>>
  BY <1>4, <1>5
<1>8. Neighbor(<<x + dx(o), y + dy(o)>>, Opposite(o)) = <<x, y>>
  <2>1. x + dx(o) \in Int /\ y + dy(o) \in Int
    BY <1>6
  <2>2. Neighbor(<<x + dx(o), y + dy(o)>>, Opposite(o))
          = <<(x + dx(o)) + dx(Opposite(o)), (y + dy(o)) + dy(Opposite(o))>>
    BY ZenonT(60), <1>5, <1>6, <2>1
  <2>3. (x + dx(o)) + dx(Opposite(o)) = x /\ (y + dy(o)) + dy(Opposite(o)) = y
    BY <1>6
  <2> QED BY <2>2, <2>3
<1>9. <<x + dx(o), y + dy(o)>> \in Key /\ <<x + dx(o), y + dy(o)>> # <<x, y>>
  BY <1>6 DEF Key
<1> QED BY <1>4, <1>6, <1>7, <1>8, <1>9

\* One region is the neighbour of another if that is its own on the other side.
LEMMA NeighborSymmetric ==
  ASSUME NEW key \in Key, NEW other \in Key, NEW o \in 1..8
  PROVE  Neighbor(key, o) = other <=> key = Neighbor(other, Opposite(o))
<1>1. ASSUME Neighbor(key, o) = other PROVE key = Neighbor(other, Opposite(o))
  BY <1>1, NeighborType
<1>2. ASSUME key = Neighbor(other, Opposite(o)) PROVE Neighbor(key, o) = other
  <2>1. Opposite(o) \in 1..8 /\ Opposite(Opposite(o)) = o
    BY NeighborType
  <2>2. Neighbor(Neighbor(other, Opposite(o)), Opposite(Opposite(o))) = other
    BY <2>1, NeighborType
  <2> QED BY <1>2, <2>1, <2>2
<1> QED BY <1>1, <1>2

LEMMA PosKeyType ==
  ASSUME NEW p \in Nat \X Nat
  PROVE  pos_key(p) \in Key
BY DEF pos_key, Key, REGION_SIZE

-----------------------------------------------------------------------------
(* Indices *)

LEMMA RegionType ==
  ASSUME NEW m \in Maps, NEW i \in DOMAIN m
  PROVE  /\ DOMAIN m = 1..Len(m) /\ Len(m) \in Nat /\ i \in Nat \ {0}
         /\ m[i] \in Region
BY DEF Maps

LEMMA KeyIndexIs ==
  ASSUME NEW m \in Maps, NEW key
  PROVE  /\ key_index(m, key) \in Nat
         /\ key_index(m, key) # 0 =>
              key_index(m, key) \in DOMAIN m /\ m[key_index(m, key)].key = key
         /\ key_index(m, key) = 0 => \A i \in DOMAIN m : m[i].key # key
<1> DEFINE found == {i \in DOMAIN m : m[i].key = key}
<1>1. CASE found = {}
  BY <1>1 DEF key_index
<1>2. CASE found # {}
  <2>1. key_index(m, key) = CHOOSE i \in found : TRUE
    BY <1>2 DEF key_index
  <2>2. key_index(m, key) \in found
    BY <1>2, <2>1
  <2> QED BY <2>2, RegionType
<1> QED BY <1>1, <1>2

LEMMA KeyIndexUnique ==
  ASSUME NEW m \in Maps, Distinct(m), NEW i \in DOMAIN m
  PROVE  key_index(m, m[i].key) = i
BY KeyIndexIs DEF Distinct

\* The index of a key that is found at most once.
LEMMA KeyIndexAt ==
  ASSUME NEW m \in Maps, Distinct(m), NEW key, NEW i \in DOMAIN m
  PROVE  key_index(m, key) = i <=> m[i].key = key
BY KeyIndexIs, KeyIndexUnique, RegionType

-----------------------------------------------------------------------------
(* Insertion of a region *)

\* r is m with each region that links names told of the index.
Relinked(r, m, links, index) ==
  /\ r \in Maps /\ Len(r) = Len(m) /\ DOMAIN r = DOMAIN m
  /\ \A i \in DOMAIN m :
       /\ r[i].key = m[i].key /\ r[i].bitset = m[i].bitset
       /\ \A o \in 1..8 : r[i].neighbors[o] =
            IF links[Opposite(o)] = i THEN index ELSE m[i].neighbors[o]

LEMMA RelinkIs ==
  ASSUME NEW m \in Maps, NEW links \in [1..8 -> Nat], NEW index \in Nat
  PROVE  Relinked(Relink(m, links, index), m, links, index)
<1> DEFINE r == Relink(m, links, index)
           Links(i) == [o \in 1..8 |-> IF links[Opposite(o)] = i THEN index
                                       ELSE m[i].neighbors[o]]
<1>1. r = [i \in DOMAIN m |-> [m[i] EXCEPT !.neighbors = Links(i)]]
  BY DEF Relink
<1>2. ASSUME NEW i \in DOMAIN m
      PROVE  /\ Links(i) \in [1..8 -> Nat]
             /\ r[i] = [m[i] EXCEPT !.neighbors = Links(i)]
             /\ r[i] \in Region
             /\ r[i].key = m[i].key /\ r[i].bitset = m[i].bitset
             /\ r[i].neighbors = Links(i)
             /\ \A o \in 1..8 : r[i].neighbors[o] =
                  IF links[Opposite(o)] = i THEN index ELSE m[i].neighbors[o]
  <2>1. m[i] \in Region
    BY RegionType
  <2>2. Links(i) \in [1..8 -> Nat]
    BY <2>1 DEF Region
  <2>3. r[i] = [m[i] EXCEPT !.neighbors = Links(i)]
    BY <1>1
  <2>4. \A o \in 1..8 : Links(i)[o] =
          IF links[Opposite(o)] = i THEN index ELSE m[i].neighbors[o]
    OBVIOUS
  <2> HIDE DEF Links, r
  <2>5. r[i] \in Region /\ r[i].key = m[i].key /\ r[i].bitset = m[i].bitset
        /\ r[i].neighbors = Links(i)
    BY <2>1, <2>2, <2>3 DEF Region
  <2> QED BY <2>2, <2>3, <2>4, <2>5
<1>3. r \in Maps /\ Len(r) = Len(m) /\ DOMAIN r = DOMAIN m
  <2>1. DOMAIN m = 1..Len(m) /\ Len(m) \in Nat
    BY DEF Maps
  <2>2. DOMAIN r = 1..Len(m) /\ r = [i \in 1..Len(m) |-> r[i]]
    BY <1>1, <2>1
  <2> HIDE DEF r
  <2>3. r \in [1..Len(m) -> Region]
    BY <1>2, <2>1, <2>2
  <2>4. r \in Seq(Region)
    BY <2>1, <2>3, SeqDef
  <2>5. Len(r) \in Nat /\ DOMAIN r = 1..Len(r)
    BY <2>4, LenProperties
  <2>6. Len(r) = Len(m)
    BY <2>1, <2>2, <2>5
  <2> QED BY <2>1, <2>2, <2>4, <2>6 DEF Maps
<1> HIDE DEF r
<1>4. Relinked(r, m, links, index)
  BY <1>2, <1>3 DEF Relinked
<1> QED BY <1>4 DEF r

\* What insert returns.
LEMMA InsertIs ==
  ASSUME NEW m \in Maps, NEW key \in Key
  PROVE  LET r == insert(m, key)
             n == Len(m) + 1
         IN  /\ r \in Maps /\ Len(r) = n /\ DOMAIN r = 1..n
             /\ r[n].key = key /\ r[n].bitset = {}
             /\ \A o \in 1..8 : r[n].neighbors[o] = key_index(m, Neighbor(key, o))
             /\ \A i \in DOMAIN m :
                  /\ r[i].key = m[i].key /\ r[i].bitset = m[i].bitset
                  /\ \A o \in 1..8 : r[i].neighbors[o] =
                       IF key_index(m, Neighbor(key, Opposite(o))) = i
                       THEN n ELSE m[i].neighbors[o]
<1> DEFINE near  == [o \in 1..8 |-> key_index(m, Neighbor(key, o))]
           n     == Len(m) + 1
           told  == Relink(m, near, n)
           fresh == [NewRegion(key) EXCEPT !.neighbors = near]
           r     == insert(m, key)
<1>1. near \in [1..8 -> Nat] /\ n \in Nat /\ DOMAIN m = 1..Len(m) /\ Len(m) \in Nat
  BY KeyIndexIs DEF Maps
<1>2. r = Append(told, fresh)
  BY DEF insert
<1>3. /\ fresh \in Region
      /\ fresh.key = key /\ fresh.bitset = {} /\ fresh.neighbors = near
  <2>1. fresh = [key |-> key, bitset |-> {}, neighbors |-> near, entered |-> {}, left |-> {}]
    BY DEF NewRegion
  <2> HIDE DEF fresh, near
  <2> QED BY <1>1, <2>1 DEF Region
<1>4. \A o \in 1..8 : Opposite(o) \in 1..8
  BY NeighborType
<1>5. /\ told \in Maps /\ Len(told) = Len(m) /\ DOMAIN told = DOMAIN m
      /\ \A i \in DOMAIN m :
           /\ told[i].key = m[i].key /\ told[i].bitset = m[i].bitset
           /\ \A o \in 1..8 : told[i].neighbors[o] =
                IF near[Opposite(o)] = i THEN n ELSE m[i].neighbors[o]
  <2> HIDE DEF near, n
  <2>1. Relinked(told, m, near, n)
    BY <1>1, RelinkIs
  <2> QED BY <2>1 DEF Relinked
<1>6. \A o \in 1..8 : /\ near[o] = key_index(m, Neighbor(key, o))
                      /\ near[Opposite(o)] = key_index(m, Neighbor(key, Opposite(o)))
  BY <1>4
<1> HIDE DEF near, told, fresh, r
<1>7. /\ r \in Maps /\ Len(r) = n /\ DOMAIN r = 1..n
      /\ r[n] = fresh /\ \A i \in DOMAIN m : r[i] = told[i]
  <2>1. told \in Seq(Region)
    BY <1>5 DEF Maps
  <2>2. /\ Append(told, fresh) \in Seq(Region)
        /\ Len(Append(told, fresh)) = Len(told) + 1
        /\ \A i \in 1..Len(told) : Append(told, fresh)[i] = told[i]
        /\ Append(told, fresh)[Len(told) + 1] = fresh
    BY <1>3, <2>1, AppendProperties
  <2>3. r \in Seq(Region) /\ Len(r) = n
    BY <1>2, <1>5, <2>2
  <2>4. DOMAIN r = 1..n
    BY <2>3, LenProperties
  <2> QED BY <1>1, <1>2, <1>5, <2>2, <2>3, <2>4 DEF Maps
<1>8. /\ r[n].key = key /\ r[n].bitset = {}
      /\ \A o \in 1..8 : r[n].neighbors[o] = key_index(m, Neighbor(key, o))
  BY <1>3, <1>6, <1>7
<1>9. ASSUME NEW i \in DOMAIN m
      PROVE  /\ r[i].key = m[i].key /\ r[i].bitset = m[i].bitset
             /\ \A o \in 1..8 : r[i].neighbors[o] =
                  IF key_index(m, Neighbor(key, Opposite(o))) = i
                  THEN n ELSE m[i].neighbors[o]
  BY <1>5, <1>6, <1>7
<1> HIDE DEF n
<1> QED BY <1>7, <1>8, <1>9 DEF r, n

\* A new region takes its place among the others.
LEMMA InsertKeeps ==
  ASSUME NEW m \in Maps, Distinct(m), Linked(m), NEW key \in Key, key_index(m, key) = 0
  PROVE  Distinct(insert(m, key)) /\ Linked(insert(m, key))
<1> DEFINE r == insert(m, key)
           n == Len(m) + 1
<1>1. DOMAIN m = 1..Len(m) /\ Len(m) \in Nat
  BY DEF Maps
<1>2. /\ r \in Maps /\ Len(r) = n /\ DOMAIN r = 1..n
      /\ r[n].key = key
      /\ \A o \in 1..8 : r[n].neighbors[o] = key_index(m, Neighbor(key, o))
      /\ \A i \in DOMAIN m :
           /\ r[i].key = m[i].key
           /\ \A o \in 1..8 : r[i].neighbors[o] =
                IF key_index(m, Neighbor(key, Opposite(o))) = i
                THEN n ELSE m[i].neighbors[o]
  BY InsertIs
<1>3. \A i \in DOMAIN m : m[i].key # key /\ m[i].key \in Key
  BY KeyIndexIs, RegionType DEF Region
<1> HIDE DEF r
<1>4. Distinct(r)
  BY SMTT(60), <1>1, <1>2, <1>3 DEF Distinct
<1>5. \A k : k # key => key_index(r, k) = key_index(m, k)
  <2>0. SUFFICES ASSUME NEW k, k # key PROVE key_index(r, k) = key_index(m, k)
    OBVIOUS
  <2>1. CASE key_index(m, k) = 0
    <3>1. \A i \in DOMAIN m : m[i].key # k
      BY <2>1, KeyIndexIs
    <3>2. \A i \in DOMAIN r : r[i].key # k
      <4> SUFFICES ASSUME NEW i \in DOMAIN r PROVE r[i].key # k
        OBVIOUS
      <4>1. i = n \/ i \in DOMAIN m
        BY <1>1, <1>2
      <4>2. CASE i = n
        <5>1. r[i].key = key
          BY <1>2, <4>2
        <5> QED BY <2>0, <5>1
      <4>3. CASE i \in DOMAIN m
        <5>1. r[i].key = m[i].key
          BY <1>2, <4>3
        <5> QED BY <3>1, <4>3, <5>1
      <4> QED BY <4>1, <4>2, <4>3
    <3>3. r \in Maps
      BY <1>2
    <3>4. ~ (key_index(r, k) \in DOMAIN r /\ r[key_index(r, k)].key = k)
      BY ONLY <3>2
    <3>5. key_index(r, k) = 0
      BY ONLY <3>3, <3>4, KeyIndexIs
    <3> QED BY ONLY <2>1, <3>5
  <2>2. CASE key_index(m, k) # 0
    <3>1. key_index(m, k) \in DOMAIN m /\ m[key_index(m, k)].key = k
      BY <2>2, KeyIndexIs
    <3>2. key_index(m, k) \in DOMAIN r /\ r[key_index(m, k)].key = k
      BY <1>1, <1>2, <3>1
    <3>3. r \in Maps
      BY <1>2
    <3>4. key_index(r, k) = key_index(m, k)
      BY ONLY <1>4, <3>2, <3>3, KeyIndexAt
    <3> QED BY <3>4
  <2> QED BY <2>1, <2>2
<1>6. key_index(r, key) = n
  BY SMTT(60), <1>1, <1>2, <1>4, KeyIndexUnique
<1>7. ASSUME NEW o \in 1..8 PROVE r[n].neighbors[o] = key_index(r, Neighbor(r[n].key, o))
  BY <1>2, <1>5, NeighborType
<1>8. ASSUME NEW i \in DOMAIN m, NEW o \in 1..8
      PROVE  r[i].neighbors[o] = key_index(r, Neighbor(r[i].key, o))
  <2>1. /\ m[i].neighbors[o] = key_index(m, Neighbor(m[i].key, o))
        /\ r[i].key = m[i].key
        /\ r[i].neighbors[o] = IF key_index(m, Neighbor(key, Opposite(o))) = i
                               THEN n ELSE m[i].neighbors[o]
    BY <1>2 DEF Linked
  <2>2. key_index(m, Neighbor(key, Opposite(o))) = i
          <=> m[i].key = Neighbor(key, Opposite(o))
    BY KeyIndexAt
  <2>3. Neighbor(m[i].key, o) = key <=> m[i].key = Neighbor(key, Opposite(o))
    BY <1>3, NeighborSymmetric
  <2> QED BY <1>5, <1>6, <2>1, <2>2, <2>3
<1>9. Linked(r)
  <2> SUFFICES ASSUME NEW i \in DOMAIN r, NEW o \in 1..8
               PROVE  r[i].neighbors[o] = key_index(r, Neighbor(r[i].key, o))
    BY DEF Linked
  <2>1. CASE i = n
    BY <1>7, <2>1
  <2>2. CASE i # n
    <3>1. i \in DOMAIN m
      BY SMTT(60), <1>1, <1>2, <2>2
    <3> QED BY <1>8, <3>1
  <2> QED BY <2>1, <2>2
<1> QED BY <1>4, <1>9 DEF r

-----------------------------------------------------------------------------
(* Removal of a region *)

\* The index in the map before of what has index i after.
Origin(m, index, i) == IF i = index THEN Len(m) ELSE i

\* The neighbours of the last region know its index to come.
LEMMA RemappedIs ==
  ASSUME NEW m \in Maps, Distinct(m), Linked(m), NEW index \in DOMAIN m
  PROVE  LET r == IF index = Len(m) THEN m ELSE Relink(m, m[Len(m)].neighbors, index)
         IN  /\ r \in Maps /\ Len(r) = Len(m) /\ DOMAIN r = DOMAIN m
             /\ \A i \in DOMAIN m :
                  /\ r[i].key = m[i].key /\ r[i].bitset = m[i].bitset
                  /\ \A o \in 1..8 : r[i].neighbors[o] =
                       IF Neighbor(m[i].key, o) = m[Len(m)].key THEN index
                       ELSE key_index(m, Neighbor(m[i].key, o))
<1> DEFINE last == Len(m)
           links == m[last].neighbors
           r == IF index = last THEN m ELSE Relink(m, links, index)
<1>1. /\ DOMAIN m = 1..Len(m) /\ Len(m) \in Nat /\ last \in DOMAIN m
      /\ index \in Nat /\ index \in 1..last
      /\ links \in [1..8 -> Nat]
      /\ \A i \in DOMAIN m : m[i].key \in Key
  <2>1. DOMAIN m = 1..Len(m) /\ Len(m) \in Nat /\ index \in 1..Len(m)
    BY RegionType
  <2>2. last \in DOMAIN m /\ index \in Nat
    BY <2>1
  <2>3. \A i \in DOMAIN m : m[i] \in Region
    BY RegionType
  <2> QED BY <2>1, <2>2, <2>3 DEF Region
<1>2. CASE index = last
  <2>1. r = m
    BY <1>2
  <2>2. ASSUME NEW i \in DOMAIN m, NEW o \in 1..8, Neighbor(m[i].key, o) = m[last].key
        PROVE  key_index(m, Neighbor(m[i].key, o)) = last
    BY <1>1, <2>2, KeyIndexUnique
  <2> HIDE DEF last, r
  <2> QED BY ZenonT(60), <1>1, <1>2, <2>1, <2>2 DEF Linked, last, r
<1>3. CASE index # last
  <2>1. r = Relink(m, links, index)
    BY <1>3
  <2> HIDE DEF links
  <2>2. /\ r \in Maps /\ Len(r) = Len(m) /\ DOMAIN r = DOMAIN m
        /\ \A i \in DOMAIN m :
             /\ r[i].key = m[i].key /\ r[i].bitset = m[i].bitset
             /\ \A o \in 1..8 : r[i].neighbors[o] =
                  IF links[Opposite(o)] = i THEN index ELSE m[i].neighbors[o]
    <3> HIDE DEF r
    <3>1. Relinked(r, m, links, index)
      BY <1>1, <2>1, RelinkIs
    <3> QED BY <3>1 DEF Relinked
  <2>3. ASSUME NEW i \in DOMAIN m, NEW o \in 1..8
        PROVE  links[Opposite(o)] = i <=> Neighbor(m[i].key, o) = m[last].key
    <3>1. Opposite(o) \in 1..8 /\ m[i].key \in Key /\ m[last].key \in Key
      BY <1>1, NeighborType
    <3>2. links[Opposite(o)] = key_index(m, Neighbor(m[last].key, Opposite(o)))
      BY <1>1, <3>1 DEF Linked, links
    <3>3. links[Opposite(o)] = i <=> m[i].key = Neighbor(m[last].key, Opposite(o))
      BY <3>2, KeyIndexAt
    <3> QED BY <3>1, <3>3, NeighborSymmetric
  <2>4. ASSUME NEW i \in DOMAIN m, NEW o \in 1..8
        PROVE  r[i].neighbors[o] = IF Neighbor(m[i].key, o) = m[last].key THEN index
                                   ELSE key_index(m, Neighbor(m[i].key, o))
    <3>1. m[i].neighbors[o] = key_index(m, Neighbor(m[i].key, o))
      BY DEF Linked
    <3> HIDE DEF last, r
    <3> QED BY <2>2, <2>3, <3>1
  <2> HIDE DEF r
  <2> QED BY <2>2, <2>4 DEF r, links
<1> QED BY <1>2, <1>3

\* What remove_index returns.
LEMMA RemoveIs ==
  ASSUME NEW m \in Maps, Distinct(m), Linked(m), NEW index \in DOMAIN m
  PROVE  LET r == remove_index(m, index)
             gone == m[index].key
             From(i) == m[Origin(m, index, i)]
         IN  /\ r \in Maps /\ Len(r) = Len(m) - 1 /\ DOMAIN r = 1..(Len(m) - 1)
             /\ \A i \in 1..(Len(m) - 1) :
                  /\ r[i].key = From(i).key /\ r[i].bitset = From(i).bitset
                  /\ \A o \in 1..8 : r[i].neighbors[o] =
                       IF Neighbor(From(i).key, o) = gone THEN 0
                       ELSE IF Neighbor(From(i).key, o) = m[Len(m)].key THEN index
                       ELSE key_index(m, Neighbor(From(i).key, o))
<1> DEFINE last == Len(m)
           remapped == IF index = last THEN m ELSE Relink(m, m[last].neighbors, index)
           Place_(i) == IF i = index THEN remapped[last] ELSE remapped[i]
           swapped == [i \in 1..(last - 1) |-> Place_(i)]
           links == remapped[index].neighbors
           r == remove_index(m, index)
<1>1. /\ DOMAIN m = 1..last /\ last \in Nat /\ last \in DOMAIN m
      /\ index \in Nat /\ index \in 1..last
      /\ \A i \in DOMAIN m : m[i].key \in Key
  BY SMTT(60), RegionType DEF Region
<1>2. /\ remapped \in Maps /\ Len(remapped) = last /\ DOMAIN remapped = DOMAIN m
      /\ \A i \in DOMAIN m :
           /\ remapped[i].key = m[i].key /\ remapped[i].bitset = m[i].bitset
           /\ \A o \in 1..8 : remapped[i].neighbors[o] =
                IF Neighbor(m[i].key, o) = m[last].key THEN index
                ELSE key_index(m, Neighbor(m[i].key, o))
  BY RemappedIs
<1>3. r = Relink(swapped, links, 0)
  BY DEF remove_index
<1> HIDE DEF remapped, r
<1>4. links \in [1..8 -> Nat]
  BY <1>2, RegionType DEF Region
<1>5. ASSUME NEW i \in 1..(last - 1)
      PROVE  /\ Origin(m, index, i) \in DOMAIN m
             /\ Place_(i) = remapped[Origin(m, index, i)]
             /\ swapped[i] = Place_(i) /\ Place_(i) \in Region
  <2>1. Origin(m, index, i) \in DOMAIN m /\ Place_(i) = remapped[Origin(m, index, i)]
    BY <1>1 DEF Origin
  <2> QED BY <1>2, <2>1, RegionType
<1>6. swapped \in Maps /\ Len(swapped) = last - 1 /\ DOMAIN swapped = 1..(last - 1)
  <2>1. last - 1 \in Nat
    BY <1>1
  <2>2. swapped \in [1..(last - 1) -> Region]
    BY <1>5
  <2> HIDE DEF swapped, last
  <2>3. swapped \in Seq(Region)
    BY <2>1, <2>2, SeqDef
  <2>4. Len(swapped) \in Nat /\ DOMAIN swapped = 1..Len(swapped)
    BY <2>3, LenProperties
  <2>5. DOMAIN swapped = 1..(last - 1)
    BY <2>2
  <2>6. Len(swapped) = last - 1
    BY <2>1, <2>4, <2>5
  <2> QED BY <2>3, <2>5, <2>6 DEF Maps
<1> HIDE DEF swapped, links, Place_
<1>7. /\ r \in Maps /\ Len(r) = last - 1 /\ DOMAIN r = 1..(last - 1)
      /\ \A i \in 1..(last - 1) :
           /\ r[i].key = swapped[i].key /\ r[i].bitset = swapped[i].bitset
           /\ \A o \in 1..8 : r[i].neighbors[o] =
                IF links[Opposite(o)] = i THEN 0 ELSE swapped[i].neighbors[o]
  <2> DEFINE zero == 0
  <2>1. zero \in Nat
    OBVIOUS
  <2> HIDE DEF zero, last
  <2>2. Relinked(Relink(swapped, links, zero), swapped, links, zero)
    BY <1>4, <1>6, <2>1, RelinkIs
  <2>3. Relinked(r, swapped, links, 0)
    BY <1>3, <2>2 DEF zero
  <2> QED BY <1>6, <2>3 DEF Relinked
<1>8. ASSUME NEW i \in 1..(last - 1)
      PROVE  LET k == m[Origin(m, index, i)].key
             IN  /\ r[i].key = k /\ r[i].bitset = m[Origin(m, index, i)].bitset
                 /\ \A o \in 1..8 : r[i].neighbors[o] =
                      IF Neighbor(k, o) = m[index].key THEN 0
                      ELSE IF Neighbor(k, o) = m[last].key THEN index
                      ELSE key_index(m, Neighbor(k, o))
  <2> DEFINE j == Origin(m, index, i)
             k == m[j].key
  <2>1. j \in DOMAIN m /\ swapped[i] = remapped[j]
    BY <1>5
  <2>2. /\ swapped[i].key = k /\ swapped[i].bitset = m[j].bitset
        /\ \A o \in 1..8 : swapped[i].neighbors[o] =
             IF Neighbor(k, o) = m[last].key THEN index ELSE key_index(m, Neighbor(k, o))
    BY <1>2, <2>1
  <2>3. ASSUME NEW o \in 1..8
        PROVE  links[Opposite(o)] = i <=> Neighbor(k, o) = m[index].key
    <3> DEFINE n == Neighbor(m[index].key, Opposite(o))
    <3>1. Opposite(o) \in 1..8 /\ k \in Key /\ m[index].key \in Key /\ m[last].key \in Key
      BY <1>1, <2>1, NeighborType
    <3>2. links[Opposite(o)] = IF n = m[last].key THEN index ELSE key_index(m, n)
      BY <1>1, <1>2, <3>1 DEF links
    <3>3. n # m[index].key
      BY <3>1, NeighborType
    <3>4. Neighbor(k, o) = m[index].key <=> k = n
      BY SMTT(60), <3>1, NeighborSymmetric
    <3>5. i \in Nat /\ i # last /\ i \in DOMAIN m
      <4> HIDE DEF last
      <4> QED BY <1>1
    <3>6. \A a \in DOMAIN m : key_index(m, n) = a <=> m[a].key = n
      BY KeyIndexAt
    <3> HIDE DEF n
    <3>7. CASE n = m[last].key
      <4>1. links[Opposite(o)] = i <=> i = index
        BY <3>2, <3>7
      <4>2. i = index <=> k = n
        <5>1. i = index => k = n
          BY <3>7 DEF Origin
        <5>2. k = n => j = last
          BY <1>1, <2>1, <3>7 DEF Distinct
        <5>3. j = last => i = index
          BY <3>5 DEF Origin
        <5> QED BY <5>1, <5>2, <5>3
      <4> QED BY <3>4, <4>1, <4>2
    <3>8. CASE n # m[last].key
      <4>1. links[Opposite(o)] = i <=> m[i].key = n
        BY <3>2, <3>5, <3>6, <3>8
      <4>2. m[i].key = n <=> k = n
        <5>1. CASE i = index
          <6>1. j = last
            BY <5>1 DEF Origin
          <6> QED BY <3>3, <3>8, <5>1, <6>1
        <5>2. CASE i # index
          <6>1. j = i
            BY <5>2 DEF Origin
          <6> QED BY <6>1
        <5> QED BY <5>1, <5>2
      <4> QED BY <3>4, <4>1, <4>2
    <3> QED BY <3>7, <3>8
  <2> HIDE DEF j, last
  <2>4. ASSUME NEW o \in 1..8
        PROVE  r[i].neighbors[o] =
                 IF Neighbor(k, o) = m[index].key THEN 0
                 ELSE IF Neighbor(k, o) = m[last].key THEN index
                 ELSE key_index(m, Neighbor(k, o))
    BY <1>7, <2>2, <2>3
  <2> QED BY <1>7, <2>2, <2>4 DEF j
<1> QED BY <1>7, <1>8 DEF r

Sound(m) == m \in Maps /\ Distinct(m) /\ Apart(m) /\ Linked(m)

LEMMA OriginIs ==
  ASSUME NEW m \in Maps, NEW index \in DOMAIN m
  PROVE  /\ Len(m) \in Nat \ {0} /\ DOMAIN m = 1..Len(m) /\ Len(m) \in DOMAIN m
         /\ index \in Nat
         /\ \A i \in 1..(Len(m) - 1) :
              /\ Origin(m, index, i) \in DOMAIN m \ {index}
              /\ \A j \in 1..(Len(m) - 1) :
                   Origin(m, index, i) = Origin(m, index, j) => i = j
         /\ \A j \in DOMAIN m \ {index} :
              \E i \in 1..(Len(m) - 1) : Origin(m, index, i) = j
<1> DEFINE last == Len(m)
<1>1. last \in Nat /\ DOMAIN m = 1..last /\ index \in 1..last
  BY RegionType
<1> HIDE DEF last
<1>2. last \in Nat \ {0} /\ last \in DOMAIN m /\ index \in Nat
  BY <1>1
<1>3. \A i : Origin(m, index, i) = IF i = index THEN last ELSE i
  BY DEF Origin, last
<1>4. ASSUME NEW i \in 1..(last - 1)
      PROVE  /\ Origin(m, index, i) \in DOMAIN m \ {index}
             /\ \A j \in 1..(last - 1) :
                  Origin(m, index, i) = Origin(m, index, j) => i = j
  BY <1>1, <1>2, <1>3
<1>5. ASSUME NEW j \in DOMAIN m, j # index
      PROVE  \E i \in 1..(last - 1) : Origin(m, index, i) = j
  <2>1. CASE j = last
    <3>1. index \in 1..(last - 1) /\ Origin(m, index, index) = j
      BY <1>1, <1>2, <1>3, <1>5, <2>1
    <3> QED BY <3>1
  <2>2. CASE j # last
    <3>1. j \in 1..(last - 1) /\ Origin(m, index, j) = j
      BY <1>1, <1>2, <1>3, <1>5, <2>2
    <3> QED BY <3>1
  <2> QED BY <2>1, <2>2
<1> QED BY <1>1, <1>2, <1>4, <1>5 DEF last

\* A region without entities goes, and the others keep their keys, their
\* entities and each other.
LEMMA RemoveKeeps ==
  ASSUME NEW m, Sound(m), NEW index \in DOMAIN m, m[index].bitset = {}
  PROVE  LET r == remove_index(m, index)
         IN  /\ Sound(r) /\ Tenants(r) = Tenants(m)
             /\ \A j \in DOMAIN m \ {index} : \E i \in DOMAIN r : r[i].key = m[j].key
<1> DEFINE r == remove_index(m, index)
           last == Len(m)
           gone == m[index].key
           From(i) == m[Origin(m, index, i)]
<1>1. m \in Maps /\ Distinct(m) /\ Apart(m) /\ Linked(m)
  BY DEF Sound
<1>2. /\ r \in Maps /\ DOMAIN r = 1..(last - 1)
      /\ \A i \in 1..(last - 1) :
           /\ r[i].key = From(i).key /\ r[i].bitset = From(i).bitset
           /\ \A o \in 1..8 : r[i].neighbors[o] =
                IF Neighbor(From(i).key, o) = gone THEN 0
                ELSE IF Neighbor(From(i).key, o) = m[last].key THEN index
                ELSE key_index(m, Neighbor(From(i).key, o))
  BY <1>1, RemoveIs
<1>3. /\ last \in Nat \ {0} /\ DOMAIN m = 1..last /\ last \in DOMAIN m /\ index \in Nat
      /\ \A i \in 1..(last - 1) :
           /\ Origin(m, index, i) \in DOMAIN m \ {index}
           /\ \A j \in 1..(last - 1) : Origin(m, index, i) = Origin(m, index, j) => i = j
      /\ \A j \in DOMAIN m \ {index} : \E i \in 1..(last - 1) : Origin(m, index, i) = j
  BY <1>1, OriginIs
<1> HIDE DEF r, last
<1>4. Distinct(r)
  <2> SUFFICES ASSUME NEW i \in DOMAIN r, NEW j \in DOMAIN r, i # j
               PROVE  r[i].key # r[j].key
    BY DEF Distinct
  <2> DEFINE a == Origin(m, index, i)
             b == Origin(m, index, j)
  <2>1. a # b /\ a \in DOMAIN m /\ b \in DOMAIN m
    BY <1>2, <1>3
  <2>2. r[i].key = m[a].key /\ r[j].key = m[b].key
    BY <1>2
  <2> HIDE DEF a, b
  <2> QED BY <1>1, <2>1, <2>2 DEF Distinct
<1>5. Apart(r)
  <2> SUFFICES ASSUME NEW i \in DOMAIN r, NEW j \in DOMAIN r, i # j
               PROVE  r[i].bitset \cap r[j].bitset = {}
    BY DEF Apart
  <2> DEFINE a == Origin(m, index, i)
             b == Origin(m, index, j)
  <2>1. a # b /\ a \in DOMAIN m /\ b \in DOMAIN m
    BY <1>2, <1>3
  <2>2. r[i].bitset = m[a].bitset /\ r[j].bitset = m[b].bitset
    BY <1>2
  <2> HIDE DEF a, b
  <2> QED BY <1>1, <2>1, <2>2 DEF Apart
<1>6. ASSUME NEW j \in DOMAIN m \ {index}
      PROVE  \E i \in DOMAIN r : /\ Origin(m, index, i) = j
                                 /\ r[i].key = m[j].key /\ r[i].bitset = m[j].bitset
  <2>1. PICK i \in 1..(last - 1) : Origin(m, index, i) = j
    BY <1>3
  <2>2. i \in DOMAIN r /\ r[i].key = From(i).key /\ r[i].bitset = From(i).bitset
    BY <1>2
  <2> QED BY <2>1, <2>2
<1>7. Tenants(r) = Tenants(m)
  <2>1. ASSUME NEW id \in Tenants(m) PROVE id \in Tenants(r)
    <3>1. PICK j \in DOMAIN m : id \in m[j].bitset
      BY DEF Tenants
    <3>2. j \in DOMAIN m \ {index}
      BY <3>1
    <3>3. PICK i \in DOMAIN r : r[i].bitset = m[j].bitset
      BY <1>6, <3>2
    <3> QED BY <3>1, <3>3 DEF Tenants
  <2>2. ASSUME NEW id \in Tenants(r) PROVE id \in Tenants(m)
    <3>1. PICK i \in DOMAIN r : id \in r[i].bitset
      BY DEF Tenants
    <3>2. Origin(m, index, i) \in DOMAIN m /\ id \in From(i).bitset
      BY <1>2, <1>3, <3>1
    <3> QED BY <3>2 DEF Tenants
  <2> QED BY <2>1, <2>2
<1>8. \A k : key_index(r, k) = IF k = gone THEN 0
                              ELSE IF k = m[last].key THEN index
                              ELSE key_index(m, k)
  <2> SUFFICES ASSUME NEW k
               PROVE  key_index(r, k) = IF k = gone THEN 0
                                        ELSE IF k = m[last].key THEN index
                                        ELSE key_index(m, k)
    OBVIOUS
  <2>1. ASSUME \A j \in DOMAIN m \ {index} : m[j].key # k PROVE key_index(r, k) = 0
    <3>1. ASSUME NEW i \in DOMAIN r PROVE r[i].key # k
      <4>1. Origin(m, index, i) \in DOMAIN m \ {index} /\ r[i].key = From(i).key
        BY <1>2, <1>3
      <4> QED BY <2>1, <4>1
    <3>2. r \in Maps
      BY <1>2
    <3>3. ~ (key_index(r, k) \in DOMAIN r /\ r[key_index(r, k)].key = k)
      BY ONLY <3>1
    <3> QED BY ONLY <3>2, <3>3, KeyIndexIs
  <2>2. CASE k = gone
    <3>1. \A j \in DOMAIN m \ {index} : m[j].key # k
      BY <1>1, <2>2 DEF Distinct
    <3> QED BY <2>1, <2>2, <3>1
  <2>3. ASSUME NEW j \in DOMAIN m \ {index}, m[j].key = k
        PROVE  key_index(r, k) = IF j = last THEN index ELSE j
    <3>1. PICK i \in DOMAIN r : Origin(m, index, i) = j /\ r[i].key = k
      BY <1>6, <2>3
    <3>2. key_index(r, k) = i
      <4>1. r \in Maps
        BY <1>2
      <4> QED BY <1>4, <3>1, <4>1, KeyIndexAt
    <3>3. i \in 1..(last - 1)
      BY <1>2
    <3>4. i = IF j = last THEN index ELSE j
      BY <1>3, <3>1, <3>3 DEF Origin, last
    <3> QED BY <3>2, <3>4
  <2>4. CASE k # gone /\ k = m[last].key
    <3>1. last \in DOMAIN m \ {index}
      BY <1>3, <2>4
    <3> QED BY <2>3, <2>4, <3>1
  <2>5. CASE k # gone /\ k # m[last].key
    <3>1. CASE key_index(m, k) = 0
      <4>1. \A j \in DOMAIN m \ {index} : m[j].key # k
        BY <1>1, <3>1, KeyIndexIs
      <4> QED BY <2>1, <2>5, <3>1, <4>1
    <3>2. CASE key_index(m, k) # 0
      <4> DEFINE j == key_index(m, k)
      <4>1. j \in DOMAIN m /\ m[j].key = k
        BY <1>1, <3>2, KeyIndexIs
      <4> HIDE DEF j
      <4>2. j \in DOMAIN m \ {index} /\ j # last
        BY <2>5, <4>1
      <4>3. key_index(r, k) = j
        BY <2>3, <4>1, <4>2
      <4> QED BY <2>5, <4>3 DEF j
    <3> QED BY <3>1, <3>2
  <2> QED BY <2>2, <2>4, <2>5
<1>9. Linked(r)
  <2> SUFFICES ASSUME NEW i \in DOMAIN r, NEW o \in 1..8
               PROVE  r[i].neighbors[o] = key_index(r, Neighbor(r[i].key, o))
    BY DEF Linked
  <2> QED BY SMTT(60), <1>2, <1>8
<1>10. Sound(r)
  BY <1>2, <1>4, <1>5, <1>9 DEF Sound
<1> QED BY <1>6, <1>7, <1>10 DEF r

-----------------------------------------------------------------------------
(* Entities in their regions *)

\* r is m with other entities and events in its regions.
SameRegions(r, m) ==
  /\ r \in Maps /\ DOMAIN r = DOMAIN m
  /\ \A i \in DOMAIN m : r[i].key = m[i].key /\ r[i].neighbors = m[i].neighbors

LEMMA SameRegionsKeep ==
  ASSUME NEW m \in Maps, Distinct(m), Linked(m), NEW r, SameRegions(r, m)
  PROVE  Distinct(r) /\ Linked(r)
<1>1. /\ r \in Maps /\ DOMAIN r = DOMAIN m
      /\ \A i \in DOMAIN m : r[i].key = m[i].key /\ r[i].neighbors = m[i].neighbors
  BY DEF SameRegions
<1>2. Distinct(r)
  BY <1>1 DEF Distinct
<1>3. ASSUME NEW k PROVE key_index(r, k) = key_index(m, k)
  <2>1. CASE key_index(m, k) = 0
    <3>1. \A i \in DOMAIN r : r[i].key # k
      BY <1>1, <2>1, KeyIndexIs
    <3> QED BY <1>1, <2>1, <3>1, KeyIndexIs
  <2>2. CASE key_index(m, k) # 0
    <3>1. key_index(m, k) \in DOMAIN r /\ r[key_index(m, k)].key = k
      BY <1>1, <2>2, KeyIndexIs
    <3> QED BY <1>1, <1>2, <3>1, KeyIndexAt
  <2> QED BY <2>1, <2>2
<1>4. Linked(r)
  BY <1>1, <1>3 DEF Linked
<1> QED BY <1>2, <1>4

\* r is m with one region replaced.
LEMMA ReplaceIs ==
  ASSUME NEW m \in Maps, NEW index \in DOMAIN m, NEW g \in Region,
         NEW r, r = [m EXCEPT ![index] = g]
  PROVE  /\ r \in Maps /\ DOMAIN r = DOMAIN m
         /\ r[index] = g /\ \A i \in DOMAIN m \ {index} : r[i] = m[i]
<1>1. DOMAIN m = 1..Len(m) /\ Len(m) \in Nat
  BY RegionType
<1>2. /\ DOMAIN r = DOMAIN m
      /\ r[index] = g /\ \A i \in DOMAIN m \ {index} : r[i] = m[i]
      /\ r = [i \in DOMAIN m |-> r[i]]
  OBVIOUS
<1>3. \A i \in DOMAIN m : r[i] \in Region
  BY <1>2, RegionType
<1>4. r \in [1..Len(m) -> Region]
  BY <1>1, <1>2, <1>3
<1>5. r \in Maps
  BY <1>1, <1>4, SeqDef DEF Maps
<1> QED BY <1>2, <1>5

\* An entity that was nowhere comes into one region.
LEMMA EntersKeeps ==
  ASSUME NEW m \in Maps, Distinct(m), Apart(m), Linked(m), NEW id, id \notin Tenants(m),
         NEW r, SameRegions(r, m), NEW index \in DOMAIN m,
         r[index].bitset = m[index].bitset \cup {id},
         \A i \in DOMAIN m \ {index} : r[i].bitset = m[i].bitset
  PROVE  Sound(r) /\ Tenants(r) = Tenants(m) \cup {id}
<1>1. r \in Maps /\ DOMAIN r = DOMAIN m
  BY DEF SameRegions
<1>2. Distinct(r) /\ Linked(r)
  BY SameRegionsKeep
<1>3. \A i \in DOMAIN m : id \notin m[i].bitset
  BY DEF Tenants
<1>4. Apart(r)
  BY <1>1, <1>3 DEF Apart
<1>5. Tenants(r) = Tenants(m) \cup {id}
  BY <1>1 DEF Tenants
<1> QED BY <1>1, <1>2, <1>4, <1>5 DEF Sound

\* r has the regions of m, and all entities of a region of m are still there.
Grown(r, m) ==
  /\ DOMAIN m \subseteq DOMAIN r
  /\ \A i \in DOMAIN m : r[i].key = m[i].key /\ m[i].bitset \subseteq r[i].bitset

LEMMA AddKeeps ==
  ASSUME NEW m, Sound(m), NEW id \in Entity, id \notin Tenants(m),
         NEW p \in Nat \X Nat, NEW from \in Key \cup {None}
  PROVE  LET r == add_entity(m, id, p, from)
         IN  Sound(r) /\ Tenants(r) = Tenants(m) \cup {id} /\ Grown(r, m)
<1> DEFINE key   == pos_key(p)
           index == key_index(m, key)
           r     == add_entity(m, id, p, from)
<1>1. m \in Maps /\ Distinct(m) /\ Apart(m) /\ Linked(m)
  BY DEF Sound
<1>2. key \in Key
  BY PosKeyType
<1>3. CASE index # 0
  <2> DEFINE g == [m[index] EXCEPT !.bitset = @ \cup {id},
                                   !.entered = @ \cup {[id |-> id, key |-> from]}]
  <2>1. r = [m EXCEPT ![index].bitset = @ \cup {id},
                      ![index].entered = @ \cup {[id |-> id, key |-> from]}]
    BY <1>3 DEF add_entity
  <2>2. index \in DOMAIN m
    BY <1>1, <1>3, KeyIndexIs
  <2> HIDE DEF index, r
  <2>3. r = [m EXCEPT ![index] = g]
    BY <2>1, <2>2
  <2>4. m[index] \in Region
    BY <1>1, <2>2, RegionType
  <2>5. [id |-> id, key |-> from] \in Happening
    BY DEF Happening
  <2>6. /\ g \in Region /\ g.key = m[index].key /\ g.neighbors = m[index].neighbors
        /\ g.bitset = m[index].bitset \cup {id}
    BY <2>4, <2>5 DEF Region
  <2> HIDE DEF g
  <2>7. /\ r \in Maps /\ DOMAIN r = DOMAIN m
        /\ r[index] = g /\ \A i \in DOMAIN m \ {index} : r[i] = m[i]
    BY <1>1, <2>2, <2>3, <2>6, ReplaceIs
  <2>8. SameRegions(r, m)
    BY <2>6, <2>7 DEF SameRegions
  <2>9. Sound(r) /\ Tenants(r) = Tenants(m) \cup {id}
    BY <1>1, <2>2, <2>6, <2>7, <2>8, EntersKeeps
  <2>10. Grown(r, m)
    BY <2>6, <2>7 DEF Grown
  <2> QED BY <2>9, <2>10 DEF r
<1>4. CASE index = 0
  <2> DEFINE t == insert(m, key)
             n == Len(m) + 1
             g == [t[n] EXCEPT !.bitset = {id},
                               !.entered = {[id |-> id, key |-> None]}]
  <2>1. r = [t EXCEPT ![n].bitset = {id},
                      ![n].entered = {[id |-> id, key |-> None]}]
    BY <1>4 DEF add_entity
  <2>2. /\ t \in Maps /\ DOMAIN t = 1..n
        /\ t[n].bitset = {}
        /\ \A i \in DOMAIN m : t[i].key = m[i].key /\ t[i].bitset = m[i].bitset
    BY SMTT(60), <1>1, <1>2, InsertIs
  <2>3. Distinct(t) /\ Linked(t)
    BY <1>1, <1>2, <1>4, InsertKeeps
  <2>4. Len(m) \in Nat /\ DOMAIN m = 1..Len(m)
    BY <1>1 DEF Maps
  <2> HIDE DEF t, r, n, index, key
  <2>5. n \in DOMAIN t /\ DOMAIN t = DOMAIN m \cup {n} /\ n \notin DOMAIN m
    BY <2>2, <2>4 DEF n
  <2>6. Apart(t)
    <3>1. \A i \in DOMAIN t : t[i].bitset = {} \/ (i \in DOMAIN m /\ t[i].bitset = m[i].bitset)
      BY <2>2, <2>5
    <3>2. Apart(m)
      BY <1>1
    <3> QED BY ONLY <3>1, <3>2 DEF Apart
  <2>7. Tenants(t) = Tenants(m)
    <3>1. \A x : x \in Tenants(t) <=> \E i \in DOMAIN t : x \in t[i].bitset
      BY DEF Tenants
    <3>2. \A x : x \in Tenants(m) <=> \E i \in DOMAIN m : x \in m[i].bitset
      BY DEF Tenants
    <3>3. \A i \in DOMAIN t : t[i].bitset = {} \/ (i \in DOMAIN m /\ t[i].bitset = m[i].bitset)
      BY <2>2, <2>5
    <3>4. \A i \in DOMAIN m : i \in DOMAIN t /\ t[i].bitset = m[i].bitset
      BY <2>2, <2>5
    <3>5. \A x : x \in Tenants(t) <=> x \in Tenants(m)
      BY <3>1, <3>2, <3>3, <3>4
    <3> QED BY <3>5
  <2>8. r = [t EXCEPT ![n] = g]
    BY <2>1, <2>5
  <2>9. t[n] \in Region
    BY <2>2, <2>5, RegionType
  <2>10. [id |-> id, key |-> None] \in Happening
    BY DEF Happening
  <2>11. /\ g \in Region /\ g.key = t[n].key /\ g.neighbors = t[n].neighbors
         /\ g.bitset = t[n].bitset \cup {id}
    BY <2>2, <2>9, <2>10 DEF Region
  <2> HIDE DEF g
  <2>12. /\ r \in Maps /\ DOMAIN r = DOMAIN t
         /\ r[n] = g /\ \A i \in DOMAIN t \ {n} : r[i] = t[i]
    BY <2>2, <2>5, <2>8, <2>11, ReplaceIs
  <2>13. SameRegions(r, t)
    BY <2>11, <2>12 DEF SameRegions
  <2>14. Sound(r) /\ Tenants(r) = Tenants(m) \cup {id}
    BY <2>2, <2>3, <2>5, <2>6, <2>7, <2>11, <2>12, <2>13, EntersKeeps
  <2>15. Grown(r, m)
    BY <2>2, <2>5, <2>12 DEF Grown
  <2> QED BY <2>14, <2>15 DEF r
<1> QED BY <1>3, <1>4

\* An entity leaves its region.
LEMMA RemoveEntityKeeps ==
  ASSUME NEW m, Sound(m), NEW index \in DOMAIN m, NEW id \in m[index].bitset,
         NEW to \in Key \cup {None}
  PROVE  LET r == RemoveEntity(m, index, id, to)
         IN  /\ Sound(r) /\ Tenants(r) = Tenants(m) \ {id} /\ DOMAIN r = DOMAIN m
             /\ \A i \in DOMAIN m : /\ r[i].key = m[i].key
                                     /\ r[i].bitset = m[i].bitset \ {id}
<1> DEFINE r == RemoveEntity(m, index, id, to)
           g == [m[index] EXCEPT !.bitset = @ \ {id},
                                 !.left = @ \cup {[id |-> id, key |-> to]}]
<1>1. m \in Maps /\ Distinct(m) /\ Apart(m) /\ Linked(m)
  BY DEF Sound
<1>2. r = [m EXCEPT ![index] = g]
  BY DEF RemoveEntity
<1>3. m[index] \in Region
  BY <1>1, RegionType
<1>4. [id |-> id, key |-> to] \in Happening
  BY <1>3 DEF Region, Happening
<1>5. /\ g \in Region /\ g.key = m[index].key /\ g.neighbors = m[index].neighbors
      /\ g.bitset = m[index].bitset \ {id}
  BY <1>3, <1>4 DEF Region
<1> HIDE DEF g, r
<1>6. /\ r \in Maps /\ DOMAIN r = DOMAIN m
      /\ r[index] = g /\ \A i \in DOMAIN m \ {index} : r[i] = m[i]
  BY <1>1, <1>2, <1>5, ReplaceIs
<1>7. SameRegions(r, m)
  BY <1>5, <1>6 DEF SameRegions
<1>8. Distinct(r) /\ Linked(r)
  BY <1>1, <1>7, SameRegionsKeep
<1>9. ASSUME NEW i \in DOMAIN m
      PROVE  r[i].key = m[i].key /\ r[i].bitset = m[i].bitset \ {id}
  <2>1. CASE i = index
    BY <1>5, <1>6, <2>1
  <2>2. CASE i # index
    <3>1. id \notin m[i].bitset
      BY <1>1, <2>2 DEF Apart
    <3> QED BY <1>6, <2>2, <3>1
  <2> QED BY <2>1, <2>2
<1>10. Apart(r)
  BY <1>1, <1>6, <1>9 DEF Apart
<1>11. Tenants(r) = Tenants(m) \ {id}
  BY <1>6, <1>9 DEF Tenants
<1>12. Sound(r)
  BY <1>6, <1>8, <1>10 DEF Sound
<1> QED BY <1>6, <1>9, <1>11, <1>12 DEF r

\* An entity changes its region, and the others stay.
LEMMA SwitchKeeps ==
  ASSUME NEW m, Sound(m), NEW v, v[1] \in DOMAIN m, v[2] \in m[v[1]].bitset,
         NEW p \in Nat \X Nat
  PROVE  LET r == Switch(m, v, p)
         IN  /\ Sound(r) /\ Tenants(r) = Tenants(m)
             /\ DOMAIN m \subseteq DOMAIN r
             /\ \A i \in DOMAIN m : /\ r[i].key = m[i].key
                                     /\ m[i].bitset \ {v[2]} \subseteq r[i].bitset
<1> DEFINE index == v[1]
           id == v[2]
           from == m[index].key
           to == pos_key(p)
           t == RemoveEntity(m, index, id, to)
           r == Switch(m, v, p)
<1>1. r = add_entity(t, id, p, from)
  BY DEF Switch
<1>2. m \in Maps /\ m[index] \in Region /\ id \in m[index].bitset /\ index \in DOMAIN m
  BY RegionType DEF Sound
<1>3. id \in Entity /\ from \in Key \cup {None} /\ to \in Key \cup {None}
  BY <1>2, PosKeyType DEF Region
<1> HIDE DEF index, id, from, to, r
<1>4. /\ Sound(t) /\ Tenants(t) = Tenants(m) \ {id} /\ DOMAIN t = DOMAIN m
      /\ \A i \in DOMAIN m : /\ t[i].key = m[i].key
                              /\ t[i].bitset = m[i].bitset \ {id}
  BY <1>2, <1>3, RemoveEntityKeeps
<1> HIDE DEF t
<1>5. Sound(r) /\ Tenants(r) = Tenants(t) \cup {id} /\ Grown(r, t)
  BY <1>1, <1>3, <1>4, AddKeeps
<1>6. id \in Tenants(m)
  BY <1>2 DEF Tenants
<1>7. Tenants(r) = Tenants(m)
  BY <1>4, <1>5, <1>6
<1>8. /\ DOMAIN m \subseteq DOMAIN r
      /\ \A i \in DOMAIN m : r[i].key = m[i].key /\ m[i].bitset \ {id} \subseteq r[i].bitset
  BY <1>4, <1>5 DEF Grown
<1> QED BY <1>5, <1>7, <1>8 DEF r, id

\* Entities without a position leave their regions.
LEMMA DropKeeps ==
  ASSUME NEW m, Sound(m), NEW where
  PROVE  LET r == DropAll(m, where)
         IN  /\ Sound(r) /\ DOMAIN r = DOMAIN m
             /\ Tenants(r) = {id \in Tenants(m) : where[id] # None}
             /\ \A i \in DOMAIN m : r[i].key = m[i].key
<1> DEFINE r == DropAll(m, where)
           gone(i) == Lost(m[i], where)
           g(i) == [m[i] EXCEPT !.bitset = @ \ gone(i),
                      !.left = @ \cup {[id |-> id, key |-> None] : id \in gone(i)}]
<1>1. m \in Maps /\ Distinct(m) /\ Apart(m) /\ Linked(m)
  BY DEF Sound
<1>2. r = [i \in DOMAIN m |-> g(i)]
  BY SMTT(60) DEF DropAll
<1>3. ASSUME NEW i \in DOMAIN m
      PROVE  /\ g(i) \in Region /\ g(i).key = m[i].key /\ g(i).neighbors = m[i].neighbors
             /\ g(i).bitset = {id \in m[i].bitset : where[id] # None}
  <2>1. m[i] \in Region /\ gone(i) = {id \in m[i].bitset : where[id] = None}
    BY <1>1, RegionType DEF Lost
  <2>2. gone(i) \subseteq Entity
    BY <2>1 DEF Region
  <2> DEFINE notes == {[id |-> id, key |-> None] : id \in gone(i)}
  <2>3. notes \in SUBSET Happening
    BY <2>2 DEF Happening
  <2>4. g(i) = [m[i] EXCEPT !.bitset = @ \ gone(i), !.left = @ \cup notes]
    OBVIOUS
  <2>5. m[i].bitset \ gone(i) = {id \in m[i].bitset : where[id] # None}
    BY <2>1
  <2> HIDE DEF gone, notes
  <2> QED BY ZenonT(60), <2>1, <2>2, <2>3, <2>4, <2>5 DEF Region
<1>4. ASSUME NEW i \in DOMAIN m
      PROVE  /\ r[i] \in Region /\ r[i].key = m[i].key /\ r[i].neighbors = m[i].neighbors
             /\ r[i].bitset = {id \in m[i].bitset : where[id] # None}
  BY <1>2, <1>3
<1> HIDE DEF g
<1>5. DOMAIN r = DOMAIN m /\ r = [i \in DOMAIN m |-> r[i]]
  BY <1>2
<1> HIDE DEF r
<1>6. r \in Maps
  <2>1. DOMAIN m = 1..Len(m) /\ Len(m) \in Nat
    BY <1>1 DEF Maps
  <2>2. r \in [1..Len(m) -> Region]
    BY <1>4, <1>5, <2>1
  <2> QED BY <2>1, <2>2, SeqDef DEF Maps
<1>7. SameRegions(r, m)
  BY <1>4, <1>5, <1>6 DEF SameRegions
<1>8. Distinct(r) /\ Linked(r)
  BY <1>1, <1>7, SameRegionsKeep
<1>9. Apart(r)
  BY <1>1, <1>4, <1>5 DEF Apart
<1>10. Tenants(r) = {id \in Tenants(m) : where[id] # None}
  <2>1. \A id : id \in Tenants(r) <=> \E i \in DOMAIN m : id \in r[i].bitset
    BY <1>5 DEF Tenants
  <2>2. \A id : id \in Tenants(m) <=> \E i \in DOMAIN m : id \in m[i].bitset
    BY DEF Tenants
  <2>3. \A id, i : i \in DOMAIN m =>
          (id \in r[i].bitset <=> id \in m[i].bitset /\ where[id] # None)
    BY <1>4
  <2>4. \A id : id \in Tenants(r) <=> id \in Tenants(m) /\ where[id] # None
    BY <2>1, <2>2, <2>3
  <2> QED BY <2>4
<1>11. Sound(r)
  BY <1>6, <1>8, <1>9 DEF Sound
<1> QED BY <1>4, <1>5, <1>10, <1>11 DEF r

\* The events are no part of what makes a map sound.
LEMMA ClearKeeps ==
  ASSUME NEW m, Sound(m)
  PROVE  Sound(ClearEvents(m)) /\ Tenants(ClearEvents(m)) = Tenants(m)
<1> DEFINE r == ClearEvents(m)
           g(i) == [m[i] EXCEPT !.entered = {}, !.left = {}]
<1>1. m \in Maps /\ Distinct(m) /\ Apart(m) /\ Linked(m)
  BY DEF Sound
<1>2. r = [i \in DOMAIN m |-> g(i)]
  BY DEF ClearEvents
<1>3. ASSUME NEW i \in DOMAIN m
      PROVE  /\ r[i] \in Region /\ r[i].key = m[i].key /\ r[i].neighbors = m[i].neighbors
             /\ r[i].bitset = m[i].bitset
  <2>1. m[i] \in Region
    BY <1>1, RegionType
  <2>2. /\ g(i) \in Region /\ g(i).key = m[i].key /\ g(i).neighbors = m[i].neighbors
        /\ g(i).bitset = m[i].bitset
    BY <2>1 DEF Region
  <2>3. r[i] = g(i)
    BY <1>2
  <2> HIDE DEF g, r
  <2> QED BY <2>2, <2>3
<1> HIDE DEF g
<1>4. DOMAIN r = DOMAIN m /\ r = [i \in DOMAIN m |-> r[i]]
  BY <1>2
<1> HIDE DEF r
<1>5. r \in Maps
  <2>1. DOMAIN m = 1..Len(m) /\ Len(m) \in Nat
    BY <1>1 DEF Maps
  <2>2. r \in [1..Len(m) -> Region]
    BY <1>3, <1>4, <2>1
  <2> QED BY <2>1, <2>2, SeqDef DEF Maps
<1>6. SameRegions(r, m)
  BY <1>3, <1>4, <1>5 DEF SameRegions
<1>7. Distinct(r) /\ Linked(r)
  BY <1>1, <1>6, SameRegionsKeep
<1>8. Apart(r)
  BY <1>1, <1>3, <1>4 DEF Apart
<1>9. Tenants(r) = Tenants(m)
  <2>1. \A id : id \in Tenants(r) <=> \E i \in DOMAIN m : id \in r[i].bitset
    BY <1>4 DEF Tenants
  <2>2. \A id : id \in Tenants(m) <=> \E i \in DOMAIN m : id \in m[i].bitset
    BY DEF Tenants
  <2>3. \A id : id \in Tenants(r) <=> id \in Tenants(m)
    BY <1>3, <2>1, <2>2
  <2> QED BY <2>3
<1> QED BY <1>5, <1>7, <1>8, <1>9 DEF r, Sound

\* A region that is empty goes, and no other does.
LEMMA PruneKeeps ==
  ASSUME NEW m, Sound(m), NEW i \in DOMAIN m
  PROVE  LET r == Prune(m, m[i].key)
         IN  /\ Sound(r) /\ Tenants(r) = Tenants(m)
             /\ \A j \in DOMAIN m \ {i} : \E k \in DOMAIN r : r[k].key = m[j].key
<1>1. m \in Maps /\ Distinct(m)
  BY DEF Sound
<1>2. key_index(m, m[i].key) = i
  BY <1>1, KeyIndexUnique
<1>3. Prune(m, m[i].key) = IF removable(m[i]) THEN remove_index(m, i) ELSE m
  BY <1>2 DEF Prune
<1>4. CASE removable(m[i])
  <2>1. m[i].bitset = {}
    BY <1>4 DEF removable
  <2> QED BY <1>3, <1>4, <2>1, RemoveKeeps
<1>5. CASE ~ removable(m[i])
  BY <1>3, <1>5
<1> QED BY <1>4, <1>5

-----------------------------------------------------------------------------
(* What a map says of an entity *)

\* The regions an entity is in, and the events it has in them: what it entered
\* and left, each with the key the event names.
Homes(m, id) == {k \in Key : \E i \in DOMAIN m : m[i].key = k /\ id \in m[i].bitset}

Ins(m, id) == {e \in Key \X (Key \cup {None}) :
  \E i \in DOMAIN m : m[i].key = e[1] /\ [id |-> id, key |-> e[2]] \in m[i].entered}

Outs(m, id) == {e \in Key \X (Key \cup {None}) :
  \E i \in DOMAIN m : m[i].key = e[1] /\ [id |-> id, key |-> e[2]] \in m[i].left}

SameTrace(r, m, id) ==
  Homes(r, id) = Homes(m, id) /\ Ins(r, id) = Ins(m, id) /\ Outs(r, id) = Outs(m, id)

RegionKeys(m) == {m[i].key : i \in DOMAIN m}

Alike(a, b) ==
  a.key = b.key /\ a.bitset = b.bitset /\ a.entered = b.entered /\ a.left = b.left

\* Every region of m that is not removable is in r.
Covers(r, m) ==
  \A i \in DOMAIN m : removable(m[i]) \/ \E j \in DOMAIN r : Alike(r[j], m[i])

LEMMA CoversTraces ==
  ASSUME NEW m, NEW r, Covers(r, m), NEW id
  PROVE  /\ Homes(m, id) \subseteq Homes(r, id)
         /\ Ins(m, id) \subseteq Ins(r, id)
         /\ Outs(m, id) \subseteq Outs(r, id)
<1>1. ASSUME NEW i \in DOMAIN m, NEW k, m[i].key = k, id \in m[i].bitset
      PROVE  \E j \in DOMAIN r : r[j].key = k /\ id \in r[j].bitset
  BY <1>1 DEF Covers, Alike, removable
<1>2. ASSUME NEW i \in DOMAIN m, NEW k, NEW e, m[i].key = k, e \in m[i].entered
      PROVE  \E j \in DOMAIN r : r[j].key = k /\ e \in r[j].entered
  BY <1>2 DEF Covers, Alike, removable
<1>3. ASSUME NEW i \in DOMAIN m, NEW k, NEW e, m[i].key = k, e \in m[i].left
      PROVE  \E j \in DOMAIN r : r[j].key = k /\ e \in r[j].left
  BY <1>3 DEF Covers, Alike, removable
<1>4. Homes(m, id) \subseteq Homes(r, id)
  BY <1>1 DEF Homes
<1>5. Ins(m, id) \subseteq Ins(r, id)
  <2> SUFFICES ASSUME NEW e \in Ins(m, id) PROVE e \in Ins(r, id)
    OBVIOUS
  <2>1. e \in Key \X (Key \cup {None})
    BY DEF Ins
  <2>2. PICK i \in DOMAIN m : m[i].key = e[1] /\ [id |-> id, key |-> e[2]] \in m[i].entered
    BY DEF Ins
  <2>3. \E j \in DOMAIN r : r[j].key = e[1] /\ [id |-> id, key |-> e[2]] \in r[j].entered
    BY <1>2, <2>2
  <2> QED BY ONLY <2>1, <2>3 DEF Ins
<1>6. Outs(m, id) \subseteq Outs(r, id)
  <2> SUFFICES ASSUME NEW e \in Outs(m, id) PROVE e \in Outs(r, id)
    OBVIOUS
  <2>1. e \in Key \X (Key \cup {None})
    BY DEF Outs
  <2>2. PICK i \in DOMAIN m : m[i].key = e[1] /\ [id |-> id, key |-> e[2]] \in m[i].left
    BY DEF Outs
  <2>3. \E j \in DOMAIN r : r[j].key = e[1] /\ [id |-> id, key |-> e[2]] \in r[j].left
    BY <1>3, <2>2
  <2> QED BY ONLY <2>1, <2>3 DEF Outs
<1> QED BY <1>4, <1>5, <1>6

\* Two maps that differ in removable regions only say the same of everyone.
LEMMA CoveredTraces ==
  ASSUME NEW m, NEW r, Covers(r, m), Covers(m, r)
  PROVE  \A id : SameTrace(r, m, id)
<1> SUFFICES ASSUME NEW id PROVE SameTrace(r, m, id)
  OBVIOUS
<1>1. /\ Homes(m, id) \subseteq Homes(r, id) /\ Ins(m, id) \subseteq Ins(r, id)
      /\ Outs(m, id) \subseteq Outs(r, id)
  BY CoversTraces
<1>2. /\ Homes(r, id) \subseteq Homes(m, id) /\ Ins(r, id) \subseteq Ins(m, id)
      /\ Outs(r, id) \subseteq Outs(m, id)
  BY CoversTraces
<1> QED BY <1>1, <1>2 DEF SameTrace

LEMMA RelinkAlike ==
  ASSUME NEW m \in Maps, NEW links, NEW index
  PROVE  LET r == Relink(m, links, index)
         IN  DOMAIN r = DOMAIN m /\ \A i \in DOMAIN m : Alike(r[i], m[i])
<1> DEFINE r == Relink(m, links, index)
           Links(i) == [o \in 1..8 |-> IF links[Opposite(o)] = i THEN index
                                       ELSE m[i].neighbors[o]]
<1>1. r = [i \in DOMAIN m |-> [m[i] EXCEPT !.neighbors = Links(i)]]
  BY DEF Relink
<1> HIDE DEF Links, r
<1>2. ASSUME NEW i \in DOMAIN m PROVE Alike(r[i], m[i])
  <2>1. m[i] \in Region /\ r[i] = [m[i] EXCEPT !.neighbors = Links(i)]
    BY <1>1, RegionType
  <2> QED BY <2>1 DEF Region, Alike
<1>3. DOMAIN r = DOMAIN m
  BY <1>1
<1> QED BY <1>2, <1>3 DEF r

\* Insertion
LEMMA InsertTraces ==
  ASSUME NEW m \in Maps, NEW key \in Key
  PROVE  /\ \A id : SameTrace(insert(m, key), m, id)
         /\ removable(insert(m, key)[Len(m) + 1])
         /\ RegionKeys(insert(m, key)) = RegionKeys(m) \cup {key}
<1> DEFINE near  == [o \in 1..8 |-> key_index(m, Neighbor(key, o))]
           n     == Len(m) + 1
           told  == Relink(m, near, n)
           fresh == [NewRegion(key) EXCEPT !.neighbors = near]
           r     == insert(m, key)
<1>1. near \in [1..8 -> Nat] /\ n \in Nat /\ DOMAIN m = 1..Len(m) /\ Len(m) \in Nat
  BY KeyIndexIs DEF Maps
<1>2. r = Append(told, fresh)
  BY DEF insert
<1>3. /\ fresh = [key |-> key, bitset |-> {}, neighbors |-> near, entered |-> {}, left |-> {}]
      /\ removable(fresh)
  BY DEF NewRegion, removable
<1>4. told \in Maps /\ Len(told) = Len(m)
  <2> HIDE DEF near, n
  <2>1. Relinked(told, m, near, n)
    BY <1>1, RelinkIs
  <2> QED BY <2>1 DEF Relinked
<1>5. DOMAIN told = DOMAIN m /\ \A i \in DOMAIN m : Alike(told[i], m[i])
  BY RelinkAlike
<1>6. r \in Maps /\ Len(r) = n /\ DOMAIN r = 1..n /\ r[n].key = key
  BY SMTT(60), InsertIs
<1> HIDE DEF near, told, r, fresh
<1>7. r[n] = fresh /\ \A i \in DOMAIN m : r[i] = told[i]
  <2>1. told \in Seq(Region) /\ DOMAIN told = 1..Len(told)
    BY <1>4 DEF Maps
  <2> QED BY SMTT(60), <1>2, <1>1, <1>4, <1>5, <2>1
<1>8. \A i \in DOMAIN m : Alike(r[i], m[i])
  BY <1>5, <1>7
<1>9. DOMAIN r = DOMAIN m \cup {n}
  BY SMTT(60), <1>1, <1>6
<1>10. Covers(r, m)
  BY <1>8, <1>9 DEF Covers
<1>11. Covers(m, r)
  <2> SUFFICES ASSUME NEW i \in DOMAIN r
               PROVE  removable(r[i]) \/ \E j \in DOMAIN m : Alike(m[j], r[i])
    BY DEF Covers
  <2>1. CASE i = n
    BY <1>3, <1>7, <2>1
  <2>2. CASE i \in DOMAIN m
    BY <1>8, <2>2 DEF Alike
  <2> QED BY <1>9, <2>1, <2>2
<1>12. \A id : SameTrace(r, m, id)
  BY <1>10, <1>11, CoveredTraces
<1>13. removable(r[n])
  BY <1>3, <1>7
<1>14. RegionKeys(r) = RegionKeys(m) \cup {key}
  <2>1. \A i \in DOMAIN m : r[i].key = m[i].key
    BY <1>8 DEF Alike
  <2>2. r[n].key = key
    BY <1>6
  <2> HIDE DEF n
  <2>3. ASSUME NEW k \in RegionKeys(r) PROVE k \in RegionKeys(m) \cup {key}
    <3>1. PICK i \in DOMAIN r : r[i].key = k
      BY DEF RegionKeys
    <3> QED BY ONLY <2>1, <2>2, <1>9, <3>1 DEF RegionKeys
  <2>4. ASSUME NEW k \in RegionKeys(m) \cup {key} PROVE k \in RegionKeys(r)
    BY <2>1, <2>2, <1>9 DEF RegionKeys
  <2> QED BY <2>3, <2>4
<1> QED BY <1>12, <1>13, <1>14 DEF r, n

\* Removal
LEMMA RemoveTraces ==
  ASSUME NEW m \in Maps, Distinct(m), Linked(m), NEW index \in DOMAIN m, removable(m[index])
  PROVE  /\ \A id : SameTrace(remove_index(m, index), m, id)
         /\ RegionKeys(remove_index(m, index)) \subseteq RegionKeys(m)
<1> DEFINE last == Len(m)
           remapped == IF index = last THEN m ELSE Relink(m, m[last].neighbors, index)
           Place_(i) == IF i = index THEN remapped[last] ELSE remapped[i]
           swapped == [i \in 1..(last - 1) |-> Place_(i)]
           links == remapped[index].neighbors
           r == remove_index(m, index)
<1>1. /\ last \in Nat \ {0} /\ DOMAIN m = 1..last /\ last \in DOMAIN m /\ index \in Nat
      /\ \A i \in 1..(last - 1) : Origin(m, index, i) \in DOMAIN m \ {index}
      /\ \A j \in DOMAIN m \ {index} : \E i \in 1..(last - 1) : Origin(m, index, i) = j
  BY OriginIs
<1>2. DOMAIN remapped = DOMAIN m /\ \A i \in DOMAIN m : Alike(remapped[i], m[i])
  <2>1. CASE index = last
    BY <2>1 DEF Alike
  <2>2. CASE index # last
    BY <2>2, RelinkAlike
  <2> QED BY <2>1, <2>2
<1>3. r = Relink(swapped, links, 0)
  BY DEF remove_index
<1>4. DOMAIN r = 1..(last - 1) /\ \A i \in 1..(last - 1) : Alike(r[i], swapped[i])
  <2>1. swapped \in Maps
    <3>1. remapped \in Maps
      BY RemappedIs
    <3> HIDE DEF remapped
    <3>2. \A i \in DOMAIN m : remapped[i] \in Region
      BY <1>2, <3>1, RegionType
    <3> HIDE DEF last
    <3>3. last - 1 \in Nat
      BY <1>1
    <3>4. ASSUME NEW i \in 1..(last - 1) PROVE Place_(i) \in Region
      <4>1. i \in DOMAIN m
        BY <1>1
      <4> QED BY <1>1, <3>2, <4>1
    <3> HIDE DEF Place_
    <3>5. swapped \in [1..(last - 1) -> Region]
      BY <3>4
    <3> HIDE DEF swapped
    <3> QED BY <3>3, <3>5, SeqDef DEF Maps
  <2>2. DOMAIN swapped = 1..(last - 1)
    OBVIOUS
  <2> DEFINE zero == 0
  <2> HIDE DEF swapped, links, last, r, zero
  <2>3. LET q == Relink(swapped, links, zero)
        IN  DOMAIN q = DOMAIN swapped /\ \A i \in DOMAIN swapped : Alike(q[i], swapped[i])
    BY <2>1, RelinkAlike
  <2>4. r = Relink(swapped, links, zero)
    BY <1>3 DEF zero
  <2> QED BY <2>2, <2>3, <2>4
<1> HIDE DEF r
<1>5. ASSUME NEW i \in 1..(last - 1) PROVE Alike(r[i], m[Origin(m, index, i)])
  <2>1. swapped[i] = remapped[Origin(m, index, i)]
    BY DEF Origin
  <2>2. Origin(m, index, i) \in DOMAIN m
    BY <1>1
  <2> HIDE DEF swapped, remapped, last
  <2>3. Alike(r[i], swapped[i]) /\ Alike(remapped[Origin(m, index, i)], m[Origin(m, index, i)])
    BY <1>2, <1>4, <2>2
  <2> QED BY <2>1, <2>3 DEF Alike
<1> HIDE DEF swapped, remapped, last, links
<1>6. Covers(m, r)
  BY <1>1, <1>4, <1>5 DEF Covers, Alike
<1>7. Covers(r, m)
  <2> SUFFICES ASSUME NEW j \in DOMAIN m
               PROVE  removable(m[j]) \/ \E i \in DOMAIN r : Alike(r[i], m[j])
    BY DEF Covers
  <2>1. CASE j = index
    BY <2>1
  <2>2. CASE j # index
    <3>1. PICK i \in 1..(last - 1) : Origin(m, index, i) = j
      BY <1>1, <2>2
    <3> QED BY <1>4, <1>5, <3>1
  <2> QED BY <2>1, <2>2
<1>8. \A id : SameTrace(r, m, id)
  BY <1>6, <1>7, CoveredTraces
<1>9. RegionKeys(r) \subseteq RegionKeys(m)
  <2> SUFFICES ASSUME NEW i \in DOMAIN r PROVE r[i].key \in RegionKeys(m)
    BY DEF RegionKeys
  <2>1. Origin(m, index, i) \in DOMAIN m /\ r[i].key = m[Origin(m, index, i)].key
    BY <1>1, <1>4, <1>5 DEF Alike
  <2> QED BY <2>1 DEF RegionKeys
<1> QED BY <1>8, <1>9 DEF r

-----------------------------------------------------------------------------
(* What the steps of a tick change of it *)

\* Two regions say the same but for one entity.
AlikeBut(a, b, id) ==
  /\ a.key = b.key
  /\ a.bitset \ {id} = b.bitset \ {id}
  /\ {e \in a.entered : e.id # id} = {e \in b.entered : e.id # id}
  /\ {e \in a.left : e.id # id} = {e \in b.left : e.id # id}

LEMMA ReplaceTraces ==
  ASSUME NEW m, NEW r, DOMAIN r = DOMAIN m, NEW index \in DOMAIN m,
         \A i \in DOMAIN m \ {index} : r[i] = m[i],
         NEW id, AlikeBut(r[index], m[index], id)
  PROVE  /\ \A x : x # id => SameTrace(r, m, x)
         /\ RegionKeys(r) = RegionKeys(m)
<1>1. ASSUME NEW x, x # id, NEW i \in DOMAIN m
      PROVE  /\ r[i].key = m[i].key
             /\ x \in r[i].bitset <=> x \in m[i].bitset
             /\ \A k : [id |-> x, key |-> k] \in r[i].entered
                         <=> [id |-> x, key |-> k] \in m[i].entered
             /\ \A k : [id |-> x, key |-> k] \in r[i].left
                         <=> [id |-> x, key |-> k] \in m[i].left
  <2>1. CASE i = index
    <3>1. r[i].key = m[i].key /\ (x \in r[i].bitset <=> x \in m[i].bitset)
      BY <1>1, <2>1 DEF AlikeBut
    <3>2. /\ {f \in r[i].entered : f.id # id} = {f \in m[i].entered : f.id # id}
          /\ {f \in r[i].left : f.id # id} = {f \in m[i].left : f.id # id}
      BY <2>1 DEF AlikeBut
    <3>3. ASSUME NEW k
          PROVE  /\ [id |-> x, key |-> k] \in r[i].entered
                      <=> [id |-> x, key |-> k] \in m[i].entered
                 /\ [id |-> x, key |-> k] \in r[i].left
                      <=> [id |-> x, key |-> k] \in m[i].left
      <4> DEFINE e == [id |-> x, key |-> k]
      <4>1. e.id # id
        BY <1>1
      <4> HIDE DEF e
      <4>2. /\ e \in r[i].entered <=> e \in m[i].entered
            /\ e \in r[i].left <=> e \in m[i].left
        BY <3>2, <4>1
      <4> QED BY <4>2 DEF e
    <3> QED BY <3>1, <3>3
  <2>2. CASE i # index
    BY <2>2
  <2> QED BY <2>1, <2>2
<1>2. ASSUME NEW x, x # id PROVE Homes(r, x) = Homes(m, x)
  BY <1>1, <1>2 DEF Homes
<1>3. ASSUME NEW x, x # id PROVE Ins(r, x) = Ins(m, x)
  <2>1. \A e : (\E i \in DOMAIN m : r[i].key = e[1] /\ [id |-> x, key |-> e[2]] \in r[i].entered)
           <=> (\E i \in DOMAIN m : m[i].key = e[1] /\ [id |-> x, key |-> e[2]] \in m[i].entered)
    BY <1>1, <1>3
  <2> QED BY <2>1 DEF Ins
<1>4. ASSUME NEW x, x # id PROVE Outs(r, x) = Outs(m, x)
  <2>1. \A e : (\E i \in DOMAIN m : r[i].key = e[1] /\ [id |-> x, key |-> e[2]] \in r[i].left)
           <=> (\E i \in DOMAIN m : m[i].key = e[1] /\ [id |-> x, key |-> e[2]] \in m[i].left)
    BY <1>1, <1>4
  <2> QED BY <2>1 DEF Outs
<1>5. RegionKeys(r) = RegionKeys(m)
  <2>1. \A i \in DOMAIN m : r[i].key = m[i].key
    BY DEF AlikeBut
  <2> QED BY ONLY <2>1, DOMAIN r = DOMAIN m DEF RegionKeys
<1> QED BY <1>2, <1>3, <1>4, <1>5 DEF SameTrace

LEMMA InsAfter ==
  ASSUME NEW m \in Maps, NEW r \in Maps, DOMAIN r = DOMAIN m, NEW index \in DOMAIN m,
         \A i \in DOMAIN m : i # index => r[i].key = m[i].key /\ r[i].entered = m[i].entered,
         r[index].key = m[index].key,
         NEW id, NEW k \in Key \cup {None},
         r[index].entered = m[index].entered \cup {[id |-> id, key |-> k]}
  PROVE  Ins(r, id) = Ins(m, id) \cup {<<m[index].key, k>>}
<1> DEFINE key == m[index].key
           note(f) == [id |-> id, key |-> f]
<1>1. key \in Key
  BY RegionType DEF Region
<1>2. \A f : note(f) = note(k) <=> f = k
  <2>1. \A f : note(f).key = f
    OBVIOUS
  <2> HIDE DEF note
  <2> QED BY <2>1
<1>3. Ins(m, id) = {e \in Key \X (Key \cup {None}) :
                     \E i \in DOMAIN m : m[i].key = e[1] /\ note(e[2]) \in m[i].entered}
  BY DEF Ins
<1>4. Ins(r, id) = {e \in Key \X (Key \cup {None}) :
                     \E i \in DOMAIN m : r[i].key = e[1] /\ note(e[2]) \in r[i].entered}
  BY DEF Ins
<1>5. r[index].entered = m[index].entered \cup {note(k)}
  OBVIOUS
<1> HIDE DEF note
<1>6. ASSUME NEW e \in Ins(r, id) PROVE e \in Ins(m, id) \cup {<<key, k>>}
  <2>1. e \in Key \X (Key \cup {None}) /\ e = <<e[1], e[2]>>
    BY <1>4, <1>6
  <2>2. PICK i \in DOMAIN m : r[i].key = e[1] /\ note(e[2]) \in r[i].entered
    BY <1>4, <1>6
  <2>3. CASE note(e[2]) \in m[i].entered
    <3>1. m[i].key = e[1]
      BY <2>2
    <3> QED BY <1>3, <2>1, <2>3, <3>1
  <2>4. CASE note(e[2]) \notin m[i].entered
    <3>1. i = index /\ note(e[2]) = note(k)
      BY <1>5, <2>2, <2>4
    <3>2. e[1] = key /\ e[2] = k
      BY <1>2, <2>2, <3>1
    <3> QED BY <2>1, <3>2
  <2> QED BY <2>3, <2>4
<1>7. ASSUME NEW e \in Ins(m, id) PROVE e \in Ins(r, id)
  <2>1. PICK i \in DOMAIN m : m[i].key = e[1] /\ note(e[2]) \in m[i].entered
    BY <1>3, <1>7
  <2>2. r[i].key = e[1] /\ note(e[2]) \in r[i].entered
    BY <1>5, <2>1
  <2>3. e \in Key \X (Key \cup {None})
    BY <1>3, <1>7
  <2> QED BY <1>4, <2>2, <2>3
<1>8. <<key, k>> \in Ins(r, id)
  <2> DEFINE e == <<key, k>>
  <2>1. e \in Key \X (Key \cup {None}) /\ e[1] = key /\ e[2] = k
    BY <1>1
  <2>2. r[index].key = e[1] /\ note(e[2]) \in r[index].entered
    BY <1>5, <2>1
  <2> HIDE DEF e
  <2>3. e \in Ins(r, id)
    BY <1>4, <2>1, <2>2
  <2> QED BY <2>3 DEF e
<1> QED BY <1>6, <1>7, <1>8

LEMMA OutsAfter ==
  ASSUME NEW m \in Maps, NEW r \in Maps, DOMAIN r = DOMAIN m, NEW index \in DOMAIN m,
         \A i \in DOMAIN m : i # index => r[i].key = m[i].key /\ r[i].left = m[i].left,
         r[index].key = m[index].key,
         NEW id, NEW k \in Key \cup {None},
         r[index].left = m[index].left \cup {[id |-> id, key |-> k]}
  PROVE  Outs(r, id) = Outs(m, id) \cup {<<m[index].key, k>>}
<1> DEFINE key == m[index].key
           note(f) == [id |-> id, key |-> f]
<1>1. key \in Key
  BY RegionType DEF Region
<1>2. \A f : note(f) = note(k) <=> f = k
  <2>1. \A f : note(f).key = f
    OBVIOUS
  <2> HIDE DEF note
  <2> QED BY <2>1
<1>3. Outs(m, id) = {e \in Key \X (Key \cup {None}) :
                     \E i \in DOMAIN m : m[i].key = e[1] /\ note(e[2]) \in m[i].left}
  BY DEF Outs
<1>4. Outs(r, id) = {e \in Key \X (Key \cup {None}) :
                     \E i \in DOMAIN m : r[i].key = e[1] /\ note(e[2]) \in r[i].left}
  BY DEF Outs
<1>5. r[index].left = m[index].left \cup {note(k)}
  OBVIOUS
<1> HIDE DEF note
<1>6. ASSUME NEW e \in Outs(r, id) PROVE e \in Outs(m, id) \cup {<<key, k>>}
  <2>1. e \in Key \X (Key \cup {None}) /\ e = <<e[1], e[2]>>
    BY <1>4, <1>6
  <2>2. PICK i \in DOMAIN m : r[i].key = e[1] /\ note(e[2]) \in r[i].left
    BY <1>4, <1>6
  <2>3. CASE note(e[2]) \in m[i].left
    <3>1. m[i].key = e[1]
      BY <2>2
    <3> QED BY <1>3, <2>1, <2>3, <3>1
  <2>4. CASE note(e[2]) \notin m[i].left
    <3>1. i = index /\ note(e[2]) = note(k)
      BY <1>5, <2>2, <2>4
    <3>2. e[1] = key /\ e[2] = k
      BY <1>2, <2>2, <3>1
    <3> QED BY <2>1, <3>2
  <2> QED BY <2>3, <2>4
<1>7. ASSUME NEW e \in Outs(m, id) PROVE e \in Outs(r, id)
  <2>1. PICK i \in DOMAIN m : m[i].key = e[1] /\ note(e[2]) \in m[i].left
    BY <1>3, <1>7
  <2>2. r[i].key = e[1] /\ note(e[2]) \in r[i].left
    BY <1>5, <2>1
  <2>3. e \in Key \X (Key \cup {None})
    BY <1>3, <1>7
  <2> QED BY <1>4, <2>2, <2>3
<1>8. <<key, k>> \in Outs(r, id)
  <2> DEFINE e == <<key, k>>
  <2>1. e \in Key \X (Key \cup {None}) /\ e[1] = key /\ e[2] = k
    BY <1>1
  <2>2. r[index].key = e[1] /\ note(e[2]) \in r[index].left
    BY <1>5, <2>1
  <2> HIDE DEF e
  <2>3. e \in Outs(r, id)
    BY <1>4, <2>1, <2>2
  <2> QED BY <2>3 DEF e
<1> QED BY <1>6, <1>7, <1>8

LEMMA HomesAfter ==
  ASSUME NEW m \in Maps, NEW r \in Maps, DOMAIN r = DOMAIN m, NEW index \in DOMAIN m,
         \A i \in DOMAIN m : i # index => r[i].key = m[i].key /\ r[i].bitset = m[i].bitset,
         r[index].key = m[index].key,
         NEW id, r[index].bitset = m[index].bitset \cup {id}
  PROVE  Homes(r, id) = Homes(m, id) \cup {m[index].key}
<1>1. m[index].key \in Key
  BY RegionType DEF Region
<1>2. ASSUME NEW k \in Homes(r, id) PROVE k \in Homes(m, id) \cup {m[index].key}
  BY DEF Homes
<1>3. ASSUME NEW k \in Homes(m, id) \cup {m[index].key} PROVE k \in Homes(r, id)
  BY <1>1 DEF Homes
<1> QED BY <1>2, <1>3

\* The entity came into a region, from the region an event names.
Entered(r, m, id, key, from) ==
  /\ Homes(r, id) = Homes(m, id) \cup {key}
  /\ Ins(r, id) = Ins(m, id) \cup {<<key, from>>}
  /\ Outs(r, id) = Outs(m, id)

LEMMA AddTraces ==
  ASSUME NEW m \in Maps, NEW id \in Entity,
         NEW p \in Nat \X Nat, NEW from \in Key \cup {None}
  PROVE  LET r == add_entity(m, id, p, from)
         IN  /\ \A x : x # id => SameTrace(r, m, x)
             /\ Entered(r, m, id, pos_key(p), from) \/ Entered(r, m, id, pos_key(p), None)
             /\ RegionKeys(r) \subseteq RegionKeys(m) \cup {pos_key(p)}
<1> DEFINE key   == pos_key(p)
           index == key_index(m, key)
           r     == add_entity(m, id, p, from)
<1>1. key \in Key
  BY PosKeyType
<1>2. ASSUME NEW t \in Maps, NEW n \in DOMAIN t, t[n].key = key,
             NEW g \in Region, NEW f \in Key \cup {None}, r = [t EXCEPT ![n] = g],
             g.key = key, g.bitset = t[n].bitset \cup {id},
             g.entered = t[n].entered \cup {[id |-> id, key |-> f]}, g.left = t[n].left
      PROVE  /\ \A x : x # id => SameTrace(r, t, x)
             /\ Entered(r, t, id, key, f)
             /\ RegionKeys(r) = RegionKeys(t)
  <2> HIDE DEF r, key
  <2>1. /\ r \in Maps /\ DOMAIN r = DOMAIN t
        /\ r[n] = g /\ \A i \in DOMAIN t \ {n} : r[i] = t[i]
    BY <1>2, ReplaceIs
  <2>4. r[n].key = t[n].key /\ r[n].left = t[n].left
    BY <1>2, <2>1
  <2>5. r[n].bitset = t[n].bitset \cup {id} /\ r[n].entered = t[n].entered \cup {[id |-> id, key |-> f]}
    BY <1>2, <2>1
  <2>6. /\ \A x : x # id => SameTrace(r, t, x)
        /\ RegionKeys(r) = RegionKeys(t)
    <3>1. AlikeBut(r[n], t[n], id)
      BY <2>4, <2>5 DEF AlikeBut
    <3> QED BY <2>1, <3>1, ReplaceTraces
  <2>7. Homes(r, id) = Homes(t, id) \cup {key}
    <3>1. \A i \in DOMAIN t : i # n => r[i].key = t[i].key /\ r[i].bitset = t[i].bitset
      BY <2>1
    <3>2. Homes(r, id) = Homes(t, id) \cup {t[n].key}
      BY ONLY <2>1, <2>4, <2>5, <3>1, HomesAfter, t \in Maps, n \in DOMAIN t
    <3> QED BY <1>2, <3>2
  <2>8. Ins(r, id) = Ins(t, id) \cup {<<key, f>>}
    <3>1. \A i \in DOMAIN t : i # n => r[i].key = t[i].key /\ r[i].entered = t[i].entered
      BY <2>1
    <3>2. Ins(r, id) = Ins(t, id) \cup {<<t[n].key, f>>}
      BY ONLY <2>1, <2>4, <2>5, <3>1, InsAfter, t \in Maps, n \in DOMAIN t, f \in Key \cup {None}
    <3> QED BY <1>2, <3>2
  <2>9. Outs(r, id) = Outs(t, id)
    <3>1. \A i \in DOMAIN t : r[i].key = t[i].key /\ r[i].left = t[i].left
      BY <1>2, <2>1
    <3> QED BY <2>1, <3>1 DEF Outs
  <2> QED BY <2>6, <2>7, <2>8, <2>9 DEF Entered
<1>3. CASE index # 0
  <2> DEFINE g == [m[index] EXCEPT !.bitset = @ \cup {id},
                                   !.entered = @ \cup {[id |-> id, key |-> from]}]
  <2>1. r = [m EXCEPT ![index].bitset = @ \cup {id},
                      ![index].entered = @ \cup {[id |-> id, key |-> from]}]
    BY <1>3 DEF add_entity
  <2>2. index \in DOMAIN m /\ m[index].key = key
    BY <1>3, KeyIndexIs
  <2> HIDE DEF index, r, key
  <2>3. r = [m EXCEPT ![index] = g]
    BY <2>1, <2>2
  <2>4. m[index] \in Region /\ [id |-> id, key |-> from] \in Happening
    BY <2>2, RegionType DEF Happening
  <2>5. /\ g \in Region /\ g.key = m[index].key /\ g.left = m[index].left
        /\ g.bitset = m[index].bitset \cup {id}
        /\ g.entered = m[index].entered \cup {[id |-> id, key |-> from]}
    BY <2>4 DEF Region
  <2> HIDE DEF g
  <2>6. /\ \A x : x # id => SameTrace(r, m, x)
        /\ Entered(r, m, id, key, from) /\ RegionKeys(r) = RegionKeys(m)
    BY <1>2, <2>2, <2>3, <2>5
  <2> QED BY <2>6 DEF r, key
<1>4. CASE index = 0
  <2> DEFINE t == insert(m, key)
             n == Len(m) + 1
             g == [t[n] EXCEPT !.bitset = {id},
                               !.entered = {[id |-> id, key |-> None]}]
  <2>1. r = [t EXCEPT ![n].bitset = {id},
                      ![n].entered = {[id |-> id, key |-> None]}]
    BY <1>4 DEF add_entity
  <2>2. t \in Maps /\ n \in DOMAIN t /\ t[n].key = key
    <3>1. t \in Maps /\ DOMAIN t = 1..n /\ t[n].key = key
      BY SMTT(60), <1>1, InsertIs
    <3>2. n \in Nat \ {0}
      BY DEF Maps
    <3> HIDE DEF t, n, key
    <3> QED BY <3>1, <3>2
  <2>3. /\ \A x : SameTrace(t, m, x)
        /\ removable(t[n]) /\ RegionKeys(t) = RegionKeys(m) \cup {key}
    BY <1>1, InsertTraces
  <2> HIDE DEF t, r, n, index, key
  <2>4. r = [t EXCEPT ![n] = g]
    BY <2>1, <2>2
  <2>5. t[n] \in Region /\ [id |-> id, key |-> None] \in Happening
    BY <2>2, RegionType DEF Happening
  <2>6. /\ g \in Region /\ g.key = key /\ g.left = t[n].left
        /\ g.bitset = t[n].bitset \cup {id}
        /\ g.entered = t[n].entered \cup {[id |-> id, key |-> None]}
    BY <2>2, <2>3, <2>5 DEF Region, removable
  <2> HIDE DEF g
  <2>7. None \in Key \cup {None}
    OBVIOUS
  <2>8. /\ \A x : x # id => SameTrace(r, t, x)
        /\ Entered(r, t, id, key, None) /\ RegionKeys(r) = RegionKeys(t)
    BY <1>2, <2>2, <2>4, <2>6, <2>7
  <2>9. \A x : x # id => SameTrace(r, m, x)
    BY <2>3, <2>8 DEF SameTrace
  <2>10. Entered(r, m, id, key, None)
    BY <2>3, <2>8 DEF SameTrace, Entered
  <2> QED BY <2>3, <2>8, <2>9, <2>10 DEF r, key
<1> QED BY <1>3, <1>4

LEMMA RemoveEntityTraces ==
  ASSUME NEW m, Sound(m), NEW index \in DOMAIN m, NEW id \in m[index].bitset,
         NEW to \in Key \cup {None}
  PROVE  LET r == RemoveEntity(m, index, id, to)
         IN  /\ \A x : x # id => SameTrace(r, m, x)
             /\ Homes(m, id) = {m[index].key} /\ Homes(r, id) = {}
             /\ Ins(r, id) = Ins(m, id)
             /\ Outs(r, id) = Outs(m, id) \cup {<<m[index].key, to>>}
             /\ RegionKeys(r) = RegionKeys(m)
<1> DEFINE r == RemoveEntity(m, index, id, to)
           g == [m[index] EXCEPT !.bitset = @ \ {id},
                                 !.left = @ \cup {[id |-> id, key |-> to]}]
<1>1. m \in Maps /\ Apart(m)
  BY DEF Sound
<1>2. r = [m EXCEPT ![index] = g]
  BY DEF RemoveEntity
<1>3. m[index] \in Region /\ m[index].key \in Key
  BY <1>1, RegionType DEF Region
<1>4. [id |-> id, key |-> to] \in Happening
  BY <1>3 DEF Region, Happening
<1>5. /\ g \in Region /\ g.key = m[index].key /\ g.entered = m[index].entered
      /\ g.bitset = m[index].bitset \ {id}
      /\ g.left = m[index].left \cup {[id |-> id, key |-> to]}
  BY <1>3, <1>4 DEF Region
<1> HIDE DEF g, r
<1>6. /\ r \in Maps /\ DOMAIN r = DOMAIN m
      /\ r[index] = g /\ \A i \in DOMAIN m \ {index} : r[i] = m[i]
  BY <1>1, <1>2, <1>5, ReplaceIs
<1>7. /\ \A x : x # id => SameTrace(r, m, x)
      /\ RegionKeys(r) = RegionKeys(m)
  <2>1. AlikeBut(r[index], m[index], id)
    BY <1>5, <1>6 DEF AlikeBut
  <2> QED BY <1>6, <2>1, ReplaceTraces
<1>8. \A i \in DOMAIN m : id \in m[i].bitset => i = index
  BY <1>1 DEF Apart
<1>9. Homes(m, id) = {m[index].key}
  <2>1. \A k \in Homes(m, id) : k = m[index].key
    BY <1>8 DEF Homes
  <2>2. m[index].key \in Homes(m, id)
    BY <1>3 DEF Homes
  <2> QED BY <2>1, <2>2
<1>10. Homes(r, id) = {}
  <2>1. \A i \in DOMAIN r : id \notin r[i].bitset
    BY <1>5, <1>6, <1>8
  <2> QED BY <2>1 DEF Homes
<1>11. Ins(r, id) = Ins(m, id)
  <2>1. \A i \in DOMAIN m : r[i].key = m[i].key /\ r[i].entered = m[i].entered
    BY <1>5, <1>6
  <2> QED BY <1>6, <2>1 DEF Ins
<1>12. Outs(r, id) = Outs(m, id) \cup {<<m[index].key, to>>}
  <2>1. \A i \in DOMAIN m : i # index => r[i].key = m[i].key /\ r[i].left = m[i].left
    BY <1>6
  <2>2. r[index].key = m[index].key
        /\ r[index].left = m[index].left \cup {[id |-> id, key |-> to]}
    BY <1>5, <1>6
  <2> QED BY ONLY <1>1, <1>6, <2>1, <2>2, OutsAfter, index \in DOMAIN m, to \in Key \cup {None}
<1> QED BY <1>7, <1>9, <1>10, <1>11, <1>12 DEF r

\* The entity went from one region to another, and each has an event of it.
Moved(r, m, id, key, to) ==
  /\ Homes(m, id) = {key} /\ Homes(r, id) = {to}
  /\ Outs(r, id) = Outs(m, id) \cup {<<key, to>>}
  /\ \E from \in {key, None} : Ins(r, id) = Ins(m, id) \cup {<<to, from>>}

LEMMA SwitchTraces ==
  ASSUME NEW m, Sound(m), NEW v, v[1] \in DOMAIN m, v[2] \in m[v[1]].bitset,
         NEW p \in Nat \X Nat
  PROVE  LET r == Switch(m, v, p)
         IN  /\ \A x : x # v[2] => SameTrace(r, m, x)
             /\ Moved(r, m, v[2], m[v[1]].key, pos_key(p))
             /\ RegionKeys(r) \subseteq RegionKeys(m) \cup {pos_key(p)}
<1> DEFINE index == v[1]
           id == v[2]
           from == m[index].key
           to == pos_key(p)
           t == RemoveEntity(m, index, id, to)
           r == Switch(m, v, p)
<1>1. r = add_entity(t, id, p, from)
  BY DEF Switch
<1>2. m \in Maps /\ m[index] \in Region /\ id \in m[index].bitset /\ index \in DOMAIN m
  BY RegionType DEF Sound
<1>3. id \in Entity /\ from \in Key \cup {None} /\ to \in Key \cup {None}
  BY <1>2, PosKeyType DEF Region
<1> HIDE DEF index, id, to, r
<1>4. /\ \A x : x # id => SameTrace(t, m, x)
      /\ Homes(m, id) = {m[index].key} /\ Homes(t, id) = {}
      /\ Ins(t, id) = Ins(m, id)
      /\ Outs(t, id) = Outs(m, id) \cup {<<m[index].key, to>>}
      /\ RegionKeys(t) = RegionKeys(m)
  BY <1>2, <1>3, RemoveEntityTraces
<1>5. t \in Maps
  BY <1>2, <1>3, RemoveEntityKeeps DEF Sound
<1> HIDE DEF t, from
<1>6. /\ \A x : x # id => SameTrace(r, t, x)
      /\ Entered(r, t, id, to, from) \/ Entered(r, t, id, to, None)
      /\ RegionKeys(r) \subseteq RegionKeys(t) \cup {to}
  BY <1>1, <1>3, <1>5, AddTraces DEF to
<1>7. \A x : x # id => SameTrace(r, m, x)
  BY <1>4, <1>6 DEF SameTrace
<1>8. Moved(r, m, id, from, to)
  BY <1>4, <1>6 DEF Moved, Entered, from
<1> QED BY <1>4, <1>6, <1>7, <1>8 DEF r, id, to, from, index

\* The entity has no position any more.
Gone(r, m, id) ==
  /\ Homes(r, id) = {}
  /\ Ins(r, id) = Ins(m, id)
  /\ Outs(r, id) = Outs(m, id) \cup {<<k, None>> : k \in Homes(m, id)}

LEMMA DropTraces ==
  ASSUME NEW m \in Maps, NEW where
  PROVE  LET r == DropAll(m, where)
         IN  /\ \A x : where[x] # None => SameTrace(r, m, x)
             /\ \A x : where[x] = None => Gone(r, m, x)
             /\ RegionKeys(r) = RegionKeys(m)
<1> DEFINE r == DropAll(m, where)
           gone(i) == Lost(m[i], where)
           notes(i) == {[id |-> id, key |-> None] : id \in gone(i)}
           g(i) == [m[i] EXCEPT !.bitset = @ \ gone(i), !.left = @ \cup notes(i)]
           note(x, k) == [id |-> x, key |-> k]
<1>1. r = [i \in DOMAIN m |-> g(i)]
  BY SMTT(60) DEF DropAll
<1>2. \A i : gone(i) = {id \in m[i].bitset : where[id] = None}
  BY DEF Lost
<1>3. ASSUME NEW i, NEW x, NEW k
      PROVE  note(x, k) \in notes(i) <=> x \in gone(i) /\ k = None
  <2>1. ASSUME NEW y, note(x, k) = note(y, None) PROVE x = y /\ k = None
    <3>1. note(x, k).id = x /\ note(x, k).key = k /\ note(y, None).id = y /\ note(y, None).key = None
      OBVIOUS
    <3> QED BY <2>1, <3>1
  <2>2. notes(i) = {note(id, None) : id \in gone(i)}
    OBVIOUS
  <2> HIDE DEF note, notes, gone
  <2> QED BY <2>1, <2>2
<1> HIDE DEF notes, gone, r
<1>4. ASSUME NEW i \in DOMAIN m
      PROVE  /\ r[i].key = m[i].key /\ r[i].entered = m[i].entered
             /\ r[i].bitset = m[i].bitset \ gone(i)
             /\ r[i].left = m[i].left \cup notes(i)
  <2>1. m[i] \in Region /\ r[i] = g(i)
    BY <1>1, RegionType
  <2> QED BY <2>1 DEF Region
<1>5. DOMAIN r = DOMAIN m
  BY <1>1
<1> HIDE DEF g
<1>6. ASSUME NEW x PROVE Ins(r, x) = Ins(m, x)
  BY <1>4, <1>5 DEF Ins
<1>7. \A x : Outs(m, x) = {e \in Key \X (Key \cup {None}) :
                             \E i \in DOMAIN m : m[i].key = e[1] /\ note(x, e[2]) \in m[i].left}
  BY DEF Outs
<1>8. \A x : Outs(r, x) = {e \in Key \X (Key \cup {None}) :
                             \E i \in DOMAIN m : r[i].key = e[1] /\ note(x, e[2]) \in r[i].left}
  BY <1>5 DEF Outs
<1> HIDE DEF note
<1>9. ASSUME NEW x, where[x] # None PROVE SameTrace(r, m, x)
  <2>1. \A i \in DOMAIN m : /\ x \in r[i].bitset <=> x \in m[i].bitset
                            /\ \A k : note(x, k) \in r[i].left <=> note(x, k) \in m[i].left
    BY <1>2, <1>3, <1>4, <1>9
  <2>2. Homes(r, x) = Homes(m, x)
    BY <1>4, <1>5, <2>1 DEF Homes
  <2>3. \A e : (\E i \in DOMAIN m : r[i].key = e[1] /\ note(x, e[2]) \in r[i].left)
           <=> (\E i \in DOMAIN m : m[i].key = e[1] /\ note(x, e[2]) \in m[i].left)
    BY <1>4, <2>1
  <2>4. Outs(r, x) = Outs(m, x)
    <3>1. \A e : e \in Outs(r, x) <=> e \in Outs(m, x)
      BY <1>7, <1>8, <2>3
    <3>2. Outs(r, x) \subseteq Outs(m, x) /\ Outs(m, x) \subseteq Outs(r, x)
      BY <3>1
    <3> QED BY <3>2
  <2> QED BY <1>6, <2>2, <2>4 DEF SameTrace
<1>10. ASSUME NEW x, where[x] = None PROVE Gone(r, m, x)
  <2>1. \A i \in DOMAIN m : x \in gone(i) <=> x \in m[i].bitset
    BY <1>2, <1>10
  <2>2. Homes(r, x) = {}
    BY <1>4, <1>5, <2>1 DEF Homes
  <2>3. \A i \in DOMAIN m : \A k : note(x, k) \in r[i].left
           <=> note(x, k) \in m[i].left \/ (x \in m[i].bitset /\ k = None)
    BY <1>3, <1>4, <2>1
  <2>4. ASSUME NEW e \in Outs(r, x)
        PROVE  e \in Outs(m, x) \cup {<<k, None>> : k \in Homes(m, x)}
    <3>1. e \in Key \X (Key \cup {None}) /\ e = <<e[1], e[2]>> /\ e[1] \in Key
      BY <1>8
    <3>2. PICK i \in DOMAIN m : r[i].key = e[1] /\ note(x, e[2]) \in r[i].left
      BY <1>8
    <3>3. CASE note(x, e[2]) \in m[i].left
      <4>1. m[i].key = e[1]
        BY <1>4, <3>2
      <4> QED BY <1>7, <3>1, <3>3, <4>1
    <3>4. CASE x \in m[i].bitset /\ e[2] = None
      <4>1. m[i].key = e[1]
        BY <1>4, <3>2
      <4>2. e[1] \in Homes(m, x)
        BY <3>1, <3>4, <4>1 DEF Homes
      <4> QED BY <3>1, <3>4, <4>2
    <3> QED BY <2>3, <3>2, <3>3, <3>4
  <2>5. ASSUME NEW e \in Outs(m, x) PROVE e \in Outs(r, x)
    <3>1. PICK i \in DOMAIN m : m[i].key = e[1] /\ note(x, e[2]) \in m[i].left
      BY <1>7
    <3>2. r[i].key = e[1] /\ note(x, e[2]) \in r[i].left
      BY <1>4, <2>3, <3>1
    <3>3. e \in Key \X (Key \cup {None})
      BY <1>7
    <3> QED BY <1>8, <3>2, <3>3
  <2>6. ASSUME NEW k \in Homes(m, x) PROVE <<k, None>> \in Outs(r, x)
    <3> DEFINE e == <<k, None>>
    <3>1. PICK i \in DOMAIN m : m[i].key = k /\ x \in m[i].bitset
      BY DEF Homes
    <3>2. e \in Key \X (Key \cup {None}) /\ e[1] = k /\ e[2] = None
      BY DEF Homes
    <3> HIDE DEF e
    <3>3. r[i].key = e[1] /\ note(x, e[2]) \in r[i].left
      BY <1>4, <2>3, <3>1, <3>2
    <3>4. e \in Outs(r, x)
      BY <1>8, <3>2, <3>3
    <3> QED BY <3>4 DEF e
  <2>7. Outs(r, x) = Outs(m, x) \cup {<<k, None>> : k \in Homes(m, x)}
    BY <2>4, <2>5, <2>6
  <2> QED BY <1>6, <2>2, <2>7 DEF Gone
<1>11. RegionKeys(r) = RegionKeys(m)
  <2>1. \A i \in DOMAIN m : r[i].key = m[i].key
    BY <1>4
  <2> QED BY ONLY <1>5, <2>1 DEF RegionKeys
<1> QED BY <1>9, <1>10, <1>11 DEF r

LEMMA ClearTraces ==
  ASSUME NEW m \in Maps
  PROVE  LET r == ClearEvents(m)
         IN  /\ \A x : Homes(r, x) = Homes(m, x) /\ Ins(r, x) = {} /\ Outs(r, x) = {}
             /\ RegionKeys(r) = RegionKeys(m)
<1> DEFINE r == ClearEvents(m)
<1>1. /\ DOMAIN r = DOMAIN m
      /\ \A i \in DOMAIN m : r[i] = [m[i] EXCEPT !.entered = {}, !.left = {}]
  BY DEF ClearEvents
<1> HIDE DEF r
<1>2. ASSUME NEW i \in DOMAIN m
      PROVE  /\ r[i].key = m[i].key /\ r[i].bitset = m[i].bitset
             /\ r[i].entered = {} /\ r[i].left = {}
  <2>1. m[i] \in Region
    BY RegionType
  <2>2. r[i] = [m[i] EXCEPT !.entered = {}, !.left = {}]
    BY <1>1
  <2> QED BY ONLY <2>1, <2>2 DEF Region
<1>3. ASSUME NEW x PROVE Homes(r, x) = Homes(m, x) /\ Ins(r, x) = {} /\ Outs(r, x) = {}
  <2>1. Homes(r, x) = Homes(m, x)
    BY <1>1, <1>2 DEF Homes
  <2>2. Ins(r, x) = {}
    BY <1>1, <1>2 DEF Ins
  <2>3. Outs(r, x) = {}
    BY <1>1, <1>2 DEF Outs
  <2> QED BY <2>1, <2>2, <2>3
<1>4. RegionKeys(r) = RegionKeys(m)
  <2>1. \A i \in DOMAIN m : r[i].key = m[i].key
    BY <1>2
  <2> QED BY ONLY <1>1, <2>1 DEF RegionKeys
<1> QED BY <1>3, <1>4 DEF r

LEMMA PruneTraces ==
  ASSUME NEW m, Sound(m), NEW i \in DOMAIN m
  PROVE  LET r == Prune(m, m[i].key)
         IN  /\ \A x : SameTrace(r, m, x)
             /\ RegionKeys(r) \subseteq RegionKeys(m)
<1>1. m \in Maps /\ Distinct(m) /\ Linked(m)
  BY DEF Sound
<1>2. key_index(m, m[i].key) = i
  BY <1>1, KeyIndexUnique
<1>3. Prune(m, m[i].key) = IF removable(m[i]) THEN remove_index(m, i) ELSE m
  BY <1>2 DEF Prune
<1>4. CASE removable(m[i])
  BY <1>1, <1>3, <1>4, RemoveTraces
<1>5. CASE ~ removable(m[i])
  BY <1>3, <1>5 DEF SameTrace
<1> QED BY <1>4, <1>5

\* r is m after entities that were nowhere were added at their positions.
AddedAll(r, m, ids, where) ==
  /\ \A x : x \notin ids => SameTrace(r, m, x)
  /\ \A x \in ids : Entered(r, m, x, pos_key(where[x]), None)
  /\ RegionKeys(r) \subseteq RegionKeys(m) \cup {pos_key(where[x]) : x \in ids}

LEMMA AddedStep ==
  ASSUME NEW m, NEW T, NEW id \in T, NEW where, NEW r, AddedAll(r, m, T \ {id}, where),
         NEW q, \A x : x # id => SameTrace(q, r, x),
         Entered(q, r, id, pos_key(where[id]), None),
         RegionKeys(q) \subseteq RegionKeys(r) \cup {pos_key(where[id])}
  PROVE  AddedAll(q, m, T, where)
<1>1. ASSUME NEW x, x \notin T PROVE SameTrace(q, m, x)
  <2>1. SameTrace(q, r, x) /\ SameTrace(r, m, x)
    BY <1>1 DEF AddedAll
  <2> QED BY <2>1 DEF SameTrace
<1>2. ASSUME NEW x \in T PROVE Entered(q, m, x, pos_key(where[x]), None)
  <2>1. CASE x = id
    <3>1. SameTrace(r, m, id)
      BY DEF AddedAll
    <3> QED BY <2>1, <3>1 DEF SameTrace, Entered
  <2>2. CASE x # id
    <3>1. SameTrace(q, r, x) /\ Entered(r, m, x, pos_key(where[x]), None)
      BY <2>2 DEF AddedAll
    <3> QED BY <3>1 DEF SameTrace, Entered
  <2> QED BY <2>1, <2>2
<1>3. RegionKeys(q) \subseteq RegionKeys(m) \cup {pos_key(where[x]) : x \in T}
  BY DEF AddedAll
<1> QED BY <1>1, <1>2, <1>3 DEF AddedAll

\* r is m after the entities of some slots went to the regions of their positions.
SwitchedAll(r, m, slots, where) ==
  /\ \A x : (\A v \in slots : v[2] # x) => SameTrace(r, m, x)
  /\ \A v \in slots : Moved(r, m, v[2], m[v[1]].key, pos_key(where[v[2]]))
  /\ RegionKeys(r) \subseteq RegionKeys(m) \cup {pos_key(where[v[2]]) : v \in slots}

LEMMA SwitchedStep ==
  ASSUME NEW m, NEW T, NEW v \in T, NEW where, NEW r, SwitchedAll(r, m, T \ {v}, where),
         \A w \in T \ {v} : w[2] # v[2],
         NEW q, \A x : x # v[2] => SameTrace(q, r, x),
         Moved(q, r, v[2], m[v[1]].key, pos_key(where[v[2]])),
         RegionKeys(q) \subseteq RegionKeys(r) \cup {pos_key(where[v[2]])}
  PROVE  SwitchedAll(q, m, T, where)
<1>1. ASSUME NEW x, \A w \in T : w[2] # x PROVE SameTrace(q, m, x)
  <2>1. SameTrace(q, r, x) /\ SameTrace(r, m, x)
    BY <1>1 DEF SwitchedAll
  <2> QED BY <2>1 DEF SameTrace
<1>2. ASSUME NEW w \in T PROVE Moved(q, m, w[2], m[w[1]].key, pos_key(where[w[2]]))
  <2>1. CASE w = v
    <3>1. SameTrace(r, m, v[2])
      BY DEF SwitchedAll
    <3> QED BY <2>1, <3>1 DEF SameTrace, Moved
  <2>2. CASE w # v
    <3>1. SameTrace(q, r, w[2]) /\ Moved(r, m, w[2], m[w[1]].key, pos_key(where[w[2]]))
      BY <2>2 DEF SwitchedAll
    <3> QED BY <3>1 DEF SameTrace, Moved
  <2> QED BY <2>1, <2>2
<1>3. RegionKeys(q) \subseteq RegionKeys(m) \cup {pos_key(where[w[2]]) : w \in T}
  BY DEF SwitchedAll
<1> QED BY <1>1, <1>2, <1>3 DEF SwitchedAll

-----------------------------------------------------------------------------
(* The loops of a tick *)

LEMMA TenantsType ==
  ASSUME NEW m, Sound(m)
  PROVE  Tenants(m) \subseteq Entity
BY RegionType DEF Sound, Tenants, Region

LEMMA AddAllKeeps ==
  ASSUME NEW m, Sound(m), NEW ids \in SUBSET Entity, ids \cap Tenants(m) = {},
         NEW where, \A id \in ids : where[id] \in Nat \X Nat
  PROVE  LET r == AddAll(m, ids, where)
         IN  /\ Sound(r) /\ Tenants(r) = Tenants(m) \cup ids
             /\ AddedAll(r, m, ids, where)
<1> DEFINE Kept_(r, T) == /\ Sound(r) /\ Tenants(r) = Tenants(m) \cup T
                          /\ AddedAll(r, m, T, where)
           good == [T \in SUBSET ids |-> {r \in Maps : Kept_(r, T)}]
           V    == UNION {good[T] : T \in SUBSET ids}
           ch   == [T \in SUBSET ids |-> Max(T)]
           step == [id \in ids |-> [r \in V |-> add_entity(r, id, where[id], None)]]
           Is(it) == it = [T \in SUBSET ids |->
                       IF T = {} THEN m
                       ELSE add_entity(it[T \ {Max(T)}], Max(T), where[Max(T)], None)]
<1>1. IsFiniteSet(ids) /\ ids \subseteq Nat
  BY FS_Subset, RegionConstants
<1>2. ASSUME NEW T \in SUBSET ids, T # {} PROVE ch[T] = Max(T) /\ ch[T] \in T
  <2> HIDE DEF good, step, ch
  <2>1. IsFiniteSet(T)
    BY <1>1, FS_Subset
  <2>2. T \subseteq Int
    BY <1>1
  <2>3. Max(T) \in T
    BY <1>2, <2>1, <2>2, FiniteMax
  <2> QED BY <2>3 DEF ch
<1>3. m \in good[{}]
  <2>1. AddedAll(m, m, {}, where)
    BY DEF AddedAll, SameTrace
  <2>2. Kept_(m, {}) /\ m \in Maps
    BY <2>1 DEF Sound
  <2> HIDE DEF Kept_
  <2> QED BY <2>2
<1>4. ASSUME NEW id \in ids, NEW r \in V PROVE step[id][r] = add_entity(r, id, where[id], None)
  OBVIOUS
<1>5. ASSUME NEW T \in SUBSET ids, T # {}, NEW r \in good[T \ {ch[T]}]
      PROVE  step[ch[T]][r] \in good[T]
  <2> DEFINE id == ch[T]
             q == add_entity(r, id, where[id], None)
  <2>1. id \in T /\ id \in ids /\ id \in Entity /\ T \ {id} \in SUBSET ids
    BY <1>2, <1>5
  <2>2. r \in V
    BY <1>5, <2>1
  <2>3. Kept_(r, T \ {id})
    <3> HIDE DEF Kept_
    <3> QED BY <1>5, <2>1
  <2> HIDE DEF id, V, step
  <2>4. id \notin Tenants(r)
    BY <2>1, <2>3
  <2>5. Sound(q) /\ Tenants(q) = Tenants(r) \cup {id}
    BY <2>1, <2>3, <2>4, AddKeeps
  <2>6. step[id][r] = q
    BY <1>4, <2>1, <2>2
  <2>7. AddedAll(q, m, T, where)
    <3>1. r \in Maps /\ where[id] \in Nat \X Nat
      BY <2>1, <2>3 DEF Sound
    <3>2. None \in Key \cup {None}
      OBVIOUS
    <3>3. /\ \A x : x # id => SameTrace(q, r, x)
          /\ Entered(q, r, id, pos_key(where[id]), None)
          /\ RegionKeys(q) \subseteq RegionKeys(r) \cup {pos_key(where[id])}
      BY <2>1, <3>1, <3>2, AddTraces
    <3> HIDE DEF q
    <3> QED BY <2>1, <2>3, <3>3, AddedStep
  <2> HIDE DEF q
  <2>8. Kept_(q, T) /\ q \in Maps
    BY <2>1, <2>3, <2>5, <2>7 DEF Sound
  <2>9. q \in good[T]
    <3> HIDE DEF Kept_
    <3> QED BY <2>8
  <2> QED BY <2>6, <2>9 DEF id
<1>6. PICK g : /\ Recursive(g, ids, V, m, ch, step)
               /\ \A T \in SUBSET ids : g[T] \in good[T]
  <2> HIDE DEF good, ch, step
  <2>1. \E g : /\ Recursive(g, ids, UNION {good[T] : T \in SUBSET ids}, m, ch, step)
               /\ \A T \in SUBSET ids : g[T] \in good[T]
    BY <1>1, <1>2, <1>3, <1>5, FoldKeeps
  <2> QED BY <2>1
<1>7. \A T \in SUBSET ids : T # {} =>
         g[T] = add_entity(g[T \ {Max(T)}], Max(T), where[Max(T)], None)
  <2> SUFFICES ASSUME NEW T \in SUBSET ids, T # {}
               PROVE  g[T] = add_entity(g[T \ {Max(T)}], Max(T), where[Max(T)], None)
    OBVIOUS
  <2>1. ch[T] = Max(T) /\ Max(T) \in ids /\ T \ {Max(T)} \in SUBSET ids
    BY <1>2
  <2>2. g \in [SUBSET ids -> V]
    BY <1>6 DEF Recursive
  <2>3. g[T \ {Max(T)}] \in V
    BY <2>1, <2>2
  <2>4. g[T] = step[Max(T)][g[T \ {Max(T)}]]
    BY <1>6, <2>1 DEF Recursive
  <2> HIDE DEF step, V
  <2> QED BY <1>4, <2>1, <2>3, <2>4
<1>8. Is(g)
  <2>1. g \in [SUBSET ids -> V] /\ g[{}] = m
    BY <1>6 DEF Recursive
  <2> HIDE DEF V
  <2> QED BY <1>7, <2>1
<1>9. PICK it : Is(it) /\ AddAll(m, ids, where) = it[ids]
  <2>1. Is(CHOOSE it : Is(it))
    <3> HIDE DEF Is
    <3> QED BY <1>8
  <2>2. AddAll(m, ids, where) = (CHOOSE it : Is(it))[ids]
    BY DEF AddAll, MapThenFoldSet
  <2> HIDE DEF Is
  <2> QED BY <2>1, <2>2
<1>10. it[ids] = g[ids]
  <2>1. it[{}] = g[{}]
    BY <1>8, <1>9
  <2>2. ASSUME NEW T \in SUBSET ids, T # {}, it[T \ {ch[T]}] = g[T \ {ch[T]}]
        PROVE  it[T] = g[T]
    <3>1. it[T] = add_entity(it[T \ {Max(T)}], Max(T), where[Max(T)], None)
      BY <1>9, <2>2
    <3> HIDE DEF ch, Is
    <3> QED BY <1>2, <1>7, <2>2, <3>1
  <2>3. IsFiniteSet(ids) /\ \A T \in SUBSET ids : T # {} => ch[T] \in T
    BY <1>1, <1>2
  <2>4. Agree(it, g, ids, ch)
    BY <2>2 DEF Agree
  <2> HIDE DEF ch, Is
  <2> QED BY <2>1, <2>3, <2>4, FoldUnique
<1>11. Kept_(g[ids], ids)
  <2>1. g[ids] \in good[ids]
    BY <1>6
  <2> HIDE DEF Kept_
  <2> QED BY <2>1
<1> QED BY <1>9, <1>10, <1>11

LEMMA SlotsType ==
  ASSUME NEW m, Sound(m)
  PROVE  /\ IsFiniteSet(Slots(m))
         /\ \A v \in Slots(m) : /\ v = <<v[1], v[2]>> /\ v[1] \in Nat /\ v[2] \in Nat
                                /\ v[1] \in DOMAIN m /\ v[2] \in m[v[1]].bitset
<1>1. DOMAIN m = 1..Len(m) /\ Len(m) \in Nat
  BY DEF Sound, Maps
<1>2. \A i \in DOMAIN m : m[i].bitset \subseteq Entity
  BY RegionType DEF Sound, Region
<1>3. ASSUME NEW v \in Slots(m)
      PROVE  /\ v = <<v[1], v[2]>> /\ v[1] \in DOMAIN m /\ v[2] \in m[v[1]].bitset
             /\ v[1] \in Nat /\ v[2] \in Nat /\ v \in (1..Len(m)) \X Entity
  <2>1. PICK i \in DOMAIN m : v \in {<<i, id>> : id \in m[i].bitset}
    BY DEF Slots
  <2>2. PICK id \in m[i].bitset : v = <<i, id>>
    BY <2>1
  <2>3. v[1] = i /\ v[2] = id /\ id \in Entity /\ i \in 1..Len(m)
    BY <1>1, <1>2, <2>2
  <2>4. v \in (1..Len(m)) \X Entity
    BY <2>2, <2>3
  <2>5. v[1] \in Nat /\ v[2] \in Nat
    BY <1>1, <2>3, RegionConstants
  <2> QED BY <2>2, <2>3, <2>4, <2>5
<1>4. IsFiniteSet((1..Len(m)) \X Entity)
  <2>1. IsFiniteSet(1..Len(m)) /\ IsFiniteSet(Entity)
    BY <1>1, FS_Interval, RegionConstants
  <2> QED BY <2>1, FS_Product
<1>5. Slots(m) \subseteq (1..Len(m)) \X Entity
  BY <1>3
<1>6. IsFiniteSet(Slots(m))
  BY <1>4, <1>5, FS_Subset
<1> QED BY <1>3, <1>6

LEMMA FirstIs ==
  ASSUME NEW T, T # {}, \A v \in T : v = <<v[1], v[2]>> /\ v[1] \in Nat /\ v[2] \in Nat
  PROVE  First(T) \in T
<1> DEFINE Is == {v[1] : v \in T}
           i  == Min(Is)
           At_ == {w \in T : w[1] = i}
           Ids == {v[2] : v \in At_}
           id == Min(Ids)
<1>1. First(T) = <<i, id>>
  BY DEF First
<1>2. i \in Is
  <2>1. Is \subseteq Nat /\ Is # {}
    OBVIOUS
  <2> HIDE DEF Is
  <2> QED BY <2>1, MinExists
<1>3. At_ # {}
  BY <1>2
<1> HIDE DEF i
<1>4. Ids \subseteq Nat /\ Ids # {}
  BY <1>3
<1>5. id \in Ids
  <2> HIDE DEF Ids
  <2> QED BY <1>4, MinExists
<1> HIDE DEF id
<1>6. PICK w \in T : w[1] = i /\ w[2] = id
  BY <1>5
<1>7. w = <<i, id>>
  BY <1>6
<1> QED BY <1>1, <1>7

LEMMA SwitchAllKeeps ==
  ASSUME NEW m, Sound(m), NEW slots \in SUBSET Slots(m),
         NEW where, \A v \in slots : where[v[2]] \in Nat \X Nat
  PROVE  LET r == SwitchAll(m, slots, where)
         IN  /\ Sound(r) /\ Tenants(r) = Tenants(m) /\ DOMAIN m \subseteq DOMAIN r
             /\ \A i \in DOMAIN m : r[i].key = m[i].key
             /\ SwitchedAll(r, m, slots, where)
<1> DEFINE Kept_(r, T) ==
             /\ Sound(r) /\ Tenants(r) = Tenants(m) /\ DOMAIN m \subseteq DOMAIN r
             /\ \A i \in DOMAIN m : r[i].key = m[i].key
             /\ \A v \in slots \ T : v[2] \in r[v[1]].bitset
             /\ SwitchedAll(r, m, T, where)
           good == [T \in SUBSET slots |-> {r \in Maps : Kept_(r, T)}]
           V    == UNION {good[T] : T \in SUBSET slots}
           ch   == [T \in SUBSET slots |-> First(T)]
           step == [v \in slots |-> [r \in V |-> Switch(r, v, where[v[2]])]]
           Is(it) == it = [T \in SUBSET slots |->
                       IF T = {} THEN m
                       ELSE Switch(it[T \ {First(T)}], First(T), where[First(T)[2]])]
<1>1. /\ IsFiniteSet(slots)
      /\ \A v \in slots : /\ v = <<v[1], v[2]>> /\ v[1] \in Nat /\ v[2] \in Nat
                           /\ v[1] \in DOMAIN m /\ v[2] \in m[v[1]].bitset
  BY SlotsType, FS_Subset
<1>2. ASSUME NEW T \in SUBSET slots, T # {} PROVE ch[T] = First(T) /\ ch[T] \in T
  <2>1. First(T) \in T
    BY <1>1, <1>2, FirstIs
  <2> QED BY <2>1
<1>3. m \in good[{}]
  <2>none. SwitchedAll(m, m, {}, where)
    BY DEF SwitchedAll, SameTrace
  <2>1. Kept_(m, {})
    BY <1>1, <2>none
  <2>2. m \in Maps
    BY DEF Sound
  <2> HIDE DEF Kept_
  <2> QED BY <2>1, <2>2
<1>4. ASSUME NEW v \in slots, NEW r \in V PROVE step[v][r] = Switch(r, v, where[v[2]])
  OBVIOUS
<1>5. ASSUME NEW T \in SUBSET slots, T # {}, NEW r \in good[T \ {ch[T]}]
      PROVE  step[ch[T]][r] \in good[T]
  <2> DEFINE v == ch[T]
             p == where[v[2]]
             q == Switch(r, v, p)
  <2>1. v \in T /\ v \in slots /\ T \ {v} \in SUBSET slots
    BY <1>2, <1>5
  <2>2. r \in V
    BY <1>5, <2>1
  <2>3. Kept_(r, T \ {v})
    <3> HIDE DEF Kept_
    <3> QED BY <1>5, <2>1
  <2> HIDE DEF v, V, step
  <2>4. v[1] \in DOMAIN r /\ v[2] \in r[v[1]].bitset /\ p \in Nat \X Nat /\ Sound(r)
    BY <1>1, <2>1, <2>3
  <2> HIDE DEF p
  <2>5. /\ Sound(q) /\ Tenants(q) = Tenants(r) /\ DOMAIN r \subseteq DOMAIN q
        /\ \A i \in DOMAIN r : /\ q[i].key = r[i].key
                                /\ r[i].bitset \ {v[2]} \subseteq q[i].bitset
    BY <2>4, SwitchKeeps
  <2>traces. /\ \A x : x # v[2] => SameTrace(q, r, x)
         /\ Moved(q, r, v[2], m[v[1]].key, pos_key(p))
         /\ RegionKeys(q) \subseteq RegionKeys(r) \cup {pos_key(p)}
    <3>1. r[v[1]].key = m[v[1]].key
      BY <1>1, <2>1, <2>3
    <3>2. /\ \A x : x # v[2] => SameTrace(q, r, x)
          /\ Moved(q, r, v[2], r[v[1]].key, pos_key(p))
          /\ RegionKeys(q) \subseteq RegionKeys(r) \cup {pos_key(p)}
      BY <2>4, SwitchTraces
    <3> QED BY <3>1, <3>2
  <2> HIDE DEF q
  <2>6. ASSUME NEW w \in slots \ T PROVE w[2] \in q[w[1]].bitset
    <3>1. w \in slots \ (T \ {v}) /\ w # v
      BY <2>1
    <3>2. w[1] \in DOMAIN r /\ w[2] \in r[w[1]].bitset
      BY <1>1, <2>3, <3>1
    <3>3. w[2] # v[2]
      <4> SUFFICES ASSUME w[2] = v[2] PROVE FALSE
        OBVIOUS
      <4>1. w[1] # v[1]
        BY <1>1, <2>1, <3>1
      <4>2. r[w[1]].bitset \cap r[v[1]].bitset = {}
        BY <2>4, <3>2, <4>1 DEF Sound, Apart
      <4> QED BY <2>4, <3>2, <4>2
    <3> QED BY <2>5, <3>2, <3>3
  <2>others. \A w \in T \ {v} : w[2] # v[2]
    <3> SUFFICES ASSUME NEW w \in T \ {v}, w[2] = v[2] PROVE FALSE
      OBVIOUS
    <3>1. w \in slots /\ w[1] # v[1]
      BY <1>1, <2>1
    <3>2. m[w[1]].bitset \cap m[v[1]].bitset = {}
      BY <1>1, <2>1, <3>1 DEF Sound, Apart
    <3> QED BY <1>1, <2>1, <3>1, <3>2
  <2>all. SwitchedAll(q, m, T, where)
    <3>1. SwitchedAll(r, m, T \ {v}, where)
      BY <2>3
    <3>2. p = where[v[2]]
      BY DEF p
    <3>3. /\ Moved(q, r, v[2], m[v[1]].key, pos_key(where[v[2]]))
          /\ RegionKeys(q) \subseteq RegionKeys(r) \cup {pos_key(where[v[2]])}
      BY <2>traces, <3>2
    <3> QED BY ONLY <2>1, <2>traces, <2>others, <3>1, <3>3, SwitchedStep
  <2>7. Kept_(q, T) /\ q \in Maps
    BY <2>3, <2>5, <2>6, <2>all DEF Sound
  <2>8. q \in good[T]
    <3> HIDE DEF Kept_
    <3> QED BY <2>7
  <2>9. step[v][r] = q
    BY <1>4, <2>1, <2>2 DEF p, q
  <2> QED BY <2>8, <2>9 DEF v
<1>6. PICK g : /\ Recursive(g, slots, V, m, ch, step)
               /\ \A T \in SUBSET slots : g[T] \in good[T]
  <2> HIDE DEF good, ch, step
  <2>1. \E g : /\ Recursive(g, slots, UNION {good[T] : T \in SUBSET slots}, m, ch, step)
               /\ \A T \in SUBSET slots : g[T] \in good[T]
    BY ZenonT(60), <1>1, <1>2, <1>3, <1>5, FoldKeeps
  <2> QED BY <2>1
<1>7. \A T \in SUBSET slots : T # {} =>
         g[T] = Switch(g[T \ {First(T)}], First(T), where[First(T)[2]])
  <2> SUFFICES ASSUME NEW T \in SUBSET slots, T # {}
               PROVE  g[T] = Switch(g[T \ {First(T)}], First(T), where[First(T)[2]])
    OBVIOUS
  <2> DEFINE v == First(T)
  <2>1. ch[T] = v /\ v \in slots /\ T \ {v} \in SUBSET slots
    BY <1>2
  <2>2. g \in [SUBSET slots -> V]
    BY <1>6 DEF Recursive
  <2>3. g[T \ {v}] \in V
    BY <2>1, <2>2
  <2>4. g[T] = step[v][g[T \ {v}]]
    BY <1>6, <2>1 DEF Recursive
  <2> HIDE DEF step, V, v
  <2>5. g[T] = Switch(g[T \ {v}], v, where[v[2]])
    BY <1>4, <2>1, <2>3, <2>4
  <2> QED BY <2>5 DEF v
<1>8. Is(g)
  <2>1. g \in [SUBSET slots -> V] /\ g[{}] = m
    BY <1>6 DEF Recursive
  <2> HIDE DEF V
  <2> QED BY <1>7, <2>1
<1>9. PICK it : Is(it) /\ SwitchAll(m, slots, where) = it[slots]
  <2>1. Is(CHOOSE it : Is(it))
    <3> HIDE DEF Is
    <3> QED BY <1>8
  <2>2. SwitchAll(m, slots, where) = (CHOOSE it : Is(it))[slots]
    BY DEF SwitchAll, MapThenFoldSet
  <2> HIDE DEF Is
  <2> QED BY <2>1, <2>2
<1>10. it[slots] = g[slots]
  <2>1. it[{}] = g[{}]
    BY <1>8, <1>9
  <2>2. ASSUME NEW T \in SUBSET slots, T # {}, it[T \ {ch[T]}] = g[T \ {ch[T]}]
        PROVE  it[T] = g[T]
    <3>1. it[T] = Switch(it[T \ {First(T)}], First(T), where[First(T)[2]])
      BY <1>9, <2>2
    <3> HIDE DEF ch, Is
    <3> QED BY <1>2, <1>7, <2>2, <3>1
  <2>3. IsFiniteSet(slots) /\ \A T \in SUBSET slots : T # {} => ch[T] \in T
    BY <1>1, <1>2
  <2>4. Agree(it, g, slots, ch)
    BY <2>2 DEF Agree
  <2> HIDE DEF ch, Is
  <2> QED BY <2>1, <2>3, <2>4, FoldUnique
<1>11. Kept_(g[slots], slots)
  <2>1. g[slots] \in good[slots]
    BY <1>6
  <2> HIDE DEF Kept_
  <2> QED BY <2>1
<1> QED BY <1>9, <1>10, <1>11

LEMMA PruneAllKeeps ==
  ASSUME NEW m, Sound(m), NEW before, Sound(before), DOMAIN before \subseteq DOMAIN m,
         \A i \in DOMAIN before : m[i].key = before[i].key
  PROVE  LET r == PruneAll(m, before)
         IN  /\ Sound(r) /\ Tenants(r) = Tenants(m)
             /\ \A x : SameTrace(r, m, x)
             /\ RegionKeys(r) \subseteq RegionKeys(m)
<1> DEFINE S == {i \in DOMAIN before : removable(before[i])}
           Kept_(r, T) ==
             /\ Sound(r) /\ Tenants(r) = Tenants(m)
             /\ \A x : SameTrace(r, m, x)
             /\ RegionKeys(r) \subseteq RegionKeys(m)
             /\ \A i \in S \ T : \E k \in DOMAIN r : r[k].key = before[i].key
           good == [T \in SUBSET S |-> {r \in Maps : Kept_(r, T)}]
           V    == UNION {good[T] : T \in SUBSET S}
           ch   == [T \in SUBSET S |-> Max(T)]
           step == [i \in S |-> [r \in V |-> Prune(r, before[i].key)]]
           Is(it) == it = [T \in SUBSET S |->
                       IF T = {} THEN m ELSE Prune(it[T \ {Max(T)}], before[Max(T)].key)]
<1>1. IsFiniteSet(S) /\ S \subseteq Nat /\ S \subseteq DOMAIN before
  <2>1. DOMAIN before = 1..Len(before) /\ Len(before) \in Nat
    BY DEF Sound, Maps
  <2>2. IsFiniteSet(1..Len(before))
    BY <2>1, FS_Interval
  <2>3. S \subseteq 1..Len(before)
    BY <2>1
  <2> QED BY <2>1, <2>2, <2>3, FS_Subset
<1>2. ASSUME NEW T \in SUBSET S, T # {} PROVE ch[T] = Max(T) /\ ch[T] \in T
  <2> HIDE DEF S, good, step, ch
  <2>1. IsFiniteSet(T)
    BY <1>1, FS_Subset
  <2>2. T \subseteq Int
    BY <1>1
  <2>3. Max(T) \in T
    BY <1>2, <2>1, <2>2, FiniteMax
  <2> QED BY <2>3 DEF ch
<1>3. m \in good[{}]
  <2>1. Kept_(m, {})
    BY DEF SameTrace
  <2>2. m \in Maps
    BY DEF Sound
  <2> HIDE DEF Kept_, S
  <2> QED BY <2>1, <2>2
<1>4. ASSUME NEW i \in S, NEW r \in V PROVE step[i][r] = Prune(r, before[i].key)
  <2> HIDE DEF S, V
  <2> QED OBVIOUS
<1>5. ASSUME NEW T \in SUBSET S, T # {}, NEW r \in good[T \ {ch[T]}]
      PROVE  step[ch[T]][r] \in good[T]
  <2> DEFINE i == ch[T]
             q == Prune(r, before[i].key)
  <2>1. i \in T /\ i \in S /\ T \ {i} \in SUBSET S
    <3> HIDE DEF S, ch
    <3> QED BY <1>2, <1>5
  <2> HIDE DEF i, S
  <2>2. r \in V
    BY <1>5, <2>1 DEF i
  <2>3. Kept_(r, T \ {i})
    <3> HIDE DEF Kept_
    <3> QED BY <1>5, <2>1 DEF i
  <2> HIDE DEF V, step
  <2>4. PICK k \in DOMAIN r : r[k].key = before[i].key
    BY <2>1, <2>3
  <2>5. /\ Sound(q) /\ Tenants(q) = Tenants(r)
        /\ \A j \in DOMAIN r \ {k} : \E l \in DOMAIN q : q[l].key = r[j].key
    BY <2>3, <2>4, PruneKeeps
  <2>traces. /\ \A x : SameTrace(q, m, x)
         /\ RegionKeys(q) \subseteq RegionKeys(m)
    <3>1. (\A x : SameTrace(q, r, x)) /\ RegionKeys(q) \subseteq RegionKeys(r)
      BY <2>3, <2>4, PruneTraces
    <3>2. (\A x : SameTrace(r, m, x)) /\ RegionKeys(r) \subseteq RegionKeys(m)
      BY <2>3
    <3> HIDE DEF q
    <3> QED BY <3>1, <3>2 DEF SameTrace
  <2> HIDE DEF q
  <2>6. ASSUME NEW j \in S \ T PROVE \E l \in DOMAIN q : q[l].key = before[j].key
    <3>1. j # i /\ j \in S \ (T \ {i}) /\ j \in DOMAIN before /\ i \in DOMAIN before
      BY <1>1, <2>1
    <3>2. before[j].key # before[i].key
      BY <3>1 DEF Sound, Distinct
    <3>3. PICK n \in DOMAIN r : r[n].key = before[j].key
      BY <2>3, <3>1
    <3>4. n # k
      BY <2>4, <3>2, <3>3
    <3> QED BY <2>5, <3>3, <3>4
  <2>7. Kept_(q, T) /\ q \in Maps
    BY <2>3, <2>5, <2>traces, <2>6 DEF Sound
  <2>8. q \in good[T]
    <3> HIDE DEF Kept_
    <3> QED BY <2>7
  <2>9. step[i][r] = q
    BY <1>4, <2>1, <2>2 DEF q
  <2> QED BY <2>8, <2>9 DEF i
<1> HIDE DEF S
<1>6. PICK g : /\ Recursive(g, S, V, m, ch, step)
               /\ \A T \in SUBSET S : g[T] \in good[T]
  <2> HIDE DEF good, ch, step
  <2>1. \E g : /\ Recursive(g, S, UNION {good[T] : T \in SUBSET S}, m, ch, step)
               /\ \A T \in SUBSET S : g[T] \in good[T]
    <3>1. \A T \in SUBSET S : T # {} => ch[T] \in T
      BY <1>2
    <3>2. m \in good[{}]
      BY <1>3
    <3>3. \A T \in SUBSET S : T # {} =>
             \A v \in good[T \ {ch[T]}] : step[ch[T]][v] \in good[T]
      BY <1>5
    <3> QED BY ONLY <1>1, <3>1, <3>2, <3>3, FoldKeeps
  <2> QED BY <2>1
<1>7. \A T \in SUBSET S : T # {} =>
         g[T] = Prune(g[T \ {Max(T)}], before[Max(T)].key)
  <2> SUFFICES ASSUME NEW T \in SUBSET S, T # {}
               PROVE  g[T] = Prune(g[T \ {Max(T)}], before[Max(T)].key)
    OBVIOUS
  <2>1. ch[T] = Max(T) /\ Max(T) \in S /\ T \ {Max(T)} \in SUBSET S
    BY <1>2
  <2>2. g \in [SUBSET S -> V]
    BY <1>6 DEF Recursive
  <2>3. g[T \ {Max(T)}] \in V
    BY <2>1, <2>2
  <2>4. g[T] = step[Max(T)][g[T \ {Max(T)}]]
    BY <1>6, <2>1 DEF Recursive
  <2> HIDE DEF step, V
  <2> QED BY <1>4, <2>1, <2>3, <2>4
<1>8. Is(g)
  <2>1. g \in [SUBSET S -> V] /\ g[{}] = m
    BY <1>6 DEF Recursive
  <2> HIDE DEF V
  <2> QED BY <1>7, <2>1
<1>9. PICK it : Is(it) /\ PruneAll(m, before) = it[S]
  <2>1. Is(CHOOSE it : Is(it))
    <3> HIDE DEF Is
    <3> QED BY <1>8
  <2>2. PruneAll(m, before) = (CHOOSE it : Is(it))[S]
    BY DEF PruneAll, MapThenFoldSet, S
  <2> HIDE DEF Is
  <2> QED BY <2>1, <2>2
<1>10. it[S] = g[S]
  <2>1. it[{}] = g[{}]
    BY <1>8, <1>9
  <2>2. ASSUME NEW T \in SUBSET S, T # {}, it[T \ {ch[T]}] = g[T \ {ch[T]}]
        PROVE  it[T] = g[T]
    <3>1. it[T] = Prune(it[T \ {Max(T)}], before[Max(T)].key)
      BY <1>9, <2>2
    <3> HIDE DEF ch, Is
    <3> QED BY <1>2, <1>7, <2>2, <3>1
  <2>3. IsFiniteSet(S) /\ \A T \in SUBSET S : T # {} => ch[T] \in T
    BY <1>1, <1>2
  <2>4. Agree(it, g, S, ch)
    BY <2>2 DEF Agree
  <2> HIDE DEF ch, Is
  <2> QED BY <2>1, <2>3, <2>4, FoldUnique
<1>11. Kept_(g[S], S)
  <2>1. g[S] \in good[S]
    BY <1>6
  <2> HIDE DEF Kept_
  <2> QED BY <2>1
<1> QED BY <1>9, <1>10, <1>11

-----------------------------------------------------------------------------
(* A tick *)

\* What the regions after a tick, r, tell of an entity, against those before it:
\* it is in a region if and only if it has a position, one it has not strayed
\* from; it is where it says it came to; a region that has lost it says where it
\* went, and no other does; and a region that has gained it says where it was,
\* or that it was nowhere.
Traced(r, m, where, id) ==
  LET now == Homes(r, id)
      old == Homes(m, id)
  IN  /\ now # {} => where[id] # None
      /\ where[id] # None => \E k \in now : ~ Strayed(k, where[id])
      /\ \A e \in Ins(r, id) : e[1] \in now
      /\ \A k \in old : \/ k \in now
                         \/ <<k, None>> \in Outs(r, id)
                         \/ \E to \in now : <<k, to>> \in Outs(r, id)
      /\ \A e \in Outs(r, id) : e[1] \in old /\ \A k \in now : e[2] = k
      /\ \A k \in now : \/ k \in old
                         \/ <<k, None>> \in Ins(r, id)
                         \/ \E from \in old : <<k, from>> \in Ins(r, id)

LEMMA TracedGone ==
  ASSUME NEW r, NEW m, NEW where, NEW id, where[id] = None,
         Homes(r, id) = {}, Ins(r, id) = {},
         Outs(r, id) = {<<k, None>> : k \in Homes(m, id)}
  PROVE  Traced(r, m, where, id)
<1>1. \A e \in Outs(r, id) : e[1] \in Homes(m, id)
  OBVIOUS
<1>2. \A k \in Homes(m, id) : <<k, None>> \in Outs(r, id)
  OBVIOUS
<1> QED BY ONLY <1>1, <1>2, where[id] = None, Homes(r, id) = {}, Ins(r, id) = {} DEF Traced

LEMMA TracedNew ==
  ASSUME NEW r, NEW m, NEW where, NEW id, where[id] # None, NEW key, ~ Strayed(key, where[id]),
         Homes(m, id) = {},
         Homes(r, id) = {key}, Ins(r, id) = {<<key, None>>}, Outs(r, id) = {}
  PROVE  Traced(r, m, where, id)
BY DEF Traced

LEMMA TracedSame ==
  ASSUME NEW r, NEW m, NEW where, NEW id, where[id] # None,
         NEW key \in Homes(m, id), ~ Strayed(key, where[id]),
         Homes(r, id) = Homes(m, id), Ins(r, id) = {}, Outs(r, id) = {}
  PROVE  Traced(r, m, where, id)
BY DEF Traced

LEMMA TracedMoved ==
  ASSUME NEW r, NEW m, NEW where, NEW id, where[id] # None,
         NEW key, NEW to, ~ Strayed(to, where[id]),
         Homes(m, id) = {key}, Homes(r, id) = {to}, Outs(r, id) = {<<key, to>>},
         NEW from \in {key, None}, Ins(r, id) = {<<to, from>>}
  PROVE  Traced(r, m, where, id)
<1>1. <<key, to>>[1] = key /\ <<key, to>>[2] = to /\ <<to, from>>[1] = to
  OBVIOUS
<1>2. \A e \in Outs(r, id) : e[1] = key /\ e[2] = to
  BY <1>1
<1>3. \A e \in Ins(r, id) : e[1] = to
  BY <1>1
<1>4. <<key, to>> \in Outs(r, id)
  OBVIOUS
<1>5. <<to, None>> \in Ins(r, id) \/ <<to, key>> \in Ins(r, id)
  OBVIOUS
<1> QED BY ONLY <1>2, <1>3, <1>4, <1>5, where[id] # None, ~ Strayed(to, where[id]),
           Homes(m, id) = {key}, Homes(r, id) = {to} DEF Traced

LEMMA TickKeeps ==
  ASSUME NEW m, Sound(m), NEW where \in [Entity -> Place \cup {None}]
  PROVE  LET next == tick(m, Tenants(m), where)
         IN  /\ Sound(next.regions) /\ next.tracked = Tenants(next.regions)
             /\ \A id \in Entity : Traced(next.regions, m, where, id)
             /\ RegionKeys(next.regions)
                  \subseteq RegionKeys(m) \cup {pos_key(where[id]) : id \in {x \in Entity : where[x] # None}}
<1> DEFINE old      == Tenants(m)
           new      == Untracked(old, where)
           clear    == ClearEvents(m)
           added    == AddAll(clear, new, where)
           slots    == StrayedSlots(added, where)
           switched == SwitchAll(added, slots, where)
           dropped  == DropAll(switched, where)
           pruned   == PruneAll(dropped, added)
           lost     == UNION {Lost(added[i], where) : i \in DOMAIN added}
<1>1. tick(m, old, where) = [regions |-> pruned, tracked |-> (old \cup new) \ lost]
  BY DEF tick
<1>2. Sound(clear) /\ Tenants(clear) = old
  BY ClearKeeps
<1>3. new \in SUBSET Entity /\ new \cap Tenants(clear) = {}
  BY <1>2 DEF Untracked
<1>4. \A id \in Entity : where[id] # None => where[id] \in Nat \X Nat
  BY RegionConstants
<1>5. \A id \in new : where[id] \in Nat \X Nat
  BY <1>3, <1>4 DEF Untracked
<1> HIDE DEF clear, old, new
<1>6. /\ Sound(added) /\ Tenants(added) = old \cup new
      /\ AddedAll(added, clear, new, where)
  BY <1>2, <1>3, <1>5, AddAllKeeps
<1> HIDE DEF added
<1>7. slots \in SUBSET Slots(added)
  BY DEF StrayedSlots
<1>8. \A v \in slots : where[v[2]] \in Nat \X Nat
  <2> SUFFICES ASSUME NEW v \in slots PROVE where[v[2]] \in Nat \X Nat
    OBVIOUS
  <2>1. v[1] \in DOMAIN added /\ v[2] \in added[v[1]].bitset /\ where[v[2]] # None
    BY <1>6, <1>7, SlotsType DEF StrayedSlots
  <2>2. added[v[1]].bitset \subseteq Entity
    BY <1>6, <2>1, RegionType DEF Sound, Region
  <2> QED BY <1>4, <2>1, <2>2
<1> HIDE DEF slots
<1>9. /\ Sound(switched) /\ Tenants(switched) = Tenants(added)
      /\ DOMAIN added \subseteq DOMAIN switched
      /\ \A i \in DOMAIN added : switched[i].key = added[i].key
      /\ SwitchedAll(switched, added, slots, where)
  BY <1>6, <1>7, <1>8, SwitchAllKeeps
<1> HIDE DEF switched
<1>10. /\ Sound(dropped) /\ DOMAIN dropped = DOMAIN switched
       /\ Tenants(dropped) = {id \in Tenants(switched) : where[id] # None}
       /\ \A i \in DOMAIN switched : dropped[i].key = switched[i].key
  BY <1>9, DropKeeps
<1> HIDE DEF dropped
<1>11. /\ Sound(pruned) /\ Tenants(pruned) = Tenants(dropped)
       /\ \A x : SameTrace(pruned, dropped, x)
       /\ RegionKeys(pruned) \subseteq RegionKeys(dropped)
  <2>1. /\ DOMAIN added \subseteq DOMAIN dropped
        /\ \A i \in DOMAIN added : dropped[i].key = added[i].key
    BY <1>9, <1>10
  <2> QED BY <1>6, <1>10, <2>1, PruneAllKeeps
<1> HIDE DEF pruned
<1>12. \A id : id \in lost <=> id \in Tenants(added) /\ where[id] = None
  <2>1. \A id : id \in lost <=> \E i \in DOMAIN added : id \in Lost(added[i], where)
    OBVIOUS
  <2>2. \A id, i : id \in Lost(added[i], where) <=> id \in added[i].bitset /\ where[id] = None
    BY DEF Lost
  <2>3. \A id : id \in Tenants(added) <=> \E i \in DOMAIN added : id \in added[i].bitset
    BY DEF Tenants
  <2> HIDE DEF lost
  <2> QED BY <2>1, <2>2, <2>3
<1> HIDE DEF lost
<1>13. (old \cup new) \ lost = Tenants(pruned)
  BY <1>6, <1>9, <1>10, <1>11, <1>12
<1>14. /\ \A x : where[x] # None => SameTrace(dropped, switched, x)
       /\ \A x : where[x] = None => Gone(dropped, switched, x)
       /\ RegionKeys(dropped) = RegionKeys(switched)
  BY <1>9, DropTraces DEF Sound, dropped
<1>15. /\ \A x : Homes(clear, x) = Homes(m, x) /\ Ins(clear, x) = {} /\ Outs(clear, x) = {}
       /\ RegionKeys(clear) = RegionKeys(m)
  BY ClearTraces DEF Sound, clear
<1>16. ASSUME NEW id \in Entity PROVE Traced(pruned, m, where, id)
  <2>1. CASE where[id] = None
    <3>1. SameTrace(added, clear, id)
      BY <1>6, <2>1 DEF AddedAll, new, Untracked
    <3>2. SameTrace(switched, added, id)
      BY <1>9, <2>1 DEF SwitchedAll, slots, StrayedSlots
    <3>3. Gone(dropped, switched, id) /\ SameTrace(pruned, dropped, id)
      BY <1>11, <1>14, <2>1
    <3>4. /\ Homes(pruned, id) = {} /\ Ins(pruned, id) = {}
          /\ Outs(pruned, id) = {<<k, None>> : k \in Homes(m, id)}
      BY <1>15, <3>1, <3>2, <3>3 DEF SameTrace, Gone
    <3> QED BY <2>1, <3>4, TracedGone
  <2>2. CASE where[id] # None
    <3> DEFINE key == pos_key(where[id])
    <3>1. SameTrace(dropped, switched, id) /\ SameTrace(pruned, dropped, id)
      BY <1>11, <1>14, <2>2
    <3>2. ~ Strayed(key, where[id])
      BY DEF Strayed
    <3>3. ASSUME NEW v \in slots, v[2] = id
          PROVE  /\ Strayed(added[v[1]].key, where[id])
                 /\ Homes(added, id) = {added[v[1]].key}
                 /\ Homes(switched, id) = {key}
                 /\ Outs(switched, id) = Outs(added, id) \cup {<<added[v[1]].key, key>>}
                 /\ \E from \in {added[v[1]].key, None} :
                      Ins(switched, id) = Ins(added, id) \cup {<<key, from>>}
      <4>1. Strayed(added[v[1]].key, where[id])
        BY <3>3 DEF slots, StrayedSlots
      <4>2. Moved(switched, added, id, added[v[1]].key, key)
        BY <1>9, <3>3 DEF SwitchedAll
      <4> QED BY <4>1, <4>2 DEF Moved
    <3>4. ASSUME \A v \in slots : v[2] # id PROVE SameTrace(switched, added, id)
      BY <1>9, <3>4 DEF SwitchedAll
    <3> HIDE DEF key
    <3>5. CASE id \in new
      <4>1. Homes(m, id) = {}
        BY <3>5 DEF new, Untracked, old, Tenants, Homes
      <4>2. Entered(added, clear, id, key, None)
        BY <1>6, <3>5 DEF AddedAll, key
      <4>3. Homes(added, id) = {key} /\ Ins(added, id) = {<<key, None>>} /\ Outs(added, id) = {}
        BY <1>15, <4>1, <4>2 DEF Entered
      <4>4. SameTrace(switched, added, id)
        BY <3>2, <3>3, <3>4, <4>3
      <4>5. /\ Homes(pruned, id) = {key} /\ Ins(pruned, id) = {<<key, None>>}
            /\ Outs(pruned, id) = {}
        BY <3>1, <4>3, <4>4 DEF SameTrace
      <4> QED BY <2>2, <3>2, <4>1, <4>5, TracedNew
    <3>6. CASE id \notin new
      <4>1. SameTrace(added, clear, id)
        BY <1>6, <3>6 DEF AddedAll
      <4>2. Homes(added, id) = Homes(m, id) /\ Ins(added, id) = {} /\ Outs(added, id) = {}
        BY <1>15, <4>1 DEF SameTrace
      <4>3. CASE \E v \in slots : v[2] = id
        <5>1. PICK v \in slots : v[2] = id
          BY <4>3
        <5> DEFINE from == added[v[1]].key
        <5>2. Homes(m, id) = {from} /\ Homes(pruned, id) = {key}
              /\ Outs(pruned, id) = {<<from, key>>}
          BY <3>1, <3>3, <4>2, <5>1 DEF SameTrace
        <5>3. PICK f \in {from, None} : Ins(pruned, id) = {<<key, f>>}
          BY <3>1, <3>3, <4>2, <5>1 DEF SameTrace
        <5> HIDE DEF from
        <5> QED BY <2>2, <3>2, <5>2, <5>3, TracedMoved
      <4>4. CASE \A v \in slots : v[2] # id
        <5>1. SameTrace(switched, added, id)
          BY <3>4, <4>4
        <5>2. Homes(pruned, id) = Homes(m, id) /\ Ins(pruned, id) = {} /\ Outs(pruned, id) = {}
          BY <3>1, <4>2, <5>1 DEF SameTrace
        <5>3. id \in Tenants(added)
          BY <1>6, <2>2, <3>6 DEF new, Untracked
        <5>4. PICK i \in DOMAIN added : id \in added[i].bitset
          BY <5>3 DEF Tenants
        <5>5. <<i, id>> \in Slots(added)
          BY <5>4 DEF Slots
        <5>6. ~ Strayed(added[i].key, where[id])
          BY <2>2, <4>4, <5>5 DEF slots, StrayedSlots
        <5>7. added[i].key \in Homes(m, id)
          <6>1. added[i].key \in Key
            BY <1>6, <5>4, RegionType DEF Sound, Region
          <6> QED BY <4>2, <5>4, <6>1 DEF Homes
        <5> QED BY <2>2, <5>2, <5>6, <5>7, TracedSame
      <4> QED BY <4>3, <4>4
    <3> QED BY <3>5, <3>6
  <2> QED BY <2>1, <2>2
<1>17. RegionKeys(pruned)
         \subseteq RegionKeys(m) \cup {pos_key(where[id]) : id \in {x \in Entity : where[x] # None}}
  <2> DEFINE K == {pos_key(where[id]) : id \in {x \in Entity : where[x] # None}}
  <2>1. \A id \in new : pos_key(where[id]) \in K
    BY <1>3 DEF new, Untracked
  <2>2. \A v \in slots : pos_key(where[v[2]]) \in K
    <3> SUFFICES ASSUME NEW v \in slots PROVE pos_key(where[v[2]]) \in K
      OBVIOUS
    <3>1. v[1] \in DOMAIN added /\ v[2] \in added[v[1]].bitset /\ where[v[2]] # None
      BY <1>6, <1>7, SlotsType DEF slots, StrayedSlots
    <3>2. v[2] \in Entity
      BY <1>6, <3>1, RegionType DEF Sound, Region
    <3> QED BY <3>1, <3>2
  <2> HIDE DEF K
  <2>3. RegionKeys(added) \subseteq RegionKeys(m) \cup K
    BY <1>6, <1>15, <2>1 DEF AddedAll
  <2>4. RegionKeys(switched) \subseteq RegionKeys(added) \cup K
    BY <1>9, <2>2 DEF SwitchedAll
  <2>5. RegionKeys(pruned) \subseteq RegionKeys(m) \cup K
    BY <1>11, <1>14, <2>3, <2>4
  <2> QED BY <2>5 DEF K
<1> QED BY <1>1, <1>11, <1>13, <1>16, <1>17 DEF old

-----------------------------------------------------------------------------
(* The region map stays sound *)

\* Positions are those of the world, and the map is in order.
MapInv ==
  /\ pos \in [Entity -> Place \cup {None}]
  /\ Sound(regions)
  /\ tracked = Tenants(regions)

LEMMA MapInit == Init => MapInv
<1> SUFFICES ASSUME Init PROVE MapInv
  OBVIOUS
<1>1. regions = <<>> /\ tracked = {} /\ pos \in [Entity -> Place \cup {None}]
  BY DEF Init
<1>2. regions \in Maps /\ DOMAIN regions = {}
  BY <1>1 DEF Maps
<1>3. Sound(regions) /\ Tenants(regions) = {}
  BY <1>2 DEF Sound, Distinct, Apart, Linked, Tenants
<1> QED BY <1>1, <1>3 DEF MapInv

LEMMA PositionsKept ==
  ASSUME pos \in [Entity -> Place \cup {None}], Event
  PROVE  pos' \in [Entity -> Place \cup {None}]
<1>1. ASSUME NEW id \in Entity, NEW u \in Uid, NEW p \in Place, CreateNpc(id, u, p)
      PROVE  pos' \in [Entity -> Place \cup {None}]
  BY <1>1 DEF CreateNpc, Spawn
<1>2. ASSUME NEW id \in Entity, NEW u \in Uid, NEW c \in Client, Connect(id, u, c)
      PROVE  pos' \in [Entity -> Place \cup {None}]
  BY <1>2 DEF Connect, Spawn
<1>3. ASSUME NEW id \in Entity, NEW p \in Place, Move(id, p)
      PROVE  pos' \in [Entity -> Place \cup {None}]
  BY <1>3 DEF Move
<1>4. ASSUME NEW id \in Entity, Delete(id)
      PROVE  pos' \in [Entity -> Place \cup {None}]
  BY <1>4 DEF Delete
<1>5. ASSUME NEW c \in Client, handle_client_disconnect(c)
      PROVE  pos' \in [Entity -> Place \cup {None}]
  BY <1>5 DEF handle_client_disconnect
<1>6. ASSUME NEW c \in Client, NEW new \in Entity, NEW late \in SUBSET known[c],
             handle_exit_ingame(c, new, late)
      PROVE  pos' \in [Entity -> Place \cup {None}]
  BY <1>6 DEF handle_exit_ingame
<1>7. ASSUME NEW c \in Client, initialize_character_data(c)
      PROVE  pos' \in [Entity -> Place \cup {None}]
  BY <1>7, RegionConstants DEF initialize_character_data
<1>8. ASSUME NEW c \in Watcher, NEW p \in Lookout, LoadedCharacterData(c, p)
      PROVE  pos' \in [Entity -> Place \cup {None}]
  BY <1>8, RegionConstants DEF LoadedCharacterData
<1> QED BY <1>1, <1>2, <1>3, <1>4, <1>5, <1>6, <1>7, <1>8 DEF Event

LEMMA MapStep ==
  ASSUME MapInv, [Next]_vars
  PROVE  MapInv'
<1>1. CASE Handle(Event)
  <2>1. Event /\ UNCHANGED <<regions, tracked>>
    BY <1>1 DEF Handle, map
  <2>2. pos' \in [Entity -> Place \cup {None}]
    BY <2>1, PositionsKept DEF MapInv
  <2> QED BY <2>1, <2>2 DEF MapInv
<1>2. CASE EndOfTick
  <2> DEFINE next == tick(regions, tracked, pos)
  <2>1. /\ regions' = ClearEvents(next.regions) /\ tracked' = next.tracked
        /\ UNCHANGED pos
    BY <1>2 DEF EndOfTick, update_region_map
  <2>2. Sound(next.regions) /\ next.tracked = Tenants(next.regions)
    BY TickKeeps DEF MapInv
  <2> HIDE DEF next
  <2>3. /\ Sound(ClearEvents(next.regions))
        /\ Tenants(ClearEvents(next.regions)) = Tenants(next.regions)
    BY <2>2, ClearKeeps
  <2>4. Sound(regions') /\ tracked' = Tenants(regions')
    BY <2>1, <2>2, <2>3
  <2> QED BY <2>1, <2>4 DEF MapInv
<1>3. CASE UNCHANGED vars
  BY <1>3 DEF vars, ecs, map, MapInv
<1> QED BY <1>1, <1>2, <1>3 DEF Next

LEMMA MapAlways == Spec => []MapInv
BY MapInit, MapStep, PTL DEF Spec

\* The region map stays sound through any sequence of insertions, switches and
\* removals: every tracked entity is in one region, and the regions know their
\* neighbours by their present indices.
THEOREM RegionsAlwaysSound == Spec => []RegionsSound
<1>1. MapInv => RegionsSound
  BY DEF MapInv, RegionsSound, Sound
<1> QED BY <1>1, MapAlways, PTL

-----------------------------------------------------------------------------
(* Type correctness *)

\* A client has at most one entity, and that is alive.
Owned ==
  /\ \A id, jd \in Entity : owner[id] = owner[jd] /\ owner[id] # None => id = jd
  /\ \A id \in Entity : owner[id] # None => Alive(id)

Storages ==
  /\ handled \in 0..MaxEvents
  /\ uid \in [Entity -> Uid \cup {None}]
  /\ owner \in [Entity -> Client \cup {None}]
  /\ Owned
  /\ inserted \subseteq {id \in Entity : Alive(id)}

\* A client with a subscription has an entity with a position.
Placed ==
  /\ DOMAIN subs = Client /\ subs = [c \in Client |-> subs[c]]
  /\ \A c \in Client : subs[c] # NotSubscribed =>
       \E id \in Entity : owner[id] = c /\ pos[id] # None

Worlds ==
  /\ deleted \in [Keys -> SUBSET Uid]
  /\ known \in [Client -> SUBSET Uid]
  /\ missed \in [Client -> SUBSET Uid]
  /\ haunting \subseteq Uid
  /\ overtaken \in [Client -> SUBSET Uid]

TypeInv == MapInv /\ Storages /\ Placed /\ Worlds

LEMMA NoneIsNoUid == None \notin Uid /\ None \notin Place /\ None \notin Client
BY RegionConstants

\* The entity of a client.
LEMMA AvatarIs ==
  ASSUME Owned, NEW c \in Client
  PROVE  /\ Online(c) => Avatar(c) \in Entity /\ owner[Avatar(c)] = c /\ Alive(Avatar(c))
         /\ \A id \in Entity : owner[id] = c => Avatar(c) = id
         /\ InGame(c) <=> \E id \in Entity : owner[id] = c /\ pos[id] # None
<1>1. Online(c) => Avatar(c) \in Entity /\ owner[Avatar(c)] = c
  BY DEF Online, Avatar
<1>2. Online(c) => Alive(Avatar(c))
  BY <1>1, NoneIsNoUid DEF Owned
<1>3. ASSUME NEW id \in Entity, owner[id] = c PROVE Avatar(c) = id
  <2>1. Online(c)
    BY <1>3 DEF Online
  <2> QED BY <1>1, <1>3, <2>1, NoneIsNoUid DEF Owned
<1>4. InGame(c) <=> \E id \in Entity : owner[id] = c /\ pos[id] # None
  BY <1>1, <1>3 DEF InGame, Online
<1> QED BY <1>1, <1>2, <1>3, <1>4

LEMMA UidsOfType ==
  ASSUME uid \in [Entity -> Uid \cup {None}], NEW ids \in SUBSET Entity
  PROVE  UidsOf(ids) \subseteq Uid
BY DEF UidsOf

LEMMA TypeInit == Init => TypeInv
<1> SUFFICES ASSUME Init PROVE TypeInv
  OBVIOUS
<1>1. MapInv
  BY MapInit
<1>2. Storages
  BY RegionConstants DEF Init, Storages, Owned, Alive
<1>3. Placed
  BY DEF Init, Placed
<1>4. Worlds
  BY DEF Init, Worlds
<1> QED BY <1>1, <1>2, <1>3, <1>4 DEF TypeInv

LEMMA RecordType ==
  ASSUME deleted \in [Keys -> SUBSET Uid], NEW id, NEW u \in Uid \cup {None}, Record(id, u)
  PROVE  deleted' \in [Keys -> SUBSET Uid]
<1> DEFINE key == find_region(regions, id)
<1>1. deleted' = deleted \/ (u # None /\ deleted' = [deleted EXCEPT ![key] = @ \cup {u}])
  BY DEF Record
<1> HIDE DEF key
<1> QED BY <1>1

\* The uids a client is told of.
LEMMA VisibleType ==
  ASSUME uid \in [Entity -> Uid \cup {None}], NEW m \in Maps, NEW keys, NEW own, NEW where
  PROVE  Visible(m, keys, own, where) \subseteq Uid
<1> DEFINE ids == {id \in UNION {region.bitset : region \in At(m, keys)} :
                     where[id] # None /\ id # own}
<1>1. \A region \in At(m, keys) : region.bitset \subseteq Entity
  BY RegionType DEF At, Region
<1>2. ids \in SUBSET Entity
  BY <1>1
<1>3. Visible(m, keys, own, where) = UidsOf(ids)
  BY DEF Visible
<1> HIDE DEF ids
<1> QED BY <1>2, <1>3, UidsOfType

-----------------------------------------------------------------------------
(* Events *)

LEMMA SpawnTyped ==
  ASSUME TypeInv, NEW id \in Entity, NEW u \in Uid, NEW c \in Client \cup {None},
         NEW p \in Place \cup {None}, Spawn(id, u, c, p), c # None => ~ Online(c),
         UNCHANGED <<regions, tracked>>, handled' \in 0..MaxEvents,
         known' \in [Client -> SUBSET Uid]
  PROVE  TypeInv'
<1> USE DEF TypeInv
<1>1. /\ uid[id] = None
      /\ uid' = [uid EXCEPT ![id] = u]
      /\ pos' = [pos EXCEPT ![id] = p]
      /\ owner' = [owner EXCEPT ![id] = c]
      /\ inserted' = inserted \cup {id}
      /\ UNCHANGED <<subs, deleted, missed, haunting, overtaken>>
  BY DEF Spawn, history, Alive
<1>2. owner[id] = None
  BY <1>1 DEF Storages, Owned, Alive
<1>3. \A jd \in Entity : c # None => owner[jd] # c
  BY DEF Online
<1>4. MapInv'
  BY <1>1 DEF MapInv
<1>5. Storages'
  <2>1. /\ uid' \in [Entity -> Uid \cup {None}]
        /\ owner' \in [Entity -> Client \cup {None}]
    BY <1>1 DEF Storages
  <2>2. Owned'
    <3>1. \A jd, kd \in Entity : owner'[jd] = owner'[kd] /\ owner'[jd] # None => jd = kd
      BY <1>1, <1>3 DEF Storages, Owned
    <3>2. \A jd \in Entity : owner'[jd] # None => uid'[jd] # None
      BY <1>1, NoneIsNoUid DEF Storages, Owned, Alive
    <3> QED BY <3>1, <3>2 DEF Owned, Alive
  <2>3. inserted' \subseteq {jd \in Entity : uid'[jd] # None}
    BY <1>1, NoneIsNoUid DEF Storages, Alive
  <2> QED BY <2>1, <2>2, <2>3 DEF Storages, Alive
<1>6. Placed'
  <2> SUFFICES ASSUME NEW d \in Client, subs'[d] # NotSubscribed
               PROVE  \E jd \in Entity : owner'[jd] = d /\ pos'[jd] # None
    BY <1>1 DEF Placed
  <2>1. PICK jd \in Entity : owner[jd] = d /\ pos[jd] # None
    BY <1>1 DEF Placed
  <2>2. jd # id
    BY <1>2, <2>1, NoneIsNoUid
  <2>3. owner'[jd] = d /\ pos'[jd] # None
    BY <1>1, <2>1, <2>2 DEF Storages, MapInv
  <2> QED BY <2>3
<1>7. Worlds'
  BY <1>1 DEF Worlds
<1> QED BY <1>4, <1>5, <1>6, <1>7

\* An entity gets another position.
LEMMA MovedTyped ==
  ASSUME TypeInv, NEW id \in Entity, NEW p \in Place, pos' = [pos EXCEPT ![id] = p],
         UNCHANGED <<regions, tracked, uid, owner, inserted, deleted, missed, haunting, overtaken>>,
         handled' \in 0..MaxEvents, known' \in [Client -> SUBSET Uid],
         DOMAIN subs' = Client /\ subs' = [c \in Client |-> subs'[c]],
         \A c \in Client : subs'[c] = subs[c] \/ owner[id] = c
  PROVE  TypeInv'
<1> USE DEF TypeInv
<1>1. MapInv'
  BY DEF MapInv
<1>2. Storages'
  BY DEF Storages, Owned, Alive
<1>3. Placed'
  <2> SUFFICES ASSUME NEW d \in Client, subs'[d] # NotSubscribed
               PROVE  \E jd \in Entity : owner'[jd] = d /\ pos'[jd] # None
    BY DEF Placed
  <2>1. CASE owner[id] = d
    <3>1. owner'[id] = d /\ pos'[id] # None
      BY <2>1, NoneIsNoUid DEF MapInv
    <3> QED BY <3>1
  <2>2. CASE owner[id] # d
    <3>1. PICK jd \in Entity : owner[jd] = d /\ pos[jd] # None
      BY <2>2 DEF Placed
    <3>2. owner'[jd] = d /\ pos'[jd] # None
      BY <3>1, NoneIsNoUid DEF MapInv
    <3> QED BY <3>2
  <2> QED BY <2>1, <2>2
<1>4. Worlds'
  BY DEF Worlds
<1> QED BY <1>1, <1>2, <1>3, <1>4

LEMMA DeleteTyped ==
  ASSUME TypeInv, NEW id \in Entity, Delete(id),
         UNCHANGED <<regions, tracked>>, handled' \in 0..MaxEvents
  PROVE  TypeInv'
<1> USE DEF TypeInv
<1>1. /\ owner[id] = None
      /\ uid' = [uid EXCEPT ![id] = None]
      /\ pos' = [pos EXCEPT ![id] = None]
      /\ inserted' = inserted \ {id}
      /\ UNCHANGED <<owner, subs, known, missed, haunting, overtaken>>
  BY DEF Delete, history
<1>2. MapInv'
  BY <1>1 DEF MapInv
<1>3. Storages'
  <2>1. uid' \in [Entity -> Uid \cup {None}]
    BY <1>1 DEF Storages
  <2>2. \A jd \in Entity : owner'[jd] # None => uid'[jd] # None
    BY <1>1 DEF Storages, Owned, Alive
  <2>3. inserted' \subseteq {jd \in Entity : uid'[jd] # None}
    BY <1>1 DEF Storages, Alive
  <2> QED BY <1>1, <2>1, <2>2, <2>3 DEF Storages, Owned, Alive
<1>4. Placed'
  <2> SUFFICES ASSUME NEW d \in Client, subs'[d] # NotSubscribed
               PROVE  \E jd \in Entity : owner'[jd] = d /\ pos'[jd] # None
    BY <1>1 DEF Placed
  <2>1. PICK jd \in Entity : owner[jd] = d /\ pos[jd] # None
    BY <1>1 DEF Placed
  <2>2. jd # id
    BY <1>1, <2>1, NoneIsNoUid
  <2>3. owner'[jd] = d /\ pos'[jd] # None
    BY <1>1, <2>1, <2>2 DEF MapInv
  <2> QED BY <2>3
<1>5. Worlds'
  <2>1. deleted' \in [Keys -> SUBSET Uid]
    <3>1. Record(id, uid[id]) /\ uid[id] \in Uid \cup {None}
      BY DEF Delete, Storages
    <3> QED BY <3>1, RecordType DEF Worlds
  <2> QED BY <1>1, <2>1 DEF Worlds
<1> QED BY <1>2, <1>3, <1>4, <1>5

LEMMA DisconnectTyped ==
  ASSUME TypeInv, NEW c \in Client, handle_client_disconnect(c),
         UNCHANGED <<regions, tracked>>, handled' \in 0..MaxEvents
  PROVE  TypeInv'
<1> USE DEF TypeInv
<1> DEFINE id == Avatar(c)
<1>1. /\ Online(c)
      /\ Record(id, uid[id])
      /\ uid' = [uid EXCEPT ![id] = None]
      /\ pos' = [pos EXCEPT ![id] = None]
      /\ owner' = [owner EXCEPT ![id] = None]
      /\ inserted' = inserted \ {id}
      /\ subs' = [subs EXCEPT ![c] = NotSubscribed]
      /\ known' = [known EXCEPT ![c] = {}]
      /\ missed' = [missed EXCEPT ![c] = {}]
      /\ overtaken' = [overtaken EXCEPT ![c] = {}]
      /\ UNCHANGED haunting
  BY DEF handle_client_disconnect
<1>2. id \in Entity /\ owner[id] = c
  BY <1>1, AvatarIs DEF Storages
<1> HIDE DEF id
<1>3. MapInv'
  BY <1>1 DEF MapInv
<1>4. Storages'
  <2>1. /\ uid' \in [Entity -> Uid \cup {None}]
        /\ owner' \in [Entity -> Client \cup {None}]
    BY <1>1 DEF Storages
  <2>2. \A jd, kd \in Entity : owner'[jd] = owner'[kd] /\ owner'[jd] # None => jd = kd
    BY <1>1 DEF Storages, Owned
  <2>3. \A jd \in Entity : owner'[jd] # None => uid'[jd] # None
    BY <1>1 DEF Storages, Owned, Alive
  <2>4. inserted' \subseteq {jd \in Entity : uid'[jd] # None}
    BY <1>1 DEF Storages, Alive
  <2> QED BY <2>1, <2>2, <2>3, <2>4 DEF Storages, Owned, Alive
<1>5. Placed'
  <2> SUFFICES ASSUME NEW d \in Client, subs'[d] # NotSubscribed
               PROVE  \E jd \in Entity : owner'[jd] = d /\ pos'[jd] # None
    <3>1. DOMAIN subs' = Client /\ subs' = [e \in Client |-> subs'[e]]
      BY <1>1 DEF Placed
    <3> QED BY <3>1 DEF Placed
  <2>1. CASE d = c
    <3>1. subs'[c] = NotSubscribed
      BY <1>1 DEF Placed
    <3> QED BY <2>1, <3>1
  <2>2. CASE d # c
    <3>1. subs[d] # NotSubscribed
      BY <1>1, <2>2 DEF Placed
    <3>2. PICK jd \in Entity : owner[jd] = d /\ pos[jd] # None
      BY <3>1 DEF Placed
    <3>3. jd # id
      BY <1>2, <2>2, <3>2
    <3>4. owner'[jd] = d /\ pos'[jd] # None
      BY <1>1, <3>2, <3>3 DEF MapInv, Storages
    <3> QED BY <3>4
  <2> QED BY <2>1, <2>2
<1>6. Worlds'
  <2>1. deleted' \in [Keys -> SUBSET Uid]
    <3>1. uid[id] \in Uid \cup {None}
      BY <1>2 DEF Storages
    <3> QED BY <1>1, <3>1, RecordType DEF Worlds
  <2> QED BY <1>1, <2>1 DEF Worlds
<1> QED BY <1>3, <1>4, <1>5, <1>6

LEMMA ExitTyped ==
  ASSUME TypeInv, NEW c \in Client, NEW new \in Entity, NEW late \in SUBSET known[c],
         handle_exit_ingame(c, new, late),
         UNCHANGED <<regions, tracked>>, handled' \in 0..MaxEvents
  PROVE  TypeInv'
<1> USE DEF TypeInv
<1> DEFINE id == Avatar(c)
           u  == uid[id]
<1>1. /\ InGame(c) /\ uid[new] = None
      /\ Record(id, None)
      /\ uid' = [uid EXCEPT ![new] = u, ![id] = None]
      /\ pos' = [pos EXCEPT ![id] = None]
      /\ owner' = [owner EXCEPT ![new] = c, ![id] = None]
      /\ inserted' = (inserted \ {id}) \cup {new}
      /\ subs' = [subs EXCEPT ![c] = NotSubscribed]
      /\ known' = [known EXCEPT ![c] = {u} \cup late]
      /\ missed' = [missed EXCEPT ![c] = {}]
      /\ overtaken' = [overtaken EXCEPT ![c] = late]
      /\ haunting' \subseteq haunting \cup {u}
  BY DEF handle_exit_ingame, Alive
<1>2. id \in Entity /\ owner[id] = c /\ u # None
  BY <1>1, AvatarIs DEF Storages, InGame, Alive
<1>3. u \in Uid /\ new # id /\ owner[new] = None /\ c # None
  BY <1>1, <1>2, NoneIsNoUid DEF Storages, Owned, Alive
<1> HIDE DEF id, u
<1>4. MapInv'
  BY <1>1 DEF MapInv
<1>5. Storages'
  <2>1. /\ uid' \in [Entity -> Uid \cup {None}]
        /\ owner' \in [Entity -> Client \cup {None}]
    BY <1>1, <1>3 DEF Storages
  <2>2. \A jd \in Entity : /\ owner'[jd] = IF jd = id THEN None
                                            ELSE IF jd = new THEN c ELSE owner[jd]
                           /\ uid'[jd] = IF jd = id THEN None
                                         ELSE IF jd = new THEN u ELSE uid[jd]
    BY <1>1, <1>2 DEF Storages
  <2>3. \A jd \in Entity : owner[jd] = c => jd = id
    BY <1>2, <1>3 DEF Storages, Owned
  <2>4. \A jd, kd \in Entity : owner'[jd] = owner'[kd] /\ owner'[jd] # None => jd = kd
    BY <2>2, <2>3 DEF Storages, Owned
  <2>5. \A jd \in Entity : owner'[jd] # None => uid'[jd] # None
    BY <1>2, <2>2 DEF Storages, Owned, Alive
  <2>6. inserted' \subseteq {jd \in Entity : uid'[jd] # None}
    BY <1>1, <1>2, <1>3, <2>2 DEF Storages, Alive
  <2> QED BY <2>1, <2>4, <2>5, <2>6 DEF Storages, Owned, Alive
<1>6. Placed'
  <2> SUFFICES ASSUME NEW d \in Client, subs'[d] # NotSubscribed
               PROVE  \E jd \in Entity : owner'[jd] = d /\ pos'[jd] # None
    <3>1. DOMAIN subs' = Client /\ subs' = [e \in Client |-> subs'[e]]
      BY SMTT(60), <1>1 DEF Placed
    <3> QED BY <3>1 DEF Placed
  <2>1. CASE d = c
    <3>1. subs'[c] = NotSubscribed
      BY <1>1 DEF Placed
    <3> QED BY <2>1, <3>1
  <2>2. CASE d # c
    <3>1. subs[d] # NotSubscribed
      BY <1>1, <2>2 DEF Placed
    <3>2. PICK jd \in Entity : owner[jd] = d /\ pos[jd] # None
      BY <3>1 DEF Placed
    <3>3. jd # id /\ jd # new
      BY <1>2, <1>3, <2>2, <3>2, NoneIsNoUid
    <3>4. owner'[jd] = d /\ pos'[jd] # None
      BY <1>1, <3>2, <3>3 DEF MapInv, Storages
    <3> QED BY <3>4
  <2> QED BY <2>1, <2>2
<1>7. Worlds'
  <2>1. deleted' \in [Keys -> SUBSET Uid]
    BY <1>1, RecordType DEF Worlds
  <2>2. late \subseteq Uid
    BY DEF Worlds
  <2> QED BY <1>1, <1>3, <2>1, <2>2 DEF Worlds
<1> QED BY <1>4, <1>5, <1>6, <1>7

LEMMA EventTyped ==
  ASSUME TypeInv, Event, UNCHANGED <<regions, tracked>>, handled' \in 0..MaxEvents
  PROVE  TypeInv'
<1>1. ASSUME NEW id \in Entity, NEW u \in Uid, NEW p \in Place, CreateNpc(id, u, p)
      PROVE  TypeInv'
  <2>1. Spawn(id, u, None, p) /\ known' \in [Client -> SUBSET Uid]
    BY <1>1 DEF CreateNpc, TypeInv, Worlds
  <2> QED BY <2>1, SpawnTyped
<1>2. ASSUME NEW id \in Entity, NEW u \in Uid, NEW c \in Client, Connect(id, u, c)
      PROVE  TypeInv'
  <2>1. /\ ~ Online(c) /\ Spawn(id, u, c, None)
        /\ known' \in [Client -> SUBSET Uid]
    BY <1>2 DEF Connect, TypeInv, Worlds
  <2> QED BY <2>1, SpawnTyped
<1>3. ASSUME NEW id \in Entity, NEW p \in Place, Move(id, p)
      PROVE  TypeInv'
  <2>1. /\ pos' = [pos EXCEPT ![id] = p]
        /\ UNCHANGED <<uid, owner, inserted, subs, deleted, known, missed, haunting, overtaken>>
    BY <1>3 DEF Move, history
  <2>2. /\ known' \in [Client -> SUBSET Uid]
        /\ DOMAIN subs' = Client /\ subs' = [c \in Client |-> subs'[c]]
    BY <2>1 DEF TypeInv, Worlds, Placed
  <2> QED BY <2>1, <2>2, MovedTyped
<1>4. ASSUME NEW id \in Entity, Delete(id)
      PROVE  TypeInv'
  BY <1>4, DeleteTyped
<1>5. ASSUME NEW c \in Client, handle_client_disconnect(c)
      PROVE  TypeInv'
  BY <1>5, DisconnectTyped
<1>6. ASSUME NEW c \in Client, NEW new \in Entity, NEW late \in SUBSET known[c],
             handle_exit_ingame(c, new, late)
      PROVE  TypeInv'
  BY <1>6, ExitTyped
<1>7. ASSUME NEW c \in Client, initialize_character_data(c)
      PROVE  TypeInv'
  <2>1. /\ Online(c)
        /\ pos' = [pos EXCEPT ![Avatar(c)] = SpawnPoint]
        /\ UNCHANGED <<uid, owner, inserted, subs, deleted, known, missed, haunting, overtaken>>
    BY <1>7 DEF initialize_character_data, history
  <2>2. Avatar(c) \in Entity /\ SpawnPoint \in Place
    BY <2>1, AvatarIs, RegionConstants DEF TypeInv, Storages
  <2>3. /\ known' \in [Client -> SUBSET Uid]
        /\ DOMAIN subs' = Client /\ subs' = [d \in Client |-> subs'[d]]
    BY <2>1 DEF TypeInv, Worlds, Placed
  <2> QED BY <2>1, <2>2, <2>3, MovedTyped
<1>8. ASSUME NEW c \in Watcher, NEW p \in Lookout, LoadedCharacterData(c, p)
      PROVE  TypeInv'
  <2> DEFINE id == Avatar(c)
             near == regions_in_vd(p, Reach)
             seen == Visible(regions, near, id, pos')
             sub == [fuzzy_chunk |-> ChunkOf(p), regions |-> near]
  <2>1. /\ InGame(c)
        /\ pos' = [pos EXCEPT ![id] = p]
        /\ subs' = [subs EXCEPT ![c] = sub]
        /\ known' = [known EXCEPT ![c] = @ \cup seen \cup {uid[id]}]
        /\ UNCHANGED <<uid, owner, inserted, deleted, missed, haunting, overtaken>>
    BY <1>8 DEF LoadedCharacterData, history, OwnUid
  <2>2. c \in Client /\ p \in Place
    BY RegionConstants
  <2>3. id \in Entity /\ owner[id] = c /\ uid[id] # None
    BY <2>1, <2>2, AvatarIs DEF TypeInv, Storages, InGame, Alive
  <2>4. seen \subseteq Uid
    BY VisibleType DEF TypeInv, Storages, MapInv, Sound
  <2> HIDE DEF id, seen, sub
  <2>5. known' \in [Client -> SUBSET Uid]
    <3>1. uid[id] \in Uid
      BY <2>3 DEF TypeInv, Storages
    <3>2. known \in [Client -> SUBSET Uid]
      BY DEF TypeInv, Worlds
    <3>3. known' = [known EXCEPT ![c] = @ \cup seen \cup {uid[id]}]
      BY <2>1
    <3> QED BY ONLY <2>2, <2>4, <3>1, <3>2, <3>3
  <2>6. /\ DOMAIN subs' = Client /\ subs' = [d \in Client |-> subs'[d]]
        /\ \A d \in Client : subs'[d] = subs[d] \/ owner[id] = d
    BY <2>1, <2>3 DEF TypeInv, Placed
  <2> QED BY <2>1, <2>2, <2>3, <2>5, <2>6, MovedTyped
<1> QED BY <1>1, <1>2, <1>3, <1>4, <1>5, <1>6, <1>7, <1>8 DEF Event

-----------------------------------------------------------------------------
(* What the clients are told at the end of a tick *)

LEMMA AfterRegionType ==
  ASSUME uid \in [Entity -> Uid \cup {None}], NEW c, NEW now,
         NEW world \in SUBSET Uid, NEW region \in Region
  PROVE  AfterRegion(c, now, world, region) \in SUBSET Uid
<1> DEFINE came == {e.id : e \in {f \in region.entered :
                     /\ f.id \notin inserted /\ pos[f.id] # None
                     /\ f.key \notin now /\ f.id # Avatar(c)}}
<1>1. region.entered \subseteq Happening /\ region.bitset \subseteq Entity
  BY DEF Region
<1>2. came \in SUBSET Entity
  BY <1>1 DEF Happening
<1>3. Arrived(c, region, now) = UidsOf(came)
  BY DEF Arrived
<1> HIDE DEF came
<1>4. Arrived(c, region, now) \subseteq Uid
  BY <1>2, <1>3, UidsOfType
<1>5. UidsOf(region.bitset \cap inserted) \subseteq Uid
  BY <1>1, UidsOfType
<1> QED BY <1>4, <1>5 DEF AfterRegion

\* The client's world after the messages about all regions.
Told(c, now, base, m) ==
  FoldLeft(LAMBDA world, region : AfterRegion(c, now, world, region), base, m)

\* What the messages about one region add to a client's world and take from it.
Brings(c, now, region) ==
  IF region.key \in now
  THEN Arrived(c, region, now) \cup UidsOf(region.bitset \cap inserted) ELSE {}

Takes(c, now, region) ==
  IF region.key \in now
  THEN (Departed(region, now) \ {OwnUid(c)}) \cup deleted[region.key] ELSE {}

BroughtBy(c, now, m, T) == UNION {Brings(c, now, m[i]) : i \in T}
TakenBy(c, now, m, T)   == UNION {Takes(c, now, m[i]) : i \in T}

\* A world after the messages about the regions with indices in T: what nothing
\* took from the world before is in it, and what some message brought; and no
\* more is, whatever the order of the regions.
Between(world, base, c, now, m, T) ==
  /\ world \subseteq (base \ TakenBy(c, now, m, T)) \cup BroughtBy(c, now, m, T)
  /\ (base \cup BroughtBy(c, now, m, T)) \ TakenBy(c, now, m, T) \subseteq world

LEMMA AfterRegionBetween ==
  ASSUME NEW c, NEW now, NEW m, NEW T, NEW i \in T, NEW base, NEW world,
         Between(world, base, c, now, m, T \ {i})
  PROVE  Between(AfterRegion(c, now, world, m[i]), base, c, now, m, T)
<1> DEFINE next == AfterRegion(c, now, world, m[i])
           B == Brings(c, now, m[i])
           D == Takes(c, now, m[i])
<1>1. next \subseteq (world \ D) \cup B /\ (world \cup B) \ D \subseteq next
  BY DEF AfterRegion, Brings, Takes
<1>2. BroughtBy(c, now, m, T) = BroughtBy(c, now, m, T \ {i}) \cup B
  BY DEF BroughtBy
<1>3. TakenBy(c, now, m, T) = TakenBy(c, now, m, T \ {i}) \cup D
  BY DEF TakenBy
<1> HIDE DEF next, B, D
<1> QED BY <1>1, <1>2, <1>3 DEF Between, next

LEMMA ToldIs ==
  ASSUME uid \in [Entity -> Uid \cup {None}], NEW c, NEW now,
         NEW base \in SUBSET Uid, NEW m \in Maps
  PROVE  /\ Told(c, now, base, m) \in SUBSET Uid
         /\ Between(Told(c, now, base, m), base, c, now, m, DOMAIN m)
<1> DEFINE S == DOMAIN m
           Kept_(world, T) == Between(world, base, c, now, m, T)
           good == [T \in SUBSET S |-> {world \in SUBSET Uid : Kept_(world, T)}]
           V == UNION {good[T] : T \in SUBSET S}
           ch == [T \in SUBSET S |-> Max(T)]
           step == [i \in S |-> [world \in V |-> AfterRegion(c, now, world, m[i])]]
           Is(it) == it = [T \in SUBSET S |->
                       IF T = {} THEN base
                       ELSE AfterRegion(c, now, it[T \ {Max(T)}], m[Max(T)])]
<1>1. S = 1..Len(m) /\ Len(m) \in Nat /\ IsFiniteSet(S)
  <2>1. S = 1..Len(m) /\ Len(m) \in Nat
    BY DEF Maps
  <2> QED BY <2>1, FS_Interval
<1>2. \A T \in SUBSET S : T # {} => ch[T] = Max(T) /\ ch[T] \in T
  BY <1>1, MaxExists
<1>3. base \in good[{}]
  <2>1. Kept_(base, {})
    BY DEF Between, BroughtBy, TakenBy
  <2> HIDE DEF Kept_
  <2> QED BY <2>1
<1>4. ASSUME NEW i \in S, NEW world \in V
      PROVE  step[i][world] = AfterRegion(c, now, world, m[i])
  <2> HIDE DEF S, V
  <2> QED OBVIOUS
<1>5. ASSUME NEW T \in SUBSET S, T # {}, NEW world \in good[T \ {ch[T]}]
      PROVE  step[ch[T]][world] \in good[T]
  <2> DEFINE i == ch[T]
             next == AfterRegion(c, now, world, m[i])
  <2>1. i \in T /\ i \in S /\ T \ {i} \in SUBSET S
    <3> HIDE DEF ch, S
    <3> QED BY <1>2, <1>5
  <2> HIDE DEF i
  <2>2. world \in V
    BY <1>5, <2>1 DEF i
  <2>3. world \in SUBSET Uid /\ Kept_(world, T \ {i})
    <3> HIDE DEF Kept_
    <3> QED BY <1>5, <2>1 DEF i
  <2> HIDE DEF V, step
  <2>4. m[i] \in Region
    BY <2>1, RegionType
  <2>5. next \in SUBSET Uid
    BY <2>3, <2>4, AfterRegionType
  <2>6. Kept_(next, T)
    BY <2>1, <2>3, AfterRegionBetween
  <2>7. step[i][world] = next
    BY <1>4, <2>1, <2>2
  <2>8. next \in good[T]
    <3> HIDE DEF Kept_, next
    <3> QED BY <2>5, <2>6
  <2> QED BY <2>7, <2>8 DEF i
<1> HIDE DEF S
<1>6. PICK g : /\ Recursive(g, S, V, base, ch, step)
               /\ \A T \in SUBSET S : g[T] \in good[T]
  <2> HIDE DEF good, ch, step
  <2>1. \E g : /\ Recursive(g, S, UNION {good[T] : T \in SUBSET S}, base, ch, step)
               /\ \A T \in SUBSET S : g[T] \in good[T]
    <3>1. \A T \in SUBSET S : T # {} => ch[T] \in T
      BY <1>2
    <3>2. base \in good[{}]
      BY <1>3
    <3>3. \A T \in SUBSET S : T # {} =>
             \A v \in good[T \ {ch[T]}] : step[ch[T]][v] \in good[T]
      BY <1>5
    <3> QED BY ONLY <1>1, <3>1, <3>2, <3>3, FoldKeeps
  <2> QED BY <2>1
<1>7. \A T \in SUBSET S : T # {} =>
         g[T] = AfterRegion(c, now, g[T \ {Max(T)}], m[Max(T)])
  <2> SUFFICES ASSUME NEW T \in SUBSET S, T # {}
               PROVE  g[T] = AfterRegion(c, now, g[T \ {Max(T)}], m[Max(T)])
    OBVIOUS
  <2>1. ch[T] = Max(T) /\ Max(T) \in S /\ T \ {Max(T)} \in SUBSET S
    BY <1>2
  <2>2. g \in [SUBSET S -> V]
    BY <1>6 DEF Recursive
  <2>3. g[T \ {Max(T)}] \in V
    BY <2>1, <2>2
  <2>4. g[T] = step[Max(T)][g[T \ {Max(T)}]]
    BY <1>6, <2>1 DEF Recursive
  <2> HIDE DEF step, V
  <2> QED BY <1>4, <2>1, <2>3, <2>4
<1>8. Is(g)
  <2>1. g \in [SUBSET S -> V] /\ g[{}] = base
    BY <1>6 DEF Recursive
  <2> HIDE DEF V
  <2> QED BY <1>7, <2>1
<1>9. PICK it : Is(it) /\ Told(c, now, base, m) = it[S]
  <2>1. Is(CHOOSE it : Is(it))
    <3> HIDE DEF Is
    <3> QED BY <1>8
  <2>2. Told(c, now, base, m) = (CHOOSE it : Is(it))[S]
    BY DEF Told, FoldLeft, MapThenFoldSet, S
  <2> HIDE DEF Is
  <2> QED BY <2>1, <2>2
<1>10. it[S] = g[S]
  <2>1. it[{}] = g[{}]
    BY <1>8, <1>9
  <2>2. ASSUME NEW T \in SUBSET S, T # {}, it[T \ {ch[T]}] = g[T \ {ch[T]}]
        PROVE  it[T] = g[T]
    <3>1. it[T] = AfterRegion(c, now, it[T \ {Max(T)}], m[Max(T)])
      BY <1>9, <2>2
    <3> HIDE DEF ch, Is
    <3> QED BY <1>2, <1>7, <2>2, <3>1
  <2>3. IsFiniteSet(S) /\ \A T \in SUBSET S : T # {} => ch[T] \in T
    BY <1>1, <1>2
  <2>4. Agree(it, g, S, ch)
    BY <2>2 DEF Agree
  <2> HIDE DEF ch, Is
  <2> QED BY <2>1, <2>3, <2>4, FoldUnique
<1>11. g[S] \in SUBSET Uid /\ Kept_(g[S], S)
  <2>1. g[S] \in good[S]
    BY <1>6
  <2> HIDE DEF Kept_
  <2> QED BY <2>1
<1> QED BY <1>9, <1>10, <1>11 DEF S

LEMMA AfterSyncType ==
  ASSUME uid \in [Entity -> Uid \cup {None}], known \in [Client -> SUBSET Uid],
         NEW c \in Client, NEW m \in Maps
  PROVE  AfterSync(m, c) \in SUBSET Uid
<1> DEFINE now  == Subscription(c).regions
           base == AfterSubscription(m, c)
           told == Told(c, now, base, m)
<1>1. known[c] \in SUBSET Uid
  OBVIOUS
<1>2. base \in SUBSET Uid
  <2>1. Visible(m, now \ subs[c].regions, Avatar(c), pos) \subseteq Uid
    BY VisibleType
  <2> QED BY <1>1, <2>1 DEF AfterSubscription
<1> HIDE DEF base, now
<1>3. told \in SUBSET Uid
  BY <1>2, ToldIs
<1> DEFINE orphans == UNION {deleted[key] : key \in (now \cap Keys) \ {m[i].key : i \in DOMAIN m}}
<1>4. AfterSync(m, c) = IF ~ Synced(c) THEN known[c]
                        ELSE told \ (orphans \ {OwnUid(c)})
  BY DEF AfterSync, Told, now, base
<1> HIDE DEF told, orphans
<1> QED BY <1>1, <1>3, <1>4

LEMMA PassedOverType ==
  ASSUME uid \in [Entity -> Uid \cup {None}], NEW c, NEW m \in Maps
  PROVE  PassedOver(m, c) \subseteq Uid
<1> DEFINE now == Subscription(c).regions
           ids == {e.id : e \in {f \in UNION {region.entered : region \in At(m, now)} :
                                   f.key \in now \ subs[c].regions}}
<1>1. \A region \in At(m, now) : region.entered \subseteq Happening
  BY RegionType DEF At, Region
<1>2. ids \in SUBSET Entity
  BY <1>1 DEF Happening
<1>3. PassedOver(m, c) = UidsOf(ids)
  BY DEF PassedOver
<1> HIDE DEF ids
<1> QED BY <1>2, <1>3, UidsOfType

LEMMA EndOfTickTyped ==
  ASSUME TypeInv, EndOfTick, MapInv'
  PROVE  TypeInv'
<1> DEFINE m == tick(regions, tracked, pos).regions
<1>1. /\ handled' = 0 /\ inserted' = {}
      /\ UNCHANGED <<uid, pos, owner>>
      /\ subs' = [c \in Client |-> Subscription(c)]
      /\ known' = [c \in Client |-> AfterSync(m, c)]
      /\ deleted' = [key \in Keys |-> {}]
      /\ missed' = [c \in Client |->
           IF ~Synced(c) THEN {}
           ELSE ((missed[c] \cup PassedOver(m, c)) \ known'[c])
                \cap Visible(m, Subscription(c).regions, Avatar(c), pos)]
      /\ haunting' \subseteq haunting
      /\ overtaken' = [c \in Client |-> (overtaken[c] \cap known'[c])
                                        \ Visible(m, Subscription(c).regions, Avatar(c), pos)]
  BY DEF EndOfTick, run_sync_systems
<1>2. m \in Maps
  BY TickKeeps DEF TypeInv, MapInv, Sound
<1> HIDE DEF m
<1>3. Storages'
  BY <1>1, RegionConstants DEF TypeInv, Storages, Owned, Alive
<1>4. Placed'
  <2>1. DOMAIN subs' = Client /\ subs' = [c \in Client |-> subs'[c]]
    BY <1>1
  <2>2. ASSUME NEW c \in Client, subs'[c] # NotSubscribed
        PROVE  \E id \in Entity : owner'[id] = c /\ pos'[id] # None
    <3>1. subs'[c] = Subscription(c)
      BY <1>1
    <3>2. CASE subs[c] # NotSubscribed
      BY <1>1, <3>2 DEF TypeInv, Placed
    <3>3. CASE subs[c] = NotSubscribed
      <4>1. ~ Synced(c)
        BY <3>3 DEF Synced
      <4>2. Subscription(c) = subs[c]
        BY <4>1 DEF Subscription
      <4> QED BY <2>2, <3>1, <3>3, <4>2
    <3> QED BY <3>2, <3>3
  <2> QED BY <2>1, <2>2 DEF Placed
<1>5. Worlds'
  <2>1. known' \in [Client -> SUBSET Uid]
    BY <1>1, <1>2, AfterSyncType DEF TypeInv, Storages, Worlds
  <2>2. missed' \in [Client -> SUBSET Uid]
    <3>1. \A c \in Client : Visible(m, Subscription(c).regions, Avatar(c), pos) \subseteq Uid
      BY <1>2, VisibleType DEF TypeInv, Storages
    <3> QED BY <1>1, <3>1
  <2>3. deleted' \in [Keys -> SUBSET Uid] /\ haunting' \subseteq Uid
    BY <1>1 DEF TypeInv, Worlds
  <2>4. overtaken' \in [Client -> SUBSET Uid]
    BY <1>1, <2>1
  <2> QED BY <2>1, <2>2, <2>3, <2>4 DEF Worlds
<1> QED BY <1>3, <1>4, <1>5 DEF TypeInv

LEMMA TypeStep ==
  ASSUME TypeInv, [Next]_vars
  PROVE  TypeInv'
<1>1. MapInv'
  BY MapStep DEF TypeInv
<1>2. CASE Handle(Event)
  <2>1. /\ Event /\ UNCHANGED <<regions, tracked>>
        /\ handled < MaxEvents /\ handled' = handled + 1
    BY <1>2 DEF Handle, map
  <2>2. handled' \in 0..MaxEvents
    BY <2>1, RegionConstants DEF TypeInv, Storages
  <2> QED BY <2>1, <2>2, EventTyped
<1>3. CASE EndOfTick
  BY <1>1, <1>3, EndOfTickTyped
<1>4. CASE UNCHANGED vars
  BY <1>1, <1>4 DEF vars, ecs, map, history, TypeInv, Storages, Owned, Alive, Placed, Worlds
<1> QED BY <1>2, <1>3, <1>4 DEF Next

LEMMA TypeAlways == Spec => []TypeInv
BY TypeInit, TypeStep, PTL DEF Spec

\* Storages, subscriptions and the clients' worlds have their types; a client
\* has at most one entity, and one with a subscription is in the game.
THEOREM TypeCorrect == Spec => []TypeOK
<1>1. ASSUME TypeInv PROVE TypeOK
  <2>1. ASSUME NEW c \in Client PROVE Cardinality({id \in Entity : owner[id] = c}) <= 1
    <3> DEFINE own == {id \in Entity : owner[id] = c}
    <3>1. CASE own = {}
      BY <3>1, FS_EmptySet
    <3>2. CASE own # {}
      <4>1. PICK id \in own : TRUE
        BY <3>2
      <4>2. own = {id}
        BY <4>1, NoneIsNoUid, <1>1 DEF TypeInv, Storages, Owned
      <4> HIDE DEF own
      <4>3. Cardinality(own) = 1
        BY <4>2, FS_Singleton
      <4> QED BY <4>3 DEF own
    <3> QED BY <3>1, <3>2
  <2>2. ASSUME NEW c \in Client, subs[c] # NotSubscribed PROVE InGame(c)
    BY <1>1, <2>2, AvatarIs DEF TypeInv, Storages, Placed
  <2>3. tracked \subseteq Entity
    BY <1>1, TenantsType DEF TypeInv, MapInv
  <2> QED BY <1>1, <2>1, <2>2, <2>3 DEF TypeInv, MapInv, Storages, Worlds, TypeOK
<1> QED BY <1>1, TypeAlways, PTL

-----------------------------------------------------------------------------
(* No ghosts *)

\* What nobody tells the client about any more.
Stale(c) == haunting \cup overtaken[c]

\* What a client may know: itself, one that is stale, an entity of a region it is
\* told about, and one whose deletion there it is about to hear of.
Excused(c, u) ==
  \/ u = OwnUid(c)
  \/ u \in Stale(c)
  \/ \E id \in Entity : uid[id] = u /\ Homes(regions, id) \cap subs[c].regions # {}
  \/ \E key \in Keys \cap subs[c].regions : u \in deleted[key]

Alone(c)    == Online(c) /\ ~ Synced(c) => known[c] \subseteq {OwnUid(c)} \cup Stale(c)
Followed(c) == Synced(c) => \A u \in known[c] : Excused(c, u)

\* Another entity without a position is a player who left the game, or one the
\* client knows from before it did.
Haunted(c) ==
  Online(c) => \A id \in Entity :
    id # Avatar(c) /\ Alive(id) /\ pos[id] = None /\ uid[id] \in known[c] => uid[id] \in Stale(c)

Watched(c) == Alone(c) /\ Followed(c) /\ Haunted(c)

KeysKnown == RegionKeys(regions) \subseteq Keys
ViewsType == \A c \in Client : subs[c].regions \subseteq Key
UidUnique == \A id, jd \in Entity : Alive(id) /\ uid[id] = uid[jd] => id = jd

\* When a tick ends, the entities in the map have a position, and every deletion
\* has been sent.
Settled ==
  handled = 0 =>
    /\ \A id \in Entity : Homes(regions, id) # {} => pos[id] # None
    /\ \A key \in Keys : deleted[key] = {}

GhostInv ==
  /\ KeysKnown /\ ViewsType /\ UidUnique /\ Settled
  /\ \A c \in Client : Watched(c)

LEMMA NoneIsNoKey == None \notin Key
BY RegionConstants DEF Key

LEMMA InKeys ==
  ASSUME KeysKnown, NEW id
  PROVE  Homes(regions, id) \subseteq Keys
BY DEF KeysKnown, RegionKeys, Homes

\* The region an entity is found in is the only one it is in.
LEMMA FindIs ==
  ASSUME NEW m, Sound(m), NEW id, NEW k \in Homes(m, id)
  PROVE  find_region(m, id) = k
<1>1. PICK i \in DOMAIN m : m[i].key = k /\ id \in m[i].bitset
  BY DEF Homes
<1> DEFINE j == CHOOSE a \in DOMAIN m : id \in m[a].bitset
<1>2. j \in DOMAIN m /\ id \in m[j].bitset
  BY <1>1
<1>3. find_region(m, id) = m[j].key
  BY <1>1 DEF find_region
<1> HIDE DEF j
<1>4. j = i
  BY <1>1, <1>2 DEF Sound, Apart
<1> QED BY <1>1, <1>3, <1>4

\* The same entity is the client's before and after.
LEMMA AvatarKept ==
  ASSUME Owned, NEW c \in Client, \A id \in Entity : owner'[id] = c <=> owner[id] = c
  PROVE  (Online(c)' <=> Online(c)) /\ (Online(c) => Avatar(c)' = Avatar(c))
<1>1. Online(c)' <=> Online(c)
  BY DEF Online
<1>2. ASSUME Online(c) PROVE Avatar(c)' = Avatar(c)
  <2>1. \E id \in Entity : owner'[id] = c
    BY <1>2 DEF Online
  <2>2. Avatar(c)' \in Entity /\ owner'[Avatar(c)'] = c
    BY <2>1 DEF Avatar
  <2>3. owner[Avatar(c)'] = c
    BY <2>2
  <2> QED BY <1>2, <2>2, <2>3, AvatarIs
<1> QED BY <1>1, <1>2

\* A step that is not about this client.
Undisturbed(c) ==
  /\ Online(c)' => Online(c) /\ Avatar(c)' = Avatar(c) /\ OwnUid(c)' = OwnUid(c)
  /\ Synced(c)' <=> Synced(c)
  /\ subs'[c] = subs[c] /\ known'[c] = known[c]

LEMMA UndisturbedIf ==
  ASSUME Owned, NEW c \in Client,
         \A id \in Entity : owner'[id] = c <=> owner[id] = c,
         \A id \in Entity : owner[id] = c =>
            uid'[id] = uid[id] /\ (subs[c] # NotSubscribed => (pos'[id] = None <=> pos[id] = None)),
         subs'[c] = subs[c], known'[c] = known[c]
  PROVE  Undisturbed(c)
<1>1. (Online(c)' <=> Online(c)) /\ (Online(c) => Avatar(c)' = Avatar(c))
  BY AvatarKept
<1>2. Online(c) => Avatar(c) \in Entity /\ owner[Avatar(c)] = c
  BY AvatarIs
<1>3. Online(c) => OwnUid(c)' = OwnUid(c)
  BY <1>1, <1>2 DEF OwnUid
<1>4. NotSubscribed' = NotSubscribed
  BY DEF NotSubscribed
<1>5. Synced(c)' <=> Synced(c)
  <2>1. Synced(c) <=> Online(c) /\ pos[Avatar(c)] # None /\ subs[c] # NotSubscribed
    BY DEF Synced, InGame
  <2>2. Synced(c)' <=> Online(c)' /\ pos'[Avatar(c)'] # None /\ subs'[c] # NotSubscribed
    BY <1>4 DEF Synced, InGame
  <2> QED BY <1>1, <1>2, <2>1, <2>2
<1> QED BY <1>1, <1>3, <1>5 DEF Undisturbed

\* What such a step must not do: take the Uid of an entity the client knows,
\* unless the client will hear of it; give one it knows to an entity without a
\* position.
LEMMA WatchedKept ==
  ASSUME NEW c \in Client, Watched(c), Undisturbed(c), regions' = regions,
         Stale(c) \subseteq Stale(c)',
         \A key \in Keys : deleted[key] \subseteq deleted'[key],
         \A id \in Entity : uid[id] # None /\ uid'[id] # uid[id] /\ uid[id] \in known[c] =>
            uid[id] \in Stale(c)' \/ \A k \in Homes(regions, id) : k \in Keys /\ uid[id] \in deleted'[k],
         \A id \in Entity : uid'[id] # None /\ pos'[id] = None /\ uid'[id] \in known[c] =>
            uid'[id] \in Stale(c)' \/ (uid[id] = uid'[id] /\ pos[id] = None),
         known[c] \subseteq Uid
  PROVE  Watched(c)'
<1>1. Alone(c)'
  BY DEF Watched, Alone, Undisturbed
<1>2. Followed(c)'
  <2> SUFFICES ASSUME Synced(c)', NEW u \in known'[c] PROVE Excused(c, u)'
    BY DEF Followed
  <2>1. Synced(c) /\ u \in known[c] /\ subs'[c] = subs[c] /\ OwnUid(c)' = OwnUid(c) /\ u \in Uid
    BY DEF Undisturbed, Synced, InGame
  <2>2. Excused(c, u)
    BY <2>1 DEF Watched, Followed
  <2>3. CASE u = OwnUid(c) \/ u \in Stale(c)
    BY <2>1, <2>3 DEF Excused
  <2>4. CASE \E id \in Entity : uid[id] = u /\ Homes(regions, id) \cap subs[c].regions # {}
    <3>1. PICK id \in Entity : uid[id] = u /\ Homes(regions, id) \cap subs[c].regions # {}
      BY <2>4
    <3>2. PICK k \in Homes(regions, id) : k \in subs[c].regions
      BY <3>1
    <3>3. CASE uid'[id] = uid[id]
      <4>1. Homes(regions', id) \cap subs'[c].regions # {}
        BY <2>1, <3>1
      <4>2. Homes(regions, id)' = Homes(regions', id)
        BY DEF Homes
      <4> QED BY <3>1, <3>3, <4>1, <4>2 DEF Excused
    <3>4. CASE uid'[id] # uid[id]
      <4>1. u # None
        BY <2>1, NoneIsNoUid
      <4>2. u \in Stale(c)' \/ (k \in Keys /\ u \in deleted'[k])
        BY <2>1, <3>1, <3>2, <3>4, <4>1
      <4> QED BY <2>1, <3>2, <4>2 DEF Excused
    <3> QED BY <3>3, <3>4
  <2>5. CASE \E key \in Keys \cap subs[c].regions : u \in deleted[key]
    BY <2>1, <2>5 DEF Excused
  <2> QED BY <2>2, <2>3, <2>4, <2>5 DEF Excused
<1>3. Haunted(c)'
  <2> SUFFICES ASSUME Online(c)', NEW id \in Entity, id # Avatar(c)', uid'[id] # None,
                      pos'[id] = None, uid'[id] \in known'[c]
               PROVE  uid'[id] \in Stale(c)'
    BY DEF Haunted, Alive
  <2>1. Online(c) /\ id # Avatar(c) /\ uid'[id] \in known[c]
    BY DEF Undisturbed
  <2>2. CASE uid[id] = uid'[id] /\ pos[id] = None
    BY <2>1, <2>2 DEF Watched, Haunted, Alive
  <2> QED BY <2>1, <2>2
<1> QED BY <1>1, <1>2, <1>3 DEF Watched

\* A new entity has a Uid nobody knows.
LEMMA SpawnWatched ==
  ASSUME TypeInv, GhostInv, regions' = regions,
         NEW id \in Entity, NEW u \in Uid, NEW d \in Client \cup {None}, NEW p,
         Spawn(id, u, d, p),
         NEW c \in Client, c # d, known'[c] = known[c]
  PROVE  Watched(c)'
<1>1. /\ uid[id] = None /\ u \notin known[c]
      /\ uid' = [uid EXCEPT ![id] = u] /\ pos' = [pos EXCEPT ![id] = p]
      /\ owner' = [owner EXCEPT ![id] = d]
      /\ subs' = subs /\ deleted' = deleted /\ haunting' = haunting /\ overtaken' = overtaken
  BY DEF Spawn, FreshUid, Alive, history
<1>2. /\ uid \in [Entity -> Uid \cup {None}] /\ pos \in [Entity -> Place \cup {None}]
      /\ owner \in [Entity -> Client \cup {None}] /\ Owned /\ known[c] \subseteq Uid
  BY DEF TypeInv, MapInv, Storages, Worlds
<1>3. owner[id] = None
  BY <1>1, <1>2 DEF Owned, Alive
<1>4. /\ \A x \in Entity : owner'[x] = c <=> owner[x] = c
      /\ \A x \in Entity : owner[x] = c => uid'[x] = uid[x] /\ pos'[x] = pos[x]
  BY <1>1, <1>2, <1>3, NoneIsNoUid
<1>5. Undisturbed(c)
  BY <1>1, <1>2, <1>4, UndisturbedIf
<1>6. \A x \in Entity : uid[x] # None => uid'[x] = uid[x]
  BY <1>1, <1>2
<1>7. \A x \in Entity : uid'[x] # None /\ pos'[x] = None /\ uid'[x] \in known[c] =>
         uid[x] = uid'[x] /\ pos[x] = None
  BY <1>1, <1>2
<1>8. Watched(c) /\ Stale(c) \subseteq Stale(c)' /\ \A key \in Keys : deleted[key] \subseteq deleted'[key]
  BY <1>1 DEF GhostInv, Stale
<1> QED BY ONLY <1>2, <1>5, <1>6, <1>7, <1>8, regions' = regions, c \in Client, WatchedKept

\* A client that connects knows itself.
LEMMA ConnectWatched ==
  ASSUME TypeInv, GhostInv, regions' = regions,
         NEW id \in Entity, NEW u \in Uid, NEW d \in Client, Connect(id, u, d),
         NEW c \in Client
  PROVE  Watched(c)'
<1>1. Spawn(id, u, d, None) /\ known' = [known EXCEPT ![d] = {u}]
  BY DEF Connect
<1>2. known \in [Client -> SUBSET Uid]
  BY DEF TypeInv, Worlds
<1>3. CASE c # d
  BY <1>1, <1>2, <1>3, SpawnWatched
<1>4. CASE c = d
  <2>1. /\ uid[id] = None /\ u \notin UidsOf(Entity) /\ ~ Online(d)
        /\ uid' = [uid EXCEPT ![id] = u] /\ pos' = [pos EXCEPT ![id] = None]
        /\ owner' = [owner EXCEPT ![id] = d] /\ known'[d] = {u}
    BY <1>1, <1>2 DEF Connect, Spawn, FreshUid, Alive
  <2>2. /\ uid \in [Entity -> Uid \cup {None}] /\ pos \in [Entity -> Place \cup {None}]
        /\ owner \in [Entity -> Client \cup {None}]
    BY DEF TypeInv, MapInv, Storages
  <2>3. \A x \in Entity : owner'[x] = d <=> x = id
    BY <2>1, <2>2 DEF Online
  <2>4. Avatar(d)' = id
    BY <2>3 DEF Avatar
  <2>5. OwnUid(d)' = u /\ ~ Synced(d)'
    BY <2>1, <2>2, <2>4 DEF OwnUid, Synced, InGame
  <2>6. ASSUME NEW x \in Entity, x # id PROVE uid'[x] # u
    <3>1. u # None
      BY NoneIsNoUid
    <3> QED BY <2>1, <2>2, <2>6, <3>1 DEF UidsOf
  <2>7. Alone(d)' /\ Followed(d)'
    BY <2>1, <2>5 DEF Alone, Followed
  <2>8. Haunted(d)'
    BY <2>1, <2>4, <2>6 DEF Haunted
  <2> QED BY <1>4, <2>7, <2>8 DEF Watched
<1> QED BY <1>3, <1>4

\* What moves keeps its Uid and has a position.
LEMMA MoveWatched ==
  ASSUME TypeInv, GhostInv, regions' = regions,
         NEW id \in Entity, NEW p \in Place, Move(id, p), NEW c \in Client
  PROVE  Watched(c)'
<1>1. /\ pos[id] # None /\ pos' = [pos EXCEPT ![id] = p] /\ p # None
      /\ uid' = uid /\ owner' = owner /\ subs' = subs /\ deleted' = deleted
      /\ known' = known /\ haunting' = haunting /\ overtaken' = overtaken
  BY NoneIsNoUid DEF Move, history
<1>2. pos \in [Entity -> Place \cup {None}] /\ Owned /\ known[c] \subseteq Uid
  BY DEF TypeInv, MapInv, Storages, Worlds
<1>3. \A x \in Entity : pos'[x] = None <=> pos[x] = None
  BY <1>1, <1>2
<1>4. Undisturbed(c)
  BY <1>1, <1>2, <1>3, UndisturbedIf
<1>5. Watched(c) /\ Stale(c) \subseteq Stale(c)' /\ \A key \in Keys : deleted[key] \subseteq deleted'[key]
  BY <1>1 DEF GhostInv, Stale
<1> QED BY <1>1, <1>2, <1>3, <1>4, <1>5, WatchedKept

LEMMA RecordIs ==
  ASSUME TypeInv, KeysKnown, NEW id \in Entity, NEW u \in Uid \cup {None}, Record(id, u)
  PROVE  /\ \A key \in Keys : deleted[key] \subseteq deleted'[key]
         /\ u # None /\ pos[id] # None =>
              \A k \in Homes(regions, id) : k \in Keys /\ u \in deleted'[k]
<1> DEFINE key == find_region(regions, id)
<1>1. deleted \in [Keys -> SUBSET Uid] /\ Sound(regions)
  BY DEF TypeInv, Worlds, MapInv
<1>2. deleted' = IF u # None /\ pos[id] # None /\ key # None
                 THEN [deleted EXCEPT ![key] = @ \cup {u}] ELSE deleted
  BY DEF Record
<1>3. \A k \in Homes(regions, id) : key = k /\ k \in Keys /\ k # None
  BY <1>1, FindIs, InKeys, NoneIsNoKey DEF Homes
<1> HIDE DEF key
<1>4. \A k \in Keys : deleted[k] \subseteq deleted'[k]
  BY <1>1, <1>2
<1>5. ASSUME u # None, pos[id] # None, NEW k \in Homes(regions, id)
      PROVE  k \in Keys /\ u \in deleted'[k]
  BY <1>1, <1>2, <1>3, <1>5
<1> QED BY <1>4, <1>5

\* A deletion is recorded where the clients that know the entity look for it.
LEMMA DeleteWatched ==
  ASSUME TypeInv, GhostInv, regions' = regions,
         NEW id \in Entity, Delete(id), NEW c \in Client
  PROVE  Watched(c)'
<1>1. /\ uid[id] # None /\ pos[id] # None /\ owner[id] = None /\ Record(id, uid[id])
      /\ pos' = [pos EXCEPT ![id] = None] /\ uid' = [uid EXCEPT ![id] = None]
      /\ owner' = owner /\ subs' = subs /\ known' = known /\ haunting' = haunting /\ overtaken' = overtaken
  BY DEF Delete, Alive, history
<1>2. /\ uid \in [Entity -> Uid \cup {None}] /\ pos \in [Entity -> Place \cup {None}]
      /\ Owned /\ known[c] \subseteq Uid
  BY DEF TypeInv, MapInv, Storages, Worlds
<1>3. /\ \A key \in Keys : deleted[key] \subseteq deleted'[key]
      /\ \A k \in Homes(regions, id) : k \in Keys /\ uid[id] \in deleted'[k]
  <2>1. KeysKnown /\ uid[id] \in Uid \cup {None}
    BY <1>2 DEF GhostInv
  <2> QED BY ONLY <1>1, <2>1, TypeInv, id \in Entity, RecordIs
<1>4. \A x \in Entity : owner[x] = c => uid'[x] = uid[x] /\ pos'[x] = pos[x]
  BY <1>1, <1>2, NoneIsNoUid
<1>5. Undisturbed(c)
  BY <1>1, <1>2, <1>4, UndisturbedIf
<1>6. \A x \in Entity : uid'[x] # uid[x] => x = id
  BY <1>1, <1>2
<1>7. \A x \in Entity : uid'[x] # None => uid'[x] = uid[x] /\ pos'[x] = pos[x]
  BY <1>1, <1>2
<1>8. Watched(c) /\ Stale(c) \subseteq Stale(c)'
  BY <1>1 DEF GhostInv, Stale
<1>9. \A x \in Entity : uid[x] # None /\ uid'[x] # uid[x] /\ uid[x] \in known[c] =>
         uid[x] \in Stale(c)' \/ \A k \in Homes(regions, x) : k \in Keys /\ uid[x] \in deleted'[k]
  BY <1>3, <1>6
<1>10. \A x \in Entity : uid'[x] # None /\ pos'[x] = None /\ uid'[x] \in known[c] =>
          uid'[x] \in Stale(c)' \/ (uid[x] = uid'[x] /\ pos[x] = None)
  BY <1>7
<1> QED BY ONLY <1>2, <1>3, <1>5, <1>8, <1>9, <1>10, regions' = regions, c \in Client, WatchedKept

\* A client that is not connected knows nothing.
LEMMA OfflineWatched ==
  ASSUME NEW c, ~ Online(c)'
  PROVE  Watched(c)'
BY DEF Watched, Alone, Followed, Haunted, Synced, InGame

LEMMA DisconnectWatched ==
  ASSUME TypeInv, GhostInv, regions' = regions,
         NEW d \in Client, handle_client_disconnect(d), NEW c \in Client
  PROVE  Watched(c)'
<1> DEFINE id == Avatar(d)
<1>1. /\ Online(d) /\ Record(id, uid[id])
      /\ uid' = [uid EXCEPT ![id] = None] /\ pos' = [pos EXCEPT ![id] = None]
      /\ owner' = [owner EXCEPT ![id] = None]
      /\ subs' = [subs EXCEPT ![d] = NotSubscribed]
      /\ known' = [known EXCEPT ![d] = {}] /\ haunting' = haunting
      /\ overtaken' = [overtaken EXCEPT ![d] = {}]
  BY DEF handle_client_disconnect
<1>2. /\ uid \in [Entity -> Uid \cup {None}] /\ pos \in [Entity -> Place \cup {None}]
      /\ owner \in [Entity -> Client \cup {None}]
      /\ Owned /\ known \in [Client -> SUBSET Uid] /\ overtaken \in [Client -> SUBSET Uid]
      /\ subs = [x \in Client |-> subs[x]] /\ KeysKnown
  BY DEF TypeInv, MapInv, Storages, Worlds, Placed, GhostInv
<1>3. id \in Entity /\ owner[id] = d /\ \A x \in Entity : owner[x] = d => x = id
  BY <1>1, <1>2, AvatarIs
<1> HIDE DEF id
<1>4. \A x \in Entity : owner'[x] = IF x = id THEN None ELSE owner[x]
  BY <1>1, <1>2
<1>5. CASE c = d
  <2>1. ~ Online(c)'
    BY <1>3, <1>4, <1>5, NoneIsNoUid DEF Online
  <2> QED BY <2>1, OfflineWatched
<1>7. CASE c # d /\ ~ Online(c)
  <2>1. ~ Online(c)'
    BY <1>4, <1>7, NoneIsNoUid DEF Online
  <2> QED BY <2>1, OfflineWatched
<1>6. CASE c # d /\ Online(c)
  <2>1. \A x \in Entity : owner'[x] = c <=> owner[x] = c
    BY <1>3, <1>4, <1>6, NoneIsNoUid
  <2>2. \A x \in Entity : owner[x] = c => uid'[x] = uid[x] /\ pos'[x] = pos[x]
    BY <1>1, <1>2, <1>3, <1>6
  <2>3. subs'[c] = subs[c] /\ known'[c] = known[c]
    BY <1>1, <1>2, <1>6
  <2>4. Undisturbed(c)
    BY <1>2, <2>1, <2>2, <2>3, UndisturbedIf
  <2>5. \A key \in Keys : deleted[key] \subseteq deleted'[key]
    BY <1>1, <1>2, <1>3, RecordIs
  <2>6. uid[id] # None /\ uid[id] \in known[c] =>
           uid[id] \in Stale(c)' \/ \A k \in Homes(regions, id) : k \in Keys /\ uid[id] \in deleted'[k]
    <3>1. CASE pos[id] # None
      <4>1. uid[id] \in Uid \cup {None}
        BY <1>2, <1>3
      <4>2. uid[id] # None => \A k \in Homes(regions, id) : k \in Keys /\ uid[id] \in deleted'[k]
        BY ONLY <1>1, <1>2, <1>3, <3>1, <4>1, TypeInv, RecordIs
      <4> QED BY <4>2
    <3>2. CASE pos[id] = None
      <4>1. id # Avatar(c)
        BY <1>2, <1>3, <1>6, AvatarIs
      <4>2. Stale(c)' = Stale(c)
        BY <1>1, <1>2, <1>6 DEF Stale
      <4> QED BY <1>3, <1>6, <3>2, <4>1, <4>2 DEF GhostInv, Watched, Haunted, Alive
    <3> QED BY <3>1, <3>2
  <2>7. \A x \in Entity : x # id => uid'[x] = uid[x] /\ pos'[x] = pos[x]
    BY <1>1, <1>2
  <2>8. uid'[id] = None
    BY <1>1, <1>2, <1>3
  <2>9. \A x \in Entity : uid[x] # None /\ uid'[x] # uid[x] /\ uid[x] \in known[c] =>
           uid[x] \in Stale(c)' \/ \A k \in Homes(regions, x) : k \in Keys /\ uid[x] \in deleted'[k]
    BY <2>6, <2>7
  <2>10. \A x \in Entity : uid'[x] # None /\ pos'[x] = None /\ uid'[x] \in known[c] =>
           uid'[x] \in Stale(c)' \/ (uid[x] = uid'[x] /\ pos[x] = None)
    BY <2>7, <2>8
  <2>11. Watched(c) /\ Stale(c) \subseteq Stale(c)' /\ known[c] \subseteq Uid
    BY <1>1, <1>2, <1>6 DEF GhostInv, Stale
  <2> QED BY ONLY <2>4, <2>5, <2>9, <2>10, <2>11, regions' = regions, c \in Client, WatchedKept
<1> QED BY <1>5, <1>6, <1>7

\* The old entity of a client that leaves the game is no longer heard of: those
\* that know it know a Uid that is now haunting.  What the client reads of late
\* is all it knows but itself.
LEMMA ExitWatched ==
  ASSUME TypeInv, GhostInv, regions' = regions,
         NEW d \in Client, NEW new \in Entity, NEW late \in SUBSET known[d],
         handle_exit_ingame(d, new, late), NEW c \in Client
  PROVE  Watched(c)'
<1> DEFINE id == Avatar(d)
           u  == uid[id]
<1>1. /\ InGame(d) /\ uid[new] = None /\ Record(id, None)
      /\ uid' = [uid EXCEPT ![new] = u, ![id] = None]
      /\ pos' = [pos EXCEPT ![id] = None]
      /\ owner' = [owner EXCEPT ![new] = d, ![id] = None]
      /\ subs' = [subs EXCEPT ![d] = NotSubscribed]
      /\ known' = [known EXCEPT ![d] = {u} \cup late]
      /\ overtaken' = [overtaken EXCEPT ![d] = late]
      /\ haunting' = IF \E e \in Client \ {d} : u \in known[e]
                     THEN haunting \cup {u} ELSE haunting
  BY DEF handle_exit_ingame, Alive
<1>2. /\ uid \in [Entity -> Uid \cup {None}] /\ pos \in [Entity -> Place \cup {None}]
      /\ owner \in [Entity -> Client \cup {None}]
      /\ Owned /\ known \in [Client -> SUBSET Uid] /\ overtaken \in [Client -> SUBSET Uid]
      /\ subs = [x \in Client |-> subs[x]] /\ KeysKnown /\ UidUnique
  BY DEF TypeInv, MapInv, Storages, Worlds, Placed, GhostInv
<1>3. id \in Entity /\ owner[id] = d /\ u # None /\ \A x \in Entity : owner[x] = d => x = id
  BY <1>1, <1>2, AvatarIs DEF InGame, Alive
<1>4. id # new /\ owner[new] = None /\ u \in Uid /\ d # None
  BY <1>1, <1>2, <1>3, NoneIsNoUid DEF Owned, Alive
<1>5. \A x \in Entity : uid[x] = u => x = id
  BY <1>2, <1>3 DEF UidUnique, Alive
<1> HIDE DEF id, u
<1>6. \A x \in Entity :
        /\ uid'[x] = IF x = id THEN None ELSE IF x = new THEN u ELSE uid[x]
        /\ pos'[x] = IF x = id THEN None ELSE pos[x]
        /\ owner'[x] = IF x = id THEN None ELSE IF x = new THEN d ELSE owner[x]
  BY <1>1, <1>2
<1>7. CASE c = d
  <2>1. \A x \in Entity : owner'[x] = d <=> x = new
    BY <1>3, <1>4, <1>6
  <2>2. Avatar(d)' = new
    BY <2>1 DEF Avatar
  <2>3. OwnUid(d)' = u
    BY <1>4, <1>6, <2>2 DEF OwnUid
  <2>4. subs'[d] = NotSubscribed /\ known'[d] = {u} \cup late /\ overtaken'[d] = late
    BY <1>1, <1>2
  <2>5. NotSubscribed' = NotSubscribed
    BY DEF NotSubscribed
  <2>6. ~ Synced(d)'
    BY <2>4, <2>5 DEF Synced
  <2>7. Alone(d)' /\ Followed(d)'
    BY <2>3, <2>4, <2>6 DEF Alone, Followed, Stale
  <2>8. \A x \in Entity : x # new => uid'[x] # u
    BY <1>3, <1>5, <1>6
  <2>9. Haunted(d)'
    BY <2>2, <2>4, <2>8 DEF Haunted, Stale
  <2> QED BY <1>7, <2>7, <2>9 DEF Watched
<1>8. CASE c # d
  <2>1. \A x \in Entity : owner'[x] = c <=> owner[x] = c
    BY <1>3, <1>4, <1>6, <1>8, NoneIsNoUid
  <2>2. \A x \in Entity : owner[x] = c => uid'[x] = uid[x] /\ pos'[x] = pos[x]
    BY <1>3, <1>4, <1>6, <1>8, NoneIsNoUid
  <2>3. subs'[c] = subs[c] /\ known'[c] = known[c]
    BY <1>1, <1>2, <1>8
  <2>4. Undisturbed(c)
    BY <1>2, <2>1, <2>2, <2>3, UndisturbedIf
  <2>5. \A key \in Keys : deleted[key] \subseteq deleted'[key]
    BY <1>1, <1>2, <1>3, RecordIs
  <2>6. u \in known[c] => u \in Stale(c)'
    BY <1>1, <1>8 DEF Stale
  <2>7. \A x \in Entity : uid[x] # None /\ uid'[x] # uid[x] => x = id
    BY <1>1, <1>6
  <2>8. \A x \in Entity : uid'[x] # None => uid'[x] = u \/ (uid'[x] = uid[x] /\ pos'[x] = pos[x])
    BY <1>6
  <2>9. \A x \in Entity : uid[x] # None /\ uid'[x] # uid[x] /\ uid[x] \in known[c] =>
           uid[x] \in Stale(c)' \/ \A k \in Homes(regions, x) : k \in Keys /\ uid[x] \in deleted'[k]
    BY <2>6, <2>7 DEF u
  <2>10. \A x \in Entity : uid'[x] # None /\ pos'[x] = None /\ uid'[x] \in known[c] =>
           uid'[x] \in Stale(c)' \/ (uid[x] = uid'[x] /\ pos[x] = None)
    BY <2>6, <2>8
  <2>11. Watched(c) /\ Stale(c) \subseteq Stale(c)' /\ known[c] \subseteq Uid
    BY <1>1, <1>2, <1>8 DEF GhostInv, Stale
  <2> QED BY ONLY <2>4, <2>5, <2>9, <2>10, <2>11, regions' = regions, c \in Client, WatchedKept
<1> QED BY <1>7, <1>8

\* A character that is created is not told of anything yet.
LEMMA InitializeWatched ==
  ASSUME TypeInv, GhostInv, regions' = regions,
         NEW d \in Client, initialize_character_data(d), NEW c \in Client
  PROVE  Watched(c)'
<1>1. /\ Online(d) /\ ~ InGame(d) /\ pos' = [pos EXCEPT ![Avatar(d)] = SpawnPoint]
      /\ uid' = uid /\ owner' = owner /\ subs' = subs /\ deleted' = deleted
      /\ known' = known /\ haunting' = haunting /\ overtaken' = overtaken
  BY DEF initialize_character_data, history
<1>2. /\ pos \in [Entity -> Place \cup {None}] /\ Owned /\ known[c] \subseteq Uid /\ Placed
  BY DEF TypeInv, MapInv, Storages, Worlds
<1>3. Avatar(d) \in Entity /\ owner[Avatar(d)] = d
  BY <1>1, <1>2, AvatarIs
<1>4. subs[d] = NotSubscribed
  BY <1>1, <1>2, AvatarIs DEF Placed
<1>5. \A x \in Entity : owner[x] = c => (subs[c] # NotSubscribed => pos'[x] = pos[x])
  BY <1>1, <1>2, <1>3, <1>4
<1>6. Undisturbed(c)
  BY <1>1, <1>2, <1>5, UndisturbedIf
<1>7. SpawnPoint # None
  BY NoneIsNoUid, RegionConstants
<1>8. \A x \in Entity : pos'[x] = None => pos[x] = None
  BY <1>1, <1>2, <1>7
<1>9. Watched(c) /\ Stale(c) \subseteq Stale(c)' /\ \A key \in Keys : deleted[key] \subseteq deleted'[key]
  BY <1>1 DEF GhostInv, Stale
<1> QED BY ONLY <1>1, <1>2, <1>6, <1>8, <1>9, regions' = regions, c \in Client, WatchedKept

LEMMA VisibleIs ==
  ASSUME NEW m, NEW keys, NEW own, NEW where, NEW u \in Visible(m, keys, own, where),
         m \in Maps
  PROVE  \E id \in Entity : /\ uid[id] = u /\ where[id] # None /\ id # own
                            /\ Homes(m, id) \cap keys # {}
<1>1. PICK id \in UNION {region.bitset : region \in At(m, keys)} :
         uid[id] = u /\ where[id] # None /\ id # own
  BY DEF Visible, UidsOf
<1>2. PICK i \in DOMAIN m : m[i].key \in keys /\ id \in m[i].bitset
  BY <1>1 DEF At
<1>3. m[i].key \in Key /\ id \in Entity
  BY <1>2, RegionType DEF Region
<1> QED BY <1>1, <1>2, <1>3 DEF Homes

\* A client that is told of the regions around its character had known itself.
LEMMA LoadedWatched ==
  ASSUME TypeInv, GhostInv, regions' = regions,
         NEW d \in Watcher, NEW p \in Lookout, LoadedCharacterData(d, p), NEW c \in Client
  PROVE  Watched(c)'
<1> DEFINE id   == Avatar(d)
           near == regions_in_vd(p, Reach)
           seen == Visible(regions, near, id, pos')
           sub  == [fuzzy_chunk |-> ChunkOf(p), regions |-> near]
<1>1. /\ InGame(d) /\ ~ Synced(d) /\ pos' = [pos EXCEPT ![id] = p]
      /\ subs' = [subs EXCEPT ![d] = sub]
      /\ known' = [known EXCEPT ![d] = @ \cup seen \cup {uid[id]}]
      /\ uid' = uid /\ owner' = owner /\ deleted' = deleted /\ haunting' = haunting /\ overtaken' = overtaken
  BY DEF LoadedCharacterData, history, OwnUid
<1>2. /\ pos \in [Entity -> Place \cup {None}] /\ Owned /\ known \in [Client -> SUBSET Uid]
      /\ subs = [x \in Client |-> subs[x]] /\ UidUnique /\ regions \in Maps
  BY DEF TypeInv, MapInv, Storages, Worlds, Placed, GhostInv, Sound
<1>3. d \in Client /\ p # None /\ sub.regions = near
  BY RegionConstants, NoneIsNoUid
<1>4. /\ Online(d) /\ id \in Entity /\ owner[id] = d /\ uid[id] # None /\ pos[id] # None
      /\ \A x \in Entity : owner[x] = d => x = id
  BY <1>1, <1>2, <1>3, AvatarIs DEF InGame, Alive
<1>5. \A u \in seen : \E x \in Entity :
         /\ uid[x] = u /\ pos'[x] # None /\ x # id /\ Homes(regions, x) \cap near # {}
  BY <1>2, VisibleIs
<1>6. OwnUid(d) = uid[id] /\ Avatar(d) = id
  BY DEF OwnUid
<1> HIDE DEF id, near, seen, sub
<1>7. \A x \in Entity : pos'[x] = None <=> pos[x] = None
  BY <1>1, <1>2, <1>3, <1>4
<1>8. CASE c # d
  <2>1. subs'[c] = subs[c] /\ known'[c] = known[c] /\ known[c] \subseteq Uid
    BY <1>1, <1>2, <1>8
  <2>2. Undisturbed(c)
    BY <1>1, <1>2, <1>7, <2>1, UndisturbedIf
  <2>3. Watched(c) /\ Stale(c) \subseteq Stale(c)' /\ \A key \in Keys : deleted[key] \subseteq deleted'[key]
    BY <1>1 DEF GhostInv, Stale
  <2> QED BY ONLY <1>1, <1>7, <2>1, <2>2, <2>3, regions' = regions, c \in Client, WatchedKept
<1>9. CASE c = d
  <2>1. known[d] \subseteq {uid[id]} \cup Stale(d) /\ Stale(d)' = Stale(d)
    BY <1>1, <1>3, <1>4, <1>6 DEF GhostInv, Watched, Alone, Stale
  <2>2. subs'[d] = sub /\ known'[d] = known[d] \cup seen \cup {uid[id]}
    BY <1>1, <1>2, <1>3
  <2>3. (Online(d)' <=> Online(d)) /\ Avatar(d)' = Avatar(d)
    BY <1>1 DEF Online, Avatar
  <2>4. OwnUid(d)' = uid[id]
    BY <1>1, <1>6, <2>3 DEF OwnUid
  <2>5. Synced(d)'
    <3>1. ChunkOf(p) # None
      <4>1. p \in Nat \X Nat
        BY RegionConstants
      <4>2. ChunkOf(p) \in Int \X Int
        BY <4>1 DEF ChunkOf, CHUNK
      <4> QED BY <4>2, RegionConstants
    <3>2. sub # NotSubscribed'
      BY <3>1 DEF sub, NotSubscribed
    <3>3. pos'[id] # None
      BY <1>4, <1>7
    <3> QED BY <1>4, <1>6, <2>2, <2>3, <3>2, <3>3 DEF Synced, InGame
  <2>6. Alone(d)'
    BY <2>5 DEF Alone
  <2>7. Followed(d)'
    <3> SUFFICES ASSUME NEW u \in known'[d] PROVE Excused(d, u)'
      BY DEF Followed
    <3>1. CASE u = uid[id]
      BY <2>4, <3>1 DEF Excused
    <3>2. CASE u \in seen
      <4>1. PICK x \in Entity : uid[x] = u /\ Homes(regions, x) \cap near # {}
        BY <1>5, <3>2
      <4>2. Homes(regions, x)' = Homes(regions, x) /\ subs'[d].regions = near /\ uid'[x] = u
        BY <1>1, <1>3, <2>2, <4>1 DEF Homes
      <4> QED BY <4>1, <4>2 DEF Excused
    <3>3. CASE u \in Stale(d)
      BY <2>1, <3>3 DEF Excused
    <3> QED BY <2>1, <2>2, <3>1, <3>2, <3>3
  <2>8. Haunted(d)'
    <3> SUFFICES ASSUME NEW x \in Entity, x # id, uid[x] # None, pos'[x] = None, uid[x] \in known'[d],
                        uid[x] \notin Stale(d)
                 PROVE  FALSE
      BY <1>1, <1>6, <2>1, <2>3 DEF Haunted, Alive
    <3>1. uid[x] # uid[id]
      BY <1>2, <1>4 DEF UidUnique, Alive
    <3>2. uid[x] \in seen
      BY <2>1, <2>2, <3>1
    <3>3. PICK y \in Entity : uid[y] = uid[x] /\ pos'[y] # None
      BY <1>5, <3>2
    <3> QED BY <1>2, <3>3 DEF UidUnique, Alive
  <2> QED BY <1>9, <2>6, <2>7, <2>8 DEF Watched
<1> QED BY <1>8, <1>9

LEMMA RegionsInVdType ==
  ASSUME NEW p, NEW vd
  PROVE  regions_in_vd(p, vd) \subseteq Key
BY DEF regions_in_vd, Key

LEMMA UidSpawned ==
  ASSUME TypeInv, UidUnique, NEW id \in Entity, NEW u \in Uid, NEW c, NEW p, Spawn(id, u, c, p)
  PROVE  UidUnique' /\ subs' = subs
<1>1. uid[id] = None /\ u \notin UidsOf(Entity) /\ uid' = [uid EXCEPT ![id] = u] /\ subs' = subs
  BY DEF Spawn, FreshUid, Alive
<1>2. uid \in [Entity -> Uid \cup {None}]
  BY DEF TypeInv, Storages
<1>3. \A x \in Entity : uid[x] # None => uid[x] # u
  BY <1>1 DEF UidsOf
<1>4. u # None
  BY NoneIsNoUid
<1>5. \A x \in Entity : uid'[x] = IF x = id THEN u ELSE uid[x]
  BY <1>1, <1>2
<1>6. ASSUME NEW x \in Entity, NEW y \in Entity, uid'[x] # None, uid'[x] = uid'[y] PROVE x = y
  BY <1>3, <1>4, <1>5, <1>6 DEF UidUnique, Alive
<1> QED BY <1>1, <1>6 DEF UidUnique, Alive

\* No event gives the Uid of one entity to another.
LEMMA UidEvent ==
  ASSUME TypeInv, UidUnique, Event
  PROVE  UidUnique'
<1>0. uid \in [Entity -> Uid \cup {None}] /\ Owned
  BY DEF TypeInv, Storages
<1>1. ASSUME NEW id \in Entity, NEW u \in Uid, NEW p \in Place, CreateNpc(id, u, p)
      PROVE  UidUnique'
  BY <1>1, UidSpawned DEF CreateNpc
<1>2. ASSUME NEW id \in Entity, NEW u \in Uid, NEW c \in Client, Connect(id, u, c)
      PROVE  UidUnique'
  BY <1>2, UidSpawned DEF Connect
<1>3. ASSUME NEW id \in Entity, NEW p \in Place, Move(id, p)
      PROVE  UidUnique'
  BY <1>3 DEF Move, UidUnique, Alive
<1>4. ASSUME NEW id, uid' = [uid EXCEPT ![id] = None]
      PROVE  UidUnique'
  BY <1>0, <1>4 DEF UidUnique, Alive
<1>5. ASSUME NEW c \in Client, NEW new \in Entity, NEW late \in SUBSET known[c],
             handle_exit_ingame(c, new, late)
      PROVE  UidUnique'
  <2> DEFINE id == Avatar(c)
  <2>1. uid' = [uid EXCEPT ![new] = uid[id], ![id] = None] /\ uid[new] = None
    BY <1>5 DEF handle_exit_ingame, Alive
  <2>2. InGame(c)
    BY <1>5 DEF handle_exit_ingame
  <2>3. id \in Entity /\ uid[id] # None
    BY <1>0, <2>2, AvatarIs DEF InGame, Alive
  <2> HIDE DEF id
  <2>4. \A x \in Entity : uid'[x] = IF x = id THEN None ELSE IF x = new THEN uid[id] ELSE uid[x]
    BY <1>0, <2>1
  <2>5. \A x \in Entity : uid[x] = uid[id] => x = id
    BY <2>3 DEF UidUnique, Alive
  <2>6. ASSUME NEW x \in Entity, NEW y \in Entity, uid'[x] # None, uid'[x] = uid'[y] PROVE x = y
    BY <2>3, <2>4, <2>5, <2>6 DEF UidUnique, Alive
  <2> QED BY <2>6 DEF UidUnique, Alive
<1>6. ASSUME NEW c \in Client, initialize_character_data(c)
      PROVE  UidUnique'
  BY <1>6 DEF initialize_character_data, UidUnique, Alive
<1>7. ASSUME NEW c \in Watcher, NEW p \in Lookout, LoadedCharacterData(c, p)
      PROVE  UidUnique'
  BY <1>7 DEF LoadedCharacterData, UidUnique, Alive
<1>8. ASSUME NEW id \in Entity, Delete(id)
      PROVE  UidUnique'
  BY <1>4, <1>8 DEF Delete
<1>9. ASSUME NEW c \in Client, handle_client_disconnect(c)
      PROVE  UidUnique'
  BY <1>4, <1>9 DEF handle_client_disconnect
<1> QED BY <1>1, <1>2, <1>3, <1>5, <1>6, <1>7, <1>8, <1>9 DEF Event

LEMMA ViewsEvent ==
  ASSUME TypeInv, ViewsType, Event
  PROVE  ViewsType'
<1>0. subs = [x \in Client |-> subs[x]] /\ NotSubscribed.regions = {}
  BY DEF TypeInv, Placed, NotSubscribed
<1>1. CASE subs' = subs
  BY <1>1 DEF ViewsType
<1>2. ASSUME NEW c, subs' = [subs EXCEPT ![c] = NotSubscribed]
      PROVE  ViewsType'
  <2>1. ASSUME NEW d \in Client PROVE subs'[d] = subs[d] \/ subs'[d] = NotSubscribed
    BY <1>0, <1>2
  <2> QED BY <1>0, <2>1 DEF ViewsType
<1>3. ASSUME NEW c \in Watcher, NEW p \in Lookout, LoadedCharacterData(c, p)
      PROVE  ViewsType'
  <2> DEFINE near == regions_in_vd(p, Reach)
             sub  == [fuzzy_chunk |-> ChunkOf(p), regions |-> near]
  <2>1. subs' = [subs EXCEPT ![c] = sub]
    BY <1>3 DEF LoadedCharacterData
  <2>2. sub.regions = near /\ near \subseteq Key
    BY RegionsInVdType
  <2> HIDE DEF near, sub
  <2>3. ASSUME NEW d \in Client PROVE subs'[d] = subs[d] \/ subs'[d] = sub
    BY <1>0, <2>1
  <2> QED BY <2>2, <2>3 DEF ViewsType
<1>4. CASE Event /\ subs' # subs
  <2>1. \/ \E c \in Client : handle_client_disconnect(c)
        \/ \E c \in Client, new \in Entity : \E late \in SUBSET known[c] : handle_exit_ingame(c, new, late)
        \/ \E c \in Watcher, p \in Lookout : LoadedCharacterData(c, p)
    BY <1>4 DEF Event, CreateNpc, Connect, Spawn, Move, Delete, initialize_character_data
  <2>2. \/ \E c : subs' = [subs EXCEPT ![c] = NotSubscribed]
        \/ \E c \in Watcher, p \in Lookout : LoadedCharacterData(c, p)
    BY <2>1 DEF handle_client_disconnect, handle_exit_ingame
  <2> QED BY <1>2, <1>3, <2>2
<1> QED BY <1>1, <1>4

LEMMA GhostEvent ==
  ASSUME TypeInv, GhostInv, Event, regions' = regions, handled' = handled + 1
  PROVE  GhostInv'
<1>1. KeysKnown'
  BY DEF GhostInv, KeysKnown, RegionKeys
<1>2. ViewsType' /\ UidUnique'
  BY ViewsEvent, UidEvent DEF GhostInv
<1>3. handled' # 0
  BY DEF TypeInv, Storages
<1>4. Settled'
  BY <1>3 DEF Settled
<1>5. ASSUME NEW c \in Client PROVE Watched(c)'
  <2>1. ASSUME NEW id \in Entity, NEW u \in Uid, NEW p \in Place, CreateNpc(id, u, p)
        PROVE  Watched(c)'
    <3>1. Spawn(id, u, None, p) /\ known'[c] = known[c] /\ c # None
      BY <2>1, NoneIsNoUid DEF CreateNpc
    <3> QED BY <3>1, SpawnWatched
  <2>2. ASSUME NEW id \in Entity, NEW u \in Uid, NEW d \in Client, Connect(id, u, d)
        PROVE  Watched(c)'
    BY <2>2, ConnectWatched
  <2>3. ASSUME NEW id \in Entity, NEW p \in Place, Move(id, p)
        PROVE  Watched(c)'
    BY <2>3, MoveWatched
  <2>4. ASSUME NEW id \in Entity, Delete(id)
        PROVE  Watched(c)'
    BY <2>4, DeleteWatched
  <2>5. ASSUME NEW d \in Client, handle_client_disconnect(d)
        PROVE  Watched(c)'
    BY <2>5, DisconnectWatched
  <2>6. ASSUME NEW d \in Client, NEW new \in Entity, NEW late \in SUBSET known[d],
             handle_exit_ingame(d, new, late)
        PROVE  Watched(c)'
    BY <2>6, ExitWatched
  <2>7. ASSUME NEW d \in Client, initialize_character_data(d)
        PROVE  Watched(c)'
    BY <2>7, InitializeWatched
  <2>8. ASSUME NEW d \in Watcher, NEW p \in Lookout, LoadedCharacterData(d, p)
        PROVE  Watched(c)'
    BY <2>8, LoadedWatched
  <2> QED BY <2>1, <2>2, <2>3, <2>4, <2>5, <2>6, <2>7, <2>8 DEF Event
<1> QED BY <1>1, <1>2, <1>4, <1>5 DEF GhostInv

\* What the end of a tick makes of the map, before its events are cleared.
Ticked(m) ==
  /\ Sound(m) /\ RegionKeys(m) \subseteq Keys
  /\ \A id \in Entity : Traced(m, regions, pos, id)

LEMMA TickIs ==
  ASSUME TypeInv, KeysKnown
  PROVE  Ticked(tick(regions, tracked, pos).regions)
<1> DEFINE next == tick(regions, tracked, pos)
<1>1. /\ Sound(next.regions)
      /\ \A id \in Entity : Traced(next.regions, regions, pos, id)
      /\ RegionKeys(next.regions)
           \subseteq RegionKeys(regions) \cup {pos_key(pos[id]) : id \in {x \in Entity : pos[x] # None}}
  BY TickKeeps DEF TypeInv, MapInv
<1> HIDE DEF next
<1>2. {pos_key(pos[id]) : id \in {x \in Entity : pos[x] # None}} \subseteq Keys
  BY DEF Keys, TypeInv, MapInv
<1>3. RegionKeys(next.regions) \subseteq Keys
  BY <1>1, <1>2 DEF KeysKnown
<1> QED BY <1>1, <1>3 DEF Ticked, next

LEMMA TickClears ==
  ASSUME NEW m, m \in Maps
  PROVE  /\ RegionKeys(ClearEvents(m)) = RegionKeys(m)
         /\ \A id : Homes(ClearEvents(m), id) = Homes(m, id)
<1>1. /\ DOMAIN ClearEvents(m) = DOMAIN m
      /\ \A i \in DOMAIN m : /\ ClearEvents(m)[i].key = m[i].key
                             /\ ClearEvents(m)[i].bitset = m[i].bitset
  BY ZenonT(60), RegionType DEF ClearEvents, Region
<1>2. RegionKeys(ClearEvents(m)) = RegionKeys(m)
  BY <1>1 DEF RegionKeys
<1>3. ASSUME NEW id PROVE Homes(ClearEvents(m), id) = Homes(m, id)
  BY <1>1 DEF Homes
<1> QED BY <1>2, <1>3

\* A subscription is to regions; one that is dropped was out of reach.
LEMMA SubscriptionIs ==
  ASSUME ViewsType, NEW c \in Client
  PROVE  /\ Subscription(c).regions \subseteq Key
         /\ subs[c].regions \ Subscription(c).regions # {} =>
              Kept(c) \subseteq Subscription(c).regions
         /\ ~ Synced(c) => Subscription(c) = subs[c]
<1> DEFINE near == regions_in_vd(pos[Avatar(c)], Reach)
<1>1. near \subseteq Key /\ Kept(c) \subseteq subs[c].regions /\ subs[c].regions \subseteq Key
  BY RegionsInVdType DEF Kept, ViewsType
<1>2. \/ Subscription(c) = subs[c]
      \/ /\ Synced(c)
         /\ Subscription(c) = [fuzzy_chunk |-> ChunkOf(pos[Avatar(c)]), regions |-> Kept(c) \cup near]
  BY DEF Subscription
<1> HIDE DEF near
<1>3. Subscription(c) = subs[c] \/ (Synced(c) /\ Subscription(c).regions = Kept(c) \cup near)
  BY <1>2
<1> QED BY <1>1, <1>3

LEMMA SubscribedStays ==
  ASSUME TypeInv, NEW c \in Client, Synced(c)
  PROVE  Subscription(c) # NotSubscribed
<1> DEFINE p == pos[Avatar(c)]
           sub == [fuzzy_chunk |-> ChunkOf(p), regions |-> Kept(c) \cup regions_in_vd(p, Reach)]
<1>1. p \in Place
  BY AvatarIs DEF TypeInv, MapInv, Storages, Synced, InGame
<1>2. p \in Nat \X Nat
  BY <1>1, RegionConstants
<1>3. Subscription(c) = subs[c] \/ Subscription(c) = sub
  BY DEF Subscription
<1> HIDE DEF p
<1>4. ChunkOf(p) \in Int \X Int
  BY <1>2 DEF ChunkOf, CHUNK
<1>5. sub # NotSubscribed
  BY <1>4, RegionConstants DEF NotSubscribed
<1> QED BY <1>3, <1>5 DEF Synced

\* What the messages about one region bring are entities that are in it.
LEMMA BroughtIs ==
  ASSUME TypeInv, NEW m, Ticked(m), NEW c, NEW now, NEW i \in DOMAIN m,
         NEW u \in Brings(c, now, m[i])
  PROVE  \E id \in Entity : uid[id] = u /\ Homes(m, id) \cap now # {}
<1>1. m \in Maps /\ m[i].key \in Key /\ m[i].bitset \subseteq Entity /\ m[i].entered \subseteq Happening
  BY RegionType DEF Ticked, Sound, Region
<1>2. m[i].key \in now /\ (u \in Arrived(c, m[i], now) \/ u \in UidsOf(m[i].bitset \cap inserted))
  BY DEF Brings
<1>3. CASE u \in Arrived(c, m[i], now)
  <2>1. PICK e \in m[i].entered : uid[e.id] = u
    BY <1>3 DEF Arrived, UidsOf
  <2>2. e \in Happening
    BY <1>1, <2>1
  <2>3. e.id \in Entity /\ e.key \in Key \cup {None} /\ e = [id |-> e.id, key |-> e.key]
    BY <2>2 DEF Happening
  <2>4. <<m[i].key, e.key>> \in Ins(m, e.id)
    BY <1>1, <2>1, <2>3 DEF Ins
  <2>5. \A f \in Ins(m, e.id) : f[1] \in Homes(m, e.id)
    BY <2>3 DEF Ticked, Traced
  <2>6. m[i].key \in Homes(m, e.id)
    BY <2>4, <2>5
  <2> QED BY <1>2, <2>1, <2>3, <2>6
<1>4. CASE u \in UidsOf(m[i].bitset \cap inserted)
  <2>1. PICK id \in m[i].bitset : uid[id] = u
    BY <1>4 DEF UidsOf
  <2>2. m[i].key \in Homes(m, id)
    BY <1>1, <2>1 DEF Homes
  <2> QED BY <1>1, <1>2, <2>1, <2>2
<1> QED BY <1>2, <1>3, <1>4

\* An entity that left a region the client was told about for one it is not:
\* it is told of that, by the region or on dropping it.
LEMMA LeaverIsTold ==
  ASSUME TypeInv, ViewsType, NEW m, m \in Maps, NEW c \in Client, NEW id \in Entity,
         uid[id] # None, NEW k \in subs[c].regions, NEW to,
         <<k, to>> \in Outs(m, id), to \notin Subscription(c).regions, uid[id] # OwnUid(c)
  PROVE  LET now == Subscription(c).regions
         IN  \/ uid[id] \in TakenBy(c, now, m, DOMAIN m)
             \/ uid[id] \in Forgotten(m, c, subs[c].regions \ now)
<1> DEFINE now == Subscription(c).regions
<1>1. PICK i \in DOMAIN m : m[i].key = k /\ [id |-> id, key |-> to] \in m[i].left
  BY DEF Outs
<1> DEFINE e == [id |-> id, key |-> to]
<1>2. e.id = id /\ e.key = to /\ e \in m[i].left
  BY <1>1
<1> HIDE DEF e, now
<1>3. CASE k \in now
  <2>1. e \in {f \in m[i].left : f.key \notin now}
    BY <1>2 DEF now
  <2>2. uid[id] \in Departed(m[i], now)
    BY <1>2, <2>1 DEF Departed, UidsOf
  <2>3. uid[id] \in Takes(c, now, m[i])
    BY <1>1, <1>3, <2>2 DEF Takes
  <2> QED BY <2>3 DEF TakenBy, now
<1>4. CASE k \notin now
  <2> DEFINE dropped == subs[c].regions \ now
             Leavers(region) == {f.id : f \in {g \in region.left : g.key \notin Kept(c)}}
             gone == UNION {Leavers(region) \cup region.bitset : region \in At(m, dropped)}
  <2>1. k \in dropped
    BY <1>4
  <2>2. to \notin Kept(c)
    BY <2>1, SubscriptionIs DEF now
  <2>3. m[i] \in At(m, dropped)
    BY <1>1, <2>1 DEF At
  <2>4. id \in Leavers(m[i])
    BY <1>2, <2>2
  <2>5. id \in gone
    BY <2>3, <2>4
  <2>6. UidsOf(gone) \subseteq Forgotten(m, c, dropped)
    BY DEF Forgotten
  <2> HIDE DEF gone, dropped
  <2>7. uid[id] \in UidsOf(gone)
    BY <2>5 DEF UidsOf
  <2> QED BY <2>6, <2>7 DEF dropped, now
<1> QED BY <1>3, <1>4

\* A deletion in a region the client was told about is told, by the region, on
\* dropping it, or last.
LEMMA DeletionIsTold ==
  ASSUME NEW m, NEW c \in Client, NEW key \in Keys \cap subs[c].regions, NEW u \in deleted[key]
  PROVE  LET now == Subscription(c).regions
         IN  \/ u \in TakenBy(c, now, m, DOMAIN m)
             \/ u \in Forgotten(m, c, subs[c].regions \ now)
             \/ u \in UNION {deleted[k] : k \in (now \cap Keys) \ RegionKeys(m)}
<1> DEFINE now == Subscription(c).regions
<1> HIDE DEF now
<1>1. CASE key \notin now
  BY <1>1 DEF Forgotten, now
<1>2. CASE key \in now /\ key \notin RegionKeys(m)
  BY <1>2 DEF now
<1>3. CASE key \in now /\ key \in RegionKeys(m)
  <2>1. PICK i \in DOMAIN m : m[i].key = key
    BY <1>3 DEF RegionKeys
  <2>2. u \in Takes(c, now, m[i])
    BY <1>3, <2>1 DEF Takes
  <2> QED BY <2>2 DEF TakenBy, now
<1> QED BY <1>1, <1>2, <1>3

\* An entity a client goes on knowing is in a region it goes on being told about.
LEMMA StillFollowed ==
  ASSUME TypeInv, ViewsType, NEW m, Ticked(m), NEW c \in Client, Synced(c), Followed(c),
         NEW u \in AfterSync(m, c), u # OwnUid(c)
  PROVE  \/ u \in Stale(c)
         \/ \E id \in Entity : uid[id] = u /\ Homes(m, id) \cap Subscription(c).regions # {}
<1> DEFINE now     == Subscription(c).regions
           dropped == subs[c].regions \ now
           base    == AfterSubscription(m, c)
           told    == Told(c, now, base, m)
           orphans == UNION {deleted[k] : k \in (now \cap Keys) \ RegionKeys(m)}
           Stays   == \E id \in Entity : uid[id] = u /\ Homes(m, id) \cap now # {}
<1>1. u \in told /\ u \notin orphans
  BY DEF AfterSync, Told, RegionKeys
<1>2. m \in Maps /\ uid \in [Entity -> Uid \cup {None}] /\ known[c] \subseteq Uid
  BY DEF Ticked, Sound, TypeInv, Storages, Worlds
<1>3. base = (known[c] \ (Forgotten(m, c, dropped) \ {OwnUid(c)}))
             \cup Visible(m, now \ subs[c].regions, Avatar(c), pos)
  BY DEF AfterSubscription
<1>4. base \in SUBSET Uid
  <2>1. Visible(m, now \ subs[c].regions, Avatar(c), pos) \subseteq Uid
    BY <1>2, VisibleType
  <2> QED BY <1>2, <1>3, <2>1
<1>5. now \subseteq Key /\ None \notin now
  BY SubscriptionIs, NoneIsNoKey
<1> HIDE DEF base, now
<1>6. Between(told, base, c, now, m, DOMAIN m)
  BY <1>2, <1>4, ToldIs
<1> HIDE DEF told, dropped, orphans
<1>7. CASE u \in BroughtBy(c, now, m, DOMAIN m)
  <2>1. PICK i \in DOMAIN m : u \in Brings(c, now, m[i])
    BY <1>7 DEF BroughtBy
  <2>2. Stays
    BY ONLY TypeInv, Ticked(m), <2>1, BroughtIs
  <2> QED BY <2>2 DEF now
<1>8. CASE u \in base /\ u \notin TakenBy(c, now, m, DOMAIN m)
  <2>1. CASE u \in Visible(m, now \ subs[c].regions, Avatar(c), pos)
    <3>1. \E id \in Entity : uid[id] = u /\ Homes(m, id) \cap (now \ subs[c].regions) # {}
      BY <1>2, <2>1, VisibleIs
    <3> QED BY <3>1 DEF now
  <2>2. CASE u \in known[c] /\ u \notin Forgotten(m, c, dropped)
    <3>1. Excused(c, u) /\ u # None
      BY <1>2, <2>2, NoneIsNoUid DEF Followed
    <3>2. ASSUME NEW id \in Entity, uid[id] = u, NEW k \in Homes(regions, id), k \in subs[c].regions
          PROVE  Stays
      <4>1. ASSUME NEW to, <<k, to>> \in Outs(m, id), to \notin now
            PROVE  FALSE
        BY <1>2, <1>8, <2>2, <3>1, <3>2, <4>1, LeaverIsTold DEF now, dropped
      <4>2. CASE k \in Homes(m, id)
        <5>1. CASE k \in now
          BY <3>2, <4>2, <5>1
        <5>2. CASE k \notin now
          <6>1. k \in dropped
            BY <3>2, <5>2 DEF dropped
          <6>2. PICK i \in DOMAIN m : m[i].key = k /\ id \in m[i].bitset
            BY <4>2 DEF Homes
          <6>3. m[i] \in At(m, dropped)
            BY <6>1, <6>2 DEF At
          <6>4. u \in Forgotten(m, c, dropped)
            BY <3>1, <3>2, <6>2, <6>3 DEF Forgotten, UidsOf
          <6> QED BY <2>2, <6>4
        <5> QED BY <5>1, <5>2
      <4>3. CASE <<k, None>> \in Outs(m, id)
        BY <1>5, <4>1, <4>3
      <4>4. CASE \E to \in Homes(m, id) : <<k, to>> \in Outs(m, id)
        BY <3>2, <4>1, <4>4
      <4>5. Traced(m, regions, pos, id)
        BY DEF Ticked
      <4> QED BY <3>2, <4>2, <4>3, <4>4, <4>5 DEF Traced
    <3>3. ASSUME NEW key \in Keys \cap subs[c].regions, u \in deleted[key]
          PROVE  FALSE
      BY <1>1, <1>8, <2>2, <3>3, DeletionIsTold DEF now, dropped, orphans
    <3> QED BY <3>1, <3>2, <3>3 DEF Excused, now
  <2> QED BY <1>3, <1>8, <2>1, <2>2
<1> QED BY <1>1, <1>6, <1>7, <1>8 DEF Between

LEMMA GhostEnd ==
  ASSUME TypeInv, GhostInv, EndOfTick
  PROVE  GhostInv'
<1> DEFINE m == tick(regions, tracked, pos).regions
<1>1. /\ handled' = 0 /\ uid' = uid /\ pos' = pos /\ owner' = owner
      /\ regions' = ClearEvents(m)
      /\ subs' = [c \in Client |-> Subscription(c)]
      /\ known' = [c \in Client |-> AfterSync(m, c)]
      /\ deleted' = [key \in Keys |-> {}]
      /\ haunting' = {u \in haunting : \E c \in Client : u \in known'[c] /\ u # OwnUid(c)}
      /\ overtaken' = [c \in Client |-> (overtaken[c] \cap known'[c])
                                        \ Visible(m, Subscription(c).regions, Avatar(c), pos)]
  BY DEF EndOfTick, update_region_map, run_sync_systems
<1>2. Ticked(m) /\ KeysKnown /\ ViewsType /\ UidUnique /\ Owned
  BY TickIs DEF GhostInv, TypeInv, Storages
<1> HIDE DEF m
<1>3. m \in Maps
  BY <1>2 DEF Ticked, Sound
<1>4. RegionKeys(regions') = RegionKeys(m) /\ \A id : Homes(regions', id) = Homes(m, id)
  BY <1>1, <1>3, TickClears
<1>5. \A id : Homes(regions, id)' = Homes(m, id)
  BY <1>4 DEF Homes
<1>6. KeysKnown'
  BY <1>2, <1>4 DEF Ticked, KeysKnown, RegionKeys
<1>7. ViewsType'
  BY <1>1, <1>2, SubscriptionIs DEF ViewsType
<1>8. UidUnique'
  BY <1>1, <1>2 DEF UidUnique, Alive
<1>9. Settled'
  <2>1. \A id \in Entity : Homes(m, id) # {} => pos[id] # None
    BY <1>2 DEF Ticked, Traced
  <2> QED BY <1>1, <1>5, <2>1 DEF Settled
<1>10. ASSUME NEW c \in Client PROVE Watched(c)'
  <2>1. (Online(c)' <=> Online(c)) /\ Avatar(c)' = Avatar(c) /\ OwnUid(c)' = OwnUid(c)
    BY <1>1 DEF Online, Avatar, OwnUid
  <2>2. subs'[c] = Subscription(c) /\ known'[c] = AfterSync(m, c)
    BY <1>1
  <2>3. NotSubscribed' = NotSubscribed
    BY DEF NotSubscribed
  <2>4. Synced(c)' <=> Synced(c)
    <3>1. Synced(c)' <=> InGame(c) /\ Subscription(c) # NotSubscribed
      BY <1>1, <2>1, <2>2, <2>3 DEF Synced, InGame
    <3> QED BY <1>2, <3>1, SubscribedStays, SubscriptionIs DEF Synced
  <2>5. Watched(c)
    BY DEF GhostInv
  <2> DEFINE shown == Visible(m, Subscription(c).regions, Avatar(c), pos)
  <2>11. overtaken'[c] = (overtaken[c] \cap known'[c]) \ shown
    BY <1>1
  <2>12. Online(c) /\ ~ Synced(c) => shown = {}
    <3> SUFFICES ASSUME Online(c), ~ Synced(c) PROVE shown = {}
      OBVIOUS
    <3>1. subs[c] = NotSubscribed
      BY <1>2, AvatarIs DEF Synced, TypeInv, Placed
    <3>2. Subscription(c).regions = {}
      BY <1>2, <3>1, SubscriptionIs DEF NotSubscribed
    <3> QED BY <3>2 DEF Visible, At, UidsOf
  <2>13. \A u \in shown : \E id \in Entity : uid[id] = u /\ Homes(m, id) \cap Subscription(c).regions # {}
    BY <1>3, VisibleIs
  <2> HIDE DEF shown
  <2>6. ~ Synced(c) => AfterSync(m, c) = known[c]
    BY DEF AfterSync
  <2>7. Alone(c)'
    <3> SUFFICES ASSUME Online(c), ~ Synced(c), NEW u \in known[c], u # OwnUid(c)
                 PROVE  u \in Stale(c)'
      BY <2>1, <2>2, <2>4, <2>6 DEF Alone
    <3>1. u \in Stale(c) /\ u \in known'[c]
      BY <2>2, <2>5, <2>6 DEF Watched, Alone
    <3>2. u \in haunting => u \in haunting'
      BY <1>1, <3>1
    <3> QED BY <2>11, <2>12, <3>1, <3>2 DEF Stale
  <2>8. ASSUME Synced(c), NEW u \in AfterSync(m, c), u # OwnUid(c)
        PROVE  \/ u \in Stale(c)'
               \/ \E id \in Entity : uid[id] = u /\ Homes(m, id) \cap Subscription(c).regions # {}
    <3>1. Followed(c)
      BY <2>5 DEF Watched
    <3>2. \/ u \in Stale(c)
          \/ \E id \in Entity : uid[id] = u /\ Homes(m, id) \cap Subscription(c).regions # {}
      BY ONLY <1>2, <2>8, <3>1, TypeInv, c \in Client, StillFollowed
    <3>3. u \in haunting => u \in haunting'
      BY <1>1, <2>2, <2>8
    <3> QED BY <2>2, <2>8, <2>11, <2>13, <3>2, <3>3 DEF Stale
  <2>9. Followed(c)'
    <3> SUFFICES ASSUME Synced(c), NEW u \in AfterSync(m, c) PROVE Excused(c, u)'
      BY <2>2, <2>4 DEF Followed
    <3>1. CASE u = OwnUid(c)
      BY <2>1, <3>1 DEF Excused
    <3>2. CASE u # OwnUid(c) /\ u \in Stale(c)'
      BY <3>2 DEF Excused
    <3>3. CASE \E id \in Entity : uid[id] = u /\ Homes(m, id) \cap Subscription(c).regions # {}
      BY <1>1, <1>5, <2>2, <3>3 DEF Excused
    <3> QED BY <2>8, <3>1, <3>2, <3>3
  <2>10. Haunted(c)'
    <3> SUFFICES ASSUME Online(c), NEW id \in Entity, id # Avatar(c), uid[id] # None,
                        pos[id] = None, uid[id] \in AfterSync(m, c)
                 PROVE  uid[id] \in Stale(c)'
      BY <1>1, <2>1, <2>2 DEF Haunted, Alive
    <3>1. \A x \in Entity : uid[x] = uid[id] => x = id
      BY <1>2 DEF UidUnique, Alive
    <3>2. uid[id] # OwnUid(c)
      BY <1>2, <3>1, AvatarIs DEF OwnUid
    <3>3. CASE ~ Synced(c)
      <4>1. known'[c] \subseteq {OwnUid(c)} \cup Stale(c)'
        BY <2>1, <2>4, <2>7, <3>3 DEF Alone
      <4> QED BY <2>2, <3>2, <4>1
    <3>4. ~ \E x \in Entity : uid[x] = uid[id] /\ Homes(m, x) # {}
      BY <1>2, <3>1 DEF Ticked, Traced
    <3>5. CASE Synced(c)
      BY <2>8, <3>2, <3>4, <3>5
    <3> QED BY <3>3, <3>5
  <2> QED BY <2>7, <2>9, <2>10 DEF Watched
<1> QED BY <1>6, <1>7, <1>8, <1>9, <1>10 DEF GhostInv

LEMMA GhostInit == Init => GhostInv
<1> SUFFICES ASSUME Init PROVE GhostInv
  OBVIOUS
<1>1. /\ regions = <<>> /\ subs = [c \in Client |-> NotSubscribed]
      /\ uid = [id \in Entity |-> None] /\ owner = [id \in Entity |-> None]
      /\ deleted = [key \in Keys |-> {}]
  BY DEF Init
<1>2. DOMAIN regions = {}
  BY <1>1
<1>3. KeysKnown
  BY <1>2 DEF KeysKnown, RegionKeys
<1>4. ViewsType
  BY <1>1 DEF ViewsType, NotSubscribed
<1>5. UidUnique
  BY <1>1 DEF UidUnique, Alive
<1>6. Settled
  BY <1>1, <1>2 DEF Settled, Homes
<1>7. \A c \in Client : ~ Online(c)
  BY <1>1, NoneIsNoUid DEF Online
<1>8. \A c \in Client : Watched(c)
  BY <1>7 DEF Watched, Alone, Followed, Haunted, Synced, InGame
<1> QED BY <1>3, <1>4, <1>5, <1>6, <1>8 DEF GhostInv

LEMMA GhostStep ==
  ASSUME TypeInv, GhostInv, [Next]_vars
  PROVE  GhostInv'
<1>1. CASE Handle(Event)
  <2>1. Event /\ regions' = regions /\ handled' = handled + 1
    BY <1>1 DEF Handle, map
  <2> QED BY <2>1, GhostEvent
<1>2. CASE EndOfTick
  BY <1>2, GhostEnd
<1>3. CASE UNCHANGED vars
  <2>1. /\ UNCHANGED <<handled, uid, pos, owner, subs, deleted, regions, known, haunting, overtaken>>
    BY <1>3 DEF vars, ecs, map, history
  <2>2. KeysKnown' /\ ViewsType' /\ UidUnique' /\ Settled'
    BY <2>1 DEF GhostInv, KeysKnown, RegionKeys, ViewsType, UidUnique, Alive, Settled, Homes
  <2>3. ASSUME NEW c \in Client PROVE Watched(c)'
    <3>1. Undisturbed(c)
      BY <2>1, UndisturbedIf DEF TypeInv, Storages
    <3>2. Watched(c) /\ known[c] \subseteq Uid
      BY DEF GhostInv, TypeInv, Worlds
    <3>3. Stale(c)' = Stale(c)
      BY <2>1 DEF Stale
    <3> QED BY <2>1, <3>1, <3>2, <3>3, WatchedKept
  <2> QED BY <2>2, <2>3 DEF GhostInv
<1> QED BY <1>1, <1>2, <1>3 DEF Next

LEMMA GhostAlways == Spec => [](TypeInv /\ GhostInv)
<1>1. Init => TypeInv /\ GhostInv
  BY TypeInit, GhostInit
<1>2. TypeInv /\ GhostInv /\ [Next]_vars => (TypeInv /\ GhostInv)'
  BY TypeStep, GhostStep
<1> QED BY <1>1, <1>2, PTL DEF Spec

\* When a tick ends, a client knows no entity but itself, those it will hear of
\* again since they are in regions it is subscribed to, those of players who
\* left for the character screen, and those it read of after it had itself: the
\* deletions recorded by region reach all others who know the entity, whatever
\* region and client moved in between.
THEOREM NoGhostsAlways == Spec => []NoGhosts
<1>1. ASSUME TypeInv, GhostInv PROVE NoGhosts
  <2> SUFFICES ASSUME handled = 0, NEW c \in Client, Synced(c), NEW u \in known[c],
                      u # OwnUid(c), u \notin haunting, u \notin overtaken[c]
               PROVE  u \in Visible(regions, subs[c].regions, Avatar(c), pos)
    BY DEF NoGhosts
  <2>1. Excused(c, u)
    BY <1>1 DEF GhostInv, Watched, Followed
  <2>2. \A key \in Keys : deleted[key] = {}
    BY <1>1 DEF GhostInv, Settled
  <2>3. PICK id \in Entity : uid[id] = u /\ Homes(regions, id) \cap subs[c].regions # {}
    BY <2>1, <2>2 DEF Excused, Stale
  <2>4. pos[id] # None /\ id # Avatar(c) /\ u # None
    BY <1>1, <2>3, NoneIsNoUid DEF GhostInv, Settled, OwnUid, TypeInv, Worlds
  <2>5. PICK i \in DOMAIN regions : regions[i].key \in subs[c].regions /\ id \in regions[i].bitset
    BY <2>3 DEF Homes
  <2>6. regions[i] \in At(regions, subs[c].regions)
    BY <2>5 DEF At
  <2> QED BY <2>3, <2>4, <2>5, <2>6 DEF Visible, UidsOf
<1> QED BY <1>1, GhostAlways, PTL

-----------------------------------------------------------------------------
(* In view *)

\* A deleted Uid is nobody's.
DeletedDead == \A key \in Keys, id \in Entity : Alive(id) => uid[id] \notin deleted[key]

PosAlive == \A id \in Entity : pos[id] # None => Alive(id)

\* An entity whose index another had that is still in the map is a new one.
Late ==
  \A id \in Entity : Alive(id) /\ pos[id] = None /\ Homes(regions, id) # {} => id \in inserted

\* When a tick ends, an entity with a position is in a region it has not strayed
\* from, and there are no new ones.
Housed ==
  handled = 0 =>
    /\ inserted = {}
    /\ \A id \in Entity : pos[id] # None => \E k \in Homes(regions, id) : ~ Strayed(k, pos[id])

\* The entities of the regions a client is told about, but for the new ones, are
\* those it knows and those that were passed over.
Informed(c) ==
  Synced(c) => \A id \in Entity :
    /\ id # Avatar(c) /\ pos[id] # None /\ id \notin inserted
    /\ Homes(regions, id) \cap subs[c].regions # {}
    => uid[id] \in known[c] \cup missed[c]

\* It is told about all regions around the chunk it was last seen to be in.
Centred(c) ==
  Synced(c) =>
    /\ \E p \in Place : /\ subs[c].fuzzy_chunk = ChunkOf(p)
                        /\ regions_in_vd(p, Reach) \subseteq subs[c].regions
    /\ handled = 0 => ~ Crossed(subs[c].fuzzy_chunk, pos[Avatar(c)])

ViewInv ==
  /\ DeletedDead /\ PosAlive /\ Late /\ Housed
  /\ \A c \in Client : Informed(c) /\ Centred(c)

\* An event is not about a client, or is the one that has it told of the regions
\* around it, or leaves it without a subscription.
LEMMA EventUndisturbs ==
  ASSUME TypeInv, Event, NEW c \in Client
  PROVE  \/ Undisturbed(c) /\ missed'[c] = missed[c]
         \/ ~ Synced(c)'
         \/ c \in Watcher /\ \E p \in Lookout : LoadedCharacterData(c, p)
<1>0. /\ uid \in [Entity -> Uid \cup {None}] /\ pos \in [Entity -> Place \cup {None}]
      /\ owner \in [Entity -> Client \cup {None}] /\ Owned /\ Placed
      /\ known \in [Client -> SUBSET Uid] /\ missed \in [Client -> SUBSET Uid]
      /\ subs = [x \in Client |-> subs[x]] /\ c # None
  BY NoneIsNoUid DEF TypeInv, MapInv, Storages, Worlds, Placed
<1>1. ASSUME NEW id \in Entity, NEW u \in Uid, NEW d \in Client \cup {None}, NEW p \in Place \cup {None},
             Spawn(id, u, d, p), c # d, known'[c] = known[c]
      PROVE  Undisturbed(c) /\ missed'[c] = missed[c]
  <2>1. /\ uid[id] = None /\ uid' = [uid EXCEPT ![id] = u] /\ pos' = [pos EXCEPT ![id] = p]
        /\ owner' = [owner EXCEPT ![id] = d] /\ subs' = subs /\ missed' = missed
    BY <1>1 DEF Spawn, Alive, history
  <2>2. owner[id] = None
    BY <1>0, <2>1 DEF Owned, Alive
  <2>3. \A x \in Entity : owner'[x] = c <=> owner[x] = c
    BY <1>0, <1>1, <2>1, <2>2
  <2>4. \A x \in Entity : owner[x] = c => uid'[x] = uid[x] /\ pos'[x] = pos[x]
    BY <1>0, <2>1, <2>2
  <2> QED BY <1>0, <1>1, <2>1, <2>3, <2>4, UndisturbedIf
<1>2. ASSUME NEW id \in Entity, NEW u \in Uid, NEW p \in Place, CreateNpc(id, u, p)
      PROVE  Undisturbed(c) /\ missed'[c] = missed[c]
  BY <1>0, <1>1, <1>2 DEF CreateNpc
<1>3. ASSUME NEW id \in Entity, NEW u \in Uid, NEW d \in Client, Connect(id, u, d)
      PROVE  (Undisturbed(c) /\ missed'[c] = missed[c]) \/ ~ Synced(c)'
  <2>1. Spawn(id, u, d, None) /\ known' = [known EXCEPT ![d] = {u}] /\ ~ Online(d)
    BY <1>3 DEF Connect
  <2>2. CASE c # d
    BY <1>0, <1>1, <2>1, <2>2
  <2>3. CASE c = d
    <3>1. subs[c] = NotSubscribed
      BY <1>0, <2>1, <2>3 DEF Placed, Online
    <3>2. subs'[c] = NotSubscribed /\ NotSubscribed' = NotSubscribed
      BY <2>1, <3>1 DEF Spawn, NotSubscribed
    <3> QED BY <3>2 DEF Synced
  <2> QED BY <2>2, <2>3
<1>4. ASSUME NEW id \in Entity, NEW p \in Place, Move(id, p)
      PROVE  Undisturbed(c) /\ missed'[c] = missed[c]
  <2>1. /\ pos[id] # None /\ pos' = [pos EXCEPT ![id] = p] /\ p # None
        /\ uid' = uid /\ owner' = owner /\ subs' = subs /\ known' = known /\ missed' = missed
    BY <1>4, NoneIsNoUid DEF Move, history
  <2>2. \A x \in Entity : pos'[x] = None <=> pos[x] = None
    BY <1>0, <2>1
  <2> QED BY <1>0, <2>1, <2>2, UndisturbedIf
<1>5. ASSUME NEW id \in Entity, Delete(id)
      PROVE  Undisturbed(c) /\ missed'[c] = missed[c]
  <2>1. /\ owner[id] = None
        /\ uid' = [uid EXCEPT ![id] = None] /\ pos' = [pos EXCEPT ![id] = None]
        /\ owner' = owner /\ subs' = subs /\ known' = known /\ missed' = missed
    BY <1>5 DEF Delete, history
  <2>2. \A x \in Entity : owner[x] = c => uid'[x] = uid[x] /\ pos'[x] = pos[x]
    BY <1>0, <2>1
  <2> QED BY <1>0, <2>1, <2>2, UndisturbedIf
<1>6. ASSUME NEW d \in Client, handle_client_disconnect(d)
      PROVE  (Undisturbed(c) /\ missed'[c] = missed[c]) \/ ~ Synced(c)'
  <2> DEFINE id == Avatar(d)
  <2>1. /\ Online(d)
        /\ uid' = [uid EXCEPT ![id] = None] /\ pos' = [pos EXCEPT ![id] = None]
        /\ owner' = [owner EXCEPT ![id] = None] /\ subs' = [subs EXCEPT ![d] = NotSubscribed]
        /\ known' = [known EXCEPT ![d] = {}] /\ missed' = [missed EXCEPT ![d] = {}]
    BY <1>6 DEF handle_client_disconnect
  <2>2. id \in Entity /\ owner[id] = d
    BY <1>0, <2>1, AvatarIs
  <2> HIDE DEF id
  <2>3. CASE c = d
    BY <1>0, <2>1, <2>3 DEF Synced, NotSubscribed
  <2>4. CASE c # d
    <3>1. \A x \in Entity : owner'[x] = c <=> owner[x] = c
      BY <1>0, <2>1, <2>2, <2>4
    <3>2. \A x \in Entity : owner[x] = c => uid'[x] = uid[x] /\ pos'[x] = pos[x]
      BY <1>0, <2>1, <2>2, <2>4
    <3>3. subs'[c] = subs[c] /\ known'[c] = known[c] /\ missed'[c] = missed[c]
      BY <1>0, <2>1, <2>4
    <3> QED BY <1>0, <3>1, <3>2, <3>3, UndisturbedIf
  <2> QED BY <2>3, <2>4
<1>7. ASSUME NEW d \in Client, NEW new \in Entity, NEW late \in SUBSET known[d],
             handle_exit_ingame(d, new, late)
      PROVE  (Undisturbed(c) /\ missed'[c] = missed[c]) \/ ~ Synced(c)'
  <2> DEFINE id == Avatar(d)
             u  == uid[id]
  <2>1. /\ InGame(d) /\ uid[new] = None
        /\ uid' = [uid EXCEPT ![new] = u, ![id] = None] /\ pos' = [pos EXCEPT ![id] = None]
        /\ owner' = [owner EXCEPT ![new] = d, ![id] = None]
        /\ subs' = [subs EXCEPT ![d] = NotSubscribed]
        /\ known' = [known EXCEPT ![d] = {u} \cup late] /\ missed' = [missed EXCEPT ![d] = {}]
    BY <1>7 DEF handle_exit_ingame, Alive
  <2>2. id \in Entity /\ owner[id] = d /\ owner[new] = None
    BY <1>0, <2>1, AvatarIs DEF InGame, Owned, Alive
  <2> HIDE DEF id, u
  <2>3. CASE c = d
    BY <1>0, <2>1, <2>3 DEF Synced, NotSubscribed
  <2>4. CASE c # d
    <3>1. \A x \in Entity : owner'[x] = c <=> owner[x] = c
      BY <1>0, <2>1, <2>2, <2>4
    <3>2. \A x \in Entity : owner[x] = c => uid'[x] = uid[x] /\ pos'[x] = pos[x]
      BY <1>0, <2>1, <2>2, <2>4
    <3>3. subs'[c] = subs[c] /\ known'[c] = known[c] /\ missed'[c] = missed[c]
      BY <1>0, <2>1, <2>4
    <3> QED BY <1>0, <3>1, <3>2, <3>3, UndisturbedIf
  <2> QED BY <2>3, <2>4
<1>8. ASSUME NEW d \in Client, initialize_character_data(d)
      PROVE  Undisturbed(c) /\ missed'[c] = missed[c]
  <2>1. /\ Online(d) /\ ~ InGame(d) /\ pos' = [pos EXCEPT ![Avatar(d)] = SpawnPoint]
        /\ uid' = uid /\ owner' = owner /\ subs' = subs /\ known' = known /\ missed' = missed
    BY <1>8 DEF initialize_character_data, history
  <2>2. Avatar(d) \in Entity /\ owner[Avatar(d)] = d /\ subs[d] = NotSubscribed
    BY <1>0, <2>1, AvatarIs DEF Placed
  <2>3. \A x \in Entity : owner[x] = c => (subs[c] # NotSubscribed => pos'[x] = pos[x])
    BY <1>0, <2>1, <2>2
  <2> QED BY <1>0, <2>1, <2>3, UndisturbedIf
<1>9. ASSUME NEW d \in Watcher, NEW p \in Lookout, LoadedCharacterData(d, p), d # c
      PROVE  Undisturbed(c) /\ missed'[c] = missed[c]
  <2> DEFINE seen == Visible(regions, regions_in_vd(p, Reach), Avatar(d), pos')
             sub  == [fuzzy_chunk |-> ChunkOf(p), regions |-> regions_in_vd(p, Reach)]
  <2>1. /\ InGame(d) /\ pos' = [pos EXCEPT ![Avatar(d)] = p]
        /\ subs' = [subs EXCEPT ![d] = sub]
        /\ known' = [known EXCEPT ![d] = @ \cup seen \cup {OwnUid(d)}]
        /\ uid' = uid /\ owner' = owner /\ missed' = missed
    BY <1>9 DEF LoadedCharacterData, history
  <2> HIDE DEF seen, sub
  <2>2. d \in Client /\ p # None
    BY RegionConstants, NoneIsNoUid
  <2>3. pos[Avatar(d)] # None
    BY <2>1 DEF InGame
  <2>4. \A x \in Entity : pos'[x] = None <=> pos[x] = None
    BY <1>0, <2>1, <2>2, <2>3
  <2>5. subs'[c] = subs[c] /\ known'[c] = known[c]
    BY <1>0, <1>9, <2>1
  <2> QED BY <1>0, <2>1, <2>4, <2>5, UndisturbedIf
<1> QED BY <1>2, <1>3, <1>4, <1>5, <1>6, <1>7, <1>8, <1>9 DEF Event

\* What an event may do with an entity: one that is not new was there before.
Persists(x) ==
  /\ pos'[x] # None => uid'[x] # None
  /\ uid'[x] # None /\ x \notin inserted' =>
       /\ uid'[x] = uid[x] /\ x \notin inserted
       /\ pos'[x] = None => pos[x] = None

LEMMA EventEntities ==
  ASSUME TypeInv, PosAlive, Event, NEW x \in Entity
  PROVE  Persists(x)
<1>0. /\ uid \in [Entity -> Uid \cup {None}] /\ pos \in [Entity -> Place \cup {None}]
      /\ owner \in [Entity -> Client \cup {None}] /\ Owned
      /\ pos[x] # None => uid[x] # None
  BY DEF TypeInv, MapInv, Storages, PosAlive, Alive
<1>1. ASSUME NEW id \in Entity, NEW u \in Uid, NEW c, NEW p, Spawn(id, u, c, p)
      PROVE  /\ uid'[x] = IF x = id THEN u ELSE uid[x]
             /\ pos'[x] = IF x = id THEN p ELSE pos[x]
             /\ inserted' = inserted \cup {id} /\ u # None
  <2>1. /\ uid' = [uid EXCEPT ![id] = u] /\ pos' = [pos EXCEPT ![id] = p]
        /\ inserted' = inserted \cup {id}
    BY <1>1 DEF Spawn
  <2> QED BY <1>0, <2>1, NoneIsNoUid
<1>2. ASSUME NEW id \in Entity, NEW u \in Uid, NEW p \in Place, CreateNpc(id, u, p)
      PROVE  Persists(x)
  BY <1>0, <1>1, <1>2 DEF CreateNpc, Persists
<1>3. ASSUME NEW id \in Entity, NEW u \in Uid, NEW c \in Client, Connect(id, u, c)
      PROVE  Persists(x)
  BY <1>0, <1>1, <1>3 DEF Connect, Persists
<1>4. ASSUME NEW id \in Entity, NEW p \in Place, Alive(id), uid' = uid, inserted' = inserted,
             pos' = [pos EXCEPT ![id] = p]
      PROVE  Persists(x)
  <2>1. pos'[x] = IF x = id THEN p ELSE pos[x]
    BY <1>0, <1>4
  <2> QED BY <1>0, <1>4, <2>1, NoneIsNoUid DEF Alive, Persists
<1>5. ASSUME NEW id \in Entity, uid' = [uid EXCEPT ![id] = None], inserted' = inserted \ {id},
             pos' = [pos EXCEPT ![id] = None]
      PROVE  Persists(x)
  <2>1. /\ uid'[x] = IF x = id THEN None ELSE uid[x]
        /\ pos'[x] = IF x = id THEN None ELSE pos[x]
    BY <1>0, <1>5
  <2> QED BY <1>0, <1>5, <2>1 DEF Persists
<1>6. ASSUME NEW id \in Entity, NEW p \in Place, Move(id, p)
      PROVE  Persists(x)
  BY <1>4, <1>6 DEF Move
<1>7. ASSUME NEW id \in Entity, Delete(id)
      PROVE  Persists(x)
  BY <1>5, <1>7 DEF Delete
<1>8. ASSUME NEW c \in Client, handle_client_disconnect(c)
      PROVE  Persists(x)
  <2>1. Avatar(c) \in Entity
    BY <1>0, <1>8, AvatarIs DEF handle_client_disconnect
  <2> QED BY <1>5, <1>8, <2>1 DEF handle_client_disconnect
<1>9. ASSUME NEW c \in Client, NEW new \in Entity, NEW late \in SUBSET known[c],
             handle_exit_ingame(c, new, late)
      PROVE  Persists(x)
  <2> DEFINE id == Avatar(c)
  <2>1. /\ InGame(c) /\ uid[new] = None /\ uid' = [uid EXCEPT ![new] = uid[id], ![id] = None]
        /\ pos' = [pos EXCEPT ![id] = None] /\ inserted' = (inserted \ {id}) \cup {new}
    BY <1>9 DEF handle_exit_ingame, Alive
  <2>2. id \in Entity /\ uid[id] # None
    BY <1>0, <2>1, AvatarIs DEF InGame, Alive
  <2> HIDE DEF id
  <2>3. /\ uid'[x] = IF x = id THEN None ELSE IF x = new THEN uid[id] ELSE uid[x]
        /\ pos'[x] = IF x = id THEN None ELSE pos[x]
    BY <1>0, <2>1, <2>2
  <2> QED BY <1>0, <2>1, <2>2, <2>3 DEF Persists
<1>10. ASSUME NEW c \in Client, initialize_character_data(c)
      PROVE  Persists(x)
  <2>1. Avatar(c) \in Entity /\ Alive(Avatar(c)) /\ SpawnPoint \in Place
    BY <1>0, <1>10, AvatarIs, RegionConstants DEF initialize_character_data
  <2> QED BY <1>4, <1>10, <2>1 DEF initialize_character_data
<1>11. ASSUME NEW c \in Watcher, NEW p \in Lookout, LoadedCharacterData(c, p)
      PROVE  Persists(x)
  <2>1. c \in Client /\ p \in Place /\ InGame(c)
    BY <1>11, RegionConstants DEF LoadedCharacterData
  <2>2. Avatar(c) \in Entity /\ Alive(Avatar(c))
    BY <1>0, <2>1, AvatarIs DEF InGame
  <2> QED BY <1>4, <1>11, <2>1, <2>2 DEF LoadedCharacterData
<1> QED BY <1>2, <1>3, <1>6, <1>7, <1>8, <1>9, <1>10, <1>11 DEF Event

\* A Uid is recorded as deleted when its entity loses it.
LEMMA DeletedEvent ==
  ASSUME TypeInv, UidUnique, DeletedDead, Event
  PROVE  DeletedDead'
<1>0. uid \in [Entity -> Uid \cup {None}] /\ Owned /\ deleted \in [Keys -> SUBSET Uid]
  BY DEF TypeInv, Storages, Worlds
<1>1. ASSUME NEW id \in Entity, NEW u \in Uid, NEW c, NEW p, Spawn(id, u, c, p)
      PROVE  DeletedDead'
  <2>1. uid' = [uid EXCEPT ![id] = u] /\ deleted' = deleted /\ \A key \in Keys : u \notin deleted[key]
    BY <1>1 DEF Spawn, FreshUid
  <2> QED BY <1>0, <2>1 DEF DeletedDead, Alive
<1>2. CASE uid' = uid /\ deleted' = deleted
  BY <1>2 DEF DeletedDead, Alive
<1>3. ASSUME NEW id \in Entity, Record(id, uid[id]), uid' = [uid EXCEPT ![id] = None]
      PROVE  DeletedDead'
  <2>1. \A key \in Keys : deleted'[key] \subseteq deleted[key] \cup {uid[id]}
    <3> DEFINE at == find_region(regions, id)
    <3>1. deleted' = deleted \/ deleted' = [deleted EXCEPT ![at] = @ \cup {uid[id]}]
      BY <1>3 DEF Record
    <3> HIDE DEF at
    <3> QED BY <1>0, <3>1
  <2>2. \A x \in Entity : uid'[x] = IF x = id THEN None ELSE uid[x]
    BY <1>0, <1>3
  <2>3. ASSUME NEW key \in Keys, NEW x \in Entity, uid'[x] # None PROVE uid'[x] \notin deleted'[key]
    <3>1. x # id /\ uid'[x] = uid[x]
      BY <2>2, <2>3
    <3>2. uid[x] # uid[id] /\ uid[x] \notin deleted[key]
      BY <2>3, <3>1 DEF UidUnique, DeletedDead, Alive
    <3> QED BY <2>1, <3>1, <3>2
  <2> QED BY <2>3 DEF DeletedDead, Alive
<1>4. ASSUME NEW id \in Entity, NEW u \in Uid, NEW p \in Place, CreateNpc(id, u, p)
      PROVE  DeletedDead'
  BY <1>1, <1>4 DEF CreateNpc
<1>5. ASSUME NEW id \in Entity, NEW u \in Uid, NEW c \in Client, Connect(id, u, c)
      PROVE  DeletedDead'
  BY <1>1, <1>5 DEF Connect
<1>6. ASSUME NEW id \in Entity, NEW p \in Place, Move(id, p)
      PROVE  DeletedDead'
  BY <1>2, <1>6 DEF Move
<1>7. ASSUME NEW id \in Entity, Delete(id)
      PROVE  DeletedDead'
  BY <1>3, <1>7 DEF Delete
<1>8. ASSUME NEW c \in Client, handle_client_disconnect(c)
      PROVE  DeletedDead'
  <2>1. Avatar(c) \in Entity
    BY <1>0, <1>8, AvatarIs DEF handle_client_disconnect
  <2> QED BY <1>3, <1>8, <2>1 DEF handle_client_disconnect
<1>9. ASSUME NEW c \in Client, NEW new \in Entity, NEW late \in SUBSET known[c],
             handle_exit_ingame(c, new, late)
      PROVE  DeletedDead'
  <2> DEFINE id == Avatar(c)
  <2>1. InGame(c) /\ uid' = [uid EXCEPT ![new] = uid[id], ![id] = None] /\ deleted' = deleted
    BY <1>9 DEF handle_exit_ingame, Record
  <2>2. id \in Entity /\ uid[id] # None
    BY <1>0, <2>1, AvatarIs DEF InGame, Alive
  <2> HIDE DEF id
  <2>3. \A x \in Entity : uid'[x] \in {None, uid[id], uid[x]}
    BY <1>0, <2>1, <2>2
  <2> QED BY <2>1, <2>2, <2>3 DEF DeletedDead, Alive
<1>10. ASSUME NEW c \in Client, initialize_character_data(c)
      PROVE  DeletedDead'
  BY <1>2, <1>10 DEF initialize_character_data
<1>11. ASSUME NEW c \in Watcher, NEW p \in Lookout, LoadedCharacterData(c, p)
      PROVE  DeletedDead'
  BY <1>2, <1>11 DEF LoadedCharacterData
<1> QED BY <1>4, <1>5, <1>6, <1>7, <1>8, <1>9, <1>10, <1>11 DEF Event

LEMMA ViewEvent ==
  ASSUME TypeInv, GhostInv, ViewInv, Event, regions' = regions, handled' = handled + 1
  PROVE  ViewInv'
<1>0. handled' # 0
  BY DEF TypeInv, Storages
<1>1. DeletedDead'
  BY DeletedEvent DEF GhostInv, ViewInv
<1>2. \A x \in Entity :
         /\ pos'[x] # None => uid'[x] # None
         /\ uid'[x] # None /\ x \notin inserted' =>
              /\ uid'[x] = uid[x] /\ x \notin inserted
              /\ pos'[x] = None => pos[x] = None
  BY EventEntities DEF ViewInv, Persists
<1>3. PosAlive'
  BY <1>2 DEF PosAlive, Alive
<1>4. \A x : Homes(regions, x)' = Homes(regions, x)
  BY DEF Homes
<1>5. Late'
  BY <1>2, <1>4 DEF ViewInv, Late, Alive
<1>6. Housed'
  BY <1>0 DEF Housed
<1>7. ASSUME NEW c \in Client, Undisturbed(c), missed'[c] = missed[c]
      PROVE  Informed(c)' /\ Centred(c)'
  <2>1. Informed(c) /\ Centred(c)
    BY DEF ViewInv
  <2>2. Informed(c)'
    <3> SUFFICES ASSUME Synced(c)', NEW x \in Entity, x # Avatar(c)', pos'[x] # None, x \notin inserted',
                        Homes(regions, x) \cap subs'[c].regions # {}
                 PROVE  uid'[x] \in known'[c] \cup missed'[c]
      BY <1>4 DEF Informed
    <3>1. /\ Synced(c) /\ x # Avatar(c) /\ subs'[c] = subs[c] /\ known'[c] = known[c]
          /\ missed'[c] = missed[c]
      BY <1>7 DEF Undisturbed, Synced, InGame
    <3>2. uid'[x] = uid[x] /\ uid[x] # None /\ x \notin inserted
      BY <1>2
    <3>3. pos[x] # None
      BY <3>1, <3>2 DEF ViewInv, Late, Alive
    <3> QED BY <2>1, <3>1, <3>2, <3>3 DEF Informed
  <2>3. Centred(c)'
    <3>1. Synced(c)' => Synced(c) /\ subs'[c] = subs[c]
      BY <1>7 DEF Undisturbed
    <3> QED BY <1>0, <2>1, <3>1 DEF Centred
  <2> QED BY <2>2, <2>3
<1>8. ASSUME NEW c \in Client, ~ Synced(c)'
      PROVE  Informed(c)' /\ Centred(c)'
  BY <1>8 DEF Informed, Centred
<1>9. ASSUME NEW c \in Client, c \in Watcher, NEW p \in Lookout, LoadedCharacterData(c, p)
      PROVE  Informed(c)' /\ Centred(c)'
  <2> DEFINE near == regions_in_vd(p, Reach)
             seen == Visible(regions, near, Avatar(c), pos')
             sub  == [fuzzy_chunk |-> ChunkOf(p), regions |-> near]
  <2>1. /\ subs' = [subs EXCEPT ![c] = sub]
        /\ known' = [known EXCEPT ![c] = @ \cup seen \cup {OwnUid(c)}]
        /\ uid' = uid /\ owner' = owner
    BY <1>9 DEF LoadedCharacterData
  <2>2. sub.regions = near /\ sub.fuzzy_chunk = ChunkOf(p)
    OBVIOUS
  <2>3. Avatar(c)' = Avatar(c)
    BY <2>1 DEF Avatar
  <2>4. \A x \in Entity : /\ x # Avatar(c) /\ pos'[x] # None /\ Homes(regions, x) \cap near # {}
                           => uid[x] \in seen
    <3> SUFFICES ASSUME NEW x \in Entity, x # Avatar(c), pos'[x] # None,
                        NEW k \in Homes(regions, x), k \in near
                 PROVE  uid[x] \in seen
      OBVIOUS
    <3>1. PICK i \in DOMAIN regions : regions[i].key = k /\ x \in regions[i].bitset
      BY DEF Homes
    <3>2. regions[i] \in At(regions, near)
      BY <3>1 DEF At
    <3>3. uid[x] # None
      BY <1>2, <2>1
    <3> QED BY <3>1, <3>2, <3>3 DEF Visible, UidsOf
  <2> HIDE DEF near, seen, sub
  <2>5. subs'[c] = sub /\ seen \subseteq known'[c]
    BY <2>1 DEF TypeInv, Worlds, Placed
  <2>6. Informed(c)'
    BY <1>4, <2>1, <2>2, <2>3, <2>4, <2>5 DEF Informed
  <2>7. p \in Place
    BY RegionConstants
  <2>8. Centred(c)'
    BY <1>0, <2>2, <2>5, <2>7 DEF Centred, near
  <2> QED BY <2>6, <2>8
<1>10. \A c \in Client : Informed(c)' /\ Centred(c)'
  BY <1>7, <1>8, <1>9, EventUndisturbs
<1> QED BY <1>1, <1>3, <1>5, <1>6, <1>10 DEF ViewInv

-----------------------------------------------------------------------------
(* Distances *)

LEMMA ReachIs ==
  /\ view_distance * 32 \in Nat
  /\ Extended(Reach) = [blocks |-> view_distance * 32, diagonals |-> 50]
  /\ Extended(Keep) = [blocks |-> view_distance * 32, diagonals |-> 66]
<1>1. view_distance * 32 \in Nat
  BY RegionConstants
<1> QED BY <1>1 DEF Reach, Keep, Extended, TETHER_LENGTH, CHUNK, CHUNK_FUZZ, REGION_FUZZ

\* What it takes to be within fifty diagonals, and within 66.
LEMMA WithinFifty ==
  ASSUME NEW q \in Nat, NEW v \in Nat, NEW e \in Int, e = q - v * v - 5000
  PROVE  Within(q, [blocks |-> v, diagonals |-> 50]) <=> e < 0 \/ e * e < 20000 * (v * v)
<1>1. 2 * 50 * 50 = 5000 /\ 8 * (v * v) * (50 * 50) = 20000 * (v * v)
  OBVIOUS
<1> QED BY <1>1 DEF Within

LEMMA WithinSixtySix ==
  ASSUME NEW q \in Nat, NEW v \in Nat, NEW e \in Int, e = q - v * v - 8712
  PROVE  Within(q, [blocks |-> v, diagonals |-> 66]) <=> e < 0 \/ e * e < 34848 * (v * v)
<1>1. 2 * 66 * 66 = 8712 /\ 8 * (v * v) * (66 * 66) = 34848 * (v * v)
  OBVIOUS
<1> QED BY <1>1 DEF Within

LEMMA DistanceType ==
  ASSUME NEW x \in Int, NEW y \in Int
  PROVE  /\ Distance(x, y) \in Nat
         /\ x <= y + Distance(x, y) /\ y <= x + Distance(x, y)
BY DEF Distance

\* How far a position is from a region along an axis.
LEMMA GapIs ==
  ASSUME NEW key \in Key, NEW axis \in 1..2, NEW p, p[axis] \in Int
  PROVE  /\ Gap(key, p, axis) \in Nat /\ key[axis] \in Int
         /\ key[axis] * 512 <= p[axis] + Gap(key, p, axis)
         /\ p[axis] <= key[axis] * 512 + 512 + Gap(key, p, axis)
         /\ \A g \in Nat : key[axis] * 512 <= p[axis] + g /\ p[axis] <= key[axis] * 512 + 512 + g
                           => Gap(key, p, axis) <= g
<1>1. axis = 1 \/ axis = 2
  OBVIOUS
<1>2. key[1] \in Int /\ key[2] \in Int
  BY DEF Key
<1>3. key_pos(key)[axis] = key[axis] * 512 /\ key[axis] \in Int
  BY <1>1, <1>2 DEF key_pos, REGION_SIZE
<1>4. PICK e \in Int : e = key[axis] * 512 - p[axis]
  BY <1>3
<1>5. Gap(key, p, axis) = IF e >= 0 THEN e ELSE IF e + 512 < 0 THEN -(e + 512) ELSE 0
  BY <1>3, <1>4 DEF Gap, REGION_SIZE
<1> QED BY <1>3, <1>4, <1>5

LEMMA SquareGrows ==
  ASSUME NEW a \in Nat, NEW b \in Nat, a <= b
  PROVE  a * a <= b * b
<1>1. PICK d \in Nat : b = a + d
  BY b - a \in Nat
<1>2. b * b = a * a + (2 * (a * d) + d * d)
  BY <1>1
<1>3. a * d \in Nat /\ d * d \in Nat /\ a * a \in Nat
  OBVIOUS
<1> QED BY <1>2, <1>3

\* The square of the sum of two sides is at most twice the sum of their squares,
\* and as much only if they are equal.
LEMMA SidesBound ==
  ASSUME NEW a \in Nat, NEW b \in Nat
  PROVE  /\ (a + b) * (a + b) <= 2 * (a * a + b * b)
         /\ (a + b) * (a + b) = 2 * (a * a + b * b) => a = b
<1>1. PICK d \in Nat : a = b + d \/ b = a + d
  <2>1. CASE a <= b
    BY <2>1, b - a \in Nat, b = a + (b - a)
  <2>2. CASE b <= a
    BY <2>2, a - b \in Nat, a = b + (a - b)
  <2> QED BY <2>1, <2>2
<1>2. (a + b) * (a + b) + d * d = 2 * (a * a + b * b)
  BY <1>1
<1>3. d * d \in Nat /\ (d * d = 0 => d = 0) /\ (a + b) * (a + b) \in Nat
  OBVIOUS
<1>4. PICK x \in Nat, y \in Nat, z \in Nat :
        x = (a + b) * (a + b) /\ y = d * d /\ z = a * a + b * b
  BY <1>3
<1> QED BY <1>1, <1>2, <1>3, <1>4

LEMMA SquareGrowsMore ==
  ASSUME NEW a \in Nat, NEW b \in Nat, a * a >= b * b, a <= b
  PROVE  a = b
<1>1. PICK d \in Nat : b = a + d
  BY b - a \in Nat
<1>2. b * b = a * a + (2 * (a * d) + d * d)
  BY <1>1
<1>3. a * d \in Nat /\ d * d \in Nat /\ a * a \in Nat /\ (d * d = 0 => d = 0)
  OBVIOUS
<1> QED BY <1>1, <1>2, <1>3

\* No square has a diagonal of whole chunks if its sides are 14 blocks more than
\* whole chunks.
LEMMA NoDiagonal ==
  ASSUME NEW a \in Nat, NEW d \in Nat, a % 32 = 14
  PROVE  2 * (a * a) # 1024 * (d * d)
<1>1. PICK k \in Nat : a = 32 * k + 14
  <2>1. a = 32 * (a \div 32) + (a % 32) /\ a \div 32 \in Nat
    OBVIOUS
  <2> QED BY <2>1
<1>2. PICK K \in Nat, D \in Nat : K = k * k /\ D = d * d
  OBVIOUS
<1>3. a * a = 1024 * K + 896 * k + 196
  BY <1>1, <1>2
<1>4. 2 * (1024 * K + 896 * k + 196) # 1024 * D
  OBVIOUS
<1> QED BY <1>2, <1>3, <1>4

\* The slack of the subscription makes up for what the client and the entity may
\* have moved unnoticed, 50 blocks along each axis.  It is 50 diagonals and not
\* a bit more: what is left is that they cannot have moved all 50 unless their
\* distance is 14 blocks more than whole chunks.
LEMMA SlackSuffices ==
  ASSUME NEW g \in Nat, NEW h \in Nat, NEW a \in Nat, NEW b \in Nat, NEW d \in Nat,
         a * a + b * b <= (32 * d) * (32 * d), g <= 50 + a, h <= 50 + b,
         g = 50 + a => a % 32 = 14
  PROVE  Within(g * g + h * h, [blocks |-> 32 * d, diagonals |-> 50])
<1>1. g * g <= (50 + a) * (50 + a) /\ h * h <= (50 + b) * (50 + b)
  BY SquareGrows
<1>2. (50 + a) * (50 + a) = 2500 + 100 * a + a * a /\ (50 + b) * (50 + b) = 2500 + 100 * b + b * b
  OBVIOUS
<1>3. g * g = (50 + a) * (50 + a) => g = 50 + a
  BY SquareGrowsMore
<1>4. PICK A \in Nat, B \in Nat, D \in Nat, G \in Nat, H \in Nat :
        A = a * a /\ B = b * b /\ D = d * d /\ G = g * g /\ H = h * h
  OBVIOUS
<1>5. (32 * d) * (32 * d) = 1024 * D
  BY <1>4
<1>6. PICK t \in Nat : t = a + b
  OBVIOUS
<1>7. t * t \in Nat /\ t * t <= 2 * (A + B) /\ (t * t = 2 * (A + B) => a = b)
  BY <1>4, <1>6, SidesBound
<1>8. /\ G <= 2500 + 100 * a + A /\ H <= 2500 + 100 * b + B /\ A + B <= 1024 * D
      /\ G = 2500 + 100 * a + A => a % 32 = 14
  BY <1>1, <1>2, <1>3, <1>4, <1>5
<1>9. a % 32 = 14 => 2 * A # 1024 * D
  BY <1>4, NoDiagonal
<1> DEFINE e == G + H - 1024 * D - 5000
<1>10. ASSUME ~ (e < 0) PROVE e * e < 20000 * (1024 * D)
  <2>1. e \in Nat /\ e <= 100 * t + (A + B - 1024 * D) /\ e <= 100 * t
    BY <1>6, <1>8, <1>10
  <2>2. (e = 100 * t => G = 2500 + 100 * a + A /\ A + B = 1024 * D)
    BY <1>6, <1>8, <2>1
  <2> HIDE DEF e
  <2>3. e * e <= (100 * t) * (100 * t) /\ (e * e >= (100 * t) * (100 * t) => e = 100 * t)
    BY <2>1, SquareGrows, SquareGrowsMore
  <2>4. PICK T \in Nat, F \in Nat : T = t * t /\ F = e * e
    BY <1>7, <2>1
  <2>5. (100 * t) * (100 * t) = 10000 * T
    BY <2>4
  <2>6. a = b => A = B
    BY <1>4
  <2> SUFFICES ASSUME F >= 20000 * (1024 * D) PROVE FALSE
    BY <2>4
  <2>7. F <= 10000 * T /\ T <= 2 * (A + B) /\ A + B <= 1024 * D
    BY <1>7, <1>8, <2>3, <2>4, <2>5
  <2>8. F = 10000 * T /\ T = 2 * (A + B) /\ A + B = 1024 * D
    BY <2>7
  <2>9. e = 100 * t /\ a = b
    BY <1>7, <2>3, <2>4, <2>5, <2>8
  <2>10. 2 * A = 1024 * D /\ a % 32 = 14
    BY <1>8, <2>2, <2>6, <2>8, <2>9
  <2> QED BY <1>9, <2>10
<1>11. PICK q \in Nat, v \in Nat : q = G + H /\ v = 32 * d
  OBVIOUS
<1>12. v * v = 1024 * D /\ g * g + h * h = q
  BY <1>4, <1>5, <1>11
<1>13. e \in Int /\ e = q - v * v - 5000
  BY <1>11, <1>12
<1> HIDE DEF e
<1>14. e < 0 \/ e * e < 20000 * (v * v)
  BY <1>10, <1>12, <1>13
<1>15. Within(q, [blocks |-> v, diagonals |-> 50])
  BY ONLY <1>13, <1>14, q \in Nat, v \in Nat, WithinFifty
<1> QED BY <1>11, <1>12, <1>15

\* Sixteen more diagonals reach as far.
LEMMA MoreDiagonals ==
  ASSUME NEW q \in Nat, NEW v \in Nat, Within(q, [blocks |-> v, diagonals |-> 50])
  PROVE  Within(q, [blocks |-> v, diagonals |-> 66])
<1>1. PICK V \in Nat : V = v * v
  OBVIOUS
<1>2. PICK e \in Int, f \in Int : e = q - V - 5000 /\ f = q - V - 8712
  BY <1>1
<1>3. e < 0 \/ e * e < 20000 * V
  BY <1>1, <1>2, WithinFifty
<1>4. CASE f < 0
  BY <1>1, <1>2, <1>4, WithinSixtySix
<1>5. CASE f >= 0
  <2>1. f \in Nat /\ e \in Nat /\ f <= e
    BY <1>2, <1>5
  <2>2. f * f <= e * e /\ f * f \in Nat /\ e * e \in Nat
    BY <2>1, SquareGrows
  <2>3. f * f < 34848 * V
    BY <1>3, <2>1, <2>2
  <2> QED BY <1>1, <1>2, <2>3, WithinSixtySix
<1> QED BY <1>2, <1>4, <1>5

\* Fifty diagonals are less than 71 blocks.
LEMMA WithinWhole ==
  ASSUME NEW g \in Nat, NEW h \in Nat, NEW v \in Nat,
         Within(g * g + h * h, [blocks |-> v, diagonals |-> 50])
  PROVE  g <= v + 70
<1> SUFFICES ASSUME v + 71 <= g PROVE FALSE
  OBVIOUS
<1>1. PICK V \in Nat, G \in Nat, H \in Nat : V = v * v /\ G = g * g /\ H = h * h
  OBVIOUS
<1>2. (v + 71) * (v + 71) <= G /\ (v + 71) * (v + 71) = V + 142 * v + 5041
  BY <1>1, SquareGrows
<1>3. PICK e \in Int : e = G + H - V - 5000
  BY <1>1
<1>4. e >= 142 * v + 41
  BY <1>1, <1>2, <1>3
<1>5. (142 * v + 1) * (142 * v + 1) <= e * e
  BY <1>4, SquareGrows
<1>6. (142 * v + 1) * (142 * v + 1) = 20164 * V + 284 * v + 1
  BY <1>1
<1>7. ~ (e < 0 \/ e * e < 20000 * V)
  BY <1>1, <1>4, <1>5, <1>6
<1>8. G + H \in Nat /\ G + H = g * g + h * h
  BY <1>1
<1> QED BY <1>1, <1>3, <1>7, <1>8, WithinFifty

\* A client that has not crossed is within 34 blocks of where it was last seen,
\* and less if it was not at the lower end of a chunk.
LEMMA NotCrossed ==
  ASSUME NEW p0 \in Nat \X Nat, NEW p \in Nat \X Nat, ~ Crossed(ChunkOf(p0), p), NEW axis \in 1..2
  PROVE  /\ p0[axis] <= p[axis] + 33 /\ p[axis] <= p0[axis] + 34
         /\ p[axis] = p0[axis] + 34 => p0[axis] % 32 = 0
<1>1. axis = 1 \/ axis = 2
  OBVIOUS
<1>2. PICK x \in Nat, y \in Nat : x = p0[axis] /\ y = p[axis]
  BY <1>1
<1>3. ChunkOf(p0)[axis] = x \div 32 /\ ChunkOf(p)[axis] = y \div 32
  BY <1>1, <1>2 DEF ChunkOf, CHUNK
<1>4. PICK f \in Int : f = x \div 32 /\ f * 32 <= x /\ x < f * 32 + 32
  OBVIOUS
<1>5. PICK h \in Int : h = y \div 32 /\ h * 32 <= y /\ y < h * 32 + 32
  OBVIOUS
<1>6. CASE ChunkOf(p) = ChunkOf(p0)
  <2>1. f = h
    BY <1>3, <1>4, <1>5, <1>6
  <2> QED BY <1>2, <1>4, <1>5, <2>1
<1>7. CASE ~ (Distance(f * 32 + 16, y) > 18)
  <2>1. f * 32 + 16 <= y + 18 /\ y <= f * 32 + 16 + 18
    BY <1>4, <1>7 DEF Distance
  <2> QED BY <1>2, <1>4, <1>5, <2>1
<1>8. ChunkOf(p) = ChunkOf(p0) \/ ~ (Distance(f * 32 + 16, y) > 18)
  <2>1. \/ ChunkOf(p) = ChunkOf(p0)
        \/ ~ (Distance(ChunkOf(p0)[axis] * CHUNK + CHUNK \div 2, p[axis]) > CHUNK \div 2 + CHUNK_FUZZ)
    BY DEF Crossed
  <2>2. CHUNK = 32 /\ CHUNK \div 2 = 16 /\ CHUNK \div 2 + CHUNK_FUZZ = 18
    BY DEF CHUNK, CHUNK_FUZZ
  <2> QED BY <1>2, <1>3, <1>4, <2>1, <2>2
<1> QED BY <1>6, <1>7, <1>8

\* An entity that has not strayed is within 16 blocks of its region, below it.
LEMMA NotStrayed ==
  ASSUME NEW key \in Key, NEW q \in Nat \X Nat, ~ Strayed(key, q), NEW axis \in 1..2
  PROVE  key[axis] * 512 <= q[axis] + 16 /\ q[axis] <= key[axis] * 512 + 511
<1>1. axis = 1 \/ axis = 2
  OBVIOUS
<1>2. PICK k \in Int, y \in Nat : k = key[axis] /\ y = q[axis]
  BY <1>1 DEF Key
<1>3. pos_key(q)[axis] = y \div 512 /\ key_pos(key)[axis] = k * 512
  BY <1>1, <1>2 DEF pos_key, key_pos, REGION_SIZE
<1>4. CASE pos_key(q) = key
  <2>1. k = y \div 512
    BY <1>2, <1>3, <1>4
  <2>2. PICK h \in Int : h = y \div 512 /\ h * 512 <= y /\ y < h * 512 + 512
    OBVIOUS
  <2> QED BY <1>2, <2>1, <2>2
<1>5. CASE ~ (Distance(y, k * 512) > 16)
  <2>1. y <= k * 512 + 16 /\ k * 512 <= y + 16
    BY <1>2, <1>5 DEF Distance
  <2> QED BY <1>2, <2>1
<1>6. pos_key(q) = key \/ ~ (Distance(y, k * 512) > 16)
  BY <1>2, <1>3 DEF Strayed, TETHER_LENGTH
<1> QED BY <1>4, <1>5, <1>6

\* The candidates of regions_in_vd are all regions within reach where there are
\* positions.
LEMMA RegionsInVdIs ==
  ASSUME NEW key \in Nat \X Nat, NEW p \in Nat \X Nat, region_in_vd(key, p, Reach)
  PROVE  key \in regions_in_vd(p, Reach)
<1> DEFINE D == view_distance * 32
           lo == pos_key(<<Below(p[1], Extended(Reach)), Below(p[2], Extended(Reach))>>)
           hi == pos_key(<<p[1] + Whole(Extended(Reach)), p[2] + Whole(Extended(Reach))>>)
           g(axis) == Gap(key, p, axis)
<1>1. D \in Nat /\ Extended(Reach) = [blocks |-> D, diagonals |-> 50]
  BY ReachIs
<1>2. Within(g(1) * g(1) + g(2) * g(2), [blocks |-> D, diagonals |-> 50])
  BY <1>1 DEF region_in_vd
<1>3. Whole(Extended(Reach)) = D + 70
  BY <1>1 DEF Whole
<1>4. regions_in_vd(p, Reach) = {k \in (lo[1]..hi[1]) \X (lo[2]..hi[2]) : region_in_vd(k, p, Reach)}
  BY DEF regions_in_vd
<1>5. key \in Key /\ p[1] \in Int /\ p[2] \in Int
  BY DEF Key
<1>6. /\ g(1) \in Nat /\ key[1] \in Nat
      /\ key[1] * 512 <= p[1] + g(1) /\ p[1] <= key[1] * 512 + 512 + g(1)
  BY <1>5, GapIs
<1>7. /\ g(2) \in Nat /\ key[2] \in Nat
      /\ key[2] * 512 <= p[2] + g(2) /\ p[2] <= key[2] * 512 + 512 + g(2)
  BY <1>5, GapIs
<1>8. /\ lo[1] = Below(p[1], Extended(Reach)) \div 512 /\ hi[1] = (p[1] + (D + 70)) \div 512
      /\ lo[2] = Below(p[2], Extended(Reach)) \div 512 /\ hi[2] = (p[2] + (D + 70)) \div 512
  BY <1>3 DEF pos_key, REGION_SIZE
<1> HIDE DEF g, lo, hi, D
<1>9. g(1) <= D + 70 /\ g(2) <= D + 70
  <2>1. g(1) * g(1) + g(2) * g(2) = g(2) * g(2) + g(1) * g(1)
    BY <1>6, <1>7
  <2>2. g(1) <= D + 70
    BY ONLY ZenonT(60), <1>1, <1>2, <1>6, <1>7, WithinWhole
  <2>3. Within(g(2) * g(2) + g(1) * g(1), [blocks |-> D, diagonals |-> 50])
    BY <1>2, <2>1
  <2>4. g(2) <= D + 70
    BY ONLY ZenonT(60), <1>1, <2>3, <1>6, <1>7, WithinWhole
  <2> QED BY <2>2, <2>4
<1>10. ASSUME NEW k \in Nat, NEW x \in Nat, NEW e \in Nat, e <= D + 70,
              k * 512 <= x + e, x <= k * 512 + 512 + e
       PROVE  k \in (Below(x, Extended(Reach)) \div 512)..((x + (D + 70)) \div 512)
  <2>1. PICK r \in Nat : r = D + 70
    BY <1>1
  <2>2. PICK low \in Int : low = Below(x, Extended(Reach))
    BY <1>3, <2>1 DEF Below
  <2>3. low = IF x > r THEN x - r - 1 ELSE x - r
    BY <1>3, <2>1, <2>2 DEF Below
  <2>4. low <= k * 512 + 511
    BY <1>10, <2>1, <2>3
  <2>5. low \div 512 <= k /\ k <= (x + r) \div 512
    BY <1>10, <2>1, <2>4
  <2> QED BY <2>1, <2>2, <2>5
<1>11. key[1] \in lo[1]..hi[1] /\ key[2] \in lo[2]..hi[2]
  <2>1. p[1] \in Nat /\ p[2] \in Nat
    OBVIOUS
  <2>2. key[1] \in (Below(p[1], Extended(Reach)) \div 512)..((p[1] + (D + 70)) \div 512)
    BY ONLY <1>6, <1>9, <1>10, <2>1
  <2>3. key[2] \in (Below(p[2], Extended(Reach)) \div 512)..((p[2] + (D + 70)) \div 512)
    BY ONLY <1>7, <1>9, <1>10, <2>1
  <2> QED BY <1>8, <2>2, <2>3
<1>12. key = <<key[1], key[2]>>
  OBVIOUS
<1>13. key \in (lo[1]..hi[1]) \X (lo[2]..hi[2])
  BY <1>11, <1>12
<1> QED BY <1>4, <1>13

\* A region within reach is within the reach that keeps it.
LEMMA KeepsReach ==
  ASSUME NEW key \in Key, NEW p \in Nat \X Nat, region_in_vd(key, p, Reach)
  PROVE  region_in_vd(key, p, Keep)
<1> DEFINE square == Gap(key, p, 1) * Gap(key, p, 1) + Gap(key, p, 2) * Gap(key, p, 2)
<1>1. Gap(key, p, 1) \in Nat /\ Gap(key, p, 2) \in Nat
  BY GapIs
<1>2. square \in Nat /\ view_distance * 32 \in Nat
  BY <1>1, ReachIs
<1>3. Within(square, [blocks |-> view_distance * 32, diagonals |-> 50])
  BY ReachIs DEF region_in_vd
<1> HIDE DEF square
<1>4. Within(square, [blocks |-> view_distance * 32, diagonals |-> 66])
  BY <1>2, <1>3, MoreDiagonals
<1> QED BY <1>4, ReachIs DEF region_in_vd, square

\* The region of an entity in sight of a client is one of those around the chunk
\* the client was last seen to be in.
LEMMA SightIsReached ==
  ASSUME NEW key \in Key, NEW p0 \in Nat \X Nat, NEW p \in Nat \X Nat, NEW q \in Nat \X Nat,
         ~ Crossed(ChunkOf(p0), p), InSight(p, q), ~ Strayed(key, q)
  PROVE  key \in regions_in_vd(p0, Reach)
<1> DEFINE a(axis) == Distance(p[axis], q[axis])
           g(axis) == Gap(key, p0, axis)
<1>1. PICK d \in Nat : d = view_distance
  BY RegionConstants
<1>2. a(1) * a(1) + a(2) * a(2) <= (32 * d) * (32 * d) /\ view_distance * 32 = 32 * d
  BY <1>1 DEF InSight, CHUNK
<1>3. ASSUME NEW axis \in 1..2
      PROVE  /\ a(axis) \in Nat /\ g(axis) \in Nat /\ g(axis) <= 50 + a(axis)
             /\ g(axis) = 50 + a(axis) => a(axis) % 32 = 14
             /\ key[axis] \in Nat
  <2>1. p0[axis] \in Nat /\ p[axis] \in Nat /\ q[axis] \in Nat
    BY axis = 1 \/ axis = 2
  <2>2. /\ p0[axis] <= p[axis] + 33 /\ p[axis] <= p0[axis] + 34
        /\ p[axis] = p0[axis] + 34 => p0[axis] % 32 = 0
    BY NotCrossed
  <2>3. key[axis] * 512 <= q[axis] + 16 /\ q[axis] <= key[axis] * 512 + 511
    BY NotStrayed
  <2>4. a(axis) \in Nat /\ p[axis] <= q[axis] + a(axis) /\ q[axis] <= p[axis] + a(axis)
    BY <2>1, DistanceType
  <2>5. p0[axis] \in Int
    BY <2>1
  <2>6. g(axis) \in Nat /\ key[axis] \in Int
    BY ONLY <2>5, key \in Key, axis \in 1..2, GapIs
  <2>7. ASSUME NEW e \in Nat, key[axis] * 512 <= p0[axis] + e, p0[axis] <= key[axis] * 512 + 512 + e
        PROVE  g(axis) <= e
    BY ONLY <2>5, <2>7, key \in Key, axis \in 1..2, GapIs
  <2> HIDE DEF a, g
  <2>8. /\ key[axis] * 512 <= p0[axis] + (50 + a(axis))
        /\ p0[axis] <= key[axis] * 512 + 512 + (49 + a(axis))
        /\ 50 + a(axis) \in Nat /\ 49 + a(axis) \in Nat
    BY <2>1, <2>2, <2>3, <2>4, <2>6
  <2>9. g(axis) <= 50 + a(axis)
    BY <2>1, <2>4, <2>6, <2>8, <2>7
  <2>10. ASSUME g(axis) = 50 + a(axis) PROVE a(axis) % 32 = 14
    <3>1. ~ (key[axis] * 512 <= p0[axis] + (49 + a(axis)))
      BY <2>4, <2>6, <2>7, <2>8, <2>10
    <3>2. key[axis] * 512 = p0[axis] + 50 + a(axis) /\ p[axis] = p0[axis] + 34
      BY <2>1, <2>2, <2>3, <2>4, <2>6, <2>8, <3>1
    <3>3. PICK x \in Nat, y \in Nat, k \in Int : x = p0[axis] /\ y = a(axis) /\ k = key[axis]
      BY <2>1, <2>4, <2>6
    <3>4. k * 512 = x + 50 + y /\ x % 32 = 0
      BY <2>2, <3>2, <3>3
    <3>5. y % 32 = 14
      BY <3>4
    <3> QED BY <3>3, <3>5
  <2>11. key[axis] \in Nat
    BY <2>1, <2>3, <2>6
  <2> QED BY <2>4, <2>6, <2>9, <2>10, <2>11
<1>4. /\ a(1) \in Nat /\ g(1) \in Nat /\ g(1) <= 50 + a(1)
      /\ a(2) \in Nat /\ g(2) \in Nat /\ g(2) <= 50 + a(2)
      /\ g(1) = 50 + a(1) => a(1) % 32 = 14
      /\ key[1] \in Nat /\ key[2] \in Nat
  BY <1>3
<1> HIDE DEF a, g
<1>5. Within(g(1) * g(1) + g(2) * g(2), [blocks |-> 32 * d, diagonals |-> 50])
  BY <1>2, <1>4, SlackSuffices
<1>6. region_in_vd(key, p0, Reach)
  BY <1>2, <1>5, ReachIs DEF region_in_vd, g
<1>7. key \in Nat \X Nat
  BY <1>4 DEF Key
<1> QED BY <1>6, <1>7, RegionsInVdIs

-----------------------------------------------------------------------------
(* What a client is told at the end of a tick *)

\* A region the client goes on being told about is kept when others are dropped.
LEMMA KeptIs ==
  ASSUME TypeInv, ViewsType, NEW c \in Client, Synced(c),
         NEW k \in subs[c].regions, k \in Subscription(c).regions,
         subs[c].regions \ Subscription(c).regions # {}
  PROVE  k \in Kept(c)
<1> DEFINE p == pos[Avatar(c)]
           near == regions_in_vd(p, Reach)
<1>1. p \in Nat \X Nat
  <2>1. p \in Place
    BY AvatarIs DEF TypeInv, MapInv, Storages, Synced, InGame
  <2> QED BY <2>1, RegionConstants
<1>2. \/ Subscription(c) = subs[c]
      \/ Subscription(c) = [fuzzy_chunk |-> ChunkOf(p), regions |-> Kept(c) \cup near]
  BY DEF Subscription
<1>3. \A x \in near : region_in_vd(x, p, Reach)
  BY DEF regions_in_vd
<1>4. k \in Key
  BY DEF ViewsType
<1> HIDE DEF near, p
<1>5. k \in Kept(c) \cup near
  BY <1>2
<1>6. CASE k \in near
  <2>1. region_in_vd(k, p, Keep)
    BY <1>1, <1>3, <1>4, <1>6, KeepsReach
  <2> QED BY <2>1 DEF Kept, p
<1> QED BY <1>5, <1>6

\* An entity with a position in a region the client is told about.
Shown(m, c, x, k) ==
  /\ x # Avatar(c) /\ pos[x] # None
  /\ k \in Homes(m, x) /\ k \in Subscription(c).regions

LEMMA ShownUid ==
  ASSUME TypeInv, UidUnique, PosAlive, NEW m, NEW c \in Client, Synced(c),
         NEW x \in Entity, NEW k, Shown(m, c, x, k)
  PROVE  /\ uid[x] \in Uid /\ uid[x] # None /\ uid[x] # OwnUid(c)
         /\ \A y \in Entity : uid[y] = uid[x] => y = x
<1>1. uid[x] # None
  BY DEF Shown, PosAlive, Alive
<1>2. uid[x] \in Uid
  BY <1>1 DEF TypeInv, Storages
<1>3. \A y \in Entity : uid[y] = uid[x] => y = x
  BY <1>1 DEF UidUnique, Alive
<1>4. Avatar(c) \in Entity
  BY AvatarIs DEF TypeInv, Storages, Synced, InGame
<1> QED BY <1>1, <1>2, <1>3, <1>4 DEF OwnUid, Shown

\* No message about a region takes it from the client.
LEMMA ShownNotTaken ==
  ASSUME TypeInv, UidUnique, PosAlive, DeletedDead, NEW m, Ticked(m), NEW c \in Client, Synced(c),
         NEW x \in Entity, NEW k, Shown(m, c, x, k)
  PROVE  /\ uid[x] \notin TakenBy(c, Subscription(c).regions, m, DOMAIN m)
         /\ \A key \in Keys : uid[x] \notin deleted[key]
<1> DEFINE now == Subscription(c).regions
           u == uid[x]
<1>1. /\ u \in Uid /\ u # None /\ \A y \in Entity : uid[y] = u => y = x
  BY ShownUid
<1>2. \A key \in Keys : u \notin deleted[key]
  BY <1>1 DEF DeletedDead, Alive
<1>3. k \in now /\ k \in Homes(m, x)
  BY DEF Shown
<1> HIDE DEF now, u
<1>4. ASSUME NEW i \in DOMAIN m, m[i].key \in now, u \in Departed(m[i], now)
      PROVE  FALSE
  <2>1. PICK e \in m[i].left : e.key \notin now /\ uid[e.id] = u
    BY <1>4 DEF Departed, UidsOf
  <2>2. m[i].key \in Key /\ e \in Happening
    BY <2>1, RegionType DEF Ticked, Sound, Region
  <2>3. e.id = x /\ e.key \in Key \cup {None} /\ e = [id |-> e.id, key |-> e.key]
    BY <1>1, <2>1, <2>2 DEF Happening
  <2>4. <<m[i].key, e.key>> \in Outs(m, x)
    BY <2>1, <2>2, <2>3 DEF Outs
  <2>5. \A f \in Outs(m, x) : f[2] = k
    BY <1>3 DEF Ticked, Traced
  <2>6. e.key = k
    BY <2>4, <2>5
  <2> QED BY <1>3, <2>1, <2>6
<1>5. ASSUME NEW i \in DOMAIN m
      PROVE  u \notin Takes(c, now, m[i])
  <2>1. m[i].key \in Keys
    BY DEF Ticked, RegionKeys
  <2> QED BY <1>2, <1>4, <2>1 DEF Takes
<1>6. u \notin TakenBy(c, now, m, DOMAIN m)
  BY <1>5 DEF TakenBy
<1> QED BY <1>2, <1>6 DEF now, u

\* Nor is it forgotten with the regions that are dropped.
LEMMA ShownNotForgotten ==
  ASSUME TypeInv, UidUnique, PosAlive, DeletedDead, ViewsType, NEW m, Ticked(m),
         NEW c \in Client, Synced(c), NEW x \in Entity, NEW k, Shown(m, c, x, k), k \in subs[c].regions
  PROVE  uid[x] \notin Forgotten(m, c, subs[c].regions \ Subscription(c).regions)
<1> DEFINE now == Subscription(c).regions
           u == uid[x]
           dropped == subs[c].regions \ now
           Leavers(region) == {e.id : e \in {f \in region.left : f.key \notin Kept(c)}}
<1>1. /\ u \in Uid /\ u # None /\ \A y \in Entity : uid[y] = u => y = x
  BY ShownUid
<1>2. \A key \in Keys : u \notin deleted[key]
  BY ShownNotTaken
<1>3. k \in now /\ k \in Homes(m, x)
  BY DEF Shown
<1> SUFFICES ASSUME u \in Forgotten(m, c, dropped) PROVE FALSE
  OBVIOUS
<1>4. dropped # {}
  BY DEF Forgotten, At, UidsOf
<1>5. k \in Kept(c)
  BY <1>3, <1>4, KeptIs
<1>6. PICK region \in At(m, dropped) :
         \E y \in Leavers(region) \cup region.bitset : uid[y] = u
  BY <1>2 DEF Forgotten, UidsOf
<1>7. PICK y \in Leavers(region) \cup region.bitset : uid[y] = u
  BY <1>6
<1>8. PICK i \in DOMAIN m : region = m[i] /\ m[i].key \in dropped
  BY DEF At
<1>9. m[i].key \in Key /\ m[i].bitset \subseteq Entity /\ m[i].left \subseteq Happening
  BY RegionType DEF Ticked, Sound, Region
<1> HIDE DEF now, u
<1>10. CASE y \in m[i].bitset
  <2>1. y = x
    BY <1>1, <1>7, <1>9, <1>10
  <2>2. PICK j \in DOMAIN m : m[j].key = k /\ x \in m[j].bitset
    BY <1>3 DEF Homes
  <2>3. i = j
    BY <1>10, <2>1, <2>2 DEF Ticked, Sound, Apart
  <2> QED BY <1>3, <1>8, <2>2, <2>3
<1>11. CASE y \in Leavers(m[i])
  <2>1. PICK e \in m[i].left : e.key \notin Kept(c) /\ e.id = y
    BY <1>11
  <2>2. e \in Happening
    BY <1>9, <2>1
  <2>3. e.id = x /\ e.key \in Key \cup {None} /\ e = [id |-> e.id, key |-> e.key]
    BY <1>1, <1>7, <2>1, <2>2 DEF Happening
  <2>4. <<m[i].key, e.key>> \in Outs(m, x)
    BY <1>9, <2>1, <2>3 DEF Outs
  <2>5. \A f \in Outs(m, x) : f[2] = k
    BY <1>3 DEF Ticked, Traced
  <2>6. e.key = k
    BY <2>4, <2>5
  <2> QED BY <1>5, <2>1, <2>6
<1> QED BY <1>7, <1>8, <1>10, <1>11

\* A new one is told with the region, and so is one from elsewhere.
LEMMA ShownBrought ==
  ASSUME TypeInv, UidUnique, PosAlive, NEW m, Ticked(m), NEW c \in Client, Synced(c),
         NEW x \in Entity, NEW k, Shown(m, c, x, k),
         \/ x \in inserted
         \/ \E from : <<k, from>> \in Ins(m, x) /\ from \notin Subscription(c).regions
  PROVE  uid[x] \in BroughtBy(c, Subscription(c).regions, m, DOMAIN m)
<1> DEFINE now == Subscription(c).regions
<1>1. uid[x] # None
  BY ShownUid
<1>2. k \in now /\ k \in Homes(m, x) /\ x # Avatar(c) /\ pos[x] # None
  BY DEF Shown
<1> HIDE DEF now
<1>3. CASE x \in inserted
  <2>1. PICK i \in DOMAIN m : m[i].key = k /\ x \in m[i].bitset
    BY <1>2 DEF Homes
  <2>2. uid[x] \in Brings(c, now, m[i])
    BY <1>1, <1>2, <1>3, <2>1 DEF Brings, UidsOf
  <2> QED BY <2>2 DEF BroughtBy, now
<1>4. CASE x \notin inserted
  <2>1. PICK from : <<k, from>> \in Ins(m, x) /\ from \notin now
    BY <1>4 DEF now
  <2> DEFINE f == [id |-> x, key |-> from]
  <2>2. PICK i \in DOMAIN m : m[i].key = k /\ f \in m[i].entered
    BY <2>1 DEF Ins
  <2>3. f.id = x /\ f.key = from
    OBVIOUS
  <2> HIDE DEF f
  <2>4. uid[x] \in Arrived(c, m[i], now)
    BY <1>1, <1>2, <1>4, <2>1, <2>2, <2>3 DEF Arrived, UidsOf
  <2>5. uid[x] \in Brings(c, now, m[i])
    BY <1>2, <2>2, <2>4 DEF Brings
  <2> QED BY <2>5 DEF BroughtBy, now
<1> QED BY <1>3, <1>4

\* When a tick ends, a client knows what is in its regions, but for what was
\* passed over.
LEMMA StillInformed ==
  ASSUME TypeInv, UidUnique, PosAlive, DeletedDead, ViewsType,
         NEW m, Ticked(m), NEW c \in Client, Synced(c), Informed(c),
         NEW x \in Entity, NEW k, Shown(m, c, x, k)
  PROVE  uid[x] \in AfterSync(m, c) \cup missed[c] \cup PassedOver(m, c)
<1> DEFINE now     == Subscription(c).regions
           dropped == subs[c].regions \ now
           base    == AfterSubscription(m, c)
           told    == Told(c, now, base, m)
           orphans == UNION {deleted[key] : key \in (now \cap Keys) \ RegionKeys(m)}
           u       == uid[x]
<1> SUFFICES ASSUME u \notin missed[c], u \notin PassedOver(m, c)
             PROVE  u \in AfterSync(m, c)
  OBVIOUS
<1>1. AfterSync(m, c) = told \ (orphans \ {OwnUid(c)})
  BY DEF AfterSync, Told, RegionKeys
<1>2. m \in Maps /\ uid \in [Entity -> Uid \cup {None}] /\ known[c] \subseteq Uid
  BY DEF Ticked, Sound, TypeInv, Storages, Worlds
<1>3. base = (known[c] \ (Forgotten(m, c, dropped) \ {OwnUid(c)}))
             \cup Visible(m, now \ subs[c].regions, Avatar(c), pos)
  BY DEF AfterSubscription
<1>4. base \in SUBSET Uid
  <2>1. Visible(m, now \ subs[c].regions, Avatar(c), pos) \subseteq Uid
    BY <1>2, VisibleType
  <2> QED BY <1>2, <1>3, <2>1
<1>5. None \notin now
  BY SubscriptionIs, NoneIsNoKey
<1>6. u \notin TakenBy(c, now, m, DOMAIN m) /\ u \notin orphans
  BY ShownNotTaken
<1>7. u # None /\ x # Avatar(c) /\ pos[x] # None /\ k \in Homes(m, x) /\ k \in now
  BY ShownUid DEF Shown
<1>8. k \in subs[c].regions => u \notin Forgotten(m, c, dropped)
  BY ShownNotForgotten
<1>9. ASSUME x \in inserted \/ \E from : <<k, from>> \in Ins(m, x) /\ from \notin now
      PROVE  u \in BroughtBy(c, now, m, DOMAIN m)
  BY <1>9, ShownBrought
<1> HIDE DEF base, now
<1>10. Between(told, base, c, now, m, DOMAIN m)
  BY <1>2, <1>4, ToldIs
<1>11. Traced(m, regions, pos, x)
  BY DEF Ticked
<1> HIDE DEF told, dropped, orphans
<1>12. CASE u \in base \cup BroughtBy(c, now, m, DOMAIN m)
  BY <1>1, <1>6, <1>10, <1>12 DEF Between
<1>13. CASE k \notin subs[c].regions
  <2>1. PICK i \in DOMAIN m : m[i].key = k /\ x \in m[i].bitset
    BY <1>7 DEF Homes
  <2>2. m[i] \in At(m, now \ subs[c].regions)
    BY <1>7, <1>13, <2>1 DEF At
  <2>3. u \in Visible(m, now \ subs[c].regions, Avatar(c), pos)
    BY <1>7, <2>1, <2>2 DEF Visible, UidsOf
  <2> QED BY <1>3, <1>12, <2>3
<1>14. ASSUME k \in subs[c].regions, x \notin inserted, NEW from \in Homes(regions, x), from \in subs[c].regions
       PROVE  u \in AfterSync(m, c)
  <2>1. u \in known[c] \cup missed[c]
    BY <1>7, <1>14 DEF Informed
  <2>2. u \in base
    BY <1>3, <1>8, <1>14, <2>1
  <2> QED BY <1>12, <2>2
<1>15. CASE k \in subs[c].regions /\ x \notin inserted
  <2>1. CASE k \in Homes(regions, x)
    BY <1>14, <1>15, <2>1
  <2>2. CASE <<k, None>> \in Ins(m, x)
    BY <1>5, <1>9, <1>12, <2>2
  <2>3. CASE \E from \in Homes(regions, x) : <<k, from>> \in Ins(m, x)
    <3>1. PICK from \in Homes(regions, x) : <<k, from>> \in Ins(m, x)
      BY <2>3
    <3>2. CASE from \notin now
      BY <1>9, <1>12, <3>1, <3>2
    <3>3. CASE from \in subs[c].regions
      BY <1>14, <1>15, <3>3
    <3>4. CASE from \in now \ subs[c].regions
      <4> DEFINE f == [id |-> x, key |-> from]
      <4>1. PICK i \in DOMAIN m : m[i].key = k /\ f \in m[i].entered
        BY <3>1 DEF Ins
      <4>2. f.id = x /\ f.key = from
        OBVIOUS
      <4> HIDE DEF f
      <4>3. m[i] \in At(m, now)
        BY <1>7, <4>1 DEF At
      <4>4. u \in PassedOver(m, c)
        BY <1>7, <3>4, <4>1, <4>2, <4>3 DEF PassedOver, UidsOf, now
      <4> QED BY <4>4
    <3> QED BY <3>2, <3>3, <3>4
  <2> QED BY <1>7, <1>11, <2>1, <2>2, <2>3 DEF Traced
<1>16. CASE x \in inserted
  BY <1>9, <1>12, <1>16
<1> QED BY <1>13, <1>15, <1>16

LEMMA ViewEnd ==
  ASSUME TypeInv, GhostInv, ViewInv, EndOfTick
  PROVE  ViewInv'
<1> DEFINE m == tick(regions, tracked, pos).regions
<1>1. /\ handled' = 0 /\ inserted' = {} /\ uid' = uid /\ pos' = pos /\ owner' = owner
      /\ regions' = ClearEvents(m)
      /\ subs' = [c \in Client |-> Subscription(c)]
      /\ known' = [c \in Client |-> AfterSync(m, c)]
      /\ deleted' = [key \in Keys |-> {}]
      /\ missed' = [c \in Client |->
           IF ~Synced(c) THEN {}
           ELSE ((missed[c] \cup PassedOver(m, c)) \ known'[c])
                \cap Visible(m, Subscription(c).regions, Avatar(c), pos)]
  BY DEF EndOfTick, update_region_map, run_sync_systems
<1>2. /\ Ticked(m) /\ ViewsType /\ UidUnique /\ Owned /\ PosAlive /\ DeletedDead
      /\ pos \in [Entity -> Place \cup {None}]
  BY TickIs DEF GhostInv, ViewInv, TypeInv, Storages, MapInv
<1> HIDE DEF m
<1>3. m \in Maps
  BY <1>2 DEF Ticked, Sound
<1>4. \A x : Homes(regions, x)' = Homes(m, x)
  <2>1. \A x : Homes(regions', x) = Homes(m, x)
    BY <1>1, <1>3, TickClears
  <2> QED BY <2>1 DEF Homes
<1>5. \A x \in Entity : /\ Homes(m, x) # {} => pos[x] # None
                        /\ pos[x] # None => \E k \in Homes(m, x) : ~ Strayed(k, pos[x])
  BY <1>2 DEF Ticked, Traced
<1>6. DeletedDead' /\ PosAlive'
  BY <1>1, <1>2 DEF DeletedDead, PosAlive, Alive
<1>7. Late' /\ Housed'
  BY <1>1, <1>4, <1>5 DEF Late, Housed, Alive
<1>8. ASSUME NEW c \in Client PROVE Informed(c)' /\ Centred(c)'
  <2>1. (Online(c)' <=> Online(c)) /\ Avatar(c)' = Avatar(c)
    BY <1>1 DEF Online, Avatar
  <2>2. subs'[c] = Subscription(c) /\ known'[c] = AfterSync(m, c)
    BY <1>1
  <2>3. NotSubscribed' = NotSubscribed
    BY DEF NotSubscribed
  <2>4. Synced(c)' => Synced(c)
    <3>1. Synced(c)' => InGame(c) /\ Subscription(c) # NotSubscribed
      BY <1>1, <2>1, <2>2, <2>3 DEF Synced, InGame
    <3> QED BY <1>2, <3>1, SubscriptionIs DEF Synced
  <2>5. Informed(c) /\ Centred(c)
    BY DEF ViewInv
  <2>6. Informed(c)'
    <3> SUFFICES ASSUME Synced(c), NEW x \in Entity, x # Avatar(c), pos[x] # None,
                        NEW k \in Homes(m, x), k \in Subscription(c).regions
                 PROVE  uid[x] \in AfterSync(m, c) \cup missed'[c]
      BY <1>1, <1>4, <2>1, <2>2, <2>4 DEF Informed
    <3>1. Shown(m, c, x, k)
      BY DEF Shown
    <3>2. uid[x] \in AfterSync(m, c) \cup missed[c] \cup PassedOver(m, c)
      BY ONLY TypeInv, <1>2, <2>5, c \in Client, Synced(c), x \in Entity, <3>1, StillInformed
    <3>3. uid[x] \in Visible(m, Subscription(c).regions, Avatar(c), pos)
      <4>1. PICK i \in DOMAIN m : m[i].key = k /\ x \in m[i].bitset
        BY DEF Homes
      <4>2. m[i] \in At(m, Subscription(c).regions)
        BY <4>1 DEF At
      <4>3. uid[x] # None
        BY <1>2 DEF PosAlive, Alive
      <4> QED BY <4>1, <4>2, <4>3 DEF Visible, UidsOf
    <3>4. missed'[c] = ((missed[c] \cup PassedOver(m, c)) \ AfterSync(m, c))
                       \cap Visible(m, Subscription(c).regions, Avatar(c), pos)
      BY <1>1, <2>2
    <3> QED BY <3>2, <3>3, <3>4
  <2>7. Centred(c)'
    <3> SUFFICES ASSUME Synced(c)
                 PROVE  /\ \E p \in Place : /\ Subscription(c).fuzzy_chunk = ChunkOf(p)
                                            /\ regions_in_vd(p, Reach) \subseteq Subscription(c).regions
                        /\ ~ Crossed(Subscription(c).fuzzy_chunk, pos[Avatar(c)])
      <4>1. Synced(c)' => Synced(c)
        BY <2>4
      <4> QED BY <1>1, <2>1, <2>2, <4>1 DEF Centred, Crossed
    <3> DEFINE p == pos[Avatar(c)]
               near == regions_in_vd(p, Reach)
    <3>1. p \in Place
      BY <1>2, AvatarIs DEF Synced, InGame
    <3>2. CASE Crossed(subs[c].fuzzy_chunk, p)
      <4>1. Subscription(c) = [fuzzy_chunk |-> ChunkOf(p), regions |-> Kept(c) \cup near]
        BY <3>2 DEF Subscription
      <4> HIDE DEF p, near
      <4>2. Subscription(c).fuzzy_chunk = ChunkOf(p) /\ near \subseteq Subscription(c).regions
        BY <4>1
      <4>3. ~ Crossed(Subscription(c).fuzzy_chunk, p)
        BY <4>2 DEF Crossed
      <4> QED BY <3>1, <4>2, <4>3 DEF near, p
    <3>3. CASE ~ Crossed(subs[c].fuzzy_chunk, p)
      <4>1. Subscription(c) = subs[c]
        BY <3>3 DEF Subscription
      <4> QED BY <2>5, <3>3, <4>1 DEF Centred
    <3> QED BY <3>2, <3>3
  <2> QED BY <2>6, <2>7
<1> QED BY <1>6, <1>7, <1>8 DEF ViewInv

LEMMA ViewInit == Init => ViewInv
<1> SUFFICES ASSUME Init PROVE ViewInv
  OBVIOUS
<1>1. /\ inserted = {} /\ pos = [id \in Entity |-> None]
      /\ uid = [id \in Entity |-> None] /\ owner = [id \in Entity |-> None]
  BY DEF Init
<1>2. DeletedDead /\ PosAlive /\ Late /\ Housed
  BY <1>1 DEF DeletedDead, PosAlive, Late, Housed, Alive
<1>3. \A c \in Client : ~ Online(c)
  BY <1>1, NoneIsNoUid DEF Online
<1> QED BY <1>2, <1>3 DEF ViewInv, Informed, Centred, Synced, InGame

LEMMA ViewStep ==
  ASSUME TypeInv, GhostInv, ViewInv, [Next]_vars
  PROVE  ViewInv'
<1>1. CASE Handle(Event)
  <2>1. Event /\ regions' = regions /\ handled' = handled + 1
    BY <1>1 DEF Handle, map
  <2> QED BY <2>1, ViewEvent
<1>2. CASE EndOfTick
  BY <1>2, ViewEnd
<1>3. CASE UNCHANGED vars
  <2>1. UNCHANGED <<handled, uid, pos, owner, inserted, subs, deleted, regions, known, missed>>
    BY <1>3 DEF vars, ecs, map, history
  <2>2. DeletedDead' /\ PosAlive' /\ Late' /\ Housed'
    BY <2>1 DEF ViewInv, DeletedDead, PosAlive, Alive, Late, Housed, Homes
  <2>3. ASSUME NEW c \in Client PROVE Informed(c)' /\ Centred(c)'
    <3>1. Undisturbed(c)
      BY <2>1, UndisturbedIf DEF TypeInv, Storages
    <3>2. Synced(c)' => Synced(c) /\ Avatar(c)' = Avatar(c)
      BY <3>1 DEF Undisturbed, Synced, InGame
    <3>3. Informed(c) /\ Centred(c)
      BY DEF ViewInv
    <3> QED BY <2>1, <3>2, <3>3 DEF Informed, Centred, Homes, Crossed
  <2> QED BY <2>2, <2>3 DEF ViewInv
<1> QED BY <1>1, <1>2, <1>3 DEF Next

LEMMA ViewAlways == Spec => [](TypeInv /\ GhostInv /\ ViewInv)
<1>1. Init => TypeInv /\ GhostInv /\ ViewInv
  BY TypeInit, GhostInit, ViewInit
<1>2. TypeInv /\ GhostInv /\ ViewInv /\ [Next]_vars => (TypeInv /\ GhostInv /\ ViewInv)'
  BY TypeStep, GhostStep, ViewStep
<1> QED BY <1>1, <1>2, PTL DEF Spec

\* When a tick ends, a client knows every entity within its view distance, but
\* for those entity_sync passed over: the regions around the chunk it was last
\* seen to be in hold whatever is in sight of where it is now, although both it
\* and the entity may have moved unnoticed, and what enters, leaves or appears
\* in them is told once and not taken back.  The reach is just what is needed: it
\* is never met exactly only because chunks lie on a grid.
THEOREM InViewAlways == Spec => []InView
<1>1. ASSUME TypeInv, GhostInv, ViewInv PROVE InView
  <2> SUFFICES ASSUME handled = 0, NEW c \in Client, Synced(c), NEW u \in UidsOf(Unseen(c))
               PROVE  u \in missed[c]
    BY DEF InView
  <2>1. PICK x \in Entity :
          /\ uid[x] = u /\ x # Avatar(c) /\ pos[x] # None /\ InSight(pos[Avatar(c)], pos[x])
          /\ uid[x] \notin known[c]
    BY DEF UidsOf, Unseen
  <2>2. inserted = {} /\ \E k \in Homes(regions, x) : ~ Strayed(k, pos[x])
    BY <1>1, <2>1 DEF ViewInv, Housed
  <2>3. PICK k \in Homes(regions, x) : ~ Strayed(k, pos[x])
    BY <2>2
  <2>4. PICK p0 \in Place : /\ subs[c].fuzzy_chunk = ChunkOf(p0)
                            /\ regions_in_vd(p0, Reach) \subseteq subs[c].regions
    BY <1>1 DEF ViewInv, Centred
  <2>5. ~ Crossed(subs[c].fuzzy_chunk, pos[Avatar(c)])
    BY <1>1 DEF ViewInv, Centred
  <2>6. pos[Avatar(c)] \in Place /\ pos[x] \in Place
    BY <1>1, <2>1, AvatarIs DEF TypeInv, MapInv, Storages, Synced, InGame
  <2>7. k \in Key /\ p0 \in Nat \X Nat /\ pos[Avatar(c)] \in Nat \X Nat /\ pos[x] \in Nat \X Nat
    BY <2>6, RegionConstants DEF Homes
  <2>8. k \in regions_in_vd(p0, Reach)
    BY <2>1, <2>3, <2>4, <2>5, <2>7, SightIsReached
  <2>9. Informed(c)
    BY <1>1 DEF ViewInv
  <2> QED BY <2>1, <2>2, <2>3, <2>4, <2>8, <2>9 DEF Informed
<1> QED BY <1>1, ViewAlways, PTL
===============================================================================
