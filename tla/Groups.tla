------------------------------- MODULE Groups --------------------------------
(***************************************************************************)
(* Groups of players and their pets: the GroupManager and the Group        *)
(* component (common/src/comp/group.rs), the handlers of group             *)
(* manipulations (server/src/events/group_manip.rs) and the taming and the *)
(* death of pets. Module Invites adds the invites that let players join    *)
(* and the coming and going of player entities.                            *)
(*                                                                         *)
(* An operation of the manager is an operator that yields the set of       *)
(* registries it may leave behind: the Slab hands out any vacant key and a *)
(* disbanded group is split in the order of a HashMap. An operation may    *)
(* call others, so the sets compose. Chat messages and the notifications   *)
(* of clients are left out.                                                *)
(***************************************************************************)
EXTENDS Integers, FiniteSets, Functions

CONSTANTS
  Player,     \* Uids of the players
  Pet,        \* Uids of the animals that can be tamed
  GroupId,    \* keys of the Slab; the bound on groups that exist at once
  MaxLives,   \* bound: entities a player has, one more per ExitInGame
  MaxPets,    \* animals a player may own
  NoGroup,    \* no Group component
  NoInfo,     \* a vacant key
  Wild,       \* the alignment of an animal nobody owns
  Dead        \* the animal's entity is deleted

ASSUME GroupsAssumption ==
  /\ IsFiniteSet(Player) /\ IsFiniteSet(Pet)
  /\ Player \cap Pet = {}
  /\ NoGroup \notin GroupId
  /\ MaxLives \in Nat \ {0}
  /\ MaxPets \in Nat
  /\ Wild # Dead /\ {Wild, Dead} \cap (Player \cup Pet) = {}

Body == Player \cup Pet

\* specs::Entity of a player: the Uid moves on to a new entity at the
\* character screen, handles of the old one go stale.
Entity == Player \X (1..MaxLives)

GroupInfo == [leader : Entity, num_members : Nat]
ASSUME NoInfoAssumption == NoInfo \notin GroupInfo

Registry == [member : [Body -> GroupId \cup {NoGroup}],
             info   : [GroupId -> GroupInfo \cup {NoInfo}]]

VARIABLES
  reg,     \* member: the Group component; info: GroupManager.groups
  owner,   \* of a pet: the Alignment
  life,    \* of a player: which entity carries its Uid
  place    \* of that entity: in the game, on the character screen, or gone

groupVars == <<reg, owner, life, place>>

GroupsTypeOK ==
  /\ reg \in Registry
  /\ owner \in [Pet -> Player \cup {Wild, Dead}]
  /\ life \in [Player -> 1..MaxLives]
  /\ place \in [Player -> {"game", "screen", "gone"}]

GroupsInit ==
  /\ reg = [member |-> [b \in Body |-> NoGroup],
            info   |-> [g \in GroupId |-> NoInfo]]
  /\ owner = [a \in Pet |-> Wild]
  /\ life = [p \in Player |-> 1]
  /\ place = [p \in Player |-> "game"]

Ent(p)     == <<p, life[p]>>
Exists(p)  == place[p] # "gone"
InGame(p)  == place[p] = "game"
PetsOf(b)  == {a \in Pet : owner[a] = b}

\* Only an entity in the world has an Alignment.
HasAlignment(b) == b \in Pet \/ InGame(b)

-----------------------------------------------------------------------------
(* The registry *)

Vacant(r) == {g \in GroupId : r.info[g] = NoInfo}
Live(r)   == GroupId \ Vacant(r)

\* The group of b has an info and its leader is the entity of p.
LedBy(r, b, p) ==
  /\ r.member[b] \in Live(r)
  /\ r.info[r.member[b]].leader = Ent(p)

\* The iterator members: it joins with the alignments.
Members(r, g) == {b \in Body : r.member[b] = g /\ HasAlignment(b)}

Put(r, bodies, g) ==
  [r EXCEPT !.member = [b \in Body |-> IF b \in bodies THEN g ELSE @[b]]]

CreateGroup(r, g, p, n) ==
  [r EXCEPT !.info[g] = [leader |-> Ent(p), num_members |-> n]]

RemoveGroup(r, g) == [r EXCEPT !.info[g] = NoInfo]

\* The leader goes: whoever has pets in the group gets a group with them,
\* everyone else is left without one.
Disband(r, p, deleted) ==
  LET g      == r.member[p]
      rest   == {b \in Body : r.member[b] = g} \ (IF deleted THEN {p} ELSE {})
      heads  == {q \in Player \cap rest : PetsOf(q) \cap rest # {}}
      closed == RemoveGroup(r, g)
      Head(b) == IF b \in Pet THEN owner[b] ELSE b
      Split(new) ==
        [member |-> [b \in Body |-> CASE b \notin rest        -> r.member[b]
                                      [] b \in rest /\ Head(b) \in heads
                                                              -> new[Head(b)]
                                      [] OTHER                -> NoGroup],
         info   |-> [h \in GroupId |->
                       IF \E q \in heads : new[q] = h
                       THEN [leader |-> Ent(CHOOSE q \in heads : new[q] = h),
                             num_members |-> 1]
                       ELSE closed.info[h]]]
  IN {Split(new) : new \in Injection(heads, Vacant(closed))}

\* Mutant: the pets stay behind.
DepartAlone(r, b, deleted) == {Put(r, {b}, NoGroup)}

\* A member goes: with pets, and unless it is to be deleted, into a group
\* of its own.
Depart(r, b, deleted) ==
  LET all == {b} \cup PetsOf(b)
  IN IF PetsOf(b) # {} /\ ~deleted
     THEN {Put(CreateGroup(r, h, b, 1), all, h) : h \in Vacant(r)}
     ELSE {Put(r, all, NoGroup)}

\* Mutant: num_members is not adjusted.
ShrinkUncounted(r, g, b) ==
  IF g \in Live(r) /\ Cardinality(Members(r, g)) = 1
  THEN Put(RemoveGroup(r, g), {q \in Player : Ent(q) = r.info[g].leader}, NoGroup)
  ELSE r

\* Mutant: the leaving pets are counted as members.
ShrinkWithPets(r, g, b) ==
  IF g \in Vacant(r) THEN r
  ELSE LET leader == {q \in Player : Ent(q) = r.info[g].leader}
       IN IF Cardinality(Members(r, g)) = 1
          THEN Put(RemoveGroup(r, g), leader, NoGroup)
          ELSE [r EXCEPT !.info[g].num_members = @ - 1 - Cardinality(PetsOf(b))]

\* Mutant: the last member goes, the info stays.
ShrinkKeepInfo(r, g, b) ==
  IF g \in Live(r) /\ Cardinality(Members(r, g)) = 1
  THEN Put(r, {q \in Player : Ent(q) = r.info[g].leader}, NoGroup)
  ELSE r

\* What is left of the group g that b departed from. Its key may be the one
\* of the group just created if the member's Group was dangling.
Shrink(r, g, b) ==
  IF g \in Vacant(r) THEN r
  ELSE LET n       == r.info[g].num_members
           leader  == r.info[g].leader
           left    == [r EXCEPT !.info[g].num_members =
                         IF b \in Player /\ n > 0 THEN n - 1 ELSE n]
           current == {q \in Player : Ent(q) = leader}
       IN IF Cardinality(Members(left, g)) = 1
          THEN Put(RemoveGroup(left, g), current, NoGroup)
          ELSE left

RemoveFromGroup(r, b, deleted) ==
  LET g == r.member[b]
  IN IF g = NoGroup THEN {r}
     ELSE IF b \in Player /\ LedBy(r, b, b) THEN Disband(r, b, deleted)
     ELSE {Shrink(s, g, b) : s \in Depart(r, b, deleted)}

\* Mutant: whoever invites adds to the group they are in.
LeadersGroupJoin(r, p) ==
  IF r.member[p] \in Live(r)
  THEN {<<[r EXCEPT !.info[r.member[p]].num_members = @ + 1], r.member[p]>>}
  ELSE {<<Put(CreateGroup(r, g, p, 2), {p}, g), g>> : g \in Vacant(r)}

\* The group of the new members' leader, who first leaves a group it does
\* not lead: pairs of a registry and the key.
LeadersGroup(r, p) ==
  IF LedBy(r, p, p)
  THEN {<<[r EXCEPT !.info[r.member[p]].num_members = @ + 1], r.member[p]>>}
  ELSE UNION {{<<Put(CreateGroup(s, g, p, 2), {p}, g), g>> : g \in Vacant(s)} :
                s \in RemoveFromGroup(r, p, FALSE)}

AddGroupMember(r, p, q) ==
  LET free == IF r.member[q] \in Live(r)
              THEN RemoveFromGroup(r, q, FALSE) ELSE {r}
  IN UNION {{Put(t[1], {q} \cup PetsOf(q), t[2]) : t \in LeadersGroup(s, p)} :
              s \in free}

AddPet(r, p, a) ==
  IF r.member[p] # NoGroup
  THEN {Put(r, {a}, r.member[p])}
  ELSE {Put(CreateGroup(r, g, p, 1), {p, a}, g) : g \in Vacant(r)}

-----------------------------------------------------------------------------
(* Group manipulations: as chat commands they also reach the server from   *)
(* the character screen                                                    *)

Leave(p) ==
  /\ Exists(p)
  /\ reg.member[p] # NoGroup
  /\ reg' \in RemoveFromGroup(reg, p, FALSE)
  /\ UNCHANGED <<owner, life, place>>

\* The target may be on the character screen: its Uid is mapped. Pets
\* cannot be kicked.
Kick(p, q) ==
  /\ Exists(p) /\ Exists(q) /\ p # q
  /\ LedBy(reg, q, p)
  /\ reg' \in RemoveFromGroup(reg, q, FALSE)
  /\ UNCHANGED <<owner, life, place>>

AssignLeader(p, q) ==
  /\ Exists(p) /\ Exists(q)
  /\ LedBy(reg, q, p)
  /\ reg' = [reg EXCEPT !.info[reg.member[q]].leader = Ent(q)]
  /\ UNCHANGED <<owner, life, place>>

\* A collar is used on the animal.
NewPet(p, a) ==
  /\ InGame(p)
  /\ owner[a] = Wild
  /\ Cardinality(PetsOf(p)) < MaxPets
  /\ owner' = [owner EXCEPT ![a] = p]
  /\ reg' \in AddPet(reg, p, a)
  /\ UNCHANGED <<life, place>>

\* The entity is deleted, and its components with it.
PetDies(a) ==
  /\ owner[a] \in Player
  /\ \E r \in RemoveFromGroup(reg, a, TRUE) : reg' = Put(r, {a}, NoGroup)
  /\ owner' = [owner EXCEPT ![a] = Dead]
  /\ UNCHANGED <<life, place>>

-----------------------------------------------------------------------------
(* Players who come and go *)

\* Mutant: the leader stays the old entity.
MoveEntityForgetLeader(p) ==
  /\ InGame(p)
  /\ life[p] < MaxLives
  /\ life' = [life EXCEPT ![p] = @ + 1]
  /\ place' = [place EXCEPT ![p] = "screen"]
  /\ UNCHANGED <<reg, owner>>

\* The Uid, the Group component and the leadership move to a new entity
\* that has no Alignment until it enters the game.
MoveEntity(p) ==
  /\ InGame(p)
  /\ life[p] < MaxLives
  /\ life' = [life EXCEPT ![p] = @ + 1]
  /\ place' = [place EXCEPT ![p] = "screen"]
  /\ reg' = IF LedBy(reg, p, p)
            THEN [reg EXCEPT !.info[reg.member[p]].leader = <<p, life[p] + 1>>]
            ELSE reg
  /\ UNCHANGED owner

EnterGame(p) ==
  /\ place[p] = "screen"
  /\ place' = [place EXCEPT ![p] = "game"]
  /\ UNCHANGED <<reg, owner, life>>

DeleteEntity(p) ==
  /\ Exists(p)
  /\ \E r \in RemoveFromGroup(reg, p, TRUE) : reg' = Put(r, {p}, NoGroup)
  /\ place' = [place EXCEPT ![p] = "gone"]
  /\ UNCHANGED <<owner, life>>

=============================================================================
