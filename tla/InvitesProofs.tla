---------------------------- MODULE InvitesProofs ----------------------------
(***************************************************************************)
(* Proofs about Invites, for any players, pets, keys and bounds:           *)
(*  - type correctness of the group registry and of the invites;           *)
(*  - the two tables of invites agree about every two players who are      *)
(*    connected (InvitePaired).                                            *)
(* What the operations of the GroupManager do to a registry is the subject *)
(* of the first lemmas. The rest of the module is about the groups: those  *)
(* of players alone, and pets in the groups of their owners.               *)
(***************************************************************************)
EXTENDS Invites, FiniteSetTheorems, TLAPS

\* Put, CreateGroup and RemoveGroup stay within the registries.
LEMMA PutType ==
  ASSUME NEW r \in Registry, NEW bodies, NEW g \in GroupId \cup {NoGroup}
  PROVE  Put(r, bodies, g) \in Registry
BY DEF Put, Registry

LEMMA CreateGroupType ==
  ASSUME GroupsTypeOK, NEW r \in Registry, NEW g \in GroupId, NEW p \in Player,
         NEW n \in Nat
  PROVE  CreateGroup(r, g, p, n) \in Registry
<1>1. Ent(p) \in Entity
  BY DEF Ent, Entity, GroupsTypeOK
<1> QED
  BY <1>1 DEF CreateGroup, Registry, GroupInfo

LEMMA RemoveGroupType ==
  ASSUME NEW r \in Registry, NEW g
  PROVE  RemoveGroup(r, g) \in Registry
BY DEF RemoveGroup, Registry

\* Keys the Slab hands out are keys.
LEMMA KeyTypes ==
  ASSUME NEW r \in Registry
  PROVE  /\ Vacant(r) \subseteq GroupId
         /\ Live(r) \subseteq GroupId
         /\ \A g \in Live(r) : r.info[g] \in GroupInfo
         /\ \A b \in Body : r.member[b] \in GroupId \cup {NoGroup}
BY DEF Vacant, Live, Registry

\* A disbanded group leaves registries behind.
LEMMA DisbandType ==
  ASSUME GroupsTypeOK, NEW r \in Registry, NEW p \in Player, NEW deleted \in BOOLEAN
  PROVE  Disband(r, p, deleted) \subseteq Registry
<1> DEFINE g      == r.member[p]
           rest   == {b \in Body : r.member[b] = g} \ (IF deleted THEN {p} ELSE {})
           heads  == {q \in Player \cap rest : PetsOf(q) \cap rest # {}}
           closed == RemoveGroup(r, g)
           Head(b) == IF b \in Pet THEN owner[b] ELSE b
           Split(new) ==
             [member |-> [b \in Body |-> CASE b \notin rest -> r.member[b]
                                           [] b \in rest /\ Head(b) \in heads -> new[Head(b)]
                                           [] OTHER -> NoGroup],
              info   |-> [h \in GroupId |->
                            IF \E q \in heads : new[q] = h
                            THEN [leader |-> Ent(CHOOSE q \in heads : new[q] = h),
                                  num_members |-> 1]
                            ELSE closed.info[h]]]
<1>1. SUFFICES ASSUME NEW new \in Injection(heads, Vacant(closed))
               PROVE  Split(new) \in Registry
  BY DEF Disband
<1>2. closed \in Registry
  BY RemoveGroupType
<1>3. new \in [heads -> GroupId]
  <2>1. new \in [heads -> Vacant(closed)]
    BY DEF Injection
  <2>2. Vacant(closed) \subseteq GroupId
    BY <1>2, KeyTypes
  <2> QED
    BY <2>1, <2>2
<1>4. ASSUME NEW b \in Body
      PROVE  Split(new).member[b] \in GroupId \cup {NoGroup}
  <2>1. CASE b \notin rest
    <3>1. Split(new).member[b] = r.member[b]
      BY SMTT(60), <2>1
    <3> QED
      BY <3>1, KeyTypes
  <2>2. CASE b \in rest /\ Head(b) \in heads
    <3>1. Split(new).member[b] = new[Head(b)]
      BY <2>2
    <3> QED
      BY <3>1, <2>2, <1>3
  <2>3. CASE b \in rest /\ Head(b) \notin heads
    BY <2>3
  <2> QED
    BY <2>1, <2>2, <2>3
<1>5. ASSUME NEW h \in GroupId
      PROVE  Split(new).info[h] \in GroupInfo \cup {NoInfo}
  <2>1. CASE \E q \in heads : new[q] = h
    <3> DEFINE q == CHOOSE x \in heads : new[x] = h
    <3>1. q \in heads
      BY <2>1
    <3>q. q \in Player
      BY <3>1
    <3>e. \A x \in Player : Ent(x) \in Entity
      BY DEF Ent, Entity, GroupsTypeOK
    <3>2. Ent(q) \in Entity
      BY <3>q, <3>e
    <3>3. Split(new).info[h] = [leader |-> Ent(q), num_members |-> 1]
      BY <2>1
    <3> QED
      BY <3>2, <3>3 DEF GroupInfo
  <2>2. CASE ~\E q \in heads : new[q] = h
    <3>1. Split(new).info[h] = closed.info[h]
      BY <2>2
    <3> QED
      BY <3>1, <1>2 DEF Registry
  <2> QED
    BY <2>1, <2>2
<1> HIDE DEF rest, heads, closed, Head
<1>6. /\ Split(new).member \in [Body -> GroupId \cup {NoGroup}]
      /\ Split(new).info \in [GroupId -> GroupInfo \cup {NoInfo}]
  BY <1>4, <1>5
<1> QED
  BY <1>6 DEF Registry

\* So does a member that departs, ...
LEMMA DepartType ==
  ASSUME GroupsTypeOK, NEW r \in Registry, NEW b \in Body, NEW deleted \in BOOLEAN
  PROVE  Depart(r, b, deleted) \subseteq Registry
<1>1. CASE PetsOf(b) # {} /\ ~deleted
  <2>1. b \in Player
    BY <1>1, GroupsAssumption DEF PetsOf, Body, GroupsTypeOK
  <2>2. SUFFICES ASSUME NEW h \in Vacant(r)
                 PROVE  Put(CreateGroup(r, h, b, 1), {b} \cup PetsOf(b), h) \in Registry
    BY <1>1 DEF Depart
  <2>3. h \in GroupId
    BY KeyTypes
  <2> QED
    BY <2>1, <2>3, CreateGroupType, PutType
<1>2. CASE ~(PetsOf(b) # {} /\ ~deleted)
  BY <1>2, PutType DEF Depart
<1> QED
  BY <1>1, <1>2

\* ... the group it departs from ...
LEMMA ShrinkType ==
  ASSUME NEW r \in Registry, NEW g \in GroupId, NEW b \in Body
  PROVE  Shrink(r, g, b) \in Registry
<1>1. CASE g \in Vacant(r)
  BY <1>1 DEF Shrink
<1>2. CASE g \notin Vacant(r)
  <2> DEFINE n    == r.info[g].num_members
             m    == IF b \in Player /\ n > 0 THEN n - 1 ELSE n
             left == [r EXCEPT !.info[g].num_members = m]
  <2>1. r.info[g] \in GroupInfo
    BY <1>2 DEF Vacant, Registry
  <2>2. m \in Nat
    BY <2>1 DEF GroupInfo
  <2> HIDE DEF m
  <2>3. left \in Registry
    BY <2>1, <2>2 DEF Registry, GroupInfo
  <2>4. Put(RemoveGroup(left, g), {q \in Player : Ent(q) = r.info[g].leader}, NoGroup)
          \in Registry
    BY <2>3, RemoveGroupType, PutType
  <2> USE DEF m
  <2> HIDE DEF left
  <2>5. Shrink(r, g, b) \in
          {left, Put(RemoveGroup(left, g), {q \in Player : Ent(q) = r.info[g].leader}, NoGroup)}
    BY <1>2 DEF Shrink, left
  <2> QED
    BY <2>3, <2>4, <2>5
<1> QED
  BY <1>1, <1>2

\* ... and remove_from_group as a whole.
LEMMA RemoveFromGroupType ==
  ASSUME GroupsTypeOK, NEW r \in Registry, NEW b \in Body, NEW deleted \in BOOLEAN
  PROVE  RemoveFromGroup(r, b, deleted) \subseteq Registry
<1>1. CASE r.member[b] = NoGroup
  <2>1. RemoveFromGroup(r, b, deleted) = {r}
    BY <1>1 DEF RemoveFromGroup
  <2> QED
    BY <2>1
<1>2. CASE r.member[b] # NoGroup /\ b \in Player /\ LedBy(r, b, b)
  <2>1. RemoveFromGroup(r, b, deleted) = Disband(r, b, deleted)
    BY <1>2 DEF RemoveFromGroup
  <2> QED
    BY <2>1, <1>2, DisbandType
<1>3. CASE r.member[b] # NoGroup /\ ~(b \in Player /\ LedBy(r, b, b))
  <2>1. RemoveFromGroup(r, b, deleted)
          = {Shrink(s, r.member[b], b) : s \in Depart(r, b, deleted)}
    BY <1>3 DEF RemoveFromGroup
  <2>2. r.member[b] \in GroupId
    BY <1>3, KeyTypes
  <2> QED
    BY <2>1, <2>2, DepartType, ShrinkType
<1> QED
  BY <1>1, <1>2, <1>3

\* Adding a member, with all it makes the member and its leader leave first.
LEMMA LeadersGroupType ==
  ASSUME GroupsTypeOK, NEW r \in Registry, NEW p \in Player
  PROVE  LeadersGroup(r, p) \subseteq Registry \X GroupId
<1>1. CASE LedBy(r, p, p)
  <2>1. r.member[p] \in GroupId /\ r.info[r.member[p]] \in GroupInfo
    BY <1>1, KeyTypes DEF LedBy
  <2>2. [r EXCEPT !.info[r.member[p]].num_members = @ + 1] \in Registry
    BY <2>1 DEF Registry, GroupInfo
  <2> QED
    BY <1>1, <2>1, <2>2 DEF LeadersGroup
<1>2. CASE ~LedBy(r, p, p)
  <2> DEFINE New(s) == {<<Put(CreateGroup(s, g, p, 2), {p}, g), g>> : g \in Vacant(s)}
  <2>0. LeadersGroup(r, p) = UNION {New(s) : s \in RemoveFromGroup(r, p, FALSE)}
    BY <1>2 DEF LeadersGroup
  <2> HIDE DEF New
  <2>a. SUFFICES ASSUME NEW s \in RemoveFromGroup(r, p, FALSE)
                 PROVE  New(s) \subseteq Registry \X GroupId
    BY <2>0
  <2> USE DEF New
  <2>1. SUFFICES ASSUME NEW g \in Vacant(s)
                 PROVE  <<Put(CreateGroup(s, g, p, 2), {p}, g), g>> \in Registry \X GroupId
    OBVIOUS
  <2>2. s \in Registry
    BY RemoveFromGroupType DEF Body
  <2>3. g \in GroupId
    BY <2>2, KeyTypes
  <2>4. CreateGroup(s, g, p, 2) \in Registry
    BY <2>2, <2>3, CreateGroupType
  <2>5. Put(CreateGroup(s, g, p, 2), {p}, g) \in Registry
    BY <2>3, <2>4, PutType
  <2> QED
    BY <2>3, <2>5
<1> QED
  BY <1>1, <1>2

LEMMA AddGroupMemberType ==
  ASSUME GroupsTypeOK, NEW r \in Registry, NEW p \in Player, NEW q \in Player
  PROVE  AddGroupMember(r, p, q) \subseteq Registry
<1> DEFINE free == IF r.member[q] \in Live(r)
                   THEN RemoveFromGroup(r, q, FALSE) ELSE {r}
<1>1. free \subseteq Registry
  BY RemoveFromGroupType DEF Body
<1> DEFINE Join(s) == {Put(t[1], {q} \cup PetsOf(q), t[2]) : t \in LeadersGroup(s, p)}
<1>a. AddGroupMember(r, p, q) = UNION {Join(s) : s \in free}
  BY DEF AddGroupMember
<1> HIDE DEF free, Join
<1>b. SUFFICES ASSUME NEW s \in free
               PROVE  Join(s) \subseteq Registry
  BY <1>a
<1> USE DEF Join
<1>2. SUFFICES ASSUME NEW t \in LeadersGroup(s, p)
               PROVE  Put(t[1], {q} \cup PetsOf(q), t[2]) \in Registry
  OBVIOUS
<1>3. t \in Registry \X GroupId
  BY <1>1, LeadersGroupType
<1>4. t[1] \in Registry /\ t[2] \in GroupId \cup {NoGroup}
  BY <1>3
<1> QED
  BY <1>4, PutType

LEMMA AddPetType ==
  ASSUME GroupsTypeOK, NEW r \in Registry, NEW p \in Player, NEW a \in Pet
  PROVE  AddPet(r, p, a) \subseteq Registry
<1>1. r.member[p] \in GroupId \cup {NoGroup}
  BY KeyTypes DEF Body
<1>2. CASE r.member[p] # NoGroup
  BY <1>1, <1>2, PutType DEF AddPet
<1>3. CASE r.member[p] = NoGroup
  <2>1. SUFFICES ASSUME NEW g \in Vacant(r)
                 PROVE  Put(CreateGroup(r, g, p, 1), {p, a}, g) \in Registry
    BY <1>3 DEF AddPet
  <2> QED
    BY KeyTypes, CreateGroupType, PutType
<1> QED
  BY <1>2, <1>3

-----------------------------------------------------------------------------
(* Type correctness *)

\* Answers and time-outs only take entries away.
LEMMA ForgetAllType ==
  ASSUME InvitesTypeOK, NEW Q
  PROVE  ForgetAll(Q) \in [Player -> SUBSET Entry]
BY DEF ForgetAll, InvitesTypeOK

LEMMA TypeStep == TypeOK /\ [Next]_vars => TypeOK'
<1> SUFFICES ASSUME TypeOK, [Next]_vars
             PROVE  TypeOK'
  OBVIOUS
<1> USE DEF TypeOK
<1>e. \A x \in Player : Ent(x) \in Entity
  BY DEF Ent, Entity, GroupsTypeOK
<1>r. reg \in Registry
  BY DEF GroupsTypeOK
<1>a. \A Q : ForgetAll(Q) \in [Player -> SUBSET Entry]
  BY ForgetAllType
<1>1. ASSUME NEW p \in Player, Leave(p), UNCHANGED inviteVars
      PROVE  TypeOK'
  <2>1. reg' \in Registry
    BY <1>1, <1>r, RemoveFromGroupType DEF Leave, Body
  <2> QED
    BY <1>1, <2>1 DEF Leave, inviteVars, GroupsTypeOK, InvitesTypeOK
<1>2. ASSUME NEW p \in Player, NEW q \in Player, Kick(p, q), UNCHANGED inviteVars
      PROVE  TypeOK'
  <2>1. reg' \in Registry
    BY <1>2, <1>r, RemoveFromGroupType DEF Kick, Body
  <2> QED
    BY <1>2, <2>1 DEF Kick, inviteVars, GroupsTypeOK, InvitesTypeOK
<1>3. ASSUME NEW p \in Player, NEW a \in Pet, NewPet(p, a), UNCHANGED inviteVars
      PROVE  TypeOK'
  <2>1. reg' \in Registry
    BY <1>3, <1>r, AddPetType DEF NewPet
  <2> QED
    BY <1>3, <2>1 DEF NewPet, inviteVars, GroupsTypeOK, InvitesTypeOK
<1>4. ASSUME NEW a \in Pet, PetDies(a), UNCHANGED inviteVars
      PROVE  TypeOK'
  <2>1. PICK r \in RemoveFromGroup(reg, a, TRUE) : reg' = Put(r, {a}, NoGroup)
    BY <1>4 DEF PetDies
  <2>2. r \in Registry
    BY <1>r, RemoveFromGroupType DEF Body
  <2>3. reg' \in Registry
    BY <2>1, <2>2, PutType
  <2> QED
    BY <1>4, <2>3 DEF PetDies, inviteVars, GroupsTypeOK, InvitesTypeOK
<1>5. ASSUME NEW p \in Player, NEW q \in Player, AssignLeader(p, q),
             UNCHANGED inviteVars
      PROVE  TypeOK'
  <2>1. reg.member[q] \in GroupId /\ reg.info[reg.member[q]] \in GroupInfo
    BY <1>5, <1>r, KeyTypes DEF AssignLeader, LedBy
  <2>2. reg' \in Registry
    BY <1>5, <1>r, <1>e, <2>1 DEF AssignLeader, Registry, GroupInfo
  <2> QED
    BY <1>5, <2>2 DEF AssignLeader, inviteVars, GroupsTypeOK, InvitesTypeOK
<1>6. ASSUME NEW p \in Player, NEW q \in Player, NEW kind \in Kind,
             HandleInvite(p, q, kind)
      PROVE  TypeOK'
  <2>1. [inviter |-> Ent(p), kind |-> kind] \in Invite
    BY <1>e DEF Invite
  <2>2. [invitee |-> Ent(q), kind |-> kind] \in Entry
    BY <1>e DEF Entry
  <2>3. InvitesTypeOK'
    BY <1>6, <2>1, <2>2 DEF HandleInvite, InvitesTypeOK
  <2> QED
    BY <1>6, <2>3 DEF HandleInvite, groupVars, GroupsTypeOK
<1>7. ASSUME NEW q \in Player, Answer(q)
      PROVE  InvitesTypeOK'
  BY <1>7, <1>a DEF Answer, InvitesTypeOK
<1>8. ASSUME NEW q \in Player, HandleInviteAccept(q)
      PROVE  TypeOK'
  <2>1. reg' \in Registry
    BY <1>8, <1>r, AddGroupMemberType DEF HandleInviteAccept
  <2>2. InvitesTypeOK'
    BY <1>7, <1>8 DEF HandleInviteAccept
  <2> QED
    BY <1>8, <2>1, <2>2 DEF HandleInviteAccept, GroupsTypeOK
<1>9. ASSUME NEW q \in Player, HandleInviteDecline(q)
      PROVE  TypeOK'
  BY <1>7, <1>9 DEF HandleInviteDecline, groupVars, GroupsTypeOK
<1>10. ASSUME NEW Q \in SUBSET Player, InviteTimeout(Q)
       PROVE  TypeOK'
  <2>1. InvitesTypeOK'
    BY <1>10, <1>a DEF InviteTimeout, InvitesTypeOK
  <2> QED
    BY <1>10, <2>1 DEF InviteTimeout, groupVars, GroupsTypeOK
<1>11. ASSUME NEW p \in Player, DropInvites(p)
       PROVE  InvitesTypeOK'
  BY <1>11 DEF DropInvites, InvitesTypeOK
<1>12. ASSUME NEW p \in Player, ExitInGame(p)
       PROVE  TypeOK'
  <2>1. MoveEntity(p) /\ InvitesTypeOK'
    BY <1>11, <1>12 DEF ExitInGame
  <2>2. life[p] + 1 \in 1..MaxLives
    BY <2>1, GroupsAssumption DEF MoveEntity, GroupsTypeOK
  <2>3. <<p, life[p] + 1>> \in Entity
    BY <2>2 DEF Entity
  <2>4. reg' \in Registry
    <3>1. CASE LedBy(reg, p, p)
      <4>1. reg.member[p] \in GroupId /\ reg.info[reg.member[p]] \in GroupInfo
        BY <3>1, <1>r, KeyTypes DEF LedBy
      <4> QED
        BY <2>1, <2>3, <3>1, <4>1, <1>r DEF MoveEntity, Registry, GroupInfo
    <3>2. CASE ~LedBy(reg, p, p)
      BY <2>1, <3>2, <1>r DEF MoveEntity
    <3> QED
      BY <3>1, <3>2
  <2> QED
    BY <2>1, <2>2, <2>4 DEF MoveEntity, GroupsTypeOK
<1>13. ASSUME NEW p \in Player, EnterGame(p), UNCHANGED inviteVars
       PROVE  TypeOK'
  BY <1>13 DEF EnterGame, inviteVars, GroupsTypeOK, InvitesTypeOK
<1>14. ASSUME NEW p \in Player, ClientDisconnect(p)
       PROVE  TypeOK'
  <2>1. DeleteEntity(p) /\ InvitesTypeOK'
    BY <1>11, <1>14 DEF ClientDisconnect
  <2>2. PICK r \in RemoveFromGroup(reg, p, TRUE) : reg' = Put(r, {p}, NoGroup)
    BY <2>1 DEF DeleteEntity
  <2>3. r \in Registry
    BY <1>r, RemoveFromGroupType DEF Body
  <2>4. reg' \in Registry
    BY <2>2, <2>3, PutType
  <2> QED
    BY <2>1, <2>4 DEF DeleteEntity, GroupsTypeOK
<1>15. CASE UNCHANGED vars
  BY <1>15 DEF vars, groupVars, inviteVars, GroupsTypeOK, InvitesTypeOK
<1>16. CASE GroupStep
  BY <1>16, <1>1, <1>2, <1>3, <1>4 DEF GroupStep
<1>17. CASE Transfer
  BY <1>17, <1>5 DEF Transfer
<1>18. CASE InviteStep
  BY <1>18, <1>6, <1>8, <1>9 DEF InviteStep
<1>19. CASE TimeoutStep
  BY <1>19, <1>10 DEF TimeoutStep
<1>20. CASE ScreenStep
  BY <1>20, <1>12, <1>13 DEF ScreenStep
<1>21. CASE DisconnectStep
  BY <1>21, <1>14 DEF DisconnectStep
<1> QED
  BY <1>15, <1>16, <1>17, <1>18, <1>19, <1>20, <1>21 DEF Next

LEMMA TypeInit == Init => TypeOK
<1> SUFFICES ASSUME Init PROVE TypeOK
  OBVIOUS
<1>1. reg \in Registry
  BY DEF Init, GroupsInit, Registry
<1>2. GroupsTypeOK
  BY <1>1, GroupsAssumption DEF Init, GroupsInit, GroupsTypeOK
<1> QED
  BY <1>2 DEF Init, TypeOK, InvitesTypeOK

\* The registry, the alignments and the invites keep their types, in
\* particular num_members never falls below zero.
THEOREM TypeCorrect == Spec => []TypeOK
BY TypeInit, TypeStep, PTL DEF Spec

-----------------------------------------------------------------------------
(* The two tables of invites *)

\* Nobody holds or lists a handle of an entity that a player does not have
\* yet: the next entity starts without invites.
Known(h) == h[2] <= life[h[1]]
HandlesKnown ==
  \A p \in Player :
    /\ invite[p] # NoInvite => Known(invite[p].inviter)
    /\ \A e \in pending[p] : Known(e.invitee)

Paired == HandlesKnown /\ InvitePaired

\* Steps that touch neither the invites nor the entities that exist.
LEMMA UntouchedPaired ==
  ASSUME Paired, UNCHANGED inviteVars, life' = life,
         \A p \in Player : Exists(p)' <=> Exists(p)
  PROVE  Paired'
BY DEF Paired, HandlesKnown, Known, InvitePaired, inviteVars, Ent

LEMMA HandleInvitePaired ==
  ASSUME TypeOK, Paired, NEW p \in Player, NEW q \in Player, NEW kind \in Kind,
         HandleInvite(p, q, kind)
  PROVE  Paired'
<1> USE DEF TypeOK
<1>e. \A x \in Player : Ent(x) \in Entity /\ Ent(x)[1] = x /\ Ent(x)[2] = life[x]
  BY DEF Ent, Entity, GroupsTypeOK
<1>l. \A x \in Player : Ent(x)' = Ent(x) /\ (Exists(x)' <=> Exists(x)) /\ life[x] \in Nat
  BY DEF HandleInvite, groupVars, Ent, Exists, GroupsTypeOK
<1>i. /\ invite' = [invite EXCEPT ![q] = [inviter |-> Ent(p), kind |-> kind]]
      /\ pending' = [pending EXCEPT ![p] = @ \cup {[invitee |-> Ent(q), kind |-> kind]}]
      /\ invite[q] = NoInvite /\ Exists(p) /\ Exists(q) /\ p # q /\ life' = life
  BY DEF HandleInvite, groupVars, InGame, Exists
<1>1. HandlesKnown'
  <2> DEFINE KnownThen(h) == h[2] <= life'[h[1]]
  <2> SUFFICES ASSUME NEW x \in Player
               PROVE  /\ invite'[x] # NoInvite => KnownThen(invite'[x].inviter)
                      /\ \A e \in pending'[x] : KnownThen(e.invitee)
    BY DEF HandlesKnown, Known
  <2>1. Known(Ent(p)) /\ Known(Ent(q))
    BY <1>e, <1>l DEF Known
  <2>2. invite'[x] # NoInvite => Known(invite'[x].inviter)
    BY <1>i, <2>1 DEF Paired, HandlesKnown, InvitesTypeOK
  <2>3. \A e \in pending'[x] : Known(e.invitee)
    BY <1>i, <2>1 DEF Paired, HandlesKnown, InvitesTypeOK
  <2> QED
    BY <1>i, <2>2, <2>3 DEF Known
<1>2. InvitePaired'
  <2> SUFFICES ASSUME NEW x \in Player, NEW y \in Player, Exists(x), Exists(y),
                      NEW k \in Kind
               PROVE  invite'[y] = [inviter |-> Ent(x), kind |-> k]
                        <=> [invitee |-> Ent(y), kind |-> k] \in pending'[x]
    BY <1>l DEF InvitePaired
  <2>1. invite[y] = [inviter |-> Ent(x), kind |-> k]
          <=> [invitee |-> Ent(y), kind |-> k] \in pending[x]
    BY DEF Paired, InvitePaired
  <2>2. CASE y # q
    <3>1. invite'[y] = invite[y]
      BY <1>i, <2>2 DEF InvitesTypeOK
    <3>2. Ent(y) # Ent(q)
      BY <1>e, <2>2
    <3>3. [invitee |-> Ent(y), kind |-> k] \in pending'[x]
            <=> [invitee |-> Ent(y), kind |-> k] \in pending[x]
      BY <1>i, <3>2 DEF InvitesTypeOK
    <3> QED
      BY <2>1, <3>1, <3>3
  <2>3. CASE y = q
    <3>1. invite'[y] = [inviter |-> Ent(p), kind |-> kind]
      BY <1>i, <2>3 DEF InvitesTypeOK
    <3>2. [inviter |-> Ent(x), kind |-> k] \in Invite
      BY <1>e DEF Invite
    <3>3. [invitee |-> Ent(y), kind |-> k] \notin pending[x]
      BY <1>i, <2>1, <2>3, <3>2, InvitesAssumption
    <3>4. CASE x = p
      BY <1>i, <2>3, <3>1, <3>3, <3>4 DEF InvitesTypeOK
    <3>5. CASE x # p
      <4>1. Ent(x) # Ent(p)
        BY <1>e, <3>5
      <4>2. pending'[x] = pending[x]
        BY <1>i, <3>5 DEF InvitesTypeOK
      <4> QED
        BY <3>1, <3>3, <4>1, <4>2
    <3> QED
      BY <3>4, <3>5
  <2> QED
    BY <2>2, <2>3
<1> QED
  BY <1>1, <1>2 DEF Paired

\* Answers and time-outs: the invites of some players go, and of every list
\* the entries that remember them.
LEMMA RemovalPaired ==
  ASSUME TypeOK, Paired, NEW Q \in SUBSET Player,
         invite' = [q \in Player |-> IF q \in Q THEN NoInvite ELSE invite[q]],
         pending' = ForgetAll(Q), life' = life, place' = place
  PROVE  Paired'
<1> USE DEF TypeOK
<1>e. \A x \in Player : Ent(x) \in Entity /\ Ent(x)[1] = x
  BY DEF Ent, Entity, GroupsTypeOK
<1>l. \A x \in Player : Ent(x)' = Ent(x) /\ (Exists(x)' <=> Exists(x))
  BY DEF Ent, Exists
<1>f. \A x \in Player : pending'[x] =
        {e \in pending[x] : ~\E q \in Q : Remembers(x, q) /\ e.invitee = Ent(q)}
  BY DEF ForgetAll
<1>1. HandlesKnown'
  BY <1>f DEF Paired, HandlesKnown, Known
<1>2. InvitePaired'
  <2> SUFFICES ASSUME NEW x \in Player, NEW y \in Player, Exists(x), Exists(y),
                      NEW k \in Kind
               PROVE  invite'[y] = [inviter |-> Ent(x), kind |-> k]
                        <=> [invitee |-> Ent(y), kind |-> k] \in pending'[x]
    BY <1>l DEF InvitePaired
  <2> DEFINE i == [inviter |-> Ent(x), kind |-> k]
             e == [invitee |-> Ent(y), kind |-> k]
  <2>1. invite[y] = i <=> e \in pending[x]
    BY DEF Paired, InvitePaired
  <2>2. i \in Invite
    BY <1>e DEF Invite
  <2>3. CASE y \in Q
    <3>1. invite'[y] # i
      BY <2>2, <2>3, InvitesAssumption
    <3>2. ASSUME e \in pending[x]
          PROVE  Remembers(x, y)
      <4>1. invite[y] = i /\ invite[y] # NoInvite
        BY <2>1, <2>2, <3>2, InvitesAssumption
      <4>2. e.invitee = Ent(y) /\ i.inviter = Ent(x)
        OBVIOUS
      <4> QED
        BY <3>2, <4>1, <4>2 DEF Remembers
    <3>3. e \notin pending'[x]
      BY <1>f, <2>3, <3>2
    <3> QED
      BY <3>1, <3>3
  <2>4. CASE y \notin Q
    <3>1. invite'[y] = invite[y]
      BY <2>4
    <3>2. \A q \in Q : e.invitee # Ent(q)
      BY <1>e, <2>4
    <3>3. e \in pending'[x] <=> e \in pending[x]
      BY <1>f, <3>2
    <3> QED
      BY <2>1, <3>1, <3>3
  <2> QED
    BY <2>3, <2>4
<1> QED
  BY <1>1, <1>2 DEF Paired

LEMMA AnswerPaired ==
  ASSUME TypeOK, Paired, NEW q \in Player, Answer(q), life' = life, place' = place
  PROVE  Paired'
<1>1. invite' = [x \in Player |-> IF x \in {q} THEN NoInvite ELSE invite[x]]
  BY DEF Answer, TypeOK, InvitesTypeOK
<1>2. pending' = ForgetAll({q})
  BY DEF Answer
<1> QED
  BY <1>1, <1>2, RemovalPaired

LEMMA ExitLife ==
  ASSUME TypeOK, NEW p \in Player, ExitInGame(p)
  PROVE  life' \in [Player -> 1..MaxLives]
BY GroupsAssumption DEF TypeOK, GroupsTypeOK, ExitInGame, MoveEntity

\* The next entity of a player is in no table, the old one in none that counts.
LEMMA ExitPaired ==
  ASSUME TypeOK, Paired, NEW p \in Player, ExitInGame(p)
  PROVE  Paired'
<1> USE DEF TypeOK
<1>i. /\ life' = [life EXCEPT ![p] = @ + 1]
      /\ invite' = [invite EXCEPT ![p] = NoInvite]
      /\ pending' = [pending EXCEPT ![p] = {}]
      /\ \A x \in Player : Exists(x)' <=> Exists(x)
      /\ \A x \in Player : life[x] \in Nat
      /\ \A x \in Player : life'[x] = IF x = p THEN life[x] + 1 ELSE life[x]
  BY DEF ExitInGame, MoveEntity, DropInvites, Exists, InGame, GroupsTypeOK
<1>k. \A h \in Entity : Known(h) => h[2] <= life'[h[1]]
  BY <1>i DEF Known, Entity
<1>1. HandlesKnown'
  <2> DEFINE KnownThen(h) == h[2] <= life'[h[1]]
  <2> SUFFICES ASSUME NEW x \in Player
               PROVE  /\ invite'[x] # NoInvite => KnownThen(invite'[x].inviter)
                      /\ \A e \in pending'[x] : KnownThen(e.invitee)
    BY DEF HandlesKnown, Known
  <2>1. invite'[x] # NoInvite => KnownThen(invite'[x].inviter)
    <3> SUFFICES ASSUME invite'[x] # NoInvite
                 PROVE  KnownThen(invite'[x].inviter)
      OBVIOUS
    <3>1. invite'[x] = invite[x] /\ invite[x] \in Invite
      BY <1>i DEF InvitesTypeOK
    <3>2. Known(invite[x].inviter) /\ invite[x].inviter \in Entity
      BY <3>1 DEF Paired, HandlesKnown, Invite
    <3> QED
      BY <1>k, <3>1, <3>2 DEF Known
  <2>2. \A e \in pending'[x] : KnownThen(e.invitee)
    <3> TAKE e \in pending'[x]
    <3>1. e \in pending[x] /\ e \in Entry
      BY <1>i DEF InvitesTypeOK
    <3>2. Known(e.invitee) /\ e.invitee \in Entity
      BY <3>1 DEF Paired, HandlesKnown, Entry
    <3> QED
      BY <1>k, <3>2 DEF Known
  <2> QED
    BY <2>1, <2>2
<1>2. InvitePaired'
  <2> SUFFICES ASSUME NEW x \in Player, NEW y \in Player, Exists(x), Exists(y),
                      NEW k \in Kind
               PROVE  invite'[y] = [inviter |-> <<x, life'[x]>>, kind |-> k]
                        <=> [invitee |-> <<y, life'[y]>>, kind |-> k] \in pending'[x]
    BY <1>i DEF InvitePaired, Ent
  <2>1. CASE x # p /\ y # p
    <3>1. life'[x] = life[x] /\ life'[y] = life[y] /\ invite'[y] = invite[y]
          /\ pending'[x] = pending[x]
      BY <1>i, <2>1 DEF InvitesTypeOK
    <3> QED
      BY <3>1 DEF Paired, InvitePaired, Ent
  <2>2. CASE y = p
    <3>1. invite'[y] = NoInvite
      BY <1>i, <2>2 DEF InvitesTypeOK
    <3>2. [inviter |-> <<x, life'[x]>>, kind |-> k] # NoInvite
      <4>1. <<x, life'[x]>> \in Entity
        BY ExitLife DEF Entity
      <4> QED
        BY <4>1, InvitesAssumption DEF Invite
    <3>3. [invitee |-> <<y, life'[y]>>, kind |-> k] \notin pending'[x]
      <4> SUFFICES ASSUME [invitee |-> <<y, life'[y]>>, kind |-> k] \in pending[x]
                   PROVE  FALSE
        BY <1>i DEF InvitesTypeOK
      <4>1. Known(<<y, life'[y]>>)
        BY DEF Paired, HandlesKnown
      <4>2. life'[y] = life[y] + 1
        BY <1>i, <2>2
      <4> QED
        BY <1>i, <4>1, <4>2 DEF Known
    <3> QED
      BY <3>1, <3>2, <3>3
  <2>3. CASE x = p /\ y # p
    <3>1. pending'[x] = {} /\ invite'[y] = invite[y]
      BY <1>i, <2>3 DEF InvitesTypeOK
    <3>2. invite[y] # [inviter |-> <<x, life'[x]>>, kind |-> k]
      <4> SUFFICES ASSUME invite[y] = [inviter |-> <<x, life'[x]>>, kind |-> k]
                   PROVE  FALSE
        OBVIOUS
      <4>1. <<x, life'[x]>> \in Entity
        BY ExitLife DEF Entity
      <4>2. invite[y] # NoInvite
        BY <4>1, InvitesAssumption DEF Invite
      <4>3. Known(<<x, life'[x]>>)
        BY <4>2 DEF Paired, HandlesKnown
      <4> QED
        BY <1>i, <2>3, <4>3 DEF Known
    <3> QED
      BY <3>1, <3>2
  <2> QED
    BY <2>1, <2>2, <2>3
<1> QED
  BY <1>1, <1>2 DEF Paired

LEMMA DisconnectPaired ==
  ASSUME TypeOK, Paired, NEW p \in Player, ClientDisconnect(p)
  PROVE  Paired'
<1> USE DEF TypeOK
<1>i. /\ life' = life /\ ~Exists(p)'
      /\ \A x \in Player \ {p} : Exists(x)' <=> Exists(x)
      /\ invite' = [invite EXCEPT ![p] = NoInvite]
      /\ pending' = [pending EXCEPT ![p] = {}]
  BY DEF ClientDisconnect, DeleteEntity, DropInvites, Exists, GroupsTypeOK
<1>1. HandlesKnown'
  BY <1>i DEF Paired, HandlesKnown, Known, InvitesTypeOK
<1>2. InvitePaired'
  BY <1>i DEF Paired, InvitePaired, Ent, InvitesTypeOK
<1> QED
  BY <1>1, <1>2 DEF Paired

LEMMA PairedStep == TypeOK /\ Paired /\ [Next]_vars => Paired'
<1> SUFFICES ASSUME TypeOK, Paired, [Next]_vars
             PROVE  Paired'
  OBVIOUS
<1>1. CASE UNCHANGED vars
  BY <1>1, UntouchedPaired DEF vars, groupVars, Exists
<1>2. CASE GroupStep
  <2>1. UNCHANGED <<life, place>> /\ UNCHANGED inviteVars
    BY <1>2 DEF GroupStep, Leave, Kick, NewPet, PetDies
  <2> QED
    BY <2>1, UntouchedPaired DEF Exists
<1>3. CASE Transfer
  <2>1. UNCHANGED <<life, place>> /\ UNCHANGED inviteVars
    BY <1>3 DEF Transfer, AssignLeader
  <2> QED
    BY <2>1, UntouchedPaired DEF Exists
<1>4. CASE InviteStep
  <2>1. ASSUME NEW q \in Player, HandleInviteAccept(q)
        PROVE  Paired'
    BY <2>1, AnswerPaired DEF HandleInviteAccept
  <2>2. ASSUME NEW q \in Player, HandleInviteDecline(q)
        PROVE  Paired'
    BY <2>2, AnswerPaired DEF HandleInviteDecline, groupVars
  <2> QED
    BY <1>4, <2>1, <2>2, HandleInvitePaired DEF InviteStep
<1>5. CASE TimeoutStep
  <2>1. PICK Q \in SUBSET Player : InviteTimeout(Q)
    BY <1>5 DEF TimeoutStep
  <2> QED
    BY <2>1, RemovalPaired DEF InviteTimeout, groupVars
<1>6. CASE ScreenStep
  <2>1. ASSUME NEW p \in Player, EnterGame(p), UNCHANGED inviteVars
        PROVE  Paired'
    <3>1. \A x \in Player : Exists(x)' <=> Exists(x)
      BY <2>1 DEF EnterGame, Exists, TypeOK, GroupsTypeOK
    <3> QED
      BY <2>1, <3>1, UntouchedPaired DEF EnterGame
  <2> QED
    BY <1>6, <2>1, ExitPaired DEF ScreenStep
<1>7. CASE DisconnectStep
  BY <1>7, DisconnectPaired DEF DisconnectStep
<1> QED
  BY <1>1, <1>2, <1>3, <1>4, <1>5, <1>6, <1>7 DEF Next

LEMMA PairedInit == Init => Paired
<1> SUFFICES ASSUME Init PROVE Paired
  OBVIOUS
<1>1. HandlesKnown
  BY DEF Init, HandlesKnown
<1>2. \A x \in Player : Ent(x) \in Entity
  BY TypeInit DEF TypeOK, GroupsTypeOK, Ent, Entity
<1>3. \A x \in Player, k \in Kind : [inviter |-> Ent(x), kind |-> k] # NoInvite
  BY <1>2, InvitesAssumption DEF Invite
<1>4. InvitePaired
  BY <1>3 DEF Init, InvitePaired
<1> QED
  BY <1>1, <1>4 DEF Paired

\* Between players who are connected, the invitee's Invite and the inviter's
\* PendingInvites never disagree, whatever comes between an invite and its
\* answer: entities that are replaced or deleted, time-outs, other invites.
THEOREM InvitesArePaired == Spec => []InvitePaired
<1>1. Init => TypeOK /\ Paired
  BY TypeInit, PairedInit
<1>2. TypeOK /\ Paired /\ [Next]_vars => (TypeOK /\ Paired)'
  BY TypeStep, PairedStep
<1>3. TypeOK /\ Paired => InvitePaired
  BY DEF Paired
<1> QED
  BY <1>1, <1>2, <1>3, PTL DEF Spec

-----------------------------------------------------------------------------
(***************************************************************************)
(* Proofs about the groups of players, for any number of players, keys and *)
(* any limit, while nobody hands over the lead, leaves for the character   *)
(* screen or has pets (the README names what goes wrong otherwise): the    *)
(* Group components and the GroupManager agree (RegistryPaired), its count *)
(* is the number of members (CountSound), groups are not left behind       *)
(* (GroupsInhabited), and the limit on their size holds (LimitKept).       *)
(*                                                                         *)
(* The invariant says of a registry that it is sound. A departure turns it *)
(* into one of two registries, of a group dissolved or smaller by one, and *)
(* an addition into one of two, of a group bigger by one or founded. Each  *)
(* of the four is sound. For the limit the invariant bounds the players in *)
(* a leader's group together with the invites that are out, which a        *)
(* departure never raises and an addition takes one of.                    *)
(*                                                                         *)
(* The groups implement Parties (ImplementsParties): what an operation of  *)
(* the GroupManager leaves behind shows as exactly one step of Parties;    *)
(* however many groups it has to go through, nobody else changes sides.    *)
(***************************************************************************)

In(r, g) == {p \in Player : r.member[p] = g}

Led(r, g) == \E l \in In(r, g) : r.info[g].leader = Ent(l)

Sound(r) ==
  /\ r \in Registry
  /\ \A p \in Player : r.member[p] # NoGroup => r.member[p] \in Live(r) /\ InGame(p)
  /\ \A g \in Live(r) : /\ r.info[g].num_members = Cardinality(In(r, g))
                         /\ Cardinality(In(r, g)) > 1
                         /\ Led(r, g)

\* What an invite of p is added to.
Size(r, p) == IF LedBy(r, p, p) THEN r.info[r.member[p]].num_members ELSE 1

\* No player counts for more in s than in r, and nobody gets a group.
Shrunk(r, s) ==
  \A q \in Player : /\ Size(s, q) <= Size(r, q)
                    /\ r.member[q] = NoGroup => s.member[q] = NoGroup

\* The four registries.
Dissolved(r, g) ==
  [member |-> [b \in Body |-> IF r.member[b] = g THEN NoGroup ELSE r.member[b]],
   info   |-> [r.info EXCEPT ![g] = NoInfo]]

Smaller(r, p) ==
  [member |-> [r.member EXCEPT ![p] = NoGroup],
   info   |-> [r.info EXCEPT ![r.member[p]].num_members = @ - 1]]

Bigger(r, g, q) ==
  [member |-> [r.member EXCEPT ![q] = g],
   info   |-> [r.info EXCEPT ![g].num_members = @ + 1]]

Founded(r, g, p, q) ==
  [member |-> [r.member EXCEPT ![p] = g, ![q] = g],
   info   |-> [r.info EXCEPT ![g] = [leader |-> Ent(p), num_members |-> 2]]]

\* What departs from r when p does, and what comes of adding q for p.
Removed(r, p, s) ==
  LET g == r.member[p]
  IN  \/ g = NoGroup /\ s = r
      \/ /\ g # NoGroup /\ (LedBy(r, p, p) \/ Cardinality(In(r, g)) = 2)
         /\ s = Dissolved(r, g)
      \/ /\ g # NoGroup /\ ~LedBy(r, p, p) /\ Cardinality(In(r, g)) > 2
         /\ s = Smaller(r, p)

Added(r, p, q, s) ==
  \E u : /\ Removed(r, q, u)
         /\ \/ LedBy(u, p, p) /\ s = Bigger(u, u.member[p], q)
            \/ /\ ~LedBy(u, p, p)
               /\ \E v : Removed(u, p, v) /\ \E g \in Vacant(v) : s = Founded(v, g, p, q)

-----------------------------------------------------------------------------
(* Counting *)

LEMMA NoPets ==
  ASSUME Pet = {}
  PROVE  Body = Player /\ \A b : PetsOf(b) = {}
BY DEF Body, PetsOf

LEMMA OneEntityEach ==
  ASSUME GroupsTypeOK
  PROVE  \A p, q \in Player : Ent(p) \in Entity /\ (Ent(p) = Ent(q) => p = q)
BY DEF Ent, Entity, GroupsTypeOK

LEMMA FiniteGroups ==
  ASSUME NEW r, NEW g
  PROVE  IsFiniteSet(In(r, g)) /\ Cardinality(In(r, g)) \in Nat
<1>1. In(r, g) \in SUBSET Player
  BY DEF In
<1>2. IsFiniteSet(In(r, g))
  BY <1>1, FS_Subset, GroupsAssumption
<1> QED
  BY <1>2, FS_CardinalityType

\* A group that exists has a leader and somebody else.
LEMMA PositiveCount ==
  ASSUME NEW r, Sound(r), NEW g \in Live(r)
  PROVE  r.info[g].num_members \in Nat \ {0, 1}
BY FiniteGroups DEF Sound

LEMMA SizeType ==
  ASSUME NEW r, Sound(r), NEW p \in Player
  PROVE  Size(r, p) \in Nat \ {0}
<1>1. CASE LedBy(r, p, p)
  <2>1. r.member[p] \in Live(r)
    BY <1>1 DEF LedBy
  <2> QED
    BY <1>1, <2>1, PositiveCount DEF Size
<1>2. CASE ~LedBy(r, p, p)
  BY <1>2 DEF Size
<1> QED
  BY <1>1, <1>2

-----------------------------------------------------------------------------
(* Departures *)

\* A group that is dissolved leaves the others as they are.
LEMMA DissolvedSound ==
  ASSUME Pet = {}, GroupsTypeOK, NEW r, Sound(r), NEW g \in Live(r)
  PROVE  Sound(Dissolved(r, g)) /\ Shrunk(r, Dissolved(r, g))
<1> DEFINE s == Dissolved(r, g)
<1>b. Body = Player
  BY NoPets
<1>r. /\ r \in Registry /\ g \in GroupId
      /\ r.member \in [Body -> GroupId \cup {NoGroup}]
      /\ r.info \in [GroupId -> GroupInfo \cup {NoInfo}]
  BY DEF Sound, Live, Registry
<1>m. /\ s.member = [b \in Body |-> IF r.member[b] = g THEN NoGroup ELSE r.member[b]]
      /\ s.info = [r.info EXCEPT ![g] = NoInfo]
  BY DEF Dissolved
<1>1. s \in Registry
  BY <1>r DEF Dissolved, Registry
<1>2. Live(s) = Live(r) \ {g}
  BY <1>r, <1>m DEF Live, Vacant
<1>3. \A h \in Live(s) : s.info[h] = r.info[h] /\ In(s, h) = In(r, h)
  <2> SUFFICES ASSUME NEW h \in Live(s)
               PROVE  s.info[h] = r.info[h] /\ In(s, h) = In(r, h)
    OBVIOUS
  <2>1. h # g /\ h \in GroupId /\ h # NoGroup
    BY <1>2, GroupsAssumption DEF Live
  <2> QED
    BY <2>1, <1>m, <1>r, <1>b DEF In
<1>4. \A h \in Live(s) : /\ s.info[h].num_members = Cardinality(In(s, h))
                         /\ Cardinality(In(s, h)) > 1 /\ Led(s, h)
  BY <1>2, <1>3 DEF Sound, Led
<1>5. \A p \in Player : s.member[p] # NoGroup => s.member[p] \in Live(s) /\ InGame(p)
  BY <1>2, <1>m, <1>b DEF Sound
<1>6. Sound(s)
  BY <1>1, <1>4, <1>5 DEF Sound
<1>7. ASSUME NEW q \in Player
      PROVE  Size(s, q) <= Size(r, q)
  <2>1. CASE LedBy(s, q, q)
    <3>1. s.member[q] \in Live(s) /\ s.member[q] # NoGroup
      BY <2>1, GroupsAssumption DEF LedBy, Live
    <3>2. s.member[q] = r.member[q]
      BY <3>1, <1>m, <1>b
    <3>3. LedBy(r, q, q) /\ Size(s, q) = Size(r, q)
      BY <2>1, <3>1, <3>2, <1>2, <1>3 DEF LedBy, Size
    <3> QED
      BY <3>3, SizeType
  <2>2. CASE ~LedBy(s, q, q)
    BY <2>2, SizeType DEF Size
  <2> QED
    BY <2>1, <2>2
<1> QED
  BY <1>6, <1>7, <1>m, <1>b DEF Shrunk

\* A member departs who is neither the leader nor the only other member.
LEMMA SmallerSound ==
  ASSUME Pet = {}, GroupsTypeOK, NEW r, Sound(r), NEW p \in Player,
         r.member[p] # NoGroup, ~LedBy(r, p, p), Cardinality(In(r, r.member[p])) > 2
  PROVE  Sound(Smaller(r, p)) /\ Shrunk(r, Smaller(r, p))
<1> DEFINE s == Smaller(r, p)
           g == r.member[p]
<1>b. Body = Player
  BY NoPets
<1>r. /\ r \in Registry /\ g \in GroupId /\ g \in Live(r) /\ g # NoGroup
      /\ r.member \in [Body -> GroupId \cup {NoGroup}]
      /\ r.info \in [GroupId -> GroupInfo \cup {NoInfo}]
      /\ r.info[g] \in GroupInfo
  BY DEF Sound, Live, Vacant, Registry
<1>n. r.info[g].num_members \in Nat \ {0}
  BY <1>r, PositiveCount
<1>m. /\ s.member = [r.member EXCEPT ![p] = NoGroup]
      /\ s.info = [r.info EXCEPT ![g].num_members = @ - 1]
  BY DEF Smaller
<1>i. /\ s.info[g] = [leader |-> r.info[g].leader,
                      num_members |-> r.info[g].num_members - 1]
      /\ \A h \in GroupId \ {g} : s.info[h] = r.info[h]
  BY <1>r, <1>m DEF GroupInfo
<1>g. s.info[g] \in GroupInfo
  BY <1>i, <1>n, <1>r DEF GroupInfo
<1>f. s.info = [h \in GroupId |-> IF h = g THEN s.info[g] ELSE r.info[h]]
  BY <1>r, <1>m
<1>1. s \in Registry
  <2>1. s.info \in [GroupId -> GroupInfo \cup {NoInfo}]
    BY <1>f, <1>g, <1>r
  <2>2. s.member \in [Body -> GroupId \cup {NoGroup}]
    BY <1>m, <1>r
  <2> QED
    BY <2>1, <2>2 DEF Smaller, Registry
<1>2. Live(s) = Live(r)
  BY <1>i, <1>g, <1>r, NoInfoAssumption DEF Live, Vacant
<1>3. In(s, g) = In(r, g) \ {p} /\ p \in In(r, g)
  BY <1>m, <1>r, <1>b DEF In
<1>4. \A h \in Live(s) \ {g} : s.info[h] = r.info[h] /\ In(s, h) = In(r, h)
  <2> SUFFICES ASSUME NEW h \in Live(s) \ {g}
               PROVE  s.info[h] = r.info[h] /\ In(s, h) = In(r, h)
    OBVIOUS
  <2>1. h # g /\ h \in GroupId /\ h # NoGroup
    BY GroupsAssumption DEF Live
  <2> QED
    BY <2>1, <1>i, <1>m, <1>r, <1>b DEF In
<1>5. s.info[g].num_members = Cardinality(In(s, g)) /\ Cardinality(In(s, g)) > 1 /\ Led(s, g)
  <2>1. Cardinality(In(s, g)) = Cardinality(In(r, g)) - 1
    BY ZenonT(60), <1>3, FiniteGroups, FS_RemoveElement
  <2>2. r.info[g].num_members = Cardinality(In(r, g)) /\ Led(r, g)
    BY <1>r DEF Sound
  <2>3. r.info[g].leader # Ent(p)
    BY <1>r DEF LedBy
  <2> QED
    BY <2>1, <2>2, <2>3, <1>3, <1>i, <1>n DEF Led
<1>6. \A h \in Live(s) : /\ s.info[h].num_members = Cardinality(In(s, h))
                         /\ Cardinality(In(s, h)) > 1 /\ Led(s, h)
  BY <1>2, <1>4, <1>5 DEF Sound, Led
<1>7. \A x \in Player : s.member[x] # NoGroup => s.member[x] \in Live(s) /\ InGame(x)
  BY <1>2, <1>m, <1>r, <1>b DEF Sound
<1>8. Sound(s)
  BY <1>1, <1>6, <1>7 DEF Sound
<1>9. ASSUME NEW q \in Player
      PROVE  Size(s, q) <= Size(r, q)
  <2>1. CASE LedBy(s, q, q)
    <3>1. s.member[q] \in Live(s) /\ s.member[q] # NoGroup
      BY <2>1, GroupsAssumption DEF LedBy, Live
    <3>2. s.member[q] = r.member[q] /\ q # p
      BY <3>1, <1>m, <1>b, <1>r
    <3>3. s.info[s.member[q]].leader = r.info[s.member[q]].leader
      BY <3>1, <1>4, <1>i
    <3>4. LedBy(r, q, q)
      BY <2>1, <3>1, <3>2, <3>3, <1>2 DEF LedBy
    <3>5. s.info[s.member[q]].num_members <= r.info[s.member[q]].num_members
      <4>1. CASE s.member[q] = g
        BY <4>1, <1>i, <1>n
      <4>2. CASE s.member[q] # g
        <5>1. s.info[s.member[q]] = r.info[s.member[q]]
          BY <4>2, <3>1, <1>4
        <5>2. r.info[s.member[q]].num_members \in Nat
          BY <3>1, <1>2, PositiveCount
        <5> QED
          BY <5>1, <5>2
      <4> QED
        BY <4>1, <4>2
    <3> QED
      BY <2>1, <3>2, <3>4, <3>5 DEF Size
  <2>2. CASE ~LedBy(s, q, q)
    BY <2>2, SizeType DEF Size
  <2> QED
    BY <2>1, <2>2
<1> QED
  BY <1>8, <1>9, <1>m, <1>r, <1>b DEF Shrunk

\* Disband, when nobody has pets to keep.
LEMMA DisbandDissolves ==
  ASSUME Pet = {}, GroupsTypeOK, NEW r, Sound(r), NEW p \in Player,
         r.member[p] # NoGroup, NEW deleted \in BOOLEAN,
         NEW s \in Disband(r, p, deleted)
  PROVE  /\ Put(s, {p}, NoGroup) = Dissolved(r, r.member[p])
         /\ ~deleted => s.member[p] = NoGroup
<1> DEFINE g      == r.member[p]
           rest   == {b \in Body : r.member[b] = g} \ (IF deleted THEN {p} ELSE {})
           heads  == {q \in Player \cap rest : PetsOf(q) \cap rest # {}}
           closed == RemoveGroup(r, g)
           Head(b) == IF b \in Pet THEN owner[b] ELSE b
           Split(new) ==
             [member |-> [b \in Body |-> CASE b \notin rest -> r.member[b]
                                           [] b \in rest /\ Head(b) \in heads -> new[Head(b)]
                                           [] OTHER -> NoGroup],
              info   |-> [h \in GroupId |->
                            IF \E q \in heads : new[q] = h
                            THEN [leader |-> Ent(CHOOSE q \in heads : new[q] = h),
                                  num_members |-> 1]
                            ELSE closed.info[h]]]
<1>1. PICK new : s = Split(new)
  BY DEF Disband
<1>2. heads = {} /\ Body = Player
  BY NoPets
<1>r. /\ g \in GroupId
      /\ r.member \in [Body -> GroupId \cup {NoGroup}]
      /\ r.info \in [GroupId -> GroupInfo \cup {NoInfo}]
      /\ r = [member |-> r.member, info |-> r.info]
  BY DEF Sound, Live, Registry
<1>3. closed.info = [r.info EXCEPT ![g] = NoInfo]
  BY <1>r DEF RemoveGroup
<1>4. s.info = [r.info EXCEPT ![g] = NoInfo]
  <2>1. s.info = [h \in GroupId |-> closed.info[h]]
    BY <1>1, <1>2
  <2> QED
    BY <2>1, <1>3, <1>r
<1>5. \A b \in Body : s.member[b] = IF b \in rest THEN NoGroup ELSE r.member[b]
  BY <1>1, <1>2
<1>6. s = [member |-> s.member, info |-> s.info] /\ s.member = [b \in Body |-> s.member[b]]
  BY <1>1
<1>7. \A b \in Body : b \in rest <=> r.member[b] = g /\ ~(deleted /\ b = p)
  OBVIOUS
<1> HIDE DEF rest, heads, closed, Head, Split
<1>8. Put(s, {p}, NoGroup) =
        [member |-> [b \in Body |-> IF b \in {p} THEN NoGroup ELSE s.member[b]],
         info   |-> s.info]
  BY <1>6 DEF Put
<1>9. \A b \in Body : (IF b \in {p} THEN NoGroup ELSE s.member[b])
                       = IF r.member[b] = g THEN NoGroup ELSE r.member[b]
  BY <1>5, <1>7
<1>10. Put(s, {p}, NoGroup) = Dissolved(r, g)
  BY <1>4, <1>8, <1>9 DEF Dissolved
<1> QED
  BY <1>10, <1>5, <1>7, <1>2

\* Depart and Shrink, when a member departs who does not lead: the group is
\* dissolved if that leaves the leader alone.
LEMMA ShrinkShrinks ==
  ASSUME Pet = {}, GroupsTypeOK, NEW r, Sound(r), NEW p \in Player,
         r.member[p] # NoGroup, ~LedBy(r, p, p), NEW deleted \in BOOLEAN,
         NEW d \in Depart(r, p, deleted)
  PROVE  LET g == r.member[p]
         IN  \/ Cardinality(In(r, g)) = 2 /\ Shrink(d, g, p) = Dissolved(r, g)
             \/ Cardinality(In(r, g)) > 2 /\ Shrink(d, g, p) = Smaller(r, p)
<1> DEFINE g == r.member[p]
<1>b. Body = Player /\ PetsOf(p) = {}
  BY NoPets
<1>r. /\ g \in GroupId /\ g \in Live(r) /\ g # NoGroup
      /\ r.member \in [Body -> GroupId \cup {NoGroup}]
      /\ r.info \in [GroupId -> GroupInfo \cup {NoInfo}]
      /\ r.info[g] \in GroupInfo
      /\ r = [member |-> r.member, info |-> r.info]
  BY DEF Sound, Live, Vacant, Registry
<1>n. /\ r.info[g].num_members \in Nat \ {0, 1}
      /\ r.info[g].num_members = Cardinality(In(r, g))
  BY <1>r, PositiveCount DEF Sound
<1>d. d = [member |-> [r.member EXCEPT ![p] = NoGroup], info |-> r.info]
  <2>1. d = Put(r, {p}, NoGroup)
    BY <1>b DEF Depart
  <2> QED
    BY <2>1, <1>r DEF Put
<1> DEFINE left == [d EXCEPT !.info[g].num_members = r.info[g].num_members - 1]
<1>l. /\ left.member = [r.member EXCEPT ![p] = NoGroup]
      /\ left.info = [r.info EXCEPT ![g].num_members = @ - 1]
      /\ left = Smaller(r, p)
  BY <1>d, <1>r DEF Smaller
<1>1. PICK l \in In(r, g) : r.info[g].leader = Ent(l)
  BY <1>r DEF Sound, Led
<1>2. l \in Player /\ l # p /\ r.member[l] = g
  BY <1>1, <1>r DEF In, LedBy
<1>3. Members(left, g) = In(r, g) \ {p}
  <2>1. \A b \in Body : left.member[b] = g <=> r.member[b] = g /\ b # p
    BY <1>l, <1>r
  <2>2. \A b \in Player : r.member[b] = g => HasAlignment(b)
    BY <1>r DEF Sound, HasAlignment
  <2> QED
    BY <2>1, <2>2, <1>b DEF Members, In
<1>4. g \notin Vacant(d) /\ d.info[g] = r.info[g]
  BY <1>d, <1>r DEF Live, Vacant
<1>5. {q \in Player : Ent(q) = r.info[g].leader} = {l}
  BY <1>1, <1>2, OneEntityEach
<1>6. Shrink(d, g, p) = IF Cardinality(Members(left, g)) = 1
                        THEN Put(RemoveGroup(left, g), {l}, NoGroup) ELSE left
  <2>1. p \in Player /\ r.info[g].num_members > 0
    BY <1>n
  <2> QED
    BY <2>1, <1>4, <1>5 DEF Shrink
<1>7. ASSUME Cardinality(Members(left, g)) = 1
      PROVE  Put(RemoveGroup(left, g), {l}, NoGroup) = Dissolved(r, g)
  <2>1. IsFiniteSet(In(r, g) \ {p}) /\ l \in In(r, g) \ {p}
    BY <1>1, <1>2, FiniteGroups, FS_RemoveElement
  <2>2. In(r, g) \ {p} = {l}
    BY SMTT(60), <1>3, <1>7, <2>1, FS_Singleton
  <2>3. \A b \in Body : r.member[b] = g <=> b \in {p, l}
    BY <2>2, <1>2, <1>b DEF In
  <2> DEFINE closed == RemoveGroup(left, g)
  <2>4. closed = [member |-> [r.member EXCEPT ![p] = NoGroup],
                  info   |-> [r.info EXCEPT ![g] = NoInfo]]
    <3>1. left = [member |-> [r.member EXCEPT ![p] = NoGroup],
                  info   |-> [h \in GroupId |-> IF h = g THEN left.info[g] ELSE r.info[h]]]
      BY <1>l, <1>r DEF Smaller
    <3>2. \A x : x = [member |-> [r.member EXCEPT ![p] = NoGroup],
                      info   |-> [h \in GroupId |-> IF h = g THEN left.info[g] ELSE r.info[h]]]
            => RemoveGroup(x, g) = [member |-> [r.member EXCEPT ![p] = NoGroup],
                                    info   |-> [r.info EXCEPT ![g] = NoInfo]]
      <4> HIDE DEF left
      <4> QED
        BY <1>r DEF RemoveGroup
    <3> QED
      BY <3>1, <3>2
  <2> HIDE DEF closed
  <2>5. Put(closed, {l}, NoGroup) =
          [member |-> [b \in Body |-> IF b \in {l} THEN NoGroup
                                      ELSE [r.member EXCEPT ![p] = NoGroup][b]],
           info |-> [r.info EXCEPT ![g] = NoInfo]]
    BY <2>4 DEF Put
  <2>6. Put(closed, {l}, NoGroup) = Dissolved(r, g)
    BY <2>3, <2>5, <1>r DEF Dissolved
  <2> QED
    BY <2>6 DEF closed
<1>8. Cardinality(Members(left, g)) = Cardinality(In(r, g)) - 1
  <2>1. p \in In(r, g)
    BY DEF In
  <2> QED
    BY SMTT(60), <2>1, <1>3, FiniteGroups, FS_RemoveElement
<1>9. Cardinality(In(r, g)) \in Nat \ {0, 1} /\ left = Smaller(r, p)
  BY <1>l, <1>n
<1> HIDE DEF left, g
<1>10. \/ Cardinality(In(r, g)) = 2 /\ Shrink(d, g, p) = Dissolved(r, g)
       \/ Cardinality(In(r, g)) > 2 /\ Shrink(d, g, p) = Smaller(r, p)
  <2>1. Cardinality(In(r, g)) = 2 \/ Cardinality(In(r, g)) > 2
    BY <1>9
  <2>2. Cardinality(In(r, g)) = 2 => Shrink(d, g, p) = Dissolved(r, g)
    BY <1>6, <1>7, <1>8
  <2>3. Cardinality(In(r, g)) > 2 => Shrink(d, g, p) = Smaller(r, p)
    <3>1. Cardinality(In(r, g)) > 2 => Cardinality(Members(left, g)) # 1
      BY <1>8, <1>9
    <3> QED
      BY <1>6, <1>9, <3>1
  <2> QED
    BY <2>1, <2>2, <2>3
<1> QED
  BY <1>10 DEF g

\* RemoveFromGroup, once a player who is to be deleted has lost the component.
LEMMA RemovalCases ==
  ASSUME Pet = {}, GroupsTypeOK, NEW r, Sound(r), NEW p \in Player,
         NEW deleted \in BOOLEAN, NEW s \in RemoveFromGroup(r, p, deleted)
  PROVE  /\ Removed(r, p, Put(s, {p}, NoGroup))
         /\ ~deleted => Removed(r, p, s)
<1> DEFINE g == r.member[p]
<1>b. Body = Player
  BY NoPets
<1>s. s \in Registry
  BY RemoveFromGroupType, <1>b DEF Sound
<1>i. ASSUME s.member[p] = NoGroup
      PROVE  s = Put(s, {p}, NoGroup)
  BY <1>i, <1>s DEF Put, Registry
<1>1. CASE g = NoGroup
  <2>1. s = r
    BY <1>1 DEF RemoveFromGroup
  <2> QED
    BY <1>1, <1>i, <2>1 DEF Removed
<1>2. CASE g # NoGroup /\ LedBy(r, p, p)
  <2>1. s \in Disband(r, p, deleted)
    BY <1>2 DEF RemoveFromGroup
  <2>2. Put(s, {p}, NoGroup) = Dissolved(r, g) /\ (~deleted => s.member[p] = NoGroup)
    BY <1>2, <2>1, DisbandDissolves
  <2> QED
    BY <1>2, <1>i, <2>2 DEF Removed
<1>3. CASE g # NoGroup /\ ~LedBy(r, p, p)
  <2>1. PICK d \in Depart(r, p, deleted) : s = Shrink(d, g, p)
    BY <1>3 DEF RemoveFromGroup
  <2>2. \/ Cardinality(In(r, g)) = 2 /\ s = Dissolved(r, g)
        \/ Cardinality(In(r, g)) > 2 /\ s = Smaller(r, p)
    BY <1>3, <2>1, ShrinkShrinks
  <2>3. s.member[p] = NoGroup
    BY <2>2, <1>b DEF Dissolved, Smaller, Sound, Registry
  <2> QED
    BY <1>3, <1>i, <2>2, <2>3 DEF Removed
<1> QED
  BY <1>1, <1>2, <1>3

\* A player who departs is in no group, and the registry is sound again.
LEMMA RemovedSound ==
  ASSUME Pet = {}, GroupsTypeOK, NEW r, Sound(r), NEW p \in Player, NEW s,
         Removed(r, p, s)
  PROVE  Sound(s) /\ Shrunk(r, s) /\ s.member[p] = NoGroup
<1> DEFINE g == r.member[p]
<1>b. Body = Player /\ r.member \in [Body -> GroupId \cup {NoGroup}]
  BY NoPets DEF Sound, Registry
<1>1. CASE g = NoGroup /\ s = r
  <2>1. Shrunk(r, r)
    BY SizeType DEF Shrunk
  <2> QED
    BY <1>1, <2>1
<1>2. CASE g # NoGroup /\ s = Dissolved(r, g)
  <2>1. g \in Live(r) /\ s.member[p] = NoGroup
    BY <1>2, <1>b DEF Sound, Dissolved
  <2> QED
    BY <1>2, <2>1, DissolvedSound
<1>3. CASE /\ g # NoGroup /\ ~LedBy(r, p, p) /\ Cardinality(In(r, g)) > 2
           /\ s = Smaller(r, p)
  <2>1. s.member[p] = NoGroup
    BY <1>3, <1>b DEF Smaller
  <2> QED
    BY <1>3, <2>1, SmallerSound
<1> QED
  BY <1>1, <1>2, <1>3 DEF Removed

\* Of players who are not to be deleted.
LEMMA DepartureCases ==
  ASSUME Pet = {}, GroupsTypeOK, NEW r, Sound(r), NEW p \in Player,
         NEW s \in RemoveFromGroup(r, p, FALSE)
  PROVE  Removed(r, p, s)
<1> DEFINE deleted == FALSE
<1>1. deleted \in BOOLEAN /\ ~deleted /\ s \in RemoveFromGroup(r, p, deleted)
  OBVIOUS
<1> HIDE DEF deleted
<1> QED
  BY <1>1, RemovalCases

-----------------------------------------------------------------------------
(* Additions *)

\* A player in no group joins the one p leads.
LEMMA BiggerSound ==
  ASSUME Pet = {}, GroupsTypeOK, NEW r, Sound(r), NEW p \in Player, NEW q \in Player,
         p # q, InGame(q), r.member[q] = NoGroup, LedBy(r, p, p)
  PROVE  LET s == Bigger(r, r.member[p], q)
         IN  /\ Sound(s)
             /\ \A x \in Player \ {p} : Size(s, x) <= Size(r, x)
             /\ Size(s, p) = Size(r, p) + 1
<1> DEFINE g == r.member[p]
           s == Bigger(r, g, q)
<1>b. Body = Player
  BY NoPets
<1>r. /\ g \in GroupId /\ g \in Live(r) /\ g # NoGroup
      /\ r.member \in [Body -> GroupId \cup {NoGroup}]
      /\ r.info \in [GroupId -> GroupInfo \cup {NoInfo}]
      /\ r.info[g] \in GroupInfo /\ r.info[g].leader = Ent(p)
  BY GroupsAssumption DEF Sound, Live, Vacant, Registry, LedBy
<1>n. r.info[g].num_members \in Nat \ {0}
  BY <1>r, PositiveCount
<1>m. /\ s.member = [r.member EXCEPT ![q] = g]
      /\ s.info = [r.info EXCEPT ![g].num_members = @ + 1]
      /\ \A x \in Player : s.member[x] = IF x = q THEN g ELSE r.member[x]
  BY <1>b, <1>r DEF Bigger
<1>i. /\ s.info[g] = [leader |-> Ent(p), num_members |-> r.info[g].num_members + 1]
      /\ \A h \in GroupId \ {g} : s.info[h] = r.info[h]
  BY <1>r, <1>m DEF GroupInfo
<1>g. s.info[g] \in GroupInfo
  BY <1>i, <1>n, <1>r DEF GroupInfo
<1>f. s.info = [h \in GroupId |-> IF h = g THEN s.info[g] ELSE r.info[h]]
  BY <1>r, <1>m
<1>1. s \in Registry
  <2>1. s.info \in [GroupId -> GroupInfo \cup {NoInfo}]
    BY <1>f, <1>g, <1>r
  <2>2. s.member \in [Body -> GroupId \cup {NoGroup}]
    BY <1>m, <1>r
  <2> QED
    BY <2>1, <2>2 DEF Bigger, Registry
<1>2. Live(s) = Live(r)
  BY <1>i, <1>g, <1>r, NoInfoAssumption DEF Live, Vacant
<1>3. In(s, g) = In(r, g) \cup {q} /\ q \notin In(r, g) /\ p \in In(r, g)
  BY <1>m, <1>r DEF In
<1>4. \A h \in Live(s) \ {g} : s.info[h] = r.info[h] /\ In(s, h) = In(r, h)
  <2> SUFFICES ASSUME NEW h \in Live(s) \ {g}
               PROVE  s.info[h] = r.info[h] /\ In(s, h) = In(r, h)
    OBVIOUS
  <2>1. h # g /\ h \in GroupId /\ h # NoGroup
    BY GroupsAssumption DEF Live
  <2> QED
    BY <2>1, <1>i, <1>m DEF In
<1>5. s.info[g].num_members = Cardinality(In(s, g)) /\ Cardinality(In(s, g)) > 1 /\ Led(s, g)
  <2>1. Cardinality(In(s, g)) = Cardinality(In(r, g)) + 1
    BY ZenonT(60), <1>3, FiniteGroups, FS_AddElement
  <2>2. r.info[g].num_members = Cardinality(In(r, g))
    BY <1>r DEF Sound
  <2> QED
    BY <2>1, <2>2, <1>3, <1>i, <1>n DEF Led
<1>6. \A h \in Live(s) : /\ s.info[h].num_members = Cardinality(In(s, h))
                         /\ Cardinality(In(s, h)) > 1 /\ Led(s, h)
  BY <1>2, <1>4, <1>5 DEF Sound, Led
<1>7. \A x \in Player : s.member[x] # NoGroup => s.member[x] \in Live(s) /\ InGame(x)
  BY <1>2, <1>m, <1>r DEF Sound
<1>8. Sound(s)
  BY <1>1, <1>6, <1>7 DEF Sound
<1>9. ASSUME NEW x \in Player \ {p}
      PROVE  Size(s, x) <= Size(r, x)
  <2>1. CASE LedBy(s, x, x)
    <3>1. s.member[x] \in Live(s)
      BY <2>1 DEF LedBy
    <3>2. s.member[x] # g
      BY <2>1, <1>i, OneEntityEach DEF LedBy
    <3>3. s.member[x] = r.member[x]
      BY <3>2, <1>m
    <3>4. LedBy(r, x, x) /\ Size(s, x) = Size(r, x)
      BY <2>1, <3>1, <3>2, <3>3, <1>2, <1>4 DEF LedBy, Size
    <3> QED
      BY <3>4, SizeType
  <2>2. CASE ~LedBy(s, x, x)
    BY <2>2, SizeType DEF Size
  <2> QED
    BY <2>1, <2>2
<1>10. Size(s, p) = Size(r, p) + 1
  <2>1. s.member[p] = g /\ LedBy(s, p, p)
    BY <1>m, <1>2, <1>i, <1>r DEF LedBy
  <2> QED
    BY <2>1, <1>i DEF Size
<1> QED
  BY <1>8, <1>9, <1>10

\* Two players in no group get one.
LEMMA FoundedSound ==
  ASSUME Pet = {}, GroupsTypeOK, NEW r, Sound(r), NEW p \in Player, NEW q \in Player,
         p # q, InGame(p), InGame(q), r.member[p] = NoGroup, r.member[q] = NoGroup,
         NEW g \in Vacant(r)
  PROVE  LET s == Founded(r, g, p, q)
         IN  /\ Sound(s)
             /\ \A x \in Player \ {p} : Size(s, x) <= Size(r, x)
             /\ Size(s, p) = 2
<1> DEFINE s == Founded(r, g, p, q)
<1>b. Body = Player
  BY NoPets
<1>r. /\ g \in GroupId /\ g \notin Live(r) /\ g # NoGroup
      /\ r.member \in [Body -> GroupId \cup {NoGroup}]
      /\ r.info \in [GroupId -> GroupInfo \cup {NoInfo}]
  BY GroupsAssumption DEF Sound, Live, Vacant, Registry
<1>m. /\ s.member = [r.member EXCEPT ![p] = g, ![q] = g]
      /\ s.info = [r.info EXCEPT ![g] = [leader |-> Ent(p), num_members |-> 2]]
      /\ \A x \in Player : s.member[x] = IF x \in {p, q} THEN g ELSE r.member[x]
  BY <1>b, <1>r DEF Founded
<1>i. /\ s.info[g] = [leader |-> Ent(p), num_members |-> 2]
      /\ \A h \in GroupId \ {g} : s.info[h] = r.info[h]
  BY <1>r, <1>m
<1>g. s.info[g] \in GroupInfo
  BY <1>i, OneEntityEach DEF GroupInfo
<1>1. s \in Registry
  <2>1. s.info \in [GroupId -> GroupInfo \cup {NoInfo}]
    BY <1>m, <1>i, <1>g, <1>r
  <2>2. s.member \in [Body -> GroupId \cup {NoGroup}]
    BY <1>m, <1>r
  <2> QED
    BY <2>1, <2>2 DEF Founded, Registry
<1>2. Live(s) = Live(r) \cup {g}
  BY <1>i, <1>g, <1>r, NoInfoAssumption DEF Live, Vacant
<1>3. In(s, g) = {p, q}
  <2>1. \A x \in Player : r.member[x] # g
    BY <1>r DEF Sound
  <2> QED
    BY <2>1, <1>m DEF In
<1>4. \A h \in Live(r) : s.info[h] = r.info[h] /\ In(s, h) = In(r, h)
  <2> SUFFICES ASSUME NEW h \in Live(r)
               PROVE  s.info[h] = r.info[h] /\ In(s, h) = In(r, h)
    OBVIOUS
  <2>1. h # g /\ h \in GroupId /\ h # NoGroup
    BY <1>r, GroupsAssumption DEF Live
  <2> QED
    BY <2>1, <1>i, <1>m DEF In
<1>5. s.info[g].num_members = Cardinality(In(s, g)) /\ Cardinality(In(s, g)) > 1 /\ Led(s, g)
  <2>1. IsFiniteSet({p}) /\ Cardinality({p}) = 1 /\ q \notin {p}
    BY FS_Singleton
  <2>2. Cardinality({p} \cup {q}) = Cardinality({p}) + 1
    BY <2>1, FS_AddElement
  <2>3. {p} \cup {q} = {p, q}
    OBVIOUS
  <2> QED
    BY <2>1, <2>2, <2>3, <1>3, <1>i DEF Led
<1>6. \A h \in Live(s) : /\ s.info[h].num_members = Cardinality(In(s, h))
                         /\ Cardinality(In(s, h)) > 1 /\ Led(s, h)
  BY <1>2, <1>4, <1>5 DEF Sound, Led
<1>7. \A x \in Player : s.member[x] # NoGroup => s.member[x] \in Live(s) /\ InGame(x)
  BY <1>2, <1>m, <1>r DEF Sound
<1>8. Sound(s)
  BY <1>1, <1>6, <1>7 DEF Sound
<1>9. ASSUME NEW x \in Player \ {p}
      PROVE  Size(s, x) <= Size(r, x)
  <2>1. CASE LedBy(s, x, x)
    <3>1. s.member[x] \in Live(s)
      BY <2>1 DEF LedBy
    <3>2. s.member[x] # g
      BY <2>1, <1>i, OneEntityEach DEF LedBy
    <3>3. s.member[x] = r.member[x]
      BY <3>2, <1>m
    <3>4. LedBy(r, x, x) /\ Size(s, x) = Size(r, x)
      BY <2>1, <3>1, <3>2, <3>3, <1>2, <1>4 DEF LedBy, Size
    <3> QED
      BY <3>4, SizeType
  <2>2. CASE ~LedBy(s, x, x)
    BY <2>2, SizeType DEF Size
  <2> QED
    BY <2>1, <2>2
<1>10. Size(s, p) = 2
  <2>1. s.member[p] = g /\ LedBy(s, p, p)
    BY <1>m, <1>2, <1>i, <1>r DEF LedBy
  <2> QED
    BY <2>1, <1>i DEF Size
<1> QED
  BY <1>8, <1>9, <1>10

LEMMA AdditionCases ==
  ASSUME Pet = {}, GroupsTypeOK, NEW r, Sound(r), NEW p \in Player, NEW q \in Player,
         NEW s \in AddGroupMember(r, p, q)
  PROVE  Added(r, p, q, s)
<1>b. Body = Player /\ {q} \cup PetsOf(q) = {q}
  BY NoPets
<1>0. PICK u \in (IF r.member[q] \in Live(r) THEN RemoveFromGroup(r, q, FALSE) ELSE {r}) :
        \E t \in LeadersGroup(u, p) : s = Put(t[1], {q}, t[2])
  <2> DEFINE free == IF r.member[q] \in Live(r) THEN RemoveFromGroup(r, q, FALSE) ELSE {r}
             Joined(x) == {Put(t[1], {q} \cup PetsOf(q), t[2]) : t \in LeadersGroup(x, p)}
  <2>1. AddGroupMember(r, p, q) = UNION {Joined(x) : x \in free}
    BY DEF AddGroupMember
  <2>2. PICK u \in free : s \in Joined(u)
    BY <2>1
  <2> QED
    BY <2>2, <1>b
<1>1. PICK t \in LeadersGroup(u, p) : s = Put(t[1], {q}, t[2])
  BY <1>0
<1>2. Removed(r, q, u) /\ Sound(u)
  <2>1. CASE r.member[q] \in Live(r)
    BY <1>0, <2>1, DepartureCases, RemovedSound
  <2>2. CASE r.member[q] \notin Live(r)
    BY <1>0, <2>2 DEF Sound, Removed
  <2> QED
    BY <2>1, <2>2
<1>3. CASE LedBy(u, p, p)
  <2> DEFINE g == u.member[p]
  <2>r. /\ g \in GroupId /\ u = [member |-> u.member, info |-> u.info]
        /\ u.member \in [Body -> GroupId \cup {NoGroup}]
    BY <1>2, <1>3 DEF Sound, LedBy, Live, Registry
  <2>1. t[1] = [u EXCEPT !.info[g].num_members = @ + 1] /\ t[2] = g
    BY <1>1, <1>3 DEF LeadersGroup
  <2>2. t[1] = [member |-> u.member, info |-> [u.info EXCEPT ![g].num_members = @ + 1]]
    BY <2>1, <2>r
  <2>3. s = Bigger(u, g, q)
    BY <1>1, <1>b, <2>1, <2>2, <2>r DEF Put, Bigger
  <2> QED
    BY <1>2, <1>3, <2>3 DEF Added
<1>4. CASE ~LedBy(u, p, p)
  <2>0. PICK v \in RemoveFromGroup(u, p, FALSE) :
          \E g \in Vacant(v) : t = <<Put(CreateGroup(v, g, p, 2), {p}, g), g>>
    BY <1>4 DEF LeadersGroup
  <2>1. PICK g \in Vacant(v) : t = <<Put(CreateGroup(v, g, p, 2), {p}, g), g>>
    BY <2>0
  <2>2. Removed(u, p, v) /\ Sound(v)
    BY <1>2, <2>0, DepartureCases, RemovedSound
  <2>r. /\ g \in GroupId /\ v = [member |-> v.member, info |-> v.info]
        /\ v.member \in [Body -> GroupId \cup {NoGroup}]
        /\ v.info \in [GroupId -> GroupInfo \cup {NoInfo}]
    BY <2>1, <2>2 DEF Sound, Vacant, Registry
  <2> DEFINE new == [v.info EXCEPT ![g] = [leader |-> Ent(p), num_members |-> 2]]
             put == [b \in Body |-> IF b \in {p} THEN g ELSE v.member[b]]
  <2>3. CreateGroup(v, g, p, 2) = [member |-> v.member, info |-> new]
    BY <2>r DEF CreateGroup
  <2>4. t[1] = [member |-> put, info |-> new] /\ t[2] = g
    BY <2>1, <2>3 DEF Put
  <2>5. s = [member |-> [b \in Body |-> IF b \in {q} THEN g ELSE put[b]], info |-> new]
    BY <1>1, <2>4 DEF Put
  <2>6. s = Founded(v, g, p, q)
    BY <1>b, <2>5, <2>r DEF Founded
  <2> QED
    BY <1>2, <1>4, <2>1, <2>2, <2>6 DEF Added
<1> QED
  BY <1>3, <1>4

\* Whoever is added counts for the player who invited them, and for no other.
LEMMA AddedSound ==
  ASSUME Pet = {}, GroupsTypeOK, NEW r, Sound(r), NEW p \in Player, NEW q \in Player,
         p # q, InGame(p), InGame(q), NEW s, Added(r, p, q, s)
  PROVE  /\ Sound(s)
         /\ \A x \in Player \ {p} : Size(s, x) <= Size(r, x)
         /\ Size(s, p) <= Size(r, p) + 1
<1>1. PICK u : /\ Removed(r, q, u)
              /\ \/ LedBy(u, p, p) /\ s = Bigger(u, u.member[p], q)
                 \/ /\ ~LedBy(u, p, p)
                    /\ \E v : Removed(u, p, v) /\ \E g \in Vacant(v) : s = Founded(v, g, p, q)
  BY DEF Added
<1>2. Sound(u) /\ Shrunk(r, u) /\ u.member[q] = NoGroup
  BY <1>1, RemovedSound
<1>3. CASE LedBy(u, p, p)
  <2>1. /\ Sound(s)
        /\ \A x \in Player \ {p} : Size(s, x) <= Size(u, x)
        /\ Size(s, p) = Size(u, p) + 1
    BY <1>1, <1>2, <1>3, BiggerSound
  <2> QED
    BY <1>2, <2>1, SizeType DEF Shrunk
<1>4. CASE ~LedBy(u, p, p)
  <2>0. PICK v : Removed(u, p, v) /\ \E g \in Vacant(v) : s = Founded(v, g, p, q)
    BY <1>1, <1>4
  <2>1. PICK g \in Vacant(v) : s = Founded(v, g, p, q)
    BY <2>0
  <2>2. Sound(v) /\ Shrunk(u, v) /\ v.member[p] = NoGroup
    BY <1>2, <2>0, RemovedSound
  <2>3. v.member[q] = NoGroup
    BY <1>2, <2>2 DEF Shrunk
  <2>4. /\ Sound(s)
        /\ \A x \in Player \ {p} : Size(s, x) <= Size(v, x)
        /\ Size(s, p) = 2
    BY <2>1, <2>2, <2>3, FoundedSound
  <2>5. Size(r, p) \in Nat \ {0}
    BY SizeType
  <2>6. ASSUME NEW x \in Player \ {p}
        PROVE  Size(s, x) <= Size(r, x)
    <3>1. Size(s, x) <= Size(v, x) /\ Size(v, x) <= Size(u, x) /\ Size(u, x) <= Size(r, x)
      BY <1>2, <2>2, <2>4 DEF Shrunk
    <3>2. Size(s, x) \in Nat /\ Size(v, x) \in Nat /\ Size(u, x) \in Nat /\ Size(r, x) \in Nat
      BY <1>2, <2>2, <2>4, SizeType
    <3> QED
      BY <3>1, <3>2
  <2> QED
    BY <2>4, <2>5, <2>6
<1> QED
  BY <1>3, <1>4

-----------------------------------------------------------------------------
(* The invariant *)

\* Nobody invites themselves.
PendingSound ==
  \A p \in Player : IsFiniteSet(pending[p]) /\ \A e \in pending[p] : e.invitee # Ent(p)

\* There is room for everyone who has been asked.
RoomLeft ==
  \A p \in Player : Exists(p) => Size(reg, p) + PendingCount(p) <= MaxGroupSize

NobodyOnScreen == \A p \in Player : Exists(p) => InGame(p)

IInv ==
  TypeOK /\ Paired /\ Sound(reg) /\ NobodyOnScreen /\ PendingSound /\ RoomLeft

LEMMA PendingType ==
  ASSUME PendingSound, NEW p \in Player
  PROVE  PendingCount(p) \in Nat
<1>1. {e \in pending[p] : e.kind = "Group"} \in SUBSET pending[p]
  OBVIOUS
<1>2. IsFiniteSet({e \in pending[p] : e.kind = "Group"})
  BY <1>1, FS_Subset DEF PendingSound
<1> QED
  BY <1>2, FS_CardinalityType DEF PendingCount

\* Entries of a list are removed.
LEMMA FewerPending ==
  ASSUME PendingSound, NEW p \in Player, pending'[p] \subseteq pending[p]
  PROVE  /\ IsFiniteSet(pending'[p])
         /\ PendingCount(p)' \in Nat
         /\ PendingCount(p)' <= PendingCount(p)
         /\ \A e \in pending[p] \ pending'[p] :
              e.kind = "Group" => PendingCount(p)' + 1 <= PendingCount(p)
<1> DEFINE S == {e \in pending[p] : e.kind = "Group"}
           T == {e \in pending'[p] : e.kind = "Group"}
<1>1. IsFiniteSet(pending'[p])
  BY FS_Subset DEF PendingSound
<1>2. S \in SUBSET pending[p] /\ T \in SUBSET S
  OBVIOUS
<1>3. IsFiniteSet(S)
  BY <1>2, FS_Subset DEF PendingSound
<1>4. IsFiniteSet(T) /\ Cardinality(T) <= Cardinality(S)
      /\ (Cardinality(T) = Cardinality(S) => S = T)
  BY <1>2, <1>3, FS_Subset
<1>5. Cardinality(S) \in Nat /\ Cardinality(T) \in Nat
  BY <1>3, <1>4, FS_CardinalityType
<1>6. PendingCount(p) = Cardinality(S) /\ PendingCount(p)' = Cardinality(T)
  BY DEF PendingCount
<1>7. ASSUME NEW e \in pending[p] \ pending'[p], e.kind = "Group"
      PROVE  Cardinality(T) + 1 <= Cardinality(S)
  <2>1. e \in S /\ e \notin T
    BY <1>7
  <2> HIDE DEF S, T
  <2>2. Cardinality(T) # Cardinality(S)
    BY <2>1, <1>4
  <2> QED
    BY <2>2, <1>4, <1>5
<1> HIDE DEF S, T
<1> QED
  BY <1>1, <1>4, <1>5, <1>6, <1>7

\* A registry that is sound stays so while everyone in a group stays in the game.
LEMMA SoundNext ==
  ASSUME life' = life, Sound(reg'),
         \A x \in Player : reg'.member[x] # NoGroup /\ InGame(x) => InGame(x)'
  PROVE  Sound(reg)' /\ \A x \in Player : Size(reg, x)' = Size(reg', x)
<1>1. \A x \in Player : Ent(x)' = Ent(x)
  BY DEF Ent
<1>2. \A g : Led(reg, g)' <=> Led(reg', g)
  BY <1>1 DEF Led, In
<1>3. Live(reg)' = Live(reg') /\ \A g : In(reg, g)' = In(reg', g)
  BY DEF Live, Vacant, In
<1>4. Sound(reg)'
  BY <1>2, <1>3 DEF Sound
<1>5. \A x \in Player : LedBy(reg, x, x)' <=> LedBy(reg', x, x)
  BY <1>1, <1>3 DEF LedBy
<1> QED
  BY <1>4, <1>5 DEF Size

\* Steps of players who stay: the group of some player p may grow by one if p
\* has one invite less.
LEMMA StayingStep ==
  ASSUME IInv, TypeOK', Paired', life' = life, place' = place,
         Sound(reg'),
         \A x \in Player : pending'[x] \subseteq pending[x],
         \A x \in Player : Exists(x) =>
           \/ Size(reg', x) <= Size(reg, x)
           \/ /\ Size(reg', x) <= Size(reg, x) + 1
              /\ \E e \in pending[x] \ pending'[x] : e.kind = "Group"
  PROVE  IInv'
<1> USE DEF IInv
<1>1. Sound(reg)' /\ \A x \in Player : Size(reg, x)' = Size(reg', x)
  BY SoundNext DEF InGame
<1>2. NobodyOnScreen'
  BY DEF NobodyOnScreen, Exists, InGame
<1>3. PendingSound'
  BY FewerPending DEF PendingSound, Ent
<1>4. ASSUME NEW x \in Player, Exists(x)'
      PROVE  Size(reg', x) + PendingCount(x)' <= MaxGroupSize
  <2>1. Exists(x)
    BY <1>4 DEF Exists
  <2>2. Size(reg, x) + PendingCount(x) <= MaxGroupSize
    BY <2>1 DEF RoomLeft
  <2>3. /\ Size(reg, x) \in Nat /\ Size(reg', x) \in Nat
        /\ PendingCount(x) \in Nat /\ PendingCount(x)' \in Nat
        /\ MaxGroupSize \in Nat
    BY SizeType, PendingType, FewerPending, InvitesAssumption
  <2>4. PendingCount(x)' <= PendingCount(x)
    BY FewerPending
  <2>5. CASE Size(reg', x) <= Size(reg, x)
    BY <2>2, <2>3, <2>4, <2>5
  <2>6. CASE /\ Size(reg', x) <= Size(reg, x) + 1
             /\ \E e \in pending[x] \ pending'[x] : e.kind = "Group"
    <3>1. PendingCount(x)' + 1 <= PendingCount(x)
      BY <2>6, FewerPending
    <3> QED
      BY <2>2, <2>3, <2>6, <3>1
  <2> QED
    BY <2>1, <2>5, <2>6
<1>5. RoomLeft'
  BY <1>1, <1>4 DEF RoomLeft
<1> QED
  BY <1>1, <1>2, <1>3, <1>5

\* An invite to a group is one there is room for.
LEMMA InviteStays ==
  ASSUME IInv, TypeOK', Paired', NEW p \in Player, NEW q \in Player, NEW kind \in Kind,
         HandleInvite(p, q, kind)
  PROVE  IInv'
<1> USE DEF IInv
<1> DEFINE e == [invitee |-> Ent(q), kind |-> kind]
<1>1. /\ pending' = [pending EXCEPT ![p] = @ \cup {e}] /\ pending \in [Player -> SUBSET Entry]
      /\ p # q /\ UNCHANGED <<reg, life, place>>
      /\ kind = "Group" => CanInvite(p, q)
  BY DEF HandleInvite, groupVars, TypeOK, InvitesTypeOK
<1>p. pending'[p] = pending[p] \cup {e} /\ \A x \in Player \ {p} : pending'[x] = pending[x]
  BY <1>1
<1>2. Sound(reg)' /\ \A x \in Player : Size(reg, x)' = Size(reg, x)
  BY <1>1, SoundNext DEF InGame
<1>3. NobodyOnScreen'
  BY <1>1 DEF NobodyOnScreen, Exists, InGame
<1>4. PendingSound'
  <2>1. IsFiniteSet(pending'[p])
    BY ZenonT(60), <1>p, FS_AddElement DEF PendingSound
  <2>2. e.invitee # Ent(p)
    BY <1>1, OneEntityEach DEF TypeOK
  <2>3. \A x \in Player : Ent(x)' = Ent(x)
    BY <1>1 DEF Ent
  <2> QED
    BY <1>p, <2>1, <2>2, <2>3 DEF PendingSound
<1>5. ASSUME NEW x \in Player, Exists(x)'
      PROVE  Size(reg, x) + PendingCount(x)' <= MaxGroupSize
  <2>0. Exists(x) /\ Size(reg, x) + PendingCount(x) <= MaxGroupSize
    BY <1>1, <1>5 DEF Exists, RoomLeft
  <2>1. CASE x # p
    BY <2>0, <2>1, <1>p DEF PendingCount
  <2>2. CASE x = p /\ kind # "Group"
    <3>1. {f \in pending'[p] : f.kind = "Group"} = {f \in pending[p] : f.kind = "Group"}
      BY <1>p, <2>2
    <3> QED
      BY <2>0, <2>2, <3>1 DEF PendingCount
  <2>3. CASE x = p /\ kind = "Group"
    <3> DEFINE S == {f \in pending[p] : f.kind = "Group"}
    <3>1. {f \in pending'[p] : f.kind = "Group"} = S \cup {e}
      BY <1>p, <2>3
    <3>2. IsFiniteSet(S) /\ Cardinality(S) \in Nat
      <4>1. S \in SUBSET pending[p]
        OBVIOUS
      <4>2. IsFiniteSet(S)
        BY <4>1, FS_Subset DEF PendingSound
      <4> QED
        BY <4>2, FS_CardinalityType
    <3>3. Cardinality(S \cup {e}) <= Cardinality(S) + 1
      <4> HIDE DEF S, e
      <4>1. Cardinality(S \cup {e}) = IF e \in S THEN Cardinality(S) ELSE Cardinality(S) + 1
        BY <3>2, FS_AddElement
      <4> QED
        BY <3>2, <4>1
    <3>4. PendingCount(p) = Cardinality(S) /\ PendingCount(p)' = Cardinality(S \cup {e})
      BY <3>1 DEF PendingCount
    <3>5. Size(reg, p) + PendingCount(p) < MaxGroupSize
      BY <1>1, <2>3 DEF CanInvite, GroupSizeOf, Size
    <3>6. Cardinality(S \cup {e}) \in Nat
      <4>1. IsFiniteSet(S \cup {e})
        <5> HIDE DEF S, e
        <5> QED
          BY <3>2, FS_AddElement
      <4> HIDE DEF S, e
      <4> QED
        BY <4>1, FS_CardinalityType
    <3> HIDE DEF S, e
    <3>7. Size(reg, p) \in Nat /\ MaxGroupSize \in Nat
      BY SizeType, InvitesAssumption
    <3> QED
      BY <2>3, <3>2, <3>3, <3>4, <3>5, <3>6, <3>7
  <2> QED
    BY <2>1, <2>2, <2>3
<1>6. RoomLeft'
  BY <1>2, <1>5 DEF RoomLeft
<1> QED
  BY <1>2, <1>3, <1>4, <1>6

\* Nothing happens to the groups, and invites go.
LEMMA LapseStays ==
  ASSUME IInv, TypeOK', Paired', UNCHANGED groupVars,
         \A x \in Player : pending'[x] \subseteq pending[x]
  PROVE  IInv'
<1>1. reg' = reg /\ life' = life /\ place' = place
  BY DEF groupVars
<1>2. \A x \in Player : Size(reg', x) <= Size(reg, x)
  BY <1>1, SizeType DEF IInv
<1>3. Sound(reg')
  BY <1>1 DEF IInv
<1> QED
  BY <1>1, <1>2, <1>3, StayingStep

\* The player who invited q has one invite less.
LEMMA AcceptStays ==
  ASSUME Pet = {}, IInv, TypeOK', Paired', NEW q \in Player, HandleInviteAccept(q)
  PROVE  IInv'
<1> USE DEF IInv
<1>1. /\ InGame(q) /\ pending' = ForgetAll({q}) /\ life' = life /\ place' = place
      /\ owner' = owner
  BY DEF HandleInviteAccept, Answer
<1>2. \A x \in Player : pending'[x] \subseteq pending[x]
  BY <1>1 DEF ForgetAll
<1>3. CASE reg' = reg
  BY <1>1, <1>2, <1>3, LapseStays DEF groupVars
<1>4. CASE reg' # reg
  <2>1. PICK p \in Player : Remembers(p, q) /\ reg' \in AddGroupMember(reg, p, q)
    BY <1>4 DEF HandleInviteAccept
  <2>2. invite[q].kind = "Group" /\ invite[q] \in Invite
    BY <1>4, <2>1 DEF HandleInviteAccept, Remembers, TypeOK, InvitesTypeOK
  <2>3. Exists(p) /\ InGame(p) /\ invite[q].inviter = Ent(p)
    BY <2>1 DEF Remembers, NobodyOnScreen
  <2>4. p # q
    BY <2>1 DEF Remembers, PendingSound
  <2> DEFINE e == [invitee |-> Ent(q), kind |-> "Group"]
  <2>5. e \in pending[p]
    <3>1. invite[q] = [inviter |-> Ent(p), kind |-> "Group"]
      BY <2>2, <2>3 DEF Invite
    <3>2. Exists(q) /\ "Group" \in Kind
      BY <1>1 DEF InGame, Exists, Kind
    <3> QED
      BY <2>3, <3>1, <3>2 DEF Paired, InvitePaired
  <2>6. e \notin pending'[p]
    <3>1. pending'[p] = {f \in pending[p] : ~\E y \in {q} : Remembers(p, y) /\ f.invitee = Ent(y)}
      BY <1>1 DEF ForgetAll
    <3> QED
      BY <2>1, <3>1
  <2>7. /\ Sound(reg')
        /\ \A x \in Player \ {p} : Size(reg', x) <= Size(reg, x)
        /\ Size(reg', p) <= Size(reg, p) + 1
    BY <1>1, <2>1, <2>3, <2>4, AdditionCases, AddedSound DEF TypeOK
  <2>8. ASSUME NEW x \in Player
        PROVE  \/ Size(reg', x) <= Size(reg, x)
               \/ /\ Size(reg', x) <= Size(reg, x) + 1
                  /\ \E f \in pending[x] \ pending'[x] : f.kind = "Group"
    <3>1. e \in pending[p] \ pending'[p] /\ e.kind = "Group"
      BY <2>5, <2>6
    <3> HIDE DEF e
    <3> QED
      BY <2>7, <3>1
  <2> QED
    BY <1>1, <1>2, <2>7, <2>8, StayingStep
<1> QED
  BY <1>3, <1>4

\* Leave and Kick.
LEMMA DepartureStays ==
  ASSUME Pet = {}, IInv, TypeOK', Paired', NEW p \in Player,
         reg' \in RemoveFromGroup(reg, p, FALSE), life' = life, place' = place,
         UNCHANGED inviteVars
  PROVE  IInv'
<1>1. Sound(reg') /\ \A x \in Player : Size(reg', x) <= Size(reg, x)
  BY DepartureCases, RemovedSound DEF IInv, TypeOK, Shrunk
<1>2. \A x \in Player : pending'[x] \subseteq pending[x]
  BY DEF inviteVars
<1> QED
  BY <1>1, <1>2, StayingStep

LEMMA DisconnectStays ==
  ASSUME Pet = {}, IInv, TypeOK', Paired', NEW p \in Player, ClientDisconnect(p)
  PROVE  IInv'
<1> USE DEF IInv
<1> DEFINE deleted == TRUE
<1>1. PICK r \in RemoveFromGroup(reg, p, deleted) : reg' = Put(r, {p}, NoGroup)
  BY DEF ClientDisconnect, DeleteEntity
<1>2. /\ place' = [place EXCEPT ![p] = "gone"] /\ life' = life
      /\ pending' = [pending EXCEPT ![p] = {}]
      /\ place \in [Player -> {"game", "screen", "gone"}]
      /\ pending \in [Player -> SUBSET Entry]
  BY DEF ClientDisconnect, DeleteEntity, DropInvites, TypeOK, GroupsTypeOK, InvitesTypeOK
<1>3. Sound(reg') /\ Shrunk(reg, reg') /\ reg'.member[p] = NoGroup
  <2>1. deleted \in BOOLEAN /\ GroupsTypeOK
    BY DEF TypeOK
  <2> HIDE DEF deleted
  <2> QED
    BY <1>1, <2>1, RemovalCases, RemovedSound
<1>4. Sound(reg)' /\ \A x \in Player : Size(reg, x)' = Size(reg', x)
  BY <1>2, <1>3, SoundNext DEF InGame
<1>5. \A x \in Player : pending'[x] \subseteq pending[x]
  BY <1>2
<1>6. \A x \in Player : Exists(x)' => Exists(x) /\ place'[x] = place[x]
  BY <1>2 DEF Exists
<1>7. NobodyOnScreen'
  BY <1>6 DEF NobodyOnScreen, InGame
<1>8. PendingSound'
  BY <1>2, <1>5, FewerPending DEF PendingSound, Ent
<1>9. ASSUME NEW x \in Player, Exists(x)'
      PROVE  Size(reg', x) + PendingCount(x)' <= MaxGroupSize
  <2>1. Size(reg, x) + PendingCount(x) <= MaxGroupSize
    BY <1>6, <1>9 DEF RoomLeft
  <2>2. Size(reg', x) <= Size(reg, x) /\ PendingCount(x)' <= PendingCount(x)
    BY <1>3, <1>5, FewerPending DEF Shrunk
  <2>3. /\ Size(reg, x) \in Nat /\ Size(reg', x) \in Nat
        /\ PendingCount(x) \in Nat /\ PendingCount(x)' \in Nat
        /\ MaxGroupSize \in Nat
    BY <1>3, <1>5, SizeType, PendingType, FewerPending, InvitesAssumption
  <2> QED
    BY <2>1, <2>2, <2>3
<1>10. RoomLeft'
  BY <1>4, <1>9 DEF RoomLeft
<1> QED
  BY <1>4, <1>7, <1>8, <1>10

LEMMA StableStep == Pet = {} /\ IInv /\ [StableNext]_vars => IInv'
<1> SUFFICES ASSUME Pet = {}, IInv, [StableNext]_vars
             PROVE  IInv'
  OBVIOUS
<1>1. [Next]_vars
  BY DEF StableNext, Next
<1>2. TypeOK' /\ Paired'
  BY <1>1, TypeStep, PairedStep DEF IInv
<1>3. CASE UNCHANGED vars
  BY <1>2, <1>3, LapseStays DEF vars, inviteVars
<1>4. CASE GroupStep
  <2>1. ASSUME NEW p \in Player, Leave(p), UNCHANGED inviteVars
        PROVE  IInv'
    BY <1>2, <2>1, DepartureStays DEF Leave
  <2>2. ASSUME NEW p \in Player, NEW q \in Player, Kick(p, q), UNCHANGED inviteVars
        PROVE  IInv'
    BY <1>2, <2>2, DepartureStays DEF Kick
  <2> QED
    BY <1>4, <2>1, <2>2 DEF GroupStep
<1>5. CASE InviteStep
  <2>1. ASSUME NEW q \in Player, HandleInviteDecline(q)
        PROVE  IInv'
    <3>1. \A x \in Player : pending'[x] \subseteq pending[x]
      BY <2>1 DEF HandleInviteDecline, Answer, ForgetAll
    <3> QED
      BY <1>2, <2>1, <3>1, LapseStays DEF HandleInviteDecline
  <2> QED
    BY <1>2, <1>5, <2>1, AcceptStays, InviteStays DEF InviteStep
<1>6. CASE TimeoutStep
  <2>1. PICK Q \in SUBSET Player : InviteTimeout(Q)
    BY <1>6 DEF TimeoutStep
  <2>2. \A x \in Player : pending'[x] \subseteq pending[x]
    BY <2>1 DEF InviteTimeout, ForgetAll
  <2> QED
    BY <1>2, <2>1, <2>2, LapseStays DEF InviteTimeout
<1>7. CASE DisconnectStep
  BY <1>2, <1>7, DisconnectStays DEF DisconnectStep
<1> QED
  BY <1>3, <1>4, <1>5, <1>6, <1>7 DEF StableNext

LEMMA StableInit == Pet = {} /\ Init => IInv
<1> SUFFICES ASSUME Pet = {}, Init
             PROVE  IInv
  OBVIOUS
<1>1. TypeOK /\ Paired
  BY TypeInit, PairedInit
<1>b. Body = Player
  BY NoPets
<1>2. /\ reg.member = [b \in Body |-> NoGroup] /\ reg.info = [g \in GroupId |-> NoInfo]
      /\ reg \in Registry
  BY <1>1 DEF Init, GroupsInit, TypeOK, GroupsTypeOK
<1>3. Live(reg) = {}
  BY <1>2 DEF Live, Vacant
<1>4. Sound(reg)
  BY <1>2, <1>3, <1>b DEF Sound
<1>5. NobodyOnScreen
  BY DEF Init, GroupsInit, NobodyOnScreen, InGame
<1>6. PendingSound
  BY FS_EmptySet DEF Init, PendingSound
<1>7. ASSUME NEW p \in Player
      PROVE  Size(reg, p) + PendingCount(p) <= MaxGroupSize
  <2>1. Size(reg, p) = 1
    BY <1>3 DEF Size, LedBy
  <2>2. {e \in pending[p] : e.kind = "Group"} = {}
    BY DEF Init
  <2>3. PendingCount(p) = 0
    BY <2>2, FS_EmptySet DEF PendingCount
  <2> QED
    BY <2>1, <2>3, InvitesAssumption
<1> QED
  BY <1>1, <1>4, <1>5, <1>6, <1>7 DEF IInv, RoomLeft

LEMMA StableInvariant ==
  ASSUME Pet = {}
  PROVE  StableSpec => []IInv
<1>1. Init => IInv
  BY StableInit
<1>2. IInv /\ [StableNext]_vars => IInv'
  BY StableStep
<1> QED
  BY <1>1, <1>2, PTL DEF StableSpec

-----------------------------------------------------------------------------
(* The theorems *)

\* The Group component of a player always names a group of the GroupManager,
\* whose leader is the present entity of a player with the same component,
\* after any series of joins, departures and disbandings.
THEOREM RegistryAlwaysPaired ==
  ASSUME Pet = {}
  PROVE  StableSpec => []RegistryPaired
<1>1. IInv => RegistryPaired
  <2> SUFFICES ASSUME IInv, NEW b \in Player, reg.member[b] # NoGroup
               PROVE  \E p \in Player : /\ Exists(p) /\ LedBy(reg, b, p)
                                        /\ reg.member[p] = reg.member[b]
    BY NoPets DEF RegistryPaired
  <2>1. reg.member[b] \in Live(reg)
    BY DEF IInv, Sound
  <2>2. PICK l \in In(reg, reg.member[b]) : reg.info[reg.member[b]].leader = Ent(l)
    BY <2>1 DEF IInv, Sound, Led
  <2>3. l \in Player /\ reg.member[l] = reg.member[b] /\ Exists(l)
    BY <2>2 DEF In, IInv, Sound, InGame, Exists
  <2> QED
    BY <2>1, <2>2, <2>3 DEF LedBy
<1> QED
  BY <1>1, StableInvariant, PTL

\* The count the GroupManager keeps of a group, which it adjusts piece by piece
\* as players come and go, is the number of players whose component names it.
THEOREM CountAlwaysSound ==
  ASSUME Pet = {}
  PROVE  StableSpec => []CountSound
<1>1. IInv => CountSound
  BY DEF IInv, Sound, CountSound, PlayersOf, In
<1> QED
  BY <1>1, StableInvariant, PTL

\* No group is left in the GroupManager when its last member has gone, in
\* whatever order the members go.
THEOREM GroupsAlwaysInhabited ==
  ASSUME Pet = {}
  PROVE  StableSpec => []GroupsInhabited
<1>1. IInv => GroupsInhabited
  BY NoPets DEF IInv, Sound, GroupsInhabited, Led, In
<1> QED
  BY <1>1, StableInvariant, PTL

\* The limit the server sets is never exceeded, although it is looked at when an
\* invite is sent and not when it is accepted.
THEOREM LimitAlwaysKept ==
  ASSUME Pet = {}
  PROVE  StableSpec => []LimitKept
<1>1. IInv => LimitKept
  <2> SUFFICES ASSUME IInv, NEW g \in GroupId
               PROVE  Cardinality(In(reg, g)) <= MaxGroupSize
    BY DEF LimitKept, PlayersOf, In
  <2>1. CASE In(reg, g) = {}
    BY <2>1, FS_EmptySet, InvitesAssumption
  <2>2. CASE In(reg, g) # {}
    <3>1. g \in Live(reg)
      BY <2>2, GroupsAssumption DEF In, IInv, Sound
    <3>2. PICK l \in In(reg, g) : reg.info[g].leader = Ent(l)
      BY <3>1 DEF IInv, Sound, Led
    <3>3. l \in Player /\ reg.member[l] = g /\ Exists(l)
      BY <3>2, <3>1, GroupsAssumption DEF In, IInv, Sound, InGame, Exists, Live
    <3>4. Size(reg, l) = Cardinality(In(reg, g))
      BY <3>1, <3>2, <3>3 DEF Size, LedBy, IInv, Sound
    <3>5. Size(reg, l) + PendingCount(l) <= MaxGroupSize
      BY <3>3 DEF IInv, RoomLeft
    <3>6. Size(reg, l) \in Nat /\ PendingCount(l) \in Nat /\ MaxGroupSize \in Nat
      BY <3>3, SizeType, PendingType, InvitesAssumption DEF IInv
    <3> QED
      BY <3>4, <3>5, <3>6
  <2> QED
    BY <2>1, <2>2
<1> QED
  BY <1>1, StableInvariant, PTL


-----------------------------------------------------------------------------
(* Groups implement Parties *)

\* The party a group of a registry is, and all parties.
AsParty(r, g) == [leader |-> r.info[g].leader[1], members |-> In(r, g)]
AsParties(r) == {AsParty(r, g) : g \in Live(r)}

LEMMA PartyFields ==
  ASSUME NEW r, NEW g
  PROVE  /\ AsParty(r, g).leader = r.info[g].leader[1]
         /\ AsParty(r, g).members = In(r, g)
BY DEF AsParty

\* In a sound registry the leader of a party is a member, its group is the
\* one they have, and it counts more than one.
LEMMA PartyOfGroup ==
  ASSUME GroupsTypeOK, NEW r, Sound(r), NEW g \in Live(r)
  PROVE  \E l \in Player : /\ AsParty(r, g).leader = l /\ r.info[g].leader = Ent(l)
                           /\ r.member[l] = g /\ l \in In(r, g) /\ LedBy(r, l, l)
<1>1. PICK l \in In(r, g) : r.info[g].leader = Ent(l)
  BY DEF Sound, Led
<1>2. l \in Player /\ r.member[l] = g
  BY DEF In
<1> QED
  BY <1>1, <1>2, PartyFields DEF Ent, LedBy

\* No other group has a member of g.
LEMMA GroupOfMember ==
  ASSUME NEW r, NEW g, NEW h, NEW p \in In(r, g), p \in In(r, h)
  PROVE  g = h
BY DEF In

\* Somebody in no group is in no party and leads none.
LEMMA NoPartyWithout ==
  ASSUME GroupsTypeOK, NEW r, Sound(r), NEW p \in Player, r.member[p] = NoGroup
  PROVE  /\ \A x \in AsParties(r) : p \notin x.members /\ x.leader # p
         /\ party!Without(AsParties(r), p) = AsParties(r)
<1>1. ASSUME NEW g \in Live(r)
      PROVE  p \notin AsParty(r, g).members /\ AsParty(r, g).leader # p
  <2>1. g # NoGroup
    BY GroupsAssumption DEF Live
  <2>2. p \notin In(r, g)
    BY <2>1 DEF In
  <2> QED
    BY <2>2, PartyOfGroup, PartyFields
<1>2. \A x \in AsParties(r) : p \notin x.members /\ x.leader # p
  BY <1>1 DEF AsParties
<1> QED
  BY <1>2 DEF party!Without

\* Only the party of one's own group has to do with one's departure.
LEMMA OwnParty ==
  ASSUME GroupsTypeOK, NEW r, Sound(r), NEW p \in Player, r.member[p] # NoGroup
  PROVE  LET g == r.member[p]
         IN  /\ g \in Live(r) /\ AsParty(r, g) \in AsParties(r)
             /\ \A h \in Live(r) : p \in AsParty(r, h).members <=> h = g
             /\ {x \in AsParties(r) : p \notin x.members} = {AsParty(r, h) : h \in Live(r) \ {g}}
             /\ {x \in AsParties(r) : p \in x.members} = {AsParty(r, g)}
             /\ LedBy(r, p, p) <=> AsParty(r, g).leader = p
<1> DEFINE g == r.member[p]
<1>1. g \in Live(r)
  BY DEF Sound
<1>2. \A h : p \in AsParty(r, h).members <=> h = g
  BY PartyFields DEF In
<1>3. LedBy(r, p, p) <=> AsParty(r, g).leader = p
  <2>1. PICK l \in Player : AsParty(r, g).leader = l /\ r.info[g].leader = Ent(l)
    BY <1>1, PartyOfGroup
  <2> QED
    BY <1>1, <2>1, OneEntityEach DEF LedBy
<1> QED
  BY <1>1, <1>2, <1>3 DEF AsParties

LEMMA RemovedParty ==
  ASSUME Pet = {}, GroupsTypeOK, NEW r, Sound(r), NEW p \in Player, NEW s, Removed(r, p, s)
  PROVE  AsParties(s) = party!Without(AsParties(r), p)
<1> DEFINE g == r.member[p]
           P == AsParties(r)
<1>b. Body = Player
  BY NoPets
<1>w. party!Without(P, p) =
        {x \in P : p \notin x.members} \cup
        {[x EXCEPT !.members = @ \ {p}] :
           x \in {y \in P : p \in y.members /\ y.leader # p /\ Cardinality(y.members) > 2}}
  BY DEF party!Without, party!Cardinality, Cardinality
<1>1. CASE g = NoGroup /\ s = r
  BY <1>1, NoPartyWithout
<1>2. CASE g # NoGroup /\ (LedBy(r, p, p) \/ Cardinality(In(r, g)) = 2) /\ s = Dissolved(r, g)
  <2>1. g \in Live(r) /\ g \in GroupId
    BY <1>2, OwnParty DEF Live
  <2>r. /\ r.member \in [Body -> GroupId \cup {NoGroup}]
        /\ r.info \in [GroupId -> GroupInfo \cup {NoInfo}]
    BY DEF Sound, Registry
  <2>m. /\ s.member = [b \in Body |-> IF r.member[b] = g THEN NoGroup ELSE r.member[b]]
        /\ s.info = [r.info EXCEPT ![g] = NoInfo]
    BY <1>2 DEF Dissolved
  <2>2. Live(s) = Live(r) \ {g}
    BY <2>1, <2>r, <2>m DEF Live, Vacant
  <2>3. \A h \in Live(s) : AsParty(s, h) = AsParty(r, h)
    <3> SUFFICES ASSUME NEW h \in Live(s) PROVE AsParty(s, h) = AsParty(r, h)
      OBVIOUS
    <3>1. h # g /\ h \in GroupId /\ h # NoGroup
      BY <2>2, GroupsAssumption DEF Live
    <3> QED
      BY ZenonT(60), <3>1, <2>m, <2>r, <1>b DEF AsParty, In
  <2>4. AsParties(s) = {AsParty(r, h) : h \in Live(r) \ {g}}
    BY <2>2, <2>3 DEF AsParties
  <2>5. {y \in P : p \in y.members /\ y.leader # p /\ Cardinality(y.members) > 2} = {}
    <3>1. \A y \in P : p \in y.members => y = AsParty(r, g)
      BY <1>2, OwnParty
    <3>2. AsParty(r, g).leader = p \/ Cardinality(AsParty(r, g).members) = 2
      BY <1>2, OwnParty, PartyFields
    <3> QED
      BY <3>1, <3>2
  <2>6. {x \in P : p \notin x.members} = {AsParty(r, h) : h \in Live(r) \ {g}}
    BY <1>2, OwnParty
  <2>7. {[x EXCEPT !.members = @ \ {p}] :
           x \in {y \in P : p \in y.members /\ y.leader # p /\ Cardinality(y.members) > 2}} = {}
    BY <2>5
  <2>8. AsParties(s) = {x \in P : p \notin x.members}
    BY <2>4, <2>6
  <2> QED
    BY <2>7, <2>8, <1>w
<1>3. CASE /\ g # NoGroup /\ ~LedBy(r, p, p) /\ Cardinality(In(r, g)) > 2
           /\ s = Smaller(r, p)
  <2>1. g \in Live(r) /\ g \in GroupId
    BY <1>3, OwnParty DEF Live
  <2>r. /\ r.member \in [Body -> GroupId \cup {NoGroup}]
        /\ r.info \in [GroupId -> GroupInfo \cup {NoInfo}]
        /\ r.info[g] \in GroupInfo
    BY <2>1 DEF Sound, Registry, Live, Vacant
  <2>m. /\ s.member = [r.member EXCEPT ![p] = NoGroup]
        /\ s.info = [r.info EXCEPT ![g].num_members = @ - 1]
    BY <1>3 DEF Smaller
  <2>i. /\ s.info[g] = [leader |-> r.info[g].leader,
                        num_members |-> r.info[g].num_members - 1]
        /\ \A h \in GroupId \ {g} : s.info[h] = r.info[h]
    BY <2>1, <2>r, <2>m DEF GroupInfo
  <2>n. s.info[g] # NoInfo
    <3>1. r.info[g].num_members \in Nat \ {0, 1}
      BY <2>1, PositiveCount
    <3>2. s.info[g] \in GroupInfo
      BY <2>i, <2>r, <3>1 DEF GroupInfo
    <3> QED
      BY <3>2, NoInfoAssumption
  <2>2. Live(s) = Live(r)
    BY <2>i, <2>n, <2>1 DEF Live, Vacant
  <2>3. \A h \in Live(r) \ {g} : AsParty(s, h) = AsParty(r, h)
    <3> SUFFICES ASSUME NEW h \in Live(r) \ {g} PROVE AsParty(s, h) = AsParty(r, h)
      OBVIOUS
    <3>1. h # g /\ h \in GroupId /\ h # NoGroup
      BY GroupsAssumption DEF Live
    <3> QED
      BY ZenonT(60), <3>1, <2>i, <2>m, <2>r, <1>b DEF AsParty, In
  <2>4. AsParty(s, g) = [AsParty(r, g) EXCEPT !.members = @ \ {p}]
    <3>1. In(s, g) = In(r, g) \ {p}
      BY <2>m, <2>r, <2>1, <1>b, GroupsAssumption DEF In
    <3>2. s.info[g].leader = r.info[g].leader
      BY <2>i
    <3> QED
      BY <3>1, <3>2 DEF AsParty
  <2>5. AsParties(s) = {AsParty(r, h) : h \in Live(r) \ {g}}
                       \cup {[AsParty(r, g) EXCEPT !.members = @ \ {p}]}
    BY <2>1, <2>2, <2>3, <2>4 DEF AsParties
  <2>6. {y \in P : p \in y.members /\ y.leader # p /\ Cardinality(y.members) > 2}
          = {AsParty(r, g)}
    <3>1. \A y \in P : p \in y.members <=> y = AsParty(r, g)
      BY <1>3, OwnParty
    <3>2. AsParty(r, g).leader # p /\ Cardinality(AsParty(r, g).members) > 2
      BY <1>3, OwnParty, PartyFields
    <3>3. AsParty(r, g) \in P
      BY <1>3, OwnParty
    <3> QED
      BY <3>1, <3>2, <3>3
  <2>7. {[x EXCEPT !.members = @ \ {p}] :
           x \in {y \in P : p \in y.members /\ y.leader # p /\ Cardinality(y.members) > 2}}
          = {[AsParty(r, g) EXCEPT !.members = @ \ {p}]}
    BY <2>6
  <2>8. {x \in P : p \notin x.members} = {AsParty(r, h) : h \in Live(r) \ {g}}
    BY <1>3, OwnParty
  <2> QED
    BY <2>5, <2>7, <2>8, <1>w
<1> QED
  BY <1>1, <1>2, <1>3 DEF Removed

\* A player in no party joins the one p leads.
LEMMA BiggerParty ==
  ASSUME Pet = {}, GroupsTypeOK, NEW r, Sound(r), NEW p \in Player, NEW q \in Player,
         r.member[q] = NoGroup, LedBy(r, p, p)
  PROVE  AsParties(Bigger(r, r.member[p], q)) = party!With(AsParties(r), p, q)
<1> DEFINE g == r.member[p]
           s == Bigger(r, g, q)
           P == AsParties(r)
<1>b. Body = Player
  BY NoPets
<1>r. /\ g \in GroupId /\ g \in Live(r) /\ g # NoGroup
      /\ r.member \in [Body -> GroupId \cup {NoGroup}]
      /\ r.info \in [GroupId -> GroupInfo \cup {NoInfo}]
      /\ r.info[g] \in GroupInfo
  BY GroupsAssumption DEF Sound, Live, Vacant, Registry, LedBy
<1>i. /\ s.info[g] = [leader |-> r.info[g].leader, num_members |-> r.info[g].num_members + 1]
      /\ \A h \in GroupId \ {g} : s.info[h] = r.info[h]
      /\ \A x \in Player : s.member[x] = IF x = q THEN g ELSE r.member[x]
  BY <1>b, <1>r DEF Bigger, GroupInfo
<1>n. s.info[g] # NoInfo
  <2>1. r.info[g].num_members \in Nat \ {0, 1}
    BY <1>r, PositiveCount
  <2>2. s.info[g] \in GroupInfo
    BY <1>i, <1>r, <2>1 DEF GroupInfo
  <2> QED
    BY <2>2, NoInfoAssumption
<1>1. Live(s) = Live(r)
  BY <1>i, <1>n, <1>r DEF Live, Vacant
<1>2. \A h \in Live(r) \ {g} : AsParty(s, h) = AsParty(r, h)
  <2> SUFFICES ASSUME NEW h \in Live(r) \ {g} PROVE AsParty(s, h) = AsParty(r, h)
    OBVIOUS
  <2>1. h # g /\ h \in GroupId /\ h # NoGroup
    BY GroupsAssumption DEF Live
  <2> QED
    BY ZenonT(60), <2>1, <1>i DEF AsParty, In
<1>3. AsParty(s, g) = [AsParty(r, g) EXCEPT !.members = @ \cup {q}]
  <2>1. In(s, g) = In(r, g) \cup {q}
    BY <1>i DEF In
  <2>2. s.info[g].leader = r.info[g].leader
    BY <1>i
  <2> QED
    BY <2>1, <2>2 DEF AsParty
<1>4. \A h \in Live(r) : AsParty(r, h).leader = p <=> h = g
  <2> SUFFICES ASSUME NEW h \in Live(r) PROVE AsParty(r, h).leader = p <=> h = g
    OBVIOUS
  <2>1. PICK l \in Player : AsParty(r, h).leader = l /\ r.member[l] = h
    BY PartyOfGroup
  <2>2. AsParty(r, g).leader = p
    BY <1>r, OwnParty
  <2> QED
    BY <2>1, <2>2
<1>5. {x \in P : x.leader = p} = {AsParty(r, g)}
  BY <1>4, <1>r DEF AsParties
<1>6. P \ {AsParty(r, g)} = {AsParty(r, h) : h \in Live(r) \ {g}}
  BY <1>4, <1>r DEF AsParties
<1>7. AsParties(s) = (P \ {AsParty(r, g)}) \cup {[AsParty(r, g) EXCEPT !.members = @ \cup {q}]}
  BY SMTT(60), <1>1, <1>2, <1>3, <1>6, <1>r DEF AsParties
<1>8. party!With(P, p, q) =
        (P \ {AsParty(r, g)}) \cup {[x EXCEPT !.members = @ \cup {q}] : x \in {AsParty(r, g)}}
  BY <1>5 DEF party!With
<1> QED
  BY <1>7, <1>8

\* Two players in no party form one.
LEMMA FoundedParty ==
  ASSUME Pet = {}, GroupsTypeOK, NEW r, Sound(r), NEW p \in Player, NEW q \in Player,
         r.member[p] = NoGroup, r.member[q] = NoGroup, NEW g \in Vacant(r)
  PROVE  AsParties(Founded(r, g, p, q)) = AsParties(r) \cup {[leader |-> p, members |-> {p, q}]}
<1> DEFINE s == Founded(r, g, p, q)
<1>b. Body = Player
  BY NoPets
<1>r. /\ g \in GroupId /\ g \notin Live(r) /\ g # NoGroup
      /\ r.member \in [Body -> GroupId \cup {NoGroup}]
      /\ r.info \in [GroupId -> GroupInfo \cup {NoInfo}]
  BY GroupsAssumption DEF Sound, Live, Vacant, Registry
<1>i. /\ s.info[g] = [leader |-> Ent(p), num_members |-> 2]
      /\ \A h \in GroupId \ {g} : s.info[h] = r.info[h]
      /\ \A x \in Player : s.member[x] = IF x \in {p, q} THEN g ELSE r.member[x]
  BY <1>b, <1>r DEF Founded
<1>n. s.info[g] # NoInfo
  <2>1. s.info[g] \in GroupInfo
    BY <1>i, OneEntityEach DEF GroupInfo
  <2> QED
    BY <2>1, NoInfoAssumption
<1>1. Live(s) = Live(r) \cup {g}
  BY <1>i, <1>n, <1>r DEF Live, Vacant
<1>2. \A h \in Live(r) : AsParty(s, h) = AsParty(r, h)
  <2> SUFFICES ASSUME NEW h \in Live(r) PROVE AsParty(s, h) = AsParty(r, h)
    OBVIOUS
  <2>1. h # g /\ h \in GroupId /\ h # NoGroup
    BY <1>r, GroupsAssumption DEF Live
  <2>2. In(s, h) = In(r, h)
    BY <2>1, <1>i DEF In
  <2>3. s.info[h].leader = r.info[h].leader
    BY <2>1, <1>i
  <2> QED
    BY <2>2, <2>3 DEF AsParty
<1>3. AsParty(s, g) = [leader |-> p, members |-> {p, q}]
  <2>1. \A x \in Player : r.member[x] # g
    BY <1>r DEF Sound
  <2>2. In(s, g) = {p, q}
    BY <2>1, <1>i DEF In
  <2>3. s.info[g].leader[1] = p
    BY <1>i DEF Ent
  <2> QED
    BY <2>2, <2>3 DEF AsParty
<1> QED
  BY <1>1, <1>2, <1>3 DEF AsParties

\* An addition shows as one step: the newcomer has left, the leader has left a
\* party somebody else leads, and the two are together.
LEMMA AddedParty ==
  ASSUME Pet = {}, GroupsTypeOK, NEW r, Sound(r), NEW p \in Player, NEW q \in Player,
         NEW s, Added(r, p, q, s)
  PROVE  AsParties(s) = party!With(party!Without(AsParties(r), q), p, q)
<1>1. PICK u : /\ Removed(r, q, u)
              /\ \/ LedBy(u, p, p) /\ s = Bigger(u, u.member[p], q)
                 \/ /\ ~LedBy(u, p, p)
                    /\ \E v : Removed(u, p, v) /\ \E g \in Vacant(v) : s = Founded(v, g, p, q)
  BY DEF Added
<1>2. Sound(u) /\ u.member[q] = NoGroup /\ AsParties(u) = party!Without(AsParties(r), q)
  BY <1>1, RemovedSound, RemovedParty
<1>3. CASE LedBy(u, p, p)
  BY <1>1, <1>2, <1>3, BiggerParty
<1>4. CASE ~LedBy(u, p, p)
  <2>0. PICK v : Removed(u, p, v) /\ \E g \in Vacant(v) : s = Founded(v, g, p, q)
    BY <1>1, <1>4
  <2>1. PICK g \in Vacant(v) : s = Founded(v, g, p, q)
    BY <2>0
  <2>2. Sound(v) /\ v.member[p] = NoGroup /\ AsParties(v) = party!Without(AsParties(u), p)
    BY <1>2, <2>0, RemovedSound, RemovedParty
  <2>3. v.member[q] = NoGroup
    BY <1>2, <2>0, RemovedSound DEF Shrunk
  <2>4. AsParties(s) = party!Without(AsParties(u), p) \cup {[leader |-> p, members |-> {p, q}]}
    BY <2>1, <2>2, <2>3, FoundedParty
  <2>5. {x \in AsParties(u) : x.leader = p} = {}
    <3>1. ASSUME NEW h \in Live(u), AsParty(u, h).leader = p
          PROVE  FALSE
      BY <1>2, <1>4, <3>1, PartyOfGroup
    <3> QED
      BY <3>1 DEF AsParties
  <2>6. party!With(AsParties(u), p, q) =
          party!Without(AsParties(u), p) \cup {[leader |-> p, members |-> {p, q}]}
    BY <2>5 DEF party!With
  <2> QED
    BY <1>2, <2>4, <2>6
<1> QED
  BY <1>3, <1>4

-----------------------------------------------------------------------------
(* The mapping *)

Together == {x \in {PartyOf(g) : g \in Live(reg)} : Cardinality(x.members) > 1}
Asked    == {x \in Player \X Player :
               Remembers(x[1], x[2]) /\ invite[x[2]].kind = "Group"}

LEMMA TogetherIs ==
  ASSUME Sound(reg), Sound(reg')
  PROVE  Together = AsParties(reg) /\ Together' = AsParties(reg')
<1>1. ASSUME NEW r, Sound(r)
      PROVE  {x \in AsParties(r) : Cardinality(x.members) > 1} = AsParties(r)
  <2>1. \A g \in Live(r) : Cardinality(AsParty(r, g).members) > 1
    BY <1>1, PartyFields DEF Sound
  <2> QED
    BY <2>1 DEF AsParties
<1>2. Together = {x \in AsParties(reg) : Cardinality(x.members) > 1}
  BY DEF Together, PartyOf, PlayersOf, AsParties, AsParty, In
<1>3. Together' = {x \in AsParties(reg') : Cardinality(x.members) > 1}
  BY DEF Together, PartyOf, PlayersOf, AsParties, AsParty, In, Live, Vacant
<1> QED
  BY <1>1, <1>2, <1>3

LEMMA AskedIs ==
  ASSUME NEW p \in Player, NEW q \in Player
  PROVE  <<p, q>> \in Asked <=> Remembers(p, q) /\ invite[q].kind = "Group"
BY DEF Asked

\* Invites that go leave no trace.
LEMMA AskedShrinks ==
  ASSUME life' = life,
         \A x \in Player : /\ Exists(x)' => Exists(x)
                           /\ pending'[x] \subseteq pending[x]
                           /\ invite'[x] \in {invite[x], NoInvite}
  PROVE  Asked' \subseteq Asked
<1>1. ASSUME NEW p \in Player, NEW q \in Player, Remembers(p, q)',
             invite'[q].kind = "Group"
      PROVE  Remembers(p, q) /\ invite[q].kind = "Group"
  BY <1>1 DEF Remembers, Ent
<1> QED
  BY <1>1 DEF Asked

\* Steps of Parties.
LEMMA LapseMaps ==
  ASSUME Sound(reg), Sound(reg'), AsParties(reg') = AsParties(reg), Asked' \subseteq Asked
  PROVE  party!Next
<1>1. Together' = Together
  BY TogetherIs
<1> QED
  BY <1>1 DEF party!Next, party!Lapse, Together, Asked

LEMMA PartMaps ==
  ASSUME Sound(reg), Sound(reg'), NEW p \in Player,
         AsParties(reg') = party!Without(AsParties(reg), p), Asked' \subseteq Asked
  PROVE  party!Next
<1>1. Together' = party!Without(Together, p)
  BY TogetherIs
<1>2. party!Part(p)
  BY <1>1 DEF party!Part, Together, Asked
<1> QED
  BY <1>2 DEF party!Next

LEMMA AskMaps ==
  ASSUME Sound(reg), Sound(reg'), reg' = reg, NEW p \in Player, NEW q \in Player, p # q,
         Asked' = Asked \cup {<<p, q>>}
  PROVE  party!Next
<1>1. Together' = Together
  BY TogetherIs
<1>2. party!Ask(p, q)
  BY <1>1 DEF party!Ask, Together, Asked
<1> QED
  BY <1>2 DEF party!Next

LEMMA JoinMaps ==
  ASSUME Sound(reg), Sound(reg'), NEW p \in Player, NEW q \in Player, p # q,
         AsParties(reg') = party!With(party!Without(AsParties(reg), q), p, q),
         <<p, q>> \in Asked, Asked' = Asked \ {<<p, q>>}
  PROVE  party!Next
<1>1. Together' = party!With(party!Without(Together, q), p, q)
  BY TogetherIs
<1>2. party!Join(p, q)
  BY <1>1 DEF party!Join, Together, Asked
<1> QED
  BY <1>2 DEF party!Next

-----------------------------------------------------------------------------
(* The steps of Invites *)

LEMMA InviteMaps ==
  ASSUME IInv, NEW p \in Player, NEW q \in Player, NEW kind \in Kind,
         HandleInvite(p, q, kind)
  PROVE  party!Next
<1> USE DEF IInv
<1>1. /\ invite' = [invite EXCEPT ![q] = [inviter |-> Ent(p), kind |-> kind]]
      /\ pending' = [pending EXCEPT ![p] = @ \cup {[invitee |-> Ent(q), kind |-> kind]}]
      /\ pending \in [Player -> SUBSET Entry] /\ invite \in [Player -> Invite \cup {NoInvite}]
      /\ p # q /\ Exists(p) /\ invite[q] = NoInvite
      /\ reg' = reg /\ life' = life /\ place' = place
  BY DEF HandleInvite, groupVars, TypeOK, InvitesTypeOK
<1>e. /\ \A x \in Player : Ent(x)' = Ent(x) /\ (Exists(x)' <=> Exists(x))
      /\ \A x, y \in Player : Ent(x) = Ent(y) => x = y
  BY <1>1, OneEntityEach DEF Ent, Exists, TypeOK
<1>2. Sound(reg) /\ Sound(reg')
  BY <1>1
<1>3. ASSUME NEW x \in Player, NEW y \in Player, y # q
      PROVE  (<<x, y>> \in Asked)' <=> <<x, y>> \in Asked
  <2>1. invite'[y] = invite[y]
    BY <1>1, <1>3
  <2>2. (\E e \in pending'[x] : e.invitee = Ent(y)) <=> \E e \in pending[x] : e.invitee = Ent(y)
    BY <1>1, <1>3, <1>e
  <2> QED
    BY <2>1, <2>2, <1>e DEF Asked, Remembers
<1>4. ASSUME NEW x \in Player
      PROVE  /\ <<x, q>> \notin Asked
             /\ (<<x, q>> \in Asked)' <=> x = p /\ kind = "Group"
  <2>1. <<x, q>> \notin Asked
    BY <1>1 DEF Asked, Remembers
  <2> DEFINE i == [inviter |-> Ent(p), kind |-> kind]
             e == [invitee |-> Ent(q), kind |-> kind]
  <2>2. invite'[q] = i /\ i.kind = kind /\ i.inviter = Ent(p)
    BY <1>1
  <2>3. i # NoInvite
    <3>1. i \in Invite
      BY OneEntityEach DEF Invite, TypeOK
    <3> QED
      BY <3>1, InvitesAssumption
  <2>4. e \in pending'[p] /\ e.invitee = Ent(q)
    BY <1>1
  <2> HIDE DEF i, e
  <2>5. Remembers(x, q)' <=> Exists(x) /\ x = p
    BY <1>1, <1>e, <2>2, <2>3, <2>4 DEF Remembers
  <2> QED
    BY <1>1, <2>1, <2>2, <2>5 DEF Asked
<1>5. CASE kind = "Group"
  <2>1. Asked' = Asked \cup {<<p, q>>}
    <3>1. \A x, y \in Player : (<<x, y>> \in Asked)' <=> <<x, y>> \in Asked \cup {<<p, q>>}
      BY <1>3, <1>4, <1>5
    <3>2. Asked \subseteq Player \X Player /\ Asked' \subseteq Player \X Player
      BY DEF Asked
    <3> QED
      BY <3>1, <3>2
  <2> QED
    BY <1>1, <1>2, <2>1, AskMaps
<1>6. CASE kind # "Group"
  <2>1. Asked' \subseteq Asked
    <3>1. \A x, y \in Player : (<<x, y>> \in Asked)' => <<x, y>> \in Asked
      BY <1>3, <1>4, <1>6
    <3>2. Asked' \subseteq Player \X Player
      BY DEF Asked
    <3> QED
      BY <3>1, <3>2
  <2> QED
    BY <1>1, <1>2, <2>1, LapseMaps
<1> QED
  BY <1>5, <1>6

\* An accepted invite is taken back from the one player who sent it.
LEMMA AcceptMaps ==
  ASSUME Pet = {}, IInv, NEW q \in Player, HandleInviteAccept(q)
  PROVE  party!Next
<1> USE DEF IInv
<1>1. /\ invite' = [invite EXCEPT ![q] = NoInvite] /\ invite \in [Player -> Invite \cup {NoInvite}]
      /\ pending' = ForgetAll({q}) /\ InGame(q) /\ life' = life /\ place' = place
  BY DEF HandleInviteAccept, Answer, TypeOK, InvitesTypeOK
<1>e. /\ \A x \in Player : Ent(x)' = Ent(x) /\ (Exists(x)' <=> Exists(x))
      /\ \A x, y \in Player : Ent(x) = Ent(y) => x = y
  BY <1>1, OneEntityEach DEF Ent, Exists, TypeOK
<1>f. \A x \in Player : pending'[x] = {e \in pending[x] : ~(Remembers(x, q) /\ e.invitee = Ent(q))}
  BY <1>1 DEF ForgetAll
<1>2. Asked' \subseteq Asked
  BY <1>1, <1>e, <1>f, AskedShrinks
<1>3. CASE reg' = reg
  BY <1>2, <1>3, LapseMaps
<1>4. CASE reg' # reg
  <2>1. PICK p \in Player : Remembers(p, q) /\ reg' \in AddGroupMember(reg, p, q)
    BY <1>4 DEF HandleInviteAccept
  <2>2. /\ invite[q].kind = "Group" /\ invite[q].inviter = Ent(p)
        /\ InGame(p) /\ p # q
    BY <1>4, <2>1 DEF HandleInviteAccept, Remembers, NobodyOnScreen, PendingSound
  <2>3. Added(reg, p, q, reg')
    BY <2>1, AdditionCases DEF TypeOK
  <2>4. /\ Sound(reg')
        /\ AsParties(reg') = party!With(party!Without(AsParties(reg), q), p, q)
    BY <1>1, <2>2, <2>3, AddedSound, AddedParty DEF TypeOK
  <2>5. <<p, q>> \in Asked
    BY <2>1, <2>2, AskedIs
  <2>6. Asked' = Asked \ {<<p, q>>}
    <3>1. ASSUME NEW x \in Player
          PROVE  (<<x, q>> \notin Asked)' /\ (<<x, q>> \in Asked => x = p)
      BY <1>1, <1>e, <2>2 DEF Asked, Remembers
    <3>2. ASSUME NEW x \in Player, NEW y \in Player, y # q
          PROVE  (<<x, y>> \in Asked)' <=> <<x, y>> \in Asked
      <4>1. invite'[y] = invite[y]
        BY <1>1, <3>2
      <4>2. (\E e \in pending'[x] : e.invitee = Ent(y)) <=> \E e \in pending[x] : e.invitee = Ent(y)
        BY <1>e, <1>f, <3>2
      <4> QED
        BY <4>1, <4>2, <1>e DEF Asked, Remembers
    <3>3. Asked \subseteq Player \X Player /\ Asked' \subseteq Player \X Player
      BY DEF Asked
    <3>4. \A x, y \in Player : (<<x, y>> \in Asked)' <=> <<x, y>> \in Asked \ {<<p, q>>}
      BY <3>1, <3>2
    <3> QED
      BY <3>3, <3>4
  <2> QED
    BY <2>2, <2>4, <2>5, <2>6, JoinMaps
<1> QED
  BY <1>3, <1>4

LEMMA StepMaps == Pet = {} /\ IInv /\ [StableNext]_vars => [party!Next]_<<Together, Asked>>
<1> SUFFICES ASSUME Pet = {}, IInv, [StableNext]_vars
             PROVE  party!Next \/ UNCHANGED <<Together, Asked>>
  OBVIOUS
<1> USE DEF IInv
<1>t. /\ invite \in [Player -> Invite \cup {NoInvite}] /\ pending \in [Player -> SUBSET Entry]
      /\ place \in [Player -> {"game", "screen", "gone"}] /\ GroupsTypeOK
  BY DEF TypeOK, InvitesTypeOK, GroupsTypeOK
<1>1. CASE UNCHANGED vars
  BY <1>1 DEF vars, groupVars, inviteVars, Together, Asked, PartyOf, PlayersOf, Live, Vacant,
              Remembers, Exists, Ent
<1>2. ASSUME NEW p \in Player, reg' \in RemoveFromGroup(reg, p, FALSE), UNCHANGED inviteVars,
             life' = life, place' = place
      PROVE  party!Next
  <2>1. Removed(reg, p, reg')
    BY <1>2, <1>t, DepartureCases
  <2>2. Sound(reg') /\ AsParties(reg') = party!Without(AsParties(reg), p)
    BY <1>t, <2>1, RemovedSound, RemovedParty
  <2>3. Asked' \subseteq Asked
    BY <1>2, AskedShrinks DEF inviteVars, Exists
  <2> QED
    BY <2>2, <2>3, PartMaps
<1>3. CASE GroupStep
  <2>1. ASSUME NEW p \in Player, Leave(p), UNCHANGED inviteVars
        PROVE  party!Next
    BY <1>2, <2>1 DEF Leave
  <2>2. ASSUME NEW p \in Player, NEW q \in Player, Kick(p, q), UNCHANGED inviteVars
        PROVE  party!Next
    BY <1>2, <2>2 DEF Kick
  <2> QED
    BY <1>3, <2>1, <2>2 DEF GroupStep
<1>4. CASE InviteStep
  <2>1. ASSUME NEW q \in Player, HandleInviteDecline(q)
        PROVE  party!Next
    <3>1. /\ \A x \in Player : pending'[x] \subseteq pending[x] /\ invite'[x] \in {invite[x], NoInvite}
          /\ reg' = reg /\ life' = life /\ place' = place
      BY <2>1, <1>t DEF HandleInviteDecline, Answer, ForgetAll, groupVars
    <3>2. Asked' \subseteq Asked
      BY <3>1, AskedShrinks DEF Exists
    <3> QED
      BY <3>1, <3>2, LapseMaps
  <2> QED
    BY <1>4, <2>1, AcceptMaps, InviteMaps DEF InviteStep
<1>5. CASE TimeoutStep
  <2>1. PICK Q \in SUBSET Player : InviteTimeout(Q)
    BY <1>5 DEF TimeoutStep
  <2>2. /\ \A x \in Player : pending'[x] \subseteq pending[x] /\ invite'[x] \in {invite[x], NoInvite}
        /\ reg' = reg /\ life' = life /\ place' = place
    BY <2>1 DEF InviteTimeout, ForgetAll, groupVars
  <2>3. Asked' \subseteq Asked
    BY <2>2, AskedShrinks DEF Exists
  <2> QED
    BY <2>2, <2>3, LapseMaps
<1>6. CASE DisconnectStep
  <2>1. PICK p \in Player : ClientDisconnect(p)
    BY <1>6 DEF DisconnectStep
  <2> DEFINE deleted == TRUE
  <2>2. PICK r \in RemoveFromGroup(reg, p, deleted) : reg' = Put(r, {p}, NoGroup)
    BY <2>1 DEF ClientDisconnect, DeleteEntity
  <2>3. deleted \in BOOLEAN
    OBVIOUS
  <2> HIDE DEF deleted
  <2>4. Removed(reg, p, reg')
    BY <1>t, <2>2, <2>3, RemovalCases
  <2>5. Sound(reg') /\ AsParties(reg') = party!Without(AsParties(reg), p)
    BY <1>t, <2>4, RemovedSound, RemovedParty
  <2>6. /\ life' = life
        /\ \A x \in Player : /\ Exists(x)' => Exists(x)
                             /\ pending'[x] \subseteq pending[x]
                             /\ invite'[x] \in {invite[x], NoInvite}
    BY <1>t, <2>1 DEF ClientDisconnect, DeleteEntity, DropInvites, Exists
  <2>7. Asked' \subseteq Asked
    BY <2>6, AskedShrinks
  <2> QED
    BY <2>5, <2>7, PartMaps
<1> QED
  BY <1>1, <1>3, <1>4, <1>5, <1>6 DEF StableNext

\* Who is together with whom under which leader changes only as a party may: by
\* a departure, or by an invite of the player who will lead that is accepted. The
\* registries in between, which an addition goes through, never show.
THEOREM PartiesImplemented ==
  ASSUME Pet = {}
  PROVE  StableSpec => ImplementsParties
<1>1. Init => party!Init
  <2> SUFFICES ASSUME Init PROVE Together = {} /\ Asked = {}
    BY DEF party!Init, Together, Asked
  <2>1. Live(reg) = {}
    BY DEF Init, GroupsInit, Live, Vacant
  <2>2. \A x, y \in Player : ~Remembers(x, y)
    BY DEF Init, Remembers
  <2> QED
    BY <2>1, <2>2 DEF Together, Asked
<1>2. IInv /\ [StableNext]_vars => [party!Next]_<<Together, Asked>>
  BY StepMaps
<1> QED
  BY <1>1, <1>2, StableInvariant, PTL
  DEF StableSpec, ImplementsParties, party!Spec, Together, Asked

-----------------------------------------------------------------------------
(***************************************************************************)
(* Proofs about pets, for any number of players and pets, while either     *)
(* nobody has a pet or nobody has left for the character screen: a pet is  *)
(* where its owner is (PetsFollow).                                        *)
(*                                                                         *)
(* The invariant says of a registry that it is in order: groups are led by *)
(* members, pets are where their owners are, and owners who are in the     *)
(* game have a group. A departure, with pets into a group of its own, a    *)
(* disbanding and a dissolution keep it so (RemovalOrderly); an addition   *)
(* does if its leader brings no pets out of a group (AdditionOrderly).     *)
(* That needs to know where a removal leaves the others (RemovalTrail).    *)
(***************************************************************************)

\* Every group somebody is in is led by a member of it who is in the game, and a
\* pet is in the group of its owner, who has one while in the game. X are bodies
\* about to be deleted and the animals that lose their owner by it.
Orderly(r, X) ==
  /\ r \in Registry
  /\ \A b \in Body : r.member[b] # NoGroup =>
       \E l \in Player : LedBy(r, b, l) /\ r.member[l] = r.member[b]
  /\ \A p \in Player : r.member[p] # NoGroup => InGame(p)
  /\ \A a \in Pet \ X :
       /\ owner[a] \in Player => r.member[a] = r.member[owner[a]]
       /\ owner[a] \notin Player => r.member[a] = NoGroup
       /\ owner[a] \in Player \ X /\ InGame(owner[a]) => r.member[a] # NoGroup

\* What the helpers do to the members and to the infos.
LEMMA PutIs ==
  ASSUME NEW r \in Registry, NEW S, NEW g
  PROVE  /\ \A b \in Body : Put(r, S, g).member[b] = IF b \in S THEN g ELSE r.member[b]
         /\ Put(r, S, g).info = r.info
         /\ Live(Put(r, S, g)) = Live(r)
BY DEF Put, Registry, Live, Vacant

LEMMA CreateGroupIs ==
  ASSUME GroupsTypeOK, NEW r \in Registry, NEW g \in GroupId, NEW p \in Player, NEW n \in Nat
  PROVE  /\ CreateGroup(r, g, p, n).member = r.member
         /\ CreateGroup(r, g, p, n).info[g].leader = Ent(p)
         /\ \A h \in GroupId \ {g} : CreateGroup(r, g, p, n).info[h] = r.info[h]
         /\ Live(CreateGroup(r, g, p, n)) = Live(r) \cup {g}
<1>1. [leader |-> Ent(p), num_members |-> n] \in GroupInfo
  BY OneEntityEach DEF GroupInfo
<1> QED BY <1>1, NoInfoAssumption DEF CreateGroup, Registry, Live, Vacant

LEMMA RemoveGroupIs ==
  ASSUME NEW r \in Registry, NEW g \in GroupId
  PROVE  /\ RemoveGroup(r, g).member = r.member
         /\ \A h \in GroupId \ {g} : RemoveGroup(r, g).info[h] = r.info[h]
         /\ Live(RemoveGroup(r, g)) = Live(r) \ {g}
         /\ Vacant(RemoveGroup(r, g)) = Vacant(r) \cup {g}
BY DEF RemoveGroup, Registry, Live, Vacant

\* A group has one leader.
LEMMA OneLeader ==
  ASSUME GroupsTypeOK, NEW r, NEW b, NEW c, NEW p \in Player, NEW q \in Player,
         LedBy(r, b, p), LedBy(r, c, q), r.member[b] = r.member[c]
  PROVE  p = q
BY OneEntityEach DEF LedBy

\* Pets have no pets.
LEMMA PetsOwnNone ==
  ASSUME GroupsTypeOK
  PROVE  /\ \A a \in Pet : PetsOf(a) = {} /\ a \notin Player
         /\ \A b : PetsOf(b) \subseteq Pet
BY GroupsAssumption DEF PetsOf, Body, GroupsTypeOK

\* A group that b has departed from shrinks, or is dissolved if its leader is
\* left alone.
LEMMA ShrinkOrderly ==
  ASSUME GroupsTypeOK, NEW X, NEW b, NEW r, Orderly(r, X), NEW g \in Live(r),
         NEW l \in Player, r.member[l] = g, r.info[g].leader = Ent(l)
  PROVE  LET s == Shrink(r, g, b)
         IN  /\ Orderly(s, X)
             /\ \A c \in Body : s.member[c] \in {NoGroup, r.member[c]}
             /\ \A h \in Live(s) : h \in Live(r) /\ s.info[h].leader = r.info[h].leader
<1> DEFINE n       == r.info[g].num_members
           m       == IF b \in Player /\ n > 0 THEN n - 1 ELSE n
           left    == [r EXCEPT !.info[g].num_members = m]
           current == {q \in Player : Ent(q) = r.info[g].leader}
           s       == Shrink(r, g, b)
<1>r. /\ r \in Registry /\ g \in GroupId /\ g \notin Vacant(r) /\ g # NoGroup
      /\ r.info[g] \in GroupInfo
  BY KeyTypes, GroupsAssumption DEF Orderly, Live
<1>m. m \in Nat
  BY <1>r DEF GroupInfo
<1> HIDE DEF m
<1>1. left \in Registry
  BY <1>r, <1>m DEF Registry, GroupInfo
<1>2. /\ left.member = r.member
      /\ left.info[g].leader = r.info[g].leader
      /\ \A h \in GroupId \ {g} : left.info[h] = r.info[h]
      /\ left.info[g] \in GroupInfo
  BY <1>r, <1>m DEF Registry, GroupInfo
<1>3. Live(left) = Live(r)
  BY <1>2, <1>r, NoInfoAssumption DEF Live, Vacant
<1>4. current = {l}
  BY OneEntityEach
<1>5. s = IF Cardinality(Members(left, g)) = 1
          THEN Put(RemoveGroup(left, g), current, NoGroup) ELSE left
  BY <1>r DEF Shrink, m
<1> HIDE DEF left, current, s
<1>6. CASE Cardinality(Members(left, g)) # 1
  <2>1. s = left
    BY <1>5, <1>6
  <2>2. \A c \in Body, q \in Player : LedBy(s, c, q) <=> LedBy(r, c, q)
    BY <2>1, <1>2, <1>3, <1>r, KeyTypes DEF LedBy
  <2>3. Orderly(s, X)
    BY <2>1, <2>2, <1>1, <1>2 DEF Orderly
  <2>4. \A h \in Live(s) : h \in Live(r) /\ s.info[h].leader = r.info[h].leader
    BY <2>1, <1>2, <1>3, <1>r, KeyTypes
  <2> QED BY <2>1, <2>3, <2>4, <1>2 DEF s
<1>7. CASE Cardinality(Members(left, g)) = 1
  <2> DEFINE cl == RemoveGroup(left, g)
  <2>s. s = Put(cl, {l}, NoGroup)
    BY <1>4, <1>5, <1>7
  <2>c. /\ cl \in Registry /\ cl.member = r.member
        /\ \A h \in GroupId \ {g} : cl.info[h] = r.info[h]
        /\ Live(cl) = Live(r) \ {g}
    BY <1>1, <1>2, <1>3, <1>r, RemoveGroupType, RemoveGroupIs
  <2> HIDE DEF cl
  <2>1. /\ s \in Registry /\ Live(s) = Live(r) \ {g}
        /\ \A c \in Body : s.member[c] = IF c = l THEN NoGroup ELSE r.member[c]
        /\ \A h \in Live(s) : s.info[h] = r.info[h]
    BY <2>s, <2>c, PutIs, PutType, KeyTypes
  <2>2. l \in Body /\ InGame(l) /\ l \in Members(left, g)
    BY <1>2, <1>r DEF Orderly, Members, HasAlignment, Body
  <2>3. ASSUME NEW c \in Body, r.member[c] = g
        PROVE  c = l
    <3>1. c \in Members(left, g)
      BY <2>3, <1>2, <1>r DEF Orderly, Members, HasAlignment, Body
    <3>2. IsFiniteSet(Members(left, g))
      <4>1. IsFiniteSet(Body)
        BY GroupsAssumption, FS_Union DEF Body
      <4> QED BY <4>1, FS_Subset DEF Members
    <3>3. PICK x : Members(left, g) = {x}
      BY ONLY <3>2, <1>7, FS_Singleton
    <3> QED BY <3>1, <3>3, <2>2
  <2>4. ASSUME NEW c \in Body, s.member[c] # NoGroup
        PROVE  \E k \in Player : LedBy(s, c, k) /\ s.member[k] = s.member[c]
    <3>1. c # l /\ s.member[c] = r.member[c] /\ r.member[c] # g
      BY <2>1, <2>3, <2>4
    <3>2. PICK k \in Player : LedBy(r, c, k) /\ r.member[k] = r.member[c]
      BY <3>1, <2>4 DEF Orderly
    <3>3. k # l /\ k \in Body
      BY <3>1, <3>2 DEF Body
    <3>4. LedBy(s, c, k)
      BY <3>1, <3>2, <2>1 DEF LedBy
    <3> QED BY <3>1, <3>2, <3>3, <3>4, <2>1
  <2>5. ASSUME NEW a \in Pet \ X
        PROVE  /\ owner[a] \in Player => s.member[a] = s.member[owner[a]]
               /\ owner[a] \notin Player => s.member[a] = NoGroup
               /\ owner[a] \in Player \ X /\ InGame(owner[a]) => s.member[a] # NoGroup
    <3>1. a \in Body /\ a # l /\ s.member[a] = r.member[a]
      BY <2>1, PetsOwnNone DEF Body
    <3>2. r.member[a] # g
      BY <3>1, <2>3
    <3>3. CASE owner[a] \in Player
      <4>1. r.member[a] = r.member[owner[a]] /\ owner[a] # l
        BY <3>2, <3>3 DEF Orderly
      <4>2. owner[a] \in Body
        BY <3>3 DEF Body
      <4> QED BY <4>1, <4>2, <3>1, <3>3, <2>1 DEF Orderly
    <3>4. CASE owner[a] \notin Player
      BY <3>1, <3>4 DEF Orderly
    <3> QED BY <3>3, <3>4
  <2>6. \A p \in Player : s.member[p] # NoGroup => InGame(p)
    BY <2>1 DEF Orderly, Body
  <2>7. Orderly(s, X)
    BY <2>1, <2>4, <2>5, <2>6 DEF Orderly
  <2> QED BY <2>1, <2>7 DEF s
<1> QED BY <1>6, <1>7

\* A member that does not lead departs.
LEMMA DepartOrderly ==
  ASSUME GroupsTypeOK, NEW r, Orderly(r, {}), NEW b \in Body, NEW deleted \in BOOLEAN,
         b \in Player \/ deleted, r.member[b] # NoGroup, ~ (b \in Player /\ LedBy(r, b, b)),
         NEW d \in Depart(r, b, deleted)
  PROVE  /\ Orderly(d, IF deleted THEN {b} ELSE {})
         /\ Live(r) \subseteq Live(d)
         /\ \A h \in Live(r) : d.info[h].leader = r.info[h].leader
         /\ \A c \in Body \ ({b} \cup PetsOf(b)) : d.member[c] = r.member[c]
         /\ d.member[b] \notin Live(r)
         /\ d.member[b] = NoGroup \/ (b \in Player /\ LedBy(d, b, b))
         /\ PetsOf(b) = {} \/ deleted => d.member[b] = NoGroup
<1> DEFINE X   == IF deleted THEN {b} ELSE {}
           all == {b} \cup PetsOf(b)
<1>r. /\ r \in Registry /\ Live(r) \subseteq GroupId /\ Vacant(r) \subseteq GroupId
      /\ NoGroup \notin GroupId /\ \A c \in Body : r.member[c] \in GroupId \cup {NoGroup}
  BY KeyTypes, GroupsAssumption DEF Orderly
<1>a. \A l \in Player : l \in all <=> l = b
  BY PetsOwnNone
<1>l. \A c \in Body, l \in Player : LedBy(r, c, l) /\ r.member[l] = r.member[c] => l \notin all
  BY <1>a DEF LedBy
<1>p. \A a \in Pet : a \in all <=> a = b \/ owner[a] = b
  BY DEF PetsOf
<1>1. CASE PetsOf(b) # {} /\ ~deleted
  <2>1. PICK h \in Vacant(r) : d = Put(CreateGroup(r, h, b, 1), all, h)
    BY <1>1 DEF Depart
  <2>b. b \in Player /\ X = {}
    BY <1>1, PetsOwnNone
  <2>2. /\ d \in Registry /\ Live(d) = Live(r) \cup {h} /\ h \in GroupId /\ h \notin Live(r)
        /\ \A c \in Body : d.member[c] = IF c \in all THEN h ELSE r.member[c]
        /\ d.info[h].leader = Ent(b)
        /\ \A k \in GroupId \ {h} : d.info[k] = r.info[k]
    <3>1. h \in GroupId /\ h \notin Live(r)
      BY <1>r DEF Live
    <3>2. CreateGroup(r, h, b, 1) \in Registry
      BY <1>r, <2>b, <3>1, CreateGroupType
    <3>3. /\ CreateGroup(r, h, b, 1).member = r.member
          /\ CreateGroup(r, h, b, 1).info[h].leader = Ent(b)
          /\ \A k \in GroupId \ {h} : CreateGroup(r, h, b, 1).info[k] = r.info[k]
          /\ Live(CreateGroup(r, h, b, 1)) = Live(r) \cup {h}
      BY <1>r, <2>b, <3>1, CreateGroupIs
    <3> QED BY <2>1, <3>1, <3>2, <3>3, PutIs, PutType
  <2>3. ASSUME NEW c \in Body, d.member[c] # NoGroup
        PROVE  \E l \in Player : LedBy(d, c, l) /\ d.member[l] = d.member[c]
    <3>1. CASE c \in all
      <4>1. LedBy(d, c, b) /\ d.member[b] = d.member[c]
        BY <2>2, <3>1 DEF LedBy
      <4> QED BY <4>1, <2>b
    <3>2. CASE c \notin all
      <4>1. PICK l \in Player : LedBy(r, c, l) /\ r.member[l] = r.member[c]
        BY <2>2, <2>3, <3>2 DEF Orderly
      <4>2. l \notin all /\ l \in Body
        BY <4>1, <1>l DEF Body
      <4>3. d.member[c] = r.member[c] /\ d.member[l] = r.member[l] /\ r.member[c] \in Live(r)
        BY <2>2, <3>2, <4>1, <4>2 DEF LedBy
      <4>4. LedBy(d, c, l)
        BY <4>1, <4>3, <2>2, <1>r DEF LedBy
      <4> QED BY <4>1, <4>3, <4>4
    <3> QED BY <3>1, <3>2
  <2>4. ASSUME NEW a \in Pet
        PROVE  /\ owner[a] \in Player => d.member[a] = d.member[owner[a]]
               /\ owner[a] \notin Player => d.member[a] = NoGroup
               /\ owner[a] \in Player /\ InGame(owner[a]) => d.member[a] # NoGroup
    <3>1. a \in Body /\ (owner[a] \in Player => owner[a] \in Body)
      BY DEF Body
    <3>2. a # b /\ (a \in all <=> owner[a] = b)
      BY <2>b, <1>p, PetsOwnNone
    <3>3. owner[a] \in Player => (owner[a] \in all <=> owner[a] = b)
      BY <1>a
    <3> QED BY <3>1, <3>2, <3>3, <2>2, <2>b, <1>r DEF Orderly
  <2>5. ASSUME NEW p \in Player, d.member[p] # NoGroup PROVE InGame(p)
    <3>1. p = b \/ r.member[p] # NoGroup
      BY <2>5, <2>2, <1>a DEF Body
    <3> QED BY <3>1 DEF Orderly
  <2>6. Orderly(d, X)
    BY <2>b, <2>2, <2>3, <2>4, <2>5 DEF Orderly
  <2>7. LedBy(d, b, b)
    BY <2>2 DEF LedBy
  <2> QED BY <1>1, <1>r, <2>b, <2>2, <2>6, <2>7
<1>2. CASE PetsOf(b) = {} \/ deleted
  <2>1. d = Put(r, all, NoGroup)
    BY <1>2 DEF Depart
  <2>2. /\ d \in Registry /\ Live(d) = Live(r) /\ d.info = r.info
        /\ \A c \in Body : d.member[c] = IF c \in all THEN NoGroup ELSE r.member[c]
    BY <1>r, <2>1, PutIs, PutType
  <2>3. ASSUME NEW c \in Body, d.member[c] # NoGroup
        PROVE  \E l \in Player : LedBy(d, c, l) /\ d.member[l] = d.member[c]
    <3>1. c \notin all /\ d.member[c] = r.member[c]
      BY <2>2, <2>3
    <3>2. PICK l \in Player : LedBy(r, c, l) /\ r.member[l] = r.member[c]
      BY <2>3, <3>1 DEF Orderly
    <3>3. d.member[l] = r.member[l]
      BY <2>2, <3>2, <1>l DEF Body
    <3>4. LedBy(d, c, l)
      BY <2>2, <3>1, <3>2 DEF LedBy
    <3> QED BY <3>1, <3>2, <3>3, <3>4
  <2>4. ASSUME NEW a \in Pet \ X
        PROVE  /\ owner[a] \in Player => d.member[a] = d.member[owner[a]]
               /\ owner[a] \notin Player => d.member[a] = NoGroup
               /\ owner[a] \in Player \ X /\ InGame(owner[a]) => d.member[a] # NoGroup
    <3>1. a \in Body /\ (owner[a] \in Player => owner[a] \in Body)
      BY DEF Body
    <3>2. a \in all <=> owner[a] = b
      BY <1>p, <1>2, PetsOwnNone
    <3>3. owner[a] \in Player => (owner[a] \in all <=> owner[a] = b)
      BY <1>a
    <3>4. owner[a] = b => deleted /\ X = {b}
      BY <1>2 DEF PetsOf
    <3> QED BY <3>1, <3>2, <3>3, <3>4, <2>2 DEF Orderly
  <2>5. ASSUME NEW p \in Player, d.member[p] # NoGroup PROVE InGame(p)
    BY <2>5, <2>2 DEF Orderly, Body
  <2>6. Orderly(d, X)
    BY <2>2, <2>3, <2>4, <2>5 DEF Orderly
  <2>7. d.member[b] = NoGroup
    BY <2>2
  <2> QED BY <1>r, <2>2, <2>6, <2>7
<1> QED BY <1>1, <1>2

\* q is in a group with its pets only, if in any.
Alone(r, q) ==
  \A c \in Body : r.member[q] # NoGroup /\ r.member[c] = r.member[q] => c = q \/ c \in PetsOf(q)

\* The group of c is the same in u as in r, and has the same leader.
Stays(r, u, c) ==
  /\ u.member[c] = r.member[c]
  /\ u.member[c] # NoGroup => u.info[u.member[c]].leader = r.info[r.member[c]].leader

\* The leader goes. Put back to no group if it is deleted, the registry is in
\* order, and whoever was in the group has one alone with its pets, or none.
LEMMA DisbandOrderly ==
  ASSUME GroupsTypeOK, NEW r, Orderly(r, {}), NEW p \in Player, NEW deleted \in BOOLEAN,
         LedBy(r, p, p), NEW d \in Disband(r, p, deleted), NEW u, NEW X,
         deleted => u = Put(d, {p}, NoGroup) /\ X = {p}, ~ deleted => u = d /\ X = {}
  PROVE  /\ Orderly(u, X)
         /\ \A q \in Player : r.member[q] = r.member[p] =>
              Alone(u, q) /\ (u.member[q] # NoGroup => LedBy(u, q, q))
         /\ \A c \in Body : r.member[c] # r.member[p] => Stays(r, u, c)
<1> DEFINE g      == r.member[p]
           rest   == {b \in Body : r.member[b] = g} \ (IF deleted THEN {p} ELSE {})
           heads  == {q \in Player \cap rest : PetsOf(q) \cap rest # {}}
           closed == RemoveGroup(r, g)
           Head(b) == IF b \in Pet THEN owner[b] ELSE b
           Split(new) ==
             [member |-> [b \in Body |-> CASE b \notin rest -> r.member[b]
                                           [] b \in rest /\ Head(b) \in heads -> new[Head(b)]
                                           [] OTHER -> NoGroup],
              info   |-> [h \in GroupId |->
                            IF \E q \in heads : new[q] = h
                            THEN [leader |-> Ent(CHOOSE q \in heads : new[q] = h),
                                  num_members |-> 1]
                            ELSE closed.info[h]]]
<1>r. /\ r \in Registry /\ g \in Live(r) /\ g \in GroupId /\ Live(r) \subseteq GroupId
      /\ NoGroup \notin GroupId /\ \A c \in Body : r.member[c] \in GroupId \cup {NoGroup}
      /\ p \in Body
  BY KeyTypes, GroupsAssumption DEF Orderly, LedBy, Body
<1>1. PICK new \in Injection(heads, Vacant(closed)) : d = Split(new)
  BY DEF Disband
<1>c. /\ closed \in Registry
      /\ \A h \in GroupId \ {g} : closed.info[h] = r.info[h]
      /\ Live(closed) = Live(r) \ {g}
      /\ Vacant(closed) \subseteq GroupId
  BY <1>r, RemoveGroupIs, RemoveGroupType, KeyTypes
<1>n. /\ \A q \in heads : new[q] \in GroupId /\ new[q] \notin Live(r) \ {g}
      /\ \A q, k \in heads : new[q] = new[k] => q = k
  BY <1>c DEF Injection, IsInjective, Live
<1>d. d \in Registry
  BY SMTT(60), <1>r, DisbandType
<1>m. \A c \in Body : d.member[c] = IF c \in rest THEN IF Head(c) \in heads THEN new[Head(c)] ELSE NoGroup
                                    ELSE r.member[c]
  BY <1>1
<1>i. /\ \A q \in heads : d.info[new[q]].leader = Ent(q) /\ new[q] \in Live(d)
      /\ \A h \in Live(r) \ {g} : d.info[h] = r.info[h] /\ h \in Live(d)
  <2>1. ASSUME NEW q \in heads
        PROVE  d.info[new[q]] = [leader |-> Ent(q), num_members |-> 1]
    <3>1. (CHOOSE k \in heads : new[k] = new[q]) = q
      BY <1>n
    <3>2. new[q] \in GroupId
      BY <1>n
    <3>3. d.info[new[q]] = [leader |-> Ent(CHOOSE k \in heads : new[k] = new[q]), num_members |-> 1]
      BY <1>1, <3>2
    <3> QED BY <3>1, <3>3
  <2>2. ASSUME NEW q \in heads
        PROVE  new[q] \in Live(d)
    <3>1. Ent(q) \in Entity
      BY OneEntityEach
    <3>2. [leader |-> Ent(q), num_members |-> 1] \in GroupInfo
      BY <3>1 DEF GroupInfo
    <3> HIDE DEF heads, rest, closed, Split
    <3>3. d.info[new[q]] # NoInfo /\ new[q] \in GroupId
      BY <3>2, <2>1, <1>n, NoInfoAssumption
    <3> QED BY <3>3 DEF Live, Vacant
  <2>3. ASSUME NEW h \in Live(r) \ {g}
        PROVE  d.info[h] = r.info[h] /\ h \in Live(d)
    <3>1. h \in GroupId /\ ~ \E q \in heads : new[q] = h
      BY SMTT(60), <1>n, <1>r
    <3>2. d.info[h] = closed.info[h]
      BY <1>1, <3>1
    <3> HIDE DEF heads, rest, closed, Split
    <3>3. d.info[h] = r.info[h] /\ r.info[h] # NoInfo
      BY <3>1, <3>2, <1>c DEF Live, Vacant
    <3> QED BY <3>1, <3>3 DEF Live, Vacant
  <2> HIDE DEF heads, rest, closed, Split
  <2>4. ASSUME NEW q \in heads PROVE d.info[new[q]].leader = Ent(q)
    <3>1. d.info[new[q]] = [leader |-> Ent(q), num_members |-> 1]
      BY <2>1
    <3> QED BY ONLY <3>1
  <2> QED BY <2>2, <2>3, <2>4
<1>h. \A c \in Body : Head(c) = IF c \in Pet THEN owner[c] ELSE c
  OBVIOUS
<1>e. /\ \A c \in Body : c \in rest <=> r.member[c] = g /\ ~ (deleted /\ c = p)
      /\ \A q : q \in heads <=> q \in Player /\ q \in rest /\ \E a \in PetsOf(q) : a \in rest
  OBVIOUS
<1> HIDE DEF Split, heads, rest, closed, Head
<1>u. /\ u \in Registry /\ u.info = d.info /\ Live(u) = Live(d)
      /\ \A c \in Body : u.member[c] = IF deleted /\ c = p THEN NoGroup ELSE d.member[c]
  BY <1>d, PutIs, PutType
<1>2. \A c \in Body : r.member[c] # g => u.member[c] = r.member[c]
  BY <1>u, <1>m, <1>e
<1>3. \A c \in Body : r.member[c] = g =>
        u.member[c] = IF ~ (deleted /\ c = p) /\ Head(c) \in heads THEN new[Head(c)] ELSE NoGroup
  BY <1>u, <1>m, <1>e
<1>4. \A q \in Player : q \in Body /\ q \notin Pet /\ Head(q) = q
  BY <1>h, PetsOwnNone DEF Body
<1>5. ASSUME NEW q \in Player, r.member[q] = g, u.member[q] # NoGroup
      PROVE  q \in heads /\ u.member[q] = new[q] /\ LedBy(u, q, q)
  <2>1. q \in heads /\ u.member[q] = new[q]
    BY <1>3, <1>4, <1>5
  <2> QED BY <2>1, <1>i, <1>u DEF LedBy
<1>6. ASSUME NEW c \in Body, r.member[c] = g, u.member[c] # NoGroup
      PROVE  /\ Head(c) \in heads /\ ~ (deleted /\ c = p) /\ u.member[c] = new[Head(c)]
             /\ Head(c) \in Player /\ r.member[Head(c)] = g /\ u.member[Head(c)] = new[Head(c)]
  <2>1. Head(c) \in heads /\ u.member[c] = new[Head(c)] /\ ~ (deleted /\ c = p)
    BY <1>3, <1>6
  <2>2. Head(c) \in Player /\ Head(c) \in rest
    BY <2>1, <1>e
  <2>3. r.member[Head(c)] = g /\ ~ (deleted /\ Head(c) = p) /\ Head(Head(c)) = Head(c)
    BY <2>2, <1>e, <1>4
  <2>4. u.member[Head(c)] = new[Head(c)]
    BY <2>1, <2>2, <2>3, <1>3, <1>4
  <2> QED BY <2>1, <2>2, <2>3, <2>4
<1>7. ASSUME NEW c \in Body, r.member[c] # g, u.member[c] # NoGroup
      PROVE  /\ r.member[c] \in Live(r) \ {g}
             /\ u.member[c] = r.member[c] /\ u.info[u.member[c]].leader = r.info[r.member[c]].leader
             /\ \E l \in Player : LedBy(u, c, l) /\ u.member[l] = u.member[c]
  <2>1. PICK l \in Player : LedBy(r, c, l) /\ r.member[l] = r.member[c]
    BY <1>2, <1>7 DEF Orderly
  <2>2. u.member[c] = r.member[c] /\ u.member[l] = r.member[l] /\ r.member[c] \in Live(r) \ {g}
    BY <1>2, <1>4, <1>7, <2>1 DEF LedBy
  <2>3. u.info[r.member[c]] = r.info[r.member[c]] /\ r.member[c] \in Live(u)
    BY <1>i, <1>u, <2>2
  <2>4. LedBy(u, c, l)
    BY <2>1, <2>2, <2>3 DEF LedBy
  <2> QED BY <2>1, <2>2, <2>3, <2>4
<1>8. ASSUME NEW c \in Body, u.member[c] # NoGroup
      PROVE  \E l \in Player : LedBy(u, c, l) /\ u.member[l] = u.member[c]
  <2>1. CASE r.member[c] = g
    <3>1. Head(c) \in Player /\ u.member[Head(c)] = u.member[c] /\ LedBy(u, Head(c), Head(c))
      BY <1>5, <1>6, <1>8, <2>1
    <3> QED BY <3>1 DEF LedBy
  <2> QED BY <2>1, <1>7, <1>8
<1>9. ASSUME NEW a \in Pet \ X
      PROVE  /\ owner[a] \in Player => u.member[a] = u.member[owner[a]]
             /\ owner[a] \notin Player => u.member[a] = NoGroup
             /\ owner[a] \in Player \ X /\ InGame(owner[a]) => u.member[a] # NoGroup
  <2>0. a \in Body /\ a # p /\ Head(a) = owner[a] /\ (owner[a] \in Player => owner[a] \in Body)
    BY <1>h, PetsOwnNone DEF Body
  <2>1. CASE owner[a] \notin Player
    <3>1. r.member[a] = NoGroup
      BY <2>1 DEF Orderly
    <3> QED BY <3>1, <2>0, <2>1, <1>2, <1>r
  <2>2. CASE owner[a] \in Player
    <3> DEFINE q == owner[a]
    <3>1. r.member[a] = r.member[q] /\ (InGame(q) => r.member[a] # NoGroup)
      BY <2>2 DEF Orderly
    <3>2. CASE r.member[a] # g
      BY <2>0, <2>2, <3>1, <3>2, <1>2
    <3>3. CASE r.member[a] = g /\ ~ (deleted /\ q = p)
      <4>1. u.member[a] = u.member[q]
        BY <2>0, <2>2, <3>1, <3>3, <1>3, <1>4
      <4>2. a \in PetsOf(q) /\ a \in rest /\ q \in rest
        BY <2>0, <2>2, <3>1, <3>3, <1>e DEF PetsOf
      <4>3. Head(a) \in heads
        BY <4>2, <2>0, <2>2, <1>e
      <4>4. u.member[a] \in GroupId
        BY <4>3, <3>3, <2>0, <1>3, <1>n
      <4> QED BY <4>1, <4>4, <2>2, <1>r
    <3>4. CASE r.member[a] = g /\ deleted /\ q = p
      <4>1. q \notin heads
        BY <3>4, <1>e, <1>r
      <4>2. u.member[a] = NoGroup /\ u.member[q] = NoGroup
        BY <2>0, <2>2, <3>1, <3>4, <4>1, <1>3
      <4> QED BY <4>2, <3>4, <2>2
    <3> QED BY <3>2, <3>3, <3>4
  <2> QED BY <2>1, <2>2
<1>10. ASSUME NEW q \in Player, u.member[q] # NoGroup
       PROVE  InGame(q)
  <2>1. r.member[q] # NoGroup
    BY <1>10, <1>2, <1>4, <1>r
  <2> QED BY <2>1 DEF Orderly
<1>11. Orderly(u, X)
  BY <1>u, <1>8, <1>9, <1>10 DEF Orderly
<1>12. ASSUME NEW q \in Player, r.member[q] = g, NEW c \in Body,
              u.member[q] # NoGroup, u.member[c] = u.member[q]
       PROVE  c = q \/ c \in PetsOf(q)
  <2>1. q \in heads /\ u.member[q] = new[q]
    BY <1>5, <1>12
  <2>2. r.member[c] = g
    BY <2>1, <1>7, <1>12, <1>n
  <2>3. Head(c) \in heads /\ new[Head(c)] = new[q]
    BY <2>1, <2>2, <1>6, <1>12
  <2>4. Head(c) = q
    BY <2>1, <2>3, <1>n
  <2> QED BY <2>4, <1>h DEF PetsOf
<1>13. \A q \in Player : r.member[q] = g => Alone(u, q) /\ (u.member[q] # NoGroup => LedBy(u, q, q))
  BY <1>5, <1>12 DEF Alone
<1>14. \A c \in Body : r.member[c] # g => Stays(r, u, c)
  BY <1>2, <1>7 DEF Stays
<1> QED BY <1>11, <1>13, <1>14

LEMMA PutNone ==
  ASSUME NEW r \in Registry, NEW b \in Body, r.member[b] = NoGroup
  PROVE  Put(r, {b}, NoGroup) = r
<1>1. [c \in Body |-> IF c \in {b} THEN NoGroup ELSE r.member[c]] = r.member
  BY DEF Registry
<1>2. Put(r, {b}, NoGroup) = [r EXCEPT !.member = r.member]
  BY <1>1 DEF Put, Registry
<1> QED BY <1>2 DEF Registry

LEMMA ExemptOrderly ==
  ASSUME NEW r, NEW X, Orderly(r, {})
  PROVE  Orderly(r, X)
BY DEF Orderly

\* Whatever leaves a group, and the entity it leaves by, the groups stay in order.
LEMMA RemovalOrderly ==
  ASSUME GroupsTypeOK, NEW r, Orderly(r, {}), NEW b \in Body, NEW deleted \in BOOLEAN,
         b \in Player \/ deleted, NEW s \in RemoveFromGroup(r, b, deleted)
  PROVE  IF deleted THEN Orderly(Put(s, {b}, NoGroup), {b}) ELSE Orderly(s, {})
<1>r. r \in Registry
  BY DEF Orderly
<1>1. CASE r.member[b] = NoGroup
  <2>1. s = r
    BY <1>1 DEF RemoveFromGroup
  <2>2. Put(s, {b}, NoGroup) = r
    BY <1>1, <1>r, <2>1, PutNone
  <2> QED BY <2>1, <2>2, ExemptOrderly
<1>2. CASE r.member[b] # NoGroup /\ b \in Player /\ LedBy(r, b, b)
  <2>1. s \in Disband(r, b, deleted)
    BY <1>2 DEF RemoveFromGroup
  <2> QED BY <1>2, <2>1, DisbandOrderly
<1>3. CASE r.member[b] # NoGroup /\ ~ (b \in Player /\ LedBy(r, b, b))
  <2> DEFINE X == IF deleted THEN {b} ELSE {}
             g == r.member[b]
  <2>1. PICK d \in Depart(r, b, deleted) : s = Shrink(d, g, b)
    BY <1>3 DEF RemoveFromGroup
  <2>2. /\ Orderly(d, X) /\ Live(r) \subseteq Live(d)
        /\ \A h \in Live(r) : d.info[h].leader = r.info[h].leader
        /\ \A c \in Body \ ({b} \cup PetsOf(b)) : d.member[c] = r.member[c]
        /\ deleted => d.member[b] = NoGroup
    BY <1>3, DepartOrderly
  <2>3. PICK l \in Player : LedBy(r, b, l) /\ r.member[l] = g
    BY <1>3 DEF Orderly
  <2>4. l \in Body \ ({b} \cup PetsOf(b))
    BY <1>3, <2>3, PetsOwnNone DEF Body
  <2>5. g \in Live(d) /\ d.member[l] = g /\ d.info[g].leader = Ent(l)
    BY <2>2, <2>3, <2>4 DEF LedBy
  <2>6. Orderly(s, X) /\ s.member[b] \in {NoGroup, d.member[b]}
    BY <2>1, <2>2, <2>5, ShrinkOrderly
  <2>7. deleted => Put(s, {b}, NoGroup) = s
    BY <2>2, <2>6, PutNone DEF Orderly
  <2> QED BY <2>6, <2>7
<1> QED BY <1>1, <1>2, <1>3

\* After a removal, q is in no group or in one with its pets alone. Everyone else
\* has lost the group, or got one of their own, or is in the same one as before.
LEMMA RemovalTrail ==
  ASSUME GroupsTypeOK, NEW r, Orderly(r, {}), NEW q \in Player,
         NEW s \in RemoveFromGroup(r, q, FALSE)
  PROVE  /\ Alone(s, q)
         /\ \A p \in Player \ {q} :
              s.member[p] = NoGroup \/ LedBy(s, p, p) \/ Stays(r, s, p)
         /\ PetsOf(q) = {} /\ ~ LedBy(r, q, q) =>
              s.member[q] = NoGroup /\ \A c \in Body : s.member[c] \in {NoGroup, r.member[c]}
<1>b. q \in Body /\ \A p \in Player : p \in Body /\ p \notin Pet
  BY PetsOwnNone DEF Body
<1>1. CASE r.member[q] = NoGroup
  <2>1. s = r
    BY <1>1 DEF RemoveFromGroup
  <2> QED BY <1>1, <2>1 DEF Alone, Stays
<1>2. CASE r.member[q] # NoGroup /\ LedBy(r, q, q)
  <2>1. s \in Disband(r, q, FALSE)
    BY <1>2 DEF RemoveFromGroup
  <2>2. /\ \A p \in Player : r.member[p] = r.member[q] =>
             Alone(s, p) /\ (s.member[p] # NoGroup => LedBy(s, p, p))
        /\ \A c \in Body : r.member[c] # r.member[q] => Stays(r, s, c)
    BY <1>2, <2>1, DisbandOrderly
  <2> QED BY <1>2, <1>b, <2>2
<1>3. CASE r.member[q] # NoGroup /\ ~ LedBy(r, q, q)
  <2> DEFINE g == r.member[q]
             all == {q} \cup PetsOf(q)
  <2>1. PICK d \in Depart(r, q, FALSE) : s = Shrink(d, g, q)
    BY <1>3 DEF RemoveFromGroup
  <2>2. /\ Orderly(d, {}) /\ Live(r) \subseteq Live(d)
        /\ \A h \in Live(r) : d.info[h].leader = r.info[h].leader
        /\ \A c \in Body \ all : d.member[c] = r.member[c]
        /\ d.member[q] \notin Live(r)
        /\ PetsOf(q) = {} => d.member[q] = NoGroup
    BY <1>b, <1>3, DepartOrderly
  <2>3. PICK l \in Player : LedBy(r, q, l) /\ r.member[l] = g
    BY <1>b, <1>3 DEF Orderly
  <2>4. l \in Body \ all
    BY <1>b, <1>3, <2>3, PetsOwnNone
  <2>5. g \in Live(d) /\ d.member[l] = g /\ d.info[g].leader = Ent(l)
    BY <2>2, <2>3, <2>4 DEF LedBy
  <2>6. /\ Orderly(s, {}) /\ \A c \in Body : s.member[c] \in {NoGroup, d.member[c]}
        /\ \A h \in Live(s) : h \in Live(d) /\ s.info[h].leader = d.info[h].leader
    BY <2>1, <2>2, <2>5, ShrinkOrderly
  <2>7. \A c \in Body : r.member[c] = NoGroup \/ r.member[c] \in Live(r)
    BY DEF Orderly, LedBy
  <2>8. ASSUME NEW c \in Body, s.member[q] # NoGroup, s.member[c] = s.member[q]
        PROVE  c \in all
    <3>1. d.member[c] = d.member[q] /\ d.member[q] # NoGroup
      BY <1>b, <2>6, <2>8
    <3> QED BY <3>1, <2>2, <2>7
  <2>9. ASSUME NEW p \in Player \ {q}, s.member[p] # NoGroup
        PROVE  Stays(r, s, p)
    <3>1. p \in Body \ all
      BY <1>b, PetsOwnNone
    <3>2. s.member[p] = r.member[p]
      BY <3>1, <2>2, <2>6, <2>9
    <3>3. s.member[p] \in Live(s) /\ r.member[p] \in Live(r)
      BY <3>1, <3>2, <2>6, <2>7, <2>9 DEF Orderly, LedBy
    <3> QED BY <3>2, <3>3, <2>2, <2>6 DEF Stays
  <2>10. ASSUME PetsOf(q) = {}
         PROVE  s.member[q] = NoGroup /\ \A c \in Body : s.member[c] \in {NoGroup, r.member[c]}
    BY <1>b, <2>10, <2>2, <2>6
  <2> QED BY <2>8, <2>9, <2>10 DEF Alone
<1> QED BY <1>1, <1>2, <1>3

\* The leader's group, old or founded, is in order, and q stays alone: the leader
\* leaves a group it does not lead without pets.
LEMMA LeadersGroupOrderly ==
  ASSUME GroupsTypeOK, NEW s, Orderly(s, {}), NEW p \in Player, NEW q \in Player, p # q,
         Alone(s, q), InGame(p), LedBy(s, p, p) \/ PetsOf(p) = {},
         NEW t \in LeadersGroup(s, p)
  PROVE  /\ Orderly(t[1], {}) /\ Alone(t[1], q)
         /\ LedBy(t[1], p, p) /\ t[1].member[p] = t[2]
<1>b. p \in Body /\ q \in Body /\ \A a \in Pet : a \in Body /\ a # p
  BY PetsOwnNone DEF Body
<1>r. s \in Registry /\ \A c \in Body : s.member[c] \in GroupId \cup {NoGroup}
  BY KeyTypes DEF Orderly
<1>1. CASE LedBy(s, p, p)
  <2> DEFINE g == s.member[p]
             u == [s EXCEPT !.info[g].num_members = @ + 1]
  <2>1. t = <<u, g>>
    BY <1>1 DEF LeadersGroup
  <2>2. g \in Live(s) /\ g \in GroupId /\ s.info[g] \in GroupInfo
    BY <1>1, <1>r, KeyTypes DEF LedBy
  <2>3. /\ u \in Registry /\ u.member = s.member /\ u.info[g] \in GroupInfo
        /\ u.info[g].leader = s.info[g].leader
        /\ \A h \in GroupId \ {g} : u.info[h] = s.info[h]
    BY <2>2, <1>r DEF Registry, GroupInfo
  <2> HIDE DEF u
  <2>4. Live(u) = Live(s) /\ \A h \in Live(s) : u.info[h].leader = s.info[h].leader
    BY <2>2, <2>3, NoInfoAssumption DEF Live, Vacant
  <2>5. \A c \in Body, l \in Player : LedBy(u, c, l) <=> LedBy(s, c, l)
    BY <2>3, <2>4 DEF LedBy
  <2>6. Orderly(u, {})
    BY <2>3, <2>5 DEF Orderly
  <2>7. Alone(u, q)
    BY <2>3 DEF Alone
  <2> QED BY <1>1, <1>b, <2>1, <2>3, <2>5, <2>6, <2>7
<1>2. CASE ~ LedBy(s, p, p)
  <2>1. PICK m \in RemoveFromGroup(s, p, FALSE) :
          \E g \in Vacant(m) : t = <<Put(CreateGroup(m, g, p, 2), {p}, g), g>>
    BY <1>2 DEF LeadersGroup
  <2>2. PICK g \in Vacant(m) : t = <<Put(CreateGroup(m, g, p, 2), {p}, g), g>>
    BY <2>1
  <2>3. Orderly(m, {})
    BY <1>b, RemovalOrderly
  <2>4. m.member[p] = NoGroup /\ \A c \in Body : m.member[c] \in {NoGroup, s.member[c]}
    BY <1>b, <1>2, RemovalTrail
  <2>5. m \in Registry /\ g \in GroupId /\ g \notin Live(m) /\ g # NoGroup
    BY <2>3, KeyTypes, GroupsAssumption DEF Orderly, Live
  <2> DEFINE n == CreateGroup(m, g, p, 2)
             u == Put(n, {p}, g)
  <2>6. /\ n \in Registry /\ n.member = m.member /\ n.info[g].leader = Ent(p)
        /\ \A h \in GroupId \ {g} : n.info[h] = m.info[h]
        /\ Live(n) = Live(m) \cup {g}
    BY <2>5, CreateGroupType, CreateGroupIs
  <2> HIDE DEF n
  <2>7. /\ u \in Registry /\ u.info = n.info /\ Live(u) = Live(m) \cup {g}
        /\ \A c \in Body : u.member[c] = IF c = p THEN g ELSE m.member[c]
    BY <2>5, <2>6, PutIs, PutType
  <2>8. t[1] = u /\ t[2] = g
    BY <2>2 DEF n
  <2> HIDE DEF u
  <2>9. LedBy(u, p, p) /\ u.member[p] = g
    BY <1>b, <2>6, <2>7 DEF LedBy
  <2>10. ASSUME NEW c \in Body, c # p, u.member[c] # NoGroup
         PROVE  /\ u.member[c] = m.member[c] /\ u.member[c] # g
                /\ \E l \in Player : LedBy(u, c, l) /\ u.member[l] = u.member[c]
    <3>1. u.member[c] = m.member[c]
      BY <2>7, <2>10
    <3>2. PICK l \in Player : LedBy(m, c, l) /\ m.member[l] = m.member[c]
      BY <2>3, <2>10, <3>1 DEF Orderly
    <3>3. l # p /\ l \in Body /\ m.member[c] \in Live(m) /\ m.member[c] # g
      BY <2>4, <2>5, <2>10, <3>1, <3>2 DEF LedBy, Body
    <3>4. u.info[m.member[c]] = m.info[m.member[c]]
      BY <2>5, <2>6, <2>7, <3>3, KeyTypes
    <3>5. LedBy(u, c, l)
      BY <2>7, <3>1, <3>2, <3>3, <3>4 DEF LedBy
    <3> QED BY <2>7, <3>1, <3>2, <3>3, <3>5
  <2>11. ASSUME NEW a \in Pet
         PROVE  /\ owner[a] \in Player => u.member[a] = u.member[owner[a]]
                /\ owner[a] \notin Player => u.member[a] = NoGroup
                /\ owner[a] \in Player /\ InGame(owner[a]) => u.member[a] # NoGroup
    <3>1. owner[a] # p /\ u.member[a] = m.member[a]
      BY <1>b, <1>2, <2>7 DEF PetsOf
    <3>2. owner[a] \in Player => u.member[owner[a]] = m.member[owner[a]]
      BY <3>1, <2>7 DEF Body
    <3> QED BY <3>1, <3>2, <2>3 DEF Orderly
  <2>12. \A c \in Player : u.member[c] # NoGroup => InGame(c)
    BY <2>7, <2>3 DEF Orderly, Body
  <2>13. Orderly(u, {})
    BY <2>7, <2>9, <2>10, <2>11, <2>12 DEF Orderly
  <2>14. ASSUME NEW c \in Body, u.member[q] # NoGroup, u.member[c] = u.member[q]
         PROVE  c = q \/ c \in PetsOf(q)
    <3>1. u.member[q] = m.member[q] /\ u.member[q] # g
      BY <1>b, <2>10, <2>14
    <3>2. c # p
      BY <3>1, <2>9, <2>14
    <3>3. m.member[c] = m.member[q] /\ m.member[q] # NoGroup
      BY <3>1, <3>2, <2>7, <2>14
    <3>4. s.member[c] = s.member[q] /\ s.member[q] # NoGroup
      BY <1>b, <2>4, <3>3
    <3> QED BY <3>4 DEF Alone
  <2> QED BY <2>8, <2>9, <2>13, <2>14 DEF Alone
<1> QED BY <1>1, <1>2

\* The invitee and its pets join.
LEMMA JoinOrderly ==
  ASSUME GroupsTypeOK, NEW r, Orderly(r, {}), NEW p \in Player, NEW q \in Player, p # q,
         Alone(r, q), InGame(q), LedBy(r, p, p)
  PROVE  Orderly(Put(r, {q} \cup PetsOf(q), r.member[p]), {})
<1> DEFINE h   == r.member[p]
           all == {q} \cup PetsOf(q)
           u   == Put(r, all, h)
<1>r. /\ r \in Registry /\ h \in Live(r) /\ h \in GroupId /\ h # NoGroup
      /\ r.info[h].leader = Ent(p)
  BY KeyTypes, GroupsAssumption DEF Orderly, LedBy
<1>a. \A l \in Player : l \in Body /\ (l \in all <=> l = q)
  BY PetsOwnNone DEF Body
<1>1. /\ u \in Registry /\ u.info = r.info /\ Live(u) = Live(r)
      /\ \A c \in Body : u.member[c] = IF c \in all THEN h ELSE r.member[c]
  BY <1>r, PutIs, PutType
<1> HIDE DEF u
<1>2. ASSUME NEW c \in Body, u.member[c] # NoGroup
      PROVE  \E l \in Player : LedBy(u, c, l) /\ u.member[l] = u.member[c]
  <2>1. CASE c \in all
    <3>1. LedBy(u, c, p) /\ u.member[p] = u.member[c]
      BY <2>1, <1>r, <1>a, <1>1 DEF LedBy
    <3> QED BY <3>1
  <2>2. CASE c \notin all
    <3>1. PICK l \in Player : LedBy(r, c, l) /\ r.member[l] = r.member[c]
      BY <1>1, <1>2, <2>2 DEF Orderly
    <3>2. l # q
      BY <1>1, <1>2, <2>2, <3>1 DEF Alone
    <3>3. u.member[c] = r.member[c] /\ u.member[l] = r.member[l]
      BY <1>a, <1>1, <2>2, <3>2
    <3>4. LedBy(u, c, l)
      BY <3>1, <3>3, <1>1 DEF LedBy
    <3> QED BY <3>1, <3>3, <3>4
  <2> QED BY <2>1, <2>2
<1>3. ASSUME NEW a \in Pet
      PROVE  /\ owner[a] \in Player => u.member[a] = u.member[owner[a]]
             /\ owner[a] \notin Player => u.member[a] = NoGroup
             /\ owner[a] \in Player /\ InGame(owner[a]) => u.member[a] # NoGroup
  <2>1. a \in Body /\ (a \in all <=> owner[a] = q)
    BY PetsOwnNone DEF Body, PetsOf
  <2>2. owner[a] \in Player => (owner[a] \in all <=> owner[a] = q)
    BY <1>a
  <2> QED BY <2>1, <2>2, <1>a, <1>r, <1>1 DEF Orderly
<1>4. \A c \in Player : u.member[c] # NoGroup => InGame(c)
  BY <1>a, <1>1 DEF Orderly
<1>5. Orderly(u, {})
  BY <1>1, <1>2, <1>3, <1>4 DEF Orderly
<1> QED BY <1>5 DEF u

\* Adding q for p keeps the groups in order if p has no pets, or leads its group,
\* or is a member of q's.
LEMMA AdditionOrderly ==
  ASSUME GroupsTypeOK, NEW r, Orderly(r, {}), NEW p \in Player, NEW q \in Player, p # q,
         InGame(p), InGame(q), PetsOf(p) = {} \/ LedBy(r, p, p) \/ LedBy(r, p, q),
         NEW u \in AddGroupMember(r, p, q)
  PROVE  Orderly(u, {})
<1> DEFINE free == IF r.member[q] \in Live(r) THEN RemoveFromGroup(r, q, FALSE) ELSE {r}
<1>b. p \in Body /\ q \in Body /\ p \notin Pet /\ PetsOf(q) \subseteq Pet
  BY PetsOwnNone DEF Body
<1>1. PICK s \in free : \E t \in LeadersGroup(s, p) : u = Put(t[1], {q} \cup PetsOf(q), t[2])
  BY DEF AddGroupMember
<1>2. PICK t \in LeadersGroup(s, p) : u = Put(t[1], {q} \cup PetsOf(q), t[2])
  BY <1>1
<1>3. /\ Orderly(s, {}) /\ Alone(s, q)
      /\ s.member[p] = NoGroup \/ LedBy(s, p, p) \/ Stays(r, s, p)
  <2>1. CASE r.member[q] \in Live(r)
    <3>1. s \in RemoveFromGroup(r, q, FALSE)
      BY <2>1
    <3>2. Orderly(s, {})
      BY <3>1, <1>b, RemovalOrderly
    <3> QED BY <3>1, <3>2, RemovalTrail
  <2>2. CASE r.member[q] \notin Live(r)
    <3>1. s = r /\ r.member[q] = NoGroup
      BY <2>2, <1>b DEF Orderly, LedBy
    <3> QED BY <3>1 DEF Alone, Stays
  <2> QED BY <2>1, <2>2
<1> HIDE DEF free
<1>4. ASSUME PetsOf(p) # {}
      PROVE  LedBy(s, p, p)
  <2>1. PICK a \in Pet : owner[a] = p
    BY <1>4 DEF PetsOf
  <2>2. s.member[p] # NoGroup
    BY <2>1, <1>3 DEF Orderly
  <2>3. PICK l \in Player : LedBy(s, p, l) /\ s.member[l] = s.member[p]
    BY <1>b, <1>3, <2>2 DEF Orderly
  <2>4. CASE Stays(r, s, p)
    <3>1. s.member[p] = r.member[p] /\ s.info[s.member[p]].leader = r.info[r.member[p]].leader
      BY <2>2, <2>4 DEF Stays
    <3>2. l # q
      BY <1>b, <1>3, <2>2, <2>3 DEF Alone
    <3>3. ~ LedBy(r, p, q)
      BY <2>3, <3>1, <3>2, OneEntityEach DEF LedBy
    <3>4. LedBy(r, p, p)
      BY <1>4, <3>3
    <3> QED BY <2>3, <3>1, <3>4 DEF LedBy
  <2> QED BY <1>3, <2>2, <2>4
<1>5. /\ Orderly(t[1], {}) /\ Alone(t[1], q) /\ LedBy(t[1], p, p) /\ t[1].member[p] = t[2]
  BY <1>3, <1>4, LeadersGroupOrderly
<1> QED BY <1>2, <1>5, JoinOrderly

Unmoved == \A p \in Player : life[p] = 1

NobodyOwned == \A a \in Pet : owner[a] = Wild

PetInv ==
  /\ \A q \in Player : invite[q] # NoInvite => invite[q].inviter[1] # q
  /\ Unmoved \/ NobodyOwned
  /\ Unmoved => Orderly(reg, {}) /\ \A p \in Player : place[p] # "screen"

\* Whoever adds a player has no pets, or leads its group, or is led by the one added.
Recruits ==
  \A p, q \in Player :
    HandleInviteAccept(q) /\ invite[q].kind = "Group" /\ Remembers(p, q) =>
      PetsOf(p) = {} \/ LedBy(reg, p, p) \/ LedBy(reg, p, q)

LEMMA PetInit == Init => PetInv
<1> SUFFICES ASSUME Init PROVE PetInv
  OBVIOUS
<1> USE DEF Init, GroupsInit
<1>1. reg \in Registry /\ \A b \in Body : reg.member[b] = NoGroup
  BY DEF Registry
<1>2. \A a \in Pet : owner[a] \notin Player /\ a \in Body
  BY GroupsAssumption DEF Body
<1>3. \A p \in Player : p \in Body
  BY DEF Body
<1>4. Orderly(reg, {})
  BY <1>1, <1>2, <1>3 DEF Orderly
<1> QED BY <1>4 DEF PetInv, Unmoved, NobodyOwned

\* A group may change hands.
LEMMA AssignOrderly ==
  ASSUME GroupsTypeOK, Orderly(reg, {}), NEW p \in Player, NEW q \in Player, AssignLeader(p, q)
  PROVE  Orderly(reg, {})'
<1> DEFINE g == reg.member[q]
<1>r. reg \in Registry /\ g \in Live(reg) /\ g \in GroupId /\ reg.info[g] \in GroupInfo
  BY KeyTypes DEF Orderly, AssignLeader, LedBy
<1>1. /\ reg'.member = reg.member /\ owner' = owner /\ life' = life /\ place' = place
      /\ reg'.info[g] = [leader |-> Ent(q), num_members |-> reg.info[g].num_members]
      /\ \A h \in GroupId \ {g} : reg'.info[h] = reg.info[h]
      /\ reg' \in Registry
  BY <1>r, OneEntityEach DEF AssignLeader, Registry, GroupInfo
<1>2. Live(reg') = Live(reg)
  <2>1. reg'.info[g] \in GroupInfo
    BY <1>1, <1>r, OneEntityEach DEF GroupInfo
  <2> QED BY <2>1, <1>r, <1>1, NoInfoAssumption DEF Live, Vacant
<1>3. Live(reg)' = Live(reg')
  BY DEF Live, Vacant
<1>4. ASSUME NEW b \in Body, reg'.member[b] # NoGroup
      PROVE  \E l \in Player : LedBy(reg, b, l)' /\ reg'.member[l] = reg'.member[b]
  <2>1. PICK l \in Player : LedBy(reg, b, l) /\ reg.member[l] = reg.member[b]
    BY <1>1, <1>4 DEF Orderly
  <2>2. CASE reg.member[b] = g
    <3>1. LedBy(reg, b, q)'
      BY <2>2, <1>1, <1>2, <1>3, <1>r DEF LedBy, Ent
    <3> QED BY <3>1, <2>2, <1>1
  <2>3. CASE reg.member[b] # g
    <3>1. reg.member[b] \in GroupId \ {g}
      BY <2>1, <2>3, <1>r, KeyTypes DEF LedBy
    <3>2. LedBy(reg, b, l)'
      BY <3>1, <2>1, <1>1, <1>2, <1>3 DEF LedBy, Ent
    <3> QED BY <3>2, <2>1, <1>1
  <2> QED BY <2>2, <2>3
<1> QED BY <1>1, <1>4 DEF Orderly, InGame

\* As long as nothing else changes, a registry in order is in order.
LEMMA StaysOrderly ==
  ASSUME Orderly(reg', {}), UNCHANGED <<owner, life, place>>
  PROVE  Orderly(reg, {})'
<1>1. \A b, l : LedBy(reg, b, l)' <=> LedBy(reg', b, l)
  BY DEF LedBy, Ent, Live, Vacant
<1> QED BY <1>1 DEF Orderly, InGame

LEMMA NewPetOrderly ==
  ASSUME GroupsTypeOK, Orderly(reg, {}), NEW p \in Player, NEW a \in Pet, NewPet(p, a)
  PROVE  Orderly(reg, {})'
<1>b. a \in Body /\ p \in Body /\ \A l \in Player : l \in Body /\ l # a
  BY PetsOwnNone DEF Body
<1>w. owner[a] \notin Player /\ reg.member[a] = NoGroup
  BY GroupsAssumption DEF NewPet, Orderly
<1>u. /\ InGame(p) /\ owner' = [owner EXCEPT ![a] = p] /\ life' = life /\ place' = place
      /\ reg' \in AddPet(reg, p, a)
  BY DEF NewPet
<1>o. owner'[a] = p /\ \A x \in Pet \ {a} : owner'[x] = owner[x]
  BY <1>u DEF GroupsTypeOK
<1>r. /\ reg \in Registry /\ NoGroup \notin GroupId
      /\ \A c \in Body : reg.member[c] \in GroupId \cup {NoGroup}
  BY KeyTypes, GroupsAssumption DEF Orderly
<1>L. \A b, l : LedBy(reg, b, l)' <=> LedBy(reg', b, l)
  BY <1>u DEF LedBy, Ent, Live, Vacant
<1>1. /\ reg' \in Registry /\ reg'.member[a] = reg'.member[p] /\ reg'.member[p] # NoGroup
      /\ LedBy(reg', p, p) \/ reg'.member[p] = reg.member[p]
      /\ \A c \in Body \ {a, p} : reg'.member[c] = reg.member[c]
      /\ \A c \in Body, l \in Player : LedBy(reg, c, l) /\ reg'.member[c] = reg.member[c]
                                         => LedBy(reg', c, l)
      /\ reg.member[p] # NoGroup => reg'.member[p] = reg.member[p]
  <2>1. CASE reg.member[p] # NoGroup
    <3>1. reg' = Put(reg, {a}, reg.member[p])
      BY <2>1, <1>u DEF AddPet
    <3>2. /\ reg' \in Registry /\ reg'.info = reg.info /\ Live(reg') = Live(reg)
          /\ \A c \in Body : reg'.member[c] = IF c = a THEN reg.member[p] ELSE reg.member[c]
      BY <3>1, <1>b, <1>r, PutIs, PutType
    <3> QED BY <3>2, <2>1, <1>b DEF LedBy
  <2>2. CASE reg.member[p] = NoGroup
    <3>1. PICK g \in Vacant(reg) : reg' = Put(CreateGroup(reg, g, p, 1), {p, a}, g)
      BY <2>2, <1>u DEF AddPet
    <3> DEFINE n == CreateGroup(reg, g, p, 1)
    <3>2. g \in GroupId /\ g \notin Live(reg) /\ g # NoGroup
      BY <1>r, KeyTypes DEF Live
    <3>3. /\ n \in Registry /\ n.member = reg.member /\ n.info[g].leader = Ent(p)
          /\ \A h \in GroupId \ {g} : n.info[h] = reg.info[h]
          /\ Live(n) = Live(reg) \cup {g}
      BY <3>2, <1>r, CreateGroupType, CreateGroupIs
    <3>4. reg' = Put(n, {p, a}, g)
      BY <3>1
    <3> HIDE DEF n
    <3>5. /\ reg' \in Registry /\ reg'.info = n.info /\ Live(reg') = Live(reg) \cup {g}
          /\ \A c \in Body : reg'.member[c] = IF c = p \/ c = a THEN g ELSE reg.member[c]
      BY <3>2, <3>3, <3>4, PutIs, PutType
    <3>6. \A h \in Live(reg) : reg'.info[h] = reg.info[h]
      BY <3>2, <3>3, <3>5, <1>r, KeyTypes
    <3>7. LedBy(reg', p, p)
      BY <3>3, <3>5, <1>b DEF LedBy
    <3> QED BY <3>2, <3>5, <3>6, <3>7, <2>2, <1>b DEF LedBy
  <2> QED BY <2>1, <2>2
<1>2. ASSUME NEW c \in Body, reg'.member[c] # NoGroup
      PROVE  \E l \in Player : LedBy(reg', c, l) /\ reg'.member[l] = reg'.member[c]
  <2>1. ASSUME NEW x \in Body, reg'.member[x] = reg.member[x], reg'.member[x] # NoGroup
        PROVE  \E l \in Player : LedBy(reg', x, l) /\ reg'.member[l] = reg'.member[x]
    <3>1. PICK l \in Player : LedBy(reg, x, l) /\ reg.member[l] = reg.member[x]
      BY <2>1 DEF Orderly
    <3>2. reg'.member[l] = reg.member[l]
      BY <3>1, <2>1, <1>1, <1>b
    <3> QED BY <3>1, <3>2, <2>1, <1>1
  <2>2. \E l \in Player : LedBy(reg', p, l) /\ reg'.member[l] = reg'.member[p]
    BY <2>1, <1>1, <1>b
  <2>3. CASE c = a
    BY <2>2, <2>3, <1>1 DEF LedBy
  <2> QED BY <2>1, <2>2, <2>3, <1>1, <1>2
<1>3. ASSUME NEW x \in Pet
      PROVE  /\ owner'[x] \in Player => reg'.member[x] = reg'.member[owner'[x]]
             /\ owner'[x] \notin Player => reg'.member[x] = NoGroup
             /\ owner'[x] \in Player /\ InGame(owner'[x]) => reg'.member[x] # NoGroup
  <2>1. CASE x = a
    BY <2>1, <1>1, <1>o
  <2>2. CASE x # a
    <3>1. reg'.member[x] = reg.member[x] /\ owner'[x] = owner[x] /\ x \in Body
      BY <2>2, <1>1, <1>o, PetsOwnNone DEF Body
    <3>2. CASE owner[x] = p
      <4>1. reg.member[x] = reg.member[p] /\ reg.member[x] # NoGroup
        BY <3>2, <1>u DEF Orderly
      <4> QED BY <4>1, <3>1, <3>2, <1>1
    <3>3. CASE owner[x] # p
      BY <3>1, <3>3, <1>1, <1>b DEF Orderly
    <3> QED BY <3>2, <3>3
  <2> QED BY <2>1, <2>2
<1>4. ASSUME NEW c \in Player, reg'.member[c] # NoGroup
      PROVE  InGame(c)
  BY <1>4, <1>b, <1>u, <1>1 DEF Orderly
<1>5. \A c : InGame(c)' <=> InGame(c)
  BY <1>u DEF InGame
<1> QED BY <1>L, <1>1, <1>2, <1>3, <1>4, <1>5 DEF Orderly

LEMMA PetDiesOrderly ==
  ASSUME GroupsTypeOK, Orderly(reg, {}), NEW a \in Pet, PetDies(a)
  PROVE  Orderly(reg, {})'
<1>b. a \in Body /\ a \notin Player
  BY PetsOwnNone DEF Body
<1>1. PICK r \in RemoveFromGroup(reg, a, TRUE) : reg' = Put(r, {a}, NoGroup)
  BY DEF PetDies
<1>2. Orderly(reg', {a})
  BY <1>b, <1>1, RemovalOrderly
<1>3. reg'.member[a] = NoGroup
  <2>1. r \in Registry
    BY <1>b, RemoveFromGroupType DEF Orderly
  <2> QED BY <1>b, <1>1, <2>1, PutIs
<1>4. /\ life' = life /\ place' = place
      /\ owner'[a] = Dead /\ \A x \in Pet \ {a} : owner'[x] = owner[x]
  BY DEF PetDies, GroupsTypeOK
<1>5. Dead \notin Player
  BY GroupsAssumption
<1>6. /\ \A b, l : LedBy(reg, b, l)' <=> LedBy(reg', b, l)
      /\ \A c : InGame(c)' <=> InGame(c)
  BY <1>4 DEF LedBy, Ent, Live, Vacant, InGame
<1>7. ASSUME NEW x \in Pet
      PROVE  /\ owner'[x] \in Player => reg'.member[x] = reg'.member[owner'[x]]
             /\ owner'[x] \notin Player => reg'.member[x] = NoGroup
             /\ owner'[x] \in Player /\ InGame(owner'[x]) => reg'.member[x] # NoGroup
  <2>1. CASE x = a
    BY <2>1, <1>3, <1>4, <1>5
  <2>2. CASE x # a
    BY <2>2, <1>b, <1>2, <1>4 DEF Orderly
  <2> QED BY <2>1, <2>2
<1> QED BY <1>2, <1>6, <1>7 DEF Orderly

LEMMA DeleteOrderly ==
  ASSUME GroupsTypeOK, Orderly(reg, {}), NEW p \in Player, DeleteEntity(p)
  PROVE  Orderly(reg, {})'
<1>b. p \in Body /\ \A l \in Player : l \in Body
  BY DEF Body
<1>1. PICK r \in RemoveFromGroup(reg, p, TRUE) : reg' = Put(r, {p}, NoGroup)
  BY DEF DeleteEntity
<1>2. Orderly(reg', {p})
  BY <1>b, <1>1, RemovalOrderly
<1>3. reg'.member[p] = NoGroup
  <2>1. r \in Registry
    BY <1>b, RemoveFromGroupType DEF Orderly
  <2> QED BY <1>b, <1>1, <2>1, PutIs
<1>4. /\ life' = life /\ owner' = owner
      /\ place'[p] = "gone" /\ \A c \in Player \ {p} : place'[c] = place[c]
  BY DEF DeleteEntity, GroupsTypeOK
<1>5. \A b, l : LedBy(reg, b, l)' <=> LedBy(reg', b, l)
  BY <1>4 DEF LedBy, Ent, Live, Vacant
<1>6. ASSUME NEW x \in Pet
      PROVE  /\ owner'[x] \in Player => reg'.member[x] = reg'.member[owner'[x]]
             /\ owner'[x] \notin Player => reg'.member[x] = NoGroup
             /\ owner'[x] \in Player /\ place'[owner'[x]] = "game" => reg'.member[x] # NoGroup
  <2>1. x \in Pet \ {p} /\ owner'[x] = owner[x]
    BY <1>4, PetsOwnNone
  <2>2. owner[x] = p => place'[owner'[x]] # "game"
    BY <1>4, <2>1
  <2>3. owner[x] \in Player \ {p} => (place'[owner'[x]] = "game" <=> InGame(owner[x]))
    BY <1>4, <2>1 DEF InGame
  <2> QED BY <2>1, <2>2, <2>3, <1>2 DEF Orderly
<1>7. \A c \in Player : reg'.member[c] # NoGroup => place'[c] = "game"
  BY <1>2, <1>3, <1>4 DEF Orderly, InGame
<1> QED BY <1>2, <1>5, <1>6, <1>7 DEF Orderly, InGame

\* The steps that reach the groups, as long as nobody changes places.
LEMMA GroupsStayOrderly ==
  ASSUME TypeOK, PetInv, Unmoved, Unmoved', ApartNext, Recruits
  PROVE  (Orderly(reg, {}) /\ \A p \in Player : place[p] # "screen")'
<1>g. GroupsTypeOK /\ Orderly(reg, {}) /\ \A p \in Player : place[p] # "screen"
  BY DEF TypeOK, PetInv
<1>b. \A p \in Player : p \in Body
  BY DEF Body
<1>s. ASSUME UNCHANGED place PROVE \A p \in Player : place'[p] # "screen"
  BY <1>g, <1>s
<1>1. ASSUME NEW p \in Player, Leave(p)
      PROVE  Orderly(reg, {})'
  <2>1. Orderly(reg', {})
    BY <1>g, <1>b, <1>1, RemovalOrderly DEF Leave
  <2> QED BY <1>1, <2>1, StaysOrderly DEF Leave
<1>2. ASSUME NEW p \in Player, NEW q \in Player, Kick(p, q)
      PROVE  Orderly(reg, {})'
  <2>1. Orderly(reg', {})
    BY <1>g, <1>b, <1>2, RemovalOrderly DEF Kick
  <2> QED BY <1>2, <2>1, StaysOrderly DEF Kick
<1>3. ASSUME NEW q \in Player, HandleInviteAccept(q)
      PROVE  Orderly(reg, {})'
  <2>u. UNCHANGED <<owner, life, place>> /\ InGame(q) /\ invite[q] # NoInvite
    BY <1>3 DEF HandleInviteAccept, Answer
  <2>1. CASE reg' = reg
    BY <1>g, <2>1, <2>u, StaysOrderly
  <2>2. CASE reg' # reg
    <3>1. PICK p \in Player : Remembers(p, q) /\ reg' \in AddGroupMember(reg, p, q)
      BY <1>3, <2>2 DEF HandleInviteAccept
    <3>2. invite[q].kind = "Group"
      BY <1>3, <2>2 DEF HandleInviteAccept
    <3>3. InGame(p)
      BY <1>g, <3>1 DEF Remembers, Exists, InGame, GroupsTypeOK
    <3>4. p # q
      BY <3>1, <2>u DEF PetInv, Remembers, Ent
    <3>5. PetsOf(p) = {} \/ LedBy(reg, p, p) \/ LedBy(reg, p, q)
      BY <1>3, <3>1, <3>2 DEF Recruits
    <3>6. Orderly(reg', {})
      BY <1>g, <2>u, <3>1, <3>3, <3>4, <3>5, AdditionOrderly
    <3> QED BY <2>u, <3>6, StaysOrderly
  <2> QED BY <2>1, <2>2
<1>4. CASE GroupStep
  <2>1. ASSUME NEW p \in Player, Leave(p) PROVE Orderly(reg, {})' /\ UNCHANGED place
    BY <1>1, <2>1 DEF Leave
  <2>2. ASSUME NEW p \in Player, NEW q \in Player, Kick(p, q)
        PROVE  Orderly(reg, {})' /\ UNCHANGED place
    BY <1>2, <2>2 DEF Kick
  <2>3. ASSUME NEW p \in Player, NEW a \in Pet, NewPet(p, a)
        PROVE  Orderly(reg, {})' /\ UNCHANGED place
    BY <1>g, <2>3, NewPetOrderly DEF NewPet
  <2>4. ASSUME NEW a \in Pet, PetDies(a) PROVE Orderly(reg, {})' /\ UNCHANGED place
    BY <1>g, <2>4, PetDiesOrderly DEF PetDies
  <2> QED BY <1>4, <1>s, <2>1, <2>2, <2>3, <2>4 DEF GroupStep
<1>5. CASE Transfer
  <2>1. PICK p \in Player, q \in Player : AssignLeader(p, q)
    BY <1>5 DEF Transfer
  <2>2. Orderly(reg, {})'
    BY <1>g, <2>1, AssignOrderly
  <2> QED BY <1>s, <2>1, <2>2 DEF AssignLeader
<1>6. ASSUME UNCHANGED groupVars PROVE Orderly(reg, {})' /\ UNCHANGED place
  BY <1>6, <1>g, StaysOrderly DEF groupVars
<1>7. CASE InviteStep
  <2>1. ASSUME NEW p \in Player, NEW q \in Player, NEW kind \in Kind, HandleInvite(p, q, kind)
        PROVE  Orderly(reg, {})' /\ UNCHANGED place
    BY <1>6, <2>1 DEF HandleInvite
  <2>2. ASSUME NEW p \in Player, HandleInviteAccept(p)
        PROVE  Orderly(reg, {})' /\ UNCHANGED place
    BY <1>3, <2>2 DEF HandleInviteAccept
  <2>3. ASSUME NEW p \in Player, HandleInviteDecline(p)
        PROVE  Orderly(reg, {})' /\ UNCHANGED place
    BY <1>6, <2>3 DEF HandleInviteDecline
  <2> QED BY <1>7, <1>s, <2>1, <2>2, <2>3 DEF InviteStep
<1>8. CASE TimeoutStep
  <2>1. UNCHANGED groupVars
    BY <1>8 DEF TimeoutStep, InviteTimeout
  <2> QED BY <1>6, <1>s, <2>1
<1>9. CASE ScreenStep
  <2>1. PICK p \in Player : ExitInGame(p) \/ EnterGame(p)
    BY <1>9 DEF ScreenStep
  <2>2. CASE ExitInGame(p)
    <3>1. life'[p] = 2
      BY <2>2, <1>g DEF ExitInGame, MoveEntity, Unmoved, GroupsTypeOK
    <3> QED BY <3>1 DEF Unmoved
  <2>3. CASE EnterGame(p)
    BY <2>3, <1>g DEF EnterGame
  <2> QED BY <2>1, <2>2, <2>3
<1>10. CASE DisconnectStep
  <2>1. PICK p \in Player : DeleteEntity(p)
    BY <1>10 DEF DisconnectStep, ClientDisconnect
  <2>2. Orderly(reg, {})'
    BY <1>g, <2>1, DeleteOrderly
  <2>3. \A q \in Player : place'[q] # "screen"
    BY <1>g, <2>1 DEF DeleteEntity, GroupsTypeOK
  <2> QED BY <2>2, <2>3
<1> QED BY <1>4, <1>5, <1>7, <1>8, <1>9, <1>10 DEF ApartNext, Next

LEMMA PetStep ==
  ASSUME TypeOK, PetInv, [ApartNext /\ Recruits]_vars
  PROVE  PetInv'
<1>1. CASE UNCHANGED vars
  <2>1. UNCHANGED <<reg, owner, life, place, invite>>
    BY <1>1 DEF vars, groupVars, inviteVars
  <2>2. Orderly(reg, {}) => Orderly(reg, {})'
    BY <2>1, StaysOrderly
  <2> QED BY <2>1, <2>2 DEF PetInv, Unmoved, NobodyOwned
<1>2. CASE ApartNext /\ Recruits
  <2>1. \A q \in Player : invite'[q] # NoInvite => invite'[q].inviter[1] # q
    <3>1. ASSUME NEW p \in Player, NEW q \in Player, NEW kind \in Kind, HandleInvite(p, q, kind)
          PROVE  \A x \in Player : invite'[x] = invite[x] \/ (x = q /\ invite'[x].inviter[1] = p /\ p # q)
      BY <3>1 DEF HandleInvite, Ent, TypeOK, InvitesTypeOK
    <3>2. ASSUME NEW p \in Player, Answer(p) \/ DropInvites(p)
          PROVE  \A x \in Player : invite'[x] \in {invite[x], NoInvite}
      BY <3>2 DEF Answer, DropInvites, TypeOK, InvitesTypeOK
    <3>3. ASSUME NEW Q \in SUBSET Player, InviteTimeout(Q)
          PROVE  \A x \in Player : invite'[x] \in {invite[x], NoInvite}
      BY <3>3 DEF InviteTimeout
    <3>4. \/ invite' = invite
          \/ \E p, q \in Player, kind \in Kind : HandleInvite(p, q, kind)
          \/ \E p \in Player : Answer(p) \/ DropInvites(p)
          \/ \E Q \in SUBSET Player : InviteTimeout(Q)
      BY <1>2 DEF ApartNext, Next, GroupStep, Transfer, InviteStep, TimeoutStep, ScreenStep,
                  DisconnectStep, HandleInviteAccept, HandleInviteDecline, ExitInGame,
                  ClientDisconnect, inviteVars
    <3> QED BY <3>1, <3>2, <3>3, <3>4 DEF PetInv
  <2>2. Unmoved' \/ NobodyOwned'
    BY <1>2 DEF ApartNext, Unmoved, NobodyOwned
  <2>3. ASSUME Unmoved' PROVE Unmoved
    <3>1. \/ life' = life
          \/ \E p \in Player : MoveEntity(p)
      BY <1>2 DEF ApartNext, Next, GroupStep, Transfer, InviteStep, TimeoutStep, ScreenStep,
                  DisconnectStep, HandleInviteAccept, HandleInviteDecline, HandleInvite, ExitInGame,
                  ClientDisconnect, Leave, Kick, NewPet, PetDies, AssignLeader, InviteTimeout,
                  EnterGame, DeleteEntity, groupVars
    <3>2. ASSUME NEW p \in Player, MoveEntity(p) PROVE FALSE
      <4>1. life[p] \in Nat /\ life[p] >= 1 /\ life'[p] = life[p] + 1
        BY <3>2, GroupsAssumption DEF MoveEntity, TypeOK, GroupsTypeOK
      <4> QED BY <4>1, <2>3 DEF Unmoved
    <3> QED BY <3>1, <3>2, <2>3 DEF Unmoved
  <2>4. ASSUME Unmoved' PROVE (Orderly(reg, {}) /\ \A p \in Player : place[p] # "screen")'
    BY <1>2, <2>3, <2>4, GroupsStayOrderly
  <2> QED BY <2>1, <2>2, <2>4 DEF PetInv
<1> QED BY <1>1, <1>2

LEMMA PetInvFollows == ASSUME PetInv PROVE PetsFollow
<1>1. CASE Unmoved
  BY <1>1 DEF PetInv, Orderly, PetsFollow
<1>2. CASE NobodyOwned
  BY <1>2, GroupsAssumption DEF NobodyOwned, PetsFollow
<1> QED BY <1>1, <1>2 DEF PetInv

\* For any number of players, a pet is in the group of its owner and in none
\* without it, as long as owners who add somebody lead their group, or get one when
\* the leader they add leaves theirs. Otherwise add_group_member gives the owner a
\* second group right after the one it left with its pets
\* (common/src/comp/group.rs:211); nothing else parts them.
THEOREM PetsFollowLeaders == Init /\ [][ApartNext /\ Recruits]_vars => []PetsFollow
<1>1. Init => TypeOK /\ PetInv
  BY TypeInit, PetInit
<1>2. TypeOK /\ PetInv /\ [ApartNext /\ Recruits]_vars => TypeOK' /\ PetInv'
  <2>1. [ApartNext /\ Recruits]_vars => [Next]_vars
    BY DEF ApartNext
  <2> QED BY <2>1, TypeStep, PetStep
<1>3. PetInv => PetsFollow
  BY PetInvFollows
<1> QED BY <1>1, <1>2, <1>3, PTL

\* Under the same conditions a Group component names a group that exists, with a
\* leader in it who is connected, until the first player leaves for the character
\* screen: also while pets are adopted, die, and are taken along.
THEOREM RegistryPairedWithPets ==
  Init /\ [][ApartNext /\ Recruits]_vars => [](Unmoved => RegistryPaired)
<1>1. Init => TypeOK /\ PetInv
  BY TypeInit, PetInit
<1>2. TypeOK /\ PetInv /\ [ApartNext /\ Recruits]_vars => TypeOK' /\ PetInv'
  <2>1. [ApartNext /\ Recruits]_vars => [Next]_vars
    BY DEF ApartNext
  <2> QED BY <2>1, TypeStep, PetStep
<1>3. PetInv => (Unmoved => RegistryPaired)
  <2> SUFFICES ASSUME PetInv, Unmoved, NEW b \in Body, reg.member[b] # NoGroup
               PROVE  \E p \in Player : /\ Exists(p) /\ LedBy(reg, b, p)
                                        /\ reg.member[p] = reg.member[b]
    BY DEF RegistryPaired
  <2>1. PICK l \in Player : LedBy(reg, b, l) /\ reg.member[l] = reg.member[b]
    BY DEF PetInv, Orderly
  <2>2. Exists(l)
    BY <2>1 DEF PetInv, Orderly, InGame, Exists
  <2> QED BY <2>1, <2>2
<1> QED BY <1>1, <1>2, <1>3, PTL

\* With two players, who is not the leader p has is the one p adds.
LEMMA TwoRecruit ==
  ASSUME \E x, y \in Player : Player = {x, y}, TypeOK, PetInv
  PROVE  Recruits
<1> SUFFICES ASSUME NEW p \in Player, NEW q \in Player, Remembers(p, q), PetsOf(p) # {}
             PROVE  LedBy(reg, p, p) \/ LedBy(reg, p, q)
  BY DEF Recruits
<1>1. PICK a \in Pet : owner[a] = p
  BY DEF PetsOf
<1>2. Unmoved
  BY <1>1, GroupsAssumption DEF PetInv, NobodyOwned
<1>3. Orderly(reg, {}) /\ InGame(p)
  BY <1>2 DEF PetInv, Remembers, Exists, InGame, TypeOK, GroupsTypeOK
<1>4. reg.member[p] # NoGroup
  BY <1>1, <1>3 DEF Orderly
<1>5. PICK l \in Player : LedBy(reg, p, l)
  BY <1>3, <1>4 DEF Orderly, Body
<1>6. p # q
  BY DEF PetInv, Remembers, Ent
<1> QED BY <1>5, <1>6

\* Between two players, who may invite and leave each other and hand over the
\* lead as they like, a pet is always in the group of its owner and in none
\* without it, for any number of pets.
THEOREM PetsFollowTwo ==
  ASSUME \E x, y \in Player : Player = {x, y}
  PROVE  ApartSpec => []PetsFollow
<1>1. Init => TypeOK /\ PetInv
  BY TypeInit, PetInit
<1>2. TypeOK /\ PetInv /\ [ApartNext]_vars => TypeOK' /\ PetInv'
  <2>1. [ApartNext]_vars => [Next]_vars
    BY DEF ApartNext
  <2>2. TypeOK /\ PetInv /\ [ApartNext]_vars => [ApartNext /\ Recruits]_vars
    BY TwoRecruit
  <2> QED BY <2>1, <2>2, TypeStep, PetStep
<1>3. PetInv => PetsFollow
  BY PetInvFollows
<1> QED BY <1>1, <1>2, <1>3, PTL DEF ApartSpec
=============================================================================
