------------------------------- MODULE Invites -------------------------------
(***************************************************************************)
(* Invites to groups and to trades: the components Invite and              *)
(* PendingInvites (common/src/comp/invite.rs), their handlers              *)
(* (server/src/events/invite.rs), the system that removes timed out        *)
(* invites (server/src/sys/invite_timeout.rs), and what becomes of them    *)
(* when a player's entity is replaced or deleted. Composes with Groups     *)
(* into the whole of group membership.                                     *)
(*                                                                         *)
(* What an accepted invite to trade begins is the subject of module Trade. *)
(***************************************************************************)
EXTENDS Groups

CONSTANTS
  MaxGroupSize,  \* settings.max_player_group_size
  NoInvite       \* no Invite component

Kind   == {"Group", "Trade"}
Invite == [inviter : Entity, kind : Kind]

ASSUME InvitesAssumption ==
  /\ MaxGroupSize \in Nat \ {0}
  /\ NoInvite \notin Invite

VARIABLES
  invite,   \* of a player's entity: its Invite component
  pending   \* of a player's entity: PendingInvites, the entities it invited

inviteVars == <<invite, pending>>
vars       == <<groupVars, inviteVars>>

\* An entry of PendingInvites. The instant is left out: an invite may time
\* out at any moment. An entity has one invite at a time, so a list holds no
\* entry twice and its order does not matter.
Entry == [invitee : Entity, kind : Kind]

InvitesTypeOK ==
  /\ invite \in [Player -> Invite \cup {NoInvite}]
  /\ pending \in [Player -> SUBSET Entry]

TypeOK == GroupsTypeOK /\ InvitesTypeOK

Init ==
  /\ GroupsInit
  /\ invite = [p \in Player |-> NoInvite]
  /\ pending = [p \in Player |-> {}]

-----------------------------------------------------------------------------
(* Inviting *)

GroupSizeOf(p) ==
  IF LedBy(reg, p, p) THEN reg.info[reg.member[p]].num_members ELSE 1

PendingCount(p) == Cardinality({e \in pending[p] : e.kind = "Group"})

\* Mutant: invites that are out do not count.
CanInviteFull(p, q) ==
  /\ ~(LedBy(reg, p, p) /\ reg.member[q] = reg.member[p])
  /\ GroupSizeOf(p) < MaxGroupSize

CanInvite(p, q) ==
  /\ ~(LedBy(reg, p, p) /\ reg.member[q] = reg.member[p])
  /\ GroupSizeOf(p) + PendingCount(p) < MaxGroupSize

\* The invitee may be on the character screen: all it needs is a client. So
\* may the inviter to a group, who can use a chat command.
HandleInvite(p, q, kind) ==
  /\ Exists(p) /\ Exists(q) /\ p # q
  /\ kind = "Trade" => InGame(p)
  /\ kind = "Group" => CanInvite(p, q)
  /\ invite[q] = NoInvite
  /\ invite' = [invite EXCEPT ![q] = [inviter |-> Ent(p), kind |-> kind]]
  /\ pending' = [pending EXCEPT ![p] = @ \cup {[invitee |-> Ent(q), kind |-> kind]}]
  /\ UNCHANGED groupVars

-----------------------------------------------------------------------------
(* Answers and time-outs *)

\* The inviter's entity still exists and remembers that it invited q.
Remembers(p, q) ==
  /\ invite[q] # NoInvite
  /\ Exists(p) /\ invite[q].inviter = Ent(p)
  /\ \E e \in pending[p] : e.invitee = Ent(q)

\* The lists of the inviters of all players in Q without their entries.
ForgetAll(Q) ==
  [p \in Player |-> {e \in pending[p] :
     ~\E q \in Q : Remembers(p, q) /\ e.invitee = Ent(q)}]

\* Mutant: the inviter's entry stays.
AnswerKeepEntry(q) ==
  /\ InGame(q)
  /\ invite[q] # NoInvite
  /\ invite' = [invite EXCEPT ![q] = NoInvite]
  /\ UNCHANGED pending

\* invites.remove comes first: an invite nobody remembers is gone as well.
Answer(q) ==
  /\ InGame(q)
  /\ invite[q] # NoInvite
  /\ invite' = [invite EXCEPT ![q] = NoInvite]
  /\ pending' = ForgetAll({q})

\* Mutant: invites to trade are taken for invites to the group.
HandleInviteAcceptAnyKind(q) ==
  /\ Answer(q)
  /\ IF \E p \in Player : Remembers(p, q)
     THEN \E p \in Player : Remembers(p, q) /\ reg' \in AddGroupMember(reg, p, q)
     ELSE UNCHANGED reg
  /\ UNCHANGED <<owner, life, place>>

HandleInviteAccept(q) ==
  /\ Answer(q)
  /\ IF invite[q].kind = "Group" /\ \E p \in Player : Remembers(p, q)
     THEN \E p \in Player : Remembers(p, q) /\ reg' \in AddGroupMember(reg, p, q)
     ELSE UNCHANGED reg
  /\ UNCHANGED <<owner, life, place>>

HandleInviteDecline(q) == Answer(q) /\ UNCHANGED groupVars

\* Mutant: only the invitees in the game are looked at.
InviteTimeoutInGame(Q) ==
  /\ Q # {}
  /\ \A q \in Q : InGame(q) /\ \E p \in Player : Remembers(p, q)
  /\ invite' = [q \in Player |-> IF q \in Q THEN NoInvite ELSE invite[q]]
  /\ pending' = ForgetAll(Q)
  /\ UNCHANGED groupVars

\* One run of the system. Invites nobody remembers are passed over.
InviteTimeout(Q) ==
  /\ Q # {}
  /\ \A q \in Q : \E p \in Player : Remembers(p, q)
  /\ invite' = [q \in Player |-> IF q \in Q THEN NoInvite ELSE invite[q]]
  /\ pending' = ForgetAll(Q)
  /\ UNCHANGED groupVars

-----------------------------------------------------------------------------
(* Entities that are replaced or deleted: their components go with them *)

DropInvites(p) ==
  /\ invite' = [invite EXCEPT ![p] = NoInvite]
  /\ pending' = [pending EXCEPT ![p] = {}]

ExitInGame(p) == MoveEntity(p) /\ DropInvites(p)

ClientDisconnect(p) == DeleteEntity(p) /\ DropInvites(p)

-----------------------------------------------------------------------------
GroupStep ==
  /\ \/ \E p \in Player :
          \/ Leave(p)
          \/ \E q \in Player : Kick(p, q)
          \/ \E a \in Pet : NewPet(p, a)
     \/ \E a \in Pet : PetDies(a)
  /\ UNCHANGED inviteVars

Transfer ==
  /\ \E p, q \in Player : AssignLeader(p, q)
  /\ UNCHANGED inviteVars

InviteStep ==
  \E p \in Player :
    \/ \E q \in Player, kind \in Kind : HandleInvite(p, q, kind)
    \/ HandleInviteAccept(p)
    \/ HandleInviteDecline(p)

ScreenStep ==
  \E p \in Player : ExitInGame(p) \/ (EnterGame(p) /\ UNCHANGED inviteVars)

DisconnectStep == \E p \in Player : ClientDisconnect(p)

TimeoutStep == \E Q \in SUBSET Player : InviteTimeout(Q)

Next == GroupStep \/ Transfer \/ InviteStep \/ TimeoutStep \/ ScreenStep
        \/ DisconnectStep
Spec == Init /\ [][Next]_vars

\* The system runs on every tick and an invite expires after 31 seconds.
Fairness ==
  \A q \in Player : WF_vars(\E Q \in SUBSET Player : q \in Q /\ InviteTimeout(Q))

\* Nobody hands over the lead.
StableNext == GroupStep \/ InviteStep \/ TimeoutStep \/ DisconnectStep
StableSpec == Init /\ [][StableNext]_vars

\* Either pets are adopted or players leave for the character screen: the group
\* of a member on the screen may be disbanded, and a pet then keeps its key.
ApartNext == Next /\ \/ \A p \in Player : life'[p] = 1
                     \/ \A a \in Pet : owner'[a] = Wild
ApartSpec == Init /\ [][ApartNext]_vars /\ Fairness

-----------------------------------------------------------------------------
(* Properties *)

\* A Group component names a group that exists and whose leader is the present
\* entity of a player in it: the handlers look groups up by the component and
\* trust the leader they find.
RegistryPaired ==
  \A b \in Body : reg.member[b] # NoGroup =>
    \E p \in Player : /\ Exists(p) /\ LedBy(reg, b, p)
                     /\ reg.member[p] = reg.member[b]

\* num_members of a group that somebody is in is the number of players whose
\* Group component names it.
PlayersOf(g) == {p \in Player : reg.member[p] = g}
CountSound ==
  \A g \in Live(reg) : PlayersOf(g) # {} =>
    reg.info[g].num_members = Cardinality(PlayersOf(g))

\* A group that exists has members, or nothing would ever remove it.
GroupsInhabited ==
  \A g \in Live(reg) : \E b \in Body : reg.member[b] = g

\* A pet is in the group of its owner and in none without it.
PetsFollow ==
  \A a \in Pet : owner[a] \in Player => reg.member[a] = reg.member[owner[a]]

\* No group has more players than the server's limit, however invites,
\* answers and departures interleave.
LimitKept ==
  \A g \in GroupId : Cardinality(PlayersOf(g)) <= MaxGroupSize

\* Of two players who are connected, one holds an invite of the other's entity
\* exactly if the other remembers to have sent it that invite.
InvitePaired ==
  \A p, q \in Player : Exists(p) /\ Exists(q) =>
    \A k \in Kind : invite[q] = [inviter |-> Ent(p), kind |-> k]
                    <=> [invitee |-> Ent(q), kind |-> k] \in pending[p]

\* An invite the inviter remembers is answered or removed by invite_timeout,
\* unless one of the two entities goes first.
InvitesSettle ==
  \A p, q \in Player : Remembers(p, q) ~> ~Remembers(p, q)

\* Groups of players implement Parties: who is together with whom under which
\* leader changes only by an accepted invite, a departure or a transfer.
PartyOf(g) == [leader  |-> reg.info[g].leader[1],
               members |-> PlayersOf(g)]
party == INSTANCE Parties WITH
  parties <- {x \in {PartyOf(g) : g \in Live(reg)} : Cardinality(x.members) > 1},
  asked   <- {x \in Player \X Player :
                Remembers(x[1], x[2]) /\ invite[x[2]].kind = "Group"}
ImplementsParties == party!Spec

=============================================================================
