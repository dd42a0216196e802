--------------------------- MODULE SessionsProofs ----------------------------
(* Proofs about Sessions, for any connections, accounts, characters and     *)
(* bounds:                                                                  *)
(*  - type correctness;                                                     *)
(*  - an account is logged in exactly while it has a player;                *)
(*  - no character is in the game twice;                                    *)
(*  - a character out of the game is stored as it left it.                  *)
(*                                                                          *)
(* The invariant says what the entities named by events, requests and       *)
(* answers still are when these arrive: gone, or the entity that asked.     *)
EXTENDS Sessions, SequenceTheorems, TLAPS

Elems(s) == {s[i] : i \in DOMAIN s}
Notices  == Elems(bus) \cup Elems(events)
Alive(e) == ecs[e].client # None
Playing  == {ecs[e].presence : e \in {f \in Entity : InGame(f)}}
Ids(batch) == {s.id : s \in batch}

Notice  == [type : {"init", "update", "exit", "disconnect"}, entity : Entity,
            char : Character \cup {None}, data : Data \cup {Deleted, None}]
Request == [entity : Entity, type : {"play", "delete"}, char : Character]
Answer  == [entity : Entity, data : Data \cup {Deleted}]
Message == [type : {"play", "delete"}, char : Character]
Save    == [id : Character, data : Data]
Sent    == [register : BOOLEAN, screen : Seq(Message), exit : BOOLEAN, terminate : BOOLEAN]

\* The types of what TypeOK leaves out.
QueuesOK ==
  /\ bus \in Seq(Notice) /\ events \in Seq(Notice)
  /\ loader \in Seq(Request) /\ answers \in Seq(Answer)
  /\ updater \in Seq(SUBSET Save)
  /\ revision \in [Character -> 0..MaxRevision]
  /\ left \in [Character -> Data]

\* A client asks for its own characters only.
SentOK ==
  /\ up \in [Connection -> Sent]
  /\ \A k \in Connection : \A m \in Elems(up[k].screen) : OwnerOf[m.char] = AccountOf[k]

\* Whom an entity stands for.
Owned == \A e \in Entity :
  /\ ecs[e].player # None => /\ ecs[e].player = AccountOf[ecs[e].client]
                             /\ ecs[e].player \notin InvalidName
  /\ pending[e] # None => pending[e] = AccountOf[ecs[e].client]
  /\ ecs[e].presence # None => OwnerOf[ecs[e].presence] = ecs[e].player

\* A character about to be entered is one of the entity's player, and the
\* entity has no data, and none under way, of another one.
InitSound == \A x \in Notices : x.type = "init" =>
  /\ x.char \in Character
  /\ Alive(x.entity) => /\ ecs[x.entity].player # None
                        /\ OwnerOf[x.char] = ecs[x.entity].player
                        /\ ecs[x.entity].data = None
                        /\ \A y \in Notices : y.type = "update" => y.entity # x.entity

UpdateSound == \A x \in Notices : x.type = "update" =>
  x.data \in Data /\ (Alive(x.entity) => ecs[x.entity].presence # None)

\* A request still has its character's entry before it, and an answer behind.
LoaderSound == \A x \in Elems(loader) : x.type = "play" /\ Alive(x.entity) =>
  \/ ecs[x.entity].presence # None
  \/ \E y \in Notices : y.type = "init" /\ y.entity = x.entity

AnswersSound == \A x \in Elems(answers) : Alive(x.entity) => ecs[x.entity].presence # None

\* Characters are entered in the tick that reads the request.
PhaseSound ==
  /\ phase # "messages" => \A x \in Elems(bus) : x.type # "init"
  /\ phase # "events" => events = <<>>

EventsSound == InitSound /\ UpdateSound /\ LoaderSound /\ AnswersSound /\ PhaseSound

\* The last save under way of a character out of the game is the one made when
\* it left, in a batch of its own; if none is under way it is stored.
SaveUnderWay(c) == \E i \in DOMAIN updater :
  /\ updater[i] = {[id |-> c, data |-> left[c]]}
  /\ \A j \in DOMAIN updater : j > i => c \notin Ids(updater[j])

StoredOrUnderWay == \A c \in Character : db[c] # Deleted /\ c \notin Playing =>
  \/ db[c] = left[c] /\ \A i \in DOMAIN updater : c \notin Ids(updater[i])
  \/ SaveUnderWay(c)

IInv == TypeOK /\ QueuesOK /\ SentOK /\ Owned /\ AccountPaired /\ EventsSound
        /\ StoredOrUnderWay

-----------------------------------------------------------------------------
\* The elements of a queue.
LEMMA AppendElems ==
  ASSUME NEW S, NEW s \in Seq(S), NEW x \in S
  PROVE  Append(s, x) \in Seq(S) /\ Elems(Append(s, x)) = Elems(s) \cup {x}
<1>1. /\ Append(s, x) \in Seq(S) /\ DOMAIN Append(s, x) = DOMAIN s \cup {Len(s) + 1}
      /\ Len(s) + 1 \notin DOMAIN s /\ Append(s, x)[Len(s) + 1] = x
      /\ \A i \in DOMAIN s : Append(s, x)[i] = s[i]
  OBVIOUS
<1> QED
  BY <1>1 DEF Elems

LEMMA TailElems ==
  ASSUME NEW S, NEW s \in Seq(S), s # <<>>
  PROVE  /\ Head(s) \in S /\ Tail(s) \in Seq(S)
         /\ Elems(s) = Elems(Tail(s)) \cup {Head(s)}
<1>1. Head(s) \in S /\ Tail(s) \in Seq(S) /\ Head(s) \in Elems(s)
  BY DEF Elems
<1>2. Elems(Tail(s)) \subseteq Elems(s)
  BY DEF Elems
<1>3. ASSUME NEW i \in DOMAIN s, s[i] # Head(s)
      PROVE  s[i] \in Elems(Tail(s))
  <2>1. i \in 2..Len(s) /\ Len(Tail(s)) = Len(s) - 1
    BY <1>3
  <2>2. Tail(s)[i - 1] = s[i] /\ i - 1 \in DOMAIN Tail(s)
    BY <2>1
  <2> QED
    BY <2>2 DEF Elems
<1> QED
  BY <1>1, <1>2, <1>3 DEF Elems

LEMMA EmptyElems == Elems(<<>>) = {}
BY DEF Elems

LEMMA ElemsTyped ==
  ASSUME NEW S, NEW s \in Seq(S)
  PROVE  Elems(s) \subseteq S
BY DEF Elems

\* A new entity is blank, and nothing under way names it.
LEMMA FreshEntity ==
  ASSUME TypeOK, Free # {}
  PROVE  /\ NewEntity \in Entity /\ ecs[NewEntity] = Blank /\ pending[NewEntity] = None
         /\ \A x \in Notices \cup Elems(loader) \cup Elems(answers) : x.entity # NewEntity
<1>1. NewEntity \in Free
  BY DEF NewEntity
<1>2. NewEntity \in Entity /\ ecs[NewEntity] = Blank /\ NewEntity \notin Named
  BY <1>1 DEF Free
<1>3. pending[NewEntity] = None
  BY <1>2 DEF TypeOK, Blank
<1> QED
  BY <1>2, <1>3 DEF Named, Notices, Elems

-----------------------------------------------------------------------------
(* What steps have in common. *)

\* An entity that something may name stays what it is, or is gone.
Kept(e) == ecs'[e].client # None =>
  /\ ecs[e].client # None
  /\ ecs[e].player # None => ecs'[e].player = ecs[e].player
  /\ ecs[e].presence # None => ecs'[e].presence # None
  /\ ecs[e].data = None => ecs'[e].data = None

\* Events are handled in their order, or none is.
Handled == \/ events' = events
           \/ /\ phase = "events" /\ events # <<>> /\ events' = Tail(events)
              /\ Head(events).type # "init"

LEMMA NoticesTyped ==
  ASSUME QueuesOK
  PROVE  /\ Notices \subseteq Notice /\ Elems(loader) \subseteq Request
         /\ Elems(answers) \subseteq Answer
BY ElemsTyped DEF QueuesOK, Notices

LEMMA HandledNotices ==
  ASSUME QueuesOK, Handled, bus' = bus
  PROVE  /\ events' \in Seq(Notice) /\ Notices' \subseteq Notices
         /\ \A x \in Notices : x.type = "init" => x \in Notices'
<1>1. CASE events' = events
  BY <1>1 DEF QueuesOK, Notices
<1>2. CASE events # <<>> /\ events' = Tail(events) /\ Head(events).type # "init"
  <2>1. events' \in Seq(Notice) /\ Elems(events) = Elems(events') \cup {Head(events)}
    BY <1>2, TailElems DEF QueuesOK
  <2> QED
    BY <1>2, <2>1 DEF Notices
<1> QED
  BY <1>1, <1>2 DEF Handled

LEMMA SoundKept ==
  ASSUME QueuesOK, EventsSound, UNCHANGED <<phase, bus, loader, answers>>, Handled,
         \A x \in Notices \cup Elems(loader) \cup Elems(answers) : Kept(x.entity)
  PROVE  EventsSound'
<1>1. /\ Notices' \subseteq Notices
      /\ \A x \in Notices : x.type = "init" => x \in Notices'
  BY HandledNotices
<1>2. InitSound'
  BY <1>1 DEF EventsSound, InitSound, Kept, Alive
<1>3. UpdateSound'
  BY <1>1 DEF EventsSound, UpdateSound, Kept, Alive
<1>4. LoaderSound'
  <2> SUFFICES ASSUME NEW x \in Elems(loader), x.type = "play", Alive(x.entity)',
                      ecs'[x.entity].presence = None
               PROVE  \E y \in Notices' : y.type = "init" /\ y.entity = x.entity
    BY DEF LoaderSound
  <2>1. Alive(x.entity) /\ ecs[x.entity].presence = None
    BY DEF Kept, Alive
  <2> QED
    BY <1>1, <2>1 DEF EventsSound, LoaderSound
<1>5. AnswersSound'
  BY DEF EventsSound, AnswersSound, Kept, Alive
<1>6. PhaseSound'
  BY DEF EventsSound, PhaseSound, Handled
<1> QED
  BY <1>2, <1>3, <1>4, <1>5, <1>6 DEF EventsSound

\* An exit or a disconnection is noticed.
LEMMA EmitSound ==
  ASSUME QueuesOK, EventsSound, UNCHANGED <<phase, ecs, events, loader>>,
         Elems(answers') \subseteq Elems(answers),
         NEW e \in Entity, NEW t \in {"exit", "disconnect"}, bus' = Append(bus, Event(t, e))
  PROVE  bus' \in Seq(Notice) /\ EventsSound'
<1>1. Event(t, e) \in Notice /\ Event(t, e).type \notin {"init", "update"}
  BY DEF Event, Notice
<1>2. bus' \in Seq(Notice) /\ Elems(bus') = Elems(bus) \cup {Event(t, e)}
  BY <1>1, AppendElems DEF QueuesOK
<1>3. Notices' = Notices \cup {Event(t, e)}
  BY <1>2 DEF Notices
<1>4. InitSound' /\ UpdateSound'
  BY <1>1, <1>3 DEF EventsSound, InitSound, UpdateSound, Alive
<1>5. LoaderSound' /\ AnswersSound'
  BY <1>3 DEF EventsSound, LoaderSound, AnswersSound, Alive
<1>6. PhaseSound'
  BY <1>1, <1>2 DEF EventsSound, PhaseSound
<1> QED
  BY <1>2, <1>4, <1>5, <1>6 DEF EventsSound

LEMMA StoredKept ==
  ASSUME StoredOrUnderWay, UNCHANGED <<updater, left>>, Playing \subseteq Playing',
         \A c \in Character : db'[c] # Deleted => db'[c] = db[c]
  PROVE  StoredOrUnderWay'
<1> SUFFICES ASSUME NEW c \in Character, db'[c] # Deleted, c \notin Playing'
             PROVE  \/ db'[c] = left'[c] /\ \A i \in DOMAIN updater' : c \notin Ids(updater'[i])
                    \/ SaveUnderWay(c)'
  BY DEF StoredOrUnderWay
<1>1. SaveUnderWay(c) => SaveUnderWay(c)'
  BY DEF SaveUnderWay
<1> QED
  BY <1>1 DEF StoredOrUnderWay

\* A character that leaves the game is saved.
LEMMA StoredLeave ==
  ASSUME TypeOK, QueuesOK, StoredOrUnderWay, NEW e \in Entity, Persist(e), Leave(e),
         db' = db, Playing \subseteq Playing' \cup (IF InGame(e) THEN {ecs[e].presence} ELSE {})
  PROVE  /\ updater' \in Seq(SUBSET Save) /\ left' \in [Character -> Data]
         /\ StoredOrUnderWay'
<1>1. CASE ~InGame(e)
  <2>1. updater' = updater /\ left' = left
    BY <1>1 DEF Persist, Leave
  <2> QED
    BY <1>1, <2>1, StoredKept DEF QueuesOK
<1>2. CASE InGame(e)
  <2> DEFINE c == ecs[e].presence
             d == ecs[e].data
             batch == {[id |-> c, data |-> d]}
             n == Len(updater) + 1
  <2>1. c \in Character /\ d \in Data
    BY <1>2 DEF InGame, TypeOK
  <2>2. updater' = Append(updater, batch) /\ left' = [left EXCEPT ![c] = d]
    BY <1>2 DEF Persist, Saved, Leave
  <2>3. batch \in SUBSET Save
    BY <2>1 DEF Save
  <2>4. /\ updater' \in Seq(SUBSET Save) /\ DOMAIN updater' = DOMAIN updater \cup {n}
        /\ n \in Nat /\ updater'[n] = batch
        /\ \A i \in DOMAIN updater : updater'[i] = updater[i] /\ i < n
    BY <2>2, <2>3 DEF QueuesOK
  <2>5. left' \in [Character -> Data] /\ left'[c] = d
    BY <2>1, <2>2 DEF QueuesOK
  <2>6. StoredOrUnderWay'
    <3> SUFFICES ASSUME NEW a \in Character, db'[a] # Deleted, a \notin Playing'
                 PROVE  \/ db'[a] = left'[a]
                           /\ \A i \in DOMAIN updater' : a \notin Ids(updater'[i])
                        \/ SaveUnderWay(a)'
      BY DEF StoredOrUnderWay
    <3>1. CASE a = c
      <4>1. updater'[n] = {[id |-> a, data |-> left'[a]]}
        BY <2>4, <2>5, <3>1
      <4>2. \A j \in DOMAIN updater' : ~(j > n)
        BY <2>4 DEF QueuesOK
      <4> QED
        BY <2>4, <4>1, <4>2 DEF SaveUnderWay
    <3>2. CASE a # c
      <4>1. a \notin Playing /\ left'[a] = left[a]
        BY <1>2, <2>2, <2>5, <3>2 DEF QueuesOK
      <4>2. a \notin Ids(batch)
        BY <3>2 DEF Ids
      <4>3. CASE db[a] = left[a] /\ \A i \in DOMAIN updater : a \notin Ids(updater[i])
        BY <2>4, <4>1, <4>2, <4>3
      <4>4. CASE SaveUnderWay(a)
        <5>1. PICK i \in DOMAIN updater :
                /\ updater[i] = {[id |-> a, data |-> left[a]]}
                /\ \A j \in DOMAIN updater : j > i => a \notin Ids(updater[j])
          BY <4>4 DEF SaveUnderWay
        <5>2. updater'[i] = {[id |-> a, data |-> left'[a]]}
          BY <2>4, <4>1, <5>1
        <5>3. \A j \in DOMAIN updater' : j > i => a \notin Ids(updater'[j])
          <6> HIDE DEF batch, n
          <6> QED
            BY <2>4, <4>2, <5>1
        <5> QED
          BY <2>4, <5>2, <5>3 DEF SaveUnderWay
      <4> QED
        BY <4>1, <4>3, <4>4 DEF StoredOrUnderWay
    <3> QED
      BY <3>1, <3>2
  <2> QED
    BY <2>4, <2>5, <2>6
<1> QED
  BY <1>1, <1>2

-----------------------------------------------------------------------------
(* The initial state, and the steps of the clients. *)

LEMMA InitInv == Init => IInv
<1> SUFFICES ASSUME Init PROVE IInv
  OBVIOUS
<1>1. \A e \in Entity : ecs[e] = Blank /\ pending[e] = None
  BY DEF Init
<1>2. db \in [Character -> Data] /\ revision \in [Character -> 0..MaxRevision]
  BY SessionConstants DEF Init, Data
<1>3. TypeOK
  BY <1>1, <1>2 DEF Init, TypeOK, Blank, Clients
<1>4. QueuesOK
  BY <1>2 DEF Init, QueuesOK
<1>5. SentOK
  <2>1. Quiet \in Sent /\ Quiet.screen = <<>>
    BY DEF Quiet, Sent
  <2> QED
    BY <2>1, EmptyElems DEF Init, SentOK
<1>6. Owned /\ AccountPaired
  BY <1>1 DEF Init, Owned, AccountPaired, Blank
<1>7. EventsSound
  BY EmptyElems DEF Init, EventsSound, InitSound, UpdateSound, LoaderSound, AnswersSound,
                    PhaseSound, Notices
<1>8. StoredOrUnderWay
  BY DEF Init, StoredOrUnderWay
<1> QED
  BY <1>3, <1>4, <1>5, <1>6, <1>7, <1>8 DEF IInv

\* What a client does concerns its messages only.
LEMMA NetInv ==
  ASSUME IInv, UNCHANGED <<server, storage, history>>, SentOK'
  PROVE  IInv'
<1> USE DEF IInv, server, storage, history
<1>1. TypeOK' /\ QueuesOK'
  BY DEF TypeOK, QueuesOK, Clients
<1>2. Owned' /\ AccountPaired'
  BY DEF Owned, AccountPaired
<1>3. EventsSound'
  BY DEF EventsSound, InitSound, UpdateSound, LoaderSound, AnswersSound, PhaseSound,
         Notices, Alive
<1>4. StoredOrUnderWay'
  BY DEF StoredOrUnderWay, SaveUnderWay, Playing, InGame
<1> QED
  BY <1>1, <1>2, <1>3, <1>4

\* A flag of what a client sent is set or cleared.
LEMMA FlagSent ==
  ASSUME SentOK, NEW k \in Connection, NEW b \in BOOLEAN,
         \/ up' = up
         \/ up' = [up EXCEPT ![k].register = b]
         \/ up' = [up EXCEPT ![k].exit = b]
         \/ up' = [up EXCEPT ![k].terminate = b]
         \/ up' = [up EXCEPT ![k] = Quiet]
  PROVE  SentOK'
<1>1. Quiet \in Sent /\ Elems(Quiet.screen) = {}
  BY EmptyElems DEF Quiet, Sent
<1>2. up' \in [Connection -> Sent]
  BY ZenonT(60), <1>1 DEF SentOK, Sent
<1>3. ASSUME NEW l \in Connection
      PROVE  up'[l].screen = up[l].screen \/ up'[l] = Quiet
  <2>1. up[l] \in Sent /\ DOMAIN up = Connection
    BY DEF SentOK
  <2>2. up'[l] \in {up[l], Quiet, [up[l] EXCEPT !.register = b], [up[l] EXCEPT !.exit = b],
                    [up[l] EXCEPT !.terminate = b]}
    BY <2>1
  <2> QED
    BY <2>1, <2>2 DEF Sent
<1> QED
  BY <1>1, <1>2, <1>3 DEF SentOK

\* A message of the character screen is sent.
LEMMA ScreenSent ==
  ASSUME SentOK, NEW k \in Connection, NEW c \in Character, OwnerOf[c] = AccountOf[k],
         NEW t \in {"play", "delete"},
         up' = [up EXCEPT ![k].screen = Append(@, [type |-> t, char |-> c])]
  PROVE  SentOK'
<1> DEFINE m == [type |-> t, char |-> c]
<1>1. up[k] \in Sent /\ up[k].screen \in Seq(Message) /\ m \in Message
  BY DEF SentOK, Sent, Message
<1>2. /\ Append(up[k].screen, m) \in Seq(Message)
      /\ Elems(Append(up[k].screen, m)) = Elems(up[k].screen) \cup {m}
  BY <1>1, AppendElems
<1>3. up' \in [Connection -> Sent]
  BY <1>1, <1>2 DEF SentOK, Sent
<1>4. /\ up'[k].screen = Append(up[k].screen, m)
      /\ \A l \in Connection : l # k => up'[l] = up[l]
  BY <1>1 DEF SentOK, Sent
<1> QED
  BY <1>2, <1>3, <1>4 DEF SentOK

LEMMA ClientInv ==
  ASSUME IInv, ClientStep
  PROVE  IInv'
<1>1. PICK k \in Connection :
        \/ Register(k) \/ RequestExit(k) \/ Quit(k) \/ Lose(k)
        \/ \E c \in Character : RequestCharacter(k, c) \/ DeleteCharacter(k, c)
        \/ \E m \in down[k] : Hear(k, m)
  BY DEF ClientStep
<1>2. UNCHANGED <<server, storage, history>>
  BY <1>1 DEF Register, RequestExit, Quit, Lose, RequestCharacter, DeleteCharacter, Hear
<1>3. SentOK'
  <2>1. CASE Register(k) \/ RequestExit(k)
    BY <2>1, FlagSent DEF Register, RequestExit, IInv
  <2>2. CASE Quit(k)
    <3>1. (client[k] \in {"screen", "ingame"}) \in BOOLEAN
      OBVIOUS
    <3> QED
      BY <2>2, <3>1, FlagSent DEF Quit, IInv
  <2>3. CASE Lose(k)
    BY <2>3, FlagSent DEF Lose, IInv
  <2>4. CASE \E c \in Character : RequestCharacter(k, c) \/ DeleteCharacter(k, c)
    BY <2>4, ScreenSent DEF RequestCharacter, DeleteCharacter, IInv
  <2>5. CASE \E m \in down[k] : Hear(k, m)
    <3>1. PICK m : up' = [up EXCEPT ![k].terminate = m = "kicked"]
      BY <2>5 DEF Hear
    <3>2. (m = "kicked") \in BOOLEAN
      OBVIOUS
    <3> QED
      BY <3>1, <3>2, FlagSent DEF IInv
  <2> QED
    BY <1>1, <2>1, <2>2, <2>3, <2>4, <2>5
<1> QED
  BY <1>2, <1>3, NetInv

-----------------------------------------------------------------------------
(* The systems that read the streams. *)

\* A step that changes neither entities nor queues.
LEMMA QuietSound ==
  ASSUME IInv, UNCHANGED <<phase, ecs, bus, events, loader, answers>>
  PROVE  EventsSound'
<1>1. \A e : Kept(e)
  BY DEF Kept
<1> QED
  BY <1>1, SoundKept DEF IInv, Handled

LEMMA QuietStored ==
  ASSUME IInv, UNCHANGED <<ecs, updater, db, left>>
  PROVE  StoredOrUnderWay'
<1>1. Playing' = Playing
  BY DEF Playing, InGame
<1> QED
  BY <1>1, StoredKept DEF IInv

LEMMA ConnectInv ==
  ASSUME IInv, NEW k \in Connection, Connect(k)
  PROVE  IInv'
<1> DEFINE n == NewEntity
<1>1. /\ n \in Entity /\ ecs[n] = Blank /\ pending[n] = None
      /\ \A x \in Notices \cup Elems(loader) \cup Elems(answers) : x.entity # n
  BY FreshEntity DEF Connect, IInv
<1> HIDE DEF n
<1>2. ecs' = [ecs EXCEPT ![n] = [Blank EXCEPT !.client = k]]
  BY DEF Connect, n
<1>3. /\ ecs'[n].client = k /\ ecs'[n].player = None /\ ecs'[n].presence = None
      /\ ecs'[n].data = None
      /\ \A e \in Entity : e # n => ecs'[e] = ecs[e]
  BY <1>1, <1>2 DEF IInv, TypeOK, Blank
<1>4. TypeOK'
  <2>1. k # None /\ k \notin {ecs[e].client : e \in Entity}
    BY SessionConstants DEF Connect
  <2>2. ecs' \in [Entity -> [client: Connection \cup {None}, player: Account \cup {None},
                             presence: Character \cup {None}, data: Data \cup {None}]]
    BY <1>1, <1>2 DEF IInv, TypeOK, Blank
  <2>3. \A e \in Entity :
       /\ ecs'[e] # Blank \/ pending'[e] # None => ecs'[e].client # None
       /\ ecs'[e].presence # None => ecs'[e].player # None
       /\ ecs'[e].data # None => ecs'[e].presence # None
    BY <1>3, <2>1 DEF IInv, TypeOK, Connect
  <2>4. \A e, f \in Clients' : ecs'[e].client = ecs'[f].client => e = f
    BY <1>3, <2>1 DEF IInv, TypeOK, Clients
  <2> QED
    BY <2>2, <2>3, <2>4 DEF IInv, TypeOK, Connect, storage
<1>5. QueuesOK'
  BY DEF IInv, QueuesOK, Connect, storage, history
<1>6. SentOK'
  BY FlagSent DEF IInv, Connect
<1>7. Owned'
  BY <1>1, <1>3 DEF IInv, Owned, Connect
<1>8. AccountPaired'
  <2>1. \A e \in Entity : ecs'[e].player = ecs[e].player
    BY <1>1, <1>3 DEF Blank
  <2> QED
    BY <2>1 DEF IInv, AccountPaired, Connect
<1>9. EventsSound'
  <2>1. \A x \in Notices \cup Elems(loader) \cup Elems(answers) : Kept(x.entity)
    <3> SUFFICES ASSUME NEW x \in Notices \cup Elems(loader) \cup Elems(answers)
                 PROVE  Kept(x.entity)
      OBVIOUS
    <3>1. x.entity \in Entity /\ x.entity # n
      BY <1>1, NoticesTyped DEF IInv, Notice, Request, Answer
    <3> QED
      BY <1>3, <3>1 DEF Kept
  <2> QED
    BY <2>1, SoundKept DEF IInv, Connect, storage, Handled
<1>10. StoredOrUnderWay'
  <2>1. Playing \subseteq Playing'
    BY <1>1, <1>3 DEF Playing, InGame, Blank
  <2> QED
    BY <2>1, StoredKept DEF IInv, Connect, storage, history
<1> QED
  BY <1>4, <1>5, <1>6, <1>7, <1>8, <1>9, <1>10 DEF IInv

\* Steps of the message systems that leave the entities and the tables alone.
LEMMA ReadingTypes ==
  ASSUME IInv, UNCHANGED <<phase, ecs, accounts, db>>,
         pending' \in [Entity -> Account \cup {None}],
         \A e \in Entity : pending'[e] # None => ecs[e].client # None,
         terminated' \subseteq Connection
  PROVE  TypeOK' /\ AccountPaired'
BY DEF IInv, TypeOK, AccountPaired, Clients

LEMMA ReadRegisterInv ==
  ASSUME IInv, NEW e \in Entity, ReadRegister(e)
  PROVE  IInv'
<1> DEFINE k == ecs[e].client
<1>1. k \in Connection /\ AccountOf[k] \in Account
  BY SessionConstants DEF ReadRegister, Reading, IInv, TypeOK
<1>2. pending' = [pending EXCEPT ![e] = AccountOf[k]]
  BY DEF ReadRegister
<1>3. UNCHANGED <<phase, ecs, accounts, terminated, bus, events, loader, answers, updater,
                  db, history>>
  BY DEF ReadRegister, storage
<1>4. TypeOK' /\ AccountPaired'
  <2>1. pending' \in [Entity -> Account \cup {None}]
    BY <1>1, <1>2 DEF IInv, TypeOK
  <2>2. \A f \in Entity : pending'[f] # None => ecs[f].client # None
    BY <1>1, <1>2, SessionConstants DEF IInv, TypeOK
  <2> QED
    BY <1>3, <2>1, <2>2, ReadingTypes DEF IInv, TypeOK
<1>5. QueuesOK'
  BY <1>3 DEF IInv, QueuesOK, history
<1>6. SentOK'
  BY <1>1, FlagSent DEF ReadRegister, IInv
<1>7. Owned'
  BY <1>2, <1>3 DEF IInv, Owned, TypeOK
<1>8. EventsSound' /\ StoredOrUnderWay'
  BY <1>3, QuietSound, QuietStored DEF history
<1> QED
  BY <1>4, <1>5, <1>6, <1>7, <1>8 DEF IInv

\* The account is entered, and the player with it unless its name is refused.
LEMMA FinishLoginInv ==
  ASSUME IInv, NEW e \in Entity, FinishLogin(e)
  PROVE  IInv'
<1> DEFINE a == pending[e]
<1>1. a # None /\ a \in Account /\ ecs[e].client \in Connection /\ a = AccountOf[ecs[e].client]
  BY DEF FinishLogin, Reading, IInv, TypeOK, Owned
<1>2. /\ pending' = [pending EXCEPT ![e] = None]
      /\ UNCHANGED <<phase, terminated, bus, events, crashed, storage, client, up, history>>
  BY DEF FinishLogin
<1>3. \/ accounts' = accounts /\ ecs' = ecs
      \/ a \in InvalidName /\ accounts' = accounts \cup {a} /\ ecs' = ecs
      \/ /\ a \notin InvalidName /\ a \notin accounts /\ accounts' = accounts \cup {a}
         /\ ecs[e].player = None /\ ecs' = [ecs EXCEPT ![e].player = a]
  <2>1. CASE UNCHANGED <<accounts, ecs>>
    BY <2>1
  <2>2. CASE CanLogin(a) /\ accounts' = accounts \cup {a} /\ a \in InvalidName
    BY <2>2 DEF FinishLogin
  <2>3. CASE CanLogin(a) /\ accounts' = accounts \cup {a} /\ a \notin InvalidName
    <3>1. ecs[e].player # None => ecs[e].player = a /\ a \in accounts
      BY <1>1 DEF IInv, Owned, AccountPaired
    <3> QED
      BY <2>3, <3>1 DEF FinishLogin, CanLogin
  <2> QED
    BY <2>1, <2>2, <2>3 DEF FinishLogin
<1>4. ecs' \in [Entity -> [client: Connection \cup {None}, player: Account \cup {None},
                           presence: Character \cup {None}, data: Data \cup {None}]]
  BY <1>1, <1>3 DEF IInv, TypeOK
<1>5. \A f \in Entity :
        /\ ecs'[f].client = ecs[f].client /\ ecs'[f].presence = ecs[f].presence
        /\ ecs'[f].data = ecs[f].data
        /\ \/ ecs'[f].player = ecs[f].player
           \/ f = e /\ ecs[f].player = None /\ ecs'[f].player = a /\ a \notin InvalidName
  <2>1. CASE ecs' = ecs
    BY <2>1
  <2>2. CASE a \notin InvalidName /\ ecs[e].player = None /\ ecs' = [ecs EXCEPT ![e].player = a]
    <3> HIDE DEF a
    <3>1. \A f \in Entity : f # e => ecs'[f] = ecs[f]
      BY <2>2 DEF IInv, TypeOK
    <3>2. ecs'[e] = [ecs[e] EXCEPT !.player = a]
      BY <2>2 DEF IInv, TypeOK
    <3>3. /\ ecs'[e].client = ecs[e].client /\ ecs'[e].presence = ecs[e].presence
          /\ ecs'[e].data = ecs[e].data /\ ecs'[e].player = a
      BY <3>2 DEF IInv, TypeOK
    <3> QED
      BY <2>2, <3>1, <3>3
  <2> QED
    BY <1>3, <2>1, <2>2
<1>6. pending' \in [Entity -> Account \cup {None}]
      /\ \A f \in Entity : pending'[f] # None => pending'[f] = pending[f]
  BY <1>2 DEF IInv, TypeOK
<1>7. TypeOK'
  <2>1. \A f \in Entity :
       /\ ecs'[f] # Blank \/ pending'[f] # None => ecs'[f].client # None
       /\ ecs'[f].presence # None => ecs'[f].player # None
       /\ ecs'[f].data # None => ecs'[f].presence # None
    <3>1. \A f \in Entity : f # e => ecs'[f] = ecs[f]
      BY <1>3 DEF IInv, TypeOK
    <3> QED
      BY <1>1, <1>5, <1>6, <3>1, SessionConstants DEF IInv, TypeOK
  <2>2. \A f, g \in Clients' : ecs'[f].client = ecs'[g].client => f = g
    BY <1>5 DEF IInv, TypeOK, Clients
  <2>3. accounts' \subseteq Account
    BY <1>1, <1>3 DEF IInv, TypeOK
  <2> QED
    BY <1>2, <1>4, <1>6, <2>1, <2>2, <2>3 DEF IInv, TypeOK, storage
<1>8. QueuesOK' /\ SentOK'
  BY <1>1, <1>2, FlagSent DEF IInv, QueuesOK, storage, history
<1>9. Owned'
  BY <1>1, <1>5, <1>6 DEF IInv, Owned, TypeOK
<1>10. AccountPaired'
  <2>1. CASE ecs' = ecs /\ (accounts' = accounts \/ (a \in InvalidName /\ accounts' = accounts \cup {a}))
    BY <2>1 DEF IInv, AccountPaired
  <2>2. CASE /\ a \notin InvalidName /\ a \notin accounts /\ accounts' = accounts \cup {a}
             /\ ecs[e].player = None /\ ecs' = [ecs EXCEPT ![e].player = a]
    <3>1. /\ ecs'[e].player = a
          /\ \A f \in Entity : f # e => ecs'[f].player = ecs[f].player
      BY <2>2 DEF IInv, TypeOK
    <3>2. {ecs'[f].player : f \in Entity} \ {None}
            = ({ecs[f].player : f \in Entity} \ {None}) \cup {a}
      BY <1>1, <2>2, <3>1
    <3>3. \A f \in Entity : ecs[f].player # a
      BY <1>1, <2>2 DEF IInv, AccountPaired
    <3>4. \A f, g \in Entity : ecs'[f].player = ecs'[g].player /\ f # g => ecs'[f].player = None
      BY <3>1, <3>3 DEF IInv, AccountPaired
    <3>5. accounts' \ InvalidName = (accounts \ InvalidName) \cup {a}
      BY <2>2
    <3> QED
      BY <3>2, <3>4, <3>5 DEF IInv, AccountPaired
  <2> QED
    BY <1>3, <2>1, <2>2
<1>11. EventsSound'
  <2>1. \A x \in Notices \cup Elems(loader) \cup Elems(answers) : x.entity \in Entity
    BY NoticesTyped DEF IInv, Notice, Request, Answer
  <2>2. \A x \in Notices \cup Elems(loader) \cup Elems(answers) : Kept(x.entity)
    BY <1>5, <2>1 DEF Kept
  <2> QED
    BY <1>2, <2>2, SoundKept DEF IInv, storage, Handled
<1>12. StoredOrUnderWay'
  <2>1. Playing' = Playing
    BY <1>5 DEF Playing, InGame
  <2> QED
    BY <1>2, <2>1, StoredKept DEF IInv, storage, history
<1> QED
  BY <1>7, <1>8, <1>9, <1>10, <1>11, <1>12 DEF IInv

\* A step that only notices an exit or a disconnection.
LEMMA EmitInv ==
  ASSUME IInv, UNCHANGED <<phase, ecs, accounts, pending, events, loader, updater, db, history>>,
         answers' \in Seq(Answer), Elems(answers') \subseteq Elems(answers),
         terminated' \subseteq Connection, SentOK',
         NEW e \in Entity, NEW t \in {"exit", "disconnect"}, bus' = Append(bus, Event(t, e))
  PROVE  IInv'
<1>1. TypeOK' /\ AccountPaired'
  BY ReadingTypes DEF IInv, TypeOK
<1>2. bus' \in Seq(Notice) /\ EventsSound'
  BY EmitSound DEF IInv
<1>3. QueuesOK'
  BY <1>2 DEF IInv, QueuesOK, history
<1>4. Owned'
  BY DEF IInv, Owned
<1>5. StoredOrUnderWay'
  BY QuietStored DEF history
<1> QED
  BY <1>1, <1>2, <1>3, <1>4, <1>5 DEF IInv

\* A step that changes only what was sent, and who is to be disconnected.
LEMMA SentInv ==
  ASSUME IInv, UNCHANGED <<phase, ecs, accounts, pending, terminated, bus, events, storage,
                           history>>,
         SentOK'
  PROVE  IInv'
<1>1. TypeOK' /\ AccountPaired'
  BY ReadingTypes DEF IInv, TypeOK, storage
<1>2. QueuesOK' /\ Owned'
  BY DEF IInv, QueuesOK, Owned, storage, history
<1>3. EventsSound' /\ StoredOrUnderWay'
  BY QuietSound, QuietStored DEF storage, history
<1> QED
  BY <1>1, <1>2, <1>3 DEF IInv

LEMMA ReadInGameInv ==
  ASSUME IInv, NEW e \in Entity, ReadInGame(e)
  PROVE  IInv'
<1>1. ecs[e].client \in Connection
  BY DEF ReadInGame, Reading, IInv, TypeOK
<1>2. SentOK'
  BY <1>1, FlagSent DEF ReadInGame, IInv
<1>3. CASE UNCHANGED bus
  BY <1>2, <1>3, SentInv DEF ReadInGame
<1>4. CASE bus' = Append(bus, Event("exit", e))
  BY <1>2, <1>4, EmitInv DEF ReadInGame, storage, IInv, QueuesOK, TypeOK
<1> QED
  BY <1>3, <1>4 DEF ReadInGame, Emit

LEMMA ReadGeneralInv ==
  ASSUME IInv, NEW e \in Entity, ReadGeneral(e)
  PROVE  IInv'
<1>1. ecs[e].client \in Connection
  BY DEF ReadGeneral, Reading, IInv, TypeOK
<1>2. SentOK'
  BY <1>1, FlagSent DEF ReadGeneral, IInv
<1> QED
  BY <1>1, <1>2, EmitInv DEF ReadGeneral, Emit, storage, IInv, QueuesOK, TypeOK

LEMMA PingKickInv ==
  ASSUME IInv, NEW e \in Entity, Ping(e) \/ Kick(e)
  PROVE  IInv'
<1>1. UNCHANGED <<phase, ecs, accounts, pending, terminated, events, storage, up, history>>
      /\ bus' = Append(bus, Event("disconnect", e))
  BY DEF Ping, Kick, Emit, net
<1>2. SentOK'
  BY <1>1 DEF IInv, SentOK
<1> QED
  BY <1>1, <1>2, EmitInv DEF storage, IInv, QueuesOK, TypeOK

\* A request for a character becomes an event and a request to the loader.
LEMMA ReadScreenInv ==
  ASSUME IInv, NEW e \in Entity, ReadScreen(e)
  PROVE  IInv'
<1> DEFINE k == ecs[e].client
           m == Head(up[k].screen)
           r == [entity |-> e, type |-> m.type, char |-> m.char]
           x == InitCharacterData(e, m.char)
<1>1. k \in Connection /\ up[k] \in Sent /\ up[k].screen \in Seq(Message) /\ up[k].screen # <<>>
  BY DEF ReadScreen, Reading, IInv, TypeOK, SentOK, Sent
<1>2. /\ m \in Message /\ Tail(up[k].screen) \in Seq(Message)
      /\ Elems(up[k].screen) = Elems(Tail(up[k].screen)) \cup {m}
  BY <1>1, TailElems
<1>3. m.char \in Character /\ m.type \in {"play", "delete"} /\ OwnerOf[m.char] = AccountOf[k]
  BY <1>1, <1>2 DEF Message, IInv, SentOK
<1>4. SentOK'
  <2>1. up' = [up EXCEPT ![k].screen = Tail(up[k].screen)]
    BY DEF ReadScreen
  <2>2. up' \in [Connection -> Sent]
    BY <1>1, <1>2, <2>1 DEF IInv, SentOK, Sent
  <2>3. /\ up'[k].screen = Tail(up[k].screen)
        /\ \A l \in Connection : l # k => up'[l] = up[l]
    BY <1>1, <2>1 DEF IInv, SentOK, Sent
  <2> QED
    BY SMTT(60), <1>2, <2>2, <2>3 DEF IInv, SentOK
<1>5. UNCHANGED <<phase, ecs, accounts, pending, terminated, events, crashed, answers,
                  updater, db, client, history>>
  BY DEF ReadScreen
<1>6. CASE UNCHANGED <<loader, bus>>
  BY <1>4, <1>5, <1>6, SentInv DEF storage
<1>7. CASE /\ ecs[e].player # None /\ loader' = Append(loader, r)
           /\ \/ m.type = "play" /\ ecs[e].presence = None /\ bus' = Append(bus, x)
              \/ m.type # "play" /\ bus' = bus
  <2>1. r \in Request /\ r.entity = e /\ r.type = m.type
    BY <1>3 DEF Request
  <2>2. x \in Notice /\ x.entity = e /\ x.type = "init" /\ x.char = m.char
    BY <1>3 DEF InitCharacterData, Event, Notice
  <2> HIDE DEF r, x, m, k
  <2>3. loader' \in Seq(Request) /\ Elems(loader') = Elems(loader) \cup {r}
    BY <1>7, <2>1, AppendElems DEF IInv, QueuesOK
  <2>4. /\ bus' \in Seq(Notice)
        /\ \/ bus' = bus /\ m.type # "play"
           \/ Elems(bus') = Elems(bus) \cup {x} /\ m.type = "play" /\ ecs[e].presence = None
    <3>1. bus \in Seq(Notice)
      BY DEF IInv, QueuesOK
    <3>2. Append(bus, x) \in Seq(Notice) /\ Elems(Append(bus, x)) = Elems(bus) \cup {x}
      BY <2>2, <3>1, AppendElems
    <3> QED
      BY <1>7, <3>1, <3>2
  <2>5. /\ Notices \subseteq Notices'
        /\ \/ Notices' = Notices /\ m.type # "play"
           \/ Notices' = Notices \cup {x} /\ m.type = "play" /\ ecs[e].presence = None
    BY <1>5, <2>4 DEF Notices
  <2>6. TypeOK' /\ AccountPaired'
    BY <1>5, ReadingTypes DEF IInv, TypeOK
  <2>7. QueuesOK' /\ Owned'
    BY <1>5, <2>3, <2>4 DEF IInv, QueuesOK, Owned, history
  <2>8. InitSound'
    <3>1. CASE Notices' = Notices
      BY <1>5, <3>1 DEF IInv, EventsSound, InitSound, Alive
    <3>2. CASE Notices' = Notices \cup {x} /\ ecs[e].presence = None
      <4>1. ecs[e].data = None /\ OwnerOf[x.char] = ecs[e].player
        BY <1>3, <1>7, <2>2, <3>2 DEF IInv, TypeOK, Owned, k
      <4>2. Alive(e) => \A y \in Notices : y.type = "update" => y.entity # e
        BY <3>2 DEF IInv, EventsSound, UpdateSound
      <4>3. \A z \in Notices' : z.type = "update" => z \in Notices
        BY <2>2, <3>2
      <4>4. ASSUME NEW z \in Notices', z.type = "init"
            PROVE  /\ z.char \in Character
                   /\ Alive(z.entity) => /\ ecs[z.entity].player # None
                                         /\ OwnerOf[z.char] = ecs[z.entity].player
                                         /\ ecs[z.entity].data = None
                                         /\ \A y \in Notices' : y.type = "update"
                                                                  => y.entity # z.entity
        <5>1. CASE z = x
          BY <1>3, <1>7, <2>2, <4>1, <4>2, <4>3, <5>1
        <5>2. CASE z \in Notices
          BY <4>3, <4>4, <5>2 DEF IInv, EventsSound, InitSound
        <5> QED
          BY <3>2, <5>1, <5>2
      <4> QED
        BY <1>5, <4>4 DEF InitSound, Alive
    <3> QED
      BY <2>5, <3>1, <3>2
  <2>9. UpdateSound'
    <3>1. \A z \in Notices' : z.type = "update" => z \in Notices
      BY <2>2, <2>5
    <3> QED
      BY <1>5, <3>1 DEF IInv, EventsSound, UpdateSound, Alive
  <2>10. LoaderSound'
    <3> SUFFICES ASSUME NEW q \in Elems(loader'), q.type = "play", Alive(q.entity)
                 PROVE  \/ ecs[q.entity].presence # None
                        \/ \E y \in Notices' : y.type = "init" /\ y.entity = q.entity
      BY <1>5 DEF LoaderSound, Alive
    <3>1. CASE q \in Elems(loader)
      BY <2>5, <3>1 DEF IInv, EventsSound, LoaderSound
    <3>2. CASE q = r
      BY <2>1, <2>2, <2>5, <3>2
    <3> QED
      BY <2>3, <3>1, <3>2
  <2>11. AnswersSound' /\ PhaseSound'
    BY <1>5 DEF IInv, EventsSound, AnswersSound, PhaseSound, Alive, ReadScreen, Reading
  <2>12. StoredOrUnderWay'
    BY SMTT(60), <1>5, QuietStored DEF history
  <2> QED
    BY <1>4, <2>6, <2>7, <2>8, <2>9, <2>10, <2>11, <2>12 DEF IInv, EventsSound
<1>8. \/ UNCHANGED <<loader, bus>>
      \/ /\ ecs[e].player # None /\ loader' = Append(loader, r)
         /\ \/ m.type = "play" /\ ecs[e].presence = None /\ bus' = Append(bus, x)
            \/ m.type # "play" /\ bus' = bus
  <2>1. CASE ecs[e].player = None
    BY <2>1 DEF ReadScreen
  <2>2. CASE ecs[e].player # None /\ m.type = "play" /\ ecs[e].presence # None
    BY SMTT(60), <2>2 DEF ReadScreen
  <2>3. CASE ecs[e].player # None /\ ~(m.type = "play" /\ ecs[e].presence # None)
    BY <2>3 DEF ReadScreen, Emit
  <2> QED
    BY <2>1, <2>2, <2>3
<1> QED
  BY <1>6, <1>7, <1>8

\* The data of a character in the game changes.
LEMMA PlayInv ==
  ASSUME IInv, NEW e \in Entity, Play(e)
  PROVE  IInv'
<1> DEFINE d == ecs[e].data
           d2 == [d EXCEPT !.rev = revision[d.char] + 1]
<1>1. /\ d \in Data /\ d # None /\ ecs[e].presence # None /\ ecs[e].client # None
      /\ d.char \in Character /\ revision[d.char] \in 0..MaxRevision
  BY DEF Play, InGame, IInv, TypeOK, QueuesOK, Data, Blank
<1>2. d2 \in Data /\ revision[d.char] + 1 \in 0..MaxRevision
  BY <1>1, SessionConstants DEF Play, Data
<1>3. /\ ecs' = [ecs EXCEPT ![e].data = d2]
      /\ revision' = [revision EXCEPT ![d.char] = @ + 1]
      /\ UNCHANGED <<phase, accounts, pending, terminated, bus, events, storage, net, left>>
  BY <1>1 DEF Play, IInv, TypeOK
<1> HIDE DEF d, d2
<1>4. /\ \A f \in Entity : f # e => ecs'[f] = ecs[f]
      /\ ecs'[e] = [ecs[e] EXCEPT !.data = d2]
  BY <1>3 DEF IInv, TypeOK
<1>5. \A f \in Entity :
        /\ ecs'[f].client = ecs[f].client /\ ecs'[f].presence = ecs[f].presence
        /\ ecs'[f].player = ecs[f].player /\ (f = e \/ ecs'[f].data = ecs[f].data)
  BY <1>4 DEF IInv, TypeOK
<1>6. ecs'[e].data = d2 /\ d2 # None
  BY <1>2, <1>4, SessionConstants DEF IInv, TypeOK, Data
<1>7. TypeOK'
  <2>1. ecs' \in [Entity -> [client: Connection \cup {None}, player: Account \cup {None},
                             presence: Character \cup {None}, data: Data \cup {None}]]
    BY <1>2, <1>3 DEF IInv, TypeOK
  <2>2. \A f \in Entity :
       /\ ecs'[f] # Blank \/ pending'[f] # None => ecs'[f].client # None
       /\ ecs'[f].presence # None => ecs'[f].player # None
       /\ ecs'[f].data # None => ecs'[f].presence # None
    BY <1>1, <1>3, <1>4, <1>5 DEF IInv, TypeOK
  <2>3. \A f, g \in Clients' : ecs'[f].client = ecs'[g].client => f = g
    BY <1>5 DEF IInv, TypeOK, Clients
  <2> QED
    BY <1>3, <2>1, <2>2, <2>3 DEF IInv, TypeOK, storage
<1>8. QueuesOK'
  BY <1>1, <1>2, <1>3 DEF IInv, QueuesOK, storage
<1>9. SentOK' /\ Owned' /\ AccountPaired'
  BY <1>3, <1>5 DEF IInv, SentOK, Owned, AccountPaired, net
<1>10. EventsSound'
  <2>1. \A x \in Notices \cup Elems(loader) \cup Elems(answers) : x.entity \in Entity
    BY NoticesTyped DEF IInv, Notice, Request, Answer
  <2>2. \A x \in Notices \cup Elems(loader) \cup Elems(answers) : Kept(x.entity)
    BY <1>1, <1>5, <2>1 DEF Kept, d
  <2> QED
    BY <1>3, <2>2, SoundKept DEF IInv, storage, Handled
<1>11. StoredOrUnderWay'
  <2>1. \A f \in Entity : InGame(f) => InGame(f)' /\ ecs'[f].presence = ecs[f].presence
    BY <1>5, <1>6 DEF InGame
  <2>2. Playing \subseteq Playing'
    BY <2>1 DEF Playing
  <2> QED
    BY <1>3, <2>2, StoredKept DEF IInv, storage
<1> QED
  BY <1>7, <1>8, <1>9, <1>10, <1>11 DEF IInv

\* A batch of the characters in the game says nothing of the others.
LEMMA SaveAllInv ==
  ASSUME IInv, SaveAll
  PROVE  IInv'
<1> DEFINE batch == {[id |-> ecs[e].presence, data |-> ecs[e].data] :
                       e \in {f \in Entity : InGame(f)}}
           n == Len(updater) + 1
<1>1. batch \in SUBSET Save /\ Ids(batch) \subseteq Playing
  BY DEF IInv, TypeOK, InGame, Save, Ids, Playing
<1>2. updater' = Append(updater, batch) /\ UNCHANGED <<server, loader, answers, db, net, history>>
  BY DEF SaveAll
<1> HIDE DEF batch
<1>3. /\ updater' \in Seq(SUBSET Save) /\ DOMAIN updater' = DOMAIN updater \cup {n}
      /\ updater'[n] = batch /\ \A i \in DOMAIN updater : updater'[i] = updater[i]
  BY <1>1, <1>2 DEF IInv, QueuesOK
<1>4. TypeOK' /\ AccountPaired'
  BY <1>2, ReadingTypes DEF IInv, TypeOK, server
<1>5. QueuesOK' /\ SentOK' /\ Owned'
  BY <1>2, <1>3 DEF IInv, QueuesOK, SentOK, Owned, server, net, history
<1>6. EventsSound'
  BY <1>2, QuietSound DEF server
<1>7. StoredOrUnderWay'
  <2> HIDE DEF n
  <2> SUFFICES ASSUME NEW c \in Character, db[c] # Deleted, c \notin Playing
               PROVE  \/ db[c] = left[c] /\ \A i \in DOMAIN updater' : c \notin Ids(updater'[i])
                      \/ SaveUnderWay(c)'
    BY <1>2 DEF StoredOrUnderWay, Playing, InGame, server, history
  <2>1. c \notin Ids(batch)
    BY <1>1
  <2>2. SaveUnderWay(c) => SaveUnderWay(c)'
    BY <1>2, <1>3, <2>1 DEF SaveUnderWay, history
  <2> QED
    BY <1>3, <2>1, <2>2 DEF IInv, StoredOrUnderWay
<1> QED
  BY <1>4, <1>5, <1>6, <1>7 DEF IInv

\* The parts of the tick follow each other.
LEMMA PhaseInv ==
  ASSUME IInv, StartTick \/ EndMessages \/ EndTick
  PROVE  IInv'
<1>1. UNCHANGED <<ecs, accounts, pending, terminated, storage, net, history>>
      /\ phase' \in {"clients", "messages", "events"}
  BY DEF StartTick, EndMessages, EndTick
<1>2. TypeOK' /\ SentOK' /\ Owned' /\ AccountPaired'
  <2>1. TypeOK'
    BY <1>1 DEF IInv, TypeOK, Clients, storage
  <2> QED
    BY <1>1, <2>1 DEF IInv, SentOK, Owned, AccountPaired, net
<1>3. QueuesOK'
  <2>1. \/ bus' = bus /\ events' = events
        \/ bus' = <<>> /\ events' = bus
    BY DEF StartTick, EndMessages, EndTick
  <2>2. bus' \in Seq(Notice) /\ events' \in Seq(Notice)
    <3>1. <<>> \in Seq(Notice)
      OBVIOUS
    <3> QED
      BY <2>1, <3>1 DEF IInv, QueuesOK
  <2> QED
    BY <1>1, <2>2 DEF IInv, QueuesOK, storage, history
<1>4. Notices' = Notices /\ PhaseSound'
  <2>1. CASE StartTick \/ EndTick
    BY <2>1 DEF IInv, EventsSound, PhaseSound, Notices, StartTick, EndTick, Settled
  <2>2. CASE EndMessages
    <3>1. events = <<>> /\ events' = bus /\ bus' = <<>> /\ phase' = "events"
      BY <2>2 DEF IInv, EventsSound, PhaseSound, EndMessages
    <3> QED
      BY <3>1, EmptyElems DEF PhaseSound, Notices
  <2> QED
    BY <2>1, <2>2
<1>5. EventsSound'
  BY <1>1, <1>4 DEF IInv, EventsSound, InitSound, UpdateSound, LoaderSound, AnswersSound,
                    Alive, storage
<1>6. StoredOrUnderWay'
  BY <1>1, QuietStored DEF storage, history
<1> QED
  BY <1>2, <1>3, <1>4, <1>5, <1>6 DEF IInv

-----------------------------------------------------------------------------
(* The events. *)

\* The event at the head.
LEMMA HeadNotice ==
  ASSUME IInv, NEW t, Handling(t)
  PROVE  /\ Head(events) \in Notice /\ Head(events) \in Notices /\ Head(events).type = t
         /\ Head(events).entity \in Entity /\ phase = "events"
         /\ events' \in Seq(Notice) /\ Elems(events) = Elems(events') \cup {Head(events)}
<1>1. /\ events \in Seq(Notice) /\ events # <<>> /\ Head(events).type = t
      /\ phase = "events" /\ events' = Tail(events)
  BY DEF IInv, QueuesOK, Handling
<1>2. /\ Head(events) \in Notice /\ Tail(events) \in Seq(Notice)
      /\ Elems(events) = Elems(Tail(events)) \cup {Head(events)}
  BY <1>1, TailElems
<1>3. Head(events).entity \in Entity
  BY <1>2 DEF Notice
<1>4. Head(events) \in Notices
  BY <1>2 DEF Notices
<1> QED
  BY <1>1, <1>2, <1>3, <1>4

\* A character is entered: one of the entity's own, which has no data yet.
LEMMA HandleInitInv ==
  ASSUME IInv, HandleInit
  PROVE  IInv'
<1> DEFINE x == Head(events)
           e == x.entity
<1>1. /\ x \in Notices /\ x.type = "init" /\ e \in Entity /\ events' \in Seq(Notice)
      /\ Elems(events) = Elems(events') \cup {x}
  BY HeadNotice DEF HandleInit
<1>2. UNCHANGED <<phase, accounts, pending, terminated, bus, storage, net, history>>
  BY DEF HandleInit
<1>3. \/ ecs' = ecs /\ ~Alive(e)
      \/ Alive(e) /\ ecs' = [ecs EXCEPT ![e].presence = x.char]
  BY DEF HandleInit, Alive
<1>4. /\ x.char \in Character
      /\ Alive(e) => /\ ecs[e].player # None /\ OwnerOf[x.char] = ecs[e].player
                     /\ ecs[e].data = None
  BY <1>1 DEF IInv, EventsSound, InitSound
<1> HIDE DEF x, e
<1>5. \A f \in Entity :
        /\ ecs'[f].client = ecs[f].client /\ ecs'[f].player = ecs[f].player
        /\ ecs'[f].data = ecs[f].data
        /\ (f = e /\ Alive(e) /\ ecs'[f].presence = x.char) \/ ecs'[f] = ecs[f]
  <2>1. CASE ecs' = ecs
    BY <2>1
  <2>2. CASE Alive(e) /\ ecs' = [ecs EXCEPT ![e].presence = x.char]
    <3>1. \A f \in Entity : f # e => ecs'[f] = ecs[f]
      BY <2>2 DEF IInv, TypeOK
    <3>2. ecs'[e] = [ecs[e] EXCEPT !.presence = x.char]
      BY <1>1, <2>2 DEF IInv, TypeOK
    <3>3. /\ ecs'[e].client = ecs[e].client /\ ecs'[e].player = ecs[e].player
          /\ ecs'[e].data = ecs[e].data /\ ecs'[e].presence = x.char
      BY <1>1, <3>2 DEF IInv, TypeOK
    <3> QED
      BY <2>2, <3>1, <3>3
  <2> QED
    BY <1>3, <2>1, <2>2
<1>6. ~Alive(e) \/ ecs'[e].presence # None
  BY <1>1, <1>3, <1>4, SessionConstants DEF IInv, TypeOK
<1>7. TypeOK'
  <2>1. ecs' \in [Entity -> [client: Connection \cup {None}, player: Account \cup {None},
                             presence: Character \cup {None}, data: Data \cup {None}]]
    BY SMTT(60), <1>1, <1>3, <1>4 DEF IInv, TypeOK
  <2>2. \A f \in Entity :
       /\ ecs'[f] # Blank \/ pending'[f] # None => ecs'[f].client # None
       /\ ecs'[f].presence # None => ecs'[f].player # None
       /\ ecs'[f].data # None => ecs'[f].presence # None
    BY <1>2, <1>4, <1>5 DEF IInv, TypeOK, Alive
  <2>3. \A f, g \in Clients' : ecs'[f].client = ecs'[g].client => f = g
    BY <1>5 DEF IInv, TypeOK, Clients
  <2> QED
    BY <1>2, <2>1, <2>2, <2>3 DEF IInv, TypeOK, storage
<1>8. QueuesOK' /\ SentOK'
  BY <1>1, <1>2 DEF IInv, QueuesOK, SentOK, storage, net, history
<1>9. Owned' /\ AccountPaired'
  BY <1>2, <1>4, <1>5 DEF IInv, Owned, AccountPaired
<1>10. EventsSound'
  <2>1. /\ Notices' \subseteq Notices
        /\ \A y \in Notices : y \in Notices' \/ y = x
    BY <1>1, <1>2 DEF Notices
  <2>2. \A y \in Notices \cup Elems(loader) \cup Elems(answers) : y.entity \in Entity
    BY NoticesTyped DEF IInv, Notice, Request, Answer
  <2>3. InitSound'
    BY <1>5, <2>1, <2>2 DEF IInv, EventsSound, InitSound, Alive
  <2>4. UpdateSound' /\ AnswersSound'
    BY <1>2, <1>5, <1>6, <2>1, <2>2 DEF IInv, EventsSound, UpdateSound, AnswersSound, Alive, storage
  <2>5. LoaderSound'
    <3> SUFFICES ASSUME NEW q \in Elems(loader), q.type = "play", Alive(q.entity)',
                        ecs'[q.entity].presence = None
                 PROVE  \E y \in Notices' : y.type = "init" /\ y.entity = q.entity
      BY <1>2 DEF LoaderSound, storage
    <3>1. q.entity \in Entity /\ q.entity # e /\ Alive(q.entity)
      BY <1>5, <1>6, <2>2 DEF Alive
    <3>2. ecs[q.entity].presence = None
      BY <1>5, <3>1
    <3>3. PICK y \in Notices : y.type = "init" /\ y.entity = q.entity
      BY <3>1, <3>2 DEF IInv, EventsSound, LoaderSound
    <3> QED
      BY <2>1, <3>1, <3>3 DEF e
  <2>6. PhaseSound'
    BY <1>2 DEF IInv, EventsSound, PhaseSound, HandleInit, Handling
  <2> QED
    BY <2>3, <2>4, <2>5, <2>6 DEF EventsSound
<1>11. StoredOrUnderWay'
  <2>1. \A f \in Entity : InGame(f) => InGame(f)' /\ ecs'[f].presence = ecs[f].presence
    BY <1>4, <1>5 DEF InGame
  <2>2. Playing \subseteq Playing'
    BY <2>1 DEF Playing
  <2> QED
    BY <1>2, <2>2, StoredKept DEF IInv, storage, history
<1> QED
  BY <1>7, <1>8, <1>9, <1>10, <1>11 DEF IInv

\* Data arrives for a character that was entered: the entity is still of the
\* same player, or gone.
LEMMA HandleUpdateInv ==
  ASSUME IInv, HandleUpdate
  PROVE  IInv'
<1> DEFINE x == Head(events)
           e == x.entity
<1>1. /\ x \in Notices /\ x.type = "update" /\ e \in Entity /\ events' \in Seq(Notice)
      /\ Elems(events) = Elems(events') \cup {x}
  BY HeadNotice DEF HandleUpdate
<1>2. UNCHANGED <<phase, accounts, pending, terminated, bus, storage, net, history>>
  BY DEF HandleUpdate
<1>3. /\ x.data \in Data
      /\ \/ ecs' = ecs
         \/ Alive(e) /\ ecs[e].presence # None /\ ecs' = [ecs EXCEPT ![e].data = x.data]
  BY <1>1 DEF HandleUpdate, HasUid, Alive, IInv, EventsSound, UpdateSound
<1> HIDE DEF x, e
<1>4. \A f \in Entity :
        /\ ecs'[f].client = ecs[f].client /\ ecs'[f].player = ecs[f].player
        /\ ecs'[f].presence = ecs[f].presence
        /\ \/ f = e /\ Alive(e) /\ ecs[e].presence # None /\ ecs'[f].data = x.data
           \/ ecs'[f] = ecs[f]
  <2>1. CASE ecs' = ecs
    BY <2>1
  <2>2. CASE Alive(e) /\ ecs[e].presence # None /\ ecs' = [ecs EXCEPT ![e].data = x.data]
    <3>1. \A f \in Entity : f # e => ecs'[f] = ecs[f]
      BY <2>2 DEF IInv, TypeOK
    <3>2. ecs'[e] = [ecs[e] EXCEPT !.data = x.data]
      BY <1>1, <2>2 DEF IInv, TypeOK
    <3>3. /\ ecs'[e].client = ecs[e].client /\ ecs'[e].player = ecs[e].player
          /\ ecs'[e].presence = ecs[e].presence /\ ecs'[e].data = x.data
      BY <1>1, <3>2 DEF IInv, TypeOK
    <3> QED
      BY <2>2, <3>1, <3>3
  <2> QED
    BY <1>3, <2>1, <2>2
<1>5. TypeOK'
  <2>1. ecs' \in [Entity -> [client: Connection \cup {None}, player: Account \cup {None},
                             presence: Character \cup {None}, data: Data \cup {None}]]
    BY SMTT(30), <1>1, <1>3 DEF IInv, TypeOK
  <2>2. \A f \in Entity :
       /\ ecs'[f] # Blank \/ pending'[f] # None => ecs'[f].client # None
       /\ ecs'[f].presence # None => ecs'[f].player # None
       /\ ecs'[f].data # None => ecs'[f].presence # None
    BY <1>2, <1>4 DEF IInv, TypeOK, Alive
  <2>3. \A f, g \in Clients' : ecs'[f].client = ecs'[g].client => f = g
    BY <1>4 DEF IInv, TypeOK, Clients
  <2> QED
    BY <1>2, <2>1, <2>2, <2>3 DEF IInv, TypeOK, storage
<1>6. QueuesOK' /\ SentOK'
  BY <1>1, <1>2 DEF IInv, QueuesOK, SentOK, storage, net, history
<1>7. Owned' /\ AccountPaired'
  BY <1>2, <1>4 DEF IInv, Owned, AccountPaired
<1>8. EventsSound'
  <2>1. /\ Notices' \subseteq Notices
        /\ \A y \in Notices : y \in Notices' \/ y = x
    BY <1>1, <1>2 DEF Notices
  <2>2. \A y \in Notices \cup Elems(loader) \cup Elems(answers) : y.entity \in Entity
    BY NoticesTyped DEF IInv, Notice, Request, Answer
  <2>3. InitSound'
    <3> SUFFICES ASSUME NEW y \in Notices', y.type = "init"
                 PROVE  /\ y.char \in Character
                        /\ Alive(y.entity)' =>
                             /\ ecs'[y.entity].player # None
                             /\ OwnerOf[y.char] = ecs'[y.entity].player
                             /\ ecs'[y.entity].data = None
                             /\ \A z \in Notices' : z.type = "update" => z.entity # y.entity
      BY DEF InitSound
    <3>1. y \in Notices /\ y.entity \in Entity
      BY <2>1, <2>2
    <3>2. Alive(y.entity)' => Alive(y.entity)
      BY <1>4, <3>1 DEF Alive
    <3>3. Alive(y.entity) => y.entity # e
      BY <1>1, <3>1 DEF IInv, EventsSound, InitSound, e
    <3> QED
      BY <1>4, <2>1, <3>1, <3>2, <3>3 DEF IInv, EventsSound, InitSound
  <2>4. UpdateSound' /\ AnswersSound'
    BY <1>2, <1>4, <2>1, <2>2 DEF IInv, EventsSound, UpdateSound, AnswersSound, Alive, storage
  <2>5. LoaderSound'
    <3> SUFFICES ASSUME NEW q \in Elems(loader), q.type = "play", Alive(q.entity)',
                        ecs'[q.entity].presence = None
                 PROVE  \E y \in Notices' : y.type = "init" /\ y.entity = q.entity
      BY <1>2 DEF LoaderSound, storage
    <3>1. q.entity \in Entity /\ Alive(q.entity) /\ ecs[q.entity].presence = None
      BY <1>4, <2>2 DEF Alive
    <3>2. PICK y \in Notices : y.type = "init" /\ y.entity = q.entity
      BY <3>1 DEF IInv, EventsSound, LoaderSound
    <3> QED
      BY <1>1, <2>1, <3>2
  <2>6. PhaseSound'
    BY <1>2 DEF IInv, EventsSound, PhaseSound, HandleUpdate, Handling
  <2> QED
    BY <2>3, <2>4, <2>5, <2>6 DEF EventsSound
<1>9. StoredOrUnderWay'
  <2>1. x.data # None
    BY <1>3, SessionConstants
  <2>2. \A f \in Entity : InGame(f) => InGame(f)' /\ ecs'[f].presence = ecs[f].presence
    BY <1>4, <2>1 DEF InGame
  <2>3. Playing \subseteq Playing'
    BY <2>2 DEF Playing
  <2> QED
    BY <1>2, <2>3, StoredKept DEF IInv, storage, history
<1> QED
  BY <1>5, <1>6, <1>7, <1>8, <1>9 DEF IInv

-----------------------------------------------------------------------------
(* The threads, and what the server takes from them. *)

\* After the events nothing is about to be entered.
LEMMA NothingEntered ==
  ASSUME IInv, Settled
  PROVE  \A x \in Notices : x.type # "init"
BY EmptyElems DEF IInv, EventsSound, PhaseSound, Settled, Notices

LEMMA LoaderInv ==
  ASSUME IInv, LoaderStep
  PROVE  IInv'
<1> DEFINE r == Head(loader)
<1>1. /\ r \in Request /\ loader' \in Seq(Request) /\ Elems(loader) = Elems(loader') \cup {r}
  BY TailElems DEF LoaderStep, IInv, QueuesOK
<1>2. UNCHANGED <<server, updater, net, history>>
  BY DEF LoaderStep
<1>3. \/ /\ r.type = "play" /\ db' = db
         /\ answers' = Append(answers, [entity |-> r.entity, data |-> db[r.char]])
      \/ /\ answers' = answers /\ db' = [db EXCEPT ![r.char] = Deleted]
  BY DEF LoaderStep
<1> HIDE DEF r
<1>4. r.char \in Character /\ r.entity \in Entity
  BY <1>1 DEF Request
<1>5. db' \in [Character -> Data \cup {Deleted}]
      /\ \A c \in Character : db'[c] # Deleted => db'[c] = db[c]
  BY <1>3, <1>4 DEF IInv, TypeOK
<1>6. /\ answers' \in Seq(Answer)
      /\ \A x \in Elems(answers') :
           x \in Elems(answers) \/ (x.entity = r.entity /\ r.type = "play")
  <2>1. CASE answers' = answers
    BY <2>1 DEF IInv, QueuesOK
  <2>2. CASE /\ r.type = "play"
             /\ answers' = Append(answers, [entity |-> r.entity, data |-> db[r.char]])
    <3>1. [entity |-> r.entity, data |-> db[r.char]] \in Answer /\ answers \in Seq(Answer)
      BY <1>4 DEF IInv, TypeOK, QueuesOK, Answer
    <3>2. /\ answers' \in Seq(Answer)
          /\ Elems(answers') = Elems(answers) \cup {[entity |-> r.entity, data |-> db[r.char]]}
      BY <2>2, <3>1, AppendElems
    <3> QED
      BY <2>2, <3>2
  <2> QED
    BY <1>3, <2>1, <2>2
<1>7. TypeOK' /\ SentOK' /\ Owned' /\ AccountPaired'
  <2>1. TypeOK'
    BY <1>2, <1>5 DEF IInv, TypeOK, Clients, server
  <2> QED
    BY <1>2, <2>1 DEF IInv, SentOK, Owned, AccountPaired, server, net
<1>8. QueuesOK'
  BY <1>1, <1>2, <1>6 DEF IInv, QueuesOK, server, history
<1>9. EventsSound'
  <2>1. Notices' = Notices /\ \A e : Alive(e)' = Alive(e)
    BY <1>2 DEF Notices, Alive, server
  <2>2. InitSound' /\ UpdateSound' /\ PhaseSound'
    BY <1>2, <2>1 DEF IInv, EventsSound, InitSound, UpdateSound, PhaseSound, server
  <2>3. LoaderSound'
    BY <1>1, <1>2, <2>1 DEF IInv, EventsSound, LoaderSound, server
  <2>4. r.type = "play" /\ Alive(r.entity) => ecs[r.entity].presence # None
    BY <1>1, NothingEntered DEF IInv, EventsSound, LoaderSound, LoaderStep
  <2>5. AnswersSound'
    BY <1>2, <1>6, <2>1, <2>4 DEF IInv, EventsSound, AnswersSound, server
  <2> QED
    BY <2>2, <2>3, <2>5 DEF EventsSound
<1>10. StoredOrUnderWay'
  <2>1. Playing' = Playing
    BY <1>2 DEF Playing, InGame, server
  <2> QED
    BY <1>2, <1>5, <2>1, StoredKept DEF IInv, history
<1> QED
  BY <1>7, <1>8, <1>9, <1>10 DEF IInv

LEMMA TakeAnswerInv ==
  ASSUME IInv, TakeAnswer
  PROVE  IInv'
<1> DEFINE a == Head(answers)
<1>1. /\ a \in Answer /\ answers' \in Seq(Answer) /\ Elems(answers) = Elems(answers') \cup {a}
  BY TailElems DEF TakeAnswer, IInv, QueuesOK
<1>2. UNCHANGED <<phase, ecs, accounts, pending, terminated, events, crashed,
                  loader, updater, db, client, up, history>>
  BY DEF TakeAnswer
<1>3. \/ a.data # Deleted /\ bus' = Append(bus, UpdateCharacterData(a.entity, a.data))
      \/ bus' = Append(bus, Event("exit", a.entity))
  BY DEF TakeAnswer, Emit
<1> HIDE DEF a
<1>4. a.entity \in Entity /\ a.data \in Data \cup {Deleted}
  BY <1>1 DEF Answer
<1>5. SentOK'
  BY <1>2 DEF IInv, SentOK
<1>6. CASE bus' = Append(bus, Event("exit", a.entity))
  BY <1>1, <1>2, <1>4, <1>5, <1>6, EmitInv DEF IInv, TypeOK
<1>7. CASE a.data # Deleted /\ bus' = Append(bus, UpdateCharacterData(a.entity, a.data))
  <2> DEFINE x == UpdateCharacterData(a.entity, a.data)
  <2>1. x \in Notice /\ x.type = "update" /\ x.entity = a.entity /\ x.data \in Data
    BY <1>4, <1>7 DEF UpdateCharacterData, Event, Notice
  <2>2. bus \in Seq(Notice) /\ bus' = Append(bus, x)
    BY <1>7 DEF IInv, QueuesOK
  <2> HIDE DEF x
  <2>3. bus' \in Seq(Notice) /\ Elems(bus') = Elems(bus) \cup {x}
    BY <2>1, <2>2, AppendElems
  <2>4. Notices' = Notices \cup {x} /\ \A e : Alive(e)' = Alive(e)
    BY <1>2, <2>3 DEF Notices, Alive
  <2>5. InitSound'
    BY <2>1, <2>4, NothingEntered DEF InitSound, TakeAnswer
  <2>6. Alive(a.entity) => ecs[a.entity].presence # None
    BY <1>1 DEF IInv, EventsSound, AnswersSound
  <2>7. UpdateSound'
    BY <1>2, <2>1, <2>4, <2>6 DEF IInv, EventsSound, UpdateSound
  <2>8. LoaderSound' /\ AnswersSound'
    BY <1>1, <1>2, <2>4 DEF IInv, EventsSound, LoaderSound, AnswersSound
  <2>9. PhaseSound'
    BY <1>2, <2>1, <2>3 DEF IInv, EventsSound, PhaseSound
  <2>10. TypeOK' /\ AccountPaired'
    BY <1>2, ReadingTypes DEF IInv, TypeOK
  <2>11. QueuesOK' /\ Owned'
    BY <1>1, <1>2, <2>3 DEF IInv, QueuesOK, Owned, history
  <2>12. StoredOrUnderWay'
    BY <1>2, QuietStored DEF history
  <2> QED
    BY <1>5, <2>5, <2>7, <2>8, <2>9, <2>10, <2>11, <2>12 DEF IInv, EventsSound
<1> QED
  BY <1>3, <1>6, <1>7

\* The updater takes a batch: the character it was the last save of is stored
\* by it, unless it was deleted; a batch that is rolled back holds no such save.
LEMMA UpdaterInv ==
  ASSUME IInv, UpdaterStep
  PROVE  IInv'
<1> DEFINE batch == Head(updater)
           stored == [c \in Character |->
                        IF \E s \in batch : s.id = c
                          THEN (CHOOSE s \in batch : s.id = c).data ELSE db[c]]
<1>1. /\ updater \in Seq(SUBSET Save) /\ updater # <<>> /\ updater' = Tail(updater)
      /\ UNCHANGED <<server, loader, answers, net, history>>
  BY DEF UpdaterStep, IInv, QueuesOK
<1>2. /\ updater' \in Seq(SUBSET Save) /\ batch \in SUBSET Save /\ batch = updater[1]
      /\ Len(updater) \in Nat \ {0} /\ DOMAIN updater = 1..Len(updater)
      /\ DOMAIN updater' = 1..(Len(updater) - 1)
      /\ \A i \in DOMAIN updater' : updater'[i] = updater[i + 1]
  BY <1>1
<1>3. \/ db' = db /\ \E s \in batch : db[s.id] = Deleted
      \/ db' = stored /\ \A s \in batch : db[s.id] # Deleted
  BY DEF UpdaterStep
<1> HIDE DEF batch
<1>4. \A c \in Character : (\E s \in batch : s.id = c)
        => (CHOOSE s \in batch : s.id = c) \in batch
  OBVIOUS
<1>5. stored \in [Character -> Data \cup {Deleted}]
  <2> SUFFICES ASSUME NEW c \in Character
               PROVE  (IF \E s \in batch : s.id = c
                         THEN (CHOOSE s \in batch : s.id = c).data ELSE db[c])
                        \in Data \cup {Deleted}
    OBVIOUS
  <2>1. CASE \E s \in batch : s.id = c
    BY <1>2, <1>4, <2>1 DEF Save
  <2>2. CASE ~\E s \in batch : s.id = c
    BY <2>2 DEF IInv, TypeOK
  <2> QED
    BY <2>1, <2>2
<1>6. TypeOK' /\ SentOK' /\ Owned' /\ AccountPaired'
  <2>1. db' \in [Character -> Data \cup {Deleted}]
    BY <1>3, <1>5 DEF IInv, TypeOK
  <2>2. TypeOK'
    BY <1>1, <2>1 DEF IInv, TypeOK, Clients, server
  <2> QED
    BY <1>1, <2>2 DEF IInv, SentOK, Owned, AccountPaired, server, net
<1>7. QueuesOK'
  BY <1>1, <1>2 DEF IInv, QueuesOK, server, history
<1>8. EventsSound'
  BY <1>1, QuietSound DEF server
<1>9. StoredOrUnderWay'
  <2> SUFFICES ASSUME NEW c \in Character, db'[c] # Deleted, c \notin Playing
               PROVE  \/ db'[c] = left[c] /\ \A i \in DOMAIN updater' : c \notin Ids(updater'[i])
                      \/ SaveUnderWay(c)'
    BY <1>1 DEF StoredOrUnderWay, Playing, InGame, server, history
  <2>1. db[c] # Deleted
    <3>1. CASE db' = db
      BY <3>1
    <3>2. CASE db' = stored /\ \A s \in batch : db[s.id] # Deleted
      BY <3>2
    <3> QED
      BY <1>3, <3>1, <3>2
  <2>2. c \notin Ids(batch) => db'[c] = db[c]
    BY <1>3 DEF Ids
  <2>3. CASE db[c] = left[c] /\ \A i \in DOMAIN updater : c \notin Ids(updater[i])
    BY <1>2, <2>2, <2>3
  <2>4. CASE SaveUnderWay(c)
    <3>1. PICK i \in DOMAIN updater :
            /\ updater[i] = {[id |-> c, data |-> left[c]]}
            /\ \A j \in DOMAIN updater : j > i => c \notin Ids(updater[j])
      BY <2>4 DEF SaveUnderWay
    <3>2. CASE i = 1
      <4>1. batch = {[id |-> c, data |-> left[c]]}
        BY <1>2, <3>1, <3>2
      <4>2. db' = stored
        BY <1>3, <2>1, <4>1
      <4>3. (CHOOSE s \in batch : s.id = c) = [id |-> c, data |-> left[c]]
        BY <4>1
      <4>4. db'[c] = left[c]
        BY <4>1, <4>2, <4>3
      <4>5. \A j \in DOMAIN updater' : c \notin Ids(updater'[j])
        BY <1>2, <3>1, <3>2
      <4> QED
        BY <4>4, <4>5
    <3>3. CASE i # 1
      <4>1. i - 1 \in DOMAIN updater' /\ updater'[i - 1] = {[id |-> c, data |-> left[c]]}
        BY <1>2, <3>1, <3>3
      <4>2. \A j \in DOMAIN updater' : j > i - 1 => c \notin Ids(updater'[j])
        BY <1>2, <3>1
      <4> QED
        BY <1>1, <4>1, <4>2 DEF SaveUnderWay, history
    <3> QED
      BY <3>2, <3>3
  <2> QED
    BY <2>1, <2>3, <2>4 DEF IInv, StoredOrUnderWay
<1> QED
  BY <1>6, <1>7, <1>8, <1>9 DEF IInv

-----------------------------------------------------------------------------
(* Leaving. *)

\* What an exit and a disconnection share: the entity e is blank, and if its
\* client stays, the client and its player are on the fresh entity n; nobody
\* moves if n is no entity.
LeftFor(e, n) ==
  /\ ecs' \in [Entity -> [client: Connection \cup {None}, player: Account \cup {None},
                          presence: Character \cup {None}, data: Data \cup {None}]]
  /\ ecs'[e] = Blank
  /\ \A f \in Entity \ {e} :
       \/ ecs'[f] = ecs[f]
       \/ /\ f = n /\ ecs[e].client # None /\ ecs[e].player # None
          /\ ecs'[f].client = ecs[e].client /\ ecs'[f].player = ecs[e].player
          /\ ecs'[f].presence = None /\ ecs'[f].data = None

LEMMA LeftInv ==
  ASSUME IInv, NEW e \in Entity, NEW n, n \in Free \/ n \notin Entity, LeftFor(e, n), Handled,
         UNCHANGED <<phase, bus, loader, answers, db, revision>>,
         accounts' \subseteq Account, terminated' \subseteq Connection, SentOK',
         Persist(e), Leave(e), pending' = [pending EXCEPT ![e] = None]
  PROVE  TypeOK' /\ QueuesOK' /\ Owned' /\ EventsSound' /\ StoredOrUnderWay'
<1>1. /\ ecs'[e].client = None /\ ecs'[e].player = None /\ ecs'[e].presence = None
      /\ ecs'[e].data = None /\ ecs'[e] = Blank
  BY DEF Blank, LeftFor
<1>2. n \in Entity =>
        /\ ecs[n].client = None /\ ecs[n].player = None
        /\ ecs[n].presence = None /\ ecs[n].data = None /\ ecs[n] = Blank
        /\ \A x \in Notices \cup Elems(loader) \cup Elems(answers) : x.entity # n
  BY DEF Free, Blank, Named, Notices, Elems
<1>3. n \in Entity => pending[n] = None
  BY <1>2 DEF IInv, TypeOK
<1>4. /\ pending' \in [Entity -> Account \cup {None}] /\ pending'[e] = None
      /\ \A f \in Entity \ {e} : pending'[f] = pending[f]
  BY DEF IInv, TypeOK
<1>5. \A f \in Entity \ {e} :
        \/ ecs'[f] = ecs[f]
        \/ /\ f = n /\ ecs[e].client # None /\ ecs[e].player # None
           /\ ecs'[f].client = ecs[e].client /\ ecs'[f].player = ecs[e].player
           /\ ecs'[f].presence = None /\ ecs'[f].data = None
  BY DEF LeftFor
<1>6. TypeOK'
  <2>1. ASSUME NEW f \in Entity
        PROVE  /\ ecs'[f] # Blank \/ pending'[f] # None => ecs'[f].client # None
               /\ ecs'[f].presence # None => ecs'[f].player # None
               /\ ecs'[f].data # None => ecs'[f].presence # None
    <3>1. CASE f = e
      BY <1>1, <1>4, <3>1
    <3>2. CASE f # e /\ ecs'[f] = ecs[f]
      BY <1>4, <3>2 DEF IInv, TypeOK
    <3>3. CASE f # e /\ ecs'[f] # ecs[f]
      BY <1>3, <1>4, <1>5, <3>3
    <3> QED
      BY <3>1, <3>2, <3>3
  <2>2. ASSUME NEW f \in Clients', NEW g \in Clients', ecs'[f].client = ecs'[g].client
        PROVE  f = g
    <3>1. f \in Entity \ {e} /\ g \in Entity \ {e} /\ ecs'[f].client # None
      BY <1>1, <2>2 DEF Clients
    <3>2. CASE ecs'[f] = ecs[f] /\ ecs'[g] = ecs[g]
      BY <2>2, <3>1, <3>2 DEF IInv, TypeOK, Clients
    <3>3. CASE ecs'[f] # ecs[f] /\ ecs'[g] = ecs[g]
      BY <1>5, <2>2, <3>1, <3>3 DEF IInv, TypeOK, Clients
    <3>4. CASE ecs'[f] = ecs[f] /\ ecs'[g] # ecs[g]
      BY <1>5, <2>2, <3>1, <3>4 DEF IInv, TypeOK, Clients
    <3>5. CASE ecs'[f] # ecs[f] /\ ecs'[g] # ecs[g]
      BY <1>5, <3>1, <3>5
    <3> QED
      BY <3>2, <3>3, <3>4, <3>5
  <2> QED
    BY <1>4, <2>1, <2>2 DEF IInv, TypeOK, LeftFor
<1>7. Owned'
  <2> SUFFICES ASSUME NEW f \in Entity
               PROVE  /\ ecs'[f].player # None =>
                           /\ ecs'[f].player = AccountOf[ecs'[f].client]
                           /\ ecs'[f].player \notin InvalidName
                      /\ pending'[f] # None => pending'[f] = AccountOf[ecs'[f].client]
                      /\ ecs'[f].presence # None => OwnerOf[ecs'[f].presence] = ecs'[f].player
    BY DEF Owned
  <2>1. CASE f = e
    BY <1>1, <1>4, <2>1
  <2>2. CASE f # e /\ ecs'[f] = ecs[f]
    BY <1>4, <2>2 DEF IInv, Owned
  <2>3. CASE f # e /\ ecs'[f] # ecs[f]
    BY <1>3, <1>4, <1>5, <2>3 DEF IInv, Owned
  <2> QED
    BY <2>1, <2>2, <2>3
<1>8. EventsSound'
  <2> SUFFICES ASSUME NEW x \in Notices \cup Elems(loader) \cup Elems(answers)
               PROVE  Kept(x.entity)
    BY SoundKept DEF IInv
  <2>1. x.entity \in Entity
    BY NoticesTyped DEF IInv, Notice, Request, Answer
  <2>2. x.entity # n
    BY <1>2, <2>1
  <2> QED
    BY <1>1, <1>5, <2>1, <2>2 DEF Kept
<1>9. /\ updater' \in Seq(SUBSET Save) /\ left' \in [Character -> Data]
      /\ StoredOrUnderWay'
  <2>1. ASSUME NEW f \in Entity, InGame(f), f # e
        PROVE  InGame(f)' /\ ecs'[f].presence = ecs[f].presence
    BY <1>2, <1>5, <2>1 DEF InGame
  <2>2. Playing \subseteq Playing' \cup (IF InGame(e) THEN {ecs[e].presence} ELSE {})
    BY <2>1 DEF Playing
  <2> QED
    BY <2>2, StoredLeave DEF IInv
<1>10. QueuesOK'
  <2>1. events' \in Seq(Notice)
    BY HandledNotices DEF IInv
  <2> QED
    BY <1>9, <2>1 DEF IInv, QueuesOK
<1> QED
  BY <1>6, <1>7, <1>8, <1>9, <1>10

LEMMA HandleExitInv ==
  ASSUME IInv, HandleExit
  PROVE  IInv'
<1> DEFINE e == Head(events).entity
           n == NewEntity
<1>1. e \in Entity /\ Handled
  BY HeadNotice DEF HandleExit, Handling, Handled
<1>2. /\ UNCHANGED <<phase, accounts, terminated, bus, crashed,
                     loader, answers, db, client, up, revision>>
      /\ Persist(e) /\ Leave(e) /\ pending' = [pending EXCEPT ![e] = None]
      /\ \/ /\ ecs[e].client # None /\ ecs[e].player # None /\ Free # {} /\ ecs' = Moved(e)
         \/ /\ ~(ecs[e].client # None /\ ecs[e].player # None)
            /\ ecs' = [ecs EXCEPT ![e] = Blank]
  BY DEF HandleExit
<1> HIDE DEF e
<1>3. SentOK'
  BY <1>2 DEF IInv, SentOK
<1>4. ecs[e].client \in Connection \cup {None} /\ ecs[e].player \in Account \cup {None}
  BY <1>1 DEF IInv, TypeOK
<1>5. CASE /\ ecs[e].client # None /\ ecs[e].player # None /\ Free # {} /\ ecs' = Moved(e)
  <2>1. n \in Free /\ n \in Entity /\ ecs[n] = Blank /\ ecs[n].player = None /\ n # e
    <3>1. n \in Free
      BY <1>5 DEF NewEntity
    <3> HIDE DEF n
    <3>2. n \in Entity /\ ecs[n] = Blank
      BY <3>1 DEF Free
    <3>3. ecs[n].client = None /\ ecs[n].player = None
      BY <3>2 DEF Blank
    <3> QED
      BY <1>5, <3>1, <3>2, <3>3
  <2> DEFINE moved == [Blank EXCEPT !.client = ecs[e].client, !.player = ecs[e].player]
  <2>2. /\ moved.client = ecs[e].client /\ moved.player = ecs[e].player
        /\ moved.presence = None /\ moved.data = None
        /\ moved \in [client: Connection \cup {None}, player: Account \cup {None},
                      presence: Character \cup {None}, data: Data \cup {None}]
    BY <1>4 DEF Blank
  <2>3. ecs' = [ecs EXCEPT ![e] = Blank, ![n] = moved]
    BY <1>5 DEF Moved
  <2> HIDE DEF n, moved
  <2>4. /\ ecs'[e] = Blank /\ ecs'[n] = moved
        /\ \A f \in Entity : f # e /\ f # n => ecs'[f] = ecs[f]
    BY <1>1, <2>1, <2>3 DEF IInv, TypeOK
  <2>5. ecs' \in [Entity -> [client: Connection \cup {None}, player: Account \cup {None},
                             presence: Character \cup {None}, data: Data \cup {None}]]
    BY <2>2, <2>3 DEF IInv, TypeOK, Blank
  <2>6. LeftFor(e, n)
    BY <1>5, <2>2, <2>4, <2>5 DEF LeftFor
  <2>7. AccountPaired'
    <3>1. /\ ecs'[e].player = None /\ ecs'[n].player = ecs[e].player
          /\ \A f \in Entity : f # e /\ f # n => ecs'[f].player = ecs[f].player
      BY <2>2, <2>4 DEF Blank
    <3>2. {ecs'[f].player : f \in Entity} \ {None} = {ecs[f].player : f \in Entity} \ {None}
      BY <1>1, <2>1, <3>1
    <3>3. \A f, g \in Entity : ecs'[f].player = ecs'[g].player /\ f # g => ecs'[f].player = None
      BY <1>1, <2>1, <3>1 DEF IInv, AccountPaired
    <3> QED
      BY <1>2, <3>2, <3>3 DEF IInv, AccountPaired
  <2> QED
    BY <1>1, <1>2, <1>3, <2>1, <2>6, <2>7, LeftInv DEF IInv, TypeOK
<1>6. CASE /\ ~(ecs[e].client # None /\ ecs[e].player # None)
           /\ ecs' = [ecs EXCEPT ![e] = Blank]
  <2>1. LeftFor(e, 0)
    BY <1>1, <1>6 DEF LeftFor, IInv, TypeOK, Blank
  <2>2. AccountPaired'
    <3>1. ecs[e].player = None
      BY <1>1, <1>6 DEF IInv, TypeOK, Blank
    <3>2. \A f \in Entity : ecs'[f].player = ecs[f].player
      BY <1>1, <1>6, <3>1 DEF IInv, TypeOK, Blank
    <3> QED
      BY <1>2, <3>2 DEF IInv, AccountPaired
  <2>3. 0 \notin Entity
    BY DEF Entity
  <2> QED
    BY <1>1, <1>2, <1>3, <2>1, <2>2, <2>3, LeftInv DEF IInv, TypeOK
<1> QED
  BY <1>2, <1>5, <1>6

LEMMA HandleDisconnectInv ==
  ASSUME IInv, HandleDisconnect
  PROVE  IInv'
<1> DEFINE e == Head(events).entity
<1>1. e \in Entity /\ Handled
  BY HeadNotice DEF HandleDisconnect, Handling, Handled
<1>2. /\ UNCHANGED <<phase, bus, crashed, loader, answers, db, revision>>
      /\ Persist(e) /\ Leave(e) /\ pending' = [pending EXCEPT ![e] = None]
      /\ accounts' = accounts \ {ecs[e].player} /\ ecs' = [ecs EXCEPT ![e] = Blank]
      /\ terminated' = terminated \ {ecs[e].client}
  BY DEF HandleDisconnect, Logout
<1>3. SentOK'
  <2>1. CASE ecs[e].client # None
    <3>1. ecs[e].client \in Connection /\ up' = [up EXCEPT ![ecs[e].client] = Quiet]
      BY <1>1, <2>1 DEF HandleDisconnect, IInv, TypeOK
    <3> QED
      BY <3>1, FlagSent DEF IInv
  <2>2. CASE ecs[e].client = None
    BY <2>2 DEF HandleDisconnect, net, IInv, SentOK
  <2> QED
    BY <2>1, <2>2
<1> HIDE DEF e
<1>4. LeftFor(e, 0)
  BY <1>1, <1>2 DEF LeftFor, IInv, TypeOK, Blank
<1>5. AccountPaired'
  <2>1. /\ ecs'[e].player = None
        /\ \A f \in Entity : f # e => ecs'[f].player = ecs[f].player
    BY <1>1, <1>2 DEF IInv, TypeOK, Blank
  <2>2. {ecs'[f].player : f \in Entity} \ {None}
          = ({ecs[f].player : f \in Entity} \ {None}) \ {ecs[e].player}
    BY <1>1, <2>1 DEF IInv, AccountPaired
  <2>3. \A f, g \in Entity : ecs'[f].player = ecs'[g].player /\ f # g => ecs'[f].player = None
    BY <2>1 DEF IInv, AccountPaired
  <2>4. accounts' \ InvalidName = (accounts \ InvalidName) \ {ecs[e].player}
    BY <1>2
  <2> QED
    BY <2>2, <2>3, <2>4 DEF IInv, AccountPaired
<1>6. 0 \notin Entity
  BY DEF Entity
<1> QED
  BY <1>1, <1>2, <1>3, <1>4, <1>5, <1>6, LeftInv DEF IInv, TypeOK

-----------------------------------------------------------------------------
\* Every step preserves the inductive invariant.
LEMMA StepInv == IInv /\ [Next]_vars => IInv'
<1> SUFFICES ASSUME IInv, [Next]_vars PROVE IInv'
  OBVIOUS
<1>1. CASE ClientStep
  BY <1>1, ClientInv
<1>2. CASE ServerStep
  BY <1>2, ConnectInv, ReadRegisterInv, FinishLoginInv, ReadScreenInv, ReadInGameInv,
     ReadGeneralInv, PlayInv, PingKickInv, SaveAllInv DEF ServerStep
<1>3. CASE TickStep
  BY <1>3, PingKickInv, PhaseInv, HandleInitInv, HandleUpdateInv, HandleExitInv,
     HandleDisconnectInv, TakeAnswerInv DEF TickStep
<1>4. CASE LoaderStep \/ UpdaterStep
  BY <1>4, LoaderInv, UpdaterInv
<1>5. CASE UNCHANGED vars
  <2>1. UNCHANGED <<server, storage, history>> /\ SentOK'
    BY <1>5 DEF vars, net, IInv, SentOK
  <2> QED
    BY <2>1, NetInv
<1> QED
  BY <1>1, <1>2, <1>3, <1>4, <1>5 DEF Next

\* The components have their types, a connection is on one entity, only players
\* are in the game, and data is on entities in the game only: answers of the
\* loader that come for an entity that was left change nothing.
THEOREM TypeCorrect == Spec => []TypeOK
<1>1. IInv => TypeOK
  BY DEF IInv
<1> QED
  BY <1>1, InitInv, StepInv, PTL DEF Spec

\* An account is logged in exactly while one entity is its player, in every
\* order of logins, exits, kicks, broken connections and quits.
THEOREM AccountAlwaysPaired == Spec => []AccountPaired
<1>1. IInv => AccountPaired
  BY DEF IInv
<1> QED
  BY <1>1, InitInv, StepInv, PTL DEF Spec

\* No character is in the game twice: its player is, for the account that owns
\* it, on one entity only.
THEOREM PlayedOnceAlways == Spec => []PlayedOnce
<1>1. IInv => PlayedOnce
  <2> SUFFICES ASSUME IInv, NEW e \in Entity, NEW f \in Entity, e # f,
                      ecs[e].presence = ecs[f].presence, ecs[e].presence # None
               PROVE  FALSE
    BY DEF PlayedOnce
  <2>1. ecs[e].player # None /\ ecs[e].player = ecs[f].player
    BY DEF IInv, TypeOK, Owned
  <2> QED
    BY <2>1 DEF IInv, AccountPaired
<1> QED
  BY <1>1, InitInv, StepInv, PTL DEF Spec

\* Nothing a character had when it left is lost, however it left: once the
\* updater has taken all batches, it is stored, whatever was rolled back.
THEOREM NothingEverLost == Spec => []NothingLost
<1>1. IInv => NothingLost
  <2> SUFFICES ASSUME IInv, updater = <<>>, NEW c \in Character, db[c] # Deleted,
                      c \notin Playing
               PROVE  db[c] = left[c]
    BY DEF NothingLost, Playing
  <2>1. ~SaveUnderWay(c)
    BY DEF SaveUnderWay
  <2> QED
    BY <2>1 DEF IInv, StoredOrUnderWay
<1> QED
  BY <1>1, InitInv, StepInv, PTL DEF Spec
=============================================================================
