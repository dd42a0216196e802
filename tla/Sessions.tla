------------------------------ MODULE Sessions -------------------------------
(* The life of a connection on the server, from its registration over the   *)
(* character screen into the game and back, and the two database threads    *)
(* behind it: the loader (requests in order, answers carry the entity that  *)
(* asked) and the updater (saves in order, each batch one transaction).     *)
(*                                                                          *)
(* A tick reads the clients' streams (one system per stream, in no fixed    *)
(* order but for ping after general), handles the events these systems      *)
(* emitted, then takes the loader's answers.  Leaving the game moves the    *)
(* client to a new entity, so every event and answer may name an entity     *)
(* that is gone.  The client is the one of the repository: it sends what    *)
(* ClientMsg::verify lets through.                                          *)
EXTENDS Naturals, Sequences, FiniteSets

CONSTANTS
  Connection,     \* the connections made to the server
  Account,        \* accounts (uuids)
  Character,      \* characters, rows of the database
  AccountOf,      \* the account a connection registers with
  OwnerOf,        \* the account a character belongs to
  InvalidName,    \* accounts whose alias Player::is_valid refuses
  max_players,    \* Settings::max_players
  MaxEntities,    \* bound: client entities alive or still named somewhere
  MaxRevision,    \* bound: changes made to a character in play
  MaxScreen,      \* bound: unread messages of the character screen
  MaxQueue,       \* bound: requests or batches waiting for a thread
  None            \* no component

Entity == 1..MaxEntities

\* What the database holds of a character: whose data, and how new; Deleted
\* when its rows are gone.
Data    == [char: Character, rev: 0..MaxRevision]
Deleted == [char |-> None, rev |-> 0]

ASSUME SessionConstants ==
  /\ AccountOf \in [Connection -> Account]
  /\ OwnerOf \in [Character -> Account]
  /\ InvalidName \subseteq Account
  /\ max_players \in Nat /\ MaxEntities \in Nat /\ MaxRevision \in Nat
  /\ MaxScreen \in Nat /\ MaxQueue \in Nat
  /\ None \notin Account \cup Connection \cup Character \cup Data

VARIABLES
  phase,       \* where the tick is: "clients" (between two ticks), "messages"
               \* or "events"
  ecs,         \* components of the client entities: Client (and Uid, which
               \* comes and goes with it), Player, Presence, Stats and
               \* Inventory taken together as data
  accounts,    \* LoginProvider::accounts
  pending,     \* PendingLogin components
  terminated,  \* clients whose terminate_msg_recv is set
  bus,         \* events emitted for the next round of handle_events
  events,      \* events of the round being handled
  crashed,     \* a handler panicked
  loader,      \* requests of the loader's thread
  answers,     \* its answers
  updater,     \* batches of the updater's thread
  db,          \* the character tables
  client,      \* the client program's state
  up, down,    \* messages under way to the server and back
  revision,    \* history: changes made to each character so far
  left         \* history: the data each character last left the game with

server  == <<phase, ecs, accounts, pending, terminated, bus,
             events, crashed>>
storage == <<loader, answers, updater, db>>
net     == <<client, up, down>>
history == <<revision, left>>
vars    == <<server, storage, net, history>>

Blank == [client |-> None, player |-> None, presence |-> None, data |-> None]
Quiet == [register |-> FALSE, screen |-> <<>>, exit |-> FALSE, terminate |-> FALSE]

Event(type, e)          == [type |-> type, entity |-> e, char |-> None, data |-> None]
InitCharacterData(e, c) == [Event("init", e) EXCEPT !.char = c]
UpdateCharacterData(e, d) == [Event("update", e) EXCEPT !.data = d]

\* The index of an entity that is gone is used again with a new generation;
\* here only once nothing names the old one any more.
Named    == {bus[i].entity : i \in DOMAIN bus} \cup {events[i].entity : i \in DOMAIN events}
            \cup {loader[i].entity : i \in DOMAIN loader}
            \cup {answers[i].entity : i \in DOMAIN answers}
Free     == {e \in Entity : ecs[e] = Blank /\ e \notin Named}
NewEntity == CHOOSE e \in Free : TRUE

Clients   == {e \in Entity : ecs[e].client # None}
InGame(e) == ecs[e].presence # None /\ ecs[e].data # None

Init ==
  /\ phase = "clients"
  /\ ecs = [e \in Entity |-> Blank]
  /\ accounts = {}
  /\ pending = [e \in Entity |-> None]
  /\ terminated = {}
  /\ bus = <<>> /\ events = <<>>
  /\ crashed = FALSE
  /\ loader = <<>> /\ answers = <<>> /\ updater = <<>>
  /\ db = [c \in Character |-> [char |-> c, rev |-> 0]]
  /\ client = [k \in Connection |-> "closed"]
  /\ up = [k \in Connection |-> Quiet]
  /\ down = [k \in Connection |-> {}]
  /\ revision = [c \in Character |-> 0]
  /\ left = db

-----------------------------------------------------------------------------
(* The client program.  Its steps are taken between two ticks: only the       *)
(* systems of the next tick look at what it sends, and since they may leave a *)
(* message unread, one that comes while they run is covered too.              *)

Between == phase = "clients"

\* Client::register: the token or name is sent, the answer awaited.
Register(k) ==
  /\ Between /\ client[k] = "connected"
  /\ client' = [client EXCEPT ![k] = "registering"]
  /\ up' = [up EXCEPT ![k].register = TRUE]
  /\ UNCHANGED <<server, storage, down, history>>

\* Client::request_character: the client takes itself to be in the game.
RequestCharacter(k, c) ==
  /\ Between /\ client[k] = "screen" /\ OwnerOf[c] = AccountOf[k]
  /\ Len(up[k].screen) < MaxScreen /\ Len(loader) < MaxQueue /\ Len(updater) <= MaxQueue
  /\ client' = [client EXCEPT ![k] = "ingame"]
  /\ up' = [up EXCEPT ![k].screen = Append(@, [type |-> "play", char |-> c])]
  /\ UNCHANGED <<server, storage, down, history>>

DeleteCharacter(k, c) ==
  /\ Between /\ client[k] = "screen" /\ OwnerOf[c] = AccountOf[k]
  /\ Len(up[k].screen) < MaxScreen /\ Len(loader) < MaxQueue /\ db[c] # Deleted
  /\ up' = [up EXCEPT ![k].screen = Append(@, [type |-> "delete", char |-> c])]
  /\ UNCHANGED <<server, storage, client, down, history>>

\* Client::request_remove_character: the presence stays until the answer.
RequestExit(k) ==
  /\ Between /\ client[k] = "ingame" /\ ~up[k].exit
  /\ up' = [up EXCEPT ![k].exit = TRUE]
  /\ UNCHANGED <<server, storage, client, down, history>>

Deaf(k) == down' = [down EXCEPT ![k] = {}]

\* Drop for Client: Terminate is sent when the client is registered.
Quit(k) ==
  /\ Between /\ client[k] # "closed"
  /\ up' = [up EXCEPT ![k].terminate = client[k] \in {"screen", "ingame"}]
  /\ client' = [client EXCEPT ![k] = "closed"] /\ Deaf(k)
  /\ UNCHANGED <<server, storage, history>>

\* The connection breaks; what was under way is read by the next tick or never.
Lose(k) ==
  /\ Between /\ client[k] # "closed"
  /\ client' = [client EXCEPT ![k] = "closed"] /\ Deaf(k)
  /\ UNCHANGED <<server, storage, up, history>>

\* A message of the server is handled.
Hear(k, m) ==
  /\ Between /\ m \in down[k]
  /\ down' = [down EXCEPT ![k] = IF m \in {"refused", "kicked"} THEN {} ELSE @ \ {m}]
  /\ client' = [client EXCEPT ![k] =
                  IF m \in {"refused", "kicked"} THEN "closed" ELSE "screen"]
  /\ up' = [up EXCEPT ![k].terminate = m = "kicked"]
  /\ UNCHANGED <<server, storage, history>>

-----------------------------------------------------------------------------
(* The tick: new connections, then the systems that read the streams. *)

\* A user makes a new connection; beyond max_players it is refused.
Connect(k) ==
  /\ phase = "clients" /\ client[k] = "closed" /\ k \notin {ecs[e].client : e \in Entity}
  /\ Cardinality(Clients) < max_players /\ Free # {}
  /\ client' = [client EXCEPT ![k] = "connected"]
  /\ ecs' = [ecs EXCEPT ![NewEntity] = [Blank EXCEPT !.client = k]]
  /\ up' = [up EXCEPT ![k] = Quiet]
  /\ UNCHANGED <<phase, accounts, pending, terminated, bus, events, crashed,
                 storage, down, history>>

StartTick ==
  /\ phase = "clients"
  /\ phase' = "messages"
  /\ UNCHANGED <<ecs, accounts, pending, terminated, bus, events,
                 crashed, storage, net, history>>

\* A system reads a message of e's client.
Reading(e) == phase = "messages" /\ ecs[e].client # None

Emit(event) == bus' = Append(bus, event)
Tell(k, m)  == down' = IF client[k] = "closed" THEN down
                       ELSE [down EXCEPT ![k] = @ \cup {m}]

ReadRegister(e) == LET k == ecs[e].client IN
  /\ Reading(e) /\ up[k].register
  /\ pending' = [pending EXCEPT ![e] = AccountOf[k]]
  /\ up' = [up EXCEPT ![k].register = FALSE]
  /\ UNCHANGED <<phase, ecs, accounts, terminated, bus, events, crashed,
                 storage, client, down, history>>

\* Mutant: nobody asks whether the account is in use.
LoginAgain(a) == TRUE

\* LoginProvider::login: an account is logged in once.
CanLogin(a) == a \notin accounts

\* try_login once the authentication has answered: it may be negative, the
\* account banned or not on the whitelist; else it is logged in, and the
\* alias is judged after that.
FinishLogin(e) == LET k == ecs[e].client
                      a == pending[e] IN
  /\ Reading(e) /\ a # None
  /\ pending' = [pending EXCEPT ![e] = None]
  /\ \/ /\ Tell(k, "refused") /\ UNCHANGED <<accounts, ecs>>
     \/ /\ CanLogin(a)
        /\ accounts' = accounts \cup {a}
        /\ IF a \in InvalidName
             THEN Tell(k, "refused") /\ UNCHANGED ecs
             ELSE IF ecs[e].player = None
               THEN /\ ecs' = [ecs EXCEPT ![e].player = a]
                    /\ Tell(k, "registered")
               ELSE UNCHANGED <<ecs, down>>
  /\ UNCHANGED <<phase, terminated, bus, events, crashed,
                 storage, client, up, history>>

\* character_screen: a character is loaded and entered unless the entity is
\* in the game; a deletion is passed on whatever the entity does.
ReadScreen(e) == LET k == ecs[e].client
                     m == Head(up[k].screen) IN
  /\ Reading(e) /\ up[k].screen # <<>>
  /\ up' = [up EXCEPT ![k].screen = Tail(@)]
  /\ CASE ecs[e].player = None ->
            /\ IF m.type = "play" THEN Tell(k, "failed") ELSE UNCHANGED down
            /\ UNCHANGED <<loader, bus>>
       [] ecs[e].player # None /\ m.type = "play" /\ ecs[e].presence # None ->
            UNCHANGED <<loader, bus, down>>
       [] OTHER ->
            /\ loader' = Append(loader, [entity |-> e, type |-> m.type, char |-> m.char])
            /\ IF m.type = "play" THEN Emit(InitCharacterData(e, m.char)) ELSE UNCHANGED bus
            /\ UNCHANGED down
  /\ UNCHANGED <<phase, ecs, accounts, pending, terminated, events, crashed,
                 answers, updater, db, client, history>>

\* in_game: the answer is sent now and once more when the event is handled.
ReadInGame(e) == LET k == ecs[e].client IN
  /\ Reading(e) /\ up[k].exit
  /\ up' = [up EXCEPT ![k].exit = FALSE]
  /\ IF ecs[e].presence = None
       THEN UNCHANGED <<bus, down>>
       ELSE Emit(Event("exit", e)) /\ Tell(k, "exited")
  /\ UNCHANGED <<phase, ecs, accounts, pending, terminated, events, crashed,
                 storage, client, history>>

ReadGeneral(e) == LET k == ecs[e].client IN
  /\ Reading(e) /\ up[k].terminate
  /\ up' = [up EXCEPT ![k].terminate = FALSE]
  /\ terminated' = terminated \cup {k}
  /\ Emit(Event("disconnect", e))
  /\ UNCHANGED <<phase, ecs, accounts, pending, events,
                 crashed, storage, client, down, history>>

\* ping, which runs after general: a client whose connection is broken or
\* silent for too long is reported in every tick until it is gone.
Broken(e) == LET k == ecs[e].client IN
  k # None /\ client[k] = "closed" /\ ~up[k].terminate /\ k \notin terminated

Reported(e) == \E i \in DOMAIN bus : bus[i] = Event("disconnect", e)

Ping(e) ==
  /\ Reading(e) /\ Broken(e) /\ ~Reported(e)
  /\ Emit(Event("disconnect", e))
  /\ UNCHANGED <<phase, ecs, accounts, pending, terminated, events,
                 crashed, storage, net, history>>

\* The player's character changes.
Play(e) == LET c == ecs[e].data.char IN
  /\ phase = "messages" /\ InGame(e) /\ revision[c] < MaxRevision
  /\ revision' = [revision EXCEPT ![c] = @ + 1]
  /\ ecs' = [ecs EXCEPT ![e].data.rev = revision[c] + 1]
  /\ UNCHANGED <<phase, accounts, pending, terminated, bus, events, crashed,
                 storage, net, left>>

\* sys/persistence: all characters in the game in one batch.
SaveAll ==
  /\ phase = "messages" /\ Len(updater) < MaxQueue
  /\ \E e \in Entity : InGame(e)
  /\ updater' = Append(updater, {[id |-> ecs[e].presence, data |-> ecs[e].data] :
                                   e \in {f \in Entity : InGame(f)}})
  /\ UNCHANGED <<server, loader, answers, db, net, history>>

EndMessages ==
  /\ phase = "messages"
  /\ \A e \in Entity : Broken(e) => Reported(e)
  /\ phase' = "events"
  /\ events' = bus /\ bus' = <<>>
  /\ UNCHANGED <<ecs, accounts, pending, terminated, crashed,
                 storage, net, history>>

-----------------------------------------------------------------------------
(* The tick: the events. *)

Settled == phase = "events" /\ events = <<>>

Handling(type) ==
  /\ phase = "events" /\ events # <<>> /\ Head(events).type = type
  /\ events' = Tail(events)

\* initialize_character_data; it unwraps the Uid of the entity.
HandleInit == LET e == Head(events).entity IN
  /\ Handling("init")
  /\ \/ /\ ecs[e].client = None
        /\ crashed' = TRUE /\ UNCHANGED ecs
     \/ /\ ecs[e].client # None
        /\ ecs' = [ecs EXCEPT ![e].presence = Head(events).char]
        /\ UNCHANGED crashed
  /\ UNCHANGED <<phase, accounts, pending, terminated, bus,
                 storage, net, history>>

\* Mutant: the components are written whatever became of the entity.
Unchecked(e) == TRUE

\* update_character_data: nothing for an entity that is gone.
HasUid(e) == ecs[e].client # None

HandleUpdate == LET e == Head(events).entity IN
  /\ Handling("update")
  /\ ecs' = IF HasUid(e) THEN [ecs EXCEPT ![e].data = Head(events).data] ELSE ecs
  /\ UNCHANGED <<phase, accounts, pending, terminated, bus,
                 crashed, storage, net, history>>

\* Mutant: no save for a character that has one waiting.
SavedOnce(e) == IF \E i \in DOMAIN updater : \E s \in updater[i] : s.id = ecs[e].presence
                  THEN updater
                  ELSE Append(updater, {[id |-> ecs[e].presence, data |-> ecs[e].data]})

\* persist_entity: a batch of its own.
Saved(e)   == Append(updater, {[id |-> ecs[e].presence, data |-> ecs[e].data]})
Persist(e) == updater' = IF InGame(e) THEN Saved(e) ELSE updater
Leave(e)   == left' = IF InGame(e) THEN [left EXCEPT ![ecs[e].presence] = ecs[e].data]
                                   ELSE left

\* handle_exit_ingame: Client, Uid and Player move to a new entity.
Moved(e) == [ecs EXCEPT ![e] = Blank,
                        ![NewEntity] = [Blank EXCEPT !.client = ecs[e].client,
                                                    !.player = ecs[e].player]]

HandleExit == LET e == Head(events).entity IN
  /\ Handling("exit")
  /\ IF ecs[e].client # None /\ ecs[e].player # None
       THEN /\ Free # {}
            /\ ecs' = Moved(e)
            /\ Tell(ecs[e].client, "moved")
       ELSE /\ ecs' = [ecs EXCEPT ![e] = Blank]
            /\ UNCHANGED down
  /\ pending' = [pending EXCEPT ![e] = None]
  /\ Persist(e) /\ Leave(e)
  /\ UNCHANGED <<phase, accounts, terminated, bus, crashed,
                 loader, answers, db, client, up, revision>>

\* Mutant: only a player in the game is logged out.
LogoutInGame(e) == IF InGame(e) THEN accounts \ {ecs[e].player} ELSE accounts

\* The account of the entity's Player component, if it has one.
Logout(e) == accounts \ {ecs[e].player}

\* handle_client_disconnect
HandleDisconnect == LET e == Head(events).entity
                        k == ecs[e].client IN
  /\ Handling("disconnect")
  /\ accounts' = Logout(e)
  /\ Persist(e) /\ Leave(e)
  /\ ecs' = [ecs EXCEPT ![e] = Blank]
  /\ pending' = [pending EXCEPT ![e] = None]
  /\ IF k # None
       THEN /\ client' = [client EXCEPT ![k] = "closed"]
            /\ up' = [up EXCEPT ![k] = Quiet] /\ Deaf(k)
       ELSE UNCHANGED net
  /\ terminated' = terminated \ {k}
  /\ UNCHANGED <<phase, bus, crashed, loader, answers, db,
                 revision>>

\* A chat command, handled after the events: kick_player.
Kick(e) ==
  /\ Settled /\ bus = <<>>
  /\ ecs[e].player # None
  /\ Emit(Event("disconnect", e))
  /\ Tell(ecs[e].client, "kicked")
  /\ UNCHANGED <<phase, ecs, accounts, pending, terminated, events,
                 crashed, storage, client, up, history>>

-----------------------------------------------------------------------------
(* The tick: the loader's answers, whose events wait for the next tick. *)

TakeAnswer == LET a == Head(answers)
                  k == ecs[a.entity].client IN
  /\ Settled /\ answers # <<>>
  /\ answers' = Tail(answers)
  /\ IF a.data # Deleted
       THEN Emit(UpdateCharacterData(a.entity, a.data)) /\ UNCHANGED down
       ELSE /\ Emit(Event("exit", a.entity))
            /\ IF k # None THEN Tell(k, "failed") ELSE UNCHANGED down
  /\ UNCHANGED <<phase, ecs, accounts, pending, terminated, events, crashed,
                 loader, updater, db, client, up, history>>

EndTick ==
  /\ Settled /\ answers = <<>>
  /\ phase' = "clients"
  /\ UNCHANGED <<ecs, accounts, pending, terminated, bus, events,
                 crashed, storage, net, history>>

-----------------------------------------------------------------------------
(* The threads of the database.  Both take their steps late in a tick: until *)
(* then their queues only grow and nobody looks at the tables or the answers. *)

LoaderStep == LET r == Head(loader) IN
  /\ Settled /\ loader # <<>>
  /\ loader' = Tail(loader)
  /\ \/ /\ r.type = "play"
        /\ answers' = Append(answers, [entity |-> r.entity, data |-> db[r.char]])
        /\ UNCHANGED db
     \/ /\ r.type = "delete"
        /\ db' = [db EXCEPT ![r.char] = Deleted]
        /\ UNCHANGED answers
  /\ UNCHANGED <<server, updater, net, history>>

\* execute_batch_update: one character that is not there rolls all back.
UpdaterStep == LET batch == Head(updater) IN
  /\ Settled /\ updater # <<>>
  /\ updater' = Tail(updater)
  /\ db' = IF \E s \in batch : db[s.id] = Deleted THEN db
           ELSE [c \in Character |->
                   IF \E s \in batch : s.id = c
                     THEN (CHOOSE s \in batch : s.id = c).data ELSE db[c]]
  /\ UNCHANGED <<server, loader, answers, net, history>>

-----------------------------------------------------------------------------
ClientStep == \E k \in Connection :
  \/ Register(k) \/ RequestExit(k) \/ Quit(k) \/ Lose(k)
  \/ \E c \in Character : RequestCharacter(k, c) \/ DeleteCharacter(k, c)
  \/ \E m \in down[k] : Hear(k, m)

ServerStep ==
  \/ \E k \in Connection : Connect(k)
  \/ \E e \in Entity :
       \/ ReadRegister(e) \/ FinishLogin(e) \/ ReadScreen(e) \/ ReadInGame(e)
       \/ ReadGeneral(e) \/ Play(e) \/ Kick(e)
  \/ SaveAll

TickStep ==
  \/ \E e \in Entity : Ping(e)
  \/ StartTick \/ EndMessages
  \/ HandleInit \/ HandleUpdate \/ HandleExit \/ HandleDisconnect
  \/ TakeAnswer \/ EndTick

\* A panic ends the process.
Next == ~crashed /\ (ClientStep \/ ServerStep \/ TickStep \/ LoaderStep \/ UpdaterStep)

Spec == Init /\ [][Next]_vars

-----------------------------------------------------------------------------
(* Properties. *)

\* The components have their types, a connection is on at most one entity,
\* only a player is in the game, and data is on entities in the game only: an
\* answer of the loader for an entity that was left changes nothing.
TypeOK ==
  /\ phase \in {"clients", "messages", "events"}
  /\ ecs \in [Entity -> [client: Connection \cup {None}, player: Account \cup {None},
                         presence: Character \cup {None}, data: Data \cup {None}]]
  /\ accounts \subseteq Account
  /\ pending \in [Entity -> Account \cup {None}]
  /\ terminated \subseteq Connection
  /\ db \in [Character -> Data \cup {Deleted}]
  /\ \A e \in Entity :
       /\ ecs[e] # Blank \/ pending[e] # None => ecs[e].client # None
       /\ ecs[e].presence # None => ecs[e].player # None
       /\ ecs[e].data # None => ecs[e].presence # None
  /\ \A e, f \in Clients : ecs[e].client = ecs[f].client => e = f

\* An account is logged in exactly while one entity is its player, through
\* exits, disconnections and logins that fail, in every order.
AccountPaired ==
  /\ accounts \ InvalidName = {ecs[e].player : e \in Entity} \ {None}
  /\ \A e, f \in Entity : ecs[e].player = ecs[f].player /\ e # f => ecs[e].player = None

\* No character is in the game twice.
PlayedOnce == \A e, f \in Entity :
  ecs[e].presence = ecs[f].presence /\ e # f => ecs[e].presence = None

\* Once the updater has caught up, a character out of the game is stored as it
\* was when it left, however it left and whatever batches were rolled back.
NothingLost ==
  updater = <<>> => \A c \in Character :
    db[c] # Deleted /\ c \notin {ecs[e].presence : e \in {f \in Entity : InGame(f)}}
      => db[c] = left[c]

\* "self.read_component_copied(entity).unwrap()": the entity of a character
\* that is being entered is there.
NoPanic == ~crashed
=============================================================================
