# Veloren: a verification project in TLA+

Veloren is a multiplayer voxel game written in Rust. This directory holds TLA+
specifications of parts of its server and of the code the server shares with
the client, configurations that model-check them with TLC, and proofs checked
by TLAPS. Paths are relative to the root of the repository.

## The system and its parts

The server runs one tick after another (`server/src/lib.rs`). In a tick it takes
in connections, runs its ECS systems (`server/src/sys`, in parallel, each reading
and writing the components it declares), and then handles the events those
systems emitted, one after the other (`Server::handle_events`,
`server/src/events/mod.rs`). Around that loop run the network library with its
own async runtime, a thread each for loading and for saving characters, and a
pool for slow jobs such as generating terrain.

| Component | State | Operations | What is hard, what must hold |
|---|---|---|---|
| **Trades** `common/src/trade.rs`, `server/src/events/trade.rs` | live trades (parties, offers by slot, phase, accept flags), a map from player to trade, the next id | begin, add and remove offers, accept, decline, commit | offers are references to slots, so every inventory operation of either party interferes; the commit takes and gives in several steps; trades outlive sessions. Goods agreed on are goods delivered, nothing is copied or lost |
| **Inventory** `common/src/comp/inventory`, `server/src/events/inventory_manip.rs` | slots, equipment, item entities and collectible blocks in the world | pick up, collect, use, swap, split, drop, craft | stacking, splitting and full inventories; nothing duplicated or destroyed in any sequence |
| **Sessions** `server/src/events/player.rs`, `login_provider.rs`, `sys/msg/*` | Uid of a client, its entity, its presence, the accounts logged in | register, choose a character, leave to the character screen, disconnect, time out | the entity is replaced under pending events, invites, groups and trades; two disconnects of one client; an account is logged in at most once |
| **Invites** `server/src/events/invite.rs`, `sys/invite_timeout.rs` | the invite of an invitee, the pending invites of an inviter with deadlines | invite, accept, decline, time out | two components on two entities must agree although either entity can vanish |
| **Groups** `common/src/comp/group.rs`, `server/src/events/group_manip.rs` | the group of an entity, leader and member count of a group | join, leave, kick, assign leader, adopt a pet, delete an entity | the count and the membership components must agree, ids are reused; size limit |
| **Slow job pool** `common/src/slowjob.rs` | queue, running jobs per name, a global count | configure, spawn, cancel, maintain, finish | counters changed by workers outside of the queue's lock; nobody polls, so the last worker to finish must find what was turned away; limits |
| **Chunk generation** `server/src/chunk_generator.rs`, `sys/terrain.rs` | pending chunks with cancellation flags, a result channel | request, cancel, receive, insert, unload | a late result of a cancelled job, a request passed over because the key is pending, distances of client and server that have to fit; chunks in view arrive, chunks out of view go |
| **Persistence** `server/src/persistence` | the updater's queue of batches, the loader's queue and answers, the database | save a batch, load, create and delete | a load overtaking a save, a batch rolled back for one of its characters; what a player leaves with is stored |
| **Network** `network/src`, `network/protocol` | participants, channels, streams, queues of messages by priority | open, send, receive, close, disconnect, shut down | managers that wait for one another, messages after a close, a close that must not overtake messages; a shutdown that must end |
| **Synchronisation** `common/net/src/sync`, `common/src/region.rs`, `server/src/sys/subscription.rs` | regions, subscriptions, trackers | enter and leave regions, create and delete entities | a client must learn of every entity in range exactly once and of its deletion |
| Client `client/src` | mirror of what the server tells | request and forget chunks, register, choose a character, leave | what it asks for may be passed over or answered late; modelled with the components it talks to |
| Recipes, combat and character states, agents, rtsim, world generation, plugins, voxygen, server-cli | | | sequential, numeric or graphical code, see "Not modelled" |

Components meet in these places: accepting an invite begins a trade or joins a
group; an inventory manipulation asks `Trades` whether it may proceed and resets
acceptances; a player who leaves the game hands Uid and group to a new entity,
saves the character and deletes the old entity; a pet joins its owner's group; a
chunk request spawns a slow job; the saves of leaving players and the loads of
arriving ones share a database.

## Plan

1. `Inventory`, `Trade`, `TradeHistory`, `Agreement`: trades over inventories.
   The abstract specification is what a trade promises. *Done.*
2. `TradeProofs`: type correctness, the inductive invariant behind the map from
   players to trades, the two protections of a trade's goods, that nothing is
   duplicated, that a commit moves what was offered and never panics, and that
   `Trade` implements `Agreement`. `FoldLemmas`: what folds over sets compute, and
   sums. *Done.*
3. `Groups`, `Invites`, `Parties`, `InvitesProofs`: groups with invites,
   time-outs, pets and entities that are replaced or deleted. The abstract
   specification is what players see of a group. *Done*, with proofs
   of the registry and of the refinement for groups of players, and of where
   their pets are.
4. `SlowJobs`, `JobPool`, `SlowJobsProofs`: the pool with its workers as
   processes; the abstract specification is what it promises to those who submit
   jobs. *Done*, with proofs of the counters and of the refinement.
5. `ChunkGenerator`, `ChunkGeneratorProofs`: chunks requested by clients and made
   by such jobs. *Done.*
6. `Sessions`, `SessionsProofs`: connections, registration, the character screen and the game, with
   the two database threads behind them. *Done*, with proofs of its four
   invariants. A composition with `Trade` is
   out of TLC's reach: `Trade` keeps its own, coarser view of sessions.
7. `RegionMap`, `Regions`: which client is told of which entity. *Done.*
   `RegionsProofs`: the region map stays sound, and clients know what they should
   at the end of a tick. *Done.*
8. `PrioManager`, `Streams`: two participants over a TCP connection, with the
   liveness of a disconnection; `StreamsProofs`: no message meets a stream that is
   gone, and a close comes after every message. *Done.* Left: the scheduler
   (listening, connecting, a second channel to the same participant).
9. Left: the client's view of a trade over its stream (an acceptance speaks of the
   trade its sender saw); the other invariants of groups that have pets.

## Modules

### `Inventory`

Operators, one per method of `Inventory` and `Item` that the modelled handlers
call. An item is its kind and amount, since `Item`'s equality looks at the
definition only; `Stackable` kinds may hold more than one. The result `Full`
stands for the item being returned to the caller. Amounts end at `MaxAmount` in
the place of `u32::MAX`.

### `Trade`

| Variable | Code |
|---|---|
| `trades`, `entity_trades`, `next_id` | the fields of `Trades` |
| `active` | the entity behind a player's Uid: in the game with a character, on the character screen (`NoChar`, an entity without `Inventory`), or deleted (`Gone`) |
| `pack`, `worn` | each character's slots and its equipment, reduced to one equipment slot that grants no slots |
| `ground`, `blocks` | item entities, collectible blocks |
| `finished` | the `TradeResult` sent to the parties, with the goods that moved |
| `panicked` | which `expect()` or `panic!` of a handler was reached: the server is down |

Each event handler is one action, since the server handles one event at a time
and hands no lock to another thread meanwhile. `ProcessAddItem`,
`ProcessRemoveItem`, `ProcessAccept` and `ProcessDecline` are the trade actions;
an acceptance that completes the trade includes `Commit`. All inventory actions
go through `Manipulate`, the beginning and the end of `handle_inventory`: the
gate that refuses manipulations past the first phase and the reset of the accept
flags. `ExitInGame`, `EnterInGame` and `Disconnect` change what `Uid`s refer to
and leave the trades alone, as the code does. A manipulation that the code
abandons early (a block out of reach, two different items in `SplitSwap`) is the
action not being taken.

Where the iteration order of a `HashMap` matters (the order in which goods are
pushed into a nearly full inventory) the model takes every order. The units of
one offer are pushed as one stack: pushing them one by one ends in the same
slots, or in the same panic if the stack would overflow. A swap may name one slot
twice, which the client's interface does not do but no handler excludes. A player
re-enters with the inventory
the character left with; that a load may overtake its save is a matter of
`Sessions`.

### `Agreement` and `TradeHistory`

`Agreement` is the promise of a trade: it is open, then sealed with terms both
parties consented to, then settled on exactly those terms or called off.
`TradeHistory` adds to `Trade` a history variable `sealed`, the goods on the
table when a trade enters its review phase, and the refinement mapping
(`Implements`). The refinement holds under `CarefulSpec`, where a player is
party to one live trade at a time and nobody leaves the game in mid-trade; the
code does not enforce either, and the findings below show what happens without
them.

### `Groups` and `Invites`

| Variable | Code |
|---|---|
| `reg.member`, `reg.info` | the `Group` component of each body; `GroupManager.groups`, a `Slab` of leader and `num_members` |
| `owner` | a pet's `Alignment` |
| `life`, `place` | which entity carries a player's Uid; whether it is in the game, on the character screen (no `Alignment`) or deleted |
| `invite` | the `Invite` component: the inviter's entity and the kind |
| `pending` | `PendingInvites`: entries of an invitee's entity and a kind |

Handles of entities are kept as pairs of a player and a number: leaving for the
character screen (`ExitInGame`) moves Uid and group to the next entity, and
whatever stores the old handle goes stale, as in the code. `Remembers` is the
look-up that answers and the time-out system perform before they trust an
invite. A player who disconnects does not return: a new session is a new Uid.

An operation of the `GroupManager` is an operator that yields the set of
registries it may leave behind. `AddGroupMember` calls `RemoveFromGroup` once or
twice, and `RemoveFromGroup` splits or shrinks a group, so the sets compose; the
elements differ in the key that the `Slab` hands out (any vacant one) and in the
order in which a disbanded group is split. `GroupId` bounds the groups that
exist at once; an operation for which no key is left is not taken.

`Groups` holds the handlers of group manipulations (`Leave`, `Kick`,
`AssignLeader`), the taming and death of a pet and the three events of a
player's entity; `Invites` adds `HandleInvite`, the two answers, one run of the
time-out system for any set of invites, and composes the two. Group and invite messages
are handled for clients in the game (`server/src/sys/msg/in_game.rs`), but the
chat commands for groups (`server/src/cmd.rs:1721-1860`) are also accepted from
the character screen, so only answers and invites to trade require the game;
the target of an invite or a kick may be on the character screen. The deadline of an
invite is left out: it may time out at any moment. `AssignLeader` names a
player: the client offers it for members of the group list, which has no pets.

### `Parties`

What players are promised: parties of at least two under a leader, nobody in two
of them, nobody joins without having been asked by the one who leads afterwards,
and a party changes only by an accepted invite, a departure or a transfer of the
lead. A group of one player with pets is no party. The refinement mapping
(`party` in `Invites`) computes parties from the registry and `asked` from the
invites that are remembered.

### `SlowJobs` and `JobPool`

| Variable | Code |
|---|---|
| `local_running_jobs`, `global_running_jobs`, `spawned_total` | the atomic counters of a `Config` and of the pool, and the statistics that order the names |
| `writer` | who holds the queue's lock for writing |
| `pc` | where a job is in its life (waiting in the queue, running, its worker maintaining the pool), or a caller in `maintain` |
| `jobs_available`, `names`, `possible` | the local variables of `maintain` |

A worker is the thread of its job, so job and thread share an identity. The steps
are those between which another thread can change something: the unlocked read
of the running jobs (`Load`), the scan under the read lock (`Scan`), sorting, one
action per turn of the loop under the write lock (`FireNext`), its release
(`FireEnd`), and the two subtractions of a worker that has finished. `JobPool` is
the promise: a job is run at most once, never after it was cancelled, and no
more jobs of a name run at a time than configured. `configure` is not an action:
the server configures the pool before the first job.

### `ChunkGenerator`

| Variable | Code |
|---|---|
| `pending` | `ChunkGenerator.pending_chunks`: which job's flag would cancel the key |
| `job` | the slow jobs with their cancellation flag, until their result is taken from the channel |
| `terrain`, `npcs` | `TerrainGrid`; how often a chunk's creatures have been spawned |
| `phase`, `tick`, `events` | the part of `Server::tick` that is next, the tick modulo 16, the `ChunkRequest`s emitted in this tick |
| `pos` | `Pos` and `Presence` of a client's entity |
| `place`, `chunks`, `asked` | the client: where it stands, its terrain, its own `pending_chunks` |
| `requests`, `updates`, `moving` | messages under way |

The world is a line of chunks; distances are computed as both programs compute
them. A client may give up on a request at any moment (`old`), since how long an
answer takes is not bounded. The creatures of a chunk are assumed to stay at home,
so that `Cleanup`, which deletes those of unloaded chunks, sees them all. Chunks
lost with an edit of the world's colours (`Reload`) are part of the model; changes
of single blocks (`terrain_sync.rs`) are not.

### `Sessions`

| Variable | Code |
|---|---|
| `ecs` | `Client`, `Player`, `Presence` and the character's data on the entities that are or were a client's |
| `accounts`, `pending` | `LoginProvider.accounts`, the `PendingLogin` components |
| `bus`, `events` | the `EventBus`, and what `handle_events` has taken from it |
| `loader`, `answers`, `updater`, `db` | the channels of the two database threads, the tables |
| `up`, `down`, `client`, `terminated` | the streams of a client, the state of its program, `terminate_msg_recv` |
| `phase`, `crashed` | where the tick is; a handler panicked |
| `revision`, `left` | history: what was changed in play, what each character left with |

A tick reads the clients' streams, one system per stream and in any order but for
`ping` after `general`, handles the events these systems emitted, and then takes
the loader's answers, whose events wait for the next tick. Every event and every
answer names an entity that may have been replaced meanwhile: that is what the
module is about. Reductions, none of which hides an interleaving that anything
could observe: clients take their steps between two ticks, since the systems may
leave a message unread; the database threads take theirs late in a tick, since
until then their queues only grow; the index of an entity is used again only
when nothing names the old one (a generation tells them apart in the code).

### `RegionMap` and `Regions`

`RegionMap` holds the whole of `common::region` as operators on a sequence of
regions: insertion and removal of a region with the indices its neighbours keep
of it, `tick`, and `regions_in_vd`. The events of a region are sets, whose order no
reader depends on. The loops of `tick` that change the map are folds over sets, in
the order of the code: untracked entities from the lowest index up, switches from
the last one found to the first, since they are popped from a `Vec`, removable
regions as they were found, by key, since each removal moves another region.

| Variable of `Regions` | Code |
|---|---|
| `uid`, `pos`, `owner` | the components `Uid`, `Pos`, `Client` of an entity index |
| `subs` | `RegionSubscription` of a client's entity |
| `inserted`, `deleted` | the change trackers of `Uid`; `DeletedEntities` |
| `regions`, `tracked` | the `RegionMap` |
| `known` | the Uids in each client's world |
| `missed`, `haunting`, `overtaken` | history: the entities excepted below |

Up to `MaxEvents` events come between two ends of a tick; `EndOfTick` brings the
region map up to date and runs subscription and entity synchronisation on it. The
messages of a tick are one step, applied in their order, since they share an
ordered stream. The answer to an exit does not: `ExitInGameSuccess` travels on
another one, and the client takes its messages from all of them as they come
(`server/src/client.rs:88-114`, `client/src/lib.rs:1737`). So `handle_exit_ingame`
has the client clear its world first and then apply any creations (`late`) that
were sent before. Deletions by the cleanup at the end of a tick are those at the
beginning of the next. A Uid is used again when nothing names it. Only `Watcher`s
get their character loaded, and players stay on `Lookout`;
positions are whole blocks and not negative, the view distance does not change,
and one player does not possess another's entity.

The lengths of the subscription, a number of blocks and a number of diagonals of
a block, are compared exactly: `Within` decides `x < (v + n * sqrt 2)^2`
without computing a root. The code does so in `f32`, whose rounding is left out;
for whole blocks it makes no difference as long as coordinates are below 2^24.

### `PrioManager` and `Streams`

`PrioManager` has the queue of outgoing messages as operators on a store.
Messages are cut into frames; a flush takes from every stream that has something a share
that depends on rates, priorities and time, and is modelled as any number of
frames from one on, except in the last flush, whose parameters are fixed.

| Variable of `Streams` | Code |
|---|---|
| `participant`, `held`, `checked`, `sent` | the application: its `Participant`, its `Stream`s, the `Stream` that is in the middle of `send_raw`, messages sent |
| `streams`, `closed` | `BParticipant.streams`; the streams whose `send_closed` is set |
| `outbox`, `notify`, `close_send` | the channels `a2b_msg`, `b2b_notify_send_of_recv`, `b2b_close_send_protocol` |
| `sending`, `receiving`, `shutdown` | whether `send_mgr` and `recv_mgr` run, and where `participant_shutdown_mgr` is |
| `store`, `closing` | `PrioManager` and `closing_streams` of `TcpSendProtocol` |
| `wire`, `broken` | frames on their way in each direction |
| `delivered` | messages handed to a `Stream` |
| `panicked` | the task of the participant died |

`send_mgr`, `recv_mgr` and the shutdown manager are joined into one task, so a turn
of `send_mgr` (`SendTurn`) is atomic with respect to the others; only the
application runs beside it, and its `send_raw` is two steps. The connection takes in
`Window` frames that nobody reads. What a turn writes beyond that is on `wire`
too, but `flush` is still at it (`Flushed`), and `send_mgr` does nothing else until
it is done. A request to open or
to close a stream is taken at the moment `select!` picks it: nothing else sees it
wait. Of a message only its last frame travels, since `recv` returns at no
other. Once a manager has ended, what only it looked at is forgotten. Participants
have one channel, and it is TCP.


## What is checked

A module `MC...` gives the constants of a component their values. Where the
system may stop (players all disconnect, a connection is gone, a panic ends the
process) the runs do not treat a state without successors as an error. States
are what TLC finds for the whole instance.

| Run | Instance | States | Shows |
|---|---|---|---|
| `MCTrade_core` | 2 players in the game, 2 slots each, two coins and a wearable sword, 1 trade | 426,572 | types, no panic but that of a stack merged into itself, nothing duplicated, a commit moves exactly the offers, sealed goods stay |
| `MCTrade_session` | 2 trades, 3 characters, players leave, return and disconnect | 1,188,852 | both flags never stay set, `entity_trades` never names somebody else's trade, acceptances are fresh |
| `MCTrade_agreement` | 2 trades, 3 characters, careful players, a collectible block | 204,096 | `Trade` implements `Agreement`; nothing duplicated while stacks merge |
| `MCInvites_members` | 4 players, 3 keys, a limit of 3, nobody leaves for the character screen or hands over the lead | 159,624 | counts and components agree, no group without members, the size limit, `Invites` implements `Parties` |
| `MCInvites_pair` | 2 players with three entities each, 2 pets, 4 keys; in a behaviour either pets are adopted or players leave for the character screen | 83,470 | types (counts stay non-negative), the leader in a group's info is a present entity, pets are in their owner's group, the two tables of invites agree while entities are replaced, `Invites` implements `Parties`, an invite that is remembered settles |
| `MCSlowJobs_jobs` | 3 jobs of two names, a limit of 1 per name and 2 in all, one caller | 29,438 | counters agree with the jobs, `SlowJobs` implements `JobPool`, every waiting job is fired |
| `MCChunkGenerator_chunks` | a client that walks between two places, comes and goes, 1 chunk, 2 jobs, 1 edit of the colours | 361,890 | a pending key has a live job, a chunk in view arrives, a chunk out of view is unloaded with its creatures |
| `MCSessions_logins` | 2 connections of one account, 1 character with 1 change | 4,501,942 | an account is logged in while one entity is its player, a character is played once, what left the game is stored |
| `MCRegions_regions` | 3 entities, 2 clients of which one plays, 3 places around the corner of four regions, 2 events a tick | 792,933 | indices of neighbours are right, what is in view is known, what is known will be told of its end, but for what exits leave behind |
| `MCStreams_streams` | the server opens 1 stream, sends 2 messages of 2 frames on it, the client 1; the server may freeze, the connection may break or be full with 2 unread frames | 330,884 | a message finds its stream, a close comes after the last message, a disconnection ends unless writing blocks for good |

### Bounds

Two players are the parties of a trade; a third could only be a party of another
one, which the second trade of the same two already exercises (its effect on
`entity_trades` is the same). Two slots are the least for which an inventory is
neither empty nor full and for which swapping, splitting and pushing choose a
slot; two coins are the least stack that can be offered in part; the largest
amount equals the number of coins, so stacks fill up but never overflow.
`MaxOffer` is 1: a larger quantity adds up over several requests, and the run
reaches the same states as with 2. One slot each suffices where only the life
cycle of trades matters. A trade has no time-out and may stay open for ever:
nothing is claimed to happen to it.

Four players are the least for which a leader has more invites out than there is
room, and for which two groups exist whose members invite each other; three keys
are then never all in use. Two players with two pets reach every path of
splitting a group (an owner who leaves, a leader who leaves, a pet that dies),
and four keys leave room for the groups that are given up without being removed
(below). Two replacements of an entity let a handle go stale twice.

Two names with one job each at a time, and a second job of one of them, are the
least for which a job is turned away at its name's limit, at the global limit,
and for which one maintaining thread competes with another. For a chunk, one
client suffices: others differ from it in being told of results they did not ask
for, which a client that comes back also is. Two jobs are needed for the late
result of a cancelled one. A sweep takes two ticks instead of sixteen.

Two connections of one account are the least for two logins to race. With one
character a batch that is rolled back is one of a deleted character; batches of
several characters, one of which is deleted, need a second account, for which
there is no room in the run: that nothing is lost by them is a theorem. Four entities are never all named. In the three places of the
region run a creature is out of reach, in the tether of a neighbouring region, or
in view across a border; two events in a tick let an entity vanish and its index be
used again, or move while the observer moves. Larger steps (a teleport from a
region that is dropped into a third one that is not subscribed to) are not reached.

One stream with two messages of two frames exercises a message that is cut at
any frame, one that waits behind another, and a close that waits for both; several
streams only compete for bandwidth, of which the model grants any amount. The
server opens it, as in the game, and either side may close it, disconnect, drop its
participant or lose the connection at any moment, with any part of what was written lost. A window of two frames is less than the client has to write when it
closes the stream and disconnects.

Symmetry is used for interchangeable keys, connections and Uids only, and not where
liveness is checked.

### Fairness

- `InvitesSettle` assumes weak fairness of the time-out of each player's invite:
  the system runs in every tick, and 31 seconds after an invite was sent its
  instant has passed for good. Nobody is assumed to answer.
- `AllRun` assumes that threads go on and that submitted functions return.
- `Served` and `Unloaded` assume that the server ticks on, jobs are run, messages
  arrive and are read, and that a client goes on, now and then without having
  crossed into another chunk, and gives up on old requests. Reading a message is
  strongly fair, since the part of the tick that does it comes and goes.
- `Ends` assumes fairness of the steady participant alone: its `recv_mgr` gets what
  arrives, its timers run out, and its `send_mgr` comes round to a request to close the
  channel, the last only while writing does not block (`Heard`). The other side
  may freeze at any moment, and if it leaves the window full, `flush` never returns and
  nothing is claimed: `Ends` has `[]<>Heard` as its premise. Without it TLC finds the
  disconnection that never ends (see below).

### Restrictions of the group runs

The group properties hold within the limits of the runs and not beyond, as TLC
shows when they are lifted:

- A member with a pet who invites a third player gets a new group, and the pet
  stays in the old one although `common/src/comp/group.rs:375` looks for its owner
  there (`common/src/comp/group.rs:211`). `PetsFollow` needs two players; with
  three and pets `RegistryPaired`, `CountSound` and `GroupsInhabited` fail too,
  even under `StableSpec`.
- A group is disbanded around a member on the character screen, which has no
  `Alignment`; its component then names the key the `Slab` gives to the next group
  (`common/src/comp/group.rs:479`, against the count described at `:36`).
  `CountSound` and `ImplementsParties` need `StableSpec` or two players.
- The group of an owner on the character screen is disbanded, and its pet keeps
  the dead key: `RegistryPaired` and `PetsFollow` need `ApartSpec`.
- Before a transfer of the lead, a member's invites count from one; afterwards the
  invitees join the large group, and the limit is exceeded
  (`server/src/events/group_manip.rs:60`). `LimitKept` needs `StableSpec`.

## Where the code does not do what it says

| Run | Comment | What happens |
|---|---|---|
| `MCTrade_second` | `common/src/trade.rs:55-61` no manipulation past the first phase | a second trade of the same player takes the first one's place in `entity_trades`, and the gate looks at the second |
| `MCSessions_quit` | `server/src/events/player.rs:24` events that refer to a deleted entity "will be disrupted"; `state_ext.rs:404` asks for the Uid first | a client that quits with a character request under way: `Character` and `Terminate` come on two streams and are read in any order; if the disconnection is handled first, `initialize_character_data` unwraps the Uid of an entity that is gone, and the server ends |

Further observations from the modelling, for which no run is kept:

Trades and inventories

- A `Swap` of a slot with itself, if there is a stack in it, removes the stack and
  panics when the target is not there any more
  (`common/src/comp/inventory/mod.rs:187`); neither the handler
  (`server/src/events/inventory_manip.rs:424-436`) nor `merge_stack_into` compares the
  slots. The client's interface never sends it
  (`voxygen/src/ui/widgets/slot.rs:248`). `OnlySelfMergePanics` excepts it, and no
  other panic.
- Splitting an unstackable item onto an equal one overwrites the latter
  (`server/src/events/inventory_manip.rs:473`, `:494`).
- An offer is clamped to the stack when made; a stack that shrinks later leaves
  it larger than what is owned (`common/src/trade.rs:144`, against `:119`).
- Offering from an empty slot leaves an entry of zero (`common/src/trade.rs:141`,
  against `:120`), and the commit is then declined.
- A player who comes back from the character screen with another character finds
  his trade in review, the slots naming other goods (`server/src/events/player.rs:59`).

Groups and invites

- A player with a pet who accepts an invite first gets a group of his own, which
  is overwritten at once and never removed from the `Slab`
  (`common/src/comp/group.rs:189`, `:395`). With pets `GroupsInhabited` fails.
- When an invitee's entity is deleted, its entry stays in the inviter's list and
  counts towards the limit (`common/src/comp/invite.rs:28`).
- An invite whose inviter's entity is gone is passed over by the time-out system
  for ever (`server/src/sys/invite_timeout.rs:36`), and the invitee cannot be
  invited again (`server/src/events/invite.rs:80`).

Jobs and chunks

- Two threads that read the number of running jobs before either fires start more
  than the global limit. The next to read it subtracts below zero
  (`common/src/slowjob.rs:75`): a panic where overflow is checked, otherwise a
  budget of nearly 2^64 jobs. `SlowJobs` stops there (`overrun`), and `AllRun`
  excepts it.
- A job cancelled while a maintaining thread counts on it takes the turn of
  another name's job, which then waits for the next `maintain`.
- The late result of a cancelled generation ends the pending state of a new request for
  the same chunk (`server/src/chunk_generator.rs:66`). The job of that request can then
  no more be cancelled, and if both results are chunks, the chunk is populated twice.
- A request that is turned into an event in the same tick in which the chunk
  arrives has the chunk generated and populated a second time
  (`server/src/sys/msg/terrain.rs:82`); so has an edit of the world's colours, which
  regenerates loaded chunks (`server/src/lib.rs:658`).

Sessions

- An exit for a failed load followed by `Terminate` in the next tick: the
  disconnection names the old entity, `ping` is silenced for the client
  (`server/src/sys/msg/ping.rs:51`), and the account stays logged in for ever.
- A character is loaded while the save of its last exit is still queued
  (`server/src/persistence/character_loader.rs:139`): the stale data is played and
  saved next.
- `ExitInGameSuccess` is sent twice (`server/src/sys/msg/in_game.rs:46`,
  `server/src/events/player.rs:42`), and `*maybe_presence = None` in the former
  clears a temporary only.
- An alias is found invalid after its account was entered as logged in
  (`server/src/sys/msg/register.rs:141`, `server/src/login_provider.rs:149`); the
  account cannot log in again. `AccountPaired` excepts such accounts.
- One character that is gone rolls back the saves of all others in its batch
  (`server/src/persistence/character_updater.rs:88`). Those are characters still in
  the game, which are saved again; `NothingLost` rests on the save of a leaving
  player being a batch of its own.

Regions

- An entity that enters a region from one the client is being subscribed to in the same tick is in
  neither list and stays unknown (`server/src/sys/entity_sync.rs:141`, and the TODO in
  `subscription.rs`): `missed`.
- A player who leaves for the character screen stays behind as a ghost with the
  others, since the Uid is taken from the entity before its deletion would be
  recorded (`server/src/events/player.rs:37`, against `server/src/state_ext.rs:94`
  and `CHANGELOG.md:483`): `haunting`.
- The answer to an exit overtakes creations sent before it: the client clears its
  world (`client/src/lib.rs:1603`), then creates these entities, and the server,
  which has forgotten the client's regions, does not tell it of their end: `overtaken`.
- The tether is measured from the lower corner of a region, not from its border
  (`common/src/region.rs:151`).
- A changed view distance has no effect on the subscription until the player
  crosses into another chunk.
- The chunk of a position is rounded towards zero, so the chunks at negative
  coordinates are off by one in the subscription.

Network

- The last messages of a participant that disconnects may be lost. The last flush asks
  for `u64::MAX` bytes, and the share of a stream that is alone with its
  priority, `(total_bytes - cur_bytes) as i64`, is negative
  (`network/protocol/src/prio.rs:126`): besides one frame each of the guaranteed and
  the remaining bandwidth nothing is sent. `Participant::disconnect` is documented
  to wait "for all Streams to properly close, including all messages to be send
  before closing". `LastShare` models it.
- A stream that `send_mgr` opens after `recv_mgr` has ended is never closed; its
  receiver waits until the participant is disconnected.
- A `Participant` that is dropped in an asynchronous context while an `OpenStream` is under
  way: `b2a_stream_opened_s.send(stream).unwrap()` panics
  (`network/src/participant.rs:396`), and with it `finished_receiver` in the scheduler
  (`network/src/scheduler.rs:329`). `ReceivePanic` models the first.
- An `open` whose future is cancelled makes `return_s.send(stream).unwrap()` panic
  (`network/src/participant.rs:242`).
- A frozen peer with a full window blocks the flush of `send_mgr`
  (`network/src/participant.rs:284`, `:307`), but the time-out stops `recv_mgr` only
  (`network/src/participant.rs:563-576`): the disconnection does not end.
- A shutdown before the first channel exists fails an assertion
  (`network/src/participant.rs:542`).
- Streams the other side has closed stay in the `PrioManager`: `closeevents` is
  drained through a lazy iterator (`network/src/participant.rs:267`). `Shutdown` is
  therefore held back for good, and it is the end of the connection that tells the
  other side. Simply heeding these events would make `PrioManager::add` panic for
  a message that was queued before the close was noticed.
- A message of no bytes is a header without data and never complete at the
  receiver (`network/protocol/src/message.rs:69`, `tcp.rs:244`).


## What is proved

`TradeProofs`, for all sets of players, characters and items, all capacities and
all initial inventories, from the assumptions named in `Inventory` and `Trade`:

- `TypeCorrect`: `TypeOK` is invariant. It rests on lemmas about each inventory
  operator (`PushType`, `MergeType`, `TakeUnitsType`, ...) and says, among other
  things, that no arithmetic leaves the range of amounts and that unequipping
  never loses the item to a full inventory.
- `AtRestAlways`, `MappingAlways`: the invariants `AtRest` and `MappingSound`.
  They are not inductive alone: a trade begun under an id that is still alive
  would take over the entries of others, so `IInv` adds `LiveBelow`, that
  live trades have ids below `next_id`. `Evolves` states what one step can do
  to one trade; the invariant follows from it for all actions at once.
- `ReviewIsSealed`, `AcceptanceStaysFresh`: the action properties
  `SealedTermsKept` and `AcceptanceIsFresh`. `PartyPack` is the heart of both:
  the inventory of a party of an undisturbed trade changes only by its own
  manipulation past the gate.

Both action properties assume the trade undisturbed (`Undisturbed`: the parties
have no other live trade, are in the game and remain so in the step), which is
what second trades and returning with another character violate.

The second half of `TradeProofs`, about units of kinds, for any finite set of characters and as above
for the rest. Sums over slots and characters are folds of the community modules;
`FoldLemmas` proves what those compute for any finite set: first that the recursive
function behind them exists, then that a sum neither depends on the order of its
summands nor changes when one of them is replaced, but for the difference.
`FoldKeeps` says of any fold that its result has what its steps keep. The
induction in it is stated of a set of instances, not of a predicate, which is what the
provers can instantiate.

- `NothingDuplicated`: `NoDuplication` is invariant. The inductive invariant
  (`GoodsInv`) has `Total(k) <= StartTotal(k)` next to `IInv` and `PartiesDiffer`,
  that nobody trades with oneself: otherwise a commit would write two inventories
  to one character. Each inventory operator has a lemma on the units it adds or
  removes (`PushUnits`, `TakeUnitsUnits`, `MergeUnits`, `InsertUnits`, ...), each
  manipulation one that what the character loses is on the ground and what it gets
  was there. The total is not constant: a block's item or one used up may be lost.
- `ExchangeIsFair`: the action property `FairExchange`. `Received` is its heart: a
  push of a sequence of stacks that leaves nothing over adds their units and no
  others, in whatever order the stacks come, and `LeftUnits` that taking an offer
  out removes exactly what the offer names.
- `OnlySelfMerge`: `OnlySelfMergePanics`, that no panic but the one of a stack merged
  into itself (above) is reached, if no kind begins with more units than one stack holds
  (`StartTotal(k) <= MaxAmount`, where the code has 2^32 - 1). This is what an
  `expect()` in merging stacks relies on: without it a player may hold two stacks
  of a kind whose sum is no amount, and merge them. With it, `EnoughSlots` shows that
  the slots `DeltaSlots` counts are free at the moment of each push, which is the
  claim in the comment at the panic (`server/src/events/trade.rs:228`).
- `AgreementImplemented`: under the same bound `CarefulSpec` implements `Agreement`.
  `CarefulInv` adds to `GoodsInv` that a player is party to one live trade
  (`OneTrade`), that its parties are in the game and `entity_trades` names it
  (`InPlay`), that what was sealed is what is on the table (`SealedSound`) and that
  only what has ended has a result. `LiveStep` says what a step can make of a live
  trade, `TouchesOne` that it changes one trade; so it is one step of one deal.

`InvitesProofs`, for all sets of players, pets and keys, any number of entities
of a player and any size limit:

- `TypeCorrect`: `TypeOK` of `Invites` is invariant. One lemma for each operation
  of the registry says that every registry it may leave is a `Registry`; the
  interesting part is that member counts stay natural numbers.
- `InvitesArePaired`: `InvitePaired`, the agreement of the two components of an
  invite. It is not inductive: an entry for an entity that does not exist yet
  would become a false memory when the player's next entity appears. `Paired` adds
  `HandlesKnown`, that no invite and no entry names a future entity.

The second part of `InvitesProofs`, for groups of players (`Pet = {}`) of which nobody hands over the lead
or leaves for the character screen (`StableSpec`), for any players and keys and any
limit. Each of these restrictions is needed, see above.

- `RegistryAlwaysPaired`, `CountAlwaysSound`, `GroupsAlwaysInhabited`: `RegistryPaired`,
  `CountSound` and `GroupsInhabited` are invariant. The three are one invariant,
  that the registry is sound (`Sound`): a component names a live group, whose
  `num_members` is the number of its members, more than one, with the leader among them. An
  operation composes removals and additions, and each of these leaves one of four
  registries: a group dissolved, smaller by one, bigger by one or founded. All four
  are sound, which is counting of finite sets.
- `LimitAlwaysKept`: `LimitKept` is invariant. It is not inductive: the limit is
  checked when an invite is made and not when it is accepted. `RoomLeft` is: the
  members of a leader's group together with the invites that are out are at most
  the limit.
- `PartiesImplemented`: `Invites` implements `Parties` (`ImplementsParties`). What an
  operation leaves behind shows as one step of `Parties`, though an addition may
  have gone through a departure of either side first.

The third part of `InvitesProofs`, about pets, for any number of players, pets and keys, while
either nobody has a pet or nobody has left for the character screen (`ApartNext`):

- `PetsFollowTwo`: with two players `PetsFollow` is invariant, under the specification
  of the run `pair`.
- `PetsFollowLeaders`: so it is for any number of players under one more condition,
  `Recruits`: owners of pets who add somebody lead their group, or are led by whom
  they add. The run cannot show this, and with the restriction named above (a
  member with a pet who invites a third player) it says that this step of the
  code is the only one that parts a pet from its owner. With two players the condition
  holds by itself (`TwoRecruit`).
- `RegistryPairedWithPets`: under the same condition `RegistryPaired` holds until the
  first player leaves for the character screen.

The invariant is that the registry is in order (`Orderly`): groups are led by members who
are in the game, pets are where their owners are, and an owner in the game has a
group. The last part makes it inductive: `new_pet` gives an owner without a group one
with the new pet only, and a group of one member is dissolved around its leader, who
therefore can have no pet there. `RemovalOrderly` keeps it through a disbanding, which
splits the group in any order among those with pets, and through a departure.
`RemovalTrail` says where a removal leaves the others, which an addition, made
of up to two removals, needs.

`SlowJobsProofs`, for any finite sets of jobs and names, any number of callers and all limits:

- `TypeCorrect`: `TypeOK` is invariant, which says that no counter falls below
  zero. It needs the next.
- `CountersAlwaysAgree`: each counter equals the number of jobs it counts, in
  every interleaving of the threads. The argument is that of cardinalities: a
  step moves one job into or out of a finite set.
- `PoolImplemented`: `SlowJobs` implements `JobPool`; that the limit of a name is
  kept follows from its counter, which is read under the lock.

`ChunkGeneratorProofs`, for any number of clients, any finite set of chunks,
any number of jobs and any distances:

- `TypeCorrect`: `TypeOK` is invariant, among others that a client never waits for
  more than `MaxAsked` chunks.
- `PendingAlwaysAccounted`: `PendingAccounted` is invariant: whatever is cancelled,
  swept, regenerated or received late, a pending key names a job that will end its
  pending state. It is inductive with `TypeOK`: two keys cannot name one job,
  because a job has one key.

`SessionsProofs`, for any connections, accounts and characters, and all bounds:

- `TypeCorrect`, `AccountAlwaysPaired`, `PlayedOnceAlways`, `NothingEverLost`:
  `TypeOK`, `AccountPaired`, `PlayedOnce` and `NothingLost` are invariant. `IInv`
  says what an event, a request or an answer may still assume of the entity it
  names. `InitSound`: if the entity is there, it is a player who owns the character
  and has no data, and none of another character is under way to it. `LoaderSound`
  and `AnswersSound`: where data is fetched for it, its character was entered before.
  That rests on the order within a tick, `PhaseSound`: characters are entered in
  the tick that reads the request, and answers are taken after that.
  `StoredOrUnderWay` is `NothingLost` while saves are queued: the last save of a
  character that is out of the game is a batch of its own with what it left
  with, so no other character can have it rolled back.

`StreamsProofs`, for any numbers of streams and messages of each participant, any
number of frames, any priorities, and a connection that may break at any moment,
from `EndAssumption` and `FrameAssumption` alone:

- `TypeCorrect`: `TypeOK` is invariant, among others that `grab` never takes more
  frames of a stream than it has.
- `NeverUnknown`: `NoPanic` is invariant: `PrioManager::add` finds the stream of every
  message it is given (`network/protocol/src/prio.rs:68`). It needs what each part of
  a participant knows of a stream over its whole life (`Life`): nobody knows of it
  before it is opened; the other side not before its one `OpenStream` has arrived,
  which nothing of the stream overtakes. And it needs that every stream the
  application can send on is in the queue or announced to `send_mgr` (`Ready`).
- `CloseComesLast`: `ClosedComplete` is invariant. What has been sent on a stream is
  the concatenation of what was delivered, what is on the wire, what is queued and
  what waits in the channel (`Flow`): messages `1..d`, `d+1..t`, `t+1..q` and
  `q+1..sent`. Every action moves one of the borders. Behind a `CloseStream` there is
  no data (`Over`), and a close on the wire means that `t` has reached `sent`.
  The queue is the hard part: a flush takes frames from any streams in any shares,
  and `ShareFlow`, `GrabFacts` and `FlushFacts` show that what this completes is, for
  each stream, exactly what its queue loses. Once the connection is broken the
  sender's parts no longer count, since what it writes reaches nobody.

`Acquainted` and `Flows` are inductive together with `Typed` (`StreamsInv`); `TurnResult`
reduces a turn of `send_mgr`, of which the model has every fold and every order of
`grab`, to what it takes, writes and leaves.

`RegionsProofs`, for any finite set of entity indices and any clients, Uids and
places, from `RegionConstants` alone:

- `RegionsAlwaysSound`: `RegionsSound` is invariant: a tracked entity is in exactly
  one region, no region is there twice, and a region's eight neighbours have the
  indices it keeps of them. `MapInv` adds the types of the regions and of the positions they
  are found by. `InsertKeeps` and
  `RemoveKeeps` are the heart: an insertion links the new region in both directions,
  because the offset of direction `i + 4` undoes that of `i` (`NeighborSymmetric`);
  after `swap_remove` an index means the same region as before, but for the removed
  one and the last, which its neighbours were told of (`OriginIs`). Adding, switching and
  dropping an entity keep the regions apart, a region that is removed is empty. A
  tick is four folds of such steps, with `FoldKeeps` for each. Pruning needs
  that no removal takes away a region still on the list, or the `unwrap`
  at `common/src/region.rs:199` would panic; the invariant of that fold says so.
- `TypeCorrect`: `TypeOK` is invariant, among others that a client owns at most one
  entity and that a client with a subscription is in the game: what the end of a tick sends
  is computed from its position. `TypeInv` adds to `MapInv` that an entity a client owns
  has a Uid (`Owned`), so an index that is used again belongs to nobody. A step of `Event` is a
  composition of creations, moves and deletions, and each has a lemma of its own
  (`SpawnTyped`, `MovedTyped`, `DeleteTyped`, ...).
- `NoGhostsAlways`: `NoGhosts` is invariant: at the end of a tick, what a client knows
  is in a region it is told about, itself, a player who left the game, or an entity
  whose creation its own exit's answer overtook (`Stale` stands for the last two). The
  hard part is within a tick, when entities are deleted, their indices used again, and
  regions lose their last entity, are removed and come back. `GhostInv` says that whatever a
  client knows has somebody who will tell it of the end (`Followed`, `Excused`): an entity
  of a region it is told about, or a deletion the tracker of such a region has yet to send.
  `Traced` relates the map a tick leaves to the map it found: where an entity was, where it
  is, and in which regions' events its way can be read. From that follows
  that what leaves a client's regions is either seen to leave or seen to be deleted there.
- `InViewAlways`: `InView` is invariant: at the end of a tick a client knows all in its view
  distance that was not passed over, for any view distance and however
  far anything moves between two ticks. `ViewInv` has that an entity with a position is in a
  region it has not strayed from (`Housed`), that a client's regions are those around the chunk it
  was last seen to be in, which it has not left by more than the fuzz (`Centred`), and
  that it knows the entities of its regions (`Informed`). Then it is geometry: along each axis a
  client may have moved 34 blocks since its chunk was noted (`NotCrossed`) and an entity be 16 out of
  its region (`NotStrayed`), so the region of an entity in view is at most the view
  distance and 50 diagonals away. `Reach` is 34 diagonals and `region_in_vd` adds 16
  for the tether: exactly as much, and the comparison is strict. It is enough because
  the two are never equal. They could only be if both axes took all their 50 blocks,
  and since chunks and regions lie on a grid of 32 blocks that needs client and entity to
  be 14 blocks more than whole chunks apart on each; no such diagonal is a view distance
  (`NoDiagonal`, `SlackSuffices`). A view distance of zero is no exception.

`NoGhostsAlways` and `InViewAlways` use an assumption on the model's own constant: `None`, which stands for
no region and no chunk, is no pair of integers.

Model-checked only: the other invariants of `Invites` and its
refinement where there are pets, and all of them where there are players on the character
screen or transfers of the lead, within the limits above; and the liveness
properties `InvitesSettle`, `AllRun`, `Served`, `Unloaded` and `Ends`, which are out
of the prover's reach.

## Not modelled

Slots granted by bags and moving several equipment slots, crafting, taming with
a collar, item commands of administrators, reach and death checks of pick-ups,
and prices of merchants are left out of the inventory and trade modules. The
fixed groups of NPCs and enemies, invites to merchants (answered by the agent's
heuristics) and the notifications of clients are left out of groups and invites.

Of sessions: bans while in the game, creation and lists of characters, chat; of
persistence: the SQL and its migrations. `Sessions` states no liveness: its
instance is too large for TLC to look for cycles in it. Of terrain: changes of
single blocks, what a chunk contains, and the creatures that wander out of their
chunk. Of synchronisation: values of components and the rate of physics. Of the
network library: the scheduler, the handshake, the layout of frames, channels
within a process, and several channels of one participant.

Recipes are sequential code with unit tests of their own. Physics, combat,
agents, rtsim and world generation are numeric or random; voxygen, server-cli and
plugins are interface code.
