------------------------------- MODULE Regions -------------------------------
(* How the entities of the server reach the clients that are near them.     *)
(*                                                                          *)
(* A tick handles events, which create, move and delete entities, and ends  *)
(* with three things nothing comes between: the region map is brought up to *)
(* date, subscription decides which regions a client is told about, and     *)
(* entity_sync tells it what happened in them.  An entity is an index that  *)
(* is used again once it is free; its Uid is not.  Deletions of the cleanup *)
(* after a tick are those at the start of the next.                         *)
(*                                                                          *)
(* What is told about entities goes over one stream in order, and a client  *)
(* has read all of it when the next tick begins to send.  The answer to an  *)
(* exit to the character screen goes over another: the client may read it   *)
(* and clear its world before it reads creations that were sent earlier.    *)
EXTENDS RegionMap, FiniteSets

CONSTANTS
  Entity,          \* entity indices, numbers
  Client,          \* clients
  Watcher,         \* bound: the clients whose character gets loaded
  Uid,             \* unique ids; one is free again when nothing names it
  Place,           \* positions, pairs of non-negative blocks
  Lookout,         \* bound: the positions players take
  SpawnPoint,      \* where a character appears before it is loaded
  view_distance,   \* Presence::view_distance of every client, in chunks
  MaxEvents        \* bound: events in a tick

ASSUME RegionConstants ==
  /\ Entity \subseteq Nat /\ IsFiniteSet(Entity)
  /\ Watcher \subseteq Client
  /\ Place \subseteq Nat \X Nat
  /\ Lookout \subseteq Place /\ SpawnPoint \in Lookout
  /\ view_distance \in Nat /\ MaxEvents \in Nat
  /\ None \notin Uid /\ None \notin Place /\ None \notin Client
  /\ None \notin Int \X Int   \* it is no key and no chunk

CHUNK       == 32   \* TerrainChunkSize::RECT_SIZE
CHUNK_FUZZ  == 2
REGION_FUZZ == 16

VARIABLES
  handled,    \* events handled in this tick
  uid,        \* Uid components
  pos,        \* Pos components
  owner,      \* the client whose Client component the entity has
  subs,       \* the RegionSubscription of the client's entity
  inserted,   \* entities that got their Uid since sentinel last looked
  deleted,    \* DeletedEntities, by region
  regions,    \* the RegionMap and
  tracked,    \* its tracked_entities
  known,      \* the Uids of the entities in each client's world
  missed,     \* history: entities entity_sync passed over for a client
  haunting,   \* history: Uids that left the game and are still known to others
  overtaken   \* history: Uids from before a client left the game that it read
              \* of after it had cleared its world

ecs     == <<uid, pos, owner, inserted>>
map     == <<regions, tracked>>
history == <<missed, haunting, overtaken>>
vars    == <<handled, ecs, subs, deleted, map, known, history>>

Keys == {pos_key(p) : p \in Place}
NotSubscribed == [fuzzy_chunk |-> None, regions |-> {}]

Alive(id)  == uid[id] # None
Avatar(c)  == CHOOSE id \in Entity : owner[id] = c
Online(c)  == \E id \in Entity : owner[id] = c
InGame(c)  == Online(c) /\ pos[Avatar(c)] # None
OwnUid(c)  == uid[Avatar(c)]
Synced(c)  == InGame(c) /\ subs[c] # NotSubscribed
UidsOf(ids) == {uid[id] : id \in ids} \ {None}

FreshUid(u) ==
  /\ u \notin UidsOf(Entity)
  /\ \A c \in Client : u \notin known[c] \cup missed[c]
  /\ \A key \in Keys : u \notin deleted[key]

Init ==
  /\ handled = 0
  /\ uid = [id \in Entity |-> None]
  /\ pos = [id \in Entity |-> None]
  /\ owner = [id \in Entity |-> None]
  /\ subs = [c \in Client |-> NotSubscribed]
  /\ inserted = {}
  /\ deleted = [key \in Keys |-> {}]
  /\ regions = <<>> /\ tracked = {}
  /\ known = [c \in Client |-> {}]
  /\ missed = [c \in Client |-> {}] /\ haunting = {}
  /\ overtaken = [c \in Client |-> {}]

-----------------------------------------------------------------------------
(* Events *)

Handle(A) ==
  /\ handled < MaxEvents /\ handled' = handled + 1
  /\ A
  /\ UNCHANGED map

\* create_entity_synced: a new entity with a Uid.
Spawn(id, u, c, p) ==
  /\ ~Alive(id) /\ FreshUid(u)
  /\ uid' = [uid EXCEPT ![id] = u]
  /\ pos' = [pos EXCEPT ![id] = p]
  /\ owner' = [owner EXCEPT ![id] = c]
  /\ inserted' = inserted \cup {id}
  /\ UNCHANGED <<subs, deleted, history>>

CreateNpc(id, u, p) == Spawn(id, u, None, p) /\ UNCHANGED known

\* A client connects; its world holds its own entity.
Connect(id, u, c) ==
  /\ ~Online(c)
  /\ Spawn(id, u, c, None)
  /\ known' = [known EXCEPT ![c] = {u}]

\* Physics, a teleport or a respawn.
Move(id, p) ==
  /\ Alive(id) /\ pos[id] # None /\ p # pos[id]
  /\ owner[id] # None => p \in Lookout
  /\ pos' = [pos EXCEPT ![id] = p]
  /\ UNCHANGED <<uid, owner, inserted, subs, deleted, known, history>>

\* The deletion of an entity is recorded in the region it was last seen in.
Record(id, u) ==
  deleted' = IF u # None /\ pos[id] # None /\ find_region(regions, id) # None
             THEN [deleted EXCEPT ![find_region(regions, id)] = @ \cup {u}]
             ELSE deleted

Delete(id) ==
  /\ Alive(id) /\ pos[id] # None /\ owner[id] = None
  /\ Record(id, uid[id])
  /\ uid' = [uid EXCEPT ![id] = None]
  /\ pos' = [pos EXCEPT ![id] = None]
  /\ inserted' = inserted \ {id}
  /\ UNCHANGED <<owner, subs, known, history>>

handle_client_disconnect(c) ==
  LET id == Avatar(c)
  IN  /\ Online(c)
      /\ Record(id, uid[id])
      /\ uid' = [uid EXCEPT ![id] = None]
      /\ pos' = [pos EXCEPT ![id] = None]
      /\ owner' = [owner EXCEPT ![id] = None]
      /\ inserted' = inserted \ {id}
      /\ subs' = [subs EXCEPT ![c] = NotSubscribed]
      /\ known' = [known EXCEPT ![c] = {}]
      /\ missed' = [missed EXCEPT ![c] = {}]
      /\ overtaken' = [overtaken EXCEPT ![c] = {}]
      /\ UNCHANGED haunting

\* Mutant: the subscription stays with the client.
handle_exit_subscribed(c, new, late) ==
  LET id == Avatar(c)
  IN  /\ InGame(c) /\ ~Alive(new) /\ uid[id] \notin late
      /\ Record(id, None)
      /\ uid' = [uid EXCEPT ![new] = uid[id], ![id] = None]
      /\ pos' = [pos EXCEPT ![id] = None]
      /\ owner' = [owner EXCEPT ![new] = c, ![id] = None]
      /\ inserted' = (inserted \ {id}) \cup {new}
      /\ known' = [known EXCEPT ![c] = {uid[id]} \cup late]
      /\ missed' = [missed EXCEPT ![c] = {}]
      /\ overtaken' = [overtaken EXCEPT ![c] = late]
      /\ UNCHANGED <<subs, haunting>>

\* The client goes on as another entity with the same Uid.  The old one has
\* lost its Uid by the time it is deleted.  The client clears its world, and
\* then reads of the entities in `late`.
handle_exit_ingame(c, new, late) ==
  LET id == Avatar(c)
  IN  /\ InGame(c) /\ ~Alive(new) /\ uid[id] \notin late
      /\ Record(id, None)
      /\ uid' = [uid EXCEPT ![new] = uid[id], ![id] = None]
      /\ pos' = [pos EXCEPT ![id] = None]
      /\ owner' = [owner EXCEPT ![new] = c, ![id] = None]
      /\ inserted' = (inserted \ {id}) \cup {new}
      /\ subs' = [subs EXCEPT ![c] = NotSubscribed]
      /\ known' = [known EXCEPT ![c] = {uid[id]} \cup late]
      /\ missed' = [missed EXCEPT ![c] = {}]
      /\ overtaken' = [overtaken EXCEPT ![c] = late]
      /\ haunting' = IF \E d \in Client \ {c} : uid[id] \in known[d]
                     THEN haunting \cup {uid[id]} ELSE haunting

initialize_character_data(c) ==
  /\ Online(c) /\ ~InGame(c)
  /\ pos' = [pos EXCEPT ![Avatar(c)] = SpawnPoint]
  /\ UNCHANGED <<uid, owner, inserted, subs, deleted, known, history>>

-----------------------------------------------------------------------------
(* Subscriptions *)

ChunkOf(p) == <<p[1] \div CHUNK, p[2] \div CHUNK>>

Reach == [blocks |-> view_distance * CHUNK, diagonals |-> CHUNK_FUZZ + CHUNK]
Keep  == [blocks |-> view_distance * CHUNK, diagonals |-> CHUNK_FUZZ + REGION_FUZZ + CHUNK]

At(m, keys) == {m[i] : i \in {j \in DOMAIN m : m[j].key \in keys}}

\* The entities of some regions that have a position, but for the client's own.
Visible(m, keys, own, where) ==
  UidsOf({id \in UNION {region.bitset : region \in At(m, keys)} :
            where[id] # None /\ id # own})

\* handle_loaded_character_data: the character moves to its waypoint, if it has
\* one, and the client is told of the regions around it, as they were in the
\* tick before.
LoadedCharacterData(c, p) ==
  LET near == regions_in_vd(p, Reach)
  IN  /\ InGame(c) /\ ~Synced(c)
      /\ pos' = [pos EXCEPT ![Avatar(c)] = p]
      /\ subs' = [subs EXCEPT ![c] = [fuzzy_chunk |-> ChunkOf(p), regions |-> near]]
      /\ known' = [known EXCEPT ![c] =
                     @ \cup Visible(regions, near, Avatar(c), pos') \cup {OwnUid(c)}]
      /\ UNCHANGED <<uid, owner, inserted, deleted, history>>

Crossed(fuzzy, p) ==
  /\ ChunkOf(p) # fuzzy
  /\ \E axis \in 1..2 :
       Distance(fuzzy[axis] * CHUNK + CHUNK \div 2, p[axis]) > CHUNK \div 2 + CHUNK_FUZZ

\* The subscription system for one client.
Kept(c) == {key \in subs[c].regions : region_in_vd(key, pos[Avatar(c)], Keep)}

Subscription(c) ==
  LET p == pos[Avatar(c)]
  IN  IF Synced(c) /\ Crossed(subs[c].fuzzy_chunk, p)
      THEN [fuzzy_chunk |-> ChunkOf(p), regions |-> Kept(c) \cup regions_in_vd(p, Reach)]
      ELSE subs[c]

\* Mutant: what was deleted in a dropped region is left to entity_sync.
ForgottenAlive(m, c, dropped) ==
  LET Leavers(region) == {e.id : e \in {f \in region.left : f.key \notin Kept(c)}}
  IN  UidsOf(UNION {Leavers(region) \cup region.bitset : region \in At(m, dropped)})

\* What a client is told to forget: those that left a dropped region for one it
\* is not told about, those still in it and those deleted there.
Forgotten(m, c, dropped) ==
  LET Leavers(region) == {e.id : e \in {f \in region.left : f.key \notin Kept(c)}}
  IN  UidsOf(UNION {Leavers(region) \cup region.bitset : region \in At(m, dropped)})
      \cup UNION {deleted[key] : key \in dropped \cap Keys}

AfterSubscription(m, c) ==
  LET now == Subscription(c).regions
  IN  (known[c] \ (Forgotten(m, c, subs[c].regions \ now) \ {OwnUid(c)}))
      \cup Visible(m, now \ subs[c].regions, Avatar(c), pos)

-----------------------------------------------------------------------------
(* Entity synchronisation *)

\* Mutant: new entities are left to their own package, and so are those that
\* were not in a region before.
ArrivedFromElsewhere(c, region, now) ==
  UidsOf({e.id : e \in {f \in region.entered :
            /\ f.id \notin inserted /\ pos[f.id] # None
            /\ f.key # None /\ f.key \notin now /\ f.id # Avatar(c)}})

\* Entities that entered a region, but for new ones, from one the client is not
\* told about.
Arrived(c, region, now) ==
  UidsOf({e.id : e \in {f \in region.entered :
            /\ f.id \notin inserted /\ pos[f.id] # None
            /\ f.key \notin now /\ f.id # Avatar(c)}})

Departed(region, now) == UidsOf({e.id : e \in {f \in region.left : f.key \notin now}})

\* The client's world after the messages about one region: the events, then the
\* EntitySync package with the new and the deleted entities.
AfterRegion(c, now, world, region) ==
  IF region.key \in now
  THEN ((((world \ (Departed(region, now) \ {OwnUid(c)})) \cup Arrived(c, region, now))
         \cup UidsOf(region.bitset \cap inserted))
        \ deleted[region.key])
  ELSE world

\* Deletions in regions that are not in the map go out last.
AfterSync(m, c) ==
  LET now     == Subscription(c).regions
      mapped  == {m[i].key : i \in DOMAIN m}
      orphans == UNION {deleted[key] : key \in (now \cap Keys) \ mapped}
  IN  IF ~Synced(c) THEN known[c]
      ELSE FoldLeft(LAMBDA world, region : AfterRegion(c, now, world, region),
                    AfterSubscription(m, c), m)
           \ (orphans \ {OwnUid(c)})

\* Entities that entered a region from one the client asked for in this tick:
\* neither that region's entities any more nor news to its subscribers.
PassedOver(m, c) ==
  LET now    == Subscription(c).regions
      recent == now \ subs[c].regions
  IN  UidsOf({e.id : e \in {f \in UNION {region.entered : region \in At(m, now)} :
                              f.key \in recent}})

-----------------------------------------------------------------------------
(* The end of a tick *)

\* The events of the regions have been read and are left out of the state: the
\* next tick begins by clearing them.
update_region_map(next) ==
  /\ regions' = ClearEvents(next.regions)
  /\ tracked' = next.tracked

run_sync_systems(m) ==
  /\ subs' = [c \in Client |-> Subscription(c)]
  /\ known' = [c \in Client |-> AfterSync(m, c)]
  /\ inserted' = {}
  /\ deleted' = [key \in Keys |-> {}]
  /\ missed' = [c \in Client |->
       IF ~Synced(c) THEN {}
       ELSE ((missed[c] \cup PassedOver(m, c)) \ known'[c])
            \cap Visible(m, Subscription(c).regions, Avatar(c), pos)]
  /\ haunting' = {u \in haunting : \E c \in Client : u \in known'[c] /\ u # OwnUid(c)}
  /\ overtaken' = [c \in Client |-> (overtaken[c] \cap known'[c])
                                    \ Visible(m, Subscription(c).regions, Avatar(c), pos)]

EndOfTick ==
  LET next == tick(regions, tracked, pos)
  IN  /\ handled' = 0
      /\ update_region_map(next) /\ run_sync_systems(next.regions)
      /\ UNCHANGED <<uid, pos, owner>>

Event ==
  \/ \E id \in Entity, u \in Uid, p \in Place : CreateNpc(id, u, p)
  \/ \E id \in Entity, u \in Uid, c \in Client : Connect(id, u, c)
  \/ \E id \in Entity, p \in Place : Move(id, p)
  \/ \E id \in Entity : Delete(id)
  \/ \E c \in Client : handle_client_disconnect(c)
  \/ \E c \in Client, new \in Entity : \E late \in SUBSET known[c] : handle_exit_ingame(c, new, late)
  \/ \E c \in Client : initialize_character_data(c)
  \/ \E c \in Watcher, p \in Lookout : LoadedCharacterData(c, p)

Next == Handle(Event) \/ EndOfTick

Spec == Init /\ [][Next]_vars

-----------------------------------------------------------------------------
(* Properties *)

TypeOK ==
  /\ handled \in 0..MaxEvents
  /\ uid \in [Entity -> Uid \cup {None}]
  /\ pos \in [Entity -> Place \cup {None}]
  /\ owner \in [Entity -> Client \cup {None}]
  /\ \A c \in Client : Cardinality({id \in Entity : owner[id] = c}) <= 1
  /\ inserted \subseteq {id \in Entity : Alive(id)}
  /\ deleted \in [Keys -> SUBSET Uid]
  /\ \A c \in Client : subs[c] # NotSubscribed => InGame(c)
  /\ tracked \subseteq Entity
  /\ known \in [Client -> SUBSET Uid]
  /\ missed \in [Client -> SUBSET Uid] /\ haunting \subseteq Uid
  /\ overtaken \in [Client -> SUBSET Uid]

Tenants(m) == UNION {m[i].bitset : i \in DOMAIN m}

Distinct(m) == \A i, j \in DOMAIN m : i # j => m[i].key # m[j].key

Apart(m) == \A i, j \in DOMAIN m : i # j => m[i].bitset \cap m[j].bitset = {}

Linked(m) == \A i \in DOMAIN m, o \in 1..8 :
               m[i].neighbors[o] = key_index(m, Neighbor(m[i].key, o))

\* Every tracked entity is in exactly one region, no region is there twice, and
\* the indices a region keeps of its neighbours are those of the neighbours,
\* after any sequence of insertions and removals that shift the others.
RegionsSound ==
  tracked = Tenants(regions) /\ Distinct(regions) /\ Apart(regions) /\ Linked(regions)

InSight(p, q) ==
  Distance(p[1], q[1]) * Distance(p[1], q[1]) + Distance(p[2], q[2]) * Distance(p[2], q[2])
    <= (view_distance * CHUNK) * (view_distance * CHUNK)

Unseen(c) == {id \in Entity :
  /\ id # Avatar(c) /\ Alive(id) /\ pos[id] # None
  /\ InSight(pos[Avatar(c)], pos[id])
  /\ uid[id] \notin known[c]}

\* When a tick ends, a client knows every entity in its view distance, however
\* it and the entity moved in between, except those entity_sync passed over.
InView ==
  handled = 0 =>
    \A c \in Client : Synced(c) => UidsOf(Unseen(c)) \subseteq missed[c]

\* When a tick ends, every entity a client knows is one the server goes on
\* telling it about, so that it will learn of its end; except the entities of
\* players who left for the character screen, and what the client read of after
\* its own exit until the server tells it of that again: both of these stay.
NoGhosts ==
  handled = 0 =>
    \A c \in Client : Synced(c) =>
      known[c] \subseteq {OwnUid(c)} \cup haunting \cup overtaken[c]
                         \cup Visible(regions, subs[c].regions, Avatar(c), pos)
=============================================================================
