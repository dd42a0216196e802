--------------------------- MODULE ChunkGenerator ----------------------------
(***************************************************************************)
(* How chunks of terrain come and go: clients ask for them                 *)
(* (client/src/lib.rs), the server answers from memory or has a slow job   *)
(* generate them (server/src/sys/msg/terrain.rs, chunk_generator.rs), and  *)
(* the terrain system takes in results, populates new chunks and drops     *)
(* those nobody is near (server/src/sys/terrain.rs).                       *)
(*                                                                         *)
(* A tick of the server is a sequence of steps, between which clients and  *)
(* workers go on: messages, the terrain system, events, the end of the     *)
(* tick. The world is a line of chunks.                                    *)
(***************************************************************************)
EXTENDS Integers, FiniteSets

CONSTANTS
  Client,
  Key,            \* chunks that clients come near to, as coordinates
  Place,          \* coordinates of the chunks where players stand
  view_distance,  \* of every client, in chunks
  Job,            \* generation jobs that exist at a time
  SweepTicks,     \* a loaded chunk is looked at once in as many ticks (16)
  MaxAsked,       \* chunks a client waits for at a time (4)
  MaxReloads,     \* how often the colours of the world are edited
  NoJob, NoOne, Out

ASSUME WorldAssumption == /\ Key \subseteq Int /\ IsFiniteSet(Key) /\ Place \subseteq Int
                          /\ view_distance \in Nat \ {0}
                          /\ SweepTicks \in Nat \ {0} /\ MaxAsked \in Nat \ {0}
                          /\ MaxReloads \in Nat
ASSUME NamesAssumption == Out \notin Place /\ NoJob \notin Job /\ NoOne \notin Client

VARIABLES
  \* the server
  phase,          \* which part of the tick is next
  tick,           \* modulo SweepTicks
  pos,            \* where the server sees each client; Out: not in the game
  events,         \* ChunkRequest events of this tick: a client and a key
  pending,        \* pending_chunks: the job whose flag would cancel the key
  job,            \* slow jobs until their result is received
  terrain,        \* loaded chunks
  npcs,           \* how many times the chunk's creatures are in the world
  reloads,        \* edits of the colours so far
  \* each client, and what is under way to and from it
  place,          \* where the player stands
  moving,         \* the last position sent and not yet handled; Out: none
  chunks,         \* the chunks it has
  asked,          \* the client's own pending_chunks
  requests,       \* requests under way
  updates         \* answers under way: a key, and whether the chunk is in it

serverVars == <<phase, tick, pos, events, pending, job, terrain, npcs, reloads>>
clientVars == <<place, moving, chunks, asked, requests, updates>>
vars == <<serverVars, clientVars>>

NoTask == [key |-> Out, entity |-> NoOne, cancel |-> FALSE, state |-> "none"]
Task   == [key : Key, entity : Client \cup {NoOne}, cancel : BOOLEAN,
           state : {"working", "ok", "err"}]
Update == [key : Key, ok : BOOLEAN]

TypeOK ==
  /\ phase \in {"messages", "terrain", "events"}
  /\ tick \in 0..(SweepTicks - 1)
  /\ pos \in [Client -> Place \cup {Out}]
  /\ events \subseteq (Client \cup {NoOne}) \X Key
  /\ pending \in [Key -> Job \cup {NoJob}]
  /\ job \in [Job -> Task \cup {NoTask}]
  /\ terrain \subseteq Key
  /\ npcs \in [Key -> 0..2]
  /\ reloads \in 0..MaxReloads
  /\ place \in [Client -> Place \cup {Out}]
  /\ moving \in [Client -> Place \cup {Out}]
  /\ chunks \in [Client -> SUBSET Key]
  /\ asked \in [Client -> SUBSET Key]
  /\ \A c \in Client : Cardinality(asked[c]) <= MaxAsked
  /\ requests \in [Client -> SUBSET Key]
  /\ updates \in [Client -> SUBSET Update]

Init ==
  /\ phase = "messages" /\ tick = 0 /\ events = {}
  /\ pos = [c \in Client |-> Out]
  /\ pending = [k \in Key |-> NoJob]
  /\ job = [j \in Job |-> NoTask]
  /\ terrain = {} /\ npcs = [k \in Key |-> 0] /\ reloads = 0
  /\ place = [c \in Client |-> Out] /\ moving = [c \in Client |-> Out]
  /\ chunks = [c \in Client |-> {}]
  /\ asked = [c \in Client |-> {}]
  /\ requests = [c \in Client |-> {}]
  /\ updates = [c \in Client |-> {}]

-----------------------------------------------------------------------------
(* Distances *)

Dist(p, k) == IF p < k THEN k - p ELSE p - k

\* chunk_in_vd: two chunks are taken off, for the neighbours a mesh needs and
\* for a player that moves on. Client and server use the same formula.
InVd(p, k) == p # Out /\ Dist(p, k) <= view_distance + 2

\* Chunks a client requests.
Wanted(p, k) == p # Out /\ Dist(p, k) <= view_distance

\* Requests are measured from the exact position to the middle of the chunk: at
\* a distance of three more than is viewed, one is granted if the player stands
\* at the very edge of its chunk.
SurelyInRange(p, k) == p # Out /\ Dist(p, k) <= view_distance + 2
MaybeInRange(p, k)  == p # Out /\ Dist(p, k) <= view_distance + 3

\* The clients who are sent the chunk k.
Nearby(k) == {c \in Client : InVd(pos[c], k)}

Tell(who, k, ok) ==
  updates' = [c \in Client |-> IF c \in who THEN updates[c] \cup {[key |-> k, ok |-> ok]}
                               ELSE updates[c]]

-----------------------------------------------------------------------------
(* ChunkGenerator *)

Free == {j \in Job : job[j] = NoTask}

\* generate_chunk: nothing if the key is pending.
GenerateChunk(e, k) ==
  \/ /\ pending[k] # NoJob
     /\ UNCHANGED <<pending, job>>
  \/ /\ pending[k] = NoJob
     /\ \E j \in Free :
          /\ job' = [job EXCEPT ![j] = [key |-> k, entity |-> e, cancel |-> FALSE,
                                        state |-> "working"]]
          /\ pending' = [pending EXCEPT ![k] = j]

\* The job: it looks at its flag now and then, the last time well before it is
\* done.
Work(j) ==
  /\ job[j].state = "working"
  /\ \E s \in IF job[j].cancel THEN {"ok", "err"} ELSE {"ok"} :
       job' = [job EXCEPT ![j].state = s]
  /\ UNCHANGED <<phase, tick, pos, events, pending, terrain, npcs, reloads, clientVars>>

\* The flags of the jobs pending for the keys in K are set.
Cancelled(K) ==
  [j \in Job |-> IF \E k \in K : pending[k] = j THEN [job[j] EXCEPT !.cancel = TRUE]
                 ELSE job[j]]

-----------------------------------------------------------------------------
(* A tick of the server *)

HandlePosition(c) ==
  /\ phase = "messages" /\ moving[c] # Out
  /\ pos' = [pos EXCEPT ![c] = moving[c]]
  /\ moving' = [moving EXCEPT ![c] = Out]
  /\ UNCHANGED <<phase, tick, events, pending, job, terrain, npcs, reloads,
                 place, chunks, asked, requests, updates>>

\* A request is answered from memory, becomes an event, or is passed over. It
\* stays under way while the bound on jobs leaves no room for its event.
HandleRequest(c, k) ==
  /\ phase = "messages" /\ k \in requests[c]
  /\ requests' = [requests EXCEPT ![c] = @ \ {k}]
  /\ \/ /\ MaybeInRange(pos[c], k) /\ k \in terrain
        /\ Tell({c}, k, TRUE) /\ UNCHANGED events
     \/ /\ MaybeInRange(pos[c], k) /\ k \notin terrain
        /\ Cardinality(events) < Cardinality(Free)
        /\ events' = events \cup {<<c, k>>} /\ UNCHANGED updates
     \/ /\ ~SurelyInRange(pos[c], k)
        /\ UNCHANGED <<events, updates>>
  /\ UNCHANGED <<phase, tick, pos, pending, job, terrain, npcs, reloads,
                 place, moving, chunks, asked>>

\* The message systems are done for this tick.
EndMessages ==
  /\ phase = "messages" /\ phase' = "terrain"
  /\ UNCHANGED <<tick, pos, events, pending, job, terrain, npcs, reloads, clientVars>>

\* recv_new_chunk and what the terrain system does with the result: whatever
\* job it is of, the key is not pending any more; a chunk is sent to everyone
\* near, inserted and populated, an error goes to who first asked.
Receive(j) ==
  LET k == job[j].key IN
  /\ phase = "terrain" /\ job[j].state \in {"ok", "err"}
  /\ pending' = [pending EXCEPT ![k] = NoJob]
  /\ job' = [job EXCEPT ![j] = NoTask]
  /\ \/ /\ job[j].state = "ok"
        /\ Tell(Nearby(k), k, TRUE)
        /\ terrain' = terrain \cup {k}
        /\ npcs' = [npcs EXCEPT ![k] = IF @ = 2 THEN 2 ELSE @ + 1]
     \/ /\ job[j].state = "err"
        /\ Tell({job[j].entity}, k, FALSE)
        /\ UNCHANGED <<terrain, npcs>>
  /\ UNCHANGED <<phase, tick, pos, events, reloads, place, moving, chunks, asked, requests>>

\* Mutant: chunks are numbered from one, ticks from zero.
TurnShifted(k) == Dist(0, k) % SweepTicks = tick + 1

\* Whether it is the loaded chunk's turn to be looked at.
Turn(k) == Dist(0, k) % SweepTicks = tick

\* Mutant: cancelling looks the flag up and leaves the entry.
SweepKeepPending ==
  LET far == {k \in Key : /\ Nearby(k) = {}
                          /\ (k \in terrain /\ Turn(k)) \/ pending[k] # NoJob}
  IN
  /\ phase = "terrain" /\ \A j \in Job : job[j].state \notin {"ok", "err"}
  /\ terrain' = terrain \ far
  /\ job' = Cancelled(far)
  /\ phase' = "events"
  /\ UNCHANGED <<tick, pos, events, pending, npcs, reloads, clientVars>>

\* When the channel is empty: chunks nobody is near are dropped, pending ones in
\* every tick, loaded ones when their turn comes.
Sweep ==
  LET far == {k \in Key : /\ Nearby(k) = {}
                          /\ (k \in terrain /\ Turn(k)) \/ pending[k] # NoJob}
  IN
  /\ phase = "terrain" /\ \A j \in Job : job[j].state \notin {"ok", "err"}
  /\ terrain' = terrain \ far
  /\ pending' = [k \in Key |-> IF k \in far THEN NoJob ELSE pending[k]]
  /\ job' = Cancelled(far)
  /\ phase' = "events"
  /\ UNCHANGED <<tick, pos, events, npcs, reloads, clientVars>>

\* The event of a request.
HandleChunkRequest(e) ==
  /\ phase = "events" /\ e \in events
  /\ GenerateChunk(e[1], e[2])
  /\ events' = events \ {e}
  /\ UNCHANGED <<phase, tick, pos, terrain, npcs, reloads, clientVars>>

\* Mutant: the tick is counted without end.
CleanupUncounted ==
  /\ phase = "events" /\ events = {}
  /\ npcs' = [k \in Key |-> IF k \in terrain THEN npcs[k] ELSE 0]
  /\ phase' = "messages" /\ tick' = tick + 1

\* The tick ends with the removal of the creatures of chunks no longer loaded.
Cleanup ==
  /\ phase = "events" /\ events = {}
  /\ npcs' = [k \in Key |-> IF k \in terrain THEN npcs[k] ELSE 0]
  /\ phase' = "messages" /\ tick' = (tick + 1) % SweepTicks

EndTick ==
  /\ Cleanup
  /\ UNCHANGED <<pos, events, pending, job, terrain, reloads, clientVars>>

\* The colours of the world have been edited: what is pending is cancelled,
\* and what is loaded is generated again, or dropped if no client is connected.
Reload ==
  /\ Cleanup
  /\ reloads < MaxReloads /\ reloads' = reloads + 1
  /\ \/ \E new \in [terrain -> Free] :
          /\ \A k, l \in terrain : k # l => new[k] # new[l]
          /\ job' = [j \in Job |->
                       IF \E k \in terrain : new[k] = j
                       THEN [key |-> CHOOSE k \in terrain : new[k] = j, entity |-> NoOne,
                             cancel |-> FALSE, state |-> "working"]
                       ELSE Cancelled(Key)[j]]
          /\ pending' = [k \in Key |-> IF k \in terrain THEN new[k] ELSE NoJob]
          /\ UNCHANGED terrain
     \/ /\ \A c \in Client : pos[c] = Out
        /\ job' = Cancelled(Key)
        /\ pending' = [k \in Key |-> NoJob]
        /\ terrain' = {}
  /\ UNCHANGED <<pos, events, clientVars>>

Server ==
  \/ EndMessages
  \/ \E j \in Job : Receive(j)
  \/ Sweep
  \/ \E e \in events : HandleChunkRequest(e)
  \/ EndTick

-----------------------------------------------------------------------------
(* A client *)

\* A character enters the game; it leaves it for the character screen or for
\* good, and its old handle names nobody any more.
Enter(c, p) ==
  /\ phase = "events" /\ place[c] = Out
  /\ place' = [place EXCEPT ![c] = p]
  /\ pos' = [pos EXCEPT ![c] = p]
  /\ UNCHANGED <<phase, tick, events, pending, job, terrain, npcs, reloads,
                 moving, chunks, asked, requests, updates>>

Leave(c) ==
  /\ phase = "events" /\ place[c] # Out
  /\ place' = [place EXCEPT ![c] = Out]
  /\ pos' = [pos EXCEPT ![c] = Out]
  /\ moving' = [moving EXCEPT ![c] = Out]
  /\ chunks' = [chunks EXCEPT ![c] = {}]
  /\ asked' = [asked EXCEPT ![c] = {}]
  /\ requests' = [requests EXCEPT ![c] = {}]
  /\ updates' = [updates EXCEPT ![c] = {}]
  /\ job' = [j \in Job |-> IF job[j].entity = c THEN [job[j] EXCEPT !.entity = NoOne]
                           ELSE job[j]]
  /\ events' = {<<IF e[1] = c THEN NoOne ELSE e[1], e[2]>> : e \in events}
  /\ UNCHANGED <<phase, tick, pending, terrain, npcs, reloads>>

\* Mutant: the client waits for every answer.
ClientTickPatient(c, p, old) ==
  LET kept    == {k \in chunks[c] : InVd(p, k)}
      lacking == {k \in Key : Wanted(p, k)} \ (kept \cup asked[c])
  IN
  /\ place[c] # Out /\ old \subseteq asked[c]
  /\ place' = [place EXCEPT ![c] = p]
  /\ chunks' = [chunks EXCEPT ![c] = kept]
  /\ \E new \in SUBSET lacking :
       /\ \/ new = lacking /\ Cardinality(asked[c] \cup new) <= MaxAsked
          \/ Cardinality(asked[c] \cup new) = MaxAsked
       /\ asked' = [asked EXCEPT ![c] = @ \cup new]
       /\ requests' = [requests EXCEPT ![c] = @ \cup new]
  /\ moving' = [moving EXCEPT ![c] = IF @ = Out /\ pos[c] = p THEN Out ELSE p]
  /\ UNCHANGED <<serverVars, updates>>

\* A tick of the client: the player walks to p, chunks that are far from there
\* are forgotten, those that lack are requested as far as MaxAsked allows, and
\* requests that took too long (old) are given up; the position is sent.
ClientTick(c, p, old) ==
  LET kept    == {k \in chunks[c] : InVd(p, k)}
      lacking == {k \in Key : Wanted(p, k)} \ (kept \cup asked[c])
  IN
  /\ place[c] # Out /\ old \subseteq asked[c]
  /\ place' = [place EXCEPT ![c] = p]
  /\ chunks' = [chunks EXCEPT ![c] = kept]
  /\ \E new \in SUBSET lacking :
       /\ \/ new = lacking /\ Cardinality(asked[c] \cup new) <= MaxAsked
          \/ Cardinality(asked[c] \cup new) = MaxAsked
       /\ asked' = [asked EXCEPT ![c] = (@ \cup new) \ old]
       /\ requests' = [requests EXCEPT ![c] = @ \cup new]
  /\ moving' = [moving EXCEPT ![c] = IF @ = Out /\ pos[c] = p THEN Out ELSE p]
  /\ UNCHANGED <<serverVars, updates>>

\* An answer: its key is not asked for any more, with or without a chunk.
ReceiveUpdate(c, u) ==
  /\ u \in updates[c]
  /\ updates' = [updates EXCEPT ![c] = @ \ {u}]
  /\ asked' = [asked EXCEPT ![c] = @ \ {u.key}]
  /\ chunks' = [chunks EXCEPT ![c] = IF u.ok THEN @ \cup {u.key} ELSE @]
  /\ UNCHANGED <<serverVars, place, moving, requests>>

-----------------------------------------------------------------------------
Next ==
  \/ Server \/ Reload
  \/ \E j \in Job : Work(j)
  \/ \E c \in Client, k \in Key : HandleRequest(c, k)
  \/ \E c \in Client, p \in Place : Enter(c, p)
  \/ \E c \in Client : HandlePosition(c) \/ Leave(c)
  \/ \E c \in Client, p \in Place, old \in SUBSET Key : ClientTick(c, p, old)
  \/ \E c \in Client : \E u \in updates[c] : ReceiveUpdate(c, u)

Spec == Init /\ [][Next]_vars

\* The server ticks on, the pool runs every job (module SlowJobs), messages
\* arrive while the server takes in messages, and a client ticks on, now and
\* then without having crossed into another chunk, and gives up on a request
\* three seconds after it was sent.
Fairness ==
  /\ WF_vars(Server)
  /\ \A j \in Job : WF_vars(Work(j))
  /\ \A c \in Client :
       /\ SF_vars(HandlePosition(c))
       /\ WF_vars(\E old \in SUBSET Key : ClientTick(c, place[c], old))
       /\ \A k \in Key :
            /\ SF_vars(HandleRequest(c, k))
            /\ WF_vars(\E old \in SUBSET Key : k \in old /\ ClientTick(c, place[c], old))
            /\ WF_vars(\E u \in updates[c] : u.key = k /\ ReceiveUpdate(c, u))

FairSpec == Spec /\ Fairness

-----------------------------------------------------------------------------
(* Properties *)

\* A pending key is one for which a job that is not cancelled works or has
\* its result in the channel; otherwise the chunk could never be had again,
\* since requests for a pending key are passed over. Results of older jobs
\* for the same key may end the pending state early, never late.
PendingAccounted ==
  \A k \in Key : pending[k] # NoJob =>
    LET t == job[pending[k]] IN t.state # "none" /\ t.key = k /\ ~t.cancel

\* A player who stays where a chunk is in view gets it and keeps it, whatever
\* became of earlier requests: cancelled jobs, answers to others, a position
\* the server did not know yet.
Served ==
  \A c \in Client, k \in Key :
    <>[]Wanted(place[c], k) => <>[](k \in chunks[c])

\* A chunk that nobody is near or asks for is unloaded for good, and its
\* creatures with it, although jobs that finish late still insert it.
Unloaded ==
  \A k \in Key :
    <>[](Nearby(k) = {} /\ \A c \in Client : k \notin requests[c])
      => <>[](k \notin terrain /\ npcs[k] = 0)
=============================================================================
