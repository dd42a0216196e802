------------------------ MODULE ChunkGeneratorProofs -------------------------
(***************************************************************************)
(* Proofs about ChunkGenerator, for any clients, keys, distances, bounds   *)
(* and numbers of jobs:                                                    *)
(*  - type correctness; no client waits for more chunks than its limit;    *)
(*  - a pending key has a job at work for it that is not cancelled.        *)
(*                                                                         *)
(* The two together are inductive: a job has one key, so that what is done *)
(* to the jobs of some keys leaves those of the other pending keys alone.  *)
(***************************************************************************)
EXTENDS ChunkGenerator, FiniteSetTheorems, TLAPS

IInv == TypeOK /\ PendingAccounted

\* What Tell sends are updates.
LEMMA TellType ==
  ASSUME TypeOK, NEW who, NEW k \in Key, NEW ok \in BOOLEAN, Tell(who, k, ok)
  PROVE  updates' \in [Client -> SUBSET Update]
BY DEF TypeOK, Tell, Update

\* A task under way has a key, and is not the empty one.
LEMMA TaskType ==
  ASSUME TypeOK, NEW j \in Job, job[j].state # "none"
  PROVE  job[j] \in Task /\ job[j].key \in Key
BY DEF TypeOK, Task, NoTask

\* A free job is pending for no key.
LEMMA FreeUnnamed ==
  ASSUME IInv, NEW j \in Free, NEW k \in Key
  PROVE  pending[k] # j
<1>1. job[j].state = "none" /\ j # NoJob
  BY NamesAssumption DEF Free, NoTask
<1> QED
  BY <1>1 DEF IInv, PendingAccounted

\* Cancelling the jobs of some keys.
LEMMA CancelledType ==
  ASSUME IInv, NEW K \in SUBSET Key
  PROVE  /\ Cancelled(K) \in [Job -> Task \cup {NoTask}]
         /\ \A k \in Key \ K : pending[k] # NoJob
              => Cancelled(K)[pending[k]] = job[pending[k]]
<1>1. ASSUME NEW j \in Job
      PROVE  Cancelled(K)[j] \in Task \cup {NoTask}
  <2>1. CASE \E k \in K : pending[k] = j
    <3>1. PICK k \in K : pending[k] = j
      BY <2>1
    <3>2. job[j].state # "none"
      BY <3>1, NamesAssumption DEF IInv, PendingAccounted
    <3>3. job[j] \in Task
      BY <3>2, TaskType DEF IInv
    <3>4. [job[j] EXCEPT !.cancel = TRUE] \in Task
      BY <3>3 DEF Task
    <3> QED
      BY <2>1, <3>4 DEF Cancelled
  <2>2. CASE ~\E k \in K : pending[k] = j
    BY <2>2 DEF Cancelled, IInv, TypeOK
  <2> QED
    BY <2>1, <2>2
<1>2. ASSUME NEW k \in Key \ K, pending[k] # NoJob
      PROVE  Cancelled(K)[pending[k]] = job[pending[k]]
  <2>1. pending[k] \in Job /\ job[pending[k]].key = k
    BY <1>2 DEF IInv, TypeOK, PendingAccounted
  <2>2. ASSUME NEW l \in K, pending[l] = pending[k]
        PROVE  FALSE
    <3>1. job[pending[l]].key = l
      BY <2>2, <1>2 DEF IInv, PendingAccounted
    <3> QED
      BY <2>1, <2>2, <3>1
  <2> QED
    BY <2>1, <2>2 DEF Cancelled
<1>3. Cancelled(K) = [j \in Job |-> Cancelled(K)[j]]
  BY DEF Cancelled
<1> QED
  BY <1>1, <1>2, <1>3

-----------------------------------------------------------------------------
\* The initial state satisfies the inductive invariant.
LEMMA InitInv == Init => IInv
<1> SUFFICES ASSUME Init PROVE IInv
  OBVIOUS
<1>1. \A c \in Client : Cardinality(asked[c]) <= MaxAsked
  BY FS_EmptySet, WorldAssumption DEF Init
<1>2. TypeOK
  BY <1>1, WorldAssumption DEF Init, TypeOK
<1>3. PendingAccounted
  BY DEF Init, PendingAccounted
<1> QED
  BY <1>2, <1>3 DEF IInv

\* A position or a request is handled: the jobs are left alone.
LEMMA PositionInv ==
  ASSUME IInv, NEW c \in Client, HandlePosition(c)
  PROVE  IInv'
<1>1. pos' \in [Client -> Place \cup {Out}] /\ moving' \in [Client -> Place \cup {Out}]
  BY DEF HandlePosition, IInv, TypeOK
<1> QED
  BY <1>1 DEF HandlePosition, IInv, TypeOK, PendingAccounted

LEMMA RequestInv ==
  ASSUME IInv, NEW c \in Client, NEW k \in Key, HandleRequest(c, k)
  PROVE  IInv'
<1>1. events' \subseteq (Client \cup {NoOne}) \X Key
  <2>1. events' = events \cup {<<c, k>>} \/ events' = events
    BY DEF HandleRequest
  <2> QED
    BY <2>1 DEF IInv, TypeOK
<1>2. requests' \in [Client -> SUBSET Key]
  BY DEF HandleRequest, IInv, TypeOK
<1>3. updates' \in [Client -> SUBSET Update]
  <2>1. Tell({c}, k, TRUE) \/ UNCHANGED updates
    BY DEF HandleRequest
  <2> QED
    BY <2>1, TellType DEF IInv, TypeOK
<1> QED
  BY <1>1, <1>2, <1>3 DEF HandleRequest, IInv, TypeOK, PendingAccounted

\* A client enters.
LEMMA EnterInv ==
  ASSUME IInv, NEW c \in Client, NEW p \in Place, Enter(c, p)
  PROVE  IInv'
<1>1. pos' \in [Client -> Place \cup {Out}] /\ place' \in [Client -> Place \cup {Out}]
  BY DEF Enter, IInv, TypeOK
<1> QED
  BY <1>1 DEF Enter, IInv, TypeOK, PendingAccounted

\* The bound on what a client waits for: a tick adds up to it, an answer only
\* takes away.
LEMMA AskedBound ==
  ASSUME IInv, NEW c \in Client, NEW S \in SUBSET Key,
         Cardinality(S) <= MaxAsked, asked'[c] \subseteq S,
         \A d \in Client : d # c => asked'[d] = asked[d]
  PROVE  \A d \in Client : Cardinality(asked'[d]) <= MaxAsked
<1>1. /\ IsFiniteSet(S) /\ Cardinality(S) \in Nat
      /\ Cardinality(asked'[c]) \in Nat /\ Cardinality(asked'[c]) <= Cardinality(S)
  BY FS_Subset, FS_CardinalityType, WorldAssumption
<1>2. Cardinality(asked'[c]) <= MaxAsked
  BY <1>1, WorldAssumption
<1> QED
  BY <1>2 DEF IInv, TypeOK

\* A client ticks: the server is not concerned.
LEMMA ClientTickInv ==
  ASSUME IInv, NEW c \in Client, NEW p \in Place, NEW old \in SUBSET Key,
         ClientTick(c, p, old)
  PROVE  IInv'
<1>1. /\ place' = [place EXCEPT ![c] = p]
      /\ UNCHANGED <<serverVars, updates>>
  BY DEF ClientTick
<1>2. PICK new \in SUBSET Key :
        /\ Cardinality(asked[c] \cup new) <= MaxAsked
        /\ asked' = [asked EXCEPT ![c] = (@ \cup new) \ old]
        /\ requests' = [requests EXCEPT ![c] = @ \cup new]
  <2> DEFINE lacking == {k \in Key : Wanted(p, k)}
                          \ ({k \in chunks[c] : InVd(p, k)} \cup asked[c])
  <2>1. PICK new \in SUBSET lacking :
          /\ \/ new = lacking /\ Cardinality(asked[c] \cup new) <= MaxAsked
             \/ Cardinality(asked[c] \cup new) = MaxAsked
          /\ asked' = [asked EXCEPT ![c] = (@ \cup new) \ old]
          /\ requests' = [requests EXCEPT ![c] = @ \cup new]
    BY DEF ClientTick
  <2>2. new \in SUBSET Key
    OBVIOUS
  <2>3. Cardinality(asked[c] \cup new) <= MaxAsked
    <3> HIDE DEF lacking
    <3> QED
      BY <2>1, WorldAssumption
  <2> QED
    BY <2>1, <2>2, <2>3
<1>3. asked' \in [Client -> SUBSET Key] /\ requests' \in [Client -> SUBSET Key]
  BY <1>2 DEF IInv, TypeOK
<1>4. \A d \in Client : Cardinality(asked'[d]) <= MaxAsked
  <2>1. asked[c] \cup new \in SUBSET Key /\ asked'[c] \subseteq asked[c] \cup new
    BY <1>2 DEF IInv, TypeOK
  <2>2. \A d \in Client : d # c => asked'[d] = asked[d]
    BY <1>2 DEF IInv, TypeOK
  <2> QED
    BY <1>2, <2>1, <2>2, AskedBound
<1>5. chunks' \in [Client -> SUBSET Key]
  BY DEF ClientTick, IInv, TypeOK
<1>6. moving' \in [Client -> Place \cup {Out}] /\ place' \in [Client -> Place \cup {Out}]
  BY DEF ClientTick, IInv, TypeOK
<1> QED
  BY <1>1, <1>3, <1>4, <1>5, <1>6 DEF IInv, TypeOK, PendingAccounted, serverVars

\* A client receives an answer.
LEMMA ReceiveUpdateInv ==
  ASSUME IInv, NEW c \in Client, NEW u \in updates[c], ReceiveUpdate(c, u)
  PROVE  IInv'
<1>1. u \in Update /\ u.key \in Key
  BY DEF IInv, TypeOK, Update
<1>2. /\ updates' \in [Client -> SUBSET Update] /\ asked' \in [Client -> SUBSET Key]
      /\ chunks' \in [Client -> SUBSET Key]
  BY <1>1 DEF ReceiveUpdate, IInv, TypeOK
<1>3. \A d \in Client : Cardinality(asked'[d]) <= MaxAsked
  <2>1. asked[c] \in SUBSET Key /\ Cardinality(asked[c]) <= MaxAsked
    BY DEF IInv, TypeOK
  <2>2. asked'[c] \subseteq asked[c] /\ \A d \in Client : d # c => asked'[d] = asked[d]
    BY DEF ReceiveUpdate, IInv, TypeOK
  <2> QED
    BY <2>1, <2>2, AskedBound
<1> QED
  BY <1>2, <1>3 DEF ReceiveUpdate, IInv, TypeOK, PendingAccounted, serverVars

\* A client leaves: its jobs go on for nobody.
LEMMA LeaveInv ==
  ASSUME IInv, NEW c \in Client, Leave(c)
  PROVE  IInv'
<1>1. UNCHANGED <<phase, tick, pending, terrain, npcs, reloads>>
  BY DEF Leave
<1>2. job' \in [Job -> Task \cup {NoTask}]
  BY SMTT(60), NamesAssumption DEF Leave, IInv, TypeOK, Task, NoTask
<1>3. \A j \in Job : /\ job'[j].key = job[j].key /\ job'[j].cancel = job[j].cancel
                     /\ job'[j].state = job[j].state
  BY NamesAssumption DEF Leave, IInv, TypeOK, Task, NoTask
<1>4. PendingAccounted'
  BY <1>1, <1>3 DEF IInv, TypeOK, PendingAccounted
<1>5. events' \subseteq (Client \cup {NoOne}) \X Key
  BY DEF Leave, IInv, TypeOK
<1>6. \A d \in Client : Cardinality(asked'[d]) <= MaxAsked
  BY FS_EmptySet, WorldAssumption DEF Leave, IInv, TypeOK
<1>7. /\ pos' \in [Client -> Place \cup {Out}] /\ place' \in [Client -> Place \cup {Out}]
      /\ moving' \in [Client -> Place \cup {Out}] /\ chunks' \in [Client -> SUBSET Key]
      /\ asked' \in [Client -> SUBSET Key] /\ requests' \in [Client -> SUBSET Key]
      /\ updates' \in [Client -> SUBSET Update]
  BY DEF Leave, IInv, TypeOK
<1>8. TypeOK'
  BY <1>1, <1>2, <1>5, <1>6, <1>7 DEF IInv, TypeOK
<1> QED
  BY <1>4, <1>8 DEF IInv

\* A job works: only its state changes, to one of a result.
LEMMA WorkInv ==
  ASSUME IInv, NEW j \in Job, Work(j)
  PROVE  IInv'
<1>1. job[j] \in Task
  BY TaskType DEF IInv, Work
<1>2. PICK s \in {"ok", "err"} : job' = [job EXCEPT ![j].state = s]
  BY DEF Work
<1>3. job' \in [Job -> Task \cup {NoTask}]
  BY <1>1, <1>2 DEF IInv, TypeOK, Task
<1>4. \A i \in Job : /\ job'[i].key = job[i].key /\ job'[i].cancel = job[i].cancel
                     /\ job[i].state # "none" => job'[i].state # "none"
  BY <1>1, <1>2 DEF IInv, TypeOK, Task
<1>5. PendingAccounted'
  BY <1>4 DEF Work, IInv, TypeOK, PendingAccounted
<1> QED
  BY <1>3, <1>5 DEF Work, IInv, TypeOK, clientVars

\* A result is received: only its own key can be pending for the job.
LEMMA ReceiveInv ==
  ASSUME IInv, NEW j \in Job, Receive(j)
  PROVE  IInv'
<1> DEFINE k == job[j].key
<1>1. job[j] \in Task /\ k \in Key
  BY TaskType DEF IInv, Receive
<1>2. /\ pending' = [pending EXCEPT ![k] = NoJob]
      /\ job' = [job EXCEPT ![j] = NoTask]
  BY DEF Receive
<1>3. PendingAccounted'
  <2> SUFFICES ASSUME NEW l \in Key, pending'[l] # NoJob
               PROVE  LET t == job'[pending'[l]] IN
                      t.state # "none" /\ t.key = l /\ ~t.cancel
    BY DEF PendingAccounted
  <2>1. l # k /\ pending'[l] = pending[l]
    BY <1>1, <1>2 DEF IInv, TypeOK
  <2>2. job[pending[l]].key = l /\ pending[l] \in Job
    BY <2>1 DEF IInv, TypeOK, PendingAccounted
  <2>3. job'[pending[l]] = job[pending[l]]
    BY <1>2, <2>1, <2>2 DEF IInv, TypeOK
  <2> QED
    BY <2>1, <2>3 DEF IInv, PendingAccounted
<1>4. updates' \in [Client -> SUBSET Update]
  <2>1. Tell(Nearby(k), k, TRUE) \/ Tell({job[j].entity}, k, FALSE)
    BY DEF Receive
  <2> QED
    BY <2>1, <1>1, TellType DEF IInv
<1>5. terrain' \subseteq Key
  BY <1>1 DEF Receive, IInv, TypeOK
<1>6. npcs' \in [Key -> 0..2]
  <2>1. \/ npcs' = [npcs EXCEPT ![k] = IF npcs[k] = 2 THEN 2 ELSE npcs[k] + 1]
        \/ npcs' = npcs
    BY DEF Receive
  <2>2. npcs \in [Key -> 0..2] /\ npcs[k] \in 0..2
    BY <1>1 DEF IInv, TypeOK
  <2>3. (IF npcs[k] = 2 THEN 2 ELSE npcs[k] + 1) \in 0..2
    BY <2>2
  <2> QED
    BY <2>1, <2>2, <2>3
<1>7. pending' \in [Key -> Job \cup {NoJob}] /\ job' \in [Job -> Task \cup {NoTask}]
  BY <1>1, <1>2 DEF IInv, TypeOK
<1>8. TypeOK'
  BY <1>4, <1>5, <1>6, <1>7 DEF Receive, IInv, TypeOK
<1> QED
  BY <1>3, <1>8 DEF IInv

\* Keys are dropped, and with them the jobs that are pending for them.
LEMMA SweepInv ==
  ASSUME IInv, Sweep
  PROVE  IInv'
<1>1. PICK far \in SUBSET Key :
        /\ terrain' = terrain \ far
        /\ pending' = [k \in Key |-> IF k \in far THEN NoJob ELSE pending[k]]
        /\ job' = Cancelled(far)
  BY DEF Sweep
<1>2. PendingAccounted'
  <2> SUFFICES ASSUME NEW k \in Key, pending'[k] # NoJob
               PROVE  LET t == job'[pending'[k]] IN
                      t.state # "none" /\ t.key = k /\ ~t.cancel
    BY DEF PendingAccounted
  <2>1. k \in Key \ far /\ pending'[k] = pending[k]
    BY <1>1
  <2>2. job'[pending[k]] = job[pending[k]]
    BY <1>1, <2>1, CancelledType
  <2> QED
    BY <2>1, <2>2 DEF IInv, PendingAccounted
<1>3. pending' \in [Key -> Job \cup {NoJob}] /\ terrain' \subseteq Key
  BY <1>1 DEF IInv, TypeOK
<1>4. job' \in [Job -> Task \cup {NoTask}]
  BY <1>1, CancelledType
<1>5. TypeOK'
  BY <1>3, <1>4 DEF Sweep, IInv, TypeOK, clientVars
<1> QED
  BY <1>2, <1>5 DEF IInv

\* The event of a request: the key is pending already, or becomes pending for a
\* job that was for no key.
LEMMA ChunkRequestInv ==
  ASSUME IInv, NEW e \in events, HandleChunkRequest(e)
  PROVE  IInv'
<1>1. e[1] \in Client \cup {NoOne} /\ e[2] \in Key
  BY DEF IInv, TypeOK
<1>2. events' \subseteq (Client \cup {NoOne}) \X Key
  BY DEF HandleChunkRequest, IInv, TypeOK
<1>3. UNCHANGED <<phase, tick, pos, terrain, npcs, reloads, clientVars>>
  BY DEF HandleChunkRequest
<1>4. CASE UNCHANGED <<pending, job>>
  BY <1>2, <1>3, <1>4 DEF IInv, TypeOK, PendingAccounted, clientVars
<1>5. CASE ~UNCHANGED <<pending, job>>
  <2> DEFINE new == [key |-> e[2], entity |-> e[1], cancel |-> FALSE, state |-> "working"]
  <2>1. PICK j \in Free : /\ job' = [job EXCEPT ![j] = new]
                          /\ pending' = [pending EXCEPT ![e[2]] = j]
    BY <1>5 DEF HandleChunkRequest, GenerateChunk
  <2>2. new \in Task /\ j \in Job
    BY <1>1 DEF Task, Free
  <2>3. pending' \in [Key -> Job \cup {NoJob}] /\ job' \in [Job -> Task \cup {NoTask}]
    BY <1>1, <2>1, <2>2 DEF IInv, TypeOK
  <2>4. PendingAccounted'
    <3> SUFFICES ASSUME NEW k \in Key, pending'[k] # NoJob
                 PROVE  LET t == job'[pending'[k]] IN
                        t.state # "none" /\ t.key = k /\ ~t.cancel
      BY DEF PendingAccounted
    <3>1. CASE k = e[2]
      <4>1. pending'[k] = j /\ job'[j] = new
        BY <2>1, <2>2, <3>1 DEF IInv, TypeOK
      <4> QED
        BY <3>1, <4>1
    <3>2. CASE k # e[2]
      <4>1. pending'[k] = pending[k] /\ pending[k] \in Job
        BY <2>1, <3>2 DEF IInv, TypeOK
      <4>2. pending[k] # j
        BY <2>1, FreeUnnamed
      <4>3. job'[pending[k]] = job[pending[k]]
        BY <2>1, <4>1, <4>2 DEF IInv, TypeOK
      <4> QED
        BY <4>1, <4>3 DEF IInv, PendingAccounted
    <3> QED
      BY <3>1, <3>2
  <2> QED
    BY <1>2, <1>3, <2>3, <2>4 DEF IInv, TypeOK, clientVars
<1> QED
  BY <1>4, <1>5

\* The end of a tick.
LEMMA CleanupType ==
  ASSUME IInv, Cleanup
  PROVE  /\ npcs' \in [Key -> 0..2] /\ phase' = "messages" /\ tick' \in 0..(SweepTicks - 1)
BY WorldAssumption DEF Cleanup, IInv, TypeOK

\* All loaded chunks are generated again by jobs of their own, and the jobs
\* that were pending are cancelled.
LEMMA ReloadInv ==
  ASSUME IInv, Reload
  PROVE  IInv'
<1>1. /\ reloads' \in 0..MaxReloads /\ npcs' \in [Key -> 0..2]
      /\ phase' = "messages" /\ tick' \in 0..(SweepTicks - 1)
  BY CleanupType, WorldAssumption DEF Reload, IInv, TypeOK
<1>2. UNCHANGED <<pos, events, clientVars>>
  BY DEF Reload
<1>3. Cancelled(Key) \in [Job -> Task \cup {NoTask}]
  BY CancelledType
<1>4. CASE /\ job' = Cancelled(Key) /\ terrain' = {}
           /\ pending' = [k \in Key |-> NoJob]
  BY <1>1, <1>2, <1>3, <1>4 DEF IInv, TypeOK, PendingAccounted, clientVars
<1>5. CASE ~(/\ job' = Cancelled(Key) /\ terrain' = {}
             /\ pending' = [k \in Key |-> NoJob])
  <2> DEFINE task(k) == [key |-> k, entity |-> NoOne, cancel |-> FALSE, state |-> "working"]
  <2>1. PICK new \in [terrain -> Free] :
          /\ \A k, l \in terrain : k # l => new[k] # new[l]
          /\ job' = [j \in Job |-> IF \E k \in terrain : new[k] = j
                                   THEN task(CHOOSE k \in terrain : new[k] = j)
                                   ELSE Cancelled(Key)[j]]
          /\ pending' = [k \in Key |-> IF k \in terrain THEN new[k] ELSE NoJob]
          /\ terrain' = terrain
    BY <1>5 DEF Reload
  <2>2. terrain \subseteq Key /\ Free \subseteq Job
    BY DEF IInv, TypeOK, Free
  <2>3. \A k \in Key : task(k) \in Task
    BY DEF Task
  <2>4. ASSUME NEW j \in Job
        PROVE  job'[j] \in Task \cup {NoTask}
    <3>1. CASE \E k \in terrain : new[k] = j
      <4>1. (CHOOSE k \in terrain : new[k] = j) \in Key
        BY <3>1, <2>2
      <4> QED
        BY <2>1, <2>3, <3>1, <4>1
    <3>2. CASE ~\E k \in terrain : new[k] = j
      BY <1>3, <2>1, <3>2
    <3> QED
      BY <3>1, <3>2
  <2>5. job' \in [Job -> Task \cup {NoTask}] /\ pending' \in [Key -> Job \cup {NoJob}]
    <3>1. job' = [j \in Job |-> job'[j]]
      BY <2>1
    <3>2. pending' \in [Key -> Job \cup {NoJob}]
      BY <2>1, <2>2
    <3> QED
      BY <2>4, <3>1, <3>2
  <2>6. PendingAccounted'
    <3> SUFFICES ASSUME NEW k \in Key, pending'[k] # NoJob
                 PROVE  LET t == job'[pending'[k]] IN
                        t.state # "none" /\ t.key = k /\ ~t.cancel
      BY DEF PendingAccounted
    <3>1. k \in terrain /\ pending'[k] = new[k] /\ new[k] \in Job
      BY <2>1, <2>2
    <3>2. (CHOOSE l \in terrain : new[l] = new[k]) = k
      BY <2>1, <3>1
    <3>3. job'[new[k]] = task(k)
      BY <2>1, <3>1, <3>2
    <3> QED
      BY <3>1, <3>3
  <2> QED
    BY <1>1, <1>2, <2>1, <2>5, <2>6 DEF IInv, TypeOK, clientVars
<1> QED
  BY <1>4, <1>5

-----------------------------------------------------------------------------
\* Every step preserves the inductive invariant.
LEMMA StepInv == IInv /\ [Next]_vars => IInv'
<1> SUFFICES ASSUME IInv, [Next]_vars PROVE IInv'
  OBVIOUS
<1>1. CASE Server
  <2>1. CASE EndMessages
    <3>1. UNCHANGED <<tick, pos, events, pending, job, terrain, npcs, reloads, clientVars>>
          /\ phase' = "terrain"
      BY <2>1 DEF EndMessages
    <3> QED
      BY <3>1 DEF IInv, TypeOK, PendingAccounted, clientVars
  <2>2. CASE \E j \in Job : Receive(j)
    BY <2>2, ReceiveInv
  <2>3. CASE Sweep
    BY <2>3, SweepInv
  <2>4. CASE \E e \in events : HandleChunkRequest(e)
    BY <2>4, ChunkRequestInv
  <2>5. CASE EndTick
    <3>1. Cleanup /\ UNCHANGED <<pos, events, pending, job, terrain, reloads, clientVars>>
      BY <2>5 DEF EndTick
    <3> QED
      BY <3>1, CleanupType DEF IInv, TypeOK, PendingAccounted, clientVars
  <2> QED
    BY <1>1, <2>1, <2>2, <2>3, <2>4, <2>5 DEF Server
<1>2. CASE Reload
  BY <1>2, ReloadInv
<1>3. CASE \E j \in Job : Work(j)
  BY <1>3, WorkInv
<1>4. CASE \E c \in Client, k \in Key : HandleRequest(c, k)
  BY <1>4, RequestInv
<1>5. CASE \E c \in Client, p \in Place : Enter(c, p)
  BY <1>5, EnterInv
<1>6. CASE \E c \in Client : HandlePosition(c)
  BY <1>6, PositionInv
<1>7. CASE \E c \in Client : Leave(c)
  BY <1>7, LeaveInv
<1>8. CASE \E c \in Client, p \in Place, old \in SUBSET Key : ClientTick(c, p, old)
  BY <1>8, ClientTickInv
<1>9. CASE \E c \in Client : \E u \in updates[c] : ReceiveUpdate(c, u)
  BY <1>9, ReceiveUpdateInv
<1>10. CASE UNCHANGED vars
  BY <1>10 DEF IInv, TypeOK, PendingAccounted, vars, serverVars, clientVars
<1> QED
  BY <1>1, <1>2, <1>3, <1>4, <1>5, <1>6, <1>7, <1>8, <1>9, <1>10 DEF Next

\* Everything the server and the clients keep stays in its range; a client
\* never waits for more chunks than its limit, whatever answers come or fail.
THEOREM TypeCorrect == Spec => []TypeOK
<1>1. Init => IInv
  BY InitInv
<1>2. IInv /\ [Next]_vars => IInv'
  BY StepInv
<1>3. IInv => TypeOK
  BY DEF IInv
<1> QED
  BY <1>1, <1>2, <1>3, PTL DEF Spec

\* However requests, cancellations, results and reloads interleave, a key in
\* pending_chunks has a job that works for it or has its result ready and was
\* not cancelled: no chunk is refused for good because of a forgotten entry.
THEOREM PendingAlwaysAccounted == Spec => []PendingAccounted
<1>1. Init => IInv
  BY InitInv
<1>2. IInv /\ [Next]_vars => IInv'
  BY StepInv
<1>3. IInv => PendingAccounted
  BY DEF IInv
<1> QED
  BY <1>1, <1>2, <1>3, PTL DEF Spec
=============================================================================
