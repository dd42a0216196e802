------------------------------ MODULE SlowJobs -------------------------------
(***************************************************************************)
(* The pool for slow jobs (common/src/slowjob.rs). Threads that submit     *)
(* jobs, and workers that have finished one, call maintain, which counts   *)
(* the running jobs, lists the names with waiting jobs, sorts them and     *)
(* fires; only the last of these steps holds the queue's lock for writing. *)
(***************************************************************************)
EXTENDS Integers, FiniteSets, Sequences

CONSTANTS
  Job,            \* jobs that are ever submitted; a worker thread runs each
  Caller,         \* threads that submit and cancel jobs
  Name,           \* configured names
  NameOf,         \* the name of a job
  max_local,      \* Config.max_local of a name
  global_limit,   \* how many jobs the pool is to run at a time
  NoThread        \* nobody holds the queue's lock for writing

ASSUME ThreadAssumption == /\ IsFiniteSet(Job)
                           /\ Job \cap Caller = {}
                           /\ NoThread \notin Job \cup Caller
\* configure and new raise the limits to at least one.
ASSUME LimitAssumption == /\ IsFiniteSet(Name)
                          /\ NameOf \in [Job -> Name]
                          /\ max_local \in [Name -> Nat \ {0}]
                          /\ global_limit \in Nat \ {0}

Thread == Job \cup Caller

VARIABLES
  local_running_jobs,   \* running jobs of each name
  global_running_jobs,  \* running jobs
  spawned_total,        \* jobs fired so far under a name
  writer,               \* who holds the queue's lock for writing
  pc,                   \* where a job is in its life, a thread in maintain
  jobs_available,       \* maintain's budget, for each thread
  names,                \* the names maintain found waiting jobs of
  possible              \* those names in the order in which to fire

counters == <<local_running_jobs, global_running_jobs, spawned_total>>
locals   == <<jobs_available, names, possible>>
vars     == <<counters, writer, pc, locals>>

JobStage     == {"new", "waiting", "cancelled", "running", "leaving"}
MaintainStep == {"load", "scan", "sort", "fire", "overrun", "idle"}

TypeOK ==
  /\ local_running_jobs \in [Name -> Nat]
  /\ global_running_jobs \in Nat
  /\ spawned_total \in [Name -> Nat]
  /\ writer \in Thread \cup {NoThread}
  /\ pc \in [Thread -> JobStage \cup MaintainStep]
  /\ \A c \in Caller : pc[c] \in MaintainStep
  /\ jobs_available \in [Thread -> Nat]
  /\ names \in [Thread -> SUBSET Name]
  /\ possible \in [Thread -> Seq(Name)]

Init ==
  /\ local_running_jobs = [n \in Name |-> 0]
  /\ global_running_jobs = 0
  /\ spawned_total = [n \in Name |-> 0]
  /\ writer = NoThread
  /\ pc = [p \in Thread |-> IF p \in Job THEN "new" ELSE "idle"]
  /\ jobs_available = [p \in Thread |-> 0]
  /\ names = [p \in Thread |-> {}]
  /\ possible = [p \in Thread |-> <<>>]

\* The queue: its keys are ids, so a HashMap hands out any of a name's jobs.
Waiting(n) == {j \in Job : NameOf[j] = n /\ pc[j] = "waiting"}
\* Jobs of name n whose function has not returned; jobs in the global count.
Executing(n) == {j \in Job : NameOf[j] = n /\ pc[j] = "running"}
Counted == {j \in Job : pc[j] \in {"running", "leaving"}}

-----------------------------------------------------------------------------
(* The operations of a caller *)

\* spawn: the job enters the queue under the write lock; then the caller
\* maintains the pool.
Spawn(c, j) ==
  /\ pc[c] = "idle" /\ pc[j] = "new" /\ writer = NoThread
  /\ pc' = [pc EXCEPT ![c] = "load", ![j] = "waiting"]
  /\ UNCHANGED <<counters, writer, locals>>

\* Mutant: a job that runs is forgotten as well.
CancelRunning(c, j) ==
  /\ pc[c] = "idle" /\ pc[j] \in {"waiting", "running"} /\ writer = NoThread
  /\ pc' = [pc EXCEPT ![j] = "cancelled"]
  /\ UNCHANGED <<counters, writer, locals>>

\* cancel of a job that still waits; of any other it does nothing.
Cancel(c, j) ==
  /\ pc[c] = "idle" /\ pc[j] = "waiting" /\ writer = NoThread
  /\ pc' = [pc EXCEPT ![j] = "cancelled"]
  /\ UNCHANGED <<counters, writer, locals>>

-----------------------------------------------------------------------------
(* maintain, in any thread *)

\* The running jobs are counted without a lock. More than the limit makes the
\* unsigned subtraction panic, or wrap where overflow is not checked.
Load(p) ==
  /\ pc[p] = "load"
  /\ pc' = [pc EXCEPT ![p] = IF global_running_jobs > global_limit THEN "overrun"
                             ELSE IF global_running_jobs = global_limit THEN "idle"
                             ELSE "scan"]
  /\ jobs_available' = [jobs_available EXCEPT ![p] =
       IF global_running_jobs < global_limit
         THEN global_limit - global_running_jobs ELSE @]
  /\ UNCHANGED <<counters, writer, names, possible>>

\* Under the read lock.
Scan(p) ==
  /\ pc[p] = "scan" /\ writer = NoThread
  /\ names' = [names EXCEPT ![p] = {n \in Name : Waiting(n) # {}}]
  /\ pc' = [pc EXCEPT ![p] = "sort"]
  /\ UNCHANGED <<counters, writer, jobs_available, possible>>

\* The fewer of its allowance a name has used, the earlier it comes; names
\* that are level come in any order.
Used(n) == spawned_total[n] \div max_local[n]
Orders(S) ==
  {s \in [1..Cardinality(S) -> S] :
     \A i, k \in 1..Cardinality(S) : i < k => s[i] # s[k] /\ Used(s[i]) <= Used(s[k])}

Sort(p) ==
  /\ pc[p] = "sort"
  /\ \E s \in Orders(names[p]) : possible' = [possible EXCEPT ![p] = s]
  /\ pc' = [pc EXCEPT ![p] = "fire"]
  /\ UNCHANGED <<counters, writer, jobs_available, names>>

\* Mutant: one job too many.
CanFireAtLimit(n) == Waiting(n) # {} /\ local_running_jobs[n] <= max_local[n]

\* One turn of the loop under the write lock: a job of the next name is fired
\* if the name has one and is below its limit.
CanFire(n) == Waiting(n) # {} /\ local_running_jobs[n] < max_local[n]

FireNext(p) ==
  /\ pc[p] = "fire" /\ writer \in {NoThread, p}
  /\ jobs_available[p] > 0 /\ possible[p] # <<>>
  /\ LET n == Head(possible[p]) IN
     \/ /\ CanFire(n)
        /\ \E j \in Waiting(n) : pc' = [pc EXCEPT ![j] = "running"]
        /\ spawned_total' = [spawned_total EXCEPT ![n] = @ + 1]
        /\ local_running_jobs' = [local_running_jobs EXCEPT ![n] = @ + 1]
        /\ global_running_jobs' = global_running_jobs + 1
     \/ /\ ~CanFire(n)
        /\ UNCHANGED <<pc, counters>>
  /\ jobs_available' = [jobs_available EXCEPT ![p] = @ - 1]
  /\ possible' = [possible EXCEPT ![p] = Tail(@)]
  /\ writer' = p
  /\ UNCHANGED names

\* The loop is over: the lock is released and maintain returns.
FireEnd(p) ==
  /\ pc[p] = "fire" /\ writer \in {NoThread, p}
  /\ jobs_available[p] = 0 \/ possible[p] = <<>>
  /\ pc' = [pc EXCEPT ![p] = "idle"]
  /\ jobs_available' = [jobs_available EXCEPT ![p] = 0]
  /\ names' = [names EXCEPT ![p] = {}]
  /\ possible' = [possible EXCEPT ![p] = <<>>]
  /\ writer' = NoThread
  /\ UNCHANGED counters

Maintain(p) == Load(p) \/ Scan(p) \/ Sort(p) \/ FireNext(p) \/ FireEnd(p)

-----------------------------------------------------------------------------
(* The worker, once the submitted function has returned *)

\* Mutant: the job gives back a place twice.
LocalSubTwice(j) ==
  /\ pc[j] = "running"
  /\ local_running_jobs' = [local_running_jobs EXCEPT ![NameOf[j]] = @ - 2]
  /\ pc' = [pc EXCEPT ![j] = "leaving"]
  /\ UNCHANGED <<global_running_jobs, spawned_total, writer, locals>>

LocalSub(j) ==
  /\ pc[j] = "running"
  /\ local_running_jobs' = [local_running_jobs EXCEPT ![NameOf[j]] = @ - 1]
  /\ pc' = [pc EXCEPT ![j] = "leaving"]
  /\ UNCHANGED <<global_running_jobs, spawned_total, writer, locals>>

\* Mutant: a worker leaves without maintaining the pool.
GlobalSubOnly(j) ==
  /\ pc[j] = "leaving"
  /\ global_running_jobs' = global_running_jobs - 1
  /\ pc' = [pc EXCEPT ![j] = "idle"]
  /\ UNCHANGED <<local_running_jobs, spawned_total, writer, locals>>

\* Then the global one; afterwards the worker maintains the pool.
GlobalSub(j) ==
  /\ pc[j] = "leaving"
  /\ global_running_jobs' = global_running_jobs - 1
  /\ pc' = [pc EXCEPT ![j] = "load"]
  /\ UNCHANGED <<local_running_jobs, spawned_total, writer, locals>>

-----------------------------------------------------------------------------
\* After an overrun the program has aborted, or spins with the lock held.
Up == \A p \in Thread : pc[p] # "overrun"

Next ==
  /\ Up
  /\ \/ \E c \in Caller, j \in Job : Spawn(c, j) \/ Cancel(c, j)
     \/ \E p \in Thread : Maintain(p)
     \/ \E j \in Job : LocalSub(j) \/ GlobalSub(j)

Spec == Init /\ [][Next]_vars

\* Threads run on, and submitted functions return.
Fairness ==
  /\ \A p \in Thread : WF_vars(Up /\ Maintain(p))
  /\ \A j \in Job : WF_vars(Up /\ LocalSub(j)) /\ WF_vars(Up /\ GlobalSub(j))

FairSpec == Spec /\ Fairness

-----------------------------------------------------------------------------
(* Properties *)

\* The counters agree with the jobs although they are changed one after the
\* other and outside of the lock: the local ones count the jobs that run, the
\* global one also those that have just left their name's count.
CountersAgree ==
  /\ \A n \in Name : local_running_jobs[n] = Cardinality(Executing(n))
  /\ global_running_jobs = Cardinality(Counted)

\* The pool keeps its promise to those who submit jobs.
stage == [j \in Job |-> CASE pc[j] \in {"new", "waiting", "cancelled", "running"} -> pc[j]
                          [] OTHER -> "done"]
Pool == INSTANCE JobPool WITH MaxLocal <- max_local
ImplementsPool == Pool!Spec

\* Every job that waits is fired at last: the last worker to finish maintains
\* the pool for those that were turned away at a limit. Only a cancelled job
\* of another name can take its turn away.
AllRun ==
  \A j \in Job :
    pc[j] = "waiting" ~>
      \/ pc[j] # "waiting"
      \/ ~Up
      \/ \E k \in Job : NameOf[k] # NameOf[j] /\ pc[k] = "cancelled"
=============================================================================
