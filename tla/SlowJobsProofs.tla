--------------------------- MODULE SlowJobsProofs ----------------------------
(***************************************************************************)
(* Proofs about SlowJobs, for any jobs, callers, names and limits:         *)
(*  - type correctness; no counter falls below zero;                       *)
(*  - the counters agree with the jobs, and no name exceeds its limit;     *)
(*  - the pool implements JobPool.                                         *)
(***************************************************************************)
EXTENDS SlowJobs, FiniteSetTheorems, SequenceTheorems, TLAPS

\* A name's counter never exceeds its configuration.
WithinLimit == \A n \in Name : local_running_jobs[n] <= max_local[n]

\* The inductive invariant: the counters, decremented outside of the lock,
\* stay natural numbers because they count sets of jobs.
IInv == TypeOK /\ CountersAgree /\ WithinLimit

\* The sets the counters count are finite.
LEMMA CountedSets ==
  /\ IsFiniteSet(Counted) /\ Cardinality(Counted) \in Nat
  /\ \A n : IsFiniteSet(Executing(n)) /\ Cardinality(Executing(n)) \in Nat
<1>1. Counted \in SUBSET Job /\ \A n : Executing(n) \in SUBSET Job
  BY DEF Counted, Executing
<1> QED
  BY <1>1, FS_Subset, FS_CardinalityType, ThreadAssumption

\* What maintain sorts are sequences of names.
LEMMA OrdersType ==
  ASSUME NEW S \in SUBSET Name, NEW s \in Orders(S)
  PROVE  s \in Seq(Name)
<1>1. Cardinality(S) \in Nat
  BY FS_Subset, FS_CardinalityType, LimitAssumption
<1>2. s \in [1..Cardinality(S) -> Name]
  BY DEF Orders
<1> QED
  BY <1>1, <1>2, SeqDef

\* A step that changes the stage of no job into or out of the counted ones.
LEMMA UntouchedCounters ==
  ASSUME IInv, UNCHANGED counters,
         \A j \in Job : /\ pc'[j] = "running" <=> pc[j] = "running"
                        /\ pc'[j] = "leaving" <=> pc[j] = "leaving"
  PROVE  CountersAgree' /\ WithinLimit'
<1>1. Counted' = Counted /\ \A n : Executing(n)' = Executing(n)
  BY DEF Counted, Executing
<1> QED
  BY <1>1 DEF IInv, CountersAgree, WithinLimit, counters

\* The initial state satisfies the inductive invariant.
LEMMA InitInv == Init => IInv
<1> SUFFICES ASSUME Init PROVE IInv
  OBVIOUS
<1>1. TypeOK
  BY ThreadAssumption DEF Init, TypeOK, Thread, JobStage, MaintainStep
<1>2. Counted = {} /\ \A n : Executing(n) = {}
  BY ThreadAssumption DEF Init, Counted, Executing, Thread
<1>3. CountersAgree
  BY <1>2, FS_EmptySet DEF Init, CountersAgree
<1>4. WithinLimit
  BY LimitAssumption DEF Init, WithinLimit
<1> QED
  BY <1>1, <1>3, <1>4 DEF IInv

\* Submitting and cancelling.
LEMMA CallerInv ==
  ASSUME IInv, NEW c \in Caller, NEW j \in Job, Spawn(c, j) \/ Cancel(c, j)
  PROVE  IInv'
<1>1. c \in Thread /\ j \in Thread /\ c \notin Job /\ j \notin Caller
  BY ThreadAssumption DEF Thread
<1>2. TypeOK'
  <2>1. pc' \in [Thread -> JobStage \cup MaintainStep]
    BY <1>1 DEF IInv, TypeOK, Spawn, Cancel, JobStage, MaintainStep
  <2>2. \A d \in Caller : pc'[d] \in MaintainStep
    BY <1>1, ThreadAssumption DEF IInv, TypeOK, Spawn, Cancel, MaintainStep, Thread
  <2>3. UNCHANGED <<counters, writer, locals>>
    BY DEF Spawn, Cancel
  <2> QED
    BY <2>1, <2>2, <2>3 DEF IInv, TypeOK, counters, locals
<1>3. \A k \in Job : /\ pc'[k] = "running" <=> pc[k] = "running"
                     /\ pc'[k] = "leaving" <=> pc[k] = "leaving"
  BY <1>1, ThreadAssumption DEF IInv, TypeOK, Spawn, Cancel, Thread
<1>4. UNCHANGED counters
  BY DEF Spawn, Cancel
<1> QED
  BY <1>2, <1>3, <1>4, UntouchedCounters DEF IInv

\* The steps of maintain that fire nothing.
LEMMA QuietInv ==
  ASSUME IInv, NEW p \in Thread, Load(p) \/ Scan(p) \/ Sort(p) \/ FireEnd(p)
  PROVE  IInv'
<1>1. UNCHANGED counters /\ \A q \in Thread : q # p => pc'[q] = pc[q]
  BY DEF IInv, TypeOK, Load, Scan, Sort, FireEnd
<1>2. pc[p] \in MaintainStep /\ pc'[p] \in MaintainStep
  BY DEF IInv, TypeOK, Load, Scan, Sort, FireEnd, MaintainStep
<1>3. \A k \in Job : /\ pc'[k] = "running" <=> pc[k] = "running"
                     /\ pc'[k] = "leaving" <=> pc[k] = "leaving"
  BY <1>1, <1>2 DEF Thread, MaintainStep
<1>4. TypeOK'
  <2>1. pc' \in [Thread -> JobStage \cup MaintainStep]
    BY <1>2 DEF IInv, TypeOK, Load, Scan, Sort, FireEnd
  <2>2. \A c \in Caller : pc'[c] \in MaintainStep
    BY <1>1, <1>2 DEF IInv, TypeOK, Thread
  <2>3. jobs_available' \in [Thread -> Nat]
    BY LimitAssumption DEF IInv, TypeOK, Load, Scan, Sort, FireEnd, locals
  <2>4. names' \in [Thread -> SUBSET Name]
    BY DEF IInv, TypeOK, Load, Scan, Sort, FireEnd
  <2>5. possible' \in [Thread -> Seq(Name)]
    <3>1. CASE Sort(p)
      <4>1. names[p] \in SUBSET Name
        BY DEF IInv, TypeOK
      <4>2. PICK s \in Orders(names[p]) : possible' = [possible EXCEPT ![p] = s]
        BY <3>1 DEF Sort
      <4> QED
        BY <4>1, <4>2, OrdersType DEF IInv, TypeOK
    <3>2. CASE Load(p) \/ Scan(p)
      BY <3>2 DEF IInv, TypeOK, Load, Scan
    <3>3. CASE FireEnd(p)
      <4>1. <<>> \in Seq(Name)
        OBVIOUS
      <4> QED
        BY <3>3, <4>1 DEF IInv, TypeOK, FireEnd
    <3> QED
      BY <3>1, <3>2, <3>3
  <2>6. writer' \in Thread \cup {NoThread}
    BY DEF IInv, TypeOK, Load, Scan, Sort, FireEnd
  <2> QED
    BY <1>1, <2>1, <2>2, <2>3, <2>4, <2>5, <2>6 DEF IInv, TypeOK, counters
<1> QED
  BY <1>1, <1>3, <1>4, UntouchedCounters DEF IInv

\* A turn of the firing loop: the job enters both counts, and the limit was
\* checked under the same lock.
LEMMA FireInv ==
  ASSUME IInv, NEW p \in Thread, FireNext(p)
  PROVE  IInv'
<1>0. Head(possible[p]) \in Name /\ Tail(possible[p]) \in Seq(Name)
  BY DEF IInv, TypeOK, FireNext
<1>1. PICK n \in Name : n = Head(possible[p])
  BY <1>0
<1>2. /\ jobs_available' \in [Thread -> Nat]
      /\ names' \in [Thread -> SUBSET Name]
      /\ possible' \in [Thread -> Seq(Name)]
      /\ writer' \in Thread \cup {NoThread}
  BY <1>0 DEF IInv, TypeOK, FireNext
<1>3. CASE CanFire(n) /\ \E j \in Waiting(n) : pc' = [pc EXCEPT ![j] = "running"]
  <2>1. PICK j \in Waiting(n) : pc' = [pc EXCEPT ![j] = "running"]
    BY <1>3
  <2>2. j \in Job /\ j \in Thread /\ NameOf[j] = n /\ pc[j] = "waiting"
    BY <2>1 DEF Waiting, Thread
  <2>3. /\ local_running_jobs' = [local_running_jobs EXCEPT ![n] = @ + 1]
        /\ global_running_jobs' = global_running_jobs + 1
        /\ spawned_total' = [spawned_total EXCEPT ![n] = @ + 1]
    <3>1. pc' # pc
      BY <2>1, <2>2 DEF IInv, TypeOK
    <3> QED
      BY <1>1, <3>1 DEF FireNext
  <2>4. Counted' = Counted \cup {j} /\ j \notin Counted
    BY <2>1, <2>2 DEF IInv, TypeOK, Counted
  <2>5. /\ Executing(n)' = Executing(n) \cup {j} /\ j \notin Executing(n)
        /\ \A m : m # n => Executing(m)' = Executing(m)
    BY <2>1, <2>2 DEF IInv, TypeOK, Executing
  <2>6. TypeOK'
    <3>1. pc' \in [Thread -> JobStage \cup MaintainStep]
      BY <2>1, <2>2 DEF IInv, TypeOK, JobStage
    <3>2. \A c \in Caller : pc'[c] \in MaintainStep
      BY <2>1, <2>2, ThreadAssumption DEF IInv, TypeOK, Thread
    <3>3. /\ local_running_jobs' \in [Name -> Nat] /\ global_running_jobs' \in Nat
          /\ spawned_total' \in [Name -> Nat]
      BY <1>1, <2>3 DEF IInv, TypeOK
    <3> QED
      BY <1>2, <3>1, <3>2, <3>3 DEF TypeOK
  <2>7. CountersAgree'
    <3>1. global_running_jobs' = Cardinality(Counted')
      BY <2>3, <2>4, CountedSets, FS_AddElement DEF IInv, CountersAgree
    <3>2. Cardinality(Executing(n)') = Cardinality(Executing(n)) + 1
      BY ZenonT(60), <2>5, CountedSets, FS_AddElement
    <3>3. \A m \in Name : local_running_jobs'[m] = Cardinality(Executing(m)')
      BY <1>1, <2>3, <2>5, <3>2 DEF IInv, TypeOK, CountersAgree
    <3> QED
      BY <3>1, <3>3 DEF CountersAgree
  <2>8. WithinLimit'
    <3>1. local_running_jobs[n] + 1 <= max_local[n]
      BY <1>1, <1>3, LimitAssumption DEF IInv, TypeOK, CanFire
    <3>2. \A m \in Name : local_running_jobs'[m] <= max_local[m]
      BY <1>1, <2>3, <3>1 DEF IInv, TypeOK, WithinLimit
    <3> QED
      BY <3>2 DEF WithinLimit
  <2> QED
    BY <2>6, <2>7, <2>8 DEF IInv
<1>4. CASE UNCHANGED <<pc, counters>>
  <2>1. TypeOK'
    BY <1>2, <1>4 DEF IInv, TypeOK, counters
  <2> QED
    BY <1>4, <2>1, UntouchedCounters DEF IInv
<1> QED
  BY <1>1, <1>3, <1>4 DEF FireNext

\* A job's function has returned: its name's count is given back.
LEMMA LocalSubInv ==
  ASSUME IInv, NEW j \in Job, LocalSub(j)
  PROVE  IInv'
<1> DEFINE n == NameOf[j]
<1>1. n \in Name /\ j \in Thread /\ j \notin Caller
  BY LimitAssumption, ThreadAssumption DEF Thread
<1>2. Counted' = Counted
  BY <1>1 DEF IInv, TypeOK, LocalSub, Counted
<1>3. /\ j \in Executing(n) /\ Executing(n)' = Executing(n) \ {j}
      /\ \A m : m # n => Executing(m)' = Executing(m)
  BY <1>1 DEF IInv, TypeOK, LocalSub, Executing
<1>4. Cardinality(Executing(n)') = Cardinality(Executing(n)) - 1
  BY <1>3, CountedSets, FS_RemoveElement
<1>5. Cardinality(Executing(n)') \in Nat
  BY <1>3, CountedSets, FS_RemoveElement, FS_CardinalityType
<1>6. local_running_jobs' = [local_running_jobs EXCEPT ![n] = @ - 1]
  BY DEF LocalSub
<1>7. \A m \in Name : local_running_jobs'[m] = Cardinality(Executing(m)')
  BY <1>1, <1>3, <1>4, <1>6 DEF IInv, TypeOK, CountersAgree
<1>8. local_running_jobs' \in [Name -> Nat]
  BY <1>1, <1>5, <1>6, <1>7 DEF IInv, TypeOK
<1>9. TypeOK'
  BY <1>1, <1>8 DEF IInv, TypeOK, LocalSub, locals, JobStage
<1>10. CountersAgree'
  BY <1>2, <1>7 DEF IInv, CountersAgree, LocalSub
<1>11. WithinLimit'
  <2>1. local_running_jobs[n] - 1 <= max_local[n]
    BY <1>1, LimitAssumption DEF IInv, TypeOK, WithinLimit
  <2>2. \A m \in Name : local_running_jobs'[m] <= max_local[m]
    BY <1>1, <1>6, <2>1 DEF IInv, TypeOK, WithinLimit
  <2> QED
    BY <2>2 DEF WithinLimit
<1> QED
  BY <1>9, <1>10, <1>11 DEF IInv

\* The worker gives back its place in the global count.
LEMMA GlobalSubInv ==
  ASSUME IInv, NEW j \in Job, GlobalSub(j)
  PROVE  IInv'
<1>1. j \in Thread /\ j \notin Caller
  BY ThreadAssumption DEF Thread
<1>2. j \in Counted /\ Counted' = Counted \ {j}
  BY <1>1 DEF IInv, TypeOK, GlobalSub, Counted
<1>3. \A n : Executing(n)' = Executing(n)
  BY <1>1 DEF IInv, TypeOK, GlobalSub, Executing
<1>4. Cardinality(Counted') = Cardinality(Counted) - 1 /\ Cardinality(Counted') \in Nat
  BY <1>2, CountedSets, FS_RemoveElement, FS_CardinalityType
<1>5. TypeOK'
  BY <1>1, <1>4 DEF IInv, TypeOK, CountersAgree, GlobalSub, locals, MaintainStep
<1>6. CountersAgree' /\ WithinLimit'
  BY <1>3, <1>4 DEF IInv, CountersAgree, WithinLimit, GlobalSub
<1> QED
  BY <1>5, <1>6 DEF IInv

LEMMA StepInv == IInv /\ [Next]_vars => IInv'
<1> SUFFICES ASSUME IInv, [Next]_vars PROVE IInv'
  OBVIOUS
<1>1. CASE \E c \in Caller, j \in Job : Spawn(c, j) \/ Cancel(c, j)
  BY <1>1, CallerInv
<1>2. CASE \E p \in Thread : Maintain(p)
  BY <1>2, QuietInv, FireInv DEF Maintain
<1>3. CASE \E j \in Job : LocalSub(j) \/ GlobalSub(j)
  BY <1>3, LocalSubInv, GlobalSubInv
<1>4. CASE UNCHANGED vars
  <2>1. TypeOK'
    BY <1>4 DEF IInv, TypeOK, vars, counters, locals
  <2> QED
    BY <1>4, <2>1, UntouchedCounters DEF IInv, vars
<1> QED
  BY <1>1, <1>2, <1>3, <1>4 DEF Next

LEMMA Invariance == Spec => []IInv
BY InitInv, StepInv, PTL DEF Spec

\* The pool stays well typed: no counter falls below zero, whatever the order
\* in which workers and callers take their steps.
THEOREM TypeCorrect == Spec => []TypeOK
<1>1. IInv => TypeOK
  BY DEF IInv
<1> QED
  BY <1>1, Invariance, PTL

\* The counters of maintain and of the workers agree with the jobs that run.
THEOREM CountersAlwaysAgree == Spec => []CountersAgree
<1>1. IInv => CountersAgree
  BY DEF IInv
<1> QED
  BY <1>1, Invariance, PTL

-----------------------------------------------------------------------------
(* The refinement of JobPool *)

\* A job that starts finds its name below the limit, counted in jobs.
LEMMA StartMaps ==
  ASSUME IInv, NEW j \in Job, pc[j] = "waiting", CanFire(NameOf[j]),
         pc' = [pc EXCEPT ![j] = "running"]
  PROVE  Pool!Start(j)
<1>1. NameOf[j] \in Name /\ j \in Thread
  BY LimitAssumption DEF Thread
<1>2. Pool!Running(NameOf[j]) = Executing(NameOf[j])
  BY DEF Pool!Running, Executing, stage
<1>3. Cardinality(Executing(NameOf[j])) < max_local[NameOf[j]]
  BY <1>1 DEF IInv, CountersAgree, CanFire
<1>4. Pool!Cardinality(Pool!Running(NameOf[j])) = Cardinality(Executing(NameOf[j]))
  BY <1>2 DEF Cardinality, Pool!Cardinality
<1>5. stage[j] = "waiting" /\ stage' = [stage EXCEPT ![j] = "running"]
  BY <1>1 DEF IInv, TypeOK, stage, Thread
<1> QED
  BY <1>3, <1>4, <1>5 DEF Pool!Start, Pool!Move

\* Each step of the pool moves one job as JobPool allows, or none.
LEMMA StepMaps == IInv /\ [Next]_vars => [Pool!Next]_stage
<1> SUFFICES ASSUME IInv, [Next]_vars PROVE Pool!Next \/ UNCHANGED stage
  BY DEF Pool!Next
<1>1. ASSUME NEW c \in Caller, NEW j \in Job, Spawn(c, j)
      PROVE  Pool!Submit(j)
  <2>1. c \in Thread /\ j \in Thread /\ c \notin Job
    BY ThreadAssumption DEF Thread
  <2>2. stage[j] = "new" /\ stage' = [stage EXCEPT ![j] = "waiting"]
    BY <1>1, <2>1 DEF IInv, TypeOK, Spawn, stage, Thread
  <2> QED
    BY <2>2 DEF Pool!Submit, Pool!Move
<1>2. ASSUME NEW c \in Caller, NEW j \in Job, Cancel(c, j)
      PROVE  Pool!Cancel(j)
  <2>1. stage[j] = "waiting" /\ stage' = [stage EXCEPT ![j] = "cancelled"]
    BY <1>2 DEF IInv, TypeOK, Cancel, stage, Thread
  <2> QED
    BY <2>1 DEF Pool!Cancel, Pool!Move
<1>3. ASSUME NEW p \in Thread, Load(p) \/ Scan(p) \/ Sort(p) \/ FireEnd(p)
      PROVE  UNCHANGED stage
  <2>1. \A q \in Thread : q # p => pc'[q] = pc[q]
    BY <1>3 DEF IInv, TypeOK, Load, Scan, Sort, FireEnd
  <2>2. pc[p] \notin JobStage /\ pc'[p] \notin JobStage
    BY <1>3 DEF IInv, TypeOK, Load, Scan, Sort, FireEnd, JobStage
  <2> QED
    BY <2>1, <2>2 DEF stage, Thread, JobStage
<1>4. ASSUME NEW p \in Thread, FireNext(p)
      PROVE  (\E j \in Job : Pool!Start(j)) \/ UNCHANGED stage
  <2>1. PICK n : n = Head(possible[p])
    OBVIOUS
  <2>2. \/ CanFire(n) /\ \E j \in Waiting(n) : pc' = [pc EXCEPT ![j] = "running"]
        \/ UNCHANGED pc
    BY <1>4, <2>1 DEF FireNext
  <2> QED
    BY <2>2, StartMaps DEF Waiting, stage
<1>5. ASSUME NEW j \in Job, LocalSub(j)
      PROVE  Pool!Finish(j)
  <2>1. stage[j] = "running" /\ stage' = [stage EXCEPT ![j] = "done"]
    BY <1>5 DEF IInv, TypeOK, LocalSub, stage, Thread
  <2> QED
    BY <2>1 DEF Pool!Finish, Pool!Move
<1>6. ASSUME NEW j \in Job, GlobalSub(j)
      PROVE  UNCHANGED stage
  BY <1>6 DEF IInv, TypeOK, GlobalSub, stage, Thread
<1>7. CASE UNCHANGED vars
  BY <1>7 DEF vars, stage
<1> QED
  BY <1>1, <1>2, <1>3, <1>4, <1>5, <1>6, <1>7 DEF Next, Maintain, Pool!Next

\* The pool implements JobPool: no job runs twice or after its cancellation,
\* and no name exceeds its limit in jobs that really run, although maintain
\* decides on counts it has read at different times.
THEOREM PoolImplemented == Spec => ImplementsPool
<1>1. Init => Pool!Init
  BY ThreadAssumption DEF Init, Pool!Init, stage, Thread
<1>2. IInv /\ [Next]_vars => [Pool!Next]_stage
  BY StepMaps
<1> QED
  BY <1>1, <1>2, Invariance, PTL DEF Spec, ImplementsPool, Pool!Spec
=============================================================================
