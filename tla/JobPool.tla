------------------------------ MODULE JobPool --------------------------------
(***************************************************************************)
(* What a pool for slow jobs promises to those who submit jobs             *)
(* (common/src/slowjob.rs): a job is run at most once, is not run after    *)
(* it was cancelled, and no more jobs of one name run at a time than its   *)
(* configuration allows.                                                   *)
(***************************************************************************)
EXTENDS Naturals, FiniteSets

CONSTANTS
  Job,           \* jobs that are ever submitted
  Name,          \* names of job configurations
  NameOf,        \* the name a job is submitted under
  MaxLocal       \* how many jobs of a name may run at a time

VARIABLE stage   \* where each job is in its life

Stage == {"new", "waiting", "running", "done", "cancelled"}

\* Jobs of name n that run.
Running(n) == {j \in Job : NameOf[j] = n /\ stage[j] = "running"}

Init == stage = [j \in Job |-> "new"]

Move(j, from, to) ==
  /\ stage[j] = from
  /\ stage' = [stage EXCEPT ![j] = to]

Submit(j) == Move(j, "new", "waiting")
Start(j)  == Cardinality(Running(NameOf[j])) < MaxLocal[NameOf[j]]
             /\ Move(j, "waiting", "running")
Finish(j) == Move(j, "running", "done")
Cancel(j) == Move(j, "waiting", "cancelled")

Next == \E j \in Job : Submit(j) \/ Start(j) \/ Finish(j) \/ Cancel(j)

Spec == Init /\ [][Next]_stage
=============================================================================
