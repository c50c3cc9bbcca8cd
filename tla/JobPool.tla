------------------------------- MODULE JobPool -------------------------------
(***************************************************************************)
(* What the scan scheduler promises its callers (the docstrings of         *)
(* nemla/scanning/scheduler.py), without its queues: jobs that are handed  *)
(* over run within a global and a per-key limit, each at most once, their  *)
(* results are yielded one by one, and the iteration ends only when there  *)
(* is nothing left to run or the run was cancelled.                        *)
(***************************************************************************)
EXTENDS Integers, FiniteSets

CONSTANTS Job, KeyOf, Workers, PerKey

VARIABLES
  handed,  \* the jobs given to the pool so far
  stage,   \* per job: idle, active, done, yielded or discarded
  cancel,  \* the cancel event
  ended    \* how the iteration over the results ended: no, returned or abandoned

poolVars == <<handed, stage, cancel, ended>>

At(s) == {j \in Job : stage[j] = s}
ActiveOf(k) == {j \in At("active") : KeyOf[j] = k}

PoolInit ==
  /\ handed \in SUBSET Job /\ stage = [j \in Job |-> "idle"]
  /\ cancel = FALSE /\ ended = "no"

Begin(j) ==
  /\ ended = "no" /\ j \in handed /\ stage[j] = "idle"
  /\ Cardinality(At("active") \cup At("done")) < Workers
  /\ Cardinality(ActiveOf(KeyOf[j])) < PerKey
  /\ stage' = [stage EXCEPT ![j] = "active"]
  /\ UNCHANGED <<handed, cancel, ended>>

Complete(j) ==
  /\ stage[j] = "active"
  /\ stage' = [stage EXCEPT ![j] = "done"]
  /\ UNCHANGED <<handed, cancel, ended>>

\* The caller gets the result of j and may hand over more jobs.
Yield(j) ==
  /\ ended = "no" /\ stage[j] = "done"
  /\ stage' = [stage EXCEPT ![j] = "yielded"]
  /\ \E more \in SUBSET Job : handed' = handed \cup more
  /\ UNCHANGED <<cancel, ended>>

Return ==
  /\ ended = "no" /\ At("active") \cup At("done") = {}
  /\ cancel \/ handed \subseteq At("yielded")
  /\ ended' = "returned"
  /\ UNCHANGED <<handed, stage, cancel>>

\* The caller abandons the iteration; jobs not begun may be discarded.
Abandon ==
  /\ ended = "no" /\ ended' = "abandoned"
  /\ \E gone \in SUBSET At("active") :
       stage' = [j \in Job |-> IF j \in gone THEN "discarded" ELSE stage[j]]
  /\ UNCHANGED <<handed, cancel>>

Cancel ==
  /\ ~cancel /\ cancel' = TRUE
  /\ UNCHANGED <<handed, stage, ended>>

PoolNext ==
  \/ \E j \in Job : Begin(j) \/ Complete(j) \/ Yield(j)
  \/ Return \/ Abandon \/ Cancel

PoolSpec == PoolInit /\ [][PoolNext]_poolVars
==============================================================================
