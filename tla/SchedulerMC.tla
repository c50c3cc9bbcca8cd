----------------------------- MODULE SchedulerMC -----------------------------
(* Instances of Scheduler for TLC: jobs are numbers.                          *)
EXTENDS Scheduler

\* Two hosts, one job behind a rate limiter, and a follow-up job (5).
ScanSource  == <<1, 2, 3, 4>>
ScanJobs    == 1 .. 5
ScanKey     == [j \in ScanJobs |-> IF j = 3 THEN "b" ELSE "a"]
ScanLimited == {2}
==============================================================================
