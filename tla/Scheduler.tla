------------------------------ MODULE Scheduler ------------------------------
(***************************************************************************)
(* Scheduler.results of nemla/scanning/scheduler.py: the generator behind  *)
(* every scan, its pool of worker threads and the cancel event.            *)
(*                                                                         *)
(* The consumer thread runs the generator (actions LeaveFill, Pick,        *)
(* Submit, Refused, Get, Timeout, Deliver, Close), worker threads run the  *)
(* jobs (Start, Finish), and anybody may set the cancel event (SetCancel). *)
(* The body of the caller's `for job, result in scheduler.results(jobs)`   *)
(* is part of Deliver: it may queue follow-up jobs with add().             *)
(***************************************************************************)
EXTENDS Integers, FiniteSets, SequencesExt

CONSTANTS
  Job,       \* every job of the run, follow-up jobs included
  NoJob,     \* not a job: next_job() returned None
  Source,    \* the iterable `jobs`, as the sequence it produces
  KeyOf,     \* KeyOf[j] is job.key: the host whose limit j counts against
  Limited,   \* the jobs that carry a rate limiter
  OkResult,  \* what a job's function may return
  Workers, PerKey, Window   \* the three bounds of Scheduler.__init__

Failed    == "JobFailed"
CANCELLED == "CANCELLED"
Result    == OkResult \cup {Failed, CANCELLED}
\* The states of a job's future; "discarded" is a successful future.cancel().
FutState  == {"new", "queued", "running", "discarded"} \cup Result

ASSUME SchedulerAssumption ==
  /\ NoJob \notin Job
  /\ Source \in Seq(Job) /\ IsInjective(Source)
  /\ IsFiniteSet(Job)
  /\ KeyOf \in [Job -> Range(KeyOf)]
  /\ Limited \subseteq Job
  /\ OkResult \cap ({"new", "queued", "running", "discarded", Failed, CANCELLED}) = {}
  /\ Workers \in Nat \ {0}
  /\ PerKey \in Nat \ {0}
  /\ Window \in Nat \ {0}

Key == Range(KeyOf)

VARIABLES
  pc,        \* where the consumer is in the generator
  pulled,    \* how many jobs next(source) has produced
  deferred,  \* deque: pulled, but their key was busy
  extra,     \* deque self._extra: follow-up jobs queued by add()
  popped,    \* the job between next_job() and pool.submit(), or NoJob
  inflight,  \* the jobs of the dict `inflight`
  busy,      \* Counter: in-flight jobs per key
  finished,  \* SimpleQueue filled by the futures' done callbacks
  batch,     \* finished futures taken and not yet yielded
  fut,       \* per job, the state or the result of its future
  cancel,    \* the cancel event
  stats,     \* the counters of self.stats that count jobs
  added,     \* history: the jobs given to add()
  yielded    \* history: the jobs yielded with their result

consumerVars == <<pc, pulled, deferred, extra, popped, inflight, busy, batch,
                  stats, added, yielded>>
vars == <<pc, pulled, deferred, extra, popped, inflight, busy, finished, batch,
          fut, cancel, stats, added, yielded>>

Init ==
  /\ pc = "fill" /\ pulled = 0
  /\ deferred = <<>> /\ extra = <<>> /\ popped = NoJob
  /\ inflight = {} /\ busy = [k \in Key |-> 0]
  /\ finished = <<>> /\ batch = <<>>
  /\ fut = [j \in Job |-> "new"]
  /\ cancel = FALSE
  /\ stats = [submitted |-> 0, completed |-> 0, failed |-> 0, cancelled |-> 0,
              peak_inflight |-> 0]
  /\ added = {} /\ yielded = {}

-----------------------------------------------------------------------------
(* next_job(): follow-up jobs first, then deferred ones, then the source.  *)

\* Mutant of Eligible: one job too many per host.
EligibleOffByOne(j) == busy[KeyOf[j]] <= PerKey

Eligible(j) == busy[KeyOf[j]] < PerKey

\* Mutant of FirstEligible: the loop over the queue is one turn short.
AllButTheLast(queue) ==
  {i \in DOMAIN queue : /\ i < Len(queue) /\ Eligible(queue[i])
                        /\ \A h \in 1 .. i - 1 : ~Eligible(queue[h])}

\* take_eligible(queue): the position of the job it returns, as a set of at
\* most one element.
FirstEligible(queue) ==
  {i \in DOMAIN queue : /\ Eligible(queue[i])
                        /\ \A h \in 1 .. i - 1 : ~Eligible(queue[h])}

\* Mutant of Rotated: the job is read but stays in the queue.
RotatedKept(queue, i) == SubSeq(queue, i, Len(queue)) \o SubSeq(queue, 1, i - 1)

\* What take_eligible leaves behind: the jobs it skipped went to the back.
Rotated(queue, i) == SubSeq(queue, i + 1, Len(queue)) \o SubSeq(queue, 1, i - 1)

\* The last position of the source that next_job may pull: every job it skips
\* is deferred, and it stops when the window is full.
PullLimit ==
  IF Len(Source) - pulled <= Window - Len(deferred)
    THEN Len(Source)
    ELSE pulled + (Window - Len(deferred))

FirstPull ==
  {i \in pulled + 1 .. PullLimit :
      /\ Eligible(Source[i])
      /\ \A h \in pulled + 1 .. i - 1 : ~Eligible(Source[h])}

\* Mutant of MayFill: the cancel event is not looked at.
MayAlwaysFill == pc = "fill" /\ Cardinality(inflight) < Workers

MayFill == pc = "fill" /\ Cardinality(inflight) < Workers /\ ~cancel

Take(j) == popped' = j /\ pc' = "submit"

PickExtra ==
  \E i \in FirstEligible(extra) :
    /\ Take(extra[i])
    /\ extra' = Rotated(extra, i)
    /\ UNCHANGED <<deferred, pulled>>

PickDeferred ==
  /\ FirstEligible(extra) = {}
  /\ \E i \in FirstEligible(deferred) :
       /\ Take(deferred[i])
       /\ deferred' = Rotated(deferred, i)
       /\ UNCHANGED <<extra, pulled>>

PickSource ==
  /\ FirstEligible(extra) = {} /\ FirstEligible(deferred) = {}
  /\ \E i \in FirstPull :
       /\ Take(Source[i])
       /\ deferred' = deferred \o SubSeq(Source, pulled + 1, i - 1)
       /\ pulled' = i
       /\ UNCHANGED extra

Pick ==
  /\ MayFill
  /\ PickExtra \/ PickDeferred \/ PickSource
  /\ UNCHANGED <<inflight, busy, finished, batch, fut, cancel, stats, added, yielded>>

\* next_job() returned None: what it pulled on the way is deferred.
NoneEligible ==
  /\ MayFill
  /\ FirstEligible(extra) = {} /\ FirstEligible(deferred) = {} /\ FirstPull = {}
  /\ deferred' = deferred \o SubSeq(Source, pulled + 1, PullLimit)
  /\ pulled' = PullLimit

\* Mutant of AfterFill: the end of the source ends the iteration.
AfterFillSourceDone ==
  pc' = IF inflight = {} \/ (pulled = Len(Source) /\ deferred = <<>>) THEN "returned" ELSE "get"

\* Mutant of AfterFill: a cancelled run does not wait for its running jobs.
AfterFillAtOnce == pc' = IF inflight = {} \/ cancel THEN "returned" ELSE "get"

\* Behind the fill loop: wait for a result, or return when nothing is running.
AfterFill == pc' = IF inflight = {} THEN "returned" ELSE "get"

LeaveFill ==
  /\ \/ NoneEligible
     \/ /\ pc = "fill" /\ (cancel \/ Cardinality(inflight) >= Workers)
        /\ UNCHANGED <<deferred, pulled>>
  /\ AfterFill
  /\ UNCHANGED <<extra, popped, inflight, busy, finished, batch, fut, cancel,
                 stats, added, yielded>>

\* busy[job.key] += 1
Held(j) == [busy EXCEPT ![KeyOf[j]] = @ + 1]

\* limiter.acquire() granted its token (or there is no limiter): pool.submit().
Submit ==
  /\ pc = "submit"
  /\ fut' = [fut EXCEPT ![popped] = "queued"]
  /\ inflight' = inflight \cup {popped}
  /\ busy' = Held(popped)
  /\ stats' = [stats EXCEPT
                 !["submitted"] = @ + 1,
                 !["peak_inflight"] = IF Cardinality(inflight') > @
                                      THEN Cardinality(inflight') ELSE @]
  /\ popped' = NoJob /\ pc' = "fill"
  /\ UNCHANGED <<pulled, deferred, extra, finished, batch, cancel, added, yielded>>

\* The wait for a token was cancelled: `break` leaves the popped job behind.
Refused ==
  /\ pc = "submit" /\ popped \in Limited /\ cancel
  /\ popped' = NoJob
  /\ AfterFill
  /\ UNCHANGED <<pulled, deferred, extra, inflight, busy, finished, batch, fut,
                 cancel, stats, added, yielded>>

-----------------------------------------------------------------------------
(* Waiting for results, and yielding them.                                 *)

Get ==
  /\ pc = "get" /\ finished # <<>>
  /\ batch' = finished /\ finished' = <<>>
  /\ pc' = "deliver"
  /\ UNCHANGED <<pulled, deferred, extra, popped, inflight, busy, fut, cancel,
                 stats, added, yielded>>

\* finished.get(timeout=0.2) raised queue.Empty: look at the cancel event again.
Timeout ==
  /\ pc = "get" /\ finished = <<>>
  /\ pc' = "fill"
  /\ UNCHANGED <<pulled, deferred, extra, popped, inflight, busy, finished, batch,
                 fut, cancel, stats, added, yielded>>

Counter(result) == IF result = CANCELLED THEN "cancelled"
                   ELSE IF result = Failed THEN "failed" ELSE "completed"

\* One turn of `for future in batch`, up to the next turn: the caller's loop
\* body runs at the yield and calls add() for each job of the sequence adds.
Deliver(adds) ==
  /\ pc = "deliver"
  /\ LET j == Head(batch) IN
       /\ inflight' = inflight \ {j}
       /\ busy' = [busy EXCEPT ![KeyOf[j]] = @ - 1]
       /\ stats' = [stats EXCEPT ![Counter(fut[j])] = @ + 1]
       /\ yielded' = yielded \cup {j}
  /\ batch' = Tail(batch)
  /\ extra' = extra \o adds
  /\ added' = added \cup ToSet(adds)
  /\ pc' = IF Tail(batch) = <<>> THEN "fill" ELSE "deliver"
  /\ UNCHANGED <<pulled, deferred, popped, finished, fut, cancel>>

\* The generator is closed early (the caller stopped iterating, or Ctrl+C was
\* raised inside it): `finally` cancels the futures no worker has begun.
Close ==
  /\ pc \notin {"returned", "closed"}
  /\ pc' = "closed"
  /\ fut' = [j \in Job |-> IF j \in inflight /\ fut[j] = "queued"
                           THEN "discarded" ELSE fut[j]]
  /\ UNCHANGED <<pulled, deferred, extra, popped, inflight, busy, finished, batch,
                 cancel, stats, added, yielded>>

-----------------------------------------------------------------------------
(* Worker threads: _call, and the done callback that queues the future.    *)

Running == {j \in Job : fut[j] = "running"}

\* Mutant of Completed: no done callback.
CompletedSilently(j, result) == fut' = [fut EXCEPT ![j] = result] /\ UNCHANGED finished

Completed(j, result) ==
  /\ fut' = [fut EXCEPT ![j] = result]
  /\ finished' = Append(finished, j)

Start(j) ==
  /\ fut[j] = "queued" /\ Cardinality(Running) < Workers
  /\ \/ cancel /\ Completed(j, CANCELLED)
     \/ ~cancel /\ fut' = [fut EXCEPT ![j] = "running"] /\ UNCHANGED finished
  /\ UNCHANGED <<consumerVars, cancel>>

\* job.fn() returned, raised, or gave up because it saw the cancel event.
Finish(j, result) ==
  /\ fut[j] = "running"
  /\ result = CANCELLED => cancel
  /\ Completed(j, result)
  /\ UNCHANGED <<consumerVars, cancel>>

SetCancel ==
  /\ ~cancel /\ cancel' = TRUE
  /\ UNCHANGED <<consumerVars, finished, fut>>

-----------------------------------------------------------------------------
SourceJobs == ToSet(Source)

\* A caller that adds at most one follow-up job per result, each one once.
FollowUps == {<<>>} \cup {<<j>> : j \in Job \ (SourceJobs \cup added)}

Consumer == \/ Pick \/ LeaveFill \/ Submit \/ Refused \/ Get \/ Timeout
            \/ \E adds \in FollowUps : Deliver(adds)
Worker(j) == Start(j) \/ \E result \in Result : Finish(j, result)

\* After the return (or the close) and the last job, the pool is idle.
Idle == pc \in {"returned", "closed"} /\ \A j \in Job : fut[j] \notin {"queued", "running"}
Terminated == Idle /\ UNCHANGED vars

Next == Consumer \/ (\E j \in Job : Worker(j)) \/ SetCancel \/ Close \/ Terminated

Spec == Init /\ [][Next]_vars

-----------------------------------------------------------------------------
(* Properties.                                                             *)

Pulled == {Source[i] : i \in 1 .. pulled}
Handed == Pulled \cup added
Waiting == ToSet(extra) \cup ToSet(deferred) \cup ({popped} \ {NoJob})
\* A job the caller never hears of again.
Lost == Handed \ (Waiting \cup inflight \cup yielded)

\* The type of every variable.
TypeOK ==
  /\ pc \in {"fill", "submit", "get", "deliver", "returned", "closed"}
  /\ pulled \in 0 .. Len(Source)
  /\ deferred \in Seq(Job) /\ extra \in Seq(Job)
  /\ finished \in Seq(Job) /\ batch \in Seq(Job)
  /\ popped \in Job \cup {NoJob}
  /\ inflight \subseteq Job /\ added \subseteq Job /\ yielded \subseteq Job
  /\ busy \in [Key -> Nat]
  /\ fut \in [Job -> FutState]
  /\ cancel \in BOOLEAN
  /\ stats \in [{"submitted", "completed", "failed", "cancelled", "peak_inflight"} -> Int]

\* At most Workers jobs are in the hands of the pool, results not yet yielded
\* included, and never more than PerKey of one host are queued or running: "a
\* single target is never hammered with every worker".
LimitsHold ==
  /\ Cardinality(inflight) <= Workers
  /\ \A k \in Key :
       Cardinality({j \in Job : KeyOf[j] = k /\ fut[j] \in {"queued", "running"}}) <= PerKey

\* Every job handed over is in one place only: waiting (in one queue, once),
\* in flight or yielded. A job disappears only when the run was cancelled.
JobsConserved ==
  /\ Waiting \cap inflight = {} /\ Waiting \cap yielded = {} /\ inflight \cap yielded = {}
  /\ Cardinality(Waiting) = Len(extra) + Len(deferred) + (IF popped = NoJob THEN 0 ELSE 1)
  /\ Waiting \cup inflight \cup yielded \subseteq Handed
  /\ Lost # {} => cancel

\* A generator that returns without having been cancelled has pulled the whole
\* source and yielded every job, follow-up jobs included.
ReturnsOnlyWhenDone ==
  pc = "returned" /\ ~cancel => yielded = SourceJobs \cup added

\* The consumer never waits with an idle worker while a job could start: not
\* one in its queues, and not the next of the source as long as the window of
\* held-back jobs has room.
NoIdleWorker ==
  pc = "get" /\ ~cancel /\ Cardinality(inflight) < Workers =>
    /\ \A j \in Waiting : ~Eligible(j)
    /\ pulled < Len(Source) => Len(deferred) >= Window

\* "Nothing new is started once the cancel event is set": the only job that can
\* still reach the pool is the one already popped, and no job begins to run.
NothingNewAfterCancel ==
  [][cancel => /\ popped' \in {popped, NoJob}
               /\ \A j \in Job : /\ fut[j] = "new" /\ fut'[j] # "new" => j = popped
                                 /\ fut[j] # "running" => fut'[j] # "running"]_vars

\* What the abstract pool sees of the generator.
Given == SourceJobs \cup added
Stage == [j \in Job |-> IF j \in yielded THEN "yielded"
                       ELSE IF fut[j] = "new" THEN "idle"
                       ELSE IF fut[j] = "discarded" THEN "discarded"
                       ELSE IF fut[j] \in {"queued", "running"} THEN "active"
                       ELSE "done"]
Ended == CASE pc = "returned" -> "returned" [] pc = "closed" -> "abandoned" [] OTHER -> "no"

\* The generator implements the abstract pool of JobPool.
Pool == INSTANCE JobPool WITH handed <- Given, stage <- Stage, ended <- Ended
ImplementsPool == Pool!PoolSpec

-----------------------------------------------------------------------------
(* The inductive invariant behind LimitsHold and ReturnsOnlyWhenDone.      *)

InFlightOf(k) == {j \in inflight : KeyOf[j] = k}

\* The jobs that wait are new, each at one position of one queue.
QueuesInv ==
  /\ IsInjective(extra) /\ ToSet(extra) \subseteq added
  /\ IsInjective(deferred) /\ ToSet(deferred) \subseteq Pulled
  /\ added \cap SourceJobs = {}
  /\ popped # NoJob => popped \in Handed /\ popped \notin ToSet(extra) \cup ToSet(deferred)
  /\ pc = "submit" => popped # NoJob
  /\ popped # NoJob => pc \in {"submit", "closed"}
  /\ \A j \in Waiting : fut[j] = "new"
  /\ \A j \in Job : fut[j] # "new" => j \in Handed

\* A job in the pool is in flight until its result is taken from the batch.
FlightInv ==
  /\ \A j \in Job : fut[j] \in {"queued", "running"} => j \in inflight
  /\ \A j \in inflight : fut[j] # "new"
  /\ IsInjective(finished) /\ IsInjective(batch)
  /\ ToSet(finished) \cap ToSet(batch) = {}
  /\ \A j \in ToSet(finished) \cup ToSet(batch) : j \in inflight /\ fut[j] \in Result
  /\ pc = "deliver" => batch # <<>>
  /\ \A j \in yielded : fut[j] \in Result /\ j \notin inflight

\* busy counts the jobs in flight of a key, and is tested before every submit.
CountInv ==
  /\ Cardinality(inflight) <= Workers
  /\ \A k \in Key : busy[k] = Cardinality(InFlightOf(k)) /\ busy[k] <= PerKey
  /\ pc = "submit" => Cardinality(inflight) < Workers /\ Eligible(popped)

\* Nothing handed over is lost, and a return without cancel leaves nothing.
DoneInv ==
  /\ Len(deferred) <= Window
  /\ Lost # {} => cancel
  /\ pc = "returned" /\ ~cancel =>
       inflight = {} /\ Waiting = {} /\ pulled = Len(Source)

IInv == TypeOK /\ QueuesInv /\ FlightInv /\ CountInv /\ DoneInv
==============================================================================
