---------------------------- MODULE EngineProofs -----------------------------
(***************************************************************************)
(* Theorems about ScanEngine, for every list of hosts and ports, every     *)
(* budget and all bounds of the Scheduler. The engine's steps are shown to *)
(* be steps of the Scheduler, so the theorems of SchedulerProofs hold of   *)
(* the Scheduler inside the engine, and the engine's invariant is built on *)
(* the Scheduler's. At the end, the rate limiters of its jobs: theorems    *)
(* about RateLimiter, for every rate.                                      *)
(***************************************************************************)
EXTENDS ScanEngine, RateLimiter, QueueLemmas

SP == INSTANCE SchedulerProofs WITH
        Source <- RoundRobin, KeyOf <- HostOf, OkResult <- Outcome, PerKey <- PerHost

-----------------------------------------------------------------------------
(* The plan of the ports is a source of the Scheduler.                     *)

\* What the ports and the order of the hosts are.
LEMMA PlanFacts ==
  /\ Ports \in Seq(Port) /\ Len(Ports) \in Nat \ {0} /\ Len(Ports) = PerHostJobs
  /\ Len(Order) \in Nat /\ DOMAIN Order = 1 .. Len(Order) /\ DOMAIN Ports = 1 .. Len(Ports)
  /\ \A i \in 1 .. Len(Order) : Order[i] \in Host
  /\ \A i \in 1 .. Len(Ports) : Ports[i] \in Port
  /\ \A i, k \in 1 .. Len(Order) : Order[i] = Order[k] => i = k
  /\ \A i, k \in 1 .. Len(Ports) : Ports[i] = Ports[k] => i = k
<1>1. /\ Ports \in Seq(Port) /\ Len(Ports) = Len(TcpPorts) + Len(UdpPorts)
      /\ Ports # <<>> /\ Order \in Seq(Host)
  BY EngineAssumption, ConcatProperties DEF Ports
<1>2. /\ Len(Ports) \in Nat /\ Len(Ports) # 0 /\ DOMAIN Ports = 1 .. Len(Ports)
      /\ Len(Order) \in Nat /\ DOMAIN Order = 1 .. Len(Order)
  BY <1>1, LenProperties, EmptySeq
<1>3. /\ \A i \in 1 .. Len(Order) : Order[i] \in Host
      /\ \A i \in 1 .. Len(Ports) : Ports[i] \in Port
  BY <1>1, ElementOfSeq
<1>4. QED
  BY <1>1, <1>2, <1>3, EngineAssumption DEF IsInjective, PerHostJobs

\* Position i of the plan is round (i - 1) \div n, host (i - 1) % n: two positions
\* with the same round and the same host are the same.
LEMMA Rounds ==
  ASSUME NEW n \in Nat \ {0}, NEW m \in Nat, NEW a \in 0 .. n * m - 1
  PROVE  /\ a % n \in 0 .. n - 1 /\ a \div n \in 0 .. m - 1
         /\ a = n * (a \div n) + (a % n)
<1>1. a \in Nat
  OBVIOUS
<1>2. a % n \in 0 .. n - 1 /\ a \div n \in Nat /\ a = n * (a \div n) + (a % n)
  BY <1>1
<1>3. a \div n < m
  <2> DEFINE q == a \div n
  <2>1. n * q < n * m
    BY <1>2
  <2> HIDE DEF q
  <2>2. ASSUME q >= m PROVE FALSE
    BY <1>2, <2>1, <2>2 DEF q
  <2>3. QED
    BY <1>2, <2>2 DEF q
<1>4. QED
  BY <1>2, <1>3

\* _generate_jobs: the round robin has every port job, once.
LEMMA PlanIsSource ==
  /\ RoundRobin \in Seq(PortJob) /\ IsInjective(RoundRobin)
  /\ ToSet(RoundRobin) = PortJob
<1> DEFINE n == Len(Order)
           m == Len(Ports)
           f(i) == <<Order[1 + ((i - 1) % n)], Ports[1 + ((i - 1) \div n)]>>
<1>1. n \in Nat /\ m \in Nat \ {0} /\ n * m \in Nat
  BY PlanFacts
<1>2. RoundRobin = [i \in 1 .. n * m |-> f(i)]
  BY DEF RoundRobin
<1> HIDE DEF n, m
<1>3. ASSUME NEW i \in 1 .. n * m
      PROVE  /\ n \in Nat \ {0} /\ i - 1 \in 0 .. n * m - 1
             /\ 1 + ((i - 1) % n) \in 1 .. n /\ 1 + ((i - 1) \div n) \in 1 .. m
             /\ i - 1 = n * ((i - 1) \div n) + ((i - 1) % n)
  <2>1. n # 0
    BY <1>1
  <2>2. i - 1 \in 0 .. n * m - 1
    BY <1>1
  <2>3. (i - 1) % n \in 0 .. n - 1 /\ (i - 1) \div n \in 0 .. m - 1
        /\ i - 1 = n * ((i - 1) \div n) + ((i - 1) % n)
    BY <1>1, <2>1, <2>2, Rounds
  <2>4. QED
    BY <1>1, <2>1, <2>2, <2>3
<1>4. \A i \in 1 .. n * m : f(i) \in PortJob
  BY <1>3, PlanFacts DEF PortJob, n, m
<1>5. RoundRobin \in Seq(PortJob) /\ Len(RoundRobin) = n * m /\ DOMAIN RoundRobin = 1 .. n * m
  <2> HIDE DEF f
  <2>1. RoundRobin \in Seq(PortJob)
    BY <1>1, <1>2, <1>4, IsASeq
  <2>2. DOMAIN RoundRobin = 1 .. n * m
    BY <1>2
  <2>3. QED
    BY <1>1, <2>1, <2>2, LenProperties
<1>6. ASSUME NEW i \in 1 .. n * m, NEW k \in 1 .. n * m, f(i) = f(k)
      PROVE  i = k
  <2>1. /\ Order[1 + ((i - 1) % n)] = Order[1 + ((k - 1) % n)]
        /\ Ports[1 + ((i - 1) \div n)] = Ports[1 + ((k - 1) \div n)]
    BY <1>6
  <2>2. /\ 1 + ((i - 1) % n) = 1 + ((k - 1) % n)
        /\ 1 + ((i - 1) \div n) = 1 + ((k - 1) \div n)
    BY <1>3, <2>1, PlanFacts DEF n, m
  <2>3. /\ (i - 1) % n \in Int /\ (k - 1) % n \in Int
        /\ (i - 1) \div n \in Int /\ (k - 1) \div n \in Int
    BY <1>3
  <2>4. (i - 1) % n = (k - 1) % n /\ (i - 1) \div n = (k - 1) \div n
    BY <2>2, <2>3
  <2>5. i - 1 = k - 1
    BY <1>3, <2>4
  <2>6. QED
    BY <2>5
<1>7. ASSUME NEW h \in Host, NEW p \in Port PROVE \E i \in 1 .. n * m : f(i) = <<h, p>>
  <2>1. PICK a \in 1 .. n : Order[a] = h
    BY PlanFacts DEF Host, ToSet, n
  <2>2. PICK b \in 1 .. m : Ports[b] = p
    BY PlanFacts DEF Port, ToSet, m
  <2> DEFINE i == n * (b - 1) + a
  <2>3. n * (b - 1) \in Nat /\ n * (b - 1) + n <= n * m
    BY <1>1, <2>1, <2>2
  <2>4. i \in 1 .. n * m
    BY <1>1, <2>1, <2>3
  <2>5. (i - 1) % n = a - 1 /\ (i - 1) \div n = b - 1
    BY <1>1, <2>1, <2>2, <2>3
  <2>6. f(i) = <<h, p>>
    BY <1>1, <2>1, <2>2, <2>5
  <2>7. QED
    BY <2>4, <2>6
<1>8. IsInjective(RoundRobin)
  BY <1>2, <1>5, <1>6 DEF IsInjective
<1>9. ToSet(RoundRobin) = PortJob
  <2> HIDE DEF f
  <2>1. ToSet(RoundRobin) = {f(i) : i \in 1 .. n * m}
    BY <1>2, <1>5 DEF ToSet
  <2>2. QED
    BY <1>4, <1>7, <2>1 DEF PortJob
<1>10. QED
  BY <1>5, <1>8, <1>9

\* A host's final job is none of its port jobs.
LEMMA JobFacts ==
  /\ \A h \in Host : FinalJob(h) \in Job \ PortJob /\ FinalJob(h)[1] = h
  /\ PortJob \subseteq Job
  /\ \A j \in Job : /\ j[1] \in Host /\ j = <<j[1], j[2]>>
                    /\ j \in PortJob <=> j[2] # Final
                    /\ j \notin PortJob => j = FinalJob(j[1])
  /\ \A h, g \in Host : FinalJob(h) = FinalJob(g) => h = g
BY EngineAssumption DEF FinalJob, Job, PortJob

\* The jobs, hosts and ports are finite in number.
LEMMA JobsFinite == IsFiniteSet(Job) /\ IsFiniteSet(Host) /\ IsFiniteSet(Port)
<1>1. IsFiniteSet(Host)
  BY QueueSize, EngineAssumption DEF Host
<1>2. IsFiniteSet(Port)
  BY QueueSize, PlanFacts, EngineAssumption DEF Port
<1>3. IsFiniteSet(Port \cup {Final})
  BY <1>2, FS_AddElement
<1>4. IsFiniteSet(Host \X (Port \cup {Final}))
  BY <1>1, <1>3, FS_Product
<1>5. QED
  BY <1>1, <1>2, <1>4 DEF Job

\* The engine gives the Scheduler what it asks for.
LEMMA Parameters == SP!SchedulerAssumption
<1>1. RoundRobin \in Seq(Job) /\ SP!IsInjective(RoundRobin)
  <2>1. RoundRobin \in Seq(Job)
    BY PlanIsSource, JobFacts, SeqMonotonic
  <2>2. QED
    BY <2>1, PlanIsSource DEF IsInjective, SP!IsInjective
<1>2. SP!IsFiniteSet(Job)
  BY JobsFinite DEF IsFiniteSet, SP!IsFiniteSet
<1>3. HostOf \in [Job -> SP!Range(HostOf)] /\ Limited \subseteq Job
  BY DEF HostOf, Limited, SP!Range
<1>4. Outcome \cap {"new", "queued", "running", "discarded", SP!Failed, SP!CANCELLED} = {}
  BY DEF Outcome, SP!Failed, SP!CANCELLED
<1>5. QED
  BY <1>1, <1>2, <1>3, <1>4, EngineAssumption DEF SP!SchedulerAssumption

-----------------------------------------------------------------------------
(* The Scheduler of ScanEngine and the one of SchedulerProofs are one.     *)

\* The instance of Scheduler in ScanEngine and the one in SchedulerProofs are the same
\* in their operators ...
LEMMA SameOperators ==
  /\ \A x : S!Cardinality(x) = SP!Cardinality(x) /\ S!Cardinality(x) = Cardinality(x)
  /\ \A x : S!IsInjective(x) = SP!IsInjective(x)
  /\ \A x : S!ToSet(x) = SP!ToSet(x) /\ S!ToSet(x) = ToSet(x)
  /\ \A x : S!Range(x) = SP!Range(x)
  /\ S!Result = SP!Result /\ S!FutState = SP!FutState /\ S!Key = SP!Key
  /\ S!Failed = SP!Failed /\ S!CANCELLED = SP!CANCELLED
<1>1. \A x : S!Cardinality(x) = SP!Cardinality(x)
  BY DEF S!Cardinality, SP!Cardinality
<1>2. \A x : S!Cardinality(x) = Cardinality(x)
  BY DEF S!Cardinality, Cardinality
<1>3. \A x : S!IsInjective(x) = SP!IsInjective(x)
  BY DEF S!IsInjective, SP!IsInjective
<1>4. \A x : S!ToSet(x) = SP!ToSet(x) /\ S!ToSet(x) = ToSet(x)
  BY DEF S!ToSet, SP!ToSet, ToSet
<1>5. \A x : S!Range(x) = SP!Range(x)
  BY DEF S!Range, SP!Range
<1>6. /\ S!Result = SP!Result /\ S!FutState = SP!FutState
      /\ S!Failed = SP!Failed /\ S!CANCELLED = SP!CANCELLED
  BY DEF S!Result, SP!Result, S!FutState, SP!FutState, S!Failed, SP!Failed, S!CANCELLED, SP!CANCELLED
<1>7. S!Key = SP!Key
  BY <1>5 DEF S!Key, SP!Key
<1>8. QED
  BY <1>1, <1>2, <1>3, <1>4, <1>5, <1>6, <1>7

\* ... in what they pick ...
LEMMA SamePick == (S!Pick <=> SP!Pick) /\ (S!NoneEligible <=> SP!NoneEligible)
BY DEF S!Pick, SP!Pick, S!MayFill, SP!MayFill, S!PickExtra, SP!PickExtra,
       S!PickDeferred, SP!PickDeferred, S!PickSource, SP!PickSource, S!NoneEligible, SP!NoneEligible,
       S!FirstEligible, SP!FirstEligible, S!Eligible, SP!Eligible, S!Take, SP!Take,
       S!Rotated, SP!Rotated, S!FirstPull, SP!FirstPull, S!PullLimit, SP!PullLimit,
       S!Cardinality, SP!Cardinality

\* ... in the consumer's steps ...
LEMMA SameConsumer ==
  /\ S!LeaveFill <=> SP!LeaveFill
  /\ S!Submit <=> SP!Submit
  /\ S!Refused <=> SP!Refused
  /\ S!Get <=> SP!Get
  /\ S!Timeout <=> SP!Timeout
  /\ \A adds : S!Deliver(adds) <=> SP!Deliver(adds)
  /\ S!FollowUps = SP!FollowUps
  /\ S!Close <=> SP!Close
  /\ S!SetCancel <=> SP!SetCancel
  /\ S!Terminated <=> SP!Terminated
<1>1. S!LeaveFill <=> SP!LeaveFill
  BY SamePick, SameOperators DEF S!LeaveFill, SP!LeaveFill, S!AfterFill, SP!AfterFill
<1>2. S!Submit <=> SP!Submit
  BY DEF S!Submit, SP!Submit, S!Held, SP!Held, S!Cardinality, SP!Cardinality
<1>3. (S!Refused <=> SP!Refused) /\ (S!Get <=> SP!Get) /\ (S!Timeout <=> SP!Timeout)
  BY DEF S!Refused, SP!Refused, S!AfterFill, SP!AfterFill, S!Get, SP!Get, S!Timeout, SP!Timeout
<1>4. \A adds : S!Deliver(adds) <=> SP!Deliver(adds)
  BY DEF S!Deliver, SP!Deliver, S!Counter, SP!Counter, S!CANCELLED, SP!CANCELLED,
         S!Failed, SP!Failed, S!ToSet, SP!ToSet
<1>5. S!FollowUps = SP!FollowUps
  BY DEF S!FollowUps, SP!FollowUps, S!SourceJobs, SP!SourceJobs, S!ToSet, SP!ToSet
<1>6. (S!Close <=> SP!Close) /\ (S!SetCancel <=> SP!SetCancel) /\ (S!Terminated <=> SP!Terminated)
  BY DEF S!Close, SP!Close, S!SetCancel, SP!SetCancel, S!consumerVars, SP!consumerVars,
         S!Terminated, SP!Terminated, S!Idle, SP!Idle, S!vars, SP!vars
<1>7. QED
  BY <1>1, <1>2, <1>3, <1>4, <1>5, <1>6

\* ... in the workers' ...
LEMMA SameWorker == \A j : S!Worker(j) <=> SP!Worker(j)
BY DEF S!Worker, SP!Worker, S!Start, SP!Start, S!Finish, SP!Finish, S!Completed, SP!Completed,
       S!Running, SP!Running, S!consumerVars, SP!consumerVars, S!Result, SP!Result,
       S!Failed, SP!Failed, S!CANCELLED, SP!CANCELLED, S!Cardinality, SP!Cardinality

\* ... and so in their behaviours ...
LEMMA SameSpec == S!Spec <=> SP!Spec
<1>1. S!Init <=> SP!Init
  BY DEF S!Init, SP!Init, S!Key, SP!Key, S!Range, SP!Range
<1>2. S!vars = SP!vars
  BY DEF S!vars, SP!vars
<1>3. S!Consumer <=> SP!Consumer
  BY SamePick, SameConsumer DEF S!Consumer, SP!Consumer
<1>4. S!Next <=> SP!Next
  BY <1>3, SameConsumer, SameWorker DEF S!Next, SP!Next
<1>5. [S!Next]_S!vars <=> [SP!Next]_SP!vars
  BY <1>2, <1>4 DEF S!vars, SP!vars
<1>6. QED
  BY <1>1, <1>5, PTL DEF S!Spec, SP!Spec

\* ... and in their invariant.
LEMMA SameInvariant == SP!IInv => S!IInv
BY DEF S!IInv, SP!IInv, S!TypeOK, SP!TypeOK, S!QueuesInv, SP!QueuesInv, S!FlightInv, SP!FlightInv,
       S!CountInv, SP!CountInv, S!DoneInv, SP!DoneInv, S!InFlightOf, SP!InFlightOf,
       S!Lost, SP!Lost, S!Handed, SP!Handed, S!Waiting, SP!Waiting, S!Pulled, SP!Pulled,
       S!SourceJobs, SP!SourceJobs, S!Eligible, SP!Eligible, S!Key, SP!Key, S!Range, SP!Range,
       S!FutState, SP!FutState, S!Result, SP!Result, S!Failed, SP!Failed, S!CANCELLED, SP!CANCELLED,
       S!ToSet, SP!ToSet, S!IsInjective, SP!IsInjective, S!Cardinality, SP!Cardinality

\* What is proved of the Scheduler, for the engine's instance.
LEMMA SchedulerInvariant == S!Spec => []S!IInv
<1>1. SP!Spec => []SP!IInv
  BY Parameters, SP!InvariantHolds
<1>2. QED
  BY <1>1, SameSpec, SameInvariant, PTL

-----------------------------------------------------------------------------
(* The engine implements the Scheduler.                                    *)

\* The follow-up jobs are the final jobs of the hosts that were wrapped up.
FollowUpsAreFinal ==
  finalizing \subseteq Host /\ added = {FinalJob(h) : h \in finalizing}

\* A delivery adds the follow-ups that the caller gives it.
LEMMA DeliverAdds ==
  ASSUME NEW adds, S!Deliver(adds)
  PROVE  added' = added \cup ToSet(adds)
BY SameOperators DEF S!Deliver

\* The elements of the two sequences that the engine adds.
LEMMA ToSetFacts == ToSet(<<>>) = {} /\ \A x : ToSet(<<x>>) = {x}
BY DEF ToSet

\* Nobody but the consumer that yields a result queues a job.
LEMMA AddedUnchanged ==
  \/ S!Pick \/ S!LeaveFill \/ S!Submit \/ S!Refused \/ S!Get \/ S!Timeout \/ S!Close \/ S!SetCancel
  \/ (\E j : S!Start(j)) \/ (\E j, result : S!Finish(j, result))
  => UNCHANGED <<added, yielded>>
BY DEF S!Pick, S!LeaveFill, S!Submit, S!Refused, S!Get, S!Timeout, S!Close, S!SetCancel, S!Start,
       S!Finish, S!consumerVars

\* No follow-up is added at the start ...
LEMMA FollowUpsInit == Init => FollowUpsAreFinal
BY DEF Init, S!Init, FollowUpsAreFinal

\* ... and a step adds no other than final jobs.
LEMMA FollowUpsNext == FollowUpsAreFinal /\ [Next]_vars => FollowUpsAreFinal'
<1> SUFFICES ASSUME FollowUpsAreFinal, [Next]_vars PROVE FollowUpsAreFinal'
  OBVIOUS
<1>1. CASE PortResult
  <2> DEFINE h == Head(batch)[1]
  <2>1. h \in Host
    BY <1>1, JobFacts DEF PortResult, PortJob
  <2>2. CASE S!Deliver(<<FinalJob(h)>>) /\ finalizing' = finalizing \cup {h}
    BY <2>1, <2>2, DeliverAdds, ToSetFacts DEF FollowUpsAreFinal
  <2>3. CASE S!Deliver(<<>>) /\ UNCHANGED finalizing
    BY <2>3, DeliverAdds, ToSetFacts DEF FollowUpsAreFinal
  <2>4. QED
    BY <1>1, <2>2, <2>3 DEF PortResult
<1>2. CASE FinalResult
  BY <1>2, DeliverAdds, ToSetFacts DEF FollowUpsAreFinal, FinalResult
<1>3. CASE ~PortResult /\ ~FinalResult
  <2>1. UNCHANGED <<added, finalizing>>
    BY <1>3, AddedUnchanged
    DEF Next, Engine, BeginScan, Generate, ScanDone, InterruptCancels, WarnBudget, Report, Worker,
        StartJob, Probe, Detect, Resend, FinishJob, Cancel, Interrupt, Terminated, vars, schedVars,
        engineVars, hostVars
  <2>2. QED
    BY <2>1 DEF FollowUpsAreFinal
<1>4. QED
  BY <1>1, <1>2, <1>3

\* Every step of the engine is a step of the Scheduler, or none.
LEMMA StepIsSchedulers == FollowUpsAreFinal /\ [Next]_vars => [S!Next]_S!vars
<1> SUFFICES ASSUME FollowUpsAreFinal, Next PROVE [S!Next]_S!vars
  BY DEF vars, schedVars, S!vars
<1>0. UNCHANGED schedVars => UNCHANGED S!vars
  BY DEF schedVars, S!vars
<1>1. CASE BeginScan \/ ScanDone \/ WarnBudget \/ Report
  BY <1>0, <1>1 DEF BeginScan, ScanDone, WarnBudget, Report
<1>2. CASE Generate
  BY <1>2 DEF Generate, S!Next, S!Consumer
<1>3. CASE PortResult
  <2> DEFINE h == Head(batch)[1]
  <2>1. h \in Host
    BY <1>3, JobFacts DEF PortResult, PortJob
  <2>2. CASE S!Deliver(<<>>)
    BY <2>2 DEF S!FollowUps, S!Next, S!Consumer
  <2>3. CASE S!Deliver(<<FinalJob(h)>>) /\ Wraps(h)
    <3>1. FinalJob(h) \notin added
      BY <2>1, <2>3, JobFacts DEF Wraps, FollowUpsAreFinal
    <3>2. FinalJob(h) \in Job /\ FinalJob(h) \notin S!SourceJobs
      BY <2>1, JobFacts, PlanIsSource, SameOperators DEF S!SourceJobs
    <3>3. <<FinalJob(h)>> \in S!FollowUps
      BY <3>1, <3>2 DEF S!FollowUps
    <3>4. QED
      BY <2>3, <3>3 DEF S!Next, S!Consumer
  <2>4. QED
    BY <1>3, <2>2, <2>3 DEF PortResult
<1>4. CASE FinalResult
  BY <1>4 DEF FinalResult, S!FollowUps, S!Next, S!Consumer
<1>5. CASE Interrupt \/ InterruptCancels \/ Cancel
  BY <1>0, <1>5 DEF Interrupt, InterruptCancels, Cancel, S!Next
<1>6. ASSUME NEW j \in Job, Worker(j) PROVE [S!Next]_S!vars
  <2>1. CASE StartJob(j) \/ \E result \in S!Result : FinishJob(j, result)
    BY <2>1 DEF StartJob, FinishJob, S!Next, S!Worker
  <2>2. CASE Probe(j) \/ Detect(j) \/ Resend(j)
    BY <1>0, <2>2 DEF Probe, Detect, Resend
  <2>3. QED
    BY <1>6, <2>1, <2>2 DEF Worker
<1>7. CASE Terminated
  BY <1>0, <1>7 DEF Terminated, vars
<1>8. QED
  BY <1>1, <1>2, <1>3, <1>4, <1>5, <1>6, <1>7 DEF Next, Engine

\* The engine uses the Scheduler as it is meant to be used: a behaviour of the
\* engine is one of the Scheduler, each final job is queued once and only then.
THEOREM EngineImplementsScheduler == Spec => ImplementsScheduler
<1>1. Init => S!Init
  BY DEF Init
<1>2. QED
  BY <1>1, FollowUpsInit, FollowUpsNext, StepIsSchedulers, PTL DEF Spec, ImplementsScheduler, S!Spec

\* So whatever the engine does, its Scheduler keeps the invariant, and with it its
\* limits and its count of every job.
THEOREM EngineKeepsScheduler == Spec => []S!IInv /\ []FollowUpsAreFinal
BY EngineImplementsScheduler, SchedulerInvariant, FollowUpsInit, FollowUpsNext, PTL
DEF ImplementsScheduler, Spec

-----------------------------------------------------------------------------
(* The engine's invariant.                                                 *)

Unyielded(h) == {p \in Port : <<h, p>> \notin yielded}

\* The bookkeeping of the loop over the results: what is missing of a host, and
\* what was found of it; the final job is queued when nothing is missing.
BooksHold ==
  /\ remaining \in [Host -> Int] /\ found \in [Host -> SUBSET Port]
  /\ \A h \in Host : remaining[h] = Cardinality(Unyielded(h))
  /\ \A h \in finalizing : Unyielded(h) = {}
  /\ ~cancel => \A h \in Host : Unyielded(h) = {} => h \in finalizing
  /\ \A h \in Host : found[h] = {p \in Port : /\ <<h, p>> \in yielded
                                              /\ fut[<<h, p>>] \in {"open", "unconfirmed"}}

\* The report lists hosts whose final job was yielded, each once, with all that was
\* found; it lists all of them as long as nobody stops the scan.
HostsHold ==
  /\ hosts \in Seq([ip : Host, ports : SUBSET Port, whole : BOOLEAN])
  /\ \A i \in DOMAIN hosts : /\ FinalJob(hosts[i].ip) \in yielded
                             /\ hosts[i].ports = found[hosts[i].ip]
  /\ \A i, k \in DOMAIN hosts : hosts[i].ip = hosts[k].ip => i = k
  /\ ~cancel /\ phase # "interrupted" =>
       \A h \in Host : FinalJob(h) \in yielded => h \in ReportedHosts

\* What the functions of the jobs leave behind.
JobsHold ==
  /\ record \in [Host -> (SUBSET Port) \cup {NoRecord}]
  /\ \A h \in Host : fut[FinalJob(h)] = "record" => record[h] = found[h]
  /\ \A j \in PortJob : fut[j] # "record"
  /\ \A j \in Job : fut[j] = S!CANCELLED => cancel

ProbesHold ==
  /\ probe \in [Job -> {"none", "refused", "cut", "sent", "resent", "detected", "over"}]
  /\ used \in Nat /\ sent \in Nat /\ exhausted \in BOOLEAN
  /\ \A j \in PortJob :
       /\ probe[j] = "refused" => exhausted
       /\ fut[j] \in S!Result \ {S!CANCELLED} => probe[j] \in {"refused", "over"}

\* How far _run is, and how far the generator of the Scheduler is.
PhaseHolds ==
  /\ phase \in {"discovered", "unscanned", "scanning", "interrupted", "scanned", "warned", "reported"}
  /\ pc = "returned" => inflight = {}
  /\ phase \in {"discovered", "unscanned"} => pc = "fill" /\ inflight = {}
  /\ phase = "unscanned" => cancel
  /\ phase = "interrupted" => pc = "closed"
  /\ phase \in {"scanned", "warned", "reported"} => pc \in {"returned", "closed"} \/ inflight = {}
  /\ phase \in {"scanned", "warned"} /\ ~cancel => pc = "returned"

AllProbed == \A j \in PortJob : probe[j] = "over"

\* What the header of the report says.
MetaHolds ==
  /\ meta \in [budget : BOOLEAN, cancelled : BOOLEAN] \cup {NoRecord}
  /\ phase \in {"warned", "reported"} => meta \in [budget : BOOLEAN, cancelled : BOOLEAN]
  /\ phase = "warned" /\ ~cancel /\ ~meta.budget => AllProbed
  /\ phase = "reported" /\ ~meta.cancelled =>
       ReportedHosts = Host /\ (~meta.budget => AllProbed)

EInv == BooksHold /\ HostsHold /\ JobsHold /\ ProbesHold /\ PhaseHolds /\ MetaHolds

-----------------------------------------------------------------------------
(* What the Scheduler's invariant says to the engine.                      *)

\* The results are told from each other and from the markers of a future.
LEMMA ResultFacts ==
  /\ S!Result \cap {"new", "queued", "running", "discarded"} = {}
  /\ {"open", "unconfirmed", "quiet", "record", S!Failed, S!CANCELLED} = S!Result
  /\ S!CANCELLED \notin {"open", "unconfirmed", "quiet", "record", S!Failed}
  /\ S!Failed \notin {"open", "unconfirmed", "quiet", "record"}
BY DEF S!Result, S!Failed, S!CANCELLED, Outcome

\* Only port jobs come from the source, and in the end all of them.
LEMMA PulledArePorts ==
  S!IInv => S!Pulled \subseteq PortJob /\ (pulled = Len(RoundRobin) => S!Pulled = PortJob)
<1>1. /\ DOMAIN RoundRobin = 1 .. Len(RoundRobin) /\ Len(RoundRobin) \in Nat
      /\ PortJob = {RoundRobin[i] : i \in 1 .. Len(RoundRobin)}
  BY PlanIsSource, LenProperties DEF ToSet
<1>2. S!IInv => pulled \in 0 .. Len(RoundRobin)
  BY DEF S!IInv, S!TypeOK
<1>3. S!IInv => 1 .. pulled \subseteq 1 .. Len(RoundRobin)
  BY <1>1, <1>2
<1>4. QED
  BY <1>1, <1>3 DEF S!Pulled

\* A final job that is no longer new belongs to a host that was wrapped up.
LEMMA FinalsWereQueued ==
  ASSUME S!IInv, FollowUpsAreFinal, NEW h \in Host, fut[FinalJob(h)] # "new"
  PROVE  h \in finalizing
<1>1. FinalJob(h) \in S!Handed
  BY JobFacts DEF S!IInv, S!QueuesInv
<1>2. FinalJob(h) \in added
  BY <1>1, JobFacts, PulledArePorts DEF S!Handed
<1>3. QED
  BY <1>2, JobFacts DEF FollowUpsAreFinal

\* The result that the loop gets is of a job that is over and was not yielded yet.
LEMMA HeadOfBatch ==
  ASSUME S!IInv, pc = "deliver"
  PROVE  /\ Head(batch) \in Job /\ Head(batch) \notin yielded
         /\ fut[Head(batch)] \in S!Result
<1>1. batch \in Seq(Job) /\ batch # <<>>
  BY DEF S!IInv, S!TypeOK, S!FlightInv
<1>2. Head(batch) \in Job /\ Head(batch) \in ToSet(batch)
  BY <1>1, TailFacts
<1>3. QED
  BY <1>2, SameOperators DEF S!IInv, S!FlightInv

\* What was yielded is a job that has its result.
LEMMA YieldedAreOver ==
  S!IInv => \A j \in yielded : j \in Job /\ fut[j] \in S!Result
BY DEF S!IInv, S!TypeOK, S!FlightInv

\* A generator that returned to a scan that nobody stopped has yielded everything.
LEMMA ReturnedIsComplete ==
  ASSUME S!IInv, pc = "returned", ~cancel
  PROVE  PortJob \subseteq yielded /\ added \subseteq yielded
<1>1. inflight = {} /\ S!Waiting = {} /\ pulled = Len(RoundRobin) /\ S!Lost = {}
  BY DEF S!IInv, S!DoneInv
<1>2. S!Handed = PortJob \cup added
  BY <1>1, PulledArePorts DEF S!Handed
<1>3. QED
  BY <1>1, <1>2 DEF S!Lost

\* A future that holds its result keeps it, and the cancel event stays set.
FuturesGrow ==
  /\ \A j \in Job : fut[j] \in S!Result => fut'[j] = fut[j]
  /\ \A j \in Job : fut'[j] = "record" => fut[j] \in {"record", "running"}
  /\ cancel => cancel'

\* What the generator does between two results.
LEMMA GenerateEffect ==
  ASSUME S!IInv, S!Pick \/ S!LeaveFill \/ S!Submit \/ S!Refused \/ S!Get \/ S!Timeout
  PROVE  /\ UNCHANGED <<yielded, added, cancel>>
         /\ \A j \in Job : fut'[j] = fut[j] \/ (fut[j] = "new" /\ fut'[j] = "queued")
         /\ pc' = "returned" => inflight' = {}
<1>1. CASE S!Pick
  BY <1>1 DEF S!Pick, S!PickExtra, S!PickDeferred, S!PickSource, S!Take
<1>2. CASE S!LeaveFill
  BY <1>2 DEF S!LeaveFill, S!AfterFill
<1>3. CASE S!Submit
  <2>1. popped \in S!Waiting /\ popped # NoJob
    BY <1>3 DEF S!Submit, S!IInv, S!QueuesInv, S!Waiting
  <2>2. fut[popped] = "new" /\ fut \in [Job -> S!FutState]
    BY <2>1 DEF S!IInv, S!QueuesInv, S!TypeOK
  <2>3. QED
    BY <1>3, <2>2 DEF S!Submit
<1>4. CASE S!Refused \/ S!Get \/ S!Timeout
  BY <1>4 DEF S!Refused, S!Get, S!Timeout, S!AfterFill
<1>5. QED
  BY <1>1, <1>2, <1>3, <1>4

\* What a worker thread does to the futures.
LEMMA WorkerEffect ==
  ASSUME S!IInv, NEW j \in Job, NEW result \in S!Result, S!Start(j) \/ S!Finish(j, result)
  PROVE  /\ UNCHANGED <<pc, inflight, yielded, added, cancel>>
         /\ \A i \in Job \ {j} : fut'[i] = fut[i]
         /\ S!Start(j) => fut[j] = "queued"
                          /\ (fut'[j] = "running" \/ (fut'[j] = S!CANCELLED /\ cancel))
         /\ S!Finish(j, result) => fut[j] = "running" /\ fut'[j] = result
                                   /\ (result = S!CANCELLED => cancel)
BY DEF S!Start, S!Finish, S!Completed, S!consumerVars, S!IInv, S!TypeOK

-----------------------------------------------------------------------------
(* What every step that yields no result keeps.                            *)

\* Frames: a step leaves the books alone ...
LEMMA BooksUntouched ==
  ASSUME S!IInv, BooksHold, FuturesGrow, UNCHANGED <<yielded, remaining, finalizing, found>>
  PROVE  BooksHold'
<1>1. \A h \in Host : Unyielded(h)' = Unyielded(h)
  BY DEF Unyielded
<1>2. ASSUME NEW h \in Host
      PROVE  found[h] = {p \in Port : /\ <<h, p>> \in yielded
                                      /\ fut'[<<h, p>>] \in {"open", "unconfirmed"}}
  <2>1. \A p \in Port : <<h, p>> \in yielded => fut'[<<h, p>>] = fut[<<h, p>>]
    BY YieldedAreOver DEF FuturesGrow
  <2>2. QED
    BY <2>1 DEF BooksHold
<1>3. \A h \in finalizing : Unyielded(h)' = {}
  BY DEF BooksHold, Unyielded
<1>4. QED
  BY <1>1, <1>2, <1>3 DEF BooksHold, FuturesGrow

\* ... the reported hosts ...
LEMMA HostsUntouched ==
  ASSUME HostsHold, UNCHANGED <<yielded, hosts, found>>, cancel => cancel',
         phase = "interrupted" => phase' = "interrupted" \/ cancel'
  PROVE  HostsHold'
BY DEF HostsHold, ReportedHosts

\* ... the final jobs ...
LEMMA JobsUntouched ==
  ASSUME JobsHold, UNCHANGED <<record, found>>, cancel => cancel',
         \A j \in Job : fut'[j] = fut[j] \/ fut'[j] \notin S!Result \/ (fut'[j] = S!CANCELLED /\ cancel')
  PROVE  JobsHold'
<1>1. \A j \in Job : fut'[j] = "record" => fut[j] = "record"
  BY ResultFacts
<1>2. \A j \in Job : fut'[j] = S!CANCELLED => fut[j] = S!CANCELLED \/ cancel'
  BY ResultFacts
<1>3. QED
  BY <1>1, <1>2, JobFacts DEF JobsHold

\* ... the probes ...
LEMMA ProbesUntouched ==
  ASSUME ProbesHold, UNCHANGED probeVars,
         \A j \in Job : fut'[j] = fut[j] \/ fut'[j] \notin S!Result \/ fut'[j] = S!CANCELLED
  PROVE  ProbesHold' /\ AllProbed' = AllProbed
BY JobFacts DEF ProbesHold, probeVars, AllProbed

\* ... and the header of the report.
LEMMA MetaUntouched ==
  ASSUME MetaHolds, UNCHANGED <<phase, meta, hosts>>, cancel => cancel', AllProbed => AllProbed'
  PROVE  MetaHolds'
BY DEF MetaHolds, ReportedHosts

-----------------------------------------------------------------------------
(* The steps.                                                              *)

\* The books agree before the first job.
LEMMA InitEInv == Init => EInv
<1> SUFFICES ASSUME Init PROVE EInv
  OBVIOUS
<1>1. yielded = {} /\ fut = [j \in Job |-> "new"] /\ pc = "fill" /\ inflight = {}
  BY DEF Init, S!Init
<1>2. \A h \in Host : Unyielded(h) = Port
  BY <1>1 DEF Unyielded
<1>3. Cardinality(Port) = PerHostJobs /\ Port # {}
  <2>1. Cardinality(ToSet(Ports)) = Len(Ports)
    BY PlanFacts, EngineAssumption, QueueSize
  <2>2. Ports[1] \in Port
    BY PlanFacts
  <2>3. QED
    BY <2>1, <2>2, PlanFacts DEF Port
<1>4. BooksHold
  BY <1>1, <1>2, <1>3, PlanFacts DEF Init, BooksHold
<1>5. HostsHold
  <2>1. hosts = <<>> /\ DOMAIN hosts = {}
    BY DEF Init
  <2>2. hosts \in Seq([ip : Host, ports : SUBSET Port, whole : BOOLEAN])
    BY <2>1, EmptySeq
  <2>3. QED
    BY <1>1, <2>1, <2>2 DEF HostsHold
<1>6. JobsHold
  BY <1>1, JobFacts, ResultFacts DEF Init, JobsHold
<1>7. ProbesHold
  BY <1>1, JobFacts, ResultFacts DEF Init, ProbesHold
<1>8. PhaseHolds
  BY <1>1 DEF Init, PhaseHolds
<1>9. MetaHolds
  BY DEF Init, MetaHolds
<1>10. QED
  BY <1>4, <1>5, <1>6, <1>7, <1>8, <1>9 DEF EInv

\* The generator's own steps yield nothing.
LEMMA GenerateInv == S!IInv /\ EInv /\ Generate => EInv'
<1> SUFFICES ASSUME S!IInv, EInv, Generate PROVE EInv'
  OBVIOUS
<1>1. /\ phase = "scanning" /\ UNCHANGED engineVars
      /\ UNCHANGED <<yielded, added, cancel>>
      /\ \A j \in Job : fut'[j] = fut[j] \/ (fut[j] = "new" /\ fut'[j] = "queued")
      /\ pc' = "returned" => inflight' = {}
  BY GenerateEffect DEF Generate
<1>2. UNCHANGED <<phase, remaining, finalizing, found, hosts, record, meta, probeVars>>
  BY <1>1 DEF engineVars, hostVars
<1>3. FuturesGrow
  BY <1>1, ResultFacts DEF FuturesGrow
<1>4. BooksHold' /\ HostsHold'
  BY <1>1, <1>2, <1>3, BooksUntouched, HostsUntouched DEF EInv
<1>5. JobsHold' /\ ProbesHold' /\ AllProbed' = AllProbed
  BY <1>1, <1>2, ResultFacts, JobsUntouched, ProbesUntouched DEF EInv
<1>6. PhaseHolds' /\ MetaHolds'
  BY <1>1, <1>2, <1>5, MetaUntouched DEF EInv, PhaseHolds
<1>7. QED
  BY <1>4, <1>5, <1>6 DEF EInv

\* A step of a worker thread that begins or ends no job.
LEMMA ChargeInv ==
  ASSUME S!IInv, EInv, NEW j \in Job, Probe(j) \/ Detect(j) \/ Resend(j)
  PROVE  EInv'
<1>1. /\ UNCHANGED <<schedVars, phase, hostVars, record, meta>>
      /\ fut[j] = "running" /\ probe[j] \in {"none", "sent"}
  BY DEF Probe, Detect, Resend
<1>2. /\ UNCHANGED <<pc, inflight, fut, cancel, yielded, added>>
      /\ UNCHANGED <<phase, remaining, finalizing, found, hosts, record, meta>>
  BY <1>1 DEF schedVars, hostVars
<1>3. FuturesGrow /\ BooksHold' /\ HostsHold' /\ JobsHold' /\ PhaseHolds'
  <2>1. FuturesGrow
    BY <1>2 DEF FuturesGrow
  <2>2. QED
    BY <1>2, <2>1, BooksUntouched, HostsUntouched, JobsUntouched DEF EInv, PhaseHolds
<1>4. ProbesHold' /\ (AllProbed => AllProbed')
  <2>1. probe \in [Job -> {"none", "refused", "cut", "sent", "resent", "detected", "over"}]
    BY DEF EInv, ProbesHold
  <2>2. /\ \E new \in {"refused", "cut", "sent", "resent", "detected"} :
             probe' = [probe EXCEPT ![j] = new] /\ (new = "refused" => exhausted' = TRUE)
        /\ exhausted' = exhausted \/ exhausted' = TRUE
    <3>1. CASE Probe(j)
      <4>1. CASE exhausted' = TRUE /\ probe' = [probe EXCEPT ![j] = "refused"]
        BY <4>1
      <4>2. CASE exhausted' = exhausted /\ probe' = [probe EXCEPT ![j] = "sent"]
        BY <4>2
      <4>3. QED
        BY <3>1, <4>1, <4>2 DEF Probe, Charge
    <3>2. CASE Detect(j)
      <4>1. CASE exhausted' = TRUE /\ probe' = [probe EXCEPT ![j] = "cut"]
        BY <4>1
      <4>2. CASE exhausted' = exhausted /\ probe' = [probe EXCEPT ![j] = "detected"]
        BY <4>2
      <4>3. QED
        BY <3>2, <4>1, <4>2 DEF Detect, Charge
    <3>3. CASE Resend(j)
      <4>1. exhausted' = exhausted /\ probe' = [probe EXCEPT ![j] = "resent"]
        BY <3>3 DEF Resend
      <4>2. QED
        BY <4>1
    <3>4. QED
      BY <3>1, <3>2, <3>3
  <2>3. \A i \in Job \ {j} : probe'[i] = probe[i]
    BY <2>1, <2>2
  <2>4. fut[j] \notin S!Result
    BY <1>1, ResultFacts
  <2>5. (exhausted => exhausted') /\ exhausted' \in BOOLEAN
    <3>1. exhausted \in BOOLEAN
      BY DEF EInv, ProbesHold
    <3>2. CASE exhausted' = exhausted
      BY <3>1, <3>2
    <3>3. CASE exhausted' = TRUE
      BY <3>3
    <3>4. QED
      BY <2>2, <3>2, <3>3
  <2>6. used' \in Nat /\ sent' \in Nat
    <3>1. used \in Nat /\ sent \in Nat
      BY DEF EInv, ProbesHold
    <3>2. (used' = used \/ used' = used + 1) /\ (sent' = sent \/ sent' = sent + 1)
      BY DEF Probe, Detect, Resend, Charge
    <3>3. QED
      BY <3>1, <3>2
  <2>7. probe' \in [Job -> {"none", "refused", "cut", "sent", "resent", "detected", "over"}]
    BY <2>1, <2>2
  <2>8. probe'[j] = "refused" => exhausted' = TRUE
    BY <2>1, <2>2
  <2>9. ProbesHold'
    BY <1>2, <2>8, <2>3, <2>4, <2>5, <2>6, <2>7, JobFacts DEF EInv, ProbesHold
  <2>10. AllProbed => j \notin PortJob
    BY <1>1 DEF AllProbed
  <2>11. QED
    BY <2>3, <2>9, <2>10, JobFacts DEF AllProbed
<1>5. MetaHolds'
  BY <1>2, <1>4, MetaUntouched DEF EInv
<1>6. QED
  BY <1>3, <1>4, <1>5 DEF EInv

\* A job that starts has no result yet.
LEMMA StartInv == ASSUME S!IInv, EInv, NEW j \in Job, StartJob(j) PROVE EInv'
<1>1. /\ UNCHANGED <<pc, inflight, yielded, added, cancel>>
      /\ \A i \in Job \ {j} : fut'[i] = fut[i]
      /\ fut[j] = "queued" /\ (fut'[j] = "running" \/ (fut'[j] = S!CANCELLED /\ cancel))
  BY WorkerEffect, ResultFacts DEF StartJob
<1>2. UNCHANGED <<phase, remaining, finalizing, found, hosts, record, meta, probeVars>>
  BY DEF StartJob, engineVars, hostVars
<1>3. FuturesGrow
  BY <1>1, ResultFacts DEF FuturesGrow
<1>4. BooksHold' /\ HostsHold'
  BY <1>1, <1>2, <1>3, BooksUntouched, HostsUntouched DEF EInv
<1>5. \A i \in Job : fut'[i] = fut[i] \/ fut'[i] \notin S!Result \/ (fut'[i] = S!CANCELLED /\ cancel')
  BY <1>1, ResultFacts
<1>6. JobsHold' /\ ProbesHold' /\ AllProbed' = AllProbed
  BY <1>1, <1>2, <1>5, JobsUntouched, ProbesUntouched DEF EInv
<1>7. PhaseHolds' /\ MetaHolds'
  BY <1>1, <1>2, <1>6, MetaUntouched DEF EInv, PhaseHolds
<1>8. QED
  BY <1>4, <1>6, <1>7 DEF EInv

\* A job ends with what its probes found, or was cut by a cancel.
LEMMA FinishInv ==
  ASSUME S!IInv, FollowUpsAreFinal, EInv, NEW j \in Job, NEW result \in S!Result, FinishJob(j, result)
  PROVE  EInv'
<1>1. /\ UNCHANGED <<pc, inflight, yielded, added, cancel>>
      /\ \A i \in Job \ {j} : fut'[i] = fut[i]
      /\ fut[j] = "running" /\ fut'[j] = result /\ (result = S!CANCELLED => cancel)
  BY WorkerEffect DEF FinishJob
<1>2. /\ UNCHANGED <<phase, remaining, finalizing, found, hosts, meta, used, exhausted, sent>>
      /\ record' = IF result = "record" THEN [record EXCEPT ![j[1]] = found[j[1]]] ELSE record
      /\ probe' = IF j \in PortJob /\ probe[j] # "refused" THEN [probe EXCEPT ![j] = "over"] ELSE probe
  BY DEF FinishJob, hostVars
<1>3. FuturesGrow
  BY <1>1, ResultFacts DEF FuturesGrow
<1>4. BooksHold' /\ HostsHold'
  BY <1>1, <1>2, <1>3, BooksUntouched, HostsUntouched DEF EInv
<1>5. result = "record" => j \notin PortJob
  BY ResultFacts, JobFacts DEF FinishJob, Ends
<1>6. JobsHold'
  <2>1. /\ record \in [Host -> (SUBSET Port) \cup {NoRecord}]
        /\ \A h \in Host : found[h] \in SUBSET Port
    BY DEF EInv, JobsHold, BooksHold
  <2>2. record' \in [Host -> (SUBSET Port) \cup {NoRecord}]
    BY <1>2, <2>1, JobFacts
  <2>3. ASSUME NEW h \in Host, fut'[FinalJob(h)] = "record" PROVE record'[h] = found[h]
    <3>1. CASE j = FinalJob(h)
      BY <1>1, <1>2, <2>1, <2>3, <3>1, JobFacts
    <3>2. CASE j # FinalJob(h)
      <4>1. fut[FinalJob(h)] = "record"
        BY <1>1, <2>3, <3>2, JobFacts
      <4>2. record[h] = found[h]
        BY <4>1 DEF EInv, JobsHold
      <4>3. result = "record" => j[1] # h
        BY <1>5, <3>2, JobFacts
      <4>4. QED
        BY <1>2, <2>1, <4>2, <4>3
    <3>3. QED
      BY <3>1, <3>2
  <2>4. \A i \in PortJob : fut'[i] # "record"
    BY <1>1, <1>5, JobFacts DEF EInv, JobsHold
  <2>5. \A i \in Job : fut'[i] = S!CANCELLED => cancel'
    BY <1>1 DEF EInv, JobsHold
  <2>6. QED
    BY <1>2, <2>2, <2>3, <2>4, <2>5 DEF JobsHold
<1>7. ProbesHold' /\ (AllProbed => AllProbed')
  <2>1. probe \in [Job -> {"none", "refused", "cut", "sent", "resent", "detected", "over"}]
    BY DEF EInv, ProbesHold
  <2>2. /\ \A i \in Job \ {j} : probe'[i] = probe[i]
        /\ j \in PortJob => probe'[j] = (IF probe[j] = "refused" THEN "refused" ELSE "over")
        /\ probe' \in [Job -> {"none", "refused", "cut", "sent", "resent", "detected", "over"}]
    BY <1>2, <2>1
  <2>3. QED
    BY <1>1, <1>2, <2>2, JobFacts DEF EInv, ProbesHold, AllProbed
<1>8. PhaseHolds' /\ MetaHolds'
  BY <1>1, <1>2, <1>7, MetaUntouched DEF EInv, PhaseHolds
<1>9. QED
  BY <1>4, <1>6, <1>7, <1>8 DEF EInv

\* What a turn of the loop over the results does to the Scheduler.
LEMMA DeliverEffect ==
  ASSUME S!IInv, NEW adds, S!Deliver(adds)
  PROVE  /\ pc = "deliver" /\ pc' \in {"fill", "deliver"}
         /\ yielded' = yielded \cup {Head(batch)} /\ UNCHANGED <<fut, cancel>>
BY DEF S!Deliver

\* What an entry of the list says.
LEMMA Entries ==
  ASSUME HostsHold, NEW i \in DOMAIN hosts
  PROVE  /\ hosts[i].ip \in Host /\ FinalJob(hosts[i].ip) \in yielded
         /\ hosts[i].ports = found[hosts[i].ip]
<1> DEFINE R == [ip : Host, ports : SUBSET Port, whole : BOOLEAN]
<1>1. hosts \in Seq(R)
  BY DEF HostsHold
<1> HIDE DEF R
<1>2. hosts[i] \in R
  BY <1>1, ElementOfSeq, LenProperties
<1>3. hosts[i].ip \in Host
  BY <1>2 DEF R
<1>4. QED
  BY <1>3 DEF HostsHold

\* The loop over the results gets a port: one less is missing of its host, which is
\* therefore not in the report yet.
LEMMA PortResultInv == S!IInv /\ FollowUpsAreFinal /\ EInv /\ PortResult => EInv'
<1> SUFFICES ASSUME S!IInv, FollowUpsAreFinal, EInv, PortResult PROVE EInv'
  OBVIOUS
<1>0. PICK j \in PortJob, h \in Host, p \in Port : j = Head(batch) /\ j = <<h, p>>
  <2>1. Head(batch) \in PortJob
    BY DEF PortResult
  <2>2. QED
    BY <2>1 DEF PortJob
<1>1. /\ phase = "scanning" /\ pc = "deliver"
      /\ found' = FoundPort(j, fut[j])
      /\ remaining' = [remaining EXCEPT ![h] = @ - 1]
      /\ \/ Wraps(h) /\ finalizing' = finalizing \cup {h}
         \/ ~Wraps(h) /\ UNCHANGED finalizing
      /\ UNCHANGED <<phase, record, hosts, meta, probeVars>>
  <2>1. j[1] = h
    BY <1>0
  <2>2. QED
    BY <1>0, <2>1 DEF PortResult
<1>2. pc' \in {"fill", "deliver"} /\ yielded' = yielded \cup {j} /\ UNCHANGED <<fut, cancel>>
  BY <1>0, DeliverEffect DEF PortResult
<1>3. j \notin yielded /\ fut[j] \in S!Result
  BY <1>0, <1>1, HeadOfBatch
<1>4. /\ remaining \in [Host -> Int] /\ found \in [Host -> SUBSET Port]
      /\ finalizing \subseteq Host
  BY DEF EInv, BooksHold, FollowUpsAreFinal
<1>5. /\ p \in Unyielded(h) /\ Unyielded(h)' = Unyielded(h) \ {p}
      /\ \A g \in Host \ {h} : Unyielded(g)' = Unyielded(g)
  BY <1>0, <1>2, <1>3 DEF Unyielded
<1>6. h \notin finalizing
  BY <1>5 DEF EInv, BooksHold
<1>7. /\ IsFiniteSet(Unyielded(h)) /\ Cardinality(Unyielded(h)) = remaining[h]
      /\ IsFiniteSet(Unyielded(h)') /\ Cardinality(Unyielded(h)') = remaining[h] - 1
  <2>1. IsFiniteSet(Unyielded(h))
    BY JobsFinite, FS_Subset DEF Unyielded
  <2>2. Cardinality(Unyielded(h)) = remaining[h]
    BY <1>3 DEF EInv, BooksHold
  <2>3. QED
    BY <1>5, <2>1, <2>2, FS_RemoveElement
<1>8. remaining[h] = 1 <=> Unyielded(h)' = {}
  BY <1>3, <1>4, <1>7, FS_EmptySet
<1>9. /\ \A g \in Host \ {h} : remaining'[g] = remaining[g] /\ found'[g] = found[g]
      /\ remaining' \in [Host -> Int] /\ remaining'[h] = remaining[h] - 1
      /\ found' \in [Host -> SUBSET Port]
      /\ found'[h] = IF fut[j] \in {"open", "unconfirmed"} THEN found[h] \cup {p} ELSE found[h]
  BY <1>0, <1>1, <1>4 DEF FoundPort
<1>10. \A g \in Host : fut[FinalJob(g)] # "new" => g # h
  BY <1>6, FinalsWereQueued
<1>11. BooksHold'
  <2>1. \A g \in Host : remaining'[g] = Cardinality(Unyielded(g)')
    BY <1>5, <1>7, <1>9 DEF EInv, BooksHold
  <2>2. \A g \in finalizing' : Unyielded(g)' = {}
    BY <1>1, <1>3, <1>4, <1>5, <1>6, <1>8 DEF EInv, BooksHold, Wraps
  <2>3. ~cancel' => \A g \in Host : Unyielded(g)' = {} => g \in finalizing'
    <3>1. \A g \in Host \ {h} : ~cancel /\ Unyielded(g) = {} => g \in finalizing
      BY DEF EInv, BooksHold
    <3>2. ~cancel /\ Unyielded(h)' = {} => h \in finalizing'
      BY <1>1, <1>6, <1>8 DEF Wraps
    <3>3. QED
      BY <1>1, <1>2, <1>5, <3>1, <3>2
  <2>4. \A g \in Host : found'[g] = {q \in Port : /\ <<g, q>> \in yielded'
                                                  /\ fut'[<<g, q>>] \in {"open", "unconfirmed"}}
    BY <1>0, <1>2, <1>3, <1>9 DEF EInv, BooksHold
  <2>5. QED
    BY <1>9, <2>1, <2>2, <2>3, <2>4 DEF BooksHold
<1>12. HostsHold'
  <2>1. \A g \in Host : FinalJob(g) \in yielded' <=> FinalJob(g) \in yielded
    BY <1>2, JobFacts
  <2>2. \A g \in Host : FinalJob(g) \in yielded => g # h
    BY <1>10, YieldedAreOver, ResultFacts
  <2>3. \A i \in DOMAIN hosts : /\ hosts[i].ip \in Host /\ FinalJob(hosts[i].ip) \in yielded
                                /\ hosts[i].ports = found[hosts[i].ip]
    BY Entries DEF EInv
  <2>4. \A i \in DOMAIN hosts : /\ FinalJob(hosts[i].ip) \in yielded'
                                /\ hosts[i].ports = found'[hosts[i].ip]
    BY <1>9, <2>1, <2>2, <2>3
  <2>5. QED
    BY <1>1, <1>2, <2>1, <2>4 DEF EInv, HostsHold, ReportedHosts
<1>13. JobsHold'
  <2>1. \A g \in Host : fut[FinalJob(g)] = "record" => record[g] = found'[g]
    BY <1>9, <1>10 DEF EInv, JobsHold
  <2>2. QED
    BY <1>1, <1>2, <2>1 DEF EInv, JobsHold
<1>14. ProbesHold' /\ AllProbed' = AllProbed
  BY <1>1, <1>2, ProbesUntouched DEF EInv
<1>15. PhaseHolds' /\ MetaHolds'
  BY <1>1, <1>2, <1>14, MetaUntouched DEF EInv, PhaseHolds
<1>16. QED
  BY <1>11, <1>12, <1>13, <1>14, <1>15 DEF EInv

\* The loop gets the final job of a host: the host is reported, with what was found.
LEMMA FinalResultInv == S!IInv /\ FollowUpsAreFinal /\ EInv /\ FinalResult => EInv'
<1> SUFFICES ASSUME S!IInv, FollowUpsAreFinal, EInv, FinalResult PROVE EInv'
  OBVIOUS
<1>0. PICK j \in Job \ PortJob, h \in Host : j = Head(batch) /\ j = FinalJob(h) /\ j[1] = h
  BY HeadOfBatch, JobFacts DEF FinalResult
<1> DEFINE whole == fut[j] = "record"
           entry == [ip |-> h, ports |-> IF whole THEN record[h] ELSE found[h], whole |-> whole]
<1>1. /\ phase = "scanning" /\ pc = "deliver"
      /\ hosts' = Reported(h, fut[j])
      /\ UNCHANGED <<phase, remaining, finalizing, found, record, meta, probeVars>>
  BY <1>0 DEF FinalResult
<1>2. pc' \in {"fill", "deliver"} /\ yielded' = yielded \cup {j} /\ UNCHANGED <<fut, cancel>>
  BY <1>0, DeliverEffect DEF FinalResult
<1>3. j \notin yielded /\ fut[j] \in S!Result
  BY <1>0, <1>1, HeadOfBatch
<1>4. hosts' = IF fut[j] = S!CANCELLED THEN hosts ELSE Append(hosts, entry)
  BY <1>1 DEF Reported
<1>5. FuturesGrow
  BY <1>2 DEF FuturesGrow
<1>6. \A g \in Host, q \in Port : <<g, q>> \in yielded' <=> <<g, q>> \in yielded
  BY <1>2, JobFacts DEF PortJob
<1>7. BooksHold'
  <2>1. \A g \in Host : Unyielded(g)' = Unyielded(g)
    BY <1>6 DEF Unyielded
  <2>2. \A g \in finalizing : g \in Host
    BY DEF FollowUpsAreFinal
  <2>3. QED
    BY <1>1, <1>2, <1>6, <2>1, <2>2 DEF EInv, BooksHold
<1>8. entry.ip = h /\ entry.ports = found[h]
  BY <1>0 DEF EInv, JobsHold
<1>9. entry \in [ip : Host, ports : SUBSET Port, whole : BOOLEAN]
  <2>1. found[h] \in SUBSET Port
    BY DEF EInv, BooksHold
  <2>2. QED
    BY <1>8, <2>1
<1> HIDE DEF entry
<1>10. HostsHold'
  <2>1. \A i \in DOMAIN hosts : /\ hosts[i].ip \in Host /\ FinalJob(hosts[i].ip) \in yielded
                                /\ hosts[i].ports = found[hosts[i].ip]
    BY Entries DEF EInv
  <2>2. CASE fut[j] = S!CANCELLED
    <3>1. cancel
      BY <2>2 DEF EInv, JobsHold
    <3>2. QED
      BY <1>1, <1>2, <1>4, <2>1, <2>2, <3>1 DEF EInv, HostsHold
  <2>3. CASE fut[j] # S!CANCELLED
    <3>1. /\ hosts' \in Seq([ip : Host, ports : SUBSET Port, whole : BOOLEAN])
          /\ Len(hosts) \in Nat /\ DOMAIN hosts = 1 .. Len(hosts)
          /\ DOMAIN hosts' = 1 .. Len(hosts) + 1
          /\ \A i \in 1 .. Len(hosts) : hosts'[i] = hosts[i]
          /\ hosts'[Len(hosts) + 1] = entry
      BY <1>4, <1>9, <2>3, AppendProperties, LenProperties DEF EInv, HostsHold
    <3>2. \A i \in DOMAIN hosts : hosts[i].ip # h
      BY <1>0, <1>3, <2>1
    <3>3. \A i \in DOMAIN hosts' : /\ FinalJob(hosts'[i].ip) \in yielded'
                                   /\ hosts'[i].ports = found'[hosts'[i].ip]
      BY <1>0, <1>1, <1>2, <1>8, <2>1, <3>1
    <3>4. \A i, k \in DOMAIN hosts' : hosts'[i].ip = hosts'[k].ip => i = k
      BY <1>8, <3>1, <3>2 DEF EInv, HostsHold
    <3>5. ReportedHosts' = ReportedHosts \cup {h}
      <4>1. ReportedHosts' = {hosts'[i].ip : i \in 1 .. Len(hosts) + 1}
        BY <3>1 DEF ReportedHosts
      <4>2. ReportedHosts = {hosts[i].ip : i \in 1 .. Len(hosts)}
        BY <3>1 DEF ReportedHosts
      <4>3. \A i \in 1 .. Len(hosts) + 1 : i \in 1 .. Len(hosts) \/ i = Len(hosts) + 1
        BY <3>1
      <4>4. 1 .. Len(hosts) \subseteq 1 .. Len(hosts) + 1 /\ Len(hosts) + 1 \in 1 .. Len(hosts) + 1
        BY <3>1
      <4>5. QED
        BY <1>8, <3>1, <4>1, <4>2, <4>3, <4>4
    <3>6. ~cancel /\ phase # "interrupted" =>
            \A g \in Host : FinalJob(g) \in yielded' => g \in ReportedHosts'
      BY <1>0, <1>2, <3>5, JobFacts DEF EInv, HostsHold
    <3>7. QED
      BY <1>1, <1>2, <3>1, <3>3, <3>4, <3>6 DEF HostsHold
  <2>4. QED
    BY <2>2, <2>3
<1>11. JobsHold' /\ ProbesHold' /\ AllProbed' = AllProbed
  BY <1>1, <1>2, JobsUntouched, ProbesUntouched DEF EInv
<1>12. PhaseHolds' /\ MetaHolds'
  <2>1. MetaHolds'
    BY <1>1, <1>11 DEF EInv, MetaHolds
  <2>2. QED
    BY <1>1, <1>2, <2>1 DEF EInv, PhaseHolds
<1>13. QED
  BY <1>7, <1>10, <1>11, <1>12 DEF EInv

\* The steps of _run that leave the jobs and their books alone.
LEMMA AsideInv ==
  ASSUME S!IInv, EInv, UNCHANGED <<fut, yielded, hostVars, record, probeVars>>, cancel => cancel',
         phase = "interrupted" => phase' = "interrupted" \/ cancel'
  PROVE  /\ BooksHold' /\ HostsHold' /\ JobsHold' /\ ProbesHold' /\ AllProbed' = AllProbed
         /\ ReportedHosts' = ReportedHosts
<1>1. UNCHANGED <<fut, yielded, remaining, finalizing, found, hosts, record>>
  BY DEF hostVars
<1>2. FuturesGrow
  BY <1>1 DEF FuturesGrow
<1>3. QED
  BY <1>1, <1>2, BooksUntouched, HostsUntouched, JobsUntouched, ProbesUntouched
  DEF EInv, ReportedHosts

\* The scan begins with every port of every host to do.
LEMMA BeginScanInv == S!IInv /\ EInv /\ BeginScan => EInv'
<1> SUFFICES ASSUME S!IInv, EInv, BeginScan PROVE EInv'
  OBVIOUS
<1>1. /\ phase = "discovered" /\ phase' = IF cancel THEN "unscanned" ELSE "scanning"
      /\ UNCHANGED <<pc, inflight, fut, yielded, cancel, meta, hostVars, record, probeVars>>
  BY DEF BeginScan, schedVars
<1>2. BooksHold' /\ HostsHold' /\ JobsHold' /\ ProbesHold'
  BY <1>1, AsideInv
<1>3. PhaseHolds' /\ MetaHolds'
  BY <1>1 DEF EInv, PhaseHolds, MetaHolds
<1>4. QED
  BY <1>2, <1>3 DEF EInv

\* The generator has returned: all is reported, or somebody said Stop.
LEMMA ScanDoneInv == S!IInv /\ EInv /\ ScanDone => EInv'
<1> SUFFICES ASSUME S!IInv, EInv, ScanDone PROVE EInv'
  OBVIOUS
<1>1. /\ phase = "scanning" /\ pc = "returned" /\ phase' = "scanned"
      /\ UNCHANGED <<pc, inflight, fut, yielded, cancel, meta, hostVars, record, probeVars>>
  BY DEF ScanDone, schedVars
<1>2. BooksHold' /\ HostsHold' /\ JobsHold' /\ ProbesHold'
  BY <1>1, AsideInv
<1>3. PhaseHolds' /\ MetaHolds'
  BY <1>1 DEF EInv, PhaseHolds, MetaHolds
<1>4. QED
  BY <1>2, <1>3 DEF EInv

\* A generator that returned to a scan nobody stopped has the result of each port, so
\* each port was probed unless the budget refused one.
LEMMA AllAreProbed ==
  ASSUME S!IInv, EInv, pc = "returned", ~cancel, ~exhausted
  PROVE  AllProbed
<1>1. \A j \in PortJob : j \in yielded /\ fut[j] \in S!Result \ {S!CANCELLED}
  BY ReturnedIsComplete, YieldedAreOver, JobFacts DEF EInv, JobsHold
<1>2. QED
  BY <1>1 DEF EInv, ProbesHold, AllProbed

\* The warning about the budget goes into the header.
LEMMA WarnBudgetInv == S!IInv /\ EInv /\ WarnBudget => EInv'
<1> SUFFICES ASSUME S!IInv, EInv, WarnBudget PROVE EInv'
  OBVIOUS
<1>1. /\ phase \in {"scanned", "unscanned"} /\ phase' = "warned"
      /\ meta' = [budget |-> exhausted, cancelled |-> FALSE]
      /\ UNCHANGED <<pc, inflight, fut, yielded, cancel, hostVars, record, probeVars>>
  BY DEF WarnBudget, schedVars
<1>2. BooksHold' /\ HostsHold' /\ JobsHold' /\ ProbesHold' /\ AllProbed' = AllProbed
  BY <1>1, AsideInv
<1>3. PhaseHolds'
  BY <1>1 DEF EInv, PhaseHolds
<1>4. MetaHolds'
  <2>1. exhausted \in BOOLEAN
    BY DEF EInv, ProbesHold
  <2>2. meta' \in [budget : BOOLEAN, cancelled : BOOLEAN] /\ meta'.budget = exhausted
    BY <1>1, <2>1
  <2>3. ~cancel /\ ~exhausted => AllProbed
    BY <1>1, AllAreProbed DEF EInv, PhaseHolds
  <2>4. QED
    BY <1>1, <1>2, <2>2, <2>3 DEF MetaHolds
<1>5. QED
  BY <1>2, <1>3, <1>4 DEF EInv

\* The list of a scan that nobody stopped is complete when the generator returns.
LEMMA AllAreReported ==
  ASSUME S!IInv, FollowUpsAreFinal, EInv, pc = "returned", ~cancel, phase # "interrupted"
  PROVE  ReportedHosts = Host
<1>1. ASSUME NEW h \in Host PROVE h \in ReportedHosts
  <2>1. Unyielded(h) = {}
    BY ReturnedIsComplete DEF Unyielded, PortJob
  <2>2. h \in finalizing
    BY <2>1 DEF EInv, BooksHold
  <2>3. FinalJob(h) \in yielded
    BY <2>2, ReturnedIsComplete DEF FollowUpsAreFinal
  <2>4. QED
    BY <2>3 DEF EInv, HostsHold
<1>2. ReportedHosts \subseteq Host
  BY Entries DEF EInv, ReportedHosts
<1>3. QED
  BY <1>1, <1>2

\* The report says what is missing in it.
LEMMA ReportInv == S!IInv /\ FollowUpsAreFinal /\ EInv /\ Report => EInv'
<1> SUFFICES ASSUME S!IInv, FollowUpsAreFinal, EInv, Report PROVE EInv'
  OBVIOUS
<1>1. /\ phase = "warned" /\ phase' = "reported"
      /\ meta' = [meta EXCEPT !.cancelled = cancel]
      /\ UNCHANGED <<pc, inflight, fut, yielded, cancel, hostVars, record, probeVars>>
  BY DEF Report, schedVars
<1>2. /\ BooksHold' /\ HostsHold' /\ JobsHold' /\ ProbesHold' /\ AllProbed' = AllProbed
      /\ ReportedHosts' = ReportedHosts
  BY <1>1, AsideInv
<1>3. PhaseHolds'
  BY <1>1 DEF EInv, PhaseHolds
<1>4. MetaHolds'
  <2>1. cancel \in BOOLEAN /\ meta \in [budget : BOOLEAN, cancelled : BOOLEAN]
    BY <1>1 DEF EInv, MetaHolds, S!IInv, S!TypeOK
  <2>2. /\ meta' \in [budget : BOOLEAN, cancelled : BOOLEAN]
        /\ meta'.cancelled = cancel /\ meta'.budget = meta.budget
    BY <1>1, <2>1
  <2>3. ~cancel => ReportedHosts = Host /\ (~meta.budget => AllProbed)
    BY <1>1, AllAreReported DEF EInv, PhaseHolds, MetaHolds
  <2>4. QED
    BY <1>1, <1>2, <2>2, <2>3 DEF MetaHolds
<1>5. QED
  BY <1>2, <1>3, <1>4 DEF EInv

\* Ctrl+C unwinds the loop: the list of hosts is lost, the books stay.
LEMMA InterruptInv == S!IInv /\ EInv /\ Interrupt => EInv'
<1> SUFFICES ASSUME S!IInv, EInv, Interrupt PROVE EInv'
  OBVIOUS
<1>1. /\ phase = "scanning" /\ phase' = "interrupted" /\ pc' = "closed" /\ hosts' = <<>>
      /\ fut' = [j \in Job |-> IF j \in inflight /\ fut[j] = "queued" THEN "discarded" ELSE fut[j]]
      /\ UNCHANGED <<inflight, yielded, cancel, remaining, finalizing, found, record, meta, probeVars>>
  BY DEF Interrupt, S!Close
<1>2. \A j \in Job : fut'[j] = fut[j] \/ (fut[j] = "queued" /\ fut'[j] = "discarded")
  BY <1>1
<1>3. FuturesGrow
  BY <1>1, <1>2, ResultFacts DEF FuturesGrow
<1>4. BooksHold'
  BY <1>1, <1>3, BooksUntouched DEF EInv
<1>5. HostsHold'
  <2>1. DOMAIN hosts' = {} /\ hosts' \in Seq([ip : Host, ports : SUBSET Port, whole : BOOLEAN])
    BY <1>1, EmptySeq
  <2>2. QED
    BY <1>1, <2>1 DEF HostsHold
<1>6. JobsHold' /\ ProbesHold'
  BY <1>1, <1>2, ResultFacts, JobsUntouched, ProbesUntouched DEF EInv
<1>7. PhaseHolds' /\ MetaHolds'
  BY <1>1 DEF EInv, PhaseHolds, MetaHolds
<1>8. QED
  BY <1>4, <1>5, <1>6, <1>7 DEF EInv

\* Stop, or the handler of Ctrl+C, sets the cancel event.
LEMMA StopInv == S!IInv /\ EInv /\ (InterruptCancels \/ Cancel) => EInv'
<1> SUFFICES ASSUME S!IInv, EInv, InterruptCancels \/ Cancel PROVE EInv'
  OBVIOUS
<1>1. /\ UNCHANGED <<pc, inflight, fut, yielded, meta, hostVars, record, probeVars>> /\ cancel' = TRUE
      /\ UNCHANGED phase \/ (phase = "interrupted" /\ phase' = "scanned")
  <2>1. CASE InterruptCancels
    BY <2>1 DEF InterruptCancels, S!SetCancel, S!consumerVars, schedVars, S!IInv, S!TypeOK
  <2>2. CASE Cancel
    BY <2>2 DEF Cancel, S!SetCancel, S!consumerVars, engineVars
  <2>3. QED
    BY <2>1, <2>2
<1>2. /\ BooksHold' /\ HostsHold' /\ JobsHold' /\ ProbesHold' /\ AllProbed' = AllProbed
      /\ ReportedHosts' = ReportedHosts
  BY <1>1, AsideInv
<1>3. PhaseHolds' /\ MetaHolds'
  BY <1>1, <1>2 DEF EInv, PhaseHolds, MetaHolds
<1>4. QED
  BY <1>2, <1>3 DEF EInv

\* Every step of the engine keeps its books.
LEMMA NextEInv == S!IInv /\ FollowUpsAreFinal /\ EInv /\ [Next]_vars => EInv'
<1> SUFFICES ASSUME S!IInv, FollowUpsAreFinal, EInv, [Next]_vars PROVE EInv'
  OBVIOUS
<1>1. CASE UNCHANGED vars
  <2>1. /\ UNCHANGED <<pc, inflight, fut, yielded, cancel, phase, meta>>
        /\ UNCHANGED <<hostVars, record, probeVars>>
    BY <1>1 DEF vars, schedVars, engineVars
  <2>2. /\ BooksHold' /\ HostsHold' /\ JobsHold' /\ ProbesHold' /\ AllProbed' = AllProbed
        /\ ReportedHosts' = ReportedHosts
    BY <2>1, AsideInv
  <2>3. QED
    BY <2>1, <2>2 DEF EInv, PhaseHolds, MetaHolds
<1>2. CASE Engine
  BY <1>2, BeginScanInv, GenerateInv, PortResultInv, FinalResultInv, ScanDoneInv, StopInv,
     WarnBudgetInv, ReportInv DEF Engine
<1>3. ASSUME NEW j \in Job, Worker(j) PROVE EInv'
  BY <1>3, StartInv, ChargeInv, FinishInv DEF Worker
<1>4. CASE Cancel \/ Interrupt
  BY <1>4, StopInv, InterruptInv
<1>5. QED
  BY <1>1, <1>2, <1>3, <1>4 DEF Next, Terminated

\* The engine's books agree with what the Scheduler has yielded, in every state.
THEOREM EngineInvariant == Spec => []EInv
<1>1. Spec => []S!IInv /\ []FollowUpsAreFinal
  BY EngineKeepsScheduler
<1>2. QED
  BY <1>1, InitEInv, NextEInv, PTL DEF Spec

-----------------------------------------------------------------------------
(* What the runs check, for every plan.                                    *)

\* The types follow from the invariants.
LEMMA TypesHold == S!IInv /\ FollowUpsAreFinal /\ EInv => TypeOK
<1> SUFFICES ASSUME S!IInv, FollowUpsAreFinal, EInv PROVE TypeOK
  OBVIOUS
<1>1. remaining \in [Host -> 0 .. PerHostJobs]
  <2>1. IsFiniteSet(Port) /\ Cardinality(Port) = PerHostJobs /\ PerHostJobs \in Nat
    BY PlanFacts, EngineAssumption, QueueSize DEF Port
  <2>2. ASSUME NEW h \in Host PROVE remaining[h] \in 0 .. PerHostJobs
    <3>1. /\ IsFiniteSet(Unyielded(h)) /\ Cardinality(Unyielded(h)) \in Nat
          /\ Cardinality(Unyielded(h)) <= Cardinality(Port)
      BY <2>1, FS_Subset, FS_CardinalityType DEF Unyielded
    <3>2. remaining[h] = Cardinality(Unyielded(h))
      BY DEF EInv, BooksHold
    <3>3. QED
      BY <2>1, <3>1, <3>2
  <2>3. QED
    BY <2>2 DEF EInv, BooksHold
<1>2. S!TypeOK /\ finalizing \subseteq Host
  BY DEF S!IInv, FollowUpsAreFinal
<1>3. QED
  BY <1>1, <1>2 DEF TypeOK, EInv, BooksHold, HostsHold, JobsHold, ProbesHold, PhaseHolds, MetaHolds

\* Hosts that are reported once are as many as the entries of the list.
LEMMA OneEntryEach == HostsHold => Cardinality(ReportedHosts) = Len(hosts)
<1> SUFFICES ASSUME HostsHold PROVE Cardinality(ReportedHosts) = Len(hosts)
  OBVIOUS
<1> DEFINE ips == [i \in 1 .. Len(hosts) |-> hosts[i].ip]
<1>1. DOMAIN hosts = 1 .. Len(hosts) /\ Len(hosts) \in Nat
  BY LenProperties DEF HostsHold
<1>2. \A i \in 1 .. Len(hosts) : hosts[i].ip \in Host
  BY <1>1, Entries
<1>3. ips \in Seq(Host) /\ DOMAIN ips = 1 .. Len(hosts)
  BY <1>1, <1>2, IsASeq
<1>4. Len(ips) = Len(hosts)
  BY <1>1, <1>3, LenProperties
<1>5. IsInjective(ips)
  BY <1>1, <1>3 DEF IsInjective, HostsHold
<1>6. ToSet(ips) = ReportedHosts
  BY <1>1, <1>3 DEF ToSet, ReportedHosts
<1> HIDE DEF ips
<1>7. QED
  BY <1>3, <1>4, <1>5, <1>6, QueueSize

\* The invariants give the complete records.
LEMMA CompleteRecords == S!IInv /\ FollowUpsAreFinal /\ EInv => RecordsAreComplete
<1> SUFFICES ASSUME S!IInv, FollowUpsAreFinal, EInv PROVE RecordsAreComplete
  OBVIOUS
<1>1. TypeOK /\ Cardinality(ReportedHosts) = Len(hosts)
  BY TypesHold, OneEntryEach DEF EInv
<1>2. ASSUME NEW i \in DOMAIN hosts
      PROVE  /\ \A p \in Port : <<hosts[i].ip, p>> \in yielded
             /\ hosts[i].ports = Answered(hosts[i].ip)
  <2> DEFINE h == hosts[i].ip
  <2>1. h \in Host /\ FinalJob(h) \in yielded /\ hosts[i].ports = found[h]
    BY Entries DEF EInv
  <2> HIDE DEF h
  <2>2. h \in finalizing
    BY <2>1, YieldedAreOver, ResultFacts, FinalsWereQueued
  <2>3. \A p \in Port : <<h, p>> \in yielded
    BY <2>2 DEF EInv, BooksHold, Unyielded
  <2>4. found[h] = Answered(h)
    BY <2>1, <2>3 DEF EInv, BooksHold, Answered
  <2>5. QED
    BY <2>1, <2>3, <2>4 DEF h
<1>3. QED
  BY <1>1, <1>2 DEF RecordsAreComplete

\* However the jobs of a scan finish and whoever stops it, a host is reported at most
\* once, after all of its ports, with every port that answered.
THEOREM RecordsComplete == Spec => []RecordsAreComplete
BY EngineInvariant, EngineKeepsScheduler, CompleteRecords, PTL

\* No host vanishes from the report of a scan that ran to its end.
THEOREM HostsReported == Spec => []EveryHostReported
<1>1. EInv => EveryHostReported
  BY DEF EInv, MetaHolds, EveryHostReported
<1>2. QED
  BY <1>1, EngineInvariant, PTL

\* A report that mentions neither Stop nor the budget is about ports that were all
\* probed.
THEOREM IncompleteScansAdmitIt == Spec => []IncompleteScansSaySo
<1>1. EInv => IncompleteScansSaySo
  BY DEF EInv, MetaHolds, AllProbed, IncompleteScansSaySo
<1>2. QED
  BY <1>1, EngineInvariant, PTL

\* After the report of an uninterrupted scan nothing is left that could move.
LEMMA IdleSteps ==
  ASSUME S!IInv, EInv, phase = "reported", pc # "closed", [Next]_vars
  PROVE  UNCHANGED <<sent, fut>>
<1>1. \A j \in Job : fut[j] \notin {"queued", "running"}
  BY DEF EInv, PhaseHolds, S!IInv, S!FlightInv
<1>2. CASE UNCHANGED vars \/ Cancel
  BY <1>2 DEF vars, schedVars, engineVars, probeVars, Cancel, S!SetCancel
<1>3. ASSUME NEW j \in Job, Worker(j) PROVE FALSE
  BY <1>1, <1>3 DEF Worker, StartJob, Probe, Detect, Resend, FinishJob, S!Start, S!Finish
<1>4. CASE Engine \/ Interrupt
  BY <1>4 DEF Engine, Interrupt, BeginScan, Generate, PortResult, FinalResult, ScanDone,
             InterruptCancels, WarnBudget, Report
<1>5. QED
  BY <1>2, <1>3, <1>4 DEF Next, Terminated

\* The report of a scan that was not interrupted is the end of its probes: no job is
\* left that could send one.
THEOREM QuietAfterwards == Spec => QuietAfterReport
<1>1. S!IInv /\ EInv /\ [Next]_vars =>
        (phase = "reported" /\ pc # "closed" => sent' = sent /\ S!Running' = S!Running)
  BY IdleSteps DEF S!Running
<1>2. QED
  BY <1>1, EngineInvariant, EngineKeepsScheduler, PTL DEF Spec, QuietAfterReport

-----------------------------------------------------------------------------
(* The rate limiter that the engine gives to its jobs.                     *)

\* What flows in over two spans of ticks is what flows in over both.
LEMMA FlowAdds ==
  ASSUME NEW a \in Int, NEW b \in Int
  PROVE  /\ Refill * (a + b) = Refill * a + Refill * b
         /\ Refill * (a - b) = Refill * a - Refill * b
BY RateAssumption

\* Nothing negative flows in, and all that is made of it is an integer.
LEMMA FlowIsNatural ==
  ASSUME NEW a \in Nat
  PROVE  Refill * a \in Nat
BY RateAssumption

\* One token more costs one token more.
LEMMA CostAdds ==
  ASSUME NEW a \in Nat
  PROVE  /\ Token * a \in Nat
         /\ Token * (a + 1) = Token * a + Token
BY RateAssumption

\* A full bucket holds a token, and what a look at the clock finds in the
\* bucket is at most a full bucket and at most what was there and came in.
LEMMA BucketFacts ==
  /\ Capacity \in Nat /\ Capacity >= Token
  /\ level \in Nat /\ elapsed \in Nat =>
        /\ Refilled \in 0 .. Capacity
        /\ Refilled <= level + Refill * elapsed
<1>1. Refill * (2 * Slice) \in Nat
  BY FlowIsNatural, RateAssumption
<1>2. Capacity \in Nat /\ Capacity >= Token
  BY <1>1, RateAssumption DEF Capacity
<1>3. ASSUME level \in Nat, elapsed \in Nat
      PROVE  /\ Refilled \in 0 .. Capacity
             /\ Refilled <= level + Refill * elapsed
  <2>1. Refill * elapsed \in Nat
    BY <1>3, FlowIsNatural
  <2>. QED  BY <1>2, <1>3, <2>1 DEF Refilled
<1>. QED  BY <1>2, <1>3

\* One tick less than the pause is not enough for a token.
LEMMA DueIsTight ==
  ASSUME NEW units \in Nat, units < Token
  PROVE  /\ Due(units) \in Nat
         /\ Pause(units) \in 0 .. Slice
         /\ Pause(units) > 0 => units + Refill * (Pause(units) - 1) < Token
<1> DEFINE d == Due(units)
           x == Token - units + Refill - 1
<1>1. x \in Nat /\ Refill \in Nat \ {0}
  BY RateAssumption
<1>2. d \in Nat /\ Refill * d <= x
  BY <1>1 DEF Due
<1>3. Refill * (d - 1) = Refill * d - Refill
  BY <1>1, <1>2
<1>4. Pause(units) \in 0 .. Slice /\ Pause(units) <= d
  BY <1>2, RateAssumption DEF Pause
<1> HIDE DEF d
<1>5. Refill * (Pause(units) - 1) <= Refill * (d - 1)
  BY <1>1, <1>2, <1>4
<1>6. units + Refill * (d - 1) < Token
  BY <1>1, <1>2, <1>3, RateAssumption
<1>7. Refill * (Pause(units) - 1) \in Int /\ Refill * (d - 1) \in Int
  BY <1>1, <1>2, <1>4
<1>8. units + Refill * (Pause(units) - 1) < Token
  BY <1>5, <1>6, <1>7, RateAssumption
<1>. QED  BY <1>2, <1>4, <1>8 DEF d

\* While the observer has watched for longer than since the last look at the
\* clock, what was acquired and what is left came in by that look; otherwise
\* nothing was acquired yet.
Balance ==
  /\ elapsed <= window =>
        Token * acquired + level <= Capacity + Refill * (window - elapsed)
  /\ elapsed > window => acquired = 0

\* A sleeper wakes up before a tick more than the bucket needs.
NapHolds ==
  caller = "asleep" /\ nap > 0 => level + Refill * (elapsed + nap - 1) < Token

BInv == BucketTypeOK /\ Balance /\ NapHolds

\* A bucket starts full, and nobody has watched it yet.
LEMMA BucketStarts == BucketInit => BInv
<1>. SUFFICES ASSUME BucketInit PROVE BInv
  OBVIOUS
<1>1. Capacity \in Nat
  BY BucketFacts
<1>2. BucketTypeOK
  <2>1. /\ level \in 0 .. Capacity /\ elapsed \in 0 .. MaxIdle /\ nap \in 0 .. Slice
        /\ window \in 0 .. MaxWindow /\ acquired \in Nat
    BY <1>1, RateAssumption DEF BucketInit
  <2>2. stopped \in BOOLEAN /\ caller \in {"free", "asleep", "refused"}
    BY DEF BucketInit
  <2>. QED  BY <2>1, <2>2 DEF BucketTypeOK
<1>3. Token * 0 = 0 /\ Refill * 0 = 0
  BY RateAssumption
<1>4. Balance
  BY <1>1, <1>3 DEF BucketInit, Balance
<1>5. NapHolds
  BY DEF BucketInit, NapHolds
<1>. QED  BY <1>2, <1>4, <1>5 DEF BInv

\* What is acquired or left after a look at the clock came in by then.
LEMMA LookBalances ==
  ASSUME BInv
  PROVE  Token * acquired + Refilled <= Capacity + Refill * window
<1>1. /\ level \in Nat /\ elapsed \in Nat /\ window \in Nat /\ acquired \in Nat
      /\ Capacity \in Nat /\ Refilled \in 0 .. Capacity
      /\ Refilled <= level + Refill * elapsed
  BY BucketFacts, RateAssumption DEF BInv, BucketTypeOK
<1>2. Token * acquired \in Nat /\ Refill * elapsed \in Nat /\ Refill * window \in Nat
  BY <1>1, CostAdds, FlowIsNatural
<1>3. CASE elapsed <= window
  <2>1. Token * acquired + level <= Capacity + Refill * (window - elapsed)
    BY <1>3 DEF BInv, Balance
  <2>2. Refill * (window - elapsed) = Refill * window - Refill * elapsed
    BY <1>1, FlowAdds
  <2>. QED  BY <1>1, <1>2, <2>1, <2>2
<1>4. CASE elapsed > window
  <2>1. acquired = 0
    BY <1>4 DEF BInv, Balance
  <2>2. Token * acquired = 0
    BY <2>1, RateAssumption
  <2>. QED  BY <1>1, <1>2, <2>2
<1>. QED  BY <1>1, <1>3, <1>4

\* A token that is granted is one that was in the bucket.
LEMMA GrantKeeps == BInv /\ Grant => BInv'
<1>. SUFFICES ASSUME BInv, Grant PROVE BInv'
  OBVIOUS
<1>1. /\ level \in Nat /\ elapsed \in Nat /\ window \in Nat /\ acquired \in Nat
      /\ Capacity \in Nat /\ Refilled \in 0 .. Capacity /\ Token \in Nat
  BY BucketFacts, RateAssumption DEF BInv, BucketTypeOK
<1>2. BucketTypeOK'
  BY <1>1, RateAssumption DEF BInv, BucketTypeOK, Grant
<1>3. Token * acquired' = Token * acquired + Token /\ Token * acquired \in Nat
  BY <1>1, CostAdds DEF Grant
<1>4. Refill * (window' - elapsed') = Refill * window /\ Refill * window \in Nat
  BY <1>1, FlowIsNatural DEF Grant
<1>5. level' = Refilled - Token /\ elapsed' = 0 /\ window' = window
  BY DEF Grant
<1>6. Token * acquired' + level' <= Capacity + Refill * (window' - elapsed')
  BY <1>1, <1>3, <1>4, <1>5, LookBalances
<1>7. Balance'
  BY <1>1, <1>5, <1>6 DEF Balance
<1>8. NapHolds'
  BY DEF Grant, NapHolds
<1>. QED  BY <1>2, <1>7, <1>8 DEF BInv

\* A look that finds too little leaves what it found, and a pause that fits.
LEMMA SleepKeeps == BInv /\ Sleep => BInv'
<1>. SUFFICES ASSUME BInv, Sleep PROVE BInv'
  OBVIOUS
<1>1. /\ level \in Nat /\ elapsed \in Nat /\ window \in Nat /\ acquired \in Nat
      /\ Capacity \in Nat /\ Refilled \in 0 .. Capacity /\ Token \in Nat
  BY BucketFacts, RateAssumption DEF BInv, BucketTypeOK
<1>2. /\ Refilled \in Nat /\ Refilled < Token
      /\ level' = Refilled /\ elapsed' = 0 /\ window' = window /\ acquired' = acquired
      /\ nap' = Pause(Refilled)
  BY <1>1 DEF Sleep
<1>3. /\ nap' \in 0 .. Slice
      /\ nap' > 0 => level' + Refill * (nap' - 1) < Token
  BY <1>2, DueIsTight
<1>4. BucketTypeOK'
  BY <1>1, <1>2, <1>3, RateAssumption DEF BInv, BucketTypeOK, Sleep
<1>5. Refill * (window' - elapsed') = Refill * window
  BY <1>1, <1>2
<1>6. Balance'
  BY <1>1, <1>2, <1>5, LookBalances DEF Balance
<1>7. NapHolds'
  BY <1>2, <1>3, RateAssumption DEF NapHolds
<1>. QED  BY <1>4, <1>6, <1>7 DEF BInv

\* Time makes the bucket's debt and the observer's allowance grow alike.
LEMMA TickKeeps == BInv /\ Tick => BInv'
<1>. SUFFICES ASSUME BInv, Tick PROVE BInv'
  OBVIOUS
<1>1. /\ level \in Nat /\ elapsed \in Nat /\ window \in Nat /\ nap \in Nat
      /\ elapsed' = elapsed + 1 /\ window' = window + 1
      /\ level' = level /\ acquired' = acquired /\ caller' = caller
      /\ nap' = IF nap > 0 THEN nap - 1 ELSE 0
  BY BucketFacts, RateAssumption DEF BInv, BucketTypeOK, Tick
<1>2. BucketTypeOK'
  BY <1>1, RateAssumption DEF BInv, BucketTypeOK, Tick
<1>3. window' - elapsed' = window - elapsed
  BY <1>1
<1>4. Balance'
  BY <1>1, <1>3 DEF BInv, Balance
<1>5. ASSUME caller' = "asleep", nap' > 0
      PROVE  level' + Refill * (elapsed' + nap' - 1) < Token
  <2>1. nap > 0 /\ elapsed' + nap' - 1 = elapsed + nap - 1
    BY <1>1, <1>5
  <2>. QED  BY <1>1, <1>5, <2>1 DEF BInv, NapHolds
<1>6. NapHolds'
  BY <1>5 DEF NapHolds
<1>. QED  BY <1>2, <1>4, <1>6 DEF BInv

\* One may begin to watch at any moment: a bucket is never more than full.
LEMMA WatchKeeps == BInv /\ Watch => BInv'
<1>. SUFFICES ASSUME BInv, Watch PROVE BInv'
  OBVIOUS
<1>1. /\ elapsed \in Nat /\ level \in 0 .. Capacity /\ Capacity \in Nat
  BY BucketFacts, RateAssumption DEF BInv, BucketTypeOK
<1>2. BucketTypeOK'
  BY RateAssumption DEF BInv, BucketTypeOK, Watch
<1>3. Token * acquired' = 0 /\ Refill * 0 = 0
  BY RateAssumption DEF Watch
<1>4. window' = 0 /\ acquired' = 0 /\ elapsed' = elapsed /\ level' = level
  BY DEF Watch
<1>5. Balance'
  <2>1. ASSUME elapsed' <= window' PROVE window' - elapsed' = 0
    BY <1>1, <1>4, <2>1
  <2>. QED  BY <1>1, <1>3, <1>4, <2>1 DEF Balance
<1>6. NapHolds'
  BY DEF BInv, NapHolds, Watch
<1>. QED  BY <1>2, <1>5, <1>6 DEF BInv

\* A refusal and the cancel event touch neither the bucket nor the clock.
LEMMA StopKeeps == BInv /\ (Refuse \/ SetStop) => BInv'
<1>. SUFFICES ASSUME BInv, Refuse \/ SetStop PROVE BInv'
  OBVIOUS
<1>1. BucketTypeOK'
  <2>1. CASE Refuse
    BY <2>1, RateAssumption DEF BInv, BucketTypeOK, Refuse
  <2>2. CASE SetStop
    <3>1. stopped' \in BOOLEAN
      BY <2>2 DEF SetStop
    <3>. QED  BY <2>2, <3>1 DEF BInv, BucketTypeOK, SetStop
  <2>. QED  BY <2>1, <2>2
<1>2. Balance'
  BY DEF BInv, Balance, Refuse, SetStop
<1>3. NapHolds'
  BY DEF BInv, NapHolds, Refuse, SetStop
<1>. QED  BY <1>1, <1>2, <1>3 DEF BInv

\* A step of others changes nothing of this.
LEMMA BucketStays == BInv /\ UNCHANGED bucketVars => BInv'
BY DEF BInv, BucketTypeOK, Balance, NapHolds, bucketVars

\* The inductive invariant of RateLimiter.acquire.
THEOREM BucketInvariant == BucketSpec => []BInv
<1>1. BInv /\ [BucketNext]_bucketVars => BInv'
  BY GrantKeeps, SleepKeeps, TickKeeps, WatchKeeps, StopKeeps, BucketStays DEF BucketNext
<1>. QED  BY BucketStarts, <1>1, PTL DEF BucketSpec

\* In no span of time, wherever it begins and whatever its length, does a
\* scan acquire more than the rate and one full bucket.
THEOREM RateIsKept == BucketSpec => []BurstAndRate
<1>1. ASSUME BInv PROVE BurstAndRate
  <2>1. /\ level \in Nat /\ elapsed \in Nat /\ window \in Nat /\ acquired \in Nat
        /\ Capacity \in Nat /\ Refilled \in 0 .. Capacity
    BY <1>1, BucketFacts, RateAssumption DEF BInv, BucketTypeOK
  <2>2. Token * acquired \in Nat /\ Refill * window \in Nat
    BY <2>1, CostAdds, FlowIsNatural
  <2>3. Token * acquired <= Capacity + Refill * window
    BY <1>1, <2>1, <2>2, LookBalances
  <2>. QED  BY <1>1, <2>3 DEF BInv, BurstAndRate
<1>. QED  BY <1>1, BucketInvariant, PTL

\* While a caller must sleep, the bucket holds no token.
THEOREM SleepIsNeeded == BucketSpec => []NoSleepOverToken
<1>1. ASSUME BInv PROVE NoSleepOverToken
  <2>. SUFFICES ASSUME caller = "asleep", nap > 0
                PROVE  level + Refill * elapsed < Token
    BY DEF NoSleepOverToken
  <2>1. level \in Nat /\ elapsed \in Nat /\ nap \in Nat /\ Token \in Nat
    BY <1>1, BucketFacts, RateAssumption DEF BInv, BucketTypeOK
  <2>2. level + Refill * (elapsed + nap - 1) < Token
    BY <1>1 DEF BInv, NapHolds
  <2>3. /\ elapsed + nap - 1 = elapsed + (nap - 1) /\ nap - 1 \in Nat
        /\ Refill * (elapsed + (nap - 1)) = Refill * elapsed + Refill * (nap - 1)
    BY <2>1, FlowAdds
  <2>4. Refill * (nap - 1) \in Nat /\ Refill * elapsed \in Nat
    BY <2>1, <2>3, FlowIsNatural
  <2>. QED  BY <2>1, <2>2, <2>3, <2>4
<1>. QED  BY <1>1, BucketInvariant, PTL

\* The pace of a scan is kept, and used.
THEOREM PaceKept == BucketSpec => []PaceIsKept
<1>1. BurstAndRate /\ NoSleepOverToken => PaceIsKept
  BY DEF PaceIsKept
<1>. QED  BY <1>1, RateIsKept, SleepIsNeeded, PTL
==============================================================================
