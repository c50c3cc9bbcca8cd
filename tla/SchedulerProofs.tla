--------------------------- MODULE SchedulerProofs ---------------------------
(***************************************************************************)
(* Theorems about Scheduler, for every set of jobs, every source, every    *)
(* assignment of jobs to hosts and every value of the bounds.              *)
(***************************************************************************)
EXTENDS Scheduler, QueueLemmas

-----------------------------------------------------------------------------
\* take_eligible removes the job it returns and keeps all the others.
LEMMA RotatedFacts ==
  ASSUME NEW S, NEW s \in Seq(S), NEW i \in DOMAIN s
  PROVE  /\ Rotated(s, i) \in Seq(S)
         /\ s[i] \in S /\ s[i] \in ToSet(s)
         /\ Len(Rotated(s, i)) = Len(s) - 1
         /\ IsInjective(s) => /\ IsInjective(Rotated(s, i))
                              /\ ToSet(Rotated(s, i)) = ToSet(s) \ {s[i]}
<1> DEFINE front == SubSeq(s, 1, i - 1)
           back  == SubSeq(s, i + 1, Len(s))
<1>1. Len(s) \in Nat /\ DOMAIN s = 1 .. Len(s)
  BY LenProperties
<1>2. /\ front \in Seq(S) /\ ToSet(front) = {s[k] : k \in 1 .. i - 1}
      /\ Len(front) = i - 1
      /\ IsInjective(s) => IsInjective(front)
  <2>1. i - 1 \in 0 .. Len(s) /\ 1 \in Nat \ {0}
    BY <1>1
  <2>2. QED
    BY <2>1, SliceFacts, <1>1
<1>3. /\ back \in Seq(S) /\ ToSet(back) = {s[k] : k \in i + 1 .. Len(s)}
      /\ Len(back) = Len(s) - i
      /\ IsInjective(s) => IsInjective(back)
  <2>1. i + 1 \in Nat \ {0} /\ Len(s) \in 0 .. Len(s)
    BY <1>1
  <2>2. QED
    BY <2>1, SliceFacts, <1>1
<1> HIDE DEF front, back
<1>4. /\ back \o front \in Seq(S)
      /\ ToSet(back \o front) = ToSet(back) \cup ToSet(front)
      /\ Len(back \o front) = Len(s) - 1
  <2>1. Len(back \o front) = Len(back) + Len(front)
    BY <1>2, <1>3, ConcatProperties
  <2>2. Len(back) + Len(front) = Len(s) - 1
    BY <1>1, <1>2, <1>3
  <2>3. back \o front \in Seq(S) /\ ToSet(back \o front) = ToSet(back) \cup ToSet(front)
    BY <1>2, <1>3, ConcatFacts
  <2>4. QED
    BY <2>1, <2>2, <2>3
<1>5. ASSUME IsInjective(s)
      PROVE  IsInjective(back \o front) /\ ToSet(back \o front) = ToSet(s) \ {s[i]}
  <2>1. ToSet(back) \cap ToSet(front) = {}
    <3>1. ASSUME NEW h \in i + 1 .. Len(s), NEW k \in 1 .. i - 1, s[h] = s[k]
          PROVE  FALSE
      <4>1. h \in DOMAIN s /\ k \in DOMAIN s /\ h # k
        BY <1>1
      <4>2. QED
        BY <4>1, <3>1, <1>5 DEF IsInjective
    <3>2. QED
      BY <1>2, <1>3, <3>1
  <2>2. IsInjective(back \o front)
    BY <1>2, <1>3, <1>5, <2>1, ConcatFacts
  <2>3. ToSet(back) \cup ToSet(front) = {s[k] : k \in (1 .. i - 1) \cup (i + 1 .. Len(s))}
    BY <1>2, <1>3
  <2>4. (1 .. i - 1) \cup (i + 1 .. Len(s)) = (DOMAIN s) \ {i}
    BY <1>1
  <2>5. {s[k] : k \in (DOMAIN s) \ {i}} = ToSet(s) \ {s[i]}
    BY <1>5 DEF IsInjective, ToSet
  <2>6. QED
    BY <1>4, <2>2, <2>3, <2>4, <2>5
<1>6. s[i] \in S /\ s[i] \in ToSet(s)
  BY <1>1, ElementOfSeq DEF ToSet
<1>7. QED
  BY <1>4, <1>5, <1>6 DEF Rotated, front, back

-----------------------------------------------------------------------------
(* Type correctness.                                                       *)

\* Facts about the constants that every step uses.
LEMMA ConstantFacts ==
  /\ Len(Source) \in Nat /\ DOMAIN Source = 1 .. Len(Source)
  /\ \A i \in 1 .. Len(Source) : Source[i] \in Job
  /\ \A j \in Job : KeyOf[j] \in Key
  /\ Result \subseteq FutState /\ Failed \in Result /\ CANCELLED \in Result
  /\ \A r \in Result : r \notin {"new", "queued", "running", "discarded"}
<1>1. Source \in Seq(Job)
  BY SchedulerAssumption
<1>2. Len(Source) \in Nat /\ DOMAIN Source = 1 .. Len(Source)
  BY <1>1, LenProperties
<1>3. \A i \in 1 .. Len(Source) : Source[i] \in Job
  BY <1>1, ElementOfSeq
<1>4. \A j \in Job : KeyOf[j] \in Key
  BY SchedulerAssumption DEF Key
<1>5. Result \subseteq FutState /\ Failed \in Result /\ CANCELLED \in Result
  BY DEF Result, FutState
<1>6. \A r \in Result : r \notin {"new", "queued", "running", "discarded"}
  BY SchedulerAssumption DEF Result, Failed, CANCELLED
<1>7. QED
  BY <1>2, <1>3, <1>4, <1>5, <1>6

\* The jobs that next_job() may pull are positions of the source.
LEMMA PullFacts ==
  ASSUME TypeOK, Len(deferred) <= Window
  PROVE  /\ PullLimit \in pulled .. Len(Source)
         /\ PullLimit - pulled <= Window - Len(deferred)
         /\ PullLimit < Len(Source) => PullLimit - pulled = Window - Len(deferred)
         /\ \A i \in FirstPull : i \in pulled + 1 .. PullLimit
<1>1. Len(deferred) \in Nat
  BY LenProperties DEF TypeOK
<1>2. pulled \in 0 .. Len(Source) /\ Len(Source) \in Nat /\ Window \in Nat
  BY ConstantFacts, SchedulerAssumption DEF TypeOK
<1>3. QED
  BY <1>1, <1>2 DEF PullLimit, FirstPull

\* The part of IInv that typing rests on: the window is respected, Submit has a
\* job and Deliver a result.
ControlOK == /\ Len(deferred) <= Window
             /\ pc = "submit" => popped \in Job
             /\ pc = "deliver" => batch # <<>>

\* The types hold at the start ...
LEMMA InitType == Init => TypeOK /\ ControlOK
<1> SUFFICES ASSUME Init PROVE TypeOK /\ ControlOK
  OBVIOUS
<1>1. \A S : <<>> \in Seq(S)
  OBVIOUS
<1>2. 0 \in 0 .. Len(Source)
  BY ConstantFacts
<1>3. fut \in [Job -> FutState]
  BY DEF Init, FutState
<1>4. stats \in [{"submitted", "completed", "failed", "cancelled", "peak_inflight"} -> Int]
  BY DEF Init
<1>5. ControlOK
  BY SchedulerAssumption DEF Init, ControlOK
<1>6. busy \in [Key -> Nat]
  BY DEF Init
<1>7. QED
  BY <1>1, <1>2, <1>3, <1>4, <1>5, <1>6 DEF Init, TypeOK

\* ... after a pick ...
LEMMA PickType == TypeOK /\ ControlOK /\ Pick => TypeOK' /\ ControlOK'
<1> SUFFICES ASSUME TypeOK, ControlOK, Pick PROVE TypeOK' /\ ControlOK'
  OBVIOUS
<1>1. UNCHANGED <<inflight, busy, finished, batch, fut, cancel, stats, added, yielded>>
  BY DEF Pick
<1>2. CASE PickExtra
  <2>1. PICK i \in FirstEligible(extra) :
          /\ Take(extra[i]) /\ extra' = Rotated(extra, i) /\ UNCHANGED <<deferred, pulled>>
    BY <1>2 DEF PickExtra
  <2>2. i \in DOMAIN extra /\ extra \in Seq(Job)
    BY DEF FirstEligible, TypeOK
  <2>3. extra' \in Seq(Job) /\ extra[i] \in Job
    BY <2>1, <2>2, RotatedFacts
  <2>4. QED
    BY <1>1, <2>1, <2>3 DEF TypeOK, ControlOK, Take
<1>3. CASE PickDeferred
  <2>1. PICK i \in FirstEligible(deferred) :
          /\ Take(deferred[i]) /\ deferred' = Rotated(deferred, i) /\ UNCHANGED <<extra, pulled>>
    BY <1>3 DEF PickDeferred
  <2>2. i \in DOMAIN deferred /\ deferred \in Seq(Job)
    BY DEF FirstEligible, TypeOK
  <2>3. deferred' \in Seq(Job) /\ deferred[i] \in Job /\ Len(deferred') = Len(deferred) - 1
    BY <2>1, <2>2, RotatedFacts
  <2>4. Len(deferred) \in Nat /\ Window \in Nat
    BY <2>2, LenProperties, SchedulerAssumption
  <2>5. QED
    BY <1>1, <2>1, <2>3, <2>4 DEF TypeOK, ControlOK, Take
<1>4. CASE PickSource
  <2>1. PICK i \in FirstPull :
          /\ Take(Source[i])
          /\ deferred' = deferred \o SubSeq(Source, pulled + 1, i - 1)
          /\ pulled' = i /\ UNCHANGED extra
    BY <1>4 DEF PickSource
  <2>2. i \in pulled + 1 .. PullLimit /\ pulled + 1 \in Nat \ {0} /\ i - 1 \in 0 .. Len(Source)
        /\ i \in 1 .. Len(Source)
    <3>1. i \in pulled + 1 .. PullLimit /\ PullLimit \in pulled .. Len(Source)
      BY PullFacts DEF ControlOK
    <3>2. pulled \in 0 .. Len(Source) /\ Len(Source) \in Nat
      BY ConstantFacts DEF TypeOK
    <3>3. QED
      BY <3>1, <3>2
  <2>3. /\ SubSeq(Source, pulled + 1, i - 1) \in Seq(Job)
        /\ Len(SubSeq(Source, pulled + 1, i - 1)) = i - 1 - pulled
    <3>1. Len(SubSeq(Source, pulled + 1, i - 1)) =
            IF pulled + 1 <= i - 1 THEN i - 1 - (pulled + 1) + 1 ELSE 0
      BY <2>2, SliceFacts, SchedulerAssumption
    <3>2. QED
      BY <2>2, <3>1, SliceFacts, SchedulerAssumption, PullFacts DEF TypeOK, ControlOK
  <2>4. /\ deferred' \in Seq(Job)
        /\ Len(deferred') = Len(deferred) + (i - 1 - pulled)
    BY <2>1, <2>3, ConcatProperties DEF TypeOK
  <2>5. Len(deferred') <= Window
    <3>1. Len(deferred) \in Nat
      BY LenProperties DEF TypeOK
    <3>2. PullLimit - pulled <= Window - Len(deferred) /\ Window \in Nat
      BY PullFacts, SchedulerAssumption DEF ControlOK
    <3>3. pulled \in Nat /\ PullLimit \in Int
      BY PullFacts, ConstantFacts DEF TypeOK, ControlOK
    <3>4. QED
      BY <2>2, <2>4, <3>1, <3>2, <3>3
  <2>6. Source[i] \in Job /\ i \in 0 .. Len(Source)
    BY <2>2, ConstantFacts
  <2>7. QED
    BY <1>1, <2>1, <2>4, <2>5, <2>6 DEF TypeOK, ControlOK, Take
<1>5. QED
  BY <1>2, <1>3, <1>4 DEF Pick

\* ... when the consumer stops filling ...
LEMMA LeaveFillType == TypeOK /\ ControlOK /\ LeaveFill => TypeOK' /\ ControlOK'
<1> SUFFICES ASSUME TypeOK, ControlOK, LeaveFill PROVE TypeOK' /\ ControlOK'
  OBVIOUS
<1>1. UNCHANGED <<extra, popped, inflight, busy, finished, batch, fut, cancel, stats, added, yielded>>
  BY DEF LeaveFill
<1>2. pc' \in {"returned", "get"}
  BY DEF LeaveFill, AfterFill
<1>3. CASE UNCHANGED <<deferred, pulled>>
  BY <1>1, <1>2, <1>3 DEF TypeOK, ControlOK
<1>4. CASE NoneEligible
  <2>1. /\ deferred' = deferred \o SubSeq(Source, pulled + 1, PullLimit)
        /\ pulled' = PullLimit
    BY <1>4 DEF NoneEligible
  <2>2. PullLimit \in pulled .. Len(Source) /\ pulled + 1 \in Nat \ {0}
        /\ PullLimit \in 0 .. Len(Source)
    BY PullFacts, ConstantFacts DEF TypeOK, ControlOK
  <2>3. /\ SubSeq(Source, pulled + 1, PullLimit) \in Seq(Job)
        /\ Len(SubSeq(Source, pulled + 1, PullLimit)) = PullLimit - pulled
    <3>1. Len(SubSeq(Source, pulled + 1, PullLimit)) =
            IF pulled + 1 <= PullLimit THEN PullLimit - (pulled + 1) + 1 ELSE 0
      BY <2>2, SliceFacts, SchedulerAssumption
    <3>2. QED
      BY <2>2, <3>1, SliceFacts, SchedulerAssumption DEF TypeOK
  <2>4. /\ deferred' \in Seq(Job)
        /\ Len(deferred') = Len(deferred) + (PullLimit - pulled)
    BY <2>1, <2>3, ConcatProperties DEF TypeOK
  <2>5. Len(deferred') <= Window
    <3>1. Len(deferred) \in Nat
      BY LenProperties DEF TypeOK
    <3>2. PullLimit - pulled <= Window - Len(deferred) /\ Window \in Nat
      BY PullFacts, SchedulerAssumption DEF ControlOK
    <3>3. pulled \in Nat /\ PullLimit \in Int
      BY PullFacts, ConstantFacts DEF TypeOK, ControlOK
    <3>4. QED
      BY <2>2, <2>4, <3>1, <3>2, <3>3
  <2>6. QED
    BY <1>1, <1>2, <2>1, <2>2, <2>4, <2>5 DEF TypeOK, ControlOK
<1>5. QED
  BY <1>3, <1>4 DEF LeaveFill

\* The steps that leave the source and the deferred jobs alone.
LEMMA ConsumerType ==
  TypeOK /\ ControlOK /\ (Submit \/ Refused \/ Get \/ Timeout \/ Close) => TypeOK' /\ ControlOK'
<1> SUFFICES ASSUME TypeOK, ControlOK, Submit \/ Refused \/ Get \/ Timeout \/ Close
             PROVE  TypeOK' /\ ControlOK'
  OBVIOUS
<1>1. CASE Submit
  <2>0. popped \in Job /\ KeyOf[popped] \in Key
    BY <1>1, ConstantFacts DEF Submit, ControlOK
  <2>1. popped' = NoJob /\ pc' = "fill" /\ inflight' = inflight \cup {popped}
    BY <1>1 DEF Submit
  <2>2. fut' \in [Job -> FutState]
    BY <1>1, <2>0 DEF Submit, TypeOK, FutState
  <2>3. busy' \in [Key -> Nat]
    BY <1>1, <2>0 DEF Submit, Held, TypeOK
  <2>4. stats' \in [{"submitted", "completed", "failed", "cancelled", "peak_inflight"} -> Int]
    <3>1. inflight' \subseteq Job
      BY <2>0, <2>1 DEF TypeOK
    <3>2. IsFiniteSet(inflight')
      BY <3>1, FS_Subset, SchedulerAssumption
    <3>3. Cardinality(inflight') \in Int
      BY <3>2, FS_CardinalityType
    <3> DEFINE n == Cardinality(inflight')
    <3>4. PICK m \in Int, p \in Int :
            stats' = [stats EXCEPT !["submitted"] = m, !["peak_inflight"] = p]
      <4>1. stats["submitted"] + 1 \in Int
        BY DEF TypeOK
      <4>2. (IF n > stats["peak_inflight"] THEN n ELSE stats["peak_inflight"]) \in Int
        BY <3>3 DEF TypeOK
      <4>3. QED
        BY <1>1, <4>1, <4>2, Zenon DEF Submit
    <3>5. QED
      BY <3>4 DEF TypeOK
  <2>5. QED
    BY <1>1, <2>0, <2>1, <2>2, <2>3, <2>4 DEF Submit, TypeOK, ControlOK
<1>2. CASE Refused
  BY <1>2 DEF Refused, AfterFill, TypeOK, ControlOK
<1>3. CASE Get
  BY <1>3 DEF Get, TypeOK, ControlOK
<1>4. CASE Timeout
  BY <1>4 DEF Timeout, TypeOK, ControlOK
<1>5. CASE Close
  BY <1>5 DEF Close, TypeOK, ControlOK, FutState
<1>6. QED
  BY <1>1, <1>2, <1>3, <1>4, <1>5
\* What the caller hands to add() is new to the scheduler.
LEMMA FollowUpFacts ==
  ASSUME NEW adds \in FollowUps
  PROVE  /\ adds \in Seq(Job) /\ IsInjective(adds)
         /\ ToSet(adds) \subseteq Job
         /\ ToSet(adds) \cap (SourceJobs \cup added) = {}
<1>1. CASE adds = <<>>
  BY <1>1 DEF ToSet, IsInjective
<1>2. CASE adds # <<>>
  <2>1. PICK j \in Job \ (SourceJobs \cup added) : adds = <<j>>
    BY <1>2 DEF FollowUps
  <2>2. DOMAIN adds = {1} /\ adds[1] = j
    BY <2>1
  <2>3. ToSet(adds) = {j} /\ IsInjective(adds)
    BY <2>2, Zenon DEF ToSet, IsInjective
  <2>4. adds \in Seq(Job)
    BY <2>1
  <2>5. QED
    BY <2>1, <2>3, <2>4
<1>3. QED
  BY <1>1, <1>2

\* ... and after a worker's step.
LEMMA WorkerType ==
  ASSUME TypeOK, ControlOK, NEW j \in Job, Worker(j)
  PROVE  TypeOK' /\ ControlOK'
<1>1. UNCHANGED <<consumerVars, cancel>>
  BY DEF Worker, Start, Finish
<1>2. \/ fut' = [fut EXCEPT ![j] = "running"] /\ UNCHANGED finished
      \/ \E r \in Result : fut' = [fut EXCEPT ![j] = r] /\ finished' = Append(finished, j)
  BY ConstantFacts DEF Worker, Start, Finish, Completed
<1>3. fut' \in [Job -> FutState]
  BY <1>2, ConstantFacts DEF TypeOK, FutState
<1>4. finished' \in Seq(Job)
  <2>1. Append(finished, j) \in Seq(Job)
    BY AppendProperties DEF TypeOK
  <2>2. QED
    BY <1>2, <2>1 DEF TypeOK
<1>5. QED
  BY <1>1, <1>3, <1>4 DEF consumerVars, TypeOK, ControlOK

-----------------------------------------------------------------------------
(* The inductive invariant.                                                *)

\* Nothing is picked, in flight or lost at the start.
LEMMA InitInv == Init => IInv
<1> SUFFICES ASSUME Init PROVE IInv
  OBVIOUS
<1>1. TypeOK /\ ControlOK
  BY InitType
<1>2. ToSet(extra) = {} /\ ToSet(deferred) = {} /\ ToSet(finished) = {} /\ ToSet(batch) = {}
      /\ IsInjective(extra) /\ IsInjective(deferred) /\ IsInjective(finished) /\ IsInjective(batch)
  BY DEF Init, ToSet, IsInjective
<1>3. Pulled = {}
  BY DEF Init, Pulled
<1>4. Waiting = {} /\ Handed = {} /\ Lost = {}
  BY <1>2, <1>3 DEF Waiting, Handed, Lost, Init
<1>5. QueuesInv
  BY <1>2, <1>3, <1>4 DEF QueuesInv, Init
<1>6. FlightInv
  BY <1>2 DEF FlightInv, Init
<1>7. CountInv
  <2>1. \A k \in Key : InFlightOf(k) = {}
    BY DEF Init, InFlightOf
  <2>2. Cardinality({}) = 0
    BY FS_EmptySet
  <2>3. \A k \in Key : busy[k] = 0
    BY DEF Init
  <2>4. 0 <= Workers /\ 0 <= PerKey
    BY SchedulerAssumption
  <2>5. inflight = {} /\ pc # "submit"
    BY DEF Init
  <2>6. QED
    BY <2>1, <2>2, <2>3, <2>4, <2>5 DEF CountInv
<1>8. DoneInv
  BY <1>1, <1>4 DEF Init, DoneInv, ControlOK
<1>9. QED
  BY <1>1, <1>5, <1>6, <1>7, <1>8 DEF IInv

\* The invariant implies what the lemmas on types assume.
LEMMA InvControl == IInv => ControlOK
BY DEF IInv, ControlOK, TypeOK, QueuesInv, FlightInv, DoneInv

\* What the source has not produced yet is unknown to the scheduler.
LEMMA NotPulledFacts ==
  ASSUME IInv, NEW i \in pulled + 1 .. Len(Source)
  PROVE  Source[i] \in Job /\ Source[i] \notin Handed /\ fut[Source[i]] = "new"
<1>1. i \in 1 .. Len(Source) /\ pulled \in 0 .. Len(Source)
  BY ConstantFacts DEF IInv, TypeOK
<1>2. Source[i] \in Job /\ Source[i] \in SourceJobs
  BY <1>1, ConstantFacts DEF SourceJobs, ToSet
<1>3. Source[i] \notin Pulled
  <2>1. \A h \in 1 .. pulled : h \in DOMAIN Source /\ i \in DOMAIN Source /\ h # i
    BY <1>1, ConstantFacts
  <2>2. QED
    BY <2>1, SchedulerAssumption DEF Pulled, IsInjective
<1>4. Source[i] \notin added
  BY <1>2 DEF IInv, QueuesInv
<1>5. QED
  BY <1>2, <1>3, <1>4 DEF Handed, IInv, QueuesInv

\* Deferring the jobs pulled up to position m, the last one being returned or
\* not, keeps the queue of deferred jobs free of repetitions.
LEMMA DeferFacts ==
  ASSUME IInv, NEW m \in pulled .. Len(Source)
  PROVE  LET slice == SubSeq(Source, pulled + 1, m) IN
         /\ slice \in Seq(Job)
         /\ Len(slice) = m - pulled
         /\ ToSet(slice) = {Source[i] : i \in pulled + 1 .. m}
         /\ deferred \o slice \in Seq(Job)
         /\ IsInjective(deferred \o slice)
         /\ ToSet(deferred \o slice) = ToSet(deferred) \cup ToSet(slice)
<1> DEFINE slice == SubSeq(Source, pulled + 1, m)
<1>1. /\ pulled + 1 \in Nat \ {0} /\ m \in 0 .. Len(Source) /\ m \in Int /\ pulled \in Int
      /\ pulled <= m
  BY ConstantFacts DEF IInv, TypeOK
<1>2. /\ slice \in Seq(Job)
      /\ ToSet(slice) = {Source[i] : i \in pulled + 1 .. m}
      /\ Len(slice) = IF pulled + 1 <= m THEN m - (pulled + 1) + 1 ELSE 0
      /\ IsInjective(slice)
  BY <1>1, SliceFacts, SchedulerAssumption
<1>3. Len(slice) = m - pulled
  BY <1>1, <1>2
<1>4. ToSet(deferred) \cap ToSet(slice) = {}
  <2>1. ToSet(deferred) \subseteq Handed
    BY DEF IInv, QueuesInv, Handed
  <2>2. \A i \in pulled + 1 .. m : Source[i] \notin Handed
    BY <1>1, NotPulledFacts, ConstantFacts
  <2>3. QED
    BY <2>1, <2>2, <1>2
<1>5. deferred \in Seq(Job) /\ IsInjective(deferred)
  BY DEF IInv, TypeOK, QueuesInv
<1> HIDE DEF slice
<1>6. /\ deferred \o slice \in Seq(Job)
      /\ IsInjective(deferred \o slice)
      /\ ToSet(deferred \o slice) = ToSet(deferred) \cup ToSet(slice)
  BY <1>2, <1>4, <1>5, ConcatFacts
<1>7. QED
  BY <1>2, <1>3, <1>6 DEF slice

\* The jobs pulled after a step that moves the source on.
LEMMA PulledGrows ==
  ASSUME IInv, pulled' \in pulled .. Len(Source)
  PROVE  Pulled' = Pulled \cup {Source[i] : i \in pulled + 1 .. pulled'}
<1>1. pulled \in 0 .. Len(Source) /\ Len(Source) \in Nat
  BY ConstantFacts DEF IInv, TypeOK
<1>2. 1 .. pulled' = (1 .. pulled) \cup (pulled + 1 .. pulled')
  BY <1>1
<1>3. QED
  BY <1>2 DEF Pulled

\* What next_job() does when it returns a job, whichever queue it came from.
LEMMA PickEffect ==
  ASSUME IInv, Pick
  PROVE  /\ popped' \in Job /\ Eligible(popped') /\ pc' = "submit"
         /\ IsInjective(extra') /\ IsInjective(deferred')
         /\ ToSet(extra') \subseteq added
         /\ ToSet(deferred') \subseteq Pulled'
         /\ popped' \notin ToSet(extra') \cup ToSet(deferred')
         /\ Waiting \subseteq Waiting'
         /\ Pulled \subseteq Pulled'
         /\ Pulled' \ Pulled \subseteq Waiting'
         /\ \A j \in Waiting' : j \in Handed' /\ fut[j] = "new"
<1>0. pc = "fill" /\ popped = NoJob /\ UNCHANGED added
  BY DEF Pick, MayFill, IInv, QueuesInv
<1>1. /\ Waiting = ToSet(extra) \cup ToSet(deferred)
      /\ ToSet(extra) \subseteq added /\ ToSet(deferred) \subseteq Pulled
      /\ IsInjective(extra) /\ IsInjective(deferred)
      /\ extra \in Seq(Job) /\ deferred \in Seq(Job)
      /\ added \cap SourceJobs = {} /\ Pulled \subseteq SourceJobs
      /\ \A j \in Waiting : fut[j] = "new"
  <2>1. Pulled \subseteq SourceJobs
    <3>1. \A i \in 1 .. pulled : i \in DOMAIN Source
      BY ConstantFacts DEF IInv, TypeOK
    <3>2. QED
      BY <3>1 DEF Pulled, SourceJobs, ToSet
  <2>2. QED
    BY <1>0, <2>1 DEF IInv, TypeOK, QueuesInv, Waiting
<1>2. CASE PickExtra
  <2>1. PICK i \in FirstEligible(extra) :
          /\ Take(extra[i]) /\ extra' = Rotated(extra, i) /\ UNCHANGED <<deferred, pulled>>
    BY <1>2 DEF PickExtra
  <2>2. i \in DOMAIN extra /\ Eligible(extra[i])
    BY DEF FirstEligible
  <2>3. /\ extra[i] \in Job /\ extra[i] \in ToSet(extra)
        /\ IsInjective(extra') /\ ToSet(extra') = ToSet(extra) \ {extra[i]}
    BY <1>1, <2>1, <2>2, RotatedFacts
  <2>4. popped' = extra[i] /\ pc' = "submit"
    BY <2>1 DEF Take
  <2>5. Waiting' = Waiting /\ Pulled' = Pulled /\ Handed' = Handed
    <3>1. popped' # NoJob
      BY <2>3, <2>4, SchedulerAssumption
    <3>2. Pulled' = Pulled
      BY <2>1 DEF Pulled
    <3>3. QED
      BY <1>0, <1>1, <2>1, <2>3, <2>4, <3>1, <3>2 DEF Waiting, Handed
  <2>6. popped' \notin ToSet(deferred)
    BY <1>1, <2>3, <2>4
  <2>7. QED
    BY <1>1, <2>1, <2>2, <2>3, <2>4, <2>5, <2>6 DEF Handed
<1>3. CASE PickDeferred
  <2>1. PICK i \in FirstEligible(deferred) :
          /\ Take(deferred[i]) /\ deferred' = Rotated(deferred, i) /\ UNCHANGED <<extra, pulled>>
    BY <1>3 DEF PickDeferred
  <2>2. i \in DOMAIN deferred /\ Eligible(deferred[i])
    BY DEF FirstEligible
  <2>3. /\ deferred[i] \in Job /\ deferred[i] \in ToSet(deferred)
        /\ IsInjective(deferred') /\ ToSet(deferred') = ToSet(deferred) \ {deferred[i]}
    BY <1>1, <2>1, <2>2, RotatedFacts
  <2>4. popped' = deferred[i] /\ pc' = "submit"
    BY <2>1 DEF Take
  <2>5. Waiting' = Waiting /\ Pulled' = Pulled /\ Handed' = Handed
    <3>1. popped' # NoJob
      BY <2>3, <2>4, SchedulerAssumption
    <3>2. Pulled' = Pulled
      BY <2>1 DEF Pulled
    <3>3. QED
      BY <1>0, <1>1, <2>1, <2>3, <2>4, <3>1, <3>2 DEF Waiting, Handed
  <2>6. popped' \notin ToSet(extra)
    BY <1>1, <2>3, <2>4
  <2>7. QED
    BY <1>1, <2>1, <2>2, <2>3, <2>4, <2>5, <2>6 DEF Handed
<1>4. CASE PickSource
  <2>1. PICK i \in FirstPull :
          /\ Take(Source[i])
          /\ deferred' = deferred \o SubSeq(Source, pulled + 1, i - 1)
          /\ pulled' = i /\ UNCHANGED extra
    BY <1>4 DEF PickSource
  <2>2. /\ i \in pulled + 1 .. PullLimit /\ PullLimit \in pulled .. Len(Source)
        /\ Eligible(Source[i]) /\ pulled \in Nat /\ Len(Source) \in Nat
    BY InvControl, PullFacts, ConstantFacts DEF IInv, TypeOK, ControlOK, FirstPull
  <2>3. i \in pulled + 1 .. Len(Source) /\ i - 1 \in pulled .. Len(Source) /\ i \in pulled .. Len(Source)
    BY <2>2
  <2>4. /\ IsInjective(deferred')
        /\ ToSet(deferred') = ToSet(deferred) \cup {Source[h] : h \in pulled + 1 .. i - 1}
    BY <2>1, <2>3, DeferFacts
  <2>5. Pulled' = Pulled \cup {Source[h] : h \in pulled + 1 .. i}
    BY <2>1, <2>3, PulledGrows
  <2>6. popped' = Source[i] /\ pc' = "submit" /\ popped' \in Job /\ popped' # NoJob
    BY <2>1, <2>3, NotPulledFacts, SchedulerAssumption DEF Take
  <2>7. {Source[h] : h \in pulled + 1 .. i} = {Source[h] : h \in pulled + 1 .. i - 1} \cup {Source[i]}
    <3>1. pulled + 1 .. i = (pulled + 1 .. i - 1) \cup {i}
      BY <2>2
    <3>2. QED
      BY <3>1
  <2>8. Waiting' = Waiting \cup {Source[h] : h \in pulled + 1 .. i}
    BY <1>1, <2>1, <2>4, <2>6, <2>7 DEF Waiting
  <2>9. Source[i] \notin ToSet(extra) \cup ToSet(deferred')
    <3>1. Source[i] \notin Handed
      BY <2>3, NotPulledFacts
    <3>2. Source[i] \notin {Source[h] : h \in pulled + 1 .. i - 1}
      <4>1. \A h \in pulled + 1 .. i - 1 : h \in DOMAIN Source /\ i \in DOMAIN Source /\ h # i
        BY <2>2, ConstantFacts
      <4>2. QED
        BY <4>1, SchedulerAssumption DEF IsInjective
    <3>3. QED
      BY <1>1, <2>4, <3>1, <3>2 DEF Handed
  <2>10. \A j \in Waiting' : j \in Handed' /\ fut[j] = "new"
    <3>1. \A h \in pulled + 1 .. i : fut[Source[h]] = "new"
      BY <2>2, NotPulledFacts
    <3>2. QED
      BY <1>0, <1>1, <2>5, <2>8, <3>1 DEF Handed
  <2>11. QED
    BY <1>0, <1>1, <2>1, <2>2, <2>4, <2>5, <2>6, <2>7, <2>8, <2>9, <2>10
<1>5. QED
  BY <1>2, <1>3, <1>4 DEF Pick

\* A job is moved out of one queue, and deferred ones stay in their order.
LEMMA PickInv == IInv /\ Pick => IInv'
<1> SUFFICES ASSUME IInv, Pick PROVE IInv'
  OBVIOUS
<1>1. UNCHANGED <<inflight, busy, finished, batch, fut, cancel, stats, added, yielded>>
  BY DEF Pick
<1>2. pc = "fill" /\ popped = NoJob /\ Cardinality(inflight) < Workers
  BY DEF Pick, MayFill, IInv, QueuesInv
<1>3. TypeOK' /\ ControlOK'
  BY InvControl, PickType DEF IInv
<1>4. popped' # NoJob
  BY PickEffect, SchedulerAssumption
<1>5. QueuesInv'
  <2>1. popped' \in Waiting'
    BY <1>4 DEF Waiting
  <2>2. \A j \in Job : fut'[j] # "new" => j \in Handed'
    BY <1>1, PickEffect DEF Handed, IInv, QueuesInv
  <2>3. QED
    BY <1>1, <1>4, <2>1, <2>2, PickEffect DEF QueuesInv, IInv
<1>6. FlightInv'
  BY <1>1, PickEffect DEF FlightInv, IInv
<1>7. CountInv'
  BY <1>1, <1>2, PickEffect DEF CountInv, IInv, InFlightOf, Eligible
<1>8. DoneInv'
  <2>1. Lost' \subseteq Lost
    BY <1>1, PickEffect DEF Lost, Handed
  <2>2. QED
    BY <1>1, <1>3, <2>1, PickEffect DEF DoneInv, IInv, ControlOK
<1>9. QED
  BY <1>3, <1>5, <1>6, <1>7, <1>8 DEF IInv

\* With nothing in flight every host is free, so an empty-handed next_job()
\* found its queues empty and the source at its end.
LEMMA NothingLeft ==
  ASSUME IInv, NoneEligible, inflight = {}
  PROVE  extra = <<>> /\ deferred = <<>> /\ pulled = Len(Source) /\ PullLimit = Len(Source)
<1>1. \A j \in Job : Eligible(j)
  <2>1. \A k \in Key : InFlightOf(k) = {}
    BY DEF InFlightOf
  <2>2. \A k \in Key : busy[k] = 0
    BY <2>1, FS_EmptySet DEF IInv, CountInv
  <2>3. QED
    BY <2>2, ConstantFacts, SchedulerAssumption DEF Eligible
<1>2. ASSUME NEW q \in Seq(Job), FirstEligible(q) = {} PROVE q = <<>>
  <2>1. SUFFICES ASSUME q # <<>> PROVE FALSE
    OBVIOUS
  <2>2. 1 \in DOMAIN q /\ q[1] \in Job
    BY <2>1, EmptySeq, LenProperties, ElementOfSeq
  <2>3. 1 \in FirstEligible(q)
    BY <1>1, <2>2 DEF FirstEligible
  <2>4. QED
    BY <1>2, <2>3
<1>3. extra = <<>> /\ deferred = <<>>
  BY <1>2 DEF IInv, TypeOK, NoneEligible
<1>4. ~(pulled + 1 <= PullLimit)
  <2>1. SUFFICES ASSUME pulled + 1 <= PullLimit PROVE FALSE
    OBVIOUS
  <2>2. /\ pulled + 1 \in pulled + 1 .. PullLimit /\ pulled + 1 \in 1 .. Len(Source)
        /\ pulled + 1 .. (pulled + 1) - 1 = {}
    BY <2>1, InvControl, PullFacts, ConstantFacts DEF IInv, TypeOK, ControlOK
  <2>3. pulled + 1 \in FirstPull
    BY <1>1, <2>2, ConstantFacts DEF FirstPull
  <2>4. QED
    BY <2>3 DEF NoneEligible
<1>5. Len(deferred) = 0 /\ Window \in Nat \ {0}
  BY <1>3, SchedulerAssumption
<1>6. PullLimit \in pulled .. Len(Source) /\ pulled \in 0 .. Len(Source) /\ Len(Source) \in Nat
      /\ (PullLimit < Len(Source) => PullLimit - pulled = Window - Len(deferred))
  BY InvControl, PullFacts, ConstantFacts DEF IInv, TypeOK, ControlOK
<1>7. pulled = PullLimit /\ PullLimit = Len(Source)
  BY <1>4, <1>5, <1>6
<1>8. QED
  BY <1>3, <1>7

\* The consumer waits, or returns with nothing left.
LEMMA LeaveFillInv == IInv /\ LeaveFill => IInv'
<1> SUFFICES ASSUME IInv, LeaveFill PROVE IInv'
  OBVIOUS
<1>1. UNCHANGED <<extra, popped, inflight, busy, finished, batch, fut, cancel, stats, added, yielded>>
  BY DEF LeaveFill
<1>2. pc = "fill" /\ popped = NoJob /\ pc' = IF inflight = {} THEN "returned" ELSE "get"
  BY DEF LeaveFill, NoneEligible, MayFill, AfterFill, IInv, QueuesInv
<1>3. TypeOK' /\ ControlOK'
  BY InvControl, LeaveFillType DEF IInv
<1>4. FlightInv'
  BY <1>1, <1>2 DEF FlightInv, IInv
<1>5. CountInv'
  BY <1>1, <1>2 DEF CountInv, IInv, InFlightOf
<1>6. CASE UNCHANGED <<deferred, pulled>>
  <2>1. UNCHANGED <<Waiting, Pulled, Handed, Lost>>
    BY <1>1, <1>6 DEF Waiting, Pulled, Handed, Lost
  <2>2. QueuesInv'
    BY <1>1, <1>2, <1>6, <2>1 DEF QueuesInv, IInv
  <2>3. pc' = "returned" => cancel \/ NoneEligible
    <3>1. SUFFICES ASSUME inflight = {} PROVE cancel \/ NoneEligible
      BY <1>2
    <3>2. ~(Cardinality(inflight) >= Workers)
      BY <3>1, FS_EmptySet, SchedulerAssumption
    <3>3. QED
      BY <3>2, Zenon DEF LeaveFill
  <2>4. pc' = "returned" /\ ~cancel' => inflight' = {} /\ Waiting' = {} /\ pulled' = Len(Source)
    <3>1. SUFFICES ASSUME pc' = "returned", ~cancel
                   PROVE  inflight = {} /\ Waiting = {} /\ pulled = Len(Source)
      BY <1>1, <1>6, <2>1
    <3>2. inflight = {} /\ NoneEligible
      BY <1>2, <2>3, <3>1
    <3>3. QED
      BY <1>2, <3>2, NothingLeft DEF Waiting, ToSet
  <2>5. DoneInv'
    BY <1>1, <1>3, <2>1, <2>4 DEF DoneInv, IInv, ControlOK
  <2>6. QED
    BY <1>3, <1>4, <1>5, <2>2, <2>5 DEF IInv
<1>7. CASE NoneEligible
  <2>1. /\ deferred' = deferred \o SubSeq(Source, pulled + 1, PullLimit)
        /\ pulled' = PullLimit
    BY <1>7 DEF NoneEligible
  <2>2. PullLimit \in pulled .. Len(Source)
    BY InvControl, PullFacts DEF IInv, ControlOK
  <2> DEFINE new == {Source[h] : h \in pulled + 1 .. PullLimit}
  <2>3. IsInjective(deferred') /\ ToSet(deferred') = ToSet(deferred) \cup new
    BY <2>1, <2>2, DeferFacts
  <2>4. Pulled' = Pulled \cup new
    BY <2>1, <2>2, PulledGrows
  <2>5. \A j \in new : fut[j] = "new"
    <3>1. \A h \in pulled + 1 .. PullLimit : h \in pulled + 1 .. Len(Source)
      BY <2>2, ConstantFacts DEF IInv, TypeOK
    <3>2. QED
      BY <3>1, NotPulledFacts
  <2>6. Waiting' = Waiting \cup new /\ Handed' = Handed \cup new
    BY <1>1, <2>3, <2>4 DEF Waiting, Handed
  <2>7. Lost' = Lost \ new /\ Lost' \subseteq Lost
    BY <1>1, <2>6 DEF Lost
  <2> HIDE DEF new
  <2>8. QueuesInv'
    BY <1>1, <1>2, <2>3, <2>4, <2>5, <2>6 DEF QueuesInv, IInv
  <2>9. pc' = "returned" => inflight' = {} /\ Waiting' = {} /\ pulled' = Len(Source)
    <3>1. SUFFICES ASSUME inflight = {} PROVE Waiting' = {} /\ pulled' = Len(Source)
      BY <1>1, <1>2
    <3>2. extra = <<>> /\ deferred = <<>> /\ pulled = Len(Source) /\ PullLimit = Len(Source)
      BY <1>7, <3>1, NothingLeft
    <3>3. new = {}
      BY <3>2, ConstantFacts DEF new
    <3>4. Waiting = {}
      BY <1>2, <3>2 DEF Waiting, ToSet
    <3>5. QED
      BY <2>1, <2>6, <3>2, <3>3, <3>4
  <2>10. DoneInv'
    BY <1>1, <1>3, <2>7, <2>9 DEF DoneInv, IInv, ControlOK
  <2>11. QED
    BY <1>3, <1>4, <1>5, <2>8, <2>10 DEF IInv
<1>8. QED
  BY <1>6, <1>7 DEF LeaveFill

\* One more, or one less, job of a key in flight.
LEMMA CountFacts ==
  ASSUME IInv
  PROVE  /\ IsFiniteSet(inflight) /\ Cardinality(inflight) \in Nat
         /\ \A j \in Job \ inflight : Cardinality(inflight \cup {j}) = Cardinality(inflight) + 1
         /\ \A j \in inflight : Cardinality(inflight \ {j}) = Cardinality(inflight) - 1
         /\ \A k \in Key : busy[k] \in Nat
<1>1. IsFiniteSet(inflight)
  BY FS_Subset, SchedulerAssumption DEF IInv, TypeOK
<1>2. Cardinality(inflight) \in Nat
  BY <1>1, FS_CardinalityType
<1>3. ASSUME NEW j \in Job \ inflight
      PROVE  Cardinality(inflight \cup {j}) = Cardinality(inflight) + 1
  BY <1>1, <1>3, FS_AddElement
<1>4. ASSUME NEW j \in inflight
      PROVE  Cardinality(inflight \ {j}) = Cardinality(inflight) - 1
  BY <1>1, <1>4, FS_RemoveElement
<1>5. ASSUME NEW k \in Key PROVE busy[k] \in Nat
  <2>1. IsFiniteSet(InFlightOf(k))
    BY <1>1, FS_Subset DEF InFlightOf
  <2>2. QED
    BY <2>1, FS_CardinalityType DEF IInv, CountInv
<1>6. QED
  BY <1>1, <1>2, <1>3, <1>4, <1>5

\* The popped job comes in flight, and is counted.
LEMMA SubmitInv == IInv /\ Submit => IInv'
<1> SUFFICES ASSUME IInv, Submit PROVE IInv'
  OBVIOUS
<1> DEFINE j == popped
<1>1. UNCHANGED <<pulled, deferred, extra, finished, batch, cancel, added, yielded>>
  BY DEF Submit
<1>2. /\ pc = "submit" /\ j \in Job /\ j # NoJob /\ KeyOf[j] \in Key
      /\ Cardinality(inflight) < Workers /\ Eligible(j)
      /\ j \in Waiting /\ fut[j] = "new" /\ j \notin inflight /\ j \in Handed
  <2>1. pc = "submit" /\ j # NoJob /\ j \in Waiting
    BY DEF Submit, IInv, QueuesInv, Waiting
  <2>2. QED
    BY <2>1, ConstantFacts DEF IInv, TypeOK, QueuesInv, FlightInv, CountInv
<1>3. /\ fut' = [fut EXCEPT ![j] = "queued"] /\ inflight' = inflight \cup {j}
      /\ busy' = [busy EXCEPT ![KeyOf[j]] = @ + 1] /\ popped' = NoJob /\ pc' = "fill"
  BY DEF Submit, Held
<1>4. TypeOK' /\ ControlOK'
  BY InvControl, ConsumerType DEF IInv
<1>5. \A i \in Job : fut'[i] = IF i = j THEN "queued" ELSE fut[i]
  BY <1>3 DEF IInv, TypeOK
<1>6. /\ Waiting' = ToSet(extra) \cup ToSet(deferred) /\ Waiting = Waiting' \cup {j}
      /\ j \notin Waiting' /\ Handed' = Handed /\ Pulled' = Pulled
  BY <1>1, <1>2, <1>3 DEF Waiting, Handed, Pulled, IInv, QueuesInv
<1>7. Waiting' \subseteq Job
  <2>1. ToSet(extra) \subseteq Job /\ ToSet(deferred) \subseteq Job
    BY ElementOfSeq DEF IInv, TypeOK, ToSet
  <2>2. QED
    BY <1>6, <2>1
<1>8. QueuesInv'
  BY <1>1, <1>2, <1>3, <1>5, <1>6, <1>7 DEF QueuesInv, IInv
<1>9. FlightInv'
  <2>1. \A i \in ToSet(finished) \cup ToSet(batch) : i \in inflight /\ i \in Job /\ i # j
    BY <1>2 DEF IInv, TypeOK, FlightInv
  <2>2. \A i \in yielded : i \in Job /\ i # j
    <3>1. "new" \notin Result
      BY ConstantFacts
    <3>2. QED
      BY <1>2, <3>1 DEF IInv, TypeOK, FlightInv
  <2>3. QED
    BY <1>1, <1>2, <1>3, <1>5, <2>1, <2>2 DEF FlightInv, IInv, TypeOK
<1>10. CountInv'
  <2>1. Cardinality(inflight') = Cardinality(inflight) + 1
    BY <1>2, <1>3, CountFacts
  <2>2. Cardinality(inflight') <= Workers
    BY <1>2, <2>1, CountFacts, SchedulerAssumption
  <2>3. ASSUME NEW k \in Key
        PROVE  busy'[k] = Cardinality(InFlightOf(k)') /\ busy'[k] <= PerKey
    <3>1. CASE k = KeyOf[j]
      <4>1. InFlightOf(k)' = InFlightOf(k) \cup {j} /\ j \notin InFlightOf(k)
        BY <1>2, <1>3, <3>1 DEF InFlightOf
      <4>2. IsFiniteSet(InFlightOf(k))
        BY CountFacts, FS_Subset DEF InFlightOf
      <4>3. Cardinality(InFlightOf(k)') = Cardinality(InFlightOf(k)) + 1
        BY <4>1, <4>2, FS_AddElement
      <4>4. busy'[k] = busy[k] + 1 /\ busy[k] < PerKey /\ busy[k] \in Nat
        BY <1>2, <1>3, <3>1, CountFacts DEF IInv, TypeOK, Eligible
      <4>5. QED
        BY <4>3, <4>4, SchedulerAssumption DEF IInv, CountInv
    <3>2. CASE k # KeyOf[j]
      <4>1. InFlightOf(k)' = InFlightOf(k)
        BY <1>3, <3>2 DEF InFlightOf
      <4>2. busy'[k] = busy[k]
        BY <1>3, <3>2 DEF IInv, TypeOK
      <4>3. QED
        BY <4>1, <4>2 DEF IInv, CountInv
    <3>3. QED
      BY <3>1, <3>2
  <2>4. QED
    BY <1>3, <2>2, <2>3 DEF CountInv
<1>11. DoneInv'
  <2>1. Lost' = Lost
    BY <1>1, <1>3, <1>6 DEF Lost
  <2>2. QED
    BY <1>1, <1>3, <1>4, <2>1 DEF DoneInv, IInv, ControlOK
<1>12. QED
  BY <1>4, <1>8, <1>9, <1>10, <1>11 DEF IInv

\* The steps that only move the control, with what they do to the queues.
LEMMA ControlInv == IInv /\ (Refused \/ Get \/ Timeout \/ SetCancel) => IInv'
<1> SUFFICES ASSUME IInv, Refused \/ Get \/ Timeout \/ SetCancel PROVE IInv'
  OBVIOUS
<1>1. UNCHANGED <<pulled, deferred, extra, inflight, busy, fut, added, yielded>>
  BY DEF Refused, Get, Timeout, SetCancel, consumerVars
<1>2. TypeOK' /\ ControlOK'
  <2>1. TypeOK /\ ControlOK
    BY InvControl DEF IInv
  <2>2. CASE SetCancel
    BY <2>1, <2>2 DEF SetCancel, consumerVars, TypeOK, ControlOK
  <2>3. CASE Refused \/ Get \/ Timeout
    BY <2>1, <2>3, ConsumerType
  <2>4. QED
    BY <2>2, <2>3
<1>3. Pulled' = Pulled /\ Handed' = Handed
  BY <1>1 DEF Pulled, Handed
<1>4. CASE Refused
  <2>1. cancel /\ cancel' /\ popped' = NoJob /\ pc' \in {"returned", "get"} /\ UNCHANGED <<finished, batch>>
    BY <1>4 DEF Refused, AfterFill
  <2>2. Waiting' \subseteq Waiting
    BY <1>1, <2>1 DEF Waiting
  <2>3. QueuesInv'
    BY <1>1, <1>3, <2>1, <2>2 DEF QueuesInv, IInv
  <2>4. FlightInv' /\ CountInv' /\ DoneInv'
    BY <1>1, <1>2, <2>1 DEF FlightInv, CountInv, DoneInv, IInv, InFlightOf, ControlOK
  <2>5. QED
    BY <1>2, <2>3, <2>4 DEF IInv
<1>5. CASE Get
  <2>1. /\ popped = NoJob /\ popped' = NoJob /\ pc' = "deliver" /\ finished # <<>>
        /\ batch' = finished /\ finished' = <<>> /\ cancel' = cancel
    BY <1>5 DEF Get, IInv, QueuesInv
  <2>2. Waiting' = Waiting /\ Lost' = Lost
    BY <1>1, <1>3, <2>1 DEF Waiting, Lost
  <2>3. QueuesInv' /\ CountInv' /\ DoneInv'
    BY <1>1, <1>2, <1>3, <2>1, <2>2 DEF QueuesInv, CountInv, DoneInv, IInv, InFlightOf, ControlOK
  <2>4. ToSet(finished') = {} /\ IsInjective(finished')
    BY <2>1 DEF ToSet, IsInjective
  <2>5. FlightInv'
    BY <1>1, <2>1, <2>4 DEF FlightInv, IInv
  <2>6. QED
    BY <1>2, <2>3, <2>5 DEF IInv
<1>6. CASE Timeout
  <2>1. popped = NoJob /\ pc' = "fill" /\ UNCHANGED <<popped, finished, batch, cancel>>
    BY <1>6 DEF Timeout, IInv, QueuesInv
  <2>2. Waiting' = Waiting /\ Lost' = Lost
    BY <1>1, <1>3, <2>1 DEF Waiting, Lost
  <2>3. QED
    BY <1>1, <1>2, <1>3, <2>1, <2>2 DEF IInv, QueuesInv, FlightInv, CountInv, DoneInv, InFlightOf, ControlOK
<1>7. CASE SetCancel
  <2>1. cancel' = TRUE /\ UNCHANGED <<pc, popped, finished, batch>>
    BY <1>7 DEF SetCancel, consumerVars
  <2>2. Waiting' = Waiting
    BY <1>1, <2>1 DEF Waiting
  <2>3. QED
    BY <1>1, <1>2, <1>3, <2>1, <2>2 DEF IInv, QueuesInv, FlightInv, CountInv, DoneInv, InFlightOf, ControlOK, Eligible
<1>8. QED
  BY <1>4, <1>5, <1>6, <1>7

\* The types after a delivery.
LEMMA DeliverType ==
  ASSUME IInv, NEW adds \in FollowUps, Deliver(adds)
  PROVE  TypeOK' /\ ControlOK'
<1> DEFINE j == Head(batch)
<1>1. pc = "deliver" /\ batch \in Seq(Job) /\ batch # <<>>
  BY InvControl DEF Deliver, IInv, TypeOK, ControlOK
<1>2. j \in Job /\ Tail(batch) \in Seq(Job)
  BY <1>1, TailFacts
<1>3. adds \in Seq(Job) /\ ToSet(adds) \subseteq Job
  BY FollowUpFacts
<1>4. extra' \in Seq(Job)
  BY <1>3, ConcatProperties DEF Deliver, IInv, TypeOK
<1>5. KeyOf[j] \in Key
  BY <1>2, ConstantFacts
<1>6. busy' \in [Key -> Nat]
  <2>1. j \in InFlightOf(KeyOf[j])
    BY <1>1, TailFacts DEF IInv, FlightInv, InFlightOf
  <2>2. IsFiniteSet(InFlightOf(KeyOf[j]))
    BY CountFacts, FS_Subset DEF InFlightOf
  <2>3. Cardinality(InFlightOf(KeyOf[j])) # 0
    BY <2>1, <2>2, FS_EmptySet
  <2>4. busy[KeyOf[j]] \in Nat \ {0}
    BY <1>5, <2>3, CountFacts DEF IInv, CountInv
  <2>5. busy \in [Key -> Nat] /\ busy' = [busy EXCEPT ![KeyOf[j]] = @ - 1]
    BY DEF Deliver, IInv, TypeOK
  <2> HIDE DEF j
  <2>6. busy[KeyOf[j]] - 1 \in Nat
    BY <2>4
  <2>7. QED
    BY <1>5, <2>5, <2>6
<1>7. stats' \in [{"submitted", "completed", "failed", "cancelled", "peak_inflight"} -> Int]
  BY DEF Deliver, IInv, TypeOK, Counter
<1>8. inflight' \subseteq Job /\ yielded' \subseteq Job /\ added' \subseteq Job /\ batch' \in Seq(Job)
  BY <1>2, <1>3 DEF Deliver, IInv, TypeOK
<1>9. pc' \in {"fill", "deliver"} /\ (pc' = "deliver" => batch' # <<>>)
  BY DEF Deliver
<1>10. /\ TypeOK
       /\ UNCHANGED <<pulled, deferred, popped, finished, fut, cancel>>
  BY DEF Deliver, IInv
<1>11. TypeOK'
  BY <1>4, <1>6, <1>7, <1>8, <1>9, <1>10 DEF TypeOK
<1>12. QED
  BY <1>9, <1>10, <1>11, InvControl DEF ControlOK

\* A job leaves the flight and is yielded; what the caller adds is new.
LEMMA DeliverInv ==
  ASSUME IInv, NEW adds \in FollowUps, Deliver(adds)
  PROVE  IInv'
<1> DEFINE j == Head(batch)
<1>1. /\ pc = "deliver" /\ popped = NoJob /\ batch \in Seq(Job) /\ batch # <<>>
      /\ inflight' = inflight \ {j} /\ busy' = [busy EXCEPT ![KeyOf[j]] = @ - 1]
      /\ yielded' = yielded \cup {j} /\ batch' = Tail(batch)
      /\ extra' = extra \o adds /\ added' = added \cup ToSet(adds)
      /\ pc' = (IF Tail(batch) = <<>> THEN "fill" ELSE "deliver")
      /\ UNCHANGED <<pulled, deferred, popped, finished, fut, cancel>>
  BY DEF Deliver, IInv, TypeOK, FlightInv, QueuesInv
<1>2. TypeOK' /\ ControlOK'
  BY DeliverType
<1>3. /\ j \in Job /\ j \in ToSet(batch) /\ IsInjective(batch')
      /\ ToSet(batch') = ToSet(batch) \ {j}
  BY <1>1, TailFacts DEF IInv, FlightInv
<1>4. j \in inflight /\ fut[j] \in Result /\ KeyOf[j] \in Key
  BY <1>3, ConstantFacts DEF IInv, FlightInv
<1>5. /\ IsInjective(extra') /\ ToSet(extra') = ToSet(extra) \cup ToSet(adds)
      /\ ToSet(adds) \cap (SourceJobs \cup added) = {} /\ ToSet(adds) \subseteq Job
  <2>1. /\ adds \in Seq(Job) /\ IsInjective(adds) /\ ToSet(adds) \subseteq Job
        /\ ToSet(adds) \cap (SourceJobs \cup added) = {}
    BY FollowUpFacts
  <2>2. extra \in Seq(Job) /\ IsInjective(extra) /\ ToSet(extra) \cap ToSet(adds) = {}
    BY <2>1 DEF IInv, TypeOK, QueuesInv
  <2>3. QED
    BY <1>1, <2>1, <2>2, ConcatFacts
<1>6. Pulled' = Pulled /\ Handed' = Handed \cup ToSet(adds) /\ Waiting' = Waiting \cup ToSet(adds)
  BY <1>1, <1>5 DEF Pulled, Handed, Waiting
<1>7. Pulled \subseteq SourceJobs
  <2>1. \A i \in 1 .. pulled : i \in DOMAIN Source
    BY ConstantFacts DEF IInv, TypeOK
  <2>2. QED
    BY <2>1 DEF Pulled, SourceJobs, ToSet
<1>8. \A i \in ToSet(adds) : fut[i] = "new"
  BY <1>5, <1>7 DEF IInv, QueuesInv, Handed
<1>9. QueuesInv'
  BY <1>1, <1>5, <1>6, <1>8 DEF QueuesInv, IInv
<1>10. FlightInv'
  <2>1. \A i \in ToSet(finished) : i # j
    BY <1>3 DEF IInv, FlightInv
  <2>2. \A i \in Job : fut[i] \in {"queued", "running"} => i # j
    BY <1>4, ConstantFacts
  <2>3. pc' = "deliver" => batch' # <<>>
    BY <1>1
  <2> HIDE DEF j
  <2>4. /\ \A i \in Job : fut'[i] \in {"queued", "running"} => i \in inflight'
        /\ \A i \in inflight' : fut'[i] # "new"
    BY <1>1, <2>2 DEF FlightInv, IInv
  <2>5. ToSet(finished') \cap ToSet(batch') = {}
    BY <1>1, <1>3 DEF FlightInv, IInv
  <2>6. \A i \in ToSet(finished') \cup ToSet(batch') : i \in inflight' /\ fut'[i] \in Result
    BY <1>1, <1>3, <2>1 DEF FlightInv, IInv
  <2>7. \A i \in yielded' : fut'[i] \in Result /\ i \notin inflight'
    BY <1>1, <1>4 DEF FlightInv, IInv
  <2>8. IsInjective(finished') /\ IsInjective(batch')
    BY <1>1, <1>3 DEF FlightInv, IInv
  <2>9. QED
    BY <2>3, <2>4, <2>5, <2>6, <2>7, <2>8 DEF FlightInv
<1>11. CountInv'
  <2>1. Cardinality(inflight') <= Workers
    <3>1. Cardinality(inflight') = Cardinality(inflight) - 1 /\ Cardinality(inflight) \in Nat
      BY <1>1, <1>4, CountFacts
    <3>2. Cardinality(inflight) <= Workers /\ Workers \in Nat
      BY SchedulerAssumption DEF IInv, CountInv
    <3>3. QED
      BY <3>1, <3>2
  <2>2. ASSUME NEW k \in Key
        PROVE  busy'[k] = Cardinality(InFlightOf(k)') /\ busy'[k] <= PerKey
    <3>1. CASE k = KeyOf[j]
      <4>1. InFlightOf(k)' = InFlightOf(k) \ {j} /\ j \in InFlightOf(k)
        BY <1>1, <1>4, <3>1 DEF InFlightOf
      <4>2. IsFiniteSet(InFlightOf(k))
        BY CountFacts, FS_Subset DEF InFlightOf
      <4>3. Cardinality(InFlightOf(k)') = Cardinality(InFlightOf(k)) - 1
        BY <4>1, <4>2, FS_RemoveElement
      <4>4. busy'[k] = busy[k] - 1 /\ busy[k] \in Nat
        BY <1>1, <3>1, CountFacts DEF IInv, TypeOK
      <4>5. QED
        BY <4>3, <4>4, SchedulerAssumption DEF IInv, CountInv
    <3>2. CASE k # KeyOf[j]
      <4>1. InFlightOf(k)' = InFlightOf(k)
        BY <1>1, <3>2 DEF InFlightOf
      <4>2. busy'[k] = busy[k]
        BY <1>1, <3>2 DEF IInv, TypeOK
      <4>3. QED
        BY <4>1, <4>2 DEF IInv, CountInv
    <3>3. QED
      BY <3>1, <3>2
  <2>3. QED
    BY <1>1, <2>1, <2>2 DEF CountInv
<1>12. DoneInv'
  <2>1. inflight' \cup yielded' = inflight \cup yielded
    BY <1>1, <1>4
  <2>2. Lost' \subseteq Lost
    BY <1>6, <2>1 DEF Lost
  <2>3. QED
    BY <1>1, <1>2, <2>2 DEF DoneInv, IInv, ControlOK
<1>13. QED
  BY <1>2, <1>9, <1>10, <1>11, <1>12 DEF IInv

\* A caller that stops early cancels the run.
LEMMA CloseInv == IInv /\ Close => IInv'
<1> SUFFICES ASSUME IInv, Close PROVE IInv'
  OBVIOUS
<1>1. /\ pc' = "closed"
      /\ fut' = [j \in Job |-> IF j \in inflight /\ fut[j] = "queued" THEN "discarded" ELSE fut[j]]
      /\ UNCHANGED <<pulled, deferred, extra, popped, inflight, busy, finished, batch, cancel,
                     stats, added, yielded>>
  BY DEF Close
<1>2. TypeOK' /\ ControlOK'
  BY InvControl, ConsumerType DEF IInv
<1>3. UNCHANGED <<Pulled, Handed, Waiting, Lost>>
  BY <1>1 DEF Pulled, Handed, Waiting, Lost
<1>4. \A j \in Job : /\ fut'[j] \in {"queued", "running"} => fut[j] \in {"queued", "running"}
                     /\ fut'[j] = "new" <=> fut[j] = "new"
                     /\ fut[j] \in Result => fut'[j] = fut[j]
  BY <1>1, ConstantFacts
<1>5. Waiting \subseteq Job
  <2>1. ToSet(extra) \subseteq Job /\ ToSet(deferred) \subseteq Job
    BY ElementOfSeq DEF IInv, TypeOK, ToSet
  <2>2. QED
    BY <2>1 DEF Waiting, IInv, TypeOK
<1>6. QueuesInv'
  BY <1>1, <1>3, <1>4, <1>5 DEF QueuesInv, IInv
<1>7. FlightInv'
  BY <1>1, <1>4 DEF FlightInv, IInv, TypeOK
<1>8. CountInv' /\ DoneInv'
  BY <1>1, <1>2, <1>3 DEF CountInv, DoneInv, IInv, InFlightOf, ControlOK
<1>9. QED
  BY <1>2, <1>6, <1>7, <1>8 DEF IInv

\* A worker moves one future, which is in flight.
LEMMA WorkerInv ==
  ASSUME IInv, NEW j \in Job, Worker(j)
  PROVE  IInv'
<1>1. /\ fut[j] \in {"queued", "running"}
      /\ UNCHANGED <<consumerVars, cancel>>
      /\ \/ fut' = [fut EXCEPT ![j] = "running"] /\ UNCHANGED finished
         \/ \E r \in Result : fut' = [fut EXCEPT ![j] = r] /\ finished' = Append(finished, j)
  BY ConstantFacts DEF Worker, Start, Finish, Completed
<1>2. TypeOK' /\ ControlOK'
  BY InvControl, WorkerType DEF IInv
<1>3. UNCHANGED <<pc, pulled, deferred, extra, popped, inflight, busy, batch, added, yielded, cancel>>
  BY <1>1 DEF consumerVars
<1>4. UNCHANGED <<Pulled, Handed, Waiting, Lost>>
  BY <1>3 DEF Pulled, Handed, Waiting, Lost
<1>5. \A i \in Job : i # j => fut'[i] = fut[i]
  BY <1>1 DEF IInv, TypeOK
<1>6. j \in inflight /\ j \in Handed
  BY <1>1 DEF IInv, FlightInv, QueuesInv
<1>7. fut'[j] \in Result \cup {"running"} /\ fut'[j] # "new"
  BY <1>1, ConstantFacts DEF IInv, TypeOK
<1>8. Waiting \subseteq Job /\ j \notin Waiting
  <2>1. ToSet(extra) \subseteq Job /\ ToSet(deferred) \subseteq Job
    BY ElementOfSeq DEF IInv, TypeOK, ToSet
  <2>2. QED
    BY <1>1, <2>1 DEF Waiting, IInv, TypeOK, QueuesInv
<1>9. QueuesInv'
  BY <1>3, <1>4, <1>5, <1>6, <1>8 DEF QueuesInv, IInv
<1>10. FlightInv'
  <2>1. j \notin ToSet(finished) \cup ToSet(batch) /\ j \notin yielded
    BY <1>1, ConstantFacts DEF IInv, FlightInv
  <2>2. \A i \in ToSet(finished) \cup ToSet(batch) \cup inflight \cup yielded : i \in Job
    BY ElementOfSeq DEF IInv, TypeOK, ToSet
  <2>3. CASE finished' = finished
    BY <1>3, <1>5, <1>6, <1>7, <2>1, <2>2, <2>3 DEF FlightInv, IInv
  <2>4. CASE finished' = Append(finished, j) /\ fut'[j] \in Result
    <3>1. IsInjective(finished') /\ ToSet(finished') = ToSet(finished) \cup {j}
      BY <2>1, <2>4, AppendFacts DEF IInv, TypeOK, FlightInv
    <3>2. QED
      BY <1>3, <1>5, <1>6, <1>7, <2>1, <2>2, <2>4, <3>1 DEF FlightInv, IInv
  <2>5. QED
    BY <1>1, <2>3, <2>4 DEF IInv, TypeOK
<1>11. CountInv' /\ DoneInv'
  BY <1>2, <1>3, <1>4 DEF CountInv, DoneInv, IInv, InFlightOf, ControlOK, Eligible
<1>12. QED
  BY <1>2, <1>9, <1>10, <1>11 DEF IInv

\* The inductive invariant holds in every reachable state.
THEOREM InvariantHolds == Spec => []IInv
<1>1. Init => IInv
  BY InitInv
<1>2. IInv /\ [Next]_vars => IInv'
  <2> SUFFICES ASSUME IInv, [Next]_vars PROVE IInv'
    OBVIOUS
  <2>1. CASE Pick
    BY <2>1, PickInv
  <2>2. CASE LeaveFill
    BY <2>2, LeaveFillInv
  <2>3. CASE Submit
    BY <2>3, SubmitInv
  <2>4. CASE Refused \/ Get \/ Timeout \/ SetCancel
    BY <2>4, ControlInv
  <2>5. CASE \E adds \in FollowUps : Deliver(adds)
    BY <2>5, DeliverInv
  <2>6. CASE Close
    BY <2>6, CloseInv
  <2>7. CASE \E j \in Job : Worker(j)
    BY <2>7, WorkerInv
  <2>8. CASE UNCHANGED vars
    <3>1. UNCHANGED <<Pulled, Handed, Waiting, Lost>>
      BY <2>8 DEF vars, Pulled, Handed, Waiting, Lost
    <3>2. TypeOK'
      BY <2>8 DEF vars, IInv, TypeOK
    <3>3. QED
      BY <2>8, <3>1, <3>2 DEF vars, IInv, QueuesInv, FlightInv, CountInv, DoneInv, InFlightOf, Eligible
  <2>9. QED
    BY <2>1, <2>2, <2>3, <2>4, <2>5, <2>6, <2>7, <2>8 DEF Next, Consumer, Terminated
<1>3. QED
  BY <1>1, <1>2, PTL DEF Spec

-----------------------------------------------------------------------------
(* What the invariant shows.                                               *)

\* Every variable keeps its type: no host's count of running jobs goes negative.
THEOREM TypeCorrect == Spec => []TypeOK
<1>1. IInv => TypeOK
  BY DEF IInv
<1>2. QED
  BY <1>1, InvariantHolds, PTL

\* However many hosts, jobs and workers there are: never more than Workers jobs
\* are in the pool, and never more than PerKey of one host are queued or running.
THEOREM LimitsAlwaysHold == Spec => []LimitsHold
<1>1. IInv => LimitsHold
  <2> SUFFICES ASSUME IInv PROVE LimitsHold
    OBVIOUS
  <2>1. ASSUME NEW k \in Key
        PROVE  Cardinality({j \in Job : KeyOf[j] = k /\ fut[j] \in {"queued", "running"}}) <= PerKey
    <3> DEFINE active == {j \in Job : KeyOf[j] = k /\ fut[j] \in {"queued", "running"}}
    <3>1. active \subseteq InFlightOf(k) /\ IsFiniteSet(InFlightOf(k))
      BY CountFacts, FS_Subset DEF IInv, FlightInv, InFlightOf
    <3>2. /\ Cardinality(active) <= Cardinality(InFlightOf(k))
          /\ Cardinality(active) \in Nat /\ Cardinality(InFlightOf(k)) \in Nat
      BY <3>1, FS_Subset, FS_CardinalityType
    <3>3. QED
      BY <3>2, SchedulerAssumption DEF IInv, CountInv
  <2>2. QED
    BY <2>1 DEF LimitsHold, IInv, CountInv
<1>2. QED
  BY <1>1, InvariantHolds, PTL

\* An iteration that ends without cancellation has yielded every job of the
\* source and every follow-up job: no host is left out of a complete scan.
THEOREM CompleteReturns == Spec => []ReturnsOnlyWhenDone
<1>1. IInv => ReturnsOnlyWhenDone
  <2> SUFFICES ASSUME IInv, pc = "returned", ~cancel
               PROVE  yielded = SourceJobs \cup added
    BY DEF ReturnsOnlyWhenDone
  <2>1. inflight = {} /\ Waiting = {} /\ pulled = Len(Source) /\ Lost = {}
    BY DEF IInv, DoneInv
  <2>2. Handed = SourceJobs \cup added
    BY <2>1, ConstantFacts DEF Handed, Pulled, SourceJobs, ToSet
  <2>3. Handed \subseteq yielded
    BY <2>1 DEF Lost
  <2>4. yielded \subseteq Handed
    <3>1. "new" \notin Result
      BY ConstantFacts
    <3>2. QED
      BY <3>1 DEF IInv, TypeOK, FlightInv, QueuesInv
  <2>5. QED
    BY <2>2, <2>3, <2>4
<1>2. QED
  BY <1>1, InvariantHolds, PTL

-----------------------------------------------------------------------------
(* No worker idles.                                                        *)

\* take_eligible finds a job of the queue whenever one of them could start.
LEMMA EligibleFound ==
  ASSUME NEW q \in Seq(Job), FirstEligible(q) = {}
  PROVE  \A j \in ToSet(q) : ~Eligible(j)
<1> DEFINE could == {i \in DOMAIN q : Eligible(q[i])}
<1>1. DOMAIN q = 1 .. Len(q) /\ Len(q) \in Nat
  BY LenProperties
<1>2. could = {}
  <2>1. SUFFICES ASSUME could # {} PROVE FALSE
    OBVIOUS
  <2>2. could \subseteq Nat
    BY <1>1
  <2>3. PICK n \in could : \A m \in could : n <= m
    BY <2>1, <2>2, LeastNatural
  <2>4. \A h \in 1 .. n - 1 : h \in DOMAIN q /\ ~(n <= h)
    BY <1>1, <2>3
  <2>5. n \in FirstEligible(q)
    BY <2>3, <2>4 DEF FirstEligible
  <2>6. QED
    BY <2>5
<1>3. QED
  BY <1>2 DEF ToSet

\* And so does the walk along the source, as far as the window lets it go.
LEMMA PullFound ==
  ASSUME IInv, FirstPull = {}
  PROVE  \A i \in pulled + 1 .. PullLimit : ~Eligible(Source[i])
<1> DEFINE could == {i \in pulled + 1 .. PullLimit : Eligible(Source[i])}
<1>1. pulled \in Nat /\ PullLimit \in Int
  BY InvControl, PullFacts, ConstantFacts DEF IInv, TypeOK, ControlOK
<1>2. could = {}
  <2>1. SUFFICES ASSUME could # {} PROVE FALSE
    OBVIOUS
  <2>2. could \subseteq Nat
    BY <1>1
  <2>3. PICK n \in could : \A m \in could : n <= m
    BY <2>1, <2>2, LeastNatural
  <2>4. \A h \in pulled + 1 .. n - 1 : h \in pulled + 1 .. PullLimit /\ ~(n <= h)
    BY <1>1, <2>2, <2>3
  <2>5. n \in FirstPull
    BY <2>3, <2>4 DEF FirstPull
  <2>6. QED
    BY <2>5
<1>3. QED
  BY <1>2

\* An empty-handed next_job() leaves nothing that could start in the queues, and
\* the source only when the window is full.
LEMMA NothingCouldStart ==
  ASSUME IInv, NoneEligible, UNCHANGED <<extra, popped, inflight, busy>>
  PROVE  /\ \A j \in Waiting' : ~Eligible(j)'
         /\ pulled' < Len(Source) => Len(deferred') >= Window
<1>1. popped = NoJob /\ FirstEligible(extra) = {} /\ FirstEligible(deferred) = {} /\ FirstPull = {}
  BY DEF NoneEligible, MayFill, IInv, QueuesInv
<1>2. /\ deferred' = deferred \o SubSeq(Source, pulled + 1, PullLimit)
      /\ pulled' = PullLimit
  BY DEF NoneEligible
<1>3. /\ PullLimit \in pulled .. Len(Source) /\ Len(Source) \in Nat /\ pulled \in Nat
      /\ PullLimit < Len(Source) => PullLimit - pulled = Window - Len(deferred)
  BY InvControl, PullFacts, ConstantFacts DEF IInv, TypeOK, ControlOK
<1> DEFINE slice == SubSeq(Source, pulled + 1, PullLimit)
<1>4. /\ ToSet(slice) = {Source[i] : i \in pulled + 1 .. PullLimit}
      /\ slice \in Seq(Job) /\ Len(slice) = PullLimit - pulled
      /\ ToSet(deferred') = ToSet(deferred) \cup ToSet(slice)
  BY <1>2, <1>3, DeferFacts
<1>5. \A j \in ToSet(extra) \cup ToSet(deferred) \cup ToSet(slice) : ~Eligible(j)
  BY <1>1, <1>4, EligibleFound, PullFound DEF IInv, TypeOK
<1>6. \A j \in Waiting' : ~Eligible(j)
  BY <1>1, <1>4, <1>5 DEF Waiting
<1>7. \A j : Eligible(j)' <=> Eligible(j)
  BY DEF Eligible
<1>8. pulled' < Len(Source) => Len(deferred') >= Window
  <2>1. Len(deferred') = Len(deferred) + Len(slice) /\ Len(deferred) \in Nat
    BY <1>2, <1>4, ConcatProperties, LenProperties DEF IInv, TypeOK
  <2>2. QED
    BY <1>2, <1>3, <1>4, <2>1, SchedulerAssumption
<1>9. QED
  BY <1>6, <1>7, <1>8

\* The consumer never waits for a result with an idle worker while a job of its
\* queues could start, or the next of the source could be pulled.
THEOREM NoWorkerIdles == Spec => []NoIdleWorker
<1>1. Init => NoIdleWorker
  BY DEF Init, NoIdleWorker
<1>2. IInv /\ NoIdleWorker /\ [Next]_vars => NoIdleWorker'
  <2> SUFFICES ASSUME IInv, NoIdleWorker, [Next]_vars PROVE NoIdleWorker'
    OBVIOUS
  <2>1. CASE Pick
    BY <2>1 DEF Pick, PickExtra, PickDeferred, PickSource, Take, NoIdleWorker
  <2>2. CASE LeaveFill
    <3>1. UNCHANGED <<extra, popped, inflight, busy, cancel>>
      BY <2>2 DEF LeaveFill
    <3>2. CASE NoneEligible
      BY <3>1, <3>2, NothingCouldStart DEF NoIdleWorker
    <3>3. CASE cancel \/ Cardinality(inflight) >= Workers
      <4>1. Cardinality(inflight) \in Nat /\ Workers \in Nat
        BY SchedulerAssumption, FS_CardinalityType, CountFacts DEF IInv
      <4>2. QED
        BY <3>1, <3>3, <4>1 DEF NoIdleWorker
    <3>4. QED
      BY <2>2, <3>2, <3>3 DEF LeaveFill
  <2>3. CASE Submit \/ Get \/ Timeout \/ Close
    BY <2>3 DEF Submit, Get, Timeout, Close, NoIdleWorker
  <2>4. CASE Refused
    BY <2>4 DEF Refused, NoIdleWorker
  <2>5. CASE \E adds \in FollowUps : Deliver(adds)
    BY <2>5 DEF Deliver, NoIdleWorker
  <2>6. CASE \E j \in Job : Worker(j)
    <3>1. UNCHANGED <<consumerVars, cancel>>
      BY <2>6 DEF Worker, Start, Finish
    <3>2. UNCHANGED Waiting /\ \A j : Eligible(j)' <=> Eligible(j)
      BY <3>1 DEF consumerVars, Waiting, Eligible
    <3>3. QED
      BY <3>1, <3>2 DEF consumerVars, NoIdleWorker
  <2>7. CASE SetCancel
    BY <2>7 DEF SetCancel, NoIdleWorker
  <2>8. CASE UNCHANGED vars
    <3>1. UNCHANGED Waiting /\ \A j : Eligible(j)' <=> Eligible(j)
      BY <2>8 DEF vars, Waiting, Eligible
    <3>2. QED
      BY <2>8, <3>1 DEF vars, NoIdleWorker
  <2>9. QED
    BY <2>1, <2>2, <2>3, <2>4, <2>5, <2>6, <2>7, <2>8 DEF Next, Consumer, Terminated
<1>3. QED
  BY <1>1, <1>2, InvariantHolds, PTL DEF Spec

-----------------------------------------------------------------------------
(* Nothing is lost, and nothing is begun after cancel.                     *)

\* The three places where a job waits do not overlap.
LEMMA WaitingSize ==
  ASSUME IInv
  PROVE  Cardinality(Waiting) = Len(extra) + Len(deferred) + (IF popped = NoJob THEN 0 ELSE 1)
<1> DEFINE queued == ToSet(extra) \cup ToSet(deferred)
<1>1. /\ IsFiniteSet(ToSet(extra)) /\ Cardinality(ToSet(extra)) = Len(extra)
      /\ IsFiniteSet(ToSet(deferred)) /\ Cardinality(ToSet(deferred)) = Len(deferred)
  BY QueueSize DEF IInv, TypeOK, QueuesInv
<1>2. ToSet(extra) \cap ToSet(deferred) = {}
  <2>1. Pulled \subseteq SourceJobs
    <3>1. pulled \in 0 .. Len(Source)
      BY DEF IInv, TypeOK
    <3>2. 1 .. pulled \subseteq DOMAIN Source
      BY <3>1, ConstantFacts
    <3>3. QED
      BY <3>2 DEF Pulled, SourceJobs, ToSet
  <2>2. QED
    BY <2>1 DEF IInv, QueuesInv
<1>3. Len(extra) \in Nat /\ Len(deferred) \in Nat
  BY LenProperties DEF IInv, TypeOK
<1>4. IsFiniteSet(queued) /\ Cardinality(queued) = Len(extra) + Len(deferred)
  <2>1. Cardinality(ToSet(extra) \cap ToSet(deferred)) = 0
    BY <1>2, FS_EmptySet
  <2>2. /\ IsFiniteSet(queued)
        /\ Cardinality(queued) = Cardinality(ToSet(extra)) + Cardinality(ToSet(deferred))
                                    - Cardinality(ToSet(extra) \cap ToSet(deferred))
    BY <1>1, FS_Union, Zenon
  <2>3. QED
    BY <1>1, <1>3, <2>1, <2>2
<1>5. CASE popped = NoJob
  <2>1. Waiting = queued
    BY <1>5 DEF Waiting
  <2>2. QED
    BY <1>3, <1>4, <1>5, <2>1
<1>6. CASE popped # NoJob
  <2>1. Waiting = queued \cup {popped}
    BY <1>6 DEF Waiting
  <2>2. popped \notin queued
    BY <1>6 DEF IInv, QueuesInv
  <2>3. QED
    BY <1>3, <1>4, <1>6, <2>1, <2>2, FS_AddElement
<1>7. QED
  BY <1>5, <1>6

\* Whatever the interleaving, a job that was handed over waits in one place of
\* one queue, is in flight, or was yielded, and is lost only by a cancelled run.
THEOREM JobsAreConserved == Spec => []JobsConserved
<1>1. IInv => JobsConserved
  <2> SUFFICES ASSUME IInv PROVE JobsConserved
    OBVIOUS
  <2>1. "new" \notin Result
    BY ConstantFacts
  <2>2. Waiting \subseteq Handed
    BY DEF IInv, QueuesInv, Waiting, Handed
  <2>3. inflight \cup yielded \subseteq Handed
    BY <2>1 DEF IInv, TypeOK, QueuesInv, FlightInv
  <2>4. Waiting \cap inflight = {} /\ Waiting \cap yielded = {} /\ inflight \cap yielded = {}
    BY <2>1 DEF IInv, QueuesInv, FlightInv
  <2>5. Lost # {} => cancel
    BY DEF IInv, DoneInv
  <2>6. QED
    BY <2>2, <2>3, <2>4, <2>5, WaitingSize DEF JobsConserved
<1>2. QED
  BY <1>1, InvariantHolds, PTL

\* What may happen to a job in a step of a cancelled run.
StaysQuiet ==
  /\ popped' \in {popped, NoJob}
  /\ \A j \in Job : /\ fut[j] = "new" /\ fut'[j] # "new" => j = popped
                    /\ fut[j] # "running" => fut'[j] # "running"

\* Once the run is cancelled no job is picked and none begins to run, in any
\* interleaving of the generator, the workers and the caller.
THEOREM CancelStops == Spec => NothingNewAfterCancel
<1>1. IInv /\ [Next]_vars => [cancel => StaysQuiet]_vars
  <2> SUFFICES ASSUME IInv, [Next]_vars, cancel, vars' # vars PROVE StaysQuiet
    OBVIOUS
  <2>1. fut \in [Job -> FutState]
    BY DEF IInv, TypeOK
  <2>2. \A r \in Result : r \notin {"new", "running"}
    BY ConstantFacts
  <2>3. CASE LeaveFill \/ Refused \/ Get \/ Timeout
    BY <2>3 DEF LeaveFill, Refused, Get, Timeout, StaysQuiet
  <2>4. CASE Submit
    BY <2>1, <2>4 DEF Submit, StaysQuiet
  <2>5. CASE \E adds \in FollowUps : Deliver(adds)
    BY <2>5 DEF Deliver, StaysQuiet
  <2>6. CASE Close
    BY <2>1, <2>6 DEF Close, StaysQuiet
  <2>7. ASSUME NEW j \in Job, Worker(j) PROVE StaysQuiet
    <3>1. CASE Start(j)
      BY <2>1, <2>2, <3>1, ConstantFacts DEF Start, Completed, consumerVars, StaysQuiet
    <3>2. ASSUME NEW result \in Result, Finish(j, result) PROVE StaysQuiet
      BY <2>1, <2>2, <3>2 DEF Finish, Completed, consumerVars, StaysQuiet
    <3>3. QED
      BY <2>7, <3>1, <3>2 DEF Worker
  <2>8. ~Pick /\ ~SetCancel /\ ~Terminated
    BY DEF Pick, MayFill, SetCancel, Terminated
  <2>9. QED
    BY <2>3, <2>4, <2>5, <2>6, <2>7, <2>8 DEF Next, Consumer
<1>2. QED
  BY <1>1, InvariantHolds, PTL DEF Spec, NothingNewAfterCancel, StaysQuiet

-----------------------------------------------------------------------------
(* Scheduler implements JobPool: the generator with its queues, futures    *)
(* and batches keeps the promise of the abstract pool, for every value of  *)
(* the constants.                                                          *)

(* No result is forgotten.                                                 *)

\* A job that has its result is still in flight, or was yielded.
ResultInv == \A j \in Job : fut[j] \in Result => j \in inflight \cup yielded

\* No job has a result at the start ...
LEMMA ResultInit == Init => ResultInv
BY ConstantFacts DEF Init, ResultInv

\* ... and one that gets it is in flight.
LEMMA ResultStep == IInv /\ ResultInv /\ [Next]_vars => ResultInv'
<1> SUFFICES ASSUME IInv, ResultInv, [Next]_vars PROVE ResultInv'
  OBVIOUS
<1>1. fut \in [Job -> FutState] /\ \A r \in Result : r \notin {"new", "queued", "running", "discarded"}
  BY ConstantFacts DEF IInv, TypeOK
<1>2. CASE Pick \/ LeaveFill \/ Refused \/ Get \/ Timeout \/ SetCancel \/ UNCHANGED vars
  <2>1. UNCHANGED <<fut, inflight, yielded>>
    BY <1>2 DEF Pick, PickExtra, PickDeferred, PickSource, Take, LeaveFill, Refused, Get, Timeout,
                SetCancel, consumerVars, vars
  <2>2. QED
    BY <2>1 DEF ResultInv
<1>3. CASE Submit
  BY <1>1, <1>3 DEF Submit, ResultInv
<1>4. CASE \E adds \in FollowUps : Deliver(adds)
  <2>1. UNCHANGED fut /\ inflight' = inflight \ {Head(batch)} /\ yielded' = yielded \cup {Head(batch)}
    BY <1>4 DEF Deliver
  <2>2. QED
    BY <2>1 DEF ResultInv
<1>5. CASE Close
  BY <1>1, <1>5 DEF Close, ResultInv
<1>6. ASSUME NEW j \in Job, Worker(j) PROVE ResultInv'
  <2>1. j \in inflight
    BY <1>6 DEF Worker, Start, Finish, IInv, FlightInv
  <2>2. UNCHANGED <<inflight, yielded>>
    BY <1>6 DEF Worker, Start, Finish, consumerVars
  <2>3. \A i \in Job \ {j} : fut'[i] = fut[i]
    BY <1>1, <1>6 DEF Worker, Start, Finish, Completed
  <2>4. QED
    BY <2>1, <2>2, <2>3 DEF ResultInv
<1>7. QED
  BY <1>2, <1>3, <1>4, <1>5, <1>6 DEF Next, Consumer, Terminated

-----------------------------------------------------------------------------
(* What the pool sees.                                                     *)

\* The stages are what the futures and the yielded jobs say.
LEMMA StageFacts ==
  ASSUME IInv
  PROVE  \A j \in Job : /\ Stage[j] = "yielded" <=> j \in yielded
                        /\ Stage[j] = "idle" <=> fut[j] = "new"
                        /\ Stage[j] = "active" <=> fut[j] \in {"queued", "running"}
                        /\ Stage[j] = "done" <=> fut[j] \in Result /\ j \notin yielded
<1>1. fut \in [Job -> FutState] /\ \A r \in Result : r \notin {"new", "queued", "running", "discarded"}
  BY ConstantFacts DEF IInv, TypeOK
<1>2. \A j \in yielded : fut[j] \in Result
  BY DEF IInv, FlightInv
<1>3. QED
  BY <1>1, <1>2 DEF Stage, FutState

\* The instance counts as the Scheduler does.
LEMMA SameCount == \A S : Pool!Cardinality(S) = Cardinality(S)
BY DEF Pool!Cardinality, Cardinality

\* The jobs that take up the pool are in flight.
LEMMA PoolFacts ==
  ASSUME IInv, ResultInv
  PROVE  /\ Pool!At("active") \cup Pool!At("done") \subseteq inflight
         /\ \A k \in Key : Pool!ActiveOf(k) \subseteq InFlightOf(k)
<1>1. Pool!At("active") \cup Pool!At("done") \subseteq inflight
  BY StageFacts DEF Pool!At, IInv, FlightInv, ResultInv
<1>2. QED
  BY <1>1 DEF Pool!ActiveOf, InFlightOf

-----------------------------------------------------------------------------
(* The steps.                                                              *)

\* The start is the start of the pool.
LEMMA InitMaps == Init => Pool!PoolInit
<1> SUFFICES ASSUME Init PROVE Pool!PoolInit
  OBVIOUS
<1>1. Given \subseteq Job
  <2>1. SourceJobs \subseteq Job
    BY ConstantFacts DEF SourceJobs, ToSet
  <2>2. QED
    BY <2>1 DEF Init, Given
<1>2. Stage = [j \in Job |-> "idle"]
  BY DEF Init, Stage
<1>3. QED
  BY <1>1, <1>2 DEF Init, Pool!PoolInit, Ended

\* Submit puts the popped job to work, within both limits.
LEMMA SubmitBegins ==
  ASSUME IInv, ResultInv, Submit
  PROVE  Pool!Begin(popped)
<1>1. popped \in Job /\ fut[popped] = "new" /\ popped \in Given /\ popped \notin yielded
  <2>1. popped \in Waiting /\ popped \in Job /\ popped \in Handed
    BY DEF Submit, IInv, QueuesInv, Waiting, TypeOK
  <2>2. fut[popped] = "new" /\ "new" \notin Result
    BY <2>1, ConstantFacts DEF IInv, QueuesInv
  <2>3. Handed \subseteq Given
    <3>1. pulled \in 0 .. Len(Source)
      BY DEF IInv, TypeOK
    <3>2. 1 .. pulled \subseteq DOMAIN Source
      BY <3>1, ConstantFacts
    <3>3. QED
      BY <3>2 DEF Handed, Pulled, Given, SourceJobs, ToSet
  <2>4. QED
    BY <2>1, <2>2, <2>3 DEF IInv, FlightInv
<1>2. /\ IsFiniteSet(inflight) /\ Cardinality(inflight) < Workers
      /\ busy[KeyOf[popped]] < PerKey
  BY CountFacts DEF Submit, IInv, CountInv, Eligible
<1>3. Cardinality(Pool!At("active") \cup Pool!At("done")) < Workers
  <2>1. /\ Cardinality(Pool!At("active") \cup Pool!At("done")) <= Cardinality(inflight)
        /\ IsFiniteSet(Pool!At("active") \cup Pool!At("done"))
    BY <1>2, PoolFacts, FS_Subset
  <2>2. Cardinality(Pool!At("active") \cup Pool!At("done")) \in Nat /\ Cardinality(inflight) \in Nat
    BY <1>2, <2>1, FS_CardinalityType
  <2>3. QED
    BY <1>2, <2>1, <2>2, SchedulerAssumption
<1>4. Cardinality(Pool!ActiveOf(KeyOf[popped])) < PerKey
  <2> DEFINE k == KeyOf[popped]
  <2>1. k \in Key
    BY <1>1, ConstantFacts
  <2>2. IsFiniteSet(InFlightOf(k)) /\ busy[k] = Cardinality(InFlightOf(k))
    BY <1>2, <2>1, FS_Subset DEF InFlightOf, IInv, CountInv
  <2>3. /\ Cardinality(Pool!ActiveOf(k)) <= Cardinality(InFlightOf(k))
        /\ IsFiniteSet(Pool!ActiveOf(k))
    BY <2>1, <2>2, PoolFacts, FS_Subset
  <2>4. Cardinality(Pool!ActiveOf(k)) \in Nat /\ Cardinality(InFlightOf(k)) \in Nat
    BY <2>2, <2>3, FS_CardinalityType
  <2>5. QED
    BY <1>2, <2>2, <2>3, <2>4, SchedulerAssumption
<1>5. Stage' = [Stage EXCEPT ![popped] = "active"]
  <2>1. fut' = [fut EXCEPT ![popped] = "queued"] /\ UNCHANGED yielded
    BY DEF Submit
  <2>2. fut \in [Job -> FutState]
    BY DEF IInv, TypeOK
  <2>3. QED
    BY <1>1, <2>1, <2>2 DEF Stage
<1>6. Ended = "no" /\ UNCHANGED <<Given, cancel, Ended>>
  BY DEF Submit, Ended, Given
<1>7. Stage[popped] = "idle"
  BY <1>1, StageFacts
<1>8. QED
  BY <1>1, <1>3, <1>4, <1>5, <1>6, <1>7, SameCount DEF Pool!Begin

\* The generator returns when the pool is empty and, unless it was cancelled,
\* every job was yielded.
LEMMA ReturnReturns ==
  ASSUME IInv, ResultInv, ReturnsOnlyWhenDone', LeaveFill \/ Refused
  PROVE  Pool!Return \/ UNCHANGED <<Given, Stage, cancel, Ended>>
<1>1. pc \notin {"returned", "closed"} /\ UNCHANGED <<fut, inflight, yielded, added, cancel>>
  BY DEF LeaveFill, Refused, MayFill, NoneEligible
<1>2. UNCHANGED <<Given, Stage, cancel>> /\ Ended = "no"
  BY <1>1 DEF Given, Stage, Ended
<1>3. \/ inflight = {} /\ pc' = "returned"
      \/ pc' = "get"
  BY DEF LeaveFill, Refused, AfterFill
<1>4. CASE inflight = {} /\ pc' = "returned"
  <2>1. Pool!At("active") \cup Pool!At("done") = {}
    BY <1>4, PoolFacts
  <2>2. cancel \/ Given \subseteq Pool!At("yielded")
    <3>1. CASE ~cancel
      <4>1. yielded = Given
        BY <1>1, <1>4, <3>1 DEF ReturnsOnlyWhenDone, Given
      <4>2. yielded \subseteq Job
        BY DEF IInv, TypeOK
      <4>3. QED
        BY <4>1, <4>2, StageFacts DEF Pool!At
    <3>2. QED
      BY <3>1
  <2>3. Ended' = "returned"
    BY <1>4 DEF Ended
  <2>4. QED
    BY <1>2, <2>1, <2>2, <2>3 DEF Pool!Return
<1>5. CASE pc' = "get"
  BY <1>2, <1>5 DEF Ended
<1>6. QED
  BY <1>3, <1>4, <1>5

\* A result that is taken from the batch is yielded.
LEMMA DeliverYields ==
  ASSUME IInv, NEW adds \in FollowUps, Deliver(adds)
  PROVE  \E j \in Job : Pool!Yield(j)
<1> DEFINE j == Head(batch)
<1>1. j \in Job /\ j \in ToSet(batch) /\ fut[j] \in Result /\ j \notin yielded
  <2>1. batch \in Seq(Job) /\ batch # <<>>
    BY DEF Deliver, IInv, TypeOK, FlightInv
  <2>2. j \in Job /\ j \in ToSet(batch)
    BY <2>1, TailFacts
  <2>3. QED
    BY <2>2 DEF IInv, FlightInv
<1>2. Stage[j] = "done"
  BY <1>1, StageFacts
<1>3. Stage' = [Stage EXCEPT ![j] = "yielded"]
  <2>1. fut' = fut /\ yielded' = yielded \cup {j}
    BY DEF Deliver
  <2>2. QED
    BY <1>1, <2>1 DEF Stage
<1>4. \E more \in SUBSET Job : Given' = Given \cup more
  <2>1. added' = added \cup ToSet(adds)
    BY DEF Deliver
  <2>2. ToSet(adds) \subseteq Job
    BY FollowUpFacts
  <2>3. QED
    BY <2>1, <2>2 DEF Given
<1>5. Ended = "no" /\ UNCHANGED <<cancel, Ended>>
  BY DEF Deliver, Ended
<1>6. QED
  BY <1>1, <1>2, <1>3, <1>4, <1>5 DEF Pool!Yield

\* Closing the generator abandons the jobs that wait in the executor.
LEMMA CloseAbandons ==
  ASSUME IInv, Close
  PROVE  Pool!Abandon
<1> DEFINE gone == {j \in Job : j \in inflight /\ fut[j] = "queued"}
<1>1. fut' = [j \in Job |-> IF j \in gone THEN "discarded" ELSE fut[j]] /\ UNCHANGED yielded
  BY DEF Close
<1>2. gone \subseteq Pool!At("active")
  BY StageFacts DEF Pool!At
<1>3. Stage' = [j \in Job |-> IF j \in gone THEN "discarded" ELSE Stage[j]]
  <2>1. \A j \in gone : j \notin yielded
    BY DEF IInv, FlightInv
  <2>2. QED
    BY <1>1, <2>1 DEF Stage
<1>4. Ended = "no" /\ Ended' = "abandoned" /\ UNCHANGED <<Given, cancel>>
  BY DEF Close, Ended, Given
<1>5. QED
  BY <1>2, <1>3, <1>4 DEF Pool!Abandon

\* A worker begins a job, or completes it.
LEMMA WorkerCompletes ==
  ASSUME IInv, NEW j \in Job, Worker(j)
  PROVE  Pool!Complete(j) \/ UNCHANGED <<Given, Stage, cancel, Ended>>
<1>1. fut \in [Job -> FutState] /\ \A r \in Result : r \notin {"new", "queued", "running", "discarded"}
  BY ConstantFacts DEF IInv, TypeOK
<1>2. UNCHANGED <<Given, yielded, cancel, Ended>>
  BY DEF Worker, Start, Finish, consumerVars, Given, Ended
<1>3. fut[j] \in {"queued", "running"} /\ j \notin yielded
  <2>1. fut[j] \in {"queued", "running"}
    BY DEF Worker, Start, Finish
  <2>2. QED
    BY <1>1, <2>1 DEF IInv, FlightInv
<1>4. \/ \E result \in Result : fut' = [fut EXCEPT ![j] = result]
      \/ fut' = [fut EXCEPT ![j] = "running"]
  BY ConstantFacts DEF Worker, Start, Finish, Completed
<1>5. ASSUME NEW result \in Result, fut' = [fut EXCEPT ![j] = result]
      PROVE  Pool!Complete(j)
  <2>1. Stage' = [Stage EXCEPT ![j] = "done"]
    BY <1>1, <1>2, <1>3, <1>5 DEF Stage
  <2>2. Stage[j] = "active"
    BY <1>3, StageFacts
  <2>3. QED
    BY <1>2, <2>1, <2>2 DEF Pool!Complete
<1>6. ASSUME fut' = [fut EXCEPT ![j] = "running"]
      PROVE  UNCHANGED Stage
  BY <1>1, <1>2, <1>3, <1>6 DEF Stage
<1>7. QED
  BY <1>2, <1>4, <1>5, <1>6

\* Every step of the generator, a worker or the caller is a step of the abstract
\* pool, or one that it does not see.
LEMMA StepMaps ==
  IInv /\ ResultInv /\ ReturnsOnlyWhenDone' /\ [Next]_vars => [Pool!PoolNext]_(Pool!poolVars)
<1> SUFFICES ASSUME IInv, ResultInv, ReturnsOnlyWhenDone', [Next]_vars
             PROVE  Pool!PoolNext \/ UNCHANGED <<Given, Stage, cancel, Ended>>
  BY DEF Pool!poolVars
<1>1. CASE Pick \/ Get \/ Timeout \/ UNCHANGED vars
  <2>1. /\ UNCHANGED <<fut, added, yielded, cancel>>
        /\ pc' = pc \/ (pc \notin {"returned", "closed"} /\ pc' \notin {"returned", "closed"})
    BY <1>1 DEF Pick, MayFill, PickExtra, PickDeferred, PickSource, Take, Get, Timeout, vars
  <2>2. QED
    BY <2>1 DEF Given, Stage, Ended
<1>2. CASE LeaveFill \/ Refused
  BY <1>2, ReturnReturns DEF Pool!PoolNext
<1>3. CASE Submit
  <2>1. popped \in Job
    BY <1>3 DEF Submit, IInv, QueuesInv, TypeOK
  <2>2. QED
    BY <1>3, <2>1, SubmitBegins DEF Pool!PoolNext
<1>4. CASE \E adds \in FollowUps : Deliver(adds)
  BY <1>4, DeliverYields DEF Pool!PoolNext
<1>5. CASE Close
  BY <1>5, CloseAbandons DEF Pool!PoolNext
<1>6. CASE \E j \in Job : Worker(j)
  BY <1>6, WorkerCompletes DEF Pool!PoolNext
<1>7. CASE SetCancel
  BY <1>7 DEF SetCancel, consumerVars, Given, Stage, Ended, Pool!Cancel, Pool!PoolNext
<1>8. QED
  BY <1>1, <1>2, <1>3, <1>4, <1>5, <1>6, <1>7 DEF Next, Consumer, Terminated

\* The generator implements the abstract pool: jobs run within both limits, each
\* at most once, are yielded one by one after they completed, and the iteration
\* ends by itself only when nothing is left to run or the run was cancelled.
THEOREM PoolImplemented == Spec => ImplementsPool
<1>1. Spec => []ResultInv
  <2>1. Init => ResultInv
    BY ResultInit
  <2>2. IInv /\ ResultInv /\ [Next]_vars => ResultInv'
    BY ResultStep
  <2>3. QED
    BY <2>1, <2>2, InvariantHolds, PTL DEF Spec
<1>2. Init => Pool!PoolInit
  BY InitMaps
<1>3. IInv /\ ResultInv /\ ReturnsOnlyWhenDone' /\ [Next]_vars => [Pool!PoolNext]_(Pool!poolVars)
  BY StepMaps
<1>4. QED
  BY <1>1, <1>2, <1>3, InvariantHolds, CompleteReturns, PTL DEF Spec, ImplementsPool, Pool!PoolSpec
==============================================================================
