----------------------------- MODULE ScanEngine ------------------------------
(***************************************************************************)
(* _run and _scan_hosts of nemla/engine.py: the ports of every live host   *)
(* go through the Scheduler, the last result of a host queues its "final"  *)
(* job, and what the final jobs return is the report. The port jobs are    *)
(* scan_port and scan_udp_port with the shared ProbeBudget.                *)
(*                                                                         *)
(* Scheduler is instantiated, not copied: an engine step is a step of the  *)
(* Scheduler with the engine's own bookkeeping, or leaves it alone.        *)
(***************************************************************************)
EXTENDS Integers, FiniteSets, SequencesExt

CONSTANTS
  Order,         \* the live hosts, in the order of their addresses
  TcpPorts, UdpPorts,
  Grab,          \* not no_banner: an open TCP port is asked for its service
  TcpRate,       \* opts.rate is set: TCP jobs carry a limiter
  Limit,         \* opts.max_probes, 0 = no cap
  Workers, PerHost, Window,
  NoJob, NoRecord

Host  == ToSet(Order)
Ports == TcpPorts \o UdpPorts
Port  == ToSet(Ports)
Final == "final"
Job   == Host \X (Port \cup {Final})
PortJob == Host \X Port
FinalJob(h) == <<h, Final>>

\* The plan names a host and a port once; the Scheduler makes each of its bounds
\* at least 1.
ASSUME EngineAssumption ==
  /\ Order \in Seq(Host) /\ IsInjective(Order)
  /\ TcpPorts \in Seq(Port) /\ UdpPorts \in Seq(Port) /\ IsInjective(Ports)
  /\ Ports # <<>> /\ Final \notin Port
  /\ Grab \in BOOLEAN /\ TcpRate \in BOOLEAN
  /\ Limit \in Nat
  /\ Workers \in Nat \ {0} /\ PerHost \in Nat \ {0} /\ Window \in Nat \ {0}
  /\ NoJob \notin Job

IsUdp(j) == j[2] \in ToSet(UdpPorts)
IsTcp(j) == j[2] \in ToSet(TcpPorts)
Limited  == {j \in Job : IsUdp(j) \/ (TcpRate /\ IsTcp(j))}
HostOf   == [j \in Job |-> j[1]]

\* round_robin(host_jobs(ip) for ip in order): every host has the same ports,
\* so round r holds port r of each host, in order.
RoundRobin ==
  [i \in 1 .. Len(Order) * Len(Ports) |->
     <<Order[1 + ((i - 1) % Len(Order))], Ports[1 + ((i - 1) \div Len(Order))]>>]

\* What scan_port, scan_udp_port and finalize return: an open port, a silent
\* UDP port ("open|filtered"), None, or the record of a host.
Outcome == {"open", "unconfirmed", "quiet", "record"}

PerHostJobs == Len(TcpPorts) + Len(UdpPorts)

VARIABLES
  pc, pulled, deferred, extra, popped, inflight, busy, finished, batch, fut,
  cancel, stats, added, yielded,   \* the Scheduler's
  phase,      \* how far _run has come
  remaining,  \* per host: state.remaining
  finalizing, \* the hosts whose final job was queued
  found,      \* per host: state.tcp and state.udp
  record,     \* per host: the ports in the record its final job returned
  hosts,      \* `finished` of _scan_hosts: the records with host_done events
  probe,      \* per job: how far its function has come with its connections
  used, exhausted,  \* the ProbeBudget
  sent,       \* connections begun and datagrams sent by port jobs
  meta        \* the report's header, or NoRecord

schedVars  == <<pc, pulled, deferred, extra, popped, inflight, busy, finished,
                batch, fut, cancel, stats, added, yielded>>
hostVars   == <<remaining, finalizing, found, hosts>>
probeVars  == <<probe, used, exhausted, sent>>
engineVars == <<phase, hostVars, record, probeVars, meta>>
vars == <<schedVars, engineVars>>

S == INSTANCE Scheduler WITH
       Source <- RoundRobin, KeyOf <- HostOf, OkResult <- Outcome, PerKey <- PerHost

Init ==
  /\ S!Init
  /\ phase = "discovered"
  /\ remaining = [h \in Host |-> PerHostJobs]
  /\ finalizing = {} /\ found = [h \in Host |-> {}]
  /\ record = [h \in Host |-> NoRecord] /\ hosts = <<>>
  /\ probe = [j \in Job |-> "none"]
  /\ used = 0 /\ exhausted = FALSE /\ sent = 0
  /\ meta = NoRecord

-----------------------------------------------------------------------------
(* The consumer thread: _run, and the loop over scheduler.results(jobs).   *)

\* Nothing is scanned when discovery was cancelled.
BeginScan ==
  /\ phase = "discovered"
  /\ phase' = IF cancel THEN "unscanned" ELSE "scanning"
  /\ UNCHANGED <<schedVars, hostVars, record, probeVars, meta>>

\* The steps of the generator between two results.
Generate ==
  /\ phase = "scanning"
  /\ S!Pick \/ S!LeaveFill \/ S!Submit \/ S!Refused \/ S!Get \/ S!Timeout
  /\ UNCHANGED engineVars

\* (state.tcp if ... else state.udp).append(result)
FoundPort(j, result) ==
  IF result \in {"open", "unconfirmed"} THEN [found EXCEPT ![j[1]] = @ \cup {j[2]}] ELSE found

\* Mutant of Wraps: the final job goes in front of the last port job.
WrapsEarly(h) == remaining[h] <= 2 /\ h \notin finalizing /\ ~cancel

\* Mutant of Wraps: the final job is queued for each of the last two ports.
WrapsTwice(h) == remaining[h] <= 2 /\ ~cancel

\* This was the last port of h: its final job may be queued.
Wraps(h) == remaining[h] = 1 /\ h \notin finalizing /\ ~cancel

\* A result of a port job.
PortResult ==
  /\ phase = "scanning" /\ pc = "deliver"
  /\ LET j == Head(batch)
         h == j[1] IN
       /\ j \in PortJob
       /\ found' = FoundPort(j, fut[j])
       /\ remaining' = [remaining EXCEPT ![h] = @ - 1]
       /\ \/ /\ Wraps(h)
             /\ finalizing' = finalizing \cup {h}
             /\ S!Deliver(<<FinalJob(h)>>)
          \/ /\ ~Wraps(h)
             /\ S!Deliver(<<>>) /\ UNCHANGED finalizing
  /\ UNCHANGED <<phase, record, hosts, probeVars, meta>>

\* Mutant of Reported: a host whose final job failed vanishes from the report.
ReportedOnSuccess(h, result) ==
  IF result = "record" THEN Append(hosts, [ip |-> h, ports |-> record[h], whole |-> TRUE]) ELSE hosts

\* The record of the final job; _partial_host when the job raised; nothing when
\* it was cancelled.
Reported(h, result) ==
  IF result = S!CANCELLED THEN hosts
  ELSE LET whole == result = "record" IN
    Append(hosts, [ip |-> h, ports |-> IF whole THEN record[h] ELSE found[h], whole |-> whole])

FinalResult ==
  /\ phase = "scanning" /\ pc = "deliver"
  /\ LET j == Head(batch) IN
       /\ j[2] = Final
       /\ hosts' = Reported(j[1], fut[j])
  /\ S!Deliver(<<>>)
  /\ UNCHANGED <<phase, remaining, finalizing, found, record, probeVars, meta>>

\* The generator is exhausted: _scan_hosts returns its list.
ScanDone ==
  /\ phase = "scanning" /\ pc = "returned"
  /\ phase' = "scanned"
  /\ UNCHANGED <<schedVars, hostVars, record, probeVars, meta>>

\* Ctrl+C in the scanning thread unwinds _scan_hosts: its list is never
\* assigned to `hosts`, and the generator's `finally` runs.
Interrupt ==
  /\ phase = "scanning" /\ S!Close
  /\ phase' = "interrupted" /\ hosts' = <<>>
  /\ UNCHANGED <<remaining, finalizing, found, record, probeVars, meta>>

\* except KeyboardInterrupt: cancel.set()
InterruptCancels ==
  /\ phase = "interrupted"
  /\ S!SetCancel \/ (cancel /\ UNCHANGED schedVars)
  /\ phase' = "scanned"
  /\ UNCHANGED <<hostVars, record, probeVars, meta>>

\* The budget is looked at, and later the rest of meta is filled in.
WarnBudget ==
  /\ phase \in {"scanned", "unscanned"}
  /\ phase' = "warned"
  /\ meta' = [budget |-> exhausted, cancelled |-> FALSE]
  /\ UNCHANGED <<schedVars, hostVars, record, probeVars>>

Report ==
  /\ phase = "warned"
  /\ phase' = "reported"
  /\ meta' = [meta EXCEPT !.cancelled = cancel]
  /\ UNCHANGED <<schedVars, hostVars, record, probeVars>>

-----------------------------------------------------------------------------
(* The worker threads: what runs inside a job.                             *)

\* ProbeBudget.take() has room for one more probe.
Affords == Limit = 0 \/ used < Limit

\* Mutant of Charge: a refused probe does not mark the budget as exhausted.
ChargeSilently(j, granted, refused) ==
  \/ /\ Affords
     /\ used' = used + 1 /\ sent' = sent + 1
     /\ probe' = [probe EXCEPT ![j] = granted] /\ UNCHANGED exhausted
  \/ ~Affords /\ probe' = [probe EXCEPT ![j] = refused] /\ UNCHANGED <<used, sent, exhausted>>

\* budget.take() in thread j: one probe goes out, or the budget is exhausted.
Charge(j, granted, refused) ==
  \/ /\ Affords
     /\ used' = used + 1 /\ sent' = sent + 1
     /\ probe' = [probe EXCEPT ![j] = granted] /\ UNCHANGED exhausted
  \/ /\ ~Affords
     /\ exhausted' = TRUE
     /\ probe' = [probe EXCEPT ![j] = refused] /\ UNCHANGED <<used, sent>>

StartJob(j) ==
  /\ S!Start(j)
  /\ UNCHANGED engineVars

\* The first thing both port functions do: charge, then connect or send.
Probe(j) ==
  /\ fut[j] = "running" /\ j \in PortJob /\ probe[j] = "none"
  /\ Charge(j, "sent", "refused")
  /\ UNCHANGED <<schedVars, phase, hostVars, record, meta>>

\* The TCP port is open: service detection opens another connection.
\* (At most one per port here; the code opens up to a dozen.)
Detect(j) ==
  /\ Grab /\ fut[j] = "running" /\ IsTcp(j) /\ probe[j] = "sent"
  /\ Charge(j, "detected", "cut")
  /\ UNCHANGED <<schedVars, phase, hostVars, record, meta>>

\* udp_exchange with retries = 1: silence, so the datagram is sent once more.
Resend(j) ==
  /\ fut[j] = "running" /\ IsUdp(j) /\ probe[j] = "sent"
  /\ probe' = [probe EXCEPT ![j] = "resent"] /\ sent' = sent + 1
  /\ UNCHANGED <<schedVars, phase, hostVars, record, used, exhausted, meta>>

\* What the function of j may end with, CANCELLED apart: a job that was refused
\* its probe returns None, and detection only starts on an open port.
Ends(j) ==
  {result \in S!Result \ {S!CANCELLED} :
     \/ j[2] = Final          /\ result \in {"record", S!Failed}
     \/ probe[j] = "refused"  /\ result = "quiet"
     \/ probe[j] = "cut"      /\ result = "open"
     \/ probe[j] = "detected" /\ result \in {"open", S!Failed}
     \/ probe[j] = "resent"   /\ result \in {"open", "quiet", "unconfirmed"}
     \/ probe[j] = "sent"     /\ result \in {"open", "quiet", S!Failed}
     \/ probe[j] = "sent"     /\ IsUdp(j) /\ result = "unconfirmed"}

\* Only a job that waits on the network (not one that is refused) can be cut
\* short by the cancel event.
FinishJob(j, result) ==
  /\ \/ result \in Ends(j)
     \/ result = S!CANCELLED /\ (probe[j] # "none" \/ j[2] = Final)
                             /\ probe[j] \notin {"refused", "cut"}
  /\ S!Finish(j, result)
  /\ record' = IF result = "record" THEN [record EXCEPT ![j[1]] = found[j[1]]] ELSE record
  /\ probe' = IF j \in PortJob /\ probe[j] # "refused"
              THEN [probe EXCEPT ![j] = "over"] ELSE probe
  /\ UNCHANGED <<phase, hostVars, used, exhausted, sent, meta>>

\* Stop: the UI or the library's caller sets the event, at any time.
Cancel ==
  /\ S!SetCancel
  /\ UNCHANGED engineVars

-----------------------------------------------------------------------------
Engine == BeginScan \/ Generate \/ PortResult \/ FinalResult \/ ScanDone
          \/ InterruptCancels \/ WarnBudget \/ Report
Worker(j) == \/ StartJob(j) \/ Probe(j) \/ Detect(j) \/ Resend(j)
             \/ \E result \in S!Result : FinishJob(j, result)

Terminated == phase = "reported" /\ S!Running = {} /\ UNCHANGED vars

Next == Engine \/ (\E j \in Job : Worker(j)) \/ Cancel \/ Interrupt \/ Terminated

Spec == Init /\ [][Next]_vars

\* The scanning thread runs; every wait inside a job has a timeout. Nobody has
\* to press Stop.
FairSpec == Spec /\ WF_vars(Engine) /\ \A j \in Job : WF_vars(Worker(j))

-----------------------------------------------------------------------------
(* Properties.                                                             *)

TypeOK ==
  /\ S!TypeOK
  /\ phase \in {"discovered", "unscanned", "scanning", "interrupted", "scanned", "warned", "reported"}
  /\ remaining \in [Host -> 0 .. PerHostJobs]
  /\ finalizing \subseteq Host
  /\ found \in [Host -> SUBSET Port]
  /\ record \in [Host -> (SUBSET Port) \cup {NoRecord}]
  /\ hosts \in Seq([ip : Host, ports : SUBSET Port, whole : BOOLEAN])
  /\ probe \in [Job -> {"none", "refused", "cut", "sent", "resent", "detected", "over"}]
  /\ used \in Nat /\ sent \in Nat /\ exhausted \in BOOLEAN
  /\ meta \in [budget : BOOLEAN, cancelled : BOOLEAN] \cup {NoRecord}

ReportedHosts == {hosts[i].ip : i \in DOMAIN hosts}
Answered(h) == {p \in Port : fut[<<h, p>>] \in {"open", "unconfirmed"}}

\* A host is reported once, only after each of its ports was scanned, and its
\* record lists every port that answered: no result arrives too late for it.
RecordsAreComplete ==
  /\ TypeOK
  /\ Cardinality(ReportedHosts) = Len(hosts)
  /\ \A i \in DOMAIN hosts :
       LET h == hosts[i].ip IN
         /\ \A p \in Port : <<h, p>> \in yielded
         /\ hosts[i].ports = Answered(h)

\* "A failing host must not vanish from the report": a scan that does not say
\* it was cancelled reports every live host.
EveryHostReported ==
  phase = "reported" /\ ~meta.cancelled => ReportedHosts = Host

\* A scan that says neither "cancelled" nor "budget" has probed every port.
IncompleteScansSaySo ==
  phase = "reported" /\ ~meta.cancelled /\ ~meta.budget =>
    \A j \in PortJob : probe[j] = "over"

\* Once a scan that was not interrupted has its report, nothing goes out.
QuietAfterReport ==
  [][phase = "reported" /\ pc # "closed" => sent' = sent /\ S!Running' = S!Running]_vars

\* A scan ends with a report, whichever jobs fail and whoever stops it.
EventuallyReported == <>(phase = "reported")

\* The engine is a proper client of the Scheduler: every step is one of the
\* Scheduler's own, so what holds of Scheduler holds here.
ImplementsScheduler == S!Spec

\* "Interrupted - saving partial results." (nemla/_strings_base.py:17, logged at
\* engine.py:121): a host that was finished is in the report.
InterruptKeepsResults ==
  phase = "reported" => \A h \in Host : fut[FinalJob(h)] = "record" /\ FinalJob(h) \in yielded
                                          => h \in ReportedHosts

\* "A cap on the total number of connections/datagrams a scan may open"
\* (scheduler.py:52).
BudgetCapsDatagrams == Limit # 0 => sent <= Limit
==============================================================================
