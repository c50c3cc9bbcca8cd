# Nemla: TLA+ models, model checking and proofs

Nemla (`src/nemla`, `src/nemla_ui`) finds the live hosts of a network, scans
their ports through a bounded scheduler, identifies services, writes reports,
watches the network for new devices, and serves a local web page. This directory
holds TLA+ models of the parts where threads, processes, restarts and connections
meet and of the rules that judge what was found, the TLC configurations that check
them, and TLAPS proofs of every safety property of the concurrent parts.

Paths are relative to the repository; `scheduler.py:148` is a line of
`src/nemla/scanning/scheduler.py`, and so on. `PROJECT.json` maps every
definition that models code to its lines, and lists components, runs, hazards,
findings and theorems.

    tlc -workers 2 -config SchedulerPool.cfg SchedulerMC.tla     # a run
    tlapm SchedulerProofs.tla     # proofs (also the other *Proofs.tla, and QueueLemmas.tla)

## 1. Inventory

| Component | State | Operations | What is hard | Correct when |
|---|---|---|---|---|
| Scheduler (`scanning/scheduler.py`) | queues of held and follow-up jobs, in-flight set, per-host counts, a queue of finished futures, cancel event, counters | `results()` (pick, submit, wait, yield), `add()`, `cancel()`, the workers' `_call` | consumer thread against workers; a cancel between a pick and its submit; `add` from inside the caller's loop | limits hold, nothing is lost or yielded twice, no idle worker, it returns, and only when done |
| RateLimiter (same file) | a token bucket | `acquire` | time, and a sleep that Stop interrupts | never more than the rate and one full bucket; nobody waits in vain |
| ProbeBudget (same file) | `used`, `exhausted` | `take` | one counter, all workers | never overdrawn; a refusal is announced |
| Scan engine (`engine.py`) | per host: ports remaining, results; the list of finished hosts; report header | `_run`, `_scan_hosts`, final jobs | the last port of a host triggers its final job; Stop; Ctrl+C anywhere | each host once, complete; an incomplete scan says so |
| TCP and UDP scans (`scanning/tcp.py`, `udp.py`, `net.py`) | none of their own | `scan_port`, `scan_udp_port`, `udp_exchange` | budget and cancel between two connections | every probe is paid for |
| Service detection (`fingerprint/`) | one detection: detectors still to ask, the connection, what was learnt | `identify`, its detectors, TLS inspection | failures, budget and Stop between nested connections | names what is there, keeps what it learnt, pays and closes |
| Discovery (`discovery/`) | what ARP heard, the neighbour table, the ping workers | ARP, then ping, with fallbacks | lost packets, a method that fails, Stop | every address that answers, once |
| Targets, comparison, findings, OS guess | none | pure functions | boundaries; missing and heuristic evidence | exact against a reference |
| Device watch (`guard.py`, `Guard`) | learned devices, bindings, `guard.json` | sweep, judge, save, `trust`, start, stop | the page and the sweep thread; restart and crash; two Guard objects on one file | each new device reported once, only the owner trusts, nothing learned is forgotten |
| Alert log (`guard.py`, `AlertLog`) | newest alerts, a file that rotates | `add`, `since`, `wait` | many writers, a page that reconnects, rotation | each problem once, every alert seen |
| Tripwires (`guard.py`, `Tripwire`, `_hit`) | slots, hits per source | accept, serve, escalate | floods, many threads | slots do not leak, the first contact is told |
| Web server (`nemla_ui/server.py`) | the one `Job` and its events, stream count, last sign of life, the log sink | start, stop, events, heartbeat, goodbye, watch, end | request threads, reconnects, a process that must end itself | see section 3 |
| Web page (`nemla_ui/web`) | what it has seen of a scan | EventSource, heartbeat, `sendBeacon` | connections that break | what it shows is what happened |
| History (`history.py`) | one file per scan | save, prune, previous | several processes, one folder, one slow clock | saves are atomic, the newest stay, the right one is compared |
| Command line, configuration, languages, reports, launcher | settings | loops over the above, rendering | none | |

How they meet: a request thread starts a `Job`, whose thread runs the engine; the
engine is the caller (the loop body) of the Scheduler's generator; worker
threads run port jobs that charge the shared budget and detect services; events go
through `Job.emit` to the request threads that stream them. A finished scan is saved to
the history and compared with the one before, by the server and by `nemla --watch`. The Guard has
threads of its own; its alerts go through one `AlertLog` to a file and to the page. Log lines go
through one process-wide sink to the Job that is scanning.

## 2. The modules

| Module | Models | Composition |
|---|---|---|
| `JobPool` | the abstract pool that the Scheduler's docstrings promise | |
| `Scheduler` | `Scheduler.results`, `add`, `cancel`, `_call` | implements `JobPool` (INSTANCE, refinement mapping at its end) |
| `ScanEngine` | `_run` and `_scan_hosts`, `ProbeBudget`, the jobs | composes `Scheduler` (`S == INSTANCE Scheduler`): an engine step is a Scheduler step joined to the engine's bookkeeping |
| `RateLimiter` | `RateLimiter.acquire` | a limited job's `Submit` and `Refused`, in detail |
| `Fingerprint` | `identify` and the connections of its detectors | one port job's `Detect`, in detail |
| `Discovery` | `discover_hosts`, Scapy and neighbour sweeps, the ping workers | |
| `GuardWatch` | `Guard`, `evaluate_sweep`, `guard.json` | |
| `AlertLog` | tripwire slots, `_hit`, notices, the log, its file, the page's stream | |
| `EventStream` | one `Job` as pages see it: events, `_api_events`, EventSource | |
| `UiServer` | `App`: the one scan, the sink, windows, the watch, the end of `serve` | |
| `ScanHistory` | `save`, `prune`, `previous_for`, `load`, `_remember`, `run_watch` | |
| `Targets`, `ScanDiff`, `Findings`, `OsGuess` | the pure rules of `targets.py`, `diff.py`, `findings.py` (with the RDP and SMB verdicts), `os_detection.py` | asked by `RulesMC`, which also runs `RateLimiter` |
| `QueueLemmas` | facts about sequences, and induction over the naturals in a form the provers can use | |
| `SchedulerProofs`, `EngineProofs`, `GuardProofs`, `ServerProofs`, `HistoryProofs`, `FingerprintProofs`, `DiscoveryProofs` | the theorems (section 4) | each extends the modules it is about: `EngineProofs` `ScanEngine` and `RateLimiter`, `GuardProofs` `GuardWatch` and `AlertLog`, `ServerProofs` `UiServer` and `EventStream`, `HistoryProofs` `ScanHistory` and `ScanDiff`, `FingerprintProofs` `Fingerprint` and `Findings`; `EngineProofs` takes the Scheduler's theorems from an instance of `SchedulerProofs` |
| `SchedulerMC`, `ScanEngineMC`, `GuardWatchMC`, `AlertLogMC`, `DiscoveryMC` | the constants of the runs | |

In each model an action is what one thread does between two points where another
thread can be seen: between lock, queue, event and file operations.

**Scheduler.** `pc` is where the consumer thread is. `Pick` is one call of
`next_job()` that finds a job (follow-ups first, then held-back jobs, then the
source, `scheduler.py:148-161`); what it skips in the source is
deferred, at most `Window` of it. `Submit` is the submission after the rate
limiter granted a token; `Refused` is the `break` when the wait for a token was
cancelled. `LeaveFill`, `Get`, `Timeout` and `Deliver` are the rest of the loop;
`Deliver` includes the caller's loop body, which may `add`. `Start` and `Finish`
are a worker. `Close` is the generator's `finally` when the caller stops early. A
job that is popped or held back when the run is cancelled is dropped without a
result, which `JobsConserved` allows (`Lost # {} => cancel`) although the docstring at
`scheduler.py:125` says that dropped jobs yield `CANCELLED`.

**RateLimiter.** The bucket is counted in units and the clock in ticks, so that the rate may be any fraction. A look at
the clock is one step, `Grant` or `Sleep`; the scanning thread is the only caller. An observer counts the tokens
from a moment of its own choice (`Watch`). The limiter paces what the Scheduler submits: the connections that a detection makes
after the first, and a second datagram, take no token.

**ScanEngine.** `Generate`, `PortResult`, `FinalResult` and `ScanDone` are the loop
of `_scan_hosts`; `BeginScan`, `Interrupt`, `WarnBudget` and `Report` are `_run`
around it. A port job goes through its connections one at a time (`Probe`, `Detect`,
`Resend`), each charged with `Charge`, and `Ends` says with what it may
end: open, silent, quiet, failed, or cut by a cancel. Ports, hosts and records
are data; which port answers is a free choice.

**Fingerprint.** The registry is a table: for each detector its ports, its rarity, and
what it does (listens, asks, looks deeper, works in TLS). `agenda` is the set of what `identify` still has to
try, taken in the order of `Place` (rarity, then place in the registry), `task` what the current connection is for. A connection is dialled (and charged), shakes hands in TLS, exchanges,
and fails at any of these points; `Failed` and `Answered` say how the code goes on in each case. A server is
a protocol, whether it greets, and whether it is in TLS; a detector recognises its own protocol only.

**Discovery.** The world is free: who answers what, what Scapy hears, when the neighbour table
fills. `ArpRound`, `Nudge`, `Settle` and `Merge` are the ARP half; `Begin`, `Ping`, `Knock` and `Yield` are `imap` with its
workers; `Name` is the final look into the table. Stop may come between any two steps, and where the code
raises `Cancelled` the model does. `SecondChance` says when the addresses that ARP missed are asked at all, `Questions` what they are asked.

**GuardWatch.** Each Guard object has its own memory and lock; `guard.json` and
`guard.tmp` are shared by name, as in the code. A sweep is `Look` (the neighbour table),
`Judge` (`evaluate_sweep` under the lock), three steps of `save_state`
(open, write, rename), and one step per alert that is logged. `Trust` is a request thread's.
`Crash` kills the Guards of a process between any two of these. Nothing in the code makes a new Guard wait for the sweep of the
one before it (`stop` does not join, `App.start_guard` makes a new object), so `Begin` may happen, and `Trust` may act on an older Guard, while
another one may still do something. Such steps are counted in `overlaps` (`Beside`), up to `MaxOverlaps`: what holds of any Guards is stated
without it, and what holds only until they overlap is stated under `overlaps = 0`. `Judged` and `AlertsOf` are
`evaluate_sweep`: what is learned, what becomes unknown and which alerts follow.
The dates and the flip count that only weigh a confidence are left out.

**AlertLog.** A connection to a decoy takes a slot (`Accept`), is served (`Serve`), and is counted under the Guard's
lock (`Hit`); every thread that has an alert adds it under the log's lock (`Add`) and writes it
to the file outside of it (`File`, `Rotate`, `FileAfresh`). The page gets batches by id; a `Break` leaves
it any part of the batch on its way, and it resumes after the last alert that arrived (`LastSeen`).

**EventStream.** `Emit` is `Job.emit` with its limit; a connection has its request
thread's place, index and batch, and `wire` holds what was written and not yet read.
Between `Collect` (under the job's condition) and `Write` anything may happen.
`Break` loses what is on the wire; the page reconnects with the last id it saw; the old
thread keeps its slot until a write raises. `Replace` is the next scan, after
which a reconnect is answered 404.

**UiServer.** Time is the age of the last sign of life, of the goodbye and of each window's
last heartbeat, in scaled-down seconds that keep the order
6 < 10 < 150 of `IDLE_GRACE`, the heartbeat and `IDLE_LIMIT`. A second passes
(`Tick`) only when the watch has looked and every open window has beaten in time.
`Ask` and `Create` are the two checks of `start_scan` with `parse_scan` between them.
`Goodbye` applies the authorization rule to what the page really sends. The end of `serve` is two steps: `End`
(the loop has ended, by the watch or Ctrl+C, and its `finally` cancels the scan) and `Exit` (the process ends, and its daemon threads
with it). Between them a request that was accepted before goes on, and may start a scan that nobody cancels: `late` remembers those.

**ScanHistory.** A save is `Create` (the time and the temporary file), `Write`, `Place` (the rename), and `prune` as a listing (`List`)
followed by one `Unlink` per file; looking for the previous scan is a listing (`Glob`), a `Read` of the listed files and a `Load`. The
code reads file after file, so `Read` finds all that are still there and any of those that were removed since the listing. A server and a watch do these at once,
each may die at any point, and the clock may stand still between two saves.

**The rules.** `Targets` has addresses of `Bits` bits, so that a whole family can be enumerated; `Findings` takes port
records with every field, severities as ranks and confidences per cent; `OsGuess` weighs votes per cent. `RulesMC` grows a
question one element at a time, so that TLC asks every question up to `MaxItems` elements.

## 3. The runs

Runs that pass:

| Run | Instance | Shows |
|---|---|---|
| `scheduler_pool` | 4 source jobs of two hosts, 1 follow-up, 3 workers, 2 per host, one rate-limited job | `LimitsHold`, `JobsConserved`, `NoIdleWorker`, `NothingNewAfterCancel`, and the refinement `ImplementsPool` |
| `engine` | 2 hosts, a TCP port each that is asked for its service and a UDP port, a rate, budget 2 | `RecordsAreComplete`, `EveryHostReported`, `IncompleteScansSaySo`, `QuietAfterReport`, `EventuallyReported`, and `ImplementsScheduler`: every engine step is a Scheduler step, so what is proved of the Scheduler holds in the engine |
| `fingerprint` | 5 ports, 8 servers in and out of TLS, 5 intensities, budgets none, 1 and 4 | `NamesWhatIsThere`, `NothingLearntIsForgotten`, `PaidAndClosed` |
| `discovery` | 3 addresses, all local or none, 4 kinds of devices, 2 workers, chunks of 2 | `NobodyIsOverlooked`, `EventuallyOver` |
| `guard_restart` | 3 Guards in sequence, 3 tables over 2 addresses, 1 crash | `ReportedOnce`, `UnknownIsReported`, `TrustSurvives`, `OnlyTheOwnerTrusts`, `AlertsGetOut` |
| `alerts` | 2 decoy connections of one source, 1 slot, memory for 2 alerts, a file that rotates at each, 1 break anywhere in a batch | `LogInvariant` (slots, and the page misses nothing), `ToldOnce`, `FirstContactIsTold`, `AlertsReachThePage` |
| `event_stream` | 2 pages, 1 slot, 2 breaks | `StreamIsExact`, `SlotsAreExact`, `PageSeesTheEnd` |
| `ui_server` | 2 windows, 2 scans | `OneScanAtATime`, `LogLinesGoHome`, `EndStopsTheScan`, `NobodyIsCutOff`, `EndsWhenAlone` |
| `history` | a server and a watch, 2 targets, 4 scans, 2 kept, 1 crash, a clock that ticks once | `SavesAreAtomic`, `NewestAreKept`, `ComparedWithTheLast` |
| `rules` | addresses of 3 bits, ports to 9, up to 3 items; pairs of scans and of port records; triples of OS signals; a slow rate with a burst of 4/3 tokens | `ExpressionsAreExact`, `ComparisonIsExact`, `JudgementsAreEarned`, `PaceIsKept` |

Each module's `TypeOK` is a conjunct of one of its invariants. Every property has a
mutant: a definition next to the one it replaces ("Mutant of ..."), with a
plausible bug, under which TLC finds the property violated.

Runs that show a disagreement between the code and what the repository says of it:

| Run | Property | What happens |
|---|---|---|
| `engine_interrupt` | `InterruptKeepsResults` | Ctrl+C unwinds `_scan_hosts` before its list is assigned: finished hosts are not in the report, though "saving partial results" was logged |
| `ui_goodbye` | `GoodbyeEndsIt` | the page's goodbye carries its token in the address of a POST, is refused with 401, and the server stays until `IDLE_LIMIT` |

`ui_goodbye` deserves care when it is repaired: if the goodbye is simply accepted, one
window that closes ends the server under another window whose next heartbeat is
up to 10 s away, later than `IDLE_GRACE`. That is the mutant `AuthorizedAnyhow`,
and `NobodyIsCutOff` fails under it.

### Other disagreements

Statements that the modules define, that no run asks, and that TLC finds violated
when they are added to the named configuration:

| Statement | Configuration | What happens |
|---|---|---|
| `BudgetCapsDatagrams` (`ScanEngine`) | `ScanEngine.cfg` | a silent UDP port costs one charge and two datagrams (`net.py:349`), though the budget is "a cap on the total number of connections/datagrams" (`scheduler.py:52`) |
| `NeverRepeated`, `TrustStays`, `NeverTorn` (`GuardWatch`) | `GuardWatchRestart.cfg` with `MaxGuards = 2`, `MaxOverlaps = 1` | Stop, Start and trust while a sweep of the old Guard is in flight: both Guards report the same device as new, because each remembers only what it reported itself; the old object saves its own state last and takes the trust back (`guard.py:573`); two Guards share the name `guard.tmp`, and one renames the file that the other has just truncated (`guard.py:293`; `docs/architecture.md:141` promises atomic writes) |
| `AlwaysASecondChance` (`Discovery`) | `Discovery.cfg` | ARP hears somebody and misses more than `FALLBACK_LIMIT` addresses: none of them is asked anything (`discovery/__init__.py:95`), though "the remaining addresses always get this second chance" (`discovery/__init__.py:8-12`, and `README.md:155`) |
| `OlderScansCompare` (`RulesMC`) | `Rules.cfg` | the system of an older record is only a text; compared with a record that has a family and the same name it is told as a change of that name into itself (`diff.py:88`), though "Scans saved by older versions (no `proto`, no structured OS) compare fine" (`diff.py:5-6`) |
| `EveryAlertIsFiled` (`AlertLog`) | `AlertLog.cfg` | two writers find the file too long; the second finds it gone when it renames, and gives its alert up (`guard.py:107`), though `--guard-log` is to "append every alert to a file" (`README.md:214`) |
| `StopReturns` (`Discovery`) | `Discovery.cfg` | Stop between two rounds of the Scapy scan raises `Cancelled` through `discover_hosts` (`arp.py:198`): addresses already heard are lost |
| `BudgetKeepsWhatIsKnown` (`Fingerprint`) | `Fingerprint.cfg` | `BudgetExhausted` leaves `identify` with a greeting recognised or a handshake made, and carries it away |
| `AtMostRatePerSecond` (`RateLimiter`) | `Rules.cfg` with `Slice`, `Token` and `Refill` 1, `MaxIdle` 2, `MaxWindow` 20 | a full bucket comes on top of the rate: 21 acquisitions in less than a second at a rate of 20 (`scheduler.py:29`), though the docstring has "at most `rate` acquisitions per second" (`scheduler.py:25`) |
| `PortNumberWeighsLess` (`RulesMC`) | `Rules.cfg`, in 2 steps | in a record without `detected` a port number has confidence 0.8 (`findings.py:77`), so its severity is not "one severity step down" (`README.md:159`) |

Three more that the models show but no statement names: `--rate` is to "Limit TCP connection attempts per second" (`README.md:133`),
but only the first connection of a port waits for a token (`Submit`, `engine.py:177`), none of those that its detection makes; a name that resolves to an address
with a zone stands for that address alone, whatever else it resolves to (`targets.py:144`, in `Targets`);
and `ComparedWithTheLast` has to except a scan that was pruned itself while it was compared, because
`previous_for` then falls back to the newest scan of the target (`history.py:160`).

### Bounds

The smallest instance in which the interesting cases meet:

- Scheduler: two hosts so that one can be full while the other can run, and a follow-up
  added by any result (so also by the last one). The window is the `4 * Workers` that the
  code chooses; a source long enough to fill it is left to the proof, whose `IInv` has `Len(deferred) <= Window`.
- ScanEngine: two hosts that finish in either order; a budget of 2 for four ports and two detections runs out at a
  port's connection or at a detection. `Detect` is one connection; `Fingerprint` has them all.
- RateLimiter: a token is worth three ticks, and a slice two, so that a pause may be cut by either; a full bucket
  is more than a token. `MaxIdle` bounds the time between two looks, `MaxWindow` the time one watches.
- Fingerprint: a port of each kind (a greeting's, a web port, a mail port in TLS, one with two questions, and one that is
  nobody's) and a server of each kind (listens, asks, asks twice, unknown). A budget of 1 ends a detection
  at its first question, 4 in its middle.
- Discovery: three addresses, so that one may be missing (the second chance, `FallbackLimit = 1`) or two
  (none); `p1` is asked by every pass, `p2` only by a full one. `MaxStale = 0`: the neighbour table is empty at first.
- GuardWatch: two addresses, one the gateway, and a table in which one device
  answers for both. `MaxGuards = 3` gives two restarts, `MaxCrashes = 1`
  one crash, wherever it hurts. Counts in `logged` stop at 2: "more than once". `MaxOverlaps = 0`: with `MaxGuards = 2` and one overlap the
  instance has 7.7 million states. Its safety properties (`DiskIsWhole` too) hold there, in some three minutes, but its liveness takes too long for a run;
  the theorems hold for every value.
- AlertLog: two connections for one slot from one source; `Limit = 2` lets a batch hold two, so that it can break in its middle, and
  pushes the older ones out of the memory,
  `FileLimit = 0` rotates whenever there is a file.
- EventStream: two pages for one slot, `MAX_EVENTS = 2`, so that the limit is reached before
  the scan ends; `MaxLive` bounds only the essential events before the end,
  `MaxConns` the threads at a time, `MaxBreaks` the broken connections.
- UiServer: two windows are needed for a goodbye of one while the other stays, and for two
  requests between the two checks; two scans for an old and a new one.
- ScanHistory: four scans for a folder of two, so that the prunes of both processes overlap; `MaxTime` lets the clock stand or tick
  once between any two saves.
- Rules: with 3 bits every prefix length occurs, and 3 items can touch, nest and overlap; two scans of one
  or two hosts; every pair of some 40 port records, whose fields are those that some finding reads.

Deadlock is checked wherever the system may not stop; models that may have a
`Terminated` step. `EventStream`, `AlertLog` and `ScanHistory` rest when nobody asks anything more of them,
and `RulesMC` when its questions are long enough, so their runs do not check deadlock.

### Fairness

- Scheduler: none; its run asks safety. That it ends is asked of the engine that runs it.
- ScanEngine: the scanning thread runs, and every job ends by itself because
  every wait in it has a timeout (weak, per job). Nobody has to press Stop.
- Discovery: the scan's thread and the workers run; the wait for the neighbour table ends because its clock does (weak).
  The system's table and the user are free.
- GuardWatch: sweep threads run (weak); taking the lock is strongly fair, since `trust`
  takes it again and again and always gives it back.
- AlertLog: threads that have begun go on and the page reads (weak); nobody has to connect, to sweep or to stop.
- EventStream: the threads run, an open page reads and reconnects (weak). That a
  write to a connection nobody reads raises in the end is strong fairness of
  `Raise`: TCP's buffers take some of it first, then the socket's timeout or a
  reset ends it.
- UiServer: time passes, the watch looks, open windows beat (weak), and a
  stream whose window is gone ends (strong, for the same reason). The process exits when `serve` has returned (weak): what
  still runs are daemon threads. That an open
  window beats in time is an assumption on browsers; `IDLE_LIMIT` leaves
  room for timers slowed down to one a minute.
- RateLimiter, Fingerprint, ScanHistory, RulesMC: none; their properties are safety.

## 4. What is proved

Each theorem holds for every value of the constants that the named assumptions of its module admit: any
number of jobs, hosts, workers, pages, windows, devices, processes and connections, and any bounds on
restarts, crashes, breaks and time. What the run of section 3 shows on a small instance, the theorem shows
for all of them.

| Module | Theorem | States |
|---|---|---|
| `SchedulerProofs` | `InvariantHolds` | `Spec => []IInv`, the inductive invariant |
| | `TypeCorrect` | `TypeOK`; in particular the per-host counts never go below zero |
| | `LimitsAlwaysHold` | `LimitsHold`: never more than `Workers` in flight nor more than `PerKey` of one host queued or running |
| | `CompleteReturns` | `ReturnsOnlyWhenDone`: a generator that returns uncancelled has yielded every job, follow-ups included |
| | `JobsAreConserved` | `JobsConserved`: every job handed over is in one place, and only a cancelled run loses jobs |
| | `CancelStops` | `NothingNewAfterCancel`: no step of a cancelled run picks a job or begins to run one |
| | `NoWorkerIdles` | `NoIdleWorker`: the consumer does not wait below its limit while a job may run |
| | `PoolImplemented` | `ImplementsPool`: the generator implements the abstract pool |
| `EngineProofs` | `EngineImplementsScheduler` | `ImplementsScheduler`: a behaviour of the engine is one of the Scheduler |
| | `EngineKeepsScheduler` | so the Scheduler's invariant holds in it, and its follow-ups are final jobs |
| | `EngineInvariant` | `Spec => []EInv` |
| | `RecordsComplete` | `RecordsAreComplete` |
| | `HostsReported` | `EveryHostReported` |
| | `IncompleteScansAdmitIt` | `IncompleteScansSaySo` |
| | `QuietAfterwards` | `QuietAfterReport` |
| | `BucketInvariant` | `BucketSpec => []BInv` |
| | `RateIsKept` | `BurstAndRate` |
| | `SleepIsNeeded` | `NoSleepOverToken` |
| | `PaceKept` | `PaceIsKept`, the two together |
| `GuardProofs` | `GuardInvariant` | `Spec => []Main`: `Always`, of any Guards, and `GInv` as long as `overlaps = 0` |
| | `NewsIsToldOnce` | `ReportedOnce`: until Guards overlap, no device is new twice |
| | `UnknownDevicesAreTold` | `UnknownIsReported`, of any Guards |
| | `DecisionsSurvive` | `TrustSurvives`: until Guards overlap, what the owner trusted is trusted in the file |
| | `FileIsWhole` | `DiskIsWhole`: until Guards overlap the file is whole, afterwards a torn one is about to be filled or left by a crash |
| | `OwnerTrusts` | `OnlyTheOwnerTrusts`: its first half of any Guards, that none learns again until they overlap |
| | `AlertInvariant` | `AlertSpec => [](AInv /\ PageHolds)` |
| | `SlotsAreGivenBack` | `LogInvariant`: types, the slots of the tripwire, and what the page has been shown |
| | `NothingToldTwice` | `ToldOnce` |
| `ServerProofs` | `StreamInvariant` | `StreamSpec => []SInv` |
| | `SlotsComeBackExactly` | `SlotsAreExact` |
| | `StreamsAreExact` | `StreamIsExact` |
| | `UiInvariant` | `Spec => []IInv` |
| | `OneScanRuns` | `OneScanAtATime` |
| | `LogLinesAlwaysGoHome` | `LogLinesGoHome` |
| | `TheEndStopsTheScan` | `EndStopsTheScan` |
| | `OpenWindowsAreServed` | `NobodyIsCutOff` |
| `HistoryProofs` | `HistoryInvariant` | `Spec => []HInv` |
| | `SavesStayAtomic` | `SavesAreAtomic` |
| | `TheNewestAreKept` | `NewestAreKept` |
| | `TheLastIsCompared` | `ComparedWithTheLast` |
| | `ComparisonsAreExact` | `Exact(old, new)`, for any two scans |
| `FingerprintProofs` | `FingerprintInvariant` | `Spec => []IInv` |
| | `Exactness` | `NamesWhatIsThere` |
| | `Retention` | `NothingLearntIsForgotten` |
| | `Payment` | `PaidAndClosed` |
| | `PublicIsNoMilder` | `NoMilder`, for the findings of any set of ports |
| `DiscoveryProofs` | `DiscoveryInvariant` | `FairSpec => []DInv` |
| | `Completeness` | `NobodyIsOverlooked` |

### The arguments

None of the properties is inductive as it stands. In each module an invariant adds what ties the pieces
of state together, one lemma per action shows that the action keeps it, and the theorems follow. Each invariant
was checked by TLC on its run's configuration before it was proved.

**Scheduler.** The limits are tested at the pick and take effect at the submit, on a
count (`busy`) that is kept apart from the futures. `IInv` adds: the queues are
injective and hold only new jobs (`QueuesInv`), a job that is queued, running or in a
batch is in flight, exactly once (`FlightInv`), `busy` is the number of jobs in
flight of each host, with room for the popped job at `submit`
(`CountInv`), jobs are lost only by a cancel, and a generator that has returned uncancelled has nothing
left in its queues, the source or the pool (`DoneInv`). `PickEffect` says once what the three sources of a pick
have in common. `NoIdleWorker`: the consumer begins to wait only when a look at all three
sources found nothing (`NothingCouldStart`), and while it waits only workers move, which touch neither queues nor counts.

The refinement of `JobPool` needs one thing more: a job that has its result and was not yielded is still
in flight (`ResultInv`), or the pool could begin a job too many. `StepMaps` then
takes each step to a step of `JobPool`: `Submit` to `Begin`, a worker's end to
`Complete`, `Deliver` to `Yield`, `LeaveFill` and `Refused` to `Return` or a stutter,
`Close` to `Abandon`. The pool tells a return from an abandoned iteration: only a cancelled run may return
with jobs left.

**Scan engine.** `PlanIsSource` shows that the round robin of `_generate_jobs` is a source as the Scheduler
wants it (every port job once), `StepIsSchedulers` that every step of the engine is one of the Scheduler or none. The
one that needs an argument adds a follow-up: a final job is queued once, because
`FollowUpsAreFinal` ties the jobs added to the hosts that were wrapped up. So
the Scheduler's theorems hold in the engine, and `EInv` is proved on top of them: the counter
of each host is the number of its ports not yet yielded, what was found is what
the yielded jobs returned, a reported host's final job was yielded, a port whose
job was refused by the budget has left `exhausted` behind, and the phase of `_run`
fits the state of the generator.

**Rate limiter.** The observer may have begun in the middle of anything, so the invariant compares at the last look at the clock: if one
watched then already, what was acquired and what is left came in by then, on top of one full bucket (`Balance`); if not, nothing was acquired
yet. `NapHolds` says of a sleeper that one tick less than its pause is not enough for a token, from what rounding up means (`DueIsTight`).

**Guard.** The invariant `Main` has two halves. `Always` holds of any Guards beside each other: a Guard's lock is held by one of its sweep and the owner's
request (`LockHolds`), an empty `guard.json` has a writer who is about to fill it, unless a process died (`TornHolds`), and what a memory or file calls unknown was told
or is about to be (`ToldHolds`; saves only ever copy memories). `GInv` holds as long as `overlaps = 0`, which no step undoes
(`OverlapsStay`); then at most one Guard may do anything (`LifeHolds`). A save takes three steps, and in between the file is behind the memory. `FileHolds` says how
far: the current Guard's memory covers what would be loaded now (`Covers`: no device is forgotten), and is equal to it when
nobody holds its lock. An alert that was logged, or is about to be, is about a device on disk (`AlertsHold`), which is why the next
Guard does not report it again: the code saves before it logs. `OwnerTrusts` is a property of steps: `TrustStep` goes through the
actions with `Main`. Section 3 (other disagreements) shows what happens to the rest once Guards overlap.

**Alert log.** That nothing is told twice needs an order of what was counted: `Remembered` says of each alert that its source's count has come that
far (in the record of that round) or its notice is remembered, and `NewsHold` that
whatever was told, or is about to be added, is known, and is about to be added by one thread only. `CountsHold` bounds
rounds and counts by the connections that are gone. `PageHolds` says that the ids in the memory follow one another up to the newest, and that the page
asks for what follows the last one it has shown: so a batch goes on where the page is, wherever the last one broke off.

**Event streams.** `SInv` follows an event on its way: what a thread has collected is a piece of the job's events at the thread's index, what lies on a wire
continues what its page has read, and one page at most reads a connection. A page that reconnects resumes at
the id it has seen, and a thread whose page is gone goes on writing to nobody. `Grows` (the events of a scan are only
appended to) keeps these pieces in place. `StreamIsExact` adds that the end of a stream comes with the last event.

**Interface server.** The scans that were started are `1 .. current`, older ones are closed, and the sink is exactly the scan between its
beginning and its end (`SinkIsExact`). `HeardOf` says that the last sign of life is as young as each open window's last heartbeat; with
`Heartbeat < IDLE_LIMIT` the watch sees nobody cut off. It says too that no goodbye was ever taken, because each is refused (see `ui_goodbye`). `EndStopsTheScan`
needs that only the newest scan lives: the `finally` cancels `App.job` and no other, and what is started after it is `late`.

**History.** `BooksHold` counts the temporary files: every writer has one, and each crash left one at most. `PrunesHold` is the argument for
`NewestAreKept`: every scan that a process means to remove has `Keep` newer ones in the folder. This survives the prunes of other processes,
although they shrink the folder: what is removed has `Keep` newer ones itself, and these are newer than all it was newer than (`KeptUnlink`).
`ComparedWithTheLast` needs an order of the scans of one process (`OrderHolds`, which `_stamp` gives even when the clock stands),
what a listing must contain (`ServerLooks`), and what a watch has in its hands (`WatchLooks`).

**Service detection.** While nothing went wrong, the step at hand and those that are left always include the one that reveals the
server: its own detector, or the way into its tunnel (`Reveals`). `TaskHolds` says for which of three things the connection at hand can be:
a question (`Asking`), a second look at a server that is known already (`Refining`), or what follows a handshake (`Entering`). So a return with nothing
named means that there was nothing to be known, and what a greeting or a handshake showed is in every result (`ResultHolds`). Money needs no more than
`PaidAndClosed` itself, which is inductive with the types.

**Discovery.** An address that would answer is, as long as nobody pressed Stop, in one of four places: still to be asked, with a worker, told of by a worker, or
found (`ProbeHolds`); a worker has had silence from what it asked before (`SilentSoFar`), and says of an address only what is so (`Truthful`). The choice
of the addresses and ports to ask is where the code saves work; `FoundHolds` says that it saves none that `Questions` asks for.

**Comparison and findings.** These theorems are about pure operators, for all arguments. `ComparisonsAreExact` takes a host that is in both scans
and shows that its entry tells what the two records say differently (`EntryTells`): a port has a change exactly if what they say of its product or service contradicts (`PortsDiffer`), a
change quotes both (`ChangeQuotes`), a system is told exactly if two families, or a text and something else, contradict (`SystemsDiffer`); and an entry is left out exactly if
it tells nothing (`SilenceIsUnchanged`). `PublicIsNoMilder`
goes up the ladder of exposures: the rung that fits is the same in public (`LadderRises`), and weak evidence keeps the order of severities (`SevKeepsOrder`).

**Induction.** The provers cannot instantiate the library's induction theorems, whose hypotheses speak of any predicate. `LeastNatural` in
`QueueLemmas` (a set of naturals that is not empty has a least element, from the well-foundedness of `<`) serves instead: a proof takes the
least counterexample and shows that there is a smaller one. That `FirstEligible` and `FirstPull` of the Scheduler find a job whenever one can start,
and that finitely many scans have a newest, is proved like this.

### The assumptions

They are in the modules, named, and TLC evaluates them in every run.

- Scheduler: the set of jobs is finite, the source is a sequence of jobs without repetition, the limits and the window are at least 1
  (the code clamps them), and a job's outcome is none of the markers. That the window exceeds the number of workers is not assumed.
- ScanEngine: the hosts and ports are sequences without repetition, there is a port, the final job's mark is no port, and
  the limits are at least 1. The assumptions of its Scheduler are proved from these.
- GuardWatch: the gateway is an address, tables map addresses to devices or to none, and the values that stand for no file and for an empty one are no states; there is a Guard, and the bounds are naturals.
- AlertLog: finitely many connections, a first contact is loud (`Loud`), the sizes are positive.
- EventStream: `MAX_STREAMS` is at least 1. UiServer: the order of `IDLE_GRACE`, the heartbeat and `IDLE_LIMIT`.
- RateLimiter: a slice, a token and what flows in per tick are positive. Fingerprint: intensities and budgets are naturals.
- Discovery: the local addresses are targets, the quick ports are some of the ports, the limits are naturals, and there is a worker and a chunk to send.
- ScanHistory: finitely many processes, each a server or a watch, `Keep` at least 1 (`KEEP` is 60), and a clock that starts at 2.

### What is only model-checked

- All liveness (`EventuallyReported`, `EventuallyOver`, `AlertsGetOut`, `FirstContactIsTold`, `AlertsReachThePage`, `PageSeesTheEnd`, `EndsWhenAlone`): fairness and ENABLED are beyond the provers.
- The rules (`RulesMC`): `ExpressionsAreExact` and `GuessFollowsEvidence` (in `JudgementsAreEarned`) compare folded definitions with a reference over all questions of a
  bounded size; what a fold computes for every input needs induction over data. `ComparisonIsExact` asks `Exact` of small scans, where
  `ComparisonsAreExact` proves it of all. Of the other parts of `JudgementsAreEarned`, the comparison of a public with a private address is proved (`PublicIsNoMilder`);
  the identities of findings, weak evidence and the verdicts on all kinds of RDP and SMB servers are enumerated.

## 5. What is not modelled, and why

- Bytes: sockets, protocols, banners, certificates, the output of system commands, vendor tables. The models
  take what the code reads from them as free choices or small sets.
- Reports, texts, languages, configuration, the launcher and most of the command line: rendering and settings,
  without state that a step could break.
- Rates below zero or of zero (no limit), and a burst of the caller's own, which only the tests ask for. Floating-point rounding in the bucket.
- Writes to `guard.json` that fail without a crash (`save_state` swallows `OSError`), and threads that cannot be started.
- Request validation, static files, and the ceilings on connections and bodies.
- The status page of the Guard, which only reads.

## 6. Plan

What is left, in this order:

1. The identities of findings, and that a port number weighs less than a reply, for every record (`FindingsWeighRight` without bounds).
2. `save_state` on a full disk: a decision that is reported as taken and not saved.
3. Time in the engine: a `Submit` that waits for the bucket of `RateLimiter`, so that the pace of a whole scan, retries included, can be stated.
