------------------------------ MODULE UiServer -------------------------------
(***************************************************************************)
(* The App of nemla_ui/server.py: the one scan that may run, the thread    *)
(* that runs it, the process-wide sink of log lines, and the life of the   *)
(* server that Nemla opened a window for: heartbeats, the goodbye of a     *)
(* window (app.js), the watch that looks once a second whether anybody is  *)
(* left, and the end of serve().                                           *)
(*                                                                         *)
(* Time is the age of things, in seconds scaled down: only the order       *)
(* IDLE_GRACE < Heartbeat < IDLE_LIMIT of the code (6, 10, 150) is kept.   *)
(***************************************************************************)
EXTENDS Integers, FiniteSets

CONSTANTS
  Window,      \* browser windows
  MaxScans,    \* bound: scans started in a behaviour
  IDLE_GRACE, IDLE_LIMIT,
  Heartbeat    \* the interval of startHeartbeat in app.js

ASSUME UiAssumption ==
  /\ MaxScans \in Nat
  /\ IDLE_GRACE \in Nat /\ Heartbeat \in Nat /\ IDLE_LIMIT \in Nat
  /\ IDLE_GRACE < Heartbeat /\ Heartbeat < IDLE_LIMIT

Scans == 1 .. MaxScans
None  == 0
Never == -1   \* the age of what did not happen

VARIABLES
  current,  \* App.job
  asking,   \* the windows whose POST /api/scan is between its two checks
  run,      \* per scan: where its _run_job thread is
  cancel,   \* the scans whose cancel event is set
  sink,     \* engine._LOG_SINK: the scan that gets the log lines
  open,     \* the windows that are open
  beat,     \* per window: the age of its last heartbeat
  streams,  \* the windows with an event stream that the server still serves
  seen,     \* the age of App.last_seen
  bye,      \* the age of App.bye_at
  looked,   \* the watch has looked in this second
  serving,  \* where serve() is: serving, shutting down, or in its `finally` and
            \* on the way out ("closing"), until the process has ended
  farewell, \* history: for how long every window is gone after a goodbye, and
            \* no stream is left
  late      \* history: the scans that were started after the `finally`

scanVars == <<current, asking, run, cancel, sink>>
lifeVars == <<open, beat, streams, seen, bye, looked, serving, farewell>>
vars == <<scanVars, lifeVars, late>>

Init ==
  /\ current = None /\ asking = {} /\ sink = None
  /\ run = [s \in Scans |-> "none"] /\ cancel = {}
  /\ open = {} /\ beat = [w \in Window |-> 0] /\ streams = {}
  /\ seen = 0 /\ bye = Never /\ looked = TRUE /\ serving = "serving" /\ farewell = Never
  /\ late = {}

\* The process lives, and with it the daemon threads of requests and scans.
Up == serving # "ended"

\* serve_forever() still takes new connections.
Accepting == serving \in {"serving", "shutting_down"}

-----------------------------------------------------------------------------
(* Requests.                                                               *)

\* Mutant of Authorized: the address may carry the token of any request.
AuthorizedAnyhow(method, header, address) == header \/ address

\* Is the token in the header, or, for a read, in the address?
Authorized(method, header, address) == header \/ (method # "POST" /\ address)

\* app.touch(), at every request that was let in.
Touch == seen' = 0 /\ bye' = Never

Running == current # None /\ run[current] # "closed"

\* A window is loaded: GET /api/info; it follows the scan it is told about. (A name
\* is used again when the stream of its last window is gone.)
Open(w) ==
  /\ Accepting /\ w \notin open /\ w \notin streams
  /\ open' = open \cup {w} /\ beat' = [beat EXCEPT ![w] = 0]
  /\ streams' = IF current # None THEN streams \cup {w} ELSE streams
  /\ Touch /\ farewell' = Never
  /\ UNCHANGED <<scanVars, looked, serving, late>>

\* POST /api/hb, with the token in its header.
Beat(w) ==
  /\ Accepting /\ w \in open
  /\ beat' = [beat EXCEPT ![w] = 0] /\ Touch
  /\ UNCHANGED <<scanVars, open, streams, looked, serving, farewell, late>>

Gone == IF open' = {} THEN 0 ELSE Never

\* pagehide: sendBeacon posts /api/bye with the token in the address.
Goodbye(w) ==
  /\ Accepting /\ w \in open
  /\ open' = open \ {w}
  /\ \/ Authorized("POST", FALSE, TRUE) /\ seen' = 0 /\ bye' = 0
     \/ ~Authorized("POST", FALSE, TRUE) /\ UNCHANGED <<seen, bye>>   \* 401
  /\ farewell' = Gone
  /\ UNCHANGED <<scanVars, beat, streams, looked, serving, late>>

\* The browser dies, and says nothing.
Vanish(w) ==
  /\ w \in open
  /\ open' = open \ {w}
  /\ UNCHANGED <<scanVars, beat, streams, seen, bye, looked, serving, farewell, late>>

\* A chunk or a ping is written to a stream.
StreamWrite(w) ==
  /\ Up /\ w \in streams /\ seen' = 0
  /\ UNCHANGED <<scanVars, open, beat, streams, bye, looked, serving, farewell, late>>

\* The scan's last event was written, or the connection is found broken:
\* stream_closed() gives the slot back.
StreamEnds(w) ==
  /\ Up /\ w \in streams /\ streams' = streams \ {w}
  /\ UNCHANGED <<scanVars, open, beat, seen, bye, looked, serving, farewell, late>>

\* The EventSource of an open window connects again (see EventStream).
Reconnect(w) ==
  /\ Accepting /\ w \in open /\ w \notin streams /\ current # None
  /\ streams' = streams \cup {w} /\ Touch
  /\ UNCHANGED <<scanVars, open, beat, looked, serving, farewell, late>>

-----------------------------------------------------------------------------
(* Scans. The thread of a request that was accepted goes on until the      *)
(* process ends.                                                           *)

\* POST /api/scan: start_scan's first look, and parse_scan, which may wait for
\* the resolver.
Ask(w) ==
  /\ Up /\ w \in open /\ w \notin asking /\ ~Running
  /\ asking' = asking \cup {w} /\ Touch
  /\ UNCHANGED <<current, run, cancel, sink, open, beat, streams, looked, serving, farewell, late>>

\* Mutant of MayStart: the first look is enough.
MayStartLate == TRUE

\* The second look.
MayStart == ~Running

NewScan == Cardinality({s \in Scans : run[s] # "none"}) + 1

\* with self.lock: the new Job and its thread; the window attaches to it.
Create(w) ==
  /\ Up /\ w \in asking /\ asking' = asking \ {w}
  /\ \/ /\ MayStart /\ NewScan \in Scans
        /\ current' = NewScan
        /\ run' = [run EXCEPT ![NewScan] = "created"]
        /\ streams' = streams \cup (open \cap {w})
        /\ late' = IF Accepting THEN late ELSE late \cup {NewScan}
     \/ ~MayStart /\ UNCHANGED <<current, run, streams, late>>
  /\ UNCHANGED <<cancel, sink, open, beat, seen, bye, looked, serving, farewell>>

\* POST /api/stop, from any window.
Stop ==
  /\ Up /\ open # {} /\ Running /\ current \notin cancel
  /\ cancel' = cancel \cup {current} /\ Touch
  /\ UNCHANGED <<current, asking, run, sink, open, beat, streams, looked, serving, farewell, late>>

At(s, from, to) == run[s] = from /\ run' = [run EXCEPT ![s] = to]

\* Mutant of Ending: the scan is closed before it lets go of the sink.
EndingClosed(s) == \/ At(s, "scanned", "closed") /\ UNCHANGED sink
                   \/ At(s, "closed", "cleared") /\ sink' = None

\* finally: the sink is given up, and then the scan is closed.
Ending(s) == \/ At(s, "scanned", "cleared") /\ sink' = None
             \/ At(s, "cleared", "closed") /\ UNCHANGED sink

\* _run_job: take the sink, scan and emit the last event, end.
RunJob(s) ==
  /\ Up
  /\ \/ At(s, "created", "scanning") /\ sink' = s
     \/ At(s, "scanning", "scanned") /\ UNCHANGED sink
     \/ Ending(s)
  /\ UNCHANGED <<current, asking, cancel, lifeVars, late>>

-----------------------------------------------------------------------------
(* The end.                                                                *)

Older(age) == IF age \in {Never, IDLE_LIMIT + 1} THEN age ELSE age + 1

\* A second passes; every open window beats in time.
Tick ==
  /\ Accepting /\ looked /\ looked' = FALSE
  /\ \A w \in open : beat[w] < Heartbeat
  /\ beat' = [w \in Window |-> IF w \in open THEN beat[w] + 1 ELSE 0]
  /\ seen' = Older(seen) /\ bye' = Older(bye)
  /\ farewell' = IF farewell # Never /\ streams # {} THEN 0 ELSE Older(farewell)
  /\ UNCHANGED <<scanVars, open, streams, serving, late>>

\* Mutant of NobodyLeft: only a goodbye ends the server.
NobodyLeftByBye == streams = {} /\ bye > IDLE_GRACE

NobodyLeft == streams = {} /\ (bye > IDLE_GRACE \/ seen > IDLE_LIMIT)

\* _watch: once a second.
Watch ==
  /\ serving = "serving" /\ ~looked /\ looked' = TRUE
  /\ \/ /\ NobodyLeft
        /\ serving' = "shutting_down" /\ cancel' = cancel \cup ({current} \ {None})
     \/ ~NobodyLeft /\ UNCHANGED <<serving, cancel>>
  /\ UNCHANGED <<current, asking, run, sink, open, beat, streams, seen, bye, farewell, late>>

\* Mutant of CancelledAtEnd: the watch has cancelled the scan already.
CancelledBefore == cancel

\* finally: app.job.cancel.set()
CancelledAtEnd == cancel \cup ({current} \ {None})

\* serve_forever() ended, by httpd.shutdown() or Ctrl+C, and the `finally` runs.
\* No daemon thread is waited for.
End ==
  /\ Accepting /\ serving' = "closing"
  /\ cancel' = CancelledAtEnd
  /\ UNCHANGED <<current, asking, run, sink, open, beat, streams, seen, bye, looked, farewell, late>>

Shutdown == serving = "shutting_down" /\ End
CtrlC    == serving = "serving" /\ End

\* serve() has returned and the process exits: now the daemon threads die.
Exit ==
  /\ serving = "closing" /\ serving' = "ended"
  /\ UNCHANGED <<scanVars, open, beat, streams, seen, bye, looked, farewell, late>>

Terminated == ~Up /\ UNCHANGED vars

Next ==
  \/ \E w \in Window : \/ Open(w) \/ Beat(w) \/ Goodbye(w) \/ Vanish(w) \/ Ask(w) \/ Create(w)
                       \/ StreamWrite(w) \/ StreamEnds(w) \/ Reconnect(w)
  \/ \E s \in Scans : RunJob(s)
  \/ Stop \/ Tick \/ Watch \/ Shutdown \/ CtrlC \/ Exit \/ Terminated

Spec == Init /\ [][Next]_vars

\* Time passes, the watch looks, windows that are open beat, and a write to a
\* stream nobody reads raises in the end. Scans end (see ScanEngine), and so does
\* a process whose main thread has returned: it waits for probes, which time out.
FairSpec ==
  /\ Spec /\ WF_vars(Tick) /\ WF_vars(Watch) /\ WF_vars(Shutdown) /\ WF_vars(Exit)
  /\ \A w \in Window : /\ WF_vars(Beat(w))
                       /\ SF_vars(StreamEnds(w) /\ w \notin open)
  /\ \A s \in Scans : WF_vars(RunJob(s))

-----------------------------------------------------------------------------
(* Properties.                                                             *)

Age == Never .. IDLE_LIMIT + 1

TypeOK ==
  /\ current \in Scans \cup {None} /\ asking \subseteq Window
  /\ run \in [Scans -> {"none", "created", "scanning", "scanned", "cleared", "closed"}]
  /\ cancel \subseteq Scans /\ sink \in Scans \cup {None}
  /\ open \subseteq Window /\ beat \in [Window -> 0 .. Heartbeat] /\ streams \subseteq Window
  /\ seen \in Age \ {Never} /\ bye \in Age /\ looked \in BOOLEAN
  /\ serving \in {"serving", "shutting_down", "closing", "ended"} /\ farewell \in Age
  /\ late \subseteq Scans

Live(s) == run[s] \notin {"none", "closed"}

\* "A scan is already running": whatever windows ask at once, one scan runs, and
\* it is the one that Stop, /api/info and the end of the server mean.
OneScanAtATime == TypeOK /\ \A s \in Scans : Live(s) => s = current

\* The log lines of a scan reach its own page: no older scan takes the sink away
\* from the one that is scanning, and no ended scan keeps it.
LogLinesGoHome ==
  /\ \A s \in Scans : run[s] \in {"scanning", "scanned"} => sink = s
  /\ sink # None => Live(sink)

\* When serve() is on its way out, every scan that was started before its `finally`
\* is over or cancelled, also one that began after the watch had cancelled what was
\* running. (A request in flight may start another one still: `late`. Only the end
\* of the process ends that one.)
EndStopsTheScan == ~Accepting => \A s \in Scans \ late : Live(s) => s \in cancel

\* The watch never ends the server while a window is open: heartbeats come often
\* enough for it, and one window's goodbye is not taken for everybody's.
NobodyIsCutOff == [][serving = "serving" /\ serving' = "shutting_down" => open = {}]_vars

\* When every window is gone, with or without a goodbye, and none comes back, the
\* server ends, even if streams of theirs are still served.
EndsWhenAlone == open = {} ~> (~Up \/ open # {})

\* "seconds after the window says goodbye before we exit" (server.py:50): a
\* server whose last window said goodbye ends IDLE_GRACE seconds later (and the
\* second in which the watch looks).
GoodbyeEndsIt == farewell > IDLE_GRACE + 1 => serving # "serving"
==============================================================================
