----------------------------- MODULE EventStream -----------------------------
(***************************************************************************)
(* One scan of nemla_ui/server.py as pages see it: the append-only events  *)
(* of its Job, the request threads of _api_events that write them to       *)
(* connections, and the EventSource of app.js that reconnects with the id  *)
(* of the last event it has seen.                                          *)
(***************************************************************************)
EXTENDS Integers, FiniteSets, SequencesExt

CONSTANTS
  Page,        \* the windows that follow the scan
  MaxConns,    \* bound: connections at a time
  MaxBreaks,   \* bound: connections that break in a behaviour
  MaxLive,     \* bound: events recorded when no more essential ones come
  MAX_EVENTS,  \* from here on only essential events are recorded
  MAX_STREAMS  \* simultaneous event streams

ASSUME StreamAssumption ==
  /\ MaxConns \in Nat /\ MaxBreaks \in Nat /\ MaxLive \in Nat
  /\ MAX_EVENTS \in Nat /\ MAX_STREAMS \in Nat \ {0}

Conns == 1 .. MaxConns
NoConn == 0

(* "log" stands for the chatter, progress included, "port" for the essential *)
(* events between the first and the last one.                                *)
Final     == {"done", "error"}
Essential == {"start", "port"} \cup Final
EventType == Essential \cup {"log"}

VARIABLES
  stage,     \* where the _run_job thread is; "closed" is Job.closed
  replaced,  \* App.job is a newer scan
  events,    \* Job.events
  conn,      \* per connection: its request thread
  wire,      \* per connection: what was written and not read by the page
  sse_clients,  \* App.sse_clients
  page,      \* per page: its EventSource, and what it has seen
  breaks     \* history: how many connections broke

jobVars == <<stage, replaced, events>>
streamVars == <<jobVars, conn, wire, sse_clients, page, breaks>>

Idle == [pc |-> "free", index |-> 0, batch |-> <<>>, last |-> FALSE]

StreamInit ==
  /\ stage = "begun" /\ replaced = FALSE /\ events = <<>>
  /\ conn = [c \in Conns |-> Idle] /\ wire = [c \in Conns |-> <<>>] /\ sse_clients = 0
  /\ page = [p \in Page |-> [es |-> "none", on |-> NoConn, got |-> <<>>, id |-> 0]]
  /\ breaks = 0

-----------------------------------------------------------------------------
(* The scan.                                                               *)

\* Mutant of Emit: a full scan records nothing more.
EmitUntilFull(type) ==
  IF Len(events) >= MAX_EVENTS THEN events
  ELSE Append(events, [type |-> type, nth |-> Len(events)])

\* Job.emit: chatter is dropped when the scan has too many events.
Emit(type) ==
  IF Len(events) >= MAX_EVENTS /\ type \notin Essential THEN events
  ELSE Append(events, [type |-> type, nth |-> Len(events)])

EmitStart ==
  /\ stage = "begun" /\ stage' = "scanning" /\ events' = Emit("start")
  /\ UNCHANGED <<replaced, conn, wire, sse_clients, page, breaks>>

\* run_scan reports from the scanning thread.
EmitPort ==
  /\ stage = "scanning" /\ Len(events) < MaxLive /\ events' = Emit("port")
  /\ UNCHANGED <<stage, replaced, conn, wire, sse_clients, page, breaks>>

\* A line of log(), in any thread: one that read the sink before the scan gave
\* it up is written even after the end.
EmitLog ==
  /\ events' = Emit("log")
  /\ UNCHANGED <<stage, replaced, conn, wire, sse_clients, page, breaks>>

\* run_scan returned its report, or raised.
EmitFinal ==
  /\ stage = "scanning" /\ stage' = "ended"
  /\ \E type \in Final : events' = Emit(type)
  /\ UNCHANGED <<replaced, conn, wire, sse_clients, page, breaks>>

Close ==
  /\ stage = "ended" /\ stage' = "closed"
  /\ UNCHANGED <<replaced, events, conn, wire, sse_clients, page, breaks>>

\* Another window starts the next scan.
Replace ==
  /\ stage = "closed" /\ ~replaced /\ replaced' = TRUE
  /\ UNCHANGED <<stage, events, conn, wire, sse_clients, page, breaks>>

JobRuns == EmitStart \/ EmitFinal \/ Close

-----------------------------------------------------------------------------
(* A page.                                                                 *)

\* attach(): after POST /api/scan, or at the load of a page when /api/info names
\* the scan.
Attach(p) ==
  /\ page[p].es = "none" /\ ~replaced
  /\ page' = [page EXCEPT ![p].es = "connecting"]
  /\ UNCHANGED <<jobVars, conn, wire, sse_clients, breaks>>

Read(c) == \E p \in Page : page[p].on = c /\ page[p].es = "open"

\* The connection that the next request takes.
Unused == {c \in Conns : conn[c].pc = "free" /\ ~Read(c)}

\* App.stream_opened(), under its lock.
Room == sse_clients < MAX_STREAMS

\* GET /api/events with the id of the last event seen. Any answer but 200 (404 or
\* 429) closes the EventSource for good, and app.js says that the scan is lost.
Connect(p) ==
  /\ page[p].es = "connecting"
  /\ \/ /\ ~replaced /\ Room /\ Unused # {}
        /\ LET c == Min(Unused) IN
             /\ conn' = [conn EXCEPT ![c].pc = "collect", ![c].index = page[p].id]
             /\ page' = [page EXCEPT ![p].es = "open", ![p].on = c]
        /\ sse_clients' = sse_clients + 1
     \/ /\ replaced \/ ~Room
        /\ page' = [page EXCEPT ![p].es = "lost"]
        /\ UNCHANGED <<conn, sse_clients>>
  /\ UNCHANGED <<jobVars, wire, breaks>>

\* es.onmessage: the last event of the scan closes the EventSource.
Receive(p) ==
  /\ page[p].es = "open" /\ wire[page[p].on] # <<>>
  /\ LET c == page[p].on
         m == Head(wire[c]) IN
       /\ page' = [page EXCEPT ![p].got = Append(@, m.event), ![p].id = m.id,
                     ![p].es = IF m.event.type \in Final THEN "finished" ELSE @]
       /\ wire' = [wire EXCEPT ![c] = IF m.event.type \in Final THEN <<>> ELSE Tail(@)]
  /\ UNCHANGED <<jobVars, conn, sse_clients, breaks>>

\* The connection breaks; what is on its way is gone. The other end of a stream,
\* by the server, needs no action of the page: NoStreamEndsEarly says that the last
\* event is then seen or on its way, and the page closes its EventSource with it.
Break(p) ==
  /\ page[p].es = "open" /\ breaks < MaxBreaks
  /\ page' = [page EXCEPT ![p].es = "connecting", ![p].on = NoConn]
  /\ wire' = [wire EXCEPT ![page[p].on] = <<>>]
  /\ breaks' = breaks + 1
  /\ UNCHANGED <<jobVars, conn, sse_clients>>

Follow(p) == Connect(p) \/ Receive(p)

-----------------------------------------------------------------------------
(* _api_events in a request thread.                                        *)

\* job.events[index:]
Missed(c) == SubSeq(events, conn[c].index + 1, Len(events))

\* with job.cond: the events since index (after waiting at most 10 s for one).
Collect(c) ==
  /\ conn[c].pc = "collect"
  /\ conn' = [conn EXCEPT ![c].pc = "write", ![c].batch = Missed(c), ![c].last = (stage = "closed")]
  /\ UNCHANGED <<jobVars, wire, sse_clients, page, breaks>>

\* Mutant of Chunk: the ids count from zero.
ChunkFromZero(c) ==
  [i \in DOMAIN conn[c].batch |-> [id |-> conn[c].index + i - 1, event |-> conn[c].batch[i]]]

\* What is written: every event with its id.
Chunk(c) ==
  [i \in DOMAIN conn[c].batch |-> [id |-> conn[c].index + i, event |-> conn[c].batch[i]]]

\* Mutant of Leave: the slot is not given back.
LeaveTaken(c) == conn' = [conn EXCEPT ![c] = Idle] /\ UNCHANGED sse_clients

\* finally: app.stream_closed()
Leave(c) ==
  /\ conn' = [conn EXCEPT ![c] = Idle]
  /\ sse_clients' = IF sse_clients > 0 THEN sse_clients - 1 ELSE 0

\* elif closed: return
NothingLeft(c) == conn[c].batch = <<>> /\ conn[c].last

\* A chunk, or a ping, or the end. A connection nobody reads takes what is
\* written for a while, and raises in the end.
Write(c) ==
  /\ conn[c].pc = "write"
  /\ \/ /\ ~NothingLeft(c)
        /\ wire' = IF Read(c) THEN [wire EXCEPT ![c] = @ \o Chunk(c)] ELSE wire
        /\ conn' = [conn EXCEPT ![c].pc = "collect", ![c].index = @ + Len(conn[c].batch),
                                ![c].batch = <<>>]
        /\ UNCHANGED sse_clients
     \/ NothingLeft(c) /\ Leave(c) /\ UNCHANGED wire
     \/ ~Read(c) /\ Leave(c) /\ UNCHANGED wire
  /\ UNCHANGED <<jobVars, page, breaks>>

\* The write that finds the connection broken.
Raise(c) == Write(c) /\ ~Read(c) /\ conn'[c] = Idle

Stream(c) == Collect(c) \/ Write(c)

-----------------------------------------------------------------------------
StreamNext ==
  \/ JobRuns \/ EmitPort \/ EmitLog \/ Replace
  \/ \E p \in Page : Attach(p) \/ Follow(p) \/ Break(p)
  \/ \E c \in Conns : Stream(c)

StreamSpec == StreamInit /\ [][StreamNext]_streamVars

\* The threads run, a scan ends (see ScanEngine), and a browser that is open reads
\* and reconnects.
StreamFairSpec ==
  /\ StreamSpec /\ WF_streamVars(JobRuns)
  /\ \A c \in Conns : WF_streamVars(Stream(c)) /\ SF_streamVars(Raise(c))
  /\ \A p \in Page : WF_streamVars(Follow(p))

-----------------------------------------------------------------------------
(* Properties.                                                             *)

Event == [type : EventType, nth : Nat]

StreamTypeOK ==
  /\ stage \in {"begun", "scanning", "ended", "closed"} /\ replaced \in BOOLEAN
  /\ events \in Seq(Event)
  /\ conn \in [Conns -> [pc : {"free", "collect", "write"}, index : Nat,
                         batch : Seq(Event), last : BOOLEAN]]
  /\ wire \in [Conns -> Seq([id : Nat, event : Event])]
  /\ sse_clients \in 0 .. MAX_STREAMS /\ breaks \in 0 .. MaxBreaks
  /\ page \in [Page -> [es : {"none", "connecting", "open", "finished", "lost"},
                        on : Conns \cup {NoConn}, got : Seq(Event), id : Nat]]

\* A page has seen the events of the scan in order, without a gap and without a
\* repetition, however often its connection broke in between ("a reconnecting
\* EventSource resumes from Last-Event-ID"); and the server ends its stream only
\* when the scan is closed and the page was sent the last event.
StreamIsExact ==
  \A p \in Page :
    /\ page[p].got = SubSeq(events, 1, page[p].id)
    /\ page[p].es = "open" /\ conn[page[p].on].pc = "free" =>
         stage = "closed" /\ \E i \in DOMAIN events :
           events[i].type \in Final
           /\ (page[p].id >= i \/ \E k \in DOMAIN wire[page[p].on] : wire[page[p].on][k].id = i)

\* The count that is compared with MAX_STREAMS is the number of streams that are
\* served: no slot leaks and none is given back twice.
SlotsAreExact ==
  /\ StreamTypeOK
  /\ sse_clients = Cardinality({c \in Conns : conn[c].pc \in {"collect", "write"}})

\* A page that follows the scan sees its end, or is told that the scan is lost,
\* and never reconnects for ever.
PageSeesTheEnd ==
  \A p \in Page : page[p].es = "connecting" ~> page[p].es \in {"finished", "lost"}
==============================================================================
