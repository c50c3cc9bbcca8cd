---------------------------- MODULE ServerProofs -----------------------------
(***************************************************************************)
(* Theorems about the local web server.  UiServer: for every set of        *)
(* windows, every number of scans and every three times in the order of the *)
(* code.  EventStream: for every set of pages and every bound on           *)
(* connections, breaks, events and streams.                                *)
(***************************************************************************)
EXTENDS UiServer, EventStream, QueueLemmas

-----------------------------------------------------------------------------
(***************************************************************************)
(* The server, its scans and its end (UiServer).                           *)
(***************************************************************************)
(* The inductive invariant.                                                *)

\* The scans that were started are 1 .. current: the current one is the newest.
ScansInOrder == \A s \in Scans : run[s] # "none" <=> s <= current

\* All older scans are closed.
OneLives == \A s \in Scans : Live(s) => s = current

\* The sink is the scan that scans, from the moment it begins to the moment it
\* lets go.
SinkIsExact ==
  /\ \A s \in Scans : run[s] \in {"scanning", "scanned"} => sink = s
  /\ sink # None => run[sink] \in {"scanning", "scanned"}

\* The server has heard of every open window since its last heartbeat, and of no
\* goodbye: each was refused (see GoodbyeEndsIt).
HeardOf == (\A w \in open : seen <= beat[w]) /\ bye = Never

IInv ==
  TypeOK /\ ScansInOrder /\ OneLives /\ SinkIsExact /\ EndStopsTheScan /\ HeardOf

-----------------------------------------------------------------------------
(* Lemmas.                                                                 *)

\* The number that start_scan gives to the next scan follows the current one.
LEMMA NewScanFollows ==
  ASSUME TypeOK, ScansInOrder
  PROVE  NewScan = current + 1
<1>1. current \in 0 .. MaxScans /\ MaxScans \in Nat
  BY UiAssumption DEF TypeOK, Scans, None
<1>2. {s \in Scans : run[s] # "none"} = 1 .. current
  BY <1>1 DEF ScansInOrder, Scans
<1>3. Cardinality(1 .. current) = current
  BY <1>1, FS_Interval
<1>4. QED
  BY <1>2, <1>3 DEF NewScan

\* An age stays an age, and keeps its order to a heartbeat that ages with it.
LEMMA OlderFacts ==
  ASSUME NEW age \in Age
  PROVE  /\ Older(age) \in Age
         /\ age = Never <=> Older(age) = Never
         /\ \A b \in Nat : age <= b => Older(age) <= b + 1
  BY UiAssumption DEF Older, Age, Never

\* What is not touched stays as it is.
LEMMA ScansUntouched ==
  ASSUME TypeOK, ScansInOrder, OneLives, SinkIsExact, UNCHANGED <<current, run, sink>>
  PROVE  ScansInOrder' /\ OneLives' /\ SinkIsExact'
  BY DEF ScansInOrder, OneLives, SinkIsExact, Live

\* The server starts with no window and no scan.
LEMMA InitInv == Init => IInv
<1> SUFFICES ASSUME Init PROVE IInv
  OBVIOUS
<1>1. TypeOK
  BY UiAssumption DEF Init, TypeOK, Age, None, Never
<1>2. ScansInOrder /\ OneLives /\ SinkIsExact
  BY UiAssumption DEF Init, ScansInOrder, OneLives, SinkIsExact, Live, Scans, None
<1>3. EndStopsTheScan /\ HeardOf
  BY DEF Init, EndStopsTheScan, Accepting, HeardOf
<1>4. QED
  BY <1>1, <1>2, <1>3 DEF IInv

-----------------------------------------------------------------------------
(* The life of the server: the requests that do not change a scan, the     *)
(* clock, the watch and the end.                                           *)

\* A sign of life, a goodbye and a stream touch no scan.
LEMMA LifeInv ==
  ASSUME IInv, NEW w \in Window,
         \/ Open(w) \/ Beat(w) \/ Goodbye(w) \/ Vanish(w)
         \/ StreamWrite(w) \/ StreamEnds(w) \/ Reconnect(w)
  PROVE  IInv'
<1> USE DEF IInv
<1>1. UNCHANGED scanVars
  BY DEF Open, Beat, Goodbye, Vanish, StreamWrite, StreamEnds, Reconnect
<1>2. ScansInOrder' /\ OneLives' /\ SinkIsExact'
  BY <1>1, ScansUntouched DEF scanVars
<1>3. UNCHANGED <<looked, serving, late>>
  BY DEF Open, Beat, Goodbye, Vanish, StreamWrite, StreamEnds, Reconnect
<1>4. EndStopsTheScan'
  BY <1>1, <1>3 DEF EndStopsTheScan, Accepting, Live, scanVars
<1>5. TypeOK' /\ HeardOf'
  <2> USE UiAssumption, <1>1, <1>3 DEF TypeOK, HeardOf, Touch, scanVars, Age, Never
  <2>1. CASE Open(w)
    BY <2>1 DEF Open
  <2>2. CASE Beat(w)
    BY <2>2 DEF Beat
  <2>3. CASE Goodbye(w)
    BY <2>3 DEF Goodbye, Authorized, Gone
  <2>4. CASE Vanish(w)
    BY <2>4 DEF Vanish
  <2>5. CASE StreamWrite(w)
    BY <2>5 DEF StreamWrite
  <2>6. CASE StreamEnds(w)
    BY <2>6 DEF StreamEnds
  <2>7. CASE Reconnect(w)
    BY <2>7 DEF Reconnect
  <2>8. QED
    BY <2>1, <2>2, <2>3, <2>4, <2>5, <2>6, <2>7
<1>6. QED
  BY <1>2, <1>4, <1>5

\* A second passes only when every open window has beaten in time.
LEMMA TickInv == ASSUME IInv, Tick PROVE IInv'
<1> USE DEF IInv
<1>1. ScansInOrder' /\ OneLives' /\ SinkIsExact' /\ EndStopsTheScan'
  BY ScansUntouched DEF Tick, scanVars, EndStopsTheScan, Accepting, Live
<1>2. HeardOf'
  <2>1. bye' = Never
    BY OlderFacts DEF Tick, HeardOf, TypeOK
  <2>2. ASSUME NEW w \in open' PROVE seen' <= beat'[w]
    <3>1. /\ w \in open /\ w \in Window /\ seen \in Age /\ seen <= beat[w]
          /\ beat[w] \in Nat /\ seen' = Older(seen) /\ beat'[w] = beat[w] + 1
      BY DEF Tick, HeardOf, TypeOK
    <3>2. QED
      BY <3>1, OlderFacts
  <2>3. QED
    BY <2>1, <2>2 DEF HeardOf
<1>3. TypeOK'
  <2>1. seen' \in Age \ {Never} /\ bye' \in Age /\ farewell' \in Age
    <3>1. 0 \in Age
      BY UiAssumption DEF Age, Never
    <3>2. seen' = Older(seen) /\ bye' = Older(bye) /\ farewell' \in {0, Older(farewell)}
      BY DEF Tick
    <3>3. QED
      BY <3>1, <3>2, OlderFacts DEF TypeOK
  <2>2. beat' \in [Window -> 0 .. Heartbeat]
    BY UiAssumption DEF Tick, TypeOK
  <2>3. QED
    BY <2>1, <2>2 DEF Tick, TypeOK, scanVars
<1>4. QED
  BY <1>1, <1>2, <1>3

\* The watch and the end of serve cancel what runs.
LEMMA EndInv == ASSUME IInv, Watch \/ Shutdown \/ CtrlC \/ Exit PROVE IInv'
<1> USE DEF IInv
<1>1. UNCHANGED <<current, asking, run, sink, open, beat, streams, seen, bye, farewell, late>>
  BY DEF Watch, Shutdown, CtrlC, End, Exit, scanVars
<1>2. ScansInOrder' /\ OneLives' /\ SinkIsExact' /\ HeardOf'
  BY <1>1, ScansUntouched DEF HeardOf
<1>3. TypeOK'
  <2>1. cancel' \subseteq Scans
    BY DEF Watch, Shutdown, CtrlC, End, Exit, CancelledAtEnd, TypeOK, scanVars
  <2>2. serving' \in {"serving", "shutting_down", "closing", "ended"} /\ looked' \in BOOLEAN
    BY DEF Watch, Shutdown, CtrlC, End, Exit, TypeOK
  <2>3. QED
    BY <1>1, <2>1, <2>2 DEF TypeOK
<1>4. EndStopsTheScan'
  <2>1. CASE Watch
    BY <2>1 DEF Watch, EndStopsTheScan, Accepting
  <2>2. CASE Shutdown \/ CtrlC
    <3>1. End
      BY <2>2 DEF Shutdown, CtrlC
    <3>2. ASSUME NEW s \in Scans, Live(s) PROVE s \in cancel'
      <4>1. s = current /\ s # None
        BY <3>2 DEF OneLives, Scans, None
      <4>2. QED
        BY <3>1, <4>1 DEF End, CancelledAtEnd
    <3>3. QED
      BY <1>1, <3>2 DEF EndStopsTheScan, Live
  <2>3. CASE Exit
    BY <2>3 DEF Exit, EndStopsTheScan, Accepting, Live, scanVars
  <2>4. QED
    BY <2>1, <2>2, <2>3
<1>5. QED
  BY <1>2, <1>3, <1>4

-----------------------------------------------------------------------------
(* Scans: asking for one, starting it, stopping it, and its thread.        *)

\* The first check of start_scan, and stop.
LEMMA AskInv == ASSUME IInv, NEW w \in Window, Ask(w) \/ Stop PROVE IInv'
<1> USE DEF IInv
<1>1. ScansInOrder' /\ OneLives' /\ SinkIsExact'
  BY ScansUntouched DEF Ask, Stop
<1>2. EndStopsTheScan'
  BY DEF Ask, Stop, EndStopsTheScan, Accepting, Live
<1>3. TypeOK' /\ HeardOf'
  <2> USE UiAssumption DEF TypeOK, HeardOf, Touch, Age, Never
  <2>1. CASE Ask(w)
    BY <2>1 DEF Ask
  <2>2. CASE Stop
    <3>1. current \in Scans
      BY <2>2 DEF Stop, Running
    <3>2. QED
      BY <2>2, <3>1 DEF Stop
  <2>3. QED
    BY <2>1, <2>2
<1>4. QED
  BY <1>1, <1>2, <1>3

\* The second check, under the lock: only one of two requests gets through.
LEMMA CreateInv == ASSUME IInv, NEW w \in Window, Create(w) PROVE IInv'
<1> USE DEF IInv
<1>1. HeardOf'
  BY DEF Create, HeardOf
<1>2. CASE ~MayStart /\ UNCHANGED <<current, run, streams, late>>
  <2>1. ScansInOrder' /\ OneLives' /\ SinkIsExact'
    BY <1>2, ScansUntouched DEF Create
  <2>2. TypeOK'
    BY <1>2 DEF Create, TypeOK
  <2>3. EndStopsTheScan'
    BY <1>2 DEF Create, EndStopsTheScan, Accepting, Live
  <2>4. QED
    BY <1>1, <2>1, <2>2, <2>3
<1>3. CASE /\ MayStart /\ NewScan \in Scans
           /\ current' = NewScan
           /\ run' = [run EXCEPT ![NewScan] = "created"]
           /\ streams' = streams \cup (open \cap {w})
           /\ late' = IF Accepting THEN late ELSE late \cup {NewScan}
  <2> DEFINE n == current + 1
  <2>1. /\ n \in Scans /\ current' = n /\ run' = [run EXCEPT ![n] = "created"]
        /\ late' = IF Accepting THEN late ELSE late \cup {n}
        /\ UNCHANGED <<sink, serving>>
    BY <1>3, NewScanFollows DEF Create
  <2>2. \A s \in Scans : ~Live(s)
    BY <1>3 DEF MayStart, Running, OneLives, Live, Scans, None
  <2>3. current \in 0 .. MaxScans /\ MaxScans \in Nat
    BY UiAssumption DEF TypeOK, Scans, None
  <2> HIDE DEF n
  <2>4. \A s \in Scans : run'[s] = IF s = n THEN "created" ELSE run[s]
    BY <2>1 DEF TypeOK
  <2>5. TypeOK'
    BY <1>3, <2>1 DEF Create, TypeOK
  <2>6. ScansInOrder'
    BY <2>1, <2>3, <2>4 DEF ScansInOrder, Scans, n
  <2>7. OneLives'
    BY <2>1, <2>2, <2>4 DEF OneLives, Live
  <2>8. SinkIsExact'
    <3>1. sink = None
      BY <2>2 DEF SinkIsExact, Live, TypeOK
    <3>2. QED
      BY <2>1, <2>2, <2>4, <3>1 DEF SinkIsExact, Live
  <2>9. EndStopsTheScan'
    BY <2>1, <2>2, <2>4 DEF EndStopsTheScan, Accepting, Live
  <2>10. QED
    BY <1>1, <2>5, <2>6, <2>7, <2>8, <2>9
<1>4. QED
  BY <1>2, <1>3 DEF Create

\* A scan's thread takes the sink and gives it back.
LEMMA RunJobInv == ASSUME IInv, NEW s \in Scans, RunJob(s) PROVE IInv'
<1> USE DEF IInv
<1>1. UNCHANGED <<current, cancel, lifeVars, late>>
  BY DEF RunJob
<1>2. Live(s) /\ s = current /\ s # None
  BY DEF RunJob, At, Ending, Live, OneLives, Scans, None
<1>3. PICK to \in {"scanning", "scanned", "cleared", "closed"} :
        /\ run' = [run EXCEPT ![s] = to]
        /\ sink' = IF to = "scanning" THEN s ELSE IF to = "cleared" THEN None ELSE sink
        /\ to = "scanned" => run[s] = "scanning"
        /\ to = "closed" => run[s] = "cleared"
  BY DEF RunJob, At, Ending
<1>4. \A r \in Scans : run'[r] = IF r = s THEN to ELSE run[r]
  BY <1>3 DEF TypeOK
<1>5. \A r \in Scans \ {s} : run[r] \in {"none", "closed"}
  BY <1>2 DEF OneLives, Live
<1>6. TypeOK'
  <2>1. sink' \in Scans \cup {None}
    BY <1>3 DEF TypeOK
  <2>2. run' \in [Scans -> {"none", "created", "scanning", "scanned", "cleared", "closed"}]
    BY <1>3 DEF TypeOK
  <2>3. QED
    BY <2>1, <2>2 DEF RunJob, TypeOK, lifeVars
<1>7. ScansInOrder' /\ OneLives'
  BY <1>1, <1>2, <1>3, <1>4 DEF ScansInOrder, OneLives, Live
<1>8. SinkIsExact'
  <2>1. sink = None \/ sink = s
    BY <1>5 DEF SinkIsExact, TypeOK
  <2>2. QED
    BY <1>2, <1>3, <1>4, <1>5, <2>1 DEF SinkIsExact
<1>9. EndStopsTheScan' /\ HeardOf'
  BY <1>1, <1>2, <1>4 DEF EndStopsTheScan, Accepting, HeardOf, Live, lifeVars
<1>10. QED
  BY <1>6, <1>7, <1>8, <1>9

-----------------------------------------------------------------------------
(* The theorems.                                                           *)

\* Every step keeps the invariant.
LEMMA NextInv == IInv /\ [Next]_vars => IInv'
<1> SUFFICES ASSUME IInv, [Next]_vars PROVE IInv'
  OBVIOUS
<1>1. CASE UNCHANGED vars
  BY <1>1 DEF vars, scanVars, lifeVars, IInv, TypeOK, ScansInOrder, OneLives, SinkIsExact,
              EndStopsTheScan, HeardOf, Live, Accepting
<1>2. ASSUME NEW w \in Window,
             \/ Open(w) \/ Beat(w) \/ Goodbye(w) \/ Vanish(w)
             \/ StreamWrite(w) \/ StreamEnds(w) \/ Reconnect(w)
      PROVE  IInv'
  BY <1>2, LifeInv
<1>3. ASSUME NEW w \in Window, Ask(w) PROVE IInv'
  BY <1>3, AskInv
<1>4. ASSUME NEW w \in Window, Create(w) PROVE IInv'
  BY <1>4, CreateInv
<1>5. ASSUME NEW s \in Scans, RunJob(s) PROVE IInv'
  BY <1>5, RunJobInv
<1>6. CASE Stop
  BY <1>6, AskInv DEF Stop, IInv, TypeOK
<1>7. CASE Tick
  BY <1>7, TickInv
<1>8. CASE Watch \/ Shutdown \/ CtrlC \/ Exit
  BY <1>8, EndInv
<1>9. QED
  BY <1>1, <1>2, <1>3, <1>4, <1>5, <1>6, <1>7, <1>8 DEF Next, Terminated

\* IInv is an invariant: TypeOK, and what App promises of its scans, its sink of
\* log lines and its windows, for every number of windows and of scans.
THEOREM UiInvariant == Spec => []IInv
<1>1. QED
  BY InitInv, NextInv, PTL DEF Spec

\* start_scan: whatever windows ask at once, one scan runs, and it is App.job.
THEOREM OneScanRuns == Spec => []OneScanAtATime
<1>1. IInv => OneScanAtATime
  BY DEF IInv, OneLives, OneScanAtATime
<1>2. QED
  BY <1>1, UiInvariant, PTL

\* _run_job: the process-wide sink is the scan that scans, and no ended one.
THEOREM LogLinesAlwaysGoHome == Spec => []LogLinesGoHome
<1>1. IInv => LogLinesGoHome
  BY DEF IInv, SinkIsExact, LogLinesGoHome, Live
<1>2. QED
  BY <1>1, UiInvariant, PTL

\* serve: its `finally` leaves no scan running uncancelled that was started before it.
THEOREM TheEndStopsTheScan == Spec => []EndStopsTheScan
<1>1. IInv => EndStopsTheScan
  BY DEF IInv
<1>2. QED
  BY <1>1, UiInvariant, PTL

\* _watch: the server is not ended while a window is open, because the heartbeats
\* of an open window come more often than IDLE_LIMIT.
THEOREM OpenWindowsAreServed == Spec => NobodyIsCutOff
<1>1. IInv /\ [Next]_vars => (serving = "serving" /\ serving' = "shutting_down" => open = {})
  <2> SUFFICES ASSUME IInv, [Next]_vars, serving = "serving", serving' = "shutting_down"
               PROVE  open = {}
    OBVIOUS
  <2>1. Watch /\ NobodyLeft
    BY DEF Next, vars, lifeVars, Open, Beat, Goodbye, Vanish, StreamWrite, StreamEnds, Reconnect,
           Ask, Create, RunJob, Stop, Tick, Watch, Shutdown, CtrlC, End, Exit, Terminated
  <2>2. ASSUME NEW w \in open PROVE FALSE
    <3>1. seen <= beat[w] /\ beat[w] \in 0 .. Heartbeat /\ seen \in Age /\ bye = Never
      BY DEF IInv, HeardOf, TypeOK
    <3>2. seen > IDLE_LIMIT \/ bye > IDLE_GRACE
      BY <2>1 DEF NobodyLeft
    <3>3. QED
      BY <3>1, <3>2, UiAssumption DEF Age, Never
  <2>3. QED
    BY <2>2
<1>2. QED
  BY <1>1, UiInvariant, PTL DEF Spec, NobodyIsCutOff

-----------------------------------------------------------------------------
(***************************************************************************)
(* The event streams of one scan (EventStream).                            *)
(***************************************************************************)
(* The inductive invariant.                                                *)

Chunks == Seq([id : Nat, event : Event])

\* The scan is closed, and its last event is among the first n.
EndBy(n) == stage = "closed" /\ \E i \in DOMAIN events : events[i].type \in Final /\ i <= n

\* A scan that is over has recorded its last event: chatter alone is dropped.
FinalRecorded ==
  stage \in {"ended", "closed"} => \E i \in DOMAIN events : events[i].type \in Final

\* A request thread stands at a place in the events, its batch is what follows, and
\* a last batch holds the end.
ThreadExact(c) ==
  /\ conn[c].pc # "free" => conn[c].index <= Len(events)
  /\ conn[c].pc = "write" =>
       /\ conn[c].index + Len(conn[c].batch) <= Len(events)
       /\ \A i \in 1 .. Len(conn[c].batch) : conn[c].batch[i] = events[conn[c].index + i]
       /\ conn[c].last => EndBy(conn[c].index + Len(conn[c].batch))

\* A page has seen the first events, one by one.
GotExact(p) ==
  /\ page[p].id <= Len(events) /\ Len(page[p].got) = page[p].id
  /\ \A i \in 1 .. page[p].id : page[p].got[i] = events[i]

\* What is on its way to an open page follows what it has seen; what comes next is
\* where the thread stands, and without a thread the end was sent.
WireExact(p) ==
  page[p].es = "open" =>
    LET c == page[p].on IN
      /\ c \in Conns
      /\ page[p].id + Len(wire[c]) <= Len(events)
      /\ \A k \in 1 .. Len(wire[c]) :
           wire[c][k].id = page[p].id + k /\ wire[c][k].event = events[page[p].id + k]
      /\ conn[c].pc # "free" => conn[c].index = page[p].id + Len(wire[c])
      /\ conn[c].pc = "free" => EndBy(page[p].id + Len(wire[c]))

\* A connection has one reader, and without a reader nothing is on its way.
OneReader ==
  /\ \A c \in Conns : ~Read(c) => wire[c] = <<>>
  /\ \A p, q \in Page : page[p].es = "open" /\ page[q].es = "open" /\ page[p].on = page[q].on => p = q

SInv ==
  /\ SlotsAreExact /\ FinalRecorded /\ OneReader
  /\ \A c \in Conns : ThreadExact(c)
  /\ \A p \in Page : GotExact(p) /\ WireExact(p)

-----------------------------------------------------------------------------
(* Lemmas.                                                                 *)

\* The recorded events only grow.
Grows ==
  /\ Len(events) <= Len(events')
  /\ \A i \in 1 .. Len(events) : events'[i] = events[i]

\* The sequences and their lengths, for the provers.
LEMMA LengthFacts ==
  ASSUME StreamTypeOK
  PROVE  /\ Len(events) \in Nat /\ DOMAIN events = 1 .. Len(events)
         /\ \A c \in Conns : Len(wire[c]) \in Nat /\ DOMAIN wire[c] = 1 .. Len(wire[c])
         /\ \A c \in Conns : Len(conn[c].batch) \in Nat
         /\ \A p \in Page : Len(page[p].got) \in Nat
<1>1. ASSUME NEW c \in Conns
      PROVE  /\ Len(wire[c]) \in Nat /\ DOMAIN wire[c] = 1 .. Len(wire[c])
             /\ Len(conn[c].batch) \in Nat
  <2>1. wire[c] \in Seq([id : Nat, event : Event]) /\ conn[c].batch \in Seq(Event)
    BY DEF StreamTypeOK
  <2>2. QED
    BY <2>1, LenProperties
<1>2. ASSUME NEW p \in Page PROVE Len(page[p].got) \in Nat
  <2>1. page[p].got \in Seq(Event)
    BY DEF StreamTypeOK
  <2>2. QED
    BY <2>1, LenProperties
<1>3. Len(events) \in Nat /\ DOMAIN events = 1 .. Len(events)
  BY LenProperties DEF StreamTypeOK
<1>4. QED
  BY <1>1, <1>2, <1>3

\* What follows the first n elements.
LEMMA SuffixFacts ==
  ASSUME NEW S, NEW s \in Seq(S), NEW n \in Nat, n <= Len(s)
  PROVE  /\ SubSeq(s, n + 1, Len(s)) \in Seq(S)
         /\ Len(SubSeq(s, n + 1, Len(s))) = Len(s) - n
         /\ \A i \in 1 .. Len(s) - n : SubSeq(s, n + 1, Len(s))[i] = s[n + i]
<1>1. Len(s) \in Nat /\ \A i \in 1 .. Len(s) : s[i] \in S
  BY LenProperties, ElementOfSeq
<1>2. n + 1 \in Int /\ Len(s) \in Int /\ \A i \in n + 1 .. Len(s) : s[i] \in S
  BY <1>1
<1>3. /\ SubSeq(s, n + 1, Len(s)) \in Seq(S)
      /\ Len(SubSeq(s, n + 1, Len(s))) = IF n + 1 <= Len(s) THEN Len(s) - (n + 1) + 1 ELSE 0
      /\ \A i \in 1 .. Len(s) - (n + 1) + 1 :
           SubSeq(s, n + 1, Len(s))[i] = s[(n + 1) + i - 1]
  BY <1>2, SubSeqProperties
<1>4. QED
  BY <1>1, <1>3

\* The first of what is on its way, and the rest.
LEMMA HeadFacts ==
  ASSUME NEW S, NEW s \in Seq(S), s # <<>>
  PROVE  /\ Head(s) = s[1] /\ s[1] \in S /\ Len(s) \in Nat \ {0}
         /\ Tail(s) \in Seq(S) /\ Len(Tail(s)) = Len(s) - 1
         /\ \A k \in 1 .. Len(s) - 1 : Tail(s)[k] = s[k + 1]
<1>1. Len(s) \in Nat /\ Len(s) # 0
  BY LenProperties, EmptySeq
<1>2. QED
  BY <1>1, HeadTailProperties

\* Job.emit appends, or drops chatter.
LEMMA EmitFacts ==
  ASSUME StreamTypeOK, NEW type \in EventType, events' = Emit(type)
  PROVE  /\ events' \in Seq(Event) /\ Grows
         /\ type \in Essential => events' # events /\ events'[Len(events) + 1].type = type
                                  /\ Len(events') = Len(events) + 1
<1> DEFINE e == [type |-> type, nth |-> Len(events)]
<1>1. Len(events) \in Nat /\ events \in Seq(Event)
  BY LengthFacts DEF StreamTypeOK
<1>2. e \in Event
  BY <1>1 DEF Event
<1>3. CASE events' = events
  <2>1. (Len(events) >= MAX_EVENTS /\ type \notin Essential) \/ events = Append(events, e)
    BY <1>3 DEF Emit
  <2>2. Len(Append(events, e)) = Len(events) + 1
    BY <1>1, <1>2
  <2>3. type \notin Essential
    BY <2>1, <2>2, <1>1
  <2>4. QED
    BY <1>1, <1>3, <2>3 DEF Grows
<1>4. CASE events' = Append(events, e)
  <2>1. /\ events' \in Seq(Event) /\ Len(events') = Len(events) + 1
        /\ \A i \in 1 .. Len(events) : events'[i] = events[i]
        /\ events'[Len(events) + 1] = e
    BY <1>1, <1>2, <1>4
  <2>2. QED
    BY <1>1, <2>1 DEF Grows
<1>5. QED
  BY <1>3, <1>4 DEF Emit

\* The connection that Connect takes is one of those it may take.
LEMMA UnusedFacts ==
  ASSUME Unused # {}
  PROVE  Min(Unused) \in Unused
<1>1. Unused \subseteq Nat
  BY DEF Unused, Conns
<1>2. \E n \in Unused : \A m \in Unused : n <= m
  BY <1>1, LeastNatural
<1>3. QED
  BY <1>2 DEF Min

\* The threads that serve a stream.
Serving == {c \in Conns : conn[c].pc \in {"collect", "write"}}

\* The streams that are served are finite in number.
LEMMA ServingFinite == IsFiniteSet(Serving) /\ Cardinality(Serving) \in Nat
<1>1. IsFiniteSet(Conns)
  BY StreamAssumption, FS_Interval DEF Conns
<1>2. Serving \in SUBSET Conns
  BY DEF Serving
<1>3. IsFiniteSet(Serving)
  BY <1>1, <1>2, FS_Subset
<1>4. QED
  BY <1>3, FS_CardinalityType

\* What holds of a thread and of a page is kept while the scan goes on.
LEMMA Stable ==
  ASSUME SInv, StreamTypeOK', FinalRecorded', Grows, stage = "closed" => stage' = "closed",
         UNCHANGED <<conn, wire, sse_clients, page>>
  PROVE  SInv'
<1> USE DEF SInv
<1>0. StreamTypeOK
  BY DEF SlotsAreExact
<1>1. /\ Len(events) \in Nat /\ DOMAIN events = 1 .. Len(events)
      /\ Len(events') \in Nat /\ DOMAIN events' = 1 .. Len(events')
  BY <1>0, LenProperties DEF StreamTypeOK
<1>2. \A n : EndBy(n) => EndBy(n)'
  BY <1>1 DEF EndBy, Grows
<1>3. ASSUME NEW c \in Conns PROVE ThreadExact(c)'
  <2>1. Len(conn[c].batch) \in Nat /\ conn[c].index \in Nat
    BY <1>0, LengthFacts DEF StreamTypeOK
  <2>2. ThreadExact(c)
    OBVIOUS
  <2>3. conn[c].pc # "free" => conn[c].index <= Len(events')
    BY <1>1, <2>1, <2>2 DEF ThreadExact, Grows
  <2>4. ASSUME conn[c].pc = "write"
        PROVE  /\ conn[c].index + Len(conn[c].batch) <= Len(events')
               /\ \A i \in 1 .. Len(conn[c].batch) : conn[c].batch[i] = events'[conn[c].index + i]
    <3>1. /\ conn[c].index + Len(conn[c].batch) <= Len(events)
          /\ \A i \in 1 .. Len(conn[c].batch) : conn[c].batch[i] = events[conn[c].index + i]
      BY <2>2, <2>4 DEF ThreadExact
    <3>2. \A i \in 1 .. Len(conn[c].batch) : conn[c].index + i \in 1 .. Len(events)
      BY <1>1, <2>1, <3>1
    <3>3. conn[c].index + Len(conn[c].batch) <= Len(events')
      <4>1. PICK k \in Nat : k = conn[c].index + Len(conn[c].batch)
        BY <2>1
      <4>2. k <= Len(events)
        BY <3>1, <4>1
      <4>3. Len(events) \in Nat /\ Len(events') \in Nat /\ Len(events) <= Len(events')
        BY <1>1 DEF Grows
      <4>4. QED
        BY <4>1, <4>2, <4>3
    <3>4. ASSUME NEW i \in 1 .. Len(conn[c].batch)
          PROVE  conn[c].batch[i] = events'[conn[c].index + i]
      <4>1. events'[conn[c].index + i] = events[conn[c].index + i]
        BY <3>2 DEF Grows
      <4>2. QED
        BY <3>1, <4>1
    <3>5. QED
      BY <3>3, <3>4
  <2>5. conn[c].pc = "write" /\ conn[c].last => EndBy(conn[c].index + Len(conn[c].batch))'
    BY <1>2, <2>2 DEF ThreadExact
  <2>6. QED
    BY <2>3, <2>4, <2>5 DEF ThreadExact
<1>4. ASSUME NEW p \in Page PROVE GotExact(p)' /\ WireExact(p)'
  <2>1. page[p].id \in Nat /\ GotExact(p) /\ WireExact(p)
    BY <1>0 DEF StreamTypeOK
  <2>2. GotExact(p)'
    BY <1>1, <2>1 DEF GotExact, Grows
  <2>3. ASSUME page[p].es = "open" PROVE WireExact(p)'
    <3> DEFINE c == page[p].on
    <3>1. /\ c \in Conns /\ page[p].id + Len(wire[c]) <= Len(events)
          /\ \A k \in 1 .. Len(wire[c]) :
               wire[c][k].id = page[p].id + k /\ wire[c][k].event = events[page[p].id + k]
          /\ conn[c].pc # "free" => conn[c].index = page[p].id + Len(wire[c])
          /\ conn[c].pc = "free" => EndBy(page[p].id + Len(wire[c]))
      BY <2>1, <2>3 DEF WireExact
    <3>2. Len(wire[c]) \in Nat
      BY <1>0, <3>1, LengthFacts
    <3>3. page[p].id + Len(wire[c]) <= Len(events') /\ page[p].id + Len(wire[c]) <= Len(events)
      <4>1. PICK n \in Nat : n = page[p].id + Len(wire[c])
        BY <2>1, <3>2
      <4>2. Len(events) <= Len(events') /\ n <= Len(events)
        BY <3>1, <4>1 DEF Grows
      <4>3. QED
        BY <1>1, <4>1, <4>2
    <3>4. \A k \in 1 .. Len(wire[c]) : events'[page[p].id + k] = events[page[p].id + k]
      <4>1. \A k \in 1 .. Len(wire[c]) : page[p].id + k \in 1 .. Len(events)
        <5> HIDE DEF c
        <5>1. PICK i \in Nat, n \in Nat : i = page[p].id /\ n = Len(wire[c])
          BY <2>1, <3>2
        <5>2. \A k \in 1 .. n : i + k \in 1 .. Len(events)
          BY <1>1, <3>3, <5>1
        <5>3. QED
          BY <5>1, <5>2
      <4>2. QED
        BY <4>1 DEF Grows
    <3> HIDE DEF c
    <3>5. page'[p].id + Len(wire'[c]) <= Len(events')
      BY <3>3
    <3>6. QED
      BY <1>2, <3>1, <3>4, <3>5 DEF WireExact, c
  <2>4. QED
    BY <2>2, <2>3 DEF WireExact
<1>5. OneReader' /\ SlotsAreExact'
  BY DEF OneReader, Read, SlotsAreExact
<1>6. QED
  BY <1>3, <1>4, <1>5

\* No page, no stream and no event at the start.
LEMMA StreamInitInv == StreamInit => SInv
<1> SUFFICES ASSUME StreamInit PROVE SInv
  OBVIOUS
<1>1. StreamTypeOK
  <2>1. <<>> \in Seq(Event) /\ <<>> \in Seq([id : Nat, event : Event])
    BY EmptySeq
  <2>2. conn \in [Conns -> [pc : {"free", "collect", "write"}, index : Nat,
                            batch : Seq(Event), last : BOOLEAN]]
    BY <2>1 DEF StreamInit, Idle
  <2>3. page \in [Page -> [es : {"none", "connecting", "open", "finished", "lost"},
                           on : Conns \cup {NoConn}, got : Seq(Event), id : Nat]]
    BY <2>1 DEF StreamInit
  <2>4. wire \in [Conns -> Seq([id : Nat, event : Event])] /\ events \in Seq(Event)
    BY <2>1 DEF StreamInit
  <2>5. sse_clients \in 0 .. MAX_STREAMS /\ breaks \in 0 .. MaxBreaks
    BY StreamAssumption DEF StreamInit
  <2>6. QED
    BY <2>2, <2>3, <2>4, <2>5 DEF StreamInit, StreamTypeOK
<1>2. Serving = {}
  BY DEF StreamInit, Serving, Idle
<1>3. SlotsAreExact
  BY <1>1, <1>2, FS_EmptySet DEF SlotsAreExact, StreamInit, Serving
<1>4. FinalRecorded /\ OneReader
  BY DEF StreamInit, FinalRecorded, OneReader, Read
<1>5. \A c \in Conns : ThreadExact(c)
  BY DEF StreamInit, ThreadExact, Idle
<1>6. \A p \in Page : GotExact(p) /\ WireExact(p)
  BY DEF StreamInit, GotExact, WireExact
<1>7. QED
  BY <1>3, <1>4, <1>5, <1>6 DEF SInv

-----------------------------------------------------------------------------
(* The scan.                                                               *)

\* The scan's thread only adds to the events, or replaces them by none.
LEMMA ScanInv ==
  ASSUME SInv, EmitStart \/ EmitPort \/ EmitLog \/ EmitFinal \/ Close \/ Replace
  PROVE  SInv'
<1>0. StreamTypeOK /\ FinalRecorded
  BY DEF SInv, SlotsAreExact
<1>1. UNCHANGED <<conn, wire, sse_clients, page, breaks>>
  BY DEF EmitStart, EmitPort, EmitLog, EmitFinal, Close, Replace
<1>2. stage = "closed" => stage' = "closed"
  BY DEF EmitStart, EmitPort, EmitLog, EmitFinal, Close, Replace
<1>3. \/ events' = events /\ (stage' = stage \/ (stage = "ended" /\ stage' = "closed"))
      \/ \E type \in EventType \ Final : events' = Emit(type) /\ stage' \in {stage, "scanning"}
      \/ \E type \in Final : events' = Emit(type) /\ stage' = "ended"
  BY DEF EmitStart, EmitPort, EmitLog, EmitFinal, Close, Replace, EventType, Essential, Final
<1>4. events' \in Seq(Event) /\ Grows
  <2>1. CASE events' = events
    BY <1>0, <2>1, LengthFacts DEF StreamTypeOK, Grows
  <2>2. CASE \E type \in EventType : events' = Emit(type)
    BY <1>0, <2>2, EmitFacts
  <2>3. QED
    BY <1>3, <2>1, <2>2 DEF EventType, Essential
<1>5. StreamTypeOK'
  <2>1. stage' \in {"begun", "scanning", "ended", "closed"} /\ replaced' \in BOOLEAN
    BY <1>0 DEF EmitStart, EmitPort, EmitLog, EmitFinal, Close, Replace, StreamTypeOK
  <2>2. QED
    BY <1>0, <1>1, <1>4, <2>1 DEF StreamTypeOK
<1>6. FinalRecorded'
  <2>1. /\ Len(events) \in Nat /\ DOMAIN events = 1 .. Len(events)
        /\ Len(events') \in Nat /\ DOMAIN events' = 1 .. Len(events')
    BY <1>0, <1>4, LenProperties DEF StreamTypeOK
  <2>2. ASSUME FinalRecorded, stage \in {"ended", "closed"} PROVE FinalRecorded'
    BY <1>4, <2>1, <2>2 DEF FinalRecorded, Grows
  <2>3. ASSUME NEW type \in Final, events' = Emit(type) PROVE FinalRecorded'
    <3>1. type \in EventType /\ type \in Essential
      BY DEF EventType, Essential
    <3>2. events'[Len(events) + 1].type = type /\ Len(events') = Len(events) + 1
      BY <1>0, <2>3, <3>1, EmitFacts
    <3>3. QED
      BY <2>1, <3>2 DEF FinalRecorded
  <2>4. ASSUME stage' \notin {"ended", "closed"} PROVE FinalRecorded'
    BY <2>4 DEF FinalRecorded
  <2>5. QED
    BY <1>0, <1>3, <2>2, <2>3, <2>4
<1>7. QED
  BY <1>1, <1>2, <1>4, <1>5, <1>6, Stable

-----------------------------------------------------------------------------
(* A page.                                                                 *)

\* The threads are not moved by a step that leaves them and the scan alone.
LEMMA ThreadsUntouched ==
  ASSUME SInv, UNCHANGED <<stage, events, conn>>
  PROVE  FinalRecorded' /\ \A c \in Conns : ThreadExact(c)'
BY DEF SInv, FinalRecorded, ThreadExact, EndBy

\* A page whose connection is left alone keeps what holds of it.
LEMMA PageUntouched ==
  ASSUME SInv, NEW q \in Page, page'[q] = page[q], UNCHANGED <<stage, events>>,
         page[q].es = "open" => /\ wire'[page[q].on] = wire[page[q].on]
                                /\ conn'[page[q].on] = conn[page[q].on]
  PROVE  GotExact(q)' /\ WireExact(q)'
<1>1. GotExact(q) /\ WireExact(q)
  BY DEF SInv
<1>2. GotExact(q)'
  BY <1>1 DEF GotExact
<1>3. \A n : EndBy(n)' <=> EndBy(n)
  BY DEF EndBy
<1>4. WireExact(q)'
  <2>1. CASE page[q].es = "open"
    <3> DEFINE c == page[q].on
    <3>1. wire'[c] = wire[c] /\ conn'[c] = conn[c] /\ page'[q].on = c /\ page'[q].id = page[q].id
      BY <2>1
    <3>2. QED
      BY <1>1, <1>3, <2>1, <3>1 DEF WireExact
  <2>2. CASE page[q].es # "open"
    BY <2>2 DEF WireExact
  <2>3. QED
    BY <2>1, <2>2
<1>5. QED
  BY <1>2, <1>4

\* A page that opens has seen nothing.
LEMMA AttachInv == ASSUME SInv, NEW p \in Page, Attach(p) PROVE SInv'
<1> USE DEF SInv
<1>0. StreamTypeOK
  BY DEF SlotsAreExact
<1>1. /\ UNCHANGED <<jobVars, conn, wire, sse_clients, breaks>> /\ page[p].es = "none"
      /\ page' = [page EXCEPT ![p].es = "connecting"]
  BY DEF Attach
<1>2. StreamTypeOK'
  BY <1>0, <1>1 DEF StreamTypeOK, jobVars
<1>3. SlotsAreExact'
  BY <1>1, <1>2 DEF SlotsAreExact
<1>4. FinalRecorded' /\ \A c \in Conns : ThreadExact(c)'
  BY <1>1, ThreadsUntouched DEF jobVars
<1>5. \A q \in Page : /\ page'[q].es = "open" <=> page[q].es = "open"
                      /\ page'[q].on = page[q].on /\ page'[q].got = page[q].got
                      /\ page'[q].id = page[q].id
  BY <1>0, <1>1 DEF StreamTypeOK
<1>6. OneReader'
  BY <1>1, <1>5 DEF OneReader, Read
<1>7. ASSUME NEW q \in Page PROVE GotExact(q)' /\ WireExact(q)'
  BY <1>1, <1>5 DEF GotExact, WireExact, EndBy, jobVars
<1>8. QED
  BY <1>3, <1>4, <1>6, <1>7

\* A stream begins after the last event that its page has seen.
LEMMA ConnectInv == ASSUME SInv, NEW p \in Page, Connect(p) PROVE SInv'
<1> USE DEF SInv
<1>0. StreamTypeOK /\ page[p].es = "connecting" /\ UNCHANGED <<jobVars, wire, breaks>>
  BY DEF SlotsAreExact, Connect
<1>1. CASE /\ page' = [page EXCEPT ![p].es = "lost"]
           /\ UNCHANGED <<conn, sse_clients>>
  <2>1. StreamTypeOK'
    BY <1>0, <1>1 DEF StreamTypeOK, jobVars
  <2>2. SlotsAreExact'
    BY <1>1, <2>1 DEF SlotsAreExact
  <2>3. FinalRecorded' /\ \A c \in Conns : ThreadExact(c)'
    BY <1>0, <1>1, ThreadsUntouched DEF jobVars
  <2>4. \A q \in Page : /\ page'[q].es = "open" <=> page[q].es = "open"
                        /\ page'[q].on = page[q].on /\ page'[q].got = page[q].got
                        /\ page'[q].id = page[q].id
    BY <1>0, <1>1 DEF StreamTypeOK
  <2>5. OneReader'
    BY <1>0, <2>4 DEF OneReader, Read
  <2>6. ASSUME NEW q \in Page PROVE GotExact(q)' /\ WireExact(q)'
    BY <1>0, <1>1, <2>4 DEF GotExact, WireExact, EndBy, jobVars
  <2>7. QED
    BY <2>2, <2>3, <2>5, <2>6
<1>2. CASE /\ Room /\ Unused # {} /\ sse_clients' = sse_clients + 1
           /\ conn' = [conn EXCEPT ![Min(Unused)].pc = "collect", ![Min(Unused)].index = page[p].id]
           /\ page' = [page EXCEPT ![p].es = "open", ![p].on = Min(Unused)]
  <2> DEFINE c == Min(Unused)
  <2>1. c \in Conns /\ conn[c].pc = "free" /\ ~Read(c) /\ wire[c] = <<>>
    BY <1>2, UnusedFacts DEF Unused, OneReader
  <2>2. /\ conn' = [conn EXCEPT ![c].pc = "collect", ![c].index = page[p].id]
        /\ page' = [page EXCEPT ![p].es = "open", ![p].on = c]
    BY <1>2
  <2> HIDE DEF c
  <2>3. /\ \A d \in Conns \ {c} : conn'[d] = conn[d]
        /\ conn'[c].pc = "collect" /\ conn'[c].index = page[p].id
        /\ \A q \in Page \ {p} : page'[q] = page[q]
        /\ page'[p].es = "open" /\ page'[p].on = c
        /\ page'[p].got = page[p].got /\ page'[p].id = page[p].id
    BY <1>0, <2>1, <2>2 DEF StreamTypeOK
  <2>4. StreamTypeOK'
    <3>1. sse_clients + 1 \in 0 .. MAX_STREAMS
      BY <1>0, <1>2, StreamAssumption DEF Room, StreamTypeOK
    <3>2. conn' \in [Conns -> [pc : {"free", "collect", "write"}, index : Nat,
                               batch : Seq(Event), last : BOOLEAN]]
      BY <1>0, <2>1, <2>2 DEF StreamTypeOK
    <3>3. page' \in [Page -> [es : {"none", "connecting", "open", "finished", "lost"},
                              on : Conns \cup {NoConn}, got : Seq(Event), id : Nat]]
      BY <1>0, <2>1, <2>2 DEF StreamTypeOK
    <3>4. QED
      BY <1>0, <1>2, <3>1, <3>2, <3>3 DEF StreamTypeOK, jobVars
  <2>5. SlotsAreExact'
    <3>1. Serving' = Serving \cup {c} /\ c \notin Serving
      BY <2>1, <2>3 DEF Serving
    <3>2. Cardinality(Serving') = Cardinality(Serving) + 1
      BY <3>1, ServingFinite, FS_AddElement
    <3>3. QED
      BY <1>2, <2>4, <3>2 DEF SlotsAreExact, Serving
  <2>6. FinalRecorded'
    BY <1>0 DEF FinalRecorded, jobVars
  <2>7. ASSUME NEW d \in Conns PROVE ThreadExact(d)'
    <3>1. CASE d = c
      BY <1>0, <2>3, <3>1 DEF ThreadExact, GotExact, jobVars
    <3>2. CASE d # c
      BY <1>0, <2>3, <3>2 DEF ThreadExact, EndBy, jobVars
    <3>3. QED
      BY <3>1, <3>2
  <2>8. OneReader'
    BY <1>0, <2>1, <2>3 DEF OneReader, Read
  <2>9. ASSUME NEW q \in Page PROVE GotExact(q)' /\ WireExact(q)'
    <3>1. CASE q # p
      <4>1. page[q].es = "open" => page[q].on # c /\ page[q].on \in Conns
        BY <2>1 DEF Read, WireExact
      <4>2. QED
        BY <1>0, <2>3, <3>1, <4>1, PageUntouched DEF jobVars
    <3>2. CASE q = p
      <4>1. GotExact(p)' /\ page[p].id \in Nat /\ page[p].id <= Len(events)
        BY <1>0, <2>3 DEF GotExact, StreamTypeOK, jobVars
      <4>2. Len(wire'[c]) = 0
        BY <1>0, <2>1
      <4>3. WireExact(p)'
        BY <1>0, <2>1, <2>3, <4>1, <4>2 DEF WireExact, jobVars
      <4>4. QED
        BY <3>2, <4>1, <4>3
    <3>3. QED
      BY <3>1, <3>2
  <2>10. QED
    BY <2>5, <2>6, <2>7, <2>8, <2>9
<1>3. QED
  BY <1>1, <1>2 DEF Connect

\* A page reads what comes next, and drops what is left when it closes.
LEMMA ReceiveInv == ASSUME SInv, NEW p \in Page, Receive(p) PROVE SInv'
<1> DEFINE c == page[p].on
           m == Head(wire[c])
           final == m.event.type \in Final
<1>0. /\ StreamTypeOK /\ SlotsAreExact /\ FinalRecorded /\ OneReader
      /\ \A q \in Page : GotExact(q) /\ WireExact(q)
      /\ \A d \in Conns : ThreadExact(d)
  BY DEF SInv, SlotsAreExact
<1>1. /\ page[p].es = "open" /\ wire[c] # <<>>
      /\ page' = [page EXCEPT ![p].got = Append(@, m.event), ![p].id = m.id,
                    ![p].es = IF final THEN "finished" ELSE @]
      /\ wire' = [wire EXCEPT ![c] = IF final THEN <<>> ELSE Tail(@)]
      /\ UNCHANGED <<jobVars, conn, sse_clients, breaks>>
  BY DEF Receive
<1>2. /\ c \in Conns /\ wire[c] \in Chunks /\ Len(wire[c]) \in Nat \ {0}
      /\ Tail(wire[c]) \in Chunks /\ Len(Tail(wire[c])) = Len(wire[c]) - 1
      /\ \A k \in 1 .. Len(wire[c]) - 1 : Tail(wire[c])[k] = wire[c][k + 1]
      /\ m = wire[c][1] /\ m \in [id : Nat, event : Event]
  <2>1. c \in Conns /\ wire[c] \in Chunks
    BY <1>0, <1>1 DEF WireExact, StreamTypeOK, Chunks
  <2> HIDE DEF c
  <2>2. QED
    BY <1>1, <2>1, HeadFacts DEF Chunks
<1> HIDE DEF c
<1>3. /\ page[p].id \in Nat /\ page[p].id + 1 <= Len(events) /\ Len(events) \in Nat
      /\ m.id = page[p].id + 1 /\ m.event = events[page[p].id + 1] /\ m.event \in Event
  <2>1. /\ page[p].id + Len(wire[c]) <= Len(events)
        /\ wire[c][1].id = page[p].id + 1 /\ wire[c][1].event = events[page[p].id + 1]
    BY <1>0, <1>1, <1>2 DEF WireExact, c
  <2>2. QED
    BY <1>0, <1>2, <2>1, LengthFacts DEF StreamTypeOK
<1> HIDE DEF m
<1>4. /\ page[p].got \in Seq(Event) /\ Len(page[p].got) = page[p].id
      /\ Append(page[p].got, m.event) \in Seq(Event)
      /\ Len(Append(page[p].got, m.event)) = page[p].id + 1
      /\ \A i \in 1 .. page[p].id : Append(page[p].got, m.event)[i] = page[p].got[i]
      /\ Append(page[p].got, m.event)[page[p].id + 1] = m.event
  <2>1. page[p].got \in Seq(Event) /\ Len(page[p].got) = page[p].id
    BY <1>0 DEF StreamTypeOK, GotExact
  <2>2. QED
    BY <1>3, <2>1, AppendProperties
<1>5. /\ \A q \in Page \ {p} : page'[q] = page[q]
      /\ page'[p].got = Append(page[p].got, m.event) /\ page'[p].id = m.id
      /\ page'[p].on = c /\ page'[p].es = IF final THEN "finished" ELSE "open"
      /\ \A d \in Conns \ {c} : wire'[d] = wire[d]
      /\ wire'[c] = IF final THEN <<>> ELSE Tail(wire[c])
  BY <1>0, <1>1, <1>2 DEF StreamTypeOK, c
<1> HIDE DEF final
<1>6. StreamTypeOK'
  <2>1. page' \in [Page -> [es : {"none", "connecting", "open", "finished", "lost"},
                            on : Conns \cup {NoConn}, got : Seq(Event), id : Nat]]
    <3>1. m.id \in Nat /\ page[p].es = "open"
      BY <1>1, <1>2
    <3>2. page \in [Page -> [es : {"none", "connecting", "open", "finished", "lost"},
                             on : Conns \cup {NoConn}, got : Seq(Event), id : Nat]]
      BY <1>0 DEF StreamTypeOK
    <3> DEFINE R == [es : {"none", "connecting", "open", "finished", "lost"},
                     on : Conns \cup {NoConn}, got : Seq(Event), id : Nat]
               got1 == Append(page[p].got, m.event)
               id1 == m.id
               es1 == IF final THEN "finished" ELSE "open"
    <3>4. got1 \in Seq(Event) /\ id1 \in Nat /\ es1 \in {"finished", "open"}
      BY <1>4, <3>1
    <3>5. page'[p] = [page[p] EXCEPT !.got = got1, !.id = id1, !.es = es1]
      BY <1>1, <3>1, <3>2
    <3>6. page[p] \in R
      BY <3>2
    <3> HIDE DEF got1, id1, es1
    <3>7. page'[p] \in R
      BY <3>4, <3>5, <3>6
    <3> HIDE DEF R
    <3>8. page' = [q \in Page |-> page'[q]] /\ \A q \in Page \ {p} : page'[q] = page[q]
      BY <1>1, <1>5, <3>2
    <3>9. QED
      BY <3>2, <3>7, <3>8 DEF R
  <2>2. wire' \in [Conns -> Seq([id : Nat, event : Event])]
    <3>1. <<>> \in Chunks
      BY EmptySeq DEF Chunks
    <3>2. QED
      BY <1>0, <1>1, <1>2, <3>1 DEF StreamTypeOK, Chunks
  <2>3. QED
    BY <1>0, <1>1, <2>1, <2>2 DEF StreamTypeOK, jobVars
<1>7. SlotsAreExact'
  BY <1>0, <1>1, <1>6 DEF SlotsAreExact
<1>8. FinalRecorded' /\ \A d \in Conns : ThreadExact(d)'
  BY <1>1, ThreadsUntouched DEF jobVars
<1>9. \A q \in Page \ {p} : page[q].es = "open" => page[q].on # c
  BY <1>0, <1>1 DEF OneReader, c
<1>10. OneReader'
  <2>1. ASSUME NEW d \in Conns, ~Read(d)' PROVE wire'[d] = <<>>
    <3>1. CASE d # c
      <4>1. ~Read(d)
        BY <1>1, <1>5, <2>1, <3>1 DEF Read, c
      <4>2. QED
        BY <1>0, <1>5, <3>1, <4>1 DEF OneReader
    <3>2. CASE d = c
      BY <1>5, <2>1, <3>2 DEF Read
    <3>3. QED
      BY <3>1, <3>2
  <2>2. \A q \in Page : page'[q].es = "open" => page[q].es = "open" /\ page'[q].on = page[q].on
    BY <1>1, <1>5 DEF c
  <2>3. QED
    BY <1>0, <2>1, <2>2 DEF OneReader
<1>11. ASSUME NEW q \in Page PROVE GotExact(q)' /\ WireExact(q)'
  <2>1. CASE q # p
    <3>1. page[q].es = "open" => page[q].on \in Conns \ {c}
      BY <1>0, <1>9, <2>1 DEF WireExact
    <3>2. QED
      BY <1>1, <1>5, <2>1, <3>1, PageUntouched DEF jobVars
  <2>2. GotExact(p)'
    <3>1. events' = events /\ \A i \in 1 .. page[p].id : page[p].got[i] = events[i]
      BY <1>0, <1>1 DEF GotExact, jobVars
    <3>2. \A i \in 1 .. page[p].id + 1 : i \in 1 .. page[p].id \/ i = page[p].id + 1
      BY <1>3
    <3>3. \A i \in 1 .. page[p].id + 1 : page'[p].got[i] = events[i]
      BY <1>3, <1>4, <1>5, <3>1, <3>2
    <3>4. page'[p].id = page[p].id + 1 /\ Len(page'[p].got) = page[p].id + 1
      BY <1>3, <1>4, <1>5
    <3>5. QED
      BY <1>3, <3>1, <3>3, <3>4 DEF GotExact
  <2>3. WireExact(p)'
    <3>1. CASE final
      BY <1>5, <3>1 DEF WireExact
    <3>2. CASE ~final
      <4>1. /\ page'[p].on = c /\ page'[p].id = page[p].id + 1 /\ wire'[c] = Tail(wire[c])
            /\ conn'[c] = conn[c] /\ events' = events /\ \A n : EndBy(n)' <=> EndBy(n)
        BY <1>1, <1>3, <1>5, <3>2 DEF EndBy, jobVars
      <4>2. /\ page[p].id + Len(wire[c]) <= Len(events)
            /\ \A k \in 1 .. Len(wire[c]) :
                 wire[c][k].id = page[p].id + k /\ wire[c][k].event = events[page[p].id + k]
            /\ conn[c].pc # "free" => conn[c].index = page[p].id + Len(wire[c])
            /\ conn[c].pc = "free" => EndBy(page[p].id + Len(wire[c]))
        BY <1>0, <1>1 DEF WireExact, c
      <4>3. page[p].id + 1 + Len(Tail(wire[c])) = page[p].id + Len(wire[c])
        <5>1. Len(Tail(wire[c])) = Len(wire[c]) - 1 /\ Len(wire[c]) \in Nat \ {0}
          BY <1>2
        <5>2. page[p].id \in Nat
          BY <1>3
        <5>3. QED
          BY <5>1, <5>2
      <4>4. ASSUME NEW k \in 1 .. Len(Tail(wire[c]))
            PROVE  /\ Tail(wire[c])[k].id = page[p].id + 1 + k
                   /\ Tail(wire[c])[k].event = events[page[p].id + 1 + k]
        <5>1. k + 1 \in 1 .. Len(wire[c]) /\ k \in 1 .. Len(wire[c]) - 1 /\ k \in Nat
          BY <1>2
        <5>2. Tail(wire[c])[k] = wire[c][k + 1]
          BY <1>2, <5>1
        <5>3. page[p].id + (k + 1) = page[p].id + 1 + k
          BY <1>3, <5>1
        <5>4. QED
          BY <4>2, <5>1, <5>2, <5>3
      <4>5. QED
        BY <1>2, <4>1, <4>2, <4>3, <4>4 DEF WireExact
    <3>3. QED
      BY <3>1, <3>2
  <2>4. QED
    BY <2>1, <2>2, <2>3
<1>12. QED
  BY <1>7, <1>8, <1>10, <1>11 DEF SInv

\* What is on the wire is lost; what was read is not.
LEMMA BreakInv == ASSUME SInv, NEW p \in Page, Break(p) PROVE SInv'
<1> DEFINE c == page[p].on
<1>0. /\ StreamTypeOK /\ SlotsAreExact /\ FinalRecorded /\ OneReader
      /\ \A q \in Page : GotExact(q) /\ WireExact(q)
  BY DEF SInv, SlotsAreExact
<1>1. /\ page[p].es = "open" /\ breaks < MaxBreaks /\ c \in Conns
      /\ page' = [page EXCEPT ![p].es = "connecting", ![p].on = NoConn]
      /\ wire' = [wire EXCEPT ![c] = <<>>] /\ breaks' = breaks + 1
      /\ UNCHANGED <<jobVars, conn, sse_clients>>
  BY <1>0 DEF Break, WireExact
<1>2. /\ \A q \in Page \ {p} : page'[q] = page[q]
      /\ page'[p].es = "connecting" /\ page'[p].got = page[p].got /\ page'[p].id = page[p].id
      /\ \A d \in Conns \ {c} : wire'[d] = wire[d]
      /\ wire'[c] = <<>>
  BY <1>0, <1>1 DEF StreamTypeOK
<1>3. StreamTypeOK'
  <2>1. <<>> \in Seq([id : Nat, event : Event])
    BY EmptySeq
  <2>2. wire' \in [Conns -> Seq([id : Nat, event : Event])]
    BY <1>0, <1>1, <2>1 DEF StreamTypeOK
  <2>3. breaks' \in 0 .. MaxBreaks
    BY <1>0, <1>1, StreamAssumption DEF StreamTypeOK
  <2>4. QED
    BY <1>0, <1>1, <2>2, <2>3 DEF StreamTypeOK, jobVars
<1> HIDE DEF c
<1>4. SlotsAreExact'
  BY <1>0, <1>1, <1>3 DEF SlotsAreExact
<1>5. FinalRecorded' /\ \A d \in Conns : ThreadExact(d)'
  BY <1>1, ThreadsUntouched DEF jobVars
<1>6. \A q \in Page \ {p} : page[q].es = "open" => page[q].on # c
  BY <1>0, <1>1 DEF OneReader, c
<1>7. OneReader'
  <2>1. ASSUME NEW d \in Conns, ~Read(d)' PROVE wire'[d] = <<>>
    <3>1. CASE d # c
      <4>1. ~Read(d)
        BY <1>2, <2>1, <3>1 DEF Read, c
      <4>2. QED
        BY <1>0, <1>2, <3>1, <4>1 DEF OneReader
    <3>2. CASE d = c
      BY <1>2, <3>2
    <3>3. QED
      BY <3>1, <3>2
  <2>2. \A q \in Page : page'[q].es = "open" => q # p /\ page'[q] = page[q]
    BY <1>2
  <2>3. QED
    BY <1>0, <2>1, <2>2 DEF OneReader
<1>8. ASSUME NEW q \in Page PROVE GotExact(q)' /\ WireExact(q)'
  <2>1. CASE q # p
    <3>1. page[q].es = "open" => page[q].on \in Conns \ {c}
      BY <1>0, <1>6, <2>1 DEF WireExact
    <3>2. QED
      BY <1>1, <1>2, <2>1, <3>1, PageUntouched DEF jobVars
  <2>2. CASE q = p
    <3>1. GotExact(p)'
      <4>1. GotExact(p) /\ events' = events
        BY <1>0, <1>1 DEF jobVars
      <4>2. QED
        BY <1>2, <4>1 DEF GotExact
    <3>2. WireExact(p)'
      BY <1>2 DEF WireExact
    <3>3. QED
      BY <2>2, <3>1, <3>2
  <2>3. QED
    BY <2>1, <2>2
<1>9. QED
  BY <1>4, <1>5, <1>7, <1>8 DEF SInv

-----------------------------------------------------------------------------
(* A request thread.                                                       *)

\* What a request thread has missed follows the place where it stands.
LEMMA MissedFacts ==
  ASSUME StreamTypeOK, NEW c \in Conns, conn[c].index <= Len(events)
  PROVE  /\ Missed(c) \in Seq(Event) /\ Len(Missed(c)) = Len(events) - conn[c].index
         /\ \A i \in 1 .. Len(Missed(c)) : Missed(c)[i] = events[conn[c].index + i]
<1>1. conn[c].index \in Nat /\ events \in Seq(Event) /\ Len(events) \in Nat
  BY LengthFacts DEF StreamTypeOK
<1>2. /\ Missed(c) \in Seq(Event) /\ Len(Missed(c)) = Len(events) - conn[c].index
      /\ \A i \in 1 .. Len(events) - conn[c].index : Missed(c)[i] = events[conn[c].index + i]
  BY <1>1, SuffixFacts DEF Missed
<1>3. QED
  BY <1>2

\* A batch is the events from the stream's index on.
LEMMA CollectInv == ASSUME SInv, NEW c \in Conns, Collect(c) PROVE SInv'
<1>0. /\ StreamTypeOK /\ SlotsAreExact /\ FinalRecorded /\ OneReader
      /\ \A q \in Page : GotExact(q) /\ WireExact(q)
      /\ \A d \in Conns : ThreadExact(d)
  BY DEF SInv, SlotsAreExact
<1>1. /\ conn[c].pc = "collect" /\ UNCHANGED <<jobVars, wire, sse_clients, page, breaks>>
      /\ conn' = [conn EXCEPT ![c].pc = "write", ![c].batch = Missed(c), ![c].last = (stage = "closed")]
  BY DEF Collect
<1>2. conn[c].index <= Len(events) /\ conn[c].index \in Nat /\ Len(events) \in Nat
  BY <1>0, <1>1, LengthFacts DEF ThreadExact, StreamTypeOK
<1>3. /\ \A d \in Conns \ {c} : conn'[d] = conn[d]
      /\ conn'[c].pc = "write" /\ conn'[c].index = conn[c].index
      /\ conn'[c].batch = Missed(c) /\ conn'[c].last = (stage = "closed")
  BY <1>0, <1>1 DEF StreamTypeOK
<1>4. /\ Missed(c) \in Seq(Event) /\ Len(Missed(c)) = Len(events) - conn[c].index
      /\ \A i \in 1 .. Len(Missed(c)) : Missed(c)[i] = events[conn[c].index + i]
  BY <1>0, <1>2, MissedFacts
<1>5. StreamTypeOK'
  <2>1. (stage = "closed") \in BOOLEAN
    OBVIOUS
  <2>2. conn' \in [Conns -> [pc : {"free", "collect", "write"}, index : Nat,
                             batch : Seq(Event), last : BOOLEAN]]
    <3>1. conn \in [Conns -> [pc : {"free", "collect", "write"}, index : Nat,
                              batch : Seq(Event), last : BOOLEAN]]
      BY <1>0 DEF StreamTypeOK
    <3> DEFINE R == [pc : {"free", "collect", "write"}, index : Nat,
                     batch : Seq(Event), last : BOOLEAN]
    <3>2. ASSUME NEW r \in R, NEW batch \in Seq(Event), NEW last \in BOOLEAN
          PROVE  [r EXCEPT !.pc = "write", !.batch = batch, !.last = last] \in R
      OBVIOUS
    <3>3. conn'[c] = [conn[c] EXCEPT !.pc = "write", !.batch = Missed(c), !.last = (stage = "closed")]
      BY <1>1, <3>1
    <3> HIDE DEF R
    <3>4. conn'[c] \in R
      BY <1>4, <2>1, <3>1, <3>2, <3>3 DEF R
    <3>5. conn' = [d \in Conns |-> conn'[d]]
      BY <1>1, <3>1
    <3>6. QED
      BY <1>3, <3>1, <3>4, <3>5 DEF R
  <2>3. QED
    BY <1>0, <1>1, <2>2 DEF StreamTypeOK, jobVars
<1>6. SlotsAreExact'
  <2>1. Serving' = Serving
    BY <1>1, <1>3 DEF Serving
  <2>2. QED
    BY <1>0, <1>1, <1>5, <2>1 DEF SlotsAreExact, Serving
<1>7. FinalRecorded' /\ OneReader'
  BY <1>0, <1>1 DEF FinalRecorded, OneReader, Read, jobVars
<1>8. ASSUME NEW d \in Conns PROVE ThreadExact(d)'
  <2>1. CASE d # c
    <3>1. ThreadExact(d) /\ conn'[d] = conn[d] /\ UNCHANGED <<stage, events>>
      BY <1>0, <1>1, <1>3, <2>1 DEF jobVars
    <3>2. QED
      BY <3>1 DEF ThreadExact, EndBy
  <2>2. ThreadExact(c)'
    <3>1. conn[c].index + Len(Missed(c)) = Len(events)
      BY <1>2, <1>4
    <3>2. stage = "closed" => EndBy(Len(events))
      BY <1>0, LengthFacts DEF FinalRecorded, EndBy
    <3>3. UNCHANGED <<stage, events>>
      BY <1>1 DEF jobVars
    <3>4. (\A n : EndBy(n)' <=> EndBy(n))
      BY <3>3 DEF EndBy
    <3>5. conn'[c].last => EndBy(Len(events))
      BY <1>3, <3>2
    <3>6. /\ Len(events') = Len(events) /\ events' = events
          /\ conn'[c].index + Len(conn'[c].batch) = Len(events)
          /\ \A i \in 1 .. Len(conn'[c].batch) : conn'[c].batch[i] = events'[conn'[c].index + i]
      BY <1>3, <1>4, <3>1, <3>3
    <3>7. conn'[c].last => EndBy(conn[c].index + Len(conn[c].batch))'
      BY <3>4, <3>5, <3>6
    <3>8. QED
      BY <1>2, <1>3, <3>6, <3>7 DEF ThreadExact
  <2>3. QED
    BY <2>1, <2>2
<1>9. ASSUME NEW q \in Page PROVE GotExact(q)' /\ WireExact(q)'
  <2>1. GotExact(q)' /\ \A n : EndBy(n)' <=> EndBy(n)
    BY <1>0, <1>1 DEF GotExact, EndBy, jobVars
  <2>2. \A d \in Conns : conn'[d].index = conn[d].index /\ (conn'[d].pc = "free" <=> conn[d].pc = "free")
    BY <1>1, <1>3
  <2>3. WireExact(q)'
    BY <1>0, <1>1, <2>1, <2>2 DEF WireExact, jobVars
  <2>4. QED
    BY <2>1, <2>3
<1>10. QED
  BY <1>6, <1>7, <1>8, <1>9 DEF SInv

\* A thread that leaves gives its slot back: its batch and its place are nobody's,
\* and a page that still reads its connection was sent the end.
LEMMA LeaveInv ==
  ASSUME SInv, NEW c \in Conns, conn[c].pc = "write", Leave(c),
         NothingLeft(c) \/ ~Read(c), UNCHANGED <<jobVars, wire, page, breaks>>
  PROVE  SInv'
<1>0. /\ StreamTypeOK /\ SlotsAreExact /\ FinalRecorded /\ OneReader
      /\ \A q \in Page : GotExact(q) /\ WireExact(q)
      /\ \A d \in Conns : ThreadExact(d)
  BY DEF SInv, SlotsAreExact
<1>1. /\ conn' = [conn EXCEPT ![c] = Idle] /\ UNCHANGED <<stage, events, wire, page>>
      /\ sse_clients' = IF sse_clients > 0 THEN sse_clients - 1 ELSE 0
  BY DEF Leave, jobVars
<1>2. /\ \A d \in Conns \ {c} : conn'[d] = conn[d]
      /\ conn'[c].pc = "free"
  BY <1>0, <1>1 DEF StreamTypeOK, Idle
<1>3. /\ Serving' = Serving \ {c} /\ c \in Serving
      /\ sse_clients = Cardinality(Serving) /\ sse_clients \in 0 .. MAX_STREAMS
  BY <1>0, <1>2 DEF Serving, SlotsAreExact, StreamTypeOK
<1>4. Cardinality(Serving \ {c}) = Cardinality(Serving) - 1 /\ Cardinality(Serving \ {c}) \in Nat
  BY <1>3, ServingFinite, FS_RemoveElement, FS_CardinalityType
<1>5. sse_clients' = Cardinality(Serving') /\ sse_clients' \in 0 .. MAX_STREAMS
  BY <1>1, <1>3, <1>4, StreamAssumption
<1>6. StreamTypeOK'
  <2>1. Idle \in [pc : {"free", "collect", "write"}, index : Nat, batch : Seq(Event), last : BOOLEAN]
    BY EmptySeq DEF Idle
  <2>2. conn' \in [Conns -> [pc : {"free", "collect", "write"}, index : Nat,
                             batch : Seq(Event), last : BOOLEAN]]
    BY <1>0, <1>1, <2>1 DEF StreamTypeOK
  <2>3. QED
    BY <1>0, <1>1, <1>5, <2>2 DEF StreamTypeOK, jobVars
<1>7. SlotsAreExact'
  BY <1>5, <1>6 DEF SlotsAreExact, Serving
<1>8. FinalRecorded' /\ OneReader' /\ \A n : EndBy(n)' <=> EndBy(n)
  BY <1>0, <1>1 DEF FinalRecorded, OneReader, Read, EndBy
<1>9. ASSUME NEW d \in Conns PROVE ThreadExact(d)'
  <2>1. CASE d = c
    BY <1>2, <2>1 DEF ThreadExact
  <2>2. CASE d # c
    BY <1>0, <1>1, <1>2, <1>8, <2>2 DEF ThreadExact
  <2>3. QED
    BY <2>1, <2>2
<1>10. ASSUME NEW q \in Page PROVE GotExact(q)' /\ WireExact(q)'
  <2>1. GotExact(q)' /\ WireExact(q)
    BY <1>0, <1>1 DEF GotExact
  <2>2. CASE page[q].es = "open" /\ page[q].on = c
    <3>1. Read(c)
      BY <2>2 DEF Read
    <3>2. conn[c].batch = <<>> /\ conn[c].last
      BY <3>1 DEF NothingLeft
    <3>3. Len(conn[c].batch) = 0 /\ conn[c].index \in Nat
      BY <1>0, <3>2, EmptySeq DEF StreamTypeOK
    <3>4. EndBy(conn[c].index)
      BY <1>0, <3>2, <3>3 DEF ThreadExact
    <3>5. EndBy(page[q].id + Len(wire[c]))'
      BY <1>1, <1>8, <2>1, <2>2, <3>4 DEF WireExact
    <3>6. QED
      BY <1>1, <1>2, <2>1, <2>2, <3>5 DEF WireExact
  <2>3. CASE page[q].es = "open" /\ page[q].on # c
    <3>1. page[q].on \in Conns
      BY <2>1, <2>3 DEF WireExact
    <3>2. QED
      BY <1>1, <1>2, <2>3, <3>1, PageUntouched
  <2>4. CASE page[q].es # "open"
    BY <1>1, <2>1, <2>4 DEF WireExact
  <2>5. QED
    BY <2>2, <2>3, <2>4
<1>11. QED
  BY <1>7, <1>8, <1>9, <1>10 DEF SInv

\* A chunk is what the page that reads the connection waits for.
LEMMA ChunkFacts ==
  ASSUME SInv, NEW c \in Conns, conn[c].pc = "write"
  PROVE  /\ Chunk(c) \in Chunks /\ Len(Chunk(c)) = Len(conn[c].batch)
         /\ \A k \in 1 .. Len(conn[c].batch) :
              /\ Chunk(c)[k].id = conn[c].index + k
              /\ Chunk(c)[k].event = events[conn[c].index + k]
<1>1. /\ conn[c].batch \in Seq(Event) /\ conn[c].index \in Nat
      /\ \A i \in 1 .. Len(conn[c].batch) : conn[c].batch[i] = events[conn[c].index + i]
  BY DEF SInv, SlotsAreExact, StreamTypeOK, ThreadExact
<1>2. /\ Len(conn[c].batch) \in Nat /\ DOMAIN conn[c].batch = 1 .. Len(conn[c].batch)
      /\ \A i \in 1 .. Len(conn[c].batch) : conn[c].batch[i] \in Event
  BY <1>1, LenProperties, ElementOfSeq
<1> DEFINE n == Len(conn[c].batch)
           f(i) == [id |-> conn[c].index + i, event |-> conn[c].batch[i]]
<1>3. Chunk(c) = [i \in 1 .. n |-> f(i)]
  BY <1>2 DEF Chunk
<1>4. \A i \in 1 .. n : /\ f(i) \in [id : Nat, event : Event]
                        /\ f(i).id = conn[c].index + i /\ f(i).event = conn[c].batch[i]
  BY <1>1, <1>2
<1> HIDE DEF f
<1>5. Chunk(c) \in Chunks /\ Len(Chunk(c)) = n /\ \A i \in 1 .. n : Chunk(c)[i] = f(i)
  BY <1>2, <1>3, <1>4, IsASeq, LenProperties DEF Chunks
<1>6. QED
  BY <1>1, <1>4, <1>5

\* What is written continues what was written before.
LEMMA WriteInv == ASSUME SInv, NEW c \in Conns, Write(c) PROVE SInv'
<1>0. /\ StreamTypeOK /\ SlotsAreExact /\ FinalRecorded /\ OneReader
      /\ \A q \in Page : GotExact(q) /\ WireExact(q)
      /\ \A d \in Conns : ThreadExact(d)
  BY DEF SInv, SlotsAreExact
<1>1. conn[c].pc = "write" /\ UNCHANGED <<jobVars, page, breaks>>
  BY DEF Write
<1>2. CASE (NothingLeft(c) \/ ~Read(c)) /\ Leave(c) /\ UNCHANGED wire
  BY <1>1, <1>2, LeaveInv
<1>3. CASE /\ wire' = IF Read(c) THEN [wire EXCEPT ![c] = @ \o Chunk(c)] ELSE wire
           /\ conn' = [conn EXCEPT ![c].pc = "collect", ![c].index = @ + Len(conn[c].batch),
                                   ![c].batch = <<>>]
           /\ UNCHANGED sse_clients
  <2> DEFINE n == Len(conn[c].batch)
  <2>1. /\ n \in Nat /\ conn[c].index \in Nat /\ conn[c].index + n <= Len(events)
        /\ wire[c] \in Chunks /\ Len(wire[c]) \in Nat /\ Len(events) \in Nat
    BY <1>0, <1>1, LengthFacts DEF StreamTypeOK, ThreadExact, Chunks
  <2>2. /\ Chunk(c) \in Chunks /\ Len(Chunk(c)) = n
        /\ \A k \in 1 .. n : Chunk(c)[k].id = conn[c].index + k
                             /\ Chunk(c)[k].event = events[conn[c].index + k]
    BY <1>1, ChunkFacts
  <2> HIDE DEF n
  <2>3. /\ wire[c] \o Chunk(c) \in Chunks /\ Len(wire[c] \o Chunk(c)) = Len(wire[c]) + n
        /\ \A k \in 1 .. Len(wire[c]) + n :
             (wire[c] \o Chunk(c))[k] = IF k <= Len(wire[c]) THEN wire[c][k] ELSE Chunk(c)[k - Len(wire[c])]
    BY <2>1, <2>2, ConcatProperties DEF Chunks
  <2>4. /\ \A d \in Conns \ {c} : conn'[d] = conn[d] /\ wire'[d] = wire[d]
        /\ conn'[c].pc = "collect" /\ conn'[c].index = conn[c].index + n
        /\ wire'[c] = IF Read(c) THEN wire[c] \o Chunk(c) ELSE wire[c]
    BY <1>0, <1>3 DEF StreamTypeOK, n
  <2>5. StreamTypeOK'
    <3> DEFINE R == [pc : {"free", "collect", "write"}, index : Nat,
                     batch : Seq(Event), last : BOOLEAN]
               index1 == conn[c].index + n
    <3>1. conn \in [Conns -> R] /\ <<>> \in Seq(Event)
      BY <1>0, EmptySeq DEF StreamTypeOK
    <3>3. conn'[c] = [conn[c] EXCEPT !.pc = "collect", !.index = index1, !.batch = <<>>]
      BY <1>3, <3>1 DEF n
    <3>4. conn'[c] \in R
      <4>1. conn[c] \in R /\ index1 \in Nat
        BY <2>1, <3>1
      <4> HIDE DEF index1
      <4>2. QED
        BY <3>1, <3>3, <4>1
    <3> HIDE DEF R, index1
    <3>5. conn' = [d \in Conns |-> conn'[d]]
      BY <1>3, <3>1
    <3>6. conn' \in [Conns -> R]
      BY <2>4, <3>1, <3>4, <3>5 DEF R
    <3>7. wire' \in [Conns -> Chunks]
      BY <1>0, <1>3, <2>1, <2>3 DEF StreamTypeOK, Chunks
    <3>8. QED
      BY <1>0, <1>1, <1>3, <3>6, <3>7 DEF StreamTypeOK, jobVars, Chunks, R
  <2>6. SlotsAreExact'
    <3>1. Serving' = Serving
      BY <1>1, <2>4 DEF Serving
    <3>2. QED
      BY <1>0, <1>3, <2>5, <3>1 DEF SlotsAreExact, Serving
  <2>7. FinalRecorded' /\ \A m : EndBy(m)' <=> EndBy(m)
    BY <1>0, <1>1 DEF FinalRecorded, EndBy, jobVars
  <2>8. OneReader'
    BY <1>0, <1>1, <2>4 DEF OneReader, Read
  <2>9. ASSUME NEW d \in Conns PROVE ThreadExact(d)'
    <3>1. CASE d = c
      BY <1>1, <2>1, <2>4, <3>1 DEF ThreadExact, jobVars
    <3>2. CASE d # c
      <4>1. ThreadExact(d) /\ conn'[d] = conn[d] /\ events' = events
        BY <1>0, <1>1, <2>4, <3>2 DEF jobVars
      <4>2. QED
        BY <2>7, <4>1 DEF ThreadExact
    <3>3. QED
      BY <3>1, <3>2
  <2>10. ASSUME NEW q \in Page PROVE GotExact(q)' /\ WireExact(q)'
    <3>1. GotExact(q)' /\ WireExact(q)
      BY <1>0, <1>1 DEF GotExact, jobVars
    <3>2. CASE page[q].es = "open" /\ page[q].on = c
      <4> DEFINE w == wire[c] \o Chunk(c)
      <4>1. Read(c) /\ wire'[c] = w
        BY <2>4, <3>2 DEF Read
      <4>2. /\ page[q].id \in Nat /\ conn[c].index = page[q].id + Len(wire[c])
            /\ \A k \in 1 .. Len(wire[c]) :
                 wire[c][k].id = page[q].id + k /\ wire[c][k].event = events[page[q].id + k]
        BY <1>0, <1>1, <3>1, <3>2 DEF WireExact, StreamTypeOK
      <4>3. page[q].id + Len(w) = conn[c].index + n
        <5>1. Len(w) = Len(wire[c]) + n
          BY <2>3
        <5>2. n \in Nat /\ Len(wire[c]) \in Nat
          BY <2>1
        <5>3. page[q].id \in Nat /\ conn[c].index = page[q].id + Len(wire[c])
          BY <4>2
        <5> HIDE DEF w
        <5>4. QED
          BY <5>1, <5>2, <5>3
      <4>4. ASSUME NEW k \in 1 .. Len(w)
            PROVE  w[k].id = page[q].id + k /\ w[k].event = events[page[q].id + k]
        <5>1. CASE k <= Len(wire[c])
          <6>1. k \in 1 .. Len(wire[c]) /\ w[k] = wire[c][k]
            BY <2>1, <2>3, <5>1
          <6>2. QED
            BY <4>2, <6>1
        <5>2. CASE ~(k <= Len(wire[c]))
          <6>1. k - Len(wire[c]) \in 1 .. n /\ w[k] = Chunk(c)[k - Len(wire[c])]
            BY <2>1, <2>3, <5>2
          <6>2. conn[c].index + (k - Len(wire[c])) = page[q].id + k
            BY <2>1, <2>3, <4>2
          <6>3. QED
            BY <2>2, <6>1, <6>2
        <5>3. QED
          BY <5>1, <5>2
      <4> HIDE DEF w
      <4>5. UNCHANGED <<events, page>>
        BY <1>1 DEF jobVars
      <4>6. QED
        BY <2>1, <2>4, <3>1, <3>2, <4>1, <4>3, <4>4, <4>5 DEF WireExact
    <3>3. CASE page[q].es = "open" /\ page[q].on # c
      <4>1. page[q].on \in Conns
        BY <3>1, <3>3 DEF WireExact
      <4>2. QED
        BY <1>1, <2>4, <3>3, <4>1, PageUntouched DEF jobVars
    <3>4. CASE page[q].es # "open"
      BY <1>1, <3>1, <3>4 DEF WireExact
    <3>5. QED
      BY <3>2, <3>3, <3>4
  <2>11. QED
    BY <2>6, <2>7, <2>8, <2>9, <2>10 DEF SInv
<1>4. QED
  BY <1>2, <1>3 DEF Write

\* Every step keeps the invariant.
LEMMA StreamNextInv == ASSUME SInv, [StreamNext]_streamVars PROVE SInv'
<1>1. CASE EmitStart \/ EmitPort \/ EmitLog \/ EmitFinal \/ Close \/ Replace
  BY <1>1, ScanInv
<1>2. CASE \E p \in Page : Attach(p) \/ Connect(p) \/ Receive(p) \/ Break(p)
  BY <1>2, AttachInv, ConnectInv, ReceiveInv, BreakInv
<1>3. CASE \E c \in Conns : Collect(c) \/ Write(c)
  BY <1>3, CollectInv, WriteInv
<1>4. CASE UNCHANGED streamVars
  <2>1. StreamTypeOK' /\ SlotsAreExact' /\ FinalRecorded' /\ OneReader'
    BY <1>4 DEF streamVars, jobVars, SInv, SlotsAreExact, StreamTypeOK, FinalRecorded, OneReader, Read
  <2>2. \A c \in Conns : ThreadExact(c)'
    BY <1>4, ThreadsUntouched DEF streamVars, jobVars
  <2>3. \A p \in Page : GotExact(p)' /\ WireExact(p)'
    BY <1>4, PageUntouched DEF streamVars, jobVars
  <2>4. QED
    BY <2>1, <2>2, <2>3 DEF SInv
<1>5. QED
  BY <1>1, <1>2, <1>3, <1>4 DEF StreamNext, JobRuns, Follow, Stream

-----------------------------------------------------------------------------
(* Theorems.                                                               *)

\* The scan's thread, the request threads, what is on its way and what the pages
\* have seen always fit together: each of them is a piece of the same events.
THEOREM StreamInvariant == StreamSpec => []SInv
<1>1. StreamInit => SInv
  BY StreamInitInv
<1>2. SInv /\ [StreamNext]_streamVars => SInv'
  BY StreamNextInv
<1>3. QED
  BY <1>1, <1>2, PTL DEF StreamSpec

\* The count that App.stream_opened compares with MAX_STREAMS is the number of
\* streams that are served, however they end.
THEOREM SlotsComeBackExactly == StreamSpec => []SlotsAreExact
<1>1. SInv => SlotsAreExact
  BY DEF SInv
<1>2. QED
  BY <1>1, StreamInvariant, PTL

\* However often its connection breaks, a page has seen the events of the scan in
\* order, without a gap and without a repetition, and its stream ends only when the
\* last event was sent to it.
THEOREM StreamsAreExact == StreamSpec => []StreamIsExact
<1>1. ASSUME SInv PROVE StreamIsExact
  <2>0. StreamTypeOK /\ \A p \in Page : GotExact(p) /\ WireExact(p)
    BY <1>1 DEF SInv, SlotsAreExact
  <2>1. ASSUME NEW p \in Page PROVE page[p].got = SubSeq(events, 1, page[p].id)
    <3> DEFINE n == page[p].id
               t == SubSeq(events, 1, n)
    <3>1. /\ n \in Nat /\ n <= Len(events) /\ Len(events) \in Nat /\ events \in Seq(Event)
          /\ page[p].got \in Seq(Event) /\ Len(page[p].got) = n
          /\ \A i \in 1 .. n : page[p].got[i] = events[i]
      BY <2>0, LengthFacts DEF StreamTypeOK, GotExact
    <3> HIDE DEF n
    <3>2. \A i \in 1 .. n : events[i] \in Event
      BY <3>1, ElementOfSeq
    <3>3. /\ t \in Seq(Event) /\ Len(t) = (IF 1 <= n THEN n - 1 + 1 ELSE 0)
          /\ \A i \in 1 .. n - 1 + 1 : t[i] = events[1 + i - 1]
      BY <3>1, <3>2, SubSeqProperties
    <3> HIDE DEF t
    <3>4. Len(t) = n /\ \A i \in 1 .. n : t[i] = events[i]
      BY <3>1, <3>3
    <3>5. page[p].got = t
      BY <3>1, <3>3, <3>4, SeqEqual
    <3>6. QED
      BY <3>5 DEF t, n
  <2>2. ASSUME NEW p \in Page, page[p].es = "open", conn[page[p].on].pc = "free"
        PROVE  stage = "closed" /\ \E i \in DOMAIN events :
                 events[i].type \in Final
                 /\ (page[p].id >= i \/ \E k \in DOMAIN wire[page[p].on] : wire[page[p].on][k].id = i)
    <3> DEFINE c == page[p].on
    <3>1. /\ c \in Conns /\ EndBy(page[p].id + Len(wire[c]))
          /\ \A k \in 1 .. Len(wire[c]) : wire[c][k].id = page[p].id + k
      BY <2>0, <2>2 DEF WireExact
    <3>2. /\ page[p].id \in Nat /\ Len(wire[c]) \in Nat /\ DOMAIN wire[c] = 1 .. Len(wire[c])
          /\ DOMAIN events = 1 .. Len(events) /\ Len(events) \in Nat
      BY <2>0, <3>1, LengthFacts DEF StreamTypeOK
    <3> HIDE DEF c
    <3>3. PICK i \in DOMAIN events : events[i].type \in Final /\ i <= page[p].id + Len(wire[c])
      BY <3>1 DEF EndBy
    <3>4. CASE i > page[p].id
      <4>1. i - page[p].id \in DOMAIN wire[c] /\ wire[c][i - page[p].id].id = i
        BY <3>1, <3>2, <3>3, <3>4
      <4>2. QED
        BY <3>1, <3>3, <4>1 DEF EndBy, c
    <3>5. CASE page[p].id >= i
      BY <3>1, <3>3, <3>5 DEF EndBy
    <3>6. QED
      BY <3>2, <3>4, <3>5
  <2>3. QED
    BY <2>1, <2>2 DEF StreamIsExact
<1>2. QED
  BY <1>1, StreamInvariant, PTL
==============================================================================
