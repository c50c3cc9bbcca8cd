---------------------------- MODULE HistoryProofs ----------------------------
(***************************************************************************)
(* Theorems about ScanHistory, for any number of servers, watches and      *)
(* targets, any number of scans to keep and all bounds; and about ScanDiff, *)
(* which compares any two of them.                                         *)
(***************************************************************************)
EXTENDS ScanHistory, ScanDiff, QueueLemmas

-----------------------------------------------------------------------------
(* The inductive invariant.                                                *)

ProcState == [pc : {"idle", "writing", "placing", "listing", "pruning", "glob", "reading",
                    "loading", "compare", "over"},
              scan : Scan \cup {NoScan}, last : Nat, doomed : SUBSET Scan,
              names : SUBSET Scan, before : Scan \cup {NoScan},
              previous : Scan \cup {NoScan}, life : Nat]

\* The processes that have a temporary file.
Writers == {p \in Proc : proc[p].pc \in {"writing", "placing"}}

\* Every writer has a temporary file, and every crash left one at most.
BooksHold ==
  /\ IsFiniteSet(files) /\ made \in 0 .. MaxScans /\ crashes \in 0 .. MaxCrashes
  /\ compared \subseteq Scan \X (Scan \cup {NoScan})
  /\ \A c \in compared : c[1].id <= made
  /\ Cardinality(Writers) <= temps /\ temps <= Cardinality(Writers) + crashes

\* A file is written before it gets its name; a listing is of finitely many.
FilesWhole ==
  /\ \A f \in files : f.whole
  /\ \A p \in Proc : IsFiniteSet(proc[p].names)
  /\ \A p \in Proc : proc[p].pc = "placing" => proc[p].scan.whole

Above(g) == {f \in files : Newer(f, g)}
KeptOver(g) == Cardinality(Above(g)) >= Keep

\* What was removed, or is about to be, has Keep newer scans in the folder: the
\* scans that a prune removes are older than what it leaves.
PrunesHold ==
  /\ \A g \in gone : KeptOver(g)
  /\ \A p \in Proc : \A d \in proc[p].doomed : KeptOver(d)

\* The scans in the folder that p saved since it was started.
Mine(p) == {s \in files : s.by = p /\ s.life = proc[p].life}

\* The scan a process holds: from its save to its comparison.
Holding(p) == proc[p].scan # NoScan
HandHolds(p) ==
  /\ ~Holding(p) <=> \/ proc[p].pc \in {"idle", "over"}
                     \/ p \in WatchProc /\ proc[p].pc \in {"glob", "reading", "loading"}
  /\ proc[p].pc = "compare" => p \in WatchProc
  /\ Holding(p) => /\ proc[p].scan.by = p /\ proc[p].scan.life = proc[p].life
                   /\ proc[p].scan.saved = proc[p].last /\ proc[p].scan.id <= made
  /\ \A c \in compared : c[1].by = p /\ Holding(p) => c[1].id < proc[p].scan.id

\* A process saves its scans one after the other, each with a later time.
OrderHolds(p) ==
  /\ \A s \in files : s.by = p => s.life <= proc[p].life
  /\ \A s \in Mine(p) : /\ s.saved <= proc[p].last
                        /\ Holding(p) /\ s.id # proc[p].scan.id => s.saved < proc[p].scan.saved

\* A server reads all the scans it saved itself, and finds the last one of the
\* target, and none that is newer than the scan it compares.
ServerLooks(p) ==
  /\ proc[p].pc = "reading" => \A s \in files : s.by = p => s \in proc[p].names
  /\ proc[p].pc = "loading" =>
       /\ proc[p].scan \in files /\ proc[p].before # NoScan => proc[p].before.saved < proc[p].scan.saved
       /\ \A s \in Mine(p) : s.target = proc[p].scan.target /\ s.id # proc[p].scan.id =>
            proc[p].before # NoScan /\ s.saved <= proc[p].before.saved

\* A watch has the scan before in its hands; it saves none before it looked.
WatchLooks(p) ==
  /\ proc[p].pc \in {"glob", "reading", "loading"} => Mine(p) = {}
  /\ proc[p].pc # "over" => \A s \in Mine(p) : ~Holding(p) \/ s.id # proc[p].scan.id =>
       proc[p].previous # NoScan /\ s.saved <= proc[p].previous.saved

ProcHolds(p) ==
  /\ HandHolds(p) /\ OrderHolds(p)
  /\ p \in UiProc => ServerLooks(p)
  /\ p \in WatchProc => WatchLooks(p)

HInv ==
  /\ TypeOK /\ BooksHold /\ FilesWhole /\ PrunesHold /\ ComparedWithTheLast
  /\ \A p \in Proc : ProcHolds(p)

-----------------------------------------------------------------------------
(* Lemmas.                                                                 *)

\* Newer is an order on the scans.
LEMMA NewerFacts ==
  /\ \A f \in Scan : ~Newer(f, f)
  /\ \A f, g, h \in Scan : Newer(f, g) /\ Newer(g, h) => Newer(f, h)
<1>1. \A f \in Scan : f.mtime \in Nat /\ f.id \in Int
  BY DEF Scan
<1>2. QED
  BY <1>1 DEF Newer

\* A new file takes nothing away from those that are newer than a scan.
LEMMA KeptGrows ==
  ASSUME IsFiniteSet(files'), files \subseteq files', NEW g, KeptOver(g)
  PROVE  KeptOver(g)'
<1>1. Above(g) \subseteq Above(g)' /\ Above(g)' \in SUBSET files'
  BY DEF Above
<1>2. IsFiniteSet(Above(g)')
  BY <1>1, FS_Subset
<1>3. /\ Cardinality(Above(g)) <= Cardinality(Above(g)')
      /\ IsFiniteSet(Above(g))
  BY <1>1, <1>2, FS_Subset
<1>4. Cardinality(Above(g)) \in Nat /\ Cardinality(Above(g)') \in Nat /\ Keep \in Nat
  BY <1>2, <1>3, FS_CardinalityType, HistoryAssumption
<1>5. QED
  BY <1>3, <1>4 DEF KeptOver

\* A scan that is removed has newer ones in the folder, and these are newer than
\* all scans that it was newer than.
LEMMA KeptUnlink ==
  ASSUME IsFiniteSet(files), files \subseteq Scan, NEW d \in Scan, NEW g \in Scan,
         files' = files \ {d}, KeptOver(d), KeptOver(g)
  PROVE  KeptOver(g)'
<1>1. CASE d \in Above(g)
  <2>1. Above(d) \subseteq Above(g)'
    BY <1>1, NewerFacts DEF Above
  <2>2. Above(g)' \in SUBSET files'
    BY DEF Above
  <2>3. IsFiniteSet(files') /\ IsFiniteSet(Above(g)')
    BY <2>2, FS_Subset
  <2>4. Cardinality(Above(d)) <= Cardinality(Above(g)') /\ IsFiniteSet(Above(d))
    BY <2>1, <2>3, FS_Subset
  <2>5. Cardinality(Above(d)) \in Nat /\ Cardinality(Above(g)') \in Nat /\ Keep \in Nat
    BY <2>3, <2>4, FS_CardinalityType, HistoryAssumption
  <2>6. QED
    BY <2>4, <2>5 DEF KeptOver
<1>2. CASE d \notin Above(g)
  <2>1. Above(g)' = Above(g)
    BY <1>2 DEF Above
  <2>2. QED
    BY <2>1 DEF KeptOver
<1>3. QED
  BY <1>1, <1>2

\* Of scans that are finite in number one is the last that was saved.
LEMMA NewestFacts ==
  ASSUME NEW S, S \subseteq Scan, IsFiniteSet(S)
  PROVE  /\ S = {} => Newest(S) = NoScan
         /\ S # {} => Newest(S) \in S /\ \A r \in S : r.saved <= Newest(S).saved
<1>1. ASSUME S # {} PROVE \E s \in S : \A r \in S : r.saved <= s.saved
  <2> DEFINE Later(s) == {r \in S : s.saved < r.saved}
  <2>1. \A s \in S : s.saved \in Nat
    BY DEF Scan
  <2>2. \A s \in S : IsFiniteSet(Later(s)) /\ Cardinality(Later(s)) \in Nat
    BY FS_Subset, FS_CardinalityType
  <2> DEFINE sizes == {Cardinality(Later(s)) : s \in S}
  <2>3. sizes \subseteq Nat /\ sizes # {}
    BY <1>1, <2>2
  <2>4. PICK n \in sizes : \A m \in sizes : n <= m
    <3> HIDE DEF sizes
    <3>1. QED
      BY <2>3, LeastNatural
  <2>5. PICK s \in S : n = Cardinality(Later(s))
    BY <2>4
  <2>6. \A r \in S : Cardinality(Later(s)) <= Cardinality(Later(r))
    BY <2>4, <2>5
  <2>7. ASSUME NEW r \in S, s.saved < r.saved PROVE FALSE
    <3>1. Later(r) \in SUBSET Later(s) /\ r \in Later(s) /\ r \notin Later(r)
      BY <2>1, <2>7
    <3>2. /\ Cardinality(Later(r)) <= Cardinality(Later(s))
          /\ Cardinality(Later(s)) = Cardinality(Later(r)) => Later(s) = Later(r)
      <4> HIDE DEF Later
      <4>1. QED
        BY <2>2, <3>1, FS_Subset
    <3>3. Cardinality(Later(s)) <= Cardinality(Later(r))
      BY <2>6
    <3>4. Cardinality(Later(s)) = Cardinality(Later(r))
      <4> HIDE DEF Later
      <4>1. QED
        BY <2>2, <3>2, <3>3
    <3>5. QED
      BY <3>1, <3>2, <3>4
  <2>8. \A r \in S : r.saved <= s.saved
    BY <2>1, <2>7
  <2>9. QED
    BY <2>8
<1>2. QED
  BY <1>1 DEF Newest

\* What a process holds true is not disturbed by what others do: the scans they
\* save and compare are their own, and removing a file is harmless.
LEMMA OthersKept ==
  ASSUME NEW q \in Proc, ProcHolds(q), proc'[q] = proc[q],
         made \in Int, made' \in Int, made <= made', proc[q].scan.id \in Int \/ ~Holding(q),
         \A s \in files' : s \in files \/ s.by # q,
         \A c \in compared' : c \in compared \/ c[1].by # q
  PROVE  ProcHolds(q)'
<1>1. Mine(q)' \subseteq Mine(q) /\ \A s \in files' : s.by = q => s \in files
  BY DEF Mine
<1>2. Holding(q)' <=> Holding(q)
  BY DEF Holding
<1>3. HandHolds(q)'
  BY <1>2 DEF ProcHolds, HandHolds
<1>4. OrderHolds(q)'
  BY <1>1, <1>2 DEF ProcHolds, OrderHolds
<1>5. ASSUME q \in UiProc PROVE ServerLooks(q)'
  <2>1. proc[q].pc = "loading" => Holding(q) /\ proc[q].scan.by = q
    BY <1>5, HistoryAssumption DEF ProcHolds, HandHolds
  <2>2. QED
    BY <1>1, <1>5, <2>1 DEF ProcHolds, ServerLooks
<1>6. ASSUME q \in WatchProc PROVE WatchLooks(q)'
  BY <1>1, <1>2, <1>6 DEF ProcHolds, WatchLooks
<1>7. QED
  BY <1>3, <1>4, <1>5, <1>6 DEF ProcHolds

\* What the bound on the temporary files rests on.
LEMMA WriterFacts ==
  ASSUME NEW p \in Proc, NEW W, W \subseteq Proc
  PROVE  /\ IsFiniteSet(W) /\ Cardinality(W) \in Nat /\ Cardinality(W) <= Cardinality(Proc)
         /\ Cardinality(W \cup {p}) = IF p \in W THEN Cardinality(W) ELSE Cardinality(W) + 1
         /\ Cardinality(W \ {p}) = IF p \in W THEN Cardinality(W) - 1 ELSE Cardinality(W)
         /\ Cardinality(Proc) \in Nat
<1>1. IsFiniteSet(Proc)
  BY HistoryAssumption
<1>2. IsFiniteSet(W) /\ Cardinality(W) <= Cardinality(Proc)
  BY <1>1, FS_Subset
<1>3. QED
  BY <1>1, <1>2, FS_CardinalityType, FS_AddElement, FS_RemoveElement

\* The folder is empty and nobody holds a scan at the start.
LEMMA InitInv == Init => HInv
<1> SUFFICES ASSUME Init PROVE HInv
  OBVIOUS
<1>1. \A p \in Proc : /\ proc[p].pc = (IF p \in WatchProc THEN "glob" ELSE "idle")
                      /\ proc[p].scan = NoScan /\ proc[p].last = 0 /\ proc[p].doomed = {}
                      /\ proc[p].names = {} /\ proc[p].before = NoScan
                      /\ proc[p].previous = NoScan /\ proc[p].life = 0
  BY DEF Init, Begun, Fresh
<1>2. proc \in [Proc -> ProcState]
  BY DEF Init, Begun, Fresh, ProcState
<1>3. Writers = {}
  BY <1>1 DEF Writers
<1>4. IsFiniteSet({}) /\ Cardinality({}) = 0 /\ IsFiniteSet(Proc) /\ Cardinality(Proc) \in Nat
  BY FS_EmptySet, FS_CardinalityType, HistoryAssumption
<1>5. TypeOK
  <2>1. now \in 0 .. MaxTime /\ files \subseteq Scan /\ gone \subseteq Scan
    BY HistoryAssumption DEF Init
  <2>2. temps \in 0 .. Cardinality(Proc) + MaxCrashes
    BY <1>4, HistoryAssumption DEF Init
  <2>3. QED
    BY <1>2, <2>1, <2>2 DEF TypeOK, ProcState
<1>6. BooksHold
  BY <1>3, <1>4, HistoryAssumption DEF Init, BooksHold
<1>7. FilesWhole /\ PrunesHold /\ ComparedWithTheLast
  BY <1>1, <1>4 DEF Init, FilesWhole, PrunesHold, ComparedWithTheLast
<1>8. ASSUME NEW p \in Proc PROVE ProcHolds(p)
  <2>1. HandHolds(p)
    BY <1>1, HistoryAssumption DEF HandHolds, Holding, Init
  <2>2. OrderHolds(p) /\ ServerLooks(p) /\ WatchLooks(p)
    BY <1>1 DEF OrderHolds, ServerLooks, WatchLooks, Mine, Init
  <2>3. QED
    BY <2>1, <2>2 DEF ProcHolds
<1>9. QED
  BY <1>5, <1>6, <1>7, <1>8 DEF HInv

-----------------------------------------------------------------------------
(* The steps.                                                              *)

\* What the type invariant says of a process.
LEMMA ProcFacts ==
  ASSUME HInv, NEW p \in Proc
  PROVE  /\ proc[p] \in ProcState /\ ProcHolds(p)
         /\ Holding(p) => proc[p].scan \in Scan /\ proc[p].scan.id \in 1 .. MaxScans /\ proc[p].scan.saved \in Nat
         /\ made \in Nat /\ now \in Nat
<1>1. proc[p] \in ProcState
  BY DEF HInv, TypeOK, ProcState
<1>2. Holding(p) => proc[p].scan \in Scan
  BY <1>1 DEF ProcState, Holding
<1>3. proc[p].scan \in Scan => proc[p].scan.id \in 1 .. MaxScans /\ proc[p].scan.saved \in Nat
  BY DEF Scan
<1>4. made \in Nat /\ now \in Nat
  BY HistoryAssumption DEF HInv, TypeOK, BooksHold
<1>5. QED
  BY <1>1, <1>2, <1>3, <1>4 DEF HInv

\* A step of one process concerns the others only by the scans it saves, all of
\* them its own.
LEMMA OneSteps ==
  ASSUME HInv, NEW p \in Proc,
         TypeOK', BooksHold', FilesWhole', PrunesHold', ComparedWithTheLast', ProcHolds(p)',
         \A q \in Proc : q # p => proc'[q] = proc[q],
         made <= made',
         \A s \in files' : s \in files \/ s.by = p,
         \A c \in compared' : c \in compared \/ c[1].by = p
  PROVE  HInv'
<1>1. ASSUME NEW q \in Proc, q # p PROVE ProcHolds(q)'
  <2>1. ProcHolds(q) /\ (proc[q].scan.id \in Int \/ ~Holding(q)) /\ made \in Int /\ made' \in Int
    BY ProcFacts, HistoryAssumption DEF BooksHold
  <2>2. proc'[q] = proc[q]
    BY <1>1
  <2>3. /\ \A s \in files' : s \in files \/ s.by # q
        /\ \A c \in compared' : c \in compared \/ c[1].by # q
    BY <1>1
  <2>4. QED
    BY <2>1, <2>2, <2>3, OthersKept
<1>2. QED
  BY <1>1 DEF HInv

\* A step that changes nothing but what its process holds.
LEMMA LocalSteps ==
  ASSUME HInv, NEW p \in Proc, NEW r \in ProcState,
         proc' = [proc EXCEPT ![p] = r],
         UNCHANGED <<now, files, temps, made, gone, compared, crashes>>,
         r.pc \in {"writing", "placing"} <=> proc[p].pc \in {"writing", "placing"},
         r.pc = "placing" => r.scan.whole,
         \A d \in r.doomed : KeptOver(d), IsFiniteSet(r.names),
         ProcHolds(p)'
  PROVE  HInv'
<1>1. proc'[p] = r /\ (\A q \in Proc : q # p => proc'[q] = proc[q]) /\ proc' \in [Proc -> ProcState]
  BY DEF HInv, TypeOK, ProcState
<1>2. TypeOK'
  BY <1>1 DEF HInv, TypeOK, ProcState
<1>3. Writers' = Writers
  BY <1>1 DEF Writers
<1>4. BooksHold'
  BY <1>3 DEF HInv, BooksHold
<1>5. FilesWhole'
  BY <1>1 DEF HInv, FilesWhole
<1>6. PrunesHold'
  <2>1. \A g : KeptOver(g)' <=> KeptOver(g)
    BY DEF KeptOver, Above
  <2>2. QED
    BY <1>1, <2>1 DEF HInv, PrunesHold
<1>7. ComparedWithTheLast'
  BY DEF HInv, ComparedWithTheLast
<1>8. made <= made'
  BY ProcFacts
<1>9. QED
  BY <1>1, <1>2, <1>4, <1>5, <1>6, <1>7, <1>8, OneSteps

\* The clock ticks; nothing happens.
LEMMA TickInv ==
  ASSUME HInv, now' \in 0 .. MaxTime, UNCHANGED <<files, temps, proc, made, gone, compared, crashes>>
  PROVE  HInv'
<1>1. TypeOK' /\ BooksHold' /\ FilesWhole' /\ ComparedWithTheLast'
  BY DEF HInv, TypeOK, BooksHold, Writers, FilesWhole, ComparedWithTheLast
<1>2. PrunesHold'
  BY DEF HInv, PrunesHold, KeptOver, Above
<1>3. \A p \in Proc : ProcHolds(p)'
  <2>1. \A p \in Proc : Mine(p)' = Mine(p) /\ (Holding(p)' <=> Holding(p))
    BY DEF Mine, Holding
  <2>2. QED
    BY <2>1 DEF HInv, ProcHolds, HandHolds, OrderHolds, ServerLooks, WatchLooks
<1>4. QED
  BY <1>1, <1>2, <1>3 DEF HInv

\* The text is written into the temporary file.
LEMMA WriteInv == ASSUME HInv, NEW p \in Proc, Write(p) PROVE HInv'
<1>1. proc[p] \in ProcState /\ ProcHolds(p) /\ now \in Nat
  BY ProcFacts
<1>2. Holding(p) /\ proc[p].scan \in Scan /\ proc[p].pc = "writing"
  BY <1>1, ProcFacts DEF Write, ProcHolds, HandHolds
<1>3. PICK s : s = [proc[p].scan EXCEPT !.whole = TRUE, !.mtime = now]
  OBVIOUS
<1>4. /\ s \in Scan /\ s.whole /\ s.by = proc[p].scan.by /\ s.life = proc[p].scan.life
      /\ s.id = proc[p].scan.id /\ s.saved = proc[p].scan.saved /\ s.target = proc[p].scan.target
  <2>1. PICK o : o = proc[p].scan
    OBVIOUS
  <2>2. o \in Scan
    BY <1>2, <2>1
  <2>3. [o EXCEPT !.whole = TRUE, !.mtime = now] \in Scan
    BY <1>1, <2>2 DEF Scan
  <2>4. s = [o EXCEPT !.whole = TRUE, !.mtime = now]
    BY <1>3, <2>1
  <2>5. s.whole /\ s.by = o.by /\ s.life = o.life /\ s.id = o.id /\ s.saved = o.saved /\ s.target = o.target
    BY <2>2, <2>4 DEF Scan
  <2>6. QED
    BY <2>1, <2>3, <2>4, <2>5
<1>5. PICK r : r = [proc[p] EXCEPT !.pc = "placing", !.scan = s]
  OBVIOUS
<1>6. /\ r \in ProcState /\ r.pc = "placing" /\ r.scan = s /\ r.last = proc[p].last
      /\ r.doomed = proc[p].doomed /\ r.names = proc[p].names
      /\ r.life = proc[p].life /\ r.previous = proc[p].previous
  <2>1. PICK o : o = proc[p]
    OBVIOUS
  <2>2. o \in ProcState
    BY <1>1, <2>1
  <2>3. [o EXCEPT !.pc = "placing", !.scan = s] \in ProcState
    BY <1>4, <2>2 DEF ProcState
  <2>4. r = [o EXCEPT !.pc = "placing", !.scan = s]
    BY <1>5, <2>1
  <2>5. /\ r.pc = "placing" /\ r.scan = s /\ r.last = o.last /\ r.doomed = o.doomed
        /\ r.names = o.names /\ r.life = o.life /\ r.previous = o.previous
    BY <2>2, <2>4 DEF ProcState
  <2>6. QED
    BY <2>1, <2>3, <2>4, <2>5
<1>7. /\ proc' = [proc EXCEPT ![p] = r]
      /\ UNCHANGED <<now, files, temps, made, gone, compared, crashes>>
  BY <1>3, <1>5 DEF Write
<1>8. proc'[p] = r
  BY <1>7 DEF HInv, TypeOK
<1>9. Holding(p)' /\ Mine(p)' = Mine(p)
  BY <1>4, <1>6, <1>7, <1>8, HistoryAssumption DEF Holding, Mine
<1>10. ProcHolds(p)'
  <2>1. HandHolds(p)'
    BY <1>1, <1>2, <1>4, <1>6, <1>7, <1>8, <1>9 DEF ProcHolds, HandHolds
  <2>2. OrderHolds(p)'
    BY <1>1, <1>2, <1>4, <1>6, <1>7, <1>8, <1>9 DEF ProcHolds, OrderHolds
  <2>3. ServerLooks(p)'
    BY <1>6, <1>8 DEF ServerLooks
  <2>4. ASSUME p \in WatchProc PROVE WatchLooks(p)'
    BY <1>1, <1>2, <1>4, <1>6, <1>8, <1>9, <2>4 DEF ProcHolds, WatchLooks
  <2>5. QED
    BY <2>1, <2>2, <2>3, <2>4 DEF ProcHolds
<1>11. IsFiniteSet(r.names) /\ \A d \in r.doomed : KeptOver(d)
  BY <1>6 DEF HInv, FilesWhole, PrunesHold
<1>12. QED
  BY <1>2, <1>4, <1>6, <1>7, <1>10, <1>11, LocalSteps

\* A process goes on with the same scan in its hands.
LEMMA GoesOn ==
  ASSUME HInv, NEW p \in Proc, NEW r \in ProcState,
         proc' = [proc EXCEPT ![p] = r],
         UNCHANGED <<now, files, temps, made, gone, compared, crashes>>,
         proc[p].pc \notin {"writing", "placing", "over"}, r.pc \notin {"writing", "placing"},
         \A d \in r.doomed : KeptOver(d), IsFiniteSet(r.names),
         r.scan = proc[p].scan, r.last = proc[p].last, r.life = proc[p].life,
         r.previous = proc[p].previous,
         ~Holding(p) <=> \/ r.pc \in {"idle", "over"}
                         \/ p \in WatchProc /\ r.pc \in {"glob", "reading", "loading"},
         r.pc = "compare" => p \in WatchProc,
         p \in WatchProc /\ r.pc \in {"glob", "reading", "loading"} =>
           proc[p].pc \in {"glob", "reading", "loading"},
         p \in UiProc => ServerLooks(p)'
  PROVE  HInv'
<1>1. ProcHolds(p)
  BY ProcFacts
<1>2. proc'[p] = r
  BY DEF HInv, TypeOK
<1>3. (Holding(p)' <=> Holding(p)) /\ Mine(p)' = Mine(p)
  BY <1>2 DEF Holding, Mine
<1>4. HandHolds(p)'
  BY <1>1, <1>2, <1>3 DEF ProcHolds, HandHolds
<1>5. OrderHolds(p)'
  BY <1>1, <1>2, <1>3 DEF ProcHolds, OrderHolds
<1>6. ASSUME p \in WatchProc PROVE WatchLooks(p)'
  BY <1>1, <1>2, <1>3, <1>6 DEF ProcHolds, WatchLooks
<1>7. ProcHolds(p)'
  BY <1>4, <1>5, <1>6 DEF ProcHolds
<1>8. QED
  BY <1>7, LocalSteps

\* A process that goes on keeps the rest of its state.
LEMMA NewPc ==
  ASSUME NEW o \in ProcState,
         NEW pc \in {"idle", "writing", "placing", "listing", "pruning", "glob", "reading",
                     "loading", "compare", "over"},
         NEW r, r = [o EXCEPT !.pc = pc]
  PROVE  /\ r \in ProcState /\ r.pc = pc /\ r.scan = o.scan /\ r.last = o.last
         /\ r.life = o.life /\ r.previous = o.previous /\ r.doomed = o.doomed
         /\ r.names = o.names
  BY DEF ProcState

\* A prune lists what has Keep newer scans in the folder.
LEMMA ListInv == ASSUME HInv, NEW p \in Proc, List(p) PROVE HInv'
<1>1. proc[p] \in ProcState /\ ProcHolds(p) /\ proc[p].pc = "listing"
  BY ProcFacts DEF List
<1>2. PICK o \in ProcState : o = proc[p]
  BY <1>1
<1>3. PICK D : D = Doomed(files)
  OBVIOUS
<1>4. D \in SUBSET Scan /\ \A d \in D : KeptOver(d)
  BY <1>3 DEF Doomed, HInv, TypeOK, KeptOver, Above
<1>5. PICK r : r = [o EXCEPT !.pc = "pruning", !.doomed = D]
  OBVIOUS
<1>6. /\ r \in ProcState /\ r.pc = "pruning" /\ r.doomed = D /\ r.scan = o.scan
      /\ r.last = o.last /\ r.life = o.life /\ r.previous = o.previous /\ r.names = o.names
  BY <1>4, <1>5 DEF ProcState
<1>7. /\ proc' = [proc EXCEPT ![p] = r]
      /\ UNCHANGED <<now, files, temps, made, gone, compared, crashes>>
  BY <1>2, <1>3, <1>5 DEF List
<1>8. proc'[p] = r
  BY <1>7 DEF HInv, TypeOK
<1>9. ServerLooks(p)'
  BY <1>6, <1>8 DEF ServerLooks
<1>10. Holding(p) /\ IsFiniteSet(r.names)
  BY <1>1, <1>2, <1>6 DEF ProcHolds, HandHolds, HInv, FilesWhole
<1>11. QED
  BY <1>1, <1>2, <1>4, <1>6, <1>7, <1>9, <1>10, GoesOn

\* After its prune a process looks for the scan to compare with.
LEMMA SavedInv == ASSUME HInv, NEW p \in Proc, Saved(p) PROVE HInv'
<1>1. proc[p] \in ProcState /\ ProcHolds(p) /\ proc[p].pc = "pruning" /\ proc[p].doomed = {}
  BY ProcFacts DEF Saved
<1>2. PICK o \in ProcState : o = proc[p]
  BY <1>1
<1>3. PICK r : r = [o EXCEPT !.pc = IF p \in UiProc THEN "glob" ELSE "compare"]
  OBVIOUS
<1>4. /\ r \in ProcState /\ r.pc = (IF p \in UiProc THEN "glob" ELSE "compare") /\ r.scan = o.scan
      /\ r.last = o.last /\ r.life = o.life /\ r.previous = o.previous /\ r.doomed = o.doomed
      /\ r.names = o.names
  BY <1>3, NewPc
<1>5. /\ proc' = [proc EXCEPT ![p] = r]
      /\ UNCHANGED <<now, files, temps, made, gone, compared, crashes>>
  BY <1>2, <1>3 DEF Saved, Go
<1>6. proc'[p] = r
  BY <1>5 DEF HInv, TypeOK
<1>7. ServerLooks(p)'
  BY <1>4, <1>6 DEF ServerLooks
<1>8. Holding(p) /\ IsFiniteSet(r.names)
  BY <1>1, <1>2, <1>4 DEF ProcHolds, HandHolds, HInv, FilesWhole
<1>9. p \in WatchProc <=> p \notin UiProc
  BY HistoryAssumption DEF Proc
<1>10. QED
  BY <1>1, <1>2, <1>4, <1>5, <1>7, <1>8, <1>9, GoesOn

\* All the scans in the folder are listed, those of the process among them.
LEMMA GlobInv == ASSUME HInv, NEW p \in Proc, Glob(p) PROVE HInv'
<1>1. proc[p] \in ProcState /\ ProcHolds(p) /\ proc[p].pc = "glob"
  BY ProcFacts DEF Glob
<1>2. PICK o \in ProcState : o = proc[p]
  BY <1>1
<1>3. PICK N : N = files
  OBVIOUS
<1>4. N \in SUBSET Scan /\ IsFiniteSet(N)
  BY <1>3 DEF HInv, TypeOK, BooksHold
<1>5. PICK r : r = [o EXCEPT !.pc = "reading", !.names = N]
  OBVIOUS
<1>6. /\ r \in ProcState /\ r.pc = "reading" /\ r.names = N /\ r.scan = o.scan
      /\ r.last = o.last /\ r.life = o.life /\ r.previous = o.previous /\ r.doomed = o.doomed
  BY <1>4, <1>5 DEF ProcState
<1>7. /\ proc' = [proc EXCEPT ![p] = r]
      /\ UNCHANGED <<now, files, temps, made, gone, compared, crashes>>
  BY <1>2, <1>3, <1>5 DEF Glob
<1>8. proc'[p] = r
  BY <1>7 DEF HInv, TypeOK
<1>9. ServerLooks(p)'
  BY <1>3, <1>6, <1>7, <1>8 DEF ServerLooks
<1>10. Holding(p) <=> p \notin WatchProc
  BY <1>1 DEF ProcHolds, HandHolds
<1>11. IsFiniteSet(r.names) /\ \A d \in r.doomed : KeptOver(d)
  BY <1>2, <1>4, <1>6 DEF HInv, PrunesHold
<1>12. QED
  BY <1>1, <1>2, <1>6, <1>7, <1>9, <1>10, <1>11, GoesOn

\* A watch ends and leaves the folder as it is.
LEMMA EndWatchInv == ASSUME HInv, NEW p \in Proc, EndWatch(p) PROVE HInv'
<1>1. proc[p] \in ProcState /\ ProcHolds(p) /\ proc[p].pc = "idle" /\ p \in WatchProc
  BY ProcFacts DEF EndWatch
<1>2. PICK o \in ProcState : o = proc[p]
  BY <1>1
<1>3. PICK r : r = [o EXCEPT !.pc = "over"]
  OBVIOUS
<1>4. /\ r \in ProcState /\ r.pc = "over" /\ r.scan = o.scan
      /\ r.last = o.last /\ r.life = o.life /\ r.previous = o.previous /\ r.doomed = o.doomed
      /\ r.names = o.names
  BY <1>3, NewPc
<1>5. /\ proc' = [proc EXCEPT ![p] = r]
      /\ UNCHANGED <<now, files, temps, made, gone, compared, crashes>>
  BY <1>2, <1>3 DEF EndWatch, Go
<1>6. ~Holding(p)
  BY <1>1 DEF ProcHolds, HandHolds
<1>7. p \notin UiProc
  BY <1>1, HistoryAssumption
<1>8. IsFiniteSet(r.names) /\ \A d \in r.doomed : KeptOver(d)
  BY <1>2, <1>4 DEF HInv, FilesWhole, PrunesHold
<1>9. QED
  BY <1>1, <1>2, <1>4, <1>5, <1>6, <1>7, <1>8, GoesOn

\* What previous_for finds: the last scan of the target that the process saved
\* is among what it reads, and so is the scan itself when it is still there.
LEMMA FoundFacts ==
  ASSUME HInv, NEW p \in UiProc, proc[p].pc = "reading", NEW entries \in SUBSET proc[p].names,
         \A f \in proc[p].names \cap files : f.whole => f \in entries,
         NEW b, b = PreviousOf(entries, proc[p].scan)
  PROVE  /\ b \in Scan \cup {NoScan}
         /\ proc[p].scan \in files /\ b # NoScan => b.saved < proc[p].scan.saved
         /\ \A s \in Mine(p) : s.target = proc[p].scan.target /\ s.id # proc[p].scan.id =>
              b # NoScan /\ s.saved <= b.saved
<1>1. p \in Proc /\ p \notin WatchProc
  BY HistoryAssumption DEF Proc
<1>2. ProcHolds(p)
  BY <1>1, ProcFacts
<1>3. Holding(p) /\ proc[p].scan.by = p
  BY <1>1, <1>2 DEF ProcHolds, HandHolds
<1>4. PICK n : n = proc[p].scan
  OBVIOUS
<1>5. n # NoScan /\ n.by = p
  BY <1>3, <1>4 DEF Holding
<1> DEFINE older == {f \in entries : f.target = n.target /\ f.id # n.id
                                     /\ (n \in entries => f.saved < n.saved)}
<1>6. b = Newest(older)
  <2>1. older = {f \in entries : /\ n # NoScan => f.target = n.target /\ f.id # n.id
                                 /\ (n \in entries => f.saved < n.saved)
                                 /\ (n = NoScan => f.target = CHOOSE x \in Target : TRUE)}
    BY <1>5
  <2>2. QED
    BY <1>4, <2>1 DEF PreviousOf
<1>7. older \subseteq Scan /\ IsFiniteSet(older) /\ older \subseteq entries
  <2>1. older \in SUBSET proc[p].names /\ proc[p].names \subseteq Scan /\ IsFiniteSet(proc[p].names)
    BY <1>1 DEF HInv, TypeOK, FilesWhole
  <2>2. IsFiniteSet(older)
    BY <2>1, FS_Subset
  <2>3. QED
    BY <2>1, <2>2
<1>8. \A s \in files : s.by = p => s \in entries
  <2>1. \A s \in files : s.by = p => s \in proc[p].names
    BY <1>2 DEF ProcHolds, ServerLooks
  <2>2. \A s \in files : s.whole
    BY DEF HInv, FilesWhole
  <2>3. QED
    BY <2>1, <2>2
<1>9. \A s \in Mine(p) : s.target = n.target /\ s.id # n.id => s \in older
  <2>1. \A s \in Mine(p) : s \in files /\ s.by = p /\ (s.id # n.id => s.saved < n.saved)
    BY <1>2, <1>3, <1>4 DEF ProcHolds, OrderHolds, Mine
  <2>2. QED
    BY <1>8, <2>1
<1>10. n \in files => n \in entries
  BY <1>5, <1>8
<1>11. n \in entries => \A s \in older : s.saved < n.saved
  OBVIOUS
<1> HIDE DEF older
<1>12. /\ older = {} => b = NoScan
       /\ older # {} => b \in older /\ \A s \in older : s.saved <= b.saved
  BY <1>6, <1>7, NewestFacts
<1>13. NoScan \notin Scan
  BY HistoryAssumption
<1>14. QED
  BY <1>4, <1>7, <1>9, <1>10, <1>11, <1>12, <1>13

\* A watch reads the folder for its first comparison.
LEMMA WatchReads ==
  ASSUME HInv, NEW S, S \subseteq Scan, IsFiniteSet(S), NEW n
  PROVE  PreviousOf(S, n) \in Scan \cup {NoScan}
<1> DEFINE older == {f \in S : /\ n # NoScan => f.target = n.target /\ f.id # n.id
                               /\ (n \in S => f.saved < n.saved)
                               /\ (n = NoScan => f.target = CHOOSE x \in Target : TRUE)}
<1>1. older \subseteq Scan /\ IsFiniteSet(older)
  BY FS_Subset
<1>2. PreviousOf(S, n) = Newest(older)
  BY DEF PreviousOf
<1> HIDE DEF older
<1>3. QED
  BY <1>1, <1>2, NewestFacts

\* What previous_for finds goes into the hands of the process.
LEMMA ReadInv == ASSUME HInv, NEW p \in Proc, Read(p) PROVE HInv'
<1>1. proc[p] \in ProcState /\ ProcHolds(p) /\ proc[p].pc = "reading"
  BY ProcFacts DEF Read
<1>2. PICK o \in ProcState : o = proc[p]
  BY <1>1
<1>3. PICK entries, b :
        /\ entries \in SUBSET proc[p].names
        /\ \A f \in proc[p].names \cap files : f.whole => f \in entries
        /\ b = PreviousOf(entries, proc[p].scan)
        /\ proc' = [proc EXCEPT ![p] = [o EXCEPT !.pc = "loading", !.names = {}, !.before = b]]
  <2>1. PICK early \in SUBSET (proc[p].names \ files) :
          proc' = [proc EXCEPT ![p].pc = "loading", ![p].names = {},
                     ![p].before = PreviousOf({f \in (proc[p].names \cap files) \cup early : f.whole},
                                              proc[p].scan)]
    BY DEF Read
  <2>2. PICK E : E = {f \in (proc[p].names \cap files) \cup early : f.whole}
    OBVIOUS
  <2>3. PICK b : b = PreviousOf(E, proc[p].scan)
    OBVIOUS
  <2>4. E \in SUBSET proc[p].names /\ \A f \in proc[p].names \cap files : f.whole => f \in E
    BY <2>2
  <2>5. proc' = [proc EXCEPT ![p] = [o EXCEPT !.pc = "loading", !.names = {}, !.before = b]]
    BY <1>2, <2>1, <2>2, <2>3
  <2>6. QED
    BY <2>3, <2>4, <2>5
<1>4. b \in Scan \cup {NoScan}
  <2>1. proc[p].names \subseteq Scan /\ IsFiniteSet(proc[p].names)
    BY DEF HInv, TypeOK, FilesWhole
  <2>2. entries \subseteq Scan /\ IsFiniteSet(entries)
    BY <1>3, <2>1, FS_Subset
  <2>3. QED
    BY <1>3, <2>2, WatchReads
<1>5. PICK r : r = [o EXCEPT !.pc = "loading", !.names = {}, !.before = b]
  OBVIOUS
<1>6. /\ r \in ProcState /\ r.pc = "loading" /\ r.before = b /\ r.scan = o.scan
      /\ r.last = o.last /\ r.life = o.life /\ r.previous = o.previous /\ r.doomed = o.doomed
      /\ r.names = {}
  BY <1>4, <1>5 DEF ProcState
<1>7. /\ proc' = [proc EXCEPT ![p] = r]
      /\ UNCHANGED <<now, files, temps, made, gone, compared, crashes>>
  BY <1>3, <1>5 DEF Read
<1>8. proc'[p] = r
  BY <1>7 DEF HInv, TypeOK
<1>9. ASSUME p \in UiProc PROVE ServerLooks(p)'
  <2>1. /\ o.scan \in files /\ b # NoScan => b.saved < o.scan.saved
        /\ \A s \in Mine(p) : s.target = o.scan.target /\ s.id # o.scan.id =>
             b # NoScan /\ s.saved <= b.saved
    <3>1. /\ proc[p].scan \in files /\ b # NoScan => b.saved < proc[p].scan.saved
          /\ \A s \in Mine(p) : s.target = proc[p].scan.target /\ s.id # proc[p].scan.id =>
               b # NoScan /\ s.saved <= b.saved
      BY <1>1, <1>3, <1>9, FoundFacts
    <3>2. QED
      BY <1>2, <3>1
  <2>2. Mine(p)' = Mine(p)
    BY <1>2, <1>6, <1>7, <1>8 DEF Mine
  <2>3. QED
    BY <1>6, <1>7, <1>8, <2>1, <2>2 DEF ServerLooks
<1>10. Holding(p) <=> p \notin WatchProc
  BY <1>1 DEF ProcHolds, HandHolds
<1>11. IsFiniteSet(r.names) /\ \A d \in r.doomed : KeptOver(d)
  BY <1>2, <1>6, FS_EmptySet DEF HInv, PrunesHold
<1>12. QED
  BY <1>1, <1>2, <1>6, <1>7, <1>9, <1>10, <1>11, GoesOn

\* What is compared is a pair of the last scan and the one before, and stays one.
LEMMA NewPair ==
  ASSUME HInv, NEW p \in Proc, Holding(p), NEW old \in Scan \cup {NoScan},
         UNCHANGED files, compared' = compared \cup {<<proc[p].scan, old>>},
         p \in UiProc /\ proc[p].scan \in files /\ old # NoScan => old.saved < proc[p].scan.saved,
         \A s \in Mine(p) : s.target = proc[p].scan.target /\ s.id # proc[p].scan.id =>
           old # NoScan /\ s.saved <= old.saved
  PROVE  ComparedWithTheLast'
<1>1. PICK n \in Scan : n = proc[p].scan
  BY ProcFacts
<1>2. n.by = p /\ n.life = proc[p].life /\ n.id \in Int
  BY <1>1, ProcFacts DEF ProcHolds, HandHolds
<1>3. \A s \in files : s.by = n.by /\ s.life = n.life => s \in Mine(p)
  BY <1>2 DEF Mine
<1>4. /\ old # NoScan /\ n.by \in UiProc /\ n \in files => old.saved < n.saved
      /\ \A s \in files : s.by = n.by /\ s.life = n.life /\ s.target = n.target /\ s.id < n.id
           => old # NoScan /\ s.saved <= old.saved
  BY <1>1, <1>2, <1>3
<1>5. \A c \in compared' : c \in compared \/ (c[1] = n /\ c[2] = old)
  BY <1>1
<1>6. QED
  BY <1>4, <1>5 DEF HInv, ComparedWithTheLast

\* The books when a pair is added.
LEMMA PairBooks ==
  ASSUME HInv, NEW p \in Proc, Holding(p), NEW old \in Scan \cup {NoScan}, NEW r \in ProcState,
         UNCHANGED <<now, files, temps, made, gone, crashes>>,
         compared' = compared \cup {<<proc[p].scan, old>>},
         proc[p].pc \notin {"writing", "placing"}, r.pc \notin {"writing", "placing"},
         r.doomed = proc[p].doomed, IsFiniteSet(r.names),
         proc' = [proc EXCEPT ![p] = r]
  PROVE  /\ TypeOK' /\ BooksHold' /\ FilesWhole' /\ PrunesHold'
         /\ proc'[p] = r /\ \A q \in Proc : q # p => proc'[q] = proc[q]
         /\ made <= made' /\ \A s \in files' : s \in files \/ s.by = p
         /\ \A c \in compared' : c \in compared \/ c[1].by = p
<1>1. proc'[p] = r /\ (\A q \in Proc : q # p => proc'[q] = proc[q]) /\ proc' \in [Proc -> ProcState]
  BY DEF HInv, TypeOK, ProcState
<1>2. TypeOK'
  BY <1>1 DEF HInv, TypeOK, ProcState
<1>3. PICK n \in Scan : n = proc[p].scan
  BY ProcFacts
<1>4. n.by = p /\ n.id <= made
  BY <1>3, ProcFacts DEF ProcHolds, HandHolds
<1>5. /\ compared' \subseteq Scan \X (Scan \cup {NoScan})
      /\ \A c \in compared' : c[1].id <= made
      /\ \A c \in compared' : c \in compared \/ c[1].by = p
  BY <1>3, <1>4 DEF HInv, BooksHold
<1>6. Writers' = Writers
  BY <1>1 DEF Writers
<1>7. BooksHold'
  BY <1>5, <1>6 DEF HInv, BooksHold
<1>8. FilesWhole'
  BY <1>1 DEF HInv, FilesWhole
<1>9. PrunesHold'
  <2>1. \A g : KeptOver(g)' <=> KeptOver(g)
    BY DEF KeptOver, Above
  <2>2. QED
    BY <1>1, <2>1 DEF HInv, PrunesHold
<1>10. made <= made'
  BY ProcFacts
<1>11. QED
  BY <1>1, <1>2, <1>5, <1>7, <1>8, <1>9, <1>10

\* The server compares its scan; a watch has what it will compare with.
LEMMA LoadInv == ASSUME HInv, NEW p \in Proc, Load(p) PROVE HInv'
<1>1. proc[p] \in ProcState /\ ProcHolds(p) /\ proc[p].pc = "loading"
  BY ProcFacts DEF Load
<1>2. PICK o \in ProcState : o = proc[p]
  BY <1>1
<1>3. Holding(p) <=> p \notin WatchProc
  BY <1>1 DEF ProcHolds, HandHolds
<1>4. CASE p \in WatchProc
  <2>1. PICK old \in Scan \cup {NoScan} :
          /\ proc' = [proc EXCEPT ![p] = [o EXCEPT !.pc = "idle", !.before = NoScan, !.previous = old]]
          /\ UNCHANGED <<now, files, temps, made, gone, compared, crashes>>
    <3>1. PICK old : old = IF proc[p].before \in files THEN proc[p].before ELSE NoScan
      OBVIOUS
    <3>2. old \in Scan \cup {NoScan}
      BY <3>1 DEF HInv, TypeOK
    <3>3. /\ proc' = [proc EXCEPT ![p] = [o EXCEPT !.pc = "idle", !.before = NoScan, !.previous = old]]
          /\ UNCHANGED <<now, files, temps, made, gone, compared, crashes>>
      BY <1>2, <1>4, <3>1 DEF Load
    <3>4. QED
      BY <3>2, <3>3
  <2>2. PICK r : r = [o EXCEPT !.pc = "idle", !.before = NoScan, !.previous = old]
    OBVIOUS
  <2>3. /\ r \in ProcState /\ r.pc = "idle" /\ r.scan = o.scan
        /\ r.last = o.last /\ r.life = o.life /\ r.doomed = o.doomed
        /\ r.names = o.names
    BY <2>2 DEF ProcState
  <2>4. proc'[p] = r
    BY <2>1, <2>2 DEF HInv, TypeOK
  <2>5. ~Holding(p) /\ ~Holding(p)' /\ Mine(p)' = Mine(p) /\ Mine(p) = {}
    <3>1. Mine(p) = {}
      BY <1>1, <1>4 DEF ProcHolds, WatchLooks
    <3>2. QED
      BY <1>2, <1>3, <1>4, <2>1, <2>3, <2>4, <3>1 DEF Holding, Mine
  <2>6. ProcHolds(p)'
    <3>1. HandHolds(p)'
      BY <2>3, <2>4, <2>5 DEF HandHolds
    <3>2. OrderHolds(p)'
      BY <1>1, <1>2, <2>1, <2>3, <2>4, <2>5 DEF ProcHolds, OrderHolds
    <3>3. ServerLooks(p)' /\ WatchLooks(p)'
      BY <2>3, <2>4, <2>5 DEF ServerLooks, WatchLooks
    <3>4. QED
      BY <3>1, <3>2, <3>3 DEF ProcHolds
  <2>7. IsFiniteSet(r.names) /\ \A d \in r.doomed : KeptOver(d)
    BY <1>2, <2>3 DEF HInv, FilesWhole, PrunesHold
  <2>8. QED
    BY <1>1, <2>1, <2>2, <2>3, <2>6, <2>7, LocalSteps
<1>5. CASE p \notin WatchProc
  <2>1. p \in UiProc /\ Holding(p)
    BY <1>3, <1>5 DEF Proc
  <2>2. PICK r : r = [o EXCEPT !.pc = "idle", !.before = NoScan, !.scan = NoScan]
    OBVIOUS
  <2>3. /\ r \in ProcState /\ r.pc = "idle" /\ r.scan = NoScan
        /\ r.last = o.last /\ r.life = o.life /\ r.doomed = o.doomed
        /\ r.names = o.names
    BY <2>2 DEF ProcState
  <2>4. /\ proc' = [proc EXCEPT ![p] = r]
        /\ compared' = compared \cup {<<proc[p].scan, proc[p].before>>}
        /\ UNCHANGED <<now, files, temps, made, gone, crashes>>
    BY <1>2, <1>5, <2>2 DEF Load
  <2>5. proc[p].before \in Scan \cup {NoScan}
    BY <1>1 DEF ProcState
  <2>6. /\ proc[p].scan \in files /\ proc[p].before # NoScan => proc[p].before.saved < proc[p].scan.saved
        /\ \A s \in Mine(p) : s.target = proc[p].scan.target /\ s.id # proc[p].scan.id =>
             proc[p].before # NoScan /\ s.saved <= proc[p].before.saved
    BY <1>1, <2>1 DEF ProcHolds, ServerLooks
  <2>7. ComparedWithTheLast'
    BY <2>1, <2>4, <2>5, <2>6, NewPair
  <2>8. /\ TypeOK' /\ BooksHold' /\ FilesWhole' /\ PrunesHold'
        /\ proc'[p] = r /\ \A q \in Proc : q # p => proc'[q] = proc[q]
        /\ made <= made' /\ \A s \in files' : s \in files \/ s.by = p
        /\ \A c \in compared' : c \in compared \/ c[1].by = p
    BY <1>1, <1>2, <2>1, <2>3, <2>4, <2>5, PairBooks DEF HInv, FilesWhole
  <2>9. ~Holding(p)' /\ Mine(p)' = Mine(p)
    BY <1>2, <2>3, <2>4, <2>8 DEF Holding, Mine
  <2>10. ProcHolds(p)'
    <3>1. HandHolds(p)'
      BY <2>3, <2>8, <2>9 DEF HandHolds
    <3>2. OrderHolds(p)'
      BY <1>1, <1>2, <2>3, <2>4, <2>8, <2>9 DEF ProcHolds, OrderHolds
    <3>3. ServerLooks(p)'
      BY <2>3, <2>8 DEF ServerLooks
    <3>4. QED
      BY <1>5, <3>1, <3>2, <3>3 DEF ProcHolds
  <2>11. QED
    BY <2>7, <2>8, <2>10, OneSteps
<1>6. QED
  BY <1>4, <1>5

\* A watch compares its scan with the one before, and keeps it for the next.
LEMMA CompareInv == ASSUME HInv, NEW p \in Proc, Compare(p) PROVE HInv'
<1>1. proc[p] \in ProcState /\ ProcHolds(p) /\ proc[p].pc = "compare"
  BY ProcFacts DEF Compare
<1>2. PICK o \in ProcState : o = proc[p]
  BY <1>1
<1>3. Holding(p) /\ p \in WatchProc /\ p \notin UiProc
  BY <1>1, HistoryAssumption DEF ProcHolds, HandHolds
<1>4. o.scan \in Scan /\ o.scan # NoScan /\ o.scan.saved = o.last
  BY <1>1, <1>2, <1>3, ProcFacts DEF Holding, ProcHolds, HandHolds
<1>5. PICK r : r = [o EXCEPT !.pc = "idle", !.previous = o.scan, !.scan = NoScan]
  OBVIOUS
<1>6. /\ r \in ProcState /\ r.pc = "idle" /\ r.scan = NoScan /\ r.previous = o.scan
      /\ r.last = o.last /\ r.life = o.life /\ r.doomed = o.doomed
      /\ r.names = o.names
  BY <1>4, <1>5 DEF ProcState
<1>7. /\ proc' = [proc EXCEPT ![p] = r]
      /\ compared' = compared \cup {<<proc[p].scan, proc[p].previous>>}
      /\ UNCHANGED <<now, files, temps, made, gone, crashes>>
  BY <1>2, <1>5 DEF Compare
<1>8. proc[p].previous \in Scan \cup {NoScan}
  BY <1>1 DEF ProcState
<1>9. \A s \in Mine(p) : s.id # proc[p].scan.id => proc[p].previous # NoScan /\ s.saved <= proc[p].previous.saved
  BY <1>1, <1>3 DEF ProcHolds, WatchLooks
<1>10. ComparedWithTheLast'
  BY <1>3, <1>7, <1>8, <1>9, NewPair
<1>11. /\ TypeOK' /\ BooksHold' /\ FilesWhole' /\ PrunesHold'
       /\ proc'[p] = r /\ \A q \in Proc : q # p => proc'[q] = proc[q]
       /\ made <= made' /\ \A s \in files' : s \in files \/ s.by = p
       /\ \A c \in compared' : c \in compared \/ c[1].by = p
  BY <1>1, <1>2, <1>3, <1>6, <1>7, <1>8, PairBooks DEF HInv, FilesWhole
<1>12. ~Holding(p)' /\ Mine(p)' = Mine(p)
  BY <1>2, <1>6, <1>7, <1>11 DEF Holding, Mine
<1>13. ProcHolds(p)'
  <2>1. HandHolds(p)'
    BY <1>6, <1>11, <1>12 DEF HandHolds
  <2>2. OrderHolds(p)'
    BY <1>1, <1>2, <1>6, <1>7, <1>11, <1>12 DEF ProcHolds, OrderHolds
  <2>3. WatchLooks(p)'
    <3>1. \A s \in Mine(p) : s.saved <= o.scan.saved
      BY <1>1, <1>2, <1>4 DEF ProcHolds, OrderHolds
    <3>2. QED
      BY <1>4, <1>6, <1>11, <1>12, <3>1 DEF WatchLooks
  <2>4. QED
    BY <1>3, <2>1, <2>2, <2>3 DEF ProcHolds
<1>14. QED
  BY <1>10, <1>11, <1>13, OneSteps

\* A temporary file more, or one less, with its writer.
LEMMA TempsHold ==
  ASSUME HInv, NEW p \in Proc
  PROVE  /\ temps \in Int /\ crashes \in 0 .. MaxCrashes /\ MaxCrashes \in Nat
         /\ Cardinality(Writers) \in Nat
         /\ Cardinality(Writers) <= temps /\ temps <= Cardinality(Writers) + crashes
         /\ Cardinality(Writers \cup {p}) = IF p \in Writers THEN Cardinality(Writers) ELSE Cardinality(Writers) + 1
         /\ Cardinality(Writers \ {p}) = IF p \in Writers THEN Cardinality(Writers) - 1 ELSE Cardinality(Writers)
         /\ Cardinality(Writers \cup {p}) <= Cardinality(Proc)
         /\ Cardinality(Proc) \in Nat
<1>1. Writers \subseteq Proc /\ Writers \cup {p} \subseteq Proc
  BY DEF Writers
<1>2. MaxCrashes \in Nat /\ Cardinality(Proc) \in Nat
  BY WriterFacts, <1>1, HistoryAssumption
<1>3. temps \in Int
  BY <1>2 DEF HInv, TypeOK
<1>4. QED
  BY <1>1, <1>2, <1>3, WriterFacts DEF HInv, BooksHold

\* A save begins: the time of the scan is later than that of all the process
\* saved before.
LEMMA CreateInv == ASSUME HInv, NEW p \in Proc, Create(p) PROVE HInv'
<1>1. /\ proc[p] \in ProcState /\ ProcHolds(p) /\ proc[p].pc = "idle" /\ made \in Nat /\ now \in Nat
      /\ \A q \in Proc : Holding(q) => proc[q].scan.id \in 1 .. MaxScans
  BY ProcFacts DEF Create
<1>2. PICK o \in ProcState : o = proc[p]
  BY <1>1
<1>3. o.last \in Nat /\ o.life \in Nat /\ Stamp(p) \in Nat /\ o.last < Stamp(p)
  BY <1>1, <1>2 DEF ProcState, Stamp
<1>4. PICK t, s :
        /\ t \in Target
        /\ s = [id |-> NewId, target |-> t, saved |-> Stamp(p), mtime |-> now,
                whole |-> FALSE, by |-> p, life |-> o.life]
        /\ proc' = [proc EXCEPT ![p].pc = "writing", ![p].scan = s, ![p].last = s.saved]
  BY <1>2 DEF Create
<1>5. /\ UNCHANGED <<now, files, gone, compared, crashes>>
      /\ temps' = temps + 1 /\ made' = made + 1 /\ made + 1 \in 1 .. MaxScans
  BY <1>1, HistoryAssumption DEF Create, NewId
<1>6. /\ s \in Scan /\ s.id = made + 1 /\ s.saved = Stamp(p) /\ s.by = p /\ s.life = o.life
  BY <1>1, <1>3, <1>4, <1>5 DEF Scan, NewId
<1>7. PICK r : r = [o EXCEPT !.pc = "writing", !.scan = s, !.last = s.saved]
  OBVIOUS
<1>8. /\ r \in ProcState /\ r.pc = "writing" /\ r.scan = s /\ r.last = s.saved
      /\ r.doomed = o.doomed /\ r.names = o.names /\ r.life = o.life /\ r.previous = o.previous
  BY <1>3, <1>6, <1>7 DEF ProcState
<1>9. proc' = [proc EXCEPT ![p] = r]
  BY <1>2, <1>4, <1>7
<1>10. proc'[p] = r /\ (\A q \in Proc : q # p => proc'[q] = proc[q]) /\ proc' \in [Proc -> ProcState]
  BY <1>8, <1>9 DEF HInv, TypeOK, ProcState
<1>11. Writers' = Writers \cup {p} /\ p \notin Writers
  BY <1>1, <1>8, <1>10 DEF Writers
<1>12. /\ Cardinality(Writers') = Cardinality(Writers) + 1
       /\ temps' \in 0 .. Cardinality(Proc) + MaxCrashes
       /\ Cardinality(Writers') <= temps' /\ temps' <= Cardinality(Writers') + crashes'
  <2>1. /\ temps \in Int /\ crashes \in 0 .. MaxCrashes /\ MaxCrashes \in Nat
        /\ Cardinality(Writers) \in Nat /\ Cardinality(Proc) \in Nat
        /\ Cardinality(Writers) <= temps /\ temps <= Cardinality(Writers) + crashes
        /\ Cardinality(Writers \cup {p}) <= Cardinality(Proc)
        /\ Cardinality(Writers \cup {p}) = Cardinality(Writers) + 1
    BY <1>11, TempsHold
  <2>2. /\ Cardinality(Writers') = Cardinality(Writers) + 1
        /\ Cardinality(Writers) + 1 <= Cardinality(Proc)
    BY <1>11, <2>1
  <2>3. QED
    BY <1>5, <2>1, <2>2
<1>13. TypeOK'
  BY <1>5, <1>10, <1>12 DEF HInv, TypeOK, ProcState
<1>14. BooksHold'
  <2>1. \A c \in compared : c[1].id \in Int
    BY DEF HInv, BooksHold, Scan
  <2>2. \A c \in compared : c[1].id <= made'
    BY <1>1, <1>5, <2>1 DEF HInv, BooksHold
  <2>3. QED
    BY <1>5, <1>12, <2>2, HistoryAssumption DEF HInv, BooksHold
<1>15. FilesWhole'
  BY <1>2, <1>5, <1>8, <1>10 DEF HInv, FilesWhole
<1>16. PrunesHold'
  <2>1. \A g : KeptOver(g)' <=> KeptOver(g)
    BY <1>5 DEF KeptOver, Above
  <2>2. QED
    BY <1>2, <1>5, <1>8, <1>10, <2>1 DEF HInv, PrunesHold
<1>17. ComparedWithTheLast'
  BY <1>5 DEF HInv, ComparedWithTheLast
<1>18. ~Holding(p) /\ Holding(p)' /\ Mine(p)' = Mine(p)
  <2>1. ~Holding(p)
    BY <1>1 DEF ProcHolds, HandHolds
  <2>2. Holding(p)'
    BY <1>6, <1>8, <1>10, HistoryAssumption DEF Holding
  <2>3. QED
    BY <1>2, <1>5, <1>8, <1>10, <2>1, <2>2 DEF Mine
<1>19. ProcHolds(p)'
  <2>1. HandHolds(p)'
    <3>1. \A c \in compared' : c[1].id <= made /\ c[1].id \in Int
      BY <1>5 DEF HInv, BooksHold, Scan
    <3>2. \A c \in compared' : c[1].id < s.id
      BY <1>1, <1>6, <3>1
    <3>3. s.id <= made'
      BY <1>1, <1>5, <1>6
    <3>4. QED
      BY <1>6, <1>8, <1>10, <1>18, <3>2, <3>3 DEF HandHolds
  <2>2. OrderHolds(p)'
    <3>1. \A x \in Mine(p) : x.saved <= o.last /\ x.saved \in Nat
      BY <1>1, <1>2 DEF ProcHolds, OrderHolds, Mine, HInv, TypeOK, Scan
    <3>2. \A x \in Mine(p) : x.saved < s.saved /\ x.saved <= s.saved
      BY <1>3, <1>6, <3>1
    <3>3. \A x \in files' : x.by = p => x.life <= r.life
      BY <1>1, <1>2, <1>5, <1>8 DEF ProcHolds, OrderHolds
    <3>4. QED
      BY <1>8, <1>10, <1>18, <3>2, <3>3 DEF OrderHolds
  <2>3. ServerLooks(p)'
    BY <1>8, <1>10 DEF ServerLooks
  <2>4. ASSUME p \in WatchProc PROVE WatchLooks(p)'
    BY <1>1, <1>2, <1>8, <1>10, <1>18, <2>4 DEF ProcHolds, WatchLooks
  <2>5. QED
    BY <2>1, <2>2, <2>3, <2>4 DEF ProcHolds
<1>20. QED
  BY <1>1, <1>5, <1>10, <1>13, <1>14, <1>15, <1>16, <1>17, <1>19, OneSteps

\* The books when a writer is done, or dies.
LEMMA WriterLeaves ==
  ASSUME HInv, NEW p \in Proc, NEW r \in ProcState, r.pc \notin {"writing", "placing"},
         proc' = [proc EXCEPT ![p] = r]
  PROVE  /\ proc'[p] = r /\ (\A q \in Proc : q # p => proc'[q] = proc[q])
         /\ proc' \in [Proc -> ProcState]
         /\ Writers' = Writers \ {p} /\ Cardinality(Writers') \in Nat
         /\ IF p \in Writers THEN Cardinality(Writers') = Cardinality(Writers) - 1
            ELSE Cardinality(Writers') = Cardinality(Writers)
<1>1. proc'[p] = r /\ (\A q \in Proc : q # p => proc'[q] = proc[q]) /\ proc' \in [Proc -> ProcState]
  BY DEF HInv, TypeOK, ProcState
<1>2. Writers' = Writers \ {p}
  BY <1>1 DEF Writers
<1>3. IF p \in Writers THEN Cardinality(Writers \ {p}) = Cardinality(Writers) - 1
      ELSE Cardinality(Writers \ {p}) = Cardinality(Writers)
  BY TempsHold
<1>4. Writers \ {p} \subseteq Proc
  BY DEF Writers
<1>5. Cardinality(Writers \ {p}) \in Nat
  BY <1>4, WriterFacts
<1>6. QED
  BY <1>1, <1>2, <1>3, <1>5

\* A save that fails takes its temporary file with it.
LEMMA WriteFailsInv == ASSUME HInv, NEW p \in Proc, WriteFails(p) PROVE HInv'
<1>1. proc[p] \in ProcState /\ ProcHolds(p) /\ proc[p].pc = "writing" /\ made \in Nat
  BY ProcFacts DEF WriteFails
<1>2. PICK o \in ProcState : o = proc[p]
  BY <1>1
<1>3. PICK r : r = [o EXCEPT !.pc = IF p \in UiProc THEN "idle" ELSE "over", !.scan = NoScan]
  OBVIOUS
<1>4. /\ r \in ProcState /\ r.pc = (IF p \in UiProc THEN "idle" ELSE "over") /\ r.scan = NoScan
      /\ r.last = o.last /\ r.doomed = o.doomed /\ r.names = o.names /\ r.life = o.life
  BY <1>3 DEF ProcState
<1>5. /\ proc' = [proc EXCEPT ![p] = r] /\ temps' = temps - 1
      /\ UNCHANGED <<now, files, made, gone, compared, crashes>>
  BY <1>2, <1>3 DEF WriteFails
<1>6. /\ proc'[p] = r /\ (\A q \in Proc : q # p => proc'[q] = proc[q]) /\ proc' \in [Proc -> ProcState]
      /\ p \in Writers /\ Cardinality(Writers') = Cardinality(Writers) - 1
      /\ Cardinality(Writers') \in Nat
  <2>1. p \in Writers /\ r.pc \notin {"writing", "placing"}
    BY <1>1, <1>4 DEF Writers
  <2>2. QED
    BY <1>4, <1>5, <2>1, WriterLeaves
<1>7. /\ temps' \in 0 .. Cardinality(Proc) + MaxCrashes
      /\ Cardinality(Writers') <= temps' /\ temps' <= Cardinality(Writers') + crashes'
  <2>1. temps \in 0 .. Cardinality(Proc) + MaxCrashes
    BY DEF HInv, TypeOK
  <2>2. /\ temps \in Int /\ crashes \in 0 .. MaxCrashes /\ MaxCrashes \in Nat
        /\ Cardinality(Writers) \in Nat /\ Cardinality(Proc) \in Nat
        /\ Cardinality(Writers) <= temps /\ temps <= Cardinality(Writers) + crashes
    BY TempsHold
  <2>3. QED
    BY <1>5, <1>6, <2>1, <2>2
<1>8. TypeOK'
  BY <1>5, <1>6, <1>7 DEF HInv, TypeOK, ProcState
<1>9. BooksHold'
  BY <1>5, <1>7 DEF HInv, BooksHold
<1>10. FilesWhole'
  BY <1>2, <1>4, <1>5, <1>6 DEF HInv, FilesWhole
<1>11. PrunesHold'
  <2>1. \A g : KeptOver(g)' <=> KeptOver(g)
    BY <1>5 DEF KeptOver, Above
  <2>2. QED
    BY <1>2, <1>4, <1>5, <1>6, <2>1 DEF HInv, PrunesHold
<1>12. ComparedWithTheLast'
  BY <1>5 DEF HInv, ComparedWithTheLast
<1>13. ~Holding(p)' /\ Mine(p)' = Mine(p) /\ (p \in WatchProc <=> p \notin UiProc)
  BY <1>2, <1>4, <1>5, <1>6, HistoryAssumption DEF Holding, Mine, Proc
<1>14. ProcHolds(p)'
  <2>1. HandHolds(p)'
    BY <1>4, <1>6, <1>13 DEF HandHolds
  <2>2. OrderHolds(p)'
    BY <1>1, <1>2, <1>4, <1>5, <1>6, <1>13 DEF ProcHolds, OrderHolds
  <2>3. ServerLooks(p)'
    BY <1>4, <1>6 DEF ServerLooks
  <2>4. p \in WatchProc => WatchLooks(p)'
    BY <1>4, <1>6, <1>13 DEF WatchLooks
  <2>5. QED
    BY <2>1, <2>2, <2>3, <2>4 DEF ProcHolds
<1>15. QED
  BY <1>1, <1>5, <1>6, <1>8, <1>9, <1>10, <1>11, <1>12, <1>14, OneSteps

\* The file gets its name: the newest scan of its process is in the folder.
LEMMA PlaceInv == ASSUME HInv, NEW p \in Proc, Place(p) PROVE HInv'
<1>1. proc[p] \in ProcState /\ ProcHolds(p) /\ proc[p].pc = "placing" /\ made \in Nat
  BY ProcFacts DEF Place
<1>2. PICK o \in ProcState : o = proc[p]
  BY <1>1
<1>3. PICK r : r = [o EXCEPT !.pc = "listing"]
  OBVIOUS
<1>4. /\ r \in ProcState /\ r.pc = "listing" /\ r.scan = o.scan /\ r.last = o.last
      /\ r.life = o.life /\ r.previous = o.previous /\ r.doomed = o.doomed
      /\ r.names = o.names
  BY <1>3, NewPc
<1>5. PICK s : s = o.scan
  OBVIOUS
<1>6. /\ Holding(p) /\ s \in Scan /\ s.by = p /\ s.life = o.life /\ s.saved = o.last
      /\ s.id \in Int /\ s.saved \in Nat /\ s.whole
  BY <1>1, <1>2, <1>5, ProcFacts DEF ProcHolds, HandHolds, HInv, FilesWhole
<1>7. /\ proc' = [proc EXCEPT ![p] = r] /\ temps' = temps - 1 /\ files' = files \cup {s}
      /\ UNCHANGED <<now, made, gone, compared, crashes>>
  BY <1>2, <1>3, <1>5 DEF Place, Go
<1>8. /\ proc'[p] = r /\ (\A q \in Proc : q # p => proc'[q] = proc[q]) /\ proc' \in [Proc -> ProcState]
      /\ p \in Writers /\ Cardinality(Writers') = Cardinality(Writers) - 1
      /\ Cardinality(Writers') \in Nat
  <2>1. p \in Writers /\ r.pc \notin {"writing", "placing"}
    BY <1>1, <1>4 DEF Writers
  <2>2. QED
    BY <1>4, <1>7, <2>1, WriterLeaves
<1>9. /\ temps' \in 0 .. Cardinality(Proc) + MaxCrashes
      /\ Cardinality(Writers') <= temps' /\ temps' <= Cardinality(Writers') + crashes'
  <2>1. temps \in 0 .. Cardinality(Proc) + MaxCrashes
    BY DEF HInv, TypeOK
  <2>2. /\ temps \in Int /\ crashes \in 0 .. MaxCrashes /\ MaxCrashes \in Nat
        /\ Cardinality(Writers) \in Nat /\ Cardinality(Proc) \in Nat
        /\ Cardinality(Writers) <= temps /\ temps <= Cardinality(Writers) + crashes
    BY TempsHold
  <2>3. QED
    BY <1>7, <1>8, <2>1, <2>2
<1>10. TypeOK'
  BY <1>6, <1>7, <1>8, <1>9 DEF HInv, TypeOK, ProcState
<1>11. IsFiniteSet(files')
  BY <1>7, FS_AddElement DEF HInv, BooksHold
<1>12. BooksHold'
  BY <1>7, <1>9, <1>11 DEF HInv, BooksHold
<1>13. FilesWhole'
  BY <1>2, <1>4, <1>6, <1>7, <1>8 DEF HInv, FilesWhole
<1>14. PrunesHold'
  <2>1. \A g : KeptOver(g) => KeptOver(g)'
    BY <1>7, <1>11, KeptGrows
  <2>2. QED
    BY <1>2, <1>4, <1>7, <1>8, <2>1 DEF HInv, PrunesHold
<1>15. \A c \in compared : c[1].by = p => c[1].id < s.id /\ c[1].id \in Int
  <2>1. \A c \in compared : c[1] \in Scan
    BY DEF HInv, BooksHold
  <2>2. \A c \in compared : c[1].id \in Int
    BY <2>1 DEF Scan
  <2>3. QED
    BY <1>1, <1>2, <1>5, <1>6, <2>2 DEF ProcHolds, HandHolds
<1>16. ComparedWithTheLast'
  <2>1. \A c \in compared : c[1] # s /\ (s.by = c[1].by => ~(s.id < c[1].id))
    BY <1>6, <1>15
  <2>2. QED
    BY <1>7, <2>1 DEF HInv, ComparedWithTheLast
<1>17. Holding(p)' /\ Mine(p)' = Mine(p) \cup {s}
  BY <1>2, <1>4, <1>6, <1>7, <1>8 DEF Holding, Mine
<1>18. ProcHolds(p)'
  <2>1. HandHolds(p)'
    BY <1>1, <1>2, <1>4, <1>6, <1>7, <1>8, <1>17 DEF ProcHolds, HandHolds
  <2>2. OrderHolds(p)'
    <3>1. o.life \in Nat /\ o.life <= o.life /\ s.saved <= s.saved
      BY <1>6 DEF ProcState
    <3>2. QED
      BY <1>1, <1>2, <1>4, <1>5, <1>6, <1>7, <1>8, <1>17, <3>1 DEF ProcHolds, OrderHolds
  <2>3. ServerLooks(p)'
    BY <1>4, <1>8 DEF ServerLooks
  <2>4. p \in WatchProc => WatchLooks(p)'
    BY <1>1, <1>2, <1>4, <1>5, <1>6, <1>8, <1>17 DEF ProcHolds, WatchLooks
  <2>5. QED
    BY <2>1, <2>2, <2>3, <2>4 DEF ProcHolds
<1>19. \A x \in files' : x \in files \/ x.by = p
  BY <1>6, <1>7
<1>20. QED
  BY <1>1, <1>7, <1>8, <1>10, <1>12, <1>13, <1>14, <1>16, <1>18, <1>19, OneSteps

\* A prune removes what has Keep newer scans in the folder; these stay.
LEMMA UnlinkInv == ASSUME HInv, NEW p \in Proc, Unlink(p) PROVE HInv'
<1>1. proc[p] \in ProcState /\ ProcHolds(p) /\ proc[p].pc = "pruning" /\ made \in Nat
  BY ProcFacts DEF Unlink
<1>2. PICK o \in ProcState : o = proc[p]
  BY <1>1
<1>3. PICK d \in o.doomed : /\ files' = files \ {d}
                            /\ gone' = gone \cup (files \cap {d})
                            /\ proc' = [proc EXCEPT ![p].doomed = @ \ {d}]
  BY <1>2 DEF Unlink
<1>4. UNCHANGED <<now, temps, made, compared, crashes>>
  BY DEF Unlink
<1>5. d \in Scan /\ KeptOver(d) /\ files \subseteq Scan /\ IsFiniteSet(files)
  BY <1>2 DEF HInv, PrunesHold, ProcState, TypeOK, BooksHold
<1>6. PICK r : r = [o EXCEPT !.doomed = @ \ {d}]
  OBVIOUS
<1>7. /\ r \in ProcState /\ r.pc = o.pc /\ r.scan = o.scan /\ r.last = o.last
      /\ r.life = o.life /\ r.previous = o.previous /\ r.doomed = o.doomed \ {d}
      /\ r.names = o.names
  BY <1>6 DEF ProcState
<1>8. proc' = [proc EXCEPT ![p] = r]
  BY <1>2, <1>3, <1>6
<1>9. proc'[p] = r /\ (\A q \in Proc : q # p => proc'[q] = proc[q]) /\ proc' \in [Proc -> ProcState]
  BY <1>7, <1>8 DEF HInv, TypeOK, ProcState
<1>10. TypeOK'
  BY <1>3, <1>4, <1>5, <1>9 DEF HInv, TypeOK, ProcState
<1>11. Writers' = Writers
  BY <1>1, <1>2, <1>7, <1>9 DEF Writers
<1>12. IsFiniteSet(files')
  BY <1>3, <1>5, FS_RemoveElement
<1>13. BooksHold'
  BY <1>4, <1>11, <1>12 DEF HInv, BooksHold
<1>14. FilesWhole'
  BY <1>1, <1>2, <1>3, <1>7, <1>9 DEF HInv, FilesWhole
<1>15. PrunesHold'
  <2>1. \A g \in Scan : KeptOver(g) => KeptOver(g)'
    BY <1>3, <1>5, KeptUnlink
  <2>2. \A g \in gone' : g \in Scan /\ KeptOver(g)
    BY <1>3, <1>5 DEF HInv, TypeOK, PrunesHold
  <2>3. \A q \in Proc : \A g \in proc'[q].doomed : g \in Scan /\ KeptOver(g)
    <3>1. \A q \in Proc : proc[q].doomed \subseteq Scan
      BY DEF HInv, TypeOK
    <3>2. \A q \in Proc : proc'[q].doomed \subseteq proc[q].doomed
      BY <1>2, <1>7, <1>9
    <3>3. QED
      BY <3>1, <3>2 DEF HInv, PrunesHold
  <2>4. QED
    BY <2>1, <2>2, <2>3 DEF PrunesHold
<1>16. ComparedWithTheLast'
  BY <1>3, <1>4 DEF HInv, ComparedWithTheLast
<1>17. (Holding(p)' <=> Holding(p)) /\ Mine(p)' \subseteq Mine(p)
  BY <1>2, <1>3, <1>7, <1>9 DEF Holding, Mine
<1>18. ProcHolds(p)'
  <2>1. HandHolds(p)'
    BY <1>1, <1>2, <1>4, <1>7, <1>9, <1>17 DEF ProcHolds, HandHolds
  <2>2. OrderHolds(p)'
    BY <1>1, <1>2, <1>3, <1>7, <1>9, <1>17 DEF ProcHolds, OrderHolds
  <2>3. ServerLooks(p)'
    BY <1>1, <1>2, <1>7, <1>9 DEF ServerLooks
  <2>4. p \in WatchProc => WatchLooks(p)'
    BY <1>1, <1>2, <1>7, <1>9, <1>17 DEF ProcHolds, WatchLooks
  <2>5. QED
    BY <2>1, <2>2, <2>3, <2>4 DEF ProcHolds
<1>19. QED
  BY <1>1, <1>3, <1>4, <1>9, <1>10, <1>13, <1>14, <1>15, <1>16, <1>18, OneSteps

\* A process that was started anew has saved nothing yet.
LEMMA CrashInv == ASSUME HInv, NEW p \in Proc, Crash(p) PROVE HInv'
<1>1. proc[p] \in ProcState /\ ProcHolds(p) /\ made \in Nat /\ proc[p].life \in Nat
  BY ProcFacts DEF ProcState
<1>2. PICK r : r = Begun(p, proc[p].life + 1)
  OBVIOUS
<1>3. /\ r \in ProcState /\ r.pc = (IF p \in WatchProc THEN "glob" ELSE "idle") /\ r.scan = NoScan
      /\ r.doomed = {} /\ r.names = {} /\ r.life = proc[p].life + 1
  <2>1. PICK l : l = proc[p].life + 1
    OBVIOUS
  <2>2. l \in Nat
    BY <1>1, <2>1
  <2>3. PICK c : c = (IF p \in WatchProc THEN "glob" ELSE "idle")
    OBVIOUS
  <2>4. c \in {"glob", "idle"}
    BY <2>3
  <2>5. PICK f : f = Fresh
    OBVIOUS
  <2>6. f \in ProcState /\ f.scan = NoScan /\ f.doomed = {} /\ f.names = {}
    BY <2>5 DEF Fresh, ProcState
  <2>7. r = [f EXCEPT !.pc = c, !.life = l]
    BY <1>2, <2>1, <2>3, <2>5 DEF Begun
  <2>8. /\ r \in ProcState /\ r.pc = c /\ r.life = l /\ r.scan = f.scan
        /\ r.doomed = f.doomed /\ r.names = f.names
    BY <2>2, <2>4, <2>6, <2>7 DEF ProcState
  <2>9. QED
    BY <2>1, <2>3, <2>6, <2>8
<1>4. /\ proc' = [proc EXCEPT ![p] = r] /\ crashes' = crashes + 1 /\ crashes < MaxCrashes
      /\ UNCHANGED <<now, files, temps, made, gone, compared>>
  BY <1>2 DEF Crash
<1>5. /\ proc'[p] = r /\ (\A q \in Proc : q # p => proc'[q] = proc[q]) /\ proc' \in [Proc -> ProcState]
      /\ Cardinality(Writers') \in Nat
      /\ Cardinality(Writers') = Cardinality(Writers) - 1 \/ Cardinality(Writers') = Cardinality(Writers)
  <2>1. r.pc \notin {"writing", "placing"}
    BY <1>3
  <2>2. QED
    BY <1>3, <1>4, <2>1, WriterLeaves
<1>6. /\ Cardinality(Writers') <= temps' /\ temps' <= Cardinality(Writers') + crashes'
      /\ crashes' \in 0 .. MaxCrashes
  <2>1. /\ temps \in Int /\ crashes \in 0 .. MaxCrashes /\ MaxCrashes \in Nat
        /\ Cardinality(Writers) \in Nat
        /\ Cardinality(Writers) <= temps /\ temps <= Cardinality(Writers) + crashes
    BY TempsHold
  <2>2. QED
    BY <1>4, <1>5, <2>1
<1>7. TypeOK'
  BY <1>4, <1>5 DEF HInv, TypeOK, ProcState
<1>8. BooksHold'
  BY <1>4, <1>6 DEF HInv, BooksHold
<1>9. FilesWhole'
  BY <1>3, <1>4, <1>5, FS_EmptySet DEF HInv, FilesWhole
<1>10. PrunesHold'
  <2>1. \A g : KeptOver(g)' <=> KeptOver(g)
    BY <1>4 DEF KeptOver, Above
  <2>2. QED
    BY <1>3, <1>4, <1>5, <2>1 DEF HInv, PrunesHold
<1>11. ComparedWithTheLast'
  BY <1>4 DEF HInv, ComparedWithTheLast
<1>12. \A s \in files : s.by = p => s.life < r.life /\ s.life <= r.life
  <2>1. \A s \in files : s.life \in Nat
    BY DEF HInv, TypeOK, Scan
  <2>2. QED
    BY <1>1, <1>3, <2>1 DEF ProcHolds, OrderHolds
<1>13. ~Holding(p)' /\ Mine(p)' = {}
  <2>1. \A s \in files : s.life \in Nat
    BY DEF HInv, TypeOK, Scan
  <2>2. r.life \in Nat
    BY <1>1, <1>3
  <2>3. \A s \in files : ~(s.by = p /\ s.life = r.life)
    BY <1>12, <2>1, <2>2
  <2>4. QED
    BY <1>3, <1>4, <1>5, <2>3 DEF Holding, Mine
<1>14. ProcHolds(p)'
  <2>1. HandHolds(p)'
    BY <1>3, <1>5, <1>13 DEF HandHolds
  <2>2. OrderHolds(p)'
    BY <1>4, <1>5, <1>12, <1>13 DEF OrderHolds
  <2>3. p \in UiProc => ServerLooks(p)'
    BY <1>3, <1>5, HistoryAssumption DEF ServerLooks
  <2>4. WatchLooks(p)'
    BY <1>13 DEF WatchLooks
  <2>5. QED
    BY <2>1, <2>2, <2>3, <2>4 DEF ProcHolds
<1>15. QED
  BY <1>1, <1>4, <1>5, <1>7, <1>8, <1>9, <1>10, <1>11, <1>14, OneSteps

-----------------------------------------------------------------------------
(* What the invariant shows.                                               *)

\* Every step keeps the invariant.
LEMMA StepInv == HInv /\ [Next]_vars => HInv'
<1> SUFFICES ASSUME HInv, [Next]_vars PROVE HInv'
  OBVIOUS
<1>1. CASE Tick
  <2>1. now' \in 0 .. MaxTime
    BY <1>1, HistoryAssumption DEF Tick, HInv, TypeOK
  <2>2. QED
    BY <1>1, <2>1, TickInv DEF Tick
<1>2. ASSUME NEW p \in Proc, Remembering(p) PROVE HInv'
  BY <1>2, CreateInv, WriteInv, WriteFailsInv, PlaceInv, ListInv, UnlinkInv, SavedInv DEF Remembering
<1>3. ASSUME NEW p \in Proc, Looking(p) PROVE HInv'
  BY <1>3, GlobInv, ReadInv, LoadInv, CompareInv DEF Looking
<1>4. ASSUME NEW p \in Proc, EndWatch(p) \/ Crash(p) PROVE HInv'
  BY <1>4, EndWatchInv, CrashInv
<1>5. CASE UNCHANGED vars
  BY <1>5, TickInv DEF vars, HInv, TypeOK
<1>6. QED
  BY <1>1, <1>2, <1>3, <1>4, <1>5 DEF Next

\* The inductive invariant holds in every reachable state.
THEOREM HistoryInvariant == Spec => []HInv
<1>1. Init => HInv
  BY InitInv
<1>2. HInv /\ [Next]_vars => HInv'
  BY StepInv
<1>3. QED
  BY <1>1, <1>2, PTL DEF Spec

\* However many processes save into one folder, and wherever they die: every
\* named file is a whole scan, and the temporary files are those of the saves in
\* flight and of the processes that died.
THEOREM SavesStayAtomic == Spec => []SavesAreAtomic
<1>1. HInv => SavesAreAtomic
  BY DEF HInv, FilesWhole, BooksHold, Writers, SavesAreAtomic
<1>2. QED
  BY <1>1, HistoryInvariant, PTL

\* However old the listings are by which the processes prune: whatever one of
\* them removed has Keep newer scans in the folder, then and for ever.
THEOREM TheNewestAreKept == Spec => []NewestAreKept
<1>1. HInv => NewestAreKept
  BY DEF HInv, PrunesHold, KeptOver, Above, NewestAreKept
<1>2. QED
  BY <1>1, HistoryInvariant, PTL

\* A scan is compared with the last one of its target that its process saved, or
\* a later one; and by a server never with one that is not older.
THEOREM TheLastIsCompared == Spec => []ComparedWithTheLast
<1>1. HInv => ComparedWithTheLast
  BY DEF HInv
<1>2. QED
  BY <1>1, HistoryInvariant, PTL

-----------------------------------------------------------------------------
(* The comparison of two scans.                                            *)

\* A product or a service differs when the two records contradict each other.
LEMMA PortsDiffer ==
  ASSUME NEW o, NEW n
  PROVE  /\ ProductsDiffer(o, n) <=> PortsContradict(o, n, "product")
         /\ ServicesDiffer(o, n) <=> PortsContradict(o, n, "service")
<1>1. /\ Says(o, "product") = IF o.product = Nothing THEN {} ELSE {ProductLabel(o)}
      /\ Says(n, "product") = IF n.product = Nothing THEN {} ELSE {ProductLabel(n)}
  BY DEF Says
<1>2. /\ Says(o, "service") = IF o.detected = Nothing \/ o.heuristic THEN {} ELSE {o.detected}
      /\ Says(n, "service") = IF n.detected = Nothing \/ n.heuristic THEN {} ELSE {n.detected}
  BY DEF Says
<1>3. ProductsDiffer(o, n) <=> PortsContradict(o, n, "product")
  BY <1>1 DEF ProductsDiffer, PortsContradict, Contradict
<1>4. ServicesDiffer(o, n) <=> PortsContradict(o, n, "service")
  <2>1. CASE o.detected = Nothing \/ o.heuristic
    <3>1. Says(o, "service") = {}
      BY <1>2, <2>1, Zenon
    <3>2. ~ServicesDiffer(o, n)
      BY <2>1, Zenon DEF ServicesDiffer
    <3>. QED  BY <3>1, <3>2 DEF PortsContradict, Contradict
  <2>2. CASE n.detected = Nothing \/ n.heuristic
    <3>1. Says(n, "service") = {}
      BY <1>2, <2>2, Zenon
    <3>2. ~ServicesDiffer(o, n)
      BY <2>2, Zenon DEF ServicesDiffer
    <3>. QED  BY <3>1, <3>2 DEF PortsContradict, Contradict
  <2>3. CASE ~(o.detected = Nothing \/ o.heuristic) /\ ~(n.detected = Nothing \/ n.heuristic)
    <3>1. Says(o, "service") = {o.detected} /\ Says(n, "service") = {n.detected}
      BY <1>2, <2>3, Zenon
    <3>2. ServicesDiffer(o, n) <=> o.detected # n.detected
      BY <2>3, Zenon DEF ServicesDiffer
    <3>. QED  BY <3>1, <3>2 DEF PortsContradict, Contradict
  <2>. QED  BY <2>1, <2>2, <2>3, Zenon
<1>. QED  BY <1>3, <1>4

\* A port is told of when its records contradict each other, in their words.
LEMMA ChangeQuotes ==
  ASSUME NEW o, NEW n
  PROVE  /\ ServiceChange(o, n).kind # "none" <=>
               \E what \in {"product", "service"} : PortsContradict(o, n, what)
         /\ ServiceChange(o, n).kind # "none" => Quotes(ServiceChange(o, n), o, n)
<1> DEFINE c == ServiceChange(o, n)
<1>1. CASE ProductsDiffer(o, n)
  <2>1. c = [kind |-> IF o.product # n.product THEN "product" ELSE "version",
             from |-> ProductLabel(o), to |-> ProductLabel(n)]
    BY <1>1 DEF ServiceChange
  <2>2. /\ c.kind = IF o.product # n.product THEN "product" ELSE "version"
        /\ c.from = ProductLabel(o) /\ c.to = ProductLabel(n)
    BY <2>1
  <2> HIDE DEF c
  <2>3. PortsContradict(o, n, "product")
    BY <1>1, PortsDiffer
  <2>4. /\ Says(o, "product") = {ProductLabel(o)} /\ Says(n, "product") = {ProductLabel(n)}
        /\ ProductLabel(o) # ProductLabel(n)
    BY <1>1 DEF ProductsDiffer, Says
  <2>5. Quotes(c, o, n)
    BY <2>2, <2>4 DEF Quotes
  <2>. QED  BY <2>2, <2>3, <2>5 DEF c
<1>2. CASE ~ProductsDiffer(o, n) /\ ServicesDiffer(o, n)
  <2>1. c = [kind |-> "service", from |-> o.detected, to |-> n.detected]
    BY <1>2 DEF ServiceChange
  <2>2. c.kind = "service" /\ c.from = o.detected /\ c.to = n.detected
    BY <2>1
  <2> HIDE DEF c
  <2>3. PortsContradict(o, n, "service")
    BY <1>2, PortsDiffer
  <2>4. /\ Says(o, "service") = {o.detected} /\ Says(n, "service") = {n.detected}
        /\ o.detected # n.detected
    BY <1>2, Zenon DEF ServicesDiffer, Says
  <2>5. Quotes(c, o, n)
    BY <2>2, <2>4 DEF Quotes
  <2>. QED  BY <2>2, <2>3, <2>5 DEF c
<1>3. CASE ~ProductsDiffer(o, n) /\ ~ServicesDiffer(o, n)
  <2>1. c = [kind |-> "none", from |-> Nothing, to |-> Nothing]
    BY <1>3 DEF ServiceChange
  <2>2. c.kind = "none"
    BY <2>1
  <2>. QED  BY <1>3, <2>2, PortsDiffer
<1>. QED  BY <1>1, <1>2, <1>3

\* Two systems that have a family, or only a text.
LEMMA OsPairs ==
  ASSUME NEW a, NEW b, NEW c, NEW d
  PROVE  /\ OsChanged(<<a, b>>, <<c, d>>) <=> a # c \/ (a = Nothing /\ b # d)
         /\ <<a, b>>[2] = b
         /\ \A x, y : Contradict({<<x, a>>}, {<<y, c>>}) <=> x # y \/ a # c
<1>1. <<a, b>> # <<>> /\ <<c, d>> # <<>> /\ <<a, b>>[1] = a /\ <<a, b>>[2] = b /\ <<c, d>>[1] = c /\ <<c, d>>[2] = d
  OBVIOUS
<1>2. <<a, b>> # <<c, d>> <=> a # c \/ b # d
  BY <1>1
<1>3. OsChanged(<<a, b>>, <<c, d>>) <=> a # c \/ (a = Nothing /\ b # d)
  BY <1>1, <1>2, Zenon DEF OsChanged
<1>4. \A x, y : Contradict({<<x, a>>}, {<<y, c>>}) <=> x # y \/ a # c
  <2> SUFFICES ASSUME NEW x, NEW y
               PROVE  Contradict({<<x, a>>}, {<<y, c>>}) <=> x # y \/ a # c
    OBVIOUS
  <2>1. PICK s, t : s = <<x, a>> /\ t = <<y, c>>
    OBVIOUS
  <2>2. s # t <=> x # y \/ a # c
    <3>1. s[1] = x /\ s[2] = a /\ t[1] = y /\ t[2] = c
      BY <2>1
    <3>. QED  BY <2>1, <3>1, Zenon
  <2>3. Contradict({s}, {t}) <=> s # t
    BY DEF Contradict
  <2>. QED  BY <2>1, <2>2, <2>3, Zenon
<1>. QED  BY <1>1, <1>3, <1>4

\* The system is told of when the two records contradict each other.
LEMMA SystemsDiffer ==
  ASSUME NEW o, NEW n
  PROVE  /\ OsChanged(OsIdentity(o), OsIdentity(n)) <=> Contradict(SystemSays(o), SystemSays(n))
         /\ OsChanged(OsIdentity(o), OsIdentity(n)) =>
               OsIdentity(o)[2] = o.os.name /\ OsIdentity(n)[2] = n.os.name
<1> DEFINE Named(h) == h.os.family \notin {Nothing, "unknown"}
           Texted(h) == ~Named(h) /\ h.os.name \notin {Nothing, "unknown"}
           Mute(h) == ~Named(h) /\ ~Texted(h)
<1>1. ASSUME NEW h
      PROVE  /\ Named(h) => OsIdentity(h) = <<h.os.family, h.os.name>> /\ SystemSays(h) = {<<"family", h.os.family>>}
             /\ Texted(h) => OsIdentity(h) = <<Nothing, h.os.name>> /\ SystemSays(h) = {<<"text", h.os.name>>}
             /\ Mute(h) => OsIdentity(h) = <<>> /\ SystemSays(h) = {}
  BY DEF OsIdentity, SystemSays
<1>2. \A h : Named(h) => h.os.family # Nothing
  OBVIOUS
<1>3. \A h : Named(h) \/ Texted(h) \/ Mute(h)
  OBVIOUS
<1> HIDE DEF Named, Texted, Mute
<1>4. CASE Mute(o) \/ Mute(n)
  BY <1>1, <1>4 DEF OsChanged, Contradict
<1>5. PICK a, b, c, d : a = o.os.family /\ b = o.os.name /\ c = n.os.family /\ d = n.os.name
  OBVIOUS
<1>6. CASE Named(o) /\ Named(n)
  <2>1. /\ OsIdentity(o) = <<a, b>> /\ SystemSays(o) = {<<"family", a>>}
        /\ OsIdentity(n) = <<c, d>> /\ SystemSays(n) = {<<"family", c>>}
    BY <1>1, <1>5, <1>6, Zenon
  <2>2. a # Nothing
    BY <1>2, <1>5, <1>6
  <2>3. /\ OsChanged(<<a, b>>, <<c, d>>) <=> a # c
        /\ <<a, b>>[2] = b /\ <<c, d>>[2] = d
        /\ Contradict({<<"family", a>>}, {<<"family", c>>}) <=> a # c
    BY <2>2, OsPairs
  <2>. QED  BY <1>5, <2>1, <2>3, Zenon
<1>7. CASE Texted(o) /\ Texted(n)
  <2>1. /\ OsIdentity(o) = <<Nothing, b>> /\ SystemSays(o) = {<<"text", b>>}
        /\ OsIdentity(n) = <<Nothing, d>> /\ SystemSays(n) = {<<"text", d>>}
    BY <1>1, <1>5, <1>7, Zenon
  <2>2. /\ OsChanged(<<Nothing, b>>, <<Nothing, d>>) <=> b # d
        /\ <<Nothing, b>>[2] = b /\ <<Nothing, d>>[2] = d
        /\ Contradict({<<"text", b>>}, {<<"text", d>>}) <=> b # d
    BY OsPairs
  <2>. QED  BY <1>5, <2>1, <2>2, Zenon
<1>8. CASE Named(o) /\ Texted(n)
  <2>1. /\ OsIdentity(o) = <<a, b>> /\ SystemSays(o) = {<<"family", a>>}
        /\ OsIdentity(n) = <<Nothing, d>> /\ SystemSays(n) = {<<"text", d>>}
    BY <1>1, <1>5, <1>8, Zenon
  <2>2. a # Nothing
    BY <1>2, <1>5, <1>8
  <2>3. /\ OsChanged(<<a, b>>, <<Nothing, d>>) /\ <<a, b>>[2] = b /\ <<Nothing, d>>[2] = d
        /\ Contradict({<<"family", a>>}, {<<"text", d>>})
    BY <2>2, OsPairs
  <2>. QED  BY <1>5, <2>1, <2>3, Zenon
<1>9. CASE Texted(o) /\ Named(n)
  <2>1. /\ OsIdentity(o) = <<Nothing, b>> /\ SystemSays(o) = {<<"text", b>>}
        /\ OsIdentity(n) = <<c, d>> /\ SystemSays(n) = {<<"family", c>>}
    BY <1>1, <1>5, <1>9, Zenon
  <2>2. c # Nothing
    BY <1>2, <1>5, <1>9
  <2>3. /\ OsChanged(<<Nothing, b>>, <<c, d>>) /\ <<Nothing, b>>[2] = b /\ <<c, d>>[2] = d
        /\ Contradict({<<"text", b>>}, {<<"family", c>>})
    BY <2>2, OsPairs
  <2>. QED  BY <1>5, <2>1, <2>3, Zenon
<1>. QED  BY <1>3, <1>4, <1>6, <1>7, <1>8, <1>9, Zenon

\* The ports of two records that contradict each other.
PortsChanged(o, n) ==
  {i \in DOMAIN o.ports \cap DOMAIN n.ports : ServiceChange(o.ports[i], n.ports[i]).kind # "none"}

\* The comparison of a host has these parts.
LEMMA EntryParts ==
  ASSUME NEW o, NEW n
  PROVE  /\ DOMAIN Entry(o, n) = {"opened", "closed", "changed", "os", "new", "resolved"}
         /\ Entry(o, n).opened = DOMAIN n.ports \ DOMAIN o.ports
         /\ Entry(o, n).closed = DOMAIN o.ports \ DOMAIN n.ports
         /\ Entry(o, n).new = FindingKeys(n) \ FindingKeys(o)
         /\ Entry(o, n).resolved = FindingKeys(o) \ FindingKeys(n)
         /\ Entry(o, n).os = IF OsChanged(OsIdentity(o), OsIdentity(n))
                             THEN {Pair(OsIdentity(o)[2], OsIdentity(n)[2])} ELSE {}
BY DEF Entry

\* Its services.
LEMMA EntryChanged ==
  ASSUME NEW o, NEW n
  PROVE  Entry(o, n).changed =
            {<<k, ServiceChange(o.ports[k], n.ports[k])>> : k \in PortsChanged(o, n)}
BY DEF Entry, PortsChanged

\* What is compared of a host tells all that differs, and nothing else.
LEMMA EntryTells ==
  ASSUME NEW o, NEW n
  PROVE  Tells(Entry(o, n), o, n)
<1> DEFINE e == Entry(o, n)
           p(k) == <<k, ServiceChange(o.ports[k], n.ports[k])>>
<1>1. /\ e.opened = DOMAIN n.ports \ DOMAIN o.ports /\ e.closed = DOMAIN o.ports \ DOMAIN n.ports
      /\ e.new = FindingKeys(n) \ FindingKeys(o) /\ e.resolved = FindingKeys(o) \ FindingKeys(n)
      /\ e.os = IF OsChanged(OsIdentity(o), OsIdentity(n)) THEN {Pair(OsIdentity(o)[2], OsIdentity(n)[2])} ELSE {}
  BY EntryParts
<1>2. e.os = IF Contradict(SystemSays(o), SystemSays(n)) THEN {Pair(o.os.name, n.os.name)} ELSE {}
  BY <1>1, SystemsDiffer
<1>3. e.changed = {p(k) : k \in PortsChanged(o, n)}
  BY EntryChanged
<1>4. \A k : p(k)[1] = k /\ p(k)[2] = ServiceChange(o.ports[k], n.ports[k])
  OBVIOUS
<1> HIDE DEF e, p
<1>5. {c[1] : c \in e.changed} = PortsChanged(o, n)
  <2>1. {c[1] : c \in e.changed} = {p(k)[1] : k \in PortsChanged(o, n)}
    BY <1>3
  <2>. QED  BY <1>4, <2>1
<1>6. PortsChanged(o, n) =
         {k \in DOMAIN o.ports \cap DOMAIN n.ports :
             \E what \in {"product", "service"} : PortsContradict(o.ports[k], n.ports[k], what)}
  <2>1. \A k : ServiceChange(o.ports[k], n.ports[k]).kind # "none" <=>
                  \E what \in {"product", "service"} : PortsContradict(o.ports[k], n.ports[k], what)
    BY ChangeQuotes
  <2>. QED  BY <2>1 DEF PortsChanged
<1>7. \A c \in e.changed, d \in e.changed : c[1] = d[1] => c = d
  BY <1>3, <1>4
<1>8. \A c \in e.changed : Quotes(c[2], o.ports[c[1]], n.ports[c[1]])
  <2>1. \A k \in PortsChanged(o, n) : Quotes(ServiceChange(o.ports[k], n.ports[k]), o.ports[k], n.ports[k])
    BY ChangeQuotes DEF PortsChanged
  <2>. QED  BY <1>3, <1>4, <2>1
<1>9. Tells(e, o, n)
  BY <1>1, <1>2, <1>5, <1>6, <1>7, <1>8 DEF Tells
<1>. QED  BY <1>9 DEF e

\* A host is left out when there is nothing to tell of it.
LEMMA SilenceIsUnchanged ==
  ASSUME NEW o, NEW n
  PROVE  Unchanged(Entry(o, n)) <=> Entry(o, n) = Silence
<1>1. DOMAIN Entry(o, n) = {"opened", "closed", "changed", "os", "new", "resolved"}
  BY EntryParts
<1>2. Unchanged(Entry(o, n)) <=>
         /\ Entry(o, n).opened = {} /\ Entry(o, n).closed = {} /\ Entry(o, n).changed = {}
         /\ Entry(o, n).os = {} /\ Entry(o, n).new = {} /\ Entry(o, n).resolved = {}
  BY <1>1 DEF Unchanged
<1>3. PICK opened, closed, changed, os, fresh, resolved :
         Entry(o, n) = [opened |-> opened, closed |-> closed, changed |-> changed, os |-> os,
                        new |-> fresh, resolved |-> resolved]
  BY DEF Entry
<1>. QED  BY <1>2, <1>3 DEF Silence

\* The hosts of both scans that a comparison says something about.
Touched(old, new) == {i \in DOMAIN old \cap DOMAIN new : ~Unchanged(Entry(old[i], new[i]))}

\* The fields of a comparison.
LEMMA DiffFields ==
  ASSUME NEW old, NEW new
  PROVE  /\ DiffScans(old, new).new_hosts = DOMAIN new \ DOMAIN old
         /\ DiffScans(old, new).gone_hosts = DOMAIN old \ DOMAIN new
         /\ DOMAIN DiffScans(old, new).hosts = Touched(old, new)
         /\ \A ip \in Touched(old, new) : DiffScans(old, new).hosts[ip] = Entry(old[ip], new[ip])
         /\ DiffScans(old, new).changed <=> DOMAIN new # DOMAIN old \/ Touched(old, new) # {}
         /\ DiffScans(old, new).worse <=>
               \/ DOMAIN new \ DOMAIN old # {}
               \/ \E ip \in Touched(old, new) :
                     Entry(old[ip], new[ip]).opened # {} \/ Entry(old[ip], new[ip]).new # {}
<1> DEFINE entries == [ip \in Touched(old, new) |-> Entry(old[ip], new[ip])]
<1>1. DiffScans(old, new) =
         [new_hosts  |-> DOMAIN new \ DOMAIN old,
          gone_hosts |-> DOMAIN old \ DOMAIN new,
          hosts      |-> entries,
          worse      |-> \/ DOMAIN new \ DOMAIN old # {}
                         \/ \E ip \in DOMAIN entries : entries[ip].opened # {} \/ entries[ip].new # {},
          changed    |-> DOMAIN new \ DOMAIN old # {} \/ DOMAIN old \ DOMAIN new # {} \/ DOMAIN entries # {}]
  BY DEF DiffScans, Touched
<1>2. DOMAIN entries = Touched(old, new)
  OBVIOUS
<1>3. \A ip \in Touched(old, new) : entries[ip] = Entry(old[ip], new[ip])
  OBVIOUS
<1> HIDE DEF entries
<1>4. /\ DiffScans(old, new).new_hosts = DOMAIN new \ DOMAIN old
      /\ DiffScans(old, new).gone_hosts = DOMAIN old \ DOMAIN new
      /\ DiffScans(old, new).hosts = entries
  BY <1>1
<1>5. DiffScans(old, new).worse =
         (\/ DOMAIN new \ DOMAIN old # {}
          \/ \E ip \in DOMAIN entries : entries[ip].opened # {} \/ entries[ip].new # {})
  BY <1>1
<1>6. DiffScans(old, new).changed =
         (DOMAIN new \ DOMAIN old # {} \/ DOMAIN old \ DOMAIN new # {} \/ DOMAIN entries # {})
  BY <1>1
<1>7. DOMAIN new \ DOMAIN old # {} \/ DOMAIN old \ DOMAIN new # {} <=> DOMAIN new # DOMAIN old
  OBVIOUS
<1>. QED  BY <1>2, <1>3, <1>4, <1>5, <1>6, <1>7

\* Whatever two scans hold, their comparison tells exactly what differs between
\* their records, host by host and port by port, also of the hosts it leaves out.
THEOREM ComparisonsAreExact ==
  ASSUME NEW old, NEW new
  PROVE  Exact(old, new)
<1> DEFINE diff == DiffScans(old, new)
           both == DOMAIN old \cap DOMAIN new
<1>1. /\ diff.new_hosts = DOMAIN new \ DOMAIN old /\ diff.gone_hosts = DOMAIN old \ DOMAIN new
      /\ DOMAIN diff.hosts = Touched(old, new)
      /\ \A ip \in Touched(old, new) : diff.hosts[ip] = Entry(old[ip], new[ip])
      /\ diff.changed <=> DOMAIN old # DOMAIN new \/ DOMAIN diff.hosts # {}
  BY DiffFields
<1>2. diff.worse <=>
               \/ DOMAIN new \ DOMAIN old # {}
               \/ \E ip \in Touched(old, new) :
                     Entry(old[ip], new[ip]).opened # {} \/ Entry(old[ip], new[ip]).new # {}
  BY DiffFields
<1> HIDE DEF diff
<1>3. DOMAIN diff.hosts \subseteq both
  BY <1>1 DEF Touched
<1>4. ASSUME NEW ip \in both
      PROVE  LET told == IF ip \in DOMAIN diff.hosts THEN diff.hosts[ip] ELSE Silence
             IN  Tells(told, old[ip], new[ip]) /\ (ip \in DOMAIN diff.hosts => told # Silence)
  <2> DEFINE told == IF ip \in DOMAIN diff.hosts THEN diff.hosts[ip] ELSE Silence
  <2>1. told = Entry(old[ip], new[ip])
    <3>1. ip \notin Touched(old, new) => Entry(old[ip], new[ip]) = Silence
      BY SilenceIsUnchanged DEF Touched
    <3>. QED  BY <1>1, <3>1
  <2>2. ip \in DOMAIN diff.hosts => Entry(old[ip], new[ip]) # Silence
    BY <1>1, SilenceIsUnchanged DEF Touched
  <2> HIDE DEF told
  <2>3. Tells(told, old[ip], new[ip]) /\ (ip \in DOMAIN diff.hosts => told # Silence)
    BY <2>1, <2>2, EntryTells
  <2>. QED  BY <2>3 DEF told
<1>5. diff.worse <=> \/ \E ip \in DOMAIN new : ip \notin DOMAIN old
                     \/ \E ip \in both : \/ \E k \in DOMAIN new[ip].ports : k \notin DOMAIN old[ip].ports
                                         \/ \E f \in FindingKeys(new[ip]) : f \notin FindingKeys(old[ip])
  <2>1. DOMAIN new \ DOMAIN old # {} <=> \E ip \in DOMAIN new : ip \notin DOMAIN old
    OBVIOUS
  <2>2. ASSUME NEW ip
        PROVE  /\ Entry(old[ip], new[ip]).opened # {} <=>
                     \E k \in DOMAIN new[ip].ports : k \notin DOMAIN old[ip].ports
               /\ Entry(old[ip], new[ip]).new # {} <=>
                     \E f \in FindingKeys(new[ip]) : f \notin FindingKeys(old[ip])
    <3>1. /\ Entry(old[ip], new[ip]).opened = DOMAIN new[ip].ports \ DOMAIN old[ip].ports
          /\ Entry(old[ip], new[ip]).new = FindingKeys(new[ip]) \ FindingKeys(old[ip])
      BY EntryParts
    <3>. QED  BY <3>1
  <2>3. ASSUME NEW ip \in both,
               Entry(old[ip], new[ip]).opened # {} \/ Entry(old[ip], new[ip]).new # {}
        PROVE  ip \in Touched(old, new)
    <3>0. PICK o, n : o = old[ip] /\ n = new[ip]
      OBVIOUS
    <3>1. DOMAIN Entry(o, n) = {"opened", "closed", "changed", "os", "new", "resolved"}
      BY EntryParts
    <3>2. ~Unchanged(Entry(old[ip], new[ip]))
      BY <2>3, <3>0, <3>1, Zenon DEF Unchanged
    <3>. QED  BY <3>2 DEF Touched
  <2>4. Touched(old, new) \subseteq both
    BY DEF Touched
  <2>. QED  BY <1>2, <2>1, <2>2, <2>3, <2>4
<1>6. /\ diff.new_hosts = DOMAIN new \ DOMAIN old /\ diff.gone_hosts = DOMAIN old \ DOMAIN new
      /\ DOMAIN diff.hosts \subseteq both
      /\ \A ip \in both :
            LET told == IF ip \in DOMAIN diff.hosts THEN diff.hosts[ip] ELSE Silence
            IN  Tells(told, old[ip], new[ip]) /\ (ip \in DOMAIN diff.hosts => told # Silence)
      /\ diff.changed <=> DOMAIN old # DOMAIN new \/ DOMAIN diff.hosts # {}
      /\ diff.worse <=> \/ \E ip \in DOMAIN new : ip \notin DOMAIN old
                     \/ \E ip \in both : \/ \E k \in DOMAIN new[ip].ports : k \notin DOMAIN old[ip].ports
                                         \/ \E f \in FindingKeys(new[ip]) : f \notin FindingKeys(old[ip])
  BY <1>1, <1>3, <1>4, <1>5
<1>. QED  BY <1>6, Zenon DEF Exact, diff
=============================================================================
