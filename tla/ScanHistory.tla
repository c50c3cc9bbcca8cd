----------------------------- MODULE ScanHistory -----------------------------
(***************************************************************************)
(* The folder of saved scans (nemla/history.py) and the processes that     *)
(* share it: the interface server, which saves each finished scan and      *)
(* compares it with the one before (_remember in nemla_ui/server.py), and  *)
(* `nemla watch` (run_watch in nemla/cli.py), which scans again and again. *)
(* A save writes a temporary file, renames it and prunes the folder; every *)
(* one of these is a step of its own, and a process may die between them.  *)
(***************************************************************************)
EXTENDS Integers, FiniteSets

CONSTANTS
  UiProc, WatchProc, \* processes: servers and watches
  Target,
  Keep,              \* KEEP: how many scans prune leaves
  NoScan,
  MaxScans,          \* bound: how many scans are saved
  MaxTime,           \* bound on the clock
  MaxCrashes         \* bound

Proc == UiProc \cup WatchProc

(* A saved scan. `saved` is saved_at, which previous_for orders by; mtime is *)
(* when its file was written, which prune orders by; `whole`: the file has   *)
(* all its text; by and life are the process that saved it; ids grow.        *)
Scan == [id : 1 .. MaxScans, target : Target, saved : Nat, mtime : Nat,
         whole : BOOLEAN, by : Proc, life : Nat]

\* The clock starts at 2, and NoScan is no scan.
ASSUME HistoryAssumption ==
  /\ IsFiniteSet(Proc) /\ UiProc \cap WatchProc = {} /\ Keep \in Nat \ {0}
  /\ MaxScans \in Nat /\ MaxTime \in Nat \ {0, 1} /\ MaxCrashes \in Nat
  /\ NoScan \notin Scan

VARIABLES
  now,      \* time.time(): the clock ticks in steps of 2, _stamp adds 1
  files,    \* the *.json files of the folder
  temps,    \* how many .scan-*.tmp files lie in the folder
  proc,     \* per process: where it is and what it holds
  made,     \* how many saves have begun
  gone,     \* history: the scans that prune has removed
  compared, \* history: <<scan, the scan it is to be compared with>>
  crashes   \* history

vars == <<now, files, temps, proc, made, gone, compared, crashes>>

Fresh == [pc |-> "idle", scan |-> NoScan, last |-> 0, doomed |-> {}, names |-> {},
          before |-> NoScan, previous |-> NoScan, life |-> 0]

\* run_watch asks for the newest scan of its target before its first scan.
Begun(p, life) == [Fresh EXCEPT !.pc = IF p \in WatchProc THEN "glob" ELSE "idle", !.life = life]

Init ==
  /\ now = 2 /\ files = {} /\ temps = 0
  /\ proc = [p \in Proc |-> Begun(p, 0)]
  /\ made = 0 /\ gone = {} /\ compared = {} /\ crashes = 0

Go(p, pc) == proc' = [proc EXCEPT ![p].pc = pc]

\* A new UUID; that they grow breaks ties between equal times one way only.
NewId == made + 1

Tick ==
  /\ now + 2 <= MaxTime
  /\ now' = now + 2
  /\ UNCHANGED <<files, temps, proc, made, gone, compared, crashes>>

-----------------------------------------------------------------------------
(* save                                                                    *)

\* Mutant of Stamp: the clock as it is; two scans may share a time.
StampOfTheClock(p) == now

Stamp(p) == IF now > proc[p].last THEN now ELSE proc[p].last + 1

\* Mutant of Create: the file is written under its final name.
CreateInPlace(p) ==
  /\ proc[p].pc = "idle"
  /\ NewId <= MaxScans /\ \E t \in Target :
       LET s == [id |-> NewId, target |-> t, saved |-> Stamp(p), mtime |-> now,
                 whole |-> FALSE, by |-> p, life |-> proc[p].life]
       IN  /\ proc' = [proc EXCEPT ![p].pc = "writing", ![p].scan = s, ![p].last = s.saved]
           /\ files' = files \cup {s}
  /\ temps' = temps + 1 /\ made' = NewId
  /\ UNCHANGED <<now, gone, compared, crashes>>

(* A scan of p has finished with at least one host and was not cancelled:    *)
(* its time is taken and a temporary file made.                              *)
Create(p) ==
  /\ proc[p].pc = "idle"
  /\ NewId <= MaxScans /\ \E t \in Target :
       LET s == [id |-> NewId, target |-> t, saved |-> Stamp(p), mtime |-> now,
                 whole |-> FALSE, by |-> p, life |-> proc[p].life]
       IN  /\ p \in WatchProc => t = CHOOSE x \in Target : TRUE  \* a watch has one target
           /\ proc' = [proc EXCEPT ![p].pc = "writing", ![p].scan = s, ![p].last = s.saved]
  /\ temps' = temps + 1 /\ made' = NewId
  /\ UNCHANGED <<now, files, gone, compared, crashes>>

Write(p) ==
  /\ proc[p].pc = "writing"
  /\ proc' = [proc EXCEPT ![p].pc = "placing", ![p].scan.whole = TRUE, ![p].scan.mtime = now]
  /\ UNCHANGED <<now, files, temps, made, gone, compared, crashes>>

(* The disk is full: the temporary file is removed. The server keeps the     *)
(* finished scan and says history_error; a watch ends with the error.        *)
WriteFails(p) ==
  /\ proc[p].pc = "writing"
  /\ temps' = temps - 1
  /\ proc' = [proc EXCEPT ![p].pc = IF p \in UiProc THEN "idle" ELSE "over", ![p].scan = NoScan]
  /\ UNCHANGED <<now, files, made, gone, compared, crashes>>

Place(p) ==
  /\ proc[p].pc = "placing"
  /\ files' = files \cup {proc[p].scan}
  /\ temps' = temps - 1
  /\ Go(p, "listing")
  /\ UNCHANGED <<now, made, gone, compared, crashes>>

Newer(a, b) == a.mtime > b.mtime \/ (a.mtime = b.mtime /\ a.id > b.id)

\* Mutant of Doomed: sorted(files)[:1 - keep].
DoomedOneMore(present) == {f \in present : Cardinality({g \in present : Newer(g, f)}) >= Keep - 1}

Doomed(present) == {f \in present : Cardinality({g \in present : Newer(g, f)}) >= Keep}

(* prune: the files are listed with their times ...                          *)
List(p) ==
  /\ proc[p].pc = "listing"
  /\ proc' = [proc EXCEPT ![p].pc = "pruning", ![p].doomed = Doomed(files)]
  /\ UNCHANGED <<now, files, temps, made, gone, compared, crashes>>

(* ... and then removed, the oldest first, if another process has not.       *)
Unlink(p) ==
  /\ proc[p].pc = "pruning"
  /\ \E d \in proc[p].doomed :
       /\ \A f \in proc[p].doomed \ {d} : Newer(f, d)
       /\ files' = files \ {d}
       /\ gone' = gone \cup (files \cap {d})
       /\ proc' = [proc EXCEPT ![p].doomed = @ \ {d}]
  /\ UNCHANGED <<now, temps, made, compared, crashes>>

Saved(p) ==
  /\ proc[p].pc = "pruning" /\ proc[p].doomed = {}
  /\ Go(p, IF p \in UiProc THEN "glob" ELSE "compare")
  /\ UNCHANGED <<now, files, temps, made, gone, compared, crashes>>

-----------------------------------------------------------------------------
(* previous_for, load and the comparison                                   *)

Glob(p) ==
  /\ proc[p].pc = "glob"
  /\ proc' = [proc EXCEPT ![p].pc = "reading", ![p].names = files]
  /\ UNCHANGED <<now, files, temps, made, gone, compared, crashes>>

Newest(S) == IF S = {} THEN NoScan ELSE CHOOSE s \in S : \A r \in S : r.saved <= s.saved

(* The newest entry of the target that is older than `scan`. A scan that is  *)
(* not among the entries sets no limit; a watch has none before its first.   *)
PreviousOf(entries, scan) ==
  Newest({f \in entries : /\ scan # NoScan => f.target = scan.target /\ f.id # scan.id
                          /\ (scan \in entries => f.saved < scan.saved)
                          /\ (scan = NoScan => f.target = CHOOSE x \in Target : TRUE)})

(* _entries reads the listed files one by one. Those that are still there at *)
(* the end it has read; of those removed since the listing it has read some. *)
Read(p) ==
  /\ proc[p].pc = "reading"
  /\ \E early \in SUBSET (proc[p].names \ files) :
       LET entries == {f \in (proc[p].names \cap files) \cup early : f.whole}
       IN  proc' = [proc EXCEPT ![p].pc = "loading", ![p].names = {},
                                ![p].before = PreviousOf(entries, proc[p].scan)]
  /\ UNCHANGED <<now, files, temps, made, gone, compared, crashes>>

(* load: the file may have been pruned since. A watch keeps what it loaded   *)
(* as its `previous`; the server compares and sends the scan's last event.   *)
Load(p) ==
  /\ proc[p].pc = "loading"
  /\ LET old == IF proc[p].before \in files THEN proc[p].before ELSE NoScan
     IN  IF p \in WatchProc
         THEN /\ proc' = [proc EXCEPT ![p].pc = "idle", ![p].before = NoScan, ![p].previous = old]
              /\ UNCHANGED compared
         ELSE /\ proc' = [proc EXCEPT ![p].pc = "idle", ![p].before = NoScan, ![p].scan = NoScan]
              /\ compared' = compared \cup {<<proc[p].scan, proc[p].before>>}
  /\ UNCHANGED <<now, files, temps, made, gone, crashes>>

\* run_watch: diff_scans(previous, hosts); previous = hosts
Compare(p) ==
  /\ proc[p].pc = "compare"
  /\ compared' = compared \cup {<<proc[p].scan, proc[p].previous>>}
  /\ proc' = [proc EXCEPT ![p].pc = "idle", ![p].previous = proc[p].scan, ![p].scan = NoScan]
  /\ UNCHANGED <<now, files, temps, made, gone, crashes>>

(* Ctrl+C, or a scan that was interrupted part-way: a watch ends unsaved.    *)
EndWatch(p) ==
  /\ p \in WatchProc /\ proc[p].pc = "idle"
  /\ Go(p, "over")
  /\ UNCHANGED <<now, files, temps, made, gone, compared, crashes>>

(* The process dies anywhere, leaving its temporary file; another one starts.*)
Crash(p) ==
  /\ crashes < MaxCrashes /\ proc[p].pc # "over"
  /\ crashes' = crashes + 1
  /\ proc' = [proc EXCEPT ![p] = Begun(p, proc[p].life + 1)]
  /\ UNCHANGED <<now, files, temps, made, gone, compared>>

Remembering(p) == Create(p) \/ Write(p) \/ WriteFails(p) \/ Place(p) \/ List(p) \/ Unlink(p) \/ Saved(p)
Looking(p) == Glob(p) \/ Read(p) \/ Load(p) \/ Compare(p)

Next == Tick \/ \E p \in Proc : Remembering(p) \/ Looking(p) \/ EndWatch(p) \/ Crash(p)

Spec == Init /\ [][Next]_vars

-----------------------------------------------------------------------------
TypeOK ==
  /\ now \in 0 .. MaxTime /\ files \subseteq Scan /\ gone \subseteq Scan
  /\ temps \in 0 .. Cardinality(Proc) + MaxCrashes
  /\ proc \in [Proc -> [pc : {"idle", "writing", "placing", "listing", "pruning", "glob", "reading",
                              "loading", "compare", "over"},
                        scan : Scan \cup {NoScan}, last : Nat, doomed : SUBSET Scan,
                        names : SUBSET Scan, before : Scan \cup {NoScan},
                        previous : Scan \cup {NoScan}, life : Nat]]

(* "Files are written atomically": whatever the processes do and wherever    *)
(* they die, a *.json file of the folder is a whole scan, and the temporary  *)
(* files left over are those of saves in flight or of processes that died.   *)
SavesAreAtomic ==
  /\ TypeOK
  /\ \A f \in files : f.whole
  /\ temps <= Cardinality({p \in Proc : proc[p].pc \in {"writing", "placing"}}) + crashes

(* "The newest ones are kept": prune orders by the times of a listing that   *)
(* is old when it removes, beside the prunes and saves of other processes;   *)
(* still, whatever was removed, Keep newer scans are in the folder.          *)
NewestAreKept ==
  \A g \in gone : Cardinality({f \in files : Newer(f, g)}) >= Keep

(* A scan is compared with the last one of its target: never with an older   *)
(* one than its process saved just before (while that is in the folder), and *)
(* by the server never with one that is not older, unless Keep newer scans   *)
(* were saved meanwhile and it was pruned itself. Two scans that one clock   *)
(* tick covers keep their order.                                             *)
ComparedWithTheLast ==
  \A c \in compared :
    LET new == c[1]  old == c[2]
    IN  /\ old # NoScan /\ new.by \in UiProc /\ new \in files => old.saved < new.saved
        /\ \A s \in files : s.by = new.by /\ s.life = new.life /\ s.target = new.target /\ s.id < new.id
             => old # NoScan /\ s.saved <= old.saved
=============================================================================
