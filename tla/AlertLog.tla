------------------------------ MODULE AlertLog -------------------------------
(***************************************************************************)
(* The alarms of nemla/guard.py and their way to the owner: the decoy      *)
(* ports (Tripwire), the counting of contacts (Guard._hit), the notices of *)
(* a watch that sees nothing (Guard.notice), the log they are added to     *)
(* (AlertLog, one for all Guard objects of a server), its file, and the    *)
(* page that follows the log (_api_guard_events in nemla_ui/server.py).    *)
(* Every connection to a decoy has a thread, the sweeps have one, and each *)
(* page has one; they meet in the lock of the Guard and that of the log.   *)
(***************************************************************************)
EXTENDS Integers, Sequences, FiniteSets, SequencesExt

CONSTANTS
  Conn,         \* connections to a decoy port
  SourceOf,     \* Conn -> the address each comes from
  Silent,       \* trusted_ips, and this computer's own addresses
  Loud,         \* the counts that raise an alert: 1, 10 and every 100th
  MaxClients,   \* the tripwire's slots
  Limit,        \* MAX_ALERTS, kept in memory
  FileLimit,    \* LOG_LIMIT, in alerts
  EmptySweeps,  \* EMPTY_SWEEPS_BEFORE_NOTICE
  MaxNotices,   \* MAX_NOTICES of one Guard
  MaxBreaks     \* bound: how often the page's connection breaks

ASSUME AlertAssumption ==
  /\ IsFiniteSet(Conn)
  /\ 1 \in Loud /\ Loud \subseteq Nat \ {0} /\ MaxClients \in Nat \ {0} /\ Limit \in Nat \ {0}
  /\ FileLimit \in Nat /\ EmptySweeps \in Nat \ {0}
  /\ MaxNotices \in Nat /\ MaxBreaks \in Nat

Source == {SourceOf[c] : c \in Conn}
Sweeper == "sweeper"
Thread == Conn \cup {Sweeper}   \* the threads that add alerts

(* What an alert is about: the n-th contact of a source with the decoys of a *)
(* Guard, or a limit of its watch.                                           *)
About == [src : Source, round : 1 .. Cardinality(Conn), count : 1 .. Cardinality(Conn)]
         \cup [notice : {"sweep_empty", "sweep_failed"}]

VARIABLES
  running,  \* the watch is on
  conn,     \* per connection: where it is
  slots,    \* the free slots of the tripwire
  hits,     \* per source: `count`, in which record of _hits
  empty,    \* _empty_sweeps
  notices,  \* _notices
  job,      \* per thread: its alert on the way into the log and the file
  log,      \* what is in memory: the newest alerts
  seq,      \* _seq
  file,     \* guard-alerts.jsonl: is it there, and its lines, counted to FileLimit + 1
  page,     \* the page and its stream
  missed,   \* history: the alerts that left the memory before the page had them
  unfiled,  \* history: the alerts that their threads did not write to the file
  told      \* history: everything that was ever logged

alertVars == <<running, conn, slots, hits, empty, notices, job, log, seq, file, page, missed, unfiled, told>>
wire == <<running, conn, slots, hits>>
watch == <<empty, notices>>
store == <<log, seq, missed, told>>

NoFile == [there |-> FALSE, size |-> 0]
NoJob == [pc |-> "none", about |-> {}, id |-> 0]

AlertInit ==
  /\ running = TRUE
  /\ conn = [c \in Conn |-> "away"]
  /\ slots = MaxClients
  /\ hits = [s \in Source |-> [round |-> 1, count |-> 0]]
  /\ empty = 0 /\ notices = {}
  /\ job = [t \in Thread |-> NoJob]
  /\ log = <<>> /\ seq = 0 /\ file = NoFile
  /\ page = [after |-> 0, shown |-> <<>>, breaks |-> 0]
  /\ missed = {} /\ unfiled = {} /\ told = {}

-----------------------------------------------------------------------------
(* The tripwire                                                            *)

\* Mutant of Accept: a refused connection has taken its slot.
AcceptLeaky(c) ==
  /\ conn[c] = "away" /\ running
  /\ conn' = [conn EXCEPT ![c] = IF slots > 0 THEN "served" ELSE "gone"]
  /\ slots' = slots - 1
  /\ UNCHANGED <<running, hits, watch, job, store, file, page, unfiled>>

\* A flood must not exhaust the tripwire: without a free slot, it hangs up.
Accept(c) ==
  /\ conn[c] = "away" /\ running
  /\ IF slots > 0
     THEN /\ conn' = [conn EXCEPT ![c] = "served"]
          /\ slots' = slots - 1
     ELSE conn' = [conn EXCEPT ![c] = "gone"] /\ UNCHANGED slots
  /\ UNCHANGED <<running, hits, watch, job, store, file, page, unfiled>>

(* _serve: banner, what the visitor says, or an error; in every case the     *)
(* slot is given back before the handler is called.                          *)
Serve(c) ==
  /\ conn[c] = "served"
  /\ conn' = [conn EXCEPT ![c] = "hit"]
  /\ slots' = slots + 1
  /\ UNCHANGED <<running, hits, watch, job, store, file, page, unfiled>>

\* Mutant of NextCount: the first contact is not counted.
NextCountFromTwo(n) == n + 2

NextCount(n) == n + 1

(* _hit counts under the Guard's lock, of the Guard whose decoy was touched, *)
(* and raises an alert for the first contact and then less and less often.   *)
(* After more than ten minutes without a contact it begins a new record.     *)
Hit(c) ==
  /\ conn[c] = "hit"
  /\ conn' = [conn EXCEPT ![c] = "gone"]
  /\ LET s == SourceOf[c]
     IN  IF s \in Silent THEN UNCHANGED <<hits, job>>
         ELSE \E idle \in {FALSE} \cup {hits[s].count > 0} :
                LET round == IF idle THEN hits[s].round + 1 ELSE hits[s].round
                    n == IF idle THEN 1 ELSE NextCount(hits[s].count)
                    alert == [src |-> s, round |-> round, count |-> n]
                IN  /\ hits' = [hits EXCEPT ![s] = [round |-> round, count |-> n]]
                    /\ job' = IF n \notin Loud THEN job
                              ELSE [job EXCEPT ![c] = [pc |-> "add", id |-> 0, about |-> alert]]
  /\ UNCHANGED <<running, slots, watch, store, file, page, unfiled>>

(* stop() closes the decoys; a connection that is served goes on. A later    *)
(* start_guard makes a Guard object with slots and counts of its own.        *)
StopDecoys ==
  /\ running
  /\ running' = FALSE
  /\ UNCHANGED <<conn, slots, hits, watch, job, store, file, page, unfiled>>

-----------------------------------------------------------------------------
(* The sweeps, as far as they raise notices                                *)

\* Mutant of Noticed: no set of what the owner was told.
NoticedAgain(code) ==
  /\ notices' = notices
  /\ job' = [job EXCEPT ![Sweeper] = [pc |-> "add", id |-> 0, about |-> [notice |-> code]]]

\* notice: one alert per distinct problem, and not too many.
Noticed(code) ==
  LET a == [notice |-> code]
  IN  IF a \in notices \/ Cardinality(notices) >= MaxNotices
      THEN UNCHANGED <<notices, job>>
      ELSE /\ notices' = notices \cup {a}
           /\ job' = [job EXCEPT ![Sweeper] = [pc |-> "add", id |-> 0, about |-> a]]

SweepBegins == running /\ job[Sweeper] = NoJob

SweepSees ==
  /\ SweepBegins /\ empty' = 0
  /\ UNCHANGED <<wire, notices, job, store, file, page, unfiled>>

SweepIsEmpty ==
  /\ SweepBegins /\ empty' = empty + 1
  /\ empty < EmptySweeps  \* more of them change nothing
  /\ IF empty + 1 = EmptySweeps THEN Noticed("sweep_empty") ELSE UNCHANGED <<notices, job>>
  /\ UNCHANGED <<wire, store, file, page, unfiled>>

SweepFails ==
  /\ SweepBegins /\ UNCHANGED empty
  /\ Noticed("sweep_failed")
  /\ UNCHANGED <<wire, store, file, page, unfiled>>

-----------------------------------------------------------------------------
(* AlertLog                                                                *)

Ids(s) == {s[i].id : i \in 1 .. Len(s)}

\* add, up to the end of its lock: the newest Limit alerts stay.
Add(t) ==
  /\ job[t].pc = "add"
  /\ seq' = seq + 1
  /\ LET all  == Append(log, [id |-> seq + 1, about |-> job[t].about])
         kept == SubSeq(all, IF Len(all) > Limit THEN Len(all) - Limit + 1 ELSE 1, Len(all))
     IN  /\ log' = kept
         /\ missed' = missed \cup (Ids(all) \ (Ids(kept) \cup ToSet(page.shown)))
  /\ told' = told \cup {job[t].about}
  /\ job' = [job EXCEPT ![t].pc = "file", ![t].id = seq + 1]
  /\ UNCHANGED <<wire, watch, file, page, unfiled>>

AppendLine(t) ==
  /\ file' = [there |-> TRUE, size |-> IF file.size > FileLimit THEN file.size ELSE file.size + 1]
  /\ job' = [job EXCEPT ![t] = NoJob]

(* _write, outside of the lock: the size of the file decides on a rotation,  *)
(* which another thread may have made meanwhile (then the rename fails, and  *)
(* this alert is not written), and the alert is appended.                    *)
File(t) ==
  /\ job[t].pc = "file"
  /\ IF file.there /\ file.size > FileLimit
     THEN job' = [job EXCEPT ![t].pc = "rotate"] /\ UNCHANGED file
     ELSE AppendLine(t)
  /\ UNCHANGED <<wire, watch, store, page, unfiled>>

Rotate(t) ==
  /\ job[t].pc = "rotate"
  /\ IF file.there
     THEN file' = NoFile /\ job' = [job EXCEPT ![t].pc = "append"] /\ UNCHANGED unfiled
     ELSE job' = [job EXCEPT ![t] = NoJob] /\ unfiled' = unfiled \cup {job[t].id} /\ UNCHANGED file
  /\ UNCHANGED <<wire, watch, store, page>>

FileAfresh(t) ==
  /\ job[t].pc = "append"
  /\ AppendLine(t)
  /\ UNCHANGED <<wire, watch, store, page, unfiled>>

-----------------------------------------------------------------------------
(* The page: wait(after) and one chunk for the whole batch. When the         *)
(* connection breaks, a part of the chunk has arrived, and the EventSource   *)
(* comes back with Last-Event-ID, the last alert it saw.                     *)

LastOf(s) == IF s = <<>> THEN 0 ELSE s[Len(s)]

\* The alerts with a higher id than the page's: the log is in the order of its
\* ids, so they are its end.
AlertsAfter(id) ==
  LET had == {i \in 1 .. Len(log) : log[i].id <= id}
  IN  SubSeq([i \in 1 .. Len(log) |-> log[i].id], Cardinality(had) + 1, Len(log))

\* Mutant of Batch: an alert too far.
BatchAfterNext == AlertsAfter(page.after + 1)

Batch == AlertsAfter(page.after)

\* Mutant of LastSeen: the page goes on after what was sent, not what arrived.
LastSentOf(shown) == LastOf(Batch)

LastSeen(shown) == LastOf(shown)

Deliver ==
  /\ Batch # <<>>
  /\ page' = [page EXCEPT !.shown = @ \o Batch, !.after = LastOf(Batch)]
  /\ UNCHANGED <<wire, watch, job, store, file, unfiled>>

Break ==
  /\ Batch # <<>> /\ page.breaks < MaxBreaks
  /\ \E k \in 0 .. Len(Batch) :
       LET shown == page.shown \o SubSeq(Batch, 1, k)
       IN  page' = [page EXCEPT !.shown = shown, !.after = LastSeen(shown), !.breaks = @ + 1]
  /\ UNCHANGED <<wire, watch, job, store, file, unfiled>>

Alarm(t) == Add(t) \/ File(t) \/ Rotate(t) \/ FileAfresh(t)
Decoy(c) == Accept(c) \/ Serve(c) \/ Hit(c)
AnySweep == SweepSees \/ SweepIsEmpty \/ SweepFails

AlertNext ==
  \/ \E c \in Conn : Decoy(c)
  \/ \E t \in Thread : Alarm(t)
  \/ StopDecoys \/ AnySweep \/ Deliver \/ Break

AlertSpec == AlertInit /\ [][AlertNext]_alertVars

(* The threads run; nobody has to connect, to stop the watch or to sweep.    *)
AlertFairSpec ==
  AlertSpec /\ WF_alertVars(Deliver)
            /\ (\A c \in Conn : WF_alertVars(Serve(c)) /\ WF_alertVars(Hit(c)))
            /\ (\A t \in Thread : WF_alertVars(Alarm(t)))

-----------------------------------------------------------------------------
AlertTypeOK ==
  /\ running \in BOOLEAN /\ conn \in [Conn -> {"away", "served", "hit", "gone"}]
  /\ hits \in [Source -> [round : 1 .. Cardinality(Conn), count : 0 .. Cardinality(Conn)]]
  /\ \A t \in Thread : job[t] # NoJob => job[t].about \in About
  /\ Len(log) <= Limit /\ told \subseteq About

(* A visitor of a decoy takes one slot of the tripwire and gives it back     *)
(* whatever happens to it, and a refused one takes none: a flood cannot use  *)
(* the slots up.                                                             *)
SlotsComeBack == slots = MaxClients - Cardinality({c \in Conn : conn[c] = "served"})

(* The page shows the alerts in their order and none twice, and an alert it  *)
(* does not show was pushed out of the memory by newer ones before the page  *)
(* had it, or will be in its next batch: also after a batch that broke off   *)
(* in the middle, whatever was logged and dropped meanwhile.                 *)
PageMissesNothing ==
  /\ \A i, j \in 1 .. Len(page.shown) : i < j => page.shown[i] < page.shown[j]
  /\ \A n \in 1 .. seq : \/ n \in ToSet(page.shown)
                         \/ n \in missed
                         \/ n \in Ids(log) /\ n > page.after

LogInvariant == AlertTypeOK /\ SlotsComeBack /\ PageMissesNothing

(* "First contact, then escalations" and "one alert per distinct problem":   *)
(* whatever the threads do at once, no count of a source and no notice of a  *)
(* Guard is reported twice.                                                  *)
ToldOnce == [][\A t \in Thread : Add(t) => job[t].about \notin told]_alertVars

(* The first contact in every record of a source is reported: no count and   *)
(* no limit on alerts keeps a new visitor quiet.                             *)
FirstContactIsTold ==
  \A s \in Source \ Silent, r \in 1 .. Cardinality(Conn) :
    hits[s].round = r /\ hits[s].count > 0 ~> [src |-> s, round |-> r, count |-> 1] \in told

(* Every alert that is raised reaches the page, unless newer ones pushed it  *)
(* out of the memory first.                                                  *)
AlertsReachThePage == []<>(1 .. seq \subseteq ToSet(page.shown) \cup missed)

(* README.md: --guard-log will "append every alert to a file". No thread     *)
(* gives its alert up.                                                       *)
EveryAlertIsFiled == unfiled = {}
=============================================================================
