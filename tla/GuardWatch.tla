----------------------------- MODULE GuardWatch ------------------------------
(***************************************************************************)
(* The device watch of nemla/guard.py: Guard objects that sweep the        *)
(* network, judge what they saw (evaluate_sweep), save what they know in   *)
(* guard.json and raise alerts, while the owner trusts devices, stops and  *)
(* starts the watch, and the process may die.                              *)
(*                                                                         *)
(* The page's Stop and Start make a new Guard object that loads guard.json *)
(* while the sweep of the old one may still be in flight, and `nemla guard`*)
(* next to the page makes one in another process: then Guards overlap.     *)
(* Each object has its own lock.                                           *)
(***************************************************************************)
EXTENDS Integers, FiniteSets

CONSTANTS
  Ip, Gateway,  \* the addresses of the network; the gateway is one of them
  Mac, NoMac,   \* hardware addresses; NoMac: the address did not answer
  MaxGuards,    \* bound: how many Guard objects a behaviour creates
  Tables,       \* what a sweep may find: functions from Ip to Mac or NoMac
  MaxOverlaps,  \* bound: how often a Guard begins or decides beside another one
  MaxCrashes,   \* bound
  Nothing,      \* no such file
  Empty         \* a file that was opened for writing and not yet written

Guards == 1 .. MaxGuards

(* What the Guard knows: guard.json. The addresses and dates kept with a     *)
(* device, and the count of binding flips, only weigh the confidence of an   *)
(* alert and are left out.                                                   *)
State == [learning : BOOLEAN,
          devices  : SUBSET Mac,              \* trusted
          unknown  : SUBSET Mac,
          dups     : SUBSET Mac,              \* the "dup:" keys of `unknown`
          bindings : [Ip -> Mac \cup {NoMac}]]

\* The two marks of a file without a state are no states.
ASSUME GuardAssumption ==
  /\ Gateway \in Ip /\ NoMac \notin Mac
  /\ Tables \subseteq [Ip -> Mac \cup {NoMac}]
  /\ MaxOverlaps \in Nat /\ MaxCrashes \in Nat /\ MaxGuards \in Nat \ {0}
  /\ Nothing \notin State /\ Empty \notin State /\ Nothing # Empty

NewState == [learning |-> TRUE, devices |-> {}, unknown |-> {}, dups |-> {},
             bindings |-> [i \in Ip |-> NoMac]]

Alert == [kind : {"new_device"}, mac : Mac] \cup [kind : {"arp_dup"}, mac : Mac]
         \cup [kind : {"arp_change"}, mac : Mac, ip : Ip] \cup {[kind |-> "baseline"]}

\* The alerts that are for once; the others may come back.
Once == [kind : {"new_device"}, mac : Mac] \cup {[kind |-> "baseline"]}

VARIABLES
  disk,    \* guard.json
  tmp,     \* guard.tmp, one name for every writer
  mem,     \* per Guard: its `state`
  life,    \* per Guard: absent, running, stopped, or dead with its process
  sweep,   \* per Guard: where its sweep thread is
  seen,    \* per Guard: the table its sweep has to judge
  alerts,  \* per Guard: the alerts of its sweep that are not in the log yet
  owner,   \* where the owner's trust request is
  holds,   \* per Guard: which file its open handle writes to
  logged,  \* history: how often each alert of Once was logged (at most twice counted)
  trusted, \* history: the devices for which trust() returned True
  crashes, \* history: how often the process died
  overlaps \* history: how often a Guard began, or decided, beside another one

vars == <<disk, tmp, mem, life, sweep, seen, alerts, owner, holds, logged, trusted, crashes,
          overlaps>>
history == <<logged, trusted, crashes, overlaps>>

Nobody == [i \in Ip |-> NoMac]
NoTrust == [pc |-> "idle", guard |-> 1, mac |-> NoMac]

Init ==
  /\ disk = Nothing /\ tmp = Nothing
  /\ mem = [g \in Guards |-> NewState]
  /\ life = [g \in Guards |-> "absent"]
  /\ sweep = [g \in Guards |-> "idle"]
  /\ seen = [g \in Guards |-> Nobody]
  /\ alerts = [g \in Guards |-> {}]
  /\ owner = NoTrust
  /\ holds = [g \in Guards |-> "none"]
  /\ logged = [a \in Once |-> 0] /\ trusted = {} /\ crashes = 0 /\ overlaps = 0

-----------------------------------------------------------------------------
(* evaluate_sweep(table, state): the alerts, and the new state.            *)

Seen(table) == {table[i] : i \in Ip} \ {NoMac}
Holders(table, mac) == {i \in Ip : table[i] = mac}

NewMacs(table, s) == IF s.learning THEN {} ELSE Seen(table) \ (s.devices \cup s.unknown)

Changed(table, s) ==
  {i \in Ip : table[i] # NoMac /\ s.bindings[i] # NoMac /\ table[i] # s.bindings[i] /\ ~s.learning}

\* One hardware address answers for the gateway and for others.
Duplicates(table, s) ==
  {m \in Seen(table) : /\ ~s.learning /\ m \notin s.dups
                       /\ Gateway \in Holders(table, m)
                       /\ Cardinality(Holders(table, m)) > 1}

\* Mutant of AlertsOf: a device behind a changed address is not called new.
AlertsOfChangesOnly(table, s) ==
  {[kind |-> "arp_change", mac |-> table[i], ip |-> i] : i \in Changed(table, s)}
  \cup {[kind |-> "new_device", mac |-> m] :
          m \in {n \in NewMacs(table, s) : Holders(table, n) \cap Changed(table, s) = {}}}

AlertsOf(table, s) ==
  {[kind |-> "arp_change", mac |-> table[i], ip |-> i] : i \in Changed(table, s)}
  \cup {[kind |-> "new_device", mac |-> m] : m \in NewMacs(table, s)}
  \cup {[kind |-> "arp_dup", mac |-> m] : m \in Duplicates(table, s)}
  \cup (IF s.learning /\ Seen(table) # {} THEN {[kind |-> "baseline"]} ELSE {})

\* Mutant of Judged: the devices that were reported are not remembered.
JudgedForgetful(table, s) ==
  [learning |-> s.learning /\ Seen(table) = {},
   devices  |-> IF s.learning THEN s.devices \cup Seen(table) ELSE s.devices,
   unknown  |-> s.unknown,
   dups     |-> s.dups \cup Duplicates(table, s),
   bindings |-> [i \in Ip |-> IF table[i] = NoMac THEN s.bindings[i] ELSE table[i]]]

\* Mutant of Judged: the first sweep replaces what the owner has trusted.
JudgedAfresh(table, s) ==
  [learning |-> s.learning /\ Seen(table) = {},
   devices  |-> IF s.learning THEN Seen(table) ELSE s.devices,
   unknown  |-> s.unknown \cup NewMacs(table, s),
   dups     |-> s.dups \cup Duplicates(table, s),
   bindings |-> [i \in Ip |-> IF table[i] = NoMac THEN s.bindings[i] ELSE table[i]]]

\* Mutant of Judged: a device is trusted the second time it is seen.
JudgedTrusting(table, s) ==
  [learning |-> s.learning /\ Seen(table) = {},
   devices  |-> IF s.learning THEN s.devices \cup Seen(table)
                ELSE s.devices \cup (Seen(table) \cap s.unknown),
   unknown  |-> (s.unknown \cup NewMacs(table, s)) \ (Seen(table) \cap s.unknown),
   dups     |-> s.dups \cup Duplicates(table, s),
   bindings |-> [i \in Ip |-> IF table[i] = NoMac THEN s.bindings[i] ELSE table[i]]]

Judged(table, s) ==
  [learning |-> s.learning /\ Seen(table) = {},
   devices  |-> IF s.learning THEN s.devices \cup Seen(table) ELSE s.devices,
   unknown  |-> s.unknown \cup NewMacs(table, s),
   dups     |-> s.dups \cup Duplicates(table, s),
   bindings |-> [i \in Ip |-> IF table[i] = NoMac THEN s.bindings[i] ELSE table[i]]]

-----------------------------------------------------------------------------
(* The life of the Guard objects.                                          *)

\* load_state(): a file that is missing or not JSON is a new state.
Loaded == IF disk \in {Nothing, Empty} THEN NewState ELSE disk

Busy(g) == sweep[g] # "idle" \/ (owner.pc # "idle" /\ owner.guard = g)

\* A step that is taken while another Guard may do something is counted.
Beside(other) ==
  /\ other => overlaps < MaxOverlaps
  /\ overlaps' = overlaps + (IF other THEN 1 ELSE 0)

\* Guard(...).start(): the next object, with what the file says. Nothing waits for
\* the one before it: stop() does not join the sweep, and another process does not
\* know of it at all.
Begin(g) ==
  /\ life[g] = "absent" /\ \A h \in Guards : h < g => life[h] # "absent"
  /\ Beside(\E h \in Guards : life[h] = "running" \/ Busy(h))
  /\ mem' = [mem EXCEPT ![g] = Loaded]
  /\ life' = [life EXCEPT ![g] = "running"]
  /\ UNCHANGED <<disk, tmp, sweep, seen, alerts, owner, holds, logged, trusted, crashes>>

\* stop() sets an event; a sweep in flight goes on.
Stop(g) ==
  /\ life[g] = "running"
  /\ life' = [life EXCEPT ![g] = "stopped"]
  /\ UNCHANGED <<disk, tmp, mem, sweep, seen, alerts, owner, holds, history>>

\* A process dies with its Guards: the files stay, everything else is gone.
Crash(dying) ==
  /\ crashes < MaxCrashes /\ crashes' = crashes + 1
  /\ dying # {} /\ \A g \in dying : life[g] \in {"running", "stopped"}
  /\ life' = [g \in Guards |-> IF g \in dying THEN "dead" ELSE life[g]]
  /\ mem' = [g \in Guards |-> IF g \in dying THEN NewState ELSE mem[g]]
  /\ sweep' = [g \in Guards |-> IF g \in dying THEN "idle" ELSE sweep[g]]
  /\ seen' = [g \in Guards |-> IF g \in dying THEN Nobody ELSE seen[g]]
  /\ alerts' = [g \in Guards |-> IF g \in dying THEN {} ELSE alerts[g]]
  /\ holds' = [g \in Guards |-> IF g \in dying THEN "none" ELSE holds[g]]
  /\ owner' = IF owner.guard \in dying THEN NoTrust ELSE owner
  /\ UNCHANGED <<disk, tmp, logged, trusted, overlaps>>

-----------------------------------------------------------------------------
(* save_state(path, state): open and truncate guard.tmp, write, rename.    *)

Truncate(g) ==
  /\ tmp' = Empty /\ holds' = [holds EXCEPT ![g] = "tmp"]
  /\ UNCHANGED disk

\* The handle follows the file it opened, whatever its name is by now.
Write(g) ==
  /\ \/ holds[g] = "tmp"  /\ tmp' = mem[g] /\ UNCHANGED disk
     \/ holds[g] = "disk" /\ disk' = mem[g] /\ UNCHANGED tmp
     \/ holds[g] = "lost" /\ UNCHANGED <<disk, tmp>>
  /\ holds' = [holds EXCEPT ![g] = "none"]

\* tmp.replace(target); a missing tmp is an OSError, which is only logged.
Rename ==
  \/ /\ tmp # Nothing
     /\ disk' = tmp /\ tmp' = Nothing
     /\ holds' = [g \in Guards |-> IF holds[g] = "tmp" THEN "disk"
                                   ELSE IF holds[g] = "disk" THEN "lost" ELSE holds[g]]
  \/ tmp = Nothing /\ UNCHANGED <<disk, tmp, holds>>

-----------------------------------------------------------------------------
(* sweep_once() in the thread of _loop.                                    *)

\* Mutant of Locked: the sweep takes the lock twice.
LockedTwice(g) == sweep[g] \in {"seen", "judged", "opened", "written"}
                  \/ (owner.guard = g /\ owner.pc \in {"opened", "written"})

Locked(g) == sweep[g] \in {"judged", "opened", "written"}
             \/ (owner.guard = g /\ owner.pc \in {"opened", "written"})

At(g, from, to) == sweep[g] = from /\ sweep' = [sweep EXCEPT ![g] = to]

Look(g) ==
  /\ life[g] = "running" /\ At(g, "idle", "seen")
  /\ \E table \in Tables : seen' = [seen EXCEPT ![g] = table]
  /\ UNCHANGED <<disk, tmp, mem, life, alerts, owner, holds, history>>

\* with self._lock: evaluate_sweep(...)
Judge(g) ==
  /\ ~Locked(g) /\ At(g, "seen", "judged")
  /\ mem' = [mem EXCEPT ![g] = Judged(seen[g], mem[g])]
  /\ alerts' = [alerts EXCEPT ![g] = AlertsOf(seen[g], mem[g])]
  /\ seen' = [seen EXCEPT ![g] = Nobody]
  /\ UNCHANGED <<disk, tmp, life, owner, holds, history>>

SaveOpen(g) ==
  /\ At(g, "judged", "opened") /\ Truncate(g)
  /\ UNCHANGED <<mem, life, seen, alerts, owner, history>>

SaveWrite(g) ==
  /\ At(g, "opened", "written") /\ Write(g)
  /\ UNCHANGED <<mem, life, seen, alerts, owner, history>>

SaveRename(g) ==
  /\ At(g, "written", "alerting") /\ Rename
  /\ UNCHANGED <<mem, life, seen, alerts, owner, history>>

Counted(a) == IF a \in Once /\ logged[a] < 2 THEN [logged EXCEPT ![a] = @ + 1] ELSE logged

\* self.log.add(a) for a in alerts, outside the lock.
Log(g) ==
  /\ sweep[g] = "alerting"
  /\ \/ \E a \in alerts[g] :
          /\ logged' = Counted(a)
          /\ alerts' = [alerts EXCEPT ![g] = @ \ {a}]
          /\ UNCHANGED sweep
     \/ alerts[g] = {} /\ At(g, "alerting", "idle") /\ UNCHANGED <<alerts, logged>>
  /\ UNCHANGED <<disk, tmp, mem, life, seen, owner, holds, trusted, crashes, overlaps>>

Sweep(g) == Look(g) \/ Judge(g) \/ SaveOpen(g) \/ SaveWrite(g) \/ SaveRename(g) \/ Log(g)

-----------------------------------------------------------------------------
(* trust(mac): the owner's decision, on the object of some process.        *)

Newest(g) == \A h \in Guards : h > g => life[h] = "absent"

TrustedBy(s, mac) == [s EXCEPT !.unknown = @ \ {mac}, !.devices = @ \cup {mac}]

Trust(g) ==
  /\ owner.pc = "idle" /\ life[g] \in {"running", "stopped"} /\ ~Locked(g)
  /\ Beside(~Newest(g))
  /\ \E mac \in Mac :
       /\ mem' = [mem EXCEPT ![g] = TrustedBy(@, mac)]
       /\ owner' = [pc |-> "opened", guard |-> g, mac |-> mac]
  /\ Truncate(g)
  /\ UNCHANGED <<life, sweep, seen, alerts, logged, trusted, crashes>>

TrustWrite ==
  /\ owner.pc = "opened" /\ Write(owner.guard)
  /\ owner' = [owner EXCEPT !.pc = "written"]
  /\ UNCHANGED <<mem, life, sweep, seen, alerts, history>>

TrustRename ==
  /\ owner.pc = "written" /\ Rename
  /\ trusted' = trusted \cup {owner.mac}
  /\ owner' = NoTrust
  /\ UNCHANGED <<mem, life, sweep, seen, alerts, logged, crashes, overlaps>>

-----------------------------------------------------------------------------
Terminated == (\A g \in Guards : life[g] \in {"stopped", "dead"} /\ ~Busy(g)) /\ UNCHANGED vars

Next == \/ \E g \in Guards : Begin(g) \/ Stop(g) \/ Sweep(g) \/ Trust(g)
        \/ TrustWrite \/ TrustRename \/ Terminated
        \/ \E dying \in SUBSET Guards : Crash(dying)

Spec == Init /\ [][Next]_vars

\* The sweep threads run; the judging waits for a lock that is always given back.
FairSpec == Spec /\ WF_vars(TrustWrite \/ TrustRename)
                 /\ \A g \in Guards : SF_vars(Judge(g)) /\ WF_vars(Sweep(g))

-----------------------------------------------------------------------------
(* Properties.                                                             *)

TypeOK ==
  /\ disk \in State \cup {Nothing, Empty} /\ tmp \in State \cup {Nothing, Empty}
  /\ mem \in [Guards -> State]
  /\ life \in [Guards -> {"absent", "running", "stopped", "dead"}]
  /\ sweep \in [Guards -> {"idle", "seen", "judged", "opened", "written", "alerting"}]
  /\ seen \in [Guards -> [Ip -> Mac \cup {NoMac}]]
  /\ alerts \in [Guards -> SUBSET Alert]
  /\ owner \in [pc : {"idle", "opened", "written"}, guard : Guards, mac : Mac \cup {NoMac}]
  /\ holds \in [Guards -> {"none", "tmp", "disk", "lost"}]
  /\ logged \in [Once -> 0 .. 2] /\ trusted \subseteq Mac /\ crashes \in 0 .. MaxCrashes
  /\ overlaps \in 0 .. MaxOverlaps

\* The states whose owner can still read them: in memory, and on disk.
Known == {mem[g] : g \in {h \in Guards : life[h] \in {"running", "stopped"}}}
         \cup (IF disk \in {Nothing, Empty} THEN {} ELSE {disk})

\* A device that was not there before is reported once: over all sweeps, restarts and
\* crashes, no two new_device alerts name the same device, as long as no Guard
\* began beside another one.
NeverRepeated == \A m \in Mac : logged[[kind |-> "new_device", mac |-> m]] <= 1

ReportedOnce == TypeOK /\ (overlaps = 0 => NeverRepeated)

\* A device on the unknown list was reported, or its alert is on its way, however
\* many Guards write to the file; only a crash between the save and the alert can
\* swallow it.
UnknownIsReported ==
  crashes = 0 =>
    \A s \in Known : \A m \in s.unknown :
      \/ logged[[kind |-> "new_device", mac |-> m]] > 0
      \/ \E g \in Guards : [kind |-> "new_device", mac |-> m] \in alerts[g]

\* A reader of guard.json, at any moment, finds all of it or none, as long as no
\* Guard began beside another one; and whatever Guards there are, a torn file is
\* one that a save is about to fill, unless the process died in that save.
NeverTorn == disk # Empty

DiskIsWhole == disk = Empty => overlaps > 0 /\ (crashes > 0 \/ \E g \in Guards : holds[g] = "disk")

\* What the owner trusted is still trusted when the file is loaded again, as long
\* as no Guard began beside another one.
TrustStays == disk \notin {Nothing, Empty} => trusted \subseteq disk.devices

TrustSurvives == overlaps = 0 => TrustStays

\* "The very first sweep only learns": once a Guard has a baseline, no step makes
\* a device trusted for it that the owner did not name, whatever other Guards do;
\* and a Guard that begins, with no other beside it, does not learn anew.
OnlyTheOwnerTrusts ==
  [][\A g \in Guards :
       /\ ~mem[g].learning /\ life'[g] = life[g] =>
            /\ ~mem'[g].learning
            /\ mem'[g].devices \subseteq mem[g].devices \cup {owner'.mac}
       /\ life[g] = "absent" /\ life'[g] = "running" /\ logged[[kind |-> "baseline"]] > 0
          /\ overlaps' = 0 => ~mem'[g].learning]_vars

\* A sweep that has begun to judge ends with every alert in the log, unless the
\* process dies.
AlertsGetOut ==
  \A g \in Guards : sweep[g] = "seen" ~> (sweep[g] = "idle" \/ crashes > 0)
==============================================================================
