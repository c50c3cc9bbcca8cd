----------------------------- MODULE GuardProofs -----------------------------
(***************************************************************************)
(* Theorems about the guard.  GuardWatch: for every network, every table a *)
(* sweep may find, and any number of restarts and crashes, what the Guard  *)
(* has told its owner and what the owner has told the Guard outlives the   *)
(* process, until a Guard begins or decides beside another one; what holds *)
(* of any number of Guards at once is proved first, and of all of them.    *)
(* AlertLog: for any number of connections from any number of addresses,   *)
(* any loud counts and all limits.                                         *)
(***************************************************************************)
EXTENDS GuardWatch, AlertLog, QueueLemmas

-----------------------------------------------------------------------------
(***************************************************************************)
(* The watch (GuardWatch).                                                 *)
(***************************************************************************)
(* What holds of any number of Guards on one guard.json.                   *)

News(m) == [kind |-> "new_device", mac |-> m]
Baseline == [kind |-> "baseline"]

Deciding(g) == owner.pc # "idle" /\ owner.guard = g
Opened(g) == sweep[g] = "opened" \/ (owner.pc = "opened" /\ owner.guard = g)
Written(g) == sweep[g] = "written" \/ (owner.pc = "written" /\ owner.guard = g)

\* The lock of a Guard: its sweep and its owner are never both at the file.
LockHolds ==
  /\ \A g \in Guards : Deciding(g) => sweep[g] \notin {"judged", "opened", "written"}
  /\ \A g \in Guards : sweep[g] \in {"idle", "seen"} => alerts[g] = {}
  /\ \A g \in Guards : holds[g] # "none" => Opened(g)
  /\ owner.pc # "idle" => owner.mac \in Mac

\* A file that is empty is one that somebody is about to write.
TornHolds ==
  crashes = 0 => /\ disk = Empty => \E g \in Guards : holds[g] = "disk"
                 /\ tmp = Empty => \E g \in Guards : holds[g] = "tmp"

Told(m) == logged[News(m)] > 0 \/ \E g \in Guards : News(m) \in alerts[g]

\* While no process died, every unknown device of every copy of the state was
\* reported or is about to be.
AllTold(s) == s \in State => \A m \in s.unknown : Told(m)
ToldHolds == crashes = 0 => AllTold(disk) /\ AllTold(tmp) /\ \A g \in Guards : AllTold(mem[g])

Always == TypeOK /\ LockHolds /\ TornHolds /\ ToldHolds

-----------------------------------------------------------------------------
(* What holds until a Guard begins or decides beside another one.          *)

\* The devices a state has an opinion about.
Macs(s) == s.devices \cup s.unknown

\* t knows all that s knows.
Covers(s, t) ==
  /\ Macs(s) \subseteq Macs(t) /\ s.devices \subseteq t.devices
  /\ ~s.learning => ~t.learning

\* The one Guard that may do something: alive, and the newest.
Current(g) == life[g] \in {"running", "stopped"} /\ \A h \in Guards : h > g => life[h] = "absent"

\* A Guard that is followed by another one does nothing any more.
LifeHolds ==
  /\ \A g \in Guards : life[g] \in {"absent", "dead"} => ~Busy(g)
  /\ \A g, h \in Guards : g < h /\ life[h] # "absent" => life[g] \in {"stopped", "dead"} /\ ~Busy(g)

\* The file is what the current Guard knows, or is behind it while a save runs.
FileHolds ==
  /\ disk # Empty
  /\ \A g \in Guards : holds[g] = IF Opened(g) THEN "tmp" ELSE "none"
  /\ \A g \in Guards : Written(g) => tmp = mem[g]
  /\ \A g \in Guards : Current(g) => /\ Covers(Loaded, mem[g])
                                     /\ ~Locked(g) => mem[g] = Loaded

\* What was logged is on the list on disk, and what is still to be logged is on the
\* list of the Guard that found it.
AlertsHold ==
  /\ \A m \in Mac : /\ logged[News(m)] <= 1
                    /\ logged[News(m)] > 0 => m \in Macs(Loaded)
  /\ \A g \in Guards, m \in Mac : News(m) \in alerts[g] =>
       /\ logged[News(m)] = 0 /\ m \in Macs(mem[g])
       /\ sweep[g] = "alerting" => m \in Macs(Loaded)
  /\ logged[Baseline] > 0 => ~Loaded.learning
  /\ \A g \in Guards : Baseline \in alerts[g] =>
       ~mem[g].learning /\ (sweep[g] = "alerting" => ~Loaded.learning)

\* What the owner has decided.
TrustHolds ==
  /\ trusted \subseteq Loaded.devices
  /\ owner.pc # "idle" => owner.mac \in Mac /\ owner.mac \in mem[owner.guard].devices

GInv == LifeHolds /\ FileHolds /\ AlertsHold /\ TrustHolds

\* The inductive invariant.
Main == Always /\ (overlaps = 0 => GInv)

-----------------------------------------------------------------------------
(* Facts about the operators.                                              *)

\* Guards are numbered from 1.
LEMMA Numbers == Guards \subseteq Nat /\ 1 \in Guards
BY GuardAssumption DEF Guards

\* What evaluate_sweep does to a state: it stays one, and nothing is forgotten.
LEMMA JudgedFacts ==
  ASSUME NEW table \in [Ip -> Mac \cup {NoMac}], NEW s \in State
  PROVE  /\ Judged(table, s) \in State /\ Covers(s, Judged(table, s))
         /\ Judged(table, s).unknown = s.unknown \cup NewMacs(table, s)
         /\ NewMacs(table, s) \cap Macs(s) = {} /\ NewMacs(table, s) \subseteq Mac
         /\ s.learning /\ Seen(table) # {} => ~Judged(table, s).learning
         /\ ~s.learning => Judged(table, s).devices = s.devices
<1>1. Seen(table) \subseteq Mac
  BY DEF Seen
<1>2. /\ s.learning \in BOOLEAN /\ s.devices \subseteq Mac /\ s.unknown \subseteq Mac
      /\ s.dups \subseteq Mac /\ s.bindings \in [Ip -> Mac \cup {NoMac}]
  BY DEF State
<1>3. /\ NewMacs(table, s) \cap Macs(s) = {} /\ NewMacs(table, s) \subseteq Mac
      /\ Duplicates(table, s) \subseteq Mac
  BY <1>1 DEF NewMacs, Macs, Duplicates
<1>4. [i \in Ip |-> IF table[i] = NoMac THEN s.bindings[i] ELSE table[i]] \in [Ip -> Mac \cup {NoMac}]
  BY <1>2
<1> DEFINE learning == s.learning /\ Seen(table) = {}
           devices == IF s.learning THEN s.devices \cup Seen(table) ELSE s.devices
           unknown == s.unknown \cup NewMacs(table, s)
           dups == s.dups \cup Duplicates(table, s)
           bindings == [i \in Ip |-> IF table[i] = NoMac THEN s.bindings[i] ELSE table[i]]
<1>5. Judged(table, s) = [learning |-> learning, devices |-> devices, unknown |-> unknown,
                          dups |-> dups, bindings |-> bindings]
  BY DEF Judged
<1>6. /\ learning \in BOOLEAN /\ devices \subseteq Mac /\ unknown \subseteq Mac
      /\ dups \subseteq Mac /\ bindings \in [Ip -> Mac \cup {NoMac}]
      /\ s.devices \subseteq devices /\ s.unknown \subseteq unknown
      /\ ~s.learning => ~learning /\ devices = s.devices
      /\ Seen(table) # {} => ~learning
  BY <1>1, <1>2, <1>3, <1>4
<1>7. unknown = s.unknown \cup NewMacs(table, s)
  OBVIOUS
<1> HIDE DEF learning, devices, unknown, dups, bindings
<1>8. Judged(table, s) \in State
  BY <1>5, <1>6 DEF State
<1>9. /\ Judged(table, s).learning = learning /\ Judged(table, s).devices = devices
      /\ Judged(table, s).unknown = unknown
  BY <1>5
<1>10. QED
  BY <1>3, <1>6, <1>7, <1>8, <1>9 DEF Covers, Macs

\* Alerts of new devices are told from each other and from the baseline.
LEMMA AlertFacts ==
  /\ Baseline \in Once /\ Once \subseteq Alert
  /\ \A m \in Mac : News(m) \in Once /\ News(m) # Baseline
  /\ \A m, n \in Mac : News(m) = News(n) => m = n
BY DEF News, Baseline, Alert, Once

\* A sweep tells of its new devices, and of the baseline only while it learns.
LEMMA AlertsOfFacts ==
  ASSUME NEW table \in [Ip -> Mac \cup {NoMac}], NEW s \in State
  PROVE  /\ AlertsOf(table, s) \subseteq Alert
         /\ \A m \in Mac : News(m) \in AlertsOf(table, s) <=> m \in NewMacs(table, s)
         /\ Baseline \in AlertsOf(table, s) => s.learning /\ Seen(table) # {}
<1> DEFINE changes == {[kind |-> "arp_change", mac |-> table[i], ip |-> i] : i \in Changed(table, s)}
           news == {[kind |-> "new_device", mac |-> m] : m \in NewMacs(table, s)}
           doubles == {[kind |-> "arp_dup", mac |-> m] : m \in Duplicates(table, s)}
           first == IF s.learning /\ Seen(table) # {} THEN {[kind |-> "baseline"]} ELSE {}
<1>1. AlertsOf(table, s) = changes \cup news \cup doubles \cup first
  BY DEF AlertsOf
<1>2. NewMacs(table, s) \subseteq Mac /\ Duplicates(table, s) \subseteq Mac
  BY JudgedFacts DEF Duplicates, Seen
<1>3. \A i \in Changed(table, s) : i \in Ip /\ table[i] \in Mac
  BY DEF Changed
<1>4. changes \subseteq Alert /\ \A a \in changes : a.kind = "arp_change"
  BY <1>3 DEF Alert
<1>5. news \subseteq Alert /\ \A a \in news : a.kind = "new_device"
  BY <1>2 DEF Alert
<1>6. doubles \subseteq Alert /\ \A a \in doubles : a.kind = "arp_dup"
  BY <1>2 DEF Alert
<1>7. first \subseteq Alert /\ \A a \in first : a.kind = "baseline" /\ s.learning /\ Seen(table) # {}
  BY DEF Alert
<1>8. \A m \in Mac : News(m) \in news <=> m \in NewMacs(table, s)
  BY DEF News
<1> HIDE DEF changes, news, doubles, first
<1>9. (\A m : News(m).kind = "new_device") /\ Baseline.kind = "baseline"
  BY DEF News, Baseline
<1>10. QED
  BY <1>1, <1>4, <1>5, <1>6, <1>7, <1>8, <1>9

\* A decision forgets no device and makes none unknown.
LEMMA TrustedFacts ==
  ASSUME NEW s \in State, NEW mac \in Mac
  PROVE  /\ TrustedBy(s, mac) \in State /\ Covers(s, TrustedBy(s, mac))
         /\ TrustedBy(s, mac).learning = s.learning
         /\ TrustedBy(s, mac).unknown \subseteq s.unknown
         /\ TrustedBy(s, mac).devices = s.devices \cup {mac}
<1> DEFINE devices == s.devices \cup {mac}
           unknown == s.unknown \ {mac}
<1>1. devices \subseteq Mac /\ unknown \subseteq Mac /\ s.devices \cup s.unknown \subseteq devices \cup unknown
      /\ s.devices \subseteq devices /\ unknown \subseteq s.unknown
  BY DEF State
<1>2. TrustedBy(s, mac) = [s EXCEPT !.unknown = unknown, !.devices = devices]
  BY DEF TrustedBy
<1> HIDE DEF devices, unknown
<1>3. TrustedBy(s, mac) \in State /\ TrustedBy(s, mac).devices = devices
      /\ TrustedBy(s, mac).unknown = unknown /\ TrustedBy(s, mac).learning = s.learning
  BY <1>1, <1>2 DEF State
<1>4. QED
  BY <1>1, <1>3 DEF Covers, Macs, devices

\* What a Guard begins with.
LEMMA LoadedFacts ==
  /\ NewState \in State /\ NewState.devices = {} /\ NewState.unknown = {} /\ NewState.learning
  /\ TypeOK => Loaded \in State
  /\ TypeOK /\ disk # Empty /\ disk # Nothing => Loaded = disk
  /\ \A s \in State : s \notin {Nothing, Empty}
<1>1. /\ NewState \in State /\ NewState.devices = {} /\ NewState.unknown = {} /\ NewState.learning
      /\ \A s \in State : s \notin {Nothing, Empty}
  BY GuardAssumption DEF NewState, State
<1>2. QED
  BY <1>1 DEF Loaded, TypeOK

\* To know at least as much is an order.
LEMMA CoversFacts ==
  /\ \A s : Covers(s, s)
  /\ \A s, t, u : Covers(s, t) /\ Covers(t, u) => Covers(s, u)
BY DEF Covers

\* Only the current Guard is busy.
LEMMA OneIsBusy ==
  ASSUME TypeOK, LifeHolds, NEW g \in Guards, Busy(g)
  PROVE  /\ Current(g)
         /\ \A h \in Guards \ {g} : ~Busy(h)
<1>1. life[g] \in {"running", "stopped"}
  BY DEF TypeOK, LifeHolds
<1>2. \A h \in Guards : h > g => life[h] = "absent"
  BY Numbers DEF LifeHolds
<1>3. ASSUME NEW h \in Guards \ {g} PROVE ~Busy(h)
  <2>1. CASE h > g
    BY <1>2, <2>1 DEF LifeHolds
  <2>2. CASE h < g
    BY <1>1, <2>2 DEF LifeHolds
  <2>3. QED
    BY <2>1, <2>2, Numbers
<1>4. QED
  BY <1>1, <1>2, <1>3 DEF Current

-----------------------------------------------------------------------------
(* The steps, whatever Guards there are.                                   *)

Stages == {"idle", "seen", "judged", "opened", "written", "alerting"}
Handles == {"none", "tmp", "disk", "lost"}
Files == State \cup {Nothing, Empty}

\* What was told stays told while alerts only move into the log.
LEMMA ToldStays ==
  ASSUME UNCHANGED <<alerts, logged>>
  PROVE  /\ \A m : Told(m)' = Told(m)
         /\ \A s, t \in State : AllTold(s) /\ t.unknown \subseteq s.unknown => AllTold(t)'
         /\ \A s : AllTold(s) => AllTold(s)'
<1>1. \A m : Told(m)' = Told(m)
  BY DEF Told
<1>2. QED
  BY <1>1 DEF AllTold

\* Nothing is known, and nobody does anything.
LEMMA InitAlways == Init => Always
<1> SUFFICES ASSUME Init PROVE Always
  OBVIOUS
<1>1. /\ \A g \in Guards : sweep[g] = "idle" /\ alerts[g] = {} /\ holds[g] = "none" /\ mem[g] = NewState
      /\ owner.pc = "idle" /\ disk = Nothing /\ tmp = Nothing /\ Nothing \notin State /\ Nothing # Empty
  BY GuardAssumption DEF Init, NoTrust
<1>2. TypeOK
  BY Numbers, LoadedFacts, GuardAssumption DEF Init, TypeOK, NoTrust, Nobody
<1>3. LockHolds /\ TornHolds
  BY <1>1 DEF LockHolds, TornHolds, Deciding
<1>4. ToldHolds
  BY <1>1, LoadedFacts DEF ToldHolds, AllTold
<1>5. QED
  BY <1>2, <1>3, <1>4 DEF Always

\* A Guard that begins knows nothing but what the file says.
LEMMA BeginAlways == ASSUME Always, NEW g \in Guards, Begin(g) PROVE Always'
<1>1. /\ mem' = [mem EXCEPT ![g] = Loaded] /\ life' = [life EXCEPT ![g] = "running"]
      /\ Beside(\E h \in Guards : life[h] = "running" \/ Busy(h))
      /\ UNCHANGED <<disk, tmp, sweep, seen, alerts, owner, holds, logged, trusted, crashes>>
  BY DEF Begin
<1>2. TypeOK /\ LockHolds /\ TornHolds /\ ToldHolds /\ Loaded \in State
  BY LoadedFacts DEF Always
<1>3. TypeOK'
  <2>1. overlaps' \in 0 .. MaxOverlaps
    BY <1>1, <1>2, GuardAssumption DEF Beside, TypeOK
  <2>2. QED
    BY <1>1, <1>2, <2>1 DEF TypeOK
<1>4. LockHolds' /\ TornHolds'
  BY <1>1, <1>2 DEF LockHolds, TornHolds, Deciding, Opened
<1>5. ToldHolds'
  <2>1. \A s : AllTold(s) => AllTold(s)'
    BY <1>1, ToldStays
  <2>2. crashes = 0 => AllTold(Loaded)
    BY <1>2, LoadedFacts DEF ToldHolds, Loaded, AllTold
  <2>3. \A h \in Guards : mem'[h] = Loaded \/ mem'[h] = mem[h]
    BY <1>1, <1>2 DEF TypeOK
  <2>4. QED
    BY <1>1, <1>2, <2>1, <2>2, <2>3 DEF ToldHolds
<1>6. QED
  BY <1>3, <1>4, <1>5 DEF Always

\* What dies takes its handles and its alerts along.
LEMMA CrashAlways == ASSUME Always, NEW dying \in SUBSET Guards, Crash(dying) PROVE Always'
<1>1. /\ crashes < MaxCrashes /\ crashes' = crashes + 1
      /\ owner' = IF owner.guard \in dying THEN NoTrust ELSE owner
      /\ UNCHANGED <<disk, tmp, logged, trusted, overlaps>>
      /\ life' = [g \in Guards |-> IF g \in dying THEN "dead" ELSE life[g]]
      /\ mem' = [g \in Guards |-> IF g \in dying THEN NewState ELSE mem[g]]
      /\ sweep' = [g \in Guards |-> IF g \in dying THEN "idle" ELSE sweep[g]]
      /\ seen' = [g \in Guards |-> IF g \in dying THEN Nobody ELSE seen[g]]
      /\ alerts' = [g \in Guards |-> IF g \in dying THEN {} ELSE alerts[g]]
      /\ holds' = [g \in Guards |-> IF g \in dying THEN "none" ELSE holds[g]]
  BY DEF Crash
<1>2. TypeOK /\ LockHolds
  BY DEF Always
<1>3. crashes' # 0
  BY <1>1, <1>2 DEF TypeOK
<1>4. TypeOK'
  <2>1. crashes' \in 0 .. MaxCrashes
    BY <1>1, <1>2, GuardAssumption DEF TypeOK
  <2>2. owner' \in [pc : {"idle", "opened", "written"}, guard : Guards, mac : Mac \cup {NoMac}]
    BY <1>1, <1>2, Numbers DEF TypeOK, NoTrust
  <2>3. life' \in [Guards -> {"absent", "running", "stopped", "dead"}]
    BY <1>1, <1>2 DEF TypeOK
  <2>4. mem' \in [Guards -> State]
    BY <1>1, <1>2, LoadedFacts DEF TypeOK
  <2>5. sweep' \in [Guards -> Stages] /\ holds' \in [Guards -> Handles]
    BY <1>1, <1>2 DEF TypeOK, Stages, Handles
  <2>6. seen' \in [Guards -> [Ip -> Mac \cup {NoMac}]] /\ alerts' \in [Guards -> SUBSET Alert]
    BY <1>1, <1>2 DEF TypeOK, Nobody
  <2>7. QED
    BY <1>1, <1>2, <2>1, <2>2, <2>3, <2>4, <2>5, <2>6 DEF TypeOK, Stages, Handles
<1>5. LockHolds'
  <2>1. \A g \in Guards : /\ sweep'[g] = IF g \in dying THEN "idle" ELSE sweep[g]
                          /\ alerts'[g] = IF g \in dying THEN {} ELSE alerts[g]
                          /\ holds'[g] = IF g \in dying THEN "none" ELSE holds[g]
    BY <1>1
  <2>2. /\ \A g \in Guards : Deciding(g)' => Deciding(g) /\ g \notin dying
        /\ \A g \in Guards : g \notin dying /\ Opened(g) => Opened(g)'
        /\ owner'.pc # "idle" => owner.pc # "idle" /\ owner'.mac = owner.mac
    BY <1>1, <2>1 DEF Deciding, Opened, NoTrust
  <2>3. QED
    BY <1>2, <2>1, <2>2 DEF LockHolds
<1>6. QED
  BY <1>3, <1>4, <1>5 DEF Always, TornHolds, ToldHolds

\* The neighbour table is read, or the Guard stopped.
LEMMA QuietAlways == ASSUME Always, NEW g \in Guards, Stop(g) \/ Look(g) PROVE Always'
<1>1. /\ UNCHANGED <<disk, tmp, mem, alerts, owner, holds, logged, trusted, crashes, overlaps>>
      /\ \/ /\ life' = [life EXCEPT ![g] = "stopped"] /\ UNCHANGED <<sweep, seen>>
         \/ /\ sweep[g] = "idle" /\ sweep' = [sweep EXCEPT ![g] = "seen"] /\ UNCHANGED life
            /\ \E table \in Tables : seen' = [seen EXCEPT ![g] = table]
  BY DEF Stop, Look, At, history
<1>2. TypeOK /\ LockHolds /\ TornHolds /\ ToldHolds
  BY DEF Always
<1>3. TypeOK'
  <2>1. CASE life' = [life EXCEPT ![g] = "stopped"] /\ UNCHANGED <<sweep, seen>>
    BY <1>1, <1>2, <2>1 DEF TypeOK
  <2>2. CASE /\ sweep' = [sweep EXCEPT ![g] = "seen"] /\ UNCHANGED life
             /\ \E table \in Tables : seen' = [seen EXCEPT ![g] = table]
    <3>1. seen' \in [Guards -> [Ip -> Mac \cup {NoMac}]]
      BY <1>2, <2>2, GuardAssumption DEF TypeOK
    <3>2. QED
      BY <1>1, <1>2, <2>2, <3>1 DEF TypeOK
  <2>3. QED
    BY <1>1, <2>1, <2>2
<1>4. LockHolds'
  <2>1. \A h \in Guards : \/ sweep'[h] = sweep[h]
                          \/ h = g /\ sweep[h] = "idle" /\ sweep'[h] = "seen"
    BY <1>1, <1>2 DEF TypeOK
  <2>2. \A h \in Guards : (Deciding(h)' <=> Deciding(h)) /\ (Opened(h) => Opened(h)')
    BY <1>1, <2>1 DEF Deciding, Opened
  <2>3. QED
    BY <1>1, <1>2, <2>1, <2>2 DEF LockHolds
<1>5. TornHolds' /\ ToldHolds'
  <2>1. \A s : AllTold(s) => AllTold(s)'
    BY <1>1, ToldStays
  <2>2. QED
    BY <1>1, <1>2, <2>1 DEF TornHolds, ToldHolds
<1>6. QED
  BY <1>3, <1>4, <1>5 DEF Always

\* What a sweep puts on the unknown list it is about to tell.
LEMMA JudgeAlways == ASSUME Always, NEW g \in Guards, Judge(g) PROVE Always'
<1>1. /\ ~Locked(g) /\ sweep[g] = "seen" /\ sweep' = [sweep EXCEPT ![g] = "judged"]
      /\ mem' = [mem EXCEPT ![g] = Judged(seen[g], mem[g])]
      /\ alerts' = [alerts EXCEPT ![g] = AlertsOf(seen[g], mem[g])]
      /\ seen' = [seen EXCEPT ![g] = Nobody]
      /\ UNCHANGED <<disk, tmp, life, owner, holds, logged, trusted, crashes, overlaps>>
  BY DEF Judge, At, history
<1>2. TypeOK /\ LockHolds /\ TornHolds /\ ToldHolds
  BY DEF Always
<1>3. seen[g] \in [Ip -> Mac \cup {NoMac}] /\ mem[g] \in State
  BY <1>2 DEF TypeOK
<1> DEFINE next == Judged(seen[g], mem[g])
           found == AlertsOf(seen[g], mem[g])
           new == NewMacs(seen[g], mem[g])
<1>4. /\ next \in State /\ next.unknown = mem[g].unknown \cup new /\ new \subseteq Mac
      /\ found \subseteq Alert /\ \A m \in new : News(m) \in found
  BY <1>3, JudgedFacts, AlertsOfFacts
<1> HIDE DEF next, found, new
<1>5. /\ mem' = [mem EXCEPT ![g] = next] /\ alerts' = [alerts EXCEPT ![g] = found]
  BY <1>1 DEF next, found
<1>6. TypeOK'
  <2>1. Nobody \in [Ip -> Mac \cup {NoMac}]
    BY DEF Nobody
  <2>2. QED
    BY <1>1, <1>2, <1>4, <1>5, <2>1 DEF TypeOK
<1>7. LockHolds'
  <2>1. /\ sweep'[g] = "judged" /\ \A h \in Guards \ {g} : sweep'[h] = sweep[h] /\ alerts'[h] = alerts[h]
    BY <1>1, <1>2, <1>5 DEF TypeOK
  <2>2. /\ ~Deciding(g) /\ ~Opened(g) /\ ~Opened(g)'
        /\ \A h \in Guards : (Deciding(h)' <=> Deciding(h)) /\ (Opened(h) => Opened(h)')
    BY <1>1, <1>2, <2>1 DEF Deciding, Opened, Locked, TypeOK
  <2>3. QED
    BY <1>1, <1>2, <2>1, <2>2 DEF LockHolds
<1>8. TornHolds'
  BY <1>1, <1>2 DEF TornHolds
<1>9. ToldHolds'
  <2>1. alerts[g] = {} /\ alerts'[g] = found /\ \A h \in Guards \ {g} : alerts'[h] = alerts[h]
    BY <1>1, <1>2, <1>5 DEF LockHolds, TypeOK
  <2>2. /\ \A m : Told(m) => Told(m)'
        /\ \A m \in new : Told(m)'
    BY <1>1, <1>4, <2>1 DEF Told
  <2>3. mem'[g] = next /\ \A h \in Guards \ {g} : mem'[h] = mem[h]
    BY <1>2, <1>5 DEF TypeOK
  <2>4. SUFFICES ASSUME crashes = 0
                 PROVE  AllTold(disk)' /\ AllTold(tmp)' /\ \A h \in Guards : AllTold(mem[h])'
    BY <1>1 DEF ToldHolds
  <2>5. AllTold(disk)' /\ AllTold(tmp)'
    BY <1>1, <1>2, <2>2, <2>4 DEF ToldHolds, AllTold
  <2>6. AllTold(mem[g])'
    BY <1>2, <1>3, <1>4, <2>2, <2>3, <2>4 DEF ToldHolds, AllTold
  <2>7. ASSUME NEW h \in Guards \ {g} PROVE AllTold(mem[h])'
    BY <1>2, <2>2, <2>3, <2>4 DEF ToldHolds, AllTold
  <2>8. QED
    BY <2>5, <2>6, <2>7
<1>10. QED
  BY <1>6, <1>7, <1>8, <1>9 DEF Always

\* What the steps of a save leave alone, by the sweep or for the owner.
Saving(g) ==
  /\ UNCHANGED <<life, seen, alerts, logged, crashes>>
  /\ \A h \in Guards \ {g} : (Opened(h) => Opened(h)') /\ mem'[h] = mem[h]

\* The first step of a save: guard.tmp is empty, and this Guard is about to write it.
LEMMA TruncateAlways ==
  ASSUME Always, NEW g \in Guards, Truncate(g), Saving(g), ~Opened(g), Opened(g)',
         mem'[g] \in State, mem'[g].unknown \subseteq mem[g].unknown
  PROVE  /\ \A h \in Guards : holds'[h] # "none" => Opened(h)'
         /\ TornHolds' /\ ToldHolds' /\ holds' \in [Guards -> Handles] /\ {disk', tmp'} \subseteq Files
<1>1. /\ tmp' = Empty /\ UNCHANGED disk /\ holds'[g] = "tmp" /\ holds[g] = "none"
      /\ \A h \in Guards \ {g} : holds'[h] = holds[h]
      /\ holds' \in [Guards -> Handles] /\ {disk, tmp} \subseteq Files
      /\ Empty \notin State /\ mem[g] \in State
  BY GuardAssumption DEF Truncate, Always, TypeOK, LockHolds, Handles, Files
<1>2. \A h \in Guards : holds'[h] # "none" => Opened(h)'
  BY <1>1 DEF Always, LockHolds, Saving
<1>3. TornHolds'
  BY <1>1 DEF Always, TornHolds, Saving
<1>4. ToldHolds'
  <2>1. \A m : Told(m)' = Told(m)
    BY ToldStays DEF Saving
  <2>2. QED
    BY <1>1, <2>1 DEF Always, ToldHolds, AllTold, Saving
<1>5. QED
  BY <1>1, <1>2, <1>3, <1>4 DEF Files

\* The second step: what the Guard knows goes to the file its handle is at.
LEMMA WriteAlways ==
  ASSUME Always, NEW g \in Guards, Write(g), Saving(g), UNCHANGED mem
  PROVE  /\ \A h \in Guards : holds'[h] # "none" => Opened(h)'
         /\ TornHolds' /\ ToldHolds' /\ holds' \in [Guards -> Handles] /\ {disk', tmp'} \subseteq Files
<1>1. /\ holds'[g] = "none" /\ \A h \in Guards \ {g} : holds'[h] = holds[h]
      /\ holds' \in [Guards -> Handles] /\ {disk, tmp} \subseteq Files
      /\ mem[g] \in State /\ Empty \notin State
  BY GuardAssumption DEF Write, Always, TypeOK, Handles, Files
<1>2. \/ holds[g] = "tmp" /\ tmp' = mem[g] /\ UNCHANGED disk
      \/ holds[g] = "disk" /\ disk' = mem[g] /\ UNCHANGED tmp
      \/ holds[g] = "lost" /\ UNCHANGED <<disk, tmp>>
  BY DEF Write
<1>3. \A h \in Guards : holds'[h] # "none" => Opened(h)'
  BY <1>1 DEF Always, LockHolds, Saving
<1>4. TornHolds'
  <2>1. \A h \in Guards : holds[h] \in {"tmp", "disk"} /\ holds'[h] # holds[h] => h = g
    BY <1>1
  <2>2. QED
    BY <1>1, <1>2, <2>1 DEF Always, TornHolds, Saving
<1>5. ToldHolds'
  <2>1. \A m : Told(m)' = Told(m)
    BY ToldStays DEF Saving
  <2>2. QED
    BY <1>1, <1>2, <2>1 DEF Always, ToldHolds, AllTold, Saving
<1>6. QED
  BY <1>1, <1>2, <1>3, <1>4, <1>5 DEF Files

\* The last step: the handles at guard.tmp are handles at guard.json now.
LEMMA RenameAlways ==
  ASSUME Always, NEW g \in Guards, Rename, Saving(g), UNCHANGED mem, ~Opened(g)
  PROVE  /\ \A h \in Guards : holds'[h] # "none" => Opened(h)'
         /\ TornHolds' /\ ToldHolds' /\ holds' \in [Guards -> Handles] /\ {disk', tmp'} \subseteq Files
<1>1. /\ holds \in [Guards -> Handles] /\ {disk, tmp} \subseteq Files /\ Nothing # Empty
      /\ Nothing \notin State
  BY GuardAssumption DEF Always, TypeOK, Handles, Files
<1>2. CASE /\ tmp # Nothing /\ disk' = tmp /\ tmp' = Nothing
           /\ holds' = [h \in Guards |-> IF holds[h] = "tmp" THEN "disk"
                                         ELSE IF holds[h] = "disk" THEN "lost" ELSE holds[h]]
  <2>1. holds' \in [Guards -> Handles]
    BY <1>1, <1>2 DEF Handles
  <2>2. \A h \in Guards : /\ holds'[h] # "none" => holds[h] # "none"
                          /\ holds[h] = "tmp" => holds'[h] = "disk"
    BY <1>1, <1>2
  <2>3. \A h \in Guards : holds'[h] # "none" => Opened(h)'
    BY <2>2 DEF Always, LockHolds, Saving
  <2>4. TornHolds'
    BY <1>1, <1>2, <2>2 DEF Always, TornHolds, Saving
  <2>5. ToldHolds'
    <3>1. \A m : Told(m)' = Told(m)
      BY ToldStays DEF Saving
    <3>2. QED
      BY <1>1, <1>2, <3>1 DEF Always, ToldHolds, AllTold, Saving
  <2>6. QED
    BY <1>1, <1>2, <2>1, <2>3, <2>4, <2>5 DEF Files
<1>3. CASE UNCHANGED <<disk, tmp, holds>>
  <2>1. \A h \in Guards : holds'[h] # "none" => Opened(h)'
    BY <1>3 DEF Always, LockHolds, Saving
  <2>2. \A m : Told(m)' = Told(m)
    BY ToldStays DEF Saving
  <2>3. QED
    BY <1>1, <1>3, <2>1, <2>2 DEF Always, TornHolds, ToldHolds, AllTold, Saving
<1>4. QED
  BY <1>2, <1>3 DEF Rename

\* The save of a sweep.
LEMMA SaveAlways ==
  ASSUME Always, NEW g \in Guards, SaveOpen(g) \/ SaveWrite(g) \/ SaveRename(g) PROVE Always'
<1> DEFINE step(from, to) == sweep[g] = from /\ sweep' = [sweep EXCEPT ![g] = to]
<1>1. /\ UNCHANGED <<mem, life, seen, alerts, owner, logged, trusted, crashes, overlaps>>
      /\ \/ step("judged", "opened") /\ Truncate(g)
         \/ step("opened", "written") /\ Write(g)
         \/ step("written", "alerting") /\ Rename
  BY DEF SaveOpen, SaveWrite, SaveRename, At, history
<1>2. TypeOK /\ LockHolds
  BY DEF Always
<1>3. /\ sweep' \in [Guards -> Stages] /\ sweep[g] \in {"judged", "opened", "written"}
      /\ sweep'[g] \in {"opened", "written", "alerting"}
      /\ \A h \in Guards \ {g} : sweep'[h] = sweep[h]
  BY <1>1, <1>2 DEF TypeOK, Stages
<1>4. /\ ~Deciding(g) /\ \A h \in Guards : Deciding(h)' <=> Deciding(h)
  BY <1>1, <1>2, <1>3 DEF Deciding, LockHolds
<1>5. Saving(g)
  BY <1>1, <1>3 DEF Saving, Opened
<1>6. /\ \A h \in Guards : holds'[h] # "none" => Opened(h)'
      /\ TornHolds' /\ ToldHolds' /\ holds' \in [Guards -> Handles] /\ {disk', tmp'} \subseteq Files
  <2>1. CASE step("judged", "opened") /\ Truncate(g)
    <3>1. ~Opened(g) /\ Opened(g)' /\ mem'[g] \in State /\ mem'[g].unknown \subseteq mem[g].unknown
      BY <1>1, <1>2, <1>4, <2>1 DEF Opened, Deciding, TypeOK
    <3>2. QED
      BY <1>5, <2>1, <3>1, TruncateAlways
  <2>2. CASE step("opened", "written") /\ Write(g)
    BY <1>1, <1>5, <2>2, WriteAlways
  <2>3. CASE step("written", "alerting") /\ Rename
    <3>1. ~Opened(g)
      BY <1>4, <2>3 DEF Opened, Deciding
    <3>2. QED
      BY <1>1, <1>5, <2>3, <3>1, RenameAlways
  <2>4. QED
    BY <1>1, <2>1, <2>2, <2>3
<1>7. TypeOK'
  BY <1>1, <1>2, <1>3, <1>6 DEF TypeOK, Files, Handles, Stages
<1>8. LockHolds'
  BY <1>1, <1>2, <1>3, <1>4, <1>6 DEF LockHolds
<1>9. QED
  BY <1>6, <1>7, <1>8 DEF Always

\* The owner's decision goes into memory before it is saved.
LEMMA TrustAlways == ASSUME Always, NEW g \in Guards, Trust(g) PROVE Always'
<1>1. PICK mac \in Mac : /\ owner.pc = "idle" /\ ~Locked(g) /\ Beside(~Newest(g))
                         /\ mem' = [mem EXCEPT ![g] = TrustedBy(@, mac)]
                         /\ owner' = [pc |-> "opened", guard |-> g, mac |-> mac]
                         /\ Truncate(g)
                         /\ UNCHANGED <<life, sweep, seen, alerts, logged, trusted, crashes>>
  BY DEF Trust
<1>2. TypeOK /\ LockHolds
  BY DEF Always
<1>3. /\ mem'[g] \in State /\ mem'[g].unknown \subseteq mem[g].unknown
      /\ \A h \in Guards \ {g} : mem'[h] = mem[h]
      /\ mem' \in [Guards -> State]
  <2>1. mem[g] \in State
    BY <1>2 DEF TypeOK
  <2>2. TrustedBy(mem[g], mac) \in State /\ TrustedBy(mem[g], mac).unknown \subseteq mem[g].unknown
    BY <2>1, TrustedFacts
  <2>3. QED
    BY <1>1, <1>2, <2>2 DEF TypeOK
<1>4. /\ sweep[g] \notin {"judged", "opened", "written"} /\ ~Opened(g) /\ Opened(g)'
      /\ \A h \in Guards : (Deciding(h)' => h = g) /\ (Opened(h) => Opened(h)')
  BY <1>1 DEF Locked, Opened, Deciding
<1>5. Saving(g)
  BY <1>1, <1>3, <1>4 DEF Saving
<1>6. /\ \A h \in Guards : holds'[h] # "none" => Opened(h)'
      /\ TornHolds' /\ ToldHolds' /\ holds' \in [Guards -> Handles] /\ {disk', tmp'} \subseteq Files
  BY <1>1, <1>3, <1>4, <1>5, TruncateAlways
<1>7. TypeOK'
  <2>1. overlaps' \in 0 .. MaxOverlaps
    BY <1>1, <1>2, GuardAssumption DEF Beside, TypeOK
  <2>2. QED
    BY <1>1, <1>2, <1>3, <1>6, <2>1 DEF TypeOK, Files, Handles
<1>8. LockHolds'
  BY <1>1, <1>2, <1>4, <1>6 DEF LockHolds
<1>9. QED
  BY <1>6, <1>7, <1>8 DEF Always

\* The save of a decision.
LEMMA DecisionAlways == Always /\ (TrustWrite \/ TrustRename) => Always'
<1> SUFFICES ASSUME Always, TrustWrite \/ TrustRename PROVE Always'
  OBVIOUS
<1>1. /\ UNCHANGED <<mem, life, sweep, seen, alerts, logged, crashes, overlaps>>
      /\ \/ /\ owner.pc = "opened" /\ Write(owner.guard)
            /\ owner' = [owner EXCEPT !.pc = "written"] /\ UNCHANGED trusted
         \/ /\ owner.pc = "written" /\ Rename
            /\ owner' = NoTrust /\ trusted' = trusted \cup {owner.mac}
  BY DEF TrustWrite, TrustRename, history
<1>2. TypeOK /\ LockHolds
  BY DEF Always
<1>3. PICK g \in Guards : g = owner.guard
  BY <1>2 DEF TypeOK
<1>4. /\ owner' \in [pc : {"idle", "opened", "written"}, guard : Guards, mac : Mac \cup {NoMac}]
      /\ owner'.pc \in {"idle", "written"} /\ (owner'.pc # "idle" => owner'.guard = g)
      /\ owner'.pc # "idle" => owner'.mac = owner.mac
      /\ trusted' \subseteq Mac
  BY <1>1, <1>2, <1>3, Numbers DEF TypeOK, NoTrust, LockHolds
<1>5. Deciding(g) /\ sweep[g] \notin {"judged", "opened", "written"}
  BY <1>1, <1>2, <1>3 DEF Deciding, LockHolds
<1>6. /\ \A h \in Guards : Deciding(h)' => Deciding(h)
      /\ \A h \in Guards \ {g} : Opened(h) => Opened(h)'
  BY <1>1, <1>3, <1>4, <1>5 DEF Deciding, Opened
<1>7. Saving(g)
  BY <1>1, <1>6 DEF Saving
<1>8. /\ \A h \in Guards : holds'[h] # "none" => Opened(h)'
      /\ TornHolds' /\ ToldHolds' /\ holds' \in [Guards -> Handles] /\ {disk', tmp'} \subseteq Files
  <2>1. CASE Write(owner.guard)
    BY <1>1, <1>3, <1>7, <2>1, WriteAlways
  <2>2. CASE owner.pc = "written" /\ Rename
    <3>1. ~Opened(g)
      BY <1>5, <2>2 DEF Opened
    <3>2. QED
      BY <1>1, <1>7, <2>2, <3>1, RenameAlways
  <2>3. QED
    BY <1>1, <2>1, <2>2
<1>9. TypeOK'
  BY <1>1, <1>2, <1>4, <1>8 DEF TypeOK, Files, Handles
<1>10. LockHolds'
  BY <1>1, <1>2, <1>4, <1>6, <1>8 DEF LockHolds
<1>11. QED
  BY <1>8, <1>9, <1>10 DEF Always

\* An alert moves into the log, and is told.
LEMMA LogAlways == ASSUME Always, NEW g \in Guards, Log(g) PROVE Always'
<1>1. /\ sweep[g] = "alerting"
      /\ UNCHANGED <<disk, tmp, mem, life, seen, owner, holds, trusted, crashes, overlaps>>
  BY DEF Log
<1>2. TypeOK /\ LockHolds /\ TornHolds /\ ToldHolds
  BY DEF Always
<1>3. ASSUME NEW a \in alerts[g], logged' = Counted(a), alerts' = [alerts EXCEPT ![g] = @ \ {a}],
             UNCHANGED sweep
      PROVE  Always'
  <2>1. /\ logged' \in [Once -> 0 .. 2]
        /\ \A b \in Once : logged[b] > 0 => logged'[b] > 0
        /\ a \in Once => logged'[a] > 0
    <3>1. logged \in [Once -> 0 .. 2]
      BY <1>2 DEF TypeOK
    <3>2. CASE a \in Once /\ logged[a] < 2
      <4>1. logged' = [logged EXCEPT ![a] = @ + 1] /\ logged[a] + 1 \in 1 .. 2
        BY <1>3, <3>1, <3>2 DEF Counted
      <4>2. logged'[a] = logged[a] + 1 /\ \A b \in Once \ {a} : logged'[b] = logged[b]
        BY <3>1, <3>2, <4>1
      <4>3. QED
        BY <3>1, <3>2, <4>1, <4>2
    <3>3. CASE ~(a \in Once /\ logged[a] < 2)
      BY <1>3, <3>1, <3>3 DEF Counted
    <3>4. QED
      BY <3>2, <3>3
  <2>2. /\ alerts' \in [Guards -> SUBSET Alert] /\ alerts'[g] = alerts[g] \ {a}
        /\ \A h \in Guards \ {g} : alerts'[h] = alerts[h]
    BY <1>2, <1>3 DEF TypeOK
  <2>3. TypeOK'
    BY <1>1, <1>2, <1>3, <2>1, <2>2 DEF TypeOK
  <2>4. LockHolds' /\ TornHolds'
    BY <1>1, <1>2, <1>3, <2>2 DEF LockHolds, TornHolds, Deciding, Opened
  <2>5. ToldHolds'
    <3>1. \A m \in Mac : Told(m) => Told(m)'
      BY <2>1, <2>2, AlertFacts DEF Told
    <3>2. \A s \in State : s.unknown \subseteq Mac
      BY DEF State
    <3>3. QED
      BY <1>1, <1>2, <3>1, <3>2 DEF ToldHolds, AllTold
  <2>6. QED
    BY <2>3, <2>4, <2>5 DEF Always
<1>4. CASE alerts[g] = {} /\ sweep' = [sweep EXCEPT ![g] = "idle"] /\ UNCHANGED <<alerts, logged>>
  <2>1. /\ sweep' \in [Guards -> Stages] /\ sweep'[g] = "idle"
        /\ \A h \in Guards \ {g} : sweep'[h] = sweep[h]
    BY <1>2, <1>4 DEF TypeOK, Stages
  <2>2. TypeOK'
    BY <1>1, <1>2, <1>4, <2>1 DEF TypeOK, Stages
  <2>3. LockHolds'
    <3>1. \A h \in Guards : (Deciding(h)' <=> Deciding(h)) /\ (Opened(h) => Opened(h)')
      BY <1>1, <2>1 DEF Deciding, Opened
    <3>2. QED
      BY <1>1, <1>2, <1>4, <2>1, <3>1 DEF LockHolds
  <2>4. TornHolds' /\ ToldHolds'
    BY <1>1, <1>2, <1>4, ToldStays DEF TornHolds, ToldHolds, AllTold
  <2>5. QED
    BY <2>2, <2>3, <2>4 DEF Always
<1>5. QED
  BY <1>3, <1>4 DEF Log, At

\* Every step of any number of Guards keeps it.
LEMMA NextAlways == Always /\ [Next]_vars => Always'
<1> SUFFICES ASSUME Always, [Next]_vars PROVE Always'
  OBVIOUS
<1>1. CASE UNCHANGED vars
  BY <1>1 DEF vars, Always, TypeOK, LockHolds, TornHolds, ToldHolds, AllTold, Told, Deciding, Opened
<1>2. ASSUME NEW g \in Guards, Begin(g) \/ Stop(g) \/ Sweep(g) \/ Trust(g) PROVE Always'
  BY <1>2, BeginAlways, QuietAlways, JudgeAlways, SaveAlways, LogAlways, TrustAlways DEF Sweep
<1>3. CASE TrustWrite \/ TrustRename
  BY <1>3, DecisionAlways
<1>4. ASSUME NEW dying \in SUBSET Guards, Crash(dying) PROVE Always'
  BY <1>4, CrashAlways
<1>5. QED
  BY <1>1, <1>2, <1>3, <1>4 DEF Next, Terminated

-----------------------------------------------------------------------------
(* The steps, until Guards overlap.                                        *)

\* No Guard and no file at the start.
LEMMA InitGInv == Init => GInv
<1> SUFFICES ASSUME Init PROVE GInv
  OBVIOUS
<1>1. /\ \A g \in Guards : life[g] = "absent" /\ sweep[g] = "idle" /\ alerts[g] = {} /\ holds[g] = "none"
      /\ owner.pc = "idle" /\ disk = Nothing /\ trusted = {} /\ Loaded = NewState
      /\ \A a \in Once : logged[a] = 0
  BY DEF Init, NoTrust, Loaded
<1>2. LifeHolds /\ FileHolds
  BY <1>1, GuardAssumption DEF LifeHolds, FileHolds, Busy, Opened, Written, Current
<1>3. AlertsHold /\ TrustHolds
  BY <1>1, AlertFacts, LoadedFacts DEF AlertsHold, TrustHolds
<1>4. QED
  BY <1>2, <1>3 DEF GInv

\* A Guard that begins reads what the last one wrote, for the last one is quiet.
LEMMA BeginInv == ASSUME Always, GInv, overlaps' = 0, NEW g \in Guards, Begin(g) PROVE GInv'
<1>1. /\ life[g] = "absent" /\ \A h \in Guards : h < g => life[h] # "absent"
      /\ \A h \in Guards : life[h] # "running" /\ ~Busy(h)
      /\ mem' = [mem EXCEPT ![g] = Loaded] /\ life' = [life EXCEPT ![g] = "running"]
      /\ UNCHANGED <<disk, tmp, sweep, seen, alerts, owner, holds, logged, trusted, crashes>>
  BY DEF Begin, Beside, Always, TypeOK
<1>2. TypeOK /\ LifeHolds /\ Loaded \in State
  BY LoadedFacts DEF Always, GInv
<1>3. /\ mem'[g] = Loaded /\ life'[g] = "running"
      /\ \A h \in Guards \ {g} : mem'[h] = mem[h] /\ life'[h] = life[h]
      /\ mem' \in [Guards -> State] /\ life' \in [Guards -> {"absent", "running", "stopped", "dead"}]
  BY <1>1, <1>2 DEF TypeOK
<1>4. \A h \in Guards : h > g => life[h] = "absent"
  BY <1>1, <1>2, Numbers DEF LifeHolds
<1>5. \A h \in Guards : ~Busy(h)' /\ sweep[h] = "idle" /\ alerts[h] = {}
  BY <1>1 DEF Busy, Always, LockHolds
<1>6. LifeHolds'
  BY <1>1, <1>2, <1>3, <1>4, <1>5, Numbers DEF LifeHolds, TypeOK
<1>7. FileHolds'
  <2>1. \A h \in Guards : holds'[h] = (IF Opened(h)' THEN "tmp" ELSE "none") /\ ~Written(h)'
    BY <1>1, <1>5 DEF GInv, FileHolds, Opened, Written, Busy
  <2>2. ASSUME NEW h \in Guards, Current(h)' PROVE h = g
    BY <1>3, <1>4, <2>2, Numbers DEF Current
  <2>3. mem'[g] = Loaded'
    BY <1>1, <1>3 DEF Loaded
  <2>4. QED
    BY <1>1, <2>1, <2>2, <2>3, CoversFacts DEF GInv, FileHolds
<1>8. AlertsHold'
  BY <1>1, <1>5 DEF GInv, AlertsHold, Loaded
<1>9. TrustHolds'
  <2>1. owner.pc = "idle" /\ UNCHANGED owner
    BY <1>1, <1>2 DEF Busy, TypeOK
  <2>2. QED
    BY <1>1, <2>1 DEF GInv, TrustHolds, Loaded
<1>10. QED
  BY <1>6, <1>7, <1>8, <1>9 DEF GInv

\* A Guard that is stopped finishes its sweep.
LEMMA StopInv == ASSUME Always, GInv, NEW g \in Guards, Stop(g) PROVE GInv'
<1>1. /\ life[g] = "running" /\ life' = [life EXCEPT ![g] = "stopped"]
      /\ UNCHANGED <<disk, tmp, mem, sweep, seen, alerts, owner, holds, logged, trusted, crashes>>
  BY DEF Stop, history
<1>2. /\ life'[g] = "stopped" /\ \A h \in Guards \ {g} : life'[h] = life[h]
      /\ life' \in [Guards -> {"absent", "running", "stopped", "dead"}]
  BY <1>1 DEF Always, TypeOK
<1>3. LifeHolds'
  <2>1. \A h \in Guards : Busy(h)' = Busy(h)
    BY <1>1 DEF Busy
  <2>2. QED
    BY <1>1, <1>2, <2>1 DEF GInv, LifeHolds
<1>4. FileHolds'
  <2>1. \A h \in Guards : Current(h)' => Current(h)
    BY <1>1, <1>2 DEF Current
  <2>2. /\ Loaded' = Loaded
        /\ \A h \in Guards : Opened(h)' = Opened(h) /\ Written(h)' = Written(h) /\ Locked(h)' = Locked(h)
    BY <1>1 DEF Loaded, Opened, Written, Locked
  <2>3. QED
    BY <1>1, <2>1, <2>2 DEF GInv, FileHolds
<1>5. AlertsHold' /\ TrustHolds'
  BY <1>1, <1>2 DEF GInv, AlertsHold, TrustHolds, Loaded
<1>6. QED
  BY <1>3, <1>4, <1>5 DEF GInv

\* The death of the process leaves what was on the disk.
LEMMA CrashInv == ASSUME Always, GInv, NEW dying \in SUBSET Guards, Crash(dying) PROVE GInv'
<1>1. /\ owner' = IF owner.guard \in dying THEN NoTrust ELSE owner
      /\ UNCHANGED <<disk, tmp, logged, trusted>>
      /\ \A g \in Guards \ dying : /\ life'[g] = life[g] /\ mem'[g] = mem[g] /\ sweep'[g] = sweep[g]
                                    /\ alerts'[g] = alerts[g] /\ holds'[g] = holds[g]
      /\ \A g \in dying : /\ life[g] # "absent" /\ life'[g] = "dead" /\ sweep'[g] = "idle"
                          /\ alerts'[g] = {} /\ holds'[g] = "none"
  BY DEF Crash
<1>2. TypeOK /\ LifeHolds /\ FileHolds /\ AlertsHold /\ TrustHolds
  BY DEF Always, GInv
<1>3. /\ \A g \in dying : ~Busy(g)' /\ ~Opened(g)' /\ ~Written(g)' /\ ~Current(g)'
      /\ \A g \in Guards \ dying : /\ (Busy(g)' <=> Busy(g))
                                    /\ (Opened(g)' <=> Opened(g))
                                    /\ (Written(g)' <=> Written(g))
                                    /\ (Locked(g)' <=> Locked(g))
      /\ owner'.pc # "idle" => owner' = owner /\ owner.guard \in Guards \ dying
  BY <1>1, <1>2 DEF Busy, Opened, Written, Locked, Current, NoTrust, TypeOK
<1>4. \A g \in Guards \ dying : Current(g)' => Current(g)
  BY <1>1 DEF Current
<1>5. LifeHolds'
  BY <1>1, <1>2, <1>3 DEF LifeHolds
<1>6. FileHolds'
  BY <1>1, <1>2, <1>3, <1>4 DEF FileHolds, Loaded
<1>7. AlertsHold'
  BY <1>1, <1>2 DEF AlertsHold, Loaded
<1>8. TrustHolds'
  BY <1>1, <1>2, <1>3 DEF TrustHolds, Loaded
<1>9. QED
  BY <1>5, <1>6, <1>7, <1>8 DEF GInv

\* The neighbour table is read.
LEMMA LookInv == ASSUME Always, GInv, NEW g \in Guards, Look(g) PROVE GInv'
<1>1. /\ life[g] = "running" /\ sweep[g] = "idle" /\ sweep' = [sweep EXCEPT ![g] = "seen"]
      /\ \E table \in Tables : seen' = [seen EXCEPT ![g] = table]
      /\ UNCHANGED <<disk, tmp, mem, life, alerts, owner, holds, logged, trusted, crashes>>
  BY DEF Look, At, history
<1>2. /\ sweep'[g] = "seen" /\ \A h \in Guards \ {g} : sweep'[h] = sweep[h]
  BY <1>1 DEF Always, TypeOK
<1>3. LifeHolds'
  <2>1. \A h \in Guards \ {g} : Busy(h)' = Busy(h)
    BY <1>1, <1>2 DEF Busy
  <2>2. \A h \in Guards : g < h => life[h] = "absent"
    BY <1>1 DEF GInv, LifeHolds
  <2>3. QED
    BY <1>1, <2>1, <2>2 DEF GInv, LifeHolds
<1>4. FileHolds'
  <2>1. /\ Loaded' = Loaded /\ \A h \in Guards : Current(h)' = Current(h)
        /\ \A h \in Guards : Opened(h)' = Opened(h) /\ Written(h)' = Written(h) /\ Locked(h)' = Locked(h)
    BY <1>1, <1>2 DEF Loaded, Opened, Written, Locked, Current
  <2>2. QED
    BY <1>1, <2>1 DEF GInv, FileHolds
<1>5. AlertsHold' /\ TrustHolds'
  BY <1>1, <1>2 DEF GInv, AlertsHold, TrustHolds, Loaded
<1>6. QED
  BY <1>3, <1>4, <1>5 DEF GInv

\* The judging of a sweep: what is new was never reported.
LEMMA JudgeInv == ASSUME Always, GInv, NEW g \in Guards, Judge(g) PROVE GInv'
<1>1. /\ ~Locked(g) /\ sweep[g] = "seen" /\ sweep' = [sweep EXCEPT ![g] = "judged"]
      /\ mem' = [mem EXCEPT ![g] = Judged(seen[g], mem[g])]
      /\ alerts' = [alerts EXCEPT ![g] = AlertsOf(seen[g], mem[g])]
      /\ UNCHANGED <<disk, tmp, life, owner, holds, logged, trusted, crashes>>
  BY DEF Judge, At, history
<1> DEFINE new == NewMacs(seen[g], mem[g])
<1>2. TypeOK /\ LockHolds /\ LifeHolds /\ FileHolds /\ AlertsHold /\ TrustHolds
  BY DEF Always, GInv
<1>3. seen[g] \in [Ip -> Mac \cup {NoMac}] /\ mem[g] \in State
  BY <1>2 DEF TypeOK
<1>4. /\ sweep'[g] = "judged" /\ \A h \in Guards \ {g} : sweep'[h] = sweep[h]
      /\ sweep' \in [Guards -> {"idle", "seen", "judged", "opened", "written", "alerting"}]
      /\ mem'[g] = Judged(seen[g], mem[g]) /\ \A h \in Guards \ {g} : mem'[h] = mem[h]
      /\ mem' \in [Guards -> State]
      /\ alerts'[g] = AlertsOf(seen[g], mem[g]) /\ \A h \in Guards \ {g} : alerts'[h] = alerts[h]
      /\ alerts' \in [Guards -> SUBSET Alert]
  <2>1. Judged(seen[g], mem[g]) \in State /\ AlertsOf(seen[g], mem[g]) \subseteq Alert
    BY <1>3, JudgedFacts, AlertsOfFacts
  <2>2. QED
    BY <1>1, <1>2, <2>1 DEF TypeOK
<1>5. /\ Busy(g) /\ Current(g) /\ alerts[g] = {} /\ ~Deciding(g)
      /\ \A h \in Guards \ {g} : ~Busy(h)
      /\ mem[g] = Loaded
  <2>1. Busy(g)
    BY <1>1 DEF Busy
  <2>2. Current(g) /\ \A h \in Guards \ {g} : ~Busy(h)
    BY <1>2, <2>1, OneIsBusy
  <2>3. ~Deciding(g)
    BY <1>1, <1>2 DEF Deciding, Locked, TypeOK
  <2>4. QED
    BY <1>1, <1>2, <2>1, <2>2, <2>3 DEF LockHolds, FileHolds
<1>6. /\ Covers(mem[g], mem'[g]) /\ mem'[g].unknown = mem[g].unknown \cup new
      /\ new \subseteq Mac /\ new \cap Macs(Loaded) = {} /\ new \subseteq Macs(mem'[g])
      /\ mem[g].learning /\ Seen(seen[g]) # {} => ~mem'[g].learning
  BY <1>3, <1>4, <1>5, JudgedFacts DEF Macs
<1>7. /\ \A m \in Mac : News(m) \in alerts'[g] <=> m \in new
      /\ Baseline \in alerts'[g] => mem[g].learning /\ Seen(seen[g]) # {}
  BY <1>3, <1>4, AlertsOfFacts
<1> HIDE DEF new
<1>8. LifeHolds'
  <2>1. \A h \in Guards : Busy(h)' = Busy(h)
    BY <1>1, <1>4 DEF Busy
  <2>2. QED
    BY <1>1, <1>2, <2>1 DEF LifeHolds
<1>9. FileHolds'
  <2>1. /\ Loaded' = Loaded /\ \A h \in Guards : Current(h)' = Current(h)
        /\ \A h \in Guards : Opened(h)' = Opened(h) /\ Written(h)' = Written(h)
        /\ \A h \in Guards \ {g} : Locked(h)' = Locked(h)
        /\ Locked(g)' /\ ~Written(g)
    BY <1>1, <1>4, <1>5 DEF Loaded, Opened, Written, Locked, Current, Deciding
  <2>2. QED
    BY <1>1, <1>2, <1>4, <1>5, <1>6, <2>1 DEF FileHolds
<1>10. AlertsHold'
  <2>1. \A m \in new : logged[News(m)] = 0
    BY <1>2, <1>6, AlertFacts DEF AlertsHold, TypeOK
  <2>2. \A h \in Guards \ {g} : alerts'[h] = {}
    BY <1>2, <1>4, <1>5 DEF Busy, LockHolds
  <2>3. QED
    BY <1>1, <1>2, <1>4, <1>6, <1>7, <2>1, <2>2 DEF AlertsHold, Loaded
<1>11. TrustHolds'
  BY <1>1, <1>2, <1>4, <1>5 DEF TrustHolds, Loaded, Deciding, TypeOK
<1>12. QED
  BY <1>8, <1>9, <1>10, <1>11 DEF GInv

\* The first step of a save, by the sweep or for the owner.
LEMMA TruncateInv ==
  ASSUME TypeOK, LifeHolds, FileHolds, AlertsHold,
         NEW g \in Guards, Current(g), Truncate(g), \A h \in Guards \ {g} : ~Busy(h),
         UNCHANGED <<life, alerts, seen, logged, trusted, crashes>>,
         Opened(g)', ~Written(g)', Locked(g)',
         \A h \in Guards \ {g} : ~Busy(h)',
         \A h \in Guards \ {g} : mem'[h] = mem[h],
         Covers(mem[g], mem'[g]),
         \A h \in Guards : sweep'[h] = "alerting" => sweep[h] = "alerting"
  PROVE  FileHolds' /\ AlertsHold' /\ UNCHANGED disk
         /\ tmp' = Empty /\ holds' \in [Guards -> {"none", "tmp", "disk", "lost"}]
<1>1. /\ tmp' = Empty /\ UNCHANGED disk /\ holds'[g] = "tmp"
      /\ \A h \in Guards \ {g} : holds'[h] = holds[h]
      /\ holds' \in [Guards -> {"none", "tmp", "disk", "lost"}]
  BY DEF Truncate, TypeOK
<1>2. Loaded' = Loaded
  BY <1>1 DEF Loaded
<1>3. FileHolds'
  <2>1. \A h \in Guards \ {g} : ~Opened(h)' /\ ~Written(h)' /\ ~Opened(h)
    BY DEF Busy, Opened, Written
  <2>2. \A h \in Guards : Current(h)' = Current(h)
    BY DEF Current
  <2>3. \A h \in Guards : Current(h) => h = g
    BY Numbers DEF Current
  <2>4. Covers(Loaded, mem'[g])
    BY CoversFacts DEF FileHolds
  <2>5. QED
    BY <1>1, <1>2, <2>1, <2>2, <2>3, <2>4 DEF FileHolds
<1>4. AlertsHold'
  <2>1. \A h \in Guards : Covers(mem[h], mem'[h])
    BY CoversFacts
  <2>2. QED
    BY <1>2, <2>1 DEF AlertsHold, Covers
<1>5. QED
  BY <1>1, <1>3, <1>4

\* guard.tmp is opened, and empty.
LEMMA SaveOpenInv == ASSUME Always, GInv, NEW g \in Guards, SaveOpen(g) PROVE GInv'
<1>1. /\ sweep[g] = "judged" /\ sweep' = [sweep EXCEPT ![g] = "opened"] /\ Truncate(g)
      /\ UNCHANGED <<mem, life, seen, alerts, owner, logged, trusted, crashes>>
  BY DEF SaveOpen, At, history
<1>2. TypeOK /\ LockHolds /\ LifeHolds /\ FileHolds /\ AlertsHold /\ TrustHolds
  BY DEF Always, GInv
<1>3. /\ sweep'[g] = "opened" /\ \A h \in Guards \ {g} : sweep'[h] = sweep[h]
      /\ sweep' \in [Guards -> {"idle", "seen", "judged", "opened", "written", "alerting"}]
  BY <1>1, <1>2 DEF TypeOK
<1>4. Current(g) /\ ~Deciding(g) /\ \A h \in Guards \ {g} : ~Busy(h)
  <2>1. Busy(g) /\ ~Deciding(g)
    BY <1>1, <1>2 DEF Busy, LockHolds
  <2>2. QED
    BY <1>2, <2>1, OneIsBusy
<1>5. \A h \in Guards : (Busy(h)' <=> Busy(h)) /\ (Deciding(h)' <=> Deciding(h))
  BY <1>1, <1>3 DEF Busy, Deciding
<1>6. Opened(g)' /\ Locked(g)' /\ ~Written(g)'
  BY <1>1, <1>3, <1>4 DEF Opened, Locked, Written, Deciding
<1>7. /\ FileHolds' /\ AlertsHold' /\ UNCHANGED disk
      /\ tmp' = Empty /\ holds' \in [Guards -> {"none", "tmp", "disk", "lost"}]
  <2>1. Covers(mem[g], mem'[g])
    BY <1>1, CoversFacts
  <2>2. QED
    BY <1>1, <1>2, <1>3, <1>4, <1>5, <1>6, <2>1, TruncateInv
<1>8. LifeHolds'
  BY <1>1, <1>2, <1>3, <1>4, <1>5 DEF LifeHolds, LockHolds
<1>9. TrustHolds'
  BY <1>1, <1>2, <1>7 DEF TrustHolds, Loaded
<1>10. QED
  BY <1>7, <1>8, <1>9 DEF GInv

\* The owner's decision goes into memory before it is saved.
LEMMA TrustInv == ASSUME Always, GInv, overlaps' = 0, NEW g \in Guards, Trust(g) PROVE GInv'
<1>0. Newest(g)
  <2>1. overlaps \in Nat
    BY GuardAssumption DEF Always, TypeOK
  <2>2. QED
    BY <2>1 DEF Trust, Beside
<1>1. PICK mac \in Mac : /\ owner.pc = "idle" /\ life[g] \in {"running", "stopped"} /\ ~Locked(g) /\ Newest(g)
                         /\ mem' = [mem EXCEPT ![g] = TrustedBy(@, mac)]
                         /\ owner' = [pc |-> "opened", guard |-> g, mac |-> mac]
                         /\ Truncate(g)
                         /\ UNCHANGED <<life, sweep, seen, alerts, logged, trusted, crashes>>
  BY <1>0 DEF Trust
<1>2. TypeOK /\ LockHolds /\ LifeHolds /\ FileHolds /\ AlertsHold /\ TrustHolds
  BY DEF Always, GInv
<1>3. /\ mem[g] \in State /\ mem'[g] = TrustedBy(mem[g], mac)
      /\ \A h \in Guards \ {g} : mem'[h] = mem[h]
      /\ mem' \in [Guards -> State]
  <2>1. mem[g] \in State /\ TrustedBy(mem[g], mac) \in State
    BY <1>2, TrustedFacts DEF TypeOK
  <2>2. QED
    BY <1>1, <1>2, <2>1 DEF TypeOK
<1>4. /\ Covers(mem[g], mem'[g]) /\ mem'[g].unknown \subseteq mem[g].unknown
      /\ mac \in mem'[g].devices
  BY <1>3, TrustedFacts
<1>5. Current(g) /\ \A h \in Guards \ {g} : ~Busy(h) /\ sweep[h] = "idle"
  <2>1. Current(g)
    BY <1>1 DEF Current, Newest
  <2>2. \A h \in Guards \ {g} : h < g \/ life[h] = "absent"
    BY <1>1, <1>2, Numbers DEF Newest, LifeHolds
  <2>3. QED
    BY <1>1, <1>2, <2>1, <2>2 DEF LifeHolds, Busy
<1>6. owner'.pc = "opened" /\ owner'.guard = g /\ owner'.mac = mac
  BY <1>1
<1>7. /\ Opened(g)' /\ Locked(g)' /\ ~Written(g)'
      /\ \A h \in Guards \ {g} : ~Busy(h)'
  BY <1>1, <1>5, <1>6 DEF Opened, Locked, Written, Busy
<1>8. /\ FileHolds' /\ AlertsHold' /\ UNCHANGED disk
      /\ tmp' = Empty /\ holds' \in [Guards -> {"none", "tmp", "disk", "lost"}]
  BY <1>1, <1>2, <1>3, <1>4, <1>5, <1>7, TruncateInv
<1>9. LifeHolds'
  <2>1. \A h \in Guards : g < h => life[h] = "absent"
    BY <1>5 DEF Current
  <2>2. QED
    BY <1>1, <1>2, <1>5, <1>7, <2>1 DEF LifeHolds
<1>10. TrustHolds'
  BY <1>1, <1>2, <1>4, <1>6, <1>8 DEF TrustHolds, Loaded
<1>11. QED
  BY <1>8, <1>9, <1>10 DEF GInv

\* The second step of a save: the handle still writes to guard.tmp.
LEMMA WriteInv ==
  ASSUME TypeOK, FileHolds, AlertsHold,
         NEW g \in Guards, Opened(g), Write(g), \A h \in Guards \ {g} : ~Busy(h),
         UNCHANGED <<mem, life, alerts, seen, logged, trusted, crashes>>,
         ~Opened(g)', Locked(g)', Locked(g),
         \A h \in Guards \ {g} : ~Busy(h)',
         \A h \in Guards : sweep'[h] = "alerting" => sweep[h] = "alerting"
  PROVE  FileHolds' /\ AlertsHold' /\ UNCHANGED disk
         /\ tmp' \in State /\ holds' \in [Guards -> {"none", "tmp", "disk", "lost"}]
<1>1. /\ tmp' = mem[g] /\ UNCHANGED disk /\ holds'[g] = "none"
      /\ \A h \in Guards \ {g} : holds'[h] = holds[h]
      /\ holds' \in [Guards -> {"none", "tmp", "disk", "lost"}]
  BY DEF Write, FileHolds, TypeOK
<1>2. Loaded' = Loaded
  BY <1>1 DEF Loaded
<1>3. FileHolds'
  <2>1. \A h \in Guards \ {g} : /\ ~Opened(h)' /\ ~Written(h)' /\ ~Opened(h)
                                /\ ~Locked(h)' /\ ~Locked(h)
    BY DEF Busy, Opened, Written, Locked
  <2>2. \A h \in Guards : Current(h)' = Current(h)
    BY DEF Current
  <2>3. QED
    BY <1>1, <1>2, <2>1, <2>2 DEF FileHolds
<1>4. AlertsHold'
  BY <1>2 DEF AlertsHold
<1>5. QED
  BY <1>1, <1>3, <1>4 DEF TypeOK

\* The last step of a save: now the file says what the Guard knows.
LEMMA RenameInv ==
  ASSUME TypeOK, LifeHolds, LockHolds, FileHolds, AlertsHold,
         NEW g \in Guards, Written(g), ~Opened(g), Rename, Current(g), \A h \in Guards \ {g} : ~Busy(h),
         UNCHANGED <<mem, life, alerts, seen, logged, crashes>>,
         ~Opened(g)', ~Written(g)', \A h \in Guards \ {g} : ~Busy(h)'
  PROVE  /\ FileHolds' /\ AlertsHold' /\ UNCHANGED holds
         /\ disk' \in State /\ tmp' = Nothing
         /\ Loaded' = mem[g] /\ Covers(Loaded, mem[g])
<1>1. tmp = mem[g] /\ mem[g] \in State /\ mem[g] \notin {Nothing, Empty}
  BY LoadedFacts DEF FileHolds, TypeOK
<1>2. \A h \in Guards : holds[h] = "none" /\ ~Opened(h)' /\ ~Written(h)'
  <2>1. \A h \in Guards \ {g} : ~Opened(h) /\ ~Opened(h)' /\ ~Written(h)'
    BY DEF Busy, Opened, Written
  <2>2. QED
    BY <2>1 DEF FileHolds
<1>3. disk' = mem[g] /\ tmp' = Nothing /\ holds' = holds
  <2>1. /\ disk' = mem[g] /\ tmp' = Nothing
        /\ holds' = [h \in Guards |-> IF holds[h] = "tmp" THEN "disk"
                                      ELSE IF holds[h] = "disk" THEN "lost" ELSE holds[h]]
    BY <1>1 DEF Rename
  <2>2. holds' = [h \in Guards |-> holds[h]]
    BY <1>2, <2>1
  <2>3. QED
    BY <2>1, <2>2 DEF TypeOK
<1>4. Loaded' = mem[g] /\ Covers(Loaded, mem[g])
  BY <1>1, <1>3 DEF Loaded, FileHolds
<1>5. FileHolds'
  <2>1. \A h \in Guards : Current(h)' => h = g
    BY Numbers DEF Current
  <2>2. QED
    BY <1>1, <1>2, <1>3, <1>4, <2>1, CoversFacts DEF FileHolds
<1>6. AlertsHold'
  <2>1. \A h \in Guards \ {g} : alerts[h] = {}
    BY DEF Busy, LockHolds
  <2>2. QED
    BY <1>4, <2>1 DEF AlertsHold, Covers
<1>7. QED
  BY <1>1, <1>3, <1>4, <1>5, <1>6

\* guard.tmp gets what the sweep learned.
LEMMA SaveWriteInv == ASSUME Always, GInv, NEW g \in Guards, SaveWrite(g) PROVE GInv'
<1>1. /\ sweep[g] = "opened" /\ sweep' = [sweep EXCEPT ![g] = "written"] /\ Write(g)
      /\ UNCHANGED <<mem, life, seen, alerts, owner, logged, trusted, crashes>>
  BY DEF SaveWrite, At, history
<1>2. TypeOK /\ LockHolds /\ LifeHolds /\ FileHolds /\ AlertsHold /\ TrustHolds
  BY DEF Always, GInv
<1>3. /\ sweep'[g] = "written" /\ \A h \in Guards \ {g} : sweep'[h] = sweep[h]
      /\ sweep' \in [Guards -> {"idle", "seen", "judged", "opened", "written", "alerting"}]
  BY <1>1, <1>2 DEF TypeOK
<1>4. ~Deciding(g) /\ \A h \in Guards \ {g} : ~Busy(h)
  <2>1. Busy(g) /\ ~Deciding(g)
    BY <1>1, <1>2 DEF Busy, LockHolds
  <2>2. QED
    BY <1>2, <2>1, OneIsBusy
<1>5. \A h \in Guards : (Busy(h)' <=> Busy(h)) /\ (Deciding(h)' <=> Deciding(h))
  BY <1>1, <1>3 DEF Busy, Deciding
<1>6. Opened(g) /\ ~Opened(g)' /\ Locked(g)' /\ Locked(g)
  BY <1>1, <1>3, <1>4 DEF Opened, Locked, Deciding
<1>7. /\ FileHolds' /\ AlertsHold' /\ UNCHANGED disk
      /\ tmp' \in State /\ holds' \in [Guards -> {"none", "tmp", "disk", "lost"}]
  BY <1>1, <1>2, <1>3, <1>4, <1>5, <1>6, WriteInv
<1>8. LifeHolds'
  BY <1>1, <1>2, <1>3, <1>4, <1>5 DEF LifeHolds, LockHolds
<1>9. TrustHolds'
  BY <1>1, <1>2, <1>7 DEF TrustHolds, Loaded
<1>10. QED
  BY <1>7, <1>8, <1>9 DEF GInv

\* guard.json is replaced: the alerts may follow.
LEMMA SaveRenameInv == ASSUME Always, GInv, NEW g \in Guards, SaveRename(g) PROVE GInv'
<1>1. /\ sweep[g] = "written" /\ sweep' = [sweep EXCEPT ![g] = "alerting"] /\ Rename
      /\ UNCHANGED <<mem, life, seen, alerts, owner, logged, trusted, crashes>>
  BY DEF SaveRename, At, history
<1>2. TypeOK /\ LockHolds /\ LifeHolds /\ FileHolds /\ AlertsHold /\ TrustHolds
  BY DEF Always, GInv
<1>3. /\ sweep'[g] = "alerting" /\ \A h \in Guards \ {g} : sweep'[h] = sweep[h]
      /\ sweep' \in [Guards -> {"idle", "seen", "judged", "opened", "written", "alerting"}]
  BY <1>1, <1>2 DEF TypeOK
<1>4. Current(g) /\ ~Deciding(g) /\ \A h \in Guards \ {g} : ~Busy(h)
  <2>1. Busy(g) /\ ~Deciding(g)
    BY <1>1, <1>2 DEF Busy, LockHolds
  <2>2. QED
    BY <1>2, <2>1, OneIsBusy
<1>5. \A h \in Guards : (Busy(h)' <=> Busy(h)) /\ (Deciding(h)' <=> Deciding(h))
  BY <1>1, <1>3 DEF Busy, Deciding
<1>6. Written(g) /\ ~Opened(g) /\ ~Opened(g)' /\ ~Written(g)'
  BY <1>1, <1>3, <1>4 DEF Opened, Written, Deciding
<1>7. /\ FileHolds' /\ AlertsHold' /\ UNCHANGED holds
      /\ disk' \in State /\ tmp' = Nothing
      /\ Loaded' = mem[g] /\ Covers(Loaded, mem[g])
  BY <1>1, <1>2, <1>4, <1>5, <1>6, RenameInv
<1>8. LifeHolds'
  BY <1>1, <1>2, <1>3, <1>4, <1>5 DEF LifeHolds, LockHolds
<1>9. TrustHolds'
  BY <1>1, <1>2, <1>7 DEF TrustHolds, Covers
<1>10. QED
  BY <1>7, <1>8, <1>9 DEF GInv

\* guard.json has the decision, and all that was there before.
LEMMA TrustWriteInv == Always /\ GInv /\ TrustWrite => GInv'
<1> SUFFICES ASSUME Always, GInv, TrustWrite PROVE GInv'
  OBVIOUS
<1>1. /\ owner.pc = "opened" /\ Write(owner.guard)
      /\ owner' = [owner EXCEPT !.pc = "written"]
      /\ UNCHANGED <<mem, life, sweep, seen, alerts, logged, trusted, crashes>>
  BY DEF TrustWrite, history
<1>2. TypeOK /\ LockHolds /\ LifeHolds /\ FileHolds /\ AlertsHold /\ TrustHolds
  BY DEF Always, GInv
<1>3. PICK g \in Guards : g = owner.guard
  BY <1>2 DEF TypeOK
<1>4. /\ owner'.pc = "written" /\ owner'.guard = g /\ owner'.mac = owner.mac
      /\ owner' \in [pc : {"idle", "opened", "written"}, guard : Guards, mac : Mac \cup {NoMac}]
  BY <1>1, <1>2, <1>3 DEF TypeOK
<1>5. /\ Deciding(g) /\ sweep[g] \notin {"judged", "opened", "written"}
      /\ \A h \in Guards \ {g} : ~Busy(h)
  <2>1. Busy(g) /\ Deciding(g)
    BY <1>1, <1>3 DEF Busy, Deciding
  <2>2. QED
    BY <1>2, <2>1, OneIsBusy DEF LockHolds
<1>6. \A h \in Guards : (Busy(h)' <=> Busy(h)) /\ (Deciding(h)' <=> Deciding(h))
  BY <1>1, <1>3, <1>4 DEF Busy, Deciding
<1>7. Opened(g) /\ ~Opened(g)' /\ Locked(g)' /\ Locked(g)
  BY <1>1, <1>3, <1>4, <1>5 DEF Opened, Locked
<1>8. /\ FileHolds' /\ AlertsHold' /\ UNCHANGED disk
      /\ tmp' \in State /\ holds' \in [Guards -> {"none", "tmp", "disk", "lost"}]
  BY <1>1, <1>2, <1>3, <1>5, <1>6, <1>7, WriteInv
<1>9. LifeHolds'
  BY <1>1, <1>2, <1>6 DEF LifeHolds, LockHolds
<1>10. TrustHolds'
  BY <1>1, <1>2, <1>3, <1>4, <1>8 DEF TrustHolds, Loaded
<1>11. QED
  BY <1>8, <1>9, <1>10 DEF GInv

\* The owner's decision is on disk when trust() returns.
LEMMA TrustRenameInv == Always /\ GInv /\ TrustRename => GInv'
<1> SUFFICES ASSUME Always, GInv, TrustRename PROVE GInv'
  OBVIOUS
<1>1. /\ owner.pc = "written" /\ Rename /\ owner' = NoTrust
      /\ trusted' = trusted \cup {owner.mac}
      /\ UNCHANGED <<mem, life, sweep, seen, alerts, logged, crashes>>
  BY DEF TrustRename
<1>2. TypeOK /\ LockHolds /\ LifeHolds /\ FileHolds /\ AlertsHold /\ TrustHolds
  BY DEF Always, GInv
<1>3. PICK g \in Guards : g = owner.guard
  BY <1>2 DEF TypeOK
<1>4. /\ owner'.pc = "idle"
      /\ owner' \in [pc : {"idle", "opened", "written"}, guard : Guards, mac : Mac \cup {NoMac}]
  BY <1>1, Numbers DEF NoTrust
<1>5. /\ Current(g) /\ sweep[g] \notin {"judged", "opened", "written"}
      /\ \A h \in Guards \ {g} : ~Busy(h)
  <2>1. Busy(g) /\ Deciding(g)
    BY <1>1, <1>3 DEF Busy, Deciding
  <2>2. QED
    BY <1>2, <2>1, OneIsBusy DEF LockHolds
<1>6. \A h \in Guards : (Busy(h)' => Busy(h)) /\ ~Deciding(h)'
  BY <1>1, <1>4 DEF Busy, Deciding
<1>7. Written(g) /\ ~Opened(g) /\ ~Opened(g)' /\ ~Written(g)'
  BY <1>1, <1>3, <1>4, <1>5 DEF Opened, Written
<1>8. /\ FileHolds' /\ AlertsHold' /\ UNCHANGED holds
      /\ disk' \in State /\ tmp' = Nothing
      /\ Loaded' = mem[g] /\ Covers(Loaded, mem[g])
  BY <1>1, <1>2, <1>5, <1>6, <1>7, RenameInv
<1>9. owner.mac \in Mac /\ owner.mac \in mem[g].devices
  BY <1>1, <1>2, <1>3 DEF TrustHolds
<1>10. LifeHolds'
  BY <1>1, <1>2, <1>6 DEF LifeHolds, LockHolds
<1>11. TrustHolds'
  BY <1>1, <1>2, <1>4, <1>8, <1>9 DEF TrustHolds, Covers
<1>12. QED
  BY <1>8, <1>10, <1>11 DEF GInv

\* An alert moves into the log.
LEMMA LogInv == ASSUME Always, GInv, NEW g \in Guards, Log(g) PROVE GInv'
<1>1. /\ sweep[g] = "alerting"
      /\ UNCHANGED <<disk, tmp, mem, life, seen, owner, holds, trusted, crashes>>
  BY DEF Log
<1>2. TypeOK /\ LockHolds /\ LifeHolds /\ FileHolds /\ AlertsHold /\ TrustHolds
  BY DEF Always, GInv
<1>3. Loaded' = Loaded /\ \A h \in Guards : Current(h)' = Current(h)
  BY <1>1 DEF Loaded, Current
<1>4. Busy(g)
  BY <1>1 DEF Busy
<1>5. \A h \in Guards \ {g} : alerts[h] = {}
  BY <1>2, <1>4, OneIsBusy DEF Busy, LockHolds
<1>6. ASSUME NEW a \in alerts[g], logged' = Counted(a), alerts' = [alerts EXCEPT ![g] = @ \ {a}],
             UNCHANGED sweep
      PROVE  GInv'
  <2>1. /\ \A b \in Once \ {a} : logged'[b] = logged[b]
        /\ a \in Once /\ logged[a] = 0 => logged'[a] = 1
    <3>1. logged \in [Once -> 0 .. 2]
      BY <1>2 DEF TypeOK
    <3>2. QED
      BY <1>6, <3>1 DEF Counted
  <2>2. /\ alerts'[g] = alerts[g] \ {a} /\ \A h \in Guards \ {g} : alerts'[h] = {}
    BY <1>2, <1>5, <1>6 DEF TypeOK
  <2>3. LifeHolds' /\ FileHolds'
    BY <1>1, <1>2, <1>3, <1>6, <2>2 DEF LifeHolds, FileHolds, Busy, Opened, Written, Locked
  <2>4. AlertsHold'
    <3>1. ASSUME NEW m \in Mac
          PROVE  logged'[News(m)] <= 1 /\ (logged'[News(m)] > 0 => m \in Macs(Loaded))
      <4>1. CASE News(m) = a
        <5>1. logged[a] = 0 /\ m \in Macs(Loaded)
          BY <1>1, <1>2, <4>1 DEF AlertsHold
        <5>2. QED
          BY <2>1, <4>1, <5>1, AlertFacts
      <4>2. CASE News(m) # a
        BY <1>2, <2>1, <4>2, AlertFacts DEF AlertsHold
      <4>3. QED
        BY <4>1, <4>2
    <3>2. ASSUME NEW h \in Guards, NEW m \in Mac, News(m) \in alerts'[h]
          PROVE  /\ h = g /\ News(m) \in alerts[g] /\ logged'[News(m)] = 0
      BY <1>2, <2>1, <2>2, <3>2, AlertFacts DEF AlertsHold
    <3>3. logged'[Baseline] > 0 => ~Loaded.learning
      <4>1. CASE Baseline = a
        BY <1>1, <1>2, <4>1 DEF AlertsHold
      <4>2. CASE Baseline # a
        BY <1>2, <2>1, <4>2, AlertFacts DEF AlertsHold
      <4>3. QED
        BY <4>1, <4>2
    <3>4. \A h \in Guards : Baseline \in alerts'[h] => h = g /\ Baseline \in alerts[g]
      BY <2>2
    <3>5. QED
      BY <1>1, <1>2, <1>3, <1>6, <3>1, <3>2, <3>3, <3>4 DEF AlertsHold
  <2>5. TrustHolds'
    BY <1>1, <1>2, <1>3 DEF TrustHolds
  <2>6. QED
    BY <2>3, <2>4, <2>5 DEF GInv
<1>7. CASE alerts[g] = {} /\ sweep' = [sweep EXCEPT ![g] = "idle"] /\ UNCHANGED <<alerts, logged>>
  <2>1. /\ sweep'[g] = "idle" /\ \A h \in Guards \ {g} : sweep'[h] = sweep[h]
    BY <1>2, <1>7 DEF TypeOK
  <2>2. LifeHolds'
    <3>1. \A h \in Guards : Busy(h)' => Busy(h)
      BY <1>1, <1>4, <2>1 DEF Busy
    <3>2. QED
      BY <1>1, <1>2, <3>1 DEF LifeHolds
  <2>3. FileHolds'
    <3>1. \A h \in Guards : Opened(h)' = Opened(h) /\ Written(h)' = Written(h) /\ Locked(h)' = Locked(h)
      BY <1>1, <2>1 DEF Opened, Written, Locked
    <3>2. QED
      BY <1>1, <1>2, <1>3, <3>1 DEF FileHolds
  <2>4. AlertsHold' /\ TrustHolds'
    BY <1>1, <1>2, <1>3, <1>7, <2>1 DEF AlertsHold, TrustHolds
  <2>5. QED
    BY <2>2, <2>3, <2>4 DEF GInv
<1>8. QED
  BY <1>6, <1>7 DEF Log, At

\* Every step keeps the invariant, until Guards overlap.
LEMMA NextGInv == ASSUME Always, GInv, [Next]_vars, overlaps' = 0 PROVE GInv'
<1>1. CASE UNCHANGED vars
  BY <1>1 DEF vars, GInv, LifeHolds, FileHolds, AlertsHold, TrustHolds, Busy, Opened, Written, Locked,
              Current, Loaded
<1>2. ASSUME NEW g \in Guards, Begin(g) \/ Stop(g) \/ Sweep(g) \/ Trust(g) PROVE GInv'
  BY <1>2, BeginInv, StopInv, LookInv, JudgeInv, SaveOpenInv, SaveWriteInv, SaveRenameInv, LogInv,
     TrustInv DEF Sweep
<1>3. CASE TrustWrite \/ TrustRename
  BY <1>3, TrustWriteInv, TrustRenameInv
<1>4. ASSUME NEW dying \in SUBSET Guards, Crash(dying) PROVE GInv'
  BY <1>4, CrashInv
<1>5. QED
  BY <1>1, <1>2, <1>3, <1>4 DEF Next, Terminated

\* Guards that have overlapped have overlapped for good.
LEMMA OverlapsStay == Always /\ [Next]_vars /\ overlaps' = 0 => overlaps = 0
<1> SUFFICES ASSUME Always, [Next]_vars PROVE overlaps' = overlaps \/ overlaps' = overlaps + 1
  BY DEF Always, TypeOK
<1>1. ASSUME NEW g \in Guards, Begin(g) \/ Trust(g) PROVE overlaps' = overlaps \/ overlaps' = overlaps + 1
  <2>1. overlaps \in Nat
    BY GuardAssumption DEF Always, TypeOK
  <2>2. QED
    BY <1>1, <2>1 DEF Begin, Trust, Beside
<1>2. ASSUME NEW g \in Guards, Stop(g) \/ Sweep(g) PROVE UNCHANGED overlaps
  BY <1>2 DEF Stop, Sweep, Look, Judge, SaveOpen, SaveWrite, SaveRename, Log, history
<1>3. CASE TrustWrite \/ TrustRename \/ UNCHANGED vars \/ \E dying \in SUBSET Guards : Crash(dying)
  BY <1>3 DEF TrustWrite, TrustRename, Crash, vars, history
<1>4. QED
  BY <1>1, <1>2, <1>3 DEF Next, Terminated

-----------------------------------------------------------------------------
(* What the run checks, for every network and any number of Guards.        *)

\* The file, the lists of the Guards and the log agree through every save, restart
\* and crash: some of it whatever Guards there are, all of it until they overlap.
THEOREM GuardInvariant == Spec => []Main
<1>1. Init => Main
  BY InitAlways, InitGInv DEF Main
<1>2. Main /\ [Next]_vars => Main'
  BY NextAlways, NextGInv, OverlapsStay DEF Main
<1>3. QED
  BY <1>1, <1>2, PTL DEF Spec

\* A device that was not there before is reported once, over any number of sweeps, restarts
\* and crashes, until Guards overlap.
THEOREM NewsIsToldOnce == Spec => []ReportedOnce
<1>1. Main => TypeOK /\ (overlaps = 0 => \A m \in Mac : logged[News(m)] <= 1)
  BY DEF Main, Always, GInv, AlertsHold
<1>2. Main => ReportedOnce
  BY <1>1 DEF News, ReportedOnce, NeverRepeated
<1>3. QED
  BY <1>2, GuardInvariant, PTL

\* No unknown device is kept from the owner, however many Guards write to the file,
\* except by the death of the process.
THEOREM UnknownDevicesAreTold == Spec => []UnknownIsReported
<1>1. ASSUME Main, crashes = 0, NEW s \in Known, NEW m \in s.unknown PROVE Told(m)
  <2>1. s \in State /\ AllTold(s)
    BY <1>1, GuardAssumption DEF Main, Always, ToldHolds, TypeOK, Known
  <2>2. QED
    BY <2>1 DEF AllTold
<1>2. Main => UnknownIsReported
  BY <1>1 DEF UnknownIsReported, Told, News
<1>3. QED
  BY <1>2, GuardInvariant, PTL

\* A decision for which trust() returned is in the file, whatever is saved later,
\* until Guards overlap.
THEOREM DecisionsSurvive == Spec => []TrustSurvives
<1>1. Main => TrustSurvives
  BY DEF Main, GInv, TrustHolds, Loaded, TrustSurvives, TrustStays
<1>2. QED
  BY <1>1, GuardInvariant, PTL

\* A reader of guard.json never finds a part of it until Guards overlap, and then only
\* one that is about to be filled, or that a crash left.
THEOREM FileIsWhole == Spec => []DiskIsWhole
<1>1. Main => DiskIsWhole
  BY DEF Main, Always, TypeOK, TornHolds, GInv, FileHolds, DiskIsWhole
<1>2. QED
  BY <1>1, GuardInvariant, PTL

OwnersWord(g) ==
  /\ ~mem[g].learning /\ life'[g] = life[g] =>
       ~mem'[g].learning /\ mem'[g].devices \subseteq mem[g].devices \cup {owner'.mac}
  /\ life[g] = "absent" /\ life'[g] = "running" /\ logged[Baseline] > 0 /\ overlaps' = 0 =>
       ~mem'[g].learning

\* No step but the owner's makes a device trusted.
LEMMA TrustStep == ASSUME Main, [Next]_vars, NEW g \in Guards PROVE OwnersWord(g)
<1>0. /\ mem \in [Guards -> State] /\ life \in [Guards -> {"absent", "running", "stopped", "dead"}]
      /\ seen[g] \in [Ip -> Mac \cup {NoMac}] /\ mem[g] \in State
  BY DEF Main, Always, TypeOK
<1>1. ASSUME NEW h \in Guards, Begin(h) PROVE OwnersWord(g)
  <2>1. /\ life[h] = "absent" /\ life'[h] = "running" /\ mem'[h] = Loaded
        /\ \A k \in Guards \ {h} : mem'[k] = mem[k] /\ life'[k] = life[k]
    BY <1>0, <1>1 DEF Begin
  <2>2. logged[Baseline] > 0 /\ overlaps' = 0 => ~Loaded.learning
    BY OverlapsStay DEF Main, GInv, AlertsHold
  <2>3. QED
    BY <2>1, <2>2 DEF OwnersWord
<1>2. ASSUME NEW h \in Guards, Judge(h) PROVE OwnersWord(g)
  <2>1. CASE h = g
    <3>1. mem'[g] = Judged(seen[g], mem[g]) /\ UNCHANGED life
      BY <1>0, <1>2, <2>1 DEF Judge
    <3>2. ~mem[g].learning => ~mem'[g].learning /\ mem'[g].devices = mem[g].devices
      BY <1>0, <3>1, JudgedFacts DEF Covers
    <3>3. QED
      BY <3>1, <3>2 DEF OwnersWord
  <2>2. CASE h # g
    BY <1>0, <1>2, <2>2 DEF Judge, OwnersWord
  <2>3. QED
    BY <2>1, <2>2
<1>3. ASSUME NEW h \in Guards, Trust(h) PROVE OwnersWord(g)
  <2>1. PICK mac \in Mac : /\ mem' = [mem EXCEPT ![h] = TrustedBy(@, mac)]
                           /\ owner' = [pc |-> "opened", guard |-> h, mac |-> mac]
                           /\ UNCHANGED life
    BY <1>3 DEF Trust
  <2>2. owner'.mac = mac
    BY <2>1
  <2>3. mem'[g] = mem[g] \/ mem'[g] = TrustedBy(mem[g], mac)
    BY <1>0, <2>1
  <2>4. QED
    BY <1>0, <2>1, <2>2, <2>3, TrustedFacts DEF OwnersWord
<1>4. CASE UNCHANGED mem /\ \A h \in Guards : life[h] = "absent" => life'[h] = "absent"
  BY <1>4 DEF OwnersWord
<1>5. ASSUME NEW h \in Guards, Stop(h) PROVE OwnersWord(g)
  BY <1>0, <1>4, <1>5 DEF Stop
<1>6. ASSUME NEW h \in Guards, Look(h) \/ SaveOpen(h) \/ SaveWrite(h) \/ SaveRename(h) \/ Log(h)
      PROVE  OwnersWord(g)
  BY <1>4, <1>6 DEF Look, SaveOpen, SaveWrite, SaveRename, Log
<1>7. CASE TrustWrite \/ TrustRename \/ UNCHANGED vars
  BY <1>4, <1>7 DEF TrustWrite, TrustRename, vars
<1>8. ASSUME NEW dying \in SUBSET Guards, Crash(dying) PROVE OwnersWord(g)
  <2>1. CASE g \in dying
    BY <1>8, <2>1 DEF Crash, OwnersWord
  <2>2. CASE g \notin dying
    BY <1>8, <2>2 DEF Crash, OwnersWord
  <2>3. QED
    BY <2>1, <2>2
<1>9. QED
  BY <1>1, <1>2, <1>3, <1>5, <1>6, <1>7, <1>8 DEF Next, Sweep, Terminated

\* Once there is a baseline, devices become trusted by the owner's word only, however
\* many Guards there are, and a Guard that begins does not learn again until they overlap.
THEOREM OwnerTrusts == Spec => OnlyTheOwnerTrusts
<1>1. Main /\ [Next]_vars => \A g \in Guards : OwnersWord(g)
  BY TrustStep
<1>2. (\A g \in Guards : OwnersWord(g)) =>
        \A g \in Guards :
          /\ ~mem[g].learning /\ life'[g] = life[g] =>
               /\ ~mem'[g].learning
               /\ mem'[g].devices \subseteq mem[g].devices \cup {owner'.mac}
          /\ life[g] = "absent" /\ life'[g] = "running" /\ logged[[kind |-> "baseline"]] > 0
             /\ overlaps' = 0 => ~mem'[g].learning
  BY DEF OwnersWord, Baseline
<1>3. QED
  BY <1>1, <1>2, GuardInvariant, PTL DEF Spec, OnlyTheOwnerTrusts

-----------------------------------------------------------------------------
(***************************************************************************)
(* The tripwire, the notices and the log of alerts (AlertLog).             *)
(***************************************************************************)
(* The inductive invariant.                                                *)

Contacts == [src : Source, round : 1 .. Cardinality(Conn), count : 1 .. Cardinality(Conn)]
Notices == [notice : {"sweep_empty", "sweep_failed"}]

\* The types of what AlertTypeOK only speaks of where it is used.
JobsHold ==
  /\ job \in [Thread -> {NoJob} \cup [pc : {"add", "file", "rotate", "append"}, about : About, id : Nat]]
  /\ hits \in [Source -> [round : Nat \ {0}, count : Nat]]
  /\ seq \in Nat /\ log \in Seq([id : Nat, about : About])

Served == {c \in Conn : conn[c] = "served"}
Past == {c \in Conn : conn[c] = "gone"}

\* Every contact that was counted, and every record but the first, is a
\* connection that is gone.
CountsHold ==
  \A s \in Source : /\ hits[s].round + hits[s].count <= 1 + Cardinality(Past)
                    /\ hits[s].count = 0 => hits[s].round = 1

\* The counts of a source have come this far, or the notice is remembered.
Behind(a) == \/ a.round < hits[a.src].round
             \/ a.round = hits[a.src].round /\ a.count <= hits[a.src].count
Remembered(a) ==
  /\ a \in Contacts => Behind(a)
  /\ a \in Notices => a \in notices

Raised(t, a) == job[t].pc = "add" /\ job[t].about = a

\* What is on its way into the log is counted or remembered already, is not in
\* the log, and is on its way once.
NewsHold ==
  /\ \A a \in told : Remembered(a)
  /\ \A t \in Thread, a \in About : Raised(t, a) => Remembered(a) /\ a \notin told
  /\ \A t, u \in Thread, a \in About : Raised(t, a) /\ Raised(u, a) => t = u

AInv == AlertTypeOK /\ SlotsComeBack /\ JobsHold /\ CountsHold /\ NewsHold

\* The ids of the log follow one another up to the newest; the page has shown
\* none of a later time, and asks for what follows the last one it saw.
PageHolds ==
  /\ Len(log) <= seq /\ \A i \in 1 .. Len(log) : log[i].id = seq - Len(log) + i
  /\ page \in [after : Nat, shown : Seq(Nat), breaks : Nat]
  /\ \A i \in 1 .. Len(page.shown) : page.shown[i] \in 1 .. seq
  /\ page.after = LastOf(page.shown)
  /\ PageMissesNothing

-----------------------------------------------------------------------------
(* Lemmas.                                                                 *)

\* A contact is no notice.
LEMMA KindsDiffer == Contacts \cap Notices = {}
<1> SUFFICES ASSUME NEW a \in Contacts, NEW b \in Notices, a = b PROVE FALSE
  OBVIOUS
<1>1. DOMAIN a = {"src", "round", "count"} /\ DOMAIN b = {"notice"}
  BY DEF Contacts, Notices
<1>2. "src" \in DOMAIN a /\ "src" \notin DOMAIN b
  BY <1>1
<1>3. QED
  BY <1>2

\* What an alert can be about.
LEMMA AboutKinds == About = Contacts \cup Notices
BY DEF About, Contacts, Notices

\* The connections that are served, and those that are gone, can be counted.
LEMMA CountFacts ==
  /\ IsFiniteSet(Served) /\ Cardinality(Served) \in Nat
  /\ IsFiniteSet(Past) /\ Cardinality(Past) \in Nat
  /\ Cardinality(Conn) \in Nat
  /\ \A c \in Conn : /\ Cardinality(Served \cup {c}) =
                          IF c \in Served THEN Cardinality(Served) ELSE Cardinality(Served) + 1
                     /\ Cardinality(Served \ {c}) =
                          IF c \in Served THEN Cardinality(Served) - 1 ELSE Cardinality(Served)
                     /\ Cardinality(Past \cup {c}) =
                          IF c \in Past THEN Cardinality(Past) ELSE Cardinality(Past) + 1
                     /\ Cardinality(Past \cup {c}) <= Cardinality(Conn)
<1>1. IsFiniteSet(Conn)
  BY AlertAssumption
<1>2. Served \in SUBSET Conn /\ Past \in SUBSET Conn /\ \A c \in Conn : Past \cup {c} \in SUBSET Conn
  BY DEF Served, Past
<1>3. IsFiniteSet(Served) /\ IsFiniteSet(Past)
  BY <1>1, <1>2, FS_Subset
<1>4. \A c \in Conn : Cardinality(Past \cup {c}) <= Cardinality(Conn)
  BY <1>1, <1>2, FS_Subset
<1>5. QED
  BY <1>1, <1>3, <1>4, FS_CardinalityType, FS_AddElement, FS_RemoveElement

\* At the start nothing is told and no slot is taken.
LEMMA InitInv == AlertInit => AInv
<1> SUFFICES ASSUME AlertInit PROVE AInv
  OBVIOUS
<1>1. \A s \in Source : \E c \in Conn : s = SourceOf[c]
  BY DEF Source
<1>2. \A s \in Source : 1 \in 1 .. Cardinality(Conn) /\ 0 \in 0 .. Cardinality(Conn)
  <2> SUFFICES ASSUME NEW c \in Conn PROVE 1 <= Cardinality(Conn)
    BY <1>1, CountFacts
  <2>1. QED
    BY AlertAssumption, FS_EmptySet, CountFacts
<1>3. Served = {} /\ Past = {}
  BY DEF AlertInit, Served, Past
<1>4. AlertTypeOK
  <2>1. hits \in [Source -> [round : 1 .. Cardinality(Conn), count : 0 .. Cardinality(Conn)]]
    BY <1>2 DEF AlertInit
  <2>2. Len(log) <= Limit
    BY AlertAssumption DEF AlertInit
  <2>3. QED
    BY <2>1, <2>2 DEF AlertInit, AlertTypeOK
<1>5. SlotsComeBack
  <2>1. SlotsComeBack <=> slots = MaxClients - Cardinality(Served)
    BY DEF SlotsComeBack, Served
  <2>2. slots = MaxClients /\ Cardinality(Served) = 0 /\ MaxClients \in Nat
    BY <1>3, FS_EmptySet, AlertAssumption DEF AlertInit
  <2>3. QED
    BY <2>1, <2>2
<1>6. JobsHold
  BY DEF AlertInit, JobsHold, NoJob
<1>7. CountsHold
  BY <1>3, FS_EmptySet DEF AlertInit, CountsHold
<1>8. NewsHold
  BY DEF AlertInit, NewsHold, NoJob, Raised
<1>9. QED
  BY <1>4, <1>5, <1>6, <1>7, <1>8 DEF AInv

-----------------------------------------------------------------------------
(* The steps.                                                              *)

\* A job that is on its way is about something.
LEMMA JobFacts ==
  ASSUME JobsHold, NEW t \in Thread
  PROVE  /\ job[t] # NoJob => job[t].about \in About
         /\ job[t].pc = "add" => job[t].about \in About
         /\ NoJob.pc = "none"
<1>1. job[t] \in {NoJob} \cup [pc : {"add", "file", "rotate", "append"}, about : About, id : Nat]
  BY DEF JobsHold
<1>2. NoJob.pc = "none"
  BY DEF NoJob
<1>3. CASE job[t] = NoJob
  BY <1>2, <1>3 DEF Raised
<1>4. CASE job[t] # NoJob
  BY <1>1, <1>2, <1>4
<1>5. QED
  BY <1>3, <1>4, <1>2

\* Steps that raise nothing and count nothing keep what is known.
LEMMA NoNews ==
  ASSUME AInv, UNCHANGED <<hits, notices, told>>,
         \A t \in Thread, a \in About : Raised(t, a)' => Raised(t, a)
  PROVE  NewsHold'
<1>1. \A a : Remembered(a)' <=> Remembered(a)
  BY DEF Remembered, Behind
<1>2. QED
  BY <1>1 DEF AInv, NewsHold

\* A step that raises nothing leaves the jobs and the news as they were.
LEMMA NothingRaised ==
  ASSUME AInv, UNCHANGED <<hits, notices, told, job, log, seq>>
  PROVE  JobsHold' /\ NewsHold'
<1>1. \A t \in Thread, a \in About : Raised(t, a)' => Raised(t, a)
  BY DEF Raised
<1>2. NewsHold'
  BY <1>1, NoNews
<1>3. JobsHold'
  BY DEF AInv, JobsHold
<1>4. QED
  BY <1>2, <1>3

\* The types, once the values of the step are known.
LEMMA TypeStep ==
  ASSUME AInv, JobsHold', UNCHANGED running,
         conn' \in [Conn -> {"away", "served", "hit", "gone"}],
         hits' \in [Source -> [round : 1 .. Cardinality(Conn), count : 0 .. Cardinality(Conn)]],
         Len(log') <= Limit, told' \subseteq About
  PROVE  AlertTypeOK'
<1>1. \A t \in Thread : job'[t] # NoJob => job'[t].about \in About
  <2>1. \A t \in Thread : job'[t] \in {NoJob} \cup [pc : {"add", "file", "rotate", "append"}, about : About, id : Nat]
    BY DEF JobsHold
  <2>2. QED
    BY <2>1
<1>2. QED
  BY <1>1 DEF AInv, AlertTypeOK

\* A connection takes a slot, or is turned away.
LEMMA AcceptInv == ASSUME AInv, NEW c \in Conn, Accept(c) PROVE AInv'
<1>1. UNCHANGED <<running, hits, notices, told, job, log, seq>> /\ conn[c] = "away"
  BY DEF Accept, watch, store
<1>2. JobsHold' /\ NewsHold'
  BY <1>1, NothingRaised
<1>3. SlotsComeBack <=> slots = MaxClients - Cardinality(Served)
  BY DEF SlotsComeBack, Served
<1>4. (SlotsComeBack <=> slots = MaxClients - Cardinality(Served))'
  BY DEF SlotsComeBack, Served
<1>5. conn \in [Conn -> {"away", "served", "hit", "gone"}] /\ MaxClients \in Nat
  BY AlertAssumption DEF AInv, AlertTypeOK
<1>6. CASE conn' = [conn EXCEPT ![c] = "served"] /\ slots' = slots - 1
  <2>1. Served' = Served \cup {c} /\ c \notin Served /\ Past' = Past
    BY <1>1, <1>5, <1>6 DEF Served, Past
  <2>2. SlotsComeBack'
    <3>1. Cardinality(Served') = Cardinality(Served) + 1 /\ Cardinality(Served) \in Nat
      BY <2>1, CountFacts
    <3>2. slots = MaxClients - Cardinality(Served)
      BY <1>3 DEF AInv
    <3>3. slots' = MaxClients - Cardinality(Served')
      BY <1>5, <1>6, <3>1, <3>2
    <3>4. QED
      BY <1>4, <3>3
  <2>3. CountsHold'
    BY <1>1, <2>1 DEF AInv, CountsHold
  <2>4. conn' \in [Conn -> {"away", "served", "hit", "gone"}]
    BY <1>5, <1>6
  <2>5. AlertTypeOK'
    BY <1>1, <1>2, <2>4, TypeStep DEF AInv, AlertTypeOK
  <2>6. QED
    BY <1>2, <2>2, <2>3, <2>5 DEF AInv
<1>7. CASE conn' = [conn EXCEPT ![c] = "gone"] /\ UNCHANGED slots
  <2>1. Served' = Served /\ Past' = Past \cup {c} /\ c \notin Past
    BY <1>1, <1>5, <1>7 DEF Served, Past
  <2>2. SlotsComeBack'
    BY <1>3, <1>4, <1>7, <2>1 DEF AInv
  <2>3. CountsHold'
    <3>1. Cardinality(Past') = Cardinality(Past) + 1 /\ Cardinality(Past) \in Nat
      BY <2>1, CountFacts
    <3>2. \A s \in Source : hits[s].round \in Nat /\ hits[s].count \in Nat
      BY DEF AInv, JobsHold
    <3>3. QED
      BY <1>1, <3>1, <3>2 DEF AInv, CountsHold
  <2>4. conn' \in [Conn -> {"away", "served", "hit", "gone"}]
    BY <1>5, <1>7
  <2>5. AlertTypeOK'
    BY <1>1, <1>2, <2>4, TypeStep DEF AInv, AlertTypeOK
  <2>6. QED
    BY <1>2, <2>2, <2>3, <2>5 DEF AInv
<1>8. QED
  BY <1>6, <1>7 DEF Accept

\* The slot is given back before the contact is counted.
LEMMA ServeInv == ASSUME AInv, NEW c \in Conn, Serve(c) PROVE AInv'
<1>1. /\ UNCHANGED <<running, hits, notices, told, job, log, seq>> /\ conn[c] = "served"
      /\ conn' = [conn EXCEPT ![c] = "hit"] /\ slots' = slots + 1
  BY DEF Serve, watch, store
<1>2. JobsHold' /\ NewsHold'
  BY <1>1, NothingRaised
<1>3. SlotsComeBack <=> slots = MaxClients - Cardinality(Served)
  BY DEF SlotsComeBack, Served
<1>4. (SlotsComeBack <=> slots = MaxClients - Cardinality(Served))'
  BY DEF SlotsComeBack, Served
<1>5. conn \in [Conn -> {"away", "served", "hit", "gone"}] /\ MaxClients \in Nat
  BY AlertAssumption DEF AInv, AlertTypeOK
<1>6. Served' = Served \ {c} /\ c \in Served /\ Past' = Past
  BY <1>1, <1>5 DEF Served, Past
<1>7. SlotsComeBack'
  <2>1. Cardinality(Served') = Cardinality(Served) - 1 /\ Cardinality(Served) \in Nat
    BY <1>6, CountFacts
  <2>2. slots = MaxClients - Cardinality(Served)
    BY <1>3 DEF AInv
  <2>3. slots' = MaxClients - Cardinality(Served')
    BY <1>1, <1>5, <2>1, <2>2
  <2>4. QED
    BY <1>4, <2>3
<1>8. CountsHold'
  BY <1>1, <1>6 DEF AInv, CountsHold
<1>9. conn' \in [Conn -> {"away", "served", "hit", "gone"}]
  BY <1>1, <1>5
<1>10. AlertTypeOK'
  BY <1>1, <1>2, <1>9, TypeStep DEF AInv, AlertTypeOK
<1>11. QED
  BY <1>2, <1>7, <1>8, <1>10 DEF AInv
\* What of the steps below do not touch the connections.
LEMMA NobodyMoves ==
  ASSUME AInv, UNCHANGED <<conn, slots>>
  PROVE  /\ SlotsComeBack' /\ Past' = Past
         /\ conn' \in [Conn -> {"away", "served", "hit", "gone"}]
  BY DEF AInv, SlotsComeBack, Past, AlertTypeOK

\* A contact is counted: the counts stay within the connections that came.
LEMMA HitCounts ==
  ASSUME AInv, NEW c \in Conn, Hit(c)
  PROVE  /\ SlotsComeBack' /\ CountsHold' /\ Cardinality(Past') <= Cardinality(Conn)
         /\ Past' = Past \cup {c} /\ Cardinality(Past') = Cardinality(Past) + 1
         /\ conn' \in [Conn -> {"away", "served", "hit", "gone"}]
<1>1. conn[c] = "hit" /\ conn' = [conn EXCEPT ![c] = "gone"] /\ slots' = slots
  BY DEF Hit
<1>2. conn \in [Conn -> {"away", "served", "hit", "gone"}]
  BY DEF AInv, AlertTypeOK
<1>3. {d \in Conn : conn[d] = "served"}' = {d \in Conn : conn[d] = "served"}
  BY <1>1, <1>2
<1>4. SlotsComeBack'
  BY <1>1, <1>3 DEF AInv, SlotsComeBack
<1>5. Past' = Past \cup {c} /\ c \notin Past
  BY <1>1, <1>2 DEF Past
<1>6. Cardinality(Past') = Cardinality(Past) + 1 /\ Cardinality(Past') <= Cardinality(Conn)
      /\ Cardinality(Past) \in Nat
  BY <1>5, CountFacts
<1>7. CountsHold'
  <2> SUFFICES ASSUME NEW s \in Source
               PROVE  /\ hits'[s].round + hits'[s].count <= 1 + Cardinality(Past')
                      /\ hits'[s].count = 0 => hits'[s].round = 1
    BY DEF CountsHold
  <2>1. /\ hits[s].round \in Nat /\ hits[s].count \in Nat
        /\ hits[s].round + hits[s].count <= 1 + Cardinality(Past)
        /\ hits[s].count = 0 => hits[s].round = 1
    BY DEF AInv, JobsHold, CountsHold
  <2>2. CASE hits'[s] = hits[s]
    BY <1>6, <2>1, <2>2
  <2>3. CASE hits'[s] # hits[s]
    <3>1. \E idle \in {FALSE} \cup {hits[s].count > 0} :
            hits'[s] = [round |-> IF idle THEN hits[s].round + 1 ELSE hits[s].round,
                        count |-> IF idle THEN 1 ELSE hits[s].count + 1]
      BY <2>3 DEF Hit, NextCount, AInv, JobsHold
    <3>2. CASE hits'[s] = [round |-> hits[s].round + 1, count |-> 1] /\ hits[s].count > 0
      BY <1>6, <2>1, <3>2
    <3>3. CASE hits'[s] = [round |-> hits[s].round, count |-> hits[s].count + 1]
      BY <1>6, <2>1, <3>3
    <3>4. QED
      BY <3>1, <3>2, <3>3
  <2>4. QED
    BY <2>2, <2>3
<1>8. conn' \in [Conn -> {"away", "served", "hit", "gone"}]
  BY <1>1, <1>2
<1>9. QED
  BY <1>4, <1>5, <1>6, <1>7, <1>8

\* What an alert about a contact is, when there is one.
LEMMA HitRaises ==
  ASSUME AInv, NEW c \in Conn, Hit(c)
  PROVE  \/ UNCHANGED <<hits, job>>
         \/ \E s \in Source, r \in 1 .. Cardinality(Conn), n \in 1 .. Cardinality(Conn) :
              /\ hits' = [hits EXCEPT ![s] = [round |-> r, count |-> n]]
              /\ \/ r = hits[s].round /\ n = hits[s].count + 1
                 \/ r = hits[s].round + 1 /\ n = 1
              /\ \/ job' = job
                 \/ job' = [job EXCEPT ![c] =
                              [pc |-> "add", id |-> 0, about |-> [src |-> s, round |-> r, count |-> n]]]
<1> SUFFICES ASSUME ~ UNCHANGED <<hits, job>>
             PROVE  \E s \in Source, r \in 1 .. Cardinality(Conn), n \in 1 .. Cardinality(Conn) :
              /\ hits' = [hits EXCEPT ![s] = [round |-> r, count |-> n]]
              /\ \/ r = hits[s].round /\ n = hits[s].count + 1
                 \/ r = hits[s].round + 1 /\ n = 1
              /\ \/ job' = job
                 \/ job' = [job EXCEPT ![c] =
                              [pc |-> "add", id |-> 0, about |-> [src |-> s, round |-> r, count |-> n]]]
  OBVIOUS
<1> DEFINE s == SourceOf[c]
<1>1. s \in Source
  BY DEF Source
<1>2. PICK idle \in {FALSE} \cup {hits[s].count > 0} :
        LET round == IF idle THEN hits[s].round + 1 ELSE hits[s].round
            n == IF idle THEN 1 ELSE NextCount(hits[s].count)
            alert == [src |-> s, round |-> round, count |-> n]
        IN  /\ hits' = [hits EXCEPT ![s] = [round |-> round, count |-> n]]
            /\ job' = IF n \notin Loud THEN job
                      ELSE [job EXCEPT ![c] = [pc |-> "add", id |-> 0, about |-> alert]]
  BY DEF Hit
<1> DEFINE r == IF idle THEN hits[s].round + 1 ELSE hits[s].round
           n == IF idle THEN 1 ELSE hits[s].count + 1
<1>3. /\ hits' = [hits EXCEPT ![s] = [round |-> r, count |-> n]]
      /\ \/ job' = job
         \/ job' = [job EXCEPT ![c] =
                      [pc |-> "add", id |-> 0, about |-> [src |-> s, round |-> r, count |-> n]]]
  BY <1>2 DEF NextCount
<1>4. /\ hits[s].round \in Nat \ {0} /\ hits[s].count \in Nat
      /\ hits[s].round + hits[s].count <= 1 + Cardinality(Past)
      /\ hits[s].count = 0 => hits[s].round = 1
  BY <1>1 DEF AInv, JobsHold, CountsHold
<1>5. Cardinality(Past) + 1 <= Cardinality(Conn) /\ Cardinality(Past) \in Nat /\ Cardinality(Conn) \in Nat
  BY HitCounts, CountFacts
<1>6. /\ r \in 1 .. Cardinality(Conn) /\ n \in 1 .. Cardinality(Conn)
      /\ \/ r = hits[s].round /\ n = hits[s].count + 1
         \/ r = hits[s].round + 1 /\ n = 1
  <2>1. CASE idle
    <3>1. hits[s].count > 0
      BY <2>1
    <3>2. QED
      BY <1>4, <1>5, <2>1, <3>1
  <2>2. CASE ~idle
    BY <1>4, <1>5, <2>2
  <2>3. QED
    BY <2>1, <2>2
<1> HIDE DEF r, n, s
<1>7. QED
  BY <1>1, <1>3, <1>6
\* An alert that is not known yet is news wherever it meets the others.
LEMMA NewsRaised ==
  ASSUME AInv, NEW t \in Thread, NEW a \in About,
         job' = [job EXCEPT ![t] = [pc |-> "add", id |-> 0, about |-> a]],
         hits' \in [Source -> [round : Nat \ {0}, count : Nat]],
         UNCHANGED <<told, log, seq>>,
         ~Remembered(a), Remembered(a)', \A b \in About : Remembered(b) => Remembered(b)'
  PROVE  JobsHold' /\ NewsHold'
<1>1. JobsHold'
  <2>1. [pc |-> "add", id |-> 0, about |-> a] \in [pc : {"add", "file", "rotate", "append"}, about : About, id : Nat]
    OBVIOUS
  <2>2. QED
    BY <2>1 DEF AInv, JobsHold
<1>2. \A b \in About : Raised(t, b)' => b = a
  BY DEF AInv, JobsHold, Raised
<1>3. \A u \in Thread, b \in About : u # t /\ Raised(u, b)' => Raised(u, b) /\ b # a
  BY DEF AInv, JobsHold, NewsHold, Raised
<1>4. told \subseteq About /\ a \notin told
  BY DEF AInv, AlertTypeOK, NewsHold
<1>5. \A b \in told' : Remembered(b)'
  BY <1>4 DEF AInv, NewsHold
<1>6. \A u \in Thread, b \in About : Raised(u, b)' => Remembered(b)' /\ b \notin told'
  BY <1>2, <1>3, <1>4 DEF AInv, NewsHold
<1>7. \A u, v \in Thread, b \in About : Raised(u, b)' /\ Raised(v, b)' => u = v
  <2> SUFFICES ASSUME NEW u \in Thread, NEW v \in Thread, NEW b \in About,
                      Raised(u, b)', Raised(v, b)', u # v
               PROVE  FALSE
    OBVIOUS
  <2>1. CASE u = t \/ v = t
    BY <1>2, <1>3, <2>1
  <2>2. CASE u # t /\ v # t
    BY <1>3, <2>2 DEF AInv, NewsHold
  <2>3. QED
    BY <2>1, <2>2
<1>8. NewsHold'
  BY <1>5, <1>6, <1>7 DEF NewsHold
<1>9. QED
  BY <1>1, <1>8

\* The counts of a source only go on, so that a contact stays behind them.
LEMMA HitInv == ASSUME AInv, NEW c \in Conn, Hit(c) PROVE AInv'
<1>1. UNCHANGED <<running, slots, notices, told, log, seq>>
  BY DEF Hit, watch, store
<1>2. /\ SlotsComeBack' /\ CountsHold'
      /\ conn' \in [Conn -> {"away", "served", "hit", "gone"}]
  BY HitCounts
<1>3. CASE UNCHANGED <<hits, job>>
  <2>1. JobsHold' /\ NewsHold'
    BY <1>1, <1>3, NothingRaised
  <2>2. AlertTypeOK'
    BY <1>1, <1>2, <1>3, <2>1, TypeStep DEF AInv, AlertTypeOK
  <2>3. QED
    BY <1>2, <2>1, <2>2 DEF AInv
<1>4. CASE \E s \in Source, r \in 1 .. Cardinality(Conn), n \in 1 .. Cardinality(Conn) :
              /\ hits' = [hits EXCEPT ![s] = [round |-> r, count |-> n]]
              /\ \/ r = hits[s].round /\ n = hits[s].count + 1
                 \/ r = hits[s].round + 1 /\ n = 1
              /\ \/ job' = job
                 \/ job' = [job EXCEPT ![c] =
                              [pc |-> "add", id |-> 0, about |-> [src |-> s, round |-> r, count |-> n]]]
  <2>1. PICK s \in Source, r \in 1 .. Cardinality(Conn), n \in 1 .. Cardinality(Conn) :
              /\ hits' = [hits EXCEPT ![s] = [round |-> r, count |-> n]]
              /\ \/ r = hits[s].round /\ n = hits[s].count + 1
                 \/ r = hits[s].round + 1 /\ n = 1
              /\ \/ job' = job
                 \/ job' = [job EXCEPT ![c] =
                              [pc |-> "add", id |-> 0, about |-> [src |-> s, round |-> r, count |-> n]]]
    BY <1>4
  <2>2. PICK a : a = [src |-> s, round |-> r, count |-> n]
    OBVIOUS
  <2>3. a \in Contacts /\ a.src = s /\ a.round = r /\ a.count = n
    BY <2>2 DEF Contacts
  <2>4. a \in About /\ a \notin Notices
    BY <2>3, AboutKinds, KindsDiffer
  <2>5. /\ hits \in [Source -> [round : 1 .. Cardinality(Conn), count : 0 .. Cardinality(Conn)]]
        /\ Cardinality(Conn) \in Nat
    BY CountFacts DEF AInv, AlertTypeOK
  <2>6. [round |-> r, count |-> n] \in [round : 1 .. Cardinality(Conn), count : 0 .. Cardinality(Conn)]
    BY <2>5
  <2>7. /\ hits' \in [Source -> [round : 1 .. Cardinality(Conn), count : 0 .. Cardinality(Conn)]]
        /\ hits'[s].round = r /\ hits'[s].count = n
        /\ \A x \in Source : x # s => hits'[x] = hits[x]
    BY <2>1, <2>5, <2>6
  <2>8. hits' \in [Source -> [round : Nat \ {0}, count : Nat]]
    BY <2>5, <2>7
  <2>9. hits[s].round \in Nat /\ hits[s].count \in Nat /\ r \in Nat /\ n \in Nat
    BY <2>5
  <2>10. ~Remembered(a) /\ Remembered(a)'
    BY <2>1, <2>3, <2>4, <2>7, <2>9 DEF Remembered, Behind
  <2>11. \A b \in About : Remembered(b) => Remembered(b)'
    <3> SUFFICES ASSUME NEW b \in About, Remembered(b) PROVE Remembered(b)'
      OBVIOUS
    <3>1. CASE b \in Notices
      BY <1>1, <3>1, KindsDiffer DEF Remembered
    <3>2. CASE b \in Contacts
      <4>1. b.src \in Source /\ b.round \in Nat /\ b.count \in Nat /\ Behind(b) /\ b \notin Notices
        BY <2>5, <3>2, KindsDiffer DEF Contacts, Remembered
      <4>2. CASE b.src # s
        BY <2>7, <4>1, <4>2 DEF Remembered, Behind
      <4>3. CASE b.src = s
        BY <2>1, <2>7, <2>9, <4>1, <4>3 DEF Remembered, Behind
      <4>4. QED
        BY <4>2, <4>3
    <3>3. QED
      BY <3>1, <3>2, AboutKinds
  <2>12. CASE job' = job
    <3>1. JobsHold'
      BY <1>1, <2>8, <2>12 DEF AInv, JobsHold
    <3>2. told \subseteq About
      BY DEF AInv, AlertTypeOK
    <3>3. \A b \in told' : Remembered(b)'
      BY <1>1, <2>11, <3>2 DEF AInv, NewsHold
    <3>4. \A t \in Thread, b \in About : Raised(t, b)' <=> Raised(t, b)
      BY <2>12 DEF Raised
    <3>6. NewsHold'
      BY <1>1, <2>11, <3>3, <3>4 DEF AInv, NewsHold
    <3>7. AlertTypeOK'
      BY <1>1, <1>2, <2>7, <3>1, TypeStep DEF AInv, AlertTypeOK
    <3>8. QED
      BY <1>2, <3>1, <3>6, <3>7 DEF AInv
  <2>13. CASE job' = [job EXCEPT ![c] = [pc |-> "add", id |-> 0, about |-> a]]
    <3>1. c \in Thread
      BY DEF Thread
    <3>2. JobsHold' /\ NewsHold'
      BY <1>1, <2>4, <2>8, <2>10, <2>11, <2>13, <3>1, NewsRaised
    <3>3. AlertTypeOK'
      BY <1>1, <1>2, <2>7, <3>2, TypeStep DEF AInv, AlertTypeOK
    <3>4. QED
      BY <1>2, <3>2, <3>3 DEF AInv
  <2>14. QED
    BY <2>1, <2>2, <2>12, <2>13
<1>5. QED
  BY <1>3, <1>4, HitRaises
\* A notice is given when it is new, and remembered.
LEMMA NoticeInv ==
  ASSUME AInv, NEW code \in {"sweep_empty", "sweep_failed"}, Noticed(code),
         UNCHANGED <<wire, store>>
  PROVE  AInv'
<1>1. UNCHANGED <<running, conn, slots, hits, told, log, seq>>
  BY DEF wire, store
<1>2. /\ SlotsComeBack' /\ Past' = Past
      /\ conn' \in [Conn -> {"away", "served", "hit", "gone"}]
  BY <1>1, NobodyMoves
<1>3. CountsHold'
  BY <1>1, <1>2 DEF AInv, CountsHold
<1>4. JobsHold' /\ NewsHold'
  <2>1. CASE UNCHANGED <<notices, job>>
    BY <1>1, <2>1, NothingRaised
  <2>2. CASE ~ UNCHANGED <<notices, job>>
    <3>1. PICK a : a = [notice |-> code]
      OBVIOUS
    <3>2. a \in Notices /\ a \in About /\ a \notin Contacts
      BY <3>1, AboutKinds, KindsDiffer DEF Notices
    <3>3. /\ a \notin notices /\ notices' = notices \cup {a}
          /\ job' = [job EXCEPT ![Sweeper] = [pc |-> "add", id |-> 0, about |-> a]]
      BY <2>2, <3>1 DEF Noticed
    <3>4. ~Remembered(a) /\ Remembered(a)'
      BY <3>2, <3>3 DEF Remembered
    <3>5. \A b \in About : Remembered(b) => Remembered(b)'
      BY <1>1, <3>3 DEF Remembered, Behind
    <3>6. Sweeper \in Thread /\ hits' \in [Source -> [round : Nat \ {0}, count : Nat]]
      BY <1>1 DEF Thread, AInv, JobsHold
    <3>7. QED
      BY <1>1, <3>2, <3>3, <3>4, <3>5, <3>6, NewsRaised
  <2>3. QED
    BY <2>1, <2>2
<1>5. AlertTypeOK'
  BY <1>1, <1>2, <1>4, TypeStep DEF AInv, AlertTypeOK
<1>6. QED
  BY <1>2, <1>3, <1>4, <1>5 DEF AInv

\* An alert enters the log: it was news, and there is no other of its kind.
LEMMA AddInv == ASSUME AInv, NEW t \in Thread, Add(t) PROVE AInv' /\ job[t].about \notin told
<1>1. UNCHANGED <<running, conn, slots, hits, notices>> /\ job[t].pc = "add"
  BY DEF Add, wire, watch
<1>2. PICK a \in About : a = job[t].about
  BY <1>1, JobFacts DEF AInv
<1>3. /\ told' = told \cup {a} /\ seq' = seq + 1
      /\ job' = [job EXCEPT ![t].pc = "file", ![t].id = seq + 1]
  BY <1>2 DEF Add
<1>4. Raised(t, a) /\ Remembered(a) /\ a \notin told
  BY <1>1, <1>2 DEF Raised, AInv, NewsHold
<1>5. PICK all : all = Append(log, [id |-> seq + 1, about |-> a])
  OBVIOUS
<1>6. log' = SubSeq(all, IF Len(all) > Limit THEN Len(all) - Limit + 1 ELSE 1, Len(all))
  BY <1>2, <1>5 DEF Add
<1>7. log \in Seq([id : Nat, about : About]) /\ seq \in Nat /\ Limit \in Nat \ {0}
  BY AlertAssumption DEF AInv, JobsHold
<1>8. all \in Seq([id : Nat, about : About]) /\ Len(all) \in Nat
  <2>1. [id |-> seq + 1, about |-> a] \in [id : Nat, about : About]
    BY <1>7
  <2>2. QED
    BY <1>5, <1>7, <2>1, AppendFacts, LenProperties
<1>9. log' \in Seq([id : Nat, about : About]) /\ Len(log') <= Limit
  <2>1. PICK m : m = IF Len(all) > Limit THEN Len(all) - Limit + 1 ELSE 1
    OBVIOUS
  <2>2. m \in Nat \ {0} /\ Len(all) \in 0 .. Len(all) /\ Len(all) - m + 1 <= Limit
    BY <1>7, <1>8, <2>1
  <2>3. /\ SubSeq(all, m, Len(all)) \in Seq([id : Nat, about : About])
        /\ Len(SubSeq(all, m, Len(all))) = IF m <= Len(all) THEN Len(all) - m + 1 ELSE 0
    <3>1. PICK S : S = [id : Nat, about : About]
      OBVIOUS
    <3>2. /\ SubSeq(all, m, Len(all)) \in Seq(S)
          /\ Len(SubSeq(all, m, Len(all))) = IF m <= Len(all) THEN Len(all) - m + 1 ELSE 0
      <4>1. all \in Seq(S) /\ m \in Nat \ {0} /\ Len(all) \in 0 .. Len(all)
        BY <1>8, <2>2, <3>1
      <4>2. QED
        BY <4>1, SliceFacts, Zenon
    <3>3. QED
      BY <3>1, <3>2
  <2>4. QED
    BY <1>6, <1>7, <1>8, <2>1, <2>2, <2>3
<1>10. JobsHold'
  <2>1. job[t] \in [pc : {"add", "file", "rotate", "append"}, about : About, id : Nat]
    BY <1>1 DEF AInv, JobsHold, NoJob
  <2>2. [job[t] EXCEPT !.pc = "file", !.id = seq + 1] \in
          [pc : {"add", "file", "rotate", "append"}, about : About, id : Nat]
    <3>1. PICK n \in Nat : n = seq + 1
      BY <1>7
    <3>2. PICK j : j = job[t]
      OBVIOUS
    <3>3. j \in [pc : {"add", "file", "rotate", "append"}, about : About, id : Nat]
      BY <2>1, <3>2
    <3>4. [j EXCEPT !.pc = "file", !.id = n] \in
            [pc : {"add", "file", "rotate", "append"}, about : About, id : Nat]
      BY <3>3
    <3>5. QED
      BY <3>1, <3>2, <3>4
  <2>3. job' = [job EXCEPT ![t] = [job[t] EXCEPT !.pc = "file", !.id = seq + 1]]
    BY <1>3
  <2>4. QED
    BY <1>1, <1>3, <1>7, <1>9, <2>2, <2>3 DEF AInv, JobsHold
<1>11. NewsHold'
  <2>1. \A b \in About : Remembered(b)' <=> Remembered(b)
    BY <1>1 DEF Remembered, Behind
  <2>2. \A u \in Thread, b \in About : Raised(u, b)' => Raised(u, b) /\ u # t
    BY <1>3 DEF AInv, JobsHold, Raised
  <2>3. \A b \in told' : Remembered(b)'
    BY <1>3, <1>4, <2>1 DEF AInv, NewsHold, AlertTypeOK
  <2>4. \A u \in Thread, b \in About : Raised(u, b)' => Remembered(b)' /\ b \notin told'
    BY <1>3, <1>4, <2>1, <2>2 DEF AInv, NewsHold
  <2>5. QED
    BY <2>2, <2>3, <2>4 DEF AInv, NewsHold
<1>12. /\ SlotsComeBack' /\ Past' = Past
       /\ conn' \in [Conn -> {"away", "served", "hit", "gone"}]
  BY <1>1, NobodyMoves
<1>13. CountsHold'
  BY <1>1, <1>12 DEF AInv, CountsHold
<1>14. AlertTypeOK'
  BY <1>1, <1>3, <1>9, <1>10, <1>12, TypeStep DEF AInv, AlertTypeOK
<1>15. QED
  BY <1>2, <1>4, <1>10, <1>11, <1>12, <1>13, <1>14 DEF AInv

\* The way into the file changes nothing of this.
LEMMA FileInv ==
  ASSUME AInv, NEW t \in Thread, File(t) \/ Rotate(t) \/ FileAfresh(t)
  PROVE  AInv'
<1>1. UNCHANGED <<running, conn, slots, hits, notices, told, log, seq>>
  BY DEF File, Rotate, FileAfresh, wire, watch, store
<1>2. \/ job' = [job EXCEPT ![t] = NoJob]
      \/ job[t].pc \in {"file", "rotate"} /\ \E p \in {"rotate", "append"} : job' = [job EXCEPT ![t].pc = p]
  BY DEF File, Rotate, FileAfresh, AppendLine
<1>3. JobsHold' /\ \A u \in Thread, a \in About : Raised(u, a)' => Raised(u, a)
  <2>1. CASE job' = [job EXCEPT ![t] = NoJob]
    <3>1. JobsHold'
      BY <1>1, <2>1 DEF AInv, JobsHold
    <3>2. NoJob.pc = "none"
      BY DEF NoJob
    <3>3. QED
      BY <2>1, <3>1, <3>2 DEF Raised, AInv, JobsHold
  <2>2. ASSUME job[t].pc \in {"file", "rotate"}, NEW p \in {"rotate", "append"},
               job' = [job EXCEPT ![t].pc = p]
        PROVE  JobsHold' /\ \A u \in Thread, a \in About : Raised(u, a)' => Raised(u, a)
    <3>1. job[t] \in [pc : {"add", "file", "rotate", "append"}, about : About, id : Nat]
      BY <2>2 DEF AInv, JobsHold, NoJob
    <3>2. [job[t] EXCEPT !.pc = p] \in [pc : {"add", "file", "rotate", "append"}, about : About, id : Nat]
      BY <3>1
    <3>3. job' = [job EXCEPT ![t] = [job[t] EXCEPT !.pc = p]]
      BY <2>2
    <3>4. JobsHold'
      BY <1>1, <3>2, <3>3 DEF AInv, JobsHold
    <3>5. job'[t].pc = p /\ \A u \in Thread : u # t => job'[u] = job[u]
      BY <3>1, <3>3 DEF AInv, JobsHold
    <3>6. QED
      BY <3>4, <3>5 DEF Raised
  <2>3. QED
    BY <1>2, <2>1, <2>2
<1>4. NewsHold'
  BY <1>1, <1>3, NoNews
<1>5. /\ SlotsComeBack' /\ Past' = Past
      /\ conn' \in [Conn -> {"away", "served", "hit", "gone"}]
  BY <1>1, NobodyMoves
<1>6. CountsHold'
  BY <1>1, <1>5 DEF AInv, CountsHold
<1>7. AlertTypeOK'
  BY <1>1, <1>3, <1>5, TypeStep DEF AInv, AlertTypeOK
<1>8. QED
  BY <1>3, <1>4, <1>5, <1>6, <1>7 DEF AInv

\* Nor does what the page shows, a sweep that sees something, or the stop.
LEMMA QuietInv ==
  ASSUME AInv, running' \in BOOLEAN, UNCHANGED <<conn, slots, hits, notices, job, log, seq, told>>
  PROVE  AInv'
<1>1. JobsHold' /\ NewsHold'
  BY NothingRaised
<1>2. SlotsComeBack' /\ Past' = Past
  BY NobodyMoves
<1>3. CountsHold'
  BY <1>2 DEF AInv, CountsHold
<1>4. AlertTypeOK'
  BY DEF AInv, AlertTypeOK
<1>5. QED
  BY <1>1, <1>2, <1>3, <1>4 DEF AInv

-----------------------------------------------------------------------------
(* What the page has and what it is still to get.                          *)

\* What the page asks for is the end of the log: the ids follow one another, and
\* the first of them is higher than the last that the page saw.
LEMMA BatchFacts ==
  ASSUME AInv, PageHolds
  PROVE  \E base \in Nat :
           /\ page.after <= base /\ base + Len(Batch) = seq
           /\ Batch \in Seq(Nat)
           /\ \A j \in 1 .. Len(Batch) : Batch[j] = base + j
           /\ \A n \in Ids(log) : n > page.after => n > base
<1> DEFINE L == Len(log)
           ids == [i \in 1 .. L |-> log[i].id]
           had == {i \in 1 .. L : log[i].id <= page.after}
           h == IF page.after > seq - L THEN page.after - (seq - L) ELSE 0
<1>1. log \in Seq([id : Nat, about : About]) /\ L \in Nat /\ seq \in Nat /\ L <= seq
  BY LenProperties DEF AInv, JobsHold, PageHolds
<1>2. \A i \in 1 .. L : log[i].id = seq - L + i
  BY DEF PageHolds
<1>3. page.after \in Nat /\ page.after <= seq
  <2>1. page.shown \in Seq(Nat) /\ Len(page.shown) \in Nat
    BY LenProperties DEF PageHolds
  <2>2. CASE page.shown = <<>>
    BY <1>1, <2>2 DEF PageHolds, LastOf
  <2>3. CASE page.shown # <<>>
    <3>1. Len(page.shown) \in 1 .. Len(page.shown)
      BY <2>1, <2>3, EmptySeq
    <3>2. page.after = page.shown[Len(page.shown)]
      BY <2>3 DEF PageHolds, LastOf
    <3>3. page.after \in 1 .. seq
      BY <3>1, <3>2 DEF PageHolds
    <3>4. QED
      BY <1>1, <3>3
  <2>4. QED
    BY <2>2, <2>3
<1>4. h \in 0 .. L /\ had = 1 .. h
  BY <1>1, <1>2, <1>3
<1> HIDE DEF h, had
<1>5. Cardinality(had) = h
  <2>1. h \in Int /\ 1 \in Int /\ h >= 0
    BY <1>1, <1>4
  <2>2. Cardinality(1 .. h) = IF 1 > h THEN 0 ELSE h - 1 + 1
    BY <2>1, FS_Interval
  <2>3. Cardinality(1 .. h) = h
    BY <2>1, <2>2
  <2>4. QED
    BY <1>4, <2>3
<1>6. Batch = SubSeq(ids, h + 1, L)
  BY <1>5 DEF Batch, AlertsAfter, had
<1>7. ids \in Seq(Nat) /\ Len(ids) = L
  <2>1. \A i \in 1 .. L : ids[i] \in Nat
    BY <1>1, <1>2
  <2>2. QED
    BY <1>1, <2>1
<1> DEFINE base == seq - L + h
<1>8. Batch \in Seq(Nat) /\ Len(Batch) = L - h /\ \A j \in 1 .. L - h : Batch[j] = ids[h + j]
  <2>1. \A i \in h + 1 .. L : ids[i] \in Nat
    BY <1>1, <1>2, <1>4
  <2> HIDE DEF ids, L
  <2>2. /\ SubSeq(ids, h + 1, L) \in Seq(Nat)
        /\ Len(SubSeq(ids, h + 1, L)) = (IF h + 1 <= L THEN L - (h + 1) + 1 ELSE 0)
        /\ \A j \in 1 .. L - (h + 1) + 1 : SubSeq(ids, h + 1, L)[j] = ids[h + 1 + j - 1]
    BY <1>1, <1>4, <1>7, <2>1, SubSeqProperties
  <2>3. QED
    BY <1>1, <1>4, <1>6, <2>2
<1>9. base \in Nat /\ page.after <= base /\ base + Len(Batch) = seq
  BY <1>1, <1>3, <1>4, <1>8 DEF h
<1>10. \A j \in 1 .. Len(Batch) : Batch[j] = base + j
  <2> SUFFICES ASSUME NEW j \in 1 .. L - h PROVE Batch[j] = base + j
    BY <1>8
  <2>1. h + j \in 1 .. L /\ j \in Int
    BY <1>1, <1>4
  <2>2. Batch[j] = log[h + j].id
    BY <1>8, <2>1
  <2>3. Batch[j] = seq - L + (h + j)
    BY <1>2, <2>1, <2>2
  <2> HIDE DEF L
  <2>4. QED
    BY <1>1, <1>4, <2>1, <2>3
<1>11. \A n \in Ids(log) : n > page.after => n > base
  BY <1>1, <1>2, <1>3 DEF Ids, h
<1>12. QED
  BY <1>8, <1>9, <1>10, <1>11

\* The page has what it had and the first k of its batch: it goes on there.
LEMMA PageGrows ==
  ASSUME AInv, PageHolds, UNCHANGED <<log, seq, missed>>,
         NEW k \in 0 .. Len(Batch),
         page' \in [after : Nat, shown : Seq(Nat), breaks : Nat],
         page'.shown = page.shown \o SubSeq(Batch, 1, k),
         page'.after = LastOf(page'.shown)
  PROVE  PageHolds'
<1> DEFINE old == page.shown
           new == page'.shown
           n == Len(old)
           part == SubSeq(Batch, 1, k)
<1>1. PICK base \in Nat :
           /\ page.after <= base /\ base + Len(Batch) = seq
           /\ Batch \in Seq(Nat)
           /\ \A j \in 1 .. Len(Batch) : Batch[j] = base + j
           /\ \A i \in Ids(log) : i > page.after => i > base
  BY BatchFacts
<1>2. old \in Seq(Nat) /\ n \in Nat /\ seq \in Nat /\ Len(Batch) \in Nat /\ k \in Nat
  BY <1>1, LenProperties DEF PageHolds, AInv, JobsHold
<1>3. /\ part \in Seq(Nat) /\ Len(part) = k
      /\ \A j \in 1 .. k : part[j] = base + j
  <2>1. \A i \in 1 .. k : Batch[i] \in Nat
    BY <1>1, <1>2
  <2>2. /\ SubSeq(Batch, 1, k) \in Seq(Nat)
        /\ Len(SubSeq(Batch, 1, k)) = (IF 1 <= k THEN k - 1 + 1 ELSE 0)
        /\ \A j \in 1 .. k - 1 + 1 : SubSeq(Batch, 1, k)[j] = Batch[1 + j - 1]
    BY <1>1, <1>2, <2>1, SubSeqProperties
  <2>3. QED
    BY <1>1, <1>2, <2>2
<1>4. /\ new \in Seq(Nat) /\ Len(new) = n + k
      /\ \A i \in 1 .. n : new[i] = old[i]
      /\ \A i \in n + 1 .. n + k : new[i] = base + (i - n)
  <2>1. new = old \o part
    OBVIOUS
  <2> HIDE DEF new, old, part
  <2>2. /\ new \in Seq(Nat) /\ Len(new) = n + k
        /\ \A i \in 1 .. n + k : new[i] = IF i <= n THEN old[i] ELSE part[i - n]
    BY <1>2, <1>3, <2>1, ConcatProperties
  <2> HIDE DEF n
  <2>3. \A i \in 1 .. n : new[i] = old[i]
    BY <1>2, <2>2
  <2>4. ASSUME NEW i \in n + 1 .. n + k PROVE new[i] = base + (i - n)
    <3>1. i \in 1 .. n + k /\ ~(i <= n) /\ i - n \in 1 .. k
      BY <1>2
    <3>2. QED
      BY <1>3, <2>2, <3>1
  <2>5. QED
    BY <2>2, <2>3, <2>4
<1>5. \A i \in 1 .. n : old[i] \in 1 .. seq /\ old[i] <= page.after
  <2> SUFFICES ASSUME NEW i \in 1 .. n PROVE old[i] \in 1 .. seq /\ old[i] <= page.after
    OBVIOUS
  <2>1. old[i] \in 1 .. seq /\ old[n] \in 1 .. seq /\ old # <<>>
    BY <1>2, EmptySeq DEF PageHolds
  <2>2. page.after = old[n]
    BY <2>1 DEF PageHolds, LastOf
  <2>3. i < n => old[i] < old[n]
    BY <1>2 DEF PageHolds, PageMissesNothing
  <2>4. QED
    BY <1>2, <2>1, <2>2, <2>3
<1>6. page.after \in Nat /\ page'.after = IF k = 0 THEN page.after ELSE base + k
  <2>1. CASE k = 0
    <3>1. new = old
      BY <1>2, <1>4, <2>1, SeqEqual
    <3>2. QED
      BY <2>1, <3>1 DEF PageHolds
  <2>2. CASE k # 0
    <3>1. new # <<>> /\ new[n + k] = base + k
      <4>1. n + k \in n + 1 .. n + k /\ n + k # 0
        BY <1>2, <2>2
      <4>2. new # <<>>
        BY <1>4, <4>1, EmptySeq
      <4>3. new[n + k] = base + ((n + k) - n)
        BY <1>4, <4>1
      <4> HIDE DEF n, new
      <4>4. (n + k) - n = k
        BY <1>2
      <4>5. QED
        BY <4>2, <4>3, <4>4
    <3>2. QED
      BY <1>4, <2>2, <3>1 DEF LastOf, PageHolds
  <2>3. QED
    BY <2>1, <2>2
<1> HIDE DEF n, new, part
<1>7. \A i \in 1 .. Len(new) : new[i] \in 1 .. seq
  <2> SUFFICES ASSUME NEW i \in 1 .. n + k PROVE new[i] \in 1 .. seq
    BY <1>4
  <2>1. CASE i <= n
    <3>1. i \in 1 .. n
      BY <1>2, <2>1
    <3>2. QED
      BY <1>4, <1>5, <3>1
  <2>2. CASE ~(i <= n)
    <3>1. i \in n + 1 .. n + k /\ i - n \in 1 .. k
      BY <1>2, <2>2
    <3>2. new[i] = base + (i - n)
      BY <1>4, <3>1
    <3>3. QED
      BY <1>1, <1>2, <3>1, <3>2
  <2>3. QED
    BY <2>1, <2>2
<1> HIDE DEF old
<1>8. \A i, j \in 1 .. Len(new) : i < j => new[i] < new[j]
  <2> SUFFICES ASSUME NEW i \in 1 .. n + k, NEW j \in 1 .. n + k, i < j PROVE new[i] < new[j]
    BY <1>4
  <2>1. CASE j <= n
    <3>1. i \in 1 .. n /\ j \in 1 .. n
      BY <1>2, <2>1
    <3>2. old[i] < old[j]
      BY <2>1, <3>1 DEF PageHolds, PageMissesNothing, n, old
    <3>3. QED
      BY <1>4, <3>1, <3>2
  <2>2. CASE ~(j <= n) /\ i <= n
    <3>1. i \in 1 .. n /\ j \in n + 1 .. n + k
      BY <1>2, <2>2
    <3>2. new[i] \in Nat /\ new[i] <= page.after
      BY <1>2, <1>4, <1>5, <3>1
    <3>3. new[j] = base + (j - n) /\ j - n \in 1 .. k
      BY <1>2, <1>4, <3>1
    <3>4. page.after \in Nat /\ page.after <= base /\ base \in Nat
      BY <1>1, <1>6
    <3>5. QED
      BY <1>2, <3>2, <3>3, <3>4
  <2>3. CASE ~(i <= n)
    <3>1. i \in n + 1 .. n + k /\ j \in n + 1 .. n + k
      BY <1>2, <2>3
    <3>2. new[i] = base + (i - n) /\ new[j] = base + (j - n)
      BY <1>4, <3>1
    <3>3. i \in Int /\ j \in Int
      OBVIOUS
    <3>4. QED
      BY <1>1, <1>2, <3>2, <3>3
  <2>4. QED
    BY <2>1, <2>2, <2>3
<1>9. \A m \in 1 .. seq : m \in ToSet(new) \/ m \in missed \/ (m \in Ids(log) /\ m > page'.after)
  <2> SUFFICES ASSUME NEW m \in 1 .. seq,
                      m \in ToSet(old) \/ (m \in Ids(log) /\ m > page.after),
                      ~(m \in Ids(log) /\ m > page'.after)
               PROVE  m \in ToSet(new)
    BY DEF PageHolds, PageMissesNothing, old
  <2>0. DOMAIN new = 1 .. n + k /\ DOMAIN old = 1 .. n
    BY <1>2, <1>4, LenProperties DEF n
  <2>1. CASE m \in ToSet(old)
    <3>1. PICK i \in 1 .. n : m = old[i]
      BY <2>0, <2>1 DEF ToSet
    <3>2. i \in 1 .. n + k
      BY <1>2
    <3>3. m = new[i]
      BY <1>4, <3>1
    <3>4. QED
      BY <2>0, <3>2, <3>3 DEF ToSet
  <2>2. CASE m \in Ids(log) /\ m > page.after
    <3>1. k # 0 /\ m > base /\ m <= base + k
      BY <1>1, <1>2, <1>6, <2>2
    <3>2. n + (m - base) \in n + 1 .. n + k
      BY <1>2, <3>1
    <3>3. new[n + (m - base)] = m
      <4>1. new[n + (m - base)] = base + ((n + (m - base)) - n)
        BY <1>4, <3>2
      <4>2. QED
        BY <1>1, <1>2, <4>1
    <3>4. n + (m - base) \in 1 .. n + k
      BY <1>2, <3>2
    <3>5. QED
      BY <2>0, <3>3, <3>4 DEF ToSet
  <2>3. QED
    BY <2>1, <2>2
<1>10. Ids(log)' = Ids(log)
  BY DEF Ids
<1>11. PageMissesNothing'
  BY <1>8, <1>9, <1>10 DEF PageMissesNothing, new
<1>12. QED
  BY <1>7, <1>11 DEF PageHolds, new

\* A new alert pushes the oldest out: the page has it, or misses it.
LEMMA PageWaits == ASSUME AInv, PageHolds, NEW t \in Thread, Add(t) PROVE PageHolds'
<1> DEFINE all == Append(log, [id |-> seq + 1, about |-> job[t].about])
           m == IF Len(all) > Limit THEN Len(all) - Limit + 1 ELSE 1
           kept == SubSeq(all, m, Len(all))
           L == Len(log)
<1>1. /\ page' = page /\ seq' = seq + 1 /\ log' = kept
      /\ missed' = missed \cup (Ids(all) \ (Ids(kept) \cup ToSet(page.shown)))
  BY DEF Add
<1>2. /\ log \in Seq([id : Nat, about : About]) /\ L \in Nat /\ seq \in Nat /\ Limit \in Nat \ {0}
      /\ L <= seq /\ \A i \in 1 .. L : log[i].id = seq - L + i
  BY LenProperties, AlertAssumption DEF AInv, JobsHold, PageHolds
<1>3. job[t].about \in About
  BY JobFacts DEF AInv, Add
<1>4. /\ all \in Seq([id : Nat, about : About]) /\ Len(all) = L + 1
      /\ \A i \in 1 .. L + 1 : all[i].id = seq - L + i
  <2>0. [id |-> seq + 1, about |-> job[t].about] \in [id : Nat, about : About]
    BY <1>2, <1>3
  <2>1. PICK e \in [id : Nat, about : About] : e = [id |-> seq + 1, about |-> job[t].about]
    BY <2>0
  <2>2. /\ Append(log, e) \in Seq([id : Nat, about : About]) /\ Len(Append(log, e)) = L + 1
        /\ \A i \in 1 .. L : Append(log, e)[i] = log[i]
        /\ Append(log, e)[L + 1] = e
    BY <1>2, AppendProperties
  <2>3. all = Append(log, e) /\ e.id = seq + 1
    BY <2>1
  <2> HIDE DEF all
  <2>4. \A i \in 1 .. L + 1 : all[i].id = seq - L + i
    <3> SUFFICES ASSUME NEW i \in 1 .. L + 1 PROVE all[i].id = seq - L + i
      OBVIOUS
    <3>1. CASE i = L + 1
      BY <1>2, <2>2, <2>3, <3>1
    <3>2. CASE i # L + 1
      <4>1. i \in 1 .. L
        BY <1>2, <3>2
      <4>2. QED
        BY <1>2, <2>2, <2>3, <4>1
    <3>3. QED
      BY <3>1, <3>2
  <2>5. QED
    BY <2>2, <2>3, <2>4
<1>5. m \in 1 .. L + 1
  BY <1>2, <1>4
<1> HIDE DEF all, m
<1>6. /\ Len(kept) = L + 1 - m + 1
      /\ \A i \in 1 .. Len(kept) : kept[i].id = (seq + 1) - Len(kept) + i
  <2>1. PICK S : S = [id : Nat, about : About]
    OBVIOUS
  <2> HIDE DEF L
  <2>2. ASSUME NEW i \in m .. Len(all) PROVE all[i] \in S
    <3>1. i \in 1 .. Len(all) /\ all \in Seq(S)
      BY <1>2, <1>4, <1>5, <2>1
    <3>2. QED
      BY <3>1, ElementOfSeq
  <2>3. m \in Int /\ Len(all) \in Int /\ m <= Len(all)
    BY <1>2, <1>4, <1>5
  <2>4. /\ Len(kept) = (IF m <= Len(all) THEN Len(all) - m + 1 ELSE 0)
        /\ \A i \in 1 .. Len(all) - m + 1 : kept[i] = all[m + i - 1]
    BY <2>2, <2>3, SubSeqProperties
  <2> HIDE DEF kept
  <2>5. Len(kept) = L + 1 - m + 1
    BY <1>2, <1>4, <2>3, <2>4
  <2>6. ASSUME NEW i \in 1 .. Len(kept) PROVE kept[i].id = (seq + 1) - Len(kept) + i
    <3>1. i \in 1 .. Len(all) - m + 1 /\ m + i - 1 \in 1 .. L + 1
      BY <1>2, <1>4, <1>5, <2>3, <2>5
    <3>2. kept[i].id = seq - L + (m + i - 1)
      BY <1>4, <2>4, <3>1
    <3>3. QED
      BY <1>2, <1>5, <2>3, <2>5, <3>1, <3>2
  <2>7. QED
    BY <2>5, <2>6
<1> HIDE DEF kept
<1>7. \A i \in 1 .. Len(page.shown) : page.shown[i] \in 1 .. seq'
  BY <1>1, <1>2 DEF PageHolds
<1>8. PageMissesNothing'
  <2>1. \A i, j \in 1 .. Len(page'.shown) : i < j => page'.shown[i] < page'.shown[j]
    BY <1>1 DEF PageHolds, PageMissesNothing
  <2>2. ASSUME NEW n \in 1 .. seq + 1, n \in Ids(all), n > page.after
        PROVE  n \in ToSet(page.shown) \/ n \in missed' \/ (n \in Ids(kept) /\ n > page.after)
    BY <1>1, <2>2
  <2>3. \A n \in Ids(log) : n \in Ids(all)
    <3>1. \A i \in 1 .. L : log[i].id = all[i].id /\ i \in 1 .. Len(all)
      BY <1>2, <1>4
    <3>2. QED
      BY <3>1 DEF Ids
  <2>4. seq + 1 \in Ids(all) /\ seq + 1 > page.after
    <3>1. L + 1 \in 1 .. Len(all) /\ all[L + 1].id = seq + 1
      BY <1>2, <1>4
    <3>2. seq + 1 \in Ids(all)
      BY <3>1 DEF Ids
    <3>3. page.after <= seq
      <4>1. PICK base \in Nat : page.after <= base /\ base + Len(Batch) = seq /\ Batch \in Seq(Nat)
        BY BatchFacts
      <4>2. Len(Batch) \in Nat /\ page.after \in Nat
        BY <4>1, LenProperties DEF PageHolds
      <4>3. QED
        BY <4>1, <4>2
    <3>4. page.after \in Nat
      BY DEF PageHolds
    <3>5. QED
      BY <1>2, <3>2, <3>3, <3>4
  <2>5. ASSUME NEW n \in 1 .. seq + 1
        PROVE  n \in ToSet(page.shown) \/ n \in missed' \/ (n \in Ids(kept) /\ n > page.after)
    <3>1. CASE n = seq + 1
      BY <2>2, <2>4, <3>1
    <3>2. CASE n # seq + 1
      <4>1. n \in 1 .. seq
        BY <1>2, <3>2
      <4>2. n \in ToSet(page.shown) \/ n \in missed \/ (n \in Ids(log) /\ n > page.after)
        BY <4>1 DEF PageHolds, PageMissesNothing
      <4>3. QED
        BY <1>1, <2>2, <2>3, <4>2
    <3>3. QED
      BY <3>1, <3>2
  <2>6. Ids(log)' = Ids(kept)
    BY <1>1 DEF Ids
  <2>7. QED
    BY <1>1, <2>1, <2>5, <2>6 DEF PageMissesNothing
<1>9. Len(log') <= seq' /\ \A i \in 1 .. Len(log') : log'[i].id = seq' - Len(log') + i
  BY <1>1, <1>2, <1>5, <1>6
<1>10. QED
  BY <1>1, <1>7, <1>8, <1>9 DEF PageHolds

\* Every step keeps it.
LEMMA PageStep == AInv /\ PageHolds /\ [AlertNext]_alertVars => PageHolds'
<1> SUFFICES ASSUME AInv, PageHolds, [AlertNext]_alertVars PROVE PageHolds'
  OBVIOUS
<1>1. ASSUME UNCHANGED <<log, seq, missed, page>> PROVE PageHolds'
  BY <1>1 DEF PageHolds, PageMissesNothing, Ids
<1>2. ASSUME NEW c \in Conn, Decoy(c) PROVE PageHolds'
  BY <1>1, <1>2 DEF Decoy, Accept, Serve, Hit, store
<1>3. ASSUME NEW t \in Thread, Alarm(t) PROVE PageHolds'
  <2>1. CASE Add(t)
    BY <2>1, PageWaits
  <2>2. CASE File(t) \/ Rotate(t) \/ FileAfresh(t)
    BY <1>1, <2>2 DEF File, Rotate, FileAfresh, store
  <2>3. QED
    BY <1>3, <2>1, <2>2 DEF Alarm
<1>4. CASE StopDecoys \/ AnySweep \/ UNCHANGED alertVars
  BY <1>1, <1>4 DEF StopDecoys, AnySweep, SweepSees, SweepIsEmpty, SweepFails, store, alertVars
<1>5. page \in [after : Nat, shown : Seq(Nat), breaks : Nat]
  BY DEF PageHolds
<1>6. Batch \in Seq(Nat) /\ Len(Batch) \in Nat
  BY BatchFacts, LenProperties
<1>7. ASSUME NEW k \in 0 .. Len(Batch), NEW b \in Nat, UNCHANGED <<log, seq, missed>>,
             page' = [page EXCEPT !.shown = page.shown \o SubSeq(Batch, 1, k),
                                  !.after = LastOf(page.shown \o SubSeq(Batch, 1, k)), !.breaks = b]
      PROVE  PageHolds'
  <2> DEFINE shown == page.shown \o SubSeq(Batch, 1, k)
  <2>1. shown \in Seq(Nat)
    <3>1. \A i \in 1 .. k : Batch[i] \in Nat
      BY <1>6, ElementOfSeq
    <3>2. SubSeq(Batch, 1, k) \in Seq(Nat)
      BY <1>6, <3>1, SubSeqProperties
    <3>3. QED
      BY <1>5, <3>2, ConcatProperties
  <2> HIDE DEF shown
  <2>2. LastOf(shown) \in Nat
    <3>1. CASE shown = <<>>
      BY <3>1 DEF LastOf
    <3>2. CASE shown # <<>>
      <4>1. Len(shown) \in Nat \ {0}
        BY <2>1, <3>2, EmptySeq
      <4>2. Len(shown) \in 1 .. Len(shown)
        BY <4>1
      <4>3. shown[Len(shown)] \in Nat
        BY <2>1, <4>2, ElementOfSeq
      <4>4. QED
        BY <3>2, <4>3 DEF LastOf
    <3>3. QED
      BY <3>1, <3>2
  <2>3. page' = [page EXCEPT !.shown = shown, !.after = LastOf(shown), !.breaks = b]
    BY <1>7 DEF shown
  <2>4. /\ page' \in [after : Nat, shown : Seq(Nat), breaks : Nat]
        /\ page'.shown = shown /\ page'.after = LastOf(page'.shown)
    BY <1>5, <2>1, <2>2, <2>3
  <2>5. QED
    BY <1>7, <2>4, PageGrows DEF shown
<1>8. CASE Break
  <2>1. PICK k \in 0 .. Len(Batch) :
          page' = [page EXCEPT !.shown = page.shown \o SubSeq(Batch, 1, k),
                               !.after = LastOf(page.shown \o SubSeq(Batch, 1, k)), !.breaks = @ + 1]
    BY <1>8 DEF Break, LastSeen
  <2>2. page.breaks + 1 \in Nat
    BY <1>5
  <2>3. QED
    BY <1>7, <1>8, <2>1, <2>2 DEF Break, store
<1>9. CASE Deliver
  <2>1. Batch # <<>> /\ page' = [page EXCEPT !.shown = @ \o Batch, !.after = LastOf(Batch)]
    BY <1>9 DEF Deliver
  <2>2. SubSeq(Batch, 1, Len(Batch)) = Batch /\ Len(Batch) \in 0 .. Len(Batch) /\ Len(Batch) # 0
    BY <1>6, <2>1, SubSeqFull, EmptySeq
  <2>3. LastOf(page.shown \o Batch) = LastOf(Batch)
    <3>1. /\ Len(page.shown \o Batch) = Len(page.shown) + Len(Batch) /\ Len(page.shown) \in Nat
          /\ (page.shown \o Batch)[Len(page.shown) + Len(Batch)] = Batch[Len(Batch)]
      BY <1>5, <1>6, <2>2, ConcatProperties, LenProperties
    <3>2. page.shown \o Batch # <<>>
      BY <1>6, <2>2, <3>1
    <3>3. QED
      BY <2>1, <3>1, <3>2 DEF LastOf
  <2>4. page' = [page EXCEPT !.shown = page.shown \o Batch, !.after = LastOf(page.shown \o Batch),
                             !.breaks = page.breaks]
    BY <1>5, <2>1, <2>3
  <2>5. UNCHANGED <<log, seq, missed>> /\ page.breaks \in Nat
    BY <1>5, <1>9 DEF Deliver, store
  <2>6. page' = [page EXCEPT !.shown = page.shown \o SubSeq(Batch, 1, Len(Batch)),
                             !.after = LastOf(page.shown \o SubSeq(Batch, 1, Len(Batch))),
                             !.breaks = page.breaks]
    BY <2>2, <2>4
  <2>7. QED
    BY <1>7, <2>2, <2>5, <2>6
<1>10. QED
  BY <1>2, <1>3, <1>4, <1>8, <1>9 DEF AlertNext

-----------------------------------------------------------------------------
(* What the invariant shows.                                               *)

\* Every step keeps the invariant.
LEMMA StepInv == AInv /\ [AlertNext]_alertVars => AInv'
<1> SUFFICES ASSUME AInv, [AlertNext]_alertVars PROVE AInv'
  OBVIOUS
<1>1. ASSUME NEW c \in Conn, Decoy(c) PROVE AInv'
  BY <1>1, AcceptInv, ServeInv, HitInv DEF Decoy
<1>2. ASSUME NEW t \in Thread, Alarm(t) PROVE AInv'
  BY <1>2, AddInv, FileInv DEF Alarm
<1>3. CASE StopDecoys
  BY <1>3, QuietInv DEF StopDecoys, watch, store
<1>4. CASE SweepSees
  BY <1>4, QuietInv DEF SweepSees, wire, store, AInv, AlertTypeOK
<1>5. CASE SweepIsEmpty
  <2>1. CASE Noticed("sweep_empty")
    BY <1>5, <2>1, NoticeInv DEF SweepIsEmpty
  <2>2. CASE UNCHANGED <<notices, job>>
    BY <1>5, <2>2, QuietInv DEF SweepIsEmpty, wire, store, AInv, AlertTypeOK
  <2>3. QED
    BY <1>5, <2>1, <2>2 DEF SweepIsEmpty
<1>6. CASE SweepFails
  BY <1>6, NoticeInv DEF SweepFails
<1>7. CASE Deliver \/ Break
  BY <1>7, QuietInv DEF Deliver, Break, wire, watch, store, AInv, AlertTypeOK
<1>8. CASE UNCHANGED alertVars
  BY <1>8, QuietInv DEF alertVars, AInv, AlertTypeOK
<1>9. QED
  BY <1>1, <1>2, <1>3, <1>4, <1>5, <1>6, <1>7, <1>8 DEF AlertNext, AnySweep

\* The inductive invariant holds in every reachable state.
THEOREM AlertInvariant == AlertSpec => [](AInv /\ PageHolds)
<1>1. AlertInit => AInv
  BY InitInv
<1>2. AlertInit => PageHolds
  BY DEF AlertInit, PageHolds, PageMissesNothing, LastOf
<1>3. AInv /\ [AlertNext]_alertVars => AInv'
  BY StepInv
<1>4. QED
  BY <1>1, <1>2, <1>3, PageStep, PTL DEF AlertSpec

\* No flood of connections uses up the slots of the tripwire: each visitor takes
\* one and gives it back, and a refused one takes none. And the page shows the
\* alerts in order, none twice, and misses none that was in memory when it
\* asked, wherever a batch broke off.
THEOREM SlotsAreGivenBack == AlertSpec => []LogInvariant
<1>1. AInv /\ PageHolds => LogInvariant
  BY DEF AInv, PageHolds, LogInvariant
<1>2. QED
  BY <1>1, AlertInvariant, PTL

\* No count of a source and no notice is added to the log twice, whatever the
\* threads of the visitors and of the sweep do at once.
THEOREM NothingToldTwice == AlertSpec => ToldOnce
<1>1. AInv /\ [AlertNext]_alertVars => [\A t \in Thread : Add(t) => job[t].about \notin told]_alertVars
  BY AddInv
<1>2. QED
  BY <1>1, AlertInvariant, PTL DEF AlertSpec, ToldOnce
==============================================================================
