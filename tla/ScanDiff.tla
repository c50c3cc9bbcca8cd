------------------------------- MODULE ScanDiff -------------------------------
(***************************************************************************)
(* What changed between two scans: diff_scans of nemla/diff.py.             *)
(*                                                                         *)
(* A scan is a function from the addresses of its hosts to their records;   *)
(* a record holds its open ports, a function from keys (protocol and        *)
(* number) to what was detected there, its system, and its findings, a      *)
(* function from their identities to a severity.                            *)
(***************************************************************************)
EXTENDS Naturals, FiniteSets

CONSTANT Nothing    \* a field that a record does not have

Pair(old, new) == [from |-> old, to |-> new]

\* The system of a record: its family and name, or, in a record of an older
\* version, only the text; "unknown" counts as no system at all.
OsIdentity(host) ==
    CASE host.os.family \notin {Nothing, "unknown"} -> <<host.os.family, host.os.name>>
      [] host.os.family \in {Nothing, "unknown"} /\ host.os.name \notin {Nothing, "unknown"} -> <<Nothing, host.os.name>>
      [] OTHER -> <<>>

\* Mutant of OsChanged: only families are compared.
OsChangedFamilies(before, after) ==
    /\ before # <<>> /\ after # <<>> /\ before # after
    /\ before[1] # after[1] /\ Nothing \notin {before[1], after[1]}

\* Another family, or texts that differ when there is only text.
OsChanged(before, after) ==
    /\ before # <<>> /\ after # <<>> /\ before # after
    /\ before[1] # after[1] \/ before[1] = Nothing

\* The findings that matter: everything above "info".
FindingKeys(host) == {id \in DOMAIN host.findings : host.findings[id] # "info"}

\* What a port says of its service: product and version in one label.
ProductLabel(port) == <<port.product, port.version>>

\* Both scans know a product, and what they know differs.
ProductsDiffer(old, new) ==
    old.product # Nothing /\ new.product # Nothing /\ ProductLabel(old) # ProductLabel(new)

\* Mutant of ServicesDiffer: the older scan may have guessed from the number.
ServicesDifferFromGuess(old, new) ==
    Nothing \notin {old.detected, new.detected} /\ old.detected # new.detected /\ ~new.heuristic

\* Both scans recognised a service, neither guessed it from the port's number.
ServicesDiffer(old, new) ==
    /\ Nothing \notin {old.detected, new.detected} /\ old.detected # new.detected
    /\ ~old.heuristic /\ ~new.heuristic

\* Mutant of ServiceChange: a new version of a product is no change.
ServiceChangeUnversioned(old, new) ==
    CASE ProductsDiffer(old, new) /\ old.product # new.product ->
            [kind |-> "product", from |-> ProductLabel(old), to |-> ProductLabel(new)]
      [] ~ProductsDiffer(old, new) /\ ServicesDiffer(old, new) ->
            [kind |-> "service", from |-> old.detected, to |-> new.detected]
      [] OTHER -> [kind |-> "none", from |-> Nothing, to |-> Nothing]

ServiceChange(old, new) ==
    CASE ProductsDiffer(old, new) ->
            [kind |-> IF old.product # new.product THEN "product" ELSE "version",
             from |-> ProductLabel(old), to |-> ProductLabel(new)]
      [] ~ProductsDiffer(old, new) /\ ServicesDiffer(old, new) ->
            [kind |-> "service", from |-> old.detected, to |-> new.detected]
      [] OTHER -> [kind |-> "none", from |-> Nothing, to |-> Nothing]

\* The changes of a host that is in both scans.
Entry(o, n) ==
    [opened   |-> DOMAIN n.ports \ DOMAIN o.ports,
     closed   |-> DOMAIN o.ports \ DOMAIN n.ports,
     changed  |-> {<<k, ServiceChange(o.ports[k], n.ports[k])>> :
                      k \in {i \in DOMAIN o.ports \cap DOMAIN n.ports :
                                ServiceChange(o.ports[i], n.ports[i]).kind # "none"}},
     os       |-> IF OsChanged(OsIdentity(o), OsIdentity(n)) THEN {Pair(OsIdentity(o)[2], OsIdentity(n)[2])} ELSE {},
     new      |-> FindingKeys(n) \ FindingKeys(o),
     resolved |-> FindingKeys(o) \ FindingKeys(n)]

Unchanged(entry) == \A part \in DOMAIN entry : entry[part] = {}

\* The whole comparison.  `worse`: a host, an open port or a finding appeared.
DiffScans(old, new) ==
    LET both    == DOMAIN old \cap DOMAIN new
        entries == [ip \in {i \in both : ~Unchanged(Entry(old[i], new[i]))} |-> Entry(old[ip], new[ip])]
        gained  == DOMAIN new \ DOMAIN old
        lost    == DOMAIN old \ DOMAIN new
    IN  [new_hosts  |-> gained,
         gone_hosts |-> lost,
         hosts      |-> entries,
         worse      |-> \/ gained # {}
                        \/ \E ip \in DOMAIN entries : entries[ip].opened # {} \/ entries[ip].new # {},
         changed    |-> gained # {} \/ lost # {} \/ DOMAIN entries # {}]

-----------------------------------------------------------------------------
(* Properties *)

\* What a port's record says: of its product if it knows one, and of its
\* service if it recognised one and did not guess it from the number.
Says(port, what) ==
    IF what = "service" THEN (IF port.detected = Nothing \/ port.heuristic THEN {} ELSE {port.detected})
    ELSE IF port.product = Nothing THEN {} ELSE {ProductLabel(port)}

\* What a host's record says of its system: a family, or else a text.
SystemSays(host) ==
    IF host.os.family \notin {Nothing, "unknown"} THEN {<<"family", host.os.family>>}
    ELSE IF host.os.name \notin {Nothing, "unknown"} THEN {<<"text", host.os.name>>} ELSE {}

\* Both say something, and not the same.
Contradict(x, y) == x # {} /\ y # {} /\ x # y

PortsContradict(o, n, what) == Contradict(Says(o, what), Says(n, what))

\* What a change tells of a port is what the two records said of it.
Quotes(change, o, n) ==
    LET what == IF change.kind = "service" THEN "service" ELSE "product"
    IN  /\ Says(o, what) = {change.from} /\ Says(n, what) = {change.to} /\ change.from # change.to
        /\ change.kind = "version" <=> what = "product" /\ o.product = n.product

\* All that differs between two records of a host, and nothing else.
Tells(entry, o, n) ==
    /\ entry.opened = DOMAIN n.ports \ DOMAIN o.ports /\ entry.closed = DOMAIN o.ports \ DOMAIN n.ports
    /\ entry.new = FindingKeys(n) \ FindingKeys(o) /\ entry.resolved = FindingKeys(o) \ FindingKeys(n)
    /\ {c[1] : c \in entry.changed} =
          {k \in DOMAIN o.ports \cap DOMAIN n.ports :
              \E what \in {"product", "service"} : PortsContradict(o.ports[k], n.ports[k], what)}
    /\ \A c \in entry.changed, d \in entry.changed : c[1] = d[1] => c = d
    /\ \A c \in entry.changed : Quotes(c[2], o.ports[c[1]], n.ports[c[1]])
    /\ entry.os = IF Contradict(SystemSays(o), SystemSays(n)) THEN {Pair(o.os.name, n.os.name)} ELSE {}

Silence == [opened |-> {}, closed |-> {}, changed |-> {}, os |-> {}, new |-> {}, resolved |-> {}]

\* A comparison tells all that changed and nothing else: which hosts came and
\* went; of every host in both scans, also of one it leaves out, the ports that
\* opened and closed, the ports and systems whose records contradict each
\* other, in the records' words, and the findings that came and went.  It
\* leaves out the hosts of which there is nothing to tell.  "Worse" and
\* "changed" sum that up (diff_scans).
Exact(old, new) ==
    LET diff == DiffScans(old, new)
        both == DOMAIN old \cap DOMAIN new
    IN  /\ diff.new_hosts = DOMAIN new \ DOMAIN old /\ diff.gone_hosts = DOMAIN old \ DOMAIN new
        /\ DOMAIN diff.hosts \subseteq both
        /\ \A ip \in both :
              LET told == IF ip \in DOMAIN diff.hosts THEN diff.hosts[ip] ELSE Silence
              IN  Tells(told, old[ip], new[ip]) /\ (ip \in DOMAIN diff.hosts => told # Silence)
        /\ diff.changed <=> DOMAIN old # DOMAIN new \/ DOMAIN diff.hosts # {}
        /\ diff.worse <=> \/ \E ip \in DOMAIN new : ip \notin DOMAIN old
                         \/ \E ip \in both : \/ \E k \in DOMAIN new[ip].ports : k \notin DOMAIN old[ip].ports
                                             \/ \E f \in FindingKeys(new[ip]) : f \notin FindingKeys(old[ip])

\* "Scans saved by older versions (no `proto`, no structured OS) compare fine"
\* (diff.py:5-6): a system is not told to have changed into itself.
OlderScansCompareFine(old, new) ==
    \A ip \in DOMAIN DiffScans(old, new).hosts :
        \A change \in DiffScans(old, new).hosts[ip].os : change.from # change.to
=============================================================================
