------------------------------- MODULE Targets -------------------------------
(***************************************************************************)
(* The target and port expressions of nemla/targets.py: what                *)
(* iter_targets, parse_ports and format_ports make of a list of items.      *)
(*                                                                         *)
(* An item is given as the regular expressions of the code leave it: a      *)
(* network, a range, an address, an address with a zone, or a name and what *)
(* the resolver answers for it.  Addresses have Bits bits in both families  *)
(* (the code: 32 and 128), so that a whole family can be enumerated.        *)
(***************************************************************************)
EXTENDS Naturals, SequencesExt

CONSTANTS Bits, MaxPort

ASSUME BitsAssumption == Bits \in Nat \ {0, 1}
ASSUME MaxPortAssumption == MaxPort \in Nat \ {0}

Families == {4, 6}

Refused == [ok |-> FALSE, spans |-> <<>>, scoped |-> <<>>]
Accepted(spans, scoped) == [ok |-> TRUE, spans |-> spans, scoped |-> scoped]

Span(version, first, last) == [version |-> version, first |-> first, last |-> last]

-----------------------------------------------------------------------------
(* Targets *)

\* A network without its network and broadcast addresses, or without the
\* anycast address of its routers; the two smallest networks are whole.
NetworkSpan(version, address, prefix) ==
    LET size  == 2 ^ (Bits - prefix)
        first == address - (address % size)
        last  == first + size - 1
        skip  == prefix <= Bits - 2
    IN  Span(version, IF skip THEN first + 1 ELSE first,
                      IF skip /\ version = 4 THEN last - 1 ELSE last)

\* What the resolver answers for a name: only the family asked for, each
\* address once, IPv4 first, and only the first unless all were asked for.
Resolve(answers, family, all) ==
    LET asked == SelectSeq(answers, LAMBDA a : family \in {0, a.version})
        found == FoldLeft(LAMBDA s, a : IF Contains(s, a) THEN s ELSE Append(s, a), <<>>, asked)
        order == SelectSeq(found, LAMBDA a : a.version = 4)
                 \o SelectSeq(found, LAMBDA a : a.version = 6)
    IN  IF all THEN order ELSE SubSeq(order, 1, IF order = <<>> THEN 0 ELSE 1)

\* An address with a zone ends the loop over the answers: it is the only
\* one returned, whatever came before it.
SpansOfName(answers, family, all) ==
    LET found == Resolve(answers, family, all)
        zoned == SelectSeq(found, LAMBDA a : a.zone)
    IN  CASE found = <<>> -> Refused
          [] zoned # <<>> -> Accepted(<<>>, <<Head(zoned)>>)
          [] OTHER -> Accepted([i \in DOMAIN found |-> Span(found[i].version, found[i].n, found[i].n)], <<>>)

\* One comma-separated item of the expression.
SpansFor(item, family, all) ==
    CASE item.kind = "name" -> SpansOfName(item.answers, family, all)
      [] item.kind # "name" /\ family \notin {0, item.version} -> Refused
      [] item.kind = "network" /\ family \in {0, item.version} ->
            Accepted(<<NetworkSpan(item.version, item.low, item.high)>>, <<>>)
      [] item.kind \in {"range", "address"} /\ family \in {0, item.version} ->
            IF item.high < item.low THEN Refused
            ELSE Accepted(<<Span(item.version, item.low, item.high)>>, <<>>)
      [] item.kind = "zoned" /\ family \in {0, item.version} ->
            Accepted(<<>>, <<[version |-> item.version, n |-> item.low, zone |-> TRUE]>>)

\* The order of tuples.
Before(s, t) ==
    \/ s.version < t.version
    \/ s.version = t.version /\ s.first < t.first
    \/ s.version = t.version /\ s.first = t.first /\ s.last <= t.last

\* The spans that touch or overlap become one.
Joins(s, t) == s.version = t.version /\ t.first <= s.last + 1

\* Mutant of End: where the later of the two does.
EndOfLater(s, t) == t.last

\* Where the joined span ends.
End(s, t) == Max({s.last, t.last})

Merge(spans) ==
    FoldLeft(LAMBDA merged, s :
                 IF merged # <<>> /\ Joins(Last(merged), s)
                 THEN [merged EXCEPT ![Len(merged)].last = End(Last(merged), s)]
                 ELSE Append(merged, s),
             <<>>, SortSeq(spans, Before))

\* The number of addresses, without making them.
Count(targets) ==
    FoldLeft(LAMBDA n, s : n + s.last - s.first + 1, Len(targets.scoped), targets.spans)

\* The addresses, one at a time: span by span, then those with a zone.
Addresses(targets) ==
    FlattenSeq([i \in DOMAIN targets.spans |->
                   LET s == targets.spans[i]
                   IN  [k \in 1 .. s.last + 1 - s.first |->
                           [version |-> s.version, n |-> s.first + k - 1, zone |-> FALSE]]])
    \o targets.scoped

\* The whole expression: refused when an item is, when the limit is passed,
\* and when nothing is left.
IterTargets(items, limit, family, all) ==
    LET parts   == [i \in DOMAIN items |-> SpansFor(items[i], family, all)]
        targets == Accepted(Merge(FlattenSeq([i \in DOMAIN parts |-> parts[i].spans])),
                            FoldLeft(LAMBDA s, a : IF Contains(s, a) THEN s ELSE Append(s, a), <<>>,
                                     FlattenSeq([i \in DOMAIN parts |-> parts[i].scoped])))
    IN  IF items = <<>> \/ (\E i \in DOMAIN parts : ~parts[i].ok) \/ Count(targets) \notin 1 .. limit
        THEN Refused ELSE targets

-----------------------------------------------------------------------------
(* Ports *)

AllPorts == 1 .. MaxPort
InOrder(ports) == SelectSeq([i \in AllPorts |-> i], LAMBDA p : p \in ports)

\* One item: its bounds are tested before it is expanded.
PortsOf(part) ==
    CASE part.all -> AllPorts
      [] ~part.all /\ (part.low < 1 \/ part.high > MaxPort \/ part.low > part.high) -> {}
      [] OTHER -> part.low .. part.high

\* The ports in order; the empty sequence stands for the error.
ParsePorts(parts) ==
    IF \E i \in DOMAIN parts : PortsOf(parts[i]) = {} THEN <<>>
    ELSE InOrder(UNION {PortsOf(parts[i]) : i \in DOMAIN parts})

\* The compact form: the port that follows the last one extends its range.
Extends(ranges, port) == ranges # <<>> /\ port = Last(ranges).high + 1

FormatPorts(ports) ==
    FoldLeft(LAMBDA ranges, port :
                 IF Extends(ranges, port)
                 THEN [ranges EXCEPT ![Len(ranges)].high = port]
                 ELSE Append(ranges, [all |-> FALSE, low |-> port, high |-> port]),
             <<>>, InOrder(ports))
=============================================================================
