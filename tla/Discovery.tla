------------------------------ MODULE Discovery ------------------------------
(***************************************************************************)
(* discover_hosts (discovery/__init__.py): who is up?  ARP first when      *)
(* every address is local, through Scapy if it can run, else through the   *)
(* neighbour table of the system after a nudge; then ICMP and TCP for what *)
(* ARP missed; at the end the table names the devices.  The world outside  *)
(* (who answers what, what is in the table, what Scapy does) is free.      *)
(***************************************************************************)
EXTENDS Integers, Sequences, FiniteSets

CONSTANTS Address,        \* the targets
          LocalSets,      \* the targets that are is_local: what this may be
          Kinds,          \* what an address may answer: sets of "arp", "icmp" and ports
          Ports, Few,     \* probe_ports, and how many of them the second chance asks (4)
          FallbackLimit,  \* FALLBACK_LIMIT
          Workers,
          Chunk,          \* addresses in one ARP request round (512)
          MaxStale        \* devices in the neighbour table before the scan began

ASSUME DiscoveryAssumption ==
    /\ LocalSets \subseteq SUBSET Address /\ Ports \in Seq(STRING) /\ Few \in 1..Len(Ports)
    /\ {FallbackLimit, MaxStale} \subseteq Nat /\ {Workers, Chunk} \subseteq Nat \ {0}

VARIABLES pc,        \* where discover_hosts is
          answers,   \* what each address answers
          local,     \* the targets that are is_local
          cancel,
          cache,     \* the neighbour table of the system
          nudged,    \* addresses the system was made to resolve
          unasked,   \* ARP: targets of the rounds still to come
          table,     \* what ARP returned
          settle,    \* wait_for_neighbors: <<last, stable>>
          found,     \* address -> method
          named,     \* found addresses that have a MAC
          todo,      \* imap: addresses no worker has begun
          asking,    \* imap: address -> the question its worker is at
          answered,  \* imap: address -> result, not yet yielded
          ports      \* the ports this probe asks for
vars == <<pc, answers, local, cancel, cache, nudged, unasked, table, settle, found, named,
          todo, asking, answered, ports>>

Outside == <<answers, local>>
Pool == <<todo, asking, answered, ports>>
Arp == <<nudged, unasked, table, settle>>
With(f, a, v) == [b \in DOMAIN f \cup {a} |-> IF b = a THEN v ELSE f[b]]
Without(f, a) == [b \in DOMAIN f \ {a} |-> f[b]]
ArpFirst == local = Address

Init ==
    /\ pc = "start"
    /\ answers \in [Address -> Kinds]
    /\ local \in LocalSets
    /\ cache \in {s \in SUBSET Address : Cardinality(s) <= MaxStale}
    /\ cancel = FALSE
    /\ nudged = {} /\ unasked = Address /\ table = {} /\ settle = <<-1, 0>>
    /\ found = <<>> /\ named = {}
    /\ todo = {} /\ asking = <<>> /\ answered = <<>> /\ ports = Ports

Over == pc \in {"returned", "raised"}
Stop == ~cancel /\ ~Over /\ cancel' = TRUE
        /\ UNCHANGED <<pc, cache, found, named, Outside, Arp, Pool>>

\* The system hears from a device it was made to resolve.
Resolve(a) ==
    /\ ~Over /\ a \in nudged \cup DOMAIN asking
    /\ "arp" \in answers[a] /\ a \notin cache /\ a \in local
    /\ cache' = cache \cup {a}
    /\ UNCHANGED <<pc, cancel, found, named, Outside, Arp, Pool>>

\* probe(): hand the addresses to imap
Probe(addresses, asked) ==
    /\ pc' = "probing" /\ todo' = addresses /\ ports' = asked
    /\ UNCHANGED <<asking, answered>>

Start(haveScapy) ==
    /\ pc = "start"
    /\ IF ~ArpFirst THEN Probe(Address, Ports)
       ELSE /\ pc' = IF haveScapy THEN "arp" ELSE "nudge"
            /\ UNCHANGED Pool
    /\ UNCHANGED <<cancel, cache, found, named, Outside, Arp>>

(***************************************************************************)
(* ARP                                                                     *)
(***************************************************************************)
\* One round of scapy_arp_scan: packets may be lost.
ArpRound(asked, heard) ==
    /\ pc = "arp" /\ ~cancel /\ unasked # {}
    /\ asked \subseteq unasked
    /\ Cardinality(asked) = IF Cardinality(unasked) < Chunk THEN Cardinality(unasked) ELSE Chunk
    /\ heard \subseteq {a \in asked : "arp" \in answers[a]}
    /\ table' = table \cup heard
    /\ unasked' = unasked \ asked
    /\ pc' = IF unasked' = {} THEN "merge" ELSE "arp"
    /\ UNCHANGED <<cancel, cache, nudged, settle, found, named, Outside, Pool>>

\* PermissionError, or any other failure: what earlier rounds heard is dropped
ArpFails ==
    /\ pc = "arp" /\ ~cancel
    /\ table' = {} /\ pc' = "nudge"
    /\ UNCHANGED <<cancel, cache, nudged, unasked, settle, found, named, Outside, Pool>>

\* the cancel event between two rounds: Cancelled leaves discover_hosts
ArpCancelled ==
    /\ pc = "arp" /\ cancel
    /\ pc' = "raised"
    /\ UNCHANGED <<cancel, cache, found, named, Outside, Arp, Pool>>

Nudge ==
    /\ pc = "nudge"
    /\ nudged' = Address /\ pc' = "settling"
    /\ UNCHANGED <<cancel, cache, unasked, table, settle, found, named, Outside, Pool>>

\* One reading of wait_for_neighbors; `late`: its 2.5 seconds are over
Settle(late) ==
    /\ pc = "settling"
    /\ LET stable == IF Cardinality(cache) = settle[1] THEN settle[2] + 1 ELSE 0 IN
       IF stable >= 2 \/ late \/ cancel
       THEN table' = cache /\ pc' = "merge" /\ settle' = <<-1, 0>>
       ELSE settle' = <<Cardinality(cache), stable>> /\ UNCHANGED <<table, pc>>
    /\ UNCHANGED <<cancel, cache, nudged, unasked, found, named, Outside, Pool>>

\* Mutant of Missing: only the addresses after an empty ARP pass are probed
MissingUnlessArp == IF table = {} THEN Address ELSE {}
\* what ARP did not find
Missing == Address \ table

Second(missing) == Cardinality(missing) <= FallbackLimit

Merge ==
    /\ pc = "merge"
    /\ found' = [a \in table |-> "ARP"] /\ named' = table
    /\ IF Missing # {} /\ ~cancel /\ table = {} THEN Probe(Missing, Ports)
       ELSE IF Missing # {} /\ ~cancel /\ Second(Missing) THEN Probe(Missing, SubSeq(Ports, 1, Few))
       ELSE pc' = "naming" /\ UNCHANGED Pool
    /\ UNCHANGED <<cancel, cache, Outside, Arp>>

(***************************************************************************)
(* ICMP and TCP, on the scheduler (imap)                                   *)
(***************************************************************************)
Begin(a) ==
    /\ pc = "probing" /\ ~cancel
    /\ a \in todo /\ Cardinality(DOMAIN asking \cup DOMAIN answered) < Workers
    /\ todo' = todo \ {a}
    /\ asking' = With(asking, a, 0)
    /\ UNCHANGED <<pc, cancel, cache, found, named, answered, ports, Outside, Arp>>

Ends(a, result) == asking' = Without(asking, a) /\ answered' = With(answered, a, result)

\* Mutant of NextQuestion: a silent address is asked again from the start
NextQuestionAgain(a) == asking' = [asking EXCEPT ![a] = IF @ = Len(ports) THEN 0 ELSE @ + 1] /\ UNCHANGED answered
\* one question to one address: icmp_ping, then tcp_state port by port
NextQuestion(a) == IF asking[a] = Len(ports) THEN Ends(a, "down")
                   ELSE asking' = [asking EXCEPT ![a] = @ + 1] /\ UNCHANGED answered

\* icmp_ping and _run: the reply may come before the next look at the cancel event
Ping(a) ==
    /\ a \in DOMAIN asking /\ asking[a] = 0
    /\ \/ cancel /\ Ends(a, "cancelled")
       \/ IF "icmp" \in answers[a] THEN Ends(a, "up") ELSE NextQuestion(a)
    /\ UNCHANGED <<pc, cancel, cache, found, named, todo, ports, Outside, Arp>>

\* tcp_ping: accepted or refused, somebody is there
Knock(a) ==
    /\ a \in DOMAIN asking /\ asking[a] > 0
    /\ IF cancel THEN Ends(a, "cancelled")
       ELSE IF ports[asking[a]] \in answers[a] THEN Ends(a, "up") ELSE NextQuestion(a)
    /\ UNCHANGED <<pc, cancel, cache, found, named, todo, ports, Outside, Arp>>

\* The loop body of probe(): a cancelled probe is skipped by imap
Yield(a) ==
    /\ pc = "probing" /\ a \in DOMAIN answered
    /\ answered' = Without(answered, a)
    /\ found' = IF answered[a] = "up" /\ a \notin DOMAIN found
                THEN With(found, a, "ICMP/TCP") ELSE found
    /\ UNCHANGED <<pc, cancel, cache, named, todo, asking, ports, Outside, Arp>>

Probed ==
    /\ pc = "probing" /\ (todo = {} \/ cancel)
    /\ asking = <<>> /\ answered = <<>>
    /\ pc' = "naming"
    /\ UNCHANGED <<cancel, cache, found, named, Outside, Arp, Pool>>

\* local hosts without a MAC
Lacking == (DOMAIN found \cap local) \ named

\* the lookup of MACs, the last progress, the return
Name ==
    /\ pc = "naming"
    /\ named' = IF cancel THEN named ELSE named \cup (Lacking \cap cache)
    /\ pc' = "returned"
    /\ UNCHANGED <<cancel, cache, found, Outside, Arp, Pool>>

Terminated == Over /\ UNCHANGED vars

Loop == \/ \E haveScapy \in BOOLEAN : Start(haveScapy)
        \/ ArpFails \/ ArpCancelled \/ Nudge \/ Merge \/ Probed \/ Name
        \/ \E asked, heard \in SUBSET Address : ArpRound(asked, heard)
        \/ \E late \in BOOLEAN : Settle(late)
        \/ \E a \in Address : Yield(a)
Work == \E a \in Address : Begin(a) \/ Ping(a) \/ Knock(a)
Next == Stop \/ Loop \/ Work \/ Terminated \/ \E a \in Address : Resolve(a)

\* The scan's thread and the workers run; the system's table and the user are free.  The wait for
\* the table ends because its clock does.
FairSpec == Init /\ [][Next]_vars /\ WF_vars(Loop) /\ WF_vars(Work) /\ WF_vars(Settle(TRUE))

(***************************************************************************)
(* Properties                                                              *)
(***************************************************************************)
TypeOK ==
    /\ pc \in {"start", "arp", "nudge", "settling", "merge", "probing", "naming", "returned", "raised"}
    /\ DOMAIN asking \cup DOMAIN answered \cup todo \cup table \cup unasked \subseteq Address
    /\ DOMAIN found \subseteq Address /\ named \subseteq DOMAIN found
    /\ Cardinality(DOMAIN asking \cup DOMAIN answered) <= Workers

\* ARP found nothing at all, or it missed no more addresses than a second chance is for
\* (__init__.py:28, "most addresses re-probed after an incomplete ARP pass").
SecondChance == table = {} \/ Cardinality(Address \ table) <= FallbackLimit

\* The questions of that second chance: all of them after an empty pass, else the first few.
Questions == {"icmp"} \cup {Ports[i] : i \in IF table = {} THEN DOMAIN Ports ELSE 1..Few}

\* Unless it was stopped, a scan returns every address that ARP heard, and it names each local one
\* that the system's table knows.  Where there is a second chance it also returns every address that
\* answers a question, whatever packets ARP lost, however ARP failed, and in whatever order the
\* workers finish.  Of what ARP missed beyond the limit nothing is promised: it is not asked.
NobodyIsOverlooked ==
    /\ TypeOK
    /\ pc = "returned" /\ ~cancel =>
         /\ table \subseteq DOMAIN found
         /\ SecondChance => \A a \in Address : answers[a] \cap Questions # {} => a \in DOMAIN found
         /\ \A a \in DOMAIN found \cap local \cap cache : a \in named

\* __init__.py:8-12: "the remaining addresses always get this second chance".  Not above the limit.
AlwaysASecondChance ==
    pc = "returned" /\ ~cancel =>
      \A a \in Address : answers[a] \cap Questions # {} => a \in DOMAIN found

\* discover_hosts ends, stopped or not, whatever the neighbour table and Scapy do.
EventuallyOver == <>Over

\* A stopped discovery keeps what it found: it returns (engine.run_scan's docstring: "Returns (hosts,
\* meta) ... `cancel` is a threading.Event that stops the scan early").
StopReturns == pc # "raised"
=============================================================================
