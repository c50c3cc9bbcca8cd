------------------------------- MODULE OsGuess -------------------------------
(***************************************************************************)
(* The operating system guess of nemla/os_detection.py: votes of several    *)
(* signals, their sum, and the confidence of the winner.  Weights and       *)
(* confidences are per cent; a vote is a record with the family it is for.  *)
(***************************************************************************)
EXTENDS Integers, FiniteSetsExt, SequencesExt

\* In the order that breaks ties.
FAMILIES == <<"windows", "linux", "apple", "bsd", "network", "unix">>
Family == Range(FAMILIES)

CAP_HEURISTIC == 70
CAP_REPORTED  == 92

\* 0 stands for a TTL that was not seen.
InitialTtl(observed) ==
    CASE observed <= 32 -> 32
      [] observed \in 33 .. 64 -> 64
      [] observed \in 65 .. 128 -> 128
      [] OTHER -> 255

Vote(family, weight) == [family |-> family, weight |-> weight]

TtlVotes(ttl) ==
    IF ttl = 0 THEN <<>>
    ELSE CASE InitialTtl(ttl) = 64 -> <<Vote("unix", 30)>>
           [] InitialTtl(ttl) = 128 -> <<Vote("windows", 40)>>
           [] InitialTtl(ttl) = 255 -> <<Vote("network", 35)>>
           [] InitialTtl(ttl) = 32 -> <<Vote("windows", 10)>>

\* The shape of a SYN-ACK: its options in order, its window and its DF bit.
Shape(options, window) ==
    LET has(o) == Contains(options, o)
        head   == SubSeq(options, 1, Min({3, Len(options)}))
        wide   == head = <<"MSS", "NOP", "WScale">>
        pair   == SubSeq(options, 1, Min({2, Len(options)}))
    IN  CASE pair = <<"MSS", "SAckOK">> /\ has("Timestamp") -> <<Vote("linux", 55)>>
          [] wide /\ has("SAckOK") /\ ~has("Timestamp") -> <<Vote("windows", 55)>>
          [] wide /\ has("Timestamp") /\ has("EOL") -> <<Vote("apple", 55)>>
          [] wide /\ has("Timestamp") /\ ~has("EOL") /\ window = 65535 -> <<Vote("bsd", 50)>>
          [] \/ options = <<"MSS">>
             \/ Len(options) = 2 /\ Head(options) = "MSS" /\ window \in {4128, 4096, 8192, 16384} ->
                <<Vote("network", 40)>>
          [] OTHER -> <<>>

SynVotes(tcp) ==
    Shape(tcp.options, tcp.window) \o (IF tcp.df THEN <<>> ELSE <<Vote("network", 10)>>)

\* What a service says of its own system.
PortVotes(p) ==
    (IF p.hint \in Family THEN <<Vote(p.hint, IF p.hint = "unix" THEN 30 ELSE 55)>> ELSE <<>>)
    \o (IF p.iis THEN <<Vote("windows", 15)>> ELSE <<>>)

\* What the open TCP ports say; MSRPC together with SMB says more than SMB.
NumberVotes(numbers) ==
    (IF 3389 \in numbers THEN <<Vote("windows", 20)>> ELSE <<>>)
    \o (IF numbers \cap {5985, 5986} # {} THEN <<Vote("windows", 20)>> ELSE <<>>)
    \o (IF 135 \in numbers /\ numbers \cap {139, 445} # {} THEN <<Vote("windows", 20)>>
        ELSE IF numbers \cap {139, 445} # {} THEN <<Vote("windows", 6)>> ELSE <<>>)
    \o (IF numbers \cap {548, 62078} # {} THEN <<Vote("apple", 20)>> ELSE <<>>)

VendorVotes(vendor) ==
    CASE vendor = "raspberry" -> <<Vote("linux", 30)>>
      [] vendor = "docker" -> <<Vote("linux", 35)>>
      [] OTHER -> <<>>

Total(votes, family) == FoldLeft(LAMBDA n, v : IF v.family = family THEN n + v.weight ELSE n, 0, votes)

\* All the votes, in the order in which they are cast: SSH speaks for Unix
\* only if nothing has spoken for Windows by then.
Votes(ttl, ports, tcp, vendor) ==
    LET numbers == {p.port : p \in {q \in Range(ports) : q.proto = "tcp"}}
        first   == TtlVotes(ttl) \o SynVotes(tcp)
                   \o FlattenSeq([i \in DOMAIN ports |-> PortVotes(ports[i])]) \o NumberVotes(numbers)
        ssh     == IF 22 \in numbers /\ Total(first, "windows") = 0 THEN <<Vote("unix", 8)>> ELSE <<>>
        netbios == SelectSeq([i \in DOMAIN ports |-> Vote("windows", IF ports[i].netbios THEN 10 ELSE 0)],
                             LAMBDA v : v.weight > 0)
    IN  first \o ssh \o netbios \o VendorVotes(vendor)

\* What speaks for Unix speaks, by half, for each Unix that has a vote.
Score(votes) ==
    [f \in Family |->
        Total(votes, f) + (IF f \in {"linux", "apple", "bsd"} /\ Total(votes, f) > 0
                           THEN Total(votes, "unix") \div 2 ELSE 0)]

Top(score) ==
    LET best == Max({score[f] : f \in Family})
    IN  FAMILIES[Min({i \in DOMAIN FAMILIES : score[FAMILIES[i]] = best})]

\* Mutant of Named: any service that names a system lifts the cap.
NamedAny(ports, top) == \E i \in DOMAIN ports : ports[i].hint \in Family

\* A service named the family that won.
Named(ports, top) == \E i \in DOMAIN ports : ports[i].hint = top

\* The capped score of the winner times its share of all scores, rounded.
Confidence(score, top, cap) ==
    LET sum == MapThenSumSet(LAMBDA f : score[f], Family)
    IN  (2 * Min({cap, score[top]}) * score[top] + sum) \div (2 * sum)

Unknown == [family |-> "unknown", confidence |-> 0, heuristic |-> TRUE]

GuessOs(ttl, ports, tcp, vendor) ==
    LET score == Score(Votes(ttl, ports, tcp, vendor))
        top   == Top(score)
        cap   == IF Named(ports, top) THEN CAP_REPORTED ELSE CAP_HEURISTIC
    IN  IF score[top] = 0 THEN Unknown
        ELSE [family     |-> top,
              confidence |-> Confidence(score, top, cap),
              heuristic  |-> ~Named(ports, top)]

Label(guess) ==
    CASE guess.confidence >= 75 -> "high"
      [] guess.confidence \in 45 .. 74 -> "medium"
      [] OTHER -> "low"
=============================================================================
