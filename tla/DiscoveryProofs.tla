--------------------------- MODULE DiscoveryProofs ---------------------------
(***************************************************************************)
(* Theorems about Discovery, for any set of targets and whatever they      *)
(* answer, any ports, any number of workers, and all limits.               *)
(***************************************************************************)
EXTENDS Discovery, QueueLemmas

-----------------------------------------------------------------------------
(* The inductive invariant.                                                *)

\* The types of what TypeOK does not speak of.
TableHolds ==
  /\ cancel \in BOOLEAN /\ ports \in Seq(STRING)
  /\ nudged \cup cache \subseteq Address
  /\ IsFiniteSet(DOMAIN asking \cup DOMAIN answered)

\* Until the first probe nothing is found, and the workers are idle outside
\* of a probe.
IdleHolds ==
  /\ pc \in {"start", "arp", "nudge", "settling", "merge"} => DOMAIN found = {}
  /\ pc = "start" => table = {}
  /\ pc # "probing" => DOMAIN asking = {} /\ DOMAIN answered = {}

\* What this probe asks an address, and whether the address will answer.
Asked == {"icmp"} \cup {ports[i] : i \in DOMAIN ports}
Answers(a) == answers[a] \cap Asked # {}

\* An address has not answered the questions before the one its worker is at.
SilentSoFar(a) ==
  /\ asking[a] \in 0 .. Len(ports)
  /\ asking[a] > 0 => "icmp" \notin answers[a]
  /\ \A i \in 1 .. asking[a] - 1 : ports[i] \notin answers[a]

\* What a worker says of an address is so.
Truthful(a) ==
  \/ answered[a] = "up"
  \/ answered[a] = "down" /\ ~Answers(a)
  \/ answered[a] = "cancelled" /\ cancel

\* During a probe, an address that will answer waits to be asked, is being
\* asked, waits to be told of, or is found.
ProbeHolds ==
  pc = "probing" =>
    /\ Asked = Questions
    /\ \A a \in DOMAIN asking : SilentSoFar(a)
    /\ \A a \in DOMAIN answered : Truthful(a)
    /\ ~cancel => \A a \in Address : Answers(a) =>
                    a \in todo \cup DOMAIN asking \cup DOMAIN answered \cup DOMAIN found

\* What ARP heard is found at once; what answers, when the probe is over.
FoundHolds ==
  /\ pc \in {"probing", "naming", "returned"} => table \subseteq DOMAIN found
  /\ pc \in {"naming", "returned"} /\ ~cancel /\ SecondChance =>
       \A a \in Address : answers[a] \cap Questions # {} => a \in DOMAIN found
  /\ pc = "returned" /\ ~cancel => DOMAIN found \cap local \cap cache \subseteq named

DInv == TypeOK /\ TableHolds /\ IdleHolds /\ ProbeHolds /\ FoundHolds

-----------------------------------------------------------------------------
(* Lemmas.                                                                 *)

\* A probe that asks what a complete scan would, of everybody who may answer.
LEMMA ProbeStarts ==
  ASSUME DInv, pc # "probing", UNCHANGED <<answers, cancel>>,
         NEW addresses \in SUBSET Address, NEW asked \in Seq(STRING), Probe(addresses, asked),
         {"icmp"} \cup {asked[i] : i \in DOMAIN asked} = Questions',
         Address \subseteq addresses \cup DOMAIN found'
  PROVE  ProbeHolds' /\ IdleHolds' /\ ports' \in Seq(STRING)
<1>1. /\ pc' = "probing" /\ todo' = addresses /\ ports' = asked /\ UNCHANGED <<asking, answered>>
      /\ DOMAIN asking = {} /\ DOMAIN answered = {}
  BY DEF Probe, DInv, IdleHolds
<1>2. Asked' = Questions'
  BY <1>1 DEF Asked
<1>3. ProbeHolds'
  BY <1>1, <1>2 DEF ProbeHolds
<1>4. QED
  BY <1>1, <1>3 DEF IdleHolds

\* While nobody is asked, only the table and the results matter.
LEMMA NoProbe ==
  ASSUME pc' # "probing"
  PROVE  ProbeHolds'
  BY DEF ProbeHolds

-----------------------------------------------------------------------------
(* ARP.                                                                    *)

\* ARP goes first where it can, by Scapy or by the system.
LEMMA StartInv == ASSUME DInv, NEW haveScapy \in BOOLEAN, Start(haveScapy) PROVE DInv'
<1> USE DEF DInv
<1>1. pc = "start" /\ table = {} /\ DOMAIN found = {} /\ UNCHANGED <<cancel, cache, found, named, Outside, Arp>>
  BY DEF Start, IdleHolds
<1>2. CASE ~ArpFirst
  <2>1. Probe(Address, Ports)
    BY <1>2 DEF Start
  <2>2. Questions' = {"icmp"} \cup {Ports[i] : i \in DOMAIN Ports}
    BY <1>1 DEF Questions, Arp
  <2>3. ProbeHolds' /\ IdleHolds' /\ ports' \in Seq(STRING)
    BY <1>1, <2>1, <2>2, ProbeStarts, DiscoveryAssumption DEF Outside
  <2>4. TypeOK' /\ TableHolds' /\ FoundHolds'
    BY <1>1, <2>1, <2>3 DEF TypeOK, TableHolds, FoundHolds, Probe, Outside, Arp
  <2>5. QED
    BY <2>3, <2>4
<1>3. CASE ArpFirst
  <2>1. pc' \in {"arp", "nudge"} /\ UNCHANGED Pool
    BY <1>3 DEF Start
  <2>2. TypeOK' /\ TableHolds' /\ IdleHolds' /\ FoundHolds'
    BY <1>1, <2>1 DEF TypeOK, TableHolds, IdleHolds, FoundHolds, Outside, Arp, Pool
  <2>3. QED
    BY <2>1, <2>2, NoProbe
<1>4. QED
  BY <1>2, <1>3

\* The passes over the local network.
LEMMA ArpInv ==
  ASSUME DInv, \/ ArpFails \/ ArpCancelled \/ Nudge
               \/ \E asked, heard \in SUBSET Address : ArpRound(asked, heard)
               \/ \E late \in BOOLEAN : Settle(late)
  PROVE  DInv'
<1> USE DEF DInv
<1>1. /\ pc \in {"arp", "nudge", "settling"} /\ pc' \in {"arp", "nudge", "settling", "merge", "raised"}
      /\ UNCHANGED <<cancel, cache, found, named, Outside, Pool>>
      /\ nudged' \subseteq Address /\ table' \subseteq Address /\ unasked' \subseteq Address
  BY DEF ArpFails, ArpCancelled, Nudge, ArpRound, Settle, TypeOK, TableHolds, Arp
<1>2. TypeOK' /\ TableHolds' /\ IdleHolds' /\ FoundHolds'
  BY <1>1 DEF TypeOK, TableHolds, IdleHolds, FoundHolds, Outside, Pool
<1>3. QED
  BY <1>1, <1>2, NoProbe

\* What ARP heard is found; the rest is probed if that makes sense.
LEMMA MergeInv == ASSUME DInv, Merge PROVE DInv'
<1> USE DEF DInv
<1>1. /\ pc = "merge" /\ DOMAIN found' = table /\ named' = table
      /\ UNCHANGED <<cancel, cache, Outside, Arp>> /\ DOMAIN asking = {} /\ DOMAIN answered = {}
  BY DEF Merge, IdleHolds
<1>2. Missing \subseteq Address /\ Address \subseteq Missing \cup table /\ UNCHANGED table
  BY <1>1 DEF Missing, Arp
<1>3. ASSUME Missing # {}, ~cancel, NEW asked \in Seq(STRING), Probe(Missing, asked),
             {"icmp"} \cup {asked[i] : i \in DOMAIN asked} = Questions
      PROVE  DInv'
  <2>1. Questions' = Questions
    BY <1>2 DEF Questions
  <2>2. ProbeHolds' /\ IdleHolds' /\ ports' \in Seq(STRING)
    BY <1>1, <1>2, <1>3, <2>1, ProbeStarts DEF Outside
  <2>3. TypeOK' /\ TableHolds' /\ FoundHolds'
    BY <1>1, <1>2, <1>3, <2>2 DEF TypeOK, TableHolds, FoundHolds, Probe, Outside, Arp
  <2>4. QED
    BY <2>2, <2>3
<1>4. CASE Missing # {} /\ ~cancel /\ table = {}
  <2>1. Probe(Missing, Ports) /\ Questions = {"icmp"} \cup {Ports[i] : i \in DOMAIN Ports}
    BY <1>4 DEF Merge, Questions
  <2>2. QED
    BY <1>3, <1>4, <2>1, DiscoveryAssumption
<1>5. CASE Missing # {} /\ ~cancel /\ table # {} /\ Second(Missing)
  <2> DEFINE few == SubSeq(Ports, 1, Few)
  <2>1. Probe(Missing, few)
    BY <1>5 DEF Merge
  <2>2. few \in Seq(STRING) /\ DOMAIN few = 1 .. Few /\ \A i \in 1 .. Few : few[i] = Ports[i]
    BY DiscoveryAssumption
  <2>3. Questions = {"icmp"} \cup {Ports[i] : i \in 1 .. Few}
    BY <1>5 DEF Questions, Second, Missing
  <2>4. {"icmp"} \cup {few[i] : i \in DOMAIN few} = Questions
    BY <2>2, <2>3
  <2>5. QED
    BY <1>3, <1>5, <2>1, <2>2, <2>4
<1>6. CASE ~(Missing # {} /\ ~cancel /\ (table = {} \/ Second(Missing)))
  <2>1. pc' = "naming" /\ UNCHANGED Pool
    BY <1>6 DEF Merge
  <2>2. ~cancel /\ Missing # {} => ~SecondChance
    BY <1>6 DEF SecondChance, Second, Missing
  <2>3. Questions' = Questions /\ SecondChance' = SecondChance
    BY <1>2 DEF Questions, SecondChance
  <2>4. FoundHolds'
    BY <1>1, <1>2, <2>1, <2>2, <2>3 DEF FoundHolds, Outside
  <2>5. TypeOK' /\ TableHolds' /\ IdleHolds'
    BY <1>1, <2>1 DEF TypeOK, TableHolds, IdleHolds, Outside, Arp, Pool
  <2>6. QED
    BY <2>1, <2>4, <2>5, NoProbe
<1>7. QED
  BY <1>4, <1>5, <1>6

-----------------------------------------------------------------------------
(* ICMP and TCP.                                                           *)

\* The questions of a probe stay what they are.
LEMMA SameQuestions ==
  ASSUME UNCHANGED <<answers, ports, table>>
  PROVE  /\ Asked' = Asked /\ Questions' = Questions /\ SecondChance' = SecondChance
         /\ \A a : Answers(a)' = Answers(a)
  BY DEF Asked, Questions, SecondChance, Answers

\* A worker takes an address.
LEMMA BeginInv == ASSUME DInv, NEW a \in Address, Begin(a) PROVE DInv'
<1> USE DEF DInv
<1>1. /\ pc = "probing" /\ ~cancel /\ todo' = todo \ {a} /\ asking' = With(asking, a, 0)
      /\ UNCHANGED <<pc, cancel, cache, found, named, answered, ports, answers, local, nudged, unasked, table, settle>>
      /\ Cardinality(DOMAIN asking \cup DOMAIN answered) < Workers
  BY DEF Begin, Outside, Arp
<1>2. /\ DOMAIN asking' = DOMAIN asking \cup {a} /\ asking'[a] = 0
      /\ \A b \in DOMAIN asking \ {a} : asking'[b] = asking[b]
  BY <1>1 DEF With
<1>3. /\ IsFiniteSet(DOMAIN asking' \cup DOMAIN answered')
      /\ Cardinality(DOMAIN asking' \cup DOMAIN answered') <= Workers
  <2> DEFINE busy == DOMAIN asking \cup DOMAIN answered
  <2>1. DOMAIN asking' \cup DOMAIN answered' = busy \cup {a}
    BY <1>1, <1>2
  <2>2. IsFiniteSet(busy) /\ Cardinality(busy) < Workers
    BY <1>1 DEF TableHolds
  <2> HIDE DEF busy
  <2>3. Cardinality(busy) \in Nat /\ Workers \in Nat
    BY <2>2, FS_CardinalityType, DiscoveryAssumption
  <2>4. /\ IsFiniteSet(busy \cup {a})
        /\ Cardinality(busy \cup {a}) = IF a \in busy THEN Cardinality(busy) ELSE Cardinality(busy) + 1
    BY <2>2, FS_AddElement, Zenon
  <2>5. Cardinality(busy \cup {a}) <= Workers
    BY <2>2, <2>3, <2>4
  <2>6. QED
    BY <2>1, <2>4, <2>5, Zenon
<1>4. TypeOK' /\ TableHolds' /\ IdleHolds' /\ FoundHolds'
  BY <1>1, <1>2, <1>3, SameQuestions DEF TypeOK, TableHolds, IdleHolds, FoundHolds
<1>5. ProbeHolds'
  <2>1. \A b \in DOMAIN asking' : SilentSoFar(b)'
    BY <1>1, <1>2 DEF ProbeHolds, SilentSoFar, TableHolds
  <2>2. \A b \in DOMAIN answered' : Truthful(b)'
    BY <1>1, SameQuestions DEF ProbeHolds, Truthful
  <2>3. \A b \in Address : Answers(b)' =>
          b \in todo' \cup DOMAIN asking' \cup DOMAIN answered' \cup DOMAIN found'
    BY <1>1, <1>2, SameQuestions DEF ProbeHolds
  <2>4. QED
    BY <1>1, <2>1, <2>2, <2>3, SameQuestions DEF ProbeHolds
<1>6. QED
  BY <1>4, <1>5

\* What a question leaves alone.
Quiet ==
  /\ UNCHANGED <<pc, cancel, cache, found, named, todo, ports, answers, local, nudged, unasked, table, settle>>
  /\ pc = "probing"

\* A worker says what it learnt of its address.
LEMMA EndsInv ==
  ASSUME DInv, Quiet, NEW a \in DOMAIN asking, NEW result, Ends(a, result),
         result = "up" \/ (result = "down" /\ ~Answers(a)) \/ (result = "cancelled" /\ cancel)
  PROVE  DInv'
<1> USE DEF DInv, Quiet
<1>1. /\ DOMAIN asking' = DOMAIN asking \ {a} /\ DOMAIN answered' = DOMAIN answered \cup {a}
      /\ \A b \in DOMAIN asking \ {a} : asking'[b] = asking[b]
      /\ answered'[a] = result /\ \A b \in DOMAIN answered \ {a} : answered'[b] = answered[b]
  BY DEF Ends, With, Without
<1>2. DOMAIN asking' \cup DOMAIN answered' = DOMAIN asking \cup DOMAIN answered
  BY <1>1
<1>3. TypeOK' /\ TableHolds' /\ IdleHolds' /\ FoundHolds'
  BY <1>1, <1>2, SameQuestions DEF TypeOK, TableHolds, IdleHolds, FoundHolds
<1>4. ProbeHolds'
  <2>1. \A b \in DOMAIN asking' : SilentSoFar(b)'
    BY <1>1 DEF ProbeHolds, SilentSoFar
  <2>2. \A b \in DOMAIN answered' : Truthful(b)'
    BY <1>1, SameQuestions DEF ProbeHolds, Truthful
  <2>3. ~cancel => \A b \in Address : Answers(b)' =>
          b \in todo' \cup DOMAIN asking' \cup DOMAIN answered' \cup DOMAIN found'
    BY <1>1, <1>2, SameQuestions DEF ProbeHolds
  <2>4. QED
    BY <2>1, <2>2, <2>3, SameQuestions DEF ProbeHolds
<1>5. QED
  BY <1>3, <1>4

\* A worker that was not answered asks the next question, or has asked all.
LEMMA NextQuestionInv ==
  ASSUME DInv, Quiet, NEW a \in DOMAIN asking, NextQuestion(a),
         asking[a] = 0 => "icmp" \notin answers[a],
         asking[a] > 0 => ports[asking[a]] \notin answers[a]
  PROVE  DInv'
<1>1. /\ asking[a] \in 0 .. Len(ports) /\ (asking[a] > 0 => "icmp" \notin answers[a])
      /\ \A i \in 1 .. asking[a] - 1 : ports[i] \notin answers[a]
      /\ Len(ports) \in Nat /\ DOMAIN ports = 1 .. Len(ports)
  BY LenProperties DEF DInv, Quiet, ProbeHolds, SilentSoFar, TableHolds
<1>2. "icmp" \notin answers[a] /\ \A i \in 1 .. asking[a] : ports[i] \notin answers[a]
  BY <1>1
<1>3. CASE asking[a] = Len(ports)
  <2>1. ~Answers(a)
    BY <1>1, <1>2, <1>3 DEF Answers, Asked
  <2>2. QED
    BY <1>3, <2>1, EndsInv DEF NextQuestion
<1>4. CASE asking[a] # Len(ports)
  <2> USE DEF DInv, Quiet
  <2>1. asking' = [asking EXCEPT ![a] = @ + 1] /\ UNCHANGED answered
    BY <1>4 DEF NextQuestion
  <2>2. DOMAIN asking' = DOMAIN asking /\ asking'[a] = asking[a] + 1
        /\ \A b \in DOMAIN asking \ {a} : asking'[b] = asking[b]
    BY <2>1
  <2>3. TypeOK' /\ TableHolds' /\ IdleHolds' /\ FoundHolds'
    BY <2>1, <2>2, SameQuestions DEF TypeOK, TableHolds, IdleHolds, FoundHolds
  <2>4. SilentSoFar(a)'
    BY <1>1, <1>2, <1>4, <2>2 DEF SilentSoFar
  <2>5. \A b \in DOMAIN asking' : SilentSoFar(b)'
    BY <2>2, <2>4 DEF ProbeHolds, SilentSoFar
  <2>6. \A b \in DOMAIN answered' : Truthful(b)'
    BY <2>1, SameQuestions DEF ProbeHolds, Truthful
  <2>7. ProbeHolds'
    BY <2>1, <2>2, <2>5, <2>6, SameQuestions DEF ProbeHolds
  <2>8. QED
    BY <2>3, <2>7
<1>5. QED
  BY <1>3, <1>4

\* An answer is believed, silence leads on, and Stop ends the questions.
LEMMA AskInv == ASSUME DInv, NEW a \in Address, Ping(a) \/ Knock(a) PROVE DInv'
<1>1. a \in DOMAIN asking /\ Quiet /\ asking[a] \in Nat
  <2>1. a \in DOMAIN asking /\ pc = "probing"
    BY DEF Ping, Knock, DInv, IdleHolds
  <2>2. asking[a] \in Nat
    BY <2>1 DEF DInv, ProbeHolds, SilentSoFar, TableHolds
  <2>3. QED
    BY <2>1, <2>2 DEF Ping, Knock, Quiet, Outside, Arp
<1>2. CASE cancel /\ Ends(a, "cancelled")
  BY <1>1, <1>2, EndsInv
<1>3. CASE Ends(a, "up")
  BY <1>1, <1>3, EndsInv
<1>4. CASE asking[a] = 0 /\ "icmp" \notin answers[a] /\ NextQuestion(a)
  BY <1>1, <1>4, NextQuestionInv
<1>5. CASE asking[a] > 0 /\ ports[asking[a]] \notin answers[a] /\ NextQuestion(a)
  BY <1>1, <1>5, NextQuestionInv
<1>6. QED
  BY <1>2, <1>3, <1>4, <1>5 DEF Ping, Knock

\* What a worker said is taken over.
LEMMA YieldInv == ASSUME DInv, NEW a \in Address, Yield(a) PROVE DInv'
<1> USE DEF DInv
<1>1. /\ pc = "probing" /\ a \in DOMAIN answered
      /\ UNCHANGED <<pc, cancel, cache, named, todo, asking, ports, answers, local, nudged, unasked, table, settle>>
  BY DEF Yield, Outside, Arp
<1>2. DOMAIN answered' = DOMAIN answered \ {a} /\ \A b \in DOMAIN answered \ {a} : answered'[b] = answered[b]
  BY DEF Yield, Without
<1>3. DOMAIN found' = IF answered[a] = "up" THEN DOMAIN found \cup {a} ELSE DOMAIN found
  BY DEF Yield, With
<1>4. /\ IsFiniteSet(DOMAIN asking' \cup DOMAIN answered')
      /\ Cardinality(DOMAIN asking' \cup DOMAIN answered') <= Workers
  <2> DEFINE busy == DOMAIN asking \cup DOMAIN answered
             rest == DOMAIN asking' \cup DOMAIN answered'
  <2>1. IsFiniteSet(busy) /\ rest \in SUBSET busy /\ Cardinality(busy) <= Workers
    BY <1>1, <1>2 DEF TypeOK, TableHolds
  <2> HIDE DEF busy, rest
  <2>2. IsFiniteSet(rest) /\ Cardinality(rest) <= Cardinality(busy)
    BY <2>1, FS_Subset
  <2>3. Cardinality(rest) <= Workers
    BY <2>1, <2>2, FS_CardinalityType, DiscoveryAssumption
  <2>4. QED
    BY <2>2, <2>3 DEF rest
<1>5. TypeOK' /\ TableHolds' /\ IdleHolds' /\ FoundHolds'
  BY <1>1, <1>2, <1>3, <1>4, SameQuestions DEF TypeOK, TableHolds, IdleHolds, FoundHolds
<1>6. ProbeHolds'
  <2>1. \A b \in DOMAIN asking' : SilentSoFar(b)'
    BY <1>1 DEF ProbeHolds, SilentSoFar
  <2>2. \A b \in DOMAIN answered' : Truthful(b)'
    BY <1>1, <1>2, SameQuestions DEF ProbeHolds, Truthful
  <2>3. ~cancel => \A b \in Address : Answers(b)' =>
          b \in todo' \cup DOMAIN asking' \cup DOMAIN answered' \cup DOMAIN found'
    BY <1>1, <1>2, <1>3, SameQuestions DEF ProbeHolds, Truthful
  <2>4. QED
    BY <1>1, <2>1, <2>2, <2>3, SameQuestions DEF ProbeHolds
<1>7. QED
  BY <1>5, <1>6

\* The probe is over when nobody waits to be asked or to be told of.
LEMMA ProbedInv == ASSUME DInv, Probed PROVE DInv'
<1> USE DEF DInv
<1>1. /\ pc = "probing" /\ pc' = "naming" /\ (todo = {} \/ cancel)
      /\ DOMAIN asking = {} /\ DOMAIN answered = {}
      /\ UNCHANGED <<cancel, cache, found, named, todo, asking, answered, ports, answers, local, nudged, unasked, table, settle>>
  BY DEF Probed, Outside, Arp, Pool
<1>2. ~cancel => \A a \in Address : answers[a] \cap Questions # {} => a \in DOMAIN found
  BY <1>1 DEF ProbeHolds, Answers
<1>3. FoundHolds'
  BY <1>1, <1>2, SameQuestions DEF FoundHolds
<1>4. TypeOK' /\ TableHolds' /\ IdleHolds'
  BY <1>1 DEF TypeOK, TableHolds, IdleHolds
<1>5. QED
  BY <1>1, <1>3, <1>4, NoProbe

\* The found are named, when the table knows them.
LEMMA NameInv == ASSUME DInv, Name PROVE DInv'
<1> USE DEF DInv
<1>1. /\ pc = "naming" /\ pc' = "returned" /\ named' = (IF cancel THEN named ELSE named \cup (Lacking \cap cache))
      /\ UNCHANGED <<cancel, cache, found, todo, asking, answered, ports, answers, local, nudged, unasked, table, settle>>
  BY DEF Name, Outside, Arp, Pool
<1>2. FoundHolds'
  BY <1>1, SameQuestions DEF FoundHolds, Lacking
<1>3. TypeOK' /\ TableHolds' /\ IdleHolds'
  BY <1>1 DEF TypeOK, TableHolds, IdleHolds, Lacking
<1>4. QED
  BY <1>1, <1>2, <1>3, NoProbe

\* Stop, and the system that hears from a device, touch neither the probe nor
\* what is found.
LEMMA OutsideInv ==
  ASSUME DInv, Stop \/ (\E a \in Address : Resolve(a)) \/ UNCHANGED vars
  PROVE  DInv'
<1> USE DEF DInv
<1>1. /\ UNCHANGED <<pc, found, named, todo, asking, answered, ports, answers, local, nudged, unasked, table, settle>>
      /\ cancel' \in BOOLEAN /\ (cancel => cancel')
      /\ cache' \subseteq Address
      /\ UNCHANGED <<cancel, cache>> \/ ~Over
  BY DEF Stop, Resolve, vars, Outside, Arp, Pool, TableHolds
<1>2. TypeOK' /\ TableHolds' /\ IdleHolds'
  BY <1>1 DEF TypeOK, TableHolds, IdleHolds
<1>3. FoundHolds'
  BY <1>1, SameQuestions DEF FoundHolds, Over
<1>4. ProbeHolds'
  <2>1. \A b \in DOMAIN asking' : SilentSoFar(b) => SilentSoFar(b)'
    BY <1>1 DEF SilentSoFar
  <2>2. \A b \in DOMAIN answered' : Truthful(b) => Truthful(b)'
    BY <1>1, SameQuestions DEF Truthful
  <2>3. QED
    BY <1>1, <2>1, <2>2, SameQuestions DEF ProbeHolds
<1>5. QED
  BY <1>2, <1>3, <1>4

-----------------------------------------------------------------------------
(* Theorems.                                                               *)

\* Nothing is asked and nothing is found at the beginning.
LEMMA InitInv == Init => DInv
<1> SUFFICES ASSUME Init PROVE DInv
  OBVIOUS
<1>1. DOMAIN found = {} /\ DOMAIN asking = {} /\ DOMAIN answered = {} /\ IsFiniteSet({}) /\ Cardinality({}) = 0
  BY FS_EmptySet DEF Init
<1>2. cache \subseteq Address /\ ports \in Seq(STRING) /\ Workers \in Nat
  BY DiscoveryAssumption DEF Init
<1>3. /\ pc = "start" /\ cancel = FALSE /\ nudged = {} /\ unasked = Address /\ table = {} /\ named = {} /\ todo = {}
  BY DEF Init
<1>4. TypeOK
  BY <1>1, <1>2, <1>3 DEF TypeOK
<1>5. TableHolds
  BY <1>1, <1>2, <1>3 DEF TableHolds
<1>6. IdleHolds /\ ProbeHolds /\ FoundHolds
  BY <1>1, <1>3 DEF IdleHolds, ProbeHolds, FoundHolds
<1>7. QED
  BY <1>4, <1>5, <1>6 DEF DInv

\* The invariant is inductive.
LEMMA NextInv == DInv /\ [Next]_vars => DInv'
<1> SUFFICES ASSUME DInv, [Next]_vars PROVE DInv'
  OBVIOUS
<1>1. CASE Loop
  BY <1>1, StartInv, ArpInv, MergeInv, YieldInv, ProbedInv, NameInv DEF Loop
<1>2. CASE Work
  BY <1>2, BeginInv, AskInv DEF Work
<1>3. CASE Stop \/ Terminated \/ (\E a \in Address : Resolve(a)) \/ UNCHANGED vars
  BY <1>3, OutsideInv DEF Terminated
<1>4. QED
  BY <1>1, <1>2, <1>3 DEF Next

\* discover_hosts (discovery/__init__.py): in every state of a discovery each
\* address that will answer is still waited for or found.
THEOREM DiscoveryInvariant == FairSpec => []DInv
  BY InitInv, NextInv, PTL DEF FairSpec

\* "ARP is never trusted to be complete" (discovery/__init__.py:8-12): no
\* address that ARP heard, or that answers a question of a complete scan, is
\* missing from an unstopped result, and none that the table knows goes unnamed.
THEOREM Completeness == FairSpec => []NobodyIsOverlooked
<1>1. DInv => NobodyIsOverlooked
  BY DEF DInv, FoundHolds, NobodyIsOverlooked, TypeOK
<1>2. QED
  BY <1>1, DiscoveryInvariant, PTL
=============================================================================
