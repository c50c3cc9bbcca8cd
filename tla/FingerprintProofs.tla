-------------------------- MODULE FingerprintProofs --------------------------
(***************************************************************************)
(* Theorems about Fingerprint, for every set of ports, intensities,        *)
(* budgets and services; and about Findings, which judges what was learnt   *)
(* of them, for every set of open ports.                                   *)
(***************************************************************************)
EXTENDS Fingerprint, Findings, QueueLemmas

-----------------------------------------------------------------------------
(* The inductive invariant.                                                *)

Busy == at \in {"open", "connecting", "handshake", "exchange"}

\* TLS is tried on every port where it is likely, and on a silent one when
\* there is time for it.
TlsTried == TlsLikely \/ intensity >= 3

\* What identify may still do, outside or inside of a tunnel.
Steps(inTls) ==
  Candidates(inTls) \cup (IF ~inTls /\ TlsTried THEN {"tls"} ELSE {})

\* These steps are enough to learn what can be known of the server: its own
\* detector is among them, or the way into its tunnel.
Reveals(steps, inTls) ==
  IF server.tls = inTls
  THEN /\ server.speaks \in Listens => inTls /\ port \in HTTP_TLS_PORTS
       /\ server.speaks \in Candidates(inTls) => server.speaks \in steps
  ELSE TlsTried => "tls" \in steps

\* What identify is called with, and what is there.
WorldHolds ==
  /\ intensity \in Nat /\ budget \in Nat
  /\ {server.greets, server.tls} \subseteq BOOLEAN
  /\ server.speaks \in Listens => server.greets
  /\ server.speaks \in Asks => ~server.greets

\* Before the first step only the greeting was heard.
BeginHolds ==
  at = "begin" =>
    /\ ~facts /\ ~tunnel
    /\ banner => server.greets /\ ~server.tls
    /\ calm => banner = (server.greets /\ ~server.tls)

\* A question of a detector, or the handshake that inspects: while nothing
\* went wrong, it and what is left reveal the server.
Asking ==
  /\ task.what = IF task.of = "tls" THEN "inspect" ELSE "ask"
  /\ {task.of} \cup agenda \subseteq Steps(tunnel)
  /\ IF task.of = "tls" THEN at # "exchange" ELSE task.heard => Mine
  /\ calm => Reveals({task.of} \cup agenda, tunnel)

\* A second look at a server whose greeting was recognised.
Refining ==
  /\ task.what = "refine" /\ task.of = server.speaks /\ Recognised(banner)
  /\ server.tls = tunnel /\ (tunnel => port \notin HTTP_TLS_PORTS)

\* Connections that follow a handshake, before the inner probe is at work.
Entering ==
  /\ task.what \in {"legacy", "greeting"} /\ ~tunnel
  /\ IF task.what = "legacy" THEN at # "exchange" ELSE port \notin HTTP_TLS_PORTS

\* The connection at hand is for one of three things.
TaskHolds ==
  Busy =>
    /\ intensity > 0
    /\ facts <=> tunnel \/ task.what \in {"legacy", "greeting"}
    /\ facts => server.tls /\ TlsTried
    /\ task.what # "refine" => ~Recognised(banner)
    /\ at = "handshake" => InTls
    /\ Asking \/ Refining \/ Entering

\* The result, once there is one.
ResultHolds ==
  IF at = "returned"
  THEN /\ found.service \in {"none", "tls", server.speaks}
       /\ found.service # "none" => found.tls = server.tls
       /\ intensity > 0 /\ Recognised(banner) => found.service = server.speaks
       /\ facts => found.tls
       /\ calm => found = Knowable
  ELSE found = Nothing

Story == TypeOK /\ BeginHolds /\ TaskHolds /\ ResultHolds

IInv == WorldHolds /\ Story /\ PaidAndClosed

-----------------------------------------------------------------------------
(* Lemmas.                                                                 *)

\* "tls" and "none" are no detectors.
LEMMA DetectorFacts ==
  /\ Asks \subseteq DOMAIN Detector /\ Listens \subseteq DOMAIN Detector
  /\ {"tls", "none"} \cap DOMAIN Detector = {}
<1>1. {"tls", "none"} \cap DOMAIN Detector = {}
  BY DEF Detector
<1>2. QED
  BY <1>1 DEF Asks, Listens, Those

\* Where a step comes in the order is a number.
LEMMA PlaceIsNatural ==
  ASSUME NEW step \in DOMAIN Detector \cup {"tls"}
  PROVE  Place(step) \in Nat
<1> DEFINE Plugins == {Redis, Memcached, MySql, Postgres, Dns, Ftp, Http, Pop3, Imap, Telnet,
                       Vnc, Rdp, Smb, Smtp, Ssh}
<1>1. \A d \in DOMAIN Detector : Detector[d].rarity \in Nat /\ Detector[d].nr \in Nat
  <2>1. \A plugin \in Plugins : plugin.rarity \in Nat /\ plugin.nr \in Nat
    <3>1. Redis.rarity \in Nat /\ Redis.nr \in Nat BY DEF Redis, Plugin
    <3>2. Memcached.rarity \in Nat /\ Memcached.nr \in Nat BY DEF Memcached, Plugin
    <3>3. MySql.rarity \in Nat /\ MySql.nr \in Nat BY DEF MySql, Plugin
    <3>4. Postgres.rarity \in Nat /\ Postgres.nr \in Nat BY DEF Postgres, Plugin
    <3>5. Dns.rarity \in Nat /\ Dns.nr \in Nat BY DEF Dns, Plugin
    <3>6. Ftp.rarity \in Nat /\ Ftp.nr \in Nat BY DEF Ftp, Plugin
    <3>7. Http.rarity \in Nat /\ Http.nr \in Nat BY DEF Http, Plugin
    <3>8. Pop3.rarity \in Nat /\ Pop3.nr \in Nat BY DEF Pop3, Plugin
    <3>9. Imap.rarity \in Nat /\ Imap.nr \in Nat BY DEF Imap, Plugin
    <3>10. Telnet.rarity \in Nat /\ Telnet.nr \in Nat BY DEF Telnet, Plugin
    <3>11. Vnc.rarity \in Nat /\ Vnc.nr \in Nat BY DEF Vnc, Plugin
    <3>12. Rdp.rarity \in Nat /\ Rdp.nr \in Nat BY DEF Rdp, Plugin
    <3>13. Smb.rarity \in Nat /\ Smb.nr \in Nat BY DEF Smb, Plugin
    <3>14. Smtp.rarity \in Nat /\ Smtp.nr \in Nat BY DEF Smtp, Plugin
    <3>15. Ssh.rarity \in Nat /\ Ssh.nr \in Nat BY DEF Ssh, Plugin
    <3>16. QED
      BY <3>1, <3>2, <3>3, <3>4, <3>5, <3>6, <3>7, <3>8, <3>9, <3>10, <3>11, <3>12, <3>13, <3>14, <3>15
  <2>2. \A d \in DOMAIN Detector : Detector[d] \in Plugins
    BY DEF Detector
  <2>3. QED
    BY <2>1, <2>2
<1>2. CASE step = "tls"
  BY <1>2 DEF Place
<1>3. CASE step # "tls"
  BY <1>1, <1>3 DEF Place
<1>4. QED
  BY <1>2, <1>3

\* As long as steps are left there is a first.
LEMMA FirstIsOne ==
  ASSUME NEW steps \in SUBSET (DOMAIN Detector \cup {"tls"}), steps # {}
  PROVE  First(steps) \in steps
<1> DEFINE places == {Place(step) : step \in steps}
<1>1. places \subseteq Nat /\ places # {}
  BY PlaceIsNatural
<1>2. PICK n \in places : \A m \in places : n <= m
  <2> HIDE DEF places
  <2>1. QED
    BY <1>1, LeastNatural
<1>3. \E step \in steps : \A other \in steps : Place(step) <= Place(other)
  BY <1>2
<1>4. QED
  BY <1>3 DEF First

\* What identify is called with does not change, and so neither does what it
\* may do and what can be known.
LEMMA GivenFixed ==
  ASSUME UNCHANGED Given
  PROVE  /\ WorldHolds' = WorldHolds /\ Knowable' = Knowable
         /\ TlsTried' = TlsTried
         /\ \A inTls \in BOOLEAN : Candidates(inTls)' = Candidates(inTls)
  BY DEF Given, WorldHolds, Knowable, TlsTried, TlsLikely, Candidates, Candidate, Fits

-----------------------------------------------------------------------------
(* How identify goes on.                                                   *)

\* In the middle of a detection: what the continuations below have in common.
GoesOn ==
  /\ WorldHolds /\ TypeOK /\ ResultHolds /\ at # "returned"
  /\ UNCHANGED Given
  /\ {banner', calm', cancel'} \subseteq BOOLEAN /\ {charged', opened'} \subseteq Nat

\* Steps that reveal the server are taken one after the other; when none is
\* left, all that can be known of the server is that it showed nothing.
LEMMA FollowKeeps ==
  ASSUME GoesOn, NEW inTls \in BOOLEAN, NEW steps \in SUBSET Steps(inTls), Follow(steps, inTls),
         intensity > 0, facts' = inTls, inTls => server.tls /\ TlsTried,
         ~Recognised(banner'), calm' => Reveals(steps, inTls)
  PROVE  Story'
<1> USE DEF GoesOn
<1>1. found = Nothing
  BY DEF ResultHolds
<1>2. steps \subseteq DOMAIN Detector \cup {"tls"}
  BY DetectorFacts DEF Steps, Candidates
<1>3. TypeOK'
  <2>1. found'.service \in DOMAIN Detector \cup {"none", "tls"}
    <3>1. found' = Nothing \/ found' = [service |-> "tls", tls |-> TRUE]
      BY <1>1 DEF Follow
    <3>2. QED
      BY <3>1 DEF Nothing
  <2>2. agenda' \subseteq DOMAIN Detector \cup {"tls"}
    BY <1>2 DEF Follow
  <2>3. QED
    BY <2>1, <2>2 DEF Follow, TypeOK
<1>4. BeginHolds'
  BY DEF Follow, BeginHolds
<1>5. CASE steps = {}
  <2>1. at' = "returned" /\ found' = IF inTls THEN [service |-> "tls", tls |-> TRUE] ELSE Nothing
    BY <1>5 DEF Follow
  <2>2. calm' => found' = Knowable
    <3>1. SUFFICES ASSUME calm' PROVE found' = Knowable
      OBVIOUS
    <3>2. Reveals({}, inTls) /\ intensity # 0
      BY <1>5, <3>1 DEF WorldHolds
    <3>3. CASE server.tls = inTls
      <4>1. ~(server.speaks \in Asks /\ Candidate(server.speaks, inTls))
        BY <3>2, <3>3 DEF Reveals, Candidates
      <4>2. server.speaks \in Listens => inTls /\ port \in HTTP_TLS_PORTS
        BY <3>2, <3>3 DEF Reveals
      <4>3. CASE inTls
        <5>1. server.tls /\ (TlsLikely \/ ~(intensity < 3))
          BY <3>3, <4>3 DEF TlsTried, WorldHolds
        <5>2. found' = [service |-> "tls", tls |-> TRUE]
          BY <2>1, <4>3
        <5>3. QED
          BY <5>1, <5>2, <3>2, <4>1, <4>2, <4>3, Zenon DEF Knowable
      <4>4. CASE ~inTls
        <5>1. ~server.tls /\ found' = Nothing
          BY <2>1, <3>3, <4>4
        <5>2. QED
          BY <5>1, <3>2, <4>1, <4>2, <4>4 DEF Knowable
      <4>5. QED
        BY <4>3, <4>4
    <3>4. CASE server.tls # inTls
      <4>1. server.tls /\ ~inTls
        BY <3>4 DEF WorldHolds
      <4>2. ~TlsLikely /\ intensity < 3 /\ found' = Nothing
        BY <2>1, <3>2, <3>4, <4>1 DEF Reveals, TlsTried, WorldHolds
      <4>3. QED
        BY <3>2, <4>1, <4>2 DEF Knowable
    <3>5. QED
      BY <3>3, <3>4
  <2>3. ResultHolds'
    BY <2>1, <2>2, GivenFixed DEF ResultHolds, Nothing, Given, Recognised
  <2>4. TaskHolds'
    BY <2>1 DEF TaskHolds, Busy
  <2>5. QED
    BY <1>3, <1>4, <2>3, <2>4 DEF Story
<1>6. CASE steps # {}
  <2> DEFINE step == First(steps)
  <2>1. /\ at' = "open" /\ agenda' = steps \ {step} /\ found' = Nothing /\ tunnel' = inTls
        /\ task' = [what |-> IF step = "tls" THEN "inspect" ELSE "ask", of |-> step, n |-> 1, heard |-> FALSE]
    BY <1>1, <1>6 DEF Follow
  <2>2. step \in steps
    BY <1>2, <1>6, FirstIsOne
  <2> HIDE DEF step
  <2>3. {task'.of} \cup agenda' = steps
    BY <2>1, <2>2
  <2>4. Asking'
    BY <2>1, <2>2, <2>3, GivenFixed DEF Asking, Steps, Reveals, Given
  <2>5. TaskHolds'
    BY <2>1, <2>4, GivenFixed DEF TaskHolds, Given, Recognised
  <2>6. ResultHolds'
    BY <2>1 DEF ResultHolds, Nothing
  <2>7. QED
    BY <1>3, <1>4, <2>5, <2>6 DEF Story
<1>7. QED
  BY <1>5, <1>6

\* A detection that ends with what the server is, or with nothing when there
\* is nothing to be known.
LEMMA ReturnKeeps ==
  ASSUME GoesOn, NEW service \in DOMAIN Detector \cup {"none"}, Return(service), facts' \in BOOLEAN,
         service # "none" => service = server.speaks /\ server.tls = tunnel,
         intensity > 0 /\ Recognised(banner') => service = server.speaks,
         facts' => tunnel,
         calm' => Knowable = [service |-> service, tls |-> tunnel]
  PROVE  Story'
<1>1. at' = "returned" /\ found' = [service |-> service, tls |-> tunnel] /\ UNCHANGED <<agenda, task, tunnel>>
  BY DEF Return
<1>2. TypeOK'
  BY <1>1 DEF GoesOn, TypeOK
<1>3. BeginHolds' /\ TaskHolds'
  BY <1>1 DEF BeginHolds, TaskHolds, Busy
<1>4. ResultHolds'
  BY <1>1, GivenFixed DEF GoesOn, ResultHolds, Given, Recognised
<1>5. QED
  BY <1>2, <1>3, <1>4 DEF Story

\* A server that greets, or whose detector is asked, is known by its name.
LEMMA KnownAs ==
  ASSUME WorldHolds, intensity > 0, NEW inTls \in BOOLEAN, server.tls = inTls, inTls => TlsTried,
         \/ server.speaks \in Listens /\ (inTls => port \notin HTTP_TLS_PORTS)
         \/ server.speaks \in Candidates(inTls)
  PROVE  Knowable = [service |-> server.speaks, tls |-> inTls]
<1>1. intensity # 0 /\ (TlsTried => TlsLikely \/ ~(intensity < 3))
  BY DEF WorldHolds, TlsTried
<1>2. IF server.speaks \in Listens THEN ~(inTls /\ port \in HTTP_TLS_PORTS)
      ELSE server.speaks \in Asks /\ Candidate(server.speaks, inTls)
  BY DEF Candidates, WorldHolds
<1>3. CASE inTls
  <2>1. inTls = TRUE /\ server.tls /\ TlsTried
    BY <1>3
  <2>2. QED
    BY <1>1, <1>2, <2>1, Zenon DEF Knowable
<1>4. CASE ~inTls
  <2>1. inTls = FALSE /\ ~server.tls
    BY <1>4
  <2>2. QED
    BY <1>1, <1>2, <2>1, Zenon DEF Knowable
<1>5. QED
  BY <1>3, <1>4

\* After a greeting, heard or not.
LEMMA GreetedKeeps ==
  ASSUME GoesOn, NEW inTls \in BOOLEAN, NEW steps \in SUBSET Steps(inTls), Greeted(steps, inTls),
         intensity > 0, facts' = inTls, inTls => server.tls /\ TlsTried,
         Recognised(banner') => server.tls = inTls /\ (inTls => port \notin HTTP_TLS_PORTS),
         calm' /\ ~Recognised(banner') => Reveals(steps, inTls)
  PROVE  Story'
<1>1. CASE ~Recognised(banner')
  <2>1. Follow(steps, inTls)
    BY <1>1 DEF Greeted
  <2>2. QED
    BY <1>1, <2>1, FollowKeeps
<1>2. CASE Recognised(banner')
  <2>1. server.speaks \in Listens /\ server.speaks \in DOMAIN Detector /\ tunnel' = inTls
    BY <1>2, DetectorFacts DEF Recognised, Greeted
  <2>2. CASE at' = "returned" /\ found' = [service |-> server.speaks, tls |-> inTls] /\ UNCHANGED <<agenda, task>>
    <3>1. TypeOK'
      BY <2>1, <2>2 DEF GoesOn, TypeOK
    <3>2. BeginHolds' /\ TaskHolds'
      BY <2>2 DEF BeginHolds, TaskHolds, Busy
    <3>3. calm' => Knowable = [service |-> server.speaks, tls |-> inTls]
      BY <1>2, <2>1, KnownAs DEF GoesOn
    <3>4. ResultHolds'
      BY <1>2, <2>2, <3>3, GivenFixed DEF GoesOn, ResultHolds, Given, Recognised
    <3>5. QED
      BY <3>1, <3>2, <3>4 DEF Story
  <2>3. CASE /\ at' = "open" /\ agenda' = {} /\ UNCHANGED found
             /\ task' = [what |-> "refine", of |-> server.speaks, n |-> 1, heard |-> FALSE]
    <3>1. TypeOK'
      BY <2>1, <2>3 DEF GoesOn, TypeOK
    <3>2. BeginHolds' /\ ResultHolds'
      BY <2>3 DEF BeginHolds, ResultHolds, GoesOn, Nothing
    <3>3. Refining'
      BY <1>2, <2>1, <2>3 DEF Refining, GoesOn, Given, Recognised
    <3>4. TaskHolds'
      BY <2>1, <2>3, <3>3, GivenFixed DEF TaskHolds, GoesOn, Given
    <3>5. QED
      BY <3>1, <3>2, <3>4 DEF Story
  <2>4. QED
    BY <1>2, <2>2, <2>3 DEF Greeted
<1>3. QED
  BY <1>1, <1>2

\* Behind a handshake that succeeded.
EntersTls ==
  /\ GoesOn /\ intensity > 0 /\ ~tunnel /\ server.tls /\ TlsTried
  /\ banner \in BOOLEAN /\ ~Recognised(banner) /\ facts' = TRUE

\* One more connection, which will tell nothing of the service.
LEMMA OpenKeeps ==
  ASSUME EntersTls, UNCHANGED <<banner, agenda>>, NEW what \in {"legacy", "greeting"}, NEW n,
         Open(what, "tls", n, FALSE), what = "greeting" => port \notin HTTP_TLS_PORTS
  PROVE  Story'
<1> USE DEF EntersTls, GoesOn
<1>1. /\ at' = "open" /\ task' = [what |-> what, of |-> "tls", n |-> n, heard |-> FALSE]
      /\ UNCHANGED <<tunnel, found>>
  BY DEF Open
<1>2. TypeOK' /\ BeginHolds' /\ ResultHolds'
  BY <1>1 DEF TypeOK, BeginHolds, ResultHolds, Nothing
<1>3. Entering'
  BY <1>1 DEF Entering, Given
<1>4. TaskHolds'
  BY <1>1, <1>3, GivenFixed DEF TaskHolds, Given, Recognised
<1>5. QED
  BY <1>2, <1>4 DEF Story

\* A greeting is waited for, or the detectors are asked at once.
LEMMA InsideKeeps ==
  ASSUME EntersTls, Inside
  PROVE  Story'
<1>1. CASE port \in HTTP_TLS_PORTS
  <2>1. banner' = FALSE /\ Follow(Candidates(TRUE), TRUE)
    BY <1>1 DEF Inside
  <2>2. Reveals(Candidates(TRUE), TRUE) /\ Candidates(TRUE) \subseteq Steps(TRUE)
    BY <1>1 DEF Reveals, Steps, EntersTls
  <2>3. ~Recognised(banner')
    BY <2>1 DEF Recognised
  <2>4. QED
    BY <2>1, <2>2, <2>3, FollowKeeps DEF EntersTls
<1>2. CASE port \notin HTTP_TLS_PORTS
  BY <1>2, OpenKeeps DEF Inside
<1>3. QED
  BY <1>1, <1>2

\* The older versions are tried first, when there is time for it.
LEMMA LegacyKeeps ==
  ASSUME EntersTls, NEW n, Legacy(n)
  PROVE  Story'
  BY OpenKeeps, InsideKeeps DEF Legacy

\* In the middle of a connection, whose facts are what they were.
OnConnection == GoesOn /\ Busy /\ TaskHolds /\ facts' = facts

\* A question that got nothing out of the server is crossed off; what is left
\* still reveals it, unless the question was lost.
LEMMA OnwardKeeps ==
  ASSUME OnConnection, Asking, Onward, UNCHANGED banner,
         calm' => calm /\ (task.of = "tls" => ~server.tls) /\ (task.of # "tls" => ~Mine)
  PROVE  Story'
<1>1. /\ facts = tunnel /\ tunnel \in BOOLEAN /\ intensity > 0 /\ ~Recognised(banner)
      /\ facts => server.tls /\ TlsTried
  BY DEF OnConnection, TaskHolds, Asking, GoesOn, TypeOK
<1>2. agenda \subseteq Steps(tunnel)
  BY DEF Asking
<1>3. calm' => Reveals(agenda, tunnel)
  <2>1. SUFFICES ASSUME calm' PROVE Reveals(agenda, tunnel)
    OBVIOUS
  <2>2. Reveals({task.of} \cup agenda, tunnel) /\ "tls" \notin Candidates(tunnel)
    BY <2>1, DetectorFacts DEF Asking, Candidates
  <2>3. CASE server.tls = tunnel
    <3>1. server.speaks \in Candidates(tunnel) => server.speaks # task.of
      BY <2>1, <2>2, <2>3 DEF Mine
    <3>2. QED
      BY <2>2, <2>3, <3>1 DEF Reveals
  <2>4. CASE server.tls # tunnel
    <3>1. server.tls
      BY <1>1, <2>4 DEF OnConnection, GoesOn, WorldHolds
    <3>2. task.of # "tls"
      BY <2>1, <3>1
    <3>3. QED
      BY <2>2, <2>4, <3>2 DEF Reveals
  <2>5. QED
    BY <2>3, <2>4
<1>4. Follow(agenda, tunnel)
  BY DEF Onward
<1>5. ~Recognised(banner')
  BY <1>1
<1>6. facts' = tunnel
  BY <1>1 DEF OnConnection
<1>7. QED
  BY <1>1, <1>2, <1>3, <1>4, <1>5, <1>6, FollowKeeps DEF OnConnection

\* The second question of a detector.
LEMMA AskAgainKeeps ==
  ASSUME OnConnection, Asking, task.what = "ask", NEW heard \in BOOLEAN, Open("ask", task.of, 2, heard),
         UNCHANGED <<agenda, banner>>, heard => Mine, calm' => calm
  PROVE  Story'
<1> USE DEF OnConnection, GoesOn
<1>1. /\ at' = "open" /\ task' = [what |-> "ask", of |-> task.of, n |-> 2, heard |-> heard]
      /\ UNCHANGED <<tunnel, found>>
  BY DEF Open
<1>2. TypeOK' /\ BeginHolds' /\ ResultHolds'
  BY <1>1 DEF TypeOK, BeginHolds, ResultHolds, Nothing, TaskHolds
<1>3. tunnel \in BOOLEAN /\ task.of # "tls"
  BY DEF TypeOK, Asking
<1>4. Asking'
  BY <1>1, <1>3, GivenFixed DEF Asking, Steps, Reveals, Given, Mine
<1>5. TaskHolds'
  BY <1>1, <1>4, GivenFixed DEF TaskHolds, Given, Recognised
<1>6. QED
  BY <1>2, <1>5 DEF Story

\* What the connection is for tells which of the three it is.
LEMMA TaskCases ==
  ASSUME OnConnection
  PROVE  /\ task.what = "refine" => Refining
         /\ task.what \in {"ask", "inspect"} => Asking
         /\ task.what = "inspect" <=> task.what \in {"ask", "inspect"} /\ task.of = "tls"
         /\ task.what \in {"legacy", "greeting"} =>
              Entering /\ facts /\ ~tunnel /\ server.tls /\ TlsTried /\ ~Recognised(banner)
         /\ task.what \notin {"legacy", "greeting"} => facts = tunnel
         /\ intensity > 0 /\ {facts, tunnel, banner} \subseteq BOOLEAN
<1> USE DEF OnConnection, GoesOn, TaskHolds
<1>1. {facts, tunnel, banner} \subseteq BOOLEAN /\ intensity > 0
  BY DEF TypeOK
<1>2. task.what \notin {"legacy", "greeting"} => facts = tunnel
  BY <1>1
<1>3. QED
  BY <1>1, <1>2 DEF Asking, Refining, Entering

\* A connection that fails costs detail: what the greeting and the handshake
\* showed is kept, and all that is left is still asked.
LEMMA FailedKeeps ==
  ASSUME OnConnection, Failed,
         calm' => /\ calm
                  /\ \/ task.what = "legacy"
                     \/ task.what = "ask" /\ ~Mine
                     \/ task.what = "inspect" /\ ~server.tls
  PROVE  Story'
<1>0. GoesOn /\ facts' = facts
  BY DEF OnConnection
<1>1. CASE task.what = "refine"
  <2>1. Return(task.of) /\ UNCHANGED banner /\ Refining /\ facts = tunnel /\ tunnel \in BOOLEAN
    BY <1>1, TaskCases DEF Failed
  <2>2. task.of = server.speaks /\ task.of \in DOMAIN Detector /\ server.tls = tunnel
    BY <2>1, DetectorFacts DEF Refining, Recognised
  <2>3. ~calm'
    BY <1>1
  <2>4. QED
    BY <1>0, <2>1, <2>2, <2>3, ReturnKeeps
<1>2. CASE task.what = "inspect"
  BY <1>2, TaskCases, OnwardKeeps DEF Failed
<1>3. CASE task.what = "legacy"
  <2>1. EntersTls
    BY <1>0, <1>3, TaskCases DEF EntersTls
  <2>2. QED
    BY <1>3, <2>1, LegacyKeeps DEF Failed
<1>4. CASE task.what = "greeting"
  <2>1. ~Recognised(banner') /\ Greeted(Candidates(TRUE), TRUE) /\ facts' = TRUE /\ ~calm'
    BY <1>0, <1>4, TaskCases DEF Failed, Recognised
  <2>2. Candidates(TRUE) \subseteq Steps(TRUE)
    BY DEF Steps
  <2>3. QED
    BY <1>0, <1>4, <2>1, <2>2, TaskCases, GreetedKeeps
<1>5. CASE task.what = "ask"
  <2>1. Asking /\ UNCHANGED banner /\ task.of # "tls"
    BY <1>5, TaskCases DEF Failed
  <2>2. CASE task.of = "smb" /\ task.n = 1
    <3>1. Open("ask", task.of, 2, FALSE) /\ UNCHANGED agenda
      BY <1>5, <2>2 DEF Failed
    <3>2. QED
      BY <1>5, <2>1, <3>1, AskAgainKeeps
  <2>3. CASE ~(task.of = "smb" /\ task.n = 1) /\ task.heard
    <3>1. Return(task.of) /\ Mine /\ ~calm'
      BY <1>5, <2>1, <2>3 DEF Failed, Asking
    <3>2. task.of \in DOMAIN Detector
      BY <2>1, DetectorFacts DEF Asking, Steps, Candidates
    <3>3. QED
      BY <1>0, <1>5, <2>1, <3>1, <3>2, TaskCases, ReturnKeeps DEF Mine, OnConnection, TaskHolds
  <2>4. CASE ~(task.of = "smb" /\ task.n = 1) /\ ~task.heard
    <3>1. Onward
      BY <1>5, <2>4 DEF Failed
    <3>2. QED
      BY <1>5, <2>1, <3>1, OnwardKeeps
  <2>5. QED
    BY <2>2, <2>3, <2>4
<1>6. QED
  BY <1>1, <1>2, <1>3, <1>4, <1>5 DEF Failed

\* A reply names the server that gave it.
LEMMA AnsweredKeeps ==
  ASSUME OnConnection, Answered, task.what = "ask" => Mine, calm' = calm
  PROVE  Story'
<1>0. GoesOn /\ facts' = facts
  BY DEF OnConnection
<1>1. CASE task.what = "refine"
  <2>1. Return(task.of) /\ UNCHANGED banner /\ Refining /\ facts = tunnel /\ tunnel \in BOOLEAN
    BY <1>1, TaskCases DEF Answered
  <2>2. task.of = server.speaks /\ task.of \in DOMAIN Detector /\ server.tls = tunnel
    BY <2>1, DetectorFacts DEF Refining, Recognised
  <2>3. Knowable = [service |-> task.of, tls |-> tunnel]
    BY <1>0, <1>1, <2>1, <2>2, TaskCases, KnownAs DEF GoesOn, Refining, Recognised, OnConnection, TaskHolds
  <2>4. QED
    BY <1>0, <2>1, <2>2, <2>3, ReturnKeeps
<1>2. CASE task.what = "greeting"
  <2>1. banner' = server.greets /\ Greeted(Candidates(TRUE), TRUE) /\ facts' = TRUE
    BY <1>0, <1>2, TaskCases DEF Answered
  <2>2. Candidates(TRUE) \subseteq Steps(TRUE)
    BY DEF Steps
  <2>3. port \notin HTTP_TLS_PORTS /\ server.tls /\ TlsTried /\ intensity > 0
    BY <1>2, TaskCases DEF Entering
  <2>4. ~Recognised(banner') => Reveals(Candidates(TRUE), TRUE)
    BY <1>0, <2>1, <2>3 DEF Reveals, Recognised, GoesOn, WorldHolds
  <2>5. server.tls = TRUE
    BY <1>0, <2>3 DEF GoesOn, WorldHolds
  <2>6. QED
    BY <1>0, <2>1, <2>2, <2>3, <2>4, <2>5, GreetedKeeps
<1>3. CASE task.what = "ask"
  <2>1. Asking /\ UNCHANGED banner /\ task.of # "tls" /\ Mine
    BY <1>3, TaskCases DEF Answered
  <2>2. CASE Open("ask", task.of, 2, TRUE) /\ UNCHANGED agenda
    BY <1>3, <2>1, <2>2, AskAgainKeeps
  <2>3. CASE Return(task.of)
    <3>1. task.of \in Candidates(tunnel) /\ task.of \in DOMAIN Detector
      BY <2>1, DetectorFacts DEF Asking, Steps, Candidates
    <3>2. Knowable = [service |-> task.of, tls |-> tunnel]
      BY <1>0, <1>3, <2>1, <3>1, TaskCases, KnownAs DEF GoesOn, Mine, OnConnection, TaskHolds
    <3>3. QED
      BY <1>0, <1>3, <2>1, <2>3, <3>1, <3>2, TaskCases, ReturnKeeps DEF Mine
  <2>4. QED
    BY <1>3, <2>2, <2>3 DEF Answered
<1>4. QED
  BY <1>1, <1>2, <1>3 DEF Answered

-----------------------------------------------------------------------------
(* The steps.                                                              *)

\* However identify goes on, it opens another connection or returns.
LEMMA GoesTo ==
  ASSUME \/ Failed \/ Answered \/ Inside \/ (\E n : Legacy(n))
         \/ Greeted(Plan, FALSE) \/ Return("none")
  PROVE  at' \in {"open", "returned"}
<1>1. ASSUME NEW steps, NEW inTls, Follow(steps, inTls) PROVE at' \in {"open", "returned"}
  BY <1>1 DEF Follow
<1>2. ASSUME NEW steps, NEW inTls, Greeted(steps, inTls) PROVE at' \in {"open", "returned"}
  BY <1>1, <1>2 DEF Greeted
<1>3. ASSUME NEW service, Return(service) PROVE at' \in {"open", "returned"}
  BY <1>3 DEF Return
<1>4. ASSUME NEW what, NEW of, NEW n, NEW heard, Open(what, of, n, heard) PROVE at' \in {"open", "returned"}
  BY <1>4 DEF Open
<1>5. Inside => at' \in {"open", "returned"}
  BY <1>1, <1>4 DEF Inside
<1>6. (\E n : Legacy(n)) => at' \in {"open", "returned"}
  BY <1>4, <1>5 DEF Legacy
<1>7. Failed => at' \in {"open", "returned"}
  BY <1>1, <1>2, <1>3, <1>4, <1>6 DEF Failed, Onward
<1>8. Answered => at' \in {"open", "returned"}
  BY <1>2, <1>3, <1>4 DEF Answered
<1>9. QED
  BY <1>2, <1>3, <1>5, <1>6, <1>7, <1>8

\* The beginning.
LEMMA InitInv == Init => IInv
<1> SUFFICES ASSUME Init PROVE IInv
  OBVIOUS
<1>1. /\ at = "begin" /\ agenda = {} /\ tunnel = FALSE /\ facts = FALSE /\ found = Nothing /\ cancel = FALSE
      /\ sockets = 0 /\ charged = 0 /\ opened = 0
  BY Zenon DEF Init
<1>2. intensity \in Nat /\ budget \in Nat
  BY FingerprintAssumption DEF Init
<1>3. server.greets \in BOOLEAN /\ server.tls \in BOOLEAN
  BY Zenon DEF Init
<1>4. (server.speaks \in Listens => server.greets) /\ (server.speaks \in Asks => ~server.greets)
  BY Zenon DEF Init
<1>5. banner \in {FALSE, server.greets /\ ~server.tls} /\ calm = (banner = (server.greets /\ ~server.tls))
  BY Zenon DEF Init
<1>6. banner \in BOOLEAN /\ calm \in BOOLEAN /\ (banner => server.greets /\ ~server.tls)
  BY <1>5, Zenon
<1>7. WorldHolds
  BY <1>2, <1>3, <1>4 DEF WorldHolds
<1>8. TypeOK
  <2>1. found.service = "none"
    BY <1>1 DEF Nothing
  <2>2. {banner, tunnel, facts, cancel, calm} \subseteq BOOLEAN
    BY <1>1, <1>6, Zenon
  <2>3. {charged, opened} \subseteq Nat /\ agenda \subseteq DOMAIN Detector \cup {"tls"}
    BY <1>1
  <2>4. QED
    BY <1>1, <2>1, <2>2, <2>3, Zenon DEF TypeOK
<1>9. BeginHolds
  BY <1>1, <1>5, <1>6, Zenon DEF BeginHolds
<1>10. TaskHolds /\ ResultHolds /\ PaidAndClosed
  BY <1>1, <1>2 DEF TaskHolds, ResultHolds, PaidAndClosed, Busy
<1>11. QED
  BY <1>7, <1>8, <1>9, <1>10 DEF IInv, Story

\* The greeting may say it all, or the plan is followed.
LEMMA BeginInv == ASSUME IInv, Begin PROVE Story'
<1>1. GoesOn /\ BeginHolds /\ at = "begin" /\ UNCHANGED <<banner, facts, calm>>
  BY DEF IInv, Story, GoesOn, Begin, Given, Money, TypeOK
<1>2. CASE intensity = 0
  <2>1. Return("none") /\ facts' = FALSE /\ tunnel = FALSE
    BY <1>1, <1>2 DEF Begin, GoesOn, TypeOK, BeginHolds
  <2>2. Knowable = [service |-> "none", tls |-> tunnel]
    BY <1>2, <2>1, Zenon DEF Knowable, Nothing
  <2>3. ~(intensity > 0)
    BY <1>2
  <2>4. facts' \in BOOLEAN /\ ~facts' /\ Return("none") /\ "none" \in DOMAIN Detector \cup {"none"}
    BY <2>1, Zenon
  <2>5. QED
    BY <1>1, <2>2, <2>3, <2>4, ReturnKeeps
<1>3. CASE intensity # 0
  <2>1. Greeted(Plan, FALSE)
    BY <1>3 DEF Begin
  <2>a. facts' = FALSE /\ intensity > 0
    BY <1>1, <1>3 DEF GoesOn, TypeOK, BeginHolds, WorldHolds
  <2>2. Plan \subseteq Steps(FALSE)
    BY DEF Plan, Steps, TriesTls, TlsTried
  <2>3. Recognised(banner') => server.tls = FALSE
    BY <1>1 DEF Recognised, BeginHolds, GoesOn, WorldHolds
  <2>4. calm' /\ ~Recognised(banner') => Reveals(Plan, FALSE)
    <3>1. SUFFICES ASSUME calm, ~Recognised(banner) PROVE Reveals(Plan, FALSE)
      BY <1>1
    <3>2. CASE server.tls
      BY <1>1, <3>1, <3>2 DEF Reveals, Plan, TriesTls, TlsTried, BeginHolds
    <3>3. CASE ~server.tls
      BY <1>1, <3>1, <3>3 DEF Reveals, Plan, Recognised, BeginHolds, GoesOn, WorldHolds
    <3>4. QED
      BY <3>2, <3>3
  <2>5. QED
    BY <1>1, <2>1, <2>a, <2>2, <2>3, <2>4, GreetedKeeps
<1>4. QED
  BY <1>2, <1>3

\* What a step on a connection starts from.
LEMMA Connection ==
  ASSUME IInv, Busy, UNCHANGED Given, {calm', cancel'} \subseteq BOOLEAN,
         {charged', opened'} \subseteq Nat, banner' \in BOOLEAN
  PROVE  GoesOn /\ TaskHolds
  BY DEF IInv, Story, GoesOn, Busy

\* A connection goes its way: only where it stands has changed.
LEMMA StandKeeps ==
  ASSUME IInv, Busy, UNCHANGED <<Given, banner, agenda, task, tunnel, facts, found, calm, cancel>>,
         {charged', opened'} \subseteq Nat, at' \in {"connecting", "handshake", "exchange"},
         at' = "handshake" => InTls,
         at' = "exchange" => task.what \notin {"inspect", "legacy"}
  PROVE  Story'
<1> USE DEF IInv, Story, Busy
<1>1. TypeOK' /\ BeginHolds' /\ ResultHolds'
  BY DEF TypeOK, BeginHolds, ResultHolds, Nothing
<1>2. Asking => Asking'
  BY GivenFixed DEF Asking, Steps, Reveals, Mine, Given, TypeOK
<1>3. Refining => Refining'
  BY DEF Refining, Given, Recognised
<1>4. Entering => Entering'
  BY DEF Entering, Given
<1>5. TaskHolds'
  BY <1>2, <1>3, <1>4, GivenFixed DEF TaskHolds, Given, Recognised, InTls
<1>6. QED
  BY <1>1, <1>5

\* The end of the budget and Stop leave nothing behind.
LEMMA EndKeeps ==
  ASSUME IInv, Busy, at' \in {"exhausted", "cancelled"},
         UNCHANGED <<Given, banner, agenda, task, tunnel, facts, found, calm, charged, opened, cancel>>
  PROVE  Story'
<1> USE DEF IInv, Story, Busy
<1>1. TypeOK' /\ BeginHolds' /\ ResultHolds'
  BY DEF TypeOK, BeginHolds, ResultHolds, Nothing
<1>2. TaskHolds'
  BY DEF TaskHolds
<1>3. QED
  BY <1>1, <1>2

\* A connection is dialled, unless the budget is used up.
LEMMA ConnectInv == ASSUME IInv, Connect PROVE Story'
<1>1. /\ at = "open" /\ Busy /\ UNCHANGED <<Given, facts, cancel, calm>> /\ TypeOK
      /\ {calm', cancel'} \subseteq BOOLEAN
  BY DEF Connect, Busy, IInv, Story, TypeOK
<1>2. CASE ~Exhausted
  <2>1. Take /\ Connecting
    BY <1>2 DEF Connect, Dial
  <2>2. /\ UNCHANGED <<banner, agenda, task, tunnel, found>> /\ at' = "connecting"
        /\ {charged', opened'} \subseteq Nat
    BY <1>1, <2>1 DEF Take, Connecting, TypeOK
  <2>3. QED
    BY <1>1, <2>2, StandKeeps
<1>3. CASE Exhausted /\ task.what = "legacy"
  <2>1. Inside /\ UNCHANGED <<charged, opened>>
    BY <1>3 DEF Connect, Dial, Money
  <2>2. {charged', opened'} \subseteq Nat
    BY <1>1, <2>1 DEF TypeOK
  <2>3. banner' \in BOOLEAN
    BY <1>1, <2>1 DEF Inside, TypeOK
  <2>4. OnConnection
    BY <1>1, <2>2, <2>3, Connection DEF OnConnection
  <2>5. EntersTls
    BY <1>1, <1>3, <2>4, TaskCases DEF EntersTls, OnConnection
  <2>6. QED
    BY <2>1, <2>5, InsideKeeps
<1>4. CASE Exhausted /\ task.what # "legacy"
  <2>1. Raise("exhausted") /\ UNCHANGED <<banner, charged, opened>>
    BY <1>4 DEF Connect, Dial, Money
  <2>2. QED
    BY <1>1, <2>1, EndKeeps DEF Raise
<1>5. QED
  BY <1>2, <1>3, <1>4

\* A version that this system cannot attempt.
LEMMA UnsupportedInv == ASSUME IInv, Unsupported PROVE Story'
<1>1. /\ Busy /\ UNCHANGED <<Given, opened, facts, cancel, calm>> /\ TypeOK
      /\ task.what = "legacy" /\ Legacy(task.n + 1) /\ charged' = charged + 1
  BY DEF Unsupported, Take, Busy, IInv, Story
<1>2. {charged', opened'} \subseteq Nat /\ {calm', cancel'} \subseteq BOOLEAN
  BY <1>1 DEF TypeOK
<1>3. banner' \in BOOLEAN
  BY <1>1 DEF Legacy, Inside, TypeOK
<1>4. OnConnection
  BY <1>1, <1>2, <1>3, Connection DEF OnConnection
<1>5. EntersTls
  BY <1>1, <1>4, TaskCases DEF EntersTls, OnConnection
<1>6. QED
  BY <1>1, <1>5, LegacyKeeps

\* The connection stands.
LEMMA ConnectedInv == ASSUME IInv, Connected PROVE Story'
<1>1. /\ Busy /\ UNCHANGED <<Given, banner, agenda, task, tunnel, facts, found, calm, cancel, charged, opened>>
      /\ at' = IF InTls THEN "handshake" ELSE "exchange"
  BY DEF Connected, Busy, Money
<1>2. {charged', opened'} \subseteq Nat
  BY <1>1 DEF IInv, Story, TypeOK
<1>3. ~InTls => task.what \notin {"inspect", "legacy"}
  BY DEF InTls
<1>4. QED
  BY <1>1, <1>2, <1>3, StandKeeps

\* What a step on a standing connection starts from, when nothing is paid.
LEMMA Standing ==
  ASSUME IInv, at \in {"connecting", "handshake", "exchange"}, UNCHANGED <<Given, Money, facts, cancel>>,
         calm' \in BOOLEAN, Failed \/ Answered \/ UNCHANGED banner
  PROVE  OnConnection
<1>1. Busy /\ TypeOK /\ WorldHolds
  BY DEF Busy, IInv, Story
<1>2. banner' \in BOOLEAN
  <2>1. server.greets \in BOOLEAN /\ banner \in BOOLEAN
    BY <1>1 DEF WorldHolds, TypeOK
  <2>2. Failed => banner' \in BOOLEAN
    <3>1. ASSUME NEW n, Legacy(n) PROVE banner' \in BOOLEAN
      BY <2>1, <3>1 DEF Legacy, Inside
    <3>2. QED
      BY <2>1, <3>1 DEF Failed
  <2>3. Answered => banner' \in BOOLEAN
    BY <2>1 DEF Answered
  <2>4. QED
    BY <2>1, <2>2, <2>3
<1>3. {calm', cancel'} \subseteq BOOLEAN /\ {charged', opened'} \subseteq Nat
  BY <1>1 DEF TypeOK, Money
<1>4. QED
  BY <1>1, <1>2, <1>3, Connection DEF OnConnection

\* It does not, or is reset.
LEMMA RefusedInv == ASSUME IInv, Refused PROVE Story'
<1>1. /\ Failed /\ calm' = (calm /\ at = "exchange" /\ task.what = "ask" /\ ~Mine)
      /\ at \in {"connecting", "handshake", "exchange"} /\ UNCHANGED <<Given, Money, facts, cancel>>
  BY DEF Refused
<1>2. calm' \in BOOLEAN
  BY <1>1
<1>3. OnConnection
  BY <1>1, <1>2, Standing
<1>4. QED
  BY <1>1, <1>3, FailedKeeps

\* TLS is there: its facts are gathered, and the way inside begins.
LEMMA HandshakeInv == ASSUME IInv, Handshake PROVE Story'
<1>1. /\ at = "handshake" /\ server.tls /\ UNCHANGED <<Given, Money, cancel, calm>>
      /\ Busy /\ TypeOK /\ TaskHolds /\ WorldHolds /\ ResultHolds
  BY DEF Handshake, Busy, IInv, Story
<1>2. {calm', cancel'} \subseteq BOOLEAN /\ {charged', opened'} \subseteq Nat
  BY <1>1 DEF TypeOK, Money
<1>3. ASSUME task.what \in {"inspect", "legacy"}, facts' = TRUE, NEW n, Legacy(n) \/ Inside
      PROVE  Story'
  <2>1. banner' \in BOOLEAN
    BY <1>1, <1>3 DEF Legacy, Inside, TypeOK
  <2>2. GoesOn
    BY <1>1, <1>2, <2>1 DEF GoesOn, Busy
  <2>3. intensity > 0 /\ ~Recognised(banner) /\ ~tunnel /\ TlsTried
    <3>1. CASE task.what = "legacy"
      BY <1>1, <3>1 DEF TaskHolds, Asking, Refining, Entering
    <3>2. CASE task.what = "inspect"
      <4>1. Asking /\ task.of = "tls" /\ intensity > 0 /\ ~Recognised(banner)
        BY <1>1, <3>2 DEF TaskHolds, Asking, Refining, Entering
      <4>2. "tls" \in Steps(tunnel) /\ "tls" \notin Candidates(tunnel)
        BY <4>1, DetectorFacts DEF Asking, Candidates
      <4>3. QED
        BY <4>1, <4>2 DEF Steps
    <3>3. QED
      BY <1>3, <3>1, <3>2
  <2>4. EntersTls
    BY <1>1, <1>3, <2>2, <2>3 DEF EntersTls, TypeOK
  <2>5. QED
    BY <1>3, <2>4, LegacyKeeps, InsideKeeps
<1>4. CASE task.what = "inspect"
  <2>1. facts' = TRUE /\ (Legacy(1) \/ Inside)
    BY <1>4 DEF Handshake
  <2>2. QED
    BY <1>3, <1>4, <2>1
<1>5. CASE task.what = "legacy"
  <2>1. Legacy(task.n + 1) /\ UNCHANGED facts
    BY <1>5 DEF Handshake
  <2>2. facts = TRUE
    BY <1>1, <1>5 DEF TaskHolds, TypeOK
  <2>3. QED
    BY <1>3, <1>5, <2>1, <2>2
<1>6. CASE task.what \in {"ask", "refine", "greeting"}
  <2>1. at' = "exchange" /\ UNCHANGED <<banner, agenda, task, tunnel, found, facts>>
    BY <1>6 DEF Handshake
  <2>2. QED
    BY <1>1, <1>2, <1>6, <2>1, StandKeeps
<1>7. QED
  BY <1>4, <1>5, <1>6 DEF Handshake

\* TLS is not there, or says no.
LEMMA HandshakeFailsInv == ASSUME IInv, HandshakeFails PROVE Story'
<1>1. /\ Failed /\ calm' = (calm /\ (~server.tls \/ task.what = "legacy"))
      /\ at = "handshake" /\ UNCHANGED <<Given, Money, facts, cancel>>
  BY DEF HandshakeFails
<1>2. {calm, server.tls} \subseteq BOOLEAN
  BY DEF IInv, Story, TypeOK, WorldHolds
<1>3. calm' \in BOOLEAN
  BY <1>1, <1>2
<1>4. OnConnection
  BY <1>1, <1>3, Standing
<1>5. ~server.tls => task.what = "inspect"
  <2>1. InTls /\ (facts => server.tls)
    BY <1>1, <1>4 DEF OnConnection, TaskHolds, Busy
  <2>2. QED
    BY <1>4, <2>1, TaskCases DEF InTls
<1>6. QED
  BY <1>1, <1>2, <1>4, <1>5, FailedKeeps

\* The reply of whoever is there.
LEMMA ExchangeInv == ASSUME IInv, Exchange PROVE Story'
<1>1. /\ at = "exchange" /\ UNCHANGED <<Given, Money, facts, cancel, calm>>
      /\ IF task.what = "ask" /\ ~Mine THEN Failed ELSE Answered
  BY DEF Exchange
<1>2. calm' \in BOOLEAN
  BY <1>1 DEF IInv, Story, TypeOK
<1>3. OnConnection
  BY <1>1, <1>2, Standing
<1>4. QED
  BY <1>1, <1>3, FailedKeeps, AnsweredKeeps

\* Stop ends the detection with nothing.
LEMMA CancelInv == ASSUME IInv, CancelSeen PROVE Story'
  BY EndKeeps DEF CancelSeen, Raise, Busy, Money

\* Until the connection sees it, Stop changes nothing.
LEMMA StopInv == ASSUME IInv, Stop PROVE Story'
<1> USE DEF IInv, Story, Stop
<1>1. TypeOK' /\ BeginHolds' /\ ResultHolds'
  BY GivenFixed DEF TypeOK, BeginHolds, ResultHolds, Given, Money, Recognised
<1>2. TaskHolds'
  BY GivenFixed DEF TaskHolds, Busy, Asking, Refining, Entering, Steps, Reveals, Mine, Given, Recognised, InTls, TypeOK
<1>3. QED
  BY <1>1, <1>2

\* Every connection is paid before it is made, and closed by the step that
\* ends it.
LEMMA PaidInv == ASSUME IInv, Next PROVE PaidAndClosed'
<1>1. TypeOK /\ PaidAndClosed /\ budget \in Nat
  BY DEF IInv, Story, WorldHolds
<1> USE <1>1 DEF TypeOK, PaidAndClosed, Given, Money
<1>2. CASE Begin
  <2>1. at' \in {"open", "returned"}
    BY <1>2, GoesTo DEF Begin
  <2>2. QED
    BY <1>2, <2>1 DEF Begin
<1>3. CASE Connect /\ ~Exhausted
  BY <1>3 DEF Connect, Dial, Exhausted, Take, Connecting
<1>4. CASE Connect /\ Exhausted
  <2>1. at' \in {"open", "returned", "exhausted"}
    BY <1>4, GoesTo DEF Connect, Dial, Raise
  <2>2. QED
    BY <1>4, <2>1 DEF Connect, Dial
<1>5. CASE Unsupported
  <2>1. at' \in {"open", "returned"}
    BY <1>5, GoesTo DEF Unsupported
  <2>2. QED
    BY <1>5, <2>1 DEF Unsupported, Take, Exhausted
<1>6. CASE Connected
  BY <1>6 DEF Connected
<1>7. CASE Refused \/ HandshakeFails \/ Exchange
  <2>1. at' \in {"open", "returned"}
    BY <1>7, GoesTo DEF Refused, HandshakeFails, Exchange
  <2>2. QED
    BY <1>7, <2>1 DEF Refused, HandshakeFails, Exchange, Close
<1>8. CASE Handshake
  <2>1. CASE task.what \in {"ask", "refine", "greeting"}
    BY <1>8, <2>1 DEF Handshake
  <2>2. CASE task.what \in {"inspect", "legacy"}
    <3>1. at' \in {"open", "returned"}
      BY <1>8, <2>2, GoesTo DEF Handshake
    <3>2. QED
      BY <1>8, <2>2, <3>1 DEF Handshake, Close
  <2>3. QED
    BY <1>8, <2>1, <2>2 DEF Handshake
<1>9. CASE CancelSeen
  BY <1>9 DEF CancelSeen, Close, Raise
<1>10. CASE Stop
  BY <1>10 DEF Stop
<1>11. CASE Terminated
  BY <1>11 DEF Terminated, vars
<1>12. QED
  BY <1>2, <1>3, <1>4, <1>5, <1>6, <1>7, <1>8, <1>9, <1>10, <1>11 DEF Next, Step

\* The invariant is inductive.
LEMMA NextInv == IInv /\ [Next]_vars => IInv'
<1> SUFFICES ASSUME IInv, [Next]_vars PROVE IInv'
  OBVIOUS
<1>1. CASE UNCHANGED vars
  <2>1. UNCHANGED Given
    BY <1>1 DEF vars, Given
  <2>2. WorldHolds'
    BY <2>1, GivenFixed DEF IInv
  <2>3. TypeOK' /\ BeginHolds' /\ ResultHolds' /\ PaidAndClosed'
    BY <1>1, <2>1, GivenFixed DEF IInv, Story, TypeOK, BeginHolds, ResultHolds, PaidAndClosed, vars, Recognised
  <2>4. TaskHolds'
    BY <1>1, <2>1, GivenFixed
       DEF IInv, Story, TypeOK, TaskHolds, Busy, Asking, Refining, Entering, Steps, Reveals, Mine, vars, Recognised, InTls
  <2>5. QED
    BY <2>2, <2>3, <2>4 DEF IInv, Story
<1>2. CASE Next
  <2>1. UNCHANGED Given
    BY <1>2 DEF Next, Step, Begin, Connect, Unsupported, Connected, Refused, Handshake, HandshakeFails,
                Exchange, CancelSeen, Stop, Terminated, vars, Given
  <2>2. WorldHolds'
    BY <2>1, GivenFixed DEF IInv
  <2>3. Story'
    BY <1>1, <1>2, BeginInv, ConnectInv, UnsupportedInv, ConnectedInv, RefusedInv, HandshakeInv,
       HandshakeFailsInv, ExchangeInv, CancelInv, StopInv DEF Next, Step, Terminated, IInv
  <2>4. QED
    BY <1>2, <2>2, <2>3, PaidInv DEF IInv
<1>3. QED
  BY <1>1, <1>2

-----------------------------------------------------------------------------
(* Theorems.                                                               *)

\* What identify (fingerprint/__init__.py) has learnt, and what it may still
\* learn, are one and the same server at every moment of a detection.
THEOREM FingerprintInvariant == Spec => []IInv
  BY InitInv, NextInv, PTL DEF Spec

\* identify (fingerprint/__init__.py:154-170) finds what can be found: with no
\* failure on the way it returns what this server can be known as, whatever
\* the port, the intensity and the order of the detectors; and never anything else.
THEOREM Exactness == Spec => []NamesWhatIsThere
<1>1. IInv => NamesWhatIsThere
  BY DEF IInv, Story, ResultHolds, NamesWhatIsThere, Nothing
<1>2. QED
  BY <1>1, FingerprintInvariant, PTL

\* A connection that fails after the greeting or the handshake
\* ("Any failure just means less detail", fingerprint/__init__.py:178) takes nothing back.
THEOREM Retention == Spec => []NothingLearntIsForgotten
<1>1. IInv => NothingLearntIsForgotten
  BY DEF IInv, Story, ResultHolds, NothingLearntIsForgotten
<1>2. QED
  BY <1>1, FingerprintInvariant, PTL

\* Probe.connect pays ProbeBudget.take for every connection and closes each
\* (fingerprint/base.py:75-92, fingerprint/tls.py:47-73).
THEOREM Payment == Spec => []PaidAndClosed
<1>1. IInv => PaidAndClosed
  BY DEF IInv
<1>2. QED
  BY <1>1, FingerprintInvariant, PTL

-----------------------------------------------------------------------------
(* What a public address makes worse.                                      *)

\* Weak evidence takes a step from every severity, and keeps their order.
LEMMA SevKeepsOrder ==
  ASSUME NEW a \in 0 .. 3, NEW b \in 0 .. 3, a <= b, NEW confidence
  PROVE  Sev(a, confidence) <= Sev(b, confidence)
BY DEF Sev, Lower, Greater, Info

\* What a finding says of itself.
LEMMA FindingSays ==
  ASSUME NEW id, NEW severity, NEW p, NEW proto, NEW confidence
  PROVE  /\ Finding(id, severity, p, proto, confidence).id = id
         /\ Finding(id, severity, p, proto, confidence).port = p.port
         /\ Finding(id, severity, p, proto, confidence).severity = severity
BY DEF Finding

\* A finding and one on the same port with the same identity, no milder.
Outweighs(g, f) == f.id = g.id /\ f.port = g.port /\ f.severity <= g.severity

\* Rung by rung the ladder is the same, and no milder in public.
LEMMA LadderRises ==
  ASSUME NEW p, NEW i \in 1 .. 9
  PROVE  /\ Ladder(p, TRUE)[i].fits = Ladder(p, FALSE)[i].fits
         /\ Outweighs(Ladder(p, TRUE)[i].is, Ladder(p, FALSE)[i].is)
<1> DEFINE conf == Conf(p)
<1>1. \A a, b \in 0 .. 3 : a <= b => Sev(a, conf) <= Sev(b, conf)
  BY SevKeepsOrder
<1>2. /\ Sev(3, conf) <= Sev(3, conf) /\ Sev(2, conf) <= Sev(3, conf) /\ Sev(1, conf) <= Sev(3, conf)
      /\ Sev(1, conf) <= Sev(2, conf)
  BY <1>1
<1>3. Lower(3) = 2 /\ Lower(2) = 1
  BY DEF Lower, Greater, Info
<1>4. High = 3 /\ Medium = 2 /\ Low = 1
  BY DEF High, Medium, Low
<1>5. i = 1 \/ i = 2 \/ i = 3 \/ i = 4 \/ i = 5 \/ i = 6 \/ i = 7 \/ i = 8 \/ i = 9
  OBVIOUS
<1>6. CASE i = 1
  BY <1>2, <1>4, <1>6 DEF Ladder, InPublic, Outweighs, Finding
<1>7. CASE i = 2
  <2>1. CASE p.starttls = "yes"
    BY <1>2, <1>3, <1>4, <1>7, <2>1 DEF Ladder, InPublic, Outweighs, Finding
  <2>2. CASE p.starttls # "yes"
    BY <1>2, <1>4, <1>7, <2>2 DEF Ladder, InPublic, Outweighs, Finding
  <2>. QED  BY <2>1, <2>2
<1>8. CASE i = 3
  BY <1>2, <1>4, <1>8 DEF Ladder, InPublic, Outweighs, Finding
<1>9. CASE i = 4
  BY <1>2, <1>4, <1>9 DEF Ladder, InPublic, Outweighs, Finding
<1>10. CASE i = 5
  BY <1>2, <1>4, <1>10 DEF Ladder, InPublic, Outweighs, Finding
<1>11. CASE i = 6
  BY <1>2, <1>4, <1>11 DEF Ladder, InPublic, Outweighs, Finding
<1>12. CASE i = 7
  BY <1>2, <1>4, <1>12 DEF Ladder, InPublic, Outweighs, Finding
<1>13. CASE i = 8
  BY <1>2, <1>4, <1>13 DEF Ladder, InPublic, Outweighs, Finding
<1>14. CASE i = 9
  BY <1>2, <1>4, <1>14 DEF Ladder, InPublic, Outweighs, Finding
<1>. QED  BY <1>5, <1>6, <1>7, <1>8, <1>9, <1>10, <1>11, <1>12, <1>13, <1>14

\* The ladder has nine rungs.
LEMMA LadderDomain ==
  ASSUME NEW p, NEW external
  PROVE  DOMAIN Ladder(p, external) = 1 .. 9
BY DEF Ladder

\* So the rung that counts is the same one.
LEMMA FirstRungRises ==
  ASSUME NEW p, NEW f \in FirstRung(Ladder(p, FALSE))
  PROVE  \E g \in FirstRung(Ladder(p, TRUE)) : Outweighs(g, f)
<1> DEFINE here == Ladder(p, FALSE)
           there == Ladder(p, TRUE)
<1>1. \A i \in 1 .. 9 : there[i].fits = here[i].fits /\ Outweighs(there[i].is, here[i].is)
  BY LadderRises
<1>2. DOMAIN here = 1 .. 9 /\ DOMAIN there = 1 .. 9
  BY LadderDomain
<1>3. f \in FirstRung(here)
  OBVIOUS
<1> HIDE DEF here, there
<1>4. PICK i \in 1 .. 9 : here[i].fits /\ (\A k \in 1 .. i - 1 : ~here[k].fits) /\ f = here[i].is
  BY <1>2, <1>3 DEF FirstRung
<1>5. there[i].fits /\ \A k \in 1 .. i - 1 : ~there[k].fits
  BY <1>1, <1>4
<1>6. there[i].is \in FirstRung(there)
  BY <1>2, <1>5 DEF FirstRung
<1>7. Outweighs(there[i].is, f)
  BY <1>1, <1>4
<1>. QED  BY <1>6, <1>7 DEF there

\* What stays as it is outweighs itself.
LEMMA SameOutweighs ==
  ASSUME NEW id, NEW proto, NEW p, NEW confidence, NEW a \in 0 .. 3, NEW b \in 0 .. 3, a <= b
  PROVE  Outweighs(Finding(id, b, p, proto, confidence), Finding(id, a, p, proto, confidence))
BY DEF Outweighs, Finding

\* The exposure of a port, and in public more of it.
LEMMA ExposureRises ==
  ASSUME NEW p, NEW f \in Exposure(p, FALSE)
  PROVE  \E g \in Exposure(p, TRUE) : Outweighs(g, f)
<1>1. CASE p.proto = "tcp" /\ f \in FirstRung(Ladder(p, FALSE))
  <2>1. PICK g \in FirstRung(Ladder(p, TRUE)) : Outweighs(g, f)
    BY <1>1, FirstRungRises
  <2>2. g \in Exposure(p, TRUE)
    BY <1>1, <2>1 DEF Exposure
  <2>. QED  BY <2>1, <2>2
<1>2. CASE p.proto = "udp" /\ p.detected = "memcached" /\ f = Finding("memcached", High, p, "udp", 97)
  <2>1. f \in Exposure(p, TRUE)
    BY <1>2 DEF Exposure, When
  <2>2. Outweighs(f, f)
    BY <1>2, SameOutweighs DEF High
  <2>. QED  BY <2>1, <2>2
<1>3. CASE p.detected = "snmp" /\ f = Finding("snmp_default", Medium, p, "udp", 95)
  <2>1. Finding("snmp_default", High, p, "udp", 95) \in Exposure(p, TRUE)
    BY <1>3 DEF Exposure, When, InPublic
  <2>2. Outweighs(Finding("snmp_default", High, p, "udp", 95), f)
    BY <1>3, SameOutweighs DEF High, Medium
  <2>. QED  BY <2>1, <2>2
<1>4. CASE p.detected = "tftp" /\ f = Finding("tftp", Medium, p, "udp", 90)
  <2>1. f \in Exposure(p, TRUE)
    BY <1>4 DEF Exposure, When
  <2>2. Outweighs(f, f)
    BY <1>4, SameOutweighs DEF Medium
  <2>. QED  BY <2>1, <2>2
<1>5. \/ p.proto = "tcp" /\ f \in FirstRung(Ladder(p, FALSE))
      \/ p.proto = "udp" /\ p.detected = "memcached" /\ f = Finding("memcached", High, p, "udp", 97)
      \/ p.detected = "snmp" /\ f = Finding("snmp_default", Medium, p, "udp", 95)
      \/ p.detected = "tftp" /\ f = Finding("tftp", Medium, p, "udp", 90)
  BY DEF Exposure, When, InPublic
<1>. QED  BY <1>1, <1>2, <1>3, <1>4, <1>5

\* What a protocol says of itself weighs the same everywhere, but for a
\* resolver that anybody may use.
LEMMA ProtocolRises ==
  ASSUME NEW p, NEW f \in Protocol(p, FALSE)
  PROVE  \E g \in Protocol(p, TRUE) : Outweighs(g, f)
<1> DEFINE open == p.detected = "dns" /\ p.recursion /\ p.proto = "tcp"
<1>1. CASE open /\ f = Finding("dns_recursion", Low, p, "tcp", 60)
  <2>1. Finding("dns_recursion", Medium, p, "tcp", 60) \in Protocol(p, TRUE)
    BY <1>1, Zenon DEF Protocol, When, InPublic
  <2>2. Outweighs(Finding("dns_recursion", Medium, p, "tcp", 60), f)
    BY <1>1, SameOutweighs DEF Low, Medium
  <2>. QED  BY <2>1, <2>2
<1>2. CASE ~(open /\ f = Finding("dns_recursion", Low, p, "tcp", 60))
  <2>1. f \in Protocol(p, TRUE)
    BY <1>2, Zenon DEF Protocol, When, InPublic
  <2>2. f.severity \in {Low, Medium, High}
    <3> DEFINE is(id, severity, c) == f = Finding(id, severity, p, "tcp", c)
    <3>1. \A id, severity, c : is(id, severity, c) => f.severity = severity
      BY FindingSays
    <3>2. \/ is("ssh_protocol1", High, 95) \/ is("ssh_protocol1", Medium, 90)
          \/ is("ssh_weak_crypto", IF p.weak = "strong" THEN Medium ELSE Low, 90)
          \/ is("smb1", High, 95) \/ is("smb_signing", Medium, 90)
          \/ is("rdp_weak_security", High, 90) \/ is("rdp_no_nla", Medium, 85)
          \/ is("dns_recursion", Low, 60) \/ is("smtp_plain_auth", Medium, 85)
          \/ is("smtp_no_starttls", Low, 80) \/ is("mail_plain", Medium, 80)
      BY DEF Protocol, When, InPublic
    <3> HIDE DEF is
    <3>. QED  BY <3>1, <3>2
  <2>3. Outweighs(f, f)
    BY <2>2 DEF Outweighs, Low, Medium, High
  <2>. QED  BY <2>1, <2>3
<1>. QED  BY <1>1, <1>2

\* An admin panel or a plain password weighs more in public.
LEMMA WebRises ==
  ASSUME NEW p, NEW f \in Web(p, FALSE)
  PROVE  \E g \in Web(p, TRUE) : Outweighs(g, f)
<1>1. CASE p.status /\ p.admin /\ f = Finding("admin_panel", Low, p, "tcp", 75)
  <2>1. Finding("admin_panel", Medium, p, "tcp", 75) \in Web(p, TRUE)
    BY <1>1 DEF Web, When, InPublic
  <2>2. Outweighs(Finding("admin_panel", Medium, p, "tcp", 75), f)
    BY <1>1, SameOutweighs DEF Low, Medium
  <2>. QED  BY <2>1, <2>2
<1>2. CASE p.status /\ p.basic /\ ~p.tls /\ f = Finding("basic_auth_plain", Medium, p, "tcp", 95)
  <2>1. Finding("basic_auth_plain", High, p, "tcp", 95) \in Web(p, TRUE)
    BY <1>2 DEF Web, When, InPublic
  <2>2. Outweighs(Finding("basic_auth_plain", High, p, "tcp", 95), f)
    BY <1>2, SameOutweighs DEF High, Medium
  <2>. QED  BY <2>1, <2>2
<1>3. \/ p.status /\ p.admin /\ f = Finding("admin_panel", Low, p, "tcp", 75)
      \/ p.status /\ p.basic /\ ~p.tls /\ f = Finding("basic_auth_plain", Medium, p, "tcp", 95)
  BY DEF Web, When, InPublic
<1>. QED  BY <1>1, <1>2, <1>3

\* The findings of a certificate have a severity of their own,
LEMMA OthersStay ==
  ASSUME NEW p, NEW f \in Certificate(p)
  PROVE  Outweighs(f, f)
<1>1. f.severity \in {Info, Low, Medium, High}
  BY DEF Certificate, When, Finding
<1>. QED  BY <1>1 DEF Outweighs, Info, Low, Medium, High

\* and so has that of a plain web port.
LEMMA PlainWebStays ==
  ASSUME NEW ports, NEW scanned, NEW f \in PlainWeb(ports, scanned)
  PROVE  Outweighs(f, f)
<1> DEFINE plain == {p \in {q \in ports : q.status} : ~p.tls /\ p.port # 9200}
           first == CHOOSE p \in plain : \A q \in plain : p.port <= q.port
<1>1. f \in When(~first.redirects, Finding("http_plain", Low, first, "tcp", 80))
  BY DEF PlainWeb
<1> HIDE DEF first
<1>2. f = Finding("http_plain", Low, first, "tcp", 80)
  BY <1>1 DEF When
<1>. QED  BY <1>2, SameOutweighs DEF Low

\* Whatever a host has open, each finding it has on a private address it has
\* on a public one, and no milder.
THEOREM PublicIsNoMilder ==
  ASSUME NEW ports, NEW scanned
  PROVE  NoMilder(AssessHost(ports, scanned, FALSE), AssessHost(ports, scanned, TRUE))
<1>. SUFFICES ASSUME NEW f \in AssessHost(ports, scanned, FALSE)
              PROVE  \E g \in AssessHost(ports, scanned, TRUE) : Outweighs(g, f)
  BY DEF NoMilder, Outweighs
<1> DEFINE all(p, e) == Exposure(p, e) \cup Protocol(p, e) \cup Web(p, e) \cup Certificate(p)
<1>1. /\ AssessHost(ports, scanned, FALSE) = (UNION {all(p, FALSE) : p \in ports}) \cup PlainWeb(ports, scanned)
      /\ AssessHost(ports, scanned, TRUE) = (UNION {all(p, TRUE) : p \in ports}) \cup PlainWeb(ports, scanned)
  BY Zenon DEF AssessHost
<1>2. \A p : \A x \in all(p, FALSE) : \E g \in all(p, TRUE) : Outweighs(g, x)
  BY ExposureRises, ProtocolRises, WebRises, OthersStay
<1> HIDE DEF all
<1>3. CASE f \in PlainWeb(ports, scanned)
  BY <1>1, <1>3, PlainWebStays
<1>4. CASE f \in UNION {all(p, FALSE) : p \in ports}
  <2>1. PICK p \in ports : f \in all(p, FALSE)
    BY <1>4
  <2>2. PICK g \in all(p, TRUE) : Outweighs(g, f)
    BY <1>2, <2>1
  <2>3. g \in AssessHost(ports, scanned, TRUE)
    BY <1>1, <2>1, <2>2
  <2>. QED  BY <2>2, <2>3
<1>. QED  BY <1>1, <1>3, <1>4
==============================================================================
