----------------------------- MODULE Fingerprint -----------------------------
(***************************************************************************)
(* identify (fingerprint/__init__.py): what speaks on one open port?  The  *)
(* greeting first, then questions of the detectors that fit the port, TLS, *)
(* and the other detectors; inside a TLS tunnel the same again.  Every     *)
(* question is a connection (net.py: open_conn, Conn) that the budget of   *)
(* the scan pays for and that Stop, silence and a reset may end.           *)
(*                                                                         *)
(* A reply is only whose it is: a detector recognises its own protocol and *)
(* nothing else.                                                           *)
(***************************************************************************)
EXTENDS Integers

CONSTANTS PortNumbers, Intensities, Budgets,  \* what a run may be asked for; a budget of 0 is none
          Services                            \* what may be behind the port; "other": nothing we know

ASSUME FingerprintAssumption == Intensities \subseteq Nat /\ Budgets \subseteq Nat

(***************************************************************************)
(* The detectors                                                           *)
(***************************************************************************)
TLS_PORTS == {443, 465, 636, 993, 995, 8443}
HTTP_TLS_PORTS == {443, 8443}
HTTP_PORTS == {80, 3128, 8000, 8080, 8081, 8888}

\* A plugin: its place in REGISTRY, its own ports, how rarely it is tried elsewhere (1: always), and what it does: recognise
\* a greeting ("listens"), look deeper after it ("refines"), ask a question of its own on a connection
\* ("asks") or on two ("asks twice"); "tls": it may do so inside a tunnel.
Plugin(nr, ports, rarity, does) == [nr |-> nr, ports |-> ports, rarity |-> rarity, does |-> does]

Redis == Plugin(1, {6379}, 3, {"asks", "asks twice"})
Memcached == Plugin(2, {11211}, 3, {"asks"})
MySql == Plugin(3, {3306}, 2, {"listens"})
Postgres == Plugin(4, {5432}, 4, {"asks"})
Dns == Plugin(5, {53}, 4, {"asks"})
Ftp == Plugin(6, {21}, 1, {"listens", "refines"})
Http == Plugin(7, HTTP_PORTS \cup {9200, 3000, 5000, 8008, 9000, 9090}, 1, {"asks", "tls"})
Pop3 == Plugin(8, {110, 995}, 3, {"listens", "refines", "tls"})
Imap == Plugin(9, {143, 993}, 3, {"listens", "refines", "tls"})
Telnet == Plugin(10, {23, 2323}, 2, {"listens"})
Vnc == Plugin(11, {5900, 5901, 5902}, 2, {"listens"})
Rdp == Plugin(12, {3389}, 4, {"asks", "asks twice"})
Smb == Plugin(13, {445, 139}, 4, {"asks", "asks twice"})
Smtp == Plugin(14, {25, 465, 587, 2525}, 2, {"listens", "refines", "tls"})
Ssh == Plugin(15, {22, 2222}, 1, {"listens", "refines"})

Detector == [redis |-> Redis, memcached |-> Memcached, mysql |-> MySql, postgresql |-> Postgres, dns |-> Dns,
             ftp |-> Ftp, http |-> Http, pop3 |-> Pop3, imap |-> Imap, telnet |-> Telnet, vnc |-> Vnc,
             rdp |-> Rdp, smb |-> Smb, smtp |-> Smtp, ssh |-> Ssh]
Those(what) == {d \in DOMAIN Detector : what \in Detector[d].does}
Listens == Those("listens")
Asks == Those("asks")

VARIABLES port, intensity, budget,  \* what identify is called with
          server,    \* what is there: [speaks, greets, tls]
          banner,    \* the greeting was heard: outside or, later, in the tunnel
          at,        \* where identify is
          agenda,    \* the steps still to take: detectors to ask, "tls" for inspect_tls
          task,      \* what the current connection is for: [what, of, n, heard]
          tunnel,    \* the probe is the one derived for the inside of TLS
          facts,     \* TLS facts were gathered
          found,     \* what identify returned
          sockets,   \* sockets open
          charged, opened,  \* what was taken of the budget; connections begun
          cancel,
          calm       \* no connection failed and no reply was lost
vars == <<port, intensity, budget, server, banner, at, agenda, task, tunnel, facts, found, sockets,
          charged, opened, cancel, calm>>
Given == <<port, intensity, budget, server>>
Money == <<charged, opened>>

Nothing == [service |-> "none", tls |-> FALSE]
Idle == [what |-> "idle", of |-> "none", n |-> 0, heard |-> FALSE]
Over == at \in {"returned", "exhausted", "cancelled"}

(***************************************************************************)
(* Who is asked, and when                                                  *)
(***************************************************************************)
Fits(d) == port \in Detector[d].ports
Candidate(d, inTls) == (Fits(d) \/ Detector[d].rarity <= intensity) /\ ("tls" \in Detector[d].does \/ ~inTls)

\* _candidates; a detector without a question of its own answers None at once
Candidates(inTls) == {d \in Asks : Candidate(d, inTls)}

TlsLikely == port \in TLS_PORTS
TriesTls == TlsLikely \/ (intensity >= 3 /\ ~banner)

\* Mutant of Plan: a port that has ignored the likely questions is given up
PlanEarly == {d \in Candidates(FALSE) : Fits(d) \/ Detector[d].rarity <= 1} \cup (IF TriesTls THEN {"tls"} ELSE {})
\* identify after the greeting
Plan == Candidates(FALSE) \cup (IF TriesTls THEN {"tls"} ELSE {})

\* The order: what fits the port, then by rarity, then as registered.  TLS is first on a port of TLS
\* and elsewhere between the early detectors (rarity 1) and the late ones.
Place(step) ==
    IF step = "tls" THEN IF TlsLikely THEN 0 ELSE 1200
    ELSE (IF Fits(step) THEN 0 ELSE 1000) + 100 * Detector[step].rarity + Detector[step].nr
First(steps) == CHOOSE step \in steps : \A other \in steps : Place(step) <= Place(other)

(***************************************************************************)
(* How identify goes on.  Each sets at, agenda, task, tunnel, found.       *)
(***************************************************************************)
Return(service) ==
    /\ at' = "returned" /\ found' = [service |-> service, tls |-> tunnel]
    /\ UNCHANGED <<agenda, task, tunnel>>
Raise(what) == at' = what /\ UNCHANGED <<agenda, task, tunnel, found>>
Open(what, of, n, heard) ==
    /\ at' = "open" /\ task' = [what |-> what, of |-> of, n |-> n, heard |-> heard]
    /\ UNCHANGED <<tunnel, found>>

\* the first of these steps; nothing is left: None, and inside a tunnel at least "TLS"
Follow(steps, inTls) ==
    /\ tunnel' = inTls
    /\ \/ /\ steps = {} /\ agenda' = {}
          /\ at' = "returned" /\ found' = (IF inTls THEN [service |-> "tls", tls |-> TRUE] ELSE Nothing)
          /\ UNCHANGED task
       \/ /\ steps # {} /\ agenda' = steps \ {First(steps)}
          /\ at' = "open" /\ UNCHANGED found
          /\ task' = [what |-> IF First(steps) = "tls" THEN "inspect" ELSE "ask",
                      of |-> First(steps), n |-> 1, heard |-> FALSE]
Onward == Follow(agenda, tunnel)

\* _passive: whose greeting it is; `steps` is what follows if nobody's
Recognised(heard) == heard /\ server.speaks \in Listens
Greeted(steps, inTls) ==
    IF Recognised(banner')
    THEN IF intensity >= 2 /\ server.speaks \in Those("refines")
         THEN /\ at' = "open" /\ agenda' = {} /\ tunnel' = inTls /\ UNCHANGED found
              /\ task' = [what |-> "refine", of |-> server.speaks, n |-> 1, heard |-> FALSE]
         ELSE /\ at' = "returned" /\ found' = [service |-> server.speaks, tls |-> inTls]
              /\ tunnel' = inTls /\ UNCHANGED <<agenda, task>>
    ELSE Follow(steps, inTls)

\* _inside_tls, once the facts are there
Inside ==
    IF port \in HTTP_TLS_PORTS
    THEN banner' = FALSE /\ Follow(Candidates(TRUE), TRUE)
    ELSE UNCHANGED <<banner, agenda>> /\ Open("greeting", "tls", 1, FALSE)

\* legacy_protocols: TLS 1.0 and 1.1, one connection each
Legacy(n) == IF n <= 2 THEN UNCHANGED <<banner, agenda>> /\ Open("legacy", "tls", n, FALSE) ELSE Inside

\* Mutant of Failed: an error while looking deeper loses what the greeting said
FailedForgets ==
    \/ task.what \in {"ask", "inspect", "refine"} /\ Onward /\ UNCHANGED banner
    \/ task.what = "legacy" /\ Legacy(task.n + 1)
    \/ task.what = "greeting" /\ banner' = FALSE /\ Greeted(Candidates(TRUE), TRUE)
\* OSError, silence, or a reply that is not the detector's
Failed ==
    \/ task.what = "refine" /\ Return(task.of) /\ UNCHANGED banner
    \/ task.what = "inspect" /\ Onward /\ UNCHANGED banner
    \/ task.what = "legacy" /\ Legacy(task.n + 1)
    \/ task.what = "greeting" /\ banner' = FALSE /\ Greeted(Candidates(TRUE), TRUE)
    \/ /\ task.what = "ask" /\ UNCHANGED banner
       /\ IF task.of = "smb" /\ task.n = 1 THEN Open("ask", "smb", 2, FALSE) /\ UNCHANGED agenda
          ELSE IF task.heard THEN Return(task.of) ELSE Onward

\* the whole reply arrived
Mine == server.speaks = task.of /\ server.tls = tunnel
Answered ==
    \/ task.what = "refine" /\ Return(task.of) /\ UNCHANGED banner
    \/ task.what = "greeting" /\ banner' = server.greets /\ Greeted(Candidates(TRUE), TRUE)
    \/ /\ task.what = "ask" /\ UNCHANGED banner
       /\ \/ /\ task.n = 1 /\ task.of \in Those("asks twice")
             /\ Open("ask", task.of, 2, TRUE) /\ UNCHANGED agenda
          \* the first reply of RDP may say it all, and that of a Redis that wants a password does
          \/ /\ task.n = 1 /\ task.of \in Those("asks twice") => task.of \in {"rdp", "redis"}
             /\ Return(task.of)

(***************************************************************************)
(* The connections                                                         *)
(***************************************************************************)
Init ==
    /\ port \in PortNumbers /\ intensity \in Intensities /\ budget \in Budgets
    /\ server \in [speaks : Services, greets : BOOLEAN, tls : BOOLEAN]
    /\ server.speaks \in Listens => server.greets
    /\ server.speaks \in Asks => ~server.greets
    /\ banner \in {FALSE, server.greets /\ ~server.tls}
    /\ calm = (banner = (server.greets /\ ~server.tls))
    /\ at = "begin" /\ agenda = {} /\ task = Idle /\ tunnel = FALSE /\ facts = FALSE
    /\ found = Nothing /\ sockets = 0 /\ charged = 0 /\ opened = 0 /\ cancel = FALSE

Stop == ~cancel /\ ~Over /\ cancel' = TRUE
        /\ UNCHANGED <<Given, Money, banner, at, agenda, task, tunnel, facts, found, sockets, calm>>

Begin ==
    /\ at = "begin"
    /\ UNCHANGED banner
    /\ IF intensity = 0 THEN Return("none") ELSE Greeted(Plan, FALSE)
    /\ UNCHANGED <<Given, Money, facts, sockets, cancel, calm>>

\* ProbeBudget.take
Exhausted == budget > 0 /\ charged = budget
Take == charged' = charged + 1
Connecting == at' = "connecting" /\ sockets' = sockets + 1 /\ opened' = opened + 1
              /\ UNCHANGED <<agenda, task, tunnel, found, banner>>

\* Mutant of Dial: the connections for TLS 1.0 and 1.1 are not charged
DialLegacyFree ==
    IF task.what = "legacy" THEN Connecting /\ UNCHANGED charged
    ELSE IF Exhausted THEN Raise("exhausted") /\ UNCHANGED <<Money, sockets, banner>> ELSE Take /\ Connecting
\* Probe.connect; legacy_protocols charges for itself, and stops quietly when the budget is used up
Dial ==
    IF ~Exhausted THEN Take /\ Connecting
    ELSE /\ UNCHANGED <<Money, sockets>>
         /\ IF task.what = "legacy" THEN Inside ELSE Raise("exhausted") /\ UNCHANGED banner
Connect == at = "open" /\ Dial /\ UNCHANGED <<Given, facts, cancel, calm>>

\* _accepts on a system whose OpenSSL cannot attempt that version: paid, not connected
Unsupported ==
    /\ at = "open" /\ task.what = "legacy" /\ ~Exhausted
    /\ Take /\ Legacy(task.n + 1)
    /\ UNCHANGED <<Given, opened, sockets, facts, cancel, calm>>

Close == sockets' = sockets - 1
InTls == tunnel \/ task.what \in {"inspect", "legacy", "greeting"}

\* tcp_connect
Connected ==
    /\ at = "connecting"
    /\ at' = IF InTls THEN "handshake" ELSE "exchange"
    /\ UNCHANGED <<Given, Money, banner, agenda, task, tunnel, facts, found, sockets, cancel, calm>>
Refused ==
    /\ at \in {"connecting", "exchange"}
    /\ Close /\ Failed
    /\ calm' = (calm /\ at = "exchange" /\ task.what = "ask" /\ ~Mine)
    /\ UNCHANGED <<Given, Money, facts, cancel>>

\* start_tls: inspect_tls and _accepts only want to see it succeed
Handshake ==
    /\ at = "handshake" /\ server.tls
    /\ \/ /\ task.what = "inspect" /\ Close /\ facts' = TRUE
          /\ \E old \in BOOLEAN : IF intensity >= 4 /\ ~old THEN Legacy(1) ELSE Inside
       \/ task.what = "legacy" /\ Close /\ Legacy(task.n + 1) /\ UNCHANGED facts
       \/ /\ task.what \in {"ask", "refine", "greeting"} /\ at' = "exchange"
          /\ UNCHANGED <<banner, agenda, task, tunnel, found, sockets, facts>>
    /\ UNCHANGED <<Given, Money, cancel, calm>>
HandshakeFails ==
    /\ at = "handshake"
    /\ Close /\ Failed
    /\ calm' = (calm /\ (~server.tls \/ task.what = "legacy"))
    /\ UNCHANGED <<Given, Money, facts, cancel>>

\* Conn.send, Conn.read: the reply of whoever is there; anybody else's is silence or noise
Exchange ==
    /\ at = "exchange"
    /\ Close
    /\ IF task.what = "ask" /\ ~Mine THEN Failed ELSE Answered
    /\ UNCHANGED <<Given, Money, facts, cancel, calm>>

\* wait_io sees the cancel event before anything else
CancelSeen ==
    /\ cancel /\ at \in {"connecting", "handshake", "exchange"}
    /\ Close /\ Raise("cancelled")
    /\ UNCHANGED <<Given, Money, banner, facts, cancel, calm>>

Terminated == Over /\ UNCHANGED vars
Step == \/ Begin \/ Connect \/ Unsupported \/ Connected \/ Refused
        \/ Handshake \/ HandshakeFails \/ Exchange \/ CancelSeen
Next == Step \/ Stop \/ Terminated

Spec == Init /\ [][Next]_vars

(***************************************************************************)
(* Properties                                                              *)
(***************************************************************************)
TypeOK ==
    /\ at \in {"begin", "open", "connecting", "handshake", "exchange", "returned", "exhausted", "cancelled"}
    /\ agenda \subseteq DOMAIN Detector \cup {"tls"}
    /\ {banner, tunnel, facts, cancel, calm} \subseteq BOOLEAN /\ {charged, opened} \subseteq Nat
    /\ found.service \in DOMAIN Detector \cup {"none", "tls"}

\* What can be known of this server, said without the order in which it is asked.
Knowable ==
    LET s == server.speaks
        shows(inTls) == IF s \in Listens THEN ~(inTls /\ port \in HTTP_TLS_PORTS)
                        ELSE s \in Asks /\ Candidate(s, inTls) IN
    IF intensity = 0 THEN Nothing
    ELSE IF ~server.tls THEN IF shows(FALSE) THEN [service |-> s, tls |-> FALSE] ELSE Nothing
    ELSE IF ~TlsLikely /\ intensity < 3 THEN Nothing
    ELSE [service |-> IF shows(TRUE) THEN s ELSE "tls", tls |-> TRUE]

\* Every detector that fits is tried, "even on a port that has ignored the first few" (__init__.py:120):
\* when no connection failed, identify returns exactly what this server can be known as; and with any
\* failures it never names a service that is not there, nor a tunnel where there is none.
NamesWhatIsThere ==
    /\ TypeOK
    /\ at = "returned" /\ calm => found = Knowable
    /\ found.service \in {"none", "tls", server.speaks}
    /\ found.service # "none" => found.tls = server.tls

\* A failure means less detail, not less service: what the greeting said and what the handshake showed is
\* in the result, unless the budget or Stop ended the detection.
NothingLearntIsForgotten ==
    at = "returned" =>
      /\ intensity > 0 /\ Recognised(banner) => found.service = server.speaks
      /\ facts => found.tls

\* Every connection of a detection is paid for, the budget is not overdrawn, a detector has one
\* connection at a time, and none is left open when identify returns or raises.
PaidAndClosed ==
    /\ opened <= charged /\ (budget > 0 => charged <= budget)
    /\ sockets = IF at \in {"connecting", "handshake", "exchange"} THEN 1 ELSE 0

\* What was recognised survives the end of the budget ("Any failure just means less detail", __init__.py:178).
BudgetKeepsWhatIsKnown == at = "exhausted" => ~facts /\ ~Recognised(banner)
=============================================================================
