------------------------------- MODULE Findings -------------------------------
(***************************************************************************)
(* What a scanned port means: assess_host of nemla/findings.py, and the     *)
(* verdicts of two detectors it rests on (nemla/fingerprint/rdp.py and      *)
(* smb.py).  A port record has every field, with the value a missing key    *)
(* has in the code; severities are ranks and confidences are per cent.      *)
(***************************************************************************)
EXTENDS Integers, Sequences, FiniteSets

Info   == 0
Low    == 1
Medium == 2
High   == 3

RemotePorts    == {1723, 3389, 5900, 5901, 5902, 5985, 5986, 6000}
DbPorts        == {1433, 1521, 3306, 5432, 6379, 9200, 11211, 27017, 5984, 9042}
FilePorts      == {111, 135, 139, 445, 2049}
SensitivePorts == {2375, 2379, 4243, 10250, 8500, 8161, 15672, 7001, 6443, 9000, 5601}
Amplifiers     == {"ssdp", "ntp", "memcached", "netbios-ns", "snmp", "dns", "tftp", "rpcbind"}

Lesser(a, b)  == IF a < b THEN a ELSE b
Greater(a, b) == IF a < b THEN b ELSE a
When(condition, finding) == IF condition THEN {finding} ELSE {}

Lower(severity) == Greater(Info, severity - 1)

\* Mutant of Sev: weak evidence weighs as much as a reply.
SevOfBase(base, confidence) == base

\* One step lower when the evidence is a port number.
Sev(base, confidence) == IF confidence < 60 THEN Lower(base) ELSE base

\* `detected` is "absent" in a record of a scan without service detection.
ByPort(p) == p.detected = "absent" \/ p.heuristic
Conf(p) ==
    CASE p.detected = "absent" -> 80
      [] p.detected # "absent" /\ p.heuristic -> 50
      [] OTHER -> Lesser(95, p.confidence)

Finding(id, severity, p, proto, confidence) ==
    [id |-> id, severity |-> severity, port |-> p.port, proto |-> proto, confidence |-> confidence]

-----------------------------------------------------------------------------
(* The findings of one port *)

\* The base severity of a risky service: worse in public.
InPublic(external, there, here) == IF external THEN there ELSE here

\* An answer without a password is evidence of its own.
Unguarded(p, service, port) == p.open_auth /\ (p.detected = service \/ (ByPort(p) /\ p.port = port))

\* The rungs of the ladder in their order; only the first that fits counts.
Ladder(p, external) ==
    LET conf == Conf(p)
        f(id, base) == Finding(id, Sev(base, conf), p, "tcp", conf)
        g(id, confidence) == Finding(id, High, p, "tcp", confidence)
        ftp  == InPublic(external, High, Medium)
    IN  << [fits |-> p.detected = "telnet" \/ (p.port = 23 /\ ByPort(p)), is |-> f("telnet", High)],
           [fits |-> p.detected = "ftp" \/ (p.port = 21 /\ ByPort(p)),
            is   |-> f("ftp", IF p.starttls = "yes" THEN Lower(ftp) ELSE ftp)],
           [fits |-> Unguarded(p, "redis", 6379), is |-> g("redis_open", Greater(conf, 90))],
           [fits |-> Unguarded(p, "memcached", 11211), is |-> g("memcached", Greater(conf, 90))],
           [fits |-> p.open_auth /\ (p.elastic \/ (ByPort(p) /\ p.port = 9200)), is |-> g("es_open", 95)],
           [fits |-> p.port \in RemotePorts \/ p.detected \in {"rdp", "vnc"},
            is   |-> f("remote", InPublic(external, High, Medium))],
           [fits |-> p.port \in DbPorts \/ p.detected \in {"mysql", "postgresql", "redis", "memcached"},
            is   |-> f("db", InPublic(external, High, Medium))],
           [fits |-> p.port \in FilePorts \/ p.detected = "smb",
            is   |-> f("files", InPublic(external, High, Low))],
           [fits |-> p.port \in SensitivePorts /\ ByPort(p),
            is   |-> Finding("sensitive_port", InPublic(external, High, Low), p, "tcp", 40)] >>

FirstRung(ladder) ==
    {ladder[i].is : i \in {j \in DOMAIN ladder : ladder[j].fits /\ \A k \in 1 .. j - 1 : ~ladder[k].fits}}

Exposure(p, external) ==
    (IF p.proto = "tcp" THEN FirstRung(Ladder(p, external))
     ELSE When(p.detected \in Amplifiers /\ external, Finding("udp_exposed", Medium, p, "udp", Conf(p))))
    \cup When(p.proto = "udp" /\ p.detected = "memcached", Finding("memcached", High, p, "udp", 97))
    \cup When(p.detected = "snmp", Finding("snmp_default", InPublic(external, High, Medium), p, "udp", 95))
    \cup When(p.detected = "tftp", Finding("tftp", Medium, p, "udp", 90))

\* SSH, SMB, RDP, DNS and mail: what the protocol itself said.
Protocol(p, external) ==
    LET f(id, severity, confidence) == Finding(id, severity, p, "tcp", confidence)
        is(service) == p.detected = service
    IN  When(is("ssh") /\ p.ssh = "1.5", f("ssh_protocol1", High, 95))
        \cup When(is("ssh") /\ p.ssh = "1.99", f("ssh_protocol1", Medium, 90))
        \cup When(is("ssh") /\ p.weak # "none",
                  f("ssh_weak_crypto", IF p.weak = "strong" THEN Medium ELSE Low, 90))
        \cup When(is("smb") /\ p.smb1, f("smb1", High, 95))
        \cup When(is("smb") /\ p.signing \in {"enabled", "disabled"}, f("smb_signing", Medium, 90))
        \cup When(is("rdp") /\ p.weak_security, f("rdp_weak_security", High, 90))
        \cup When(is("rdp") /\ ~p.weak_security /\ p.nla = "not required", f("rdp_no_nla", Medium, 85))
        \cup When(is("dns") /\ p.recursion /\ p.proto = "tcp",
                  f("dns_recursion", InPublic(external, Medium, Low), 60))
        \cup When(is("smtp") /\ ~p.tls /\ p.starttls = "no" /\ p.clear_auth, f("smtp_plain_auth", Medium, 85))
        \cup When(is("smtp") /\ ~p.tls /\ p.starttls = "no" /\ ~p.clear_auth, f("smtp_no_starttls", Low, 80))
        \cup When(p.detected \in {"pop3", "imap"} /\ ~p.tls /\ p.starttls = "no", f("mail_plain", Medium, 80))

Web(p, external) ==
    When(p.status /\ p.admin, Finding("admin_panel", InPublic(external, Medium, Low), p, "tcp", 75))
    \cup When(p.status /\ p.basic /\ ~p.tls,
              Finding("basic_auth_plain", InPublic(external, High, Medium), p, "tcp", 95))

\* The certificate and the handshake; an expired certificate is not expiring too.
Certificate(p) ==
    LET f(id, severity, confidence) == Finding(id, severity, p, "tcp", confidence)
        flaw(name) == p.tls /\ name \in p.flaws
    IN  When(flaw("expired"), f("tls_expired", High, 98))
        \cup When(flaw("expiring") /\ ~flaw("expired"), f("tls_expiring", Medium, 98))
        \cup When(flaw("not_yet_valid"), f("tls_not_yet_valid", Medium, 90))
        \cup When(flaw("old"), f("tls_old", Medium, 95))
        \cup When(flaw("self_signed"), f("tls_selfsigned", Low, 95))
        \cup When(flaw("weak_sig"), f("tls_weak_sig", Medium, 95))
        \cup When(flaw("weak_key"), f("tls_weak_key", Medium, 95))
        \cup When(p.named /\ p.proto = "tcp", Finding("version", Info, p, "tcp", Conf(p)))

-----------------------------------------------------------------------------
(* The findings of a host *)

\* HTTP without HTTPS, when HTTPS was looked for: the first plain web port.
PlainWeb(ports, scanned) ==
    LET web   == {p \in ports : p.status}
        plain == {p \in web : ~p.tls /\ p.port # 9200}
        first == CHOOSE p \in plain : \A q \in plain : p.port <= q.port
    IN  IF plain # {} /\ (\A p \in web : ~p.tls) /\ scanned \cap {443, 8443} # {}
        THEN When(~first.redirects, Finding("http_plain", Low, first, "tcp", 80)) ELSE {}

\* `ports` is the set of the open ports, `scanned` the TCP ports asked.
AssessHost(ports, scanned, external) ==
    (UNION {Exposure(p, external) \cup Protocol(p, external)
             \cup Web(p, external) \cup Certificate(p) : p \in ports})
    \cup PlainWeb(ports, scanned)

-----------------------------------------------------------------------------
(* The verdicts of two detectors *)

NoReply == [is |-> "none", value |-> 0]

\* External: how a server that accepts the given security layers answers
\* a request for the legacy layer (0) or for TLS alone (1).
RdpServer(accepts, request) ==
    LET layer == IF request = 0 THEN "standard" ELSE "tls"
    IN  CASE layer \in accepts -> [is |-> "ok", value |-> request]
          [] layer \notin accepts /\ accepts = {"nla"} -> [is |-> "fail", value |-> 5]
          [] layer \notin accepts /\ accepts # {"nla"} /\ request = 0 -> [is |-> "fail", value |-> 1]
          [] layer \notin accepts /\ accepts # {"nla"} /\ request = 1 ->
                [is |-> "fail", value |-> IF "nla" \in accepts THEN 5 ELSE 2]

\* Mutant of RdpVerdict: a server that asks for TLS is taken for one that asks for NLA.
RdpVerdictEager(first, second) ==
    CASE first.is \in {"ok", "legacy"} -> [weak |-> TRUE, nla |-> "not required"]
      [] first.is = "fail" -> [weak |-> FALSE, nla |-> "required"]

\* The first reply is for the legacy layer; the second request, for TLS
\* alone, is sent only if the first did not settle the matter.
RdpVerdict(first, second) ==
    CASE first.is \in {"ok", "legacy"} /\ first.value = 0 -> [weak |-> TRUE, nla |-> "not required"]
      [] first.is = "fail" /\ first.value = 5 -> [weak |-> FALSE, nla |-> "required"]
      [] OTHER -> [weak |-> FALSE,
                   nla  |-> CASE second.is = "ok" /\ second.value = 1 -> "not required"
                              [] second.is = "fail" /\ second.value = 5 -> "required"
                              [] OTHER -> "unknown"]

\* What the two negotiations of the SMB detector make of the replies: "none",
\* or the signing the server announced.  SMB2 goes before SMB1.
SmbVerdict(v2, v1) ==
    [found |-> v2 # "none" \/ v1 # "none", smb1 |-> v1 # "none", signing |-> IF v2 # "none" THEN v2 ELSE v1]

-----------------------------------------------------------------------------
(* Properties *)

\* Each finding is also there on the other side, and no milder.
NoMilder(here, there) ==
    \A f \in here : \E g \in there : f.id = g.id /\ f.port = g.port /\ f.severity <= g.severity
=============================================================================
