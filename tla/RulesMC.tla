------------------------------- MODULE RulesMC -------------------------------
(***************************************************************************)
(* The sequential rules of the program.  The pure ones are asked with small *)
(* sets of inputs: a question is grown one element at a time, and each      *)
(* property looks at the questions of its own rule.  The pace of a scan,    *)
(* which needs time, is a rule with steps of its own: those of RateLimiter. *)
(***************************************************************************)
EXTENDS Targets, RateLimiter, TLC

CONSTANTS MaxItems, Nothing

VARIABLES rule, asked

vars == <<rule, asked, bucketVars>>

D == INSTANCE ScanDiff
F == INSTANCE Findings
O == INSTANCE OsGuess

Elements(s) == {s[i] : i \in DOMAIN s}

-----------------------------------------------------------------------------
(* The inputs *)

Answer(version, n, zone) == [version |-> version, n |-> n, zone |-> zone]
Item(kind, version, low, high) == [kind |-> kind, version |-> version, low |-> low, high |-> high]
Name(answers) == [kind |-> "name", answers |-> answers]

Items ==
    {Item("network", v, 5, b) : v \in Families, b \in 0 .. Bits}
    \cup {Item("range", 4, 1, 3), Item("range", 4, 3, 6), Item("range", 6, 4, 2),
          Item("range", 6, 2, 3), Item("address", 4, 7, 7), Item("zoned", 6, 1, 1)}
    \cup {Name(<<>>), Name(<<Answer(6, 0, TRUE)>>),
          Name(<<Answer(6, 1, FALSE), Answer(4, 2, FALSE), Answer(4, 4, FALSE), Answer(4, 2, FALSE)>>)}

Part(low, high) == [all |-> FALSE, low |-> low, high |-> high]
Parts == {[all |-> TRUE, low |-> 0, high |-> 0], Part(1, 2), Part(2, 2), Part(4, 5), Part(6, 8),
          Part(0, 2), Part(5, MaxPort + 1), Part(5, 4)}

Http(product, version, guess) ==
    [product |-> product, version |-> version, detected |-> "http", heuristic |-> guess]
Ssh == [product |-> Nothing, version |-> Nothing, detected |-> "ssh", heuristic |-> FALSE]
Silent == [product |-> Nothing, version |-> Nothing, detected |-> Nothing, heuristic |-> FALSE]

PortMaps ==
    {[k \in {} |-> Silent]} \cup [{80} -> {Http("nginx", "1", FALSE), Http("nginx", "2", FALSE), Http("apache", "1", FALSE),
                                         Http(Nothing, Nothing, TRUE), Http(Nothing, Nothing, FALSE), Ssh, Silent}]
    \cup [{22} -> {Ssh}] \cup [{22, 80} -> {Ssh}]
Systems == {[family |-> f, name |-> n] : f \in {Nothing, "unknown"}, n \in {"unknown", "linux"}}
           \cup {[family |-> f, name |-> f] : f \in {"linux", "windows"}}
FindingMaps == {[id \in {} |-> "info"]} \cup [{"f"} -> {"info", "high"}]
Hosts == [ports : PortMaps, os : Systems, findings : FindingMaps]
SomeHost == CHOOSE h \in Hosts : DOMAIN h.ports = {22}
Scans == {<<>>} \cup [{"h1"} -> Hosts] \cup {("h1" :> h) @@ ("h2" :> SomeHost) : h \in Hosts}

Blank ==
    [port |-> 80, proto |-> "tcp", detected |-> "http", heuristic |-> FALSE, confidence |-> 90,
     open_auth |-> FALSE, elastic |-> FALSE, starttls |-> "unknown", clear_auth |-> FALSE,
     ssh |-> "2.0", weak |-> "none", smb1 |-> FALSE, signing |-> "required", weak_security |-> FALSE,
     nla |-> "required", recursion |-> FALSE, status |-> FALSE, admin |-> FALSE, basic |-> FALSE,
     redirects |-> FALSE, named |-> FALSE, tls |-> FALSE, flaws |-> {}]

\* The services and their own ports.
Home == [telnet |-> 23, ftp |-> 21, rdp |-> 3389, mysql |-> 3306, smb |-> 445]
Guessed(service) ==
    [Blank EXCEPT !.port = Home[service], !.detected = "unknown", !.heuristic = TRUE, !.confidence = 30]
Confirmed(service) == [Blank EXCEPT !.port = Home[service], !.detected = service]
Unasked(service) == [Blank EXCEPT !.port = Home[service], !.detected = "absent"]

Udp(service, port) == [Blank EXCEPT !.port = port, !.proto = "udp", !.detected = service]
Records ==
    {Guessed(s) : s \in DOMAIN Home} \cup {Confirmed(s) : s \in DOMAIN Home}
    \cup {Udp("memcached", 11211), Udp("snmp", 161), Udp("tftp", 69), Udp("dns", 53)}
    \cup {[Blank EXCEPT !.port = 6379, !.detected = "redis", !.open_auth = a] : a \in BOOLEAN}
    \cup {[Blank EXCEPT !.port = 11211, !.detected = "memcached", !.open_auth = TRUE],
          [Blank EXCEPT !.port = 9200, !.elastic = TRUE, !.open_auth = TRUE, !.status = TRUE],
          [Blank EXCEPT !.port = 2375, !.detected = "unknown", !.heuristic = TRUE],
          [Blank EXCEPT !.port = 53, !.detected = "dns", !.recursion = TRUE],
          [Blank EXCEPT !.port = 110, !.detected = "pop3", !.starttls = "no"],
          [Blank EXCEPT !.port = 21, !.detected = "ftp", !.starttls = "yes", !.named = TRUE]}
    \cup {[Blank EXCEPT !.port = 22, !.detected = "ssh", !.ssh = v, !.weak = w] :
             v \in {"1.5", "1.99", "2.0"}, w \in {"none", "some", "strong"}}
    \cup {[Blank EXCEPT !.port = 25, !.detected = "smtp", !.starttls = s, !.clear_auth = c] :
             s \in {"yes", "no"}, c \in BOOLEAN}
    \cup {[Blank EXCEPT !.port = n, !.status = TRUE, !.redirects = r, !.basic = b, !.admin = b, !.tls = (n = 443),
                        !.flaws = IF n = 443 THEN {"expired", "expiring", "old", "weak_key"} ELSE {}] :
             n \in {80, 443}, r \in BOOLEAN, b \in BOOLEAN}

\* The servers that the detectors ask, and the replies that are lost.
Servers ==
    [kind : {"rdp"}, accepts : SUBSET {"standard", "tls", "nla"} \ {{}}, lost : BOOLEAN]
    \cup [kind : {"smb"}, v1 : BOOLEAN, v2 : BOOLEAN, signing : {"required", "enabled", "disabled"}]

Port(n, proto, hint, iis) ==
    [port |-> n, proto |-> proto, hint |-> hint, iis |-> iis, netbios |-> n = 137]
Signals ==
    {Port(22, "tcp", "linux", FALSE), Port(22, "tcp", "none", FALSE), Port(80, "tcp", "windows", TRUE),
     Port(21, "tcp", "bsd", FALSE), Port(23, "tcp", "network", FALSE), Port(548, "tcp", "none", FALSE),
     Port(135, "tcp", "none", FALSE), Port(445, "tcp", "none", FALSE), Port(3389, "tcp", "none", FALSE),
     Port(5985, "tcp", "none", FALSE), Port(137, "udp", "none", FALSE)}
SynAcks ==
    {[options |-> o, window |-> 65535, df |-> TRUE] :
        o \in {<<>>, <<"MSS", "SAckOK", "Timestamp">>, <<"MSS", "NOP", "WScale", "SAckOK">>,
               <<"MSS", "NOP", "WScale", "Timestamp">>, <<"MSS", "NOP", "WScale", "Timestamp", "EOL">>}}
    \cup {[options |-> <<"MSS">>, window |-> 4128, df |-> FALSE]}

Questions ==
    [targets |-> Items, ports |-> Parts, scans |-> Scans, findings |-> Records, servers |-> Servers,
     system |-> Signals]
Length ==
    [targets |-> MaxItems, ports |-> MaxItems, scans |-> 2, findings |-> 2, servers |-> 1, system |-> MaxItems]

Init ==
    /\ rule \in DOMAIN Questions \cup {"pace"} /\ asked = <<>>
    /\ BucketInit

Grow ==
    /\ rule \in DOMAIN Questions
    /\ Len(asked) < Length[rule]
    /\ \E e \in Questions[rule] : asked' = Append(asked, e)
    /\ UNCHANGED <<rule, bucketVars>>

Pace == rule = "pace" /\ BucketNext /\ UNCHANGED <<rule, asked>>

Next == Grow \/ Pace

Spec == Init /\ [][Next]_vars

-----------------------------------------------------------------------------
(* Targets and ports *)

\* What an item stands for, address by address, without any span.
Meant(item, family, all) ==
    LET ofFamily(v) == family \in {0, v}
        block == {n \in 0 .. 2 ^ Bits - 1 :
                     n \div 2 ^ (Bits - item.high) = item.low \div 2 ^ (Bits - item.high)}
        inner == IF Cardinality(block) <= 2 THEN block
                 ELSE block \ ({Min(block)} \cup (IF item.version = 4 THEN {Max(block)} ELSE {}))
        known == {a \in Elements(item.answers) : ofFamily(a.version)}
        best  == {a \in known : \A b \in known : a.version <= b.version}
        first == {item.answers[i] : i \in {j \in DOMAIN item.answers :
                     item.answers[j] \in best /\ \A k \in 1 .. j - 1 : item.answers[k] \notin best}}
    IN  CASE item.kind = "name" -> IF all THEN known ELSE first
          [] item.kind = "network" -> {Answer(item.version, n, FALSE) : n \in {m \in inner : ofFamily(item.version)}}
          [] OTHER -> {Answer(item.version, n, item.kind = "zoned") :
                          n \in {m \in item.low .. item.high : ofFamily(item.version)}}

\* The targets made of items that stand for the sets of addresses in parts.
TargetsAre(targets, each, parts, limit) ==
    /\ targets.ok <=> {} \notin parts /\ Cardinality(UNION parts) <= limit
    /\ targets.ok => /\ Elements(each) = UNION parts
                     /\ Len(each) = Cardinality(Elements(each)) /\ Count(targets) = Len(each)
                     /\ \A i \in 2 .. Len(targets.spans) : ~Joins(targets.spans[i - 1], targets.spans[i])

\* The ports kept, and their compact form, of items that stand for parts.
PortsAre(ports, ranges, parts) ==
    /\ ports = <<>> <=> {} \in parts
    /\ \A i \in DOMAIN ports, j \in DOMAIN ports : i < j => ports[i] < ports[j]
    /\ ports # <<>> => Elements(ports) = UNION parts
    /\ ParsePorts(ranges) = ports
    /\ \A i \in 2 .. Len(ranges) : ranges[i].low > ranges[i - 1].high + 1

\* A target expression is the addresses its items stand for: each once, in
\* order, and counted without being made; it is refused exactly when an item
\* stands for nothing or the limit is passed (_merge, count, __iter__,
\* iter_targets).  Ports are kept the same way, and their compact form reads
\* back as the same ports in the fewest ranges (parse_ports, format_ports).
ExpressionsAreExact ==
    /\ rule = "targets" /\ asked # <<>> =>
        \A family \in {0, 4, 6}, all \in BOOLEAN, limit \in {4, 40} :
            \A targets \in {IterTargets(asked, limit, family, all)} :
                TargetsAre(targets, Addresses(targets),
                           {Meant(asked[i], family, all) : i \in DOMAIN asked}, limit)
    /\ rule = "ports" /\ asked # <<>> =>
        \A ports \in {ParsePorts(asked)} :
            PortsAre(ports, FormatPorts(Elements(ports)), {PortsOf(asked[i]) : i \in DOMAIN asked})

-----------------------------------------------------------------------------
(* The comparison of two scans *)

\* A comparison of any two scans tells all that changed, in the words of the
\* two records, and nothing else (diff_scans; ScanDiff says it in detail).
ComparisonIsExact ==
    rule = "scans" /\ Len(asked) = 2 => D!Exact(asked[1], asked[2])

\* The module docstring's word on scans of older versions (diff.py:5-6).
OlderScansCompare ==
    rule = "scans" /\ Len(asked) = 2 => D!OlderScansCompareFine(asked[1], asked[2])

-----------------------------------------------------------------------------
(* Findings *)

Exposed(p, external) == F!AssessHost({p}, {80, 443}, external)

\* No two findings of a host share an identity (what the comparison of scans
\* takes for one finding), nothing is milder on a public address than on a
\* private one, and a port number alone gives a finding of less severity and
\* less confidence than a reply (assess_host).
FindingsWeighRight ==
    rule = "findings" =>
        LET ports == Elements(asked)
            here  == F!AssessHost(ports, {80, 443}, FALSE)
            there == F!AssessHost(ports, {80, 443}, TRUE)
        IN  /\ Cardinality({<<p.port, p.proto>> : p \in ports}) = Cardinality(ports) =>
                  \A f \in there, g \in there :
                      <<f.id, f.port, f.proto>> = <<g.id, g.port, g.proto>> => f = g
            /\ F!NoMilder(here, there)
            /\ \A s \in DOMAIN Home, external \in BOOLEAN : Guessed(s) \in ports =>
                  \A f \in Exposed(Guessed(s), external) :
                      \E g \in Exposed(Confirmed(s), external) :
                          f.id = g.id /\ f.severity < g.severity /\ f.confidence < g.confidence

\* "A port number alone gives a lower-confidence finding, one severity step
\* down" (README.md): also in a scan that asked no service.
PortNumberWeighsLess ==
    rule = "findings" =>
        \A s \in DOMAIN Home, external \in BOOLEAN : Confirmed(s) \in Elements(asked) =>
            \A f \in Exposed(Unasked(s), external) :
                \E g \in Exposed(Confirmed(s), external) : f.id = g.id /\ f.severity < g.severity

RdpRecord(server) ==
    LET second == IF server.lost THEN F!NoReply ELSE F!RdpServer(server.accepts, 1)
        v      == F!RdpVerdict(F!RdpServer(server.accepts, 0), second)
    IN  [Confirmed("rdp") EXCEPT !.weak_security = v.weak, !.nla = v.nla]

SmbRecord(server) ==
    LET reply(spoken) == IF spoken THEN server.signing ELSE "none"
        v             == F!SmbVerdict(reply(server.v2), reply(server.v1))
    IN  [Confirmed("smb") EXCEPT !.smb1 = v.smb1, !.signing = v.signing]

Ids(p) == {f.id : f \in Exposed(p, FALSE)}

\* What a finding says of an RDP or an SMB server is true of that server, for
\* every set of security layers and dialects it may accept; and it is said
\* whenever no reply was lost (Rdp.probe, Smb.probe, assess_host).
VerdictsAreEarned ==
    rule = "servers" =>
        \A s \in Elements(asked) :
            IF s.kind = "rdp"
            THEN /\ "rdp_weak_security" \in Ids(RdpRecord(s)) <=> "standard" \in s.accepts
                 /\ "rdp_no_nla" \in Ids(RdpRecord(s)) => "tls" \in s.accepts
                 /\ ~s.lost => ("rdp_no_nla" \in Ids(RdpRecord(s)) <=>
                                   "tls" \in s.accepts /\ "standard" \notin s.accepts)
            ELSE s.v1 \/ s.v2 =>
                 /\ "smb1" \in Ids(SmbRecord(s)) <=> s.v1
                 /\ "smb_signing" \in Ids(SmbRecord(s)) <=> s.signing # "required"

-----------------------------------------------------------------------------
(* The operating system *)

\* A guess is sure only of what a service said of itself, never certain, the
\* same for every order of the ports, and one more service that names the
\* family guessed changes neither the family nor takes from the confidence
\* (guess_os_detailed).
GuessFollowsEvidence ==
    rule = "system" =>
        \A ttl \in {0, 30, 60, 120, 250}, tcp \in SynAcks, vendor \in {"none", "raspberry"} :
            LET guess == O!GuessOs(ttl, asked, tcp, vendor)
                more  == O!GuessOs(ttl, Append(asked, Port(8000, "tcp", guess.family, FALSE)), tcp, vendor)
            IN  /\ guess.confidence <= O!CAP_REPORTED
                /\ ~guess.heuristic => \E i \in DOMAIN asked : asked[i].hint = guess.family
                /\ O!Label(guess) = "high" => ~guess.heuristic
                /\ guess = O!GuessOs(ttl, Reverse(asked), tcp, vendor)
                /\ guess.family \in O!Family =>
                      more.family = guess.family /\ more.confidence >= guess.confidence /\ ~more.heuristic

\* What is said of a host rests on what was seen of it: a finding's weight on
\* the evidence for the service, its verdict on the replies of the server, a
\* guess on the signals (assess_host, Rdp.probe, guess_os_detailed).
JudgementsAreEarned == FindingsWeighRight /\ VerdictsAreEarned /\ GuessFollowsEvidence
=============================================================================
