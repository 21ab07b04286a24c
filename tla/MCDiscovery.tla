------------------------------ MODULE MCDiscovery ------------------------------
(***************************************************************************)
(* The parts that find and those that keep what was found: jobs that scan  *)
(* source code, endpoints, packet captures and running processes that are  *)
(* watched, the graph their evidence is correlated in; tenant stores,      *)
(* roles, local accounts and audit ledgers.  In the program they run side  *)
(* by side and share no state, so that a step of one never enables, blocks *)
(* or changes a step of another.  A behaviour here exercises one part, the *)
(* workload it begins with: every behaviour of each part alone is there,   *)
(* their interleavings, which no property could tell apart, are not.       *)
(***************************************************************************)
EXTENDS ScanJobs, NetworkScan, RuntimeProbe, EvidenceGraph, TenantAccess, PcapCapture, AuditLedger, LocalAuth

CONSTANTS j1, j2, f1, f2

VARIABLE workload

vars == <<workload, netVars, pcapVars, probeVars, graphVars, accessVars, ledgerVars, authVars, jobVars>>

Init ==
    /\ workload \in {"jobs", "network", "captures", "collector", "agent", "graph", "queries", "tenants", "roles",
                     "ledgers", "accounts"}
    /\ JobInit /\ content[f1] # "locked" /\ content[f2] = "locked"
    /\ (workload # "jobs" => content[f1] = "hash")
    /\ NetInit
    /\ PcapInit
    /\ ProbeInit
    /\ GraphInit
    /\ AccessInit
    /\ LedgerInit /\ (workload # "ledgers" => kind = "ledger")
    /\ AuthInit

Next ==
    /\ UNCHANGED workload
    /\ \/ /\ workload = "jobs" /\ JobNext
           /\ UNCHANGED <<netVars, pcapVars, probeVars, graphVars, accessVars, ledgerVars, authVars>>
        \/ /\ workload = "network" /\ NetNext
           /\ UNCHANGED <<pcapVars, probeVars, graphVars, accessVars, ledgerVars, authVars, jobVars>>
        \/ /\ workload = "captures" /\ PcapNext
           /\ UNCHANGED <<netVars, probeVars, graphVars, accessVars, ledgerVars, authVars, jobVars>>
        \/ /\ workload = "collector" /\ CollectorNext
           /\ UNCHANGED <<netVars, pcapVars, graphVars, accessVars, ledgerVars, authVars, jobVars>>
        \/ /\ workload = "agent" /\ AgentNext
           /\ UNCHANGED <<netVars, pcapVars, graphVars, accessVars, ledgerVars, authVars, jobVars>>
        \/ /\ workload = "graph" /\ CorrelateEvidence
           /\ UNCHANGED <<netVars, pcapVars, probeVars, accessVars, ledgerVars, authVars, jobVars>>
        \/ /\ workload = "queries" /\ ExecuteAuthorizedQuery
           /\ UNCHANGED <<netVars, pcapVars, probeVars, accessVars, ledgerVars, authVars, jobVars>>
        \/ /\ workload = "tenants" /\ AccessNext
           /\ UNCHANGED <<netVars, pcapVars, probeVars, graphVars, ledgerVars, authVars, jobVars>>
        \/ /\ workload = "roles" /\ Decide
           /\ UNCHANGED <<netVars, pcapVars, probeVars, graphVars, ledgerVars, authVars, jobVars>>
        \/ /\ workload = "ledgers" /\ LedgerNext
           /\ UNCHANGED <<netVars, pcapVars, probeVars, graphVars, accessVars, authVars, jobVars>>
        \/ /\ workload = "accounts" /\ AuthNext
           /\ UNCHANGED <<netVars, pcapVars, probeVars, graphVars, accessVars, ledgerVars, jobVars>>

Spec == Init /\ [][Next]_vars

\* A host with an expired certificate on one port and its successor on another, which
\* forgets the intermediate; a shop with a self-signed one; an intermediate that is weak.
MCCert ==
    [old   |-> [subject |-> "www", issuer |-> "ca", names |-> {"www"}, days |-> 0 - 3, started |-> TRUE,
                algo |-> "RSA", bits |-> 2048, sig |-> "sound", revoked |-> FALSE],
     new   |-> [subject |-> "www", issuer |-> "ca", names |-> {"www"}, days |-> 200, started |-> TRUE,
                algo |-> "EC", bits |-> 256, sig |-> "sound", revoked |-> FALSE],
     self  |-> [subject |-> "shop", issuer |-> "shop", names |-> {}, days |-> 7, started |-> TRUE,
                algo |-> "RSA", bits |-> 1024, sig |-> "sound", revoked |-> TRUE],
     inter |-> [subject |-> "ca", issuer |-> "root", names |-> {}, days |-> 400, started |-> TRUE,
                algo |-> "RSA", bits |-> 2048, sig |-> "weak", revoked |-> FALSE]]

MCSuite ==
    [gcm |-> [kex |-> "ECDHE", flaws |-> {}, digits |-> {128, 256}],
     rc4 |-> [kex |-> "RSA", flaws |-> {"RC4", "SHA1"}, digits |-> {128}],
     ssh |-> [kex |-> "none", flaws |-> {"cbc"}, digits |-> {}]]

\* "hex" spells the loopback address, "idn" is not ASCII, "vault" is never resolved.
MCSpelledIp == [lan |-> "lan", hex |-> "loop", class_e |-> "class_e"]
MCIpKind == [pub1 |-> "global", pub2 |-> "global", pub3 |-> "global", lan |-> "private",
             loop |-> "restricted", class_e |-> "reserved"]
MCResolves == [www |-> {<<"pub1">>, <<"pub2", "loop">>}, shop |-> {<<"pub2">>, <<"class_e">>},
               idn |-> {<<"pub3">>}, vault |-> {<<"pub1">>},
               lan |-> {<<"lan">>}, hex |-> {<<"loop">>}, class_e |-> {<<"class_e">>}]
MCServes ==
    <<"pub1", 443>> :> [chain |-> <<"old", "inter">>, versions |-> {"TLSv1.0"}, suites |-> {"rc4"}, legacy |-> {"rc4"}]
    @@ <<"pub1", 8443>> :> [chain |-> <<"new">>, versions |-> {"TLSv1.3"}, suites |-> {"gcm"}, legacy |-> {}]
    @@ <<"pub1", 22>> :> [chain |-> <<>>, versions |-> {}, suites |-> {"ssh"}, legacy |-> {}]
    @@ <<"pub2", 443>> :> [chain |-> <<"self">>, versions |-> {"TLSv1.3"}, suites |-> {"gcm"}, legacy |-> {}]
    @@ <<"pub3", 443>> :> [chain |-> <<"new", "inter">>, versions |-> {}, suites |-> {}, legacy |-> {}]
    @@ <<"lan", 443>> :> [chain |-> <<"new", "inter">>, versions |-> {}, suites |-> {"rc4"}, legacy |-> {}]

T(host, port) == [host |-> host, port |-> port, wellFormed |-> TRUE]
Malformed == [host |-> "hex", port |-> 443, wellFormed |-> FALSE]
Call == [targets |-> <<>>, source |-> "caller", file |-> NoScope, hosts |-> {}, subnets |-> {}, port |-> 443,
          allowPrivate |-> FALSE, evaluation |-> FALSE, slow |-> FALSE, protocol |-> "tls",
          includeChain |-> FALSE, production |-> TRUE]
File == [hosts |-> {"www", "lan"}, subnets |-> {"pub2"}, ports |-> {443}, allowPrivate |-> FALSE, expired |-> FALSE]

MCInvocations ==
    {[Call EXCEPT !.targets = <<T("www", 443), T("shop", 443), T("www", 8443)>>],
     [Call EXCEPT !.targets = <<T("www", 443), T("www", 443)>>, !.includeChain = TRUE],
     [Call EXCEPT !.targets = <<T("www", 443), T("hex", 443), T("vault", 443), Malformed>>],
     [Call EXCEPT !.targets = <<T("www", 22), T("www", 443)>>, !.protocol = "ssh", !.production = FALSE],
     [Call EXCEPT !.targets = <<T("idn", 443), T("shop", 443)>>, !.source = "flags", !.hosts = {"idn", "shop"}],
     [Call EXCEPT !.targets = <<T("lan", 443), T("shop", 443)>>, !.source = "file", !.file = File, !.allowPrivate = TRUE],
     [Call EXCEPT !.targets = <<T("lan", 443), T("class_e", 443), T("shop", 443)>>, !.source = "flags",
                   !.subnets = {"lan", "class_e"}, !.allowPrivate = TRUE],
     [Call EXCEPT !.targets = <<T("www", 443), T("www", 9000)>>, !.source = "none"],
     [Call EXCEPT !.targets = <<T("www", 443), T("www", 9000)>>, !.source = "none", !.evaluation = TRUE],
     [Call EXCEPT !.targets = <<T("www", 443), T("www", 9000)>>, !.slow = TRUE]}

E(origin, type, name, locator, app, size, mode, fp, at) ==
    [origin |-> origin, type |-> type, name |-> name, locator |-> locator, tenant |-> "t", app |-> app,
     size |-> size, mode |-> mode, fingerprint |-> fp, at |-> at, legal |-> TRUE]

MCEvidence ==
    {E("source", "algorithm", "aes", "a.py", "app", 128, "gcm", "none", "none"),
     E("runtime", "algorithm", "aes", "pid", "app", 128, "gcm", "none", "p1"),
     E("source", "algorithm", "aes", "src", "app", 256, "gcm", "none", "none"),
     E("runtime", "algorithm", "aes", "pid", "default", 0, "none", "none", "p2"),
     E("source", "algorithm", "rsa", "a.py", "default", 0, "none", "f1", "none"),
     E("filesystem", "certificate", "www", "a.py", "default", 0, "none", "f2", "none"),
     E("network", "certificate", "www", "host", "default", 0, "none", "f2", "e1"),
     E("binary", "library", "ssl", "lib", "default", 0, "none", "f1", "none"),
     E("source", "algorithm", "rsa", "a.py", "default", 0, "none", "none", "none"),
     [E("source", "algorithm", "des", "b.py", "app", 0, "none", "none", "none") EXCEPT !.legal = FALSE],
     [E("source", "algorithm", "aes", "a.py", "app", 128, "gcm", "none", "none") EXCEPT !.tenant = "other"]}

MCNear == {{"a.py", "src"}}
MCActors == {[tenant |-> "t", roles |-> {"viewer"}], [tenant |-> "t", roles |-> {"auditor"}],
             [tenant |-> "other", roles |-> {"admin"}]}

MCCallers == {[tenant |-> "t1", user |-> "ann", role |-> "analyst"],
              [tenant |-> "t1", user |-> "sam", role |-> "security_engineer"],
              [tenant |-> "t10", user |-> "bob", role |-> "developer"],
              [tenant |-> "t10", user |-> "root", role |-> "superuser"]}
MCCacheName == [p \in {"x", "y"} \X {"t1", "t10"} |-> p]
MCBeginning == [t1 |-> {"t1", "t10"}, t10 |-> {"t10"}]

\* Records of a capture: nested tunnels, tags, a cut, a length that lies, a link block.
Hello == [is |-> "client_hello", ciphers |-> <<"gcm">>]
R == [claims |-> "what is there", vlans |-> 0, tunnels |-> 0, network |-> "ipv4", transport |-> "tcp",
      whole |-> TRUE, app |-> Hello]
Cap == [size |-> 2, format |-> "pcap", order |-> "little", link |-> "ethernet", records |-> <<R, R>>]
MCCaptures ==
    {Cap,
     [Cap EXCEPT !.records = <<[R EXCEPT !.tunnels = 1], [R EXCEPT !.tunnels = 2], R>>],
     [Cap EXCEPT !.records = <<R, [R EXCEPT !.claims = "too much"], R>>],
     [Cap EXCEPT !.records = <<[R EXCEPT !.tunnels = 2], [R EXCEPT !.claims = "too much"], R>>],
     [Cap EXCEPT !.link = "sll", !.records = <<[R EXCEPT !.network = "ipv6", !.app = [is |-> "banner", secret |-> TRUE]],
                                               [R EXCEPT !.whole = FALSE]>>],
     [Cap EXCEPT !.records = <<[R EXCEPT !.vlans = 1, !.app = [is |-> "server_hello", ciphers |-> <<"rc4">>]],
                               [R EXCEPT !.vlans = 2], [R EXCEPT !.transport = "udp"], R>>],
     [Cap EXCEPT !.order = "big"],
     [Cap EXCEPT !.size = 4],
     [Cap EXCEPT !.format = "text"],
     [Cap EXCEPT !.format = "pcapng",
                 !.records = <<[R EXCEPT !.claims = "no packet"], R, [R EXCEPT !.claims = "too much"], R>>]}

Field(key, text) == [key |-> key, text |-> text, node |-> "none", container |-> "none", inner |-> <<>>]
Box(key, node) == [key |-> key, text |-> "none", node |-> node, container |-> "dict",
                   inner |-> <<[key |-> "secret", text |-> "plain"], [key |-> "note", text |-> "pem"]>>]
MCDetails == {<<Field("note", "plain"), Box("box", "n"), Box("again", "n"),
                [Box("all", "l") EXCEPT !.container = "list"]>>,
              <<Field("secret", "plain"), Box("secret", "n"), Field("note", "inline")>>}

MCPerson == [Ann |-> "ann", ann |-> "ann"]
PW(length, classes, holds) == [length |-> length, classes |-> classes, common |-> FALSE, holds |-> holds]
MCPassword == [good |-> PW(128, Classes, {}), own |-> PW(14, Classes, {"ann"}), long |-> PW(129, Classes, {}),
               short |-> PW(11, Classes, {}), plain |-> PW(14, Classes \ {"special"}, {})]

(***************************************************************************)
(* Two callers, one slot (a thread that outlives its caller's timeout      *)
(* leaves its slot to the other) and a shared cache; two files, the second *)
(* closed at first, which discovery may leave out or hand on; one edit,    *)
(* upgrade or crash.  A content the parser cannot read, one that matches   *)
(* all detectors, one with so many findings that a notice is given, which  *)
(* the secret detector does not survive, and one that cannot be opened.    *)
(***************************************************************************)
MCJobs == {j1, j2}
MCTenantOf == [j \in MCJobs |-> "t"]
MCIdOf == [j \in MCJobs |-> j]
MCConfigOf == [j \in MCJobs |-> 1]
MCFiles == {f1, f2}
MCLeftOut == {{}, {f2}}

Symmetric == Permutations(MCJobs)

At1(symbol, rule) == [line |-> 1, algorithm |-> "MD5", symbol |-> symbol, rule |-> rule]

Text(ast, regex, secrets) ==
  [readable |-> TRUE, ast |-> ast, astRaises |-> FALSE, regex |-> regex,
   regexRaises |-> FALSE, secrets |-> secrets, secretsRaise |-> FALSE]

MCContents ==
  [hash |-> Text(<<At1("md5", "PY1")>>, <<At1("md5(_0", "RX1")>>, <<At1("", "SEC1")>>),
   bad |-> [Text(<<At1("md5", "PY1")>>, <<At1("md5(_0", "RX1")>>, <<>>)
              EXCEPT !.astRaises = TRUE],
   many |-> [Text(<<At1("md5", "PY1"), At1("mac", "PY2")>>, <<At1("sha", "RX1"), At1("", "RX2"), At1("rc4", "RX3")>>,
                  <<At1("", "SEC1")>>) EXCEPT !.secretsRaise = TRUE],
   locked |-> [Text(<<>>, <<>>, <<>>) EXCEPT !.readable = FALSE]]

Member(name, size) ==
  [name |-> name, type |-> "file", size |-> size, magic |-> FALSE, nested |-> FALSE,
   corrupt |-> FALSE, link |-> <<>>]

Tar(members) == [suffix |-> ".tar", zip |-> FALSE, compressed |-> 1, members |-> members]

MCArchives ==
  << [Tar(<<Member(<<"src", "a.py">>, 2), Member(<<"src", "..", "b.py">>, 1)>>)
        EXCEPT !.suffix = "", !.zip = TRUE],
     Tar(<<Member(<<"a.py">>, 2), Member(<<"b.py">>, 2)>>),
     Tar(<<Member(<<"a.py">>, 1),
           [Member(<<"b.py">>, 0) EXCEPT !.type = "hard", !.link = <<"a.py">>],
           Member(<<"..", "c.py">>, 1)>>) >>

================================================================================
