------------------------------ MODULE NetworkScan ------------------------------
(***************************************************************************)
(* The network scanner (network/main.py, authorization.py,                 *)
(* target_validation.py, security.py, plugins/tls.py, plugins/ssh.py).     *)
(*                                                                         *)
(* Targets are judged one after the other: spelling, scope, name           *)
(* resolution, scope again with the address, rate.  What passes is pinned  *)
(* to its address and probed; answers arrive in any order.  Then every     *)
(* finding is reported and its certificates enter the inventory.           *)
(*                                                                         *)
(* What the certificates of scanned endpoints say (network/cert_parser.py, *)
(* network/intelligence.py, network/cert_inventory.py) comes first.        *)
(* Certificates and cipher suites are model values described by Cert and   *)
(* Suite; a chain is a sequence of them.                                   *)
(***************************************************************************)
EXTENDS Integers, Sequences, FiniteSets, SequencesExt

CONSTANTS
    Cert,           \* certificate -> [subject, issuer, names, days, started, algo, bits, sig, revoked]
    Suite,          \* cipher suite -> [kex, flaws, digits]: what its name spells
    OldVersions,    \* the protocol versions that are deprecated
    Invocations,    \* command lines: [targets, source, file, hosts, subnets, port, allowPrivate,
                    \*   evaluation, slow, protocol, includeChain, production]
    SpelledIp,      \* names that spell an address, in any notation -> that address
    IpKind,         \* address -> "global", "private", "reserved" or "restricted"
    Forbidden,      \* names that are never resolved
    NonAscii,       \* names that the hand-made ClientHello cannot carry
    Resolves,       \* name -> the answers name resolution may give: sequences of addresses
    Serves,         \* <<address, port>> -> [chain, versions, suites, legacy] of a server
    NoIp, NoScope, NoServer

ASSUME ResolutionAssumption ==
    /\ \A h \in DOMAIN Resolves : Resolves[h] # {} /\ Resolves[h] \subseteq Seq(DOMAIN IpKind \ {NoIp})
    /\ \A args \in Invocations :
          /\ args.targets \in Seq(ToSet(args.targets))
          /\ \A i \in DOMAIN args.targets : args.targets[i].host \in DOMAIN Resolves

ASSUME ServesAssumption == \A at \in DOMAIN Serves : Serves[at].chain \in Seq(DOMAIN Cert)

VARIABLES
    net,            \* the scan that runs
    dns             \* what name resolution answers now

netVars == <<net, dns>>

Phases == {"idle", "preparing", "probing", "done", "crashed"}

NetInit ==
    /\ net = [phase |-> "idle"]
    /\ dns = [h \in DOMAIN Resolves |-> CHOOSE answer \in Resolves[h] : TRUE]

(***************************************************************************)
(* One certificate.                                                        *)
(***************************************************************************)
SelfSigned(c) == Cert[c].subject = Cert[c].issuer

WeakKey(c) ==
    \/ Cert[c].algo \in {"RSA", "DSA"} /\ Cert[c].bits < 2048
    \/ Cert[c].algo = "EC" /\ Cert[c].bits < 224

\* A revocation list that cannot be read counts as one without the certificate.
CheckCrlRevocation(c, reachable) == reachable /\ Cert[c].revoked

\* parse_cert reports no weak DSA key, the inventory does.
ParseCert(c, reachable) ==
    {p \in {"expired", "early", "selfSigned", "weakSignature", "weakKey", "revoked"} :
        \/ p = "expired" /\ Cert[c].days < 0
        \/ p = "early" /\ ~Cert[c].started
        \/ p = "selfSigned" /\ SelfSigned(c)
        \/ p = "weakSignature" /\ Cert[c].sig = "weak"
        \/ p = "weakKey" /\ WeakKey(c) /\ Cert[c].algo # "DSA"
        \/ p = "revoked" /\ CheckCrlRevocation(c, reachable)}

(***************************************************************************)
(* One endpoint.                                                           *)
(***************************************************************************)
KeyExchanges(versions, suites) ==
    {Suite[s].kex : s \in suites} \cup IF "TLSv1.3" \in versions THEN {"KeyShare"} ELSE {}

SignatureAlgorithms(chain) == {Cert[c].sig : c \in ToSet(chain)}

ClassifyWeakAlgorithms(versions, suites, chain) ==
    (versions \cap OldVersions)
        \cup (UNION {Suite[s].flaws : s \in suites})
        \cup {c \in ToSet(chain) : Cert[c].sig = "weak" \/ (WeakKey(c) /\ Cert[c].algo # "DSA")}

ExtractTrustProblems(chain, reachable) == UNION {ParseCert(c, reachable) : c \in ToSet(chain)}

\* The 256 of a suite's hash reads like the 256 of its key.
QuantumVulnerabilities(versions, suites, chain) ==
    {v \in {"keyExchange", "identity", "128bit", "256bit"} :
        \/ v = "keyExchange" /\ KeyExchanges(versions, suites) \ {"PSK", "none"} # {}
        \/ v = "identity" /\ \E c \in ToSet(chain) : Cert[c].algo \in {"RSA", "EC", "DSA"}
        \/ v = "128bit" /\ \E s \in suites : 128 \in Suite[s].digits
        \/ v = "256bit" /\ \E s \in suites : 256 \in Suite[s].digits}

\* Enriching adds to what an earlier result of the same finding said.
Enriched(finding, reachable) ==
    [finding EXCEPT
        !.weak = @ \cup ClassifyWeakAlgorithms(finding.versions, finding.suites, finding.chain),
        !.trust = @ \cup ExtractTrustProblems(finding.chain, reachable),
        !.quantum = @ \cup QuantumVulnerabilities(finding.versions, finding.suites, finding.chain)]

(***************************************************************************)
(* The inventory: one item per fingerprint.                                *)
(***************************************************************************)
RenewalState(c) ==
    IF Cert[c].days < 0 THEN "EXPIRED"
    ELSE IF ~Cert[c].started THEN "NOT_YET_VALID"
    ELSE IF Cert[c].days <= 7 THEN "CRITICAL_EXPIRING"
    ELSE IF Cert[c].days <= 30 THEN "EXPIRING_SOON"
    ELSE "OK"

TrustStatus(chain) ==
    IF SelfSigned(Head(chain)) THEN "self_signed"
    ELSE IF Len(chain) = 1 THEN "untrusted_root"
    ELSE "trusted"

InvalidChain(chain) ==
    IF Len(chain) > 1
      THEN \E i \in 1 .. Len(chain) - 1 : Cert[chain[i]].issuer # Cert[chain[i + 1]].subject
      ELSE ~SelfSigned(Head(chain))

DetectItemAnomalies(chain) ==
    LET c == Head(chain) IN
    {<<a, "itself">> : a \in
        {a \in {"expired", "expiring", "weak_keys", "deprecated_signatures", "invalid_chains"} :
            \/ a = "expired" /\ Cert[c].days < 0
            \/ a = "expiring" /\ RenewalState(c) \in {"EXPIRING_SOON", "CRITICAL_EXPIRING"}
            \/ a = "weak_keys" /\ WeakKey(c)
            \/ a = "deprecated_signatures" /\ Cert[c].sig = "weak"
            \/ a = "invalid_chains" /\ InvalidChain(chain)}}

\* The item is built anew from the last chain; only its endpoints are kept.
AddOrUpdate(inventory, chain, endpoint) ==
    LET fp == Head(chain)
        before == IF fp \in DOMAIN inventory THEN inventory[fp].endpoints ELSE {}
        item == [chain |-> chain, trust |-> TrustStatus(chain), endpoints |-> before \cup {endpoint},
                 renewal |-> RenewalState(fp), anomalies |-> DetectItemAnomalies(chain)]
    IN  [f \in DOMAIN inventory \cup {fp} |-> IF f = fp THEN item ELSE inventory[f]]

CertsOfHost(inventory, host) == {f \in DOMAIN inventory : \E e \in inventory[f].endpoints : e.host = host}

\* Anomalies of deployment name the host they are about.
DeploymentAnomalies(inventory, f, production) ==
    LET hosts == {e.host : e \in inventory[f].endpoints} IN
    {<<"several", h>> : h \in {h \in hosts : Cardinality(CertsOfHost(inventory, h)) > 1}}
        \cup {<<"mismatch", h>> : h \in hosts \ Cert[f].names}
        \cup IF production /\ SelfSigned(f) THEN {<<"production", "itself">>} ELSE {}

Successor(inventory, f) ==
    \E g \in DOMAIN inventory \ {f} :
        /\ Cert[g].subject = Cert[f].subject
        /\ inventory[g].renewal \in {"OK", "EXPIRING_SOON"}

\* What the anomalies already noted add up to; they are never taken back.
DetectInconsistentDeployments(inventory, production) ==
    [f \in DOMAIN inventory |->
        [inventory[f] EXCEPT
            !.anomalies = @ \cup DeploymentAnomalies(inventory, f, production),
            !.renewal = IF @ = "EXPIRED" /\ Successor(inventory, f) THEN "RENEWED" ELSE @]]

\* Mutation: only the certificate that was just seen is looked at again.
IngestedAlone(inventory, chain, endpoint, production) ==
    LET added == AddOrUpdate(inventory, chain, endpoint)
        judged == DetectInconsistentDeployments(added, production)
    IN  [added EXCEPT ![Head(chain)] = judged[Head(chain)]]

IngestFromNetworkFinding(inventory, chain, endpoint, production) ==
    DetectInconsistentDeployments(AddOrUpdate(inventory, chain, endpoint), production)

(***************************************************************************)
(* Judging a target.                                                       *)
(***************************************************************************)
ParseNumericIp(host) == IF host \in DOMAIN SpelledIp THEN SpelledIp[host] ELSE NoIp

\* A literal in a reserved range is refused even when private networks are allowed ...
IsIpAllowed(ip, allowPrivate) == IpKind[ip] = "global" \/ (IpKind[ip] = "private" /\ allowPrivate)

\* ... an address that a name resolves to is not.
ValidateIpAddress(ip, allowPrivate) ==
    IpKind[ip] = "global" \/ (IpKind[ip] \in {"private", "reserved"} /\ allowPrivate)

CheckTargetPreDns(host, allowPrivate) ==
    /\ host \notin Forbidden
    /\ ParseNumericIp(host) # NoIp => IsIpAllowed(ParseNumericIp(host), allowPrivate)

NormalizeTarget(t, allowPrivate) == t.wellFormed /\ CheckTargetPreDns(t.host, allowPrivate)

StandardPorts == {443, 8443, 22, 636, 993, 995, 465}

\* A caller who only names himself authorises the hosts of his own targets.
ScopeOf(args) ==
    LET scope == [hosts |-> args.hosts, subnets |-> args.subnets, ports |-> StandardPorts \cup {args.port},
                  allowPrivate |-> args.allowPrivate, expired |-> FALSE]
    IN  CASE args.source = "file" -> args.file
          [] args.source = "flags" -> scope
          [] args.source = "caller" ->
                [scope EXCEPT !.subnets = {},
                    !.hosts = {t.host : t \in {t \in ToSet(args.targets) : NormalizeTarget(t, FALSE)}}]
          [] OTHER -> NoScope

Authorize(args, scope, t, ip) ==
    \/ args.evaluation
    \/ /\ scope # NoScope
       /\ ~scope.expired
       /\ t.port \in scope.ports
       /\ \/ t.host \in scope.hosts
          \/ (IF ip = NoIp THEN ParseNumericIp(t.host) ELSE ip) \in scope.subnets
       /\ ip # NoIp /\ IpKind[ip] \in {"private", "reserved"} => scope.allowPrivate

ResolveAndPin(host, allowPrivate) ==
    IF /\ dns[host] # <<>>
       /\ \A ip \in ToSet(dns[host]) : ValidateIpAddress(ip, allowPrivate)
      THEN Head(dns[host]) ELSE NoIp

\* A bucket holds no more than its rate, so that a rate below one never gives a token.
AcquireToken(args) == ~args.slow

FindingKey(t) == [host |-> t.host, port |-> t.port]

AuditRecord(t, ip, authorized) == [host |-> t.host, port |-> t.port, ip |-> ip, authorized |-> authorized]

Refused(state, t, records) ==
    [state EXCEPT !.next = @ + 1, !.failed = @ \cup {FindingKey(t)}, !.audit = @ \cup records]

Pinned(state, t, ip) ==
    [state EXCEPT !.next = @ + 1, !.requests = Append(@, [host |-> t.host, port |-> t.port, ip |-> ip]),
                  !.audit = @ \cup {AuditRecord(t, ip, TRUE)}]

Prepared(state, t) ==
    LET args == state.args
        scope == state.scope
        early == scope = NoScope \/ (scope.hosts # {} /\ scope.subnets = {})
        ip == ResolveAndPin(t.host, args.allowPrivate)
    IN  IF ~NormalizeTarget(t, args.allowPrivate) THEN Refused(state, t, {})
        ELSE IF early /\ ~Authorize(args, scope, t, NoIp)
          THEN Refused(state, t, {AuditRecord(t, NoIp, FALSE)})
        ELSE IF ip = NoIp THEN Refused(state, t, {AuditRecord(t, NoIp, FALSE)})
        ELSE IF ~Authorize(args, scope, t, ip) THEN Refused(state, t, {AuditRecord(t, ip, FALSE)})
        ELSE IF ~AcquireToken(args)
          THEN Refused(state, t, {AuditRecord(t, ip, TRUE), AuditRecord(t, NoIp, FALSE)})
        ELSE Pinned(state, t, ip)

StartMain ==
    /\ net.phase = "idle"
    /\ \E args \in Invocations :
          net' = [phase |-> "preparing", args |-> args, scope |-> ScopeOf(args), next |-> 1,
                  audit |-> {}, failed |-> {}, requests |-> <<>>, waiting |-> {}, probes |-> {},
                  found |-> <<>>, arrived |-> <<>>, inventory |-> <<>>, report |-> {}]
    /\ UNCHANGED dns

PrepareTarget ==
    /\ net.phase = "preparing"
    /\ net.next <= Len(net.args.targets)
    /\ net' = Prepared(net, net.args.targets[net.next])
    /\ UNCHANGED dns

\* A scope with an end may end while targets are judged.
ScopeExpires ==
    /\ net.phase = "preparing"
    /\ net.args.source = "file"
    /\ ~net.scope.expired
    /\ net' = [net EXCEPT !.scope.expired = TRUE]
    /\ UNCHANGED dns

DnsChanges ==
    /\ net.phase \in {"idle", "preparing", "probing"}
    /\ \E h \in DOMAIN Resolves : \E answer \in Resolves[h] : dns' = [dns EXCEPT ![h] = answer]
    /\ dns' # dns
    /\ UNCHANGED net

(***************************************************************************)
(* Probing.  One finding stands for every request to the same host and     *)
(* port: a second answer adds to what the first one said.                  *)
(***************************************************************************)
NewFinding == [status |-> "failed", chain |-> <<>>, versions |-> {}, suites |-> {},
               weak |-> {}, trust |-> {}, quantum |-> {}]

StartProbing ==
    /\ net.phase = "preparing"
    /\ net.next > Len(net.args.targets)
    /\ net' = [net EXCEPT !.phase = "probing", !.waiting = DOMAIN net.requests,
                          !.found = [k \in {FindingKey(r) : r \in ToSet(net.requests)} |-> NewFinding]]
    /\ UNCHANGED dns

Server(ip, port) == IF <<ip, port>> \in DOMAIN Serves THEN Serves[<<ip, port>>] ELSE NoServer

\* The hand-made ClientHello only offers RC4 and 3DES; its certificate is used when
\* no other was received.
LegacyProbed(finding, server) ==
    IF server.legacy = {} THEN finding
    ELSE [finding EXCEPT !.suites = @ \cup server.legacy, !.versions = @ \cup {"TLSv1.2"},
                         !.chain = IF @ = <<>> /\ server.chain # <<>> THEN <<Head(server.chain)>> ELSE @]

\* The certificates were received or the command failed.
TlsFinding(finding, server, received, reachable) ==
    LET spoken == [finding EXCEPT !.versions = @ \cup server.versions, !.suites = @ \cup server.suites,
                      !.chain = IF received THEN @ \o server.chain ELSE @,
                      !.status = IF received THEN "success" ELSE "partial"]
    IN  Enriched(LegacyProbed(spoken, server), reachable)

\* An SSH server shows suites and no certificate; its key exchange may not be read.
SshFinding(finding, server, received) ==
    [finding EXCEPT !.status = IF received THEN "success" ELSE "partial",
                    !.weak = IF received THEN UNION {Suite[s].flaws : s \in server.suites} ELSE @]

\* Mutation: the name is resolved again when the connection is made.
ConnectByName(request) == IF dns[request.host] = <<>> THEN NoIp ELSE Head(dns[request.host])

Connect(request) == request.ip

Answer(state, i, up, received, reachable) ==
    LET r == state.requests[i]
        ip == Connect(r)
        server == Server(ip, r.port)
        tls == state.args.protocol = "tls"
        heard == up /\ server # NoServer
    IN  IF heard /\ tls /\ r.host \in NonAscii
          THEN [state EXCEPT !.phase = "crashed", !.probes = @ \cup {AuditRecord(r, ip, TRUE)}]
          ELSE [state EXCEPT !.waiting = @ \ {i}, !.arrived = Append(@, FindingKey(r)),
                  !.probes = @ \cup {AuditRecord(r, ip, TRUE)},
                  !.found[FindingKey(r)] =
                      IF ~heard THEN [@ EXCEPT !.status = "failed"]
                      ELSE IF tls THEN TlsFinding(@, server, received, reachable)
                      ELSE SshFinding(@, server, received)]

\* TLS answers arrive as they come, SSH servers are asked one after the other.
Result ==
    /\ net.phase = "probing"
    /\ \E i \in net.waiting, up, received, reachable \in BOOLEAN :
        /\ net.args.protocol = "tls" \/ \A j \in net.waiting : i <= j
        /\ net' = Answer(net, i, up, received, reachable)
    /\ UNCHANGED dns

(***************************************************************************)
(* Reporting.  The chain of a finding enters the inventory before it is    *)
(* cut to its first certificate.                                           *)
(***************************************************************************)
Heard(f) == f.status \in {"success", "partial"}

ReportOne(acc, k) ==
    LET chain == acc.found[k].chain IN
    IF ~Heard(acc.found[k]) THEN acc
    ELSE [acc EXCEPT
            !.inventory = IF chain = <<>> THEN @
                          ELSE IngestFromNetworkFinding(@, chain, k, acc.args.production),
            !.found[k].chain = IF acc.args.includeChain \/ chain = <<>> THEN @ ELSE <<Head(chain)>>,
            !.report = @ \cup {k}]

Report(state) == FoldLeft(ReportOne, state, state.arrived)

Finish ==
    /\ net.phase = "probing"
    /\ net.waiting = {}
    /\ LET reported == Report(net) IN
        net' = [net EXCEPT !.phase = "done", !.inventory = reported.inventory,
                           !.found = reported.found, !.report = reported.report]
    /\ UNCHANGED dns

NetNext ==
    \/ StartMain \/ PrepareTarget \/ ScopeExpires \/ DnsChanges
    \/ StartProbing \/ Result \/ Finish

NetSpec == NetInit /\ [][NetNext]_netVars

-------------------------------------------------------------------------------
\* Whatever a name resolves to by then, a connection is only made to the address that
\* was judged for that host and port, never to a restricted one, and to a private one
\* only where the command line or the scope allows it.
OnlyAuthorizedProbes ==
    net.phase \in {"probing", "done", "crashed"} =>
        /\ net.probes \subseteq net.audit
        /\ \A p \in net.probes :
              /\ IpKind[p.ip] # "restricted"
              /\ IpKind[p.ip] # "global" => net.args.allowPrivate

\* A scan that ends says something of every target: refused, unreachable or heard; and
\* what it reports of an endpoint includes every weakness of every certificate that
\* was received from it, although the chain is cut by then.
EveryTargetIsReported ==
    net.phase = "done" =>
        /\ \A t \in ToSet(net.args.targets) : FindingKey(t) \in net.failed \cup ToSet(net.arrived)
        /\ net.report = {k \in DOMAIN net.found : Heard(net.found[k])}
        /\ \A f \in DOMAIN net.inventory :
              \A k \in net.inventory[f].endpoints :
                  {c \in ToSet(net.inventory[f].chain) : Cert[c].sig = "weak"} \subseteq
                      UNION {net.found[j].weak : j \in net.inventory[f].endpoints}

\* The inventory does not depend on the order in which answers arrive: each certificate
\* has exactly the endpoints that served it, is inconsistent where a host has another
\* one, and an expired one counts as renewed when its successor was seen, first or last.
InventoryIgnoresOrder ==
    net.phase = "done" =>
        \A f \in DOMAIN net.inventory :
            LET item == net.inventory[f] IN
            /\ item.endpoints = {k \in net.report : net.found[k].chain # <<>> /\ Head(net.found[k].chain) = f}
            /\ \A e \in item.endpoints :
                  <<"several", e.host>> \in item.anomalies
                      <=> \E g \in DOMAIN net.inventory \ {f} :
                              \E d \in net.inventory[g].endpoints : d.host = e.host
            /\ item.renewal = "RENEWED"
                  <=> /\ RenewalState(f) = "EXPIRED"
                      /\ \E g \in DOMAIN net.inventory \ {f} :
                            /\ Cert[g].subject = Cert[f].subject
                            /\ RenewalState(g) \in {"OK", "EXPIRING_SOON"}

\* What a scan of a network says at its end is complete, in whatever order it was answered.
ReportIsComplete == EveryTargetIsReported /\ InventoryIgnoresOrder

===============================================================================
