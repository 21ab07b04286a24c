------------------------------ MODULE PcapCapture ------------------------------
(***************************************************************************)
(* Handshakes read from packet captures (network/pcap_parser.py): a file   *)
(* is refused or read record by record, each packet is unwrapped layer by  *)
(* layer, and what does not fit is to be told by a diagnostic.             *)
(*                                                                         *)
(* A capture is its header and its records; a record is how much of it is  *)
(* there and the layers its bytes spell, down to the application's.        *)
(***************************************************************************)
EXTENDS Integers, Sequences, FiniteSets, SequencesExt

CONSTANTS
    Captures,       \* [size, format, order, link, records]
    MaxSize,        \* bytes of a file (a header is one)
    MaxPackets,     \* packets of a file
    MaxRecursion,   \* layers of a packet
    MaxTold         \* diagnostics that a report lists (100)

\* The records are a list, each with an application that is one of those told apart.
ASSUME CapturesAssumption ==
    /\ MaxPackets \in Nat /\ MaxTold \in Nat
    /\ \A c \in Captures :
          /\ Len(c.records) \in Nat /\ DOMAIN c.records = 1 .. Len(c.records)
          /\ \A i \in DOMAIN c.records :
                c.records[i].app.is \in {"client_hello", "server_hello", "banner", "other"}

VARIABLES
    capture,        \* the file being read
    position,       \* records read so far
    outcome,        \* whether it is read, refused, done, and what stopped it
    counted,        \* packet_count
    diagnostics,    \* types of the parser's diagnostics, in order
    handshakes      \* findings, in order

pcapVars == <<capture, position, outcome, counted, diagnostics, handshakes>>

NoCapture == [format |-> "none", records |-> <<>>]

PcapInit ==
    /\ capture = NoCapture
    /\ position = 0
    /\ outcome = [is |-> "idle", limit |-> FALSE]
    /\ counted = 0
    /\ diagnostics = <<>>
    /\ handshakes = <<>>

Is(state, limit) == [is |-> state, limit |-> limit]

(***************************************************************************)
(* The header.  The second comparison takes a number that was read with    *)
(* its bytes in order for one whose bytes are swapped, and so never holds  *)
(* for a file that the first one passed over.                              *)
(***************************************************************************)
\* What a magic number spells when the file's bytes are read in an order: the number, or
\* its mirror image.
ReadAs(c, order) == IF c.order = order THEN "magic" ELSE "mirrored"

Endian(c) ==
    CASE c.format # "pcap" -> "unknown"
      [] ReadAs(c, "little") = "magic" -> "little"
      [] ReadAs(c, "big") = "mirrored" -> "big"
      [] OTHER -> "unknown"

\* parse_bytes and the head of _parse_pcap_buffer.
Open(c) ==
    /\ outcome.is = "idle"
    /\ capture' = c
    /\ \/ /\ c.size > MaxSize \/ c.size < 1
          /\ outcome' = Is("refused", FALSE)
          /\ UNCHANGED diagnostics
       \/ /\ c.size \in 1 .. MaxSize
          /\ Endian(c) # "unknown" \/ c.format = "pcapng"
          /\ outcome' = Is("reading", FALSE)
          /\ UNCHANGED diagnostics
       \/ /\ c.size \in 1 .. MaxSize
          /\ Endian(c) = "unknown" /\ c.format # "pcapng"
          /\ outcome' = Is("done", FALSE)
          /\ diagnostics' = <<"INVALID_MAGIC">>
    /\ UNCHANGED <<position, counted, handshakes>>

(***************************************************************************)
(* The layers of a packet.  Each is parsed one level deeper; a packet      *)
(* whose bytes end early is left without a word.                           *)
(***************************************************************************)
\* The network header under the link's, after one VLAN tag at most.
NetworkOf(r, link) ==
    IF r.vlans <= (IF link = "ethernet" THEN 1 ELSE 0) /\ link \in {"ethernet", "raw", "sll"}
    THEN r.network ELSE "none"

\* The level a packet's innermost network header is parsed on; only IPv4 carries tunnels.
Depth(r) == 1 + r.tunnels

\* _parse_tls_record and _parse_ssh_banner: what is found in the application's bytes.
ParseTlsRecord(app) ==
    CASE app.is = "client_hello" -> <<[protocol |-> "TLS", message |-> "ClientHello", ciphers |-> app.ciphers]>>
      [] app.is = "server_hello" -> <<[protocol |-> "TLS", message |-> "ServerHello", ciphers |-> app.ciphers]>>
      [] OTHER -> <<>>

ParseSshBanner(app) ==
    IF app.is # "banner" THEN <<>>
    ELSE <<[protocol |-> "SSH", message |-> IF app.secret THEN "redacted" ELSE "banner", ciphers |-> <<>>]>>

ParseTransportLayer(r) ==
    IF r.network \in {"ipv4", "ipv6"} /\ r.transport = "tcp" /\ r.whole THEN ParseTlsRecord(r.app) \o ParseSshBanner(r.app) ELSE <<>>

ParseLinkLayer(r, link) ==
    IF NetworkOf(r, link) = "none" THEN [told |-> <<>>, found |-> <<>>]
    ELSE IF Depth(r) > MaxRecursion THEN [told |-> <<"RECURSION_LIMIT">>, found |-> <<>>]
    ELSE [told |-> <<>>, found |-> ParseTransportLayer(r)]

(***************************************************************************)
(* The records.                                                            *)
(***************************************************************************)
Record == capture.records[position + 1]

Reading == outcome.is = "reading" /\ position < Len(capture.records)

Stop(limit, told) ==
    /\ outcome' = Is("done", limit)
    /\ diagnostics' = diagnostics \o told
    /\ UNCHANGED <<capture, position, counted, handshakes>>

\* The clock is looked at before every record.
TimeIsUp ==
    /\ Reading
    /\ Stop(TRUE, IF capture.format = "pcap" THEN <<"TIMEOUT">> ELSE <<>>)

EnoughPackets ==
    /\ Reading
    /\ counted >= MaxPackets
    /\ Stop(TRUE, <<>>)

\* Mutation: a record that claims more than there is ends the file like its end.
TruncatedSilently ==
    /\ Reading
    /\ capture.format = "pcap"
    /\ counted < MaxPackets
    /\ Record.claims = "too much"
    /\ outcome' = Is("done", FALSE)
    /\ UNCHANGED <<capture, position, counted, diagnostics, handshakes>>

\* A record that claims more than there is ends a pcap file with a word, a pcapng file
\* without one.
TruncatedPacket ==
    /\ Reading
    /\ capture.format = "pcap"
    /\ counted < MaxPackets
    /\ Record.claims = "too much"
    /\ outcome' = Is("done", FALSE)
    /\ counted' = counted + 1
    /\ diagnostics' = Append(diagnostics, "TRUNCATED_PACKET")
    /\ UNCHANGED <<capture, position, handshakes>>

TruncatedBlock ==
    /\ Reading
    /\ capture.format = "pcapng"
    /\ counted < MaxPackets
    /\ Record.claims = "too much"
    /\ Stop(FALSE, <<>>)

\* Blocks of a pcapng file that hold no packet are skipped; every link is an ethernet there.
ParsePacket ==
    /\ Reading
    /\ counted < MaxPackets
    /\ Record.claims # "too much"
    /\ position' = position + 1
    /\ IF Record.claims = "no packet" THEN UNCHANGED <<counted, diagnostics, handshakes>>
       ELSE LET parsed == ParseLinkLayer(Record, IF capture.format = "pcap" THEN capture.link ELSE "ethernet") IN
            /\ counted' = counted + 1
            /\ diagnostics' = diagnostics \o parsed.told
            /\ handshakes' = handshakes \o [i \in DOMAIN parsed.found |-> [index |-> position + 1, found |-> parsed.found[i]]]
    /\ UNCHANGED <<capture, outcome>>

EndOfFile ==
    /\ outcome.is = "reading"
    /\ position = Len(capture.records)
    /\ outcome' = Is("done", outcome.limit)
    /\ UNCHANGED <<capture, position, counted, diagnostics, handshakes>>

PcapNext ==
    \/ \E c \in Captures : Open(c)
    \/ TimeIsUp \/ EnoughPackets
    \/ TruncatedPacket \/ TruncatedBlock
    \/ ParsePacket \/ EndOfFile

\* What the report tells of the diagnostics: how many there are, and the first of them.
DiagnosticsReport ==
    [count |-> Len(diagnostics),
     listed |-> IF Len(diagnostics) <= MaxTold THEN diagnostics ELSE SubSeq(diagnostics, 1, MaxTold)]

PcapSpec == PcapInit /\ [][PcapNext]_pcapVars

-------------------------------------------------------------------------------
Complete(r) ==
    r.claims = "what is there" /\ r.network \in {"ipv4", "ipv6"} /\ r.transport = "tcp" /\ r.whole /\ r.app.is # "other"

\* The report lists a diagnostic of the kind, or counts more than it lists.
Mentions(words) ==
    \/ ToSet(DiagnosticsReport.listed) \cap words # {}
    \/ DiagnosticsReport.count > Len(DiagnosticsReport.listed)

\* The report on a pcap file leaves no handshake of a known link out without a word: one
\* that a record holds is found, or lies behind the place where a limit or a broken
\* record ended the file, or deeper than the limit on layers, and a diagnostic tells of
\* either, unless more have come than the report lists, which it counts.  What is found
\* stands in records that were counted, at most one in each.  Of a pcapng file, of two
\* tags and of an unknown link type nothing is said, nor does the code say anything.
NoHandshakeIsDroppedSilently ==
    /\ (outcome.is = "done" /\ capture.format = "pcap") =>
        \A i \in DOMAIN capture.records :
            LET r == capture.records[i] IN
            (Complete(r) /\ NetworkOf(r, capture.link) # "none") =>
                \/ \E h \in ToSet(handshakes) : h.index = i
                \/ i > position /\ (outcome.limit \/ Mentions({"INVALID_MAGIC", "TRUNCATED_PACKET"}))
                \/ Depth(r) > MaxRecursion /\ Mentions({"RECURSION_LIMIT"})
    /\ Len(handshakes) <= counted
    /\ counted <= MaxPackets
    /\ \A i, j \in DOMAIN handshakes : handshakes[i].index = handshakes[j].index => i = j

===============================================================================
