------------------------------ MODULE CbomMapping ------------------------------
(***************************************************************************)
(* From findings to cryptographic bills of materials (cbom_mapping.py):    *)
(* one constructor per scanner, the merge that a scan of many findings     *)
(* goes through, and the export with its schema gate.                      *)
(*                                                                         *)
(* A component keeps its reference, what it stands for, its algorithm and  *)
(* key size, the class of the algorithm, and the set of its occurrences,   *)
(* each a location and the line in it.  Algorithm and size are the ones    *)
(* that normalize_cbom reads: a size written elsewhere counts as none.     *)
(* References are tuples, the code's strings split at their separators.    *)
(***************************************************************************)
EXTENDS CryptoClassifier, FiniteSets

CONSTANTS
    Named,          \* Named[n]: what the classifier sees of the name n, an algorithm or a file
    PqcCatalog,     \* id -> [name, category, parts, combiners, harvest, signs] of the PQC catalog
    Alias           \* the names of the catalog, lowered -> id

ASSUME AliasAssumption == \A name \in DOMAIN Alias : Alias[name] \in DOMAIN PqcCatalog

\* A name the model gives no keywords, a host or a path, is seen as containing none.
Seen(name) == IF name \in DOMAIN Named THEN Named[name] ELSE [parts |-> {}, numbers |-> <<>>]

ClassOf(algorithm, size) == Classify(Seen(algorithm), [Plain EXCEPT !.size = size]).class

Component(ref, kind, algorithm, size, at) ==
    [ref |-> ref, kind |-> kind, algorithm |-> algorithm, size |-> size,
     class |-> ClassOf(algorithm, size), at |-> at]

\* A component that is given no class: what carries the assets (a file, a host, a
\* process, a library), certificates, and what was seen at run time.
Carrier(ref, kind, name, size, at) ==
    [ref |-> ref, kind |-> kind, algorithm |-> name, size |-> size, class |-> "unset", at |-> at]

\* An occurrence that has no line.
At(location) == {<<location, 0>>}

Bom(components, dependencies) == [components |-> components, dependencies |-> dependencies]

EmptyBom == Bom({}, {})

Edges(from, to) == {<<from, c.ref>> : c \in to}

(***************************************************************************)
(* Source code.  `static/main.py' names an asset after its algorithm, so   *)
(* that all its uses share one component; the other scanners name it after *)
(* its place.  Secrets and fixtures are kept out of the batch CBOM.        *)
(***************************************************************************)
FileOf(finding) == Carrier(<<"code:file", finding.file>>, "file", finding.file, 0, {<<finding.file, finding.line>>})

AssetKind(finding) == IF finding.type = "hardcoded_key" THEN "related_material" ELSE "algorithm"

CodeFindingToCbom(finding) ==
    LET asset == Component(finding.ref, AssetKind(finding), finding.algorithm, finding.size,
                           {<<finding.file, finding.line>>})
    IN  Bom({FileOf(finding), asset}, Edges(<<"code:file", finding.file>>, {asset}))

CodeFindingsToCbom(findings) ==
    LET kept == {i \in DOMAIN findings : findings[i].type \notin {"hardcoded_secret", "synthetic_fixture"}}
        Of(ref) == {i \in kept : findings[i].ref = ref}
        Asset(ref) == LET first == findings[Min(Of(ref))] IN
            Component(ref, AssetKind(first), first.algorithm, first.size,
                      {<<findings[i].file, findings[i].line>> : i \in Of(ref)})
        files == {Carrier(<<"code:file", findings[i].file>>, "file", findings[i].file, 0, {}) : i \in kept}
    IN  Bom(files \cup {Asset(findings[i].ref) : i \in kept},
            {<<<<"code:file", findings[i].file>>, findings[i].ref>> : i \in kept})

(***************************************************************************)
(* Network endpoints: the target, a protocol per accepted version, a       *)
(* certificate per link of the chain and an algorithm per key.             *)
(***************************************************************************)
NetworkFindingToCbom(finding) ==
    LET target    == Carrier(<<"net:target", finding.host>>, "application", finding.host, 0, At(finding.host))
        protocols == {Carrier(<<"net:protocol", v, finding.host>>, "protocol", v, 0, At(finding.host)) :
                        v \in finding.versions}
        Link(i)   == LET cert == finding.chain[i] IN
                     Carrier(<<"net:certificate", i, finding.host>>, "certificate",
                             cert.algorithm, cert.size, At(finding.host))
        keys      == {Component(<<"net:algorithm", k.algorithm, k.size, finding.host>>, "algorithm",
                                k.algorithm, k.size, At(finding.host)) : k \in finding.keys}
        assets    == protocols \cup {Link(i) : i \in DOMAIN finding.chain} \cup keys
    IN  Bom({target} \cup assets, Edges(target.ref, assets))

(***************************************************************************)
(* A TLS handshake as network/hybrid_analysis.py sees it: its group, or    *)
(* else its cipher suite, is looked up in the catalog; a name the catalog  *)
(* does not know is judged by the words in it.                             *)
(***************************************************************************)
NoEntry == [name |-> "none", category |-> "classical", parts |-> {}, combiners |-> {}, harvest |-> FALSE, signs |-> FALSE]

Lookup(name) == IF name \in DOMAIN Alias THEN PqcCatalog[Alias[name]] ELSE NoEntry

KeyExchange(h) == IF Lookup(h.group) # NoEntry THEN Lookup(h.group) ELSE Lookup(h.cipher)

Category(h) ==
    LET words == Seen(h.group).parts \cup Seen(h.cipher).parts IN
    IF KeyExchange(h) # NoEntry THEN KeyExchange(h).category
    ELSE IF words \cap {"mlkem", "kyber", "sntrup761", "frodo", "bikel"} = {} THEN "classical"
    ELSE IF words \cap {"x25519", "p256", "p384", "secp256r1", "rsa"} # {} THEN "hybrid" ELSE "post_quantum"

ForwardSecret(cipher) ==
    LET words == Seen(cipher).parts IN
    /\ words \cap {"tls_rsa", "rsa_"} = {}
    /\ "-sha" \in words => words \cap {"ecdhe", "dhe", "ecdh", "dh"} # {}

\* The relationships of an exchange that the catalog knows: what it is combined of.
BuildFirstClassRelationships(h) ==
    LET entry == KeyExchange(h) IN
    [parts |-> IF entry.category = "hybrid" THEN entry.parts ELSE {},
     combiners |-> IF entry.category = "hybrid" THEN entry.combiners ELSE {},
     signatures |-> IF entry # NoEntry THEN {h.signature} \ {"none"} ELSE {}]

AnalyzeHandshake(h) ==
    LET entry == KeyExchange(h)
        signature == Lookup(h.signature)
        below == BuildFirstClassRelationships(h)
    IN  [host |-> h.host, group |-> IF entry # NoEntry THEN entry.name ELSE h.group,
         category |-> Category(h), forwardSecret |-> ForwardSecret(h.cipher), harvest |-> entry.harvest,
         signs |-> entry.signs \/ signature.category \in {"post_quantum", "hybrid"},
         parts |-> below.parts, combiners |-> below.combiners]

\* A hybrid key exchange with its two components and its combiner below it.
HybridAnalysisToCbom(analysis) ==
    LET at       == At(analysis.host)
        endpoint == Carrier(<<"net:endpoint", analysis.host>>, "application", analysis.host, 0, at)
        exchange == Carrier(<<"net:kex", analysis.group, analysis.host>>, "algorithm", analysis.group, 0, at)
        below    == {Carrier(<<"net:subalgo", a, analysis.host>>, "algorithm", a, 0, at) : a \in analysis.parts}
                    \cup {Carrier(<<"net:combiner", c, analysis.host>>, "combiner", c, 0, at) : c \in analysis.combiners}
    IN  Bom({endpoint, exchange} \cup below,
            Edges(exchange.ref, below) \cup Edges(endpoint.ref, {exchange}))

(***************************************************************************)
(* Binaries and container packages: what they link, and the certificates   *)
(* they embed; a library is a capability, not a use.                       *)
(***************************************************************************)
BinaryFindingToCbom(finding) ==
    Bom({Carrier(<<"pkg", finding.package>>, "library", finding.library, 0, At(finding.path))}, {})

\* The key size of a certificate goes to a property that nothing reads.
BinaryMetadataToCbom(meta) ==
    LET at     == At(meta.file)
        target == Carrier(<<"binary:target", meta.file>>, "application", meta.file, 0, at)
        libs   == {Carrier(<<"binary:crypto_lib", l, meta.file>>, "library", l, 0, at) : l \in meta.libraries}
        certs  == {Carrier(<<"binary:cert", i, meta.file>>, "certificate", meta.certificates[i].algorithm, 0, at) :
                      i \in DOMAIN meta.certificates}
    IN  Bom({target} \cup libs \cup certs, Edges(target.ref, libs \cup certs))

\* A hooked call: application, process, library and algorithm, each depending on the next.
\* The key size is a part of the algorithm's name, event.name, and no property.
RuntimeEventToCbom(event) ==
    LET app  == Carrier(<<"runtime:app", event.app>>, "application", event.app, 0, At(event.app))
        proc == Carrier(<<"runtime:process", event.pid>>, "application", event.pid, 0, At(event.pid))
        lib  == Carrier(<<"runtime:lib", event.library, event.pid>>, "library", event.library, 0, At(event.library))
        alg  == Carrier(<<"runtime:algo", event.algorithm, event.pid>>, "algorithm", event.name, 0, At(event.pid))
    IN  Bom({app, proc, lib, alg},
            Edges(app.ref, {proc}) \cup Edges(proc.ref, {lib}) \cup Edges(lib.ref, {alg}))

(***************************************************************************)
(* Merging: the first component of a reference stays, later ones only add  *)
(* their occurrences.                                                      *)
(***************************************************************************)
Merge2(merged, bom) ==
    LET known == {c.ref : c \in merged.components}
        Twin(c) == CHOOSE d \in bom.components : d.ref = c.ref
        grown == {IF \E d \in bom.components : d.ref = c.ref
                    THEN [c EXCEPT !.at = @ \cup Twin(c).at] ELSE c : c \in merged.components}
    IN  Bom(grown \cup {d \in bom.components : d.ref \notin known},
            merged.dependencies \cup bom.dependencies)

MergeCboms(boms) == FoldLeft(Merge2, EmptyBom, boms)

(***************************************************************************)
(* Export.  The document must name its format and a supported version and  *)
(* satisfy the official schema, of which the model keeps that references   *)
(* are unique and that dependencies name components.  A 1.7 document gives *)
(* an algorithm its family when it can be told.                            *)
(***************************************************************************)
Family(name) ==
    IF Has(name, {"chacha20"}) THEN "ChaCha20"
    ELSE IF Has(name, {"mlkem"}) THEN "ML-KEM"
    ELSE IF Has(name, {"mldsa"}) THEN "ML-DSA"
    ELSE IF Has(name, {"slhdsa"}) THEN "SLH-DSA"
    ELSE IF Has(name, {"rsa"})
      THEN IF Has(name, {"oaep"}) THEN "RSAES-OAEP"
           ELSE IF Has(name, {"pss"}) THEN "RSASSA-PSS" ELSE "RSASSA-PKCS1"
    ELSE IF Has(name, {"sha256", "sha384", "sha512"}) THEN "SHA-2"
    ELSE IF Has(name, {"sha1"}) THEN "SHA-1"
    ELSE IF Has(name, {"ed25519", "ed448"}) THEN "EdDSA"
    ELSE IF Has(name, {"x25519", "x448"}) THEN "ECDH"
    ELSE IF Has(name, {"md5"}) THEN "MD5"
    ELSE IF Has(name, {"aes"}) /\ name.numbers = <<>> THEN "AES"
    ELSE "none"

SchemaAccepts(bom) ==
    /\ Cardinality({c.ref : c \in bom.components}) = Cardinality(bom.components)
    /\ \A d \in bom.dependencies : \A i \in 1 .. 2 : \E c \in bom.components : c.ref = d[i]

ValidateCbom(document) ==
    /\ document.format = "CycloneDX"
    /\ document.version \in {"1.6", "1.7"}
    /\ SchemaAccepts(document.bom)

NoDocument == [format |-> "none"]

\* NoDocument stands for the exception that an invalid document ends in.
SerializeCbom(bom, version) ==
    LET families == {<<c.ref, Family(Seen(c.algorithm))>> :
                        c \in {k \in bom.components : k.kind = "algorithm"}}
        document == [format |-> "CycloneDX", version |-> version, bom |-> bom,
                     families |-> IF version = "1.7" THEN {f \in families : f[2] # "none"} ELSE {}]
    IN  IF ValidateCbom(document) THEN document ELSE NoDocument

===============================================================================
