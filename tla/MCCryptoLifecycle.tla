--------------------------- MODULE MCCryptoLifecycle ---------------------------
(***************************************************************************)
(* CryptoLifecycle for TLC.                                                *)
(***************************************************************************)
EXTENDS CryptoLifecycle

(***************************************************************************)
(* The inventory.                                                          *)
(***************************************************************************)
Name(parts, numbers) == [parts |-> parts, numbers |-> numbers]

\* design.py: a path that spells "des".
MCNamed ==
    [n \in {"RSA", "RSA-1024", "MD5", "ML-DSA-65", "AES-128", "X25519MLKEM768", "X25519", "ML-KEM-768", "design.py",
            "X25519MLKEM-draft", "TLS_RSA_AES", "sntrup761x25519-sha512"} |->
        CASE n = "RSA"            -> Name({"rsa"}, <<>>)
          [] n = "RSA-1024"       -> Name({"rsa"}, <<1024>>)
          [] n = "MD5"            -> Name({"md5"}, <<5>>)
          [] n = "ML-DSA-65"      -> Name({"mldsa", "dsa"}, <<65>>)
          [] n = "AES-128"        -> Name({"aes"}, <<128>>)
          [] n = "X25519MLKEM768" -> Name({"x25519mlkem768", "x25519", "mlkem"}, <<768>>)
          [] n = "X25519"         -> Name({"x25519"}, <<>>)
          [] n = "ML-KEM-768"     -> Name({"mlkem"}, <<768>>)
          [] n = "sntrup761x25519-sha512" -> Name({"sntrup761", "x25519", "sha512"}, <<512>>)
          [] n = "X25519MLKEM-draft" -> Name({"x25519mlkem", "x25519", "mlkem"}, <<>>)
          [] n = "TLS_RSA_AES"    -> Name({"tls_rsa", "rsa", "aes", "-sha"}, <<>>)
          [] n = "design.py"      -> Name({"des"}, <<>>)]

MCPlaces == {<<"app.py", 1>>, <<"design.py", 3>>}

MCPrecedes(p, q) == (p[1] = "app.py" /\ q[1] = "design.py") \/ (p[1] = q[1] /\ p[2] < q[2])

Usage(type, algorithm, size) == [type |-> type, algorithm |-> algorithm, size |-> size]

MCUnused == [type |-> "none"]

MCUsages == {Usage("algorithm", "RSA", 1024), Usage("hardcoded_key", "RSA", 1024),
             Usage("algorithm", "MD5", 0), Usage("hardcoded_secret", "AES-128", 0)}

MCDown == [host |-> "none"]

MCPostures ==
    {[host |-> "api", versions |-> {"tls1.2"}, chain |-> <<[algorithm |-> "RSA", size |-> 2048]>>,
      keys |-> {[algorithm |-> "RSA", size |-> 1024]}],
     [host |-> "api", versions |-> {"tls1.3"}, chain |-> <<[algorithm |-> "ML-DSA-65", size |-> 0],
                                                          [algorithm |-> "RSA", size |-> 4096]>>,
      keys |-> {[algorithm |-> "X25519MLKEM768", size |-> 0]}]}

MCBinaries ==
    {[kind |-> "package", package |-> "openssl", library |-> "OpenSSL", path |-> "lib.so"],
     [kind |-> "binary", file |-> "app.elf", libraries |-> {"OpenSSL"},
      certificates |-> <<[algorithm |-> "RSA", size |-> 1024]>>]}

MCEvents == {[app |-> "pay", pid |-> "p1", library |-> "libcrypto", algorithm |-> "MD5", name |-> "MD5"],
             [app |-> "pay", pid |-> "p1", library |-> "libcrypto", algorithm |-> "RSA", name |-> "RSA-1024"]}

\* Some entries of the PQC catalog.
MCPqcCatalog ==
    [x25519_mlkem768 |-> [name |-> "X25519MLKEM768", category |-> "hybrid", parts |-> {"X25519", "ML-KEM-768"},
                          combiners |-> {"HKDF"}, harvest |-> TRUE, signs |-> FALSE],
     ml_kem_768 |-> [name |-> "ML-KEM-768", category |-> "post_quantum", parts |-> {}, combiners |-> {},
                     harvest |-> TRUE, signs |-> FALSE],
     ml_dsa_65 |-> [name |-> "ML-DSA-65", category |-> "post_quantum", parts |-> {}, combiners |-> {},
                    harvest |-> FALSE, signs |-> TRUE],
     \* The classifier knows x25519 in this name and takes it for a classical exchange.
     sntrup761_x25519 |-> [name |-> "sntrup761x25519-sha512", category |-> "hybrid", parts |-> {"X25519", "sntrup761"},
                           combiners |-> {"SHA-512"}, harvest |-> TRUE, signs |-> FALSE],
     x25519 |-> [name |-> "X25519", category |-> "classical", parts |-> {}, combiners |-> {},
                 harvest |-> FALSE, signs |-> FALSE]]
MCAlias == [x25519mlkem768 |-> "x25519_mlkem768", mlkem768 |-> "ml_kem_768", mldsa65 |-> "ml_dsa_65",
            x25519 |-> "x25519", sntrup761x25519 |-> "sntrup761_x25519"]

Handshake(group, cipher, signature) == [host |-> "api", group |-> group, cipher |-> cipher, signature |-> signature]

MCHandshakes ==
    {Handshake("x25519mlkem768", "gcm", "mldsa65"), Handshake("x25519", "gcm", "none"),
     Handshake("none", "mlkem768", "none"), Handshake("sntrup761x25519", "gcm", "none"), Handshake("X25519MLKEM-draft", "gcm", "rsa"),
     Handshake("none", "TLS_RSA_AES", "rsa")}

Foreign == Bom({Carrier(<<"ext", 1>>, "algorithm", "RSA", 1024, {})}, {})

Dangling == Bom({}, {<<<<"ext", 1>>, <<"ext", 2>>>>})

Text(opens, key, doctype, bom) ==
    [bytes |-> 1, opens |-> opens, hasPrivateKey |-> key, pollutes |-> FALSE, parses |-> TRUE,
     hasDoctype |-> doctype, hasComponents |-> FALSE,
     document |-> [format |-> "CycloneDX", version |-> "1.6", bom |-> bom]]

MCTexts == {Text("{", FALSE, FALSE, Foreign), Text("{", TRUE, FALSE, Foreign), Text("{", FALSE, FALSE, Dangling),
            Text("<", FALSE, TRUE, Foreign), Text("<", FALSE, FALSE, Dangling)}

Control(id, level, prohibited, allowed, minRsa) ==
    [id |-> id, standard |-> "std", level |-> level, prohibited |-> prohibited, allowed |-> allowed,
     prohibitedProtocols |-> {"ssl3"}, allowedProtocols |-> {}, minRsa |-> minRsa, minEcc |-> 256,
     minSymmetric |-> 128, allowSelfSigned |-> TRUE, requirePqc |-> FALSE]

MCCatalog ==
    {Control("Table 3", "SUPPORTED CONTROL", {}, {}, 2048),
     Control("Table 8", "SUPPORTED CONTROL", {"md5", "sha1"}, {}, 0),
     Control("IA-5", "PARTIAL SUPPORT", {"md5", "sha1"}, {}, 0),
     Control("SC-13", "SUPPORTED CONTROL", {"md5"}, {"aes", "mldsa", "mlkem"}, 0),
     Control("PE-3", "NOT SUPPORTED", {}, {}, 0)}

(***************************************************************************)
(* Dependencies: one tree as CycloneDX and as SPDX, with an alias, a       *)
(* scoped name, versions on both sides of a fix and one that is unknown;   *)
(* findings that name a package, an API of another one, or only import.    *)
(***************************************************************************)
MCKnowledgeBase ==
    LET Crypto == [canonical |-> "cryptography", aliases |-> {"pyca/cryptography"}, apis |-> {"Cipher", "x509"}]
        Jwt == [canonical |-> "jsonwebtoken", aliases |-> {"jwt-node"}, apis |-> {"jwt.sign"}]
    IN  [k \in {"cryptography", "pyca/cryptography", "jsonwebtoken", "jwt-node"} |->
            IF k \in {"cryptography", "pyca/cryptography"} THEN Crypto ELSE Jwt]

MCReading ==
    [i \in {"@auth/jwt-node", "pkg:pypi/cryptography@41.0.6"} |->
        IF i = "@auth/jwt-node" THEN [normal |-> "jwt-node", purlName |-> "@auth/jwt-node", purlBase |-> "jwt-node"]
        ELSE [normal |-> i, purlName |-> "cryptography", purlBase |-> "cryptography"]]

MCVulnerabilityDb ==
    {[id |-> "V1", package |-> "cryptography", high |-> {"C", "I", "A"}, ranges |-> <<[fixed |-> <<41, 0, 6>>]>>],
     [id |-> "V2", package |-> "cryptography", high |-> {}, ranges |-> <<[fixed |-> <<9, 10>>]>>],
     [id |-> "V3", package |-> "jsonwebtoken", high |-> {"C"}, ranges |-> <<>>],
     [id |-> "V4", package |-> "vitest", high |-> {"C", "I"}, ranges |-> <<[fixed |-> <<3, 3>>]>>]}

MCCustomAdvisories ==
    {[id |-> "C1", package |-> "jwt-node", score |-> 50, version |-> <<9>>, range |-> "<=",
      impact |-> "KEY_COMPROMISE", apis |-> {"jwt.sign"}],
     [id |-> "C2", package |-> "cryptography", score |-> 75, version |-> <<41, 0, 6>>, range |-> "=",
      impact |-> "UNKNOWN", apis |-> {}]}

Item(ref, name, version, purl) == [ref |-> ref, name |-> name, version |-> version, purl |-> purl]

AbsentList == [kind |-> "absent", items |-> <<>>]

ListOf(items) == [kind |-> "list", items |-> items]

Document ==
    [object |-> TRUE, bytes |-> 1, unsafe |-> FALSE, bomFormat |-> "none", specVersion |-> "1.6",
     components |-> AbsentList, dependencies |-> {}, spdxVersion |-> "none", spdxId |-> FALSE,
     packages |-> AbsentList, relationships |-> {}]

AsCycloneDx(items, dependencies) ==
    [Document EXCEPT !.bomFormat = "CycloneDX", !.components = ListOf(items), !.dependencies = dependencies]

AsSpdx(items, relationships) ==
    [Document EXCEPT !.spdxVersion = "SPDX-2.3", !.spdxId = TRUE, !.packages = ListOf(items),
                     !.relationships = relationships]

MCTreeItems ==
    <<Item(<<"r1">>, "cryptography", <<9, 2, 0>>, "none"), Item(<<"r2">>, "@auth/jwt-node", <<9>>, "none"),
      Item(<<"r3">>, "vitest", <<>>, "none"), Item(<<"r4">>, "fork", <<41, 0, 6>>, "pkg:pypi/cryptography@41.0.6")>>

MCTwin ==
    {AsCycloneDx(MCTreeItems, {<<<<"r1">>, <<"r3">>>>, <<<<"r4">>, <<"r1">>>>}),
     AsSpdx(MCTreeItems, {[type |-> "DEPENDS_ON", from |-> <<"r1">>, to |-> <<"r3">>],
                          [type |-> "DEPENDENCY_OF", from |-> <<"r1">>, to |-> <<"r4">>],
                          [type |-> "CONTAINS", from |-> <<"doc">>, to |-> <<"r4">>]})}

MCPayloads ==
    MCTwin \cup
    {AsCycloneDx(<<Item(<<>>, "cryptography", <<41, 0>>, "none"), Item(<<>>, "none", <<1>>, "none")>>, {}),
     [AsCycloneDx(<<>>, {}) EXCEPT !.components.kind = "other"],
     [AsCycloneDx(MCTreeItems, {}) EXCEPT !.specVersion = "2.0"],
     [AsCycloneDx(MCTreeItems, {}) EXCEPT !.bytes = 3],
     [AsCycloneDx(MCTreeItems, {}) EXCEPT !.unsafe = TRUE],
     AsCycloneDx(MCTreeItems \o MCTreeItems, {}),
     [AsSpdx(<<>>, {}) EXCEPT !.packages.kind = "other"],
     [AsSpdx(MCTreeItems, {}) EXCEPT !.spdxVersion = "SPDX-1.2"],
     Document}

Api(holds, heldBy) == [holds |-> holds, heldBy |-> heldBy]

Snippet(form, imports, holds) == [form |-> form, imports |-> imports, holds |-> holds]

Finding(type, target, api, snippet) == [type |-> type, target |-> target, api |-> api, snippet |-> snippet]

MCStaticFindings ==
    {Finding("import", "cryptography", Api({}, {}), Snippet("import", "cryptography", {})),
     Finding("", "cryptography", Api({}, {}), Snippet("from", "none", {"x509"})),
     Finding("", "none", Api({"Cipher"}, {}), Snippet("code", "none", {"Cipher"})),
     Finding("api_call", "vitest", Api({}, {"jwt.sign"}), Snippet("code", "none", {})),
     Finding("", "jsonwebtoken", Api({}, {}), Snippet("require", "jsonwebtoken", {}))}

MCRuntimeFindings == {[target |-> "none", describes |-> {"cryptography"}],
                      [target |-> "jsonwebtoken", describes |-> {}]}

(***************************************************************************)
(* Remediation.                                                            *)
(***************************************************************************)
Line(form, name) == [form |-> form, name |-> name]

Hashlib(calls) == [form |-> "hashlib", calls |-> calls]

Size(form, size) == [form |-> form, size |-> size]

Protocols(versions) == [form |-> "ssl_protocols", versions |-> versions]

MCFiles == {"app.py", "test_web.js", "edge.conf"}

MCLanguage == ("app.py" :> "python") @@ ("test_web.js" :> "javascript") @@ ("edge.conf" :> "config")

MCWords == STRING

Comment == [form |-> "comment"]

Broken1 == [form |-> "broken"]

MCContents ==
    ("app.py" :> {<<Comment, Line("import", "md5"), Line("bare", "md5"), Hashlib(<<"md5", "sha1">>)>>,
                  <<Comment, Hashlib(<<"md5", "sha224">>), Size("keygen", 1024), Line("cipher", "TripleDES")>>,
                  [i \in 1 .. 11 |-> Hashlib(<<"sha256", "md5">>)],
                  <<Broken1, Hashlib(<<"md5">>)>>}) @@
    ("test_web.js" :> {<<Line("createHash", "md5"), Line("createCipheriv", "rc4"), Size("modulus", 5120)>>,
                       <<Line("unqualified", "md5"), Size("modulus", 1024), Broken1>>}) @@
    ("edge.conf" :> {<<Protocols({"TLSv1", "TLSv1.2"})>>, <<Protocols({"TLSv1.3"})>>})

MCCategories == {{"TLS", "CERT"}, {"CONFIG"}}

Actor(username, role) == [username |-> username, role |-> role]

MCActors == {Actor("alice", "developer"), Actor("ALICE", "ciso"), Actor("bob", "secops")}

MCFolded == [u \in {"alice", "ALICE", "bob", "none"} |-> IF u = "ALICE" THEN "alice" ELSE u]

MCRole == [a \in {"rsa"} |-> "key_exchange"]

Context(reachable, public, consumers, severity, confidence) ==
    [reachable |-> reachable, public |-> public, consumers |-> consumers,
     severity |-> severity, confidence |-> confidence]

\* The first is the one run_migration_planner.py gives every asset.
MCContexts ==
    {Context(TRUE, TRUE, Uncounted, "high", "high"), Context(FALSE, FALSE, 0, "critical", "low"),
     Context(TRUE, FALSE, 3, "critical", "medium"), Context(TRUE, FALSE, 0, "critical", "high")}

MCWeights ==
    {[d \in Dimensions |-> 10],
     [d \in Dimensions |-> IF d = "protocol_agility" THEN 25 ELSE 10],
     [d \in Dimensions |-> 0]}

===============================================================================
