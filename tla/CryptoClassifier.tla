--------------------------- MODULE CryptoClassifier ---------------------------
(***************************************************************************)
(* How ECDAT classifies an algorithm by name, and when it calls a          *)
(* deployment ready for post-quantum cryptography                          *)
(* (common/crypto_classifier.py).                                          *)
(*                                                                         *)
(* A name is what the classifier sees of it: `parts', the keywords its     *)
(* lower-case form contains, and `numbers', the parameter numbers it       *)
(* spells, from left to right.  The rules are tried in the code's order,   *)
(* the first that answers decides.                                         *)
(***************************************************************************)
EXTENDS Integers, Sequences, SequencesExt

NoAnswer == [class |-> "none"]

Answer(class, threat, bits, approved) ==
    [class |-> class, threat |-> threat, bits |-> bits, approved |-> approved]

Unverified == Answer("unknown", "Unverified", 0, FALSE)

Has(name, keywords) == name.parts \cap keywords # {}

\* The first of the given parameters that the name spells, 0 when there is none.
Number(name, wanted) ==
    LET found == SelectSeq(name.numbers, LAMBDA k : k \in wanted)
    IN  IF found = <<>> THEN 0 ELSE Head(found)

FirstAnswer(answers) ==
    LET given == SelectSeq(answers, LAMBDA a : a # NoAnswer)
    IN  IF given = <<>> THEN Unverified ELSE Head(given)

Shor == {"rsa", "dsa", "dh", "ecdh", "ecdsa", "ecies", "ed25519", "ed448", "x25519", "x448",
         "elgamal", "sm2", "ecc"}

Pqc == {"mlkem", "mldsa", "slhdsa", "kyber", "dilithium", "falcon"}

Level(category) == CASE category \in {1, 2} -> 128 [] category = 3 -> 192 [] OTHER -> 256

(***************************************************************************)
(* The rules, in the order they are tried.                                 *)
(***************************************************************************)
\* Named IETF groups, then composites: a part of each kind makes the pair a hybrid.
NamedHybrid(name) ==
    IF Has(name, {"x25519mlkem768", "p256mlkem768", "p384mlkem1024"})
      THEN Answer("hybrid", "Validated_Hybrid", 192, TRUE)
    ELSE IF /\ Has(name, {"composite"}) \/ (Has(name, {"+"}) /\ Has(name, {"mldsa", "mlkem", "falcon"}))
            /\ Has(name, Shor) /\ Has(name, Pqc)
      THEN Answer("hybrid", "Validated_Hybrid", 192, TRUE)
    ELSE NoAnswer

\* A post-quantum name counts only with a standardised parameter set; the bare
\* family names stand for their default, anything else stays unknown.
MlKem(name, size) ==
    LET k == Number(name, {512, 768, 1024}) IN
    IF k # 0 THEN IF size \in 1 .. 511 THEN Unverified
                  ELSE Answer("quantum-resistant", "Validated_PQC",
                              Level(CASE k = 512 -> 1 [] k = 768 -> 3 [] OTHER -> 5), TRUE)
    ELSE IF Has(name, {"bare"}) THEN Answer("quantum-resistant", "Validated_PQC", 192, TRUE)
    ELSE Unverified

MlDsa(name) ==
    LET k == Number(name, {44, 65, 87, 2, 3, 5}) IN
    IF k # 0 THEN Answer("quantum-resistant", "Validated_PQC",
                         Level(CASE k \in {44, 2} -> 2 [] k \in {65, 3} -> 3 [] OTHER -> 5), TRUE)
    ELSE IF Has(name, {"bare"}) THEN Answer("quantum-resistant", "Validated_PQC", 192, TRUE)
    ELSE Unverified

HashBased(name) ==
    IF Has(name, {"128s", "128f", "192s", "192f", "256s", "256f", "shake", "sha2", "bare"})
      THEN Answer("quantum-resistant", "Validated_PQC", 192, TRUE)
      ELSE Unverified

Falcon(name) ==
    LET k == Number(name, {512, 1024}) IN
    IF k = 0 THEN NoAnswer
    ELSE Answer("quantum-resistant", "Validated_PQC", IF k = 512 THEN 128 ELSE 256, TRUE)

PqcParameters(name, size) ==
    IF Has(name, {"mlkem", "kyber"}) THEN MlKem(name, size)
    ELSE IF Has(name, {"mldsa", "dilithium"}) THEN MlDsa(name)
    ELSE IF Has(name, {"slhdsa", "sphincs"}) THEN HashBased(name)
    ELSE IF Has(name, {"falcon"}) /\ Falcon(name) # NoAnswer THEN Falcon(name)
    ELSE IF Has(name, {"lms", "hss", "xmss"}) THEN Answer("quantum-resistant", "Validated_PQC", 256, TRUE)
    ELSE IF Has(name, {"pqc", "quantumsafe", "postquantum"}) THEN Unverified
    ELSE NoAnswer

\* TLS 1.3 is hybrid when the key exchange it is known to use is.
Protocol(name, exchange) ==
    IF ~Has(name, {"tls12", "tls13", "ssl3"}) THEN NoAnswer
    ELSE IF Has(name, {"tls13"}) /\ exchange # NoAnswer /\ Has(exchange, {"mlkem", "kyber", "hybrid"})
      THEN Answer("hybrid", "Validated_Hybrid", 192, TRUE)
    ELSE Answer("quantum-vulnerable", "Shor", IF Has(name, {"tls12"}) THEN 112 ELSE 128, TRUE)

Asymmetric(name, size) ==
    LET bits == IF size # 0 THEN size ELSE Number(name, {512, 1024, 2048, 3072, 4096}) IN
    IF ~Has(name, Shor) THEN NoAnswer
    ELSE Answer("quantum-vulnerable", "Shor",
                IF bits \in 1 .. 2048 THEN 112 ELSE IF bits \in 1 .. 3072 THEN 128 ELSE 256,
                bits \notin 1 .. 2047)

EffectiveBits(name, size) ==
    LET spelt == Number(name, {128, 192, 256, 64, 56}) IN
    IF size # 0 THEN size
    ELSE IF spelt # 0 THEN spelt
    ELSE IF Has(name, {"chacha20"}) THEN 256
    ELSE IF Has(name, {"3des", "desede3"}) THEN 112
    ELSE IF Has(name, {"des"}) THEN 56 ELSE 0

Symmetric(name, size, mode) ==
    LET bits == EffectiveBits(name, size)
        ecb  == Has(name, {"ecb"}) \/ mode = "ecb"
    IN  IF ~Has(name, {"aes", "chacha20", "camellia", "aria", "des", "3des", "rc4", "blowfish",
                       "cast5", "idea", "seed"}) THEN NoAnswer
        ELSE IF Has(name, {"des", "rc4", "blowfish", "cast5"}) /\ ~Has(name, {"3des", "desede3"})
          THEN Answer("quantum-vulnerable", "Classical_Broken", IF bits = 0 THEN 56 ELSE bits, FALSE)
        ELSE IF bits = 0 THEN Unverified
        ELSE IF bits < 256
          THEN Answer("quantum-vulnerable", "Grover", bits, bits >= 128 /\ ~ecb)
        ELSE Answer("quantum-safe-symmetric", "Grover", bits, ~ecb)

Hash(name) ==
    IF Has(name, {"md5", "md4", "md2", "sha1", "ripemd160"})
      THEN Answer("quantum-vulnerable", "Classical_Broken", 0, FALSE)
    ELSE IF Has(name, {"sha256", "sha2", "sha224"})
      THEN Answer("quantum-resistant", "Grover/BHT", 256, TRUE)
    ELSE IF Has(name, {"sha384", "sha512", "sha3", "shake", "blake2"})
      THEN Answer("quantum-resistant", "Grover/BHT", 384, TRUE)
    ELSE NoAnswer

(***************************************************************************)
(* The classification of a name; `context' is what the caller knows more:  *)
(* the key size (0 when unknown), the mode, the key exchange and the       *)
(* signature algorithm (NoAnswer when unknown).                            *)
(***************************************************************************)
Plain == [size |-> 0, mode |-> "none", exchange |-> NoAnswer, signature |-> NoAnswer]

Basic(name, context) ==
    FirstAnswer(<<NamedHybrid(name), PqcParameters(name, context.size), Protocol(name, context.exchange),
                  Asymmetric(name, context.size), Symmetric(name, context.size, context.mode),
                  Hash(name)>>)

\* A certificate is what its signature algorithm is, a vulnerable one when that is unknown.
Certificate(name, context) ==
    IF ~Has(name, {"x509"}) THEN NoAnswer
    ELSE IF context.signature # NoAnswer THEN Basic(context.signature, Plain)
    ELSE Answer("quantum-vulnerable", "Shor", 112, TRUE)

Classify(name, context) ==
    FirstAnswer(<<NamedHybrid(name), PqcParameters(name, context.size), Protocol(name, context.exchange),
                  Certificate(name, context), Asymmetric(name, context.size),
                  Symmetric(name, context.size, context.mode), Hash(name)>>)

\* A hybrid given by its two components is one only when both are what they claim.
ClassifyHybrid(classical, pqc) ==
    IF /\ Classify(classical, Plain).class = "quantum-vulnerable"
       /\ Classify(pqc, Plain).class = "quantum-resistant"
      THEN Answer("hybrid", "Validated_Hybrid", Classify(pqc, Plain).bits, TRUE)
      ELSE Answer("unknown", "Unverified_Hybrid", 0, FALSE)

(***************************************************************************)
(* Readiness: `evidence' is a set of tiers out of "dependency",            *)
(* "imported", "runtime", "configured".                                    *)
(***************************************************************************)
Readiness(class, evidence) ==
    LET secure == class \in {"quantum-resistant", "hybrid"} IN
    IF class = "quantum-vulnerable" THEN [status |-> "NOT_READY", score |-> 0]
    ELSE IF class = "unknown" THEN [status |-> "NOT_ASSESSED", score |-> -1]
    ELSE IF evidence = {"dependency"} THEN [status |-> "PQC_CAPABLE", score |-> 25]
    ELSE IF ~secure THEN [status |-> "NOT_ASSESSED", score |-> -1]
    ELSE IF "runtime" \in evidence THEN [status |-> "PQC_READY", score |-> 100]
    ELSE IF "configured" \in evidence THEN [status |-> "PQC_READY", score |-> 90]
    ELSE IF "imported" \in evidence THEN [status |-> "PQC_READY", score |-> 75]
    ELSE [status |-> "PQC_CAPABLE", score |-> 50]

===============================================================================
