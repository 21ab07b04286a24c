----------------------------- MODULE CryptoAgility -----------------------------
(***************************************************************************)
(* The crypto-agility score of an architecture.  `meta' is the set of      *)
(* signals the architecture declares; some signals are also inferred from  *)
(* the findings of a scan, records with fields                             *)
(*                                                                         *)
(*   algorithm   the algorithm, "legacy protocol" for an obsolete TLS      *)
(*   literal     found as a literal in the code                            *)
(*   secret      a key or secret in the code                               *)
(*   expired     a certificate past its date                               *)
(*   blast       the number of packages that depend on it                  *)
(*                                                                         *)
(* Raw scores are percents, weighted ones hundredths of a percent and the  *)
(* overall score tenths.  Python rounds a tie to the even neighbour; a     *)
(* tie that a binary float misses by a hair, which the code may round the  *)
(* other way, is taken for exact.                                          *)
(***************************************************************************)
EXTENDS Integers, FiniteSets, FiniteSetsExt

Dimensions ==
    {"centralized_algorithm_configuration", "replaceability", "key_lifecycle_management",
     "protocol_agility", "certificate_automation", "provider_abstraction", "dependency_coupling",
     "test_coverage", "pqc_hybrid_readiness", "rollback_capability"}

Clamp(n, top) == Max({0, Min({top, n})})

\* A dimension starts at 50; each signal that holds adds its points once.
Score(points, held) ==
    Clamp(50 + MapThenSumSet(LAMBDA s : points[s], DOMAIN points \cap held), 100)

\* The signal, when the condition holds.
If(condition, signal) == {s \in {signal} : condition}

CentralizedConfig(meta, findings) ==
    LET hardcoded == Cardinality({f \in findings : f.literal}) IN
    Score([external_crypto_policy_file |-> 40, centralized_crypto_registry |-> 35,
           environment_variable_ciphers |-> 25, hardcoded_algorithm_strings_inline |-> -40,
           scattered_cipher_definitions |-> -30],
          meta \cup If(hardcoded >= 3, "hardcoded_algorithm_strings_inline")
               \cup If(hardcoded >= 6, "scattered_cipher_definitions"))

Replaceability(meta, findings) ==
    Score([interface_based_crypto_design |-> 40, pluggable_algorithm_factory |-> 35,
           concrete_class_coupling |-> -40, fixed_size_signature_buffer |-> -35], meta)

KeyLifecycle(meta, findings) ==
    Score([kms_hsm_integration |-> 40, automated_key_rotation |-> 35, ephemeral_session_keys |-> 25,
           hardcoded_static_keys |-> -50],
          meta \cup If(\E f \in findings : f.secret, "hardcoded_static_keys"))

ProtocolAgility(meta, findings) ==
    Score([tls_1_3_dynamic_groups |-> 40, multi_protocol_negotiation |-> 35,
           pinned_legacy_protocol |-> -50],
          meta \cup If(\E f \in findings : f.algorithm = "legacy protocol", "pinned_legacy_protocol"))

CertificateAutomation(meta, findings) ==
    Score([acme_automated_renewal |-> 45, short_lived_certificates |-> 30,
           expired_or_imminent_expiration |-> -45, manual_certificate_provisioning |-> -40],
          meta \cup If(\E f \in findings : f.expired, "expired_or_imminent_expiration"))

ProviderAbstraction(meta, findings) ==
    Score([standard_provider_framework |-> 45, pkcs11_cng_hsm_abstraction |-> 35,
           vendor_lock_in_api |-> -45], meta)

DependencyCoupling(meta, findings) ==
    Score([isolated_crypto_service_module |-> 45, low_blast_radius |-> 35,
           high_blast_radius_sprawl |-> -45],
          meta \cup If(\E f \in findings : f.blast >= 5, "high_blast_radius_sprawl"))

TestCoverage(meta, findings) ==
    Score([known_answer_tests_kat |-> 40, downgrade_resilience_tests |-> 35,
           zero_crypto_test_coverage |-> -50], meta)

PqcHybridReadiness(meta, findings) ==
    Score([pqc_capable_library_dependency |-> 40, hybrid_key_exchange_support |-> 35,
           pqc_buffer_tolerance |-> 25, pqc_intolerant_buffer_limits |-> -45],
          meta \cup If(\E f \in findings : f.algorithm = "ML-KEM", "hybrid_key_exchange_support"))

RollbackCapability(meta, findings) ==
    Score([runtime_feature_flag_rollback |-> 40, dual_stack_fallback |-> 35,
           automated_telemetry_tripwires |-> 25, irreversible_crypto_migration |-> -50], meta)

RawScore(dimension, meta, findings) ==
    CASE dimension = "centralized_algorithm_configuration" -> CentralizedConfig(meta, findings)
      [] dimension = "replaceability"           -> Replaceability(meta, findings)
      [] dimension = "key_lifecycle_management" -> KeyLifecycle(meta, findings)
      [] dimension = "protocol_agility"         -> ProtocolAgility(meta, findings)
      [] dimension = "certificate_automation"   -> CertificateAutomation(meta, findings)
      [] dimension = "provider_abstraction"     -> ProviderAbstraction(meta, findings)
      [] dimension = "dependency_coupling"      -> DependencyCoupling(meta, findings)
      [] dimension = "test_coverage"            -> TestCoverage(meta, findings)
      [] dimension = "pqc_hybrid_readiness"     -> PqcHybridReadiness(meta, findings)
      [] dimension = "rollback_capability"      -> RollbackCapability(meta, findings)

\* `score' in tenths of a percent.
MaturityTier(score) ==
    CASE score >= 900 -> "OPTIMAL"
      [] score \in 750 .. 899 -> "HIGH"
      [] score \in 500 .. 749 -> "MODERATE"
      [] score \in 250 .. 499 -> "LOW"
      [] OTHER -> "RIGID"

Rounded(n, d) ==
    LET half == 2 * (n % d) IN
    IF half > d \/ (half = d /\ (n \div d) % 2 = 1) THEN n \div d + 1 ELSE n \div d

\* The weights are scaled to add up to 100 percent, each rounded.
Share(weights, dimension) ==
    LET total == MapThenSumSet(LAMBDA d : weights[d], Dimensions) IN
    IF total > 0 THEN Rounded(weights[dimension] * 10000, total) ELSE weights[dimension] * 100

QuickWins(raw) ==
    {d \in {"centralized_algorithm_configuration", "certificate_automation", "rollback_capability"} :
        raw[d] < 60}

CalculateCryptoAgility(meta, findings, weights) ==
    LET raw == [d \in Dimensions |-> RawScore(d, meta, findings)]
        overall == MapThenSumSet(LAMBDA d : Rounded(raw[d] * Share(weights, d), 100), Dimensions)
        score == Clamp(Rounded(overall, 10), 1000)
    IN  [score |-> score, tier |-> MaturityTier(score), dimensions |-> raw,
         blockers |-> {d \in Dimensions : raw[d] < 50},
         urgent |-> {d \in Dimensions : raw[d] < 30},
         strengths |-> {d \in Dimensions : raw[d] >= 75},
         quickWins |-> QuickWins(raw)]

-------------------------------------------------------------------------------
(***************************************************************************)
(* The migration roadmap.  An asset is                                      *)
(*                                                                         *)
(*   algorithm, places    the algorithm and the <<file, line>> pairs of    *)
(*                        its occurrences                                  *)
(*   production           those of them outside tests                      *)
(*   reachable            in the default build                             *)
(*   public, consumers    its API is public; its consumers, Uncounted if   *)
(*                        the scan could not tell                          *)
(*   severity, confidence, oneCallSite, sensitive                           *)
(***************************************************************************)
CONSTANTS
    Role,               \* the catalog: the mechanism type of an algorithm
    HybridCapable       \* the algorithms the catalog pairs with a hybrid

Uncounted == -1

\* Four decimals: points times the percent of confidence.
PriorityScore(asset) ==
    LET production == Cardinality(asset.production)
        other == Cardinality(asset.places) - production
        severity == CASE asset.severity = "critical" -> 4000 [] asset.severity = "high" -> 2500
                      [] asset.severity = "medium" -> 1200 [] asset.severity = "low" -> 400
                      [] OTHER -> 0
        confidence == CASE asset.confidence = "medium" -> 85 [] asset.confidence = "low" -> 60
                        [] OTHER -> 100
    IN  (severity + (IF asset.reachable THEN 2000 ELSE 0)
           + Min({2000, production * 50}) + Min({400, other * 5})
           + (IF asset.public THEN 1000 ELSE 0)) * confidence

Priority(asset) ==
    LET score == PriorityScore(asset) IN
    CASE ~asset.reachable /\ asset.production = {} -> "informational"
      [] (asset.reachable \/ asset.production # {}) /\ score >= 600000 -> "critical"
      [] (asset.reachable \/ asset.production # {}) /\ score \in 400000 .. 599999 -> "high"
      [] (asset.reachable \/ asset.production # {}) /\ score \in 200000 .. 399999 -> "medium"
      [] (asset.reachable \/ asset.production # {}) /\ score \in 50000 .. 199999 -> "low"
      [] OTHER -> "informational"

FileCount(asset) == Cardinality({p[1] : p \in asset.places})

MigrationComplexity(asset) ==
    IF (FileCount(asset) = 1 \/ asset.oneCallSite) /\ ~asset.public THEN "low"
    ELSE IF asset.public /\ asset.consumers = Uncounted THEN "unknown"
    ELSE IF FileCount(asset) > 10 THEN "high"
    ELSE "medium"

HybridRecommended(asset) ==
    /\ asset.algorithm \in DOMAIN Role
    /\ Role[asset.algorithm] \in {"key_exchange", "digital_signature"}
    /\ asset.public \/ asset.consumers > 0
    /\ asset.algorithm \in HybridCapable

ContextBucket(asset) ==
    CASE asset.production # {} /\ asset.reachable  -> "production_default_reachable"
      [] asset.production # {} /\ ~asset.reachable -> "production_guarded_out"
      [] asset.production = {} /\ asset.places # {} -> "test_or_example"
      [] OTHER -> "unclassified"

Entry(asset) ==
    [algorithm |-> asset.algorithm, bucket |-> ContextBucket(asset), priority |-> Priority(asset),
     score |-> PriorityScore(asset), complexity |-> MigrationComplexity(asset),
     hybrid |-> HybridRecommended(asset)]

Phases(entries, assets) ==
    LET Planned(ps, cs) == {e.algorithm : e \in {x \in entries : x.priority \in ps /\ x.complexity \in cs}} IN
    <<Planned({"critical", "high"}, {"low", "medium"}),
      Planned({"high"}, {"unknown", "high"}),
      {a.algorithm : a \in {x \in assets : x.sensitive}},
      {e.algorithm : e \in {x \in entries : x.hybrid}},
      Planned({"critical", "high", "medium", "low", "informational"}, {"unknown"})>>

Scope(assets) ==
    LET reachable == {a \in assets : ContextBucket(a) = "production_default_reachable"} IN
    [included |-> Cardinality(reachable), excluded |-> Cardinality(assets \ reachable)]

GenerateRoadmap(assets) ==
    LET entries == {Entry(a) : a \in assets} IN
    [entries |-> entries, phases |-> Phases(entries, assets), scope |-> Scope(assets)]

===============================================================================
