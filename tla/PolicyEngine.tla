----------------------------- MODULE PolicyEngine -----------------------------
(***************************************************************************)
(* The policy-as-code engine (backend/scanners/policy_engine.py): what a   *)
(* policy says of a list of crypto assets at a moment.  Every operator is  *)
(* a function of its arguments, as the engine keeps no state.              *)
(*                                                                         *)
(* Data kept: the algorithm of an asset, its key size, where it runs, its  *)
(* post-quantum category, and whether its protocol or its certificate is   *)
(* of the kind a rule can forbid.  A date is a natural number; NoDate is a *)
(* date that is absent or cannot be parsed.  Names match by containment,   *)
(* as the engine looks a pattern up with "in".                             *)
(***************************************************************************)
EXTENDS Integers, FiniteSets

CONSTANTS
  Substrings,   \* <<name, pattern>>: pattern occurs in name
  Resistant     \* the patterns taken as quantum safe wherever they occur

NoDate == 0
NoName == "absent"
NoBits == 0

\* PREFERENCE_ORDER, the larger the stricter.
Rank == [ALLOW |-> 1, EXCEPTION |-> 2, WARN |-> 3, BLOCK |-> 4]

Occurs(pattern, name) == pattern = name \/ <<name, pattern>> \in Substrings

-----------------------------------------------------------------------------
(* Policies *)

\* An exception's number is its place in the order of the ids, by which
\* evaluate sorts.  A field a policy may leave out is there with no effect:
\* an empty set, NoDate, NoBits, FALSE.

\* _matches_pattern_or_set: no patterns match anything, patterns match no
\* absent value.
MatchesPatternOrSet(value, patterns) ==
  \/ patterns = {}
  \/ /\ value # NoName
     /\ \E p \in patterns : p = "*" \/ Occurs(p, value)

\* validate_policy: the schema, or the required fields when there is none.
ValidPolicy(policy) ==
  /\ {"id", "rules", "exceptions"} \subseteq DOMAIN policy
  /\ \A r, s \in policy.rules : r.id = s.id => r = s

\* normalize_asset: the asset's own environment, or that of the context, or
\* production; quantum safe by category or by what its name contains.
NormalizeAsset(raw, context) ==
  [id          |-> raw.id,
   algorithm   |-> raw.algorithm,
   bits        |-> raw.bits,
   faults      |-> raw.faults,
   environment |-> IF raw.environment # NoName THEN raw.environment
                   ELSE IF context # NoName THEN context ELSE "production",
   isHybrid    |-> raw.pqcType = "hybrid",
   isSafe      |-> raw.pqcType \in {"pqc", "hybrid"}
                   \/ \E p \in Resistant : Occurs(p, raw.algorithm)]

MatchesScope(scoped, asset) ==
  scoped.environments = {} \/ MatchesPatternOrSet(asset.environment, scoped.environments)

-----------------------------------------------------------------------------
(* A rule on an asset *)

If(condition, violation) == IF condition THEN {violation} ELSE {}

AlgorithmViolations(rule, asset) ==
  If(\E p \in rule.prohibited : Occurs(p, asset.algorithm), "prohibited")
  \cup If(rule.allowed # {} /\ \A p \in rule.allowed : ~Occurs(p, asset.algorithm), "not allowed")
  \cup If(rule.requireResistant /\ ~asset.isSafe, "classical")

\* A minimum is compared only when the size is known.
KeySizeViolations(rule, asset) ==
  If(asset.bits # NoBits /\ asset.bits < rule.minBits, "short key")

\* Protocol and certificate sections.
ForbiddenUses(rule, asset) == rule.forbids \cap asset.faults

PqcViolations(rule, asset) ==
  If(rule.requireHybrid /\ ~asset.isHybrid, "not hybrid")

Violations(rule, asset) ==
  AlgorithmViolations(rule, asset) \cup KeySizeViolations(rule, asset)
  \cup ForbiddenUses(rule, asset) \cup PqcViolations(rule, asset)

\* Before its deprecation date a rule only warns; from its enforcement date
\* on it blocks; otherwise it does what it says.
RawAction(rule, now) ==
  IF rule.deprecation # NoDate /\ now < rule.deprecation THEN "WARN"
  ELSE IF rule.enforcement # NoDate /\ now >= rule.enforcement THEN "BLOCK"
  ELSE rule.action

RuleHits(rule, asset) == MatchesScope(rule, asset) /\ Violations(rule, asset) # {}

-----------------------------------------------------------------------------
(* Exceptions *)

Applies(exc, rule, asset) ==
  /\ exc.rule \in {"*", rule.id}
  /\ exc.asset = "*" \/ Occurs(exc.asset, asset.id)
  /\ MatchesScope(exc, asset)

\* Mutant: the end of validity is compared the wrong way round.
InForce_AfterEnd(exc, now) ==
  /\ exc.status = "APPROVED"
  /\ exc.from # NoDate => now >= exc.from
  /\ exc.until # NoDate => now >= exc.until

InForce(exc, now) ==
  /\ exc.status = "APPROVED"
  /\ exc.from # NoDate => now >= exc.from
  /\ exc.until # NoDate => now <= exc.until

\* Found expired, by its status or by its date (one that has not started is
\* noted too, but not as expired).
Lapsed(exc, now) ==
  \/ exc.status = "EXPIRED"
  \/ /\ exc.from # NoDate => now >= exc.from
     /\ exc.until # NoDate /\ now > exc.until

\* _find_matching_exception: the search stops at the first exception that
\* applies and is approved or marked expired, whatever its dates say: a
\* lapsed exception hides a later one that is in force.
Deciding(rule, asset, exceptions) ==
  LET found == {e \in exceptions : Applies(e, rule, asset) /\ e.status \in {"APPROVED", "EXPIRED"}}
  IN  {e \in found : \A f \in found : e.number <= f.number}

\* Mutant: an approved exception is taken without a look at its dates.
FindMatchingException_Undated(rule, asset, exceptions, now) ==
  {e \in Deciding(rule, asset, exceptions) : e.status = "APPROVED"}

FindMatchingException(rule, asset, exceptions, now) ==
  {e \in Deciding(rule, asset, exceptions) : InForce(e, now)}

-----------------------------------------------------------------------------
(* evaluate *)

\* The worst of a set of actions, BLOCK over WARN over EXCEPTION over ALLOW.
Worst(actions) ==
  CHOOSE v \in {"BLOCK", "WARN", "EXCEPTION", "ALLOW"} :
    /\ v \in actions \/ v = "ALLOW"
    /\ \A a \in actions : Rank[a] <= Rank[v]

FinalAction(rule, asset, policy, now) ==
  IF FindMatchingException(rule, asset, policy.exceptions, now) # {}
  THEN "EXCEPTION"
  ELSE RawAction(rule, now)

AssetVerdict(asset, policy, now) ==
  Worst({FinalAction(r, asset, policy, now) : r \in {s \in policy.rules : RuleHits(s, asset)}})

\* The report of an evaluation: the verdict of each asset, the exceptions
\* used, those found lapsed, the policy's verdict and whether it passes.
Evaluate(policy, raws, context, now, failOnWarn) ==
  LET assets   == {NormalizeAsset(r, context) : r \in raws}
      hits     == {h \in policy.rules \X assets : RuleHits(h[1], h[2])}
      verdicts == [a \in assets |-> AssetVerdict(a, policy, now)]
      verdict  == Worst({verdicts[a] : a \in assets})
  IN  [verdict  |-> verdict,
       verdicts |-> verdicts,
       applied  |-> UNION {FindMatchingException(h[1], h[2], policy.exceptions, now) : h \in hits},
       expired  |-> {h \in hits : \E e \in Deciding(h[1], h[2], policy.exceptions) : Lapsed(e, now)},
       passed   |-> verdict # "BLOCK" /\ ~(failOnWarn /\ verdict = "WARN")]

=============================================================================
