------------------------------ MODULE ReleaseGate ------------------------------
(***************************************************************************)
(* What a release is judged by: the severities of the vulnerability report *)
(* under registered overrides and risk acceptances                         *)
(* (scanners/vulnerability_release_gate.py), the registry of security      *)
(* regressions (scanners/regression_policy.py), and the files the release  *)
(* gate looks at itself (scripts/release_gate.py).                         *)
(***************************************************************************)
EXTENDS VulnerabilityScan

CONSTANT MinComponents   \* fewest components of a CycloneDX SBOM, 10 in the code

NoRecord == [finding |-> "no record"]

\* SEVERITY_NAME_MAP; a finding's severity that it lacks is LOW.
SeverityNames == {"CRITICAL", "HIGH", "MEDIUM", "MODERATE", "LOW", "INFORMATIONAL", "INFO"}

Canonical(severity) ==
  CASE severity \in {"CRITICAL", "HIGH", "LOW"} -> severity
    [] severity \in {"MEDIUM", "MODERATE"}      -> "MEDIUM"
    [] OTHER                                    -> "LOW"

\* A document is parsed or refused; a refused one ends the gate's constructor.
LoadsRules(rules) == rules.policyParses /\ rules.acceptancesParse /\ rules.overridesParse

\* Advisories and packages are keys of one dictionary, so the last entry under
\* either name is the one found.
Entry(entries, key) ==
  LET named == {i \in DOMAIN entries : key \in {entries[i].finding, entries[i].package}}
  IN  IF named = {} THEN NoRecord ELSE entries[CHOOSE i \in named : \A j \in named : j <= i]

\* The entry for the advisory, or else for the package.
EntryFor(entries, finding) ==
  LET own == Entry(entries, finding.advisory)
  IN  IF own # NoRecord THEN own ELSE Entry(entries, Last(finding.package))

\* FormalRiskAcceptance.check_active; 0 is a date that is missing or malformed.
CheckActive(acceptance, now) == acceptance.until > now

\* Mutant: an override is checked for its evidence and never for its date.
Validate_Undated(override, now, evidence) ==
  /\ override.justified
  /\ override.signed
  /\ override.document \in DOMAIN evidence
  /\ evidence[override.document] = override.digest

\* SeverityOverrideEvidence.validate: a justification of thirty characters, a
\* sign-off, a date to come, and a document with the digest registered.
Validate(override, now, evidence) ==
  /\ override.justified
  /\ override.signed
  /\ override.until > now
  /\ override.document \in DOMAIN evidence
  /\ evidence[override.document] = override.digest

Overrides(rules, now, finding) ==
  LET found == EntryFor(rules.overrides, finding)
  IN  [exists |-> found # NoRecord,
       valid  |-> found # NoRecord /\ Validate(found, now, rules.evidence),
       entry  |-> found]

\* A finding that claims a base severity other than its own needs an override.
Tampered(finding, override) ==
  \/ finding.base # NoLabel /\ Canonical(finding.base) # Canonical(finding.severity) /\ ~override.valid
  \/ override.exists /\ ~override.valid

\* An override may say a severity that has no name: the finding's own stands.
Overriding(severity, finding) ==
  Canonical(IF severity \in SeverityNames THEN severity ELSE finding.severity)

\* A valid override gives the severity it says, an invalid one the severity it
\* started from, and without one an unsupported claim is undone.
Effective(finding, override) ==
  IF override.valid THEN Overriding(override.entry.lowered, finding)
  ELSE IF override.exists THEN Overriding(override.entry.base, finding)
  ELSE IF Tampered(finding, override) THEN Canonical(finding.base)
  ELSE Canonical(finding.severity)

Accepted(rules, now, finding) ==
  LET found == EntryFor(rules.acceptances, finding)
  IN  found # NoRecord /\ CheckActive(found, now)

\* evaluate: CRITICAL blocks, HIGH blocks unless accepted, and so does every
\* violation of the override rules; the rest is tracked.
Blocks(rules, now, finding) ==
  LET override == Overrides(rules, now, finding)
      severity == Effective(finding, override)
  IN  \/ Tampered(finding, override)
      \/ severity = "CRITICAL"
      \/ severity = "HIGH" /\ ~Accepted(rules, now, finding)

GateAction(rules, now, finding) ==
  LET severity == Effective(finding, Overrides(rules, now, finding))
  IN  CASE severity = "CRITICAL" -> "RELEASE_BLOCKER"
        [] severity = "HIGH"     -> IF Accepted(rules, now, finding)
                                    THEN "CONDITIONALLY_ACCEPTED" ELSE "CONDITIONAL_BLOCKER"
        [] severity = "MEDIUM"   -> "TRACKED_REMEDIATION"
        [] OTHER                 -> "TRACKED_IMPROVEMENT"

\* The findings of a scan claim no base severity.
AsGateFinding(finding) ==
  [advisory |-> finding.advisory, package |-> finding.package,
   severity |-> finding.severity, base |-> NoLabel]

EvaluateGate(findings, rules, now) ==
  LET judged == {AsGateFinding(f) : f \in findings}
  IN  [passed  |-> \A f \in judged : ~Blocks(rules, now, f),
       actions |-> {<<f.advisory, GateAction(rules, now, f)>> : f \in judged}]

-----------------------------------------------------------------------------
(* regression_policy.py: five parts close a bug. *)

Elements == {"root_cause", "fix", "test", "threat_model_update", "release_note"}

\* A part that is there and complete; the test must name a file that exists and
\* contains it, and a release note that does not apply may be empty.
Complete(entry, element, tests) ==
  CASE element = "test"         -> entry.test \in DOMAIN tests /\ entry.testName \in tests[entry.test]
    [] element = "release_note" -> entry.applicable => "release_note" \in entry.written
    [] OTHER                    -> element \in entry.written

ValidateSingleEntry(entry, tests) == {e \in Elements : ~Complete(entry, e, tests)}

EnforcePolicy(source) ==
  /\ source.regressions.parses
  /\ source.regressions.schemaHolds
  /\ \A entry \in source.regressions.entries : ValidateSingleEntry(entry, source.tests) = {}

-----------------------------------------------------------------------------
(* release_gate.py *)

\* check_secrets_gate: a file of more than 5 MB is passed over, a file that
\* cannot be read counts as a secret, and a synthetic fixture does not.
SecretsFound(source) ==
  {f \in source.files : ~f.tooLarge /\ (~f.readable \/ f.secret = "real")}

\* check_silent_scanner_crash_gate: the scanner refuses a flag it does not know,
\* and no script joins a list of arguments with a shell.
ScannerRefuses(source) == source.scannerExists /\ ~source.listThroughShell

\* check_required_sbom_gate
RequiredSbom(cdx, spdx, components) ==
  /\ cdx.exists /\ cdx.parses
  /\ Cardinality(components) >= MinComponents
  /\ spdx.exists /\ spdx.parses

=============================================================================
