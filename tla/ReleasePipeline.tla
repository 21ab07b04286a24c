---------------------------- MODULE ReleasePipeline ----------------------------
(***************************************************************************)
(* One run of the supply-chain workflow (.github/workflows/                *)
(* ecdat-supply-chain.yml) over the scripts it calls: SBOMs, vulnerability *)
(* scan, provenance, signing, the release gate and the final quality gate. *)
(* A step that fails ends the run, which can also be cancelled between two *)
(* writes; the artifacts are published whatever happened.  Advisories      *)
(* appear, overrides expire and a file may be damaged while it runs.       *)
(*                                                                         *)
(* The content of a file is a stamp, which stands for its digest, and what *)
(* later steps read in it.                                                 *)
(***************************************************************************)
EXTENDS ReleaseGate

CONSTANTS
  Sources,      \* the trees a run may be about
  Keyrings,     \* the signing keys: in the environment of a step, in a file
  ReleaseKey,   \* the key config/ed25519_release_public.pem belongs to
  Advisories,   \* every advisory there will be
  MaxNow,       \* bound: the last instant
  MaxDamage     \* bound: files damaged from outside

ASSUME ReleaseBoundsAssumption == MaxNow \in Nat /\ MaxDamage \in Nat

\* The registers of overrides and of risk acceptances are lists.
ASSUME RegistersAssumption ==
  \A s \in Sources : \A entries \in {s.rules.overrides, s.rules.acceptances} :
    Len(entries) \in Nat /\ DOMAIN entries = 1 .. Len(entries)

\* Trees and advisories are finite, and what is installed says its version.
ASSUME SourcesAssumption ==
  /\ IsFiniteSet(Advisories)
  /\ \A s \in Sources :
       /\ IsFiniteSet(DOMAIN s.python.requires)
       /\ \A p \in DOMAIN s.python.installed : s.python.installed[p] # Unversioned
       /\ \A l \in {s.backend, s.frontend} : l.exists => IsFiniteSet(l.paths)

VARIABLES
  source,     \* the tree checked out
  keyring,    \* the keys the run has
  now,        \* the time
  known,      \* advisories published so far
  artifacts,  \* artifact -> its content
  stage,      \* the step about to run
  gate,       \* ReleaseGateEvaluator: has a check failed, and the verdict
  final,      \* FinalQualityGateOrchestrator: the same
  damaged     \* files damaged so far (for the properties)

releaseVars == <<source, keyring, now, known, artifacts, stage, gate, final, damaged>>
givens == <<source, keyring, now, known>>

NoKey  == "no key"
NotThere == [exists |-> FALSE]

\* collect_target_artifacts: the three directories, without signatures,
\* manifests, and the reports the gates write after signing.
Collected == {"cdx", "spdx", "report", "provenance", "certificate"}
GateReports == {"gateReport", "finalReport"}
Artifacts == Collected \cup GateReports \cup {"sums", "signature"}

Present(name) == artifacts[name].exists
Stamp(name) == IF Present(name) THEN artifacts[name].stamp ELSE 0

\* A file is written whole, and its new content has a digest of its own.
File(name, body) == [exists |-> TRUE, stamp |-> Stamp(name) + 1, parses |-> TRUE, body |-> body]

\* What is left of a file whose writer was stopped half way, or that was damaged.
Torn(name, body) == [exists |-> TRUE, stamp |-> Stamp(name) + 1, parses |-> FALSE, body |-> body]

Written(name, body) == [artifacts EXCEPT ![name] = File(name, body)]

Proceed(next) == stage' = next
Stop == Proceed("publish")

-----------------------------------------------------------------------------
(* generate_sbom.py: the CycloneDX document, then the SPDX one. *)

SbomFails == \E l \in {source.backend, source.frontend} : l.exists /\ ~l.parses

GenerateSboms(cdx, spdx) ==
  [artifacts EXCEPT !["cdx"] = File("cdx", cdx), !["spdx"] = File("spdx", spdx)]

GenerateSbom ==
  /\ stage = "sbom"
  /\ IF SbomFails THEN Stop /\ UNCHANGED artifacts
     ELSE Proceed("spdx") /\ artifacts' = Written("cdx", BuildCyclonedx(source))
  /\ UNCHANGED <<givens, gate, final, damaged>>

GenerateSpdx ==
  /\ stage = "spdx"
  /\ artifacts' = Written("spdx", BuildSpdx(source))
  /\ Proceed("scan")
  /\ UNCHANGED <<givens, gate, final, damaged>>

(* scan_vulnerabilities.py: the report is written whatever the status. *)

Sbom == [exists |-> Present("cdx"), parses |-> Present("cdx") /\ artifacts["cdx"].parses,
         components |-> IF Present("cdx") /\ artifacts["cdx"].parses THEN artifacts["cdx"].body ELSE {}]

\* What a scan can report, with the advisories its answers were based on.
ScanReports(sbom) ==
  {[result |-> Scan(sbom, source, osv, audits, known), asked |-> known] :
     osv \in [Chunks(Queries(sbom.components)) -> OsvAnswers], audits \in NpmAudits}

ScanVulnerabilities ==
  /\ stage = "scan"
  /\ \E report \in ScanReports(Sbom) :
       /\ artifacts' = Written("report", report)
       /\ IF ExitCode(report.result, "high", FALSE) = 0 THEN Proceed("provenance") ELSE Stop
  /\ UNCHANGED <<givens, gate, final, damaged>>

\* generate_provenance.py: the digests of the files that are there, the manifest
\* of an earlier signing included.
Subjects == [n \in {n \in {"cdx", "spdx", "report", "sums"} : Present(n)} |-> Stamp(n)]

GenerateProvenance ==
  /\ stage = "provenance"
  /\ artifacts' = Written("provenance", Subjects)
  /\ Proceed("manifest")
  /\ UNCHANGED <<givens, gate, final, damaged>>

-----------------------------------------------------------------------------
(* sign_artifacts.py *)

CollectTargetArtifacts == {n \in Collected : Present(n)}

\* SHA256SUMS (SHA512SUMS has the same entries).
Manifest == [n \in CollectTargetArtifacts |-> Stamp(n)]

\* sign_manifest takes the key of the environment first.
SigningKey(inEnvironment) == IF inEnvironment # NoKey THEN inEnvironment ELSE keyring.file

Signature(key, sums) == [by |-> key, stamp |-> sums.stamp]

WriteManifest ==
  /\ stage = "manifest"
  /\ IF SigningKey(keyring.step) # NoKey
     THEN artifacts' = Written("sums", Manifest) /\ Proceed("sign")
     ELSE Proceed("verify") /\ UNCHANGED artifacts
  /\ UNCHANGED <<givens, gate, final, damaged>>

SignManifest ==
  /\ stage = "sign"
  /\ artifacts' = Written("signature", Signature(SigningKey(keyring.step), artifacts["sums"]))
  /\ Proceed("verify")
  /\ UNCHANGED <<givens, gate, final, damaged>>

\* verify_manifest against the release key, and verify_checksums over the names
\* listed, whatever else the directories hold.
VerifyChecksums(files) ==
  /\ files["sums"].parses
  /\ \A n \in DOMAIN files["sums"].body :
       files[n].exists /\ files[n].stamp = files["sums"].body[n]

Verifies(files) ==
  /\ files["sums"].exists /\ files["signature"].exists
  /\ files["signature"].parses
  /\ files["signature"].body = Signature(ReleaseKey, files["sums"])
  /\ VerifyChecksums(files)

\* The step verifies only when there is something to verify.
Verify ==
  /\ stage = "verify"
  /\ IF (Present("sums") /\ Present("signature")) => Verifies(artifacts) THEN Proceed("cosign") ELSE Stop
  /\ UNCHANGED <<givens, artifacts, gate, final, damaged>>

\* Cosign, on the main branch: a certificate next to the SBOM.
Cosign ==
  /\ stage = "cosign"
  /\ artifacts' \in {artifacts, Written("certificate", "cosign")}
  /\ Proceed("vulnerabilities")
  /\ UNCHANGED <<givens, gate, final, damaged>>

-----------------------------------------------------------------------------
(* release_gate.py: six checks, each recorded, and a report. *)

Check(passes, next) ==
  /\ gate' = [gate EXCEPT !.failed = @ \/ ~passes]
  /\ Proceed(next)
  /\ UNCHANGED <<givens, artifacts, final, damaged>>

\* The findings of the report on disk; no report is no finding.
ReportedFindings(files) == IF files["report"].exists THEN files["report"].body.result.findings ELSE {}

\* A rules file that does not parse ends the script without a report.
CheckVulnerabilityGate ==
  /\ stage = "vulnerabilities"
  /\ IF ~LoadsRules(source.rules) THEN Stop /\ UNCHANGED <<givens, artifacts, gate, final, damaged>>
     ELSE Check(/\ Present("report") => artifacts["report"].parses
                /\ EvaluateGate(ReportedFindings(artifacts), source.rules, now).passed, "secrets")

CheckSecretsGate == stage = "secrets" /\ Check(SecretsFound(source) = {}, "tests")

\* The tests run in 90 and 30 seconds, or fail.
CheckSecurityTestsGate ==
  /\ stage = "tests"
  /\ \E pass \in BOOLEAN : Check(EnforcePolicy(source) /\ pass, "integrity")

CheckArtifactIntegrityGate == stage = "integrity" /\ Check(Verifies(artifacts), "crash")

CheckSilentScannerCrashGate == stage = "crash" /\ Check(ScannerRefuses(source), "sbom gate")

CheckRequiredSbomGate ==
  /\ stage = "sbom gate"
  /\ Check(RequiredSbom(artifacts["cdx"], artifacts["spdx"], Sbom.components), "gate report")

GenerateReport ==
  /\ stage = "gate report"
  /\ artifacts' = Written("gateReport", "report")
  /\ gate' = [gate EXCEPT !.verdict = IF gate.failed THEN "REJECTED" ELSE "APPROVED"]
  /\ IF gate.failed THEN Stop ELSE Proceed("suites")
  /\ UNCHANGED <<givens, final, damaged>>

-----------------------------------------------------------------------------
(* final_quality_gate.py: seventeen checks; a failed one does not stop it. *)

FinalCheck(passes, next) ==
  /\ final' = [final EXCEPT !.failed = @ \/ ~passes]
  /\ Proceed(next)
  /\ UNCHANGED <<givens, gate>>

\* Checks 1 to 6 and 9 to 14 are test suites run by run_cmd, which answers a
\* time-out or an exception with a code that is not 0.
RunSuites ==
  /\ stage = "suites"
  /\ \E pass \in BOOLEAN : FinalCheck(pass, "dependencies")
  /\ UNCHANGED <<artifacts, damaged>>

RunMoreSuites ==
  /\ stage = "more suites"
  /\ \E pass \in BOOLEAN : FinalCheck(pass, "regenerate")
  /\ UNCHANGED <<artifacts, damaged>>

\* Check 7 scans again with the SBOM on disk and ignores the exit code.  The
\* scanner may run out of its 90 seconds before it writes, which leaves the
\* earlier report, or while it writes, which ends the gate with an exception.
CheckDependencyScan ==
  /\ stage = "dependencies"
  /\ \/ \E files \in {Written("report", r) : r \in ScanReports(Sbom)} \cup {artifacts} :
          /\ artifacts' = files
          /\ IF ~LoadsRules(source.rules) \/ (Present("report") /\ ~files["report"].parses)
             THEN Stop /\ UNCHANGED <<givens, gate, final>>
             ELSE FinalCheck(EvaluateGate(ReportedFindings(files), source.rules, now).passed, "final secrets")
     \/ /\ artifacts' = [artifacts EXCEPT !["report"] = Torn("report", "half written")]
        /\ Stop
        /\ UNCHANGED <<givens, gate, final>>
  /\ UNCHANGED damaged

CheckSecretScan ==
  /\ stage = "final secrets"
  /\ FinalCheck(SecretsFound(source) = {}, "more suites")
  /\ UNCHANGED <<artifacts, damaged>>

\* Check 15
CheckSbomGeneration ==
  /\ stage = "regenerate"
  /\ IF SbomFails
     THEN FinalCheck(FALSE, "attest") /\ UNCHANGED artifacts
     ELSE /\ FinalCheck(TRUE, "attest")
          /\ artifacts' = GenerateSboms(BuildCyclonedx(source), BuildSpdx(source))
  /\ UNCHANGED damaged

\* Check 16 runs provenance, signing and verification in turn.  Its step has
\* no key in its environment.
Attest ==
  /\ stage = "attest"
  /\ artifacts' = Written("provenance", Subjects)
  /\ Proceed("catalogue")
  /\ UNCHANGED <<givens, gate, final, damaged>>

Catalogue ==
  /\ stage = "catalogue"
  /\ IF SigningKey(NoKey) = NoKey THEN UNCHANGED artifacts
     ELSE LET sums == File("sums", Manifest)
          IN  artifacts' = [artifacts EXCEPT !["sums"] = sums,
                                   !["signature"] = File("signature", Signature(SigningKey(NoKey), sums))]
  /\ Proceed("provenance check")
  /\ UNCHANGED <<givens, gate, final, damaged>>

\* Mutant: the exit code of the verification is not looked at.
CheckProvenance_SignOnly ==
  /\ stage = "provenance check"
  /\ FinalCheck(SigningKey(NoKey) # NoKey, "documentation")
  /\ UNCHANGED <<artifacts, damaged>>

CheckProvenance ==
  /\ stage = "provenance check"
  /\ FinalCheck(SigningKey(NoKey) # NoKey /\ Verifies(artifacts), "documentation")
  /\ UNCHANGED <<artifacts, damaged>>

\* Check 17, the report and the verdict.
RunQualification ==
  /\ stage = "documentation"
  /\ artifacts' = Written("finalReport", "report")
  /\ LET failed == final.failed \/ ~source.documented
     IN  final' = [failed |-> failed, verdict |-> IF failed THEN "RELEASE_BLOCKED" ELSE "QUALIFIED"]
  /\ Stop
  /\ UNCHANGED <<givens, gate, damaged>>

-----------------------------------------------------------------------------
(* What happens around a run *)

\* cancel-in-progress or the limit of twenty minutes.
Cancel ==
  /\ stage \notin {"publish", "published"}
  /\ Stop
  /\ UNCHANGED <<givens, artifacts, gate, final, damaged>>

Publish ==
  /\ stage = "publish"
  /\ Proceed("published")
  /\ UNCHANGED <<givens, artifacts, gate, final, damaged>>

ReleaseTick ==
  /\ now < MaxNow
  /\ stage # "published"
  /\ now' = now + 1
  /\ UNCHANGED <<source, keyring, known, artifacts, stage, gate, final, damaged>>

Announce ==
  /\ stage # "published"
  /\ \E a \in Advisories \ known : known' = known \cup {a}
  /\ UNCHANGED <<source, keyring, now, artifacts, stage, gate, final, damaged>>

\* A file damaged from outside; after the last verification nothing reads it.
Damage(name) ==
  /\ stage \notin {"documentation", "publish", "published"}
  /\ Cardinality(damaged) < MaxDamage
  /\ Present(name)
  /\ artifacts' = [artifacts EXCEPT ![name] = Torn(name, @.body)]
  /\ damaged' = damaged \cup {name}
  /\ UNCHANGED <<givens, stage, gate, final>>

ReleaseInit ==
  /\ source \in Sources
  /\ keyring \in Keyrings
  /\ now = 0
  /\ known = {}
  /\ artifacts = [n \in Artifacts |-> NotThere]
  /\ stage = "sbom"
  /\ gate = [failed |-> FALSE, verdict |-> "none"]
  /\ final = [failed |-> FALSE, verdict |-> "none"]
  /\ damaged = {}

ReleaseNext ==
  \/ GenerateSbom \/ GenerateSpdx \/ ScanVulnerabilities \/ GenerateProvenance
  \/ WriteManifest \/ SignManifest \/ Verify \/ Cosign
  \/ CheckVulnerabilityGate \/ CheckSecretsGate \/ CheckSecurityTestsGate
  \/ CheckArtifactIntegrityGate \/ CheckSilentScannerCrashGate \/ CheckRequiredSbomGate
  \/ GenerateReport
  \/ RunSuites \/ RunMoreSuites \/ CheckDependencyScan \/ CheckSecretScan \/ CheckSbomGeneration
  \/ Attest \/ Catalogue \/ CheckProvenance \/ RunQualification
  \/ Cancel \/ Publish \/ ReleaseTick \/ Announce
  \/ \E n \in Collected \cup {"sums", "signature"} : Damage(n)

ReleaseSpec == ReleaseInit /\ [][ReleaseNext]_releaseVars

-----------------------------------------------------------------------------
(* Properties *)

Verdicts == {"none", "APPROVED", "REJECTED"}

\* The state of a run, as the scripts and their files have it.
ReleaseTypeOK ==
  /\ source \in Sources /\ keyring \in Keyrings
  /\ now \in 0..MaxNow /\ known \subseteq Advisories /\ damaged \subseteq Artifacts
  /\ DOMAIN artifacts = Artifacts
  /\ \A n \in Artifacts : Present(n) => artifacts[n].stamp \in Nat \ {0} /\ artifacts[n].parses \in BOOLEAN
  /\ gate.failed \in BOOLEAN /\ gate.verdict \in Verdicts
  /\ final.failed \in BOOLEAN /\ final.verdict \in {"none", "RELEASE_BLOCKED", "QUALIFIED"}

Installed ==
  {c \in PythonComponents(source.python) : Last(c.name) \in DOMAIN source.python.installed} \cup
  UNION {{[name |-> <<Last(p.path)>>, eco |-> "npm", version |-> p.version] : p \in l.paths} :
           l \in {l \in {source.backend, source.frontend} : l.exists}}

\* A scan that calls itself successful names every installed package for which
\* an advisory was known when it asked, wherever the package is nested,
\* whichever of its requests was answered and whichever of the two npm audits
\* failed alone (scan, query_osv_batch, run_npm_audit).
AffectedPackageIsReported ==
  Present("report") /\ artifacts["report"].parses /\ Successful(artifacts["report"].body.result) =>
    \A c \in Installed :
      Affected(c, artifacts["report"].body.asked) # {} =>
        \E f \in artifacts["report"].body.result.findings : f.package = c.name

\* Registered for the finding, by its advisory or its package: one dictionary has both.
OverrideInForce(entries, finding, valid(_)) ==
  \E i \in DOMAIN entries :
    /\ {entries[i].finding, entries[i].package} \cap {finding.advisory, Last(finding.package)} # {}
    /\ valid(entries[i])

SevereAreAccountedFor(findings) ==
  \A f \in findings :
    LET overridden == OverrideInForce(source.rules.overrides, f, LAMBDA o :
                        /\ o.until > now /\ o.document \in DOMAIN source.rules.evidence
                        /\ source.rules.evidence[o.document] = o.digest)
        accepted   == OverrideInForce(source.rules.acceptances, f, LAMBDA x : x.until > now)
    IN  /\ f.severity = "CRITICAL" => overridden
        /\ f.severity = "HIGH" => overridden \/ accepted

\* When a gate lets a report pass, each CRITICAL finding in it has an override in
\* force at that moment, with the evidence it names, and each HIGH one has that
\* or a risk acceptance in force: both in the release gate, which reads the
\* report of an earlier step, and in the final gate, which makes a new one.
SevereFindingsAreAccountedFor ==
  [][/\ stage = "vulnerabilities" /\ stage' = "secrets" /\ ~gate'.failed =>
          SevereAreAccountedFor(ReportedFindings(artifacts))
     /\ stage = "dependencies" /\ stage' = "final secrets" /\ ~final'.failed =>
          SevereAreAccountedFor(ReportedFindings(artifacts'))]_releaseVars

\* A release the gate approves was signed with the release key, although the
\* workflow goes on without a key and verifies only what is there: a skipped
\* signing, another key or a damaged signature ends in a rejection (Rule 4).
ApprovedReleaseIsSigned ==
  gate.verdict = "APPROVED" =>
    /\ Present("signature")
    /\ Stamp("signature") = 1 => artifacts["signature"].body.by = ReleaseKey

\* What the final gate qualifies still verifies when it is published, although
\* its seventh check rewrote the report and its fifteenth the SBOMs; and the
\* provenance names the digests that were signed, of every undamaged file.
QualifiedReleaseIsConsistent ==
  final.verdict = "QUALIFIED" =>
    /\ Verifies(artifacts)
    /\ \A n \in DOMAIN artifacts["provenance"].body \ (damaged \cup {"sums"}) :
         artifacts["provenance"].body[n] = artifacts["sums"].body[n]

\* Rule 5 of the release gate (release_gate.py): a scanner that failed is never
\* taken for a clean pass.  The final gate ignores the scanner's exit code and
\* finds no finding in the report of a failure.
ScannerFailureIsNotAPass ==
  final.verdict = "QUALIFIED" => Successful(artifacts["report"].body.result)

\* What the stages vouch for holds: the release gate for the signature, the final
\* gate for files that still fit one another.
ReleaseVouches == ReleaseTypeOK /\ ApprovedReleaseIsSigned /\ QualifiedReleaseIsConsistent

===============================================================================
