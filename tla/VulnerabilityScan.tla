--------------------------- MODULE VulnerabilityScan ---------------------------
(***************************************************************************)
(* The vulnerability scanner of the release (scripts/scan_vulnerabilities): *)
(* what it asks OSV, npm and the offline snapshot about the dependencies   *)
(* of a source tree, and the report it makes of their answers.  The        *)
(* components it asks about come from scripts/generate_sbom.py.            *)
(*                                                                         *)
(* A package name is a sequence: npm's nested path node_modules/a/         *)
(* node_modules/b is <<"a", "b">>, while the package is <<"b">>.           *)
(***************************************************************************)
EXTENDS Naturals, SequencesExt

CONSTANTS
  ChunkSize,    \* queries in one OSV request, 50 in the code
  Snapshot,     \* the offline database: package name -> its advisories
  TextBefore,   \* pairs of versions, the first before the second as text
  DevTools      \* names evaluate_*_exploitability calls development tools

ASSUME ChunkSizeAssumption == ChunkSize \in Nat \ {0}

Unversioned == "unknown"
NoLabel   == "no label"

-----------------------------------------------------------------------------
(* The components of a tree: generate_sbom.py *)

\* collect_python_dependencies: the packages reached from the direct ones, each
\* with the version installed, or 1.0.0 and no requirements when it is not.
PythonClosure(python) ==
  LET closed(S) == \A p \in S \cap DOMAIN python.installed : python.requires[p] \subseteq S
  IN  {p \in DOMAIN python.requires :
         \A S \in SUBSET DOMAIN python.requires : python.direct \subseteq S /\ closed(S) => p \in S}

PythonComponents(python) ==
  {[name |-> <<p>>, eco |-> "pypi",
    version |-> IF p \in DOMAIN python.installed THEN python.installed[p] ELSE "1.0.0"] :
     p \in PythonClosure(python)}

\* parse_npm_lockfile strips every node_modules/ from a path before it looks
\* for the last one, so a nested package is called by its whole path.
NpmComponents(lock) ==
  IF lock.exists
  THEN {[name |-> p.path, eco |-> "npm", version |-> p.version] : p \in lock.paths}
  ELSE {}

\* build_cyclonedx_sbom: three assemblies of the product, then the libraries.
Assemblies ==
  {[name |-> <<n>>, eco |-> "generic", version |-> "1.0.0"] :
     n \in {"ecdat-scanners", "ecdat-backend", "ecdat-frontend"}}

BuildCyclonedx(source) ==
  Assemblies \cup PythonComponents(source.python)
             \cup NpmComponents(source.backend) \cup NpmComponents(source.frontend)

\* build_spdx_sbom: the product and every library.
BuildSpdx(source) == BuildCyclonedx(source) \ Assemblies

-----------------------------------------------------------------------------
(* Answers.  A target of the scan gives findings or one kind of problem.    *)

Answered(findings) == [findings |-> findings, problem |-> "none"]
Failed(problem)    == [findings |-> <<>>, problem |-> problem]

Affected(component, known) ==
  {a \in known : a.package = component.name /\ a.eco = component.eco
                 /\ component.version \in a.versions}

\* extract_severity: the database's own label, a rating of the CVSS vector, or
\* MODERATE when the answer carries neither.
ExtractSeverity(advisory) ==
  IF advisory.label # NoLabel THEN advisory.label
  ELSE IF advisory.cvss = "unchanged scope, all high" THEN "CRITICAL"
  ELSE IF advisory.cvss = "some high" THEN "HIGH"
  ELSE "MODERATE"

\* evaluate_python_exploitability, evaluate_node_exploitability
Exploitability(name, eco) ==
  IF Last(name) \in DevTools THEN "none in production"
  ELSE IF eco = "pypi" THEN "evaluated against the scanner" ELSE "requires evaluation"

VulnFinding(component, advisory, severity) ==
  [package |-> component.name, advisory |-> advisory.id, severity |-> severity,
   exploitability |-> Exploitability(component.name, component.eco)]

\* query_osv_batch: the queries go out in chunks, and the first that fails ends
\* the whole query.  A time-out, a 5xx or no network is "unavailable"; an
\* answer that does not parse, has another schema or another length, and any
\* other HTTP status are "error".
OsvAnswers == {"ok", "unavailable", "error"}

Chunks(queries) == 1..((Len(queries) + ChunkSize - 1) \div ChunkSize)

OsvFindings(queries, known) ==
  FoldLeft(LAMBDA found, q :
             found \o SetToSeq({VulnFinding(q, a, ExtractSeverity(a)) : a \in Affected(q, known)}),
           <<>>, queries)

QueryOsvBatch(queries, answers, known) ==
  LET failed == {i \in Chunks(queries) : answers[i] # "ok"}
  IN  IF failed = {} THEN Answered(OsvFindings(queries, known))
      ELSE Failed(answers[CHOOSE i \in failed : \A j \in failed : i <= j])

\* The purls scan_sbom_file can ask OSV about.
Resolvable(component) == component.eco \in {"pypi", "npm"} /\ component.version # Unversioned

Queries(components) == SetToSeq({c \in components : Resolvable(c)})

ScanSbomFile(sbom, answers, known) ==
  IF ~sbom.parses THEN Failed("invalid")
  ELSE IF Queries(sbom.components) = <<>> /\ sbom.components # {} THEN Failed("invalid")
  ELSE QueryOsvBatch(Queries(sbom.components), answers, known)

\* scan_python_packages, asked about requirements.lock when there is no SBOM.
ScanPythonPackages(packages, answers, known) ==
  IF packages = <<>> THEN Failed("invalid") ELSE QueryOsvBatch(packages, answers, known)

\* run_npm_audit.  npm reports one entry a package, with the worst severity of
\* its advisories and the identifier of the last one.
NpmAnswers == {"ok", "no npm", "timeout", "registry unavailable", "cannot run", "no output",
               "not JSON", "registry error", "unknown schema"}

NpmUnavailable == {"no npm", "timeout", "registry unavailable"}

NpmRank == [INFO |-> 0, LOW |-> 1, MODERATE |-> 2, HIGH |-> 3, CRITICAL |-> 4]

AuditEntry(component, advisories) ==
  LET worst == CHOOSE a \in advisories : \A b \in advisories : NpmRank[b.npm] <= NpmRank[a.npm]
      last  == CHOOSE a \in advisories : \A b \in advisories : b.order <= a.order
  IN  VulnFinding(component, last, worst.npm)

RunNpmAudit(lock, answer, known) ==
  IF ~lock.exists \/ ~lock.parses THEN Failed("invalid")
  ELSE IF answer \in NpmUnavailable THEN Failed("unavailable")
  ELSE IF answer # "ok" THEN Failed("error")
  ELSE LET installed == {[name |-> <<Last(p.path)>>, eco |-> "npm", version |-> p.version] : p \in lock.paths}
           hit == {c \in installed : Affected(c, known) # {}}
       IN  Answered(SetToSeq({AuditEntry(c, Affected(c, known)) : c \in hit}))

-----------------------------------------------------------------------------
(* The report *)

\* The first finding of a package and an advisory stands for the later ones.
Unique(findings) ==
  FoldLeft(LAMBDA kept, f :
             IF \E i \in DOMAIN kept : kept[i].package = f.package /\ kept[i].advisory = f.advisory
             THEN kept ELSE Append(kept, f), <<>>, findings)

\* Mutant: a scan that found something counts as successful whatever went wrong.
ScanStatus_FindingsFirst(problems, findings) ==
  IF findings # <<>> THEN "VULNERABLE"
  ELSE IF "invalid" \in problems THEN "INVALID_INPUT"
  ELSE IF "unavailable" \in problems THEN "SCAN_UNAVAILABLE"
  ELSE IF "error" \in problems THEN "SCAN_ERROR" ELSE "CLEAN"

\* What went wrong decides the status before what was found.
ScanStatus(problems, findings) ==
  IF "invalid" \in problems THEN "INVALID_INPUT"
  ELSE IF "unavailable" \in problems THEN "SCAN_UNAVAILABLE"
  ELSE IF "error" \in problems THEN "SCAN_ERROR"
  ELSE IF findings # <<>> THEN "VULNERABLE" ELSE "CLEAN"

Report(python, backend, frontend) ==
  LET findings == Unique(python.findings \o backend.findings \o frontend.findings)
      problems == {python.problem, backend.problem, frontend.problem}
  IN  [status |-> ScanStatus(problems, findings), findings |-> ToSet(findings)]

\* The Python half of a scan: the SBOM, or the lock file when there is none.
ScanPython(sbom, source, osv, known) ==
  IF sbom.exists THEN ScanSbomFile(sbom, osv, known)
  ELSE IF ~source.requirements.exists \/ ~source.requirements.parses THEN Failed("invalid")
  ELSE ScanPythonPackages(SetToSeq(source.requirements.packages), osv, known)

\* The two lock files are audited one after the other, each with an answer of its own.
NpmAudits == [{"backend", "frontend"} -> NpmAnswers]

Scan(sbom, source, osv, audits, known) ==
  Report(ScanPython(sbom, source, osv, known),
         RunNpmAudit(source.backend, audits["backend"], known),
         RunNpmAudit(source.frontend, audits["frontend"], known))

\* OfflineVulnerabilityDatabase.check_packages, with versions compared as text:
\* "10" comes before "9".
IsVersionAffected(version, fixed) == <<version, fixed>> \in TextBefore

CheckPackages(components) ==
  LET indexed == {c \in components : c.name \in DOMAIN Snapshot}
  IN  [findings  |-> UNION {{VulnFinding(c, a, a.label) :
                               a \in {x \in Snapshot[c.name] : IsVersionAffected(c.version, x.fixed)}} :
                              c \in indexed},
       uncovered |-> components \ indexed]

\* scan_offline takes every purl of the SBOM, whatever its ecosystem.
ScanOffline(sbom, source) ==
  LET locks   == {l \in {source.backend, source.frontend} : l.exists}
      listed  == IF sbom.exists
                 THEN IF sbom.parses THEN sbom.components ELSE {}
                 ELSE ToSet(source.requirements.packages)
      nested  == UNION {{[name |-> <<Last(p.path)>>, eco |-> "npm", version |-> p.version] :
                           p \in l.paths} : l \in {l \in locks : l.parses}}
      checked == CheckPackages(listed \cup nested)
      invalid == \/ sbom.exists /\ ~sbom.parses
                 \/ ~sbom.exists /\ ~(source.requirements.exists /\ source.requirements.parses)
                 \/ \E l \in locks : ~l.parses
  IN  [findings |-> checked.findings,
       status   |-> IF invalid THEN "INVALID_INPUT"
                    ELSE IF checked.uncovered # {} THEN "INCOMPLETE_VULNERABILITY_DATA"
                    ELSE IF checked.findings # {} THEN "VULNERABLE" ELSE "CLEAN"]

\* scan_successful of the report, and the exit code of main.
Successful(report) == report.status \in {"CLEAN", "VULNERABLE"}

CountsFor(failOn, severity) ==
  \/ failOn = "any"
  \/ failOn = "high" /\ severity \in {"HIGH", "CRITICAL"}
  \/ failOn = "critical" /\ severity = "CRITICAL"

ExitCode(report, failOn, requireClean) ==
  IF ~Successful(report) THEN 2
  ELSE IF report.status = "VULNERABLE"
          /\ (requireClean \/ \E f \in report.findings : CountsFor(failOn, f.severity))
  THEN 1 ELSE 0

\* evaluate_vulnerability_gate
GateSatisfied(report, failOn, requireClean) == ExitCode(report, failOn, requireClean) = 0

\* is_clean, and the badge of the Markdown report.
IsClean(report) == report.status = "CLEAN" /\ report.findings = {}

=============================================================================
