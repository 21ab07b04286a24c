-------------------------------- MODULE CIScan --------------------------------
(***************************************************************************)
(* One run of the CI scanner (backend/scanners/ci_scanner.py): the         *)
(* configuration is checked, files are selected, each is scanned, then     *)
(* secrets, dependencies and the container file; findings get their        *)
(* suppressions, the reports are written, and the gate decides the exit    *)
(* code.  Reading, parsing and writing can fail at every point where the   *)
(* code calls them, and each kind of failure is handled in its own way.    *)
(*                                                                         *)
(* First what the scanners of a source tree find                           *)
(* (backend/scanners/static): which files are looked at, what the syntax   *)
(* tree and the regular expressions find in one of them and how the two    *)
(* are merged, and which stretches of a text are taken out as secrets.  A  *)
(* file is a record; its text is kept by what a detector can match in it,  *)
(* each match at a line.  A secret match is a stretch first..last of the   *)
(* text that a pattern of one of the five families matches; secrets lists  *)
(* them as they come: the patterns in turn, the matches of one from left   *)
(* to right.                                                               *)
(***************************************************************************)
EXTENDS PolicyEngine, Sequences, FiniteSetsExt, SequencesExt

CONSTANTS
  Trees,            \* source trees: files, manifest, dockerfile
  Configs,          \* configurations
  Adapted,          \* the extensions with a language adapter
  DefaultPolicy,    \* the policy that ships with the scanner
  Now,              \* the time of the run
  MaxDepth,         \* FileDiscovery.max_depth
  MaxRegexFindings  \* MAX_REGEX_FINDINGS_PER_FILE

\* Paths tell the files of a tree apart, and detectors use these severities.
Severities == {"critical", "high", "medium", "low", "info", "informational", "Informational"}

ASSUME TreesAssumption ==
  \A t \in Trees :
    /\ \A f, g \in t.files : f.path = g.path => f = g
    /\ \A f \in t.files : /\ Len(f.marks) \in Nat /\ DOMAIN f.marks = 1 .. Len(f.marks)
                          /\ \A i \in DOMAIN f.marks : f.marks[i].severity \in Severities
    /\ \A f \in t.files : /\ f.secrets \in Seq(ToSet(f.secrets))
                          /\ \A m \in ToSet(f.secrets) : m.first \in Nat /\ m.last \in Nat /\ m.first <= m.last
    /\ \A w \in {t.manifest, t.dockerfile} : \A m \in w.marks : m.severity \in Severities

-----------------------------------------------------------------------------
(* FileDiscovery *)

\* A directory is entered unless it is excluded, a link or too deep.
Entered(file) == ~file.inExcludedDir /\ ~file.behindLink /\ file.depth <= MaxDepth

\* The checks on a file, in any order as each only skips it.
Fits(file, includeExt, maxSize) ==
  /\ ~file.reserved /\ ~file.isLink /\ file.inside
  /\ file.ext \in includeExt
  /\ file.size <= maxSize
  /\ file.accessible

\* discover_files: the walk has no fixed order, so any of the files that fit
\* may be the ones the limit leaves out.
Discoveries(tree, includeExt, maxSize, maxFiles) ==
  LET fit == {f \in tree : Entered(f) /\ Fits(f, includeExt, maxSize)}
  IN  kSubset(IF Cardinality(fit) <= maxFiles THEN Cardinality(fit) ELSE maxFiles, fit)

-----------------------------------------------------------------------------
(* Static findings of one file *)

\* AdapterRegistry.get_by_extension
HasAdapter(file, adapted) == file.ext \in adapted

\* A finding of a file is the place of its mark in the file's list.
Matches(file, detector) == {i \in DOMAIN file.marks : file.marks[i].detector = detector}

AstFindings(file, adapted) == IF HasAdapter(file, adapted) THEN Matches(file, "ast") ELSE {}

\* apply_regex_rules: nothing without one of the keywords, and the first
\* findings only, in the order of the lines.
RegexFindings(file) ==
  IF file.suspicious
  THEN {i \in Matches(file, "regex") :
          Cardinality({j \in Matches(file, "regex") : j <= i}) <= MaxRegexFindings}
  ELSE {}

SameKey(m, n) == m.line = n.line /\ m.algorithm = n.algorithm

\* Mutant: a finding of the regular expressions is dropped for one of the syntax
\* tree with the same algorithm, wherever in the file that is.
Merged_ByAlgorithm(marks, asts, regexes) ==
  asts \cup {i \in regexes : \A k \in asts : marks[i].algorithm # marks[k].algorithm}

\* One finding for each line and algorithm: the last of the syntax tree's, or
\* else the first of the regular expressions'.
Merged(marks, asts, regexes) ==
  {i \in asts : \A k \in asts : k > i => ~SameKey(marks[i], marks[k])}
  \cup
  {i \in regexes : /\ \A k \in asts : ~SameKey(marks[i], marks[k])
                   /\ \A k \in regexes : k < i => ~SameKey(marks[i], marks[k])}

-----------------------------------------------------------------------------
(* Secrets *)

Pem      == 1
Generic  == 2
Token    == 3
Assigned == 4
Entropic == 5

Overlap(m, n) == m.first <= n.last /\ n.first <= m.last

\* Each family's own reasons to leave a match alone: an empty or quoted
\* pattern, a value already redacted, a path, a name, too little entropy.
Taken(m, claimed) == ~m.ignorable /\ \A n \in claimed : ~Overlap(m, n)

Claimed(matches) ==
  FoldLeft(LAMBDA claimed, m : IF Taken(m, claimed) THEN claimed \cup {m} ELSE claimed,
           {}, matches)

\* is_synthetic_fixture decides only how bad a secret is.
SecretSeverity(m) ==
  IF m.synthetic THEN "low"
  ELSE IF m.family \in {Pem, Generic} \/ (m.family = Token /\ m.isAccess) THEN "critical"
  ELSE "high"

SecretCandidates(file) ==
  IF file.secretive
  THEN {[line |-> m.line, rule |-> "SECRET", algorithm |-> m.type,
         detector |-> "secret", severity |-> SecretSeverity(m)] : m \in Claimed(file.secrets)}
  ELSE {}

\* The positions of the text that the replacements, from right to left, take
\* out of it.
Redacted(file) == IF file.secretive THEN UNION {m.first .. m.last : m \in Claimed(file.secrets)} ELSE {}

-----------------------------------------------------------------------------
(***************************************************************************)
(* The report for a code host (sarif_engine.py), and the comments by which *)
(* a developer silences a finding (developer_feedback.py).  comments[n] is *)
(* what an "ecdat:suppress" comment on line n names, or NoName.            *)
(***************************************************************************)
\* map_severity_to_sarif_level
Level(severity) ==
  CASE severity \in {"critical", "fatal", "high", "error"} -> "error"
    [] severity \in {"medium", "warning", "warn"} -> "warning"
    [] OTHER -> "note"

\* What a comment names and what a finding is called match when one occurs in
\* the other, either way round.
Names(target, finding) ==
  \/ target = "ALL"
  \/ \E called \in {finding.rule, finding.algorithm, finding.type} :
        Occurs(target, called) \/ Occurs(called, target)

\* check_inline_suppression: a comment on the finding's line or the line before.
CheckInlineSuppression(comments, finding) ==
  \E n \in {finding.line, finding.line - 1} \cap DOMAIN comments :
    comments[n] # NoName /\ Names(comments[n], finding)

\* generate: one result for each finding; a finding silenced when it was
\* enriched, or found silenced now, is reported as suppressed.
Result(finding, silencedNow) ==
  [rule |-> finding.rule, path |-> finding.path, line |-> finding.line,
   level |-> Level(finding.severity), secret |-> FALSE,
   suppressed |-> finding.suppressed \/ silencedNow]

Generate(findings, silenced) ==
  [rules   |-> {f.rule : f \in findings},
   results |-> {Result(f, f \in silenced) : f \in findings}]

\* validate: what a report may not contain.
Valid(report) ==
  \A r \in report.results :
    /\ r.rule \in report.rules
    /\ r.level \in {"error", "warning", "note", "none"}
    /\ r.line >= 1
    /\ ~r.secret

VARIABLES
  config,      \* self.config
  tree,        \* the directory scanned, as the run finds it
  phase,       \* where run() is
  todo,        \* target_files the current loop has still to read
  targets,     \* target_files
  findings,    \* findings
  errors,      \* scan_errors is not empty, or is_complete is FALSE
  unread,      \* inputs the run could not read or parse
  cbom,        \* the CBOM written, or NoFile
  sarif,       \* the SARIF file written, or NoFile
  result       \* what run() returns, NoResult before

ciVars == <<config, tree, phase, todo, targets, findings, errors, unread, cbom, sarif, result>>

NoFile   == [written |-> FALSE]
NoPolicy == [json |-> TRUE, document |-> [id |-> "no policy"]]
NoResult == [exit |-> -1, verdict |-> "none"]

\* CIExitCode
PASS == 0
POLICY_SECURITY_FAILURE == 1
SCANNER_ERROR == 2
INVALID_CONFIG == 3

Finish(exit, verdict) == phase' = "done" /\ result' = [exit |-> exit, verdict |-> verdict]

GoTo(next) == phase' = next /\ UNCHANGED result

-----------------------------------------------------------------------------
(* Configuration and targets *)

ValidConfig ==
  /\ config.targetIsDir
  /\ config.failOn \in {"none", "critical", "high", "policy"}
  /\ config.policy # NoPolicy => config.policy.json
  /\ config.container \in {"none", "auto"} \/ tree.dockerfile.exists

ValidateConfig ==
  /\ phase = "start"
  /\ IF ValidConfig THEN GoTo("select") ELSE Finish(INVALID_CONFIG, "INVALID_CONFIG")
  /\ UNCHANGED <<config, tree, todo, targets, findings, errors, unread, cbom, sarif>>

\* resolve_pr_diff_files: git's answer is part of the configuration.
GitFails == config.mode = "diff" /\ config.git # "ok"

\* The files named that exist, whatever their size; a link is followed, and a
\* name that leads outside the target ends run() with an exception.
Named == {f \in tree.files : f.path \in config.changed /\ f.ext \in config.includeExt}
LeadsOutside == config.mode # "full" /\ \E f \in Named : ~f.inside

Selections ==
  IF config.mode = "full"
  THEN Discoveries(tree.files, config.includeExt, config.maxSize, config.maxFiles)
  ELSE {{f \in Named : ~f.inExcludedDir}}

SelectTargets ==
  /\ phase = "select"
  /\ IF GitFails
     THEN /\ Finish(IF config.git \in {"not a repository", "diff failed"}
                    THEN INVALID_CONFIG ELSE SCANNER_ERROR, "ERROR")
          /\ UNCHANGED <<targets, todo>>
     ELSE IF LeadsOutside
     THEN /\ Finish(1, "exception")
          /\ UNCHANGED <<targets, todo>>
     ELSE /\ targets' \in Selections
          /\ todo' = targets'
          /\ GoTo("static")
  /\ UNCHANGED <<config, tree, findings, errors, unread, cbom, sarif>>

-----------------------------------------------------------------------------
(* Scanning *)

Finding(path, mark, type) ==
  [path |-> path, line |-> mark.line, rule |-> mark.rule, algorithm |-> mark.algorithm,
   type |-> type, severity |-> mark.severity, source |-> mark.detector, suppressed |-> FALSE]

\* A file that cannot be read, an adapter that raises and a regular expression
\* that raises are errors of the run; what the other detector found is kept.
ScanFile(f) ==
  /\ phase = "static"
  /\ f \in todo
  /\ todo' = todo \ {f}
  /\ \E outcome \in {"ok", "unreadable", "adapter raises", "regex raises"} :
       /\ outcome = "adapter raises" => HasAdapter(f, Adapted)
       /\ LET asts    == IF outcome \in {"unreadable", "adapter raises"} THEN {}
                         ELSE AstFindings(f, Adapted)
              regexes == IF outcome \in {"unreadable", "regex raises"} THEN {}
                         ELSE RegexFindings(f)
          IN  findings' = findings \cup {Finding(f.path, f.marks[i], "weak_crypto") :
                                           i \in Merged(f.marks, asts, regexes)}
       /\ errors' = (errors \/ outcome # "ok")
       /\ unread' = IF outcome = "ok" THEN unread ELSE unread \cup {f.path}
  /\ UNCHANGED <<config, tree, phase, targets, cbom, sarif, result>>

StaticDone ==
  /\ phase = "static"
  /\ todo = {}
  /\ todo' = IF config.secrets THEN targets ELSE {}
  /\ GoTo("secrets")
  /\ UNCHANGED <<config, tree, targets, findings, errors, unread, cbom, sarif>>

\* The secret scanner reads every file again, and skips one it cannot read.
ScanSecrets(f) ==
  /\ phase = "secrets"
  /\ f \in todo
  /\ todo' = todo \ {f}
  /\ \/ /\ findings' = findings \cup {Finding(f.path, m, "hardcoded_key") : m \in SecretCandidates(f)}
        /\ UNCHANGED unread
     \/ /\ unread' = unread \cup {f.path}
        /\ UNCHANGED findings
  /\ UNCHANGED <<config, tree, phase, targets, errors, cbom, sarif, result>>

\* A manifest or a container file: what is found, or a warning in the log when
\* it cannot be read or parsed.
Inspect(wanted, file, type) ==
  LET read == wanted /\ file.exists /\ file.parses
  IN  /\ findings' = findings \cup
                     (IF read THEN {Finding(file.path, m, type) : m \in file.marks} ELSE {})
      /\ unread' = IF wanted /\ file.exists /\ ~file.parses THEN unread \cup {file.path} ELSE unread

ScanDependencies ==
  /\ phase = "secrets"
  /\ todo = {}
  /\ Inspect(config.deps, tree.manifest, "weak_dependency")
  /\ GoTo("container")
  /\ UNCHANGED <<config, tree, todo, targets, errors, cbom, sarif>>

ScanContainerTarget ==
  /\ phase = "container"
  /\ Inspect(config.container # "none", tree.dockerfile, "container_weakness")
  /\ GoTo("enrich")
  /\ UNCHANGED <<config, tree, todo, targets, errors, cbom, sarif>>

-----------------------------------------------------------------------------
(* Suppressions and reports *)

\* What DeveloperFeedbackGenerator.generate sees of a finding's file: nothing
\* if it cannot be read.
Silenced(finding, lost) ==
  \E f \in tree.files :
    /\ f.path = finding.path
    /\ f.path \notin lost
    /\ CheckInlineSuppression(f.comments, finding)

Paths == {f.path : f \in tree.files}

Enrich ==
  /\ phase = "enrich"
  /\ \E lost \in SUBSET Paths :
       findings' = {[f EXCEPT !.suppressed = Silenced(f, lost)] : f \in findings}
  /\ GoTo("cbom")
  /\ UNCHANGED <<config, tree, todo, targets, errors, unread, cbom, sarif>>

WriteCbom ==
  /\ phase = "cbom"
  /\ \/ /\ cbom' = IF config.cbom
                   THEN [written |-> TRUE,
                         components |-> {<<f.path, f.line, f.algorithm>> : f \in findings}]
                   ELSE NoFile
        /\ UNCHANGED errors
     \/ /\ config.cbom
        /\ errors' = TRUE
        /\ UNCHANGED cbom
  /\ GoTo("sarif")
  /\ UNCHANGED <<config, tree, todo, targets, findings, unread, sarif>>

\* generate_and_validate and write_sarif refuse a report that is not valid.
WriteSarif ==
  /\ phase = "sarif"
  /\ IF ~config.sarif THEN UNCHANGED <<errors, sarif>>
     ELSE \E lost \in SUBSET Paths, writable \in BOOLEAN :
            LET report == Generate(findings, {f \in findings : Silenced(f, lost)})
            IN  IF writable /\ Valid(report)
                THEN sarif' = [written |-> TRUE, results |-> report.results] /\ UNCHANGED errors
                ELSE errors' = TRUE /\ UNCHANGED sarif
  /\ GoTo("gate")
  /\ UNCHANGED <<config, tree, todo, targets, findings, unread, cbom>>

-----------------------------------------------------------------------------
(* The gate *)

\* A finding carries no id, size or category of its own for the policy.
AsAsset(f) == [id |-> "asset-unknown", algorithm |-> f.algorithm, bits |-> NoBits,
               faults |-> {}, environment |-> NoName, pqcType |-> "none"]

PolicyWanted == config.failOn = "policy" \/ config.policy # NoPolicy
PolicyUsed   == IF config.policy = NoPolicy THEN DefaultPolicy ELSE config.policy.document

PolicyVerdict ==
  Evaluate(PolicyUsed, {AsAsset(f) : f \in findings}, NoName, Now, FALSE).verdict

SeverityRank(severity) ==
  CASE severity = "critical" -> 2 [] severity = "high" -> 1 [] OTHER -> 0

Threshold == IF config.failOn = "critical" THEN 2 ELSE 1

Violating(f) == ~f.suppressed /\ SeverityRank(f.severity) >= Threshold

\* The policy judges every finding, the threshold only those not suppressed,
\* and only when the policy has passed.
Gate ==
  /\ phase = "gate"
  /\ IF errors THEN Finish(SCANNER_ERROR, "SCANNER_ERROR")
     ELSE IF PolicyWanted /\ ~ValidPolicy(PolicyUsed) THEN Finish(SCANNER_ERROR, "ERROR")
     ELSE LET verdict == IF PolicyWanted THEN PolicyVerdict ELSE "ALLOW"
              blocked == verdict = "BLOCK" \/ (verdict = "WARN" /\ config.failOnWarn)
              severe  == /\ config.failOn \in {"critical", "high"}
                         /\ \E f \in findings : Violating(f)
          IN  IF blocked THEN Finish(POLICY_SECURITY_FAILURE, verdict)
              ELSE IF severe THEN Finish(POLICY_SECURITY_FAILURE, "BLOCK")
              ELSE Finish(PASS, verdict)
  /\ UNCHANGED <<config, tree, todo, targets, findings, errors, unread, cbom, sarif>>

-----------------------------------------------------------------------------
CiInit ==
  /\ config \in Configs
  /\ tree \in Trees
  /\ phase = "start"
  /\ todo = {} /\ targets = {} /\ findings = {} /\ unread = {}
  /\ errors = FALSE
  /\ cbom = NoFile /\ sarif = NoFile
  /\ result = NoResult

CiNext ==
  \/ ValidateConfig \/ SelectTargets
  \/ \E f \in todo : ScanFile(f) \/ ScanSecrets(f)
  \/ StaticDone \/ ScanDependencies \/ ScanContainerTarget
  \/ Enrich \/ WriteCbom \/ WriteSarif \/ Gate

CiSpec == CiInit /\ [][CiNext]_ciVars

-----------------------------------------------------------------------------
(* Properties *)

CiTypeOK ==
  /\ phase \in {"start", "select", "static", "secrets", "container", "enrich", "cbom",
                "sarif", "gate", "done"}
  /\ todo \subseteq targets /\ targets \subseteq tree.files
  /\ errors \in BOOLEAN
  /\ \A f \in findings : f.suppressed \in BOOLEAN
  /\ result # NoResult <=> phase = "done"
  /\ result.exit \in {-1, PASS, POLICY_SECURITY_FAILURE, SCANNER_ERROR, INVALID_CONFIG}

\* A mark of a file is among the findings, silenced or not.
Reported(file, mark) ==
  \E g \in findings : [g EXCEPT !.suppressed = FALSE] = Finding(file.path, mark, "weak_crypto")

\* A run that passes a severity threshold has looked at every file it
\* selected: whatever a detector matches at or above the threshold is silenced
\* by a comment at that place, or another match of the same algorithm on the
\* same line is reported for it, or it lies beyond the cap on a file's findings.
CleanMeansLooked ==
  result.exit = PASS /\ config.failOn \in {"critical", "high"} =>
    \A f \in targets : \A i \in AstFindings(f, Adapted) \cup RegexFindings(f) :
      \/ SeverityRank(f.marks[i].severity) < Threshold
      \/ CheckInlineSuppression(f.comments, Finding(f.path, f.marks[i], "weak_crypto"))
      \/ \E j \in DOMAIN f.marks \ {i} :
           SameKey(f.marks[i], f.marks[j]) /\ Reported(f, f.marks[j])

\* A gate that decides has the reports that were asked for, and they name
\* every finding: none is left out because it is suppressed, and no failure to
\* write one is passed over.
VerdictHasItsReports ==
  result.exit \in {PASS, POLICY_SECURITY_FAILURE} /\ result.verdict # "exception" =>
    /\ ~errors
    /\ config.cbom => /\ cbom.written
                      /\ \A f \in findings : <<f.path, f.line, f.algorithm>> \in cbom.components
    /\ config.sarif => /\ sarif.written
                       /\ \A f \in findings : \E r \in sarif.results :
                            r.path = f.path /\ r.line = f.line /\ r.rule = f.rule

\* The report and the exit code agree: under the threshold "high" a run that
\* passes reports no result at level "error" that is not suppressed, although
\* report and gate judge severity and suppression each on their own.
NothingLoudPasses ==
  result.exit = PASS /\ config.failOn = "high" /\ sarif.written =>
    \A r \in sarif.results : r.level = "error" => r.suppressed

\* The stretches taken out of a text do not overlap, so that each replacement
\* finds its text in place, and no secret that is matched is left whole.
SecretsAreTakenOut ==
  \A f \in tree.files :
    /\ \A m, n \in Claimed(f.secrets) : m = n \/ ~Overlap(m, n)
    /\ f.secretive =>
         \A m \in ToSet(f.secrets) : ~m.ignorable => (m.first .. m.last) \cap Redacted(f) # {}

\* Doc claim of the module (CRITICAL INVARIANT): if a scanner fails, the exit
\* code is 2, and a failure is never taken for a clean result.
FailureIsExitTwo ==
  result.exit \in {PASS, POLICY_SECURITY_FAILURE} => unread = {}

\* A verdict is earned: what was selected was looked at, and the reports say what the
\* gate says and name all of it; and what was read lost its secrets.
VerdictIsEarned ==
  CiTypeOK /\ CleanMeansLooked /\ VerdictHasItsReports /\ NothingLoudPasses /\ SecretsAreTakenOut

===============================================================================
