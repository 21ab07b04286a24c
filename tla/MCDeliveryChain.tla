---------------------------- MODULE MCDeliveryChain ----------------------------
(***************************************************************************)
(* From policy to release: policies that are kept and decided              *)
(* (PolicyGovernance), the CI run that judges by one (CIScan), and the     *)
(* release that is built, signed and qualified (ReleasePipeline).  The     *)
(* three run as separate programs and share no state, so that no property  *)
(* could tell their interleavings apart: a behaviour exercises one of      *)
(* them, its workload.                                                     *)
(***************************************************************************)
EXTENDS PolicyGovernance, CIScan, ReleasePipeline

VARIABLE workload

vars == <<workload, governanceVars, ciVars, releaseVars>>

AnyOf(S) == CHOOSE x \in S : TRUE

\* What a part begins with matters to its own workload alone.
Init ==
  /\ workload \in {"governance", "ci", "release"}
  /\ GovernanceInit
  /\ CiInit /\ (workload # "ci" => config = AnyOf(Configs) /\ tree = AnyOf(Trees))
  /\ ReleaseInit /\ (workload # "release" => source = AnyOf(Sources) /\ keyring = AnyOf(Keyrings))

Next ==
  /\ UNCHANGED workload
  /\ \/ workload = "governance" /\ GovernanceNext /\ UNCHANGED <<ciVars, releaseVars>>
     \/ workload = "ci" /\ CiNext /\ UNCHANGED <<governanceVars, releaseVars>>
     \/ workload = "release" /\ ReleaseNext /\ UNCHANGED <<governanceVars, ciVars>>

Spec == Init /\ [][Next]_vars

MCSubstrings == {<<"RSA-1024", "RSA">>, <<"AES-256-GCM", "AES-256">>, <<"nonprod", "prod">>,
                 <<"production", "prod">>, <<"MD5-RULE", "MD5">>, <<"3DES", "DES">>}

(***************************************************************************)
(* Two administrators, two versions, two documents.  One document has a    *)
(* rule that warns first and blocks later and two exceptions to it, of     *)
(* which the first lapses while the second is in force; the other blocks   *)
(* from the start, with an exception whose scope, "prod", is contained in  *)
(* the name of an environment it does not mean.                            *)
(***************************************************************************)
MCResistant == {"AES-256"}

Rule(id, action, deprecation, enforcement) ==
  [id |-> id, environments |-> {}, prohibited |-> {}, allowed |-> {},
   requireResistant |-> TRUE, requireHybrid |-> FALSE, minBits |-> 2048,
   forbids |-> {"certificate"}, action |-> action,
   deprecation |-> deprecation, enforcement |-> enforcement]

Exception(number, rule, environments, status, from, until) ==
  [number |-> number, rule |-> rule, asset |-> "*", environments |-> environments,
   status |-> status, from |-> from, until |-> until]

Dated ==
  [id |-> "dated",
   rules |-> {Rule("r1", "WARN", 2, 3),
              [Rule("r2", "BLOCK", NoDate, NoDate) EXCEPT !.prohibited = {"RSA"},
                                                          !.environments = {"nonprod"}]},
   exceptions |-> {Exception(1, "r2", {}, "APPROVED", 1, 1),
                   Exception(2, "r2", {}, "APPROVED", 1, 3)}]

Strict ==
  [id |-> "strict",
   rules |-> {[Rule("r1", "BLOCK", NoDate, NoDate) EXCEPT !.allowed = {"AES-256"}]},
   exceptions |-> {Exception(1, "*", {"prod"}, "APPROVED", NoDate, 2),
                   Exception(2, "r1", {}, "PENDING", NoDate, NoDate)}]

MCDocuments == {Dated, Strict}

MCAssets ==
  {[id |-> "a1", algorithm |-> "RSA-1024", bits |-> 1024, faults |-> {},
    environment |-> "nonprod", pqcType |-> "none"],
   [id |-> "a2", algorithm |-> "AES-256-GCM", bits |-> NoBits, faults |-> {"protocol"},
    environment |-> NoName, pqcType |-> "none"]}

(***************************************************************************)
(* One tree of three files in scope and three that are not, scanned under  *)
(* full, listed and diff selections.  a.py has the same algorithm twice,   *)
(* once where a comment silences it; b.c is found by regular expressions   *)
(* alone; k.env holds overlapping secrets.                                 *)
(***************************************************************************)
Mark(detector, line, rule, algorithm, severity) ==
  [detector |-> detector, line |-> line, rule |-> rule,
   algorithm |-> algorithm, severity |-> severity]

Secret(family, first, last, line) ==
  [family |-> family, first |-> first, last |-> last, line |-> line, type |-> "KEY",
   ignorable |-> FALSE, synthetic |-> FALSE, isAccess |-> FALSE]

Plain ==
  [path |-> "a.py", ext |-> ".py", depth |-> 1, inExcludedDir |-> FALSE,
   behindLink |-> FALSE, isLink |-> FALSE, inside |-> TRUE, reserved |-> FALSE,
   size |-> 1, accessible |-> TRUE, suspicious |-> TRUE, secretive |-> FALSE,
   comments |-> <<NoName, NoName, NoName, NoName>>, secrets |-> <<>>, marks |-> <<>>]

APy == [Plain EXCEPT
  !.comments = <<"MD5", NoName, NoName, NoName>>,
  !.marks = <<Mark("ast", 2, "R1", "MD5", "critical"), Mark("regex", 2, "MD5-RULE", "MD5", "high"),
              Mark("regex", 4, "MD5-RULE", "MD5", "high")>>]

BC == [Plain EXCEPT
  !.path = "b.c", !.ext = ".c", !.comments = <<NoName, "3DES", NoName, NoName>>,
  !.marks = <<Mark("regex", 2, "R2", "DES", "critical"), Mark("regex", 4, "R2", "DES", "medium"),
              Mark("regex", 4, "R3", "ECB", "critical")>>]

KEnv == [Plain EXCEPT
  !.path = "k.env", !.ext = ".env", !.secretive = TRUE,
  !.secrets = <<Secret(Pem, 1, 4, 1), [Secret(Generic, 9, 9, 4) EXCEPT !.ignorable = TRUE],
                [Secret(Token, 3, 6, 2) EXCEPT !.isAccess = TRUE], Secret(Assigned, 6, 8, 3),
                [Secret(Entropic, 9, 9, 4) EXCEPT !.synthetic = TRUE]>>]

OutOfScope == {[Plain EXCEPT !.path = "deep.py", !.depth = 9],
               [Plain EXCEPT !.path = "big.py", !.size = 9],
               [Plain EXCEPT !.path = "../out.py", !.inside = FALSE],
               [Plain EXCEPT !.path = "dist/x.py", !.inExcludedDir = TRUE]}

Weak(path, algorithm, parses) ==
  [path |-> path, exists |-> TRUE, parses |-> parses,
   marks |-> {Mark("sca", 1, "DEP", algorithm, "informational")}]

Tree(files, manifest, dockerfile) == [files |-> files, manifest |-> manifest, dockerfile |-> dockerfile]

MCTrees ==
  {Tree({APy, BC} \cup OutOfScope, Weak("package.json", "ursa", TRUE), Weak("Dockerfile", "alpine", FALSE)),
   Tree({KEnv, [BC EXCEPT !.suspicious = FALSE]} \cup OutOfScope,
        Weak("package.json", "md5", FALSE), [Weak("Dockerfile", "alpine", TRUE) EXCEPT !.exists = FALSE])}

CiRule(action) ==
  [id |-> "r1", environments |-> {}, prohibited |-> {"DES"}, allowed |-> {},
   requireResistant |-> FALSE, requireHybrid |-> FALSE, minBits |-> NoBits, forbids |-> {},
   action |-> action, deprecation |-> NoDate, enforcement |-> NoDate]

MCDefaultPolicy == [id |-> "default", rules |-> {CiRule("BLOCK")}, exceptions |-> {}]
Warning == [json |-> TRUE, document |-> [id |-> "warning", rules |-> {CiRule("WARN")}, exceptions |-> {}]]
Broken  == [json |-> TRUE, document |-> [id |-> "broken", rules |-> {}]]
NotJson == [json |-> FALSE, document |-> [id |-> "text"]]

Base ==
  [targetIsDir |-> TRUE, mode |-> "full", git |-> "ok", changed |-> {}, includeExt |-> {".py", ".c", ".env"},
   maxSize |-> 5, maxFiles |-> 10, failOn |-> "critical", failOnWarn |-> FALSE, policy |-> NoPolicy,
   secrets |-> TRUE, deps |-> TRUE, container |-> "auto", cbom |-> TRUE, sarif |-> TRUE]

Listed == [Base EXCEPT !.mode = "listed", !.changed = {"a.py", "big.py"}]

MCConfigs ==
  {[Base EXCEPT !.failOn = t, !.sarif = s] : t \in {"none", "critical", "high", "policy", "low"}, s \in BOOLEAN}
  \cup {[Base EXCEPT !.policy = p, !.failOnWarn = w] : p \in {Warning, Broken, NotJson}, w \in BOOLEAN}
  \cup {[Base EXCEPT !.maxFiles = 1, !.failOn = "high"], [Base EXCEPT !.container = "Dockerfile.ci"],
        [Base EXCEPT !.targetIsDir = FALSE], [Base EXCEPT !.includeExt = {".env"}, !.failOn = "high"]}
  \cup {[Listed EXCEPT !.secrets = FALSE, !.failOn = "high"], [Listed EXCEPT !.changed = {"../out.py"}],
        [Listed EXCEPT !.deps = FALSE, !.container = "none", !.cbom = FALSE, !.changed = {"k.env"}]}
  \cup {[Listed EXCEPT !.mode = "diff", !.git = g] : g \in {"ok", "not a repository", "diff failed", "rejected"}}

(***************************************************************************)
(* One tree whose Python and nested npm packages get an advisory each, one *)
(* whose rules do not parse and whose frontend lock is malformed; runs     *)
(* with the release key in a step, in a file, with another key, with none. *)
(***************************************************************************)
Advisory(id, package, eco, label, cvss, npm) ==
  [id |-> id, package |-> <<package>>, eco |-> eco, versions |-> {"1"}, label |-> label,
   cvss |-> cvss, npm |-> npm, order |-> 1]

MCAdvisories ==
  {Advisory("A1", "asn", "pypi", NoLabel, "unchanged scope, all high", "INFO"),
   Advisory("A2", "qs", "npm", NoLabel, "none", "HIGH")}

Lock(paths) == [exists |-> TRUE, parses |-> TRUE, paths |-> {[path |-> p, version |-> "1"] : p \in paths}]

MCRules ==
  [policyParses |-> TRUE, acceptancesParse |-> TRUE, overridesParse |-> TRUE,
   acceptances |-> <<[finding |-> "A2", package |-> "express", until |-> 1],
                     [finding |-> "other", package |-> "qs", until |-> 0]>>,
   overrides |-> <<[finding |-> "A1", package |-> "asn", base |-> "CRITICAL", lowered |-> "LOW",
                    justified |-> TRUE, signed |-> TRUE, until |-> 1, document |-> "d", digest |-> 7]>>,
   evidence |-> [d |-> 7]]

Bug == [written |-> {"root_cause", "fix", "threat_model_update"}, test |-> "t.py",
        testName |-> "test_bug", applicable |-> FALSE]

ReleaseTree ==
  [python |-> [direct |-> {"cryptography"}, requires |-> [cryptography |-> {"asn"}, asn |-> {}],
               installed |-> [cryptography |-> "1", asn |-> "1"]],
   requirements |-> [exists |-> TRUE, parses |-> TRUE, packages |-> {}],
   backend |-> Lock({<<"express">>, <<"express", "qs">>}), frontend |-> Lock({}),
   rules |-> MCRules,
   regressions |-> [parses |-> TRUE, schemaHolds |-> TRUE, entries |-> {Bug}],
   tests |-> [x \in {"t.py"} |-> {"test_bug"}],
   files |-> {[name |-> "a.py", tooLarge |-> FALSE, readable |-> TRUE, secret |-> "synthetic"]},
   scannerExists |-> TRUE, listThroughShell |-> FALSE, documented |-> TRUE]

MCSources ==
  {ReleaseTree,
   [ReleaseTree EXCEPT !.rules.overrides[1].lowered = "NEGLIGIBLE"],
   [ReleaseTree EXCEPT !.rules.overridesParse = FALSE],
   [ReleaseTree EXCEPT !.frontend.parses = FALSE]}

Keys(step, file) == [step |-> step, file |-> file]

MCKeyrings == {Keys("release key", NoKey), Keys(NoKey, "release key"),
               Keys(NoKey, NoKey), Keys("other key", NoKey)}

MCSnapshot == [x \in {<<"asn">>} |-> {}]

================================================================================
