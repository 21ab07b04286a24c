------------------------- MODULE RemediationLifecycle -------------------------
(***************************************************************************)
(* Remediation in the Python tools.  The code is scanned, the findings     *)
(* give the agility score and the roadmap (CryptoAgility); a change is     *)
(* proposed and approved, which is the engine of this module; the patch    *)
(* tool writes it (PatchGenerator), and a new scan tells what is left.     *)
(*                                                                         *)
(* The approval engine keeps its proposals in memory, each with its audit  *)
(* history.  A category is the set of keywords its text contains; an actor *)
(* has a user name and the role it states.                                 *)
(***************************************************************************)
EXTENDS PatchGenerator, CryptoAgility

CONSTANTS
    TestFiles,      \* the files whose path names a test
    Declared,       \* the signals the architecture declares
    Weights,        \* weightings of the agility dimensions
    Contexts        \* what else a classification may say of an asset

CONSTANTS
    Ids,            \* approval ids
    Categories,     \* categories proposed: sets of keywords
    Environments,   \* environments
    Actors,         \* [username, role] records
    Folded,         \* a user name in lower case
    MaxHistory      \* bound on the steps of a proposal

VARIABLE approvals  \* approvals[i]: the record, or NoRecord

NoRecord == [state |-> "NONE"]

Sensitive ==
    {"KEY_CERT_ROTATION", "PROD_CONFIG_CHANGE", "ALGORITHM_MIGRATION", "DEPENDENCY_UPGRADE",
     "NETWORK_CHANGE", "INFRASTRUCTURE_CHANGE"}

\* The keywords, in the order they are looked for; a production configuration change
\* takes two of them.
NormalizeCategory(words) ==
    LET Row(category, keywords, least) == [category |-> category, keywords |-> keywords, least |-> least]
        Rows == << Row("KEY_CERT_ROTATION", {"KEY", "CERT", "ROTATION", "RENEWAL"}, 1),
                   Row("PROD_CONFIG_CHANGE", {"PROD", "CONFIG"}, 2),
                   Row("ALGORITHM_MIGRATION", {"ALGORITHM", "MIGRATION", "PQC", "CRYPTO_UPGRADE"}, 1),
                   Row("DEPENDENCY_UPGRADE", {"DEPENDENCY", "LIBRARY", "PACKAGE"}, 1),
                   Row("NETWORK_CHANGE", {"NETWORK", "TLS", "CIPHER_SUITE", "INGRESS", "GATEWAY"}, 1),
                   Row("INFRASTRUCTURE_CHANGE", {"INFRASTRUCTURE", "CLUSTER", "SERVER", "HOST"}, 1) >>
        Fits(row) == Cardinality(words \cap row.keywords) >= row.least
        first == SelectInSeq(Rows, Fits)
    IN  IF first = 0 THEN "OTHER" ELSE Rows[first].category

RequiresExplicitApproval(words, environment) ==
    \/ NormalizeCategory(words) \in Sensitive
    \/ environment = "production" /\ "CONFIG" \in words

InState(i, states) == approvals[i].state \in states

\* A step of a record: its state and its history move together.
Move(i, record, state) ==
    approvals' = [approvals EXCEPT ![i] = [record EXCEPT !.state = state, !.history = Append(@, state)]]

ApprovalInit == approvals = [i \in Ids |-> NoRecord]

\* A proposal under an id in use replaces the record, its history included.
ProposeRemediation(i, category, environment, proposer) ==
    approvals' = [approvals EXCEPT ![i] =
        [state |-> "PROPOSED", category |-> NormalizeCategory(category),
         explicit |-> RequiresExplicitApproval(category, environment),
         proposer |-> proposer.username, approver |-> "none", history |-> <<"PROPOSED">>]]

ReviewRemediation(i) ==
    /\ InState(i, {"PROPOSED"})
    /\ Move(i, approvals[i], "REVIEWED")

\* Mutation: names are compared as they are written.
ApproveRemediationAsWritten(i, approver) ==
    /\ InState(i, {"REVIEWED"})
    /\ approvals[i].proposer # approver.username
    /\ approver.role \in {"admin", "security_lead", "ciso", "secops"}
    /\ Move(i, [approvals[i] EXCEPT !.approver = approver.username], "APPROVED")

ApproveRemediation(i, approver) ==
    /\ InState(i, {"REVIEWED"})
    /\ Folded[approvals[i].proposer] # Folded[approver.username]
    /\ approver.role \in {"admin", "security_lead", "ciso", "secops"}
    /\ Move(i, [approvals[i] EXCEPT !.approver = approver.username], "APPROVED")

ApplyRemediation(i) ==
    /\ InState(i, {"APPROVED", "REVIEWED", "PROPOSED"})
    /\ approvals[i].explicit => InState(i, {"APPROVED"})
    /\ Move(i, approvals[i], "APPLIED")

\* Marks a record in any state as failed.
FailRemediation(i) ==
    /\ ~InState(i, {"NONE"})
    /\ Len(approvals[i].history) < MaxHistory
    /\ Move(i, approvals[i], "FAILED")

\* Results that are missing or empty count as both checks passed.
VerifyRemediation(i, given, passed) ==
    /\ InState(i, {"APPLIED"})
    /\ IF ~given \/ {"tests_passed", "finding_resolved"} \subseteq passed
         THEN Move(i, approvals[i], "VERIFIED")
         ELSE FailRemediation(i)

RollbackRemediation(i) ==
    /\ InState(i, {"APPLIED", "APPROVED", "REVIEWED"})
    /\ Move(i, approvals[i], "ROLLED_BACK")

ApprovalNext ==
    \E i \in Ids :
        \/ \E c \in Categories, e \in Environments, a \in Actors : ProposeRemediation(i, c, e, a)
        \/ ReviewRemediation(i)
        \/ \E a \in Actors : ApproveRemediation(i, a)
        \/ ApplyRemediation(i)
        \/ \E given \in BOOLEAN, passed \in SUBSET {"tests_passed", "finding_resolved"} :
              VerifyRemediation(i, given, passed)
        \/ RollbackRemediation(i)
        \/ FailRemediation(i)

ApprovalSpec == ApprovalInit /\ [][ApprovalNext]_approvals

-------------------------------------------------------------------------------
(* What a scan reads from the files. *)

AlgorithmsOf(line) ==
    CASE line.form = "hashlib" -> {line.calls[c] : c \in DOMAIN line.calls}
      [] line.form \in {"import", "bare", "createHash", "unqualified", "cipher", "createCipheriv"} -> {line.name}
      [] line.form \in {"keygen", "modulus"} -> {"rsa"}
      [] line.form = "ssl_protocols" ->
           IF line.versions \cap {"SSLv3", "TLSv1", "TLSv1.1"} # {} THEN {"legacy protocol"} ELSE {"tls"}
      [] OTHER -> {}

PlacesOf(content, algorithm) ==
    UNION {{f} \X {i \in DOMAIN content[f] : algorithm \in AlgorithmsOf(content[f][i])} : f \in Files}

Found == {"md5", "sha1", "TripleDES", "rsa", "legacy protocol", "sha256", "AES", "tls"}

Findings(content) ==
    UNION {{[algorithm |-> a, place |-> p, literal |-> a # "legacy protocol", secret |-> FALSE,
             expired |-> FALSE, blast |-> 1] : p \in PlacesOf(content, a)} : a \in Found}

Agility(content, weights) == CalculateCryptoAgility(Declared, Findings(content), weights)

(***************************************************************************)
(* run_migration_planner.py takes one asset of each algorithm of interest. *)
(***************************************************************************)
ClassifyAsset(content, context, algorithm) ==
    LET places == PlacesOf(content, algorithm) IN
    [algorithm |-> algorithm, places |-> places,
     production |-> {p \in places : p[1] \notin TestFiles},
     reachable |-> context.reachable, public |-> context.public, consumers |-> context.consumers,
     severity |-> context.severity, confidence |-> context.confidence,
     oneCallSite |-> FALSE, sensitive |-> FALSE]

Interest == {"md5", "TripleDES", "rsa"}

Roadmap(content, context) ==
    GenerateRoadmap({ClassifyAsset(content, context, a) : a \in {x \in Interest : PlacesOf(content, x) # {}}})

-------------------------------------------------------------------------------
LifecycleTypeOK ==
    /\ \A i \in Ids : approvals[i] = NoRecord
         \/ (approvals[i].history[Len(approvals[i].history)] = approvals[i].state
             /\ approvals[i].proposer \in {a.username : a \in Actors})
    /\ DOMAIN files = Files
    /\ patching.phase \in {"idle", "generated", "safe", "writing"}

\* A change that needs approval is applied only right after its approval, by an
\* approver who is another person than the proposer, whose names differ by more than case;
\* any other change only while nobody turned it down.
AppliedWasApproved ==
    \A i \in Ids : approvals[i] # NoRecord =>
        \A k \in DOMAIN approvals[i].history : approvals[i].history[k] = "APPLIED" =>
            /\ approvals[i].history[k - 1] \in {"PROPOSED", "REVIEWED", "APPROVED"}
            /\ approvals[i].explicit =>
                 /\ SubSeq(approvals[i].history, 1, k - 1) = <<"PROPOSED", "REVIEWED", "APPROVED">>
                 /\ Folded[approvals[i].approver] # Folded[approvals[i].proposer]

\* A patch that passed the checks is final: patching what it writes changes nothing.
\* (A sha224 call inside a replaced call is the exception: the recheck does not know
\* it, see the README.)
SafePatchIsFinal ==
    patching.phase \in {"safe", "writing"} =>
        LET language == Language[patching.file]
            hidden == \E i \in DOMAIN patching.patched :
                        patching.patched[i].form = "hashlib"
                        /\ \E c \in DOMAIN patching.patched[i].calls : patching.patched[i].calls[c] = "sha224"
        IN  hidden \/ GeneratePatch(language, patching.patched) = patching.patched

PriorityOf(content, context, a) ==
    IF PlacesOf(content, a) = {} THEN -1 ELSE PriorityScore(ClassifyAsset(content, context, a))

\* Where a patch is written, the agility score is no lower than with the text it was made
\* from, and no algorithm of interest has a higher priority.  (What a size becomes neither
\* of them reads.)
PatchingHelps ==
    [][Apply /\ files'[patching.file] = patching.patched =>
         LET before == [files EXCEPT ![patching.file] = patching.read] IN
         /\ \A w \in Weights : Agility(files', w).score >= Agility(before, w).score
         /\ \A context \in Contexts, a \in Interest \cup {"sha1"} :
              PriorityOf(files', context, a) <= PriorityOf(before, context, a)]_patchVars

\* An asset of critical or high priority is in a phase of the roadmap, unless it is
\* critical and spread over too many files, which no phase takes.
UrgentIsPlanned ==
    \A context \in Contexts :
        LET roadmap == Roadmap(files, context) IN
        \A e \in roadmap.entries :
            e.priority \in {"critical", "high"} /\ ~(e.priority = "critical" /\ e.complexity = "high")
                => e.algorithm \in UNION {roadmap.phases[p] : p \in {1, 2, 5}}

\* What the patch tool calls safe is final, and what the planner calls urgent is planned,
\* each with the exception its part names.
PlansAndPatchesHold == LifecycleTypeOK /\ SafePatchIsFinal /\ UrgentIsPlanned

===============================================================================
