---------------------------- MODULE CryptoInventory ----------------------------
(***************************************************************************)
(* The cryptographic inventory over time: code and endpoints change, one   *)
(* scanner or another writes its bill of materials, a bill is kept as the  *)
(* baseline, later ones are compared with it, rated, exported and held     *)
(* against the compliance catalog.                                         *)
(*                                                                         *)
(* static/main.py and ci_scanner.py read the code, network/main.py the     *)
(* endpoint, binary_container/main.py the binaries, the runtime and hybrid *)
(* analyzers one event or handshake; an operator may import a foreign      *)
(* document instead.  The order in which a scan meets its findings is      *)
(* free: workers finish in any order.                                      *)
(***************************************************************************)
EXTENDS CbomIO

CONSTANTS
    Places,         \* <<file, line>> pairs of the code
    Usages,         \* what a place may use: [type, algorithm, size], or Unused
    Unused,
    Postures,       \* what the endpoint may answer with, or Down
    Down,
    Binaries,       \* metadata of the binaries at hand
    Events,         \* runtime events
    Handshakes,     \* TLS handshakes
    Texts,          \* documents offered for import
    Catalog,        \* the compliance controls
    Profiles,       \* policy profiles
    Versions,       \* CycloneDX versions asked for
    MaxEdits        \* bound on changes of the world

ASSUME EditsAssumption == MaxEdits \in Nat
ASSUME PlacesAssumption == IsFiniteSet(Places) /\ \A p \in Places : p = <<p[1], p[2]>>
ASSUME CatalogAssumption == \A c, d \in Catalog : c.id = d.id => c = d

VARIABLES
    code,           \* code[p]: the usage at place p
    endpoint,       \* the posture of the endpoint
    edits,          \* changes of the world so far
    report,         \* the report on disk: its scanner, document and what was scanned
    baseline        \* the report kept for comparison

inventoryVars == <<code, endpoint, edits, report, baseline>>

NoReport == [scanner |-> "none", document |-> NoDocument, of |-> <<>>]

InventoryInit ==
    /\ code \in [Places -> {Unused}]
    /\ endpoint = Down
    /\ edits = 0
    /\ report = NoReport
    /\ baseline = NoReport

(***************************************************************************)
(* The world changes.                                                      *)
(***************************************************************************)
Edit ==
    /\ edits < MaxEdits
    /\ edits' = edits + 1
    /\ \E p \in Places, u \in Usages \cup {Unused} : code[p] # u /\ code' = [code EXCEPT ![p] = u]
    /\ UNCHANGED <<endpoint, report, baseline>>

Reconfigure ==
    /\ edits < MaxEdits
    /\ edits' = edits + 1
    /\ \E e \in Postures \cup {Down} : endpoint # e /\ endpoint' = e
    /\ UNCHANGED <<code, report, baseline>>

(***************************************************************************)
(* Scans.  A document the schema refuses ends the scan with an exception,  *)
(* before the report is written.                                           *)
(***************************************************************************)
Write(scanner, bom, version, of) ==
    /\ LET document == SerializeCbom(bom, version) IN
       /\ document # NoDocument
       /\ report' = [scanner |-> scanner, document |-> document, of |-> of]
    /\ UNCHANGED <<code, endpoint, edits, baseline>>

Used == {p \in Places : code[p] # Unused}

\* The order in which the findings arrive.
Orders == SetToSeqs(Used)

\* static/main.py names assets after their algorithm and hands on no key size.
BatchFinding(p) ==
    [ref |-> <<"code:algo", code[p].algorithm, code[p].size>>, type |-> code[p].type,
     algorithm |-> code[p].algorithm, size |-> 0, file |-> p[1], line |-> p[2]]

ScanBatch ==
    \E order \in Orders :
        Write("batch", CodeFindingsToCbom([i \in DOMAIN order |-> BatchFinding(order[i])]), "1.6", code)

\* ci_scanner.py names an asset after its place.
PlacedFinding(p) ==
    [BatchFinding(p) EXCEPT !.ref = <<"ci", p, code[p].algorithm>>]

ScanCi ==
    \E order \in Orders :
        Write("ci", MergeCboms([i \in DOMAIN order |-> CodeFindingToCbom(PlacedFinding(order[i]))]), "1.6", code)

\* A scan of an endpoint that is down writes nothing: the old report stays.
ScanNetwork ==
    /\ endpoint # Down
    /\ Write("network", MergeCboms(<<NetworkFindingToCbom(endpoint)>>), "1.6", endpoint)

ScanBinary ==
    \E found \in SUBSET Binaries :
        LET bom == MergeCboms(SetToSeq({IF b.kind = "package" THEN BinaryFindingToCbom(b)
                                        ELSE BinaryMetadataToCbom(b) : b \in found})) IN
        Write("binary", bom, "1.6", found)

Observe ==
    \E version \in Versions :
        \/ \E e \in Events : Write("runtime", RuntimeEventToCbom(e), version, e)
        \/ \E h \in Handshakes :
            Write("hybrid", HybridAnalysisToCbom(AnalyzeHandshake(h)), version, AnalyzeHandshake(h))

Import ==
    \E text \in Texts, version \in Versions :
        /\ ~ImportCbom(text).refused
        /\ Write("import", ImportCbom(text).bom, version, text)

KeepAsBaseline ==
    /\ report # NoReport
    /\ baseline # report
    /\ baseline' = report
    /\ UNCHANGED <<code, endpoint, edits, report>>

\* Scans of the code, and what is fed from elsewhere.  They write the same file, and
\* only reports of the code are ever compared with each other.
CodeNext == Edit \/ ScanBatch \/ ScanCi \/ KeepAsBaseline

FeedNext == Reconfigure \/ ScanNetwork \/ ScanBinary \/ Observe \/ Import \/ KeepAsBaseline

InventorySpec == InventoryInit /\ [][CodeNext \/ FeedNext]_inventoryVars

-------------------------------------------------------------------------------
Reported == report.document # NoDocument

OfCode(r) == r.scanner \in {"batch", "ci"}

Secret(usage) == usage.type \in {"hardcoded_secret", "synthetic_fixture"}

Kept(r, p) == r.of[p] # Unused /\ ~(r.scanner = "batch" /\ Secret(r.of[p]))

\* The reference a report of the code gives the use at a place, and the uses of one.
RefOf(r, p) ==
    IF r.scanner = "batch" THEN <<"code:algo", r.of[p].algorithm, r.of[p].size>>
    ELSE <<"ci", p, r.of[p].algorithm>>

UsesOf(r, ref) == {p \in Places : Kept(r, p) /\ RefOf(r, p) = ref}

InventoryTypeOK ==
    /\ code \in [Places -> Usages \cup {Unused}]
    /\ endpoint \in Postures \cup {Down}
    /\ edits \in 0 .. MaxEdits
    /\ {report.scanner, baseline.scanner} \subseteq
         {"none", "batch", "ci", "network", "binary", "runtime", "hybrid", "import"}
    /\ \A r \in {report, baseline} : r = NoReport \/ r.document # NoDocument

\* Whatever order its findings arrive in and however they are merged, a report of
\* the code places every usage it was to list under its algorithm.
EveryUsageIsPlaced ==
    OfCode(report) =>
        \A p \in Places : Kept(report, p) =>
            \E c \in report.document.bom.components :
                /\ c.kind # "file"
                /\ c.algorithm = report.of[p].algorithm
                /\ p \in c.at

\* Two scans of the same code by the same scanner, batch or CI, compare as unchanged
\* whatever the order of their findings.  Otherwise exactly the assets that came are new,
\* exactly those that went are removed, and of those that stay exactly the ones whose
\* first use moved to another file are changed.
DiffIsExact ==
    (OfCode(report) /\ OfCode(baseline)) =>
        LET diff == DiffCboms(baseline.document.bom, report.document.bom, "internal_enterprise")
            Refs(r) == {RefOf(r, p) : p \in {q \in Places : Kept(r, q)}}
            Asset(ref) == ref[1] \in {"code:algo", "ci"}
            FileIn(r, ref) == First(UsesOf(r, ref))[1]
        IN  /\ (baseline.of = report.of /\ baseline.scanner = report.scanner) =>
                  \A ref \in DOMAIN diff : diff[ref] = "UNCHANGED"
            /\ {ref \in DOMAIN diff : Asset(ref) /\ diff[ref] = "NEW"} = Refs(report) \ Refs(baseline)
            /\ {ref \in DOMAIN diff : Asset(ref) /\ diff[ref] = "REMOVED"} = Refs(baseline) \ Refs(report)
            /\ \A ref \in Refs(report) \cap Refs(baseline) :
                  diff[ref] = IF FileIn(report, ref) = FileIn(baseline, ref) THEN "UNCHANGED" ELSE "CHANGED"

\* What is rated high or critical violates every policy profile and is an error in
\* the SARIF export and a violation in the CSV one: no profile's own rule takes the place
\* of the common one.
HighRiskNeverComplies ==
    Reported =>
        \A profile \in Profiles :
            \A a \in HighRisk(CorrelateCbom(report.document.bom, profile)) :
                /\ a.policy = "VIOLATION"
                /\ \E r \in ExportCbom(report.document.bom, "sarif", "1.6").results :
                     r.ref = a.ref /\ r.level = "error"
                /\ \E row \in ExportCbom(report.document.bom, "csv", "1.6").rows :
                     row.ref = a.ref /\ row.policy = "VIOLATION"

\* What the mapper reads of a component: its name; the key size, the protocol and
\* the rest sit in properties it does not look at.
AsAsset(c) ==
    [name |-> Seen(c.algorithm), size |-> 0, protocol |-> NoProtocol, selfSigned |-> FALSE,
     pqc |-> FALSE, secret |-> FALSE, ref |-> c.ref]

\* A control is compliant only on evidence, and never over code that uses an algorithm
\* it prohibits by name.  Of key lengths it says nothing: see CompliantMeansLongEnough.
ComplianceIsEarned ==
    OfCode(report) =>
        LET assets == {AsAsset(c) : c \in report.document.bom.components}
            result == AssessCompliance(Catalog, {}, assets)
        IN  \A a \in result.controls : a.compliant =>
                /\ \E p \in Places : Kept(report, p)
                /\ \A p \in Places, control \in Catalog :
                     (control.id = a.control /\ Kept(report, p)) =>
                         Seen(report.of[p].algorithm).parts \cap control.prohibited = {}

\* What compliance_mapping.py:13 says of a supported control, that it is "Fully validated
\* by automated discovery with technical evidence", would take this: a compliant control
\* is not contradicted by an RSA key shorter than its minimum.  It does not hold, for the
\* sizes sit where the mapper does not look: RSA-1024 is compliant with a minimum of 2048.
CompliantMeansLongEnough ==
    OfCode(report) =>
        LET assets == {AsAsset(c) : c \in report.document.bom.components}
        IN  \A a \in AssessCompliance(Catalog, {}, assets).controls, control \in Catalog :
              (a.compliant /\ control.id = a.control) =>
                  \A p \in Places : Kept(report, p) =>
                      ~BelowMinimum([name |-> Seen(report.of[p].algorithm), size |-> report.of[p].size],
                                    {"rsa"}, control.minRsa)

\* A deployment is called ready only for an algorithm that resists quantum attacks and
\* on evidence that it is used.  What a handshake's report claims of its key exchange, that
\* recorded traffic stays safe and what it is combined of, the catalog says of the very
\* algorithm that the report names, and its parts hang below it in the document.
ReadinessIsEarned ==
    Reported =>
        /\ \A c \in report.document.bom.components, evidence \in SUBSET {"dependency", "imported", "runtime", "configured"} :
             LET class == ClassOf(c.algorithm, c.size) IN
             Readiness(class, evidence).status = "PQC_READY" =>
                /\ class \in {"quantum-resistant", "hybrid"}
                /\ evidence \ {"dependency"} # {}
        /\ (report.scanner = "hybrid" /\ (report.of.harvest \/ report.of.parts # {})) =>
             \E id \in DOMAIN PqcCatalog :
                /\ PqcCatalog[id].name = report.of.group
                /\ report.of.harvest => PqcCatalog[id].harvest
                /\ report.of.parts # {} => PqcCatalog[id].category = "hybrid" /\ PqcCatalog[id].parts = report.of.parts
        /\ report.scanner = "hybrid" =>
             \A part \in report.of.parts : \E c, d \in report.document.bom.components :
                /\ c.algorithm = report.of.group /\ d.algorithm = part
                /\ <<c.ref, d.ref>> \in report.document.bom.dependencies

\* Every report of the code is complete and two of them compare exactly.
DiffTellsWhatChanged == InventoryTypeOK /\ EveryUsageIsPlaced /\ DiffIsExact

\* High risk is told by every path that tells a rating, compliance is never stated without
\* evidence or over a prohibited algorithm, and readiness is the classifier's and catalog's.
InventoryRatingsAreEarned == HighRiskNeverComplies /\ ComplianceIsEarned /\ ReadinessIsEarned

===============================================================================
