------------------------- MODULE CryptoLifecycleProofs -------------------------
(***************************************************************************)
(* Theorems about what is said of cryptography and done about it, for any  *)
(* people, names, sources and documents:                                   *)
(*   CryptoInventory       what a report says of a usage was found, rated   *)
(*                         and compared as the code was.                   *)
(*   DependencyReach       what is said of a dependency was seen, no        *)
(*                         evidence lowers it, and no affected version is  *)
(*                         left out.                                       *)
(*   RemediationLifecycle  what is applied was approved by someone else, a *)
(*                         patch is final and urgent assets are planned.   *)
(***************************************************************************)
EXTENDS CryptoLifecycle, FoldTheorems

-----------------------------------------------------------------------------
(* The inventory.  What a report says follows from what its scanner makes  *)
(* of what it looked at, so the invariant says only that: a report is what *)
(* some order of its findings comes to.                                    *)

UsedIn(of) == {p \in Places : of[p] # Unused}

BatchFindingIn(of, p) ==
  [ref |-> <<"code:algo", of[p].algorithm, of[p].size>>, type |-> of[p].type,
   algorithm |-> of[p].algorithm, size |-> 0, file |-> p[1], line |-> p[2]]

PlacedFindingIn(of, p) == [BatchFindingIn(of, p) EXCEPT !.ref = <<"ci", p, of[p].algorithm>>]

BatchBom(of, order) == CodeFindingsToCbom([i \in DOMAIN order |-> BatchFindingIn(of, order[i])])

CiBom(of, order) == MergeCboms([i \in DOMAIN order |-> CodeFindingToCbom(PlacedFindingIn(of, order[i]))])

\* The report holds this bill of materials.
Documents(r, bom, version) == r.document = SerializeCbom(bom, version) /\ r.document # NoDocument

Scanners == {"none", "batch", "ci", "network", "binary", "runtime", "hybrid", "import"}

IsBatch(r) == \E order \in SetToSeqs(UsedIn(r.of)) : Documents(r, BatchBom(r.of, order), "1.6")

IsCi(r) == \E order \in SetToSeqs(UsedIn(r.of)) : Documents(r, CiBom(r.of, order), "1.6")

IsHybrid(r) ==
  /\ \E h \in Handshakes : r.of = AnalyzeHandshake(h)
  /\ \E version \in Versions : Documents(r, HybridAnalysisToCbom(r.of), version)

GoodReport(r) ==
  /\ r.scanner \in Scanners
  /\ r = NoReport \/ r.document # NoDocument
  /\ r.scanner = "batch" => IsBatch(r)
  /\ r.scanner = "ci" => IsCi(r)
  /\ r.scanner = "hybrid" => IsHybrid(r)

InventoryInv ==
  /\ code \in [Places -> Usages \cup {Unused}]
  /\ endpoint \in Postures \cup {Down}
  /\ edits \in 0 .. MaxEdits
  /\ GoodReport(report)
  /\ GoodReport(baseline)

\* The findings of a scan of the code, as the code was then.
LEMMA FindingsOfTheScan ==
  ASSUME NEW order
  PROVE  /\ Used = UsedIn(code)
         /\ [i \in DOMAIN order |-> BatchFinding(order[i])]
              = [i \in DOMAIN order |-> BatchFindingIn(code, order[i])]
         /\ [i \in DOMAIN order |-> CodeFindingToCbom(PlacedFinding(order[i]))]
              = [i \in DOMAIN order |-> CodeFindingToCbom(PlacedFindingIn(code, order[i]))]
<1>1. \A p : BatchFinding(p) = BatchFindingIn(code, p)
  BY DEF BatchFinding, BatchFindingIn
<1>2. \A p : PlacedFinding(p) = PlacedFindingIn(code, p)
  BY <1>1 DEF PlacedFinding, PlacedFindingIn
<1>3. QED
  BY <1>1, <1>2 DEF Used, UsedIn

\* A report that a scan writes.
LEMMA WrittenReport ==
  ASSUME NEW scanner, NEW bom, NEW version, NEW of, Write(scanner, bom, version, of)
  PROVE  /\ report'.scanner = scanner /\ report'.of = of /\ Documents(report', bom, version)
         /\ UNCHANGED <<code, endpoint, edits, baseline>>
BY DEF Write, Documents

\* A scan keeps the invariant when its report is a good one.
LEMMA WriteKeeps ==
  ASSUME InventoryInv, NEW scanner \in Scanners, NEW bom, NEW version, NEW of,
         Write(scanner, bom, version, of),
         scanner = "batch" => IsBatch(report'), scanner = "ci" => IsCi(report'),
         scanner = "hybrid" => IsHybrid(report')
  PROVE  InventoryInv'
<1>1. /\ report'.scanner = scanner /\ report'.document # NoDocument
      /\ UNCHANGED <<code, endpoint, edits, baseline>>
  BY WrittenReport DEF Documents
<1>2. GoodReport(report')
  BY <1>1 DEF GoodReport
<1>3. QED
  BY <1>1, <1>2 DEF InventoryInv

\* The scanners of the code.
LEMMA CodeScanKeeps ==
  ASSUME InventoryInv, ScanBatch \/ ScanCi
  PROVE  InventoryInv'
<1>1. CASE ScanBatch
  <2>1. PICK order \in SetToSeqs(Used) : Write("batch", BatchBom(code, order), "1.6", code)
    BY <1>1, FindingsOfTheScan DEF ScanBatch, Orders, BatchBom
  <2>2. IsBatch(report')
    BY <2>1, WrittenReport, FindingsOfTheScan DEF IsBatch
  <2>3. QED
    BY <2>1, <2>2, WriteKeeps DEF Scanners
<1>2. CASE ScanCi
  <2>1. PICK order \in SetToSeqs(Used) : Write("ci", CiBom(code, order), "1.6", code)
    BY <1>2, FindingsOfTheScan DEF ScanCi, Orders, CiBom
  <2>2. IsCi(report')
    BY <2>1, WrittenReport, FindingsOfTheScan DEF IsCi
  <2>3. QED
    BY <2>1, <2>2, WriteKeeps DEF Scanners
<1>3. QED
  BY <1>1, <1>2

\* The other scanners, and an import.
LEMMA FeedKeeps ==
  ASSUME InventoryInv, ScanNetwork \/ ScanBinary \/ Observe \/ Import
  PROVE  InventoryInv'
<1>1. ASSUME NEW scanner \in {"network", "binary", "runtime", "import"}, NEW bom, NEW version, NEW of,
             Write(scanner, bom, version, of)
      PROVE  InventoryInv'
  BY <1>1, WriteKeeps DEF Scanners
<1>2. CASE ScanNetwork
  BY <1>1, <1>2 DEF ScanNetwork
<1>3. CASE ScanBinary
  BY <1>1, <1>3 DEF ScanBinary
<1>4. CASE Observe
  <2>1. PICK version \in Versions :
          \/ \E e \in Events : Write("runtime", RuntimeEventToCbom(e), version, e)
          \/ \E h \in Handshakes :
               Write("hybrid", HybridAnalysisToCbom(AnalyzeHandshake(h)), version, AnalyzeHandshake(h))
    BY <1>4 DEF Observe
  <2>2. ASSUME NEW h \in Handshakes,
               Write("hybrid", HybridAnalysisToCbom(AnalyzeHandshake(h)), version, AnalyzeHandshake(h))
        PROVE  InventoryInv'
    <3>1. IsHybrid(report')
      BY <2>2, WrittenReport DEF IsHybrid
    <3>2. QED
      BY <2>2, <3>1, WriteKeeps DEF Scanners
  <2>3. QED
    BY <1>1, <2>1, <2>2
<1>5. CASE Import
  BY <1>1, <1>5 DEF Import
<1>6. QED
  BY <1>2, <1>3, <1>4, <1>5

LEMMA InventoryInvHolds == InventorySpec => []InventoryInv
<1>1. InventoryInit => InventoryInv
  BY EditsAssumption DEF InventoryInit, InventoryInv, GoodReport, NoReport, Scanners
<1>2. InventoryInv /\ [CodeNext \/ FeedNext]_inventoryVars => InventoryInv'
  <2> SUFFICES ASSUME InventoryInv, [CodeNext \/ FeedNext]_inventoryVars PROVE InventoryInv'
    OBVIOUS
  <2>1. CASE Edit
    <3>1. /\ code' \in [Places -> Usages \cup {Unused}] /\ edits' \in 0 .. MaxEdits
          /\ UNCHANGED <<endpoint, report, baseline>>
      BY <2>1, EditsAssumption DEF Edit, InventoryInv
    <3>2. QED
      BY <3>1 DEF InventoryInv
  <2>2. CASE Reconfigure
    <3>1. /\ endpoint' \in Postures \cup {Down} /\ edits' \in 0 .. MaxEdits
          /\ UNCHANGED <<code, report, baseline>>
      BY <2>2, EditsAssumption DEF Reconfigure, InventoryInv
    <3>2. QED
      BY <3>1 DEF InventoryInv
  <2>3. CASE KeepAsBaseline
    BY <2>3 DEF KeepAsBaseline, InventoryInv
  <2>4. CASE UNCHANGED inventoryVars
    BY <2>4 DEF inventoryVars, InventoryInv
  <2>5. QED
    BY <2>1, <2>2, <2>3, <2>4, CodeScanKeeps, FeedKeeps DEF CodeNext, FeedNext
<1>3. QED
  BY <1>1, <1>2, PTL DEF InventorySpec

-----------------------------------------------------------------------------
(* Ratings. *)

\* What is rated high or critical is weak, so that no profile lets it pass.
LEMMA HighIsWeak ==
  ASSUME NEW name, NEW size, RiskLevel(name, size) \in {"HIGH", "CRITICAL"}
  PROVE  Weak(name, size)
<1>1. Has(name, {"md5", "des"}) => Broken(name)
  BY DEF Has, Broken
<1>2. CASE ShortRsa(name, size) \/ Has(name, {"md5", "des"})
  BY <1>1, <1>2 DEF Weak
<1>3. CASE Broken(name) /\ ~ShortRsa(name, size) /\ ~Has(name, {"md5", "des"})
  BY <1>3 DEF Weak
<1>4. CASE /\ ~(ShortRsa(name, size) \/ Has(name, {"md5", "des"}))
           /\ ~(Broken(name) /\ ~ShortRsa(name, size) /\ ~Has(name, {"md5", "des"}))
  <2>1. RiskLevel(name, size) \in {"MEDIUM", "LOW"}
    BY <1>4 DEF RiskLevel
  <2>2. QED
    BY <2>1
<1>5. QED
  BY <1>2, <1>3, <1>4

LEMMA RatingOf ==
  ASSUME NEW c, NEW profile, Rated(c, profile).risk \in {"HIGH", "CRITICAL"}
  PROVE  Rated(c, profile).policy = "VIOLATION"
<1>1. Rated(c, profile).risk = RiskLevel(Seen(c.algorithm), c.size)
  BY DEF Rated
<1>2. Weak(Seen(c.algorithm), c.size)
  BY <1>1, HighIsWeak
<1>3. PolicyStatus(Seen(c.algorithm), c.size, profile) = "VIOLATION"
  BY <1>2 DEF PolicyStatus
<1>4. QED
  BY <1>3 DEF Rated

\* What is high risk under one profile is an error and a violation in every export.
LEMMA HighRiskIsExported ==
  ASSUME NEW bom, NEW profile, NEW a \in HighRisk(CorrelateCbom(bom, profile))
  PROVE  /\ a.policy = "VIOLATION"
         /\ \E r \in ExportCbom(bom, "sarif", "1.6").results : r.ref = a.ref /\ r.level = "error"
         /\ \E row \in ExportCbom(bom, "csv", "1.6").rows : row.ref = a.ref /\ row.policy = "VIOLATION"
<1>1. PICK c \in NormalizeCbom(bom) : a = Rated(c, profile)
  BY DEF HighRisk, CorrelateCbom
<1>2. a.risk \in {"HIGH", "CRITICAL"}
  BY DEF HighRisk
<1> DEFINE b == Rated(c, "internal_enterprise")
<1>3. b.ref = a.ref /\ b.risk = a.risk
  BY <1>1 DEF Rated
<1>4. b.policy = "VIOLATION" /\ a.policy = "VIOLATION"
  BY <1>1, <1>2, <1>3, RatingOf
<1>5. b \in CorrelateCbom(bom, "internal_enterprise")
  BY DEF CorrelateCbom
<1> HIDE DEF b
<1>6. ExportCbom(bom, "csv", "1.6").rows = CorrelateCbom(bom, "internal_enterprise")
  BY DEF ExportCbom, CbomToCsv
<1>7. ExportCbom(bom, "sarif", "1.6").results = CbomToSarif(bom)
  BY DEF ExportCbom
<1>8. b \in HighRisk({b})
  BY <1>2, <1>3 DEF HighRisk
<1>9. [ref |-> b.ref, level |-> "error", rule |-> <<b.algorithm, b.risk>>] \in CbomToSarif(bom)
  <2>1. b \in {r \in CorrelateCbom(bom, "internal_enterprise") : r.risk # "LOW" \/ r.policy # "COMPLIANT"}
    BY <1>4, <1>5
  <2>2. (IF b \in HighRisk({b}) THEN "error" ELSE "warning") = "error"
    BY <1>8
  <2>3. QED
    BY <2>1, <2>2 DEF CbomToSarif
<1>10. QED
  BY <1>3, <1>4, <1>5, <1>6, <1>7, <1>9

\* No report rates anything high risk that some profile or export would let pass.
THEOREM HighRiskStaysOut == InventorySpec => []HighRiskNeverComplies
<1>1. HighRiskNeverComplies
  BY HighRiskIsExported DEF HighRiskNeverComplies
<1>2. QED
  BY <1>1, PTL

-----------------------------------------------------------------------------
(* Readiness. *)

LEMMA ReadyIsEarned ==
  ASSUME NEW class, NEW evidence, Readiness(class, evidence).status = "PQC_READY"
  PROVE  class \in {"quantum-resistant", "hybrid"} /\ evidence \ {"dependency"} # {}
<1> DEFINE secure == class \in {"quantum-resistant", "hybrid"}
<1>1. secure /\ evidence # {"dependency"}
      /\ ("runtime" \in evidence \/ "configured" \in evidence \/ "imported" \in evidence)
  BY DEF Readiness
<1>2. QED
  BY <1>1

\* What the analysis of a handshake claims is what the catalog has of the name it reports.
LEMMA ClaimsOfTheCatalog ==
  ASSUME NEW h
  PROVE  LET of == AnalyzeHandshake(h)
         IN  (of.harvest \/ of.parts # {}) =>
               \E id \in DOMAIN PqcCatalog :
                  /\ PqcCatalog[id].name = of.group
                  /\ of.harvest => PqcCatalog[id].harvest
                  /\ of.parts # {} => PqcCatalog[id].category = "hybrid" /\ PqcCatalog[id].parts = of.parts
<1> DEFINE entry == KeyExchange(h)
           of == AnalyzeHandshake(h)
<1>1. of.harvest = entry.harvest
      /\ of.parts = (IF entry.category = "hybrid" THEN entry.parts ELSE {})
      /\ of.group = (IF entry # NoEntry THEN entry.name ELSE h.group)
  BY DEF AnalyzeHandshake, BuildFirstClassRelationships
<1>2. entry = NoEntry \/ \E id \in DOMAIN PqcCatalog : entry = PqcCatalog[id]
  BY AliasAssumption DEF KeyExchange, Lookup
<1> HIDE DEF entry, of
<1>3. CASE entry = NoEntry
  BY <1>1, <1>3 DEF NoEntry, of
<1>4. CASE entry # NoEntry
  <2>1. PICK id \in DOMAIN PqcCatalog : entry = PqcCatalog[id]
    BY <1>2, <1>4
  <2>2. PqcCatalog[id].name = of.group
    BY <1>1, <1>4, <2>1
  <2>3. of.parts # {} => PqcCatalog[id].category = "hybrid" /\ PqcCatalog[id].parts = of.parts
    BY <1>1, <2>1
  <2>4. QED
    BY <1>1, <2>1, <2>2, <2>3 DEF of
<1>5. QED
  BY <1>3, <1>4

\* The parts of an exchange hang below it.
LEMMA PartsBelow ==
  ASSUME NEW of, NEW part \in of.parts
  PROVE  \E c, d \in HybridAnalysisToCbom(of).components :
           /\ c.algorithm = of.group /\ d.algorithm = part
           /\ <<c.ref, d.ref>> \in HybridAnalysisToCbom(of).dependencies
<1> DEFINE at == At(of.host)
           exchange == Carrier(<<"net:kex", of.group, of.host>>, "algorithm", of.group, 0, at)
           below == {Carrier(<<"net:subalgo", a, of.host>>, "algorithm", a, 0, at) : a \in of.parts}
                    \cup {Carrier(<<"net:combiner", c, of.host>>, "combiner", c, 0, at) : c \in of.combiners}
           host == Carrier(<<"net:endpoint", of.host>>, "application", of.host, 0, at)
           d == Carrier(<<"net:subalgo", part, of.host>>, "algorithm", part, 0, at)
<1>1. d \in below
  OBVIOUS
<1>2. exchange.algorithm = of.group /\ d.algorithm = part
  BY DEF Carrier
<1>3. HybridAnalysisToCbom(of) = Bom({host, exchange} \cup below,
                                     Edges(exchange.ref, below) \cup Edges(host.ref, {exchange}))
  BY DEF HybridAnalysisToCbom
<1> HIDE DEF exchange, below, host, d
<1>4. <<exchange.ref, d.ref>> \in Edges(exchange.ref, below)
  BY <1>1 DEF Edges
<1>5. /\ exchange \in HybridAnalysisToCbom(of).components /\ d \in HybridAnalysisToCbom(of).components
      /\ <<exchange.ref, d.ref>> \in HybridAnalysisToCbom(of).dependencies
  <2>1. /\ HybridAnalysisToCbom(of).components = {host, exchange} \cup below
        /\ HybridAnalysisToCbom(of).dependencies = Edges(exchange.ref, below) \cup Edges(host.ref, {exchange})
    BY <1>3 DEF Bom
  <2>2. QED
    BY <1>1, <1>4, <2>1
<1>6. QED
  BY <1>2, <1>5

\* The document of a report is the bill of materials that was serialised.
LEMMA DocumentHolds ==
  ASSUME NEW r, NEW bom, NEW version, Documents(r, bom, version)
  PROVE  r.document.bom = bom
<1> DEFINE families == {<<c.ref, Family(Seen(c.algorithm))>> : c \in {k \in bom.components : k.kind = "algorithm"}}
           document == [format |-> "CycloneDX", version |-> version, bom |-> bom,
                        families |-> IF version = "1.7" THEN {f \in families : f[2] # "none"} ELSE {}]
<1>1. r.document = IF ValidateCbom(document) THEN document ELSE NoDocument
  BY DEF Documents, SerializeCbom
<1>2. document.bom = bom
  OBVIOUS
<1> HIDE DEF document
<1>3. QED
  BY <1>1, <1>2 DEF Documents

\* What is called ready, safe from harvesting or a hybrid is called so on evidence.
THEOREM ReadinessHolds == InventorySpec => []ReadinessIsEarned
<1>1. InventoryInv => ReadinessIsEarned
  <2> SUFFICES ASSUME InventoryInv, Reported PROVE ReadinessIsEarned
    BY DEF ReadinessIsEarned
  <2>1. ASSUME report.scanner = "hybrid"
        PROVE  /\ \E h \in Handshakes : report.of = AnalyzeHandshake(h)
               /\ report.document.bom = HybridAnalysisToCbom(report.of)
    BY <2>1, DocumentHolds DEF InventoryInv, GoodReport, IsHybrid
  <2>2. ASSUME report.scanner = "hybrid", report.of.harvest \/ report.of.parts # {}
        PROVE  \E id \in DOMAIN PqcCatalog :
                 /\ PqcCatalog[id].name = report.of.group
                 /\ report.of.harvest => PqcCatalog[id].harvest
                 /\ report.of.parts # {} =>
                      PqcCatalog[id].category = "hybrid" /\ PqcCatalog[id].parts = report.of.parts
    <3>1. PICK h \in Handshakes : report.of = AnalyzeHandshake(h)
      BY <2>1, <2>2
    <3>2. QED
      BY <2>2, <3>1, ClaimsOfTheCatalog
  <2>3. ASSUME report.scanner = "hybrid", NEW part \in report.of.parts
        PROVE  \E c, d \in report.document.bom.components :
                 /\ c.algorithm = report.of.group /\ d.algorithm = part
                 /\ <<c.ref, d.ref>> \in report.document.bom.dependencies
    BY <2>1, <2>3, PartsBelow
  <2>4. QED
    BY <2>2, <2>3, ReadyIsEarned DEF ReadinessIsEarned
<1>2. QED
  BY <1>1, InventoryInvHolds, PTL

-----------------------------------------------------------------------------
(* Complete reports. *)

\* The orders of a finite set list all of it.
LEMMA OrderOfAll ==
  ASSUME NEW S, IsFiniteSet(S), NEW order \in SetToSeqs(S)
  PROVE  \E n \in Nat : /\ order \in [1..n -> S] /\ S = {order[i] : i \in 1..n}
                        /\ \A i, j \in 1..n : i # j => order[i] # order[j]
<1> DEFINE n == Cardinality(S)
<1>1. n \in Nat
  BY FS_CardinalityType
<1>2. order \in [1..n -> S] /\ \A i, j \in 1..n : i # j => order[i] # order[j]
  BY DEF SetToSeqs
<1>3. order \in Injection(1..n, S)
  BY <1>2 DEF Injection, IsInjective
<1>4. Cardinality(1..n) = n
  BY <1>1, FS_Interval
<1>5. order \in Surjection(1..n, S)
  BY <1>3, <1>4, FS_Injection
<1>6. S = {order[i] : i \in 1..n}
  BY <1>2, <1>5 DEF Surjection
<1> HIDE DEF n
<1>7. QED
  BY <1>1, <1>2, <1>6

LEMMA UsedIsFinite ==
  ASSUME NEW of
  PROVE  IsFiniteSet(UsedIn(of))
BY PlacesAssumption, FS_Subset DEF UsedIn

LEMMA LeastOfSet ==
  ASSUME NEW S \in SUBSET Nat, S # {}
  PROVE  Min(S) \in S
BY LeastOfSome DEF Min

KeptIn(of) == {p \in UsedIn(of) : ~Secret(of[p])}

AlgorithmRef(of, p) == <<"code:algo", of[p].algorithm, of[p].size>>

\* A component of a batch report: the file of a place that was kept, or the algorithm of
\* one, with all its places.
IsFileAt(of, p, c) ==
  /\ c.ref = <<"code:file", p[1]>> /\ c.kind = "file" /\ c.algorithm = p[1]
  /\ c.size = 0 /\ c.at = {}

IsAlgorithmAt(of, p, c) ==
  /\ c.ref = AlgorithmRef(of, p) /\ c.kind # "file" /\ c.algorithm = of[p].algorithm
  /\ c.size = 0 /\ c.at = {q \in KeptIn(of) : AlgorithmRef(of, q) = AlgorithmRef(of, p)}

LEMMA BatchComponents ==
  ASSUME NEW of, NEW order \in SetToSeqs(UsedIn(of))
  PROVE  /\ \A c \in BatchBom(of, order).components :
              \E p \in KeptIn(of) : IsFileAt(of, p, c) \/ IsAlgorithmAt(of, p, c)
         /\ \A p \in KeptIn(of) : \E c \in BatchBom(of, order).components : IsAlgorithmAt(of, p, c)
         /\ \A p \in KeptIn(of) : \E c \in BatchBom(of, order).components : IsFileAt(of, p, c)
<1>1. PICK n \in Nat : order \in [1..n -> UsedIn(of)] /\ UsedIn(of) = {order[i] : i \in 1..n}
  BY UsedIsFinite, OrderOfAll
<1> DEFINE findings == [i \in DOMAIN order |-> BatchFindingIn(of, order[i])]
           kept == {i \in DOMAIN findings : findings[i].type \notin {"hardcoded_secret", "synthetic_fixture"}}
           Of(ref) == {i \in kept : findings[i].ref = ref}
           Asset(ref) == Component(ref, AssetKind(findings[Min(Of(ref))]), findings[Min(Of(ref))].algorithm,
                                   findings[Min(Of(ref))].size,
                                   {<<findings[i].file, findings[i].line>> : i \in Of(ref)})
           carriers == {Carrier(<<"code:file", findings[i].file>>, "file", findings[i].file, 0, {}) : i \in kept}
<1>2. BatchBom(of, order).components = carriers \cup {Asset(findings[i].ref) : i \in kept}
  BY DEF BatchBom, CodeFindingsToCbom, Bom
<1>3. /\ DOMAIN findings = 1..n
      /\ \A i \in 1..n : /\ findings[i].ref = AlgorithmRef(of, order[i]) /\ findings[i].type = of[order[i]].type
                         /\ findings[i].algorithm = of[order[i]].algorithm /\ findings[i].size = 0
                         /\ findings[i].file = order[i][1] /\ <<findings[i].file, findings[i].line>> = order[i]
  <2>1. DOMAIN order = 1..n
    BY <1>1
  <2>2. \A i \in 1..n : order[i] \in Places
    BY <1>1 DEF UsedIn
  <2>3. QED
    BY <2>1, <2>2, PlacesAssumption DEF BatchFindingIn, AlgorithmRef
<1> HIDE DEF findings
<1>4. kept \subseteq 1..n /\ \A i \in 1..n : i \in kept <=> order[i] \in KeptIn(of)
  BY <1>1, <1>3 DEF KeptIn, Secret
<1>5. \A p \in KeptIn(of) : \E i \in kept : order[i] = p
  BY <1>1, <1>4 DEF KeptIn
<1> HIDE DEF kept
<1>6. ASSUME NEW i \in kept
      PROVE  IsAlgorithmAt(of, order[i], Asset(findings[i].ref))
  <2> DEFINE ref == findings[i].ref
  <2>1. PICK m \in Of(ref) : m = Min(Of(ref))
    <3>1. Of(ref) \in SUBSET Nat /\ i \in Of(ref)
      <4>1. Of(ref) \subseteq kept /\ kept \subseteq Nat
        BY <1>4
      <4>2. QED
        BY <4>1
    <3>2. QED
      BY <3>1, LeastOfSet
  <2>2. /\ findings[m].algorithm = of[order[m]].algorithm /\ findings[m].size = 0
        /\ AlgorithmRef(of, order[m]) = AlgorithmRef(of, order[i])
    BY <1>3, <1>4, <2>1
  <2>3. of[order[m]].algorithm = of[order[i]].algorithm
    BY <2>2 DEF AlgorithmRef
  <2>4. {<<findings[j].file, findings[j].line>> : j \in Of(ref)}
          = {q \in KeptIn(of) : AlgorithmRef(of, q) = AlgorithmRef(of, order[i])}
    <3>1. \A j \in Of(ref) : /\ <<findings[j].file, findings[j].line>> \in KeptIn(of)
                             /\ AlgorithmRef(of, <<findings[j].file, findings[j].line>>) = AlgorithmRef(of, order[i])
      BY <1>3, <1>4
    <3>2. ASSUME NEW q \in KeptIn(of), AlgorithmRef(of, q) = AlgorithmRef(of, order[i])
          PROVE  \E j \in Of(ref) : q = <<findings[j].file, findings[j].line>>
      <4>1. PICK j \in kept : order[j] = q
        BY <1>5
      <4>2. j \in 1..n
        BY <1>4
      <4>3. findings[j].ref = ref /\ <<findings[j].file, findings[j].line>> = q
        <5>1. /\ findings[j].ref = AlgorithmRef(of, order[j]) /\ <<findings[j].file, findings[j].line>> = order[j]
              /\ ref = AlgorithmRef(of, order[i])
          BY <1>3, <1>4, <4>2
        <5>2. QED
          BY <3>2, <4>1, <5>1
      <4>4. QED
        BY <4>3
    <3> HIDE DEF Of
    <3>3. QED
      BY <3>1, <3>2
  <2>5. AssetKind(findings[m]) # "file"
    BY DEF AssetKind
  <2>6. ref = AlgorithmRef(of, order[i])
    BY <1>3, <1>4
  <2>7. Asset(ref) = Component(ref, AssetKind(findings[m]), of[order[i]].algorithm, 0,
                               {q \in KeptIn(of) : AlgorithmRef(of, q) = AlgorithmRef(of, order[i])})
    BY <2>1, <2>2, <2>3, <2>4
  <2> HIDE DEF Asset, ref
  <2>8. QED
    BY <2>5, <2>6, <2>7 DEF Component, IsAlgorithmAt, ref
<1>7. ASSUME NEW c \in carriers
      PROVE  \E i \in kept : IsFileAt(of, order[i], c)
  <2>1. PICK i \in kept : c = Carrier(<<"code:file", findings[i].file>>, "file", findings[i].file, 0, {})
    OBVIOUS
  <2>2. QED
    BY <1>3, <1>4, <2>1 DEF Carrier, IsFileAt
<1>8. ASSUME NEW i \in kept
      PROVE  \E c \in carriers : IsFileAt(of, order[i], c)
  <2> DEFINE made == Carrier(<<"code:file", findings[i].file>>, "file", findings[i].file, 0, {})
  <2>1. made \in carriers
    OBVIOUS
  <2>2. IsFileAt(of, order[i], made)
    BY <1>3, <1>4 DEF Carrier, IsFileAt
  <2>3. QED
    BY <2>1, <2>2
<1> HIDE DEF Asset, carriers
<1>9. ASSUME NEW c \in BatchBom(of, order).components
      PROVE  \E p \in KeptIn(of) : IsFileAt(of, p, c) \/ IsAlgorithmAt(of, p, c)
  BY <1>2, <1>4, <1>6, <1>7, <1>9
<1>10. ASSUME NEW p \in KeptIn(of)
      PROVE  \E c \in BatchBom(of, order).components : IsAlgorithmAt(of, p, c)
  <2>1. PICK i \in kept : order[i] = p
    BY <1>5
  <2>2. QED
    BY <1>2, <1>6, <2>1
<1>11. ASSUME NEW p \in KeptIn(of)
       PROVE  \E c \in BatchBom(of, order).components : IsFileAt(of, p, c)
  <2>1. PICK i \in kept : order[i] = p
    BY <1>5
  <2>2. PICK c \in carriers : IsFileAt(of, order[i], c)
    BY <1>8
  <2>3. QED
    BY <1>2, <2>1, <2>2
<1>12. QED
  BY <1>9, <1>10, <1>11

\* A component has these fields and no others.
IsComponent(c) ==
  c = [ref |-> c.ref, kind |-> c.kind, algorithm |-> c.algorithm, size |-> c.size,
       class |-> c.class, at |-> c.at]

\* Merging bills of materials, one by one.
LEMMA MergeSteps ==
  ASSUME NEW seq, NEW n \in Nat, DOMAIN seq = 1..n,
         \A i \in 1..n : \A c \in seq[i].components : IsComponent(c)
  PROVE  \E h : /\ h[0] = EmptyBom /\ MergeCboms(seq) = h[n]
                /\ \A i \in 1..n : h[i] = Merge2(h[i - 1], seq[i])
<1> DEFINE Eq(g) == g = [s \in SUBSET (1..n) |->
                           IF s = {} THEN EmptyBom ELSE Merge2(g[s \ {Max(s)}], seq[Max(s)])]
           iter == CHOOSE g : Eq(g)
           T == [components : SUBSET [ref : {c.ref : c \in UNION {seq[i].components : i \in 1..n}},
                                  kind : {c.kind : c \in UNION {seq[i].components : i \in 1..n}},
                                  algorithm : {c.algorithm : c \in UNION {seq[i].components : i \in 1..n}},
                                  size : {c.size : c \in UNION {seq[i].components : i \in 1..n}},
                                  class : {c.class : c \in UNION {seq[i].components : i \in 1..n}},
                                  at : SUBSET (UNION {c.at : c \in UNION {seq[i].components : i \in 1..n}})],
                 dependencies : SUBSET (UNION {seq[i].dependencies : i \in 1..n})]
           step == [p \in (1..n) \X T |-> Merge2(p[2], seq[p[1]])]
<1>1. MergeCboms(seq) = iter[1..n]
  BY DEF MergeCboms, FoldLeft, MapThenFoldSet
<1>2. \E g : Eq(g)
  <2>1. step \in [(1..n) \X T -> T] /\ EmptyBom \in T
    <3> DEFINE All == UNION {seq[i].components : i \in 1..n}
               Spots == UNION {c.at : c \in All}
               Shape == [ref : {c.ref : c \in All}, kind : {c.kind : c \in All},
                         algorithm : {c.algorithm : c \in All}, size : {c.size : c \in All},
                         class : {c.class : c \in All}, at : SUBSET Spots]
               Links == UNION {seq[i].dependencies : i \in 1..n}
    <3>1. \A i \in 1..n : seq[i].components \subseteq All /\ seq[i].dependencies \subseteq Links
      OBVIOUS
    <3>2. \A c \in All : c \in Shape
      <4> SUFFICES ASSUME NEW c \in All PROVE c \in Shape
        OBVIOUS
      <4>1. IsComponent(c)
        OBVIOUS
      <4>2. c.at \in SUBSET Spots
        OBVIOUS
      <4> HIDE DEF All, Spots
      <4>3. QED
        BY <4>1, <4>2 DEF IsComponent
    <3>3. \A c \in All : c.at \subseteq Spots
      OBVIOUS
    <3>4. T = [components : SUBSET Shape, dependencies : SUBSET Links]
      OBVIOUS
    <3>5. \A c \in Shape, more \in SUBSET Spots : [c EXCEPT !.at = c.at \cup more] \in Shape
      <4> HIDE DEF All, Spots
      <4>1. QED
        OBVIOUS
    <3> HIDE DEF All, Spots, Shape, Links, T
    <3>6. ASSUME NEW i \in 1..n, NEW t \in T
          PROVE  Merge2(t, seq[i]) \in T
      <4> DEFINE bom == seq[i]
                 Twin(c) == CHOOSE d \in bom.components : d.ref = c.ref
                 grown == {IF \E d \in bom.components : d.ref = c.ref
                             THEN [c EXCEPT !.at = @ \cup Twin(c).at] ELSE c : c \in t.components}
                 known == {c.ref : c \in t.components}
      <4>1. t.components \subseteq Shape /\ t.dependencies \subseteq Links
        BY <3>4
      <4>2. ASSUME NEW c \in t.components, \E d \in bom.components : d.ref = c.ref
            PROVE  [c EXCEPT !.at = c.at \cup Twin(c).at] \in Shape
        <5>1. Twin(c) \in bom.components
          BY <4>2
        <5>2. Twin(c).at \subseteq Spots
          BY <3>1, <3>3, <5>1
        <5> HIDE DEF Twin
        <5>3. QED
          BY <3>5, <4>1, <5>2
      <4>3. grown \subseteq Shape
        BY <4>1, <4>2
      <4>4. Merge2(t, bom) = Bom(grown \cup {d \in bom.components : d.ref \notin known},
                                 t.dependencies \cup bom.dependencies)
        BY DEF Merge2
      <4> HIDE DEF grown, known
      <4>5. grown \cup {d \in bom.components : d.ref \notin known} \in SUBSET Shape
        BY <3>1, <3>2, <4>3
      <4>6. t.dependencies \cup bom.dependencies \in SUBSET Links
        BY <3>1, <4>1
      <4>7. QED
        BY <3>4, <4>4, <4>5, <4>6 DEF Bom
    <3>7. EmptyBom \in T
      BY <3>4 DEF EmptyBom, Bom
    <3>8. QED
      BY <3>6, <3>7
  <2>2. \A i \in 1..n, t \in T : step[<<i, t>>] = Merge2(t, seq[i])
    OBVIOUS
  <2> HIDE DEF step, T
  <2>3. PICK g \in [SUBSET (1..n) -> T] : Folds(g, n, EmptyBom, step)
    BY <2>1, FoldAlwaysExists DEF FoldExists
  <2>4. ASSUME NEW s \in SUBSET (1..n)
        PROVE  g[s] = IF s = {} THEN EmptyBom ELSE Merge2(g[s \ {Max(s)}], seq[Max(s)])
    <3>1. CASE s # {}
      <4>1. Max(s) \in 1..n /\ g[s \ {Max(s)}] \in T
        BY <3>1, MaxInside
      <4>2. QED
        BY <2>2, <2>3, <3>1, <4>1 DEF Folds
    <3>2. QED
      BY <2>3, <3>1 DEF Folds
  <2>5. Eq(g)
    BY <2>3, <2>4
  <2>6. QED
    BY <2>5
<1>3. Eq(iter)
  <2> HIDE DEF Eq
  <2>1. QED
    BY <1>2
<1> HIDE DEF iter
<1> DEFINE h == [i \in 0..n |-> iter[1..i]]
<1>4. h[0] = EmptyBom /\ h[n] = iter[1..n]
  <2>1. iter[1..0] = EmptyBom
    <3>1. \A s \in SUBSET (1..n) : s = {} => iter[s] = EmptyBom
      BY <1>3
    <3> HIDE DEF Eq
    <3>2. 1..0 \in SUBSET (1..n) /\ 1..0 = {}
      OBVIOUS
    <3>3. QED
      BY <3>1, <3>2
  <2> HIDE DEF Eq
  <2>2. QED
    BY <2>1
<1>5. ASSUME NEW i \in 1..n PROVE h[i] = Merge2(h[i - 1], seq[i])
  <2>1. \A s \in SUBSET (1..n) :
          iter[s] = IF s = {} THEN EmptyBom ELSE Merge2(iter[s \ {Max(s)}], seq[Max(s)])
    BY <1>3
  <2>2. iter[1..i] = Merge2(iter[1..(i - 1)], seq[i])
    BY <2>1, PrefixSteps
  <2>3. i \in 0..n /\ i - 1 \in 0..n
    OBVIOUS
  <2>4. QED
    BY <2>2, <2>3
<1> HIDE DEF h
<1>6. QED
  BY <1>1, <1>4, <1>5

\* A component of a report of the CI scanner into which the uses S were merged: the file
\* of one of them with all the uses in it, or the one use.
IsCiFile(S, p, c) ==
  /\ IsComponent(c) /\ c.ref = <<"code:file", p[1]>> /\ c.kind = "file" /\ c.algorithm = p[1]
  /\ c.size = 0 /\ c.at = {q \in S : q[1] = p[1]}

IsCiUse(of, p, c) ==
  /\ IsComponent(c) /\ c.ref = <<"ci", p, of[p].algorithm>> /\ c.kind # "file"
  /\ c.algorithm = of[p].algorithm /\ c.size = 0 /\ c.at = {p}

CiHolds(of, S, components) ==
  /\ \A c \in components : \E p \in S : IsCiFile(S, p, c) \/ IsCiUse(of, p, c)
  /\ \A p \in S : \E c \in components : IsCiFile(S, p, c)
  /\ \A p \in S : \E c \in components : IsCiUse(of, p, c)

LEMMA PlacedBom ==
  ASSUME NEW of, NEW p \in UsedIn(of)
  PROVE  \E file, asset :
           /\ CodeFindingToCbom(PlacedFindingIn(of, p)).components = {file, asset}
           /\ IsCiFile({p}, p, file) /\ IsCiUse(of, p, asset)
<1> DEFINE finding == PlacedFindingIn(of, p)
           kind == AssetKind(finding)
           asset == Component(<<"ci", p, of[p].algorithm>>, kind, of[p].algorithm, 0, {p})
           file == Carrier(<<"code:file", p[1]>>, "file", p[1], 0, {p})
<1>1. /\ finding.ref = <<"ci", p, of[p].algorithm>> /\ finding.algorithm = of[p].algorithm
      /\ finding.size = 0 /\ finding.file = p[1] /\ <<finding.file, finding.line>> = p
  <2>1. p = <<p[1], p[2]>>
    BY PlacesAssumption DEF UsedIn
  <2>2. QED
    BY <2>1 DEF PlacedFindingIn, BatchFindingIn
<1>2. kind # "file"
  BY DEF AssetKind
<1> HIDE DEF finding
<1>3. CodeFindingToCbom(finding).components = {file, asset}
  BY <1>1 DEF CodeFindingToCbom, FileOf, Bom
<1> HIDE DEF kind
<1>4. IsCiUse(of, p, asset)
  BY <1>2 DEF Component, IsComponent, IsCiUse
<1>5. IsCiFile({p}, p, file)
  <2>1. {q \in {p} : q[1] = p[1]} = {p}
    OBVIOUS
  <2>2. QED
    BY <2>1 DEF Carrier, IsComponent, IsCiFile
<1> HIDE DEF asset, file
<1>6. QED
  BY <1>3, <1>4, <1>5 DEF finding

\* Merging in the use at one more place.
LEMMA PlacedMerge ==
  ASSUME NEW of, NEW S \in SUBSET UsedIn(of), NEW p \in UsedIn(of), NEW merged,
         CiHolds(of, S, merged.components)
  PROVE  CiHolds(of, S \cup {p}, Merge2(merged, CodeFindingToCbom(PlacedFindingIn(of, p))).components)
<1> DEFINE T == S \cup {p}
           bom == CodeFindingToCbom(PlacedFindingIn(of, p))
           Twin(c) == CHOOSE d \in bom.components : d.ref = c.ref
           Grand(c) == IF \E d \in bom.components : d.ref = c.ref
                        THEN [c EXCEPT !.at = @ \cup Twin(c).at] ELSE c
           new == Merge2(merged, bom).components
<1>1. PICK file, asset : /\ bom.components = {file, asset}
                         /\ IsCiFile({p}, p, file) /\ IsCiUse(of, p, asset)
  BY PlacedBom
<1>2. new = {Grand(c) : c \in merged.components}
              \cup {d \in bom.components : d.ref \notin {c.ref : c \in merged.components}}
  BY DEF Merge2, Bom
<1> HIDE DEF bom, new
<1>3. /\ file.ref = <<"code:file", p[1]>> /\ asset.ref = <<"ci", p, of[p].algorithm>>
      /\ file.ref # asset.ref /\ file.at = {p} /\ asset.at = {p}
  <2>1. {q \in {p} : q[1] = p[1]} = {p}
    OBVIOUS
  <2>2. QED
    BY <1>1, <2>1 DEF IsCiFile, IsCiUse
<1>4. \A c : /\ c.ref = file.ref => Grand(c) = [c EXCEPT !.at = c.at \cup {p}]
             /\ c.ref = asset.ref => Grand(c) = [c EXCEPT !.at = c.at \cup {p}]
             /\ c.ref \notin {file.ref, asset.ref} => Grand(c) = c
  BY <1>1, <1>3
<1> HIDE DEF Grand
<1>5. ASSUME NEW c, NEW q \in S, IsCiFile(S, q, c)
      PROVE  IsCiFile(T, q, Grand(c))
  <2>1. c.ref # asset.ref /\ c.ref = <<"code:file", q[1]>>
    BY <1>3, <1>5 DEF IsCiFile
  <2>2. CASE q[1] = p[1]
    <3>1. Grand(c) = [c EXCEPT !.at = c.at \cup {p}]
      BY <1>3, <1>4, <2>1, <2>2
    <3>2. c.at \cup {p} = {r \in T : r[1] = q[1]}
      BY <1>5, <2>2 DEF IsCiFile
    <3>3. QED
      BY <1>5, <3>1, <3>2 DEF IsCiFile, IsComponent
  <2>3. CASE q[1] # p[1]
    <3>1. Grand(c) = c
      BY <1>3, <1>4, <2>1, <2>3
    <3>2. c.at = {r \in T : r[1] = q[1]}
      BY <1>5, <2>3 DEF IsCiFile
    <3>3. QED
      BY <1>5, <3>1, <3>2 DEF IsCiFile
  <2>4. QED
    BY <2>2, <2>3
<1>6. ASSUME NEW c, NEW q \in S, IsCiUse(of, q, c)
      PROVE  IsCiUse(of, q, Grand(c))
  <2>1. c.ref # file.ref /\ c.ref = <<"ci", q, of[q].algorithm>>
    BY <1>3, <1>6 DEF IsCiUse
  <2>2. CASE q = p
    <3>1. Grand(c) = [c EXCEPT !.at = c.at \cup {p}] /\ c.at \cup {p} = {q}
      BY <1>3, <1>4, <1>6, <2>1, <2>2 DEF IsCiUse
    <3>2. QED
      BY <1>6, <3>1 DEF IsCiUse, IsComponent
  <2>3. CASE q # p
    <3>1. Grand(c) = c
      BY <1>3, <1>4, <2>1, <2>3
    <3>2. QED
      BY <1>6, <3>1
  <2>4. QED
    BY <2>2, <2>3
<1>7. ASSUME NEW d \in new
      PROVE  \E q \in T : IsCiFile(T, q, d) \/ IsCiUse(of, q, d)
  <2>1. CASE \E c \in merged.components : d = Grand(c)
    <3>1. PICK c \in merged.components : d = Grand(c)
      BY <2>1
    <3>2. PICK q \in S : IsCiFile(S, q, c) \/ IsCiUse(of, q, c)
      BY DEF CiHolds
    <3>3. QED
      BY <1>5, <1>6, <3>1, <3>2
  <2>2. CASE d = asset
    BY <1>1, <2>2
  <2>3. CASE d = file /\ file.ref \notin {c.ref : c \in merged.components}
    <3>1. \A q \in S : q[1] # p[1]
      <4>1. SUFFICES ASSUME NEW q \in S, q[1] = p[1] PROVE FALSE
        OBVIOUS
      <4>2. PICK c \in merged.components : IsCiFile(S, q, c)
        BY DEF CiHolds
      <4>3. QED
        BY <1>3, <2>3, <4>1, <4>2 DEF IsCiFile
    <3>2. {r \in T : r[1] = p[1]} = {p}
      BY <3>1
    <3>3. IsCiFile(T, p, file)
      BY <1>1, <1>3, <3>2 DEF IsCiFile
    <3>4. QED
      BY <2>3, <3>3
  <2>4. QED
    BY <1>1, <1>2, <2>1, <2>2, <2>3
<1>8. \A c \in merged.components : Grand(c) \in new
  BY <1>2
<1>9. \A d \in {file, asset} : (\A c \in merged.components : c.ref # d.ref) => d \in new
  BY <1>1, <1>2
<1>10. \E d \in new : IsCiFile(T, p, d)
  <2>1. CASE \E c \in merged.components : c.ref = file.ref
    <3>1. PICK c \in merged.components : c.ref = file.ref
      BY <2>1
    <3>2. PICK q \in S : IsCiFile(S, q, c) \/ IsCiUse(of, q, c)
      BY DEF CiHolds
    <3>3. ~IsCiUse(of, q, c)
      BY <1>3, <3>1 DEF IsCiUse
    <3>4. IsCiFile(T, q, Grand(c))
      BY <1>5, <3>2, <3>3
    <3>5. q[1] = p[1]
      BY <1>3, <3>1, <3>2, <3>3 DEF IsCiFile
    <3>6. QED
      BY <1>8, <3>4, <3>5 DEF IsCiFile
  <2>2. CASE \A c \in merged.components : c.ref # file.ref
    <3>1. file \in new
      BY <1>9, <2>2
    <3>2. PICK q \in T : IsCiFile(T, q, file) \/ IsCiUse(of, q, file)
      BY <1>7, <3>1
    <3>3. ~IsCiUse(of, q, file)
      BY <1>3 DEF IsCiUse
    <3>4. q[1] = p[1]
      BY <1>3, <3>2, <3>3 DEF IsCiFile
    <3>5. QED
      BY <3>1, <3>2, <3>3, <3>4 DEF IsCiFile
  <2>3. QED
    BY <2>1, <2>2
<1>11. \E d \in new : IsCiUse(of, p, d)
  <2>1. CASE \E c \in merged.components : c.ref = asset.ref
    <3>1. PICK c \in merged.components : c.ref = asset.ref
      BY <2>1
    <3>2. PICK q \in S : IsCiFile(S, q, c) \/ IsCiUse(of, q, c)
      BY DEF CiHolds
    <3>3. ~IsCiFile(S, q, c)
      BY <1>3, <3>1 DEF IsCiFile
    <3>4. q = p
      BY <1>3, <3>1, <3>2, <3>3 DEF IsCiUse
    <3>5. QED
      BY <1>6, <1>8, <3>2, <3>3, <3>4
  <2>2. CASE \A c \in merged.components : c.ref # asset.ref
    BY <1>1, <1>9, <2>2
  <2>3. QED
    BY <2>1, <2>2
<1>12. \A q \in S : /\ \E d \in new : IsCiFile(T, q, d)
                    /\ \E d \in new : IsCiUse(of, q, d)
  BY <1>5, <1>6, <1>8 DEF CiHolds
<1> HIDE DEF T
<1>13. \A q \in T : q \in S \/ q = p
  BY DEF T
<1>14. CiHolds(of, T, new)
  BY <1>7, <1>10, <1>11, <1>12, <1>13 DEF CiHolds
<1>15. QED
  BY <1>14 DEF T, new, bom

\* A report of the CI scanner lists every file used and every use, and nothing else.
LEMMA CiComponents ==
  ASSUME NEW of, NEW order \in SetToSeqs(UsedIn(of))
  PROVE  CiHolds(of, UsedIn(of), CiBom(of, order).components)
<1>1. PICK n \in Nat : order \in [1..n -> UsedIn(of)] /\ UsedIn(of) = {order[i] : i \in 1..n}
  BY UsedIsFinite, OrderOfAll
<1> DEFINE seq == [i \in DOMAIN order |-> CodeFindingToCbom(PlacedFindingIn(of, order[i]))]
<1>2. DOMAIN seq = 1..n /\ \A i \in 1..n : seq[i] = CodeFindingToCbom(PlacedFindingIn(of, order[i]))
  BY <1>1
<1>3. CiBom(of, order) = MergeCboms(seq)
  BY DEF CiBom
<1> HIDE DEF seq
<1>4. \A i \in 1..n : order[i] \in UsedIn(of)
  BY <1>1
<1>5. ASSUME NEW i \in 1..n, NEW c \in seq[i].components
      PROVE  IsComponent(c)
  <2>1. order[i] \in UsedIn(of) /\ seq[i] = CodeFindingToCbom(PlacedFindingIn(of, order[i]))
    BY <1>2, <1>4
  <2>2. PICK file, asset : /\ seq[i].components = {file, asset}
                           /\ IsCiFile({order[i]}, order[i], file) /\ IsCiUse(of, order[i], asset)
    BY <2>1, PlacedBom
  <2>3. QED
    BY <2>2 DEF IsCiFile, IsCiUse
<1>6. PICK h : /\ h[0] = EmptyBom /\ MergeCboms(seq) = h[n]
               /\ \A i \in 1..n : h[i] = Merge2(h[i - 1], seq[i])
  BY <1>2, <1>5, MergeSteps
<1> DEFINE S(k) == {order[i] : i \in 1..k}
           good == {k \in 0..n : CiHolds(of, S(k), h[k].components)}
<1>7. 0 \in good
  <2>1. h[0].components = {} /\ 0 \in 0..n /\ S(0) = {}
    BY <1>6 DEF EmptyBom, Bom
  <2>2. QED
    BY <2>1 DEF CiHolds
<1>8. ASSUME NEW k \in 1..n, k - 1 \in good PROVE k \in good
  <2>1. h[k] = Merge2(h[k - 1], CodeFindingToCbom(PlacedFindingIn(of, order[k])))
    BY <1>2, <1>6
  <2>2. CiHolds(of, S(k - 1), h[k - 1].components)
    BY <1>8
  <2>3. order[k] \in UsedIn(of) /\ S(k - 1) \in SUBSET UsedIn(of)
    BY <1>4
  <2>4. S(k) = S(k - 1) \cup {order[k]}
    <3>1. 1..k = (1..(k - 1)) \cup {k}
      OBVIOUS
    <3>2. QED
      BY <3>1
  <2> HIDE DEF S
  <2>5. CiHolds(of, S(k), h[k].components)
    BY <2>1, <2>2, <2>3, <2>4, PlacedMerge
  <2>6. QED
    BY <2>5
<1> HIDE DEF good
<1>9. \A k \in 0..n : k \in good
  BY <1>7, <1>8, CountUp
<1>10. n \in good
  BY <1>9
<1>11. QED
  BY <1>1, <1>3, <1>6, <1>10 DEF good

\* A component of a report of the code: the file of a use it lists, or all its uses of
\* one reference.
IsFileOf(r, p, c) ==
  /\ c.ref = <<"code:file", p[1]>> /\ c.algorithm = p[1] /\ c.size = 0
  /\ c.at = IF r.scanner = "batch" THEN {} ELSE {q \in Places : Kept(r, q) /\ q[1] = p[1]}

IsUseOf(r, p, c) ==
  /\ c.ref = RefOf(r, p) /\ c.kind # "file" /\ c.algorithm = r.of[p].algorithm
  /\ c.size = 0 /\ c.at = UsesOf(r, RefOf(r, p))

KeptOf(r) == {p \in Places : Kept(r, p)}

\* What a report of the code lists.
LEMMA ReportOfCode ==
  ASSUME NEW r, GoodReport(r), OfCode(r)
  PROVE  /\ \A c \in r.document.bom.components : \E p \in KeptOf(r) : IsFileOf(r, p, c) \/ IsUseOf(r, p, c)
         /\ \A p \in KeptOf(r) : \E c \in r.document.bom.components : IsFileOf(r, p, c)
         /\ \A p \in KeptOf(r) : \E c \in r.document.bom.components : IsUseOf(r, p, c)
<1>1. CASE r.scanner = "batch"
  <2>1. PICK order \in SetToSeqs(UsedIn(r.of)) : r.document.bom = BatchBom(r.of, order)
    BY <1>1, DocumentHolds DEF GoodReport, IsBatch
  <2>2. KeptOf(r) = KeptIn(r.of)
    BY <1>1 DEF Kept, KeptIn, UsedIn, KeptOf
  <2>3. \A p : RefOf(r, p) = AlgorithmRef(r.of, p)
    BY <1>1 DEF RefOf, AlgorithmRef
  <2>4. \A p : UsesOf(r, RefOf(r, p)) = {q \in KeptIn(r.of) : AlgorithmRef(r.of, q) = AlgorithmRef(r.of, p)}
    BY <2>2, <2>3 DEF UsesOf, KeptOf
  <2>5. \A p \in KeptIn(r.of) : \A c : /\ IsAlgorithmAt(r.of, p, c) => IsUseOf(r, p, c)
                                       /\ IsFileAt(r.of, p, c) => IsFileOf(r, p, c)
    BY <1>1, <2>3, <2>4 DEF IsAlgorithmAt, IsFileAt, IsUseOf, IsFileOf
  <2>6. QED
    BY <2>1, <2>2, <2>5, BatchComponents
<1>2. CASE r.scanner = "ci"
  <2>1. PICK order \in SetToSeqs(UsedIn(r.of)) : r.document.bom = CiBom(r.of, order)
    BY <1>2, DocumentHolds DEF GoodReport, IsCi
  <2>2. KeptOf(r) = UsedIn(r.of)
    BY <1>2 DEF Kept, UsedIn, KeptOf
  <2>3. \A p : RefOf(r, p) = <<"ci", p, r.of[p].algorithm>>
    BY <1>2 DEF RefOf
  <2>4. \A p \in KeptOf(r) : UsesOf(r, RefOf(r, p)) = {p}
    BY <2>3 DEF UsesOf, KeptOf
  <2>5. ASSUME NEW p \in KeptOf(r), NEW c, IsCiUse(r.of, p, c) PROVE IsUseOf(r, p, c)
    BY <2>3, <2>4, <2>5 DEF IsCiUse, IsUseOf
  <2>6. ASSUME NEW p \in KeptOf(r), NEW c, IsCiFile(UsedIn(r.of), p, c) PROVE IsFileOf(r, p, c)
    <3>1. {q \in Places : Kept(r, q) /\ q[1] = p[1]} = {q \in UsedIn(r.of) : q[1] = p[1]}
      BY <2>2 DEF KeptOf
    <3>2. QED
      BY <1>2, <2>6, <3>1 DEF IsCiFile, IsFileOf
  <2>7. CiHolds(r.of, KeptOf(r), r.document.bom.components)
    BY <2>1, <2>2, CiComponents
  <2>8. QED
    BY <2>2, <2>5, <2>6, <2>7 DEF CiHolds
<1>3. QED
  BY <1>1, <1>2 DEF OfCode

\* The component that lists a use.
Lists(of, p, c) == c.kind # "file" /\ c.algorithm = of[p].algorithm /\ p \in c.at

LEMMA UsesAreListed ==
  ASSUME NEW r, GoodReport(r), OfCode(r)
  PROVE  /\ \A p \in Places : Kept(r, p) => \E c \in r.document.bom.components : Lists(r.of, p, c)
         /\ (\A p \in Places : ~Kept(r, p)) => r.document.bom.components = {}
<1>1. \A p \in KeptOf(r) : \A c : IsUseOf(r, p, c) => Lists(r.of, p, c)
  BY DEF KeptOf, IsUseOf, UsesOf, Lists
<1>2. QED
  BY <1>1, ReportOfCode DEF KeptOf

\* No scan of the code loses a use, whatever the order in which its findings arrive.
THEOREM UsagesArePlaced == InventorySpec => []EveryUsageIsPlaced
<1>1. InventoryInv => EveryUsageIsPlaced
  <2> SUFFICES ASSUME InventoryInv, OfCode(report), NEW p \in Places, Kept(report, p)
               PROVE  \E c \in report.document.bom.components :
                        c.kind # "file" /\ c.algorithm = report.of[p].algorithm /\ p \in c.at
    BY DEF EveryUsageIsPlaced
  <2>1. QED
    BY UsesAreListed DEF InventoryInv, Lists
<1>2. QED
  BY <1>1, InventoryInvHolds, PTL

-----------------------------------------------------------------------------
(* Compliance. *)

\* A compliant control has evidence, none of which uses what it prohibits.
LEMMA CompliantIsEarned ==
  ASSUME NEW control, NEW assets, AssessControl(control, assets).compliant
  PROVE  assets # {} /\ \A a \in assets : Sanitize(a).name.parts \cap control.prohibited = {}
<1> DEFINE clean == {Sanitize(a) : a \in assets}
           gaps == IF control.level = "NOT SUPPORTED" THEN {} ELSE {a \in clean : Gaps(control, a) # {}}
<1>1. control.level = "SUPPORTED CONTROL" /\ gaps = {} /\ clean # {}
  BY DEF AssessControl
<1>2. \A a \in clean : Gaps(control, a) = {}
  BY <1>1
<1>3. ASSUME NEW a \in clean
      PROVE  a.name.parts \cap control.prohibited = {}
  <2>1. "prohibited" \notin Gaps(control, a)
    BY <1>2
  <2>2. ~Spells(a, control.prohibited)
    BY <2>1 DEF Gaps
  <2>3. QED
    BY <2>2 DEF Spells
<1>4. QED
  BY <1>1, <1>3

LEMMA AssetSeen ==
  ASSUME NEW c
  PROVE  Sanitize(AsAsset(c)).name = Seen(c.algorithm)
BY DEF Sanitize, AsAsset

\* Nothing is called compliant without evidence, or over what it prohibits.
THEOREM ComplianceHolds == InventorySpec => []ComplianceIsEarned
<1>1. InventoryInv => ComplianceIsEarned
  <2> SUFFICES ASSUME InventoryInv, OfCode(report) PROVE ComplianceIsEarned
    BY DEF ComplianceIsEarned
  <2> DEFINE components == report.document.bom.components
             assets == {AsAsset(c) : c \in components}
  <2>0. GoodReport(report)
    BY DEF InventoryInv
  <2>1. AssessCompliance(Catalog, {}, assets).controls = {AssessControl(c, assets) : c \in Catalog}
    BY DEF AssessCompliance
  <2>2. ASSUME NEW given \in Catalog, AssessControl(given, assets).compliant
        PROVE  /\ \E p \in Places : Kept(report, p)
               /\ \A p \in Places, control \in Catalog :
                    (control.id = AssessControl(given, assets).control /\ Kept(report, p)) =>
                       Seen(report.of[p].algorithm).parts \cap control.prohibited = {}
    <3>1. /\ assets # {}
          /\ \A a \in assets : Sanitize(a).name.parts \cap given.prohibited = {}
      BY <2>2, CompliantIsEarned
    <3>2. components # {}
      BY <3>1
    <3>3. \E p \in Places : Kept(report, p)
      BY <2>0, <3>2, UsesAreListed
    <3>4. ASSUME NEW p \in Places, NEW control \in Catalog,
                 control.id = AssessControl(given, assets).control, Kept(report, p)
          PROVE  Seen(report.of[p].algorithm).parts \cap control.prohibited = {}
      <4>1. control = given
        <5>1. AssessControl(given, assets).control = given.id
          BY DEF AssessControl
        <5>2. QED
          BY <3>4, <5>1, CatalogAssumption
      <4>2. PICK c \in components : Lists(report.of, p, c)
        BY <2>0, <3>4, UsesAreListed
      <4>3. AsAsset(c) \in assets /\ Sanitize(AsAsset(c)).name = Seen(report.of[p].algorithm)
        BY <4>2, AssetSeen DEF Lists
      <4> HIDE DEF assets, components
      <4>4. QED
        BY <3>1, <4>1, <4>3
    <3>5. QED
      BY <3>3, <3>4
  <2> HIDE DEF assets
  <2>3. QED
    BY <2>1, <2>2 DEF ComplianceIsEarned, assets
<1>2. QED
  BY <1>1, InventoryInvHolds, PTL

-----------------------------------------------------------------------------
(* Comparing. *)

\* A map gives every reference the rating of a component that has it.
RatesOf(bom, profile, map) ==
  \A ref \in DOMAIN map : \E c \in bom.components : c.ref = ref /\ map[ref] = Rated(c, profile)

\* What is compared of a document: each reference, with the rating of a component of it.
LEMMA MapOfComponents ==
  ASSUME NEW bom, NEW profile
  PROVE  /\ DOMAIN ComponentMap(bom, profile) = {c.ref : c \in bom.components}
         /\ RatesOf(bom, profile, ComponentMap(bom, profile))
<1> DEFINE FirstOf(ref) == CHOOSE c \in bom.components : c.ref = ref
           assets == CorrelateCbom(bom, profile)
<1>1. ASSUME NEW ref \in {c.ref : c \in bom.components}
      PROVE  FirstOf(ref) \in bom.components /\ FirstOf(ref).ref = ref
  OBVIOUS
<1>2. assets = {Rated(FirstOf(ref), profile) : ref \in {c.ref : c \in bom.components}}
  BY DEF CorrelateCbom, NormalizeCbom
<1>3. \A c : Rated(c, profile).ref = c.ref
  BY DEF Rated
<1> HIDE DEF FirstOf
<1>4. {a.ref : a \in assets} = {c.ref : c \in bom.components}
  <2>1. ASSUME NEW a \in assets PROVE a.ref \in {c.ref : c \in bom.components}
    BY <1>1, <1>2, <1>3
  <2>2. ASSUME NEW ref \in {c.ref : c \in bom.components} PROVE \E a \in assets : a.ref = ref
    BY <1>1, <1>2, <1>3
  <2> HIDE DEF assets
  <2>3. \A ref \in {c.ref : c \in bom.components} : ref \in {a.ref : a \in assets}
    BY <2>2
  <2>4. \A ref \in {a.ref : a \in assets} : ref \in {c.ref : c \in bom.components}
    BY <2>1
  <2>5. QED
    BY <2>3, <2>4
<1>5. ComponentMap(bom, profile) = [ref \in {a.ref : a \in assets} |-> CHOOSE a \in assets : a.ref = ref]
  BY DEF ComponentMap
<1>6. ASSUME NEW ref \in {a.ref : a \in assets}
      PROVE  \E c \in bom.components : c.ref = ref /\ ComponentMap(bom, profile)[ref] = Rated(c, profile)
  <2> DEFINE a == CHOOSE x \in assets : x.ref = ref
  <2>1. a \in assets /\ a.ref = ref
    <3> HIDE DEF assets
    <3>1. QED
      OBVIOUS
  <2>2. ComponentMap(bom, profile)[ref] = a
    BY <1>5
  <2> HIDE DEF a
  <2>3. PICK given \in {c.ref : c \in bom.components} : a = Rated(FirstOf(given), profile)
    BY <1>2, <2>1
  <2>4. QED
    BY <1>1, <1>3, <2>1, <2>2, <2>3
<1> HIDE DEF assets
<1>7. DOMAIN ComponentMap(bom, profile) = {a.ref : a \in assets}
  BY <1>5
<1>8. QED
  BY <1>4, <1>6, <1>7 DEF RatesOf

\* What decides a rating, and that equal ratings compare as unchanged.
LEMMA RatingDecided ==
  ASSUME NEW c, NEW d, NEW profile,
         c.ref = d.ref, c.algorithm = d.algorithm, c.size = d.size, c.at = d.at
  PROVE  Rated(c, profile) = Rated(d, profile)
BY DEF Rated

LEMMA StatusOf ==
  ASSUME NEW before, NEW after
  PROVE  /\ Status(before, after) \notin {"NEW", "REMOVED"}
         /\ before = after => Status(before, after) = "UNCHANGED"
BY DEF Status

\* Components that differ at most in their places are changed when their locations differ.
LEMMA StatusOfMoved ==
  ASSUME NEW c, NEW d, NEW profile, c.algorithm = d.algorithm, c.size = d.size, c.at # {}, d.at # {}
  PROVE  Status(Rated(c, profile), Rated(d, profile))
           = IF First(d.at)[1] = First(c.at)[1] THEN "UNCHANGED" ELSE "CHANGED"
<1>1. Location(Rated(c, profile)) = First(c.at)[1] /\ Location(Rated(d, profile)) = First(d.at)[1]
  BY DEF Location, Rated
<1> DEFINE a == Rated(c, profile)
           b == Rated(d, profile)
<1>2. /\ a.algorithm = b.algorithm /\ a.size = b.size /\ a.risk = b.risk
      /\ a.vulnerable = b.vulnerable /\ a.policy = b.policy
  BY DEF Rated
<1> HIDE DEF a, b
<1>3. QED
  BY <1>1, <1>2 DEF Status, a, b

\* The asset references of a report of the code are those of its uses.
AssetRef(ref) == ref[1] \in {"code:algo", "ci"}

RefsIn(r) == {c.ref : c \in r.document.bom.components}

UsedRefs(r) == {RefOf(r, p) : p \in {q \in Places : Kept(r, q)}}

LEMMA CodeRefs ==
  ASSUME NEW r, GoodReport(r), OfCode(r)
  PROVE  /\ {ref \in RefsIn(r) : AssetRef(ref)} = UsedRefs(r)
         /\ \A ref \in UsedRefs(r) : AssetRef(ref)
         /\ \A c \in r.document.bom.components : AssetRef(c.ref) => \E p \in KeptOf(r) : IsUseOf(r, p, c)
<1>1. ASSUME NEW c \in r.document.bom.components, AssetRef(c.ref)
      PROVE  \E p \in KeptOf(r) : IsUseOf(r, p, c)
  <2>1. PICK p \in KeptOf(r) : IsFileOf(r, p, c) \/ IsUseOf(r, p, c)
    BY ReportOfCode
  <2>2. ~IsFileOf(r, p, c)
    BY <1>1 DEF IsFileOf, AssetRef
  <2>3. QED
    BY <2>1, <2>2
<1>2. \A p : AssetRef(RefOf(r, p))
  BY DEF AssetRef, RefOf
<1>3. \A ref \in {x \in RefsIn(r) : AssetRef(x)} : ref \in UsedRefs(r)
  BY <1>1 DEF RefsIn, UsedRefs, KeptOf, IsUseOf
<1>4. \A ref \in UsedRefs(r) : ref \in RefsIn(r) /\ AssetRef(ref)
  BY <1>2, ReportOfCode DEF RefsIn, UsedRefs, KeptOf, IsUseOf
<1>5. {ref \in RefsIn(r) : AssetRef(ref)} = UsedRefs(r)
  BY <1>3, <1>4
<1>6. QED
  BY <1>1, <1>4, <1>5

\* Two reports of the code with an asset in common agree on its algorithm; where it is,
\* each says of its own uses.
LEMMA AssetsAgree ==
  ASSUME NEW r, GoodReport(r), OfCode(r), NEW s, GoodReport(s), OfCode(s),
         NEW c \in r.document.bom.components, NEW d \in s.document.bom.components,
         c.ref = d.ref, AssetRef(c.ref)
  PROVE  /\ c.algorithm = d.algorithm /\ c.size = d.size
         /\ c.at = UsesOf(r, c.ref) /\ d.at = UsesOf(s, c.ref) /\ c.at # {} /\ d.at # {}
<1>1. PICK p \in KeptOf(r) : IsUseOf(r, p, c)
  BY CodeRefs
<1>2. PICK q \in KeptOf(s) : IsUseOf(s, q, d)
  BY CodeRefs
<1>3. RefOf(r, p) = RefOf(s, q) /\ c.ref = RefOf(r, p)
  BY <1>1, <1>2 DEF IsUseOf
<1>4. r.of[p].algorithm = s.of[q].algorithm
  BY <1>3 DEF RefOf
<1>5. p \in UsesOf(r, RefOf(r, p)) /\ q \in UsesOf(s, RefOf(s, q))
  BY DEF UsesOf, KeptOf
<1>6. QED
  BY <1>1, <1>2, <1>3, <1>4, <1>5 DEF IsUseOf

\* Two reports by one scanner of the same code say the same of each reference.
LEMMA ReportsAgree ==
  ASSUME NEW r, GoodReport(r), OfCode(r), NEW s, GoodReport(s), OfCode(s),
         r.of = s.of, r.scanner = s.scanner
  PROVE  /\ RefsIn(r) = RefsIn(s)
         /\ \A c \in r.document.bom.components, d \in s.document.bom.components :
              c.ref = d.ref => c.algorithm = d.algorithm /\ c.size = d.size /\ c.at = d.at
<1>1. \A p : Kept(r, p) <=> Kept(s, p)
  BY DEF Kept
<1>2. \A p : RefOf(r, p) = RefOf(s, p)
  BY DEF RefOf
<1>3. KeptOf(r) = KeptOf(s) /\ \A ref : UsesOf(r, ref) = UsesOf(s, ref)
  BY <1>1, <1>2 DEF KeptOf, UsesOf
<1>4. \A p, c : /\ IsUseOf(r, p, c) <=> IsUseOf(s, p, c)
                /\ IsFileOf(r, p, c) <=> IsFileOf(s, p, c)
  BY <1>1, <1>2, <1>3 DEF IsUseOf, IsFileOf
<1>5. RefsIn(r) \subseteq RefsIn(s)
  <2>1. ASSUME NEW c \in r.document.bom.components
        PROVE  \E d \in s.document.bom.components : d.ref = c.ref
    <3>1. PICK p \in KeptOf(s) : IsFileOf(s, p, c) \/ IsUseOf(s, p, c)
      BY <1>3, <1>4, ReportOfCode
    <3>2. CASE IsFileOf(s, p, c)
      <4>1. PICK d \in s.document.bom.components : IsFileOf(s, p, d)
        BY ReportOfCode
      <4>2. QED
        BY <3>2, <4>1 DEF IsFileOf
    <3>3. CASE IsUseOf(s, p, c)
      <4>1. PICK d \in s.document.bom.components : IsUseOf(s, p, d)
        BY ReportOfCode
      <4>2. QED
        BY <3>3, <4>1 DEF IsUseOf
    <3>4. QED
      BY <3>1, <3>2, <3>3
  <2>2. QED
    BY <2>1 DEF RefsIn
<1>6. RefsIn(s) \subseteq RefsIn(r)
  <2>1. ASSUME NEW c \in s.document.bom.components
        PROVE  \E d \in r.document.bom.components : d.ref = c.ref
    <3>1. PICK p \in KeptOf(r) : IsFileOf(r, p, c) \/ IsUseOf(r, p, c)
      BY <1>3, <1>4, ReportOfCode
    <3>2. CASE IsFileOf(r, p, c)
      <4>1. PICK d \in r.document.bom.components : IsFileOf(r, p, d)
        BY ReportOfCode
      <4>2. QED
        BY <3>2, <4>1 DEF IsFileOf
    <3>3. CASE IsUseOf(r, p, c)
      <4>1. PICK d \in r.document.bom.components : IsUseOf(r, p, d)
        BY ReportOfCode
      <4>2. QED
        BY <3>3, <4>1 DEF IsUseOf
    <3>4. QED
      BY <3>1, <3>2, <3>3
  <2>2. QED
    BY <2>1 DEF RefsIn
<1>7. ASSUME NEW c \in r.document.bom.components, NEW d \in s.document.bom.components, c.ref = d.ref
      PROVE  c.algorithm = d.algorithm /\ c.size = d.size /\ c.at = d.at
  <2>1. PICK p \in KeptOf(r) : IsFileOf(r, p, c) \/ IsUseOf(r, p, c)
    BY ReportOfCode
  <2>2. PICK q \in KeptOf(r) : IsFileOf(r, q, d) \/ IsUseOf(r, q, d)
    BY <1>3, <1>4, ReportOfCode
  <2>3. CASE AssetRef(c.ref)
    BY <1>3, <1>7, <2>3, AssetsAgree
  <2>4. CASE ~AssetRef(c.ref)
    <3>1. ~IsUseOf(r, p, c) /\ ~IsUseOf(r, q, d)
      BY <1>7, <2>4 DEF IsUseOf, AssetRef, RefOf
    <3>2. p[1] = q[1]
      BY <1>7, <2>1, <2>2, <3>1 DEF IsFileOf
    <3>3. QED
      BY <2>1, <2>2, <3>1, <3>2 DEF IsFileOf
  <2>5. QED
    BY <2>3, <2>4
<1>8. QED
  BY <1>5, <1>6, <1>7

\* A comparison of two scans of the code tells what came, what went and what moved to
\* another file, and nothing else.
THEOREM DiffsAreExact == InventorySpec => []DiffIsExact
<1>1. InventoryInv => DiffIsExact
  <2> SUFFICES ASSUME InventoryInv, OfCode(report), OfCode(baseline) PROVE DiffIsExact
    BY DEF DiffIsExact
  <2> DEFINE old == ComponentMap(baseline.document.bom, "internal_enterprise")
             new == ComponentMap(report.document.bom, "internal_enterprise")
             diff == DiffCboms(baseline.document.bom, report.document.bom, "internal_enterprise")
             FileIn(r, ref) == First(UsesOf(r, ref))[1]
  <2>1. GoodReport(report) /\ GoodReport(baseline)
    BY DEF InventoryInv
  <2>2. DOMAIN old = RefsIn(baseline) /\ DOMAIN new = RefsIn(report)
    BY MapOfComponents DEF RefsIn
  <2>3. diff = [ref \in DOMAIN old \cup DOMAIN new |->
                  IF ref \notin DOMAIN old THEN "NEW"
                  ELSE IF ref \notin DOMAIN new THEN "REMOVED" ELSE Status(old[ref], new[ref])]
    BY DEF DiffCboms
  <2>4. /\ {ref \in DOMAIN old : AssetRef(ref)} = UsedRefs(baseline)
        /\ {ref \in DOMAIN new : AssetRef(ref)} = UsedRefs(report)
    BY <2>1, <2>2, CodeRefs
  <2>5. /\ \A ref \in DOMAIN old : \E c \in baseline.document.bom.components :
               c.ref = ref /\ old[ref] = Rated(c, "internal_enterprise")
        /\ \A ref \in DOMAIN new : \E c \in report.document.bom.components :
               c.ref = ref /\ new[ref] = Rated(c, "internal_enterprise")
    <3>1. /\ RatesOf(baseline.document.bom, "internal_enterprise", old)
          /\ RatesOf(report.document.bom, "internal_enterprise", new)
      BY MapOfComponents
    <3>2. QED
      BY <3>1, Zenon DEF RatesOf
  <2> HIDE DEF old, new
  <2>6. ASSUME baseline.of = report.of, baseline.scanner = report.scanner, NEW ref \in DOMAIN diff
        PROVE  diff[ref] = "UNCHANGED"
    <3>1. DOMAIN old = DOMAIN new
      BY <2>1, <2>2, <2>6, ReportsAgree
    <3>2. ref \in DOMAIN old /\ ref \in DOMAIN new
      BY <2>3, <2>6, <3>1
    <3>3. PICK c \in baseline.document.bom.components :
             c.ref = ref /\ old[ref] = Rated(c, "internal_enterprise")
      BY <2>5, <3>2
    <3>4. PICK d \in report.document.bom.components :
             d.ref = ref /\ new[ref] = Rated(d, "internal_enterprise")
      BY <2>5, <3>2
    <3>5. old[ref] = new[ref]
      BY <2>1, <2>6, <3>3, <3>4, ReportsAgree, RatingDecided
    <3> HIDE DEF diff
    <3>6. QED
      BY <2>3, <3>2, <3>5, StatusOf
  <2> HIDE DEF diff
  <2>7. ASSUME NEW ref \in UsedRefs(report) \cap UsedRefs(baseline)
        PROVE  diff[ref] = IF FileIn(report, ref) = FileIn(baseline, ref) THEN "UNCHANGED" ELSE "CHANGED"
    <3>1. ref \in DOMAIN old /\ ref \in DOMAIN new /\ AssetRef(ref)
      BY <2>4
    <3>2. PICK c \in baseline.document.bom.components :
             c.ref = ref /\ old[ref] = Rated(c, "internal_enterprise")
      BY <2>5, <3>1
    <3>3. PICK d \in report.document.bom.components :
             d.ref = ref /\ new[ref] = Rated(d, "internal_enterprise")
      BY <2>5, <3>1
    <3>4. /\ c.algorithm = d.algorithm /\ c.size = d.size /\ c.at # {} /\ d.at # {}
          /\ c.at = UsesOf(baseline, ref) /\ d.at = UsesOf(report, ref)
      BY <2>1, <3>1, <3>2, <3>3, AssetsAgree
    <3>5. Status(old[ref], new[ref])
            = IF FileIn(report, ref) = FileIn(baseline, ref) THEN "UNCHANGED" ELSE "CHANGED"
      BY <3>2, <3>3, <3>4, StatusOfMoved
    <3>6. QED
      BY <2>3, <3>1, <3>5
  <2>8. \A ref \in DOMAIN diff : /\ diff[ref] = "NEW" <=> ref \notin DOMAIN old
                                 /\ diff[ref] = "REMOVED" <=> ref \in DOMAIN old /\ ref \notin DOMAIN new
    BY <2>3, StatusOf
  <2>9. DOMAIN diff = DOMAIN old \cup DOMAIN new
    BY <2>3
  <2>10. {ref \in DOMAIN diff : AssetRef(ref) /\ diff[ref] = "NEW"} = UsedRefs(report) \ UsedRefs(baseline)
    BY <2>4, <2>8, <2>9
  <2>11. {ref \in DOMAIN diff : AssetRef(ref) /\ diff[ref] = "REMOVED"} = UsedRefs(baseline) \ UsedRefs(report)
    BY <2>4, <2>8, <2>9
  <2>12. QED
    BY <2>6, <2>7, <2>10, <2>11 DEF DiffIsExact, diff, UsedRefs, AssetRef
<1>2. QED
  BY <1>1, InventoryInvHolds, PTL

\* The state has the types the scanners give it.
LEMMA InventoryTypes == InventorySpec => []InventoryTypeOK
<1>1. InventoryInv => InventoryTypeOK
  BY DEF InventoryInv, InventoryTypeOK, GoodReport, Scanners
<1>2. QED
  BY <1>1, InventoryInvHolds, PTL

-----------------------------------------------------------------------------
(* Dependencies.  The components of an SBOM are a sequence; the rest is    *)
(* about the operators, for any components and any evidence.               *)

ReachInv == \E n \in Nat : DOMAIN sbom.components = 1 .. n

LEMMA ListsAreSequences ==
  ASSUME NEW p \in Payloads
  PROVE  /\ \E n \in Nat : DOMAIN ItemsOf(p.components) = 1 .. n
         /\ \E n \in Nat : DOMAIN ItemsOf(p.packages) = 1 .. n
<1>1. ASSUME NEW list \in {p.components, p.packages}
      PROVE  \E n \in Nat : DOMAIN ItemsOf(list) = 1 .. n
  <2>1. PICK items : items = list.items
    OBVIOUS
  <2>2. items \in Seq({items[i] : i \in DOMAIN items})
    BY <2>1, PayloadsAssumption
  <2>3. Len(items) \in Nat /\ DOMAIN items = 1 .. Len(items)
    BY <2>2
  <2>4. DOMAIN <<>> = 1 .. 0
    OBVIOUS
  <2>5. QED
    BY <2>1, <2>3, <2>4 DEF ItemsOf
<1>2. QED
  BY <1>1

LEMMA IngestedComponents ==
  ASSUME NEW p \in Payloads
  PROVE  \E n \in Nat : DOMAIN IngestSbom(p).components = 1 .. n
<1>1. \A status : Refused(status).components = <<>>
  BY DEF Refused
<1>2. DOMAIN NormalizeCycloneDx(p).components = DOMAIN ItemsOf(p.components)
  BY DEF NormalizeCycloneDx
<1>3. DOMAIN NormalizeSpdx(p).components = DOMAIN ItemsOf(p.packages)
  BY DEF NormalizeSpdx
<1>4. DOMAIN <<>> = 1 .. 0
  OBVIOUS
<1>5. \/ \E status : IngestSbom(p) = Refused(status)
      \/ IngestSbom(p) = NormalizeCycloneDx(p)
      \/ IngestSbom(p) = NormalizeSpdx(p)
  BY Zenon DEF IngestSbom
<1>6. QED
  BY <1>1, <1>2, <1>3, <1>4, <1>5, ListsAreSequences

LEMMA ReachInvHolds == ReachSpec => []ReachInv
<1>1. \A status : \E n \in Nat : DOMAIN Refused(status).components = 1 .. n
  <2>1. DOMAIN <<>> = 1 .. 0
    OBVIOUS
  <2>2. QED
    BY <2>1 DEF Refused
<1>2. ReachInit => ReachInv
  BY <1>1 DEF ReachInit, ReachInv
<1>3. ReachInv /\ [ReachNext]_reachVars => ReachInv'
  <2> SUFFICES ASSUME ReachInv, [ReachNext]_reachVars PROVE ReachInv'
    OBVIOUS
  <2>1. CASE GenerateSbom
    BY <1>1, <2>1, IngestedComponents DEF GenerateSbom, ReachInv
  <2>2. CASE UNCHANGED sbom
    BY <2>2 DEF ReachInv
  <2>3. QED
    BY <2>1, <2>2 DEF ReachNext, StaticFinds, RuntimeFinds, reachVars
<1>4. QED
  BY <1>2, <1>3, PTL DEF ReachSpec

-----------------------------------------------------------------------------
(* Evidence.                                                               *)

LEMMA LevelIsOneOfFour ==
  ASSUME NEW package, NEW imports, NEW calls, NEW runtime
  PROVE  ClassifyReach(package, imports, calls, runtime) \in 1 .. 4
BY DEF ClassifyReach

\* More of it never means less.
LEMMA LevelGrows ==
  ASSUME NEW package, NEW imports, NEW calls, NEW runtime, NEW imports2, NEW calls2, NEW runtime2,
         imports \subseteq imports2, calls \subseteq calls2, runtime \subseteq runtime2
  PROVE  ClassifyReach(package, imports, calls, runtime) <= ClassifyReach(package, imports2, calls2, runtime2)
<1>1. VerifiedCalls(package, calls) \subseteq VerifiedCalls(package, calls2)
  BY DEF VerifiedCalls
<1>2. QED
  BY <1>1 DEF ClassifyReach

LEMMA DependencyLevelGrows ==
  ASSUME NEW package, NEW static, NEW runtime, NEW static2, NEW runtime2,
         static \subseteq static2, runtime \subseteq runtime2
  PROVE  DependencyLevel(package, static, runtime) <= DependencyLevel(package, static2, runtime2)
<1> DEFINE names == package.names \cup package.entry.aliases
           Imports(s) == {f \in s : /\ f.target \in names \/ f.snippet.imports = package.canonical
                                    /\ ImportLike(f) \/ f.api = NoApi}
           Calls(s) == {f \in s :
             /\ ~(PureImport(f) /\ f.type # "api_call")
             /\ \/ f.target \in names /\ (f.api # NoApi \/ f.type \in {"api_call", "call"})
                \/ package.entry.apis \cap (f.api.holds \cup f.snippet.holds) # {}}
           Observed(s) == {d \in s : d.target \in package.names \/ package.canonical \in d.describes}
<1>1. /\ DependencyLevel(package, static, runtime)
           = ClassifyReach(package, Imports(static), Calls(static), Observed(runtime))
      /\ DependencyLevel(package, static2, runtime2)
           = ClassifyReach(package, Imports(static2), Calls(static2), Observed(runtime2))
  BY Zenon DEF DependencyLevel
<1>2. Imports(static) \subseteq Imports(static2) /\ Calls(static) \subseteq Calls(static2)
      /\ Observed(runtime) \subseteq Observed(runtime2)
  OBVIOUS
<1> HIDE DEF Imports, Calls, Observed
<1>3. QED
  BY <1>1, <1>2, LevelGrows

LEMMA CorrelatorLevelGrows ==
  ASSUME NEW package, NEW static, NEW runtime, NEW static2, NEW runtime2,
         static \subseteq static2, runtime \subseteq runtime2
  PROVE  CorrelatorLevel(package, static, runtime) <= CorrelatorLevel(package, static2, runtime2)
<1> DEFINE Imports(s) == {f \in s : f.target \in package.names /\ (ImportLike(f) \/ f.api = NoApi)}
           Observed(s) == {d \in s : d.target \in package.names}
<1>1. /\ CorrelatorLevel(package, static, runtime)
           = ClassifyReach(package, Imports(static), CorrelatorCalls(package, static), Observed(runtime))
      /\ CorrelatorLevel(package, static2, runtime2)
           = ClassifyReach(package, Imports(static2), CorrelatorCalls(package, static2), Observed(runtime2))
  BY Zenon DEF CorrelatorLevel
<1>2. Imports(static) \subseteq Imports(static2) /\ Observed(runtime) \subseteq Observed(runtime2)
  OBVIOUS
<1>3. CorrelatorCalls(package, static) \subseteq CorrelatorCalls(package, static2)
  BY DEF CorrelatorCalls
<1> HIDE DEF Imports, Observed
<1>4. QED
  BY <1>1, <1>2, <1>3, LevelGrows

LEMMA LevelsAreLevels ==
  ASSUME NEW package, NEW static, NEW runtime
  PROVE  DependencyLevel(package, static, runtime) \in 1 .. 4 /\ CorrelatorLevel(package, static, runtime) \in 1 .. 4
BY LevelIsOneOfFour, Zenon DEF DependencyLevel, CorrelatorLevel

\* Rounding keeps the order.
LEMMA RoundingGrows ==
  ASSUME NEW m \in Nat, NEW n \in Nat, m <= n
  PROVE  /\ RoundedScore(m, 10000) \in Nat /\ RoundedScore(n, 10000) \in Nat
         /\ RoundedScore(m, 10000) <= RoundedScore(n, 10000)
<1>1. PICK d : d = 10000
  OBVIOUS
<1> DEFINE Q(k) == k \div d
           R(k) == k % d
           Up(q, r) == IF 2 * r > d \/ (2 * r = d /\ q % 2 = 1) THEN q + 1 ELSE q
<1>2. ASSUME NEW k \in Nat
      PROVE  Q(k) \in Nat /\ R(k) \in Nat /\ R(k) < 10000 /\ k = 10000 * Q(k) + R(k)
  <2>1. k \div 10000 \in Nat /\ k % 10000 \in Nat /\ k % 10000 < 10000 /\ k = 10000 * (k \div 10000) + (k % 10000)
    OBVIOUS
  <2>2. QED
    BY <1>1, <2>1
<1>3. \A k : RoundedScore(k, d) = Up(Q(k), R(k))
  BY Zenon DEF RoundedScore
<1> HIDE DEF Q, R
<1>4. PICK a \in Nat, b \in Nat, c \in Nat, r \in Nat : a = Q(m) /\ b = Q(n) /\ c = R(m) /\ r = R(n)
  <2>1. Q(m) \in Nat /\ Q(n) \in Nat /\ R(m) \in Nat /\ R(n) \in Nat
    BY <1>2
  <2>2. QED
    BY <2>1, Zenon
<1>5. c < 10000 /\ r < 10000 /\ m = 10000 * a + c /\ n = 10000 * b + r
  BY <1>2, <1>4
<1>6. a <= b /\ (a = b => c <= r)
  BY <1>5
<1>7. Up(a, c) \in Nat /\ Up(b, r) \in Nat /\ Up(a, c) <= Up(b, r)
  BY <1>1, <1>6
<1> HIDE DEF Up
<1>8. RoundedScore(m, d) = Up(a, c) /\ RoundedScore(n, d) = Up(b, r)
  BY <1>3, <1>4, Zenon
<1>9. RoundedScore(m, 10000) = RoundedScore(m, d) /\ RoundedScore(n, 10000) = RoundedScore(n, d)
  BY <1>1
<1>10. QED
  BY <1>7, <1>8, <1>9

LEMMA RiskGrows ==
  ASSUME NEW score \in Nat, NEW low \in 1 .. 4, NEW high \in 1 .. 4, low <= high, NEW impact
  PROVE  RiskScore(score, low, impact) <= RiskScore(score, high, impact)
<1>1. PICK weight \in {100, 115} :
         \A level : RiskScore(score, level, impact)
                      = Min({100, RoundedScore(score * Multiplier[level] * weight, 10000)})
  <2>1. PICK weight :
          weight = IF impact \in {"KEY_COMPROMISE", "ENCRYPTION_BYPASS", "SIGNATURE_FORGERY"} THEN 115 ELSE 100
    OBVIOUS
  <2>2. \A level : RiskScore(score, level, impact)
                     = Min({100, RoundedScore(score * Multiplier[level] * weight, 10000)})
    BY <2>1 DEF RiskScore
  <2>3. QED
    BY <2>1, <2>2
<1>2. PICK a \in {15, 35, 85, 100}, b \in {15, 35, 85, 100} :
         a = Multiplier[low] /\ b = Multiplier[high] /\ a <= b
  BY DEF Multiplier
<1>3. score * a * weight \in Nat /\ score * b * weight \in Nat /\ score * a * weight <= score * b * weight
  <2>1. weight = 100 \/ weight = 115
    OBVIOUS
  <2>2. (a = 15 \/ a = 35 \/ a = 85 \/ a = 100) /\ (b = 15 \/ b = 35 \/ b = 85 \/ b = 100)
    OBVIOUS
  <2>3. a \in Nat /\ b \in Nat /\ weight \in Nat
    BY <2>1, <2>2
  <2>4. score * a <= score * b /\ score * a \in Nat /\ score * b \in Nat
    BY <1>2, <2>2
  <2>5. QED
    BY <2>1, <2>4
<1>4. PICK x \in Nat, y \in Nat : /\ x = RoundedScore(score * a * weight, 10000)
                                  /\ y = RoundedScore(score * b * weight, 10000) /\ x <= y
  BY <1>3, RoundingGrows
<1>5. ASSUME NEW z \in Nat
      PROVE  Min({100, z}) = IF z <= 100 THEN z ELSE 100
  <2>1. \E least \in {100, z} : \A other \in {100, z} : least <= other
    OBVIOUS
  <2>2. Min({100, z}) \in {100, z} /\ Min({100, z}) <= 100 /\ Min({100, z}) <= z
    BY <2>1, Zenon DEF Min
  <2>3. QED
    BY <2>2
<1>6. RiskScore(score, low, impact) = Min({100, x}) /\ RiskScore(score, high, impact) = Min({100, y})
  BY <1>1, <1>2, <1>4
<1>7. QED
  BY <1>4, <1>5, <1>6

-----------------------------------------------------------------------------
(* What is reachable is so on evidence about it.                           *)

LEMMA ReachedOnEvidence ==
  ASSUME NEW package, NEW imports, NEW calls, NEW runtime,
         IsReachable(ClassifyReach(package, imports, calls, runtime))
  PROVE  runtime # {} \/ VerifiedCalls(package, calls) # {}
BY DEF ClassifyReach, IsReachable

LEMMA DependencyIsFounded ==
  ASSUME NEW package, NEW static, NEW runtime, IsReachable(DependencyLevel(package, static, runtime))
  PROVE  \/ \E d \in runtime : Observes(package, d)
         \/ \E f \in static : About(package, f) /\ (PureImport(f) => f.type = "api_call")
<1> DEFINE names == package.names \cup package.entry.aliases
           Imports == {f \in static : /\ f.target \in names \/ f.snippet.imports = package.canonical
                                      /\ ImportLike(f) \/ f.api = NoApi}
           Calls == {f \in static :
             /\ ~(PureImport(f) /\ f.type # "api_call")
             /\ \/ f.target \in names /\ (f.api # NoApi \/ f.type \in {"api_call", "call"})
                \/ package.entry.apis \cap (f.api.holds \cup f.snippet.holds) # {}}
           Observed == {d \in runtime : d.target \in package.names \/ package.canonical \in d.describes}
<1>1. DependencyLevel(package, static, runtime) = ClassifyReach(package, Imports, Calls, Observed)
  BY Zenon DEF DependencyLevel
<1>2. \A d \in Observed : d \in runtime /\ Observes(package, d)
  BY DEF Observes
<1>3. \A f \in Calls : f \in static /\ About(package, f) /\ (PureImport(f) => f.type = "api_call")
  BY DEF About
<1> HIDE DEF Imports, Calls, Observed
<1>4. Observed # {} \/ VerifiedCalls(package, Calls) # {}
  BY <1>1, ReachedOnEvidence
<1>5. QED
  BY <1>2, <1>3, <1>4 DEF VerifiedCalls

LEMMA CorrelatorIsFounded ==
  ASSUME NEW package, NEW static, NEW runtime, IsReachable(CorrelatorLevel(package, static, runtime))
  PROVE  \/ \E d \in runtime : Observes(package, d)
         \/ \E f \in static : About(package, f) /\ (PureImport(f) => f.type = "api_call")
<1> DEFINE Imports == {f \in static : f.target \in package.names /\ (ImportLike(f) \/ f.api = NoApi)}
           Observed == {d \in runtime : d.target \in package.names}
<1>1. CorrelatorLevel(package, static, runtime)
        = ClassifyReach(package, Imports, CorrelatorCalls(package, static), Observed)
  BY Zenon DEF CorrelatorLevel
<1>2. \A d \in Observed : d \in runtime /\ Observes(package, d)
  BY DEF Observes
<1>3. \A f \in CorrelatorCalls(package, static) : f \in static /\ About(package, f) /\ ~PureImport(f)
  BY DEF About, CorrelatorCalls
<1> HIDE DEF Imports, Observed
<1>4. Observed # {} \/ VerifiedCalls(package, CorrelatorCalls(package, static)) # {}
  BY <1>1, ReachedOnEvidence
<1>5. QED
  BY <1>2, <1>3, <1>4 DEF VerifiedCalls

\* Whatever was seen, and in whatever order.
LEMMA ReachableIsFounded == ReachabilityIsFounded
<1> SUFFICES ASSUME NEW package \in Packages,
                    NEW level \in Both(package, seen.static, seen.runtime), IsReachable(level)
             PROVE  \/ \E d \in seen.runtime : Observes(package, d)
                    \/ \E f \in seen.static : About(package, f) /\ (PureImport(f) => f.type = "api_call")
  BY DEF ReachabilityIsFounded
<1>1. CASE level = DependencyLevel(package, seen.static, seen.runtime)
  BY <1>1, DependencyIsFounded
<1>2. CASE level = CorrelatorLevel(package, seen.static, seen.runtime)
  BY <1>2, CorrelatorIsFounded
<1>3. QED
  BY <1>1, <1>2 DEF Both

-----------------------------------------------------------------------------
(* Evidence only raises.                                                   *)

LEMMA ReachabilityRises ==
  ASSUME NEW components, NEW n \in Nat, DOMAIN components = 1 .. n,
         NEW static, NEW runtime, NEW static2, NEW runtime2,
         static \subseteq static2, runtime \subseteq runtime2
  PROVE  NotLower(CorrelateDependencies(components, static, runtime),
                  CorrelateDependencies(components, static2, runtime2))
<1> DEFINE known == {i \in DOMAIN components : EntryOf(components[i]) # UnknownPackage}
           Of(s, r) == [i \in known |-> DependencyLevel(Package(components[i]), s, r)]
           Reached(s, r) == {i \in known : IsReachable(Of(s, r)[i])}
<1>1. ASSUME NEW s, NEW r
      PROVE  /\ CorrelateDependencies(components, s, r).packages = Of(s, r)
             /\ CorrelateDependencies(components, s, r).reachable = Cardinality(Reached(s, r))
  BY DEF CorrelateDependencies, Reachability
<1>2. \A i \in known : Of(static, runtime)[i] <= Of(static2, runtime2)[i]
  BY DependencyLevelGrows
<1>3. \A i \in known : Of(static, runtime)[i] \in 1 .. 4 /\ Of(static2, runtime2)[i] \in 1 .. 4
  BY LevelsAreLevels
<1>4. Reached(static, runtime) \subseteq Reached(static2, runtime2)
  BY <1>2, <1>3 DEF IsReachable
<1>5. IsFiniteSet(Reached(static2, runtime2))
  <2>1. Reached(static2, runtime2) \subseteq 1 .. n
    OBVIOUS
  <2>2. IsFiniteSet(1 .. n)
    BY FS_Interval
  <2> HIDE DEF Reached
  <2>3. QED
    BY <2>1, <2>2, FS_Subset
<1>6. Cardinality(Reached(static, runtime)) <= Cardinality(Reached(static2, runtime2))
  BY <1>4, <1>5, FS_Subset
<1>7. DOMAIN Of(static, runtime) = known
  OBVIOUS
<1> HIDE DEF known, Of, Reached
<1>8. QED
  BY <1>1, <1>2, <1>6, <1>7 DEF NotLower

LEMMA AdvisoriesRise ==
  ASSUME NEW components, NEW static, NEW runtime, NEW static2, NEW runtime2,
         static \subseteq static2, runtime \subseteq runtime2
  PROVE  NotMilder(Correlate(components, static, runtime), Correlate(components, static2, runtime2))
<1> DEFINE all == {Package(components[i]) : i \in DOMAIN components}
           LevelOf(package, s, r) == CorrelatorLevel(package, s, r)
           Risk(package, a, s, r) == RiskScore(a.score, LevelOf(package, s, r), a.impact)
           Says(package, a, s, r) ==
             Correlation(package, a, CorrelatorCalls(package, s), LevelOf(package, s, r), Risk(package, a, s, r))
           For(package) == {x \in Candidates(package, LoadCatalog \cup CustomAdvisories) :
                              IsAffected(package.component.version, x)}
<1>1. ASSUME NEW s, NEW r
      PROVE  Correlate(components, s, r) = UNION {{Says(package, a, s, r) : a \in For(package)} : package \in all}
  BY Zenon DEF Correlate, CorrelatePackage
<1>2. \A package : \A a \in For(package) : a \in LoadCatalog \cup CustomAdvisories
  BY DEF Candidates
<1>3. \A a \in LoadCatalog \cup CustomAdvisories : a.score \in Nat
  BY AdvisoriesAssumption DEF LoadCatalog, CvssScore
<1>4. ASSUME NEW package, NEW a \in For(package)
      PROVE  Risk(package, a, static, runtime) <= Risk(package, a, static2, runtime2)
  BY <1>2, <1>3, CorrelatorLevelGrows, LevelsAreLevels, RiskGrows
<1>5. \A package, a, s, r : /\ Says(package, a, s, r).component = package.component
                            /\ Says(package, a, s, r).advisory = a.id
                            /\ Says(package, a, s, r).risk = Risk(package, a, s, r)
  BY DEF Correlation
<1> HIDE DEF all, LevelOf, Risk, Says, For
<1>6. ASSUME NEW old \in Correlate(components, static, runtime)
      PROVE  \E new \in Correlate(components, static2, runtime2) :
               new.component = old.component /\ new.advisory = old.advisory /\ new.risk >= old.risk
  <2>1. PICK package \in all : \E a \in For(package) : old = Says(package, a, static, runtime)
    <3>1. Correlate(components, static, runtime)
            = UNION {{Says(p, a, static, runtime) : a \in For(p)} : p \in all}
      BY <1>1
    <3>2. QED
      BY <3>1
  <2>2. PICK a \in For(package) : old = Says(package, a, static, runtime)
    BY <2>1
  <2>3. Says(package, a, static2, runtime2) \in Correlate(components, static2, runtime2)
    <3>1. Correlate(components, static2, runtime2)
            = UNION {{Says(p, x, static2, runtime2) : x \in For(p)} : p \in all}
      BY <1>1
    <3>2. QED
      BY <2>1, <3>1
  <2>4. Risk(package, a, static, runtime) <= Risk(package, a, static2, runtime2)
    BY <1>4
  <2>5. QED
    BY <1>5, <2>2, <2>3, <2>4
<1>7. QED
  BY <1>6 DEF NotMilder

LEMMA EvidenceRaises == ReachInv => EvidenceOnlyRaises
<1> SUFFICES ASSUME ReachInv, NEW f \in seen.static \cup seen.runtime
             PROVE  /\ NotLower(CorrelateDependencies(sbom.components, seen.static \ {f}, seen.runtime \ {f}),
                                CorrelateDependencies(sbom.components, seen.static, seen.runtime))
                    /\ NotMilder(Correlate(sbom.components, seen.static \ {f}, seen.runtime \ {f}),
                                 Correlate(sbom.components, seen.static, seen.runtime))
  BY DEF EvidenceOnlyRaises
<1>1. seen.static \ {f} \subseteq seen.static /\ seen.runtime \ {f} \subseteq seen.runtime
  OBVIOUS
<1>2. PICK n \in Nat : DOMAIN sbom.components = 1 .. n
  BY DEF ReachInv
<1>3. QED
  BY <1>1, <1>2, ReachabilityRises, AdvisoriesRise

-----------------------------------------------------------------------------
(* Trees.                                                                  *)

\* A component as it comes out, but for its reference.
Bare(name, version, purl) ==
  [id |-> <<>>, name |-> Or(name, "unknown"), version |-> OrElse(version, UnknownVersion), purl |-> purl]

\* What a written tree comes to.
Came(tree) ==
  <<{Bare(w[1], w[2], w[3]) : w \in tree[1]}, {<<Or(w[1], "unknown"), Or(w[2], "unknown")>> : w \in tree[2]}>>

\* An SBOM of a document.
Ingests(s, payload) ==
  /\ DOMAIN s.components = DOMAIN ItemsWritten(payload)
  /\ \A i \in DOMAIN ItemsWritten(payload) :
       s.components[i] = SbomComponent(ItemsWritten(payload)[i].ref, ItemsWritten(payload)[i])
  /\ \A x, y : [from |-> x, to |-> y, type |-> "DEPENDS_ON"] \in s.relationships
                 <=> <<x, y>> \in DependenciesWritten(payload)

LEMMA CycloneDxIngests ==
  ASSUME NEW payload, PlainlyWritten(payload), IsCycloneDx(payload)
  PROVE  Ingests(NormalizeCycloneDx(payload), payload)
<1> DEFINE items == ItemsOf(payload.components)
           s == NormalizeCycloneDx(payload)
<1>1. ItemsWritten(payload) = items
  BY DEF ItemsWritten
<1>2. \A i \in DOMAIN items : items[i].ref # <<>>
  BY <1>1 DEF PlainlyWritten
<1>3. DOMAIN s.components = DOMAIN items
  BY DEF NormalizeCycloneDx
<1>4. ASSUME NEW i \in DOMAIN items
      PROVE  s.components[i] = SbomComponent(items[i].ref, items[i])
  BY <1>2 DEF NormalizeCycloneDx, OrElse
<1>5. s.relationships = {[from |-> d[1], to |-> d[2], type |-> "DEPENDS_ON"] : d \in payload.dependencies}
  BY DEF NormalizeCycloneDx
<1>6. DependenciesWritten(payload) = {<<d[1], d[2]>> : d \in payload.dependencies}
  BY DEF DependenciesWritten
<1> HIDE DEF items, s
<1>7. ASSUME NEW x, NEW y
      PROVE  [from |-> x, to |-> y, type |-> "DEPENDS_ON"] \in s.relationships
               <=> <<x, y>> \in DependenciesWritten(payload)
  BY <1>5, <1>6
<1>8. QED
  BY <1>1, <1>3, <1>4, <1>7 DEF Ingests, s

LEMMA SpdxIngests ==
  ASSUME NEW payload, PlainlyWritten(payload), IsSpdx(payload)
  PROVE  Ingests(NormalizeSpdx(payload), payload)
<1> DEFINE items == ItemsOf(payload.packages)
           s == NormalizeSpdx(payload)
<1>1. ~IsCycloneDx(payload)
  BY DEF IsSpdx
<1>2. ItemsWritten(payload) = items
  BY <1>1 DEF ItemsWritten
<1>3. \A i \in DOMAIN items : items[i].ref # <<>>
  BY <1>2 DEF PlainlyWritten
<1>4. DOMAIN s.components = DOMAIN items
  BY DEF NormalizeSpdx
<1>5. ASSUME NEW i \in DOMAIN items
      PROVE  s.components[i] = SbomComponent(items[i].ref, items[i])
  BY <1>3 DEF NormalizeSpdx, OrElse
<1>6. s.relationships = {NormalizeRelationship(r) : r \in payload.relationships}
  BY DEF NormalizeSpdx
<1>7. \A r \in payload.relationships : r.type \in {"DEPENDS_ON", "DEPENDENCY_OF", "CONTAINS"}
  BY DEF PlainlyWritten
<1>8. DependenciesWritten(payload)
        = {<<r.from, r.to>> : r \in {x \in payload.relationships : x.type = "DEPENDS_ON"}}
          \cup {<<r.to, r.from>> : r \in {x \in payload.relationships : x.type = "DEPENDENCY_OF"}}
  BY <1>1 DEF DependenciesWritten
<1> HIDE DEF items, s
<1>9. ASSUME NEW x, NEW y, [from |-> x, to |-> y, type |-> "DEPENDS_ON"] \in s.relationships
      PROVE  <<x, y>> \in DependenciesWritten(payload)
  <2>1. PICK r \in payload.relationships :
          NormalizeRelationship(r) = [from |-> x, to |-> y, type |-> "DEPENDS_ON"]
    BY <1>6, <1>9
  <2>2. CASE r.type = "DEPENDENCY_OF"
    <3>1. r.to = x /\ r.from = y
      BY <2>1, <2>2 DEF NormalizeRelationship
    <3>2. QED
      BY <1>8, <2>2, <3>1
  <2>3. CASE r.type # "DEPENDENCY_OF"
    <3>1. r.from = x /\ r.to = y /\ r.type # "CONTAINS"
      BY <2>1, <2>3 DEF NormalizeRelationship
    <3>2. r.type = "DEPENDS_ON"
      BY <1>7, <2>3, <3>1
    <3>3. QED
      BY <1>8, <3>1, <3>2
  <2>4. QED
    BY <2>2, <2>3
<1>10. ASSUME NEW x, NEW y, <<x, y>> \in DependenciesWritten(payload)
       PROVE  [from |-> x, to |-> y, type |-> "DEPENDS_ON"] \in s.relationships
  <2>1. PICK r \in payload.relationships :
          \/ r.type = "DEPENDS_ON" /\ r.from = x /\ r.to = y
          \/ r.type = "DEPENDENCY_OF" /\ r.to = x /\ r.from = y
    BY <1>8, <1>10
  <2>2. NormalizeRelationship(r) = [from |-> x, to |-> y, type |-> "DEPENDS_ON"]
    BY <2>1 DEF NormalizeRelationship
  <2>3. QED
    BY <1>6, <2>2
<1>11. QED
  BY <1>2, <1>4, <1>5, <1>9, <1>10 DEF Ingests, s

LEMMA IngestedOf ==
  ASSUME NEW payload, PlainlyWritten(payload), IngestSbom(payload).status = "ingested"
  PROVE  Ingests(IngestSbom(payload), payload)
<1>1. \A status : Refused(status).status = status
  BY DEF Refused
<1>2. \/ IngestSbom(payload) = Refused("unsupported format")
      \/ IngestSbom(payload) = Refused("invalid input")
      \/ IngestSbom(payload) = Refused("type error")
      \/ IsCycloneDx(payload) /\ IngestSbom(payload) = NormalizeCycloneDx(payload)
      \/ /\ ~IsCycloneDx(payload) /\ IngestSbom(payload) = NormalizeSpdx(payload)
         /\ ValidateStructure(payload) = {}
  BY Zenon DEF IngestSbom
<1>3. "unsupported format" # "ingested" /\ "invalid input" # "ingested" /\ "type error" # "ingested"
  OBVIOUS
<1>4. ValidateStructure(payload) = {} /\ ~IsCycloneDx(payload) => IsSpdx(payload)
  BY DEF ValidateStructure
<1>5. QED
  BY <1>1, <1>2, <1>3, <1>4, CycloneDxIngests, SpdxIngests

LEMMA TreeComesOut ==
  ASSUME NEW s, NEW payload, Ingests(s, payload)
  PROVE  TreeOf(s) = Came(TreeWritten(payload))
<1> DEFINE items == ItemsWritten(payload)
           edges == {d \in (DOMAIN items) \X (DOMAIN items) :
                       <<items[d[1]].ref, items[d[2]].ref>> \in DependenciesWritten(payload)}
           listed == {[c EXCEPT !.id = <<>>] : c \in {s.components[i] : i \in DOMAIN s.components}}
           pairs == {<<s.components[e[1]].name, s.components[e[2]].name>> :
                       e \in {d \in (DOMAIN s.components) \X (DOMAIN s.components) :
                                [from |-> s.components[d[1]].id, to |-> s.components[d[2]].id,
                                 type |-> "DEPENDS_ON"] \in s.relationships}}
<1>1. TreeOf(s) = <<listed, pairs>>
  BY DEF TreeOf
<1>2. /\ TreeWritten(payload)[1] = {<<items[i].name, items[i].version, items[i].purl>> : i \in DOMAIN items}
      /\ TreeWritten(payload)[2] = {<<items[e[1]].name, items[e[2]].name>> : e \in edges}
  BY DEF TreeWritten
<1>3. ASSUME NEW i \in DOMAIN items
      PROVE  /\ s.components[i].id = items[i].ref /\ s.components[i].name = Or(items[i].name, "unknown")
             /\ [s.components[i] EXCEPT !.id = <<>>] = Bare(items[i].name, items[i].version, items[i].purl)
  <2>1. s.components[i] = SbomComponent(items[i].ref, items[i])
    BY DEF Ingests
  <2> HIDE DEF items
  <2>2. QED
    BY <2>1 DEF SbomComponent, Bare
<1>4. DOMAIN s.components = DOMAIN items
  BY DEF Ingests
<1>5. listed = {Bare(items[i].name, items[i].version, items[i].purl) : i \in DOMAIN items}
  <2> DEFINE out == {s.components[i] : i \in DOMAIN items}
             came == {Bare(items[i].name, items[i].version, items[i].purl) : i \in DOMAIN items}
  <2>1. listed = {[c EXCEPT !.id = <<>>] : c \in out}
    BY <1>4
  <2> HIDE DEF items, listed
  <2>2. ASSUME NEW i \in DOMAIN items
        PROVE  [s.components[i] EXCEPT !.id = <<>>] \in came
    BY <1>3
  <2>3. ASSUME NEW i \in DOMAIN items
        PROVE  \E c \in out : [c EXCEPT !.id = <<>>] = Bare(items[i].name, items[i].version, items[i].purl)
    BY <1>3
  <2>4. \A w \in listed : w \in came
    BY <2>1, <2>2
  <2>5. \A w \in came : w \in listed
    BY <2>1, <2>3
  <2>6. QED
    BY <2>4, <2>5
<1>6. {d \in (DOMAIN s.components) \X (DOMAIN s.components) :
         [from |-> s.components[d[1]].id, to |-> s.components[d[2]].id,
          type |-> "DEPENDS_ON"] \in s.relationships} = edges
  <2>1. ASSUME NEW d \in (DOMAIN items) \X (DOMAIN items)
        PROVE  [from |-> s.components[d[1]].id, to |-> s.components[d[2]].id, type |-> "DEPENDS_ON"] \in s.relationships
                 <=> <<items[d[1]].ref, items[d[2]].ref>> \in DependenciesWritten(payload)
    <3>1. d[1] \in DOMAIN items /\ d[2] \in DOMAIN items
      OBVIOUS
    <3>2. s.components[d[1]].id = items[d[1]].ref /\ s.components[d[2]].id = items[d[2]].ref
      BY <1>3, <3>1
    <3>3. QED
      BY <3>2, Zenon DEF Ingests
  <2> HIDE DEF items
  <2>2. QED
    BY <1>4, <2>1
<1>7. pairs = {<<Or(items[e[1]].name, "unknown"), Or(items[e[2]].name, "unknown")>> : e \in edges}
  <2>1. \A e \in edges : e[1] \in DOMAIN items /\ e[2] \in DOMAIN items
    OBVIOUS
  <2>2. pairs = {<<s.components[e[1]].name, s.components[e[2]].name>> : e \in edges}
    BY <1>6
  <2> DEFINE Left(e) == <<s.components[e[1]].name, s.components[e[2]].name>>
             Right(e) == <<Or(items[e[1]].name, "unknown"), Or(items[e[2]].name, "unknown")>>
  <2>3. \A e \in edges : Left(e) = Right(e)
    BY <1>3, <2>1
  <2> HIDE DEF items, edges
  <2>4. pairs = {Left(e) : e \in edges}
    BY <2>2
  <2> HIDE DEF Left, Right, pairs
  <2>5. pairs = {Right(e) : e \in edges}
    BY <2>3, <2>4
  <2>6. QED
    BY <2>5 DEF Right
<1>8. listed = {Bare(w[1], w[2], w[3]) : w \in TreeWritten(payload)[1]}
  <2> DEFINE Raw(i) == <<items[i].name, items[i].version, items[i].purl>>
             Out(w) == Bare(w[1], w[2], w[3])
  <2>1. \A i : Out(Raw(i)) = Bare(items[i].name, items[i].version, items[i].purl)
    OBVIOUS
  <2>2. TreeWritten(payload)[1] = {Raw(i) : i \in DOMAIN items}
    BY <1>2
  <2> HIDE DEF Raw, Out
  <2>3. listed = {Out(Raw(i)) : i \in DOMAIN items}
    BY <1>5, <2>1
  <2> HIDE DEF items, listed
  <2>4. listed = {Out(w) : w \in TreeWritten(payload)[1]}
    BY <2>2, <2>3
  <2>5. QED
    BY <2>4 DEF Out
<1>9. pairs = {<<Or(w[1], "unknown"), Or(w[2], "unknown")>> : w \in TreeWritten(payload)[2]}
  <2> DEFINE Raw(e) == <<items[e[1]].name, items[e[2]].name>>
             Out(w) == <<Or(w[1], "unknown"), Or(w[2], "unknown")>>
  <2>1. \A e : Out(Raw(e)) = <<Or(items[e[1]].name, "unknown"), Or(items[e[2]].name, "unknown")>>
    OBVIOUS
  <2>2. TreeWritten(payload)[2] = {Raw(e) : e \in edges}
    BY <1>2
  <2> HIDE DEF Raw, Out
  <2>3. pairs = {Out(Raw(e)) : e \in edges}
    BY <1>7, <2>1
  <2> HIDE DEF items, edges, pairs
  <2>4. pairs = {Out(w) : w \in TreeWritten(payload)[2]}
    BY <2>2, <2>3
  <2>5. QED
    BY <2>4 DEF Out
<1> HIDE DEF listed, pairs
<1>10. QED
  BY <1>1, <1>8, <1>9 DEF Came

\* Of any two documents.
LEMMA SameTreeComesOut == SameTreeSameSbom
<1> SUFFICES ASSUME NEW p, PlainlyWritten(p), IngestSbom(p).status = "ingested",
                    NEW q, PlainlyWritten(q), IngestSbom(q).status = "ingested",
                    TreeWritten(p) = TreeWritten(q)
             PROVE  TreeOf(IngestSbom(p)) = TreeOf(IngestSbom(q))
  BY DEF SameTreeSameSbom
<1>1. QED
  BY IngestedOf, TreeComesOut

-----------------------------------------------------------------------------
(* Advisories.                                                             *)

\* Versions compare as the numbers they make.
LEMMA OrdinaryNumbers ==
  ASSUME NEW v, Ordinary(v)
  PROVE  /\ Len(v) \in 0 .. 3
         /\ \A i \in 1 .. 3 : NumberAt(v, i) \in 0 .. 99 /\ (i > Len(v) => NumberAt(v, i) = 0)
<1>1. v \in Seq(0 .. 99) /\ Len(v) <= 3
  BY DEF Ordinary
<1>2. PICK S : S = 0 .. 99
  OBVIOUS
<1>3. v \in Seq(S)
  BY <1>1, <1>2
<1>4. Len(v) \in Nat /\ \A i \in 1 .. Len(v) : v[i] \in S
  BY <1>3
<1>5. PICK n \in Nat : n = Len(v) /\ n <= 3
  BY <1>1, <1>4
<1>6. ASSUME NEW i \in 1 .. 3
      PROVE  NumberAt(v, i) \in 0 .. 99 /\ (i > n => NumberAt(v, i) = 0)
  <2>1. NumberAt(v, i) = IF i <= n THEN v[i] ELSE 0
    BY <1>5 DEF NumberAt
  <2>2. i <= n => v[i] \in 0 .. 99
    BY <1>2, <1>4, <1>5
  <2>3. QED
    BY <1>5, <2>1, <2>2
<1>7. QED
  BY <1>5, <1>6

LEMMA BeforeByNumber ==
  ASSUME NEW v, Ordinary(v), NEW w, Ordinary(w)
  PROVE  Before(v, w) <=> Ordinal(v) < Ordinal(w)
<1>1. PICK m \in 0 .. 3 : m = Max({Len(v), Len(w)}) /\ m >= Len(v) /\ m >= Len(w)
  <2>1. Len(v) \in 0 .. 3 /\ Len(w) \in 0 .. 3
    BY OrdinaryNumbers
  <2>2. PICK a \in 0 .. 3, b \in 0 .. 3 : a = Len(v) /\ b = Len(w)
    BY <2>1, Zenon
  <2>3. \E greatest \in {a, b} : \A other \in {a, b} : greatest >= other
    OBVIOUS
  <2>4. Max({a, b}) \in {a, b} /\ Max({a, b}) >= a /\ Max({a, b}) >= b
    BY <2>3, Zenon DEF Max
  <2>5. QED
    BY <2>2, <2>4
<1> DEFINE V(i) == NumberAt(v, i)
           W(i) == NumberAt(w, i)
<1>2. \A i \in 1 .. 3 : V(i) \in 0 .. 99 /\ W(i) \in 0 .. 99 /\ (i > m => V(i) = 0 /\ W(i) = 0)
  <2>1. ASSUME NEW x, Ordinary(x), Len(x) <= m, NEW i \in 1 .. 3
        PROVE  NumberAt(x, i) \in 0 .. 99 /\ (i > m => NumberAt(x, i) = 0)
    <3>1. PICK n \in 0 .. 3 : n = Len(x)
      BY <2>1, OrdinaryNumbers
    <3>2. NumberAt(x, i) \in 0 .. 99 /\ (i > n => NumberAt(x, i) = 0)
      BY <2>1, <3>1, OrdinaryNumbers
    <3>3. n <= m
      BY <2>1, <3>1
    <3>4. QED
      BY <3>2, <3>3
  <2>2. QED
    BY <1>1, <2>1
<1>3. Before(v, w) <=> \E i \in 1 .. m : V(i) < W(i) /\ \A j \in 1 .. i - 1 : V(j) = W(j)
  BY <1>1, Zenon DEF Before
<1>4. /\ Ordinal(v) = 10000 * V(1) + 100 * V(2) + V(3)
      /\ Ordinal(w) = 10000 * W(1) + 100 * W(2) + W(3)
  BY DEF Ordinal
<1> HIDE DEF V, W
<1>5. (\E i \in 1 .. m : V(i) < W(i) /\ \A j \in 1 .. i - 1 : V(j) = W(j))
        <=> \/ V(1) < W(1)
            \/ V(1) = W(1) /\ V(2) < W(2)
            \/ V(1) = W(1) /\ V(2) = W(2) /\ V(3) < W(3)
  <2>1. ASSUME NEW i \in 1 .. m, V(i) < W(i), \A j \in 1 .. i - 1 : V(j) = W(j)
        PROVE  \/ V(1) < W(1)
               \/ V(1) = W(1) /\ V(2) < W(2)
               \/ V(1) = W(1) /\ V(2) = W(2) /\ V(3) < W(3)
    <3>1. i = 1 \/ i = 2 \/ i = 3
      OBVIOUS
    <3>2. QED
      BY <2>1, <3>1
  <2>2. \A k \in 1 .. 3 : V(k) < W(k) => k \in 1 .. m
    BY <1>2
  <2>3. V(1) < W(1) => \E i \in 1 .. m : V(i) < W(i) /\ \A j \in 1 .. i - 1 : V(j) = W(j)
    BY <2>2
  <2>4. V(1) = W(1) /\ V(2) < W(2) => \E i \in 1 .. m : V(i) < W(i) /\ \A j \in 1 .. i - 1 : V(j) = W(j)
    <3>1. V(1) = W(1) => \A j \in 1 .. 2 - 1 : V(j) = W(j)
      OBVIOUS
    <3>2. QED
      BY <2>2, <3>1
  <2>5. V(1) = W(1) /\ V(2) = W(2) /\ V(3) < W(3)
          => \E i \in 1 .. m : V(i) < W(i) /\ \A j \in 1 .. i - 1 : V(j) = W(j)
    <3>1. V(1) = W(1) /\ V(2) = W(2) => \A j \in 1 .. 3 - 1 : V(j) = W(j)
      OBVIOUS
    <3>2. QED
      BY <2>2, <3>1
  <2>6. QED
    BY <2>1, <2>3, <2>4, <2>5
<1>6. /\ V(1) \in 0 .. 99 /\ V(2) \in 0 .. 99 /\ V(3) \in 0 .. 99
      /\ W(1) \in 0 .. 99 /\ W(2) \in 0 .. 99 /\ W(3) \in 0 .. 99
  BY <1>2
<1>7. PICK a \in 0 .. 99, b \in 0 .. 99, c \in 0 .. 99, d \in 0 .. 99, e \in 0 .. 99, f \in 0 .. 99 :
        a = V(1) /\ b = V(2) /\ c = V(3) /\ d = W(1) /\ e = W(2) /\ f = W(3)
  BY <1>6, Zenon
<1>8. 10000 * a + 100 * b + c < 10000 * d + 100 * e + f
        <=> a < d \/ (a = d /\ b < e) \/ (a = d /\ b = e /\ c < f)
  OBVIOUS
<1>9. Ordinal(v) = 10000 * a + 100 * b + c /\ Ordinal(w) = 10000 * d + 100 * e + f
  BY <1>4, <1>7
<1>10. QED
  BY <1>3, <1>5, <1>7, <1>8, <1>9

\* What the knowledge base has of a component, if anything.
LEMMA EntryIsKnown ==
  ASSUME NEW component
  PROVE  EntryOf(component) = UnknownPackage \/ \E k \in DOMAIN KnowledgeBase : EntryOf(component) = KnowledgeBase[k]
<1>1. ASSUME NEW keys, DOMAIN keys \subseteq Nat
      PROVE  FindPackage(keys) = UnknownPackage
               \/ \E k \in DOMAIN KnowledgeBase : FindPackage(keys) = KnowledgeBase[k]
  <2> DEFINE known == {i \in DOMAIN keys : keys[i] \in DOMAIN KnowledgeBase}
  <2>1. FindPackage(keys) = IF known = {} THEN UnknownPackage ELSE KnowledgeBase[keys[Min(known)]]
    BY Zenon DEF FindPackage
  <2>2. ASSUME known # {} PROVE Min(known) \in known
    <3>1. known \in SUBSET Nat
      BY <1>1
    <3> HIDE DEF known
    <3>2. QED
      BY <2>2, <3>1, LeastOfSet
  <2>3. QED
    BY <2>1, <2>2
<1>2. ASSUME NEW x
      PROVE  \E S : Keys(x) \in Seq(S) /\ DOMAIN Keys(x) \subseteq Nat
  <2>1. PICK r : r = Read(x)
    OBVIOUS
  <2>2. Keys(x) = <<x, r.normal, r.purlName, r.purlBase>>
    BY <2>1 DEF Keys
  <2>3. <<x, r.normal, r.purlName, r.purlBase>> \in Seq({x, r.normal, r.purlName, r.purlBase})
    OBVIOUS
  <2>4. PICK keys : keys = <<x, r.normal, r.purlName, r.purlBase>>
    OBVIOUS
  <2>5. keys \in Seq({x, r.normal, r.purlName, r.purlBase}) /\ DOMAIN keys \subseteq Nat
    BY <2>3, <2>4
  <2>6. QED
    BY <2>2, <2>4, <2>5, Zenon
<1>3. ASSUME NEW x, NEW y
      PROVE  DOMAIN (Keys(x) \o Keys(y)) \subseteq Nat
  <2>1. PICK S, T : Keys(x) \in Seq(S) /\ Keys(y) \in Seq(T)
    BY <1>2
  <2>2. Keys(x) \in Seq(S \cup T) /\ Keys(y) \in Seq(S \cup T)
    BY <2>1
  <2>3. Keys(x) \o Keys(y) \in Seq(S \cup T)
    BY <2>2
  <2>4. QED
    BY <2>3
<1>4. QED
  BY <1>1, <1>3 DEF EntryOf

LEMMA CanonicalIsNormal ==
  ASSUME NEW component
  PROVE  \/ Canonical(component) = component.name
         \/ Read(Canonical(component)).normal = Canonical(component)
<1>1. CASE EntryOf(component) = UnknownPackage
  BY <1>1 DEF Canonical, UnknownPackage, Or
<1>2. ASSUME NEW k \in DOMAIN KnowledgeBase, EntryOf(component) = KnowledgeBase[k]
      PROVE  \/ Canonical(component) = component.name
             \/ Read(Canonical(component)).normal = Canonical(component)
  BY <1>2, KnowledgeAssumption DEF Canonical, Or
<1>3. QED
  BY <1>1, <1>2, EntryIsKnown

\* An advisory of the database as the correlator has it.
Loaded(a) ==
  [id |-> a.id, package |-> a.package, score |-> CvssScore(a.high), range |-> "<",
   version |-> FixedIn(a), impact |-> "UNKNOWN", apis |-> {}]

LEMMA OneEntry ==
  ASSUME NEW a \in VulnerabilityDb, \A c \in CustomAdvisories : c.id # a.id
  PROVE  /\ Loaded(a) \in LoadCatalog \cup CustomAdvisories
         /\ \A x \in LoadCatalog \cup CustomAdvisories : x.id = a.id => x = Loaded(a)
<1>1. LoadCatalog = {Loaded(x) : x \in VulnerabilityDb}
  BY DEF LoadCatalog, Loaded, FixedIn
<1>2. \A x : Loaded(x).id = x.id
  BY DEF Loaded
<1>3. QED
  BY <1>1, <1>2, AdvisoriesAssumption

LEMMA NamedIsCandidate ==
  ASSUME NEW c, NEW a, NEW advisories, Loaded(a) \in advisories,
         a.package \in Package(c).names \cup Package(c).entry.aliases
  PROVE  Loaded(a) \in Candidates(Package(c), advisories)
<1>1. PICK package : package = Package(c)
  OBVIOUS
<1>2. /\ package.component = c /\ package.canonical = Canonical(c)
      /\ package.names = {c.name, Canonical(c)}
  BY <1>1 DEF Package
<1>3. PICK it : it = Loaded(a)
  OBVIOUS
<1>4. it.package = a.package
  BY <1>3 DEF Loaded
<1>5. Read(a.package).normal \in {Read(c.name).normal, Canonical(c)} \cup {Read(n).normal : n \in package.entry.aliases}
  <2>1. CASE a.package = c.name
    BY <2>1
  <2>2. CASE a.package = Canonical(c)
    BY <2>2, CanonicalIsNormal
  <2>3. CASE a.package \in package.entry.aliases
    BY <2>3
  <2>4. QED
    BY <1>1, <1>2, <2>1, <2>2, <2>3
<1>6. it \in Candidates(package, advisories)
  BY <1>2, <1>3, <1>4, <1>5 DEF Candidates
<1>7. QED
  BY <1>1, <1>3, <1>6

\* An advisory of nine or more in code that is called stays a severe one.
LEMMA SevereStaysSevere ==
  ASSUME NEW level \in {3, 4}
  PROVE  AdjustedSeverity(RiskScore(98, level, "UNKNOWN")) \in {"HIGH", "CRITICAL"}
<1>1. RoundedScore(98 * 85 * 100, 10000) = 83 /\ RoundedScore(98 * 100 * 100, 10000) = 98
  BY DEF RoundedScore
<1>2. RiskScore(98, level, "UNKNOWN") = Min({100, RoundedScore(98 * Multiplier[level] * 100, 10000)})
  BY DEF RiskScore
<1>3. Multiplier[level] = IF level = 3 THEN 85 ELSE 100
  BY DEF Multiplier
<1>4. PICK score \in {83, 98} : score = RoundedScore(98 * Multiplier[level] * 100, 10000)
  BY <1>1, <1>3
<1>5. Min({100, score}) = score
  <2>1. \E least \in {100, score} : \A other \in {100, score} : least <= other
    OBVIOUS
  <2>2. Min({100, score}) \in {100, score} /\ Min({100, score}) <= 100 /\ Min({100, score}) <= score
    BY <2>1, Zenon DEF Min
  <2>3. QED
    BY <2>2
<1>6. AdjustedSeverity(score) \in {"HIGH", "CRITICAL"}
  BY DEF AdjustedSeverity
<1>7. QED
  BY <1>2, <1>4, <1>5, <1>6

LEMMA AffectedAreTold == AffectedIsReported
<1> SUFFICES ASSUME NEW package \in Packages, NEW a \in VulnerabilityDb, \A x \in CustomAdvisories : x.id # a.id,
                    NEW about,
                    about = {x \in Correlate(<<package.component>>, seen.static, seen.runtime) : x.advisory = a.id}
             PROVE  /\ (/\ a.package \in package.names \cup package.entry.aliases
                        /\ Ordinary(package.component.version) /\ Ordinary(FixedIn(a))) =>
                         (about # {} <=>
                            (FixedIn(a) # <<>> => Ordinal(package.component.version) < Ordinal(FixedIn(a))))
                    /\ \A x \in about :
                         (IsReachable(x.level) /\ CvssScore(a.high) >= 90) => x.severity \in {"HIGH", "CRITICAL"}
  BY Zenon DEF AffectedIsReported
<1>1. PICK c : package = Package(c) /\ package.component = c
  BY DEF Packages, Package
<1> DEFINE advisories == LoadCatalog \cup CustomAdvisories
           level == CorrelatorLevel(package, seen.static, seen.runtime)
           calls == CorrelatorCalls(package, seen.static)
           told == {x \in Candidates(package, advisories) : IsAffected(package.component.version, x)}
           Says(x) == Correlation(package, x, calls, level, RiskScore(x.score, level, x.impact))
<1>2. Correlate(<<package.component>>, seen.static, seen.runtime) = {Says(x) : x \in told}
  <2>1. {Package(<<c>>[i]) : i \in DOMAIN <<c>>} = {package}
    BY <1>1
  <2>2. Correlate(<<c>>, seen.static, seen.runtime)
          = UNION {CorrelatePackage(p, seen.static, CorrelatorLevel(p, seen.static, seen.runtime)) : p \in {package}}
    BY <2>1, Zenon DEF Correlate
  <2>3. CorrelatePackage(package, seen.static, level) = {Says(x) : x \in told}
    BY Zenon DEF CorrelatePackage
  <2> HIDE DEF level, told, Says
  <2>4. QED
    BY <1>1, <2>2, <2>3 DEF level
<1>3. \A x : Says(x).advisory = x.id /\ Says(x).level = level
             /\ Says(x).severity = AdjustedSeverity(RiskScore(x.score, level, x.impact))
  BY DEF Correlation
<1>4. told \subseteq advisories
  BY DEF Candidates
<1>5. level \in 1 .. 4
  BY LevelsAreLevels
<1>6. Loaded(a).id = a.id /\ Loaded(a).score = CvssScore(a.high) /\ Loaded(a).impact = "UNKNOWN"
      /\ Loaded(a).version = FixedIn(a) /\ Loaded(a).range = "<"
  BY DEF Loaded
<1>7. Loaded(a) \in advisories /\ \A x \in advisories : x.id = a.id => x = Loaded(a)
  BY OneEntry
<1>8. about = {Says(x) : x \in told \cap {Loaded(a)}}
  <2> HIDE DEF Says, told, level, advisories
  <2>1. \A y \in about : y \in {Says(x) : x \in told \cap {Loaded(a)}}
    BY <1>2, <1>3, <1>4, <1>7
  <2>2. \A x \in told \cap {Loaded(a)} : Says(x) \in about
    BY <1>2, <1>3, <1>6
  <2>3. QED
    BY <2>1, <2>2
<1>9. ASSUME a.package \in package.names \cup package.entry.aliases,
             Ordinary(package.component.version), Ordinary(FixedIn(a))
      PROVE  about # {} <=> (FixedIn(a) # <<>> => Ordinal(package.component.version) < Ordinal(FixedIn(a)))
  <2>1. Loaded(a) \in Candidates(package, advisories)
    BY <1>1, <1>7, <1>9, NamedIsCandidate
  <2>2. Loaded(a) \in told <=> IsAffected(package.component.version, Loaded(a))
    BY <2>1
  <2>3. IsAffected(package.component.version, Loaded(a))
          <=> FixedIn(a) = <<>> \/ Before(package.component.version, FixedIn(a))
    BY <1>6 DEF IsAffected
  <2>4. Before(package.component.version, FixedIn(a)) <=> Ordinal(package.component.version) < Ordinal(FixedIn(a))
    BY <1>9, BeforeByNumber
  <2> HIDE DEF told, Says
  <2>5. QED
    BY <1>8, <2>2, <2>3, <2>4
<1>10. ASSUME NEW x \in about, IsReachable(x.level), CvssScore(a.high) >= 90
       PROVE  x.severity \in {"HIGH", "CRITICAL"}
  <2>1. x = Says(Loaded(a))
    BY <1>8
  <2>2. x.level = level /\ x.severity = AdjustedSeverity(RiskScore(CvssScore(a.high), level, "UNKNOWN"))
    BY <1>3, <1>6, <2>1
  <2>3. CvssScore(a.high) = 98
    BY <1>10 DEF CvssScore
  <2>4. level \in {3, 4}
    BY <1>5, <1>10, <2>2 DEF IsReachable
  <2>5. QED
    BY <2>2, <2>3, <2>4, SevereStaysSevere
<1>11. QED
  BY <1>9, <1>10

\* A dependency is called reachable on an observation or on a finding that is more than an
\* import statement, as the code tells them ("from x import y" is more), no evidence lowers
\* what is said of it, one tree comes out as one however it is written, and the versions
\* before the fix that an advisory's first range names are the ones reported.
THEOREM DependenciesAreEarned == ReachSpec => []ReachIsEarned
<1>1. ReachInv => ReachIsEarned
  BY ReachableIsFounded, EvidenceRaises, SameTreeComesOut, AffectedAreTold DEF ReachIsEarned
<1>2. QED
  BY <1>1, ReachInvHolds, PTL

-----------------------------------------------------------------------------
(* The approval engine of the Python tools.  A record that was not turned  *)
(* down has a history that its state determines; steps of a record only    *)
(* add to its history, and an approver is named once, before anything is   *)
(* applied.                                                                *)

Steps == {"PROPOSED", "REVIEWED", "APPROVED", "APPLIED", "VERIFIED", "FAILED", "ROLLED_BACK"}

Kinds == {NormalizeCategory(c) : c \in Categories}

UserNames == {a.username : a \in Actors} \cup {"none"}

Proposal ==
  [state: Steps, category: Kinds, explicit: BOOLEAN, proposer: UserNames, approver: UserNames,
   history: Seq(Steps)]

\* What the state of a record says of its history.
StateTells(r) ==
  /\ r.history # <<>> /\ r.history[1] = "PROPOSED"
  /\ r.state = "PROPOSED" => r.history = <<"PROPOSED">>
  /\ r.state = "REVIEWED" => r.history = <<"PROPOSED", "REVIEWED">>
  /\ r.state = "APPROVED" => /\ r.history = <<"PROPOSED", "REVIEWED", "APPROVED">>
                             /\ Folded[r.approver] # Folded[r.proposer]

\* AppliedWasApproved, of one record.
AppliedInOrder(r) ==
  \A k \in DOMAIN r.history : r.history[k] = "APPLIED" =>
    /\ r.history[k - 1] \in {"PROPOSED", "REVIEWED", "APPROVED"}
    /\ r.explicit =>
         /\ SubSeq(r.history, 1, k - 1) = <<"PROPOSED", "REVIEWED", "APPROVED">>
         /\ Folded[r.approver] # Folded[r.proposer]

\* The state of a record is the last of its history, and somebody proposed it.
LastTells(r) ==
  r.history[Len(r.history)] = r.state /\ r.proposer \in {a.username : a \in Actors}

GoodProposal(r) == r \in Proposal /\ StateTells(r) /\ AppliedInOrder(r) /\ LastTells(r)

ApprovalInv ==
  /\ approvals = [i \in Ids |-> approvals[i]]
  /\ \A i \in Ids : approvals[i] = NoRecord \/ GoodProposal(approvals[i])

\* The record that a step leaves.
Moved(r, state) == [r EXCEPT !.state = state, !.history = Append(@, state)]

\* The fields of a record after a step.
IsMoved(new, r, state) ==
  /\ new \in Proposal
  /\ new.state = state /\ new.history = Append(r.history, state)
  /\ new.explicit = r.explicit /\ new.proposer = r.proposer /\ new.approver = r.approver

LEMMA MovedFields ==
  ASSUME NEW r \in Proposal, NEW state \in Steps
  PROVE  IsMoved(Moved(r, state), r, state)
<1> DEFINE longer == Append(r.history, state)
<1>1. longer \in Seq(Steps)
  BY AppendProperties DEF Proposal
<1>2. Moved(r, state) = [r EXCEPT !.state = state, !.history = longer]
  BY DEF Moved
<1> HIDE DEF longer
<1>3. Moved(r, state) \in Proposal
  BY <1>1, <1>2 DEF Proposal
<1>4. /\ Moved(r, state).state = state /\ Moved(r, state).history = longer
      /\ Moved(r, state).explicit = r.explicit /\ Moved(r, state).proposer = r.proposer
      /\ Moved(r, state).approver = r.approver
  BY <1>2 DEF Proposal
<1>5. QED
  BY <1>3, <1>4 DEF IsMoved, longer

LEMMA MovedLastTells ==
  ASSUME NEW r, NEW state \in Steps, NEW new, IsMoved(new, r, state),
         r.history \in Seq(Steps), r.proposer \in {a.username : a \in Actors}
  PROVE  LastTells(new)
<1>1. new.history = Append(r.history, state) /\ new.state = state /\ new.proposer = r.proposer
  BY DEF IsMoved
<1>2. Len(new.history) = Len(r.history) + 1 /\ new.history[Len(r.history) + 1] = state
  BY <1>1, AppendProperties
<1>3. QED
  BY <1>1, <1>2 DEF LastTells

\* What was applied in order stays so whatever is added, other than a new application.
LEMMA LongerKeepsOrder ==
  ASSUME NEW r \in Proposal, AppliedInOrder(r), r.history # <<>>, r.history[1] = "PROPOSED",
         NEW state \in Steps, NEW new, IsMoved(new, r, state),
         state = "APPLIED" =>
           /\ r.history[Len(r.history)] \in {"PROPOSED", "REVIEWED", "APPROVED"}
           /\ r.explicit => /\ r.history = <<"PROPOSED", "REVIEWED", "APPROVED">>
                            /\ Folded[r.approver] # Folded[r.proposer]
  PROVE  AppliedInOrder(new)
<1> DEFINE h == r.history
           n == new.history
<1>1. h \in Seq(Steps) /\ n = Append(h, state) /\ Len(h) \in Nat
  BY LenProperties DEF Proposal, IsMoved
<1>0. Len(h) > 0 /\ h[1] = "PROPOSED"
  BY <1>1, LenProperties, EmptySeq
<1>2. n \in Seq(Steps) /\ Len(n) = Len(h) + 1 /\ n[Len(h) + 1] = state
      /\ \A k \in 1 .. Len(h) : n[k] = h[k]
  BY <1>1, AppendProperties
<1>3. DOMAIN n = 1 .. Len(h) + 1 /\ DOMAIN h = 1 .. Len(h)
  BY <1>1, <1>2, LenProperties
<1>4. \A k \in 1 .. Len(h) + 1 : SubSeq(n, 1, k - 1) = SubSeq(h, 1, k - 1)
  <2> SUFFICES ASSUME NEW k \in 1 .. Len(h) + 1
               PROVE  SubSeq(n, 1, k - 1) = SubSeq(h, 1, k - 1)
    OBVIOUS
  <2>1. SubSeq(n, 1, k - 1) = [i \in 1 .. k - 1 |-> n[i]]
    BY <1>1, <1>2, SubSeqProperties
  <2>2. SubSeq(h, 1, k - 1) = [i \in 1 .. k - 1 |-> h[i]]
    BY <1>1, SubSeqProperties
  <2>3. QED
    BY <1>1, <1>2, <2>1, <2>2
<1>5. SubSeq(h, 1, Len(h)) = h
  BY <1>1, SubSeqProperties
<1>6. /\ new.explicit = r.explicit /\ new.proposer = r.proposer /\ new.approver = r.approver
  BY DEF IsMoved
<1> SUFFICES ASSUME NEW k \in 1 .. Len(h) + 1, n[k] = "APPLIED"
             PROVE  /\ n[k - 1] \in {"PROPOSED", "REVIEWED", "APPROVED"}
                    /\ r.explicit =>
                         /\ SubSeq(h, 1, k - 1) = <<"PROPOSED", "REVIEWED", "APPROVED">>
                         /\ Folded[r.approver] # Folded[r.proposer]
  BY <1>3, <1>4, <1>6 DEF AppliedInOrder
<1>7. CASE k = Len(h) + 1
  <2>1. state = "APPLIED" /\ k - 1 = Len(h) /\ Len(h) \in 1 .. Len(h)
    BY <1>0, <1>1, <1>2, <1>7
  <2>2. n[k - 1] = h[Len(h)]
    BY <1>2, <2>1
  <2>3. SubSeq(h, 1, k - 1) = h
    BY <1>5, <2>1
  <2>4. QED
    BY <2>1, <2>2, <2>3
<1>8. CASE k \in 1 .. Len(h)
  <2>1. h[k] = "APPLIED"
    BY <1>2, <1>8
  <2>2. /\ h[k - 1] \in {"PROPOSED", "REVIEWED", "APPROVED"}
        /\ r.explicit =>
             /\ SubSeq(h, 1, k - 1) = <<"PROPOSED", "REVIEWED", "APPROVED">>
             /\ Folded[r.approver] # Folded[r.proposer]
    BY <1>3, <1>8, <2>1 DEF AppliedInOrder
  <2>3. k # 1
    BY <1>0, <2>1
  <2>4. QED
    BY <1>1, <1>2, <1>8, <2>2, <2>3
<1>9. QED
  BY <1>1, <1>7, <1>8

LEMMA OneReplaced ==
  ASSUME ApprovalInv, NEW i \in Ids, NEW new, GoodProposal(new),
         approvals' = [approvals EXCEPT ![i] = new]
  PROVE  ApprovalInv'
BY DEF ApprovalInv

\* A step that adds a state other than the first three, or APPLIED out of the right one.
LEMMA MovedIsGood ==
  ASSUME NEW r, GoodProposal(r), NEW state \in Steps, state \notin {"PROPOSED", "REVIEWED", "APPROVED"},
         state = "APPLIED" => /\ r.state \in {"PROPOSED", "REVIEWED", "APPROVED"}
                              /\ r.explicit => r.state = "APPROVED"
  PROVE  GoodProposal(Moved(r, state))
<1> PICK new : new = Moved(r, state)
  OBVIOUS
<1>1. r \in Proposal /\ StateTells(r) /\ AppliedInOrder(r)
  BY DEF GoodProposal
<1>2. IsMoved(new, r, state)
  BY <1>1, MovedFields
<1>3. r.history # <<>> /\ r.history[1] = "PROPOSED" /\ r.history \in Seq(Steps)
  BY <1>1 DEF StateTells, Proposal
<1>4. state = "APPLIED" =>
        /\ r.history[Len(r.history)] \in {"PROPOSED", "REVIEWED", "APPROVED"}
        /\ r.explicit => /\ r.history = <<"PROPOSED", "REVIEWED", "APPROVED">>
                         /\ Folded[r.approver] # Folded[r.proposer]
  BY <1>1 DEF StateTells
<1>5. AppliedInOrder(new)
  BY <1>1, <1>2, <1>3, <1>4, LongerKeepsOrder
<1>6. new.history # <<>> /\ new.history[1] = "PROPOSED"
  <2>1. Len(r.history) \in Nat \ {0} /\ new.history = Append(r.history, state)
    BY <1>2, <1>3, EmptySeq, LenProperties DEF IsMoved
  <2>2. QED
    BY <1>3, <2>1, AppendProperties, EmptySeq
<1>7. StateTells(new)
  BY <1>2, <1>6 DEF StateTells, IsMoved
<1>8. r.proposer \in {a.username : a \in Actors}
  BY DEF GoodProposal, LastTells
<1>9. LastTells(new)
  BY <1>2, <1>3, <1>8, MovedLastTells
<1>10. QED
  BY <1>2, <1>5, <1>7, <1>9 DEF GoodProposal, IsMoved

LEMMA ProposedIsGood ==
  ASSUME NEW i \in Ids, NEW c \in Categories, NEW e \in Environments, NEW a \in Actors, ApprovalInv,
         ProposeRemediation(i, c, e, a)
  PROVE  ApprovalInv'
<1> PICK explicit \in BOOLEAN : explicit = RequiresExplicitApproval(c, e)
  BY DEF RequiresExplicitApproval
<1> PICK category \in Kinds : category = NormalizeCategory(c)
  BY DEF Kinds
<1> DEFINE new == [state |-> "PROPOSED", category |-> category, explicit |-> explicit,
                   proposer |-> a.username, approver |-> "none", history |-> <<"PROPOSED">>]
<1>1. new \in Proposal
  BY DEF Proposal, Steps, UserNames
<1>2. new.state = "PROPOSED" /\ new.history = <<"PROPOSED">> /\ new.proposer = a.username
  OBVIOUS
<1>3. approvals' = [approvals EXCEPT ![i] = new]
  BY DEF ProposeRemediation
<1> HIDE DEF new
<1>4. StateTells(new)
  BY <1>2 DEF StateTells
<1>5. AppliedInOrder(new)
  BY <1>2 DEF AppliedInOrder
<1>6. LastTells(new)
  BY <1>2 DEF LastTells
<1>7. QED
  BY <1>1, <1>3, <1>4, <1>5, <1>6, OneReplaced DEF GoodProposal

LEMMA ReviewedIsGood ==
  ASSUME NEW i \in Ids, ApprovalInv, ReviewRemediation(i)
  PROVE  ApprovalInv'
<1> DEFINE r == approvals[i]
<1> PICK new : new = Moved(r, "REVIEWED")
  OBVIOUS
<1>1. GoodProposal(r) /\ r.state = "PROPOSED"
  BY DEF ApprovalInv, ReviewRemediation, InState, NoRecord
<1>2. approvals' = [approvals EXCEPT ![i] = new]
  BY DEF ReviewRemediation, Move, Moved
<1>0. r.proposer \in {a.username : a \in Actors}
  BY <1>1 DEF GoodProposal, LastTells
<1>3. r \in Proposal /\ r.history = <<"PROPOSED">> /\ AppliedInOrder(r)
  BY <1>1 DEF GoodProposal, StateTells
<1> HIDE DEF r
<1>4. IsMoved(new, r, "REVIEWED")
  BY <1>3, MovedFields DEF Steps
<1>5. new.history = <<"PROPOSED", "REVIEWED">>
  BY <1>3, <1>4 DEF IsMoved
<1>6. StateTells(new)
  BY <1>4, <1>5 DEF StateTells, IsMoved
<1>7. AppliedInOrder(new)
  BY <1>5 DEF AppliedInOrder
<1>8. LastTells(new)
  <2>1. r.history \in Seq(Steps)
    BY <1>3 DEF Proposal
  <2>2. QED
    BY <1>4, <1>0, <2>1, MovedLastTells DEF Steps
<1>9. QED
  BY <1>2, <1>4, <1>6, <1>7, <1>8, OneReplaced DEF GoodProposal, IsMoved

LEMMA ApprovedIsGood ==
  ASSUME NEW i \in Ids, NEW a \in Actors, ApprovalInv, ApproveRemediation(i, a)
  PROVE  ApprovalInv'
<1> DEFINE r     == approvals[i]
           named == [r EXCEPT !.approver = a.username]
<1> PICK new : new = Moved(named, "APPROVED")
  OBVIOUS
<1>1. GoodProposal(r) /\ r.state = "REVIEWED"
  BY DEF ApprovalInv, ApproveRemediation, InState, NoRecord
<1>2. approvals' = [approvals EXCEPT ![i] = new]
  BY DEF ApproveRemediation, Move, Moved
<1>3. r \in Proposal /\ r.history = <<"PROPOSED", "REVIEWED">> /\ a.username \in UserNames
  BY <1>1 DEF GoodProposal, StateTells, UserNames
<1>11. r.proposer \in {b.username : b \in Actors}
  BY <1>1 DEF GoodProposal, LastTells
<1>0. Folded[r.proposer] # Folded[a.username]
  BY DEF ApproveRemediation
<1> HIDE DEF r
<1>4. /\ named \in Proposal /\ named.history = r.history
      /\ named.approver = a.username /\ named.proposer = r.proposer
  BY <1>3 DEF Proposal
<1> HIDE DEF named
<1>5. IsMoved(new, named, "APPROVED")
  BY <1>4, MovedFields DEF Steps
<1>6. new.history = <<"PROPOSED", "REVIEWED", "APPROVED">>
  BY <1>3, <1>4, <1>5 DEF IsMoved
<1>7. Folded[new.approver] # Folded[new.proposer]
  BY <1>0, <1>4, <1>5 DEF IsMoved
<1>8. StateTells(new)
  BY <1>5, <1>6, <1>7 DEF StateTells, IsMoved
<1>9. AppliedInOrder(new)
  BY <1>6 DEF AppliedInOrder
<1>10. LastTells(new)
  <2>1. named.history \in Seq(Steps)
    BY <1>4 DEF Proposal
  <2>2. named.proposer \in {b.username : b \in Actors}
    BY <1>4, <1>11
  <2>3. QED
    BY <1>5, <2>1, <2>2, MovedLastTells DEF Steps
<1>12. QED
  BY <1>2, <1>5, <1>8, <1>9, <1>10, OneReplaced DEF GoodProposal, IsMoved

\* The other steps of a record that exists.
LEMMA OtherMovesAreGood ==
  ASSUME NEW i \in Ids, ApprovalInv, ~InState(i, {"NONE"}),
         NEW state \in {"APPLIED", "VERIFIED", "FAILED", "ROLLED_BACK"}, Move(i, approvals[i], state),
         state = "APPLIED" => /\ InState(i, {"APPROVED", "REVIEWED", "PROPOSED"})
                              /\ approvals[i].explicit => InState(i, {"APPROVED"})
  PROVE  ApprovalInv'
<1> DEFINE r == approvals[i]
<1>1. GoodProposal(r)
  BY DEF ApprovalInv, InState, NoRecord
<1>2. approvals' = [approvals EXCEPT ![i] = Moved(r, state)]
  BY DEF Move, Moved
<1>3. state = "APPLIED" => /\ r.state \in {"PROPOSED", "REVIEWED", "APPROVED"}
                           /\ r.explicit => r.state = "APPROVED"
  BY DEF InState
<1> HIDE DEF r
<1>4. GoodProposal(Moved(r, state))
  BY <1>1, <1>3, MovedIsGood DEF Steps
<1>5. QED
  BY <1>2, <1>4, OneReplaced

LEMMA ApprovalStep == ApprovalInv /\ [ApprovalNext]_approvals => ApprovalInv'
<1> SUFFICES ASSUME ApprovalInv, [ApprovalNext]_approvals
             PROVE  ApprovalInv'
  OBVIOUS
<1>1. ASSUME UNCHANGED approvals
      PROVE  ApprovalInv'
  BY <1>1 DEF ApprovalInv
<1>2. ASSUME NEW i \in Ids, NEW c \in Categories, NEW e \in Environments, NEW a \in Actors,
             ProposeRemediation(i, c, e, a)
      PROVE  ApprovalInv'
  BY <1>2, ProposedIsGood
<1>3. ASSUME NEW i \in Ids, ReviewRemediation(i)
      PROVE  ApprovalInv'
  BY <1>3, ReviewedIsGood
<1>4. ASSUME NEW i \in Ids, NEW a \in Actors, ApproveRemediation(i, a)
      PROVE  ApprovalInv'
  BY <1>4, ApprovedIsGood
<1>5. ASSUME NEW i \in Ids, ApplyRemediation(i)
      PROVE  ApprovalInv'
  <2>1. ~InState(i, {"NONE"})
    BY <1>5 DEF ApplyRemediation, InState
  <2>2. QED
    BY <1>5, <2>1, OtherMovesAreGood DEF ApplyRemediation
<1>6. ASSUME NEW i \in Ids, FailRemediation(i)
      PROVE  ApprovalInv'
  BY <1>6, OtherMovesAreGood DEF FailRemediation
<1>7. ASSUME NEW i \in Ids, NEW given \in BOOLEAN, NEW passed \in SUBSET {"tests_passed", "finding_resolved"},
             VerifyRemediation(i, given, passed)
      PROVE  ApprovalInv'
  <2>1. ~InState(i, {"NONE"})
    BY <1>7 DEF VerifyRemediation, InState
  <2>2. Move(i, approvals[i], "VERIFIED") \/ FailRemediation(i)
    BY <1>7 DEF VerifyRemediation
  <2>3. QED
    BY <1>6, <2>1, <2>2, OtherMovesAreGood
<1>8. ASSUME NEW i \in Ids, RollbackRemediation(i)
      PROVE  ApprovalInv'
  <2>1. ~InState(i, {"NONE"})
    BY <1>8 DEF RollbackRemediation, InState
  <2>2. QED
    BY <1>8, <2>1, OtherMovesAreGood DEF RollbackRemediation
<1>9. QED
  BY <1>1, <1>2, <1>3, <1>4, <1>5, <1>6, <1>7, <1>8 DEF ApprovalNext

\* A sensitive change is applied only right after its approval by another person than
\* its proposer, any other only while nobody turned it down, whatever steps the callers
\* of the engine take in whatever order (apply_remediation).
THEOREM AppliedWithApproval == ApprovalSpec => []AppliedWasApproved
<1>1. ApprovalInit => ApprovalInv
  BY DEF ApprovalInit, ApprovalInv
<1>2. ApprovalInv => AppliedWasApproved
  BY DEF ApprovalInv, AppliedWasApproved, GoodProposal, AppliedInOrder
<1>3. QED
  BY <1>1, <1>2, ApprovalStep, PTL DEF ApprovalSpec

-----------------------------------------------------------------------------
(* Patches and the plan.  A patch is final when each of its lines is: what *)
(* the patch writes over a line is never something that it would replace,  *)
(* other than a call it hid until then, and those the check of the patch   *)
(* looks for.                                                              *)

\* Dropping the comments of a list, line by line.
LEMMA CodeKeptSteps ==
  ASSUME NEW seq, NEW n \in Nat, DOMAIN seq = 1..n
  PROVE  \E h : /\ h[0] = <<>> /\ FoldLeft(KeepCode, <<>>, seq) = h[n]
                /\ \A i \in 1..n : h[i] = KeepCode(h[i - 1], seq[i])
<1> DEFINE Eq(g) == g = [s \in SUBSET (1..n) |->
                           IF s = {} THEN <<>> ELSE KeepCode(g[s \ {Max(s)}], seq[Max(s)])]
           iter == CHOOSE g : Eq(g)
           T == Seq({seq[j] : j \in 1..n})
           step == [p \in (1..n) \X T |-> KeepCode(p[2], seq[p[1]])]
<1>1. FoldLeft(KeepCode, <<>>, seq) = iter[1..n]
  BY DEF FoldLeft, MapThenFoldSet, KeepCode
<1>2. \E g : Eq(g)
  <2>1. step \in [(1..n) \X T -> T] /\ <<>> \in T
    <3>1. \A i \in 1..n, t \in T : KeepCode(t, seq[i]) \in T
      BY AppendProperties DEF KeepCode
    <3>2. <<>> \in T
      BY EmptySeq
    <3> HIDE DEF T
    <3>3. QED
      BY <3>1, <3>2
  <2>2. \A i \in 1..n, t \in T : step[<<i, t>>] = KeepCode(t, seq[i])
    OBVIOUS
  <2> HIDE DEF step, T
  <2>3. PICK g \in [SUBSET (1..n) -> T] : Folds(g, n, <<>>, step)
    BY <2>1, FoldAlwaysExists DEF FoldExists
  <2>4. ASSUME NEW s \in SUBSET (1..n)
        PROVE  g[s] = IF s = {} THEN <<>> ELSE KeepCode(g[s \ {Max(s)}], seq[Max(s)])
    <3>1. CASE s # {}
      <4>1. Max(s) \in 1..n /\ g[s \ {Max(s)}] \in T
        BY <3>1, MaxInside
      <4>2. QED
        BY <2>2, <2>3, <3>1, <4>1 DEF Folds
    <3>2. QED
      BY <2>3, <3>1 DEF Folds
  <2>5. Eq(g)
    BY <2>3, <2>4
  <2>6. QED
    BY <2>5
<1>3. Eq(iter)
  <2> HIDE DEF Eq
  <2>1. QED
    BY <1>2
<1> HIDE DEF iter
<1> DEFINE h == [i \in 0..n |-> iter[1..i]]
<1>4. h[0] = <<>> /\ h[n] = iter[1..n]
  <2>1. iter[1..0] = <<>>
    <3>1. \A s \in SUBSET (1..n) : s = {} => iter[s] = <<>>
      BY <1>3
    <3> HIDE DEF Eq
    <3>2. 1..0 \in SUBSET (1..n) /\ 1..0 = {}
      OBVIOUS
    <3>3. QED
      BY <3>1, <3>2
  <2> HIDE DEF Eq
  <2>2. QED
    BY <2>1
<1>5. ASSUME NEW i \in 1..n PROVE h[i] = KeepCode(h[i - 1], seq[i])
  <2>1. \A s \in SUBSET (1..n) :
          iter[s] = IF s = {} THEN <<>> ELSE KeepCode(iter[s \ {Max(s)}], seq[Max(s)])
    BY <1>3
  <2>2. iter[1..i] = KeepCode(iter[1..(i - 1)], seq[i])
    BY <2>1, PrefixSteps
  <2>3. i \in 0..n /\ i - 1 \in 0..n
    OBVIOUS
  <2>4. QED
    BY <2>2, <2>3
<1> HIDE DEF h
<1>6. QED
  BY <1>1, <1>4, <1>5

\* What is kept are lines that were there.
LEMMA CodeKept ==
  ASSUME NEW seq, NEW n \in Nat, DOMAIN seq = 1..n
  PROVE  FoldLeft(KeepCode, <<>>, seq) \in Seq({seq[j] : j \in 1..n})
<1>1. PICK h : /\ h[0] = <<>> /\ FoldLeft(KeepCode, <<>>, seq) = h[n]
               /\ \A i \in 1..n : h[i] = KeepCode(h[i - 1], seq[i])
  BY CodeKeptSteps
<1> DEFINE good == {i \in 0..n : h[i] \in Seq({seq[j] : j \in 1..n})}
<1>2. 0 \in good
  <2>1. h[0] \in Seq({seq[j] : j \in 1..n}) /\ 0 \in 0..n
    BY <1>1, EmptySeq
  <2>2. QED
    BY <2>1
<1>3. ASSUME NEW i \in 1..n, i - 1 \in good PROVE i \in good
  <2>1. h[i] = KeepCode(h[i - 1], seq[i])
    BY <1>1
  <2>2. h[i - 1] \in Seq({seq[j] : j \in 1..n})
    BY <1>3
  <2>3. h[i] \in Seq({seq[j] : j \in 1..n})
    BY <2>1, <2>2, AppendProperties DEF KeepCode
  <2>4. QED
    BY <2>3
<1> HIDE DEF good
<1>4. \A i \in 0..n : i \in good
  BY <1>2, <1>3, CountUp
<1>5. n \in good
  BY <1>4
<1>6. QED
  BY <1>1, <1>5 DEF good

\* The fields of a line that is a record of a form.
NamedForms == {"import", "bare", "createHash", "unqualified", "cipher", "createCipheriv"}

LEMMA LineForms ==
  ASSUME NEW line \in Lines
  PROVE  /\ line.form = "hashlib" => line \in [form : {"hashlib"}, calls : Seq(Words)]
         /\ line.form \in NamedForms => line \in [form : NamedForms, name : Words]
         /\ line.form \in {"keygen", "modulus"} => line \in [form : {"keygen", "modulus"}, size : Nat]
         /\ line.form = "ssl_protocols" => line \in [form : {"ssl_protocols"}, versions : SUBSET Words]
BY DEF Lines, NamedForms

LEMMA TargetHashes == TargetHash \in {"sha256", "sha384"} /\ TargetHash \in Words
<1>1. TargetHash \in {"sha256", "sha384"}
  BY Zenon DEF TargetHash
<1>2. QED
  BY <1>1, WordsAssumption

\* A name or a size that is written over another.
LEMMA RenamedLine ==
  ASSUME NEW line \in Lines, line.form \in NamedForms, NEW name \in Words
  PROVE  LET new == [line EXCEPT !.name = name]
         IN  new \in Lines /\ new.form = line.form /\ new.name = name
<1>1. line \in [form : NamedForms, name : Words]
  BY LineForms
<1>2. [line EXCEPT !.name = name] \in [form : NamedForms, name : Words]
  BY <1>1
<1>3. QED
  BY <1>1, <1>2 DEF Lines, NamedForms

LEMMA ResizedLine ==
  ASSUME NEW line \in Lines, line.form \in {"keygen", "modulus"}, NEW size \in Nat
  PROVE  LET new == [line EXCEPT !.size = size]
         IN  new \in Lines /\ new.form = line.form /\ new.size = size
<1>1. line \in [form : {"keygen", "modulus"}, size : Nat]
  BY LineForms
<1>2. QED
  BY <1>1 DEF Lines

-----------------------------------------------------------------------------
(* Python. *)

WeakCalls(line) == {i \in DOMAIN line.calls : line.calls[i] \in {"md5", "sha1", "sha224"}}

LEMMA VisitCallFields ==
  ASSUME NEW line \in Lines, line.form = "hashlib"
  PROVE  VisitCall(line) \in Lines /\ VisitCall(line).form = "hashlib"
<1>1. line \in [form : {"hashlib"}, calls : Seq(Words)]
  BY LineForms
<1>2. PICK weak : weak = WeakCalls(line)
  OBVIOUS
<1>3. PICK k : k = CHOOSE i \in weak : \A j \in weak : i <= j
  OBVIOUS
<1>4. VisitCall(line) = IF weak = {} THEN line ELSE [line EXCEPT !.calls[k] = TargetHash]
  <2>1. VisitCall(line) =
          IF WeakCalls(line) = {} THEN line
          ELSE [line EXCEPT !.calls[CHOOSE i \in WeakCalls(line) : \A j \in WeakCalls(line) : i <= j] = TargetHash]
    BY Zenon DEF VisitCall, WeakCalls
  <2>2. QED
    BY <1>2, <1>3, <2>1, Zenon
<1>5. TargetHash \in Words
  BY TargetHashes
<1>6. PICK calls : calls = [line.calls EXCEPT ![k] = TargetHash]
  OBVIOUS
<1>7. line.calls \in Seq(Words)
  BY <1>1
<1>8. calls \in Seq(Words)
  <2>1. line.calls \in [1..Len(line.calls) -> Words] /\ Len(line.calls) \in Nat
    BY <1>7, LenProperties
  <2>2. calls \in [1..Len(line.calls) -> Words]
    BY <1>5, <1>6, <2>1
  <2>3. QED
    BY <2>1, <2>2
<1>9. [line EXCEPT !.calls[k] = TargetHash] = [line EXCEPT !.calls = calls]
  BY <1>6, Zenon
<1>10. [line EXCEPT !.calls = calls] \in [form : {"hashlib"}, calls : Seq(Words)]
  BY <1>1, <1>8
<1>11. QED
  BY <1>1, <1>4, <1>9, <1>10 DEF Lines

\* A visited line that has no weak call left is not changed by another visit.
LEMMA VisitPythonFields ==
  ASSUME NEW line \in Lines
  PROVE  LET new == VisitPython(line) IN
         /\ new \in Lines
         /\ new.form = "hashlib" => (WeakCalls(new) = {} => VisitPython(new) = new)
         /\ new.form # "hashlib" => VisitPython(new) = new
<1>1. CASE line.form = "hashlib"
  <2>1. VisitPython(line) = VisitCall(line)
    BY <1>1 DEF VisitPython
  <2>2. VisitPython(line) \in Lines /\ VisitPython(line).form = "hashlib"
    BY <1>1, <2>1, VisitCallFields
  <2>3. PICK new : new = VisitPython(line)
    OBVIOUS
  <2>4. new.form = "hashlib" => VisitPython(new) = VisitCall(new)
    BY DEF VisitPython
  <2>5. WeakCalls(new) = {} => VisitCall(new) = new
    BY Zenon DEF VisitCall, WeakCalls
  <2>6. QED
    BY <2>2, <2>3, <2>4, <2>5
<1>2. CASE line.form = "keygen"
  <2>1. PICK size \in Nat : size = 3072
    OBVIOUS
  <2>2. PICK new : new = [line EXCEPT !.size = size]
    BY Zenon
  <2>3. new \in Lines /\ new.form = "keygen" /\ new.size = 3072
    BY <1>2, <2>1, <2>2, ResizedLine
  <2>4. VisitPython(line) = IF line.size < 2048 THEN new ELSE line
    BY <1>2, <2>1, <2>2 DEF VisitPython
  <2>5. VisitPython(new) = new /\ (~(line.size < 2048) => VisitPython(line) = line)
    BY <1>2, <2>3 DEF VisitPython
  <2>6. QED
    BY <1>2, <2>3, <2>4, <2>5
<1>3. CASE line.form = "cipher"
  <2>1. PICK new : new = [line EXCEPT !.name = "AES"]
    OBVIOUS
  <2>2. new \in Lines /\ new.form = "cipher" /\ new.name = "AES"
    BY <1>3, <2>1, RenamedLine, WordsAssumption DEF NamedForms
  <2>3. VisitPython(line) = IF line.name \in {"TripleDES", "ARC4", "Blowfish"} THEN new ELSE line
    BY <1>3, <2>1 DEF VisitPython
  <2>4. /\ VisitPython(new) = new
        /\ line.name \notin {"TripleDES", "ARC4", "Blowfish"} => VisitPython(line) = line
    BY <1>3, <2>2 DEF VisitPython
  <2>5. QED
    BY <1>3, <2>2, <2>3, <2>4
<1>4. CASE line.form = "import"
  <2>0. TargetHash \in Words /\ TargetHash \notin {"md5", "sha1"}
    BY TargetHashes
  <2>1. PICK new : new = [line EXCEPT !.name = TargetHash]
    OBVIOUS
  <2>2. new \in Lines /\ new.form = "import" /\ new.name = TargetHash
    BY <1>4, <2>0, <2>1, RenamedLine DEF NamedForms
  <2>3. VisitPython(line) = IF line.name \in {"md5", "sha1"} THEN new ELSE line
    BY <1>4, <2>1 DEF VisitPython
  <2>4. /\ VisitPython(new) = new
        /\ line.name \notin {"md5", "sha1"} => VisitPython(line) = line
    BY <1>4, <2>0, <2>2 DEF VisitPython
  <2>5. QED
    BY <1>4, <2>2, <2>3, <2>4
<1>5. CASE line.form \notin {"hashlib", "keygen", "cipher", "import"}
  <2>1. VisitPython(line) = line
    BY <1>5 DEF VisitPython
  <2>2. QED
    BY <1>5, <2>1
<1>6. QED
  BY <1>1, <1>2, <1>3, <1>4, <1>5

\* What the printer leaves are visited lines.
LEMMA TransformPythonLines ==
  ASSUME NEW lines \in Seq(Lines)
  PROVE  TransformPython(lines) \in Seq({VisitPython(lines[j]) : j \in DOMAIN lines})
<1> DEFINE n       == Len(lines)
           visited == [i \in DOMAIN lines |-> VisitPython(lines[i])]
<1>1. n \in Nat /\ DOMAIN lines = 1..n
  BY LenProperties
<1>2. PICK seq : seq = visited
  OBVIOUS
<1>3. DOMAIN seq = 1..n /\ \A j \in 1..n : seq[j] = VisitPython(lines[j])
  BY <1>1, <1>2
<1>4. {seq[j] : j \in 1..n} = {VisitPython(lines[j]) : j \in DOMAIN lines}
  BY <1>1, <1>3
<1>5. TransformPython(lines) = IF seq = lines THEN lines ELSE FoldLeft(KeepCode, <<>>, seq)
  BY <1>2, Zenon DEF TransformPython
<1>6. seq \in Seq({seq[j] : j \in 1..n})
  <2>1. seq = [j \in 1..n |-> seq[j]]
    BY <1>1, <1>2, <1>3
  <2> HIDE DEF n
  <2>2. seq \in [1..n -> {seq[j] : j \in 1..n}]
    BY <2>1
  <2>3. QED
    BY <1>1, <2>2
<1> HIDE DEF n
<1>7. FoldLeft(KeepCode, <<>>, seq) \in Seq({seq[j] : j \in 1..n})
  BY <1>1, <1>3, CodeKept
<1>8. QED
  BY <1>4, <1>5, <1>6, <1>7

-----------------------------------------------------------------------------
(* The other languages. *)

\* The sizes that a replaced size begins with are not replaced again.
LEMMA ModulusOnce ==
  ASSUME NEW size \in Nat
  PROVE  Modulus(size) \in Nat /\ Modulus(Modulus(size)) = Modulus(size)
<1> DEFINE Prefixed(s) == {m \in {512, 1024} \X {1, 10} : s \in m[1] * m[2] .. (m[1] + 1) * m[2] - 1}
<1>1. \A s : Prefixed(s) = {} => Modulus(s) = s
  BY DEF Modulus
<1>2. CASE Prefixed(size) = {}
  BY <1>1, <1>2
<1>3. CASE Prefixed(size) # {}
  <2>1. PICK match \in Prefixed(size) : Modulus(size) = size + (3072 - match[1]) * match[2]
    <3> DEFINE Value(m) == size + (3072 - m[1]) * m[2]
    <3>1. Modulus(size) = IF Prefixed(size) = {} THEN size ELSE Value(CHOOSE m \in Prefixed(size) : TRUE)
      BY DEF Modulus
    <3> HIDE DEF Prefixed, Value
    <3>2. PICK match \in Prefixed(size) : match = CHOOSE m \in Prefixed(size) : TRUE
      BY <1>3, Zenon
    <3>3. Modulus(size) = Value(match)
      BY <1>3, <3>1, <3>2, Zenon
    <3>4. QED
      BY <3>3 DEF Value
  <2>2. /\ match \in {512, 1024} \X {1, 10}
        /\ size \in match[1] * match[2] .. (match[1] + 1) * match[2] - 1
    BY <2>1
  <2>3. match \in {<<512, 1>>, <<512, 10>>, <<1024, 1>>, <<1024, 10>>}
    BY <2>2
  <2>4. PICK new : new = Modulus(size)
    OBVIOUS
  <2>5. new = 3072 \/ new \in 30720 .. 30729
    <3>1. CASE match = <<512, 1>>
      BY <2>1, <2>2, <2>4, <3>1
    <3>2. CASE match = <<512, 10>>
      BY <2>1, <2>2, <2>4, <3>2
    <3>3. CASE match = <<1024, 1>>
      BY <2>1, <2>2, <2>4, <3>3
    <3>4. CASE match = <<1024, 10>>
      BY <2>1, <2>2, <2>4, <3>4
    <3>5. QED
      BY <2>3, <3>1, <3>2, <3>3, <3>4
  <2>6. ASSUME NEW m \in {512, 1024} \X {1, 10}, new \in m[1] * m[2] .. (m[1] + 1) * m[2] - 1 PROVE FALSE
    <3>1. m \in {<<512, 1>>, <<512, 10>>, <<1024, 1>>, <<1024, 10>>}
      OBVIOUS
    <3>2. QED
      BY <2>5, <2>6, <3>1
  <2>7. Prefixed(new) = {}
    BY <2>6
  <2>8. new \in Nat
    BY <2>5
  <2>9. QED
    BY <1>1, <2>4, <2>7, <2>8
<1>4. QED
  BY <1>2, <1>3

LEMMA VisitJavascriptFields ==
  ASSUME NEW line \in Lines
  PROVE  LET new == VisitJavascript(line)
         IN  new \in Lines /\ VisitJavascript(new) = new
<1>1. CASE line.form = "createHash"
  <2>0. TargetHash \in Words /\ TargetHash \notin {"md5", "sha1", "sha-1", "md4"}
    BY TargetHashes
  <2>1. PICK new : new = [line EXCEPT !.name = TargetHash]
    OBVIOUS
  <2>2. new \in Lines /\ new.form = "createHash" /\ new.name = TargetHash
    BY <1>1, <2>0, <2>1, RenamedLine DEF NamedForms
  <2>3. VisitJavascript(line) = IF line.name \in {"md5", "sha1", "sha-1", "md4"} THEN new ELSE line
    BY <1>1, <2>1 DEF VisitJavascript
  <2>4. /\ VisitJavascript(new) = new
        /\ line.name \notin {"md5", "sha1", "sha-1", "md4"} => VisitJavascript(line) = line
    BY <1>1, <2>0, <2>2 DEF VisitJavascript
  <2>5. QED
    BY <2>2, <2>3, <2>4
<1>2. CASE line.form = "createCipheriv"
  <2>1. PICK new : new = [line EXCEPT !.name = "aes-256-gcm"]
    OBVIOUS
  <2>2. new \in Lines /\ new.form = "createCipheriv" /\ new.name = "aes-256-gcm"
    BY <1>2, <2>1, RenamedLine, WordsAssumption DEF NamedForms
  <2>3. VisitJavascript(line) =
          IF line.name \in {"des-ede3-cbc", "des-cbc", "rc4", "bf-cbc"} THEN new ELSE line
    BY <1>2, <2>1 DEF VisitJavascript
  <2>4. /\ VisitJavascript(new) = new
        /\ line.name \notin {"des-ede3-cbc", "des-cbc", "rc4", "bf-cbc"} => VisitJavascript(line) = line
    BY <1>2, <2>2 DEF VisitJavascript
  <2>5. QED
    BY <2>2, <2>3, <2>4
<1>3. CASE line.form = "modulus"
  <2>1. line \in [form : {"keygen", "modulus"}, size : Nat]
    BY <1>3, LineForms
  <2>2. PICK size \in Nat : size = Modulus(line.size)
    BY <2>1, ModulusOnce
  <2>3. Modulus(size) = size
    BY <2>1, <2>2, ModulusOnce
  <2>4. PICK new : new = [line EXCEPT !.size = size]
    OBVIOUS
  <2>5. new \in Lines /\ new.form = "modulus" /\ new.size = size
    BY <1>3, <2>4, ResizedLine
  <2>6. VisitJavascript(line) = new
    BY <1>3, <2>2, <2>4 DEF VisitJavascript
  <2>7. VisitJavascript(new) = [new EXCEPT !.size = size]
    BY <2>3, <2>5 DEF VisitJavascript
  <2>8. new \in [form : {"keygen", "modulus"}, size : Nat]
    BY <2>5, LineForms
  <2>9. [new EXCEPT !.size = size] = new
    BY <2>5, <2>8
  <2>10. QED
    BY <2>5, <2>6, <2>7, <2>9
<1>4. CASE line.form \notin {"createHash", "createCipheriv", "modulus"}
  <2>1. VisitJavascript(line) = line
    BY <1>4 DEF VisitJavascript
  <2>2. QED
    BY <2>1
<1>5. QED
  BY <1>1, <1>2, <1>3, <1>4

LEMMA VisitConfigFields ==
  ASSUME NEW line \in Lines
  PROVE  LET new == VisitConfig(line)
         IN  new \in Lines /\ VisitConfig(new) = new
<1>1. CASE line.form = "ssl_protocols"
  <2>1. line \in [form : {"ssl_protocols"}, versions : SUBSET Words]
    BY <1>1, LineForms
  <2>2. PICK new : new = [line EXCEPT !.versions = {"TLSv1.2", "TLSv1.3"}]
    OBVIOUS
  <2>3. /\ new \in [form : {"ssl_protocols"}, versions : SUBSET Words]
        /\ new.form = "ssl_protocols" /\ new.versions = {"TLSv1.2", "TLSv1.3"}
    BY <2>1, <2>2, WordsAssumption
  <2>4. VisitConfig(line) = new /\ VisitConfig(new) = [new EXCEPT !.versions = {"TLSv1.2", "TLSv1.3"}]
    BY <1>1, <2>2, <2>3 DEF VisitConfig
  <2>5. [new EXCEPT !.versions = {"TLSv1.2", "TLSv1.3"}] = new
    BY <2>3
  <2>6. QED
    BY <2>3, <2>4, <2>5 DEF Lines
<1>2. CASE line.form # "ssl_protocols"
  BY <1>2 DEF VisitConfig
<1>3. QED
  BY <1>1, <1>2

-----------------------------------------------------------------------------
(* A patch. *)

LEMMA PatchHasLines ==
  ASSUME NEW language, NEW lines \in Seq(Lines)
  PROVE  GeneratePatch(language, lines) \in Seq(Lines)
<1>1. Len(lines) \in Nat /\ DOMAIN lines = 1..Len(lines) /\ \A i \in DOMAIN lines : lines[i] \in Lines
  BY LenProperties, ElementOfSeq
<1>2. CASE language = "python"
  <2>1. TransformPython(lines) \in Seq({VisitPython(lines[j]) : j \in DOMAIN lines})
    BY TransformPythonLines
  <2>2. {VisitPython(lines[j]) : j \in DOMAIN lines} \subseteq Lines
    BY <1>1, VisitPythonFields
  <2>3. TransformPython(lines) \in Seq(Lines)
    BY <2>1, <2>2
  <2>4. QED
    BY <1>2, <2>3 DEF GeneratePatch
<1>3. CASE language = "config"
  <2>1. \A i \in DOMAIN lines : VisitConfig(lines[i]) \in Lines
    BY <1>1, VisitConfigFields
  <2>2. TransformConfig(lines) \in [1..Len(lines) -> Lines]
    BY <1>1, <2>1 DEF TransformConfig
  <2>3. TransformConfig(lines) \in Seq(Lines)
    BY <1>1, <2>2
  <2>4. QED
    BY <1>3, <2>3 DEF GeneratePatch
<1>4. CASE language \notin {"python", "config"}
  <2>1. \A i \in DOMAIN lines : VisitJavascript(lines[i]) \in Lines
    BY <1>1, VisitJavascriptFields
  <2>2. TransformJavascript(lines) \in [1..Len(lines) -> Lines]
    BY <1>1, <2>1 DEF TransformJavascript
  <2>3. TransformJavascript(lines) \in Seq(Lines)
    BY <1>1, <2>2
  <2>4. QED
    BY <1>4, <2>3 DEF GeneratePatch
<1>5. QED
  BY <1>2, <1>3, <1>4

\* A list that a visit leaves alone, line by line, it leaves alone.
LEMMA SameLines ==
  ASSUME NEW lines \in Seq(Lines), NEW new, new = [i \in DOMAIN lines |-> new[i]],
         \A i \in DOMAIN lines : new[i] = lines[i]
  PROVE  new = lines
<1>1. lines = [i \in DOMAIN lines |-> lines[i]]
  OBVIOUS
<1>2. QED
  BY <1>1

\* Some call of a replaced call is a sha224, which the check of the patch does not know.
Hidden(lines) ==
  \E i \in DOMAIN lines : /\ lines[i].form = "hashlib"
                          /\ \E c \in DOMAIN lines[i].calls : lines[i].calls[c] = "sha224"

LEMMA SafeIsFinal ==
  ASSUME NEW language, NEW lines \in Seq(Lines), NEW patched, patched = GeneratePatch(language, lines),
         SafeToApply(patched)
  PROVE  Hidden(patched) \/ GeneratePatch(language, patched) = patched
<1>1. patched \in Seq(Lines)
  BY PatchHasLines
<1>2. DOMAIN lines = 1..Len(lines) /\ Len(lines) \in Nat /\ \A i \in DOMAIN lines : lines[i] \in Lines
  BY LenProperties, ElementOfSeq
<1>3. DOMAIN patched = 1..Len(patched) /\ \A i \in DOMAIN patched : patched[i] \in Lines
  BY <1>1, LenProperties, ElementOfSeq
<1>4. CASE language = "python"
  <2> SUFFICES ASSUME ~Hidden(patched) PROVE GeneratePatch(language, patched) = patched
    OBVIOUS
  <2>1. patched \in Seq({VisitPython(lines[j]) : j \in DOMAIN lines})
    BY <1>4, TransformPythonLines DEF GeneratePatch
  <2>2. ASSUME NEW i \in DOMAIN patched PROVE VisitPython(patched[i]) = patched[i]
    <3>1. PICK j \in DOMAIN lines : patched[i] = VisitPython(lines[j])
      BY <1>3, <2>1, ElementOfSeq
    <3>2. lines[j] \in Lines
      BY <1>2
    <3>3. patched[i].form = "hashlib" => WeakCalls(patched[i]) = {}
      <4>1. i \notin Remaining(patched)
        BY DEF SafeToApply
      <4>2. patched[i].form = "hashlib" =>
              \A c \in DOMAIN patched[i].calls : patched[i].calls[c] \notin {"md5", "sha1"}
        BY <4>1, Zenon DEF Remaining
      <4>3. patched[i].form = "hashlib" =>
              \A c \in DOMAIN patched[i].calls : patched[i].calls[c] # "sha224"
        BY Zenon DEF Hidden
      <4>4. QED
        BY <4>2, <4>3 DEF WeakCalls
    <3>4. QED
      BY <3>1, <3>2, <3>3, VisitPythonFields
  <2>3. PICK visited : visited = [i \in DOMAIN patched |-> VisitPython(patched[i])]
    OBVIOUS
  <2>4. visited = patched
    BY <1>1, <2>2, <2>3, SameLines
  <2>5. TransformPython(patched) = patched
    BY <2>3, <2>4, Zenon DEF TransformPython
  <2>6. QED
    BY <1>4, <2>5 DEF GeneratePatch
<1>5. CASE language = "config"
  <2>1. patched = [i \in DOMAIN lines |-> VisitConfig(lines[i])]
    BY <1>5 DEF GeneratePatch, TransformConfig
  <2>2. \A i \in DOMAIN patched : VisitConfig(patched[i]) = patched[i]
    BY <1>2, <2>1, VisitConfigFields
  <2>3. TransformConfig(patched) = patched
    BY <1>1, <2>2, SameLines DEF TransformConfig
  <2>4. QED
    BY <1>5, <2>3 DEF GeneratePatch
<1>6. CASE language \notin {"python", "config"}
  <2>1. patched = [i \in DOMAIN lines |-> VisitJavascript(lines[i])]
    BY <1>6 DEF GeneratePatch, TransformJavascript
  <2>2. \A i \in DOMAIN patched : VisitJavascript(patched[i]) = patched[i]
    BY <1>2, <2>1, VisitJavascriptFields
  <2>3. TransformJavascript(patched) = patched
    BY <1>1, <2>2, SameLines DEF TransformJavascript
  <2>4. QED
    BY <1>6, <2>3 DEF GeneratePatch
<1>7. QED
  BY <1>4, <1>5, <1>6

-----------------------------------------------------------------------------
(* The patch tool. *)

\* A run holds what it read and its patch; past the check the patch is one that passed.
Patching(run) ==
  /\ run.phase \in {"generated", "safe", "writing"}
  /\ run.file \in Files
  /\ run.read \in Seq(Lines)
  /\ run.patched = GeneratePatch(Language[run.file], run.read)
  /\ run.phase \in {"safe", "writing"} => SafeToApply(run.patched)

PatchInv ==
  /\ files \in [Files -> Seq(Lines)]
  /\ patching = NotPatching \/ Patching(patching)

LEMMA PatchBegins == PatchInit => PatchInv
<1> SUFFICES ASSUME PatchInit PROVE PatchInv
  OBVIOUS
<1>1. \A f \in Files : files[f] \in Seq(Lines)
  BY ContentsAssumption DEF PatchInit
<1>2. files = [f \in Files |-> files[f]]
  BY DEF PatchInit
<1>3. QED
  BY <1>1, <1>2 DEF PatchInit, PatchInv

LEMMA NotPatchingIsIdle == NotPatching.phase = "idle"
BY DEF NotPatching

LEMMA PatchStep == PatchInv /\ [PatchNext]_patchVars => PatchInv'
<1> SUFFICES ASSUME PatchInv, [PatchNext]_patchVars PROVE PatchInv'
  OBVIOUS
<1>1. CASE UNCHANGED patchVars
  BY <1>1 DEF PatchInv, Patching, patchVars
<1>2. ASSUME NEW f \in Files, EditFile(f) PROVE PatchInv'
  <2>1. PICK content \in Contents[f] : files' = [files EXCEPT ![f] = content]
    BY <1>2 DEF EditFile
  <2>2. content \in Seq(Lines)
    BY <2>1, ContentsAssumption
  <2>3. patching' = patching
    BY <1>2 DEF EditFile
  <2>4. files' \in [Files -> Seq(Lines)]
    BY <2>1, <2>2 DEF PatchInv
  <2>5. QED
    BY <2>3, <2>4 DEF PatchInv
<1>3. ASSUME NEW f \in Files, Generate(f) PROVE PatchInv'
  <2>1. PICK patched : patched = GeneratePatch(Language[f], files[f])
    OBVIOUS
  <2>2. PICK run : run = [phase |-> "generated", file |-> f, read |-> files[f], patched |-> patched]
    OBVIOUS
  <2>3. patching' = run /\ files' = files
    BY <1>3, <2>1, <2>2 DEF Generate
  <2>4. /\ run.phase = "generated" /\ run.file = f /\ run.read = files[f] /\ run.patched = patched
    BY <2>2
  <2>5. files[f] \in Seq(Lines)
    BY DEF PatchInv
  <2>6. Patching(run)
    BY <2>1, <2>4, <2>5 DEF Patching
  <2>7. QED
    BY <2>3, <2>6 DEF PatchInv
<1>4. ASSUME ExecutePreApplicationLifecycle PROVE PatchInv'
  <2>1. PICK run : run = [phase |-> "safe", file |-> patching.file, read |-> patching.read,
                          patched |-> patching.patched, copy |-> files[patching.file]]
    OBVIOUS
  <2>2. patching.phase = "generated" /\ files' = files
    BY <1>4 DEF ExecutePreApplicationLifecycle
  <2>3. patching' = IF SafeToApply(patching.patched) THEN run ELSE NotPatching
    BY <1>4, <2>1 DEF ExecutePreApplicationLifecycle
  <2>4. Patching(patching)
    BY <2>2, NotPatchingIsIdle DEF PatchInv
  <2>5. /\ run.phase = "safe" /\ run.file = patching.file /\ run.read = patching.read
        /\ run.patched = patching.patched
    BY <2>1
  <2>6. SafeToApply(patching.patched) => Patching(run)
    BY <2>4, <2>5 DEF Patching
  <2>7. QED
    BY <2>2, <2>3, <2>6 DEF PatchInv
<1>5. ASSUME Apply PROVE PatchInv'
  <2>1. patching.phase = "writing" /\ patching' = NotPatching
    BY <1>5 DEF Apply
  <2>2. files' = [files EXCEPT ![patching.file] = patching.patched] \/ files' = files
    BY <1>5 DEF Apply
  <2>3. Patching(patching)
    BY <2>1, NotPatchingIsIdle DEF PatchInv
  <2>4. patching.patched \in Seq(Lines)
    BY <2>3, PatchHasLines DEF Patching
  <2>5. files' \in [Files -> Seq(Lines)]
    BY <2>2, <2>4 DEF PatchInv
  <2>6. QED
    BY <2>1, <2>5 DEF PatchInv
<1>6. ASSUME Interrupted PROVE PatchInv'
  BY <1>6 DEF Interrupted, PatchInv
<1>7. ASSUME OpenToWrite PROVE PatchInv'
  <2>1. patching.phase = "safe" /\ files' = [files EXCEPT ![patching.file] = <<>>]
    BY <1>7 DEF OpenToWrite
  <2>2. PICK run : run = [phase |-> "writing", file |-> patching.file, read |-> patching.read,
                          patched |-> patching.patched, copy |-> patching.copy]
    OBVIOUS
  <2>3. patching' = run
    BY <1>7, <2>2 DEF OpenToWrite
  <2>4. Patching(patching)
    BY <2>1, NotPatchingIsIdle DEF PatchInv
  <2>5. files' \in [Files -> Seq(Lines)]
    <3>1. <<>> \in Seq(Lines)
      OBVIOUS
    <3>2. QED
      BY <2>1, <3>1 DEF PatchInv
  <2>6. /\ run.phase = "writing" /\ run.file = patching.file /\ run.read = patching.read
        /\ run.patched = patching.patched
    BY <2>2
  <2>7. Patching(run)
    BY <2>1, <2>4, <2>6 DEF Patching
  <2>8. QED
    BY <2>3, <2>5, <2>7 DEF PatchInv
<1>8. QED
  BY <1>1, <1>2, <1>3, <1>4, <1>5, <1>6, <1>7 DEF PatchNext

LEMMA SafePatches == PatchInv => SafePatchIsFinal
<1> SUFFICES ASSUME PatchInv, patching.phase \in {"safe", "writing"}
             PROVE  \/ Hidden(patching.patched)
                    \/ GeneratePatch(Language[patching.file], patching.patched) = patching.patched
  BY DEF SafePatchIsFinal, Hidden
<1>1. Patching(patching)
  BY NotPatchingIsIdle DEF PatchInv
<1>2. QED
  BY <1>1, SafeIsFinal DEF Patching

\* Every urgent asset has a phase; which one, its complexity tells.
LEMMA UrgentPlanned == UrgentIsPlanned
<1> SUFFICES ASSUME NEW context \in Contexts,
                    NEW e \in Roadmap(files, context).entries,
                    e.priority \in {"critical", "high"},
                    ~(e.priority = "critical" /\ e.complexity = "high")
             PROVE  e.algorithm \in UNION {Roadmap(files, context).phases[p] : p \in {1, 2, 5}}
  BY DEF UrgentIsPlanned
<1>1. PICK assets : Roadmap(files, context) = GenerateRoadmap(assets)
  BY DEF Roadmap
<1> DEFINE entries == {Entry(a) : a \in assets}
           Planned(ps, cs) == {x.algorithm : x \in {y \in entries : y.priority \in ps /\ y.complexity \in cs}}
<1>2. /\ Roadmap(files, context).entries = entries
      /\ Roadmap(files, context).phases = Phases(entries, assets)
  BY <1>1 DEF GenerateRoadmap
<1>3. /\ Phases(entries, assets)[1] = Planned({"critical", "high"}, {"low", "medium"})
      /\ Phases(entries, assets)[2] = Planned({"high"}, {"unknown", "high"})
      /\ Phases(entries, assets)[5] =
           Planned({"critical", "high", "medium", "low", "informational"}, {"unknown"})
  BY DEF Phases
<1>4. e.complexity \in {"low", "medium", "unknown", "high"}
  <2>1. PICK a \in assets : e = Entry(a)
    BY <1>2
  <2>2. e.complexity = MigrationComplexity(a)
    BY <2>1 DEF Entry
  <2>3. QED
    BY <2>2, Zenon DEF MigrationComplexity
<1>5. e \in entries
  BY <1>2
<1> HIDE DEF entries
<1>6. \/ e.algorithm \in Phases(entries, assets)[1]
      \/ e.algorithm \in Phases(entries, assets)[2]
      \/ e.algorithm \in Phases(entries, assets)[5]
  BY <1>3, <1>4, <1>5
<1>7. QED
  BY <1>2, <1>6

\* A patch that passed the checks of the tool and has no sha224 call left is final whatever
\* the files hold and whoever edits them meanwhile (execute_pre_application_lifecycle); an
\* asset of high priority, or critical and not of high complexity, has a phase in the
\* roadmap (generate_phases); a proposal's state is the last of its history.
THEOREM PlansHold == ApprovalSpec /\ PatchSpec => []PlansAndPatchesHold
<1>1. ApprovalInit => ApprovalInv
  BY DEF ApprovalInit, ApprovalInv
<1>2. ApprovalInv /\ PatchInv => PlansAndPatchesHold
  <2> SUFFICES ASSUME ApprovalInv, PatchInv PROVE PlansAndPatchesHold
    OBVIOUS
  <2>1. ASSUME NEW i \in Ids
        PROVE  \/ approvals[i] = NoRecord
               \/ /\ approvals[i].history[Len(approvals[i].history)] = approvals[i].state
                  /\ approvals[i].proposer \in {a.username : a \in Actors}
    BY DEF ApprovalInv, GoodProposal, LastTells
  <2>2. DOMAIN files = Files
    BY DEF PatchInv
  <2>3. patching.phase \in {"idle", "generated", "safe", "writing"}
    BY NotPatchingIsIdle DEF PatchInv, Patching
  <2>4. QED
    BY <2>1, <2>2, <2>3, SafePatches, UrgentPlanned DEF PlansAndPatchesHold, LifecycleTypeOK
<1>3. QED
  BY <1>1, <1>2, ApprovalStep, PatchBegins, PatchStep, PTL DEF ApprovalSpec, PatchSpec

-----------------------------------------------------------------------------
(* The whole: each workload runs one of the specifications above.          *)

LEMMA LifecycleRuns == Spec => InventorySpec /\ ReachSpec
<1>1. Init => InventoryInit /\ ReachInit
  BY DEF Init
<1>2. [Next]_vars => [CodeNext \/ FeedNext]_inventoryVars /\ [ReachNext]_reachVars
  BY DEF Next, vars
<1>3. QED
  BY <1>1, <1>2, PTL DEF Spec, InventorySpec, ReachSpec

\* A report of the code lists every use, a comparison of two tells what changed, high risk
\* is told by every path that tells a rating, and what is called compliant, ready or
\* reachable has evidence.  (Compliance holds of prohibited algorithms only: key lengths are
\* not read, CompliantMeansLongEnough; "from x import y" is evidence, ImportsAreNotCalls.)
THEOREM InventoryIsRight == Spec => []InventorySaysTrue
<1>1. /\ InventoryTypeOK /\ HighRiskNeverComplies /\ ComplianceIsEarned /\ ReadinessIsEarned
      /\ EveryUsageIsPlaced /\ DiffIsExact /\ ReachIsEarned
      => InventorySaysTrue
  BY DEF InventorySaysTrue, InventoryRatingsAreEarned, DiffTellsWhatChanged
<1>2. QED
  BY <1>1, LifecycleRuns, InventoryTypes, HighRiskStaysOut, ComplianceHolds, ReadinessHolds, UsagesArePlaced,
     DiffsAreExact, DependenciesAreEarned, PTL


================================================================================
