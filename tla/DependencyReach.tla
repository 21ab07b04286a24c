---------------------------- MODULE DependencyReach ----------------------------
(***************************************************************************)
(* The dependencies of an application (sca/): the SBOM that lists them,    *)
(* how far the code is seen to reach into each, and the advisories that    *)
(* count for them.  Static and runtime findings arrive one at a time; what *)
(* is made of them is a function of the components and of what was seen.   *)
(*                                                                         *)
(*   payload     a JSON document: [object, bytes, unsafe, bomFormat,       *)
(*               specVersion, components, dependencies, spdxVersion,       *)
(*               spdxId, packages, relationships], where a list is a kind  *)
(*               ("list", "absent", "other") with its items; `unsafe' of   *)
(*               one with a dangerous key or too deep a nesting            *)
(*   finding     [type, target, api, snippet]: the package it names, the   *)
(*               API it calls (the identifiers it holds and those that     *)
(*               hold it), and the line of code (its form, what it imports *)
(*               and the identifiers in it)                                *)
(*   observation [target, describes] of the running program                *)
(*                                                                         *)
(* Names are in lower case; a reference is a sequence of them.  A version   *)
(* is its sequence of numbers: a suffix such as -rc1 is not looked at, and *)
(* "unknown" reads as 0.  What is absent is None, or an empty sequence.    *)
(***************************************************************************)
EXTENDS Integers, Sequences, FiniteSets, FiniteSetsExt

CONSTANTS
    Payloads,           \* what syft may write
    MaxSbomBytes, MaxComponents,
    KnowledgeBase,      \* key (canonical name, id or alias) -> [canonical, aliases, apis]
    Reading,            \* identifier -> [normal, purlName, purlBase], where they differ from it
    VulnerabilityDb,    \* the advisories of the offline database
    CustomAdvisories,   \* those a caller adds
    StaticFindings, RuntimeFindings

\* What a document lists is a sequence.
ASSUME PayloadsAssumption ==
    \A p \in Payloads : \A list \in {p.components, p.packages} :
        list.items \in Seq({list.items[i] : i \in DOMAIN list.items})

\* An advisory has one entry in the database, and every one has a score.
ASSUME AdvisoriesAssumption ==
    /\ \A a, b \in VulnerabilityDb : a.id = b.id => a = b
    /\ \A c \in CustomAdvisories : c.score \in Nat \ {0}

VARIABLES
    sbom,               \* what the last ingestion made of its payload
    seen                \* the findings that arrived

reachVars == <<sbom, seen>>

None == "none"
UnknownVersion == <<0>>

Or(value, default) == IF value = None THEN default ELSE value

OrElse(sequence, default) == IF sequence = <<>> THEN default ELSE sequence

-------------------------------------------------------------------------------
(***************************************************************************)
(* Ingestion.                                                              *)
(***************************************************************************)
CycloneDxVersions == {"1.4", "1.5", "1.6", "1.7"}

\* SPDX-2.x and SPDX-3.x.
SpdxVersions == {"SPDX-2.2", "SPDX-2.3", "SPDX-3.0"}

IsCycloneDx(payload) == payload.bomFormat = "CycloneDX" \/ payload.components.kind # "absent"

IsSpdx(payload) == ~IsCycloneDx(payload) /\ (payload.spdxVersion # None \/ payload.packages.kind # "absent")

\* check_for_dangerous_keys and the sizes come first, then the format, then the count.
ValidateStructure(payload) ==
    LET Listed == IF IsCycloneDx(payload) THEN payload.components ELSE payload.packages IN
    IF ~payload.object \/ payload.bytes > MaxSbomBytes \/ payload.unsafe THEN {"invalid"}
    ELSE IF ~IsCycloneDx(payload) /\ ~IsSpdx(payload) THEN {"unsupported"}
    ELSE {e \in {"unsupported"} :
             \/ IsCycloneDx(payload) /\ Or(payload.specVersion, "1.6") \notin CycloneDxVersions
             \/ IsSpdx(payload) /\ payload.spdxVersion \notin SpdxVersions \cup {None}}
         \cup
         {e \in {"invalid"} :
             \/ IsCycloneDx(payload) /\ payload.bomFormat \notin {"CycloneDX", None}
             \/ IsCycloneDx(payload) /\ Listed.kind = "other"
             \/ IsSpdx(payload) /\ Listed.kind # "list" /\ ~payload.spdxId
             \/ Listed.kind = "list" /\ Len(Listed.items) > MaxComponents}

\* A list that is absent is an empty one.
ItemsOf(list) == IF list.kind = "list" THEN list.items ELSE <<>>

SbomComponent(id, item) ==
    [id |-> id, name |-> Or(item.name, "unknown"), version |-> OrElse(item.version, UnknownVersion),
     purl |-> item.purl]

NormalizeCycloneDx(payload) ==
    [status |-> "ingested",
     components |-> [i \in DOMAIN ItemsOf(payload.components) |->
        LET c == ItemsOf(payload.components)[i] IN
        SbomComponent(OrElse(c.ref, IF c.purl # None THEN <<c.purl>>
                                ELSE <<Or(c.name, "unknown"), OrElse(c.version, UnknownVersion)>>), c)],
     relationships |-> {[from |-> d[1], to |-> d[2], type |-> "DEPENDS_ON"] : d \in payload.dependencies}]

\* A relation "a is a dependency of b" is turned round.
NormalizeRelationship(r) ==
    IF r.type = "DEPENDENCY_OF" THEN [from |-> r.to, to |-> r.from, type |-> "DEPENDS_ON"]
    ELSE [from |-> r.from, to |-> r.to, type |-> IF r.type = "CONTAINS" THEN "CONTAINS" ELSE "DEPENDS_ON"]

NormalizeSpdx(payload) ==
    [status |-> "ingested",
     components |-> [i \in DOMAIN ItemsOf(payload.packages) |->
        LET p == ItemsOf(payload.packages)[i] IN SbomComponent(OrElse(p.ref, <<Or(p.name, "unknown")>>), p)],
     relationships |-> {NormalizeRelationship(r) : r \in payload.relationships}]

Refused(status) == [status |-> status, components |-> <<>>, relationships |-> {}]

\* A document with an SPDXID passes without a list of packages, and "packages": null
\* then ends the ingestion with a TypeError.
IngestSbom(payload) ==
    LET errors == ValidateStructure(payload) IN
    IF "unsupported" \in errors THEN Refused("unsupported format")
    ELSE IF errors # {} THEN Refused("invalid input")
    ELSE IF IsCycloneDx(payload) THEN NormalizeCycloneDx(payload)
    ELSE IF payload.packages.kind = "other" THEN Refused("type error")
    ELSE NormalizeSpdx(payload)

-------------------------------------------------------------------------------
(***************************************************************************)
(* Reachability.                                                           *)
(***************************************************************************)
Read(identifier) ==
    IF identifier \in DOMAIN Reading THEN Reading[identifier]
    ELSE [normal |-> identifier, purlName |-> identifier, purlBase |-> identifier]

\* The knowledge base writes its canonical names in their normal form.
ASSUME KnowledgeAssumption ==
    \A k \in DOMAIN KnowledgeBase : Read(KnowledgeBase[k].canonical).normal = KnowledgeBase[k].canonical

UnknownPackage == [canonical |-> None, aliases |-> {}, apis |-> {}]

\* The keys under which an identifier is looked up, in that order.
Keys(identifier) ==
    LET r == Read(identifier) IN <<identifier, r.normal, r.purlName, r.purlBase>>

FindPackage(keys) ==
    LET known == {i \in DOMAIN keys : keys[i] \in DOMAIN KnowledgeBase} IN
    IF known = {} THEN UnknownPackage ELSE KnowledgeBase[keys[Min(known)]]

\* find_package(purl or name) or find_package(name)
EntryOf(component) == FindPackage(Keys(Or(component.purl, component.name)) \o Keys(component.name))

Canonical(component) == Or(EntryOf(component).canonical, component.name)

\* A component with what the knowledge base has of it.
Package(component) ==
    [component |-> component, entry |-> EntryOf(component), canonical |-> Canonical(component),
     names |-> {component.name, Canonical(component)}]

NoApi == [holds |-> {}, heldBy |-> {}]

ImportForms == {"import", "use", "require"}

ImportLike(f) == f.type = "import" \/ f.snippet.form \in ImportForms \cup {"from"}

\* "from x import y" does not start as the others do, and is not one of these.
PureImport(f) == f.snippet.form \in ImportForms /\ f.api = NoApi

Levels == <<"CAPABILITY_PRESENT", "TRANSIENT_IMPORT", "DIRECT_API_CALL", "RUNTIME_CONFIRMED">>

\* A finding without an API is looked through as a whole.
TextOf(f) == IF f.api = NoApi THEN f.snippet.holds ELSE f.api.holds

\* The calls that reach into the package.
VerifiedCalls(package, calls) ==
    {f \in calls :
        \/ package.entry.apis = {}
        \/ package.entry.apis \cap (TextOf(f) \cup f.api.heldBy) # {}
        \/ f.target \in package.names}

\* The level, as its place in Levels.
ClassifyReach(package, imports, calls, runtime) ==
    IF runtime # {} THEN 4
    ELSE IF VerifiedCalls(package, calls) # {} THEN 3
    ELSE IF imports # {} THEN 2
    ELSE 1

IsReachable(level) == level >= 3

\* The level correlate_dependencies finds.
DependencyLevel(package, static, runtime) ==
    LET names == package.names \cup package.entry.aliases IN
    ClassifyReach(package,
        {f \in static :
            /\ f.target \in names \/ f.snippet.imports = package.canonical
            /\ ImportLike(f) \/ f.api = NoApi},
        {f \in static :
            /\ ~(PureImport(f) /\ f.type # "api_call")
            /\ \/ f.target \in names /\ (f.api # NoApi \/ f.type \in {"api_call", "call"})
               \/ package.entry.apis \cap (f.api.holds \cup f.snippet.holds) # {}},
        {d \in runtime : d.target \in package.names \/ package.canonical \in d.describes})

Reachability(evaluated, level) ==
    [evaluated |-> evaluated, packages |-> level,
     breakdown |-> [l \in DOMAIN Levels |-> Cardinality({i \in DOMAIN level : level[i] = l})],
     reachable |-> Cardinality({i \in DOMAIN level : IsReachable(level[i])})]

\* The packages of the knowledge base among the components.
CorrelateDependencies(components, static, runtime) ==
    Reachability(Len(components),
        [i \in {i \in DOMAIN components : EntryOf(components[i]) # UnknownPackage} |->
            DependencyLevel(Package(components[i]), static, runtime)])

-------------------------------------------------------------------------------
(***************************************************************************)
(* Advisories.  Scores are in tenths; the affected versions are in a range *)
(* ("<", "<=" or "=") of a version, which is <<>> if the text spells none  *)
(* of these.                                                               *)
(***************************************************************************)
NumberAt(version, i) == IF i <= Len(version) THEN version[i] ELSE 0

Before(v, w) ==
    \E i \in 1 .. Max({Len(v), Len(w)}) :
        /\ NumberAt(v, i) < NumberAt(w, i)
        /\ \A j \in 1 .. i - 1 : NumberAt(v, j) = NumberAt(w, j)

IsAffected(version, advisory) ==
    \/ advisory.version = <<>>
    \/ advisory.range \in {"<", "<="} /\ Before(version, advisory.version)
    \/ /\ advisory.range \in {"<=", "="}
       /\ ~Before(version, advisory.version) /\ ~Before(advisory.version, version)

\* `high' are the impacts the CVSS vector rates high; the code looks for "C:H" anywhere
\* in it, which "AC:H" contains as well.
CvssScore(high) ==
    CASE {"C", "I", "A"} \subseteq high -> 98
      [] {"C", "I"} \subseteq high /\ "A" \notin high -> 81
      [] "C" \in high /\ "I" \notin high -> 75
      [] OTHER -> 50

\* Of the ranges of an advisory the first counts, and of that its end.
LoadCatalog ==
    {[id |-> a.id, package |-> a.package, score |-> CvssScore(a.high), range |-> "<",
      version |-> IF a.ranges = <<>> THEN <<>> ELSE a.ranges[1].fixed, impact |-> "UNKNOWN",
      apis |-> {}] : a \in VulnerabilityDb}

Multiplier == <<15, 35, 85, 100>>

\* To tenths; a tie goes to the even one.
RoundedScore(n, d) ==
    LET q == n \div d
        twice == 2 * (n % d)
    IN  IF twice > d \/ (twice = d /\ q % 2 = 1) THEN q + 1 ELSE q

RiskScore(score, level, impact) ==
    LET weight == IF impact \in {"KEY_COMPROMISE", "ENCRYPTION_BYPASS", "SIGNATURE_FORGERY"} THEN 115 ELSE 100
    IN  Min({100, RoundedScore(score * Multiplier[level] * weight, 10000)})

AdjustedSeverity(score) ==
    CASE score >= 90         -> "CRITICAL"
      [] score \in 70 .. 89  -> "HIGH"
      [] score \in 40 .. 69  -> "MEDIUM"
      [] score \in 20 .. 39  -> "LOW"
      [] OTHER               -> "INFORMATIONAL"

\* Exploitability is never claimed.
AssessExploitability(level) ==
    [status |-> <<"UNREACHABLE", "UNCONFIRMED_IMPORT", "POTENTIALLY_EXPLOITABLE", "ACTIVE_IN_PATH">>[level],
     claimed |-> FALSE]

\* The advisories filed under a name of the package.
Candidates(package, advisories) ==
    {a \in advisories :
        Read(a.package).normal \in {Read(package.component.name).normal, package.canonical}
                                   \cup {Read(n).normal : n \in package.entry.aliases}}

\* The correlator has a narrower idea of an import and of a runtime observation than
\* correlate_dependencies, and a wider one of a call.
CorrelatorCalls(package, static) ==
    {f \in static : /\ ~PureImport(f)
                    /\ f.target \in package.names \/ package.entry.apis \cap f.api.holds # {}}

CorrelatorLevel(package, static, runtime) ==
    ClassifyReach(package,
        {f \in static : f.target \in package.names /\ (ImportLike(f) \/ f.api = NoApi)},
        CorrelatorCalls(package, static),
        {d \in runtime : d.target \in package.names})

Correlation(package, advisory, calls, level, risk) ==
    [component |-> package.component, advisory |-> advisory.id, level |-> level, risk |-> risk,
     severity |-> AdjustedSeverity(risk), exploitability |-> AssessExploitability(level),
     apiCalled |-> \E f \in VerifiedCalls(package, calls) : advisory.apis \cap TextOf(f) # {}]

CorrelatePackage(package, static, level) ==
    {Correlation(package, a, CorrelatorCalls(package, static), level, RiskScore(a.score, level, a.impact)) :
        a \in {x \in Candidates(package, LoadCatalog \cup CustomAdvisories) :
                 IsAffected(package.component.version, x)}}

Correlate(components, static, runtime) ==
    UNION {CorrelatePackage(package, static, CorrelatorLevel(package, static, runtime)) :
             package \in {Package(components[i]) : i \in DOMAIN components}}

-------------------------------------------------------------------------------
ReachInit ==
    /\ sbom = Refused("not ingested")
    /\ seen = [static |-> {}, runtime |-> {}]

\* SCAEngine.generate_sbom: syft fails, writes no JSON, or writes a document.
GenerateSbom ==
    /\ \/ sbom' = Refused("syft failed")
       \/ sbom' = Refused("not json")
       \/ \E payload \in Payloads : sbom' = IngestSbom(payload)
    /\ UNCHANGED seen

StaticFinds ==
    /\ \E f \in StaticFindings \ seen.static : seen' = [seen EXCEPT !.static = @ \cup {f}]
    /\ UNCHANGED sbom

RuntimeFinds ==
    /\ \E d \in RuntimeFindings \ seen.runtime : seen' = [seen EXCEPT !.runtime = @ \cup {d}]
    /\ UNCHANGED sbom

ReachNext == GenerateSbom \/ StaticFinds \/ RuntimeFinds

ReachSpec == ReachInit /\ [][ReachNext]_reachVars

-------------------------------------------------------------------------------
\* A finding or an observation that is about the package.
About(package, f) ==
    \/ f.target \in package.names \cup package.entry.aliases
    \/ package.entry.apis \cap (f.api.holds \cup f.api.heldBy \cup f.snippet.holds) # {}

Observes(package, d) == d.target \in package.names \/ package.canonical \in d.describes

Both(package, static, runtime) ==
    {DependencyLevel(package, static, runtime), CorrelatorLevel(package, static, runtime)}

Packages == {Package(sbom.components[i]) : i \in DOMAIN sbom.components}

\* By both correlators a package is only reachable on evidence that is about it: an
\* observation, or a finding that is more than an import statement or that its scanner
\* reports as a call.
ReachabilityIsFounded ==
    \A package \in Packages :
        (\E level \in Both(package, seen.static, seen.runtime) : IsReachable(level)) =>
            \/ \E d \in seen.runtime : Observes(package, d)
            \/ \E f \in seen.static : About(package, f) /\ (PureImport(f) => f.type = "api_call")

NotLower(before, after) ==
    /\ \A i \in DOMAIN before.packages : before.packages[i] <= after.packages[i]
    /\ before.reachable <= after.reachable

NotMilder(before, after) ==
    \A old \in before : \E new \in after :
        new.component = old.component /\ new.advisory = old.advisory /\ new.risk >= old.risk

\* Whatever arrives next, and in whatever order, no package looks less reachable and no
\* advisory less severe for it.
EvidenceOnlyRaises ==
    \A f \in seen.static \cup seen.runtime :
        /\ NotLower(CorrelateDependencies(sbom.components, seen.static \ {f}, seen.runtime \ {f}),
                    CorrelateDependencies(sbom.components, seen.static, seen.runtime))
        /\ NotMilder(Correlate(sbom.components, seen.static \ {f}, seen.runtime \ {f}),
                     Correlate(sbom.components, seen.static, seen.runtime))

\* Versions of up to three numbers below 100, and their order.
Ordinary(version) == version \in Seq(0 .. 99) /\ Len(version) <= 3

Ordinal(version) == 10000 * NumberAt(version, 1) + 100 * NumberAt(version, 2) + NumberAt(version, 3)

\* The version an advisory is fixed in, <<>> if none is named.
FixedIn(advisory) == IF advisory.ranges = <<>> THEN <<>> ELSE advisory.ranges[1].fixed

\* What comes of a tree, whatever its references are.
TreeOf(s) ==
    <<{[c EXCEPT !.id = <<>>] : c \in {s.components[i] : i \in DOMAIN s.components}},
      {<<s.components[e[1]].name, s.components[e[2]].name>> :
         e \in {d \in (DOMAIN s.components) \X (DOMAIN s.components) :
                  [from |-> s.components[d[1]].id, to |-> s.components[d[2]].id,
                   type |-> "DEPENDS_ON"] \in s.relationships}}>>

\* What a document says of its tree, in either format: the components, and which of them
\* depends on which.
ItemsWritten(payload) ==
    ItemsOf(IF IsCycloneDx(payload) THEN payload.components ELSE payload.packages)

DependenciesWritten(payload) ==
    IF IsCycloneDx(payload) THEN {<<d[1], d[2]>> : d \in payload.dependencies}
    ELSE {<<r.from, r.to>> : r \in {x \in payload.relationships : x.type = "DEPENDS_ON"}}
         \cup {<<r.to, r.from>> : r \in {x \in payload.relationships : x.type = "DEPENDENCY_OF"}}

TreeWritten(payload) ==
    LET items == ItemsWritten(payload) IN
    <<{<<items[i].name, items[i].version, items[i].purl>> : i \in DOMAIN items},
      {<<items[e[1]].name, items[e[2]].name>> :
         e \in {d \in (DOMAIN items) \X (DOMAIN items) :
                  <<items[d[1]].ref, items[d[2]].ref>> \in DependenciesWritten(payload)}}>>

\* Every component has its reference, and no relation means anything else.
PlainlyWritten(payload) ==
    /\ \A i \in DOMAIN ItemsWritten(payload) : ItemsWritten(payload)[i].ref # <<>>
    /\ IsSpdx(payload) => \A r \in payload.relationships : r.type \in {"DEPENDS_ON", "DEPENDENCY_OF", "CONTAINS"}

\* However the same tree is written down, its components and their dependencies come
\* out the same.
SameTreeSameSbom ==
    \A p, q \in {x \in Payloads : IngestSbom(x).status = "ingested" /\ PlainlyWritten(x)} :
        TreeWritten(p) = TreeWritten(q) => TreeOf(IngestSbom(p)) = TreeOf(IngestSbom(q))

\* Under whatever name a package goes, the versions before the fix that an advisory's first
\* range names are reported and no others (one of which nothing is known counts as the
\* first of all; where a range begins is not read), and an advisory of nine or more in
\* code that is called is not played down.
AffectedIsReported ==
    \A package \in Packages, a \in {x \in VulnerabilityDb : \A c \in CustomAdvisories : c.id # x.id} :
        LET about == {x \in Correlate(<<package.component>>, seen.static, seen.runtime) : x.advisory = a.id} IN
        /\ (/\ a.package \in package.names \cup package.entry.aliases
            /\ Ordinary(package.component.version) /\ Ordinary(FixedIn(a))) =>
             (about # {} <=>
                (FixedIn(a) # <<>> => Ordinal(package.component.version) < Ordinal(FixedIn(a))))
        /\ \A x \in about :
             (IsReachable(x.level) /\ CvssScore(a.high) >= 90) => x.severity \in {"HIGH", "CRITICAL"}

\* What crypto_dependency_mapping.py says of its levels, that a package which is only
\* imported is not reachable; "from x import y" counts as a call.  It does not hold.
ImportsAreNotCalls ==
    (seen.runtime = {} /\ \A f \in seen.static : ImportLike(f) /\ f.api = NoApi) =>
        \A package \in Packages : \A level \in Both(package, seen.static, {}) : ~IsReachable(level)

\* What is said of a dependency has evidence, is never lowered by any, comes out the same
\* of either format, and names the advisories that the first ranges give.
ReachIsEarned ==
    ReachabilityIsFounded /\ EvidenceOnlyRaises /\ SameTreeSameSbom /\ AffectedIsReported

================================================================================
