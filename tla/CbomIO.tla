-------------------------------- MODULE CbomIO --------------------------------
(***************************************************************************)
(* Reading, rating and comparing cryptographic bills of materials          *)
(* (cbom_io.py, cbom_diff.py).                                             *)
(***************************************************************************)
EXTENDS CbomMapping

(***************************************************************************)
(* Import.  A text is what the gates look at: its size, whether it holds a *)
(* private key or a prototype key, its syntax and the document it spells.  *)
(* A document the schema refuses still loads when it lists components.     *)
(***************************************************************************)
CONSTANTS
    MaxImportBytes,     \* the import size limit
    Precedes(_, _)      \* the order of occurrences in a document

RefusedImport == [refused |-> TRUE]

Syntax(text) ==
    CASE text.opens = "<" -> "xml"
      [] text.opens \in {"{", "["} -> "json"
      [] OTHER -> "unknown"

ImportCbom(text) ==
    IF \/ text.bytes > MaxImportBytes
       \/ text.hasPrivateKey
       \/ Syntax(text) = "unknown"
       \/ Syntax(text) = "json" /\ (text.pollutes \/ ~text.parses)
       \/ Syntax(text) = "json" /\ ~ValidateCbom(text.document) /\ ~text.hasComponents
       \/ Syntax(text) = "xml" /\ (text.hasDoctype \/ ~text.parses)
      THEN RefusedImport
      ELSE [refused |-> FALSE, bom |-> text.document.bom]

(***************************************************************************)
(* Rating.  Every component is rated by its name, whatever it stands for.  *)
(***************************************************************************)
NormalizeCbom(bom) ==
    LET First(ref) == CHOOSE c \in bom.components : c.ref = ref
    IN  {First(ref) : ref \in {c.ref : c \in bom.components}}

Broken(name) == Has(name, {"md5", "sha1", "des", "rc4", "3des"})

ShorProne(name) == Has(name, {"rsa", "ecc", "ecdsa", "ecdh", "dsa", "dh"})

ShortRsa(name, size) == ShorProne(name) /\ Has(name, {"rsa"}) /\ size \in 1 .. 2047

Weak(name, size) == Broken(name) \/ ShortRsa(name, size)

RiskLevel(name, size) ==
    CASE ShortRsa(name, size) \/ Has(name, {"md5", "des"}) -> "CRITICAL"
      [] Broken(name) /\ ~ShortRsa(name, size) /\ ~Has(name, {"md5", "des"}) -> "HIGH"
      [] ~Weak(name, size) /\ ShorProne(name) -> "MEDIUM"
      [] OTHER -> "LOW"

PolicyStatus(name, size, profile) ==
    IF \/ Weak(name, size)
       \/ profile = "regulated_bfsi" /\ name.parts = {"rsa"} /\ name.numbers = <<>> /\ size \in 1 .. 3071
      THEN "VIOLATION"
    ELSE IF ShorProne(name) /\ profile = "post_quantum_readiness" THEN "WARNING"
    ELSE "COMPLIANT"

Rated(component, profile) ==
    LET name == Seen(component.algorithm) IN
    [ref |-> component.ref, algorithm |-> component.algorithm, size |-> component.size,
     risk |-> RiskLevel(name, component.size), vulnerable |-> ShorProne(name),
     policy |-> PolicyStatus(name, component.size, profile), at |-> component.at]

CorrelateCbom(bom, profile) == {Rated(c, profile) : c \in NormalizeCbom(bom)}

HighRisk(assets) == {a \in assets : a.risk \in {"HIGH", "CRITICAL"}}

CbomToCsv(bom) == CorrelateCbom(bom, "internal_enterprise")

\* A result per asset that is not both harmless and compliant.
CbomToSarif(bom) ==
    {[ref |-> a.ref, level |-> IF a \in HighRisk({a}) THEN "error" ELSE "warning",
      rule |-> <<a.algorithm, a.risk>>] :
        a \in {r \in CorrelateCbom(bom, "internal_enterprise") : r.risk # "LOW" \/ r.policy # "COMPLIANT"}}

ExportCbom(bom, format, version) ==
    CASE format = "json"  -> SerializeCbom(bom, version)
      [] format = "xml"   -> [format |-> "xml", version |-> version, bom |-> bom]
      [] format = "csv"   -> [format |-> "csv", rows |-> CbomToCsv(bom)]
      [] format = "sarif" -> [format |-> "sarif", results |-> CbomToSarif(bom)]
      [] OTHER            -> NoDocument

(***************************************************************************)
(* Comparing a scan with its baseline, reference by reference.  An asset   *)
(* is located where its first occurrence in the document is, which lists   *)
(* them in order; the line there is not looked at.  (Reachability, compared*)
(* too, is the same for all components of one reference.)                  *)
(***************************************************************************)
First(places) == CHOOSE p \in places : \A q \in places \ {p} : Precedes(p, q)

Location(asset) == IF asset.at = {} THEN "unknown" ELSE First(asset.at)[1]

ComponentMap(bom, profile) ==
    LET assets == CorrelateCbom(bom, profile)
    IN  [ref \in {a.ref : a \in assets} |-> CHOOSE a \in assets : a.ref = ref]

Status(before, after) ==
    LET Same(fields) == \A f \in fields : before[f] = after[f]
    IN  IF ~Same({"algorithm", "size"}) \/ Location(before) # Location(after) THEN "CHANGED"
        ELSE IF ~Same({"risk", "vulnerable"}) THEN "RISK_CHANGED"
        ELSE IF ~Same({"policy"}) THEN "POLICY_CHANGED"
        ELSE "UNCHANGED"

DiffCboms(baseline, current, profile) ==
    LET old == ComponentMap(baseline, profile)
        new == ComponentMap(current, profile)
    IN  [ref \in DOMAIN old \cup DOMAIN new |->
            IF ref \notin DOMAIN old THEN "NEW"
            ELSE IF ref \notin DOMAIN new THEN "REMOVED"
            ELSE Status(old[ref], new[ref])]

Summary(diff) ==
    [s \in {"NEW", "REMOVED", "CHANGED", "UNCHANGED", "RISK_CHANGED", "POLICY_CHANGED"} |->
        Cardinality({ref \in DOMAIN diff : diff[ref] = s})]

-------------------------------------------------------------------------------
(***************************************************************************)
(* How assets are held against the controls of the compliance catalog      *)
(* (compliance_mapping.py).  An asset here is what the mapper reads: the   *)
(* algorithm or else the name, the key size (0 when the key is absent or   *)
(* is no number), the protocol, and what it says of itself.                *)
(***************************************************************************)
NoProtocol == "none"

\* A secret in a field is replaced by its digest before anything is evaluated.
Sanitize(asset) == [asset EXCEPT !.secret = FALSE]

Spells(asset, keywords) == asset.name.parts \cap keywords # {}

BelowMinimum(asset, family, minimum) == Spells(asset, family) /\ asset.size # 0 /\ asset.size < minimum

Gaps(control, asset) ==
    {g \in {"prohibited", "not approved", "protocol", "rsa", "ecc", "symmetric", "self-signed", "no pqc"} :
        CASE g = "prohibited"   -> Spells(asset, control.prohibited)
          [] g = "not approved" -> control.allowed # {} /\ ~Spells(asset, control.allowed)
          [] g = "protocol"     -> \/ asset.protocol \in control.prohibitedProtocols
                                   \/ /\ control.allowedProtocols # {}
                                      /\ asset.protocol # NoProtocol
                                      /\ asset.protocol \notin control.allowedProtocols
          [] g = "rsa"          -> BelowMinimum(asset, {"rsa"}, control.minRsa)
          [] g = "ecc"          -> BelowMinimum(asset, {"ecc", "ecdsa"}, control.minEcc)
          [] g = "symmetric"    -> BelowMinimum(asset, {"aes", "chacha"}, control.minSymmetric)
          [] g = "self-signed"  -> ~control.allowSelfSigned /\ asset.selfSigned
          [] g = "no pqc"       -> control.requirePqc /\ ~asset.pqc}

\* Mutation: a control that nothing contradicts is compliant, evidence or not.
AssessControlWithoutEvidence(control, assets) ==
    LET gaps == {a \in assets : Gaps(control, a) # {}}
    IN  [control |-> control.id, verdict |-> "COMPLIANT",
         compliant |-> control.level = "SUPPORTED CONTROL" /\ gaps = {}, gaps |-> gaps]

Verdict(level, assets, gaps) ==
    CASE level = "NOT SUPPORTED"     -> "NOT_APPLICABLE_OUT_OF_SCOPE"
      [] level = "SUPPORTED CONTROL" -> IF gaps # {} THEN "NON_COMPLIANT"
                                        ELSE IF assets = {} THEN "NO_EVIDENCE_FOUND" ELSE "COMPLIANT"
      [] OTHER -> IF gaps = {} THEN "REQUIRES_MANUAL_REVIEW" ELSE "NON_COMPLIANT_WITH_TECHNICAL_GAPS"

AssessControl(control, assets) ==
    LET clean == {Sanitize(a) : a \in assets}
        gaps  == IF control.level = "NOT SUPPORTED" THEN {} ELSE {a \in clean : Gaps(control, a) # {}}
    IN  [control |-> control.id, verdict |-> Verdict(control.level, clean, gaps),
         compliant |-> control.level = "SUPPORTED CONTROL" /\ gaps = {} /\ clean # {},
         gaps |-> gaps]

\* The assessment of the catalog's standards, or of the requested ones.
AssessCompliance(catalog, requested, assets) ==
    LET targets  == IF requested = {} THEN catalog ELSE {c \in catalog : c.standard \in requested}
        assessed == {AssessControl(c, assets) : c \in targets}
    IN  [controls |-> assessed, total |-> Cardinality(targets),
         compliant |-> Cardinality({a \in assessed : a.compliant})]

===============================================================================
