SPECIFICATION Spec
CONSTANTS
    Named <- MCNamed
    PqcCatalog <- MCPqcCatalog
    Alias <- MCAlias
    MaxImportBytes = 2
    Precedes <- MCPrecedes
    Places <- MCPlaces
    Usages <- MCUsages
    Unused <- MCUnused
    Postures <- MCPostures
    Down <- MCDown
    Binaries <- MCBinaries
    Events <- MCEvents
    Handshakes <- MCHandshakes
    Texts <- MCTexts
    Catalog <- MCCatalog
    Profiles = {"internal_enterprise", "regulated_bfsi", "post_quantum_readiness"}
    Versions = {"1.6", "1.7"}
    MaxEdits = 4
    Payloads <- MCPayloads
    MaxSbomBytes = 2
    MaxComponents = 4
    KnowledgeBase <- MCKnowledgeBase
    Reading <- MCReading
    VulnerabilityDb <- MCVulnerabilityDb
    CustomAdvisories <- MCCustomAdvisories
    StaticFindings <- MCStaticFindings
    RuntimeFindings <- MCRuntimeFindings
    Ids = {"a1"}
    Categories <- MCCategories
    Environments = {"production", "staging"}
    Actors <- MCActors
    Folded <- MCFolded
    MaxHistory = 6
    Files <- MCFiles
    Language <- MCLanguage
    Words <- MCWords
    Contents <- MCContents
    Wide = TRUE
    Role <- MCRole
    HybridCapable = {}
    TestFiles = {"test_web.js"}
    Declared = {"external_crypto_policy_file", "vendor_lock_in_api", "tls_1_3_dynamic_groups"}
    Weights <- MCWeights
    Contexts <- MCContexts
INVARIANTS
    InventorySaysTrue
    AppliedWasApproved
    PlansAndPatchesHold
PROPERTY
    PatchingHelps
