SPECIFICATION Spec
CONSTANTS
    Cert <- MCCert
    Suite <- MCSuite
    OldVersions = {"SSLv2", "SSLv3", "TLSv1.0", "TLSv1.1"}
    Invocations <- MCInvocations
    SpelledIp <- MCSpelledIp
    IpKind <- MCIpKind
    Forbidden = {"vault"}
    NonAscii = {"idn"}
    Resolves <- MCResolves
    Serves <- MCServes
    NoIp = NoIp
    NoScope = NoScope
    NoServer = NoServer
    MaxRate = 3
    MaxQueue = 2
    Probes = {"p1", "p2"}
    Unlisted = {"p3"}
    MaxEvents = 4
    Evidence <- MCEvidence
    Near <- MCNear
    Tenant = "t"
    Actors <- MCActors
    Callers <- MCCallers
    Names = {"x"}
    MaxOps = 4
    CacheName <- MCCacheName
    Beginning <- MCBeginning
    Captures <- MCCaptures
    MaxSize = 3
    MaxPackets = 3
    MaxRecursion = 2
    MaxTold = 1
    Loggers = {"l1", "l2"}
    Details <- MCDetails
    MaxRecords = 2
    MaxLogged = 3
    Person <- MCPerson
    Password <- MCPassword
    MaxFailed = 2
    LockTime = 2
    MaxTime = 6
    j1 = j1
    j2 = j2
    f1 = f1
    f2 = f2
    Jobs <- MCJobs
    TenantOf <- MCTenantOf
    IdOf <- MCIdOf
    ConfigOf <- MCConfigOf
    Files <- MCFiles
    LeftOut <- MCLeftOut
    EditedInto = {"hash", "bad"}
    Contents <- MCContents
    NoticeAbove = 3
    Archives <- MCArchives
    Workers = 2
    MaxPerTenant = 2
    MaxSystem = 1
    MaxIncidents = 1
    MaxTotal = 3
    MaxEntry = 2
    MaxFiles = 4
    MaxRatio = 3
    MaxFree = 2
    AllowNested = FALSE
SYMMETRY Symmetric
INVARIANT FailuresAreNotMasked
CHECK_DEADLOCK FALSE
