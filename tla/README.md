# Verification of ECDAT

TLA+ models of ECDAT, the Enterprise Cryptographic Discovery and Analysis Tool: its
backend (`src/backend/src`, a Node.js server over PostgreSQL), its scanners and analysis
tools (`src/backend/scanners`, Python) and its delivery scripts (`src/scripts`); the TLC runs
that check them on small instances; and TLAPS proofs of their safety properties for every
instance.

1. [The system](#1-the-system)
2. [Modules](#2-modules)
3. [Runs and bounds](#3-runs-and-bounds)
4. [Properties](#4-properties)
5. [Fairness](#5-fairness)
6. [Proofs](#6-proofs)
7. [Where code and text disagree](#7-where-code-and-text-disagree)
8. [What is not modelled](#8-what-is-not-modelled)
9. [Plan](#9-plan)

## 1. The system

A client submits source code, a binary, a network target or a ready CBOM to the backend. The
request passes authentication, roles and quota; a route spawns a Python scanner; the scanner's
cryptographic bill of materials (CBOM) is ingested, rated, kept and compared with earlier ones.
Findings lead to proposals, which move through an approval workflow before a patch is written
to a file. The Python side can be used without the backend: in CI, where a scan is judged by a
policy, and with its own ledger, accounts, tenants and approval engine. The project's own
releases pass a supply chain of SBOMs, vulnerability scans, signatures and two gates.

`src/ecosystem.config.js` runs the backend as a PM2 cluster (`instances: "max"`). Each process
is single-threaded: what interleaves is what requests do between two awaits, the subprocesses,
and the other processes; everything but rows and files is in the memory of one process. The
Python tools are processes of their own that meet in files (caches, reports, source code), and
some use threads that share dictionaries without locks.

| Component | State | Operations | Hard behaviour | What makes it correct |
|---|---|---|---|---|
| Remediation approval (`src/backend/src/remediation`, `routes/remediation.js`) | row of `remediations` with history and hash chain; the patched file | propose, review, approve, apply, verify, roll back, fail, delete, apply-patch | read-await-write with an UPDATE guarded by the id alone; file and row written in two steps; ids used again | history is a path of the workflow, chain verifies, four eyes |
| Scan admission (`security/resource_governance.js`, `network_scan_guard.js`) | sets and counters per tenant and in total | acquire, release, governed execution | release on `finish` and `close`, disconnects under a handler, timeouts that stop nothing | books equal the holders, limits hold, slots come back |
| Static scan (`routes/scanner_pipeline.js`, `services/async_queue.js`) | active scans, jobs, uploads, scan rows | submit, clone or extract, scan, ingest, poll, abort | 202 before the work, aborts in any phase, loss of a process | uploads accounted for, rows whole, jobs settle once and always |
| Session tokens (`identity/token_service.js`, `secret_manager.js`) | families, revocations, keys | issue, refresh, revoke, rotate | replays, lost answers, restarts that forget | a refresh token works once, a replay ends the session |
| Audit and SIEM (`audit/`, `siem/`) | ring of events, chain; queue, endpoints | log, verify, export; flush, configure | overflow, selections, overlapping flushes, failing endpoints | what verifies has no gaps; nothing twice, nothing forgotten |
| Policy (`policy_engine.py`, `policy_security.py`) | versions, active version, ledger | draft, approve, activate, roll back, dry run; evaluate | two people in any order, deadlines and exceptions that expire | status, active version and ledger agree; safe means covered |
| CI scanner (`ci_scanner.py`, `sarif_generator.py`, detectors) | findings, errors, reports of one run | select, scan, enrich, write, gate | failure at each read, parse and write | a verdict is earned and has its reports |
| Supply chain (`src/scripts`, `vulnerability_release_gate.py`) | SBOMs, report, provenance, signatures, gates | generate, scan, sign, verify, gate, qualify | keys missing or changed, files rewritten, advisories and overrides that come and go | an approval or qualification vouches for what it says |
| Scan jobs (`static/scalable_scanner.py`, `common/scanner_cache.py`, `resource_governance.py`, `job_isolation.py`, `archive_guard.py`) | cache on disk, threads, slots, extracted files | scan, cache, time out, aggregate, extract | shared cache without locks, crashes between writes, threads that outlive their timeout | findings are current, losses are told, limits hold |
| Network (`network/`) | scope, pinned addresses, certificate inventory; captures | authorize, resolve, probe, report; parse | names that resolve elsewhere later, answers in any order, damaged captures | nothing outside the scope, nothing dropped silently |
| Runtime (`runtime/`) | queue, rate window, breaker, counters | ingest, process, trip | bursts, full queues, failing callbacks | every event accounted for once |
| Evidence (`domain/correlation_engine.py`) | entities, indexes, relationships | correlate, query | evidence in any order, again and again | one entity per thing |
| Tenants, accounts, ledgers (`identity/`, `common/audit_logger.py`) | stores, roles, chains, locks | every operation of a tenant; log, verify; log in | shared stores, threads inside `log_event`, expiry of locks | tenants stay apart, ledgers tell what was done to them, guesses are bounded |
| Inventory (`cbom_mapping.py`, `cbom_io.py`, `cbom_diff.py`, `compliance_mapping.py`, `common/crypto_classifier.py`, `sca/`) | reports, baseline; dependencies | map, merge, import, export, compare, rate, correlate | findings in any order, evidence missing | comparisons exact, ratings earned |
| Remediation tools (`approval_workflow.py`, `patch_generator.py`, `crypto_agility.py`, `migration_planner.py`) | proposals; files | propose to roll back; patch; score, plan | free-form actors; edits under a patch | applied was approved; a patch is final and helps |

Components that have no model are in section 8; `PROJECT.json` lists all with their status, and
under `hazards`, per line of code, what is hard to test and which property would catch it.

## 2. Modules

A step of a model is what the code does between two points at which something else can happen:
two awaits, two statements of two threads, two accesses to a file. Definitions keep the
source's names; `PROJECT.json` maps each to its lines. In front of some stands a variant with a
plausible bug (`..._OffByOne`, `...WithoutEvidence`, or marked `Slip:`), which is not part of the
specification: put in the definition's place it makes a property fail.

### The backend

**RemediationApproval**, **ApprovalPipeline**, **MCRemediationApproval**. One approval id. `row`
is its row in `remediations`; `snap[w]` is the record worker `w` has read and changed, `pc[w]`
where its request is. `Propose` and `Delete` are one statement each. Every other operation is its
own action, the read and the decision, then `Update`, the UPDATE by id: `row'` takes state,
history and metadata from the snapshot and leaves proposer and patch, as the statement does; of a
deleted row it changes nothing. `PatchRead`, `PatchRejected`, `PatchFile`, `PatchApply`,
`PatchApplyFails` are POST /apply-patch with its own read and checks, `fs.writeFileSync`, and the
engine's second read. `Restart` loses the requests in flight. An HMAC of (previous hash,
transition) is the sequence of what was hashed. A reason is abstracted to whether it quotes the
engine's own phrases, because `verifyStateChain` gets it back by stripping them.
`ApprovalPipeline` is the workflow with every operation atomic.

**ScanAdmission**, **TenantPool**. `activeScans`, `totalActive` are ConcurrencyGovernor's;
`activeTenantScans`, `globalActiveScans` NetworkScanGuard's. `Enter` is
`concurrencyQuotaMiddleware`, `Finish` and `Close` the response's two events, either of which
releases. `Submit` to `Answer` are the handlers of the four scan routes; a network scan takes the
second slot in `SubmitNetwork` and gives it back in `Resolve` or `ScannerExits`. `StartGoverned`
to `SettleLate` are `executeGovernedScan`. `StorageFails` says whether creating the output
directory may throw, outside the try, which loses the guard's slot. A request refused with 429
changes nothing and is no step; a restart is the initial state again. `TenantPool` is what both
promise: single slots within a limit per tenant and one for all.

**StaticScan**. Sessions are served by processes, each with its registry and jobs; uploads and
rows survive a process. `Submit` registers, receives the upload and refuses, answers 202, or goes
on to clone or extract; `received` are the files of the request still where multer wrote them: an
archive, and others. `ScannerExits` covers failure, timeout, a missing or empty CBOM, and one
that is handed on; `Commits` and `IngestEnds` are `ingestCbom`, a COMMIT whose acknowledgement is
lost included. `Abort` removes upload and
registration of a session, or of all when the process does not know the id, and stops nothing,
because no child process is ever recorded. `Restart` loses memory and children of a process.

**SessionTokens**. A `pair` is the access and refresh token issued together; clients keep every
token, so replays and lost answers are `Refresh` and `Replay` with any issued pair. `Accepts` is
the middleware's `verifyToken`, `RefreshVerifies` the one inside `refreshToken`, which skips the
revocation checks. `Restart` forgets families, revocations and rotated keys. No handler awaits,
so each is one step.

**AuditTrail**, **SiemDispatcher**, **AuditForwarding**. `logEvent` chains
an event and pushes it into a ring that drops its oldest; a hash is the sequence of everything it
was computed over. `Selections` is a superset of what `getEvents` can hand to an export. `Flush` is
`flushQueue` up to its first await: the splice, and the list of endpoints as it is then; `Settle`
is one request answered or failed. The dispatcher listens to the service (`siem/index.js`).

`*Proofs.tla` hold the theorems about all modules, with their facts about folds and numbers in **FoldTheorems**.

### Delivery: MCDeliveryChain

**PolicyEngine** is the evaluation of assets by a policy at a date, without state.
**PolicyGovernance** keeps versions with their statuses, the active one and the ledger: `CreateDraft`
to `RollbackToVersion`, and `TestPolicy`, a dry run whose report stays while the clock goes on.

**CIScan** is `CIScanner.run`: `ValidateConfig`, `SelectTargets` (full, listed or a git diff),
`ScanFile` and `ScanSecrets` once per file, `ScanDependencies`, `ScanContainerTarget`, `Enrich`
(suppression comments), `WriteCbom`, `WriteSarif`, `Gate`; each read, parse or write may fail, and
`unread` remembers what could not be read, whether the code noticed or not. The module begins with
what a file is to the detectors: which files are candidates, how overlapping secrets are claimed and
taken out, how findings of the two detectors become one.

**VulnerabilityScan** (SBOM generation, OSV and npm queries, offline database, exit code) and
**ReleaseGate** (policy, acceptances, overrides, closure records) are operators that
**ReleasePipeline** runs in the order of the supply-chain job: one action per step of the workflow
and per check of the two gates. Artifacts carry a stamp that changes when they are written; a
checksum or signature names stamps. `Announce` publishes an advisory, `ReleaseTick` lets an override
run out, `Damage` changes a file, `Cancel` ends the job.

### Discovery: MCDiscovery

**ScanJobs** composes the scanners that share a cache: `Request` to `Forget` are the caller of
`run_governed_scan`, `Start` to `ReplaceManifest` its thread, which goes on after a timeout.
**ScannerCache** is what a scan makes of one file and the cache directory it keeps that in, at the
grain of open and write; **ArchiveGuard** the extraction of uploads member by member. `Edit`, `Upgrade`
and `Restart` happen at any moment, as often as `MaxIncidents`.

**NetworkScan** takes one invocation through `PrepareTarget` (normalize, authorize, resolve, pin),
`Result` (connection, handshake, finding) per target in any order, and `Finish`; `DnsChanges` and
`ScopeExpires` interfere. The inventory that certificates are turned into is in the same module.
**PcapCapture** reads a file block by block. **RuntimeProbe** has the collector, the agent and a run
of the loader. **EvidenceGraph** correlates one piece of evidence per step. **TenantAccess** has
every store of a tenant, the two role tables and the tenant's audit chain; **AuditLedger** both
ledgers, with threads inside `log_event` one statement apart; **LocalAuth** accounts and locks.

### Inventory and remediation: CryptoLifecycle, MCCryptoLifecycle

**CryptoClassifier** classifies a name by the keywords it contains and the numbers it spells,
rule by rule in the code's order. **CbomMapping** has a constructor per kind of finding and the
merge; **CbomIO** import, export, comparison and the compliance verdicts. **CryptoInventory** lets
code and endpoints change while scanners write reports (findings in any order) and an operator
keeps one as the baseline.

**DependencyReach** ingests an SBOM in one of two formats and gives each dependency a level of
reachability, by both correlators the code has, from findings that arrive one at a time; advisories
are matched, rated and weighed by it.

**RemediationLifecycle** is the Python approval engine, with actors whose names are written in two
ways, **PatchGenerator** the tool that reads, patches, checks and writes a file while somebody may
edit it, **CryptoAgility** score and roadmap, computed from the same lines. **CryptoLifecycle** puts the parts
together; MCCryptoLifecycle has only the constants of the run.

### Workloads

The parts of MCDeliveryChain, MCDiscovery and CryptoLifecycle run side by side without sharing
state (different processes, or objects that never meet). A behaviour of these modules exercises
one part, the `workload` it begins with, while the others rest in one state: all behaviours of each
part alone are there, and their interleavings, which no property could tell apart, are not. Where
parts do share state they are in one workload (scans that share a cache; a CI run and its policy;
the gates and the files they read; patches, score and roadmap over the same files).

## 3. Runs and bounds

| Run | Module | Bounds, and why they are enough |
|---|---|---|
| `approval_concurrent` | MCRemediationApproval | 2 requests, 3 people (proposer, reviewer, one who may do all), 2 proposals (the id is used again), 4 transitions (the way to APPLIED with an exit), 1 file write, reasons that do and do not quote the engine. An overwrite needs two requests; a third repeats it |
| `approval_sequential` | MCRemediationApproval | 1 request, 6 transitions: the longest way through the workflow and one more |
| `approval_one_time_use` (violation) | MCRemediationApproval | 2 requests, 1 proposal, 2 file writes |
| `admission_limits` | ScanAdmission | 3 tenants, 3 requests of every kind, limits 1 and 2 (3/10 and 2/10 in the code): the limit of a tenant and the common one are both reached, with a request left over |
| `admission_room` | ScanAdmission | 2 tenants, 2 requests, limits 1; directories can be created |
| `static_scan` | StaticScan | 2 sessions on 2 processes, in all four ways to submit: sessions meet only in the registry of a process and in aborts |
| `session_tokens` | SessionTokens | 2 users, 3 pairs, 2 keys, 4 ticks; an access token lives 2, a refresh token 3, a key's grace is 2: a login, two exchanges of one session or a second session beside it, expiry and rotation all fit |
| `audit_forwarding` | AuditForwarding | 3 events, a ledger of 2 (2000), batches of 1 and 2 (25), up to 2 endpoints, 2 flushes in flight: the ring overflows, two batches are out while a third event waits, and the second endpoint is reached after a failure |
| `delivery_chain` | MCDeliveryChain | *governance*: 2 administrators, 2 versions, 2 documents (a rule that hardens twice, overlapping and pending exceptions, an environment whose name contains another's), 3 days. *ci*: 2 trees of up to 6 files, 27 configurations (each mode, threshold, switch, git outcome, broken policy), any failure at any point. *release*: 4 trees (rules that parse or not, an override to a severity without a name, a broken lock file), 4 key rings (right, in a file, missing, another), 2 advisories, 1 tick (the override and the acceptance run out), 1 damaged file, chunks of 2 queries (50), 3 components (10) |
| `discovery` | MCDiscovery | *jobs*: 2 callers, 1 slot, 2 files of which discovery may leave one out, 4 contents (found by all detectors; parser fails; secret detector fails and more findings than the notice asks for, here 3 instead of 500; unreadable), edits into the first two, 3 archives, 1 edit, upgrade or crash. *network*: 10 invocations of up to 4 targets, 3 to 5 names of which two change address, 6 servers. *captures*: 9 files in both formats, up to 4 records, limits 2 and 3, and 1 diagnostic kept (100). *collector*, *agent*: 4 events, rate 3, queue 2. *graph*, *queries*: 10 pieces of evidence, each any number of times. *tenants*, *roles*: 4 callers of 2 tenants of which one's name begins the other's, 4 operations. *ledgers*: 2 threads, 3 events, 2 records kept. *accounts*: 2 spellings of a name, 5 passwords, 2 failures, a lock of 2 ticks, 6 ticks |
| `scan_failures_masked` (violation) | MCDiscovery | as `discovery` |
| `crypto_lifecycle` | MCCryptoLifecycle | *code*: 2 places, 4 usages, 4 changes: the same algorithm twice, replaced, removed again. *feeds*: 2 postures of an endpoint, 2 binaries, 5 handshakes, 1 event, 5 documents, 4 changes. *dependencies*: 11 payloads, 2 of them one tree in both formats, 5 static and 2 runtime findings in any order. *approvals*: 2 categories, 2 environments, 3 actors of whom two are one person, 6 transitions, which is the longest way. *patches*: 3 files with 8 contents, 3 weightings, 4 contexts |

A pure function inside a module (a rule table, a parser, an ordering) is exercised through the
inputs listed here, which are chosen so that each of its branches decides at least once.

`CHECK_DEADLOCK FALSE` stands where the bounds or the system end a behaviour: a verified approval
at its bound, sessions that are over, a clock at its end, a CI run or a capture that is done.
`ScanAdmission` and `crypto_lifecycle` never stop and are checked for deadlock. TLC's symmetry is
used for safety only, never in a run with a liveness property.

## 4. Properties

A property of a run is often a conjunction of named parts, each with a comment of its own.

| Property | Says |
|---|---|
| `StateChainValid`, `HistoryIsWorkflowPath`, `FourEyes`, `PipelineSpec` | the stored record always has a verifiable chain and a legal history that ends in its state; nobody signed their own proposal (for an id used once); one request at a time, the engine implements ApprovalPipeline (a request may be failed from every state, as the code allows) |
| `BooksBalance`, `PoolsHold`, `RoomAgain` | the counters of both governors are what the holders hold, and never less; both implement a TenantPool; a tenant that is turned away is let in again |
| `UploadsAreAccountedFor`, `StoredScansComplete`, `JobsSettleOnce`, `JobsSettle` | an upload directory belongs to a session that is registered or uses it, and a received file stays behind only of a refused request or beside an archive or repository; a stored scan is what its scanner found, and is reported completed unless its COMMIT was not acknowledged; a job ends once, and does end |
| `RefreshTokensWorkOnce`, `RotationKeepsAccess`, `ReplayEndsSession` | a refresh token is exchanged at most once and only the last of a session works; key rotation logs nobody out; after a replay nothing is issued in that session |
| `VerifiedTrailsAreWhole`, `NothingTwice`, `EveryEndpointTried`, `QueueDrains` | what verifies has no gaps; overlapping flushes share nothing; a failing endpoint keeps nothing from the others; nothing waits for ever |
| `BooksAgree` | `GovernanceTypeOK`, `OneActive`, `LedgerTellsStatus`: reading the ledger gives every status and the active version |
| `SafeMeansCovered`, `HardensWithTime` | a dry run says safe only if every rule that would block then is covered by an exception in force; a policy never grows milder with time, unless an exception starts |
| `VerdictIsEarned` | `CiTypeOK`, `CleanMeansLooked`, `VerdictHasItsReports`, `NothingLoudPasses`, `SecretsAreTakenOut`: a run that passes looked at everything the static detectors were to find; report and exit code agree; of overlapping secrets none is left whole |
| `ReleaseVouches` | `ReleaseTypeOK`, `ApprovedReleaseIsSigned`, `QualifiedReleaseIsConsistent`: an approved release is signed with the release key; a qualified one still verifies when it is published |
| `AffectedPackageIsReported` | a scan that calls itself successful names every installed package for which an advisory was known, wherever it is nested, whichever request was answered and whichever of the two npm audits failed alone |
| `SevereFindingsAreAccountedFor` | whenever a gate lets a report pass, each severe finding in it has an override or acceptance in force |
| `FindingsAreRight`, `LossesAreReported`, `JobsStayInLimits` | `CachedFindingsAreCurrent`, `FrontEndsAgree`: what a scan takes from the cache is what it would find itself, and lies where the other scanner with the same detectors finds something; success is only reported of a scan that saw all it was handed, with every detector but the one for secrets; `JobTypeOK`, `CallersAreBounded`, `ExtractionStaysInBudget`: callers that wait (not threads that go on) and extracted bytes stay within the limits |
| `OnlyAuthorizedProbes` | connections go only to addresses that were judged |
| `ReportIsComplete` | `EveryTargetIsReported`: so is every target and every weak certificate of a network scan; `InventoryIgnoresOrder`: the inventory is the same in whatever order answers come |
| `NoHandshakeIsDroppedSilently`, `EventsAreAccountedFor` | a handshake in a pcap file is found, or lies behind a place that was diagnosed (pcapng, two VLAN tags and unknown link types are passed over without a word, and only the first 100 diagnostics are kept); what the counters count adds up: the collector's until its breaker opens, the agent's from its buffer on, and nothing stays out of the buffer but for the rate, a trip or the secret that causes it |
| `EntitiesAreDistinct` | `MergesAreJustified`, `NothingIsTwice`: no evidence is merged but by one of the three rules, and nothing the rules would merge stays apart (that a rule may merge two things of one file is in section 7) |
| `TenantsStayApart`, `LedgerHolds`, `GuessesAreBounded` | `DataStaysApart`, `EveryTenantsChainVerifies`, `TheTwoTablesAgree`; `LedgerTells`, `EveryEventIsNumberedOnce`, `SecretsAreScrubbed`: a ledger written by one call at a time verifies until it is touched; no event is lost, and numbers differ until two calls stand between counting and taking the number; no more wrong passwords within a lock's time than allowed, and the right one refused only then |
| `InventorySaysTrue` | `DiffTellsWhatChanged` (`InventoryTypeOK`, `EveryUsageIsPlaced`, `DiffIsExact`): whatever order findings arrive in, every usage is in the report, and two batch or CI reports differ exactly by the assets that came, went, or moved their first use to another file; `InventoryRatingsAreEarned` (`HighRiskNeverComplies`, `ComplianceIsEarned`, `ReadinessIsEarned`): what is rated high violates every profile, a compliant control rests on evidence and on none of the algorithms it prohibits by name (key lengths are not read, section 7), and what a handshake's report claims the catalog says of that very group; `ReachIsEarned` (`ReachabilityIsFounded`, `EvidenceOnlyRaises`, `SameTreeSameSbom`, `AffectedIsReported`): a dependency is called reachable only on more than a line that begins with import, evidence never lowers a level or a risk, both SBOM formats tell the same, and a version before the fix of the first range is reported |
| `AppliedWasApproved`, `PlansAndPatchesHold`, `PatchingHelps` | what needs approval is applied right after its approval by another person, whose name differs in more than case; patching what passed the checks changes nothing (but for a hidden `sha224`), and urgent assets are planned (but for a critical one of high complexity); a patch, against the text it was made from, neither lowers the score nor raises a priority |

## 5. Fairness

Only `RoomAgain`, `JobsSettle` and `QueueDrains` need it.

- `ScanAdmission!FairSpec`: a handler that awaits goes on (`WF(Handle)`): DNS and database answer
  or fail, a scanner exits or is killed by its timeout (`runPythonCommand`); governed work ends or
  its timer fires; a response that was sent finishes, and its connection closes. Clients need not
  send, disconnect or wait, and work that outlived its timeout (`SettleLate`) may run for ever.
- `StaticScan!FairSpec`: for every session, its handler or background task goes on
  (`WF(Progress(s))`): clone, extraction and scanner have timeouts, the database answers or fails.
  Nobody has to submit, abort or restart.
- `AuditForwarding!FairSpec`: the timer ticks (`WF` of `FlushQueue`), as `setInterval` does while
  the process lives. Endpoints need not answer: `safeFetch` has no listener for a response cut off
  midway, and a call may hang. The code does not limit flushes in flight; the model's limit excuses
  `QueueDrains` only while it is reached, and the proofs do not depend on it.

The Python parts have no scheduler of their own: their properties are safety properties.

## 6. Proofs

TLAPS proves, for every value of the constants that the named assumptions allow:

- **RemediationApprovalProofs** (`ConstantsOK`): `TypeCorrect`, `HistoryPathCorrect`,
  `StateChainCorrect`, `FourEyesCorrect`. None of these is inductive: a request in flight will
  overwrite the row with what it holds. The invariants say of every *snapshot* what the property
  says of the row (`PathInv`, `ChainInv`, `FourEyesInv`), and that an UPDATE replaces state,
  history, hash and the explicit flag together (`OverwrittenFields`), so the row is good whichever
  snapshot lands. Four eyes also needs that a snapshot of the only proposal has its proposer, which
  is why the property is stated for an id that was used once. `PipelineCorrect` is the refinement of
  ApprovalPipeline: with one worker (`OneWorker`; with two it is false, an UPDATE may then go back in
  the pipeline) a request that waits for its UPDATE holds the row as it is plus one legal move
  (`PipelineInv`), so every step is a step of the pipeline or leaves its state alone.
- **ScanAdmissionProofs** (`ConstantsOK`): `AdmissionTypeCorrect`; `BooksCorrect` from
  `QuotaBooksCorrect` and `NetBooksCorrect` (the counters are the cardinalities of the holders), by
  counting lemmas about finite sets and, per action, whether it takes a slot, gives one back, or
  neither (`QuotaShape`, `NetShape`); and from the same shapes the refinements of TenantPool,
  `PoolsCorrect` from `QuotaPoolCorrect` (for ids that are not shared) and `NetPoolCorrect`.
  `CallInv` ties the phase of a handler to what it holds.
- *StaticScan*, in **DeliveryProofs** (`ConstantsOK`): `IInv` is the registry's books and, for every phase of a
  session, what its upload, the files received, job, CBOM and row are (`SessionInv`). From it `StaticTypeCorrect`,
  `RegistryCorrect`, `UploadsCorrect`, `PartialCorrect`, `StoredScansCorrect` and the action
  property `JobsSettleOnceCorrect`.
- *SessionTokens*, in **IdentityProofs** (`ConstantsOK`, with an access token that lives no longer than the grace
  period: at most an hour against a day): the core of `TokenInv` is the `Ledger`: as long as a family
  is known, each of its pairs is the current one or was exchanged; and `Exchanges`: what a pair was
  exchanged for is in it. A restart forgets families, and none is opened twice, because it has the
  name of its first pair. From it `TokenTypeCorrect`, `ExchangedOnceCorrect`,
  `OneLiveRefreshTokenCorrect`, `RefreshTokensWorkOnceCorrect`, `SessionKeepsUserCorrect`,
  `RotationKeepsAccessCorrect`, `ReplayEndsSessionCorrect`.
- **AuditForwardingProofs** (`AuditConstantsOK`, `SiemConstantsOK`: no endpoint is configured
  twice): `Chain` places every record in memory at its number in the log; the length of its
  `prevHash` is that number less one, so only event 1 is linked to the genesis hash, and a verified
  trail can only start there. `Sending` says that the queue is the newest events in order and that
  everything in a batch or tried at an endpoint is older (`Sent`), from which a new batch is
  disjoint from all of it. From them `AuditTypeCorrect`, `VerifiedTrailsAreWholeCorrect`,
  `NothingTwiceCorrect`, `EveryEndpointTriedCorrect`.

The theorems about the parts of the three composed configurations are about the specification of
each part alone (`GovernanceSpec`, `CiSpec`, `JobSpec`, ...), which is what a behaviour of MCDiscovery
or MCDeliveryChain is once its workload is chosen; for CryptoLifecycle the whole is proved too. What
bounds only these runs (the number of operations, of incidents, of events logged) is in them a
constant of any size.

Many properties say what a fold over a document computes, for every document. The library's
induction theorems cannot be instantiated here, so **FoldTheorems** has the argument in first-order
form: a non-empty set of naturals has a least element (`LeastOfSome`, from the library's
well-foundedness theorem), so what holds at 0 and goes on by one holds up to n (`CountUp`); and a fold
over a list has a trace of partial results, one per position, of which each is made of the one before
(`FoldAlwaysExists`). A lemma about a fold is then an invariant of that trace, as for a state machine.

- **DeliveryProofs.** Of PolicyGovernance (`VersionsAssumption`; `DocumentsAssumption`: what the
  policy schema asks of an action and a date) `BooksAlwaysAgree`, whose invariant is the property
  with the shape of the variables: an operation appends to the ledger what it does to statuses, and
  the fold over the longer ledger is known from its last step. `PoliciesHarden` and
  `SafeIsAlwaysCovered` need no stronger one; their lemmas are about the engine: which rule
  decides for an asset at a date, and how a rule's action, a deadline and an exception rank. Of CIScan
  (`TreesAssumption`: a path names one file, and what is matched in it is a list) `VerdictsAreEarned` from `EarnedInv`: until the verdict,
  what a target file holds has been reported or the file is still to do, or an error is
  noted (`LookedSoFar`); a suppression has its comment in the file (`SilencedByComment`); each report,
  once its phase is over, has the findings, or an error is noted (`ReportsTell`); its part about secrets
  (`SecretsAreTakenOut`) rests on the claims of the matches, taken one after the other, staying
  disjoint while each match that is passed over meets one that was claimed. Of ReleasePipeline
  (`ReleaseBoundsAssumption`, `RegistersAssumption`: registers are lists; `SourcesAssumption`: trees and
  advisories are finite and what is installed has a version; `ChunkSizeAssumption`) `SevereAreAccounted`, which
  follows a finding through overrides, acceptances and the gate's verdict; and `StagesVouch` from
  `VouchInv`: past the integrity check a gate without a failure has seen a signature by the release key,
  and a file rewritten since has another stamp (`SignatureWasSeen`); between the stages of the final gate the
  attested digests are those of the files, but for what was damaged (`ProvenanceIsFresh`,
  `FinalGateHolds`). `AffectedAreReported` is about the scan itself: the chunks of queries cover every
  component, an answer that lacks one is a failure, and a failure of any chunk or of either npm audit
  keeps the result from SUCCESS.
- **DiscoveryProofs.** `EventsAddUp` (`ProbesAssumption`): counters against what a queue
  holds, from where each begins to count: what the agent refuses for its rate or its text, and what
  comes after the breaker, has none (`EveryDropIsCounted` fails). `EntitiesStayDistinct` (for any evidence): what an index names is an entity found there, and every
  fingerprint in use is in its index (`IndexesLead`), so a second entity of a thing would have been found. A locator asks for
  no name, so an entity need not be of one thing (`EntitiesAreOfOneThing` fails). `HandshakesAreToldOf`
  (`CapturesAssumption`; of pcap files with a known link and one tag at most): a capture is accounted for up to the position read (`FoundIsRead`, `ReadIsFound`), and
  a parser that stops before the end says why (`EndIsTold`). `FindingsStayRight`, `JobsStayLimited` and `LossesAreTold`
  (`JobsAssumption`: jobs and files are finite; `UploadsAssumption`: findings and members are lists,
  sizes numbers) from `JobInv`: every entry of the cache, in memory
  or on disk, holds what *its own* detectors make of *its own* bytes, whatever is in force now, so
  that a thread which keeps the fingerprints it started with takes only what is current, however
  many others write; each thread's files and report agree (`GoodThread`), which for `LossesAreTold` covers the
  files discovery hands on and not those it skips (`SuccessSawEverything` fails); and the count of the
  governor is never below the callers that wait, which is enough for the limits although
  two requests with one id share a slot (`Slots`). That the two front ends agree is a fact about their
  merges, whatever the detectors find: each keeps the places of what goes in. That an
  extraction stays within its budget is an invariant of the members written so far, whatever the archive
  declares. `ProbesAreAuthorized` (`ResolutionAssumption`: a
  name has answers): what is asked carries the address it was judged with (`GoodScan`), so a later
  answer of DNS does not matter. `ReportsAreComplete` (`ServesAssumption`: a server sends a list of
  certificates) from `AccountInv`: until the end every target is refused, asked or yet to come, and what
  was heard has arrived; then the inventory, built answer by answer, is at each point what a definition
  without order makes of the answers so far (`GoodInventory`).
- **IdentityProofs.** `GuessesBounded` (`LockAssumption`): an account counts the wrong passwords
  since its last lock, the property those since the last success; `CountsAreHonest` links the two:
  the attempt before those counted is the one that locked the account, and that lock has run its
  time. `TenantsAreApart` (`TenantsAssumption`:
  different tenants have different cache keys, which is so while tenants' names contain no colon; they
  come with the token, and the Python code does not look for one): the
  cache and the queues do not look at the tenant of what they hold, so the invariant says that it is
  of the tenant its place is named for (`StoreIsApart`); the hash kept for a tenant is that of its last
  event (`HeadsAreLast`). `LedgersHold` (`LedgersAssumption`): the numbers taken
  are not above the counter, which counts records and calls under way (`NumbersCount`), and are different
  while no two calls stood between counting and taking (`NumbersDiffer`);
  while calls come one at a time, the next record goes on from the last one and only
  record 1 from the genesis hash (`LinksAreLatest`, `GenesisIsFirst`), so what was edited, lost or
  swapped leaves a link that does not fit, also when the touched record is dropped later.
- **CryptoLifecycleProofs.** `InventoryIsRight` is `Spec => []InventorySaysTrue` for the whole of
  CryptoLifecycle, from theorems about its parts (`LifecycleRuns`: a run of the whole is a run of each
  part). *Inventory* (`EditsAssumption`, `PlacesAssumption`: places are finitely many pairs of file and
  line, `CatalogAssumption`: a control has one entry, `AliasAssumption`: an alias leads into the
  catalog): `InventoryInv` says only that a report is what *some* order of its findings comes to; that
  no order matters is what the lemmas about the merge show: every finding is absorbed by a component
  (`Absorbs`), and a component is only ever a finding or grown out of one (`Grown`). From them
  `UsagesArePlaced`, `DiffsAreExact` (for batch and for CI reports, whose components are one per algorithm and
  one per place: `CiHolds`), `ComplianceHolds`; `HighRiskStaysOut` and `ReadinessHolds` are
  about ratings of any component. *Dependencies* (`PayloadsAssumption`: what an SBOM lists is a
  sequence; `AdvisoriesAssumption`: an advisory has one entry, a caller's own a score;
  `KnowledgeAssumption`: canonical names are in normal form): `DependenciesAreEarned` needs of the
  state only that components are a sequence; its lemmas say what can raise a level, that each
  comparison is monotone in the evidence, and that both formats are read alike. *Remediation*:
  `AppliedWithApproval`: a record's state is the end of its history, and the only ways into APPLIED
  are those that `AppliedInOrder` lists; `PlansHold` (`WordsAssumption`: what the tool writes are
  names too, `ContentsAssumption`: a file is a list of lines): every visit of a line that passes the
  check changes nothing, so neither does a second run over all lines; and each phase of the roadmap
  takes what the priority asks for.

The assumptions on data are what the program's own rules files and schemas say: the identifiers of
advisories and controls under `src/rules` and in the code are unique, and the canonical names of the
knowledge base, in lower case as the code compares them, have no scope that normalization would strip.

Two proofs changed what is claimed. `ReadinessIsEarned` once said that what the catalog calls
hybrid the classifier calls resistant; it held for the handshakes of the run but does not hold of the code:
the classifier calls `sntrup761x25519-sha512@openssh.com`, a hybrid of the catalog, quantum-vulnerable,
and `X25519MLKEM1024` quantum-resistant instead of hybrid. The property now says of the claim in a
report that the catalog makes it for the same group. And `ReachabilityIsFounded` once left out that a
scanner may itself report an import statement as a call.

Model-checked only, with the reason:

- `RoomAgain`, `JobsSettle`, `QueueDrains`: liveness under fairness, which TLAPS does not have.
- `PatchingHelps`: it compares two weighted, rounded sums over ten dimensions. Monotonicity of each
  dimension in the text would have to be carried through the rounding of a quotient for any weights,
  nonlinear arithmetic that the solver does not do; and it is about texts whose algorithms the planner
  knows: one who changes only a `sha224`, which no finding names, is outside the files of the run.

## 7. Where code and text disagree

Shown by a run that must end in a violation:

- `approval_one_time_use`: two apply-patch requests both pass the history check and both write the
  file (`src/backend/src/routes/remediation.js:425`), though the route says "One-time use only."
- `scan_failures_masked`: the findings of a file whose parser raised are cached without the error
  (`src/backend/scanners/static/scalable_scanner.py:267`), so the next scan reports SUCCESS;
  `tests/test_failure_isolation.py:77`: "NEVER convert failures into empty findings or false
  SUCCESS."

Claims that do not hold, kept as definitions. To see the counterexample, name one as the INVARIANT
of the configuration given:

| Definition | Configuration | Claim, and what the code does |
|---|---|---|
| `ScansWithinQuota` | `Admission_limits` | `src/SECURITY.md:47`: "Max concurrent scans per tenant enforced". A static scan gives its slot back with its 202 answer and runs outside the quota (`routes/scanner_pipeline.js:502`) |
| `AbortedScanStoresNothing` | `Static_scan` | `src/ARCHITECTURE.md:99`: "terminate any running scan instantly". `activeChildProcess` is never assigned (`routes/scanner_pipeline.js:324`): the scan goes on and is stored |
| `LogoutAllEndsSessions` | `Session_tokens` | `identity/token_service.js:350`: "Revokes all active sessions and tokens for a given user immediately." A session open then exchanges its refresh token afterwards (line 279) |
| `UntouchedTrailVerifies` | `Audit_forwarding` | `src/backend/tests/audit/audit_logging.test.js:117`: "Hash chain must be completely valid". Once the ring has dropped event 1, nothing verifies (`audit/tamper_chain.js:159`), and GET /audit/verify answers 409 TAMPER_DETECTED |
| `ActiveWasApproved` | `Delivery_chain` | `policy_security.py:6`: "Four-eyes approval workflow (author != approver)". The active version may be rejected (`reject_policy` asks for no status, line 264) and drafted anew; the next activation marks that draft SUPERSEDED, and a rollback (line 336) makes it active though nobody approved it |
| `FailureIsExitTwo` | `Delivery_chain` | `ci_scanner.py:22`: "If any scanner crashes or fails, the exit code is strictly 2". A file the secret scanner cannot read and a manifest that does not parse leave no error (line 437) |
| `NothingReceivedIsLeft` | `Static_scan` | `routes/scanner_pipeline.js:607`: "Guaranteed cleanup after scan completes or fails". Files sent beside an archive or with a repository address stay where multer wrote them |
| `FailedScansStoreNothing` | `Static_scan` | `services/cbom_ingestion.js:23`: "If any step fails, transaction automatically rolls back." Not when the step is the COMMIT and only its acknowledgement is lost: the job fails, the row is there |
| `ScannerFailureIsNotAPass` | `Delivery_chain` | `src/scripts/release_gate.py:441`: "must never be conflated with clean pass". The final gate ignores the scanner's exit code and finds no finding in the report of a failure |
| `UntouchedLedgerVerifies` | `Discovery` | `common/audit_logger.py:339`: "Thread-safe". Two threads inside `log_event` read one last hash (line 400), and eviction cuts the chain's beginning |
| `NumbersAreContiguous` | `Discovery` | `common/audit_logger.py:25`: "Contiguous sequence numbers", and line 339: "Thread-safe". The number is read and the counter moved in two statements (365, 366): two threads may log one number twice |
| `SuccessSawEverything` | `Discovery` | `common/result_integrity.py:13`: "NEVER collapse NOT_SCANNED into NOT_FOUND." Files discovery skips (`static/discovery.py:115`) and exceptions of the secret detector (`static/scalable_scanner.py:258`) reach no status |
| `ManyFindingsAreReturned` | `Discovery` | `static/scalable_scanner.py:263`: "Returning all, but coverage report will flag this." The notice is an exception object among errors that are dicts: `e.get("fatal")` raises on it, and the whole scan ends FAILED, without findings |
| `EveryDropIsCounted` | `Discovery` | `runtime/ebpf_collector.py:19`: "Accurately counts all dropped events". After the breaker (line 273) the collector drops uncounted, and the agent's drops for rate and secrets (`runtime/security_boundary.py:318`, 331) have no counter |
| `EntitiesAreOfOneThing` | `Discovery` | `domain/correlation_engine.py:18`: "exact path + symbol"; line 309: "Conflicting key size -> Strictly reject merge!" Two algorithms of one file without a symbol have one locator and merge |
| `CompliantMeansLongEnough` | `Crypto_lifecycle` | `compliance_mapping.py:13`: "Fully validated by automated discovery with technical evidence". The mapper does not find the size of a component: RSA-1024 complies with a minimum of 2048 |
| `ImportsAreNotCalls` | `Crypto_lifecycle` | `sca/crypto_dependency_mapping.py:11`: "Reachability is never overstated". A line "from x import y" does not start with "import" and counts as a call |

Seen while modelling the backend (paths relative to `src/backend/src`):

- `remediation/approval_workflow.js:259` takes missing verification evidence as success;
  `routes/remediation.js:861`: "Absent evidence is never treated as a pass."
- `routes/remediation.js:405` uses `crypto`, which the file does not import: a request with a
  `source_hash` ends in an error. Lines 562-600 use the promise of `listApprovals` unawaited.
- `identity/token_service.js:52` says revocations survive restarts; the Redis copy is written and
  never read. Line 290 says all tokens of a compromised family are revoked; access tokens stay
  valid until they expire.
- `security/resource_governance.js:427`: two governed scans of a tenant without an id in one
  millisecond would share an id and lose a slot (`SharedIds`); only tests call it without one.
- `routes/scanner_pipeline.js:1190`: an abort that names a session which has just ended aborts
  every session of the process.
- A `mkdirSync` that throws in POST /scan/network loses a slot of the network guard
  (`StorageFails`), so `RoomAgain` holds only while directories can be created.
- An export with a filter, or of more than its first 500 events, is reported as broken although
  nobody changed anything; `audit/audit_service.js:343` asks for 2000 events and gets 500.
- `siem/dispatcher.js:8` promises "Automatic retry with exponential backoff"; a batch that fails is
  counted and dropped (line 184). PUT /siem/config takes a batch size below 1, with which `splice`
  removes nothing and the queue only grows (`BatchSizes` are whole numbers).
- `audit/audit_service.js:151` writes to `system_audit_events`, which no migration creates.

Seen while modelling the Python side (paths relative to `src/backend/scanners`):

- `patch_generator.py:51` replaces `sha224` calls, but only the outermost call of a line, and the
  recheck does not look for it: a `sha224` inside a replaced call is left, and a second run changes
  it (the exception in `SafePatchIsFinal`). The pattern at line 168 has no right end: 5120 becomes
  30720. An edit between reading and writing is overwritten (line 564), and since `open` truncates, an
  interrupted write leaves an empty file beside the copy.
- `identity/auth_audit.py:24` keeps lists whole when it scrubs, and `common/audit_logger.py:320` passes
  over an event without a signature; `SecretsAreScrubbed` and `LedgerTells` are about the rest.
- `sca/vulnerability_correlator.py` reads the end of the first affected range of an advisory only:
  `introduced` is ignored and later ranges are missed; suffixes are ignored, so that 2.0.0-rc1
  counts as 2.0.0.
- `sca/sbom_ingestion.py` takes every SPDX relation but two for a forward DEPENDS_ON
  (DEV_DEPENDENCY_OF included), and "packages": null with an SPDXID ends in a TypeError. The two
  correlators may give one package different levels.
- `network/cert_inventory.py:276`: chain and trust of a certificate are those of the last endpoint
  that served it.
- Names are matched by containment in several places: an exception for "prod" applies to "nonprod",
  a risk rule for "DES" to a file "design.py". `Substrings` and `Seen` model what is contained.
- `remediation_planner.py:29` and `sca/sca_crypto_mapper.py:38` name what they do not import or
  what does not exist; neither module can be imported.

## 8. What is not modelled

- The backend's decisions about one request (OIDC, LDAP, password login, rate limits, tenancy and
  request middleware), its evaluation of one scan (risk engine, policy, correlation, CI gate,
  compliance), backup and retention, reports and integrations. They keep no state between calls or
  are clients of external services; the Python counterparts of login, roles, tenancy, policy, CI
  gate, correlation and compliance are modelled.
- Recognition: the syntax-tree detectors of seven languages, parsers of binary formats,
  configuration scanners, the semantic model service. They are tables of names over bytes or an
  external parser, one call without state; what they find is a choice of the models that use it.
- Hardening auditors, red-team assessments, reports, wizards and integrations of the Python side:
  checklists over one document, layout, and clients of external services.
- The frontend, deployment, kernel probes (attachment is external), rules, benchmarks and tests.
- Code that cannot run: `remediation_planner.py` and `sca/sca_crypto_mapper.py`.
- Within modelled components: wording, identifiers' formats, cryptographic primitives (a hash is
  its content, a signature names its key), exports without a decision. `PROJECT.json` says per
  component what is left out.
- One hazard is listed without a property: a session exchanged after a logout of all sessions
  (`identity/token_service.js:279`), where the claim does not hold (section 7).
- Steps taken to be atomic: a `+=` of one thread in a Python ledger, the attempt to log in to a
  local account.

## 9. Plan

Done: the backend's stateful core, delivery, discovery, inventory and remediation; theorems for
every safety property of the runs but one. Next, in this order:

1. For SessionTokens an abstract specification of a session as a chain of single-use capabilities
   and the refinement.
2. `PatchingHelps` as a theorem for a fixed weighting, dimension by dimension.
3. Backup and retention, with PostgreSQL's rows as the state they share with ingestion.
