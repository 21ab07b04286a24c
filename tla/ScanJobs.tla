------------------------------ MODULE ScanJobs ------------------------------
(* Scan jobs: a caller asks the governor for a slot                            *)
(* (common/resource_governance.py) and a thread extracts the upload, runs the  *)
(* caching scanner over it and hands its result to the job runner; the caller  *)
(* waits no longer than its timeout.  The scanners share a cache directory;    *)
(* the files, the rules and the process may change at any time.                *)
EXTENDS ScannerCache, ArchiveGuard

CONSTANTS
  Jobs,             \* the callers' scans
  TenantOf, IdOf,   \* Jobs -> their tenant and the scan id they ask with
  ConfigOf,         \* Jobs -> the scanner's configuration
  Files,            \* the source files of the upload
  LeftOut,          \* the sets of files that discovery may leave out
  Contents,         \* what a file may contain: name -> record of ScannerCache
  Archives,         \* the uploads
  Workers,          \* concurrency of a scanner
  MaxPerTenant, MaxSystem,
  EditedInto,       \* bound: the contents a file may be given later
  MaxIncidents      \* bound: changes of a file or of the rules, and crashes

ASSUME JobsAssumption ==
  /\ IsFiniteSet(Jobs) /\ IsFiniteSet(Files)
  /\ "" \notin DOMAIN Contents /\ EditedInto \subseteq DOMAIN Contents
  /\ LeftOut \subseteq SUBSET Files /\ MaxSystem \in Nat

(* What the detectors find and what is uploaded are lists; the limits, in      *)
(* bytes, and an archive's size are numbers.                                   *)
ASSUME UploadsAssumption ==
  /\ {MaxTotal, MaxRatio, MaxFree} \subseteq Nat
  /\ \A c \in DOMAIN Contents :
       /\ Contents[c].secretsRaise \in BOOLEAN
       /\ \A found \in {Contents[c].ast, Contents[c].regex, Contents[c].secrets} : found \in Seq(ToSet(found))
  /\ DOMAIN Archives # {}
  /\ \A k \in DOMAIN Archives :
       /\ Archives[k].compressed \in Nat
       /\ Archives[k].members \in Seq(ToSet(Archives[k].members))
       /\ \A m \in ToSet(Archives[k].members) : m.size \in Int /\ m.corrupt \in BOOLEAN

VARIABLES
  world,      \* the fingerprints of what is installed
  content,    \* Files -> the name of its content
  disk,       \* the cache directory
  thread,     \* Jobs -> the thread that scans
  caller,     \* Jobs -> what the caller of run_governed_scan sees
  governor,   \* [active: [tenants -> SUBSET ids], count]
  incidents

jobVars == <<world, content, disk, thread, caller, governor, incidents>>

-----------------------------------------------------------------------------
(* What a discovery engine's outcome counts for: common/job_isolation.py and   *)
(* the record keeping of common/result_integrity.py.                           *)
(*                                                                             *)
(* result: [shape: {"dict", "list", "object", "typed", "crash"}, findings,     *)
(*          errors: {"none", "some", "fatal"}, scanned, failed]                *)
(* report: [engine, status, findings, errors]                                  *)
EngineReport(engine, status, findings, errors) ==
  [engine |-> engine, status |-> status, findings |-> findings, errors |-> errors]

(* Only a dict carries errors and counts of its own; any other object counts   *)
(* for the findings it has.                                                    *)
Status(findings, errors, scanned, failed) ==
  IF errors = "fatal" THEN "FAILED"
  ELSE IF errors = "some" \/ failed > 0
    THEN IF findings # {} \/ scanned > 0 THEN "PARTIAL" ELSE "FAILED"
  ELSE "SUCCESS"

(* run_job: an engine that raises has failed and has no findings.              *)
RunJob(engine, result) ==
  CASE result.shape \in {"typed", "crash"} -> EngineReport(engine, "FAILED", {}, "fatal")
    [] result.shape = "dict" ->
         EngineReport(engine, Status(result.findings, result.errors, result.scanned,
                               result.failed),
                result.findings, result.errors)
    [] OTHER -> EngineReport(engine, "SUCCESS", result.findings, "none")

(* aggregate: partial as soon as one engine did not succeed.                   *)
CompositeStatus(reports) ==
  LET statuses == {reports[k].status : k \in DOMAIN reports}
      findings == UNION {reports[k].findings : k \in DOMAIN reports}
  IN IF statuses = {"FAILED"} THEN "FAILED"
     ELSE IF statuses \intersect {"FAILED", "PARTIAL"} # {}
       THEN IF findings # {} THEN "PARTIAL" ELSE "FAILED"
     ELSE "SUCCESS"

Aggregate(reports) ==
  [status |-> CompositeStatus(reports),
   findings |-> UNION {reports[k].findings : k \in DOMAIN reports},
   engines |-> {reports[k].engine : k \in DOMAIN reports}]

(* result_integrity: what may be reported for what happened.                   *)
ResultStates == {"FOUND", "NOT_FOUND", "NOT_SCANNED", "SCAN_ERROR", "UNSUPPORTED",
                 "UNKNOWN"}

IllegalCollapse(reported, actual) ==
  \/ /\ actual \in {"NOT_SCANNED", "SKIPPED", "EXCLUDED", "OVERSIZED", "TIMEOUT"}
     /\ reported \in {"NOT_FOUND", "CLEAN", "EMPTY"}
  \/ /\ actual \in {"SCAN_ERROR", "ERROR", "CRASH", "PARSER_FAILURE", "PERMISSION_DENIED"}
     /\ reported \in {"CLEAN", "NOT_FOUND", "SUCCESS", "PASSED", "ALLOW"}
  \/ /\ actual \in {"UNSUPPORTED", "UNKNOWN_LANGUAGE", "UNRECOGNIZED_FORMAT"}
     /\ reported \in {"NOT_FOUND", "CLEAN"}

(* record_found wants findings; the other records take what they are given.    *)
JobRecord(item, state, findings) == [item |-> item, state |-> state, findings |-> findings]

CanRecord(record) ==
  /\ record.state \in ResultStates
  /\ record.state = "FOUND" => record.findings # {}

(* get_summary: an error outweighs findings, findings outweigh what was not    *)
(* looked at, and only a record of clean items is certified.                   *)
Count(records, states) ==
  Cardinality({k \in DOMAIN records : records[k].state \in states})

RunnerVerdict(records) ==
  IF Count(records, {"SCAN_ERROR"}) > 0 THEN "SCAN_ERROR"
  ELSE IF Count(records, {"FOUND"}) > 0 THEN "FINDINGS_DETECTED"
  ELSE IF Count(records, {"NOT_SCANNED", "UNSUPPORTED", "UNKNOWN"}) > 0 THEN "PARTIAL_ASSESSMENT"
  ELSE IF Count(records, {"NOT_FOUND"}) > 0 THEN "CLEAN"
  ELSE "EMPTY"

-----------------------------------------------------------------------------
(* The state at the start *)

NoScanReport == EngineReport("", "none", {}, "none")

Unread == [state |-> "todo", bytes |-> "", findings |-> {}, error |-> "none"]

NoThread ==
  [pc |-> "none", upload |-> [ok |-> TRUE, bytes |-> 0], fingerprints |-> {},
   memory |-> {}, files |-> [f \in Files |-> Unread], report |-> NoScanReport]

NoManifest ==
  [state |-> "absent", fingerprints |-> {}, entries |-> {}, writers |-> {}, mixed |-> FALSE]

JobInit ==
  /\ world = [engine |-> 1, policy |-> 1, dependency |-> 1]
  /\ content \in [Files -> DOMAIN Contents]
  /\ disk = [manifest |-> NoManifest, entries |-> {}]
  /\ thread = [j \in Jobs |-> NoThread]
  /\ caller = [j \in Jobs |-> "none"]
  /\ governor = [active |-> [t \in {TenantOf[j] : j \in Jobs} |-> {}], count |-> 0]
  /\ incidents = 0

-----------------------------------------------------------------------------
(* The governor *)

\* Mutant: the system's limit is off by one.
CanAcquire_OffByOne(g, tenant) ==
  /\ g.count <= MaxSystem
  /\ Cardinality(g.active[tenant]) < MaxPerTenant

CanAcquire(g, tenant) ==
  /\ g.count < MaxSystem
  /\ Cardinality(g.active[tenant]) < MaxPerTenant

(* An id that is active already is added to a set, and counted once more.      *)
Acquire(g, tenant, id) ==
  [active |-> [g.active EXCEPT ![tenant] = @ \union {id}], count |-> g.count + 1]

Release(g, tenant, id) ==
  IF id \in g.active[tenant]
  THEN [active |-> [g.active EXCEPT ![tenant] = @ \ {id}],
        count |-> IF g.count > 0 THEN g.count - 1 ELSE 0]
  ELSE g

Resting(j) == thread[j].pc = "none" /\ caller[j] # "waiting"

(* run_governed_scan: a slot and a thread, or a refusal.                       *)
Request(j) ==
  /\ Resting(j)
  /\ IF CanAcquire(governor, TenantOf[j])
     THEN /\ governor' = Acquire(governor, TenantOf[j], IdOf[j])
          /\ caller' = [caller EXCEPT ![j] = "waiting"]
          /\ thread' = [thread EXCEPT ![j].pc = "extract"]
     ELSE /\ caller' = [caller EXCEPT ![j] = "refused"]
          /\ UNCHANGED <<governor, thread>>
  /\ UNCHANGED <<world, content, disk, incidents>>

Done(j, answer) ==
  /\ caller' = [caller EXCEPT ![j] = answer]
  /\ governor' = Release(governor, TenantOf[j], IdOf[j])

(* th.join(timeout) returns while the thread runs on.                          *)
Timeout(j) ==
  /\ caller[j] = "waiting"
  /\ thread[j].pc # "ended"
  /\ Done(j, "timed out")
  /\ UNCHANGED <<world, content, disk, thread, incidents>>

Return(j) ==
  /\ caller[j] = "waiting"
  /\ thread[j].pc = "ended"
  /\ Done(j, "returned")
  /\ UNCHANGED <<world, content, disk, thread, incidents>>

(* The result is dropped with the thread.                                      *)
Forget(j) ==
  /\ caller[j] \in {"returned", "timed out"}
  /\ thread[j].pc = "ended"
  /\ thread' = [thread EXCEPT ![j] = NoThread]
  /\ caller' = [caller EXCEPT ![j] = "none"]
  /\ UNCHANGED <<world, content, disk, governor, incidents>>

-----------------------------------------------------------------------------
(* The thread *)

End(t, result) ==
  [t EXCEPT !.pc = "ended", !.memory = {}, !.report = RunJob("static", result)]

Crashed == [shape |-> "typed", findings |-> {}, errors |-> "fatal", scanned |-> 0, failed |-> 1]

(* A refused archive raises, whatever it left on disk.                         *)
ExtractUpload(j) ==
  /\ thread[j].pc = "extract"
  /\ \E k \in DOMAIN Archives :
       LET x == Extract(Archives[k])
           t == [thread[j] EXCEPT !.upload = [ok |-> x.ok, bytes |-> OnDisk(x)]]
       IN thread' = [thread EXCEPT ![j] =
                       IF x.ok THEN [t EXCEPT !.pc = "start"] ELSE End(t, Crashed)]
  /\ UNCHANGED <<world, content, disk, caller, governor, incidents>>

(* discover_files leaves out what it finds too large, too deep, linked or      *)
(* closed to it at that time, and what exceeds its number of files; it counts  *)
(* them for itself, and nobody asks for the count.                             *)
LeaveOut(files, left) ==
  [f \in Files |-> IF f \in left THEN [files[f] EXCEPT !.state = "skipped"] ELSE files[f]]

HandedOn(files) == {f \in Files : files[f].state # "skipped"}

(* The scanner is made, which opens the cache, and discovers the files; a root *)
(* that is gone by then is a fatal error, and the cache is not saved.          *)
Start(j) ==
  /\ thread[j].pc = "start"
  /\ LET fps == Fingerprints(world, ConfigOf[j])
         opened == Initialize(disk, fps)
         t == [thread[j] EXCEPT !.pc = "scan", !.fingerprints = fps,
                                !.memory = opened.memory]
     IN /\ disk' = opened.disk
        /\ \/ \E left \in LeftOut :
                thread' = [thread EXCEPT ![j] = [t EXCEPT !.files = LeaveOut(@, left)]]
           \/ thread' = [thread EXCEPT ![j] =
                            End(t, [Crashed EXCEPT !.shape = "dict", !.failed = 0])]
  /\ UNCHANGED <<world, content, caller, governor, incidents>>

(* What the rules in force make of a content: each finding is of its engine.   *)
Analyse(bytes, fps) ==
  LET r == ScanSingleFile(Contents[bytes])
  IN [findings |-> {<<e, fps.engine>> : e \in r.findings}, error |-> r.error]

InFlight(j) == {f \in Files : thread[j].files[f].state = "put"}

(* scan_single_file up to the entry file: unreadable, found in the cache, or   *)
(* analysed and put into it, errors or not.                                    *)
ScanFile(j, f) ==
  /\ thread[j].pc = "scan"
  /\ thread[j].files[f].state = "todo"
  /\ Cardinality(InFlight(j)) < Workers
  /\ LET t == thread[j]
         bytes == content[f]
         key == Key(f, bytes, t.fingerprints)
         hit == Lookup(t.memory, disk, key)
         new == Analyse(bytes, t.fingerprints)
         result(state, findings, error) ==
           [state |-> state, bytes |-> bytes, findings |-> findings, error |-> error]
     IN IF ~Contents[bytes].readable
        THEN /\ thread' = [thread EXCEPT ![j].files[f] = result("done", {}, "failure")]
             /\ UNCHANGED disk
        ELSE IF hit # {}
        THEN /\ thread' = [thread EXCEPT
                  ![j].files[f] = result("cached", (CHOOSE e \in hit : TRUE).findings, "none"),
                  ![j].memory = @ \union hit]
             /\ UNCHANGED disk
        ELSE /\ thread' = [thread EXCEPT
                  ![j].files[f] = result("put", new.findings, new.error),
                  ![j].memory = PutMemory(@, key, new.findings)]
             /\ disk' = PutOpen(disk, key)
  /\ UNCHANGED <<world, content, caller, governor, incidents>>

WriteEntry(j, f) ==
  /\ thread[j].pc = "scan"
  /\ thread[j].files[f].state = "put"
  /\ LET r == thread[j].files[f]
     IN disk' = PutWrite(disk, Key(f, r.bytes, thread[j].fingerprints), r.findings)
  /\ thread' = [thread EXCEPT ![j].files[f].state = "done"]
  /\ UNCHANGED <<world, content, caller, governor, incidents>>

OpenManifest(j) ==
  /\ thread[j].pc = "scan"
  /\ \A f \in Files : thread[j].files[f].state \in {"done", "cached", "skipped"}
  /\ thread' = [thread EXCEPT ![j].pc = "save"]
  /\ disk' = SaveOpen(disk, j)
  /\ UNCHANGED <<world, content, caller, governor, incidents>>

\* Mutant: a file that could not be read counts as one without findings.
ScanResult_Unread(files) ==
  LET failed == {f \in HandedOn(files) : /\ files[f].error # "none"
                                         /\ Contents[files[f].bytes].readable}
  IN [shape |-> IF \E f \in Files : files[f].error = "notice" THEN "crash" ELSE "dict",
      findings |-> UNION {{<<f, x>> : x \in files[f].findings} : f \in Files},
      errors |-> IF failed = {} THEN "none" ELSE "some",
      scanned |-> Cardinality(HandedOn(files)), failed |-> Cardinality(failed)]

(* The status of the scan, in the form its engine report hands on.  A failure  *)
(* is a dict, a notice an exception that was never raised: asked whether it is *)
(* fatal, it raises, and the scan with its findings is lost.                   *)
ScanResult(files) ==
  LET failed == {f \in HandedOn(files) : files[f].error # "none"}
  IN [shape |-> IF \E f \in Files : files[f].error = "notice" THEN "crash" ELSE "dict",
      findings |-> UNION {{<<f, x>> : x \in files[f].findings} : f \in Files},
      errors |-> IF failed = {} THEN "none" ELSE "some",
      scanned |-> Cardinality(HandedOn(files)), failed |-> Cardinality(failed)]

ReplaceManifest(j) ==
  /\ thread[j].pc = "save"
  /\ disk' \in SaveWrite(disk, j, thread[j].fingerprints, thread[j].memory)
  /\ thread' = [thread EXCEPT ![j] = End(@, ScanResult(thread[j].files))]
  /\ UNCHANGED <<world, content, caller, governor, incidents>>

-----------------------------------------------------------------------------
(* What changes around the jobs *)

Edit(f, c) ==
  /\ incidents < MaxIncidents
  /\ content[f] # c
  /\ content' = [content EXCEPT ![f] = c]
  /\ incidents' = incidents + 1
  /\ UNCHANGED <<world, disk, thread, caller, governor>>

(* New detectors are installed: running threads keep those they started with.  *)
Upgrade ==
  /\ incidents < MaxIncidents
  /\ world' = [world EXCEPT !.engine = @ + 1]
  /\ incidents' = incidents + 1
  /\ UNCHANGED <<content, disk, thread, caller, governor>>

(* The process dies with its threads, its slots and its open files.            *)
Restart ==
  /\ incidents < MaxIncidents
  /\ disk' = Crash(disk)
  /\ thread' = [j \in Jobs |-> NoThread]
  /\ caller' = [j \in Jobs |-> "none"]
  /\ governor' = [active |-> [t \in DOMAIN governor.active |-> {}], count |-> 0]
  /\ incidents' = incidents + 1
  /\ UNCHANGED <<world, content>>

Job(j) ==
  \/ Request(j) \/ Timeout(j) \/ Return(j) \/ Forget(j)
  \/ ExtractUpload(j) \/ Start(j)
  \/ \E f \in Files : ScanFile(j, f) \/ WriteEntry(j, f)
  \/ OpenManifest(j) \/ ReplaceManifest(j)

JobNext ==
  \/ \E j \in Jobs : Job(j)
  \/ \E f \in Files, c \in EditedInto : Edit(f, c)
  \/ Upgrade
  \/ Restart

JobSpec == JobInit /\ [][JobNext]_jobVars

-----------------------------------------------------------------------------
(* Properties *)

JobTypeOK ==
  /\ content \in [Files -> DOMAIN Contents]
  /\ disk.manifest.state \in {"absent", "valid", "broken"}
  /\ \A j \in Jobs :
        /\ thread[j].pc \in {"none", "extract", "start", "scan", "save", "ended"}
        /\ caller[j] \in {"none", "waiting", "refused", "timed out", "returned"}
        /\ \A f \in Files : thread[j].files[f].state \in {"todo", "put", "done", "cached", "skipped"}
  /\ governor.count \in 0 .. MaxSystem
  /\ \A t \in DOMAIN governor.active : governor.active[t] \subseteq {IdOf[j] : j \in Jobs}

(* Whatever a scan takes from the shared cache is what its own detectors make  *)
(* of the bytes it read: no entry of other bytes or other rules, of a scanner  *)
(* that was cleared away, or half written when the process died, is served     *)
(* (ScannerCache.get, _compute_entry_key, _initialize_cache).                  *)
CachedFindingsAreCurrent ==
  \A j \in Jobs : \A f \in Files :
    LET t == thread[j] IN
      t.files[f].state \notin {"todo", "skipped"} /\ Contents[t.files[f].bytes].readable
      => t.files[f].findings = Analyse(t.files[f].bytes, t.fingerprints).findings

(* What the scanner reports of a file lies where the command, which merges in  *)
(* its own way, finds something, unless a regex rule raises, which the command *)
(* does not survive (scan_single_file, process_file).                          *)
FrontEndsAgree ==
  \A j \in Jobs : \A f \in Files :
    LET r == thread[j].files[f] IN
      r.state \notin {"todo", "skipped"} /\ Contents[r.bytes].readable /\ ~Contents[r.bytes].regexRaises
      => Places({x[1] : x \in r.findings}) = Places(ProcessFile(Contents[r.bytes]).findings)

(* What a scan takes of a file is current, and right: the command agrees.      *)
FindingsAreRight == CachedFindingsAreCurrent /\ FrontEndsAgree

Reports ==
  LET ended == {j \in Jobs : thread[j].pc = "ended"}
  IN [j \in ended |-> thread[j].report]

Records(j) ==
  [f \in HandedOn(thread[j].files) |->
     JobRecord(f, IF thread[j].files[f].error # "none" THEN "SCAN_ERROR"
                  ELSE IF thread[j].files[f].findings # {} THEN "FOUND"
                  ELSE IF thread[j].files[f].state = "todo" THEN "NOT_SCANNED"
                  ELSE "NOT_FOUND",
            thread[j].files[f].findings)]

(* What a scan lost of the files discovery handed on is told, the first time:  *)
(* a report of success, its own or that of all scans together, is only given   *)
(* when every upload was extracted, every such file read and, unless its       *)
(* findings come from the cache, parsed and matched by the rules; no finding   *)
(* of a scan that did not fail is missing from the composite report, and no    *)
(* verdict on the files' records hides one that could not be opened.  Files    *)
(* discovery leaves out and a secret detector that raises are told to nobody   *)
(* (scalable_scanner.scan, IsolatedJobRunner.run_job, aggregate, get_summary). *)
LossesAreReported ==
  LET composite == Aggregate(Reports)
      analysed(c) == ~c.astRaises /\ ~c.regexRaises
      seen(j) == /\ thread[j].upload.ok
                 /\ \A f \in HandedOn(thread[j].files) :
                      LET r == thread[j].files[f] IN
                        /\ r.state \in {"done", "cached"}
                        /\ Contents[r.bytes].readable
                        /\ r.state = "done" => analysed(Contents[r.bytes])
  IN /\ \A j \in DOMAIN Reports : Reports[j].status = "SUCCESS" => seen(j)
     /\ composite.status = "SUCCESS" => \A j \in DOMAIN Reports : seen(j)
     /\ \A j \in DOMAIN Reports : \A f \in Files :
          Reports[j].status # "FAILED" => \A x \in thread[j].files[f].findings :
                                             <<f, x>> \in composite.findings
     /\ \A j \in DOMAIN Reports : \A f \in HandedOn(thread[j].files) :
          /\ CanRecord(Records(j)[f])
          /\ ~(thread[j].files[f].bytes # "" /\ ~Contents[thread[j].files[f].bytes].readable
               /\ IllegalCollapse(RunnerVerdict(Records(j)), "PERMISSION_DENIED"))

(* No more callers wait for a scan than the system's limit, whatever timed     *)
(* out, returned or asked twice with one id (acquire_concurrency,              *)
(* release_concurrency).                                                       *)
CallersAreBounded ==
  Cardinality({j \in Jobs : caller[j] = "waiting"}) <= MaxSystem

(* What an upload leaves on disk, extracted or refused half way, stays within  *)
(* the limits of its size and, once that matters, of its ratio                 *)
(* (archive_guard.extract_zip, extract_tar).                                   *)
ExtractionStaysInBudget ==
  \A j \in Jobs :
    /\ thread[j].upload.bytes <= MaxTotal
    /\ \E k \in DOMAIN Archives :
         ~RatioExceeded(thread[j].upload.bytes, Archives[k].compressed)

(* The jobs are well formed, and callers and uploads keep their limits.        *)
JobsStayInLimits == JobTypeOK /\ CallersAreBounded /\ ExtractionStaysInBudget

(* The test's words: never convert failures into false SUCCESS                 *)
(* (tests/test_failure_isolation.py).                                          *)
FailuresAreNotMasked ==
  \A j \in DOMAIN Reports :
    Reports[j].status = "SUCCESS" =>
      \A f \in HandedOn(thread[j].files) :
        Analyse(thread[j].files[f].bytes, thread[j].fingerprints).error # "failure"

(* Success means that every file was seen by every detector: the code's        *)
(* invariant that what was not scanned is never collapsed into what was        *)
(* scanned and found clean (common/result_integrity.py:13).                    *)
SuccessSawEverything ==
  \A j \in DOMAIN Reports :
    Reports[j].status = "SUCCESS" =>
      \A f \in Files : /\ thread[j].files[f].state # "skipped"
                       /\ ~Contents[thread[j].files[f].bytes].secretsRaise

(* However many the findings of a file, all are returned, and the report flags *)
(* it (the words of the notice, static/scalable_scanner.py:263).               *)
ManyFindingsAreReturned ==
  \A j \in DOMAIN Reports : \A f \in Files :
    \A x \in thread[j].files[f].findings : <<f, x>> \in Reports[j].findings

=============================================================================
