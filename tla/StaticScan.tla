----------------------------- MODULE StaticScan -----------------------------
(***************************************************************************)
(* The life of a static scan: POST /scan/static, the job it leaves in      *)
(* services/async_queue.js, and POST /scan/abort                           *)
(* (routes/scanner_pipeline.js).                                           *)
(*                                                                         *)
(* The backend runs as a cluster of processes; jobs and the registry of    *)
(* active scans live in the memory of the process that took the request,   *)
(* upload directories and scan rows outlive it.  A step is what a handler  *)
(* does between two awaits.  A session is one request: session ids are     *)
(* taken to be unique (they are the millisecond of the request).           *)
(*                                                                         *)
(* What a scanner reports is abstracted to how much of the submitted code  *)
(* it saw: nothing with cryptography in it, all of it, or some of it.      *)
(***************************************************************************)
EXTENDS Naturals, FiniteSets

CONSTANTS
  Sessions, Instances,
  NoSession,     \* an abort that names no session, or an unknown one
  NoInstance,    \* the home of a session not yet submitted
  Modes          \* how code is submitted, a subset of AllModes

AllModes == {"git", "zip", "files", "directory"}

ASSUME ConstantsOK ==
  /\ NoSession \notin Sessions /\ NoInstance \notin Instances
  /\ Modes \subseteq AllModes

VARIABLES
  activeScanSessions, \* instance -> the sessions its registry holds
  asyncJobs,          \* session -> status of its job
  home, mode,         \* session -> instance that serves it, how it was submitted
  pc,                 \* session -> where its handler is
  received,           \* session -> files of its request still where they were received
  upload,             \* session -> its upload directory: none, cut, whole
  found,              \* session -> what the CBOM of its scanner covers
  stored,             \* session -> what the scan row of its CBOM covers
  abortedIn           \* session -> the phase in which an abort hit it, or never

vars == <<activeScanSessions, asyncJobs, home, mode, pc, received, upload, found,
          stored, abortedIn>>

\* A scan is disowned when its job failed because nobody acknowledged its COMMIT.
Working == {"preparing", "scanning", "ingesting", "committed", "unacknowledged"}
Phases == Working \cup {"idle", "refused", "done", "disowned", "lost"}

\* What a request brought: the first archive, and its other files.
Parts == {"archive", "others"}

Init ==
  /\ activeScanSessions = [i \in Instances |-> {}]
  /\ asyncJobs = [s \in Sessions |-> "none"]
  /\ home = [s \in Sessions |-> NoInstance]
  /\ mode = [s \in Sessions |-> "none"]
  /\ pc = [s \in Sessions |-> "idle"]
  /\ received = [s \in Sessions |-> {}]
  /\ upload = [s \in Sessions |-> "none"]
  /\ found = [s \in Sessions |-> "none"]
  /\ stored = [s \in Sessions |-> "none"]
  /\ abortedIn = [s \in Sessions |-> "never"]

-----------------------------------------------------------------------------
(* The registry and the jobs *)

registerScan(i, s) ==
  activeScanSessions' = [activeScanSessions EXCEPT ![i] = @ \cup {s}]

deregisterScan(s) ==
  activeScanSessions' = [activeScanSessions EXCEPT ![home[s]] = @ \ {s}]

\* updateJob does nothing for a job its process does not hold.
updateJob(s, status) ==
  asyncJobs' = [asyncJobs EXCEPT ![s] = IF @ = "none" THEN @ ELSE status]

Goto(s, phase) == pc' = [pc EXCEPT ![s] = phase]
SetUpload(s, content) == upload' = [upload EXCEPT ![s] = content]

\* The 202 answer: from here on the scan runs in the background.
StartJob(s) ==
  /\ asyncJobs' = [asyncJobs EXCEPT ![s] = "processing"]
  /\ Goto(s, "scanning")

\* The last update of the job and the finally block of the background task.
FinishJob(s, status, phase) ==
  /\ updateJob(s, status)
  /\ deregisterScan(s)
  /\ Goto(s, phase)

-----------------------------------------------------------------------------
(* POST /scan/static *)

\* What a request that goes on leaves where it was received: loose files are
\* moved one by one; an archive is renamed, to be removed once it is extracted;
\* files beside an archive or a repository are never looked at.
Kept(m) ==
  CASE m = "zip" -> {{"archive"}, Parts}
    [] m = "git" -> {{}, {"others"}}
    [] OTHER     -> {{}}

\* What a refusal leaves: an archive is removed when its content is refused, and
\* neither by the limiter of archives nor by an exception.
Abandoned(m) ==
  CASE m = "zip"   -> SUBSET Parts
    [] m = "git"   -> {{}, {"others"}}
    [] m = "files" -> {{"others"}}
    [] OTHER       -> {{}}

Receive(s, parts) == received' = [received EXCEPT ![s] = parts]

\* A copied upload, or a directory of the server, is ready at once.  Nothing
\* that refuses a request deregisters it.  A refusal by a check or a limiter
\* removes the upload; an exception while files are moved does not.
Submit(s, i, m) ==
  /\ pc[s] = "idle"
  /\ registerScan(i, s)
  /\ home' = [home EXCEPT ![s] = i]
  /\ mode' = [mode EXCEPT ![s] = m]
  /\ \/ /\ m \in {"git", "zip"}
        /\ Goto(s, "preparing")
        /\ SetUpload(s, IF m = "zip" THEN "cut" ELSE "none")
        /\ \E parts \in Kept(m) : Receive(s, parts)
        /\ UNCHANGED asyncJobs
     \/ /\ m \in {"files", "directory"}
        /\ StartJob(s)
        /\ SetUpload(s, IF m = "files" THEN "whole" ELSE "none")
        /\ \E parts \in Kept(m) : Receive(s, parts)
     \/ /\ Goto(s, "refused")
        /\ \E left \in IF m \in {"zip", "files"} THEN {"none", "cut"} ELSE {"none"} :
             SetUpload(s, left)
        /\ \E parts \in Abandoned(m) : Receive(s, parts)
        /\ UNCHANGED asyncJobs
  /\ UNCHANGED <<found, stored, abortedIn>>

\* The clone or the extraction ends.  An abort in the meantime removed what was
\* there, but nothing stops the subprocess: it may fail, or go on without.  The
\* archive goes either way.
Prepared(s) ==
  /\ pc[s] = "preparing"
  /\ Receive(s, received[s] \ {"archive"})
  /\ \/ /\ StartJob(s)
        /\ \E content \in IF abortedIn[s] = "never" THEN {"whole"} ELSE {"whole", "cut"} :
             SetUpload(s, content)
     \/ /\ Goto(s, "refused")
        /\ SetUpload(s, "none")
        /\ UNCHANGED asyncJobs
  /\ UNCHANGED <<activeScanSessions, home, mode, found, stored, abortedIn>>

\* How much of the submitted code the scanner can have read: the directory may
\* have been cut before it began, or removed under it.
Seen(s) ==
  IF mode[s] = "directory" \/ upload[s] = "whole" THEN {"all"}
  ELSE IF upload[s] = "cut" THEN {"some"}
  ELSE {"all", "some"}

\* Slip: the error path of the scanner does not return.
ScannerExits_FallsThrough(s) ==
  /\ pc[s] = "scanning"
  /\ SetUpload(s, "none")
  /\ \/ \E f \in Seen(s) : /\ found' = [found EXCEPT ![s] = f]
                           /\ Goto(s, "ingesting")
                           /\ \/ UNCHANGED asyncJobs
                              \/ updateJob(s, "failed")
        /\ UNCHANGED activeScanSessions
     \/ /\ found' = [found EXCEPT ![s] = "nothing"]
        /\ FinishJob(s, "completed", "done")
  /\ UNCHANGED <<home, mode, received, stored, abortedIn>>

\* Slip: the upload is removed for git scans only.
ScannerExits_KeepsUpload(s) ==
  /\ pc[s] = "scanning"
  /\ SetUpload(s, IF mode[s] = "git" THEN "none" ELSE upload[s])
  /\ \E f \in Seen(s) : found' = [found EXCEPT ![s] = f] /\ Goto(s, "ingesting")
  /\ UNCHANGED <<asyncJobs, activeScanSessions, home, mode, received, stored, abortedIn>>

\* Slip: a scanner that fails leaves its job as it is.
ScannerExits_ForgetsJob(s) ==
  /\ pc[s] = "scanning"
  /\ SetUpload(s, "none")
  /\ deregisterScan(s)
  /\ Goto(s, "done")
  /\ UNCHANGED <<asyncJobs, found, home, mode, received, stored, abortedIn>>

\* The scanner exits, or its fifteen minutes are over: it failed or wrote no
\* CBOM, it found nothing, or its CBOM is handed to ingestCbom.
ScannerExits(s) ==
  /\ pc[s] = "scanning"
  /\ SetUpload(s, "none")
  /\ \/ FinishJob(s, "failed", "done") /\ UNCHANGED found
     \/ /\ found' = [found EXCEPT ![s] = "nothing"]
        /\ FinishJob(s, "completed", "done")
     \/ /\ \E f \in Seen(s) : found' = [found EXCEPT ![s] = f]
        /\ Goto(s, "ingesting")
        /\ UNCHANGED <<asyncJobs, activeScanSessions>>
  /\ UNCHANGED <<home, mode, received, stored, abortedIn>>

\* persistScanToPostgres commits; the answer to its COMMIT may be lost.
Commits(s) ==
  /\ pc[s] = "ingesting"
  /\ stored' = [stored EXCEPT ![s] = found[s]]
  /\ Goto(s, "committed") \/ Goto(s, "unacknowledged")
  /\ UNCHANGED <<activeScanSessions, asyncJobs, home, mode, received, upload, found, abortedIn>>

\* It may find no database, which is no error (the job completes and no row was
\* written), or throw: a step was refused, or nobody answered the COMMIT.
IngestEnds(s) ==
  /\ \/ pc[s] = "committed" /\ FinishJob(s, "completed", "done")
     \/ pc[s] = "unacknowledged" /\ FinishJob(s, "failed", "disowned")
     \/ pc[s] = "ingesting" /\ \E status \in {"completed", "failed"} : FinishJob(s, status, "done")
  /\ UNCHANGED <<home, mode, received, upload, found, stored, abortedIn>>

-----------------------------------------------------------------------------
(* POST /scan/abort, and the end of a process *)

\* An id the registry of this process does not hold means all of its sessions.
Targets(i, id) ==
  IF id \in activeScanSessions[i] THEN {id} ELSE activeScanSessions[i]

\* kill() finds no child process (none is ever recorded), so what an abort does
\* is to remove the upload and forget the session.
Abort(i, id) ==
  /\ activeScanSessions[i] # {}
  /\ upload' = [s \in Sessions |-> IF s \in Targets(i, id) THEN "none" ELSE upload[s]]
  /\ abortedIn' = [s \in Sessions |-> IF s \in Targets(i, id) THEN pc[s] ELSE abortedIn[s]]
  /\ activeScanSessions' = [activeScanSessions EXCEPT ![i] = @ \ Targets(i, id)]
  /\ UNCHANGED <<asyncJobs, home, mode, pc, received, found, stored>>

\* The process manager replaces a process: its memory and its children are gone.
Restart(i) ==
  /\ \E s \in Sessions : home[s] = i /\ pc[s] # "lost"
  /\ pc' = [s \in Sessions |-> IF home[s] = i THEN "lost" ELSE pc[s]]
  /\ asyncJobs' = [s \in Sessions |-> IF home[s] = i THEN "none" ELSE asyncJobs[s]]
  /\ activeScanSessions' = [activeScanSessions EXCEPT ![i] = {}]
  /\ UNCHANGED <<home, mode, received, upload, found, stored, abortedIn>>

-----------------------------------------------------------------------------
Progress(s) == Prepared(s) \/ ScannerExits(s) \/ Commits(s) \/ IngestEnds(s)

Next ==
  \/ \E s \in Sessions, i \in Instances, m \in Modes : Submit(s, i, m)
  \/ \E s \in Sessions : Progress(s)
  \/ \E i \in Instances, id \in Sessions \cup {NoSession} : Abort(i, id)
  \/ \E i \in Instances : Restart(i)

Spec == Init /\ [][Next]_vars

\* Subprocesses exit or are killed by their timeouts, the database answers or
\* fails.  Nobody is obliged to submit, to abort or to restart.
FairSpec == Spec /\ \A s \in Sessions : WF_vars(Progress(s))

-----------------------------------------------------------------------------
TypeOK ==
  /\ activeScanSessions \in [Instances -> SUBSET Sessions]
  /\ asyncJobs \in [Sessions -> {"none", "processing", "completed", "failed"}]
  /\ home \in [Sessions -> Instances \cup {NoInstance}]
  /\ mode \in [Sessions -> Modes \cup {"none"}]
  /\ pc \in [Sessions -> Phases]
  /\ received \in [Sessions -> SUBSET Parts]
  /\ upload \in [Sessions -> {"none", "cut", "whole"}]
  /\ found \in [Sessions -> {"none", "nothing", "all", "some"}]
  /\ stored \in [Sessions -> {"none", "all", "some"}]
  /\ abortedIn \in [Sessions -> Phases \cup {"never"}]

\* The registry of a process holds exactly the sessions it took that no abort
\* has hit and that are still being worked on or were refused: whatever way the
\* background task ends, its finally block takes the session out.  (That a
\* refused session stays is how the code behaves.)
RegistryTracksSessions ==
  \A i \in Instances :
    activeScanSessions[i] =
      {s \in Sessions : /\ home[s] = i
                        /\ pc[s] \in Working \cup {"refused"}
                        /\ abortedIn[s] = "never"}

\* Submitted source code stays behind in known places only.  An upload directory
\* exists while something will still remove it: the registry, where an abort
\* finds it, or the scan that uses it.  An archive that was received is gone once
\* it was extracted or not, and loose files once they were moved; a request that
\* was refused may leave either, and one with an archive or a repository the
\* files beside it.  Only the loss of the process breaks that.
UploadsAreAccountedFor ==
  \A s \in Sessions :
    /\ upload[s] # "none" =>
         \/ pc[s] \in {"preparing", "scanning"}
         \/ pc[s] = "refused" /\ s \in activeScanSessions[home[s]]
         \/ pc[s] = "lost"
    /\ "archive" \in received[s] => pc[s] \in {"preparing", "refused", "lost"}
    /\ "others" \in received[s] => mode[s] \in {"git", "zip"} \/ pc[s] \in {"refused", "lost"}

\* A scan that saw part of its code, because its directory was being removed,
\* is one an abort hit; an inventory nobody interfered with is whole.
PartialOnlyIfAborted ==
  \A s \in Sessions :
    "some" \in {found[s], stored[s]} => abortedIn[s] \in {"preparing", "scanning"}

\* A scan row holds what the scanner of its session found, and while its process
\* lives the job of a stored scan is on its way to completion: a client is told
\* that a scan failed whose results are in the database only when nobody
\* acknowledged the COMMIT that put them there.
StoredScansComplete ==
  \A s \in Sessions :
    stored[s] # "none" =>
      /\ stored[s] = found[s]
      /\ \/ pc[s] \in {"committed", "unacknowledged"} /\ asyncJobs[s] = "processing"
         \/ pc[s] = "done" /\ asyncJobs[s] = "completed"
         \/ pc[s] \in {"disowned", "lost"}

\* A job that was reported completed or failed is never reported otherwise, nor
\* are its findings replaced, until its process is gone: updateJob would do it,
\* so the background task has to stop at its first final update.
JobsSettleOnce ==
  [][\A s \in Sessions :
       asyncJobs[s] \in {"completed", "failed"} /\ pc'[s] # "lost" =>
         asyncJobs'[s] = asyncJobs[s] /\ found'[s] = found[s] /\ stored'[s] = stored[s]]_vars

\* A client that polls a job is not left polling for ever: the job settles, or
\* its process is lost and the poll says so.
JobsSettle ==
  \A s \in Sessions : asyncJobs[s] = "processing" ~> asyncJobs[s] # "processing"

\* ARCHITECTURE.md: abort uses the registry to terminate a running scan
\* instantly.  A scan aborted before its scanner was done stores no results.
AbortedScanStoresNothing ==
  \A s \in Sessions : abortedIn[s] \in {"preparing", "scanning"} => stored[s] = "none"

\* routes/scanner_pipeline.js:607: "Guaranteed cleanup after scan completes or
\* fails".  A scan that ended leaves nothing of what was sent to it.
NothingReceivedIsLeft ==
  \A s \in Sessions : pc[s] = "done" => upload[s] = "none" /\ received[s] = {}

\* services/cbom_ingestion.js:23: "If any step fails, transaction automatically
\* rolls back".  A scan reported as failed has no row.
FailedScansStoreNothing ==
  \A s \in Sessions : asyncJobs[s] = "failed" => stored[s] = "none"

=============================================================================
