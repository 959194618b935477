---------------------------- MODULE ScanPipeline ----------------------------
(***************************************************************************)
(* The full-scan pipeline of AEGIS: the intake request that creates a scan *)
(* (services/stage2_analysis.py), the five Celery tasks that carry it to a *)
(* verdict (tasks/browser_features.py, sandbox_analysis.py,                *)
(* consistency.py, risk_fusion.py, alert_pipeline.py), the periodic job    *)
(* that times out stalled scans (tasks/job_reconciliation.py) and the      *)
(* retention job (tasks/file_cleanup.py) as one expired scan sees it.      *)
(*                                                                         *)
(* They share a PostgreSQL row per scan, a directory per scan on the       *)
(* shared volume, a Redis cache entry per verdict, and the broker's        *)
(* queues.  A worker acknowledges a message late, so a crash puts the      *)
(* message it was working on back in its queue: a task is run at least     *)
(* once and can be cut short between any two of its effects.  A task is    *)
(* therefore split at every effect another process can observe.            *)
(***************************************************************************)
EXTENDS Naturals, FiniteSets

CONSTANTS
  Scans,        \* scan ids
  Workers,      \* Celery worker processes
  Trusted,      \* scans whose URL is allowlisted (or whose score is too low)
  Verdicts,     \* the classes of risk report a run may compute
  MaxRetries,   \* max_retries of each task
  FaultKinds,   \* the kinds of fault that may happen
  MaxFaults     \* bound on the number of faults of a behaviour

Tasks == {"browser_features", "sandbox_analysis", "consistency",
          "risk_fusion", "alert_pipeline"}

(* "severe": HIGH or CRITICAL, scored by a real model.  "placeholder": the *)
(* same severities scored by the placeholder model.  "benign": the rest.   *)
AllVerdicts == {"benign", "severe", "placeholder"}

(* "crash": a worker or an intake process dies.  "loss": the broker loses  *)
(* a queued message.  "dispatch": .delay() raises.  "db": a transaction    *)
(* fails.  "disk": a file cannot be written.  "cache": the verdict cache   *)
(* cannot be written.  "retention": file_cleanup finds the scan expired    *)
(* while it is still being processed.                                      *)
AllFaults == {"crash", "loss", "dispatch", "db", "disk", "cache", "retention"}

ASSUME ConstantsAssumption ==
  /\ Trusted \subseteq Scans
  /\ Verdicts \subseteq AllVerdicts
  /\ MaxRetries \in [Tasks -> Nat]
  /\ FaultKinds \subseteq AllFaults
  /\ MaxFaults \in Nat

VARIABLES
  status,     \* scans.status; <<t, p>> stands for the string t_p
  row,        \* scans.risk_score and scans.severity: the verdict in the row
  incidents,  \* number of Incident rows of the scan
  disk,       \* files of the scan's directory that are written whole
  meta,       \* sandbox_metadata.json, which is not always written whole
  report,     \* risk_report.json
  cache,      \* the Redis entry risk:<scan id>
  queue,      \* broker: how many copies of each message are waiting
  job,        \* what each worker is doing
  intake,     \* where the intake request of the scan is
  stuck,      \* scans the reconciliation job has read and not yet written
  faults,     \* number of faults so far
  hit         \* the kinds of fault that have hit the scan

database == <<status, row, incidents>>
files    == <<disk, meta, report>>
budget   == <<faults, hit>>
vars     == <<database, files, cache, queue, job, intake, stuck, budget>>

-----------------------------------------------------------------------------
(* Values.                                                                 *)

Absent        == <<"scan", "absent">>         \* no row yet
Created       == <<"scan", "created">>
Blocked       == <<"scan", "blocked">>        \* blocked_by_cyberintel
FailedTimeout == <<"scan", "failed_timeout">>
Purged        == <<"scan", "purged">>         \* row deleted by file_cleanup

(* <<"browser_features", "dispatch_failed">> is stage2_dispatch_failed.    *)
Statuses == {Absent, Created, Blocked, FailedTimeout, Purged}
            \cup (Tasks \X {"running", "retrying", "failed", "done",
                            "dispatch_failed"})

(* Mutant: risk_fusion_running is missing from the list.                   *)
ShortRunning ==
  {Created, <<"alert_pipeline", "retrying">>}
  \cup ((Tasks \ {"risk_fusion"}) \X {"running"}) \cup (Tasks \X {"dispatch_failed"})
  \cup ({"browser_features", "sandbox_analysis", "consistency"} \X {"done"})

(* submitted and quickscan_dispatch_failed, which nothing in the pipeline  *)
(* writes, are left out.                                                   *)
RUNNING_STATUSES ==
  {Created, <<"alert_pipeline", "retrying">>}
  \cup (Tasks \X {"running", "dispatch_failed"})
  \cup ({"browser_features", "sandbox_analysis", "consistency"} \X {"done"})

(* Only alert_pipeline is given the risk report with its message.          *)
Messages ==
  UNION {[task : {t}, scan : Scans, retries : 0 .. MaxRetries[t],
          verdict : IF t = "alert_pipeline" THEN AllVerdicts ELSE {"none"}] :
         t \in Tasks}

Message(t, s) == [task |-> t, scan |-> s, retries |-> 0, verdict |-> "none"]

(* pc is the task's next effect; out is what the task has decided: the     *)
(* task browser_features or sandbox_analysis goes on to, or the verdict.   *)
Idle == [pc |-> "idle"]
Jobs == [pc  : {"work", "retry", "truncate", "complete", "cache", "mark",
                "dispatch", "dispatch_failed", "ack"},
         msg : Messages,
         out : AllVerdicts \cup {"none", "sandbox", "skip", "fallback"}]

Working(w, t, label) == /\ job[w] # Idle
                        /\ job[w].pc = label
                        /\ job[w].msg.task = t

Goto(w, label)         == job' = [job EXCEPT ![w].pc = label]
Decide(w, label, what) == job' = [job EXCEPT ![w].pc = label, ![w].out = what]

Publish(m) == queue' = [queue EXCEPT ![m] = @ + 1]

NoFault     == UNCHANGED budget
Fault(k, s) == /\ k \in FaultKinds
               /\ faults < MaxFaults
               /\ faults' = faults + 1
               /\ hit' = [hit EXCEPT ![s] = @ \cup {k}]

(* An UPDATE of the scan's row changes nothing once the row is deleted.    *)
SetStatus(s, st) == status' = [status EXCEPT ![s] = IF @ = Purged THEN @ ELSE st]

(* _mark_status: a failed transaction is logged and otherwise ignored.     *)
Mark(s, st) == \/ SetStatus(s, st) /\ NoFault
               \/ Fault("db", s) /\ UNCHANGED status

-----------------------------------------------------------------------------
(* Intake: run_stage2_analysis.  A payload it refuses outright leaves no   *)
(* trace.                                                                  *)

Submit(s) ==
  /\ intake[s] = "idle"
  /\ intake' = [intake EXCEPT ![s] = "created"]
  /\ status' = [status EXCEPT ![s] = Created]
  /\ UNCHANGED <<row, incidents, files, cache, queue, job, stuck, budget>>

(* The early gate found an indicator of compromise: the scan ends here.    *)
Block(s) ==
  /\ intake[s] = "created"
  /\ intake' = [intake EXCEPT ![s] = "done"]
  /\ status' = [status EXCEPT ![s] = Blocked]
  /\ row' = [row EXCEPT ![s] = "severe"]
  /\ UNCHANGED <<incidents, files, cache, queue, job, stuck, budget>>

StoreUpload(s) ==
  /\ intake[s] = "created"
  /\ intake' = [intake EXCEPT ![s] = "stored"]
  /\ disk' = [disk EXCEPT ![s] = @ \cup {"upload"}]
  /\ UNCHANGED <<database, meta, report, cache, queue, job, stuck, budget>>

(* ClamAV refuses the upload or is unavailable.  The row is left as it is. *)
RejectUpload(s) ==
  /\ intake[s] = "stored"
  /\ intake' = [intake EXCEPT ![s] = "done"]
  /\ disk' = [disk EXCEPT ![s] = @ \ {"upload"}]
  /\ UNCHANGED <<database, meta, report, cache, queue, job, stuck, budget>>

(* The first task is queued before the row says that it runs.              *)
Send(s) ==
  /\ intake[s] = "stored"
  /\ \/ /\ Publish(Message("browser_features", s))
        /\ intake' = [intake EXCEPT ![s] = "sent"]
        /\ NoFault
     \/ /\ Fault("dispatch", s)
        /\ intake' = [intake EXCEPT ![s] = "send_failed"]
        /\ UNCHANGED queue
  /\ UNCHANGED <<database, files, cache, job, stuck>>

(* The request's copy of the row dates from before the task was queued:    *)
(* the write overwrites whatever a worker has written since.  A session    *)
(* whose commit failed takes no other, so the except clause writes nothing.*)
ConfirmRunning(s) ==
  /\ intake[s] = "sent"
  /\ \/ /\ SetStatus(s, <<"browser_features", "running">>)
        /\ intake' = [intake EXCEPT ![s] = "done"]
        /\ NoFault
     \/ /\ Fault("db", s)
        /\ intake' = [intake EXCEPT ![s] = "done"]
        /\ UNCHANGED status
  /\ UNCHANGED <<row, incidents, files, cache, queue, job, stuck>>

ConfirmDispatchFailed(s) ==
  /\ intake[s] = "send_failed"
  /\ Mark(s, <<"browser_features", "dispatch_failed">>)
  /\ intake' = [intake EXCEPT ![s] = "done"]
  /\ UNCHANGED <<row, incidents, files, cache, queue, job, stuck>>

IntakeCrash(s) ==
  /\ intake[s] \notin {"idle", "done"}
  /\ Fault("crash", s)
  /\ intake' = [intake EXCEPT ![s] = "done"]
  /\ UNCHANGED <<database, files, cache, queue, job, stuck>>

-----------------------------------------------------------------------------
(* What every task does alike.                                             *)

(* A free worker takes a message; the task first marks the scan running.   *)
Start(w, m) ==
  /\ job[w] = Idle
  /\ queue[m] > 0
  /\ queue' = [queue EXCEPT ![m] = @ - 1]
  /\ job' = [job EXCEPT ![w] = [pc |-> "work", msg |-> m, out |-> "none"]]
  /\ Mark(m.scan, <<m.task, "running">>)
  /\ UNCHANGED <<row, incidents, files, cache, intake, stuck>>

(* Mutant: every failure is recorded as the last one.                      *)
EagerWorkFails(w) ==
  /\ \E t \in Tasks \ {"sandbox_analysis"} : Working(w, t, "work")
  /\ LET m == job[w].msg IN
     /\ m.task = "browser_features" => "upload" \in disk[m.scan]
     /\ Mark(m.scan, <<m.task, "failed">>)
     /\ Goto(w, IF m.retries >= MaxRetries[m.task] THEN "ack" ELSE "retry")
  /\ UNCHANGED <<row, incidents, files, cache, queue, intake, stuck>>

(* The except blocks around a task's work: inputs that cannot be loaded,   *)
(* an engine that raises, a transaction that fails.                        *)
WorkFails(w) ==
  /\ \E t \in Tasks \ {"sandbox_analysis"} : Working(w, t, "work")
  /\ LET m == job[w].msg IN
     /\ m.task = "browser_features" => "upload" \in disk[m.scan]
     /\ IF m.retries >= MaxRetries[m.task]
        THEN Mark(m.scan, <<m.task, "failed">>)   /\ Goto(w, "ack")
        ELSE Mark(m.scan, <<m.task, "retrying">>) /\ Goto(w, "retry")
  /\ UNCHANGED <<row, incidents, files, cache, queue, intake, stuck>>

(* Mutant: self.retry is called and not raised.                            *)
ForkingRetry(w) ==
  /\ \E t \in Tasks : Working(w, t, "retry")
  /\ Publish([job[w].msg EXCEPT !.retries = @ + 1])
  /\ Goto(w, "work")
  /\ UNCHANGED <<database, files, cache, intake, stuck, budget>>

(* Mutant: the message is published again as if it were new.               *)
EndlessRetry(w) ==
  /\ \E t \in Tasks : Working(w, t, "retry")
  /\ Publish(job[w].msg)
  /\ Goto(w, "ack")
  /\ UNCHANGED <<database, files, cache, intake, stuck, budget>>

(* self.retry publishes the message again, with one more retry counted.    *)
Retry(w) ==
  /\ \E t \in Tasks : Working(w, t, "retry")
  /\ Publish([job[w].msg EXCEPT !.retries = @ + 1])
  /\ Goto(w, "ack")
  /\ UNCHANGED <<database, files, cache, intake, stuck, budget>>

(* The status a task leaves behind when its work is done.                  *)
MarkDone(w) ==
  /\ \E t \in Tasks \ {"risk_fusion"} : Working(w, t, "mark")
  /\ LET m == job[w].msg IN
     /\ Mark(m.scan, <<m.task, IF job[w].out = "fallback" THEN "failed" ELSE "done">>)
     /\ Goto(w, IF m.task = "alert_pipeline" THEN "ack"
                ELSE IF job[w].out = "skip" THEN "truncate" ELSE "dispatch")
  /\ UNCHANGED <<row, incidents, files, cache, queue, intake, stuck>>

(* Mutant: the fallback of the sandbox skips consistency.                  *)
RushedSuccessor(j) ==
  LET s == j.msg.scan
      next == CASE j.msg.task = "browser_features" ->
                     IF j.out = "skip" THEN "consistency" ELSE "sandbox_analysis"
                [] j.msg.task = "sandbox_analysis" ->
                     IF j.out = "fallback" THEN "risk_fusion" ELSE "consistency"
                [] j.msg.task = "consistency"      -> "risk_fusion"
                [] OTHER                           -> "alert_pipeline"
  IN IF next = "alert_pipeline" THEN [Message(next, s) EXCEPT !.verdict = j.out]
                                ELSE Message(next, s)

(* The task that follows, and the report alert_pipeline is handed.         *)
Successor(j) ==
  LET s == j.msg.scan
      next == CASE j.msg.task = "browser_features" ->
                     IF j.out = "skip" THEN "consistency" ELSE "sandbox_analysis"
                [] j.msg.task = "sandbox_analysis" -> "consistency"
                [] j.msg.task = "consistency"      -> "risk_fusion"
                [] OTHER                           -> "alert_pipeline"
  IN IF next = "alert_pipeline" THEN [Message(next, s) EXCEPT !.verdict = j.out]
                                ELSE Message(next, s)

(* Mutant: the severity decides, whatever model it comes from.             *)
UngatedEnds(j) == j.msg.task = "risk_fusion" /\ j.out = "benign"

(* Only a severe report of a real model goes on to alert_pipeline.         *)
Ends(j) == j.msg.task = "risk_fusion" /\ j.out # "severe"

(* A fallback whose .delay() raises is logged and goes no further.         *)
Dispatch(w) ==
  /\ \E t \in Tasks : Working(w, t, "dispatch")
  /\ IF Ends(job[w])
     THEN Goto(w, "ack") /\ UNCHANGED queue /\ NoFault
     ELSE \/ Publish(Successor(job[w])) /\ Goto(w, "ack") /\ NoFault
          \/ /\ Fault("dispatch", job[w].msg.scan)
             /\ Goto(w, IF job[w].out = "fallback" THEN "ack" ELSE "dispatch_failed")
             /\ UNCHANGED queue
  /\ UNCHANGED <<database, files, cache, intake, stuck>>

(* browser_features reports a sandbox it could not queue as its own        *)
(* failure; the other tasks name the task that was not queued.             *)
DispatchFailedStatus(j) ==
  IF j.msg.task = "browser_features" /\ j.out = "sandbox"
  THEN <<"browser_features", "failed">>
  ELSE <<Successor(j).task, "dispatch_failed">>

MarkDispatchFailed(w) ==
  /\ \E t \in Tasks : Working(w, t, "dispatch_failed")
  /\ Mark(job[w].msg.scan, DispatchFailedStatus(job[w]))
  /\ Goto(w, "ack")
  /\ UNCHANGED <<row, incidents, files, cache, queue, intake, stuck>>

(* The files are written outside the try blocks: the task ends, and what   *)
(* the row says of it stands.                                              *)
WriteFails(w) ==
  /\ \E t \in Tasks \ {"alert_pipeline"}, label \in {"work", "truncate", "complete"} :
       Working(w, t, label)
  /\ Fault("disk", job[w].msg.scan)
  /\ Goto(w, "ack")
  /\ UNCHANGED <<database, files, cache, queue, intake, stuck>>

Ack(w) ==
  /\ \E t \in Tasks : Working(w, t, "ack")
  /\ job' = [job EXCEPT ![w] = Idle]
  /\ UNCHANGED <<database, files, cache, queue, intake, stuck, budget>>

-----------------------------------------------------------------------------
(* browser_features_task.                                                  *)

(* The upload is gone: failed at once, without a retry.                    *)
UploadMissing(w) ==
  /\ Working(w, "browser_features", "work")
  /\ LET s == job[w].msg.scan IN
     /\ "upload" \notin disk[s]
     /\ Mark(s, <<"browser_features", "failed">>)
  /\ Goto(w, "ack")
  /\ UNCHANGED <<row, incidents, files, cache, queue, intake, stuck>>

(* Without the scan's URL, which a failed query or a deleted row leaves    *)
(* empty, no domain is trusted.                                            *)
ExtractFeatures(w) ==
  /\ Working(w, "browser_features", "work")
  /\ LET s == job[w].msg.scan IN
     /\ "upload" \in disk[s]
     /\ disk' = [disk EXCEPT ![s] = @ \cup {"features"}]
     /\ \/ /\ Decide(w, "mark", IF s \in Trusted /\ status[s] # Purged
                                THEN "skip" ELSE "sandbox")
           /\ NoFault
        \/ Decide(w, "mark", "sandbox") /\ Fault("db", s)
  /\ UNCHANGED <<database, meta, report, cache, queue, intake, stuck>>

(* sandbox_metadata.json without a detonation is opened for writing, which *)
(* truncates it, and then written: by browser_features when it skips the   *)
(* sandbox, and by sandbox_analysis on a timeout or when its retries are   *)
(* exhausted, which is to say at any failed call.                          *)
TruncateMetadata(w) ==
  /\ \/ Working(w, "browser_features", "truncate") /\ Goto(w, "complete")
     \/ Working(w, "sandbox_analysis", "work") /\ Decide(w, "complete", "fallback")
  /\ meta' = [meta EXCEPT ![job[w].msg.scan] = "partial"]
  /\ UNCHANGED <<database, disk, report, cache, queue, intake, stuck, budget>>

CompleteMetadata(w) ==
  /\ \E t \in Tasks : Working(w, t, "complete")
  /\ meta' = [meta EXCEPT ![job[w].msg.scan] = "fallback"]
  /\ Goto(w, IF job[w].out = "fallback" THEN "mark" ELSE "dispatch")
  /\ UNCHANGED <<database, disk, report, cache, queue, intake, stuck, budget>>

-----------------------------------------------------------------------------
(* sandbox_analysis_task.  A failed call that is no timeout is retried.    *)

SandboxFails(w) ==
  /\ Working(w, "sandbox_analysis", "work")
  /\ LET m == job[w].msg IN
     /\ m.retries < MaxRetries[m.task]
     /\ Mark(m.scan, <<m.task, "retrying">>)
  /\ Goto(w, "retry")
  /\ UNCHANGED <<row, incidents, files, cache, queue, intake, stuck>>

(* The metadata replaces the old file in one step.  sandbox.html, the      *)
(* screenshots and the telemetry rows are data no property tells apart.    *)
SandboxReturns(w) ==
  /\ Working(w, "sandbox_analysis", "work")
  /\ status[job[w].msg.scan] # Purged          \* the row holds the URL
  /\ meta' = [meta EXCEPT ![job[w].msg.scan] = "detonated"]
  /\ Goto(w, "mark")
  /\ UNCHANGED <<database, disk, report, cache, queue, intake, stuck, budget>>

-----------------------------------------------------------------------------
(* consistency_task.  Missing or truncated metadata is tolerated.          *)

WriteConsistency(w) ==
  /\ Working(w, "consistency", "work")
  /\ LET s == job[w].msg.scan IN
     /\ "features" \in disk[s]
     /\ disk' = [disk EXCEPT ![s] = @ \cup {"consistency"}]
  /\ Goto(w, "mark")
  /\ UNCHANGED <<database, meta, report, cache, queue, intake, stuck, budget>>

-----------------------------------------------------------------------------
(* risk_fusion_task: report on disk, then cache (and publication to the    *)
(* listening WebSockets), then row, then alert.                            *)

WriteReport(w) ==
  /\ Working(w, "risk_fusion", "work")
  /\ LET s == job[w].msg.scan IN
     /\ {"features", "consistency"} \subseteq disk[s]
     /\ meta[s] \in {"fallback", "detonated"}
     /\ \E v \in Verdicts : /\ report' = [report EXCEPT ![s] = v]
                            /\ Decide(w, "cache", v)
  /\ UNCHANGED <<database, disk, meta, cache, queue, intake, stuck, budget>>

(* Nothing catches an error of setex: the task ends there.                 *)
CacheReport(w) ==
  /\ Working(w, "risk_fusion", "cache")
  /\ \/ /\ cache' = [cache EXCEPT ![job[w].msg.scan] = job[w].out]
        /\ Goto(w, "mark")
        /\ NoFault
     \/ Fault("cache", job[w].msg.scan) /\ Goto(w, "ack") /\ UNCHANGED cache
  /\ UNCHANGED <<database, files, queue, intake, stuck>>

(* Mutant: the status is updated and the verdict is not.                   *)
StatusOnlyMarkVerdict(w) ==
  /\ Working(w, "risk_fusion", "mark")
  /\ Mark(job[w].msg.scan, <<"risk_fusion", "done">>)
  /\ Goto(w, "dispatch")
  /\ UNCHANGED <<row, incidents, files, cache, queue, intake, stuck>>

MarkVerdict(w) ==
  /\ Working(w, "risk_fusion", "mark")
  /\ LET s == job[w].msg.scan IN
     \/ /\ SetStatus(s, <<"risk_fusion", "done">>)
        /\ row' = [row EXCEPT ![s] = IF status[s] = Purged THEN @ ELSE job[w].out]
        /\ NoFault
     \/ Fault("db", s) /\ UNCHANGED <<status, row>>
  /\ Goto(w, "dispatch")
  /\ UNCHANGED <<incidents, files, cache, queue, intake, stuck>>

(* setex gave the entry an hour to live.                                   *)
ExpireCache(s) ==
  /\ cache[s] # "none"
  /\ cache' = [cache EXCEPT ![s] = "none"]
  /\ UNCHANGED <<database, files, queue, job, intake, stuck, budget>>

-----------------------------------------------------------------------------
(* alert_pipeline_task: Incident, IOCs and statistics in one transaction,  *)
(* which the foreign key refuses once the scan's row is deleted.  The      *)
(* task's own test for a placeholder report is never met: AlertsAreReal.   *)

(* Mutant: an error of the notification that follows the commit is retried *)
(* like one of the commit.                                                 *)
RetryingCreateIncident(w) ==
  /\ Working(w, "alert_pipeline", "work")
  /\ LET m == job[w].msg IN
     /\ status[m.scan] # Purged
     /\ incidents' = [incidents EXCEPT ![m.scan] = @ + 1]
     /\ Goto(w, IF m.retries < MaxRetries[m.task] THEN "retry" ELSE "mark")
  /\ UNCHANGED <<status, row, files, cache, queue, intake, stuck, budget>>

CreateIncident(w) ==
  /\ Working(w, "alert_pipeline", "work")
  /\ LET s == job[w].msg.scan IN
     /\ status[s] # Purged
     /\ incidents' = [incidents EXCEPT ![s] = @ + 1]
  /\ Goto(w, "mark")
  /\ UNCHANGED <<status, row, files, cache, queue, intake, stuck, budget>>

-----------------------------------------------------------------------------
(* job_reconciliation_task reads the scans that look stuck, then writes    *)
(* them all in one commit.  How long a scan must have been silent is not   *)
(* modelled: a backlog can outlast any timeout.  A row deleted in between  *)
(* makes the commit fail.                                                  *)

FindStuck ==
  /\ stuck = {}
  /\ stuck' \in (SUBSET {s \in Scans : status[s] \in RUNNING_STATUSES}) \ {{}}
  /\ UNCHANGED <<database, files, cache, queue, job, intake, budget>>

FailStuck ==
  /\ stuck # {}
  /\ stuck' = {}
  /\ status' = IF \E s \in stuck : status[s] = Purged THEN status
               ELSE [s \in Scans |-> IF s \in stuck THEN FailedTimeout ELSE status[s]]
  /\ UNCHANGED <<row, incidents, files, cache, queue, job, intake, budget>>

-----------------------------------------------------------------------------
(* file_cleanup_task, for a scan older than the retention period.  Nothing *)
(* has been written in an expired directory for days, so no task is at     *)
(* work in it, though messages may still be waiting; the row expires by    *)
(* its creation date, whatever happens to the scan.                        *)

At(w, s) == job[w] # Idle /\ job[w].msg.scan = s

SweepDirectory(s) ==
  /\ intake[s] = "done"
  /\ disk[s] # {}
  /\ \A w \in Workers : ~At(w, s)
  /\ Fault("retention", s)
  /\ disk' = [disk EXCEPT ![s] = {}]
  /\ meta' = [meta EXCEPT ![s] = "none"]
  /\ report' = [report EXCEPT ![s] = "none"]
  /\ UNCHANGED <<database, cache, queue, job, intake, stuck>>

PurgeRow(s) ==
  /\ intake[s] = "done"
  /\ status[s] # Purged
  /\ incidents[s] = 0
  /\ Fault("retention", s)
  /\ status' = [status EXCEPT ![s] = Purged]
  /\ row' = [row EXCEPT ![s] = "none"]
  /\ UNCHANGED <<incidents, files, cache, queue, job, intake, stuck>>

-----------------------------------------------------------------------------
(* The environment.                                                        *)

(* task_reject_on_worker_lost: the message goes back to its queue.         *)
WorkerCrash(w) ==
  /\ job[w] # Idle
  /\ Publish(job[w].msg)
  /\ job' = [job EXCEPT ![w] = Idle]
  /\ Fault("crash", job[w].msg.scan)
  /\ UNCHANGED <<database, files, cache, intake, stuck>>

LoseMessage(m) ==
  /\ queue[m] > 0
  /\ queue' = [queue EXCEPT ![m] = @ - 1]
  /\ Fault("loss", m.scan)
  /\ UNCHANGED <<database, files, cache, job, intake, stuck>>

-----------------------------------------------------------------------------
Init ==
  /\ status    = [s \in Scans |-> Absent]
  /\ row       = [s \in Scans |-> "none"]
  /\ incidents = [s \in Scans |-> 0]
  /\ disk      = [s \in Scans |-> {}]
  /\ meta      = [s \in Scans |-> "none"]
  /\ report    = [s \in Scans |-> "none"]
  /\ cache     = [s \in Scans |-> "none"]
  /\ queue     = [m \in Messages |-> 0]
  /\ job       = [w \in Workers |-> Idle]
  /\ intake    = [s \in Scans |-> "idle"]
  /\ stuck     = {}
  /\ faults    = 0
  /\ hit       = [s \in Scans |-> {}]

Request(s) == \/ Block(s) \/ StoreUpload(s) \/ RejectUpload(s) \/ Send(s)
              \/ ConfirmRunning(s) \/ ConfirmDispatchFailed(s)

Work(w) == \/ WorkFails(w) \/ Retry(w) \/ MarkDone(w) \/ Dispatch(w)
           \/ MarkDispatchFailed(w) \/ Ack(w) \/ UploadMissing(w)
           \/ ExtractFeatures(w) \/ TruncateMetadata(w) \/ CompleteMetadata(w)
           \/ SandboxFails(w) \/ SandboxReturns(w) \/ WriteConsistency(w)
           \/ WriteReport(w) \/ CacheReport(w) \/ MarkVerdict(w)
           \/ CreateIncident(w)

Receive(w) == \E m \in Messages : Start(w, m)

Retention(s) == SweepDirectory(s) \/ PurgeRow(s)

Next == \/ \E s \in Scans : \/ Submit(s) \/ Request(s) \/ IntakeCrash(s)
                           \/ ExpireCache(s) \/ Retention(s)
        \/ \E w \in Workers : Receive(w) \/ Work(w) \/ WriteFails(w) \/ WorkerCrash(w)
        \/ \E m \in Messages : LoseMessage(m)
        \/ FindStuck \/ FailStuck

Spec == Init /\ [][Next]_vars

(* A request that has begun runs on, a worker takes messages and runs      *)
(* tasks, and celery_beat schedules the reconciliation job for ever.       *)
FairSpec ==
  /\ Spec
  /\ \A s \in Scans : WF_vars(Request(s))
  /\ \A w \in Workers : WF_vars(Receive(w)) /\ WF_vars(Work(w))
  /\ WF_vars(FindStuck) /\ WF_vars(FailStuck)

-----------------------------------------------------------------------------
(* Properties.                                                             *)

Artifacts == {"upload", "features", "consistency"}
NoVerdict == AllVerdicts \cup {"none"}

(* Every variable has its type.                                            *)
TypeOK ==
  /\ status \in [Scans -> Statuses]
  /\ row \in [Scans -> NoVerdict]
  /\ incidents \in [Scans -> Nat]
  /\ disk \in [Scans -> SUBSET Artifacts]
  /\ meta \in [Scans -> {"none", "partial", "fallback", "detonated"}]
  /\ report \in [Scans -> NoVerdict]
  /\ cache \in [Scans -> NoVerdict]
  /\ queue \in [Messages -> Nat]
  /\ job \in [Workers -> Jobs \cup {Idle}]
  /\ intake \in [Scans -> {"idle", "created", "stored", "sent", "send_failed", "done"}]
  /\ stuck \in SUBSET Scans
  /\ faults \in Nat
  /\ hit \in [Scans -> SUBSET AllFaults]

Waits(m) == queue[m] > 0

(* What a task relies on finding when it starts.                           *)
Inputs(m) ==
  LET s == m.scan IN
  CASE m.task = "browser_features" -> "upload" \in disk[s]
    [] m.task = "sandbox_analysis" -> "features" \in disk[s]
    [] m.task = "consistency"      -> "features" \in disk[s] /\ meta[s] # "none"
    [] m.task = "risk_fusion"      -> /\ {"features", "consistency"} \subseteq disk[s]
                                      /\ meta[s] # "none"
    [] m.task = "alert_pipeline"   -> report[s] # "none"

(* A task is queued only after every file it reads has been written, so    *)
(* whatever crashes, losses and redeliveries happen, a task that waits or  *)
(* runs finds its inputs -- unless the retention job removed them.  This   *)
(* is what lets every stage of the pipeline load its inputs unguarded.     *)
InputsReady ==
  \A m \in Messages :
    (Waits(m) \/ \E w \in Workers : job[w] # Idle /\ job[w].msg = m)
      => "retention" \in hit[m.scan] \/ Inputs(m)

(* An incident row, a statistics increment and a Slack message are never   *)
(* caused by a placeholder score: no alert_pipeline message carries        *)
(* anything but a severe report of a real model.                           *)
AlertsAreReal ==
  \A m \in Messages :
    m.task = "alert_pipeline" /\ Waits(m) => m.verdict = "severe"

Carries(w, s) == At(w, s) /\ job[w].pc # "ack"

(* As long as no process dies, a scan's work is in one place only: one     *)
(* message or one task that has not yet handed over.  Retries, fallbacks   *)
(* and dispatch failures never fork the pipeline.                          *)
SingleFlight ==
  \A s \in Scans : "crash" \notin hit[s] =>
    /\ \A w \in Workers : Carries(w, s) =>
         /\ \A v \in Workers : Carries(v, s) => v = w
         /\ \A m \in Messages : m.scan = s => ~Waits(m)
    /\ \A m \in Messages : m.scan = s /\ Waits(m) =>
         /\ queue[m] = 1
         /\ \A n \in Messages : n.scan = s /\ Waits(n) => n = m

(* The three places a client may read a verdict from -- the report on      *)
(* disk, the cache and the row -- agree once risk_fusion has written them, *)
(* if nothing failed while it did.                                         *)
VerdictsAgree ==
  \A s \in Scans :
    /\ hit[s] \cap {"crash", "db", "cache", "retention"} = {}
    /\ report[s] # "none"
    /\ ~\E w \in Workers : /\ At(w, s)
                          /\ job[w].msg.task = "risk_fusion"
                          /\ job[w].pc \in {"cache", "mark"}
    => row[s] = report[s] /\ cache[s] \in {report[s], "none"}

(* Without a crash a scan raises at most one incident, and only for the    *)
(* severe report that is on disk; a retry after a failed transaction does  *)
(* not raise another.                                                      *)
OneIncident ==
  \A s \in Scans :
    incidents[s] > 0 /\ hit[s] \cap {"crash", "retention"} = {}
      => incidents[s] = 1 /\ report[s] = "severe"

Busy(s) == \/ intake[s] \notin {"idle", "done"}
           \/ \E w \in Workers : At(w, s)
           \/ \E m \in Messages : m.scan = s /\ Waits(m)

Terminal ==
  {Blocked, FailedTimeout, Purged, <<"risk_fusion", "done">>, <<"alert_pipeline", "done">>}
  \cup ((Tasks \ {"sandbox_analysis"}) \X {"failed"})

(* Nobody will ever move the scan on, and the row does not say so.         *)
Stalled(s) == ~Busy(s) /\ status[s] \notin Terminal \cup {Absent}

(* As long as no process dies, a final status is overwritten only by a     *)
(* writer with a stale copy of the row -- the request that queued the scan *)
(* or a reconciliation run that has already read it -- or by a task that   *)
(* was late rather than lost; alert_pipeline alone follows a final status. *)
OnlyStaleWritersUndo ==
  [][\A s \in Scans :
       status[s] \in Terminal /\ status'[s] # status[s] /\ "crash" \notin hit[s] =>
         \/ intake[s] \in {"sent", "send_failed"}
         \/ s \in stuck
         \/ status[s] = FailedTimeout
         \/ status'[s] = Purged
         \/ status[s] = <<"risk_fusion", "done">> /\ status'[s][1] = "alert_pipeline"
    ]_vars

(* Whatever fails, the pipeline comes to rest: retries, redeliveries and   *)
(* fallbacks cannot keep a scan going round for ever.                      *)
Drains == \A s \in Scans : <>[]~Busy(s)

(* Every scan that is created ends in a final status -- the pipeline       *)
(* finishes it or the reconciliation job times it out -- unless the broker *)
(* lost or refused a message of its or the database refused an update.     *)
Settles ==
  \A s \in Scans : <>[](\/ status[s] \in Terminal \cup {Absent}
                       \/ hit[s] \cap {"loss", "dispatch", "db"} # {})

(* The reconciliation job finds every scan stuck in the pipeline "so they  *)
(* don't hang indefinitely" (tasks/job_reconciliation.py:46).              *)
NoScanHangs == \A s \in Scans : Stalled(s) => status[s] \in RUNNING_STATUSES
=============================================================================
