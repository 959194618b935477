------------------------- MODULE ScanPipelineProofs -------------------------
(***************************************************************************)
(* Theorems about ScanPipeline, for every set of scans and workers, every  *)
(* retry limit and every combination of faults.                            *)
(***************************************************************************)
EXTENDS ScanPipeline, TLAPS

USE ConstantsAssumption DEF Tasks, AllVerdicts, AllFaults

PCs    == {"work", "retry", "truncate", "complete", "cache", "mark",
           "dispatch", "dispatch_failed", "ack"}
Phases == {"running", "retrying", "failed", "done", "dispatch_failed"}

(* What a task has decided by the time it reaches an effect.               *)
JobOK(j) ==
  /\ j.pc = "retry" => j.msg.retries < MaxRetries[j.msg.task]
  /\ j.pc \in {"truncate", "complete", "dispatch", "dispatch_failed"}
       => j.msg.task # "alert_pipeline"
  /\ j.pc \in {"truncate", "complete"} => j.msg.task # "risk_fusion"
  /\ j.pc \in {"cache", "mark", "dispatch", "dispatch_failed"} /\ j.msg.task = "risk_fusion"
       => j.out \in AllVerdicts

TypeInv == TypeOK /\ \A w \in Workers : job[w] # Idle => JobOK(job[w])

-----------------------------------------------------------------------------
(* Lemmas about the operators the actions are built from.                  *)

(* A message is a record of a task, a scan and a number of retries within  *)
(* the task's limit.                                                       *)
LEMMA MessageFields ==
  ASSUME NEW m \in Messages
  PROVE  /\ m.task \in Tasks /\ m.scan \in Scans
         /\ m.retries \in 0 .. MaxRetries[m.task] /\ m.retries \in Nat
         /\ m.verdict \in NoVerdict
         /\ m = [task |-> m.task, scan |-> m.scan, retries |-> m.retries,
                 verdict |-> m.verdict]
         /\ m.task # "alert_pipeline" => m.verdict = "none"
  BY DEF Messages, NoVerdict

(* A fresh message is a message, and so is alert_pipeline's with a report. *)
LEMMA FreshMessage ==
  ASSUME NEW t \in Tasks, NEW s \in Scans
  PROVE  /\ t # "alert_pipeline" => Message(t, s) \in Messages
         /\ \A v \in AllVerdicts :
              [Message("alert_pipeline", s) EXCEPT !.verdict = v] \in Messages
  <1>1. t # "alert_pipeline" => Message(t, s) \in Messages
    <2>1. 0 \in 0 .. MaxRetries[t] OBVIOUS
    <2> QED BY <2>1 DEF Messages, Message
  <1>2. ASSUME NEW v \in AllVerdicts
        PROVE  [Message("alert_pipeline", s) EXCEPT !.verdict = v] \in Messages
    <2>1. 0 \in 0 .. MaxRetries["alert_pipeline"] OBVIOUS
    <2>2. [Message("alert_pipeline", s) EXCEPT !.verdict = v]
            = [task |-> "alert_pipeline", scan |-> s, retries |-> 0, verdict |-> v]
      BY DEF Message
    <2> QED BY <2>1, <2>2 DEF Messages
  <1> QED BY <1>1, <1>2

(* A message published again with one more retry is within its limit.      *)
LEMMA RetriedMessage ==
  ASSUME NEW m \in Messages, m.retries < MaxRetries[m.task]
  PROVE  [m EXCEPT !.retries = @ + 1] \in Messages
  <1>1. [m EXCEPT !.retries = @ + 1]
          = [task |-> m.task, scan |-> m.scan, retries |-> m.retries + 1,
             verdict |-> m.verdict]
    BY MessageFields
  <1>2. m.retries + 1 \in 0 .. MaxRetries[m.task]
    BY MessageFields
  <1> QED BY <1>1, <1>2, MessageFields DEF Messages

(* The statuses a task writes are statuses.                                *)
LEMMA TaskStatus ==
  ASSUME NEW t \in Tasks, NEW p \in Phases
  PROVE  <<t, p>> \in Statuses
  BY DEF Statuses, Phases

(* A worker that is not idle is at work on a message.                      *)
LEMMA JobFields ==
  ASSUME NEW w \in Workers, TypeOK, job[w] # Idle
  PROVE  /\ job[w] \in Jobs /\ job[w].msg \in Messages /\ job[w].pc \in PCs
         /\ job[w].out \in AllVerdicts \cup {"none", "sandbox", "skip", "fallback"}
         /\ job[w].msg.task \in Tasks /\ job[w].msg.scan \in Scans
  <1>1. job[w] \in Jobs
    BY DEF TypeOK
  <1>2. job[w].msg \in Messages
    BY <1>1 DEF Jobs
  <1> QED BY <1>1, <1>2, MessageFields DEF Jobs, PCs

(* A fault leaves the budget typed.                                        *)
LEMMA FaultType ==
  ASSUME NEW k, NEW s \in Scans, TypeOK, NoFault \/ Fault(k, s)
  PROVE  faults' \in Nat /\ hit' \in [Scans -> SUBSET AllFaults]
  <1>1. CASE NoFault
    BY <1>1 DEF TypeOK, NoFault, budget
  <1>2. CASE Fault(k, s)
    <2>1. hit[s] \cup {k} \in SUBSET AllFaults
      BY <1>2, FaultKinds \subseteq AllFaults DEF TypeOK, Fault
    <2> QED BY <1>2, <2>1 DEF TypeOK, Fault
  <1> QED BY <1>1, <1>2

(* So does publishing a message leave the queue.                           *)
LEMMA PublishType ==
  ASSUME NEW m, TypeOK, Publish(m)
  PROVE  queue' \in [Messages -> Nat]
  <1>1. ASSUME NEW n \in Messages PROVE queue'[n] \in Nat
    <2>1. queue[n] \in Nat /\ queue[n] + 1 \in Nat
      BY DEF TypeOK
    <2> QED BY <2>1 DEF Publish, TypeOK
  <1> QED BY <1>1 DEF Publish, TypeOK

(* A status update leaves the row's status and the budget typed.           *)
LEMMA MarkType ==
  ASSUME NEW s \in Scans, NEW st \in Statuses, TypeOK, Mark(s, st)
  PROVE  /\ status' \in [Scans -> Statuses]
         /\ faults' \in Nat /\ hit' \in [Scans -> SUBSET AllFaults]
  <1>1. CASE SetStatus(s, st) /\ NoFault
    <2>1. status' \in [Scans -> Statuses]
      BY <1>1 DEF SetStatus, TypeOK
    <2> QED BY <1>1, <2>1, FaultType
  <1>2. CASE Fault("db", s) /\ UNCHANGED status
    BY <1>2, FaultType DEF TypeOK
  <1> QED BY <1>1, <1>2 DEF Mark

(* A task that goes on to its next effect leaves the jobs typed, and every *)
(* other job as it was.                                                    *)
LEMMA GotoType ==
  ASSUME NEW w \in Workers, NEW label \in PCs, TypeOK, job[w] # Idle,
         Goto(w, label)
  PROVE  /\ job' \in [Workers -> Jobs \cup {Idle}]
         /\ job'[w] = [job[w] EXCEPT !.pc = label] /\ job'[w] \in Jobs
         /\ job'[w].pc = label /\ job'[w].msg = job[w].msg /\ job'[w].out = job[w].out
         /\ \A v \in Workers : v # w => job'[v] = job[v]
  <1>1. job[w] \in Jobs
    BY JobFields
  <1>2. [job[w] EXCEPT !.pc = label] \in Jobs
    BY <1>1 DEF Jobs, PCs
  <1>3. job' = [job EXCEPT ![w] = [job[w] EXCEPT !.pc = label]]
    BY DEF Goto
  <1> QED BY <1>1, <1>2, <1>3 DEF TypeOK, Jobs

LEMMA DecideType ==
  ASSUME NEW w \in Workers, NEW label \in PCs, TypeOK, job[w] # Idle,
         NEW what \in AllVerdicts \cup {"none", "sandbox", "skip", "fallback"},
         Decide(w, label, what)
  PROVE  /\ job' \in [Workers -> Jobs \cup {Idle}]
         /\ job'[w].pc = label /\ job'[w].msg = job[w].msg /\ job'[w].out = what
         /\ job'[w] \in Jobs
         /\ \A v \in Workers : v # w => job'[v] = job[v]
  <1> DEFINE j == [job[w] EXCEPT !.pc = label, !.out = what]
  <1>1. job[w] \in Jobs
    BY JobFields
  <1>2. j \in Jobs
    BY <1>1 DEF Jobs, PCs
  <1>3. job' = [job EXCEPT ![w] = j]
    BY DEF Decide, TypeOK
  <1>4. j.pc = label /\ j.msg = job[w].msg /\ j.out = what
    BY <1>1 DEF Jobs
  <1> QED BY <1>2, <1>3, <1>4 DEF TypeOK

-----------------------------------------------------------------------------
(* Type correctness.                                                       *)

LEMMA TypeInit == Init => TypeInv
  <1> SUFFICES ASSUME Init PROVE TypeInv
    OBVIOUS
  <1>1. Absent \in Statuses
    BY DEF Statuses
  <1> QED BY <1>1 DEF Init, TypeInv, TypeOK, NoVerdict, Idle

(* An action of the intake request, of a scan's environment or of a        *)
(* periodic job touches no task.                                           *)
LEMMA TypeRequest ==
  ASSUME TypeInv, NEW s \in Scans,
         Submit(s) \/ Request(s) \/ IntakeCrash(s) \/ ExpireCache(s) \/ Retention(s)
  PROVE  TypeInv'
  <1>0. {Created, Blocked, Purged} \subseteq Statuses
        /\ <<"browser_features", "running">> \in Statuses
        /\ <<"browser_features", "dispatch_failed">> \in Statuses
    BY DEF Statuses
  <1> USE DEF TypeInv, vars, database, files, budget
  <1>a. (\A w \in Workers : job[w] # Idle => JobOK(job[w])) /\ TypeOK
    OBVIOUS
  <1>1. CASE Submit(s)
    BY <1>0, <1>1 DEF Submit, TypeOK, JobOK
  <1>2. CASE Block(s)
    BY <1>0, <1>2 DEF Block, TypeOK, JobOK, NoVerdict
  <1>3. CASE StoreUpload(s)
    BY <1>3 DEF StoreUpload, TypeOK, JobOK, Artifacts
  <1>4. CASE RejectUpload(s)
    BY <1>4 DEF RejectUpload, TypeOK, JobOK, Artifacts
  <1>5. CASE Send(s)
    <2>1. faults' \in Nat /\ hit' \in [Scans -> SUBSET AllFaults]
      BY <1>5, FaultType DEF Send
    <2>2. queue' \in [Messages -> Nat]
      BY <1>5, PublishType DEF Send, TypeOK
    <2> QED BY <1>5, <2>1, <2>2 DEF Send, TypeOK, JobOK
  <1>6. CASE ConfirmRunning(s)
    <2>1. faults' \in Nat /\ hit' \in [Scans -> SUBSET AllFaults]
      BY <1>6, FaultType DEF ConfirmRunning
    <2>2. status' \in [Scans -> Statuses]
      BY <1>0, <1>6 DEF ConfirmRunning, SetStatus, TypeOK
    <2> QED BY <1>6, <2>1, <2>2 DEF ConfirmRunning, TypeOK, JobOK
  <1>7. CASE ConfirmDispatchFailed(s)
    <2>1. /\ status' \in [Scans -> Statuses]
          /\ faults' \in Nat /\ hit' \in [Scans -> SUBSET AllFaults]
      BY <1>0, <1>7, MarkType DEF ConfirmDispatchFailed
    <2> QED BY <1>7, <2>1 DEF ConfirmDispatchFailed, TypeOK, JobOK
  <1>8. CASE IntakeCrash(s)
    <2>1. faults' \in Nat /\ hit' \in [Scans -> SUBSET AllFaults]
      BY <1>8, FaultType DEF IntakeCrash
    <2> QED BY <1>8, <2>1 DEF IntakeCrash, TypeOK, JobOK
  <1>9. CASE ExpireCache(s)
    BY <1>9 DEF ExpireCache, TypeOK, JobOK, NoVerdict
  <1>10. CASE SweepDirectory(s)
    <2>1. faults' \in Nat /\ hit' \in [Scans -> SUBSET AllFaults]
      BY <1>10, FaultType DEF SweepDirectory
    <2> QED BY <1>10, <2>1 DEF SweepDirectory, TypeOK, JobOK, NoVerdict
  <1>11. CASE PurgeRow(s)
    <2>1. faults' \in Nat /\ hit' \in [Scans -> SUBSET AllFaults]
      BY <1>11, FaultType DEF PurgeRow
    <2> QED BY <1>0, <1>11, <2>1 DEF PurgeRow, TypeOK, JobOK, NoVerdict
  <1> QED BY <1>1, <1>2, <1>3, <1>4, <1>5, <1>6, <1>7, <1>8, <1>9, <1>10, <1>11
         DEF Request, Retention

LEMMA TypeReconcile ==
  ASSUME TypeInv, FindStuck \/ FailStuck
  PROVE  TypeInv'
  <1> USE DEF TypeInv, vars, database, files, budget
  <1>1. CASE FindStuck
    BY <1>1 DEF FindStuck, TypeOK, JobOK
  <1>2. CASE FailStuck
    <2>1. FailedTimeout \in Statuses
      BY DEF Statuses
    <2>2. status' \in [Scans -> Statuses]
      BY <1>2, <2>1 DEF FailStuck, TypeOK
    <2> QED BY <1>2, <2>2 DEF FailStuck, TypeOK, JobOK
  <1> QED BY <1>1, <1>2

LEMMA TypeLose ==
  ASSUME TypeInv, NEW m \in Messages, LoseMessage(m)
  PROVE  TypeInv'
  <1> USE DEF TypeInv, vars, database, files, budget
  <1>1. faults' \in Nat /\ hit' \in [Scans -> SUBSET AllFaults]
    BY FaultType, MessageFields DEF LoseMessage
  <1>2. queue' \in [Messages -> Nat]
    BY DEF LoseMessage, TypeOK
  <1> QED BY <1>1, <1>2 DEF LoseMessage, TypeOK, JobOK

(* The task's own step: the one job that changes is sound afterwards.      *)
LEMMA TypeWork ==
  ASSUME TypeInv, NEW w \in Workers, Work(w)
  PROVE  TypeInv'
  <1> USE DEF TypeInv, database, files, budget
  <1> DEFINE s == job[w].msg.scan
             t == job[w].msg.task
  <1>0. job[w] # Idle
    BY DEF Work, WorkFails, Retry, MarkDone, Dispatch, MarkDispatchFailed, Ack,
           UploadMissing, ExtractFeatures, TruncateMetadata, CompleteMetadata,
           SandboxFails, SandboxReturns, WriteConsistency, WriteReport,
           CacheReport, MarkVerdict, CreateIncident, Working
  <1>a. /\ job[w] \in Jobs /\ job[w].msg \in Messages /\ t \in Tasks /\ s \in Scans
        /\ JobOK(job[w])
    BY <1>0, JobFields
  <1>b. \A p \in Phases : <<t, p>> \in Statuses
    BY <1>a, TaskStatus
  <1>c. ASSUME \A v \in Workers : v # w => job'[v] = job[v], JobOK(job'[w]) \/ job'[w] = Idle
        PROVE  \A v \in Workers : job'[v] # Idle => JobOK(job'[v])
    BY <1>c
  <1>1. CASE WorkFails(w)
    <2>1. \/ Goto(w, "ack") /\ Mark(s, <<t, "failed">>)
          \/ /\ Goto(w, "retry") /\ Mark(s, <<t, "retrying">>)
             /\ ~(job[w].msg.retries >= MaxRetries[t])
      BY <1>1 DEF WorkFails
    <2>2. /\ status' \in [Scans -> Statuses]
          /\ faults' \in Nat /\ hit' \in [Scans -> SUBSET AllFaults]
      BY <1>a, <1>b, <2>1, MarkType DEF Phases
    <2>3. CASE job'[w].pc = "ack" /\ Goto(w, "ack")
      BY <1>0, <1>1, <1>c, <2>2, <2>3, GotoType DEF WorkFails, TypeOK, JobOK, PCs
    <2>4. CASE Goto(w, "retry") /\ ~(job[w].msg.retries >= MaxRetries[t])
      <3>1. job[w].msg.retries < MaxRetries[t]
        BY <1>a, <2>4, MessageFields
      <3> QED BY <1>0, <1>1, <1>c, <2>2, <2>4, <3>1, GotoType DEF WorkFails, TypeOK, JobOK, PCs
    <2> QED BY <1>0, <2>1, <2>3, <2>4, GotoType DEF PCs
  <1>2. CASE Retry(w)
    <2>1. queue' \in [Messages -> Nat]
      BY <1>2, PublishType DEF Retry
    <2> QED BY <1>0, <1>2, <1>c, <2>1, GotoType DEF Retry, TypeOK, JobOK, PCs
  <1>3. CASE MarkDone(w)
    <2>1. /\ status' \in [Scans -> Statuses]
          /\ faults' \in Nat /\ hit' \in [Scans -> SUBSET AllFaults]
      BY <1>3, <1>a, <1>b, MarkType DEF MarkDone, Phases
    <2>2. t # "risk_fusion"
      BY <1>3 DEF MarkDone, Working
    <2>3. CASE t = "alert_pipeline"
      <3>1. Goto(w, "ack")
        <4>1. Goto(w, IF t = "alert_pipeline" THEN "ack" ELSE
                         IF job[w].out = "skip" THEN "truncate" ELSE "dispatch")
          BY <1>3 DEF MarkDone
        <4> QED BY <2>3, <4>1
      <3> QED BY <1>0, <1>3, <1>c, <2>1, <3>1, GotoType DEF MarkDone, TypeOK, JobOK, PCs
    <2>4. CASE t # "alert_pipeline"
      <3>1. Goto(w, "truncate") \/ Goto(w, "dispatch")
        BY <1>3, <2>4 DEF MarkDone
      <3> QED BY <1>0, <1>3, <1>c, <2>1, <2>2, <2>4, <3>1, GotoType DEF MarkDone, TypeOK, JobOK, PCs
    <2> QED BY <2>3, <2>4
  <1>4. CASE Dispatch(w)
    <2>1. faults' \in Nat /\ hit' \in [Scans -> SUBSET AllFaults]
      BY <1>4, <1>a, FaultType DEF Dispatch
    <2>2. queue' \in [Messages -> Nat]
      BY <1>4, PublishType DEF Dispatch, TypeOK
    <2>3. Goto(w, "ack") \/ Goto(w, "dispatch_failed")
      BY <1>4 DEF Dispatch
    <2>4. job[w].pc = "dispatch"
      BY <1>4 DEF Dispatch, Working
    <2> QED BY <1>0, <1>4, <1>a, <1>c, <2>1, <2>2, <2>3, <2>4, GotoType
           DEF Dispatch, TypeOK, JobOK, PCs
  <1>5. CASE MarkDispatchFailed(w)
    <2>1. Successor(job[w]).task \in Tasks
      BY <1>a DEF Successor, Message
    <2>2. DispatchFailedStatus(job[w]) \in Statuses
      BY <2>1, TaskStatus DEF DispatchFailedStatus, Phases
    <2>3. /\ status' \in [Scans -> Statuses]
          /\ faults' \in Nat /\ hit' \in [Scans -> SUBSET AllFaults]
      BY <1>5, <1>a, <2>2, MarkType DEF MarkDispatchFailed
    <2> QED BY <1>0, <1>5, <1>c, <2>3, GotoType DEF MarkDispatchFailed, TypeOK, JobOK, PCs
  <1>6. CASE Ack(w)
    <2>1. job' \in [Workers -> Jobs \cup {Idle}] /\ job'[w] = Idle
          /\ \A v \in Workers : v # w => job'[v] = job[v]
      BY <1>6 DEF Ack, TypeOK
    <2> QED BY <1>6, <1>c, <2>1 DEF Ack, TypeOK
  <1>7. CASE UploadMissing(w)
    <2>1. /\ status' \in [Scans -> Statuses]
          /\ faults' \in Nat /\ hit' \in [Scans -> SUBSET AllFaults]
      BY <1>7, <1>a, TaskStatus, MarkType DEF UploadMissing, Phases
    <2> QED BY <1>0, <1>7, <1>c, <2>1, GotoType DEF UploadMissing, TypeOK, JobOK, PCs
  <1>8. CASE ExtractFeatures(w)
    <2>1. faults' \in Nat /\ hit' \in [Scans -> SUBSET AllFaults]
      BY <1>8, <1>a, FaultType DEF ExtractFeatures
    <2>2. disk' \in [Scans -> SUBSET Artifacts]
      BY <1>8, <1>a DEF ExtractFeatures, TypeOK, Artifacts
    <2>3. /\ Decide(w, "mark", "skip") \/ Decide(w, "mark", "sandbox")
          /\ t = "browser_features"
      BY <1>8 DEF ExtractFeatures, Working
    <2> QED BY <1>0, <1>8, <1>c, <2>1, <2>2, <2>3, DecideType
           DEF ExtractFeatures, TypeOK, JobOK, PCs
  <1>9. CASE TruncateMetadata(w)
    <2>1. meta' \in [Scans -> {"none", "partial", "fallback", "detonated"}]
      BY <1>9 DEF TruncateMetadata, TypeOK
    <2>2. t \notin {"alert_pipeline", "risk_fusion"}
      BY <1>9 DEF TruncateMetadata, Working
    <2>3. Goto(w, "complete") \/ Decide(w, "complete", "fallback")
      BY <1>9 DEF TruncateMetadata
    <2> QED BY <1>0, <1>9, <1>c, <2>1, <2>2, <2>3, GotoType, DecideType
           DEF TruncateMetadata, TypeOK, JobOK, PCs
  <1>10. CASE CompleteMetadata(w)
    <2>1. meta' \in [Scans -> {"none", "partial", "fallback", "detonated"}]
      BY <1>10 DEF CompleteMetadata, TypeOK
    <2>2. Goto(w, "mark") \/ Goto(w, "dispatch")
      BY <1>10 DEF CompleteMetadata
    <2>3. job[w].pc = "complete"
      BY <1>10 DEF CompleteMetadata, Working
    <2> QED BY <1>0, <1>10, <1>a, <1>c, <2>1, <2>2, <2>3, GotoType
           DEF CompleteMetadata, TypeOK, JobOK, PCs
  <1>11. CASE SandboxFails(w)
    <2>1. /\ status' \in [Scans -> Statuses]
          /\ faults' \in Nat /\ hit' \in [Scans -> SUBSET AllFaults]
      BY <1>11, <1>a, <1>b, MarkType DEF SandboxFails, Phases
    <2> QED BY <1>0, <1>11, <1>c, <2>1, GotoType DEF SandboxFails, TypeOK, JobOK, PCs
  <1>12. CASE SandboxReturns(w)
    BY <1>0, <1>12, <1>c, GotoType DEF SandboxReturns, Working, TypeOK, JobOK, PCs
  <1>13. CASE WriteConsistency(w)
    <2>1. disk' \in [Scans -> SUBSET Artifacts]
      BY <1>13, <1>a DEF WriteConsistency, TypeOK, Artifacts
    <2> QED BY <1>0, <1>13, <1>c, <2>1, GotoType DEF WriteConsistency, Working, TypeOK, JobOK, PCs
  <1>14. CASE WriteReport(w)
    <2>1. PICK v \in Verdicts : report' = [report EXCEPT ![s] = v] /\ Decide(w, "cache", v)
      BY <1>14 DEF WriteReport
    <2>2. v \in AllVerdicts
      OBVIOUS
    <2>3. report' \in [Scans -> NoVerdict]
      BY <2>1, <2>2 DEF TypeOK, NoVerdict
    <2> QED BY <1>0, <1>14, <1>c, <2>1, <2>2, <2>3, DecideType
           DEF WriteReport, TypeOK, JobOK, PCs
  <1>15. CASE CacheReport(w)
    <2>1. faults' \in Nat /\ hit' \in [Scans -> SUBSET AllFaults]
      BY <1>15, <1>a, FaultType DEF CacheReport
    <2>2. job[w].out \in AllVerdicts
      BY <1>15, <1>a DEF CacheReport, Working, JobOK
    <2>3. cache' \in [Scans -> NoVerdict]
      BY <1>15, <2>2 DEF CacheReport, TypeOK, NoVerdict
    <2>4. Goto(w, "mark") \/ Goto(w, "ack")
      BY <1>15 DEF CacheReport
    <2> QED BY <1>0, <1>15, <1>a, <1>c, <2>1, <2>2, <2>3, <2>4, GotoType
           DEF CacheReport, TypeOK, JobOK, PCs
  <1>16. CASE MarkVerdict(w)
    <2>1. faults' \in Nat /\ hit' \in [Scans -> SUBSET AllFaults]
      BY <1>16, <1>a, FaultType DEF MarkVerdict
    <2>2. t = "risk_fusion" /\ job[w].out \in AllVerdicts
      BY <1>16, <1>a DEF MarkVerdict, Working, JobOK
    <2>3. row' \in [Scans -> NoVerdict]
      BY <1>16, <1>a, <2>2 DEF MarkVerdict, TypeOK, NoVerdict
    <2>4. status' \in [Scans -> Statuses]
      BY <1>16, TaskStatus DEF MarkVerdict, SetStatus, TypeOK, Phases
    <2> QED BY <1>0, <1>16, <1>c, <2>1, <2>2, <2>3, <2>4, GotoType
           DEF MarkVerdict, TypeOK, JobOK, PCs
  <1>17. CASE CreateIncident(w)
    <2>1. incidents' \in [Scans -> Nat]
      <3>1. incidents[s] + 1 \in Nat
        BY <1>a DEF TypeOK
      <3> QED BY <1>17, <3>1 DEF CreateIncident, TypeOK
    <2> QED BY <1>0, <1>17, <1>c, <2>1, GotoType DEF CreateIncident, Working, TypeOK, JobOK, PCs
  <1> QED BY <1>1, <1>2, <1>3, <1>4, <1>5, <1>6, <1>7, <1>8, <1>9, <1>10, <1>11,
             <1>12, <1>13, <1>14, <1>15, <1>16, <1>17 DEF Work

LEMMA TypeStart ==
  ASSUME TypeInv, NEW w \in Workers, NEW m \in Messages, Start(w, m)
  PROVE  TypeInv'
  <1> USE DEF TypeInv, database, files, budget
  <1> DEFINE j == [pc |-> "work", msg |-> m, out |-> "none"]
  <1>1. /\ status' \in [Scans -> Statuses]
        /\ faults' \in Nat /\ hit' \in [Scans -> SUBSET AllFaults]
    BY MessageFields, TaskStatus, MarkType DEF Start, Phases
  <1>2. queue' \in [Messages -> Nat]
    BY DEF Start, TypeOK
  <1>3. j \in Jobs /\ JobOK(j)
    BY DEF Jobs, JobOK
  <1>4. /\ job' \in [Workers -> Jobs \cup {Idle}] /\ job'[w] = j
        /\ \A v \in Workers : v # w => job'[v] = job[v]
    BY <1>3 DEF Start, TypeOK
  <1> QED BY <1>1, <1>2, <1>3, <1>4 DEF Start, TypeOK

LEMMA TypeCrash ==
  ASSUME TypeInv, NEW w \in Workers, WorkerCrash(w)
  PROVE  TypeInv'
  <1> USE DEF TypeInv, database, files, budget
  <1>1. faults' \in Nat /\ hit' \in [Scans -> SUBSET AllFaults]
    BY JobFields, FaultType DEF WorkerCrash
  <1>2. queue' \in [Messages -> Nat]
    BY PublishType DEF WorkerCrash
  <1>3. /\ job' \in [Workers -> Jobs \cup {Idle}] /\ job'[w] = Idle
        /\ \A v \in Workers : v # w => job'[v] = job[v]
    BY DEF WorkerCrash, TypeOK
  <1> QED BY <1>1, <1>2, <1>3 DEF WorkerCrash, TypeOK

LEMMA TypeWriteFails ==
  ASSUME TypeInv, NEW w \in Workers, WriteFails(w)
  PROVE  TypeInv'
  <1> USE DEF TypeInv, database, files, budget
  <1>1. job[w] # Idle
    BY DEF WriteFails, Working
  <1>2. faults' \in Nat /\ hit' \in [Scans -> SUBSET AllFaults]
    BY <1>1, JobFields, FaultType DEF WriteFails
  <1>3. /\ job' \in [Workers -> Jobs \cup {Idle}] /\ job'[w].pc = "ack"
        /\ job'[w].msg = job[w].msg /\ job'[w].out = job[w].out
        /\ \A v \in Workers : v # w => job'[v] = job[v]
    BY <1>1, GotoType DEF WriteFails, PCs
  <1> QED BY <1>1, <1>2, <1>3, JobFields DEF WriteFails, TypeOK, JobOK

LEMMA TypeStep == TypeInv /\ [Next]_vars => TypeInv'
  <1> SUFFICES ASSUME TypeInv, [Next]_vars PROVE TypeInv'
    OBVIOUS
  <1>1. CASE UNCHANGED vars
    BY <1>1 DEF TypeInv, TypeOK, JobOK, vars, database, files, budget
  <1>2. CASE Next
    BY <1>2, TypeRequest, TypeWork, TypeStart, TypeCrash, TypeWriteFails, TypeReconcile,
       TypeLose
       DEF Next, Receive
  <1> QED BY <1>1, <1>2

(* In every reachable state every variable has its type, and every task    *)
(* has decided what its next effect needs: whatever the constants, no run  *)
(* leaves the statuses, files, messages and verdicts listed in TypeOK.     *)
THEOREM TypeCorrect == Spec => []TypeOK
  <1>1. Spec => []TypeInv
    BY TypeInit, TypeStep, PTL DEF Spec
  <1>2. TypeInv => TypeOK
    BY DEF TypeInv
  <1> QED BY <1>1, <1>2, PTL
-----------------------------------------------------------------------------
(* Where messages and jobs come from.                                      *)

Retried(m, n)   == m = [n EXCEPT !.retries = @ + 1]
Follows(m, j)   == j.pc = "dispatch" /\ ~Ends(j) /\ m = Successor(j)
FirstMessage(m) == /\ intake[m.scan] = "stored" /\ intake'[m.scan] = "sent"
                   /\ m = Message("browser_features", m.scan)

(* Publishing a message adds it to the queue and nothing else.             *)
LEMMA Published ==
  ASSUME TypeOK, NEW n \in Messages, NEW m \in Messages, Publish(n), Waits(m)'
  PROVE  Waits(m) \/ m = n
  BY DEF Publish, Waits, TypeOK

(* A message that waits was waiting before, is the first of its scan, or   *)
(* comes from a task: handed over, retried or given back by a crash.       *)
LEMMA MessageOrigin ==
  ASSUME TypeInv, Next, NEW m \in Messages, Waits(m)'
  PROVE  \/ Waits(m) \/ FirstMessage(m)
         \/ \E w \in Workers : /\ job[w] # Idle
                               /\ \/ m = job[w].msg
                                  \/ job[w].pc = "retry" /\ Retried(m, job[w].msg)
                                  \/ Follows(m, job[w])
  <1> USE DEF TypeInv, Waits
  <1>1. CASE queue' = queue
    BY <1>1
  <1>2. ASSUME NEW s \in Scans, Send(s)
        PROVE  Waits(m) \/ FirstMessage(m)
    <2>1. CASE queue' = queue
      BY <2>1
    <2>2. CASE Publish(Message("browser_features", s)) /\ intake'[s] = "sent"
      <3>1. Message("browser_features", s) \in Messages
        BY FreshMessage
      <3>2. Waits(m) \/ m = Message("browser_features", s)
        BY <2>2, <3>1, Published
      <3>3. intake[s] = "stored" /\ Message("browser_features", s).scan = s
        BY <1>2 DEF Send, Message
      <3> QED BY <2>2, <3>2, <3>3 DEF FirstMessage
    <2> QED BY <1>2, <2>1, <2>2 DEF Send, TypeOK
  <1>3. ASSUME NEW w \in Workers, WorkerCrash(w)
        PROVE  Waits(m) \/ (job[w] # Idle /\ m = job[w].msg)
    BY <1>3, JobFields, Published DEF WorkerCrash
  <1>4. ASSUME NEW w \in Workers, Retry(w)
        PROVE  Waits(m) \/ (job[w] # Idle /\ job[w].pc = "retry" /\ Retried(m, job[w].msg))
    <2>1. job[w] # Idle /\ job[w].pc = "retry"
      BY <1>4 DEF Retry, Working
    <2>2. [job[w].msg EXCEPT !.retries = @ + 1] \in Messages
      BY <2>1, JobFields, RetriedMessage DEF JobOK
    <2> QED BY <1>4, <2>1, <2>2, Published DEF Retry, Retried
  <1>5. ASSUME NEW w \in Workers, Dispatch(w)
        PROVE  Waits(m) \/ (job[w] # Idle /\ Follows(m, job[w]))
    <2>1. job[w] # Idle /\ job[w].pc = "dispatch"
      BY <1>5 DEF Dispatch, Working
    <2>2. CASE queue' = queue
      BY <2>2
    <2>3. CASE Publish(Successor(job[w])) /\ ~Ends(job[w])
      <3>1. Successor(job[w]) \in Messages
        BY <2>1, <2>3, JobFields, FreshMessage DEF Successor, Ends, JobOK
      <3> QED BY <2>1, <2>3, <3>1, Published DEF Follows
    <2> QED BY <1>5, <2>2, <2>3 DEF Dispatch
  <1>6. ASSUME NEW w \in Workers, NEW n \in Messages, Start(w, n)
        PROVE  Waits(m)
    BY <1>6 DEF Start, TypeOK
  <1>7. ASSUME NEW n \in Messages, LoseMessage(n)
        PROVE  Waits(m)
    BY <1>7 DEF LoseMessage, TypeOK
  <1>8. ASSUME NEW s \in Scans, Submit(s) \/ Request(s) \/ IntakeCrash(s)
                                \/ ExpireCache(s) \/ Retention(s)
        PROVE  queue' = queue \/ Send(s)
    BY <1>8 DEF Submit, Request, IntakeCrash, ExpireCache, Retention, Block,
       StoreUpload, RejectUpload, ConfirmRunning, ConfirmDispatchFailed,
       SweepDirectory, PurgeRow
  <1>9. ASSUME NEW w \in Workers, Work(w) \/ WriteFails(w)
        PROVE  queue' = queue \/ Retry(w) \/ Dispatch(w)
    BY <1>9 DEF Work, WriteFails, WorkFails, MarkDone, MarkDispatchFailed, Ack,
       UploadMissing, ExtractFeatures, TruncateMetadata, CompleteMetadata,
       SandboxFails, SandboxReturns, WriteConsistency, WriteReport,
       CacheReport, MarkVerdict, CreateIncident
  <1>10. FindStuck \/ FailStuck => queue' = queue
    BY DEF FindStuck, FailStuck
  <1> QED BY <1>1, <1>2, <1>3, <1>4, <1>5, <1>6, <1>7, <1>8, <1>9, <1>10
          DEF Next, Receive

(* A task's step leaves the tasks of the other workers alone, and its own  *)
(* message is the one it was started on.                                   *)
LEMMA OtherJobs ==
  ASSUME TypeInv, NEW v \in Workers, Work(v), NEW w \in Workers
  PROVE  \/ job'[w] = job[w]
         \/ w = v /\ job[w] # Idle /\ (job'[w] = Idle \/ job'[w].msg = job[w].msg)
  <1> USE DEF TypeInv
  <1>1. job[v] # Idle
    BY DEF Work, WorkFails, Retry, MarkDone, Dispatch, MarkDispatchFailed, Ack,
           UploadMissing, ExtractFeatures, TruncateMetadata, CompleteMetadata,
           SandboxFails, SandboxReturns, WriteConsistency, WriteReport,
           CacheReport, MarkVerdict, CreateIncident, Working
  <1>2. \/ \E label \in PCs : Goto(v, label)
        \/ \E label \in PCs : \E what : Decide(v, label, what)
        \/ Ack(v)
    BY DEF Work, WorkFails, Retry, MarkDone, Dispatch, MarkDispatchFailed,
           UploadMissing, ExtractFeatures, TruncateMetadata, CompleteMetadata,
           SandboxFails, SandboxReturns, WriteConsistency, WriteReport,
           CacheReport, MarkVerdict, CreateIncident, PCs
  <1>3. \/ job'[w] = job[w]
        \/ w = v /\ (job'[w] = Idle \/ job'[w].msg = job[w].msg)
    <2>1. CASE \E label \in PCs : Goto(v, label)
      BY <1>1, <2>1, GotoType
    <2>2. CASE \E label \in PCs : \E what : Decide(v, label, what)
      <3>1. job[v] \in Jobs
        BY <1>1, JobFields
      <3>2. PICK label \in PCs : \E what : Decide(v, label, what)
        BY <2>2
      <3>5. PICK what : Decide(v, label, what)
        BY <3>2
      <3> DEFINE j == [job[v] EXCEPT !.pc = label, !.out = what]
      <3>3. j.msg = job[v].msg
        BY <3>1 DEF Jobs
      <3>4. job' = [job EXCEPT ![v] = j]
        BY <3>5 DEF Decide, TypeOK
      <3> QED BY <3>3, <3>4 DEF TypeOK
    <2>3. CASE Ack(v)
      BY <2>3 DEF Ack, TypeOK
    <2> QED BY <1>2, <2>1, <2>2, <2>3
  <1> QED BY <1>1, <1>3

(* A task that runs was running before, on the same message, or has just   *)
(* been started on a message that was waiting.                             *)
LEMMA JobOrigin ==
  ASSUME TypeInv, Next, NEW w \in Workers, job'[w] # Idle
  PROVE  \/ job[w] # Idle /\ job'[w].msg = job[w].msg
         \/ /\ job'[w].msg \in Messages /\ Waits(job'[w].msg)
            /\ job'[w].pc = "work"
  <1> USE DEF TypeInv
  <1>1. CASE job'[w] = job[w]
    BY <1>1
  <1>2. ASSUME NEW v \in Workers, WorkerCrash(v)
        PROVE  job'[w] = job[w]
    BY <1>2 DEF WorkerCrash, TypeOK
  <1>3. ASSUME NEW v \in Workers, NEW m \in Messages, Start(v, m)
        PROVE  \/ job'[w] = job[w]
               \/ job'[w].msg = m /\ Waits(m) /\ job'[w].pc = "work"
    BY <1>3 DEF Start, TypeOK, Waits
  <1>4. ASSUME NEW v \in Workers, Work(v)
        PROVE  \/ job'[w] = job[w]
               \/ job[w] # Idle /\ job'[w].msg = job[w].msg
    BY <1>4, OtherJobs
  <1>5. ASSUME NEW s \in Scans, Submit(s) \/ Request(s) \/ IntakeCrash(s)
                                \/ ExpireCache(s) \/ Retention(s)
        PROVE  job' = job
    BY <1>5 DEF Submit, Request, IntakeCrash, ExpireCache, Retention, Block,
       StoreUpload, RejectUpload, Send, ConfirmRunning, ConfirmDispatchFailed,
       SweepDirectory, PurgeRow
  <1>6. ASSUME FindStuck \/ FailStuck \/ \E m \in Messages : LoseMessage(m)
        PROVE  job' = job
    BY <1>6 DEF FindStuck, FailStuck, LoseMessage
  <1>7. ASSUME NEW v \in Workers, WriteFails(v)
        PROVE  job'[w] = job[w] \/ (job[w] # Idle /\ job'[w].msg = job[w].msg)
    <2>1. job[v] # Idle
      BY <1>7 DEF WriteFails, Working
    <2> QED BY <1>7, <2>1, GotoType DEF WriteFails, PCs
  <1> QED BY <1>1, <1>2, <1>3, <1>4, <1>5, <1>6, <1>7 DEF Next, Receive

-----------------------------------------------------------------------------
(* Alerts.                                                                 *)

Real(m) == m.task = "alert_pipeline" => m.verdict = "severe"

AlertsInv ==
  /\ \A m \in Messages : Waits(m) => Real(m)
  /\ \A w \in Workers : job[w] # Idle => Real(job[w].msg)

(* Whatever is retried, redelivered or run twice, only a severe report of  *)
(* a real model is ever handed to alert_pipeline.                          *)
THEOREM AlertsCorrect == Spec => []AlertsAreReal
  <1>1. Init => AlertsInv
    BY DEF Init, AlertsInv, Waits
  <1>2. TypeInv /\ AlertsInv /\ [Next]_vars => AlertsInv'
    <2> SUFFICES ASSUME TypeInv, AlertsInv, Next PROVE AlertsInv'
      BY DEF AlertsInv, Waits, vars
    <2>1. ASSUME NEW m \in Messages, Waits(m)' PROVE Real(m)
      <3>1. CASE Waits(m)
        BY <3>1 DEF AlertsInv
      <3>2. CASE FirstMessage(m)
        BY <3>2 DEF FirstMessage, Message, Real
      <3>3. ASSUME NEW w \in Workers, job[w] # Idle,
                   m = job[w].msg \/ Retried(m, job[w].msg)
            PROVE  Real(m)
        <4>1. m.task = job[w].msg.task /\ m.verdict = job[w].msg.verdict
          BY <3>3, JobFields, MessageFields DEF Retried, TypeInv
        <4> QED BY <3>3, <4>1 DEF AlertsInv, Real
      <3>4. ASSUME NEW w \in Workers, job[w] # Idle, Follows(m, job[w])
            PROVE  Real(m)
        BY <3>4, JobFields DEF Follows, Successor, Ends, Message, Real, TypeInv, JobOK
      <3> QED BY <2>1, <3>1, <3>2, <3>3, <3>4, MessageOrigin
    <2>2. ASSUME NEW w \in Workers, job'[w] # Idle PROVE Real(job'[w].msg)
      BY <2>2, JobOrigin DEF AlertsInv
    <2> QED BY <2>1, <2>2 DEF AlertsInv, Real
  <1>3. AlertsInv => AlertsAreReal
    BY DEF AlertsInv, AlertsAreReal, Real
  <1> QED BY <1>1, <1>2, <1>3, TypeInit, TypeStep, PTL DEF Spec
-----------------------------------------------------------------------------
(* Inputs.                                                                 *)

Lost(s) == "retention" \in hit[s]

(* What a task has written by the time it reaches an effect.               *)
Ready(j) ==
  LET s == j.msg.scan
      t == j.msg.task
  IN /\ t = "browser_features" /\ j.pc \in {"mark", "truncate", "complete", "dispatch"}
          => "features" \in disk[s]
     /\ t = "browser_features" /\ j.pc = "dispatch" /\ j.out = "skip" => meta[s] # "none"
     /\ t = "sandbox_analysis" /\ j.pc \in {"mark", "dispatch"} => meta[s] # "none"
     /\ t = "consistency" /\ j.pc \in {"mark", "truncate", "complete", "dispatch"}
          => "consistency" \in disk[s]
     /\ t = "risk_fusion" /\ j.pc \in {"cache", "mark", "dispatch"} => report[s] # "none"

Sound(m)    == Lost(m.scan) \/ Inputs(m)
SoundJob(j) == Lost(j.msg.scan) \/ (Inputs(j.msg) /\ Ready(j))

Untouched(s) == /\ \A m \in Messages : Waits(m) => m.scan # s
                /\ \A w \in Workers : ~At(w, s)

InputsInv ==
  /\ \A m \in Messages : Waits(m) => Sound(m)
  /\ \A w \in Workers : job[w] # Idle => SoundJob(job[w])
  /\ \A s \in Scans : intake[s] \in {"idle", "created", "stored"} => Untouched(s)
  /\ \A s \in Scans : intake[s] = "stored" => "upload" \in disk[s]

(* No file of the scan goes.                                               *)
Kept(s) == /\ disk[s] \subseteq disk'[s]
           /\ meta[s] # "none" => meta'[s] # "none"
           /\ report[s] # "none" => report'[s] # "none"
           /\ Lost(s) => Lost(s)'

(* The files of a scan stay until the retention job removes them, but for  *)
(* an upload that the intake request itself refuses.                       *)
LEMMA FilesKept ==
  ASSUME TypeInv, Next, NEW s \in Scans
  PROVE  Kept(s) \/ (Lost(s)' /\ intake[s] = "done") \/ RejectUpload(s)
  <1> USE DEF Kept, Lost, TypeInv, TypeOK, files, budget, database
  <1>1. ASSUME NEW k, NEW r \in Scans, Fault(k, r) \/ NoFault
        PROVE  Lost(s) => Lost(s)'
    BY <1>1 DEF Fault, NoFault
  <1>2. CASE UNCHANGED <<files, hit>>
    BY <1>2
  <1>3. ASSUME UNCHANGED files, NEW k, NEW r \in Scans, Fault(k, r) \/ NoFault
        PROVE  Kept(s)
    BY <1>1, <1>3
  <1>4. ASSUME NEW r \in Scans, Submit(r) \/ Block(r) \/ ExpireCache(r)
        PROVE  UNCHANGED <<files, hit>>
    BY <1>4 DEF Submit, Block, ExpireCache
  <1>5. ASSUME NEW r \in Scans, Send(r) \/ ConfirmRunning(r)
                   \/ ConfirmDispatchFailed(r) \/ IntakeCrash(r) \/ PurgeRow(r)
        PROVE  UNCHANGED files /\ \E k : Fault(k, r) \/ NoFault
    BY <1>5 DEF Send, ConfirmRunning, ConfirmDispatchFailed, Mark, IntakeCrash, PurgeRow
  <1>6. ASSUME NEW r \in Scans, StoreUpload(r)
        PROVE  Kept(s)
    BY <1>6 DEF StoreUpload
  <1>7. ASSUME NEW r \in Scans, RejectUpload(r)
        PROVE  Kept(s) \/ RejectUpload(s)
    BY <1>7 DEF RejectUpload
  <1>8. ASSUME NEW r \in Scans, SweepDirectory(r)
        PROVE  Kept(s) \/ (Lost(s)' /\ intake[s] = "done")
    BY <1>8 DEF SweepDirectory, Fault
  <1>9. ASSUME NEW w \in Workers,
               \/ Retry(w) \/ Ack(w)
        PROVE  UNCHANGED <<files, hit>>
    BY <1>9 DEF Retry, Ack
  <1>10. ASSUME NEW w \in Workers,
                \/ WorkFails(w) \/ MarkDone(w) \/ Dispatch(w) \/ MarkDispatchFailed(w)
                \/ UploadMissing(w) \/ SandboxFails(w) \/ CacheReport(w)
                \/ MarkVerdict(w) \/ CreateIncident(w) \/ WriteFails(w) \/ WorkerCrash(w)
         PROVE  UNCHANGED files /\ \E k, r : r \in Scans /\ (Fault(k, r) \/ NoFault)
    <2>1. job[w].msg.scan \in Scans
      BY <1>10, JobFields DEF WorkFails, MarkDone, Dispatch, MarkDispatchFailed,
         UploadMissing, SandboxFails, CacheReport, MarkVerdict, CreateIncident,
         WriteFails, WorkerCrash, Working
    <2> QED BY <1>10, <2>1 DEF WorkFails, MarkDone, Dispatch, MarkDispatchFailed,
         UploadMissing, SandboxFails, CacheReport, MarkVerdict, CreateIncident,
         WriteFails, WorkerCrash, Mark, NoFault
  <1>11. ASSUME NEW w \in Workers,
                \/ ExtractFeatures(w) \/ TruncateMetadata(w) \/ CompleteMetadata(w)
                \/ SandboxReturns(w) \/ WriteConsistency(w) \/ WriteReport(w)
         PROVE  Kept(s)
    <2>1. job[w].msg.scan \in Scans
      BY <1>11, JobFields DEF ExtractFeatures, TruncateMetadata, CompleteMetadata,
         SandboxReturns, WriteConsistency, WriteReport, Working
    <2>2. CASE ExtractFeatures(w)
      BY <1>1, <2>1, <2>2 DEF ExtractFeatures
    <2>3. CASE TruncateMetadata(w)
      BY <2>1, <2>3 DEF TruncateMetadata
    <2>4. CASE CompleteMetadata(w)
      BY <2>1, <2>4 DEF CompleteMetadata
    <2>5. CASE SandboxReturns(w)
      BY <2>1, <2>5 DEF SandboxReturns
    <2>6. CASE WriteConsistency(w)
      BY <2>1, <2>6 DEF WriteConsistency
    <2>7. CASE WriteReport(w)
      BY <2>1, <2>7 DEF WriteReport
    <2> QED BY <1>11, <2>2, <2>3, <2>4, <2>5, <2>6, <2>7
  <1>12. ASSUME NEW w \in Workers, NEW m \in Messages, Start(w, m)
         PROVE  UNCHANGED files /\ \E k : Fault(k, m.scan) \/ NoFault
    BY <1>12 DEF Start, Mark
  <1>13. ASSUME NEW m \in Messages, LoseMessage(m)
         PROVE  UNCHANGED files /\ \E k : Fault(k, m.scan) \/ NoFault
    BY <1>13 DEF LoseMessage
  <1>14. FindStuck \/ FailStuck => UNCHANGED <<files, hit>>
    BY DEF FindStuck, FailStuck
  <1> QED BY <1>2, <1>3, <1>4, <1>5, <1>6, <1>7, <1>8, <1>9, <1>10, <1>11, <1>12,
             <1>13, <1>14, MessageFields
          DEF Next, Request, Work, Receive, Retention

(* What is sound stays sound while the files stay.                         *)
LEMMA SoundStays ==
  ASSUME TypeInv, NEW m \in Messages, Kept(m.scan), Sound(m)
  PROVE  Sound(m)'
  <1>1. m.task \in Tasks /\ m.scan \in Scans
    BY MessageFields
  <1> QED BY <1>1 DEF Sound, Inputs, Kept

(* A retried message is as sound as the message of the task that failed.   *)
LEMMA RetriedSound ==
  ASSUME NEW n \in Messages, NEW m, Retried(m, n), Sound(n)
  PROVE  Sound(m)
  <1>1. m.task = n.task /\ m.scan = n.scan
    BY MessageFields DEF Retried
  <1> QED BY <1>1 DEF Sound, Inputs

(* A task hands over only when what follows has its inputs.                *)
LEMMA HandOver ==
  ASSUME NEW j \in Jobs, JobOK(j), SoundJob(j), NEW m, Follows(m, j)
  PROVE  Sound(m)
  <1>1. j.msg.task \in Tasks /\ j.msg.task # "alert_pipeline"
    BY MessageFields DEF Jobs, JobOK, Follows
  <1>2. m.scan = j.msg.scan
    BY DEF Follows, Successor, Message
  <1>3. CASE Lost(j.msg.scan)
    BY <1>2, <1>3 DEF Sound
  <1>4. ASSUME Inputs(j.msg), Ready(j)
        PROVE  Inputs(m)
    <2>1. CASE j.msg.task = "browser_features" /\ j.out = "skip"
      <3>1. m.task = "consistency"
        BY <2>1 DEF Follows, Successor, Message
      <3> QED BY <1>2, <1>4, <2>1, <3>1 DEF Inputs, Ready, Follows
    <2>2. CASE j.msg.task = "browser_features" /\ j.out # "skip"
      <3>1. m.task = "sandbox_analysis"
        BY <2>2 DEF Follows, Successor, Message
      <3> QED BY <1>2, <1>4, <2>2, <3>1 DEF Inputs, Ready, Follows
    <2>3. CASE j.msg.task = "sandbox_analysis"
      <3>1. m.task = "consistency"
        BY <2>3 DEF Follows, Successor, Message
      <3> QED BY <1>2, <1>4, <2>3, <3>1 DEF Inputs, Ready, Follows
    <2>4. CASE j.msg.task = "consistency"
      <3>1. m.task = "risk_fusion"
        BY <2>4 DEF Follows, Successor, Message
      <3> QED BY <1>2, <1>4, <2>4, <3>1 DEF Inputs, Ready, Follows
    <2>5. CASE j.msg.task = "risk_fusion"
      <3>1. m.task = "alert_pipeline"
        BY <2>5 DEF Follows, Successor, Message
      <3> QED BY <1>2, <1>4, <2>5, <3>1 DEF Inputs, Ready, Follows
    <2> QED BY <1>1, <2>1, <2>2, <2>3, <2>4, <2>5
  <1> QED BY <1>3, <1>4 DEF SoundJob, Sound

(* A task has written what it must by the time it reaches its next effect. *)
LEMMA WorkReady ==
  ASSUME TypeInv, NEW w \in Workers, Work(w), job[w] # Idle, job'[w] # Idle,
         Kept(job[w].msg.scan), Ready(job[w])
  PROVE  Ready(job[w])'
  <1> USE DEF TypeInv, files, database, budget
  <1> DEFINE s == job[w].msg.scan
             t == job[w].msg.task
             quiet == {"ack", "retry", "dispatch_failed"}
  <1>a. /\ job[w] \in Jobs /\ job[w].msg \in Messages /\ t \in Tasks /\ s \in Scans
        /\ JobOK(job[w])
    BY JobFields
  <1>b. ASSUME NEW label \in quiet, Goto(w, label)
        PROVE  Ready(job[w])'
    <2>1. job'[w].pc = label
      BY <1>b, GotoType DEF PCs
    <2> QED BY <2>1 DEF Ready
  <1>1. CASE WorkFails(w) \/ Retry(w) \/ MarkDispatchFailed(w) \/ UploadMissing(w)
             \/ SandboxFails(w) \/ Dispatch(w)
    <2>1. \E label \in quiet : Goto(w, label)
      BY <1>1 DEF WorkFails, Retry, MarkDispatchFailed, UploadMissing, SandboxFails, Dispatch
    <2> QED BY <1>b, <2>1
  <1>2. CASE Ack(w)
    BY <1>2 DEF Ack, TypeOK
  <1>3. CASE MarkDone(w)
    <2>1. t # "risk_fusion" /\ job[w].pc = "mark"
      BY <1>3 DEF MarkDone, Working
    <2>2. UNCHANGED files
      BY <1>3 DEF MarkDone
    <2>3. CASE Goto(w, "ack") \/ Goto(w, "truncate")
      <3>1. job'[w].msg = job[w].msg /\ job'[w].pc \in {"ack", "truncate"}
        BY <2>3, GotoType DEF PCs
      <3> QED BY <2>1, <2>2, <3>1 DEF Ready
    <2>4. CASE job[w].out # "skip" /\ Goto(w, "dispatch")
      <3>1. job'[w].msg = job[w].msg /\ job'[w].pc = "dispatch" /\ job'[w].out # "skip"
        BY <2>4, GotoType DEF PCs
      <3> QED BY <2>1, <2>2, <3>1 DEF Ready
    <2> QED BY <1>3, <2>3, <2>4 DEF MarkDone
  <1>4. CASE ExtractFeatures(w)
    <2>1. t = "browser_features" /\ "features" \in disk'[s]
      BY <1>4, <1>a DEF ExtractFeatures, Working, TypeOK
    <2>2. job'[w].msg = job[w].msg /\ job'[w].pc = "mark"
      BY <1>4, DecideType DEF ExtractFeatures, PCs
    <2> QED BY <2>1, <2>2 DEF Ready
  <1>5. CASE TruncateMetadata(w)
    <2>1. \/ t = "browser_features" /\ job[w].pc = "truncate" /\ Goto(w, "complete")
          \/ t = "sandbox_analysis" /\ Decide(w, "complete", "fallback")
      BY <1>5 DEF TruncateMetadata, Working
    <2>2. job'[w].msg = job[w].msg /\ job'[w].pc = "complete"
      BY <2>1, GotoType, DecideType DEF PCs
    <2>3. disk'[s] = disk[s]
      BY <1>5 DEF TruncateMetadata
    <2> QED BY <2>1, <2>2, <2>3 DEF Ready
  <1>6. CASE CompleteMetadata(w)
    <2>1. job[w].pc = "complete" /\ meta'[s] # "none" /\ disk'[s] = disk[s]
      BY <1>6, <1>a DEF CompleteMetadata, Working, TypeOK
    <2>2. t # "risk_fusion"
      BY <1>a, <2>1 DEF JobOK
    <2>3. Goto(w, "mark") \/ Goto(w, "dispatch")
      BY <1>6 DEF CompleteMetadata
    <2>4. job'[w].msg = job[w].msg /\ job'[w].pc \in {"mark", "dispatch"}
      BY <2>3, GotoType DEF PCs
    <2> QED BY <2>1, <2>2, <2>4 DEF Ready
  <1>7. CASE SandboxReturns(w)
    <2>1. t = "sandbox_analysis" /\ meta'[s] # "none"
      BY <1>7, <1>a DEF SandboxReturns, Working, TypeOK
    <2>2. job'[w].msg = job[w].msg
      BY <1>7, GotoType DEF SandboxReturns, PCs
    <2> QED BY <2>1, <2>2 DEF Ready
  <1>8. CASE WriteConsistency(w)
    <2>1. t = "consistency" /\ "consistency" \in disk'[s]
      BY <1>8, <1>a DEF WriteConsistency, Working, TypeOK
    <2>2. job'[w].msg = job[w].msg
      BY <1>8, GotoType DEF WriteConsistency, PCs
    <2> QED BY <2>1, <2>2 DEF Ready
  <1>9. CASE WriteReport(w)
    <2>1. PICK v \in Verdicts : report' = [report EXCEPT ![s] = v] /\ Decide(w, "cache", v)
      BY <1>9 DEF WriteReport
    <2>2. t = "risk_fusion" /\ report'[s] # "none"
      BY <1>9, <1>a, <2>1 DEF WriteReport, Working, TypeOK
    <2>3. v \in AllVerdicts
      OBVIOUS
    <2>4. job'[w].msg = job[w].msg
      BY <2>1, <2>3, DecideType DEF PCs
    <2> QED BY <2>2, <2>4 DEF Ready
  <1>10. CASE CacheReport(w)
    <2>1. t = "risk_fusion" /\ job[w].pc = "cache" /\ report' = report
      BY <1>10 DEF CacheReport, Working
    <2>2. Goto(w, "mark") \/ Goto(w, "ack")
      BY <1>10 DEF CacheReport
    <2>3. job'[w].msg = job[w].msg
      BY <2>2, GotoType DEF PCs
    <2> QED BY <2>1, <2>3 DEF Ready
  <1>11. CASE MarkVerdict(w)
    <2>1. t = "risk_fusion" /\ job[w].pc = "mark" /\ report' = report
      BY <1>11 DEF MarkVerdict, Working
    <2>2. job'[w].msg = job[w].msg
      BY <1>11, GotoType DEF MarkVerdict, PCs
    <2> QED BY <2>1, <2>2 DEF Ready
  <1>12. CASE CreateIncident(w)
    <2>1. t = "alert_pipeline" /\ job'[w].msg = job[w].msg
      BY <1>12, GotoType DEF CreateIncident, Working, PCs
    <2> QED BY <2>1 DEF Ready
  <1> QED BY <1>1, <1>2, <1>3, <1>4, <1>5, <1>6, <1>7, <1>8, <1>9, <1>10, <1>11,
             <1>12 DEF Work

(* Until its first message is sent, an intake request has not been past    *)
(* that point; and while it holds an upload it has stored it.              *)
Early == {"idle", "created", "stored"}

LEMMA IntakeForward ==
  ASSUME TypeInv, Next, NEW s \in Scans, intake'[s] \in Early
  PROVE  /\ intake[s] \in Early
         /\ ~RejectUpload(s)
         /\ intake'[s] = "stored" => intake[s] = "stored" \/ "upload" \in disk'[s]
  <1> USE DEF TypeInv, TypeOK, Early
  <1>1. ASSUME NEW r \in Scans, Submit(r) \/ Request(r) \/ IntakeCrash(r)
        PROVE  /\ intake[s] \in Early
               /\ intake'[s] = "stored" => intake[s] = "stored" \/ "upload" \in disk'[s]
    BY <1>1 DEF Submit, Request, IntakeCrash, Block, StoreUpload, RejectUpload, Send,
       ConfirmRunning, ConfirmDispatchFailed
  <1>2. ~RejectUpload(s)
    BY DEF RejectUpload
  <1>3. ASSUME NEW r \in Scans, ExpireCache(r) \/ Retention(r)
        PROVE  intake' = intake
    BY <1>3 DEF ExpireCache, Retention, SweepDirectory, PurgeRow
  <1>4. ASSUME NEW w \in Workers, Work(w) \/ Receive(w) \/ WriteFails(w) \/ WorkerCrash(w)
        PROVE  intake' = intake
    BY <1>4 DEF Work, WorkFails, Retry, MarkDone, Dispatch, MarkDispatchFailed, Ack,
       UploadMissing, ExtractFeatures, TruncateMetadata, CompleteMetadata,
       SandboxFails, SandboxReturns, WriteConsistency, WriteReport,
       CacheReport, MarkVerdict, CreateIncident, Receive, Start, WriteFails, WorkerCrash
  <1>5. ASSUME FindStuck \/ FailStuck \/ \E m \in Messages : LoseMessage(m)
        PROVE  intake' = intake
    BY <1>5 DEF FindStuck, FailStuck, LoseMessage
  <1> QED BY <1>1, <1>2, <1>3, <1>4, <1>5 DEF Next

LEMMA InputsStep ==
  ASSUME TypeInv, InputsInv, Next
  PROVE  InputsInv'
  <1>0. TypeInv'
    BY TypeStep
  <1>1. ASSUME NEW m \in Messages, Waits(m)'
        PROVE  Sound(m)'
    <2>1. m.scan \in Scans
      BY MessageFields
    <2>2. CASE RejectUpload(m.scan)
      <3>1. Waits(m)
        BY <1>1, <2>2 DEF RejectUpload, Waits
      <3>2. intake[m.scan] = "stored"
        BY <2>2 DEF RejectUpload
      <3> QED BY <2>1, <3>1, <3>2 DEF InputsInv, Untouched
    <2>3. CASE Lost(m.scan)'
      BY <2>3 DEF Sound
    <2>4. ASSUME Kept(m.scan) PROVE Sound(m)'
      <3>1. CASE Waits(m)
        BY <2>4, <3>1, SoundStays DEF InputsInv
      <3>2. CASE FirstMessage(m)
        <4>1. "upload" \in disk[m.scan] /\ m.task = "browser_features"
          BY <2>1, <3>2 DEF FirstMessage, Message, InputsInv
        <4>2. Sound(m)
          BY <4>1 DEF Sound, Inputs
        <4> QED BY <2>4, <4>2, SoundStays
      <3>3. ASSUME NEW w \in Workers, job[w] # Idle,
                   \/ m = job[w].msg
                   \/ Retried(m, job[w].msg)
                   \/ Follows(m, job[w])
            PROVE  Sound(m)'
        <4>1. SoundJob(job[w]) /\ Sound(job[w].msg)
          BY <3>3 DEF InputsInv, SoundJob, Sound
        <4>2. job[w] \in Jobs /\ job[w].msg \in Messages /\ JobOK(job[w])
          BY <3>3, JobFields DEF TypeInv
        <4>3. Sound(m)
          BY <3>3, <4>1, <4>2, RetriedSound, HandOver
        <4> QED BY <2>4, <4>3, SoundStays
      <3> QED BY <1>1, <3>1, <3>2, <3>3, MessageOrigin
    <2> QED BY <2>1, <2>2, <2>3, <2>4, FilesKept
  <1>2. ASSUME NEW w \in Workers, job'[w] # Idle
        PROVE  SoundJob(job[w])'
    <2>j. job'[w] \in Jobs /\ job'[w].msg \in Messages
      <3>1. job'[w] \in Jobs
        BY <1>0, <1>2 DEF TypeInv, TypeOK
      <3> QED BY <3>1 DEF Jobs
    <2>m. PICK m \in Messages : m = job'[w].msg
      BY <2>j
    <2>s. PICK s \in Scans : s = m.scan
      BY MessageFields
    <2>1. CASE RejectUpload(s)
      <3>1. job' = job /\ intake[s] = "stored"
        BY <2>1 DEF RejectUpload
      <3> QED BY <1>2, <2>m, <2>s, <3>1 DEF InputsInv, Untouched, At
    <2>2. CASE Lost(s)'
      BY <2>2, <2>m, <2>s DEF SoundJob
    <2>3. ASSUME Kept(s), ~Lost(s)' PROVE SoundJob(job[w])'
      <3>0. ~Lost(s)
        BY <2>3 DEF Kept
      <3>1. CASE Waits(m) /\ job'[w].pc = "work"
        <4>1. Sound(m)'
          BY <2>3, <2>s, <3>1, SoundStays DEF InputsInv
        <4>2. Ready(job[w])'
          BY <2>m, <3>1 DEF Ready
        <4> QED BY <2>m, <4>1, <4>2 DEF SoundJob, Sound
      <3>2. CASE job[w] # Idle /\ m = job[w].msg
        <4>1. Inputs(m) /\ Ready(job[w])
          BY <2>s, <3>0, <3>2 DEF InputsInv, SoundJob
        <4>2. Sound(m)'
          BY <2>3, <2>s, <4>1, SoundStays DEF Sound
        <4>3. Ready(job[w])'
          <5>1. CASE job'[w] = job[w]
            BY <2>3, <2>s, <3>2, <4>1, <5>1 DEF Ready, Kept
          <5>2. CASE Work(w)
            BY <1>2, <2>3, <2>s, <3>2, <4>1, <5>2, WorkReady
          <5>3. ASSUME NEW v \in Workers, v # w, Work(v)
                PROVE  job'[w] = job[w]
            BY <5>3, OtherJobs
          <5>4. ASSUME NEW v \in Workers, Receive(v)
                PROVE  job'[w] = job[w]
            BY <3>2, <5>4 DEF Receive, Start, TypeInv, TypeOK
          <5>5. ASSUME NEW v \in Workers, WorkerCrash(v)
                PROVE  job'[w] = job[w]
            BY <1>2, <5>5 DEF WorkerCrash, TypeInv, TypeOK
          <5>6. ASSUME NEW r \in Scans, Submit(r) \/ Request(r) \/ IntakeCrash(r)
                                        \/ ExpireCache(r) \/ Retention(r)
                PROVE  job' = job
            BY <5>6 DEF Submit, Request, IntakeCrash, ExpireCache, Retention, Block,
               StoreUpload, RejectUpload, Send, ConfirmRunning, ConfirmDispatchFailed,
               SweepDirectory, PurgeRow
          <5>7. ASSUME FindStuck \/ FailStuck \/ \E n \in Messages : LoseMessage(n)
                PROVE  job' = job
            BY <5>7 DEF FindStuck, FailStuck, LoseMessage
          <5>8. ASSUME NEW v \in Workers, WriteFails(v)
                PROVE  job'[w] = job[w] \/ Ready(job[w])'
            <6>1. job[v] # Idle
              BY <5>8 DEF WriteFails, Working
            <6>2. job'[w] = job[w] \/ job'[w].pc = "ack"
              BY <5>8, <6>1, GotoType DEF WriteFails, PCs, TypeInv
            <6> QED BY <6>2 DEF Ready
          <5> QED BY <5>1, <5>2, <5>3, <5>4, <5>5, <5>6, <5>7, <5>8 DEF Next
        <4> QED BY <2>m, <4>2, <4>3 DEF SoundJob, Sound
      <3> QED BY <1>2, <2>m, <3>1, <3>2, JobOrigin
    <2> QED BY <2>1, <2>2, <2>3, FilesKept
  <1>3. ASSUME NEW s \in Scans, intake'[s] \in Early
        PROVE  Untouched(s)'
    <2>1. intake[s] \in Early /\ Untouched(s)
      BY <1>3, IntakeForward DEF InputsInv, Early
    <2>2. ASSUME NEW m \in Messages, m.scan = s, Waits(m)' PROVE FALSE
      <3>1. ~Waits(m)
        BY <2>1, <2>2 DEF Untouched
      <3>2. ~FirstMessage(m)
        BY <1>3, <2>2 DEF FirstMessage, Early
      <3>3. ASSUME NEW w \in Workers, job[w] # Idle,
                   \/ m = job[w].msg
                   \/ Retried(m, job[w].msg)
                   \/ Follows(m, job[w])
            PROVE  FALSE
        <4>1. job[w].msg \in Messages
          BY <3>3, JobFields DEF TypeInv
        <4>2. m.scan = job[w].msg.scan
          BY <3>3, <4>1, MessageFields DEF Retried, Follows, Successor, Message
        <4> QED BY <2>1, <2>2, <3>3, <4>2 DEF Untouched, At
      <3> QED BY <2>2, <3>1, <3>2, <3>3, MessageOrigin
    <2>3. ASSUME NEW w \in Workers, job'[w] # Idle, job'[w].msg.scan = s PROVE FALSE
      BY <2>1, <2>3, JobOrigin DEF Untouched, At
    <2> QED BY <2>2, <2>3 DEF Untouched, At
  <1>4. ASSUME NEW s \in Scans, intake'[s] = "stored"
        PROVE  "upload" \in disk'[s]
    <2>1. CASE intake[s] = "stored"
      <3>1. Kept(s)
        BY <1>4, <2>1, FilesKept, IntakeForward DEF Early
      <3> QED BY <2>1, <3>1 DEF InputsInv, Kept
    <2> QED BY <1>4, <2>1, IntakeForward DEF Early
  <1> QED BY <1>1, <1>2, <1>3, <1>4 DEF InputsInv, Early

(* Whatever crashes, losses, failures and redeliveries happen, a task that *)
(* waits or runs finds the files it reads, unless the retention job has    *)
(* taken them.                                                             *)
THEOREM InputsCorrect == Spec => []InputsReady
  <1>1. Init => InputsInv
    BY DEF Init, InputsInv, Waits, Untouched, At
  <1>2. TypeInv /\ InputsInv /\ [Next]_vars => InputsInv'
    <2>1. InputsInv /\ UNCHANGED vars => InputsInv'
      BY DEF InputsInv, vars, database, files, budget, Waits, Sound, SoundJob, Lost,
         Inputs, Ready, Untouched, At
    <2> QED BY <2>1, InputsStep
  <1>3. InputsInv => InputsReady
    BY DEF InputsInv, InputsReady, Sound, SoundJob, Lost
  <1> QED BY <1>1, <1>2, <1>3, TypeInit, TypeStep, PTL DEF Spec

-----------------------------------------------------------------------------
(* One place at a time.                                                    *)

(* Where the work of a scan is: nowhere, in one message or with one task.  *)
Nowhere(s) == /\ \A m \in Messages : m.scan = s => ~Waits(m)
              /\ \A w \in Workers : ~Carries(w, s)

InQueue(s, m) == /\ m.scan = s /\ queue[m] = 1
                 /\ \A n \in Messages : n.scan = s /\ Waits(n) => n = m
                 /\ \A w \in Workers : ~Carries(w, s)

AtWork(s, w) == /\ Carries(w, s)
                /\ \A v \in Workers : Carries(v, s) => v = w
                /\ \A m \in Messages : m.scan = s => ~Waits(m)

(* The final statuses that the pipeline itself writes.                     *)
Closed == Terminal \ {FailedTimeout, Purged}

(* What has been written of a scan whose work is at effect p of task t,    *)
(* which has decided o; p is "wait" in a queue and "none" when the work is *)
(* not begun or is over.                                                   *)
Data(s, t, p, o) ==
  LET fused(pcs) == t = "risk_fusion" /\ p \in pcs
      alert      == t = "alert_pipeline"
      over       == p = "none"
  IN
  /\ status[s] = Purged => "retention" \in hit[s]
  /\ intake[s] \in {"idle", "created", "stored"} =>
       /\ over /\ report[s] = "none" /\ incidents[s] = 0 /\ cache[s] = "none"
       /\ status[s] \in {Absent, Created, FailedTimeout}
  /\ report[s] # "none" =>
       over \/ alert \/ fused({"cache", "mark", "dispatch", "dispatch_failed"})
  /\ incidents[s] > 0 => incidents[s] = 1 /\ (over \/ (alert /\ p = "mark"))
  /\ status[s] \in Closed =>
       \/ over
       \/ status[s] = <<"risk_fusion", "done">>
          /\ (alert \/ fused({"dispatch", "dispatch_failed"}))
  /\ "retention" \notin hit[s] =>
       /\ fused({"cache", "mark", "dispatch", "dispatch_failed"}) => o = report[s]
       /\ alert \/ incidents[s] > 0 => report[s] = "severe"
       /\ cache[s] \in {report[s], "none"}
       /\ hit[s] \cap {"db", "cache"} = {} /\ report[s] # "none" /\ ~fused({"cache", "mark"})
            => row[s] = report[s]

Gone(s)      == Nowhere(s) /\ Data(s, "none", "none", "none")
Queued(s, m) == InQueue(s, m) /\ Data(s, m.task, "wait", "none")
Here(s, w)   == AtWork(s, w) /\ Data(s, job[w].msg.task, job[w].pc, job[w].out)

Flight(s) == \/ "crash" \in hit[s]
             \/ Gone(s)
             \/ \E m \in Messages : Queued(s, m)
             \/ \E w \in Workers : Here(s, w)

FallbackInv == \A w \in Workers :
  job[w] # Idle /\ job[w].out = "fallback" => job[w].msg.task = "sandbox_analysis"

FlightInv == FallbackInv /\ \A s \in Scans : Flight(s)

(* Which of the statuses a task writes are final.                          *)
LEMMA StatusKinds ==
  ASSUME NEW t \in Tasks
  PROVE  /\ \A p \in {"running", "retrying", "dispatch_failed"} : <<t, p>> \notin Closed
         /\ <<t, "done">> \in Closed => t \in {"risk_fusion", "alert_pipeline"}
         /\ <<t, "failed">> \in Closed => t # "sandbox_analysis"
         /\ Absent \notin Closed /\ Created \notin Closed
         /\ FailedTimeout \notin Closed /\ Purged \notin Closed
         /\ \A p \in Phases : <<t, p>> # Purged
  BY DEF Closed, Terminal, Absent, Created, Blocked, FailedTimeout, Purged, Phases

(* The task at work is where the work of its scan is.                      *)
LEMMA CarrierHere ==
  ASSUME NEW s \in Scans, NEW w \in Workers, Carries(w, s), Flight(s), "crash" \notin hit[s]
  PROVE  Here(s, w)
  BY DEF Flight, Gone, Nowhere, Queued, InQueue, Here, AtWork

(* So is the message that waits.                                           *)
LEMMA WaiterQueued ==
  ASSUME NEW s \in Scans, NEW m \in Messages, Waits(m), m.scan = s, Flight(s),
         "crash" \notin hit[s]
  PROVE  Queued(s, m)
  BY DEF Flight, Gone, Nowhere, Queued, InQueue, Here, AtWork

(* The work stays where it is.                                             *)
Unmoved(s) == /\ \A m \in Messages : m.scan = s => queue'[m] = queue[m]
              /\ \A w \in Workers : Carries(w, s)' <=> Carries(w, s)
              /\ \A w \in Workers : Carries(w, s) => job'[w] = job[w]

LEMMA StaysPut ==
  ASSUME NEW s \in Scans, Flight(s), Unmoved(s), hit[s] \subseteq hit'[s],
         \A t, p, o : Data(s, t, p, o) => Data(s, t, p, o)'
  PROVE  Flight(s)'
  <1>1. CASE "crash" \in hit[s]
    BY <1>1 DEF Flight
  <1>2. CASE Gone(s)
    BY <1>2 DEF Flight, Gone, Nowhere, Unmoved, Waits
  <1>3. ASSUME NEW m \in Messages, Queued(s, m)
        PROVE  Queued(s, m)'
    BY <1>3 DEF Queued, InQueue, Unmoved, Waits
  <1>4. ASSUME NEW w \in Workers, Here(s, w)
        PROVE  Here(s, w)'
    <2>1. job'[w] = job[w]
      BY <1>4 DEF Here, AtWork, Unmoved
    <2>2. AtWork(s, w)'
      BY <1>4 DEF Here, AtWork, Unmoved, Waits
    <2> QED BY <1>4, <2>1, <2>2 DEF Here
  <1> QED BY <1>1, <1>2, <1>3, <1>4 DEF Flight

(* A step that is about another scan.                                      *)
Still(s) == /\ Unmoved(s) /\ hit[s] \subseteq hit'[s]
            /\ status'[s] = status[s] /\ row'[s] = row[s] /\ incidents'[s] = incidents[s]
            /\ report'[s] = report[s] /\ cache'[s] = cache[s] /\ intake'[s] = intake[s]

LEMMA StillFlies ==
  ASSUME NEW s \in Scans, Flight(s), Still(s)
  PROVE  Flight(s)'
  <1>1. ASSUME NEW t, NEW p, NEW o, Data(s, t, p, o)
        PROVE  Data(s, t, p, o)'
    BY <1>1 DEF Still, Data
  <1> QED BY <1>1, StaysPut DEF Still

(* The task that has the work goes on with it.                             *)
LEMMA WorkGoesOn ==
  ASSUME TypeInv, NEW s \in Scans, NEW w \in Workers, AtWork(s, w), UNCHANGED queue,
         NEW t, NEW p, NEW o, job[w].msg.task = t, job'[w].pc = p, job'[w].out = o,
         job'[w] \in Jobs, job'[w].msg = job[w].msg, p # "ack",
         \A v \in Workers : v # w => job'[v] = job[v],
         Data(s, t, p, o)'
  PROVE  Flight(s)'
  <1>1. job'[w] # Idle
    BY DEF Jobs, Idle
  <1>2. AtWork(s, w)'
    BY <1>1 DEF AtWork, Carries, At, Waits
  <1>3. Here(s, w)'
    BY <1>2 DEF Here
  <1> QED BY <1>3 DEF Flight

(* The task that has the work ends there.                                  *)
LEMMA WorkEnds ==
  ASSUME NEW s \in Scans, NEW w \in Workers, AtWork(s, w), UNCHANGED queue,
         job'[w].pc = "ack",
         \A v \in Workers : v # w => job'[v] = job[v],
         Data(s, "none", "none", "none")'
  PROVE  Flight(s)'
  <1>1. Nowhere(s)'
    BY DEF AtWork, Nowhere, Carries, At, Waits
  <1> QED BY <1>1 DEF Flight, Gone

(* The task that has the work hands it over with a message.                *)
LEMMA WorkHandedOver ==
  ASSUME TypeInv, NEW s \in Scans, NEW w \in Workers, AtWork(s, w),
         NEW n \in Messages, n.scan = s, Publish(n),
         job'[w].pc = "ack",
         \A v \in Workers : v # w => job'[v] = job[v],
         Data(s, n.task, "wait", "none")'
  PROVE  Flight(s)'
  <1>1. queue[n] = 0
    <2>1. queue[n] \in Nat /\ ~Waits(n)
      BY DEF AtWork, TypeInv, TypeOK
    <2> QED BY <2>1 DEF Waits
  <1>2. \A m \in Messages : queue'[m] = IF m = n THEN 1 ELSE queue[m]
    BY <1>1 DEF Publish, TypeInv, TypeOK
  <1>3. \A v \in Workers : ~Carries(v, s)'
    BY DEF AtWork, Carries, At
  <1>4. \A m \in Messages : m.scan = s /\ Waits(m)' => m = n
    BY <1>2 DEF AtWork, Waits
  <1>5. InQueue(s, n)'
    BY <1>2, <1>3, <1>4 DEF InQueue
  <1> QED BY <1>5 DEF Flight, Queued

(* What a status update may do: nothing to other rows, nothing to a row    *)
(* that is gone, and a failure is a fault of the scan's own.               *)
LEMMA MarkEffect ==
  ASSUME TypeOK, NEW s \in Scans, NEW st \in Statuses, Mark(s, st)
  PROVE  /\ \A r \in Scans : r # s => status'[r] = status[r]
         /\ \A r \in Scans : r # s => hit'[r] = hit[r]
         /\ status'[s] \in {status[s], st}
         /\ status[s] = Purged => status'[s] = Purged
         /\ hit'[s] \in {hit[s], hit[s] \cup {"db"}}
  BY DEF Mark, SetStatus, Fault, NoFault, budget, TypeOK

LEMMA FaultEffect ==
  ASSUME TypeOK, NEW s \in Scans, NEW k, Fault(k, s)
  PROVE  /\ \A r \in Scans : r # s => hit'[r] = hit[r]
         /\ hit'[s] = hit[s] \cup {k}
  BY DEF Fault, TypeOK

(* The labels of the other tasks and the scans of the other messages.      *)
LEMMA Apart ==
  ASSUME TypeInv, NEW w \in Workers, job[w] # Idle,
         NEW r \in Scans, r # job[w].msg.scan,
         \A v \in Workers : v # w => job'[v] = job[v],
         job'[w] = Idle \/ job'[w].msg = job[w].msg,
         UNCHANGED queue \/ \E n \in Messages : n.scan # r /\ Publish(n)
  PROVE  Unmoved(r)
  <1>1. \A v \in Workers : Carries(v, r)' <=> Carries(v, r)
    BY DEF Carries, At
  <1>2. \A v \in Workers : Carries(v, r) => job'[v] = job[v]
    BY DEF Carries, At
  <1>3. \A m \in Messages : m.scan = r => queue'[m] = queue[m]
    BY DEF Publish, TypeInv, TypeOK
  <1> QED BY <1>1, <1>2, <1>3 DEF Unmoved

(* A worker at work on a task.                                             *)
LEMMA AtATask ==
  ASSUME TypeInv, NEW w \in Workers, Work(w) \/ WriteFails(w)
  PROVE  /\ job[w] # Idle /\ JobOK(job[w])
         /\ job[w] \in Jobs /\ job[w].msg \in Messages /\ job[w].pc \in PCs
         /\ job[w].msg.task \in Tasks /\ job[w].msg.scan \in Scans
  <1>1. job[w] # Idle
    BY DEF Work, WorkFails, Retry, MarkDone, Dispatch, MarkDispatchFailed, Ack,
           UploadMissing, ExtractFeatures, TruncateMetadata, CompleteMetadata,
           SandboxFails, SandboxReturns, WriteConsistency, WriteReport,
           CacheReport, MarkVerdict, CreateIncident, WriteFails, Working
  <1> QED BY <1>1, JobFields DEF TypeInv

(* The message a task hands over or retries is about its own scan.         *)
LEMMA OwnMessages ==
  ASSUME NEW j \in Jobs, JobOK(j)
  PROVE  /\ j.pc = "retry" =>
              LET n == [j.msg EXCEPT !.retries = @ + 1]
              IN n \in Messages /\ n.scan = j.msg.scan /\ n.task = j.msg.task
         /\ j.pc = "dispatch" /\ ~Ends(j) =>
              /\ Successor(j) \in Messages /\ Successor(j).scan = j.msg.scan
              /\ Successor(j).task = "alert_pipeline" <=> j.msg.task = "risk_fusion"
         /\ Successor(j).task \in Tasks
         /\ j.pc = "dispatch_failed" => Successor(j).task # "browser_features"
  <1>0. j.msg \in Messages /\ j.msg.task \in Tasks /\ j.msg.scan \in Scans
    BY MessageFields DEF Jobs
  <1>1. ASSUME j.pc = "retry"
        PROVE  LET n == [j.msg EXCEPT !.retries = @ + 1]
               IN n \in Messages /\ n.scan = j.msg.scan /\ n.task = j.msg.task
    <2>1. [j.msg EXCEPT !.retries = @ + 1] \in Messages
      BY <1>0, <1>1, RetriedMessage DEF JobOK
    <2> QED BY <1>0, <2>1, MessageFields
  <1>2. ASSUME j.pc = "dispatch", ~Ends(j)
        PROVE  /\ Successor(j) \in Messages /\ Successor(j).scan = j.msg.scan
               /\ Successor(j).task = "alert_pipeline" <=> j.msg.task = "risk_fusion"
    <2>1. j.msg.task # "alert_pipeline"
      BY <1>2 DEF JobOK
    <2>2. CASE j.msg.task = "risk_fusion"
      <3>1. Successor(j) = [Message("alert_pipeline", j.msg.scan) EXCEPT !.verdict = j.out]
        BY <2>2 DEF Successor
      <3>2. j.out = "severe"
        BY <1>2, <2>2 DEF Ends
      <3>3. Successor(j) \in Messages
        <4>1. \A v \in AllVerdicts :
                [Message("alert_pipeline", j.msg.scan) EXCEPT !.verdict = v] \in Messages
          BY ONLY <1>0, FreshMessage, Zenon DEF Tasks
        <4>2. j.out \in AllVerdicts
          BY <3>2
        <4> QED BY ONLY <3>1, <4>1, <4>2, Zenon
      <3>4. Successor(j).scan = j.msg.scan /\ Successor(j).task = "alert_pipeline"
        BY <3>1 DEF Message
      <3> QED BY <2>2, <3>3, <3>4
    <2>3. CASE j.msg.task # "risk_fusion"
      <3>1. PICK n \in Tasks \ {"alert_pipeline"} : Successor(j) = Message(n, j.msg.scan)
        BY <1>0, <2>1, <2>3 DEF Successor
      <3>2. Successor(j) \in Messages
        BY <1>0, <3>1, FreshMessage
      <3>3. Successor(j).scan = j.msg.scan /\ Successor(j).task = n
        BY <3>1 DEF Message
      <3> QED BY <2>3, <3>2, <3>3
    <2> QED BY <2>2, <2>3
  <1>3. Successor(j).task \in Tasks \ {"browser_features"}
    BY <1>0 DEF Successor, Message
  <1> QED BY <1>1, <1>2, <1>3

(* The statuses a task may write.                                          *)
LEMMA WrittenStatuses ==
  ASSUME NEW j \in Jobs, JobOK(j)
  PROVE  /\ \A p \in Phases : <<j.msg.task, p>> \in Statuses
         /\ DispatchFailedStatus(j) \in Statuses
         /\ j.pc = "dispatch_failed" => DispatchFailedStatus(j) # Purged
  <1>1. j.msg.task \in Tasks
    BY MessageFields DEF Jobs
  <1>2. \A t \in Tasks : \A p \in Phases : <<t, p>> \in Statuses /\ <<t, p>> # Purged
    BY TaskStatus, StatusKinds
  <1>3. \E t \in Tasks, p \in Phases : DispatchFailedStatus(j) = <<t, p>>
    BY <1>1, OwnMessages DEF DispatchFailedStatus, Phases
  <1> QED BY <1>1, <1>2, <1>3

(* A task's step touches no row, report, cache entry or fault of another   *)
(* scan, no request and no reconciliation run.                             *)
LEMMA WorkFrame ==
  ASSUME TypeInv, NEW w \in Workers, Work(w) \/ WriteFails(w)
  PROVE  /\ intake' = intake /\ stuck' = stuck
         /\ \A r \in Scans : hit[r] \subseteq hit'[r]
         /\ \A r \in Scans : status[r] = Purged => status'[r] = Purged
         /\ \A r \in Scans : r # job[w].msg.scan =>
              /\ status'[r] = status[r] /\ row'[r] = row[r] /\ incidents'[r] = incidents[r]
              /\ report'[r] = report[r] /\ cache'[r] = cache[r] /\ hit'[r] = hit[r]
  <1> DEFINE s == job[w].msg.scan
             t == job[w].msg.task
  <1> USE DEF TypeInv, database, files, budget
  <1>a. /\ job[w] # Idle /\ JobOK(job[w]) /\ job[w] \in Jobs
        /\ t \in Tasks /\ s \in Scans
    BY AtATask
  <1>b. TypeOK
    OBVIOUS
  <1>c. DispatchFailedStatus(job[w]) \in Statuses /\ \A p \in Phases : <<t, p>> \in Statuses
    BY <1>a, WrittenStatuses
  <1>1. CASE UNCHANGED <<status, row, incidents, report, cache>> /\ intake' = intake
             /\ stuck' = stuck /\ (NoFault \/ \E k : Fault(k, s))
    BY <1>1, <1>a, FaultEffect DEF NoFault
  <1>2. CASE UNCHANGED <<row, incidents, report, cache>> /\ intake' = intake
             /\ stuck' = stuck /\ \E st \in Statuses : Mark(s, st)
    BY <1>2, <1>a, MarkEffect
  <1>3. CASE Retry(w) \/ Dispatch(w) \/ Ack(w) \/ ExtractFeatures(w) \/ TruncateMetadata(w)
             \/ CompleteMetadata(w) \/ SandboxReturns(w) \/ WriteConsistency(w) \/ WriteFails(w)
    BY <1>1, <1>3 DEF Retry, Dispatch, Ack, ExtractFeatures, TruncateMetadata,
       CompleteMetadata, SandboxReturns, WriteConsistency, WriteFails, NoFault
  <1>4. CASE WorkFails(w) \/ MarkDone(w) \/ MarkDispatchFailed(w) \/ UploadMissing(w)
             \/ SandboxFails(w)
    <2>1. \E st \in Statuses : Mark(s, st)
      <3>1. CASE WorkFails(w)
        BY <1>c, <3>1 DEF WorkFails, Phases
      <3>2. CASE MarkDone(w)
        BY <1>c, <3>2 DEF MarkDone, Phases
      <3>3. CASE MarkDispatchFailed(w)
        BY <1>c, <3>3 DEF MarkDispatchFailed
      <3>4. CASE UploadMissing(w)
        BY TaskStatus, <3>4 DEF UploadMissing, Phases
      <3>5. CASE SandboxFails(w)
        BY <1>c, <3>5 DEF SandboxFails, Phases
      <3> QED BY <1>4, <3>1, <3>2, <3>3, <3>4, <3>5
    <2> QED BY <1>2, <1>4, <2>1 DEF WorkFails, MarkDone, MarkDispatchFailed, UploadMissing,
            SandboxFails
  <1>5. CASE WriteReport(w)
    <2>1. PICK v \in Verdicts : report' = [report EXCEPT ![s] = v]
      BY <1>5 DEF WriteReport
    <2> QED BY <1>5, <1>a, <2>1 DEF WriteReport, TypeOK
  <1>6. CASE CacheReport(w)
    <2>1. \/ cache' = [cache EXCEPT ![s] = job[w].out] /\ NoFault
          \/ cache' = cache /\ Fault("cache", s)
      BY <1>6 DEF CacheReport
    <2> QED BY <1>6, <1>a, <2>1, FaultEffect DEF CacheReport, TypeOK, NoFault
  <1>7. CASE MarkVerdict(w)
    <2>1. \/ /\ SetStatus(s, <<"risk_fusion", "done">>)
             /\ row' = [row EXCEPT ![s] = IF status[s] = Purged THEN @ ELSE job[w].out]
             /\ NoFault
          \/ Fault("db", s) /\ UNCHANGED <<status, row>>
      BY <1>7 DEF MarkVerdict
    <2> QED BY <1>7, <1>a, <2>1, FaultEffect DEF MarkVerdict, TypeOK, NoFault, SetStatus
  <1>8. CASE CreateIncident(w)
    BY <1>8, <1>a DEF CreateIncident, TypeOK
  <1> QED BY <1>3, <1>4, <1>5, <1>6, <1>7, <1>8 DEF Work

(* Of the tasks and the queue it touches its own.                          *)
LEMMA WorkMoves ==
  ASSUME TypeInv, NEW w \in Workers, Work(w) \/ WriteFails(w)
  PROVE  /\ \A v \in Workers : v # w => job'[v] = job[v]
         /\ job'[w] = Idle \/ job'[w].msg = job[w].msg
         /\ \/ UNCHANGED queue
            \/ \E n \in Messages : n.scan = job[w].msg.scan /\ Publish(n)
  <1>a. /\ job[w] # Idle /\ JobOK(job[w]) /\ job[w] \in Jobs /\ TypeOK
    BY AtATask DEF TypeInv
  <1>1. ASSUME NEW v \in Workers
        PROVE  \/ v # w /\ job'[v] = job[v]
               \/ v = w /\ (job'[w] = Idle \/ job'[w].msg = job[w].msg)
    <2>1. CASE Work(w)
      BY <2>1, OtherJobs
    <2>2. CASE WriteFails(w)
      BY <1>a, <2>2, GotoType DEF WriteFails, PCs
    <2> QED BY <2>1, <2>2
  <1>2. \/ UNCHANGED queue
        \/ \E n \in Messages : n.scan = job[w].msg.scan /\ Publish(n)
    <2>1. CASE Retry(w)
      <3>1. job[w].pc = "retry" /\ Publish([job[w].msg EXCEPT !.retries = @ + 1])
        BY <2>1 DEF Retry, Working
      <3> QED BY <1>a, <3>1, OwnMessages
    <2>2. CASE Dispatch(w)
      <3>1. /\ job[w].pc = "dispatch"
            /\ UNCHANGED queue \/ (~Ends(job[w]) /\ Publish(Successor(job[w])))
        BY <2>2 DEF Dispatch, Working
      <3> QED BY <1>a, <3>1, OwnMessages
    <2>3. CASE ~Retry(w) /\ ~Dispatch(w)
      BY <2>3 DEF Work, WriteFails, WorkFails, MarkDone, MarkDispatchFailed, Ack,
         UploadMissing, ExtractFeatures, TruncateMetadata, CompleteMetadata,
         SandboxFails, SandboxReturns, WriteConsistency, WriteReport,
         CacheReport, MarkVerdict, CreateIncident
    <2> QED BY <2>1, <2>2, <2>3
  <1> QED BY <1>1, <1>2

(* The step of the task that has the work of its scan.                     *)
LEMMA WorkFlies ==
  ASSUME TypeInv, FlightInv, NEW w \in Workers, Work(w) \/ WriteFails(w),
         NEW s \in Scans, job[w].msg.scan = s, Here(s, w)
  PROVE  Flight(s)'
  <1> DEFINE kept == /\ row'[s] = row[s] /\ incidents'[s] = incidents[s]
                     /\ report'[s] = report[s] /\ cache'[s] = cache[s]
                     /\ intake'[s] = intake[s]
  <1>0. PICK t \in Tasks, p \in PCs, o \in AllVerdicts \cup {"none", "sandbox", "skip", "fallback"} :
             t = job[w].msg.task /\ p = job[w].pc /\ o = job[w].out
    BY AtATask, JobFields DEF TypeInv
  <1>a. /\ job[w] # Idle /\ JobOK(job[w]) /\ job[w] \in Jobs /\ job[w].msg \in Messages
        /\ t \in Tasks
    BY AtATask
  <1>b. AtWork(s, w) /\ Data(s, t, p, o)
    BY <1>0 DEF Here
  <1>c. TypeOK /\ incidents[s] \in Nat /\ status[s] \in Statuses /\ hit[s] \subseteq AllFaults
    BY DEF TypeInv, TypeOK
  <1>d. /\ \A v \in Workers : v # w => job'[v] = job[v]
        /\ intake' = intake
    BY WorkMoves, WorkFrame
  <1>e. ASSUME NEW st \in Statuses, st # Purged, Mark(s, st)
        PROVE  /\ status'[s] \in {status[s], st}
               /\ status[s] = Purged => status'[s] = Purged
               /\ hit'[s] \in {hit[s], hit[s] \cup {"db"}}
    BY <1>c, <1>e, MarkEffect
  <1>f. ASSUME NEW ph \in Phases
        PROVE  <<t, ph>> \in Statuses /\ <<t, ph>> # Purged
    BY <1>a, <1>f, TaskStatus, StatusKinds
  <1>g. ASSUME NEW label \in PCs, Goto(w, label)
        PROVE  /\ job'[w] \in Jobs /\ job'[w].pc = label
               /\ job'[w].msg = job[w].msg /\ job'[w].out = o
    BY <1>0, <1>a, <1>c, <1>g, GotoType
  (* The ways of the work: on, to its end, and into the queue.             *)
  <1>h. ASSUME NEW label \in PCs \ {"ack"}, Goto(w, label), UNCHANGED queue,
               Data(s, t, label, o)'
        PROVE  Flight(s)'
    BY <1>0, <1>b, <1>d, <1>g, <1>h, WorkGoesOn
  <1>i. ASSUME Goto(w, "ack"), UNCHANGED queue, Data(s, "none", "none", "none")'
        PROVE  Flight(s)'
    BY <1>0, <1>b, <1>d, <1>g, <1>i, WorkEnds DEF PCs
  <1>j. ASSUME Goto(w, "ack"), NEW n \in Messages, n.scan = s, Publish(n),
               Data(s, n.task, "wait", "none")'
        PROVE  Flight(s)'
    BY <1>0, <1>b, <1>d, <1>g, <1>j, WorkHandedOver DEF PCs
  <1>k. ASSUME NEW label \in PCs \ {"ack"},
               NEW u \in AllVerdicts \cup {"none", "sandbox", "skip", "fallback"},
               Decide(w, label, u), UNCHANGED queue, Data(s, t, label, u)'
        PROVE  Flight(s)'
    <2>1. /\ job'[w] \in Jobs /\ job'[w].pc = label
          /\ job'[w].msg = job[w].msg /\ job'[w].out = u
      BY <1>a, <1>c, <1>k, DecideType
    <2> QED BY <1>0, <1>b, <1>d, <1>k, <2>1, WorkGoesOn
  <1>1. CASE WorkFails(w)
    <2>1. kept /\ UNCHANGED queue
      BY <1>0, <1>1 DEF WorkFails, files
    <2>2. t # "sandbox_analysis" /\ p = "work"
      BY <1>0, <1>1 DEF WorkFails, Working
    <2>3. CASE Mark(s, <<t, "failed">>) /\ Goto(w, "ack")
      <3>1. /\ status'[s] \in {status[s], <<t, "failed">>}
            /\ status[s] = Purged => status'[s] = Purged
            /\ hit'[s] \in {hit[s], hit[s] \cup {"db"}}
            /\ <<t, "failed">> # Purged
        BY <1>0, <1>e, <1>f, <2>3 DEF Phases
      <3>2. Data(s, "none", "none", "none")'
        BY <1>b, <1>c, <2>1, <2>2, <3>1 DEF Data
      <3> QED BY <1>i, <2>1, <2>3, <3>2
    <2>4. CASE Mark(s, <<t, "retrying">>) /\ Goto(w, "retry")
      <3>1. /\ status'[s] \in {status[s], <<t, "retrying">>}
            /\ status[s] = Purged => status'[s] = Purged
            /\ hit'[s] \in {hit[s], hit[s] \cup {"db"}}
            /\ <<t, "retrying">> # Purged /\ <<t, "retrying">> \notin Closed
        BY <1>0, <1>a, <1>e, <1>f, <2>4, StatusKinds DEF Phases
      <3>2. Data(s, t, "retry", o)'
        BY <1>b, <1>c, <2>1, <2>2, <3>1 DEF Data
      <3> QED BY <1>0, <1>h, <2>1, <2>4, <3>2 DEF PCs
    <2> QED BY <1>0, <1>1, <2>3, <2>4 DEF WorkFails
  <1>2. CASE SandboxFails(w)
    <2>1. kept /\ UNCHANGED queue
      BY <1>0, <1>2 DEF SandboxFails, files
    <2>2. t = "sandbox_analysis" /\ p = "work" /\ Mark(s, <<t, "retrying">>) /\ Goto(w, "retry")
      BY <1>0, <1>2 DEF SandboxFails, Working
    <2>3. /\ status'[s] \in {status[s], <<t, "retrying">>}
          /\ status[s] = Purged => status'[s] = Purged
          /\ hit'[s] \in {hit[s], hit[s] \cup {"db"}}
          /\ <<t, "retrying">> # Purged /\ <<t, "retrying">> \notin Closed
      BY <1>0, <1>a, <1>e, <1>f, <2>2, StatusKinds DEF Phases
    <2>4. Data(s, t, "retry", o)'
      BY <1>b, <1>c, <2>1, <2>2, <2>3 DEF Data
    <2> QED BY <1>0, <1>h, <2>1, <2>2, <2>4 DEF PCs
  <1>3. CASE UploadMissing(w)
    <2>1. kept /\ UNCHANGED queue
      BY <1>0, <1>3 DEF UploadMissing, files
    <2>2. t = "browser_features" /\ p = "work" /\ Mark(s, <<t, "failed">>) /\ Goto(w, "ack")
      BY <1>0, <1>3 DEF UploadMissing, Working
    <2>3. /\ status'[s] \in {status[s], <<t, "failed">>}
          /\ status[s] = Purged => status'[s] = Purged
          /\ hit'[s] \in {hit[s], hit[s] \cup {"db"}}
          /\ <<t, "failed">> # Purged
      BY <1>0, <1>e, <1>f, <2>2 DEF Phases
    <2>4. Data(s, "none", "none", "none")'
      BY <1>b, <1>c, <2>1, <2>2, <2>3 DEF Data
    <2> QED BY <1>i, <2>1, <2>2, <2>4
  <1>4. CASE MarkDispatchFailed(w)
    <2>1. kept /\ UNCHANGED queue
      BY <1>0, <1>4 DEF MarkDispatchFailed, files
    <2>2. p = "dispatch_failed" /\ Mark(s, DispatchFailedStatus(job[w])) /\ Goto(w, "ack")
      BY <1>0, <1>4 DEF MarkDispatchFailed, Working
    <2>3. /\ status'[s] \in {status[s], DispatchFailedStatus(job[w])}
          /\ status[s] = Purged => status'[s] = Purged
          /\ hit'[s] \in {hit[s], hit[s] \cup {"db"}}
          /\ DispatchFailedStatus(job[w]) # Purged
      BY <1>0, <1>a, <1>e, <2>2, WrittenStatuses
    <2>4. Data(s, "none", "none", "none")'
      BY <1>b, <1>c, <2>1, <2>2, <2>3 DEF Data
    <2> QED BY <1>i, <2>1, <2>2, <2>4
  <1>5. CASE MarkDone(w)
    <2> DEFINE ph == IF o = "fallback" THEN "failed" ELSE "done"
    <2>1. kept /\ UNCHANGED queue
      BY <1>0, <1>5 DEF MarkDone, files
    <2>2. t # "risk_fusion" /\ p = "mark" /\ Mark(s, <<t, ph>>)
      BY <1>0, <1>5 DEF MarkDone, Working
    <2>3. /\ status'[s] \in {status[s], <<t, ph>>}
          /\ status[s] = Purged => status'[s] = Purged
          /\ hit'[s] \in {hit[s], hit[s] \cup {"db"}}
          /\ <<t, ph>> # Purged
      BY <1>0, <1>e, <1>f, <2>2 DEF Phases
    <2>4. CASE t = "alert_pipeline"
      <3>1. Goto(w, "ack")
        BY <1>0, <1>5, <2>4 DEF MarkDone
      <3>2. Data(s, "none", "none", "none")'
        BY <1>b, <1>c, <2>1, <2>2, <2>3, <2>4 DEF Data
      <3> QED BY <1>i, <2>1, <3>1, <3>2
    <2>5. CASE t # "alert_pipeline"
      <3>1. PICK label \in {"truncate", "dispatch"} : Goto(w, label)
        BY <1>0, <1>5, <2>5 DEF MarkDone
      <3>2. <<t, ph>> \notin Closed
        <4>1. o = "fallback" => t = "sandbox_analysis"
          BY <1>0, <1>a DEF FlightInv, FallbackInv
        <4> QED BY <1>0, <1>a, <2>2, <2>5, <4>1, StatusKinds
      <3>3. Data(s, t, label, o)'
        BY <1>b, <1>c, <2>1, <2>2, <2>3, <2>5, <3>2 DEF Data
      <3> QED BY <1>0, <1>h, <2>1, <3>1, <3>3 DEF PCs
    <2> QED BY <2>4, <2>5
  <1>6. CASE Retry(w)
    <2>1. kept /\ status'[s] = status[s] /\ hit'[s] = hit[s]
      BY <1>0, <1>6 DEF Retry, files, database, budget
    <2>2. p = "retry" /\ Publish([job[w].msg EXCEPT !.retries = @ + 1]) /\ Goto(w, "ack")
      BY <1>0, <1>6 DEF Retry, Working
    <2>3. PICK n \in Messages : n.scan = s /\ n.task = t /\ Publish(n)
      BY <1>0, <1>a, <2>2, OwnMessages
    <2>4. Data(s, t, "wait", "none")'
      BY <1>b, <1>c, <2>1, <2>2 DEF Data
    <2> QED BY <1>j, <2>2, <2>3, <2>4
  <1>7. CASE Dispatch(w)
    <2>1. kept /\ status'[s] = status[s]
      BY <1>0, <1>7 DEF Dispatch, files, database
    <2>2. p = "dispatch" /\ t # "alert_pipeline"
      BY <1>0, <1>7, <1>a DEF Dispatch, Working, JobOK
    <2>3. CASE Goto(w, "ack") /\ UNCHANGED queue /\ (NoFault \/ Fault("dispatch", s))
      <3>1. hit'[s] \in {hit[s], hit[s] \cup {"dispatch"}}
        BY <1>c, <2>3, FaultEffect DEF NoFault, budget
      <3>2. Data(s, "none", "none", "none")'
        BY <1>b, <1>c, <2>1, <2>2, <3>1 DEF Data
      <3> QED BY <1>i, <2>3, <3>2
    <2>4. CASE Goto(w, "dispatch_failed") /\ UNCHANGED queue /\ Fault("dispatch", s)
      <3>1. hit'[s] = hit[s] \cup {"dispatch"}
        BY <1>c, <2>4, FaultEffect
      <3>2. Data(s, t, "dispatch_failed", o)'
        BY <1>b, <1>c, <2>1, <2>2, <3>1 DEF Data
      <3> QED BY <1>0, <1>h, <2>4, <3>2 DEF PCs
    <2>5. CASE Publish(Successor(job[w])) /\ ~Ends(job[w]) /\ Goto(w, "ack") /\ NoFault
      <3>1. hit'[s] = hit[s]
        BY <2>5 DEF NoFault, budget
      <3>2. PICK n \in Messages : n.scan = s /\ Publish(n)
                                  /\ (n.task = "alert_pipeline" <=> t = "risk_fusion")
                                  /\ n.task \in Tasks
        BY <1>0, <1>a, <2>2, <2>5, OwnMessages, MessageFields 
      <3>3. t = "risk_fusion" => o = "severe"
        BY <1>0, <2>5 DEF Ends
      <3>4. Data(s, n.task, "wait", "none")'
        BY <1>b, <1>c, <2>1, <2>2, <3>1, <3>2, <3>3 DEF Data
      <3> QED BY <1>j, <2>5, <3>2, <3>4
    <2> QED BY <1>0, <1>7, <2>3, <2>4, <2>5 DEF Dispatch
  <1>8. CASE ExtractFeatures(w)
    <2>1. kept /\ status'[s] = status[s] /\ UNCHANGED queue
      BY <1>8 DEF ExtractFeatures, database
    <2>2. t = "browser_features" /\ p = "work"
      BY <1>0, <1>8 DEF ExtractFeatures, Working
    <2>3. PICK u \in {"skip", "sandbox"} : Decide(w, "mark", u) /\ (NoFault \/ Fault("db", s))
      BY <1>8 DEF ExtractFeatures
    <2>4. hit'[s] \in {hit[s], hit[s] \cup {"db"}}
      BY <1>c, <2>3, FaultEffect DEF NoFault, budget
    <2>5. Data(s, t, "mark", u)'
      BY <1>b, <1>c, <2>1, <2>2, <2>4 DEF Data
    <2> QED BY <1>k, <2>1, <2>3, <2>5 DEF PCs
  <1>9. CASE TruncateMetadata(w)
    <2>1. kept /\ status'[s] = status[s] /\ hit'[s] = hit[s] /\ UNCHANGED queue
      BY <1>9 DEF TruncateMetadata, database, budget
    <2>2. t \in {"browser_features", "sandbox_analysis"} /\ p \in {"truncate", "work"}
      BY <1>0, <1>9 DEF TruncateMetadata, Working
    <2>3. Goto(w, "complete") \/ Decide(w, "complete", "fallback")
      BY <1>9 DEF TruncateMetadata
    <2>4. Data(s, t, "complete", o)' /\ Data(s, t, "complete", "fallback")'
      BY <1>b, <1>c, <2>1, <2>2 DEF Data
    <2> QED BY <1>h, <1>k, <2>1, <2>3, <2>4 DEF PCs
  <1>10. CASE CompleteMetadata(w)
    <2>1. kept /\ status'[s] = status[s] /\ hit'[s] = hit[s] /\ UNCHANGED queue
      BY <1>10 DEF CompleteMetadata, database, budget
    <2>2. p = "complete" /\ t \notin {"alert_pipeline", "risk_fusion"}
      BY <1>0, <1>a, <1>10 DEF CompleteMetadata, Working, JobOK
    <2>3. PICK label \in {"mark", "dispatch"} : Goto(w, label)
      BY <1>10 DEF CompleteMetadata
    <2>4. Data(s, t, label, o)'
      BY <1>b, <1>c, <2>1, <2>2 DEF Data
    <2> QED BY <1>h, <2>1, <2>3, <2>4 DEF PCs
  <1>11. CASE SandboxReturns(w) \/ WriteConsistency(w)
    <2>1. kept /\ status'[s] = status[s] /\ hit'[s] = hit[s] /\ UNCHANGED queue
      BY <1>11 DEF SandboxReturns, WriteConsistency, database, budget
    <2>2. t \in {"sandbox_analysis", "consistency"} /\ p = "work"
      BY <1>0, <1>11 DEF SandboxReturns, WriteConsistency, Working
    <2>3. Goto(w, "mark")
      BY <1>11 DEF SandboxReturns, WriteConsistency
    <2>4. Data(s, t, "mark", o)'
      BY <1>b, <1>c, <2>1, <2>2 DEF Data
    <2> QED BY <1>h, <2>1, <2>3, <2>4 DEF PCs
  <1>12. CASE WriteReport(w)
    <2>1. /\ row'[s] = row[s] /\ incidents'[s] = incidents[s] /\ cache'[s] = cache[s]
          /\ status'[s] = status[s] /\ hit'[s] = hit[s] /\ UNCHANGED queue
      BY <1>12 DEF WriteReport, database, budget
    <2>2. t = "risk_fusion" /\ p = "work"
      BY <1>0, <1>12 DEF WriteReport, Working
    <2>3. PICK v \in Verdicts : report' = [report EXCEPT ![s] = v] /\ Decide(w, "cache", v)
      BY <1>12 DEF WriteReport
    <2>4. report'[s] = v /\ v \in AllVerdicts
      BY <1>c, <2>3 DEF TypeOK
    <2>5. Data(s, t, "cache", v)'
      BY <1>b, <1>c, <1>d, <2>1, <2>2, <2>4 DEF Data
    <2> QED BY <1>k, <2>1, <2>3, <2>4, <2>5 DEF PCs
  <1>13. CASE CacheReport(w)
    <2>1. /\ row'[s] = row[s] /\ incidents'[s] = incidents[s] /\ report'[s] = report[s]
          /\ status'[s] = status[s] /\ UNCHANGED queue
      BY <1>13 DEF CacheReport, database, files
    <2>2. t = "risk_fusion" /\ p = "cache"
      BY <1>0, <1>13 DEF CacheReport, Working
    <2>3. CASE cache' = [cache EXCEPT ![s] = o] /\ Goto(w, "mark") /\ NoFault
      <3>1. cache'[s] = o /\ hit'[s] = hit[s]
        BY <1>c, <2>3 DEF TypeOK, NoFault, budget
      <3>2. Data(s, t, "mark", o)'
        BY <1>b, <1>c, <1>d, <2>1, <2>2, <3>1 DEF Data
      <3> QED BY <1>h, <2>1, <2>3, <3>2 DEF PCs
    <2>4. CASE Fault("cache", s) /\ Goto(w, "ack") /\ UNCHANGED cache
      <3>1. cache'[s] = cache[s] /\ hit'[s] = hit[s] \cup {"cache"}
        BY <1>c, <2>4, FaultEffect
      <3>2. Data(s, "none", "none", "none")'
        BY <1>b, <1>c, <1>d, <2>1, <2>2, <3>1 DEF Data
      <3> QED BY <1>i, <2>1, <2>4, <3>2
    <2> QED BY <1>0, <1>13, <2>3, <2>4 DEF CacheReport
  <1>14. CASE MarkVerdict(w)
    <2>1. /\ incidents'[s] = incidents[s] /\ report'[s] = report[s] /\ cache'[s] = cache[s]
          /\ UNCHANGED queue /\ Goto(w, "dispatch")
      BY <1>14 DEF MarkVerdict, files
    <2>2. t = "risk_fusion" /\ p = "mark"
      BY <1>0, <1>14 DEF MarkVerdict, Working
    <2>3. CASE /\ SetStatus(s, <<"risk_fusion", "done">>)
               /\ row' = [row EXCEPT ![s] = IF status[s] = Purged THEN @ ELSE o]
               /\ NoFault
      <3>1. /\ hit'[s] = hit[s]
            /\ \/ status[s] = Purged /\ status'[s] = status[s]
               \/ status'[s] = <<"risk_fusion", "done">> /\ row'[s] = o
        BY <1>c, <2>3 DEF SetStatus, TypeOK, NoFault, budget
      <3>2. <<"risk_fusion", "done">> # Purged /\ Purged \notin Closed
        BY StatusKinds DEF Phases
      <3>3. Data(s, t, "dispatch", o)'
        BY <1>b, <1>c, <1>d, <2>1, <2>2, <3>1, <3>2 DEF Data
      <3> QED BY <1>h, <2>1, <3>3 DEF PCs
    <2>4. CASE Fault("db", s) /\ UNCHANGED <<status, row>>
      <3>1. row'[s] = row[s] /\ status'[s] = status[s] /\ hit'[s] = hit[s] \cup {"db"}
        BY <1>c, <2>4, FaultEffect
      <3>2. Data(s, t, "dispatch", o)'
        BY <1>b, <1>c, <1>d, <2>1, <2>2, <3>1 DEF Data
      <3> QED BY <1>h, <2>1, <3>2 DEF PCs
    <2> QED BY <1>0, <1>14, <2>3, <2>4 DEF MarkVerdict
  <1>15. CASE CreateIncident(w)
    <2>1. /\ row'[s] = row[s] /\ report'[s] = report[s] /\ cache'[s] = cache[s]
          /\ status'[s] = status[s] /\ hit'[s] = hit[s] /\ UNCHANGED queue
          /\ Goto(w, "mark")
      BY <1>15 DEF CreateIncident, files, budget
    <2>2. t = "alert_pipeline" /\ p = "work"
      BY <1>0, <1>15 DEF CreateIncident, Working
    <2>3. incidents'[s] = incidents[s] + 1
      BY <1>15, <1>c DEF CreateIncident, TypeOK
    <2>4. Data(s, t, "mark", o)'
      BY <1>b, <1>c, <1>d, <2>1, <2>2, <2>3 DEF Data
    <2> QED BY <1>h, <2>1, <2>4 DEF PCs
  <1>16. CASE WriteFails(w)
    <2>1. kept /\ status'[s] = status[s] /\ UNCHANGED queue /\ Goto(w, "ack")
      BY <1>16 DEF WriteFails, database, files
    <2>2. t # "alert_pipeline" /\ p \in {"work", "truncate", "complete"}
      BY <1>0, <1>16 DEF WriteFails, Working
    <2>3. hit'[s] = hit[s] \cup {"disk"}
      BY <1>c, <1>16, FaultEffect DEF WriteFails
    <2>4. Data(s, "none", "none", "none")'
      BY <1>b, <1>c, <2>1, <2>2, <2>3 DEF Data
    <2> QED BY <1>i, <2>1, <2>4
  <1>17. ~Ack(w)
    BY <1>b DEF AtWork, Carries, Ack, Working
  <1> QED BY <1>1, <1>2, <1>3, <1>4, <1>5, <1>6, <1>7, <1>8, <1>9, <1>10, <1>11, <1>12,
             <1>13, <1>14, <1>15, <1>16, <1>17 DEF Work

(* Whatever a worker does with its task, every scan's work stays in one    *)
(* place.                                                                  *)
LEMMA FlightWork ==
  ASSUME TypeInv, FlightInv, NEW w \in Workers, Work(w) \/ WriteFails(w),
         NEW r \in Scans
  PROVE  Flight(r)'
  <1>a. Flight(r) /\ hit[r] \subseteq hit'[r] /\ job[w] # Idle
    BY WorkFrame, AtATask DEF FlightInv
  <1>1. CASE "crash" \in hit[r]
    BY <1>1, <1>a DEF Flight
  <1>2. CASE r # job[w].msg.scan
    <2>1. Unmoved(r)
      BY <1>2, <1>a, WorkMoves, Apart
    <2>2. Still(r)
      BY <1>2, <2>1, WorkFrame DEF Still
    <2> QED BY <1>a, <2>2, StillFlies
  <1>3. CASE r = job[w].msg.scan /\ job[w].pc = "ack"
    <2>1. Ack(w)
      BY <1>3 DEF Work, WorkFails, Retry, MarkDone, Dispatch, MarkDispatchFailed,
         UploadMissing, ExtractFeatures, TruncateMetadata, CompleteMetadata,
         SandboxFails, SandboxReturns, WriteConsistency, WriteReport,
         CacheReport, MarkVerdict, CreateIncident, WriteFails, Working
    <2>2. /\ job'[w] = Idle /\ \A v \in Workers : v # w => job'[v] = job[v]
          /\ queue' = queue
      BY <2>1 DEF Ack, TypeInv, TypeOK
    <2>3. Unmoved(r)
      BY <1>3, <2>2 DEF Unmoved, Carries, At
    <2>4. Still(r)
      BY <2>1, <2>3, <1>a DEF Still, Ack, database, files
    <2> QED BY <1>a, <2>4, StillFlies
  <1>4. CASE "crash" \notin hit[r] /\ r = job[w].msg.scan /\ job[w].pc # "ack"
    <2>1. Carries(w, r)
      BY <1>4, <1>a DEF Carries, At
    <2> QED BY <1>4, <1>a, <2>1, CarrierHere, WorkFlies
  <1> QED BY <1>1, <1>2, <1>3, <1>4

(* A worker takes a message: the work goes from the queue to the task.     *)
LEMMA FlightStart ==
  ASSUME TypeInv, FlightInv, NEW w \in Workers, NEW m \in Messages, Start(w, m),
         NEW r \in Scans
  PROVE  Flight(r)'
  <1>a. /\ Flight(r) /\ TypeOK /\ m.scan \in Scans /\ m.task \in Tasks /\ queue[m] > 0
        /\ job[w] = Idle /\ job'[w] = [pc |-> "work", msg |-> m, out |-> "none"]
        /\ \A v \in Workers : v # w => job'[v] = job[v]
        /\ queue' = [queue EXCEPT ![m] = @ - 1]
        /\ Mark(m.scan, <<m.task, "running">>)
        /\ row'[r] = row[r] /\ incidents'[r] = incidents[r] /\ report'[r] = report[r]
        /\ cache'[r] = cache[r] /\ intake'[r] = intake[r]
    BY MessageFields DEF Start, FlightInv, TypeInv, TypeOK, files
  <1>b. /\ <<m.task, "running">> \in Statuses /\ <<m.task, "running">> # Purged
        /\ <<m.task, "running">> \notin Closed
    BY <1>a, TaskStatus, StatusKinds DEF Phases
  <1>c. /\ r # m.scan => status'[r] = status[r] /\ hit'[r] = hit[r]
        /\ r = m.scan => /\ status'[r] \in {status[r], <<m.task, "running">>}
                         /\ status[r] = Purged => status'[r] = Purged
                         /\ hit'[r] \in {hit[r], hit[r] \cup {"db"}}
    BY <1>a, <1>b, MarkEffect
  <1>1. CASE "crash" \in hit[r]
    BY <1>1, <1>c DEF Flight
  <1>2. CASE r # m.scan
    <2>1. Unmoved(r)
      BY <1>2, <1>a DEF Unmoved, Carries, At, TypeOK, Idle
    <2>2. Still(r)
      BY <1>2, <1>a, <1>c, <2>1 DEF Still
    <2> QED BY <1>a, <2>2, StillFlies
  <1>3. CASE "crash" \notin hit[r] /\ r = m.scan
    <2>1. InQueue(r, m) /\ Data(r, m.task, "wait", "none")
      BY <1>3, <1>a, WaiterQueued DEF Waits, Queued
    <2>2. \A n \in Messages : n.scan = r => ~Waits(n)'
      <3>1. \A n \in Messages : n.scan = r => queue'[n] = 0 \/ (n # m /\ queue'[n] = queue[n])
        BY <1>a, <2>1 DEF InQueue, TypeOK
      <3>2. \A n \in Messages : n.scan = r /\ n # m => ~(queue[n] > 0)
        BY <2>1 DEF InQueue, Waits
      <3> QED BY <3>1, <3>2 DEF Waits
    <2>3. job'[w] # Idle /\ job'[w].pc = "work" /\ job'[w].msg = m /\ job'[w].out = "none"
      BY <1>a DEF Idle
    <2>4. AtWork(r, w)'
      BY <1>3, <1>a, <2>1, <2>2, <2>3 DEF AtWork, InQueue, Carries, At
    <2>5. incidents[r] \in Nat
      BY DEF TypeInv, TypeOK
    <2>6. Data(r, m.task, "work", "none")'
      BY <1>3, <1>a, <1>b, <1>c, <2>1, <2>5 DEF Data
    <2>7. Here(r, w)'
      BY <2>3, <2>4, <2>6 DEF Here
    <2> QED BY <2>7 DEF Flight
  <1> QED BY <1>1, <1>2, <1>3

(* A message is lost, and the work of its scan with it.                    *)
LEMMA FlightLose ==
  ASSUME TypeInv, FlightInv, NEW m \in Messages, LoseMessage(m), NEW r \in Scans
  PROVE  Flight(r)'
  <1>a. /\ Flight(r) /\ TypeOK /\ m.scan \in Scans /\ queue[m] > 0
        /\ job' = job /\ queue' = [queue EXCEPT ![m] = @ - 1]
        /\ Fault("loss", m.scan)
        /\ row'[r] = row[r] /\ incidents'[r] = incidents[r] /\ report'[r] = report[r]
        /\ cache'[r] = cache[r] /\ intake'[r] = intake[r] /\ status'[r] = status[r]
    BY MessageFields DEF LoseMessage, FlightInv, TypeInv, files, database
  <1>b. hit'[r] = IF r = m.scan THEN hit[r] \cup {"loss"} ELSE hit[r]
    BY <1>a, FaultEffect
  <1>1. CASE "crash" \in hit[r]
    BY <1>1, <1>b DEF Flight
  <1>2. CASE r # m.scan
    <2>1. Unmoved(r)
      BY <1>2, <1>a DEF Unmoved, Carries, At, TypeOK
    <2>2. Still(r)
      BY <1>2, <1>a, <1>b, <2>1 DEF Still
    <2> QED BY <1>a, <2>2, StillFlies
  <1>3. CASE "crash" \notin hit[r] /\ r = m.scan
    <2>1. InQueue(r, m) /\ Data(r, m.task, "wait", "none")
      BY <1>3, <1>a, WaiterQueued DEF Waits, Queued
    <2>2. \A n \in Messages : n.scan = r => queue'[n] = 0 \/ (n # m /\ queue'[n] = queue[n])
      BY <1>a, <2>1 DEF InQueue, TypeOK
    <2>3. \A n \in Messages : n.scan = r /\ n # m => ~(queue[n] > 0)
      BY <2>1 DEF InQueue, Waits
    <2>4. Nowhere(r)'
      BY <1>a, <2>1, <2>2, <2>3 DEF Nowhere, InQueue, Waits, Carries, At
    <2>5. incidents[r] \in Nat
      BY DEF TypeInv, TypeOK
    <2>6. Data(r, "none", "none", "none")'
      BY <1>3, <1>a, <1>b, <2>1, <2>5 DEF Data
    <2> QED BY <2>4, <2>6 DEF Flight, Gone
  <1> QED BY <1>1, <1>2, <1>3

(* A worker dies: nothing is claimed of its scan any more.                 *)
LEMMA FlightCrash ==
  ASSUME TypeInv, FlightInv, NEW w \in Workers, WorkerCrash(w), NEW r \in Scans
  PROVE  Flight(r)'
  <1>a. /\ Flight(r) /\ TypeOK /\ job[w] # Idle
        /\ job[w].msg \in Messages /\ job[w].msg.scan \in Scans
    BY JobFields DEF WorkerCrash, FlightInv, TypeInv
  <1>b. hit'[r] = IF r = job[w].msg.scan THEN hit[r] \cup {"crash"} ELSE hit[r]
    BY <1>a, FaultEffect DEF WorkerCrash
  <1>1. CASE r = job[w].msg.scan
    BY <1>1, <1>b DEF Flight
  <1>2. CASE r # job[w].msg.scan
    <2>1. job'[w] = Idle /\ \A v \in Workers : v # w => job'[v] = job[v]
      BY <1>a DEF WorkerCrash, TypeOK
    <2>2. \E n \in Messages : n.scan # r /\ Publish(n)
      BY <1>2, <1>a DEF WorkerCrash
    <2>3. Unmoved(r)
      BY <1>2, <1>a, <2>1, <2>2, Apart
    <2>4. Still(r)
      BY <1>2, <1>b, <2>3 DEF Still, WorkerCrash, database, files
    <2> QED BY <1>a, <2>4, StillFlies
  <1> QED BY <1>1, <1>2

(* Steps that move no work.                                                *)
LEMMA NothingMoves ==
  ASSUME UNCHANGED <<queue, job>>, NEW r
  PROVE  Unmoved(r)
  BY DEF Unmoved, Carries, At

(* A step of the intake request or of the environment of one scan.         *)
LEMMA FlightRequest ==
  ASSUME TypeInv, FlightInv, NEW s \in Scans, NEW r \in Scans,
         Submit(s) \/ Request(s) \/ IntakeCrash(s) \/ ExpireCache(s) \/ Retention(s)
  PROVE  Flight(r)'
  <1> USE DEF database, files, budget
  <1>a. Flight(r) /\ TypeOK /\ incidents[r] \in Nat
    BY DEF FlightInv, TypeInv, TypeOK
  <1>b. ASSUME NEW k, Fault(k, s)
        PROVE  hit'[r] = IF r = s THEN hit[r] \cup {k} ELSE hit[r]
    BY <1>a, <1>b, FaultEffect
  <1>c. ASSUME NoFault PROVE hit'[r] = hit[r]
    BY <1>c DEF NoFault
  <1>d. ASSUME UNCHANGED <<queue, job>>, hit[r] \subseteq hit'[r],
               \A t, p, o : Data(r, t, p, o) => Data(r, t, p, o)'
        PROVE  Flight(r)'
    BY <1>a, <1>d, NothingMoves, StaysPut
  <1>e. ASSUME UNCHANGED <<queue, job>>, hit[r] \subseteq hit'[r],
               /\ status'[r] = status[r] /\ row'[r] = row[r] /\ incidents'[r] = incidents[r]
               /\ report'[r] = report[r] /\ cache'[r] = cache[r] /\ intake'[r] = intake[r]
        PROVE  Flight(r)'
    BY <1>a, <1>e, NothingMoves, StillFlies DEF Still
  <1>f. /\ <<"browser_features", "running">> \in Statuses
        /\ <<"browser_features", "dispatch_failed">> \in Statuses
        /\ <<"browser_features", "running">> \notin {Purged} \cup Closed
        /\ <<"browser_features", "dispatch_failed">> \notin {Purged} \cup Closed
        /\ Created \notin {Purged} \cup Closed /\ Blocked # Purged
        /\ Purged \notin {Absent, Created, FailedTimeout} \cup Closed
        /\ Absent \notin Closed /\ FailedTimeout \notin Closed
    BY TaskStatus, StatusKinds DEF Phases, Created, Blocked, Purged, Absent, FailedTimeout
  <1>1. CASE Submit(s)
    <2>1. /\ UNCHANGED <<queue, job>> /\ hit'[r] = hit[r] /\ row'[r] = row[r]
          /\ incidents'[r] = incidents[r] /\ report'[r] = report[r] /\ cache'[r] = cache[r]
          /\ \/ status'[r] = status[r] /\ intake'[r] = intake[r]
             \/ intake[r] = "idle" /\ intake'[r] = "created" /\ status'[r] = Created
      BY <1>1, <1>a DEF Submit, TypeOK
    <2>2. \A t, p, o : Data(r, t, p, o) => Data(r, t, p, o)'
      BY <1>a, <1>f, <2>1 DEF Data
    <2> QED BY <1>d, <2>1, <2>2
  <1>2. CASE Block(s)
    <2>1. /\ UNCHANGED <<queue, job>> /\ hit'[r] = hit[r]
          /\ incidents'[r] = incidents[r] /\ report'[r] = report[r] /\ cache'[r] = cache[r]
          /\ \/ status'[r] = status[r] /\ intake'[r] = intake[r] /\ row'[r] = row[r]
             \/ intake[r] = "created" /\ intake'[r] = "done" /\ status'[r] = Blocked
      BY <1>2, <1>a DEF Block, TypeOK
    <2>2. \A t, p, o : Data(r, t, p, o) => Data(r, t, p, o)'
      BY <1>a, <1>f, <2>1 DEF Data
    <2> QED BY <1>d, <2>1, <2>2
  <1>3. CASE StoreUpload(s) \/ RejectUpload(s)
    <2>1. /\ UNCHANGED <<queue, job, status, row, incidents, report, cache, hit>>
          /\ \/ intake'[r] = intake[r]
             \/ intake[r] = "created" /\ intake'[r] = "stored"
             \/ intake[r] = "stored" /\ intake'[r] = "done"
      BY <1>3, <1>a DEF StoreUpload, RejectUpload, TypeOK
    <2>2. \A t, p, o : Data(r, t, p, o) => Data(r, t, p, o)'
      BY <1>a, <2>1 DEF Data
    <2> QED BY <1>d, <2>1, <2>2
  <1>4. CASE ConfirmRunning(s) \/ ConfirmDispatchFailed(s)
    <2>1. PICK st \in {<<"browser_features", "running">>,
                       <<"browser_features", "dispatch_failed">>} :
            Mark(s, st)
      BY <1>4 DEF ConfirmRunning, ConfirmDispatchFailed, Mark
    <2>2. st \in Statuses /\ st \notin {Purged} \cup Closed
      BY <1>f, <2>1
    <2>3. /\ r # s => status'[r] = status[r] /\ hit'[r] = hit[r]
          /\ r = s => /\ status'[r] \in {status[r], st}
                      /\ status[r] = Purged => status'[r] = Purged
                      /\ hit'[r] \in {hit[r], hit[r] \cup {"db"}}
      BY <1>a, <2>1, <2>2, MarkEffect
    <2>4. /\ UNCHANGED <<queue, job, row, incidents, report, cache>>
          /\ r # s => intake'[r] = intake[r]
          /\ r = s => intake[r] \in {"sent", "send_failed"} /\ intake'[r] = "done"
      BY <1>4, <1>a DEF ConfirmRunning, ConfirmDispatchFailed, TypeOK
    <2>5. \A t, p, o : Data(r, t, p, o) => Data(r, t, p, o)'
      BY <1>a, <2>2, <2>3, <2>4 DEF Data
    <2> QED BY <1>d, <2>3, <2>4, <2>5
  <1>5. CASE IntakeCrash(s)
    <2>1. /\ UNCHANGED <<queue, job, status, row, incidents, report, cache>>
          /\ hit'[r] = IF r = s THEN hit[r] \cup {"crash"} ELSE hit[r]
          /\ r # s => intake'[r] = intake[r]
      BY <1>5, <1>a, <1>b DEF IntakeCrash, TypeOK
    <2>2. CASE r = s
      BY <2>1, <2>2 DEF Flight
    <2>3. CASE r # s
      BY <1>e, <2>1, <2>3
    <2> QED BY <2>2, <2>3
  <1>6. CASE ExpireCache(s)
    <2>1. /\ UNCHANGED <<queue, job, status, row, incidents, report, intake, hit>>
          /\ cache'[r] \in {cache[r], "none"}
      BY <1>6, <1>a DEF ExpireCache, TypeOK
    <2>2. \A t, p, o : Data(r, t, p, o) => Data(r, t, p, o)'
      BY <1>a, <2>1 DEF Data
    <2> QED BY <1>d, <2>1, <2>2
  <1>7. CASE SweepDirectory(s)
    <2>1. /\ UNCHANGED <<queue, job, status, row, incidents, cache, intake>>
          /\ hit'[r] = IF r = s THEN hit[r] \cup {"retention"} ELSE hit[r]
          /\ r # s => report'[r] = report[r]
          /\ r = s => report'[r] = "none" /\ intake[r] = "done"
      BY <1>7, <1>a, <1>b DEF SweepDirectory, TypeOK
    <2>2. \A t, p, o : Data(r, t, p, o) => Data(r, t, p, o)'
      BY <1>a, <2>1 DEF Data
    <2> QED BY <1>d, <2>1, <2>2
  <1>8. CASE PurgeRow(s)
    <2>1. /\ UNCHANGED <<queue, job, incidents, report, cache, intake>>
          /\ hit'[r] = IF r = s THEN hit[r] \cup {"retention"} ELSE hit[r]
          /\ r # s => status'[r] = status[r] /\ row'[r] = row[r]
          /\ r = s => status'[r] = Purged /\ intake[r] = "done"
      BY <1>8, <1>a, <1>b DEF PurgeRow, TypeOK
    <2>2. \A t, p, o : Data(r, t, p, o) => Data(r, t, p, o)'
      BY <1>a, <1>f, <2>1 DEF Data
    <2> QED BY <1>d, <2>1, <2>2
  <1>9. CASE Send(s)
    <2>1. CASE Fault("dispatch", s) /\ UNCHANGED queue /\ intake'[s] = "send_failed"
      <3>1. /\ UNCHANGED <<queue, job, status, row, incidents, report, cache>>
            /\ hit'[r] = IF r = s THEN hit[r] \cup {"dispatch"} ELSE hit[r]
            /\ r # s => intake'[r] = intake[r]
            /\ r = s => intake'[r] = "send_failed"
        BY <1>9, <1>a, <1>b, <2>1 DEF Send, TypeOK
      <3>2. \A t, p, o : Data(r, t, p, o) => Data(r, t, p, o)'
        BY <1>a, <3>1 DEF Data
      <3> QED BY <1>d, <3>1, <3>2
    <2>2. CASE NoFault /\ Publish(Message("browser_features", s)) /\ intake'[s] = "sent"
      <3>1. /\ UNCHANGED <<job, status, row, incidents, report, cache, hit>>
            /\ intake[s] = "stored" /\ \A q \in Scans : q # s => intake'[q] = intake[q]
        BY <1>9, <1>a, <2>2 DEF Send, NoFault, TypeOK
      <3>2. PICK m \in Messages : m.scan = s /\ m.task = "browser_features" /\ Publish(m)
        BY <2>2, FreshMessage DEF Message
      <3>3. \A n \in Messages : queue'[n] = IF n = m THEN queue[n] + 1 ELSE queue[n]
        BY <1>a, <3>2 DEF Publish, TypeOK
      <3>4. CASE r # s
        <4>1. Unmoved(r)
          BY <3>1, <3>2, <3>3, <3>4 DEF Unmoved, Carries, At
        <4>2. Still(r)
          BY <3>1, <3>4, <4>1 DEF Still
        <4> QED BY <1>a, <4>2, StillFlies
      <3>5. CASE r = s /\ "crash" \in hit[r]
        BY <3>1, <3>5 DEF Flight
      <3>6. CASE r = s /\ "crash" \notin hit[r]
        <4>1. Gone(r)
          <5>1. ASSUME NEW n \in Messages, Queued(r, n) PROVE FALSE
            BY <3>1, <3>6, <5>1 DEF Queued, Data
          <5>2. ASSUME NEW w \in Workers, Here(r, w) PROVE FALSE
            <6>1. job[w].pc # "none"
              BY <1>a, <5>2, JobFields DEF Here, AtWork, Carries, At, PCs
            <6>2. job[w].pc = "none"
              BY <3>1, <3>6, <5>2 DEF Here, Data
            <6> QED BY <6>1, <6>2
          <5> QED BY <1>a, <3>6, <5>1, <5>2 DEF Flight
        <4>2. queue[m] = 0
          BY <1>a, <3>2, <3>6, <4>1 DEF Gone, Nowhere, Waits, TypeOK
        <4>3. InQueue(r, m)'
          BY <3>1, <3>2, <3>3, <3>6, <4>1, <4>2 DEF Gone, Nowhere, InQueue, Waits, Carries, At
        <4>4. Data(r, m.task, "wait", "none")'
          BY <1>a, <1>f, <2>2, <3>1, <3>2, <3>6, <4>1 DEF Gone, Data
        <4> QED BY <4>3, <4>4 DEF Flight, Queued
      <3> QED BY <3>4, <3>5, <3>6
    <2> QED BY <1>9, <1>a, <2>1, <2>2 DEF Send, TypeOK
  <1> QED BY <1>1, <1>2, <1>3, <1>4, <1>5, <1>6, <1>7, <1>8, <1>9 DEF Request, Retention

(* The reconciliation job moves nothing and writes no status but its own.  *)
LEMMA FlightReconcile ==
  ASSUME TypeInv, FlightInv, FindStuck \/ FailStuck, NEW r \in Scans
  PROVE  Flight(r)'
  <1>1. /\ UNCHANGED <<queue, job, row, incidents, report, cache, intake, hit>>
        /\ status'[r] \in {status[r], FailedTimeout}
    BY DEF FindStuck, FailStuck, database, files, budget, TypeInv, TypeOK
  <1>2. FailedTimeout \notin {Purged} \cup Closed
    BY DEF FailedTimeout, Purged, Closed
  <1>3. \A t, p, o : Data(r, t, p, o) => Data(r, t, p, o)'
    BY <1>1, <1>2 DEF Data
  <1> QED BY <1>1, <1>3, NothingMoves, StaysPut DEF FlightInv

(* Only the sandbox task falls back.                                       *)
LEMMA FallbackStep ==
  ASSUME TypeInv, FlightInv, Next
  PROVE  FallbackInv'
  <1> SUFFICES ASSUME NEW w \in Workers, job'[w] # Idle, job'[w].out = "fallback"
               PROVE  job'[w].msg.task = "sandbox_analysis"
    BY DEF FallbackInv
  <1>1. CASE job'[w] = job[w]
    BY <1>1 DEF FlightInv, FallbackInv
  <1>2. ASSUME NEW v \in Workers, NEW m \in Messages, Start(v, m), v = w
        PROVE  FALSE
    BY <1>2 DEF Start, TypeInv, TypeOK
  <1>3. ASSUME Work(w) \/ WriteFails(w)
        PROVE  job'[w].msg.task = "sandbox_analysis"
    <2>a. /\ job[w] # Idle /\ TypeOK /\ job[w].msg.task \in Tasks
          /\ job'[w].msg = job[w].msg
      BY <1>3, AtATask, WorkMoves DEF TypeInv
    <2>1. CASE \E label \in PCs : Goto(w, label)
      BY <2>1, <2>a, GotoType DEF FlightInv, FallbackInv
    <2>2. ASSUME NEW label \in PCs, NEW u \in AllVerdicts \cup {"skip", "sandbox"},
                 Decide(w, label, u)
          PROVE  FALSE
      BY <2>2, <2>a, DecideType
    <2>3. CASE TruncateMetadata(w)
      BY <2>1, <2>3, <2>a DEF TruncateMetadata, Working, PCs
    <2>4. CASE ExtractFeatures(w)
      BY <2>2, <2>4 DEF ExtractFeatures, PCs
    <2>5. CASE WriteReport(w)
      BY <2>2, <2>5 DEF WriteReport, PCs
    <2>6. CASE Ack(w)
      BY <2>6, <2>a DEF Ack, TypeOK
    <2> QED BY <1>3, <2>1, <2>3, <2>4, <2>5, <2>6
            DEF Work, WorkFails, Retry, MarkDone, Dispatch, MarkDispatchFailed,
                UploadMissing, CompleteMetadata, SandboxFails, SandboxReturns,
                WriteConsistency, CacheReport, MarkVerdict, CreateIncident, WriteFails, PCs
  <1>4. ASSUME NEW v \in Workers, v # w, Work(v) \/ WriteFails(v)
        PROVE  job'[w] = job[w]
    BY <1>4, WorkMoves
  <1>5. ASSUME NEW v \in Workers, WorkerCrash(v) \/ \E m \in Messages : Start(v, m)
        PROVE  job'[w] = job[w] \/ (v = w /\ \E m \in Messages : Start(v, m))
    BY <1>5 DEF WorkerCrash, Start, TypeInv, TypeOK
  <1>6. ASSUME NEW s \in Scans, Submit(s) \/ Request(s) \/ IntakeCrash(s)
                                \/ ExpireCache(s) \/ Retention(s)
        PROVE  job' = job
    BY <1>6 DEF Submit, Request, IntakeCrash, ExpireCache, Retention, Block,
       StoreUpload, RejectUpload, Send, ConfirmRunning, ConfirmDispatchFailed,
       SweepDirectory, PurgeRow
  <1>7. ASSUME FindStuck \/ FailStuck \/ \E m \in Messages : LoseMessage(m)
        PROVE  job' = job
    BY <1>7 DEF FindStuck, FailStuck, LoseMessage
  <1> QED BY <1>1, <1>2, <1>3, <1>4, <1>5, <1>6, <1>7 DEF Next, Receive

LEMMA FlightInit == Init => FlightInv
  <1> SUFFICES ASSUME Init PROVE FlightInv
    OBVIOUS
  <1>1. FallbackInv
    BY DEF Init, FallbackInv
  <1>2. ASSUME NEW s \in Scans PROVE Flight(s)
    <2>1. Nowhere(s)
      BY DEF Init, Nowhere, Waits, Carries, At
    <2>2. /\ status[s] = Absent /\ report[s] = "none" /\ incidents[s] = 0 /\ cache[s] = "none"
      BY DEF Init
    <2>3. Absent \notin {Purged} \cup Closed
      BY StatusKinds DEF Absent, Purged
    <2>4. Data(s, "none", "none", "none")
      BY <2>2, <2>3 DEF Data
    <2> QED BY <2>1, <2>4 DEF Flight, Gone
  <1> QED BY <1>1, <1>2 DEF FlightInv

LEMMA FlightStep ==
  ASSUME TypeInv, FlightInv, [Next]_vars
  PROVE  FlightInv'
  <1>1. CASE Next
    <2>1. ASSUME NEW r \in Scans PROVE Flight(r)'
      <3>1. ASSUME NEW s \in Scans, Submit(s) \/ Request(s) \/ IntakeCrash(s)
                                    \/ ExpireCache(s) \/ Retention(s)
            PROVE  Flight(r)'
        BY <3>1, FlightRequest
      <3>2. ASSUME NEW w \in Workers, Receive(w) \/ Work(w) \/ WriteFails(w) \/ WorkerCrash(w)
            PROVE  Flight(r)'
        BY <3>2, FlightStart, FlightWork, FlightCrash DEF Receive
      <3>3. ASSUME NEW m \in Messages, LoseMessage(m)
            PROVE  Flight(r)'
        BY <3>3, FlightLose
      <3>4. CASE FindStuck \/ FailStuck
        BY <3>4, FlightReconcile
      <3> QED BY <1>1, <3>1, <3>2, <3>3, <3>4 DEF Next
    <2> QED BY <1>1, <2>1, FallbackStep DEF FlightInv
  <1>2. CASE UNCHANGED vars
    <2>1. FallbackInv'
      BY <1>2 DEF vars, FlightInv, FallbackInv
    <2>2. ASSUME NEW r \in Scans PROVE Flight(r)'
      <3>1. Unmoved(r)
        BY <1>2, NothingMoves DEF vars
      <3>2. Still(r)
        BY <1>2, <3>1 DEF Still, vars, database, files, budget
      <3> QED BY <3>2, StillFlies DEF FlightInv
    <2> QED BY <2>1, <2>2 DEF FlightInv
  <1> QED BY <1>1, <1>2

LEMMA FlightCorrect == Spec => [](TypeInv /\ FlightInv)
  BY TypeInit, TypeStep, FlightInit, FlightStep, PTL DEF Spec

(* However many workers there are and however tasks are retried, fall back *)
(* or fail to hand over, the work of a scan is in one place as long as no  *)
(* process dies.                                                           *)
THEOREM SingleFlightCorrect == Spec => []SingleFlight
  <1>1. TypeInv /\ FlightInv => SingleFlight
    <2> SUFFICES ASSUME FlightInv, NEW s \in Scans, "crash" \notin hit[s]
                 PROVE  /\ \A w \in Workers : Carries(w, s) =>
                             /\ \A v \in Workers : Carries(v, s) => v = w
                             /\ \A m \in Messages : m.scan = s => ~Waits(m)
                        /\ \A m \in Messages : m.scan = s /\ Waits(m) =>
                             /\ queue[m] = 1
                             /\ \A n \in Messages : n.scan = s /\ Waits(n) => n = m
      BY DEF SingleFlight
    <2>1. Flight(s)
      BY DEF FlightInv
    <2>2. ASSUME NEW w \in Workers, Carries(w, s) PROVE AtWork(s, w)
      BY <2>1, <2>2, CarrierHere DEF Here
    <2>3. ASSUME NEW m \in Messages, m.scan = s, Waits(m) PROVE InQueue(s, m)
      BY <2>1, <2>3, WaiterQueued DEF Queued
    <2> QED BY <2>2, <2>3 DEF AtWork, InQueue
  <1> QED BY <1>1, FlightCorrect, PTL

(* What FlightInv says of a scan's data, wherever its work is.             *)
LEMMA SomewhereData ==
  ASSUME TypeInv, FlightInv, NEW s \in Scans, "crash" \notin hit[s]
  PROVE  \E t, p, o :
           /\ Data(s, t, p, o)
           /\ t = "risk_fusion" /\ p \in {"cache", "mark"} =>
                \E w \in Workers : /\ At(w, s) /\ job[w].msg.task = "risk_fusion"
                                  /\ job[w].pc \in {"cache", "mark"}
  <1>1. CASE Gone(s)
    BY <1>1 DEF Gone
  <1>2. ASSUME NEW m \in Messages, Queued(s, m)
        PROVE  Data(s, m.task, "wait", "none")
    BY <1>2 DEF Queued
  <1>3. ASSUME NEW w \in Workers, Here(s, w)
        PROVE  At(w, s) /\ Data(s, job[w].msg.task, job[w].pc, job[w].out)
    BY <1>3 DEF Here, AtWork, Carries
  <1>4. Gone(s) \/ (\E m \in Messages : Queued(s, m)) \/ (\E w \in Workers : Here(s, w))
    BY DEF FlightInv, Flight
  <1>5. CASE \E m \in Messages : Queued(s, m)
    BY <1>2, <1>5
  <1>6. CASE \E w \in Workers : Here(s, w)
    BY <1>3, <1>6
  <1>7. CASE Gone(s)
    <2>1. Data(s, "none", "none", "none")
      BY <1>7 DEF Gone
    <2> QED BY <2>1
  <1> QED BY <1>4, <1>5, <1>6, <1>7

(* A scan raises at most one incident, for the severe report on its disk,  *)
(* unless a crash repeats the task or the retention job removes the report.*)
THEOREM OneIncidentCorrect == Spec => []OneIncident
  <1>1. TypeInv /\ FlightInv => OneIncident
    BY SomewhereData DEF OneIncident, Data
  <1> QED BY <1>1, FlightCorrect, PTL

(* The report on disk, the cache entry and the row agree once risk_fusion  *)
(* has written them, if nothing failed while it did.                       *)
THEOREM VerdictsAgreeCorrect == Spec => []VerdictsAgree
  <1>1. TypeInv /\ FlightInv => VerdictsAgree
    BY SomewhereData DEF VerdictsAgree, Data
  <1> QED BY <1>1, FlightCorrect, PTL

(* Which writer may replace the status st of scan s by a different one.    *)
Undoes(s) ==
  \/ intake[s] \in {"sent", "send_failed"}
  \/ s \in stuck
  \/ status[s] = FailedTimeout
  \/ status'[s] = Purged
  \/ status[s] = <<"risk_fusion", "done">> /\ status'[s][1] = "alert_pipeline"

(* A task that writes a status over a final one is alert_pipeline's, or    *)
(* risk_fusion's when it cannot queue alert_pipeline.                      *)
LEMMA WorkUndoes ==
  ASSUME TypeInv, FlightInv, NEW s \in Scans, "crash" \notin hit[s],
         status[s] \in Terminal, status'[s] # status[s],
         NEW w \in Workers, Work(w) \/ WriteFails(w)
  PROVE  Undoes(s)
  <1>1. job[w].msg.scan = s
    BY WorkFrame
  <1>2. job[w].pc # "ack" /\ job[w] # Idle
    BY AtATask DEF Work, WorkFails, Retry, MarkDone, Dispatch, MarkDispatchFailed, Ack,
       UploadMissing, ExtractFeatures, TruncateMetadata, CompleteMetadata,
       SandboxFails, SandboxReturns, WriteConsistency, WriteReport,
       CacheReport, MarkVerdict, CreateIncident, WriteFails, Working, database
  <1>3. Here(s, w)
    BY <1>1, <1>2, CarrierHere DEF Carries, At, FlightInv
  <1> DEFINE t == job[w].msg.task
  <1>a. TypeOK /\ job[w] \in Jobs /\ JobOK(job[w]) /\ t \in Tasks
    BY AtATask DEF TypeInv
  <1>4. job[w].pc # "none"
    BY <1>a DEF Jobs
  <1>5. ASSUME NEW st \in Statuses, Mark(s, st)
        PROVE  status'[s] = st /\ status[s] # Purged
    BY <1>5, <1>a, MarkEffect
  <1>6. CASE status[s] \in Closed
    <2>1. /\ status[s] = <<"risk_fusion", "done">>
          /\ \/ t = "alert_pipeline"
             \/ t = "risk_fusion" /\ job[w].pc \in {"dispatch", "dispatch_failed"}
      BY <1>3, <1>4, <1>6 DEF Here, Data
    <2>2. ASSUME NEW ph \in Phases, Mark(s, <<t, ph>>), t = "alert_pipeline"
          PROVE  status'[s][1] = "alert_pipeline"
      <3>1. status'[s] = <<t, ph>>
        BY <1>5, <1>a, <2>2, TaskStatus
      <3> QED BY <2>2, <3>1
    <2>3. CASE MarkDispatchFailed(w)
      <3>1. t = "risk_fusion"
        BY <1>a, <2>1, <2>3 DEF MarkDispatchFailed, Working, JobOK
      <3>2. DispatchFailedStatus(job[w]) = <<"alert_pipeline", "dispatch_failed">>
        BY <3>1 DEF DispatchFailedStatus, Successor, Message
      <3>3. status'[s] = <<"alert_pipeline", "dispatch_failed">>
        BY <1>1, <1>5, <1>a, <2>3, <3>2, WrittenStatuses DEF MarkDispatchFailed
      <3> QED BY <2>1, <3>3 DEF Undoes
    <2>4. CASE WorkFails(w)
      <3>1. t = "alert_pipeline"
        BY <2>1, <2>4 DEF WorkFails, Working
      <3>2. PICK ph \in Phases : Mark(s, <<t, ph>>)
        BY <1>1, <2>4 DEF WorkFails, Phases
      <3> QED BY <2>1, <2>2, <3>1, <3>2 DEF Undoes
    <2>5. CASE MarkDone(w)
      <3>1. t = "alert_pipeline"
        BY <2>1, <2>5 DEF MarkDone, Working
      <3>2. PICK ph \in Phases : Mark(s, <<t, ph>>)
        BY <1>1, <2>5 DEF MarkDone, Phases
      <3> QED BY <2>1, <2>2, <3>1, <3>2 DEF Undoes
    <2>6. ~UploadMissing(w) /\ ~SandboxFails(w) /\ ~MarkVerdict(w)
      BY <2>1 DEF UploadMissing, SandboxFails, MarkVerdict, Working
    <2>7. UNCHANGED status \/ MarkDispatchFailed(w) \/ WorkFails(w) \/ MarkDone(w)
      BY <2>6 DEF Work, Retry, Dispatch, Ack, ExtractFeatures, TruncateMetadata,
         CompleteMetadata, SandboxReturns, WriteConsistency, WriteReport,
         CacheReport, CreateIncident, WriteFails, database
    <2> QED BY <2>3, <2>4, <2>5, <2>7
  <1>7. CASE status[s] = Purged
    BY <1>7, WorkFrame
  <1> QED BY <1>6, <1>7 DEF Closed, Undoes

(* A task that starts over a final one is alert_pipeline.                  *)
LEMMA StartUndoes ==
  ASSUME TypeInv, FlightInv, NEW s \in Scans, "crash" \notin hit[s],
         status[s] \in Terminal, status'[s] # status[s],
         NEW w \in Workers, NEW m \in Messages, Start(w, m)
  PROVE  Undoes(s)
  <1>a. /\ TypeOK /\ m.scan \in Scans /\ m.task \in Tasks /\ Waits(m)
        /\ Mark(m.scan, <<m.task, "running">>)
        /\ <<m.task, "running">> \in Statuses
    BY MessageFields, TaskStatus DEF Start, TypeInv, Waits, Phases
  <1>1. m.scan = s /\ status'[s] = <<m.task, "running">> /\ status[s] # Purged
    BY <1>a, MarkEffect
  <1>2. Queued(s, m)
    BY <1>1, <1>a, WaiterQueued DEF FlightInv
  <1>3. CASE status[s] \in Closed
    <2>1. status[s] = <<"risk_fusion", "done">> /\ m.task = "alert_pipeline"
      BY <1>2, <1>3 DEF Queued, Data
    <2> QED BY <1>1, <2>1 DEF Undoes
  <1> QED BY <1>1, <1>3 DEF Closed, Undoes

(* The request's own writes, and the retention job's.                      *)
LEMMA RequestUndoes ==
  ASSUME TypeInv, FlightInv, NEW s \in Scans, "crash" \notin hit[s],
         status[s] \in Terminal, status'[s] # status[s], NEW r \in Scans,
         Submit(r) \/ Request(r) \/ IntakeCrash(r) \/ ExpireCache(r) \/ Retention(r)
  PROVE  Undoes(s)
  <1> USE DEF TypeInv, TypeOK, database
  <1>1. CASE Submit(r) \/ Block(r)
    <2>1. intake[s] \in {"idle", "created"}
      BY <1>1 DEF Submit, Block
    <2>2. status[s] \in {Absent, Created, FailedTimeout}
      <3>1. \E t, p, o : Data(s, t, p, o)
        BY SomewhereData
      <3> QED BY <2>1, <3>1 DEF Data
    <2>3. Absent \notin Terminal /\ Created \notin Terminal
      BY DEF Absent, Created, Terminal, Blocked, FailedTimeout, Purged
    <2> QED BY <2>2, <2>3 DEF Undoes
  <1>2. CASE ConfirmRunning(r) \/ ConfirmDispatchFailed(r)
    <2>1. intake[s] \in {"sent", "send_failed"}
      BY <1>2 DEF ConfirmRunning, ConfirmDispatchFailed, Mark, SetStatus
    <2> QED BY <2>1 DEF Undoes
  <1>3. CASE PurgeRow(r)
    <2>1. status'[s] = Purged
      BY <1>3 DEF PurgeRow
    <2> QED BY <2>1 DEF Undoes
  <1>4. status' = status \/ Submit(r) \/ Block(r) \/ ConfirmRunning(r)
        \/ ConfirmDispatchFailed(r) \/ PurgeRow(r)
    BY DEF Request, StoreUpload, RejectUpload, Send, IntakeCrash, ExpireCache, Retention,
       SweepDirectory
  <1> QED BY <1>1, <1>2, <1>3, <1>4

(* As long as no process dies, only a writer with a stale copy of the row, *)
(* or a task that the reconciliation job gave up too early, overwrites a   *)
(* final status.                                                           *)
THEOREM StaleWritersCorrect == Spec => OnlyStaleWritersUndo
  <1> DEFINE Overwrite(s) == status[s] \in Terminal /\ status'[s] # status[s]
                             /\ "crash" \notin hit[s]
             A == \A s \in Scans : Overwrite(s) => Undoes(s)
  <1>1. ASSUME TypeInv, FlightInv, Next
        PROVE  A
    <2> SUFFICES ASSUME NEW s \in Scans, "crash" \notin hit[s],
                        status[s] \in Terminal, status'[s] # status[s]
                 PROVE  Undoes(s)
      OBVIOUS
    <2>1. \A r \in Scans : Submit(r) \/ Request(r) \/ IntakeCrash(r) \/ ExpireCache(r)
                           \/ Retention(r) => Undoes(s)
      BY <1>1, RequestUndoes
    <2>2. \A w \in Workers : Work(w) \/ WriteFails(w) => Undoes(s)
      BY <1>1, WorkUndoes
    <2>3. \A w \in Workers : Receive(w) => Undoes(s)
      BY <1>1, StartUndoes DEF Receive
    <2>4. ASSUME NEW w \in Workers PROVE WorkerCrash(w) => status' = status
      BY DEF WorkerCrash, database
    <2>5. ASSUME NEW m \in Messages PROVE LoseMessage(m) => status' = status
      BY DEF LoseMessage, database
    <2>6. FindStuck => status' = status
      BY DEF FindStuck, database
    <2>7. FailStuck => s \in stuck
      BY <1>1 DEF FailStuck, TypeInv, TypeOK
    <2>8. s \in stuck => Undoes(s)
      BY DEF Undoes
    <2> QED BY <1>1, <2>1, <2>2, <2>3, <2>4, <2>5, <2>6, <2>7, <2>8 DEF Next
  <1>2. TypeInv /\ FlightInv /\ [Next]_vars => [A]_vars
    BY <1>1
  <1>3. Spec => [][A]_vars
    BY <1>2, FlightCorrect, PTL DEF Spec
  <1>4. [A]_vars => [\A s \in Scans :
       status[s] \in Terminal /\ status'[s] # status[s] /\ "crash" \notin hit[s] =>
         \/ intake[s] \in {"sent", "send_failed"}
         \/ s \in stuck
         \/ status[s] = FailedTimeout
         \/ status'[s] = Purged
         \/ status[s] = <<"risk_fusion", "done">> /\ status'[s][1] = "alert_pipeline"
       ]_vars
    BY DEF Undoes
  <1> QED BY <1>3, <1>4, PTL DEF OnlyStaleWritersUndo
=============================================================================
