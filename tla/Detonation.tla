----------------------------- MODULE Detonation -----------------------------
(***************************************************************************)
(* The detonation of one scan, from the message to the hand-over: the      *)
(* worker (tasks/sandbox_analysis.py), the service it calls (SandboxRunner)*)
(* and the scanner in the container                                        *)
(* (sandbox/backend/phishing_sandbox_scan.py, main), which leaves its      *)
(* result in the scan's directory.  Every run of a scan uses the same file *)
(* names, and a container may outlive the call that asked for it.          *)
(*                                                                         *)
(* Statuses, and what may go wrong with the database, the queue of the     *)
(* next task and the retention job, are in ScanPipeline; requests for      *)
(* other scans, which may make the service refuse this one, in             *)
(* SandboxRunner.                                                          *)
(***************************************************************************)
EXTENDS SandboxRunner, Sequences

CONSTANTS
  Workers,      \* the worker processes
  NoRequest,    \* stands for no request
  Fallback,     \* the metadata of a scan whose sandbox failed
  RetryLimit,   \* max_retries of the task
  FaultKinds,   \* the kinds of fault that may happen
  MaxFaults     \* bound on the number of faults of a behaviour

(* "crash": a worker dies.  "rpc": the service cannot be reached, or the   *)
(* socket times out.                                                       *)
AllFaults == {"crash", "rpc"}

ASSUME DetonationAssumption ==
  /\ NoRequest \notin Requests /\ Fallback \notin Requests \cup {NoRequest}
  /\ RetryLimit \in Nat
  /\ FaultKinds \subseteq AllFaults
  /\ MaxFaults \in Nat

VARIABLES
  queue,      \* number of messages for the task, by the retries they count
  job,        \* what each worker does
  tried,      \* the requests made for this scan
  progress,   \* how far the scanner of each of them is
  home,       \* scan_<id>_home.png: the request whose run wrote it
  saves,      \* what was saved as scan_<id>.json, the last save being the file
  metadata,   \* sandbox_metadata.json: the request it is of, or Fallback
  png,        \* sandbox.png: the request whose run it is of
  telemetry,  \* the rows in PostgreSQL: the run of each batch committed
  handed,     \* whether the consistency task has been queued
  marked,     \* whether the scan's id has "504" in it
  faults      \* number of faults so far

scanner  == <<progress, home, saves>>
evidence == <<metadata, png, telemetry, handed>>
task     == <<queue, job, tried>>
allvars  == <<vars, scanner, evidence, task, marked, faults>>

Steps == {"idle", "call", "wait", "read", "publish", "ingest", "place",
          "fallback", "handover", "retry", "ack"}
Looks == {"shot", "blind", "refused"}       \* what a run came to
Idle  == [at |-> "idle", retries |-> 0, request |-> NoRequest, loaded |-> 0]

Up   == {r \in tried : container[r] = "up"}

DetonationInit ==
  /\ Init
  /\ queue = [n \in 0 .. RetryLimit |-> IF n = 0 THEN 1 ELSE 0]
  /\ job = [w \in Workers |-> Idle]
  /\ tried = {}
  /\ progress = [r \in Requests |-> "none"]
  /\ home = NoRequest /\ saves = <<>>
  /\ metadata = NoRequest /\ png = NoRequest /\ telemetry = <<>> /\ handed = FALSE
  /\ marked \in BOOLEAN
  /\ faults = 0

-----------------------------------------------------------------------------
(* The worker.                                                             *)

AtStep(w, step)   == job[w].at = step /\ UNCHANGED marked
Goto(w, step) == job' = [job EXCEPT ![w].at = step]
Fault(k)      == k \in FaultKinds /\ faults < MaxFaults /\ faults' = faults + 1

(* Mutant: a result that is there already is not asked for again.          *)
ThriftyStart(w) ==
  /\ AtStep(w, "idle")
  /\ \E n \in 0 .. RetryLimit :
       /\ queue[n] > 0
       /\ queue' = [queue EXCEPT ![n] = @ - 1]
       /\ job' = [job EXCEPT ![w] = [Idle EXCEPT !.at = IF saves = <<>> THEN "call" ELSE "read",
                                                 !.retries = n]]
  /\ UNCHANGED <<vars, scanner, evidence, tried, faults>>

Start(w) ==
  /\ AtStep(w, "idle")
  /\ \E n \in 0 .. RetryLimit :
       /\ queue[n] > 0
       /\ queue' = [queue EXCEPT ![n] = @ - 1]
       /\ job' = [job EXCEPT ![w] = [Idle EXCEPT !.at = "call", !.retries = n]]
  /\ UNCHANGED <<vars, scanner, evidence, tried, faults>>

Call(w) ==
  /\ AtStep(w, "call")
  /\ Requests \ tried # {}
  /\ LET r == CHOOSE fresh \in Requests \ tried : TRUE
     IN  /\ Arrive(r)
         /\ tried' = tried \cup {r}
         /\ job' = [job EXCEPT ![w].at = "wait", ![w].request = r]
  /\ UNCHANGED <<scanner, evidence, queue, faults>>

(* Whether the task tries again is decided by the exception's text.        *)
Fail(w, timedOut) ==
  Goto(w, IF ~timedOut /\ job[w].retries < RetryLimit THEN "retry" ELSE "fallback")

(* Mutant: any refusal is final.                                           *)
HastyHear(w) ==
  /\ AtStep(w, "wait")
  /\ LET code == answer[job[w].request]
     IN  /\ code # 0
         /\ IF code = 200 THEN Goto(w, "read") ELSE Fail(w, TRUE)
  /\ UNCHANGED <<vars, scanner, evidence, queue, tried, faults>>

(* The answer.  The text has the HTTP status and the scan's id in it, and  *)
(* for a 500 what the scanner wrote to stderr, which may say "timeout".    *)
Hear(w) ==
  /\ AtStep(w, "wait")
  /\ LET code == answer[job[w].request]
     IN  \/ code = 200 /\ Goto(w, "read")
         \/ code \notin {0, 200} /\ Fail(w, code = 504 \/ marked)
         \/ code = 500 /\ Fail(w, TRUE)
  /\ UNCHANGED <<vars, scanner, evidence, queue, tried, faults>>

(* "timed out" is not "timeout".                                           *)
LoseCall(w) ==
  /\ AtStep(w, "call") \/ AtStep(w, "wait")
  /\ Fault("rpc") /\ Fail(w, marked)
  /\ UNCHANGED <<vars, scanner, evidence, queue, tried>>

(* _find_result_by_request_id.  A refusal is an error whose text has no id *)
(* in it.                                                                  *)
Read(w) ==
  /\ AtStep(w, "read")
  /\ IF saves[Len(saves)].look = "refused"
     THEN Fail(w, FALSE)
     ELSE job' = [job EXCEPT ![w].at = "publish", ![w].loaded = Len(saves)]
  /\ UNCHANGED <<vars, scanner, evidence, queue, tried, faults>>

Result(w) == saves[job[w].loaded]

(* os.replace of sandbox_metadata.json.                                    *)
Publish(w) ==
  /\ AtStep(w, "publish")
  /\ metadata' = Result(w).run /\ Goto(w, "ingest")
  /\ UNCHANGED <<vars, scanner, png, telemetry, handed, queue, tried, faults>>

(* _save_telemetry_to_postgres: one transaction, which inserts the rows    *)
(* whatever is there already.  A value that a column does not take undoes  *)
(* it, and the error is logged.                                            *)
Ingest(w) ==
  /\ AtStep(w, "ingest") /\ Goto(w, "place")
  /\ telemetry' \in {telemetry, Append(telemetry, Result(w).run)}
  /\ UNCHANGED <<vars, scanner, metadata, png, handed, queue, tried, faults>>

(* os.replace of the screenshot, if the file is there.                     *)
PlaceIf(w, wanted) ==
  /\ AtStep(w, "place") /\ Goto(w, "handover")
  /\ IF wanted /\ home # NoRequest
     THEN png' = home /\ home' = NoRequest
     ELSE UNCHANGED <<png, home>>
  /\ UNCHANGED <<vars, progress, saves, metadata, telemetry, handed, queue, tried, faults>>

(* Mutant: whatever screenshot lies there is taken.                        *)
PlaceAny(w) == PlaceIf(w, TRUE)

(* A result without a screenshot leaves the old one in its place.          *)
Place(w) == PlaceIf(w, Result(w).look = "shot")

WriteFallback(w) ==
  /\ AtStep(w, "fallback")
  /\ metadata' = Fallback /\ Goto(w, "handover")
  /\ UNCHANGED <<vars, scanner, png, telemetry, handed, queue, tried, faults>>

HandOver(w) ==
  /\ AtStep(w, "handover")
  /\ handed' = TRUE /\ Goto(w, "ack")
  /\ UNCHANGED <<vars, scanner, metadata, png, telemetry, queue, tried, faults>>

(* self.retry publishes the next attempt before this one is acknowledged.  *)
Retry(w) ==
  /\ AtStep(w, "retry")
  /\ queue' = [queue EXCEPT ![job[w].retries + 1] = @ + 1] /\ Goto(w, "ack")
  /\ UNCHANGED <<vars, scanner, evidence, tried, faults>>

Ack(w) ==
  /\ AtStep(w, "ack")
  /\ job' = [job EXCEPT ![w] = Idle]
  /\ UNCHANGED <<vars, scanner, evidence, queue, tried, faults>>

(* acks_late: the message is delivered again.  The service and its         *)
(* container know nothing of it.                                           *)
Crash(w) ==
  /\ job[w].at # "idle" /\ Fault("crash")
  /\ queue' = [queue EXCEPT ![job[w].retries] = @ + 1]
  /\ job' = [job EXCEPT ![w] = Idle]
  /\ UNCHANGED <<vars, scanner, evidence, tried, marked>>

Work(w) == \/ Hear(w) \/ Read(w) \/ Publish(w) \/ Ingest(w) \/ Place(w) \/ WriteFallback(w)
           \/ HandOver(w) \/ Retry(w) \/ Ack(w)

-----------------------------------------------------------------------------
(* The scanner, in the container.                                          *)

Scans(r, step) ==
  /\ r \in Up /\ progress[r] = step
  /\ UNCHANGED <<vars, evidence, task, marked, faults>>

(* shutil.move of the screenshot, over that of another run.  A run may     *)
(* have none, and a target that is not allowed is refused.                 *)
Shoot(r) ==
  /\ Scans(r, "none")
  /\ \E look \in Looks :
       /\ progress' = [progress EXCEPT ![r] = look]
       /\ home' = IF look = "shot" THEN r ELSE home
  /\ UNCHANGED saves

(* _atomic_write_json.                                                     *)
Save(r) ==
  /\ \E look \in Looks :
       /\ Scans(r, look)
       /\ saves' = Append(saves, [run |-> r, look |-> look])
  /\ progress' = [progress EXCEPT ![r] = "saved"]
  /\ UNCHANGED home

-----------------------------------------------------------------------------
(* The service and the daemon.  The scanner exits with 0 only when it has  *)
(* saved its result.                                                       *)

Undisturbed == UNCHANGED <<scanner, evidence, task, marked, faults>>

Provide(r) ==
  /\ Serve(r)
  /\ answer'[r] = 200 => progress[r] = "saved"
  /\ Undisturbed

Docker(r) == (ContainerStarts(r) \/ ContainerEnds(r) \/ CliEnds(r)) /\ Undisturbed

DetonationNext ==
  \/ \E w \in Workers : Start(w) \/ Call(w) \/ LoseCall(w) \/ Work(w) \/ Crash(w)
  \/ \E r \in Requests : Shoot(r) \/ Save(r) \/ Provide(r) \/ Docker(r)

DetonationSpec == DetonationInit /\ [][DetonationNext]_allvars

(* A worker takes messages and runs its task, and the service answers      *)
(* (SandboxRunner).  A container need never end.                           *)
FairDetonation ==
  /\ DetonationSpec
  /\ \A w \in Workers : WF_allvars(Start(w)) /\ WF_allvars(Call(w)) /\ WF_allvars(Work(w))
  /\ \A r \in Requests : WF_allvars(Provide(r))

-----------------------------------------------------------------------------
(* The values of the variables; a worker that waits has asked, and one     *)
(* that publishes has read.                                                *)
DetonationTypeOK ==
  /\ queue \in [0 .. RetryLimit -> Nat]
  /\ job \in [Workers -> [at : Steps, retries : 0 .. RetryLimit,
                          request : tried \cup {NoRequest}, loaded : 0 .. Len(saves)]]
  /\ tried \subseteq Requests
  /\ progress \in [Requests -> Looks \cup {"none", "saved"}]
  /\ home \in tried \cup {NoRequest}
  /\ saves \in Seq([run : Requests, look : Looks])
  /\ metadata \in Requests \cup {NoRequest, Fallback}
  /\ png \in tried \cup {NoRequest}
  /\ telemetry \in Seq(Requests)
  /\ handed \in BOOLEAN /\ marked \in BOOLEAN
  /\ faults \in Nat
  /\ \A w \in Workers :
       /\ job[w].at = "wait" => job[w].request \in tried
       /\ job[w].at \in {"publish", "ingest", "place"} => job[w].loaded # 0

(* Without a fault, what the consistency task and the dashboard get is of  *)
(* one run: the screenshot and the rows of telemetry are of the run the    *)
(* metadata is of, once, or there are none.  A late container and a failed *)
(* attempt leave nothing behind in the evidence, and each fault repeats    *)
(* the rows once at most.                                                  *)
EvidenceOfOneRun ==
  /\ handed /\ faults = 0 => /\ png \in {metadata, NoRequest}
                            /\ telemetry \in {<<>>, <<metadata>>}
  /\ Len(telemetry) <= 1 + faults

(* Whatever fails, the result a worker reads was saved by the run it asked *)
(* for, or after it: never one that an earlier delivery left behind.       *)
FreshResult ==
  \A w \in Workers : job[w].at = "publish" =>
    \E n \in 1 .. job[w].loaded : saves[n].run = job[w].request

(* What the worker and the scanner do, the service sees a request.         *)
KeepsTheRunner == Spec

(* A scan is handed over in the end, whatever became of its containers.    *)
HandedOver == <>handed

(* The fallback is written for a "Timeout or max retries exhausted"        *)
(* (tasks/sandbox_analysis.py:281).  A scan that is turned away because    *)
(* the service is full, with retries left, gets it only if its id happens  *)
(* to have "504" in it, which makes every failure look like a time-out.    *)
FallbackIsJustified ==
  \A w \in Workers : job[w].at = "fallback" =>
    \/ job[w].retries = RetryLimit
    \/ marked
    \/ \A r \in tried : r = job[w].request => answer[r] # 429
=============================================================================
