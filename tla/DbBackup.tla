------------------------------ MODULE DbBackup ------------------------------
(***************************************************************************)
(* One daily backup of the database (tasks/db_backup.py): dump, encryption,*)
(* pruning, and the retries of a run that fails.  A dump is named after the*)
(* second its run starts in, so runs that start together write to the same *)
(* files.                                                                  *)
(*                                                                         *)
(* A failed encryption retries twice: self.retry raises, and the outer     *)
(* `except Exception` catches that and retries again.  The two messages    *)
(* are due at the same time, and two worker processes take them.           *)
(*                                                                         *)
(* The next attempt is a minute away, far longer than a start takes to     *)
(* start, so only runs of the same attempt can start in the same second.   *)
(***************************************************************************)
EXTENDS Integers, FiniteSets

CONSTANTS
  Workers,      \* the worker processes
  MaxRetries,   \* max_retries of the task
  LastSecond,   \* bound on the seconds in which the runs of an attempt start
  FaultKinds,   \* the kinds of fault that may happen
  MaxFaults     \* bound on the number of faults of a behaviour

(* "dump": pg_dump fails.  "slow": it is killed after five minutes.        *)
(* "openssl": the encryption fails.  "pgpass": the password file cannot be *)
(* written.  "crash": the worker dies.                                     *)
AllFaults == {"dump", "slow", "openssl", "pgpass", "crash"}

ASSUME BackupAssumption ==
  /\ MaxRetries \in Nat /\ LastSecond \in Nat /\ MaxFaults \in Nat
  /\ FaultKinds \subseteq AllFaults

VARIABLES
  encrypt,    \* whether BACKUP_ENCRYPTION_KEY is set
  queue,      \* number of messages for the task, by attempt
  second,     \* the second it is when runs of an attempt start
  job,        \* what each worker does
  dump,       \* aegis_db_<time>.dump, by name
  enc,        \* aegis_db_<time>.dump.enc, by name
  earlier,    \* whether the expired backup of an earlier day is still there
  reported,   \* the names of the backups that were reported as a success
  runs,       \* number of runs that used a name
  broken,     \* names of runs that crashed or were killed half-way
  faults      \* number of faults so far

files   == <<dump, enc, earlier, reported>>
history == <<runs, broken>>
vars    == <<encrypt, queue, second, job, files, history, faults>>

Attempts == 0 .. MaxRetries
Names    == Attempts \X (0 .. LastSecond)
Contents == {"none", "partial", "whole"}
Steps    == {"idle", "open", "dumping", "size", "encrypt", "encrypting", "swap",
             "unlink", "sizeEnc", "discard", "discardEnc", "again", "againOuter",
             "prune", "report", "ack"}

(* intact: what the run writes is at its path, and nobody interferes.      *)
Idle == [at |-> "idle", name |-> <<0, 0>>, intact |-> FALSE]

Name(w)        == job[w].name
Attempt(w)     == Name(w)[1]
Twins(w, steps) == {v \in Workers \ {w} : job[v].at \in steps /\ Name(v) = Name(w)}

Init ==
  /\ encrypt \in BOOLEAN
  /\ queue = [a \in Attempts |-> IF a = 0 THEN 1 ELSE 0]
  /\ second = [a \in Attempts |-> 0]
  /\ job = [w \in Workers |-> Idle]
  /\ dump = [n \in Names |-> "none"] /\ enc = [n \in Names |-> "none"]
  /\ earlier = TRUE /\ reported = {}
  /\ runs = [n \in Names |-> 0] /\ broken = {}
  /\ faults = 0

-----------------------------------------------------------------------------
AtStep(w, step) == job[w].at = step /\ UNCHANGED <<encrypt, second, runs>>
Fault(k)        == k \in FaultKinds /\ faults < MaxFaults /\ faults' = faults + 1

Goto(w, step) == job' = [job EXCEPT ![w].at = step]

(* w goes on, and disturbs the runs vs that use its files.                 *)
Move(w, step, ok, vs) ==
  job' = [v \in Workers |->
            IF v = w THEN [job[w] EXCEPT !.at = step, !.intact = ok]
            ELSE [job[v] EXCEPT !.intact = @ /\ v \notin vs]]

Tick(a) ==
  /\ second[a] < LastSecond
  /\ second' = [second EXCEPT ![a] = @ + 1]
  /\ UNCHANGED <<encrypt, queue, job, files, history, faults>>

Start(w) ==
  /\ job[w].at = "idle"
  /\ \E a \in Attempts :
       /\ queue[a] > 0
       /\ queue' = [queue EXCEPT ![a] = @ - 1]
       /\ job' = [job EXCEPT ![w] = [Idle EXCEPT !.at = "open", !.name = <<a, second[a]>>]]
       /\ runs' = [runs EXCEPT ![<<a, second[a]>>] = @ + 1]
  /\ UNCHANGED <<encrypt, second, files, broken, faults>>

(* A RuntimeError before the try statement is not retried.                 *)
PgpassFails(w) ==
  /\ AtStep(w, "open") /\ Fault("pgpass") /\ Goto(w, "ack")
  /\ UNCHANGED <<queue, files, broken>>

(* pg_dump -f truncates a file that is there already.                      *)
OpenDump(w) ==
  /\ AtStep(w, "open")
  /\ dump' = [dump EXCEPT ![Name(w)] = "partial"]
  /\ LET writers == Twins(w, {"dumping"})
     IN  Move(w, "dumping", writers = {} \/ dump[Name(w)] = "none",
              Twins(w, {"dumping", "encrypting"}))
  /\ UNCHANGED <<queue, enc, earlier, reported, broken, faults>>

DumpEnds(w) ==
  /\ AtStep(w, "dumping") /\ Goto(w, "size")
  /\ dump' = IF job[w].intact THEN [dump EXCEPT ![Name(w)] = "whole"] ELSE dump
  /\ UNCHANGED <<queue, enc, earlier, reported, broken, faults>>

(* except CalledProcessError.                                              *)
DumpFails(w) ==
  /\ AtStep(w, "open") \/ AtStep(w, "dumping")
  /\ Fault("dump")
  /\ dump' = [dump EXCEPT ![Name(w)] = "none"]
  /\ Move(w, "againOuter", FALSE, Twins(w, {"dumping"}))
  /\ UNCHANGED <<queue, enc, earlier, reported, broken>>

(* TimeoutExpired: the partial dump stays.                                 *)
DumpTimesOut(w) ==
  /\ AtStep(w, "dumping") /\ Fault("slow") /\ Goto(w, "againOuter")
  /\ broken' = broken \cup {Name(w)}
  /\ UNCHANGED <<queue, files>>

(* getsize raises if the file is gone.                                     *)
SizeDump(w) ==
  /\ AtStep(w, "size")
  /\ Goto(w, IF dump[Name(w)] = "none" THEN "againOuter"
             ELSE IF encrypt THEN "encrypt" ELSE "prune")
  /\ UNCHANGED <<queue, files, broken, faults>>

(* openssl opens the dump, then truncates its output.                      *)
OpenEnc(w) ==
  /\ AtStep(w, "encrypt")
  /\ \/ /\ dump[Name(w)] = "none"
        /\ Goto(w, "discard")
        /\ UNCHANGED enc
     \/ /\ dump[Name(w)] # "none"
        /\ enc' = [enc EXCEPT ![Name(w)] = "partial"]
        /\ Move(w, "encrypting",
                /\ dump[Name(w)] = "whole"
                /\ Twins(w, {"encrypting"}) = {} \/ enc[Name(w)] = "none",
                Twins(w, {"encrypting"}))
  /\ UNCHANGED <<queue, dump, earlier, reported, broken, faults>>

EncEnds(w) ==
  /\ AtStep(w, "encrypting") /\ Goto(w, "swap")
  /\ enc' = IF job[w].intact THEN [enc EXCEPT ![Name(w)] = "whole"] ELSE enc
  /\ UNCHANGED <<queue, dump, earlier, reported, broken, faults>>

(* Mutant: the exit code of openssl is not looked at.                      *)
SilentEncFails(w) ==
  /\ AtStep(w, "encrypt") \/ AtStep(w, "encrypting")
  /\ Fault("openssl") /\ Goto(w, "swap")
  /\ UNCHANGED <<queue, files, broken>>

EncFails(w) ==
  /\ AtStep(w, "encrypt") \/ AtStep(w, "encrypting")
  /\ Fault("openssl") /\ Goto(w, "discard")
  /\ UNCHANGED <<queue, files, broken>>

(* if os.path.exists(dump_path): os.remove(dump_path), and getsize.        *)
Swap(w) ==
  /\ AtStep(w, "swap")
  /\ Goto(w, IF dump[Name(w)] = "none" THEN "sizeEnc" ELSE "unlink")
  /\ UNCHANGED <<queue, files, broken, faults>>

Unlink(w) ==
  /\ AtStep(w, "unlink")
  /\ IF dump[Name(w)] = "none"
     THEN Goto(w, "discard") /\ UNCHANGED dump
     ELSE /\ dump' = [dump EXCEPT ![Name(w)] = "none"]
          /\ Move(w, "sizeEnc", FALSE, Twins(w, {"dumping"}))
  /\ UNCHANGED <<queue, enc, earlier, reported, broken, faults>>

(* Mutant: waits for the encrypted file to appear.                         *)
PatientSizeEnc(w) ==
  /\ AtStep(w, "sizeEnc") /\ enc[Name(w)] # "none" /\ Goto(w, "prune")
  /\ UNCHANGED <<queue, files, broken, faults>>

SizeEnc(w) ==
  /\ AtStep(w, "sizeEnc")
  /\ Goto(w, IF enc[Name(w)] = "none" THEN "discard" ELSE "prune")
  /\ UNCHANGED <<queue, files, broken, faults>>

(* except Exception as enc_exc.                                            *)
Discard(w) ==
  /\ AtStep(w, "discard")
  /\ dump' = [dump EXCEPT ![Name(w)] = "none"]
  /\ Move(w, "discardEnc", FALSE, Twins(w, {"dumping"}))
  /\ UNCHANGED <<queue, enc, earlier, reported, broken, faults>>

(* Mutant: the encrypted file is left where it is.                         *)
UntidyDiscardEnc(w) ==
  /\ AtStep(w, "discardEnc") /\ Goto(w, "again")
  /\ UNCHANGED <<queue, files, broken, faults>>

DiscardEnc(w) ==
  /\ AtStep(w, "discardEnc")
  /\ enc' = [enc EXCEPT ![Name(w)] = "none"]
  /\ Move(w, "again", FALSE, Twins(w, {"encrypting"}))
  /\ UNCHANGED <<queue, dump, earlier, reported, broken, faults>>

(* self.retry publishes the next attempt if there is one, and raises.      *)
Publish(w) ==
  queue' = IF Attempt(w) < MaxRetries
           THEN [queue EXCEPT ![Attempt(w) + 1] = @ + 1]
           ELSE queue

(* What it raises is an Exception, for the clause around it.               *)
Again(w) ==
  /\ AtStep(w, "again") /\ Publish(w) /\ Goto(w, "againOuter")
  /\ UNCHANGED <<files, broken, faults>>

(* Mutant: a run that has failed prunes all the same.                      *)
PruningAgainOuter(w) ==
  /\ AtStep(w, "againOuter") /\ Publish(w) /\ Goto(w, "prune")
  /\ UNCHANGED <<files, broken, faults>>

AgainOuter(w) ==
  /\ AtStep(w, "againOuter") /\ Publish(w) /\ Goto(w, "ack")
  /\ UNCHANGED <<files, broken, faults>>

Prune(w) ==
  /\ AtStep(w, "prune") /\ Goto(w, "report")
  /\ earlier' = FALSE
  /\ UNCHANGED <<queue, dump, enc, reported, broken, faults>>

Kept(n) == IF encrypt THEN enc[n] ELSE dump[n]

(* A getsize that raises here is not retried.                              *)
Report(w) ==
  /\ AtStep(w, "report") /\ Goto(w, "ack")
  /\ reported' = IF Kept(Name(w)) = "none" THEN reported ELSE reported \cup {Name(w)}
  /\ UNCHANGED <<queue, dump, enc, earlier, broken, faults>>

Ack(w) ==
  /\ AtStep(w, "ack")
  /\ job' = [job EXCEPT ![w] = Idle]
  /\ UNCHANGED <<queue, files, broken, faults>>

(* acks_late: the message is delivered again.                              *)
Crash(w) ==
  /\ job[w].at # "idle" /\ Fault("crash")
  /\ job' = [job EXCEPT ![w] = Idle]
  /\ queue' = [queue EXCEPT ![Attempt(w)] = @ + 1]
  /\ broken' = broken \cup {Name(w)}
  /\ UNCHANGED <<encrypt, second, files, runs>>

Encrypt(w) == OpenEnc(w) \/ EncEnds(w) \/ Swap(w) \/ Unlink(w) \/ SizeEnc(w)
                \/ Discard(w) \/ DiscardEnc(w)

Work(w) == \/ Start(w) \/ OpenDump(w) \/ DumpEnds(w) \/ SizeDump(w) \/ Encrypt(w)
           \/ Again(w) \/ AgainOuter(w) \/ Prune(w) \/ Report(w) \/ Ack(w)

Breaks(w) == \/ PgpassFails(w) \/ DumpFails(w) \/ DumpTimesOut(w) \/ EncFails(w) \/ Crash(w)

Next == \/ \E a \in Attempts : Tick(a)
        \/ \E w \in Workers : Work(w) \/ Breaks(w)

Spec == Init /\ [][Next]_vars

(* A worker takes messages and goes on with its run; pg_dump and openssl   *)
(* have a time limit.                                                      *)
FairSpec == Spec /\ \A w \in Workers : WF_vars(Work(w))

-----------------------------------------------------------------------------
(* The values of the variables; without a key nothing is encrypted, and a  *)
(* run that works on a name has been counted.                              *)
TypeOK ==
  /\ encrypt \in BOOLEAN
  /\ queue \in [Attempts -> Nat]
  /\ second \in [Attempts -> 0 .. LastSecond]
  /\ job \in [Workers -> [at : Steps, name : Names, intact : BOOLEAN]]
  /\ dump \in [Names -> Contents] /\ enc \in [Names -> Contents]
  /\ earlier \in BOOLEAN /\ reported \subseteq Names
  /\ runs \in [Names -> Nat] /\ broken \subseteq Names
  /\ faults \in Nat
  /\ encrypt \/ \A n \in Names : enc[n] = "none"
  /\ \A w \in Workers : job[w].at # "idle" => runs[Name(w)] > 0

AtWork(n) == \E w \in Workers : job[w].at # "idle" /\ Name(w) = n

(* A backup that was reported is there, and whole: nothing a failing run   *)
(* or a retry does harms it, unless that run started in the same second.   *)
ReportedStays == \A n \in reported : Kept(n) = "whole" \/ runs[n] > 1

(* The backup of the earlier day is not given up for nothing: when it has  *)
(* been pruned there is a whole one of today, or two runs shared a name.   *)
NeverWithoutBackup ==
  ~earlier => \E n \in Names : Kept(n) = "whole" \/ runs[n] > 1

(* At rest the directory has what was reported and nothing else, no plain  *)
(* dump beside an encrypted one above all, but for the names of runs that  *)
(* crashed, were killed, or shared theirs.                                 *)
NothingLeftBehind ==
  \A n \in Names : ~AtWork(n) /\ runs[n] < 2 /\ n \notin broken =>
    /\ Kept(n) = IF n \in reported THEN "whole" ELSE "none"
    /\ encrypt => dump[n] = "none"

(* The retries come to an end, though some are made twice.                 *)
Drains == <>[](\A w \in Workers : job[w].at = "idle" /\ \A a \in Attempts : queue[a] = 0)
=============================================================================
