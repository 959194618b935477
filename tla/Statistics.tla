------------------------------ MODULE Statistics ------------------------------
(***************************************************************************)
(* The one row of the statistics table and the incidents it counts.  Two   *)
(* kinds of transaction write it: alert_pipeline inserts an incident and   *)
(* adds one to the row in place (tasks/alert_pipeline.py); file_cleanup    *)
(* deletes the scans that are past their retention, whose incidents go     *)
(* with them, counts the incidents and overwrites the row                  *)
(* (tasks/file_cleanup.py).  A scan without incidents is kept for two      *)
(* weeks, one with an incident for a year.                                 *)
(*                                                                         *)
(* PostgreSQL runs both at READ COMMITTED: each statement sees what is     *)
(* committed when it starts, and the changes of its own transaction.  The  *)
(* INSERT of an incident locks its scan until the alert commits; a DELETE  *)
(* waits for such a lock, and then deletes the scan all the same, since    *)
(* the row it has chosen has not changed.  An alert holds the lock of the  *)
(* statistics row from its upsert to its commit, so one action stands for  *)
(* both; so does a purge from its UPDATE on.                               *)
(***************************************************************************)
EXTENDS Naturals, FiniteSets

CONSTANTS
  Incidents,   \* scans that may raise an incident, and their incidents
  Severity,    \* the severity of each
  Purges,      \* workers that may be running file_cleanup
  MaxFaults    \* bound on the transactions that fail or whose worker dies

ASSUME ConstantsAssumption ==
  /\ IsFiniteSet(Incidents)
  /\ Severity \in [Incidents -> {"CRITICAL", "HIGH"}]
  /\ MaxFaults \in Nat

Columns == {"total_incidents", "critical_count", "high_count"}

Zero == [c \in Columns |-> 0]

VARIABLES
  scan,        \* how old each scan is, or that it is gone
  alert,       \* the transaction of its alert, and the incident it committed
  statistics,  \* the columns of row 1, all 0 while there is no row
  exists,      \* whether there is a row 1
  at,          \* the statement each purge executes next
  want,        \* the scans its DELETE has chosen and not yet come to
  doomed,      \* the scans it has deleted and not yet committed
  count,       \* what its COUNT statements returned
  loaded,      \* the columns its session loaded
  found,       \* whether its session found a row
  faults,      \* number of transactions that failed
  late,        \* the scans it had chosen when their alert was committed
  behind,      \* purges that began to count before somebody else committed
  raced        \* whether the last purge to commit was such a purge

table   == <<scan, alert, statistics, exists>>
session == <<at, want, doomed, count, loaded, found>>
ghost   == <<late, behind, raced>>
vars    == <<table, session, faults, ghost>>

-----------------------------------------------------------------------------
Counts(i, c) == \/ c = "total_incidents"
                \/ c = "critical_count" /\ Severity[i] = "CRITICAL"
                \/ c = "high_count" /\ Severity[i] = "HIGH"

(* SELECT COUNT of column c over the incidents S.                          *)
Count(S, c) == Cardinality({i \in S : Counts(i, c)})

Rows  == {i \in Incidents : alert[i] = "done"}
Scans == {i \in Incidents : scan[i] # "gone"}

Counting == {p \in Purges : at[p] \notin {"idle", "delete", "total_incidents"}}

-----------------------------------------------------------------------------
(* alert_pipeline's transaction.                                           *)

(* The incident.  Its foreign key locks the scan, or finds it deleted.     *)
Insert(i) ==
  /\ alert[i] = "none"
  /\ scan[i] # "gone" /\ \A p \in Purges : i \notin doomed[p]
  /\ alert' = [alert EXCEPT ![i] = "open"]
  /\ UNCHANGED <<scan, statistics, exists, session, faults, ghost>>

(* INSERT ... ON CONFLICT DO UPDATE of the row, and the commit.            *)
Raise(i) ==
  /\ alert[i] = "open"
  /\ alert' = [alert EXCEPT ![i] = "done"]
  /\ statistics' = [c \in Columns |-> statistics[c] + (IF Counts(i, c) THEN 1 ELSE 0)]
  /\ exists' = TRUE
  /\ late' = [p \in Purges |-> late[p] \cup ({i} \cap want[p])]
  /\ behind' = behind \cup Counting
  /\ UNCHANGED <<scan, session, faults, raced>>

(* The transaction fails; alert_pipeline tries again.                      *)
Abort(i) ==
  /\ alert[i] = "open"
  /\ faults < MaxFaults
  /\ faults' = faults + 1
  /\ alert' = [alert EXCEPT ![i] = "none"]
  /\ UNCHANGED <<scan, statistics, exists, session, ghost>>

(* The scan becomes older than retention_days, and incident_retention_days.*)
Age(i) ==
  /\ scan' = [scan EXCEPT ![i] = CASE @ = "young" -> "stale"
                                   [] @ = "stale" -> "old"
                                   [] OTHER -> @]
  /\ UNCHANGED <<alert, statistics, exists, session, faults, ghost>>

-----------------------------------------------------------------------------
(* file_cleanup, from its DELETE statements on.                            *)

Old   == {i \in Incidents : scan[i] = "old"}
Stale == {i \in Incidents : scan[i] = "stale"}

Choose(p, S) ==
  /\ at[p] = "idle"
  /\ want' = [want EXCEPT ![p] = S]
  /\ at' = [at EXCEPT ![p] = IF S = {} THEN "total_incidents" ELSE "delete"]
  /\ UNCHANGED <<table, doomed, count, loaded, found, faults, ghost>>

(* Mutant: the first DELETE does not ask for incidents.                    *)
HastySelect(p) == Choose(p, Old \cup Stale)

Select(p) == Choose(p, Old \cup (Stale \ Rows))

(* Nobody else's uncommitted change locks the scan.                        *)
Unlocked(p, i) == alert[i] # "open" /\ \A q \in Purges \ {p} : i \notin doomed[q]

(* A scan is deleted, or somebody else has done it.                        *)
Delete(p) ==
  /\ at[p] = "delete"
  /\ \E i \in want[p] :
       /\ Unlocked(p, i)
       /\ want' = [want EXCEPT ![p] = @ \ {i}]
       /\ doomed' = [doomed EXCEPT ![p] = @ \cup ({i} \cap Scans)]
       /\ at' = [at EXCEPT ![p] = IF want[p] = {i} THEN "total_incidents" ELSE "delete"]
  /\ UNCHANGED <<table, count, loaded, found, faults, ghost>>

(* Sweep p and sweep q wait for rows that the other has deleted:           *)
(* PostgreSQL aborts one, which logs the error, and the other gets the     *)
(* row.                                                                    *)
Deadlock(p) ==
  \E q \in Purges \ {p} : \E i \in want[q] \cap doomed[p] :
    /\ want[p] \cap doomed[q] # {}
    /\ want' = [want EXCEPT ![p] = {}, ![q] = @ \ {i}]
    /\ doomed' = [doomed EXCEPT ![p] = {}, ![q] = @ \cup {i}]
    /\ at' = [at EXCEPT ![p] = "idle",
                        ![q] = IF want[q] = {i} THEN "total_incidents" ELSE "delete"]
    /\ late' = [late EXCEPT ![p] = {}]
    /\ UNCHANGED <<table, count, loaded, found, faults, behind, raced>>

(* The statement that follows each COUNT.                                  *)
Following == [c \in Columns |->
               CASE c = "total_incidents" -> "critical_count"
                 [] c = "critical_count"  -> "high_count"
                 [] c = "high_count"      -> "load"]

(* Mutant: the counts do not see the deletions.                            *)
EarlyCountRows(p) ==
  \E c \in Columns :
    /\ at[p] = c
    /\ count' = [count EXCEPT ![p][c] = Count(Rows, c)]
    /\ at' = [at EXCEPT ![p] = Following[c]]
    /\ UNCHANGED <<table, want, doomed, loaded, found, faults, ghost>>

CountRows(p) ==
  \E c \in Columns :
    /\ at[p] = c
    /\ count' = [count EXCEPT ![p][c] = Count(Rows \ doomed[p], c)]
    /\ at' = [at EXCEPT ![p] = Following[c]]
    /\ UNCHANGED <<table, want, doomed, loaded, found, faults, ghost>>

Load(p) ==
  /\ at[p] = "load"
  /\ loaded' = [loaded EXCEPT ![p] = statistics]
  /\ found' = [found EXCEPT ![p] = exists]
  /\ at' = [at EXCEPT ![p] = "commit"]
  /\ UNCHANGED <<table, want, doomed, count, faults, ghost>>

(* The session of p ends.                                                  *)
End(p) == /\ at' = [at EXCEPT ![p] = "idle"]
          /\ want' = [want EXCEPT ![p] = {}]
          /\ doomed' = [doomed EXCEPT ![p] = {}]
          /\ count' = [count EXCEPT ![p] = Zero]
          /\ loaded' = [loaded EXCEPT ![p] = Zero]
          /\ found' = [found EXCEPT ![p] = FALSE]

Committed(p) ==
  /\ scan' = [i \in Incidents |-> IF i \in doomed[p] THEN "gone" ELSE scan[i]]
  /\ alert' = [i \in Incidents |-> IF i \in doomed[p] \cap Rows THEN "purged" ELSE alert[i]]
  /\ exists' = TRUE
  /\ behind' = (behind \cup Counting) \ {p}
  /\ raced' = (p \in behind)
  /\ late' = [late EXCEPT ![p] = {}]

(* Mutant: the row is left alone by a purge that deleted nothing.          *)
ThriftyUpdate(p) ==
  /\ at[p] = "commit"
  /\ found[p]
  /\ statistics' = IF doomed[p] = {} THEN statistics ELSE count[p]
  /\ Committed(p)
  /\ End(p)
  /\ UNCHANGED faults

(* The session writes the columns whose value differs from what it loaded. *)
Update(p) ==
  /\ at[p] = "commit"
  /\ found[p]
  /\ statistics' = [c \in Columns |-> IF count[p][c] = loaded[p][c]
                                      THEN statistics[c] ELSE count[p][c]]
  /\ Committed(p)
  /\ End(p)
  /\ UNCHANGED faults

Create(p) ==
  /\ at[p] = "commit"
  /\ ~found[p] /\ ~exists
  /\ statistics' = count[p]
  /\ Committed(p)
  /\ End(p)
  /\ UNCHANGED faults

RollBack(p) ==
  /\ End(p)
  /\ late' = [late EXCEPT ![p] = {}]
  /\ behind' = behind \ {p}
  /\ UNCHANGED <<table, raced>>

(* Somebody else inserted the row: a unique violation, which is logged.    *)
Conflict(p) ==
  /\ at[p] = "commit"
  /\ ~found[p] /\ exists
  /\ RollBack(p)
  /\ UNCHANGED faults

(* The database or the worker fails; the next sweep starts again.          *)
Fail(p) ==
  /\ at[p] # "idle"
  /\ faults < MaxFaults
  /\ faults' = faults + 1
  /\ RollBack(p)

-----------------------------------------------------------------------------
Init ==
  /\ scan = [i \in Incidents |-> "young"]
  /\ alert = [i \in Incidents |-> "none"]
  /\ statistics = Zero
  /\ exists = FALSE
  /\ at = [p \in Purges |-> "idle"]
  /\ want = [p \in Purges |-> {}]
  /\ doomed = [p \in Purges |-> {}]
  /\ count = [p \in Purges |-> Zero]
  /\ loaded = [p \in Purges |-> Zero]
  /\ found = [p \in Purges |-> FALSE]
  /\ faults = 0
  /\ late = [p \in Purges |-> {}]
  /\ behind = {}
  /\ raced = FALSE

Purge(p) == \/ Select(p) \/ Delete(p) \/ Deadlock(p) \/ CountRows(p) \/ Load(p)
            \/ Update(p) \/ Create(p) \/ Conflict(p)

Next == \/ \E i \in Incidents : Insert(i) \/ Raise(i) \/ Abort(i) \/ Age(i)
        \/ \E p \in Purges : Purge(p) \/ Fail(p)

Spec == Init /\ [][Next]_vars

(* Celery beat starts a sweep every hour, and an alert's transaction is    *)
(* not left open.                                                          *)
FairSpec == /\ Spec
            /\ \A p \in Purges : WF_vars(Purge(p))
            /\ \A i \in Incidents : WF_vars(Raise(i))

-----------------------------------------------------------------------------
(* Properties.                                                             *)

(* Every variable has its type; what a sweep has deleted is still there    *)
(* for the others until it commits, no two sweeps delete the same row, and *)
(* none deletes the scan of an alert that has not committed.               *)
TypeOK ==
  /\ scan \in [Incidents -> {"young", "stale", "old", "gone"}]
  /\ alert \in [Incidents -> {"none", "open", "done", "purged"}]
  /\ \A i \in Incidents : scan[i] = "gone" => alert[i] \in {"none", "purged"}
  /\ statistics \in [Columns -> Nat]
  /\ exists \in BOOLEAN
  /\ exists \/ (statistics = Zero /\ Rows = {})
  /\ at \in [Purges -> Columns \cup {"idle", "delete", "load", "commit"}]
  /\ want \in [Purges -> SUBSET Incidents]
  /\ doomed \in [Purges -> SUBSET {i \in Scans : alert[i] # "open"}]
  /\ \A p, q \in Purges : p # q => doomed[p] \cap doomed[q] = {}
  /\ count \in [Purges -> [Columns -> Nat]]
  /\ loaded \in [Purges -> [Columns -> Nat]]
  /\ found \in [Purges -> BOOLEAN]
  /\ faults \in Nat
  /\ late \in [Purges -> SUBSET Incidents]
  /\ behind \in SUBSET Purges
  /\ raced \in BOOLEAN

InSync == \A c \in Columns : statistics[c] = Count(Rows, c)

(* The row is wrong only after a purge that overwrote it with what it had  *)
(* counted before another transaction committed: neither an alert nor a    *)
(* purge by itself makes it drift, and one undisturbed purge repairs it.   *)
DriftNeedsARace == ~raced => InSync

(* Neither a counter of the row nor one that a sweep has counted exceeds   *)
(* the number of incidents ever raised, those purged since included,       *)
(* whatever the interleaving.  Either may exceed the incidents there are   *)
(* by those that another sweep has purged since the count.                 *)
NeverOvercounts ==
  LET raised == {i \in Incidents : alert[i] \in {"done", "purged"}}
  IN  \A c \in Columns : /\ statistics[c] <= Count(raised, c)
                         /\ \A p \in Purges : count[p][c] <= Count(raised, c)

(* An incident goes with a scan that is not yet old only when its alert    *)
(* was committed after the sweep had chosen that scan: the choice is not   *)
(* looked at again.                                                        *)
KeptUnlessRaced ==
  \A p \in Purges : \A i \in doomed[p] \cap Rows : scan[i] = "old" \/ i \in late[p]

(* Once incidents stop being raised and scans stop ageing, the sweeps      *)
(* bring the row back to the truth for good.                               *)
Resynchronised == <>[]InSync
=============================================================================
