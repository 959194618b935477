--------------------------- MODULE StatisticsProofs ---------------------------
(***************************************************************************)
(* Theorems about Statistics, for any incidents, sweeps and faults.        *)
(***************************************************************************)
EXTENDS Statistics, FiniteSetTheorems, TLAPS

USE ConstantsAssumption DEF table, session, ghost

(* The columns a sweep has counted when it is at a given statement.        *)
Counted == [s \in Columns \cup {"idle", "delete", "load", "commit"} |->
             CASE s \in {"idle", "delete", "total_incidents"} -> {}
               [] s = "critical_count"              -> {"total_incidents"}
               [] s = "high_count"                  -> Columns \ {"high_count"}
               [] s \in {"load", "commit"}          -> Columns]

(* Only the DELETE statements have scans to come to.                       *)
Wanting == \A p \in Purges : want[p] # {} => at[p] = "delete"

(* What a sweep nobody has overtaken knows is still true.                  *)
CountsAreFresh ==
  \A p \in Purges \ behind : \A c \in Counted[at[p]] :
    count[p][c] = Count(Rows \ doomed[p], c)

LoadIsFresh ==
  \A p \in Purges \ behind : at[p] = "commit" =>
    loaded[p] = statistics /\ found[p] = exists

StatisticsInv ==
  /\ TypeOK
  /\ behind \subseteq Counting
  /\ CountsAreFresh
  /\ LoadIsFresh
  /\ DriftNeedsARace

-----------------------------------------------------------------------------
(* Counting.                                                               *)

LEMMA CountType == ASSUME NEW S \in SUBSET Incidents, NEW c PROVE Count(S, c) \in Nat
  <1>1. {i \in S : Counts(i, c)} \in SUBSET Incidents
    OBVIOUS
  <1> QED BY <1>1, FS_Subset, FS_CardinalityType DEF Count

(* An incident that is added is counted in its columns, and only there.    *)
LEMMA CountAdded ==
  ASSUME NEW S \in SUBSET Incidents, NEW i \in Incidents \ S, NEW c
  PROVE  Count(S \cup {i}, c) = Count(S, c) + (IF Counts(i, c) THEN 1 ELSE 0)
  <1> DEFINE T == {j \in S : Counts(j, c)}
  <1>1. IsFiniteSet(T) /\ i \notin T
    BY FS_Subset
  <1>2. {j \in S \cup {i} : Counts(j, c)} = IF Counts(i, c) THEN T \cup {i} ELSE T
    OBVIOUS
  <1>3. Cardinality(T) \in Nat /\ Cardinality(T \cup {i}) = Cardinality(T) + 1
    BY <1>1, FS_AddElement, FS_CardinalityType
  <1> QED BY <1>2, <1>3 DEF Count

(* The incidents left by a purge that commits.                             *)
LEMMA RowsLeft ==
  ASSUME NEW p \in Purges, TypeOK, Committed(p)
  PROVE  Rows' = Rows \ doomed[p] /\ Scans' = Scans \ doomed[p]
  BY DEF TypeOK, Committed, Rows, Scans

(* What a sweep has deleted.                                               *)
Doomed == /\ doomed \in [Purges -> SUBSET Incidents]
          /\ \A p \in Purges : \A i \in doomed[p] : i \in Scans /\ alert[i] # "open"
          /\ \A p, q \in Purges : p # q => doomed[p] \cap doomed[q] = {}

LEMMA DoomedType == TypeOK => Doomed
  BY DEF TypeOK, Doomed, Scans

-----------------------------------------------------------------------------
LEMMA StatisticsInit == Init => StatisticsInv
  <1> SUFFICES ASSUME Init PROVE StatisticsInv
    OBVIOUS
  <1>1. Rows = {}
    BY DEF Init, Rows
  <1>2. \A c \in Columns : Count({}, c) = 0
    BY FS_EmptySet DEF Count
  <1>3. DriftNeedsARace
    BY <1>1, <1>2 DEF Init, DriftNeedsARace, InSync, Zero
  <1>4. TypeOK
    <2>1. Zero \in [Columns -> Nat]
      BY DEF Zero
    <2>2. exists \in BOOLEAN /\ raced \in BOOLEAN /\ found \in [Purges -> BOOLEAN]
      BY Zenon DEF Init
    <2> QED BY <1>1, <2>1, <2>2 DEF Init, TypeOK
  <1> QED BY <1>3, <1>4 DEF Init, StatisticsInv, CountsAreFresh, LoadIsFresh,
             Counted, Columns

LEMMA WantingStep ==
  ASSUME StatisticsInv, Wanting, Next
  PROVE  Wanting'
  <1> USE DEF StatisticsInv, TypeOK, Wanting
  <1>1. ASSUME NEW i \in Incidents, Insert(i) \/ Raise(i) \/ Abort(i) \/ Age(i)
        PROVE  Wanting'
    BY <1>1 DEF Insert, Raise, Abort, Age
  <1>2. ASSUME NEW p \in Purges, Select(p) PROVE Wanting'
    BY <1>2 DEF Select, Choose
  <1>3. ASSUME NEW p \in Purges, Delete(p) PROVE Wanting'
    BY <1>3 DEF Delete
  <1>4. ASSUME NEW p \in Purges, Deadlock(p) PROVE Wanting'
    BY <1>4 DEF Deadlock
  <1>5. ASSUME NEW p \in Purges, CountRows(p) \/ Load(p) PROVE Wanting'
    BY <1>5 DEF CountRows, Load, Columns
  <1>6. ASSUME NEW p \in Purges, End(p) PROVE Wanting'
    BY <1>6 DEF End
  <1> QED BY <1>1, <1>2, <1>3, <1>4, <1>5, <1>6 DEF Next, Purge, Update, Create,
             Conflict, Fail, RollBack

LEMMA StatisticsRaise ==
  ASSUME StatisticsInv, NEW i \in Incidents, Raise(i)
  PROVE  StatisticsInv'
  <1> USE DEF StatisticsInv, Raise
  <1>1. Rows' = Rows \cup {i} /\ i \notin Rows /\ Rows \in SUBSET Incidents
    BY DEF Rows, TypeOK
  <1>2. Scans' = Scans
    BY DEF Scans
  <1>3. TypeOK'
    <2>1. statistics' \in [Columns -> Nat]
      BY DEF TypeOK
    <2>2. \A p \in Purges : late'[p] \in SUBSET Incidents
      BY DEF TypeOK
    <2> QED BY <1>1, <1>2, <2>1, <2>2 DEF TypeOK, Counting
  <1>4. \A p \in Purges \ behind' : at'[p] \in {"idle", "delete", "total_incidents"}
    BY DEF Counting
  <1>5. CountsAreFresh' /\ LoadIsFresh'
    BY <1>4 DEF CountsAreFresh, LoadIsFresh, Counted, Columns
  <1>6. DriftNeedsARace'
    <2> SUFFICES ASSUME ~raced, NEW c \in Columns
                 PROVE  statistics'[c] = Count(Rows', c)
      BY DEF DriftNeedsARace, InSync
    <2>1. statistics[c] = Count(Rows, c)
      BY DEF DriftNeedsARace, InSync
    <2> QED BY <1>1, <2>1, CountAdded
  <1>7. behind' \subseteq Counting'
    BY DEF Counting
  <1> QED BY <1>3, <1>5, <1>6, <1>7

(* The steps of an alert or of the clock that leave the incidents as they  *)
(* are.                                                                    *)
LEMMA StatisticsScan ==
  ASSUME StatisticsInv, NEW i \in Incidents, Insert(i) \/ Abort(i) \/ Age(i)
  PROVE  StatisticsInv'
  <1> USE DEF StatisticsInv
  <1>1. Rows' = Rows
    BY DEF Rows, TypeOK, Insert, Abort, Age
  <1>2. Scans' = Scans
    BY DEF Scans, TypeOK, Insert, Abort, Age
  <1>3. TypeOK'
    <2>1. CASE Insert(i)
      BY <1>1, <1>2, <2>1 DEF TypeOK, Insert
    <2>2. CASE Abort(i)
      BY <1>1, <1>2, <2>2 DEF TypeOK, Abort
    <2>3. CASE Age(i)
      BY <1>1, <1>2, <2>3 DEF TypeOK, Age
    <2> QED BY <2>1, <2>2, <2>3
  <1> QED BY <1>1, <1>3 DEF Insert, Abort, Age, Counting, CountsAreFresh, LoadIsFresh,
             DriftNeedsARace, InSync

-----------------------------------------------------------------------------
LEMMA StatisticsSelect ==
  ASSUME StatisticsInv, NEW p \in Purges, Select(p)
  PROVE  StatisticsInv'
  <1> USE DEF StatisticsInv, Select, Choose
  <1>1. Rows' = Rows /\ Scans' = Scans
    BY DEF Rows, Scans
  <1>2. TypeOK'
    BY <1>1 DEF TypeOK, Columns, Old, Stale
  <1>3. p \notin behind /\ \A q \in Purges \ {p} : at'[q] = at[q]
    BY DEF Counting, TypeOK
  <1>4. at'[p] \in {"delete", "total_incidents"}
    BY DEF TypeOK
  <1>5. CountsAreFresh'
    BY <1>1, <1>3, <1>4 DEF CountsAreFresh, Counted, Columns
  <1>6. LoadIsFresh'
    BY <1>3, <1>4 DEF LoadIsFresh
  <1> QED BY <1>1, <1>2, <1>3, <1>5, <1>6 DEF Counting, DriftNeedsARace, InSync

LEMMA StatisticsDelete ==
  ASSUME StatisticsInv, NEW p \in Purges, Delete(p)
  PROVE  StatisticsInv'
  <1> USE DEF StatisticsInv
  <1>1. PICK i \in want[p] :
          /\ Unlocked(p, i)
          /\ want' = [want EXCEPT ![p] = @ \ {i}]
          /\ doomed' = [doomed EXCEPT ![p] = @ \cup ({i} \cap Scans)]
          /\ at' = [at EXCEPT ![p] = IF want[p] = {i} THEN "total_incidents" ELSE "delete"]
    BY DEF Delete
  <1>2. at[p] = "delete" /\ UNCHANGED <<table, count, loaded, found, faults, ghost>>
    BY DEF Delete
  <1>3. Rows' = Rows /\ Scans' = Scans /\ i \in Incidents
    BY <1>2 DEF Rows, Scans, TypeOK
  <1>4. p \notin behind /\ \A q \in Purges \ {p} : at'[q] = at[q] /\ doomed'[q] = doomed[q]
    BY <1>1, <1>2 DEF Counting, TypeOK
  <1>5. at'[p] \in {"delete", "total_incidents"} /\ doomed'[p] = doomed[p] \cup ({i} \cap Scans)
    BY <1>1 DEF TypeOK
  <1>6. TypeOK'
    <2>1. doomed' \in [Purges -> SUBSET {j \in Scans' : alert'[j] # "open"}]
      BY <1>1, <1>2, <1>3 DEF TypeOK, Unlocked
    <2>2. \A q, r \in Purges : q # r => doomed'[q] \cap doomed'[r] = {}
      BY <1>1, <1>4, <1>5 DEF TypeOK, Unlocked
    <2>3. at' \in [Purges -> Columns \cup {"idle", "delete", "load", "commit"}]
      BY <1>1 DEF TypeOK, Columns
    <2>4. want' \in [Purges -> SUBSET Incidents]
      BY <1>1 DEF TypeOK
    <2> QED BY <1>2, <1>3, <2>1, <2>2, <2>3, <2>4 DEF TypeOK
  <1>7. CountsAreFresh'
    BY <1>2, <1>3, <1>4, <1>5 DEF CountsAreFresh, Counted, Columns
  <1>8. LoadIsFresh'
    BY <1>2, <1>4, <1>5 DEF LoadIsFresh
  <1> QED BY <1>2, <1>3, <1>4, <1>6, <1>7, <1>8 DEF Counting, DriftNeedsARace, InSync

LEMMA StatisticsDeadlock ==
  ASSUME StatisticsInv, Wanting, NEW p \in Purges, Deadlock(p)
  PROVE  StatisticsInv'
  <1> USE DEF StatisticsInv
  <1>1. PICK q \in Purges \ {p}, i \in doomed[p] :
          /\ i \in want[q]
          /\ want[p] \cap doomed[q] # {}
          /\ want' = [want EXCEPT ![p] = {}, ![q] = @ \ {i}]
          /\ doomed' = [doomed EXCEPT ![p] = {}, ![q] = @ \cup {i}]
          /\ at' = [at EXCEPT ![p] = "idle",
                              ![q] = IF want[q] = {i} THEN "total_incidents" ELSE "delete"]
          /\ late' = [late EXCEPT ![p] = {}]
          /\ UNCHANGED <<table, count, loaded, found, faults, behind, raced>>
    BY DEF Deadlock
  <1>2. Rows' = Rows /\ Scans' = Scans
    BY <1>1 DEF Rows, Scans
  <1>3. at[p] = "delete" /\ at[q] = "delete"
    BY <1>1 DEF Wanting, TypeOK
  <1>4. /\ at'[p] \in {"idle", "delete", "total_incidents"}
        /\ at'[q] \in {"idle", "delete", "total_incidents"}
    BY <1>1 DEF TypeOK
  <1>5. p \notin behind /\ q \notin behind
    BY <1>3 DEF Counting
  <1>6. \A r \in Purges \ {p, q} : at'[r] = at[r] /\ doomed'[r] = doomed[r]
    BY <1>1 DEF TypeOK
  <1>7. TypeOK'
    <2>1. doomed' \in [Purges -> SUBSET {j \in Scans' : alert'[j] # "open"}]
      <3>1. i \in Incidents /\ alert[i] # "open" /\ i \in Scans
        BY DoomedType DEF Doomed
      <3>2. doomed \in [Purges -> SUBSET {j \in Scans : alert[j] # "open"}]
        BY DEF TypeOK
      <3> QED BY <1>1, <1>2, <3>1, <3>2
    <2>2. doomed'[q] = doomed[q] \cup {i} /\ doomed'[p] = {}
      BY <1>1 DEF TypeOK
    <2>3. \A r, t \in Purges : r # t => doomed'[r] \cap doomed'[t] = {}
      BY <1>1, <1>6, <2>2, DoomedType DEF Doomed
    <2>4. at' \in [Purges -> Columns \cup {"idle", "delete", "load", "commit"}]
      BY <1>1 DEF TypeOK, Columns
    <2>5. want' \in [Purges -> SUBSET Incidents] /\ late' \in [Purges -> SUBSET Incidents]
      BY <1>1 DEF TypeOK
    <2> QED BY <1>1, <1>2, <2>1, <2>3, <2>4, <2>5 DEF TypeOK
  <1>8. \A r \in {p, q} : Counted[at'[r]] = {} /\ at'[r] # "commit"
    BY <1>4 DEF Counted, Columns
  <1>10. CountsAreFresh'
    <2> SUFFICES ASSUME NEW r \in Purges \ behind, NEW c \in Counted[at'[r]]
                 PROVE  count'[r][c] = Count(Rows' \ doomed'[r], c)
      BY <1>1 DEF CountsAreFresh
    <2>1. r \notin {p, q}
      BY <1>8
    <2>2. at'[r] = at[r] /\ doomed'[r] = doomed[r]
      BY <1>6, <2>1
    <2>3. count[r][c] = Count(Rows \ doomed[r], c)
      BY <2>2 DEF CountsAreFresh
    <2> QED BY <1>1, <1>2, <2>2, <2>3
  <1>9. LoadIsFresh'
    BY <1>1, <1>6, <1>8 DEF LoadIsFresh
  <1> HIDE DEF StatisticsInv
  <1>11. behind' \subseteq Counting'
    BY <1>1, <1>3, <1>5, <1>6 DEF Counting, StatisticsInv
  <1>12. DriftNeedsARace'
    BY <1>1, <1>2 DEF DriftNeedsARace, InSync, StatisticsInv
  <1> QED BY <1>7, <1>9, <1>10, <1>11, <1>12 DEF StatisticsInv

LEMMA StatisticsCount ==
  ASSUME StatisticsInv, NEW p \in Purges, CountRows(p)
  PROVE  StatisticsInv'
  <1> USE DEF StatisticsInv
  <1>1. PICK c \in Columns :
          /\ at[p] = c
          /\ count' = [count EXCEPT ![p][c] = Count(Rows \ doomed[p], c)]
          /\ at' = [at EXCEPT ![p] = Following[c]]
          /\ UNCHANGED <<table, want, doomed, loaded, found, faults, ghost>>
    BY DEF CountRows
  <1>2. Rows' = Rows /\ Scans' = Scans
    BY <1>1 DEF Rows, Scans
  <1>3. Following[c] \in Columns \cup {"load"} /\ Following[c] # "total_incidents"
    BY DEF Following, Columns
  <1>4. Count(Rows \ doomed[p], c) \in Nat
    BY CountType DEF Rows
  <1>5. TypeOK'
    BY <1>1, <1>2, <1>3, <1>4 DEF TypeOK
  <1>6. at'[p] = Following[c] /\ \A q \in Purges \ {p} : at'[q] = at[q] /\ count'[q] = count[q]
    BY <1>1 DEF TypeOK
  <1>7. /\ count'[p][c] = Count(Rows \ doomed[p], c)
        /\ \A d \in Columns \ {c} : count'[p][d] = count[p][d]
    BY <1>1 DEF TypeOK
  <1>8. Counted[Following[c]] = Counted[c] \cup {c}
    BY DEF Counted, Following, Columns
  <1>9. ASSUME NEW q \in Purges \ behind', NEW d \in Counted[at'[q]]
        PROVE  count'[q][d] = Count(Rows' \ doomed'[q], d)
    <2>1. d \in Columns
      BY <1>9, <1>5 DEF Counted, TypeOK, Columns
    <2>2. CASE q = p
      BY <1>1, <1>2, <1>6, <1>7, <1>8, <1>9, <2>1, <2>2 DEF CountsAreFresh
    <2>3. CASE q # p
      BY <1>1, <1>2, <1>6, <1>9, <2>3 DEF CountsAreFresh
    <2> QED BY <2>2, <2>3
  <1>10. LoadIsFresh'
    BY <1>1, <1>3, <1>6 DEF LoadIsFresh, Columns
  <1>11. behind' \subseteq Counting'
    BY <1>1, <1>3, <1>6 DEF Counting, Columns, TypeOK
  <1> QED BY <1>1, <1>2, <1>5, <1>9, <1>10, <1>11 DEF CountsAreFresh, DriftNeedsARace, InSync

LEMMA StatisticsLoad ==
  ASSUME StatisticsInv, NEW p \in Purges, Load(p)
  PROVE  StatisticsInv'
  <1> USE DEF StatisticsInv, Load
  <1>1. Rows' = Rows /\ Scans' = Scans
    BY DEF Rows, Scans
  <1>2. TypeOK'
    BY <1>1 DEF TypeOK
  <1>3. at'[p] = "commit" /\ \A q \in Purges \ {p} : at'[q] = at[q]
    BY DEF TypeOK
  <1>4. Counted[at'[p]] = Counted[at[p]]
    BY <1>3 DEF Counted
  <1>5. CountsAreFresh'
    BY <1>1, <1>3, <1>4 DEF CountsAreFresh
  <1>6. loaded'[p] = statistics /\ found'[p] = exists
    BY DEF TypeOK
  <1>7. \A q \in Purges \ {p} : loaded'[q] = loaded[q] /\ found'[q] = found[q]
    BY DEF TypeOK
  <1>8. LoadIsFresh'
    BY <1>3, <1>6, <1>7 DEF LoadIsFresh
  <1> QED BY <1>1, <1>2, <1>3, <1>5, <1>8 DEF Counting, DriftNeedsARace, InSync

(* The end of a session, whether it commits or not.                        *)
LEMMA SessionEnds ==
  ASSUME TypeOK, NEW p \in Purges, End(p)
  PROVE  /\ at' \in [Purges -> Columns \cup {"idle", "delete", "load", "commit"}]
         /\ at'[p] = "idle" /\ doomed'[p] = {}
         /\ \A q \in Purges \ {p} : /\ at'[q] = at[q]         /\ doomed'[q] = doomed[q]
                                    /\ count'[q] = count[q]   /\ loaded'[q] = loaded[q]
                                    /\ found'[q] = found[q]
         /\ count' \in [Purges -> [Columns -> Nat]]
         /\ loaded' \in [Purges -> [Columns -> Nat]]
         /\ found' \in [Purges -> BOOLEAN]
         /\ doomed' \in [Purges -> SUBSET Incidents]
  <1>1. Zero \in [Columns -> Nat]
    BY DEF Zero
  <1>2. found' \in [Purges -> BOOLEAN]
    BY Zenon DEF End, TypeOK
  <1>3. doomed' \in [Purges -> SUBSET Incidents]
    BY DEF End, TypeOK, Scans
  <1> QED BY <1>1, <1>2, <1>3 DEF End, TypeOK

(* The end of a transaction that wrote the row.                            *)
LEMMA StatisticsCommit ==
  ASSUME StatisticsInv, NEW p \in Purges, Committed(p), End(p), UNCHANGED faults,
         at[p] = "commit", statistics' \in [Columns -> Nat],
         p \notin behind => statistics' = count[p]
  PROVE  StatisticsInv'
  <1> USE DEF StatisticsInv
  <1>1. Rows' = Rows \ doomed[p] /\ Scans' = Scans \ doomed[p]
    BY RowsLeft
  <1>2. TypeOK'
    <2>1. /\ scan' \in [Incidents -> {"young", "stale", "old", "gone"}]
          /\ alert' \in [Incidents -> {"none", "open", "done", "purged"}]
          /\ \A i \in Incidents : scan'[i] = "gone" => alert'[i] \in {"none", "purged"}
      BY DEF Committed, TypeOK, Rows
    <2>2. exists' = TRUE /\ exists' \in BOOLEAN
      BY Zenon DEF Committed
    <2>3. raced' \in BOOLEAN
      <3>1. raced' = (p \in behind)
        BY DEF Committed
      <3>2. (p \in behind) \in BOOLEAN
        OBVIOUS
      <3> QED BY <3>1, <3>2, Zenon
    <2>4. behind' \in SUBSET Purges
      BY DEF Committed, Counting, TypeOK
    <2>5. doomed' \in [Purges -> SUBSET {i \in Scans' : alert'[i] # "open"}]
      <3>1. \A i \in Incidents : alert[i] # "open" => alert'[i] # "open"
        BY DEF Committed
      <3>2. Doomed
        BY DoomedType
      <3>3. \A q \in Purges : \A i \in doomed'[q] : i \in Scans' /\ alert'[i] # "open"
        BY <1>1, <3>1, <3>2, SessionEnds DEF Doomed
      <3> QED BY <3>3, SessionEnds
    <2>7. want' \in [Purges -> SUBSET Incidents] /\ late' \in [Purges -> SUBSET Incidents]
      BY DEF TypeOK, End, Committed
    <2>6. \A q, r \in Purges : q # r => doomed'[q] \cap doomed'[r] = {}
      BY SessionEnds, DoomedType DEF Doomed
    <2> QED BY <2>1, <2>2, <2>3, <2>4, <2>5, <2>6, <2>7, SessionEnds DEF TypeOK
  <1>3. behind' \subseteq Counting'
    BY SessionEnds DEF Committed, Counting
  <1>4. \A q \in Purges \ behind' : at'[q] \in {"idle", "delete", "total_incidents"}
    BY SessionEnds DEF Committed, Counting
  <1>5. CountsAreFresh' /\ LoadIsFresh'
    BY <1>4 DEF CountsAreFresh, LoadIsFresh, Counted, Columns
  <1>6. DriftNeedsARace'
    <2> SUFFICES ASSUME ~raced' PROVE InSync'
      BY DEF DriftNeedsARace
    <2>1. p \notin behind
      BY DEF Committed
    <2>2. \A c \in Columns : count[p][c] = Count(Rows \ doomed[p], c)
      BY <2>1 DEF CountsAreFresh, Counted
    <2> QED BY <1>1, <2>1, <2>2 DEF InSync
  <1> QED BY <1>2, <1>3, <1>5, <1>6

LEMMA StatisticsRollBack ==
  ASSUME StatisticsInv, NEW p \in Purges, RollBack(p), faults' \in Nat
  PROVE  StatisticsInv'
  <1> USE DEF StatisticsInv, RollBack
  <1>1. Rows' = Rows /\ Scans' = Scans
    BY DEF Rows, Scans
  <1>2. TypeOK'
    <2>1. doomed' \in [Purges -> SUBSET {i \in Scans' : alert'[i] # "open"}]
      <3>1. \A q \in Purges : \A i \in doomed'[q] : i \in Scans' /\ alert'[i] # "open"
        BY <1>1, SessionEnds, DoomedType DEF Doomed
      <3> QED BY <3>1, SessionEnds
    <2>3. want' \in [Purges -> SUBSET Incidents] /\ late' \in [Purges -> SUBSET Incidents]
      BY DEF TypeOK, End
    <2>2. \A q, r \in Purges : q # r => doomed'[q] \cap doomed'[r] = {}
      BY SessionEnds, DoomedType DEF Doomed
    <2> QED BY <1>1, <2>1, <2>2, <2>3, SessionEnds DEF TypeOK
  <1>3. behind' \subseteq Counting'
    BY SessionEnds DEF Counting
  <1>4. \A q \in Purges \ behind' : q = p \/ q \in Purges \ behind
    OBVIOUS
  <1>5. ASSUME NEW q \in Purges \ behind', NEW c \in Counted[at'[q]]
        PROVE  count'[q][c] = Count(Rows' \ doomed'[q], c)
    <2>1. CASE q = p
      <3>1. at'[q] = "idle"
        BY <2>1, SessionEnds
      <3>2. Counted["idle"] = {}
        BY DEF Counted
      <3> QED BY <1>5, <3>1, <3>2
    <2>2. CASE q # p
      <3>1. at'[q] = at[q] /\ doomed'[q] = doomed[q] /\ count'[q] = count[q]
        BY <2>2, SessionEnds DEF StatisticsInv
      <3>2. count[q][c] = Count(Rows \ doomed[q], c)
        BY <1>4, <1>5, <2>2, <3>1 DEF CountsAreFresh
      <3> QED BY <1>1, <3>1, <3>2
    <2> QED BY <2>1, <2>2
  <1>6. LoadIsFresh'
    BY <1>4, SessionEnds DEF LoadIsFresh
  <1> QED BY <1>1, <1>2, <1>3, <1>5, <1>6 DEF CountsAreFresh, DriftNeedsARace, InSync

-----------------------------------------------------------------------------
LEMMA StatisticsStep == StatisticsInv /\ Wanting /\ [Next]_vars => (StatisticsInv /\ Wanting)'
  <1> SUFFICES ASSUME StatisticsInv, Wanting, [Next]_vars PROVE StatisticsInv' /\ Wanting'
    OBVIOUS
  <1>1. ASSUME UNCHANGED vars PROVE StatisticsInv' /\ Wanting'
    BY <1>1 DEF vars, StatisticsInv, TypeOK, Wanting, Counting, CountsAreFresh, LoadIsFresh,
       DriftNeedsARace, InSync, Rows, Scans
  <1>2. ASSUME NEW i \in Incidents, Insert(i) \/ Raise(i) \/ Abort(i) \/ Age(i)
        PROVE  StatisticsInv'
    BY <1>2, StatisticsRaise, StatisticsScan
  <1>3. ASSUME NEW p \in Purges, Update(p) PROVE StatisticsInv'
    <2>1. statistics' \in [Columns -> Nat]
      BY <1>3 DEF Update, StatisticsInv, TypeOK
    <2>2. ASSUME p \notin behind PROVE statistics' = count[p]
      <3>1. loaded[p] = statistics
        BY <1>3, <2>2 DEF Update, StatisticsInv, LoadIsFresh
      <3>2. count[p] \in [Columns -> Nat]
        BY DEF StatisticsInv, TypeOK
      <3>3. \A c \in Columns : statistics'[c] = count[p][c]
        BY <1>3, <3>1 DEF Update
      <3> QED BY <2>1, <3>2, <3>3
    <2> QED BY <1>3, <2>1, <2>2, StatisticsCommit DEF Update
  <1>4. ASSUME NEW p \in Purges, Create(p) PROVE StatisticsInv'
    <2>1. statistics' \in [Columns -> Nat]
      BY <1>4 DEF Create, StatisticsInv, TypeOK
    <2> QED BY <1>4, <2>1, StatisticsCommit DEF Create
  <1>5. ASSUME NEW p \in Purges, Conflict(p) \/ Fail(p) PROVE StatisticsInv'
    <2>1. faults' \in Nat
      BY <1>5 DEF Conflict, Fail, StatisticsInv, TypeOK
    <2> QED BY <1>5, <2>1, StatisticsRollBack DEF Conflict, Fail
  <1>6. ASSUME NEW p \in Purges,
               Select(p) \/ Delete(p) \/ Deadlock(p) \/ CountRows(p) \/ Load(p)
        PROVE  StatisticsInv'
    BY <1>6, StatisticsSelect, StatisticsDelete, StatisticsDeadlock, StatisticsCount,
       StatisticsLoad
  <1> QED BY <1>1, <1>2, <1>3, <1>4, <1>5, <1>6, WantingStep DEF Next, Purge

LEMMA WantingInit == Init => Wanting
  BY DEF Init, Wanting

LEMMA StatisticsAlways == Spec => [](StatisticsInv /\ Wanting)
  BY StatisticsInit, WantingInit, StatisticsStep, PTL DEF Spec

(* The statistics row drifts only when a sweep overwrote it with counts    *)
(* that another transaction had overtaken; otherwise it equals the COUNT   *)
(* of every column, however many incidents and sweeps there are.           *)
THEOREM DriftOnlyByRace == Spec => [](TypeOK /\ DriftNeedsARace)
  <1>1. StatisticsInv => TypeOK /\ DriftNeedsARace
    BY DEF StatisticsInv
  <1> QED BY <1>1, StatisticsAlways, PTL

-----------------------------------------------------------------------------
(* What a sweep has chosen or deleted is old, or had no incident when it   *)
(* was chosen.                                                             *)
ChosenRight ==
  \A p \in Purges : \A i \in (want[p] \cup doomed[p]) \cap Rows :
    scan[i] = "old" \/ i \in late[p]

LEMMA ChosenStep ==
  ASSUME StatisticsInv, Wanting, ChosenRight, Next
  PROVE  ChosenRight'
  <1>1. TypeOK /\ Doomed
    BY DoomedType DEF StatisticsInv
  <1>2. ASSUME NEW i \in Incidents, Insert(i) \/ Abort(i) \/ Age(i)
        PROVE  ChosenRight'
    BY <1>1, <1>2 DEF ChosenRight, TypeOK, Rows, Insert, Abort, Age
  <1>3. ASSUME NEW i \in Incidents, Raise(i) PROVE ChosenRight'
    <2>1. Rows' = Rows \cup {i} /\ i \notin Rows
      BY <1>1, <1>3 DEF Raise, Rows, TypeOK
    <2>2. \A p \in Purges : i \notin doomed[p]
      BY <1>1, <1>3 DEF Raise, Doomed
    <2>3. \A p \in Purges : late'[p] = late[p] \cup ({i} \cap want[p])
      BY <1>3 DEF Raise
    <2> QED BY <1>3, <2>1, <2>2, <2>3 DEF ChosenRight, Raise, table, session
  <1>4. ASSUME NEW p \in Purges, Select(p) PROVE ChosenRight'
    BY <1>1, <1>4 DEF ChosenRight, TypeOK, Rows, Select, Choose, Old, Stale, table, ghost
  <1>5. ASSUME NEW p \in Purges, Delete(p) PROVE ChosenRight'
    <2>1. \A q \in Purges : want'[q] \cup doomed'[q] \subseteq want[q] \cup doomed[q]
      BY <1>1, <1>5 DEF Delete, TypeOK, Scans
    <2> QED BY <1>5, <2>1 DEF ChosenRight, Delete, Rows, table, ghost
  <1>6. ASSUME NEW p \in Purges, Deadlock(p) PROVE ChosenRight'
    <2>1. PICK q \in Purges \ {p}, i \in doomed[p] :
            /\ i \in want[q]
            /\ want' = [want EXCEPT ![p] = {}, ![q] = @ \ {i}]
            /\ doomed' = [doomed EXCEPT ![p] = {}, ![q] = @ \cup {i}]
            /\ late' = [late EXCEPT ![p] = {}]
            /\ UNCHANGED table
      BY <1>6 DEF Deadlock
    <2>2. want'[p] \cup doomed'[p] = {}
      BY <1>1, <2>1 DEF TypeOK
    <2>3. \A r \in Purges \ {p} : /\ want'[r] \cup doomed'[r] \subseteq want[r] \cup doomed[r]
                                 /\ late'[r] = late[r]
      BY <1>1, <2>1 DEF TypeOK
    <2>4. Rows' = Rows /\ scan' = scan
      BY <2>1 DEF Rows, table
    <2> QED BY <2>2, <2>3, <2>4 DEF ChosenRight
  <1>7. ASSUME NEW p \in Purges, CountRows(p) \/ Load(p) PROVE ChosenRight'
    BY <1>7 DEF ChosenRight, CountRows, Load, Rows, table, ghost
  <1>8. ASSUME NEW p \in Purges, End(p), late' = [late EXCEPT ![p] = {}],
               Committed(p) \/ UNCHANGED table
        PROVE  ChosenRight'
    <2>1. want'[p] \cup doomed'[p] = {}
      BY <1>1, <1>8 DEF End, TypeOK
    <2>2. \A q \in Purges \ {p} : want'[q] = want[q] /\ doomed'[q] = doomed[q] /\ late'[q] = late[q]
      BY <1>1, <1>8 DEF End, TypeOK
    <2>3. \A i \in Rows' : i \in Rows /\ scan'[i] = scan[i]
      BY <1>1, <1>8 DEF Committed, Rows, table, TypeOK
    <2> QED BY <2>1, <2>2, <2>3 DEF ChosenRight
  <1>9. ASSUME NEW p \in Purges, Update(p) \/ Create(p) \/ Conflict(p) \/ Fail(p)
        PROVE  ChosenRight'
    BY <1>8, <1>9 DEF Update, Create, Conflict, Fail, RollBack, Committed
  <1> QED BY <1>2, <1>3, <1>4, <1>5, <1>6, <1>7, <1>9 DEF Next, Purge

(* A sweep that began when a scan had no incident, and the alert that is   *)
(* committed before its DELETE comes to that scan, are the only way for an *)
(* incident to go before its year is over, whoever sweeps.                 *)
THEOREM IncidentsAreKept == Spec => []KeptUnlessRaced
  <1>1. Init => ChosenRight
    BY DEF Init, ChosenRight
  <1>2. ChosenRight /\ UNCHANGED vars => ChosenRight'
    BY DEF ChosenRight, vars, Rows
  <1>3. ChosenRight => KeptUnlessRaced
    BY DEF ChosenRight, KeptUnlessRaced
  <1> QED BY <1>1, <1>2, <1>3, ChosenStep, StatisticsAlways, PTL DEF Spec

-----------------------------------------------------------------------------
Raised == {i \in Incidents : alert[i] \in {"done", "purged"}}

(* Neither the row nor a count that a sweep holds exceeds what was raised. *)
Bounded ==
  \A c \in Columns : /\ statistics[c] <= Count(Raised, c)
                     /\ \A p \in Purges : count[p][c] <= Count(Raised, c)

LEMMA CountGrows ==
  ASSUME NEW S \in SUBSET Incidents, NEW T \in SUBSET Incidents, S \subseteq T, NEW c
  PROVE  Count(S, c) <= Count(T, c)
  <1> DEFINE A == {i \in S : Counts(i, c)}
             B == {i \in T : Counts(i, c)}
  <1>1. IsFiniteSet(B) /\ A \subseteq B
    BY FS_Subset
  <1> QED BY <1>1, FS_Subset DEF Count

LEMMA BoundedStep ==
  ASSUME StatisticsInv, Bounded, Next
  PROVE  Bounded'
  <1>1. TypeOK /\ Doomed
    BY DoomedType DEF StatisticsInv
  <1>2. Raised \in SUBSET Incidents /\ Raised' \in SUBSET Incidents /\ Rows \subseteq Raised
    BY DEF Raised, Rows
  <1>3. \A c : Count(Raised, c) \in Nat /\ Count(Raised', c) \in Nat
    BY <1>2, CountType
  <1>4. ASSUME Raised \subseteq Raised' PROVE \A c : Count(Raised, c) <= Count(Raised', c)
    BY <1>2, <1>4, CountGrows
  <1>5. ASSUME NEW i \in Incidents, Insert(i) \/ Abort(i) \/ Age(i)
        PROVE  Bounded'
    <2>1. Raised' = Raised
      BY <1>1, <1>5 DEF TypeOK, Raised, Insert, Abort, Age
    <2> QED BY <1>5, <2>1 DEF Bounded, Insert, Abort, Age, session
  <1>6. ASSUME NEW i \in Incidents, Raise(i) PROVE Bounded'
    <2>1. Raised' = Raised \cup {i} /\ i \notin Raised
      BY <1>1, <1>6 DEF Raise, Raised, TypeOK
    <2>2. ASSUME NEW c \in Columns
          PROVE  /\ Count(Raised', c) = Count(Raised, c) + (IF Counts(i, c) THEN 1 ELSE 0)
                 /\ statistics'[c] = statistics[c] + (IF Counts(i, c) THEN 1 ELSE 0)
      BY <1>2, <1>6, <2>1, CountAdded DEF Raise
    <2>3. count' = count /\ count \in [Purges -> [Columns -> Nat]] /\ statistics \in [Columns -> Nat]
      BY <1>1, <1>6 DEF Raise, session, TypeOK
    <2>4. ASSUME NEW c \in Columns PROVE statistics'[c] <= Count(Raised', c)
      BY <1>3, <2>2, <2>3 DEF Bounded
    <2>5. ASSUME NEW c \in Columns, NEW p \in Purges PROVE count'[p][c] <= Count(Raised', c)
      <3>1. count[p][c] \in Nat /\ count[p][c] <= Count(Raised, c)
        BY <2>3 DEF Bounded
      <3>2. Count(Raised, c) <= Count(Raised', c)
        BY <1>4, <2>1
      <3> QED BY <1>3, <2>3, <3>1, <3>2
    <2> QED BY <2>4, <2>5 DEF Bounded
  <1>7. ASSUME NEW p \in Purges, Select(p) \/ Delete(p) \/ Deadlock(p) \/ Load(p)
        PROVE  Bounded'
    <2>1. UNCHANGED <<table, count>>
      BY <1>7 DEF Select, Choose, Delete, Deadlock, Load
    <2> QED BY <2>1 DEF Bounded, Raised, table
  <1>8. ASSUME NEW p \in Purges, CountRows(p) PROVE Bounded'
    <2>1. PICK d \in Columns : count' = [count EXCEPT ![p][d] = Count(Rows \ doomed[p], d)]
      BY <1>8 DEF CountRows
    <2>2. UNCHANGED table
      BY <1>8 DEF CountRows
    <2>3. Raised' = Raised /\ statistics' = statistics
      BY <2>2 DEF Raised, table
    <2>4. Count(Rows \ doomed[p], d) <= Count(Raised, d)
      BY <1>2, CountGrows
    <2>5. ASSUME NEW q \in Purges, NEW c \in Columns
          PROVE  count'[q][c] = count[q][c] \/ (c = d /\ count'[q][c] = Count(Rows \ doomed[p], d))
      BY <1>1, <2>1 DEF TypeOK
    <2> QED BY <2>3, <2>4, <2>5 DEF Bounded
  <1>9. ASSUME NEW p \in Purges, End(p), Raised \subseteq Raised',
               \A c \in Columns : statistics'[c] \in {statistics[c], count[p][c]}
        PROVE  Bounded'
    <2>1. ASSUME NEW q \in Purges, NEW c \in Columns
          PROVE  count'[q][c] \in {0, count[q][c]}
      BY <1>1, <1>9 DEF End, TypeOK, Zero
    <2>2. ASSUME NEW c \in Columns
          PROVE  statistics[c] \in Nat /\ \A q \in Purges : count[q][c] \in Nat
      BY <1>1 DEF TypeOK
    <2>3. ASSUME NEW c \in Columns, NEW n \in Nat, n <= Count(Raised, c)
          PROVE  n <= Count(Raised', c)
      <3>1. Count(Raised, c) <= Count(Raised', c)
        BY <1>4, <1>9
      <3> QED BY <1>3, <2>3, <3>1
    <2>4. ASSUME NEW c \in Columns PROVE statistics'[c] <= Count(Raised', c)
      BY <1>9, <2>2, <2>3 DEF Bounded
    <2>5. ASSUME NEW c \in Columns, NEW q \in Purges PROVE count'[q][c] <= Count(Raised', c)
      <3>1. 0 <= Count(Raised', c)
        BY <1>3
      <3> QED BY <2>1, <2>2, <2>3, <3>1 DEF Bounded
    <2> QED BY <2>4, <2>5 DEF Bounded
  <1>10. ASSUME NEW p \in Purges, Committed(p) \/ UNCHANGED table PROVE Raised \subseteq Raised'
    BY <1>1, <1>10 DEF Committed, Raised, table, TypeOK
  <1>11. ASSUME NEW p \in Purges, Update(p) \/ Create(p) PROVE Bounded'
    <2>1. \A c \in Columns : statistics'[c] \in {statistics[c], count[p][c]}
      BY <1>11 DEF Update, Create
    <2>2. End(p) /\ Committed(p)
      BY <1>11 DEF Update, Create
    <2> QED BY <1>9, <1>10, <2>1, <2>2
  <1>12. ASSUME NEW p \in Purges, Conflict(p) \/ Fail(p) PROVE Bounded'
    <2>1. End(p) /\ UNCHANGED table
      BY <1>12 DEF Conflict, Fail, RollBack
    <2>2. \A c \in Columns : statistics'[c] \in {statistics[c], count[p][c]}
      BY <2>1 DEF table
    <2> QED BY <1>9, <1>10, <2>1, <2>2
  <1> QED BY <1>5, <1>6, <1>7, <1>8, <1>11, <1>12 DEF Next, Purge

(* No interleaving of alerts and sweeps makes a counter of the row, or one *)
(* that a sweep has counted, exceed the number of incidents ever raised,   *)
(* those purged since included.                                            *)
THEOREM CountersAreBounded == Spec => []NeverOvercounts
  <1>1. Init => Bounded
    <2>1. \A c : Count(Raised, c) \in Nat
      BY CountType DEF Raised
    <2>2. Init => \A c \in Columns : statistics[c] = 0 /\ \A p \in Purges : count[p][c] = 0
      BY DEF Init, Zero
    <2> QED BY <2>1, <2>2 DEF Bounded
  <1>2. Bounded /\ UNCHANGED vars => Bounded'
    BY DEF Bounded, vars, Raised
  <1>3. Bounded => NeverOvercounts
    BY DEF Bounded, NeverOvercounts, Raised
  <1> QED BY <1>1, <1>2, <1>3, BoundedStep, StatisticsAlways, PTL DEF Spec
=============================================================================
