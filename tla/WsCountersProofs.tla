--------------------------- MODULE WsCountersProofs ---------------------------
(***************************************************************************)
(* Theorems about WsCounters, for any finite sets of sockets and of        *)
(* processes, any limit and any number of faults.                          *)
(***************************************************************************)
EXTENDS WsCounters, FiniteSetTheorems, TLAPS

USE ConstantsAssumption DEF ConstantsAssumption

(* The sockets that have passed the limit, or will when they look.         *)
Passed == Open \cup {c \in At({"expire"}) : num[c] <= Limit}

(* The counter stands for at least the increments not taken back, ...      *)
UnitsCounted == ~undercut => Cardinality(Units) <= cnt

(* ... so the sockets that found it within the limit are within the limit. *)
PassedBounded == ~undercut => Cardinality(Passed) <= Limit

(* A count about to be reported is a number of sockets.                    *)
CountsReal == \A c \in At({"report", "unreport"}) : num[c] \in Nat

Inv == TypeOK /\ CountsReal /\ UnitsCounted /\ PassedBounded

-----------------------------------------------------------------------------
LEMMA Finite ==
  ASSUME NEW S \in SUBSET Clients
  PROVE  IsFiniteSet(S) /\ Cardinality(S) \in Nat
  BY FS_Subset, FS_CardinalityType

LEMMA Smaller ==
  ASSUME NEW S \in SUBSET Clients, NEW T \in SUBSET S
  PROVE  Cardinality(T) <= Cardinality(S)
  BY Finite, FS_Subset

LEMMA Sets ==
  /\ Units \subseteq Clients /\ Units' \subseteq Clients
  /\ Passed \subseteq Units /\ Passed' \subseteq Units'
  /\ Open \subseteq Passed
  BY DEF Units, Passed, Open, At

LEMMA LenType == ASSUME NEW s PROVE Len(s) \in Nat
  BY Finite DEF Len, Members, Connected, At

(* A step that leaves the counter alone and adds no increment.             *)
LEMMA CounterKept ==
  ASSUME Inv, UNCHANGED <<cnt, undercut>>, Units' \subseteq Units, Passed' \subseteq Passed
  PROVE  UnitsCounted' /\ PassedBounded' /\ cnt' \in IF undercut' THEN Int ELSE Nat
  <1>1. Cardinality(Units') <= Cardinality(Units) /\ Cardinality(Passed') <= Cardinality(Passed)
    BY Sets, Smaller
  <1>2. /\ Cardinality(Units') \in Nat /\ Cardinality(Units) \in Nat
        /\ Cardinality(Passed') \in Nat /\ Cardinality(Passed) \in Nat
    BY Sets, Finite
  <1> QED BY <1>1, <1>2 DEF Inv, TypeOK, UnitsCounted, PassedBounded

(* DECR of an increment.                                                   *)
LEMMA CounterTakenBack ==
  ASSUME Inv, cnt' = cnt - 1, UNCHANGED undercut, NEW c \in Units,
         Units' = Units \ {c}, Passed' \subseteq Passed
  PROVE  UnitsCounted' /\ PassedBounded' /\ cnt' \in IF undercut' THEN Int ELSE Nat
  <1>1. Cardinality(Units') = Cardinality(Units) - 1
    BY Sets, Finite, FS_RemoveElement
  <1>2. Cardinality(Passed') <= Cardinality(Passed)
    BY Sets, Smaller
  <1>3. /\ Cardinality(Units') \in Nat /\ Cardinality(Units) \in Nat
        /\ Cardinality(Passed') \in Nat /\ Cardinality(Passed) \in Nat
    BY Sets, Finite
  <1>4. UnitsCounted'
    BY <1>1, <1>3 DEF Inv, TypeOK, UnitsCounted
  <1>5. PassedBounded'
    BY <1>2, <1>3 DEF Inv, PassedBounded
  <1>6. cnt' \in IF undercut' THEN Int ELSE Nat
    BY <1>3, <1>4 DEF Inv, TypeOK, UnitsCounted
  <1> QED BY <1>4, <1>5, <1>6

(* SET or DEL.                                                             *)
LEMMA CounterOverwritten ==
  ASSUME Inv, NEW n \in Nat, Overwrite(n), Units' = Units, Passed' \subseteq Passed
  PROVE  UnitsCounted' /\ PassedBounded' /\ cnt' \in IF undercut' THEN Int ELSE Nat
  <1>1. Cardinality(Passed') <= Cardinality(Passed) /\ Cardinality(Passed') \in Nat
        /\ Cardinality(Passed) \in Nat /\ Cardinality(Units) \in Nat
    BY Sets, Smaller, Finite
  <1>2. cnt' = n /\ (~undercut' => ~undercut /\ ~(n < Cardinality(Units)))
    BY DEF Overwrite
  <1>3. UnitsCounted'
    BY <1>1, <1>2 DEF UnitsCounted
  <1>4. PassedBounded'
    BY <1>1, <1>2 DEF Inv, PassedBounded
  <1> QED BY <1>2, <1>3, <1>4

-----------------------------------------------------------------------------
(* What the steps of a handler keep of the types.                          *)
HandlerTypes ==
  /\ keys' \in [Processes -> Nat] /\ undercut' \in BOOLEAN
  /\ entry' \in [Processes -> Clients \cup {NoSet}]
  /\ pc' \in [Clients -> PCs] /\ home' \in [Clients -> Clients \cup {NoSet}]
  /\ num' \in [Clients -> Int] /\ faults' \in Nat

LEMMA FaultType == ASSUME TypeOK, NEW k, Fault(k) PROVE faults' \in Nat
  BY DEF TypeOK, Fault

LEMMA KeysType ==
  ASSUME TypeOK, NEW p \in Processes, NEW n \in Nat, UpdateWorkerCount(p, n)
  PROVE  keys' \in [Processes -> Nat] /\ faults' \in Nat
  BY FaultType DEF TypeOK, UpdateWorkerCount

LEMMA HandlerTypesEnough ==
  ASSUME TypeOK, NEW c, Serves(c), HandlerTypes, cnt' \in IF undercut' THEN Int ELSE Nat
  PROVE  TypeOK'
  BY DEF TypeOK, Serves, Disturb, HandlerTypes

LEMMA EnterKeeps == ASSUME Inv, NEW c \in Clients, Enter(c) PROVE Inv'
  <1> USE DEF Inv
  <1>1. HandlerTypes
    BY DEF TypeOK, Enter, Serves, Goto, HandlerTypes, PCs, redis
  <1>2. UNCHANGED <<cnt, undercut, Units, Passed>>
    BY DEF TypeOK, Enter, Goto, redis, Units, Passed, Open, At
  <1>3. CountsReal'
    BY DEF TypeOK, Enter, Goto, CountsReal, At
  <1> QED BY <1>1, <1>2, <1>3, CounterKept, HandlerTypesEnough DEF Enter

LEMMA IncrKeeps == ASSUME Inv, NEW c \in Clients, Incr(c) PROVE Inv'
  <1> USE DEF Inv
  <1>a. pc[c] = "incr" /\ c \notin Units
    BY DEF Incr, Units, At
  <1>1. CASE Fault("redis") /\ Goto(c, "gone") /\ UNCHANGED <<cnt, num>>
    <2>1. HandlerTypes
      BY <1>1, FaultType DEF TypeOK, Incr, Goto, HandlerTypes, PCs
    <2>2. UNCHANGED <<cnt, undercut, Units, Passed>>
      BY <1>1, <1>a DEF TypeOK, Incr, Goto, Units, Passed, Open, At
    <2>3. CountsReal'
      BY <1>1 DEF TypeOK, Goto, CountsReal, At
    <2> QED BY <2>1, <2>2, <2>3, CounterKept, HandlerTypesEnough DEF Incr
  <1>2. CASE cnt' = cnt + 1 /\ Take(c, cnt + 1) /\ Goto(c, "expire") /\ UNCHANGED faults
    <2>0. cnt \in Int /\ UNCHANGED undercut
      BY DEF TypeOK, Incr
    <2>1. HandlerTypes
      BY <1>2, <2>0 DEF TypeOK, Incr, Goto, Take, HandlerTypes, PCs
    <2>2. CountsReal'
      BY <1>2 DEF TypeOK, Goto, Take, CountsReal, At
    <2>3. Units' = Units \cup {c}
      BY <1>2 DEF TypeOK, Goto, Units, At
    <2>4. Cardinality(Units') = Cardinality(Units) + 1 /\ Cardinality(Units) \in Nat
      BY <1>a, <2>3, Sets, Finite, FS_AddElement
    <2>5. UnitsCounted'
      BY <1>2, <2>0, <2>4 DEF UnitsCounted
    <2>6. Cardinality(Passed') <= Cardinality(Units') /\ Cardinality(Passed') \in Nat
      BY Sets, Finite, Smaller
    <2>9. PassedBounded'
      <3>1. CASE cnt + 1 <= Limit
        BY <3>1, <1>2, <2>0, <2>4, <2>5, <2>6 DEF UnitsCounted, PassedBounded
      <3>2. CASE ~(cnt + 1 <= Limit)
        <4>1. num'[c] = cnt + 1 /\ pc'[c] = "expire"
          BY <1>2 DEF TypeOK, Take, Goto
        <4>2. Passed' = Passed
          BY <1>2, <1>a, <3>2, <4>1 DEF TypeOK, Goto, Take, Passed, Open, At
        <4> QED BY <2>0, <4>2 DEF PassedBounded
      <3> QED BY <3>1, <3>2
    <2>10. cnt' \in IF undercut' THEN Int ELSE Nat
      BY <1>2, <2>0 DEF TypeOK
    <2> QED BY <2>1, <2>2, <2>5, <2>9, <2>10, HandlerTypesEnough DEF Incr
  <1> QED BY <1>1, <1>2 DEF Incr
LEMMA AdmitKeeps == ASSUME Inv, NEW c \in Clients, Admit(c) PROVE Inv'
  <1> USE DEF Inv
  <1>0. Cardinality(Members(home[c])) + 1 \in Nat
    BY Finite DEF Members, Connected, At
  <1>1. HandlerTypes
    BY <1>0, FaultType DEF TypeOK, Admit, AdmitUpTo, Goto, Take, HandlerTypes, PCs, redis
  <1>2. /\ UNCHANGED <<cnt, undercut>> /\ pc[c] = "expire"
        /\ \/ num[c] > Limit /\ Goto(c, "refuse") /\ Take(c, 0)
           \/ /\ num[c] <= Limit /\ Goto(c, "report")
              /\ Take(c, Cardinality(Members(home[c])) + 1)
           \/ Goto(c, "gone") /\ Take(c, 0)
    BY DEF Admit, AdmitUpTo, redis
  <1>3. Units' \subseteq Units
    BY <1>2 DEF TypeOK, Goto, Units, At
  <1>4. Passed' \subseteq Passed
    BY <1>2 DEF TypeOK, Goto, Take, Passed, Open, At
  <1>5. CountsReal'
    BY <1>0, <1>2 DEF TypeOK, Goto, Take, CountsReal, At
  <1> QED BY <1>1, <1>2, <1>3, <1>4, <1>5, CounterKept, HandlerTypesEnough DEF Admit, AdmitUpTo

(* A DECR that fails leaves its increment behind.                          *)
LEMMA RefuseKeeps == ASSUME Inv, NEW c \in Clients, Refuse(c) PROVE Inv'
  <1> USE DEF Inv
  <1>1. HandlerTypes
    BY FaultType DEF TypeOK, Refuse, TakeBack, Goto, HandlerTypes, PCs
  <1>2. pc[c] = "refuse" /\ Goto(c, "gone") /\ UNCHANGED <<num, undercut>>
    BY DEF Refuse, TakeBack
  <1>3. c \in Units /\ Units' = Units \ {c} /\ Passed' = Passed
    BY <1>2 DEF TypeOK, Goto, Units, Passed, Open, At
  <1>4. CountsReal'
    BY <1>2 DEF TypeOK, Goto, CountsReal, At
  <1>5. cnt' = cnt - 1 \/ UNCHANGED cnt
    BY DEF Refuse, TakeBack
  <1> QED BY <1>1, <1>2, <1>3, <1>4, <1>5, CounterKept, CounterTakenBack, HandlerTypesEnough
          DEF Refuse, TakeBack

LEMMA ReportKeeps == ASSUME Inv, NEW c \in Clients, Report(c) PROVE Inv'
  <1> USE DEF Inv
  <1>1. /\ pc[c] = "report" /\ Goto(c, "open") /\ Take(c, 0) /\ Serves(c)
        /\ UpdateWorkerCount(proc[c], num[c]) /\ UNCHANGED <<cnt, undercut, entry, home>>
    BY DEF Report
  <1>2. proc[c] \in Processes /\ num[c] \in Nat
    BY <1>1 DEF TypeOK, CountsReal, At
  <1>3. HandlerTypes
    BY <1>1, <1>2, KeysType DEF TypeOK, Goto, Take, HandlerTypes, PCs
  <1>4. Units' = Units /\ Passed' = Passed
    BY <1>1 DEF TypeOK, Goto, Take, Units, Passed, Open, At
  <1>5. CountsReal'
    BY <1>1 DEF TypeOK, Goto, Take, CountsReal, At
  <1> QED BY <1>1, <1>3, <1>4, <1>5, CounterKept, HandlerTypesEnough

LEMMA LeaveKeeps == ASSUME Inv, NEW c \in Clients, Leave(c) PROVE Inv'
  <1> USE DEF Inv
  <1> DEFINE rest == Members(entry[proc[c]]) \ {c}
             n    == IF entry[proc[c]] = NoSet THEN 0 ELSE Cardinality(rest)
  <1>0. n \in Nat
    BY Finite DEF Members, Connected, At
  <1>1. /\ pc[c] = "open" /\ Goto(c, "unreport") /\ Take(c, n) /\ Serves(c)
        /\ UNCHANGED <<redis, home, faults>>
    BY DEF Leave
  <1>2. entry' \in [Processes -> Clients \cup {NoSet}]
    BY DEF TypeOK, Leave
  <1>3. HandlerTypes
    BY <1>0, <1>1, <1>2 DEF TypeOK, Goto, Take, HandlerTypes, PCs, redis
  <1>4. Units' = Units /\ Passed' \subseteq Passed /\ UNCHANGED <<cnt, undercut>>
    BY <1>1 DEF TypeOK, Goto, Take, Units, Passed, Open, At, redis
  <1>5. CountsReal'
    BY <1>0, <1>1 DEF TypeOK, Goto, Take, CountsReal, At
  <1> QED BY <1>1, <1>3, <1>4, <1>5, CounterKept, HandlerTypesEnough

LEMMA UnreportKeeps == ASSUME Inv, NEW c \in Clients, Unreport(c) PROVE Inv'
  <1> USE DEF Inv
  <1>1. /\ pc[c] = "unreport" /\ Goto(c, "decr") /\ Take(c, 0) /\ Serves(c)
        /\ UpdateWorkerCount(proc[c], num[c]) /\ UNCHANGED <<cnt, undercut, entry, home>>
    BY DEF Unreport
  <1>2. proc[c] \in Processes /\ num[c] \in Nat
    BY <1>1 DEF TypeOK, CountsReal, At
  <1>3. HandlerTypes
    BY <1>1, <1>2, KeysType DEF TypeOK, Goto, Take, HandlerTypes, PCs
  <1>4. Units' = Units /\ Passed' = Passed
    BY <1>1 DEF TypeOK, Goto, Take, Units, Passed, Open, At
  <1>5. CountsReal'
    BY <1>1 DEF TypeOK, Goto, Take, CountsReal, At
  <1> QED BY <1>1, <1>3, <1>4, <1>5, CounterKept, HandlerTypesEnough

LEMMA DecrKeeps == ASSUME Inv, NEW c \in Clients, Decr(c) PROVE Inv'
  <1> USE DEF Inv
  <1>1. HandlerTypes
    BY FaultType DEF TypeOK, Decr, Goto, HandlerTypes, PCs
  <1>2. /\ pc[c] = "decr" /\ (Goto(c, "delete") \/ Goto(c, "gone"))
        /\ UNCHANGED <<num, undercut>>
    BY DEF Decr
  <1>3. c \in Units /\ Units' = Units \ {c} /\ Passed' = Passed
    BY <1>2 DEF TypeOK, Goto, Units, Passed, Open, At
  <1>4. CountsReal'
    BY <1>2 DEF TypeOK, Goto, CountsReal, At
  <1>5. cnt' = cnt - 1 \/ UNCHANGED cnt
    BY DEF Decr
  <1> QED BY <1>1, <1>2, <1>3, <1>4, <1>5, CounterKept, CounterTakenBack, HandlerTypesEnough
          DEF Decr

LEMMA DeleteKeeps == ASSUME Inv, NEW c \in Clients, Delete(c) PROVE Inv'
  <1> USE DEF Inv
  <1>1. /\ pc[c] = "delete" /\ Goto(c, "gone") /\ Serves(c)
        /\ (Overwrite(0) \/ UNCHANGED <<cnt, undercut>>)
        /\ UNCHANGED <<keys, entry, home, num>> /\ faults' \in Nat
    BY FaultType DEF TypeOK, Delete
  <1>2. HandlerTypes
    BY <1>1 DEF TypeOK, Overwrite, Goto, HandlerTypes, PCs
  <1>3. Units' = Units /\ Passed' = Passed
    BY <1>1 DEF TypeOK, Goto, Units, Passed, Open, At
  <1>4. CountsReal'
    BY <1>1 DEF TypeOK, Goto, CountsReal, At
  <1> QED BY <1>1, <1>2, <1>3, <1>4, CounterKept, CounterOverwritten, HandlerTypesEnough

(* The increment stays behind.                                             *)
LEMMA BreakKeeps == ASSUME Inv, NEW c \in Clients, Break(c) PROVE Inv'
  <1> USE DEF Inv
  <1>1. /\ pc[c] = "open" /\ Goto(c, "dead") /\ Serves(c)
        /\ UNCHANGED <<redis, entry, home, num, faults>>
    BY DEF Break
  <1>2. HandlerTypes
    BY <1>1 DEF TypeOK, Goto, HandlerTypes, PCs, redis
  <1>3. Units' \subseteq Units /\ Passed' \subseteq Passed /\ UNCHANGED <<cnt, undercut>>
    BY <1>1 DEF TypeOK, Goto, Units, Passed, Open, At, redis
  <1>4. CountsReal'
    BY <1>1 DEF TypeOK, Goto, CountsReal, At
  <1> QED BY <1>1, <1>2, <1>3, <1>4, CounterKept, HandlerTypesEnough

-----------------------------------------------------------------------------
(* A heartbeat changes the counter by its SET or DEL only.                 *)
BeatOK(b) == b \in [at : BeatPCs, len : Nat, toread : SUBSET Processes, total : Nat]

LEMMA ClientsKept ==
  ASSUME Inv, UNCHANGED clients
  PROVE  Units' = Units /\ Passed' = Passed /\ CountsReal'
  BY DEF Inv, clients, Units, Passed, Open, At, CountsReal

LEMMA BeatTypes ==
  ASSUME TypeOK, NEW p \in Processes, NEW label, Beats(p, label), NEW b, BeatOK(b), Wake(p, b),
         keys' \in [Processes -> Nat], calm' \subseteq Processes, faults' \in Nat,
         undercut' \in BOOLEAN, cnt' \in IF undercut' THEN Int ELSE Nat
  PROVE  TypeOK'
  BY DEF TypeOK, Beats, BeatOK, Wake, clients

(* A step of a heartbeat that does not write the counter.                  *)
LEMMA BeatKeeps ==
  ASSUME Inv, NEW p \in Processes, NEW label, Beats(p, label), NEW b, BeatOK(b), Wake(p, b),
         keys' \in [Processes -> Nat], calm' \subseteq Processes, faults' \in Nat,
         UNCHANGED <<cnt, undercut>>
  PROVE  Inv'
  <1>1. Units' = Units /\ Passed' = Passed /\ CountsReal'
    BY ClientsKept DEF Beats
  <1>2. UnitsCounted' /\ PassedBounded' /\ cnt' \in IF undercut' THEN Int ELSE Nat
    BY <1>1, CounterKept
  <1>3. undercut' \in BOOLEAN
    BY DEF Inv, TypeOK
  <1>4. TypeOK'
    BY <1>2, <1>3, BeatTypes DEF Inv
  <1> QED BY <1>1, <1>2, <1>4 DEF Inv

LEMMA AsleepOK == BeatOK(Asleep)
  BY DEF BeatOK, Asleep, BeatPCs

LEMMA BeatType == ASSUME Inv, NEW p \in Processes PROVE BeatOK(beat[p])
  BY DEF Inv, TypeOK, BeatOK

LEMMA BeatAdvanced ==
  ASSUME NEW b, BeatOK(b), NEW at \in BeatPCs, NEW toread \in SUBSET Processes,
         NEW n, b.total + n \in Nat
  PROVE  BeatOK([b EXCEPT !.at = at, !.toread = toread, !.total = @ + n])
  BY DEF BeatOK

LEMMA FailingBeatKeeps ==
  ASSUME Inv, NEW p \in Processes, NEW label, Beats(p, label), BeatFails(p),
         UNCHANGED <<cnt, undercut, keys>>
  PROVE  Inv'
  <1>1. faults' \in Nat /\ keys' \in [Processes -> Nat] /\ calm' \subseteq Processes
    BY FaultType DEF Inv, TypeOK, BeatFails, Disturb
  <1> QED BY <1>1, AsleepOK, BeatKeeps DEF BeatFails

LEMMA StartBeatKeeps == ASSUME Inv, NEW p \in Processes, StartBeat(p) PROVE Inv'
  <1> DEFINE known == entry[p] # NoSet
             b     == [Asleep EXCEPT !.at  = IF known THEN "refresh" ELSE "scan",
                                     !.len = IF known THEN Len(entry[p]) ELSE 0]
  <1>1. BeatOK(b)
    BY LenType DEF BeatOK, Asleep, BeatPCs
  <1>2. Beats(p, "sleep") /\ Wake(p, b) /\ UNCHANGED <<cnt, undercut, keys, faults>>
    BY DEF StartBeat, redis
  <1>3. calm' \subseteq Processes /\ faults' \in Nat /\ keys' \in [Processes -> Nat]
    BY <1>2 DEF Inv, TypeOK, StartBeat
  <1> QED BY <1>1, <1>2, <1>3, BeatKeeps

LEMMA RefreshKeeps == ASSUME Inv, NEW p \in Processes, Refresh(p) PROVE Inv'
  <1>1. BeatOK([Asleep EXCEPT !.at = "scan"])
    BY DEF BeatOK, Asleep, BeatPCs
  <1>2. beat[p].len \in Nat
    BY BeatType DEF BeatOK
  <1>3. keys' \in [Processes -> Nat] /\ faults' \in Nat
    BY <1>2, KeysType DEF Inv, Refresh
  <1>4. calm' \subseteq Processes
    BY DEF Inv, TypeOK, Refresh
  <1>5. /\ Beats(p, "refresh") /\ Wake(p, [Asleep EXCEPT !.at = "scan"])
        /\ UNCHANGED <<cnt, undercut>>
    BY DEF Refresh
  <1> QED BY <1>1, <1>3, <1>4, <1>5, BeatKeeps

(* SCAN, first and second time, and a Redis error in it.                   *)
LEMMA ScanKeeps ==
  ASSUME Inv, NEW p \in Processes, Scan(p) \/ Rescan(p)
  PROVE  Inv'
  <1>1. PICK label : Beats(p, label)
    BY DEF Scan, Rescan
  <1>2. UNCHANGED <<cnt, undercut, keys>>
    BY DEF Scan, Rescan, redis
  <1>3. CASE BeatFails(p)
    BY <1>1, <1>2, <1>3, FailingBeatKeeps
  <1>4. CASE /\ \E at \in BeatPCs : Wake(p, [Asleep EXCEPT !.toread = Reported, !.at = at])
             /\ UNCHANGED <<faults, calm>>
    <2>1. PICK at \in BeatPCs : Wake(p, [Asleep EXCEPT !.toread = Reported, !.at = at])
      BY <1>4
    <2>2. BeatOK([Asleep EXCEPT !.toread = Reported, !.at = at])
      BY DEF BeatOK, Asleep, Reported
    <2>3. calm' \subseteq Processes /\ faults' \in Nat /\ keys' \in [Processes -> Nat]
      BY <1>2, <1>4 DEF Inv, TypeOK
    <2> QED BY <1>1, <1>2, <2>1, <2>2, <2>3, BeatKeeps
  <1>5. BeatFails(p) \/ /\ \E at \in BeatPCs : Wake(p, [Asleep EXCEPT !.toread = Reported, !.at = at])
                        /\ UNCHANGED <<faults, calm>>
    <2>1. {"read", "rescan", "sleep", "write"} \subseteq BeatPCs
      BY DEF BeatPCs
    <2> QED BY <2>1 DEF Scan, Rescan
  <1> QED BY <1>3, <1>4, <1>5

LEMMA ReadKeeps ==
  ASSUME Inv, NEW p \in Processes, NEW q \in Processes, Read(p, q)
  PROVE  Inv'
  <1> DEFINE rest == beat[p].toread \ {q}
             b(n) == [beat[p] EXCEPT !.at = IF rest = {} THEN "write" ELSE "read",
                                     !.toread = rest, !.total = @ + n]
  <1>1. \A n \in Nat : BeatOK(b(n))
    <2> SUFFICES ASSUME NEW n \in Nat PROVE BeatOK(b(n))
      OBVIOUS
    <2>1. BeatOK(beat[p]) /\ rest \in SUBSET Processes
      BY BeatType DEF BeatOK
    <2>2. beat[p].total + n \in Nat
      BY <2>1 DEF BeatOK
    <2>3. (IF rest = {} THEN "write" ELSE "read") \in BeatPCs
      BY DEF BeatPCs
    <2> QED BY <2>1, <2>2, <2>3, BeatAdvanced
  <1>2. keys[q] \in Nat
    BY DEF Inv, TypeOK
  <1>3. PICK n \in {keys[q], 0} : Wake(p, b(n))
    BY DEF Read
  <1>4. Beats(p, "read") /\ UNCHANGED <<cnt, undercut, keys>>
    BY DEF Read, redis
  <1>5. calm' \subseteq Processes /\ faults' \in Nat /\ keys' \in [Processes -> Nat]
    BY <1>4, FaultType DEF Inv, TypeOK, Read, Disturb
  <1>6. BeatOK(b(n))
    BY <1>1, <1>2, <1>3
  <1> QED BY <1>3, <1>4, <1>5, <1>6, BeatKeeps

LEMMA WriteKeeps == ASSUME Inv, NEW p \in Processes, Write(p) PROVE Inv'
  <1>1. Beats(p, "write") /\ UNCHANGED keys
    BY DEF Write, Wrote
  <1>2. CASE BeatFails(p) /\ UNCHANGED <<cnt, undercut>>
    BY <1>1, <1>2, FailingBeatKeeps
  <1>3. CASE Overwrite(beat[p].total) /\ Wake(p, Asleep) /\ UNCHANGED <<faults, calm>>
    <2>1. beat[p].total \in Nat
      BY BeatType DEF BeatOK
    <2>2. Units' = Units /\ Passed' = Passed /\ CountsReal'
      BY <1>1, ClientsKept DEF Beats
    <2>3. UnitsCounted' /\ PassedBounded' /\ cnt' \in IF undercut' THEN Int ELSE Nat
      BY <1>3, <2>1, <2>2, CounterOverwritten
    <2>4. /\ undercut' \in BOOLEAN /\ keys' \in [Processes -> Nat]
          /\ calm' \subseteq Processes /\ faults' \in Nat
      BY <1>1, <1>3 DEF Inv, TypeOK, Overwrite
    <2>5. TypeOK'
      BY <1>1, <1>3, <2>3, <2>4, AsleepOK, BeatTypes DEF Inv
    <2> QED BY <2>2, <2>3, <2>5 DEF Inv
  <1> QED BY <1>2, <1>3 DEF Write, Wrote

-----------------------------------------------------------------------------
(* The dead process takes its sockets along and leaves their increments.   *)
LEMMA CrashKeeps == ASSUME Inv, NEW p \in Processes, Crash(p) PROVE Inv'
  <1> USE DEF Inv
  <1>1. Units' \subseteq Units /\ Passed' \subseteq Passed /\ CountsReal'
    BY DEF TypeOK, Crash, Units, Passed, Open, At, CountsReal
  <1>2. UNCHANGED <<cnt, undercut, keys>>
    BY DEF Crash, redis
  <1>3. UnitsCounted' /\ PassedBounded' /\ cnt' \in IF undercut' THEN Int ELSE Nat
    BY <1>1, <1>2, CounterKept
  <1>4. /\ pc' \in [Clients -> PCs] /\ num' \in [Clients -> Int]
        /\ entry' \in [Processes -> Clients \cup {NoSet}]
        /\ up' \subseteq Processes /\ calm' \subseteq Processes
        /\ proc' = proc /\ home' = home
    BY DEF TypeOK, Crash, Disturb, PCs
  <1>5. faults' \in Nat
    BY FaultType DEF Crash
  <1>6. beat' \in [Processes -> [at : BeatPCs, len : Nat, toread : SUBSET Processes, total : Nat]]
    BY AsleepOK DEF TypeOK, Crash, Wake, BeatOK
  <1>7. TypeOK'
    BY <1>2, <1>3, <1>4, <1>5, <1>6 DEF TypeOK
  <1> QED BY <1>1, <1>3, <1>7

LEMMA ExpiryKeeps ==
  ASSUME Inv, CountExpires \/ (\E p \in Processes : KeyExpires(p))
  PROVE  Inv'
  <1> USE DEF Inv
  <1>1. UNCHANGED <<undercut, entry, up, clients, beat, faults>>
    BY DEF CountExpires, KeyExpires
  <1>2. Units' = Units /\ Passed' = Passed /\ CountsReal'
    BY <1>1, ClientsKept
  <1>3. CASE CountExpires
    <2>1. Units = {} /\ cnt' = 0
      BY <1>3 DEF CountExpires
    <2>2. Cardinality(Units') = 0
      BY <1>2, <2>1, FS_EmptySet
    <2>3. UnitsCounted' /\ PassedBounded'
      BY <1>1, <1>2, <2>1, <2>2 DEF UnitsCounted, PassedBounded
    <2>4. TypeOK'
      BY <1>1, <1>3, <2>1 DEF TypeOK, CountExpires, clients
    <2> QED BY <1>2, <2>3, <2>4
  <1>4. CASE \E p \in Processes : KeyExpires(p)
    <2>1. UNCHANGED cnt
      BY <1>4 DEF KeyExpires
    <2>2. UnitsCounted' /\ PassedBounded' /\ cnt' \in IF undercut' THEN Int ELSE Nat
      BY <1>1, <1>2, <2>1, CounterKept
    <2>3. keys' \in [Processes -> Nat] /\ calm' = {}
      BY <1>4 DEF TypeOK, KeyExpires, Disturb
    <2>4. TypeOK'
      BY <1>1, <2>2, <2>3 DEF TypeOK, clients
    <2> QED BY <1>2, <2>2, <2>4
  <1> QED BY <1>3, <1>4

-----------------------------------------------------------------------------
LEMMA InitInv == Init => Inv
  <1> SUFFICES ASSUME Init PROVE Inv
    OBVIOUS
  <1>1. Units = {} /\ Passed = {} /\ CountsReal
    BY DEF Init, Units, Passed, Open, At, CountsReal
  <1>2. /\ cnt = 0 /\ ~undercut /\ undercut \in BOOLEAN
        /\ up \subseteq Processes /\ calm \subseteq Processes /\ faults \in Nat
    BY DEF Init
  <1>3. /\ keys \in [Processes -> Nat] /\ entry \in [Processes -> Clients \cup {NoSet}]
        /\ proc \in [Clients -> Processes] /\ home \in [Clients -> Clients \cup {NoSet}]
        /\ pc \in [Clients -> PCs] /\ num \in [Clients -> Int]
    BY DEF Init, PCs
  <1>4. beat \in [Processes -> [at : BeatPCs, len : Nat, toread : SUBSET Processes, total : Nat]]
    BY AsleepOK DEF Init, BeatOK
  <1>5. TypeOK
    BY <1>2, <1>3, <1>4 DEF TypeOK
  <1> QED BY <1>1, <1>2, <1>5, FS_EmptySet DEF Inv, UnitsCounted, PassedBounded

LEMMA NextInv == Inv /\ [Next]_vars => Inv'
  <1> SUFFICES ASSUME Inv, [Next]_vars PROVE Inv'
    OBVIOUS
  <1>1. CASE UNCHANGED vars
    <2>1. Units' = Units /\ Passed' = Passed /\ CountsReal'
      BY <1>1, ClientsKept DEF vars
    <2>2. TypeOK'
      BY <1>1 DEF Inv, TypeOK, vars, redis, clients
    <2> QED BY <1>1, <2>1, <2>2 DEF Inv, UnitsCounted, PassedBounded, vars, redis
  <1>2. ASSUME NEW c \in Clients, Enter(c) \/ Handle(c) \/ Leave(c) \/ Break(c)
        PROVE  Inv'
    BY <1>2, EnterKeeps, IncrKeeps, AdmitKeeps, RefuseKeeps, ReportKeeps, LeaveKeeps,
       UnreportKeeps, DecrKeeps, DeleteKeeps, BreakKeeps DEF Handle
  <1>3. ASSUME NEW p \in Processes, Heartbeat(p) PROVE Inv'
    BY <1>3, StartBeatKeeps, RefreshKeeps, ScanKeeps, ReadKeeps, WriteKeeps DEF Heartbeat
  <1>4. ASSUME NEW p \in Processes, Crash(p) PROVE Inv'
    BY <1>4, CrashKeeps
  <1>5. CASE CountExpires \/ (\E p \in Processes : KeyExpires(p))
    BY <1>5, ExpiryKeeps
  <1> QED BY <1>1, <1>2, <1>3, <1>4, <1>5 DEF Next

(* The variables keep their types, and the counter is negative only when a *)
(* SET or DEL has undercut it.                                             *)
THEOREM TypeCorrect == Spec => []TypeOK
  <1>1. Spec => []Inv
    BY InitInv, NextInv, PTL DEF Spec
  <1>2. Inv => TypeOK
    BY DEF Inv
  <1> QED BY <1>1, <1>2, PTL

(* While the counter has not been undercut the limit of connect_user       *)
(* holds, in any interleaving of handlers and heartbeats, crashes and      *)
(* Redis errors.                                                           *)
THEOREM LimitCorrect == Spec => []LimitHeld
  <1>1. Spec => []Inv
    BY InitInv, NextInv, PTL DEF Spec
  <1>2. ASSUME Inv PROVE LimitHeld
    <2>1. Cardinality(Open) <= Cardinality(Passed)
      BY Sets, Smaller
    <2>2. Cardinality(Open) \in Nat /\ Cardinality(Passed) \in Nat
      BY Sets, Finite
    <2> QED BY <1>2, <2>1, <2>2 DEF Inv, PassedBounded, LimitHeld
  <1> QED BY <1>1, <1>2, PTL

-----------------------------------------------------------------------------
(* What a heartbeat counts while nothing else moves.                       *)

(* A set belongs to one process, and every socket it counts is in one.          *)
SetsOK ==
  /\ \A p \in Processes : entry[p] \in Clients => proc[entry[p]] = p
  /\ \A c \in Clients : home[c] \in Clients => proc[home[c]] = proc[c]
  /\ \A c \in At({"incr", "expire", "report", "open", "dead"}) : home[c] \in Clients

CalmSettled == calm # {} => Settled

(* A heartbeat knows that it has read every key before it writes.          *)
AllRead == \A p \in Processes : beat[p].at = "write" => beat[p].toread = {}

(* Instead of the sum of the keys it has read, the connected sockets of    *)
(* the processes whose keys it need not read any more.                     *)
Counted(toread) == {c \in Connected : proc[c] \notin toread}

CalmExact ==
  \A p \in calm : beat[p].at \in {"read", "write"} =>
    beat[p].total = Cardinality(Counted(beat[p].toread))

CalmInv == SetsOK /\ CalmSettled /\ AllRead /\ CalmExact

(* When all is settled the key of a process counts its sockets.            *)
LEMMA KeyCounts ==
  ASSUME Inv, SetsOK, Settled, NEW q \in Processes
  PROVE  keys[q] = Cardinality({c \in Connected : proc[c] = q})
  <1>1. \A c \in Connected : home[c] \in Clients /\ home[c] = entry[proc[c]] /\ proc[c] \in Processes
    BY DEF Settled, Orphans, SetsOK, Connected, At, Inv, TypeOK
  <1>2. CASE entry[q] = NoSet
    <2>1. {c \in Connected : proc[c] = q} = {}
      BY <1>1, <1>2
    <2> QED BY <1>2, <2>1, FS_EmptySet DEF Settled, Len
  <1>3. CASE entry[q] # NoSet
    <2>1. entry[q] \in Clients
      BY <1>3 DEF Inv, TypeOK
    <2>2. Members(entry[q]) = {c \in Connected : proc[c] = q}
      <3>1. \A c \in Connected : home[c] = entry[q] => proc[c] = q
        BY <2>1 DEF SetsOK, Connected, At
      <3>2. \A c \in Connected : proc[c] = q => home[c] = entry[q]
        BY <1>1
      <3> QED BY <3>1, <3>2 DEF Members
    <2> QED BY <1>3, <2>2 DEF Settled, Len
  <1> QED BY <1>2, <1>3

LEMMA SetsKept ==
  ASSUME Inv, SetsOK, [Next]_vars
  PROVE  SetsOK'
  <1> USE DEF Inv, TypeOK
  <1>1. CASE UNCHANGED <<entry, clients>>
    BY <1>1 DEF SetsOK, At, clients
  <1>2. ASSUME NEW c \in Clients, Enter(c) PROVE SetsOK'
    <2> DEFINE set == IF entry[proc[c]] = NoSet THEN c ELSE entry[proc[c]]
    <2>1. /\ entry' = [entry EXCEPT ![proc[c]] = set] /\ home' = [home EXCEPT ![c] = set]
          /\ proc' = proc /\ pc' = [pc EXCEPT ![c] = "incr"]
      BY <1>2 DEF Enter, Serves, Goto
    <2>2. proc[c] \in Processes /\ set \in Clients /\ proc[set] = proc[c]
      BY DEF SetsOK
    <2> HIDE DEF set
    <2>3. \A p \in Processes : entry'[p] \in Clients => proc'[entry'[p]] = p
      BY <2>1, <2>2 DEF SetsOK
    <2>4. \A d \in Clients : home'[d] \in Clients => proc'[home'[d]] = proc'[d]
      BY <2>1, <2>2 DEF SetsOK
    <2>5. \A d \in Clients : pc'[d] \in {"incr", "expire", "report", "open", "dead"} => home'[d] \in Clients
      BY <2>1, <2>2 DEF SetsOK, At
    <2> QED BY <2>3, <2>4, <2>5 DEF SetsOK, At
  <1>3. ASSUME NEW c \in Clients, Handle(c) PROVE SetsOK'
    <2>1. UNCHANGED <<entry, home, proc>>
      BY <1>3 DEF Handle, Incr, Admit, AdmitUpTo, Refuse, TakeBack, Report, Unreport, Decr,
                  Delete, Serves
    <2>2. \A d \in Clients : pc'[d] \in {"incr", "expire", "report", "open", "dead"} =>
                            pc[d] \in {"incr", "expire", "report", "open", "dead"}
      BY <1>3 DEF Handle, Incr, Admit, AdmitUpTo, Refuse, TakeBack, Report, Unreport, Decr,
                  Delete, Goto
    <2> QED BY <2>1, <2>2 DEF SetsOK, At
  <1>4. ASSUME NEW c \in Clients, Leave(c) PROVE SetsOK'
    <2>1. /\ UNCHANGED <<home, proc>> /\ pc' = [pc EXCEPT ![c] = "unreport"]
          /\ \A p \in Processes : entry'[p] = entry[p] \/ entry'[p] = NoSet
      BY <1>4 DEF Leave, Serves, Goto
    <2> QED BY <2>1 DEF SetsOK, At
  <1>b. ASSUME NEW c \in Clients, Break(c) PROVE SetsOK'
    <2>1. /\ UNCHANGED <<entry, home, proc>> /\ pc' = [pc EXCEPT ![c] = "dead"]
          /\ pc[c] = "open"
      BY <1>b DEF Break, Serves, Goto
    <2> QED BY <2>1 DEF SetsOK, At
  <1>5. ASSUME NEW p \in Processes, Crash(p) PROVE SetsOK'
    <2>1. /\ UNCHANGED <<home, proc>> /\ \A c \in Clients : pc'[c] \in {pc[c], "gone"}
          /\ \A q \in Processes : entry'[q] = entry[q] \/ entry'[q] = NoSet
      BY <1>5 DEF Crash
    <2> QED BY <2>1 DEF SetsOK, At
  <1>6. ASSUME NEW p \in Processes, Heartbeat(p) \/ KeyExpires(p) PROVE SetsOK'
    BY <1>1, <1>6 DEF Heartbeat, StartBeat, Refresh, Scan, Rescan, Read, Write, Wrote, Beats,
                      KeyExpires
  <1>7. CASE CountExpires
    BY <1>1, <1>7 DEF CountExpires
  <1>8. CASE UNCHANGED vars
    BY <1>1, <1>8 DEF vars
  <1> QED BY <1>2, <1>3, <1>4, <1>b, <1>5, <1>6, <1>7, <1>8 DEF Next

(* A heartbeat that has read the key of q, with n in it.                   *)
Advanced(p, q, n) ==
  [beat[p] EXCEPT !.at = IF beat[p].toread \ {q} = {} THEN "write" ELSE "read",
                  !.toread = beat[p].toread \ {q}, !.total = @ + n]

LEMMA AdvancedIs ==
  ASSUME Inv, NEW p \in Processes, NEW q, NEW n
  PROVE  /\ Advanced(p, q, n).toread = beat[p].toread \ {q}
         /\ Advanced(p, q, n).total = beat[p].total + n
         /\ Advanced(p, q, n).at = "write" => beat[p].toread \ {q} = {}
         /\ Advanced(p, q, n).at \in {"read", "write"}
  BY DEF Inv, TypeOK, Advanced

(* One that has scanned for keys, and goes on with what it has found.      *)
Scanned(p, at) == /\ Wake(p, [Asleep EXCEPT !.toread = Reported, !.at = at])
                  /\ at \in {"read", "rescan", "sleep", "write"}
                  /\ at # "rescan" /\ at # "sleep" => (at = "write" <=> Reported = {})

LEMMA ScanIs ==
  ASSUME NEW p, Scan(p) \/ Rescan(p), ~BeatFails(p)
  PROVE  \E at : Scanned(p, at)
  <1>1. CASE Scan(p)
    <2> DEFINE at == IF Reported # {} THEN "read"
                     ELSE IF entry[p] # NoSet THEN "rescan" ELSE "sleep"
    <2>1. Wake(p, [Asleep EXCEPT !.toread = Reported, !.at = at])
      BY <1>1 DEF Scan
    <2>2. Scanned(p, at)
      BY <2>1 DEF Scanned
    <2> HIDE DEF at
    <2> QED BY <2>2
  <1>2. CASE Rescan(p)
    <2> DEFINE at == IF Reported # {} THEN "read" ELSE "write"
    <2>1. Wake(p, [Asleep EXCEPT !.toread = Reported, !.at = at])
      BY <1>2 DEF Rescan
    <2>2. Scanned(p, at)
      BY <2>1 DEF Scanned
    <2> HIDE DEF at
    <2> QED BY <2>2
  <1> QED BY <1>1, <1>2

LEMMA AllReadKept ==
  ASSUME Inv, AllRead, [Next]_vars
  PROVE  AllRead'
  <1> USE DEF Inv, TypeOK
  <1>1. CASE UNCHANGED beat
    BY <1>1 DEF AllRead
  <1>2. ASSUME NEW p \in Processes, beat' = [beat EXCEPT ![p] = beat'[p]],
               beat'[p].at = "write" => beat'[p].toread = {}
        PROVE  AllRead'
    BY <1>2 DEF AllRead
  <1>3. ASSUME NEW p \in Processes, BeatFails(p) \/ Crash(p) \/ (Write(p) /\ Wake(p, Asleep))
        PROVE  AllRead'
    <2>1. beat' = [beat EXCEPT ![p] = Asleep]
      BY <1>3 DEF BeatFails, Crash, Wake
    <2>2. beat'[p] = Asleep
      BY <2>1
    <2> QED BY <1>2, <2>1, <2>2 DEF Asleep
  <1>w. ASSUME NEW p \in Processes, NEW b, Wake(p, b), b.at = "write" => b.toread = {}
        PROVE  AllRead'
    <2>1. beat' = [beat EXCEPT ![p] = b]
      BY <1>w DEF Wake
    <2>2. beat'[p] = b /\ beat' = [beat EXCEPT ![p] = beat'[p]]
      BY <2>1
    <2> QED BY <1>2, <1>w, <2>2
  <1>4. ASSUME NEW p \in Processes, StartBeat(p) \/ Refresh(p)
        PROVE  AllRead'
    <2>1. CASE StartBeat(p)
      <3> DEFINE known == entry[p] # NoSet
                 b     == [Asleep EXCEPT !.at  = IF known THEN "refresh" ELSE "scan",
                                         !.len = IF known THEN Len(entry[p]) ELSE 0]
      <3>1. Wake(p, b)
        BY <2>1 DEF StartBeat
      <3>2. b.at # "write"
        BY DEF Asleep
      <3> HIDE DEF b
      <3> QED BY <1>w, <3>1, <3>2
    <2>2. CASE Refresh(p)
      <3> DEFINE b == [Asleep EXCEPT !.at = "scan"]
      <3>1. Wake(p, b)
        BY <2>2 DEF Refresh
      <3>2. b.at # "write"
        BY DEF Asleep
      <3> HIDE DEF b
      <3> QED BY <1>w, <3>1, <3>2
    <2> QED BY <1>4, <2>1, <2>2
  <1>5. ASSUME NEW p \in Processes, Scan(p) \/ Rescan(p)
        PROVE  AllRead'
    <2>1. CASE BeatFails(p)
      BY <1>3, <2>1
    <2>2. CASE ~BeatFails(p)
      <3>1. PICK at : Scanned(p, at)
        BY <1>5, <2>2, ScanIs
      <3> DEFINE b == [Asleep EXCEPT !.toread = Reported, !.at = at]
      <3>2. b.at = at /\ b.toread = Reported
        BY DEF Asleep
      <3>3. Wake(p, b)
        BY <3>1 DEF Scanned
      <3> HIDE DEF b
      <3> QED BY <1>w, <3>1, <3>2, <3>3 DEF Scanned
    <2> QED BY <2>1, <2>2
  <1>6. ASSUME NEW p \in Processes, NEW q \in Processes, Read(p, q)
        PROVE  AllRead'
    <2>1. PICK n : Wake(p, Advanced(p, q, n))
      BY <1>6 DEF Read, Advanced
    <2>2. beat' = [beat EXCEPT ![p] = Advanced(p, q, n)]
      BY <2>1 DEF Wake
    <2>3. beat'[p] = Advanced(p, q, n) /\ beat' = [beat EXCEPT ![p] = beat'[p]]
      BY <2>2
    <2> QED BY <1>2, <2>3, AdvancedIs
  <1>7. ASSUME NEW p \in Processes, Write(p)
        PROVE  AllRead'
    BY <1>3, <1>7 DEF Write, Wrote
  <1>8. ASSUME NEW c \in Clients, Enter(c) \/ Handle(c) \/ Leave(c) \/ Break(c)
        PROVE  AllRead'
    BY <1>1, <1>8 DEF Enter, Handle, Leave, Break, Incr, Admit, AdmitUpTo, Refuse, TakeBack, Report,
                      Unreport, Decr, Delete, Serves
  <1>9. CASE CountExpires \/ (\E p \in Processes : KeyExpires(p)) \/ UNCHANGED vars
    BY <1>1, <1>9 DEF CountExpires, KeyExpires, vars
  <1> QED BY <1>3, <1>4, <1>5, <1>6, <1>7, <1>8, <1>9 DEF Next, Heartbeat

(* Either the step disturbs the heartbeats or it is one of their own, and  *)
(* no key changes.                                                         *)
LEMMA QuietSteps ==
  ASSUME Inv, [Next]_vars, calm' # {}
  PROVE  /\ UNCHANGED <<entry, clients, keys>>
         /\ \/ UNCHANGED <<beat, calm>>
            \/ \E p \in Processes :
                 \/ StartBeat(p)
                 \/ Refresh(p) /\ UNCHANGED calm
                 \/ (Scan(p) \/ Rescan(p)) /\ UNCHANGED calm /\ ~BeatFails(p)
                 \/ \E q \in Processes : Read(p, q) /\ UNCHANGED <<faults, calm>>
                 \/ Write(p) /\ UNCHANGED calm /\ Wake(p, Asleep)
  <1>1. CASE UNCHANGED vars
    BY <1>1 DEF vars, redis
  <1>2. ASSUME NEW c \in Clients, Enter(c) \/ Handle(c) \/ Leave(c) \/ Break(c)
        PROVE  FALSE
    BY <1>2 DEF Enter, Handle, Leave, Break, Incr, Admit, AdmitUpTo, Refuse, TakeBack, Report,
                Unreport, Decr, Delete, Serves, Disturb
  <1>3. ASSUME NEW p \in Processes, Crash(p) \/ KeyExpires(p) \/ BeatFails(p)
        PROVE  FALSE
    BY <1>3 DEF Crash, KeyExpires, BeatFails, Disturb
  <1>4. CASE CountExpires
    BY <1>4 DEF CountExpires
  <1>5. ASSUME NEW p \in Processes, Heartbeat(p)
        PROVE  UNCHANGED <<entry, clients, keys>>
    <2>1. CASE Refresh(p)
      BY <2>1 DEF Refresh, Beats
    <2> QED BY <1>5, <2>1 DEF Heartbeat, StartBeat, Scan, Rescan, Read, Write, Wrote, Beats, redis
  <1>6. ASSUME NEW p \in Processes, Heartbeat(p)
        PROVE  \/ StartBeat(p)
               \/ Refresh(p) /\ UNCHANGED calm
               \/ (Scan(p) \/ Rescan(p)) /\ UNCHANGED calm /\ ~BeatFails(p)
               \/ \E q \in Processes : Read(p, q) /\ UNCHANGED <<faults, calm>>
               \/ Write(p) /\ UNCHANGED calm /\ Wake(p, Asleep)
    <2>1. CASE Refresh(p)
      BY <2>1 DEF Refresh
    <2>2. CASE Scan(p) \/ Rescan(p)
      BY <1>3, <2>2 DEF Scan, Rescan
    <2>3. ASSUME NEW q \in Processes, Read(p, q)
          PROVE  UNCHANGED <<faults, calm>>
      BY <2>3 DEF Read, Disturb
    <2>4. CASE Write(p)
      BY <1>3, <2>4 DEF Write, Wrote
    <2> QED BY <1>6, <2>1, <2>2, <2>3, <2>4 DEF Heartbeat
  <1> QED BY <1>1, <1>2, <1>3, <1>4, <1>5, <1>6 DEF Next

LEMMA QuietKeeps ==
  ASSUME Inv, UNCHANGED <<entry, clients, keys>>
  PROVE  Connected' = Connected /\ (Settled' <=> Settled) /\ proc' = proc
         /\ \A S : Counted(S)' = Counted(S)
  BY DEF clients, Connected, At, Settled, Orphans, Len, Members, Counted

LEMMA CalmSettledKept ==
  ASSUME Inv, CalmSettled, [Next]_vars
  PROVE  CalmSettled'
  <1>1. CASE calm' = {}
    BY <1>1 DEF CalmSettled
  <1>2. CASE calm' # {}
    <2>1. UNCHANGED <<entry, clients, keys>>
      BY <1>2, QuietSteps
    <2>2. Settled' <=> Settled
      BY <2>1, QuietKeeps
    <2>3. CASE UNCHANGED calm
      BY <2>2, <2>3 DEF CalmSettled
    <2>4. ASSUME NEW p \in Processes, StartBeat(p)
          PROVE  CalmSettled'
      BY <2>2, <2>4 DEF StartBeat, CalmSettled
    <2> QED BY <1>2, <2>3, <2>4, QuietSteps
  <1> QED BY <1>1, <1>2

(* The key that is read next adds its sockets to those counted.            *)
LEMMA ReadCounts ==
  ASSUME Inv, SetsOK, Settled, NEW S \in SUBSET Processes, NEW q \in S
  PROVE  Cardinality(Counted(S \ {q})) = Cardinality(Counted(S)) + keys[q]
  <1> DEFINE T == {c \in Connected : proc[c] = q}
  <1>1. Counted(S \ {q}) = Counted(S) \cup T /\ Counted(S) \cap T = {}
    BY DEF Counted
  <1>2. Counted(S) \in SUBSET Clients /\ T \in SUBSET Clients
    BY DEF Counted, Connected, At
  <1>3. keys[q] = Cardinality(T)
    BY KeyCounts
  <1>4. IsFiniteSet(Counted(S)) /\ IsFiniteSet(T)
    BY <1>2, Finite
  <1>5. Cardinality(Counted(S)) \in Nat /\ Cardinality(T) \in Nat
    BY <1>2, Finite
  <1> HIDE DEF T
  <1>6. Cardinality(Counted(S) \cup T)
          = Cardinality(Counted(S)) + Cardinality(T) - Cardinality(Counted(S) \cap T)
    BY <1>4, FS_Union
  <1>7. Cardinality(Counted(S) \cap T) = 0
    BY <1>1, FS_EmptySet
  <1>8. Cardinality(Counted(S \ {q})) = Cardinality(Counted(S) \cup T)
    BY <1>1
  <1> QED BY <1>3, <1>5, <1>6, <1>7, <1>8

LEMMA CalmExactKept ==
  ASSUME Inv, CalmInv, [Next]_vars
  PROVE  CalmExact'
  <1> SUFFICES ASSUME NEW x \in calm', beat'[x].at \in {"read", "write"}
               PROVE  beat'[x].total = Cardinality(Counted(beat[x].toread)')
    BY DEF CalmExact
  <1>1. UNCHANGED <<entry, clients, keys>>
    BY QuietSteps
  <1>2. /\ Connected' = Connected /\ (Settled' <=> Settled)
        /\ \A S : Counted(S)' = Counted(S)
    BY <1>1, QuietKeeps
  <1>3. Counted(beat[x].toread)' = Counted(beat'[x].toread)
    BY <1>1, <1>2 DEF Counted, clients
  <1>4. calm \subseteq Processes /\ calm' \subseteq Processes /\ x \in Processes
    BY NextInv DEF Inv, TypeOK
  <1>5. CASE beat'[x] = beat[x] /\ x \in calm
    BY <1>3, <1>5 DEF CalmInv, CalmExact
  <1>6. ASSUME NEW p \in Processes, StartBeat(p)
        PROVE  beat'[x].total = Cardinality(Counted(beat[x].toread)')
    <2>1. beat'[p].at \in {"refresh", "scan"}
      BY <1>6 DEF StartBeat, Wake, Asleep, Inv, TypeOK
    <2>2. x # p
      BY <2>1
    <2> QED BY <1>4, <1>5, <1>6, <2>2 DEF StartBeat, Wake, Inv, TypeOK
  <1>7. ASSUME NEW p \in Processes, calm' = calm, NEW b, Wake(p, b),
               b.at \in {"read", "write"} => b.total = Cardinality(Counted(b.toread))
        PROVE  beat'[x].total = Cardinality(Counted(beat[x].toread)')
    <2>1. CASE x = p
      <3>1. beat'[x] = b
        BY <1>4, <1>7, <2>1 DEF Wake, Inv, TypeOK
      <3> QED BY <1>3, <1>7, <3>1
    <2>2. CASE x # p
      <3>1. beat'[x] = beat[x]
        BY <1>4, <1>7, <2>2 DEF Wake, Inv, TypeOK
      <3> QED BY <1>5, <1>7, <3>1
    <2> QED BY <2>1, <2>2
  <1>8. ASSUME NEW p \in Processes, Refresh(p), calm' = calm
        PROVE  beat'[x].total = Cardinality(Counted(beat[x].toread)')
    <2> DEFINE b == [Asleep EXCEPT !.at = "scan"]
    <2>1. Wake(p, b)
      BY <1>8 DEF Refresh
    <2>2. b.at = "scan"
      BY DEF Asleep
    <2> HIDE DEF b
    <2> QED BY <1>7, <1>8, <2>1, <2>2
  <1>9. ASSUME NEW p \in Processes, Scan(p) \/ Rescan(p), calm' = calm, ~BeatFails(p)
        PROVE  beat'[x].total = Cardinality(Counted(beat[x].toread)')
    <2>1. PICK at : Scanned(p, at)
      BY <1>9, ScanIs
    <2> DEFINE b == [Asleep EXCEPT !.toread = Reported, !.at = at]
    <2>2. b.at = at /\ b.toread = Reported /\ b.total = 0
      BY DEF Asleep
    <2>3. Wake(p, b)
      BY <2>1 DEF Scanned
    <2>4. Counted(Reported) = {}
      <3> SUFFICES ASSUME NEW c \in Connected, proc[c] \notin Reported
                   PROVE  FALSE
        BY DEF Counted
      <3>1. proc[c] \in Processes
        BY DEF Connected, At, Inv, TypeOK
      <3>2. keys[proc[c]] = 0
        BY <3>1 DEF Reported, Inv, TypeOK
      <3>3. Settled
        BY <1>9 DEF CalmInv, CalmSettled
      <3>4. Cardinality({d \in Connected : proc[d] = proc[c]}) = 0
        BY <3>1, <3>2, <3>3, KeyCounts DEF CalmInv
      <3>5. {d \in Connected : proc[d] = proc[c]} \in SUBSET Clients
        BY DEF Connected, At
      <3>6. {d \in Connected : proc[d] = proc[c]} = {}
        BY <3>4, <3>5, Finite, FS_EmptySet
      <3> QED BY <3>6
    <2>5. b.total = Cardinality(Counted(b.toread))
      BY <2>2, <2>4, FS_EmptySet
    <2> HIDE DEF b
    <2> QED BY <1>7, <1>9, <2>3, <2>5
  <1>10. ASSUME NEW p \in Processes, NEW q \in Processes, Read(p, q), UNCHANGED <<faults, calm>>
         PROVE  beat'[x].total = Cardinality(Counted(beat[x].toread)')
    <2>1. q \in beat[p].toread /\ beat[p].at = "read" /\ beat[p].toread \in SUBSET Processes
      BY <1>10 DEF Read, Beats, Inv, TypeOK
    <2>2. Wake(p, Advanced(p, q, keys[q]))
      <3>1. ~Fault("redis")
        BY <1>10 DEF Fault, Inv, TypeOK
      <3> QED BY <1>10, <3>1 DEF Read, Advanced
    <2>3. CASE p \in calm
      <3>1. Settled
        BY <2>3 DEF CalmInv, CalmSettled
      <3>2. beat[p].total = Cardinality(Counted(beat[p].toread))
        BY <2>1, <2>3 DEF CalmInv, CalmExact
      <3>3. Cardinality(Counted(beat[p].toread \ {q}))
              = Cardinality(Counted(beat[p].toread)) + keys[q]
        BY <2>1, <3>1, ReadCounts DEF CalmInv
      <3>4. Advanced(p, q, keys[q]).total = Cardinality(Counted(Advanced(p, q, keys[q]).toread))
        <4>1. /\ Advanced(p, q, keys[q]).toread = beat[p].toread \ {q}
              /\ Advanced(p, q, keys[q]).total = beat[p].total + keys[q]
          BY AdvancedIs
        <4> QED BY <3>2, <3>3, <4>1
      <3> QED BY <1>7, <1>10, <2>2, <3>4
    <2>4. CASE p \notin calm
      <3>1. x # p /\ x \in calm
        BY <1>10, <2>4
      <3>2. beat'[x] = beat[x]
        BY <1>4, <2>2, <3>1 DEF Wake, Inv, TypeOK
      <3> QED BY <1>5, <3>1, <3>2
    <2> QED BY <2>3, <2>4
  <1>11. ASSUME NEW p \in Processes, Wake(p, Asleep), calm' = calm
         PROVE  beat'[x].total = Cardinality(Counted(beat[x].toread)')
    <2>1. Asleep.at = "sleep"
      BY DEF Asleep
    <2> QED BY <1>7, <1>11, <2>1
  <1> QED BY <1>5, <1>6, <1>8, <1>9, <1>10, <1>11, QuietSteps

(* A heartbeat that found every key right and was not disturbed until its  *)
(* SET leaves the counter at the number of sockets that disconnect_user    *)
(* has yet to see, for any number of sockets and of processes.             *)
THEOREM CalmBeatsCorrect == Spec => CalmBeatsAreExact
  <1>1. Init => Inv /\ CalmInv
    BY InitInv
       DEF Init, Asleep, CalmInv, SetsOK, CalmSettled, AllRead, CalmExact, At
  <1>2. Inv /\ CalmInv /\ [Next]_vars => (Inv /\ CalmInv)'
    BY NextInv, SetsKept, CalmSettledKept, AllReadKept, CalmExactKept DEF CalmInv
  <1>3. Inv /\ CalmInv /\ [Next]_vars =>
          [\A p \in calm : beat[p].at = "write" /\ beat'[p].at = "sleep" /\ p \in calm'
             => cnt' = Cardinality(Connected)]_vars
    <2> SUFFICES ASSUME Inv, CalmInv, [Next]_vars, NEW p \in calm, beat[p].at = "write",
                        beat'[p].at = "sleep", p \in calm'
                 PROVE  cnt' = Cardinality(Connected)
      OBVIOUS
    <2>1. p \in Processes
      BY DEF Inv, TypeOK
    <2>2. PICK q \in Processes :
            \/ StartBeat(q) \/ Refresh(q) \/ Scan(q) \/ Rescan(q)
            \/ (\E k \in Processes : Read(q, k))
            \/ Write(q) /\ UNCHANGED calm /\ Wake(q, Asleep)
      BY QuietSteps
    <2>3. q = p
      BY <2>1, <2>2 DEF StartBeat, Refresh, Scan, Rescan, Read, Wake, BeatFails, Inv, TypeOK
    <2>4. Write(p) /\ UNCHANGED calm
      BY <2>2, <2>3 DEF StartBeat, Refresh, Scan, Rescan, Read, Beats
    <2>5. cnt' = beat[p].total
      BY <2>4 DEF Write, Wrote, BeatFails, Disturb, Overwrite
    <2>6. Counted(beat[p].toread) = Connected
      BY <2>1 DEF CalmInv, AllRead, Counted
    <2> QED BY <2>5, <2>6 DEF CalmInv, CalmExact
  <1> QED BY <1>1, <1>2, <1>3, PTL DEF Spec, CalmBeatsAreExact
=============================================================================
