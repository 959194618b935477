--------------------------- MODULE DbBackupProofs ---------------------------
(***************************************************************************)
(* What DbBackup promises, for any number of workers, retries, seconds and *)
(* faults.  A step of a run touches only the files of its own name (Keeps- *)
(* Others), and a run that is alone with its name finds its files as it    *)
(* left them (Holds).                                                      *)
(***************************************************************************)
EXTENDS DbBackup, TLAPS

-----------------------------------------------------------------------------
(* The invariant.                                                          *)

Works(w) == job[w].at # "idle"

(* Two runs at work on one name have both been counted.                    *)
TwinsCounted ==
  \A v, w \in Workers :
    v # w /\ Works(v) /\ Works(w) /\ Name(v) = Name(w) => runs[Name(w)] > 1

(* Without a key no run gets to openssl.                                   *)
KeyedEncryption ==
  \A w \in Workers : job[w].at \in {"encrypt", "encrypting"} => encrypt

(* A name that something is known of has been used.                        *)
UsedNames == \A n \in reported \cup broken : runs[n] > 0

Clean(n) == /\ Kept(n) = IF n \in reported THEN "whole" ELSE "none"
            /\ encrypt => dump[n] = "none"

Empty(n) == dump[n] = "none" /\ enc[n] = "none"

(* The files of a run at each of its steps, when nobody shares its name.   *)
HoldsAt(at, ok, n) ==
  /\ at = "open" => Empty(n)
  /\ at = "dumping" => ok /\ enc[n] = "none"
  /\ at = "size" => dump[n] = "whole" /\ enc[n] = "none"
  /\ at = "encrypt" => encrypt /\ dump[n] = "whole" /\ enc[n] = "none"
  /\ at = "encrypting" => encrypt /\ ok /\ dump[n] = "whole"
  /\ at \in {"swap", "unlink"} => encrypt /\ dump[n] = "whole" /\ enc[n] = "whole"
  /\ at = "sizeEnc" => encrypt /\ dump[n] = "none" /\ enc[n] = "whole"
  /\ at = "discardEnc" => dump[n] = "none"
  /\ at = "again" => Empty(n)
  /\ at = "againOuter" => n \in broken \/ Empty(n)
  /\ at \in {"prune", "report"} => Kept(n) = "whole" /\ (encrypt => dump[n] = "none")
  /\ at = "ack" => n \in broken \/ Clean(n)
  /\ at # "ack" => n \notin reported

Holds(w) == HoldsAt(job[w].at, job[w].intact, Name(w))

Alone == \A w \in Workers : Works(w) /\ runs[Name(w)] < 2 => Holds(w)

(* A backup nothing will touch any more, or a name that was shared.        *)
Settled(n) ==
  \/ runs[n] > 1
  \/ /\ Kept(n) = "whole"
     /\ \A w \in Workers : Works(w) /\ Name(w) = n => job[w].at \in {"report", "ack"}

PrunedWhenSettled == ~earlier => \E n \in Names : Settled(n)

Inv == /\ TypeOK /\ KeyedEncryption /\ TwinsCounted /\ UsedNames /\ Alone
       /\ ReportedStays /\ NothingLeftBehind /\ PrunedWhenSettled

-----------------------------------------------------------------------------
(* What a step of a run leaves alone.                                      *)
KeepsOthers(w) ==
  /\ Works(w) /\ UNCHANGED <<encrypt, runs>>
  /\ \A v \in Workers \ {w} :
       /\ job'[v].at = job[v].at /\ job'[v].name = job[v].name
       /\ Name(v) # Name(w) => job'[v] = job[v]
  /\ job'[w].at = "idle" \/ job'[w].name = Name(w)
  /\ job'[w].at \in {"encrypt", "encrypting"} => encrypt
  /\ \A n \in Names \ {Name(w)} :
       /\ dump'[n] = dump[n] /\ enc'[n] = enc[n]
       /\ n \in reported' <=> n \in reported
       /\ n \in broken' <=> n \in broken
  /\ broken \subseteq broken'
  /\ earlier' = earlier \/ (job[w].at = "prune" /\ job'[w].at = "report")

(* What it does with its own files, when it is alone with them.            *)
DoesItsPart(w) ==
  \A n \in {Name(w)} :
      /\ job'[w].at # "idle" => Holds(w)'
      /\ job'[w].at = "idle" => n \in broken' \/ Clean(n)'
      /\ n \in reported' => Kept(n)' = "whole"
      /\ Kept(n) = "whole" /\ job[w].at \in {"report", "ack"}
           => Kept(n)' = "whole" /\ job'[w].at \in {"report", "ack", "idle"}
      /\ job[w].at = "prune" /\ job'[w].at = "report" => Kept(n)' = "whole"

Good(w) == TypeOK' /\ KeepsOthers(w) /\ (runs[Name(w)] < 2 => DoesItsPart(w))

(* A good step keeps the invariant.                                        *)
LEMMA GoodStep ==
  ASSUME Inv, NEW w \in Workers, Good(w)
  PROVE  Inv'
<1> USE DEF Works, Name
<1>1. Name(w) \in Names /\ runs[Name(w)] > 0
  BY DEF Inv, TypeOK, Good, KeepsOthers
<1>2. TypeOK'
  BY DEF Good
<1>3. KeyedEncryption' /\ TwinsCounted'
  BY DEF Inv, KeyedEncryption, TwinsCounted, Good, KeepsOthers
<1>4. UsedNames'
  BY <1>1, <1>2 DEF Inv, UsedNames, Good, KeepsOthers, TypeOK
<1>5. Alone'
  <2> SUFFICES ASSUME NEW v \in Workers, Works(v)', runs'[Name(v)'] < 2
               PROVE  Holds(v)'
    BY DEF Alone
  <2>1. CASE v = w
    BY <2>1 DEF Good, KeepsOthers, DoesItsPart
  <2>2. CASE v # w
    <3>1. Name(v) # Name(w) /\ Name(v) \in Names
      BY <2>2 DEF Inv, TwinsCounted, Good, KeepsOthers, TypeOK
    <3>2. job'[v] = job[v] /\ Holds(v)
      BY <2>2, <3>1 DEF Inv, Alone, Good, KeepsOthers
    <3> QED
      BY <2>2, <3>1, <3>2 DEF Holds, HoldsAt, Empty, Clean, Kept, Good, KeepsOthers
  <2> QED
    BY <2>1, <2>2
<1>6. ReportedStays'
  <2> SUFFICES ASSUME NEW n \in reported', ~(runs'[n] > 1)
               PROVE  Kept(n)' = "whole"
    BY DEF ReportedStays
  <2>1. n \in Names /\ runs[n] < 2
    BY <1>2 DEF TypeOK, Good, KeepsOthers
  <2>2. CASE n = Name(w)
    BY <2>1, <2>2, <1>1 DEF Good, DoesItsPart
  <2>3. CASE n # Name(w)
    BY <2>1, <2>3 DEF Inv, ReportedStays, Kept, Good, KeepsOthers
  <2> QED
    BY <2>2, <2>3
<1>7. NothingLeftBehind'
  <2> SUFFICES ASSUME NEW n \in Names, ~AtWork(n)', runs'[n] < 2, n \notin broken'
               PROVE  Clean(n)'
    BY DEF NothingLeftBehind, Clean
  <2>1. CASE n = Name(w)
    BY <2>1 DEF AtWork, Good, KeepsOthers, DoesItsPart
  <2>2. CASE n # Name(w)
    <3>1. ~AtWork(n)
      BY <2>2 DEF AtWork, Good, KeepsOthers
    <3>2. Clean(n)
      BY <2>2, <3>1 DEF Inv, NothingLeftBehind, Clean, Good, KeepsOthers
    <3> QED
      BY <2>2, <3>2 DEF Clean, Kept, Good, KeepsOthers
  <2> QED
    BY <2>1, <2>2
<1>8. PrunedWhenSettled'
  <2> SUFFICES ASSUME ~earlier'
               PROVE  \E n \in Names : Settled(n)'
    BY DEF PrunedWhenSettled
  <2>1. CASE earlier
    <3>1. job[w].at = "prune" /\ job'[w].at = "report"
      BY <2>1 DEF Good, KeepsOthers
    <3>2. \A n \in {Name(w)} : Settled(n)'
      BY <1>1, <3>1 DEF Inv, TypeOK, Settled, TwinsCounted, Good, KeepsOthers, DoesItsPart
    <3> QED
      BY <1>1, <3>2
  <2>2. CASE ~earlier
    <3>1. PICK n \in Names : Settled(n)
      BY <2>2 DEF Inv, PrunedWhenSettled
    <3>2. CASE n # Name(w)
      BY <3>1, <3>2 DEF Settled, Kept, Good, KeepsOthers
    <3>3. CASE n = Name(w)
      BY <1>1, <3>1, <3>3 DEF Inv, TypeOK, Settled, Good, KeepsOthers, DoesItsPart
    <3> QED
      BY <3>2, <3>3, <3>1 DEF Settled
  <2> QED
    BY <2>1, <2>2
<1> QED
  BY <1>2, <1>3, <1>4, <1>5, <1>6, <1>7, <1>8 DEF Inv

-----------------------------------------------------------------------------
(* The steps of a run.                                                     *)

(* The first run with a name finds nothing there.                          *)
LEMMA FreshNames ==
  ASSUME Inv, NEW n \in Names, runs[n] = 0
  PROVE  ~AtWork(n) /\ n \notin reported /\ n \notin broken /\ Empty(n)
<1>1. ~AtWork(n) /\ n \notin reported /\ n \notin broken
  BY DEF Inv, TypeOK, UsedNames, AtWork, Name
<1> QED
  BY <1>1 DEF Inv, TypeOK, NothingLeftBehind, Kept, Empty

(* A run that is alone has no twin.                                        *)
LEMMA NoTwin ==
  ASSUME Inv, NEW w \in Workers, Works(w), runs[Name(w)] < 2,
         NEW S \in SUBSET (Steps \ {"idle"})
  PROVE  Twins(w, S) = {}
BY DEF Inv, TypeOK, TwinsCounted, Twins, Works, Name

(* The jobs have their types, and whoever works on a name is counted.      *)
JobOK == /\ job \in [Workers -> [at : Steps, name : Names, intact : BOOLEAN]]
         /\ \A w \in Workers : Works(w) => runs[Name(w)] > 0

(* w goes to a step, the others stay at theirs.                            *)
Goes(w, step) ==
  /\ JobOK'
  /\ job'[w].at = step /\ job'[w].name = job[w].name
  /\ \A v \in Workers \ {w} :
       /\ job'[v].at = job[v].at /\ job'[v].name = job[v].name
       /\ job[v].name # job[w].name => job'[v] = job[v]

(* Goto and Move are what Goes says.                                       *)
LEMMA GotoGoes ==
  ASSUME JobOK, NEW w \in Workers, Works(w), NEW step \in Steps,
         Goto(w, step), runs' = runs
  PROVE  Goes(w, step) /\ job'[w].intact = job[w].intact
BY DEF JobOK, Works, Goto, Goes, Name

(* Move also sets intact of the run that moves.                            *)
LEMMA MoveGoes ==
  ASSUME JobOK, NEW w \in Workers, Works(w), NEW step \in Steps, NEW ok \in BOOLEAN,
         NEW S, Move(w, step, ok, Twins(w, S)), runs' = runs
  PROVE  Goes(w, step) /\ job'[w].intact = ok
<1> USE DEF JobOK, Works, Name
<1>1. job'[w] = [job[w] EXCEPT !.at = step, !.intact = ok]
  BY DEF Move
<1>2. \A v \in Workers \ {w} :
        job'[v] = [job[v] EXCEPT !.intact = @ /\ v \notin Twins(w, S)]
  BY DEF Move
<1>3. DOMAIN job' = Workers /\ job' = [v \in Workers |-> job'[v]]
  BY DEF Move
<1>4. \A v \in Workers : job'[v] \in [at : Steps, name : Names, intact : BOOLEAN]
  <2>1. \A v \in Workers \ {w} :
          \E b \in BOOLEAN : job'[v] = [job[v] EXCEPT !.intact = b]
    BY <1>2, Zenon
  <2>2. ASSUME NEW v \in Workers \ {w}
        PROVE  job'[v] \in [at : Steps, name : Names, intact : BOOLEAN]
    <3>1. PICK b \in BOOLEAN : job'[v] = [job[v] EXCEPT !.intact = b]
      BY <2>1
    <3>2. job[v] \in [at : Steps, name : Names, intact : BOOLEAN]
      OBVIOUS
    <3> QED
      BY <3>1, <3>2
  <2>3. job'[w] \in [at : Steps, name : Names, intact : BOOLEAN]
    <3>1. job[w] \in [at : Steps, name : Names, intact : BOOLEAN]
      OBVIOUS
    <3> QED
      BY <1>1, <3>1
  <2> QED
    BY <2>2, <2>3
<1>5. ASSUME NEW v \in Workers \ {w}
      PROVE  /\ job'[v].at = job[v].at /\ job'[v].name = job[v].name
             /\ job[v].name # job[w].name => job'[v] = job[v]
  <2>1. job'[v].at = job[v].at /\ job'[v].name = job[v].name
    BY <1>2
  <2>2. ASSUME job[v].name # job[w].name
        PROVE  job'[v] = job[v]
    <3>1. v \notin Twins(w, S)
      BY <2>2 DEF Twins
    <3>2. (job[v].intact /\ v \notin Twins(w, S)) = job[v].intact
      BY <3>1
    <3>3. job'[v] = [job[v] EXCEPT !.intact = job[v].intact]
      BY <1>2, <3>2, Zenon
    <3> QED
      BY <3>3
  <2> QED
    BY <2>1, <2>2
<1>6. JobOK'
  <2>1. job' \in [Workers -> [at : Steps, name : Names, intact : BOOLEAN]]
    BY <1>3, <1>4
  <2>2. ASSUME NEW v \in Workers, Works(v)'
        PROVE  runs'[Name(v)'] > 0
    <3>1. job'[v].name = job[v].name /\ (v = w \/ job'[v].at = job[v].at)
      BY <1>1, <1>5
    <3>2. Works(v)
      BY <2>2, <3>1
    <3> QED
      BY <3>1, <3>2
  <2> QED
    BY <2>1, <2>2
<1>7. job'[w].at = step /\ job'[w].name = job[w].name /\ job'[w].intact = ok
  <2>1. job[w] \in [at : Steps, name : Names, intact : BOOLEAN]
    OBVIOUS
  <2> QED
    BY <1>1, <2>1
<1> QED
  BY <1>5, <1>6, <1>7 DEF Goes

-----------------------------------------------------------------------------
(* Every step of a run is Good: one lemma per action.                      *)
USE DEF Works, Name, AtStep, Fault, files

(* JobOK is part of the type.                                              *)
LEMMA InvJobOK ==
  ASSUME Inv
  PROVE  JobOK
BY DEF Inv, TypeOK, JobOK

(* The message of a retry is for an attempt there is.                      *)
LEMMA PublishType ==
  ASSUME TypeOK, NEW w \in Workers, Publish(w)
  PROVE  queue' \in [Attempts -> Nat]
<1>1. CASE Attempt(w) < MaxRetries
  <2>1. Attempt(w) + 1 \in Attempts /\ queue[Attempt(w) + 1] + 1 \in Nat
    <3>1. Attempt(w) \in 0 .. MaxRetries
      BY DEF TypeOK, Attempt, Names, Attempts
    <3>2. Attempt(w) + 1 \in Attempts
      BY <1>1, <3>1, BackupAssumption DEF Attempts
    <3> QED
      BY <3>2 DEF TypeOK
  <2> QED
    BY <1>1, <2>1 DEF TypeOK, Publish
<1>2. CASE ~(Attempt(w) < MaxRetries)
  BY <1>2 DEF TypeOK, Publish
<1> QED
  BY <1>1, <1>2

(* No password file: nothing was written.                                  *)
LEMMA PgpassFailsGood ==
  ASSUME Inv, NEW w \in Workers, PgpassFails(w)
  PROVE  Good(w)
<1>1. Works(w) /\ JobOK /\ UNCHANGED <<encrypt, second, runs>>
  BY InvJobOK DEF PgpassFails
<1>2. Goes(w, "ack") /\ job'[w].intact = job[w].intact
  BY <1>1, GotoGoes DEF PgpassFails, Steps
<1>3. TypeOK'
  BY <1>1, <1>2 DEF Inv, TypeOK, KeyedEncryption, JobOK, Goes, Contents,
     PgpassFails
<1>4. KeepsOthers(w)
  BY <1>1, <1>2 DEF Inv, TypeOK, KeepsOthers, Goes, PgpassFails
<1>5. ASSUME runs[Name(w)] < 2
      PROVE  DoesItsPart(w)
  BY <1>1, <1>2, <1>5 DEF Inv, TypeOK, Alone, ReportedStays, DoesItsPart,
     Holds, HoldsAt, Empty, Clean, Kept, Goes, PgpassFails
<1> QED
  BY <1>3, <1>4, <1>5 DEF Good

(* A run that is alone has its dump to itself.                             *)
LEMMA OpenDumpGood ==
  ASSUME Inv, NEW w \in Workers, OpenDump(w)
  PROVE  Good(w)
<1>1. Works(w) /\ JobOK /\ UNCHANGED <<encrypt, second, runs>>
  BY InvJobOK DEF OpenDump
<1>2. /\ Goes(w, "dumping")
      /\ job'[w].intact = (Twins(w, {"dumping"}) = {} \/ dump[Name(w)] = "none")
  <2> DEFINE ok == Twins(w, {"dumping"}) = {} \/ dump[Name(w)] = "none"
  <2>1. Move(w, "dumping", ok, Twins(w, {"dumping", "encrypting"})) /\ ok \in BOOLEAN
    BY DEF OpenDump
  <2> HIDE DEF ok
  <2>2. Goes(w, "dumping") /\ job'[w].intact = ok
    BY <1>1, <2>1, MoveGoes DEF OpenDump, Steps
  <2> QED
    BY <2>2 DEF ok
<1>3. TypeOK'
  BY <1>1, <1>2 DEF Inv, TypeOK, KeyedEncryption, JobOK, Goes, Contents,
     OpenDump
<1>4. KeepsOthers(w)
  BY <1>1, <1>2 DEF Inv, TypeOK, KeepsOthers, Goes, OpenDump
<1>5. ASSUME runs[Name(w)] < 2
      PROVE  DoesItsPart(w)
  <2>1. job'[w].intact = TRUE
    BY <1>1, <1>2, <1>5, NoTwin DEF Steps
  <2> QED
    BY <1>1, <1>2, <1>5, <2>1 DEF Inv, TypeOK, Alone, ReportedStays,
       DoesItsPart, Holds, HoldsAt, Empty, Clean, Kept, Goes, OpenDump
<1> QED
  BY <1>3, <1>4, <1>5 DEF Good

(* What is written by one run alone is whole.                              *)
LEMMA DumpEndsGood ==
  ASSUME Inv, NEW w \in Workers, DumpEnds(w)
  PROVE  Good(w)
<1>1. Works(w) /\ JobOK /\ UNCHANGED <<encrypt, second, runs>>
  BY InvJobOK DEF DumpEnds
<1>2. Goes(w, "size") /\ job'[w].intact = job[w].intact
  BY <1>1, GotoGoes DEF DumpEnds, Steps
<1>3. TypeOK'
  BY <1>1, <1>2 DEF Inv, TypeOK, KeyedEncryption, JobOK, Goes, Contents,
     DumpEnds
<1>4. KeepsOthers(w)
  BY <1>1, <1>2 DEF Inv, TypeOK, KeepsOthers, Goes, DumpEnds
<1>5. ASSUME runs[Name(w)] < 2
      PROVE  DoesItsPart(w)
  BY <1>1, <1>2, <1>5 DEF Inv, TypeOK, Alone, ReportedStays, DoesItsPart,
     Holds, HoldsAt, Empty, Clean, Kept, Goes, DumpEnds
<1> QED
  BY <1>3, <1>4, <1>5 DEF Good

(* A failing pg_dump leaves nothing.                                       *)
LEMMA DumpFailsGood ==
  ASSUME Inv, NEW w \in Workers, DumpFails(w)
  PROVE  Good(w)
<1>1. Works(w) /\ JobOK /\ UNCHANGED <<encrypt, second, runs>>
  BY InvJobOK DEF DumpFails
<1>2. Goes(w, "againOuter")
  BY <1>1, MoveGoes DEF DumpFails, Steps
<1>3. TypeOK'
  BY <1>1, <1>2 DEF Inv, TypeOK, KeyedEncryption, JobOK, Goes, Contents,
     DumpFails
<1>4. KeepsOthers(w)
  BY <1>1, <1>2 DEF Inv, TypeOK, KeepsOthers, Goes, DumpFails
<1>5. ASSUME runs[Name(w)] < 2
      PROVE  DoesItsPart(w)
  BY <1>1, <1>2, <1>5 DEF Inv, TypeOK, Alone, ReportedStays, DoesItsPart,
     Holds, HoldsAt, Empty, Clean, Kept, Goes, DumpFails
<1> QED
  BY <1>3, <1>4, <1>5 DEF Good

(* A pg_dump that is killed leaves a broken name.                          *)
LEMMA DumpTimesOutGood ==
  ASSUME Inv, NEW w \in Workers, DumpTimesOut(w)
  PROVE  Good(w)
<1>1. Works(w) /\ JobOK /\ UNCHANGED <<encrypt, second, runs>>
  BY InvJobOK DEF DumpTimesOut
<1>2. Goes(w, "againOuter") /\ job'[w].intact = job[w].intact
  BY <1>1, GotoGoes DEF DumpTimesOut, Steps
<1>3. TypeOK'
  BY <1>1, <1>2 DEF Inv, TypeOK, KeyedEncryption, JobOK, Goes, Contents,
     DumpTimesOut
<1>4. KeepsOthers(w)
  BY <1>1, <1>2 DEF Inv, TypeOK, KeepsOthers, Goes, DumpTimesOut
<1>5. ASSUME runs[Name(w)] < 2
      PROVE  DoesItsPart(w)
  BY <1>1, <1>2, <1>5 DEF Inv, TypeOK, Alone, ReportedStays, DoesItsPart,
     Holds, HoldsAt, Empty, Clean, Kept, Goes, DumpTimesOut
<1> QED
  BY <1>3, <1>4, <1>5 DEF Good

(* The size is taken of a dump that is there.                              *)
LEMMA SizeDumpGood ==
  ASSUME Inv, NEW w \in Workers, SizeDump(w)
  PROVE  Good(w)
<1>1. Works(w) /\ JobOK /\ UNCHANGED <<encrypt, second, runs>>
  BY InvJobOK DEF SizeDump
<1>2. \/ Goes(w, "againOuter") /\ dump[Name(w)] = "none"
      \/ Goes(w, "encrypt") /\ dump[Name(w)] # "none" /\ encrypt
      \/ Goes(w, "prune") /\ dump[Name(w)] # "none" /\ ~encrypt
  <2>1. CASE dump[Name(w)] = "none"
    BY <1>1, <2>1, GotoGoes DEF SizeDump, Steps
  <2>2. CASE dump[Name(w)] # "none" /\ encrypt
    BY <1>1, <2>2, GotoGoes DEF SizeDump, Steps
  <2>3. CASE dump[Name(w)] # "none" /\ ~encrypt
    BY <1>1, <2>3, GotoGoes DEF SizeDump, Steps
  <2> QED
    BY <2>1, <2>2, <2>3
<1>3. TypeOK'
  BY <1>1, <1>2 DEF Inv, TypeOK, KeyedEncryption, JobOK, Goes, Contents,
     SizeDump
<1>4. KeepsOthers(w)
  BY <1>1, <1>2 DEF Inv, TypeOK, KeepsOthers, Goes, SizeDump
<1>5. ASSUME runs[Name(w)] < 2
      PROVE  DoesItsPart(w)
  BY <1>1, <1>2, <1>5 DEF Inv, TypeOK, Alone, ReportedStays, DoesItsPart,
     Holds, HoldsAt, Empty, Clean, Kept, Goes, SizeDump
<1> QED
  BY <1>3, <1>4, <1>5 DEF Good

(* openssl reads a whole dump when the run is alone.                       *)
LEMMA OpenEncGood ==
  ASSUME Inv, NEW w \in Workers, OpenEnc(w)
  PROVE  Good(w)
<1>1. Works(w) /\ JobOK /\ UNCHANGED <<encrypt, second, runs>>
  BY InvJobOK DEF OpenEnc
<1>2. \/ Goes(w, "discard") /\ dump[Name(w)] = "none" /\ enc' = enc
      \/ /\ dump[Name(w)] # "none"
         /\ enc' = [enc EXCEPT ![Name(w)] = "partial"]
         /\ Goes(w, "encrypting")
         /\ dump[Name(w)] = "whole" /\ Twins(w, {"encrypting"}) = {}
              => job'[w].intact = TRUE
  <2> DEFINE ok == /\ dump[Name(w)] = "whole"
                   /\ Twins(w, {"encrypting"}) = {} \/ enc[Name(w)] = "none"
  <2>1. CASE dump[Name(w)] = "none"
    BY <1>1, <2>1, GotoGoes DEF OpenEnc, Steps
  <2>2. CASE dump[Name(w)] # "none"
    <3>1. Move(w, "encrypting", ok, Twins(w, {"encrypting"})) /\ ok \in BOOLEAN
      BY <2>2 DEF OpenEnc
    <3> HIDE DEF ok
    <3>2. Goes(w, "encrypting") /\ job'[w].intact = ok
      BY <1>1, <3>1, MoveGoes DEF OpenEnc, Steps
    <3> QED
      BY <2>2, <3>2 DEF ok, OpenEnc
  <2> QED
    BY <2>1, <2>2
<1>3. TypeOK'
  BY <1>1, <1>2 DEF Inv, TypeOK, KeyedEncryption, JobOK, Goes, Contents,
     OpenEnc
<1>4. KeepsOthers(w)
  <2>1. encrypt
    BY DEF Inv, KeyedEncryption, OpenEnc
  <2>2. \A n \in Names \ {Name(w)} : enc'[n] = enc[n]
    BY <1>2 DEF Inv, TypeOK
  <2>3. UNCHANGED <<dump, earlier, reported, broken>>
    BY DEF OpenEnc
  <2> QED
    BY <1>1, <1>2, <2>1, <2>2, <2>3 DEF KeepsOthers, Goes
<1>5. ASSUME runs[Name(w)] < 2
      PROVE  DoesItsPart(w)
  <2>1. Twins(w, {"encrypting"}) = {}
    BY <1>1, <1>5, NoTwin DEF Steps
  <2> QED
    BY <1>1, <1>2, <1>5, <2>1 DEF Inv, TypeOK, Alone, ReportedStays,
       DoesItsPart, Holds, HoldsAt, Empty, Clean, Kept, Goes, OpenEnc
<1> QED
  BY <1>3, <1>4, <1>5 DEF Good

(* The encrypted file is whole when openssl ends.                          *)
LEMMA EncEndsGood ==
  ASSUME Inv, NEW w \in Workers, EncEnds(w)
  PROVE  Good(w)
<1>1. Works(w) /\ JobOK /\ UNCHANGED <<encrypt, second, runs>>
  BY InvJobOK DEF EncEnds
<1>2. Goes(w, "swap") /\ job'[w].intact = job[w].intact
  BY <1>1, GotoGoes DEF EncEnds, Steps
<1>3. TypeOK'
  BY <1>1, <1>2 DEF Inv, TypeOK, KeyedEncryption, JobOK, Goes, Contents,
     EncEnds
<1>4. KeepsOthers(w)
  BY <1>1, <1>2 DEF Inv, TypeOK, KeepsOthers, Goes, EncEnds
<1>5. ASSUME runs[Name(w)] < 2
      PROVE  DoesItsPart(w)
  BY <1>1, <1>2, <1>5 DEF Inv, TypeOK, Alone, ReportedStays, DoesItsPart,
     Holds, HoldsAt, Empty, Clean, Kept, Goes, EncEnds
<1> QED
  BY <1>3, <1>4, <1>5 DEF Good

(* A failing openssl leads to the clean-up.                                *)
LEMMA EncFailsGood ==
  ASSUME Inv, NEW w \in Workers, EncFails(w)
  PROVE  Good(w)
<1>1. Works(w) /\ JobOK /\ UNCHANGED <<encrypt, second, runs>>
  BY InvJobOK DEF EncFails
<1>2. Goes(w, "discard") /\ job'[w].intact = job[w].intact
  BY <1>1, GotoGoes DEF EncFails, Steps
<1>3. TypeOK'
  BY <1>1, <1>2 DEF Inv, TypeOK, KeyedEncryption, JobOK, Goes, Contents,
     EncFails
<1>4. KeepsOthers(w)
  BY <1>1, <1>2 DEF Inv, TypeOK, KeepsOthers, Goes, EncFails
<1>5. ASSUME runs[Name(w)] < 2
      PROVE  DoesItsPart(w)
  BY <1>1, <1>2, <1>5 DEF Inv, TypeOK, Alone, ReportedStays, DoesItsPart,
     Holds, HoldsAt, Empty, Clean, Kept, Goes, EncFails
<1> QED
  BY <1>3, <1>4, <1>5 DEF Good

(* A run that is alone finds its dump to remove.                           *)
LEMMA SwapGood ==
  ASSUME Inv, NEW w \in Workers, Swap(w)
  PROVE  Good(w)
<1>1. Works(w) /\ JobOK /\ UNCHANGED <<encrypt, second, runs>>
  BY InvJobOK DEF Swap
<1>2. \/ Goes(w, "sizeEnc") /\ dump[Name(w)] = "none"
      \/ Goes(w, "unlink") /\ dump[Name(w)] # "none"
  BY <1>1, GotoGoes DEF Swap, Steps
<1>3. TypeOK'
  BY <1>1, <1>2 DEF Inv, TypeOK, KeyedEncryption, JobOK, Goes, Contents,
     Swap
<1>4. KeepsOthers(w)
  BY <1>1, <1>2 DEF Inv, TypeOK, KeepsOthers, Goes, Swap
<1>5. ASSUME runs[Name(w)] < 2
      PROVE  DoesItsPart(w)
  BY <1>1, <1>2, <1>5 DEF Inv, TypeOK, Alone, ReportedStays, DoesItsPart,
     Holds, HoldsAt, Empty, Clean, Kept, Goes, Swap
<1> QED
  BY <1>3, <1>4, <1>5 DEF Good

(* The plain dump goes when the encrypted one is whole.                    *)
LEMMA UnlinkGood ==
  ASSUME Inv, NEW w \in Workers, Unlink(w)
  PROVE  Good(w)
<1>1. Works(w) /\ JobOK /\ UNCHANGED <<encrypt, second, runs>>
  BY InvJobOK DEF Unlink
<1>2. \/ Goes(w, "discard") /\ dump[Name(w)] = "none" /\ dump' = dump
      \/ /\ Goes(w, "sizeEnc") /\ dump[Name(w)] # "none"
         /\ dump' = [dump EXCEPT ![Name(w)] = "none"]
  BY <1>1, GotoGoes, MoveGoes DEF Unlink, Steps
<1>3. TypeOK'
  BY <1>1, <1>2 DEF Inv, TypeOK, KeyedEncryption, JobOK, Goes, Contents,
     Unlink
<1>4. KeepsOthers(w)
  BY <1>1, <1>2 DEF Inv, TypeOK, KeepsOthers, Goes, Unlink
<1>5. ASSUME runs[Name(w)] < 2
      PROVE  DoesItsPart(w)
  BY <1>1, <1>2, <1>5 DEF Inv, TypeOK, Alone, ReportedStays, DoesItsPart,
     Holds, HoldsAt, Empty, Clean, Kept, Goes, Unlink
<1> QED
  BY <1>3, <1>4, <1>5 DEF Good

(* The encrypted file is there to be sized.                                *)
LEMMA SizeEncGood ==
  ASSUME Inv, NEW w \in Workers, SizeEnc(w)
  PROVE  Good(w)
<1>1. Works(w) /\ JobOK /\ UNCHANGED <<encrypt, second, runs>>
  BY InvJobOK DEF SizeEnc
<1>2. \/ Goes(w, "discard") /\ enc[Name(w)] = "none"
      \/ Goes(w, "prune") /\ enc[Name(w)] # "none"
  BY <1>1, GotoGoes DEF SizeEnc, Steps
<1>3. TypeOK'
  BY <1>1, <1>2 DEF Inv, TypeOK, KeyedEncryption, JobOK, Goes, Contents,
     SizeEnc
<1>4. KeepsOthers(w)
  BY <1>1, <1>2 DEF Inv, TypeOK, KeepsOthers, Goes, SizeEnc
<1>5. ASSUME runs[Name(w)] < 2
      PROVE  DoesItsPart(w)
  BY <1>1, <1>2, <1>5 DEF Inv, TypeOK, Alone, ReportedStays, DoesItsPart,
     Holds, HoldsAt, Empty, Clean, Kept, Goes, SizeEnc
<1> QED
  BY <1>3, <1>4, <1>5 DEF Good

(* The clean-up removes the dump,                                          *)
LEMMA DiscardGood ==
  ASSUME Inv, NEW w \in Workers, Discard(w)
  PROVE  Good(w)
<1>1. Works(w) /\ JobOK /\ UNCHANGED <<encrypt, second, runs>>
  BY InvJobOK DEF Discard
<1>2. Goes(w, "discardEnc")
  BY <1>1, MoveGoes DEF Discard, Steps
<1>3. TypeOK'
  BY <1>1, <1>2 DEF Inv, TypeOK, KeyedEncryption, JobOK, Goes, Contents,
     Discard
<1>4. KeepsOthers(w)
  BY <1>1, <1>2 DEF Inv, TypeOK, KeepsOthers, Goes, Discard
<1>5. ASSUME runs[Name(w)] < 2
      PROVE  DoesItsPart(w)
  BY <1>1, <1>2, <1>5 DEF Inv, TypeOK, Alone, ReportedStays, DoesItsPart,
     Holds, HoldsAt, Empty, Clean, Kept, Goes, Discard
<1> QED
  BY <1>3, <1>4, <1>5 DEF Good

(* and the encrypted file.                                                 *)
LEMMA DiscardEncGood ==
  ASSUME Inv, NEW w \in Workers, DiscardEnc(w)
  PROVE  Good(w)
<1>1. Works(w) /\ JobOK /\ UNCHANGED <<encrypt, second, runs>>
  BY InvJobOK DEF DiscardEnc
<1>2. Goes(w, "again")
  BY <1>1, MoveGoes DEF DiscardEnc, Steps
<1>3. TypeOK'
  BY <1>1, <1>2 DEF Inv, TypeOK, KeyedEncryption, JobOK, Goes, Contents,
     DiscardEnc
<1>4. KeepsOthers(w)
  BY <1>1, <1>2 DEF Inv, TypeOK, KeepsOthers, Goes, DiscardEnc
<1>5. ASSUME runs[Name(w)] < 2
      PROVE  DoesItsPart(w)
  BY <1>1, <1>2, <1>5 DEF Inv, TypeOK, Alone, ReportedStays, DoesItsPart,
     Holds, HoldsAt, Empty, Clean, Kept, Goes, DiscardEnc
<1> QED
  BY <1>3, <1>4, <1>5 DEF Good

(* The inner retry touches no file,                                        *)
LEMMA AgainGood ==
  ASSUME Inv, NEW w \in Workers, Again(w)
  PROVE  Good(w)
<1>1. Works(w) /\ JobOK /\ UNCHANGED <<encrypt, second, runs>>
  BY InvJobOK DEF Again
<1>2. Goes(w, "againOuter") /\ job'[w].intact = job[w].intact
  BY <1>1, GotoGoes DEF Again, Steps
<1>3. TypeOK'
  BY <1>1, <1>2, PublishType DEF Inv, TypeOK, KeyedEncryption, JobOK, Goes,
     Contents, Again
<1>4. KeepsOthers(w)
  BY <1>1, <1>2 DEF Inv, TypeOK, KeepsOthers, Goes, Again
<1>5. ASSUME runs[Name(w)] < 2
      PROVE  DoesItsPart(w)
  BY <1>1, <1>2, <1>5 DEF Inv, TypeOK, Alone, ReportedStays, DoesItsPart,
     Holds, HoldsAt, Empty, Clean, Kept, Goes, Again
<1> QED
  BY <1>3, <1>4, <1>5 DEF Good

(* and neither does the outer one.                                         *)
LEMMA AgainOuterGood ==
  ASSUME Inv, NEW w \in Workers, AgainOuter(w)
  PROVE  Good(w)
<1>1. Works(w) /\ JobOK /\ UNCHANGED <<encrypt, second, runs>>
  BY InvJobOK DEF AgainOuter
<1>2. Goes(w, "ack") /\ job'[w].intact = job[w].intact
  BY <1>1, GotoGoes DEF AgainOuter, Steps
<1>3. TypeOK'
  BY <1>1, <1>2, PublishType DEF Inv, TypeOK, KeyedEncryption, JobOK, Goes,
     Contents, AgainOuter
<1>4. KeepsOthers(w)
  BY <1>1, <1>2 DEF Inv, TypeOK, KeepsOthers, Goes, AgainOuter
<1>5. ASSUME runs[Name(w)] < 2
      PROVE  DoesItsPart(w)
  BY <1>1, <1>2, <1>5 DEF Inv, TypeOK, Alone, ReportedStays, DoesItsPart,
     Holds, HoldsAt, Empty, Clean, Kept, Goes, AgainOuter
<1> QED
  BY <1>3, <1>4, <1>5 DEF Good

(* Whoever prunes has a whole backup.                                      *)
LEMMA PruneGood ==
  ASSUME Inv, NEW w \in Workers, Prune(w)
  PROVE  Good(w)
<1>1. Works(w) /\ JobOK /\ UNCHANGED <<encrypt, second, runs>>
  BY InvJobOK DEF Prune
<1>2. Goes(w, "report") /\ earlier' \in BOOLEAN
  BY <1>1, GotoGoes DEF Prune, Steps
<1>3. TypeOK'
  BY <1>1, <1>2 DEF Inv, TypeOK, KeyedEncryption, JobOK, Goes, Contents,
     Prune
<1>4. KeepsOthers(w)
  BY <1>1, <1>2 DEF Inv, TypeOK, KeepsOthers, Goes, Prune
<1>5. ASSUME runs[Name(w)] < 2
      PROVE  DoesItsPart(w)
  BY <1>1, <1>2, <1>5 DEF Inv, TypeOK, Alone, ReportedStays, DoesItsPart,
     Holds, HoldsAt, Empty, Clean, Kept, Goes, Prune
<1> QED
  BY <1>3, <1>4, <1>5 DEF Good

(* Whoever reports has a whole backup.                                     *)
LEMMA ReportGood ==
  ASSUME Inv, NEW w \in Workers, Report(w)
  PROVE  Good(w)
<1>1. Works(w) /\ JobOK /\ UNCHANGED <<encrypt, second, runs>>
  BY InvJobOK DEF Report
<1>2. Goes(w, "ack") /\ job'[w].intact = job[w].intact
  BY <1>1, GotoGoes DEF Report, Steps
<1>3. TypeOK'
  BY <1>1, <1>2 DEF Inv, TypeOK, KeyedEncryption, JobOK, Goes, Contents,
     Report
<1>4. KeepsOthers(w)
  BY <1>1, <1>2 DEF Inv, TypeOK, KeepsOthers, Goes, Report
<1>5. ASSUME runs[Name(w)] < 2
      PROVE  DoesItsPart(w)
  BY <1>1, <1>2, <1>5 DEF Inv, TypeOK, Alone, ReportedStays, DoesItsPart,
     Holds, HoldsAt, Empty, Clean, Kept, Goes, Report
<1> QED
  BY <1>3, <1>4, <1>5 DEF Good

(* A run that ends leaves its files clean, or its name broken.             *)
LEMMA AckGood ==
  ASSUME Inv, NEW w \in Workers, Ack(w)
  PROVE  Good(w)
<1>1. /\ Works(w) /\ UNCHANGED <<encrypt, queue, second, runs, files, broken, faults>>
      /\ job' = [job EXCEPT ![w] = Idle]
  BY DEF Ack
<1>2. Idle \in [at : Steps, name : Names, intact : BOOLEAN] /\ Idle.at = "idle"
  BY BackupAssumption DEF Idle, Steps, Names, Attempts
<1>3. TypeOK'
  BY <1>1, <1>2 DEF Inv, TypeOK
<1>4. KeepsOthers(w)
  BY <1>1, <1>2 DEF Inv, TypeOK, KeepsOthers
<1>5. ASSUME runs[Name(w)] < 2
      PROVE  DoesItsPart(w)
  BY <1>1, <1>2, <1>5 DEF Inv, TypeOK, Alone, ReportedStays, DoesItsPart, Holds,
     HoldsAt, Clean, Kept, Ack
<1> QED
  BY <1>3, <1>4, <1>5 DEF Good

(* A crash leaves a broken name.                                           *)
LEMMA CrashGood ==
  ASSUME Inv, NEW w \in Workers, Crash(w)
  PROVE  Good(w)
<1>1. /\ Works(w) /\ UNCHANGED <<encrypt, second, runs, files>>
      /\ job' = [job EXCEPT ![w] = Idle] /\ broken' = broken \cup {Name(w)}
      /\ queue' = [queue EXCEPT ![Attempt(w)] = @ + 1] /\ faults' = faults + 1
  BY DEF Crash
<1>2. Idle \in [at : Steps, name : Names, intact : BOOLEAN] /\ Idle.at = "idle"
  BY BackupAssumption DEF Idle, Steps, Names, Attempts
<1>3. TypeOK'
  <2>1. queue' \in [Attempts -> Nat]
    BY <1>1 DEF Inv, TypeOK, Attempt, Names
  <2> QED
    BY <1>1, <1>2, <2>1 DEF Inv, TypeOK
<1>4. KeepsOthers(w)
  BY <1>1, <1>2 DEF Inv, TypeOK, KeepsOthers
<1>5. ASSUME runs[Name(w)] < 2
      PROVE  DoesItsPart(w)
  BY <1>1, <1>2, <1>5 DEF Inv, TypeOK, ReportedStays, DoesItsPart, Kept
<1> QED
  BY <1>3, <1>4, <1>5 DEF Good

-----------------------------------------------------------------------------
(* A start takes a name of its own, or shares one and is counted.          *)
LEMMA StartKeepsInv ==
  ASSUME Inv, NEW w \in Workers, Start(w)
  PROVE  Inv'
<1>1. PICK a \in Attempts :
        /\ queue[a] > 0 /\ queue' = [queue EXCEPT ![a] = @ - 1]
        /\ job' = [job EXCEPT ![w] = [Idle EXCEPT !.at = "open", !.name = <<a, second[a]>>]]
        /\ runs' = [runs EXCEPT ![<<a, second[a]>>] = @ + 1]
  BY DEF Start
<1> DEFINE n == <<a, second[a]>>
<1>2. /\ UNCHANGED <<encrypt, second, dump, enc, earlier, reported, broken, faults>>
      /\ job[w].at = "idle"
  BY DEF Start
<1>3. n \in Names /\ runs[n] \in Nat
  BY DEF Inv, TypeOK, Names
<1> HIDE DEF n
<1>4. /\ job'[w].at = "open" /\ job'[w].name = n /\ job'[w].intact = FALSE
      /\ \A v \in Workers \ {w} : job'[v] = job[v]
      /\ runs'[n] = runs[n] + 1 /\ \A m \in Names \ {n} : runs'[m] = runs[m]
  BY <1>1, <1>3 DEF n, Inv, TypeOK, Idle
<1>5. TypeOK'
  <2>1. queue' \in [Attempts -> Nat] /\ runs' \in [Names -> Nat]
    BY <1>1, <1>3 DEF n, Inv, TypeOK
  <2>2. job' \in [Workers -> [at : Steps, name : Names, intact : BOOLEAN]]
    BY <1>1, <1>3 DEF n, Inv, TypeOK, Idle, Steps
  <2>3. \A v \in Workers : job'[v].at # "idle" => runs'[job'[v].name] > 0
    BY <1>2, <1>3, <1>4 DEF Inv, TypeOK
  <2> QED
    BY <1>2, <2>1, <2>2, <2>3 DEF Inv, TypeOK
<1>6. KeyedEncryption' /\ TwinsCounted' /\ UsedNames'
  BY <1>2, <1>3, <1>4 DEF Inv, TypeOK, KeyedEncryption, TwinsCounted, UsedNames
<1>7. Alone'
  <2> SUFFICES ASSUME NEW v \in Workers, job'[v].at # "idle", runs'[job'[v].name] < 2
               PROVE  Holds(v)'
    BY DEF Alone
  <2>1. CASE v = w
    <3>1. runs[n] = 0
      BY <1>3, <1>4, <2>1
    <3>2. n \notin reported /\ Empty(n)
      BY <1>3, <3>1, FreshNames
    <3> QED
      BY <1>2, <1>4, <2>1, <3>2 DEF Holds, HoldsAt, Empty
  <2>2. CASE v # w
    <3>1. job'[v] = job[v] /\ job[v].name \in Names /\ job[v].name # n
      BY <1>3, <1>4, <2>2 DEF Inv, TypeOK
    <3>2. Holds(v)
      BY <1>2, <1>4, <2>2, <3>1 DEF Inv, Alone
    <3> QED
      BY <1>2, <3>1, <3>2 DEF Holds, HoldsAt, Empty, Clean, Kept
  <2> QED
    BY <2>1, <2>2
<1>8. ReportedStays'
  BY <1>2, <1>3, <1>4 DEF Inv, TypeOK, ReportedStays, Kept
<1>9. NothingLeftBehind'
  <2> SUFFICES ASSUME NEW m \in Names, ~AtWork(m)', runs'[m] < 2, m \notin broken'
               PROVE  Clean(m)'
    BY DEF NothingLeftBehind, Clean
  <2>1. m # n /\ ~AtWork(m)
    BY <1>2, <1>4 DEF AtWork
  <2> QED
    BY <1>2, <1>4, <2>1 DEF Inv, NothingLeftBehind, Clean, Kept
<1>10. PrunedWhenSettled'
  <2> SUFFICES ASSUME ~earlier'
               PROVE  \E m \in Names : Settled(m)'
    BY DEF PrunedWhenSettled
  <2>1. PICK m \in Names : Settled(m)
    BY <1>2 DEF Inv, PrunedWhenSettled
  <2>2. CASE m = n
    <3>1. runs[n] # 0
      BY <1>3, <2>1, <2>2, FreshNames DEF Settled, Kept, Empty
    <3> QED
      BY <1>3, <1>4, <2>2, <3>1 DEF Settled
  <2>3. CASE m # n
    BY <1>2, <1>4, <2>1, <2>3 DEF Settled, Kept
  <2> QED
    BY <2>2, <2>3
<1> QED
  BY <1>5, <1>6, <1>7, <1>8, <1>9, <1>10 DEF Inv

-----------------------------------------------------------------------------
(* Nothing has run and nothing is there.                                   *)
LEMMA InitInv ==
  ASSUME Init
  PROVE  Inv
<1>1. TypeOK
  BY BackupAssumption DEF Init, TypeOK, Idle, Steps, Contents, Names, Attempts
<1>2. \A w \in Workers : ~(job[w].at # "idle")
  BY DEF Init, Idle
<1>3. NothingLeftBehind
  BY DEF Init, NothingLeftBehind, Kept
<1> QED
  BY <1>1, <1>2, <1>3 DEF Init, Inv, KeyedEncryption, TwinsCounted, UsedNames, Alone,
     ReportedStays, PrunedWhenSettled

(* Every step keeps the invariant.                                         *)
LEMMA NextInv ==
  ASSUME Inv, [Next]_vars
  PROVE  Inv'
<1>1. CASE UNCHANGED vars
  BY <1>1 DEF vars, history, Inv, TypeOK, KeyedEncryption, TwinsCounted, UsedNames, Alone,
     Holds, HoldsAt, Empty, Clean, ReportedStays, NothingLeftBehind, AtWork,
     PrunedWhenSettled, Settled, Kept
<1>2. ASSUME NEW a \in Attempts, Tick(a)
      PROVE  Inv'
  <2>1. second' \in [Attempts -> 0 .. LastSecond]
    BY <1>2, BackupAssumption DEF Tick, Inv, TypeOK
  <2> QED
    BY <1>2, <2>1 DEF Tick, history, Inv, TypeOK, KeyedEncryption, TwinsCounted, UsedNames,
       Alone, Holds, HoldsAt, Empty, Clean, ReportedStays, NothingLeftBehind, AtWork,
       PrunedWhenSettled, Settled, Kept
<1>3. ASSUME NEW w \in Workers, Start(w)
      PROVE  Inv'
  BY <1>3, StartKeepsInv
<1>4. ASSUME NEW w \in Workers, Work(w), ~Start(w)
      PROVE  Good(w)
  BY <1>4, OpenDumpGood, DumpEndsGood, SizeDumpGood, OpenEncGood, EncEndsGood, SwapGood,
     UnlinkGood, SizeEncGood, DiscardGood, DiscardEncGood, AgainGood, AgainOuterGood,
     PruneGood, ReportGood, AckGood DEF Work, Encrypt
<1>5. ASSUME NEW w \in Workers, Breaks(w)
      PROVE  Good(w)
  BY <1>5, PgpassFailsGood, DumpFailsGood, DumpTimesOutGood, EncFailsGood, CrashGood
     DEF Breaks
<1> QED
  BY <1>1, <1>2, <1>3, <1>4, <1>5, GoodStep DEF Next

(* The invariant holds throughout.                                        *)
THEOREM InvCorrect == Spec => []Inv
BY InitInv, NextInv, PTL DEF Spec

(* The variables keep their types: the part of the invariant every other   *)
(* rests on.                                                               *)
THEOREM TypeCorrect == Spec => []TypeOK
<1>1. Inv => TypeOK
  BY DEF Inv
<1> QED
  BY <1>1, InvCorrect, PTL

(* A backup run_database_backup has returned as a success is never harmed  *)
(* by another run, whatever fails, unless that run started in the same     *)
(* second.                                                                 *)
THEOREM ReportedStaysCorrect == Spec => []ReportedStays
<1>1. Inv => ReportedStays
  BY DEF Inv
<1> QED
  BY <1>1, InvCorrect, PTL

(* Its retention pass removes the backups of earlier days only when there  *)
(* is a whole one of today, or two runs have shared a name.                *)
THEOREM NeverWithoutBackupCorrect == Spec => []NeverWithoutBackup
<1>1. Inv => NeverWithoutBackup
  BY DEF Inv, PrunedWhenSettled, NeverWithoutBackup, Settled
<1> QED
  BY <1>1, InvCorrect, PTL

(* A run that fails removes what it wrote, and one that encrypts removes   *)
(* the plain dump: nothing but reported backups stays, except after a      *)
(* crash, a timeout or a shared name.                                      *)
THEOREM NothingLeftCorrect == Spec => []NothingLeftBehind
<1>1. Inv => NothingLeftBehind
  BY DEF Inv
<1> QED
  BY <1>1, InvCorrect, PTL
=============================================================================
