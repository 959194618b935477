------------------------------- MODULE QuickScan -------------------------------
(***************************************************************************)
(* POST /quick (api/routes.py, quick_scan) for one URL: the cached verdict *)
(* or a scan, a row, an alert and a cached verdict                         *)
(* (services/quickscan.py, run_quickscan).  Requests run in threads, and   *)
(* each command to Redis, the database and the broker is an action.        *)
(***************************************************************************)
EXTENDS Session, Sequences

CONSTANTS
  Listed,     \* whether the domain is on the allowlist
  Feeds,      \* the threat-intelligence feeds that have a key
  MaxScans    \* bound on the rows

ASSUME ScanAssumption == Listed \in BOOLEAN /\ MaxScans \in Nat

VARIABLES
  scan,       \* how far each client's quick scan is
  mine,       \* the verdict it has found
  rows,       \* the scans committed: the verdict, and what became of its alert
  cache,      \* the row whose verdict is cached, 0 for none
  excused     \* whether scans have overlapped, or a verdict was not kept

quick == <<scan, mine, rows, cache, excused>>

Scanning == {c \in Clients : scan[c] \notin {"none", "look"}}

Move(c, step) == scan' = [scan EXCEPT ![c] = step]

-----------------------------------------------------------------------------
Nothing == [verdict |-> "none", row |-> 0]

(* The request ends, with an answer or without.                            *)
Respond(c) == /\ Move(c, "none")
              /\ mine' = [mine EXCEPT ![c] = Nothing]
              /\ request' = [request EXCEPT ![c] = "none"]
              /\ UNCHANGED <<token, after>>

(* An accepted request; one beyond MaxScans is not followed.               *)
Begin(c) ==
  /\ request[c] = "accepted"
  /\ scan[c] = "none"
  /\ IF Len(rows) + Cardinality({d \in Clients : scan[d] # "none"}) < MaxScans
     THEN Move(c, "look") /\ UNCHANGED <<session, mine>>
     ELSE Respond(c)
  /\ UNCHANGED <<lockout, rows, cache, excused>>

(* GET of the cached verdict.                                              *)
Hit(c) ==
  /\ scan[c] = "look" /\ cache # 0
  /\ Respond(c)
  /\ UNCHANGED <<lockout, rows, cache, excused>>

Miss(c) ==
  /\ scan[c] = "look" /\ cache = 0
  /\ Move(c, "judge")
  /\ excused' = (excused \/ Scanning # {})
  /\ UNCHANGED <<lockout, session, mine, rows, cache>>

(* run_cyberintel asks the feeds at once, and takes whatever each of them  *)
(* came to: one that fails, or is late, flags nothing and hides no other.  *)
Answers == [Feeds -> {"flagged", "clean", "failed"}]

Iocs(sources) == {f \in Feeds : sources[f] = "flagged"}

(* The allowlist, a feed that flags the URL, or the placeholder score.     *)
Verdict(sources) == CASE Listed -> "SAFE"
                      [] ~Listed /\ Iocs(sources) # {} -> "CRITICAL"
                      [] OTHER -> "placeholder"

Judge(c) ==
  /\ scan[c] = "judge"
  /\ \E sources \in Answers :
       mine' = [mine EXCEPT ![c] = [verdict |-> Verdict(sources), row |-> 0]]
  /\ Move(c, "commit")
  /\ UNCHANGED <<lockout, session, rows, cache, excused>>

(* Mutant: a verdict of the feeds returns before the alert.                *)
EagerCommit(c) ==
  /\ scan[c] = "commit"
  /\ rows' = Append(rows, [verdict |-> mine[c].verdict, alert |-> "none"])
  /\ mine' = [mine EXCEPT ![c].row = Len(rows) + 1]
  /\ Move(c, "store")
  /\ UNCHANGED <<lockout, session, cache, excused>>

Commit(c) ==
  /\ scan[c] = "commit"
  /\ rows' = Append(rows, [verdict |-> mine[c].verdict, alert |-> "none"])
  /\ mine' = [mine EXCEPT ![c].row = Len(rows) + 1]
  /\ Move(c, "alert")
  /\ UNCHANGED <<lockout, session, cache, excused>>

Alerted(c, what) == rows' = IF mine[c].verdict = "CRITICAL"
                            THEN [rows EXCEPT ![mine[c].row].alert = what] ELSE rows

Dispatch(c) ==
  /\ scan[c] = "alert"
  /\ Alerted(c, "queued")
  /\ Move(c, "store")
  /\ UNCHANGED <<lockout, session, mine, cache, excused>>

(* The broker refuses the message: the error is logged.                    *)
DispatchFails(c) ==
  /\ scan[c] = "alert" /\ mine[c].verdict = "CRITICAL"
  /\ faults < MaxFaults
  /\ faults' = faults + 1
  /\ Alerted(c, "suppressed")
  /\ Move(c, "store")
  /\ UNCHANGED <<at, ip, counters, session, mine, cache, excused>>

(* Mutant: only a safe verdict is cached.                                  *)
ShortStore(c) ==
  /\ scan[c] = "store"
  /\ cache' = IF mine[c].verdict = "SAFE" THEN mine[c].row ELSE cache
  /\ Respond(c)
  /\ UNCHANGED <<lockout, rows, excused>>

(* A placeholder is shown and not cached.                                  *)
Cacheable(c) == mine[c].verdict # "placeholder"

Store(c) ==
  /\ scan[c] = "store"
  /\ cache' = IF Cacheable(c) THEN mine[c].row ELSE cache
  /\ Respond(c)
  /\ UNCHANGED <<lockout, rows, excused>>

(* Redis, the database or the process fails, the last command executed or  *)
(* not: the client gets an error, or none, and may try again.              *)
ScanFails(c) ==
  /\ scan[c] # "none"
  /\ faults < MaxFaults
  /\ faults' = faults + 1
  /\ Respond(c)
  /\ excused' = (excused \/ scan[c] = "store")
  /\ \/ UNCHANGED cache
     \/ scan[c] = "store" /\ Cacheable(c) /\ cache' = mine[c].row
  /\ UNCHANGED <<at, ip, counters, rows>>

CacheExpires ==
  /\ cache # 0
  /\ cache' = 0
  /\ excused' = TRUE
  /\ UNCHANGED <<lockout, session, scan, mine, rows>>

-----------------------------------------------------------------------------
QuickInit ==
  /\ scan = [c \in Clients |-> "none"]
  /\ mine = [c \in Clients |-> Nothing]
  /\ rows = <<>>
  /\ cache = 0
  /\ excused = FALSE

Scan(c) == \/ Begin(c) \/ Hit(c) \/ Miss(c) \/ Judge(c) \/ Commit(c)
           \/ Dispatch(c) \/ DispatchFails(c) \/ Store(c) \/ ScanFails(c)

-----------------------------------------------------------------------------
(* The API: one logs in, uses the token for quick scans, and logs out.     *)

Init == LoginInit /\ SessionInit /\ QuickInit

Next ==
  \/ \E c \in Clients : /\ Attempt(c) \/ Login(c) \/ StoreFails(c)
                        /\ UNCHANGED <<session, quick>>
  \/ \E k \in Keys : KeyExpires(k) /\ UNCHANGED <<session, quick>>
  \/ \E c \in Clients : UseToken(c) /\ UNCHANGED quick
  \/ \E c \in Clients : Scan(c)
  \/ CacheExpires

vars == <<lockout, session, quick>>

Spec == Init /\ [][Next]_vars

-----------------------------------------------------------------------------
(* Properties.                                                             *)

(* A second alert for the URL needs two scans that overlap, a verdict that *)
(* has expired, or a request that failed after its alert was queued.       *)
RepeatsNeedOverlap ==
  Cardinality({n \in DOMAIN rows : rows[n].alert = "queued"}) > 1 => excused

(* A verdict that was cached, or shown to anybody, has its row, and an     *)
(* alert if it is severe: only the broker's refusal suppresses one.        *)
ShownMeansAlerted ==
  \A n \in {cache} \cup {mine[c].row : c \in {d \in Clients : scan[d] = "store"}} :
    n # 0 /\ rows[n].verdict = "CRITICAL" => rows[n].alert # "none"
=============================================================================
