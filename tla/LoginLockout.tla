----------------------------- MODULE LoginLockout -----------------------------
(***************************************************************************)
(* POST /login for one account (auth/routes.py, login) and the two         *)
(* counters of failed attempts it keeps in Redis, one per address and one  *)
(* for the account (auth/security.py).  Requests run in threads of several *)
(* API processes; each command to Redis is an action, and the slow         *)
(* comparison of the password lies between the check and the increment.    *)
(***************************************************************************)
EXTENDS Naturals, FiniteSets

CONSTANTS
  Clients,      \* those who log in, one request each at a time
  Ips,          \* the addresses they come from
  Account,      \* the key of the account's own counter
  MaxAttempts,  \* settings.MAX_LOGIN_ATTEMPTS
  MaxGlobal,    \* MAX_GLOBAL_LOGIN_ATTEMPTS
  MaxFaults     \* bound on Redis errors and dying requests

ASSUME LockoutAssumption ==
  /\ IsFiniteSet(Clients)
  /\ Account \notin Ips
  /\ MaxAttempts \in Nat \ {0}
  /\ MaxGlobal \in Nat \ {0}
  /\ MaxFaults \in Nat

VARIABLES
  at,       \* the command each request executes next
  ip,       \* the address it comes from
  count,    \* the counters, 0 for a key that does not exist
  timed,    \* the keys that have a time to live
  lost,     \* the keys whose EXPIRE was not executed when it was due
  faults    \* number of faults so far

counters == <<count, timed, lost>>
lockout  == <<at, ip, counters, faults>>

Keys == Ips \cup {Account}

Threshold(k) == IF k = Account THEN MaxGlobal ELSE MaxAttempts

Goto(c, step) == at' = [at EXCEPT ![c] = step]

-----------------------------------------------------------------------------
(* check_account_lockout.                                                  *)

Attempt(c) ==
  /\ at[c] = "away"
  /\ \E i \in Ips : ip' = [ip EXCEPT ![c] = i]
  /\ Goto(c, "ip")
  /\ UNCHANGED <<counters, faults>>

(* Mutant: an off-by-one.                                                  *)
LaxRead(c, k, step) ==
  /\ Goto(c, IF count[k] > Threshold(k) THEN "away" ELSE step)
  /\ UNCHANGED <<ip, counters, faults>>

(* A locked account is answered with 429.                                  *)
Read(c, k, step) ==
  /\ Goto(c, IF count[k] >= Threshold(k) THEN "away" ELSE step)
  /\ UNCHANGED <<ip, counters, faults>>

ReadIp(c)     == at[c] = "ip" /\ Read(c, ip[c], "account")
ReadGlobal(c) == at[c] = "account" /\ Read(c, Account, "password")

-----------------------------------------------------------------------------
(* The comparison.  A user who is not active gets in no more than one who  *)
(* does not know the password, but is not counted.                         *)
Compare(c) ==
  /\ at[c] = "password"
  /\ \E step \in {"incr_ip", "away", "reset"} : Goto(c, step)
  /\ UNCHANGED <<ip, counters, faults>>

-----------------------------------------------------------------------------
(* record_failed_login.                                                    *)

(* Mutant: the time to live is set by whoever reaches the limit.           *)
LateIncr(c, k, expire, otherwise) ==
  /\ count' = [count EXCEPT ![k] = @ + 1]
  /\ Goto(c, IF count[k] = Threshold(k) THEN expire ELSE otherwise)
  /\ UNCHANGED <<ip, timed, lost, faults>>

Incr(c, k, expire, otherwise) ==
  /\ count' = [count EXCEPT ![k] = @ + 1]
  /\ Goto(c, IF count[k] = 0 THEN expire ELSE otherwise)
  /\ UNCHANGED <<ip, timed, lost, faults>>

(* EXPIRE does nothing to a key that does not exist.                       *)
Expire(c, k, step) ==
  /\ timed' = IF count[k] > 0 THEN timed \cup {k} ELSE timed
  /\ Goto(c, step)
  /\ UNCHANGED <<ip, count, lost, faults>>

IncrIp(c)       == at[c] = "incr_ip" /\ Incr(c, ip[c], "expire_ip", "incr_account")
ExpireIp(c)     == at[c] = "expire_ip" /\ Expire(c, ip[c], "incr_account")
IncrGlobal(c)   == at[c] = "incr_account" /\ Incr(c, Account, "expire_account", "away")
ExpireGlobal(c) == at[c] = "expire_account" /\ Expire(c, Account, "away")

-----------------------------------------------------------------------------
Forget(S) == /\ count' = [k \in Keys |-> IF k \in S THEN 0 ELSE count[k]]
             /\ timed' = timed \ S
             /\ lost' = lost \ S

(* reset_failed_login: one DELETE of both keys.                            *)
Reset(c) ==
  /\ at[c] = "reset"
  /\ Forget({ip[c], Account})
  /\ Goto(c, "in")
  /\ UNCHANGED <<ip, faults>>

KeyExpires(k) ==
  /\ k \in timed
  /\ Forget({k})
  /\ UNCHANGED <<at, ip, faults>>

-----------------------------------------------------------------------------
(* Redis refuses a command.  The checks fail closed (503); the other       *)
(* commands are given up with all that would follow them, and a login goes *)
(* on without its reset.  A request whose process dies is given up too.    *)
Refused(c) ==
  /\ at[c] \notin {"away", "in"}
  /\ Goto(c, IF at[c] = "reset" THEN "in" ELSE "away")
  /\ lost' = CASE at[c] = "expire_ip" -> lost \cup {ip[c]}
               [] at[c] = "expire_account" -> lost \cup {Account}
               [] OTHER -> lost
  /\ UNCHANGED <<ip, count, timed>>

(* Or Redis executes an INCR and the answer does not arrive.               *)
Unanswered(c) ==
  \E k \in {ip[c], Account} :
    /\ at[c] = IF k = Account THEN "incr_account" ELSE "incr_ip"
    /\ count' = [count EXCEPT ![k] = @ + 1]
    /\ lost' = IF count[k] = 0 THEN lost \cup {k} ELSE lost
    /\ Goto(c, "away")
    /\ UNCHANGED <<ip, timed>>

StoreFails(c) ==
  /\ faults < MaxFaults
  /\ faults' = faults + 1
  /\ Refused(c) \/ Unanswered(c)

-----------------------------------------------------------------------------
LoginInit ==
  /\ at = [c \in Clients |-> "away"]
  /\ ip \in [Clients -> Ips]
  /\ count = [k \in Keys |-> 0]
  /\ timed = {}
  /\ lost = {}
  /\ faults = 0

Login(c) == \/ ReadIp(c) \/ ReadGlobal(c) \/ Compare(c)
            \/ IncrIp(c) \/ ExpireIp(c) \/ IncrGlobal(c) \/ ExpireGlobal(c)
            \/ Reset(c)

(* One who has logged in is a client again when the session is over.       *)
LogInAgain(c) == /\ at[c] = "in"
                 /\ Goto(c, "away")
                 /\ UNCHANGED <<ip, counters, faults>>

LoginNext == \/ \E c \in Clients : Attempt(c) \/ Login(c) \/ StoreFails(c) \/ LogInAgain(c)
             \/ \E k \in Keys : KeyExpires(k)

LoginSpec == LoginInit /\ [][LoginNext]_lockout

-----------------------------------------------------------------------------
(* Properties.                                                             *)

(* However many requests pass the check before the first of them is        *)
(* counted, a counter never gets further above its limit than there are    *)
(* requests at a time, less one.                                           *)
BoundedOvershoot ==
  \A k \in Keys : count[k] < Threshold(k) + Cardinality(Clients)

(* A counter that will not expire has a request about to set its time to   *)
(* live, or has lost one: no interleaving of requests, resets and expiries *)
(* locks an account for good, only a fault between the two commands does.  *)
OnlyFaultsLockForGood ==
  \A k \in Keys : count[k] > 0 /\ k \notin timed =>
    \/ k \in lost
    \/ \E c \in Clients : \/ at[c] = "expire_ip" /\ ip[c] = k
                          \/ at[c] = "expire_account" /\ k = Account
=============================================================================
