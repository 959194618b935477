-------------------------------- MODULE Session --------------------------------
(***************************************************************************)
(* What a login gives: a token (auth/jwt.py), which every request shows    *)
(* (auth/dependencies.py, get_current_user) and a logout revokes, with a   *)
(* key in Redis that lives as long as the token is still valid.            *)
(*                                                                         *)
(* Time is counted in halves of a second, so that what is rounded to whole *)
(* seconds shows.  `exp` is a whole second of the clock, and so the time   *)
(* left at the issue need not be a whole number of seconds.                *)
(***************************************************************************)
EXTENDS LoginLockout

CONSTANT Lifetime   \* of a token, in seconds

ASSUME LifetimeAssumption == Lifetime \in Nat \ {0}

VARIABLES
  held,       \* whether each client has a token
  left,       \* how long it is still valid
  barred,     \* how long its key in the blacklist still lives, 0 for no key
  loggedOut,  \* whether a logout has been answered with 204
  request,    \* a request that shows the token: how far it is
  after       \* whether it was sent after the logout

token   == <<held, left, barred, loggedOut>>
shows   == <<request, after>>
session == <<token, shows>>

-----------------------------------------------------------------------------
(* create_access_token.                                                    *)
Issue(c) ==
  /\ at[c] = "in" /\ ~held[c]
  /\ held' = [held EXCEPT ![c] = TRUE]
  /\ \E t \in {2 * Lifetime - 1, 2 * Lifetime} : left' = [left EXCEPT ![c] = t]
  /\ UNCHANGED <<lockout, barred, loggedOut, shows>>

Less(t) == IF t = 0 THEN 0 ELSE t - 1

Tick(c) ==
  /\ left[c] > 0
  /\ left' = [left EXCEPT ![c] = Less(@)]
  /\ barred' = [barred EXCEPT ![c] = Less(@)]
  /\ UNCHANGED <<lockout, held, loggedOut, shows>>

-----------------------------------------------------------------------------
(* decode_access_token: jwt.decode, and then the blacklist.                *)

Decode(c) ==
  /\ left[c] > 0
  /\ request[c] = "none"
  /\ request' = [request EXCEPT ![c] = "decoded"]
  /\ after' = [after EXCEPT ![c] = loggedOut[c]]
  /\ UNCHANGED <<lockout, token>>

LookUp(c) ==
  /\ request[c] = "decoded"
  /\ request' = [request EXCEPT ![c] = IF barred[c] > 0 THEN "none" ELSE "accepted"]
  /\ UNCHANGED <<lockout, token, after>>

(* Redis fails; fail closed.                                               *)
LookUpFails(c) ==
  /\ request[c] = "decoded"
  /\ faults < MaxFaults
  /\ faults' = faults + 1
  /\ request' = [request EXCEPT ![c] = "none"]
  /\ UNCHANGED <<at, ip, counters, token, after>>

-----------------------------------------------------------------------------
(* The time to live of the blacklist entry: int(exp - now) seconds.        *)
TimeToLive(c) == 2 * (left[c] \div 2)

(* revoke_token, which does not mind an expired token.                     *)
Logout(c) ==
  /\ held[c] /\ ~loggedOut[c]
  /\ barred' = [barred EXCEPT ![c] = TimeToLive(c)]
  /\ loggedOut' = [loggedOut EXCEPT ![c] = TRUE]
  /\ UNCHANGED <<lockout, held, left, shows>>

(* Mutant: the error is swallowed.                                         *)
QuietLogoutFails(c) ==
  /\ held[c] /\ ~loggedOut[c] /\ TimeToLive(c) > 0
  /\ faults < MaxFaults
  /\ faults' = faults + 1
  /\ loggedOut' = [loggedOut EXCEPT ![c] = TRUE]
  /\ UNCHANGED <<at, ip, counters, held, left, barred, shows>>

(* Redis fails, before or after the command: the client gets an error.     *)
LogoutFails(c) ==
  /\ held[c] /\ ~loggedOut[c] /\ TimeToLive(c) > 0
  /\ faults < MaxFaults
  /\ faults' = faults + 1
  /\ \/ barred' = [barred EXCEPT ![c] = TimeToLive(c)]
     \/ UNCHANGED barred
  /\ UNCHANGED <<at, ip, counters, held, left, loggedOut, shows>>

(* Nothing is left of a token that has expired and is not being used.      *)
End(c) ==
  /\ held[c] /\ left[c] = 0
  /\ request[c] = "none"
  /\ held' = [held EXCEPT ![c] = FALSE]
  /\ LogInAgain(c)
  /\ loggedOut' = [loggedOut EXCEPT ![c] = FALSE]
  /\ after' = [after EXCEPT ![c] = FALSE]
  /\ UNCHANGED <<left, barred, request>>

-----------------------------------------------------------------------------
SessionInit ==
  /\ held = [c \in Clients |-> FALSE]
  /\ left = [c \in Clients |-> 0]
  /\ barred = [c \in Clients |-> 0]
  /\ loggedOut = [c \in Clients |-> FALSE]
  /\ request = [c \in Clients |-> "none"]
  /\ after = [c \in Clients |-> FALSE]

UseToken(c) == \/ Issue(c) \/ Tick(c) \/ Decode(c) \/ LookUp(c) \/ LookUpFails(c)
               \/ Logout(c) \/ LogoutFails(c) \/ End(c)

-----------------------------------------------------------------------------
(* Properties.                                                             *)

(* A request sent after the logout was answered is not accepted, but in    *)
(* the last second of the token's life: the time to live is rounded down.  *)
LogoutSticks ==
  \A c \in Clients : request[c] = "accepted" /\ after[c] => left[c] < 2
=============================================================================
