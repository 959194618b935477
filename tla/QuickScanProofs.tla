---------------------------- MODULE QuickScanProofs ----------------------------
(***************************************************************************)
(* Theorems about LoginLockout, Session and QuickScan, and about the API   *)
(* they make together: for any finite number of clients, any addresses,    *)
(* feeds and limits, and any number of faults.                             *)
(***************************************************************************)
EXTENDS QuickScan, FiniteSetTheorems, TLAPS

USE LockoutAssumption DEF LockoutAssumption

Steps == {"away", "ip", "account", "password", "incr_ip", "expire_ip",
          "incr_account", "expire_account", "reset", "in"}

LoginTypeOK ==
  /\ at \in [Clients -> Steps]
  /\ ip \in [Clients -> Ips]
  /\ count \in [Keys -> Nat]
  /\ timed \subseteq Keys
  /\ lost \subseteq Keys

(* The requests that have passed the check of counter k and may still      *)
(* count a failure with it, when they are at a and come from i.            *)
Coming(k, a, i) ==
  {c \in Clients :
     \/ k = Account /\ a[c] \in {"password", "incr_ip", "expire_ip", "incr_account"}
     \/ k # Account /\ i[c] = k /\ a[c] \in {"account", "password", "incr_ip"}}

(* The bound, of a value n of counter k.                                   *)
Bounded(k, n, a, i) ==
  n + Cardinality(Coming(k, a, i)) < Threshold(k) + Cardinality(Clients)

(* A request on its way has a place among those the overshoot allows.      *)
Reserved == \A k \in Keys : Bounded(k, count[k], at, ip)

LoginInv == LoginTypeOK /\ Reserved

-----------------------------------------------------------------------------
LEMMA Sizes ==
  ASSUME NEW k, NEW a, NEW i
  PROVE  /\ Cardinality(Coming(k, a, i)) \in Nat
         /\ IsFiniteSet(Coming(k, a, i))
         /\ Cardinality(Clients) \in Nat
         /\ Cardinality(Coming(k, a, i)) <= Cardinality(Clients)
         /\ Threshold(k) \in Nat \ {0}
  BY FS_Subset, FS_CardinalityType DEF Coming, Threshold

(* Fewer on their way, or one fewer.                                       *)
LEMMA FewerComing ==
  ASSUME NEW k, NEW a, NEW i, NEW b, NEW j, Coming(k, b, j) \subseteq Coming(k, a, i)
  PROVE  Cardinality(Coming(k, b, j)) <= Cardinality(Coming(k, a, i))
  BY Sizes, FS_Subset

LEMMA OneComing ==
  ASSUME NEW k, NEW a, NEW i, NEW b, NEW j,
         NEW c \in Coming(k, a, i), Coming(k, b, j) \subseteq Coming(k, a, i) \ {c}
  PROVE  Cardinality(Coming(k, b, j)) <= Cardinality(Coming(k, a, i)) - 1
  <1>1. IsFiniteSet(Coming(k, a, i) \ {c})
        /\ Cardinality(Coming(k, a, i) \ {c}) = Cardinality(Coming(k, a, i)) - 1
    BY Sizes, FS_RemoveElement
  <1> QED BY <1>1, Sizes, FS_Subset

(* A counter below its limit has room for everybody.                       *)
LEMMA RoomForAll ==
  ASSUME NEW k, NEW n \in Nat, n < Threshold(k), NEW a, NEW i
  PROVE  Bounded(k, n, a, i)
  BY Sizes DEF Bounded

-----------------------------------------------------------------------------
LEMMA LoginInitInv == LoginInit => LoginInv
  <1> SUFFICES ASSUME LoginInit PROVE LoginInv
    OBVIOUS
  <1>1. LoginTypeOK
    BY DEF LoginInit, LoginTypeOK, Steps
  <1>2. ASSUME NEW k \in Keys PROVE Bounded(k, count[k], at, ip)
    BY RoomForAll, Sizes DEF LoginInit
  <1> QED BY <1>1, <1>2 DEF LoginInv, Reserved

(* A step that moves c and counts nothing, other than to pass a check.     *)
LEMMA QuietMove ==
  ASSUME LoginInv, NEW c \in Clients, NEW step \in Steps,
         at' = [at EXCEPT ![c] = step], UNCHANGED <<ip, count>>,
         \A k \in Keys : c \in Coming(k, at', ip) => c \in Coming(k, at, ip)
  PROVE  at' \in [Clients -> Steps] /\ Reserved'
  <1>1. at' \in [Clients -> Steps]
    BY DEF LoginInv, LoginTypeOK
  <1>2. ASSUME NEW k \in Keys PROVE Bounded(k, count'[k], at', ip')
    <2>1. Coming(k, at', ip') \subseteq Coming(k, at, ip)
      BY DEF Coming, LoginInv, LoginTypeOK
    <2>2. count[k] \in Nat /\ count'[k] = count[k] /\ Bounded(k, count[k], at, ip)
      BY DEF LoginInv, LoginTypeOK, Reserved
    <2>3. Cardinality(Coming(k, at', ip')) <= Cardinality(Coming(k, at, ip))
      BY <2>1, FewerComing
    <2> QED BY <2>2, <2>3, Sizes DEF Bounded
  <1> QED BY <1>1, <1>2 DEF Reserved

(* Check of counter k, after which the request is at step.                 *)
LEMMA ReadKeeps ==
  ASSUME LoginInv, NEW c \in Clients, NEW k \in Keys, NEW step \in Steps, Read(c, k, step),
         \A q \in Keys \ {k} : c \in Coming(q, [at EXCEPT ![c] = step], ip) => c \in Coming(q, at, ip)
  PROVE  LoginInv'
  <1> USE DEF LoginInv, LoginTypeOK, Read, Goto, counters
  <1>1. CASE count[k] >= Threshold(k)
    <2>1. at' = [at EXCEPT ![c] = "away"] /\ "away" \in Steps
      BY <1>1 DEF Steps
    <2>2. \A q \in Keys : c \notin Coming(q, at', ip)
      BY <2>1 DEF Coming
    <2>3. at' \in [Clients -> Steps] /\ Reserved'
      BY <2>1, <2>2, QuietMove
    <2> QED BY <2>3
  <1>2. CASE ~(count[k] >= Threshold(k))
    <2>1. at' = [at EXCEPT ![c] = step]
      BY <1>2
    <2>2. ASSUME NEW q \in Keys PROVE Bounded(q, count'[q], at', ip')
      <3>1. CASE q = k
        <4>1. count[k] < Threshold(k)
          BY <1>2, Sizes
        <4> QED BY <3>1, <4>1, RoomForAll
      <3>2. CASE q # k
        <4>1. Coming(q, at', ip') \subseteq Coming(q, at, ip)
          BY <2>1, <3>2 DEF Coming
        <4>2. count[q] \in Nat /\ count'[q] = count[q] /\ Bounded(q, count[q], at, ip)
          BY DEF Reserved
        <4>3. Cardinality(Coming(q, at', ip')) <= Cardinality(Coming(q, at, ip))
          BY <4>1, FewerComing
        <4> QED BY <4>2, <4>3, Sizes DEF Bounded
      <3> QED BY <3>1, <3>2
    <2> QED BY <2>1, <2>2 DEF Reserved
  <1> QED BY <1>1, <1>2

(* A failure is counted with k by a request that leaves those on their way.*)
LEMMA CountKeeps ==
  ASSUME LoginInv, NEW c \in Clients, NEW k \in Keys, NEW step \in Steps,
         c \in Coming(k, at, ip),
         at' = [at EXCEPT ![c] = step], count' = [count EXCEPT ![k] = @ + 1], ip' = ip,
         c \notin Coming(k, at', ip),
         \A q \in Keys : c \in Coming(q, at', ip) => c \in Coming(q, at, ip)
  PROVE  at' \in [Clients -> Steps] /\ count' \in [Keys -> Nat] /\ Reserved'
  <1> USE DEF LoginInv, LoginTypeOK
  <1>1. ASSUME NEW q \in Keys PROVE Bounded(q, count'[q], at', ip')
    <2>1. Coming(q, at', ip') \subseteq Coming(q, at, ip)
      BY DEF Coming
    <2>2. count[q] \in Nat /\ Bounded(q, count[q], at, ip)
      BY DEF Reserved
    <2>3. CASE q = k
      <3>1. Coming(q, at', ip') \subseteq Coming(q, at, ip) \ {c}
        BY <2>1, <2>3
      <3>2. count'[q] = count[q] + 1 /\ c \in Coming(q, at, ip)
        BY <2>3
      <3>3. Cardinality(Coming(q, at', ip')) <= Cardinality(Coming(q, at, ip)) - 1
        BY <3>1, <3>2, OneComing
      <3> QED BY <2>2, <3>2, <3>3, Sizes DEF Bounded
    <2>4. CASE q # k
      <3>1. count'[q] = count[q]
        BY <2>4
      <3>2. Cardinality(Coming(q, at', ip')) <= Cardinality(Coming(q, at, ip))
        BY <2>1, FewerComing
      <3> QED BY <2>2, <3>1, <3>2, Sizes DEF Bounded
    <2> QED BY <2>3, <2>4
  <1>2. count[k] + 1 \in Nat
    OBVIOUS
  <1>3. at' \in [Clients -> Steps] /\ count' \in [Keys -> Nat]
    BY <1>2
  <1> QED BY <1>1, <1>3 DEF Reserved

(* Keys are forgotten, and c goes on to where it counts nothing.           *)
LEMMA ForgetKeeps ==
  ASSUME LoginInv, NEW S, Forget(S), ip' = ip, at' \in [Clients -> Steps],
         \A k \in Keys : Coming(k, at', ip) \subseteq Coming(k, at, ip)
  PROVE  LoginInv'
  <1> USE DEF LoginInv, LoginTypeOK, Forget
  <1>1. ASSUME NEW k \in Keys PROVE Bounded(k, count'[k], at', ip')
    <2>1. count[k] \in Nat /\ count'[k] \in Nat /\ count'[k] <= count[k]
      OBVIOUS
    <2>2. Bounded(k, count[k], at, ip) /\ Coming(k, at', ip') \subseteq Coming(k, at, ip)
      BY DEF Reserved
    <2>3. Cardinality(Coming(k, at', ip')) <= Cardinality(Coming(k, at, ip))
      BY <2>2, FewerComing
    <2> QED BY <2>1, <2>2, <2>3, Sizes DEF Bounded
  <1> QED BY <1>1 DEF Reserved

-----------------------------------------------------------------------------
LEMMA AttemptKeeps ==
  ASSUME LoginInv, NEW c \in Clients, Attempt(c)
  PROVE  LoginInv'
  <1> USE DEF LoginInv, LoginTypeOK, Attempt, Goto, counters
  <1>1. at' \in [Clients -> Steps] /\ ip' \in [Clients -> Ips]
    BY DEF Steps
  <1>2. ASSUME NEW k \in Keys PROVE Bounded(k, count'[k], at', ip')
    <2>1. Coming(k, at', ip') \subseteq Coming(k, at, ip)
      BY DEF Coming
    <2>2. Cardinality(Coming(k, at', ip')) <= Cardinality(Coming(k, at, ip))
      BY <2>1, FewerComing
    <2>3. count[k] \in Nat /\ count'[k] = count[k] /\ Bounded(k, count[k], at, ip)
      BY DEF Reserved
    <2> QED BY <2>2, <2>3, Sizes DEF Bounded
  <1> QED BY <1>1, <1>2 DEF Reserved

LEMMA CompareKeeps ==
  ASSUME LoginInv, NEW c \in Clients, Compare(c) \/ LogInAgain(c)
  PROVE  LoginInv'
  <1> USE DEF LoginInv, LoginTypeOK, Goto, counters
  <1>1. PICK step \in Steps : at' = [at EXCEPT ![c] = step]
                              /\ (step \in {"incr_ip"} => at[c] = "password")
                              /\ step \in {"incr_ip", "away", "reset"}
    BY DEF Compare, LogInAgain, Steps
  <1>2. \A k \in Keys : c \in Coming(k, at', ip) => c \in Coming(k, at, ip)
    BY <1>1 DEF Coming
  <1>3. UNCHANGED <<ip, count, timed, lost>>
    BY DEF Compare, LogInAgain
  <1> QED BY <1>1, <1>2, <1>3, QuietMove

LEMMA IncrKeeps ==
  ASSUME LoginInv, NEW c \in Clients, IncrIp(c) \/ IncrGlobal(c)
  PROVE  LoginInv'
  <1> USE DEF LoginInv, LoginTypeOK, Goto
  <1>1. CASE IncrIp(c)
    <2>1. PICK step \in {"expire_ip", "incr_account"} : at' = [at EXCEPT ![c] = step]
      BY <1>1 DEF IncrIp, Incr
    <2>2. ip[c] \in Keys /\ c \in Coming(ip[c], at, ip) /\ c \notin Coming(ip[c], at', ip)
      BY <1>1, <2>1 DEF IncrIp, Coming, Keys
    <2>3. \A q \in Keys : c \in Coming(q, at', ip) => c \in Coming(q, at, ip)
      BY <1>1, <2>1 DEF IncrIp, Coming
    <2>4. count' = [count EXCEPT ![ip[c]] = @ + 1] /\ UNCHANGED <<ip, timed, lost>> /\ step \in Steps
      BY <1>1, <2>1 DEF IncrIp, Incr, Steps
    <2> QED BY <2>1, <2>2, <2>3, <2>4, CountKeeps
  <1>2. CASE IncrGlobal(c)
    <2>1. PICK step \in {"expire_account", "away"} : at' = [at EXCEPT ![c] = step]
      BY <1>2 DEF IncrGlobal, Incr
    <2>2. Account \in Keys /\ c \in Coming(Account, at, ip)
      BY <1>2 DEF IncrGlobal, Coming, Keys
    <2>3. c \notin Coming(Account, at', ip) /\ \A q \in Keys : c \notin Coming(q, at', ip)
      BY <2>1 DEF Coming
    <2>4. count' = [count EXCEPT ![Account] = @ + 1] /\ UNCHANGED <<ip, timed, lost>> /\ step \in Steps
      BY <1>2 DEF IncrGlobal, Incr, Steps
    <2> QED BY <2>1, <2>2, <2>3, <2>4, CountKeeps
  <1> QED BY <1>1, <1>2

LEMMA ExpireKeeps ==
  ASSUME LoginInv, NEW c \in Clients, ExpireIp(c) \/ ExpireGlobal(c)
  PROVE  LoginInv'
  <1> USE DEF LoginInv, LoginTypeOK, Goto
  <1>1. PICK step \in Steps : /\ at' = [at EXCEPT ![c] = step]
                              /\ step = "incr_account" => at[c] = "expire_ip"
                              /\ step \in {"incr_account", "away"}
    BY DEF ExpireIp, ExpireGlobal, Expire, Steps
  <1>2. \A k \in Keys : c \in Coming(k, at', ip) => c \in Coming(k, at, ip)
    BY <1>1 DEF Coming
  <1>3. timed' \subseteq Keys /\ UNCHANGED <<ip, count, lost>>
    BY DEF ExpireIp, ExpireGlobal, Expire, Keys
  <1> QED BY <1>1, <1>2, <1>3, QuietMove

LEMMA ForgetsKeep ==
  ASSUME LoginInv, (\E c \in Clients : Reset(c)) \/ (\E k \in Keys : KeyExpires(k))
  PROVE  LoginInv'
  <1>1. ASSUME NEW c \in Clients, Reset(c) PROVE LoginInv'
    <2>1. at' = [at EXCEPT ![c] = "in"] /\ at' \in [Clients -> Steps]
      BY <1>1 DEF Reset, Goto, LoginInv, LoginTypeOK, Steps
    <2>2. \A k \in Keys : Coming(k, at', ip) \subseteq Coming(k, at, ip)
      BY <2>1 DEF Coming, LoginInv, LoginTypeOK
    <2>3. Forget({ip[c], Account}) /\ ip' = ip
      BY <1>1 DEF Reset
    <2> QED BY <2>1, <2>2, <2>3, ForgetKeeps
  <1>2. ASSUME NEW k \in Keys, KeyExpires(k) PROVE LoginInv'
    <2>1. Forget({k}) /\ ip' = ip /\ at' = at
      BY <1>2 DEF KeyExpires
    <2>2. \A q \in Keys : Coming(q, at', ip) \subseteq Coming(q, at, ip)
      BY <2>1
    <2>3. at' \in [Clients -> Steps]
      BY <2>1 DEF LoginInv, LoginTypeOK
    <2> QED BY <2>1, <2>2, <2>3, ForgetKeeps
  <1> QED BY <1>1, <1>2

LEMMA FaultKeeps ==
  ASSUME LoginInv, NEW c \in Clients, StoreFails(c)
  PROVE  LoginInv'
  <1> USE DEF LoginInv, LoginTypeOK, Goto
  <1>1. CASE Refused(c)
    <2>1. PICK step \in {"in", "away"} : at' = [at EXCEPT ![c] = step]
      BY <1>1 DEF Refused
    <2>2. step \in Steps /\ UNCHANGED <<ip, count, timed>>
      BY <1>1 DEF Refused, Steps
    <2>3. \A k \in Keys : c \notin Coming(k, at', ip)
      BY <2>1 DEF Coming
    <2>4. lost' \subseteq Keys
      BY <1>1 DEF Refused, Keys
    <2> QED BY <2>1, <2>2, <2>3, <2>4, QuietMove
  <1>2. CASE Unanswered(c)
    <2>1. PICK k \in {ip[c], Account} :
            /\ at[c] = IF k = Account THEN "incr_account" ELSE "incr_ip"
            /\ count' = [count EXCEPT ![k] = @ + 1]
            /\ lost' = IF count[k] = 0 THEN lost \cup {k} ELSE lost
            /\ at' = [at EXCEPT ![c] = "away"] /\ UNCHANGED <<ip, timed>>
      BY <1>2 DEF Unanswered
    <2>2. k \in Keys /\ c \in Coming(k, at, ip) /\ "away" \in Steps
      BY <2>1 DEF Keys, Coming, Steps
    <2>3. \A q \in Keys : c \notin Coming(q, at', ip)
      BY <2>1 DEF Coming
    <2>4. at' \in [Clients -> Steps] /\ count' \in [Keys -> Nat] /\ Reserved'
      BY <2>1, <2>2, <2>3, CountKeeps
    <2> QED BY <2>1, <2>2, <2>4
  <1> QED BY <1>1, <1>2 DEF StoreFails

LEMMA ReadsKeep ==
  ASSUME LoginInv, NEW c \in Clients, ReadIp(c) \/ ReadGlobal(c)
  PROVE  LoginInv'
  <1>1. CASE ReadIp(c)
    <2>1. ip[c] \in Keys /\ ip[c] # Account /\ "account" \in Steps
      BY DEF LoginInv, LoginTypeOK, Keys, Steps
    <2>2. \A q \in Keys \ {ip[c]} : c \notin Coming(q, [at EXCEPT ![c] = "account"], ip)
      BY DEF Coming, LoginInv, LoginTypeOK
    <2> QED BY <1>1, <2>1, <2>2, ReadKeeps DEF ReadIp
  <1>2. CASE ReadGlobal(c)
    <2>1. Account \in Keys /\ "password" \in Steps
      BY DEF Keys, Steps
    <2>2. \A q \in Keys \ {Account} :
            c \in Coming(q, [at EXCEPT ![c] = "password"], ip) => c \in Coming(q, at, ip)
      BY <1>2 DEF ReadGlobal, Coming
    <2> QED BY <1>2, <2>1, <2>2, ReadKeeps DEF ReadGlobal
  <1> QED BY <1>1, <1>2

(* What the rest of the API may do meanwhile: it counts its own faults.    *)
Aside == UNCHANGED <<at, ip, counters>>

LEMMA LoginStep == LoginInv /\ (LoginNext \/ Aside) => LoginInv'
  <1> SUFFICES ASSUME LoginInv, LoginNext \/ Aside PROVE LoginInv'
    OBVIOUS
  <1>1. CASE Aside
    BY <1>1 DEF Aside, counters, LoginInv, LoginTypeOK, Reserved, Bounded, Coming
  <1>2. ASSUME NEW c \in Clients, Attempt(c) \/ Login(c) \/ StoreFails(c) \/ LogInAgain(c)
        PROVE  LoginInv'
    BY <1>2, AttemptKeeps, ReadsKeep, CompareKeeps, IncrKeeps, ExpireKeeps, ForgetsKeep, FaultKeeps
       DEF Login
  <1> QED BY <1>1, <1>2, ForgetsKeep DEF LoginNext

LEMMA BoundedByInv == LoginInv => LoginTypeOK /\ BoundedOvershoot
  <1> SUFFICES ASSUME LoginInv, NEW k \in Keys
               PROVE  count[k] < Threshold(k) + Cardinality(Clients)
    BY DEF LoginInv, BoundedOvershoot
  <1> QED BY Sizes DEF LoginInv, LoginTypeOK, Reserved, Bounded

(* However many requests pass the check before the first is counted, a     *)
(* counter stays below its limit plus their number.                        *)
THEOREM OvershootBounded == LoginSpec => [](LoginTypeOK /\ BoundedOvershoot)
  <1>1. LoginInv /\ [LoginNext]_lockout => LoginInv'
    BY LoginStep DEF lockout, Aside
  <1> QED BY <1>1, BoundedByInv, LoginInitInv, PTL DEF LoginSpec

-----------------------------------------------------------------------------
(* What the second theorem is about, of one key.                           *)
Timeless(k) ==
  \/ k \in lost
  \/ \E c \in Clients : \/ at[c] = "expire_ip" /\ ip[c] = k
                        \/ at[c] = "expire_account" /\ k = Account

LEMMA TimelessStep ==
  ASSUME LoginTypeOK, OnlyFaultsLockForGood, LoginNext \/ Aside
  PROVE  OnlyFaultsLockForGood'
  <1> USE DEF LoginTypeOK, Goto, counters
  <1>0. OnlyFaultsLockForGood <=> \A k \in Keys : count[k] > 0 /\ k \notin timed => Timeless(k)
    BY DEF OnlyFaultsLockForGood, Timeless
  <1> SUFFICES ASSUME NEW k \in Keys, (count[k] > 0)', k \notin timed'
               PROVE  Timeless(k)'
    BY DEF OnlyFaultsLockForGood, Timeless
  <1>1. CASE Aside
    BY <1>0, <1>1 DEF Aside, Timeless
  <1>2. ASSUME NEW c \in Clients, Attempt(c) \/ ReadIp(c) \/ ReadGlobal(c) \/ Compare(c) \/ LogInAgain(c)
        PROVE  Timeless(k)'
    <2>1. UNCHANGED counters /\ at[c] \notin {"expire_ip", "expire_account"}
      BY <1>2 DEF Attempt, ReadIp, ReadGlobal, Read, Compare, LogInAgain
    <2>2. \A d \in Clients \ {c} : at'[d] = at[d] /\ ip'[d] = ip[d]
      BY <1>2 DEF Attempt, ReadIp, ReadGlobal, Read, Compare, LogInAgain
    <2> QED BY <1>0, <2>1, <2>2 DEF Timeless
  <1>3. ASSUME NEW c \in Clients, NEW q \in Keys, NEW step \in {"incr_ip", "incr_account"},
               NEW expire, NEW otherwise,
               at[c] = step, Incr(c, q, expire, otherwise),
               \/ step = "incr_ip" /\ expire = "expire_ip" /\ q = ip[c]
               \/ step = "incr_account" /\ expire = "expire_account" /\ q = Account
        PROVE  Timeless(k)'
    <2>1. \A d \in Clients \ {c} : at'[d] = at[d]
      BY <1>3 DEF Incr
    <2>2. UNCHANGED <<ip, timed, lost>> /\ count' = [count EXCEPT ![q] = @ + 1]
      BY <1>3 DEF Incr
    <2>3. CASE k = q /\ count[k] = 0
      <3>1. at'[c] = expire
        BY <1>3, <2>3 DEF Incr
      <3> QED BY <1>3, <2>2, <2>3, <3>1 DEF Timeless
    <2>4. CASE ~(k = q /\ count[k] = 0)
      <3>1. count[k] > 0
        BY <2>2, <2>4
      <3> QED BY <1>0, <1>3, <2>1, <2>2, <3>1 DEF Timeless
    <2> QED BY <2>3, <2>4
  <1>4. ASSUME NEW c \in Clients, IncrIp(c) \/ IncrGlobal(c) PROVE Timeless(k)'
    BY <1>3, <1>4 DEF IncrIp, IncrGlobal, Keys
  <1>5. ASSUME NEW c \in Clients, ExpireIp(c) \/ ExpireGlobal(c) PROVE Timeless(k)'
    <2>1. \A d \in Clients \ {c} : at'[d] = at[d]
      BY <1>5 DEF ExpireIp, ExpireGlobal, Expire
    <2>2. UNCHANGED <<ip, count, lost>> /\ timed \subseteq timed'
      BY <1>5 DEF ExpireIp, ExpireGlobal, Expire
    <2>3. Timeless(k) /\ count[k] > 0
      BY <1>0, <2>2
    <2>4. ~(at[c] = "expire_ip" /\ ip[c] = k) /\ ~(at[c] = "expire_account" /\ k = Account)
      BY <1>5, <2>3 DEF ExpireIp, ExpireGlobal, Expire
    <2> QED BY <2>1, <2>2, <2>3, <2>4 DEF Timeless
  <1>6. ASSUME NEW c \in Clients, Reset(c) PROVE Timeless(k)'
    <2>1. count[k] > 0 /\ k \notin timed /\ (k \in lost => k \in lost')
      BY <1>6 DEF Reset, Forget
    <2>2. at[c] = "reset" /\ ip' = ip /\ \A d \in Clients \ {c} : at'[d] = at[d]
      BY <1>6 DEF Reset
    <2> QED BY <1>0, <2>1, <2>2 DEF Timeless
  <1>7. ASSUME NEW q \in Keys, KeyExpires(q) PROVE Timeless(k)'
    <2>1. count[k] > 0 /\ k \notin timed /\ (k \in lost => k \in lost') /\ UNCHANGED <<at, ip>>
      BY <1>7 DEF KeyExpires, Forget
    <2> QED BY <1>0, <2>1 DEF Timeless
  <1>8. ASSUME NEW c \in Clients, StoreFails(c) PROVE Timeless(k)'
    <2>1. CASE Refused(c)
      <3>1. UNCHANGED <<ip, count, timed>> /\ lost \subseteq lost'
        BY <2>1 DEF Refused
      <3>2. \A d \in Clients \ {c} : at'[d] = at[d]
        BY <2>1 DEF Refused
      <3>3. /\ at[c] = "expire_ip" /\ ip[c] = k => k \in lost'
            /\ at[c] = "expire_account" /\ k = Account => k \in lost'
        BY <2>1 DEF Refused
      <3> QED BY <1>0, <3>1, <3>2, <3>3 DEF Timeless
    <2>2. CASE Unanswered(c)
      <3>1. PICK q \in {ip[c], Account} :
              /\ at[c] \in {"incr_account", "incr_ip"}
              /\ count' = [count EXCEPT ![q] = @ + 1]
              /\ lost' = IF count[q] = 0 THEN lost \cup {q} ELSE lost
              /\ UNCHANGED <<ip, timed>>
              /\ \A d \in Clients \ {c} : at'[d] = at[d]
        BY <2>2 DEF Unanswered
      <3>2. CASE k = q /\ count[k] = 0
        BY <3>1, <3>2 DEF Timeless
      <3>3. CASE ~(k = q /\ count[k] = 0)
        <4>1. count[k] > 0 /\ (k \in lost => k \in lost')
          BY <3>1, <3>3
        <4> QED BY <1>0, <3>1, <4>1 DEF Timeless
      <3> QED BY <3>2, <3>3
    <2> QED BY <1>8, <2>1, <2>2 DEF StoreFails
  <1> QED BY <1>1, <1>2, <1>4, <1>5, <1>6, <1>7, <1>8 DEF LoginNext, Login

(* No interleaving of requests, resets and expiries leaves an account      *)
(* locked for good: only a fault between INCR and EXPIRE does.             *)
THEOREM LocksExpire == LoginSpec => []OnlyFaultsLockForGood
  <1>1. LoginInit => OnlyFaultsLockForGood
    BY DEF LoginInit, OnlyFaultsLockForGood
  <1>2. LoginTypeOK /\ OnlyFaultsLockForGood /\ [LoginNext]_lockout => OnlyFaultsLockForGood'
    BY TimelessStep DEF lockout, Aside
  <1> QED BY <1>1, <1>2, OvershootBounded, PTL DEF LoginSpec

-----------------------------------------------------------------------------
(* The API: logins, tokens and quick scans together.                       *)

(* To the counters of failed logins, every step of the API is a step of    *)
(* LoginLockout or none at all.                                            *)
LEMMA ApiStep ==
  ASSUME [Next]_vars
  PROVE  LoginNext \/ Aside
  <1>1. CASE UNCHANGED vars
    BY <1>1 DEF vars, lockout, Aside
  <1>2. ASSUME NEW c \in Clients, Attempt(c) \/ Login(c) \/ StoreFails(c)
        PROVE  LoginNext
    BY <1>2 DEF LoginNext
  <1>3. ASSUME NEW k \in Keys, KeyExpires(k)
        PROVE  LoginNext
    BY <1>3 DEF LoginNext
  <1>4. ASSUME NEW c \in Clients, UseToken(c)
        PROVE  LogInAgain(c) \/ Aside
    BY <1>4 DEF UseToken, Issue, Tick, Decode, LookUp, LookUpFails, Logout, LogoutFails,
       End, lockout, Aside
  <1>5. ASSUME NEW c \in Clients, Scan(c)
        PROVE  Aside
    BY <1>5 DEF Scan, Begin, Hit, Miss, Judge, Commit, Dispatch, DispatchFails, Store,
       ScanFails, lockout, Aside
  <1>6. CacheExpires => Aside
    BY DEF CacheExpires, lockout, Aside
  <1>7. CASE \E c \in Clients : UseToken(c)
    <2>1. PICK c \in Clients : LogInAgain(c) \/ Aside
      BY <1>4, <1>7
    <2> QED BY <2>1 DEF LoginNext
  <1> QED BY <1>1, <1>2, <1>3, <1>5, <1>6, <1>7 DEF Next

(* In the whole API too a counter stays below its limit plus the number of *)
(* requests.                                                               *)
THEOREM ApiOvershootBounded == Spec => []BoundedOvershoot
  <1>1. Init => LoginInv
    BY LoginInitInv DEF Init
  <1>2. LoginInv /\ [Next]_vars => LoginInv'
    BY ApiStep, LoginStep
  <1> QED BY <1>1, <1>2, BoundedByInv, PTL DEF Spec

(* And only a fault between INCR and EXPIRE locks an account for good.     *)
THEOREM ApiLocksExpire == Spec => []OnlyFaultsLockForGood
  <1> DEFINE Inv == LoginInv /\ OnlyFaultsLockForGood
  <1>1. Init => Inv
    BY LoginInitInv DEF Init, LoginInit, OnlyFaultsLockForGood
  <1>2. Inv /\ [Next]_vars => Inv'
    BY ApiStep, LoginStep, TimelessStep DEF LoginInv
  <1> QED BY <1>1, <1>2, PTL DEF Spec

-----------------------------------------------------------------------------
(* Tokens.                                                                 *)

SessionTypeOK ==
  /\ held \in [Clients -> BOOLEAN]
  /\ left \in [Clients -> Nat]
  /\ barred \in [Clients -> Nat]
  /\ loggedOut \in [Clients -> BOOLEAN]
  /\ request \in [Clients -> {"none", "decoded", "accepted"}]
  /\ after \in [Clients -> BOOLEAN]

(* A revoked token is barred until half a second before it expires.        *)
Revoked(c) ==
  /\ loggedOut[c] => held[c] /\ left[c] <= barred[c] + 1
  /\ after[c] => loggedOut[c]
  /\ request[c] = "accepted" /\ after[c] => left[c] < 2

SessionInv == SessionTypeOK /\ \A c \in Clients : Revoked(c)

(* Rounding down to whole seconds loses half a second at most.             *)
LEMMA Rounding ==
  ASSUME NEW n \in Nat
  PROVE  2 * (n \div 2) \in Nat /\ n <= 2 * (n \div 2) + 1
  OBVIOUS

LEMMA UseTokenKeeps ==
  ASSUME SessionInv, NEW c \in Clients, UseToken(c)
  PROVE  SessionInv'
  <1> USE LifetimeAssumption DEF SessionInv, SessionTypeOK, Revoked, token, shows, session
  <1>1. CASE Issue(c)
    <2>1. PICK t \in {2 * Lifetime - 1, 2 * Lifetime} : left' = [left EXCEPT ![c] = t]
      BY <1>1 DEF Issue
    <2>2. t \in Nat
      OBVIOUS
    <2> QED BY <1>1, <2>1, <2>2 DEF Issue
  <1>2. CASE Tick(c)
    <2>1. /\ left[c] > 0 /\ left' = [left EXCEPT ![c] = Less(left[c])]
          /\ barred' = [barred EXCEPT ![c] = Less(barred[c])]
      BY <1>2 DEF Tick
    <2>2. /\ Less(left[c]) \in Nat /\ Less(left[c]) = left[c] - 1
          /\ Less(barred[c]) \in Nat /\ barred[c] <= Less(barred[c]) + 1
      BY <2>1 DEF Less
    <2> QED BY <1>2, <2>1, <2>2 DEF Tick
  <1>3. CASE Decode(c)
    BY <1>3 DEF Decode
  <1>4. CASE LookUp(c)
    BY <1>4 DEF LookUp
  <1>5. CASE LookUpFails(c)
    BY <1>5 DEF LookUpFails
  <1>6. CASE Logout(c)
    <2>1. TimeToLive(c) \in Nat /\ left[c] <= TimeToLive(c) + 1
      BY Rounding DEF TimeToLive
    <2> QED BY <1>6, <2>1 DEF Logout
  <1>7. CASE LogoutFails(c)
    <2>1. TimeToLive(c) \in Nat
      BY Rounding DEF TimeToLive
    <2> QED BY <1>7, <2>1 DEF LogoutFails
  <1>8. CASE End(c)
    BY <1>8 DEF End
  <1> QED BY <1>1, <1>2, <1>3, <1>4, <1>5, <1>6, <1>7, <1>8 DEF UseToken

LEMMA ScanKeepsSession ==
  ASSUME SessionInv, NEW c \in Clients, Scan(c)
  PROVE  SessionInv'
  <1> USE DEF SessionInv, SessionTypeOK, Revoked, token, shows, session
  <1>1. \/ UNCHANGED session
        \/ request' = [request EXCEPT ![c] = "none"] /\ UNCHANGED <<token, after>>
    BY DEF Scan, Begin, Hit, Miss, Judge, Commit, Dispatch, DispatchFails, Store,
       ScanFails, Respond
  <1> QED BY <1>1

(* A request sent after the logout was answered is not accepted, except in *)
(* the last second of the token's life.                                    *)
THEOREM LogoutCorrect == Spec => []LogoutSticks
  <1>1. Init => SessionInv
    BY DEF Init, SessionInit, SessionInv, SessionTypeOK, Revoked
  <1>2. SessionInv /\ [Next]_vars => SessionInv'
    <2> SUFFICES ASSUME SessionInv, [Next]_vars PROVE SessionInv'
      OBVIOUS
    <2>1. CASE UNCHANGED session
      BY <2>1 DEF session, token, shows, SessionInv, SessionTypeOK, Revoked
    <2>2. UNCHANGED session \/ \E c \in Clients : UseToken(c) \/ Scan(c)
      BY DEF Next, vars, CacheExpires
    <2> QED BY <2>1, <2>2, UseTokenKeeps, ScanKeepsSession
  <1>3. SessionInv => LogoutSticks
    BY DEF SessionInv, Revoked, LogoutSticks
  <1> QED BY <1>1, <1>2, <1>3, PTL DEF Spec

-----------------------------------------------------------------------------
(* Quick scans.                                                            *)

Kinds == {"SAFE", "CRITICAL", "placeholder"}
Rows  == [verdict : Kinds, alert : {"none", "queued", "suppressed"}]

QuickTypeOK ==
  /\ scan \in [Clients -> {"none", "look", "judge", "commit", "alert", "store"}]
  /\ mine \in [Clients -> [verdict : Kinds \cup {"none"}, row : Nat]]
  /\ rows \in Seq(Rows)
  /\ cache \in 0 .. Len(rows)
  /\ excused \in BOOLEAN

Filed(n) == n \in 1 .. Len(rows)

(* How a scan stands with its row.                                         *)
ScanOK(c) ==
  /\ scan[c] = "commit" => mine[c].verdict \in Kinds
  /\ scan[c] \in {"alert", "store"} =>
       Filed(mine[c].row) /\ rows[mine[c].row].verdict = mine[c].verdict
  /\ scan[c] = "store" /\ mine[c].verdict = "CRITICAL" => rows[mine[c].row].alert # "none"

(* A row with an alert is severe; a cached verdict that is severe has one. *)
RowsOK ==
  /\ \A n \in 1 .. Len(rows) : rows[n].alert # "none" => rows[n].verdict = "CRITICAL"
  /\ cache # 0 /\ rows[cache].verdict = "CRITICAL" => rows[cache].alert # "none"

(* Without an excuse there is one scan at a time, and none while a verdict *)
(* is cached; and every alert is of the cached row or of the scan's.       *)
AloneOK ==
  excused \/ /\ \A c, d \in Scanning : c = d
             /\ Scanning # {} => cache = 0
             /\ \A n \in 1 .. Len(rows) : rows[n].alert = "queued" =>
                  n = cache \/ \E c \in Clients : scan[c] = "store" /\ mine[c].row = n

QuickInv == QuickTypeOK /\ (\A c \in Clients : ScanOK(c)) /\ RowsOK /\ AloneOK

(* The verdict of a scan is one of three.                                  *)
LEMMA VerdictKinds ==
  ASSUME NEW sources
  PROVE  Verdict(sources) \in Kinds
  BY ScanAssumption DEF Verdict, Kinds

(* A scan's step that writes no row leaves the rows and the others' scans  *)
(* as they are.                                                            *)
LEMMA OwnStep ==
  ASSUME QuickTypeOK, \A d \in Clients : ScanOK(d), NEW c \in Clients, UNCHANGED rows,
         NEW step \in {"none", "look", "judge", "commit", "alert", "store"},
         NEW m \in [verdict : Kinds \cup {"none"}, row : Nat],
         scan' = [scan EXCEPT ![c] = step], mine' = [mine EXCEPT ![c] = m],
         step = "commit" => m.verdict \in Kinds, step \notin {"alert", "store"}
  PROVE  /\ scan' \in [Clients -> {"none", "look", "judge", "commit", "alert", "store"}]
         /\ mine' \in [Clients -> [verdict : Kinds \cup {"none"}, row : Nat]]
         /\ \A d \in Clients : ScanOK(d)'
  BY DEF QuickTypeOK, ScanOK, Filed

LEMMA BeginKeeps ==
  ASSUME QuickInv, NEW c \in Clients, Begin(c) \/ Hit(c)
  PROVE  QuickInv'
  <1>1. \/ scan' = [scan EXCEPT ![c] = "look"] /\ mine' = mine
        \/ scan' = [scan EXCEPT ![c] = "none"] /\ mine' = [mine EXCEPT ![c] = Nothing]
    BY DEF Begin, Hit, Respond, Move
  <1>2. UNCHANGED <<rows, cache, excused>> /\ scan[c] \in {"none", "look"}
    BY DEF Begin, Hit
  <1>3. QuickTypeOK' /\ \A d \in Clients : ScanOK(d)'
    <2> DEFINE V == [verdict : Kinds \cup {"none"}, row : Nat]
    <2>1. mine[c] \in V /\ Nothing \in V /\ mine = [mine EXCEPT ![c] = mine[c]]
      BY DEF QuickInv, QuickTypeOK, Nothing
    <2>2. PICK m \in V, step \in {"none", "look"} :
            scan' = [scan EXCEPT ![c] = step] /\ mine' = [mine EXCEPT ![c] = m]
      BY <1>1, <2>1
    <2> QED BY <1>2, <2>2, OwnStep DEF QuickInv, QuickTypeOK
  <1>4. RowsOK'
    BY <1>2 DEF QuickInv, RowsOK
  <1>5. \A d \in Clients : scan'[d] \in {"judge", "commit", "alert", "store"} =>
                             scan'[d] = scan[d] /\ mine'[d] = mine[d] /\ d # c
    BY <1>1, <1>2 DEF QuickInv, QuickTypeOK
  <1>6. \A d \in Clients : scan[d] = "store" => scan'[d] = "store" /\ mine'[d] = mine[d]
    BY <1>1, <1>2 DEF QuickInv, QuickTypeOK
  <1>7. Scanning' \subseteq Scanning
    BY <1>3, <1>5 DEF Scanning, QuickTypeOK
  <1>8. AloneOK'
    BY <1>2, <1>6, <1>7 DEF QuickInv, AloneOK
  <1> QED BY <1>3, <1>4, <1>8 DEF QuickInv

LEMMA MissKeeps ==
  ASSUME QuickInv, NEW c \in Clients, Miss(c)
  PROVE  QuickInv'
  <1>1. /\ scan[c] = "look" /\ cache = 0 /\ scan' = [scan EXCEPT ![c] = "judge"]
        /\ UNCHANGED <<rows, cache, mine>> /\ excused' = (excused \/ Scanning # {})
    BY DEF Miss, Move
  <1>2. mine' = [mine EXCEPT ![c] = mine[c]] /\ mine[c] \in [verdict : Kinds \cup {"none"}, row : Nat]
    BY <1>1 DEF QuickInv, QuickTypeOK
  <1>3. QuickTypeOK' /\ \A d \in Clients : ScanOK(d)'
    <2>1. excused' \in BOOLEAN
      BY <1>1 DEF QuickInv, QuickTypeOK
    <2>2. cache' \in 0 .. Len(rows')
      BY <1>1 DEF QuickInv, QuickTypeOK
    <2> QED BY <1>1, <1>2, <2>1, <2>2, OwnStep DEF QuickInv, QuickTypeOK
  <1>4. RowsOK'
    BY <1>1 DEF QuickInv, RowsOK
  <1>5. AloneOK'
    <2>1. CASE excused \/ Scanning # {}
      BY <1>1, <2>1 DEF AloneOK
    <2>2. CASE ~excused /\ Scanning = {}
      <3>1. Scanning' = {c}
        BY <1>1, <2>2 DEF Scanning, QuickInv, QuickTypeOK
      <3>2. \A d \in Clients : scan[d] # "store"
        BY <2>2 DEF Scanning
      <3>3. \A n \in 1 .. Len(rows) : rows[n].alert # "queued"
        BY <1>1, <2>2, <3>2 DEF QuickInv, AloneOK
      <3> QED BY <1>1, <3>1, <3>3 DEF AloneOK
    <2> QED BY <2>1, <2>2
  <1> QED BY <1>3, <1>4, <1>5 DEF QuickInv

LEMMA JudgeKeeps ==
  ASSUME QuickInv, NEW c \in Clients, Judge(c)
  PROVE  QuickInv'
  <1>1. PICK sources \in Answers :
          mine' = [mine EXCEPT ![c] = [verdict |-> Verdict(sources), row |-> 0]]
    BY DEF Judge
  <1>2. scan[c] = "judge" /\ scan' = [scan EXCEPT ![c] = "commit"] /\ UNCHANGED <<rows, cache, excused>>
    BY DEF Judge, Move
  <1> DEFINE m == [verdict |-> Verdict(sources), row |-> 0]
  <1>3. m \in [verdict : Kinds \cup {"none"}, row : Nat] /\ m.verdict \in Kinds
    BY VerdictKinds
  <1> HIDE DEF m
  <1>4. QuickTypeOK' /\ \A d \in Clients : ScanOK(d)'
    BY <1>1, <1>2, <1>3, OwnStep DEF QuickInv, QuickTypeOK, m
  <1>5. RowsOK'
    BY <1>2 DEF QuickInv, RowsOK
  <1>6. Scanning' = Scanning
    BY <1>2 DEF Scanning, QuickInv, QuickTypeOK
  <1>7. \A d \in Clients : scan[d] = "store" => scan'[d] = "store" /\ mine'[d] = mine[d]
    BY <1>1, <1>2 DEF QuickInv, QuickTypeOK
  <1>8. AloneOK'
    BY <1>2, <1>6, <1>7 DEF QuickInv, AloneOK
  <1> QED BY <1>4, <1>5, <1>8 DEF QuickInv

LEMMA CommitKeeps ==
  ASSUME QuickInv, NEW c \in Clients, Commit(c)
  PROVE  QuickInv'
  <1> DEFINE r == [verdict |-> mine[c].verdict, alert |-> "none"]
             l == Len(rows)
  <1>a. QuickTypeOK /\ RowsOK /\ AloneOK /\ \A d \in Clients : ScanOK(d)
    BY DEF QuickInv
  <1>1. /\ scan[c] = "commit" /\ scan' = [scan EXCEPT ![c] = "alert"]
        /\ rows' = Append(rows, r) /\ mine' = [mine EXCEPT ![c].row = l + 1]
        /\ UNCHANGED <<cache, excused>>
    BY DEF Commit, Move
  <1>2. mine[c].verdict \in Kinds /\ r \in Rows
    BY <1>1, <1>a DEF ScanOK, Rows
  <1>3. /\ l \in Nat /\ rows' \in Seq(Rows) /\ Len(rows') = l + 1
        /\ \A n \in 1 .. l : rows'[n] = rows[n]
        /\ rows'[l + 1] = r
    BY <1>1, <1>2, <1>a DEF QuickTypeOK
  <1> HIDE DEF l
  <1>4. /\ mine'[c].row = l + 1 /\ mine'[c].verdict = mine[c].verdict
        /\ mine'[c] \in [verdict : Kinds \cup {"none"}, row : Nat]
        /\ \A d \in Clients \ {c} : mine'[d] = mine[d] /\ scan'[d] = scan[d]
        /\ scan'[c] = "alert"
    BY <1>1, <1>3, <1>a DEF QuickTypeOK
  <1>5. QuickTypeOK'
    <2>1. scan' \in [Clients -> {"none", "look", "judge", "commit", "alert", "store"}]
      BY <1>1, <1>a DEF QuickTypeOK
    <2>2. mine' \in [Clients -> [verdict : Kinds \cup {"none"}, row : Nat]]
      BY <1>1, <1>3, <1>4, <1>a DEF QuickTypeOK
    <2>3. cache' \in 0 .. Len(rows')
      BY <1>1, <1>3, <1>a DEF QuickTypeOK, l
    <2> QED BY <1>1, <1>3, <1>a, <2>1, <2>2, <2>3 DEF QuickTypeOK
  <1>6. ASSUME NEW d \in Clients PROVE ScanOK(d)'
    <2>1. CASE d = c
      BY <1>3, <1>4, <2>1 DEF ScanOK, Filed
    <2>2. CASE d # c
      <3>1. ScanOK(d) /\ mine'[d] = mine[d] /\ scan'[d] = scan[d]
        BY <1>4, <1>a, <2>2
      <3>2. Filed(mine[d].row) => mine[d].row \in 1 .. l /\ mine[d].row \in 1 .. l + 1
        BY <1>3 DEF Filed, l
      <3> QED BY <1>3, <3>1, <3>2 DEF ScanOK, Filed
    <2> QED BY <2>1, <2>2
  <1>7. RowsOK'
    <2>1. \A n \in 1 .. l + 1 : rows'[n].alert # "none" => rows'[n].verdict = "CRITICAL"
      BY <1>3, <1>a DEF RowsOK, l
    <2>2. cache # 0 => cache \in 1 .. l
      BY <1>a DEF QuickTypeOK, l
    <2> QED BY <1>1, <1>3, <1>a, <2>1, <2>2 DEF RowsOK
  <1>8. AloneOK'
    <2>1. Scanning' = Scanning
      BY <1>1, <1>a DEF Scanning, QuickTypeOK
    <2>2. \A n \in 1 .. l + 1 : rows'[n].alert = "queued" => n \in 1 .. l /\ rows[n].alert = "queued"
      BY <1>3
    <2>3. \A d \in Clients : scan[d] = "store" => scan'[d] = "store" /\ mine'[d] = mine[d]
      BY <1>1, <1>4
    <2> QED BY <1>1, <1>3, <1>a, <2>1, <2>2, <2>3 DEF AloneOK, l
  <1> QED BY <1>5, <1>6, <1>7, <1>8 DEF QuickInv

(* The alert of a severe verdict is queued or suppressed, and the scan     *)
(* goes on to cache it.                                                    *)
LEMMA AlertKeeps ==
  ASSUME QuickInv, NEW c \in Clients, Dispatch(c) \/ DispatchFails(c)
  PROVE  QuickInv'
  <1> DEFINE k == mine[c].row
             v == mine[c].verdict
  <1>a. QuickTypeOK /\ RowsOK /\ AloneOK /\ \A d \in Clients : ScanOK(d)
    BY DEF QuickInv
  <1>1. PICK what \in {"queued", "suppressed"} : Alerted(c, what)
    BY DEF Dispatch, DispatchFails
  <1>2. /\ scan[c] = "alert" /\ scan' = [scan EXCEPT ![c] = "store"]
        /\ UNCHANGED <<mine, cache, excused>>
    BY DEF Dispatch, DispatchFails, Move
  <1>3. k \in 1 .. Len(rows) /\ rows[k] \in Rows /\ rows[k].verdict = v
    BY <1>2, <1>a DEF ScanOK, Filed, QuickTypeOK
  <1>4. /\ rows' \in Seq(Rows) /\ Len(rows') = Len(rows)
        /\ \A n \in 1 .. Len(rows) : n # k => rows'[n] = rows[n]
        /\ rows'[k].verdict = v
        /\ v = "CRITICAL" => rows'[k].alert = what
        /\ v # "CRITICAL" => rows'[k] = rows[k]
    <2>1. CASE v = "CRITICAL"
      <3>1. rows' = [rows EXCEPT ![k] = [rows[k] EXCEPT !.alert = what]]
        BY <1>1, <2>1 DEF Alerted
      <3>2. /\ [rows[k] EXCEPT !.alert = what] \in Rows
            /\ [rows[k] EXCEPT !.alert = what].alert = what
            /\ [rows[k] EXCEPT !.alert = what].verdict = v
        BY <1>1, <1>3 DEF Rows
      <3> HIDE DEF k, v
      <3> QED BY <1>3, <1>a, <2>1, <3>1, <3>2 DEF QuickTypeOK
    <2>2. CASE v # "CRITICAL"
      BY <1>1, <1>3, <1>a, <2>2 DEF Alerted, QuickTypeOK
    <2> QED BY <2>1, <2>2
  <1>5. /\ scan'[c] = "store" /\ \A d \in Clients \ {c} : scan'[d] = scan[d]
        /\ scan' \in [Clients -> {"none", "look", "judge", "commit", "alert", "store"}]
    BY <1>2, <1>a DEF QuickTypeOK
  <1>6. QuickTypeOK'
    BY <1>2, <1>4, <1>5, <1>a DEF QuickTypeOK
  <1>7. \A n \in 1 .. Len(rows) : /\ rows'[n].verdict = rows[n].verdict
                                  /\ rows[n].alert # "none" => rows'[n].alert # "none"
    BY <1>1, <1>3, <1>4
  <1>8. ASSUME NEW d \in Clients PROVE ScanOK(d)'
    <2>1. CASE d = c
      BY <1>1, <1>2, <1>3, <1>4, <1>5, <2>1 DEF ScanOK, Filed
    <2>2. CASE d # c
      BY <1>2, <1>4, <1>5, <1>7, <1>a, <2>2 DEF ScanOK, Filed
    <2> QED BY <2>1, <2>2
  <1>9. RowsOK'
    <2>1. \A n \in 1 .. Len(rows) : rows'[n].alert # "none" => rows'[n].verdict = "CRITICAL"
      BY <1>3, <1>4, <1>7, <1>a DEF RowsOK
    <2>2. cache # 0 => cache \in 1 .. Len(rows)
      BY <1>a DEF QuickTypeOK
    <2> QED BY <1>2, <1>4, <1>7, <1>a, <2>1, <2>2 DEF RowsOK
  <1>10. AloneOK'
    <2>1. Scanning' = Scanning
      BY <1>2, <1>5, <1>a DEF Scanning, QuickTypeOK
    <2>2. ASSUME ~excused, NEW n \in 1 .. Len(rows), rows'[n].alert = "queued"
          PROVE  n = cache \/ \E d \in Clients : scan'[d] = "store" /\ mine[d].row = n
      <3>1. CASE n = k
        BY <1>5, <3>1
      <3>2. CASE n # k
        BY <1>4, <1>5, <1>2, <1>a, <2>2, <3>2 DEF AloneOK
      <3> QED BY <3>1, <3>2
    <2> QED BY <1>2, <1>4, <1>a, <2>1, <2>2 DEF AloneOK
  <1> QED BY <1>6, <1>8, <1>9, <1>10 DEF QuickInv

(* A scan that ends leaves the others as they are.                         *)
LEMMA EndStep ==
  ASSUME QuickTypeOK, \A d \in Clients : ScanOK(d), NEW c \in Clients, UNCHANGED rows,
         Respond(c)
  PROVE  /\ scan' \in [Clients -> {"none", "look", "judge", "commit", "alert", "store"}]
         /\ mine' \in [Clients -> [verdict : Kinds \cup {"none"}, row : Nat]]
         /\ \A d \in Clients : ScanOK(d)'
         /\ \A d \in Clients \ {c} : scan'[d] = scan[d] /\ mine'[d] = mine[d]
         /\ Scanning' = Scanning \ {c}
  <1>1. scan' = [scan EXCEPT ![c] = "none"] /\ mine' = [mine EXCEPT ![c] = Nothing]
    BY DEF Respond, Move
  <1>2. Nothing \in [verdict : Kinds \cup {"none"}, row : Nat]
    BY DEF Nothing
  <1>3. Scanning' = Scanning \ {c}
    BY <1>1 DEF Scanning, QuickTypeOK
  <1>4. \A d \in Clients \ {c} : scan'[d] = scan[d] /\ mine'[d] = mine[d]
    BY <1>1 DEF QuickTypeOK
  <1> QED BY <1>1, <1>2, <1>3, <1>4, OwnStep DEF QuickTypeOK

(* The verdict is cached, or may not be, and the scan ends.                *)
LEMMA StoreKeeps ==
  ASSUME QuickInv, NEW c \in Clients, Store(c)
  PROVE  QuickInv'
  <1>a. QuickTypeOK /\ RowsOK /\ AloneOK /\ \A d \in Clients : ScanOK(d)
    BY DEF QuickInv
  <1>1. /\ scan[c] = "store" /\ Respond(c) /\ UNCHANGED <<rows, excused>>
        /\ cache' = IF Cacheable(c) THEN mine[c].row ELSE cache
    BY DEF Store
  <1>2. /\ mine[c].row \in 1 .. Len(rows) /\ rows[mine[c].row].verdict = mine[c].verdict
        /\ mine[c].verdict = "CRITICAL" => rows[mine[c].row].alert # "none"
    BY <1>1, <1>a DEF ScanOK, Filed
  <1>3. QuickTypeOK' /\ \A d \in Clients : ScanOK(d)'
    BY <1>1, <1>2, <1>a, EndStep DEF QuickTypeOK
  <1>4. RowsOK'
    BY <1>1, <1>2, <1>a DEF RowsOK
  <1>5. AloneOK'
    <2> SUFFICES ASSUME ~excused PROVE AloneOK'
      BY <1>1 DEF AloneOK
    <2>1. Scanning = {c} /\ cache = 0
      BY <1>1, <1>a DEF AloneOK, Scanning
    <2>2. Scanning' = {}
      BY <1>1, <1>a, <2>1, EndStep
    <2>3. ASSUME NEW n \in 1 .. Len(rows), rows[n].alert = "queued"
          PROVE  n = cache'
      <3>1. n # cache
        BY <2>1
      <3>2. n = mine[c].row
        BY <1>a, <2>1, <2>3, <3>1 DEF AloneOK, Scanning
      <3>3. rows[n].verdict = "CRITICAL"
        BY <1>a, <2>3 DEF RowsOK
      <3> QED BY <1>1, <1>2, <3>2, <3>3 DEF Cacheable
    <2> QED BY <1>1, <2>2, <2>3 DEF AloneOK
  <1> QED BY <1>3, <1>4, <1>5 DEF QuickInv

(* A failed scan leaves its row behind; an excuse, if its alert was sent.  *)
LEMMA FailKeeps ==
  ASSUME QuickInv, NEW c \in Clients, ScanFails(c)
  PROVE  QuickInv'
  <1>a. QuickTypeOK /\ RowsOK /\ AloneOK /\ \A d \in Clients : ScanOK(d)
    BY DEF QuickInv
  <1>1. /\ Respond(c) /\ rows' = rows /\ excused' = (excused \/ scan[c] = "store")
        /\ \/ cache' = cache
           \/ scan[c] = "store" /\ cache' = mine[c].row
    BY Zenon DEF ScanFails
  <1>2. scan[c] = "store" =>
          /\ mine[c].row \in 1 .. Len(rows) /\ rows[mine[c].row].verdict = mine[c].verdict
          /\ mine[c].verdict = "CRITICAL" => rows[mine[c].row].alert # "none"
    BY <1>a DEF ScanOK, Filed
  <1>3. QuickTypeOK' /\ \A d \in Clients : ScanOK(d)'
    BY <1>1, <1>2, <1>a, EndStep DEF QuickTypeOK
  <1>4. RowsOK'
    BY <1>1, <1>2, <1>a DEF RowsOK
  <1>5. AloneOK'
    <2> SUFFICES ASSUME ~excused, scan[c] # "store" PROVE AloneOK'
      BY <1>1 DEF AloneOK
    <2>1. Scanning' \subseteq Scanning /\ cache' = cache
      BY <1>1, <1>a, EndStep
    <2>2. \A d \in Clients : scan[d] = "store" => scan'[d] = "store" /\ mine'[d] = mine[d]
      BY <1>1, <1>a, EndStep
    <2> QED BY <1>1, <1>a, <2>1, <2>2 DEF AloneOK
  <1> QED BY <1>3, <1>4, <1>5 DEF QuickInv

(* Every step keeps the scans in order.                                    *)
LEMMA QuickStep == QuickInv /\ [Next]_vars => QuickInv'
  <1>1. ASSUME QuickInv, UNCHANGED quick PROVE QuickInv'
    BY <1>1 DEF quick, QuickInv, QuickTypeOK, ScanOK, RowsOK, AloneOK, Filed, Scanning
  <1>2. ASSUME QuickInv, CacheExpires PROVE QuickInv'
    BY <1>2 DEF CacheExpires, QuickInv, QuickTypeOK, ScanOK, RowsOK, AloneOK, Filed
  <1>3. ASSUME QuickInv, NEW c \in Clients, Scan(c) PROVE QuickInv'
    BY <1>3, BeginKeeps, MissKeeps, JudgeKeeps, CommitKeeps, AlertKeeps, StoreKeeps, FailKeeps
       DEF Scan
  <1> QED BY <1>1, <1>2, <1>3 DEF Next, vars

LEMMA QuickFirst == Init => QuickInv
  <1> SUFFICES ASSUME QuickInit PROVE QuickInv
    BY DEF Init
  <1>1. rows \in Seq(Rows) /\ Len(rows) = 0 /\ cache = 0 /\ excused = FALSE
    BY DEF QuickInit
  <1>2. \A c \in Clients : scan[c] = "none"
    BY DEF QuickInit
  <1>3. QuickTypeOK
    <2>1. Nothing \in [verdict : Kinds \cup {"none"}, row : Nat]
      BY DEF Nothing
    <2>2. mine \in [Clients -> [verdict : Kinds \cup {"none"}, row : Nat]]
      BY <2>1, Zenon DEF QuickInit
    <2>3. scan \in [Clients -> {"none", "look", "judge", "commit", "alert", "store"}]
      BY DEF QuickInit
    <2>4. cache \in 0 .. Len(rows)
      BY <1>1
    <2>5. excused \in BOOLEAN
      BY DEF QuickInit
    <2> QED BY <1>1, <2>2, <2>3, <2>4, <2>5 DEF QuickTypeOK
  <1>4. Scanning = {}
    BY <1>2 DEF Scanning
  <1> QED BY <1>1, <1>2, <1>3, <1>4 DEF QuickInv, ScanOK, RowsOK, AloneOK

LEMMA QuickCorrect == Spec => []QuickInv
  BY QuickFirst, QuickStep, PTL DEF Spec

(* For any number of clients, feeds and faults: a verdict that is cached,  *)
(* or about to be shown, has its alert when it is severe.                  *)
THEOREM ShownCorrect == Spec => []ShownMeansAlerted
  <1>1. QuickInv => ShownMeansAlerted
    BY DEF QuickInv, QuickTypeOK, ScanOK, RowsOK, ShownMeansAlerted
  <1> QED BY QuickCorrect, <1>1, PTL

(* For any number of clients, feeds and faults: a second alert for the URL *)
(* takes an overlap, an expiry or a failure after the first.               *)
THEOREM RepeatsCorrect == Spec => []RepeatsNeedOverlap
  <1>1. ASSUME QuickInv PROVE RepeatsNeedOverlap
    <2> DEFINE Queued == {n \in DOMAIN rows : rows[n].alert = "queued"}
    <2> SUFFICES ASSUME ~excused PROVE Cardinality(Queued) \in {0, 1}
      BY DEF RepeatsNeedOverlap
    <2>0. DOMAIN rows = 1 .. Len(rows)
      BY <1>1 DEF QuickInv, QuickTypeOK
    <2>1. \A m, n \in Queued : m = n
      <3>1. CASE Scanning = {}
        <4>1. \A n \in Queued : n = cache
          BY <1>1, <2>0, <3>1 DEF QuickInv, AloneOK, Scanning
        <4> QED BY <4>1
      <3>2. CASE Scanning # {}
        <4>1. cache = 0
          BY <1>1, <3>2 DEF QuickInv, AloneOK
        <4>2. \A n \in Queued : \E d \in Clients : scan[d] = "store" /\ mine[d].row = n
          BY <1>1, <2>0, <4>1 DEF QuickInv, AloneOK
        <4>3. \A c, d \in Clients : scan[c] = "store" /\ scan[d] = "store" => c = d
          BY <1>1 DEF QuickInv, AloneOK, Scanning
        <4> QED BY <4>2, <4>3
      <3> QED BY <3>1, <3>2
    <2>2. CASE Queued = {}
      BY <2>2, FS_EmptySet
    <2>3. CASE Queued # {}
      <3>1. PICK n \in Queued : TRUE
        BY <2>3
      <3>2. Queued = {n}
        BY <2>1, <3>1
      <3> QED BY <3>2, FS_Singleton
    <2> QED BY <2>2, <2>3
  <1> QED BY QuickCorrect, <1>1, PTL
=============================================================================
