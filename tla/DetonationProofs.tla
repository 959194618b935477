-------------------------- MODULE DetonationProofs --------------------------
(***************************************************************************)
(* Theorems about AdmissionGate, about SandboxRunner, which is behind such *)
(* a gate, and about Detonation, which is the service and those it serves; *)
(* for any finite number of requests and any workers, limits, retries and  *)
(* faults.                                                                 *)
(***************************************************************************)
EXTENDS Detonation, FiniteSetTheorems, SequenceTheorems, TLAPS

USE GateAssumption DEF GateAssumption

(* The requests a permit is held for when the stages are s.                *)
Holders(s) == {r \in Requests : s[r] \in {"granted", "admitted"}}

Waiters(s) == {r \in Requests : s[r] = "waiting"}

GateInv == GateTypeOK /\ PermitsConserved /\ NoWaiterStranded

(* The invariant, of a value f of the semaphore and stages s.              *)
Balanced(f, s) == f + Cardinality(Holders(s)) = Limit

-----------------------------------------------------------------------------
LEMMA HoldersFinite ==
  ASSUME NEW s
  PROVE  IsFiniteSet(Holders(s)) /\ Cardinality(Holders(s)) \in Nat
  BY FS_Subset, FS_CardinalityType DEF Holders

LEMMA HoldersHere == Holders(stage) = At("granted") \cup At("admitted")
  BY DEF Holders, At

(* One more holder, one holder less.                                       *)
LEMMA HolderAdded ==
  ASSUME NEW s, NEW t, NEW r \in Requests \ Holders(s), Holders(t) = Holders(s) \cup {r}
  PROVE  Cardinality(Holders(t)) = Cardinality(Holders(s)) + 1
  BY HoldersFinite, FS_AddElement

LEMMA HolderRemoved ==
  ASSUME NEW s, NEW t, NEW r \in Holders(s), Holders(t) = Holders(s) \ {r}
  PROVE  Cardinality(Holders(t)) = Cardinality(Holders(s)) - 1
  BY HoldersFinite, FS_RemoveElement

(* _wake_up_next keeps the balance, and leaves nobody stranded.            *)
LEMMA WakeKeeps ==
  ASSUME NEW s \in [Requests -> Stages], NEW f \in Nat \ {0},
         Balanced(f, s), WakeNext(f, s)
  PROVE  GateInv'
  <1>1. CASE Waiters(s) = {}
    <2>1. stage' = s /\ free' = f
      BY <1>1 DEF WakeNext, Waiters
    <2>2. free' \in 0 .. Limit
      BY <2>1, HoldersFinite DEF Balanced
    <2>3. Holders(s) = At("granted")' \cup At("admitted")' /\ At("waiting")' = {}
      BY <1>1, <2>1 DEF Holders, At, Waiters
    <2> QED BY <2>1, <2>2, <2>3
            DEF GateInv, GateTypeOK, PermitsConserved, NoWaiterStranded, Balanced
  <1>2. CASE Waiters(s) # {}
    <2>1. PICK w \in Waiters(s) : stage' = [s EXCEPT ![w] = "granted"] /\ free' = f - 1
      BY <1>2 DEF WakeNext, Waiters
    <2>2. stage' \in [Requests -> Stages] /\ w \in At("granted")'
      BY <2>1 DEF Waiters, Stages, At
    <2>3. w \in Requests \ Holders(s)
      BY <2>1 DEF Waiters, Holders
    <2>4. Holders(stage') = Holders(s) \cup {w}
      BY <2>1 DEF Waiters, Holders
    <2>5. Cardinality(Holders(stage')) = Cardinality(Holders(s)) + 1
      BY <2>3, <2>4, HolderAdded
    <2>6. Holders(stage') = At("granted")' \cup At("admitted")'
      BY DEF Holders, At
    <2>7. free' + Cardinality(Holders(stage')) = Limit /\ free' \in 0 .. Limit
      BY <2>1, <2>5, HoldersFinite DEF Balanced
    <2> QED BY <2>2, <2>6, <2>7
            DEF GateInv, GateTypeOK, PermitsConserved, NoWaiterStranded
  <1> QED BY <1>1, <1>2

-----------------------------------------------------------------------------
LEMMA GateInitInv == GateInit => GateInv
  <1> SUFFICES ASSUME GateInit PROVE GateInv
    OBVIOUS
  <1>1. At("granted") \cup At("admitted") = {} /\ At("waiting") = {}
    BY DEF GateInit, At
  <1> QED BY <1>1, FS_EmptySet DEF GateInit, GateInv, GateTypeOK, PermitsConserved,
             NoWaiterStranded, Stages

LEMMA CheckKeeps == ASSUME GateInv, NEW r \in Requests, Check(r) PROVE GateInv'
  <1>1. GateTypeOK'
    BY DEF GateInv, GateTypeOK, Check, Stages
  <1>2. UNCHANGED <<free, At("granted"), At("admitted"), At("waiting")>>
    BY DEF GateInv, GateTypeOK, Check, At
  <1> QED BY <1>1, <1>2 DEF GateInv, PermitsConserved, NoWaiterStranded

LEMMA AcquireKeeps == ASSUME GateInv, NEW r \in Requests, Acquire(r) PROVE GateInv'
  <1> USE DEF GateInv, GateTypeOK
  <1>1. CASE Locked
    <2>1. stage' = [stage EXCEPT ![r] = "waiting"] /\ free' = free
      BY <1>1 DEF Acquire
    <2>2. stage[r] = "acquiring"
      BY DEF Acquire
    <2>3. UNCHANGED <<At("granted"), At("admitted")>>
      BY <2>1, <2>2 DEF At
    <2>4. GateTypeOK'
      BY <2>1 DEF Stages
    <2>5. PermitsConserved'
      BY <2>1, <2>3 DEF PermitsConserved
    <2>6. NoWaiterStranded'
      BY <1>1, <2>1, <2>3 DEF Locked, NoWaiterStranded
    <2> QED BY <2>4, <2>5, <2>6
  <1>2. CASE ~Locked
    <2>1. stage' = [stage EXCEPT ![r] = "admitted"] /\ free' = free - 1 /\ free \in 1 .. Limit
      BY <1>2 DEF Acquire, Locked
    <2>2. stage[r] = "acquiring"
      BY DEF Acquire
    <2>3. r \in Requests \ Holders(stage) /\ Holders(stage') = Holders(stage) \cup {r}
      BY <2>1, <2>2 DEF Holders
    <2>4. Cardinality(Holders(stage')) = Cardinality(Holders(stage)) + 1
      BY <2>3, HolderAdded
    <2>5. Holders(stage') = At("granted")' \cup At("admitted")'
      BY DEF Holders, At
    <2>6. At("waiting")' = {}
      BY <1>2, <2>1 DEF Locked, At
    <2>7. GateTypeOK'
      BY <2>1 DEF Stages
    <2>8. free + Cardinality(Holders(stage)) = Limit
      BY HoldersHere DEF PermitsConserved
    <2>9. Cardinality(Holders(stage)) \in Nat
      BY HoldersFinite
    <2>10. free' + Cardinality(Holders(stage')) = Limit
      BY <2>1, <2>4, <2>8, <2>9
    <2>11. PermitsConserved'
      BY <2>5, <2>10 DEF PermitsConserved
    <2> QED BY <2>6, <2>7, <2>11 DEF NoWaiterStranded
  <1> QED BY <1>1, <1>2

LEMMA ResumeKeeps == ASSUME GateInv, NEW r \in Requests, Resume(r) PROVE GateInv'
  <1> USE DEF GateInv, GateTypeOK
  <1> DEFINE s == [stage EXCEPT ![r] = "admitted"]
  <1>1. s \in [Requests -> Stages] /\ Holders(s) = Holders(stage)
    BY DEF Resume, Stages, Holders
  <1>2. Balanced(free, s)
    BY <1>1, HoldersHere DEF Balanced, PermitsConserved
  <1>3. CASE free > 0
    <2>1. WakeNext(free, s)
      BY <1>3 DEF Resume
    <2>2. free \in Nat \ {0}
      BY <1>3
    <2> HIDE DEF s, GateInv, GateTypeOK
    <2> QED BY <1>1, <1>2, <2>1, <2>2, WakeKeeps
  <1>4. CASE free = 0
    <2>1. stage' = s /\ free' = free
      BY <1>4 DEF Resume
    <2>2. Holders(stage') = At("granted")' \cup At("admitted")'
      BY DEF Holders, At
    <2>3. PermitsConserved'
      BY <1>2, <2>1, <2>2 DEF Balanced, PermitsConserved
    <2>4. GateTypeOK' /\ NoWaiterStranded'
      BY <1>1, <1>4, <2>1 DEF NoWaiterStranded
    <2> QED BY <2>3, <2>4
  <1> QED BY <1>3, <1>4

(* A permit that is given back goes to the next waiter, or is free.        *)
LEMMA GivingBack ==
  ASSUME GateInv, NEW r \in Holders(stage), NEW l \in {"left", "rejected"},
         WakeNext(free + 1, [stage EXCEPT ![r] = l])
  PROVE  GateInv'
  <1> DEFINE s == [stage EXCEPT ![r] = l]
  <1>1. s \in [Requests -> Stages] /\ Holders(s) = Holders(stage) \ {r}
    BY DEF GateInv, GateTypeOK, Stages, Holders
  <1>2. Cardinality(Holders(s)) = Cardinality(Holders(stage)) - 1
    BY <1>1, HolderRemoved
  <1>3. Balanced(free + 1, s) /\ free + 1 \in Nat \ {0}
    <2>1. free + Cardinality(Holders(stage)) = Limit
      BY HoldersHere DEF GateInv, PermitsConserved
    <2>2. Cardinality(Holders(stage)) \in Nat /\ free \in Nat
      BY HoldersFinite DEF GateInv, GateTypeOK
    <2> QED BY <1>2, <2>1, <2>2 DEF Balanced
  <1>4. WakeNext(free + 1, s)
    OBVIOUS
  <1> HIDE DEF s
  <1> QED BY <1>1, <1>3, <1>4, WakeKeeps

LEMMA GiveUpKeeps == ASSUME GateInv, NEW r \in Requests, GiveUp(r) PROVE GateInv'
  <1>1. CASE stage[r] = "waiting"
    <2>1. stage' = [stage EXCEPT ![r] = "rejected"] /\ free' = free
      BY <1>1 DEF GiveUp
    <2>2. UNCHANGED <<free, At("granted"), At("admitted")>> /\ At("waiting")' \subseteq At("waiting")
      BY <1>1, <2>1 DEF At, GateInv, GateTypeOK
    <2>3. GateTypeOK'
      BY <2>1 DEF GateInv, GateTypeOK, Stages
    <2> QED BY <2>2, <2>3 DEF GateInv, PermitsConserved, NoWaiterStranded
  <1>2. CASE stage[r] # "waiting"
    <2>1. r \in Holders(stage) /\ WakeNext(free + 1, [stage EXCEPT ![r] = "rejected"])
      BY <1>2 DEF GiveUp, Holders
    <2> QED BY <2>1, GivingBack
  <1> QED BY <1>1, <1>2

LEMMA ReleaseKeeps == ASSUME GateInv, NEW r \in Requests, Release(r) PROVE GateInv'
  <1>1. r \in Holders(stage)
    BY DEF Release, Holders
  <1> QED BY <1>1, GivingBack DEF Release

LEMMA GateStep == GateInv /\ [GateNext]_gate => GateInv'
  <1>1. GateInv /\ UNCHANGED gate => GateInv'
    BY DEF gate, GateInv, GateTypeOK, PermitsConserved, NoWaiterStranded, At
  <1> QED BY <1>1, CheckKeeps, AcquireKeeps, ResumeKeeps, GiveUpKeeps, ReleaseKeeps
          DEF GateNext, Admit

(* However time-outs, wake-ups and releases meet, no permit is lost or     *)
(* made, and nobody waits for one that is free.                            *)
THEOREM GateCorrect == GateSpec => [](GateTypeOK /\ PermitsConserved /\ NoWaiterStranded)
  <1> QED BY GateInitInv, GateStep, PTL DEF GateSpec, GateInv

-----------------------------------------------------------------------------
(* Refinement.                                                             *)

(* _wake_up_next moves nobody in or out.                                   *)
LEMMA WakeMovesNobody ==
  ASSUME NEW s \in [Requests -> Stages], NEW f, WakeNext(f, s), NEW l \in {"admitted", "left", "rejected"}
  PROVE  At(l)' = {r \in Requests : s[r] = l}
  BY DEF WakeNext, At

LEMMA AdmittedBelow ==
  ASSUME GateInv, NEW r \in Requests, stage[r] # "admitted",
         free > 0 \/ stage[r] = "granted"
  PROVE  Cardinality(At("admitted")) < Limit
  <1>1. At("admitted") \subseteq Holders(stage) \ {r}
    BY DEF At, Holders
  <1>2. /\ IsFiniteSet(Holders(stage) \ {r})
        /\ Cardinality(Holders(stage) \ {r}) =
             IF r \in Holders(stage) THEN Cardinality(Holders(stage)) - 1
                                     ELSE Cardinality(Holders(stage))
    BY HoldersFinite, FS_RemoveElement
  <1>3. Cardinality(At("admitted")) <= Cardinality(Holders(stage) \ {r})
    BY <1>1, <1>2, FS_Subset
  <1>4. Cardinality(At("admitted")) \in Nat
    BY <1>1, <1>2, FS_Subset, FS_CardinalityType
  <1>5. Cardinality(Holders(stage) \ {r}) < Limit
    <2>1. free + Cardinality(Holders(stage)) = Limit /\ free \in Nat
      BY HoldersHere DEF GateInv, GateTypeOK, PermitsConserved
    <2>2. stage[r] = "granted" => r \in Holders(stage)
      BY DEF Holders
    <2> QED BY <1>2, <2>1, <2>2, HoldersFinite
  <1>6. Cardinality(Holders(stage) \ {r}) \in Nat
    BY <1>2, FS_CardinalityType
  <1> QED BY <1>3, <1>4, <1>5, <1>6

LEMMA PoolStep == GateInv /\ [GateNext]_gate => [Pool!Next]_(Pool!vars)
  <1> SUFFICES ASSUME GateInv, NEW r \in Requests, Check(r) \/ Admit(r) \/ Release(r)
               PROVE  [Pool!Next]_(Pool!vars)
    BY DEF GateNext, gate, Pool!vars, At
  <1>0. stage \in [Requests -> Stages]
    BY DEF GateInv, GateTypeOK
  <1> DEFINE inside == At("admitted")
             gone == At("left") \cup At("rejected")
             Same == UNCHANGED <<inside, gone>>
             Turned == r \notin inside \cup gone /\ inside' = inside /\ gone' = gone \cup {r}
             Entered == r \notin inside \cup gone /\ inside' = inside \cup {r} /\ gone' = gone
             Left == r \in inside /\ inside' = inside \ {r} /\ gone' = gone \cup {r}
  <1>1. Check(r) => Same \/ Turned
    BY <1>0 DEF Check, At
  <1>2. Acquire(r) => Same \/ (Entered /\ free > 0)
    <2>1. Acquire(r) /\ Locked => Same
      BY <1>0 DEF Acquire, At
    <2>2. Acquire(r) /\ ~Locked => Entered
      BY <1>0 DEF Acquire, At
    <2>3. ~Locked => free > 0
      BY DEF Locked, GateInv, GateTypeOK
    <2> QED BY <2>1, <2>2, <2>3
  <1>3. Resume(r) => Entered /\ stage[r] = "granted"
    <2> SUFFICES ASSUME Resume(r) PROVE Entered /\ stage[r] = "granted"
      OBVIOUS
    <2> DEFINE s == [stage EXCEPT ![r] = "admitted"]
    <2>1. s \in [Requests -> Stages]
      BY <1>0 DEF Stages
    <2>2. \A l \in {"admitted", "left", "rejected"} : At(l)' = {q \in Requests : s[q] = l}
      BY <2>1, WakeMovesNobody DEF Resume, At
    <2> QED BY <1>0, <2>2 DEF Resume, At
  <1>4. GiveUp(r) => Turned
    <2> SUFFICES ASSUME GiveUp(r) PROVE Turned
      OBVIOUS
    <2> DEFINE s == [stage EXCEPT ![r] = "rejected"]
    <2>1. s \in [Requests -> Stages]
      BY <1>0 DEF Stages
    <2>2. \A l \in {"admitted", "left", "rejected"} : At(l)' = {q \in Requests : s[q] = l}
      BY <2>1, WakeMovesNobody DEF GiveUp, At
    <2> QED BY <1>0, <2>2 DEF GiveUp, At
  <1>5. Release(r) => Left
    <2> SUFFICES ASSUME Release(r) PROVE Left
      OBVIOUS
    <2> DEFINE s == [stage EXCEPT ![r] = "left"]
    <2>1. s \in [Requests -> Stages]
      BY <1>0 DEF Stages
    <2>2. \A l \in {"admitted", "left", "rejected"} : At(l)' = {q \in Requests : s[q] = l}
      BY <2>1, WakeMovesNobody DEF Release
    <2> QED BY <1>0, <2>2 DEF Release, At
  <1>6. Entered /\ (free > 0 \/ stage[r] = "granted") => Pool!Enter(r)
    <2> SUFFICES ASSUME Entered, free > 0 \/ stage[r] = "granted" PROVE Pool!Enter(r)
      OBVIOUS
    <2>1. stage[r] # "admitted"
      BY DEF At
    <2>2. Cardinality(inside) < Limit
      BY <2>1, AdmittedBelow
    <2>3. Pool!Cardinality(inside) = Cardinality(inside)
      BY DEF Pool!Cardinality, Cardinality
    <2> QED BY <2>2, <2>3 DEF Pool!Enter
  <1>7. (Left => Pool!Leave(r)) /\ (Turned => Pool!TurnAway(r)) /\ (Same => UNCHANGED Pool!vars)
    BY DEF Pool!Leave, Pool!TurnAway, Pool!vars
  <1> QED BY <1>1, <1>2, <1>3, <1>4, <1>5, <1>6, <1>7 DEF Pool!Next, Admit

(* The gate implements a pool of Limit places.                             *)
THEOREM PoolImplemented == GateSpec => PoolSpec
  <1>1. GateInit => Pool!Init
    BY DEF GateInit, Pool!Init, At
  <1> QED BY <1>1, GateInitInv, GateStep, PoolStep, PTL DEF GateSpec, PoolSpec, Pool!Spec

-----------------------------------------------------------------------------
(* The service around the gate.                                            *)

(* A request runs no command before it is admitted, a command that ended   *)
(* has no container left, and a container outlives its request only if     *)
(* that was answered 504.                                                  *)
Contained(r) ==
  /\ stage[r] \notin {"admitted", "left"} => cli[r] = "none"
  /\ cli[r] = "none" => container[r] = "none"
  /\ cli[r] = "ended" => container[r] # "up"
  /\ stage[r] = "left" => cli[r] # "running"
  /\ stage[r] = "left" /\ container[r] = "up" => answer[r] = 504

RunnerInv ==
  /\ GateInv
  /\ TypeOK
  /\ \A r \in Requests : Contained(r)

-----------------------------------------------------------------------------
(* What a step of the gate does to the other requests: it moves a waiter.  *)
LEMMA WakeTypes ==
  ASSUME NEW s \in [Requests -> Stages], NEW f, WakeNext(f, s)
  PROVE  /\ stage' \in [Requests -> Stages]
         /\ \A q \in Requests :
              stage'[q] = s[q] \/ (s[q] = "waiting" /\ stage'[q] = "granted")
  BY DEF WakeNext, Stages

(* A stage at which the gate is done with a request or has admitted it is  *)
(* left, or reached, by the request's own steps only.                      *)
Own == {"admitted", "left", "rejected"}

LEMMA CheckMoves ==
  ASSUME GateInv, NEW r \in Requests, Check(r)
  PROVE  /\ stage[r] = "away"
         /\ stage'[r] = IF Locked THEN "rejected" ELSE "acquiring"
         /\ \A q \in Requests \ {r} : stage'[q] = stage[q]
  BY DEF Check, GateInv, GateTypeOK

LEMMA PassMoves ==
  ASSUME GateInv, NEW r \in Requests, Acquire(r) \/ Resume(r)
  PROVE  /\ stage[r] \notin Own /\ stage[r] # "away" /\ stage'[r] \notin {"left", "rejected"}
         /\ \A q \in Requests \ {r} :
              stage'[q] = stage[q] \/ (stage[q] \notin Own /\ stage'[q] \notin Own)
  <1> USE DEF GateInv, GateTypeOK, Own
  <1>1. CASE Acquire(r)
    BY <1>1 DEF Acquire
  <1>2. CASE Resume(r)
    <2> DEFINE s == [stage EXCEPT ![r] = "admitted"]
    <2>1. s \in [Requests -> Stages]
      BY DEF Stages
    <2>2. WakeNext(free, s) \/ stage' = s
      BY <1>2 DEF Resume
    <2>3. \A q \in Requests :
            stage'[q] = s[q] \/ (s[q] = "waiting" /\ stage'[q] = "granted")
      BY <2>1, <2>2, WakeTypes
    <2> QED BY <1>2, <2>3 DEF Resume
  <1> QED BY <1>1, <1>2

LEMMA LeaveMoves ==
  ASSUME GateInv, NEW r \in Requests, GiveUp(r) \/ Release(r)
  PROVE  /\ GiveUp(r) => stage[r] \in {"waiting", "granted"} /\ stage'[r] = "rejected"
         /\ Release(r) => stage[r] = "admitted" /\ stage'[r] = "left"
         /\ \A q \in Requests \ {r} :
              stage'[q] = stage[q] \/ (stage[q] \notin Own /\ stage'[q] \notin Own)
  <1> USE DEF GateInv, GateTypeOK, Own
  <1>1. CASE GiveUp(r)
    <2> DEFINE s == [stage EXCEPT ![r] = "rejected"]
    <2>1. s \in [Requests -> Stages]
      BY DEF Stages
    <2>2. WakeNext(free + 1, s) \/ stage' = s
      BY <1>1 DEF GiveUp
    <2>3. \A q \in Requests :
            stage'[q] = s[q] \/ (s[q] = "waiting" /\ stage'[q] = "granted")
      BY <2>1, <2>2, WakeTypes
    <2> QED BY <1>1, <2>3 DEF GiveUp, Release
  <1>2. CASE Release(r)
    <2> DEFINE s == [stage EXCEPT ![r] = "left"]
    <2>1. s \in [Requests -> Stages]
      BY DEF Stages
    <2>2. WakeNext(free + 1, s)
      BY <1>2 DEF Release
    <2>3. \A q \in Requests :
            stage'[q] = s[q] \/ (s[q] = "waiting" /\ stage'[q] = "granted")
      BY <2>1, <2>2, WakeTypes
    <2> QED BY <1>2, <2>3 DEF GiveUp, Release
  <1> QED BY <1>1, <1>2

-----------------------------------------------------------------------------
(* Every step of the service is a step of the gate or leaves it alone.     *)
LEMMA RunnerKeepsGate == [Next]_vars => [GateNext]_gate
  <1> SUFFICES ASSUME NEW r \in Requests,
                      \/ Unauthorized(r) \/ Arrive(r) \/ Serve(r)
                      \/ ContainerStarts(r) \/ ContainerEnds(r) \/ CliEnds(r)
               PROVE  [GateNext]_gate
    BY DEF Next, vars, gate
  <1>1. Arrive(r) => Check(r)
    BY DEF Arrive
  <1>2. Serve(r) => Admit(r) \/ Release(r) \/ UNCHANGED gate
    BY DEF Serve, PassGate, TooManyRequests, Detonate, Invalid, Launch, LaunchFails,
       TimeOut, Reap, Report, Finish, Admit
  <1>3. Unauthorized(r) \/ ContainerStarts(r) \/ ContainerEnds(r) \/ CliEnds(r) => UNCHANGED gate
    BY DEF Unauthorized, ContainerStarts, ContainerEnds, CliEnds
  <1> QED BY <1>1, <1>2, <1>3 DEF GateNext

(* The service implements the gate: no branch, however it ends, takes or   *)
(* gives back a permit except as the gate does.                            *)
THEOREM RunnerImplementsGate == Spec => KeepsTheGate
  <1>1. Init => GateInit
    BY DEF Init
  <1> QED BY <1>1, RunnerKeepsGate, PTL DEF Spec, KeepsTheGate, GateSpec

-----------------------------------------------------------------------------
LEMMA RunnerInitInv == Init => RunnerInv
  <1> SUFFICES ASSUME Init PROVE RunnerInv
    OBVIOUS
  <1>1. GateInv
    BY GateInitInv DEF Init
  <1>2. \A r \in Requests : stage[r] = "away"
    BY DEF Init, GateInit
  <1> QED BY <1>1, <1>2 DEF Init, GateInv, RunnerInv, TypeOK, Contained

Answers == {0, 200, 400, 401, 429, 500, 504}

(* A request that is answered, at the gate or inside.                      *)
LEMMA Answering ==
  ASSUME RunnerInv, GateInv', NEW r \in Requests, NEW code \in Answers \ {0, 401},
         GiveUp(r) \/ Release(r), Reply(r, code), UNCHANGED docker,
         Release(r) => cli[r] # "running" /\ (container[r] = "up" => code = 504)
  PROVE  RunnerInv'
  <1> USE DEF RunnerInv, TypeOK, Contained, Reply, docker, Answers
  <1>1. stage'[r] \in {"left", "rejected"} /\ answer'[r] = code
    BY LeaveMoves
  <1>2. ASSUME NEW q \in Requests \ {r}
        PROVE  answer'[q] = answer[q] /\ (stage'[q] = stage[q] \/ (stage[q] \notin Own /\ stage'[q] \notin Own))
    BY LeaveMoves
  <1>3. TypeOK'
    <2>1. GateTypeOK' /\ answer' \in [Requests -> Answers]
      BY DEF GateInv
    <2>2. ASSUME NEW q \in Requests
          PROVE  stage'[q] \in {"left", "rejected"} <=> answer'[q] \notin {0, 401}
      <3>1. CASE q = r
        BY <1>1, <3>1
      <3>2. CASE q # r
        <4>1. stage[q] \in {"left", "rejected"} <=> answer[q] \notin {0, 401}
          OBVIOUS
        <4> QED BY <1>2, <3>2, <4>1 DEF Own
      <3> QED BY <3>1, <3>2
    <2> QED BY <2>1, <2>2
  <1>4. ASSUME NEW q \in Requests PROVE Contained(q)'
    <2>1. UNCHANGED <<cli[q], container[q]>> /\ Contained(q)
      OBVIOUS
    <2>2. CASE q = r /\ GiveUp(r)
      <3>1. stage[q] \in {"waiting", "granted"} /\ stage'[q] = "rejected"
        BY <2>2, LeaveMoves
      <3> QED BY <2>1, <3>1
    <2>3. CASE q = r /\ Release(r)
      <3>1. stage[q] = "admitted" /\ stage'[q] = "left"
        BY <2>3, LeaveMoves
      <3>2. cli[q] # "running" /\ (container[q] = "up" => answer'[q] = 504)
        BY <1>1, <2>3
      <3> QED BY <2>1, <3>1, <3>2
    <2>4. CASE q # r
      <3>1. answer'[q] = answer[q] /\ (stage'[q] = stage[q] \/ (stage[q] \notin Own /\ stage'[q] \notin Own))
        BY <1>2, <2>4
      <3> QED BY <2>1, <3>1 DEF Own
    <2> QED BY <2>2, <2>3, <2>4
  <1> QED BY <1>3, <1>4

LEMMA RunnerAtGate ==
  ASSUME RunnerInv, GateInv', NEW r \in Requests,
         Unauthorized(r) \/ Arrive(r) \/ PassGate(r) \/ TooManyRequests(r)
  PROVE  RunnerInv'
  <1>0. GateInv
    BY DEF RunnerInv
  <1>1. CASE Unauthorized(r)
    BY <1>1 DEF Unauthorized, gate, docker, GateInv, RunnerInv, TypeOK, Contained, Reply
  <1>2. CASE Arrive(r)
    BY <1>0, <1>2, CheckMoves
       DEF Arrive, docker, GateInv, RunnerInv, TypeOK, Contained, Reply
  <1>3. CASE PassGate(r)
    BY <1>0, <1>3, PassMoves DEF PassGate, Own, docker, GateInv, RunnerInv, TypeOK, Contained
  <1>4. CASE TooManyRequests(r)
    <2>1. stage[r] # "admitted" /\ GiveUp(r) /\ Reply(r, 429) /\ UNCHANGED docker
      BY <1>0, <1>4, LeaveMoves DEF TooManyRequests
    <2>2. ~Release(r)
      BY <2>1 DEF Release
    <2>3. 429 \in Answers \ {0, 401}
      BY DEF Answers
    <2> QED BY <2>1, <2>2, <2>3, Answering
  <1> QED BY <1>1, <1>2, <1>3, <1>4

LEMMA RunnerInside ==
  ASSUME RunnerInv, GateInv', NEW r \in Requests, Detonate(r)
  PROVE  RunnerInv'
  <1>1. ASSUME NEW code \in {400, 500, 504, 200}, Finish(r, code), UNCHANGED docker,
               cli[r] # "running", container[r] = "up" => code = 504
        PROVE  RunnerInv'
    BY <1>1, Answering DEF Finish, Answers
  <1>2. cli[r] = "none" => container[r] # "up"
    BY DEF RunnerInv, Contained
  <1>3. CASE Invalid(r)
    BY <1>1, <1>2, <1>3 DEF Invalid
  <1>4. CASE LaunchFails(r)
    BY <1>1, <1>2, <1>4 DEF LaunchFails
  <1>5. CASE Reap(r)
    BY <1>1, <1>5 DEF Reap
  <1>6. CASE Report(r)
    BY <1>1, <1>6 DEF Report, RunnerInv, Contained
  <1>7. CASE Launch(r) \/ TimeOut(r)
    BY <1>7 DEF Launch, TimeOut, gate, RunnerInv, TypeOK, Contained, GateInv
  <1> QED BY <1>3, <1>4, <1>5, <1>6, <1>7 DEF Detonate

LEMMA RunnerStep == RunnerInv /\ [Next]_vars => RunnerInv'
  <1> SUFFICES ASSUME RunnerInv, [Next]_vars PROVE RunnerInv'
    OBVIOUS
  <1>1. GateInv'
    BY RunnerKeepsGate, GateStep DEF RunnerInv
  <1>2. CASE UNCHANGED vars
    BY <1>1, <1>2 DEF vars, gate, docker, RunnerInv, TypeOK, Contained, GateInv
  <1>3. ASSUME NEW r \in Requests, ContainerStarts(r) \/ ContainerEnds(r) \/ CliEnds(r)
        PROVE  RunnerInv'
    BY <1>1, <1>3 DEF ContainerStarts, ContainerEnds, CliEnds, gate, RunnerInv, TypeOK,
       Contained, GateInv
  <1> QED BY <1>1, <1>2, <1>3, RunnerAtGate, RunnerInside DEF Next, Serve

(* Every command and every container but those of timed-out requests is    *)
(* within the limit.                                                       *)
LEMMA WithinLimit == RunnerInv => CommandsHoldPermits /\ OnlyTimeOutsOverflow
  <1> SUFFICES ASSUME RunnerInv PROVE CommandsHoldPermits /\ OnlyTimeOutsOverflow
    OBVIOUS
  <1>1. CommandsHoldPermits
    BY DEF RunnerInv, Contained, CommandsHoldPermits
  <1>2. {r \in Running : answer[r] # 504} \subseteq Holders(stage)
    BY DEF RunnerInv, Contained, Running, Holders
  <1>3. /\ Cardinality({r \in Running : answer[r] # 504}) <= Cardinality(Holders(stage))
        /\ Cardinality({r \in Running : answer[r] # 504}) \in Nat
    BY <1>2, HoldersFinite, FS_Subset, FS_CardinalityType
  <1>4. free + Cardinality(Holders(stage)) = Limit /\ free \in Nat
    BY HoldersHere DEF RunnerInv, GateInv, GateTypeOK, PermitsConserved
  <1>5. OnlyTimeOutsOverflow
    BY <1>3, <1>4, HoldersFinite DEF OnlyTimeOutsOverflow
  <1> QED BY <1>1, <1>5

(* The limit holds for every docker command, and for every container whose *)
(* request was not answered 504.                                           *)
THEOREM LimitsCorrect == Spec => [](TypeOK /\ CommandsHoldPermits /\ OnlyTimeOutsOverflow)
  <1>1. RunnerInv => TypeOK
    BY DEF RunnerInv
  <1> QED BY <1>1, RunnerInitInv, RunnerStep, WithinLimit, PTL DEF Spec

-----------------------------------------------------------------------------
(* Every step is a step of the service or leaves it alone.                 *)
LEMMA StepOfRunner == [DetonationNext]_allvars => [Next]_vars
  <1> SUFFICES ASSUME DetonationNext PROVE [Next]_vars
    BY DEF allvars
  <1>1. ASSUME NEW w \in Workers, Start(w) \/ LoseCall(w) \/ Work(w) \/ Crash(w)
        PROVE  UNCHANGED vars
    BY <1>1 DEF Start, LoseCall, Work, Crash, Hear, Read, Publish, Ingest, Place, PlaceIf,
                WriteFallback, HandOver, Retry, Ack
  <1>2. ASSUME NEW w \in Workers, Call(w) PROVE \E r \in Requests : Arrive(r)
    <2>1. (CHOOSE fresh \in Requests \ tried : TRUE) \in Requests
      BY <1>2 DEF Call
    <2> QED BY <1>2, <2>1 DEF Call
  <1>3. ASSUME NEW r \in Requests, Shoot(r) \/ Save(r) PROVE UNCHANGED vars
    BY <1>3 DEF Shoot, Save, Scans
  <1>4. ASSUME NEW r \in Requests, Provide(r) \/ Docker(r)
        PROVE  Serve(r) \/ ContainerStarts(r) \/ ContainerEnds(r) \/ CliEnds(r)
    BY <1>4 DEF Provide, Docker
  <1> QED BY <1>1, <1>2, <1>3, <1>4 DEF DetonationNext, Next

(* The worker and the scanner never touch the service but through a        *)
(* request: the service of the composed system behaves as SandboxRunner.   *)
THEOREM RunnerKept == DetonationSpec => KeepsTheRunner
  <1>1. DetonationInit => Init
    BY DEF DetonationInit
  <1> QED BY <1>1, StepOfRunner, PTL DEF DetonationSpec, KeepsTheRunner, Spec

(* Hence its limits hold for the pipeline's use of it.                     *)
THEOREM RunnerLimitsHold ==
  DetonationSpec => [](TypeOK /\ CommandsHoldPermits /\ OnlyTimeOutsOverflow)
  BY RunnerKept, LimitsCorrect, PTL DEF KeepsTheRunner

-----------------------------------------------------------------------------
(* Run r has saved a result among the first k.                             *)
SavedBy(r, k) == \E n \in 1 .. k : saves[n].run = r

(* A run answered with 200 has saved, and a worker that reads has asked a  *)
(* run that was answered so.                                               *)
AnsweredSaved == \A r \in tried : answer[r] = 200 => progress[r] = "saved"
SavedThere    == \A r \in Requests : progress[r] = "saved" => SavedBy(r, Len(saves))
ReadersAsked  == \A w \in Workers : job[w].at = "read" =>
                   job[w].request \in tried /\ answer[job[w].request] = 200

DetonationInv ==
  /\ DetonationTypeOK
  /\ AnsweredSaved /\ SavedThere /\ ReadersAsked /\ FreshResult

JobOf(t, k) == [at : Steps, retries : 0 .. RetryLimit, request : t \cup {NoRequest}, loaded : 0 .. k]

(* What the invariant says of the job of a worker.                         *)
JobOK(j) ==
  /\ j \in JobOf(tried, Len(saves))
  /\ j.at = "wait" => j.request \in tried
  /\ j.at \in {"publish", "ingest", "place"} => j.loaded # 0
  /\ j.at = "read" => j.request \in tried /\ answer[j.request] = 200
  /\ j.at = "publish" => SavedBy(j.request, j.loaded)

LEMMA JobsOK == ASSUME DetonationInv, NEW w \in Workers PROVE JobOK(job[w])
  BY DEF DetonationInv, DetonationTypeOK, ReadersAsked, FreshResult, JobOK, JobOf, SavedBy

(* A step of the worker that touches neither the results nor the requests  *)
(* keeps the invariant if it leaves a job and a message in order.          *)
LEMMA WorkerKeeps ==
  ASSUME DetonationInv, NEW w \in Workers,
         UNCHANGED <<answer, tried, progress, saves, marked>>,
         queue' \in [0 .. RetryLimit -> Nat],
         NEW j, JobOK(j), job' = [job EXCEPT ![w] = j],
         home' \in tried \cup {NoRequest}, png' \in tried \cup {NoRequest},
         metadata' \in Requests \cup {NoRequest, Fallback}, telemetry' \in Seq(Requests),
         handed' \in BOOLEAN, faults' \in Nat
  PROVE  DetonationInv'
  <1> USE DEF JobOK
  <1>1. \A v \in Workers : JobOK(job[v]) /\ (job'[v] = IF v = w THEN j ELSE job[v])
    BY JobsOK DEF DetonationInv, DetonationTypeOK
  <1>2. job' \in [Workers -> JobOf(tried, Len(saves))]
    BY <1>1 DEF DetonationInv, DetonationTypeOK, JobOf
  <1>3. DetonationTypeOK'
    BY <1>1, <1>2 DEF DetonationInv, DetonationTypeOK, JobOf
  <1>4. AnsweredSaved' /\ SavedThere' /\ ReadersAsked' /\ FreshResult'
    BY <1>1 DEF DetonationInv, AnsweredSaved, SavedThere, ReadersAsked, FreshResult, SavedBy
  <1> QED BY <1>3, <1>4 DEF DetonationInv

(* The job in its order, but at another step that asks nothing of it.      *)
Free == {"call", "fallback", "handover", "retry", "ack"}

LEMMA MovedOK ==
  ASSUME DetonationInv, NEW w \in Workers, NEW step \in Free
  PROVE  JobOK([job[w] EXCEPT !.at = step])
  BY JobsOK DEF JobOK, JobOf, Free, Steps

LEMMA GoneTo ==
  ASSUME DetonationInv, NEW w \in Workers, NEW step, Goto(w, step)
  PROVE  job' = [job EXCEPT ![w] = [job[w] EXCEPT !.at = step]]
  BY DEF Goto, DetonationInv, DetonationTypeOK

(* A step that changes nothing but the job of a worker.                    *)
LEMMA JobStepKeeps ==
  ASSUME DetonationInv, NEW w \in Workers,
         UNCHANGED <<vars, scanner, evidence, queue, tried, marked>>, faults' \in Nat,
         NEW j, JobOK(j), job' = [job EXCEPT ![w] = j]
  PROVE  DetonationInv'
  <1>1. UNCHANGED <<answer, tried, progress, saves, marked, home, png, metadata, telemetry, handed, queue>>
    BY DEF vars, scanner, evidence
  <1>2. /\ queue' \in [0 .. RetryLimit -> Nat] /\ home' \in tried \cup {NoRequest}
        /\ png' \in tried \cup {NoRequest} /\ metadata' \in Requests \cup {NoRequest, Fallback}
        /\ telemetry' \in Seq(Requests) /\ handed' \in BOOLEAN
    BY <1>1 DEF DetonationInv, DetonationTypeOK
  <1> QED BY <1>1, <1>2, WorkerKeeps

(* A worker whose attempt failed goes to another step, whatever the text.  *)
LEMMA FailureKeeps ==
  ASSUME DetonationInv, NEW w \in Workers, NEW late, Fail(w, late),
         UNCHANGED <<vars, scanner, evidence, queue, tried, marked>>, faults' \in Nat
  PROVE  DetonationInv'
  <1>1. PICK step \in Free : Goto(w, step)
    BY DEF Fail, Free
  <1>2. job' = [job EXCEPT ![w] = [job[w] EXCEPT !.at = step]]
    BY <1>1, GoneTo
  <1>3. JobOK([job[w] EXCEPT !.at = step])
    BY MovedOK
  <1> QED BY <1>2, <1>3, JobStepKeeps

LEMMA IdleOK == DetonationInv => JobOK(Idle)
  <1> SUFFICES ASSUME DetonationInv PROVE JobOK(Idle)
    OBVIOUS
  <1>1. Len(saves) \in Nat /\ RetryLimit \in Nat
    BY DetonationAssumption DEF DetonationInv, DetonationTypeOK
  <1> QED BY <1>1 DEF JobOK, JobOf, Idle, Steps

-----------------------------------------------------------------------------
LEMMA StartKeeps == ASSUME DetonationInv, NEW w \in Workers, Start(w) PROVE DetonationInv'
  <1>1. PICK n \in 0 .. RetryLimit :
          /\ queue[n] > 0
          /\ queue' = [queue EXCEPT ![n] = @ - 1]
          /\ job' = [job EXCEPT ![w] = [Idle EXCEPT !.at = "call", !.retries = n]]
    BY DEF Start
  <1>2. JobOK([Idle EXCEPT !.at = "call", !.retries = n])
    BY IdleOK DEF JobOK, JobOf, Idle, Steps
  <1>3. queue' \in [0 .. RetryLimit -> Nat]
    BY <1>1 DEF DetonationInv, DetonationTypeOK
  <1> QED
    BY <1>1, <1>2, <1>3, WorkerKeeps
    DEF Start, AtStep, vars, scanner, evidence, DetonationInv, DetonationTypeOK

LEMMA HearKeeps == ASSUME DetonationInv, NEW w \in Workers, Hear(w) PROVE DetonationInv'
  <1>1. faults' \in Nat
    BY DEF Hear, DetonationInv, DetonationTypeOK
  <1>2. UNCHANGED <<vars, scanner, evidence, queue, tried, marked>>
    BY DEF Hear, AtStep
  <1>3. CASE answer[job[w].request] = 200 /\ Goto(w, "read")
    <2>1. JobOK([job[w] EXCEPT !.at = "read"])
      BY <1>3, JobsOK DEF JobOK, JobOf, Steps, Hear, AtStep
    <2> QED BY <1>1, <1>2, <1>3, <2>1, GoneTo, JobStepKeeps
  <1>4. CASE Fail(w, answer[job[w].request] = 504 \/ marked)
    BY <1>1, <1>2, <1>4, FailureKeeps
  <1>5. CASE Fail(w, TRUE)
    BY <1>1, <1>2, <1>5, FailureKeeps
  <1> QED BY <1>3, <1>4, <1>5 DEF Hear

LEMMA LoseCallKeeps == ASSUME DetonationInv, NEW w \in Workers, LoseCall(w) PROVE DetonationInv'
  <1>1. faults' \in Nat
    BY DEF LoseCall, Fault, DetonationInv, DetonationTypeOK
  <1>2. Fail(w, marked) /\ UNCHANGED <<vars, scanner, evidence, queue, tried, marked>>
    BY DEF LoseCall, AtStep
  <1> QED BY <1>1, <1>2, FailureKeeps

(* The last save is there, and the run that was asked is not after it.     *)
LEMMA ReadKeeps == ASSUME DetonationInv, NEW w \in Workers, Read(w) PROVE DetonationInv'
  <1>1. faults' \in Nat
    BY DEF Read, DetonationInv, DetonationTypeOK
  <1>2. UNCHANGED <<vars, scanner, evidence, queue, tried, marked>>
    BY DEF Read, AtStep
  <1>3. CASE Fail(w, FALSE)
    BY <1>1, <1>2, <1>3, FailureKeeps
  <1>4. CASE job' = [job EXCEPT ![w].at = "publish", ![w].loaded = Len(saves)]
    <2> DEFINE j == [job[w] EXCEPT !.at = "publish", !.loaded = Len(saves)]
    <2>1. SavedBy(job[w].request, Len(saves))
      <3>1. job[w].request \in tried /\ answer[job[w].request] = 200
        BY JobsOK DEF JobOK, Read, AtStep
      <3>2. job[w].request \in Requests /\ progress[job[w].request] = "saved"
        BY <3>1 DEF DetonationInv, DetonationTypeOK, AnsweredSaved
      <3> QED BY <3>2 DEF DetonationInv, SavedThere
    <2>2. Len(saves) \in Nat
      BY DEF DetonationInv, DetonationTypeOK
    <2>3. Len(saves) # 0 /\ Len(saves) \in 0 .. Len(saves)
      BY <2>1, <2>2 DEF SavedBy
    <2>4. job[w] \in JobOf(tried, Len(saves))
      BY JobsOK DEF JobOK
    <2>5. /\ j \in JobOf(tried, Len(saves))
          /\ j.at = "publish" /\ j.loaded = Len(saves) /\ j.request = job[w].request
      BY <2>3, <2>4 DEF JobOf, Steps
    <2>6. JobOK(j)
      BY <2>1, <2>3, <2>5 DEF JobOK
    <2>7. job' = [job EXCEPT ![w] = j]
      BY <1>4 DEF DetonationInv, DetonationTypeOK
    <2> QED BY <1>1, <1>2, <2>6, <2>7, JobStepKeeps
  <1> QED BY <1>3, <1>4 DEF Read

(* A worker with a result has read one of those that were saved.           *)
LEMMA ResultSaved ==
  ASSUME DetonationInv, NEW w \in Workers, job[w].at \in {"publish", "ingest"}
  PROVE  Result(w).run \in Requests
  <1>1. job[w].loaded \in 1 .. Len(saves)
    BY JobsOK DEF JobOK, JobOf, DetonationInv, DetonationTypeOK
  <1>2. saves \in Seq([run : Requests, look : Looks])
    BY DEF DetonationInv, DetonationTypeOK
  <1>3. saves[job[w].loaded] \in [run : Requests, look : Looks]
    BY <1>1, <1>2, ElementOfSeq
  <1> QED BY <1>3 DEF Result

LEMMA PublishKeeps == ASSUME DetonationInv, NEW w \in Workers, Publish(w) PROVE DetonationInv'
  <1>1. UNCHANGED <<answer, tried, progress, saves, marked, home, png, telemetry, handed, queue, faults>>
    BY DEF Publish, AtStep, vars, scanner
  <1>2. JobOK([job[w] EXCEPT !.at = "ingest"])
    BY JobsOK DEF JobOK, JobOf, Steps, Publish, AtStep
  <1>3. job' = [job EXCEPT ![w] = [job[w] EXCEPT !.at = "ingest"]]
    BY GoneTo DEF Publish
  <1>4. metadata' \in Requests
    BY ResultSaved DEF Publish, AtStep
  <1>5. /\ queue' \in [0 .. RetryLimit -> Nat] /\ home' \in tried \cup {NoRequest}
        /\ png' \in tried \cup {NoRequest} /\ telemetry' \in Seq(Requests)
        /\ handed' \in BOOLEAN /\ faults' \in Nat
    BY <1>1 DEF DetonationInv, DetonationTypeOK
  <1> QED BY <1>1, <1>2, <1>3, <1>4, <1>5, WorkerKeeps

LEMMA IngestKeeps == ASSUME DetonationInv, NEW w \in Workers, Ingest(w) PROVE DetonationInv'
  <1>1. UNCHANGED <<answer, tried, progress, saves, marked, home, png, metadata, handed, queue, faults>>
    BY DEF Ingest, AtStep, vars, scanner
  <1>2. JobOK([job[w] EXCEPT !.at = "place"])
    BY JobsOK DEF JobOK, JobOf, Steps, Ingest, AtStep
  <1>3. job' = [job EXCEPT ![w] = [job[w] EXCEPT !.at = "place"]]
    BY GoneTo DEF Ingest
  <1>4. telemetry' \in Seq(Requests)
    <2>1. Result(w).run \in Requests
      BY ResultSaved DEF Ingest, AtStep
    <2>2. telemetry \in Seq(Requests)
      BY DEF DetonationInv, DetonationTypeOK
    <2>3. Append(telemetry, Result(w).run) \in Seq(Requests)
      BY <2>1, <2>2, AppendProperties
    <2> QED BY <2>2, <2>3 DEF Ingest
  <1>5. /\ queue' \in [0 .. RetryLimit -> Nat] /\ home' \in tried \cup {NoRequest}
        /\ png' \in tried \cup {NoRequest} /\ metadata' \in Requests \cup {NoRequest, Fallback}
        /\ handed' \in BOOLEAN /\ faults' \in Nat
    BY <1>1 DEF DetonationInv, DetonationTypeOK
  <1> QED BY <1>1, <1>2, <1>3, <1>4, <1>5, WorkerKeeps

(* The steps that leave the worker at one of the free steps, and a message *)
(* and the evidence in order.                                              *)
LEMMA FreeStepKeeps ==
  ASSUME DetonationInv, NEW w \in Workers, NEW step \in Free, Goto(w, step),
         UNCHANGED <<answer, tried, progress, saves, marked, telemetry, faults>>,
         queue' = queue \/ \E n \in 0 .. RetryLimit : queue' = [queue EXCEPT ![n] = @ + 1],
         \/ UNCHANGED <<home, png>>
         \/ png' = home /\ home' = NoRequest,
         metadata' \in {metadata, Fallback}, handed' \in {handed, TRUE}
  PROVE  DetonationInv'
  <1>1. job' = [job EXCEPT ![w] = [job[w] EXCEPT !.at = step]] /\ JobOK([job[w] EXCEPT !.at = step])
    BY GoneTo, MovedOK
  <1>2. queue' \in [0 .. RetryLimit -> Nat]
    BY DEF DetonationInv, DetonationTypeOK
  <1>3. /\ home' \in tried \cup {NoRequest} /\ png' \in tried \cup {NoRequest}
        /\ metadata' \in Requests \cup {NoRequest, Fallback} /\ telemetry' \in Seq(Requests)
        /\ handed' \in BOOLEAN /\ faults' \in Nat
    BY DEF DetonationInv, DetonationTypeOK
  <1> QED BY <1>1, <1>2, <1>3, WorkerKeeps

LEMMA EndingKeeps ==
  ASSUME DetonationInv, NEW w \in Workers,
         Place(w) \/ WriteFallback(w) \/ HandOver(w)
  PROVE  DetonationInv'
  <1> USE DEF AtStep, vars, scanner, evidence, Free
  <1>1. CASE Place(w)
    BY <1>1, FreeStepKeeps DEF Place, PlaceIf
  <1>2. CASE WriteFallback(w)
    BY <1>2, FreeStepKeeps DEF WriteFallback
  <1>3. CASE HandOver(w)
    BY <1>3, FreeStepKeeps DEF HandOver
  <1> QED BY <1>1, <1>2, <1>3

(* A task that tries again has an attempt left.                            *)
LEMMA RetryKeeps == ASSUME DetonationInv, NEW w \in Workers, Retry(w) PROVE DetonationInv'
  <1>1. Goto(w, "ack") /\ UNCHANGED <<answer, tried, progress, saves, marked, faults, home, png, metadata, telemetry, handed>>
    BY DEF Retry, AtStep, vars, scanner, evidence
  <1>2. job' = [job EXCEPT ![w] = [job[w] EXCEPT !.at = "ack"]] /\ JobOK([job[w] EXCEPT !.at = "ack"])
    BY <1>1, GoneTo, MovedOK DEF Free
  <1>3. queue' \in [0 .. RetryLimit -> Nat]
    <2> DEFINE n == job[w].retries + 1
    <2>1. queue \in [0 .. RetryLimit -> Nat] /\ queue' = [queue EXCEPT ![n] = @ + 1]
      BY DEF Retry, DetonationInv, DetonationTypeOK
    <2>2. CASE n \in 0 .. RetryLimit
      BY <2>1, <2>2
    <2>3. CASE n \notin 0 .. RetryLimit
      BY <2>1, <2>3
    <2> HIDE DEF n
    <2> QED BY <2>2, <2>3
  <1>4. /\ home' \in tried \cup {NoRequest} /\ png' \in tried \cup {NoRequest}
        /\ metadata' \in Requests \cup {NoRequest, Fallback} /\ telemetry' \in Seq(Requests)
        /\ handed' \in BOOLEAN /\ faults' \in Nat
    BY <1>1 DEF DetonationInv, DetonationTypeOK
  <1> QED BY <1>1, <1>2, <1>3, <1>4, WorkerKeeps

LEMMA AckKeeps == ASSUME DetonationInv, NEW w \in Workers, Ack(w) PROVE DetonationInv'
  <1>1. faults' \in Nat
    BY DEF Ack, DetonationInv, DetonationTypeOK
  <1> QED BY <1>1, IdleOK, JobStepKeeps DEF Ack, AtStep

LEMMA CrashKeeps == ASSUME DetonationInv, NEW w \in Workers, Crash(w) PROVE DetonationInv'
  <1>1. UNCHANGED <<answer, tried, progress, saves, marked, home, png, metadata, telemetry, handed>>
    BY DEF Crash, vars, scanner, evidence
  <1>2. job[w].retries \in 0 .. RetryLimit
    BY JobsOK DEF JobOK, JobOf
  <1>3. queue' \in [0 .. RetryLimit -> Nat] /\ faults' \in Nat
    BY <1>2 DEF Crash, Fault, DetonationInv, DetonationTypeOK
  <1>4. /\ home' \in tried \cup {NoRequest} /\ png' \in tried \cup {NoRequest}
        /\ metadata' \in Requests \cup {NoRequest, Fallback} /\ handed' \in BOOLEAN
        /\ telemetry' \in Seq(Requests)
    BY <1>1 DEF DetonationInv, DetonationTypeOK
  <1> QED BY <1>1, <1>3, <1>4, IdleOK, WorkerKeeps DEF Crash

-----------------------------------------------------------------------------
(* The other steps: those of the service, the daemon and the scanner.      *)

LEMMA CallKeeps == ASSUME DetonationInv, TypeOK, NEW w \in Workers, Call(w) PROVE DetonationInv'
  <1> DEFINE r == CHOOSE fresh \in Requests \ tried : TRUE
             j == [job[w] EXCEPT !.at = "wait", !.request = r]
  <1>1. r \in Requests \ tried
    BY DEF Call
  <1>2. Arrive(r) /\ tried' = tried \cup {r} /\ job' = [job EXCEPT ![w] = j]
    BY DEF Call, DetonationInv, DetonationTypeOK
  <1>3. UNCHANGED <<progress, home, saves, metadata, png, telemetry, handed, queue, marked, faults>>
    BY DEF Call, AtStep, scanner, evidence
  <1>4. answer[r] = 0 /\ answer'[r] \in {0, 429} /\ \A q \in Requests \ {r} : answer'[q] = answer[q]
    BY <1>1, <1>2 DEF Arrive, Reply, TypeOK
  <1>5. \A v \in Workers : JobOK(job[v]) /\ (job'[v] = IF v = w THEN j ELSE job[v])
    BY <1>2, JobsOK DEF DetonationInv, DetonationTypeOK
  <1>6. j \in JobOf(tried', Len(saves)) /\ j.at = "wait" /\ j.request = r
    <2>1. job[w] \in JobOf(tried, Len(saves))
      BY <1>5 DEF JobOK
    <2>2. r \in tried' \cup {NoRequest} /\ tried \subseteq tried'
      BY <1>2
    <2> HIDE DEF r
    <2> QED BY <2>1, <2>2 DEF JobOf, Steps
  <1>7. job' \in [Workers -> JobOf(tried', Len(saves))]
    BY <1>2, <1>5, <1>6 DEF JobOK, JobOf, DetonationInv, DetonationTypeOK
  <1>8. DetonationTypeOK'
    BY <1>1, <1>2, <1>3, <1>5, <1>6, <1>7 DEF JobOK, JobOf, DetonationInv, DetonationTypeOK
  <1>9. AnsweredSaved' /\ SavedThere'
    <2> HIDE DEF r
    <2>1. AnsweredSaved'
      <3>1. AnsweredSaved /\ tried \subseteq Requests /\ progress' = progress
        BY <1>3 DEF DetonationInv, DetonationTypeOK
      <3> HIDE DEF j
      <3> QED BY <1>1, <1>2, <1>4, <3>1 DEF AnsweredSaved
    <2>2. SavedThere'
      BY <1>3 DEF DetonationInv, SavedThere, SavedBy
    <2> QED BY <2>1, <2>2
  <1>10. ReadersAsked' /\ FreshResult'
    <2> HIDE DEF r, j
    <2>1. ReadersAsked'
      <3> SUFFICES ASSUME NEW v \in Workers, job'[v].at = "read"
                   PROVE  job'[v].request \in tried' /\ answer'[job'[v].request] = 200
        BY DEF ReadersAsked
      <3>1. v # w /\ job'[v] = job[v] /\ job[v].request \in tried /\ answer[job[v].request] = 200
        BY <1>5, <1>6 DEF JobOK
      <3>2. job[v].request \in Requests \ {r}
        BY <1>1, <3>1 DEF DetonationInv, DetonationTypeOK
      <3> QED BY <1>2, <1>4, <3>1, <3>2
    <2>2. FreshResult'
      BY <1>3, <1>5, <1>6 DEF JobOK, FreshResult, SavedBy
    <2> QED BY <2>1, <2>2
  <1> QED BY <1>8, <1>9, <1>10 DEF DetonationInv

(* The service answers a request once.                                     *)
LEMMA AnswersOnce ==
  ASSUME TypeOK, NEW r \in Requests, Serve(r)
  PROVE  /\ \A q \in Requests \ {r} : answer'[q] = answer[q]
         /\ answer[r] = 200 => answer'[r] = 200
  <1>1. CASE UNCHANGED answer
    BY <1>1
  <1>2. CASE \E code : Reply(r, code) /\ stage[r] \in {"waiting", "granted", "admitted"}
    <2>1. stage[r] \notin {"left", "rejected"} /\ answer[r] # 200
      BY <1>2 DEF TypeOK
    <2> QED BY <1>2, <2>1 DEF Reply, TypeOK
  <1>3. CASE TooManyRequests(r)
    BY <1>2, <1>3 DEF TooManyRequests, GiveUp
  <1>4. CASE \E code : Finish(r, code)
    BY <1>2, <1>4 DEF Finish, Release
  <1> QED
    BY <1>1, <1>3, <1>4 DEF Serve, PassGate, Detonate, Invalid, Launch, LaunchFails, TimeOut, Reap, Report

(* What the service and the daemon do leaves the scan's files and workers. *)
LEMMA ServiceKeeps ==
  ASSUME DetonationInv, TypeOK, NEW r \in Requests, Provide(r) \/ Docker(r)
  PROVE  DetonationInv'
  <1>1. UNCHANGED <<progress, home, saves, metadata, png, telemetry, handed, queue, job, tried, marked, faults>>
    BY DEF Provide, Docker, Undisturbed, scanner, evidence, task
  <1>2. /\ \A q \in Requests : answer[q] = 200 => answer'[q] = 200
        /\ \A q \in Requests : answer'[q] = 200 => answer[q] = 200 \/ progress[q] = "saved"
    <2>1. CASE Provide(r)
      BY <2>1, AnswersOnce DEF Provide
    <2>2. CASE Docker(r)
      BY <2>2 DEF Docker, ContainerStarts, ContainerEnds, CliEnds
    <2> QED BY <2>1, <2>2
  <1>3. DetonationTypeOK' /\ SavedThere' /\ FreshResult'
    BY <1>1 DEF DetonationInv, DetonationTypeOK, SavedThere, FreshResult, SavedBy
  <1>4. AnsweredSaved' /\ ReadersAsked'
    BY <1>1, <1>2 DEF DetonationInv, DetonationTypeOK, AnsweredSaved, ReadersAsked
  <1> QED BY <1>3, <1>4 DEF DetonationInv

LEMMA ShootKeeps == ASSUME DetonationInv, NEW r \in Requests, Shoot(r) PROVE DetonationInv'
  <1>1. UNCHANGED <<answer, saves, metadata, png, telemetry, handed, queue, job, tried, marked, faults>>
    BY DEF Shoot, Scans, vars, evidence, task
  <1>2. PICK look \in Looks : /\ progress' = [progress EXCEPT ![r] = look]
                              /\ home' = IF look = "shot" THEN r ELSE home
    BY DEF Shoot
  <1>3. r \in tried /\ progress[r] = "none"
    BY DEF Shoot, Scans, Up
  <1>4. DetonationTypeOK'
    BY <1>1, <1>2, <1>3 DEF DetonationInv, DetonationTypeOK
  <1>5. \A q \in Requests : progress'[q] = "saved" <=> progress[q] = "saved"
    BY <1>2, <1>3 DEF Looks, DetonationInv, DetonationTypeOK
  <1>6. AnsweredSaved' /\ SavedThere' /\ ReadersAsked' /\ FreshResult'
    BY <1>1, <1>5
    DEF DetonationInv, DetonationTypeOK, AnsweredSaved, SavedThere, ReadersAsked, FreshResult, SavedBy
  <1> QED BY <1>4, <1>6 DEF DetonationInv

(* A save adds to the results, and takes none away.                        *)
LEMMA SaveKeeps == ASSUME DetonationInv, NEW r \in Requests, Save(r) PROVE DetonationInv'
  <1>1. UNCHANGED <<answer, home, metadata, png, telemetry, handed, queue, job, tried, marked, faults>>
    BY DEF Save, Scans, vars, evidence, task
  <1>2. PICK look \in Looks : saves' = Append(saves, [run |-> r, look |-> look])
    BY DEF Save
  <1>3. progress' = [progress EXCEPT ![r] = "saved"]
    BY DEF Save
  <1>4. /\ saves \in Seq([run : Requests, look : Looks])
        /\ [run |-> r, look |-> look] \in [run : Requests, look : Looks]
    BY DEF DetonationInv, DetonationTypeOK
  <1>5. /\ saves' \in Seq([run : Requests, look : Looks])
        /\ Len(saves) \in Nat /\ Len(saves') = Len(saves) + 1
        /\ saves'[Len(saves')].run = r
        /\ \A n \in 1 .. Len(saves) : saves'[n] = saves[n]
    BY <1>2, <1>4, AppendProperties
  <1>6. \A q, k : k \in 0 .. Len(saves) /\ SavedBy(q, k) => SavedBy(q, k)'
    BY <1>5 DEF SavedBy
  <1>7. DetonationTypeOK'
    BY <1>1, <1>3, <1>5 DEF DetonationInv, DetonationTypeOK
  <1>8. \A q \in Requests : progress'[q] = "saved" => q = r \/ progress[q] = "saved"
    BY <1>3 DEF DetonationInv, DetonationTypeOK
  <1>9. SavedThere'
    BY <1>5, <1>8 DEF DetonationInv, SavedThere, SavedBy
  <1>10. AnsweredSaved' /\ ReadersAsked'
    BY <1>1, <1>3 DEF DetonationInv, DetonationTypeOK, AnsweredSaved, ReadersAsked
  <1>11. FreshResult'
    BY <1>1, <1>5, JobsOK DEF JobOK, JobOf, FreshResult, SavedBy
  <1> QED BY <1>7, <1>9, <1>10, <1>11 DEF DetonationInv

-----------------------------------------------------------------------------
LEMMA DetonationInitInv == DetonationInit => DetonationInv
  <1> SUFFICES ASSUME DetonationInit PROVE DetonationInv
    OBVIOUS
  <1>1. job \in [Workers -> JobOf(tried, Len(saves))]
    BY DetonationAssumption DEF DetonationInit, JobOf, Idle, Steps
  <1>2. DetonationTypeOK
    BY <1>1, DetonationAssumption DEF DetonationInit, DetonationTypeOK, JobOf, Idle
  <1>3. AnsweredSaved /\ SavedThere /\ ReadersAsked /\ FreshResult
    BY DEF DetonationInit, AnsweredSaved, SavedThere, ReadersAsked, FreshResult, Idle
  <1> QED BY <1>2, <1>3 DEF DetonationInv

LEMMA DetonationStep == DetonationInv /\ TypeOK /\ [DetonationNext]_allvars => DetonationInv'
  <1> SUFFICES ASSUME DetonationInv, TypeOK, [DetonationNext]_allvars PROVE DetonationInv'
    OBVIOUS
  <1>1. CASE UNCHANGED allvars
    <2>1. UNCHANGED <<answer, progress, home, saves, metadata, png, telemetry, handed, queue, job, tried, marked, faults>>
      BY <1>1 DEF allvars, vars, scanner, evidence, task
    <2> QED BY <2>1 DEF DetonationInv, DetonationTypeOK, AnsweredSaved, SavedThere, ReadersAsked, FreshResult, SavedBy
  <1>2. ASSUME NEW w \in Workers, Start(w) \/ Call(w) \/ LoseCall(w) \/ Work(w) \/ Crash(w)
        PROVE  DetonationInv'
    BY <1>2, StartKeeps, CallKeeps, LoseCallKeeps, HearKeeps, ReadKeeps, PublishKeeps, IngestKeeps,
       EndingKeeps, RetryKeeps, AckKeeps, CrashKeeps DEF Work
  <1>3. ASSUME NEW r \in Requests, Shoot(r) \/ Save(r) \/ Provide(r) \/ Docker(r)
        PROVE  DetonationInv'
    BY <1>3, ShootKeeps, SaveKeeps, ServiceKeeps
  <1> QED BY <1>1, <1>2, <1>3 DEF DetonationNext

(* Every variable has its type, for every number of workers, retries,      *)
(* faults and requests.                                                    *)
THEOREM DetonationTypeCorrect == DetonationSpec => []DetonationTypeOK
  <1>1. DetonationInv => DetonationTypeOK
    BY DEF DetonationInv
  <1> QED
    BY <1>1, DetonationInitInv, DetonationStep, RunnerLimitsHold, PTL DEF DetonationSpec

(* However often a scan is delivered, retried or overlapped by a container *)
(* of its own past, a worker reads what its own request saved, or what was *)
(* saved after that.                                                       *)
THEOREM FreshCorrect == DetonationSpec => []FreshResult
  <1>1. DetonationInv => FreshResult
    BY DEF DetonationInv
  <1> QED
    BY <1>1, DetonationInitInv, DetonationStep, RunnerLimitsHold, PTL DEF DetonationSpec

-----------------------------------------------------------------------------
(* Why a scan gets the fallback.                                           *)

(* The invariant of the service, which its proofs establish, holds of it   *)
(* here.                                                                   *)
LEMMA RunnerInvHolds == DetonationSpec => []RunnerInv
  <1>1. DetonationInit => Init
    BY DEF DetonationInit
  <1>2. RunnerInv /\ [DetonationNext]_allvars => RunnerInv'
    BY StepOfRunner, RunnerStep
  <1> QED BY <1>1, <1>2, RunnerInitInv, PTL DEF DetonationSpec

LEMMA DetonationInvHolds == DetonationSpec => []DetonationInv
  BY DetonationInitInv, DetonationStep, RunnerLimitsHold, PTL DEF DetonationSpec

(* The service is done with a request.                                     *)
Done(q) == stage[q] \in {"left", "rejected"}

(* What the gate does is no step of a request it is done with.             *)
LEMMA DoneAtGate ==
  ASSUME GateInv, NEW r \in Requests, NEW q \in Requests, Done(q),
         Check(r) \/ Acquire(r) \/ Resume(r) \/ GiveUp(r) \/ Release(r)
  PROVE  q # r /\ stage'[q] = stage[q]
  <1>1. CASE Check(r)
    BY <1>1, CheckMoves DEF Done
  <1>2. CASE Acquire(r) \/ Resume(r)
    BY <1>2, PassMoves DEF Own, Done
  <1>3. CASE GiveUp(r) \/ Release(r)
    BY <1>3, LeaveMoves DEF Own, Done
  <1> QED BY <1>1, <1>2, <1>3

(* Such a request keeps its answer, and gets no container any more.        *)
LEMMA DoneStays ==
  ASSUME RunnerInv, [Next]_vars, NEW q \in Requests, Done(q), answer[q] # 401
  PROVE  /\ stage'[q] = stage[q] /\ answer'[q] = answer[q]
         /\ container[q] # "up" => container'[q] # "up"
  <1>0. GateInv /\ TypeOK /\ Contained(q) /\ answer[q] # 0
    BY DEF RunnerInv, TypeOK, Done
  <1>1. CASE UNCHANGED vars
    BY <1>1 DEF vars, gate, docker
  <1>2. ASSUME NEW r \in Requests, Unauthorized(r) \/ Arrive(r) \/ PassGate(r) \/ TooManyRequests(r)
        PROVE  /\ stage'[q] = stage[q] /\ answer'[q] = answer[q]
               /\ container[q] # "up" => container'[q] # "up"
    <2>1. CASE Unauthorized(r)
      BY <1>0, <2>1 DEF Unauthorized, Reply, gate, docker, TypeOK
    <2>2. CASE Arrive(r)
      BY <1>0, <2>2, DoneAtGate DEF Arrive, Reply, docker, TypeOK
    <2>3. CASE PassGate(r)
      BY <1>0, <2>3, DoneAtGate DEF PassGate, docker
    <2>4. CASE TooManyRequests(r)
      BY <1>0, <2>4, DoneAtGate DEF TooManyRequests, Reply, docker, TypeOK
    <2> QED BY <1>2, <2>1, <2>2, <2>3, <2>4
  <1>3. ASSUME NEW r \in Requests, Detonate(r)
        PROVE  /\ stage'[q] = stage[q] /\ answer'[q] = answer[q]
               /\ container[q] # "up" => container'[q] # "up"
    <2>1. CASE Launch(r) \/ TimeOut(r)
      BY <2>1 DEF Launch, TimeOut, gate
    <2>2. ASSUME NEW code, Finish(r, code), UNCHANGED docker
          PROVE  /\ stage'[q] = stage[q] /\ answer'[q] = answer[q]
                 /\ container[q] # "up" => container'[q] # "up"
      BY <1>0, <2>2, DoneAtGate DEF Finish, Reply, docker, TypeOK
    <2> QED BY <1>3, <2>1, <2>2 DEF Detonate, Invalid, LaunchFails, Reap, Report
  <1>4. ASSUME NEW r \in Requests, ContainerStarts(r) \/ ContainerEnds(r) \/ CliEnds(r)
        PROVE  /\ stage'[q] = stage[q] /\ answer'[q] = answer[q]
               /\ container[q] # "up" => container'[q] # "up"
    <2>1. cli[q] # "running"
      BY <1>0 DEF Contained, Done
    <2> QED BY <1>0, <1>4, <2>1 DEF ContainerStarts, ContainerEnds, CliEnds, gate, TypeOK
  <1> QED BY <1>1, <1>2, <1>3, <1>4 DEF Next, Serve

(* The worker has the key of the service.                                  *)
NoneDenied == \A q \in Requests : answer[q] # 401

LEMMA NoneDeniedStep == RunnerInv /\ NoneDenied /\ [DetonationNext]_allvars => NoneDenied'
  <1> SUFFICES ASSUME RunnerInv, NoneDenied, [DetonationNext]_allvars PROVE NoneDenied'
    OBVIOUS
  <1>1. ASSUME NEW r \in Requests, NEW code \in {200, 400, 429, 500, 504}, Reply(r, code)
        PROVE  NoneDenied'
    BY <1>1 DEF Reply, NoneDenied, RunnerInv, TypeOK
  <1>2. ASSUME UNCHANGED answer PROVE NoneDenied'
    BY <1>2 DEF NoneDenied
  <1>3. ASSUME NEW w \in Workers, Start(w) \/ LoseCall(w) \/ Work(w) \/ Crash(w)
        PROVE  NoneDenied'
    BY <1>2, <1>3 DEF vars, Start, LoseCall, Work, Crash, Hear, Read, Publish, Ingest, Place, PlaceIf,
                WriteFallback, HandOver, Retry, Ack
  <1>4. ASSUME NEW w \in Workers, Call(w) PROVE NoneDenied'
    <2>1. PICK r \in Requests : Arrive(r)
      <3>1. (CHOOSE fresh \in Requests \ tried : TRUE) \in Requests
        BY <1>4 DEF Call
      <3> QED BY <1>4, <3>1 DEF Call
    <2> QED BY <1>1, <1>2, <2>1 DEF Arrive
  <1>5. ASSUME NEW r \in Requests, Shoot(r) \/ Save(r) PROVE NoneDenied'
    BY <1>2, <1>5 DEF Shoot, Save, Scans, vars
  <1>6. ASSUME NEW r \in Requests, Provide(r) PROVE NoneDenied'
    <2>1. CASE PassGate(r)
      BY <1>2, <2>1 DEF PassGate
    <2>2. CASE TooManyRequests(r)
      BY <1>1, <2>2 DEF TooManyRequests
    <2>3. CASE Detonate(r)
      BY <1>1, <1>2, <2>3 DEF Detonate, Invalid, Launch, LaunchFails, TimeOut, Reap, Report, Finish
    <2> QED BY <1>6, <2>1, <2>2, <2>3 DEF Provide, Serve
  <1>7. ASSUME NEW r \in Requests, Docker(r) PROVE NoneDenied'
    BY <1>2, <1>7 DEF Docker, ContainerStarts, ContainerEnds, CliEnds
  <1>8. CASE UNCHANGED allvars
    BY <1>2, <1>8 DEF allvars, vars
  <1> QED BY <1>3, <1>4, <1>5, <1>6, <1>7, <1>8 DEF DetonationNext

LEMMA NoneDeniedHolds == DetonationSpec => []NoneDenied
  <1>1. DetonationInit => NoneDenied
    BY DEF DetonationInit, Init, NoneDenied
  <1> QED BY <1>1, NoneDeniedStep, RunnerInvHolds, PTL DEF DetonationSpec

(* A worker with retries left gives up only on a request that was answered *)
(* with a time-out or an error of the docker command.                      *)
GivesUp(j) == j.at = "fallback" =>
  \/ j.retries = RetryLimit
  \/ marked
  \/ j.request \in tried /\ answer[j.request] \in {500, 504}

FallbackInv == \A w \in Workers : GivesUp(job[w])

(* An answer of this kind is the last word.                                *)
LEMMA GivesUpStays ==
  ASSUME DetonationInv, RunnerInv, NoneDenied, [Next]_vars, tried \subseteq tried',
         marked' = marked, NEW CONSTANT j, GivesUp(j)
  PROVE  GivesUp(j)'
  <1>1. CASE j.request \in tried /\ answer[j.request] \in {500, 504}
    <2>1. j.request \in Requests /\ Done(j.request)
      BY <1>1 DEF DetonationInv, DetonationTypeOK, RunnerInv, TypeOK, Done
    <2> QED BY <1>1, <2>1, DoneStays DEF GivesUp, NoneDenied
  <1> QED BY <1>1 DEF GivesUp

(* The others' jobs are as they were.                                      *)
LEMMA FallbackByWorker ==
  ASSUME DetonationInv, RunnerInv, NoneDenied, [Next]_vars, FallbackInv, tried \subseteq tried',
         marked' = marked, NEW w \in Workers, NEW CONSTANT j,
         job' = [job EXCEPT ![w] = j], GivesUp(j)
  PROVE  FallbackInv'
  <1> SUFFICES ASSUME NEW v \in Workers PROVE GivesUp(job[v])'
    BY DEF FallbackInv
  <1>1. PICK i : i = job'[v]
    OBVIOUS
  <1>2. i = (IF v = w THEN j ELSE job[v])
    BY <1>1 DEF DetonationInv, DetonationTypeOK
  <1>3. GivesUp(i)
    BY <1>2 DEF FallbackInv
  <1>4. GivesUp(i)'
    BY <1>3, GivesUpStays
  <1> QED BY <1>1, <1>4 DEF GivesUp

LEMMA FallbackStep ==
  DetonationInv /\ RunnerInv /\ NoneDenied /\ FallbackInv /\ [DetonationNext]_allvars => FallbackInv'
  <1> SUFFICES ASSUME DetonationInv, RunnerInv, NoneDenied, FallbackInv, [DetonationNext]_allvars
               PROVE  FallbackInv'
    OBVIOUS
  <1>0. [Next]_vars
    BY StepOfRunner
  <1>1. ASSUME UNCHANGED <<job, tried, marked>> PROVE FallbackInv'
    <2> SUFFICES ASSUME NEW v \in Workers PROVE GivesUp(job[v])'
      BY DEF FallbackInv
    <2>1. PICK i : i = job[v]
      OBVIOUS
    <2>2. GivesUp(i)
      BY <2>1 DEF FallbackInv
    <2>3. GivesUp(i)'
      BY <1>0, <1>1, <2>2, GivesUpStays
    <2> QED BY <1>1, <2>1, <2>3 DEF GivesUp
  <1>2. ASSUME NEW w \in Workers, NEW CONSTANT j, job' = [job EXCEPT ![w] = j],
               UNCHANGED <<tried, marked>>, GivesUp(j)
        PROVE  FallbackInv'
    BY <1>0, <1>2, FallbackByWorker
  <1>3. ASSUME NEW w \in Workers, NEW step, Goto(w, step), UNCHANGED <<tried, marked>>,
               GivesUp([job[w] EXCEPT !.at = step])
        PROVE  FallbackInv'
    <2>1. PICK j : j = [job[w] EXCEPT !.at = step]
      OBVIOUS
    <2> QED BY <1>2, <1>3, <2>1, GoneTo
  <1>4. ASSUME NEW w \in Workers, NEW step, step # "fallback"
        PROVE  GivesUp([job[w] EXCEPT !.at = step])
    <2>1. [job[w] EXCEPT !.at = step].at = step
      BY DEF DetonationInv, DetonationTypeOK
    <2> QED BY <1>4, <2>1 DEF GivesUp
  <1>5. ASSUME NEW w \in Workers, NEW late \in BOOLEAN, Fail(w, late), UNCHANGED <<tried, marked>>,
               late => marked \/ (job[w].request \in tried /\ answer[job[w].request] \in {500, 504})
        PROVE  FallbackInv'
    <2>1. PICK step : /\ Goto(w, step)
                      /\ step = IF ~late /\ job[w].retries < RetryLimit THEN "retry" ELSE "fallback"
      BY <1>5 DEF Fail
    <2>2. PICK j : j = [job[w] EXCEPT !.at = step]
      OBVIOUS
    <2>3. j.retries = job[w].retries /\ j.request = job[w].request /\ j.at = step
      BY <2>2 DEF DetonationInv, DetonationTypeOK
    <2>4. job[w].retries \in 0 .. RetryLimit /\ RetryLimit \in Nat
      BY DetonationAssumption DEF DetonationInv, DetonationTypeOK
    <2>5. GivesUp(j)
      BY <1>5, <2>1, <2>3, <2>4 DEF GivesUp
    <2> QED BY <1>3, <1>5, <2>1, <2>2, <2>5
  <1>6. ASSUME NEW w \in Workers, Start(w) PROVE FallbackInv'
    <2>1. PICK n, j : /\ n \in 0 .. RetryLimit /\ j = [Idle EXCEPT !.at = "call", !.retries = n]
                      /\ job' = [job EXCEPT ![w] = j]
      BY <1>6 DEF Start
    <2>2. GivesUp(j)
      BY <2>1 DEF Idle, GivesUp
    <2> QED BY <1>2, <1>6, <2>1, <2>2 DEF Start, AtStep
  <1>7. ASSUME NEW w \in Workers, Call(w) PROVE FallbackInv'
    <2>1. PICK r, j : /\ j = [job[w] EXCEPT !.at = "wait", !.request = r]
                      /\ job' = [job EXCEPT ![w] = j] /\ tried' = tried \cup {r} /\ marked' = marked
      BY <1>7 DEF Call, AtStep, DetonationInv, DetonationTypeOK
    <2>2. j.at = "wait"
      BY <2>1 DEF DetonationInv, DetonationTypeOK
    <2> QED BY <1>0, <2>1, <2>2, FallbackByWorker DEF GivesUp
  <1>8. ASSUME NEW w \in Workers, Hear(w) PROVE FallbackInv'
    <2> DEFINE code == answer[job[w].request]
    <2>1. UNCHANGED <<tried, marked>> /\ job[w].request \in tried /\ marked \in BOOLEAN
      BY <1>8 DEF Hear, AtStep, DetonationInv, DetonationTypeOK
    <2>2. CASE code = 200 /\ Goto(w, "read")
      BY <1>3, <1>4, <2>1, <2>2
    <2>3. CASE Fail(w, code = 504 \/ marked)
      <3>1. PICK late \in BOOLEAN : late = (code = 504 \/ marked)
        OBVIOUS
      <3> QED BY <1>5, <2>1, <2>3, <3>1
    <2>4. CASE code = 500 /\ Fail(w, TRUE)
      BY <1>5, <2>1, <2>4
    <2> QED BY <1>8, <2>2, <2>3, <2>4 DEF Hear
  <1>9. ASSUME NEW w \in Workers, LoseCall(w) PROVE FallbackInv'
    BY <1>5, <1>9 DEF LoseCall, AtStep, DetonationInv, DetonationTypeOK
  <1>10. ASSUME NEW w \in Workers, Read(w) PROVE FallbackInv'
    <2>1. CASE Fail(w, FALSE)
      BY <1>5, <1>10, <2>1 DEF Read, AtStep
    <2>2. CASE job' = [job EXCEPT ![w].at = "publish", ![w].loaded = Len(saves)]
      <3>1. PICK j : j = [job[w] EXCEPT !.at = "publish", !.loaded = Len(saves)]
        OBVIOUS
      <3>2. j.at = "publish" /\ job' = [job EXCEPT ![w] = j]
        BY <2>2, <3>1 DEF DetonationInv, DetonationTypeOK
      <3> QED BY <1>2, <1>10, <3>2 DEF Read, AtStep, GivesUp
    <2> QED BY <1>10, <2>1, <2>2 DEF Read
  <1>11. ASSUME NEW w \in Workers,
                Publish(w) \/ Ingest(w) \/ Place(w) \/ WriteFallback(w) \/ HandOver(w) \/ Retry(w)
         PROVE  FallbackInv'
    <2>1. PICK step \in {"ingest", "place", "handover", "ack"} : Goto(w, step)
      BY <1>11 DEF Publish, Ingest, Place, PlaceIf, WriteFallback, HandOver, Retry
    <2>2. UNCHANGED <<tried, marked>>
      BY <1>11 DEF AtStep, Publish, Ingest, Place, PlaceIf, WriteFallback, HandOver, Retry
    <2> QED BY <1>3, <1>4, <2>1, <2>2
  <1>12. ASSUME NEW w \in Workers, Ack(w) \/ Crash(w) PROVE FallbackInv'
    <2>1. job' = [job EXCEPT ![w] = Idle] /\ UNCHANGED <<tried, marked>>
      BY <1>12 DEF Ack, Crash, AtStep
    <2>2. GivesUp(Idle)
      BY DEF GivesUp, Idle
    <2> QED BY <1>2, <2>1, <2>2
  <1>13. ASSUME NEW r \in Requests, Shoot(r) \/ Save(r) \/ Provide(r) \/ Docker(r)
         PROVE  FallbackInv'
    BY <1>1, <1>13 DEF Shoot, Save, Scans, Provide, Docker, Undisturbed, task
  <1>14. CASE UNCHANGED allvars
    BY <1>1, <1>14 DEF allvars, task
  <1> QED
    BY <1>6, <1>7, <1>8, <1>9, <1>10, <1>11, <1>12, <1>13, <1>14 DEF DetonationNext, Work

(* A scan that the service turned away does not get the fallback while the *)
(* task has retries, unless its id looks like a time-out.                  *)
THEOREM FallbackCorrect == DetonationSpec => []FallbackIsJustified
  <1>1. DetonationInit => FallbackInv
    BY DEF DetonationInit, FallbackInv, GivesUp, Idle
  <1>2. FallbackInv => FallbackIsJustified
    BY DEF FallbackInv, GivesUp, FallbackIsJustified
  <1> QED
    BY <1>1, <1>2, FallbackStep, DetonationInvHolds, RunnerInvHolds, NoneDeniedHolds, PTL
       DEF DetonationSpec

-----------------------------------------------------------------------------
(* How often the rows of telemetry are written.  A message, and a worker   *)
(* that has not come to the rows, may write them once: a fault alone makes *)
(* a delivery more of them.                                                *)

Messages == {m \in (0 .. RetryLimit) \X (Nat \ {0}) : m[2] <= queue[m[1]]}

Live == {w \in Workers : job[w].at \in {"call", "wait", "read", "publish", "ingest", "retry"}}

Counted ==
  /\ IsFiniteSet(Messages) /\ IsFiniteSet(Live)
  /\ Len(telemetry) + Cardinality(Messages) + Cardinality(Live) <= 1 + faults

LEMMA MessageTaken ==
  ASSUME DetonationTypeOK, IsFiniteSet(Messages), NEW n \in 0 .. RetryLimit, queue[n] > 0,
         queue' = [queue EXCEPT ![n] = @ - 1]
  PROVE  IsFiniteSet(Messages') /\ Cardinality(Messages') = Cardinality(Messages) - 1
  <1>1. queue \in [0 .. RetryLimit -> Nat]
    BY DEF DetonationTypeOK
  <1>2. <<n, queue[n]>> \in Messages
    BY <1>1 DEF Messages
  <1>3. Messages' = Messages \ {<<n, queue[n]>>}
    <2>1. ASSUME NEW i \in 0 .. RetryLimit, NEW k \in Nat \ {0}
          PROVE  <<i, k>> \in Messages' <=> <<i, k>> \in Messages \ {<<n, queue[n]>>}
      <3>1. queue'[i] = IF i = n THEN queue[n] - 1 ELSE queue[i]
        BY <1>1
      <3>2. k <= queue'[i] <=> (k <= queue[i] /\ (i # n \/ k # queue[n]))
        BY <1>1, <3>1
      <3> QED BY <3>2 DEF Messages
    <2> QED BY <2>1 DEF Messages
  <1>4. PICK m : m = <<n, queue[n]>>
    OBVIOUS
  <1>5. m \in Messages /\ Messages' = Messages \ {m}
    BY <1>2, <1>3, <1>4
  <1> QED BY ONLY IsFiniteSet(Messages), <1>5, FS_RemoveElement

LEMMA MessageAdded ==
  ASSUME DetonationTypeOK, IsFiniteSet(Messages), NEW n \in Int,
         queue' = [queue EXCEPT ![n] = @ + 1]
  PROVE  IsFiniteSet(Messages') /\ Cardinality(Messages') <= Cardinality(Messages) + 1
  <1>1. queue \in [0 .. RetryLimit -> Nat]
    BY DEF DetonationTypeOK
  <1>2. CASE n \in 0 .. RetryLimit
    <2>0. PICK m : m = <<n, queue[n] + 1>>
      OBVIOUS
    <2>1. Messages' = Messages \cup {m}
      <3>1. ASSUME NEW i \in 0 .. RetryLimit, NEW k \in Nat \ {0}
            PROVE  <<i, k>> \in Messages' <=> <<i, k>> \in Messages \cup {m}
        <4>1. queue'[i] = IF i = n THEN queue[n] + 1 ELSE queue[i]
          BY <1>1
        <4>2. k <= queue'[i] <=> (k <= queue[i] \/ (i = n /\ k = queue[n] + 1))
          BY <1>1, <4>1
        <4> QED BY <2>0, <4>2 DEF Messages
      <3>2. m \in (0 .. RetryLimit) \X (Nat \ {0})
        BY <1>1, <1>2, <2>0
      <3> QED BY <3>1, <3>2 DEF Messages
    <2>2. m \notin Messages
      BY <1>1, <1>2, <2>0 DEF Messages
    <2>3. IsFiniteSet(Messages \cup {m}) /\ Cardinality(Messages \cup {m}) = Cardinality(Messages) + 1
      BY <2>2, FS_AddElement
    <2>4. Cardinality(Messages) \in Nat
      BY FS_CardinalityType
    <2>5. IsFiniteSet(Messages') /\ Cardinality(Messages') = Cardinality(Messages) + 1
      BY ONLY <2>1, <2>3
    <2> QED BY <2>4, <2>5
  <1>3. CASE n \notin 0 .. RetryLimit
    <2>1. queue' = queue
      BY <1>1, <1>3
    <2>2. Messages' = Messages
      BY <2>1 DEF Messages
    <2>3. Cardinality(Messages) \in Nat
      BY FS_CardinalityType
    <2> QED BY <2>2, <2>3
  <1> QED BY <1>2, <1>3

(* A step that writes no rows and makes no delivery more.                  *)
LEMMA NothingCounted ==
  ASSUME Counted, DetonationTypeOK, DetonationTypeOK', UNCHANGED <<queue, telemetry, faults>>,
         Live' \subseteq Live
  PROVE  Counted'
  <1>1. IsFiniteSet(Live') /\ Cardinality(Live') <= Cardinality(Live)
    BY FS_Subset DEF Counted
  <1>2. Messages' = Messages
    BY DEF Messages
  <1>3. /\ Cardinality(Live) \in Nat /\ Cardinality(Live') \in Nat /\ Cardinality(Messages) \in Nat
        /\ Len(telemetry) \in Nat /\ faults \in Nat
    BY <1>1, FS_CardinalityType DEF Counted, DetonationTypeOK
  <1> QED BY <1>1, <1>2, <1>3 DEF Counted

(* The worker that moves is the only one that may come alive or cease.     *)
LEMMA OneMoves ==
  ASSUME DetonationTypeOK, NEW w \in Workers, NEW j, job' = [job EXCEPT ![w] = j]
  PROVE  /\ job'[w] = j /\ \A v \in Workers \ {w} : job'[v] = job[v]
         /\ Live' \subseteq Live \cup {w}
         /\ w \in Live' <=> j.at \in {"call", "wait", "read", "publish", "ingest", "retry"}
  <1>1. job'[w] = j /\ \A v \in Workers \ {w} : job'[v] = job[v]
    BY DEF DetonationTypeOK
  <1> QED BY <1>1 DEF Live

LEMMA CountedStep ==
  DetonationInv /\ DetonationInv' /\ Counted /\ [DetonationNext]_allvars => Counted'
  <1> SUFFICES ASSUME DetonationInv, DetonationInv', Counted, [DetonationNext]_allvars
               PROVE  Counted'
    OBVIOUS
  <1>0. /\ DetonationTypeOK /\ DetonationTypeOK'
        /\ Cardinality(Live) \in Nat /\ Cardinality(Messages) \in Nat
        /\ Len(telemetry) \in Nat /\ faults \in Nat
        /\ IsFiniteSet(Live) /\ IsFiniteSet(Messages)
    <2>1. DetonationTypeOK /\ DetonationTypeOK'
      BY DEF DetonationInv
    <2>2. Len(telemetry) \in Nat /\ faults \in Nat
      BY <2>1 DEF DetonationTypeOK
    <2>3. IsFiniteSet(Live) /\ IsFiniteSet(Messages)
      BY DEF Counted
    <2>4. Cardinality(Live) \in Nat /\ Cardinality(Messages) \in Nat
      BY <2>3, FS_CardinalityType
    <2> QED BY <2>1, <2>2, <2>3, <2>4
  <1>1. ASSUME UNCHANGED <<job, queue, telemetry, faults>> PROVE Counted'
    BY <1>0, <1>1, NothingCounted DEF Live
  <1>2. ASSUME NEW w \in Workers, NEW j, job' = [job EXCEPT ![w] = j],
               UNCHANGED <<queue, telemetry, faults>>,
               w \in Live \/ j.at \notin {"call", "wait", "read", "publish", "ingest", "retry"}
        PROVE  Counted'
    <2>1. Live' \subseteq Live
      BY <1>0, <1>2, OneMoves
    <2> QED BY <1>0, <1>2, <2>1, NothingCounted
  <1>3. ASSUME NEW w \in Workers, NEW step, Goto(w, step), UNCHANGED <<queue, telemetry, faults>>,
               w \in Live \/ step \in {"handover", "ack"}
        PROVE  Counted'
    <2>1. [job[w] EXCEPT !.at = step].at = step
      BY <1>0 DEF DetonationTypeOK
    <2>2. job' = [job EXCEPT ![w] = [job[w] EXCEPT !.at = step]]
      BY <1>3, GoneTo
    <2> QED BY <1>2, <1>3, <2>1, <2>2
  <1>4. ASSUME NEW w \in Workers, Start(w) PROVE Counted'
    <2>1. PICK n \in 0 .. RetryLimit :
            /\ queue[n] > 0 /\ queue' = [queue EXCEPT ![n] = @ - 1]
            /\ job' = [job EXCEPT ![w] = [Idle EXCEPT !.at = "call", !.retries = n]]
      BY <1>4 DEF Start
    <2>2. UNCHANGED <<telemetry, faults>> /\ w \notin Live
      BY <1>4 DEF Start, AtStep, evidence, Live
    <2>3. IsFiniteSet(Messages') /\ Cardinality(Messages') = Cardinality(Messages) - 1
      BY <1>0, <2>1, MessageTaken
    <2>4. IsFiniteSet(Live') /\ Cardinality(Live') <= Cardinality(Live) + 1
      <3>1. Live' \subseteq Live \cup {w}
        BY <1>0, <2>1, OneMoves
      <3>2. IsFiniteSet(Live \cup {w}) /\ Cardinality(Live \cup {w}) = Cardinality(Live) + 1
        BY <1>0, <2>2, FS_AddElement
      <3> QED BY <3>1, <3>2, FS_Subset
    <2>5. Cardinality(Live') \in Nat /\ Cardinality(Messages') \in Nat
      BY <2>3, <2>4, FS_CardinalityType
    <2> QED BY <1>0, <2>2, <2>3, <2>4, <2>5 DEF Counted
  <1>5. ASSUME NEW w \in Workers, Call(w) PROVE Counted'
    <2>1. PICK r : job' = [job EXCEPT ![w] = [job[w] EXCEPT !.at = "wait", !.request = r]]
      BY <1>0, <1>5 DEF Call, DetonationTypeOK
    <2>2. UNCHANGED <<queue, telemetry, faults>> /\ w \in Live
      BY <1>5 DEF Call, AtStep, evidence, Live
    <2> QED BY <1>2, <2>1, <2>2
  <1>6. ASSUME NEW w \in Workers, NEW late, Fail(w, late), w \in Live, UNCHANGED <<queue, telemetry>>,
               faults' \in {faults, faults + 1}
        PROVE  Counted'
    <2>1. PICK step : Goto(w, step)
      BY <1>6 DEF Fail
    <2>2. Live' \subseteq Live
      BY <1>0, <1>6, <2>1, OneMoves, GoneTo
    <2>3. IsFiniteSet(Live') /\ Cardinality(Live') <= Cardinality(Live) /\ Cardinality(Live') \in Nat
      BY <1>0, <2>2, FS_Subset, FS_CardinalityType
    <2>4. Messages' = Messages
      BY <1>6 DEF Messages
    <2> QED BY <1>0, <1>6, <2>3, <2>4 DEF Counted
  <1>7. ASSUME NEW w \in Workers, Hear(w) \/ LoseCall(w) \/ Read(w) PROVE Counted'
    <2>1. w \in Live /\ UNCHANGED <<queue, telemetry>>
      BY <1>7 DEF Hear, LoseCall, Read, AtStep, evidence, Live
    <2>2. CASE Hear(w)
      BY <1>3, <1>6, <2>1, <2>2 DEF Hear
    <2>3. CASE LoseCall(w)
      BY <1>6, <2>1, <2>3 DEF LoseCall, Fault
    <2>4. CASE Read(w)
      <3>1. CASE Fail(w, FALSE)
        BY <1>6, <2>1, <2>4, <3>1 DEF Read
      <3>2. CASE job' = [job EXCEPT ![w].at = "publish", ![w].loaded = Len(saves)]
        <4>1. job' = [job EXCEPT ![w] = [job[w] EXCEPT !.at = "publish", !.loaded = Len(saves)]]
          BY <1>0, <3>2 DEF DetonationTypeOK
        <4>2. faults' = faults
          BY <2>4 DEF Read
        <4> QED BY <1>2, <2>1, <4>1, <4>2
      <3> QED BY <2>4, <3>1, <3>2 DEF Read
    <2> QED BY <1>7, <2>2, <2>3, <2>4
  <1>8. ASSUME NEW w \in Workers, Publish(w) PROVE Counted'
    BY <1>3, <1>8 DEF Publish, AtStep, Live
  <1>9. ASSUME NEW w \in Workers, Place(w) \/ WriteFallback(w) \/ HandOver(w) PROVE Counted'
    BY <1>3, <1>9 DEF Place, PlaceIf, WriteFallback, HandOver
  <1>10. ASSUME NEW w \in Workers, Ack(w) PROVE Counted'
    BY <1>2, <1>10 DEF Ack, evidence, Idle
  <1>11. ASSUME NEW w \in Workers, NEW step, Goto(w, step), w \in Live, step \in {"place", "ack"}
         PROVE  IsFiniteSet(Live') /\ Cardinality(Live') \in Nat
                /\ Cardinality(Live') <= Cardinality(Live) - 1
    <2>1. [job[w] EXCEPT !.at = step].at = step
      BY <1>0 DEF DetonationTypeOK
    <2>2. Live' \subseteq Live \ {w}
      <3>1. PICK j : j = [job[w] EXCEPT !.at = step]
        OBVIOUS
      <3>2. job' = [job EXCEPT ![w] = j] /\ j.at = step
        BY <1>11, <2>1, <3>1, GoneTo
      <3>3. w \notin Live' /\ Live' \subseteq Live \cup {w}
        BY <1>0, <1>11, <3>2, OneMoves
      <3> QED BY <3>3
    <2>3. IsFiniteSet(Live \ {w}) /\ Cardinality(Live \ {w}) = Cardinality(Live) - 1
      BY <1>0, <1>11, FS_RemoveElement
    <2> QED BY <2>2, <2>3, FS_Subset, FS_CardinalityType
  <1>12. ASSUME NEW w \in Workers, Ingest(w) PROVE Counted'
    <2>1. Goto(w, "place") /\ w \in Live /\ UNCHANGED <<queue, faults>>
      BY <1>12 DEF Ingest, AtStep, Live
    <2>2. Len(telemetry') <= Len(telemetry) + 1 /\ Len(telemetry') \in Nat
      <3>1. Result(w).run \in Requests
        BY <1>12, ResultSaved DEF Ingest, AtStep
      <3> QED BY <1>0, <1>12, <3>1, AppendProperties DEF Ingest, DetonationTypeOK
    <2>3. Messages' = Messages
      BY <2>1 DEF Messages
    <2> QED BY <1>0, <1>11, <2>1, <2>2, <2>3 DEF Counted
  <1>13. ASSUME NEW w \in Workers, Retry(w) PROVE Counted'
    <2>1. /\ Goto(w, "ack") /\ w \in Live /\ UNCHANGED <<telemetry, faults>>
          /\ queue' = [queue EXCEPT ![job[w].retries + 1] = @ + 1]
      BY <1>13 DEF Retry, AtStep, Live, evidence
    <2>2. job[w].retries + 1 \in Int
      BY <1>0 DEF DetonationTypeOK
    <2>3. IsFiniteSet(Messages') /\ Cardinality(Messages') <= Cardinality(Messages) + 1
      BY <1>0, <2>1, <2>2, MessageAdded
    <2>4. Cardinality(Messages') \in Nat
      BY <2>3, FS_CardinalityType
    <2> QED BY <1>0, <1>11, <2>1, <2>3, <2>4 DEF Counted
  <1>14. ASSUME NEW w \in Workers, Crash(w) PROVE Counted'
    <2>1. /\ job' = [job EXCEPT ![w] = Idle] /\ telemetry' = telemetry /\ faults' = faults + 1
          /\ queue' = [queue EXCEPT ![job[w].retries] = @ + 1]
      BY <1>14 DEF Crash, Fault, evidence
    <2>2. job[w].retries \in Int
      BY <1>0 DEF DetonationTypeOK
    <2>3. IsFiniteSet(Messages') /\ Cardinality(Messages') <= Cardinality(Messages) + 1
      BY <1>0, <2>1, <2>2, MessageAdded
    <2>4. Live' \subseteq Live
      <3>1. w \notin Live' /\ Live' \subseteq Live \cup {w}
        <4>1. Idle.at = "idle"
          BY DEF Idle
        <4> QED BY <1>0, <2>1, <4>1, OneMoves
      <3> QED BY <3>1
    <2>5. IsFiniteSet(Live') /\ Cardinality(Live') <= Cardinality(Live)
      BY <1>0, <2>4, FS_Subset
    <2>6. Cardinality(Messages') \in Nat /\ Cardinality(Live') \in Nat
      BY <2>3, <2>5, FS_CardinalityType
    <2> QED BY <1>0, <2>1, <2>3, <2>5, <2>6 DEF Counted
  <1>15. ASSUME NEW r \in Requests, Shoot(r) \/ Save(r) \/ Provide(r) \/ Docker(r)
         PROVE  Counted'
    BY <1>1, <1>15 DEF Shoot, Save, Scans, Provide, Docker, Undisturbed, task, evidence
  <1>16. CASE UNCHANGED allvars
    BY <1>1, <1>16 DEF allvars, task, evidence
  <1>17. ASSUME NEW w \in Workers, Start(w) \/ Call(w) \/ LoseCall(w) \/ Work(w) \/ Crash(w)
         PROVE  Counted'
    BY <1>4, <1>5, <1>7, <1>8, <1>9, <1>10, <1>12, <1>13, <1>14, <1>17 DEF Work
  <1> QED BY <1>15, <1>16, <1>17 DEF DetonationNext

LEMMA CountedFirst == DetonationInit => Counted
  <1> SUFFICES ASSUME DetonationInit PROVE Counted
    OBVIOUS
  <1>1. Messages = {<<0, 1>>}
    BY DetonationAssumption DEF DetonationInit, Messages
  <1>2. Live = {}
    BY DEF DetonationInit, Live, Idle
  <1>3. Len(telemetry) = 0 /\ faults = 0
    BY DEF DetonationInit
  <1>4. IsFiniteSet({}) /\ Cardinality({}) = 0
    BY FS_EmptySet
  <1>5. IsFiniteSet({<<0, 1>>}) /\ Cardinality({<<0, 1>>}) = 1
    BY FS_Singleton
  <1> QED BY <1>1, <1>2, <1>3, <1>4, <1>5 DEF Counted

-----------------------------------------------------------------------------
(* Evidence of one run.  Without a fault there is one message or one       *)
(* worker at a time, and it goes on only when every request before its own *)
(* is dead: answered, without a container that might still write.  The     *)
(* last save, and the screenshot, are then of the run it asked for.        *)

Busy == {w \in Workers : job[w].at \notin {"idle", "ack"}}

NoQueue == \A n \in 0 .. RetryLimit : queue[n] = 0

Dead(q)    == Done(q) /\ container[q] # "up"
AllDead(S) == \A q \in S : Dead(q)

Clear == png = NoRequest /\ telemetry = <<>>

LastSave == saves[Len(saves)]
LastOK   == Len(saves) > 0 /\ (LastSave.look = "shot" => home = LastSave.run)

(* What the run of request r has left.                                     *)
LeftOK(r) == /\ progress[r] = "shot" => home = r
             /\ progress[r] = "saved" => LastOK

OneOf == png \in {metadata, NoRequest} /\ telemetry \in {<<>>, <<metadata>>}

StageOK(j) ==
  /\ j.at \in {"call", "retry", "wait", "read", "publish", "ingest", "fallback"} => Clear
  /\ j.at \in {"call", "retry", "read", "publish", "ingest", "place"} => AllDead(tried)
  /\ j.at = "wait" => AllDead(tried \ {j.request}) /\ LeftOK(j.request)
  /\ j.at \in {"read", "publish", "ingest", "place"} => LastOK
  /\ j.at \in {"publish", "ingest", "place"} => j.loaded = Len(saves)
  /\ j.at \in {"ingest", "place"} => metadata = LastSave.run
  /\ j.at = "place" => png = NoRequest /\ telemetry \in {<<>>, <<metadata>>}
  /\ j.at = "handover" => OneOf

OneMessage ==
  /\ \A n \in 0 .. RetryLimit : queue[n] <= 1
  /\ \A m, n \in 0 .. RetryLimit : queue[m] > 0 /\ queue[n] > 0 => m = n
  /\ NoQueue \/ (Clear /\ AllDead(tried) /\ Busy = {})

OneWorker == (\A v, w \in Busy : v = w) /\ \A w \in Busy : StageOK(job[w])

OneRun == faults = 0 => /\ OneMessage /\ OneWorker
                        /\ handed => Busy = {} /\ NoQueue /\ OneOf

Untried == \A q \in Requests \ tried : progress[q] = "none"

LEMMA DeadStays ==
  ASSUME RunnerInv, NoneDenied, [Next]_vars, NEW q \in Requests, Dead(q)
  PROVE  Dead(q)'
  <1>1. Done(q) /\ answer[q] # 401 /\ container[q] # "up"
    BY DEF Dead, NoneDenied
  <1> QED BY <1>1, DoneStays DEF Dead, Done

(* A step that leaves the scan's files and its requests alone.             *)
LEMMA StageStays ==
  ASSUME RunnerInv, NoneDenied, [Next]_vars, DetonationInv,
         UNCHANGED <<tried, progress, home, saves, metadata, png, telemetry>>,
         NEW CONSTANT j, StageOK(j)
  PROVE  StageOK(j)'
  <1>1. ASSUME NEW S, S \subseteq Requests, AllDead(S) PROVE AllDead(S)'
    BY <1>1, DeadStays DEF AllDead
  <1>2. tried \subseteq Requests
    BY DEF DetonationInv, DetonationTypeOK
  <1>3. AllDead(tried) => AllDead(tried)'
    BY <1>2, DeadStays DEF AllDead
  <1>4. AllDead(tried \ {j.request}) => AllDead(tried \ {j.request})'
    BY <1>2, DeadStays DEF AllDead
  <1> QED BY <1>3, <1>4 DEF StageOK, Clear, LeftOK, LastOK, LastSave, OneOf

(* A request that was answered, and not with 504, has no container.        *)
LEMMA AnsweredDead ==
  ASSUME RunnerInv, NoneDenied, NEW q \in Requests, answer[q] \notin {0, 504}
  PROVE  Dead(q)
  <1>1. answer[q] # 401 /\ Contained(q) /\ Done(q)
    BY DEF RunnerInv, TypeOK, NoneDenied, Done
  <1> QED BY <1>1 DEF Contained, Done, Dead

(* The one worker moves.                                                   *)
LEMMA OneWorkerMoves ==
  ASSUME DetonationInv, OneRun, faults = 0, faults' = 0, NEW w \in Busy, queue' = queue,
         NEW CONSTANT j, job' = [job EXCEPT ![w] = j],
         \/ StageOK(j)' /\ handed' = handed
         \/ j.at = "ack" /\ (handed' => OneOf')
  PROVE  OneRun'
  <1>1. NoQueue /\ ~handed /\ w \in Workers /\ \A v \in Busy : v = w
    BY DEF OneRun, OneMessage, OneWorker, Busy
  <1>2. NoQueue'
    BY <1>1 DEF NoQueue
  <1>3. OneMessage'
    BY <1>2 DEF OneMessage, NoQueue
  <1>4. job'[w] = j /\ \A v \in Workers \ {w} : job'[v] = job[v]
    BY <1>1 DEF DetonationInv, DetonationTypeOK
  <1>5. Busy' \subseteq {w} /\ (j.at = "ack" => Busy' = {})
    BY <1>1, <1>4 DEF Busy
  <1>6. CASE j.at = "ack" /\ (handed' => OneOf')
    BY <1>2, <1>3, <1>5, <1>6 DEF OneRun, OneWorker
  <1>7. CASE StageOK(j)' /\ handed' = handed
    <2>1. ASSUME NEW v \in Busy' PROVE StageOK(job[v])'
      <3>1. job'[v] = j
        BY <1>4, <1>5
      <3> QED BY <1>7, <3>1 DEF StageOK
    <2>2. OneWorker'
      BY <1>5, <2>1 DEF OneWorker
    <2> QED BY <1>1, <1>3, <1>7, <2>2 DEF OneRun
  <1> QED BY <1>6, <1>7

(* What holds of the worker that moves, before it does.                    *)
LEMMA TheOneWorker ==
  ASSUME DetonationInv, OneRun, faults = 0, NEW w \in Workers, job[w].at \notin {"idle", "ack"}
  PROVE  w \in Busy /\ StageOK(job[w])
  BY DEF OneRun, OneWorker, Busy

(* Nothing is asked or written, and the workers that matter stay.          *)
LEMMA OthersMove ==
  ASSUME DetonationInv, RunnerInv, NoneDenied, [Next]_vars, OneRun, faults = 0,
         UNCHANGED <<tried, progress, home, saves, metadata, png, telemetry, handed, queue>>,
         faults' = 0, Busy' = Busy, \A v \in Busy : job'[v] = job[v]
  PROVE  OneRun'
  <1>1. ASSUME NEW v \in Busy PROVE StageOK(job[v])'
    <2>1. PICK j : j = job[v]
      OBVIOUS
    <2>2. StageOK(j)
      BY <2>1 DEF OneRun, OneWorker
    <2>3. StageOK(j)'
      BY <2>2, StageStays
    <2>4. job'[v] = j
      BY <2>1
    <2> QED BY <2>3, <2>4 DEF StageOK
  <1>2. OneWorker'
    BY <1>1 DEF OneRun, OneWorker
  <1>3. AllDead(tried) => AllDead(tried)'
    BY DeadStays DEF AllDead, DetonationInv, DetonationTypeOK
  <1>4. OneMessage'
    BY <1>3 DEF OneRun, OneMessage, NoQueue, Clear
  <1> QED BY <1>2, <1>4 DEF OneRun, NoQueue, OneOf

LEMMA HearGoesOn ==
  ASSUME DetonationInv, RunnerInv, NoneDenied, [Next]_vars, OneRun, faults = 0,
         NEW w \in Workers, Hear(w)
  PROVE  OneRun'
  <1> DEFINE r == job[w].request
  <1>1. job[w].at = "wait" /\ r \in tried /\ r \in Requests /\ answer[r] # 0
    <2>1. job[w].at = "wait"
      BY DEF Hear, AtStep
    <2>2. answer[r] # 0
      BY DEF Hear, Fail, Goto
    <2>3. r \in tried /\ r \in Requests
      BY <2>1 DEF DetonationInv, DetonationTypeOK
    <2> QED BY <2>1, <2>2, <2>3
  <1>2. w \in Busy /\ Clear /\ AllDead(tried \ {r}) /\ LeftOK(r)
    BY <1>1, TheOneWorker DEF StageOK
  <1>3. /\ UNCHANGED <<tried, progress, home, saves, metadata, png, telemetry, handed, queue>>
        /\ faults' = 0
    BY DEF Hear, scanner, evidence
  <1>4. ASSUME NEW step \in {"read", "retry", "fallback"}, Goto(w, step),
               step # "fallback" => AllDead(tried), step = "read" => LastOK
        PROVE  OneRun'
    <2>1. PICK j : j = [job[w] EXCEPT !.at = step]
      OBVIOUS
    <2>2. j.at = step /\ job' = [job EXCEPT ![w] = j]
      BY <1>4, <2>1, GoneTo DEF DetonationInv, DetonationTypeOK
    <2>3. StageOK(j)
      BY <1>2, <1>4, <2>2 DEF StageOK
    <2>4. StageOK(j)'
      BY <1>3, <2>3, StageStays
    <2> QED BY <1>2, <1>3, <2>2, <2>4, OneWorkerMoves
  <1>5. answer[r] # 504 => AllDead(tried)
    <2>1. answer[r] # 504 => Dead(r)
      BY <1>1, AnsweredDead
    <2> QED BY <1>2, <2>1 DEF AllDead
  <1>6. CASE answer[r] = 200 /\ Goto(w, "read")
    <2>1. LastOK
      BY <1>1, <1>2, <1>6 DEF DetonationInv, AnsweredSaved, LeftOK
    <2> QED BY <1>4, <1>5, <1>6, <2>1
  <1>7. CASE Fail(w, answer[r] = 504 \/ marked)
    BY <1>4, <1>5, <1>7 DEF Fail
  <1>8. CASE Fail(w, TRUE)
    BY <1>4, <1>8 DEF Fail
  <1> QED BY <1>6, <1>7, <1>8 DEF Hear

LEMMA ReadGoesOn ==
  ASSUME DetonationInv, RunnerInv, NoneDenied, [Next]_vars, OneRun, faults = 0,
         NEW w \in Workers, Read(w)
  PROVE  OneRun'
  <1>1. w \in Busy /\ Clear /\ AllDead(tried) /\ LastOK
    BY TheOneWorker DEF Read, AtStep, StageOK
  <1>2. /\ UNCHANGED <<tried, progress, home, saves, metadata, png, telemetry, handed, queue>>
        /\ faults' = 0
    BY DEF Read, scanner, evidence
  <1>3. PICK j : /\ job' = [job EXCEPT ![w] = j]
                 /\ j.at \in {"publish", "retry", "fallback"}
                 /\ j.at = "publish" => j.loaded = Len(saves)
    <2>1. CASE Fail(w, FALSE)
      <3>1. PICK step \in {"retry", "fallback"} : Goto(w, step)
        BY <2>1 DEF Fail
      <3>2. [job[w] EXCEPT !.at = step].at = step
        BY DEF DetonationInv, DetonationTypeOK
      <3> QED BY <3>1, <3>2, GoneTo
    <2>2. CASE job' = [job EXCEPT ![w].at = "publish", ![w].loaded = Len(saves)]
      <3> DEFINE i == [job[w] EXCEPT !.at = "publish", !.loaded = Len(saves)]
      <3>1. i.at = "publish" /\ i.loaded = Len(saves) /\ job' = [job EXCEPT ![w] = i]
        BY <2>2 DEF DetonationInv, DetonationTypeOK
      <3> QED BY <3>1
    <2> QED BY <2>1, <2>2 DEF Read
  <1>4. StageOK(j)
    BY <1>1, <1>3 DEF StageOK
  <1>5. StageOK(j)'
    BY <1>2, <1>4, StageStays
  <1> QED BY <1>1, <1>2, <1>3, <1>5, OneWorkerMoves

(* The steps of a worker that has a result: the metadata, the rows and the *)
(* screenshot are of the last save.                                        *)
LEMMA ResultGoesOn ==
  ASSUME DetonationInv, RunnerInv, NoneDenied, [Next]_vars, OneRun, faults = 0,
         NEW w \in Workers, Publish(w) \/ Ingest(w) \/ Place(w)
  PROVE  OneRun'
  <1>0. w \in Busy /\ AllDead(tried) /\ LastOK /\ job[w].loaded = Len(saves) /\ StageOK(job[w])
    BY TheOneWorker DEF Publish, Ingest, Place, PlaceIf, AtStep, StageOK
  <1>1. Result(w) = LastSave
    BY <1>0 DEF Result, LastSave
  <1>2. UNCHANGED <<tried, saves, handed, queue>> /\ faults' = 0
    BY DEF Publish, Ingest, Place, PlaceIf, scanner, evidence
  <1>3. AllDead(tried)'
    BY <1>0, <1>2, DeadStays DEF AllDead, DetonationInv, DetonationTypeOK
  <1>4. ASSUME NEW step, Goto(w, step)
        PROVE  \E j : j = [job[w] EXCEPT !.at = step] /\ j.at = step /\ j.loaded = Len(saves)
                      /\ job' = [job EXCEPT ![w] = j]
    BY <1>0, <1>4, GoneTo DEF DetonationInv, DetonationTypeOK
  <1>5. CASE Publish(w)
    <2>1. Clear /\ metadata' = LastSave.run /\ UNCHANGED <<home, png, telemetry>>
      BY <1>0, <1>1, <1>5 DEF Publish, AtStep, StageOK, scanner
    <2>2. PICK j : j.at = "ingest" /\ j.loaded = Len(saves) /\ job' = [job EXCEPT ![w] = j]
      BY <1>4, <1>5 DEF Publish
    <2>3. StageOK(j)'
      BY <1>0, <1>2, <1>3, <2>1, <2>2 DEF StageOK, Clear, LastOK, LastSave
    <2> QED BY <1>0, <1>2, <2>2, <2>3, OneWorkerMoves
  <1>6. CASE Ingest(w)
    <2>1. /\ Clear /\ metadata = LastSave.run /\ UNCHANGED <<home, png, metadata>>
          /\ telemetry' \in {telemetry, Append(telemetry, LastSave.run)}
      BY <1>0, <1>1, <1>6 DEF Ingest, AtStep, StageOK, scanner
    <2>2. PICK j : j.at = "place" /\ j.loaded = Len(saves) /\ job' = [job EXCEPT ![w] = j]
      BY <1>4, <1>6 DEF Ingest
    <2>3. telemetry' \in {<<>>, <<metadata'>>} /\ png' = NoRequest
      BY <2>1 DEF Clear
    <2>4. StageOK(j)'
      BY <1>0, <1>2, <1>3, <2>1, <2>2, <2>3 DEF StageOK, LastOK, LastSave
    <2> QED BY <1>0, <1>2, <2>2, <2>4, OneWorkerMoves
  <1>7. CASE Place(w)
    <2>1. /\ png = NoRequest /\ telemetry \in {<<>>, <<metadata>>} /\ metadata = LastSave.run
          /\ UNCHANGED <<metadata, telemetry>>
      BY <1>0, <1>7 DEF Place, PlaceIf, AtStep, StageOK
    <2>2. png' = png \/ png' = LastSave.run
      BY <1>0, <1>1, <1>7 DEF Place, PlaceIf, LastOK
    <2>3. PICK j : j.at = "handover" /\ job' = [job EXCEPT ![w] = j]
      BY <1>4, <1>7 DEF Place, PlaceIf
    <2>4. OneOf'
      BY <2>1, <2>2 DEF OneOf
    <2>5. StageOK(j)'
      BY <2>3, <2>4 DEF StageOK
    <2> QED BY <1>0, <1>2, <2>3, <2>5, OneWorkerMoves
  <1> QED BY <1>5, <1>6, <1>7

LEMMA EndGoesOn ==
  ASSUME DetonationInv, OneRun, faults = 0, NEW w \in Workers, WriteFallback(w) \/ HandOver(w)
  PROVE  OneRun'
  <1>0. w \in Busy /\ StageOK(job[w]) /\ queue' = queue /\ faults' = 0
    BY TheOneWorker DEF WriteFallback, HandOver, AtStep
  <1>1. CASE WriteFallback(w)
    <2>1. Clear /\ UNCHANGED <<png, telemetry, handed>> /\ metadata' = Fallback /\ Goto(w, "handover")
      BY <1>0, <1>1 DEF WriteFallback, AtStep, StageOK
    <2>2. PICK j : j.at = "handover" /\ job' = [job EXCEPT ![w] = j]
      BY <2>1, GoneTo DEF DetonationInv, DetonationTypeOK
    <2>3. StageOK(j)'
      BY <2>1, <2>2 DEF StageOK, OneOf, Clear
    <2> QED BY <1>0, <2>1, <2>2, <2>3, OneWorkerMoves
  <1>2. CASE HandOver(w)
    <2>1. OneOf /\ UNCHANGED <<png, telemetry, metadata>> /\ Goto(w, "ack")
      BY <1>0, <1>2 DEF HandOver, AtStep, StageOK
    <2>2. PICK j : j.at = "ack" /\ job' = [job EXCEPT ![w] = j]
      BY <2>1, GoneTo DEF DetonationInv, DetonationTypeOK
    <2>3. OneOf'
      BY <2>1 DEF OneOf
    <2> QED BY <1>0, <2>2, <2>3, OneWorkerMoves
  <1> QED BY <1>1, <1>2

-----------------------------------------------------------------------------
(* The steps at the ends of a chain of messages and workers.               *)

LEMMA StartGoesOn ==
  ASSUME DetonationInv, RunnerInv, NoneDenied, [Next]_vars, OneRun, faults = 0,
         NEW w \in Workers, Start(w)
  PROVE  OneRun'
  <1>1. PICK n, j :
          /\ n \in 0 .. RetryLimit /\ queue[n] > 0 /\ queue' = [queue EXCEPT ![n] = @ - 1]
          /\ j = [Idle EXCEPT !.at = "call", !.retries = n] /\ job' = [job EXCEPT ![w] = j]
    BY DEF Start
  <1>2. j.at = "call"
    BY <1>1 DEF Idle
  <1>3. UNCHANGED <<tried, progress, home, saves, metadata, png, telemetry, handed>> /\ faults' = 0
    BY DEF Start, scanner, evidence
  <1>4. OneMessage /\ OneWorker /\ ~NoQueue /\ ~handed
    BY <1>1 DEF OneRun, NoQueue, DetonationInv, DetonationTypeOK
  <1>5. Clear /\ AllDead(tried) /\ Busy = {}
    BY <1>4 DEF OneMessage
  <1>6. NoQueue'
    <2>1. ASSUME NEW m \in 0 .. RetryLimit PROVE queue'[m] = 0
      <3>1. queue \in [0 .. RetryLimit -> Nat]
        BY DEF DetonationInv, DetonationTypeOK
      <3>2. CASE m = n
        BY <1>1, <1>4, <3>1, <3>2 DEF OneMessage
      <3>3. CASE m # n
        <4>1. queue'[m] = queue[m]
          BY <1>1, <3>3, <3>1
        <4>2. ~(queue[m] > 0)
          BY <1>1, <1>4, <3>3 DEF OneMessage
        <4> QED BY <3>1, <4>1, <4>2
      <3> QED BY <3>2, <3>3
    <2> QED BY <2>1 DEF NoQueue
  <1>7. StageOK(j)'
    <2>1. StageOK(j)
      BY <1>2, <1>5 DEF StageOK
    <2> QED BY <1>3, <2>1, StageStays
  <1>8. job'[w] = j /\ \A v \in Workers \ {w} : job'[v] = job[v]
    BY <1>1 DEF DetonationInv, DetonationTypeOK
  <1>9. Busy' \subseteq {w}
    BY <1>5, <1>8 DEF Busy
  <1>10. OneWorker'
    <2>1. ASSUME NEW v \in Busy' PROVE StageOK(job[v])'
      <3>1. job'[v] = j
        BY <1>8, <1>9
      <3> QED BY <1>7, <3>1 DEF StageOK
    <2> QED BY <1>9, <2>1 DEF OneWorker
  <1>11. OneMessage'
    BY <1>6 DEF OneMessage, NoQueue
  <1> QED BY <1>3, <1>4, <1>10, <1>11 DEF OneRun

(* The next attempt is in the queue, and this one has nothing more to do.  *)
LEMMA RetryGoesOn ==
  ASSUME DetonationInv, RunnerInv, NoneDenied, [Next]_vars, OneRun, faults = 0,
         NEW w \in Workers, Retry(w)
  PROVE  OneRun'
  <1>1. w \in Busy /\ Clear /\ AllDead(tried)
    BY TheOneWorker DEF Retry, AtStep, StageOK
  <1>2. NoQueue /\ ~handed /\ \A v \in Busy : v = w
    BY <1>1 DEF OneRun, OneMessage, OneWorker
  <1>3. /\ UNCHANGED <<tried, png, telemetry, handed>> /\ faults' = 0 /\ Goto(w, "ack")
        /\ queue' = [queue EXCEPT ![job[w].retries + 1] = @ + 1]
    BY DEF Retry, scanner, evidence
  <1>4. PICK j : j.at = "ack" /\ job' = [job EXCEPT ![w] = j]
    BY <1>3, GoneTo DEF DetonationInv, DetonationTypeOK
  <1>5. job'[w] = j /\ \A v \in Workers \ {w} : job'[v] = job[v]
    BY <1>4 DEF DetonationInv, DetonationTypeOK
  <1>6. Busy' = {}
    BY <1>2, <1>4, <1>5 DEF Busy
  <1>7. AllDead(tried)' /\ Clear'
    BY <1>1, <1>3, DeadStays DEF AllDead, Clear, DetonationInv, DetonationTypeOK
  <1>8. PICK n : n = job[w].retries + 1
    OBVIOUS
  <1>9. \A m \in 0 .. RetryLimit : queue'[m] = IF m = n THEN 1 ELSE 0
    <2>1. queue \in [0 .. RetryLimit -> Nat] /\ queue' = [queue EXCEPT ![n] = @ + 1]
      BY <1>3, <1>8 DEF DetonationInv, DetonationTypeOK
    <2>2. \A m \in 0 .. RetryLimit : queue[m] = 0
      BY <1>2 DEF NoQueue
    <2> QED BY ONLY <2>1, <2>2
  <1>10. OneMessage'
    <2>1. \A m \in 0 .. RetryLimit : queue'[m] <= 1
      BY <1>9
    <2>2. \A m, k \in 0 .. RetryLimit : queue'[m] > 0 /\ queue'[k] > 0 => m = k
      BY <1>9
    <2> QED BY <1>6, <1>7, <2>1, <2>2 DEF OneMessage
  <1>11. OneWorker'
    BY <1>6 DEF OneWorker
  <1> QED BY <1>2, <1>3, <1>10, <1>11 DEF OneRun

(* A worker that acknowledges was not one of those that matter.            *)
LEMMA AckGoesOn ==
  ASSUME DetonationInv, RunnerInv, NoneDenied, [Next]_vars, OneRun, faults = 0,
         NEW w \in Workers, Ack(w)
  PROVE  OneRun'
  <1>1. job[w].at = "ack" /\ job' = [job EXCEPT ![w] = Idle] /\ Idle.at = "idle"
    BY DEF Ack, AtStep, Idle
  <1>2. /\ UNCHANGED <<tried, progress, home, saves, metadata, png, telemetry, handed, queue>>
        /\ faults' = 0
    BY DEF Ack, scanner, evidence
  <1>3. \A v \in Workers : job'[v] = IF v = w THEN Idle ELSE job[v]
    BY <1>1 DEF DetonationInv, DetonationTypeOK
  <1>4. Busy' = Busy /\ \A v \in Busy : job'[v] = job[v]
    BY <1>1, <1>3 DEF Busy
  <1> QED BY <1>2, <1>4, OthersMove

(* A new request is the one that is not dead.                              *)
LEMMA CallGoesOn ==
  ASSUME DetonationInv, RunnerInv, NoneDenied, [Next]_vars, Untried, OneRun, faults = 0,
         NEW w \in Workers, Call(w)
  PROVE  OneRun'
  <1>1. PICK r : r \in Requests \ tried /\ tried' = tried \cup {r}
                 /\ job' = [job EXCEPT ![w] = [job[w] EXCEPT !.at = "wait", !.request = r]]
    BY DEF Call, DetonationInv, DetonationTypeOK
  <1>2. PICK j : j = [job[w] EXCEPT !.at = "wait", !.request = r]
    OBVIOUS
  <1>3. j.at = "wait" /\ j.request = r /\ job' = [job EXCEPT ![w] = j]
    BY <1>1, <1>2 DEF DetonationInv, DetonationTypeOK
  <1>4. UNCHANGED <<progress, home, saves, metadata, png, telemetry, handed, queue>> /\ faults' = 0
    BY DEF Call, scanner, evidence
  <1>5. w \in Busy /\ Clear /\ AllDead(tried)
    BY TheOneWorker DEF Call, AtStep, StageOK
  <1>6. AllDead(tried \ {r})'
    <2>1. ASSUME NEW q \in tried PROVE Dead(q)'
      BY <1>5, DeadStays DEF AllDead, DetonationInv, DetonationTypeOK
    <2> QED BY <1>1, <2>1 DEF AllDead
  <1>7. LeftOK(r)'
    BY <1>1, <1>4 DEF LeftOK, Untried
  <1>8. StageOK(j)'
    BY <1>3, <1>4, <1>5, <1>6, <1>7 DEF StageOK, Clear
  <1> QED BY <1>3, <1>4, <1>5, <1>8, OneWorkerMoves

(* The scanner writes in its container: only that of the request somebody  *)
(* waits for, or of one whose scan has given up on its result.             *)
LEMMA ScannerGoesOn ==
  ASSUME DetonationInv, RunnerInv, NoneDenied, [Next]_vars, OneRun, faults = 0,
         NEW r \in Requests, Shoot(r) \/ Save(r)
  PROVE  OneRun'
  <1>1. /\ r \in tried /\ ~Dead(r) /\ faults' = 0
        /\ UNCHANGED <<stage, container, metadata, png, telemetry, handed, queue, job, tried>>
    BY DEF Shoot, Save, Scans, Up, Dead, vars, gate, docker, evidence, task
  <1>2. Busy' = Busy
    BY <1>1 DEF Busy
  <1>3. AllDead(tried) <=> AllDead(tried)'
    BY <1>1 DEF AllDead, Dead, Done
  <1>4. ~AllDead(tried)
    BY <1>1 DEF AllDead
  <1>5. LeftOK(r) => LeftOK(r)'
    <2>1. CASE Shoot(r)
      <3>1. progress'[r] \in Looks /\ (progress'[r] = "shot" => home' = r)
        BY <2>1 DEF Shoot, DetonationInv, DetonationTypeOK
      <3> QED BY <3>1 DEF Looks, LeftOK
    <2>2. CASE Save(r)
      <3>1. PICK look \in Looks : progress[r] = look /\ saves' = Append(saves, [run |-> r, look |-> look])
        BY <2>2 DEF Save, Scans
      <3>2. progress' = [progress EXCEPT ![r] = "saved"] /\ home' = home
        BY <2>2 DEF Save
      <3>3. progress'[r] = "saved"
        BY <3>2 DEF DetonationInv, DetonationTypeOK
      <3>4. /\ saves \in Seq([run : Requests, look : Looks])
            /\ [run |-> r, look |-> look] \in [run : Requests, look : Looks]
        BY DEF DetonationInv, DetonationTypeOK
      <3>5. /\ Len(saves') = Len(saves) + 1 /\ Len(saves) \in Nat
            /\ saves'[Len(saves')].run = r /\ saves'[Len(saves')].look = look
        BY <3>1, <3>4, AppendProperties
      <3> QED BY <3>1, <3>2, <3>3, <3>5 DEF LeftOK, LastOK, LastSave
    <2> QED BY <2>1, <2>2
  <1>6. ASSUME NEW w \in Busy PROVE StageOK(job[w])'
    <2>1. StageOK(job[w])
      BY DEF OneRun, OneWorker
    <2>2. job[w].at \notin {"call", "retry", "read", "publish", "ingest", "place"}
      BY <1>4, <2>1 DEF StageOK
    <2>3. CASE job[w].at = "wait"
      <3>1. AllDead(tried \ {job[w].request}) /\ LeftOK(job[w].request) /\ Clear
        BY <2>1, <2>3 DEF StageOK
      <3>2. r = job[w].request
        BY <1>1, <3>1 DEF AllDead
      <3>3. AllDead(tried \ {job[w].request})'
        BY <1>1, <3>1 DEF AllDead, Dead, Done
      <3>4. LeftOK(job[w].request)'
        <4>1. job'[w].request = r
          BY <1>1, <3>2
        <4>2. LeftOK(r)'
          BY <1>5, <3>1, <3>2
        <4> QED BY <4>1, <4>2 DEF LeftOK
      <3> QED BY <1>1, <2>3, <3>1, <3>3, <3>4 DEF StageOK, Clear
    <2>4. CASE job[w].at # "wait"
      BY <1>1, <2>1, <2>2, <2>4 DEF StageOK, Clear, OneOf
    <2> QED BY <2>3, <2>4
  <1>7. OneWorker'
    BY <1>2, <1>6 DEF OneRun, OneWorker
  <1>8. OneMessage'
    BY <1>1, <1>2, <1>3 DEF OneRun, OneMessage, NoQueue, Clear
  <1> QED BY <1>1, <1>2, <1>7, <1>8 DEF OneRun, NoQueue, OneOf

LEMMA OneRunStep ==
  DetonationInv /\ RunnerInv /\ NoneDenied /\ Untried /\ OneRun /\ [DetonationNext]_allvars
    => OneRun' /\ Untried'
  <1> SUFFICES ASSUME DetonationInv, RunnerInv, NoneDenied, Untried, OneRun,
                      [DetonationNext]_allvars
               PROVE  OneRun' /\ Untried'
    OBVIOUS
  <1>0. [Next]_vars /\ faults \in Nat
    BY StepOfRunner DEF DetonationInv, DetonationTypeOK
  <1>1. ASSUME UNCHANGED <<tried, progress, home, saves, metadata, png, telemetry, handed, queue, job, faults>>
        PROVE  OneRun'
    <2>1. Busy' = Busy /\ \A v \in Busy : job'[v] = job[v]
      BY <1>1 DEF Busy
    <2>2. CASE faults = 0
      BY <1>0, <1>1, <2>1, <2>2, OthersMove
    <2>3. CASE faults # 0
      BY <1>1, <2>3 DEF OneRun
    <2> QED BY <2>2, <2>3
  <1>2. ASSUME NEW w \in Workers, Start(w) \/ Call(w) \/ LoseCall(w) \/ Work(w) \/ Crash(w)
        PROVE  OneRun'
    <2>1. faults' = faults \/ faults' = faults + 1
      BY <1>2 DEF Start, Call, LoseCall, Fault, Work, Hear, Read, Publish, Ingest, Place, PlaceIf,
         WriteFallback, HandOver, Retry, Ack, Crash
    <2>2. CASE faults # 0
      BY <1>0, <2>1, <2>2 DEF OneRun
    <2>3. CASE faults = 0 /\ (LoseCall(w) \/ Crash(w))
      BY <2>3 DEF LoseCall, Crash, Fault, OneRun
    <2>4. CASE faults = 0 /\ (Start(w) \/ Call(w) \/ Work(w))
      BY <1>0, <2>4, StartGoesOn, CallGoesOn, HearGoesOn, ReadGoesOn, ResultGoesOn, EndGoesOn,
         RetryGoesOn, AckGoesOn DEF Work
    <2> QED BY <1>2, <2>2, <2>3, <2>4
  <1>3. ASSUME NEW r \in Requests, Shoot(r) \/ Save(r) PROVE OneRun'
    <2>1. faults' = faults
      BY <1>3 DEF Shoot, Save, Scans
    <2> QED BY <1>0, <1>3, <2>1, ScannerGoesOn DEF OneRun
  <1>4. ASSUME NEW r \in Requests, Provide(r) \/ Docker(r) PROVE OneRun'
    BY <1>1, <1>4 DEF Provide, Docker, Undisturbed, scanner, evidence, task
  <1>5. ASSUME UNCHANGED allvars PROVE OneRun'
    BY <1>1, <1>5 DEF allvars, scanner, evidence, task
  <1>6. OneRun'
    BY <1>2, <1>3, <1>4, <1>5 DEF DetonationNext
  <1>7. Untried'
    <2>1. ASSUME tried \subseteq tried', progress' = progress PROVE Untried'
      BY <2>1 DEF Untried
    <2>2. ASSUME NEW r \in Requests, Shoot(r) \/ Save(r) PROVE Untried'
      <3>1. r \in tried /\ tried' = tried /\ \A q \in Requests \ {r} : progress'[q] = progress[q]
        BY <2>2 DEF Shoot, Save, Scans, Up, task, DetonationInv, DetonationTypeOK
      <3> QED BY <3>1 DEF Untried
    <2>3. ASSUME NEW w \in Workers, Start(w) \/ Call(w) \/ LoseCall(w) \/ Work(w) \/ Crash(w)
          PROVE  Untried'
      BY <2>1, <2>3 DEF Start, Call, LoseCall, Work, Hear, Read, Publish, Ingest, Place, PlaceIf,
         WriteFallback, HandOver, Retry, Ack, Crash, scanner
    <2>4. ASSUME NEW r \in Requests, Provide(r) \/ Docker(r) PROVE Untried'
      BY <2>1, <2>4 DEF Provide, Docker, Undisturbed, scanner, task
    <2>5. CASE UNCHANGED allvars
      BY <2>1, <2>5 DEF allvars, scanner, task
    <2> QED BY <2>2, <2>3, <2>4, <2>5 DEF DetonationNext
  <1> QED BY <1>6, <1>7

LEMMA OneRunFirst == DetonationInit => OneRun /\ Untried
  <1> SUFFICES ASSUME DetonationInit PROVE OneRun /\ Untried
    OBVIOUS
  <1>1. Busy = {} /\ Clear /\ tried = {} /\ ~handed
    BY DEF DetonationInit, Busy, Idle, Clear
  <1>2. \A n \in 0 .. RetryLimit : queue[n] = IF n = 0 THEN 1 ELSE 0
    BY DEF DetonationInit
  <1>3. OneMessage
    BY <1>1, <1>2 DEF OneMessage, AllDead
  <1>4. OneWorker
    BY <1>1 DEF OneWorker
  <1>5. Untried
    BY DEF DetonationInit, Untried
  <1> QED BY <1>1, <1>3, <1>4, <1>5 DEF OneRun

(* For any number of workers, requests and retries: without a fault what   *)
(* is handed over is of one run, although containers outlive their calls   *)
(* and every run uses the same names; and each fault repeats the rows of   *)
(* telemetry once at most.                                                 *)
THEOREM EvidenceCorrect == DetonationSpec => []EvidenceOfOneRun
  <1>1. ASSUME DetonationInv, OneRun, Counted PROVE EvidenceOfOneRun
    <2>1. Cardinality(Messages) \in Nat /\ Cardinality(Live) \in Nat /\ Len(telemetry) \in Nat
          /\ faults \in Nat
      BY <1>1, FS_CardinalityType DEF Counted, DetonationInv, DetonationTypeOK
    <2>2. Len(telemetry) <= 1 + faults
      BY <1>1, <2>1 DEF Counted
    <2>3. handed /\ faults = 0 => png \in {metadata, NoRequest} /\ telemetry \in {<<>>, <<metadata>>}
      BY <1>1 DEF OneRun, OneOf
    <2> QED BY <2>2, <2>3 DEF EvidenceOfOneRun
  <1> QED
    BY <1>1, OneRunFirst, OneRunStep, CountedFirst, CountedStep, DetonationInvHolds,
       RunnerInvHolds, NoneDeniedHolds, PTL
       DEF DetonationSpec
=============================================================================
