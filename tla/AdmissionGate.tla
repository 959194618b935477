---------------------------- MODULE AdmissionGate ----------------------------
(***************************************************************************)
(* The admission gate that the detonation service                          *)
(* (services/sandbox_runner_svc.py, detonate) and the egress proxy of the  *)
(* sandbox (sandbox/backend/egress_proxy.py, _handle_client) share: turn   *)
(* the request away if the semaphore is locked, otherwise give it one      *)
(* millisecond to acquire it, and release it when the request is done.     *)
(*                                                                         *)
(* One event loop serves all requests; an await is the end of an action.   *)
(* asyncio.wait_for runs the acquisition as a task of its own, so several  *)
(* requests may find the semaphore unlocked before the first takes it.     *)
(* The loop runs a new task before any timer that has expired meanwhile:   *)
(* only a request that waits can be timed out.  asyncio.Semaphore wakes    *)
(* its waiters in order; here, any of them.                                *)
(***************************************************************************)
EXTENDS Naturals, FiniteSets

CONSTANTS
  Requests,   \* requests to the service, or connections to the proxy
  Limit       \* MAX_CONCURRENT_DETONATIONS, or _MAX_CONCURRENT_TUNNELS

ASSUME GateAssumption ==
  /\ IsFiniteSet(Requests)
  /\ Limit \in Nat \ {0}

VARIABLES
  free,       \* Semaphore._value
  stage       \* how far each request is with the gate

gate == <<free, stage>>

At(s) == {r \in Requests : stage[r] = s}

(* Semaphore.locked: nothing is free, or somebody is queueing -- also one  *)
(* who has been woken and has not run yet.                                 *)
Locked == free = 0 \/ At("waiting") # {} \/ At("granted") # {}

(* Semaphore._wake_up_next, once _value is f and the stages are s.         *)
WakeNext(f, s) ==
  IF \E w \in Requests : s[w] = "waiting"
  THEN \E w \in Requests : /\ s[w] = "waiting"
                           /\ stage' = [s EXCEPT ![w] = "granted"]
                           /\ free' = f - 1
  ELSE stage' = s /\ free' = f

-----------------------------------------------------------------------------
Check(r) ==
  /\ stage[r] = "away"
  /\ stage' = [stage EXCEPT ![r] = IF Locked THEN "rejected" ELSE "acquiring"]
  /\ UNCHANGED free

(* Mutant: the semaphore is not looked at again.                           *)
TrustingAcquire(r) ==
  /\ stage[r] = "acquiring"
  /\ stage' = [stage EXCEPT ![r] = "admitted"]
  /\ free' = IF free = 0 THEN 0 ELSE free - 1

(* The task of sem.acquire() runs.                                         *)
Acquire(r) ==
  /\ stage[r] = "acquiring"
  /\ IF Locked
     THEN stage' = [stage EXCEPT ![r] = "waiting"] /\ UNCHANGED free
     ELSE stage' = [stage EXCEPT ![r] = "admitted"] /\ free' = free - 1

(* A waiter that was woken runs; it wakes the next if it can.              *)
Resume(r) ==
  /\ stage[r] = "granted"
  /\ LET s == [stage EXCEPT ![r] = "admitted"]
     IN  IF free > 0 THEN WakeNext(free, s) ELSE stage' = s /\ UNCHANGED free

(* wait_for times out and cancels the task.  One that was woken meanwhile  *)
(* hands its permit on.                                                    *)
GiveUp(r) ==
  LET s == [stage EXCEPT ![r] = "rejected"] IN
  \/ stage[r] = "waiting" /\ stage' = s /\ UNCHANGED free
  \/ stage[r] = "granted" /\ WakeNext(free + 1, s)

(* Mutant: the permit is returned without a call of Semaphore.release.     *)
QuietRelease(r) ==
  /\ stage[r] = "admitted"
  /\ stage' = [stage EXCEPT ![r] = "left"]
  /\ free' = free + 1

(* The finally clause.                                                     *)
Release(r) ==
  /\ stage[r] = "admitted"
  /\ WakeNext(free + 1, [stage EXCEPT ![r] = "left"])

-----------------------------------------------------------------------------
GateInit == free = Limit /\ stage = [r \in Requests |-> "away"]

(* What the loop does for r up to its admission.                           *)
Admit(r) == Acquire(r) \/ Resume(r) \/ GiveUp(r)

GateNext == \E r \in Requests : Check(r) \/ Admit(r) \/ Release(r)

(* The proxy: a connection is served for as long as it takes.              *)
GateSpec == GateInit /\ [][GateNext]_gate

-----------------------------------------------------------------------------
(* Properties.                                                             *)

Stages == {"away", "acquiring", "waiting", "granted", "admitted", "left", "rejected"}

(* The semaphore's value is within its bounds.                             *)
GateTypeOK == free \in 0 .. Limit /\ stage \in [Requests -> Stages]

(* A permit is free, on its way to a waiter, or held: none is lost or      *)
(* made when a time-out and a release meet.                                *)
PermitsConserved == free + Cardinality(At("granted") \cup At("admitted")) = Limit

(* Nobody waits while a permit is free and nobody is about to pass it on.  *)
NoWaiterStranded == At("waiting") # {} /\ free > 0 => At("granted") # {}

(* The gate is a pool of Limit places.                                     *)
Pool == INSTANCE BoundedPool WITH
          inside <- At("admitted"), gone <- At("left") \cup At("rejected")
PoolSpec == Pool!Spec
=============================================================================
