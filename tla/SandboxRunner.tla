---------------------------- MODULE SandboxRunner ----------------------------
(***************************************************************************)
(* The detonation service (services/sandbox_runner_svc.py, POST /detonate) *)
(* behind its admission gate: a request that is admitted runs the docker   *)
(* command, which has the Docker daemon run a container of the sandbox     *)
(* image, and waits for the command to end, for a limited time.  One that  *)
(* takes too long is killed: the command, not the container.               *)
(***************************************************************************)
EXTENDS AdmissionGate

VARIABLES
  cli,        \* the docker command of each request
  container,  \* its container, which belongs to the Docker daemon
  answer      \* the HTTP status it was answered with, 0 for none

docker == <<cli, container>>
vars   == <<gate, docker, answer>>

Reply(r, code) == answer' = [answer EXCEPT ![r] = code]

-----------------------------------------------------------------------------
(* Before and at the gate.                                                 *)

Unauthorized(r) ==
  /\ stage[r] = "away" /\ answer[r] = 0
  /\ Reply(r, 401)
  /\ UNCHANGED <<gate, docker>>

Arrive(r) ==
  /\ answer[r] = 0
  /\ Check(r)
  /\ IF Locked THEN Reply(r, 429) ELSE UNCHANGED answer
  /\ UNCHANGED docker

PassGate(r) == (Acquire(r) \/ Resume(r)) /\ UNCHANGED <<docker, answer>>

TooManyRequests(r) == GiveUp(r) /\ Reply(r, 429) /\ UNCHANGED docker

-----------------------------------------------------------------------------
(* Inside.  Whatever is raised, the finally clause releases the permit.    *)

Finish(r, code) == Release(r) /\ Reply(r, code)

(* The scan id is no UUID, or the URL is not http.                         *)
Invalid(r) ==
  /\ stage[r] = "admitted" /\ cli[r] = "none"
  /\ Finish(r, 400)
  /\ UNCHANGED docker

Launch(r) ==
  /\ stage[r] = "admitted" /\ cli[r] = "none"
  /\ cli' = [cli EXCEPT ![r] = "running"]
  /\ UNCHANGED <<gate, container, answer>>

(* create_subprocess_exec raises.                                          *)
LaunchFails(r) ==
  /\ stage[r] = "admitted" /\ cli[r] = "none"
  /\ Finish(r, 500)
  /\ UNCHANGED docker

(* communicate() takes longer than timeout_sec: proc.kill().  A command    *)
(* that has just ended is past killing, and the answer is the same.        *)
TimeOut(r) ==
  /\ cli[r] \in {"running", "ended"} /\ stage[r] = "admitted"
  /\ cli' = [cli EXCEPT ![r] = "killed"]
  /\ UNCHANGED <<gate, container, answer>>

(* Mutant: the service waits for the container as well.                    *)
PatientReap(r) ==
  /\ cli[r] = "killed" /\ stage[r] = "admitted"
  /\ container[r] # "up"
  /\ Finish(r, 504)
  /\ UNCHANGED docker

(* proc.wait() returns.                                                    *)
Reap(r) ==
  /\ cli[r] = "killed" /\ stage[r] = "admitted"
  /\ Finish(r, 504)
  /\ UNCHANGED docker

(* The exit code is 0 only if there was a container.                       *)
Report(r) ==
  /\ cli[r] = "ended" /\ stage[r] = "admitted"
  /\ \/ container[r] = "gone" /\ Finish(r, 200)
     \/ Finish(r, 500)
  /\ UNCHANGED docker

-----------------------------------------------------------------------------
(* docker run --rm, and the daemon.                                        *)

ContainerStarts(r) ==
  /\ cli[r] = "running" /\ container[r] = "none"
  /\ container' = [container EXCEPT ![r] = "up"]
  /\ UNCHANGED <<gate, cli, answer>>

ContainerEnds(r) ==
  /\ container[r] = "up"
  /\ container' = [container EXCEPT ![r] = "gone"]
  /\ UNCHANGED <<gate, cli, answer>>

(* Mutant: docker run -d.                                                  *)
DetachedCliEnds(r) ==
  /\ cli[r] = "running" /\ container[r] # "none"
  /\ cli' = [cli EXCEPT ![r] = "ended"]
  /\ UNCHANGED <<gate, container, answer>>

(* The command follows its container, or fails to have one.                *)
CliEnds(r) ==
  /\ cli[r] = "running" /\ container[r] # "up"
  /\ cli' = [cli EXCEPT ![r] = "ended"]
  /\ UNCHANGED <<gate, container, answer>>

-----------------------------------------------------------------------------
Init == /\ GateInit
        /\ cli = [r \in Requests |-> "none"]
        /\ container = [r \in Requests |-> "none"]
        /\ answer = [r \in Requests |-> 0]

Detonate(r) == Invalid(r) \/ Launch(r) \/ LaunchFails(r) \/ TimeOut(r) \/ Reap(r) \/ Report(r)

Serve(r) == PassGate(r) \/ TooManyRequests(r) \/ Detonate(r)

Next == \E r \in Requests :
          \/ Unauthorized(r) \/ Arrive(r) \/ Serve(r)
          \/ ContainerStarts(r) \/ ContainerEnds(r) \/ CliEnds(r)

Spec == Init /\ [][Next]_vars

-----------------------------------------------------------------------------
(* Properties.                                                             *)

(* Every variable has its type, and a request is answered when, and only   *)
(* when, the gate is done with it.                                         *)
TypeOK ==
  /\ GateTypeOK
  /\ cli \in [Requests -> {"none", "running", "ended", "killed"}]
  /\ container \in [Requests -> {"none", "up", "gone"}]
  /\ answer \in [Requests -> {0, 200, 400, 401, 429, 500, 504}]
  /\ \A r \in Requests : stage[r] \in {"left", "rejected"} <=> answer[r] \notin {0, 401}

(* No branch of the handler touches the semaphore but as the gate does.    *)
KeepsTheGate == GateSpec

(* A docker command runs only while its request holds a permit, so there   *)
(* are at most Limit of them (PermitsConserved).                           *)
CommandsHoldPermits ==
  \A r \in Requests : cli[r] = "running" => stage[r] = "admitted"

Running == {r \in Requests : container[r] = "up"}

(* Leaving out the containers of requests that were answered 504, there    *)
(* are at most Limit containers: only a time-out lets one outlive its      *)
(* permit.                                                                 *)
OnlyTimeOutsOverflow == Cardinality({r \in Running : answer[r] # 504}) <= Limit
=============================================================================
