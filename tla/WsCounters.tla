----------------------------- MODULE WsCounters -----------------------------
(***************************************************************************)
(* The dashboard sockets of one user and the Redis counter that limits     *)
(* them (websocket/websocket_manager.py).  Several API processes accept    *)
(* sockets; each keeps its own in a set, reports the size of the set under *)
(* a key of its own and, in a heartbeat, writes the sum of all the keys    *)
(* over the counter.  Every await of a Redis command ends an action.       *)
(***************************************************************************)
EXTENDS Integers, FiniteSets

CONSTANTS
  Clients,      \* dashboard sockets, all of one user; each connects once
  NoSet,        \* stands for no set of sockets
  Processes,    \* the uvicorn workers
  Limit,        \* MAX_WEBSOCKET_CONNECTIONS_PER_USER
  FaultKinds,   \* the kinds of fault that may happen
  MaxFaults     \* bound on the number of faults of a behaviour

(* "crash": a process dies.  "redis": a Redis command raises.              *)
AllFaults == {"crash", "redis"}

ASSUME ConstantsAssumption ==
  /\ IsFiniteSet(Clients) /\ NoSet \notin Clients
  /\ IsFiniteSet(Processes)
  /\ Limit \in Nat
  /\ FaultKinds \subseteq AllFaults
  /\ MaxFaults \in Nat

VARIABLES
  cnt,        \* ws_cnt:<user>, 0 when there is no such key
  keys,       \* ws_worker:<user>:<process>, 0 when there is no such key
  entry,      \* user_connections[<user>] of each process: a set, by the name
              \* of the client whose connect_user made it, or NoSet
  up,         \* the processes that run
  pc,         \* where the handler of each client is
  proc,       \* the process that serves each client
  home,       \* user_socks of connect_user: the set each socket is added to
  num,        \* the count a handler got or took and has yet to use
  beat,       \* the heartbeat of each process
  faults,     \* number of faults so far
  calm,       \* heartbeats begun with every key right, and since then no
              \* handler ran, no key changed and nothing failed
  undercut    \* whether the counter was ever written below what it counts

redis   == <<cnt, keys, undercut>>
clients == <<pc, proc, home, num>>
vars    == <<redis, entry, up, clients, beat, faults, calm>>

(* A socket is dead when its handler has ended without disconnect_user.    *)
PCs      == {"away", "incr", "expire", "refuse", "report", "open",
             "unreport", "decr", "delete", "dead", "gone"}
BeatPCs  == {"sleep", "refresh", "scan", "rescan", "read", "write"}
Asleep   == [at |-> "sleep", len |-> 0, toread |-> {}, total |-> 0]

At(labels) == {c \in Clients : pc[c] \in labels}
Open       == At({"report", "open"})                        \* accepted sockets
Connected  == At({"report", "open", "dead"})
                                \* admitted, and not seen by disconnect_user
Units      == At({"expire", "refuse", "report", "open", "unreport", "decr"})
                                          \* increments not yet taken back

(* What a set holds, and its size.                                         *)
Members(s) == {c \in Connected : home[c] = s}
Len(s)     == IF s = NoSet THEN 0 ELSE Cardinality(Members(s))

Orphans    == {c \in Connected : home[c] # entry[proc[c]]}

(* Nothing is under way and each key says how many sockets its process has *)
Settled ==
  /\ At({"away", "open", "dead", "gone"}) = Clients
  /\ Orphans = {}
  /\ \A p \in Processes : keys[p] = Len(entry[p])

Init ==
  /\ cnt = 0 /\ keys = [p \in Processes |-> 0] /\ undercut = FALSE
  /\ entry = [p \in Processes |-> NoSet]
  /\ up = Processes
  /\ pc = [c \in Clients |-> "away"]
  /\ proc \in [Clients -> Processes]
  /\ home = [c \in Clients |-> NoSet]
  /\ num = [c \in Clients |-> 0]
  /\ beat = [p \in Processes |-> Asleep]
  /\ faults = 0
  /\ calm = {}

-----------------------------------------------------------------------------
Take(c, n)     == num' = [num EXCEPT ![c] = n]
Goto(c, label) == pc' = [pc EXCEPT ![c] = label]
Wake(p, b)     == beat' = [beat EXCEPT ![p] = b]
Disturb        == calm' = {}
Fault(k)       == k \in FaultKinds /\ faults < MaxFaults /\ faults' = faults + 1

(* SET or DEL of the counter.                                              *)
Overwrite(n) ==
  /\ cnt' = n
  /\ undercut' = (undercut \/ n < Cardinality(Units))

Serves(c) == proc[c] \in up /\ Disturb /\ UNCHANGED <<up, beat, proc>>

-----------------------------------------------------------------------------
(* connect_user.                                                           *)

(* user_connections.setdefault(user_id, set()).                            *)
Enter(c) ==
  /\ pc[c] = "away" /\ Serves(c) /\ Goto(c, "incr")
  /\ LET s == IF entry[proc[c]] = NoSet THEN c ELSE entry[proc[c]]
     IN  /\ entry' = [entry EXCEPT ![proc[c]] = s]
         /\ home' = [home EXCEPT ![c] = s]
  /\ UNCHANGED <<redis, num, faults>>

(* An error closes the socket.                                             *)
Incr(c) ==
  /\ pc[c] = "incr" /\ Serves(c)
  /\ \/ /\ cnt' = cnt + 1
        /\ Take(c, cnt + 1) /\ Goto(c, "expire") /\ UNCHANGED faults
     \/ Fault("redis") /\ Goto(c, "gone") /\ UNCHANGED <<cnt, num>>
  /\ UNCHANGED <<keys, undercut, entry, home>>

(* The socket joins the set found before the two awaits.  An error of      *)
(* EXPIRE closes it and leaves the increment behind.                       *)
AdmitUpTo(c, limit) ==
  /\ pc[c] = "expire" /\ Serves(c)
  /\ \/ num[c] > limit /\ Goto(c, "refuse") /\ Take(c, 0) /\ UNCHANGED faults
     \/ /\ num[c] <= limit /\ Goto(c, "report") /\ UNCHANGED faults
        /\ Take(c, Cardinality(Members(home[c])) + 1)
     \/ Fault("redis") /\ Goto(c, "gone") /\ Take(c, 0)
  /\ UNCHANGED <<redis, entry, home>>

(* Mutant: one connection too many.                                        *)
LaxAdmit(c) == AdmitUpTo(c, Limit + 1)

Admit(c) == AdmitUpTo(c, Limit)

(* DECR.                                                                   *)
TakeBack(c, next) ==
  /\ pc[c] = "refuse" /\ Serves(c) /\ Goto(c, next)
  /\ \/ cnt' = cnt - 1 /\ UNCHANGED faults
     \/ Fault("redis") /\ UNCHANGED cnt
  /\ UNCHANGED <<keys, undercut, entry, home, num>>

(* The socket is closed, and ws_user returns.                              *)
Refuse(c) == TakeBack(c, "gone")

(* _update_worker_count: SET of a positive count, DEL otherwise.  An error *)
(* is swallowed.                                                           *)
UpdateWorkerCount(p, n) ==
  \/ keys' = [keys EXCEPT ![p] = n] /\ UNCHANGED faults
  \/ Fault("redis") /\ UNCHANGED keys

(* Afterwards the listener of the socket starts (VerdictPush).             *)
Report(c) ==
  /\ pc[c] = "report" /\ Serves(c) /\ Goto(c, "open")
  /\ UpdateWorkerCount(proc[c], num[c]) /\ Take(c, 0)
  /\ UNCHANGED <<cnt, undercut, entry, home>>

-----------------------------------------------------------------------------
(* disconnect_user, when the browser goes or the listener has timed out    *)
(* and closed the socket.                                                  *)

(* The count taken is that of the registered set, which need not be the    *)
(* set the socket is in; the last socket of it takes the entry away.       *)
Leave(c) ==
  LET p    == proc[c]
      rest == Members(entry[p]) \ {c}
  IN  /\ pc[c] = "open" /\ Serves(c) /\ Goto(c, "unreport")
      /\ Take(c, IF entry[p] = NoSet THEN 0 ELSE Cardinality(rest))
      /\ entry' = [entry EXCEPT ![p] = IF Len(entry[p]) > 0 /\ rest = {} THEN NoSet ELSE @]
      /\ UNCHANGED <<redis, home, faults>>

Unreport(c) ==
  /\ pc[c] = "unreport" /\ Serves(c) /\ Goto(c, "decr")
  /\ UpdateWorkerCount(proc[c], num[c]) /\ Take(c, 0)
  /\ UNCHANGED <<cnt, undercut, entry, home>>

(* An error is swallowed and leaves the increment behind.                  *)
Decr(c) ==
  /\ pc[c] = "decr" /\ Serves(c)
  /\ \/ /\ cnt' = cnt - 1
        /\ Goto(c, IF cnt - 1 <= 0 THEN "delete" ELSE "gone") /\ UNCHANGED faults
     \/ Fault("redis") /\ Goto(c, "gone") /\ UNCHANGED cnt
  /\ UNCHANGED <<keys, undercut, entry, home, num>>

(* DEL, whatever has been counted since the DECR.                          *)
Delete(c) ==
  /\ pc[c] = "delete" /\ Serves(c) /\ Goto(c, "gone")
  /\ \/ Overwrite(0) /\ UNCHANGED faults
     \/ Fault("redis") /\ UNCHANGED <<cnt, undercut>>
  /\ UNCHANGED <<keys, entry, home, num>>

(* ws_user catches nothing but WebSocketDisconnect: receive_text raises    *)
(* another error for a frame that is no text, or for one that comes after  *)
(* the listener has closed the socket.                                     *)
Break(c) ==
  /\ pc[c] = "open" /\ Serves(c) /\ Goto(c, "dead")
  /\ UNCHANGED <<redis, entry, home, num, faults>>

-----------------------------------------------------------------------------
(* reconcile_counters, every 300 s.                                        *)

Beats(p, label) == p \in up /\ beat[p].at = label /\ UNCHANGED <<entry, up, clients>>

(* A Redis error in the body ends the heartbeat.                           *)
BeatFails(p) == Fault("redis") /\ Disturb /\ Wake(p, Asleep)

(* A process that has the user counts its set.                             *)
StartBeat(p) ==
  /\ Beats(p, "sleep")
  /\ LET known == entry[p] # NoSet
     IN  Wake(p, [Asleep EXCEPT !.at  = IF known THEN "refresh" ELSE "scan",
                                !.len = IF known THEN Len(entry[p]) ELSE 0])
  /\ calm' = IF Settled THEN calm \cup {p} ELSE calm
  /\ UNCHANGED <<redis, faults>>

Refresh(p) ==
  /\ Beats(p, "refresh") /\ Wake(p, [Asleep EXCEPT !.at = "scan"])
  /\ UpdateWorkerCount(p, beat[p].len)
  /\ calm' = IF <<keys, faults>>' = <<keys, faults>> THEN calm ELSE {}
  /\ UNCHANGED <<cnt, undercut>>

Reported == {q \in Processes : keys[q] > 0}

(* Mutant: a process looks for its own key only.                           *)
OwnScan(p) ==
  /\ Beats(p, "scan")
  /\ Wake(p, [Asleep EXCEPT !.at = IF keys[p] > 0 THEN "read" ELSE "sleep",
                            !.toread = Reported \cap {p}])
  /\ UNCHANGED <<redis, faults, calm>>

(* A user with no key and no registered set is not looked at; a user with  *)
(* a set and no key is scanned for again.                                  *)
Scan(p) ==
  /\ Beats(p, "scan")
  /\ \/ /\ Wake(p, [Asleep EXCEPT !.toread = Reported,
                                  !.at = IF Reported # {} THEN "read"
                                         ELSE IF entry[p] # NoSet THEN "rescan" ELSE "sleep"])
        /\ UNCHANGED <<faults, calm>>
     \/ BeatFails(p)
  /\ UNCHANGED redis

Rescan(p) ==
  /\ Beats(p, "rescan")
  /\ \/ /\ Wake(p, [Asleep EXCEPT !.toread = Reported,
                                  !.at = IF Reported # {} THEN "read" ELSE "write"])
        /\ UNCHANGED <<faults, calm>>
     \/ BeatFails(p)
  /\ UNCHANGED redis

(* The GETs run together; one that fails counts for nothing.               *)
Read(p, q) ==
  /\ Beats(p, "read") /\ q \in beat[p].toread
  /\ LET rest     == beat[p].toread \ {q}
         Add(n)   == Wake(p, [beat[p] EXCEPT !.at = IF rest = {} THEN "write" ELSE "read",
                                             !.toread = rest, !.total = @ + n])
     IN  \/ Add(keys[q]) /\ UNCHANGED <<faults, calm>>
         \/ Fault("redis") /\ Disturb /\ Add(0)
  /\ UNCHANGED redis

(* SET of a positive total, DEL otherwise.                                 *)
Wrote(p, n) ==
  /\ Beats(p, "write")
  /\ \/ Overwrite(n) /\ Wake(p, Asleep) /\ UNCHANGED <<faults, calm>>
     \/ BeatFails(p) /\ UNCHANGED <<cnt, undercut>>
  /\ UNCHANGED keys


Write(p) == Wrote(p, beat[p].total)

-----------------------------------------------------------------------------
(* A process dies with its sockets; its key stays until it expires.        *)
Crash(p) ==
  /\ p \in up /\ Fault("crash") /\ Disturb
  /\ up' = up \ {p}
  /\ pc' = [c \in Clients |-> IF proc[c] = p THEN "gone" ELSE pc[c]]
  /\ num' = [c \in Clients |-> IF proc[c] = p THEN 0 ELSE num[c]]
  /\ entry' = [entry EXCEPT ![p] = NoSet]
  /\ Wake(p, Asleep)
  /\ UNCHANGED <<redis, proc, home>>

(* 600 s without a SET: no heartbeat of the process writes a count.        *)
KeyExpires(p) ==
  /\ keys[p] > 0 /\ Len(entry[p]) = 0
  /\ keys' = [keys EXCEPT ![p] = 0]
  /\ Disturb
  /\ UNCHANGED <<cnt, undercut, entry, up, clients, beat, faults>>

(* 24 h without a connection or a heartbeat that counts one; a socket is   *)
(* closed after one hour.                                                  *)
CountExpires ==
  /\ cnt # 0 /\ Units = {} /\ \A p \in Processes : Len(entry[p]) = 0
  /\ cnt' = 0
  /\ UNCHANGED <<keys, undercut, entry, up, clients, beat, faults, calm>>

Handle(c) == \/ Incr(c) \/ Admit(c) \/ Refuse(c) \/ Report(c)
             \/ Unreport(c) \/ Decr(c) \/ Delete(c)

Heartbeat(p) == \/ StartBeat(p) \/ Refresh(p) \/ Scan(p) \/ Rescan(p)
                \/ (\E q \in Processes : Read(p, q)) \/ Write(p)

Next ==
  \/ \E c \in Clients : Enter(c) \/ Handle(c) \/ Leave(c) \/ Break(c)
  \/ \E p \in Processes : Heartbeat(p) \/ Crash(p) \/ KeyExpires(p)
  \/ CountExpires

Spec == Init /\ [][Next]_vars

(* The event loop runs every handler and every heartbeat, and Redis        *)
(* expires keys.  Nobody need connect or leave, and no handler need break. *)
FairSpec ==
  /\ Spec
  /\ \A c \in Clients : WF_vars(Handle(c))
  /\ \A p \in Processes : WF_vars(Heartbeat(p)) /\ WF_vars(KeyExpires(p))
  /\ WF_vars(CountExpires)

-----------------------------------------------------------------------------
(* The values of the variables; the counter is below zero only when it has *)
(* been undercut.                                                          *)
TypeOK ==
  /\ cnt \in IF undercut THEN Int ELSE Nat
  /\ keys \in [Processes -> Nat]
  /\ undercut \in BOOLEAN
  /\ entry \in [Processes -> Clients \cup {NoSet}]
  /\ up \subseteq Processes /\ calm \subseteq Processes
  /\ pc \in [Clients -> PCs]
  /\ proc \in [Clients -> Processes]
  /\ home \in [Clients -> Clients \cup {NoSet}]
  /\ num \in [Clients -> Int]
  /\ beat \in [Processes -> [at : BeatPCs, len : Nat, toread : SUBSET Processes, total : Nat]]
  /\ faults \in Nat

(* The limit of connect_user: while no SET or DEL has put the counter      *)
(* below the sockets it stands for, whatever handlers, processes and Redis *)
(* did, no more than Limit sockets of the user are open at a time.         *)
LimitHeld == ~undercut => Cardinality(Open) <= Limit

(* A heartbeat that found every key right, and saw no handler run, no key  *)
(* change and nothing fail until its SET, leaves the counter at the number *)
(* of the sockets in the sets, dead ones included: only a race or a fault  *)
(* makes it undercut.                                                      *)
CalmBeatsAreExact ==
  [][\A p \in calm : beat[p].at = "write" /\ beat'[p].at = "sleep" /\ p \in calm'
       => cnt' = Cardinality(Connected)]_vars


(* What the docstring of reconcile_counters says of its step 2, that the   *)
(* counter is set to the authoritative sum over all the workers: the open  *)
(* sockets, where every handler ends with disconnect_user.                 *)
SumIsAuthoritative == [](At({"dead"}) = {}) => <>[](cnt = Cardinality(Open))
=============================================================================
