------------------------------ MODULE EgressProxy ------------------------------
(***************************************************************************)
(* The requests of a page under scan, from the check of the browser        *)
(* context's route handler (phishing_sandbox_scan.py) through the egress   *)
(* proxy of the same process (egress_proxy.py): its connection limit is    *)
(* AdmissionGate's, its addresses come from DnsCache.  A redirect or a     *)
(* WebSocket reaches the proxy without that check.                         *)
(*                                                                         *)
(* The browser may close its end of a connection at any time; a server     *)
(* may send its end of the stream and stay, or go.  Either may stop        *)
(* reading: what a pipe has written stays unsent, and drain() waits when   *)
(* it is too much.  A connection that is closed with bytes unsent stays    *)
(* until its peer has read them or goes; nobody waits for that.  Nothing   *)
(* is chained: the scanner starts the proxy without an upstream.           *)
(***************************************************************************)
EXTENDS AdmissionGate, DnsCache

CONSTANTS
  MaxStalls     \* bound on how often a pipe leaves bytes unsent

ASSUME ProxyAssumption ==
  /\ Callers = Requests
  /\ MaxStalls \in Nat

VARIABLES
  target,       \* the name each request is for
  conn,         \* where the handler of each request is
  client,       \* the browser's end of the connection
  server,       \* the server's end
  up,           \* what the pipe to the server has left unsent
  down,         \* what the pipe to the browser has left unsent
  stalls,       \* how often a pipe has left bytes unsent
  trusted,      \* requests the route handler let pass
  abandoned     \* connections to servers that no handler closes

(* A pipe goes on with "some" bytes unsent, waits in drain() when its      *)
(* buffer is "full", and has left them behind when its end is "closing".   *)
pipes == <<up, down, stalls>>
relay == <<conn, client, server, pipes>>
connections == <<target, gate, cached, relay, trusted, abandoned>>

Rivals(r) == {q \in asking \ {r} : target[q] = target[r]}

-----------------------------------------------------------------------------
(* _ssrf_guard_route.                                                      *)

Routed(r, ips) ==
  /\ conn' = [conn EXCEPT ![r] = IF TargetAllowed(ips) THEN "sent" ELSE "aborted"]
  /\ trusted' = IF TargetAllowed(ips) THEN trusted \cup {r} ELSE trusted
  /\ UNCHANGED <<gate, client, server, pipes, abandoned>>

RouteHit(r) ==
  /\ conn[r] = "new"
  /\ Hit(target[r])
  /\ Routed(r, Entry(target[r]).ips)

RouteMiss(r) ==
  /\ conn[r] = "new"
  /\ Miss(r, target[r])
  /\ conn' = [conn EXCEPT ![r] = "routing"]
  /\ UNCHANGED <<gate, client, server, pipes, trusted, abandoned>>

RouteAnswer(r) ==
  /\ conn[r] = "routing"
  /\ \E ips \in Answers : /\ Store(r, target[r], ips, Rivals(r))
                          /\ Routed(r, ips)

(* A redirect, a WebSocket, or a connection that Chromium opens in advance *)
(* and never uses.                                                         *)
Bypass(r) ==
  /\ conn[r] = "new"
  /\ conn' = [conn EXCEPT ![r] = "sent"]
  /\ UNCHANGED <<gate, cached, client, server, pipes, trusted, abandoned>>

-----------------------------------------------------------------------------
(* _handle_client, up to the request.                                      *)

Accept(r) == /\ conn[r] = "sent"
             /\ Check(r)
             /\ UNCHANGED <<cached, relay, trusted, abandoned>>

PassGate(r) == Admit(r) /\ UNCHANGED <<cached, relay, trusted, abandoned>>

(* The handler goes on with the address it has validated, or answers 403.  *)
Resolved(r, ips) ==
  /\ conn' = [conn EXCEPT ![r] = IF Validated(ips) THEN "dialling" ELSE "refused"]
  /\ UNCHANGED <<gate, client, server, pipes, trusted, abandoned>>

LookUpHit(r) ==
  /\ stage[r] = "admitted" /\ conn[r] = "sent"
  /\ Hit(target[r])
  /\ Resolved(r, Entry(target[r]).ips)

LookUpMiss(r) ==
  /\ stage[r] = "admitted" /\ conn[r] = "sent"
  /\ Miss(r, target[r])
  /\ conn' = [conn EXCEPT ![r] = "resolving"]
  /\ UNCHANGED <<gate, client, server, pipes, trusted, abandoned>>

LookUpAnswer(r) ==
  /\ conn[r] = "resolving"
  /\ \E ips \in Answers : /\ Store(r, target[r], ips, Rivals(r))
                          /\ Resolved(r, ips)

(* The browser connects and goes without a request.                        *)
NoRequest(r) ==
  /\ stage[r] = "admitted" /\ conn[r] = "sent" /\ client[r] = "gone"
  /\ conn' = [conn EXCEPT ![r] = "closing"]
  /\ UNCHANGED <<gate, cached, client, server, pipes, trusted, abandoned>>

-----------------------------------------------------------------------------
(* _handle_connect and _handle_plain_http, from open_connection on.        *)

Dial(r) ==
  /\ conn[r] = "dialling"
  /\ \/ /\ conn' = [conn EXCEPT ![r] = "opened"]
        /\ server' = [server EXCEPT ![r] = "open"]
     \/ /\ conn' = [conn EXCEPT ![r] = "closing"]
        /\ UNCHANGED server
  /\ UNCHANGED <<gate, cached, client, pipes, trusted, abandoned>>

(* The first write goes through: the tunnel's reply, or the request line.  *)
Splice(r) ==
  /\ conn[r] = "opened"
  /\ conn' = [conn EXCEPT ![r] = "relaying"]
  /\ UNCHANGED <<gate, cached, client, server, pipes, trusted, abandoned>>

(* Its drain() raises: the handler ends and leaves the server's connection.*)
SpliceFails(r) ==
  /\ conn[r] = "opened"
  /\ client[r] = "gone" \/ server[r] = "gone"
  /\ conn' = [conn EXCEPT ![r] = "closing"]
  /\ abandoned' = IF server[r] = "gone" THEN abandoned ELSE abandoned \cup {r}
  /\ UNCHANGED <<gate, cached, client, server, pipes, trusted>>

(* A pipe has ended when it has called close().                            *)
UpDone(r)   == server[r] = "closed" \/ up[r] = "closing"
DownDone(r) == client[r] = "closed" \/ down[r] = "closing"

(* writer.close(): the connection goes at once if there is nothing left to *)
(* send, or nobody to send it to.                                          *)
CloseServer(r) ==
  IF up[r] = "none" \/ server[r] = "gone"
  THEN server' = [server EXCEPT ![r] = "closed"] /\ up' = [up EXCEPT ![r] = "none"]
  ELSE up' = [up EXCEPT ![r] = "closing"] /\ UNCHANGED server

CloseClient(r) ==
  IF down[r] = "none" \/ client[r] = "gone"
  THEN client' = [client EXCEPT ![r] = "closed"] /\ down' = [down EXCEPT ![r] = "none"]
  ELSE down' = [down EXCEPT ![r] = "closing"] /\ UNCHANGED client

UpStops(r) ==
  /\ conn[r] = "relaying" /\ ~UpDone(r)
  /\ CloseServer(r)
  /\ UNCHANGED <<gate, cached, conn, client, down, stalls, trusted, abandoned>>

DownStops(r) ==
  /\ conn[r] = "relaying" /\ ~DownDone(r)
  /\ CloseClient(r)
  /\ UNCHANGED <<gate, cached, conn, server, up, stalls, trusted, abandoned>>

(* A pipe that has nothing more to read, or waits for a peer that has      *)
(* gone, closes what it writes to.                                         *)
UpEnds(r) == /\ IF up[r] = "full" THEN server[r] = "gone" ELSE client[r] # "open"
             /\ UpStops(r)

(* Mutant: the pipe does not stop at the end of the server's stream.       *)
DeafDownEnds(r) == client[r] = "gone" /\ DownStops(r)

DownEnds(r) == /\ IF down[r] = "full" THEN client[r] = "gone" ELSE server[r] # "open"
               /\ DownStops(r)

(* So does one that has read something for a peer that has gone.           *)
WriteFails(r) == \/ server[r] = "gone" /\ UpStops(r)
                 \/ client[r] = "gone" /\ DownStops(r)

(* Mutant: the first pipe to end ends the tunnel.                          *)
HastyGathered(r) ==
  /\ conn[r] = "relaying"
  /\ UpDone(r) \/ DownDone(r)
  /\ conn' = [conn EXCEPT ![r] = "closing"]
  /\ UNCHANGED <<gate, cached, client, server, pipes, trusted, abandoned>>

(* gather has both results.                                                *)
Gathered(r) ==
  /\ conn[r] = "relaying"
  /\ UpDone(r) /\ DownDone(r)
  /\ conn' = [conn EXCEPT ![r] = "closing"]
  /\ UNCHANGED <<gate, cached, client, server, pipes, trusted, abandoned>>

(* The finally clauses.                                                    *)
Finish(r) ==
  /\ conn[r] \in {"refused", "closing"}
  /\ client' = IF down[r] = "closing" THEN client ELSE [client EXCEPT ![r] = "closed"]
  /\ Release(r)
  /\ conn' = [conn EXCEPT ![r] = "done"]
  /\ UNCHANGED <<cached, server, pipes, trusted, abandoned>>

-----------------------------------------------------------------------------
(* The two ends.                                                           *)

BrowserGoes(r) ==
  /\ conn[r] \notin {"new", "routing", "aborted"}
  /\ client[r] = "open"
  /\ IF down[r] = "closing"
     THEN client' = [client EXCEPT ![r] = "closed"] /\ down' = [down EXCEPT ![r] = "none"]
     ELSE client' = [client EXCEPT ![r] = "gone"] /\ UNCHANGED down
  /\ UNCHANGED <<gate, cached, conn, server, up, stalls, trusted, abandoned>>

(* The server sends its end of the stream.  A connection that is closing   *)
(* is not read any more.                                                   *)
ServerEnds(r) ==
  /\ server[r] = "open" /\ up[r] # "closing"
  /\ server' = [server EXCEPT ![r] = "ended"]
  /\ UNCHANGED <<gate, cached, conn, client, pipes, trusted, abandoned>>

(* Its connection is reset.                                                *)
ServerGoes(r) ==
  /\ server[r] \in {"open", "ended"}
  /\ IF up[r] = "closing"
     THEN server' = [server EXCEPT ![r] = "closed"] /\ up' = [up EXCEPT ![r] = "none"]
     ELSE server' = [server EXCEPT ![r] = "gone"] /\ UNCHANGED up
  /\ abandoned' = abandoned \ {r}
  /\ UNCHANGED <<gate, cached, conn, client, down, stalls, trusted>>

(* A pipe writes more than its peer takes.                                 *)
Stall(r) ==
  /\ conn[r] = "relaying"
  /\ stalls < MaxStalls
  /\ stalls' = stalls + 1
  /\ \E unsent \in {"some", "full"} :
       \/ /\ ~UpDone(r) /\ up[r] \notin {unsent, "full"} /\ server[r] \in {"open", "ended"}
          /\ up' = [up EXCEPT ![r] = unsent] /\ UNCHANGED down
       \/ /\ ~DownDone(r) /\ down[r] \notin {unsent, "full"} /\ client[r] = "open"
          /\ down' = [down EXCEPT ![r] = unsent] /\ UNCHANGED up
  /\ UNCHANGED <<gate, cached, conn, client, server, trusted, abandoned>>

(* The server, or the browser, reads some or all of it.                    *)
ServerReads(r) ==
  /\ server[r] \in {"open", "ended"} /\ up[r] # "none"
  /\ \/ up[r] = "full" /\ up' = [up EXCEPT ![r] = "some"] /\ UNCHANGED server
     \/ /\ up' = [up EXCEPT ![r] = "none"]
        /\ server' = IF up[r] = "closing" THEN [server EXCEPT ![r] = "closed"] ELSE server
  /\ UNCHANGED <<gate, cached, conn, client, down, stalls, trusted, abandoned>>

BrowserReads(r) ==
  /\ client[r] = "open" /\ down[r] # "none"
  /\ \/ down[r] = "full" /\ down' = [down EXCEPT ![r] = "some"] /\ UNCHANGED client
     \/ /\ down' = [down EXCEPT ![r] = "none"]
        /\ client' = IF down[r] = "closing" THEN [client EXCEPT ![r] = "closed"] ELSE client
  /\ UNCHANGED <<gate, cached, conn, server, up, stalls, trusted, abandoned>>

(* The finalizer of a StreamWriter that nobody refers to any more.         *)
Collect(r) ==
  /\ r \in abandoned
  /\ abandoned' = abandoned \ {r}
  /\ server' = [server EXCEPT ![r] = "closed"]
  /\ UNCHANGED <<gate, cached, conn, client, pipes, trusted>>

Around(r) == \/ BrowserGoes(r) \/ ServerEnds(r) \/ ServerGoes(r) \/ Collect(r)
             \/ Stall(r) \/ ServerReads(r) \/ BrowserReads(r)

-----------------------------------------------------------------------------
ProxyInit ==
  /\ target \in [Callers -> Hosts]
  /\ GateInit
  /\ CacheInit
  /\ conn = [r \in Requests |-> "new"]
  /\ client = [r \in Requests |-> "open"]
  /\ server = [r \in Requests |-> "none"]
  /\ up = [r \in Requests |-> "none"]
  /\ down = [r \in Requests |-> "none"]
  /\ stalls = 0
  /\ trusted = {}
  /\ abandoned = {}

Handle(r) == \/ PassGate(r) \/ LookUpHit(r) \/ LookUpMiss(r) \/ LookUpAnswer(r)
             \/ NoRequest(r) \/ Dial(r) \/ Splice(r) \/ SpliceFails(r)
             \/ UpEnds(r) \/ DownEnds(r) \/ Gathered(r) \/ Finish(r)

ProxyNext ==
  /\ UNCHANGED target
  /\ \/ \E r \in Requests :
          \/ RouteHit(r) \/ RouteMiss(r) \/ RouteAnswer(r) \/ Bypass(r)
          \/ Accept(r) \/ Handle(r) \/ WriteFails(r) \/ Around(r)
     \/ Tick /\ UNCHANGED <<gate, relay, trusted, abandoned>>

ProxySpec == ProxyInit /\ [][ProxyNext]_connections

(* The event loop runs what is ready, getaddrinfo returns, and the         *)
(* operating system gives up on a connection; nobody makes the two ends    *)
(* send, read, or go.                                                      *)
FairSpec == ProxySpec /\ \A r \in Requests : WF_connections(Handle(r) /\ UNCHANGED target)

-----------------------------------------------------------------------------
(* Properties.                                                             *)

(* A server's connection outlives its permit only when the browser was     *)
(* gone before its tunnel was spliced, or when the server does not read    *)
(* the rest of what was sent to it.                                        *)
ServersBounded ==
  \A r \in Requests : server[r] \in {"open", "ended"} /\ stage[r] # "admitted" =>
    r \in abandoned \/ up[r] = "closing"

(* A request that the route handler let pass is refused by the proxy only  *)
(* when the answer it passed on is no longer known.                        *)
PassedIsServed ==
  [][\A r \in trusted : (conn'[r] = "refused" /\ conn[r] # "refused") =>
       known'[target[r]] = 0 \/ Entry(target[r])'.ips = {"blocked"}]_connections

(* A tunnel that has lost one end gives its permit back, unless what a     *)
(* pipe has written stays unsent: the other neither reads nor goes.        *)
TunnelsClose ==
  \A r \in Requests :
    (stage[r] = "admitted" /\ (client[r] # "open" \/ server[r] \notin {"none", "open"}))
      ~> (stage[r] = "left" \/ {up[r], down[r]} \cap {"full", "closing"} # {})
=============================================================================
