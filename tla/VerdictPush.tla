----------------------------- MODULE VerdictPush -----------------------------
(***************************************************************************)
(* How the verdict of one scan reaches the browsers that wait for it: the  *)
(* risk_fusion task writes the report to disk, then to the Redis cache,    *)
(* then publishes it on the scan's channel (tasks/risk_fusion.py); one API *)
(* process serves every browser with a handler (main.py, ws_scan), which   *)
(* looks for a finished verdict and otherwise leaves a listener task on    *)
(* the channel (websocket/websocket_manager.py).  Redis drops a message    *)
(* nobody is subscribed to, so the listener looks again once subscribed.   *)
(* An await of the code is the end of an action.                           *)
(***************************************************************************)
EXTENDS Naturals

CONSTANTS
  Clients,      \* browser connections, all on one scan and one API process
  NoClient,     \* stands for no connection
  FaultKinds,   \* the kinds of fault that may happen
  MaxFaults     \* bound on the number of faults of a behaviour

(* "crash": the worker dies in risk_fusion.  "cache": setex raises.        *)
(* "publish": PUBLISH raises.  "redis": a call of the API process raises.  *)
AllFaults == {"crash", "cache", "publish", "redis"}

ASSUME ConstantsAssumption ==
  /\ NoClient \notin Clients
  /\ FaultKinds \subseteq AllFaults
  /\ MaxFaults \in Nat

VARIABLES
  report,      \* how many times risk_report.json has been replaced
  cache,       \* the report in risk:<scan id>, 0 for none
  fusion,      \* what risk_fusion does next
  published,   \* whether a report has been published
  handler,     \* where ws_scan is, for each browser
  listener,    \* where _forward_channel is, for each browser
  registered,  \* _listen_tasks["browser:<scan id>"]: whose listener it is
  inbox,       \* the first report published to each listener, 0 for none
  link,        \* the socket of each browser
  shown,       \* the report each browser was shown, 0 for none
  faults,      \* number of faults so far
  troubled     \* browsers for which a Redis call raised

risk    == <<report, cache, fusion, published>>
serving == <<handler, listener, registered, inbox>>
sockets == <<link, shown>>
budget  == <<faults, troubled>>
vars    == <<risk, serving, sockets, budget>>

NoFault  == UNCHANGED budget
Fault(k) == k \in FaultKinds /\ faults < MaxFaults /\ faults' = faults + 1

(* A call to Redis on behalf of browser c raises.                          *)
RedisFails(c) == Fault("redis") /\ troubled' = troubled \cup {c}

-----------------------------------------------------------------------------
(* risk_fusion_task.                                                       *)

(* os.replace: the report is never seen half written.                      *)
WriteReport ==
  /\ fusion = "due"
  /\ report' = report + 1
  /\ fusion' = "cache"
  /\ UNCHANGED <<cache, published, serving, sockets, budget>>

(* Nothing catches an error of setex: the task ends, and nothing is        *)
(* published.                                                              *)
CacheReport ==
  /\ fusion = "cache"
  /\ \/ cache' = report /\ fusion' = "publish" /\ UNCHANGED faults
     \/ Fault("cache") /\ fusion' = "done" /\ UNCHANGED cache
  /\ UNCHANGED <<report, published, serving, sockets, troubled>>

Subscribed(c) == listener[c] \in {"cache", "disk", "listen"}

(* broadcast_risk_update_sync logs an error of PUBLISH and goes on.        *)
PublishReport ==
  /\ fusion = "publish"
  /\ fusion' = "finish"
  /\ \/ /\ published' = TRUE
        /\ inbox' = [c \in Clients |-> IF Subscribed(c) /\ inbox[c] = 0
                                       THEN report ELSE inbox[c]]
        /\ UNCHANGED faults
     \/ Fault("publish") /\ UNCHANGED <<published, inbox>>
  /\ UNCHANGED <<report, cache, handler, listener, registered, sockets, troubled>>

(* The row is marked and the alert dispatched: ScanPipeline.               *)
FinishFusion ==
  /\ fusion = "finish"
  /\ fusion' = "done"
  /\ UNCHANGED <<report, cache, published, serving, sockets, budget>>

(* The broker gives the message to another worker, which starts again.     *)
FusionCrash ==
  /\ fusion \in {"cache", "publish", "finish"}
  /\ Fault("crash")
  /\ fusion' = "due"
  /\ UNCHANGED <<report, cache, published, serving, sockets, troubled>>

ExpireCache ==
  /\ cache # 0
  /\ cache' = 0
  /\ UNCHANGED <<report, fusion, published, serving, sockets, budget>>

-----------------------------------------------------------------------------
(* Sending to a browser.  A socket that is no longer open either raises or *)
(* swallows what it is sent.                                               *)

Deliver(c, r) == link[c] = "open" /\ shown' = [shown EXCEPT ![c] = r]
Drop(c)       == link[c] # "open" /\ UNCHANGED shown

-----------------------------------------------------------------------------
(* ws_scan and connect_browser, disconnect_browser.  The handler has       *)
(* authenticated the browser and found that the scan is its user's.        *)
(* browser_connections is written and never read.                          *)

Connect(c) ==
  /\ handler[c] = "away"
  /\ handler' = [handler EXCEPT ![c] = "cache"]
  /\ link' = [link EXCEPT ![c] = "open"]
  /\ UNCHANGED <<risk, listener, registered, inbox, shown, budget>>

(* The new listener takes the scan's one place in _listen_tasks.           *)
StartListener(c) ==
  /\ listener' = [listener EXCEPT ![c] = "subscribe"]
  /\ registered' = c

(* A verdict that is found is sent, and no listener is started, unless the *)
(* socket raised.                                                          *)
SendFound(c, r) ==
  /\ handler' = [handler EXCEPT ![c] = "receive"]
  /\ \/ Deliver(c, r) /\ UNCHANGED <<listener, registered>>
     \/ Drop(c) /\ (StartListener(c) \/ UNCHANGED <<listener, registered>>)

(* An error of Redis skips the disk and falls back to the channel.         *)
LookInCache(c) ==
  /\ handler[c] = "cache"
  /\ \/ cache # 0 /\ SendFound(c, cache) /\ NoFault
     \/ /\ cache = 0
        /\ handler' = [handler EXCEPT ![c] = "disk"]
        /\ UNCHANGED <<listener, registered, shown, budget>>
     \/ /\ RedisFails(c)
        /\ handler' = [handler EXCEPT ![c] = "receive"]
        /\ StartListener(c)
        /\ UNCHANGED shown
  /\ UNCHANGED <<risk, inbox, link>>

LookOnDisk(c) ==
  /\ handler[c] = "disk"
  /\ IF report # 0
     THEN SendFound(c, report)
     ELSE /\ handler' = [handler EXCEPT ![c] = "receive"]
          /\ StartListener(c)
          /\ UNCHANGED shown
  /\ UNCHANGED <<risk, inbox, link, budget>>

(* The browser goes away.                                                  *)
Leave(c) ==
  /\ link[c] = "open"
  /\ link' = [link EXCEPT ![c] = "gone"]
  /\ UNCHANGED <<risk, serving, shown, budget>>

(* receive_text raises WebSocketDisconnect.  Whoever is registered for the *)
(* scan is cancelled, which need not be the listener of this browser.      *)
Disconnect(c) ==
  /\ handler[c] = "receive"
  /\ link[c] # "open"
  /\ handler' = [handler EXCEPT ![c] = "done"]
  /\ registered' = NoClient
  /\ listener' = [d \in Clients |-> IF d = registered THEN "ended" ELSE listener[d]]
  /\ UNCHANGED <<risk, inbox, sockets, budget>>

(* receive_text raises anything else, which ws_scan does not catch: the    *)
(* socket is closed and nobody is cancelled.                               *)
Break(c) ==
  /\ handler[c] = "receive"
  /\ handler' = [handler EXCEPT ![c] = "broken"]
  /\ link' = [link EXCEPT ![c] = IF @ = "open" THEN "closed" ELSE @]
  /\ UNCHANGED <<risk, listener, registered, inbox, shown, budget>>

Handle(c) == LookInCache(c) \/ LookOnDisk(c) \/ Disconnect(c)

-----------------------------------------------------------------------------
(* _forward_channel, with one_shot: it ends once it has sent one message.  *)
(* An error of Redis ends it as well, and leaves the socket as it is.      *)

Goto(c, label) == listener' = [listener EXCEPT ![c] = label]

(* Mutant: the channel is listened to without a second look.               *)
TrustingSubscribe(c) ==
  /\ listener[c] = "subscribe"
  /\ inbox' = [inbox EXCEPT ![c] = 0]
  /\ Goto(c, "listen")
  /\ UNCHANGED <<risk, handler, registered, sockets, budget>>

Subscribe(c) ==
  /\ listener[c] = "subscribe"
  /\ \/ Goto(c, "cache") /\ NoFault
     \/ Goto(c, "ended") /\ RedisFails(c)
  /\ UNCHANGED <<risk, handler, registered, inbox, sockets>>

SendAgain(c, r) == \/ Deliver(c, r) /\ Goto(c, "ended")
                   \/ Drop(c) /\ (Goto(c, "ended") \/ Goto(c, "listen"))

(* The second look; an error of it is logged, and the disk is skipped.     *)
LookInCacheAgain(c) ==
  /\ listener[c] = "cache"
  /\ \/ cache # 0 /\ SendAgain(c, cache) /\ NoFault
     \/ cache = 0 /\ Goto(c, "disk") /\ UNCHANGED <<shown, budget>>
     \/ RedisFails(c) /\ Goto(c, "listen") /\ UNCHANGED shown
  /\ UNCHANGED <<risk, handler, registered, inbox, link>>

LookOnDiskAgain(c) ==
  /\ listener[c] = "disk"
  /\ IF report # 0 THEN SendAgain(c, report) ELSE Goto(c, "listen") /\ UNCHANGED shown
  /\ UNCHANGED <<risk, handler, registered, inbox, link, budget>>

(* Mutant: the loop goes on after the one message it was to forward.       *)
EndlessForward(c) ==
  /\ listener[c] = "listen"
  /\ inbox[c] # 0
  /\ Deliver(c, inbox[c])
  /\ inbox' = [inbox EXCEPT ![c] = 0]
  /\ UNCHANGED <<risk, handler, listener, registered, link, budget>>

Forward(c) ==
  /\ listener[c] = "listen"
  /\ inbox[c] # 0
  /\ \/ Deliver(c, inbox[c]) /\ Goto(c, "send")
     \/ Drop(c) /\ Goto(c, "ended")
  /\ UNCHANGED <<risk, handler, registered, inbox, link, budget>>

(* send_text returns once the socket has taken the message.                *)
Sent(c) ==
  /\ listener[c] = "send"
  /\ Goto(c, "ended")
  /\ UNCHANGED <<risk, handler, registered, inbox, sockets, budget>>

ListenerCrash(c) ==
  /\ listener[c] = "listen"
  /\ RedisFails(c)
  /\ Goto(c, "ended")
  /\ UNCHANGED <<risk, handler, registered, inbox, sockets>>

(* Mutant: a listener that times out leaves the socket as it is.           *)
SilentTimeout(c) ==
  /\ listener[c] = "listen"
  /\ Goto(c, "ended")
  /\ UNCHANGED <<risk, handler, registered, inbox, sockets, budget>>

(* wait_for gives up after 300 seconds, of a message on its way as well:   *)
(* the server closes the socket.                                           *)
TimeOut(c) ==
  /\ listener[c] \in {"listen", "send"}
  /\ Goto(c, "ended")
  /\ link' = [link EXCEPT ![c] = IF @ = "open" THEN "closed" ELSE @]
  /\ UNCHANGED <<risk, handler, registered, inbox, shown, budget>>

Listen(c) == \/ Subscribe(c) \/ LookInCacheAgain(c) \/ LookOnDiskAgain(c)
             \/ Forward(c) \/ Sent(c) \/ TimeOut(c)

-----------------------------------------------------------------------------
Init ==
  /\ report = 0 /\ cache = 0 /\ published = FALSE
  /\ fusion = "due"
  /\ handler = [c \in Clients |-> "away"]
  /\ listener = [c \in Clients |-> "none"]
  /\ registered = NoClient
  /\ inbox = [c \in Clients |-> 0]
  /\ link = [c \in Clients |-> "away"]
  /\ shown = [c \in Clients |-> 0]
  /\ faults = 0
  /\ troubled = {}

Fuse == WriteReport \/ CacheReport \/ PublishReport \/ FinishFusion

Next == \/ Fuse \/ FusionCrash \/ ExpireCache
        \/ \E c \in Clients : \/ Connect(c) \/ Leave(c) \/ Handle(c) \/ Break(c)
                              \/ Listen(c) \/ ListenerCrash(c)

Spec == Init /\ [][Next]_vars

(* The event loop runs every handler and every listener on, and a listener *)
(* that waits is timed out.  The pipeline need not produce a verdict.      *)
FairSpec == /\ Spec
            /\ \A c \in Clients : WF_vars(Handle(c)) /\ WF_vars(Listen(c))

-----------------------------------------------------------------------------
(* Properties.                                                             *)

(* Every variable has its type, and no report that is cached, on its way   *)
(* or on a screen is newer than the one on disk.                           *)
TypeOK ==
  /\ report \in Nat
  /\ cache \in 0 .. report
  /\ fusion \in {"due", "cache", "publish", "finish", "done"}
  /\ published \in BOOLEAN
  /\ handler \in [Clients -> {"away", "cache", "disk", "receive", "broken", "done"}]
  /\ listener \in [Clients -> {"none", "subscribe", "cache", "disk", "listen", "send", "ended"}]
  /\ registered \in Clients \cup {NoClient}
  /\ inbox \in [Clients -> 0 .. report]
  /\ link \in [Clients -> {"away", "open", "closed", "gone"}]
  /\ shown \in [Clients -> 0 .. report]
  /\ faults \in Nat
  /\ troubled \in SUBSET Clients

(* The gap between looking for a verdict and subscribing is closed: a      *)
(* listener that settles down to wait with nothing in its inbox waits for  *)
(* a verdict that has not been published, unless a call to Redis failed it *)
(* or its browser had gone when it looked.                                 *)
NothingMissed ==
  \A c \in Clients :
    listener[c] = "listen" /\ inbox[c] = 0 /\ link[c] = "open" /\ c \notin troubled
      => ~published

(* What the browser is promised.                                           *)
Delivery == INSTANCE VerdictDelivery WITH written <- report
DeliverySpec == Delivery!Spec

Attended(c) == shown[c] # 0 \/ link[c] # "open"

(* A browser is shown a verdict or its socket is closed, unless it leaves  *)
(* first: it is left hanging only when a Redis call of its own raised or   *)
(* another connection on the scan was closed.                              *)
Served ==
  \A c \in Clients : handler[c] = "cache" ~>
    \/ Attended(c)
    \/ c \in troubled
    \/ \E d \in Clients \ {c} : handler[d] = "done"
=============================================================================
