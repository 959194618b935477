-------------------------- MODULE VerdictPushProofs --------------------------
(***************************************************************************)
(* Theorems about VerdictPush, for any number of browsers and faults.      *)
(***************************************************************************)
EXTENDS VerdictPush, TLAPS

USE ConstantsAssumption DEF risk, serving, sockets, budget

(* A browser whose listener has not ended, or has not been started, has    *)
(* been shown nothing; a report is published only once it is on disk.      *)
Unshown(c) ==
  /\ handler[c] \in {"away", "cache", "disk"} => listener[c] = "none"
  /\ handler[c] \in {"away", "cache", "disk"} => shown[c] = 0
  /\ listener[c] \in {"subscribe", "cache", "disk", "listen"} => shown[c] = 0
  /\ handler[c] = "away" => link[c] = "away"
  /\ registered = c => listener[c] # "none"

PushInv ==
  /\ TypeOK
  /\ fusion \in {"cache", "publish"} => report # 0
  /\ published => report # 0
  /\ \A c \in Clients : Unshown(c)
  /\ NothingMissed

-----------------------------------------------------------------------------
LEMMA PushInit == Init => PushInv
  <1> SUFFICES ASSUME Init PROVE PushInv
    OBVIOUS
  <1>0. 0 \in Nat /\ 0 \in 0 .. 0
    OBVIOUS
  <1>1. TypeOK
    BY <1>0, Zenon DEF Init, TypeOK
  <1>2. (\A c \in Clients : Unshown(c)) /\ NothingMissed
    BY DEF Init, Unshown, NothingMissed
  <1> QED BY <1>1, <1>2 DEF Init, PushInv

(* A step of risk_fusion, a crash of its worker, the expiry of the cache.  *)
LEMMA PushFusion ==
  ASSUME PushInv, Fuse \/ FusionCrash \/ ExpireCache
  PROVE  PushInv'
  <1> USE DEF PushInv, TypeOK, Unshown, NothingMissed, NoFault, Fault
  <1>1. CASE WriteReport
    BY <1>1 DEF WriteReport
  <1>2. CASE CacheReport
    BY <1>2 DEF CacheReport
  <1>3. CASE PublishReport
    <2>1. inbox' \in [Clients -> 0 .. report] /\ report' = report
      BY <1>3 DEF PublishReport
    <2>2. TypeOK'
      <3>1. fusion' = "finish" /\ faults' \in Nat
        BY <1>3 DEF PublishReport
      <3>2. published' = TRUE \/ published' = published
        BY <1>3 DEF PublishReport
      <3>3. published' \in BOOLEAN
        BY <3>2, Zenon
      <3> QED BY <1>3, <2>1, <3>1, <3>3 DEF PublishReport
    <2>3. ASSUME NEW c \in Clients, listener'[c] = "listen", inbox'[c] = 0, published'
          PROVE  published /\ listener[c] = "listen" /\ inbox[c] = 0
      BY <1>3, <2>3 DEF PublishReport, Subscribed
    <2> QED BY <1>3, <2>2, <2>3 DEF PublishReport
  <1>4. CASE FinishFusion
    BY <1>4 DEF FinishFusion
  <1>5. CASE FusionCrash
    BY <1>5 DEF FusionCrash
  <1>6. CASE ExpireCache
    BY <1>6 DEF ExpireCache
  <1> QED BY <1>1, <1>2, <1>3, <1>4, <1>5, <1>6 DEF Fuse

(* A step of a browser or of its handler.                                  *)
LEMMA PushHandler ==
  ASSUME PushInv, NEW c \in Clients, Connect(c) \/ Leave(c) \/ Handle(c) \/ Break(c)
  PROVE  PushInv'
  <1> USE DEF PushInv, TypeOK, Unshown, NothingMissed, NoFault
  <1>1. CASE Connect(c)
    BY <1>1 DEF Connect
  <1>2. CASE Leave(c)
    BY <1>2 DEF Leave
  <1>3. CASE LookInCache(c)
    BY <1>3 DEF LookInCache, SendFound, StartListener, Deliver, Drop, RedisFails, Fault
  <1>4. CASE LookOnDisk(c)
    BY <1>4 DEF LookOnDisk, SendFound, StartListener, Deliver, Drop
  <1>5. CASE Disconnect(c)
    <2>1. TypeOK'
      BY <1>5 DEF Disconnect
    <2>2. \A d \in Clients : listener'[d] = listener[d] \/ listener'[d] = "ended"
      BY <1>5 DEF Disconnect
    <2>3. /\ \A d \in Clients : handler'[d] = handler[d] \/ handler'[d] = "done"
          /\ UNCHANGED <<link, shown>>
      BY <1>5 DEF Disconnect
    <2>4. ASSUME NEW d \in Clients PROVE Unshown(d)'
      <3>1. listener[d] = "none" => listener'[d] = "none"
        BY <1>5 DEF Disconnect
      <3>2. registered' # d
        BY <1>5 DEF Disconnect
      <3> QED BY <2>2, <2>3, <3>1, <3>2
    <2> QED BY <1>5, <2>1, <2>2, <2>4 DEF Disconnect
  <1>6. CASE Break(c)
    BY <1>6 DEF Break
  <1> QED BY <1>1, <1>2, <1>3, <1>4, <1>5, <1>6 DEF Handle

(* A step of a browser's listener.                                         *)
LEMMA PushListener ==
  ASSUME PushInv, NEW c \in Clients, Listen(c) \/ ListenerCrash(c)
  PROVE  PushInv'
  <1> USE DEF PushInv, TypeOK, Unshown, NothingMissed, NoFault, Goto
  <1>1. CASE Subscribe(c)
    BY <1>1 DEF Subscribe, RedisFails, Fault
  <1>2. CASE LookInCacheAgain(c)
    BY <1>2 DEF LookInCacheAgain, SendAgain, Deliver, Drop, RedisFails, Fault
  <1>3. CASE LookOnDiskAgain(c)
    BY <1>3 DEF LookOnDiskAgain, SendAgain, Deliver, Drop
  <1>4. CASE Forward(c)
    BY <1>4 DEF Forward, Deliver, Drop
  <1>5. CASE Sent(c) \/ TimeOut(c)
    BY <1>5 DEF Sent, TimeOut
  <1>6. CASE ListenerCrash(c)
    BY <1>6 DEF ListenerCrash, RedisFails, Fault
  <1> QED BY <1>1, <1>2, <1>3, <1>4, <1>5, <1>6 DEF Listen

LEMMA PushStep == PushInv /\ [Next]_vars => PushInv'
  <1>1. PushInv /\ UNCHANGED vars => PushInv'
    BY DEF PushInv, TypeOK, Unshown, NothingMissed, vars
  <1> QED BY <1>1, PushFusion, PushHandler, PushListener DEF Next

(* No verdict slips between looking for one and subscribing to the         *)
(* channel, however many browsers, reports and faults there are.           *)
THEOREM NothingMissedCorrect == Spec => [](TypeOK /\ NothingMissed)
  <1>1. PushInv => TypeOK /\ NothingMissed
    BY DEF PushInv
  <1> QED BY <1>1, PushInit, PushStep, PTL DEF Spec

-----------------------------------------------------------------------------
(* Refinement.                                                             *)

LEMMA DeliveryStep == PushInv /\ [Next]_vars => [Delivery!Next]_(Delivery!vars)
  <1> SUFFICES ASSUME PushInv, Next
               PROVE  [Delivery!Next]_(Delivery!vars)
    BY DEF vars, Delivery!vars
  <1> USE DEF PushInv, TypeOK, Unshown, Delivery!vars, Delivery!Next
  <1>0. ASSUME NEW c \in Clients, NEW r \in 1 .. report, Deliver(c, r), shown[c] = 0,
               UNCHANGED <<report, link>>
        PROVE  Delivery!Show(c)
    BY <1>0 DEF Deliver, Delivery!Show
  <1>1. CASE Fuse \/ FusionCrash \/ ExpireCache
    BY <1>1 DEF Fuse, WriteReport, CacheReport, PublishReport, FinishFusion,
       FusionCrash, ExpireCache, Delivery!Write
  <1>2. ASSUME NEW c \in Clients, Connect(c)
        PROVE  Delivery!Join(c)
    BY <1>2 DEF Connect, Delivery!Join
  <1>3. ASSUME NEW c \in Clients, Leave(c)
        PROVE  Delivery!Leave(c)
    BY <1>3 DEF Leave, Delivery!Leave
  <1>4. ASSUME NEW c \in Clients, LookInCache(c)
        PROVE  Delivery!Show(c) \/ UNCHANGED Delivery!vars
    BY <1>0, <1>4 DEF LookInCache, SendFound, Drop
  <1>5. ASSUME NEW c \in Clients, LookOnDisk(c)
        PROVE  Delivery!Show(c) \/ UNCHANGED Delivery!vars
    BY <1>0, <1>5 DEF LookOnDisk, SendFound, Drop
  <1>6. ASSUME NEW c \in Clients, LookInCacheAgain(c)
        PROVE  Delivery!Show(c) \/ UNCHANGED Delivery!vars
    BY <1>0, <1>6 DEF LookInCacheAgain, SendAgain, Drop
  <1>7. ASSUME NEW c \in Clients, LookOnDiskAgain(c)
        PROVE  Delivery!Show(c) \/ UNCHANGED Delivery!vars
    BY <1>0, <1>7 DEF LookOnDiskAgain, SendAgain, Drop
  <1>8. ASSUME NEW c \in Clients, Forward(c)
        PROVE  Delivery!Show(c) \/ UNCHANGED Delivery!vars
    BY <1>0, <1>8 DEF Forward, Drop
  <1>9. ASSUME NEW c \in Clients, TimeOut(c) \/ Break(c)
        PROVE  Delivery!Close(c) \/ UNCHANGED Delivery!vars
    BY <1>9 DEF TimeOut, Break, Delivery!Close
  <1>10. ASSUME NEW c \in Clients, Disconnect(c) \/ Subscribe(c) \/ Sent(c) \/ ListenerCrash(c)
         PROVE  UNCHANGED Delivery!vars
    BY <1>10 DEF Disconnect, Subscribe, Sent, ListenerCrash
  <1> QED BY <1>1, <1>2, <1>3, <1>4, <1>5, <1>6, <1>7, <1>8, <1>9, <1>10
          DEF Next, Handle, Listen

(* The handlers, listeners, cache and channel keep what the browser is     *)
(* promised: VerdictPush implements VerdictDelivery.                       *)
THEOREM DeliveryImplemented == Spec => DeliverySpec
  <1>1. Init => Delivery!Init
    BY DEF Init, Delivery!Init
  <1> QED BY <1>1, PushInit, PushStep, DeliveryStep, PTL
          DEF Spec, DeliverySpec, Delivery!Spec
=============================================================================
