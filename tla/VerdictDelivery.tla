--------------------------- MODULE VerdictDelivery ---------------------------
(***************************************************************************)
(* What a browser that opens /ws/scan/{scan_id} is promised, whatever the  *)
(* server does behind the socket: it is shown at most one verdict, one     *)
(* that risk fusion had written by then, while its socket is open.  The    *)
(* server may close the socket before or after.                            *)
(***************************************************************************)
EXTENDS Naturals

CONSTANT Clients     \* browser connections

VARIABLES
  written,   \* how many reports risk fusion has written for the scan
  link,      \* the socket of each browser
  shown      \* the report each browser was shown, 0 for none

vars == <<written, link, shown>>

Init == /\ written = 0
        /\ link  = [c \in Clients |-> "away"]
        /\ shown = [c \in Clients |-> 0]

Write == /\ written' = written + 1
         /\ UNCHANGED <<link, shown>>

Join(c) == /\ link[c] = "away"
           /\ link' = [link EXCEPT ![c] = "open"]
           /\ UNCHANGED <<written, shown>>

Show(c) == /\ link[c] = "open"
           /\ shown[c] = 0
           /\ \E v \in 1 .. written : shown' = [shown EXCEPT ![c] = v]
           /\ UNCHANGED <<written, link>>

Close(c) == /\ link[c] = "open"
            /\ link' = [link EXCEPT ![c] = "closed"]
            /\ UNCHANGED <<written, shown>>

Leave(c) == /\ link[c] = "open"
            /\ link' = [link EXCEPT ![c] = "gone"]
            /\ UNCHANGED <<written, shown>>

Next == Write \/ \E c \in Clients : Join(c) \/ Show(c) \/ Close(c) \/ Leave(c)

Spec == Init /\ [][Next]_vars
=============================================================================
