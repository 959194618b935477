----------------------------- MODULE BoundedPool -----------------------------
(***************************************************************************)
(* What an admission gate promises: nobody is inside who was turned away   *)
(* or has left, and there are never more than Limit inside.                *)
(***************************************************************************)
EXTENDS Naturals, FiniteSets

CONSTANTS
  Requests,   \* those who may want to enter
  Limit       \* how many may be inside

VARIABLES
  inside,     \* who is inside
  gone        \* who was turned away or has left

vars == <<inside, gone>>

Init == inside = {} /\ gone = {}

Enter(r) == /\ r \in Requests \ (inside \cup gone)
            /\ Cardinality(inside) < Limit
            /\ inside' = inside \cup {r}
            /\ UNCHANGED gone

Leave(r) == /\ r \in inside
            /\ inside' = inside \ {r}
            /\ gone' = gone \cup {r}

TurnAway(r) == /\ r \in Requests \ (inside \cup gone)
               /\ gone' = gone \cup {r}
               /\ UNCHANGED inside

Next == \E r \in Requests : Enter(r) \/ Leave(r) \/ TurnAway(r)

Spec == Init /\ [][Next]_vars
=============================================================================
