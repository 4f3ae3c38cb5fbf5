------------------------------ MODULE Handover ------------------------------
(***************************************************************************)
(* What two nodes promise about an item that one has for the other,        *)
(* whatever happens between them: the sender's copy waits, is tried, and   *)
(* is settled for good only when the receiver has really taken or refused  *)
(* the item; an item with a duplicate identity is taken once.              *)
(***************************************************************************)
EXTENDS Naturals

CONSTANTS
    Copies,      \* the items on their way
    Once,        \* those with a duplicate identity
    Acceptable,  \* those the receiver takes
    Refused      \* those it refuses for good

VARIABLES
    state,       \* of the sender's copy: "Waiting", "Tried", "Delivered", "Rejected"
    stored       \* how often the receiver took the item

vars == <<state, stored>>

Init ==
    /\ state = [i \in Copies |-> "Waiting"]
    /\ stored = [i \in Copies |-> 0]

(* The sender tries a copy, gives the attempt up, or settles the copy. *)
Sends(i) ==
    \/ state'[i] = state[i]
    \/ state[i] = "Waiting" /\ state'[i] = "Tried"
    \/ /\ state[i] = "Tried"
       /\ \/ state'[i] = "Waiting"
          \/ state'[i] = "Delivered" /\ stored[i] > 0
          \/ state'[i] = "Rejected" /\ i \in Refused

(* The receiver takes an item, perhaps after the attempt was given up.    *)
Takes(i) ==
    \/ stored'[i] = stored[i]
    \/ /\ i \in Acceptable
       /\ i \in Once => stored[i] = 0
       /\ stored'[i] = stored[i] + 1

Next == \A i \in Copies : Sends(i) /\ Takes(i)

Spec == Init /\ [][Next]_vars
=============================================================================
