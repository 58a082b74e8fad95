------------------------------ MODULE Delivery ------------------------------
(***************************************************************************)
(* What the transport promises to the application: messages between two    *)
(* hosts are sent one after another; each is reported as finished once,    *)
(* and only when all of it has been received.                              *)
(***************************************************************************)
EXTENDS Naturals

VARIABLES begun,       \* messages handed to the transport
          received,    \* the messages that have been received in full
          finished     \* messages reported as finished

Init == begun = 0 /\ received = {} /\ finished = 0

Begin ==
    /\ begun = finished
    /\ begun' = begun + 1
    /\ UNCHANGED <<received, finished>>

Deliver ==
    /\ begun > finished
    /\ begun \notin received
    /\ received' = received \cup {begun}
    /\ UNCHANGED <<begun, finished>>

Finish ==
    /\ begun > finished
    /\ begun \in received
    /\ finished' = begun
    /\ UNCHANGED <<begun, received>>

Next == Begin \/ Deliver \/ Finish

Spec == Init /\ [][Next]_<<begun, received, finished>>
=============================================================================
