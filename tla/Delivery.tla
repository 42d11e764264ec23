------------------------------ MODULE Delivery ------------------------------
(***************************************************************************)
(* What a file transfer promises, as long as nothing disturbs it: a file   *)
(* is offered, then accepted, and only then sent; its bytes arrive, as     *)
(* many as were sent and no more; the sending end is done when all were    *)
(* sent and the receiving end when all have arrived.  Of a disturbed       *)
(* transfer nothing is promised here.                                      *)
(***************************************************************************)
EXTENDS Naturals

CONSTANT Sizes           \* file sizes, in bytes

VARIABLES
    size,                \* of the file offered, 0 before
    sender, receiver,    \* each end: "idle", "busy" or "done"
    sent, arrived,       \* bytes
    disturbed

vars == <<size, sender, receiver, sent, arrived, disturbed>>

Init ==
    /\ size = 0 /\ sent = 0 /\ arrived = 0
    /\ sender = "idle" /\ receiver = "idle"
    /\ disturbed = FALSE

Offer ==
    /\ sender = "idle" /\ sender' = "busy"
    /\ size' \in Sizes
    /\ UNCHANGED <<receiver, sent, arrived, disturbed>>

Accept ==
    /\ sender = "busy"
    /\ receiver = "idle" /\ receiver' = "busy"
    /\ UNCHANGED <<size, sender, sent, arrived, disturbed>>

Send ==
    /\ sender = "busy" /\ receiver # "idle"
    /\ sent' \in (sent + 1)..size
    /\ UNCHANGED <<size, sender, receiver, arrived, disturbed>>

Arrive ==
    /\ receiver = "busy"
    /\ arrived' \in (arrived + 1)..sent
    /\ UNCHANGED <<size, sender, receiver, sent, disturbed>>

SenderDone ==
    /\ sender = "busy" /\ sent = size
    /\ sender' = "done"
    /\ UNCHANGED <<size, receiver, sent, arrived, disturbed>>

ReceiverDone ==
    /\ receiver = "busy" /\ arrived = size
    /\ receiver' = "done"
    /\ UNCHANGED <<size, sender, sent, arrived, disturbed>>

\* From here on nothing is promised.
Disturb == disturbed' = TRUE

Next ==
    \/ Disturb
    \/ Offer \/ Accept \/ Send \/ Arrive \/ SenderDone \/ ReceiverDone

Spec == Init /\ [][Next]_vars
-----------------------------------------------------------------------------
\* An undisturbed end that is done has all of the file behind it.
DoneMeansDelivered ==
    disturbed = FALSE =>
        /\ arrived <= sent /\ sent <= size
        /\ sender = "done" => sent = size
        /\ receiver = "done" => arrived = size
=============================================================================
