--------------------------- MODULE DeliveryProofs ---------------------------
(***************************************************************************)
(* What Delivery promises, proved: an undisturbed end that is done has all *)
(* of the file behind it.                                                  *)
(***************************************************************************)
EXTENDS Delivery, TLAPS

\* DoneMeansDelivered with what makes it inductive: nothing is counted before
\* the offer, and nothing arrives before the accept.
Sound ==
    /\ disturbed = FALSE =>
        /\ size \in Nat /\ sent \in Nat /\ arrived \in Nat
        /\ sender = "idle" => sent = 0 /\ receiver = "idle"
    /\ DoneMeansDelivered

\* The first state is sound.
LEMMA SoundInit == Init => Sound
BY DEF Init, Sound, DoneMeansDelivered

\* Every step keeps it sound, whatever disturbs the transfer.
LEMMA SoundNext ==
    ASSUME Sizes \subseteq Nat, Sound, [Next]_vars
    PROVE  Sound'
<1>1. CASE Disturb
  BY <1>1 DEF Disturb, Sound, DoneMeansDelivered
<1>2. CASE Offer
  BY <1>2 DEF Offer, Sound, DoneMeansDelivered
<1>3. CASE Accept
  BY <1>3 DEF Accept, Sound, DoneMeansDelivered
<1>4. CASE Send
  BY <1>4 DEF Send, Sound, DoneMeansDelivered
<1>5. CASE Arrive
  BY <1>5 DEF Arrive, Sound, DoneMeansDelivered
<1>6. CASE SenderDone
  BY <1>6 DEF SenderDone, Sound, DoneMeansDelivered
<1>7. CASE ReceiverDone
  BY <1>7 DEF ReceiverDone, Sound, DoneMeansDelivered
<1>8. CASE UNCHANGED vars
  BY <1>8 DEF vars, Sound, DoneMeansDelivered
<1> QED
  BY <1>1, <1>2, <1>3, <1>4, <1>5, <1>6, <1>7, <1>8 DEF Next

\* A transfer that nothing disturbs never counts more bytes at one end than at
\* the end before it, and neither end is done before the whole file is.
THEOREM DeliveryIsWhole ==
    ASSUME Sizes \subseteq Nat
    PROVE  Spec => []DoneMeansDelivered
<1>1. Init => Sound
  BY SoundInit
<1>2. Sound /\ [Next]_vars => Sound'
  BY SoundNext
<1>3. Sound => DoneMeansDelivered
  BY DEF Sound
<1> QED
  BY <1>1, <1>2, <1>3, PTL DEF Spec
=============================================================================
