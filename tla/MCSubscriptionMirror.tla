------------------------ MODULE MCSubscriptionMirror ------------------------
(* Instances of SubscriptionMirror for TLC. *)
EXTENDS SubscriptionMirror, TLC

\* The deliveries are interchangeable.
DeliverySymmetry == Permutations(Deliveries)
=============================================================================
