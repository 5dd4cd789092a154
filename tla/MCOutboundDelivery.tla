------------------------- MODULE MCOutboundDelivery -------------------------
(***************************************************************************)
(* Small instances of OutboundDelivery.  Workers are interchangeable.       *)
(***************************************************************************)
EXTENDS OutboundDelivery, TLC

WorkerSymmetry == Permutations(Workers)
=============================================================================
