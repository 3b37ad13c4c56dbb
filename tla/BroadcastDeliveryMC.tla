------------------------- MODULE BroadcastDeliveryMC -------------------------
(* Values of BroadcastDelivery's constants for TLC. *)
EXTENDS BroadcastDelivery, TLC

\* BACKOFF_BASE_MS * Math.pow(2, n - 1), one tick being the base
MCBackoff == [n \in 1..(MaxAttempts - 1) |-> 2 ^ (n - 1)]

Symmetry == Permutations(Recipients) \cup Permutations(Workers)
=============================================================================
