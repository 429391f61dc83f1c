----------------------------- MODULE MCLifecycle -----------------------------
(***************************************************************************)
(* Lifecycle for TLC: guests are interchangeable, and so are the gateways. *)
(***************************************************************************)
EXTENDS Lifecycle, TLC

Symmetry == Permutations(Guests) \cup Permutations(Gateways)
=============================================================================
