--------------------------- MODULE MCGuestFirewall ---------------------------
(***************************************************************************)
(* GuestFirewall for TLC: two endpoint ranges, so that the position a rule *)
(* is inserted at matters, and configs that list none, one or both.  The   *)
(* names of the bridge are interchangeable.                                *)
(***************************************************************************)
EXTENDS GuestFirewall, TLC

CONSTANTS e1, e2

MCEndpoints == {e1, e2}
MCConfigs == {<<>>, <<e1>>, <<e2, e1>>}

BridgeSymmetry == Permutations(Bridges)
=============================================================================
