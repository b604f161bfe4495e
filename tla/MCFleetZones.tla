---------------------------- MODULE MCFleetZones ----------------------------
(* Two clusters: one asks for a name in its zones, the other for the same   *)
(* name and one below it.                                                   *)
EXTENDS FleetZones, TLC
CONSTANTS c1, c2
MCWants == c1 :> {<<1>>} @@ c2 :> {<<1>>, <<1, 2>>}
=============================================================================
