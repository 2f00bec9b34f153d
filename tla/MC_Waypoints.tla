----------------------------- MODULE MC_Waypoints -----------------------------
(* Values of the constants of Waypoints.                                   *)
EXTENDS Waypoints

RoutesTurns == {"GOSTRAIGHT", "TRUNLEFT"}
=============================================================================
