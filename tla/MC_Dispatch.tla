---------------------------- MODULE MC_Dispatch ----------------------------
(* Values of the constants of Dispatch for model checking. *)
EXTENDS Dispatch

(* One action of each kind issue_command() and motionctrl_cmd() tell apart. *)
OneOfEachKind == {"GOBACKWARD", "TRUNLEFT", "UNLOAD", "CHARGE", "STOP"}

(* The actions a route consists of. *)
RouteActions  == {"GOSTRAIGHT", "TRUNRIGHT", "UNLOAD", "STOP_CHARGE"}

OnlyBms       == {"BMS"}
=============================================================================
