------------------------------ MODULE MC_BmsWatch ------------------------------
(* Values of the constants of BmsWatch.                                    *)
EXTENDS BmsWatch

BmsAgvcp == {"bms", "agvcp"}
=============================================================================
