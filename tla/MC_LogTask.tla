------------------------------ MODULE MC_LogTask ------------------------------
(* Values of the constants of LogTask: agvcp above log_task and the UDP    *)
(* console below.                                                          *)
EXTENDS LogTask

HighAndLow == {13, 23}
=============================================================================
