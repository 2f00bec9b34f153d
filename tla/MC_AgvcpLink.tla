---------------------------- MODULE MC_AgvcpLink ----------------------------
(* Values of the constants of AgvcpLink for model checking. *)
EXTENDS AgvcpLink

OneReport    == {"REPORT_FLAGPOINT"}
=============================================================================
