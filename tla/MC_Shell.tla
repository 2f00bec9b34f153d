-------------------------------- MODULE MC_Shell --------------------------------
EXTENDS Shell

(* Two letters, the blank and a key of every other kind.                   *)
Keyboard == {"a", "b", " ", "BS", "ESC", "CR"}
=============================================================================
