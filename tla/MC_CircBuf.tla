----------------------------- MODULE MC_CircBuf -----------------------------
(* CircBuf for model checking: circ_buf.cfg gives its constants.            *)
EXTENDS CircBuf
=============================================================================
