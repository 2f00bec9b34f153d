--------------------------- MODULE ReportChannel ---------------------------
(***************************************************************************)
(* What the link promises the tasks of the vehicle that report to the      *)
(* controller: one message is under way at a time, the controller hears it *)
(* exactly once, the messages in the order they were begun, and the task   *)
(* that sends a message goes on only when it has been heard.               *)
(***************************************************************************)
EXTENDS Sequences

CONSTANTS Messages, NoMsg

VARIABLES
    heard,      (* what the controller has heard, oldest first             *)
    sending     (* the message under way, or NoMsg                         *)

vars == <<heard, sending>>

Heard(m) == \E i \in DOMAIN heard : heard[i] = m

Init == heard = <<>> /\ sending = NoMsg

Begin ==
    /\ sending = NoMsg
    /\ sending' \in Messages /\ ~Heard(sending')
    /\ UNCHANGED heard

Hear ==
    /\ sending # NoMsg /\ ~Heard(sending)
    /\ heard' = Append(heard, sending)
    /\ UNCHANGED sending

Return ==
    /\ sending # NoMsg /\ Heard(sending)
    /\ sending' = NoMsg
    /\ UNCHANGED heard

Next == Begin \/ Hear \/ Return

Spec == Init /\ [][Next]_vars
=============================================================================
