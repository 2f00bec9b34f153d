----------------------------- MODULE DropOldest -----------------------------
(***************************************************************************)
(* What the rings of the program promise, those of the log and of the      *)
(* console, of the CAN frames and of the UART: a queue that holds Capacity *)
(* bytes and makes room by dropping the oldest.  Bytes are numbered in the *)
(* order they are written.                                                 *)
(***************************************************************************)
EXTENDS Naturals, Sequences

CONSTANTS Capacity, Writes, Reads

VARIABLES
    fifo,       (* bytes not read yet, oldest first                        *)
    total,      (* bytes written so far                                    *)
    got         (* what the last read returned                             *)

vars == <<fifo, total, got>>

Last(s, n)  == IF Len(s) <= n THEN s ELSE SubSeq(s, Len(s) - n + 1, Len(s))
First(s, n) == IF Len(s) <= n THEN s ELSE SubSeq(s, 1, n)

Init == fifo = <<>> /\ total = 0 /\ got = <<>>

Write == \E n \in Writes :
    /\ fifo' = Last(fifo \o [i \in 1 .. n |-> total + i], Capacity)
    /\ total' = total + n
    /\ UNCHANGED got

Read == \E n \in Reads :
    /\ got' = First(fifo, n)
    /\ fifo' = SubSeq(fifo, Len(got') + 1, Len(fifo))
    /\ UNCHANGED total

Next == Write \/ Read

Spec == Init /\ [][Next]_vars
=============================================================================
