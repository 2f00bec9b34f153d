------------------------------ MODULE LineReader ------------------------------
(***************************************************************************)
(* What the shell promises to whoever types: a line is edited with the     *)
(* backspace, given up with any other control character and run at its     *)
(* end.  A line that has become too long is not run, nor is what is typed  *)
(* up to the next end of a line, even if it is given up before.            *)
(***************************************************************************)
EXTENDS Naturals, SequencesExt

CONSTANTS
    Printable,  (* characters of a line, the blank " " among them          *)
    Limit,      (* a line is shorter than this                             *)
    MaxWords    (* words of a command that are looked at                   *)

VARIABLES
    line,       (* what has been typed                                     *)
    spoiled,    (* the line is too long                                    *)
    executed    (* the words of the last command that was run              *)

(* The words of a line: what stands between blanks.                        *)
Begins(l) == {p \in DOMAIN l : l[p] # " " /\ (p = 1 \/ l[p - 1] = " ")}
WordAt(l, p) ==
    LET past == {q \in p .. Len(l) : \E r \in p .. q : l[r] = " "}
    IN  SubSeq(l, p, Len(l) - Cardinality(past))
Words(l) ==
    LET at == SetToSortSeq(Begins(l), LAMBDA a, b : a < b)
    IN  [j \in {n \in DOMAIN at : n <= MaxWords} |-> WordAt(l, at[j])]

Init == line = <<>> /\ spoiled = FALSE /\ executed = <<>>

Type == \E c \in Printable :
    /\ IF spoiled \/ Len(line) + 1 = Limit THEN line' = <<>> /\ spoiled' = TRUE
       ELSE line' = Append(line, c) /\ UNCHANGED spoiled
    /\ UNCHANGED executed

Erase ==
    /\ line # <<>>
    /\ line' = SubSeq(line, 1, Len(line) - 1)
    /\ UNCHANGED <<spoiled, executed>>

GiveUp == line' = <<>> /\ UNCHANGED <<spoiled, executed>>

Enter ==
    /\ line' = <<>> /\ spoiled' = FALSE
    /\ executed' = IF spoiled \/ Words(line) = <<>> THEN executed ELSE Words(line)

Next == Type \/ Erase \/ GiveUp \/ Enter
Spec == Init /\ [][Next]_<<line, spoiled, executed>>
=============================================================================
