--------------------------------- MODULE Shell ---------------------------------
(***************************************************************************)
(* The shell on the UART: the interrupt and bsp_UartReceive() of           *)
(* usr/bsp/src/bsp_uart.c, console_run() and split_line() of               *)
(* usr/common/lwshell.c.                                                   *)
(*                                                                         *)
(* The interrupt puts characters into a ring, the oldest is lost when the  *)
(* console is away for too long, in a command of seconds for instance.     *)
(* The console takes one at a time with the interrupts disabled; between   *)
(* two of them it may be away for any time.                                *)
(***************************************************************************)
EXTENDS Naturals, Sequences

CONSTANTS
    RxSize,     (* UART1_RX_BUF_SIZE                                       *)
    Size,       (* size of the line, 128 in the code                       *)
    MAX_ARGS,
    Keys,       (* what is typed: "BS", "ESC" for any other control        *)
                (* character, "CR", "LF", the rest is printable            *)
    MaxKeys     (* bound: keys typed                                       *)

ASSUME ShellAssumption ==
    /\ RxSize \in Nat \ {0} /\ Size \in Nat \ {0, 1} /\ MAX_ARGS \in Nat \ {0}
    /\ MaxKeys \in Nat /\ "NUL" \notin Keys

Newline == {"CR", "LF"}
Letters == Keys \ (Newline \cup {"BS", "ESC"})

(* A slot of the ring keeps the number of the write too, which is history. *)
Slot == [seq : Nat, key : Keys \cup {"NUL"}]
None == [seq |-> 0, key |-> "NUL"]

VARIABLES
    pRxBuf, usRxWrite, usRxRead, usRxCount,
    data, cnt, damaged,     (* of console_run()                            *)
    args,                   (* the last command handed to exec()           *)
    total, got              (* history: keys typed, the last one read      *)

uartVars == <<pRxBuf, usRxWrite, usRxRead, usRxCount>>
lineVars == <<data, cnt, damaged, args>>
vars == <<uartVars, lineVars, total, got>>

Init ==
    /\ pRxBuf = [i \in 0 .. RxSize - 1 |-> None]
    /\ usRxWrite = 0 /\ usRxRead = 0 /\ usRxCount = 0
    /\ data = [i \in 0 .. Size - 1 |-> "NUL"] /\ cnt = 0 /\ damaged = FALSE
    /\ args = <<>> /\ total = 0 /\ got = <<>>

-----------------------------------------------------------------------------
(* UartIRQ() and bsp_UartReceive().                                        *)

Around(i) == IF i >= RxSize THEN 0 ELSE i

Counted ==
    IF usRxCount < RxSize THEN usRxCount' = usRxCount + 1 /\ UNCHANGED usRxRead
    ELSE usRxRead' = Around(usRxRead + 1) /\ UNCHANGED usRxCount

UartIRQ == \E c \in Keys :
    /\ total < MaxKeys /\ total' = total + 1
    /\ pRxBuf' = [pRxBuf EXCEPT ![usRxWrite] = [seq |-> total', key |-> c]]
    /\ usRxWrite' = Around(usRxWrite + 1)
    /\ Counted
    /\ UNCHANGED <<lineVars, got>>

(* One key, c.                                                             *)
bsp_UartReceive(c) ==
    /\ usRxCount > 0 /\ c = pRxBuf[usRxRead].key
    /\ got' = <<pRxBuf[usRxRead].seq>>
    /\ usRxRead' = Around(usRxRead + 1)
    /\ usRxCount' = usRxCount - 1
    /\ UNCHANGED <<pRxBuf, usRxWrite, total>>

-----------------------------------------------------------------------------
(* split_line() of d, whose words it ends with a "NUL" each.               *)

Separator(c) == c = " "
Ends(c)      == c \in Newline \cup {"NUL"}

First(d, from, Test(_)) ==
    CHOOSE p \in from .. Size - 1 : Test(d[p]) /\ \A q \in from .. p - 1 : ~Test(d[q])

Text(d, from, past) == [j \in 1 .. past - from |-> d[from + j - 1]]

(* Mutant of WordEnd: the first word takes the rest of the line.           *)
LineEnds(c) == Ends(c)

WordEnd(c) == Separator(c) \/ Ends(c)

RECURSIVE Split(_, _, _)
Split(d, at, words) ==
    LET from == First(d, at, LAMBDA c : ~Separator(c))
        past == First(d, from, WordEnd)
        more == Append(words, Text(d, from, past))
    IN  IF Len(words) = MAX_ARGS \/ Ends(d[at]) \/ Ends(d[from]) THEN words
        ELSE IF Ends(d[past]) THEN more ELSE Split(d, past + 1, more)

split_line(d) == Split(d, 0, <<>>)

-----------------------------------------------------------------------------
(* console_run().                                                          *)

(* memset() of the first cnt characters.                                   *)
Cleared == [i \in 0 .. Size - 1 |-> IF i < cnt THEN "NUL" ELSE data[i]]

Backspace ==
    /\ bsp_UartReceive("BS")
    /\ IF cnt >= 1
       THEN data' = [data EXCEPT ![cnt] = "NUL"] /\ cnt' = cnt - 1
       ELSE UNCHANGED <<data, cnt>>
    /\ UNCHANGED <<damaged, args>>

OtherControl ==
    /\ bsp_UartReceive("ESC")
    /\ data' = Cleared /\ cnt' = 0
    /\ UNCHANGED <<damaged, args>>

Full(n) == n = Size

Character == \E c \in Letters :
    /\ bsp_UartReceive(c)
    /\ data' = [data EXCEPT ![cnt] = c]
    /\ IF Full(cnt + 1) THEN cnt' = 0 /\ damaged' = TRUE
       ELSE cnt' = cnt + 1 /\ UNCHANGED damaged
    /\ UNCHANGED args

Whole == ~damaged /\ cnt > 0

EndOfLine == \E c \in Newline :
    /\ bsp_UartReceive(c)
    /\ args' = LET n == split_line([data EXCEPT ![cnt] = "NUL"])
               IN  IF Whole /\ n # <<>> THEN n ELSE args
    /\ damaged' = IF Whole THEN damaged ELSE FALSE
    /\ data' = [Cleared EXCEPT ![cnt] = "NUL"] /\ cnt' = 0

console_run == Backspace \/ OtherControl \/ Character \/ EndOfLine

Next == UartIRQ \/ console_run
Spec == Init /\ [][Next]_vars

-----------------------------------------------------------------------------
(* Every variable has a value the code can give it: the console does not   *)
(* leave its array.                                                        *)
TypeOK ==
    /\ pRxBuf \in [0 .. RxSize - 1 -> Slot]
    /\ usRxWrite \in 0 .. RxSize - 1 /\ usRxRead \in 0 .. RxSize - 1
    /\ usRxCount \in 0 .. RxSize
    /\ data \in [0 .. Size - 1 -> Letters \cup {"NUL"}] /\ cnt \in 0 .. Size - 1
    /\ damaged \in BOOLEAN /\ args \in Seq(Seq(Letters))
    /\ total \in 0 .. MaxKeys

(* What the console reads is what was typed, in order, but for the oldest  *)
(* keys that were lost.                                                    *)
Content == [i \in 1 .. usRxCount |-> pRxBuf[(usRxRead + i - 1) % RxSize].seq]
Queue   == INSTANCE DropOldest WITH
              Capacity <- RxSize, Writes <- {1}, Reads <- {1}, fifo <- Content
DropsOldestOnly == Queue!Spec

(* The command that is run is the line as it was edited, whatever earlier  *)
(* lines have left in the array behind it.                                 *)
Reader == INSTANCE LineReader WITH
             Printable <- Letters, Limit <- Size, MaxWords <- MAX_ARGS,
             line <- IF damaged THEN <<>> ELSE Text(data, 0, cnt),
             spoiled <- damaged, executed <- args
RunsTheLine == Reader!Spec

(* The console does what was typed, and never leaves its array.            *)
AsTyped == []TypeOK /\ DropsOldestOnly /\ RunsTheLine
=============================================================================
