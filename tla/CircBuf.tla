------------------------------ MODULE CircBuf ------------------------------
(***************************************************************************)
(* The ring of the log (usr/common/log_print.c) and its copy in the UDP    *)
(* console (usr/application/console.c), with the macros of circ_buf.h.     *)
(* Both functions run under a mutex, so each is one step for the tasks,    *)
(* which wait for it.  The interrupt of the CAN receiver, which writes to  *)
(* the log without it when frames are overwritten, is in LogTask.          *)
(*                                                                         *)
(* A byte is its number in the order of writing, so that the content of    *)
(* the ring tells where each byte came from.                               *)
(***************************************************************************)
EXTENDS Integers, Sequences

CONSTANTS
    Size,       (* size of the ring, a power of two                        *)
    MaxWrite,   (* the longest text written at once                        *)
    MaxRead,    (* the longest read                                        *)
    MaxBytes    (* bound: bytes written in all                             *)

(* head is advanced once past the end and once more up to the end, so a    *)
(* text of Size + 1 bytes still fits wherever head is; MAX_PRINT_LENGTH is *)
(* far below LOG_BUFFER_SIZE.                                              *)
ASSUME CircBufAssumption ==
    /\ Size \in Nat \ {0, 1} /\ \E k \in 1 .. Size : Size = 2 ^ k
    /\ MaxWrite \in 1 .. Size + 1 /\ MaxRead \in Nat \ {0} /\ MaxBytes \in Nat

VARIABLES
    bytes, head, tail,  (* struct circ_buf                                 *)
    total,              (* history: bytes written                          *)
    got                 (* history: what the last read returned            *)

ringVars == <<bytes, head, tail, total, got>>

RingInit ==
    /\ bytes = [k \in 0 .. Size - 1 |-> 0]
    /\ head = 0 /\ tail = 0
    /\ total = 0 /\ got = <<>>

Least(a, b) == IF a < b THEN a ELSE b

(* x & (Size - 1)                                                          *)
Wrap(x) == x % Size

CIRC_CNT(h, t) == Wrap(h - t)

(* Mutant of CIRC_SPACE: the byte that tells full from empty is used.      *)
SpaceAll(h, t) == Size - CIRC_CNT(h, t)

CIRC_SPACE(h, t) == CIRC_CNT(t, h + 1)
CIRC_CNT_TO_END(h, t) ==
    LET end == Size - t
        n   == Wrap(h + end)
    IN  IF n < end THEN n ELSE end

(* memcpy() of n bytes, the first of them numbered first, to b[at].        *)
Copied(b, at, first, n) ==
    [k \in DOMAIN b |-> IF k \in at .. at + n - 1 THEN first + (k - at) ELSE b[k]]
Taken(at, n) == [i \in 1 .. n |-> bytes[at + i - 1]]

write_circbuf(len) ==
    LET space  == CIRC_SPACE(head, tail)
        cover  == IF space < len THEN len - space ELSE 0
        first  == Least(len, Size - head)
        mid    == Wrap(head + first)
        second == Least(len - first, Size - mid)
    IN  /\ bytes' = Copied(Copied(bytes, head, total + 1, first), mid, total + 1 + first, second)
        /\ head' = Wrap(mid + second)
        /\ tail' = Wrap(tail + cover)
        /\ total' = total + len
        /\ UNCHANGED got

read_circbuf(len) ==
    LET rdlen  == Least(len, CIRC_CNT(head, tail))
        first  == Least(rdlen, CIRC_CNT_TO_END(head, tail))
        mid    == Wrap(tail + first)
        second == Least(rdlen - first, CIRC_CNT_TO_END(head, mid))
    IN  /\ got' = Taken(tail, first) \o Taken(mid, second)
        /\ tail' = Wrap(mid + second)
        /\ UNCHANGED <<bytes, head, total>>

WriteRing == \E n \in 1 .. MaxWrite : total + n <= MaxBytes /\ write_circbuf(n)
ReadRing  == \E n \in 1 .. MaxRead : read_circbuf(n)
RingNext  == WriteRing \/ ReadRing
RingSpec  == RingInit /\ [][RingNext]_ringVars

-----------------------------------------------------------------------------
(* Properties.                                                             *)

(* Every variable has its type.                                            *)
RingTypes ==
    /\ bytes \in [0 .. Size - 1 -> Nat]
    /\ head \in 0 .. Size - 1 /\ tail \in 0 .. Size - 1
    /\ total \in Nat /\ got \in Seq(Nat)

(* The ring is a queue of Size - 1 bytes that drops its oldest when it is  *)
(* full: what a reader gets is in the order of writing, without gaps but   *)
(* for what was dropped, whichever way texts and reads wrap around, and    *)
(* the buffer is not left.                                                 *)
Content == [i \in 1 .. CIRC_CNT(head, tail) |-> bytes[Wrap(tail + i - 1)]]
Queue   == INSTANCE DropOldest WITH
              Capacity <- Size - 1, Writes <- 1 .. MaxWrite, Reads <- 1 .. MaxRead,
              fifo <- Content
DropsOldestOnly == []RingTypes /\ Queue!Spec
=============================================================================
