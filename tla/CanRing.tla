-------------------------------- MODULE CanRing --------------------------------
(***************************************************************************)
(* Reception of CAN frames: usr/bsp/src/bsp_can.c and can_dispatcher.c.    *)
(*                                                                         *)
(* The interrupt moves frames from the receiver of the chip, which holds   *)
(* three, to the ring g_structCanRe, and drops the oldest when the ring is *)
(* full.  can_task takes them out and hands them to the users.  It holds   *)
(* bus_lock and disables the interrupt while it copies a frame; whoever    *)
(* sends a frame holds bus_lock too, for up to 50 ms.                      *)
(*                                                                         *)
(* The interrupt may come between any two steps of can_task in which it is *)
(* enabled, and motionctrl may preempt can_task anywhere, so any number of *)
(* frames may arrive while it is disabled.                                 *)
(***************************************************************************)
EXTENDS Naturals, Sequences

CONSTANTS
    Size,       (* CAN_BUFF_SIZE, a power of two                           *)
    FifoDepth,  (* frames the receiver of the chip holds                   *)
    MaxFrames   (* bound: frames that arrive                               *)

ASSUME CanRingAssumption ==
    Size \in Nat \ {0} /\ FifoDepth \in Nat \ {0} /\ MaxFrames \in Nat

(* A frame is the number of its arrival.  A slot keeps the number of the   *)
(* write as well, which is history.                                        *)
Frames == 1 .. MaxFrames
Slot   == [seq : Nat, frame : Nat]
Empty  == [seq |-> 0, frame |-> 0]

VARIABLES
    fifo, arrived,      (* frames in the chip, frames that have arrived    *)
    enabled,            (* CAN_IT_FMP0                                     *)
    sCanReceiveBuf, ucRxdataWrite, ucRxdataRead, ucCanRxDatacount,
    bus_lock,           (* who holds it                                    *)
    pc,                 (* where can_task is                               *)
    rxid, rxdata,       (* the two halves of its copy of a frame           *)
    reg,                (* the count as it has loaded it                   *)
    total, got,         (* history: writes to the ring, the last read      *)
    handled             (* history: frames handed to the users             *)

chipVars == <<fifo, arrived>>
ringVars == <<sCanReceiveBuf, ucRxdataWrite, total>>
readVars == <<ucRxdataRead, ucCanRxDatacount>>
copyVars == <<rxid, rxdata, reg, got>>
vars == <<chipVars, enabled, ringVars, readVars, bus_lock, pc, copyVars, handled>>

Init ==
    /\ fifo = <<>> /\ arrived = 0 /\ enabled = TRUE
    /\ sCanReceiveBuf = [i \in 0 .. Size - 1 |-> Empty]
    /\ ucRxdataWrite = 0 /\ ucRxdataRead = 0 /\ ucCanRxDatacount = 0
    /\ bus_lock = "none" /\ pc = "pend"
    /\ rxid = Empty /\ rxdata = Empty /\ reg = 0 /\ got = <<>>
    /\ total = 0 /\ handled = <<>>

Wrap(i) == i % Size

-----------------------------------------------------------------------------
(* The chip, external: when its FIFO is full the last frame is overwritten.*)
Arrive ==
    /\ arrived < MaxFrames
    /\ arrived' = arrived + 1
    /\ fifo' = IF Len(fifo) < FifoDepth THEN Append(fifo, arrived')
               ELSE Append(SubSeq(fifo, 1, FifoDepth - 1), arrived')
    /\ UNCHANGED <<enabled, ringVars, readVars, bus_lock, pc, copyVars, handled>>

(* Mutant of MakeRoom: the read index stays, so the newest frames are the  *)
(* ones that are read next.                                                *)
MakeNoRoom ==
    IF ucCanRxDatacount = Size
    THEN UNCHANGED <<ucRxdataRead, ucCanRxDatacount>>
    ELSE ucCanRxDatacount' = ucCanRxDatacount + 1 /\ UNCHANGED ucRxdataRead

MakeRoom ==
    IF ucCanRxDatacount = Size
    THEN ucRxdataRead' = Wrap(ucRxdataRead + 1) /\ UNCHANGED ucCanRxDatacount
    ELSE ucCanRxDatacount' = ucCanRxDatacount + 1 /\ UNCHANGED ucRxdataRead

Can2_RX_ISR ==
    /\ enabled /\ fifo # <<>>
    /\ fifo' = Tail(fifo)
    /\ total' = total + 1
    /\ sCanReceiveBuf' = [sCanReceiveBuf EXCEPT ![ucRxdataWrite] =
                            [seq |-> total', frame |-> Head(fifo)]]
    /\ ucRxdataWrite' = Wrap(ucRxdataWrite + 1)
    /\ MakeRoom
    /\ UNCHANGED <<arrived, enabled, bus_lock, pc, copyVars, handled>>

-----------------------------------------------------------------------------
(* can_task and bsp_CanReceive().                                          *)

(* The mutex goes to the waiter of the highest priority, which is can.     *)
Pend ==
    /\ pc = "pend" /\ bus_lock = "none"
    /\ bus_lock' = "can" /\ pc' = "test"
    /\ UNCHANGED <<chipVars, enabled, ringVars, readVars, copyVars, handled>>

(* Mutant of Test: without a frame the lock is not given back.             *)
TestKeepsLock ==
    /\ pc = "test"
    /\ pc' = (IF ucCanRxDatacount = 0 THEN "sleep" ELSE "disable")
    /\ UNCHANGED <<chipVars, enabled, ringVars, readVars, bus_lock, copyVars, handled>>

(* Without a frame the task gives the lock back and sleeps 10 ms.          *)
Test ==
    /\ pc = "test"
    /\ IF ucCanRxDatacount = 0
       THEN bus_lock' = "none" /\ pc' = "sleep"
       ELSE pc' = "disable" /\ UNCHANGED bus_lock
    /\ UNCHANGED <<chipVars, enabled, ringVars, readVars, copyVars, handled>>

Sleep ==
    /\ pc = "sleep" /\ pc' = "pend"
    /\ UNCHANGED <<chipVars, enabled, ringVars, readVars, bus_lock, copyVars, handled>>

(* Mutant of SetInterrupt: the interrupt stays enabled.                    *)
LeaveInterrupt(e) == UNCHANGED enabled

SetInterrupt(e) == enabled' = e

Disable ==
    /\ pc = "disable" /\ pc' = "id"
    /\ SetInterrupt(FALSE)
    /\ UNCHANGED <<chipVars, ringVars, readVars, bus_lock, copyVars, handled>>

CopyId ==
    /\ pc = "id" /\ pc' = "data"
    /\ rxid' = sCanReceiveBuf[ucRxdataRead]
    /\ UNCHANGED <<chipVars, enabled, ringVars, readVars, bus_lock, rxdata, reg, got, handled>>

CopyData ==
    /\ pc = "data" /\ pc' = "advance"
    /\ rxdata' = sCanReceiveBuf[ucRxdataRead]
    /\ UNCHANGED <<chipVars, enabled, ringVars, readVars, bus_lock, rxid, reg, got, handled>>

Advance ==
    /\ pc = "advance" /\ pc' = "load"
    /\ ucRxdataRead' = Wrap(ucRxdataRead + 1)
    /\ got' = <<rxdata.seq>>
    /\ UNCHANGED <<chipVars, enabled, ringVars, ucCanRxDatacount, bus_lock, rxid, rxdata, reg, handled>>

(* The decrement is a load and a store.                                    *)
Load ==
    /\ pc = "load" /\ pc' = "count"
    /\ reg' = ucCanRxDatacount
    /\ UNCHANGED <<chipVars, enabled, ringVars, readVars, bus_lock, rxid, rxdata, got, handled>>

Count ==
    /\ pc = "count" /\ pc' = "enable"
    /\ ucCanRxDatacount' = reg - 1
    /\ UNCHANGED <<chipVars, enabled, ringVars, ucRxdataRead, bus_lock, copyVars, handled>>

Enable ==
    /\ pc = "enable" /\ pc' = "dispatch"
    /\ SetInterrupt(TRUE) /\ bus_lock' = "none"
    /\ UNCHANGED <<chipVars, ringVars, readVars, copyVars, handled>>

(* The users are asked in turn until one does not answer -PERR_ENOTSUP;    *)
(* which one it is makes no difference here.                               *)
Dispatch ==
    /\ pc = "dispatch" /\ pc' = "pend"
    /\ handled' = Append(handled, rxdata.frame)
    /\ UNCHANGED <<chipVars, enabled, ringVars, readVars, bus_lock, copyVars>>

CanStep == Pend \/ Test \/ Sleep \/ Disable \/ CopyId \/ CopyData \/ Advance
             \/ Load \/ Count \/ Enable \/ Dispatch

(* can_dispatcher_send_msg() in a task of lower priority.                  *)
SendBegin ==
    /\ bus_lock = "none" /\ pc # "pend"
    /\ bus_lock' = "sender"
    /\ UNCHANGED <<chipVars, enabled, ringVars, readVars, pc, copyVars, handled>>

SendEnd ==
    /\ bus_lock = "sender"
    /\ bus_lock' = "none"
    /\ UNCHANGED <<chipVars, enabled, ringVars, readVars, pc, copyVars, handled>>

Next == Arrive \/ Can2_RX_ISR \/ CanStep \/ SendBegin \/ SendEnd

Spec == Init /\ [][Next]_vars

(* Interrupts are served, can_task runs, and a transmission ends or times  *)
(* out.                                                                    *)
FairSpec == Spec /\ WF_vars(Can2_RX_ISR) /\ WF_vars(CanStep) /\ WF_vars(SendEnd)

-----------------------------------------------------------------------------
(* Every variable has a value the code can give it.                        *)
TypeOK ==
    /\ fifo \in Seq(Nat) /\ Len(fifo) <= FifoDepth /\ arrived \in Nat
    /\ enabled \in BOOLEAN
    /\ sCanReceiveBuf \in [0 .. Size - 1 -> Slot]
    /\ ucRxdataWrite \in 0 .. Size - 1 /\ ucRxdataRead \in 0 .. Size - 1
    /\ ucCanRxDatacount \in 0 .. Size
    /\ bus_lock \in {"none", "can", "sender"}
    /\ pc \in {"pend", "test", "sleep", "disable", "id", "data", "advance",
               "load", "count", "enable", "dispatch"}
    /\ rxid \in Slot /\ rxdata \in Slot /\ reg \in 0 .. Size
    /\ total \in Nat /\ got \in Seq(Nat) /\ handled \in Seq(Nat)

(* Frames in the ring: between its two assignments can_task has taken one  *)
(* that is still counted.                                                  *)
Held == IF pc \in {"load", "count"} THEN ucCanRxDatacount - 1 ELSE ucCanRxDatacount

(* The count of frames and the two indices, written by the interrupt and   *)
(* by can_task, always agree.                                              *)
CountAgrees == ucRxdataWrite = Wrap(ucRxdataRead + Held)

(* The ring is a queue that drops its oldest: what can_task takes is the   *)
(* oldest frame not dropped, whenever the interrupt comes.                 *)
Content == [i \in 1 .. Held |-> sCanReceiveBuf[Wrap(ucRxdataRead + i - 1)].seq]
Queue   == INSTANCE DropOldest WITH
              Capacity <- Size, Writes <- {1}, Reads <- {1}, fifo <- Content
DropsOldestOnly == Queue!Spec

(* A frame is handed to the users whole ...                                *)
NotTorn == pc \in {"enable", "dispatch"} => rxid = rxdata

(* So the interrupt finds the ring consistent whenever it comes, and       *)
(* leaves alone the frame that is being copied.                            *)
RingInv == TypeOK /\ CountAgrees /\ NotTorn

(* ... at most once and in the order of arrival, whatever was lost in the  *)
(* chip or in the ring.                                                    *)
InOrder == \A i, j \in DOMAIN handled : i < j => handled[i] < handled[j]

(* Every frame that arrives is taken or dropped in the end, though senders *)
(* hold the lock again and again.                                          *)
Waiting(n) == \/ \E i \in DOMAIN fifo : fifo[i] = n
              \/ \E i \in 1 .. Held : sCanReceiveBuf[Wrap(ucRxdataRead + i - 1)].frame = n
EveryFrameServed == \A n \in Frames : Waiting(n) ~> ~Waiting(n)
=============================================================================
