---------------------------- MODULE CanRingProofs ----------------------------
(***************************************************************************)
(* Proofs about CanRing for rings and chips of every size and any number   *)
(* of frames.  Nothing is assumed of the lock of the bus: that the ring is *)
(* consistent depends on the interrupt being disabled alone.               *)
(***************************************************************************)
EXTENDS CanRing, SequenceTheorems, TLAPS

USE CanRingAssumption

Off == {"id", "data", "advance", "load", "count", "enable"}

(* The interrupt is disabled from the first access of can_task to the ring *)
(* to the last.                                                            *)
Disabled == enabled <=> pc \notin Off

(* The frame can_task has seen is still there, and it copies its halves    *)
(* from one slot.                                                          *)
Copying ==
    /\ pc \in {"disable", "id", "data", "advance", "load", "count"} => ucCanRxDatacount >= 1
    /\ pc = "count" => reg = ucCanRxDatacount
    /\ pc \in {"data", "advance"} => rxid = sCanReceiveBuf[ucRxdataRead]
    /\ pc \in {"advance", "load", "count", "enable", "dispatch"} => rxdata = rxid

IInv == TypeOK /\ Disabled /\ Copying /\ CountAgrees

(* The i-th frame in the ring.                                             *)
R(i) == sCanReceiveBuf[Wrap(ucRxdataRead + i - 1)]

-----------------------------------------------------------------------------
(* An index at most once around.                                           *)
LEMMA WrapIs ==
    ASSUME NEW i \in 0 .. 2 * Size - 1
    PROVE  Wrap(i) = IF i < Size THEN i ELSE i - Size
<1>1. CASE i < Size
  BY <1>1 DEF Wrap
<1>2. CASE i >= Size
  <2>1. \A m \in 0 .. Size - 1 : (Size + m) % Size = m
    OBVIOUS
  <2>2. i - Size \in 0 .. Size - 1 /\ Size + (i - Size) = i
    BY <1>2
  <2> QED  BY <1>2, <2>1, <2>2 DEF Wrap
<1> QED  BY <1>1, <1>2

LEMMA InitIInv == Init => IInv
<1> SUFFICES ASSUME Init PROVE IInv
  OBVIOUS
<1>1. Empty \in Slot
  BY DEF Empty, Slot
<1>2. TypeOK
  <2>1. /\ fifo \in Seq(Nat) /\ got \in Seq(Nat) /\ handled \in Seq(Nat) /\ Len(fifo) = 0
        /\ enabled \in BOOLEAN
    BY DEF Init
  <2>2. /\ sCanReceiveBuf \in [0 .. Size - 1 -> Slot] /\ rxid \in Slot /\ rxdata \in Slot
    BY <1>1 DEF Init
  <2> QED  BY <2>1, <2>2 DEF Init, TypeOK
<1>3. Wrap(0 + 0) = 0
  BY WrapIs
<1> QED  BY <1>2, <1>3 DEF Init, IInv, Disabled, Copying, CountAgrees, Held, Off

(* What the interrupt does to the ring: it adds the frame at the end and,  *)
(* when the ring is full, drops the first.                                 *)
LEMMA InterruptAdds ==
    ASSUME IInv, Can2_RX_ISR
    PROVE  /\ IInv'
           /\ R(Held)' = [seq |-> total + 1, frame |-> Head(fifo)]
           /\ \E d \in {0, 1} :
                /\ d = IF Held = Size THEN 1 ELSE 0
                /\ Held' = Held + 1 - d
                /\ \A i \in 1 .. Held' - 1 : R(i)' = R(i + d)
<1> USE DEF readVars, copyVars
<1> DEFINE new == [seq |-> total + 1, frame |-> Head(fifo)]
           d   == IF Held = Size THEN 1 ELSE 0
<1>a. /\ TypeOK /\ Disabled /\ Copying /\ CountAgrees /\ enabled /\ pc \notin Off
      /\ UNCHANGED <<arrived, enabled, bus_lock, pc, copyVars, handled>>
  BY DEF IInv, Can2_RX_ISR, Disabled
<1>b. new \in Slot /\ Tail(fifo) \in Seq(Nat) /\ Len(Tail(fifo)) <= FifoDepth
  <2>1. fifo # <<>> /\ fifo \in Seq(Nat) /\ Len(fifo) <= FifoDepth /\ total \in Nat
    BY <1>a DEF Can2_RX_ISR, TypeOK
  <2>2. Head(fifo) \in Nat
    BY <2>1
  <2>3. Tail(fifo) \in Seq(Nat) /\ Len(Tail(fifo)) = Len(fifo) - 1
    BY <2>1
  <2>4. Len(fifo) \in Nat
    BY <2>1
  <2>5. new \in Slot
    BY <2>1, <2>2 DEF Slot
  <2> QED  BY <2>1, <2>3, <2>4, <2>5
<1>c. Held = ucCanRxDatacount /\ Held' = ucCanRxDatacount' /\ Held \in 0 .. Size
  BY <1>a DEF Held, Off, TypeOK
<1>d. /\ sCanReceiveBuf' = [sCanReceiveBuf EXCEPT ![ucRxdataWrite] = new]
      /\ ucRxdataWrite' = Wrap(ucRxdataWrite + 1)
      /\ ucRxdataRead' = IF d = 1 THEN Wrap(ucRxdataRead + 1) ELSE ucRxdataRead
      /\ Held' = Held + 1 - d
  BY <1>c DEF Can2_RX_ISR, MakeRoom
<1>e. /\ ucRxdataRead \in 0 .. Size - 1 /\ ucRxdataWrite \in 0 .. Size - 1
      /\ ucRxdataWrite = Wrap(ucRxdataRead + Held)
  BY <1>a DEF TypeOK, CountAgrees
<1> HIDE DEF new
<1>1. /\ ucRxdataRead' \in 0 .. Size - 1 /\ ucRxdataWrite' \in 0 .. Size - 1
      /\ Held' \in 1 .. Size
  BY <1>c, <1>d, <1>e, WrapIs
<1>2. ucRxdataWrite' = Wrap(ucRxdataRead' + Held')
  BY <1>c, <1>d, <1>e, <1>1, WrapIs
<1>3. \A i \in 1 .. Held' - 1 :
        /\ Wrap(ucRxdataRead' + i - 1) = Wrap(ucRxdataRead + (i + d) - 1)
        /\ Wrap(ucRxdataRead' + i - 1) # ucRxdataWrite
        /\ Wrap(ucRxdataRead' + i - 1) \in 0 .. Size - 1
  BY <1>c, <1>d, <1>e, <1>1, WrapIs
<1>4. Wrap(ucRxdataRead' + Held' - 1) = ucRxdataWrite
  BY <1>c, <1>d, <1>e, <1>1, WrapIs
<1>5. sCanReceiveBuf' \in [0 .. Size - 1 -> Slot] /\ sCanReceiveBuf \in [0 .. Size - 1 -> Slot]
  BY <1>a, <1>b, <1>d DEF TypeOK
<1>6. R(Held)' = new
  BY <1>4, <1>5, <1>d, <1>e DEF R
<1>7. \A i \in 1 .. Held' - 1 : R(i)' = R(i + d)
  BY <1>3, <1>5, <1>d DEF R
<1>8. TypeOK'
  BY <1>a, <1>b, <1>c, <1>1, <1>5 DEF TypeOK, Can2_RX_ISR
<1>9. Disabled' /\ Copying'
  BY <1>a, <1>c, <1>1 DEF Disabled, Copying, Off
<1> QED  BY <1>2, <1>6, <1>7, <1>8, <1>9, <1>d DEF IInv, CountAgrees, new

(* can_task takes the first frame of the ring.                             *)
LEMMA AdvanceTakes ==
    ASSUME IInv, Advance
    PROVE  /\ IInv' /\ rxdata = R(1) /\ Held' = Held - 1 /\ Held >= 1
           /\ \A i \in 1 .. Held' : R(i)' = R(i + 1)
<1> USE DEF chipVars, ringVars
<1>a. /\ TypeOK /\ Disabled /\ Copying /\ CountAgrees
      /\ ucRxdataRead' = Wrap(ucRxdataRead + 1) /\ got' = <<rxdata.seq>>
      /\ pc = "advance" /\ pc' = "load"
      /\ UNCHANGED <<chipVars, enabled, ringVars, ucCanRxDatacount, bus_lock, rxid, rxdata, reg, handled>>
  BY DEF IInv, Advance
<1>b. /\ Held = ucCanRxDatacount /\ Held' = Held - 1 /\ Held \in 1 .. Size
      /\ ucRxdataRead \in 0 .. Size - 1 /\ ucRxdataWrite = Wrap(ucRxdataRead + Held)
  BY <1>a DEF Held, TypeOK, Copying, CountAgrees
<1>1. ucRxdataRead' \in 0 .. Size - 1 /\ ucRxdataWrite = Wrap(ucRxdataRead' + Held')
  BY <1>a, <1>b, WrapIs
<1>2. \A i \in 1 .. Held' : Wrap(ucRxdataRead' + i - 1) = Wrap(ucRxdataRead + (i + 1) - 1)
  BY <1>a, <1>b, WrapIs
<1>3. Wrap(ucRxdataRead + 1 - 1) = ucRxdataRead
  BY <1>b, WrapIs
<1>4. rxdata = R(1)
  BY <1>a, <1>3 DEF Copying, R
<1>5. rxdata.seq \in Nat
  BY <1>a DEF TypeOK, Slot
<1>6. TypeOK'
  BY <1>a, <1>1, <1>5 DEF TypeOK
<1>7. Disabled' /\ Copying' /\ CountAgrees'
  BY <1>a, <1>1 DEF Disabled, Copying, CountAgrees, Off
<1> QED  BY <1>a, <1>b, <1>2, <1>4, <1>6, <1>7 DEF IInv, R

(* No other step touches what is held in the ring.                         *)
Elsewhere ==
    /\ UNCHANGED <<sCanReceiveBuf, ucRxdataRead, total, got>>
    /\ Held' = Held

LEMMA OthersKeep ==
    ASSUME IInv, [Next]_vars
    PROVE  Can2_RX_ISR \/ Advance \/ (IInv' /\ Elsewhere)
<1> USE DEF chipVars, ringVars, readVars, copyVars
<1>a. TypeOK /\ Disabled /\ Copying /\ CountAgrees
  BY DEF IInv
<1>1. CASE Arrive
  <2>1. fifo' \in Seq(Nat) /\ Len(fifo') <= FifoDepth /\ arrived' \in Nat
    <3>1. CASE Len(fifo) < FifoDepth
      BY <1>1, <1>a, <3>1 DEF Arrive, TypeOK
    <3>2. CASE ~(Len(fifo) < FifoDepth)
      <4>1. /\ SubSeq(fifo, 1, FifoDepth - 1) \in Seq(Nat)
            /\ Len(SubSeq(fifo, 1, FifoDepth - 1)) = FifoDepth - 1
        BY <1>a, <3>2 DEF TypeOK
      <4> QED  BY <1>1, <1>a, <3>2, <4>1 DEF Arrive, TypeOK
    <3> QED  BY <3>1, <3>2
  <2> QED  BY <1>1, <1>a, <2>1 DEF Arrive, IInv, TypeOK, Disabled, Copying, CountAgrees, Held, Elsewhere
<1>2. CASE Pend \/ Sleep \/ SendBegin \/ SendEnd
  BY <1>2, <1>a DEF Pend, Sleep, SendBegin, SendEnd, IInv, TypeOK, Disabled, Copying, CountAgrees,
                    Held, Elsewhere, Off
<1>3. CASE Test
  BY <1>3, <1>a DEF Test, IInv, TypeOK, Disabled, Copying, CountAgrees, Held, Elsewhere, Off
<1>4. CASE Disable
  BY <1>4, <1>a DEF Disable, SetInterrupt, IInv, TypeOK, Disabled, Copying, CountAgrees, Held, Elsewhere, Off
<1>5. CASE CopyId \/ CopyData
  <2>1. sCanReceiveBuf[ucRxdataRead] \in Slot
    BY <1>a DEF TypeOK
  <2> QED  BY <1>5, <1>a, <2>1 DEF CopyId, CopyData, IInv, TypeOK, Disabled, Copying, CountAgrees,
                    Held, Elsewhere, Off
<1>6. CASE Load
  BY <1>6, <1>a DEF Load, IInv, TypeOK, Disabled, Copying, CountAgrees, Held, Elsewhere, Off
<1>7. CASE Count
  BY <1>7, <1>a DEF Count, IInv, TypeOK, Disabled, Copying, CountAgrees, Held, Elsewhere, Off
<1>8. CASE Enable
  BY <1>8, <1>a DEF Enable, SetInterrupt, IInv, TypeOK, Disabled, Copying, CountAgrees, Held, Elsewhere, Off
<1>9. CASE Dispatch
  <2>1. handled' \in Seq(Nat)
    BY <1>9, <1>a DEF Dispatch, TypeOK, Slot
  <2> QED  BY <1>9, <1>a, <2>1 DEF Dispatch, IInv, TypeOK, Disabled, Copying, CountAgrees,
                    Held, Elsewhere, Off
<1>10. CASE UNCHANGED vars
  BY <1>10, <1>a DEF vars, IInv, TypeOK, Disabled, Copying, CountAgrees, Held, Elsewhere, Off
<1> QED  BY <1>1, <1>2, <1>3, <1>4, <1>5, <1>6, <1>7, <1>8, <1>9, <1>10 DEF Next, CanStep

THEOREM InductiveIInv == Spec => []IInv
<1>1. IInv /\ [Next]_vars => IInv'
  BY InterruptAdds, AdvanceTakes, OthersKeep
<1> QED  BY <1>1, InitIInv, PTL DEF Spec

(* Every variable has a value the code can give it: the indices stay in    *)
(* the ring and the count is never negative.                               *)
THEOREM TypeCorrect == Spec => []TypeOK
<1>1. IInv => TypeOK
  BY DEF IInv
<1> QED  BY <1>1, InductiveIInv, PTL

(* The interrupt and can_task both write the count, never at once.         *)
THEOREM CountCorrect == Spec => []CountAgrees
<1>1. IInv => CountAgrees
  BY DEF IInv
<1> QED  BY <1>1, InductiveIInv, PTL

(* No interrupt comes between the two halves of a copy.                    *)
THEOREM FramesWhole == Spec => []NotTorn
<1>1. IInv => NotTorn
  BY DEF IInv, Copying, NotTorn
<1> QED  BY <1>1, InductiveIInv, PTL
-----------------------------------------------------------------------------
(* The order of the frames: those handed on, the one in hand, those in the *)
(* ring, those in the chip.                                                *)
InHand == pc \in {"load", "count", "enable", "dispatch"}

FifoOrder ==
    /\ \A i \in DOMAIN fifo : fifo[i] <= arrived
    /\ \A i, j \in DOMAIN fifo : i < j => fifo[i] < fifo[j]

RingOrder ==
    /\ \A i \in 1 .. Held : R(i).frame <= arrived
    /\ \A i, j \in 1 .. Held : i < j => R(i).frame < R(j).frame
    /\ \A i \in 1 .. Held : \A j \in DOMAIN fifo : R(i).frame < fifo[j]

HandOrder ==
    InHand => /\ rxdata.frame <= arrived
              /\ \A i \in 1 .. Held : rxdata.frame < R(i).frame
              /\ \A j \in DOMAIN fifo : rxdata.frame < fifo[j]

HandledOrder ==
    \A k \in DOMAIN handled :
        /\ handled[k] <= arrived
        /\ InHand => handled[k] < rxdata.frame
        /\ \A i \in 1 .. Held : handled[k] < R(i).frame
        /\ \A j \in DOMAIN fifo : handled[k] < fifo[j]

OrderInv == IInv /\ FifoOrder /\ RingOrder /\ HandOrder /\ HandledOrder /\ InOrder

LEMMA SlotOfRing == ASSUME IInv, NEW i \in 1 .. Held PROVE R(i) \in Slot /\ R(i).frame \in Nat
<1>1. Held \in 0 .. Size /\ ucRxdataRead \in 0 .. Size - 1
  BY DEF IInv, TypeOK, Copying, Held
<1>2. Wrap(ucRxdataRead + i - 1) \in 0 .. Size - 1
  BY <1>1, WrapIs
<1> QED  BY <1>2 DEF IInv, TypeOK, R, Slot

(* A frame arrives, as the last of the chip.                               *)
LEMMA ArriveKeepsOrder ==
    ASSUME OrderInv, Arrive, IInv', Elsewhere
    PROVE  OrderInv'
<1>a. /\ UNCHANGED <<handled, rxdata, pc, Held>> /\ \A i : R(i)' = R(i)
  BY DEF Arrive, Elsewhere, copyVars, R
<1>b. /\ fifo \in Seq(Nat) /\ arrived \in Nat /\ Len(fifo) <= FifoDepth /\ arrived' = arrived + 1
      /\ handled \in Seq(Nat) /\ rxdata.frame \in Nat
  BY DEF OrderInv, IInv, TypeOK, Slot, Arrive
<1>1. \A j \in DOMAIN fifo' : \/ j \in DOMAIN fifo /\ fifo'[j] = fifo[j]
                              \/ j = Len(fifo') /\ fifo'[j] = arrived + 1
  <2>1. CASE Len(fifo) < FifoDepth
    BY <1>b, <2>1 DEF Arrive
  <2>2. CASE ~(Len(fifo) < FifoDepth)
    <3> DEFINE s == SubSeq(fifo, 1, FifoDepth - 1)
    <3>a. FifoDepth - 1 \in 0 .. Len(fifo) /\ Len(fifo) \in Nat
      BY <1>b, <2>2 DEF CanRingAssumption
    <3>b. /\ s \in Seq(Nat) /\ Len(s) = FifoDepth - 1
          /\ \A j \in 1 .. FifoDepth - 1 : s[j] = fifo[j]
      BY <1>b, <3>a, SubSeqProperties
    <3>1. /\ s \in Seq(Nat) /\ Len(s) = FifoDepth - 1
          /\ \A j \in 1 .. FifoDepth - 1 : s[j] = fifo[j] /\ j \in DOMAIN fifo
      BY <1>b, <3>a, <3>b
    <3>2. fifo' = Append(s, arrived + 1)
      BY <1>b, <2>2 DEF Arrive
    <3> HIDE DEF s
    <3> QED  BY <3>1, <3>2
  <2> QED  BY <2>1, <2>2
<1>2. fifo' \in Seq(Nat) /\ \A j \in DOMAIN fifo' : fifo'[j] \in Nat /\ j \in Nat /\ j <= Len(fifo')
  BY SMTT(30) DEF IInv, TypeOK
<1>3. FifoOrder'
  <2>1. \A j \in DOMAIN fifo : fifo[j] \in Nat /\ fifo[j] <= arrived /\ j \in Nat
    BY <1>b DEF OrderInv, FifoOrder
  <2>2. \A j \in DOMAIN fifo' : fifo'[j] <= arrived + 1
    <3> SUFFICES ASSUME NEW j \in DOMAIN fifo' PROVE fifo'[j] <= arrived + 1
      OBVIOUS
    <3>1. CASE j \in DOMAIN fifo /\ fifo'[j] = fifo[j]
      BY <3>1, <2>1, <1>b
    <3>2. CASE fifo'[j] = arrived + 1
      BY <3>2, <1>b
    <3> QED  BY <1>1, <3>1, <3>2
  <2>3. \A i, j \in DOMAIN fifo' : i < j => fifo'[i] < fifo'[j]
    <3> SUFFICES ASSUME NEW i \in DOMAIN fifo', NEW j \in DOMAIN fifo', i < j
                 PROVE  fifo'[i] < fifo'[j]
      OBVIOUS
    <3>1. i \in DOMAIN fifo /\ fifo'[i] = fifo[i]
      BY <1>1, <1>2
    <3>2. CASE j \in DOMAIN fifo /\ fifo'[j] = fifo[j]
      BY <3>1, <3>2 DEF OrderInv, FifoOrder
    <3>3. CASE fifo'[j] = arrived + 1
      BY <3>1, <3>3, <2>1, <1>b
    <3> QED  BY <1>1, <3>2, <3>3
  <2> QED  BY <1>b, <2>2, <2>3 DEF FifoOrder
<1>4. \A i \in 1 .. Held : R(i).frame \in Nat
  BY SlotOfRing DEF OrderInv
<1>5. RingOrder'
  <2>1. \A i \in 1 .. Held : R(i).frame <= arrived + 1
    BY <1>4, <1>b DEF OrderInv, RingOrder
  <2>2. \A i \in 1 .. Held : \A j \in DOMAIN fifo' : R(i).frame < fifo'[j]
    BY <1>1, <1>4, <1>b DEF OrderInv, RingOrder
  <2> QED  BY <2>1, <2>2, <1>a, <1>b DEF OrderInv, RingOrder
<1>6. HandOrder'
  BY <1>1, <1>a, <1>b, SMTT(30) DEF OrderInv, HandOrder, InHand
<1>7. HandledOrder'
  <2>1. \A k \in DOMAIN handled : handled[k] \in Nat
    BY <1>b
  <2> QED  BY <1>1, <1>a, <1>b, <2>1 DEF OrderInv, HandledOrder, InHand
<1> QED  BY <1>3, <1>5, <1>6, <1>7, <1>a DEF OrderInv, InOrder

(* The first of the chip becomes the last of the ring.                     *)
LEMMA InterruptKeepsOrder ==
    ASSUME OrderInv, Can2_RX_ISR
    PROVE  OrderInv'
<1>a. /\ IInv /\ IInv' /\ R(Held)'.frame = Head(fifo)
      /\ UNCHANGED <<arrived, handled, rxdata, pc>> /\ fifo' = Tail(fifo)
  BY InterruptAdds DEF OrderInv, Can2_RX_ISR, copyVars
<1>b. PICK d \in {0, 1} : /\ d = IF Held = Size THEN 1 ELSE 0
                          /\ Held' = Held + 1 - d
                          /\ \A i \in 1 .. Held' - 1 : R(i)' = R(i + d)
  BY InterruptAdds DEF OrderInv
<1>c. /\ fifo \in Seq(Nat) /\ fifo # <<>> /\ Held \in 0 .. Size
      /\ handled \in Seq(Nat) /\ rxdata.frame \in Nat /\ arrived \in Nat
  BY <1>a DEF IInv, TypeOK, Slot, Held, Copying, Can2_RX_ISR
<1>d. /\ 1 \in DOMAIN fifo /\ Head(fifo) = fifo[1] /\ fifo[1] \in Nat
      /\ \A j \in DOMAIN Tail(fifo) : /\ j + 1 \in DOMAIN fifo /\ Tail(fifo)[j] = fifo[j + 1]
                                      /\ j \in Nat /\ 1 < j + 1 /\ fifo[j + 1] \in Nat
  BY <1>c
<1>e. \A i \in 1 .. Held' : \/ i \in 1 .. Held' - 1 /\ i + d \in 1 .. Held /\ R(i)'.frame = R(i + d).frame
                            \/ i = Held' /\ R(i)'.frame = fifo[1]
  BY <1>a, <1>b, <1>c, <1>d
<1>f. \A i \in 1 .. Held : R(i).frame \in Nat
  BY SlotOfRing, <1>a
<1>1. FifoOrder'
  BY <1>a, <1>d, <1>c, SMTT(30) DEF OrderInv, FifoOrder
<1>2. RingOrder'
  <2>1. \A i \in 1 .. Held' : R(i)'.frame <= arrived
    BY <1>e, <1>d, <1>f, <1>c DEF OrderInv, RingOrder, FifoOrder
  <2>2. \A i, j \in 1 .. Held' : i < j => R(i)'.frame < R(j)'.frame
    <3> SUFFICES ASSUME NEW i \in 1 .. Held', NEW j \in 1 .. Held', i < j
                 PROVE  R(i)'.frame < R(j)'.frame
      OBVIOUS
    <3>1. i # Held' /\ i + d < j + d
      BY <1>b, <1>c
    <3>2. i + d \in 1 .. Held /\ R(i)'.frame = R(i + d).frame
      BY <1>e, <3>1
    <3>3. CASE j + d \in 1 .. Held /\ R(j)'.frame = R(j + d).frame
      BY <3>1, <3>2, <3>3 DEF OrderInv, RingOrder
    <3>4. CASE R(j)'.frame = fifo[1]
      BY <3>2, <3>4, <1>d DEF OrderInv, RingOrder
    <3> QED  BY <1>e, <3>3, <3>4
  <2>3. \A i \in 1 .. Held' : \A j \in DOMAIN fifo' : R(i)'.frame < fifo'[j]
    BY <1>a, <1>e, <1>d, <1>f DEF OrderInv, RingOrder, FifoOrder
  <2> QED  BY <1>a, <2>1, <2>2, <2>3 DEF RingOrder
<1>3. HandOrder'
  <2> SUFFICES ASSUME InHand
               PROVE  /\ rxdata.frame <= arrived
                      /\ \A i \in 1 .. Held' : rxdata.frame < R(i)'.frame
                      /\ \A j \in DOMAIN fifo' : rxdata.frame < fifo'[j]
    BY <1>a DEF HandOrder, InHand
  <2> QED  BY <1>a, <1>e, <1>d DEF OrderInv, HandOrder
<1>4. HandledOrder'
  <2> SUFFICES ASSUME NEW k \in DOMAIN handled
               PROVE  /\ handled[k] <= arrived
                      /\ InHand => handled[k] < rxdata.frame
                      /\ \A i \in 1 .. Held' : handled[k] < R(i)'.frame
                      /\ \A j \in DOMAIN fifo' : handled[k] < fifo'[j]
    BY <1>a DEF HandledOrder, InHand
  <2> QED  BY <1>a, <1>e, <1>d DEF OrderInv, HandledOrder
<1> QED  BY <1>1, <1>2, <1>3, <1>4, <1>a DEF OrderInv, InOrder

(* The first of the ring comes into the hand.                              *)
LEMMA AdvanceKeepsOrder ==
    ASSUME OrderInv, Advance
    PROVE  OrderInv'
<1>a. /\ IInv /\ IInv' /\ rxdata.frame = R(1).frame /\ Held' = Held - 1
      /\ \A i \in 1 .. Held' : R(i)' = R(i + 1)
      /\ UNCHANGED <<arrived, fifo, handled, rxdata>>
  BY AdvanceTakes DEF OrderInv, Advance, chipVars
<1>b. Held \in 1 .. Size
  <2>1. Held >= 1
    BY AdvanceTakes DEF OrderInv
  <2>2. Held \in 0 .. Size
    BY <1>a DEF IInv, TypeOK, Held, Advance
  <2> QED  BY <2>1, <2>2
<1>c. \A i \in 1 .. Held' : i + 1 \in 1 .. Held /\ 1 < i + 1 /\ R(i)'.frame = R(i + 1).frame
  BY <1>a, <1>b
<1>d. 1 \in 1 .. Held
  BY <1>b
<1>1. FifoOrder'
  BY <1>a DEF OrderInv, FifoOrder
<1>2. RingOrder'
  <2>1. \A i, j \in 1 .. Held' : i < j => R(i)'.frame < R(j)'.frame
    <3> SUFFICES ASSUME NEW i \in 1 .. Held', NEW j \in 1 .. Held', i < j
                 PROVE  R(i + 1).frame < R(j + 1).frame
      BY <1>c
    <3>1. i + 1 < j + 1
      BY <1>a, <1>b
    <3> QED  BY <3>1, <1>c DEF OrderInv, RingOrder
  <2> QED  BY <1>a, <1>c, <2>1 DEF OrderInv, RingOrder
<1>3. HandOrder'
  <2>1. /\ rxdata.frame <= arrived
        /\ \A i \in 1 .. Held' : rxdata.frame < R(i)'.frame
        /\ \A j \in DOMAIN fifo : rxdata.frame < fifo[j]
    BY <1>a, <1>c, <1>d DEF OrderInv, RingOrder
  <2> QED  BY <1>a, <2>1 DEF HandOrder
<1>4. HandledOrder'
  <2>1. \A k \in DOMAIN handled : /\ handled[k] <= arrived
                                  /\ handled[k] < rxdata.frame
                                  /\ \A i \in 1 .. Held' : handled[k] < R(i)'.frame
                                  /\ \A j \in DOMAIN fifo : handled[k] < fifo[j]
    BY <1>a, <1>c, <1>d DEF OrderInv, HandledOrder
  <2> QED  BY <1>a, <2>1 DEF HandledOrder
<1> QED  BY <1>1, <1>2, <1>3, <1>4, <1>a DEF OrderInv, InOrder

(* The frame in hand is handed on.                                         *)
LEMMA DispatchKeepsOrder ==
    ASSUME OrderInv, Dispatch, IInv', Elsewhere
    PROVE  OrderInv'
<1>a. /\ UNCHANGED <<arrived, fifo, Held>> /\ \A i : R(i)' = R(i)
      /\ InHand /\ ~InHand' /\ handled' = Append(handled, rxdata.frame)
  BY DEF Dispatch, Elsewhere, chipVars, R, InHand
<1>b. handled \in Seq(Nat) /\ rxdata.frame \in Nat
  BY DEF OrderInv, IInv, TypeOK, Slot
<1>c. \A k \in DOMAIN handled' : \/ k \in DOMAIN handled /\ handled'[k] = handled[k]
                                 \/ k = Len(handled') /\ handled'[k] = rxdata.frame
  BY <1>a, <1>b
<1>1. FifoOrder' /\ RingOrder' /\ HandOrder'
  BY <1>a DEF OrderInv, FifoOrder, RingOrder, HandOrder
<1>2. HandledOrder'
  BY <1>a, <1>c DEF OrderInv, HandledOrder, HandOrder
<1>3. InOrder'
  <2>1. \A i, j \in DOMAIN handled' : i < j => i \in DOMAIN handled
    BY <1>a, <1>b
  <2> QED  BY <1>a, <1>c, <2>1, <1>b DEF OrderInv, InOrder, HandledOrder
<1> QED  BY <1>1, <1>2, <1>3 DEF OrderInv

LEMMA InitOrder == Init => OrderInv
<1> SUFFICES ASSUME Init PROVE OrderInv
  OBVIOUS
<1>1. IInv
  BY InitIInv
<1>2. Held = 0 /\ ~InHand /\ DOMAIN fifo = {} /\ DOMAIN handled = {}
  BY DEF Init, Held, InHand
<1> QED  BY <1>1, <1>2 DEF OrderInv, FifoOrder, RingOrder, HandOrder, HandledOrder, InOrder

LEMMA StepKeepsOrder == OrderInv /\ [Next]_vars => OrderInv'
<1> SUFFICES ASSUME OrderInv, [Next]_vars PROVE OrderInv'
  OBVIOUS
<1>1. Can2_RX_ISR \/ Advance \/ (IInv' /\ Elsewhere)
  BY OthersKeep DEF OrderInv
<1>2. CASE Can2_RX_ISR
  BY <1>2, InterruptKeepsOrder
<1>3. CASE Advance
  BY <1>3, AdvanceKeepsOrder
<1>4. CASE IInv' /\ Elsewhere
  <2>1. CASE Arrive
    BY <1>4, <2>1, ArriveKeepsOrder
  <2>2. CASE Dispatch
    BY <1>4, <2>2, DispatchKeepsOrder
  <2>3. CASE Can2_RX_ISR \/ Advance
    BY <1>2, <1>3, <2>3
  <2>4. CASE ~(Arrive \/ Dispatch \/ Can2_RX_ISR \/ Advance)
    <3>1. UNCHANGED <<arrived, fifo, handled>> /\ (InHand' => InHand /\ UNCHANGED rxdata)
      BY <2>4 DEF Next, CanStep, Pend, Test, Sleep, Disable, CopyId, CopyData, Load, Count, Enable,
                  SendBegin, SendEnd, vars, chipVars, copyVars, InHand
    <3>2. Held' = Held /\ \A i : R(i)' = R(i)
      BY <1>4 DEF Elsewhere, R
    <3> QED  BY <1>4, <3>1, <3>2 DEF OrderInv, FifoOrder, RingOrder, HandOrder, HandledOrder, InOrder
  <2> QED  BY <2>1, <2>2, <2>3, <2>4
<1> QED  BY <1>1, <1>2, <1>3, <1>4

(* Frames reach the users in the order of their arrival and at most once,  *)
(* whatever the chip and the ring lose and whenever the interrupt comes.   *)
THEOREM FramesInOrder == Spec => []InOrder
<1>1. OrderInv => InOrder
  BY DEF OrderInv
<1> QED  BY <1>1, InitOrder, StepKeepsOrder, PTL DEF Spec
-----------------------------------------------------------------------------
(* The ring is a queue that drops its oldest.                              *)

LEMMA SameSequence ==
    ASSUME NEW s \in Seq(Nat), NEW t \in Seq(Nat), Len(s) = Len(t),
           \A i \in 1 .. Len(s) : s[i] = t[i]
    PROVE  s = t
OBVIOUS

LEMMA ContentIs ==
    ASSUME IInv
    PROVE  /\ Content \in Seq(Nat) /\ Len(Content) = Held /\ Held \in 0 .. Size
           /\ \A i \in 1 .. Held : Content[i] = R(i).seq /\ R(i).seq \in Nat
<1>1. Held \in 0 .. Size
  BY DEF IInv, TypeOK, Copying, Held
<1>2. \A i \in 1 .. Held : R(i).seq \in Nat
  BY SlotOfRing DEF Slot
<1>3. Content = [i \in 1 .. Held |-> R(i).seq]
  BY DEF Content, R
<1> QED  BY <1>1, <1>2, <1>3

LEMMA OneMore ==
    ASSUME NEW s \in Seq(Nat), NEW one \in Seq(Nat), Len(one) = 1
    PROVE  /\ s \o one \in Seq(Nat) /\ Len(s \o one) = Len(s) + 1
           /\ (s \o one)[Len(s) + 1] = one[1]
           /\ \A i \in 1 .. Len(s) : (s \o one)[i] = s[i]
<1>1. Len(s) \in Nat /\ Len(one) \in Nat
  OBVIOUS
<1>2. /\ s \o one \in Seq(Nat) /\ Len(s \o one) = Len(s) + Len(one)
      /\ \A i \in 1 .. Len(s) + Len(one) :
            (s \o one)[i] = IF i <= Len(s) THEN s[i] ELSE one[i - Len(s)]
  BY ConcatProperties
<1>3. (s \o one)[Len(s) + 1] = one[1]
  BY <1>1, <1>2
<1> QED  BY <1>1, <1>2, <1>3

LEMMA InterruptWrites ==
    ASSUME IInv, Can2_RX_ISR
    PROVE  Queue!Write
<1>a. IInv' /\ total \in Nat /\ total' = total + 1 /\ got' = got /\ R(Held)'.seq = total + 1
  BY InterruptAdds, SMTT(30) DEF Can2_RX_ISR, copyVars, IInv, TypeOK
<1>b. PICK d \in {0, 1} : /\ d = IF Held = Size THEN 1 ELSE 0
                          /\ Held' = Held + 1 - d
                          /\ \A i \in 1 .. Held' - 1 : R(i)' = R(i + d)
  BY InterruptAdds
<1>c. /\ Content \in Seq(Nat) /\ Len(Content) = Held /\ Held \in 0 .. Size
      /\ \A i \in 1 .. Held : Content[i] = R(i).seq /\ R(i).seq \in Nat
  BY ContentIs
<1>d. /\ Content' \in Seq(Nat) /\ Len(Content') = Held' /\ Held' \in 0 .. Size
      /\ \A i \in 1 .. Held' : Content'[i] = R(i)'.seq
  <2>1. (/\ Content \in Seq(Nat) /\ Len(Content) = Held /\ Held \in 0 .. Size
         /\ \A i \in 1 .. Held : Content[i] = R(i).seq /\ R(i).seq \in Nat)'
    BY <1>a, ContentIs, PTL
  <2> QED  BY <2>1
<1> DEFINE one == [i \in 1 .. 1 |-> total + i]
           w   == Content \o one
<1>1. one \in Seq(Nat) /\ Len(one) = 1 /\ one[1] = total + 1
  BY <1>a
<1> HIDE DEF one
<1>2. /\ w \in Seq(Nat) /\ Len(w) = Held + 1 /\ w[Held + 1] = total + 1
      /\ \A i \in 1 .. Held : w[i] = R(i).seq
  BY <1>1, <1>c, OneMore
<1> HIDE DEF w
<1>3. /\ Queue!Last(w, Size) \in Seq(Nat) /\ Len(Queue!Last(w, Size)) = Held'
      /\ \A i \in 1 .. Held' : Queue!Last(w, Size)[i] = w[i + d]
  <2>1. CASE Held = Size
    <3>1. Queue!Last(w, Size) = SubSeq(w, 2, Size + 1)
      BY <2>1, <1>2, <1>c DEF Queue!Last
    <3> QED  BY <2>1, <3>1, <1>2, <1>b
  <2>2. CASE Held # Size
    <3>1. Queue!Last(w, Size) = w
      BY <2>2, <1>2, <1>c DEF Queue!Last
    <3> QED  BY <2>2, <3>1, <1>2, <1>b, <1>c
  <2> QED  BY <2>1, <2>2
<1>4. \A i \in 1 .. Held' : Content'[i] = w[i + d]
  <2> SUFFICES ASSUME NEW i \in 1 .. Held' PROVE Content'[i] = w[i + d]
    OBVIOUS
  <2>1. CASE i = Held'
    <3>1. R(i)' = R(Held)'
      BY <2>1
    <3>2. i + d = Held + 1
      BY <2>1, <1>b, <1>c
    <3> QED  BY <3>1, <3>2, <1>a, <1>d, <1>2
  <2>2. CASE i # Held'
    <3>1. i \in 1 .. Held' - 1 /\ i + d \in 1 .. Held
      BY <2>2, <1>b, <1>c
    <3> QED  BY <3>1, <1>b, <1>d, <1>2
  <2> QED  BY <2>1, <2>2
<1>5. Content' = Queue!Last(w, Size)
  BY <1>d, <1>3, <1>4, SameSequence
<1> QED  BY <1>a, <1>5 DEF Queue!Write, w, one

LEMMA AdvanceReads ==
    ASSUME IInv, Advance
    PROVE  Queue!Read
<1>a. /\ IInv' /\ rxdata = R(1) /\ Held' = Held - 1 /\ Held >= 1
      /\ \A i \in 1 .. Held' : R(i)' = R(i + 1)
      /\ got' = <<rxdata.seq>> /\ total' = total
  BY AdvanceTakes DEF Advance, ringVars
<1>c. /\ Content \in Seq(Nat) /\ Len(Content) = Held /\ Held \in 0 .. Size
      /\ \A i \in 1 .. Held : Content[i] = R(i).seq /\ R(i).seq \in Nat
  BY ContentIs
<1>d. /\ Content' \in Seq(Nat) /\ Len(Content') = Held' /\ Held' \in 0 .. Size
      /\ \A i \in 1 .. Held' : Content'[i] = R(i)'.seq
  <2>1. (/\ Content \in Seq(Nat) /\ Len(Content) = Held /\ Held \in 0 .. Size
         /\ \A i \in 1 .. Held : Content[i] = R(i).seq /\ R(i).seq \in Nat)'
    BY <1>a, ContentIs, PTL
  <2> QED  BY <2>1
<1>1. got' = <<Content[1]>> /\ Content[1] \in Nat
  BY <1>a, <1>c
<1>2. got' \in Seq(Nat) /\ Len(got') = 1 /\ got'[1] = Content[1]
  BY <1>1
<1>3. got' = Queue!First(Content, 1)
  <2>1. CASE Held = 1
    <3>1. Queue!First(Content, 1) = Content
      BY <2>1, <1>c DEF Queue!First
    <3>2. got' = Content
      BY <2>1, <1>2, <1>c, SameSequence
    <3> QED  BY <3>1, <3>2
  <2>2. CASE Held # 1
    <3> DEFINE f == SubSeq(Content, 1, 1)
    <3>1. Queue!First(Content, 1) = f
      BY <2>2, <1>a, <1>c DEF Queue!First
    <3>2. f \in Seq(Nat) /\ Len(f) = 1 /\ f[1] = Content[1]
      BY <1>a, <1>c
    <3> HIDE DEF f
    <3>3. got' = f
      BY <1>2, <3>2, SameSequence
    <3> QED  BY <3>1, <3>3
  <2> QED  BY <2>1, <2>2
<1>4. Content' = SubSeq(Content, Len(got') + 1, Len(Content))
  <2> DEFINE r == SubSeq(Content, 2, Held)
  <2>1. /\ r \in Seq(Nat) /\ Len(r) = Held - 1
        /\ \A i \in 1 .. Held - 1 : r[i] = Content[i + 1]
    BY <1>a, <1>c
  <2> HIDE DEF r
  <2>2. \A i \in 1 .. Held' : Content'[i] = r[i]
    <3> SUFFICES ASSUME NEW i \in 1 .. Held' PROVE Content'[i] = r[i]
      OBVIOUS
    <3>1. i + 1 \in 1 .. Held /\ i \in 1 .. Held - 1
      BY <1>a, <1>c
    <3> QED  BY <3>1, <2>1, <1>a, <1>c, <1>d
  <2>3. Content' = r
    BY <2>1, <2>2, <1>a, <1>d, SameSequence
  <2> QED  BY <2>3, <1>2, <1>c DEF r
<1> QED  BY <1>a, <1>3, <1>4 DEF Queue!Read

(* The interrupt writes a frame, can_task reads one, and every other step  *)
(* leaves the queue alone: what can_task takes is always the oldest frame  *)
(* that was not dropped.                                                   *)
THEOREM RingIsQueue == Spec => DropsOldestOnly
<1>1. Init => Queue!Init
  <2> SUFFICES ASSUME Init PROVE Queue!Init
    OBVIOUS
  <2>1. Held = 0 /\ IInv
    BY InitIInv DEF Init, Held
  <2>2. Content \in Seq(Nat) /\ Len(Content) = 0
    BY <2>1, ContentIs
  <2>3. Content = <<>>
    BY <2>2
  <2> QED  BY <2>3 DEF Init, Queue!Init
<1>2. IInv /\ [Next]_vars => [Queue!Next]_(Queue!vars)
  <2> SUFFICES ASSUME IInv, [Next]_vars PROVE [Queue!Next]_(Queue!vars)
    OBVIOUS
  <2>1. CASE Can2_RX_ISR
    BY <2>1, InterruptWrites DEF Queue!Next
  <2>2. CASE Advance
    BY <2>2, AdvanceReads DEF Queue!Next
  <2>3. CASE Elsewhere
    <3>1. Content' = Content
      BY <2>3 DEF Elsewhere, Content
    <3> QED  BY <2>3, <3>1 DEF Elsewhere, Queue!vars
  <2> QED  BY <2>1, <2>2, <2>3, OthersKeep
<1> QED  BY <1>1, <1>2, InductiveIInv, PTL DEF Spec, DropsOldestOnly, Queue!Spec

(* The interrupt finds the ring consistent whenever it comes, and frames   *)
(* are handed on whole.                                                    *)
THEOREM RingSafe == Spec => []RingInv
<1>1. TypeOK /\ CountAgrees /\ NotTorn => RingInv
  BY DEF RingInv
<1> QED  BY <1>1, TypeCorrect, CountCorrect, FramesWhole, PTL
=============================================================================
