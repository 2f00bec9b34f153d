---------------------------- MODULE DumperProofs ----------------------------
(***************************************************************************)
(* Proofs about Dumper for every angle, hold time and clock width that     *)
(* DumperAssumption allows, and any number of commands.                    *)
(***************************************************************************)
EXTENDS Dumper, TLAPS

USE DumperAssumption

Rising == {"MOVINGUP", "TOP"}
IsUp   == IF state \in Rising THEN 1 ELSE 0

(* The drive does what the state says.                                     *)
Drive == motor = CASE state = "MOVINGUP"   -> "up"
                   [] state = "MOVINGDOWN" -> "down"
                   [] OTHER                -> "off"

(* Where motionctrl sleeps, and what it has found before.                  *)
Asleep ==
    /\ pc = "up" => state = "HORIZONTAL" /\ nReverseFlag = 1
    /\ pc = "down" => state = "TOP" /\ held > Hold

(* The angle the program computes from the time is the height.             *)
Height ==
    /\ state = "HORIZONTAL" => height = 0
    /\ state = "MOVINGUP" =>
         height = dumper_angle /\ holdtm = 0 /\ (ran => height < Angle)

(* The hold is no longer than the dumper has been at the top.              *)
Holds ==
    state = "TOP" /\ pc = "cycle" /\ holdtm # 0 =>
        /\ TIME_DIFFERENCE(now, holdtm) <= held
        /\ ran => TIME_DIFFERENCE(now, holdtm) <= Hold

(* Each UNLOAD reported over was accepted, and so was the one under way.   *)
Counted ==
    /\ state \in Rising => nReverseFlag = 0
    /\ overs + nReverseFlag + IsUp <= unloads /\ unloads <= cmds

Stands ==
    serial /\ (nReverseFlag = 1 \/ state \in Rising) => Motionstyle = "STOP" /\ ~pending

IInv == TypeOK /\ Drive /\ Asleep /\ Height /\ Holds /\ Counted /\ Stands

-----------------------------------------------------------------------------
(* The clock one tick later.                                               *)
LEMMA NextTick ==
    ASSUME NEW n \in 0 .. Wrap - 1
    PROVE  (n + 1) % Wrap = IF n + 1 = Wrap THEN 0 ELSE n + 1
<1>1. CASE n + 1 = Wrap
  <2>1. Wrap % Wrap = 0
    OBVIOUS
  <2> QED  BY <1>1, <2>1
<1>2. CASE n + 1 < Wrap
  <2>1. \A m \in 0 .. Wrap - 1 : m % Wrap = m
    OBVIOUS
  <2> QED  BY <1>2, <2>1
<1> QED  BY <1>1, <1>2

(* A difference of two times grows by one with each tick, also when the    *)
(* clock overflows.                                                        *)
LEMMA DifferenceGrows ==
    ASSUME NEW n \in 0 .. Wrap - 1, NEW t \in 0 .. Wrap - 1,
           TIME_DIFFERENCE(n, t) < Wrap - 1
    PROVE  TIME_DIFFERENCE((n + 1) % Wrap, t) = TIME_DIFFERENCE(n, t) + 1
<1>1. CASE n + 1 = Wrap
  BY <1>1, NextTick DEF TIME_DIFFERENCE
<1>2. CASE n + 1 < Wrap
  <2>1. (n + 1) % Wrap = n + 1
    BY <1>2, NextTick
  <2>2. TIME_DIFFERENCE(n + 1, t) = TIME_DIFFERENCE(n, t) + 1
    BY <1>2 DEF TIME_DIFFERENCE
  <2> QED  BY <2>1, <2>2
<1> QED  BY <1>1, <1>2

LEMMA DifferenceType ==
    ASSUME NEW n \in 0 .. Wrap - 1, NEW t \in 0 .. Wrap - 1
    PROVE  TIME_DIFFERENCE(n, t) \in 0 .. Wrap - 1 /\ TIME_DIFFERENCE(n, n) = 0
BY DEF TIME_DIFFERENCE

-----------------------------------------------------------------------------
LEMMA InitIInv == Init => IInv
<1> SUFFICES ASSUME Init PROVE IInv
  OBVIOUS
<1>1. TypeOK
  <2>1. ran \in BOOLEAN /\ pending \in BOOLEAN /\ serial \in BOOLEAN
    BY DEF Init
  <2>2. 0 \in 0 .. Wrap - 1 /\ 0 \in 0 .. Angle /\ 0 \in 0 .. MaxCmds /\ 0 \in 0 .. Hold + 1
    OBVIOUS
  <2> QED  BY <2>1, <2>2 DEF Init, TypeOK
<1>2. Drive /\ Asleep /\ Height /\ Holds
  BY DEF Init, Drive, Asleep, Height, Holds
<1>3. Counted /\ Stands
  BY DEF Init, Counted, Stands, IsUp, Rising
<1> QED  BY <1>1, <1>2, <1>3 DEF IInv

LEMMA CycleIInv ==
    ASSUME IInv, Cycle
    PROVE  IInv'
<1> USE DEF dumperVars, taskVars, moveVars
<1>a. /\ TypeOK /\ Drive /\ Asleep /\ Height /\ Holds /\ Counted /\ Stands
      /\ ran' = TRUE /\ UNCHANGED <<now, height, held, moveVars, unloads, cmds, serial>>
  BY DEF IInv, Cycle
<1> USE DEF IInv, TypeOK, Drive, Asleep, Height, Holds, Counted, Stands, IsUp, Rising,
            dumper_angle
<1>1. CASE pc = "cycle" /\ UpBegin
  BY <1>a, <1>1 DEF UpBegin
<1>2. CASE pc = "cycle" /\ UpStop
  BY <1>a, <1>2 DEF UpStop
<1>3. CASE pc = "cycle" /\ HoldBegin
  <2>1. TIME_DIFFERENCE(now, now) = 0
    BY <1>a, DifferenceType
  <2> QED  BY <1>a, <1>3, <2>1 DEF HoldBegin
<1>4. CASE pc = "cycle" /\ DownBegin
  <2>1. held > Hold
    BY <1>a, <1>4, DifferenceType DEF DownBegin
  <2> QED  BY <1>a, <1>4, <2>1 DEF DownBegin
<1>5. CASE pc = "cycle" /\ DownStop
  BY <1>a, <1>5 DEF DownStop, is_dumper_homing
<1>6. CASE pc = "cycle" /\ NothingToDo
  BY <1>a, <1>6 DEF NothingToDo
<1>7. CASE UpEnd
  <2>1. TIME_DIFFERENCE(now, now) = 0
    BY <1>a, DifferenceType
  <2> QED  BY <1>a, <1>7, <2>1 DEF UpEnd
<1>8. CASE DownEnd
  BY <1>a, <1>8 DEF DownEnd
<1> QED  BY <1>1, <1>2, <1>3, <1>4, <1>5, <1>6, <1>7, <1>8 DEF Cycle

LEMMA TickIInv ==
    ASSUME IInv, Tick
    PROVE  IInv'
<1> USE DEF dumperVars, taskVars, moveVars, countVars
<1>a. TypeOK /\ Drive /\ Asleep /\ Height /\ Holds /\ Counted /\ Stands
  BY DEF IInv
<1>b. /\ ran = TRUE /\ ran' = FALSE /\ now' = (now + 1) % Wrap
      /\ UNCHANGED <<dumperVars, taskVars, moveVars, countVars>>
  BY <1>a DEF Tick, TypeOK
<1>1. now' \in 0 .. Wrap - 1
  BY <1>a, <1>b, NextTick DEF TypeOK
<1>2. held' \in 0 .. Hold + 1 /\ (held > Hold /\ state = "TOP" => held' > Hold)
  BY <1>a DEF Tick, TypeOK
<1>3. height' \in 0 .. Angle /\ Height'
  <2>1. CASE state = "MOVINGUP"
    <3>1. height' = height + 1 /\ height < Angle /\ holdtm = 0
      BY <1>a, <1>b, <2>1 DEF Tick, Drive, Height
    <3>2. TIME_DIFFERENCE(now', tm) = TIME_DIFFERENCE(now, tm) + 1
      BY <1>a, <1>b, <2>1, <3>1, DifferenceGrows DEF TypeOK, Height, dumper_angle
    <3> QED  BY <1>a, <1>b, <2>1, <3>1, <3>2 DEF TypeOK, Height, dumper_angle
  <2>2. CASE state # "MOVINGUP"
    <3>1. height' = height \/ (height' = height - 1 /\ height # 0 /\ state = "MOVINGDOWN")
      BY <1>a, <2>2 DEF Tick, Drive, TypeOK
    <3> QED  BY <1>a, <1>b, <2>2, <3>1 DEF TypeOK, Height
  <2> QED  BY <2>1, <2>2
<1>4. Holds'
  <2> SUFFICES ASSUME state = "TOP", pc = "cycle", holdtm # 0
               PROVE  TIME_DIFFERENCE(now', holdtm) <= held'
    BY <1>b DEF Holds
  <2>1. TIME_DIFFERENCE(now, holdtm) <= held /\ TIME_DIFFERENCE(now, holdtm) <= Hold
    BY <1>a, <1>b DEF Holds
  <2>2. TIME_DIFFERENCE(now', holdtm) = TIME_DIFFERENCE(now, holdtm) + 1
    BY <1>a, <1>b, <2>1, DifferenceGrows, DifferenceType DEF TypeOK
  <2>3. TIME_DIFFERENCE(now, holdtm) \in Nat
    BY <1>a, DifferenceType DEF TypeOK
  <2> QED  BY <1>a, <2>1, <2>2, <2>3 DEF Tick, TypeOK
<1>5. TypeOK'
  BY <1>a, <1>b, <1>1, <1>2, <1>3 DEF TypeOK
<1>6. (Drive /\ Asleep /\ Counted /\ Stands)'
  BY <1>a, <1>b, <1>2 DEF Drive, Asleep, Counted, Stands, IsUp
<1> QED  BY <1>3, <1>4, <1>5, <1>6 DEF IInv

LEMMA NextIInv == IInv /\ [Next]_vars => IInv'
<1> SUFFICES ASSUME IInv, [Next]_vars PROVE IInv'
  OBVIOUS
<1> USE DEF dumperVars, taskVars, moveVars, countVars
<1>a. TypeOK /\ Drive /\ Asleep /\ Height /\ Holds /\ Counted /\ Stands
  BY DEF IInv
<1>1. CASE Unload
  <2>1. /\ cmds' = cmds + 1 /\ cmds < MaxCmds /\ unloads' = unloads + 1 /\ nReverseFlag' = 1
        /\ state \notin Rising /\ Motionstyle = "STOP" /\ (serial' => ~pending)
        /\ UNCHANGED <<now, ran, height, held, dumperVars, holdtm, pc, moveVars, overs>>
    BY <1>1 DEF Unload, Given, Refused, Rising
  <2>2. serial' \in BOOLEAN
    BY <1>a, <1>1 DEF Unload, Given, TypeOK
  <2>3. TypeOK'
    BY <1>a, <2>1, <2>2 DEF TypeOK, Counted
  <2>4. Counted'
    BY <1>a, <2>1 DEF TypeOK, Counted, IsUp, Rising
  <2>5. (Drive /\ Asleep /\ Height /\ Holds /\ Stands)'
    BY <1>a, <2>1 DEF Drive, Asleep, Height, Holds, Stands, Rising, dumper_angle
  <2> QED  BY <2>3, <2>4, <2>5 DEF IInv
<1>2. CASE MoveTest
  BY <1>a, <1>2 DEF IInv, TypeOK, Drive, Asleep, Height, Holds, Counted, Stands, IsUp, Rising,
                    dumper_angle, MoveTest, Given, Refused
<1>3. CASE MoveCommit
  BY <1>a, <1>3 DEF IInv, TypeOK, Drive, Asleep, Height, Holds, Counted, Stands, IsUp, Rising,
                    dumper_angle, MoveCommit
<1>4. CASE MoveEnd
  BY <1>a, <1>4 DEF IInv, TypeOK, Drive, Asleep, Height, Holds, Counted, Stands, IsUp, Rising,
                    dumper_angle, MoveEnd
<1>5. CASE UNCHANGED vars
  BY <1>a, <1>5 DEF IInv, TypeOK, Drive, Asleep, Height, Holds, Counted, Stands, IsUp, Rising,
                    dumper_angle, vars
<1> QED  BY <1>1, <1>2, <1>3, <1>4, <1>5, CycleIInv, TickIInv DEF Next

THEOREM InductiveIInv == Spec => []IInv
<1> QED  BY InitIInv, NextIInv, PTL DEF Spec

(* Every variable has a value the code can give it: above all the dumper   *)
(* never goes further than the angle asked for.                            *)
THEOREM TypeCorrect == Spec => []TypeOK
<1>1. IInv => TypeOK
  BY DEF IInv
<1> QED  BY <1>1, InductiveIInv, PTL

(* While one task gives the commands, a movement tested before an UNLOAD   *)
(* is never committed while the dumper is up.                              *)
THEOREM Standing == Spec => []StandsWhileUp
<1>1. IInv => StandsWhileUp
  BY DEF IInv, Stands, StandsWhileUp, Rising
<1> QED  BY <1>1, InductiveIInv, PTL

(* The dumper is held for its time wherever the clock overflows, and also  *)
(* when the hold begins at time 0, which stands for "not begun".           *)
THEOREM LongEnough == Spec => []HeldLongEnough
<1>1. IInv => HeldLongEnough
  BY DEF IInv, Asleep, HeldLongEnough
<1> QED  BY <1>1, InductiveIInv, PTL

(* HORIZONTAL means that the dumper is down and the drive off.             *)
THEOREM Home == Spec => []HorizontalIsHome
<1>1. IInv => HorizontalIsHome
  BY DEF IInv, Drive, Height, HorizontalIsHome
<1> QED  BY <1>1, InductiveIInv, PTL

(* The dumper never goes further than asked for, is held long enough, and  *)
(* is home when the program takes it for horizontal.                       *)
THEOREM DumperSafe == Spec => []DumperInv
<1>1. TypeOK /\ HeldLongEnough /\ HorizontalIsHome => DumperInv
  BY DEF DumperInv
<1> QED  BY <1>1, TypeCorrect, LongEnough, Home, PTL
=============================================================================
