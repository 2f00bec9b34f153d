----------------------------- MODULE MotionProofs -----------------------------
(***************************************************************************)
(* Proofs about StraightRun and SlidingFilter for every distance of the    *)
(* codes, every set of codes that cannot be read, commands of every number *)
(* and length, wheels that measure wrong within the margins of the code,   *)
(* and filters of every size; and about Turn for every resolution of the   *)
(* angle, number of turns and patience with the camera.                    *)
(***************************************************************************)
EXTENDS SlidingFilter, Turn, TLAPS

USE StraightRunAssumption, PrecisionAssumption DEF Tag

(* The code the vehicle has read last, and how far it is behind it.        *)
Here == twoD_TagCodeOld - Tag(0)
X    == pos - Here * D

(* The commands: what they ask for lies on the lane.                       *)
OnLane == dest + cmd <= routes * MaxCodes

(* The codes sRemain counts: those of iPath, unless a command was lost.    *)
Counted == iPath + surplus

(* At rest the vehicle stands on a code, with the codes of the commands    *)
(* committed so far to go, or fewer.                                       *)
AtRest ==
    ~moving /\ ending = "none" =>
        /\ X = 0 /\ NewTag = 0 /\ can = "idle" /\ enc = 0 /\ RealTwoDProgress = 0
        /\ sRemain = D * Counted /\ Here + Counted <= dest
        /\ ~erased => surplus = 0 /\ iPath = dest - Here
        /\ Motionstyle = "GOSTRAIGHT" => iPath >= 1
        /\ Motionstyle = "STOP" /\ ~erased => iPath = 0

(* While a run ends the vehicle stands on the code it has reported.        *)
Ending ==
    ending # "none" =>
        /\ ~moving /\ Motionstyle = "GOSTRAIGHT" /\ X = 0 /\ can = "idle" /\ Here <= dest
        /\ mtevtQ # <<>> /\ mtevtQ[Len(mtevtQ)] = <<"POINT_ARRIVAL", twoD_TagCodeOld>>
        /\ ending = "drive" => sRemain = D * surplus /\ Here + surplus <= dest
        /\ ending = "correct" => NewTag = 0 /\ sRemain = D * Counted /\ Here + Counted <= dest
        /\ ~erased => surplus = 0 /\ dest = Here /\ (ending = "correct" => iPath = 0)

(* Between two codes the wheels have measured the way but for the slips    *)
(* and one cell, and the next code is where it is expected.                *)
Between ==
    moving /\ NewTag = 0 =>
        /\ sRemain + RealTwoDProgress = D * Counted
        /\ Here + Counted <= dest /\ Here + 1 <= dest /\ (iPath >= 1 \/ surplus = 0)
        /\ ~erased => surplus = 0 /\ iPath = dest - Here
        /\ X - slips - 1 <= Progress /\ Progress <= X + slips
        /\ -1 <= X /\ X <= D + D \div 2 + MaxSlips + 1 + (IF seen THEN 0 ELSE 1)
        /\ Here + 1 \notin Dirty => X <= D
        /\ Here + 1 \notin Dirty /\ can = "idle" /\ scanned => X < D - 1

(* can has a new code, which is the next one.                              *)
Reading ==
    can # "idle" =>
        /\ moving /\ NewTag = 0 /\ Here + 1 \notin Dirty
        /\ twoD_TagCode = Tag(Here + 1) /\ X \in {D - 1, D} /\ GS_DevFB = X - D
        /\ can = "latch" => mtevtQ # <<>> /\ mtevtQ[Len(mtevtQ)] = <<"POINT_ARRIVAL", twoD_TagCode>>

(* A code has been read that the task has not dealt with: what is to go is *)
(* known well enough to tell the destination from the others.              *)
AtCode ==
    moving /\ NewTag = 1 =>
        /\ Here + Counted <= dest + 1 /\ Here <= dest /\ (iPath >= 1 \/ Counted <= 1)
        /\ ~erased => surplus = 0 /\ iPath = dest - Here + 1
        /\ X \in {-1, 0} /\ GS_DevFB \in {-1, 0} /\ GS_DevFB <= X
        /\ scanned /\ X = 0 => GS_DevFB = 0
        /\ seen => GS_DevFB = -1 /\ sRemain = D * (Counted - 1) + 1
        /\ D * (Counted - 1) - MaxSlips <= Remain
        /\ Remain <= D * (Counted - 1) + MaxSlips + 2
        /\ mtevtQ # <<>> /\ mtevtQ[Len(mtevtQ)] = <<"POINT_ARRIVAL", twoD_TagCodeOld>>

(* As long as no code has been missed ...                                  *)
OnTrack ==
    ~OutOfTrack =>
        /\ nEvent = "NO_EVENT" /\ nAgvWorkMode = "RUNNING"
        /\ Here \in Nat /\ \A c \in 1 .. Here : c \notin Dirty
        /\ moving => Motionstyle = "GOSTRAIGHT"
        /\ seen => enc = 0
        /\ ending \in {"none", "drive", "correct"}
        /\ AtRest /\ Ending /\ Between /\ Reading /\ AtCode

(* ... and afterwards.                                                     *)
OffTrack ==
    OutOfTrack =>
        /\ moving => iPath >= 1 \/ sRemain < Near
        /\ ending \in {"none", "brake"}
        /\ nEvent = "NO_EVENT" => Missed /\ nAgvWorkMode = "RUNNING"

RunIInv == TypeOK /\ OnLane /\ OnTrack /\ OffTrack /\ PointBeforeOver

-----------------------------------------------------------------------------
(* Cells and codes.                                                        *)

LEMMA CodeOrder ==
    ASSUME NEW a \in Int, NEW b \in Int, a <= b
    PROVE  a * D \in Int /\ b * D \in Int /\ a * D <= b * D
<1>1. b - a \in Nat /\ D \in Nat
  OBVIOUS
<1>2. (b - a) * D >= 0
  BY <1>1
<1>3. (b - a) * D = b * D - a * D
  BY <1>1
<1> QED  BY <1>2, <1>3

LEMMA NextCode ==
    ASSUME NEW a \in Int
    PROVE  a * D \in Int /\ (a + 1) * D = a * D + D /\ (a + 2) * D = a * D + 2 * D
           /\ (a - 1) * D = a * D - D /\ D * a = a * D /\ D * (a - 1) = a * D - D
OBVIOUS

LEMMA Negative == \A x \in Int : -x = 0 - x
OBVIOUS

(* A vehicle that is less than two distances past a code can have only     *)
(* this code and the next one in view.                                     *)
LEMMA ViewedCodes ==
    ASSUME NEW k \in Int, NEW c \in Int, NEW p \in Int,
           p - k * D >= -1, p - k * D < 2 * D - 1, p - c * D \in -1 .. 1
    PROVE  c \in {k, k + 1}
<1>0. k * D \in Int /\ D \in Nat /\ D > 6 /\ c * D \in Int
  OBVIOUS
<1>1. CASE c <= k - 1
  <2>1. c * D <= k * D - D
    BY <1>1, CodeOrder, NextCode
  <2> QED  BY <1>0, <2>1
<1>2. CASE c >= k + 2
  <2>1. c * D >= k * D + 2 * D
    BY <1>2, CodeOrder, NextCode
  <2> QED  BY <1>0, <2>1
<1> QED  BY <1>1, <1>2
(* An event is appended; ACTION_OVER only after the arrival at its code.   *)
LEMMA AppendKeepsOrder ==
    ASSUME TypeOK, PointBeforeOver, NEW e \in {"POINT_ARRIVAL", "ACTION_OVER", "ERROR"} \X Nat,
           mtevtQ' = Append(mtevtQ, e),
           e[1] = "ACTION_OVER" =>
               mtevtQ # <<>> /\ mtevtQ[Len(mtevtQ)] = <<"POINT_ARRIVAL", e[2]>>
    PROVE  /\ PointBeforeOver'
           /\ mtevtQ' \in Seq({"POINT_ARRIVAL", "ACTION_OVER", "ERROR"} \X Nat)
           /\ mtevtQ' # <<>> /\ mtevtQ'[Len(mtevtQ')] = e
<1> DEFINE E == {"POINT_ARRIVAL", "ACTION_OVER", "ERROR"} \X Nat
<1>1. mtevtQ \in Seq(E) /\ e \in E
  BY DEF TypeOK
<1> HIDE DEF E
<1>2. /\ mtevtQ' \in Seq(E) /\ Len(mtevtQ') = Len(mtevtQ) + 1 /\ mtevtQ'[Len(mtevtQ) + 1] = e
      /\ \A j \in 1 .. Len(mtevtQ) : mtevtQ'[j] = mtevtQ[j]
      /\ DOMAIN mtevtQ' = 1 .. Len(mtevtQ) + 1 /\ DOMAIN mtevtQ = 1 .. Len(mtevtQ)
      /\ Len(mtevtQ) \in Nat
      /\ mtevtQ # <<>> => Len(mtevtQ) >= 1
  BY <1>1
<1>3. ASSUME NEW j \in DOMAIN mtevtQ', mtevtQ'[j][1] = "ACTION_OVER"
      PROVE  j > 1 /\ mtevtQ'[j - 1] = <<"POINT_ARRIVAL", mtevtQ'[j][2]>>
  <2>1. CASE j \in 1 .. Len(mtevtQ)
    <3>1. j > 1 /\ mtevtQ[j - 1] = <<"POINT_ARRIVAL", mtevtQ[j][2]>>
      BY <1>2, <1>3, <2>1 DEF PointBeforeOver
    <3> QED  BY <1>2, <2>1, <3>1
  <2>2. CASE j = Len(mtevtQ) + 1
    <3>1. mtevtQ'[j] = e /\ mtevtQ # <<>> /\ mtevtQ[Len(mtevtQ)] = <<"POINT_ARRIVAL", e[2]>>
      BY <1>2, <1>3, <2>2
    <3>2. j > 1 /\ j - 1 = Len(mtevtQ) /\ mtevtQ'[Len(mtevtQ)] = mtevtQ[Len(mtevtQ)]
      BY <1>2, <2>2, <3>1
    <3> QED  BY <3>1, <3>2
  <2> QED  BY <1>2, <2>1, <2>2
<1> QED  BY <1>2, <1>3 DEF PointBeforeOver, E

-----------------------------------------------------------------------------
(* The invariant holds initially and is kept by every step.                *)

LEMMA InitRun == Init => RunIInv
<1> SUFFICES ASSUME Init PROVE RunIInv
  OBVIOUS
<1>1. TypeOK /\ PointBeforeOver /\ OnLane
  <2>1. PointBeforeOver
    BY DEF Init, PointBeforeOver
  <2>2. OnLane
    BY DEF Init, OnLane
  <2>3. TypeOK
    <3>1. <<>> \in Seq({"POINT_ARRIVAL", "ACTION_OVER", "ERROR"} \X Nat)
      <4> DEFINE E == {"POINT_ARRIVAL", "ACTION_OVER", "ERROR"} \X Nat
      <4> HIDE DEF E
      <4>1. <<>> \in Seq(E)
        OBVIOUS
      <4> QED  BY <4>1 DEF E
    <3>2. mtevtQ \in Seq({"POINT_ARRIVAL", "ACTION_OVER", "ERROR"} \X Nat)
      BY <3>1 DEF Init
    <3>3. /\ pos = 0 /\ enc = 0 /\ slips = 0 /\ scanned = TRUE /\ seen = TRUE
          /\ twoD_TagCode = 1 /\ twoD_TagCodeOld = 1 /\ NewTag = 0 /\ GS_DevFB = 0
          /\ can = "idle" /\ Motionstyle = "STOP" /\ moving = FALSE
          /\ sRemain = 0 /\ iPath = 0 /\ RealTwoDProgress = 0
          /\ OutOfTrack = FALSE /\ nEvent = "NO_EVENT" /\ nAgvWorkMode = "RUNNING"
          /\ ending = "none" /\ surplus = 0 /\ erased = FALSE
          /\ cmd = 0 /\ dest = 0 /\ routes = 0
      BY DEF Init
    <3>4. pos \in Nat /\ enc \in Nat /\ slips \in 0 .. MaxSlips
      BY <3>3
    <3>5. scanned \in BOOLEAN /\ seen \in BOOLEAN /\ moving \in BOOLEAN /\ OutOfTrack \in BOOLEAN
      BY <3>3
    <3>6. twoD_TagCode \in Nat /\ twoD_TagCodeOld \in Nat /\ NewTag \in {0, 1} /\ GS_DevFB \in -1 .. 1
      BY <3>3
    <3>7. cmd \in 0 .. MaxCodes /\ routes \in 0 .. MaxRoutes /\ dest \in Nat
      BY <3>3
    <3>8. /\ can \in {"idle", "report", "latch"}
    /\ Motionstyle \in {"STOP", "GOSTRAIGHT"}
    /\ sRemain \in Int /\ iPath \in Nat /\ RealTwoDProgress \in Int
    /\ nEvent \in {"NO_EVENT", "OUT_OF_TRACK_EVENT"}
    /\ nAgvWorkMode \in {"RUNNING", "SUSPENDED"}
      BY <3>3
    <3>9. ending \in {"none", "drive", "correct", "brake"} /\ surplus \in Nat
      BY <3>3
    <3>10. erased \in BOOLEAN
      BY <3>3
    <3> QED  BY <3>2, <3>4, <3>5, <3>6, <3>7, <3>8, <3>9, <3>10 DEF TypeOK
  <2> QED  BY <2>1, <2>2, <2>3
<1>2. OnTrack /\ OffTrack
  <2>1. D * Counted = 0 /\ Here = 0 /\ X = 0 /\ Counted = 0
    BY DEF Init, Counted, Here, X
  <2> QED  BY <2>1 DEF Init, OnTrack, OffTrack, AtRest, Ending, Between, Reading, AtCode
<1> QED  BY <1>1, <1>2 DEF RunIInv

(* The codes a run is about lie on the lane.                               *)
LEMMA AheadInCodes ==
    ASSUME TypeOK, OnLane, NEW k \in Nat, k <= dest + 1
    PROVE  k \in Codes
<1>1. routes * MaxCodes <= MaxRoutes * MaxCodes
  <2>1. MaxRoutes - routes \in Nat /\ MaxCodes \in Nat /\ routes \in Nat
    BY DEF TypeOK
  <2>2. (MaxRoutes - routes) * MaxCodes >= 0
    BY <2>1
  <2>3. (MaxRoutes - routes) * MaxCodes = MaxRoutes * MaxCodes - routes * MaxCodes
    BY <2>1
  <2> QED  BY <2>1, <2>2, <2>3
<1>2. k <= MaxRoutes * MaxCodes + 2
  <2>1. dest \in Nat /\ cmd \in Nat /\ routes * MaxCodes \in Nat /\ MaxRoutes * MaxCodes \in Nat
    BY DEF TypeOK
  <2> QED  BY <1>1, <2>1 DEF OnLane
<1> QED  BY <1>2 DEF Codes

LEMMA MoveRun ==
    ASSUME RunIInv, Move
    PROVE  RunIInv'
<1> USE DEF RunIInv
<1>1. TypeOK'
  <2>1. PICK l \in 0 .. 2 :
           /\ enc' = enc + l /\ (l # 1 => slips < MaxSlips)
           /\ slips' = (IF l # 1 THEN slips + 1 ELSE slips)
    BY DEF Move
  <2>2. pos' \in Nat /\ enc' \in Nat /\ slips' \in 0 .. MaxSlips
    BY <2>1 DEF TypeOK, Move
  <2> QED  BY <2>2 DEF TypeOK, Move, naviVars, runVars, faultVars, cmdVars
<1>2. OnLane' /\ PointBeforeOver'
  BY DEF OnLane, PointBeforeOver, Move, cmdVars
<1>3. OffTrack'
  BY DEF OffTrack, Missed, Move, TypeOK, runVars, faultVars
<1>4. OnTrack'
  <2> SUFFICES ASSUME ~OutOfTrack PROVE OnTrack'
    BY DEF OnTrack, Move, faultVars
  <2>1. /\ Here' = Here /\ X' = X + 1 /\ Here \in Nat /\ X \in Int /\ iPath \in Nat
        /\ Counted' = Counted /\ Counted \in Nat
        /\ D * Counted \in Int /\ D * (Counted - 1) = D * Counted - D
    BY DEF Here, X, Move, naviVars, runVars, TypeOK, OnTrack, Counted
  <2>2. PICK l \in 0 .. 2 :
           /\ enc' = enc + l /\ (l # 1 => slips < MaxSlips)
           /\ slips' = (IF l # 1 THEN slips + 1 ELSE slips)
    BY DEF Move
  <2>3. enc = 0 /\ moving /\ moving' /\ ~scanned' /\ ~seen' /\ can = "idle" /\ can' = "idle"
        /\ UNCHANGED <<naviVars, runVars, faultVars, cmdVars, mtevtQ>> /\ ending = "none"
    BY DEF Move, OnTrack, runVars, Ending
  <2>4. Reading' /\ AtRest' /\ Ending'
    BY <2>3 DEF Reading, AtRest, Ending, faultVars
  <2>5. Between'
    <3> SUFFICES ASSUME NewTag = 0 PROVE Between'
      BY <2>3 DEF Between, naviVars
    <3>1. seen /\ Between
      BY DEF Move, OnTrack
    <3>2. Progress' = Progress + l /\ UNCHANGED <<iPath, sRemain, RealTwoDProgress, dest, Here, NewTag, can, surplus, erased>>
      BY <2>1, <2>2, <2>3 DEF Progress, naviVars, runVars, cmdVars, TypeOK
    <3>3. X' - slips' - 1 <= Progress' /\ Progress' <= X' + slips'
      BY <2>1, <2>2, <2>3, <3>1, <3>2 DEF Between, Progress, TypeOK
    <3>4. ASSUME Here + 1 \notin Dirty PROVE X < D
      <4>0. Here + 1 \in Nat /\ Here + 1 <= dest + 1
        BY <2>1, <2>3, <3>1 DEF Between, TypeOK
      <4>1. Here + 1 \in Codes
        BY <4>0, AheadInCodes
      <4>2. pos - (Here + 1) * D = X - D
        BY <2>1, NextCode DEF X, TypeOK
      <4>3. X <= D
        BY <2>3, <3>1, <3>4 DEF Between
      <4>4. X = D => scanned
        <5>1. Here + 1 \in Codes \ Dirty
          BY <3>4, <4>1
        <5>2. (pos - (Here + 1) * D \in -1 .. 1) /\ pos >= (Here + 1) * D => scanned
          BY <5>1 DEF Move, InView
        <5>3. pos \in Int /\ (Here + 1) * D \in Int
          BY <2>1, NextCode DEF TypeOK
        <5> QED  BY <4>2, <5>2, <5>3
      <4> QED  BY <2>1, <2>3, <3>1, <3>4, <4>3, <4>4 DEF Between
    <3> QED  BY <2>1, <2>3, <3>1, <3>2, <3>3, <3>4 DEF Between
  <2>6. AtCode'
    <3> SUFFICES ASSUME NewTag = 1 PROVE AtCode'
      BY <2>3 DEF AtCode, naviVars
    <3>1. seen /\ AtCode /\ UNCHANGED <<iPath, sRemain, dest, Here, NewTag, GS_DevFB, surplus, erased>>
      BY <2>1, <2>3 DEF Move, OnTrack, naviVars, runVars, cmdVars
    <3>2. X = -1
      <4>0. Here <= dest + 1
        BY <2>1, <2>3, <3>1 DEF AtCode, TypeOK
      <4>1. Here \in Codes \ Dirty
        <5>1. Here \in Codes
          BY <2>1, <4>0, AheadInCodes
        <5>2. Here \notin Dirty
          BY <2>1 DEF OnTrack
        <5> QED  BY <5>1, <5>2
      <4>2. X = 0 => scanned
        <5>1. (pos - Here * D \in -1 .. 1) /\ pos >= Here * D => scanned
          BY <4>1 DEF Move, InView
        <5>2. pos \in Int /\ Here * D \in Int
          BY <2>1, NextCode DEF TypeOK
        <5> QED  BY <5>1, <5>2 DEF X
      <4> QED  BY <2>3, <3>1, <4>2 DEF AtCode
    <3>3. Remain' = D * (Counted - 1) + 1 - l /\ (l = 2 => MaxSlips >= 1)
      BY <2>1, <2>2, <2>3, <3>1 DEF AtCode, Remain, TypeOK
    <3>4. /\ D * (Counted - 1) - MaxSlips <= Remain'
          /\ Remain' <= D * (Counted - 1) + MaxSlips + 2
      BY <2>1, <2>2, <3>3
    <3>5. X' = 0 /\ mtevtQ' = mtevtQ /\ twoD_TagCodeOld' = twoD_TagCodeOld
      BY <2>1, <2>3, <3>2 DEF naviVars
    <3>6. /\ Here + Counted <= dest + 1 /\ Here <= dest /\ (iPath >= 1 \/ Counted <= 1)
          /\ ~erased => surplus = 0 /\ iPath = dest - Here + 1
          /\ GS_DevFB = -1
          /\ mtevtQ # <<>> /\ mtevtQ[Len(mtevtQ)] = <<"POINT_ARRIVAL", twoD_TagCodeOld>>
      BY <2>3, <3>1 DEF AtCode
    <3>7. /\ X' \in {-1, 0} /\ GS_DevFB' \in {-1, 0} /\ GS_DevFB' <= X' /\ ~scanned' /\ ~seen'
      BY <2>3, <3>1, <3>5, <3>6
    <3> QED  BY <2>1, <3>1, <3>4, <3>5, <3>6, <3>7 DEF AtCode
  <2> QED  BY <2>1, <2>3, <2>4, <2>5, <2>6 DEF OnTrack, naviVars, runVars, faultVars
<1> QED  BY <1>1, <1>2, <1>3, <1>4

LEMMA CopyRun ==
    ASSUME RunIInv, Copy
    PROVE  RunIInv'
<1> USE DEF RunIInv
<1>0. PICK c \in Codes \ Dirty :
         /\ InView(c) /\ ~scanned /\ can = "idle"
         /\ twoD_TagCode' = Tag(c) /\ GS_DevFB' = pos - c * D
         /\ can' = IF Tag(c) = twoD_TagCodeOld THEN "idle" ELSE "report"
  BY DEF Copy
<1>1. c \in Nat /\ c * D \in Int /\ pos \in Nat /\ pos - c * D \in -1 .. 1
  BY <1>0, NextCode DEF Codes, InView, TypeOK
<1>2. /\ scanned' = TRUE /\ seen' = FALSE
      /\ UNCHANGED <<pos, enc, slips, twoD_TagCodeOld, NewTag, runVars, faultVars, cmdVars, mtevtQ>>
  BY DEF Copy
<1>3. TypeOK'
  <2>1. seen' \in BOOLEAN /\ scanned' \in BOOLEAN
    BY <1>2
  <2>2. twoD_TagCode' \in Nat /\ GS_DevFB' \in -1 .. 1 /\ can' \in {"idle", "report", "latch"}
    BY <1>0, <1>1
  <2> QED  BY <1>2, <2>1, <2>2 DEF TypeOK, runVars, faultVars, cmdVars
<1>4. OnLane' /\ PointBeforeOver' /\ OffTrack'
  BY <1>2 DEF OnLane, PointBeforeOver, OffTrack, Missed, runVars, faultVars, cmdVars
<1>5. OnTrack'
  <2> SUFFICES ASSUME ~OutOfTrack PROVE OnTrack'
    BY <1>2 DEF OnTrack, faultVars
  <2>1. /\ Here' = Here /\ X' = X /\ Here \in Nat /\ X \in Int /\ Here * D \in Int
        /\ UNCHANGED <<iPath, sRemain, RealTwoDProgress, moving, Motionstyle, dest, Progress, Remain,
                       Counted, surplus, erased, ending>>
        /\ NewTag \in {0, 1}
    BY <1>2, NextCode DEF Here, X, TypeOK, OnTrack, runVars, cmdVars, faultVars, Progress, Remain, Counted
  <2>2. X >= -1 /\ X < 2 * D - 1
    <3>1. CASE ~moving
      BY <3>1 DEF OnTrack, AtRest, Ending
    <3>2. CASE moving /\ NewTag = 0
      BY <2>1, <3>2 DEF OnTrack, Between
    <3>3. CASE moving /\ NewTag = 1
      BY <3>3 DEF OnTrack, AtCode
    <3> QED  BY <2>1, <3>1, <3>2, <3>3
  <2>3. c \in {Here, Here + 1}
    BY <1>1, <2>1, <2>2, ViewedCodes DEF X
  <2>4. CASE c = Here
    <3>1. can' = "idle" /\ GS_DevFB' = X /\ X \in -1 .. 1
      <4>1. Tag(c) = twoD_TagCodeOld
        BY <2>1, <2>4 DEF Here, TypeOK
      <4> QED  BY <1>0, <1>1, <2>4, <4>1 DEF X
    <3>2. AtRest' /\ Reading' /\ Ending'
      BY <1>2, <2>1, <3>1 DEF OnTrack, AtRest, Reading, Ending
    <3>3. Between'
      BY <1>2, <2>1, <3>1 DEF OnTrack, Between
    <3>4. AtCode'
      BY <1>2, <2>1, <3>1 DEF OnTrack, AtCode
    <3> QED  BY <1>2, <2>1, <3>2, <3>3, <3>4 DEF OnTrack, faultVars
  <2>5. CASE c = Here + 1
    <3>1. /\ can' = "report" /\ GS_DevFB' = X - D /\ X - D \in -1 .. 1
          /\ Here + 1 \notin Dirty /\ twoD_TagCode' = Tag(Here + 1)
      BY <1>0, <1>1, <2>1, <2>5, NextCode DEF Here, X, TypeOK
    <3>2. moving /\ NewTag = 0
      <4>1. X > 0
        BY <2>1, <3>1
      <4> QED  BY <2>1, <4>1 DEF OnTrack, AtRest, AtCode, Ending
    <3>3. X \in {D - 1, D}
      BY <2>1, <3>1, <3>2 DEF OnTrack, Between
    <3>4. AtRest' /\ AtCode' /\ Reading'
      BY <1>2, <2>1, <3>1, <3>2, <3>3 DEF AtRest, AtCode, Reading
    <3>6. Ending'
      BY <2>1, <3>2 DEF OnTrack, Ending
    <3>5. Between'
      BY <1>2, <2>1, <3>1, <3>2 DEF OnTrack, Between
    <3> QED  BY <1>2, <2>1, <3>4, <3>5, <3>6 DEF OnTrack, faultVars
  <2> QED  BY <2>3, <2>4, <2>5
<1> QED  BY <1>3, <1>4, <1>5

LEMMA ReportRun ==
    ASSUME RunIInv, Report
    PROVE  RunIInv'
<1> USE DEF RunIInv
<1>1. /\ can = "report" /\ can' = "latch"
      /\ UNCHANGED <<wheelVars, seen, naviVars, runVars, faultVars, cmdVars>>
  BY DEF Report
<1>2. /\ PointBeforeOver' /\ mtevtQ' \in Seq({"POINT_ARRIVAL", "ACTION_OVER", "ERROR"} \X Nat)
      /\ twoD_TagCodeOld # 0 =>
            mtevtQ' # <<>> /\ mtevtQ'[Len(mtevtQ')] = <<"POINT_ARRIVAL", twoD_TagCode>>
  <2>1. CASE twoD_TagCodeOld = 0
    BY <2>1 DEF Report, PointBeforeOver, TypeOK
  <2>2. CASE twoD_TagCodeOld # 0
    <3>1. <<"POINT_ARRIVAL", twoD_TagCode>> \in {"POINT_ARRIVAL", "ACTION_OVER", "ERROR"} \X Nat
      BY DEF TypeOK
    <3>2. mtevtQ' = Append(mtevtQ, <<"POINT_ARRIVAL", twoD_TagCode>>)
      BY <2>2 DEF Report
    <3> QED  BY <3>1, <3>2, AppendKeepsOrder
  <2> QED  BY <2>1, <2>2
<1>3. TypeOK'
  BY <1>1, <1>2 DEF TypeOK, wheelVars, naviVars, runVars, faultVars, cmdVars
<1>4. OnLane' /\ OffTrack'
  BY <1>1 DEF OnLane, OffTrack, Missed, wheelVars, runVars, faultVars, cmdVars
<1>5. OnTrack'
  <2> SUFFICES ASSUME ~OutOfTrack PROVE OnTrack'
    BY <1>1 DEF OnTrack, faultVars
  <2>1. /\ UNCHANGED <<Here, X, pos, slips, enc, scanned, seen, iPath, sRemain, RealTwoDProgress,
                       moving, Motionstyle, dest, NewTag, GS_DevFB, twoD_TagCode, twoD_TagCodeOld,
                       OutOfTrack, nEvent, nAgvWorkMode, Progress, Remain, Counted, surplus, erased,
                       ending>>
        /\ twoD_TagCodeOld # 0
    BY <1>1 DEF Here, X, wheelVars, naviVars, runVars, cmdVars, faultVars, Progress, Remain, OnTrack,
                Counted
  <2>2. Reading /\ moving /\ NewTag = 0
    BY <1>1 DEF OnTrack, Reading
  <2>3. AtRest' /\ AtCode' /\ Ending'
    BY <2>1, <2>2 DEF AtRest, AtCode, OnTrack, Ending
  <2>4. Reading'
    BY <1>1, <1>2, <2>1, <2>2 DEF Reading
  <2>5. Between'
    BY <1>1, <2>1 DEF OnTrack, Between
  <2> QED  BY <2>1, <2>3, <2>4, <2>5 DEF OnTrack
<1> QED  BY <1>2, <1>3, <1>4, <1>5

LEMMA LatchRun ==
    ASSUME RunIInv, Latch
    PROVE  RunIInv'
<1> USE DEF RunIInv
<1>1. /\ can = "latch" /\ can' = "idle" /\ twoD_TagCodeOld' = twoD_TagCode /\ NewTag' = 1
      /\ slips' = 0 /\ seen' = FALSE
      /\ UNCHANGED <<pos, enc, scanned, twoD_TagCode, GS_DevFB, runVars, faultVars, cmdVars, mtevtQ>>
  BY DEF Latch
<1>2. TypeOK'
  <2>1. seen' \in BOOLEAN /\ scanned' \in BOOLEAN
    BY <1>1 DEF TypeOK
  <2>2. slips' \in 0 .. MaxSlips /\ NewTag' \in {0, 1} /\ can' \in {"idle", "report", "latch"}
    BY <1>1
  <2> QED  BY <1>1, <2>1, <2>2 DEF TypeOK, runVars, faultVars, cmdVars
<1>3. OnLane' /\ OffTrack' /\ PointBeforeOver'
  BY <1>1 DEF OnLane, OffTrack, Missed, PointBeforeOver, runVars, faultVars, cmdVars
<1>4. OnTrack'
  <2> SUFFICES ASSUME ~OutOfTrack PROVE OnTrack'
    BY <1>1 DEF OnTrack, faultVars
  <2>1. /\ UNCHANGED <<pos, enc, scanned, iPath, sRemain, RealTwoDProgress, moving, Motionstyle,
                       dest, GS_DevFB, OutOfTrack, nEvent, nAgvWorkMode, Progress, Remain, mtevtQ,
                       Counted, surplus, erased, ending>>
    BY <1>1 DEF runVars, cmdVars, faultVars, Progress, Remain, Counted
  <2>2. /\ moving /\ NewTag = 0 /\ Here + 1 \notin Dirty /\ twoD_TagCode = Tag(Here + 1)
        /\ X \in {D - 1, D} /\ GS_DevFB = X - D
        /\ mtevtQ # <<>> /\ mtevtQ[Len(mtevtQ)] = <<"POINT_ARRIVAL", twoD_TagCode>>
    BY <1>1 DEF OnTrack, Reading
  <2>3. /\ Here \in Nat /\ Here' = Here + 1 /\ Here * D \in Int /\ pos \in Int /\ X \in Int
        /\ X' = X - D
    BY <1>1, <2>1, <2>2, NextCode DEF Here, X, OnTrack, TypeOK
  <2>4. \A c \in 1 .. Here' : c \notin Dirty
    BY <2>2, <2>3 DEF OnTrack
  <2>5. AtRest' /\ Between' /\ Reading' /\ Ending'
    BY <1>1, <2>1, <2>2 DEF AtRest, Between, Reading, OnTrack, Ending
  <2>6. AtCode'
    <3>0. Counted = iPath + surplus /\ iPath \in Nat /\ surplus \in Nat /\ dest \in Nat
      BY DEF Counted, TypeOK
    <3>1. /\ Here' + Counted <= dest + 1 /\ Here' <= dest /\ (iPath >= 1 \/ Counted <= 1)
          /\ ~erased => surplus = 0 /\ iPath = dest - Here' + 1
      BY <2>2, <2>3, <3>0 DEF OnTrack, Between
    <3>2. /\ D * (Counted - 1) \in Int /\ D * Counted = D * (Counted - 1) + D
          /\ Remain = D * Counted - Progress /\ Progress \in Int
      <4>1. sRemain + RealTwoDProgress = D * Counted
        BY <2>2 DEF OnTrack, Between
      <4>2. D * (Counted - 1) \in Int /\ D * Counted = D * (Counted - 1) + D /\ D * Counted \in Int
        BY <3>0, NextCode
      <4> QED  BY <4>1, <4>2 DEF TypeOK, Remain, Progress
    <3>3. X - MaxSlips - 1 <= Progress /\ Progress <= X + MaxSlips
      BY <2>2, <2>3 DEF OnTrack, Between, TypeOK, Progress
    <3>4. D * (Counted - 1) - MaxSlips <= Remain /\ Remain <= D * (Counted - 1) + MaxSlips + 2
      BY <2>2, <2>3, <3>2, <3>3
    <3> QED  BY <1>1, <2>1, <2>2, <2>3, <3>1, <3>4 DEF AtCode
  <2> QED  BY <1>1, <2>1, <2>2, <2>3, <2>4, <2>5, <2>6 DEF OnTrack
<1> QED  BY <1>2, <1>3, <1>4

LEMMA AcceptRun ==
    ASSUME RunIInv, Accept
    PROVE  RunIInv'
<1> USE DEF RunIInv
<1>0. PICK n \in 1 .. MaxCodes : cmd = 0 /\ routes < MaxRoutes /\ cmd' = n /\ routes' = routes + 1
  BY DEF Accept
<1>1. /\ enc' = IF Motionstyle = "STOP" THEN 0 ELSE enc
      /\ UNCHANGED <<pos, slips, scanned, seen, naviVars, can, runVars, faultVars, dest, erased, mtevtQ>>
  BY DEF Accept
<1>2. TypeOK'
  <2>1. enc' \in Nat /\ cmd' \in 0 .. MaxCodes /\ routes' \in 0 .. MaxRoutes
    BY <1>0, <1>1 DEF TypeOK
  <2> QED  BY <1>1, <2>1 DEF TypeOK, naviVars, runVars, faultVars
<1>3. OnLane'
  <2>1. routes \in Nat /\ dest \in Nat /\ MaxCodes \in Nat /\ routes * MaxCodes \in Nat
        /\ (routes + 1) * MaxCodes = routes * MaxCodes + MaxCodes
    BY DEF TypeOK
  <2> QED  BY <1>0, <1>1, <2>1 DEF OnLane
<1>4. PointBeforeOver' /\ OffTrack'
  BY <1>1 DEF PointBeforeOver, OffTrack, Missed, runVars, faultVars
<1>5. OnTrack'
  <2> SUFFICES ASSUME ~OutOfTrack PROVE OnTrack'
    BY <1>1 DEF OnTrack, faultVars
  <2>1. enc' = enc
    BY <1>1 DEF OnTrack, AtRest, Ending, TypeOK
  <2>2. UNCHANGED <<Here, X, pos, slips, enc, scanned, seen, iPath, sRemain, RealTwoDProgress, can,
                    moving, Motionstyle, dest, NewTag, GS_DevFB, twoD_TagCode, twoD_TagCodeOld,
                    OutOfTrack, nEvent, nAgvWorkMode, Progress, Remain, mtevtQ,
                    Counted, surplus, erased, ending>>
    BY <1>1, <2>1 DEF Here, X, naviVars, runVars, faultVars, Progress, Remain, Counted
  <2>3. AtRest' /\ Between'
    BY <2>2 DEF OnTrack, AtRest, Between
  <2>4. Reading' /\ AtCode' /\ Ending'
    BY <2>2 DEF OnTrack, Reading, AtCode, Ending
  <2> QED  BY <2>2, <2>3, <2>4 DEF OnTrack
<1> QED  BY <1>2, <1>3, <1>4, <1>5

LEMMA CommitRun ==
    ASSUME RunIInv, Commit
    PROVE  RunIInv'
<1> USE DEF RunIInv
<1>1. /\ cmd # 0 /\ cmd' = 0 /\ Motionstyle' = "GOSTRAIGHT"
      /\ sRemain' = sRemain + cmd * D /\ iPath' = iPath + cmd /\ dest' = dest + cmd
      /\ surplus' = (IF ending = "drive" THEN surplus + cmd ELSE surplus)
      /\ erased' = (erased \/ ending # "none")
      /\ UNCHANGED <<wheelVars, seen, naviVars, can, moving, RealTwoDProgress, faultVars, routes, mtevtQ>>
  BY DEF Commit
<1>2. cmd \in Nat /\ cmd >= 1 /\ iPath \in Nat /\ dest \in Nat /\ sRemain \in Int /\ cmd * D \in Nat
      /\ surplus \in Nat /\ erased \in BOOLEAN
  BY <1>1 DEF TypeOK
<1>b. erased' \in BOOLEAN
  BY <1>1
<1>3. TypeOK'
  BY <1>1, <1>2, <1>b DEF TypeOK, wheelVars, naviVars, faultVars
<1>4. OnLane' /\ PointBeforeOver' /\ OffTrack'
  BY <1>1, <1>2 DEF OnLane, PointBeforeOver, OffTrack, Missed, wheelVars, faultVars
<1>5. OnTrack'
  <2> SUFFICES ASSUME ~OutOfTrack PROVE OnTrack'
    BY <1>1 DEF OnTrack, faultVars
  <2>1. UNCHANGED <<Here, X, pos, slips, enc, scanned, seen, RealTwoDProgress, can, moving,
                    NewTag, GS_DevFB, twoD_TagCode, twoD_TagCodeOld, OutOfTrack, nEvent,
                    nAgvWorkMode, Progress, mtevtQ, ending>>
    BY <1>1 DEF Here, X, wheelVars, naviVars, faultVars, Progress
  <2>2. /\ D * Counted \in Int /\ D * (Counted - 1) \in Int /\ D * surplus \in Int
        /\ D * (Counted + cmd) = D * Counted + cmd * D
        /\ D * (Counted + cmd - 1) = D * (Counted - 1) + cmd * D
        /\ D * (surplus + cmd) = D * surplus + cmd * D
    BY <1>1, <1>2 DEF Counted
  <2>3. /\ Remain' = Remain + cmd * D /\ Remain \in Int /\ Here \in Int /\ iPath' >= 1
        /\ Counted \in Nat /\ Counted = iPath + surplus
        /\ ending # "drive" => Counted' = Counted + cmd /\ surplus' = surplus
    BY <1>1, <1>2, <2>1 DEF Remain, TypeOK, Here, Counted
  <2>e. Ending'
    <3> SUFFICES ASSUME ending # "none" PROVE Ending'
      BY <2>1 DEF Ending
    <3>1. Ending /\ erased' /\ ending \in {"drive", "correct"}
      BY <1>1 DEF OnTrack
    <3>2. CASE ending = "drive"
      <4>1. sRemain' = D * surplus' /\ Here + surplus' <= dest' /\ Here <= dest'
        BY <1>1, <1>2, <2>2, <2>3, <3>1, <3>2 DEF Ending
      <4> QED  BY <1>1, <2>1, <3>1, <3>2, <4>1 DEF Ending
    <3>3. CASE ending = "correct"
      <4>1. sRemain' = D * Counted' /\ Here + Counted' <= dest' /\ Here <= dest'
        BY <1>1, <1>2, <2>2, <2>3, <3>1, <3>3 DEF Ending
      <4> QED  BY <1>1, <2>1, <3>1, <3>3, <4>1 DEF Ending
    <3> QED  BY <3>1, <3>2, <3>3
  <2>4. AtRest'
    <3> SUFFICES ASSUME ~moving, ending = "none" PROVE AtRest'
      BY <2>1 DEF AtRest
    <3>1. AtRest /\ erased' = erased
      BY <1>1, <1>2 DEF OnTrack
    <3>2. sRemain' = D * Counted' /\ Here + Counted' <= dest'
      BY <1>1, <1>2, <2>2, <2>3, <3>1 DEF AtRest
    <3>3. ~erased => surplus' = 0 /\ iPath' = dest' - Here
      BY <1>1, <1>2, <2>3, <3>1 DEF AtRest
    <3> QED  BY <1>1, <2>1, <2>3, <3>1, <3>2, <3>3 DEF AtRest
  <2>a. moving => ending = "none" /\ erased' = erased
    BY <1>1, <1>2 DEF OnTrack, Ending
  <2>5. Between'
    <3> SUFFICES ASSUME moving, NewTag = 0 PROVE Between'
      BY <2>1 DEF Between
    <3>1. Between /\ ending = "none" /\ erased' = erased
      BY <2>a DEF OnTrack
    <3>2. sRemain' + RealTwoDProgress' = D * Counted'
      BY <1>1, <1>2, <2>1, <2>2, <2>3, <3>1 DEF Between, TypeOK
    <3>3. Here + Counted' <= dest' /\ Here + 1 <= dest'
      BY <1>1, <1>2, <2>3, <3>1 DEF Between
    <3>4. ~erased => surplus' = 0 /\ iPath' = dest' - Here
      BY <1>1, <1>2, <2>3, <3>1 DEF Between
    <3> QED  BY <1>1, <2>1, <2>3, <3>1, <3>2, <3>3, <3>4 DEF Between
  <2>6. Reading'
    BY <1>1, <2>1 DEF OnTrack, Reading
  <2>7. AtCode'
    <3> SUFFICES ASSUME moving, NewTag = 1 PROVE AtCode'
      BY <2>1 DEF AtCode
    <3>1. AtCode /\ ending = "none" /\ erased' = erased
      BY <2>a DEF OnTrack
    <3>2. /\ seen => sRemain' = D * (Counted' - 1) + 1
          /\ D * (Counted' - 1) - MaxSlips <= Remain'
          /\ Remain' <= D * (Counted' - 1) + MaxSlips + 2
      BY <1>1, <1>2, <2>2, <2>3, <3>1 DEF AtCode
    <3>3. Here + Counted' <= dest' + 1 /\ Here <= dest'
      BY <1>1, <1>2, <2>3, <3>1 DEF AtCode
    <3>4. ~erased => surplus' = 0 /\ iPath' = dest' - Here + 1
      BY <1>1, <1>2, <2>3, <3>1 DEF AtCode
    <3>5. /\ X' \in {-1, 0} /\ GS_DevFB' \in {-1, 0} /\ GS_DevFB' <= X'
          /\ scanned' /\ X' = 0 => GS_DevFB' = 0
          /\ seen' => GS_DevFB' = -1
          /\ mtevtQ' # <<>> /\ mtevtQ'[Len(mtevtQ')] = <<"POINT_ARRIVAL", twoD_TagCodeOld'>>
      BY <2>1, <3>1 DEF AtCode
    <3> QED  BY <2>1, <2>3, <3>1, <3>2, <3>3, <3>4, <3>5 DEF AtCode
  <2>8. ending \in {"none", "drive", "correct"} /\ (seen => enc = 0) /\ Here \in Nat
    BY DEF OnTrack
  <2> QED  BY <1>1, <2>1, <2>e, <2>4, <2>5, <2>6, <2>7, <2>8 DEF OnTrack
<1> QED  BY <1>3, <1>4, <1>5

LEMMA PushRun ==
    ASSUME RunIInv, Push
    PROVE  RunIInv'
<1> USE DEF RunIInv
<1>0. PICK c \in Codes \ Dirty : nAgvWorkMode = "SUSPENDED" /\ pos' = c * D
  BY DEF Push
<1>1. /\ scanned' = FALSE /\ seen' = FALSE
      /\ UNCHANGED <<enc, slips, naviVars, can, runVars, faultVars, cmdVars, mtevtQ>>
  BY DEF Push
<1>2. TypeOK'
  <2>1. pos' \in Nat /\ scanned' \in BOOLEAN /\ seen' \in BOOLEAN
    <3>1. c \in Nat /\ D \in Nat
      BY DEF Codes
    <3>2. c * D \in Nat
      BY <3>1
    <3> QED  BY <1>0, <1>1, <3>2
  <2> QED  BY <1>1, <2>1 DEF TypeOK, naviVars, runVars, faultVars, cmdVars
<1>3. OutOfTrack /\ nEvent # "NO_EVENT"
  BY <1>0 DEF OnTrack, OffTrack
<1>4. OnTrack' /\ OffTrack'
  BY <1>1, <1>3 DEF OnTrack, OffTrack, runVars, faultVars
<1>5. OnLane' /\ PointBeforeOver'
  BY <1>1 DEF OnLane, PointBeforeOver, cmdVars
<1> QED  BY <1>2, <1>4, <1>5

-----------------------------------------------------------------------------
(* The cycles of motionctrl.                                               *)

(* A code at hand is the destination exactly if there is no other to come. *)
LEMMA DestinationKnown ==
    ASSUME RunIInv, ~OutOfTrack, moving, NewTag # 0
    PROVE  /\ NewTag = 1 /\ AtCode /\ ending = "none" /\ can = "idle"
           /\ Counted \in Nat /\ iPath \in Nat /\ surplus \in Nat /\ Counted = iPath + surplus
           /\ dest \in Nat /\ Here \in Nat
           /\ Destination <=> Counted <= 1
<1> USE DEF RunIInv
<1>1. NewTag = 1 /\ AtCode /\ iPath \in Nat /\ surplus \in Nat /\ dest \in Nat /\ Here \in Nat
  BY DEF OnTrack, TypeOK
<1>2. Counted \in Nat /\ Counted = iPath + surplus
  BY <1>1 DEF Counted
<1>3. D * (Counted - 1) - MaxSlips <= Remain /\ Remain <= D * (Counted - 1) + MaxSlips + 2
  BY <1>1 DEF AtCode
<1>4. Counted >= 2 => D * (Counted - 1) \in Int /\ D * (Counted - 1) >= D
  <2>1. (Counted - 1) * D \in Int /\ 1 * D = D /\ D * (Counted - 1) = (Counted - 1) * D
    BY <1>2
  <2> QED  BY <1>2, <2>1, CodeOrder
<1>5. Counted = 1 => D * (Counted - 1) = 0
  OBVIOUS
<1>6. Counted = 0 => D * (Counted - 1) = -D
  OBVIOUS
<1>7. Remain \in Int
  BY DEF Remain, TypeOK
<1>8. Destination <=> Counted <= 1
  BY <1>1, <1>2, <1>3, <1>4, <1>5, <1>6, <1>7 DEF Destination
<1>9. ending = "none" /\ can = "idle"
  BY <1>1 DEF OnTrack, Ending, Reading, TypeOK
<1> QED  BY <1>1, <1>2, <1>8, <1>9

LEMMA StartRun ==
    ASSUME RunIInv, Cycle, RunCycle, Start
    PROVE  RunIInv'
<1> USE DEF RunIInv
<1>1. /\ ~OutOfTrack /\ Motionstyle = "GOSTRAIGHT" /\ ~moving /\ moving' = TRUE /\ ending = "none"
      /\ sRemain' = Remain /\ RealTwoDProgress' = Progress /\ enc' = 0 /\ seen' = TRUE
      /\ UNCHANGED <<pos, slips, scanned, twoD_TagCode, GS_DevFB, can, cmdVars, nEvent, nAgvWorkMode,
                     twoD_TagCodeOld, NewTag, Motionstyle, iPath, surplus, ending, OutOfTrack, mtevtQ>>
  BY DEF Cycle, RunCycle, Start
<1>2. /\ X = 0 /\ NewTag = 0 /\ can = "idle" /\ enc = 0 /\ RealTwoDProgress = 0
      /\ sRemain = D * Counted /\ Here + Counted <= dest /\ iPath >= 1
      /\ ~erased => surplus = 0 /\ iPath = dest - Here
  BY <1>1 DEF OnTrack, AtRest
<1>3. /\ iPath \in Nat /\ surplus \in Nat /\ Counted = iPath + surplus /\ Counted >= 1
      /\ D * Counted \in Int /\ slips \in Nat /\ Here \in Nat /\ dest \in Nat
  BY <1>1, <1>2 DEF TypeOK, Counted, OnTrack
<1>4. Remain = D * Counted /\ Progress = 0
  BY <1>2, <1>3 DEF Remain, Progress
<1>5. TypeOK'
  <2>1. sRemain' \in Int /\ RealTwoDProgress' \in Int /\ enc' \in Nat
    BY <1>1, <1>3, <1>4
  <2>2. seen' \in BOOLEAN /\ moving' \in BOOLEAN
    BY <1>1
  <2> QED  BY <1>1, <2>1, <2>2 DEF TypeOK, cmdVars
<1>6. OnLane' /\ PointBeforeOver' /\ OffTrack'
  BY <1>1 DEF OnLane, PointBeforeOver, OffTrack, cmdVars
<1>7. /\ Here' = Here /\ X' = X /\ dest' = dest /\ erased' = erased /\ Progress' = 0
      /\ Counted' = Counted /\ sRemain' + RealTwoDProgress' = D * Counted'
  BY <1>1, <1>2, <1>3, <1>4 DEF Here, X, Progress, Counted, cmdVars
<1>8. AtRest' /\ AtCode' /\ Reading' /\ Ending'
  BY <1>1, <1>2 DEF AtRest, AtCode, Reading, Ending
<1>9. Between'
  BY <1>1, <1>2, <1>3, <1>7 DEF Between
<1> QED  BY <1>1, <1>5, <1>6, <1>7, <1>8, <1>9 DEF OnTrack

LEMMA ApproachRun ==
    ASSUME RunIInv, Cycle, RunCycle, Approach
    PROVE  RunIInv'
<1> USE DEF RunIInv
<1>1. /\ ~OutOfTrack /\ moving /\ Destination /\ ~Arrived /\ NewTag # 0 /\ surplus' = 1 - iPath
      /\ sRemain' = -GS_DevFB /\ RealTwoDProgress' = GS_DevFB /\ enc' = 0 /\ seen' = TRUE
      /\ UNCHANGED <<pos, slips, scanned, twoD_TagCode, GS_DevFB, can, cmdVars, nEvent, nAgvWorkMode,
                     twoD_TagCodeOld, NewTag, Motionstyle, moving, iPath, ending, OutOfTrack, mtevtQ>>
  BY DEF Cycle, RunCycle, Approach, Destination
<1>2. /\ NewTag = 1 /\ AtCode /\ Counted <= 1 /\ can = "idle" /\ ending = "none"
      /\ iPath \in Nat /\ surplus \in Nat /\ Counted = iPath + surplus /\ dest \in Nat /\ Here \in Nat
  BY <1>1, DestinationKnown
<1>3. GS_DevFB = -1 /\ sRemain' = 1
  BY <1>1, <1>2 DEF AtCode, Arrived
<1>c. /\ surplus' \in Nat /\ Counted' = 1 /\ D * (Counted' - 1) = 0
      /\ ~erased => surplus' = 0 /\ iPath = dest - Here + 1
  <2>1. iPath <= 1
    BY <1>2
  <2>2. ~erased => iPath = dest - Here + 1 /\ Here <= dest
    BY <1>1, <1>2 DEF AtCode
  <2>3. Counted' = iPath + (1 - iPath)
    BY <1>1 DEF Counted
  <2>4. Counted' = 1
    BY <1>2, <2>3
  <2>5. D * (Counted' - 1) = 0
    BY <2>4
  <2> QED  BY <1>1, <1>2, <2>1, <2>2, <2>4, <2>5
<1>4. TypeOK'
  <2>1. sRemain' \in Int /\ RealTwoDProgress' \in Int /\ enc' \in Nat /\ seen' \in BOOLEAN
    BY <1>1, <1>3
  <2> QED  BY <1>1, <1>c, <2>1 DEF TypeOK, cmdVars
<1>5. OnLane' /\ PointBeforeOver' /\ OffTrack'
  BY <1>1 DEF OnLane, PointBeforeOver, OffTrack, cmdVars
<1>6. Here' = Here /\ X' = X /\ dest' = dest /\ erased' = erased /\ Remain' = 1
  <2>1. enc' = 0
    BY <1>1
  <2>2. Remain' = 1
    BY <1>3, <2>1 DEF Remain
  <2> QED  BY <1>1, <2>2 DEF Here, X, cmdVars
<1>7. AtRest' /\ Between' /\ Reading' /\ Ending'
  BY <1>1, <1>2 DEF AtRest, Between, Reading, Ending
<1>8. AtCode'
  <2>1. Here' + Counted' <= dest' + 1 /\ Here' <= dest'
    BY <1>1, <1>2, <1>c, <1>6 DEF AtCode
  <2> QED  BY <1>1, <1>2, <1>3, <1>c, <1>6, <2>1 DEF AtCode
<1> QED  BY <1>1, <1>4, <1>5, <1>6, <1>7, <1>8 DEF OnTrack

(* The wheels are told to stand.                                           *)
LEMMA EndRun ==
    ASSUME RunIInv, Cycle, RunCycle, End
    PROVE  RunIInv'
<1> USE DEF RunIInv
<1>1. /\ ~OutOfTrack /\ moving /\ Destination /\ Arrived /\ NewTag # 0 /\ Motionstyle = "GOSTRAIGHT"
      /\ moving' = FALSE /\ ending' = "drive" /\ surplus' = 0
      /\ sRemain' = -GS_DevFB /\ RealTwoDProgress' = GS_DevFB
      /\ enc' = 0 /\ seen' = TRUE
      /\ UNCHANGED <<pos, slips, scanned, twoD_TagCode, GS_DevFB, can, cmdVars, nEvent, nAgvWorkMode,
                     twoD_TagCodeOld, NewTag, Motionstyle, iPath, OutOfTrack, mtevtQ>>
  BY DEF Cycle, RunCycle, End, Destination
<1>2. /\ NewTag = 1 /\ AtCode /\ Counted <= 1 /\ can = "idle" /\ dest \in Nat /\ Here \in Nat
      /\ iPath \in Nat /\ surplus \in Nat /\ Counted = iPath + surplus
  BY <1>1, DestinationKnown
<1>3. GS_DevFB = 0 /\ X = 0 /\ Here <= dest /\ (~erased => dest = Here)
  <2>1. X \in {-1, 0} /\ GS_DevFB \in {-1, 0} /\ GS_DevFB <= X /\ Here <= dest
    BY <1>1, <1>2 DEF AtCode
  <2>2. GS_DevFB = 0 /\ X = 0
    BY <1>1, <2>1 DEF Arrived
  <2>3. ~erased => iPath = dest - Here + 1
    BY <1>1, <1>2 DEF AtCode
  <2> QED  BY <1>2, <2>1, <2>2, <2>3
<1>4. mtevtQ # <<>> /\ mtevtQ[Len(mtevtQ)] = <<"POINT_ARRIVAL", twoD_TagCodeOld>>
  BY <1>1, <1>2 DEF AtCode
<1>5. sRemain' = 0
  <2>1. sRemain' = 0 - GS_DevFB
    BY <1>1, Negative DEF TypeOK
  <2> QED  BY <1>3, <2>1
<1>t. TypeOK'
  <2>1. enc' \in Nat /\ seen' \in BOOLEAN /\ moving' \in BOOLEAN
        /\ ending' \in {"none", "drive", "correct", "brake"}
    BY <1>1
  <2>2. sRemain' \in Int /\ RealTwoDProgress' \in Int /\ surplus' \in Nat
    BY <1>1, <1>3, <1>5
  <2> QED  BY <1>1, <2>1, <2>2 DEF TypeOK, cmdVars
<1>6. OnLane' /\ OffTrack' /\ PointBeforeOver'
  BY <1>1 DEF OnLane, OffTrack, PointBeforeOver, cmdVars
<1>7. Here' = Here /\ X' = X /\ dest' = dest /\ erased' = erased /\ D * surplus' = 0
  <2>1. D * 0 = 0
    OBVIOUS
  <2> QED  BY <1>1, <2>1 DEF Here, X, cmdVars
<1>8. AtRest' /\ Between' /\ Reading' /\ AtCode'
  BY <1>1, <1>2 DEF AtRest, Between, Reading, AtCode
<1>9. Ending'
  <2>1. Here' + surplus' <= dest'
    BY <1>1, <1>2, <1>3, <1>7
  <2> QED  BY <1>1, <1>2, <1>3, <1>4, <1>5, <1>7, <2>1 DEF Ending
<1> QED  BY <1>1, <1>2, <1>t, <1>6, <1>7, <1>8, <1>9 DEF OnTrack

LEMMA PassCodeRun ==
    ASSUME RunIInv, Cycle, RunCycle, PassCode
    PROVE  RunIInv'
<1> USE DEF RunIInv
<1>1. /\ ~OutOfTrack /\ moving /\ NewTag # 0 /\ ~Destination
      /\ RealTwoDProgress' = GS_DevFB /\ iPath' = iPath - 1 /\ surplus' = 0
      /\ sRemain' = D * (iPath - 1) - GS_DevFB /\ NewTag' = 0 /\ enc' = 0 /\ seen' = TRUE
      /\ UNCHANGED <<pos, slips, scanned, twoD_TagCode, GS_DevFB, can, cmdVars, nEvent, nAgvWorkMode,
                     twoD_TagCodeOld, Motionstyle, moving, ending, OutOfTrack, mtevtQ>>
  BY DEF Cycle, RunCycle, PassCode
<1>2. /\ NewTag = 1 /\ AtCode /\ ~(Counted <= 1) /\ can = "idle" /\ ending = "none"
      /\ iPath \in Nat /\ surplus \in Nat /\ Counted = iPath + surplus /\ dest \in Nat /\ Here \in Nat
  BY <1>1, DestinationKnown
<1>3. /\ GS_DevFB \in {-1, 0} /\ X \in {-1, 0} /\ GS_DevFB <= X
      /\ iPath >= 1 /\ Here + Counted <= dest + 1 /\ (~erased => iPath = dest - Here + 1)
  BY <1>1, <1>2 DEF AtCode
<1>4. /\ iPath' \in Nat /\ Counted' = iPath - 1 /\ D * (iPath - 1) \in Int
      /\ D * Counted' = D * (iPath - 1)
  BY <1>1, <1>2, <1>3 DEF Counted
<1>5. TypeOK'
  <2>1. sRemain' \in Int /\ RealTwoDProgress' \in Int /\ enc' \in Nat /\ seen' \in BOOLEAN
        /\ NewTag' \in {0, 1} /\ surplus' \in Nat
    BY <1>1, <1>3, <1>4
  <2> QED  BY <1>1, <1>4, <2>1 DEF TypeOK, cmdVars
<1>6. OnLane' /\ PointBeforeOver' /\ OffTrack'
  BY <1>1 DEF OnLane, PointBeforeOver, OffTrack, cmdVars
<1>7. /\ Here' = Here /\ X' = X /\ dest' = dest /\ erased' = erased /\ Progress' = GS_DevFB
      /\ sRemain' + RealTwoDProgress' = D * Counted'
  BY <1>1, <1>3, <1>4 DEF Here, X, Progress, cmdVars
<1>8. AtRest' /\ Reading' /\ AtCode' /\ Ending'
  BY <1>1, <1>2 DEF AtRest, Reading, AtCode, Ending
<1>9. Between'
  <2>1. slips \in Nat
    BY DEF TypeOK
  <2>2. Here' + Counted' <= dest' /\ Here' + 1 <= dest' /\ (~erased => iPath' = dest' - Here')
    BY <1>1, <1>2, <1>3, <1>4, <1>7
  <2> QED  BY <1>1, <1>3, <1>4, <1>7, <2>1, <2>2 DEF Between
<1> QED  BY <1>1, <1>5, <1>6, <1>7, <1>8, <1>9 DEF OnTrack

(* Without a code at hand the task adds up what the wheels have measured.  *)
LEMMA KeepGoingRun ==
    ASSUME RunIInv, Cycle, RunCycle, KeepGoing
    PROVE  RunIInv'
<1> USE DEF RunIInv
<1>1. /\ ~OutOfTrack /\ moving /\ NewTag = 0 /\ ~Lost /\ ending = "none"
      /\ sRemain' = Remain /\ RealTwoDProgress' = Progress /\ enc' = 0 /\ seen' = TRUE
      /\ UNCHANGED <<pos, slips, scanned, twoD_TagCode, GS_DevFB, can, cmdVars, nEvent, nAgvWorkMode,
                     twoD_TagCodeOld, NewTag, Motionstyle, moving, iPath, surplus, ending, OutOfTrack,
                     mtevtQ>>
  BY DEF Cycle, RunCycle, KeepGoing
<1>2. /\ Remain \in Int /\ Progress \in Int /\ X \in Int /\ slips \in 0 .. MaxSlips
  BY <1>1, NextCode DEF Remain, Progress, X, TypeOK, OnTrack
<1>3. TypeOK'
  <2>1. sRemain' \in Int /\ RealTwoDProgress' \in Int /\ enc' \in Nat /\ seen' \in BOOLEAN
    BY <1>1, <1>2
  <2> QED  BY <1>1, <2>1 DEF TypeOK, cmdVars
<1>4. OnLane' /\ PointBeforeOver' /\ OffTrack'
  BY <1>1 DEF OnLane, PointBeforeOver, OffTrack, cmdVars
<1>5. /\ Here' = Here /\ X' = X /\ dest' = dest /\ erased' = erased /\ Progress' = Progress
      /\ Counted' = Counted /\ sRemain' + RealTwoDProgress' = sRemain + RealTwoDProgress
  <2>1. Progress' = Progress
    BY <1>1, <1>2 DEF Progress
  <2>2. sRemain' + RealTwoDProgress' = sRemain + RealTwoDProgress
    BY <1>1 DEF Remain, Progress, TypeOK
  <2> QED  BY <1>1, <2>1, <2>2 DEF Here, X, Counted, cmdVars
<1>6. AtRest' /\ AtCode' /\ Ending'
  BY <1>1 DEF AtRest, AtCode, Ending
<1>7. Reading'
  BY <1>1, <1>5 DEF OnTrack, Reading
<1>8. Between'
  <2>1. X <= D + D \div 2 + MaxSlips + 1
    BY <1>1, <1>2 DEF OnTrack, Between, Lost
  <2> QED  BY <1>1, <1>2, <1>5, <2>1 DEF OnTrack, Between
<1> QED  BY <1>1, <1>3, <1>4, <1>5, <1>6, <1>7, <1>8 DEF OnTrack

(* The task gives up only when a code has been missed.                     *)
LEMMA LeaveTrackRun ==
    ASSUME RunIInv, Cycle, RunCycle, LeaveTrack
    PROVE  RunIInv'
<1> USE DEF RunIInv
<1>1. /\ ~OutOfTrack /\ moving /\ NewTag = 0 /\ Lost /\ nAgvWorkMode = "RUNNING" /\ ending = "none"
      /\ twoD_TagCodeOld' = 0 /\ OutOfTrack' = TRUE
      /\ sRemain' = Remain /\ RealTwoDProgress' = Progress /\ enc' = 0 /\ seen' = TRUE
      /\ UNCHANGED <<pos, slips, scanned, twoD_TagCode, GS_DevFB, can, cmdVars, nEvent, nAgvWorkMode,
                     NewTag, Motionstyle, moving, iPath, surplus, ending, mtevtQ>>
  BY DEF Cycle, RunCycle, LeaveTrack
<1>2. /\ Remain \in Int /\ Progress \in Int /\ X \in Int /\ slips \in 0 .. MaxSlips
      /\ Here \in Nat /\ pos \in Nat /\ Here * D \in Int
  BY <1>1, NextCode DEF Remain, Progress, X, TypeOK, OnTrack
<1>3. TypeOK'
  <2>1. /\ sRemain' \in Int /\ RealTwoDProgress' \in Int /\ enc' \in Nat /\ seen' \in BOOLEAN
        /\ OutOfTrack' \in BOOLEAN /\ twoD_TagCodeOld' \in Nat
    BY <1>1, <1>2
  <2> QED  BY <1>1, <2>1 DEF TypeOK, cmdVars
<1>4. OnLane' /\ PointBeforeOver' /\ OnTrack'
  BY <1>1 DEF OnLane, PointBeforeOver, OnTrack, cmdVars
<1>5. X > D
  BY <1>1, <1>2 DEF OnTrack, Between, Lost
<1>6. Here + 1 \in Dirty
  BY <1>1, <1>2, <1>5 DEF OnTrack, Between
<1>7. pos > (Here + 1) * D
  BY <1>2, <1>5, NextCode DEF X
<1>8. Missed'
  BY <1>1, <1>6, <1>7 DEF Missed
<1>p. iPath >= 1 \/ sRemain' < Near
  <2> SUFFICES ASSUME ~(iPath >= 1) PROVE sRemain' < Near
    OBVIOUS
  <2>1. iPath = 0 /\ surplus = 0
    BY <1>1 DEF OnTrack, Between, TypeOK
  <2>2. sRemain + RealTwoDProgress = D * Counted /\ Counted = 0
    BY <1>1, <2>1 DEF OnTrack, Between, Counted
  <2>3. sRemain + RealTwoDProgress = 0
    BY <2>2
  <2>4. Remain + Progress = sRemain + RealTwoDProgress
    BY DEF Remain, Progress, TypeOK
  <2>5. Progress > 0
    BY <1>1, <1>2 DEF Lost
  <2> QED  BY <1>1, <1>2, <2>3, <2>4, <2>5
<1>9. OffTrack'
  BY <1>1, <1>8, <1>p DEF OffTrack
<1> QED  BY <1>3, <1>4, <1>9

(* Once a code has been missed the vehicle stops and is suspended.         *)
LEMMA FaultRun ==
    ASSUME RunIInv, Cycle, FaultCycle
    PROVE  RunIInv'
<1> USE DEF RunIInv
<1>1. /\ OutOfTrack /\ OutOfTrack' /\ nEvent' = "OUT_OF_TRACK_EVENT" /\ enc' = 0 /\ seen' = TRUE
      /\ ending = "none"
      /\ UNCHANGED <<pos, slips, scanned, twoD_TagCode, GS_DevFB, can, cmdVars, twoD_TagCodeOld>>
  BY DEF Cycle, FaultCycle
<1>2. /\ PointBeforeOver'
      /\ mtevtQ' \in Seq({"POINT_ARRIVAL", "ACTION_OVER", "ERROR"} \X Nat)
  <2>1. CASE nEvent = "NO_EVENT"
    <3>1. <<"ERROR", 0>> \in {"POINT_ARRIVAL", "ACTION_OVER", "ERROR"} \X Nat
      OBVIOUS
    <3>2. mtevtQ' = Append(mtevtQ, <<"ERROR", 0>>)
      BY <2>1 DEF FaultCycle
    <3> QED  BY <3>1, <3>2, AppendKeepsOrder
  <2>2. CASE nEvent # "NO_EVENT"
    <3>1. mtevtQ' = mtevtQ
      BY <2>2 DEF FaultCycle
    <3> QED  BY <3>1 DEF PointBeforeOver, TypeOK
  <2> QED  BY <2>1, <2>2
<1>3. /\ sRemain' \in Int /\ iPath' \in Nat /\ RealTwoDProgress' \in Int /\ NewTag' \in {0, 1}
      /\ Motionstyle' \in {"STOP", "GOSTRAIGHT"} /\ nAgvWorkMode' \in {"RUNNING", "SUSPENDED"}
      /\ moving' = FALSE \/ UNCHANGED <<moving, iPath, sRemain>>
      /\ ending' \in {"none", "brake"} /\ surplus' = surplus
  <2>0. GS_DevFB \in Int /\ sRemain \in Int /\ iPath \in Nat /\ RealTwoDProgress \in Int
        /\ NewTag \in {0, 1} /\ D * (iPath - 1) \in Int
        /\ Motionstyle \in {"STOP", "GOSTRAIGHT"} /\ nAgvWorkMode \in {"RUNNING", "SUSPENDED"}
    BY DEF TypeOK
  <2>1. CASE Motionstyle = "GOSTRAIGHT" /\ Brake
    <3>1. iPath >= 1 \/ sRemain < Near
      BY <1>1, <2>1 DEF Brake, OffTrack
    <3>2. /\ Motionstyle' = Motionstyle /\ moving' = FALSE /\ UNCHANGED <<nAgvWorkMode, surplus>>
          /\ ending' = "brake"
      <4>1. Brake
        BY <2>1
      <4>2. ~Drop
        BY <4>1 DEF Drop, Brake
      <4> QED  BY <2>1, <4>1, <4>2 DEF FaultCycle, Brake
    <3>3. CASE NewTag = 0
      BY <2>0, <2>1, <3>2, <3>3 DEF Brake, TypeOK
    <3>4. CASE NewTag # 0 /\ sRemain < Near
      <4>1. sRemain' = GS_DevFB /\ RealTwoDProgress' = GS_DevFB /\ UNCHANGED <<iPath, NewTag>>
        BY <2>1, <3>4 DEF Brake
      <4> QED  BY <2>0, <3>2, <4>1 DEF TypeOK
    <3>5. CASE NewTag # 0 /\ ~(sRemain < Near)
      <4>1. /\ sRemain' = D * (iPath - 1) - GS_DevFB /\ RealTwoDProgress' = GS_DevFB
            /\ iPath' = iPath - 1 /\ NewTag' = 0
        BY <2>1, <3>5 DEF Brake
      <4>2. iPath' \in Nat
        BY <2>0, <3>1, <3>5, <4>1
      <4>3. sRemain' \in Int /\ RealTwoDProgress' \in Int /\ NewTag' \in {0, 1}
        BY <2>0, <4>1
      <4> QED  BY <2>0, <3>2, <4>2, <4>3
    <3> QED  BY <3>3, <3>4, <3>5
  <2>2. CASE Motionstyle = "GOSTRAIGHT" /\ Drop
    <3>1. moving' = FALSE /\ UNCHANGED <<nAgvWorkMode, surplus>>
      BY <2>2 DEF FaultCycle
    <3> QED  BY <1>1, <2>0, <2>2, <3>1 DEF Drop, TypeOK
  <2>3. CASE Motionstyle = "STOP"
    BY <1>1, <2>0, <2>3 DEF FaultCycle, runVars, TypeOK
  <2> QED  BY <2>1, <2>2, <2>3 DEF FaultCycle
<1>4. moving' \in BOOLEAN
  <2>1. moving' = FALSE \/ moving' = moving
    BY <1>3
  <2> QED  BY <2>1 DEF TypeOK
<1>5. TypeOK'
  <2>1. enc' \in Nat /\ seen' \in BOOLEAN /\ nEvent' \in {"NO_EVENT", "OUT_OF_TRACK_EVENT"}
        /\ ending' \in {"none", "drive", "correct", "brake"}
    BY <1>1, <1>3
  <2> QED  BY <1>1, <1>2, <1>3, <1>4, <2>1 DEF TypeOK, FaultCycle, cmdVars
<1>6. OnLane' /\ OnTrack'
  BY <1>1 DEF OnLane, OnTrack, cmdVars
<1>7. OffTrack'
  BY <1>1, <1>3 DEF OffTrack
<1> QED  BY <1>2, <1>5, <1>6, <1>7

LEMMA SuspendRun ==
    ASSUME RunIInv, Cycle, SuspendCycle
    PROVE  RunIInv'
<1> USE DEF RunIInv
<1>1. OutOfTrack /\ nEvent # "NO_EVENT"
  BY DEF SuspendCycle, OnTrack, OffTrack
<1>2. /\ enc' = 0 /\ seen' = TRUE
      /\ UNCHANGED <<pos, slips, scanned, twoD_TagCode, GS_DevFB, can, cmdVars, runVars, NewTag,
                     nEvent, nAgvWorkMode, ending, twoD_TagCodeOld, OutOfTrack, mtevtQ>>
  BY <1>1 DEF Cycle, SuspendCycle
<1>3. TypeOK'
  <2>1. enc' \in Nat /\ seen' \in BOOLEAN
    BY <1>2
  <2> QED  BY <1>2, <2>1 DEF TypeOK, cmdVars, runVars
<1>4. OnLane' /\ OnTrack' /\ OffTrack' /\ PointBeforeOver'
  BY <1>1, <1>2 DEF OnLane, OnTrack, OffTrack, PointBeforeOver, cmdVars, runVars
<1> QED  BY <1>3, <1>4

(* The end of a run after the trace of Drive(): a command committed in it  *)
(* leaves its codes in sRemain only.                                       *)
LEMMA CycleEndRun ==
    ASSUME RunIInv, CycleEnd
    PROVE  RunIInv'
<1> USE DEF RunIInv
<1>1. /\ UNCHANGED <<pos, slips, scanned, seen, twoD_TagCode, twoD_TagCodeOld, GS_DevFB, can,
                     moving, sRemain, surplus, OutOfTrack, nEvent, nAgvWorkMode, cmdVars>>
      /\ ending # "none"
  BY DEF CycleEnd, OverCorrect, OverAtOnce, OverAtLast, Forget, Halt
<1>2. CASE Halt
  <2>1. /\ ending = "brake" /\ ending' = "none" /\ Motionstyle' = "STOP"
        /\ UNCHANGED <<enc, NewTag, iPath, RealTwoDProgress, mtevtQ>>
    BY <1>2 DEF Halt
  <2>2. OutOfTrack
    BY <2>1 DEF OnTrack
  <2>3. TypeOK'
    <3>1. ending' \in {"none", "drive", "correct", "brake"} /\ Motionstyle' \in {"STOP", "GOSTRAIGHT"}
      BY <2>1
    <3> QED  BY <1>1, <2>1, <3>1 DEF TypeOK, cmdVars
  <2>4. OnLane' /\ OnTrack' /\ OffTrack' /\ PointBeforeOver'
    BY <1>1, <2>1, <2>2 DEF OnLane, OnTrack, OffTrack, Missed, PointBeforeOver, cmdVars
  <2> QED  BY <2>3, <2>4
<1>3. CASE OverCorrect \/ OverAtOnce \/ OverAtLast
  <2>1. /\ ~OutOfTrack /\ ending \in {"drive", "correct"} /\ Ending /\ Here \in Nat
        /\ nEvent = "NO_EVENT" /\ nAgvWorkMode = "RUNNING" /\ \A c \in 1 .. Here : c \notin Dirty
        /\ ~moving
    <3>1. ending \in {"drive", "correct"}
      BY <1>3 DEF OverCorrect, OverAtOnce, OverAtLast, Forget
    <3>2. ~OutOfTrack
      BY <3>1 DEF OffTrack
    <3> QED  BY <3>1, <3>2 DEF OnTrack, Ending
  <2>2. /\ Here' = Here /\ X' = X /\ dest' = dest /\ erased' = erased
        /\ iPath \in Nat /\ surplus \in Nat /\ dest \in Nat /\ sRemain \in Int
    BY <1>1 DEF Here, X, cmdVars, TypeOK
  <2>3. OnLane' /\ OffTrack'
    BY <1>1, <2>1 DEF OnLane, OffTrack, cmdVars
  <2>4. Between' /\ Reading' /\ AtCode'
    BY <1>1, <2>1 DEF Between, Reading, AtCode, Ending
  <2>5. CASE OverCorrect
    <3>1. /\ ending = "drive" /\ ending' = "correct" /\ NewTag' = 0 /\ iPath' = 0
          /\ UNCHANGED <<enc, Motionstyle, RealTwoDProgress, mtevtQ>>
      BY <2>5 DEF OverCorrect, Forget
    <3>2. TypeOK' /\ PointBeforeOver'
      <4>1. ending' \in {"none", "drive", "correct", "brake"} /\ NewTag' \in {0, 1} /\ iPath' \in Nat
        BY <3>1
      <4> QED  BY <1>1, <3>1, <4>1 DEF TypeOK, PointBeforeOver, cmdVars
    <3>3. Counted' = surplus
      BY <1>1, <2>2, <3>1 DEF Counted
    <3>4. Ending'
      BY <1>1, <2>1, <2>2, <3>1, <3>3 DEF Ending
    <3>5. AtRest'
      BY <3>1 DEF AtRest
    <3>6. (seen' => enc' = 0) /\ (moving' => Motionstyle' = "GOSTRAIGHT")
      BY <1>1, <2>1, <3>1 DEF OnTrack
    <3> QED  BY <1>1, <2>1, <2>2, <2>3, <2>4, <3>1, <3>2, <3>4, <3>5, <3>6 DEF OnTrack
  <2>6. CASE OverAtOnce \/ OverAtLast
    <3>1. /\ ending' = "none" /\ Motionstyle' = "STOP" /\ RealTwoDProgress' = 0 /\ enc' = 0
          /\ mtevtQ' = Append(mtevtQ, <<"ACTION_OVER", twoD_TagCodeOld>>)
      BY <2>6 DEF OverAtOnce, OverAtLast, Finish
    <3>2. /\ NewTag' = 0 /\ iPath' \in Nat
          /\ ending = "drive" => iPath' = 0
          /\ ending = "correct" => iPath' = iPath
      BY <2>1, <2>2, <2>6 DEF OverAtOnce, OverAtLast, Forget, Ending
    <3>3. /\ PointBeforeOver'
          /\ mtevtQ' \in Seq({"POINT_ARRIVAL", "ACTION_OVER", "ERROR"} \X Nat)
      <4> DEFINE e == <<"ACTION_OVER", twoD_TagCodeOld>>
      <4>1. e \in {"POINT_ARRIVAL", "ACTION_OVER", "ERROR"} \X Nat
        BY DEF TypeOK
      <4>2. mtevtQ # <<>> /\ mtevtQ[Len(mtevtQ)] = <<"POINT_ARRIVAL", e[2]>>
        BY <2>1 DEF Ending
      <4>3. mtevtQ' = Append(mtevtQ, e)
        BY <3>1
      <4> QED  BY <4>1, <4>2, <4>3, AppendKeepsOrder
    <3>4. TypeOK'
      <4>1. /\ ending' \in {"none", "drive", "correct", "brake"} /\ NewTag' \in {0, 1}
            /\ Motionstyle' \in {"STOP", "GOSTRAIGHT"} /\ RealTwoDProgress' \in Int /\ enc' \in Nat
        BY <3>1, <3>2
      <4> QED  BY <1>1, <3>2, <3>3, <4>1 DEF TypeOK, cmdVars
    <3>5. /\ sRemain = D * Counted' /\ Here + Counted' <= dest
          /\ ~erased => surplus = 0 /\ iPath' = 0 /\ dest = Here
      <4>1. CASE ending = "drive"
        <5>1. Counted' = surplus
          BY <1>1, <2>2, <3>2, <4>1 DEF Counted
        <5> QED  BY <2>1, <3>2, <4>1, <5>1 DEF Ending
      <4>2. CASE ending = "correct"
        <5>1. Counted' = Counted
          BY <1>1, <3>2, <4>2 DEF Counted
        <5> QED  BY <2>1, <3>2, <4>2, <5>1 DEF Ending
      <4> QED  BY <2>1, <4>1, <4>2
    <3>6. AtRest'
      <4>1. X = 0 /\ can = "idle"
        BY <2>1 DEF Ending
      <4> QED  BY <1>1, <2>2, <3>1, <3>2, <3>5, <4>1 DEF AtRest
    <3>7. Ending'
      BY <3>1 DEF Ending
    <3> QED  BY <1>1, <2>1, <2>2, <2>3, <2>4, <3>1, <3>3, <3>4, <3>6, <3>7 DEF OnTrack
  <2> QED  BY <1>3, <2>5, <2>6
<1> QED  BY <1>2, <1>3 DEF CycleEnd

(* The invariant is inductive.                                             *)
LEMMA NextRun == RunIInv /\ [Next]_vars => RunIInv'
<1> SUFFICES ASSUME RunIInv, [Next]_vars PROVE RunIInv'
  OBVIOUS
<1>1. CASE Cycle
  <2>1. CASE RunCycle
    BY <1>1, <2>1, StartRun, ApproachRun, EndRun, PassCodeRun, LeaveTrackRun, KeepGoingRun
       DEF RunCycle
  <2>2. CASE FaultCycle
    BY <1>1, <2>2, FaultRun
  <2>3. CASE SuspendCycle
    BY <1>1, <2>3, SuspendRun
  <2> QED  BY <1>1, <2>1, <2>2, <2>3 DEF Cycle
<1>2. CASE Move \/ Copy \/ Report \/ Latch
  BY <1>2, MoveRun, CopyRun, ReportRun, LatchRun
<1>3. CASE Accept \/ Commit \/ Push \/ CycleEnd
  BY <1>3, AcceptRun, CommitRun, PushRun, CycleEndRun
<1>4. CASE UNCHANGED vars
  <2>1. UNCHANGED <<pos, enc, slips, scanned, seen, twoD_TagCode, twoD_TagCodeOld, NewTag, GS_DevFB,
                    can, Motionstyle, moving, sRemain, iPath, RealTwoDProgress, OutOfTrack, nEvent,
                    nAgvWorkMode, ending, surplus, erased, cmd, dest, routes, mtevtQ, Here, X,
                    Counted, Progress, Remain>>
    BY <1>4 DEF vars, wheelVars, naviVars, runVars, faultVars, cmdVars, Here, X, Counted, Progress,
                Remain
  <2>2. TypeOK' /\ OnLane' /\ OffTrack' /\ PointBeforeOver'
    BY <2>1 DEF RunIInv, TypeOK, OnLane, OffTrack, Missed, PointBeforeOver
  <2>3. AtRest' = AtRest /\ Between' = Between /\ Reading' = Reading /\ AtCode' = AtCode
        /\ Ending' = Ending
    BY <2>1 DEF AtRest, Between, Reading, AtCode, Ending
  <2> QED  BY <2>1, <2>2, <2>3 DEF RunIInv, OnTrack
<1> QED  BY <1>1, <1>2, <1>3, <1>4 DEF Next

-----------------------------------------------------------------------------
(* What the invariant says of a run.                                       *)

(* The invariant holds in every state of the runs.                         *)
THEOREM RunInvariant == Spec => []RunIInv
BY InitRun, NextRun, PTL DEF Spec

LEMMA RunSound == RunIInv => RunInv /\ StopsAtDestination /\ LostTrackJudged
<1> SUFFICES ASSUME RunIInv PROVE RunInv /\ StopsAtDestination /\ LostTrackJudged
  OBVIOUS
<1> USE DEF RunIInv
<1>0. /\ Here = twoD_TagCodeOld - 1 /\ twoD_TagCodeOld \in Nat /\ dest \in Nat /\ iPath \in Nat
      /\ pos \in Nat /\ NewTag \in {0, 1} /\ moving \in BOOLEAN /\ OutOfTrack \in BOOLEAN
      /\ Motionstyle \in {"STOP", "GOSTRAIGHT"}
  BY DEF Here, TypeOK
<1>1. PathAgrees
  <2> SUFFICES ASSUME Motionstyle = "GOSTRAIGHT", ~OutOfTrack, ending = "none"
               PROVE  /\ iPath <= dest - (Here - NewTag)
                      /\ ~erased => iPath = dest - (Here - NewTag)
    BY <1>0 DEF PathAgrees, Fault
  <2>1. surplus \in Nat /\ Counted = iPath + surplus /\ Here \in Int
    BY <1>0 DEF TypeOK, Counted
  <2>2. /\ Here + Counted <= dest + NewTag
        /\ ~erased => iPath = dest - Here + NewTag
    BY <1>0, <2>1 DEF OnTrack, AtRest, Between, AtCode
  <2> QED  BY <1>0, <2>1, <2>2
<1>2. StopsAtDestination
  <2> SUFFICES ASSUME Motionstyle = "STOP", ~OutOfTrack
               PROVE  (~erased => InView(dest)) /\ \E c \in 0 .. dest : InView(c)
    BY DEF StopsAtDestination, Fault
  <2>1. ~moving /\ ending = "none" /\ Here \in Nat
    BY DEF OnTrack, Ending
  <2>2. X = 0 /\ Here + Counted <= dest /\ (~erased => iPath = 0 /\ iPath = dest - Here)
    BY <2>1 DEF OnTrack, AtRest
  <2>3. Here \in 0 .. dest /\ (~erased => dest = Here)
    <3>1. Counted \in Nat
      BY DEF Counted, TypeOK
    <3> QED  BY <1>0, <2>1, <2>2, <3>1
  <2>4. InView(Here)
    <3>1. pos - Here * D = 0
      BY <2>2 DEF X
    <3> QED  BY <3>1 DEF InView
  <2> QED  BY <2>3, <2>4
<1>3. AlarmJustified
  BY DEF AlarmJustified, OffTrack
<1>4. MissedNoticed
  <2> SUFFICES ASSUME moving, ~OutOfTrack, NEW c \in Dirty, pos > c * D
               PROVE  pos < (c + 1) * D
    BY DEF MissedNoticed
  <2>1. Here \in Nat /\ c \in Nat /\ c >= 1 /\ c > Here
    BY DEF OnTrack
  <2>2. /\ Here * D \in Int /\ c * D \in Int /\ (c + 1) * D = c * D + D
        /\ (Here + 1) * D = Here * D + D
    BY <2>1, NextCode
  <2>3. c * D >= Here * D + D
    BY <2>1, <2>2, CodeOrder
  <2>4. X > D /\ pos = X + Here * D /\ X \in Int
    BY <1>0, <2>2, <2>3 DEF X
  <2>5. X < 2 * D
    <3>1. CASE NewTag = 0
      <4>1. X <= D + D \div 2 + MaxSlips + 1 + (IF seen THEN 0 ELSE 1)
        BY <3>1 DEF OnTrack, Between
      <4> QED  BY <2>4, <4>1
    <3>2. CASE NewTag = 1
      <4>1. X \in {-1, 0}
        BY <3>2 DEF OnTrack, AtCode
      <4> QED  BY <4>1
    <3> QED  BY <1>0, <3>1, <3>2
  <2>6. pos < c * D + D
    BY <1>0, <2>2, <2>3, <2>4, <2>5
  <2> QED  BY <2>2, <2>6
<1> QED  BY <1>1, <1>2, <1>3, <1>4 DEF RunInv, LostTrackJudged

(* The task knows how many codes are to go and the controller hears of the *)
(* destination before the end, whatever commands extend the run and        *)
(* whatever the wheels measure.                                            *)
THEOREM RunAgrees == Spec => []RunInv
BY RunInvariant, RunSound, PTL

(* A run that ends without an alarm ends on the code it was meant for.     *)
THEOREM RunStops == Spec => []StopsAtDestination
BY RunInvariant, RunSound, PTL

(* The alarm is raised for a code that was missed, before the next one is  *)
(* reached, and for nothing else.                                          *)
THEOREM RunJudged == Spec => []LostTrackJudged
BY RunInvariant, RunSound, PTL

-----------------------------------------------------------------------------
(* The filter: what it holds while can is inside sliding_filter_input().   *)

Dev == Nat \X Nat

FilterTypes ==
    /\ fpc \in {"none", "input", "shift", "store", "done"}
    /\ dev \in Dev /\ i \in Nat /\ cnt \in 0 .. Size
    /\ buffer \in [0 .. Size - 1 -> Dev] /\ detY0 \in Nat /\ inputs \in Seq(Dev)

(* can works on the filter only while it reports a new code: by then the   *)
(* task has not taken notice of the code, so it cannot end the run.        *)
Reporting == fpc # "none" => can = "report"

(* The loop has moved the deviations below i down by one place.            *)
ShiftPart ==
    fpc = "shift" =>
        /\ cnt = Size /\ i \in 0 .. Size - 1 /\ Len(inputs) >= Size
        /\ \A k \in 0 .. Size - 1 :
              buffer[k] = inputs[Len(inputs) - Size + (IF k < i THEN k + 2 ELSE k + 1)]

(* There is room for one, and the others are the latest.                   *)
StorePart ==
    fpc = "store" =>
        /\ cnt = (IF Len(inputs) < Size - 1 THEN Len(inputs) ELSE Size - 1)
        /\ \A k \in 0 .. cnt - 1 : buffer[k] = inputs[Len(inputs) - cnt + k + 1]

FilterIInv ==
    /\ RunIInv /\ FilterTypes /\ Reporting
    /\ ShiftPart /\ StorePart /\ HoldsLast /\ OneCorrection

LEMMA SizeBounds == Size \in Nat /\ Size >= 2 /\ Size - 1 \in Nat
BY SlidingFilterAssumption

(* Every step of the composition is one of the run, or leaves it alone.    *)
LEMMA FilterStepRuns == [FilterNext]_allVars => [Next]_vars
<1> SUFFICES ASSUME [FilterNext]_allVars PROVE [Next]_vars
  OBVIOUS
<1>1. CASE FilterStep
  BY <1>1 DEF FilterStep, Measure, Input, Shift, Drop1, Store
<1>2. CASE FilterReport \/ FilterEnd \/ Elsewhere
  BY <1>2 DEF FilterReport, FilterEnd, Elsewhere, Next
<1>3. CASE UNCHANGED allVars
  BY <1>3 DEF allVars
<1> QED  BY <1>1, <1>2, <1>3 DEF FilterNext

LEMMA InitFilter == FilterInit => FilterIInv
<1> SUFFICES ASSUME FilterInit PROVE FilterIInv
  OBVIOUS
<1>1. RunIInv
  BY InitRun DEF FilterInit
<1>2. inputs = <<>> /\ <<>> \in Seq(Dev) /\ Len(inputs) = 0
  BY DEF FilterInit
<1>3. None \in Dev
  BY DEF None, Dev
<1>4. FilterTypes
  BY <1>2, <1>3, SizeBounds DEF FilterInit, FilterTypes
<1>5. Reporting /\ ShiftPart /\ StorePart
  BY DEF FilterInit, Reporting, ShiftPart, StorePart
<1>6. HoldsLast
  BY <1>2, SizeBounds DEF FilterInit, HoldsLast
<1>7. OneCorrection
  BY <1>2 DEF FilterInit, OneCorrection
<1> QED  BY <1>1, <1>4, <1>5, <1>6, <1>7 DEF FilterIInv

(* A step that leaves the filter alone.                                    *)
LEMMA FilterUntouched ==
    ASSUME FilterIInv, RunIInv', Reporting', UNCHANGED filterVars,
           ending = "correct" <=> ending' = "correct"
    PROVE  FilterIInv'
<1>1. UNCHANGED <<fpc, dev, i, cnt, buffer, detY0, inputs>>
  BY DEF filterVars, ringVars
<1>2. FilterTypes'
  BY <1>1 DEF FilterIInv, FilterTypes
<1>3. ShiftPart' /\ StorePart' /\ HoldsLast' /\ OneCorrection'
  BY <1>1 DEF FilterIInv, ShiftPart, StorePart, HoldsLast, OneCorrection
<1> QED  BY <1>2, <1>3 DEF FilterIInv

(* can in the callback.                                                    *)
LEMMA MeasureFilter ==
    ASSUME FilterIInv, RunIInv', Measure
    PROVE  FilterIInv'
<1> USE DEF FilterIInv
<1>1. /\ can' = can /\ can = "report" /\ fpc = "none" /\ ending' = ending
      /\ UNCHANGED <<i, cnt, buffer, detY0, inputs>>
      /\ \/ fpc' = "input" /\ dev' = Deviation(twoD_TagCode)
         \/ fpc' = "done" /\ dev' = dev
  BY DEF Measure, vars, faultVars, ringVars
<1>2. Deviation(twoD_TagCode) \in Dev /\ Deviation(twoD_TagCode)[2] = detY0
  BY DEF Deviation, Dev, RunIInv, TypeOK, FilterTypes
<1>3. FilterTypes'
  BY <1>1, <1>2 DEF FilterTypes
<1>4. Reporting' /\ ShiftPart' /\ StorePart' /\ HoldsLast'
  BY <1>1 DEF Reporting, ShiftPart, StorePart, HoldsLast
<1>5. OneCorrection'
  <2>1. CASE OutOfTrack
    <3>1. ending # "correct"
      BY <2>1 DEF RunIInv, OffTrack
    <3> QED  BY <1>1, <1>2, <3>1 DEF OneCorrection
  <2>2. CASE ~OutOfTrack
    <3>1. ending = "none"
      BY <1>1, <2>2 DEF RunIInv, OnTrack, Ending
    <3> QED  BY <1>1, <1>2, <3>1 DEF OneCorrection
  <2> QED  BY <2>1, <2>2
<1> QED  BY <1>3, <1>4, <1>5

LEMMA InputFilter ==
    ASSUME FilterIInv, RunIInv', Input
    PROVE  FilterIInv'
<1> USE DEF FilterIInv
<1>1. /\ can' = can /\ ending' = ending /\ fpc = "input" /\ i' = 0 /\ fpc' = (IF Full THEN "shift" ELSE "store")
      /\ UNCHANGED <<dev, cnt, buffer, detY0, inputs>>
  BY DEF Input, vars, faultVars, ringVars
<1>2. Len(inputs) \in Nat /\ cnt \in 0 .. Size
  BY DEF FilterTypes
<1>3. /\ cnt = (IF Len(inputs) < Size THEN Len(inputs) ELSE Size)
      /\ \A k \in 0 .. cnt - 1 : buffer[k] = inputs[Len(inputs) - cnt + k + 1]
  BY <1>1 DEF HoldsLast
<1>4. FilterTypes' /\ Reporting'
  BY <1>1 DEF FilterTypes, Reporting
<1>5. ShiftPart'
  <2> SUFFICES ASSUME fpc' = "shift" PROVE ShiftPart'
    BY DEF ShiftPart
  <2>1. cnt = Size
    BY <1>1 DEF Full
  <2>2. Len(inputs) >= Size /\ 0 <= Size - 1
    BY <1>2, <1>3, <2>1, SizeBounds
  <2>3. ASSUME NEW k \in 0 .. Size - 1
        PROVE  ~(k < 0) /\ buffer[k] = inputs[Len(inputs) - Size + (k + 1)]
    <3>1. k \in Int /\ ~(k < 0) /\ k \in 0 .. cnt - 1
      BY <2>1, SizeBounds
    <3>2. buffer[k] = inputs[Len(inputs) - Size + k + 1]
      BY <1>3, <2>1, <3>1
    <3>3. Len(inputs) - Size + k + 1 = Len(inputs) - Size + (k + 1)
      BY <1>2, <3>1, SizeBounds
    <3> QED  BY <3>2, <3>1, <3>3
  <2>4. i' \in 0 .. Size - 1 /\ cnt' = Size /\ Len(inputs') >= Size
    BY <1>1, <2>1, <2>2, SizeBounds
  <2>5. ASSUME NEW k \in 0 .. Size - 1
        PROVE  buffer'[k] = inputs'[Len(inputs') - Size + (IF k < i' THEN k + 2 ELSE k + 1)]
    BY <1>1, <2>3
  <2> QED  BY <2>4, <2>5 DEF ShiftPart
<1>6. StorePart'
  <2> SUFFICES ASSUME fpc' = "store" PROVE StorePart'
    BY DEF StorePart
  <2>1. cnt # Size
    BY <1>1 DEF Full
  <2>2. cnt = Len(inputs) /\ Len(inputs) < Size
    BY <1>2, <1>3, <2>1, SizeBounds
  <2>3. Len(inputs) <= Size - 1
    BY <1>2, <2>2, SizeBounds
  <2>4. cnt' = (IF Len(inputs') < Size - 1 THEN Len(inputs') ELSE Size - 1)
    BY <1>1, <1>2, <2>2, <2>3, SizeBounds
  <2>5. \A k \in 0 .. cnt' - 1 : buffer'[k] = inputs'[Len(inputs') - cnt' + k + 1]
    BY <1>1, <1>3
  <2> QED  BY <2>4, <2>5 DEF StorePart
<1>7. HoldsLast' /\ OneCorrection'
  BY <1>1 DEF HoldsLast, OneCorrection
<1> QED  BY <1>4, <1>5, <1>6, <1>7

LEMMA ShiftFilter ==
    ASSUME FilterIInv, RunIInv', Shift
    PROVE  FilterIInv'
<1> USE DEF FilterIInv
<1>1. /\ can' = can /\ ending' = ending /\ fpc = "shift" /\ fpc' = "shift" /\ i' = i + 1
      /\ buffer' = [buffer EXCEPT ![i] = buffer[i + 1]] /\ Shifting
      /\ UNCHANGED <<dev, cnt, detY0, inputs>>
  BY DEF Shift, Moved, vars, faultVars
<1>2. /\ cnt = Size /\ i \in 0 .. Size - 1 /\ Len(inputs) >= Size /\ Len(inputs) \in Nat
      /\ \A k \in 0 .. Size - 1 :
              buffer[k] = inputs[Len(inputs) - Size + (IF k < i THEN k + 2 ELSE k + 1)]
  BY <1>1 DEF ShiftPart, FilterTypes
<1>3. i + 1 \in 0 .. Size - 1
  <2>1. i < cnt - 1 /\ cnt = Size /\ i \in 0 .. Size - 1
    BY <1>1, <1>2, SizeBounds DEF Shifting
  <2> QED  BY <2>1, SizeBounds
<1>4. FilterTypes'
  BY <1>1, <1>2, <1>3 DEF FilterTypes
<1>5. ShiftPart'
  <2>1. ASSUME NEW k \in 0 .. Size - 1
        PROVE  buffer'[k] = inputs[Len(inputs) - Size + (IF k < i + 1 THEN k + 2 ELSE k + 1)]
    <3>1. CASE k = i
      <4>1. buffer'[k] = buffer[i + 1]
        BY <1>1, <3>1 DEF FilterTypes
      <4>2. buffer[i + 1] = inputs[Len(inputs) - Size + (i + 1 + 1)]
        BY <1>2, <1>3
      <4>3. i + 1 + 1 = k + 2 /\ k < i + 1
        BY <1>2, <3>1
      <4> QED  BY <4>1, <4>2, <4>3
    <3>2. CASE k # i
      <4>1. buffer'[k] = buffer[k]
        BY <1>1, <3>2 DEF FilterTypes
      <4>2. k < i <=> k < i + 1
        BY <1>2, <3>2
      <4> QED  BY <1>2, <4>1, <4>2
    <3> QED  BY <3>1, <3>2
  <2> QED  BY <1>1, <1>2, <1>3, <2>1 DEF ShiftPart
<1>6. Reporting' /\ StorePart' /\ HoldsLast' /\ OneCorrection'
  BY <1>1 DEF Reporting, StorePart, HoldsLast, OneCorrection
<1> QED  BY <1>4, <1>5, <1>6

LEMMA DropFilter ==
    ASSUME FilterIInv, RunIInv', Drop1
    PROVE  FilterIInv'
<1> USE DEF FilterIInv
<1>1. /\ can' = can /\ ending' = ending /\ fpc = "shift" /\ fpc' = "store" /\ cnt' = cnt - 1 /\ ~Shifting
      /\ UNCHANGED <<dev, i, buffer, detY0, inputs>>
  BY DEF Drop1, vars, faultVars
<1>2. /\ cnt = Size /\ i \in 0 .. Size - 1 /\ Len(inputs) >= Size /\ Len(inputs) \in Nat
      /\ \A k \in 0 .. Size - 1 :
              buffer[k] = inputs[Len(inputs) - Size + (IF k < i THEN k + 2 ELSE k + 1)]
  BY <1>1 DEF ShiftPart, FilterTypes
<1>3. i = Size - 1 /\ cnt' = Size - 1
  BY <1>1, <1>2, SizeBounds DEF Shifting
<1>4. FilterTypes'
  BY <1>1, <1>3, SizeBounds DEF FilterTypes
<1>5. StorePart'
  <2>1. ASSUME NEW k \in 0 .. Size - 2
        PROVE  buffer[k] = inputs[Len(inputs) - (Size - 1) + k + 1]
    <3>1. k \in 0 .. Size - 1 /\ k < i
      BY <1>3, SizeBounds
    <3>2. buffer[k] = inputs[Len(inputs) - Size + (k + 2)]
      BY <1>2, <3>1
    <3>3. Len(inputs) - Size + (k + 2) = Len(inputs) - (Size - 1) + k + 1
      BY <1>2, SizeBounds
    <3> QED  BY <3>2, <3>3
  <2> QED  BY <1>1, <1>2, <1>3, <2>1, SizeBounds DEF StorePart
<1>6. Reporting' /\ ShiftPart' /\ HoldsLast' /\ OneCorrection'
  BY <1>1 DEF Reporting, ShiftPart, HoldsLast, OneCorrection
<1> QED  BY <1>4, <1>5, <1>6

LEMMA StoreFilter ==
    ASSUME FilterIInv, RunIInv', Store
    PROVE  FilterIInv'
<1> USE DEF FilterIInv
<1> DEFINE n == Len(inputs)
<1>1. /\ can' = can /\ ending' = ending /\ fpc = "store" /\ fpc' = "done" /\ cnt' = cnt + 1
      /\ buffer' = [buffer EXCEPT ![cnt] = dev] /\ inputs' = Append(inputs, dev)
      /\ UNCHANGED <<dev, i, detY0>>
  BY DEF Store, vars, faultVars
<1>2. /\ cnt = (IF n < Size - 1 THEN n ELSE Size - 1) /\ n \in Nat /\ cnt \in 0 .. Size - 1
      /\ \A k \in 0 .. cnt - 1 : buffer[k] = inputs[n - cnt + k + 1]
  BY <1>1, SizeBounds DEF StorePart, FilterTypes
<1>3. /\ inputs' \in Seq(Dev) /\ Len(inputs') = n + 1 /\ inputs'[n + 1] = dev
      /\ \A k \in 1 .. n : inputs'[k] = inputs[k]
  BY <1>1 DEF FilterTypes
<1>4. FilterTypes'
  BY <1>1, <1>2, <1>3, SizeBounds DEF FilterTypes
<1>5. HoldsLast'
  <2>1. cnt' = (IF n + 1 < Size THEN n + 1 ELSE Size)
    BY <1>1, <1>2, SizeBounds
  <2>2. ASSUME NEW k \in 0 .. cnt
        PROVE  buffer'[k] = inputs'[(n + 1) - (cnt + 1) + k + 1]
    <3>1. CASE k = cnt
      <4>1. buffer'[k] = dev
        BY <1>1, <1>2, <3>1 DEF FilterTypes
      <4>2. (n + 1) - (cnt + 1) + k + 1 = n + 1
        BY <1>2, <3>1
      <4> QED  BY <1>3, <4>1, <4>2
    <3>2. CASE k # cnt
      <4>1. k \in 0 .. cnt - 1 /\ k \in 0 .. Size - 1
        BY <1>2, <3>2, SizeBounds
      <4>2. buffer'[k] = inputs[n - cnt + k + 1]
        BY <1>1, <1>2, <3>2, <4>1 DEF FilterTypes
      <4>3. n - cnt + k + 1 \in 1 .. n /\ (n + 1) - (cnt + 1) + k + 1 = n - cnt + k + 1
        <5>1. n \in Nat /\ cnt \in Nat /\ cnt <= n /\ k \in Nat /\ k < cnt
          BY <1>2, <4>1, SizeBounds
        <5> QED  BY <5>1
      <4> QED  BY <1>3, <4>2, <4>3
    <3> QED  BY <3>1, <3>2
  <2>3. cnt' - 1 = cnt
    BY <1>1, <1>2
  <2> QED  BY <1>1, <1>3, <2>1, <2>2, <2>3 DEF HoldsLast
<1>6. OneCorrection'
  <2>1. ending # "correct" /\ dev[2] = detY0 /\ \A k \in 1 .. n : inputs[k][2] = detY0
    BY <1>1 DEF OneCorrection, FilterTypes
  <2>2. DOMAIN inputs' = 1 .. n + 1
    BY <1>3
  <2> QED  BY <1>1, <1>2, <1>3, <2>1, <2>2 DEF OneCorrection
<1>7. Reporting' /\ ShiftPart' /\ StorePart'
  BY <1>1 DEF Reporting, ShiftPart, StorePart
<1> QED  BY <1>4, <1>5, <1>6, <1>7

(* motionctrl may come at any point of this: it ends a run only while can  *)
(* is not in the callback.                                                 *)
LEMMA EndFilter ==
    ASSUME FilterIInv, RunIInv', FilterEnd
    PROVE  FilterIInv'
<1> USE DEF FilterIInv
<1>1. can' = can /\ UNCHANGED <<fpc, dev, i>>
  BY DEF FilterEnd, CycleEnd
<1>2. Reporting'
  BY <1>1 DEF Reporting
<1>3. CASE Halt
  <2>1. ending = "brake" /\ ending' = "none"
    BY <1>3 DEF Halt
  <2>2. UNCHANGED filterVars
    BY <1>1, <2>1 DEF FilterEnd, filterVars
  <2> QED  BY <1>2, <2>1, <2>2, FilterUntouched
<1>4. CASE OverCorrect \/ OverAtOnce \/ OverAtLast
  <2>1. fpc = "none"
    <3>1. ending \in {"drive", "correct"}
      BY <1>4 DEF OverCorrect, OverAtOnce, OverAtLast, Forget
    <3>2. can = "idle"
      BY <3>1 DEF RunIInv, OnTrack, OffTrack, Ending
    <3> QED  BY <3>2 DEF Reporting
  <2>2. ShiftPart' /\ StorePart'
    BY <1>1, <2>1 DEF ShiftPart, StorePart
  <2>3. CASE OverCorrect
    <3>1. ending' = "correct" /\ detY0' = detY0 + 1 /\ UNCHANGED <<cnt, buffer, inputs>>
      BY <2>3 DEF FilterEnd, OverCorrect, Forget, ringVars
    <3>2. FilterTypes' /\ HoldsLast' /\ OneCorrection'
      BY <1>1, <2>1, <3>1 DEF FilterTypes, HoldsLast, OneCorrection
    <3> QED  BY <1>2, <2>2, <3>2
  <2>4. CASE OverAtOnce
    <3>1. ending = "drive" /\ ending' = "none"
      BY <2>4 DEF OverAtOnce, Forget, Finish
    <3>2. UNCHANGED filterVars
      BY <1>1, <3>1 DEF FilterEnd, filterVars
    <3> QED  BY <1>2, <3>1, <3>2, FilterUntouched
  <2>5. CASE OverAtLast
    <3>1. /\ cnt' = 0 /\ buffer' = [k \in 0 .. Size - 1 |-> None] /\ inputs' = <<>>
          /\ detY0' = detY0
      BY <2>5 DEF FilterEnd, OverAtLast, Finish, Clear
    <3>2. inputs' \in Seq(Dev) /\ Len(inputs') = 0 /\ DOMAIN inputs' = {}
      BY <3>1
    <3>3. None \in Dev
      BY DEF None, Dev
    <3>4. FilterTypes'
      BY <1>1, <3>1, <3>2, <3>3, SizeBounds DEF FilterTypes
    <3>5. HoldsLast'
      BY <3>1, <3>2, SizeBounds DEF HoldsLast
    <3>6. OneCorrection'
      BY <1>1, <2>1, <3>2 DEF OneCorrection
    <3> QED  BY <1>2, <2>2, <3>4, <3>5, <3>6
  <2> QED  BY <1>4, <2>3, <2>4, <2>5
<1> QED  BY <1>3, <1>4 DEF FilterEnd, CycleEnd

(* Only the end of a run enters the correction or leaves it.               *)
LEMMA EndingElsewhere ==
    ASSUME Elsewhere
    PROVE  /\ can = "report" => can' = "report"
           /\ ending = "correct" <=> ending' = "correct"
<1>1. CASE Move \/ Copy \/ Latch \/ Accept \/ Commit \/ Push
  BY <1>1 DEF Move, Copy, Latch, Accept, Commit, Push, faultVars
<1>2. CASE Cycle
  <2>1. can' = can /\ ending = "none"
    BY <1>2 DEF Cycle
  <2>2. CASE RunCycle
    BY <2>1, <2>2 DEF RunCycle, Start, Approach, End, PassCode, LeaveTrack, KeepGoing
  <2>3. CASE FaultCycle
    BY <2>1, <2>3 DEF FaultCycle, Brake, Drop
  <2>4. CASE SuspendCycle
    BY <2>1, <2>4 DEF SuspendCycle
  <2> QED  BY <1>2, <2>1, <2>2, <2>3, <2>4 DEF Cycle
<1> QED  BY <1>1, <1>2 DEF Elsewhere

(* The invariant is inductive.                                             *)
LEMMA NextFilter == FilterIInv /\ [FilterNext]_allVars => FilterIInv'
<1> SUFFICES ASSUME FilterIInv, [FilterNext]_allVars PROVE FilterIInv'
  OBVIOUS
<1>1. RunIInv'
  BY FilterStepRuns, NextRun DEF FilterIInv
<1>2. CASE FilterStep
  BY <1>1, <1>2, MeasureFilter, InputFilter, ShiftFilter, DropFilter, StoreFilter DEF FilterStep
<1>3. CASE FilterReport
  <2>1. UNCHANGED <<dev, i, cnt, buffer, detY0, inputs, ending>> /\ fpc = "done" /\ fpc' = "none"
    BY <1>3 DEF FilterReport, ringVars, Report, faultVars
  <2>2. FilterTypes'
    BY <2>1 DEF FilterIInv, FilterTypes
  <2>3. Reporting' /\ ShiftPart' /\ StorePart' /\ HoldsLast' /\ OneCorrection'
    BY <2>1 DEF FilterIInv, Reporting, ShiftPart, StorePart, HoldsLast, OneCorrection
  <2> QED  BY <1>1, <2>2, <2>3 DEF FilterIInv
<1>4. CASE FilterEnd
  BY <1>1, <1>4, EndFilter
<1>5. CASE Elsewhere
  <2>1. UNCHANGED filterVars /\ fpc' = fpc
    BY <1>5 DEF Elsewhere, filterVars
  <2>2. Reporting'
    BY <1>5, <2>1, EndingElsewhere DEF FilterIInv, Reporting
  <2> QED  BY <1>1, <1>5, <2>1, <2>2, EndingElsewhere, FilterUntouched
<1>6. CASE UNCHANGED allVars
  <2>1. Reporting' /\ ending' = ending
    BY <1>6 DEF FilterIInv, Reporting, allVars, vars, faultVars, filterVars
  <2> QED  BY <1>1, <1>6, <2>1, FilterUntouched DEF allVars
<1> QED  BY <1>2, <1>3, <1>4, <1>5, <1>6 DEF FilterNext

(* The invariant holds in every state of the composition.                  *)
THEOREM FilterInvariant == FilterSpec => []FilterIInv
BY InitFilter, NextFilter, PTL DEF FilterSpec

(* Nothing is read or written beyond the filter's buffer, it holds the     *)
(* last deviations in their order, and until motionctrl corrects with them *)
(* all of them were measured under the correction in force, though         *)
(* motionctrl may preempt can anywhere in it.                              *)
THEOREM FilterSafe == FilterSpec => []FilterInv
<1>1. FilterIInv => FilterInv
  <2> SUFFICES ASSUME FilterIInv PROVE FilterInv
    OBVIOUS
  <2>1. InBuffer
    BY SizeBounds DEF FilterIInv, FilterTypes, ShiftPart, StorePart, InBuffer, Shifting
  <2> QED  BY <2>1 DEF FilterIInv, FilterInv
<1> QED  BY <1>1, FilterInvariant, PTL

-----------------------------------------------------------------------------
(* Turns on the spot.  They share MotionState with the straight runs, the  *)
(* rest of their state is their own.                                       *)
USE TurnAssumption

(* Where a right turn stops lies within the quadrant of its destination,   *)
(* and half a quadrant holds the two cells the vehicle rolls on.  The code *)
(* stops at 0.8 degrees of 45.                                             *)
StopsInside == StopAt <= Quarter \div 2 /\ Quarter \div 2 >= 2

(* A right turn: while the camera has not seen it below StopAt it is where *)
(* the camera saw it or a cell further; from then on it brakes by a step a *)
(* cell, so it can only roll on for a cell per step.                       *)
Braking ==
    Motionstyle = "TRUNRIGHT" /\ ~GSMissing =>
        IF twoD_Angle < StopAt
        THEN angle <= StopAt - 1 /\ angle >= StopAt + wCurrent - (IF seen THEN 3 ELSE 4)
        ELSE silent \/ angle = twoD_Angle \/ angle = twoD_Angle - 1

Driven ==
    /\ fresh => twoD_Angle = angle
    /\ twoDMissingCnt > MissLimit => GSMissing
    /\ nAgvWorkMode = "SUSPENDED" => GSMissing
    /\ ~GSMissing => driven = wCurrent
    /\ Motionstyle = "STOP" /\ ~GSMissing => wCurrent = 0

TurnIInv == TurnInv /\ Driven /\ Braking

LEMMA HalfIs ==
    ASSUME StopsInside
    PROVE  /\ Quarter \div 2 \in Nat /\ 2 * (Quarter \div 2) <= Quarter
           /\ FullTurn \in Nat \ {0} /\ FullTurn = 4 * Quarter
BY DEF StopsInside, FullTurn

LEMMA SmallMod ==
    ASSUME NEW n \in Nat \ {0}, NEW x \in 0 .. n - 1
    PROVE  x % n = x
OBVIOUS

LEMMA RemainIs ==
    ASSUME StopsInside, TurnTypes
    PROVE  AngleRemain = twoD_Angle
<1> DEFINE x == twoD_Angle + Quarter \div 2
<1>1. x \in 0 .. FullTurn - 1
  BY HalfIs DEF TurnTypes, Angles
<1>2. x % FullTurn = x
  BY <1>1, HalfIs, SmallMod
<1>3. twoD_Angle \in Int
  BY HalfIs DEF TurnTypes, Angles
<1> QED  BY <1>2, <1>3, HalfIs DEF AngleRemain

LEMMA TurnRotate ==
    ASSUME StopsInside, TurnIInv, Rotate
    PROVE  TurnIInv'
<1> USE DEF TurnIInv, TurnInv, speedVars, missVars
<1> DEFINE h == Quarter \div 2
<1>1. /\ h \in Nat /\ h >= 2 /\ FullTurn = 4 * Quarter /\ 2 * h <= Quarter /\ StopAt \in 1 .. h
      /\ TurnTypes /\ angle \in -h .. FullTurn - h - 1 /\ twoD_Angle \in Int /\ wCurrent \in 0 .. 3
      /\ Quarter \in Nat
  BY HalfIs DEF StopsInside, TurnTypes, Angles, Rest, Fast
<1>2. /\ driven # 0 /\ seen /\ (fresh \/ silent) /\ fresh' = FALSE /\ seen' = FALSE
      /\ angle' = (IF angle - 1 < -h THEN angle - 1 + FullTurn ELSE angle - 1)
      /\ UNCHANGED <<twoD_Angle, silent, Motionstyle, wCurrent, driven, twoDMissingCnt, GSMissing,
                     nAgvWorkMode, over, turns>>
  BY DEF Rotate, Rest
<1> HIDE DEF h
<1>3. angle' \in -h .. FullTurn - h - 1
  BY <1>1, <1>2
<1>4. TurnTypes' /\ EndsInQuadrant'
  BY <1>1, <1>2, <1>3 DEF TurnTypes, Angles, EndsInQuadrant, h
<1>5. Driven'
  BY <1>2 DEF Driven
<1>6. Braking'
  <2> SUFFICES ASSUME Motionstyle = "TRUNRIGHT", ~GSMissing
               PROVE  IF twoD_Angle < StopAt
                      THEN angle' <= StopAt - 1 /\ angle' >= StopAt + wCurrent - 4
                      ELSE silent \/ angle' = twoD_Angle \/ angle' = twoD_Angle - 1
    BY <1>2 DEF Braking
  <2>1. driven = wCurrent /\ wCurrent >= 1
    BY <1>1, <1>2 DEF Driven
  <2>2. CASE twoD_Angle < StopAt
    <3>1. angle <= StopAt - 1 /\ angle >= StopAt + wCurrent - 3
      BY <1>2, <2>2 DEF Braking
    <3>2. angle' = angle - 1
      BY <1>1, <1>2, <2>1, <3>1
    <3> QED  BY <1>1, <2>2, <3>1, <3>2
  <2>3. CASE ~(twoD_Angle < StopAt) /\ ~silent
    <3>1. angle = twoD_Angle
      BY <1>2, <2>3 DEF Driven
    <3>2. angle' = angle - 1
      BY <1>1, <1>2, <2>3, <3>1
    <3> QED  BY <2>3, <3>1, <3>2
  <2> QED  BY <2>2, <2>3
<1> QED  BY <1>4, <1>5, <1>6

LEMMA TurnReport ==
    ASSUME StopsInside, TurnIInv, ReportAngle
    PROVE  TurnIInv'
<1> USE DEF TurnIInv, TurnInv
<1>1. /\ ~silent /\ twoD_Angle' = angle /\ fresh' = TRUE /\ seen' = (seen /\ fresh) /\ twoDMissingCnt' = 0
      /\ UNCHANGED <<angle, silent, Motionstyle, wCurrent, driven, GSMissing, nAgvWorkMode, over, turns>>
  BY DEF ReportAngle, speedVars
<1>2. seen' \in BOOLEAN /\ fresh' \in BOOLEAN
  BY <1>1 DEF TurnTypes
<1>3. twoDMissingCnt' \in 0 .. MissLimit + 1 /\ ~(twoDMissingCnt' > MissLimit)
  BY <1>1 DEF StopsInside
<1>4. TurnTypes' /\ EndsInQuadrant'
  BY <1>1, <1>2, <1>3 DEF TurnTypes, EndsInQuadrant, Angles
<1>5. Driven'
  BY <1>1, <1>3 DEF Driven
<1>6. /\ angle \in Int /\ wCurrent \in 0 .. 3 /\ StopAt \in Int /\ twoD_Angle \in Int
  BY HalfIs DEF StopsInside, TurnTypes, Angles, Rest, Fast
<1>7. Braking'
  <2> SUFFICES ASSUME Motionstyle = "TRUNRIGHT", ~GSMissing, angle < StopAt
               PROVE  angle <= StopAt - 1 /\ angle >= StopAt + wCurrent - (IF seen' THEN 3 ELSE 4)
    BY <1>1, <1>6 DEF Braking
  <2>1. CASE twoD_Angle < StopAt
    <3>1. angle >= StopAt + wCurrent - (IF seen THEN 3 ELSE 4)
      BY <2>1 DEF Braking
    <3>2. seen' => seen
      BY <1>1
    <3> QED  BY <1>6, <3>1, <3>2
  <2>2. CASE ~(twoD_Angle < StopAt)
    <3>1. angle = twoD_Angle \/ angle = twoD_Angle - 1
      BY <1>1, <2>2 DEF Braking
    <3>2. angle = StopAt - 1 /\ ~fresh
      BY <1>6, <2>2, <3>1 DEF Driven
    <3>3. ~seen'
      BY <1>1, <3>2
    <3> QED  BY <1>6, <3>2, <3>3
  <2> QED  BY <2>1, <2>2
<1> QED  BY <1>4, <1>5, <1>7

LEMMA TurnCommand ==
    ASSUME StopsInside, TurnIInv, Command
    PROVE  TurnIInv'
<1> USE DEF TurnIInv, TurnInv
<1> DEFINE h == Quarter \div 2
<1>1. PICK side \in Turns, q \in 1 .. 3 :
        /\ turns < MaxTurns /\ turns' = turns + 1 /\ Motionstyle' = side
        /\ angle' = AngleRemain + q * Quarter /\ twoD_Angle' = angle'
        /\ angle' \in -h .. FullTurn - h - 1
        /\ Motionstyle = "STOP" /\ driven = 0
        /\ UNCHANGED <<fresh, seen, silent, wCurrent, driven, twoDMissingCnt, GSMissing, nAgvWorkMode, over>>
  BY DEF Command, missVars, Rest
<1>2. /\ h \in Nat /\ FullTurn = 4 * Quarter /\ 2 * h <= Quarter /\ StopAt \in 1 .. h
      /\ TurnTypes /\ twoD_Angle \in Int /\ twoD_Angle >= -h /\ Quarter \in Nat /\ MaxTurns \in Nat
      /\ AngleRemain = twoD_Angle
  BY HalfIs, RemainIs DEF StopsInside, TurnTypes, Angles
<1>3. angle' >= StopAt /\ angle' \in Int /\ turns' \in 0 .. MaxTurns
  <2>1. q * Quarter \in Nat /\ q * Quarter >= Quarter
    BY <1>2
  <2>2. turns \in 0 .. MaxTurns
    BY <1>2 DEF TurnTypes
  <2> HIDE DEF h
  <2> QED  BY <1>1, <1>2, <2>1, <2>2
<1>4. TurnTypes' /\ EndsInQuadrant'
  BY <1>1, <1>2, <1>3 DEF TurnTypes, Angles, EndsInQuadrant
<1>5. Driven'
  BY <1>1 DEF Driven, Turns
<1>6. Braking'
  BY <1>1, <1>2, <1>3 DEF Braking
<1> QED  BY <1>4, <1>5, <1>6

(* A cycle of a turn.                                                      *)
LEMMA TurnSteered ==
    ASSUME StopsInside, TurnIInv, Turning, seen' = TRUE,
           UNCHANGED <<angle, twoD_Angle, fresh, silent, turns>>
    PROVE  TurnIInv'
<1> USE DEF TurnIInv, TurnInv
<1> DEFINE h == Quarter \div 2
<1>1. /\ h \in Nat /\ h >= 2 /\ StopAt \in 1 .. h
      /\ TurnTypes /\ angle \in Int /\ angle >= -h /\ twoD_Angle \in Int
      /\ wCurrent \in 0 .. 3 /\ MissLimit \in Nat /\ AngleRemain = twoD_Angle
  BY HalfIs, RemainIs DEF StopsInside, TurnTypes, Angles, Rest, Fast
<1>2. /\ Motionstyle \in Turns /\ ~GSMissing /\ nAgvWorkMode = "RUNNING" /\ nAgvWorkMode' = nAgvWorkMode
      /\ driven = wCurrent
  BY DEF Turning, Driven
<1>3. /\ twoDMissingCnt' \in 0 .. MissLimit + 1 /\ GSMissing' \in BOOLEAN
      /\ twoDMissingCnt' > MissLimit => GSMissing'
  <2>1. twoDMissingCnt \in 0 .. MissLimit
    BY <1>1, <1>2 DEF Driven, TurnTypes
  <2>2. Miss
    BY DEF Turning
  <2>3. CASE wCurrent > Crawl
    <3>1. twoDMissingCnt' = twoDMissingCnt + 1 /\ GSMissing' = (GSMissing \/ twoDMissingCnt' > MissLimit)
      BY <2>2, <2>3 DEF Miss
    <3>2. GSMissing' \in BOOLEAN /\ (twoDMissingCnt' > MissLimit => GSMissing')
      BY <3>1
    <3> QED  BY <1>1, <2>1, <3>1, <3>2
  <2>4. CASE ~(wCurrent > Crawl)
    <3>1. twoDMissingCnt' = twoDMissingCnt /\ GSMissing' = GSMissing
      BY <2>2, <2>4 DEF Miss
    <3>2. GSMissing' \in BOOLEAN
      BY <3>1 DEF TurnTypes
    <3> QED  BY <1>1, <2>1, <3>1, <3>2
  <2> QED  BY <2>3, <2>4
(* What the two branches leave behind.                                     *)
<1>4. ASSUME Motionstyle' \in Turns \cup {"STOP"}, wCurrent' \in 0 .. 3, driven' = wCurrent',
             over' \in -h .. h - 1 /\ over' \in Angles,
             Motionstyle' = "STOP" => wCurrent' = 0, Braking'
      PROVE  TurnIInv'
  <2>1. TurnTypes'
    BY <1>1, <1>2, <1>3, <1>4 DEF TurnTypes, Angles, Rest, Fast
  <2>2. EndsInQuadrant'
    BY <1>4 DEF EndsInQuadrant
  <2>3. Driven'
    BY <1>2, <1>3, <1>4 DEF Driven
  <2> QED  BY <1>4, <2>1, <2>2, <2>3
<1>5. over \in -h .. h - 1 /\ over \in Angles
  BY DEF EndsInQuadrant, TurnTypes
<1>6. CASE Motionstyle = "TRUNLEFT" /\ LeftCycle
  <2>1. /\ wCurrent' \in 0 .. 3 /\ driven' = wCurrent' /\ Motionstyle' = Motionstyle /\ over' = over
    BY <1>6 DEF LeftCycle, Crawl, Fast
  <2>2. Braking'
    BY <1>6, <2>1 DEF Braking
  <2> QED  BY <1>2, <1>4, <1>5, <1>6, <2>1, <2>2
<1>7. CASE Motionstyle = "TRUNRIGHT" /\ RightCycle
  <2>1. PICK w \in 0 .. 3 :
          /\ Target(w)
          /\ IF Toward(w) = 0 THEN EndTurn
             ELSE wCurrent' = Toward(w) /\ driven' = wCurrent' /\ UNCHANGED <<Motionstyle, over>>
    BY <1>7 DEF RightCycle, Rest, Fast
  <2>2. Toward(w) = (IF wCurrent < w THEN wCurrent + 1 ELSE IF wCurrent > w THEN wCurrent - 1 ELSE w)
    BY DEF Toward
  <2>3. IF twoD_Angle < StopAt THEN w = 0 ELSE w >= 2
    <3>1. CASE twoD_Angle < StopAt
      BY <1>1, <2>1, <3>1 DEF Target, Rest
    <3>2. CASE ~(twoD_Angle < StopAt)
      <4>1. w = 2 \/ w \in 2 .. 3
        <5>1. CASE twoD_Angle \in StopAt .. SlowAt - 1
          BY <1>1, <2>1, <3>2, <5>1 DEF Target, Slow
        <5>2. CASE twoD_Angle \notin StopAt .. SlowAt - 1
          BY <1>1, <2>1, <3>2, <5>2 DEF Target, Slow, Fast
        <5> QED  BY <5>1, <5>2
      <4> QED  BY <3>2, <4>1
    <3> QED  BY <3>1, <3>2
  <2>4. CASE twoD_Angle < StopAt
    <3>1. /\ w = 0 /\ angle <= StopAt - 1 /\ angle >= StopAt + wCurrent - 4
      BY <1>1, <1>2, <1>7, <2>3, <2>4 DEF Braking
    <3>2. Toward(w) = IF wCurrent > 0 THEN wCurrent - 1 ELSE 0
      BY <1>1, <2>2, <3>1
    <3>3. CASE Toward(w) = 0
      <4>1. wCurrent' = 0 /\ Motionstyle' = "STOP" /\ driven' = 0 /\ over' = angle
        BY <2>1, <3>3 DEF EndTurn, Rest
      <4>2. angle \in -h .. h - 1 /\ angle \in Angles
        <5>1. angle \in Angles
          BY DEF TurnTypes
        <5> HIDE DEF h
        <5> QED  BY <1>1, <3>1, <5>1
      <4>3. Braking'
        BY <4>1 DEF Braking
      <4> QED  BY <1>4, <4>1, <4>2, <4>3
    <3>4. CASE Toward(w) # 0
      <4>1. wCurrent' = wCurrent - 1 /\ wCurrent' \in 0 .. 3 /\ driven' = wCurrent'
            /\ Motionstyle' = Motionstyle /\ over' = over
        BY <1>1, <2>1, <3>2, <3>4
      <4>2. Braking'
        BY <1>1, <2>4, <3>1, <4>1 DEF Braking
      <4> QED  BY <1>2, <1>4, <1>5, <1>7, <4>1, <4>2
    <3> QED  BY <3>3, <3>4
  <2>5. CASE ~(twoD_Angle < StopAt)
    <3>1. w >= 2 /\ Toward(w) \in 1 .. 3
      BY <1>1, <2>1, <2>2, <2>3, <2>5
    <3>2. wCurrent' \in 0 .. 3 /\ driven' = wCurrent' /\ Motionstyle' = Motionstyle /\ over' = over
      BY <2>1, <3>1
    <3>3. Braking'
      BY <1>2, <1>7, <2>5 DEF Braking
    <3> QED  BY <1>2, <1>4, <1>5, <1>7, <3>2, <3>3
  <2> QED  BY <2>4, <2>5
<1> QED  BY <1>6, <1>7 DEF Turning

LEMMA TurnSteps == StopsInside => (TurnIInv /\ [TurnNext]_turnVars => TurnIInv')
<1> SUFFICES ASSUME StopsInside, TurnIInv, [TurnNext]_turnVars PROVE TurnIInv'
  OBVIOUS
<1> USE DEF TurnIInv, TurnInv
<1>1. CASE Fail
  <2>1. silent' = TRUE /\ UNCHANGED <<angle, seen, twoD_Angle, fresh, Motionstyle, wCurrent, driven,
                                      twoDMissingCnt, GSMissing, nAgvWorkMode, over, turns>>
    BY <1>1 DEF Fail, speedVars, missVars
  <2>2. silent' \in BOOLEAN
    BY <2>1
  <2>3. TurnTypes' /\ EndsInQuadrant'
    BY <2>1, <2>2 DEF TurnTypes, EndsInQuadrant, Angles
  <2>4. Driven' /\ Braking'
    BY <2>1 DEF Driven, Braking
  <2> QED  BY <2>3, <2>4
<1>2. CASE TurnCycle
  <2>1. seen' = TRUE /\ seen' \in BOOLEAN /\ UNCHANGED <<angle, twoD_Angle, fresh, silent, turns>>
    BY <1>2 DEF TurnCycle, camVars
  <2>2. CASE Turning
    BY <2>1, <2>2, TurnSteered
  <2>3. CASE AbandonTurn \/ StopTurn
    <3>1. /\ GSMissing /\ UNCHANGED <<wCurrent, twoDMissingCnt, GSMissing, over>>
          /\ Motionstyle' \in {Motionstyle, "STOP"} /\ driven' \in {driven, 0}
          /\ nAgvWorkMode' \in {nAgvWorkMode, "SUSPENDED"}
      BY <2>3 DEF AbandonTurn, StopTurn, missVars, Rest, Driven
    <3>2. driven' \in Rest .. Fast /\ Motionstyle' \in Turns \cup {"STOP"}
          /\ nAgvWorkMode' \in {"RUNNING", "SUSPENDED"}
      BY <3>1 DEF TurnTypes, Rest, Fast
    <3>3. TurnTypes' /\ EndsInQuadrant'
      BY <2>1, <3>1, <3>2 DEF TurnTypes, EndsInQuadrant, Angles
    <3>4. Driven' /\ Braking'
      BY <2>1, <3>1 DEF Driven, Braking
    <3> QED  BY <3>3, <3>4
  <2> QED  BY <1>2, <2>2, <2>3 DEF TurnCycle
<1>3. CASE UNCHANGED turnVars
  <2>1. UNCHANGED <<angle, seen, twoD_Angle, fresh, silent, Motionstyle, wCurrent, driven,
                    twoDMissingCnt, GSMissing, nAgvWorkMode, over, turns>>
    BY <1>3 DEF turnVars, camVars, speedVars, missVars
  <2>2. TurnTypes' /\ EndsInQuadrant'
    BY <2>1 DEF TurnTypes, EndsInQuadrant, Angles
  <2>3. Driven' /\ Braking'
    BY <2>1 DEF Driven, Braking
  <2> QED  BY <2>2, <2>3
<1> QED  BY <1>1, <1>2, <1>3, TurnRotate, TurnReport, TurnCommand DEF TurnNext

LEMMA TurnBegins == StopsInside => (TurnInit => TurnIInv)
<1> SUFFICES ASSUME StopsInside, TurnInit PROVE TurnIInv
  OBVIOUS
<1> USE DEF TurnInit
<1>1. Quarter \div 2 \in Nat /\ Quarter \div 2 >= 2 /\ FullTurn = 4 * Quarter /\ 2 * (Quarter \div 2) <= Quarter
      /\ Quarter \in Nat /\ MissLimit \in Nat /\ MaxTurns \in Nat
  BY HalfIs DEF StopsInside
<1>2. TurnTypes /\ EndsInQuadrant
  <2>1. 0 \in Angles /\ 0 \in -(Quarter \div 2) .. Quarter \div 2 - 1
    BY <1>1 DEF Angles
  <2>2. 0 \in Rest .. Fast /\ 0 \in 0 .. MissLimit + 1 /\ 0 \in 0 .. MaxTurns
    BY <1>1 DEF Rest, Fast
  <2>3. wCurrent = 0 /\ driven = 0
    BY DEF Rest
  <2> QED  BY <2>1, <2>2, <2>3 DEF TurnTypes, EndsInQuadrant
<1>3. Driven /\ Braking
  BY <1>1 DEF Driven, Braking, Rest
<1> QED  BY <1>2, <1>3 DEF TurnIInv, TurnInv

(* A turn is reported as over with the head in the quadrant of its         *)
(* destination, whatever the resolution and whenever the camera fails, and *)
(* its counts and angles stay in their range.                              *)
THEOREM TurnsIntoQuadrant == ASSUME StopsInside PROVE TurnSpec => []TurnInv
<1>1. StopsInside
  OBVIOUS
<1>2. TurnInit => TurnIInv
  BY <1>1, TurnBegins
<1>3. TurnIInv /\ [TurnNext]_turnVars => TurnIInv'
  BY <1>1, TurnSteps
<1>4. TurnIInv => TurnInv
  BY DEF TurnIInv
<1> QED  BY <1>2, <1>3, <1>4, PTL DEF TurnSpec
=============================================================================
