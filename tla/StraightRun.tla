------------------------------ MODULE StraightRun ------------------------------
(***************************************************************************)
(* A run along a lane: the straight branch of AGV_Running() in             *)
(* usr/application/motion_ctrl/rAGVControl.c, with the codes that          *)
(* Navigation.c reads and the commands that motion_ctrl.c commits.         *)
(*                                                                         *)
(* The lane has a code every D cells, the vehicle is at cell pos of it.    *)
(* The task knows only what the wheels have measured since the last code   *)
(* (RealTwoDProgress), how far it still has to go (sRemain), how many      *)
(* codes that is (iPath) and whether can has read a new code (NewTag).     *)
(* It creeps on until it has read the code it takes for the destination.   *)
(*                                                                         *)
(* motionctrl has a higher priority than can, so its cycle may come        *)
(* between any two steps of can, and others run inside a cycle only while  *)
(* it waits in APP_TRACE() for the mutex of the log.  The traces up to the *)
(* decision what to do ("encoder", "ActVel", "OutOfTrack") come where what *)
(* the others change is not yet read, or already: such a cycle is one      *)
(* step.  "Stop move." in Drive() and "update detY0" in the callback come  *)
(* before the end of a run is complete: that cycle is cut there.           *)
(*                                                                         *)
(* The control laws are left out: the planner asks for a speed above 0     *)
(* unless the task sets it to 0 itself.  Drift across the lane is out.     *)
(***************************************************************************)
EXTENDS Integers, Sequences, MotionState

CONSTANTS
    D,          (* twoD_Distance, the distance of two codes, in cells      *)
    Near,       (* below this the code at hand is the destination, 300 mm  *)
    MaxRoutes,  (* bound: commands                                         *)
    MaxCodes,   (* bound: codes of one command                             *)
    Dirty,      (* codes that cannot be read                               *)
    MaxSlips    (* bound: cells measured wrong between two codes           *)

ASSUME StraightRunAssumption ==
    /\ D \in Nat \ {0} /\ Near \in 1 .. D /\ MaxRoutes \in Nat /\ MaxCodes \in Nat \ {0}
    /\ Dirty \subseteq Nat \ {0} /\ MaxSlips \in Nat

(* The margins the code leaves for what the wheels measure wrong: a code   *)
(* at hand is the destination or is not, a code was missed or was not.     *)
ASSUME PrecisionAssumption ==
    /\ MaxSlips + 2 < Near /\ Near + MaxSlips <= D
    /\ MaxSlips + 3 < D - D \div 2

VARIABLES
    pos,                (* where the vehicle is, in cells                  *)
    enc,                (* what the encoders have counted since they were  *)
                        (* read                                            *)
    slips,              (* cells measured wrong since the last code        *)
    scanned,            (* the scanner has reported from this cell         *)
    twoD_TagCode, twoD_TagCodeOld, NewTag, GS_DevFB,
    can,                (* where can is in CanMessageProcess()             *)
    moving,             (* fCurVel is not 0                                *)
    sRemain, iPath, RealTwoDProgress,
    ending,             (* the trace in which a cycle that stops waits     *)
    OutOfTrack, nEvent,
    cmd,                (* codes of the command that motionctrl_cmd() has  *)
                        (* passed and not yet committed, 0: none           *)
    mtevtQ,             (* events for agv, all of them                     *)
    dest, routes,       (* history: the code to go to, the commands so far *)
    surplus,            (* history: codes sRemain has and iPath has not    *)
    erased              (* history: a command was committed while the run  *)
                        (* it was to extend was ending                     *)

wheelVars == <<pos, enc, slips, scanned>>
naviVars  == <<twoD_TagCode, twoD_TagCodeOld, NewTag, GS_DevFB>>
runVars   == <<Motionstyle, moving, sRemain, iPath, RealTwoDProgress, surplus>>
faultVars == <<OutOfTrack, nEvent, nAgvWorkMode, ending>>
cmdVars   == <<cmd, dest, routes, erased>>
vars == <<wheelVars, seen, naviVars, can, runVars, faultVars, cmdVars, mtevtQ>>

(* The tag of the code at cell c * D.  A tag of 0 is no tag.               *)
Tag(c) == c + 1

(* A code is in the camera's view one cell before and after it as well.    *)
InView(c) == pos - c * D \in -1 .. 1
Codes     == 0 .. MaxRoutes * MaxCodes + 2

(* The vehicle has been placed on the code of cell 0 and InitAgvHeadDir()  *)
(* has run.                                                                *)
Init ==
    /\ pos = 0 /\ enc = 0 /\ slips = 0 /\ scanned = TRUE /\ seen = TRUE
    /\ twoD_TagCode = Tag(0) /\ twoD_TagCodeOld = Tag(0) /\ NewTag = 0 /\ GS_DevFB = 0
    /\ can = "idle"
    /\ Motionstyle = "STOP" /\ moving = FALSE
    /\ sRemain = 0 /\ iPath = 0 /\ RealTwoDProgress = 0
    /\ OutOfTrack = FALSE /\ nEvent = "NO_EVENT" /\ nAgvWorkMode = "RUNNING"
    /\ ending = "none" /\ surplus = 0 /\ erased = FALSE
    /\ cmd = 0 /\ mtevtQ = <<>> /\ dest = 0 /\ routes = 0

-----------------------------------------------------------------------------
(* The vehicle and the scanner, external.                                  *)

(* A cell further, once the task has taken notice of this one and the      *)
(* scanner of the code under it: wheels are slow compared with both.  The  *)
(* scanner may see a code at its near edge already, or not.                *)
Move ==
    /\ moving /\ can = "idle" /\ seen
    /\ \A c \in Codes \ Dirty : InView(c) /\ pos >= c * D => scanned
    /\ pos' = pos + 1
    /\ \E l \in 0 .. 2 :
         /\ l # 1 => slips < MaxSlips
         /\ enc' = enc + l
         /\ slips' = IF l # 1 THEN slips + 1 ELSE slips
    /\ scanned' = FALSE /\ seen' = FALSE
    /\ UNCHANGED <<naviVars, can, runVars, faultVars, cmdVars, mtevtQ>>

(* Mutant of Copy: NewTag is set before the point is reported.             *)
CopyAndLatch == \E c \in Codes \ Dirty :
    /\ InView(c) /\ ~scanned /\ can = "idle"
    /\ twoD_TagCode' = Tag(c) /\ GS_DevFB' = pos - c * D
    /\ can' = IF Tag(c) = twoD_TagCodeOld THEN "idle" ELSE "report"
    /\ NewTag' = IF Tag(c) = twoD_TagCodeOld THEN NewTag ELSE 1
    /\ scanned' = TRUE /\ seen' = FALSE
    /\ UNCHANGED <<pos, enc, slips, twoD_TagCodeOld, runVars, faultVars, cmdVars, mtevtQ>>

(* CanMessageProcess(), TxPDO3: the values are copied with the scheduler   *)
(* locked.                                                                 *)
Copy == \E c \in Codes \ Dirty :
    /\ InView(c) /\ ~scanned /\ can = "idle"
    /\ twoD_TagCode' = Tag(c) /\ GS_DevFB' = pos - c * D
    /\ can' = IF Tag(c) = twoD_TagCodeOld THEN "idle" ELSE "report"
    /\ scanned' = TRUE /\ seen' = FALSE
    /\ UNCHANGED <<pos, enc, slips, twoD_TagCodeOld, NewTag, runVars, faultVars, cmdVars, mtevtQ>>

Report ==
    /\ can = "report" /\ can' = "latch"
    /\ mtevtQ' = IF twoD_TagCodeOld # 0
                 THEN Append(mtevtQ, <<"POINT_ARRIVAL", twoD_TagCode>>) ELSE mtevtQ
    /\ UNCHANGED <<wheelVars, seen, naviVars, runVars, faultVars, cmdVars>>

Latch ==
    /\ can = "latch" /\ can' = "idle"
    /\ twoD_TagCodeOld' = twoD_TagCode /\ NewTag' = 1
    /\ slips' = 0 /\ seen' = FALSE
    /\ UNCHANGED <<pos, enc, scanned, twoD_TagCode, GS_DevFB, runVars, faultVars, cmdVars, mtevtQ>>

-----------------------------------------------------------------------------
(* motionctrl_cmd(ACTION_GOSTRAIGHT): the test, 500 ms of sleep unless the *)
(* vehicle runs already, and the commit.                                   *)

Accept == \E n \in 1 .. MaxCodes :
    /\ cmd = 0 /\ routes < MaxRoutes
    /\ cmd' = n /\ routes' = routes + 1
    /\ IF Motionstyle = "STOP" THEN enc' = 0 ELSE UNCHANGED enc
    /\ UNCHANGED <<pos, slips, scanned, seen, naviVars, can, runVars, faultVars, dest, erased, mtevtQ>>

(* Mutant of Commit: the number of codes is not added.                     *)
CommitLength ==
    /\ cmd # 0 /\ cmd' = 0
    /\ Motionstyle' = "GOSTRAIGHT"
    /\ sRemain' = sRemain + cmd * D
    /\ dest' = dest + cmd
    /\ UNCHANGED <<wheelVars, seen, naviVars, can, moving, iPath, RealTwoDProgress, surplus,
                   faultVars, routes, erased, mtevtQ>>

(* While motionctrl waits to set iPath to 0, iPath is no more than what it *)
(* will lose.                                                              *)
Commit ==
    /\ cmd # 0 /\ cmd' = 0
    /\ Motionstyle' = "GOSTRAIGHT"
    /\ sRemain' = sRemain + cmd * D
    /\ iPath' = iPath + cmd
    /\ dest' = dest + cmd
    /\ surplus' = IF ending = "drive" THEN surplus + cmd ELSE surplus
    /\ erased' = (erased \/ ending # "none")
    /\ UNCHANGED <<wheelVars, seen, naviVars, can, moving, RealTwoDProgress, faultVars, routes, mtevtQ>>

-----------------------------------------------------------------------------
(* AGV_Run(): a cycle of motionctrl.                                       *)

Progress == RealTwoDProgress + enc
Remain   == sRemain - enc

(* AGV_Running() without an event.  At the first cycle of a run only the   *)
(* controller of the track is set up.                                      *)
Start ==
    /\ ~moving /\ moving' = TRUE
    /\ sRemain' = Remain /\ RealTwoDProgress' = Progress
    /\ UNCHANGED <<twoD_TagCodeOld, NewTag, Motionstyle, iPath, surplus, OutOfTrack, ending>>

(* Fine: the code of the destination is at hand or has just been passed.   *)
Arrived == GS_DevFB >= 0

(* Mutant of Destination: any code is one.                                 *)
AnyCode == NewTag # 0

Destination == NewTag # 0 /\ Remain < Near

Approach ==
    /\ moving /\ Destination /\ ~Arrived
    /\ sRemain' = -GS_DevFB /\ RealTwoDProgress' = GS_DevFB /\ surplus' = 1 - iPath
    /\ UNCHANGED <<twoD_TagCodeOld, NewTag, Motionstyle, moving, iPath, OutOfTrack, ending>>

(* The wheels are told to stand; "Stop move." is traced before the run is  *)
(* over.                                                                   *)
End ==
    /\ moving /\ Destination /\ Arrived
    /\ moving' = FALSE /\ ending' = "drive"
    /\ sRemain' = -GS_DevFB /\ RealTwoDProgress' = GS_DevFB /\ surplus' = 0
    /\ UNCHANGED <<twoD_TagCodeOld, NewTag, Motionstyle, iPath, OutOfTrack>>

PassCode ==
    /\ moving /\ NewTag # 0 /\ ~Destination
    /\ RealTwoDProgress' = GS_DevFB
    /\ iPath' = iPath - 1
    /\ sRemain' = D * (iPath - 1) - GS_DevFB
    /\ NewTag' = 0 /\ surplus' = 0
    /\ UNCHANGED <<twoD_TagCodeOld, Motionstyle, moving, OutOfTrack, ending>>

(* Mutants of Lost: a code may be missed; half a distance is too far.      *)
LostLate  == Progress > 2 * D + D \div 2
LostEarly == Progress > D \div 2

Lost == Progress > D + D \div 2

LeaveTrack ==
    /\ moving /\ NewTag = 0 /\ Lost
    /\ twoD_TagCodeOld' = 0 /\ OutOfTrack' = TRUE
    /\ sRemain' = Remain /\ RealTwoDProgress' = Progress
    /\ UNCHANGED <<NewTag, Motionstyle, moving, iPath, surplus, ending>>

KeepGoing ==
    /\ moving /\ NewTag = 0 /\ ~Lost
    /\ sRemain' = Remain /\ RealTwoDProgress' = Progress
    /\ UNCHANGED <<twoD_TagCodeOld, NewTag, Motionstyle, moving, iPath, surplus, OutOfTrack, ending>>

RunCycle ==
    /\ nAgvWorkMode = "RUNNING" /\ nEvent = "NO_EVENT" /\ ~OutOfTrack
    /\ Motionstyle = "GOSTRAIGHT"
    /\ Start \/ Approach \/ End \/ PassCode \/ LeaveTrack \/ KeepGoing
    /\ UNCHANGED <<nEvent, nAgvWorkMode, mtevtQ>>

(* The flag is found: the error is reported once and the vehicle brakes,   *)
(* at once here.  A command that was committed meanwhile is dropped.       *)
Brake ==
    /\ moving /\ ending' = "brake"
    /\ IF NewTag = 0 THEN UNCHANGED <<sRemain, iPath, RealTwoDProgress, NewTag>>
       ELSE /\ RealTwoDProgress' = GS_DevFB
            /\ IF sRemain < Near
               THEN sRemain' = GS_DevFB /\ UNCHANGED <<iPath, NewTag>>
               ELSE /\ iPath' = iPath - 1 /\ NewTag' = 0
                    /\ sRemain' = D * (iPath - 1) - GS_DevFB
    /\ UNCHANGED Motionstyle

(* Drive() has nothing to trace.                                           *)
Drop ==
    /\ ~moving /\ Motionstyle' = "STOP"
    /\ sRemain' = 0 /\ iPath' = 0 /\ RealTwoDProgress' = 0
    /\ NewTag' = IF NewTag # 0 /\ sRemain >= Near THEN 0 ELSE NewTag
    /\ UNCHANGED ending

FaultCycle ==
    /\ nAgvWorkMode = "RUNNING" /\ OutOfTrack
    /\ nEvent' = "OUT_OF_TRACK_EVENT"
    /\ mtevtQ' = IF nEvent = "NO_EVENT" THEN Append(mtevtQ, <<"ERROR", 0>>) ELSE mtevtQ
    /\ \/ /\ Motionstyle = "GOSTRAIGHT" /\ (Brake \/ Drop)
          /\ moving' = FALSE
          /\ UNCHANGED <<nAgvWorkMode, surplus>>
       \/ /\ Motionstyle = "STOP"
          /\ nAgvWorkMode' = "SUSPENDED"
          /\ UNCHANGED <<runVars, NewTag, ending>>
    /\ UNCHANGED <<twoD_TagCodeOld, OutOfTrack>>

(* AGV_SuspendRun(): until the flag is clear.                              *)
SuspendCycle ==
    /\ nAgvWorkMode = "SUSPENDED" /\ ~seen
    /\ IF OutOfTrack THEN UNCHANGED <<runVars, NewTag, nEvent, nAgvWorkMode>>
       ELSE /\ nAgvWorkMode' = "RUNNING" /\ nEvent' = "NO_EVENT"
            /\ moving' = FALSE /\ iPath' = 0 /\ NewTag' = 0
            /\ UNCHANGED <<Motionstyle, sRemain, RealTwoDProgress, surplus>>
    /\ UNCHANGED <<twoD_TagCodeOld, OutOfTrack, ending, mtevtQ>>

Cycle ==
    /\ ending = "none"
    /\ RunCycle \/ FaultCycle \/ SuspendCycle
    /\ enc' = 0 /\ seen' = TRUE
    /\ UNCHANGED <<pos, slips, scanned, twoD_TagCode, GS_DevFB, can, cmdVars>>

(* The end of a run after Drive(): the callback corrects the camera and    *)
(* traces it, or has nothing to correct.                                   *)
Forget == ending = "drive" /\ NewTag' = 0 /\ iPath' = 0

Finish ==
    /\ ending' = "none" /\ Motionstyle' = "STOP"
    /\ RealTwoDProgress' = 0 /\ enc' = 0
    /\ mtevtQ' = Append(mtevtQ, <<"ACTION_OVER", twoD_TagCodeOld>>)

OverCorrect ==
    /\ Forget /\ ending' = "correct"
    /\ UNCHANGED <<enc, Motionstyle, RealTwoDProgress, mtevtQ>>

OverAtOnce  == Forget /\ Finish
OverAtLast  == ending = "correct" /\ Finish /\ UNCHANGED <<NewTag, iPath>>

Halt ==
    /\ ending = "brake" /\ ending' = "none" /\ Motionstyle' = "STOP"
    /\ UNCHANGED <<enc, NewTag, iPath, RealTwoDProgress, mtevtQ>>

CycleEnd ==
    /\ OverCorrect \/ OverAtOnce \/ OverAtLast \/ Halt
    /\ UNCHANGED <<pos, slips, scanned, seen, twoD_TagCode, twoD_TagCodeOld, GS_DevFB, can,
                   moving, sRemain, surplus, OutOfTrack, nEvent, nAgvWorkMode, cmdVars>>

(* Somebody pushes the stopped vehicle back on a code, external.           *)
Push == \E c \in Codes \ Dirty :
    /\ nAgvWorkMode = "SUSPENDED" /\ can = "idle"
    /\ pos > c * D + 1 /\ pos < (c + 1) * D + D
    /\ pos' = c * D /\ scanned' = FALSE /\ seen' = FALSE
    /\ UNCHANGED <<enc, slips, naviVars, can, runVars, faultVars, cmdVars, mtevtQ>>

Next == Move \/ Copy \/ Report \/ Latch \/ Accept \/ Commit \/ Cycle \/ CycleEnd \/ Push

Spec == Init /\ [][Next]_vars

-----------------------------------------------------------------------------
(* Every variable has a value the code can give it; the number of codes    *)
(* left, 16 bits without a sign, does not pass below 0.                    *)
TypeOK ==
    /\ pos \in Nat /\ enc \in Nat /\ slips \in 0 .. MaxSlips
    /\ scanned \in BOOLEAN /\ seen \in BOOLEAN /\ moving \in BOOLEAN
    /\ twoD_TagCode \in Nat /\ twoD_TagCodeOld \in Nat /\ NewTag \in {0, 1}
    /\ GS_DevFB \in -1 .. 1
    /\ can \in {"idle", "report", "latch"}
    /\ Motionstyle \in {"STOP", "GOSTRAIGHT"}
    /\ sRemain \in Int /\ iPath \in Nat /\ RealTwoDProgress \in Int
    /\ OutOfTrack \in BOOLEAN /\ nEvent \in {"NO_EVENT", "OUT_OF_TRACK_EVENT"}
    /\ nAgvWorkMode \in {"RUNNING", "SUSPENDED"}
    /\ ending \in {"none", "drive", "correct", "brake"}
    /\ surplus \in Nat /\ erased \in BOOLEAN
    /\ cmd \in 0 .. MaxCodes /\ routes \in 0 .. MaxRoutes /\ dest \in Nat
    /\ mtevtQ \in Seq({"POINT_ARRIVAL", "ACTION_OVER", "ERROR"} \X Nat)

Fault == OutOfTrack \/ nEvent # "NO_EVENT"

(* A run that ends without an alarm ends on the code all the commands so   *)
(* far lead to, however they extended the run, whatever the wheels         *)
(* measured and whatever code was missed.  Only a command that was         *)
(* committed in a trace at the end of a run may be lost, until the next    *)
(* one; even then the vehicle stands on a code and not beyond the one      *)
(* they lead to.                                                           *)
StopsAtDestination ==
    Motionstyle = "STOP" /\ ~Fault =>
        /\ ~erased => InView(dest)
        /\ \E c \in 0 .. dest : InView(c)

(* The codes still to come are those of the commands that were not passed; *)
(* if a command has been lost, no more than those.                         *)
PathAgrees ==
    Motionstyle = "GOSTRAIGHT" /\ ~Fault /\ ending = "none" =>
        LET left == dest - (twoD_TagCodeOld - Tag(0) - NewTag)
        IN  iPath <= left /\ (~erased => iPath = left)

(* The point is reported before the end of the run: agv hears of the       *)
(* destination first.                                                      *)
PointBeforeOver == \A i \in DOMAIN mtevtQ :
    mtevtQ[i][1] = "ACTION_OVER" =>
        i > 1 /\ mtevtQ[i - 1] = <<"POINT_ARRIVAL", mtevtQ[i][2]>>

(* So what the task goes by fits where the vehicle is, and the controller  *)
(* hears of it in order.                                                   *)
RunInv == TypeOK /\ PathAgrees /\ PointBeforeOver

(* The alarm is raised only when a code was missed ...                     *)
Missed         == \E c \in Dirty : pos > c * D
AlarmJustified == OutOfTrack /\ nEvent = "NO_EVENT" => Missed

(* ... and always before the next code is reached.                         *)
MissedNoticed ==
    moving /\ ~OutOfTrack =>
        \A c \in Dirty : pos > c * D => pos < (c + 1) * D

(* So a code that was missed, and nothing else, is taken for a lost track. *)
LostTrackJudged == AlarmJustified /\ MissedNoticed

(* A run ends on its code, on one before it if a command was lost at the   *)
(* end of a run, or a code is missed and the track is lost; a command      *)
(* given after that is never carried out.                                  *)
RunEnds ==
    Motionstyle = "GOSTRAIGHT" /\ ~OutOfTrack
        ~> \/ Motionstyle = "STOP" /\ \E c \in 0 .. dest : InView(c) /\ (c = dest \/ erased)
           \/ OutOfTrack /\ Missed
=============================================================================
