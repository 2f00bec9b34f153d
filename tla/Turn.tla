---------------------------------- MODULE Turn ----------------------------------
(***************************************************************************)
(* A turn on the spot: the two turning branches of AGV_Running() in        *)
(* usr/application/motion_ctrl/rAGVControl.c and the commands that start   *)
(* them in motion_ctrl.c.                                                  *)
(*                                                                         *)
(* The task steers by the angle the camera reports.  When the camera is    *)
(* silent for MissLimit cycles of a turn that is not a crawl, it gives up. *)
(* A left turn takes its speed from SmoothVelocityPlanning(), which plans  *)
(* for a final speed of wOpenVel; a right turn takes it from CyclePlan()   *)
(* and approaches it step by step.  The two are abstracted to what they    *)
(* promise: a speed in their range.  Angles count in cells, FullTurn to    *)
(* a turn.                                                                 *)
(*                                                                         *)
(* The end of a turn is one step, although Drive() may wait for the mutex  *)
(* of the log before the wheels stop (Dispatch has the wait).  A turn      *)
(* committed in between loses nothing by it: what the end clears is        *)
(* computed from the headings in every cycle.  The wheels are taken to     *)
(* turn less than a cell meanwhile.                                        *)
(***************************************************************************)
EXTENDS Integers, MotionState

CONSTANTS
    Quarter,    (* cells of 90 degrees                                     *)
    StopAt,     (* angleStopDistance: below it the turn is done            *)
    SlowAt,     (* angleVDown: below it a right turn is slow               *)
    MissLimit,  (* cycles without the camera, 100 in the code              *)
    MaxTurns    (* bound: turns                                            *)

ASSUME TurnAssumption ==
    /\ Quarter \in Nat \ {0} /\ StopAt \in 1 .. Quarter /\ SlowAt \in StopAt .. Quarter
    /\ MissLimit \in Nat \ {0} /\ MaxTurns \in Nat

(* Speeds: at rest; a crawl, at most 1 degree a second (wOpenVel); slow,   *)
(* up to 5; fast.                                                          *)
Rest  == 0
Crawl == 1
Slow  == 2
Fast  == 3

Turns == {"TRUNLEFT", "TRUNRIGHT"}

VARIABLES
    angle,          (* how far the vehicle has to turn, below 0: too far   *)
    twoD_Angle,     (* the same, as the camera has reported it last        *)
    fresh,          (* the camera has reported since the last move         *)
    silent,         (* the camera is broken                                *)
    wCurrent,
    driven,         (* the speed given to Drive()                          *)
    twoDMissingCnt, GSMissing,
    over,           (* history: the angle at the last ACTION_OVER          *)
    turns           (* history: turns commanded                            *)

camVars   == <<twoD_Angle, fresh, silent>>
speedVars == <<Motionstyle, wCurrent, driven>>
missVars  == <<twoDMissingCnt, GSMissing, nAgvWorkMode>>
turnVars  == <<angle, seen, camVars, speedVars, missVars, over, turns>>

TurnInit ==
    /\ angle = 0 /\ twoD_Angle = 0 /\ fresh = TRUE /\ silent = FALSE /\ seen = TRUE
    /\ Motionstyle = "STOP" /\ wCurrent = Rest /\ driven = Rest
    /\ twoDMissingCnt = 0 /\ GSMissing = FALSE /\ nAgvWorkMode = "RUNNING"
    /\ over = 0 /\ turns = 0

FullTurn == 4 * Quarter

(* minusL() and minusR() of the head's quadrant and the destination's, and *)
(* the deviation within the quadrant: an angle that starts half a quadrant *)
(* past the destination.                                                   *)
AngleRemain == ((twoD_Angle + Quarter \div 2) % FullTurn) - Quarter \div 2

-----------------------------------------------------------------------------
(* The vehicle and the camera, external.                                   *)

(* A cell further, once the camera has reported and the task has taken     *)
(* notice: the vehicle is slow compared with both.                         *)
Rotate ==
    /\ driven # Rest /\ seen
    /\ fresh \/ silent
    /\ angle' = IF angle - 1 < -(Quarter \div 2) THEN angle - 1 + FullTurn ELSE angle - 1
    /\ fresh' = FALSE /\ seen' = FALSE
    /\ UNCHANGED <<twoD_Angle, silent, speedVars, missVars, over, turns>>

(* TxPDO2 of the camera.                                                   *)
ReportAngle ==
    /\ ~silent /\ (~fresh \/ twoDMissingCnt > 0)
    /\ twoD_Angle' = angle /\ fresh' = TRUE /\ seen' = (seen /\ fresh)
    /\ twoDMissingCnt' = 0
    /\ UNCHANGED <<angle, silent, speedVars, GSMissing, nAgvWorkMode, over, turns>>

Fail ==
    /\ ~silent /\ silent' = TRUE
    /\ UNCHANGED <<angle, seen, twoD_Angle, fresh, speedVars, missVars, over, turns>>

(* motionctrl_cmd(): a turn by one to three quarters.  It sleeps 500 ms    *)
(* before it commits, so the wheels are at rest.                           *)
Command == \E side \in Turns, q \in 1 .. 3 :
    /\ Motionstyle = "STOP" /\ driven = Rest /\ turns < MaxTurns /\ fresh
    /\ turns' = turns + 1
    /\ Motionstyle' = side
    /\ angle' = AngleRemain + q * Quarter /\ twoD_Angle' = angle'
    /\ angle' \in -(Quarter \div 2) .. FullTurn - Quarter \div 2 - 1
    /\ UNCHANGED <<fresh, seen, silent, wCurrent, driven, missVars, over>>

-----------------------------------------------------------------------------
(* A cycle of motionctrl.                                                  *)

(* Mutant of Miss: the cycles are counted from the start again and again.  *)
MissForgotten == twoDMissingCnt' = 0 /\ UNCHANGED GSMissing

Miss ==
    IF wCurrent > Crawl
    THEN /\ twoDMissingCnt' = twoDMissingCnt + 1
         /\ GSMissing' = (GSMissing \/ twoDMissingCnt' > MissLimit)
    ELSE UNCHANGED <<twoDMissingCnt, GSMissing>>

EndTurn ==
    /\ wCurrent' = Rest
    /\ Motionstyle' = "STOP" /\ driven' = Rest
    /\ over' = angle

(* The planned speed is never below wOpenVel.                              *)
LeftCycle == \E w \in Crawl .. Fast :
    /\ AngleRemain < StopAt => w = Crawl
    /\ wCurrent' = w /\ driven' = w
    /\ UNCHANGED <<Motionstyle, over>>

(* Mutants of Target: the turn is done half a quadrant early; it is never  *)
(* done.                                                                   *)
TargetEarly(w) == IF AngleRemain < StopAt + Quarter \div 2 THEN w = Rest ELSE w \in Slow .. Fast
TargetCrawl(w) == IF AngleRemain < StopAt THEN w = Crawl ELSE w \in Slow .. Fast

Target(w) ==
    CASE AngleRemain < StopAt -> w = Rest
      [] AngleRemain \in StopAt .. SlowAt - 1 -> w = Slow
      [] OTHER -> w \in Slow .. Fast

(* Step by step towards w; a step is more than the speed of a crawl.       *)
Toward(w) == IF wCurrent < w THEN wCurrent + 1 ELSE IF wCurrent > w THEN wCurrent - 1 ELSE w

RightCycle == \E w \in Rest .. Fast :
    /\ Target(w)
    /\ IF Toward(w) = Rest THEN EndTurn
       ELSE /\ wCurrent' = Toward(w) /\ driven' = wCurrent'
            /\ UNCHANGED <<Motionstyle, over>>

Turning ==
    /\ Motionstyle \in Turns /\ ~GSMissing /\ nAgvWorkMode = "RUNNING"
    /\ Miss
    /\ \/ Motionstyle = "TRUNLEFT" /\ LeftCycle
       \/ Motionstyle = "TRUNRIGHT" /\ RightCycle
    /\ UNCHANGED nAgvWorkMode

(* GS_COMM_BREAK_EVENT: the turn is abandoned, the wheels still turn.      *)
AbandonTurn ==
    /\ GSMissing /\ nAgvWorkMode = "RUNNING"
    /\ Motionstyle' = "STOP" /\ nAgvWorkMode' = "SUSPENDED"
    /\ UNCHANGED <<wCurrent, driven, twoDMissingCnt, GSMissing, over>>

(* AGV_SuspendRun(); nothing clears GSMissing.                             *)
StopTurn ==
    /\ nAgvWorkMode = "SUSPENDED" /\ driven' = Rest
    /\ UNCHANGED <<Motionstyle, wCurrent, missVars, over>>

TurnCycle ==
    /\ Turning \/ AbandonTurn \/ StopTurn
    /\ seen' = TRUE
    /\ UNCHANGED <<angle, camVars, turns>>

TurnNext == Rotate \/ ReportAngle \/ Fail \/ Command \/ TurnCycle

TurnSpec == TurnInit /\ [][TurnNext]_turnVars

(* Driven wheels turn, a camera that works reports, motionctrl runs.       *)
FairTurnSpec == TurnSpec /\ WF_turnVars(Rotate) /\ WF_turnVars(ReportAngle) /\ WF_turnVars(TurnCycle)

-----------------------------------------------------------------------------
(* Every variable has a value the code can give it.                        *)
Angles == -(Quarter \div 2) .. FullTurn - Quarter \div 2 - 1

TurnTypes ==
    /\ angle \in Angles /\ twoD_Angle \in Angles /\ over \in Angles
    /\ fresh \in BOOLEAN /\ seen \in BOOLEAN /\ silent \in BOOLEAN
    /\ Motionstyle \in Turns \cup {"STOP"}
    /\ wCurrent \in Rest .. Fast /\ driven \in Rest .. Fast
    /\ twoDMissingCnt \in 0 .. MissLimit + 1 /\ GSMissing \in BOOLEAN
    /\ nAgvWorkMode \in {"RUNNING", "SUSPENDED"} /\ turns \in 0 .. MaxTurns

(* When the end of a turn is reported, the head is in the quadrant of its  *)
(* destination, though the camera may have failed on the way.              *)
EndsInQuadrant == over \in -(Quarter \div 2) .. Quarter \div 2 - 1

(* So does every count and every angle of a turn stay in its range.        *)
TurnInv == TurnTypes /\ EndsInQuadrant

(* A vehicle that no longer sees its code does not go on turning fast.     *)
SilenceSlows == (silent /\ driven > Crawl) ~> (driven <= Crawl)

(* A right turn ends unless the camera is found missing or breaks.  A left *)
(* turn does not: its speed never falls below a crawl.                     *)
TurnEnds ==
    (Motionstyle = "TRUNRIGHT") ~> (Motionstyle = "STOP" \/ silent \/ GSMissing)
=============================================================================
