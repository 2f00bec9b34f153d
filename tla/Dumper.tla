--------------------------------- MODULE Dumper ---------------------------------
(***************************************************************************)
(* The dumper: reverseTask() in usr/application/motion_ctrl/rAGVControl.c, *)
(* the drive in usr/application/motors.c and the gate in motion_ctrl.c.    *)
(*                                                                         *)
(* UNLOAD sets nReverseFlag.  motionctrl looks at it every cycle, raises   *)
(* the dumper for as long as its speed needs for the angle, holds it,      *)
(* lowers it until the switch closes.  dumper_up() and dumper_down() sleep *)
(* a tick, in which the other tasks run, before the state changes.  A      *)
(* movement is refused while the dumper is MOVINGUP or at the TOP, but     *)
(* that is tested 500 ms before the movement is committed.                 *)
(***************************************************************************)
EXTENDS Naturals

CONSTANTS
    Angle,      (* DEFAULT_DUMPER_REVERSE_ANGLE, in ticks of the drive     *)
    Hold,       (* DEFAULT_DUMPER_HOLDTIME_MS, in ticks                    *)
    Wrap,       (* the clock counts modulo Wrap, 2^32 in the code          *)
    MaxCmds     (* bound: commands                                         *)

ASSUME DumperAssumption ==
    /\ Angle \in Nat \ {0} /\ Hold \in Nat /\ MaxCmds \in Nat
    /\ Wrap \in Nat /\ Wrap > 2 * (Hold + Angle + 2)

VARIABLES
    now, ran,           (* OSTimeGet(), motionctrl has run in this tick    *)
    state, tm,          (* dumper_st                                       *)
    motor, height,      (* the drive and the dumper itself, external       *)
    nReverseFlag, holdtm,
    pc,                 (* where motionctrl sleeps: "up" and "down" in     *)
                        (* dumper_up() and dumper_down()                   *)
    Motionstyle,
    pending,            (* a movement that has passed the test             *)
    unloads, overs,     (* history: UNLOADs accepted, ACTION_OVERs posted  *)
    cmds,
    serial,             (* history: each command so far was given when the *)
                        (* one before it had been taken up, as one task    *)
                        (* that waits for this would do                    *)
    held                (* history: ticks at the top, up to Hold + 1       *)

dumperVars == <<state, tm, motor>>
taskVars   == <<nReverseFlag, holdtm, pc>>
moveVars   == <<Motionstyle, pending>>
countVars  == <<unloads, overs, cmds, serial>>
vars == <<now, ran, height, held, dumperVars, taskVars, moveVars, countVars>>

Init ==
    /\ now = 0 /\ ran = FALSE
    /\ state = "HORIZONTAL" /\ tm = 0 /\ motor = "off" /\ height = 0
    /\ nReverseFlag = 0 /\ holdtm = 0 /\ pc = "cycle"
    /\ Motionstyle = "STOP" /\ pending = FALSE
    /\ unloads = 0 /\ overs = 0 /\ cmds = 0 /\ serial = TRUE /\ held = 0

(* Mutant of TIME_DIFFERENCE: the overflow forgets the old time.           *)
OverflowDifference(newtm, oldtm) == IF newtm >= oldtm THEN newtm - oldtm ELSE Wrap + newtm

TIME_DIFFERENCE(newtm, oldtm) ==
    IF newtm >= oldtm THEN newtm - oldtm ELSE Wrap - oldtm + newtm

dumper_angle == TIME_DIFFERENCE(now, tm)

is_dumper_homing == height = 0

-----------------------------------------------------------------------------
(* reverseTask(), once a tick.                                             *)

UpBegin ==
    /\ state = "HORIZONTAL" /\ nReverseFlag = 1
    /\ pc' = "up"
    /\ UNCHANGED <<dumperVars, nReverseFlag, holdtm, overs>>

UpStop ==
    /\ state = "MOVINGUP" /\ dumper_angle >= Angle
    /\ motor' = "off" /\ state' = "TOP" /\ tm' = 0
    /\ UNCHANGED <<taskVars, overs>>

(* A hold that begins at time 0 begins a tick late.                        *)
HoldBegin ==
    /\ state = "TOP" /\ holdtm = 0
    /\ holdtm' = now
    /\ UNCHANGED <<dumperVars, nReverseFlag, pc, overs>>

DownBegin ==
    /\ state = "TOP" /\ holdtm # 0 /\ TIME_DIFFERENCE(now, holdtm) > Hold
    /\ holdtm' = 0 /\ pc' = "down"
    /\ UNCHANGED <<dumperVars, nReverseFlag, overs>>

DownStop ==
    /\ state = "MOVINGDOWN" /\ is_dumper_homing
    /\ motor' = "off" /\ state' = "HORIZONTAL" /\ tm' = 0
    /\ UNCHANGED <<taskVars, overs>>

NothingToDo ==
    /\ \/ state = "HORIZONTAL" /\ nReverseFlag = 0
       \/ state = "MOVINGUP" /\ dumper_angle < Angle
       \/ state = "TOP" /\ holdtm # 0 /\ TIME_DIFFERENCE(now, holdtm) <= Hold
       \/ state = "MOVINGDOWN" /\ ~is_dumper_homing
    /\ UNCHANGED <<dumperVars, taskVars, overs>>

(* After the tick's sleep.                                                 *)
UpEnd ==
    /\ pc = "up" /\ pc' = "cycle"
    /\ state' = "MOVINGUP" /\ motor' = "up" /\ tm' = now
    /\ holdtm' = 0 /\ nReverseFlag' = 0
    /\ UNCHANGED overs

(* Mutant of DownEnd: no event.                                            *)
DownEndQuiet ==
    /\ pc = "down" /\ pc' = "cycle"
    /\ state' = "MOVINGDOWN" /\ motor' = "down" /\ tm' = now
    /\ UNCHANGED <<nReverseFlag, holdtm, overs>>

DownEnd ==
    /\ pc = "down" /\ pc' = "cycle"
    /\ state' = "MOVINGDOWN" /\ motor' = "down" /\ tm' = now
    /\ overs' = overs + 1
    /\ UNCHANGED <<nReverseFlag, holdtm>>

Cycle ==
    /\ ~ran /\ ran' = TRUE
    /\ \/ pc = "cycle" /\ (UpBegin \/ UpStop \/ HoldBegin \/ DownBegin \/ DownStop \/ NothingToDo)
       \/ UpEnd \/ DownEnd
    /\ UNCHANGED <<now, height, held, moveVars, unloads, cmds, serial>>

-----------------------------------------------------------------------------
(* The clock and the dumper, external.                                     *)
Tick ==
    /\ ran /\ ran' = FALSE
    /\ now' = (now + 1) % Wrap
    /\ height' = CASE motor = "up"   -> height + 1
                   [] motor = "down" -> IF height = 0 THEN 0 ELSE height - 1
                   [] OTHER          -> height
    /\ held' = IF state # "TOP" THEN 0 ELSE IF held > Hold THEN held ELSE held + 1
    /\ UNCHANGED <<dumperVars, taskVars, moveVars, countVars>>

-----------------------------------------------------------------------------
(* motionctrl_cmd().                                                       *)

(* Mutant of Refused: a dumper at the top does not count.                  *)
RefusedUp == state = "MOVINGUP"

Refused == state \in {"MOVINGUP", "TOP"}

Given ==
    /\ cmds < MaxCmds /\ cmds' = cmds + 1
    /\ serial' = (serial /\ nReverseFlag = 0 /\ ~pending)

Unload ==
    /\ Given /\ ~Refused /\ Motionstyle = "STOP"
    /\ nReverseFlag' = 1 /\ unloads' = unloads + 1
    /\ UNCHANGED <<now, ran, height, held, dumperVars, holdtm, pc, moveVars, overs>>

(* The test of a movement, then 500 ms, then the commit.                   *)
MoveTest ==
    /\ Given /\ ~Refused /\ Motionstyle = "STOP" /\ ~pending
    /\ pending' = TRUE
    /\ UNCHANGED <<now, ran, height, held, dumperVars, taskVars, Motionstyle, unloads, overs>>

MoveCommit ==
    /\ pending /\ pending' = FALSE
    /\ Motionstyle' = "MOVE"
    /\ UNCHANGED <<now, ran, height, held, dumperVars, taskVars, countVars>>

MoveEnd ==
    /\ Motionstyle = "MOVE" /\ Motionstyle' = "STOP"
    /\ UNCHANGED <<now, ran, height, held, dumperVars, taskVars, pending, countVars>>

Next == Cycle \/ Tick \/ Unload \/ MoveTest \/ MoveCommit \/ MoveEnd

Spec == Init /\ [][Next]_vars

(* motionctrl runs, the clock runs, a movement is committed and ends.      *)
FairSpec ==
    Spec /\ WF_vars(Cycle) /\ WF_vars(Tick) /\ WF_vars(MoveCommit) /\ WF_vars(MoveEnd)

-----------------------------------------------------------------------------
(* Every variable has a value the code can give it, and the dumper never   *)
(* goes a tick further than the angle asked for.                           *)
TypeOK ==
    /\ now \in 0 .. Wrap - 1 /\ ran \in BOOLEAN
    /\ state \in {"HORIZONTAL", "MOVINGUP", "TOP", "MOVINGDOWN"} /\ tm \in 0 .. Wrap - 1
    /\ motor \in {"off", "up", "down"} /\ height \in 0 .. Angle
    /\ nReverseFlag \in {0, 1} /\ holdtm \in 0 .. Wrap - 1
    /\ pc \in {"cycle", "up", "down"}
    /\ Motionstyle \in {"STOP", "MOVE"} /\ pending \in BOOLEAN
    /\ unloads \in 0 .. MaxCmds /\ overs \in 0 .. MaxCmds /\ cmds \in 0 .. MaxCmds
    /\ serial \in BOOLEAN
    /\ held \in 0 .. Hold + 1

(* With one task giving the commands, the vehicle stands still while the   *)
(* dumper goes up or is up.                                                *)
StandsWhileUp ==
    serial /\ state \in {"MOVINGUP", "TOP"} => Motionstyle = "STOP" /\ ~pending

(* The dumper is not lowered before it was up for the time it must be,     *)
(* wherever the clock overflows.                                           *)
HeldLongEnough == pc = "down" => held > Hold

(* What the program takes for HORIZONTAL is.                               *)
HorizontalIsHome == state = "HORIZONTAL" => height = 0 /\ motor = "off"

(* So, from whatever tasks the commands come, the dumper is where the      *)
(* program takes it to be, and long enough.                                *)
DumperInv == TypeOK /\ HeldLongEnough /\ HorizontalIsHome

(* With one task giving the commands, every UNLOAD accepted is reported    *)
(* over.                                                                   *)
UnloadOver == (unloads > overs) ~> (unloads = overs \/ ~serial)

(* From whatever tasks the UNLOADs come, they are worked off, if not one   *)
(* by one: the dumper goes up after the last one and comes down again.     *)
ComesDown ==
    /\ (nReverseFlag = 1) ~> (state = "TOP")
    /\ (state # "HORIZONTAL") ~> (state = "HORIZONTAL")

(* An UNLOAD is never forgotten.                                           *)
UnloadsEnd == UnloadOver /\ ComesDown
=============================================================================
