------------------------------ MODULE MotionState ------------------------------
(***************************************************************************)
(* What runs and turns share of the motion task: AGV_Run() takes the       *)
(* branch of the movement under way and of its mode.                       *)
(***************************************************************************)
VARIABLES
    Motionstyle,    (* the movement under way                              *)
    nAgvWorkMode,   (* the mode of the task                                *)
    seen            (* the task has run a cycle since the last move        *)
=============================================================================
