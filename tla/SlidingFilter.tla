----------------------------- MODULE SlidingFilter -----------------------------
(***************************************************************************)
(* The filter that corrects the position of the camera:                    *)
(* usr/common/sliding_filter.c, as motionctrl_event_callback() in          *)
(* usr/application/agv.c uses it.                                          *)
(*                                                                         *)
(* While can reports a point of a run it puts the deviation it measures    *)
(* into the filter; when the run ends motionctrl takes the average,        *)
(* corrects detY0 with it and clears the filter.  Nothing is locked:       *)
(* motionctrl may preempt can in the middle of sliding_filter_input().     *)
(*                                                                         *)
(* This module composes the filter with StraightRun, which has the codes,  *)
(* the steps of can and the end of a run: the callback is all of what      *)
(* Report does there in one step.                                          *)
(***************************************************************************)
EXTENDS StraightRun

CONSTANT Size       (* deviations the filter holds, 8 in the code          *)

ASSUME SlidingFilterAssumption == Size \in Nat \ {0, 1}

VARIABLES
    fpc,                (* where can is in the callback                    *)
    dev,                (* GS_DEV, as can passes it                        *)
    i,                  (* the loop of sliding_filter_input()              *)
    cnt, buffer,        (* dety_filter                                     *)
    detY0,              (* the correction: how often it has been changed   *)
    inputs              (* history: the deviations since the filter was    *)
                        (* cleared                                         *)

ringVars   == <<cnt, buffer>>
filterVars == <<fpc, dev, i, ringVars, detY0, inputs>>

(* A deviation is the code it was measured at and the correction that was  *)
(* in force there.                                                         *)
Deviation(tag) == <<tag, detY0>>
None           == <<0, 0>>

FilterInit ==
    /\ Init
    /\ fpc = "none" /\ dev = None /\ i = 0
    /\ cnt = 0 /\ buffer = [k \in 0 .. Size - 1 |-> None]
    /\ detY0 = 0 /\ inputs = <<>>

-----------------------------------------------------------------------------
(* motionctrl_event_callback(POINT_ARRIVAL), in can.                       *)

(* A deviation is used only in a run ahead and only if it is small.        *)
Measure ==
    /\ can = "report" /\ fpc = "none"
    /\ \/ /\ twoD_TagCodeOld # 0 /\ Motionstyle = "GOSTRAIGHT"
          /\ dev' = Deviation(twoD_TagCode) /\ fpc' = "input"
       \/ fpc' = "done" /\ UNCHANGED dev
    /\ UNCHANGED <<vars, i, ringVars, detY0, inputs>>

Full == cnt = Size

Input ==
    /\ fpc = "input"
    /\ i' = 0 /\ fpc' = (IF Full THEN "shift" ELSE "store")
    /\ UNCHANGED <<vars, dev, ringVars, detY0, inputs>>

(* cnt is 32 bits without a sign: below a cnt of 0 the loop does not end.  *)
Shifting == cnt = 0 \/ i < cnt - 1

Moved == [buffer EXCEPT ![i] = buffer[i + 1]]

Shift ==
    /\ fpc = "shift" /\ Shifting
    /\ buffer' = Moved /\ i' = i + 1
    /\ UNCHANGED <<vars, fpc, dev, cnt, detY0, inputs>>

Drop1 ==
    /\ fpc = "shift" /\ ~Shifting
    /\ cnt' = cnt - 1 /\ fpc' = "store"
    /\ UNCHANGED <<vars, dev, i, buffer, detY0, inputs>>

Store ==
    /\ fpc = "store" /\ fpc' = "done"
    /\ buffer' = [buffer EXCEPT ![cnt] = dev] /\ cnt' = cnt + 1
    /\ inputs' = Append(inputs, dev)
    /\ UNCHANGED <<vars, dev, i, detY0>>

FilterStep == Measure \/ Input \/ Shift \/ Drop1 \/ Store

(* The event is posted after the filter has its deviation.                 *)
FilterReport ==
    /\ Report /\ fpc = "done" /\ fpc' = "none"
    /\ UNCHANGED <<dev, i, ringVars, detY0, inputs>>

-----------------------------------------------------------------------------
(* motionctrl_event_callback(ACTION_OVER), in motionctrl.                  *)

(* sliding_filter_init()                                                   *)
Clear == /\ cnt' = 0 /\ buffer' = [k \in 0 .. Size - 1 |-> None]
         /\ inputs' = <<>>

(* The average decides whether there is anything to correct; that of an    *)
(* empty filter is 0.  The filter is cleared only after the trace.         *)
FilterEnd ==
    /\ CycleEnd
    /\ IF ending' = "correct" THEN cnt > 0 /\ detY0' = detY0 + 1 ELSE UNCHANGED detY0
    /\ IF ending = "correct" THEN Clear ELSE UNCHANGED <<ringVars, inputs>>
    /\ UNCHANGED <<fpc, dev, i>>

Elsewhere ==
    /\ Move \/ Copy \/ Latch \/ Accept \/ Commit \/ Cycle \/ Push
    /\ UNCHANGED filterVars

FilterNext == FilterStep \/ FilterReport \/ FilterEnd \/ Elsewhere

allVars    == <<vars, filterVars>>
FilterSpec == FilterInit /\ [][FilterNext]_allVars

(* A vehicle with power moves, the scanner reports, the tasks run.         *)
FairSpec ==
    /\ FilterSpec
    /\ WF_allVars(Move /\ UNCHANGED filterVars) /\ WF_allVars(Commit /\ UNCHANGED filterVars)
    /\ WF_allVars((Copy \/ Latch) /\ UNCHANGED filterVars)
    /\ WF_allVars(FilterStep \/ FilterReport)
    /\ WF_allVars((Cycle /\ UNCHANGED filterVars) \/ FilterEnd)

-----------------------------------------------------------------------------
(* The filter is never read or written beyond its buffer: motionctrl does  *)
(* not clear it while can is about to shift or to store.                   *)
InBuffer ==
    /\ cnt \in 0 .. Size
    /\ fpc = "shift" /\ Shifting => i + 1 < Size
    /\ fpc = "store" => cnt < Size

(* Outside of sliding_filter_input() it holds the last Size deviations     *)
(* since it was cleared, oldest first.                                     *)
HoldsLast ==
    fpc \notin {"shift", "store"} =>
        LET n == Len(inputs)
        IN  /\ cnt = (IF n < Size THEN n ELSE Size)
            /\ \A k \in 0 .. cnt - 1 : buffer[k] = inputs[n - cnt + k + 1]

(* It never mixes deviations measured before and after a correction, which *)
(* would be corrected twice: also not one that can has measured and not    *)
(* put in yet, nor while motionctrl waits between the correction and the   *)
(* clearing of the filter.                                                 *)
OneCorrection ==
    /\ ending # "correct" => \A k \in DOMAIN inputs : inputs[k][2] = detY0
    /\ fpc \in {"input", "shift", "store"} => ending # "correct" /\ dev[2] = detY0

(* So the filter is what its users take it for, though nothing is locked.  *)
FilterInv == InBuffer /\ HoldsLast /\ OneCorrection
=============================================================================
