------------------------------ MODULE Dispatch ------------------------------
(***************************************************************************)
(* The command dispatcher of the vehicle: usr/application/agv.c, the       *)
(* command gate of usr/application/motion_ctrl.c and, of the motion task,  *)
(* what starts and ends an action.                                         *)
(*                                                                         *)
(* Two tasks hand commands to motionctrl_cmd():                            *)
(*   agvcp  (priority 13)  runs process_action_cmd() for each action the   *)
(*          controller sends: it issues the action at once or appends it   *)
(*          to the command queue mtcmdQ;                                   *)
(*   agv    (priority 14)  takes motion events from mtevtQ and on          *)
(*          ACTION_OVER or POINT_ARRIVAL runs issue_next_cmd().            *)
(* The tasks motionctrl (10), can (11) and bms (19) post the events; the   *)
(* watch on the battery is also run by the two when they switch the charger*)
(*                                                                         *)
(* Grain of atomicity.  Tasks are preemptive with fixed priorities, so the *)
(* code of agv is cut at each access to shared state, and the code of      *)
(* agvcp at each call that may block: OSTimeDly() and APP_TRACE(), which   *)
(* takes the mutex of the log.                                             *)
(***************************************************************************)
EXTENDS Naturals, Sequences, FiniteSets

CONSTANTS
    MaxCmds,    (* bound: commands the controller sends                    *)
    Actions,    (* the actions it sends                                    *)
    Alarms,     (* the faults that may occur                               *)
    MaxInputs,  (* bound: code points passed and battery alarms, together  *)
    CmdBlocks,  (* MAX_MOTION_CMD_NUM: blocks of cmdmem, slots of mtcmdQ   *)
    EvtBlocks   (* MAX_MOTION_EVENT_NUM: blocks of evtmem, slots of mtevtQ *)

Straights   == {"GOSTRAIGHT", "GOBACKWARD"}
Turns       == {"TRUNLEFT", "TRUNRIGHT"}
Charges     == {"CHARGE", "STOP_CHARGE"}
AllActions  == Straights \cup Turns \cup Charges \cup {"UNLOAD", "STOP"}
AllAlarms   == {"OUT_OF_TRACK", "GS_COMM_BREAK", "WAY_POINT", "ENCODER", "BMS"}

ASSUME DispatchAssumption ==
    /\ MaxCmds \in Nat /\ MaxInputs \in Nat
    /\ Actions \subseteq AllActions
    /\ Alarms \subseteq AllAlarms
    /\ CmdBlocks \in Nat \ {0} /\ EvtBlocks \in Nat \ {0}

Issuers  == {"agvcp", "agv"}
Watchers == Issuers \cup {"bms"}
Ids     == 1 .. MaxCmds
Command == [id : Ids, act : AllActions]
NoCmd   == [id |-> 0, act |-> "STOP"]

Styles   == {"ONSTOPING"} \cup Straights \cup Turns
Events   == [kind : {"ACTION_OVER"}, arg : AllActions]
              \cup [kind : {"POINT_ARRIVAL"}, arg : {"tag"}]
              \cup [kind : {"ERROR", "ERROR_RECOVERY"}, arg : AllAlarms]
NoEvt    == [kind |-> "none", arg |-> "none"]

Over(a)     == [kind |-> "ACTION_OVER",    arg |-> a]
Arrival     == [kind |-> "POINT_ARRIVAL",  arg |-> "tag"]
Error(e)    == [kind |-> "ERROR",          arg |-> e]
Recovery(e) == [kind |-> "ERROR_RECOVERY", arg |-> e]

VARIABLES
    mtcmdQ, cmdfree,        (* command queue, free blocks of its pool      *)
    mtevtQ, evtfree,        (* event queue, free blocks of its pool        *)
    pc, cur, ret,           (* per issuer: where it is, the command it     *)
                            (* holds, the result of its issue_command()    *)
    evt,                    (* the event agv is processing                 *)
    work_state, error,      (* agvstat                                     *)
    last_ponit,             (* issue_command() knows the end of the route  *)
    Motionstyle, typeOfAction,
    turning,                (* turn that has stopped, ACTION_OVER not yet posted *)
    missing, nEvent,        (* fault seen by the motion task, fault it acts on *)
    nAgvWorkMode,
    dumper, nReverseFlag,   (* dumper_st.state, an unload is asked for     *)
    bms_error, watch,       (* the battery's alarm; where each task is that *)
                            (* queries the battery                         *)
    recovering,             (* can waits in the trace of the lost recovery *)
    inputs,                 (* code points and battery alarms so far       *)
    sent, outcome           (* history: commands received, what became of each *)

cmdVars    == <<mtcmdQ, cmdfree>>
evtVars    == <<mtevtQ, evtfree>>
taskVars   == <<pc, cur, ret, evt>>
agvstat    == <<work_state, error>>
wheelVars  == <<Motionstyle, typeOfAction, turning>>
faultVars  == <<missing, nEvent, nAgvWorkMode>>
dumperVars == <<dumper, nReverseFlag>>
bmsVars    == <<bms_error, watch, recovering>>
envVars    == <<bmsVars, inputs>>
histVars   == <<sent, outcome>>
vars == <<cmdVars, evtVars, taskVars, agvstat, last_ponit, wheelVars, faultVars,
          dumperVars, envVars, histVars>>

motionVars == <<wheelVars, faultVars, dumperVars>>

Init ==
    /\ mtcmdQ = <<>> /\ cmdfree = CmdBlocks
    /\ mtevtQ = <<>> /\ evtfree = EvtBlocks
    /\ pc = [t \in Issuers |-> "idle"]
    /\ cur = [t \in Issuers |-> NoCmd]
    /\ ret = [t \in Issuers |-> "none"]
    /\ evt = NoEvt
    /\ work_state = "READY" /\ error = {}
    /\ last_ponit = FALSE
    /\ Motionstyle = "ONSTOPING" /\ typeOfAction = "STOP" /\ turning = "none"
    /\ missing = "none" /\ nEvent = "NO_EVENT" /\ nAgvWorkMode = "RUNNING"
    /\ dumper = "HORIZONTAL" /\ nReverseFlag = FALSE
    /\ bms_error = FALSE /\ watch = [t \in Watchers |-> "idle"] /\ recovering = FALSE
    /\ inputs = 0
    /\ sent = 0 /\ outcome = [i \in Ids |-> "unsent"]

-----------------------------------------------------------------------------
(* The pools and queues of the kernel as the dispatcher uses them.  A post *)
(* to a full queue fails; the result is not looked at for commands.        *)

PostCmd(q, c)      == IF Len(q) < CmdBlocks THEN Append(q, c) ELSE q
PostCmdBack(q, c)  == PostCmd(q, c)  (* mutant: not to the front *)
PostCmdFront(q, c) == IF Len(q) < CmdBlocks THEN <<c>> \o q ELSE q

(* Mutant of PostEvt: OSQPostFront().                                      *)
PostEvtFirst(e) ==
    IF evtfree > 0 /\ Len(mtevtQ) < EvtBlocks
    THEN mtevtQ' = <<e>> \o mtevtQ /\ evtfree' = evtfree - 1
    ELSE UNCHANGED evtVars

(* motionctrl_event_callback(): without a free block the event is lost,    *)
(* and a failed post gives the block back.                                 *)
PostEvt(e) ==
    IF evtfree > 0 /\ Len(mtevtQ) < EvtBlocks
    THEN mtevtQ' = Append(mtevtQ, e) /\ evtfree' = evtfree - 1
    ELSE UNCHANGED evtVars

(* On a wrong code point the callback calls itself with the error before   *)
(* it posts the arrival.                                                   *)
PostErrorAndArrival ==
    IF evtfree > 1 /\ Len(mtevtQ) + 1 < EvtBlocks
    THEN /\ mtevtQ' = mtevtQ \o <<Error("WAY_POINT"), Arrival>>
         /\ evtfree' = evtfree - 2
    ELSE PostEvt(Error("WAY_POINT"))

-----------------------------------------------------------------------------
(* process_action_cmd() and issue_next_cmd() hand a command to             *)
(* issue_command(); t is the task that does.                               *)

Goto(t, l) == pc' = [pc EXCEPT ![t] = l]

(* issue_command() has answered r; the history notes what became of the    *)
(* command.                                                                *)
Answer(t, r, what) ==
    /\ Goto(t, "issued")
    /\ ret' = [ret EXCEPT ![t] = r]
    /\ outcome' = [outcome EXCEPT ![cur[t].id] = what]
    /\ UNCHANGED <<cur, evt, sent>>

(* motionctrl_cmd() answers -PERR_EBUSY.                                   *)
Denied(a) ==
    \/ dumper \in {"MOVINGUP", "TOP"}
    \/ a = "GOSTRAIGHT" /\ typeOfAction # a /\ Motionstyle # "ONSTOPING"
    \/ a \in {"GOBACKWARD", "UNLOAD"} \cup Turns /\ Motionstyle # "ONSTOPING"

(* query_battery_info_tmrcb() in t: the battery has not been heard for     *)
(* long and no alarm is up.  BmsWatch has the clock.                       *)
Silent(t) ==
    /\ "BMS" \in Alarms /\ watch[t] = "idle" /\ ~bms_error /\ inputs < MaxInputs
    /\ inputs' = inputs + 1
    /\ watch' = [watch EXCEPT ![t] = "post"]
    /\ UNCHANGED <<bms_error, recovering>>

(* bms_charge() ends with a query of the battery.                          *)
IssueCharge(t) ==
    /\ pc[t] = "issue" /\ cur[t].act \in Charges
    /\ Goto(t, "charge")
    /\ Silent(t) \/ UNCHANGED envVars
    /\ UNCHANGED <<cmdVars, evtVars, cur, ret, evt, agvstat, last_ponit, motionVars, histVars>>

(* The alarm is posted first, the flag that tells of it is set afterwards. *)
BmsPost(t) ==
    /\ watch[t] = "post"
    /\ PostEvt(Error("BMS"))
    /\ watch' = [watch EXCEPT ![t] = "set"]
    /\ UNCHANGED <<cmdVars, taskVars, agvstat, last_ponit, motionVars, bms_error, recovering,
                   inputs, histVars>>

BmsSet(t) ==
    /\ watch[t] = "set"
    /\ bms_error' = TRUE
    /\ watch' = [watch EXCEPT ![t] = "idle"]
    /\ UNCHANGED <<cmdVars, evtVars, taskVars, agvstat, last_ponit, motionVars, recovering,
                   inputs, histVars>>

(* The route does not start where the last one ends.                       *)
IssueRefused(t) ==
    /\ pc[t] = "issue" /\ cur[t].act \in Straights
    /\ last_ponit /\ "WAY_POINT" \in Alarms
    /\ Answer(t, "EINVAL", "refused")
    /\ UNCHANGED <<cmdVars, evtVars, agvstat, last_ponit, motionVars, envVars>>

(* Busy: agvcp goes on to append the command, agv counts it as issued.     *)
IssueDenied(t) ==
    /\ pc[t] = "issue" /\ cur[t].act \notin Charges /\ Denied(cur[t].act)
    /\ IF t = "agvcp"
       THEN Goto(t, "denied") /\ UNCHANGED <<cur, ret, evt, histVars>>
       ELSE Answer(t, cur[t].act, "dropped")
    /\ UNCHANGED <<cmdVars, evtVars, agvstat, last_ponit, motionVars, envVars>>

(* motionctrl_cmd() knows no STOP: it answers -PERR_ENOTSUP.               *)
IssueStop(t) ==
    /\ pc[t] = "issue" /\ cur[t].act = "STOP" /\ ~Denied("STOP")
    /\ Answer(t, "STOP", "noeffect")
    /\ UNCHANGED <<cmdVars, evtVars, agvstat, last_ponit, motionVars, envVars>>

IssueUnload(t) ==
    /\ pc[t] = "issue" /\ cur[t].act = "UNLOAD" /\ ~Denied("UNLOAD")
    /\ nReverseFlag' = TRUE
    /\ Answer(t, "UNLOAD", "started")
    /\ UNCHANGED <<cmdVars, evtVars, agvstat, last_ponit, wheelVars, faultVars,
                   dumper, envVars>>

(* A movement is accepted.  If the vehicle stands the task sleeps 500 ms   *)
(* before the command takes effect.                                        *)
IssueMove(t) ==
    /\ pc[t] = "issue" /\ cur[t].act \in Straights \cup Turns /\ ~Denied(cur[t].act)
    /\ Goto(t, IF Motionstyle = "ONSTOPING" THEN "delay" ELSE "accepted")
    /\ UNCHANGED <<cmdVars, evtVars, cur, ret, evt, agvstat, last_ponit, motionVars,
                   envVars, histVars>>

Commit(t) ==
    /\ pc[t] \in {"delay", "accepted"}
    /\ Motionstyle' = cur[t].act
    /\ typeOfAction' = cur[t].act
    /\ last_ponit' = (last_ponit \/ cur[t].act \in Straights)
    /\ Answer(t, cur[t].act, "started")
    /\ UNCHANGED <<cmdVars, evtVars, agvstat, turning, faultVars, dumperVars, envVars>>

(* 500 ms after switching the charger issue_command() reports the action   *)
(* over itself.                                                            *)
ChargeOver(t) ==
    /\ pc[t] = "charge" /\ watch[t] = "idle"
    /\ PostEvt(Over(cur[t].act))
    /\ Answer(t, cur[t].act, "started")
    /\ UNCHANGED <<cmdVars, agvstat, last_ponit, motionVars, envVars>>

(* process_action_cmd() copies the command into a block and queues it; a   *)
(* STOP goes in front.  Without a block the command is lost.               *)
Enqueue(c) ==
    IF cmdfree = 0
    THEN outcome' = [outcome EXCEPT ![c.id] = "nomem"] /\ UNCHANGED cmdVars
    ELSE /\ cmdfree' = cmdfree - 1
         /\ mtcmdQ' = IF c.act = "STOP" THEN PostCmdFront(mtcmdQ, c) ELSE PostCmd(mtcmdQ, c)
         /\ outcome' = [outcome EXCEPT ![c.id] = "pending"]

IssueStep(t) ==
    \/ IssueCharge(t) \/ IssueRefused(t) \/ IssueDenied(t) \/ IssueStop(t)
    \/ IssueUnload(t) \/ IssueMove(t) \/ Commit(t) \/ ChargeOver(t)

QueryStep(t) == BmsPost(t) \/ BmsSet(t)

-----------------------------------------------------------------------------
(* agvcp: process_action_cmd().  The test of the queue and what follows,   *)
(* up to the first call that may block, are one step for agv.              *)

Receive(a) ==
    /\ pc["agvcp"] = "idle" /\ sent < MaxCmds
    /\ sent' = sent + 1
    /\ LET c == [id |-> sent + 1, act |-> a]
       IN  IF a = "STOP" \/ mtcmdQ = <<>>
           THEN /\ Goto("agvcp", "issue")
                /\ cur' = [cur EXCEPT !["agvcp"] = c]
                /\ outcome' = [outcome EXCEPT ![c.id] = "pending"]
                /\ UNCHANGED cmdVars
           ELSE Enqueue(c) /\ UNCHANGED <<pc, cur>>
    /\ UNCHANGED <<evtVars, ret, evt, agvstat, last_ponit, motionVars, envVars>>

AppendDenied ==
    /\ pc["agvcp"] = "denied"
    /\ Enqueue(cur["agvcp"])
    /\ Goto("agvcp", "idle")
    /\ cur' = [cur EXCEPT !["agvcp"] = NoCmd]
    /\ UNCHANGED <<evtVars, ret, evt, agvstat, last_ponit, motionVars, envVars, sent>>

AgvcpIssued ==
    /\ pc["agvcp"] = "issued"
    /\ Goto("agvcp", "idle")
    /\ cur' = [cur EXCEPT !["agvcp"] = NoCmd]
    /\ ret' = [ret EXCEPT !["agvcp"] = "none"]
    /\ IF ret["agvcp"] = "EINVAL" THEN PostEvt(Error("WAY_POINT")) ELSE UNCHANGED evtVars
    /\ work_state' = CASE ret["agvcp"] = "STOP"        -> "STOP"
                       [] ret["agvcp"] = "CHARGE"      -> "CHARGING"
                       [] ret["agvcp"] = "STOP_CHARGE" -> "READY"
                       [] ret["agvcp"] \in {"GOSTRAIGHT"} \cup Turns -> "MOVING"
                       [] OTHER                        -> work_state
    /\ UNCHANGED <<cmdVars, evt, error, last_ponit, motionVars, envVars, histVars>>

AgvcpStep == AppendDenied \/ AgvcpIssued \/ IssueStep("agvcp") \/ QueryStep("agvcp")

-----------------------------------------------------------------------------
(* agv: agv_task(), process_motionctrl_event() and issue_next_cmd().       *)

(* Mutant of AgvPend: agv does not wait while agvcp holds a denied command.*)
AgvPendEarly ==
    /\ pc["agv"] = "idle" /\ mtevtQ # <<>>
    /\ evt' = Head(mtevtQ) /\ mtevtQ' = Tail(mtevtQ)
    /\ Goto("agv", "handle")
    /\ UNCHANGED <<cmdVars, evtfree, cur, ret, agvstat, last_ponit, motionVars,
                   envVars, histVars>>

(* The trace before the event is looked at waits for the log's mutex       *)
(* behind agvcp whenever agvcp waits for it.                               *)
AgvPend ==
    /\ pc["agv"] = "idle" /\ mtevtQ # <<>>
    /\ pc["agvcp"] \in {"idle", "delay", "charge"}
    /\ evt' = Head(mtevtQ) /\ mtevtQ' = Tail(mtevtQ)
    /\ Goto("agv", "handle")
    /\ UNCHANGED <<cmdVars, evtfree, cur, ret, agvstat, last_ponit, motionVars,
                   envVars, histVars>>

AgvPop ==
    /\ pc["agv"] = "handle" /\ evt.kind \in {"ACTION_OVER", "POINT_ARRIVAL"}
    /\ IF mtcmdQ = <<>>
       THEN Goto("agv", "state") /\ UNCHANGED <<mtcmdQ, cur>>
       ELSE /\ mtcmdQ' = Tail(mtcmdQ)
            /\ cur' = [cur EXCEPT !["agv"] = Head(mtcmdQ)]
            /\ Goto("agv", IF evt.kind = "ACTION_OVER" \/ Head(mtcmdQ).act \in {"STOP", "GOSTRAIGHT"}
                           THEN "issue" ELSE "postback")
    /\ UNCHANGED <<cmdfree, evtVars, ret, evt, agvstat, last_ponit, motionVars,
                   envVars, histVars>>

(* A command that may not be issued yet goes back to the front.            *)
AgvPostBack ==
    /\ pc["agv"] = "postback"
    /\ mtcmdQ' = PostCmdFront(mtcmdQ, cur["agv"])
    /\ Goto("agv", "state")
    /\ cur' = [cur EXCEPT !["agv"] = NoCmd]
    /\ UNCHANGED <<cmdfree, evtVars, ret, evt, agvstat, last_ponit, motionVars,
                   envVars, histVars>>

(* Mutant of AgvFree: the command is queued again instead of released.     *)
AgvRequeue ==
    /\ pc["agv"] = "issued"
    /\ mtcmdQ' = PostCmdFront(mtcmdQ, cur["agv"])
    /\ Goto("agv", "state")
    /\ cur' = [cur EXCEPT !["agv"] = NoCmd]
    /\ UNCHANGED <<cmdfree, evtVars, ret, evt, agvstat, last_ponit, motionVars, envVars, histVars>>

(* The block is released whatever issue_command() answered.                *)
AgvFree ==
    /\ pc["agv"] = "issued"
    /\ IF ret["agv"] = "EINVAL" THEN PostEvt(Error("WAY_POINT")) ELSE UNCHANGED evtVars
    /\ cmdfree' = cmdfree + 1
    /\ Goto("agv", "state")
    /\ cur' = [cur EXCEPT !["agv"] = NoCmd]
    /\ UNCHANGED <<mtcmdQ, ret, evt, agvstat, last_ponit, motionVars, envVars, histVars>>

AgvState ==
    /\ pc["agv"] = "state"
    /\ work_state' = CASE \/ ret["agv"] = "none" /\ evt.kind = "ACTION_OVER"
                          \/ ret["agv"] = "STOP_CHARGE" -> "READY"
                       [] ret["agv"] = "STOP"           -> "STOP"
                       [] ret["agv"] = "CHARGE"         -> "CHARGING"
                       [] OTHER                         -> "MOVING"
    /\ ret' = [ret EXCEPT !["agv"] = "none"]
    /\ Goto("agv", "notify")
    /\ UNCHANGED <<cmdVars, evtVars, cur, evt, error, last_ponit, motionVars, envVars, histVars>>

(* Mutant of AgvError: the early return skips OSMemPut().                  *)
AgvErrorLeaks ==
    /\ pc["agv"] = "handle" /\ evt.kind = "ERROR"
    /\ work_state' = "ERROR"
    /\ error' = error \cup {evt.arg}
    /\ Goto("agv", IF evt.arg \in error THEN "idle" ELSE "notify")
    /\ UNCHANGED <<cmdVars, evtVars, cur, ret, evt, last_ponit, motionVars, envVars, histVars>>

(* An error reported before is not reported again.                         *)
AgvError ==
    /\ pc["agv"] = "handle" /\ evt.kind = "ERROR"
    /\ work_state' = "ERROR"
    /\ error' = error \cup {evt.arg}
    /\ Goto("agv", IF evt.arg \in error THEN "done" ELSE "notify")
    /\ UNCHANGED <<cmdVars, evtVars, cur, ret, evt, last_ponit, motionVars, envVars, histVars>>

AgvRecovery ==
    /\ pc["agv"] = "handle" /\ evt.kind = "ERROR_RECOVERY"
    /\ error' = error \ {evt.arg}
    /\ work_state' = IF error' = {} THEN "READY" ELSE work_state
    /\ Goto("agv", "notify")
    /\ UNCHANGED <<cmdVars, evtVars, cur, ret, evt, last_ponit, motionVars, envVars, histVars>>

(* agvcp_notify_event() returns when the controller has acknowledged.      *)
AgvNotify ==
    /\ pc["agv"] = "notify"
    /\ Goto("agv", "done")
    /\ UNCHANGED <<cmdVars, evtVars, cur, ret, evt, agvstat, last_ponit, motionVars,
                   envVars, histVars>>

AgvDone ==
    /\ pc["agv"] = "done"
    /\ evtfree' = evtfree + 1
    /\ evt' = NoEvt
    /\ Goto("agv", "idle")
    /\ UNCHANGED <<cmdVars, mtevtQ, cur, ret, agvstat, last_ponit, motionVars,
                   envVars, histVars>>

(* agvcp has the higher priority: while it runs on without blocking, agv   *)
(* does not run.                                                           *)
AgvStep ==
    /\ pc["agvcp"] # "accepted"
    /\ \/ AgvPend \/ AgvPop \/ AgvPostBack \/ AgvFree \/ AgvState
       \/ AgvError \/ AgvRecovery \/ AgvNotify \/ AgvDone
       \/ IssueStep("agv") \/ QueryStep("agv")

-----------------------------------------------------------------------------
(* motionctrl: AGV_Run() and reverseTask(), called in turn every 20 ms.    *)
(* The task blocks in the trace of Drive() when a turn stops, and in       *)
(* OSTimeDly(1) of dumper_up(), while the dumper is still HORIZONTAL.      *)

MotionRuns  == turning = "none" /\ dumper # "STARTING"
Driving     == MotionRuns /\ nAgvWorkMode = "RUNNING" /\ nEvent = "NO_EVENT"
NoFault     == Driving /\ missing = "none"

(* No code point for one and a half of its distances sets OutOfTrack, no   *)
(* scanner frame for 100 cycles of a turn sets GSMissing.                  *)
Lost(e) == {"none"} \cup ({e} \cap Alarms)

StraightEnd ==
    /\ NoFault /\ Motionstyle \in Straights
    /\ PostEvt(Over(Motionstyle))
    /\ Motionstyle' = "ONSTOPING"
    /\ missing' \in Lost("OUT_OF_TRACK")
    /\ UNCHANGED <<cmdVars, taskVars, agvstat, last_ponit, typeOfAction, turning, nEvent,
                   nAgvWorkMode, dumperVars, envVars, histVars>>

TurnStop ==
    /\ NoFault /\ Motionstyle \in Turns
    /\ Motionstyle' = "ONSTOPING" /\ turning' = Motionstyle
    /\ missing' \in Lost("GS_COMM_BREAK")
    /\ UNCHANGED <<cmdVars, evtVars, taskVars, agvstat, last_ponit, typeOfAction, nEvent,
                   nAgvWorkMode, dumperVars, envVars, histVars>>

TurnOver ==
    /\ turning # "none"
    /\ PostEvt(Over(turning)) /\ turning' = "none"
    /\ UNCHANGED <<cmdVars, taskVars, agvstat, last_ponit, Motionstyle, typeOfAction,
                   faultVars, dumperVars, envVars, histVars>>

GuidanceLost ==
    /\ NoFault
    /\ \/ Motionstyle \in Straights /\ missing' = "OUT_OF_TRACK"
       \/ Motionstyle \in Turns     /\ missing' = "GS_COMM_BREAK"
    /\ missing' \in Alarms
    /\ UNCHANGED <<cmdVars, evtVars, taskVars, agvstat, last_ponit, wheelVars, nEvent,
                   nAgvWorkMode, dumperVars, envVars, histVars>>

(* The next cycle reports the fault and acts on it: a turn is stopped, a   *)
(* straight run slows down first.                                          *)
FaultReport ==
    /\ Driving /\ missing # "none"
    /\ nEvent' = missing
    /\ PostEvt(Error(missing))
    /\ IF missing = "GS_COMM_BREAK" /\ Motionstyle \in Turns
       THEN Motionstyle' = "ONSTOPING" /\ nAgvWorkMode' = "SUSPENDED"
       ELSE /\ nAgvWorkMode' = IF Motionstyle = "ONSTOPING" THEN "SUSPENDED" ELSE nAgvWorkMode
            /\ UNCHANGED Motionstyle
    /\ UNCHANGED <<cmdVars, taskVars, agvstat, last_ponit, typeOfAction, turning, missing,
                   dumperVars, envVars, histVars>>

FaultAct ==
    /\ MotionRuns /\ nAgvWorkMode = "RUNNING" /\ nEvent # "NO_EVENT"
    /\ \/ Motionstyle \in Straights
          /\ Motionstyle' = "ONSTOPING" /\ UNCHANGED nAgvWorkMode
       \/ Motionstyle \in Turns /\ nEvent = "GS_COMM_BREAK"
          /\ Motionstyle' = "ONSTOPING" /\ nAgvWorkMode' = "SUSPENDED"
       \/ Motionstyle = "ONSTOPING"
          /\ nAgvWorkMode' = "SUSPENDED" /\ UNCHANGED Motionstyle
    /\ UNCHANGED <<cmdVars, evtVars, taskVars, agvstat, last_ponit, typeOfAction, turning,
                   missing, nEvent, dumperVars, envVars, histVars>>

(* Reported again in every cycle in which the count of errors is over 5.   *)
EncoderError ==
    /\ MotionRuns /\ nAgvWorkMode = "RUNNING" /\ Motionstyle # "ONSTOPING"
    /\ "ENCODER" \in Alarms
    /\ PostEvt(Error("ENCODER"))
    /\ UNCHANGED <<cmdVars, taskVars, agvstat, last_ponit, motionVars, envVars, histVars>>

DumperStarts ==
    /\ MotionRuns /\ dumper = "HORIZONTAL" /\ nReverseFlag
    /\ dumper' = "STARTING"
    /\ UNCHANGED <<cmdVars, evtVars, taskVars, agvstat, last_ponit, wheelVars, faultVars,
                   nReverseFlag, envVars, histVars>>

DumperGoesUp ==
    /\ dumper = "STARTING"
    /\ dumper' = "MOVINGUP" /\ nReverseFlag' = FALSE
    /\ UNCHANGED <<cmdVars, evtVars, taskVars, agvstat, last_ponit, wheelVars, faultVars,
                   envVars, histVars>>

DumperAtTop ==
    /\ MotionRuns /\ dumper = "MOVINGUP"
    /\ dumper' = "TOP"
    /\ UNCHANGED <<cmdVars, evtVars, taskVars, agvstat, last_ponit, wheelVars, faultVars,
                   nReverseFlag, envVars, histVars>>

(* Mutant of DumperGoesDown: the path of dumper_down() that is home at once*)
(* skips the report.                                                       *)
DumperSilentAtHome ==
    /\ MotionRuns /\ dumper = "TOP"
    /\ \/ dumper' = "MOVINGDOWN" /\ PostEvt(Over("UNLOAD"))
       \/ dumper' = "HORIZONTAL" /\ UNCHANGED evtVars
    /\ UNCHANGED <<cmdVars, taskVars, agvstat, last_ponit, wheelVars, faultVars, nReverseFlag,
                   envVars, histVars>>

(* After the hold time; at once HORIZONTAL if the dumper is home already.  *)
DumperGoesDown ==
    /\ MotionRuns /\ dumper = "TOP"
    /\ dumper' \in {"MOVINGDOWN", "HORIZONTAL"}
    /\ PostEvt(Over("UNLOAD"))
    /\ UNCHANGED <<cmdVars, taskVars, agvstat, last_ponit, wheelVars, faultVars, nReverseFlag,
                   envVars, histVars>>

DumperHome ==
    /\ MotionRuns /\ dumper = "MOVINGDOWN"
    /\ dumper' = "HORIZONTAL"
    /\ UNCHANGED <<cmdVars, evtVars, taskVars, agvstat, last_ponit, wheelVars, faultVars,
                   nReverseFlag, envVars, histVars>>

WheelStep  == StraightEnd \/ TurnStop \/ TurnOver \/ FaultReport \/ FaultAct
DumperStep == DumperStarts \/ DumperGoesUp \/ DumperAtTop \/ DumperGoesDown \/ DumperHome

-----------------------------------------------------------------------------
(* can and bms: a new code point, possibly not the one the route expects,  *)
(* and the watch on the messages of the battery.                           *)

(* A new code comes into view only while the vehicle runs straight.        *)
PointArrival ==
    /\ Motionstyle \in Straights /\ inputs < MaxInputs
    /\ inputs' = inputs + 1
    /\ PostEvt(Arrival) \/ ("WAY_POINT" \in Alarms /\ PostErrorAndArrival)
    /\ UNCHANGED <<cmdVars, taskVars, agvstat, last_ponit, motionVars, bmsVars, histVars>>

BmsTimeout ==
    /\ Silent("bms")
    /\ UNCHANGED <<cmdVars, evtVars, taskVars, agvstat, last_ponit, motionVars, histVars>>

(* can_msg_process().  can has a higher priority than all that query and   *)
(* than agv, so none of them runs before the flag is cleared, unless the   *)
(* event cannot be posted: then can may wait in the trace.                 *)
BmsRecovers ==
    /\ bms_error /\ ~recovering
    /\ IF evtfree > 0 /\ Len(mtevtQ) < EvtBlocks
       THEN PostEvt(Recovery("BMS")) /\ bms_error' = FALSE /\ UNCHANGED recovering
       ELSE recovering' = TRUE /\ UNCHANGED <<evtVars, bms_error>>
    /\ UNCHANGED <<cmdVars, taskVars, agvstat, last_ponit, motionVars, watch, inputs, histVars>>

BmsClears ==
    /\ recovering /\ recovering' = FALSE
    /\ bms_error' = FALSE
    /\ UNCHANGED <<cmdVars, evtVars, taskVars, agvstat, last_ponit, motionVars, watch, inputs,
                   histVars>>

BmsStep == BmsTimeout \/ QueryStep("bms") \/ BmsRecovers \/ BmsClears

Environment == GuidanceLost \/ EncoderError \/ PointArrival \/ BmsStep

-----------------------------------------------------------------------------
Next ==
    \/ \E a \in Actions : Receive(a)
    \/ AgvcpStep \/ AgvStep \/ WheelStep \/ DumperStep \/ Environment

Spec == Init /\ [][Next]_vars

(* Every task runs on when it can: the scheduler always runs the ready     *)
(* task of the highest priority, and each of them soon blocks again.       *)
Fairness ==
    /\ WF_vars(AgvcpStep) /\ WF_vars(AgvStep)
    /\ WF_vars(WheelStep) /\ WF_vars(DumperStep)

FairSpec == Spec /\ Fairness

-----------------------------------------------------------------------------
(* Where a command or a block can be.                                      *)

Deciding == {"issue", "delay", "accepted", "charge", "denied", "postback"}
Holding  == {"issue", "delay", "accepted", "charge", "postback", "issued"}

IdsOf(q)    == {q[i].id : i \in DOMAIN q}
Distinct(q) == \A i, j \in DOMAIN q : q[i].id = q[j].id => i = j

Queued  == IdsOf(mtcmdQ)
Hand(t) == IF pc[t] \in Deciding THEN {cur[t].id} ELSE {}
InHand  == Hand("agvcp") \cup Hand("agv")

AgvcpPlaces == {"idle", "issue", "delay", "accepted", "charge", "denied", "issued"}
AgvPlaces   == {"idle", "handle", "issue", "delay", "accepted", "charge", "postback",
                "issued", "state", "notify", "done"}
Outcomes    == {"unsent", "pending", "started", "refused", "noeffect", "dropped", "nomem"}

(* Every variable has a value the code can give it, and a task that works  *)
(* on a command or an event has one.                                       *)
QueueTypes ==
    /\ mtcmdQ \in Seq(Command) /\ cmdfree \in 0 .. CmdBlocks
    /\ mtevtQ \in Seq(Events)  /\ evtfree \in 0 .. EvtBlocks

TaskTypes ==
    /\ pc \in [Issuers -> AgvcpPlaces \cup AgvPlaces]
    /\ pc["agvcp"] \in AgvcpPlaces /\ pc["agv"] \in AgvPlaces
    /\ cur \in [Issuers -> Command \cup {NoCmd}]
    /\ \A t \in Issuers : pc[t] \in Deciding \cup {"issued"} => cur[t] \in Command
    /\ \A t \in Issuers : pc[t] \in {"delay", "accepted"} => cur[t].act \in Straights \cup Turns
    /\ ret \in [Issuers -> AllActions \cup {"none", "EINVAL"}]
    /\ evt \in Events \cup {NoEvt}
    /\ pc["agv"] = "handle" => evt \in Events

MotionTypes ==
    /\ work_state \in {"READY", "STOP", "MOVING", "CHARGING", "ERROR"}
    /\ error \subseteq AllAlarms
    /\ last_ponit \in BOOLEAN
    /\ Motionstyle \in Styles /\ typeOfAction \in AllActions
    /\ turning \in Turns \cup {"none"}
    /\ missing \in {"none", "OUT_OF_TRACK", "GS_COMM_BREAK"}
    /\ nEvent \in {"NO_EVENT", "OUT_OF_TRACK", "GS_COMM_BREAK"}
    /\ nAgvWorkMode \in {"RUNNING", "SUSPENDED"}
    /\ dumper \in {"HORIZONTAL", "STARTING", "MOVINGUP", "TOP", "MOVINGDOWN"}
    /\ nReverseFlag \in BOOLEAN
    /\ bms_error \in BOOLEAN /\ recovering \in BOOLEAN
    /\ watch \in [Watchers -> {"idle", "post", "set"}]

HistTypes ==
    /\ inputs \in 0 .. MaxInputs /\ sent \in 0 .. MaxCmds
    /\ outcome \in [Ids -> Outcomes]

TypeOK == QueueTypes /\ TaskTypes /\ MotionTypes /\ HistTypes

(* The result of OSQPost() on mtcmdQ is ignored and a post back to the     *)
(* front never waits.  That is safe because every block of cmdmem is free, *)
(* queued, or in the hands of agv: who has a block finds a slot.           *)
CmdPoolConserved ==
    cmdfree + Len(mtcmdQ) + (IF pc["agv"] \in Holding THEN 1 ELSE 0) = CmdBlocks

(* Every block of evtmem is free, queued, or the event agv is processing:  *)
(* no path of process_motionctrl_event() loses or frees one twice.         *)
EvtPoolConserved ==
    evtfree + Len(mtevtQ) + (IF pc["agv"] = "idle" THEN 0 ELSE 1) = EvtBlocks

(* So every variable has a value the code can give it, and no path loses a *)
(* block, of whichever pool, or frees one twice.                           *)
PoolsConserved == TypeOK /\ CmdPoolConserved /\ EvtPoolConserved

(* A command that is neither started nor given up is in exactly one place, *)
(* and one that is, is in none: no interleaving of process_action_cmd()    *)
(* and issue_next_cmd() issues a command twice or mislays it.              *)
OnePlace ==
    /\ Distinct(mtcmdQ)
    /\ Queued \cap InHand = {}
    /\ cur["agv"].id = cur["agvcp"].id => cur["agv"].id = 0
    /\ {i \in Ids : outcome[i] = "pending"} = Queued \cup InHand

(* Only an ACTION_OVER lets agv issue any queued command, so while one is  *)
(* queued, or about to be, an ACTION_OVER must be on its way.              *)
WakeupPending ==
    mtcmdQ # <<>> \/ pc["agvcp"] = "denied" =>
        \/ \E i \in DOMAIN mtevtQ : mtevtQ[i].kind = "ACTION_OVER"
        \/ pc["agv"] = "handle" /\ evt.kind = "ACTION_OVER"
        \/ Motionstyle # "ONSTOPING" \/ turning # "none"
        \/ nReverseFlag \/ dumper \in {"STARTING", "MOVINGUP", "TOP"}
        \/ \E t \in Issuers : pc[t] \in {"issue", "delay", "accepted", "charge"}

(* When nothing is under way the state reported in heartbeats is not       *)
(* MOVING, whatever order the two tasks wrote work_state in.               *)
Quiet ==
    /\ \A t \in Issuers : pc[t] = "idle"
    /\ mtevtQ = <<>> /\ Motionstyle = "ONSTOPING" /\ turning = "none"
    /\ ~nReverseFlag /\ dumper \in {"HORIZONTAL", "MOVINGDOWN"}
QuietNotMoving == Quiet => work_state # "MOVING"

(* A battery alarm held in agvstat.error is one the next frame takes back, *)
(* once the events of the battery are processed and no task is between the *)
(* post and the flag, although that order lets agv report the alarm before *)
(* the watch knows of it.                                                  *)
BmsSettled ==
    /\ \A i \in DOMAIN mtevtQ : mtevtQ[i].arg # "BMS"
    /\ ~(pc["agv"] = "handle" /\ evt.arg = "BMS")
    /\ \A t \in Watchers : watch[t] # "set"
BmsAgrees == BmsSettled => ("BMS" \in error => bms_error)

(* What the vehicle reports of itself in agvstat agrees with what it does. *)
StatusAgrees == QuietNotMoving /\ BmsAgrees

(* agv starts nothing while an earlier command waits, though it may hold   *)
(* one for half a second, or put it back, while agvcp appends others: what *)
(* overtakes an earlier command is started by agvcp.                       *)
AgvStartsInOrder ==
    [][\A i, j \in Ids :
          i < j /\ j = cur["agv"].id /\ outcome[j] # "started" /\ outcome'[j] = "started"
              => outcome[i] # "pending"]_vars

(* Every command the vehicle accepts is issued or given up in the end.     *)
EveryCommandTaken ==
    \A i \in Ids : outcome[i] = "pending" ~> outcome[i] # "pending"

-----------------------------------------------------------------------------
(* What comments of the code say and the code does not do.                 *)

(* agv.c:467: "the cmd is issued to the motion-ctrl, then release the      *)
(* memory".  issue_next_cmd() also releases a command that motionctrl_cmd()*)
(* refused as busy.                                                        *)
ReleasedOnlyIfIssued == \A i \in Ids : outcome[i] # "dropped"

(* agv.c:304: on STOP "clear the task queue and issue it at once".         *)
StopClearsQueue ==
    [][pc["agvcp"] = "issued" /\ ret["agvcp"] = "STOP" /\ pc'["agvcp"] = "idle"
          => mtcmdQ' = <<>>]_vars

(* motion_ctrl.c:137: the data of the motion task are protected because    *)
(* only one context runs this code: a movement under way is never turned   *)
(* into another one.                                                       *)
MovementNotReplaced ==
    [][Motionstyle # "ONSTOPING" => Motionstyle' \in {Motionstyle, "ONSTOPING"}]_vars

(* agvcp.c:909: processing first what the controller sent later "is very   *)
(* dangerous": no movement starts while an earlier command still waits.    *)
StartedInOrder ==
    [][\A i, j \in Ids :
          i < j /\ outcome[j] # "started" /\ outcome'[j] = "started" => outcome[i] # "pending"]_vars
=============================================================================
