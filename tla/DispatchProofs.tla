--------------------------- MODULE DispatchProofs ---------------------------
(***************************************************************************)
(* Proofs about Dispatch for every number of commands, every set of        *)
(* actions and alarms, and pools of every size: the state is well formed   *)
(* and the pools lose nothing; a command is never in two places and never  *)
(* lost; agv starts the commands in their order; while no motion event is  *)
(* lost a waiting command will wake agv and the status agrees with what    *)
(* the vehicle does; and a pool of events that is large enough loses none. *)
(***************************************************************************)
EXTENDS Dispatch, SequenceTheorems, TLAPS

USE DispatchAssumption

(* The inductive invariant: the state is well formed and no block of       *)
(* either pool is lost.                                                    *)
IInv == TypeOK /\ CmdPoolConserved /\ EvtPoolConserved

(* A post keeps the event queue well formed and loses no block of evtmem.  *)
LEMMA PostEvtKeeps ==
    ASSUME mtevtQ \in Seq(Events), evtfree \in 0 .. EvtBlocks,
           NEW e \in Events, PostEvt(e)
    PROVE  /\ mtevtQ' \in Seq(Events) /\ evtfree' \in 0 .. EvtBlocks
           /\ evtfree' + Len(mtevtQ') = evtfree + Len(mtevtQ)
BY DEF PostEvt, evtVars

(* The same for the error and the arrival posted together. *)
LEMMA PostTwoKeeps ==
    ASSUME mtevtQ \in Seq(Events), evtfree \in 0 .. EvtBlocks, PostErrorAndArrival
    PROVE  /\ mtevtQ' \in Seq(Events) /\ evtfree' \in 0 .. EvtBlocks
           /\ evtfree' + Len(mtevtQ') = evtfree + Len(mtevtQ)
<1>1. Error("WAY_POINT") \in Events /\ Arrival \in Events
  BY DEF Events, Error, Arrival, AllAlarms
<1>2. CASE evtfree > 1 /\ Len(mtevtQ) + 1 < EvtBlocks
  <2>1. <<Error("WAY_POINT"), Arrival>> \in Seq(Events)
    BY <1>1
  <2>2. mtevtQ' = mtevtQ \o <<Error("WAY_POINT"), Arrival>> /\ evtfree' = evtfree - 2
    BY <1>2 DEF PostErrorAndArrival
  <2>3. mtevtQ' \in Seq(Events) /\ Len(mtevtQ') = Len(mtevtQ) + 2
    BY <2>1, <2>2
  <2> QED  BY <1>2, <2>2, <2>3
<1>3. CASE ~(evtfree > 1 /\ Len(mtevtQ) + 1 < EvtBlocks)
  <2>1. PostEvt(Error("WAY_POINT"))
    BY <1>3 DEF PostErrorAndArrival
  <2> QED  BY <1>1, <2>1, PostEvtKeeps
<1> QED  BY <1>2, <1>3

(* The initial state satisfies the invariant. *)
LEMMA InitIInv == Init => IInv
<1> SUFFICES ASSUME Init PROVE IInv
  OBVIOUS
<1>1. QueueTypes /\ CmdPoolConserved /\ EvtPoolConserved
  BY DEF Init, QueueTypes, CmdPoolConserved, EvtPoolConserved, Holding, Issuers
<1>2. TaskTypes
  BY DEF Init, TaskTypes, Issuers, AgvcpPlaces, AgvPlaces, Deciding
<1>3. MotionTypes
  BY DEF Init, MotionTypes, AllActions, Styles
<1>4. HistTypes
  BY DEF Init, HistTypes, Outcomes
<1> QED  BY <1>1, <1>2, <1>3, <1>4 DEF IInv, TypeOK

(* The blocks in use by agv.                                               *)
CmdHeld == IF pc["agv"] \in Holding THEN 1 ELSE 0
EvtHeld == IF pc["agv"] = "idle" THEN 0 ELSE 1

(* An issuer that moves on within a command keeps what it holds.           *)
LEMMA GotoKeeps ==
    ASSUME TaskTypes, NEW t \in Issuers, NEW l \in {"delay", "accepted", "charge", "denied"},
           pc[t] = "issue", l = "denied" => t = "agvcp",
           l \in {"delay", "accepted"} => cur[t].act \in Straights \cup Turns,
           Goto(t, l), UNCHANGED <<cur, ret, evt>>
    PROVE  TaskTypes' /\ CmdHeld' = CmdHeld /\ EvtHeld' = EvtHeld
BY DEF TaskTypes, Goto, Issuers, AgvcpPlaces, AgvPlaces, Deciding, Holding, CmdHeld, EvtHeld

(* The same when issue_command() has answered.                             *)
LEMMA AnswerKeeps ==
    ASSUME TaskTypes, HistTypes, NEW t \in Issuers, NEW what \in Outcomes,
           NEW r \in AllActions \cup {"none", "EINVAL"},
           pc[t] \in {"issue", "delay", "accepted", "charge"}, Answer(t, r, what),
           UNCHANGED inputs
    PROVE  TaskTypes' /\ HistTypes' /\ CmdHeld' = CmdHeld /\ EvtHeld' = EvtHeld
<1>1. cur[t] \in Command
  BY DEF TaskTypes, Deciding
<1>2. TaskTypes'
  BY DEF TaskTypes, Answer, Goto, Issuers, AgvcpPlaces, AgvPlaces, Deciding
<1>3. HistTypes'
  BY <1>1 DEF HistTypes, Answer, Command
<1>4. CmdHeld' = CmdHeld /\ EvtHeld' = EvtHeld
  BY DEF TaskTypes, Answer, Goto, Issuers, Holding, CmdHeld, EvtHeld
<1> QED  BY <1>2, <1>3, <1>4

(* Steps that touch no queue or pool.                                      *)
LEMMA QueuesUntouched ==
    ASSUME IInv, UNCHANGED <<cmdVars, evtVars>>, CmdHeld' = CmdHeld, EvtHeld' = EvtHeld
    PROVE  QueueTypes' /\ CmdPoolConserved' /\ EvtPoolConserved'
BY DEF IInv, TypeOK, QueueTypes, CmdPoolConserved, EvtPoolConserved, CmdHeld, EvtHeld,
       cmdVars, evtVars

(* The watch on the battery in whichever task, and what its steps do       *)
(* besides: they post at most one event.                                   *)
BatteryStep ==
    \/ BmsTimeout \/ BmsRecovers \/ BmsClears
    \/ \E t \in Watchers : QueryStep(t)

LEMMA BatterySteps ==
    (\E t \in Issuers : QueryStep(t)) \/ BmsStep => BatteryStep
BY DEF BatteryStep, BmsStep, Watchers

LEMMA BatteryLeaves ==
    ASSUME BatteryStep
    PROVE  /\ UNCHANGED <<cmdVars, taskVars, agvstat, last_ponit, motionVars, histVars>>
           /\ UNCHANGED evtVars \/ PostEvt(Error("BMS")) \/ PostEvt(Recovery("BMS"))
<1>1. CASE BmsTimeout
  BY <1>1 DEF BmsTimeout
<1>2. CASE BmsRecovers
  BY <1>2 DEF BmsRecovers
<1>3. CASE BmsClears
  BY <1>3 DEF BmsClears
<1>4. ASSUME NEW t \in Watchers, BmsPost(t) \/ BmsSet(t)
      PROVE  /\ UNCHANGED <<cmdVars, taskVars, agvstat, last_ponit, motionVars, histVars>>
             /\ UNCHANGED evtVars \/ PostEvt(Error("BMS")) \/ PostEvt(Recovery("BMS"))
  BY <1>4 DEF BmsPost, BmsSet
<1> QED  BY <1>1, <1>2, <1>3, <1>4 DEF BatteryStep, QueryStep

(* A query counts as an input, and moves one task on.                      *)
LEMMA WatchTypes ==
    ASSUME IInv, NEW t \in Watchers, Silent(t)
    PROVE  /\ watch' \in [Watchers -> {"idle", "post", "set"}]
           /\ inputs' \in 0 .. MaxInputs /\ UNCHANGED <<bms_error, recovering>>
BY DEF Silent, IInv, TypeOK, MotionTypes, HistTypes

LEMMA BatteryIInv ==
    ASSUME IInv, BatteryStep
    PROVE  MotionTypes' /\ HistTypes'
<1> USE DEF IInv, TypeOK
<1>1. UNCHANGED <<agvstat, last_ponit, motionVars, histVars>>
  BY BatteryLeaves
<1> DEFINE Good == /\ watch' \in [Watchers -> {"idle", "post", "set"}]
                   /\ inputs' \in 0 .. MaxInputs
                   /\ bms_error' \in BOOLEAN /\ recovering' \in BOOLEAN
<1>2. Good
  <2>1. CASE BmsTimeout
    BY <2>1, WatchTypes DEF BmsTimeout, Watchers, MotionTypes
  <2>2. CASE BmsRecovers
    BY <2>2 DEF BmsRecovers, MotionTypes, HistTypes
  <2>3. CASE BmsClears
    BY <2>3 DEF BmsClears, MotionTypes, HistTypes
  <2>4. ASSUME NEW t \in Watchers, BmsPost(t) PROVE Good
    BY <2>4 DEF BmsPost, MotionTypes, HistTypes
  <2>5. ASSUME NEW t \in Watchers, BmsSet(t) PROVE Good
    BY <2>5 DEF BmsSet, MotionTypes, HistTypes
  <2> QED  BY <2>1, <2>2, <2>3, <2>4, <2>5 DEF BatteryStep, QueryStep
<1>3. HistTypes'
  BY <1>1, <1>2 DEF HistTypes, histVars
<1>4. MotionTypes'
  BY <1>1, <1>2 DEF MotionTypes, agvstat, motionVars, wheelVars, faultVars, dumperVars
<1> QED  BY <1>3, <1>4

(* Handing a command to issue_command(), in whichever task.                *)
LEMMA IssueStepIInv ==
    ASSUME IInv, NEW t \in Issuers, IssueStep(t)
    PROVE  IInv'
<1> USE DEF IInv, TypeOK
<1> DEFINE Untouched == UNCHANGED <<agvstat, last_ponit, wheelVars, faultVars, dumperVars, bmsVars>>
<1>a. cur[t].act \in AllActions /\ cur[t].id \in Ids
  <2>1. pc[t] \in {"issue", "delay", "accepted", "charge"}
    BY DEF IssueStep, IssueCharge, IssueRefused, IssueDenied, IssueStop, IssueUnload, IssueMove,
           Commit, ChargeOver
  <2>2. cur[t] \in Command
    BY <2>1 DEF TaskTypes, Deciding
  <2> QED  BY <2>2 DEF Command
<1>b. Untouched => MotionTypes'
  BY DEF MotionTypes, agvstat, wheelVars, faultVars, dumperVars, bmsVars
<1>1. CASE IssueCharge(t)
  <2>1. UNCHANGED <<cmdVars, evtVars, histVars, agvstat, last_ponit, motionVars>>
    BY <1>1 DEF IssueCharge
  <2>2. TaskTypes' /\ CmdHeld' = CmdHeld /\ EvtHeld' = EvtHeld
    BY <1>1, GotoKeeps DEF IssueCharge
  <2>3. /\ watch' \in [Watchers -> {"idle", "post", "set"}]
        /\ inputs' \in 0 .. MaxInputs /\ UNCHANGED <<bms_error, recovering>>
    <3>1. CASE Silent(t)
      BY <3>1, WatchTypes DEF Watchers
    <3>2. CASE UNCHANGED envVars
      BY <3>2 DEF envVars, bmsVars, MotionTypes, HistTypes
    <3> QED  BY <1>1, <3>1, <3>2 DEF IssueCharge
  <2>4. HistTypes'
    BY <2>1, <2>3 DEF HistTypes, histVars
  <2>5. MotionTypes'
    BY <2>1, <2>3 DEF MotionTypes, agvstat, motionVars, wheelVars, faultVars, dumperVars
  <2> QED  BY <2>1, <2>2, <2>4, <2>5, QueuesUntouched
<1>2. CASE IssueRefused(t)
  <2>1. UNCHANGED <<cmdVars, evtVars, envVars>> /\ Untouched
    BY <1>2 DEF IssueRefused, motionVars, envVars
  <2>2. TaskTypes' /\ HistTypes' /\ CmdHeld' = CmdHeld /\ EvtHeld' = EvtHeld
    BY <1>2, <2>1, AnswerKeeps DEF IssueRefused, Outcomes, envVars
  <2> QED  BY <1>b, <2>1, <2>2, QueuesUntouched
<1>3. CASE IssueDenied(t)
  <2>1. UNCHANGED <<cmdVars, evtVars, envVars>> /\ Untouched
    BY <1>3 DEF IssueDenied, motionVars, envVars
  <2>2. CASE t = "agvcp"
    <3>1. TaskTypes' /\ CmdHeld' = CmdHeld /\ EvtHeld' = EvtHeld
      BY <1>3, <2>2, GotoKeeps DEF IssueDenied
    <3>2. HistTypes'
      BY <1>3, <2>1, <2>2 DEF IssueDenied, HistTypes, histVars, envVars
    <3> QED  BY <1>b, <2>1, <3>1, <3>2, QueuesUntouched
  <2>3. CASE t # "agvcp"
    <3>1. TaskTypes' /\ HistTypes' /\ CmdHeld' = CmdHeld /\ EvtHeld' = EvtHeld
      BY <1>a, <1>3, <2>1, <2>3, AnswerKeeps DEF IssueDenied, Outcomes, envVars
    <3> QED  BY <1>b, <2>1, <3>1, QueuesUntouched
  <2> QED  BY <2>2, <2>3
<1>4. CASE IssueStop(t)
  <2>1. UNCHANGED <<cmdVars, evtVars, envVars>> /\ Untouched
    BY <1>4 DEF IssueStop, motionVars, envVars
  <2>2. TaskTypes' /\ HistTypes' /\ CmdHeld' = CmdHeld /\ EvtHeld' = EvtHeld
    BY <1>4, <2>1, AnswerKeeps DEF IssueStop, Outcomes, AllActions, envVars
  <2> QED  BY <1>b, <2>1, <2>2, QueuesUntouched
<1>5. CASE IssueUnload(t)
  <2>1. UNCHANGED <<cmdVars, evtVars, envVars>>
    BY <1>5 DEF IssueUnload, envVars
  <2>2. TaskTypes' /\ HistTypes' /\ CmdHeld' = CmdHeld /\ EvtHeld' = EvtHeld
    BY <1>5, <2>1, AnswerKeeps DEF IssueUnload, Outcomes, AllActions, envVars
  <2>3. MotionTypes'
    BY <1>5 DEF IssueUnload, MotionTypes, agvstat, wheelVars, faultVars, envVars, bmsVars
  <2> QED  BY <2>1, <2>2, <2>3, QueuesUntouched
<1>6. CASE IssueMove(t)
  <2>1. UNCHANGED <<cmdVars, evtVars, histVars, envVars>> /\ Untouched
    BY <1>6 DEF IssueMove, motionVars, envVars
  <2>2. TaskTypes' /\ CmdHeld' = CmdHeld /\ EvtHeld' = EvtHeld
    BY <1>6, GotoKeeps DEF IssueMove
  <2>3. HistTypes'
    BY <2>1 DEF HistTypes, histVars, envVars
  <2> QED  BY <1>b, <2>1, <2>2, <2>3, QueuesUntouched
<1>7. CASE Commit(t)
  <2>1. UNCHANGED <<cmdVars, evtVars, envVars>>
    BY <1>7 DEF Commit, envVars
  <2>2. TaskTypes' /\ HistTypes' /\ CmdHeld' = CmdHeld /\ EvtHeld' = EvtHeld
    BY <1>7, <1>a, <2>1, AnswerKeeps DEF Commit, Outcomes, envVars
  <2>3. cur[t].act \in Straights \cup Turns
    BY <1>7 DEF Commit, TaskTypes
  <2>4. MotionTypes'
    BY <1>7, <1>a, <2>3 DEF Commit, MotionTypes, Styles, agvstat, faultVars, dumperVars, envVars,
                            bmsVars
  <2> QED  BY <2>1, <2>2, <2>4, QueuesUntouched
<1>8. CASE ChargeOver(t)
  <2>1. Over(cur[t].act) \in Events
    BY <1>a DEF Over, Events
  <2>2. /\ mtevtQ' \in Seq(Events) /\ evtfree' \in 0 .. EvtBlocks
        /\ evtfree' + Len(mtevtQ') = evtfree + Len(mtevtQ)
    BY <1>8, <2>1, PostEvtKeeps DEF ChargeOver, QueueTypes
  <2>3. TaskTypes' /\ HistTypes' /\ CmdHeld' = CmdHeld /\ EvtHeld' = EvtHeld
    BY <1>8, <1>a, AnswerKeeps DEF ChargeOver, Outcomes, envVars
  <2>4. MotionTypes'
    BY <1>8, <1>b DEF ChargeOver, motionVars, envVars
  <2> QED  BY <1>8, <2>2, <2>3, <2>4 DEF ChargeOver, QueueTypes, CmdPoolConserved,
              EvtPoolConserved, CmdHeld, EvtHeld, cmdVars
<1> QED  BY <1>1, <1>2, <1>3, <1>4, <1>5, <1>6, <1>7, <1>8 DEF IssueStep

(* Steps of the tasks that only post events.                               *)
LEMMA PostersKeep ==
    ASSUME IInv, UNCHANGED <<cmdVars, taskVars>>, MotionTypes', HistTypes',
           \/ UNCHANGED evtVars
           \/ PostErrorAndArrival
           \/ \E e \in Events : PostEvt(e)
    PROVE  IInv'
<1> USE DEF IInv, TypeOK
<1>1. /\ mtevtQ' \in Seq(Events) /\ evtfree' \in 0 .. EvtBlocks
      /\ evtfree' + Len(mtevtQ') = evtfree + Len(mtevtQ)
  <2>1. CASE UNCHANGED evtVars
    BY <2>1 DEF QueueTypes, evtVars
  <2>2. CASE PostErrorAndArrival
    BY <2>2, PostTwoKeeps DEF QueueTypes
  <2>3. CASE \E e \in Events : PostEvt(e)
    BY <2>3, PostEvtKeeps DEF QueueTypes
  <2> QED  BY <2>1, <2>2, <2>3
<1>2. TaskTypes'
  BY DEF TaskTypes, taskVars
<1>3. QueueTypes' /\ CmdPoolConserved'
  BY <1>1 DEF QueueTypes, CmdPoolConserved, cmdVars, taskVars
<1>4. EvtPoolConserved'
  BY <1>1 DEF EvtPoolConserved, taskVars
<1> QED  BY <1>2, <1>3, <1>4

LEMMA BatteryKeeps ==
    ASSUME IInv, BatteryStep
    PROVE  IInv'
<1>1. Error("BMS") \in Events /\ Recovery("BMS") \in Events
  BY DEF Error, Recovery, Events, AllAlarms
<1> QED  BY <1>1, BatteryLeaves, BatteryIInv, PostersKeep

(* Queueing a command takes a block for it, and there is a slot for it.    *)
LEMMA EnqueueKeeps ==
    ASSUME IInv, NEW c \in Command, Enqueue(c)
    PROVE  /\ mtcmdQ' \in Seq(Command) /\ cmdfree' \in 0 .. CmdBlocks
           /\ cmdfree' + Len(mtcmdQ') = cmdfree + Len(mtcmdQ)
           /\ outcome' \in [Ids -> Outcomes]
<1> USE DEF IInv, TypeOK, QueueTypes, HistTypes
<1>1. c.id \in Ids
  BY DEF Command
<1>2. CASE cmdfree = 0
  BY <1>1, <1>2 DEF Enqueue, Outcomes, cmdVars
<1>3. CASE cmdfree # 0
  <2>1. cmdfree' = cmdfree - 1 /\ outcome' \in [Ids -> Outcomes]
    BY <1>1, <1>3 DEF Enqueue, Outcomes
  <2>2. Len(mtcmdQ) < CmdBlocks
    BY <1>3 DEF CmdPoolConserved
  <2>3. mtcmdQ' = Append(mtcmdQ, c) \/ mtcmdQ' = <<c>> \o mtcmdQ
    BY <1>3, <2>2 DEF Enqueue, PostCmd, PostCmdFront
  <2>4. mtcmdQ' \in Seq(Command) /\ Len(mtcmdQ') = Len(mtcmdQ) + 1
    <3>1. <<c>> \in Seq(Command) /\ Len(<<c>>) = 1
      OBVIOUS
    <3>2. <<c>> \o mtcmdQ \in Seq(Command) /\ Len(<<c>> \o mtcmdQ) = 1 + Len(mtcmdQ)
      BY <3>1
    <3>3. Append(mtcmdQ, c) \in Seq(Command) /\ Len(Append(mtcmdQ, c)) = Len(mtcmdQ) + 1
      OBVIOUS
    <3>4. CASE mtcmdQ' = Append(mtcmdQ, c)
      BY <3>3, <3>4
    <3>5. CASE mtcmdQ' = <<c>> \o mtcmdQ
      <4>1. Len(mtcmdQ) \in Nat
        OBVIOUS
      <4> QED  BY <3>2, <3>5, <4>1
    <3> QED  BY <2>3, <3>4, <3>5
  <2>5. cmdfree \in Nat /\ cmdfree > 0
    BY <1>3
  <2> QED  BY <2>1, <2>4, <2>5
<1> QED  BY <1>2, <1>3

(* process_action_cmd() in agvcp.                                          *)
LEMMA ReceiveIInv ==
    ASSUME IInv, NEW a \in Actions, Receive(a)
    PROVE  IInv'
<1> USE DEF IInv, TypeOK
<1> DEFINE c == [id |-> sent + 1, act |-> a]
<1>1. c \in Command /\ sent' \in 0 .. MaxCmds
  BY DEF Receive, Command, Ids, HistTypes
<1>2. MotionTypes' /\ UNCHANGED <<evtVars, inputs>>
  BY DEF Receive, MotionTypes, motionVars, agvstat, wheelVars, faultVars, dumperVars, envVars,
         bmsVars
<1>3. CASE a = "STOP" \/ mtcmdQ = <<>>
  <2>1. TaskTypes' /\ CmdHeld' = CmdHeld /\ EvtHeld' = EvtHeld
    BY <1>1, <1>3 DEF Receive, TaskTypes, Goto, Issuers, AgvcpPlaces, AgvPlaces, Deciding,
                      Holding, CmdHeld, EvtHeld
  <2>2. HistTypes' /\ UNCHANGED cmdVars
    BY <1>1, <1>2, <1>3 DEF Receive, HistTypes, Outcomes, Command
  <2> QED  BY <1>2, <2>1, <2>2, QueuesUntouched
<1>4. CASE ~(a = "STOP" \/ mtcmdQ = <<>>)
  <2>1. Enqueue(c) /\ UNCHANGED taskVars
    BY <1>4 DEF Receive, taskVars
  <2>2. TaskTypes' /\ CmdHeld' = CmdHeld /\ EvtHeld' = EvtHeld
    BY <2>1 DEF TaskTypes, taskVars, CmdHeld, EvtHeld
  <2>3. /\ mtcmdQ' \in Seq(Command) /\ cmdfree' \in 0 .. CmdBlocks
        /\ cmdfree' + Len(mtcmdQ') = cmdfree + Len(mtcmdQ)
        /\ outcome' \in [Ids -> Outcomes]
    BY <1>1, <2>1, EnqueueKeeps
  <2> QED  BY <1>1, <1>2, <2>2, <2>3 DEF QueueTypes, HistTypes, CmdPoolConserved,
              EvtPoolConserved, CmdHeld, EvtHeld, evtVars
<1> QED  BY <1>3, <1>4

(* The other steps of agvcp.                                               *)
LEMMA AgvcpStepIInv ==
    ASSUME IInv, AgvcpStep
    PROVE  IInv'
<1> USE DEF IInv, TypeOK
<1>1. CASE AppendDenied
  <2>1. cur["agvcp"] \in Command
    BY <1>1 DEF AppendDenied, TaskTypes, Issuers, Deciding
  <2>2. /\ mtcmdQ' \in Seq(Command) /\ cmdfree' \in 0 .. CmdBlocks
        /\ cmdfree' + Len(mtcmdQ') = cmdfree + Len(mtcmdQ)
        /\ outcome' \in [Ids -> Outcomes]
    BY <1>1, <2>1, EnqueueKeeps DEF AppendDenied
  <2>3. TaskTypes' /\ CmdHeld' = CmdHeld /\ EvtHeld' = EvtHeld
    BY <1>1 DEF AppendDenied, TaskTypes, Goto, Issuers, AgvcpPlaces, AgvPlaces, Deciding,
                Holding, CmdHeld, EvtHeld
  <2>4. MotionTypes' /\ UNCHANGED <<evtVars, inputs, sent>>
    BY <1>1 DEF AppendDenied, MotionTypes, motionVars, agvstat, wheelVars, faultVars,
                dumperVars, envVars, bmsVars
  <2> QED  BY <2>2, <2>3, <2>4 DEF QueueTypes, HistTypes, CmdPoolConserved,
              EvtPoolConserved, CmdHeld, EvtHeld, evtVars
<1>2. CASE AgvcpIssued
  <2>1. /\ mtevtQ' \in Seq(Events) /\ evtfree' \in 0 .. EvtBlocks
        /\ evtfree' + Len(mtevtQ') = evtfree + Len(mtevtQ)
    <3>1. Error("WAY_POINT") \in Events
      BY DEF Error, Events, AllAlarms
    <3>2. CASE ret["agvcp"] = "EINVAL"
      BY <1>2, <3>1, <3>2, PostEvtKeeps DEF AgvcpIssued, QueueTypes
    <3>3. CASE ret["agvcp"] # "EINVAL"
      BY <1>2, <3>3 DEF AgvcpIssued, QueueTypes, evtVars
    <3> QED  BY <3>2, <3>3
  <2>2. TaskTypes' /\ CmdHeld' = CmdHeld /\ EvtHeld' = EvtHeld
    BY <1>2 DEF AgvcpIssued, TaskTypes, Goto, Issuers, AgvcpPlaces, AgvPlaces, Deciding,
                Holding, CmdHeld, EvtHeld
  <2>3. MotionTypes' /\ UNCHANGED <<cmdVars, envVars, histVars>>
    BY <1>2 DEF AgvcpIssued, MotionTypes, motionVars, wheelVars, faultVars, dumperVars, envVars,
                bmsVars
  <2> QED  BY <2>1, <2>2, <2>3 DEF QueueTypes, HistTypes, CmdPoolConserved, EvtPoolConserved,
              CmdHeld, EvtHeld, cmdVars, envVars, histVars
<1>3. CASE IssueStep("agvcp")
  BY <1>3, IssueStepIInv DEF Issuers
<1>4. CASE QueryStep("agvcp")
  BY <1>4, BatterySteps, BatteryKeeps DEF Issuers
<1> QED  BY <1>1, <1>2, <1>3, <1>4 DEF AgvcpStep

(* agv_task(): each of its steps, apart from handing a command over.       *)
LEMMA AgvStepIInv ==
    ASSUME IInv, AgvStep
    PROVE  IInv'
<1> USE DEF IInv, TypeOK
<1> DEFINE Quiescent == UNCHANGED <<Motionstyle, typeOfAction, turning, faultVars, dumperVars,
                                    last_ponit, bmsVars>>
<1>b. Quiescent /\ UNCHANGED agvstat => MotionTypes'
  BY DEF MotionTypes, agvstat, faultVars, dumperVars, bmsVars
<1>c. UNCHANGED <<inputs, sent, outcome>> => HistTypes'
  BY DEF HistTypes
<1> USE DEF motionVars, wheelVars, envVars, bmsVars, histVars
<1>1. CASE AgvPend
  <2>1. Head(mtevtQ) \in Events /\ Tail(mtevtQ) \in Seq(Events) /\ Len(Tail(mtevtQ)) = Len(mtevtQ) - 1
    BY <1>1 DEF AgvPend, QueueTypes
  <2>2. TaskTypes' /\ CmdHeld' = CmdHeld /\ EvtHeld' = EvtHeld + 1 /\ EvtHeld = 0
    BY <1>1, <2>1 DEF AgvPend, TaskTypes, Goto, Issuers, AgvcpPlaces, AgvPlaces, Deciding,
                      Holding, CmdHeld, EvtHeld
  <2>3. MotionTypes' /\ HistTypes'
    BY <1>1, <1>b, <1>c DEF AgvPend
  <2>4. QueueTypes' /\ CmdPoolConserved'
    BY <1>1, <2>1, <2>2 DEF AgvPend, QueueTypes, CmdPoolConserved, CmdHeld, cmdVars
  <2>5. EvtPoolConserved'
    BY <1>1, <2>1, <2>2 DEF AgvPend, QueueTypes, EvtPoolConserved, EvtHeld
  <2> QED  BY <2>2, <2>3, <2>4, <2>5
<1>2. CASE AgvPop
  <2>1. MotionTypes' /\ HistTypes' /\ UNCHANGED <<evtVars, cmdfree, ret, evt>>
    BY <1>2, <1>b, <1>c DEF AgvPop
  <2>2. CASE mtcmdQ = <<>>
    <3>1. TaskTypes' /\ CmdHeld' = CmdHeld /\ EvtHeld' = EvtHeld
      BY <1>2, <2>2 DEF AgvPop, TaskTypes, Goto, Issuers, AgvcpPlaces, AgvPlaces, Deciding,
                        Holding, CmdHeld, EvtHeld
    <3>2. UNCHANGED cmdVars
      BY <1>2, <2>2 DEF AgvPop, cmdVars
    <3> QED  BY <2>1, <3>1, <3>2, QueuesUntouched
  <2>3. CASE mtcmdQ # <<>>
    <3>1. Head(mtcmdQ) \in Command /\ Tail(mtcmdQ) \in Seq(Command) /\ Len(Tail(mtcmdQ)) = Len(mtcmdQ) - 1
      BY <2>3 DEF QueueTypes
    <3>2. mtcmdQ' = Tail(mtcmdQ) /\ cur' = [cur EXCEPT !["agv"] = Head(mtcmdQ)]
      BY <1>2, <2>3 DEF AgvPop
    <3>3. pc["agv"] = "handle" /\ (Goto("agv", "issue") \/ Goto("agv", "postback"))
      BY <1>2, <2>3 DEF AgvPop
    <3>4. TaskTypes' /\ CmdHeld' = CmdHeld + 1 /\ CmdHeld = 0 /\ EvtHeld' = EvtHeld
      BY <2>1, <3>1, <3>2, <3>3 DEF TaskTypes, Goto, Issuers, AgvcpPlaces, AgvPlaces, Deciding,
                        Holding, CmdHeld, EvtHeld
    <3>5. QueueTypes' /\ Len(mtcmdQ) = Len(mtcmdQ') + 1
      BY <2>1, <3>1, <3>2 DEF QueueTypes, evtVars
    <3>6. CmdPoolConserved'
      BY <2>1, <3>4, <3>5 DEF QueueTypes, CmdPoolConserved, CmdHeld
    <3>7. EvtPoolConserved'
      BY <2>1, <3>4 DEF EvtPoolConserved, EvtHeld, evtVars
    <3> QED  BY <2>1, <3>4, <3>5, <3>6, <3>7
  <2> QED  BY <2>2, <2>3
<1>3. CASE AgvPostBack
  <2>1. MotionTypes' /\ HistTypes' /\ UNCHANGED <<evtVars, cmdfree>>
    BY <1>3, <1>b, <1>c DEF AgvPostBack
  <2>2. cur["agv"] \in Command /\ CmdHeld = 1
    BY <1>3 DEF AgvPostBack, TaskTypes, Issuers, Deciding, CmdHeld, Holding
  <2>3. mtcmdQ' = <<cur["agv"]>> \o mtcmdQ
    BY <1>3, <2>2 DEF AgvPostBack, PostCmdFront, CmdPoolConserved, CmdHeld, QueueTypes
  <2>4. mtcmdQ' \in Seq(Command) /\ Len(mtcmdQ') = 1 + Len(mtcmdQ)
    <3>1. <<cur["agv"]>> \in Seq(Command) /\ Len(<<cur["agv"]>>) = 1
      BY <2>2
    <3> QED  BY <2>3, <3>1 DEF QueueTypes
  <2>5. TaskTypes' /\ CmdHeld' = 0 /\ EvtHeld' = EvtHeld
    BY <1>3 DEF AgvPostBack, TaskTypes, Goto, Issuers, AgvcpPlaces, AgvPlaces, Deciding,
                Holding, CmdHeld, EvtHeld
  <2> QED  BY <2>1, <2>2, <2>4, <2>5 DEF QueueTypes, CmdPoolConserved, EvtPoolConserved,
              CmdHeld, EvtHeld, evtVars
<1>4. CASE AgvFree
  <2>1. MotionTypes' /\ HistTypes' /\ mtcmdQ' = mtcmdQ /\ cmdfree' = cmdfree + 1
    BY <1>4, <1>b, <1>c DEF AgvFree
  <2>2. /\ mtevtQ' \in Seq(Events) /\ evtfree' \in 0 .. EvtBlocks
        /\ evtfree' + Len(mtevtQ') = evtfree + Len(mtevtQ)
    <3>1. Error("WAY_POINT") \in Events
      BY DEF Error, Events, AllAlarms
    <3>2. CASE ret["agv"] = "EINVAL"
      BY <1>4, <3>1, <3>2, PostEvtKeeps DEF AgvFree, QueueTypes
    <3>3. CASE ret["agv"] # "EINVAL"
      BY <1>4, <3>3 DEF AgvFree, QueueTypes, evtVars
    <3> QED  BY <3>2, <3>3
  <2>3. TaskTypes' /\ CmdHeld = 1 /\ CmdHeld' = 0 /\ EvtHeld' = EvtHeld
    BY <1>4 DEF AgvFree, TaskTypes, Goto, Issuers, AgvcpPlaces, AgvPlaces, Deciding,
                Holding, CmdHeld, EvtHeld
  <2>4. CmdPoolConserved' /\ cmdfree' \in 0 .. CmdBlocks
    <3>1. cmdfree + Len(mtcmdQ) + 1 = CmdBlocks /\ Len(mtcmdQ) \in Nat /\ cmdfree \in Nat
      BY <2>3 DEF QueueTypes, CmdPoolConserved, CmdHeld
    <3>2. cmdfree' + Len(mtcmdQ') + 0 = CmdBlocks /\ cmdfree' \in 0 .. CmdBlocks
      BY <2>1, <3>1
    <3> QED  BY <2>3, <3>2 DEF CmdPoolConserved, CmdHeld
  <2>6. QueueTypes'
    BY <2>1, <2>2, <2>4 DEF QueueTypes
  <2>5. EvtPoolConserved'
    BY <2>2, <2>3 DEF EvtPoolConserved, EvtHeld
  <2> QED  BY <2>1, <2>3, <2>4, <2>5, <2>6
<1>5. CASE AgvState
  <2>1. HistTypes' /\ UNCHANGED <<cmdVars, evtVars>>
    BY <1>5, <1>c DEF AgvState
  <2>2. TaskTypes' /\ CmdHeld' = CmdHeld /\ EvtHeld' = EvtHeld
    BY <1>5 DEF AgvState, TaskTypes, Goto, Issuers, AgvcpPlaces, AgvPlaces, Deciding,
                Holding, CmdHeld, EvtHeld
  <2>3. MotionTypes'
    BY <1>5 DEF AgvState, MotionTypes, faultVars, dumperVars
  <2> QED  BY <2>1, <2>2, <2>3, QueuesUntouched
<1>6. CASE AgvError
  <2>1. HistTypes' /\ UNCHANGED <<cmdVars, evtVars>>
    BY <1>6, <1>c DEF AgvError
  <2>2. TaskTypes' /\ CmdHeld' = CmdHeld /\ EvtHeld' = EvtHeld
    BY <1>6 DEF AgvError, TaskTypes, Goto, Issuers, AgvcpPlaces, AgvPlaces, Deciding,
                Holding, CmdHeld, EvtHeld
  <2>3. evt.arg \in AllAlarms
    BY <1>6 DEF AgvError, TaskTypes, Events
  <2>4. MotionTypes'
    BY <1>6, <2>3 DEF AgvError, MotionTypes, faultVars, dumperVars
  <2> QED  BY <2>1, <2>2, <2>4, QueuesUntouched
<1>7. CASE AgvRecovery
  <2>1. HistTypes' /\ UNCHANGED <<cmdVars, evtVars>>
    BY <1>7, <1>c DEF AgvRecovery
  <2>2. TaskTypes' /\ CmdHeld' = CmdHeld /\ EvtHeld' = EvtHeld
    BY <1>7 DEF AgvRecovery, TaskTypes, Goto, Issuers, AgvcpPlaces, AgvPlaces, Deciding,
                Holding, CmdHeld, EvtHeld
  <2>3. MotionTypes'
    BY <1>7 DEF AgvRecovery, MotionTypes, faultVars, dumperVars
  <2> QED  BY <2>1, <2>2, <2>3, QueuesUntouched
<1>8. CASE AgvNotify
  <2>1. MotionTypes' /\ HistTypes' /\ UNCHANGED <<cmdVars, evtVars>>
    BY <1>8, <1>b, <1>c DEF AgvNotify
  <2>2. TaskTypes' /\ CmdHeld' = CmdHeld /\ EvtHeld' = EvtHeld
    BY <1>8 DEF AgvNotify, TaskTypes, Goto, Issuers, AgvcpPlaces, AgvPlaces, Deciding,
                Holding, CmdHeld, EvtHeld
  <2> QED  BY <2>1, <2>2, QueuesUntouched
<1>9. CASE AgvDone
  <2>1. MotionTypes' /\ HistTypes' /\ UNCHANGED cmdVars
    BY <1>9, <1>b, <1>c DEF AgvDone
  <2>2. TaskTypes' /\ CmdHeld' = CmdHeld /\ EvtHeld' = 0 /\ EvtHeld = 1
    BY <1>9 DEF AgvDone, TaskTypes, Goto, Issuers, AgvcpPlaces, AgvPlaces, Deciding,
                Holding, CmdHeld, EvtHeld
  <2>3. QueueTypes' /\ EvtPoolConserved'
    BY <1>9, <2>1, <2>2 DEF AgvDone, QueueTypes, EvtPoolConserved, EvtHeld, cmdVars
  <2>4. CmdPoolConserved'
    BY <2>1, <2>2 DEF CmdPoolConserved, CmdHeld, cmdVars
  <2> QED  BY <2>1, <2>2, <2>3, <2>4
<1>10. CASE IssueStep("agv")
  BY <1>10, IssueStepIInv DEF Issuers
<1>11. CASE QueryStep("agv")
  BY <1>11, BatterySteps, BatteryKeeps DEF Issuers
<1> QED
  BY <1>1, <1>2, <1>3, <1>4, <1>5, <1>6, <1>7, <1>8, <1>9, <1>10, <1>11 DEF AgvStep

(* The wheels: what ends an action and what a fault does to it.            *)
LEMMA WheelStepIInv ==
    ASSUME IInv, WheelStep
    PROVE  IInv'
<1> USE DEF IInv, TypeOK
<1>a. UNCHANGED <<cmdVars, taskVars>> /\ HistTypes'
  BY DEF WheelStep, StraightEnd, TurnStop, TurnOver, FaultReport, FaultAct, HistTypes, envVars,
         histVars
<1> USE DEF agvstat, dumperVars, envVars, bmsVars, MotionRuns, Driving, NoFault, Lost
<1>1. CASE StraightEnd
  <2>1. \E e \in Events : PostEvt(e)
    BY <1>1 DEF StraightEnd, Over, Events, AllActions, Straights
  <2>2. MotionTypes'
    BY <1>1 DEF StraightEnd, MotionTypes, Styles
  <2> QED  BY <1>a, <2>1, <2>2, PostersKeep
<1>2. CASE TurnStop
  BY <1>a, <1>2, PostersKeep DEF TurnStop, MotionTypes, Styles
<1>3. CASE TurnOver
  <2>1. \E e \in Events : PostEvt(e)
    BY <1>3 DEF TurnOver, Over, Events, AllActions, MotionTypes
  <2>2. MotionTypes'
    BY <1>3 DEF TurnOver, MotionTypes, faultVars
  <2> QED  BY <1>a, <2>1, <2>2, PostersKeep
<1>4. CASE FaultReport
  <2>1. \E e \in Events : PostEvt(e)
    BY <1>4 DEF FaultReport, Error, Events, AllAlarms, MotionTypes
  <2>2. MotionTypes'
    BY <1>4 DEF FaultReport, MotionTypes, Styles
  <2> QED  BY <1>a, <2>1, <2>2, PostersKeep
<1>5. CASE FaultAct
  BY <1>a, <1>5, PostersKeep DEF FaultAct, MotionTypes, Styles
<1> QED  BY <1>1, <1>2, <1>3, <1>4, <1>5 DEF WheelStep

(* The dumper.                                                             *)
LEMMA DumperStepIInv ==
    ASSUME IInv, DumperStep
    PROVE  IInv'
<1> USE DEF IInv, TypeOK
<1>1. UNCHANGED <<cmdVars, taskVars>> /\ HistTypes'
  BY DEF DumperStep, DumperStarts, DumperGoesUp, DumperAtTop, DumperGoesDown, DumperHome,
         HistTypes, envVars, histVars
<1>2. MotionTypes'
  <2> USE DEF MotionTypes, agvstat, wheelVars, faultVars, envVars, bmsVars
  <2>1. CASE DumperStarts
    BY <2>1 DEF DumperStarts
  <2>2. CASE DumperGoesUp
    BY <2>2 DEF DumperGoesUp
  <2>3. CASE DumperAtTop
    BY <2>3 DEF DumperAtTop
  <2>4. CASE DumperGoesDown
    BY <2>4 DEF DumperGoesDown
  <2>5. CASE DumperHome
    BY <2>5 DEF DumperHome
  <2> QED  BY <2>1, <2>2, <2>3, <2>4, <2>5 DEF DumperStep
<1>3. UNCHANGED evtVars \/ PostEvt(Over("UNLOAD"))
  BY DEF DumperStep, DumperStarts, DumperGoesUp, DumperAtTop, DumperGoesDown, DumperHome
<1>4. Over("UNLOAD") \in Events
  BY DEF Over, Events, AllActions
<1> QED  BY <1>1, <1>2, <1>3, <1>4, PostersKeep

(* Code points, lost guidance and the watch on the battery.                *)
LEMMA EnvironmentIInv ==
    ASSUME IInv, Environment
    PROVE  IInv'
<1> USE DEF IInv, TypeOK
<1>0. CASE BmsStep
  BY <1>0, BatterySteps, BatteryKeeps
<1>a. CASE GuidanceLost \/ EncoderError \/ PointArrival
  <2>1. UNCHANGED <<cmdVars, taskVars>>
    BY <1>a DEF GuidanceLost, EncoderError, PointArrival
  <2>2. HistTypes'
    BY <1>a DEF GuidanceLost, EncoderError, PointArrival, HistTypes, envVars, histVars
  <2>3. MotionTypes'
    <3> USE DEF MotionTypes, agvstat, motionVars, wheelVars, faultVars, dumperVars, envVars, bmsVars
    <3>1. CASE GuidanceLost
      BY <3>1 DEF GuidanceLost
    <3>2. CASE EncoderError
      BY <3>2 DEF EncoderError
    <3>3. CASE PointArrival
      BY <3>3 DEF PointArrival
    <3> QED  BY <1>a, <3>1, <3>2, <3>3
  <2>4. \/ UNCHANGED evtVars \/ PostErrorAndArrival
        \/ PostEvt(Error("ENCODER")) \/ PostEvt(Arrival)
    BY <1>a DEF GuidanceLost, EncoderError, PointArrival
  <2>5. {Error("ENCODER"), Arrival} \subseteq Events
    BY DEF Error, Arrival, Events, AllAlarms
  <2> QED  BY <2>1, <2>2, <2>3, <2>4, <2>5, PostersKeep
<1> QED  BY <1>0, <1>a DEF Environment

(* The invariant is inductive.                                             *)
LEMMA NextIInv == IInv /\ [Next]_vars => IInv'
<1> SUFFICES ASSUME IInv, [Next]_vars PROVE IInv'
  OBVIOUS
<1>1. ASSUME NEW a \in Actions, Receive(a) PROVE IInv'
  BY <1>1, ReceiveIInv
<1>2. CASE AgvcpStep
  BY <1>2, AgvcpStepIInv
<1>3. CASE AgvStep
  BY <1>3, AgvStepIInv
<1>4. CASE WheelStep
  BY <1>4, WheelStepIInv
<1>5. CASE DumperStep
  BY <1>5, DumperStepIInv
<1>6. CASE Environment
  BY <1>6, EnvironmentIInv
<1>7. CASE UNCHANGED vars
  <2>1. UNCHANGED <<cmdVars, taskVars, evtVars>>
    BY <1>7 DEF vars
  <2>2. MotionTypes'
    BY <1>7 DEF vars, IInv, TypeOK, MotionTypes, agvstat, wheelVars, faultVars, dumperVars, envVars,
                bmsVars
  <2>3. HistTypes'
    BY <1>7 DEF vars, IInv, TypeOK, HistTypes, envVars, histVars
  <2> QED  BY <2>1, <2>2, <2>3, PostersKeep
<1> QED  BY <1>1, <1>2, <1>3, <1>4, <1>5, <1>6, <1>7 DEF Next

(* The invariant holds in every reachable state. *)
THEOREM InvariantHolds == Spec => []IInv
BY InitIInv, NextIInv, PTL DEF Spec

(* Every variable of the dispatcher keeps its type: no queue holds         *)
(* anything but commands or events, no count leaves its pool.              *)
THEOREM TypeCorrect == Spec => []TypeOK
BY InvariantHolds, PTL DEF IInv

(* No block of cmdmem is ever lost or released twice, so the posts whose   *)
(* result process_action_cmd() and issue_next_cmd() ignore never fail.     *)
THEOREM CmdPoolSafe == Spec => []CmdPoolConserved
BY InvariantHolds, PTL DEF IInv

(* No block of evtmem is ever lost or released twice by agv_task().        *)
THEOREM EvtPoolSafe == Spec => []EvtPoolConserved
BY InvariantHolds, PTL DEF IInv

(* Every variable of the dispatcher keeps its type and no block of either  *)
(* pool is lost or freed twice.                                            *)
THEOREM PoolsSafe == Spec => []PoolsConserved
<1>1. TypeOK /\ CmdPoolConserved /\ EvtPoolConserved => PoolsConserved
  BY DEF PoolsConserved
<1> QED  BY <1>1, TypeCorrect, CmdPoolSafe, EvtPoolSafe, PTL

-----------------------------------------------------------------------------
(* The places of a command, and the order in which agv starts them.         *)

HIDE DispatchAssumption

(* What makes OnePlace inductive: an issuer that has no command has the    *)
(* number 0, one that is done with a command has settled its outcome, and  *)
(* the commands not yet sent are in no place.                              *)
Settled ==
    /\ \A t \in Issuers : pc[t] \notin Deciding \cup {"issued"} => cur[t].id = 0
    /\ \A t \in Issuers : pc[t] = "issued" => outcome[cur[t].id] \notin {"pending", "unsent"}
    /\ \A i \in Ids : i > sent => outcome[i] = "unsent"

PlaceInv == OnePlace /\ Settled

-----------------------------------------------------------------------------
(* Appending a command adds its number to those of the queue.              *)
LEMMA AppendIds ==
    ASSUME NEW q \in Seq(Command), NEW c \in Command
    PROVE  /\ IdsOf(Append(q, c)) = IdsOf(q) \cup {c.id}
           /\ Distinct(q) /\ c.id \notin IdsOf(q) => Distinct(Append(q, c))
<1> DEFINE a == Append(q, c)
<1>1. /\ Len(a) = Len(q) + 1 /\ a[Len(q) + 1] = c /\ Len(q) \in Nat
      /\ \A i \in 1 .. Len(q) : a[i] = q[i]
      /\ DOMAIN a = 1 .. Len(q) + 1 /\ DOMAIN q = 1 .. Len(q)
  OBVIOUS
<1> HIDE DEF a
<1>2. IdsOf(a) = IdsOf(q) \cup {c.id}
  BY <1>1 DEF IdsOf
<1>3. Distinct(q) /\ c.id \notin IdsOf(q) => Distinct(a)
  BY <1>1 DEF IdsOf, Distinct
<1> QED  BY <1>2, <1>3 DEF a

(* So does putting it in front.                                            *)
LEMMA PrependIds ==
    ASSUME NEW q \in Seq(Command), NEW c \in Command
    PROVE  /\ IdsOf(<<c>> \o q) = IdsOf(q) \cup {c.id}
           /\ Distinct(q) /\ c.id \notin IdsOf(q) => Distinct(<<c>> \o q)
<1> DEFINE a == <<c>> \o q
<1>0. <<c>> \in Seq(Command) /\ Len(<<c>>) = 1 /\ <<c>>[1] = c /\ Len(q) \in Nat
  OBVIOUS
<1>1. /\ Len(a) = Len(q) + 1 /\ a[1] = c
      /\ \A i \in 1 .. Len(q) : a[i + 1] = q[i]
      /\ DOMAIN a = 1 .. Len(q) + 1 /\ DOMAIN q = 1 .. Len(q)
  BY <1>0
<1> HIDE DEF a
<1>2. \A i \in 2 .. Len(q) + 1 : i - 1 \in 1 .. Len(q) /\ a[i] = q[i - 1]
  BY <1>0, <1>1
<1>3. IdsOf(a) = IdsOf(q) \cup {c.id}
  <2>1. ASSUME NEW i \in DOMAIN a PROVE a[i].id \in IdsOf(q) \cup {c.id}
    <3>1. CASE i = 1
      BY <1>1, <3>1
    <3>2. CASE i # 1
      <4>1. i \in 2 .. Len(q) + 1
        BY <1>0, <1>1, <3>2
      <4> QED  BY <1>1, <1>2, <4>1 DEF IdsOf
    <3> QED  BY <3>1, <3>2
  <2>2. IdsOf(q) \cup {c.id} \subseteq IdsOf(a)
    BY <1>0, <1>1 DEF IdsOf
  <2> QED  BY <2>1, <2>2 DEF IdsOf
<1>4. ASSUME Distinct(q), c.id \notin IdsOf(q) PROVE Distinct(a)
  <2>1. \A i \in 2 .. Len(q) + 1 : a[i].id \in IdsOf(q)
    BY <1>1, <1>2 DEF IdsOf
  <2>2. \A i, j \in 2 .. Len(q) + 1 : a[i].id = a[j].id => i = j
    BY <1>0, <1>1, <1>2, <1>4 DEF Distinct
  <2>3. DOMAIN a = {1} \cup 2 .. Len(q) + 1
    BY <1>0, <1>1
  <2> QED  BY <1>1, <1>4, <2>1, <2>2, <2>3 DEF Distinct
<1> QED  BY <1>3, <1>4 DEF a

(* Taking the head out removes its number and no other.                    *)
LEMMA TailIds ==
    ASSUME NEW q \in Seq(Command), q # <<>>, Distinct(q)
    PROVE  /\ IdsOf(Tail(q)) = IdsOf(q) \ {Head(q).id} /\ Head(q).id \in IdsOf(q)
           /\ Distinct(Tail(q))
<1> DEFINE a == Tail(q)
<1>1. /\ Len(q) \in Nat /\ Len(q) > 0 /\ Len(a) = Len(q) - 1 /\ Head(q) = q[1]
      /\ \A i \in 1 .. Len(a) : a[i] = q[i + 1]
      /\ DOMAIN a = 1 .. Len(a) /\ DOMAIN q = 1 .. Len(q)
  OBVIOUS
<1> HIDE DEF a
<1>2. \A i \in 2 .. Len(q) : i - 1 \in 1 .. Len(a) /\ a[i - 1] = q[i]
  BY <1>1
<1>3. IdsOf(a) = IdsOf(q) \ {Head(q).id} /\ Head(q).id \in IdsOf(q)
  <2>1. \A i \in DOMAIN a : i + 1 \in DOMAIN q /\ a[i] = q[i + 1] /\ q[i + 1].id # q[1].id
    BY <1>1 DEF Distinct
  <2>2. \A i \in DOMAIN q : i # 1 => i - 1 \in DOMAIN a /\ a[i - 1] = q[i]
    BY <1>1, <1>2
  <2>3. 1 \in DOMAIN q
    BY <1>1
  <2> QED  BY <1>1, <2>1, <2>2, <2>3 DEF IdsOf
<1>4. Distinct(a)
  BY <1>1, SMTT(30) DEF Distinct
<1> QED  BY <1>3, <1>4 DEF a

-----------------------------------------------------------------------------
(* A step that moves no command between the queue and the issuers.         *)
LEMMA PlacesUntouched ==
    ASSUME PlaceInv, UNCHANGED <<mtcmdQ, cur, outcome, sent>>,
           \A t \in Issuers : /\ pc'[t] \in Deciding <=> pc[t] \in Deciding
                              /\ pc'[t] = "issued" <=> pc[t] = "issued"
    PROVE  PlaceInv'
<1> USE DEF PlaceInv
<1>2. Queued' = Queued /\ (Distinct(mtcmdQ))' = Distinct(mtcmdQ)
  BY DEF Queued, IdsOf, Distinct
<1>3. \A t \in Issuers : Hand(t)' = Hand(t)
  BY DEF Hand
<1>4. OnePlace'
  BY <1>2, <1>3 DEF OnePlace, InHand, Issuers
<1>5. \A t \in Issuers : pc'[t] \notin Deciding \cup {"issued"} => cur'[t].id = 0
  BY DEF Settled
<1>6. \A t \in Issuers : pc'[t] = "issued" => outcome'[cur'[t].id] \notin {"pending", "unsent"}
  BY DEF Settled
<1>7. \A i \in Ids : i > sent' => outcome'[i] = "unsent"
  BY DEF Settled
<1>8. Settled'
  BY <1>5, <1>6, <1>7 DEF Settled
<1> QED  BY <1>4, <1>8

(* An issuer whose command is answered no longer has it in hand.           *)
LEMMA PlacesAnswered ==
    ASSUME IInv, PlaceInv, UNCHANGED mtcmdQ,
           NEW t \in Issuers, NEW r, NEW what \in Outcomes \ {"pending", "unsent"},
           pc[t] \in {"issue", "delay", "accepted", "charge"}, Answer(t, r, what)
    PROVE  PlaceInv'
<1> DEFINE x == cur[t].id
<1>1. x \in Ids /\ outcome \in [Ids -> Outcomes] /\ pc \in [Issuers -> AgvcpPlaces \cup AgvPlaces]
  BY DEF IInv, TypeOK, TaskTypes, HistTypes, Deciding, Command
<1>2. /\ pc' = [pc EXCEPT ![t] = "issued"] /\ cur' = cur /\ sent' = sent
      /\ outcome' = [outcome EXCEPT ![x] = what]
  BY DEF Answer, Goto
<1>3. x \in Hand(t) /\ Hand(t) = {x} /\ Hand(t)' = {}
  BY <1>1, <1>2 DEF Hand, Deciding
<1>4. \A u \in Issuers \ {t} : Hand(u)' = Hand(u) /\ x \notin Hand(u)
  <2>1. \A u \in Issuers \ {t} : pc'[u] = pc[u] /\ (cur[u].id = x => x = 0)
    BY <1>1, <1>2 DEF PlaceInv, OnePlace, Issuers
  <2> QED  BY <1>1, <1>2, <2>1 DEF Hand, Ids
<1>5. InHand' = InHand \ {x} /\ x \in InHand
  BY <1>3, <1>4 DEF InHand, Issuers
<1>6. x \notin Queued /\ Queued' = Queued /\ (Distinct(mtcmdQ))' = Distinct(mtcmdQ)
  BY <1>5 DEF PlaceInv, OnePlace, Queued, IdsOf, Distinct
<1>7. {i \in Ids : outcome'[i] = "pending"} = {i \in Ids : outcome[i] = "pending"} \ {x}
  BY <1>1, <1>2
<1>8. OnePlace'
  BY <1>2, <1>5, <1>6, <1>7 DEF PlaceInv, OnePlace
<1>9. Settled'
  <2>1. \A u \in Issuers : pc'[u] \notin Deciding \cup {"issued"} => cur'[u].id = 0
    BY <1>1, <1>2 DEF PlaceInv, Settled
  <2>2. \A u \in Issuers : pc'[u] = "issued" => outcome'[cur'[u].id] \notin {"pending", "unsent"}
    <3>1. ASSUME NEW u \in Issuers, pc'[u] = "issued", u # t
          PROVE  outcome'[cur'[u].id] \notin {"pending", "unsent"}
      <4>1. pc[u] = "issued"
        BY <1>1, <1>2, <3>1
      <4>2. cur[u].id \in Ids /\ outcome[cur[u].id] \notin {"pending", "unsent"}
        BY <4>1 DEF IInv, TypeOK, TaskTypes, Command, PlaceInv, Settled
      <4> QED  BY <1>1, <1>2, <4>2
    <3>2. outcome'[cur'[t].id] \notin {"pending", "unsent"}
      BY <1>1, <1>2
    <3> QED  BY <3>1, <3>2
  <2>3. \A i \in Ids : i > sent' => outcome'[i] = "unsent"
    <3>1. outcome[x] = "pending"
      BY <1>1, <1>5 DEF PlaceInv, OnePlace
    <3>2. ~(x > sent)
      BY <1>1, <3>1 DEF PlaceInv, Settled
    <3> QED  BY <1>1, <1>2, <3>2 DEF PlaceInv, Settled
  <2> QED  BY <2>1, <2>2, <2>3 DEF Settled
<1> QED  BY <1>8, <1>9 DEF PlaceInv

(* Handing a command to issue_command().                                   *)
LEMMA IssueStepPlaces ==
    ASSUME IInv, PlaceInv, NEW t \in Issuers, IssueStep(t)
    PROVE  PlaceInv'
<1>1. ASSUME NEW l \in {"charge", "denied", "delay", "accepted"}, pc[t] = "issue", Goto(t, l),
             UNCHANGED <<mtcmdQ, cur, outcome, sent>>
      PROVE  PlaceInv'
  <2>1. \A u \in Issuers : /\ pc'[u] \in Deciding <=> pc[u] \in Deciding
                           /\ pc'[u] = "issued" <=> pc[u] = "issued"
    BY <1>1 DEF IInv, TypeOK, TaskTypes, Goto, Deciding
  <2> QED  BY <1>1, <2>1, PlacesUntouched
<1> USE DEF cmdVars, histVars
<1>2. CASE IssueCharge(t)
  BY <1>1, <1>2 DEF IssueCharge
<1>3. CASE IssueRefused(t)
  BY <1>3, PlacesAnswered DEF IssueRefused, Outcomes
<1>4. CASE IssueDenied(t)
  <2>1. CASE t = "agvcp"
    BY <1>1, <1>4, <2>1 DEF IssueDenied
  <2>2. CASE t # "agvcp"
    BY <1>4, <2>2, PlacesAnswered DEF IssueDenied, Outcomes
  <2> QED  BY <2>1, <2>2
<1>5. CASE IssueStop(t)
  BY <1>5, PlacesAnswered DEF IssueStop, Outcomes
<1>6. CASE IssueUnload(t)
  BY <1>6, PlacesAnswered DEF IssueUnload, Outcomes
<1>7. CASE IssueMove(t)
  BY <1>1, <1>7 DEF IssueMove
<1>8. CASE Commit(t)
  BY <1>8, PlacesAnswered DEF Commit, Outcomes
<1>9. CASE ChargeOver(t)
  BY <1>9, PlacesAnswered DEF ChargeOver, Outcomes
<1> QED  BY <1>2, <1>3, <1>4, <1>5, <1>6, <1>7, <1>8, <1>9 DEF IssueStep

(* An issuer that is done with an answered command forgets it.             *)
LEMMA PlacesForgotten ==
    ASSUME IInv, PlaceInv, UNCHANGED <<mtcmdQ, outcome, sent>>,
           NEW t \in Issuers, NEW l, l \notin Deciding \cup {"issued"}, pc[t] = "issued",
           Goto(t, l), cur' = [cur EXCEPT ![t] = NoCmd]
    PROVE  PlaceInv'
<1> USE DEF PlaceInv
<1>1. /\ pc' = [pc EXCEPT ![t] = l] /\ pc'[t] = l /\ cur'[t] = NoCmd
      /\ \A u \in Issuers : u # t => pc'[u] = pc[u] /\ cur'[u] = cur[u]
  BY DEF IInv, TypeOK, TaskTypes, Goto
<1>2. Queued' = Queued /\ (Distinct(mtcmdQ))' = Distinct(mtcmdQ)
  BY DEF Queued, IdsOf, Distinct
<1>3. \A u \in Issuers : Hand(u)' = Hand(u)
  BY <1>1 DEF Hand, Deciding
<1>4. cur'["agv"].id = cur'["agvcp"].id => cur'["agv"].id = 0
  BY <1>1 DEF OnePlace, NoCmd, Issuers
<1>5. OnePlace'
  BY <1>2, <1>3, <1>4 DEF OnePlace, InHand, Issuers
<1>6. Settled'
  BY <1>1 DEF Settled, NoCmd
<1> QED  BY <1>5, <1>6

(* Enqueue() puts a command that is not queued into the queue, or answers  *)
(* that there is no memory and leaves the queue alone.                     *)
LEMMA EnqueuePlaces ==
    ASSUME IInv, Distinct(mtcmdQ), NEW c \in Command, Enqueue(c), c.id \notin Queued
    PROVE  \/ /\ mtcmdQ' = mtcmdQ
              /\ outcome' = [outcome EXCEPT ![c.id] = "nomem"]
           \/ /\ IdsOf(mtcmdQ') = Queued \cup {c.id} /\ Distinct(mtcmdQ')
              /\ outcome' = [outcome EXCEPT ![c.id] = "pending"]
<1>1. CASE cmdfree = 0
  BY <1>1 DEF Enqueue, cmdVars
<1>2. CASE cmdfree # 0
  <2>1. mtcmdQ \in Seq(Command) /\ Len(mtcmdQ) < CmdBlocks
    BY <1>2 DEF IInv, TypeOK, QueueTypes, CmdPoolConserved
  <2>2. mtcmdQ' = <<c>> \o mtcmdQ \/ mtcmdQ' = Append(mtcmdQ, c)
    BY <1>2, <2>1 DEF Enqueue, PostCmd, PostCmdFront
  <2>3. IdsOf(mtcmdQ') = Queued \cup {c.id} /\ Distinct(mtcmdQ')
    BY <2>1, <2>2, AppendIds, PrependIds DEF Queued
  <2> QED  BY <1>2, <2>3 DEF Enqueue
<1> QED  BY <1>1, <1>2

(* A command the vehicle knows is not one that is yet to be sent.          *)
LEMMA NewIsNowhere ==
    ASSUME IInv, PlaceInv, sent < MaxCmds
    PROVE  /\ sent + 1 \in Ids /\ outcome[sent + 1] = "unsent"
           /\ sent + 1 \notin Queued /\ sent + 1 \notin InHand
           /\ \A t \in Issuers : cur[t].id # sent + 1
<1>1. sent \in Nat /\ sent + 1 \in Ids /\ sent + 1 # 0 /\ sent + 1 > sent
  BY DispatchAssumption DEF IInv, TypeOK, HistTypes, Ids
<1>2. outcome[sent + 1] = "unsent"
  BY <1>1 DEF PlaceInv, Settled
<1>3. sent + 1 \notin Queued /\ sent + 1 \notin InHand
  BY <1>1, <1>2 DEF PlaceInv, OnePlace
<1>4. ASSUME NEW t \in Issuers, cur[t].id = sent + 1 PROVE FALSE
  <2>1. CASE pc[t] \in Deciding
    BY <1>3, <1>4, <2>1 DEF InHand, Hand, Issuers
  <2>2. CASE pc[t] = "issued"
    BY <1>2, <1>4, <2>2 DEF PlaceInv, Settled
  <2>3. CASE pc[t] \notin Deciding \cup {"issued"}
    BY <1>1, <1>4, <2>3 DEF PlaceInv, Settled
  <2> QED  BY <2>1, <2>2, <2>3
<1> QED  BY <1>1, <1>2, <1>3, <1>4

(* process_action_cmd() takes a new command in hand, queues it or loses it *)
(* for want of memory.                                                     *)
LEMMA ReceivePlaces ==
    ASSUME IInv, PlaceInv, NEW a \in Actions, Receive(a)
    PROVE  PlaceInv'
<1> DEFINE c == [id |-> sent + 1, act |-> a]
<1> USE DEF PlaceInv
<1>1. sent' = sent + 1 /\ sent \in Nat /\ pc["agvcp"] = "idle" /\ sent < MaxCmds
  BY DEF Receive, IInv, TypeOK, HistTypes
<1>2. c \in Command
  BY <1>1, NewIsNowhere, DispatchAssumption DEF Command
<1>3. \A i \in Ids : i > sent + 1 => i > sent /\ i # sent + 1
  BY <1>1 DEF Ids
<1>4. cur["agvcp"].id = 0 /\ Hand("agvcp") = {}
  BY <1>1 DEF Settled, Hand, Deciding, Issuers
<1>5. outcome \in [Ids -> Outcomes]
  BY DEF IInv, TypeOK, HistTypes
<1>6. CASE Enqueue(c) /\ UNCHANGED <<pc, cur>>
  <2>1. \A t \in Issuers : Hand(t)' = Hand(t)
    BY <1>6 DEF Hand
  <2>2. InHand' = InHand
    BY <2>1 DEF InHand, Issuers
  <2>3. (Distinct(mtcmdQ))' /\ (Queued \cap InHand)' = {}
        /\ {i \in Ids : outcome'[i] = "pending"} = (Queued \cup InHand)'
        /\ \A i \in Ids \ {sent + 1} : outcome'[i] = outcome[i]
    <3>1. CASE mtcmdQ' = mtcmdQ /\ outcome' = [outcome EXCEPT ![c.id] = "nomem"]
      <4>1. Queued' = Queued /\ (Distinct(mtcmdQ))'
        BY <3>1 DEF OnePlace, Queued, IdsOf, Distinct
      <4> QED  BY <1>1, <1>5, <2>2, <3>1, <4>1, NewIsNowhere DEF OnePlace
    <3>2. CASE /\ IdsOf(mtcmdQ') = Queued \cup {c.id} /\ Distinct(mtcmdQ')
               /\ outcome' = [outcome EXCEPT ![c.id] = "pending"]
      <4>1. Queued' = Queued \cup {c.id} /\ (Distinct(mtcmdQ))'
        BY <3>2 DEF Queued, IdsOf, Distinct
      <4> QED  BY <1>1, <1>5, <2>2, <3>2, <4>1, NewIsNowhere DEF OnePlace
    <3> QED  BY <1>1, <1>2, <1>6, <3>1, <3>2, EnqueuePlaces, NewIsNowhere DEF OnePlace
  <2>4. OnePlace'
    BY <1>6, <2>3 DEF OnePlace
  <2>5. Settled'
    <3>1. \A t \in Issuers : pc'[t] \notin Deciding \cup {"issued"} => cur'[t].id = 0
      BY <1>6 DEF Settled
    <3>2. ASSUME NEW t \in Issuers, pc'[t] = "issued"
          PROVE  outcome'[cur'[t].id] \notin {"pending", "unsent"}
      <4>1. cur[t].id \in Ids /\ cur[t].id # sent + 1
        BY <1>1, <1>6, <3>2, NewIsNowhere DEF IInv, TypeOK, TaskTypes, Command
      <4> QED  BY <1>6, <2>3, <3>2, <4>1 DEF Settled
    <3>3. \A i \in Ids : i > sent' => outcome'[i] = "unsent"
      BY <1>1, <1>3, <2>3 DEF Settled
    <3> QED  BY <3>1, <3>2, <3>3 DEF Settled
  <2> QED  BY <2>4, <2>5
<1>7. CASE /\ Goto("agvcp", "issue") /\ cur' = [cur EXCEPT !["agvcp"] = c]
           /\ outcome' = [outcome EXCEPT ![c.id] = "pending"] /\ UNCHANGED cmdVars
  <2>1. /\ pc'["agvcp"] = "issue" /\ cur'["agvcp"] = c
        /\ pc'["agv"] = pc["agv"] /\ cur'["agv"] = cur["agv"]
    BY <1>7 DEF Goto, IInv, TypeOK, TaskTypes, Issuers
  <2>2. Hand("agvcp")' = {sent + 1} /\ Hand("agv")' = Hand("agv")
    BY <2>1 DEF Hand, Deciding
  <2>3. InHand' = InHand \cup {sent + 1}
    BY <1>4, <2>2 DEF InHand
  <2>4. Queued' = Queued /\ (Distinct(mtcmdQ))'
    BY <1>7 DEF OnePlace, Queued, IdsOf, Distinct, cmdVars
  <2>5. {i \in Ids : outcome'[i] = "pending"} = Queued' \cup InHand'
    BY <1>1, <1>5, <1>7, <2>3, <2>4, NewIsNowhere DEF OnePlace
  <2>6. cur'["agv"].id # cur'["agvcp"].id
    BY <1>1, <2>1, NewIsNowhere DEF Issuers
  <2>7. Queued' \cap InHand' = {}
    BY <1>1, <2>3, <2>4, NewIsNowhere DEF OnePlace
  <2>8. OnePlace'
    BY <2>4, <2>5, <2>6, <2>7 DEF OnePlace
  <2>9. Settled'
    <3>1. \A t \in Issuers : pc'[t] \notin Deciding \cup {"issued"} => cur'[t].id = 0
      BY <2>1 DEF Settled, Issuers, Deciding
    <3>2. ASSUME NEW t \in Issuers, pc'[t] = "issued"
          PROVE  outcome'[cur'[t].id] \notin {"pending", "unsent"}
      <4>1. t = "agv" /\ pc["agv"] = "issued"
        BY <2>1, <3>2 DEF Issuers
      <4>2. cur["agv"].id \in Ids /\ cur["agv"].id # sent + 1
        BY <1>1, <4>1, NewIsNowhere DEF IInv, TypeOK, TaskTypes, Command, Issuers
      <4> QED  BY <1>5, <1>7, <2>1, <4>1, <4>2 DEF Settled, Issuers
    <3>3. \A i \in Ids : i > sent' => outcome'[i] = "unsent"
      BY <1>1, <1>3, <1>5, <1>7 DEF Settled
    <3> QED  BY <3>1, <3>2, <3>3 DEF Settled
  <2> QED  BY <2>8, <2>9
<1> QED  BY <1>6, <1>7 DEF Receive

(* process_action_cmd() queues the command that was refused as busy.       *)
LEMMA AppendDeniedPlaces ==
    ASSUME IInv, PlaceInv, AppendDenied
    PROVE  PlaceInv'
<1> DEFINE c == cur["agvcp"]
<1> USE DEF PlaceInv
<1>1. /\ c \in Command /\ c.id \in Ids /\ c.id # 0 /\ pc["agvcp"] = "denied"
      /\ outcome \in [Ids -> Outcomes]
  BY DEF AppendDenied, IInv, TypeOK, TaskTypes, HistTypes, Deciding, Issuers, Command, Ids
<1>2. /\ pc'["agvcp"] = "idle" /\ cur'["agvcp"] = NoCmd
      /\ pc'["agv"] = pc["agv"] /\ cur'["agv"] = cur["agv"] /\ sent' = sent /\ Enqueue(c)
  BY DEF AppendDenied, Goto, IInv, TypeOK, TaskTypes, Issuers
<1>3. Hand("agvcp") = {c.id} /\ Hand("agvcp")' = {} /\ Hand("agv")' = Hand("agv")
  BY <1>1, <1>2 DEF Hand, Deciding
<1>4. c.id \in InHand /\ c.id \notin Queued /\ outcome[c.id] = "pending"
  BY <1>1, <1>3 DEF InHand, OnePlace
<1>5. cur["agv"].id # c.id
  BY <1>1 DEF OnePlace
<1>6. InHand' = InHand \ {c.id}
  BY <1>3, <1>5 DEF InHand, Hand
<1>7. /\ (Distinct(mtcmdQ))' /\ Queued' \cap InHand' = {}
      /\ {i \in Ids : outcome'[i] = "pending"} = Queued' \cup InHand'
      /\ outcome'[c.id] # "unsent" /\ \A i \in Ids \ {c.id} : outcome'[i] = outcome[i]
  <2>1. CASE mtcmdQ' = mtcmdQ /\ outcome' = [outcome EXCEPT ![c.id] = "nomem"]
    <3>1. Queued' = Queued /\ (Distinct(mtcmdQ))'
      BY <2>1 DEF OnePlace, Queued, IdsOf, Distinct
    <3> QED  BY <1>1, <1>4, <1>6, <2>1, <3>1 DEF OnePlace
  <2>2. CASE /\ IdsOf(mtcmdQ') = Queued \cup {c.id} /\ Distinct(mtcmdQ')
             /\ outcome' = [outcome EXCEPT ![c.id] = "pending"]
    <3>1. Queued' = Queued \cup {c.id} /\ (Distinct(mtcmdQ))'
      BY <2>2 DEF Queued, IdsOf, Distinct
    <3> QED  BY <1>1, <1>4, <1>6, <2>2, <3>1 DEF OnePlace
  <2>3. Distinct(mtcmdQ)
    BY DEF OnePlace
  <2> QED  BY <1>1, <1>2, <1>4, <2>1, <2>2, <2>3, EnqueuePlaces
<1>8. OnePlace'
  <2>1. cur'["agv"].id = cur'["agvcp"].id => cur'["agv"].id = 0
    BY <1>2 DEF NoCmd
  <2> QED  BY <1>7, <2>1 DEF OnePlace
<1>9. Settled'
  <2>1. \A t \in Issuers : pc'[t] \notin Deciding \cup {"issued"} => cur'[t].id = 0
    BY <1>2 DEF Settled, Issuers, NoCmd
  <2>2. ASSUME NEW t \in Issuers, pc'[t] = "issued"
        PROVE  outcome'[cur'[t].id] \notin {"pending", "unsent"}
    <3>1. t = "agv" /\ pc["agv"] = "issued"
      BY <1>2, <2>2 DEF Issuers
    <3>2. cur["agv"].id \in Ids
      BY <3>1 DEF IInv, TypeOK, TaskTypes, Command, Issuers
    <3> QED  BY <1>2, <1>5, <1>7, <3>1, <3>2 DEF Settled, Issuers
  <2>3. \A i \in Ids : i > sent' => outcome'[i] = "unsent"
    BY <1>2, <1>4, <1>7 DEF Settled
  <2> QED  BY <2>1, <2>2, <2>3 DEF Settled
<1> QED  BY <1>8, <1>9

(* The watch on the battery moves no command.                              *)
LEMMA BatteryPlaces ==
    ASSUME PlaceInv, BatteryStep
    PROVE  PlaceInv'
BY BatteryLeaves, PlacesUntouched DEF cmdVars, taskVars, histVars

(* The steps of agvcp.                                                     *)
LEMMA AgvcpStepPlaces ==
    ASSUME IInv, PlaceInv, AgvcpStep
    PROVE  PlaceInv'
<1>1. CASE AgvcpIssued
  <2>1. "idle" \notin Deciding \cup {"issued"} /\ "agvcp" \in Issuers
    BY DEF Deciding, Issuers
  <2> QED  BY <1>1, <2>1, PlacesForgotten DEF AgvcpIssued, cmdVars, histVars
<1> QED
  BY <1>1, AppendDeniedPlaces, IssueStepPlaces, BatterySteps, BatteryPlaces DEF AgvcpStep, Issuers

(* issue_next_cmd() takes the head of the queue in hand.                   *)
LEMMA AgvPopPlaces ==
    ASSUME IInv, PlaceInv, AgvPop, mtcmdQ # <<>>
    PROVE  PlaceInv'
<1> DEFINE c == Head(mtcmdQ)
<1> USE DEF PlaceInv
<1>0. mtcmdQ \in Seq(Command) /\ pc["agv"] = "handle" /\ UNCHANGED histVars
  BY DEF AgvPop, IInv, TypeOK, QueueTypes
<1>1. /\ mtcmdQ \in Seq(Command) /\ c \in Command /\ c.id \in Ids /\ c.id # 0
      /\ pc["agv"] = "handle" /\ UNCHANGED histVars
  <2>1. c \in Command
    BY <1>0
  <2> QED  BY <1>0, <2>1, DispatchAssumption DEF Command, Ids
<1>2. \E l \in {"issue", "postback"} :
          /\ pc' = [pc EXCEPT !["agv"] = l] /\ cur' = [cur EXCEPT !["agv"] = c]
          /\ mtcmdQ' = Tail(mtcmdQ)
  BY DEF AgvPop, Goto
<1>3. /\ pc'["agv"] \in {"issue", "postback"} /\ cur'["agv"] = c
      /\ pc'["agvcp"] = pc["agvcp"] /\ cur'["agvcp"] = cur["agvcp"]
  BY <1>2 DEF IInv, TypeOK, TaskTypes, Issuers
<1>4. Queued' = Queued \ {c.id} /\ c.id \in Queued /\ (Distinct(mtcmdQ))'
  <2>1. IdsOf(mtcmdQ') = IdsOf(mtcmdQ) \ {c.id} /\ c.id \in IdsOf(mtcmdQ) /\ Distinct(mtcmdQ')
    BY <1>1, <1>2, TailIds DEF OnePlace
  <2> QED  BY <2>1 DEF Queued, IdsOf, Distinct
<1>5. Hand("agv") = {} /\ Hand("agv")' = {c.id} /\ Hand("agvcp")' = Hand("agvcp")
  BY <1>1, <1>3 DEF Hand, Deciding
<1>6. InHand' = InHand \cup {c.id}
  BY <1>5 DEF InHand
<1>7. cur["agvcp"].id # c.id
  <2>1. CASE pc["agvcp"] \in Deciding
    BY <1>4, <2>1 DEF OnePlace, InHand, Hand
  <2>2. CASE pc["agvcp"] = "issued"
    BY <1>1, <1>4, <2>2 DEF OnePlace, Settled, Issuers
  <2>3. CASE pc["agvcp"] \notin Deciding \cup {"issued"}
    BY <1>1, <2>3 DEF Settled, Issuers
  <2> QED  BY <2>1, <2>2, <2>3
<1>8. OnePlace'
  BY <1>1, <1>3, <1>4, <1>6, <1>7 DEF OnePlace, histVars
<1>9. Settled'
  BY <1>1, <1>3 DEF Settled, Issuers, Deciding, histVars
<1> QED  BY <1>8, <1>9

(* issue_next_cmd() puts a command it may not issue yet back in front.     *)
LEMMA AgvPostBackPlaces ==
    ASSUME IInv, PlaceInv, AgvPostBack
    PROVE  PlaceInv'
<1> DEFINE c == cur["agv"]
<1> USE DEF PlaceInv
<1>1. /\ mtcmdQ \in Seq(Command) /\ c \in Command /\ c.id \in Ids /\ c.id # 0
      /\ pc["agv"] = "postback" /\ UNCHANGED histVars
  BY DEF AgvPostBack, IInv, TypeOK, QueueTypes, TaskTypes, Deciding, Issuers, Command, Ids
<1>2. Len(mtcmdQ) < CmdBlocks
  BY <1>1, DispatchAssumption DEF IInv, TypeOK, QueueTypes, CmdPoolConserved, Holding
<1>3. /\ pc'["agv"] = "state" /\ cur'["agv"] = NoCmd
      /\ pc'["agvcp"] = pc["agvcp"] /\ cur'["agvcp"] = cur["agvcp"]
      /\ mtcmdQ' = <<c>> \o mtcmdQ
  BY <1>2 DEF AgvPostBack, PostCmdFront, Goto, IInv, TypeOK, TaskTypes, Issuers
<1>4. Hand("agv") = {c.id} /\ Hand("agv")' = {} /\ Hand("agvcp")' = Hand("agvcp")
  BY <1>1, <1>3 DEF Hand, Deciding
<1>5. c.id \in InHand /\ c.id \notin Queued /\ cur["agvcp"].id # c.id
  BY <1>1, <1>4 DEF InHand, OnePlace
<1>6. InHand' = InHand \ {c.id}
  BY <1>4, <1>5 DEF InHand, Hand
<1>7. Queued' = Queued \cup {c.id} /\ (Distinct(mtcmdQ))'
  <2>1. IdsOf(mtcmdQ') = IdsOf(mtcmdQ) \cup {c.id} /\ Distinct(mtcmdQ')
    BY <1>1, <1>3, <1>5, PrependIds DEF OnePlace, Queued
  <2> QED  BY <2>1 DEF Queued, IdsOf, Distinct
<1>8. OnePlace'
  BY <1>1, <1>3, <1>5, <1>6, <1>7 DEF OnePlace, NoCmd, histVars
<1>9. Settled'
  BY <1>1, <1>3 DEF Settled, Issuers, NoCmd, histVars
<1> QED  BY <1>8, <1>9

(* The steps of agv.                                                       *)
LEMMA AgvStepPlaces ==
    ASSUME IInv, PlaceInv, AgvStep
    PROVE  PlaceInv'
<1>1. ASSUME NEW k \in AgvPlaces, NEW l \in AgvPlaces, pc["agv"] = k, Goto("agv", l),
             k \notin Deciding \cup {"issued"}, l \notin Deciding \cup {"issued"},
             UNCHANGED <<mtcmdQ, cur, outcome, sent>>
      PROVE  PlaceInv'
  <2>1. \A u \in Issuers : /\ pc'[u] \in Deciding <=> pc[u] \in Deciding
                           /\ pc'[u] = "issued" <=> pc[u] = "issued"
    BY <1>1 DEF IInv, TypeOK, TaskTypes, Goto
  <2> QED  BY <1>1, <2>1, PlacesUntouched
<1> DEFINE Quiets == {"idle", "handle", "state", "notify", "done"}
<1>2. Quiets \subseteq AgvPlaces /\ Quiets \cap (Deciding \cup {"issued"}) = {}
  BY DEF AgvPlaces, Deciding
<1> USE DEF cmdVars, histVars
<1>3. CASE AgvPend
  BY <1>1, <1>2, <1>3 DEF AgvPend
<1>4. CASE AgvPop
  <2>1. CASE mtcmdQ = <<>>
    BY <1>1, <1>2, <1>4, <2>1 DEF AgvPop
  <2> QED  BY <1>4, <2>1, AgvPopPlaces
<1>5. CASE AgvPostBack
  BY <1>5, AgvPostBackPlaces
<1>6. CASE AgvFree
  BY <1>2, <1>6, PlacesForgotten DEF AgvFree, Issuers
<1>7. CASE AgvState
  BY <1>1, <1>2, <1>7 DEF AgvState
<1>8. CASE AgvError
  BY <1>1, <1>2, <1>8 DEF AgvError
<1>9. CASE AgvRecovery
  BY <1>1, <1>2, <1>9 DEF AgvRecovery
<1>10. CASE AgvNotify
  BY <1>1, <1>2, <1>10 DEF AgvNotify
<1>11. CASE AgvDone
  BY <1>1, <1>2, <1>11 DEF AgvDone
<1>12. CASE IssueStep("agv")
  BY <1>12, IssueStepPlaces DEF Issuers
<1>13. CASE QueryStep("agv")
  BY <1>13, BatterySteps, BatteryPlaces DEF Issuers
<1> QED
  BY <1>3, <1>4, <1>5, <1>6, <1>7, <1>8, <1>9, <1>10, <1>11, <1>12, <1>13 DEF AgvStep

(* Initially no command is anywhere.                                       *)
LEMMA InitPlaces == Init => PlaceInv
<1> SUFFICES ASSUME Init PROVE PlaceInv
  OBVIOUS
<1>1. Queued = {} /\ Distinct(mtcmdQ)
  BY DEF Init, Queued, IdsOf, Distinct
<1>2. InHand = {}
  BY DEF Init, InHand, Hand, Deciding, Issuers
<1>3. OnePlace
  BY <1>1, <1>2 DEF Init, OnePlace, NoCmd, Issuers
<1>4. Settled
  BY DEF Init, Settled, NoCmd, Deciding
<1> QED  BY <1>3, <1>4 DEF PlaceInv

(* With the invariant of the pools, OnePlace is inductive.                 *)
LEMMA NextPlaces == IInv /\ PlaceInv /\ [Next]_vars => PlaceInv'
<1> SUFFICES ASSUME IInv, PlaceInv, [Next]_vars PROVE PlaceInv'
  OBVIOUS
<1>1. ASSUME UNCHANGED <<mtcmdQ, cur, pc, outcome, sent>> PROVE PlaceInv'
  BY <1>1, PlacesUntouched
<1> USE DEF cmdVars, taskVars, histVars
<1>2. ASSUME NEW a \in Actions, Receive(a) PROVE PlaceInv'
  BY <1>2, ReceivePlaces
<1>3. CASE AgvcpStep
  BY <1>3, AgvcpStepPlaces
<1>4. CASE AgvStep
  BY <1>4, AgvStepPlaces
<1>5. CASE WheelStep
  BY <1>1, <1>5 DEF WheelStep, StraightEnd, TurnStop, TurnOver, FaultReport, FaultAct
<1>6. CASE DumperStep
  BY <1>1, <1>6 DEF DumperStep, DumperStarts, DumperGoesUp, DumperAtTop, DumperGoesDown, DumperHome
<1>7. CASE Environment
  BY <1>1, <1>7, BatterySteps, BatteryPlaces DEF Environment, GuidanceLost, EncoderError, PointArrival
<1>8. CASE UNCHANGED vars
  BY <1>1, <1>8 DEF vars
<1> QED  BY <1>2, <1>3, <1>4, <1>5, <1>6, <1>7, <1>8 DEF Next

(* Whatever the interleaving of agvcp and agv, and whatever the queue and  *)
(* the pools can hold, a command that is still to be issued is in one      *)
(* place, and one that was issued or given up in none.                     *)
THEOREM OnePlaceHolds == Spec => []OnePlace
<1>1. Init => IInv /\ PlaceInv
  BY InitIInv, InitPlaces
<1>2. IInv /\ PlaceInv /\ [Next]_vars => (IInv /\ PlaceInv)'
  BY NextIInv, NextPlaces
<1>3. IInv /\ PlaceInv => OnePlace
  BY DEF PlaceInv
<1> QED  BY <1>1, <1>2, <1>3, PTL DEF Spec

-----------------------------------------------------------------------------
(* The order of the commands.  A STOP goes to the front, so nothing is     *)
(* said of what stands behind it; behind any other command everything is   *)
(* later.                                                                  *)
Ordered(q) ==
    \A i, j \in DOMAIN q : i < j /\ q[i].act # "STOP" => q[i].id < q[j].id

(* The queue is in order, what agv has in hand is earlier than all of it,  *)
(* and what agvcp has in hand is the latest command of all.                *)
QueueInOrder == Ordered(mtcmdQ)
HeldFirst ==
    pc["agv"] \in Deciding /\ cur["agv"].act # "STOP" => \A n \in Queued : cur["agv"].id < n
NewestAtAgvcp == pc["agvcp"] \in Deciding => cur["agvcp"].id = sent
Chargers == \A t \in Issuers : pc[t] = "charge" => cur[t].act # "STOP"

OrderInv == QueueInOrder /\ HeldFirst /\ NewestAtAgvcp /\ Chargers

(* A later command may be appended.                                        *)
LEMMA AppendOrdered ==
    ASSUME NEW q \in Seq(Command), NEW c \in Command, Ordered(q), \A n \in IdsOf(q) : n < c.id
    PROVE  Ordered(Append(q, c))
<1> DEFINE a == Append(q, c)
<1>1. /\ Len(q) \in Nat /\ DOMAIN q = 1 .. Len(q) /\ DOMAIN a = 1 .. Len(q) + 1
      /\ a[Len(q) + 1] = c /\ \A i \in 1 .. Len(q) : a[i] = q[i]
  OBVIOUS
<1> HIDE DEF a
<1>2. Ordered(a)
  <2> SUFFICES ASSUME NEW i \in 1 .. Len(q) + 1, NEW j \in 1 .. Len(q) + 1, i < j,
                      a[i].act # "STOP"
               PROVE  a[i].id < a[j].id
    BY <1>1 DEF Ordered
  <2>1. i \in 1 .. Len(q) /\ q[i].id \in IdsOf(q)
    BY <1>1 DEF IdsOf
  <2>2. CASE j = Len(q) + 1
    BY <1>1, <2>1, <2>2
  <2>3. CASE j # Len(q) + 1
    <3>1. j \in 1 .. Len(q)
      BY <1>1, <2>3
    <3> QED  BY <1>1, <2>1, <3>1 DEF Ordered
  <2> QED  BY <2>2, <2>3
<1> QED  BY <1>2 DEF a

(* A STOP or an earlier command may be put in front.                       *)
LEMMA PrependOrdered ==
    ASSUME NEW q \in Seq(Command), NEW c \in Command, Ordered(q),
           c.act = "STOP" \/ \A n \in IdsOf(q) : c.id < n
    PROVE  Ordered(<<c>> \o q)
<1> DEFINE a == <<c>> \o q
<1>0. <<c>> \in Seq(Command) /\ Len(<<c>>) = 1 /\ <<c>>[1] = c /\ Len(q) \in Nat
  OBVIOUS
<1>1. /\ DOMAIN q = 1 .. Len(q) /\ DOMAIN a = 1 .. Len(q) + 1 /\ a[1] = c
      /\ \A i \in 1 .. Len(q) : a[i + 1] = q[i]
  BY <1>0
<1> HIDE DEF a
<1>2. \A i \in 2 .. Len(q) + 1 : i - 1 \in 1 .. Len(q) /\ a[i] = q[i - 1]
  BY <1>0, <1>1
<1>3. Ordered(a)
  <2> SUFFICES ASSUME NEW i \in 1 .. Len(q) + 1, NEW j \in 1 .. Len(q) + 1, i < j,
                      a[i].act # "STOP"
               PROVE  a[i].id < a[j].id
    BY <1>1 DEF Ordered
  <2>1. j \in 2 .. Len(q) + 1 /\ j - 1 \in 1 .. Len(q) /\ a[j] = q[j - 1]
    BY <1>0, <1>2
  <2>2. CASE i = 1
    BY <1>1, <2>1, <2>2 DEF IdsOf
  <2>3. CASE i # 1
    <3>1. i \in 2 .. Len(q) + 1 /\ i - 1 \in 1 .. Len(q) /\ a[i] = q[i - 1] /\ i - 1 < j - 1
      BY <1>0, <1>2, <2>3
    <3> QED  BY <1>1, <2>1, <3>1 DEF Ordered
  <2> QED  BY <2>2, <2>3
<1> QED  BY <1>3 DEF a

(* The head, unless it is a STOP, is earlier than the rest.                *)
LEMMA TailOrdered ==
    ASSUME NEW q \in Seq(Command), q # <<>>, Ordered(q)
    PROVE  /\ Ordered(Tail(q))
           /\ Head(q).act # "STOP" => \A n \in IdsOf(Tail(q)) : Head(q).id < n
<1> DEFINE a == Tail(q)
<1>1. /\ Len(q) \in Nat /\ Len(q) > 0 /\ Len(a) = Len(q) - 1 /\ Head(q) = q[1]
      /\ \A i \in 1 .. Len(a) : a[i] = q[i + 1]
      /\ DOMAIN a = 1 .. Len(a) /\ DOMAIN q = 1 .. Len(q)
  OBVIOUS
<1> HIDE DEF a
<1>2. \A i \in DOMAIN a : i \in Nat /\ i + 1 \in DOMAIN q /\ 1 < i + 1 /\ a[i] = q[i + 1]
  BY <1>1
<1>3. Ordered(a)
  <2> SUFFICES ASSUME NEW i \in DOMAIN a, NEW j \in DOMAIN a, i < j, a[i].act # "STOP"
               PROVE  a[i].id < a[j].id
    BY DEF Ordered
  <2>1. i + 1 < j + 1
    BY <1>2
  <2> QED  BY <1>2, <2>1 DEF Ordered
<1>4. Head(q).act # "STOP" => \A n \in IdsOf(a) : Head(q).id < n
  <2>1. 1 \in DOMAIN q
    BY <1>1
  <2> QED  BY <1>1, <1>2, <2>1 DEF Ordered, IdsOf
<1> QED  BY <1>3, <1>4 DEF a

(* A command that is queued or in hand has been sent.                      *)
LEMMA KnownIds ==
    ASSUME IInv, PlaceInv
    PROVE  sent \in Nat /\ \A n \in Queued \cup InHand : n \in Ids /\ n <= sent
<1>1. sent \in Nat /\ \A n \in Ids : n \in Nat
  BY DispatchAssumption DEF IInv, TypeOK, HistTypes, Ids
<1> QED  BY <1>1 DEF PlaceInv, OnePlace, Settled

(* A step that neither moves a command nor puts one in hand.               *)
LEMMA OrderUntouched ==
    ASSUME OrderInv, UNCHANGED <<mtcmdQ, sent>>,
           \A t \in Issuers : /\ pc'[t] \in Deciding => pc[t] \in Deciding /\ cur'[t] = cur[t]
                              /\ pc'[t] = "charge" => pc[t] = "charge" \/ cur[t].act # "STOP"
    PROVE  OrderInv'
<1>1. Queued' = Queued /\ QueueInOrder'
  BY DEF OrderInv, QueueInOrder, Ordered, Queued, IdsOf
<1>2. HeldFirst' /\ NewestAtAgvcp'
  BY <1>1 DEF OrderInv, HeldFirst, NewestAtAgvcp, Issuers
<1>3. Chargers'
  BY DEF OrderInv, Chargers, Deciding
<1> QED  BY <1>1, <1>2, <1>3 DEF OrderInv

(* Handing a command to issue_command() moves none.                        *)
LEMMA IssueStepOrder ==
    ASSUME IInv, OrderInv, NEW t \in Issuers, IssueStep(t)
    PROVE  OrderInv'
<1>1. ASSUME NEW l \in {"charge", "denied", "delay", "accepted", "issued"},
             pc[t] \in {"issue", "delay", "accepted", "charge"}, Goto(t, l),
             l = "charge" => cur[t].act # "STOP", UNCHANGED <<mtcmdQ, cur, sent>>
      PROVE  OrderInv'
  <2>1. \A u \in Issuers : /\ pc'[u] \in Deciding => pc[u] \in Deciding /\ cur'[u] = cur[u]
                           /\ pc'[u] = "charge" => pc[u] = "charge" \/ cur[u].act # "STOP"
    BY <1>1 DEF IInv, TypeOK, TaskTypes, Goto, Deciding
  <2> QED  BY <1>1, <2>1, OrderUntouched
<1> USE DEF cmdVars, histVars
<1>2. CASE IssueCharge(t)
  BY <1>1, <1>2 DEF IssueCharge, Charges
<1>3. CASE IssueRefused(t)
  BY <1>1, <1>3 DEF IssueRefused, Answer
<1>4. CASE IssueDenied(t)
  BY <1>1, <1>4 DEF IssueDenied, Answer
<1>5. CASE IssueStop(t)
  BY <1>1, <1>5 DEF IssueStop, Answer
<1>6. CASE IssueUnload(t)
  BY <1>1, <1>6 DEF IssueUnload, Answer
<1>7. CASE IssueMove(t)
  BY <1>1, <1>7 DEF IssueMove
<1>8. CASE Commit(t)
  BY <1>1, <1>8 DEF Commit, Answer
<1>9. CASE ChargeOver(t)
  BY <1>1, <1>9 DEF ChargeOver, Answer
<1> QED  BY <1>2, <1>3, <1>4, <1>5, <1>6, <1>7, <1>8, <1>9 DEF IssueStep

(* A command later than all that are queued keeps the order where          *)
(* Enqueue() puts it.                                                      *)
LEMMA EnqueueOrder ==
    ASSUME IInv, QueueInOrder, NEW c \in Command, Enqueue(c), \A n \in Queued : n < c.id
    PROVE  QueueInOrder' /\ Queued' \subseteq Queued \cup {c.id}
<1>1. CASE cmdfree = 0
  BY <1>1 DEF Enqueue, cmdVars, QueueInOrder, Ordered, Queued, IdsOf
<1>2. CASE cmdfree # 0
  <2>1. mtcmdQ \in Seq(Command) /\ Len(mtcmdQ) < CmdBlocks
    BY <1>2 DEF IInv, TypeOK, QueueTypes, CmdPoolConserved
  <2>2. (c.act = "STOP" /\ mtcmdQ' = <<c>> \o mtcmdQ) \/ mtcmdQ' = Append(mtcmdQ, c)
    BY <1>2, <2>1 DEF Enqueue, PostCmd, PostCmdFront
  <2>3. IdsOf(mtcmdQ') = Queued \cup {c.id} /\ Ordered(mtcmdQ')
    BY <2>1, <2>2, AppendIds, PrependIds, AppendOrdered, PrependOrdered DEF Queued, QueueInOrder
  <2> QED  BY <2>3 DEF QueueInOrder, Ordered, Queued, IdsOf
<1> QED  BY <1>1, <1>2

(* A command that arrives is later than every other.                       *)
LEMMA ReceiveOrder ==
    ASSUME IInv, PlaceInv, OrderInv, NEW a \in Actions, Receive(a)
    PROVE  OrderInv'
<1> DEFINE c == [id |-> sent + 1, act |-> a]
<1>1. /\ sent' = sent + 1 /\ sent \in Nat /\ c \in Command /\ c.id = sent + 1
      /\ pc["agvcp"] = "idle" /\ pc["agvcp"] \notin Deciding
  BY NewIsNowhere, DispatchAssumption
     DEF Receive, IInv, TypeOK, HistTypes, Command, Deciding
<1>2. \A n \in Queued \cup Hand("agv") : n \in Nat /\ n < sent + 1
  BY <1>1, KnownIds DEF InHand, Ids
<1>3. CASE Enqueue(c) /\ UNCHANGED <<pc, cur>>
  <2>1. QueueInOrder' /\ Queued' \subseteq Queued \cup {sent + 1}
    BY <1>1, <1>2, <1>3, EnqueueOrder DEF OrderInv
  <2>2. HeldFirst'
    BY <1>2, <1>3, <2>1 DEF OrderInv, HeldFirst, Hand
  <2>3. NewestAtAgvcp' /\ Chargers'
    BY <1>1, <1>3 DEF OrderInv, NewestAtAgvcp, Chargers
  <2> QED  BY <2>1, <2>2, <2>3 DEF OrderInv
<1>4. CASE /\ Goto("agvcp", "issue") /\ cur' = [cur EXCEPT !["agvcp"] = c]
           /\ UNCHANGED cmdVars
  <2>1. /\ pc'["agvcp"] = "issue" /\ cur'["agvcp"] = c
        /\ pc'["agv"] = pc["agv"] /\ cur'["agv"] = cur["agv"]
    BY <1>4 DEF Goto, IInv, TypeOK, TaskTypes, Issuers
  <2>2. QueueInOrder' /\ Queued' = Queued
    BY <1>4 DEF OrderInv, QueueInOrder, Ordered, Queued, IdsOf, cmdVars
  <2>3. HeldFirst' /\ NewestAtAgvcp'
    BY <1>1, <2>1, <2>2 DEF OrderInv, HeldFirst, NewestAtAgvcp
  <2>4. Chargers'
    BY <2>1 DEF OrderInv, Chargers, Issuers
  <2> QED  BY <2>2, <2>3, <2>4 DEF OrderInv
<1> QED  BY <1>3, <1>4 DEF Receive

(* So is one that was refused as busy, since agvcp takes one at a time.    *)
LEMMA AppendDeniedOrder ==
    ASSUME IInv, PlaceInv, OrderInv, AppendDenied
    PROVE  OrderInv'
<1> DEFINE c == cur["agvcp"]
<1>1. /\ c \in Command /\ pc["agvcp"] = "denied" /\ c.id = sent /\ c.id \in Ids
      /\ sent \in Nat /\ Enqueue(c)
  BY KnownIds DEF AppendDenied, IInv, TypeOK, TaskTypes, Issuers, Deciding, Command,
                  OrderInv, NewestAtAgvcp
<1>2. /\ pc'["agvcp"] = "idle" /\ pc'["agv"] = pc["agv"] /\ cur'["agv"] = cur["agv"]
  BY DEF AppendDenied, Goto, IInv, TypeOK, TaskTypes, Issuers
<1>3. sent \in InHand /\ sent # 0
  BY <1>1, DispatchAssumption DEF InHand, Hand, Deciding, Ids
<1>4. \A n \in Queued \cup Hand("agv") : n \in Nat /\ n < sent
  <2>1. sent \notin Queued /\ sent \notin Hand("agv")
    BY <1>1, <1>3 DEF PlaceInv, OnePlace, Hand
  <2> QED  BY <1>1, <2>1, KnownIds DEF InHand, Ids
<1>5. QueueInOrder' /\ Queued' \subseteq Queued \cup {sent}
  BY <1>1, <1>4, EnqueueOrder DEF OrderInv
<1>6. HeldFirst'
  BY <1>2, <1>4, <1>5 DEF OrderInv, HeldFirst, Hand
<1>7. NewestAtAgvcp' /\ Chargers'
  BY <1>2 DEF OrderInv, NewestAtAgvcp, Chargers, Issuers, Deciding
<1> QED  BY <1>5, <1>6, <1>7 DEF OrderInv

(* The head that agv takes is earlier than what remains, and may go back.  *)
LEMMA AgvPopOrder ==
    ASSUME IInv, PlaceInv, OrderInv, AgvPop, mtcmdQ # <<>>
    PROVE  OrderInv'
<1>1. mtcmdQ \in Seq(Command) /\ sent' = sent
  BY DEF AgvPop, IInv, TypeOK, QueueTypes, histVars
<1>2. \E l \in {"issue", "postback"} :
          /\ pc' = [pc EXCEPT !["agv"] = l] /\ cur' = [cur EXCEPT !["agv"] = Head(mtcmdQ)]
          /\ mtcmdQ' = Tail(mtcmdQ)
  BY DEF AgvPop, Goto
<1>3. /\ pc'["agv"] \in {"issue", "postback"} /\ cur'["agv"] = Head(mtcmdQ)
      /\ pc'["agvcp"] = pc["agvcp"] /\ cur'["agvcp"] = cur["agvcp"]
  BY <1>2 DEF IInv, TypeOK, TaskTypes, Issuers
<1>4. /\ Ordered(mtcmdQ')
      /\ Head(mtcmdQ).act # "STOP" => \A n \in IdsOf(mtcmdQ') : Head(mtcmdQ).id < n
  BY <1>1, <1>2, TailOrdered DEF OrderInv, QueueInOrder
<1>5. QueueInOrder' /\ Queued' = IdsOf(mtcmdQ')
  BY <1>4 DEF QueueInOrder, Ordered, Queued, IdsOf
<1>6. HeldFirst'
  BY <1>3, <1>4, <1>5 DEF HeldFirst
<1>7. NewestAtAgvcp' /\ Chargers'
  BY <1>1, <1>3 DEF OrderInv, NewestAtAgvcp, Chargers, Issuers
<1> QED  BY <1>5, <1>6, <1>7 DEF OrderInv

LEMMA AgvPostBackOrder ==
    ASSUME IInv, PlaceInv, OrderInv, AgvPostBack
    PROVE  OrderInv'
<1> DEFINE c == cur["agv"]
<1>1. mtcmdQ \in Seq(Command) /\ c \in Command /\ pc["agv"] = "postback" /\ sent' = sent
  BY DEF AgvPostBack, IInv, TypeOK, QueueTypes, TaskTypes, Deciding, Issuers, histVars
<1>2. Len(mtcmdQ) < CmdBlocks
  BY <1>1, DispatchAssumption DEF IInv, TypeOK, QueueTypes, CmdPoolConserved, Holding
<1>3. /\ pc'["agv"] = "state" /\ mtcmdQ' = <<c>> \o mtcmdQ
      /\ pc'["agvcp"] = pc["agvcp"] /\ cur'["agvcp"] = cur["agvcp"]
  BY <1>2 DEF AgvPostBack, PostCmdFront, Goto, IInv, TypeOK, TaskTypes, Issuers
<1>4. c.act = "STOP" \/ \A n \in IdsOf(mtcmdQ) : c.id < n
  BY <1>1 DEF OrderInv, HeldFirst, Deciding, Queued
<1>5. Ordered(mtcmdQ')
  BY <1>1, <1>3, <1>4, PrependOrdered DEF OrderInv, QueueInOrder
<1>6. QueueInOrder'
  BY <1>5 DEF QueueInOrder, Ordered
<1>7. HeldFirst' /\ NewestAtAgvcp' /\ Chargers'
  BY <1>1, <1>3 DEF OrderInv, HeldFirst, NewestAtAgvcp, Chargers, Issuers, Deciding
<1> QED  BY <1>6, <1>7 DEF OrderInv

(* With the invariants of the pools and the places, OrderInv is inductive. *)
LEMMA NextOrder == IInv /\ PlaceInv /\ OrderInv /\ [Next]_vars => OrderInv'
<1> SUFFICES ASSUME IInv, PlaceInv, OrderInv, [Next]_vars PROVE OrderInv'
  OBVIOUS
<1>1. ASSUME UNCHANGED <<mtcmdQ, cur, pc, sent>> PROVE OrderInv'
  BY <1>1, OrderUntouched
<1>2. ASSUME NEW t \in Issuers, NEW l \in {"idle", "handle", "state", "notify", "done"},
             Goto(t, l), cur' = cur \/ cur' = [cur EXCEPT ![t] = NoCmd],
             UNCHANGED <<mtcmdQ, sent>>
      PROVE  OrderInv'
  <2>1. \A u \in Issuers : /\ pc'[u] \in Deciding => pc[u] \in Deciding /\ cur'[u] = cur[u]
                           /\ pc'[u] = "charge" => pc[u] = "charge" \/ cur[u].act # "STOP"
    BY <1>2 DEF IInv, TypeOK, TaskTypes, Goto, Deciding
  <2> QED  BY <1>2, <2>1, OrderUntouched
<1> USE DEF cmdVars, taskVars, histVars
<1>0. CASE BatteryStep
  BY <1>0, <1>1, BatteryLeaves
<1>3. ASSUME NEW a \in Actions, Receive(a) PROVE OrderInv'
  BY <1>3, ReceiveOrder
<1>4. CASE AgvcpStep
  <2>1. CASE AgvcpIssued
    BY <1>2, <2>1 DEF AgvcpIssued, Issuers
  <2> QED
    BY <1>0, <1>4, <2>1, AppendDeniedOrder, IssueStepOrder, BatterySteps DEF AgvcpStep, Issuers
<1>5. CASE AgvStep
  <2>1. CASE AgvPop
    <3>1. CASE mtcmdQ = <<>>
      BY <1>2, <2>1, <3>1 DEF AgvPop, Issuers
    <3> QED  BY <2>1, <3>1, AgvPopOrder
  <2>2. CASE AgvPend \/ AgvFree \/ AgvState
    BY <1>2, <2>2 DEF AgvPend, AgvFree, AgvState, Issuers
  <2>3. CASE AgvError \/ AgvRecovery \/ AgvNotify \/ AgvDone
    BY <1>2, <2>3 DEF AgvError, AgvRecovery, AgvNotify, AgvDone, Issuers
  <2> QED
    BY <1>0, <1>5, <2>1, <2>2, <2>3, AgvPostBackOrder, IssueStepOrder, BatterySteps DEF AgvStep, Issuers
<1>6. CASE WheelStep
  BY <1>1, <1>6 DEF WheelStep, StraightEnd, TurnStop, TurnOver, FaultReport, FaultAct
<1>7. CASE DumperStep
  BY <1>1, <1>7 DEF DumperStep, DumperStarts, DumperGoesUp, DumperAtTop, DumperGoesDown, DumperHome
<1>8. CASE Environment
  BY <1>0, <1>1, <1>8, BatterySteps DEF Environment, GuidanceLost, EncoderError, PointArrival
<1>9. CASE UNCHANGED vars
  BY <1>1, <1>9 DEF vars
<1> QED  BY <1>3, <1>4, <1>5, <1>6, <1>7, <1>8, <1>9 DEF Next

(* Initially there is nothing to be in order.                              *)
LEMMA InitOrder == Init => OrderInv
  BY DEF Init, OrderInv, QueueInOrder, Ordered, HeldFirst, NewestAtAgvcp, Chargers, Deciding, Issuers

(* Who starts a command has it in hand, and it is not a STOP.              *)
LEMMA StartsHeld ==
    ASSUME IInv, PlaceInv, OrderInv, [Next]_vars, NEW j \in Ids, j = cur["agv"].id,
           outcome[j] # "started", outcome'[j] = "started"
    PROVE  pc["agv"] \in Deciding /\ cur["agv"].act # "STOP"
<1>1. outcome \in [Ids -> Outcomes] /\ outcome' # outcome /\ j # 0 /\ sent \in Nat
  BY DispatchAssumption DEF IInv, TypeOK, HistTypes, Ids
<1>2. ASSUME NEW t \in Issuers, IssueStep(t)
      PROVE  t = "agv" /\ pc["agv"] \in Deciding /\ cur["agv"].act # "STOP"
  <2>1. /\ pc[t] \in {"issue", "delay", "accepted", "charge"}
        /\ outcome' = [outcome EXCEPT ![cur[t].id] = "started"] /\ cur[t].act # "STOP"
    <3>1. CASE IssueCharge(t) \/ IssueMove(t)
      BY <1>1, <3>1 DEF IssueCharge, IssueMove, histVars
    <3>2. CASE IssueRefused(t)
      BY <1>1, <3>2 DEF IssueRefused, Answer
    <3>3. CASE IssueDenied(t)
      BY <1>1, <3>3 DEF IssueDenied, Answer, histVars
    <3>4. CASE IssueStop(t)
      BY <1>1, <3>4 DEF IssueStop, Answer
    <3>5. CASE IssueUnload(t)
      BY <3>5 DEF IssueUnload, Answer
    <3>6. CASE Commit(t)
      BY <3>6 DEF Commit, Answer, IInv, TypeOK, TaskTypes, Straights, Turns
    <3>7. CASE ChargeOver(t)
      BY <3>7 DEF ChargeOver, Answer, OrderInv, Chargers
    <3> QED  BY <1>2, <3>1, <3>2, <3>3, <3>4, <3>5, <3>6, <3>7 DEF IssueStep
  <2>2. j = cur[t].id
    BY <1>1, <2>1
  <2>3. t = "agv"
    BY <1>1, <2>2 DEF PlaceInv, OnePlace, Issuers
  <2> QED  BY <2>1, <2>3 DEF Deciding
<1>3. ASSUME NEW c, Enqueue(c) PROVE FALSE
  BY <1>1, <1>3 DEF Enqueue
<1>0. CASE BatteryStep
  BY <1>0, <1>1, BatteryLeaves DEF histVars
<1> USE DEF histVars
<1>4. ASSUME NEW a \in Actions, Receive(a) PROVE FALSE
  <2>1. \/ Enqueue([id |-> sent + 1, act |-> a])
        \/ outcome' = [outcome EXCEPT ![sent + 1] = "pending"]
    BY <1>4 DEF Receive
  <2> QED  BY <1>1, <1>3, <2>1
<1>5. CASE AgvcpStep
  BY <1>0, <1>1, <1>2, <1>3, <1>5, BatterySteps DEF AgvcpStep, AppendDenied, AgvcpIssued, Issuers
<1>6. CASE AgvStep
  <2>1. CASE AgvPend \/ AgvPop \/ AgvPostBack \/ AgvFree \/ AgvState
    BY <1>1, <2>1 DEF AgvPend, AgvPop, AgvPostBack, AgvFree, AgvState
  <2>2. CASE AgvError \/ AgvRecovery \/ AgvNotify \/ AgvDone
    BY <1>1, <2>2 DEF AgvError, AgvRecovery, AgvNotify, AgvDone
  <2> QED  BY <1>0, <1>2, <1>6, <2>1, <2>2, BatterySteps DEF AgvStep, Issuers
<1>7. CASE WheelStep
  BY <1>1, <1>7 DEF WheelStep, StraightEnd, TurnStop, TurnOver, FaultReport, FaultAct
<1>8. CASE DumperStep
  BY <1>1, <1>8 DEF DumperStep, DumperStarts, DumperGoesUp, DumperAtTop, DumperGoesDown, DumperHome
<1>9. CASE Environment
  BY <1>0, <1>1, <1>9, BatterySteps DEF Environment, GuidanceLost, EncoderError, PointArrival
<1>10. CASE UNCHANGED vars
  BY <1>1, <1>10 DEF vars
<1> QED  BY <1>4, <1>5, <1>6, <1>7, <1>8, <1>9, <1>10 DEF Next

(* The action property, of one step.                                       *)
StartsInOrder ==
    \A i, j \in Ids :
        i < j /\ j = cur["agv"].id /\ outcome[j] # "started" /\ outcome'[j] = "started"
            => outcome[i] # "pending"

LEMMA StepInOrder == IInv /\ PlaceInv /\ OrderInv /\ [Next]_vars => StartsInOrder
<1> SUFFICES ASSUME IInv, PlaceInv, OrderInv, [Next]_vars, NEW i \in Ids, NEW j \in Ids, i < j,
                    j = cur["agv"].id, outcome[j] # "started", outcome'[j] = "started",
                    outcome[i] = "pending"
             PROVE  FALSE
  BY DEF StartsInOrder
<1>1. pc["agv"] \in Deciding /\ cur["agv"].act # "STOP"
  BY StartsHeld
<1>2. i \in Nat /\ j \in Nat /\ i \in Queued \cup InHand
  BY DispatchAssumption DEF PlaceInv, OnePlace, Ids
<1>3. i \notin Queued /\ i \notin Hand("agv")
  <2>1. \A n \in Queued : j < n
    BY <1>1 DEF OrderInv, HeldFirst
  <2>2. ~(j < i) /\ i # j
    BY <1>2
  <2> QED  BY <2>1, <2>2 DEF Hand
<1>4. i = sent
  BY <1>2, <1>3 DEF InHand, Hand, OrderInv, NewestAtAgvcp
<1>5. j <= sent /\ sent \in Nat
  BY <1>1, KnownIds DEF InHand, Hand
<1> QED  BY <1>2, <1>4, <1>5

(* agv starts nothing while an earlier command waits, whatever agvcp       *)
(* appends or puts in front meanwhile; and the queue itself stays in order.*)
THEOREM AgvStarts == Spec => AgvStartsInOrder
<1> DEFINE Inv == IInv /\ PlaceInv /\ OrderInv
<1>1. Init => Inv
  BY InitIInv, InitPlaces, InitOrder
<1>2. Inv /\ [Next]_vars => Inv'
  BY NextIInv, NextPlaces, NextOrder
<1>3. Inv /\ [Next]_vars => [StartsInOrder]_vars
  BY StepInOrder
<1>4. [][StartsInOrder]_vars <=> AgvStartsInOrder
  BY DEF StartsInOrder, AgvStartsInOrder
<1> HIDE DEF Inv
<1> QED  BY <1>1, <1>2, <1>3, <1>4, PTL DEF Spec

-----------------------------------------------------------------------------
(* What the events of agv are good for, as long as the pool of events does *)
(* not run out: then every post adds its event, behind all the others.     *)

(* Something is under way that ends with an ACTION_OVER ...                *)
Active == \/ Motionstyle # "ONSTOPING" \/ turning # "none"
          \/ nReverseFlag \/ dumper \in {"STARTING", "MOVINGUP", "TOP"}

(* ... or has ended with one that agv has not taken yet.                   *)
EventQueued(k) == \E i \in DOMAIN mtevtQ : mtevtQ[i].kind = k
Coming         == Active \/ EventQueued("ACTION_OVER")

(* No step but that of agv that takes an event takes one away; m is where  *)
(* the new ones begin.                                                     *)
Grows == /\ Len(mtevtQ) <= Len(mtevtQ')
         /\ \A i \in 1 .. Len(mtevtQ) : mtevtQ'[i] = mtevtQ[i]
NewEvents == Len(mtevtQ) + 1 .. Len(mtevtQ')

(* The pool has blocks left before a step and after it.                    *)
EventsLeft == evtfree > 0
NoneLost   == EventsLeft /\ EventsLeft'

LEMMA EventQueue ==
    ASSUME IInv
    PROVE  /\ mtevtQ \in Seq(Events) /\ Len(mtevtQ) \in Nat /\ DOMAIN mtevtQ = 1 .. Len(mtevtQ)
           /\ evtfree \in Nat /\ (EventsLeft => Len(mtevtQ) < EvtBlocks)
BY DispatchAssumption DEF IInv, TypeOK, QueueTypes, EvtPoolConserved, EventsLeft

LEMMA QueueDomains ==
    ASSUME IInv, IInv'
    PROVE  /\ DOMAIN mtevtQ = 1 .. Len(mtevtQ) /\ DOMAIN mtevtQ' = 1 .. Len(mtevtQ')
           /\ Len(mtevtQ) \in Nat /\ Len(mtevtQ') \in Nat
<1>1. mtevtQ \in Seq(Events) /\ mtevtQ' \in Seq(Events)
  BY DEF IInv, TypeOK, QueueTypes
<1> QED  BY <1>1

LEMMA NothingPosted ==
    ASSUME IInv, mtevtQ' = mtevtQ
    PROVE  Grows /\ NewEvents = {}
BY EventQueue DEF Grows, NewEvents

LEMMA Posted ==
    ASSUME IInv, EventsLeft, NEW e \in Events, PostEvt(e)
    PROVE  Grows /\ NewEvents = {Len(mtevtQ')} /\ mtevtQ'[Len(mtevtQ')] = e
<1>1. mtevtQ' = Append(mtevtQ, e)
  BY EventQueue DEF PostEvt, EventsLeft
<1>2. Len(mtevtQ') = Len(mtevtQ) + 1 /\ Len(mtevtQ) \in Nat
  BY <1>1, EventQueue
<1>3. \A i \in 1 .. Len(mtevtQ) : mtevtQ'[i] = mtevtQ[i]
  BY <1>1, EventQueue
<1>4. mtevtQ'[Len(mtevtQ')] = e
  BY <1>1, <1>2, EventQueue
<1> QED  BY <1>2, <1>3, <1>4 DEF Grows, NewEvents

LEMMA TwoPosted ==
    ASSUME IInv, NoneLost, PostErrorAndArrival
    PROVE  Grows /\ \A i \in NewEvents : mtevtQ'[i] \in {Error("WAY_POINT"), Arrival}
<1>1. Error("WAY_POINT") \in Events
  BY DEF Error, Events, AllAlarms
<1>2. CASE evtfree > 1 /\ Len(mtevtQ) + 1 < EvtBlocks
  <2>1. mtevtQ' = mtevtQ \o <<Error("WAY_POINT"), Arrival>>
    BY <1>2 DEF PostErrorAndArrival
  <2> DEFINE two == <<Error("WAY_POINT"), Arrival>>
  <2>2. two \in Seq(Events) /\ Len(two) = 2 /\ two[1] = Error("WAY_POINT") /\ two[2] = Arrival
    BY DEF Error, Arrival, Events, AllAlarms
  <2> HIDE DEF two
  <2>3. mtevtQ' = mtevtQ \o two
    BY <2>1 DEF two
  <2>4. Len(mtevtQ') = Len(mtevtQ) + 2 /\ Len(mtevtQ) \in Nat
    <3>1. mtevtQ \in Seq(Events) /\ Len(mtevtQ) \in Nat
      BY EventQueue
    <3>2. Len(mtevtQ \o two) = Len(mtevtQ) + Len(two)
      BY <2>2, <3>1, ConcatProperties
    <3> QED  BY <2>2, <2>3, <3>1, <3>2
  <2>5. \A i \in 1 .. Len(mtevtQ) : mtevtQ'[i] = mtevtQ[i]
    BY <2>2, <2>3, EventQueue
  <2>6. ASSUME NEW i \in NewEvents PROVE mtevtQ'[i] \in {two[1], two[2]}
    <3>1. i = Len(mtevtQ) + 1 \/ i = Len(mtevtQ) + 2
      BY <2>4 DEF NewEvents
    <3>2. \A k \in 1 .. 2 : mtevtQ'[Len(mtevtQ) + k] = two[k]
      BY <2>2, <2>3, <2>4, EventQueue
    <3> QED  BY <3>1, <3>2
  <2> QED  BY <2>2, <2>4, <2>5, <2>6 DEF Grows
<1>3. CASE ~(evtfree > 1 /\ Len(mtevtQ) + 1 < EvtBlocks)
  BY <1>1, <1>3, Posted DEF PostErrorAndArrival, NoneLost
<1> QED  BY <1>2, <1>3

(* The guidance of the vehicle does not fail: such a fault ends an action  *)
(* without an ACTION_OVER.                                                 *)
GuidanceHolds == Alarms \cap {"OUT_OF_TRACK", "GS_COMM_BREAK"} = {}
NoFaultYet    == missing = "none" /\ nEvent = "NO_EVENT"

LEMMA NextNoFault ==
    ASSUME GuidanceHolds, NoFaultYet, [Next]_vars
    PROVE  NoFaultYet'
<1> USE DEF NoFaultYet, motionVars, faultVars
<1>1. ASSUME NEW a \in Actions, Receive(a) PROVE NoFaultYet'
  BY <1>1 DEF Receive
<1>2. ASSUME NEW t \in Issuers, IssueStep(t) PROVE NoFaultYet'
  BY <1>2 DEF IssueStep, IssueCharge, IssueRefused, IssueDenied, IssueStop, IssueUnload, IssueMove,
              Commit, ChargeOver
<1>0. CASE BatteryStep
  BY <1>0, BatteryLeaves
<1>3. CASE AgvcpStep
  BY <1>0, <1>2, <1>3, BatterySteps DEF AgvcpStep, AppendDenied, AgvcpIssued, Issuers
<1>4. CASE AgvStep
  BY <1>0, <1>2, <1>4, BatterySteps DEF AgvStep, AgvPend, AgvPop, AgvPostBack, AgvFree, AgvState,
        AgvError, AgvRecovery, AgvNotify, AgvDone, Issuers
<1>5. CASE WheelStep
  <2>1. CASE StraightEnd \/ TurnStop
    BY <2>1 DEF StraightEnd, TurnStop, Lost, GuidanceHolds
  <2>2. CASE TurnOver \/ FaultReport \/ FaultAct
    BY <2>2 DEF TurnOver, FaultReport, FaultAct
  <2> QED  BY <1>5, <2>1, <2>2 DEF WheelStep
<1>6. CASE DumperStep
  BY <1>6 DEF DumperStep, DumperStarts, DumperGoesUp, DumperAtTop, DumperGoesDown, DumperHome
<1>7. CASE Environment
  BY <1>0, <1>7, BatterySteps DEF Environment, GuidanceLost, EncoderError, PointArrival, GuidanceHolds
<1>8. CASE UNCHANGED vars
  BY <1>8 DEF vars
<1> QED  BY <1>1, <1>3, <1>4, <1>5, <1>6, <1>7, <1>8 DEF Next

(* What a step adds to the queue.                                          *)
NewOver    == \E i \in NewEvents : mtevtQ'[i].kind = "ACTION_OVER"
NewArrival == \E i \in NewEvents : mtevtQ'[i].kind = "POINT_ARRIVAL"

(* An action ends only with an ACTION_OVER behind all other events, and a  *)
(* point arrives only in the course of one.                                *)
Announces ==
    /\ Grows
    /\ Active => Active' \/ NewOver
    /\ NewArrival => Active'

LEMMA IssueStepAnnounces ==
    ASSUME IInv, NoneLost, NEW t \in Issuers, IssueStep(t)
    PROVE  /\ Announces
           /\ Commit(t) \/ IssueUnload(t) => Active'
           /\ ChargeOver(t) => EventQueued("ACTION_OVER")'
           /\ IssueDenied(t) => Active'
<1> USE DEF motionVars, wheelVars, dumperVars, evtVars
<1>1. CASE ChargeOver(t)
  <2>1. cur[t].act \in AllActions
    BY <1>1 DEF ChargeOver, IInv, TypeOK, TaskTypes, Deciding, Command
  <2>2. Over(cur[t].act) \in Events /\ Over(cur[t].act).kind = "ACTION_OVER"
    BY <2>1 DEF Over, Events
  <2>3. PostEvt(Over(cur[t].act)) /\ UNCHANGED motionVars
    BY <1>1 DEF ChargeOver
  <2>4. /\ Grows /\ NewEvents = {Len(mtevtQ')}
        /\ mtevtQ'[Len(mtevtQ')].kind = "ACTION_OVER"
    BY <2>2, <2>3, Posted DEF NoneLost
  <2>5. EventQueued("ACTION_OVER")'
    <3>1. IInv'
      BY IssueStepIInv
    <3>2. Len(mtevtQ') \in NewEvents
      BY <2>4
    <3> QED  BY <2>4, <3>1, <3>2, QueueDomains DEF NewEvents, EventQueued
  <2>6. Announces
    BY <2>3, <2>4 DEF Announces, NewOver, NewArrival, Active
  <2>7. ~(Commit(t) \/ IssueUnload(t)) /\ ~IssueDenied(t)
    BY <1>1 DEF ChargeOver, Commit, IssueUnload, IssueDenied
  <2> QED  BY <2>5, <2>6, <2>7
<1>2. CASE ~ChargeOver(t)
  <2>1. mtevtQ' = mtevtQ
    BY <1>2 DEF IssueStep, IssueCharge, IssueRefused, IssueDenied, IssueStop, IssueUnload, IssueMove,
                Commit
  <2>2. Grows /\ NewEvents = {}
    BY <2>1, NothingPosted
  <2>3. ASSUME Commit(t) PROVE Active'
    <3>1. Motionstyle' # "ONSTOPING"
      BY <2>3 DEF Commit, IInv, TypeOK, TaskTypes, Straights, Turns
    <3> QED  BY <3>1 DEF Active
  <2>4. ASSUME IssueUnload(t) PROVE Active'
    BY <2>4 DEF IssueUnload, Active
  <2>5. ASSUME IssueDenied(t) PROVE Active'
    BY <2>5 DEF IssueDenied, Denied, Active
  <2>6. CASE IssueCharge(t) \/ IssueRefused(t) \/ IssueStop(t) \/ IssueMove(t)
    <3>1. Active' = Active
      BY <2>6 DEF IssueCharge, IssueRefused, IssueStop, IssueMove, Active
    <3> QED  BY <1>2, <2>2, <2>3, <2>4, <2>5, <3>1 DEF Announces, NewArrival
  <2> QED  BY <1>2, <2>2, <2>3, <2>4, <2>5, <2>6 DEF IssueStep, Announces, NewArrival
<1> QED  BY <1>1, <1>2

(* A step that posts an ACTION_OVER, or nothing while what is under way    *)
(* stays under way.                                                        *)
LEMMA OverAnnounces ==
    ASSUME IInv, EventsLeft, NEW a \in AllActions, PostEvt(Over(a))
    PROVE  Announces
<1>1. Over(a) \in Events /\ Over(a).kind = "ACTION_OVER"
  BY DEF Over, Events
<1>2. /\ Grows /\ NewEvents = {Len(mtevtQ')}
      /\ mtevtQ'[Len(mtevtQ')].kind = "ACTION_OVER"
  BY <1>1, Posted
<1> QED  BY <1>2 DEF Announces, NewOver, NewArrival

LEMMA ErrorAnnounces ==
    ASSUME IInv, EventsLeft, NEW e \in AllAlarms, PostEvt(Error(e)) \/ PostEvt(Recovery(e)),
           Active => Active'
    PROVE  Announces
<1>1. PICK x \in {Error(e), Recovery(e)} : PostEvt(x)
  OBVIOUS
<1>2. x \in Events /\ x.kind \in {"ERROR", "ERROR_RECOVERY"}
  BY DEF Error, Recovery, Events
<1>3. Grows /\ NewEvents = {Len(mtevtQ')} /\ mtevtQ'[Len(mtevtQ')] = x
  BY <1>1, <1>2, Posted
<1> QED  BY <1>2, <1>3 DEF Announces, NewArrival

LEMMA SilentAnnounces ==
    ASSUME IInv, mtevtQ' = mtevtQ, Active => Active'
    PROVE  Announces
BY NothingPosted DEF Announces, NewArrival

LEMMA NextAnnounces ==
    ASSUME IInv, NoneLost, NoFaultYet, [Next]_vars, ~AgvPend
    PROVE  Announces
<1> USE DEF NoneLost, motionVars, wheelVars, dumperVars, evtVars
<1>0. "WAY_POINT" \in AllAlarms /\ "ENCODER" \in AllAlarms /\ "BMS" \in AllAlarms
  BY DEF AllAlarms
<1>a. UNCHANGED motionVars => (Active => Active')
  BY DEF Active
<1> HIDE DEF motionVars
<1>1. ASSUME NEW a \in Actions, Receive(a) PROVE Announces
  BY <1>1, <1>a, SilentAnnounces DEF Receive
<1>2. ASSUME NEW t \in Issuers, IssueStep(t) PROVE Announces
  BY <1>2, IssueStepAnnounces
<1>b. CASE BatteryStep
  BY <1>b, <1>0, <1>a, BatteryLeaves, SilentAnnounces, ErrorAnnounces
<1>3. CASE AgvcpStep
  <2>1. CASE AppendDenied
    BY <2>1, <1>a, SilentAnnounces DEF AppendDenied
  <2>2. CASE AgvcpIssued
    BY <2>2, <1>0, <1>a, SilentAnnounces, ErrorAnnounces DEF AgvcpIssued
  <2> QED  BY <1>2, <1>3, <1>b, <2>1, <2>2, BatterySteps DEF AgvcpStep, Issuers
<1>4. CASE AgvStep
  <2>1. CASE AgvPop \/ AgvPostBack \/ AgvState \/ AgvError \/ AgvRecovery \/ AgvNotify \/ AgvDone
    BY <2>1, <1>a, SilentAnnounces DEF AgvPop, AgvPostBack, AgvState, AgvError, AgvRecovery,
                                       AgvNotify, AgvDone
  <2>2. CASE AgvFree
    BY <2>2, <1>0, <1>a, SilentAnnounces, ErrorAnnounces DEF AgvFree
  <2> QED  BY <1>2, <1>4, <1>b, <2>1, <2>2, BatterySteps DEF AgvStep, Issuers
<1>5. CASE WheelStep
  <2>1. CASE StraightEnd
    <3>1. Motionstyle \in AllActions
      BY <2>1 DEF StraightEnd, AllActions
    <3> QED  BY <2>1, <3>1, OverAnnounces DEF StraightEnd
  <2>2. CASE TurnStop
    <3>1. turning' # "none"
      BY <2>2 DEF TurnStop, Turns
    <3> QED  BY <2>2, <3>1, SilentAnnounces DEF TurnStop, Active
  <2>3. CASE TurnOver
    <3>1. turning \in AllActions
      BY <2>3 DEF TurnOver, IInv, TypeOK, MotionTypes, AllActions
    <3> QED  BY <2>3, <3>1, OverAnnounces DEF TurnOver
  <2>4. ~FaultReport /\ ~FaultAct
    BY DEF FaultReport, FaultAct, Driving, NoFaultYet
  <2> QED  BY <1>5, <2>1, <2>2, <2>3, <2>4 DEF WheelStep
<1>6. CASE DumperStep
  <2>1. CASE DumperGoesDown
    BY <2>1, OverAnnounces DEF DumperGoesDown, AllActions
  <2>2. CASE DumperStarts \/ DumperGoesUp \/ DumperAtTop \/ DumperHome
    <3>1. Active => Active'
      BY <2>2 DEF DumperStarts, DumperGoesUp, DumperAtTop, DumperHome, Active
    <3> QED  BY <2>2, <3>1, SilentAnnounces DEF DumperStarts, DumperGoesUp, DumperAtTop, DumperHome
  <2> QED  BY <1>6, <2>1, <2>2 DEF DumperStep
<1>7. CASE Environment
  <2>1. CASE GuidanceLost
    BY <2>1, SilentAnnounces DEF GuidanceLost, Active
  <2>2. CASE EncoderError
    BY <2>2, <1>0, <1>a, ErrorAnnounces DEF EncoderError
  <2>3. CASE PointArrival
    <3>1. Active /\ Active'
      BY <2>3 DEF PointArrival, Active, motionVars, Straights
    <3>2. Grows
      <4>1. CASE PostErrorAndArrival
        BY <4>1, TwoPosted
      <4>2. CASE PostEvt(Arrival)
        BY <4>2, Posted DEF Arrival, Events
      <4> QED  BY <2>3, <4>1, <4>2 DEF PointArrival
    <3> QED  BY <3>1, <3>2 DEF Announces
  <2> QED  BY <1>7, <1>b, <2>1, <2>2, <2>3, BatterySteps DEF Environment
<1>8. CASE UNCHANGED vars
  BY <1>8, <1>a, SilentAnnounces DEF vars, motionVars
<1> QED  BY <1>1, <1>3, <1>4, <1>5, <1>6, <1>7, <1>8 DEF Next

(* So what is to come stays to come until agv takes it.                    *)
LEMMA ComingStays ==
    ASSUME IInv, IInv', Announces
    PROVE  /\ Coming => Coming'
           /\ \A k \in {"ACTION_OVER", "ERROR"} : EventQueued(k) => EventQueued(k)'
<1>1. /\ DOMAIN mtevtQ = 1 .. Len(mtevtQ) /\ DOMAIN mtevtQ' = 1 .. Len(mtevtQ')
      /\ Len(mtevtQ) \in Nat /\ Len(mtevtQ') \in Nat /\ Len(mtevtQ) <= Len(mtevtQ')
      /\ \A i \in 1 .. Len(mtevtQ) : mtevtQ'[i] = mtevtQ[i]
  BY QueueDomains DEF Announces, Grows
<1>2. \A k \in {"ACTION_OVER", "ERROR"} : EventQueued(k) => EventQueued(k)'
  BY <1>1 DEF EventQueued
<1>3. NewOver => EventQueued("ACTION_OVER")'
  BY <1>1 DEF NewOver, NewEvents, EventQueued
<1> QED  BY <1>2, <1>3 DEF Announces, Coming

(* agv takes the first of them.                                            *)
LEMMA PendTakes ==
    ASSUME IInv, AgvPend
    PROVE  /\ evt' = mtevtQ[1] /\ Active' = Active /\ pc'["agv"] = "handle"
           /\ 1 \in DOMAIN mtevtQ /\ DOMAIN mtevtQ' = 1 .. Len(mtevtQ) - 1
           /\ \A i \in 1 .. Len(mtevtQ) - 1 : mtevtQ'[i] = mtevtQ[i + 1]
           /\ \A k \in {"ACTION_OVER", "ERROR"} :
                 EventQueued(k) => EventQueued(k)' \/ evt'.kind = k
<1>1. /\ mtevtQ \in Seq(Events) /\ mtevtQ # <<>> /\ mtevtQ' = Tail(mtevtQ) /\ evt' = Head(mtevtQ)
      /\ Len(mtevtQ) \in Nat /\ DOMAIN mtevtQ = 1 .. Len(mtevtQ)
  BY EventQueue DEF AgvPend
<1>2. /\ Len(mtevtQ) > 0 /\ evt' = mtevtQ[1] /\ Len(mtevtQ') = Len(mtevtQ) - 1
      /\ DOMAIN mtevtQ' = 1 .. Len(mtevtQ')
      /\ \A i \in 1 .. Len(mtevtQ) - 1 : mtevtQ'[i] = mtevtQ[i + 1]
  BY <1>1
<1>3. \A k : EventQueued(k) => EventQueued(k)' \/ evt'.kind = k
  <2> SUFFICES ASSUME NEW k, NEW i \in 1 .. Len(mtevtQ), mtevtQ[i].kind = k, i # 1
               PROVE  EventQueued(k)'
    BY <1>1, <1>2 DEF EventQueued
  <2>1. i - 1 \in 1 .. Len(mtevtQ) - 1 /\ mtevtQ'[i - 1] = mtevtQ[i]
    <3>1. i - 1 \in 1 .. Len(mtevtQ) - 1 /\ (i - 1) + 1 = i
      BY <1>1
    <3> QED  BY <1>2, <3>1
  <2> QED  BY <1>2, <2>1 DEF EventQueued
<1>4. Active' = Active /\ pc'["agv"] = "handle"
  BY DEF AgvPend, Active, motionVars, wheelVars, dumperVars, Goto, IInv, TypeOK, TaskTypes, Issuers
<1> QED  BY <1>1, <1>2, <1>3, <1>4

-----------------------------------------------------------------------------
(* Whenever a command waits, an ACTION_OVER is to come that lets agv issue *)
(* it.  Not so in three cases: a fault of the guidance ends an action      *)
(* silently; a STOP taken from the queue and a route refused for its start *)
(* start nothing.                                                          *)

Ordinary == {c \in Command : c.act # "STOP"}
NoStops  == /\ mtcmdQ \in Seq(Ordinary)
            /\ \A t \in Issuers : pc[t] \in Deciding => cur[t] \in Ordinary

Issuing(t) == pc[t] \in {"issue", "delay", "accepted", "charge"}

(* The ACTION_OVER of what made motionctrl_cmd() busy is still to come, as *)
(* agv cannot take it before agvcp has appended the command.               *)
DeniedWakes == pc["agvcp"] = "denied" => Coming

Wakes == \/ Coming
         \/ pc["agv"] = "handle" /\ evt.kind = "ACTION_OVER"
         \/ \E t \in Issuers : Issuing(t)
QueueWakes == mtcmdQ # <<>> \/ pc["agv"] = "postback" => Wakes

WakeInv == NoFaultYet /\ NoStops /\ DeniedWakes /\ QueueWakes

OnlyOrders == /\ GuidanceHolds /\ "WAY_POINT" \notin Alarms
              /\ "STOP" \notin Actions

LEMMA EnqueueOrdinary ==
    ASSUME mtcmdQ \in Seq(Ordinary), NEW c \in Ordinary, Enqueue(c)
    PROVE  mtcmdQ' \in Seq(Ordinary)
<1>1. c.act # "STOP"
  BY DEF Ordinary
<1>2. mtcmdQ' \in {mtcmdQ, Append(mtcmdQ, c)}
  BY <1>1 DEF Enqueue, PostCmd, cmdVars
<1> QED  BY <1>2

LEMMA NextNoStops ==
    ASSUME IInv, NoStops, "STOP" \notin Actions, [Next]_vars
    PROVE  NoStops'
<1> USE DEF NoStops
<1>0. /\ pc \in [Issuers -> AgvcpPlaces \cup AgvPlaces] /\ cur \in [Issuers -> Command \cup {NoCmd}]
      /\ pc["agvcp"] \in AgvcpPlaces /\ sent \in Nat
  BY DispatchAssumption DEF IInv, TypeOK, TaskTypes, HistTypes
<1>1. ASSUME UNCHANGED <<mtcmdQ, cur, pc>> PROVE NoStops'
  BY <1>1
<1>2. ASSUME NEW t \in Issuers, NEW l \in {"idle", "handle", "state", "notify", "done", "issued"},
             Goto(t, l), mtcmdQ' = mtcmdQ, cur' = cur \/ cur' = [cur EXCEPT ![t] = NoCmd]
      PROVE  NoStops'
  BY <1>0, <1>2 DEF Goto, Deciding, Issuers
<1> USE DEF cmdVars, histVars
<1>3. ASSUME NEW t \in Issuers, IssueStep(t) PROVE NoStops'
  <2>1. CASE IssueCharge(t) \/ IssueMove(t) \/ (IssueDenied(t) /\ t = "agvcp")
    <3>1. /\ pc[t] \in Deciding /\ UNCHANGED <<mtcmdQ, cur>>
          /\ \E l \in AgvcpPlaces : pc' = [pc EXCEPT ![t] = l]
      BY <2>1 DEF IssueCharge, IssueMove, IssueDenied, Goto, Deciding, AgvcpPlaces
    <3> QED  BY <1>0, <3>1 DEF Issuers
  <2>2. CASE \/ IssueRefused(t) \/ IssueStop(t) \/ IssueUnload(t) \/ Commit(t) \/ ChargeOver(t)
             \/ (IssueDenied(t) /\ t # "agvcp")
    <3>1. Goto(t, "issued") /\ UNCHANGED <<mtcmdQ, cur>>
      BY <2>2 DEF IssueRefused, IssueStop, IssueUnload, Commit, ChargeOver, IssueDenied, Answer
    <3> QED  BY <1>2, <3>1
  <2> QED  BY <1>3, <2>1, <2>2 DEF IssueStep
<1>4. ASSUME NEW a \in Actions, Receive(a) PROVE NoStops'
  <2> DEFINE c == [id |-> sent + 1, act |-> a]
  <2>1. c \in Ordinary
    BY <1>0, <1>4, DispatchAssumption DEF Receive, Ordinary, Command, Ids
  <2>2. CASE mtcmdQ = <<>>
    <3>1. mtcmdQ' = mtcmdQ /\ Goto("agvcp", "issue") /\ cur' = [cur EXCEPT !["agvcp"] = c]
      BY <1>4, <2>2 DEF Receive
    <3> QED  BY <1>0, <2>1, <3>1 DEF Goto, Issuers
  <2>3. CASE mtcmdQ # <<>>
    <3>1. Enqueue(c) /\ UNCHANGED <<pc, cur>>
      BY <1>4, <2>3 DEF Receive
    <3> QED  BY <2>1, <3>1, EnqueueOrdinary
  <2> QED  BY <2>2, <2>3
<1>b. CASE BatteryStep
  BY <1>b, <1>1, BatteryLeaves DEF taskVars
<1>5. CASE AgvcpStep
  <2>1. CASE AppendDenied
    <3>1. cur["agvcp"] \in Ordinary
      BY <2>1 DEF AppendDenied, Deciding, Issuers
    <3>2. mtcmdQ' \in Seq(Ordinary)
      BY <2>1, <3>1, EnqueueOrdinary DEF AppendDenied
    <3> QED  BY <1>0, <2>1, <3>2 DEF AppendDenied, Goto, Deciding, Issuers
  <2>2. CASE AgvcpIssued
    BY <1>2, <2>2 DEF AgvcpIssued, Issuers
  <2> QED  BY <1>3, <1>5, <1>b, <2>1, <2>2, BatterySteps DEF AgvcpStep, Issuers
<1>6. CASE AgvStep
  <2>1. CASE AgvPop
    <3>1. CASE mtcmdQ = <<>>
      BY <1>2, <2>1, <3>1 DEF AgvPop, Issuers
    <3>2. CASE mtcmdQ # <<>>
      <4>1. Head(mtcmdQ) \in Ordinary /\ Tail(mtcmdQ) \in Seq(Ordinary)
        BY <3>2
      <4>2. /\ mtcmdQ' = Tail(mtcmdQ) /\ cur' = [cur EXCEPT !["agv"] = Head(mtcmdQ)]
            /\ \E l \in AgvPlaces : pc' = [pc EXCEPT !["agv"] = l]
        BY <2>1, <3>2 DEF AgvPop, Goto, AgvPlaces
      <4> QED  BY <1>0, <4>1, <4>2 DEF Issuers
    <3> QED  BY <3>1, <3>2
  <2>2. CASE AgvPostBack
    <3>1. cur["agv"] \in Ordinary
      BY <2>2 DEF AgvPostBack, Deciding, Issuers
    <3>2. mtcmdQ' \in {mtcmdQ, <<cur["agv"]>> \o mtcmdQ}
      BY <2>2 DEF AgvPostBack, PostCmdFront
    <3>3. <<cur["agv"]>> \o mtcmdQ \in Seq(Ordinary)
      <4>1. <<cur["agv"]>> \in Seq(Ordinary)
        BY <3>1
      <4> QED  BY <4>1
    <3> QED  BY <1>0, <2>2, <3>2, <3>3 DEF AgvPostBack, Goto, Deciding, Issuers
  <2>3. CASE AgvPend \/ AgvFree \/ AgvState
    BY <1>2, <2>3 DEF AgvPend, AgvFree, AgvState, Issuers
  <2>4. CASE AgvError \/ AgvRecovery \/ AgvNotify \/ AgvDone
    BY <1>2, <2>4 DEF AgvError, AgvRecovery, AgvNotify, AgvDone, Issuers
  <2> QED  BY <1>3, <1>6, <1>b, <2>1, <2>2, <2>3, <2>4, BatterySteps DEF AgvStep, Issuers
<1> USE DEF taskVars
<1>7. CASE WheelStep
  BY <1>1, <1>7 DEF WheelStep, StraightEnd, TurnStop, TurnOver, FaultReport, FaultAct
<1>8. CASE DumperStep
  BY <1>1, <1>8 DEF DumperStep, DumperStarts, DumperGoesUp, DumperAtTop, DumperGoesDown, DumperHome
<1>9. CASE Environment
  BY <1>1, <1>9, <1>b, BatterySteps DEF Environment, GuidanceLost, EncoderError, PointArrival
<1>10. CASE UNCHANGED vars
  BY <1>1, <1>10 DEF vars
<1> QED  BY <1>4, <1>5, <1>6, <1>7, <1>8, <1>9, <1>10 DEF Next

(* What AgvPend is known by.                                               *)
LEMMA PendMoves ==
    ASSUME IInv, AgvPend
    PROVE  pc["agv"] = "idle" /\ pc'["agv"] = "handle" /\ pc["agvcp"] # "denied"
BY DEF AgvPend, IInv, TypeOK, TaskTypes, Goto, Issuers

LEMMA NextWakes ==
    ASSUME IInv, IInv', NoneLost, WakeInv, OnlyOrders, [Next]_vars
    PROVE  DeniedWakes' /\ QueueWakes'
<1> USE DEF WakeInv
<1>0. pc \in [Issuers -> AgvcpPlaces \cup AgvPlaces] /\ Issuers = {"agvcp", "agv"}
  BY DEF IInv, TypeOK, TaskTypes, Issuers
<1>a. ~AgvPend => (Coming => Coming')
  BY NextAnnounces, ComingStays
<1>b. AgvPend => pc["agv"] = "idle" /\ pc'["agv"] = "handle"
  BY PendMoves
<1>c. ASSUME UNCHANGED <<mtcmdQ, pc, evt>> PROVE DeniedWakes' /\ QueueWakes'
  BY <1>a, <1>b, <1>c DEF DeniedWakes, QueueWakes, Wakes, Issuing
<1> USE DEF cmdVars, taskVars, Goto
<1>d. CASE BatteryStep
  BY <1>c, <1>d, BatteryLeaves
<1>2. ASSUME NEW t \in Issuers, IssueStep(t) PROVE DeniedWakes' /\ QueueWakes'
  <2>1. pc[t] \in {"issue", "delay", "accepted", "charge"}
    BY <1>2 DEF IssueStep, IssueCharge, IssueRefused, IssueDenied, IssueStop, IssueUnload, IssueMove,
                Commit, ChargeOver
  <2>2. UNCHANGED <<mtcmdQ, evt>> /\ \A u \in Issuers : u # t => pc'[u] = pc[u]
    BY <1>0, <1>2 DEF IssueStep, IssueCharge, IssueRefused, IssueDenied, IssueStop, IssueUnload,
                IssueMove, Commit, ChargeOver, Answer
  <2>3. Coming => Coming'
    BY <1>0, <1>a, <1>b, <2>1, <2>2
  <2>4. Wakes'
    <3>1. CASE IssueCharge(t) \/ IssueMove(t)
      <4>1. Issuing(t)'
        BY <1>0, <3>1 DEF IssueCharge, IssueMove, Issuing
      <4> QED  BY <4>1 DEF Wakes
    <3>2. CASE IssueDenied(t) \/ IssueUnload(t) \/ Commit(t) \/ ChargeOver(t)
      BY <1>2, <3>2, IssueStepAnnounces DEF Wakes, Coming
    <3>3. ~IssueRefused(t)
      BY DEF IssueRefused, OnlyOrders
    <3>4. ~IssueStop(t)
      BY <2>1 DEF IssueStop, NoStops, Ordinary, Deciding
    <3> QED  BY <1>2, <3>1, <3>2, <3>3, <3>4 DEF IssueStep
  <2>5. DeniedWakes'
    <3>1. CASE pc'["agvcp"] = pc["agvcp"]
      BY <2>3, <3>1 DEF DeniedWakes
    <3>2. CASE t = "agvcp" /\ IssueDenied(t)
      BY <3>2, <1>2, IssueStepAnnounces DEF DeniedWakes, Coming
    <3>3. CASE t = "agvcp" /\ ~IssueDenied(t)
      <4>1. pc'["agvcp"] # "denied"
        BY <1>0, <1>2, <3>3 DEF IssueStep, IssueCharge, IssueRefused, IssueStop, IssueUnload,
                IssueMove, Commit, ChargeOver, Answer
      <4> QED  BY <4>1 DEF DeniedWakes
    <3> QED  BY <1>0, <2>2, <3>1, <3>2, <3>3
  <2> QED  BY <2>4, <2>5 DEF QueueWakes
<1>3. ASSUME NEW a \in Actions, Receive(a) PROVE DeniedWakes' /\ QueueWakes'
  <2>1. pc["agvcp"] = "idle" /\ pc'["agv"] = pc["agv"] /\ evt' = evt
    BY <1>0, <1>3 DEF Receive
  <2>2. DeniedWakes'
    BY <1>0, <1>3, <2>1 DEF Receive, DeniedWakes
  <2>3. QueueWakes'
    <3>1. CASE mtcmdQ = <<>>
      <4>1. pc'["agvcp"] = "issue"
        BY <1>0, <1>3, <3>1 DEF Receive
      <4> QED  BY <1>0, <4>1 DEF QueueWakes, Wakes, Issuing
    <3>2. CASE mtcmdQ # <<>>
      <4>1. pc' = pc
        BY <1>3, <3>2 DEF Receive, OnlyOrders
      <4> QED  BY <1>a, <1>b, <2>1, <3>2, <4>1 DEF QueueWakes, Wakes, Issuing
    <3> QED  BY <3>1, <3>2
  <2> QED  BY <2>2, <2>3
<1>4. CASE AgvcpStep
  <2>1. CASE AppendDenied
    <3>1. pc["agvcp"] = "denied" /\ pc'["agvcp"] = "idle" /\ pc'["agv"] = pc["agv"]
      BY <1>0, <2>1 DEF AppendDenied
    <3> QED  BY <1>a, <1>b, <3>1 DEF DeniedWakes, QueueWakes, Wakes
  <2>2. CASE AgvcpIssued
    <3>1. /\ pc["agvcp"] = "issued" /\ pc'["agvcp"] = "idle" /\ pc'["agv"] = pc["agv"]
          /\ UNCHANGED <<mtcmdQ, evt>>
      BY <1>0, <2>2 DEF AgvcpIssued
    <3> QED  BY <1>0, <1>a, <1>b, <3>1 DEF DeniedWakes, QueueWakes, Wakes, Issuing
  <2> QED  BY <1>2, <1>4, <1>d, <2>1, <2>2, BatterySteps DEF AgvcpStep, Issuers
<1>5. CASE AgvStep
  <2>1. CASE AgvPend
    <3>1. Coming => Coming' \/ evt'.kind = "ACTION_OVER"
      BY <2>1, PendTakes DEF Coming
    <3>2. /\ mtcmdQ' = mtcmdQ /\ pc'["agvcp"] = pc["agvcp"] /\ pc["agvcp"] # "denied"
          /\ pc["agv"] = "idle" /\ pc'["agv"] = "handle"
      BY <1>0, <2>1 DEF AgvPend
    <3> QED  BY <1>0, <3>1, <3>2 DEF DeniedWakes, QueueWakes, Wakes, Issuing
  <2>2. CASE AgvPop
    <3>1. /\ pc["agv"] = "handle" /\ pc'["agvcp"] = pc["agvcp"] /\ evt' = evt
          /\ pc'["agv"] \in {"state", "issue", "postback"}
          /\ pc'["agv"] = "state" => mtcmdQ' = <<>>
          /\ pc'["agv"] = "postback" => evt.kind # "ACTION_OVER" /\ mtcmdQ # <<>>
      BY <1>0, <2>2 DEF AgvPop
    <3>2. CASE pc'["agv"] = "issue"
      BY <1>0, <1>a, <1>b, <3>1, <3>2 DEF DeniedWakes, QueueWakes, Wakes, Issuing
    <3>3. CASE pc'["agv"] # "issue"
      BY <1>0, <1>a, <1>b, <3>1, <3>3 DEF DeniedWakes, QueueWakes, Wakes, Issuing
    <3> QED  BY <3>2, <3>3
  <2>3. CASE AgvPostBack
    <3>1. /\ pc["agv"] = "postback" /\ pc'["agv"] = "state" /\ pc'["agvcp"] = pc["agvcp"]
      BY <1>0, <2>3 DEF AgvPostBack
    <3> QED  BY <1>0, <1>a, <1>b, <3>1 DEF DeniedWakes, QueueWakes, Wakes, Issuing
  <2>4. CASE AgvFree \/ AgvState \/ AgvError \/ AgvRecovery \/ AgvNotify \/ AgvDone
    <3>1. /\ pc["agv"] \in {"issued", "state", "handle", "notify", "done"}
          /\ pc["agv"] = "handle" => evt.kind # "ACTION_OVER"
          /\ pc'["agvcp"] = pc["agvcp"] /\ pc'["agv"] \in {"state", "notify", "done", "idle"}
          /\ mtcmdQ' = mtcmdQ
      BY <1>0, <2>4 DEF AgvFree, AgvState, AgvError, AgvRecovery, AgvNotify, AgvDone
    <3> QED  BY <1>0, <1>a, <1>b, <3>1 DEF DeniedWakes, QueueWakes, Wakes, Issuing
  <2> QED  BY <1>2, <1>5, <1>d, <2>1, <2>2, <2>3, <2>4, BatterySteps DEF AgvStep, Issuers
<1>6. CASE WheelStep
  BY <1>c, <1>6 DEF WheelStep, StraightEnd, TurnStop, TurnOver, FaultReport, FaultAct
<1>7. CASE DumperStep
  BY <1>c, <1>7 DEF DumperStep, DumperStarts, DumperGoesUp, DumperAtTop, DumperGoesDown, DumperHome
<1>8. CASE Environment
  BY <1>c, <1>8, <1>d, BatterySteps DEF Environment, GuidanceLost, EncoderError, PointArrival
<1>9. CASE UNCHANGED vars
  BY <1>c, <1>9 DEF vars
<1> QED  BY <1>2, <1>3, <1>4, <1>5, <1>6, <1>7, <1>8, <1>9 DEF Next

(* While no event is lost, a command never waits for an ACTION_OVER that   *)
(* will not come: whatever agvcp and agv do meanwhile, with pools of every *)
(* size.                                                                   *)
THEOREM CommandsWakeAgv ==
    ASSUME OnlyOrders
    PROVE  Spec /\ []EventsLeft => []WakeupPending
<1> DEFINE Inv == IInv /\ WakeInv
<1>1. Init => Inv
  <2>1. Init => WakeInv
    BY DEF Init, WakeInv, NoFaultYet, NoStops, DeniedWakes, QueueWakes, Deciding, Issuers
  <2> QED  BY <2>1, InitIInv
<1>2. Inv /\ EventsLeft /\ EventsLeft' /\ [Next]_vars => Inv'
  <2> SUFFICES ASSUME Inv, EventsLeft, EventsLeft', [Next]_vars PROVE Inv'
    OBVIOUS
  <2>1. IInv'
    BY NextIInv
  <2>2. NoFaultYet' /\ NoStops'
    BY NextNoFault, NextNoStops DEF OnlyOrders, WakeInv
  <2>3. DeniedWakes' /\ QueueWakes'
    BY <2>1, NextWakes DEF NoneLost
  <2> QED  BY <2>1, <2>2, <2>3 DEF WakeInv
<1>3. Inv => WakeupPending
  BY DEF WakeInv, DeniedWakes, QueueWakes, Wakes, Coming, Active, EventQueued, Issuing, WakeupPending
<1> HIDE DEF Inv
<1> QED  BY <1>1, <1>2, <1>3, PTL DEF Spec

-----------------------------------------------------------------------------
(* The state in heartbeats: it says MOVING only if an event that corrects  *)
(* it is still to come, or agv is about to write it.                       *)

Working == {"issue", "delay", "accepted", "charge", "postback", "issued", "state"}
Moves   == {"GOSTRAIGHT", "GOBACKWARD", "UNLOAD"} \cup Turns

(* agv has an answer only between issue_command() and the state it writes, *)
(* and works on a command only for an event that lets it.                  *)
AgvAnswer ==
    /\ pc["agv"] \notin {"issued", "state"} => ret["agv"] = "none"
    /\ pc["agv"] \in Working => evt.kind \in {"ACTION_OVER", "POINT_ARRIVAL"}

(* Every point of a run is behind it an ACTION_OVER, or will have one.     *)
ArrivalsFirst ==
    \A i \in DOMAIN mtevtQ : mtevtQ[i].kind = "POINT_ARRIVAL" =>
        Active \/ \E j \in DOMAIN mtevtQ : i < j /\ mtevtQ[j].kind = "ACTION_OVER"
ArrivalHeld ==
    evt.kind = "POINT_ARRIVAL" /\ pc["agv"] \in Working \cup {"handle"} => Coming

(* What an issuer has started is under way, or its end is queued.          *)
AgvcpMoves ==
    pc["agvcp"] = "issued" /\ ret["agvcp"] \in {"GOSTRAIGHT"} \cup Turns => Coming
AgvMoves ==
    /\ pc["agv"] \in {"issued", "state"} /\ ret["agv"] \in Moves => Coming
    /\ pc["agv"] = "state" /\ ret["agv"] = "EINVAL" => Coming \/ EventQueued("ERROR")

(* What corrects the state is an ACTION_OVER or an error.                  *)
Corrected ==
    \/ Coming \/ EventQueued("ERROR")
    \/ pc["agv"] = "handle" /\ evt.kind \in {"ACTION_OVER", "ERROR"}
    \/ Issuing("agv") \/ pc["agv"] = "issued"
    \/ pc["agv"] = "state" /\ ret["agv"] \in {"STOP", "CHARGE", "STOP_CHARGE"}
    \/ pc["agv"] = "state" /\ ret["agv"] = "none" /\ evt.kind = "ACTION_OVER"
MovingEnds == work_state = "MOVING" => Corrected

MoveInv == /\ NoFaultYet /\ AgvAnswer /\ ArrivalsFirst /\ ArrivalHeld
           /\ AgvcpMoves /\ AgvMoves /\ MovingEnds

LEMMA NextArrivalsFirst ==
    ASSUME IInv, IInv', NoneLost, NoFaultYet, ArrivalsFirst, [Next]_vars
    PROVE  ArrivalsFirst'
<1>0. /\ DOMAIN mtevtQ = 1 .. Len(mtevtQ) /\ DOMAIN mtevtQ' = 1 .. Len(mtevtQ')
      /\ Len(mtevtQ) \in Nat /\ Len(mtevtQ') \in Nat
  BY QueueDomains
<1>1. CASE AgvPend
  <2> SUFFICES ASSUME NEW i \in DOMAIN mtevtQ', mtevtQ'[i].kind = "POINT_ARRIVAL", ~Active'
               PROVE  \E j \in DOMAIN mtevtQ' : i < j /\ mtevtQ'[j].kind = "ACTION_OVER"
    BY DEF ArrivalsFirst
  <2>1. i \in 1 .. Len(mtevtQ) - 1 /\ i + 1 \in DOMAIN mtevtQ /\ mtevtQ[i + 1].kind = "POINT_ARRIVAL"
    <3>1. i \in 1 .. Len(mtevtQ) - 1 /\ mtevtQ'[i] = mtevtQ[i + 1]
      BY <1>1, PendTakes
    <3> QED  BY <1>0, <3>1
  <2>2. PICK j \in DOMAIN mtevtQ : i + 1 < j /\ mtevtQ[j].kind = "ACTION_OVER"
    <3>1. ~Active
      BY <1>1, PendTakes
    <3> QED  BY <2>1, <3>1 DEF ArrivalsFirst
  <2>3. j - 1 \in 1 .. Len(mtevtQ) - 1 /\ (j - 1) + 1 = j /\ i < j - 1
    BY <1>0, <2>1, <2>2
  <2>4. mtevtQ'[j - 1] = mtevtQ[j] /\ j - 1 \in DOMAIN mtevtQ'
    BY <1>1, <2>3, PendTakes
  <2> QED  BY <2>2, <2>3, <2>4
<1>2. CASE ~AgvPend
  <2>1. Announces
    BY <1>2, NextAnnounces
  <2> SUFFICES ASSUME NEW i \in DOMAIN mtevtQ', mtevtQ'[i].kind = "POINT_ARRIVAL", ~Active'
               PROVE  \E j \in DOMAIN mtevtQ' : i < j /\ mtevtQ'[j].kind = "ACTION_OVER"
    BY DEF ArrivalsFirst
  <2>2. i \notin NewEvents
    BY <2>1 DEF Announces, NewArrival
  <2>3. i \in DOMAIN mtevtQ /\ mtevtQ[i] = mtevtQ'[i]
    BY <1>0, <2>1, <2>2 DEF NewEvents, Announces, Grows
  <2>4. CASE Active
    <3>1. PICK j \in NewEvents : mtevtQ'[j].kind = "ACTION_OVER"
      BY <2>1, <2>4 DEF Announces, NewOver
    <3> QED  BY <1>0, <2>3, <3>1 DEF NewEvents
  <2>5. CASE ~Active
    <3>1. PICK j \in DOMAIN mtevtQ : i < j /\ mtevtQ[j].kind = "ACTION_OVER"
      BY <2>3, <2>5 DEF ArrivalsFirst
    <3> QED  BY <1>0, <2>1, <3>1 DEF Announces, Grows
  <2> QED  BY <2>4, <2>5
<1> QED  BY <1>1, <1>2

(* A step of issue_command().                                              *)
LEMMA IssueStepMoves ==
    ASSUME IInv, IInv', NoneLost, MoveInv, NEW t \in Issuers, IssueStep(t)
    PROVE  AgvAnswer' /\ ArrivalHeld' /\ AgvcpMoves' /\ AgvMoves' /\ MovingEnds'
<1> USE DEF MoveInv
<1>0. /\ pc \in [Issuers -> AgvcpPlaces \cup AgvPlaces] /\ Issuers = {"agvcp", "agv"}
      /\ ret \in [Issuers -> AllActions \cup {"none", "EINVAL"}]
  BY DEF IInv, TypeOK, TaskTypes, Issuers
<1>1. (Coming => Coming') /\ (EventQueued("ERROR") => EventQueued("ERROR")')
  BY IssueStepAnnounces, ComingStays
<1>2. /\ pc[t] \in {"issue", "delay", "accepted", "charge"}
      /\ UNCHANGED <<evt, work_state>>
      /\ \A u \in Issuers : u # t => pc'[u] = pc[u] /\ ret'[u] = ret[u]
  BY <1>0 DEF IssueStep, IssueCharge, IssueRefused, IssueDenied, IssueStop, IssueUnload, IssueMove,
              Commit, ChargeOver, Answer, Goto, agvstat
<1>3. \/ pc'[t] \in {"charge", "delay", "accepted", "denied"} /\ ret' = ret
         /\ (pc'[t] = "denied" => t = "agvcp")
      \/ pc'[t] = "issued" /\ (ret'[t] \in {"EINVAL", "STOP", "CHARGE", "STOP_CHARGE"} \/ Coming')
  <2>1. CASE IssueCharge(t) \/ IssueMove(t)
    BY <1>0, <2>1 DEF IssueCharge, IssueMove, Goto
  <2>2. CASE IssueRefused(t) \/ IssueStop(t)
    BY <1>0, <2>2 DEF IssueRefused, IssueStop, Answer, Goto
  <2>3. CASE IssueDenied(t)
    <3>1. Coming'
      BY <2>3, IssueStepAnnounces DEF Coming
    <3> QED  BY <1>0, <2>3, <3>1 DEF IssueDenied, Answer, Goto
  <2>4. CASE IssueUnload(t) \/ Commit(t) \/ ChargeOver(t)
    <3>1. Coming'
      BY <2>4, IssueStepAnnounces DEF Coming
    <3> QED  BY <1>0, <2>4, <3>1 DEF IssueUnload, Commit, ChargeOver, Answer, Goto
  <2> QED  BY <2>1, <2>2, <2>3, <2>4 DEF IssueStep
<1>4. CASE t = "agvcp"
  <2>1. pc'["agv"] = pc["agv"] /\ ret'["agv"] = ret["agv"]
    BY <1>0, <1>2, <1>4
  <2>2. AgvAnswer' /\ ArrivalHeld' /\ AgvMoves' /\ MovingEnds'
    BY <1>1, <1>2, <2>1 DEF AgvAnswer, ArrivalHeld, AgvMoves, MovingEnds, Corrected, Issuing
  <2>3. AgvcpMoves'
    BY <1>3, <1>4 DEF AgvcpMoves, Turns
  <2> QED  BY <2>2, <2>3
<1>5. CASE t = "agv"
  <2>1. pc'["agvcp"] = pc["agvcp"] /\ ret'["agvcp"] = ret["agvcp"]
    BY <1>0, <1>2, <1>5
  <2>2. AgvAnswer' /\ ArrivalHeld' /\ AgvcpMoves'
    BY <1>1, <1>2, <1>3, <1>5, <2>1 DEF AgvAnswer, ArrivalHeld, AgvcpMoves, Working
  <2>3. AgvMoves'
    BY <1>3, <1>5 DEF AgvMoves, Moves, Turns
  <2>4. MovingEnds'
    BY <1>3, <1>5 DEF MovingEnds, Corrected, Issuing
  <2> QED  BY <2>2, <2>3, <2>4
<1> QED  BY <1>0, <1>4, <1>5

LEMMA NextMoves ==
    ASSUME IInv, IInv', NoneLost, MoveInv, [Next]_vars
    PROVE  AgvAnswer' /\ ArrivalHeld' /\ AgvcpMoves' /\ AgvMoves' /\ MovingEnds'
<1> DEFINE Kept == AgvAnswer' /\ ArrivalHeld' /\ AgvcpMoves' /\ AgvMoves' /\ MovingEnds'
<1> USE DEF MoveInv
<1>0. /\ pc \in [Issuers -> AgvcpPlaces \cup AgvPlaces] /\ Issuers = {"agvcp", "agv"}
      /\ pc["agvcp"] \in AgvcpPlaces /\ pc["agv"] \in AgvPlaces
      /\ ret \in [Issuers -> AllActions \cup {"none", "EINVAL"}]
  BY DEF IInv, TypeOK, TaskTypes, Issuers
<1>a. ~AgvPend => (Coming => Coming') /\ (EventQueued("ERROR") => EventQueued("ERROR")')
  BY NextAnnounces, ComingStays
<1>b. AgvPend => pc["agv"] = "idle" /\ pc'["agv"] = "handle"
  BY PendMoves
<1>c. ASSUME UNCHANGED <<pc["agv"], ret["agv"], evt, work_state>>,
             pc'["agvcp"] = "issued" => pc["agvcp"] = "issued" /\ ret'["agvcp"] = ret["agvcp"]
      PROVE  Kept
  BY <1>a, <1>b, <1>c DEF AgvAnswer, ArrivalHeld, AgvcpMoves, AgvMoves, MovingEnds, Corrected, Issuing
<1> USE DEF taskVars, agvstat, Goto
<1>d. CASE BatteryStep
  <2>1. UNCHANGED <<pc, ret, evt, work_state>>
    BY <1>d, BatteryLeaves
  <2> QED  BY <1>c, <2>1
<1>2. ASSUME NEW t \in Issuers, IssueStep(t) PROVE Kept
  BY <1>2, IssueStepMoves
<1>3. ASSUME NEW a \in Actions, Receive(a) PROVE Kept
  BY <1>0, <1>3, <1>c DEF Receive
<1>4. CASE AgvcpStep
  <2>1. CASE AppendDenied
    BY <1>0, <2>1, <1>c DEF AppendDenied
  <2>2. CASE AgvcpIssued
    <3>1. /\ pc["agvcp"] = "issued" /\ pc'["agvcp"] = "idle"
          /\ UNCHANGED <<pc["agv"], ret["agv"], evt>>
      BY <1>0, <2>2 DEF AgvcpIssued
    <3>2. work_state' = "MOVING" => work_state = "MOVING" \/ Coming
      BY <2>2 DEF AgvcpIssued, AgvcpMoves
    <3> QED
      BY <1>a, <1>b, <3>1, <3>2 DEF AgvAnswer, ArrivalHeld, AgvcpMoves, AgvMoves, MovingEnds,
                                    Corrected, Issuing
  <2> QED  BY <1>2, <1>4, <1>d, <2>1, <2>2, BatterySteps DEF AgvcpStep, Issuers
<1>5. CASE AgvStep
  <2>1. CASE AgvPend
    <3>1. /\ Coming => Coming' \/ evt'.kind = "ACTION_OVER"
          /\ EventQueued("ERROR") => EventQueued("ERROR")' \/ evt'.kind = "ERROR"
      BY <2>1, PendTakes DEF Coming
    <3>2. /\ UNCHANGED <<work_state, ret>> /\ pc'["agvcp"] = pc["agvcp"] /\ pc["agvcp"] # "issued"
          /\ pc["agv"] = "idle" /\ pc'["agv"] = "handle"
      BY <1>0, <2>1 DEF AgvPend
    <3>3. ArrivalHeld'
      <4> SUFFICES ASSUME evt'.kind = "POINT_ARRIVAL" PROVE Coming'
        BY DEF ArrivalHeld
      <4>1. CASE Active
        BY <2>1, <4>1, PendTakes DEF Coming
      <4>2. CASE ~Active
        <5>1. PICK j \in DOMAIN mtevtQ : mtevtQ[j].kind = "ACTION_OVER"
          BY <2>1, <4>2, PendTakes DEF ArrivalsFirst
        <5> QED  BY <2>1, <5>1, PendTakes DEF Coming, EventQueued
      <4> QED  BY <4>1, <4>2
    <3> QED
      BY <3>1, <3>2, <3>3 DEF AgvAnswer, AgvcpMoves, AgvMoves, MovingEnds, Corrected, Issuing, Working
  <2> USE <1>a, <1>b
  <2>2. CASE AgvPop
    <3>1. /\ pc["agv"] = "handle" /\ pc'["agvcp"] = pc["agvcp"]
          /\ UNCHANGED <<evt, ret, work_state>>
          /\ evt.kind \in {"ACTION_OVER", "POINT_ARRIVAL"}
          /\ pc'["agv"] \in {"state", "issue", "postback"}
          /\ pc'["agv"] = "postback" => evt.kind # "ACTION_OVER"
      BY <1>0, <2>2 DEF AgvPop
    <3>2. AgvAnswer' /\ ArrivalHeld' /\ AgvcpMoves' /\ AgvMoves'
      BY <3>1 DEF AgvAnswer, ArrivalHeld, AgvcpMoves, AgvMoves, Working, Moves, Turns
    <3>3. MovingEnds'
      BY <3>1 DEF AgvAnswer, ArrivalHeld, MovingEnds, Corrected, Issuing
    <3> QED  BY <3>2, <3>3
  <2>3. CASE AgvPostBack
    <3>1. /\ pc["agv"] = "postback" /\ pc'["agv"] = "state" /\ pc'["agvcp"] = pc["agvcp"]
          /\ UNCHANGED <<evt, ret, work_state>>
      BY <1>0, <2>3 DEF AgvPostBack
    <3>2. ret["agv"] = "none" /\ evt.kind \in {"ACTION_OVER", "POINT_ARRIVAL"}
      BY <3>1 DEF AgvAnswer, Working
    <3> QED
      BY <3>1, <3>2 DEF AgvAnswer, ArrivalHeld, AgvcpMoves, AgvMoves, MovingEnds, Corrected, Issuing,
                        Working, Moves, Turns
  <2>4. CASE AgvFree
    <3>1. /\ pc["agv"] = "issued" /\ pc'["agv"] = "state" /\ pc'["agvcp"] = pc["agvcp"]
          /\ UNCHANGED <<evt, ret, work_state>>
      BY <1>0, <2>4 DEF AgvFree
    <3>2. ret["agv"] = "EINVAL" => EventQueued("ERROR")'
      <4> SUFFICES ASSUME ret["agv"] = "EINVAL" PROVE EventQueued("ERROR")'
        OBVIOUS
      <4>1. Error("WAY_POINT") \in Events /\ Error("WAY_POINT").kind = "ERROR"
        BY DEF Error, Events, AllAlarms
      <4>2. PostEvt(Error("WAY_POINT"))
        BY <2>4 DEF AgvFree
      <4>3. Len(mtevtQ') \in NewEvents /\ mtevtQ'[Len(mtevtQ')].kind = "ERROR"
        BY <4>1, <4>2, Posted DEF NoneLost
      <4> QED  BY <4>3, QueueDomains DEF NewEvents, EventQueued
    <3>3. /\ ret["agv"] \in Moves \cup {"STOP", "CHARGE", "STOP_CHARGE", "none", "EINVAL"}
          /\ evt.kind \in {"ACTION_OVER", "POINT_ARRIVAL"}
      BY <1>0, <3>1 DEF AllActions, Moves, Straights, Turns, Charges, AgvAnswer, Working
    <3> QED
      BY <3>1, <3>2, <3>3 DEF AgvAnswer, ArrivalHeld, AgvcpMoves, AgvMoves, MovingEnds, Corrected,
                              Issuing, Working
  <2>5. CASE AgvState
    <3>1. /\ pc["agv"] = "state" /\ pc'["agv"] = "notify" /\ pc'["agvcp"] = pc["agvcp"]
          /\ evt' = evt /\ ret'["agv"] = "none" /\ ret'["agvcp"] = ret["agvcp"]
      BY <1>0, <2>5 DEF AgvState
    <3>2. /\ ret["agv"] \in Moves \cup {"STOP", "CHARGE", "STOP_CHARGE", "none", "EINVAL"}
          /\ evt.kind \in {"ACTION_OVER", "POINT_ARRIVAL"}
      BY <1>0, <3>1 DEF AllActions, Moves, Straights, Turns, Charges, AgvAnswer, Working
    <3>3. work_state' = "MOVING" =>
             \/ ret["agv"] \in Moves \cup {"EINVAL"}
             \/ ret["agv"] = "none" /\ evt.kind = "POINT_ARRIVAL"
      BY <2>5, <3>2 DEF AgvState
    <3>4. work_state' = "MOVING" => Coming \/ EventQueued("ERROR")
      BY <3>1, <3>3 DEF AgvMoves, ArrivalHeld, Working
    <3> QED
      BY <3>1, <3>4 DEF AgvAnswer, ArrivalHeld, AgvcpMoves, AgvMoves, MovingEnds, Corrected,
                        Issuing, Working
  <2>6. CASE AgvError \/ AgvRecovery \/ AgvNotify \/ AgvDone
    <3>1. /\ pc["agv"] \in {"handle", "notify", "done"} /\ pc'["agv"] \in {"notify", "done", "idle"}
          /\ pc'["agvcp"] = pc["agvcp"] /\ ret' = ret
          /\ pc["agv"] = "handle" /\ work_state' = "MOVING" => evt.kind = "ERROR_RECOVERY"
          /\ work_state' = "MOVING" => work_state = "MOVING"
      BY <1>0, <2>6 DEF AgvError, AgvRecovery, AgvNotify, AgvDone
    <3> QED
      BY <3>1 DEF AgvAnswer, ArrivalHeld, AgvcpMoves, AgvMoves, MovingEnds, Corrected, Issuing, Working
  <2> QED  BY <1>2, <1>5, <1>d, <2>1, <2>2, <2>3, <2>4, <2>5, <2>6, BatterySteps DEF AgvStep, Issuers
<1>6. CASE WheelStep
  BY <1>c, <1>6 DEF WheelStep, StraightEnd, TurnStop, TurnOver, FaultReport, FaultAct
<1>7. CASE DumperStep
  BY <1>c, <1>7 DEF DumperStep, DumperStarts, DumperGoesUp, DumperAtTop, DumperGoesDown, DumperHome
<1>8. CASE Environment
  BY <1>c, <1>8, <1>d, BatterySteps DEF Environment, GuidanceLost, EncoderError, PointArrival
<1>9. CASE UNCHANGED vars
  BY <1>c, <1>9 DEF vars
<1> QED  BY <1>2, <1>3, <1>4, <1>5, <1>6, <1>7, <1>8, <1>9 DEF Next

-----------------------------------------------------------------------------
(* The battery alarm: if the last event of the watch that agv has not      *)
(* worked off is the alarm, or if there is none and agvstat.error has it,  *)
(* then the flag of the watch is set, or is about to be.                   *)

LastBms(i) == /\ mtevtQ[i].arg = "BMS"
              /\ \A j \in DOMAIN mtevtQ : i < j => mtevtQ[j].arg # "BMS"
Raised(e) == e.kind = "ERROR"

NoBms == \A i \in DOMAIN mtevtQ : mtevtQ[i].arg # "BMS"
Due   == bms_error \/ \E t \in Watchers : watch[t] = "set"
Told  == IF pc["agv"] = "handle" /\ evt.arg = "BMS" THEN Raised(evt) ELSE "BMS" \in error

BmsQueued == \A i \in DOMAIN mtevtQ : LastBms(i) /\ Raised(mtevtQ[i]) => Due
BmsHeld   == NoBms /\ Told => Due
BmsInv    == BmsQueued /\ BmsHeld /\ ~recovering

(* Only the watch on the battery posts events about it, sets its flag or   *)
(* clears it.                                                              *)
OthersPost == /\ Grows /\ (Due => Due') /\ recovering' = recovering
              /\ \A i \in NewEvents : mtevtQ'[i].arg # "BMS"

LEMMA FlagKept ==
    ASSUME UNCHANGED <<bms_error, watch>>
    PROVE  Due => Due'
BY DEF Due

(* Who begins a query was not between the post and the flag.               *)
LEMMA SilentKeepsFlag ==
    ASSUME IInv, NEW t \in Watchers, Silent(t)
    PROVE  (Due => Due') /\ recovering' = recovering
<1>1. watch \in [Watchers -> {"idle", "post", "set"}]
  BY DEF IInv, TypeOK, MotionTypes
<1>2. \A u \in Watchers : watch[u] = "set" => watch'[u] = "set"
  BY <1>1 DEF Silent
<1> QED  BY <1>2 DEF Due, Silent

LEMMA OtherPosted ==
    ASSUME IInv, EventsLeft, NEW e \in Events, e.arg # "BMS", PostEvt(e), UNCHANGED bmsVars
    PROVE  OthersPost
BY Posted, FlagKept DEF OthersPost, bmsVars

LEMMA NonePosted ==
    ASSUME IInv, mtevtQ' = mtevtQ, UNCHANGED bmsVars
    PROVE  OthersPost
BY NothingPosted, FlagKept DEF OthersPost, bmsVars

LEMMA NextOthersPost ==
    ASSUME IInv, NoneLost, [Next]_vars, ~AgvPend, ~BatteryStep
    PROVE  OthersPost
<1> USE DEF NoneLost
<1>0. /\ Error("WAY_POINT") \in Events /\ Error("WAY_POINT").arg # "BMS"
      /\ Error("ENCODER") \in Events /\ Error("ENCODER").arg # "BMS"
      /\ Arrival \in Events /\ Arrival.arg # "BMS"
  BY DEF Error, Arrival, Events, AllAlarms
<1>a. ASSUME NEW a \in AllActions PROVE Over(a) \in Events /\ Over(a).arg # "BMS"
  BY DEF Over, Events, AllActions, Straights, Turns, Charges
<1> USE DEF envVars, evtVars
<1>1. ASSUME NEW a \in Actions, Receive(a) PROVE OthersPost
  BY <1>1, NonePosted DEF Receive
<1>2. ASSUME NEW t \in Issuers, IssueStep(t) PROVE OthersPost
  <2>1. CASE ChargeOver(t)
    <3>1. cur[t].act \in AllActions
      BY <2>1 DEF ChargeOver, IInv, TypeOK, TaskTypes, Deciding, Command
    <3> QED  BY <1>a, <2>1, <3>1, OtherPosted DEF ChargeOver
  <2>2. CASE IssueCharge(t)
    <3>1. CASE Silent(t)
      BY <2>2, <3>1, SilentKeepsFlag, NothingPosted DEF IssueCharge, Watchers, OthersPost
    <3> QED  BY <2>2, <3>1, NonePosted DEF IssueCharge
  <2>3. CASE ~ChargeOver(t) /\ ~IssueCharge(t)
    BY <1>2, <2>3, NonePosted DEF IssueStep, IssueRefused, IssueDenied, IssueStop,
                                  IssueUnload, IssueMove, Commit
  <2> QED  BY <2>1, <2>2, <2>3
<1>3. CASE AgvcpStep
  <2>1. CASE AppendDenied
    BY <2>1, NonePosted DEF AppendDenied
  <2>2. CASE AgvcpIssued
    BY <2>2, <1>0, NonePosted, OtherPosted DEF AgvcpIssued
  <2> QED  BY <1>2, <1>3, <2>1, <2>2, BatterySteps DEF AgvcpStep, Issuers
<1>4. CASE AgvStep
  <2>1. CASE AgvPop \/ AgvPostBack \/ AgvState \/ AgvError \/ AgvRecovery \/ AgvNotify \/ AgvDone
    BY <2>1, NonePosted DEF AgvPop, AgvPostBack, AgvState, AgvError, AgvRecovery, AgvNotify, AgvDone
  <2>2. CASE AgvFree
    BY <2>2, <1>0, NonePosted, OtherPosted DEF AgvFree
  <2> QED  BY <1>2, <1>4, <2>1, <2>2, BatterySteps DEF AgvStep, Issuers
<1>5. CASE WheelStep
  <2>1. CASE StraightEnd
    <3>1. Motionstyle \in AllActions
      BY <2>1 DEF StraightEnd, AllActions
    <3> QED  BY <1>a, <2>1, <3>1, OtherPosted DEF StraightEnd
  <2>2. CASE TurnStop \/ FaultAct
    BY <2>2, NonePosted DEF TurnStop, FaultAct
  <2>3. CASE TurnOver
    <3>1. turning \in AllActions
      BY <2>3 DEF TurnOver, IInv, TypeOK, MotionTypes, AllActions
    <3> QED  BY <1>a, <2>3, <3>1, OtherPosted DEF TurnOver
  <2>4. CASE FaultReport
    <3>1. missing \in {"OUT_OF_TRACK", "GS_COMM_BREAK"}
      BY <2>4 DEF FaultReport, IInv, TypeOK, MotionTypes
    <3>2. Error(missing) \in Events /\ Error(missing).arg # "BMS"
      BY <3>1 DEF Error, Events, AllAlarms
    <3> QED  BY <2>4, <3>2, OtherPosted DEF FaultReport
  <2> QED  BY <1>5, <2>1, <2>2, <2>3, <2>4 DEF WheelStep
<1>6. CASE DumperStep
  <2>1. CASE DumperGoesDown
    BY <1>a, <2>1, OtherPosted DEF DumperGoesDown, AllActions
  <2>2. CASE DumperStarts \/ DumperGoesUp \/ DumperAtTop \/ DumperHome
    BY <2>2, NonePosted DEF DumperStarts, DumperGoesUp, DumperAtTop, DumperHome
  <2> QED  BY <1>6, <2>1, <2>2 DEF DumperStep
<1>7. CASE Environment
  <2>1. CASE GuidanceLost
    BY <2>1, NonePosted DEF GuidanceLost
  <2>2. CASE EncoderError
    BY <2>2, <1>0, OtherPosted DEF EncoderError
  <2>3. CASE PointArrival
    <3>1. UNCHANGED bmsVars
      BY <2>3 DEF PointArrival
    <3>2. CASE PostErrorAndArrival
      BY <1>0, <3>1, <3>2, TwoPosted, FlagKept DEF OthersPost, bmsVars
    <3>3. CASE PostEvt(Arrival)
      BY <1>0, <3>1, <3>3, OtherPosted
    <3> QED  BY <2>3, <3>2, <3>3 DEF PointArrival
  <2> QED  BY <1>7, <2>1, <2>2, <2>3, BatterySteps DEF Environment
<1>8. CASE UNCHANGED vars
  BY <1>8, NonePosted DEF vars
<1> QED  BY <1>1, <1>3, <1>4, <1>5, <1>6, <1>7, <1>8 DEF Next

(* agv takes an event.                                                     *)
LEMMA PendBms ==
    ASSUME IInv, IInv', BmsInv, AgvPend
    PROVE  BmsInv'
<1>1. UNCHANGED <<bms_error, watch, recovering>> /\ error' = error
  BY DEF AgvPend, envVars, bmsVars, agvstat
<1>a. Due' = Due
  BY <1>1 DEF Due
<1>2. ASSUME NEW i \in DOMAIN mtevtQ', LastBms(i)', Raised(mtevtQ'[i]) PROVE Due'
  <2>1. i \in 1 .. Len(mtevtQ) - 1 /\ i + 1 \in DOMAIN mtevtQ /\ mtevtQ'[i] = mtevtQ[i + 1]
    BY PendTakes, QueueDomains
  <2>2. ASSUME NEW j \in DOMAIN mtevtQ, i + 1 < j PROVE mtevtQ[j].arg # "BMS"
    <3>1. j - 1 \in 1 .. Len(mtevtQ) - 1 /\ (j - 1) + 1 = j /\ i < j - 1
      BY <2>1, <2>2, QueueDomains
    <3>2. mtevtQ'[j - 1] = mtevtQ[j] /\ j - 1 \in DOMAIN mtevtQ'
      BY <3>1, PendTakes
    <3> QED  BY <1>2, <3>1, <3>2 DEF LastBms
  <2>3. LastBms(i + 1) /\ Raised(mtevtQ[i + 1])
    BY <1>2, <2>1, <2>2 DEF LastBms
  <2> QED  BY <1>a, <2>1, <2>3 DEF BmsInv, BmsQueued
<1>3. BmsHeld'
  <2> SUFFICES ASSUME NoBms', IF evt'.arg = "BMS" THEN Raised(evt)' ELSE "BMS" \in error'
               PROVE  Due'
    BY PendTakes DEF BmsHeld, Told
  <2>1. ASSUME NEW j \in DOMAIN mtevtQ, j # 1 PROVE mtevtQ[j].arg # "BMS"
    <3>1. j - 1 \in 1 .. Len(mtevtQ) - 1 /\ (j - 1) + 1 = j
      BY <2>1, QueueDomains
    <3>2. mtevtQ'[j - 1] = mtevtQ[j] /\ j - 1 \in DOMAIN mtevtQ'
      BY <3>1, PendTakes
    <3> QED  BY <3>2 DEF NoBms
  <2>2. CASE evt'.arg = "BMS"
    <3>1. LastBms(1) /\ 1 \in DOMAIN mtevtQ /\ Raised(mtevtQ[1])
      BY <2>1, <2>2, PendTakes DEF LastBms, Raised
    <3> QED  BY <1>a, <3>1 DEF BmsInv, BmsQueued
  <2>3. CASE evt'.arg # "BMS"
    <3>1. NoBms
      BY <2>1, <2>3, PendTakes DEF NoBms
    <3>2. pc["agv"] # "handle"
      BY PendMoves
    <3> QED  BY <1>1, <1>a, <2>3, <3>1, <3>2 DEF BmsInv, BmsHeld, Told
  <2> QED  BY <2>2, <2>3
<1> QED  BY <1>1, <1>2, <1>3 DEF BmsInv, BmsQueued

(* Nothing about the battery is posted: what was the last stays the last.  *)
LEMMA OthersKeepBms ==
    ASSUME IInv, IInv', BmsInv, OthersPost, Told' => Told
    PROVE  BmsInv'
<1>1. ASSUME NEW i \in DOMAIN mtevtQ', mtevtQ'[i].arg = "BMS"
      PROVE  i \in DOMAIN mtevtQ /\ mtevtQ'[i] = mtevtQ[i]
  BY <1>1, QueueDomains DEF OthersPost, Grows, NewEvents
<1>2. \A i \in DOMAIN mtevtQ : i \in DOMAIN mtevtQ' /\ mtevtQ'[i] = mtevtQ[i]
  BY QueueDomains DEF OthersPost, Grows
<1>3. ASSUME NEW i \in DOMAIN mtevtQ', LastBms(i)', Raised(mtevtQ'[i]) PROVE Due'
  <2>1. i \in DOMAIN mtevtQ /\ mtevtQ'[i] = mtevtQ[i] /\ LastBms(i)
    BY <1>1, <1>2, <1>3 DEF LastBms
  <2> QED  BY <1>3, <2>1 DEF BmsInv, BmsQueued, OthersPost
<1>4. NoBms' => NoBms
  BY <1>2 DEF NoBms
<1> QED  BY <1>3, <1>4 DEF BmsInv, BmsQueued, BmsHeld, OthersPost

(* The watch raises its alarm, or takes it back.                           *)
LEMMA WatchBms ==
    ASSUME IInv, IInv', NoneLost, BmsInv, BatteryStep
    PROVE  BmsInv'
<1>1. UNCHANGED <<pc, evt, error>> /\ (Told' => Told)
  BY BatteryLeaves DEF taskVars, agvstat, Told, Raised
<1>2. CASE BmsTimeout
  <2>1. OthersPost
    BY <1>2, SilentKeepsFlag, NothingPosted DEF BmsTimeout, Watchers, evtVars, OthersPost
  <2> QED  BY <1>1, <2>1, OthersKeepBms
<1>3. ASSUME NEW t \in Watchers, QueryStep(t) PROVE BmsInv'
  <2>1. watch \in [Watchers -> {"idle", "post", "set"}]
    BY DEF IInv, TypeOK, MotionTypes
  <2>2. Due' /\ recovering' = recovering
    BY <1>3, <2>1 DEF QueryStep, BmsPost, BmsSet, Due
  <2> QED  BY <2>2 DEF BmsInv, BmsQueued, BmsHeld
<1>4. CASE BmsRecovers
  <2> DEFINE e == Recovery("BMS")
  <2>1. e \in Events /\ e.arg = "BMS" /\ ~Raised(e)
    BY DEF Recovery, Events, AllAlarms, Raised
  <2>2. PostEvt(e) /\ recovering' = recovering
    BY <1>4, EventQueue DEF BmsRecovers, NoneLost, EventsLeft
  <2> HIDE DEF e
  <2>3. NewEvents = {Len(mtevtQ')} /\ mtevtQ'[Len(mtevtQ')] = e
    BY <2>1, <2>2, Posted DEF NoneLost
  <2>4. Len(mtevtQ') \in DOMAIN mtevtQ'
    BY <2>3, QueueDomains DEF NewEvents
  <2>5. ASSUME NEW i \in DOMAIN mtevtQ', LastBms(i)' PROVE i = Len(mtevtQ')
    BY <2>1, <2>3, <2>4, <2>5, QueueDomains DEF LastBms
  <2>6. BmsQueued' /\ BmsHeld'
    BY <2>1, <2>3, <2>4, <2>5 DEF BmsQueued, BmsHeld, NoBms, Raised
  <2> QED  BY <2>2, <2>6 DEF BmsInv
<1>5. ~BmsClears
  BY DEF BmsInv, BmsClears
<1> QED  BY <1>2, <1>3, <1>4, <1>5 DEF BatteryStep

LEMMA NextBms ==
    ASSUME IInv, IInv', NoneLost, BmsInv, [Next]_vars
    PROVE  BmsInv'
<1>0. /\ pc \in [Issuers -> AgvcpPlaces \cup AgvPlaces] /\ Issuers = {"agvcp", "agv"}
      /\ (pc["agv"] = "handle" => evt \in Events)
  BY DEF IInv, TypeOK, TaskTypes, Issuers
<1>1. CASE AgvPend
  BY <1>1, PendBms
<1>2. CASE BatteryStep
  BY <1>2, WatchBms
<1>3. CASE ~AgvPend /\ ~BatteryStep
  <2>1. OthersPost
    BY <1>3, NextOthersPost
  <2>2. Told' <=> Told
    <3>1. ASSUME UNCHANGED <<pc["agv"], evt, error>> PROVE Told' <=> Told
      BY <3>1 DEF Raised, Told
    <3>2. ASSUME pc["agv"] # "handle", pc'["agv"] # "handle", error' = error PROVE Told' <=> Told
      BY <3>2 DEF Told
    <3> USE DEF agvstat, taskVars, Goto
    <3>3. ASSUME NEW t \in Issuers, IssueStep(t) PROVE Told' <=> Told
      <4>1. evt' = evt /\ error' = error
        BY <3>3 DEF IssueStep, IssueCharge, IssueRefused, IssueDenied, IssueStop, IssueUnload,
                    IssueMove, Commit, ChargeOver, Answer
      <4>2. t = "agv" => pc["agv"] # "handle" /\ pc'["agv"] # "handle"
        BY <1>0, <3>3 DEF IssueStep, IssueCharge, IssueRefused, IssueDenied, IssueStop, IssueUnload,
                    IssueMove, Commit, ChargeOver, Answer
      <4>3. t = "agvcp" => pc'["agv"] = pc["agv"]
        BY <1>0, <3>3 DEF IssueStep, IssueCharge, IssueRefused, IssueDenied, IssueStop, IssueUnload,
                    IssueMove, Commit, ChargeOver, Answer
      <4> QED  BY <1>0, <3>1, <3>2, <4>1, <4>2, <4>3
    <3>4. ASSUME NEW a \in Actions, Receive(a) PROVE Told' <=> Told
      BY <1>0, <3>1, <3>4 DEF Receive
    <3>5. CASE AgvcpStep
      BY <1>0, <1>3, <3>1, <3>3, <3>5, BatterySteps DEF AgvcpStep, AppendDenied, AgvcpIssued
    <3>6. CASE AgvStep
      <4>1. CASE AgvPop
        <5>1. pc["agv"] = "handle" /\ pc'["agv"] # "handle" /\ error' = error /\ evt.arg # "BMS"
          BY <1>0, <4>1 DEF AgvPop, Events, AllActions, Straights, Turns, Charges
        <5> QED  BY <5>1 DEF Told
      <4>2. CASE AgvError
        BY <1>0, <4>2 DEF AgvError, Raised, Told
      <4>3. CASE AgvRecovery
        BY <1>0, <4>3 DEF AgvRecovery, Raised, Told
      <4>4. CASE AgvPostBack \/ AgvFree \/ AgvState \/ AgvNotify \/ AgvDone
        BY <1>0, <3>2, <4>4 DEF AgvPostBack, AgvFree, AgvState, AgvNotify, AgvDone
      <4> QED  BY <1>0, <1>3, <3>3, <3>6, <4>1, <4>2, <4>3, <4>4, BatterySteps DEF AgvStep
    <3>7. CASE WheelStep
      BY <3>1, <3>7 DEF WheelStep, StraightEnd, TurnStop, TurnOver, FaultReport, FaultAct
    <3>8. CASE DumperStep
      BY <3>1, <3>8 DEF DumperStep, DumperStarts, DumperGoesUp, DumperAtTop, DumperGoesDown, DumperHome
    <3>9. CASE Environment
      BY <1>3, <3>1, <3>9, BatterySteps DEF Environment, GuidanceLost, EncoderError, PointArrival
    <3>10. CASE UNCHANGED vars
      BY <3>1, <3>10 DEF vars
    <3> QED  BY <3>4, <3>5, <3>6, <3>7, <3>8, <3>9, <3>10 DEF Next
  <2> QED  BY <2>1, <2>2, OthersKeepBms
<1> QED  BY <1>1, <1>2, <1>3

(* While no event is lost, agv shows a battery alarm only if the watch     *)
(* holds it, or will, as soon as it has worked off the events between them.*)
LEMMA BmsInvHolds == Spec /\ []EventsLeft => []BmsInv
<1>1. Init => IInv /\ BmsInv
  BY InitIInv DEF Init, BmsInv, BmsQueued, BmsHeld, Told, NoEvt, Issuers
<1>2. IInv /\ BmsInv /\ EventsLeft /\ EventsLeft' /\ [Next]_vars => IInv' /\ BmsInv'
  BY NextIInv, NextBms DEF NoneLost
<1> QED  BY <1>1, <1>2, PTL DEF Spec

(* What the vehicle reports of itself agrees with what it does, while no   *)
(* event is lost and the guidance holds: when nothing is under way it does *)
(* not say MOVING, whatever order agvcp and agv wrote the state in, and a  *)
(* battery alarm it shows is held by the watch, which takes it back with   *)
(* the next frame, in whatever order the tasks posted it and set the flag. *)
THEOREM StatusSound ==
    ASSUME GuidanceHolds
    PROVE  Spec /\ []EventsLeft => []StatusAgrees
<1> DEFINE Inv == IInv /\ MoveInv
<1>1. Init => Inv
  <2>1. Init => MoveInv
    BY DEF Init, MoveInv, NoFaultYet, AgvAnswer, ArrivalsFirst, ArrivalHeld, AgvcpMoves, AgvMoves,
           MovingEnds, Working, Issuers
  <2> QED  BY <2>1, InitIInv
<1>2. Inv /\ EventsLeft /\ EventsLeft' /\ [Next]_vars => Inv'
  <2> SUFFICES ASSUME Inv, EventsLeft, EventsLeft', [Next]_vars PROVE Inv'
    OBVIOUS
  <2>1. IInv' /\ NoFaultYet'
    BY NextIInv, NextNoFault DEF MoveInv
  <2>2. ArrivalsFirst'
    BY <2>1, NextArrivalsFirst DEF NoneLost, MoveInv
  <2>3. AgvAnswer' /\ ArrivalHeld' /\ AgvcpMoves' /\ AgvMoves' /\ MovingEnds'
    BY <2>1, NextMoves DEF NoneLost
  <2> QED  BY <2>1, <2>2, <2>3 DEF MoveInv
<1>3. Inv /\ BmsInv => StatusAgrees
  <2>1. MoveInv => QuietNotMoving
    BY DEF MoveInv, MovingEnds, Corrected, Coming, Active, EventQueued, Issuing, Quiet,
           QuietNotMoving, Issuers
  <2>2. BmsInv => BmsAgrees
    BY DEF BmsInv, BmsHeld, BmsAgrees, BmsSettled, NoBms, Told, Due
  <2> QED  BY <2>1, <2>2 DEF StatusAgrees
<1> HIDE DEF Inv
<1> QED  BY <1>1, <1>2, <1>3, BmsInvHolds, PTL DEF Spec

-----------------------------------------------------------------------------
(* When the pool of events does last: a command brings one event at most,  *)
(* a code point two, and an alarm of the battery two.                      *)

Bit(b)       == IF b THEN 1 ELSE 0
OwnsEvent(t) == pc[t] \in Deciding \/ (pc[t] = "issued" /\ ret[t] = "EINVAL")

(* Blocks of evtmem in use, and those that the commands, what is under way *)
(* and the alarm may still take.  A task that has found the battery silent *)
(* takes one for the alarm, and the flag it sets will cost another.        *)
InUse   == EvtBlocks - evtfree
Orders  == Len(mtcmdQ) + Bit(OwnsEvent("agvcp")) + Bit(OwnsEvent("agv"))
Motions == Bit(Motionstyle # "ONSTOPING") + Bit(turning # "none") + Bit(nReverseFlag)
             + Bit(dumper \in {"MOVINGUP", "TOP"})
Cost(t) == IF watch[t] = "post" THEN 2 ELSE IF watch[t] = "set" THEN 1 ELSE 0
Up      == IF bms_error /\ ~recovering THEN 1 ELSE 0
Alarm   == Up + Cost("agvcp") + Cost("agv") + Cost("bms")

Fits(use, orders, motions, alarm, cmds, ins) ==
    use + orders + motions + alarm <= cmds + 2 * ins

Budget    == Fits(InUse, Orders, Motions, Alarm, sent, inputs)
BudgetInv == NoFaultYet /\ Budget /\ (dumper = "STARTING" => nReverseFlag)

(* Only what is modelled as bounded posts events.                          *)
BoundedEvents == GuidanceHolds /\ "ENCODER" \notin Alarms

(* The arithmetic of a step.  A task that spends what its command may take *)
(* has a queue of length len and owns own events.                          *)
Spends(use, len, own, cmds, use1, len1, own1, cmds1) ==
    use1 + len1 + own1 <= use + len + own + (cmds1 - cmds)

LEMMA SpendsQueue ==
    ASSUME NEW use \in Int, NEW len \in Int, NEW own \in Int, NEW cmds \in Int,
           NEW use1 \in Int, NEW len1 \in Int, NEW own1 \in Int, NEW cmds1 \in Int,
           use1 = use, len1 + own1 <= len + own + (cmds1 - cmds)
    PROVE  Spends(use, len, own, cmds, use1, len1, own1, cmds1)
BY DEF Spends

LEMMA SpendsEvent ==
    ASSUME NEW use \in Int, NEW len \in Int, NEW own \in Int, NEW cmds \in Int,
           NEW use1 \in Int, NEW len1 \in Int, NEW own1 \in Int, NEW cmds1 \in Int,
           len1 = len, cmds1 = cmds, use1 + own1 <= use + own
    PROVE  Spends(use, len, own, cmds, use1, len1, own1, cmds1)
BY DEF Spends

Sums(orders, len, own, other) == orders = len + own + other

LEMMA SumsSwap ==
    ASSUME NEW orders \in Int, NEW len \in Int, NEW own \in Int, NEW other \in Int,
           Sums(orders, len, own, other)
    PROVE  Sums(orders, len, other, own)
BY DEF Sums

Pays(use, orders, cmds, use1, orders1, cmds1) ==
    use1 + orders1 <= use + orders + (cmds1 - cmds)

LEMMA PaysTask ==
    ASSUME NEW use \in Int, NEW len \in Int, NEW own \in Int, NEW cmds \in Int,
           NEW use1 \in Int, NEW len1 \in Int, NEW own1 \in Int, NEW cmds1 \in Int,
           NEW other \in Int, NEW orders, NEW orders1,
           Spends(use, len, own, cmds, use1, len1, own1, cmds1),
           Sums(orders, len, own, other), Sums(orders1, len1, own1, other)
    PROVE  Pays(use, orders, cmds, use1, orders1, cmds1)
BY DEF Spends, Sums, Pays

LEMMA FitsTask ==
    ASSUME NEW use \in Int, NEW orders \in Int, NEW cmds \in Int, NEW use1 \in Int,
           NEW orders1 \in Int, NEW cmds1 \in Int, NEW motions \in Int, NEW alarm \in Int,
           NEW ins \in Int, Fits(use, orders, motions, alarm, cmds, ins),
           Pays(use, orders, cmds, use1, orders1, cmds1)
    PROVE  Fits(use1, orders1, motions, alarm, cmds1, ins)
BY DEF Pays, Fits

(* A command is handed over: it may post one event, now or at its end.     *)
Hands(orders, orders1, own) == orders1 = orders - 1 + own /\ own \in {0, 1}
OneMore(n, n1)              == n1 <= n + 1

LEMMA FitsIssue ==
    ASSUME NEW use \in Int, NEW orders \in Int, NEW motions \in Int, NEW alarm \in Int,
           NEW cmds \in Int, NEW ins \in Int, NEW orders1 \in Int, NEW own \in Int,
           Hands(orders, orders1, own), Fits(use, orders, motions, alarm, cmds, ins)
    PROVE  /\ Fits(use, orders1, motions, alarm, cmds, ins)
           /\ \A use1 \in Int : own = 0 /\ OneMore(use, use1)
                                  => Fits(use1, orders1, motions, alarm, cmds, ins)
           /\ \A motions1 \in Int : own = 0 /\ OneMore(motions, motions1)
                                      => Fits(use, orders1, motions1, alarm, cmds, ins)
BY DEF Fits, Hands, OneMore

(* A movement ends and posts its event.                                    *)
Over1(use, motions, use1, motions1) == use1 <= use + 1 /\ motions1 = motions - 1

LEMMA FitsMotions ==
    ASSUME NEW use \in Int, NEW orders \in Int, NEW motions \in Int, NEW alarm \in Int,
           NEW cmds \in Int, NEW ins \in Int, NEW use1 \in Int, NEW motions1 \in Int,
           Fits(use, orders, motions, alarm, cmds, ins), Over1(use, motions, use1, motions1)
    PROVE  Fits(use1, orders, motions1, alarm, cmds, ins)
BY DEF Fits, Over1

(* A code point is passed, or the battery's alarm moves on.                *)
Enters(use, alarm, ins, use1, alarm1, ins1) ==
    \/ use1 <= use + 2 /\ ins1 = ins + 1 /\ alarm1 = alarm
    \/ use1 = use /\ ins1 = ins + 1 /\ alarm1 = alarm + 2
    \/ use1 <= use + 1 /\ ins1 = ins /\ alarm1 = alarm - 1
    \/ use1 = use /\ ins1 = ins /\ alarm1 <= alarm

LEMMA FitsInputs ==
    ASSUME NEW use \in Int, NEW orders \in Int, NEW motions \in Int, NEW alarm \in Int,
           NEW cmds \in Int, NEW ins \in Int, NEW use1 \in Int, NEW alarm1 \in Int,
           NEW ins1 \in Int, Fits(use, orders, motions, alarm, cmds, ins),
           Enters(use, alarm, ins, use1, alarm1, ins1)
    PROVE  Fits(use1, orders, motions, alarm1, cmds, ins1)
BY DEF Fits, Enters

LEMMA FitsUse ==
    ASSUME NEW use \in Int, NEW orders \in Int, NEW motions \in Int, NEW alarm \in Int,
           NEW cmds \in Int, NEW ins \in Int, NEW maxCmds \in Nat, NEW maxIns \in Nat,
           Fits(use, orders, motions, alarm, cmds, ins), cmds <= maxCmds, ins <= maxIns,
           orders >= 0, motions >= 0, alarm >= 0
    PROVE  use <= maxCmds + 2 * maxIns
BY DEF Fits

LEMMA BudgetTypes ==
    ASSUME IInv
    PROVE  /\ InUse \in Int /\ Orders \in Nat /\ Motions \in Nat /\ Alarm \in Nat
           /\ sent \in Nat /\ inputs \in Nat /\ Len(mtcmdQ) \in Nat
           /\ Orders \in Int /\ Motions \in Int /\ Alarm \in Int
           /\ sent \in Int /\ inputs \in Int /\ Len(mtcmdQ) \in Int
<1> USE DispatchAssumption DEF IInv, TypeOK, QueueTypes, HistTypes
<1>1. InUse \in Int /\ Len(mtcmdQ) \in Nat /\ sent \in Nat /\ inputs \in Nat
  BY DEF InUse
<1>2. Alarm \in Nat
  BY DEF Alarm, Up, Cost
<1>3. Bit(OwnsEvent("agvcp")) \in Nat /\ Bit(OwnsEvent("agv")) \in Nat
  BY DEF Bit
<1>4. Motions \in Nat
  BY DEF Motions, Bit
<1> QED  BY <1>1, <1>2, <1>3, <1>4 DEF Orders

(* The same, after a step.                                                 *)
LEMMA BudgetTypesNext ==
    ASSUME IInv'
    PROVE  /\ InUse' \in Int /\ Orders' \in Nat /\ Motions' \in Nat /\ Alarm' \in Nat
           /\ sent' \in Nat /\ inputs' \in Nat /\ Len(mtcmdQ') \in Nat
           /\ Orders' \in Int /\ Motions' \in Int /\ Alarm' \in Int
           /\ sent' \in Int /\ inputs' \in Int /\ Len(mtcmdQ') \in Int
<1> USE DispatchAssumption DEF IInv, TypeOK, QueueTypes, HistTypes
<1>1. InUse' \in Int /\ Len(mtcmdQ') \in Nat /\ sent' \in Nat /\ inputs' \in Nat
  BY DEF InUse
<1>2. Alarm' \in Nat
  BY DEF Alarm, Up, Cost
<1>3. Bit(OwnsEvent("agvcp")') \in Nat /\ Bit(OwnsEvent("agv")') \in Nat
  BY DEF Bit
<1>4. Motions' \in Nat
  BY DEF Motions, Bit
<1> QED  BY <1>1, <1>3, <1>2, <1>4 DEF Orders

LEMMA OnePost ==
    ASSUME IInv, NEW e, PostEvt(e)
    PROVE  InUse' <= InUse + 1
BY DispatchAssumption DEF PostEvt, InUse, evtVars, IInv, TypeOK, QueueTypes

LEMMA TwoPosts ==
    ASSUME IInv, PostErrorAndArrival
    PROVE  InUse' <= InUse + 2
BY DispatchAssumption DEF PostErrorAndArrival, PostEvt, InUse, evtVars, IInv, TypeOK, QueueTypes

LEMMA EnqueueCost ==
    ASSUME IInv, NEW c \in Command, Enqueue(c)
    PROVE  Len(mtcmdQ') <= Len(mtcmdQ) + 1 /\ Len(mtcmdQ') \in Nat
<1>1. mtcmdQ \in Seq(Command) /\ Len(mtcmdQ) \in Nat
  BY DEF IInv, TypeOK, QueueTypes
<1>2. <<c>> \in Seq(Command) /\ Len(<<c>>) = 1
  OBVIOUS
<1>3. mtcmdQ' \in {mtcmdQ, Append(mtcmdQ, c), <<c>> \o mtcmdQ}
  BY DEF Enqueue, PostCmd, PostCmdFront, cmdVars
<1>4. Len(<<c>> \o mtcmdQ) = 1 + Len(mtcmdQ)
  BY <1>1, <1>2, ConcatProperties
<1> QED  BY <1>1, <1>3, <1>4

(* A battery found silent: the input pays for what the alarm will cost.    *)
LEMMA SilentCost ==
    ASSUME IInv, NEW t \in Watchers, Silent(t)
    PROVE  inputs' = inputs + 1 /\ Alarm' = Alarm + 2
<1>1. /\ watch \in [Watchers -> {"idle", "post", "set"}]
      /\ Watchers = {"agvcp", "agv", "bms"}
  BY DEF IInv, TypeOK, MotionTypes, Watchers, Issuers
<1>2. /\ watch[t] = "idle" /\ watch' = [watch EXCEPT ![t] = "post"]
      /\ inputs' = inputs + 1 /\ UNCHANGED <<bms_error, recovering>>
  BY DEF Silent
<1>3. Cost(t)' = Cost(t) + 2
  BY <1>1, <1>2 DEF Cost
<1>4. \A u \in Watchers : u # t => Cost(u)' = Cost(u)
  BY <1>1, <1>2 DEF Cost
<1>5. \A u \in Watchers : Cost(u) \in Nat
  BY DEF Cost
<1>6. Up' = Up
      /\ Up \in Nat
  BY <1>2 DEF Up
<1> QED  BY <1>1, <1>2, <1>3, <1>4, <1>5, <1>6 DEF Alarm

(* Whatever the watch does costs no more than has been set aside for it.   *)
LEMMA BatteryBudget ==
    ASSUME IInv, IInv', BatteryStep
    PROVE  Enters(InUse, Alarm, inputs, InUse', Alarm', inputs')
<1>1. /\ watch \in [Watchers -> {"idle", "post", "set"}]
      /\ Watchers = {"agvcp", "agv", "bms"}
  BY DEF IInv, TypeOK, MotionTypes, Watchers, Issuers
<1>i. /\ InUse \in Int /\ Alarm \in Int /\ inputs \in Int
      /\ InUse' \in Int /\ Alarm' \in Int /\ inputs' \in Int
  BY BudgetTypes, BudgetTypesNext
<1>b. /\ Up \in {0, 1}
      /\ Up' \in {0, 1}
  BY DEF Up
<1>n. \A u \in Watchers : Cost(u) \in Nat /\ Cost(u)' \in Nat
  BY DEF Cost
<1>u. UNCHANGED evtVars => InUse' = InUse
  BY DEF evtVars, InUse
<1>2. CASE BmsTimeout
  <2>1. inputs' = inputs + 1 /\ Alarm' = Alarm + 2
    BY <1>1, <1>2, SilentCost DEF BmsTimeout
  <2>2. InUse' = InUse
    BY <1>2, <1>u DEF BmsTimeout
  <2> QED  BY <1>i, <2>1, <2>2 DEF Enters
<1>3. CASE BmsRecovers
  <2>1. watch' = watch /\ inputs' = inputs
    BY <1>3 DEF BmsRecovers
  <2>2. \A u \in Watchers : Cost(u)' = Cost(u)
    BY <2>1 DEF Cost
  <2>3. /\ Up = 1
        /\ Up' = 0
    BY <1>3 DEF BmsRecovers, Up
  <2>4. Alarm' = Alarm - 1
    BY <1>1, <1>n, <2>2, <2>3 DEF Alarm
  <2>5. InUse' <= InUse + 1
    <3>1. CASE PostEvt(Recovery("BMS"))
      BY <3>1, OnePost
    <3>2. CASE UNCHANGED evtVars
      BY <1>i, <1>u, <3>2
    <3> QED  BY <1>3, <3>1, <3>2 DEF BmsRecovers
  <2> QED  BY <1>i, <2>1, <2>4, <2>5 DEF Enters
<1>4. CASE BmsClears
  <2>1. UNCHANGED <<watch, inputs, evtVars>>
    BY <1>4 DEF BmsClears
  <2>2. \A u \in Watchers : Cost(u)' = Cost(u)
    BY <2>1 DEF Cost
  <2>3. Up' = 0
    BY <1>4 DEF BmsClears, Up
  <2>4. Alarm' <= Alarm
    BY <1>1, <1>b, <1>n, <2>2, <2>3 DEF Alarm
  <2> QED  BY <1>i, <1>u, <2>1, <2>4 DEF Enters
<1>5. ASSUME NEW t \in Watchers, BmsPost(t) PROVE Enters(InUse, Alarm, inputs, InUse', Alarm', inputs')
  <2>1. /\ watch[t] = "post" /\ watch' = [watch EXCEPT ![t] = "set"]
        /\ UNCHANGED <<bms_error, recovering, inputs>>
    BY <1>5 DEF BmsPost
  <2>2. Cost(t) = 2 /\ Cost(t)' = 1
    BY <1>1, <2>1 DEF Cost
  <2>3. \A u \in Watchers : u # t => Cost(u)' = Cost(u)
    BY <1>1, <2>1 DEF Cost
  <2>4. Up' = Up
    BY <2>1 DEF Up
  <2>5. Alarm' = Alarm - 1
    BY <1>1, <1>b, <1>n, <2>2, <2>3, <2>4 DEF Alarm
  <2>6. InUse' <= InUse + 1
    BY <1>5, OnePost DEF BmsPost
  <2> QED  BY <1>i, <2>1, <2>5, <2>6 DEF Enters
<1>6. ASSUME NEW t \in Watchers, BmsSet(t) PROVE Enters(InUse, Alarm, inputs, InUse', Alarm', inputs')
  <2>1. /\ watch[t] = "set" /\ watch' = [watch EXCEPT ![t] = "idle"]
        /\ UNCHANGED <<evtVars, inputs>>
    BY <1>6 DEF BmsSet
  <2>2. Cost(t) = 1 /\ Cost(t)' = 0
    BY <1>1, <2>1 DEF Cost
  <2>3. \A u \in Watchers : u # t => Cost(u)' = Cost(u)
    BY <1>1, <2>1 DEF Cost
  <2>4. Alarm' <= Alarm
    BY <1>1, <1>b, <1>n, <2>2, <2>3 DEF Alarm
  <2> QED  BY <1>i, <1>u, <2>1, <2>4 DEF Enters
<1> QED  BY <1>2, <1>3, <1>4, <1>5, <1>6 DEF BatteryStep, QueryStep

(* Handing a command over: its event is posted, or its movement will.      *)
LEMMA IssueStepBudget ==
    ASSUME IInv, IInv', NEW t \in Issuers, IssueStep(t), Budget
    PROVE  Budget'
<1>0. /\ pc \in [Issuers -> AgvcpPlaces \cup AgvPlaces] /\ Issuers = {"agvcp", "agv"}
      /\ ret \in [Issuers -> AllActions \cup {"none", "EINVAL"}]
  BY DEF IInv, TypeOK, TaskTypes, Issuers
<1>i. /\ InUse \in Int /\ Orders \in Int /\ Motions \in Int /\ Alarm \in Int
      /\ sent \in Int /\ inputs \in Int /\ Len(mtcmdQ) \in Int
      /\ InUse' \in Int /\ Orders' \in Int /\ Motions' \in Int /\ Alarm' \in Int
      /\ sent' \in Int /\ inputs' \in Int /\ Len(mtcmdQ') \in Int
  BY BudgetTypes, BudgetTypesNext
<1>b. Fits(InUse, Orders, Motions, Alarm, sent, inputs)
  BY DEF Budget
<1>1. /\ UNCHANGED <<mtcmdQ, sent, dumper, turning>>
      /\ \A u \in Issuers : u # t => pc'[u] = pc[u] /\ ret'[u] = ret[u]
      /\ pc[t] \in Deciding
  BY <1>0 DEF IssueStep, IssueCharge, IssueRefused, IssueDenied, IssueStop, IssueUnload, IssueMove,
              Commit, ChargeOver, Answer, Goto, cmdVars, envVars, histVars, motionVars, wheelVars,
              dumperVars, Deciding
<1>2. Orders' = Orders - 1 + Bit(OwnsEvent(t)')
  <2>1. Bit(OwnsEvent(t)) = 1
    BY <1>1 DEF Bit, OwnsEvent
  <2>2. \A u \in Issuers : u # t => Bit(OwnsEvent(u)') = Bit(OwnsEvent(u))
    BY <1>1 DEF Bit, OwnsEvent
  <2>3. \A u \in Issuers : Bit(OwnsEvent(u)) \in Nat /\ Bit(OwnsEvent(u)') \in Nat
    BY DEF Bit
  <2>4. CASE t = "agvcp"
    BY <1>0, <1>1, <2>1, <2>2, <2>3, <2>4, BudgetTypes DEF Orders
  <2>5. CASE t = "agv"
    BY <1>0, <1>1, <2>1, <2>2, <2>3, <2>5, BudgetTypes DEF Orders
  <2> QED  BY <1>0, <2>4, <2>5
<1>o. Bit(OwnsEvent(t)') \in {0, 1} /\ Bit(OwnsEvent(t)') \in Int
  BY DEF Bit
<1>a. UNCHANGED envVars => Alarm' = Alarm /\ sent' = sent /\ inputs' = inputs
  BY <1>1 DEF Alarm, Up, Cost, envVars, bmsVars
<1>h. Hands(Orders, Orders', Bit(OwnsEvent(t)'))
  BY <1>2, <1>o DEF Hands
<1>3. CASE IssueCharge(t) \/ IssueMove(t) \/ IssueRefused(t) \/ IssueStop(t) \/ IssueDenied(t)
  <2>1. UNCHANGED <<evtfree, Motionstyle, nReverseFlag>>
    BY <1>3 DEF IssueCharge, IssueMove, IssueRefused, IssueStop, IssueDenied, evtVars, motionVars,
                wheelVars, dumperVars
  <2>2. InUse' = InUse /\ Motions' = Motions
    BY <1>1, <2>1 DEF InUse, Motions
  <2>3. Fits(InUse, Orders', Motions, Alarm, sent, inputs)
    BY <1>i, <1>b, <1>o, <1>h, FitsIssue
  <2>4. CASE UNCHANGED envVars
    BY <1>a, <2>2, <2>3, <2>4 DEF Budget
  <2>5. CASE Silent(t)
    <3>1. inputs' = inputs + 1 /\ Alarm' = Alarm + 2
      BY <2>5, SilentCost DEF Watchers
    <3>2. Enters(InUse, Alarm, inputs, InUse, Alarm', inputs')
      BY <1>i, <3>1 DEF Enters
    <3>3. Fits(InUse, Orders', Motions, Alarm', sent, inputs')
      BY <1>i, <2>3, <3>2, FitsInputs
    <3> QED  BY <1>1, <2>2, <3>3 DEF Budget
  <2> QED  BY <1>3, <2>4, <2>5 DEF IssueCharge, IssueMove, IssueRefused, IssueStop, IssueDenied
<1>4. CASE IssueUnload(t) \/ Commit(t) \/ ChargeOver(t)
  <2>1. Bit(OwnsEvent(t)') = 0
    <3>1. cur[t].act \in AllActions
      BY <1>4 DEF IssueUnload, Commit, ChargeOver, IInv, TypeOK, TaskTypes, Deciding, Command
    <3>2. pc'[t] = "issued" /\ ret'[t] # "EINVAL"
      BY <1>0, <1>4, <3>1 DEF IssueUnload, Commit, ChargeOver, Answer, Goto, AllActions, Straights,
                              Turns, Charges
    <3> QED  BY <3>2 DEF Bit, OwnsEvent, Deciding
  <2>v. UNCHANGED envVars
    BY <1>4 DEF IssueUnload, Commit, ChargeOver
  <2>2. CASE ChargeOver(t)
    <3>1. InUse' <= InUse + 1
      BY <2>2, OnePost DEF ChargeOver
    <3>2. Motions' = Motions
      BY <2>2 DEF ChargeOver, Motions, motionVars, wheelVars, dumperVars
    <3>4. OneMore(InUse, InUse')
      BY <3>1 DEF OneMore
    <3>3. Fits(InUse', Orders', Motions, Alarm, sent, inputs)
      BY <1>i, <1>b, <1>o, <1>h, <2>1, <3>4, FitsIssue
    <3> QED  BY <1>a, <2>v, <3>2, <3>3 DEF Budget
  <2>3. CASE IssueUnload(t) \/ Commit(t)
    <3>1. InUse' = InUse
      BY <1>1, <2>3 DEF IssueUnload, Commit, InUse, evtVars
    <3>2. Motions' <= Motions + 1
      BY <1>1, <2>3 DEF IssueUnload, Commit, Motions, Bit, wheelVars, dumperVars
    <3>4. OneMore(Motions, Motions')
      BY <3>2 DEF OneMore
    <3>3. Fits(InUse, Orders', Motions', Alarm, sent, inputs)
      BY <1>i, <1>b, <1>o, <1>h, <2>1, <3>4, FitsIssue
    <3> QED  BY <1>a, <2>v, <3>1, <3>3 DEF Budget
  <2> QED  BY <1>4, <2>2, <2>3
<1> QED  BY <1>3, <1>4 DEF IssueStep

LEMMA NextBudget ==
    ASSUME IInv, IInv', BoundedEvents, BudgetInv, [Next]_vars
    PROVE  Budget'
<1> USE DEF BudgetInv, Goto
<1>0. /\ pc \in [Issuers -> AgvcpPlaces \cup AgvPlaces] /\ Issuers = {"agvcp", "agv"}
      /\ cur \in [Issuers -> Command \cup {NoCmd}]
      /\ ret \in [Issuers -> AllActions \cup {"none", "EINVAL"}]
      /\ mtcmdQ \in Seq(Command) /\ pc["agvcp"] \in AgvcpPlaces /\ sent \in Nat
  BY DispatchAssumption DEF IInv, TypeOK, TaskTypes, QueueTypes, HistTypes, Issuers
<1>t. /\ InUse \in Int /\ Orders \in Nat /\ Motions \in Nat /\ Alarm \in Nat
      /\ sent \in Nat /\ inputs \in Nat /\ Len(mtcmdQ) \in Nat
  BY BudgetTypes
<1>n. /\ InUse' \in Int /\ Orders' \in Nat /\ Motions' \in Nat /\ Alarm' \in Nat
      /\ sent' \in Nat /\ inputs' \in Nat /\ Len(mtcmdQ') \in Nat
  BY BudgetTypesNext
<1>i. /\ InUse \in Int /\ Orders \in Int /\ Motions \in Int /\ Alarm \in Int
      /\ sent \in Int /\ inputs \in Int /\ Len(mtcmdQ) \in Int
      /\ InUse' \in Int /\ Orders' \in Int /\ Motions' \in Int /\ Alarm' \in Int
      /\ sent' \in Int /\ inputs' \in Int /\ Len(mtcmdQ') \in Int
  BY BudgetTypes, BudgetTypesNext
<1>o. \A t \in Issuers : Bit(OwnsEvent(t)) \in {0, 1} /\ Bit(OwnsEvent(t)') \in {0, 1}
  BY DEF Bit
<1>p. \A t \in Issuers : pc'[t] = pc[t] /\ ret'[t] = ret[t]
                            => Bit(OwnsEvent(t)') = Bit(OwnsEvent(t))
  BY DEF Bit, OwnsEvent
<1>m. UNCHANGED motionVars => Motions' = Motions
  BY DEF motionVars, wheelVars, dumperVars, Motions
<1>e. /\ UNCHANGED evtVars => InUse' = InUse
      /\ UNCHANGED envVars => Alarm' = Alarm /\ inputs' = inputs
  BY DEF evtVars, InUse, envVars, bmsVars, Alarm, Up, Cost
<1>b. Fits(InUse, Orders, Motions, Alarm, sent, inputs)
  BY DEF Budget
(* What agvcp or agv does to its command, and what may be posted.          *)
<1>1. ASSUME NEW t \in Issuers, \A u \in Issuers : u # t => pc'[u] = pc[u] /\ ret'[u] = ret[u],
             UNCHANGED <<motionVars, envVars>>,
             Spends(InUse, Len(mtcmdQ), Bit(OwnsEvent(t)), sent,
                    InUse', Len(mtcmdQ'), Bit(OwnsEvent(t)'), sent')
      PROVE  Budget'
  <2>1. Motions' = Motions /\ Alarm' = Alarm /\ inputs' = inputs
    BY <1>1, <1>m, <1>e
  <2>2. /\ Bit(OwnsEvent("agvcp")) \in Int /\ Bit(OwnsEvent("agvcp")') \in Int
        /\ Bit(OwnsEvent("agv")) \in Int /\ Bit(OwnsEvent("agv")') \in Int
    BY DEF Bit
  <2>3. CASE t = "agvcp"
    <3>1. Bit(OwnsEvent("agv")') = Bit(OwnsEvent("agv"))
      BY <1>0, <1>1, <1>p, <2>3
    <3>2. /\ Orders = Len(mtcmdQ) + Bit(OwnsEvent("agvcp")) + Bit(OwnsEvent("agv"))
          /\ Orders' = Len(mtcmdQ') + Bit(OwnsEvent("agvcp")') + Bit(OwnsEvent("agv")')
      BY DEF Orders
    <3>3. Spends(InUse, Len(mtcmdQ), Bit(OwnsEvent("agvcp")), sent,
                 InUse', Len(mtcmdQ'), Bit(OwnsEvent("agvcp")'), sent')
      BY <1>1, <2>3
    <3>4. /\ Sums(Orders, Len(mtcmdQ), Bit(OwnsEvent("agvcp")), Bit(OwnsEvent("agv")))
          /\ Sums(Orders', Len(mtcmdQ'), Bit(OwnsEvent("agvcp")'), Bit(OwnsEvent("agv")))
      BY <3>1, <3>2 DEF Sums
    <3>5. Pays(InUse, Orders, sent, InUse', Orders', sent')
      BY <1>i, <2>2, <3>3, <3>4, PaysTask
    <3>6. Fits(InUse', Orders', Motions, Alarm, sent', inputs)
      BY <1>b, <1>i, <3>5, FitsTask
    <3> QED  BY <2>1, <3>6 DEF Budget
  <2>4. CASE t = "agv"
    <3>1. Bit(OwnsEvent("agvcp")') = Bit(OwnsEvent("agvcp"))
      BY <1>0, <1>1, <1>p, <2>4
    <3>2. /\ Orders = Len(mtcmdQ) + Bit(OwnsEvent("agvcp")) + Bit(OwnsEvent("agv"))
          /\ Orders' = Len(mtcmdQ') + Bit(OwnsEvent("agvcp")') + Bit(OwnsEvent("agv")')
      BY DEF Orders
    <3>3. Spends(InUse, Len(mtcmdQ), Bit(OwnsEvent("agv")), sent,
                 InUse', Len(mtcmdQ'), Bit(OwnsEvent("agv")'), sent')
      BY <1>1, <2>4
    <3>4. /\ Sums(Orders, Len(mtcmdQ), Bit(OwnsEvent("agv")), Bit(OwnsEvent("agvcp")))
          /\ Sums(Orders', Len(mtcmdQ'), Bit(OwnsEvent("agv")'), Bit(OwnsEvent("agvcp")))
      <4>1. /\ Sums(Orders, Len(mtcmdQ), Bit(OwnsEvent("agvcp")), Bit(OwnsEvent("agv")))
            /\ Sums(Orders', Len(mtcmdQ'), Bit(OwnsEvent("agvcp")), Bit(OwnsEvent("agv")'))
        BY <3>1, <3>2 DEF Sums
      <4> QED  BY <1>i, <2>2, <4>1, SumsSwap
    <3>5. Pays(InUse, Orders, sent, InUse', Orders', sent')
      BY <1>i, <2>2, <3>3, <3>4, PaysTask
    <3>6. Fits(InUse', Orders', Motions, Alarm, sent', inputs)
      BY <1>b, <1>i, <3>5, FitsTask
    <3> QED  BY <2>1, <3>6 DEF Budget
  <2> QED  BY <1>0, <2>3, <2>4
(* It only passes its command on.                                          *)
<1>q. ASSUME NEW t \in Issuers, \A u \in Issuers : u # t => pc'[u] = pc[u] /\ ret'[u] = ret[u],
             UNCHANGED <<evtVars, motionVars, envVars>>,
             Len(mtcmdQ') + Bit(OwnsEvent(t)') <= Len(mtcmdQ) + Bit(OwnsEvent(t)) + (sent' - sent)
      PROVE  Budget'
  <2>1. InUse' = InUse
    BY <1>q, <1>e
  <2>2. Bit(OwnsEvent(t)) \in Int /\ Bit(OwnsEvent(t)') \in Int
    BY DEF Bit
  <2>3. Spends(InUse, Len(mtcmdQ), Bit(OwnsEvent(t)), sent,
               InUse', Len(mtcmdQ'), Bit(OwnsEvent(t)'), sent')
    BY <1>q, <1>i, <2>1, <2>2, SpendsQueue, Zenon
  <2> QED  BY <1>1, <1>q, <2>3
(* It answers, or is done with an event.                                   *)
<1>v. ASSUME NEW t \in Issuers, \A u \in Issuers : u # t => pc'[u] = pc[u] /\ ret'[u] = ret[u],
             UNCHANGED <<mtcmdQ, motionVars, envVars, sent>>,
             InUse' + Bit(OwnsEvent(t)') <= InUse + Bit(OwnsEvent(t))
      PROVE  Budget'
  <2>2. Bit(OwnsEvent(t)) \in Int /\ Bit(OwnsEvent(t)') \in Int
    BY DEF Bit
  <2>4. Len(mtcmdQ') = Len(mtcmdQ) /\ sent' = sent
    BY <1>v
  <2>3. Spends(InUse, Len(mtcmdQ), Bit(OwnsEvent(t)), sent,
               InUse', Len(mtcmdQ'), Bit(OwnsEvent(t)'), sent')
    BY <1>v, <1>i, <2>2, <2>4, SpendsEvent, Zenon
  <2> QED  BY <1>1, <1>v, <2>3
<1>2. ASSUME NEW t \in Issuers, IssueStep(t) PROVE Budget'
  BY <1>2, IssueStepBudget
(* A code point, or the watch.                                             *)
<1>w. ASSUME UNCHANGED <<mtcmdQ, pc, ret, sent, motionVars>>,
             Enters(InUse, Alarm, inputs, InUse', Alarm', inputs')
      PROVE  Budget'
  <2>1. Orders' = Orders /\ Motions' = Motions
    BY <1>w, <1>m DEF Orders, OwnsEvent
  <2>2. Fits(InUse', Orders, Motions, Alarm', sent, inputs')
    BY <1>w, <1>b, <1>i, FitsInputs
  <2> QED  BY <1>w, <2>1, <2>2 DEF Budget
<1>11. CASE BatteryStep
  BY <1>w, <1>11, BatteryLeaves, BatteryBudget DEF cmdVars, taskVars, histVars
<1>3. ASSUME NEW a \in Actions, Receive(a) PROVE Budget'
  <2> DEFINE c == [id |-> sent + 1, act |-> a]
  <2>1. c \in Command
    BY <1>0, <1>3, DispatchAssumption DEF Receive, Command, Ids
  <2>2. /\ pc["agvcp"] = "idle" /\ sent' = sent + 1 /\ UNCHANGED <<evtVars, motionVars, envVars>>
        /\ pc'["agv"] = pc["agv"] /\ ret' = ret
    BY <1>0, <1>3 DEF Receive
  <2>3. Bit(OwnsEvent("agvcp")) = 0
    BY <2>2 DEF Bit, OwnsEvent, Deciding
  <2>4. Len(mtcmdQ') + Bit(OwnsEvent("agvcp")') <= Len(mtcmdQ) + 1
    <3>1. CASE a = "STOP" \/ mtcmdQ = <<>>
      <4>1. mtcmdQ' = mtcmdQ
        BY <1>3, <3>1 DEF Receive, cmdVars
      <4> QED  BY <1>0, <1>t, <1>o, <4>1
    <3>2. CASE ~(a = "STOP" \/ mtcmdQ = <<>>)
      <4>1. Enqueue(c) /\ pc' = pc
        BY <1>3, <3>2 DEF Receive
      <4>2. Bit(OwnsEvent("agvcp")') = 0
        BY <2>2, <2>3, <4>1 DEF Bit, OwnsEvent
      <4>3. Len(mtcmdQ') <= Len(mtcmdQ) + 1
        BY <2>1, <4>1, EnqueueCost
      <4> QED  BY <1>n, <1>t, <4>2, <4>3
    <3> QED  BY <3>1, <3>2
  <2>5. Len(mtcmdQ) + Bit(OwnsEvent("agvcp")) + (sent' - sent) = Len(mtcmdQ) + 1
    BY <1>t, <2>2, <2>3
  <2> QED  BY <1>0, <1>q, <2>2, <2>4, <2>5
<1>4. CASE AgvcpStep
  <2>1. CASE AppendDenied
    <3>1. cur["agvcp"] \in Command
      BY <2>1 DEF AppendDenied, IInv, TypeOK, TaskTypes, Issuers, Deciding
    <3>2. Len(mtcmdQ') <= Len(mtcmdQ) + 1
      BY <2>1, <3>1, EnqueueCost DEF AppendDenied
    <3>3. /\ pc["agvcp"] = "denied" /\ pc'["agvcp"] = "idle" /\ sent' = sent /\ ret' = ret
          /\ pc'["agv"] = pc["agv"] /\ UNCHANGED <<evtVars, motionVars, envVars>>
      BY <1>0, <2>1 DEF AppendDenied
    <3>4. Bit(OwnsEvent("agvcp")) = 1 /\ Bit(OwnsEvent("agvcp")') = 0
      BY <3>3 DEF Bit, OwnsEvent, Deciding
    <3>5. Len(mtcmdQ') + Bit(OwnsEvent("agvcp")')
             <= Len(mtcmdQ) + Bit(OwnsEvent("agvcp")) + (sent' - sent)
      BY <1>t, <1>n, <3>2, <3>3, <3>4
    <3> QED  BY <1>0, <1>q, <3>3, <3>5
  <2>2. CASE AgvcpIssued
    <3>1. /\ pc["agvcp"] = "issued" /\ pc'["agvcp"] = "idle" /\ sent' = sent /\ mtcmdQ' = mtcmdQ
          /\ pc'["agv"] = pc["agv"] /\ ret'["agv"] = ret["agv"] /\ UNCHANGED <<motionVars, envVars>>
      BY <1>0, <2>2 DEF AgvcpIssued, cmdVars, histVars
    <3>2. Bit(OwnsEvent("agvcp")') = 0
      BY <3>1 DEF Bit, OwnsEvent, Deciding
    <3>3. InUse' <= InUse + Bit(OwnsEvent("agvcp"))
      <4>1. CASE ret["agvcp"] = "EINVAL"
        <5>1. Bit(OwnsEvent("agvcp")) = 1
          BY <3>1, <4>1 DEF Bit, OwnsEvent
        <5> QED  BY <2>2, <4>1, <5>1, OnePost DEF AgvcpIssued
      <4>2. CASE ret["agvcp"] # "EINVAL"
        <5>1. Bit(OwnsEvent("agvcp")) = 0
          BY <3>1, <4>2 DEF Bit, OwnsEvent, Deciding
        <5> QED  BY <1>e, <1>t, <2>2, <4>2, <5>1 DEF AgvcpIssued
      <4> QED  BY <4>1, <4>2
    <3>4. InUse' + Bit(OwnsEvent("agvcp")') <= InUse + Bit(OwnsEvent("agvcp"))
      BY <1>n, <3>2, <3>3
    <3> QED  BY <1>0, <1>v, <3>1, <3>4
  <2> QED  BY <1>0, <1>2, <1>4, <2>1, <2>2, <1>11, BatterySteps DEF AgvcpStep
<1>5. CASE AgvStep
  <2>1. CASE AgvPend \/ AgvState \/ AgvError \/ AgvRecovery \/ AgvNotify
    <3>1. /\ evtfree' = evtfree /\ UNCHANGED <<mtcmdQ, motionVars, envVars, sent>>
          /\ pc'["agvcp"] = pc["agvcp"] /\ ret'["agvcp"] = ret["agvcp"]
          /\ pc'["agv"] \in {"handle", "notify", "done"}
      BY <1>0, <2>1 DEF AgvPend, AgvState, AgvError, AgvRecovery, AgvNotify, cmdVars, evtVars, histVars
    <3>2. InUse' = InUse /\ Bit(OwnsEvent("agv")') = 0
      BY <3>1 DEF InUse, Bit, OwnsEvent, Deciding
    <3>3. InUse' + Bit(OwnsEvent("agv")') <= InUse + Bit(OwnsEvent("agv"))
      BY <1>0, <1>t, <1>o, <3>2
    <3> QED  BY <1>0, <1>v, <3>1, <3>3
  <2>2. CASE AgvDone
    <3>1. /\ evtfree' = evtfree + 1 /\ UNCHANGED <<mtcmdQ, motionVars, envVars, sent>>
          /\ pc'["agvcp"] = pc["agvcp"] /\ ret'["agvcp"] = ret["agvcp"]
          /\ pc'["agv"] = "idle"
      BY <1>0, <2>2 DEF AgvDone, cmdVars, histVars
    <3>2. Bit(OwnsEvent("agv")') = 0
      BY <3>1 DEF Bit, OwnsEvent, Deciding
    <3>3. InUse' <= InUse
      BY <3>1, DispatchAssumption DEF InUse, IInv, TypeOK, QueueTypes
    <3>4. InUse' + Bit(OwnsEvent("agv")') <= InUse + Bit(OwnsEvent("agv"))
      BY <1>0, <1>t, <1>n, <1>o, <3>2, <3>3
    <3> QED  BY <1>0, <1>v, <3>1, <3>4
  <2>3. CASE AgvPop
    <3>1. /\ pc["agv"] = "handle" /\ UNCHANGED <<evtVars, motionVars, envVars, sent>>
          /\ pc'["agvcp"] = pc["agvcp"] /\ ret' = ret
      BY <1>0, <2>3 DEF AgvPop, histVars
    <3>2. Bit(OwnsEvent("agv")) = 0
      BY <3>1 DEF Bit, OwnsEvent, Deciding
    <3>3. Len(mtcmdQ') + Bit(OwnsEvent("agv")') <= Len(mtcmdQ)
      <4>1. CASE mtcmdQ = <<>>
        <5>1. mtcmdQ' = mtcmdQ /\ pc'["agv"] = "state"
          BY <1>0, <2>3, <4>1 DEF AgvPop
        <5>2. Bit(OwnsEvent("agv")') = 0
          BY <5>1 DEF Bit, OwnsEvent, Deciding
        <5> QED  BY <1>t, <5>1, <5>2
      <4>2. CASE mtcmdQ # <<>>
        <5>1. mtcmdQ' = Tail(mtcmdQ)
          BY <2>3, <4>2 DEF AgvPop
        <5>2. Len(mtcmdQ') = Len(mtcmdQ) - 1
          BY <1>0, <4>2, <5>1
        <5> QED  BY <1>0, <1>t, <1>o, <5>2
      <4> QED  BY <4>1, <4>2
    <3>4. Len(mtcmdQ) + Bit(OwnsEvent("agv")) + (sent' - sent) = Len(mtcmdQ)
      BY <1>t, <3>1, <3>2
    <3> QED  BY <1>0, <1>q, <3>1, <3>3, <3>4
  <2>4. CASE AgvPostBack
    <3>1. /\ pc["agv"] = "postback" /\ UNCHANGED <<evtVars, motionVars, envVars, sent>>
          /\ pc'["agvcp"] = pc["agvcp"] /\ ret' = ret /\ pc'["agv"] = "state"
          /\ mtcmdQ' = PostCmdFront(mtcmdQ, cur["agv"])
      BY <1>0, <2>4 DEF AgvPostBack, histVars
    <3>2. Bit(OwnsEvent("agv")) = 1 /\ Bit(OwnsEvent("agv")') = 0
      BY <3>1 DEF Bit, OwnsEvent, Deciding
    <3>3. <<cur["agv"]>> \in Seq(Command) /\ Len(<<cur["agv"]>>) = 1
      BY <3>1 DEF IInv, TypeOK, TaskTypes, Issuers, Deciding
    <3>4. Len(<<cur["agv"]>> \o mtcmdQ) = 1 + Len(mtcmdQ)
      BY <1>0, <3>3, ConcatProperties
    <3>5. Len(mtcmdQ') <= Len(mtcmdQ) + 1
      BY <1>t, <3>1, <3>4 DEF PostCmdFront
    <3>6. Len(mtcmdQ') + Bit(OwnsEvent("agv")')
             <= Len(mtcmdQ) + Bit(OwnsEvent("agv")) + (sent' - sent)
      BY <1>t, <1>n, <3>1, <3>2, <3>5
    <3> QED  BY <1>0, <1>q, <3>1, <3>6
  <2>5. CASE AgvFree
    <3>1. /\ pc["agv"] = "issued" /\ pc'["agv"] = "state" /\ sent' = sent /\ mtcmdQ' = mtcmdQ
          /\ pc'["agvcp"] = pc["agvcp"] /\ ret' = ret /\ UNCHANGED <<motionVars, envVars>>
      BY <1>0, <2>5 DEF AgvFree, histVars
    <3>2. Bit(OwnsEvent("agv")') = 0
      BY <3>1 DEF Bit, OwnsEvent, Deciding
    <3>3. InUse' <= InUse + Bit(OwnsEvent("agv"))
      <4>1. CASE ret["agv"] = "EINVAL"
        <5>1. Bit(OwnsEvent("agv")) = 1
          BY <3>1, <4>1 DEF Bit, OwnsEvent
        <5> QED  BY <2>5, <4>1, <5>1, OnePost DEF AgvFree
      <4>2. CASE ret["agv"] # "EINVAL"
        <5>1. Bit(OwnsEvent("agv")) = 0
          BY <3>1, <4>2 DEF Bit, OwnsEvent, Deciding
        <5> QED  BY <1>e, <1>t, <2>5, <4>2, <5>1 DEF AgvFree
      <4> QED  BY <4>1, <4>2
    <3>4. InUse' + Bit(OwnsEvent("agv")') <= InUse + Bit(OwnsEvent("agv"))
      BY <1>n, <3>2, <3>3
    <3> QED  BY <1>0, <1>v, <3>1, <3>4
  <2> QED  BY <1>0, <1>2, <1>5, <2>1, <2>2, <2>3, <2>4, <2>5, <1>11, BatterySteps DEF AgvStep
(* A movement that ends, or the dumper at its top, has its event to post.  *)
<1>6. ASSUME UNCHANGED <<mtcmdQ, pc, ret, envVars, sent>>,
             \/ InUse' <= InUse + 1 /\ Motions' = Motions - 1
             \/ InUse' = InUse /\ Motions' = Motions
      PROVE  Budget'
  <2>1. Orders' = Orders
    BY <1>6 DEF Orders, OwnsEvent
  <2>2. Alarm' = Alarm /\ inputs' = inputs /\ sent' = sent
    BY <1>6, <1>e
  <2>3. CASE InUse' <= InUse + 1 /\ Motions' = Motions - 1
    <3>1. Over1(InUse, Motions, InUse', Motions')
      BY <2>3 DEF Over1
    <3>2. Fits(InUse', Orders, Motions', Alarm, sent, inputs)
      BY <1>b, <1>i, <3>1, FitsMotions
    <3> QED  BY <2>1, <2>2, <3>2 DEF Budget
  <2>4. CASE InUse' = InUse /\ Motions' = Motions
    BY <1>b, <2>1, <2>2, <2>4 DEF Budget
  <2> QED  BY <1>6, <2>3, <2>4
<1>7. CASE WheelStep
  <2>1. CASE StraightEnd
    <3>1. /\ UNCHANGED <<mtcmdQ, pc, ret, envVars, sent, turning, dumperVars>>
          /\ Motionstyle # "ONSTOPING" /\ Motionstyle' = "ONSTOPING"
      BY <2>1 DEF StraightEnd, cmdVars, taskVars, histVars, Straights
    <3>2. InUse' <= InUse + 1
      BY <2>1, OnePost DEF StraightEnd
    <3>3. Motions' = Motions - 1
      BY <3>1 DEF Motions, Bit, dumperVars
    <3> QED  BY <1>6, <3>1, <3>2, <3>3
  <2>2. CASE TurnStop
    <3>1. /\ UNCHANGED <<mtcmdQ, pc, ret, envVars, sent, evtVars, dumperVars>>
          /\ Motionstyle # "ONSTOPING" /\ Motionstyle' = "ONSTOPING"
          /\ turning = "none" /\ turning' # "none"
      BY <2>2 DEF TurnStop, NoFault, Driving, MotionRuns, cmdVars, taskVars, histVars, Turns
    <3>2. Motions' = Motions
      BY <3>1 DEF Motions, Bit, dumperVars
    <3> QED  BY <1>6, <1>e, <3>1, <3>2
  <2>3. CASE TurnOver
    <3>1. /\ UNCHANGED <<mtcmdQ, pc, ret, envVars, sent, Motionstyle, dumperVars>>
          /\ turning # "none" /\ turning' = "none"
      BY <2>3 DEF TurnOver, cmdVars, taskVars, histVars
    <3>2. InUse' <= InUse + 1
      BY <2>3, OnePost DEF TurnOver
    <3>3. Motions' = Motions - 1
      BY <3>1 DEF Motions, Bit, dumperVars
    <3> QED  BY <1>6, <3>1, <3>2, <3>3
  <2>4. ~FaultReport /\ ~FaultAct
    BY DEF FaultReport, FaultAct, NoFaultYet
  <2> QED  BY <1>7, <2>1, <2>2, <2>3, <2>4 DEF WheelStep
<1>8. CASE DumperStep
  <2>0. UNCHANGED <<mtcmdQ, pc, ret, envVars, sent, Motionstyle, turning>>
    BY <1>8 DEF DumperStep, DumperStarts, DumperGoesUp, DumperAtTop, DumperGoesDown, DumperHome,
                cmdVars, taskVars, histVars, wheelVars
  <2>1. CASE DumperGoesDown
    <3>1. nReverseFlag' = nReverseFlag /\ dumper = "TOP" /\ dumper' \in {"MOVINGDOWN", "HORIZONTAL"}
      BY <2>1 DEF DumperGoesDown
    <3>2. InUse' <= InUse + 1
      BY <2>1, OnePost DEF DumperGoesDown
    <3>3. Motions' = Motions - 1
      BY <2>0, <3>1 DEF Motions, Bit
    <3> QED  BY <1>6, <2>0, <3>2, <3>3
  <2>2. CASE DumperStarts \/ DumperGoesUp \/ DumperAtTop \/ DumperHome
    <3>1. UNCHANGED evtVars
      BY <2>2 DEF DumperStarts, DumperGoesUp, DumperAtTop, DumperHome
    <3>2. Motions' = Motions
      BY <2>0, <2>2 DEF DumperStarts, DumperGoesUp, DumperAtTop, DumperHome, Motions, Bit
    <3> QED  BY <1>6, <1>e, <2>0, <3>1, <3>2
  <2> QED  BY <1>8, <2>1, <2>2 DEF DumperStep
<1>9. CASE Environment
  <2>0. ~GuidanceLost /\ ~EncoderError
    BY DEF GuidanceLost, EncoderError, BoundedEvents, GuidanceHolds, Straights, Turns
  <2>1. CASE PointArrival
    <3>1. inputs' = inputs + 1 /\ Alarm' = Alarm
      BY <2>1 DEF PointArrival, Alarm, Up, Cost, bmsVars
    <3>2. InUse' <= InUse + 2
      <4>1. CASE PostEvt(Arrival)
        BY <1>t, <1>n, <4>1, OnePost
      <4>2. CASE PostErrorAndArrival
        BY <4>2, TwoPosts
      <4> QED  BY <2>1, <4>1, <4>2 DEF PointArrival
    <3>3. Enters(InUse, Alarm, inputs, InUse', Alarm', inputs')
      BY <1>i, <3>1, <3>2 DEF Enters
    <3> QED  BY <1>w, <2>1, <3>3 DEF PointArrival, cmdVars, taskVars, histVars
  <2> QED  BY <1>9, <1>11, <2>0, <2>1, BatterySteps DEF Environment
<1>10. CASE UNCHANGED vars
  <2>1. UNCHANGED <<evtVars, mtcmdQ, pc, ret, envVars, sent, motionVars>>
    BY <1>10 DEF vars, cmdVars, taskVars, histVars, motionVars
  <2> QED  BY <1>6, <1>e, <1>m, <2>1
<1> QED  BY <1>3, <1>4, <1>5, <1>7, <1>8, <1>9, <1>10 DEF Next

(* A dumper that has been told to go up keeps its order until it does.     *)
LEMMA NextStarting ==
    ASSUME IInv, BudgetInv, [Next]_vars
    PROVE  dumper' = "STARTING" => nReverseFlag'
<1> USE DEF BudgetInv
<1>1. CASE DumperStep
  BY <1>1 DEF DumperStep, DumperStarts, DumperGoesUp, DumperAtTop, DumperGoesDown, DumperHome
<1>b. CASE BatteryStep
  BY <1>b, BatteryLeaves DEF motionVars, dumperVars
<1>2. CASE WheelStep \/ Environment \/ UNCHANGED vars
  BY <1>2, <1>b, BatterySteps DEF WheelStep, StraightEnd, TurnStop, TurnOver, FaultReport, FaultAct,
              Environment, GuidanceLost, EncoderError, PointArrival, motionVars, dumperVars, vars
<1>3. ASSUME NEW t \in Issuers, IssueStep(t) PROVE dumper' = "STARTING" => nReverseFlag'
  BY <1>3 DEF IssueStep, IssueCharge, IssueRefused, IssueDenied, IssueStop, IssueUnload, IssueMove,
              Commit, ChargeOver, motionVars, dumperVars
<1>4. CASE (\E a \in Actions : Receive(a)) \/ AgvcpStep
  BY <1>3, <1>4, <1>b, BatterySteps
     DEF AgvcpStep, Receive, AppendDenied, AgvcpIssued, motionVars, dumperVars, Issuers
<1>5. CASE AgvStep
  BY <1>3, <1>5, <1>b, BatterySteps
     DEF AgvStep, AgvPend, AgvPop, AgvPostBack, AgvFree, AgvState, AgvError, AgvRecovery,
         AgvNotify, AgvDone, motionVars, dumperVars, Issuers
<1> QED  BY <1>1, <1>2, <1>4, <1>5 DEF Next

(* EventsLeft, of CommandsWakeAgv and StatusSound: while nothing but what  *)
(* is counted posts events, and the pool has a block for every command and *)
(* two for every code point and battery alarm, no event is lost.           *)
THEOREM EventsLast ==
    ASSUME BoundedEvents, EvtBlocks > MaxCmds + 2 * MaxInputs
    PROVE  Spec => []EventsLeft
<1>1. Init => BudgetInv
  <2> SUFFICES ASSUME Init PROVE BudgetInv
    OBVIOUS
  <2>1. InUse = 0 /\ Len(mtcmdQ) = 0 /\ sent = 0 /\ inputs = 0
    BY DispatchAssumption DEF Init, InUse
  <2>2. Bit(OwnsEvent("agvcp")) = 0 /\ Bit(OwnsEvent("agv")) = 0
    BY DEF Init, Issuers, Bit, OwnsEvent, Deciding
  <2>3. Motions = 0 /\ Alarm = 0 /\ Orders = 0
    BY <2>1, <2>2 DEF Init, Motions, Alarm, Orders, Bit, Up, Cost, Watchers, Issuers
  <2> QED  BY <2>1, <2>3 DEF Init, BudgetInv, Budget, Fits, NoFaultYet
<1>2. IInv /\ IInv' /\ BudgetInv /\ [Next]_vars => BudgetInv'
  <2> SUFFICES ASSUME IInv, IInv', BudgetInv, [Next]_vars PROVE BudgetInv'
    OBVIOUS
  <2>1. NoFaultYet'
    BY NextNoFault DEF BudgetInv, BoundedEvents
  <2> QED  BY <2>1, NextBudget, NextStarting DEF BudgetInv
<1>3. IInv /\ BudgetInv => EventsLeft
  <2> SUFFICES ASSUME IInv, BudgetInv PROVE evtfree > 0
    BY DEF EventsLeft
  <2>1. InUse <= MaxCmds + 2 * MaxInputs
    <3>1. sent <= MaxCmds /\ inputs <= MaxInputs
      BY DispatchAssumption DEF IInv, TypeOK, HistTypes
    <3>2. /\ InUse \in Int /\ Orders \in Int /\ Motions \in Int /\ Alarm \in Int
          /\ sent \in Int /\ inputs \in Int /\ Orders >= 0 /\ Motions >= 0 /\ Alarm >= 0
      BY BudgetTypes
    <3>3. Fits(InUse, Orders, Motions, Alarm, sent, inputs)
      BY DEF BudgetInv, Budget
    <3>4. MaxCmds \in Nat /\ MaxInputs \in Nat
      BY DispatchAssumption
    <3> QED  BY <3>1, <3>2, <3>3, <3>4, FitsUse, Zenon
  <2> QED  BY <2>1, DispatchAssumption DEF InUse, IInv, TypeOK, QueueTypes
<1> QED  BY <1>1, <1>2, <1>3, InvariantHolds, PTL DEF Spec

(* With such a pool a waiting command will wake agv, with no condition on  *)
(* the run.                                                                *)
THEOREM PoolKeepsWakeups ==
    ASSUME OnlyOrders, "ENCODER" \notin Alarms, EvtBlocks > MaxCmds + 2 * MaxInputs
    PROVE  Spec => []WakeupPending
<1>1. BoundedEvents
  BY DEF BoundedEvents, OnlyOrders
<1>2. Spec => []EventsLeft
  BY <1>1, EventsLast
<1> QED  BY <1>2, CommandsWakeAgv, PTL

(* Nor is there one for the state and the alarms that agvstat reports.     *)
THEOREM PoolKeepsStatus ==
    ASSUME BoundedEvents, EvtBlocks > MaxCmds + 2 * MaxInputs
    PROVE  Spec => []StatusAgrees
<1>1. GuidanceHolds
  BY DEF BoundedEvents
<1> QED  BY <1>1, EventsLast, StatusSound, PTL
=============================================================================
