-------------------------- MODULE AgvcpLinkProofs --------------------------
(***************************************************************************)
(* Proofs about AgvcpLink for every number of requests, reports and        *)
(* heartbeats, buffers of every size, and networks that keep the order of  *)
(* datagrams or do not: first the types and the pool of actions, then that *)
(* AgvcpLink implements ReportChannel: each report and each confirmation   *)
(* is heard exactly once and in order, and the task that sends it goes on  *)
(* only then.  With it, what becomes of the actions: none is executed      *)
(* before its confirmation is answered, none that was answered is lost,    *)
(* and, if the network keeps the order, each is executed once and in order.*)
(***************************************************************************)
EXTENDS AgvcpLink, SequenceTheorems, TLAPS

USE AgvcpLinkAssumption

(* What each task may be at, and what it then holds: agvcp has an action   *)
(* in hand exactly while it confirms or executes it, and the mutex is held *)
(* by the task that waits for an answer.                                   *)
AgvcpPlace ==
    LET here == pc["agvcp"]  type == out["agvcp"].type
    IN  /\ here # "idle"
        /\ here \in {"lock", "wait"} => type \in {"REGISTER", "HEARTBEAT", "MSG_CONFIRM"}
        /\ here = "wait" => type # "HEARTBEAT"
        /\ here \in {"register", "loop", "drain"} => current = 0
        /\ here = "execute" => current # 0
        /\ here \in {"lock", "wait"} => (current # 0 <=> type = "MSG_CONFIRM")

AgvPlace ==
    /\ pc["agv"] \in {"idle", "lock", "wait"}
    /\ pc["agv"] # "idle" => out["agv"].type \in Reports

LinkHeld == \A t \in Tasks : pc[t] = "wait" <=> mutex = t

IInv == TypeOK /\ ActionPoolConserved /\ AgvcpPlace /\ AgvPlace /\ LinkHeld

-----------------------------------------------------------------------------
(* Taking a datagram out of a channel leaves only datagrams that were in   *)
(* it.                                                                     *)
LEMMA WithoutType ==
    ASSUME NEW S, NEW s \in Seq(S), NEW i \in 1 .. Len(s)
    PROVE  Without(s, i) \in Seq(S)
BY DEF Without

LEMMA DeliverableIn ==
    ASSUME NEW S, NEW s \in Seq(S), NEW i \in Deliverable(s)
    PROVE  i \in 1 .. Len(s) /\ s[i] \in S
BY DEF Deliverable

(* What arrives, or is sent, is at most one datagram more.                 *)
LEMMA ArriveType ==
    ASSUME NEW S, toCar \in Seq(S), NEW d \in S, Arrive(d)
    PROVE  toCar' \in Seq(S)
BY DEF Arrive

LEMMA TransmitType ==
    ASSUME NEW S, toCtl \in Seq(S), NEW f \in S, Transmit(f)
    PROVE  toCtl' \in Seq(S)
BY DEF Transmit

(* The initial state satisfies the invariant. *)
LEMMA InitIInv == Init => IInv
<1> SUFFICES ASSUME Init PROVE IInv
  OBVIOUS
<1>1. TypeOK
  <2>1. NoBody \in Body
    BY DEF NoBody, Body, Outgoing
  <2>2. /\ out \in [Tasks -> Body]
        /\ pc \in [Tasks -> {"register", "lock", "wait", "loop", "drain", "execute", "idle"}]
    BY <2>1 DEF Init
  <2>3. toCar \in Seq(Requests \cup Answers) /\ toCtl \in Seq(Frame) /\ heard \in Seq(Frame)
    BY DEF Init
  <2>4. registered \in BOOLEAN /\ answered \in BOOLEAN /\ req \in Requests \cup {NoReq}
    BY DEF Init
  <2> QED  BY <2>2, <2>3, <2>4 DEF Init, TypeOK
<1>2. ActionPoolConserved /\ AgvcpPlace /\ AgvPlace /\ LinkHeld
  BY DEF Init, ActionPoolConserved, AgvcpPlace, AgvPlace, LinkHeld, Tasks
<1> QED  BY <1>1, <1>2 DEF IInv

(* The variables agvcp_msg_process() may change keep their types, and a    *)
(* block is taken for each action buffered.                                *)
RxTypes ==
    /\ rxseq \in Nat /\ written \in Seq(Nat) /\ toCtl \in Seq(Frame)
    /\ action_que \in Seq(Nat \ {0}) /\ action_mem \in Nat

LEMMA ProcessKeeps ==
    ASSUME RxTypes, NEW d \in Requests \cup Answers, Process(d)
    PROVE  /\ RxTypes' /\ UNCHANGED <<current, executed>>
           /\ action_mem' + Len(action_que') = action_mem + Len(action_que)
<1>1. d.seq \in Nat /\ (d.type \in Kinds => d.seq # 0)
  BY DEF Requests, Answers, Outgoing, Reports, Kinds
<1>2. d.type \in Kinds => [type |-> d.type, seq |-> d.seq, arg |-> 0] \in Frame
  BY <1>1 DEF Frame
<1>3. d.type \in Kinds /\ Answer(d) => toCtl' \in Seq(Frame)
  BY <1>2, TransmitType DEF Answer, RxTypes
<1>4. CASE TakeAction(d)
  BY <1>1, <1>3, <1>4 DEF TakeAction, RxTypes, CanBuffer, Kinds
<1>5. CASE LeaveAction(d)
  BY <1>5 DEF LeaveAction, RxTypes, actVars, rxVars
<1>6. CASE AnswerAgain(d)
  BY <1>3, <1>6 DEF AnswerAgain, RxTypes, actVars, rxVars, Kinds
<1>7. CASE WriteParam(d)
  BY <1>1, <1>3, <1>7 DEF WriteParam, RxTypes, actVars, Kinds
<1>8. CASE ReadParam(d)
  BY <1>1, <1>3, <1>8 DEF ReadParam, RxTypes, actVars, Kinds
<1>9. CASE Unsupported(d)
  BY <1>9 DEF Unsupported, RxTypes, actVars, rxVars
<1> QED  BY <1>4, <1>5, <1>6, <1>7, <1>8, <1>9 DEF Process

-----------------------------------------------------------------------------
(* A task that moves on keeps the types of pc and out.                     *)
LEMMA GotoType ==
    ASSUME TypeOK, NEW t \in Tasks,
           NEW l \in {"register", "lock", "wait", "loop", "drain", "execute", "idle"}, Goto(t, l)
    PROVE  /\ pc' \in [Tasks -> {"register", "lock", "wait", "loop", "drain", "execute", "idle"}]
           /\ pc'[t] = l /\ \A u \in Tasks \ {t} : pc'[u] = pc[u]
BY DEF TypeOK, Goto

(* Steps of the controller and the network leave the tasks alone.          *)
TaskState == <<pc, out, sendVars, conn_state, actVars, rxVars, envVars>>

LEMMA ChannelStep ==
    ASSUME IInv, UNCHANGED TaskState,
           toCar' \in Seq(Requests \cup Answers), toCtl' \in Seq(Frame),
           registered' \in BOOLEAN, req' \in Requests \cup {NoReq}, answered' \in BOOLEAN,
           ~answered' => req' \in Requests, heard' \in Seq(Frame)
    PROVE  IInv'
<1> USE DEF IInv, TaskState, sendVars, actVars, rxVars, envVars
<1>1. TypeOK'
  BY DEF TypeOK
<1>2. ActionPoolConserved' /\ AgvcpPlace' /\ AgvPlace' /\ LinkHeld'
  BY DEF ActionPoolConserved, AgvcpPlace, AgvPlace, LinkHeld
<1> QED  BY <1>1, <1>2

LEMMA ControllerIInv ==
    ASSUME IInv, Request \/ RequestAgain \/ HearAnswer \/ HearMessage \/ Lose
    PROVE  IInv'
<1> USE DEF ctlVars
<1>0. /\ toCar \in Seq(Requests \cup Answers) /\ toCtl \in Seq(Frame)
      /\ registered \in BOOLEAN /\ req \in Requests \cup {NoReq} /\ answered \in BOOLEAN
      /\ (~answered => req \in Requests) /\ heard \in Seq(Frame)
  BY DEF IInv, TypeOK
<1>1. CASE Request
  <2>1. PICK k \in RequestKinds : /\ req' = [type |-> k, seq |-> req.seq + 1]
                                  /\ Arrive([type |-> k, seq |-> req.seq + 1])
    BY <1>1 DEF Request
  <2>2. req.seq + 1 \in 1 .. MaxRequests
    BY <1>0, <1>1 DEF Request, Requests, NoReq
  <2>3. [type |-> k, seq |-> req.seq + 1] \in Requests
    BY <2>2 DEF Requests
  <2>4. toCar' \in Seq(Requests \cup Answers)
    BY <1>0, <2>1, <2>3, ArriveType
  <2>5. UNCHANGED <<TaskState, toCtl, registered, heard>> /\ answered' = FALSE
    BY <1>1 DEF Request, TaskState
  <2> QED  BY <1>0, <2>1, <2>3, <2>4, <2>5, ChannelStep
<1>2. CASE RequestAgain
  <2>1. req \in Requests
    BY <1>0, <1>2 DEF RequestAgain
  <2>2. toCar' \in Seq(Requests \cup Answers)
    BY <1>0, <1>2, <2>1, ArriveType DEF RequestAgain
  <2> QED  BY <1>0, <1>2, <2>2, ChannelStep DEF RequestAgain, TaskState
<1>3. CASE HearAnswer
  <2>1. toCtl' \in Seq(Frame)
    BY <1>0, <1>3, WithoutType, DeliverableIn DEF HearAnswer
  <2>2. answered' \in BOOLEAN /\ (~answered' => ~answered)
    BY <1>3 DEF HearAnswer
  <2>3. UNCHANGED <<TaskState, toCar, registered, req, heard>>
    BY <1>3 DEF HearAnswer, TaskState
  <2> QED  BY <1>0, <2>1, <2>2, <2>3, ChannelStep
<1>4. CASE HearMessage
  <2>1. PICK i \in Deliverable(toCtl) :
            /\ toCtl[i].type \in Outgoing
            /\ toCtl' = Without(toCtl, i)
            /\ registered' = (registered \/ toCtl[i].type = "REGISTER")
            /\ heard' = IF Reliable(toCtl[i].type) /\ ~Member(toCtl[i], heard)
                        THEN Append(heard, toCtl[i]) ELSE heard
            /\ IF toCtl[i].type = "HEARTBEAT" THEN UNCHANGED toCar
               ELSE Arrive([type |-> toCtl[i].type, seq |-> toCtl[i].seq])
    BY <1>4 DEF HearMessage
  <2>2. toCtl[i] \in Frame /\ toCtl' \in Seq(Frame)
    BY <1>0, <2>1, WithoutType, DeliverableIn
  <2>3. [type |-> toCtl[i].type, seq |-> toCtl[i].seq] \in Answers
    BY <2>1, <2>2 DEF Frame, Answers
  <2>4. toCar' \in Seq(Requests \cup Answers)
    BY <1>0, <2>1, <2>3, ArriveType
  <2>5. heard' \in Seq(Frame) /\ registered' \in BOOLEAN
    BY <1>0, <2>1, <2>2
  <2>6. UNCHANGED <<TaskState, req, answered>>
    BY <1>4 DEF HearMessage, TaskState
  <2> QED  BY <1>0, <2>2, <2>4, <2>5, <2>6, ChannelStep
<1>5. CASE Lose
  <2>1. toCar' \in Seq(Requests \cup Answers) /\ toCtl' \in Seq(Frame)
    <3>1. CASE toCar # <<>> /\ toCar' = Tail(toCar) /\ UNCHANGED toCtl
      BY <1>0, <3>1
    <3>2. CASE toCtl # <<>> /\ toCtl' = Tail(toCtl) /\ UNCHANGED toCar
      BY <1>0, <3>2
    <3> QED  BY <1>5, <3>1, <3>2 DEF Lose
  <2>2. UNCHANGED <<TaskState, ctlVars>>
    BY <1>5 DEF Lose, TaskState
  <2> QED  BY <1>0, <2>1, <2>2, ChannelStep
<1> QED  BY <1>1, <1>2, <1>3, <1>4, <1>5

-----------------------------------------------------------------------------
(* A call of agv_send_msg() with a body of its task.                       *)
LEMMA CallType ==
    ASSUME TypeOK, NEW t \in Tasks, NEW b \in Body, Call(t, b)
    PROVE  /\ pc' \in [Tasks -> {"register", "lock", "wait", "loop", "drain", "execute", "idle"}]
           /\ out' \in [Tasks -> Body]
           /\ pc'[t] = "lock" /\ out'[t] = b
           /\ \A u \in Tasks \ {t} : pc'[u] = pc[u] /\ out'[u] = out[u]
BY DEF TypeOK, Call, Goto

(* What agvcp does between its messages.                                   *)
LEMMA AgvcpIInv ==
    ASSUME IInv, AgvcpTask \/ Heartbeat
    PROVE  IInv'
<1> USE DEF IInv, actVars, rxVars, sendVars, envVars, ctlVars
<1>0. "agvcp" \in Tasks /\ "agv" \in Tasks \ {"agvcp"}
  BY DEF Tasks
<1>1. CASE Register
  <2>1. [type |-> "REGISTER", arg |-> 0] \in Body
    BY DEF Body, Outgoing
  <2>2. TypeOK' /\ ActionPoolConserved'
    BY <1>0, <1>1, <2>1, CallType DEF Register, TypeOK, ActionPoolConserved
  <2>3. AgvcpPlace' /\ AgvPlace' /\ LinkHeld'
    BY <1>0, <1>1, <2>1, CallType DEF Register, AgvcpPlace, AgvPlace, LinkHeld, Tasks
  <2> QED  BY <2>2, <2>3
<1>2. CASE Heartbeat
  <2>1. [type |-> "HEARTBEAT", arg |-> 0] \in Body
    BY DEF Body, Outgoing
  <2>2. TypeOK' /\ ActionPoolConserved'
    BY <1>0, <1>2, <2>1, CallType DEF Heartbeat, TypeOK, ActionPoolConserved
  <2>3. AgvcpPlace' /\ AgvPlace' /\ LinkHeld'
    BY <1>0, <1>2, <2>1, CallType DEF Heartbeat, AgvcpPlace, AgvPlace, LinkHeld, Tasks
  <2> QED  BY <2>2, <2>3
<1>3. CASE ReceiveNothing
  <2>1. TypeOK' /\ ActionPoolConserved'
    BY <1>0, <1>3, GotoType DEF ReceiveNothing, TypeOK, ActionPoolConserved
  <2>2. AgvcpPlace' /\ AgvPlace' /\ LinkHeld'
    BY <1>0, <1>3, GotoType DEF ReceiveNothing, AgvcpPlace, AgvPlace, LinkHeld, Tasks
  <2> QED  BY <2>1, <2>2
<1>4. CASE Drained
  <2>1. TypeOK' /\ ActionPoolConserved'
    BY <1>0, <1>4, GotoType DEF Drained, TypeOK, ActionPoolConserved
  <2>2. AgvcpPlace' /\ AgvPlace' /\ LinkHeld'
    BY <1>0, <1>4, GotoType DEF Drained, AgvcpPlace, AgvPlace, LinkHeld, Tasks
  <2> QED  BY <2>1, <2>2
<1>5. CASE Confirm
  <2>1. /\ action_que \in Seq(Nat \ {0}) /\ action_que # <<>> /\ current = 0
        /\ current' = Head(action_que) /\ action_que' = Tail(action_que)
        /\ Call("agvcp", [type |-> "MSG_CONFIRM", arg |-> Head(action_que)])
        /\ UNCHANGED <<sendVars, conn_state, action_mem, executed, rxVars, envVars, toCar,
                       toCtl, ctlVars>>
    BY <1>5 DEF Confirm, TypeOK, AgvcpPlace
  <2>2. /\ current' \in Nat \ {0} /\ action_que' \in Seq(Nat \ {0})
        /\ Len(action_que') + 1 = Len(action_que)
    BY <2>1
  <2>3. [type |-> "MSG_CONFIRM", arg |-> Head(action_que)] \in Body
    BY <2>1, <2>2 DEF Body, Outgoing
  <2>4. TypeOK'
    BY <1>0, <2>1, <2>2, <2>3, CallType DEF TypeOK
  <2>5. ActionPoolConserved'
    <3>1. action_mem' = action_mem /\ action_mem \in Nat
      BY <2>1 DEF TypeOK
    <3>2. action_mem + Len(action_que) = ActionBlocks
      BY <2>1 DEF TypeOK, ActionPoolConserved
    <3> QED  BY <2>1, <2>2, <3>1, <3>2 DEF ActionPoolConserved
  <2>6. AgvcpPlace' /\ AgvPlace' /\ LinkHeld'
    <3>1. /\ pc'["agvcp"] = "lock" /\ out'["agvcp"].type = "MSG_CONFIRM"
          /\ pc'["agv"] = pc["agv"] /\ out'["agv"] = out["agv"]
      BY <1>0, <2>1, <2>3, CallType
    <3>2. AgvcpPlace' /\ AgvPlace'
      BY <2>2, <3>1 DEF AgvcpPlace, AgvPlace
    <3>3. pc["agvcp"] = "drain" /\ mutex' = mutex
      BY <1>5 DEF Confirm
    <3>4. LinkHeld'
      BY <3>1, <3>3 DEF LinkHeld, Tasks
    <3> QED  BY <3>2, <3>4
  <2> QED  BY <2>4, <2>5, <2>6
<1>6. CASE Execute
  <2>1. current \in Nat \ {0}
    BY <1>6 DEF Execute, TypeOK, AgvcpPlace
  <2>2. executed' \in Seq(Nat) /\ action_mem' \in Nat
    BY <1>6, <2>1 DEF Execute, TypeOK
  <2>3. TypeOK'
    BY <1>0, <1>6, <2>2, GotoType DEF Execute, TypeOK
  <2>4. ActionPoolConserved'
    BY <1>6, <2>1 DEF Execute, TypeOK, ActionPoolConserved
  <2>5. AgvcpPlace' /\ AgvPlace' /\ LinkHeld'
    BY <1>0, <1>6, GotoType DEF Execute, AgvcpPlace, AgvPlace, LinkHeld, Tasks
  <2> QED  BY <2>3, <2>4, <2>5
<1> QED  BY <1>1, <1>2, <1>3, <1>4, <1>5, <1>6 DEF AgvcpTask

(* A report of agv.                                                        *)
LEMMA NotifyIInv ==
    ASSUME IInv, Notify
    PROVE  IInv'
<1> USE DEF IInv, actVars, rxVars, sendVars, envVars, ctlVars
<1>0. "agv" \in Tasks /\ "agvcp" \in Tasks \ {"agv"}
  BY DEF Tasks
<1>1. reports' = reports + 1 /\ reports' \in Nat
  BY DEF Notify, TypeOK
<1>2. CASE conn_state = "ONLINE"
  <2>1. PICK type \in ReportTypes : Call("agv", [type |-> type, arg |-> reports'])
    BY <1>2 DEF Notify
  <2>2. type \in Reports /\ [type |-> type, arg |-> reports'] \in Body
    BY <1>1 DEF Body, Outgoing
  <2>3. TypeOK' /\ ActionPoolConserved'
    BY <1>0, <1>1, <2>1, <2>2, CallType DEF Notify, TypeOK, ActionPoolConserved
  <2>4. AgvcpPlace' /\ AgvPlace' /\ LinkHeld'
    BY <1>0, <2>1, <2>2, CallType DEF Notify, AgvcpPlace, AgvPlace, LinkHeld, Tasks
  <2> QED  BY <2>3, <2>4
<1>3. CASE conn_state # "ONLINE"
  <2>1. UNCHANGED <<pc, out>>
    BY <1>3 DEF Notify
  <2>2. TypeOK' /\ ActionPoolConserved'
    BY <1>1, <2>1 DEF Notify, TypeOK, ActionPoolConserved
  <2>3. AgvcpPlace' /\ AgvPlace' /\ LinkHeld'
    BY <2>1 DEF Notify, AgvcpPlace, AgvPlace, LinkHeld
  <2> QED  BY <2>2, <2>3
<1> QED  BY <1>2, <1>3

-----------------------------------------------------------------------------
(* A request handled by the task that holds the link, or by agvcp in its   *)
(* loop; l is where the task goes on.                                      *)
LEMMA ReceptionIInv ==
    ASSUME IInv, NEW i \in Deliverable(toCar), Process(toCar[i]), toCar' = Without(toCar, i),
           UNCHANGED <<sendVars, out, conn_state, envVars, ctlVars>>,
           \/ UNCHANGED pc
           \/ pc["agvcp"] = "loop" /\ Goto("agvcp", "drain")
    PROVE  IInv'
<1> USE DEF IInv, sendVars, envVars, ctlVars
<1>1. toCar[i] \in Requests \cup Answers /\ toCar' \in Seq(Requests \cup Answers)
  BY WithoutType, DeliverableIn DEF TypeOK
<1>2. /\ RxTypes' /\ UNCHANGED <<current, executed>>
      /\ action_mem' + Len(action_que') = action_mem + Len(action_que)
  BY <1>1, ProcessKeeps DEF TypeOK, RxTypes
<1>3. /\ pc' \in [Tasks -> {"register", "lock", "wait", "loop", "drain", "execute", "idle"}]
      /\ \A t \in Tasks : pc'[t] = pc[t] \/ (t = "agvcp" /\ pc[t] = "loop" /\ pc'[t] = "drain")
  <2>1. CASE UNCHANGED pc
    BY <2>1 DEF TypeOK
  <2>2. CASE pc["agvcp"] = "loop" /\ Goto("agvcp", "drain")
    BY <2>2, GotoType DEF Tasks
  <2> QED  BY <2>1, <2>2
<1>4. TypeOK'
  BY <1>1, <1>2, <1>3 DEF TypeOK, RxTypes
<1>5. ActionPoolConserved'
  BY <1>2 DEF ActionPoolConserved
<1>6. AgvcpPlace' /\ AgvPlace' /\ LinkHeld'
  BY <1>2, <1>3 DEF AgvcpPlace, AgvPlace, LinkHeld, Tasks
<1> QED  BY <1>4, <1>5, <1>6

(* What a task does from its call of agv_send_msg() to the answer.         *)
LEMMA SendIInv ==
    ASSUME IInv, NEW t \in Tasks, Await(t) \/ TakeAnswer(t)
    PROVE  IInv'
<1> USE DEF IInv, actVars, rxVars, sendVars, envVars, ctlVars
<1>0. Numbered(out[t]) \in Frame
  BY DEF TypeOK, Body, Frame, Numbered
<1>1. CASE LockAndSend(t)
  <2>1. toCtl' \in Seq(Frame)
    BY <1>0, <1>1, TransmitType DEF LockAndSend, TypeOK
  <2>2. TypeOK' /\ ActionPoolConserved'
    BY <1>1, <2>1, GotoType DEF LockAndSend, TypeOK, ActionPoolConserved
  <2>3. AgvcpPlace' /\ AgvPlace' /\ LinkHeld'
    BY <1>1, GotoType DEF LockAndSend, AgvcpPlace, AgvPlace, LinkHeld, Tasks
  <2> QED  BY <2>2, <2>3
<1>2. CASE LockAndBeat(t)
  <2>1. toCtl' \in Seq(Frame)
    BY <1>0, <1>2, TransmitType DEF LockAndBeat, TypeOK
  <2>2. TypeOK' /\ ActionPoolConserved'
    BY <1>2, <2>1, GotoType DEF LockAndBeat, TypeOK, ActionPoolConserved
  <2>3. t = "agvcp"
    BY <1>2 DEF LockAndBeat, AgvPlace, Tasks, Reports
  <2>4. AgvcpPlace' /\ AgvPlace' /\ LinkHeld'
    BY <1>2, <2>3, GotoType DEF LockAndBeat, AgvcpPlace, AgvPlace, LinkHeld, Tasks
  <2> QED  BY <2>2, <2>4
<1>3. CASE Resend(t)
  <2>1. toCtl' \in Seq(Frame)
    BY <1>0, <1>3, TransmitType DEF Resend, TypeOK
  <2> QED  BY <1>3, <2>1, ChannelStep DEF Resend, TypeOK, TaskState
<1>4. CASE GiveUp(t)
  <2>1. t = "agvcp"
    BY <1>4 DEF GiveUp, AgvPlace, Tasks, Reports
  <2>2. TypeOK' /\ ActionPoolConserved'
    BY <1>4, GotoType DEF GiveUp, TypeOK, ActionPoolConserved
  <2>3. AgvcpPlace' /\ AgvPlace' /\ LinkHeld'
    BY <1>4, <2>1, GotoType DEF GiveUp, AgvcpPlace, AgvPlace, LinkHeld, Tasks
  <2> QED  BY <2>2, <2>3
<1>5. CASE TakeAnswer(t)
  <2>1. toCar' \in Seq(Requests \cup Answers)
    BY <1>5, WithoutType, DeliverableIn DEF TakeAnswer, TypeOK
  <2>2. After(out[t].type) \in {"loop", "execute", "idle"}
    BY DEF After
  <2>3. TypeOK' /\ ActionPoolConserved'
    BY <1>5, <2>1, <2>2, GotoType DEF TakeAnswer, TypeOK, ActionPoolConserved
  <2>4. AgvcpPlace' /\ AgvPlace' /\ LinkHeld'
    BY <1>5, <2>2, GotoType DEF TakeAnswer, After, AgvcpPlace, AgvPlace, LinkHeld, Tasks, Reports
  <2> QED  BY <2>3, <2>4
<1>6. CASE TakeOther(t)
  BY <1>6, ReceptionIInv DEF TakeOther
<1> QED  BY <1>1, <1>2, <1>3, <1>4, <1>5, <1>6 DEF Await

-----------------------------------------------------------------------------
(* Every step keeps the invariant. *)
LEMMA NextIInv == IInv /\ [Next]_vars => IInv'
<1> SUFFICES ASSUME IInv, [Next]_vars PROVE IInv'
  OBVIOUS
<1>1. CASE AgvcpTask \/ Heartbeat
  BY <1>1, AgvcpIInv
<1>2. CASE Receive
  BY <1>2, ReceptionIInv DEF Receive
<1>3. CASE Notify
  BY <1>3, NotifyIInv
<1>4. ASSUME NEW t \in Tasks, Await(t) \/ TakeAnswer(t) PROVE IInv'
  BY <1>4, SendIInv
<1>5. CASE Request \/ RequestAgain \/ HearAnswer \/ HearMessage \/ Lose
  BY <1>5, ControllerIInv
<1>6. CASE UNCHANGED vars
  BY <1>6, ChannelStep DEF IInv, TypeOK, vars, TaskState, ctlVars
<1> QED  BY <1>1, <1>2, <1>3, <1>4, <1>5, <1>6 DEF Next, TaskNext

(* The invariant of the link: the variables have their types, no block of  *)
(* action_mem is lost, and the mutex is held by the task that waits.       *)
THEOREM InvariantHolds == Spec => []IInv
BY InitIInv, NextIInv, PTL DEF Spec

(* The types, as TLC checks them. *)
THEOREM TypeCorrect == Spec => []TypeOK
<1>1. IInv => TypeOK
  BY DEF IInv
<1> QED  BY <1>1, InvariantHolds, PTL

(* The blocks of action_mem: whoever buffers and whoever executes, none is *)
(* lost and none is used twice.                                            *)
THEOREM ActionPoolSafe == Spec => []ActionPoolConserved
<1>1. IInv => ActionPoolConserved
  BY DEF IInv
<1> QED  BY <1>1, InvariantHolds, PTL

-----------------------------------------------------------------------------
(* What is heard, and what becomes of the actions.                         *)

(* What may be in the channels.  A report or a confirmation on its way to  *)
(* the controller has been heard already, or is the one being sent.  An    *)
(* answer on its way back answers something that has been heard.           *)
Genuine == {f \in Frame : Reliable(f.type) => Member(f, heard) \/ f = Sending}
Earned  == {d \in Requests \cup Answers : Reliable(d.type) =>
                \E j \in DOMAIN heard : heard[j].type = d.type /\ heard[j].seq = d.seq}

(* What has been heard has an earlier number than the next message, but    *)
(* for the message being sent.                                             *)
Numbering == \A j \in DOMAIN heard : heard[j].seq < txseq \/ heard[j] = Sending

DeliveryInv == toCtl \in Seq(Genuine) /\ toCar \in Seq(Earned) /\ Numbering

-----------------------------------------------------------------------------
(* A sequence over a set is one over a larger set.                         *)
LEMMA SeqOfLarger ==
    ASSUME NEW S, NEW T, S \subseteq T, NEW s \in Seq(S)
    PROVE  s \in Seq(T)
OBVIOUS

(* NoMsg is no frame, and what is sent is one.                             *)
LEMMA SendingType ==
    ASSUME TypeOK
    PROVE  /\ NoMsg \notin Frame
           /\ Sending = NoMsg \/ (Sending \in Frame /\ Reliable(Sending.type) /\ Sending.seq = txseq)
<1>1. NoMsg \notin Frame
  BY DEF NoMsg, Frame, Outgoing, Reports, Kinds
<1>2. ASSUME NEW t \in Tasks PROVE Numbered(out[t]) \in Frame
  BY DEF TypeOK, Body, Frame, Numbered
<1>3. ASSUME NEW t \in Tasks
      PROVE  Numbered(out[t]).type = out[t].type /\ Numbered(out[t]).seq = txseq
  BY DEF Numbered
<1> QED  BY <1>1, <1>2, <1>3 DEF Sending, TypeOK

(* The message being sent stays the same while its task holds the link.    *)
LEMMA SendingKept ==
    ASSUME UNCHANGED sendVars, mutex = "none" \/ out'[mutex] = out[mutex]
    PROVE  Sending' = Sending
BY DEF sendVars, Sending, Numbered, Reliable, NoMsg

(* A step that sends nothing new and hears nothing new is a stutter of the *)
(* channel.                                                                *)
LEMMA QuietStep ==
    ASSUME DeliveryInv, UNCHANGED <<Sending, heard, txseq>>,
           toCtl' \in Seq(Genuine), toCar' \in Seq(Earned)
    PROVE  DeliveryInv' /\ UNCHANGED Channel!vars
<1>1. Genuine' = Genuine /\ Earned' = Earned
  BY DEF Genuine, Earned, Member
<1>2. Numbering'
  BY DEF DeliveryInv, Numbering
<1> QED  BY <1>1, <1>2 DEF DeliveryInv, Channel!vars

(* Answers to requests are genuine, requests are earned.                   *)
LEMMA ProcessQuiet ==
    ASSUME toCtl \in Seq(Genuine), NEW d \in Requests \cup Answers, Process(d)
    PROVE  toCtl' \in Seq(Genuine)
<1>1. CASE d.type \in Kinds
  <2>1. [type |-> d.type, seq |-> d.seq, arg |-> 0] \in Frame
    BY <1>1 DEF Requests, Answers, Frame
  <2>2. ~Reliable(d.type)
    BY <1>1 DEF Reliable, Kinds, Reports
  <2>3. [type |-> d.type, seq |-> d.seq, arg |-> 0] \in Genuine
    BY <2>1, <2>2 DEF Genuine
  <2>4. Answer(d) => toCtl' \in Seq(Genuine)
    BY <2>3, TransmitType DEF Answer
  <2> QED  BY <1>1, <2>4 DEF Process, TakeAction, LeaveAction, AnswerAgain, WriteParam,
                             ReadParam, Unsupported
<1>2. CASE d.type \notin Kinds
  BY <1>2 DEF Process, TakeAction, LeaveAction, AnswerAgain, WriteParam, ReadParam,
              Unsupported, Kinds
<1> QED  BY <1>1, <1>2

LEMMA RequestsEarned ==
    ASSUME NEW d \in Requests
    PROVE  d \in Earned
<1>1. d.type \in Kinds
  BY DEF Requests
<1>2. ~Reliable(d.type)
  BY <1>1 DEF Kinds, Reliable, Reports
<1>3. d \in Requests \cup Answers
  OBVIOUS
<1> QED  BY <1>2, <1>3, Zenon DEF Earned

(* A task that holds the link transmits only what it is sending.           *)
LEMMA SentGenuine ==
    ASSUME TypeOK, NEW t \in Tasks, mutex = t, toCtl \in Seq(Genuine),
           Transmit(Numbered(out[t]))
    PROVE  toCtl' \in Seq(Genuine)
<1>1. Numbered(out[t]) \in Frame /\ Numbered(out[t]).type = out[t].type
  BY DEF TypeOK, Body, Frame, Numbered
<1>2. Reliable(out[t].type) => Sending = Numbered(out[t])
  BY DEF Sending, Tasks
<1>3. Numbered(out[t]) \in Genuine
  BY <1>1, <1>2 DEF Genuine
<1> QED  BY <1>3, TransmitType

(* agvcp_msg_process() in either task's hands is quiet.                    *)
LEMMA HandlingQuiet ==
    ASSUME TypeOK, DeliveryInv, NEW i \in Deliverable(toCar),
           Process(toCar[i]), toCar' = Without(toCar, i)
    PROVE  toCtl' \in Seq(Genuine) /\ toCar' \in Seq(Earned)
<1>1. i \in 1 .. Len(toCar) /\ toCar[i] \in Requests \cup Answers
  BY DeliverableIn DEF TypeOK
<1>2. toCtl' \in Seq(Genuine)
  BY <1>1, ProcessQuiet DEF DeliveryInv
<1>3. toCar' \in Seq(Earned)
  BY <1>1, WithoutType DEF DeliveryInv
<1> QED  BY <1>2, <1>3

-----------------------------------------------------------------------------
(* The steps of the tasks.  A task that does not hold the link may prepare *)
(* a message without touching the one under way.                           *)
Simulated == DeliveryInv' /\ [Channel!Next]_(Channel!vars)

LEMMA LocalStep ==
    ASSUME DeliveryInv, Sending' = Sending, UNCHANGED <<heard, txseq, toCtl, toCar>>
    PROVE  Simulated
<1>1. DeliveryInv' /\ UNCHANGED Channel!vars
  BY QuietStep DEF DeliveryInv
<1> QED  BY <1>1 DEF Simulated

LEMMA CallStep ==
    ASSUME TypeOK, LinkHeld, NEW t \in Tasks, pc[t] # "wait", NEW b, Call(t, b), UNCHANGED sendVars
    PROVE  Sending' = Sending
<1>1. mutex # t
  BY DEF LinkHeld
<1>2. mutex = "none" \/ out'[mutex] = out[mutex]
  BY <1>1 DEF Call, TypeOK
<1> QED  BY <1>2, SendingKept

LEMMA AgvcpTaskStep ==
    ASSUME IInv, DeliveryInv, AgvcpTask \/ Heartbeat \/ Notify
    PROVE  Simulated
<1> USE DEF IInv
<1>1. CASE Register
  <2>1. Sending' = Sending
    BY <1>1, CallStep DEF Register, Tasks
  <2> QED  BY <1>1, <2>1, LocalStep DEF Register, ctlVars, sendVars
<1>2. CASE Heartbeat
  <2>1. Sending' = Sending
    BY <1>2, CallStep DEF Heartbeat, Tasks
  <2> QED  BY <1>2, <2>1, LocalStep DEF Heartbeat, ctlVars, sendVars
<1>3. CASE Confirm
  <2>1. Sending' = Sending
    BY <1>3, CallStep DEF Confirm, Tasks
  <2> QED  BY <1>3, <2>1, LocalStep DEF Confirm, ctlVars, sendVars
<1>4. CASE ReceiveNothing \/ Execute \/ Drained
  <2>1. Sending' = Sending
    BY <1>4, SendingKept DEF ReceiveNothing, Execute, Drained
  <2> QED  BY <1>4, <2>1, LocalStep DEF ReceiveNothing, Execute, Drained, ctlVars, sendVars
<1>5. CASE Notify
  <2>1. CASE conn_state = "ONLINE"
    <3>1. Sending' = Sending
      BY <1>5, <2>1, CallStep DEF Notify, Tasks
    <3> QED  BY <1>5, <3>1, LocalStep DEF Notify, ctlVars, sendVars
  <2>2. CASE conn_state # "ONLINE"
    <3>1. Sending' = Sending
      BY <1>5, <2>2, SendingKept DEF Notify
    <3> QED  BY <1>5, <3>1, LocalStep DEF Notify, ctlVars, sendVars
  <2> QED  BY <2>1, <2>2
<1> QED  BY <1>1, <1>2, <1>3, <1>4, <1>5 DEF AgvcpTask

LEMMA ReceiveStep ==
    ASSUME IInv, DeliveryInv, Receive \/ \E t \in Tasks : TakeOther(t)
    PROVE  Simulated
<1>1. PICK i \in Deliverable(toCar) : Process(toCar[i]) /\ toCar' = Without(toCar, i)
  BY DEF Receive, TakeOther
<1>2. toCtl' \in Seq(Genuine) /\ toCar' \in Seq(Earned)
  BY <1>1, HandlingQuiet DEF IInv
<1>3. UNCHANGED <<out, sendVars, ctlVars>>
  BY DEF Receive, TakeOther
<1>4. Sending' = Sending
  BY <1>3, SendingKept
<1>5. UNCHANGED heard /\ UNCHANGED txseq
  BY <1>3 DEF ctlVars, sendVars
<1> QED  BY <1>2, <1>4, <1>5, QuietStep DEF Simulated

LEMMA HoldStep ==
    ASSUME IInv, DeliveryInv, NEW t \in Tasks, Resend(t) \/ GiveUp(t)
    PROVE  Simulated
<1>1. mutex = t
  BY DEF Resend, GiveUp, IInv, LinkHeld
<1>2. CASE Resend(t)
  <2>1. toCtl' \in Seq(Genuine)
    BY <1>1, <1>2, SentGenuine DEF IInv, Resend, DeliveryInv
  <2>2. Sending' = Sending
    BY <1>2, SendingKept DEF Resend
  <2> QED  BY <1>2, <2>1, <2>2, QuietStep DEF Resend, ctlVars, sendVars, Simulated, DeliveryInv
<1>3. CASE GiveUp(t)
  <2>1. Sending = NoMsg /\ Sending' = NoMsg
    BY <1>1, <1>3 DEF GiveUp, Sending, Reliable, Reports
  <2> QED  BY <1>3, <2>1, LocalStep DEF GiveUp, ctlVars
<1> QED  BY <1>2, <1>3

(* A message begun is new to the controller: all it has heard have earlier *)
(* numbers.                                                                *)
LEMMA LockAndSendStep ==
    ASSUME IInv, DeliveryInv, NEW t \in Tasks, LockAndSend(t)
    PROVE  Simulated
<1> DEFINE m == Numbered(out[t])
<1>1. mutex = "none" /\ mutex' = t /\ out' = out /\ txseq' = txseq /\ heard' = heard /\ toCar' = toCar
  BY DEF LockAndSend, ctlVars
<1>2. Sending = NoMsg
  BY <1>1 DEF Sending
<1>3. m \in Frame /\ m.type = out[t].type /\ m.seq = txseq
  BY DEF IInv, TypeOK, Body, Frame, Numbered
<1>4. Sending' = IF Reliable(out[t].type) THEN m ELSE NoMsg
  BY <1>1 DEF Sending, Tasks, Numbered, Reliable, NoMsg
<1>5. NoMsg \notin Frame
  BY SendingType DEF IInv
<1>6. \A j \in DOMAIN heard : heard[j] \in Frame /\ heard[j].seq < txseq
  BY <1>2, <1>5 DEF IInv, TypeOK, DeliveryInv, Numbering
<1>7. ~Channel!Heard(m)
  <2> SUFFICES ASSUME NEW j \in DOMAIN heard, heard[j] = m PROVE FALSE
    BY DEF Channel!Heard
  <2>1. m.seq < txseq
    BY <1>6
  <2> QED  BY <1>3, <2>1 DEF IInv, TypeOK
<1>8. Numbering'
  BY <1>1, <1>6 DEF Numbering
<1>9. toCtl' \in Seq(Genuine')
  <2>1. Genuine \subseteq Genuine'
    BY <1>1, <1>2, <1>5 DEF Genuine, Member
  <2>2. m \in Genuine'
    BY <1>3, <1>4 DEF Genuine
  <2>3. toCtl \in Seq(Genuine')
    BY <2>1, SeqOfLarger DEF DeliveryInv
  <2> QED  BY <2>2, <2>3, TransmitType DEF LockAndSend
<1>10. toCar' \in Seq(Earned')
  BY <1>1 DEF DeliveryInv, Earned
<1>11. Channel!Begin \/ UNCHANGED Channel!vars
  BY <1>1, <1>2, <1>3, <1>4, <1>7 DEF Channel!Begin, Channel!vars
<1> QED  BY <1>8, <1>9, <1>10, <1>11 DEF Simulated, DeliveryInv, Channel!Next

(* A heartbeat uses up a number while nothing is being sent.               *)
LEMMA LockAndBeatStep ==
    ASSUME IInv, DeliveryInv, NEW t \in Tasks, LockAndBeat(t)
    PROVE  Simulated
<1> DEFINE m == Numbered(out[t])
<1>1. mutex = "none" /\ mutex' = "none" /\ txseq' = txseq + 1 /\ heard' = heard /\ toCar' = toCar
  BY DEF LockAndBeat, ctlVars
<1>2. Sending = NoMsg /\ Sending' = NoMsg
  BY <1>1 DEF Sending
<1>3. Genuine' = Genuine /\ Earned' = Earned
  BY <1>1, <1>2 DEF Genuine, Earned, Member
<1>4. m \in Frame /\ ~Reliable(m.type)
  BY DEF IInv, TypeOK, Body, Frame, Numbered, LockAndBeat, Reliable, Reports
<1>5. toCtl' \in Seq(Genuine)
  BY <1>4, TransmitType DEF DeliveryInv, LockAndBeat, Genuine
<1>6. Numbering'
  <2> SUFFICES ASSUME NEW j \in DOMAIN heard PROVE heard[j].seq < txseq + 1
    BY <1>1 DEF Numbering
  <2>1. heard[j] \in Frame /\ heard[j].seq \in Nat /\ txseq \in Nat
    <3>1. heard \in Seq(Frame) /\ txseq \in Nat
      BY DEF IInv, TypeOK
    <3>2. heard[j] \in Frame
      BY <3>1
    <3> QED  BY <3>1, <3>2 DEF Frame
  <2>2. heard[j].seq < txseq
    BY <1>2, <2>1, SendingType DEF Numbering, DeliveryInv, IInv
  <2> QED  BY <2>1, <2>2
<1> QED  BY <1>1, <1>2, <1>3, <1>5, <1>6 DEF Simulated, DeliveryInv, Channel!vars

(* The answer a task takes answers the message it is sending, which has    *)
(* therefore been heard: no earlier message has its number.                *)
LEMMA AnsweredIsHeard ==
    ASSUME IInv, DeliveryInv, NEW t \in Tasks, TakeAnswer(t), Sending # NoMsg
    PROVE  Channel!Heard(Sending)
<1>1. mutex = t /\ txseq \in Nat
  BY DEF TakeAnswer, IInv, LinkHeld, TypeOK
<1>2. PICK i \in Deliverable(toCar) : Matches(t, toCar[i])
  BY DEF TakeAnswer
<1>3. toCar[i] \in Earned
  BY DeliverableIn DEF DeliveryInv
<1>4. Reliable(out[t].type) /\ Sending.seq = txseq
  BY <1>1, SendingType DEF Sending, IInv
<1>5. PICK j \in DOMAIN heard : heard[j].seq = txseq
  BY <1>2, <1>3, <1>4 DEF Earned, Matches
<1>6. heard[j] = Sending
  BY <1>1, <1>5 DEF DeliveryInv, Numbering
<1> QED  BY <1>6 DEF Channel!Heard

LEMMA TakeAnswerStep ==
    ASSUME IInv, DeliveryInv, NEW t \in Tasks, TakeAnswer(t)
    PROVE  Simulated
<1>1. /\ mutex = t /\ mutex' = "none" /\ txseq' = txseq + 1 /\ heard' = heard /\ toCtl' = toCtl
      /\ txseq \in Nat
  BY DEF TakeAnswer, ctlVars, IInv, LinkHeld, TypeOK
<1>2. PICK i \in Deliverable(toCar) : Matches(t, toCar[i]) /\ toCar' = Without(toCar, i)
  BY DEF TakeAnswer
<1>3. i \in 1 .. Len(toCar) /\ toCar[i] \in Earned
  BY DeliverableIn DEF DeliveryInv
<1>4. Sending' = NoMsg
  BY <1>1 DEF Sending
<1>5. Sending = NoMsg \/ (Sending # NoMsg /\ Sending.seq = txseq /\ Channel!Heard(Sending))
  BY AnsweredIsHeard, SendingType DEF IInv
<1>6. Channel!Return \/ UNCHANGED Channel!vars
  BY <1>1, <1>4, <1>5 DEF Channel!Return, Channel!vars
<1>7. toCar' \in Seq(Earned')
  <2>1. toCar' \in Seq(Earned)
    BY <1>2, <1>3, WithoutType DEF DeliveryInv
  <2> QED  BY <1>1, <2>1 DEF Earned
<1>8. toCtl' \in Seq(Genuine')
  <2>1. Genuine \subseteq Genuine'
    BY <1>1, <1>5, SendingType DEF IInv, Genuine, Member, Channel!Heard
  <2> QED  BY <1>1, <2>1, SeqOfLarger DEF DeliveryInv
<1>9. Numbering'
  <2> SUFFICES ASSUME NEW j \in DOMAIN heard PROVE heard[j].seq < txseq + 1
    BY <1>1 DEF Numbering
  <2>1. heard[j] \in Frame /\ heard[j].seq \in Nat
    <3>1. heard[j] \in Frame
      BY DEF IInv, TypeOK
    <3> QED  BY <3>1 DEF Frame
  <2>2. NoMsg \notin Frame
    BY SendingType DEF IInv
  <2> QED  BY <1>1, <1>5, <2>1, <2>2 DEF DeliveryInv, Numbering
<1> QED  BY <1>6, <1>7, <1>8, <1>9 DEF Simulated, DeliveryInv, Channel!Next

(* The steps of the controller and of the network.                         *)
LEMMA RequestStep ==
    ASSUME IInv, DeliveryInv, Request \/ RequestAgain
    PROVE  Simulated
<1>1. PICK d \in Requests : Arrive(d)
  <2>1. CASE Request
    <3>1. PICK k \in RequestKinds : Arrive([type |-> k, seq |-> req.seq + 1])
      BY <2>1 DEF Request
    <3>2. req.seq \in Nat /\ req.seq < MaxRequests
      <4>1. req \in Requests \cup {NoReq} /\ req.seq < MaxRequests
        BY <2>1 DEF Request, IInv, TypeOK
      <4> QED  BY <4>1 DEF Requests, NoReq
    <3>3. [type |-> k, seq |-> req.seq + 1] \in Requests
      BY <3>2 DEF Requests
    <3> QED  BY <3>1, <3>3
  <2>2. CASE RequestAgain
    BY <2>2 DEF RequestAgain, IInv, TypeOK
  <2> QED  BY <2>1, <2>2
<1>2. toCar' \in Seq(Earned)
  BY <1>1, RequestsEarned, ArriveType DEF DeliveryInv
<1>3. UNCHANGED <<out, sendVars, heard, toCtl>>
  BY DEF Request, RequestAgain, ctlVars
<1>4. Sending' = Sending /\ UNCHANGED txseq
  BY <1>3, SendingKept DEF sendVars
<1> QED  BY <1>2, <1>3, <1>4, QuietStep DEF Simulated, DeliveryInv

LEMMA TakenStep ==
    ASSUME IInv, DeliveryInv, HearAnswer \/ Lose
    PROVE  Simulated
<1>1. toCar' \in Seq(Earned) /\ toCtl' \in Seq(Genuine)
  <2>1. CASE HearAnswer
    <3>1. PICK i \in Deliverable(toCtl) : toCtl' = Without(toCtl, i)
      BY <2>1 DEF HearAnswer
    <3>2. toCtl' \in Seq(Genuine)
      BY <3>1, DeliverableIn, WithoutType DEF DeliveryInv
    <3> QED  BY <2>1, <3>2 DEF HearAnswer, DeliveryInv
  <2>2. CASE Lose
    <3>1. \A S : \A s \in Seq(S) : s # <<>> => Tail(s) \in Seq(S)
      OBVIOUS
    <3> QED  BY <2>2, <3>1, Zenon DEF Lose, DeliveryInv
  <2> QED  BY <2>1, <2>2
<1>2. UNCHANGED <<out, sendVars, heard>>
  BY DEF HearAnswer, Lose, ctlVars
<1>3. Sending' = Sending /\ UNCHANGED txseq
  BY <1>2, SendingKept DEF sendVars
<1> QED  BY <1>1, <1>2, <1>3, QuietStep DEF Simulated

(* What the controller hears for the first time is the message being sent; *)
(* what it hears again it answers again.                                   *)
LEMMA HearMessageStep ==
    ASSUME IInv, DeliveryInv, HearMessage
    PROVE  Simulated
<1>1. PICK i \in Deliverable(toCtl) :
        /\ toCtl[i].type \in Outgoing
        /\ toCtl' = Without(toCtl, i)
        /\ heard' = IF Reliable(toCtl[i].type) /\ ~Member(toCtl[i], heard)
                    THEN Append(heard, toCtl[i]) ELSE heard
        /\ IF toCtl[i].type = "HEARTBEAT" THEN UNCHANGED toCar
           ELSE Arrive([type |-> toCtl[i].type, seq |-> toCtl[i].seq])
  BY DEF HearMessage
<1> DEFINE f == toCtl[i]
           d == [type |-> f.type, seq |-> f.seq]
<1>2. f \in Genuine /\ f \in Frame /\ heard \in Seq(Frame) /\ toCtl' \in Seq(Genuine)
  BY <1>1, DeliverableIn, WithoutType DEF DeliveryInv, IInv, TypeOK
<1>3. UNCHANGED <<out, sendVars>>
  BY DEF HearMessage
<1>4. Sending' = Sending /\ UNCHANGED txseq
  BY <1>3, SendingKept DEF sendVars
<1>5. d \in Answers
  BY <1>1, <1>2 DEF Answers, Frame
<1>6. CASE Reliable(f.type) /\ ~Member(f, heard)
  <2>1. heard' = Append(heard, f)
    BY <1>1, <1>6
  <2>2. f = Sending /\ Sending # NoMsg
    BY <1>2, <1>6, SendingType DEF Genuine, IInv
  <2>3. Channel!Hear
    BY <1>4, <1>6, <2>1, <2>2 DEF Channel!Hear, Channel!Heard, Member
  <2>4. /\ \A j \in DOMAIN heard : j \in DOMAIN heard' /\ heard'[j] = heard[j]
        /\ \E j \in DOMAIN heard' : heard'[j] = f
        /\ \A j \in DOMAIN heard' : j \in DOMAIN heard \/ heard'[j] = f
    BY <1>2, <2>1
  <2>5. Numbering'
    BY <1>4, <2>2, <2>4 DEF DeliveryInv, Numbering
  <2>6. Genuine \subseteq Genuine'
    BY <1>4, <2>4 DEF Genuine, Member
  <2>7. Earned \subseteq Earned' /\ d \in Earned'
    BY <1>5, <2>4 DEF Earned
  <2>8. toCtl' \in Seq(Genuine')
    BY <1>2, <2>6, SeqOfLarger
  <2>9. toCar' \in Seq(Earned')
    <3>1. toCar \in Seq(Earned')
      BY <2>7, SeqOfLarger DEF DeliveryInv
    <3> QED  BY <1>1, <2>7, <3>1, ArriveType
  <2> QED  BY <2>3, <2>5, <2>8, <2>9 DEF Simulated, DeliveryInv, Channel!Next
<1>7. CASE ~(Reliable(f.type) /\ ~Member(f, heard))
  <2>1. heard' = heard
    BY <1>1, <1>7
  <2>2. d \in Earned
    BY <1>5, <1>7 DEF Earned, Member
  <2>3. toCar' \in Seq(Earned)
    BY <1>1, <2>2, ArriveType DEF DeliveryInv
  <2> QED  BY <1>2, <1>4, <2>1, <2>3, QuietStep DEF Simulated
<1> QED  BY <1>6, <1>7

-----------------------------------------------------------------------------
(* Every step of the link is a step of the channel or a stutter.           *)
LEMMA NextSimulated ==
    ASSUME IInv, DeliveryInv, [Next]_vars
    PROVE  Simulated
<1>1. CASE UNCHANGED vars
  <2>1. UNCHANGED <<out, sendVars, heard, toCtl, toCar>>
    BY <1>1 DEF vars, ctlVars
  <2>2. Sending' = Sending /\ UNCHANGED txseq
    BY <2>1, SendingKept DEF sendVars
  <2> QED  BY <2>1, <2>2, LocalStep
<1>2. CASE AgvcpTask \/ Heartbeat \/ Notify
  BY <1>2, AgvcpTaskStep
<1>3. CASE Receive \/ \E t \in Tasks : TakeOther(t)
  BY <1>3, ReceiveStep
<1>4. CASE \E t \in Tasks : LockAndSend(t) \/ LockAndBeat(t) \/ TakeAnswer(t)
  BY <1>4, LockAndSendStep, LockAndBeatStep, TakeAnswerStep
<1>5. CASE \E t \in Tasks : Resend(t) \/ GiveUp(t)
  BY <1>5, HoldStep
<1>6. CASE Request \/ RequestAgain
  BY <1>6, RequestStep
<1>7. CASE HearAnswer \/ Lose
  BY <1>7, TakenStep
<1>8. CASE HearMessage
  BY <1>8, HearMessageStep
<1> QED  BY <1>1, <1>2, <1>3, <1>4, <1>5, <1>6, <1>7, <1>8 DEF Next, TaskNext, Await

(* agv_send_msg() implements the channel that ReportChannel promises:      *)
(* whatever is lost, repeated or reordered, every report and confirmation  *)
(* is heard once, in the order they were begun, and its sender goes on     *)
(* only then.                                                              *)
THEOREM DeliveryHolds == Spec => DeliveredInOrder
<1>1. Init => DeliveryInv /\ Channel!Init
  <2> SUFFICES ASSUME Init PROVE DeliveryInv /\ Channel!Init
    OBVIOUS
  <2>1. toCtl = <<>> /\ toCar = <<>> /\ heard = <<>> /\ mutex = "none"
    BY DEF Init
  <2>2. Sending = NoMsg
    BY <2>1 DEF Sending
  <2> QED  BY <2>1, <2>2 DEF DeliveryInv, Numbering, Channel!Init
<1>2. IInv /\ DeliveryInv /\ [Next]_vars => DeliveryInv' /\ [Channel!Next]_(Channel!vars)
  BY NextSimulated DEF Simulated
<1> QED  BY InvariantHolds, <1>1, <1>2, PTL DEF Spec, DeliveredInOrder, Channel!Spec
-----------------------------------------------------------------------------
(* Actions.  What the controller has heard stays heard.                    *)
Confirmed(n) == \E j \in DOMAIN heard : heard[j].type = "MSG_CONFIRM" /\ heard[j].arg = n

LEMMA HeardStays ==
    ASSUME IInv, [Next]_vars
    PROVE  /\ \A j \in DOMAIN heard : j \in DOMAIN heard' /\ heard'[j] = heard[j]
           /\ \A n : Confirmed(n) => Confirmed(n)'
<1>1. \A j \in DOMAIN heard : j \in DOMAIN heard' /\ heard'[j] = heard[j]
  <2>1. CASE HearMessage
    <3>1. heard \in Seq(Frame) /\ \E f \in Frame : heard' = heard \/ heard' = Append(heard, f)
      <4>1. PICK i \in Deliverable(toCtl) :
              heard' = IF Reliable(toCtl[i].type) /\ ~Member(toCtl[i], heard)
                       THEN Append(heard, toCtl[i]) ELSE heard
        BY <2>1 DEF HearMessage
      <4>2. toCtl[i] \in Frame
        BY DeliverableIn DEF IInv, TypeOK
      <4> QED  BY <4>1, <4>2 DEF IInv, TypeOK
    <3> QED  BY <3>1
  <2>2. CASE ~HearMessage
    <3>1. heard' = heard
      BY <2>2 DEF Next, TaskNext, AgvcpTask, Register, Heartbeat, Receive, ReceiveNothing, Confirm,
                  Execute, Drained, Notify, Await, LockAndSend, LockAndBeat, Resend, GiveUp,
                  TakeOther, TakeAnswer, Request, RequestAgain, HearAnswer, Lose, ctlVars, vars
    <3> QED  BY <3>1
  <2> QED  BY <2>1, <2>2
<1> QED  BY <1>1 DEF Confirmed

(* The confirmation agvcp sends is that of the action in hand, and it goes *)
(* on to execute that action once it is heard.                             *)
InHandConfirmed ==
    /\ pc["agvcp"] \in {"lock", "wait"} /\ out["agvcp"].type = "MSG_CONFIRM"
         => out["agvcp"].arg = current
    /\ pc["agvcp"] = "execute" => Confirmed(current)
    /\ \A i \in DOMAIN executed : Confirmed(executed[i])

LEMMA ConfirmedKept ==
    ASSUME IInv, DeliveryInv, InHandConfirmed, [Next]_vars
    PROVE  InHandConfirmed'
<1> DEFINE Place == <<pc["agvcp"], out["agvcp"], current, executed>>
<1>a. /\ pc \in [Tasks -> {"register", "lock", "wait", "loop", "drain", "execute", "idle"}]
      /\ out \in [Tasks -> Body] /\ "agvcp" \in Tasks /\ "agv" \in Tasks /\ "agv" # "agvcp"
      /\ executed \in Seq(Nat) /\ current \in Nat
  BY DEF IInv, TypeOK, Tasks
<1>b. \A n : Confirmed(n) => Confirmed(n)'
  BY HeardStays
<1>c. UNCHANGED Place => InHandConfirmed'
  BY <1>b DEF InHandConfirmed
<1>1. CASE Confirm
  <2>1. /\ pc'["agvcp"] = "lock" /\ out'["agvcp"].arg = Head(action_que)
        /\ current' = Head(action_que) /\ executed' = executed
    BY <1>1, <1>a DEF Confirm, Call, Goto
  <2> QED  BY <2>1, <1>b DEF InHandConfirmed
<1>2. CASE Execute
  <2>1. /\ pc["agvcp"] = "execute" /\ pc'["agvcp"] = "drain"
        /\ executed' = Append(executed, current)
    BY <1>2, <1>a DEF Execute, Goto
  <2>2. \A i \in DOMAIN executed' : \/ i \in DOMAIN executed /\ executed'[i] = executed[i]
                                    \/ executed'[i] = current
    BY <2>1, <1>a
  <2>3. \A n : n = current => Confirmed(n)'
    BY <2>1, <1>b DEF InHandConfirmed
  <2> QED  BY <2>1, <2>2, <2>3, <1>b DEF InHandConfirmed
<1>3. CASE TakeAnswer("agvcp")
  <2>1. /\ pc["agvcp"] = "wait" /\ pc'["agvcp"] = After(out["agvcp"].type)
        /\ UNCHANGED <<out, current, executed, heard>> /\ mutex = "agvcp"
    BY <1>3, <1>a DEF TakeAnswer, Goto, actVars, ctlVars, IInv, LinkHeld
  <2>2. out["agvcp"].type = "MSG_CONFIRM" => Confirmed(current)
    <3> SUFFICES ASSUME out["agvcp"].type = "MSG_CONFIRM" PROVE Confirmed(current)
      OBVIOUS
    <3>1. Sending = Numbered(out["agvcp"])
      BY <2>1, <1>a DEF Sending, Reliable
    <3>2. /\ Sending.type = "MSG_CONFIRM" /\ Sending.arg = current
      BY <3>1, <2>1 DEF Numbered, InHandConfirmed
    <3>3. Channel!Heard(Sending)
      BY <1>3, <1>a, <3>2, AnsweredIsHeard DEF NoMsg
    <3> QED  BY <3>2, <3>3 DEF Channel!Heard, Confirmed
  <2>3. pc'["agvcp"] \in {"loop", "execute", "idle"}
        /\ (pc'["agvcp"] = "execute" => out["agvcp"].type = "MSG_CONFIRM")
    BY <2>1 DEF After
  <2> QED  BY <2>1, <2>2, <2>3, <1>b DEF InHandConfirmed
<1>4. CASE Register \/ Heartbeat
  <2>1. /\ pc'["agvcp"] = "lock" /\ out'["agvcp"].type # "MSG_CONFIRM" /\ executed' = executed
    BY <1>4, <1>a DEF Register, Heartbeat, Call, Goto, actVars
  <2> QED  BY <2>1, <1>b DEF InHandConfirmed
<1>5. CASE \/ Receive \/ ReceiveNothing \/ Drained \/ LockAndBeat("agvcp") \/ GiveUp("agvcp")
  <2>1. pc'["agvcp"] \in {"drain", "loop", "register"} /\ UNCHANGED <<executed, heard>>
    BY <1>5, <1>a DEF Receive, ReceiveNothing, Drained, LockAndBeat, GiveUp, Goto, Process, TakeAction,
           LeaveAction, AnswerAgain, WriteParam, ReadParam, Unsupported, actVars, ctlVars
  <2> QED  BY <2>1, <1>b DEF InHandConfirmed
<1>6. CASE LockAndSend("agvcp")
  <2>1. /\ pc["agvcp"] = "lock" /\ pc'["agvcp"] = "wait"
        /\ UNCHANGED <<out, current, executed, heard>>
    BY <1>6, <1>a DEF LockAndSend, Goto, actVars, ctlVars
  <2> QED  BY <2>1, <1>b DEF InHandConfirmed
<1>7. CASE \E t \in Tasks : Resend(t) \/ TakeOther(t)
  <2>1. UNCHANGED Place
    BY <1>7 DEF Resend, TakeOther, Process, TakeAction, LeaveAction, AnswerAgain, WriteParam,
                ReadParam, Unsupported, actVars
  <2> QED  BY <2>1, <1>c
<1>8. CASE Notify \/ LockAndSend("agv") \/ LockAndBeat("agv") \/ GiveUp("agv") \/ TakeAnswer("agv")
  <2>1. UNCHANGED <<current, executed>>
    BY <1>8 DEF Notify, LockAndSend, LockAndBeat, GiveUp, TakeAnswer, actVars
  <2>2. UNCHANGED <<pc["agvcp"], out["agvcp"]>>
    BY <1>8, <1>a DEF Notify, LockAndSend, LockAndBeat, GiveUp, TakeAnswer, Call, Goto
  <2> QED  BY <2>1, <2>2, <1>c
<1>9. CASE Request \/ RequestAgain \/ HearAnswer \/ HearMessage \/ Lose \/ UNCHANGED vars
  <2>1. UNCHANGED Place
    BY <1>9 DEF Request, RequestAgain, HearAnswer, HearMessage, Lose, actVars, vars
  <2> QED  BY <2>1, <1>c
<1> QED  BY <1>1, <1>2, <1>3, <1>4, <1>5, <1>6, <1>7, <1>8, <1>9
         DEF Next, TaskNext, AgvcpTask, Await, Tasks

(* No action is executed before the controller has heard its confirmation, *)
(* whatever the network loses, repeats or reorders.                        *)
THEOREM ConfirmedFirst == Spec => []ExecutedConfirmed
<1>1. Init => DeliveryInv /\ InHandConfirmed
  <2> SUFFICES ASSUME Init PROVE DeliveryInv /\ InHandConfirmed
    OBVIOUS
  <2>1. toCtl = <<>> /\ toCar = <<>> /\ heard = <<>> /\ mutex = "none"
    BY DEF Init
  <2>2. pc["agvcp"] = "register" /\ executed = <<>>
    BY DEF Init, Tasks
  <2> QED  BY <2>1, <2>2 DEF DeliveryInv, Numbering, InHandConfirmed
<1>2. IInv /\ DeliveryInv /\ InHandConfirmed /\ [Next]_vars => DeliveryInv' /\ InHandConfirmed'
  BY NextSimulated, ConfirmedKept DEF Simulated
<1>3. InHandConfirmed => ExecutedConfirmed
  BY DEF InHandConfirmed, ExecutedConfirmed, Confirmed
<1> QED  BY InvariantHolds, <1>1, <1>2, <1>3, PTL DEF Spec
-----------------------------------------------------------------------------
(* The steps as the buffered actions see them.                             *)
Handled ==
    /\ \E i \in Deliverable(toCar) : Process(toCar[i]) /\ toCar' = Without(toCar, i)
    /\ UNCHANGED ctlVars

Sent ==
    /\ UNCHANGED <<actVars, rxVars, ctlVars>>
    /\ toCtl' = toCtl \/ \E f \in Frame : f.type \in Outgoing /\ Transmit(f)
    /\ toCar' = toCar \/ \E i \in Deliverable(toCar) : toCar' = Without(toCar, i)

LEMMA StepKinds ==
    ASSUME IInv, [Next]_vars
    PROVE  \/ Handled \/ Confirm \/ Execute \/ Sent
           \/ Request \/ RequestAgain \/ HearAnswer \/ HearMessage \/ Lose
<1>1. CASE Receive \/ \E t \in Tasks : TakeOther(t)
  BY <1>1 DEF Receive, TakeOther, Handled
<1>2. CASE Register \/ ReceiveNothing \/ Drained \/ Heartbeat \/ Notify \/ UNCHANGED vars
  BY <1>2 DEF Register, ReceiveNothing, Drained, Heartbeat, Notify, vars, Sent
<1>3. CASE \E t \in Tasks : LockAndSend(t) \/ LockAndBeat(t) \/ Resend(t)
  <2>1. PICK t \in Tasks : LockAndSend(t) \/ LockAndBeat(t) \/ Resend(t)
    BY <1>3
  <2>2. Numbered(out[t]) \in Frame /\ Numbered(out[t]).type \in Outgoing
    BY DEF IInv, TypeOK, Body, Frame, Numbered
  <2> QED  BY <2>1, <2>2 DEF LockAndSend, LockAndBeat, Resend, Sent
<1>4. CASE \E t \in Tasks : GiveUp(t) \/ TakeAnswer(t)
  BY <1>4 DEF GiveUp, TakeAnswer, Sent
<1> QED  BY <1>1, <1>2, <1>3, <1>4 DEF Next, TaskNext, AgvcpTask, Await

(* The content of a channel after something is taken out or comes in.      *)
LEMMA WithoutIs ==
    ASSUME NEW S, NEW s \in Seq(S), NEW i \in Deliverable(s)
    PROVE  /\ Without(s, i) \in Seq(S) /\ i \in DOMAIN s
           /\ \A j \in DOMAIN Without(s, i) :
                  \E k \in DOMAIN s : Without(s, i)[j] = s[k] /\ (Fifo => k = j + 1)
<1>1. i \in 1 .. Len(s) /\ Len(s) \in Nat /\ (Fifo => i = 1)
  BY DEF Deliverable
<1> DEFINE a == SubSeq(s, 1, i - 1)  b == SubSeq(s, i + 1, Len(s))
<1>2. /\ a \in Seq(S) /\ Len(a) = i - 1 /\ \A j \in 1 .. i - 1 : a[j] = s[j]
  BY <1>1
<1>3. /\ b \in Seq(S) /\ Len(b) = Len(s) - i /\ \A j \in 1 .. Len(s) - i : b[j] = s[j + i]
  BY <1>1
<1>4. Without(s, i) = a \o b
  BY DEF Without
<1> HIDE DEF a, b
<1>5. /\ a \o b \in Seq(S) /\ Len(a \o b) = Len(a) + Len(b)
      /\ \A j \in 1 .. Len(a) + Len(b) : (a \o b)[j] = IF j <= Len(a) THEN a[j] ELSE b[j - Len(a)]
  BY <1>2, <1>3, ConcatProperties
<1>6. ASSUME NEW j \in 1 .. Len(s) - 1
      PROVE  \E k \in DOMAIN s : (a \o b)[j] = s[k] /\ (Fifo => k = j + 1)
  <2>1. CASE j <= i - 1
    <3>1. (a \o b)[j] = s[j] /\ ~Fifo
      BY <1>1, <1>2, <1>3, <1>5, <2>1
    <3> QED  BY <1>1, <3>1
  <2>2. CASE j > i - 1
    <3>1. j - (i - 1) \in 1 .. Len(s) - i /\ (j - (i - 1)) + i = j + 1
      BY <1>1, <2>2
    <3>2. (a \o b)[j] = s[j + 1]
      BY <1>1, <1>2, <1>3, <1>5, <2>2, <3>1
    <3>3. j + 1 \in DOMAIN s
      BY <1>1
    <3> QED  BY <3>2, <3>3
  <2>3. j <= i - 1 \/ j > i - 1
    BY <1>1
  <2> QED  BY <2>1, <2>2, <2>3, Zenon
<1>7. DOMAIN (a \o b) = 1 .. Len(s) - 1
  <2>1. Len(a \o b) = Len(s) - 1
    BY <1>1, <1>2, <1>3, <1>5
  <2>2. a \o b \in Seq(S)
    BY <1>5
  <2>3. \A q \in Seq(S) : DOMAIN q = 1 .. Len(q)
    OBVIOUS
  <2> QED  BY <2>1, <2>2, <2>3, Zenon
<1>8. i \in DOMAIN s
  BY <1>1
<1> QED  BY <1>4, <1>5, <1>6, <1>7, <1>8
-----------------------------------------------------------------------------
(* An action that is answered has a block until it is executed.            *)
Kept(n) == Member(n, action_que) \/ current = n \/ Member(n, executed)

(* A number is that of one request, and not above the controller's last.   *)
OneRequest ==
    /\ \A i \in DOMAIN toCar : toCar[i].type \in Kinds =>
          /\ toCar[i].seq <= req.seq
          /\ toCar[i].seq = req.seq => toCar[i] = req
          /\ \A j \in DOMAIN toCar :
                toCar[j].type \in Kinds /\ toCar[j].seq = toCar[i].seq => toCar[j] = toCar[i]
    /\ rxseq <= req.seq

(* The last request taken, if an action, is kept, and so is each action    *)
(* whose answer is under way.                                              *)
AnsweredKept ==
    /\ \A i \in DOMAIN toCar : toCar[i].type = "ACTION" /\ toCar[i].seq = rxseq => Kept(rxseq)
    /\ req.type = "ACTION" /\ req.seq = rxseq /\ rxseq # 0 => Kept(rxseq)
    /\ \A i \in DOMAIN toCtl : toCtl[i].type = "ACTION" => toCtl[i].seq # 0 /\ Kept(toCtl[i].seq)

KeptInv == OneRequest /\ AnsweredKept /\ AnsweredActionKept

LEMMA AppendMembers ==
    ASSUME NEW S, NEW s \in Seq(S), NEW e \in S
    PROVE  /\ Member(e, Append(s, e)) /\ \A n : Member(n, s) => Member(n, Append(s, e))
           /\ \A i \in DOMAIN Append(s, e) : Append(s, e)[i] = e
                                             \/ (i \in DOMAIN s /\ Append(s, e)[i] = s[i])
<1>1. /\ DOMAIN s = 1 .. Len(s) /\ DOMAIN Append(s, e) = 1 .. Len(s) + 1 /\ Len(s) \in Nat
      /\ Append(s, e)[Len(s) + 1] = e /\ \A i \in 1 .. Len(s) : Append(s, e)[i] = s[i]
  OBVIOUS
<1>2. Len(s) + 1 \in DOMAIN Append(s, e) /\ DOMAIN s \subseteq DOMAIN Append(s, e)
      /\ \A i \in DOMAIN Append(s, e) : i = Len(s) + 1 \/ i \in DOMAIN s
  BY <1>1
<1>3. \A i \in DOMAIN s : Append(s, e)[i] = s[i]
  BY <1>1
<1> QED  BY <1>1, <1>2, <1>3, Zenon DEF Member

LEMMA HeadOrTail ==
    ASSUME NEW S, NEW s \in Seq(S), s # <<>>
    PROVE  /\ \A n : Member(n, s) => n = Head(s) \/ Member(n, Tail(s))
           /\ \A i \in DOMAIN Tail(s) : i + 1 \in DOMAIN s /\ Tail(s)[i] = s[i + 1]
<1>1. Len(s) \in Nat \ {0} /\ Head(s) = s[1] /\ DOMAIN s = 1 .. Len(s)
  OBVIOUS
<1>2. Len(Tail(s)) = Len(s) - 1 /\ Tail(s) \in Seq(S)
  OBVIOUS
<1>3. \A i \in 1 .. Len(s) - 1 : Tail(s)[i] = s[i + 1]
  BY <1>1
<1>4. DOMAIN Tail(s) = 1 .. Len(s) - 1
  BY <1>2
<1>5. ASSUME NEW i \in DOMAIN s, i # 1 PROVE Member(s[i], Tail(s))
  <2>1. i - 1 \in 1 .. Len(s) - 1 /\ (i - 1) + 1 = i
    BY <1>1, <1>5
  <2>2. Tail(s)[i - 1] = s[i]
    BY <1>3, <2>1
  <2> QED  BY <1>4, <2>1, <2>2 DEF Member
<1>6. \A n : Member(n, s) => n = Head(s) \/ Member(n, Tail(s))
  <2> SUFFICES ASSUME NEW i \in DOMAIN s PROVE s[i] = Head(s) \/ Member(s[i], Tail(s))
    BY DEF Member
  <2> QED  BY <1>1, <1>5
<1>7. \A i \in DOMAIN Tail(s) : i + 1 \in DOMAIN s
  BY <1>1, <1>4
<1> QED  BY <1>3, <1>4, <1>6, <1>7

LEMMA KeptStays ==
    ASSUME IInv, [Next]_vars
    PROVE  \A n \in Nat \ {0} : Kept(n) => Kept(n)'
<1> SUFFICES ASSUME NEW n \in Nat \ {0}, Kept(n) PROVE Kept(n)'
  OBVIOUS
<1>a. action_que \in Seq(Nat \ {0}) /\ executed \in Seq(Nat) /\ current \in Nat
  BY DEF IInv, TypeOK
<1>1. CASE Handled
  <2>1. PICK i \in Deliverable(toCar) : Process(toCar[i])
    BY <1>1 DEF Handled
  <2>2. CASE TakeAction(toCar[i])
    <3>1. toCar[i].seq \in Nat \ {0}
      <4>1. toCar[i] \in Requests \cup Answers
        BY DeliverableIn DEF IInv, TypeOK
      <4> QED  BY <4>1, <2>2 DEF TakeAction, Requests, Answers, Outgoing, Reports
    <3>2. action_que' = Append(action_que, toCar[i].seq) /\ UNCHANGED <<current, executed>>
      BY <2>2 DEF TakeAction
    <3> QED  BY <1>a, <3>1, <3>2, AppendMembers DEF Kept
  <2>3. CASE ~TakeAction(toCar[i])
    <3>1. UNCHANGED actVars
      BY <2>1, <2>3 DEF Process, LeaveAction, AnswerAgain, WriteParam, ReadParam, Unsupported
    <3> QED  BY <3>1 DEF actVars, Kept
  <2> QED  BY <2>2, <2>3
<1>2. CASE Confirm
  <2>1. /\ action_que # <<>> /\ current = 0 /\ current' = Head(action_que)
        /\ action_que' = Tail(action_que) /\ executed' = executed
    BY <1>2 DEF Confirm, IInv, AgvcpPlace
  <2> QED  BY <1>a, <2>1, HeadOrTail DEF Kept
<1>3. CASE Execute
  <2>1. executed' = Append(executed, current) /\ action_que' = action_que
    BY <1>3 DEF Execute
  <2> QED  BY <1>a, <2>1, AppendMembers DEF Kept
<1>4. CASE Sent \/ Request \/ RequestAgain \/ HearAnswer \/ HearMessage \/ Lose
  <2>1. UNCHANGED actVars
    BY <1>4 DEF Sent, Request, RequestAgain, HearAnswer, HearMessage, Lose
  <2> QED  BY <2>1 DEF actVars, Kept
<1> QED  BY <1>1, <1>2, <1>3, <1>4, StepKinds

LEMMA ArriveMembers ==
    ASSUME IInv, NEW d \in Requests \cup Answers, Arrive(d)
    PROVE  \A i \in DOMAIN toCar' : toCar'[i] = d \/ (i \in DOMAIN toCar /\ toCar'[i] = toCar[i])
BY AppendMembers DEF Arrive, IInv, TypeOK

LEMMA TransmitMembers ==
    ASSUME IInv, NEW f \in Frame, Transmit(f)
    PROVE  \A i \in DOMAIN toCtl' : toCtl'[i] = f \/ (i \in DOMAIN toCtl /\ toCtl'[i] = toCtl[i])
BY AppendMembers DEF Transmit, IInv, TypeOK

(* An action has a number other than 0.                                    *)
LEMMA RequestNumbers ==
    ASSUME IInv
    PROVE  /\ rxseq \in Nat /\ req.seq \in Nat
           /\ \A i \in DOMAIN toCtl : toCtl[i].seq \in Nat
           /\ \A i \in DOMAIN toCar : toCar[i].seq \in Nat
           /\ \A i \in DOMAIN toCar : toCar[i].type \in Kinds =>
                 toCar[i] \in Requests /\ toCar[i].seq # 0
<1>1. rxseq \in Nat /\ req \in Requests \cup {NoReq}
  BY DEF IInv, TypeOK
<1>2. req.seq \in Nat
  BY <1>1 DEF Requests, NoReq
<1>3. \A i \in DOMAIN toCtl : toCtl[i] \in Frame
  BY DEF IInv, TypeOK
<1>4. \A i \in DOMAIN toCar : toCar[i] \in Requests \cup Answers
  BY DEF IInv, TypeOK
<1>5. \A d \in Requests \cup Answers : d.seq \in Nat
  BY DEF Requests, Answers
<1>6. \A d \in Requests \cup Answers : d.type \in Kinds => d \in Requests /\ d.seq # 0
  BY DEF Requests, Answers, Outgoing, Reports, Kinds
<1>7. \A f \in Frame : f.seq \in Nat
  BY DEF Frame
<1> QED  BY <1>1, <1>2, <1>3, <1>4, <1>5, <1>6, <1>7

(* Steps that take no request and make none: the channels hold what they   *)
(* held, or messages of the vehicle and their answers.                     *)
LEMMA KeptQuiet ==
    ASSUME IInv, [Next]_vars, KeptInv, UNCHANGED <<rxseq, req, answered>>,
           \A i \in DOMAIN toCar' : toCar'[i].type \in Kinds =>
                \E k \in DOMAIN toCar : toCar'[i] = toCar[k],
           \A i \in DOMAIN toCtl' : toCtl'[i].type = "ACTION" =>
                \E k \in DOMAIN toCtl : toCtl'[i] = toCtl[k]
    PROVE  KeptInv'
<1>a. /\ rxseq \in Nat /\ req.seq \in Nat
      /\ \A i \in DOMAIN toCtl : toCtl[i].seq \in Nat
      /\ \A i \in DOMAIN toCar : toCar[i].type = "ACTION" => toCar[i].seq # 0
  BY RequestNumbers DEF Kinds
<1>b. \A n \in Nat \ {0} : Kept(n) => Kept(n)'
  BY KeptStays
<1>c. "ACTION" \in Kinds
  BY DEF Kinds
<1>1. OneRequest'
  <2>1. \A i \in DOMAIN toCar' : toCar'[i].type \in Kinds =>
          /\ toCar'[i].seq <= req.seq
          /\ toCar'[i].seq = req.seq => toCar'[i] = req
    BY DEF KeptInv, OneRequest
  <2>2. \A i, j \in DOMAIN toCar' :
          toCar'[i].type \in Kinds /\ toCar'[j].type \in Kinds /\ toCar'[j].seq = toCar'[i].seq
             => toCar'[j] = toCar'[i]
    BY DEF KeptInv, OneRequest
  <2> QED  BY <2>1, <2>2 DEF KeptInv, OneRequest
<1>2. AnsweredKept'
  <2>1. ASSUME NEW i \in DOMAIN toCar', toCar'[i].type = "ACTION", toCar'[i].seq = rxseq
        PROVE  Kept(rxseq)'
    BY <1>a, <1>b, <1>c, <2>1 DEF KeptInv, AnsweredKept
  <2>2. ASSUME NEW i \in DOMAIN toCtl', toCtl'[i].type = "ACTION"
        PROVE  toCtl'[i].seq # 0 /\ \A n : n = toCtl'[i].seq => Kept(n)'
    BY <1>a, <1>b, <2>2 DEF KeptInv, AnsweredKept
  <2>3. req.type = "ACTION" /\ req.seq = rxseq /\ rxseq # 0 => Kept(rxseq)'
    BY <1>a, <1>b DEF KeptInv, AnsweredKept
  <2> QED  BY <2>1, <2>2, <2>3 DEF AnsweredKept
<1>3. AnsweredActionKept'
  BY <1>a, <1>b DEF KeptInv, AnsweredActionKept, Kept
<1> QED  BY <1>1, <1>2, <1>3 DEF KeptInv
LEMMA KeptHandled ==
    ASSUME IInv, [Next]_vars, KeptInv, Handled
    PROVE  KeptInv'
<1>1. PICK i \in Deliverable(toCar) : Process(toCar[i]) /\ toCar' = Without(toCar, i)
  BY DEF Handled
<1> DEFINE d == toCar[i]
<1>a. /\ rxseq \in Nat /\ req.seq \in Nat /\ i \in DOMAIN toCar
      /\ \A k \in DOMAIN toCtl : toCtl[k].seq \in Nat
      /\ \A k \in DOMAIN toCar : toCar[k].seq \in Nat
      /\ \A k \in DOMAIN toCar : toCar[k].type \in Kinds => toCar[k].seq # 0
  BY <1>1, RequestNumbers, WithoutIs DEF IInv, TypeOK
<1>b. \A n \in Nat \ {0} : Kept(n) => Kept(n)'
  BY KeptStays
<1>c. "ACTION" \in Kinds /\ UNCHANGED <<req, answered>>
  BY DEF Kinds, Handled, ctlVars
<1>d. \A k \in DOMAIN toCar' : \E m \in DOMAIN toCar : toCar'[k] = toCar[m]
  BY <1>1, WithoutIs DEF IInv, TypeOK
<1>e. Answer(d) /\ d.type \in Kinds =>
         \A k \in DOMAIN toCtl' : \/ toCtl'[k].type = d.type /\ toCtl'[k].seq = d.seq
                                  \/ k \in DOMAIN toCtl /\ toCtl'[k] = toCtl[k]
  <2>1. d.type \in Kinds => [type |-> d.type, seq |-> d.seq, arg |-> 0] \in Frame
    BY <1>a DEF Frame
  <2> QED  BY <2>1, TransmitMembers DEF Answer
<1>2. CASE LeaveAction(d) \/ Unsupported(d)
  <2>1. UNCHANGED <<rxseq, toCtl>>
    BY <1>2 DEF LeaveAction, Unsupported, rxVars
  <2> QED  BY <1>c, <1>d, <2>1, KeptQuiet
<1>3. CASE AnswerAgain(d)
  <2>1. /\ rxseq' = rxseq /\ d.seq = rxseq /\ Answer(d) /\ d.type \in Kinds
        /\ UNCHANGED actVars
    BY <1>3 DEF AnswerAgain, Repeated, rxVars, Kinds
  <2>2. d.type = "ACTION" => Kept(rxseq)
    BY <1>a, <2>1 DEF KeptInv, AnsweredKept
  <2>3. OneRequest' /\ AnsweredActionKept'
    BY <1>a, <1>c, <1>d, <2>1 DEF KeptInv, OneRequest, AnsweredActionKept, actVars
  <2>4. AnsweredKept'
    <3>1. \A n : Kept(n)' <=> Kept(n)
      BY <2>1 DEF actVars, Kept
    <3>2. \A k \in DOMAIN toCtl' : toCtl'[k].type = "ACTION" => toCtl'[k].seq # 0 /\ Kept(toCtl'[k].seq)
      BY <1>a, <1>c, <1>e, <2>1, <2>2 DEF KeptInv, AnsweredKept
    <3>3. \A k \in DOMAIN toCar' : toCar'[k].type = "ACTION" /\ toCar'[k].seq = rxseq => Kept(rxseq)
      BY <1>d DEF KeptInv, AnsweredKept
    <3>4. req.type = "ACTION" /\ req.seq = rxseq /\ rxseq # 0 => Kept(rxseq)
      BY DEF KeptInv, AnsweredKept
    <3> QED  BY <1>c, <2>1, <3>1, <3>2, <3>3, <3>4 DEF AnsweredKept
  <2> QED  BY <2>3, <2>4 DEF KeptInv
<1>4. CASE TakeAction(d) \/ WriteParam(d) \/ ReadParam(d)
  <2>1. /\ rxseq' = d.seq /\ Answer(d) /\ d.type \in Kinds /\ d.seq \in Nat \ {0}
    BY <1>4, <1>a DEF TakeAction, WriteParam, ReadParam, Kinds
  <2>2. d.type = "ACTION" => \A n : n = d.seq => Kept(n)'
    <3>1. d.type = "ACTION" => action_que' = Append(action_que, d.seq)
      BY <1>4 DEF TakeAction, WriteParam, ReadParam
    <3>2. action_que \in Seq(Nat \ {0})
      BY DEF IInv, TypeOK
    <3>3. Member(d.seq, Append(action_que, d.seq))
      BY <2>1, <3>2, AppendMembers
    <3>4. d.type = "ACTION" => \A n : n = d.seq => Member(n, action_que')
      BY <3>1, <3>3
    <3>5. \A n : Member(n, action_que') => Kept(n)'
      BY DEF Kept, Member
    <3> QED  BY <3>4, <3>5
  <2>3. OneRequest'
    <3>1. d.seq <= req.seq
      BY <1>a, <2>1 DEF KeptInv, OneRequest
    <3> QED  BY <1>c, <1>d, <2>1, <3>1 DEF KeptInv, OneRequest
  <2>4. AnsweredKept'
    <3>1. ASSUME NEW k \in DOMAIN toCar', toCar'[k].type = "ACTION", toCar'[k].seq = d.seq
          PROVE  d.type = "ACTION"
      BY <1>a, <1>c, <1>d, <2>1, <3>1 DEF KeptInv, OneRequest
    <3>2. req.type = "ACTION" /\ req.seq = d.seq => d.type = "ACTION"
      BY <1>a, <2>1 DEF KeptInv, OneRequest
    <3>3. ASSUME NEW k \in DOMAIN toCtl', toCtl'[k].type = "ACTION"
          PROVE  toCtl'[k].seq # 0 /\ \A n : n = toCtl'[k].seq => Kept(n)'
      BY <1>a, <1>b, <1>e, <2>1, <2>2, <3>3 DEF KeptInv, AnsweredKept
    <3> QED  BY <1>c, <2>1, <2>2, <3>1, <3>2, <3>3 DEF AnsweredKept
  <2>5. AnsweredActionKept'
    BY <1>a, <1>b, <1>c DEF KeptInv, AnsweredActionKept, Kept
  <2> QED  BY <2>3, <2>4, <2>5 DEF KeptInv
<1> QED  BY <1>1, <1>2, <1>3, <1>4 DEF Process

LEMMA KeptRequested ==
    ASSUME IInv, [Next]_vars, KeptInv, Request \/ RequestAgain \/ HearAnswer
    PROVE  KeptInv'
<1>a. /\ rxseq \in Nat /\ req.seq \in Nat
      /\ \A k \in DOMAIN toCtl : toCtl[k].seq \in Nat
      /\ \A k \in DOMAIN toCar : toCar[k].seq \in Nat
  BY RequestNumbers
<1>b. UNCHANGED <<actVars, rxseq>> /\ \A n : Kept(n)' <=> Kept(n)
  <2>1. UNCHANGED <<actVars, rxVars>>
    BY DEF Request, RequestAgain, HearAnswer
  <2> QED  BY <2>1 DEF rxVars, actVars, Kept
<1>1. CASE Request
  <2>1. /\ req'.seq = req.seq + 1 /\ answered' = FALSE /\ toCtl' = toCtl
        /\ \A k \in DOMAIN toCar' : toCar'[k] = req' \/ (k \in DOMAIN toCar /\ toCar'[k] = toCar[k])
    <3>1. PICK k \in RequestKinds : /\ req' = [type |-> k, seq |-> req.seq + 1]
                                    /\ Arrive([type |-> k, seq |-> req.seq + 1])
      BY <1>1 DEF Request
    <3>2. req.seq < MaxRequests
      BY <1>1 DEF Request
    <3>3. req' \in Requests
      BY <1>a, <3>1, <3>2 DEF Requests
    <3> QED  BY <1>1, <3>1, <3>3, ArriveMembers DEF Request
  <2>2. OneRequest'
    BY <1>a, <1>b, <2>1 DEF KeptInv, OneRequest
  <2>3. \A k \in DOMAIN toCar' : toCar'[k].type = "ACTION" /\ toCar'[k].seq = rxseq => Kept(rxseq)
    BY <1>a, <2>1 DEF KeptInv, OneRequest, AnsweredKept
  <2>4. AnsweredKept' /\ AnsweredActionKept'
    <3>1. req'.seq # rxseq
      BY <1>a, <2>1 DEF KeptInv, OneRequest
    <3> QED  BY <1>b, <2>1, <2>3, <3>1 DEF KeptInv, AnsweredKept, AnsweredActionKept
  <2> QED  BY <2>2, <2>4 DEF KeptInv
<1>2. CASE RequestAgain
  <2>1. /\ UNCHANGED <<req, answered, toCtl>> /\ req \in Requests
        /\ \A k \in DOMAIN toCar' : toCar'[k] = req \/ (k \in DOMAIN toCar /\ toCar'[k] = toCar[k])
    <3>1. Arrive(req) /\ req \in Requests
      BY <1>2 DEF RequestAgain, IInv, TypeOK
    <3> QED  BY <1>2, <3>1, ArriveMembers DEF RequestAgain, ctlVars
  <2>2. req.seq # 0 /\ req.type \in Kinds
    BY <2>1 DEF Requests
  <2>3. OneRequest'
    BY <1>a, <1>b, <2>1 DEF KeptInv, OneRequest
  <2>4. AnsweredKept' /\ AnsweredActionKept'
    BY <1>b, <2>1, <2>2 DEF KeptInv, AnsweredKept, AnsweredActionKept, Kept
  <2> QED  BY <2>3, <2>4 DEF KeptInv
<1>3. CASE HearAnswer
  <2>1. PICK i \in Deliverable(toCtl) :
          /\ toCtl' = Without(toCtl, i)
          /\ answered' = (answered \/ (toCtl[i].type = req.type /\ toCtl[i].seq = req.seq))
    BY <1>3 DEF HearAnswer
  <2>2. /\ i \in DOMAIN toCtl
        /\ \A k \in DOMAIN toCtl' : \E m \in DOMAIN toCtl : toCtl'[k] = toCtl[m]
    BY <2>1, WithoutIs DEF IInv, TypeOK
  <2>3. UNCHANGED <<req, toCar>>
    BY <1>3 DEF HearAnswer
  <2>4. OneRequest' /\ AnsweredKept'
    BY <1>b, <2>2, <2>3 DEF KeptInv, OneRequest, AnsweredKept
  <2>5. AnsweredActionKept'
    <3>1. answered' /\ req.type = "ACTION" /\ req.seq # 0 => Kept(req.seq)
      BY <2>1, <2>2 DEF KeptInv, AnsweredKept, AnsweredActionKept, Kept
    <3> QED  BY <1>b, <2>3, <3>1 DEF AnsweredActionKept, Kept
  <2> QED  BY <2>4, <2>5 DEF KeptInv
<1> QED  BY <1>1, <1>2, <1>3

LEMMA KeptStep ==
    ASSUME IInv, KeptInv, [Next]_vars
    PROVE  KeptInv'
<1>a. toCar \in Seq(Requests \cup Answers) /\ toCtl \in Seq(Frame) /\ "ACTION" \notin Outgoing
      /\ \A x \in Outgoing : x \notin Kinds
  BY DEF IInv, TypeOK, Outgoing, Reports, Kinds
<1>1. CASE Confirm \/ Execute
  <2>1. UNCHANGED <<rxseq, req, answered, toCar, toCtl>>
    BY <1>1 DEF Confirm, Execute, rxVars, ctlVars
  <2> QED  BY <2>1, KeptQuiet
<1>2. CASE Sent
  <2>1. UNCHANGED <<rxseq, req, answered>>
    BY <1>2 DEF Sent, rxVars, ctlVars
  <2>2. \A i \in DOMAIN toCar' : \E k \in DOMAIN toCar : toCar'[i] = toCar[k]
    BY <1>2, <1>a, WithoutIs DEF Sent
  <2>3. \A i \in DOMAIN toCtl' : toCtl'[i].type = "ACTION" => \E k \in DOMAIN toCtl : toCtl'[i] = toCtl[k]
    BY <1>2, <1>a, TransmitMembers DEF Sent
  <2> QED  BY <2>1, <2>2, <2>3, KeptQuiet
<1>3. CASE HearMessage
  <2>1. PICK i \in Deliverable(toCtl) :
          /\ toCtl[i].type \in Outgoing /\ toCtl' = Without(toCtl, i)
          /\ IF toCtl[i].type = "HEARTBEAT" THEN UNCHANGED toCar
             ELSE Arrive([type |-> toCtl[i].type, seq |-> toCtl[i].seq])
    BY <1>3 DEF HearMessage
  <2>2. UNCHANGED <<rxseq, req, answered>>
    BY <1>3 DEF HearMessage, rxVars
  <2>3. [type |-> toCtl[i].type, seq |-> toCtl[i].seq] \in Answers
    <3>1. toCtl[i] \in Frame
      BY <1>a, DeliverableIn
    <3> QED  BY <2>1, <3>1 DEF Frame, Answers
  <2>4. \A j \in DOMAIN toCar' : toCar'[j].type \in Kinds => \E k \in DOMAIN toCar : toCar'[j] = toCar[k]
    BY <2>1, <2>3, <1>a, ArriveMembers
  <2>5. \A j \in DOMAIN toCtl' : \E k \in DOMAIN toCtl : toCtl'[j] = toCtl[k]
    BY <1>a, <2>1, WithoutIs
  <2> QED  BY <2>2, <2>4, <2>5, KeptQuiet
<1>4. CASE Lose
  <2>1. UNCHANGED <<rxseq, req, answered>>
    BY <1>4 DEF Lose, rxVars, ctlVars
  <2>2. \A j \in DOMAIN toCar' : \E k \in DOMAIN toCar : toCar'[j] = toCar[k]
    BY <1>4, <1>a, HeadOrTail DEF Lose
  <2>3. \A j \in DOMAIN toCtl' : \E k \in DOMAIN toCtl : toCtl'[j] = toCtl[k]
    BY <1>4, <1>a, HeadOrTail DEF Lose
  <2> QED  BY <2>1, <2>2, <2>3, KeptQuiet
<1> QED  BY <1>1, <1>2, <1>3, <1>4, StepKinds, KeptHandled, KeptRequested

(* An action the controller takes for answered has a block and is executed *)
(* from it, however its copies and answers are lost, repeated or           *)
(* reordered.                                                              *)
THEOREM AnsweredIsKept == Spec => []AnsweredActionKept
<1>1. Init => KeptInv
  <2> SUFFICES ASSUME Init PROVE KeptInv
    OBVIOUS
  <2>1. DOMAIN toCar = {} /\ DOMAIN toCtl = {} /\ rxseq = 0 /\ req.seq = 0
    BY DEF Init, NoReq
  <2> QED  BY <2>1 DEF KeptInv, OneRequest, AnsweredKept, AnsweredActionKept
<1>2. IInv /\ KeptInv /\ [Next]_vars => KeptInv'
  BY KeptStep
<1>3. KeptInv => AnsweredActionKept
  BY DEF KeptInv
<1> QED  BY InvariantHolds, <1>1, <1>2, <1>3, PTL DEF Spec
-----------------------------------------------------------------------------
(* On a network that keeps the order no request comes after a later one,   *)
(* so a copy of a request taken has the number of the last.                *)
InSequence ==
    \A i, j \in DOMAIN toCar : toCar[i].type \in Kinds /\ toCar[j].type \in Kinds =>
        rxseq <= toCar[i].seq /\ (i < j => toCar[i].seq <= toCar[j].seq)

(* Executed, in hand and buffered actions are one increasing sequence.     *)
ActionsOrdered ==
    /\ Increasing(executed) /\ Increasing(action_que)
    /\ \A i \in DOMAIN executed :
          /\ executed[i] <= rxseq /\ (current # 0 => executed[i] < current)
          /\ \A j \in DOMAIN action_que : executed[i] < action_que[j]
    /\ current <= rxseq
    /\ \A j \in DOMAIN action_que :
          action_que[j] <= rxseq /\ (current # 0 => current < action_que[j])

WritesOrdered == Increasing(written) /\ \A i \in DOMAIN written : written[i] <= rxseq

OrderInv == Fifo /\ InSequence /\ ActionsOrdered /\ WritesOrdered

LEMMA AppendIncreasing ==
    ASSUME NEW S, S \subseteq Nat, NEW s \in Seq(S), NEW e \in S, Increasing(s), \A i \in DOMAIN s : s[i] < e
    PROVE  Increasing(Append(s, e))
<1> SUFFICES ASSUME NEW i \in DOMAIN Append(s, e), NEW j \in DOMAIN Append(s, e), i < j
             PROVE  Append(s, e)[i] < Append(s, e)[j]
  BY DEF Increasing
<1>1. /\ i \in 1 .. Len(s) /\ Append(s, e)[i] = s[i]
      /\ (j \in 1 .. Len(s) /\ Append(s, e)[j] = s[j]) \/ Append(s, e)[j] = e
  OBVIOUS
<1> QED  BY <1>1 DEF Increasing

LEMMA OrderValues ==
    ASSUME IInv
    PROVE  /\ rxseq \in Nat /\ current \in Nat
           /\ action_que \in Seq(Nat \ {0}) /\ \A i \in DOMAIN action_que : action_que[i] \in Nat \ {0}
           /\ executed \in Seq(Nat) /\ \A i \in DOMAIN executed : executed[i] \in Nat
           /\ written \in Seq(Nat) /\ \A i \in DOMAIN written : written[i] \in Nat
BY DEF IInv, TypeOK

(* A request with a later number may be taken: nothing is disturbed.       *)
LEMMA OrderLater ==
    ASSUME IInv, ActionsOrdered, WritesOrdered, rxseq' \in Nat, rxseq <= rxseq'
    PROVE  /\ UNCHANGED actVars => ActionsOrdered'
           /\ UNCHANGED written => WritesOrdered'
<1>1. UNCHANGED actVars => ActionsOrdered'
  BY OrderValues DEF ActionsOrdered, actVars
<1>2. UNCHANGED written => WritesOrdered'
  BY OrderValues DEF WritesOrdered
<1> QED  BY <1>1, <1>2

LEMMA OrderHandled ==
    ASSUME IInv, OrderInv, Handled
    PROVE  OrderInv'
<1>1. PICK i \in Deliverable(toCar) : Process(toCar[i]) /\ toCar' = Without(toCar, i)
  BY DEF Handled
<1> DEFINE d == toCar[i]
<1>a. /\ rxseq \in Nat /\ i = 1 /\ 1 \in DOMAIN toCar
      /\ \A k \in DOMAIN toCar : toCar[k].seq \in Nat /\ k \in Nat /\ k >= 1
      /\ \A k \in DOMAIN toCar : toCar[k].type \in Kinds => toCar[k].seq # 0
  <2>1. i = 1 /\ 1 \in DOMAIN toCar
    BY <1>1, WithoutIs DEF IInv, TypeOK, OrderInv, Deliverable
  <2>2. \A k \in DOMAIN toCar : k \in Nat /\ k >= 1
    BY DEF IInv, TypeOK
  <2> QED  BY <2>1, <2>2, RequestNumbers
<1>b. \A k \in DOMAIN toCar' : k \in Nat /\ k >= 1 /\ k + 1 \in DOMAIN toCar /\ toCar'[k] = toCar[k + 1]
  <2>1. toCar \in Seq(Requests \cup Answers)
    BY DEF IInv, TypeOK
  <2>2. toCar' \in Seq(Requests \cup Answers)
    BY <2>1, <1>1, WithoutIs
  <2>3. \A k \in DOMAIN toCar' : \E m \in DOMAIN toCar : toCar'[k] = toCar[m] /\ m = k + 1
    BY <2>1, <1>1, WithoutIs DEF OrderInv
  <2> QED  BY <2>2, <2>3
<1>c. \A k, m \in DOMAIN toCar' : k < m => k + 1 < m + 1
  BY <1>b
<1>2. CASE LeaveAction(d) \/ Unsupported(d) \/ AnswerAgain(d)
  <2>1. UNCHANGED <<actVars, rxVars>>
    BY <1>2 DEF LeaveAction, Unsupported, AnswerAgain
  <2>2. InSequence'
    BY <2>1, <1>b, <1>c DEF OrderInv, InSequence, rxVars
  <2>3. ActionsOrdered' /\ WritesOrdered'
    BY <2>1, <1>a, OrderLater DEF OrderInv, rxVars
  <2> QED  BY <2>2, <2>3 DEF OrderInv
<1>3. CASE TakeAction(d) \/ WriteParam(d) \/ ReadParam(d)
  <2>1. /\ rxseq' = d.seq /\ d.type \in Kinds /\ d.seq \in Nat \ {0} /\ rxseq <= d.seq
    <3>1. rxseq' = d.seq /\ d.type \in Kinds
      BY <1>3 DEF TakeAction, WriteParam, ReadParam, Kinds
    <3>2. rxseq <= d.seq
      BY <1>a, <3>1 DEF OrderInv, InSequence
    <3> QED  BY <1>a, <3>1, <3>2
  <2>2. InSequence'
    <3>1. \A k \in DOMAIN toCar' : toCar'[k].type \in Kinds => d.seq <= toCar'[k].seq
      <4> SUFFICES ASSUME NEW k \in DOMAIN toCar', toCar'[k].type \in Kinds
                   PROVE  d.seq <= toCar'[k].seq
        OBVIOUS
      <4>1. k + 1 \in DOMAIN toCar /\ toCar'[k] = toCar[k + 1]
        BY <1>b
      <4>2. 1 < k + 1
        BY <1>b
      <4> QED  BY <1>a, <2>1, <4>1, <4>2 DEF OrderInv, InSequence
    <3> QED  BY <2>1, <3>1, <1>b, <1>c DEF OrderInv, InSequence
  <2>3. CASE TakeAction(d)
    <3>1. /\ rxseq < d.seq /\ action_que' = Append(action_que, d.seq)
          /\ UNCHANGED <<current, executed, written>>
      BY <1>a, <2>1, <2>3 DEF TakeAction, Repeated
    <3>2. Increasing(action_que')
      <4>1. action_que \in Seq(Nat \ {0}) /\ Increasing(action_que) /\ Nat \ {0} \subseteq Nat
        BY OrderValues DEF OrderInv, ActionsOrdered
      <4>2. \A j \in DOMAIN action_que : action_que[j] < d.seq
        BY <1>a, <3>1, OrderValues DEF OrderInv, ActionsOrdered
      <4> QED  BY <2>1, <3>1, <4>1, <4>2, AppendIncreasing
    <3>3. \A j \in DOMAIN action_que' : \/ action_que'[j] = d.seq
                                        \/ j \in DOMAIN action_que /\ action_que'[j] = action_que[j]
      <4>1. action_que \in Seq(Nat \ {0}) /\ d.seq \in Nat \ {0}
        BY <2>1, OrderValues
      <4> HIDE DEF d
      <4>2. \A j \in DOMAIN Append(action_que, d.seq) :
               \/ Append(action_que, d.seq)[j] = d.seq
               \/ j \in DOMAIN action_que /\ Append(action_que, d.seq)[j] = action_que[j]
        BY <4>1, AppendMembers
      <4>3. action_que' = Append(action_que, d.seq)
        BY <3>1
      <4> QED  BY <4>2, <4>3, Zenon
    <3>4. ActionsOrdered'
      <4>1. \A k \in DOMAIN executed : executed[k] < d.seq
        BY <1>a, <3>1, OrderValues DEF OrderInv, ActionsOrdered
      <4>2. current < d.seq
        BY <1>a, <3>1, OrderValues DEF OrderInv, ActionsOrdered
      <4>3. \A j \in DOMAIN action_que : action_que[j] < d.seq
        BY <1>a, <3>1, OrderValues DEF OrderInv, ActionsOrdered
      <4>4. \A k \in DOMAIN executed : \A j \in DOMAIN action_que' : executed[k] < action_que'[j]
        BY <3>3, <4>1 DEF OrderInv, ActionsOrdered
      <4>5. \A j \in DOMAIN action_que' :
               action_que'[j] <= d.seq /\ (current # 0 => current < action_que'[j])
        BY <2>1, <3>3, <4>2, <4>3, OrderValues DEF OrderInv, ActionsOrdered
      <4> QED  BY <2>1, <3>1, <3>2, <4>1, <4>2, <4>4, <4>5, OrderValues DEF OrderInv, ActionsOrdered
    <3> QED  BY <2>1, <2>2, <3>1, <3>4, OrderLater DEF OrderInv
  <2>4. CASE WriteParam(d)
    <3>1. /\ rxseq < d.seq /\ written' = Append(written, d.seq) /\ UNCHANGED actVars
      BY <1>a, <2>1, <2>4 DEF WriteParam, Repeated
    <3>2. \A k \in DOMAIN written : written[k] < d.seq
      BY <1>a, <3>1, OrderValues DEF OrderInv, WritesOrdered
    <3>3. Increasing(written')
      BY <2>1, <3>1, <3>2, OrderValues, AppendIncreasing DEF OrderInv, WritesOrdered
    <3>4. \A k \in DOMAIN written' : written'[k] <= d.seq
      <4>1. written \in Seq(Nat) /\ d.seq \in Nat
        BY <2>1, OrderValues
      <4> HIDE DEF d
      <4>2. \A k \in DOMAIN Append(written, d.seq) :
               \/ Append(written, d.seq)[k] = d.seq
               \/ k \in DOMAIN written /\ Append(written, d.seq)[k] = written[k]
        BY <4>1, AppendMembers
      <4> QED  BY <3>1, <3>2, <4>1, <4>2, OrderValues
    <3>5. WritesOrdered'
      BY <2>1, <3>3, <3>4 DEF WritesOrdered
    <3> QED  BY <2>1, <2>2, <3>1, <3>5, OrderLater DEF OrderInv
  <2>5. CASE ReadParam(d)
    <3>1. UNCHANGED <<actVars, written>>
      BY <2>5 DEF ReadParam
    <3> QED  BY <2>1, <2>2, <3>1, OrderLater DEF OrderInv
  <2> QED  BY <1>3, <2>3, <2>4, <2>5
<1> QED  BY <1>1, <1>2, <1>3 DEF Process

LEMMA OrderDrained ==
    ASSUME IInv, OrderInv, Confirm \/ Execute
    PROVE  OrderInv'
<1>a. /\ UNCHANGED <<rxVars, toCar>>
  BY DEF Confirm, Execute
<1>b. InSequence' /\ WritesOrdered'
  BY <1>a DEF OrderInv, InSequence, WritesOrdered, rxVars
<1>1. CASE Confirm
  <2>1. /\ current' = Head(action_que) /\ action_que' = Tail(action_que) /\ action_que # <<>>
        /\ executed' = executed
    BY <1>1 DEF Confirm
  <2>2. /\ 1 \in DOMAIN action_que /\ Head(action_que) = action_que[1]
        /\ \A j \in DOMAIN action_que' : /\ j \in Nat /\ 1 < j + 1
                                         /\ j + 1 \in DOMAIN action_que
                                         /\ action_que'[j] = action_que[j + 1]
    BY <2>1, OrderValues, HeadOrTail
  <2>3. Increasing(action_que')
    <3> SUFFICES ASSUME NEW k \in DOMAIN action_que', NEW j \in DOMAIN action_que', k < j
                 PROVE  action_que[k + 1] < action_que[j + 1]
      BY <2>2 DEF Increasing
    <3>1. k + 1 < j + 1
      BY <2>2
    <3> QED  BY <2>2, <3>1 DEF OrderInv, ActionsOrdered, Increasing
  <2>4. \A j \in DOMAIN action_que' : action_que'[j] <= rxseq /\ current' < action_que'[j]
    BY <2>1, <2>2 DEF OrderInv, ActionsOrdered, Increasing
  <2>5. \A k \in DOMAIN executed : /\ executed[k] < current'
                                   /\ \A j \in DOMAIN action_que' : executed[k] < action_que'[j]
    BY <2>1, <2>2 DEF OrderInv, ActionsOrdered
  <2>6. current' <= rxseq
    BY <2>1, <2>2 DEF OrderInv, ActionsOrdered
  <2>7. ActionsOrdered'
    BY <1>a, <2>1, <2>3, <2>4, <2>5, <2>6 DEF OrderInv, ActionsOrdered, rxVars
  <2> QED  BY <1>b, <2>7 DEF OrderInv
<1>2. CASE Execute
  <2>1. /\ executed' = Append(executed, current) /\ current' = 0 /\ action_que' = action_que
        /\ current # 0
    BY <1>2 DEF Execute, IInv, AgvcpPlace
  <2>2. Increasing(executed')
    BY <2>1, OrderValues, AppendIncreasing DEF OrderInv, ActionsOrdered
  <2>3. \A k \in DOMAIN executed' : \/ executed'[k] = current
                                    \/ k \in DOMAIN executed /\ executed'[k] = executed[k]
    BY <2>1, OrderValues, AppendMembers
  <2>4. ActionsOrdered'
    BY <1>a, <2>1, <2>2, <2>3, OrderValues DEF OrderInv, ActionsOrdered, rxVars
  <2> QED  BY <1>b, <2>4 DEF OrderInv
<1> QED  BY <1>1, <1>2

(* Steps that take no request: what arrives is a request not before the    *)
(* last, or no request.                                                    *)
LEMMA OrderKept ==
    ASSUME IInv, KeptInv, OrderInv, [Next]_vars, ~Handled, ~Confirm, ~Execute
    PROVE  OrderInv'
<1>a. UNCHANGED <<actVars, rxVars>>
  BY StepKinds DEF Sent, Request, RequestAgain, HearAnswer, HearMessage, Lose
<1>b. ActionsOrdered' /\ WritesOrdered'
  BY <1>a, OrderLater, OrderValues DEF OrderInv, rxVars
<1>c. /\ rxseq \in Nat /\ req.seq \in Nat /\ toCar \in Seq(Requests \cup Answers)
      /\ \A k \in DOMAIN toCar : toCar[k].seq \in Nat /\ k \in Nat /\ k <= Len(toCar)
      /\ \A x \in Outgoing : x \notin Kinds
  <2>1. \A x \in Outgoing : x \notin Kinds
    BY DEF Outgoing, Reports, Kinds
  <2>2. toCar \in Seq(Requests \cup Answers)
    BY DEF IInv, TypeOK
  <2>3. \A k \in DOMAIN toCar : k \in Nat /\ k <= Len(toCar)
    BY <2>2
  <2> QED  BY <2>1, <2>2, <2>3, RequestNumbers
<1>1. ASSUME NEW d \in Requests \cup Answers, Arrive(d), d.type \in Kinds => d.seq >= req.seq /\ d.seq \in Nat
      PROVE  InSequence'
  <2>1. CASE toCar' = toCar
    BY <2>1, <1>a DEF OrderInv, InSequence, rxVars
  <2>2. CASE toCar' = Append(toCar, d)
    <3>1. \A k \in DOMAIN toCar' : \/ k = Len(toCar) + 1 /\ toCar'[k] = d
                                   \/ k \in DOMAIN toCar /\ toCar'[k] = toCar[k]
      BY <1>c, <2>2
    <3>2. d.type \in Kinds =>
            /\ rxseq <= d.seq
            /\ \A k \in DOMAIN toCar : toCar[k].type \in Kinds => toCar[k].seq <= d.seq
      BY <1>1, <1>c DEF KeptInv, OneRequest
    <3>3. Len(toCar) \in Nat
      BY <1>c
    <3> QED  BY <1>a, <1>c, <3>1, <3>2, <3>3 DEF OrderInv, InSequence, rxVars
  <2> QED  BY <1>1, <2>1, <2>2 DEF Arrive
<1>2. ASSUME toCar' = toCar \/ \A k \in DOMAIN toCar' : /\ k \in Nat /\ k + 1 \in DOMAIN toCar
                                                       /\ toCar'[k] = toCar[k + 1]
      PROVE  InSequence'
  <2>1. CASE toCar' = toCar
    BY <2>1, <1>a DEF OrderInv, InSequence, rxVars
  <2>2. CASE toCar' # toCar
    <3>1. \A k, m \in DOMAIN toCar' : k < m => k + 1 < m + 1
      BY <1>2, <2>2
    <3> QED  BY <1>a, <1>2, <2>2, <3>1 DEF OrderInv, InSequence, rxVars
  <2> QED  BY <2>1, <2>2
<1>3. CASE Request
  <2>1. PICK k \in RequestKinds : Arrive([type |-> k, seq |-> req.seq + 1])
    BY <1>3 DEF Request
  <2>2. [type |-> k, seq |-> req.seq + 1] \in Requests
    BY <1>3, <1>c DEF Request, Requests
  <2> QED  BY <1>1, <1>b, <1>c, <2>1, <2>2 DEF OrderInv
<1>4. CASE RequestAgain
  <2>1. Arrive(req) /\ req \in Requests
    BY <1>4 DEF RequestAgain, IInv, TypeOK
  <2> QED  BY <1>1, <1>b, <1>c, <2>1 DEF OrderInv
<1>5. CASE HearMessage
  <2>1. PICK i \in Deliverable(toCtl) :
          /\ toCtl[i].type \in Outgoing
          /\ IF toCtl[i].type = "HEARTBEAT" THEN UNCHANGED toCar
             ELSE Arrive([type |-> toCtl[i].type, seq |-> toCtl[i].seq])
    BY <1>5 DEF HearMessage
  <2>2. [type |-> toCtl[i].type, seq |-> toCtl[i].seq] \in Answers
    <3>1. toCtl[i] \in Frame
      BY DeliverableIn DEF IInv, TypeOK
    <3> QED  BY <2>1, <3>1 DEF Frame, Answers
  <2> QED  BY <1>1, <1>2, <1>b, <1>c, <2>1, <2>2 DEF OrderInv
<1>6. CASE Sent
  <2>1. toCar' = toCar \/ \E i \in Deliverable(toCar) : toCar' = Without(toCar, i)
    BY <1>6 DEF Sent
  <2>2. ASSUME NEW i \in Deliverable(toCar)
        PROVE  \A k \in DOMAIN Without(toCar, i) :
                  k \in Nat /\ k + 1 \in DOMAIN toCar /\ Without(toCar, i)[k] = toCar[k + 1]
    <3>1. Without(toCar, i) \in Seq(Requests \cup Answers)
      BY <1>c, WithoutIs
    <3>2. \A k \in DOMAIN Without(toCar, i) :
             \E m \in DOMAIN toCar : Without(toCar, i)[k] = toCar[m] /\ m = k + 1
      BY <1>c, WithoutIs DEF OrderInv
    <3> QED  BY <3>1, <3>2
  <2> QED  BY <1>2, <1>b, <2>1, <2>2 DEF OrderInv
<1>7. CASE HearAnswer \/ Lose
  <2>1. toCar' = toCar \/ (toCar # <<>> /\ toCar' = Tail(toCar))
    BY <1>7 DEF HearAnswer, Lose
  <2>2. toCar # <<>> => \A k \in DOMAIN Tail(toCar) :
                            k \in Nat /\ k + 1 \in DOMAIN toCar /\ Tail(toCar)[k] = toCar[k + 1]
    BY <1>c, HeadOrTail
  <2> QED  BY <1>2, <1>b, <2>1, <2>2 DEF OrderInv
<1> QED  BY <1>3, <1>4, <1>5, <1>6, <1>7, StepKinds

(* On a network that keeps the order of datagrams actions are executed and *)
(* parameters written once, in the order of their numbers, though every    *)
(* datagram may be lost and is sent again.                                 *)
THEOREM ActionsInOrder == Fifo /\ Spec => []OnceInOrder
<1>1. Fifo /\ Init => KeptInv /\ OrderInv
  <2> SUFFICES ASSUME Fifo, Init PROVE KeptInv /\ OrderInv
    OBVIOUS
  <2>1. /\ DOMAIN toCar = {} /\ DOMAIN toCtl = {} /\ rxseq = 0 /\ req.seq = 0 /\ current = 0
        /\ DOMAIN executed = {} /\ DOMAIN written = {} /\ DOMAIN action_que = {}
    BY DEF Init, NoReq
  <2> QED  BY <2>1 DEF KeptInv, OneRequest, AnsweredKept, AnsweredActionKept, OrderInv, InSequence,
                       ActionsOrdered, WritesOrdered, Increasing
<1>2. IInv /\ KeptInv /\ OrderInv /\ [Next]_vars => KeptInv' /\ OrderInv'
  BY KeptStep, OrderHandled, OrderDrained, OrderKept
<1>3. OrderInv => OnceInOrder
  BY DEF OrderInv, ActionsOrdered, WritesOrdered, OnceInOrder
<1> QED  BY InvariantHolds, <1>1, <1>2, <1>3, PTL DEF Spec

(* No block for an action and no answered action is lost, on any network.  *)
THEOREM ActionsSafe == Spec => []ActionsKept
<1>1. TypeOK /\ ActionPoolConserved /\ AnsweredActionKept => ActionsKept
  BY DEF ActionsKept
<1> QED  BY <1>1, TypeCorrect, ActionPoolSafe, AnsweredIsKept, PTL
=============================================================================
