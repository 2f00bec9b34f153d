----------------------------- MODULE AgvcpLink -----------------------------
(***************************************************************************)
(* The link to the controller, usr/application/agvcp.c: numbered datagrams *)
(* over UDP, each message of the vehicle sent again until it is answered,  *)
(* the requests of the controller answered at once and actions buffered    *)
(* until they are confirmed.                                               *)
(*                                                                         *)
(* Two tasks send.  agvcp registers the vehicle, then receives requests,   *)
(* sends heartbeats and confirms and executes the buffered actions.  agv   *)
(* reports events (agvcp_notify_event()).  The mutex of the connection is  *)
(* held from the first transmission of a message to its answer; whoever    *)
(* holds it handles the requests that arrive meanwhile.                    *)
(*                                                                         *)
(* The network and the controller are external: datagrams are lost and, if *)
(* not Fifo, reordered; duplicates come of retransmission.  The controller *)
(* has one request outstanding, sends it again until it is answered, and   *)
(* answers whatever it hears.                                              *)
(***************************************************************************)
EXTENDS Naturals, Sequences

CONSTANTS
    ActionBlocks,   (* MAX_ACTION_NUM: blocks and slots for actions        *)
    RxBlocks,       (* BUFFER_PACKET_NUM: datagrams on the way to a task   *)
    AirBlocks,      (* bound: datagrams on the way to the controller       *)
    MaxRequests,    (* bound: requests of the controller                   *)
    RequestKinds,   (* the kinds of request it makes                       *)
    MaxReports,     (* bound: events agv reports                           *)
    ReportTypes,    (* the kinds of event it reports                       *)
    MaxBeats,       (* bound: heartbeats                                   *)
    Fifo            (* the network keeps the order of datagrams            *)

Kinds    == {"ACTION", "WRITE_PARAM", "READ_PARAM"}
Reports  == {"REPORT_FLAGPOINT", "ACTION_OVER", "ERRREPORT"}
Outgoing == Reports \cup {"REGISTER", "HEARTBEAT", "MSG_CONFIRM"}

ASSUME AgvcpLinkAssumption ==
    /\ ActionBlocks \in Nat \ {0} /\ RxBlocks \in Nat \ {0} /\ AirBlocks \in Nat \ {0}
    /\ MaxRequests \in Nat /\ MaxReports \in Nat /\ MaxBeats \in Nat
    /\ RequestKinds \subseteq Kinds /\ ReportTypes \subseteq Reports
    /\ Fifo \in BOOLEAN

Tasks    == {"agvcp", "agv"}
Requests == [type : RequestKinds, seq : 1 .. MaxRequests]
Answers  == [type : Outgoing, seq : Nat]
Body     == [type : Outgoing, arg : Nat]
Frame    == [type : Outgoing \cup Kinds, seq : Nat, arg : Nat]
NoBody   == [type |-> "HEARTBEAT", arg |-> 0]
NoReq    == [type |-> "ACTION", seq |-> 0]

VARIABLES
    pc, out,            (* per task: where it is, the message it sends     *)
    mutex,              (* the task that holds the connection, or "none"   *)
    conn_state, txseq,
    rxseq,              (* number of the last request taken; 0: none       *)
    action_que, action_mem,     (* numbers of buffered actions, free blocks *)
    current,            (* the action being confirmed and executed; 0: none *)
    executed, written,  (* history: numbers of actions executed, of        *)
                        (* parameter writes done                           *)
    beats, reports,     (* heartbeats and events so far                    *)
    toCar, toCtl,       (* datagrams under way                             *)
    registered, req, answered,  (* controller: the vehicle is known, its   *)
                        (* last request, whether that is answered          *)
    heard               (* controller: reports and confirmations heard     *)

actVars  == <<action_que, action_mem, current, executed>>
rxVars   == <<rxseq, written>>
sendVars == <<mutex, txseq>>
envVars  == <<beats, reports>>
ctlVars  == <<registered, req, answered, heard>>
vars == <<pc, out, sendVars, conn_state, actVars, rxVars, envVars, toCar, toCtl, ctlVars>>

Init ==
    /\ pc = [t \in Tasks |-> IF t = "agvcp" THEN "register" ELSE "idle"]
    /\ out = [t \in Tasks |-> NoBody]
    /\ mutex = "none" /\ conn_state = "REGISTERING" /\ txseq = 0 /\ rxseq = 0
    /\ action_que = <<>> /\ action_mem = ActionBlocks /\ current = 0
    /\ executed = <<>> /\ written = <<>>
    /\ beats = 0 /\ reports = 0
    /\ toCar = <<>> /\ toCtl = <<>>
    /\ registered = FALSE /\ req = NoReq /\ answered = TRUE
    /\ heard = <<>>

-----------------------------------------------------------------------------
(* Datagrams.                                                              *)

Member(x, s)  == \E i \in DOMAIN s : s[i] = x
Without(s, i) == SubSeq(s, 1, i - 1) \o SubSeq(s, i + 1, Len(s))
Deliverable(s) == {i \in 1 .. Len(s) : Fifo => i = 1}

Room == Len(toCar) < RxBlocks

(* The receive callback drops what finds no block.                         *)
Arrive(d) == toCar' = IF Room THEN Append(toCar, d) ELSE toCar
Transmit(f) == toCtl' = IF Len(toCtl) < AirBlocks THEN Append(toCtl, f) ELSE toCtl

Answer(d) == Transmit([type |-> d.type, seq |-> d.seq, arg |-> 0])

Goto(t, l) == pc' = [pc EXCEPT ![t] = l]

-----------------------------------------------------------------------------
(* agvcp_msg_process(): a request d in the hands of either task.           *)

(* Mutant of Repeated: no request is recognised as sent again.             *)
RepeatedNever(d) == FALSE

Repeated(d) == d.seq = rxseq
CanBuffer   == action_mem > 0 /\ Len(action_que) < ActionBlocks

TakeAction(d) ==
    /\ d.type = "ACTION" /\ ~Repeated(d) /\ CanBuffer
    /\ action_mem' = action_mem - 1
    /\ action_que' = Append(action_que, d.seq)
    /\ rxseq' = d.seq
    /\ Answer(d)
    /\ UNCHANGED <<current, executed, written>>

(* Mutant of LeaveAction: the action is answered all the same.             *)
LeaveAnswered(d) ==
    /\ d.type = "ACTION" /\ ~Repeated(d) /\ ~CanBuffer
    /\ rxseq' = d.seq
    /\ Answer(d)
    /\ UNCHANGED <<actVars, written>>

(* No answer: the controller will send it again.                           *)
LeaveAction(d) ==
    /\ d.type = "ACTION" /\ ~Repeated(d) /\ ~CanBuffer
    /\ UNCHANGED <<actVars, rxVars, toCtl>>

AnswerAgain(d) ==
    /\ d.type \in {"ACTION", "WRITE_PARAM"} /\ Repeated(d)
    /\ Answer(d)
    /\ UNCHANGED <<actVars, rxVars>>

WriteParam(d) ==
    /\ d.type = "WRITE_PARAM" /\ ~Repeated(d)
    /\ Answer(d)
    /\ written' = Append(written, d.seq)
    /\ rxseq' = d.seq
    /\ UNCHANGED actVars

ReadParam(d) ==
    /\ d.type = "READ_PARAM"
    /\ Answer(d)
    /\ rxseq' = d.seq
    /\ UNCHANGED <<actVars, written>>

(* Answers to messages nobody waits for any more.                          *)
Unsupported(d) ==
    /\ d.type \notin Kinds
    /\ UNCHANGED <<actVars, rxVars, toCtl>>

Process(d) ==
    \/ TakeAction(d) \/ LeaveAction(d) \/ AnswerAgain(d)
    \/ WriteParam(d) \/ ReadParam(d) \/ Unsupported(d)

-----------------------------------------------------------------------------
(* agv_send_msg(): a task waits for the mutex ("lock") and then for the    *)
(* answer ("wait").                                                        *)

Call(t, b) ==
    /\ out' = [out EXCEPT ![t] = b]
    /\ Goto(t, "lock")

Numbered(b) == [type |-> b.type, seq |-> txseq, arg |-> b.arg]

(* Mutant of LockAndSend: the mutex is not waited for.                     *)
SendUnlocked(t) ==
    /\ pc[t] = "lock" /\ out[t].type # "HEARTBEAT"
    /\ mutex' = t
    /\ Transmit(Numbered(out[t]))
    /\ Goto(t, "wait")
    /\ UNCHANGED <<out, conn_state, txseq, actVars, rxVars, envVars, toCar, ctlVars>>

LockAndSend(t) ==
    /\ pc[t] = "lock" /\ mutex = "none" /\ out[t].type # "HEARTBEAT"
    /\ mutex' = t
    /\ Transmit(Numbered(out[t]))
    /\ Goto(t, "wait")
    /\ UNCHANGED <<out, conn_state, txseq, actVars, rxVars, envVars, toCar, ctlVars>>

(* A heartbeat is not answered.                                            *)
LockAndBeat(t) ==
    /\ pc[t] = "lock" /\ mutex = "none" /\ out[t].type = "HEARTBEAT"
    /\ Transmit(Numbered(out[t]))
    /\ txseq' = txseq + 1
    /\ Goto(t, "loop")
    /\ UNCHANGED <<out, mutex, conn_state, actVars, rxVars, envVars, toCar, ctlVars>>

(* Mutant of Resend: the task waits another second without sending.        *)
WaitOn(t) ==
    /\ pc[t] = "wait" /\ out[t].type # "REGISTER"
    /\ UNCHANGED vars

(* After a second the message is sent again under its number; a            *)
(* registration is given up and begun anew half a second later.            *)
Resend(t) ==
    /\ pc[t] = "wait" /\ out[t].type # "REGISTER"
    /\ Len(toCtl) < AirBlocks       (* bound: else the datagram is lost    *)
    /\ Transmit(Numbered(out[t]))
    /\ UNCHANGED <<pc, out, sendVars, conn_state, actVars, rxVars, envVars, toCar, ctlVars>>

(* Where a task goes on when its message has been answered.                *)
After(type) ==
    CASE type = "REGISTER"    -> "loop"
      [] type = "MSG_CONFIRM" -> "execute"
      [] OTHER                -> "idle"

(* Mutant of GiveUp: a confirmation is sent once, as a registration is.    *)
GiveUpConfirm(t) ==
    /\ pc[t] = "wait" /\ out[t].type \in {"REGISTER", "MSG_CONFIRM"}
    /\ toCar = <<>>
    /\ mutex' = "none"
    /\ Goto(t, IF out[t].type = "REGISTER" THEN "register" ELSE "execute")
    /\ UNCHANGED <<out, conn_state, txseq, actVars, rxVars, envVars, toCar, toCtl, ctlVars>>

GiveUp(t) ==
    /\ pc[t] = "wait" /\ out[t].type = "REGISTER"
    /\ toCar = <<>>     (* a second holds 100 polls: all that came is seen *)
    /\ mutex' = "none"
    /\ Goto(t, "register")
    /\ UNCHANGED <<out, conn_state, txseq, actVars, rxVars, envVars, toCar, toCtl, ctlVars>>

(* Mutant of Matches: an answer to an earlier message of the kind will do. *)
MatchesKind(t, d) == d.type = out[t].type

Matches(t, d) == d.type = out[t].type /\ d.seq = txseq

TakeAnswer(t) ==
    /\ pc[t] = "wait"
    /\ \E i \in Deliverable(toCar) :
        Matches(t, toCar[i]) /\ toCar' = Without(toCar, i)
    /\ txseq' = txseq + 1
    /\ mutex' = "none"
    /\ Goto(t, After(out[t].type))
    /\ conn_state' = "ONLINE"       (* it is already, unless registering   *)
    /\ UNCHANGED <<out, actVars, rxVars, envVars, toCtl, ctlVars>>

TakeOther(t) ==
    /\ pc[t] = "wait"
    /\ \E i \in Deliverable(toCar) :
        /\ ~Matches(t, toCar[i])
        /\ Process(toCar[i])
        /\ toCar' = Without(toCar, i)
    /\ UNCHANGED <<pc, out, sendVars, conn_state, envVars, ctlVars>>

Await(t) == LockAndSend(t) \/ LockAndBeat(t) \/ Resend(t) \/ GiveUp(t) \/ TakeOther(t)

-----------------------------------------------------------------------------
(* agvcp_task(), agvcp_connectoin_process(), process_buffered_msg().       *)

Register ==
    /\ pc["agvcp"] = "register"
    /\ Call("agvcp", [type |-> "REGISTER", arg |-> 0])
    /\ UNCHANGED <<sendVars, conn_state, actVars, rxVars, envVars, toCar, toCtl, ctlVars>>

Heartbeat ==
    /\ pc["agvcp"] = "loop" /\ beats < MaxBeats
    /\ beats' = beats + 1
    /\ Call("agvcp", [type |-> "HEARTBEAT", arg |-> 0])
    /\ UNCHANGED <<sendVars, conn_state, actVars, rxVars, reports, toCar, toCtl, ctlVars>>

Receive ==
    /\ pc["agvcp"] = "loop" /\ mutex = "none"
    /\ \E i \in Deliverable(toCar) :
        Process(toCar[i]) /\ toCar' = Without(toCar, i)
    /\ Goto("agvcp", "drain")
    /\ UNCHANGED <<out, sendVars, conn_state, envVars, ctlVars>>

(* Mutant of ReceiveNothing: the buffer is drained only after a reception. *)
ReceiveNothingWaits ==
    /\ pc["agvcp"] = "loop" /\ mutex = "none" /\ action_que # <<>>
    /\ UNCHANGED vars

(* A turn of the loop with nothing to receive; one with nothing to drain   *)
(* either is left out.                                                     *)
ReceiveNothing ==
    /\ pc["agvcp"] = "loop" /\ mutex = "none" /\ action_que # <<>>
    /\ Goto("agvcp", "drain")
    /\ UNCHANGED <<out, sendVars, conn_state, actVars, rxVars, envVars, toCar, toCtl, ctlVars>>

Confirm ==
    /\ pc["agvcp"] = "drain" /\ action_que # <<>>
    /\ current' = Head(action_que)
    /\ action_que' = Tail(action_que)
    /\ Call("agvcp", [type |-> "MSG_CONFIRM", arg |-> Head(action_que)])
    /\ UNCHANGED <<sendVars, conn_state, action_mem, executed, rxVars, envVars, toCar, toCtl, ctlVars>>

Execute ==
    /\ pc["agvcp"] = "execute"
    /\ executed' = Append(executed, current)
    /\ current' = 0
    /\ action_mem' = action_mem + 1
    /\ Goto("agvcp", "drain")
    /\ UNCHANGED <<out, sendVars, conn_state, action_que, rxVars, envVars, toCar, toCtl, ctlVars>>

Drained ==
    /\ pc["agvcp"] = "drain" /\ action_que = <<>>
    /\ Goto("agvcp", "loop")
    /\ UNCHANGED <<out, sendVars, conn_state, actVars, rxVars, envVars, toCar, toCtl, ctlVars>>

AgvcpTask == Register \/ ReceiveNothing \/ Confirm \/ Execute \/ Drained

(* agvcp_notify_event(): nothing is sent before the link is up.            *)
Notify ==
    /\ pc["agv"] = "idle" /\ reports < MaxReports
    /\ reports' = reports + 1
    /\ IF conn_state = "ONLINE"
       THEN \E type \in ReportTypes : Call("agv", [type |-> type, arg |-> reports'])
       ELSE UNCHANGED <<pc, out>>
    /\ UNCHANGED <<sendVars, conn_state, actVars, rxVars, beats, toCar, toCtl, ctlVars>>

-----------------------------------------------------------------------------
(* The controller and the network.                                         *)

Reliable(type) == type \in Reports \cup {"MSG_CONFIRM"}

Request ==
    /\ registered /\ answered /\ req.seq < MaxRequests
    /\ \E k \in RequestKinds :
        LET r == [type |-> k, seq |-> req.seq + 1]
        IN  req' = r /\ Arrive(r)
    /\ answered' = FALSE
    /\ UNCHANGED <<pc, out, sendVars, conn_state, actVars, rxVars, envVars, toCtl, registered, heard>>

RequestAgain ==
    /\ ~answered /\ Room
    /\ ~Member(req, toCar)     (* bound: one copy on the way      *)
    /\ Arrive(req)
    /\ UNCHANGED <<pc, out, sendVars, conn_state, actVars, rxVars, envVars, toCtl, ctlVars>>

HearAnswer ==
    /\ \E i \in Deliverable(toCtl) :
        /\ toCtl[i].type \in Kinds
        /\ toCtl' = Without(toCtl, i)
        /\ answered' = (answered \/ (toCtl[i].type = req.type /\ toCtl[i].seq = req.seq))
    /\ UNCHANGED <<pc, out, sendVars, conn_state, actVars, rxVars, envVars, toCar,
                   registered, req, heard>>

HearMessage ==
    /\ \E i \in Deliverable(toCtl) :
        LET f == toCtl[i] IN
        /\ f.type \in Outgoing
        /\ toCtl' = Without(toCtl, i)
        /\ registered' = (registered \/ f.type = "REGISTER")
        /\ heard' = IF Reliable(f.type) /\ ~Member(f, heard)
                    THEN Append(heard, f) ELSE heard
        /\ IF f.type = "HEARTBEAT" THEN UNCHANGED toCar
           ELSE Arrive([type |-> f.type, seq |-> f.seq])
    /\ UNCHANGED <<pc, out, sendVars, conn_state, actVars, rxVars, envVars, req, answered>>

Lose ==
    /\ \/ toCar # <<>> /\ toCar' = Tail(toCar) /\ UNCHANGED toCtl
       \/ toCtl # <<>> /\ toCtl' = Tail(toCtl) /\ UNCHANGED toCar
    /\ UNCHANGED <<pc, out, sendVars, conn_state, actVars, rxVars, envVars, ctlVars>>

-----------------------------------------------------------------------------
TaskNext == \/ AgvcpTask \/ Heartbeat \/ Receive \/ Notify
            \/ \E t \in Tasks : Await(t) \/ TakeAnswer(t)
Next == TaskNext \/ Request \/ RequestAgain \/ HearAnswer \/ HearMessage \/ Lose

Spec == Init /\ [][Next]_vars

(* The tasks run on.  A datagram sent again and again is at times sent,    *)
(* and heard, while there is a block for the answer, and is at times not   *)
(* lost.  Nothing is asked of Lose, GiveUp, Heartbeat, Notify and Request. *)
Fairness ==
    /\ WF_vars(AgvcpTask)
    /\ WF_vars(\E t \in Tasks : LockAndSend(t) \/ LockAndBeat(t))
    /\ SF_vars(Receive \/ \E t \in Tasks : TakeOther(t))
    /\ SF_vars(\E t \in Tasks : TakeAnswer(t))
    /\ SF_vars(Room /\ \E t \in Tasks : Resend(t))
    /\ SF_vars(Room /\ HearMessage)
    /\ WF_vars(RequestAgain) /\ SF_vars(HearAnswer)
FairSpec == Spec /\ Fairness

-----------------------------------------------------------------------------
(* Properties.                                                             *)

(* Every variable has its type.                                            *)
TypeOK ==
    /\ pc \in [Tasks -> {"register", "lock", "wait", "loop", "drain", "execute", "idle"}]
    /\ out \in [Tasks -> Body]
    /\ mutex \in Tasks \cup {"none"}
    /\ conn_state \in {"REGISTERING", "ONLINE"}
    /\ txseq \in Nat /\ rxseq \in Nat
    /\ action_que \in Seq(Nat \ {0}) /\ action_mem \in Nat /\ current \in Nat
    /\ executed \in Seq(Nat) /\ written \in Seq(Nat)
    /\ beats \in Nat /\ reports \in Nat
    /\ toCar \in Seq(Requests \cup Answers) /\ toCtl \in Seq(Frame)
    /\ registered \in BOOLEAN /\ answered \in BOOLEAN
    /\ req \in Requests \cup {NoReq} /\ (~answered => req \in Requests)
    /\ heard \in Seq(Frame)

Increasing(s) == \A i, j \in DOMAIN s : i < j => s[i] < s[j]

(* Each block of action_mem is free, holds a buffered action, or holds the *)
(* one that process_buffered_msg() confirms and executes.                  *)
ActionPoolConserved ==
    action_mem + Len(action_que) + (IF current = 0 THEN 0 ELSE 1) = ActionBlocks

(* However often the controller sends an action again, and whichever task  *)
(* receives it, it is executed once, and actions in the order of their     *)
(* numbers; the same goes for parameter writes.                            *)
OnceInOrder == Increasing(executed) /\ Increasing(written)

(* The comment on repeated actions in agvcp_msg_process(): a repeated      *)
(* action is answered but not processed again.                             *)
NotProcessedAgain == \A i, j \in DOMAIN executed : executed[i] = executed[j] => i = j

(* The comment above agv_confirm_msg(): an action is executed only after   *)
(* the controller has heard its confirmation.                              *)
ExecutedConfirmed ==
    \A i \in DOMAIN executed : \E j \in DOMAIN heard :
        heard[j].type = "MSG_CONFIRM" /\ heard[j].arg = executed[i]

(* An action the controller takes for answered is buffered, in the hands   *)
(* of agvcp, or executed: it is answered only when it has a block.         *)
AnsweredActionKept ==
    answered /\ req.type = "ACTION" /\ req.seq # 0 =>
        Member(req.seq, action_que) \/ current = req.seq \/ Member(req.seq, executed)

(* So every variable has a value the code can give it, no block for an     *)
(* action is lost, and neither is an action that was answered.             *)
ActionsKept == TypeOK /\ ActionPoolConserved /\ AnsweredActionKept

(* Once the vehicle is registered every action requested is executed,      *)
(* though requests, answers and confirmations are lost and the two tasks   *)
(* compete for the link.                                                   *)
EveryActionExecuted ==
    \A n \in 1 .. MaxRequests :
        (conn_state = "ONLINE" /\ req.type = "ACTION" /\ req.seq = n) ~> Member(n, executed)

(* The link as the tasks see it.  agv_send_msg() with retries without end  *)
(* delivers each report and each confirmation exactly once and in order,   *)
(* and returns only then; a registration, which is given up, and           *)
(* heartbeats are no part of it.                                           *)
NoMsg   == [type |-> "none", seq |-> 0, arg |-> 0]
Sending == IF mutex # "none" /\ Reliable(out[mutex].type) THEN Numbered(out[mutex]) ELSE NoMsg
Channel == INSTANCE ReportChannel WITH
               Messages <- Frame, NoMsg <- NoMsg, heard <- heard, sending <- Sending
DeliveredInOrder == Channel!Spec

(* And it does return: the mutex is not held for ever, nor is a report     *)
(* stuck behind the requests that arrive while its answer is awaited.      *)
EveryMessageDelivered == (Sending # NoMsg) ~> (Sending = NoMsg)
=============================================================================
