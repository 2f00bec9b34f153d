------------------------------- MODULE Waypoints -------------------------------
(***************************************************************************)
(* The lock points of a route: wpQ and last_ponit of usr/application/agv.c.*)
(*                                                                         *)
(* issue_command() refuses a straight route that does not start where the  *)
(* last one ended; once the route is under way it puts its points into wpQ *)
(* one by one.  For each new code the scanner reads, the task can takes    *)
(* the next point from wpQ and compares.                                   *)
(*                                                                         *)
(* agvcp and agv both issue routes.  As in Dispatch, agvcp is cut where it *)
(* may block (a trace before each point, the 500 ms before a movement) and *)
(* agv at each access to shared state.  The pools and the other commands   *)
(* are the subject of Dispatch; here no pool runs out.                     *)
(***************************************************************************)
EXTENDS Naturals, Sequences, FiniteSets

CONSTANTS
    MaxCmds,    (* bound: commands the controller sends                    *)
    MaxPath,    (* bound: points of a route                                *)
    Acts,       (* the actions it sends                                    *)
    Window,     (* actions it sends before it has heard the first is over  *)
    MaxStrays,  (* bound: codes read that are not the next of the route    *)
    WpSlots     (* MAX_WAYPOINT_NUM                                        *)

Straights == {"GOSTRAIGHT", "GOBACKWARD"}
AllActs   == Straights \cup {"TRUNLEFT"}

ASSUME WaypointsAssumption ==
    /\ MaxCmds \in Nat /\ MaxPath \in Nat \ {0} /\ MaxStrays \in Nat
    /\ Window \in Nat \ {0} /\ WpSlots \in Nat \ {0}
    /\ Acts \subseteq AllActs

(* A place on the floor is numbered along the track.  Any is the point ~0, *)
(* for which any code will do; Stray is a code of no route.                *)
LastPlace == 1 + MaxCmds * MaxPath
Any       == LastPlace + 1
Stray     == LastPlace + 2
Points    == 1 .. Any
Sent      == 0 .. LastPlace     (* as the controller writes them, 0 for any *)

Issuers == {"agvcp", "agv"}
Ids     == 1 .. MaxCmds
Route   == [id : Ids, act : AllActs, from : Sent, path : Seq(Sent)]
NoRoute == [id |-> 0, act |-> "TRUNLEFT", from |-> 0, path |-> <<>>]
NoEvt   == [kind |-> "none", ids |-> {}]

VARIABLES
    mtcmdQ,                     (* commands waiting                        *)
    mtevtQ, evt,                (* motion events, the one agv works on     *)
    pc, cur, left,              (* per issuer: where it is, its command,   *)
                                (* the points it still has to lock         *)
    wpQ, last_ponit,
    Motionstyle, typeOfAction,
    ahead,                      (* the codes the wheels still have to pass *)
    running, open, planEnd,     (* history: started and not over; sent and *)
                                (* not reported over; where the plan ends  *)
    sent, strays, alarms, refused   (* history *)

cmdVars  == <<mtcmdQ>>
evtVars  == <<mtevtQ, evt>>
taskVars == <<pc, cur, left>>
lockVars == <<wpQ, last_ponit>>
moveVars == <<Motionstyle, typeOfAction, ahead, running>>
planVars == <<open, planEnd, sent>>
faults   == <<strays, alarms, refused>>
vars == <<cmdVars, evtVars, taskVars, lockVars, moveVars, planVars, faults>>

Init ==
    /\ mtcmdQ = <<>> /\ mtevtQ = <<>> /\ evt = NoEvt
    /\ pc = [t \in Issuers |-> "idle"]
    /\ cur = [t \in Issuers |-> NoRoute]
    /\ left = [t \in Issuers |-> <<>>]
    /\ wpQ = <<>> /\ last_ponit = Any
    /\ Motionstyle = "ONSTOPING" /\ typeOfAction = "STOP"
    /\ ahead = <<>> /\ running = {}
    /\ open = {} /\ planEnd = 1 /\ sent = 0
    /\ strays = 0 /\ alarms = {} /\ refused = {}

Goto(t, l) == pc' = [pc EXCEPT ![t] = l]
Home(t)    == IF t = "agvcp" THEN "idle" ELSE "report"

(* A trace of agv waits for the log's mutex behind agvcp.  Wherever agvcp  *)
(* is cut, but for its sleep, it waits there itself.                       *)
MayTrace(t) == t = "agv" => pc["agvcp"] \in {"idle", "delay"}

-----------------------------------------------------------------------------
(* issue_command(), run by task t.                                         *)

AsPoint(p) == IF p = 0 THEN Any ELSE p
PointsOf(c) == [i \in DOMAIN c.path |-> AsPoint(c.path[i])]

(* The start of the route is not where the last one ends; ~0 on either     *)
(* side matches.                                                           *)
StartsWrong(c) == AsPoint(c.from) \notin {Any, last_ponit} /\ last_ponit # Any

Check(t) ==
    /\ pc[t] = "check"
    /\ IF cur[t].act \in Straights /\ StartsWrong(cur[t])
       THEN /\ Goto(t, Home(t))
            /\ alarms' = alarms \cup {"start"}
            /\ refused' = refused \cup {cur[t].id}
       ELSE Goto(t, "gate") /\ UNCHANGED <<alarms, refused>>
    /\ UNCHANGED <<cmdVars, evtVars, cur, left, lockVars, moveVars, planVars, strays>>

(* Mutant of Denied: a GOSTRAIGHT does not extend the run under way.       *)
DeniedAll(a) == Motionstyle # "ONSTOPING"

(* motionctrl_cmd() is busy with something else.                           *)
Denied(a) == Motionstyle # "ONSTOPING" /\ ~(a = "GOSTRAIGHT" /\ typeOfAction = a)

(* What agvcp is denied it appends to the queue; what agv is denied is gone.*)
Gate(t) ==
    /\ pc[t] = "gate" /\ MayTrace(t)
    /\ Goto(t, CASE Denied(cur[t].act)          -> IF t = "agvcp" THEN "denied" ELSE "report"
                 [] Motionstyle = "ONSTOPING"   -> "delay"
                 [] OTHER                       -> "commit")
    /\ UNCHANGED <<cmdVars, evtVars, cur, left, lockVars, moveVars, planVars, faults>>

(* The movement starts, its points are not locked yet.                     *)
Commit(t) ==
    /\ pc[t] \in {"delay", "commit"}
    /\ Motionstyle' = cur[t].act /\ typeOfAction' = cur[t].act
    /\ ahead' = ahead \o PointsOf(cur[t])
    /\ running' = running \cup {cur[t].id}
    /\ left' = [left EXCEPT ![t] = PointsOf(cur[t])]
    /\ Goto(t, IF cur[t].act \in Straights THEN "lock" ELSE Home(t))
    /\ UNCHANGED <<cmdVars, evtVars, cur, lockVars, planVars, faults>>

(* Mutant of LockPoint: the points end up in the opposite order.           *)
LockPointFirst(p) == wpQ' = <<p>> \o wpQ

(* lock_point(): the result is not looked at, a point without a slot is    *)
(* lost.                                                                   *)
LockPoint(p) == wpQ' = IF Len(wpQ) < WpSlots THEN Append(wpQ, p) ELSE wpQ

Lock(t) ==
    /\ pc[t] = "lock" /\ left[t] # <<>> /\ MayTrace(t)
    /\ LockPoint(Head(left[t]))
    /\ left' = [left EXCEPT ![t] = Tail(left[t])]
    /\ UNCHANGED <<cmdVars, evtVars, pc, cur, last_ponit, moveVars, planVars, faults>>

(* Mutant of EndOf: the first point instead of the last.                   *)
StartOf(c) == AsPoint(Head(c.path))

(* point after the loop of issue_command().                                *)
EndOf(c) == AsPoint(c.path[Len(c.path)])

Locked(t) ==
    /\ pc[t] = "lock" /\ left[t] = <<>>
    /\ last_ponit' = EndOf(cur[t])
    /\ Goto(t, Home(t))
    /\ UNCHANGED <<cmdVars, evtVars, cur, left, wpQ, moveVars, planVars, faults>>

IssueStep(t) == Check(t) \/ Gate(t) \/ Commit(t) \/ Lock(t) \/ Locked(t)

-----------------------------------------------------------------------------
(* agvcp: an action of the controller arrives in process_action_cmd().     *)

(* The controller, external: each route begins where the one before ends;  *)
(* it may give its points as 0, for which any code will do.                *)
Plan(a, n, wild) ==
    LET p(i) == IF wild THEN 0 ELSE planEnd + i
    IN  [id |-> sent + 1, act |-> a,
         from |-> IF a \in Straights THEN p(0) ELSE 0,
         path |-> IF a \in Straights THEN [i \in 1 .. n |-> p(i)] ELSE <<>>]

Receive(a, n, wild) ==
    /\ pc["agvcp"] = "idle"
    /\ sent < MaxCmds /\ Cardinality(open) < Window
    /\ sent' = sent + 1 /\ open' = open \cup {sent + 1}
    /\ planEnd' = IF a \in Straights THEN planEnd + n ELSE planEnd
    /\ IF mtcmdQ = <<>>
       THEN /\ cur' = [cur EXCEPT !["agvcp"] = Plan(a, n, wild)]
            /\ Goto("agvcp", "check") /\ UNCHANGED mtcmdQ
       ELSE /\ mtcmdQ' = Append(mtcmdQ, Plan(a, n, wild)) /\ UNCHANGED <<pc, cur>>
    /\ UNCHANGED <<evtVars, left, lockVars, moveVars, faults>>

AppendDenied ==
    /\ pc["agvcp"] = "denied"
    /\ mtcmdQ' = Append(mtcmdQ, cur["agvcp"])
    /\ Goto("agvcp", "idle")
    /\ UNCHANGED <<evtVars, cur, left, lockVars, moveVars, planVars, faults>>

-----------------------------------------------------------------------------
(* agv: takes an event, issues the next command, reports the event.        *)

AgvPend ==
    /\ pc["agv"] = "idle" /\ mtevtQ # <<>> /\ MayTrace("agv")
    /\ evt' = Head(mtevtQ) /\ mtevtQ' = Tail(mtevtQ)
    /\ Goto("agv", "pop")
    /\ UNCHANGED <<cmdVars, cur, left, lockVars, moveVars, planVars, faults>>

AgvPop ==
    /\ pc["agv"] = "pop"
    /\ IF mtcmdQ = <<>>
       THEN Goto("agv", "report") /\ UNCHANGED <<mtcmdQ, cur>>
       ELSE /\ mtcmdQ' = Tail(mtcmdQ)
            /\ cur' = [cur EXCEPT !["agv"] = Head(mtcmdQ)]
            /\ Goto("agv", IF evt.kind = "over" \/ Head(mtcmdQ).act = "GOSTRAIGHT"
                           THEN "check" ELSE "postback")
    /\ UNCHANGED <<evtVars, left, lockVars, moveVars, planVars, faults>>

AgvPostBack ==
    /\ pc["agv"] = "postback"
    /\ mtcmdQ' = <<cur["agv"]>> \o mtcmdQ
    /\ Goto("agv", "report")
    /\ UNCHANGED <<evtVars, cur, left, lockVars, moveVars, planVars, faults>>

AgvReport ==
    /\ pc["agv"] = "report"
    /\ open' = open \ evt.ids /\ evt' = NoEvt
    /\ Goto("agv", "idle")
    /\ UNCHANGED <<cmdVars, mtevtQ, cur, left, lockVars, moveVars, planEnd, sent, faults>>

AgvcpStep == AppendDenied \/ IssueStep("agvcp")

(* agvcp does not block between its check of Motionstyle and the commit.   *)
AgvStep ==
    /\ pc["agvcp"] # "commit"
    /\ AgvPend \/ AgvPop \/ AgvPostBack \/ AgvReport \/ IssueStep("agv")

-----------------------------------------------------------------------------
(* can and motionctrl: the vehicle passes a code, or comes to its end.     *)

(* Mutant of Release: a point that does not match is put back, but the code*)
(* is not called wrong.                                                    *)
ReleaseQuiet(code) ==
    IF wpQ # <<>> THEN wpQ' = (IF Head(wpQ) \in {code, Any} THEN Tail(wpQ) ELSE wpQ)
                       /\ UNCHANGED alarms
    ELSE alarms' = alarms \cup {"code"} /\ UNCHANGED wpQ

(* check_and_release_point() as motionctrl_event_callback() calls it: an   *)
(* expected point that does not match stays at the front.                  *)
Release(code) ==
    IF wpQ # <<>> /\ Head(wpQ) \in {code, Any}
    THEN wpQ' = Tail(wpQ) /\ UNCHANGED alarms
    ELSE alarms' = alarms \cup {"code"} /\ UNCHANGED wpQ

(* A code comes into view half a metre after the last one: by then its     *)
(* point is locked, but perhaps not those after it.                        *)
InReach == ahead # <<>> /\ \A t \in Issuers : left[t] # <<>> => Head(left[t]) # Head(ahead)

PassPoint(code) ==
    /\ Motionstyle \in Straights /\ InReach
    /\ strays' = IF Head(ahead) \in {code, Any} THEN strays ELSE strays + 1
    /\ strays' <= MaxStrays
    /\ Release(code)
    /\ ahead' = Tail(ahead)
    /\ mtevtQ' = Append(mtevtQ, [kind |-> "arrival", ids |-> {}])
    /\ UNCHANGED <<cmdVars, evt, taskVars, last_ponit, Motionstyle, typeOfAction, running,
                   planVars, refused>>

MoveEnd ==
    /\ \/ Motionstyle \in Straights /\ ahead = <<>>
       \/ Motionstyle = "TRUNLEFT"
    /\ Motionstyle' = "ONSTOPING" /\ running' = {}
    /\ mtevtQ' = Append(mtevtQ, [kind |-> "over", ids |-> running])
    /\ UNCHANGED <<cmdVars, evt, taskVars, lockVars, typeOfAction, ahead, planVars, faults>>

OnTrack == ahead # <<>> /\ PassPoint(Head(ahead))

Next ==
    \/ \E a \in Acts, n \in 1 .. MaxPath, wild \in BOOLEAN : Receive(a, n, wild)
    \/ AgvcpStep \/ AgvStep \/ MoveEnd
    \/ OnTrack \/ PassPoint(Stray)

Spec == Init /\ [][Next]_vars

(* Each task runs on, and a vehicle that moves gets there.                 *)
FairSpec == /\ Spec /\ WF_vars(AgvcpStep) /\ WF_vars(AgvStep)
            /\ WF_vars(MoveEnd) /\ WF_vars(OnTrack)

-----------------------------------------------------------------------------
Places == {"idle", "check", "gate", "denied", "delay", "commit", "lock",
           "pop", "postback", "report"}

(* Every variable has a value the code can give it, and a point in wpQ is  *)
(* never 0, which check_and_release_point() takes for an empty queue.      *)
TypeOK ==
    /\ mtcmdQ \in Seq(Route)
    /\ mtevtQ \in Seq([kind : {"over", "arrival"}, ids : SUBSET Ids])
    /\ evt \in [kind : {"over", "arrival", "none"}, ids : SUBSET Ids]
    /\ pc \in [Issuers -> Places]
    /\ cur \in [Issuers -> Route \cup {NoRoute}]
    /\ left \in [Issuers -> Seq(Points)] /\ ahead \in Seq(Points)
    /\ wpQ \in Seq(Points) /\ Len(wpQ) <= WpSlots /\ last_ponit \in Points
    /\ Motionstyle \in AllActs \cup {"ONSTOPING"} /\ typeOfAction \in AllActs \cup {"STOP"}
    /\ running \subseteq Ids /\ open \subseteq Ids /\ refused \subseteq Ids
    /\ sent \in 0 .. MaxCmds /\ planEnd \in 1 .. LastPlace
    /\ strays \in 0 .. MaxStrays /\ alarms \subseteq {"start", "code"}

(* While the vehicle has read no wrong code, the points locked and those   *)
(* about to be are exactly the codes it still has to pass, in their order, *)
(* through extensions of a run and routes taken from the queue.            *)
RouteLocked == strays = 0 => wpQ \o left["agv"] \o left["agvcp"] = ahead

(* A code that is not the next of the route raises the alarm ...           *)
WrongCodeReported == strays > 0 => "code" \in alarms

(* ... and a route followed as commanded never does (agv.c:652: the points *)
(* of a route are queued "to check the path with them later").             *)
NoFalseAlarm == "code" \in alarms => strays > 0

(* So the codes read are checked, against what the vehicle was told.        *)
CodesChecked == TypeOK /\ WrongCodeReported /\ NoFalseAlarm

(* agv.c:318: a command that is refused is put into the queue.  A route    *)
(* that begins where the one sent before it ends is not refused for its    *)
(* start, and lost.                                                        *)
ContiguousAccepted == refused = {}

(* Every action is reported to the controller as over in the end.          *)
EveryActionOver == \A i \in Ids : i \in open ~> i \notin open
=============================================================================
