--------------------------- MODULE WaypointsProofs ---------------------------
(***************************************************************************)
(* Proofs about Waypoints for every number of commands, length of a route  *)
(* and number of stray codes: as long as the controller has at most two    *)
(* actions open and wpQ holds the points of two routes, what is locked is  *)
(* what lies ahead, a code raises the alarm just when it is wrong, and no  *)
(* route that continues the plan is refused.                               *)
(***************************************************************************)
EXTENDS Waypoints, FiniteSetTheorems, SequenceTheorems, TLAPS

USE WaypointsAssumption

-----------------------------------------------------------------------------
(* The window and the slots under which the lock points can be trusted.    *)
TwoOpen   == Window <= 2 /\ WpSlots >= 2 * MaxPath

(* Two actions never run into each other in motionctrl_cmd() when the      *)
(* controller does not mix the two directions.                             *)
OneWay    == "GOSTRAIGHT" \in Acts => "GOBACKWARD" \notin Acts

Undecided == {"check", "gate", "denied", "delay", "commit", "postback"}
Busy(t)   == pc[t] \in Undecided \cup {"lock"}

OverIds == UNION {mtevtQ[i].ids : i \in DOMAIN mtevtQ}
Ended   == running \cup OverIds \cup evt.ids

(* agvcp, agv and the queue hold one command between them.                 *)
OneAtATime ==
    /\ Busy("agvcp") => ~Busy("agv")
    /\ Busy("agv") => pc["agvcp"] = "idle"
    /\ mtcmdQ # <<>> => Len(mtcmdQ) = 1 /\ pc["agvcp"] = "idle" /\ ~Busy("agv")

(* A route sent is in one place until it is reported over.                 *)
Books ==
    /\ open \subseteq 1 .. sent
    /\ \A a, b, c \in open : a = b \/ a = c \/ b = c
    /\ Ended \subseteq open
    /\ running \cap (OverIds \cup evt.ids) = {}
    /\ OverIds \cap evt.ids = {}
    /\ \A i, j \in DOMAIN mtevtQ : i # j => mtevtQ[i].ids \cap mtevtQ[j].ids = {}
    /\ \A t \in Issuers : pc[t] \in Undecided => cur[t].id \in open \ Ended
    /\ pc["agv"] = "lock" => cur["agv"].id \in open
    /\ \A i \in DOMAIN mtcmdQ : mtcmdQ[i].id \in open \ Ended
    /\ running = {} <=> Motionstyle = "ONSTOPING"

EventForm(e) ==
    /\ e.kind = "arrival" => e.ids = {}
    /\ e.kind = "over" => e.ids # {}

EventForms ==
    /\ pc["agv"] = "idle" => evt = NoEvt
    /\ pc["agv"] = "pop" => evt.kind \in {"over", "arrival"}
    /\ EventForm(evt)
    /\ \A i \in DOMAIN mtevtQ : EventForm(mtevtQ[i])

(* While a command waits the one before it is not reported over.           *)
Before ==
    /\ pc["agvcp"] = "denied" => running \cup OverIds # {}
    /\ mtcmdQ # <<>> => running \cup OverIds # {} \/ (pc["agv"] = "pop" /\ evt.ids # {})
    /\ Busy("agv") => \E y \in Ended : y # cur["agv"].id
    /\ pc["agv"] = "postback" => evt.kind = "arrival"

(* A straight route has points, a turn none.                               *)
Form(c) == IF c.act \in Straights THEN Len(c.path) \in 1 .. MaxPath ELSE c.path = <<>>

CmdForms ==
    /\ \A t \in Issuers : Busy(t) => Form(cur[t])
    /\ \A i \in DOMAIN mtcmdQ : Form(mtcmdQ[i])

(* What the gate has found is so when the movement starts.                 *)
Wheels ==
    /\ \A t \in Issuers : pc[t] = "delay" => Motionstyle = "ONSTOPING"
    /\ \A t \in Issuers : pc[t] = "commit" => cur[t].act = "GOSTRAIGHT"
    /\ \A t \in Issuers : pc[t] = "lock" => cur[t].act \in Straights
    /\ \A t \in Issuers : pc[t] # "lock" => left[t] = <<>>

(* The codes ahead are those of the routes under way.                      *)
AheadFits ==
    /\ Motionstyle \in Straights \/ ahead = <<>>
    /\ Len(ahead) <= 2 * MaxPath
    /\ \A y \in Ids : running \subseteq {y} => Len(ahead) <= MaxPath

PlanFits == planEnd <= 1 + sent * MaxPath

-----------------------------------------------------------------------------
(* Places and plans.                                                       *)

LEMMA LastPlaceNat == LastPlace \in Nat /\ LastPlace >= 1
<1>1. MaxCmds * MaxPath \in Nat
  OBVIOUS
<1> QED  BY <1>1 DEF LastPlace

LEMMA PlanGrows ==
    ASSUME NEW s \in Nat, NEW m \in Nat, NEW n \in 0 .. m, NEW p \in Nat, NEW big \in Nat,
           p <= 1 + s * m, s < big
    PROVE  p + n <= 1 + (s + 1) * m /\ p + n <= 1 + big * m
<1>1. (s + 1) * m = s * m + m /\ s * m \in Nat /\ (s + 1) * m \in Nat
  OBVIOUS
<1>2. (s + 1) * m <= big * m /\ big * m \in Nat
  <2> DEFINE d == big - (s + 1)
  <2>1. d \in Nat /\ big = (s + 1) + d
    OBVIOUS
  <2>2. d * m \in Nat
    BY <2>1
  <2> HIDE DEF d
  <2>3. \A x, y \in Nat : (x + y) * m = x * m + y * m
    OBVIOUS
  <2>4. big * m = (s + 1) * m + d * m
    <3>1. ((s + 1) + d) * m = (s + 1) * m + d * m
      BY <2>1, <2>3
    <3> QED  BY <2>1, <3>1
  <2>5. \A x, y \in Nat : x <= x + y /\ x + y \in Nat
    OBVIOUS
  <2> QED  BY <1>1, <2>2, <2>4, <2>5
<1> QED  BY <1>1, <1>2

LEMMA PlanRoute ==
    ASSUME NEW a \in Acts, NEW n \in 1 .. MaxPath, NEW wild \in BOOLEAN,
           sent \in Nat, sent < MaxCmds, planEnd \in Nat \ {0}, PlanFits
    PROVE  /\ Plan(a, n, wild) \in Route /\ Form(Plan(a, n, wild))
           /\ planEnd + n \in 1 .. LastPlace /\ planEnd + n <= 1 + (sent + 1) * MaxPath
<1>1. planEnd + n <= LastPlace /\ planEnd + n <= 1 + (sent + 1) * MaxPath /\ LastPlace \in Nat
  BY PlanGrows, LastPlaceNat DEF PlanFits, LastPlace
<1> DEFINE p(i) == IF wild THEN 0 ELSE planEnd + i
<1>2. \A i \in 0 .. n : p(i) \in Sent
  BY <1>1 DEF Sent
<1>3. [i \in 1 .. n |-> p(i)] \in Seq(Sent) /\ Len([i \in 1 .. n |-> p(i)]) = n
  BY <1>2
<1>4. Plan(a, n, wild) = [id |-> sent + 1, act |-> a,
                          from |-> IF a \in Straights THEN p(0) ELSE 0,
                          path |-> IF a \in Straights THEN [i \in 1 .. n |-> p(i)] ELSE <<>>]
  BY DEF Plan
<1>5. sent + 1 \in Ids /\ a \in AllActs
  BY DEF Ids
<1>6. (IF a \in Straights THEN p(0) ELSE 0) \in Sent
  BY <1>2, LastPlaceNat DEF Sent
<1> HIDE DEF p
<1>7. (IF a \in Straights THEN [i \in 1 .. n |-> p(i)] ELSE <<>>) \in Seq(Sent)
  BY <1>3
<1>8. Plan(a, n, wild) \in Route
  BY <1>4, <1>5, <1>6, <1>7 DEF Route
<1>9. Form(Plan(a, n, wild))
  BY <1>3, <1>4 DEF Form
<1> QED  BY <1>1, <1>8, <1>9

-----------------------------------------------------------------------------
(* Types, and what a command in hand looks like.                           *)

AgvcpPlaces == {"idle", "check", "gate", "denied", "delay", "commit", "lock"}
AgvPlaces   == {"idle", "check", "gate", "delay", "commit", "lock", "pop", "postback", "report"}

Typed ==
    /\ TypeOK
    /\ pc["agvcp"] \in AgvcpPlaces /\ pc["agv"] \in AgvPlaces
    /\ \A t \in Issuers : Busy(t) => cur[t] \in Route
    /\ \A t \in Issuers : pc[t] = "lock" => cur[t].act \in Straights
    /\ CmdForms /\ PlanFits

LEMMA AsPointIs == \A p \in Sent : AsPoint(p) \in Points /\ AsPoint(p) # 0
BY LastPlaceNat DEF AsPoint, Sent, Points, Any

LEMMA PointsOfIs ==
    ASSUME NEW c \in Route \cup {NoRoute}
    PROVE  PointsOf(c) \in Seq(Points) /\ Len(PointsOf(c)) = Len(c.path) /\ c.path \in Seq(Sent)
<1>1. c.path \in Seq(Sent)
  <2>1. CASE c \in Route
    BY <2>1 DEF Route
  <2>2. CASE c = NoRoute
    <3>1. c.path = <<>>
      BY <2>2 DEF NoRoute
    <3>2. <<>> \in Seq(Sent)
      OBVIOUS
    <3> QED  BY <3>1, <3>2
  <2> QED  BY <2>1, <2>2
<1>2. DOMAIN c.path = 1 .. Len(c.path) /\ Len(c.path) \in Nat /\ \A i \in 1 .. Len(c.path) : c.path[i] \in Sent
  BY <1>1
<1>3. \A i \in 1 .. Len(c.path) : AsPoint(c.path[i]) \in Points
  BY <1>2, AsPointIs
<1> DEFINE n == Len(c.path)
           p == [i \in 1 .. n |-> AsPoint(c.path[i])]
<1>4. PointsOf(c) = p
  BY <1>2 DEF PointsOf
<1>5. n \in Nat /\ p \in [1 .. n -> Points]
  BY <1>2, <1>3
<1> HIDE DEF n
<1>6. p \in Seq(Points) /\ Len(p) = n
  BY <1>5
<1> QED  BY <1>1, <1>4, <1>6 DEF n

LEMMA EndOfIs ==
    ASSUME NEW c \in Route, c.act \in Straights, Form(c)
    PROVE  EndOf(c) \in Points
<1>1. c.path \in Seq(Sent) /\ Len(c.path) \in 1 .. MaxPath
  BY DEF Route, Form
<1>2. c.path[Len(c.path)] \in Sent
  BY <1>1
<1> QED  BY <1>2, AsPointIs DEF EndOf

(* The steps, one by one.                                                  *)
CmdStep(t) == Check(t) \/ Gate(t) \/ Commit(t) \/ Lock(t) \/ Locked(t)
Passing    == \E code \in Points \cup {Stray} : PassPoint(code)
Receiving  == \E a \in Acts, n \in 1 .. MaxPath, wild \in BOOLEAN : Receive(a, n, wild)

LEMMA Steps ==
    ASSUME TypeOK, [Next]_vars
    PROVE  \/ Receiving \/ AppendDenied \/ (\E t \in Issuers : CmdStep(t))
           \/ AgvPend \/ AgvPop \/ AgvPostBack \/ AgvReport \/ MoveEnd \/ Passing
           \/ UNCHANGED vars
<1>1. ASSUME OnTrack PROVE Passing
  <2>1. Head(ahead) \in Points
    BY <1>1 DEF OnTrack, TypeOK
  <2> QED  BY <1>1, <2>1 DEF OnTrack, Passing
<1>2. ASSUME PassPoint(Stray) PROVE Passing
  BY <1>2 DEF Passing
<1>3. Issuers = {"agvcp", "agv"}
  BY DEF Issuers
<1> QED  BY <1>1, <1>2, <1>3 DEF Next, AgvcpStep, AgvStep, IssueStep, CmdStep, Receiving

LEMMA InitTyped == Init => Typed
<1> SUFFICES ASSUME Init PROVE Typed
  OBVIOUS
<1> USE DEF Init
<1>1. Any \in Points /\ 1 \in 1 .. LastPlace
  BY LastPlaceNat DEF Any, Points
<1>2. 1 <= 1 + 0 * MaxPath
  OBVIOUS
<1>3. TypeOK
  BY <1>1 DEF TypeOK, Issuers, Places, NoRoute, NoEvt, Ids
<1> QED  BY <1>2, <1>3 DEF Typed, CmdForms, PlanFits, Busy, Undecided, Issuers, AgvcpPlaces, AgvPlaces

(* A step of a command in the hands of t keeps its place among t's.        *)
LEMMA CmdStepTyped ==
    ASSUME Typed, NEW t \in Issuers, CmdStep(t)
    PROVE  Typed'
<1> USE DEF Typed, Goto, Home, cmdVars, evtVars, taskVars, lockVars, moveVars, planVars, faults
<1>0. /\ Issuers = {"agvcp", "agv"} /\ pc \in [Issuers -> Places]
      /\ cur \in [Issuers -> Route \cup {NoRoute}] /\ left \in [Issuers -> Seq(Points)]
      /\ pc[t] \in {"check", "gate", "delay", "commit", "lock"}
  BY DEF TypeOK, Issuers, CmdStep, Check, Gate, Commit, Lock, Locked
<1>1. cur[t] \in Route /\ Form(cur[t])
  BY <1>0 DEF Busy, Undecided, CmdForms
<1>2. UNCHANGED <<mtcmdQ, mtevtQ, evt, cur, open, planEnd, sent, strays>>
  BY DEF CmdStep, Check, Gate, Commit, Lock, Locked
<1>3. /\ pc' \in [Issuers -> Places] /\ \A u \in Issuers : u # t => pc'[u] = pc[u]
      /\ pc'[t] \in {"check", "gate", "delay", "commit", "lock"}
            \cup {IF t = "agvcp" THEN "idle" ELSE "report"}
            \cup (IF t = "agvcp" THEN {"denied"} ELSE {})
      /\ pc'[t] = "lock" => cur[t].act \in Straights
  BY <1>0 DEF CmdStep, Check, Gate, Commit, Lock, Locked, Places
<1>4. /\ left' \in [Issuers -> Seq(Points)] /\ ahead' \in Seq(Points)
      /\ wpQ' \in Seq(Points) /\ Len(wpQ') <= WpSlots /\ last_ponit' \in Points
  <2>1. PointsOf(cur[t]) \in Seq(Points) /\ ahead \in Seq(Points) /\ wpQ \in Seq(Points)
        /\ Len(wpQ) <= WpSlots /\ last_ponit \in Points
    BY <1>1, PointsOfIs DEF TypeOK
  <2>2. CASE Check(t) \/ Gate(t)
    BY <1>0, <2>1, <2>2 DEF Check, Gate
  <2>3. CASE Commit(t)
    BY <1>0, <2>1, <2>3, ConcatProperties DEF Commit
  <2>4. CASE Lock(t)
    <3>1. left[t] \in Seq(Points) /\ left[t] # <<>>
      BY <1>0, <2>4 DEF Lock
    <3>2. Head(left[t]) \in Points /\ Tail(left[t]) \in Seq(Points)
      BY <3>1
    <3>3. wpQ' \in {wpQ, Append(wpQ, Head(left[t]))} /\ (Len(wpQ) >= WpSlots => wpQ' = wpQ)
      BY <2>1, <2>4 DEF Lock, LockPoint
    <3>4. Append(wpQ, Head(left[t])) \in Seq(Points) /\ Len(Append(wpQ, Head(left[t]))) = Len(wpQ) + 1
      BY <2>1, <3>2
    <3>5. wpQ' \in Seq(Points) /\ Len(wpQ') <= WpSlots
      BY <2>1, <3>3, <3>4
    <3>6. left' = [left EXCEPT ![t] = Tail(left[t])] /\ UNCHANGED <<ahead, last_ponit>>
      BY <2>4 DEF Lock
    <3> QED  BY <1>0, <2>1, <3>2, <3>5, <3>6
  <2>5. CASE Locked(t)
    <3>1. last_ponit' = EndOf(cur[t]) /\ UNCHANGED <<left, wpQ, ahead>>
      BY <2>5 DEF Locked
    <3>2. cur[t].act \in Straights
      BY <2>5 DEF Locked
    <3> QED  BY <1>0, <1>1, <2>1, <3>1, <3>2, EndOfIs
  <2> QED  BY <2>2, <2>3, <2>4, <2>5 DEF CmdStep
<1>5. /\ Motionstyle' \in AllActs \cup {"ONSTOPING"} /\ typeOfAction' \in AllActs \cup {"STOP"}
      /\ running' \subseteq Ids /\ refused' \subseteq Ids /\ alarms' \subseteq {"start", "code"}
  <2>1. cur[t].act \in AllActs /\ cur[t].id \in Ids
    BY <1>1 DEF Route
  <2> QED  BY <2>1 DEF TypeOK, CmdStep, Check, Gate, Commit, Lock, Locked
<1>6. TypeOK'
  BY <1>2, <1>3, <1>4, <1>5 DEF TypeOK
<1>7. pc'["agvcp"] \in AgvcpPlaces /\ pc'["agv"] \in AgvPlaces
  BY <1>0, <1>3 DEF AgvcpPlaces, AgvPlaces
<1>8. \A u \in Issuers : (Busy(u)' => Busy(u)) /\ (pc'[u] = "lock" => cur'[u].act \in Straights)
  BY <1>0, <1>2, <1>3 DEF Busy, Undecided
<1>9. (\A u \in Issuers : Busy(u)' => cur'[u] \in Route) /\ CmdForms' /\ PlanFits'
  BY <1>2, <1>8 DEF CmdForms, PlanFits
<1> QED  BY <1>6, <1>7, <1>8, <1>9

LEMMA ReceiveTyped ==
    ASSUME Typed, Receiving
    PROVE  Typed'
<1> USE DEF Typed, Goto, evtVars, lockVars, moveVars, faults
<1>1. PICK a \in Acts, n \in 1 .. MaxPath, wild \in BOOLEAN : Receive(a, n, wild)
  BY DEF Receiving
<1> DEFINE c == Plan(a, n, wild)
<1>2. /\ Issuers = {"agvcp", "agv"} /\ pc \in [Issuers -> Places]
      /\ cur \in [Issuers -> Route \cup {NoRoute}] /\ mtcmdQ \in Seq(Route)
      /\ sent \in 0 .. MaxCmds /\ planEnd \in 1 .. LastPlace /\ open \subseteq Ids
      /\ sent < MaxCmds
  BY <1>1 DEF TypeOK, Issuers, Receive
<1>3. c \in Route /\ Form(c) /\ planEnd + n \in 1 .. LastPlace /\ planEnd + n <= 1 + (sent + 1) * MaxPath
  BY <1>2, PlanRoute, LastPlaceNat
<1> HIDE DEF c
<1>4. /\ sent' = sent + 1 /\ open' = open \cup {sent + 1}
      /\ planEnd' = IF a \in Straights THEN planEnd + n ELSE planEnd
      /\ UNCHANGED <<evtVars, left, lockVars, moveVars, faults>>
      /\ pc["agvcp"] = "idle"
  BY <1>1 DEF Receive
<1>5. \/ cur' = [cur EXCEPT !["agvcp"] = c] /\ pc' = [pc EXCEPT !["agvcp"] = "check"] /\ mtcmdQ' = mtcmdQ
      \/ mtcmdQ' = Append(mtcmdQ, c) /\ pc' = pc /\ cur' = cur
  BY <1>1 DEF Receive, c
<1>6. sent' \in 0 .. MaxCmds /\ open' \subseteq Ids /\ planEnd' \in 1 .. LastPlace
  BY <1>2, <1>3, <1>4 DEF Ids
<1>7. PlanFits'
  <2>1. sent * MaxPath <= (sent + 1) * MaxPath
    <3>1. (sent + 1) * MaxPath = sent * MaxPath + MaxPath /\ sent * MaxPath \in Nat
      BY <1>2
    <3> QED  BY <3>1
  <2>2. planEnd <= 1 + (sent + 1) * MaxPath
    <3>1. sent * MaxPath \in Nat /\ (sent + 1) * MaxPath \in Nat /\ planEnd \in Nat
      BY <1>2, LastPlaceNat
    <3>2. \A p, x, y \in Nat : p <= 1 + x /\ x <= y => p <= 1 + y
      OBVIOUS
    <3> QED  BY <2>1, <3>1, <3>2 DEF PlanFits
  <2> QED  BY <1>3, <1>4, <2>2 DEF PlanFits
<1>8. /\ mtcmdQ' \in Seq(Route) /\ cur' \in [Issuers -> Route \cup {NoRoute}]
      /\ pc' \in [Issuers -> Places] /\ pc'["agvcp"] \in AgvcpPlaces /\ pc'["agv"] \in AgvPlaces
  <2>0. pc["agvcp"] \in AgvcpPlaces /\ pc["agv"] \in AgvPlaces
    OBVIOUS
  <2>1. CASE cur' = [cur EXCEPT !["agvcp"] = c] /\ pc' = [pc EXCEPT !["agvcp"] = "check"]
             /\ mtcmdQ' = mtcmdQ
    BY <1>2, <1>3, <2>0, <2>1 DEF Places, AgvcpPlaces
  <2>2. CASE mtcmdQ' = Append(mtcmdQ, c) /\ pc' = pc /\ cur' = cur
    BY <1>2, <1>3, <2>0, <2>2
  <2> QED  BY <1>5, <2>1, <2>2
<1>9. TypeOK'
  BY <1>4, <1>6, <1>8 DEF TypeOK
<1>10. CmdForms'
  <2>1. CASE mtcmdQ' = mtcmdQ /\ cur' = [cur EXCEPT !["agvcp"] = c] /\ pc' = [pc EXCEPT !["agvcp"] = "check"]
    BY <1>2, <1>3, <2>1 DEF CmdForms, Busy
  <2>2. CASE mtcmdQ' = Append(mtcmdQ, c) /\ pc' = pc /\ cur' = cur
    <3>1. \A i \in DOMAIN mtcmdQ' : mtcmdQ'[i] = c \/ (i \in DOMAIN mtcmdQ /\ mtcmdQ'[i] = mtcmdQ[i])
      BY <1>2, <1>3, <2>2
    <3> QED  BY <1>3, <2>2, <3>1 DEF CmdForms, Busy
  <2> QED  BY <1>5, <2>1, <2>2
<1>11. \A t \in Issuers : /\ Busy(t)' => cur'[t] \in Route
                          /\ pc'[t] = "lock" => cur'[t].act \in Straights
  BY <1>2, <1>3, <1>4, <1>5 DEF Busy, Undecided
<1> QED  BY <1>7, <1>8, <1>9, <1>10, <1>11

LEMMA QueueTyped ==
    ASSUME Typed, AppendDenied \/ AgvPend \/ AgvPop \/ AgvPostBack \/ AgvReport
    PROVE  Typed'
<1> USE DEF Typed, Goto, cmdVars, evtVars, taskVars, lockVars, moveVars, planVars, faults
<1>0. /\ Issuers = {"agvcp", "agv"} /\ pc \in [Issuers -> Places]
      /\ cur \in [Issuers -> Route \cup {NoRoute}] /\ mtcmdQ \in Seq(Route)
  BY DEF TypeOK, Issuers
<1>1. CASE AppendDenied
  <2>1. cur["agvcp"] \in Route /\ Form(cur["agvcp"])
    BY <1>0, <1>1 DEF AppendDenied, Busy, Undecided, CmdForms
  <2>2. /\ pc' = [pc EXCEPT !["agvcp"] = "idle"] /\ mtcmdQ' = Append(mtcmdQ, cur["agvcp"])
        /\ UNCHANGED <<evtVars, cur, left, lockVars, moveVars, planVars, faults>>
    BY <1>1 DEF AppendDenied
  <2>3. \A i \in DOMAIN mtcmdQ' : mtcmdQ'[i] = cur["agvcp"] \/ (i \in DOMAIN mtcmdQ /\ mtcmdQ'[i] = mtcmdQ[i])
    BY <1>0, <2>1, <2>2
  <2>4. TypeOK' /\ pc'["agvcp"] \in AgvcpPlaces /\ pc'["agv"] \in AgvPlaces
    BY <1>0, <2>1, <2>2 DEF TypeOK, Places, AgvcpPlaces
  <2>5. \A t \in Issuers : (Busy(t)' => Busy(t)) /\ (pc'[t] = "lock" => pc[t] = "lock")
    BY <1>0, <2>2 DEF Busy, Undecided
  <2> QED  BY <2>1, <2>2, <2>3, <2>4, <2>5 DEF CmdForms, PlanFits
<1>2. CASE AgvPend
  <2>1. /\ pc' = [pc EXCEPT !["agv"] = "pop"] /\ evt' = Head(mtevtQ) /\ mtevtQ' = Tail(mtevtQ)
        /\ mtevtQ # <<>>
        /\ UNCHANGED <<cmdVars, cur, left, lockVars, moveVars, planVars, faults>>
    BY <1>2 DEF AgvPend
  <2>2. evt' \in [kind : {"over", "arrival", "none"}, ids : SUBSET Ids]
    <3>1. mtevtQ \in Seq([kind : {"over", "arrival"}, ids : SUBSET Ids])
      BY DEF TypeOK
    <3> DEFINE E == [kind : {"over", "arrival"}, ids : SUBSET Ids]
               F == [kind : {"over", "arrival", "none"}, ids : SUBSET Ids]
    <3>2. E \subseteq F
      OBVIOUS
    <3>3. mtevtQ \in Seq(E)
      BY <3>1
    <3> HIDE DEF E, F
    <3>4. Head(mtevtQ) \in E
      BY <2>1, <3>3
    <3>5. evt' \in F
      BY <2>1, <3>2, <3>4
    <3> QED  BY <3>5 DEF F
  <2>3. TypeOK' /\ pc'["agvcp"] \in AgvcpPlaces /\ pc'["agv"] \in AgvPlaces
    BY <1>0, <2>1, <2>2 DEF TypeOK, Places, AgvPlaces
  <2>4. \A t \in Issuers : (Busy(t)' => Busy(t)) /\ (pc'[t] = "lock" => pc[t] = "lock")
    BY <1>0, <2>1 DEF Busy, Undecided
  <2> QED  BY <2>1, <2>3, <2>4 DEF CmdForms, PlanFits
<1>3. CASE AgvPop
  <2>0. UNCHANGED <<evtVars, left, lockVars, moveVars, planVars, faults>>
    BY <1>3 DEF AgvPop
  <2>1. CASE mtcmdQ = <<>>
    <3>1. pc' = [pc EXCEPT !["agv"] = "report"] /\ UNCHANGED <<mtcmdQ, cur>>
      BY <1>3, <2>1 DEF AgvPop
    <3>2. TypeOK' /\ pc'["agvcp"] \in AgvcpPlaces /\ pc'["agv"] \in AgvPlaces
      BY <1>0, <2>0, <3>1 DEF TypeOK, Places, AgvPlaces
    <3>3. \A t \in Issuers : (Busy(t)' => Busy(t)) /\ (pc'[t] = "lock" => pc[t] = "lock")
      BY <1>0, <3>1 DEF Busy, Undecided
    <3> QED  BY <2>0, <3>1, <3>2, <3>3 DEF CmdForms, PlanFits
  <2>2. CASE mtcmdQ # <<>>
    <3>1. /\ mtcmdQ' = Tail(mtcmdQ) /\ cur' = [cur EXCEPT !["agv"] = Head(mtcmdQ)]
          /\ \/ pc' = [pc EXCEPT !["agv"] = "check"]
             \/ pc' = [pc EXCEPT !["agv"] = "postback"]
      BY <1>3, <2>2 DEF AgvPop
    <3>2. Head(mtcmdQ) \in Route /\ Tail(mtcmdQ) \in Seq(Route) /\ Form(Head(mtcmdQ))
      <4>1. 1 \in DOMAIN mtcmdQ /\ Head(mtcmdQ) = mtcmdQ[1]
        BY <1>0, <2>2
      <4> QED  BY <1>0, <2>2, <4>1 DEF CmdForms
    <3>3. \A i \in DOMAIN mtcmdQ' : Form(mtcmdQ'[i])
      <4>1. \A i \in DOMAIN mtcmdQ' : i + 1 \in DOMAIN mtcmdQ /\ mtcmdQ'[i] = mtcmdQ[i + 1]
        BY <1>0, <2>2, <3>1
      <4> QED  BY <4>1 DEF CmdForms
    <3>4. TypeOK' /\ pc'["agvcp"] \in AgvcpPlaces /\ pc'["agv"] \in AgvPlaces
      BY <1>0, <2>0, <3>1, <3>2 DEF TypeOK, Places, AgvPlaces
    <3>5. /\ (Busy("agvcp")' => Busy("agvcp")) /\ cur'["agvcp"] = cur["agvcp"]
          /\ (pc'["agvcp"] = "lock" => pc["agvcp"] = "lock") /\ pc'["agv"] # "lock"
          /\ cur'["agv"] = Head(mtcmdQ)
      BY <1>0, <3>1 DEF Busy, Undecided
    <3>6. CmdForms'
      BY <1>0, <3>2, <3>3, <3>5 DEF CmdForms
    <3> QED  BY <1>0, <2>0, <3>2, <3>4, <3>5, <3>6 DEF PlanFits
  <2> QED  BY <2>1, <2>2
<1>4. CASE AgvPostBack
  <2>1. cur["agv"] \in Route /\ Form(cur["agv"])
    BY <1>0, <1>4 DEF AgvPostBack, Busy, Undecided, CmdForms
  <2>2. /\ pc' = [pc EXCEPT !["agv"] = "report"] /\ mtcmdQ' = <<cur["agv"]>> \o mtcmdQ
        /\ UNCHANGED <<evtVars, cur, left, lockVars, moveVars, planVars, faults>>
    BY <1>4 DEF AgvPostBack
  <2>3. <<cur["agv"]>> \in Seq(Route) /\ Len(<<cur["agv"]>>) = 1 /\ <<cur["agv"]>>[1] = cur["agv"]
    BY <2>1
  <2>4. mtcmdQ' \in Seq(Route) /\ \A i \in DOMAIN mtcmdQ' : Form(mtcmdQ'[i])
    <3>1. mtcmdQ' \in Seq(Route) /\ Len(mtcmdQ') = 1 + Len(mtcmdQ)
      BY <1>0, <2>2, <2>3, ConcatProperties
    <3>2. ASSUME NEW i \in DOMAIN mtcmdQ' PROVE Form(mtcmdQ'[i])
      <4>1. i \in 1 .. Len(mtcmdQ) + 1
        BY <1>0, <3>1, <3>2
      <4>2. mtcmdQ'[i] = IF i <= 1 THEN cur["agv"] ELSE mtcmdQ[i - 1]
        BY <1>0, <2>2, <2>3, <4>1, ConcatProperties
      <4>3. i > 1 => i - 1 \in DOMAIN mtcmdQ
        BY <1>0, <4>1
      <4> QED  BY <2>1, <4>1, <4>2, <4>3 DEF CmdForms
    <3> QED  BY <3>1, <3>2
  <2>5. TypeOK' /\ pc'["agvcp"] \in AgvcpPlaces /\ pc'["agv"] \in AgvPlaces
    BY <1>0, <2>2, <2>4 DEF TypeOK, Places, AgvPlaces
  <2>6. \A t \in Issuers : (Busy(t)' => Busy(t)) /\ (pc'[t] = "lock" => pc[t] = "lock")
    BY <1>0, <2>2 DEF Busy, Undecided
  <2> QED  BY <2>2, <2>4, <2>5, <2>6 DEF CmdForms, PlanFits
<1>5. CASE AgvReport
  <2>1. /\ pc' = [pc EXCEPT !["agv"] = "idle"] /\ evt' = NoEvt /\ open' = open \ evt.ids
        /\ UNCHANGED <<cmdVars, mtevtQ, cur, left, lockVars, moveVars, planEnd, sent, faults>>
    BY <1>5 DEF AgvReport
  <2>2. evt' \in [kind : {"over", "arrival", "none"}, ids : SUBSET Ids]
    BY <2>1 DEF NoEvt
  <2>3. TypeOK' /\ pc'["agvcp"] \in AgvcpPlaces /\ pc'["agv"] \in AgvPlaces
    BY <1>0, <2>1, <2>2 DEF TypeOK, Places, AgvPlaces
  <2>4. \A t \in Issuers : (Busy(t)' => Busy(t)) /\ (pc'[t] = "lock" => pc[t] = "lock")
    BY <1>0, <2>1 DEF Busy, Undecided
  <2> QED  BY <2>1, <2>3, <2>4 DEF CmdForms, PlanFits
<1> QED  BY <1>1, <1>2, <1>3, <1>4, <1>5

LEMMA MotionTyped ==
    ASSUME Typed, MoveEnd \/ Passing \/ UNCHANGED vars
    PROVE  Typed'
<1> USE DEF Typed, cmdVars, evtVars, taskVars, lockVars, moveVars, planVars, faults
<1>1. UNCHANGED <<mtcmdQ, pc, cur, left, open, planEnd, sent, last_ponit, refused>>
  BY DEF MoveEnd, Passing, PassPoint, vars
<1>2. (\A t \in Issuers : Busy(t)' = Busy(t)) /\ CmdForms' /\ PlanFits'
  BY <1>1 DEF Busy, CmdForms, PlanFits
<1> DEFINE E == [kind : {"over", "arrival"}, ids : SUBSET Ids]
<1>3. mtevtQ \in Seq(E) /\ ahead \in Seq(Points) /\ wpQ \in Seq(Points) /\ running \subseteq Ids
  BY DEF TypeOK
<1>4. CASE MoveEnd
  <2>1. mtevtQ' = Append(mtevtQ, [kind |-> "over", ids |-> running])
    BY <1>4 DEF MoveEnd
  <2>2. [kind |-> "over", ids |-> running] \in E
    BY <1>3
  <2>3. mtevtQ' \in Seq(E)
    BY <1>3, <2>1, <2>2
  <2>4. TypeOK'
    BY <1>4, <2>3 DEF TypeOK, MoveEnd
  <2> QED  BY <1>1, <1>2, <2>4
<1>5. CASE Passing
  <2>1. PICK code \in Points \cup {Stray} : PassPoint(code)
    BY <1>5 DEF Passing
  <2>2. /\ ahead # <<>> /\ ahead' = Tail(ahead)
        /\ wpQ' = wpQ \/ (wpQ # <<>> /\ wpQ' = Tail(wpQ))
    BY <2>1 DEF PassPoint, InReach, Release
  <2>3. ahead' \in Seq(Points) /\ wpQ' \in Seq(Points) /\ Len(wpQ') <= Len(wpQ)
    <3>1. ahead' \in Seq(Points)
      BY <1>3, <2>2
    <3>2. CASE wpQ' = wpQ
      BY <1>3, <3>1, <3>2
    <3>3. CASE wpQ # <<>> /\ wpQ' = Tail(wpQ)
      BY <1>3, <3>1, <3>3
    <3> QED  BY <2>2, <3>2, <3>3
  <2>4. mtevtQ' \in Seq(E)
    <3>1. mtevtQ' = Append(mtevtQ, [kind |-> "arrival", ids |-> {}])
      BY <2>1 DEF PassPoint
    <3>2. [kind |-> "arrival", ids |-> {}] \in E
      OBVIOUS
    <3> QED  BY <1>3, <3>1, <3>2
  <2>5. strays' \in 0 .. MaxStrays /\ alarms' \subseteq {"start", "code"}
    <3>1. strays' \in {strays, strays + 1} /\ strays' <= MaxStrays
      BY <2>1 DEF PassPoint
    <3>2. strays \in Nat /\ MaxStrays \in Nat
      BY DEF TypeOK
    <3>3. strays' \in 0 .. MaxStrays
      BY <3>1, <3>2
    <3>4. alarms' \in {alarms, alarms \cup {"code"}}
      BY <2>1 DEF PassPoint, Release
    <3> QED  BY <3>3, <3>4 DEF TypeOK
  <2>6. Len(wpQ') <= WpSlots
    <3>1. Len(wpQ) <= WpSlots /\ Len(wpQ) \in Nat /\ Len(wpQ') \in Nat
      BY <1>3, <2>3 DEF TypeOK
    <3> QED  BY <2>3, <3>1
  <2>7. UNCHANGED <<evt, Motionstyle, typeOfAction, running>>
    BY <2>1 DEF PassPoint
  <2>8. TypeOK'
    BY <1>1, <2>3, <2>4, <2>5, <2>6, <2>7 DEF TypeOK
  <2> QED  BY <1>1, <1>2, <2>8
<1>6. CASE UNCHANGED vars
  <2>1. TypeOK'
    BY <1>6 DEF vars, TypeOK
  <2> QED  BY <1>1, <1>2, <2>1
<1> QED  BY <1>4, <1>5, <1>6

LEMMA NextTyped == Typed /\ [Next]_vars => Typed'
<1> SUFFICES ASSUME Typed, [Next]_vars PROVE Typed'
  OBVIOUS
<1>1. TypeOK
  BY DEF Typed
<1> QED  BY <1>1, Steps, CmdStepTyped, ReceiveTyped, QueueTyped, MotionTyped

(* Every variable of the lock points keeps its type, wpQ its slots.        *)
THEOREM TypeCorrect == Spec => []TypeOK
<1>1. Typed => TypeOK
  BY DEF Typed
<1> QED  BY <1>1, InitTyped, NextTyped, PTL DEF Spec

-----------------------------------------------------------------------------
(* Who has which command, and which are over.                              *)

GateInv == OneAtATime /\ Books /\ EventForms /\ Before /\ Wheels /\ AheadFits

(* The ids of the events queued, when one comes and when one is taken.     *)
LEMMA OverAppend ==
    ASSUME TypeOK, NEW e, mtevtQ' = Append(mtevtQ, e)
    PROVE  /\ OverIds' = OverIds \cup e.ids
           /\ \A i \in DOMAIN mtevtQ' :
                 \/ i \in DOMAIN mtevtQ /\ mtevtQ'[i] = mtevtQ[i] /\ i < Len(mtevtQ) + 1
                 \/ i = Len(mtevtQ) + 1 /\ mtevtQ'[i] = e
<1>1. Len(mtevtQ) \in Nat /\ DOMAIN mtevtQ = 1 .. Len(mtevtQ)
  BY DEF TypeOK
<1>2. /\ DOMAIN mtevtQ' = 1 .. Len(mtevtQ) + 1 /\ mtevtQ'[Len(mtevtQ) + 1] = e
      /\ \A i \in 1 .. Len(mtevtQ) : mtevtQ'[i] = mtevtQ[i]
  BY <1>1 DEF TypeOK
<1>3. \A i \in DOMAIN mtevtQ' :
         \/ i \in DOMAIN mtevtQ /\ mtevtQ'[i] = mtevtQ[i] /\ i < Len(mtevtQ) + 1
         \/ i = Len(mtevtQ) + 1 /\ mtevtQ'[i] = e
  BY <1>1, <1>2
<1>4. \A i \in DOMAIN mtevtQ : i \in DOMAIN mtevtQ' /\ mtevtQ'[i] = mtevtQ[i]
  BY <1>1, <1>2
<1>5. Len(mtevtQ) + 1 \in DOMAIN mtevtQ'
  BY <1>1, <1>2
<1>6. OverIds' = OverIds \cup e.ids
  BY <1>2, <1>3, <1>4, <1>5 DEF OverIds
<1> QED  BY <1>3, <1>6

LEMMA OverTail ==
    ASSUME TypeOK, mtevtQ # <<>>, mtevtQ' = Tail(mtevtQ),
           \A i, j \in DOMAIN mtevtQ : i # j => mtevtQ[i].ids \cap mtevtQ[j].ids = {}
    PROVE  /\ OverIds = OverIds' \cup Head(mtevtQ).ids /\ OverIds' \cap Head(mtevtQ).ids = {}
           /\ \A i \in DOMAIN mtevtQ' : i + 1 \in DOMAIN mtevtQ /\ mtevtQ'[i] = mtevtQ[i + 1]
           /\ \A i, j \in DOMAIN mtevtQ' : i # j => mtevtQ'[i].ids \cap mtevtQ'[j].ids = {}
           /\ 1 \in DOMAIN mtevtQ /\ Head(mtevtQ) = mtevtQ[1]
<1>1. Len(mtevtQ) \in Nat /\ DOMAIN mtevtQ = 1 .. Len(mtevtQ) /\ Len(mtevtQ) >= 1
  BY DEF TypeOK
<1>2. /\ DOMAIN mtevtQ' = 1 .. Len(mtevtQ) - 1
      /\ \A i \in 1 .. Len(mtevtQ) - 1 : mtevtQ'[i] = mtevtQ[i + 1]
      /\ Head(mtevtQ) = mtevtQ[1]
  BY <1>1 DEF TypeOK
<1>3. \A i \in DOMAIN mtevtQ' : i \in Nat /\ i >= 1 /\ i + 1 \in DOMAIN mtevtQ /\ mtevtQ'[i] = mtevtQ[i + 1]
  BY <1>1, <1>2
<1>4. \A i \in DOMAIN mtevtQ : i = 1 \/ (i - 1 \in DOMAIN mtevtQ' /\ mtevtQ'[i - 1] = mtevtQ[i])
  BY <1>1, <1>2
<1>5. 1 \in DOMAIN mtevtQ
  BY <1>1
<1>6. OverIds = OverIds' \cup Head(mtevtQ).ids
  BY <1>2, <1>3, <1>4, <1>5 DEF OverIds
<1>7. OverIds' \cap Head(mtevtQ).ids = {}
  <2>1. \A i \in DOMAIN mtevtQ' : mtevtQ'[i].ids \cap mtevtQ[1].ids = {}
    BY <1>3, <1>5
  <2> QED  BY <1>2, <2>1 DEF OverIds
<1>8. \A i, j \in DOMAIN mtevtQ' : i # j => mtevtQ'[i].ids \cap mtevtQ'[j].ids = {}
  <2> TAKE i, j \in DOMAIN mtevtQ'
  <2> HAVE i # j
  <2>1. i + 1 # j + 1
    BY <1>3
  <2> QED  BY <1>3, <2>1
<1> QED  BY <1>2, <1>3, <1>5, <1>6, <1>7, <1>8

LEMMA OneOpen ==
    ASSUME open \subseteq 1 .. sent, sent \in Nat, Cardinality(open) < 2
    PROVE  \A a, b \in open : a = b
<1>1. IsFiniteSet(open)
  <2>1. IsFiniteSet(1 .. sent)
    BY FS_Interval
  <2> QED  BY <2>1, FS_Subset
<1>2. ASSUME NEW a \in open, NEW b \in open, a # b PROVE FALSE
  <2>1. IsFiniteSet({a}) /\ Cardinality({a}) = 1
    BY FS_Singleton
  <2>2. Cardinality({a} \cup {b}) = 2
    BY <1>2, <2>1, FS_AddElement
  <2>3. {a} \cup {b} \subseteq open
    BY <1>2
  <2>4. Cardinality({a} \cup {b}) <= Cardinality(open) /\ Cardinality(open) \in Nat
    BY <1>1, <2>3, FS_Subset, FS_CardinalityType
  <2> QED  BY <2>2, <2>4
<1> QED  BY <1>2

GateUnchanged == <<mtcmdQ, mtevtQ, evt, cur, open, sent, running, Motionstyle, ahead>>

(* The steps of a command up to the movement, and while points are locked. *)
LEMMA HandKept ==
    ASSUME Typed, GateInv, NEW t \in Issuers, UNCHANGED GateUnchanged,
           pc[t] \in {"check", "gate", "lock"}, pc' \in [Issuers -> Places],
           \A u \in Issuers : u # t => pc'[u] = pc[u],
           pc'[t] \in {"gate", "denied", "delay", "commit", "lock", Home(t)},
           pc'[t] = "lock" => pc[t] = "lock",
           pc[t] = "lock" => pc'[t] \in {"lock", Home(t)},
           pc'[t] = "denied" => t = "agvcp" /\ Motionstyle # "ONSTOPING",
           pc'[t] = "delay" => Motionstyle = "ONSTOPING",
           pc'[t] = "commit" => cur[t].act = "GOSTRAIGHT",
           \A u \in Issuers : pc'[u] # "lock" => left'[u] = <<>>
    PROVE  GateInv'
<1>0. Issuers = {"agvcp", "agv"} /\ (t = "agvcp" \/ t = "agv")
  BY DEF Issuers
<1>1. OverIds' = OverIds /\ Ended' = Ended
  BY DEF OverIds, Ended, GateUnchanged
<1>2. \A u \in Issuers : (Busy(u)' => Busy(u)) /\ (pc'[u] \in Undecided => pc[u] \in Undecided)
  BY <1>0 DEF Busy, Undecided, Home
<1>3. OneAtATime'
  BY <1>0, <1>2 DEF GateInv, OneAtATime, GateUnchanged, Home, Busy, Undecided
<1>4. Books'
  BY <1>0, <1>1, <1>2 DEF GateInv, Books, GateUnchanged, Home
<1>5. EventForms'
  BY <1>0 DEF GateInv, EventForms, GateUnchanged, Home
<1>6. Before'
  <2>1. running # {} \/ Motionstyle = "ONSTOPING"
    BY DEF GateInv, Books
  <2>2. pc'["agvcp"] = "denied" => running' \cup OverIds' # {}
    BY <1>0, <1>1, <2>1 DEF GateInv, Before, GateUnchanged
  <2>3. mtcmdQ' # <<>> => running' \cup OverIds' # {} \/ (pc'["agv"] = "pop" /\ evt'.ids # {})
    BY <1>0, <1>1 DEF GateInv, Before, GateUnchanged
  <2>4. Busy("agv")' => \E y \in Ended' : y # cur'["agv"].id
    BY <1>0, <1>1, <1>2 DEF GateInv, Before, GateUnchanged
  <2>5. pc'["agv"] = "postback" => evt'.kind = "arrival"
    BY <1>0 DEF GateInv, Before, GateUnchanged, Home
  <2> QED  BY <2>2, <2>3, <2>4, <2>5 DEF Before
<1>7. Wheels'
  BY <1>0 DEF GateInv, Wheels, GateUnchanged, Home
<1>8. AheadFits'
  BY DEF GateInv, AheadFits, GateUnchanged
<1> QED  BY <1>3, <1>4, <1>5, <1>6, <1>7, <1>8 DEF GateInv

(* The movement starts: with it no more than two routes are under way.     *)
LEMMA CommitGate ==
    ASSUME Typed, GateInv, NEW t \in Issuers, Commit(t)
    PROVE  GateInv'
<1>0. /\ Issuers = {"agvcp", "agv"} /\ (t = "agvcp" \/ t = "agv")
      /\ pc \in [Issuers -> Places] /\ left \in [Issuers -> Seq(Points)]
      /\ ahead \in Seq(Points) /\ running \subseteq Ids /\ open \subseteq Ids
  BY DEF Issuers, Typed, TypeOK
<1> DEFINE c == cur[t]
<1>1. c \in Route /\ Form(c) /\ c.id \in open \ Ended /\ c.id \in Ids
  BY <1>0 DEF Typed, GateInv, Books, Commit, Busy, Undecided, CmdForms
<1>2. /\ Motionstyle' = c.act /\ ahead' = ahead \o PointsOf(c) /\ running' = running \cup {c.id}
      /\ left' = [left EXCEPT ![t] = PointsOf(c)]
      /\ pc[t] \in {"delay", "commit"}
      /\ pc' = [pc EXCEPT ![t] = IF c.act \in Straights THEN "lock" ELSE Home(t)]
      /\ UNCHANGED <<mtcmdQ, mtevtQ, evt, cur, open, sent>>
  BY DEF Commit, Goto, cmdVars, evtVars, planVars
<1>3. PointsOf(c) \in Seq(Points) /\ Len(PointsOf(c)) = Len(c.path) /\ c.act \in AllActs
      /\ Len(c.path) \in Nat /\ Len(c.path) <= MaxPath /\ (c.act \notin Straights => c.path = <<>>)
  <2>1. PointsOf(c) \in Seq(Points) /\ Len(PointsOf(c)) = Len(c.path) /\ c.path \in Seq(Sent)
    BY <1>1, PointsOfIs
  <2> QED  BY <1>1, <2>1 DEF Form, Route
<1> HIDE DEF c
<1>4. OverIds' = OverIds /\ Ended' = Ended \cup {c.id} /\ running \subseteq Ended
  BY <1>2 DEF OverIds, Ended
<1>5. /\ \A u \in Issuers : u # t => pc'[u] = pc[u]
      /\ pc'[t] = (IF c.act \in Straights THEN "lock" ELSE Home(t))
      /\ pc' \in [Issuers -> {pc'[u] : u \in Issuers}]
  BY <1>0, <1>2
<1>6. \A u \in Issuers : (Busy(u)' => Busy(u)) /\ (pc'[u] \in Undecided => u # t /\ pc[u] \in Undecided)
  BY <1>0, <1>2, <1>5 DEF Busy, Undecided, Home
<1>7. \A u \in Issuers : u # t => ~Busy(u)
  BY <1>0, <1>2 DEF GateInv, OneAtATime, Busy, Undecided
<1>8. mtcmdQ = <<>>
  BY <1>0, <1>2 DEF GateInv, OneAtATime, Busy, Undecided
<1>9. OneAtATime'
  BY <1>0, <1>2, <1>5, <1>6, <1>7, <1>8 DEF GateInv, OneAtATime, Home, Busy, Undecided
<1>10. Books'
  <2>1. Ended' \subseteq open' /\ open' \subseteq 1 .. sent'
        /\ \A x, y, z \in open' : x = y \/ x = z \/ y = z
    BY <1>1, <1>2, <1>4 DEF GateInv, Books
  <2>2. running' \cap (OverIds' \cup evt'.ids) = {} /\ OverIds' \cap evt'.ids = {}
    BY <1>1, <1>2, <1>4 DEF GateInv, Books, Ended
  <2>3. \A i, j \in DOMAIN mtevtQ' : i # j => mtevtQ'[i].ids \cap mtevtQ'[j].ids = {}
    BY <1>2 DEF GateInv, Books
  <2>4. \A u \in Issuers : pc'[u] \notin Undecided
    BY <1>6, <1>7 DEF Busy
  <2>5. pc'["agv"] = "lock" => cur'["agv"].id \in open'
    BY <1>0, <1>1, <1>2, <1>5 DEF GateInv, Books, c
  <2>6. running' # {} /\ Motionstyle' # "ONSTOPING"
    BY <1>2, <1>3 DEF AllActs, Straights
  <2> QED  BY <1>2, <1>8, <2>1, <2>2, <2>3, <2>4, <2>5, <2>6 DEF Books
<1>11. EventForms'
  <2>1. \A u \in Issuers : u = t => pc'[u] \in {"lock", "report"} \/ u = "agvcp"
    BY <1>5 DEF Home
  <2>2. pc'["agv"] \in {"idle", "pop"} => pc["agv"] = pc'["agv"]
    BY <1>0, <1>5, <2>1
  <2> QED  BY <1>2, <2>2 DEF GateInv, EventForms
<1>12. Before'
  <2>1. pc'["agvcp"] # "denied" /\ pc'["agv"] # "postback"
    BY <1>0, <1>6, <1>7 DEF Busy, Undecided
  <2>2. mtcmdQ' = <<>>
    BY <1>2, <1>8
  <2>3. Busy("agv")' => \E y \in Ended' : y # cur'["agv"].id
    BY <1>0, <1>2, <1>4, <1>6 DEF GateInv, Before
  <2> QED  BY <2>1, <2>2, <2>3 DEF Before
<1>13. Wheels'
  <2>1. \A u \in Issuers : pc'[u] \notin {"delay", "commit"}
    BY <1>6, <1>7 DEF Busy, Undecided
  <2>2. \A u \in Issuers : pc'[u] = "lock" => cur'[u].act \in Straights
    BY <1>0, <1>2, <1>5 DEF GateInv, Wheels, c, Home
  <2>3. \A u \in Issuers : pc'[u] # "lock" => left'[u] = <<>>
    <3>1. c.act \notin Straights => PointsOf(c) = <<>>
      <4>1. c.act \notin Straights => Len(PointsOf(c)) = 0
        BY <1>3
      <4> QED  BY <1>3, <4>1
    <3> QED  BY <1>0, <1>2, <1>5, <3>1 DEF GateInv, Wheels
  <2> QED  BY <2>1, <2>2, <2>3 DEF Wheels
<1>14. AheadFits'
  <2>1. Len(ahead') = Len(ahead) + Len(c.path) /\ Len(ahead) \in Nat /\ ahead' \in Seq(Points)
    <3>1. /\ ahead \o PointsOf(c) \in Seq(Points)
          /\ Len(ahead \o PointsOf(c)) = Len(ahead) + Len(PointsOf(c))
      BY <1>0, <1>3, ConcatProperties
    <3>2. Len(ahead) \in Nat
      BY <1>0
    <3> QED  BY <1>2, <1>3, <3>1, <3>2
  <2>2. c.id \notin running
    BY <1>1, <1>4
  <2>3. PICK y \in Ids : running \subseteq {y}
    <3>1. ASSUME NEW x \in running, NEW z \in running PROVE x = z
      <4>1. x \in open /\ z \in open /\ c.id \in open
        BY <1>1, <1>4 DEF GateInv, Books
      <4> QED  BY <2>2, <4>1 DEF GateInv, Books
    <3>2. CASE running = {}
      BY <1>1, <3>2
    <3>3. CASE running # {}
      <4>1. PICK x \in running : TRUE
        BY <3>3
      <4> QED  BY <1>0, <3>1, <4>1
    <3> QED  BY <3>2, <3>3
  <2>4. Len(ahead) <= MaxPath
    BY <2>3 DEF GateInv, AheadFits
  <2>5. Len(ahead') <= 2 * MaxPath
    BY <1>3, <2>1, <2>4
  <2>6. \A z \in Ids : running' \subseteq {z} => Len(ahead') <= MaxPath
    <3> TAKE z \in Ids
    <3> HAVE running' \subseteq {z}
    <3>1. running = {}
      BY <1>2, <2>2
    <3>2. ahead = <<>>
      BY <3>1 DEF GateInv, Books, AheadFits, Straights
    <3>3. Len(ahead) = 0
      BY <3>2
    <3> QED  BY <1>3, <2>1, <3>3
  <2>7. Motionstyle' \in Straights \/ ahead' = <<>>
    <3>1. CASE c.act \in Straights
      BY <1>2, <3>1
    <3>2. CASE c.act \notin Straights
      <4>1. pc[t] = "delay"
        BY <1>2, <3>2 DEF GateInv, Wheels, Straights, c
      <4>2. ahead = <<>>
        BY <4>1 DEF GateInv, Wheels, AheadFits, Straights
      <4>3. Len(c.path) = 0 /\ Len(ahead) = 0
        BY <1>3, <3>2, <4>2
      <4>4. Len(ahead') = 0
        BY <2>1, <4>3
      <4> QED  BY <2>1, <4>4
    <3> QED  BY <3>1, <3>2
  <2> QED  BY <2>5, <2>6, <2>7 DEF AheadFits
<1> QED  BY <1>9, <1>10, <1>11, <1>12, <1>13, <1>14 DEF GateInv

(* A step of a command in hand, whichever it is.                           *)
LEMMA CmdStepGate ==
    ASSUME Typed, GateInv, NEW t \in Issuers, CmdStep(t)
    PROVE  GateInv'
<1>0. /\ Issuers = {"agvcp", "agv"} /\ (t = "agvcp" \/ t = "agv")
      /\ pc \in [Issuers -> Places] /\ left \in [Issuers -> Seq(Points)]
      /\ \A u \in Issuers : pc[u] # "lock" => left[u] = <<>>
  BY DEF Issuers, Typed, TypeOK, GateInv, Wheels
<1>1. CASE Commit(t)
  BY <1>1, CommitGate
<1>2. CASE Check(t) \/ Gate(t) \/ Lock(t) \/ Locked(t)
  <2>1. UNCHANGED GateUnchanged
    BY <1>2 DEF Check, Gate, Lock, Locked, GateUnchanged, cmdVars, evtVars, moveVars, planVars
  <2>2. /\ pc[t] \in {"check", "gate", "lock"}
        /\ pc' \in [Issuers -> Places] /\ \A u \in Issuers : u # t => pc'[u] = pc[u]
        /\ pc'[t] \in {"gate", "denied", "delay", "commit", "lock", Home(t)}
        /\ pc'[t] = "lock" => pc[t] = "lock"
        /\ pc[t] = "lock" => pc'[t] \in {"lock", Home(t)}
    BY <1>0, <1>2 DEF Check, Gate, Lock, Locked, Goto, Home, Places
  <2>3. /\ pc'[t] = "denied" => t = "agvcp" /\ Motionstyle # "ONSTOPING"
        /\ pc'[t] = "delay" => Motionstyle = "ONSTOPING"
        /\ pc'[t] = "commit" => cur[t].act = "GOSTRAIGHT"
    BY <1>0, <1>2 DEF Check, Gate, Lock, Locked, Goto, Home, Denied
  <2>4. \A u \in Issuers : pc'[u] # "lock" => left'[u] = <<>>
    BY <1>0, <1>2, <2>2 DEF Check, Gate, Lock, Locked, Goto, Home
  <2> QED  BY <2>1, <2>2, <2>3, <2>4, HandKept
<1> QED  BY <1>1, <1>2 DEF CmdStep

(* A route arrives only when the one open is with nobody any more.         *)
LEMMA ReceiveAlone ==
    ASSUME TwoOpen, Typed, GateInv, Receiving
    PROVE  mtcmdQ = <<>> /\ ~Busy("agv") /\ \A x, y \in open : x = y
<1>1. \A x, y \in open : x = y
  <2>1. Cardinality(open) < Window /\ open \subseteq 1 .. sent /\ sent \in Nat
    BY DEF Receiving, Receive, GateInv, Books, Typed, TypeOK
  <2>2. Cardinality(open) < 2
    <3>1. IsFiniteSet(open)
      <4>1. IsFiniteSet(1 .. sent)
        BY <2>1, FS_Interval
      <4> QED  BY <2>1, <4>1, FS_Subset
    <3>2. Cardinality(open) \in Nat
      BY <3>1, FS_CardinalityType
    <3> QED  BY <2>1, <3>2 DEF TwoOpen
  <2> QED  BY <2>1, <2>2, OneOpen
<1>2. Issuers = {"agvcp", "agv"}
  BY DEF Issuers
<1>3. ASSUME Busy("agv") PROVE FALSE
  <2>1. cur["agv"].id \in open
    BY <1>2, <1>3 DEF GateInv, Books, Busy
  <2>2. PICK y \in Ended : y # cur["agv"].id
    BY <1>3 DEF GateInv, Before
  <2>3. y \in open
    BY <2>2 DEF GateInv, Books
  <2> QED  BY <1>1, <2>1, <2>2, <2>3
<1>4. ASSUME mtcmdQ # <<>> PROVE FALSE
  <2>1. 1 \in DOMAIN mtcmdQ
    BY <1>4 DEF Typed, TypeOK
  <2>2. mtcmdQ[1].id \in open \ Ended
    BY <2>1 DEF GateInv, Books
  <2>3. Ended # {}
    BY <1>4 DEF GateInv, Before, Ended
  <2>4. PICK y \in Ended : TRUE
    BY <2>3
  <2>5. y \in open
    BY <2>4 DEF GateInv, Books
  <2> QED  BY <1>1, <2>2, <2>4, <2>5
<1> QED  BY <1>1, <1>3, <1>4

LEMMA ReceiveGate ==
    ASSUME TwoOpen, Typed, GateInv, Receiving
    PROVE  GateInv'
<1>1. PICK a \in Acts, n \in 1 .. MaxPath, wild \in BOOLEAN : Receive(a, n, wild)
  BY DEF Receiving
<1>2. mtcmdQ = <<>> /\ ~Busy("agv") /\ \A x, y \in open : x = y
  BY ReceiveAlone
<1>3. /\ Issuers = {"agvcp", "agv"} /\ pc \in [Issuers -> Places] /\ sent \in Nat
      /\ cur \in [Issuers -> Route \cup {NoRoute}]
  BY DEF Issuers, Typed, TypeOK
<1> DEFINE c == Plan(a, n, wild)
<1>4. /\ cur' = [cur EXCEPT !["agvcp"] = c] /\ pc' = [pc EXCEPT !["agvcp"] = "check"]
      /\ pc["agvcp"] = "idle"
      /\ UNCHANGED <<mtcmdQ, mtevtQ, evt, left, running, Motionstyle, ahead>>
      /\ sent' = sent + 1 /\ open' = open \cup {sent + 1}
  BY <1>1, <1>2 DEF Receive, Goto, evtVars, moveVars
<1>5. c.id = sent + 1
  BY DEF Plan
<1> HIDE DEF c
<1>6. OverIds' = OverIds /\ Ended' = Ended
  BY <1>4 DEF OverIds, Ended
<1>7. /\ pc'["agvcp"] = "check" /\ cur'["agvcp"] = c
      /\ pc'["agv"] = pc["agv"] /\ cur'["agv"] = cur["agv"]
  BY <1>3, <1>4
<1>8. pc["agv"] \notin Undecided \cup {"lock"} /\ ~Busy("agv")'
  BY <1>2, <1>7 DEF Busy
<1>9. OneAtATime'
  BY <1>2, <1>4, <1>8 DEF OneAtATime
<1>10. Books'
  <2>1. sent + 1 \notin open /\ sent + 1 \notin Ended
    BY <1>3 DEF GateInv, Books
  <2>2. open' \subseteq 1 .. sent'
    <3>1. open \subseteq 1 .. sent
      BY DEF GateInv, Books
    <3>2. \A x \in 1 .. sent : x \in 1 .. sent + 1
      BY <1>3
    <3>3. sent + 1 \in 1 .. sent + 1
      BY <1>3
    <3> QED  BY <1>4, <3>1, <3>2, <3>3
  <2>3. \A x, y, z \in open' : x = y \/ x = z \/ y = z
    BY <1>2, <1>4
  <2>4. \A t \in Issuers : pc'[t] \in Undecided => cur'[t].id \in open' \ Ended'
    BY <1>3, <1>4, <1>5, <1>6, <1>7, <1>8, <2>1 DEF GateInv, Books
  <2>5. Ended' \subseteq open' /\ running' \cap (OverIds' \cup evt'.ids) = {} /\ OverIds' \cap evt'.ids = {}
    BY <1>4, <1>6 DEF GateInv, Books
  <2>6. /\ \A i, j \in DOMAIN mtevtQ' : i # j => mtevtQ'[i].ids \cap mtevtQ'[j].ids = {}
        /\ running' = {} <=> Motionstyle' = "ONSTOPING"
    BY <1>4 DEF GateInv, Books
  <2>7. DOMAIN mtcmdQ' = {} /\ pc'["agv"] # "lock"
    BY <1>2, <1>4, <1>7, <1>8
  <2> QED  BY <2>2, <2>3, <2>4, <2>5, <2>6, <2>7 DEF Books
<1>11. EventForms' /\ Before'
  BY <1>2, <1>4, <1>7, <1>8 DEF GateInv, EventForms, Before, Undecided
<1>12. Wheels'
  BY <1>3, <1>4, <1>7 DEF GateInv, Wheels
<1>13. AheadFits'
  BY <1>4 DEF GateInv, AheadFits
<1> QED  BY <1>9, <1>10, <1>11, <1>12, <1>13 DEF GateInv

LEMMA AppendDeniedGate ==
    ASSUME Typed, GateInv, AppendDenied
    PROVE  GateInv'
<1>1. /\ Issuers = {"agvcp", "agv"} /\ pc \in [Issuers -> Places] /\ mtcmdQ \in Seq(Route)
      /\ cur["agvcp"] \in Route /\ mtcmdQ = <<>> /\ ~Busy("agv")
  BY DEF Issuers, Typed, TypeOK, AppendDenied, Busy, Undecided, GateInv, OneAtATime
<1>2. /\ pc["agvcp"] = "denied" /\ pc' = [pc EXCEPT !["agvcp"] = "idle"]
      /\ mtcmdQ' = Append(mtcmdQ, cur["agvcp"])
      /\ UNCHANGED <<mtevtQ, evt, cur, left, running, Motionstyle, ahead, sent, open>>
  BY DEF AppendDenied, Goto, evtVars, moveVars, planVars
<1>3. OverIds' = OverIds /\ Ended' = Ended
  BY <1>2 DEF OverIds, Ended
<1>4. Len(mtcmdQ') = 1 /\ DOMAIN mtcmdQ' = {1} /\ mtcmdQ'[1] = cur["agvcp"]
  BY <1>1, <1>2
<1>5. pc'["agvcp"] = "idle" /\ pc'["agv"] = pc["agv"] /\ ~Busy("agvcp")' /\ ~Busy("agv")'
  BY <1>1, <1>2 DEF Busy, Undecided
<1>6. OneAtATime'
  BY <1>4, <1>5 DEF OneAtATime
<1>7. Books'
  <2>1. cur["agvcp"].id \in open \ Ended
    BY <1>1, <1>2 DEF GateInv, Books, Undecided
  <2>2. \A i \in DOMAIN mtcmdQ' : mtcmdQ'[i].id \in open' \ Ended'
    BY <1>2, <1>3, <1>4, <2>1
  <2>3. \A t \in Issuers : pc'[t] \notin Undecided
    BY <1>1, <1>5 DEF Busy
  <2> QED  BY <1>2, <1>3, <1>5, <2>2, <2>3 DEF GateInv, Books, Busy
<1>8. EventForms' /\ Before'
  BY <1>2, <1>3, <1>5 DEF GateInv, EventForms, Before, Busy, Undecided
<1>9. Wheels'
  BY <1>1, <1>2, <1>5 DEF GateInv, Wheels
<1>10. AheadFits'
  BY <1>2 DEF GateInv, AheadFits
<1> QED  BY <1>6, <1>7, <1>8, <1>9, <1>10 DEF GateInv

(* agv takes an event: what is over moves into its hands.                  *)
LEMMA AgvPendGate ==
    ASSUME Typed, GateInv, AgvPend
    PROVE  GateInv'
<1>1. /\ Issuers = {"agvcp", "agv"} /\ pc \in [Issuers -> Places] /\ TypeOK
      /\ evt = NoEvt /\ evt.ids = {} /\ pc["agv"] = "idle"
  BY DEF Issuers, Typed, TypeOK, AgvPend, GateInv, EventForms, NoEvt
<1>2. /\ pc' = [pc EXCEPT !["agv"] = "pop"] /\ evt' = Head(mtevtQ) /\ mtevtQ' = Tail(mtevtQ)
      /\ mtevtQ # <<>> /\ pc["agvcp"] \in {"idle", "delay"}
      /\ UNCHANGED <<mtcmdQ, cur, left, running, Motionstyle, ahead, sent, open>>
  BY DEF AgvPend, Goto, MayTrace, cmdVars, moveVars, planVars
<1>3. /\ OverIds = OverIds' \cup evt'.ids /\ OverIds' \cap evt'.ids = {}
      /\ \A i \in DOMAIN mtevtQ' : i + 1 \in DOMAIN mtevtQ /\ mtevtQ'[i] = mtevtQ[i + 1]
      /\ \A i, j \in DOMAIN mtevtQ' : i # j => mtevtQ'[i].ids \cap mtevtQ'[j].ids = {}
      /\ 1 \in DOMAIN mtevtQ /\ evt' = mtevtQ[1]
  BY <1>1, <1>2, OverTail DEF GateInv, Books
<1>4. Ended' = Ended
  BY <1>1, <1>2, <1>3 DEF Ended
<1>5. pc'["agv"] = "pop" /\ pc'["agvcp"] = pc["agvcp"] /\ ~Busy("agv")' /\ Busy("agvcp")' = Busy("agvcp")
  BY <1>1, <1>2 DEF Busy, Undecided
<1>6. OneAtATime'
  BY <1>2, <1>5 DEF GateInv, OneAtATime
<1>7. Books'
  <2>1. running' \cap (OverIds' \cup evt'.ids) = {} /\ OverIds' \cap evt'.ids = {}
    BY <1>2, <1>3 DEF GateInv, Books
  <2>2. \A t \in Issuers : pc'[t] \in Undecided => cur'[t].id \in open' \ Ended'
    BY <1>1, <1>2, <1>4, <1>5 DEF GateInv, Books, Undecided
  <2>3. pc'["agv"] # "lock"
    BY <1>5
  <2>4. \A i \in DOMAIN mtcmdQ' : mtcmdQ'[i].id \in open' \ Ended'
    BY <1>2, <1>4 DEF GateInv, Books
  <2> QED  BY <1>2, <1>3, <1>4, <2>1, <2>2, <2>3, <2>4 DEF GateInv, Books
<1>8. EventForms'
  <2>1. evt'.kind \in {"over", "arrival"}
    <3> DEFINE E == [kind : {"over", "arrival"}, ids : SUBSET Ids]
    <3>1. mtevtQ \in Seq(E)
      BY DEF Typed, TypeOK
    <3>2. evt' \in E
      <4> HIDE DEF E
      <4> QED  BY <1>3, <3>1
    <3> QED  BY <3>2
  <2>2. EventForm(evt') /\ \A i \in DOMAIN mtevtQ' : EventForm(mtevtQ'[i])
    BY <1>3 DEF GateInv, EventForms
  <2>3. EventForm(evt)' /\ \A i \in DOMAIN mtevtQ' : EventForm(mtevtQ[i])'
    BY <2>2 DEF EventForm
  <2> QED  BY <1>5, <2>1, <2>3 DEF EventForms
<1>9. Before'
  <2>1. running \cup OverIds = running' \cup OverIds' \cup evt'.ids
    BY <1>2, <1>3
  <2>2. mtcmdQ' # <<>> => running' \cup OverIds' # {} \/ (pc'["agv"] = "pop" /\ evt'.ids # {})
    BY <1>1, <1>2, <1>5, <2>1 DEF GateInv, Before
  <2> QED  BY <1>2, <1>5, <2>2 DEF Before
<1>10. Wheels'
  BY <1>1, <1>2, <1>5 DEF GateInv, Wheels
<1>11. AheadFits'
  BY <1>2 DEF GateInv, AheadFits
<1> QED  BY <1>6, <1>7, <1>8, <1>9, <1>10, <1>11 DEF GateInv

(* agv takes the command that waits, ...                                   *)
LEMMA AgvPopGate ==
    ASSUME Typed, GateInv, AgvPop
    PROVE  GateInv'
<1>1. /\ Issuers = {"agvcp", "agv"} /\ pc \in [Issuers -> Places] /\ mtcmdQ \in Seq(Route)
      /\ cur \in [Issuers -> Route \cup {NoRoute}] /\ pc["agv"] = "pop"
  BY DEF Issuers, Typed, TypeOK, AgvPop
<1>2. UNCHANGED <<mtevtQ, evt, left, running, Motionstyle, ahead, sent, open>>
  BY DEF AgvPop, evtVars, moveVars, planVars
<1>3. OverIds' = OverIds /\ Ended' = Ended /\ AheadFits'
  BY <1>2 DEF OverIds, Ended, GateInv, AheadFits
<1>4. CASE mtcmdQ = <<>>
  <2>1. pc' = [pc EXCEPT !["agv"] = "report"] /\ mtcmdQ' = <<>> /\ cur' = cur
    BY <1>4 DEF AgvPop, Goto
  <2>2. /\ pc'["agv"] = "report" /\ pc'["agvcp"] = pc["agvcp"]
        /\ ~Busy("agv")' /\ Busy("agvcp")' = Busy("agvcp")
    BY <1>1, <2>1 DEF Busy, Undecided
  <2>3. OneAtATime'
    BY <2>1, <2>2 DEF OneAtATime
  <2>4. Books'
    BY <1>1, <1>2, <1>3, <1>4, <2>1, <2>2 DEF GateInv, Books, Undecided
  <2>5. EventForms' /\ Before'
    BY <1>2, <1>3, <2>1, <2>2 DEF GateInv, EventForms, Before
  <2>6. Wheels'
    BY <1>1, <1>2, <2>1, <2>2 DEF GateInv, Wheels
  <2> QED  BY <1>3, <2>3, <2>4, <2>5, <2>6 DEF GateInv
<1>5. CASE mtcmdQ # <<>>
  <2>1. /\ mtcmdQ' = Tail(mtcmdQ) /\ cur' = [cur EXCEPT !["agv"] = Head(mtcmdQ)]
        /\ \/ pc' = [pc EXCEPT !["agv"] = "check"]
           \/ pc' = [pc EXCEPT !["agv"] = "postback"] /\ evt.kind # "over"
    BY <1>5 DEF AgvPop, Goto
  <2>2. Len(mtcmdQ) = 1 /\ pc["agvcp"] = "idle"
    BY <1>5 DEF GateInv, OneAtATime
  <2>3. mtcmdQ' = <<>> /\ 1 \in DOMAIN mtcmdQ /\ Head(mtcmdQ) = mtcmdQ[1]
    BY <1>1, <1>5, <2>1, <2>2
  <2>4. /\ cur'["agv"] = mtcmdQ[1] /\ cur'["agvcp"] = cur["agvcp"]
        /\ pc'["agvcp"] = "idle" /\ pc'["agv"] \in {"check", "postback"}
        /\ (pc'["agv"] = "postback" => evt.kind # "over")
    BY <1>1, <2>1, <2>2, <2>3
  <2>5. mtcmdQ[1].id \in open \ Ended
    BY <2>3 DEF GateInv, Books
  <2>6. OneAtATime'
    BY <2>3, <2>4 DEF OneAtATime, Busy, Undecided
  <2>7. Books'
    <3>1. \A t \in Issuers : pc'[t] \in Undecided => cur'[t].id \in open' \ Ended'
      BY <1>1, <1>2, <1>3, <2>4, <2>5 DEF Undecided
    <3>2. DOMAIN mtcmdQ' = {} /\ pc'["agv"] # "lock"
      BY <2>3, <2>4
    <3> QED  BY <1>2, <1>3, <3>1, <3>2 DEF GateInv, Books
  <2>8. EventForms'
    BY <1>2, <2>4 DEF GateInv, EventForms
  <2>9. Before'
    <3>1. PICK y \in Ended : TRUE
      <4>1. running \cup OverIds # {} \/ evt.ids # {}
        BY <1>5 DEF GateInv, Before
      <4> QED  BY <4>1 DEF Ended
    <3>2. y # cur'["agv"].id /\ y \in Ended'
      BY <1>3, <2>4, <2>5, <3>1
    <3>3. evt.kind \in {"over", "arrival"}
      BY <1>1 DEF GateInv, EventForms
    <3>4. \E z \in Ended' : z # cur'["agv"].id
      BY <3>2
    <3>5. pc'["agv"] = "postback" => evt'.kind = "arrival"
      BY <1>2, <2>4, <3>3
    <3>6. pc'["agvcp"] # "denied"
      BY <2>4
    <3>7. mtcmdQ' = <<>>
      BY <2>3
    <3> QED  BY <3>4, <3>5, <3>6, <3>7 DEF Before
  <2>10. Wheels'
    <3>1. \A t \in Issuers : pc'[t] \notin {"delay", "commit", "lock"}
      BY <1>1, <2>4
    <3>2. \A t \in Issuers : left'[t] = <<>>
      BY <1>1, <1>2, <2>2 DEF GateInv, Wheels
    <3> QED  BY <3>1, <3>2 DEF Wheels
  <2> QED  BY <1>3, <2>6, <2>7, <2>8, <2>9, <2>10 DEF GateInv
<1> QED  BY <1>4, <1>5

(* ... or puts it back, ...                                                *)
LEMMA AgvPostBackGate ==
    ASSUME Typed, GateInv, AgvPostBack
    PROVE  GateInv'
<1>1. /\ Issuers = {"agvcp", "agv"} /\ pc \in [Issuers -> Places] /\ mtcmdQ \in Seq(Route)
      /\ pc["agv"] = "postback" /\ Busy("agv") /\ cur["agv"] \in Route
  BY DEF Issuers, Typed, TypeOK, AgvPostBack, Busy, Undecided
<1>2. /\ pc' = [pc EXCEPT !["agv"] = "report"] /\ mtcmdQ' = <<cur["agv"]>> \o mtcmdQ
      /\ UNCHANGED <<mtevtQ, evt, cur, left, running, Motionstyle, ahead, sent, open>>
  BY DEF AgvPostBack, Goto, evtVars, moveVars, planVars
<1>3. OverIds' = OverIds /\ Ended' = Ended
  BY <1>2 DEF OverIds, Ended
<1>4. mtcmdQ = <<>> /\ pc["agvcp"] = "idle"
  BY <1>1 DEF GateInv, OneAtATime
<1>5. mtcmdQ' = <<cur["agv"]>> /\ Len(mtcmdQ') = 1 /\ DOMAIN mtcmdQ' = {1} /\ mtcmdQ'[1] = cur["agv"]
  <2>1. <<cur["agv"]>> \in Seq(Route)
    BY <1>1
  <2>2. <<cur["agv"]>> \o <<>> = <<cur["agv"]>>
    BY <2>1, ConcatEmptySeq
  <2>3. mtcmdQ' = <<cur["agv"]>>
    BY <1>2, <1>4, <2>2
  <2> QED  BY <2>3
<1>6. /\ pc'["agv"] = "report" /\ pc'["agvcp"] = "idle" /\ ~Busy("agv")' /\ ~Busy("agvcp")'
  BY <1>1, <1>2, <1>4 DEF Busy, Undecided
<1>7. OneAtATime'
  BY <1>5, <1>6 DEF OneAtATime
<1>8. Books'
  <2>1. cur["agv"].id \in open \ Ended
    BY <1>1 DEF GateInv, Books, Undecided
  <2>2. \A i \in DOMAIN mtcmdQ' : mtcmdQ'[i].id \in open' \ Ended'
    BY <1>2, <1>3, <1>5, <2>1
  <2>3. \A t \in Issuers : pc'[t] \notin Undecided /\ pc'[t] # "lock"
    BY <1>1, <1>6 DEF Busy
  <2> QED  BY <1>2, <1>3, <1>1, <2>2, <2>3 DEF GateInv, Books
<1>9. EventForms'
  BY <1>2, <1>6 DEF GateInv, EventForms
<1>10. Before'
  <2>1. evt.ids = {}
    BY <1>1 DEF GateInv, Before, EventForms, EventForm
  <2>2. running \cup OverIds # {}
    BY <1>1, <2>1 DEF GateInv, Before, Ended
  <2> QED  BY <1>2, <1>3, <1>6, <2>2 DEF Before
<1>11. Wheels'
  BY <1>1, <1>2, <1>6 DEF GateInv, Wheels
<1>12. AheadFits'
  BY <1>2 DEF GateInv, AheadFits
<1> QED  BY <1>7, <1>8, <1>9, <1>10, <1>11, <1>12 DEF GateInv

(* ... and reports the event.                                              *)
LEMMA AgvReportGate ==
    ASSUME Typed, GateInv, AgvReport
    PROVE  GateInv'
<1>1. /\ Issuers = {"agvcp", "agv"} /\ pc \in [Issuers -> Places] /\ pc["agv"] = "report"
      /\ ~Busy("agv")
  BY DEF Issuers, Typed, TypeOK, AgvReport, Busy, Undecided
<1>2. /\ pc' = [pc EXCEPT !["agv"] = "idle"] /\ evt' = NoEvt /\ open' = open \ evt.ids
      /\ UNCHANGED <<mtcmdQ, mtevtQ, cur, left, running, Motionstyle, ahead, sent>>
  BY DEF AgvReport, Goto, cmdVars, moveVars
<1>3. OverIds' = OverIds /\ evt'.ids = {} /\ Ended' = running \cup OverIds
  BY <1>2 DEF OverIds, Ended, NoEvt
<1>4. /\ pc'["agv"] = "idle" /\ pc'["agvcp"] = pc["agvcp"]
      /\ ~Busy("agv")' /\ Busy("agvcp")' = Busy("agvcp")
  BY <1>1, <1>2 DEF Busy, Undecided
<1>5. OneAtATime'
  BY <1>1, <1>2, <1>4 DEF GateInv, OneAtATime
<1>6. Books'
  <2>1. Ended' \subseteq open'
    BY <1>2, <1>3 DEF GateInv, Books, Ended
  <2>2. open' \subseteq 1 .. sent' /\ \A x, y, z \in open' : x = y \/ x = z \/ y = z
    BY <1>2 DEF GateInv, Books
  <2>3. \A t \in Issuers : pc'[t] \in Undecided => cur'[t].id \in open' \ Ended'
    BY <1>1, <1>2, <1>3, <1>4 DEF GateInv, Books, Ended, Undecided
  <2>4. \A i \in DOMAIN mtcmdQ' : mtcmdQ'[i].id \in open' \ Ended'
    BY <1>2, <1>3 DEF GateInv, Books, Ended
  <2>5. running' \cap (OverIds' \cup evt'.ids) = {} /\ OverIds' \cap evt'.ids = {}
    BY <1>2, <1>3 DEF GateInv, Books
  <2>6. pc'["agv"] # "lock"
    BY <1>4
  <2> QED  BY <1>2, <2>1, <2>2, <2>3, <2>4, <2>5, <2>6 DEF GateInv, Books
<1>7. EventForms'
  <2>1. EventForm(evt)' /\ evt' = NoEvt
    BY <1>2 DEF EventForm, NoEvt
  <2> QED  BY <1>2, <1>4, <2>1 DEF GateInv, EventForms, EventForm
<1>8. Before'
  BY <1>1, <1>2, <1>3, <1>4 DEF GateInv, Before
<1>9. Wheels'
  BY <1>1, <1>2, <1>4 DEF GateInv, Wheels
<1>10. AheadFits'
  BY <1>2 DEF GateInv, AheadFits
<1> QED  BY <1>5, <1>6, <1>7, <1>8, <1>9, <1>10 DEF GateInv

(* The movements that ran are over together.                               *)
LEMMA MoveEndGate ==
    ASSUME Typed, GateInv, MoveEnd
    PROVE  GateInv'
<1>1. /\ Issuers = {"agvcp", "agv"} /\ TypeOK
      /\ Motionstyle # "ONSTOPING" /\ running # {} /\ (Motionstyle \in Straights => ahead = <<>>)
      /\ (Motionstyle \notin Straights => ahead = <<>>)
  BY DEF Issuers, Typed, MoveEnd, GateInv, Books, AheadFits, Straights
<1> DEFINE e == [kind |-> "over", ids |-> running]
<1>2. /\ Motionstyle' = "ONSTOPING" /\ running' = {} /\ mtevtQ' = Append(mtevtQ, e)
      /\ UNCHANGED <<mtcmdQ, evt, pc, cur, left, ahead, sent, open>>
  BY DEF MoveEnd, cmdVars, taskVars, planVars
<1>3. e.ids = running /\ e.kind = "over"
  OBVIOUS
<1> HIDE DEF e
<1>4. /\ OverIds' = OverIds \cup running
      /\ \A i \in DOMAIN mtevtQ' :
            \/ i \in DOMAIN mtevtQ /\ mtevtQ'[i] = mtevtQ[i] /\ i < Len(mtevtQ) + 1
            \/ i = Len(mtevtQ) + 1 /\ mtevtQ'[i] = e
  BY <1>1, <1>2, <1>3, OverAppend
<1>5. Ended' = Ended
  BY <1>2, <1>4 DEF Ended
<1>6. \A t \in Issuers : Busy(t)' = Busy(t)
  BY <1>2 DEF Busy
<1>7. OneAtATime'
  BY <1>1, <1>2, <1>6 DEF GateInv, OneAtATime
<1>8. Books'
  <2>1. ASSUME NEW i \in DOMAIN mtevtQ', NEW j \in DOMAIN mtevtQ', i # j
        PROVE  mtevtQ'[i].ids \cap mtevtQ'[j].ids = {}
    <3>1. \A k \in DOMAIN mtevtQ : mtevtQ[k].ids \cap running = {}
      BY DEF GateInv, Books, OverIds
    <3>2. CASE i \in DOMAIN mtevtQ /\ mtevtQ'[i] = mtevtQ[i] /\ j \in DOMAIN mtevtQ /\ mtevtQ'[j] = mtevtQ[j]
      BY <2>1, <3>2 DEF GateInv, Books
    <3>3. CASE i \in DOMAIN mtevtQ /\ mtevtQ'[i] = mtevtQ[i] /\ mtevtQ'[j] = e
      BY <1>3, <3>1, <3>3
    <3>4. CASE mtevtQ'[i] = e /\ j \in DOMAIN mtevtQ /\ mtevtQ'[j] = mtevtQ[j]
      BY <1>3, <3>1, <3>4
    <3> QED  BY <1>4, <2>1, <3>2, <3>3, <3>4
  <2>2. OverIds' \cap evt'.ids = {}
    BY <1>2, <1>4 DEF GateInv, Books
  <2>3. \A t \in Issuers : pc'[t] \in Undecided => cur'[t].id \in open' \ Ended'
    BY <1>2, <1>5 DEF GateInv, Books
  <2>4. \A i \in DOMAIN mtcmdQ' : mtcmdQ'[i].id \in open' \ Ended'
    BY <1>2, <1>5 DEF GateInv, Books
  <2>5. /\ Ended' \subseteq open' /\ open' \subseteq 1 .. sent'
        /\ \A x, y, z \in open' : x = y \/ x = z \/ y = z
        /\ pc'["agv"] = "lock" => cur'["agv"].id \in open'
    BY <1>2, <1>5 DEF GateInv, Books
  <2> QED  BY <1>2, <2>1, <2>2, <2>3, <2>4, <2>5 DEF Books
<1>9. EventForms'
  <2>1. EventForm(e) /\ \A i \in DOMAIN mtevtQ : EventForm(mtevtQ[i])
    BY <1>1, <1>3 DEF GateInv, EventForms, EventForm
  <2>2. \A i \in DOMAIN mtevtQ' : EventForm(mtevtQ'[i])
    BY <1>4, <2>1
  <2>3. EventForm(evt)' /\ \A i \in DOMAIN mtevtQ' : EventForm(mtevtQ[i])'
    BY <1>2, <2>2 DEF EventForm, GateInv, EventForms
  <2> QED  BY <1>2, <2>3 DEF GateInv, EventForms
<1>10. Before'
  <2>1. running' \cup OverIds' # {}
    BY <1>1, <1>4
  <2> QED  BY <1>1, <1>2, <1>5, <1>6, <2>1 DEF GateInv, Before, Issuers
<1>11. Wheels'
  BY <1>2 DEF GateInv, Wheels
<1>12. AheadFits'
  <2>1. ahead' = <<>> /\ Len(ahead') = 0
    BY <1>1, <1>2
  <2> QED  BY <2>1 DEF AheadFits
<1> QED  BY <1>7, <1>8, <1>9, <1>10, <1>11, <1>12 DEF GateInv

LEMMA PassingGate ==
    ASSUME Typed, GateInv, Passing
    PROVE  GateInv'
<1>1. PICK code \in Points \cup {Stray} : PassPoint(code)
  BY DEF Passing
<1>2. TypeOK /\ ahead \in Seq(Points) /\ ahead # <<>> /\ Motionstyle \in Straights
  BY <1>1 DEF Typed, TypeOK, PassPoint, InReach
<1> DEFINE e == [kind |-> "arrival", ids |-> {}]
<1>3. /\ ahead' = Tail(ahead) /\ mtevtQ' = Append(mtevtQ, e)
      /\ UNCHANGED <<mtcmdQ, evt, pc, cur, left, Motionstyle, running, sent, open>>
  BY <1>1 DEF PassPoint, cmdVars, taskVars, planVars
<1>4. e.ids = {} /\ e.kind = "arrival"
  OBVIOUS
<1> HIDE DEF e
<1>5. /\ OverIds' = OverIds
      /\ \A i \in DOMAIN mtevtQ' :
            \/ i \in DOMAIN mtevtQ /\ mtevtQ'[i] = mtevtQ[i] /\ i < Len(mtevtQ) + 1
            \/ i = Len(mtevtQ) + 1 /\ mtevtQ'[i] = e
  <2>1. OverIds' = OverIds \cup e.ids
    BY <1>2, <1>3, OverAppend
  <2> QED  BY <1>2, <1>3, <1>4, <2>1, OverAppend
<1>6. Ended' = Ended /\ \A t \in Issuers : Busy(t)' = Busy(t)
  BY <1>3, <1>5 DEF Ended, Busy
<1>7. OneAtATime'
  BY <1>3, <1>6 DEF GateInv, OneAtATime, Issuers
<1>8. Books'
  <2>1. ASSUME NEW i \in DOMAIN mtevtQ', NEW j \in DOMAIN mtevtQ', i # j
        PROVE  mtevtQ'[i].ids \cap mtevtQ'[j].ids = {}
    <3>1. CASE i \in DOMAIN mtevtQ /\ mtevtQ'[i] = mtevtQ[i] /\ j \in DOMAIN mtevtQ /\ mtevtQ'[j] = mtevtQ[j]
      BY <2>1, <3>1 DEF GateInv, Books
    <3>2. CASE mtevtQ'[i] = e \/ mtevtQ'[j] = e
      BY <1>4, <3>2
    <3> QED  BY <1>5, <2>1, <3>1, <3>2
  <2>2. /\ OverIds' \cap evt'.ids = {} /\ running' \cap (OverIds' \cup evt'.ids) = {}
        /\ running' = {} <=> Motionstyle' = "ONSTOPING"
    BY <1>3, <1>5 DEF GateInv, Books
  <2>3. \A t \in Issuers : pc'[t] \in Undecided => cur'[t].id \in open' \ Ended'
    BY <1>3, <1>6 DEF GateInv, Books
  <2>4. \A i \in DOMAIN mtcmdQ' : mtcmdQ'[i].id \in open' \ Ended'
    BY <1>3, <1>6 DEF GateInv, Books
  <2>5. /\ Ended' \subseteq open' /\ open' \subseteq 1 .. sent'
        /\ \A x, y, z \in open' : x = y \/ x = z \/ y = z
        /\ pc'["agv"] = "lock" => cur'["agv"].id \in open'
    BY <1>3, <1>6 DEF GateInv, Books
  <2> QED  BY <2>1, <2>2, <2>3, <2>4, <2>5 DEF Books
<1>9. EventForms'
  <2>1. EventForm(e) /\ \A i \in DOMAIN mtevtQ : EventForm(mtevtQ[i])
    BY <1>4 DEF GateInv, EventForms, EventForm
  <2>2. \A i \in DOMAIN mtevtQ' : EventForm(mtevtQ'[i])
    BY <1>5, <2>1
  <2>3. EventForm(evt)' /\ \A i \in DOMAIN mtevtQ' : EventForm(mtevtQ[i])'
    BY <1>3, <2>2 DEF EventForm, GateInv, EventForms
  <2> QED  BY <1>3, <2>3 DEF GateInv, EventForms
<1>10. Before'
  BY <1>3, <1>5, <1>6 DEF GateInv, Before, Issuers
<1>11. Wheels'
  BY <1>3 DEF GateInv, Wheels
<1>12. AheadFits'
  <2>1. Len(ahead') <= Len(ahead) /\ Len(ahead) \in Nat /\ Len(ahead') \in Nat
    BY <1>2, <1>3
  <2>2. \A y \in Ids : running' \subseteq {y} => Len(ahead') <= MaxPath
    BY <1>3, <2>1 DEF GateInv, AheadFits
  <2>3. Len(ahead') <= 2 * MaxPath
    BY <2>1 DEF GateInv, AheadFits
  <2> QED  BY <1>2, <1>3, <2>2, <2>3 DEF AheadFits
<1> QED  BY <1>7, <1>8, <1>9, <1>10, <1>11, <1>12 DEF GateInv

LEMMA InitGate == Init => GateInv
<1> SUFFICES ASSUME Init PROVE GateInv
  OBVIOUS
<1> USE DEF Init
<1>1. DOMAIN mtevtQ = {} /\ DOMAIN mtcmdQ = {} /\ Len(ahead) = 0 /\ evt.ids = {}
  BY DEF NoEvt
<1>2. OverIds = {} /\ Ended = {}
  BY <1>1 DEF OverIds, Ended
<1>3. \A t \in Issuers : pc[t] = "idle" /\ left[t] = <<>> /\ ~Busy(t)
  BY DEF Busy, Undecided
<1>4. Issuers = {"agvcp", "agv"}
  BY DEF Issuers
<1>5. OneAtATime /\ Wheels /\ EventForms
  BY <1>1, <1>3, <1>4 DEF OneAtATime, Wheels, EventForms, EventForm, NoEvt
<1>6. Books
  BY <1>1, <1>2, <1>3, <1>4 DEF Books, Undecided
<1>7. Before
  BY <1>3, <1>4 DEF Before
<1>8. AheadFits
  BY <1>1 DEF AheadFits
<1> QED  BY <1>5, <1>6, <1>7, <1>8 DEF GateInv

LEMMA GateNext ==
    ASSUME TwoOpen, Typed, GateInv, [Next]_vars
    PROVE  GateInv'
<1>1. CASE UNCHANGED vars
  <2>1. UNCHANGED GateUnchanged /\ UNCHANGED <<pc, left>>
    BY <1>1 DEF vars, cmdVars, evtVars, taskVars, moveVars, planVars, GateUnchanged
  <2>2. OverIds' = OverIds /\ Ended' = Ended /\ \A t \in Issuers : Busy(t)' = Busy(t)
    BY <2>1 DEF GateUnchanged, OverIds, Ended, Busy
  <2>3. OneAtATime' /\ Before'
    BY <2>1, <2>2 DEF GateUnchanged, GateInv, OneAtATime, Before, Issuers
  <2>4. Books' /\ EventForms'
    BY <2>1, <2>2 DEF GateUnchanged, GateInv, Books, EventForms, EventForm
  <2>5. Wheels' /\ AheadFits'
    BY <2>1 DEF GateUnchanged, GateInv, Wheels, AheadFits
  <2> QED  BY <2>3, <2>4, <2>5 DEF GateInv
<1>2. TypeOK
  BY DEF Typed
<1> QED  BY <1>1, <1>2, Steps, ReceiveGate, AppendDeniedGate, CmdStepGate, AgvPendGate, AgvPopGate,
            AgvPostBackGate, AgvReportGate, MoveEndGate, PassingGate

-----------------------------------------------------------------------------
(* The points locked, those still to be locked and the codes ahead.        *)

LEMMA HeadFirst ==
    ASSUME NEW S, NEW s \in Seq(S), s # <<>>
    PROVE  s = <<Head(s)>> \o Tail(s) /\ Head(s) \in S /\ Tail(s) \in Seq(S) /\ <<Head(s)>> \in Seq(S)
<1>1. Head(s) \in S /\ Tail(s) \in Seq(S) /\ Len(s) \in Nat /\ Len(s) >= 1 /\ Len(Tail(s)) = Len(s) - 1
  OBVIOUS
<1>2. <<Head(s)>> \in Seq(S) /\ Len(<<Head(s)>>) = 1 /\ <<Head(s)>>[1] = Head(s)
  BY <1>1
<1> DEFINE t == <<Head(s)>> \o Tail(s)
<1>3. t \in Seq(S) /\ Len(t) = Len(s)
  BY <1>1, <1>2, ConcatProperties
<1>4. ASSUME NEW i \in 1 .. Len(s) PROVE t[i] = s[i]
  <2>1. t[i] = IF i <= 1 THEN Head(s) ELSE Tail(s)[i - 1]
    BY <1>1, <1>2, <1>4, ConcatProperties
  <2>2. Head(s) = s[1] /\ (i > 1 => Tail(s)[i - 1] = s[i])
    BY <1>1, <1>4
  <2> QED  BY <1>1, <1>4, <2>1, <2>2
<1> HIDE DEF t
<1>5. t = s
  BY <1>3, <1>4
<1> QED  BY <1>1, <1>2, <1>5 DEF t

(* A point moved from the front of one to the end of the other.            *)
LEMMA MovePoint ==
    ASSUME NEW S, NEW w \in Seq(S), NEW l \in Seq(S), l # <<>>
    PROVE  Append(w, Head(l)) \o Tail(l) = w \o l
<1>1. l = <<Head(l)>> \o Tail(l) /\ Head(l) \in S /\ Tail(l) \in Seq(S) /\ <<Head(l)>> \in Seq(S)
  BY HeadFirst
<1>2. Append(w, Head(l)) = w \o <<Head(l)>>
  BY <1>1, AppendIsConcat
<1>3. (w \o <<Head(l)>>) \o Tail(l) = w \o (<<Head(l)>> \o Tail(l))
  BY <1>1, ConcatAssociative
<1> QED  BY <1>1, <1>2, <1>3

LEMMA FrontOfConcat ==
    ASSUME NEW S, NEW w \in Seq(S), NEW l \in Seq(S), w # <<>>
    PROVE  Head(w \o l) = Head(w) /\ Tail(w \o l) = Tail(w) \o l
<1>1. w = <<Head(w)>> \o Tail(w) /\ Head(w) \in S /\ Tail(w) \in Seq(S) /\ <<Head(w)>> \in Seq(S)
  BY HeadFirst
<1> DEFINE r == Tail(w) \o l
           v == <<Head(w)>> \o r
<1>2. w \o l = v /\ r \in Seq(S)
  <2>1. (<<Head(w)>> \o Tail(w)) \o l = <<Head(w)>> \o (Tail(w) \o l)
    BY <1>1, ConcatAssociative
  <2>2. r \in Seq(S)
    BY <1>1, ConcatProperties
  <2> QED  BY <1>1, <2>1, <2>2
<1> HIDE DEF r
<1>3. Len(<<Head(w)>>) = 1 /\ <<Head(w)>>[1] = Head(w) /\ Len(r) \in Nat
  BY <1>1, <1>2
<1>4. /\ v \in Seq(S) /\ Len(v) = 1 + Len(r)
      /\ \A i \in 1 .. 1 + Len(r) : v[i] = IF i <= 1 THEN Head(w) ELSE r[i - 1]
  BY <1>1, <1>2, <1>3, ConcatProperties
<1> HIDE DEF v
<1>5. v # <<>> /\ Head(v) = Head(w)
  BY <1>3, <1>4
<1>6. Tail(v) \in Seq(S) /\ Len(Tail(v)) = Len(r)
  BY <1>3, <1>4, <1>5
<1>7. \A i \in 1 .. Len(r) : Tail(v)[i] = r[i]
  <2> TAKE i \in 1 .. Len(r)
  <2>1. i + 1 \in 1 .. 1 + Len(r) /\ i \in Int /\ i >= 1
    BY <1>3
  <2>2. v[i + 1] = r[i]
    BY <1>4, <2>1
  <2>3. Tail(v)[i] = v[i + 1]
    BY <1>3, <1>4, <1>5, <2>1
  <2> QED  BY <2>2, <2>3
<1>8. Tail(v) = r
  <2> DEFINE u == Tail(v)
  <2>1. u \in Seq(S) /\ Len(u) = Len(r) /\ \A i \in 1 .. Len(r) : u[i] = r[i]
    BY <1>6, <1>7
  <2> HIDE DEF u
  <2>2. u = r
    BY <1>2, <2>1
  <2> QED  BY <2>2 DEF u
<1> QED  BY <1>2, <1>5, <1>8 DEF r

(* Only one issuer has points left to lock.                                *)
Rest == IF left["agv"] = <<>> THEN left["agvcp"] ELSE left["agv"]

LEMMA RestIs ==
    ASSUME Typed, GateInv
    PROVE  /\ wpQ \o left["agv"] \o left["agvcp"] = wpQ \o Rest
           /\ Rest \in Seq(Points) /\ wpQ \in Seq(Points) /\ ahead \in Seq(Points)
           /\ \E t \in Issuers : Rest = left[t]
<1>1. /\ wpQ \in Seq(Points) /\ left["agv"] \in Seq(Points) /\ left["agvcp"] \in Seq(Points)
      /\ ahead \in Seq(Points) /\ Issuers = {"agvcp", "agv"}
  BY DEF Typed, TypeOK, Issuers
<1>2. left["agv"] = <<>> \/ left["agvcp"] = <<>>
  BY <1>1 DEF GateInv, OneAtATime, Wheels, Busy
<1>3. CASE left["agv"] = <<>>
  BY <1>1, <1>3, ConcatEmptySeq DEF Rest
<1>4. CASE left["agv"] # <<>> /\ left["agvcp"] = <<>>
  <2>1. wpQ \o left["agv"] \in Seq(Points)
    BY <1>1, ConcatProperties
  <2>2. wpQ \o left["agv"] \o left["agvcp"] = wpQ \o left["agv"]
    BY <1>4, <2>1, ConcatEmptySeq
  <2> QED  BY <1>1, <1>4, <2>2 DEF Rest
<1> QED  BY <1>2, <1>3, <1>4

LEMMA RestAlways == Typed /\ GateInv => wpQ \o left["agv"] \o left["agvcp"] = wpQ \o Rest
BY RestIs

LEMMA RestNext == Typed' /\ GateInv' => (wpQ \o left["agv"] \o left["agvcp"] = wpQ \o Rest)'
BY RestAlways, PTL

LockInv == RouteLocked /\ CodesChecked

(* What lies ahead is the same as long as neither side moves.              *)
LEMMA LockKept ==
    ASSUME Typed, Typed', LockInv, UNCHANGED <<wpQ, left, ahead, strays>>,
           "code" \in alarms' <=> "code" \in alarms
    PROVE  LockInv'
BY DEF LockInv, RouteLocked, CodesChecked, WrongCodeReported, NoFalseAlarm, Typed

(* lock_point() finds a slot: the points waiting are on the way.           *)
LEMMA LockPointLock ==
    ASSUME TwoOpen, Typed, GateInv, LockInv, Typed', GateInv', NEW t \in Issuers, Lock(t)
    PROVE  LockInv'
<1>1. /\ Issuers = {"agvcp", "agv"} /\ (t = "agvcp" \/ t = "agv")
      /\ left \in [Issuers -> Seq(Points)] /\ left[t] \in Seq(Points) /\ left[t] # <<>>
      /\ wpQ \in Seq(Points)
  BY DEF Issuers, Typed, TypeOK, Lock
<1>2. /\ left' = [left EXCEPT ![t] = Tail(left[t])] /\ LockPoint(Head(left[t]))
      /\ pc[t] = "lock" /\ UNCHANGED <<ahead, strays, alarms>>
  BY DEF Lock, moveVars, faults
<1>3. \A u \in Issuers : u # t => left[u] = <<>> /\ left'[u] = <<>>
  <2>1. \A u \in Issuers : u # t => pc[u] # "lock"
    BY <1>1, <1>2 DEF GateInv, OneAtATime, Busy
  <2> QED  BY <1>1, <1>2, <2>1 DEF GateInv, Wheels
<1>4. left'[t] = Tail(left[t])
  BY <1>1, <1>2
<1>5. Rest = left[t] /\ Rest' = Tail(left[t])
  BY <1>1, <1>3, <1>4 DEF Rest
<1>6. WrongCodeReported' /\ NoFalseAlarm'
  BY <1>2 DEF LockInv, CodesChecked, WrongCodeReported, NoFalseAlarm
<1>7. RouteLocked'
  <2> SUFFICES ASSUME strays = 0 PROVE wpQ' \o Rest' = ahead'
    BY <1>2, RestNext DEF RouteLocked
  <2>1. wpQ \o left[t] = ahead
    BY <1>5, RestIs DEF LockInv, RouteLocked
  <2>2. Len(ahead) = Len(wpQ) + Len(left[t]) /\ Len(wpQ) \in Nat /\ Len(left[t]) \in Nat /\ Len(left[t]) >= 1
    <3>1. Len(wpQ \o left[t]) = Len(wpQ) + Len(left[t])
      BY <1>1, ConcatProperties
    <3> QED  BY <1>1, <2>1, <3>1
  <2>3. Len(ahead) <= 2 * MaxPath /\ 2 * MaxPath <= WpSlots /\ WpSlots \in Nat
    BY DEF GateInv, AheadFits, TwoOpen
  <2>4. Len(wpQ) < WpSlots
    BY <2>2, <2>3
  <2>5. wpQ' = Append(wpQ, Head(left[t]))
    BY <1>2, <2>4 DEF LockPoint
  <2> QED  BY <1>1, <1>2, <1>5, <2>1, <2>5, MovePoint
<1> QED  BY <1>6, <1>7 DEF LockInv, CodesChecked, Typed

LEMMA CommitLock ==
    ASSUME Typed, GateInv, LockInv, Typed', GateInv', NEW t \in Issuers, Commit(t)
    PROVE  LockInv'
<1>1. /\ Issuers = {"agvcp", "agv"} /\ (t = "agvcp" \/ t = "agv")
      /\ left \in [Issuers -> Seq(Points)] /\ wpQ \in Seq(Points)
  BY DEF Issuers, Typed, TypeOK
<1>2. /\ left' = [left EXCEPT ![t] = PointsOf(cur[t])] /\ ahead' = ahead \o PointsOf(cur[t])
      /\ pc[t] \in {"delay", "commit"} /\ UNCHANGED <<wpQ, strays, alarms>>
  BY DEF Commit, lockVars, faults
<1>3. \A u \in Issuers : left[u] = <<>>
  <2>1. \A u \in Issuers : pc[u] # "lock"
    BY <1>1, <1>2 DEF GateInv, OneAtATime, Busy, Undecided
  <2> QED  BY <2>1 DEF GateInv, Wheels
<1>4. Rest = <<>> /\ Rest' = PointsOf(cur[t])
  BY <1>1, <1>2, <1>3 DEF Rest
<1>5. WrongCodeReported' /\ NoFalseAlarm'
  BY <1>2 DEF LockInv, CodesChecked, WrongCodeReported, NoFalseAlarm
<1>6. RouteLocked'
  <2> SUFFICES ASSUME strays = 0 PROVE wpQ' \o Rest' = ahead'
    BY <1>2, RestNext DEF RouteLocked
  <2>1. wpQ \o <<>> = ahead
    BY <1>4, RestIs DEF LockInv, RouteLocked
  <2>2. wpQ = ahead
    BY <1>1, <2>1, ConcatEmptySeq
  <2> QED  BY <1>2, <1>4, <2>2
<1> QED  BY <1>5, <1>6 DEF LockInv, CodesChecked, Typed

(* The code read is held against the first point of the route.             *)
LEMMA PassingLock ==
    ASSUME Typed, GateInv, LockInv, Typed', GateInv', Passing
    PROVE  LockInv'
<1>1. PICK code \in Points \cup {Stray} : PassPoint(code)
  BY DEF Passing
<1>2. /\ ahead # <<>> /\ ahead' = Tail(ahead) /\ UNCHANGED left
      /\ \A t \in Issuers : left[t] # <<>> => Head(left[t]) # Head(ahead)
      /\ strays' = (IF Head(ahead) \in {code, Any} THEN strays ELSE strays + 1)
      /\ Release(code) /\ strays \in Nat
  BY <1>1 DEF PassPoint, InReach, taskVars, Typed, TypeOK
<1>3. Rest' = Rest /\ wpQ \in Seq(Points) /\ Rest \in Seq(Points)
  BY <1>2, RestIs DEF Rest
<1>4. ASSUME strays = 0 PROVE wpQ # <<>> /\ Head(wpQ) = Head(ahead) /\ Tail(ahead) = Tail(wpQ) \o Rest
  <2>1. wpQ \o Rest = ahead
    BY <1>4, RestIs DEF LockInv, RouteLocked
  <2>2. wpQ # <<>>
    <3>1. SUFFICES ASSUME wpQ = <<>> PROVE FALSE
      OBVIOUS
    <3>2. Rest = ahead
      BY <1>3, <2>1, <3>1, ConcatEmptySeq
    <3>3. PICK t \in Issuers : Rest = left[t]
      BY RestIs
    <3> QED  BY <1>2, <3>2, <3>3
  <2> QED  BY <1>3, <2>1, <2>2, FrontOfConcat
<1>5. ASSUME strays' = 0 PROVE strays = 0 /\ wpQ' = Tail(wpQ) /\ alarms' = alarms
  <2>1. strays = 0 /\ Head(ahead) \in {code, Any}
    BY <1>2, <1>5
  <2> QED  BY <1>2, <1>4, <2>1 DEF Release
<1>6. RouteLocked'
  <2> SUFFICES ASSUME strays' = 0 PROVE wpQ' \o Rest' = ahead'
    BY RestNext DEF RouteLocked
  <2> QED  BY <1>2, <1>3, <1>4, <1>5
<1>7. "code" \in alarms => "code" \in alarms'
  BY <1>2 DEF Release
<1>8. WrongCodeReported'
  <2> SUFFICES ASSUME strays' > 0 PROVE "code" \in alarms'
    BY DEF WrongCodeReported
  <2>1. CASE strays > 0
    BY <1>7, <2>1 DEF LockInv, CodesChecked, WrongCodeReported
  <2>2. CASE strays = 0
    <3>1. Head(ahead) \notin {code, Any}
      BY <1>2, <2>2
    <3> QED  BY <1>2, <1>4, <2>2, <3>1 DEF Release
  <2> QED  BY <1>2, <2>1, <2>2
<1>9. NoFalseAlarm'
  <2> SUFFICES ASSUME "code" \in alarms', strays' = 0 PROVE FALSE
    BY DEF NoFalseAlarm, Typed, TypeOK
  <2> QED  BY <1>5 DEF LockInv, CodesChecked, NoFalseAlarm
<1> QED  BY <1>6, <1>8, <1>9 DEF LockInv, CodesChecked, Typed

LEMMA LockNext ==
    ASSUME TwoOpen, Typed, GateInv, LockInv, Typed', GateInv', [Next]_vars
    PROVE  LockInv'
<1> USE DEF cmdVars, evtVars, taskVars, lockVars, moveVars, planVars, faults
<1>1. CASE Receiving \/ AppendDenied \/ AgvPend \/ AgvPop \/ AgvPostBack \/ AgvReport \/ MoveEnd
           \/ UNCHANGED vars
  <2>1. UNCHANGED <<wpQ, left, ahead, strays, alarms>>
    BY <1>1 DEF Receiving, Receive, AppendDenied, AgvPend, AgvPop, AgvPostBack, AgvReport, MoveEnd, vars
  <2> QED  BY <2>1, LockKept
<1>2. ASSUME NEW t \in Issuers, CmdStep(t) PROVE LockInv'
  <2>1. CASE Check(t) \/ Gate(t) \/ Locked(t)
    <3>1. UNCHANGED <<wpQ, left, ahead, strays>> /\ ("code" \in alarms' <=> "code" \in alarms)
      BY <2>1 DEF Check, Gate, Locked
    <3> QED  BY <3>1, LockKept
  <2> QED  BY <1>2, <2>1, CommitLock, LockPointLock DEF CmdStep
<1>3. TypeOK
  BY DEF Typed
<1> QED  BY <1>1, <1>2, <1>3, PassingLock, Steps

LEMMA InitLock == Init => LockInv
<1> SUFFICES ASSUME Init PROVE LockInv
  OBVIOUS
<1>1. TypeOK
  BY InitTyped DEF Typed
<1>2. wpQ = <<>> /\ left["agv"] = <<>> /\ left["agvcp"] = <<>> /\ ahead = <<>>
  BY DEF Init, Issuers
<1>3. <<>> \o <<>> \o <<>> = <<>>
  OBVIOUS
<1>4. RouteLocked
  BY <1>2, <1>3 DEF RouteLocked
<1> QED  BY <1>1, <1>4 DEF Init, LockInv, CodesChecked, WrongCodeReported, NoFalseAlarm

(* While at most two actions are open and wpQ has the slots of two routes, *)
(* what issue_command() has locked or is about to lock is, in order, what  *)
(* the wheels still have to pass - until a wrong code is read.             *)
THEOREM RouteIsLocked == ASSUME TwoOpen PROVE Spec => []RouteLocked
<1>1. Init => Typed /\ GateInv /\ LockInv
  BY InitTyped, InitGate, InitLock
<1>2. Typed /\ GateInv /\ LockInv /\ [Next]_vars => (Typed /\ GateInv /\ LockInv)'
  BY NextTyped, GateNext, LockNext
<1>3. LockInv => RouteLocked
  BY DEF LockInv
<1> QED  BY <1>1, <1>2, <1>3, PTL DEF Spec

(* Under the same hypothesis check_and_release_point() raises the alarm    *)
(* for a code just when it is not the one the route has next.              *)
THEOREM AlarmJustified == ASSUME TwoOpen PROVE Spec => []CodesChecked
<1>1. Init => Typed /\ GateInv /\ LockInv
  BY InitTyped, InitGate, InitLock
<1>2. Typed /\ GateInv /\ LockInv /\ [Next]_vars => (Typed /\ GateInv /\ LockInv)'
  BY NextTyped, GateNext, LockNext
<1>3. LockInv => CodesChecked
  BY DEF LockInv
<1> QED  BY <1>1, <1>2, <1>3, PTL DEF Spec

-----------------------------------------------------------------------------
(* The routes form a chain: each begins where the points locked so far end.*)

(* Command c leads from point l to point e; a turn stays where it is.      *)
Links(c, l, e) == IF c.act \in Straights
                  THEN (l = Any \/ AsPoint(c.from) \in {Any, l}) /\ EndOf(c) \in {Any, e}
                  ELSE l \in {Any, e}

Chain ==
    /\ \A t \in Issuers : pc[t] \in Undecided => Links(cur[t], last_ponit, planEnd)
    /\ \A i \in DOMAIN mtcmdQ : Links(mtcmdQ[i], last_ponit, planEnd)
    /\ \A t \in Issuers : pc[t] = "lock" => EndOf(cur[t]) \in {Any, planEnd}
    /\ mtcmdQ = <<>> /\ (\A t \in Issuers : ~Busy(t)) => last_ponit \in {Any, planEnd}

(* The last event posted tells whether the vehicle is still on its way.    *)
LastEvent == IF mtevtQ # <<>> THEN mtevtQ[Len(mtevtQ)] ELSE evt

Arrivals ==
    /\ LastEvent.kind = "arrival" => Motionstyle \in Straights
    /\ Motionstyle # "ONSTOPING" => Motionstyle = typeOfAction /\ Motionstyle \in Acts
    /\ \A t \in Issuers : Busy(t) => cur[t].act \in Acts
    /\ \A i \in DOMAIN mtcmdQ : mtcmdQ[i].act \in Acts
    /\ pc["agv"] \in {"check", "gate"} =>
          evt.kind = "over" \/ (evt.kind = "arrival" /\ cur["agv"].act = "GOSTRAIGHT")

ChainInv == Chain /\ Arrivals /\ ContiguousAccepted

(* What agv takes from the queue motionctrl_cmd() does not turn away.      *)
LEMMA AgvNotDenied ==
    ASSUME OneWay, Typed, GateInv, ChainInv, pc["agv"] = "gate"
    PROVE  ~Denied(cur["agv"].act)
<1>1. SUFFICES ASSUME Denied(cur["agv"].act) PROVE FALSE
  OBVIOUS
<1>2. Issuers = {"agvcp", "agv"} /\ Busy("agv") /\ Motionstyle # "ONSTOPING"
  BY <1>1 DEF Issuers, Busy, Undecided, Denied
<1>3. running # {} /\ cur["agv"].id \in open \ Ended
  BY <1>2 DEF GateInv, Books, Undecided
<1>4. \A x, y \in Ended : x = y
  <2>1. \A x \in Ended : x \in open /\ x # cur["agv"].id
    BY <1>3 DEF GateInv, Books
  <2>2. \A a, b, c \in open : a = b \/ a = c \/ b = c
    BY DEF GateInv, Books
  <2> QED  BY <1>3, <2>1, <2>2
<1>5. evt.ids = {} /\ OverIds = {}
  <2>1. PICK r \in running : TRUE
    BY <1>3
  <2>2. r \in Ended /\ r \notin OverIds /\ r \notin evt.ids
    BY <2>1 DEF GateInv, Books, Ended
  <2>3. \A x \in OverIds \cup evt.ids : x \in Ended /\ x # r
    BY <2>2 DEF Ended
  <2> QED  BY <1>4, <2>2, <2>3
<1>6. evt.kind = "arrival" /\ cur["agv"].act = "GOSTRAIGHT"
  BY <1>5 DEF GateInv, EventForms, EventForm, ChainInv, Arrivals
<1>7. Motionstyle = "GOBACKWARD" \/ Motionstyle = "TRUNLEFT"
  BY <1>1, <1>2, <1>6 DEF Denied, ChainInv, Arrivals, Typed, TypeOK, AllActs, Straights
<1>8. CASE Motionstyle = "GOBACKWARD"
  BY <1>2, <1>6, <1>8 DEF ChainInv, Arrivals, OneWay
<1>9. CASE Motionstyle = "TRUNLEFT"
  <2>1. LastEvent.kind # "arrival"
    BY <1>9 DEF ChainInv, Arrivals, Straights
  <2>2. CASE mtevtQ = <<>>
    <3>1. evt.kind # "arrival"
      BY <2>1, <2>2 DEF LastEvent
    <3> QED  BY <1>6, <3>1
  <2>3. CASE mtevtQ # <<>>
    <3> DEFINE E == [kind : {"over", "arrival"}, ids : SUBSET Ids]
    <3>1. mtevtQ \in Seq(E)
      BY DEF Typed, TypeOK
    <3>2. Len(mtevtQ) \in DOMAIN mtevtQ /\ mtevtQ[Len(mtevtQ)] \in E
      <4> HIDE DEF E
      <4> QED  BY <2>3, <3>1
    <3>3. mtevtQ[Len(mtevtQ)].kind = "over"
      BY <2>1, <2>3, <3>2 DEF LastEvent
    <3>4. mtevtQ[Len(mtevtQ)].ids # {}
      BY <3>2, <3>3 DEF GateInv, EventForms, EventForm
    <3> QED  BY <1>5, <3>2, <3>4 DEF OverIds
  <2> QED  BY <2>2, <2>3
<1> QED  BY <1>7, <1>8, <1>9

LEMMA ReceiveChain ==
    ASSUME TwoOpen, Typed, GateInv, ChainInv, Receiving
    PROVE  ChainInv'
<1>1. PICK a \in Acts, n \in 1 .. MaxPath, wild \in BOOLEAN : Receive(a, n, wild)
  BY DEF Receiving
<1>2. mtcmdQ = <<>> /\ ~Busy("agv") /\ DOMAIN mtcmdQ = {}
  BY ReceiveAlone
<1>3. /\ Issuers = {"agvcp", "agv"} /\ pc \in [Issuers -> Places] /\ planEnd \in 1 .. LastPlace
      /\ cur \in [Issuers -> Route \cup {NoRoute}]
  BY DEF Issuers, Typed, TypeOK
<1> DEFINE c == Plan(a, n, wild)
<1>4. /\ cur' = [cur EXCEPT !["agvcp"] = c] /\ pc' = [pc EXCEPT !["agvcp"] = "check"]
      /\ pc["agvcp"] = "idle"
      /\ planEnd' = IF a \in Straights THEN planEnd + n ELSE planEnd
      /\ UNCHANGED <<mtcmdQ, mtevtQ, evt, last_ponit, Motionstyle, typeOfAction, refused>>
  BY <1>1, <1>2 DEF Receive, Goto, evtVars, moveVars, lockVars, faults
<1>5. last_ponit \in {Any, planEnd}
  <2>1. \A t \in Issuers : ~Busy(t)
    BY <1>2, <1>3, <1>4 DEF Busy, Undecided
  <2> QED  BY <1>2, <2>1 DEF ChainInv, Chain
<1>6. c.act = a /\ Links(c, last_ponit, planEnd')
  <2>1. c.act = a
    BY DEF Plan
  <2>2. CASE a \notin Straights
    BY <1>4, <1>5, <2>1, <2>2 DEF Links
  <2>3. CASE a \in Straights
    <3> DEFINE p(i) == IF wild THEN 0 ELSE planEnd + i
               q    == [i \in 1 .. n |-> p(i)]
    <3>1. c.from = p(0) /\ c.path = q
      BY <2>3 DEF Plan
    <3>2. Len(q) = n /\ q[n] = p(n)
      OBVIOUS
    <3>3. EndOf(c) = AsPoint(p(n))
      BY <3>1, <3>2 DEF EndOf
    <3>4. AsPoint(c.from) \in {Any, planEnd} /\ EndOf(c) \in {Any, planEnd + n}
      <4>1. CASE wild
        BY <3>1, <3>3, <4>1 DEF AsPoint
      <4>2. CASE ~wild
        <5>1. p(0) = planEnd /\ p(n) = planEnd + n /\ planEnd # 0 /\ planEnd + n # 0
          BY <1>3, <4>2, LastPlaceNat
        <5> HIDE DEF p
        <5> QED  BY <3>1, <3>3, <5>1 DEF AsPoint
      <4> QED  BY <4>1, <4>2
    <3>5. planEnd' = planEnd + n
      BY <1>4, <2>3
    <3> HIDE DEF c
    <3> QED  BY <1>5, <2>1, <2>3, <3>4, <3>5 DEF Links
  <2> QED  BY <2>1, <2>2, <2>3
<1> HIDE DEF c
<1>7. /\ pc'["agvcp"] = "check" /\ cur'["agvcp"] = c
      /\ pc'["agv"] = pc["agv"] /\ cur'["agv"] = cur["agv"]
      /\ pc["agv"] \notin Undecided \cup {"lock"}
  BY <1>2, <1>3, <1>4 DEF Busy
<1>8. Chain'
  <2>1. \A t \in Issuers : pc'[t] \in Undecided => Links(cur'[t], last_ponit', planEnd')
    BY <1>3, <1>4, <1>6, <1>7
  <2>2. \A t \in Issuers : pc'[t] # "lock"
    BY <1>3, <1>7
  <2>3. Busy("agvcp")'
    BY <1>7 DEF Busy, Undecided
  <2>4. DOMAIN mtcmdQ' = {}
    BY <1>2, <1>4
  <2> QED  BY <1>3, <2>1, <2>2, <2>3, <2>4 DEF Chain
<1>9. Arrivals'
  <2>1. LastEvent' = LastEvent
    BY <1>4 DEF LastEvent
  <2>2. \A t \in Issuers : Busy(t)' => cur'[t].act \in Acts
    BY <1>3, <1>6, <1>7 DEF Busy
  <2>3. DOMAIN mtcmdQ' = {} /\ pc'["agv"] \notin {"check", "gate"}
    BY <1>2, <1>4, <1>7 DEF Undecided
  <2> QED  BY <1>4, <2>1, <2>2, <2>3 DEF ChainInv, Arrivals
<1> QED  BY <1>4, <1>8, <1>9 DEF ChainInv, ContiguousAccepted

ChainUnchanged == <<mtevtQ, evt, planEnd, Motionstyle, typeOfAction, refused>>

(* A command in hand keeps its link until its last point is locked.        *)
LEMMA CmdStepChain ==
    ASSUME OneWay, Typed, GateInv, ChainInv, NEW t \in Issuers, CmdStep(t)
    PROVE  ChainInv'
<1> USE DEF cmdVars, evtVars, taskVars, lockVars, moveVars, planVars, faults, Goto
<1>0. /\ Issuers = {"agvcp", "agv"} /\ (t = "agvcp" \/ t = "agv") /\ pc \in [Issuers -> Places]
      /\ pc[t] \in {"check", "gate", "delay", "commit", "lock"} /\ Busy(t)
  BY DEF Issuers, Typed, TypeOK, CmdStep, Check, Gate, Commit, Lock, Locked, Busy, Undecided
<1>1. /\ \A u \in Issuers : u # t => ~Busy(u) /\ pc[u] \notin Undecided \cup {"lock"}
      /\ mtcmdQ = <<>> /\ DOMAIN mtcmdQ = {}
  BY <1>0 DEF GateInv, OneAtATime, Busy
<1>2. /\ UNCHANGED <<mtcmdQ, mtevtQ, evt, cur, planEnd>>
      /\ \A u \in Issuers : u # t => pc'[u] = pc[u]
  BY <1>0 DEF CmdStep, Check, Gate, Commit, Lock, Locked
<1>3. /\ cur[t].act \in Acts /\ LastEvent' = LastEvent
      /\ pc[t] \in Undecided => Links(cur[t], last_ponit, planEnd)
      /\ pc[t] = "lock" => EndOf(cur[t]) \in {Any, planEnd}
  BY <1>0, <1>2 DEF ChainInv, Arrivals, Chain, LastEvent
<1>4. /\ \A u \in Issuers : Busy(u)' => Busy(u)
      /\ pc'["agv"] \in {"check", "gate"} => pc["agv"] \in {"check", "gate"}
  BY <1>0, <1>2 DEF Busy, Undecided, CmdStep, Check, Gate, Commit, Lock, Locked, Home
<1>5. /\ \A u \in Issuers : Busy(u)' => cur'[u].act \in Acts
      /\ \A i \in DOMAIN mtcmdQ' : mtcmdQ'[i].act \in Acts
      /\ pc'["agv"] \in {"check", "gate"} =>
            evt'.kind = "over" \/ (evt'.kind = "arrival" /\ cur'["agv"].act = "GOSTRAIGHT")
  BY <1>1, <1>2, <1>4 DEF ChainInv, Arrivals
(* All that has to be shown of a step.                                     *)
<1>6. ASSUME pc'[t] \in Undecided => Links(cur[t], last_ponit', planEnd),
             pc'[t] = "lock" => EndOf(cur[t]) \in {Any, planEnd},
             ~Busy(t)' => last_ponit' \in {Any, planEnd}
      PROVE  Chain'
  <2>1. \A u \in Issuers : u # t => pc'[u] \notin Undecided \cup {"lock"}
    BY <1>1, <1>2
  <2>2. \A u \in Issuers : pc'[u] \in Undecided => Links(cur'[u], last_ponit', planEnd')
    BY <1>2, <1>6, <2>1
  <2>3. \A u \in Issuers : pc'[u] = "lock" => EndOf(cur'[u]) \in {Any, planEnd'}
    BY <1>2, <1>6, <2>1
  <2> QED  BY <1>1, <1>2, <1>6, <2>2, <2>3 DEF Chain
<1>7. CASE Check(t)
  <2>1. ~(cur[t].act \in Straights /\ StartsWrong(cur[t]))
    BY <1>0, <1>3, <1>7 DEF Check, Undecided, Links, StartsWrong
  <2>2. pc' = [pc EXCEPT ![t] = "gate"] /\ UNCHANGED <<refused, last_ponit, Motionstyle, typeOfAction>>
    BY <1>7, <2>1 DEF Check
  <2>3. pc'[t] = "gate" /\ Busy(t)' /\ pc[t] \in Undecided
    BY <1>0, <1>7, <2>2 DEF Check, Busy, Undecided
  <2>4. Chain'
    BY <1>3, <1>6, <2>2, <2>3
  <2>5. Arrivals'
    BY <1>3, <1>5, <2>2 DEF ChainInv, Arrivals
  <2> QED  BY <2>2, <2>4, <2>5 DEF ChainInv, ContiguousAccepted
<1>8. CASE Gate(t)
  <2>1. t = "agv" => ~Denied(cur[t].act)
    BY <1>8, AgvNotDenied DEF Gate
  <2>2. /\ pc'[t] \in {"denied", "delay", "commit"}
        /\ UNCHANGED <<refused, last_ponit, Motionstyle, typeOfAction>>
    BY <1>0, <1>8, <2>1 DEF Gate
  <2>3. Busy(t)' /\ pc[t] \in Undecided /\ pc'[t] # "lock"
    BY <1>8, <2>2 DEF Gate, Busy, Undecided
  <2>4. Chain'
    BY <1>3, <1>6, <2>2, <2>3
  <2>5. Arrivals'
    BY <1>3, <1>5, <2>2 DEF ChainInv, Arrivals
  <2> QED  BY <2>2, <2>4, <2>5 DEF ChainInv, ContiguousAccepted
<1>9. CASE Commit(t)
  <2>1. /\ pc[t] \in {"delay", "commit"} /\ Motionstyle' = cur[t].act /\ typeOfAction' = cur[t].act
        /\ pc'[t] = (IF cur[t].act \in Straights THEN "lock" ELSE Home(t))
        /\ UNCHANGED <<refused, last_ponit>>
    BY <1>0, <1>9 DEF Commit
  <2>2. Links(cur[t], last_ponit, planEnd) /\ pc'[t] \notin Undecided
    BY <1>3, <2>1 DEF Undecided, Home
  <2>3. CASE cur[t].act \in Straights
    <3>1. pc'[t] = "lock" /\ Busy(t)' /\ EndOf(cur[t]) \in {Any, planEnd}
      BY <2>1, <2>2, <2>3 DEF Links, Busy
    <3>2. Chain'
      BY <1>6, <2>2, <3>1
    <3>3. Arrivals'
      BY <1>3, <1>5, <2>1, <2>3 DEF Arrivals
    <3> QED  BY <2>1, <3>2, <3>3 DEF ChainInv, ContiguousAccepted
  <2>4. CASE cur[t].act \notin Straights
    <3>1. pc'[t] # "lock" /\ last_ponit \in {Any, planEnd}
      BY <2>1, <2>2, <2>4 DEF Links, Home
    <3>2. Chain'
      BY <1>6, <2>1, <2>2, <3>1
    <3>3. pc[t] = "delay" /\ Motionstyle = "ONSTOPING"
      BY <2>1, <2>4 DEF GateInv, Wheels, Straights
    <3>4. LastEvent'.kind # "arrival"
      BY <1>3, <3>3 DEF ChainInv, Arrivals, Straights
    <3>5. Arrivals'
      BY <1>3, <1>5, <2>1, <3>4 DEF Arrivals
    <3> QED  BY <2>1, <3>2, <3>5 DEF ChainInv, ContiguousAccepted
  <2> QED  BY <2>3, <2>4
<1>10. CASE Lock(t) \/ Locked(t)
  <2>1. pc[t] = "lock" /\ UNCHANGED <<refused, Motionstyle, typeOfAction>>
    BY <1>10 DEF Lock, Locked
  <2>2. \/ pc'[t] = "lock"
        \/ pc'[t] = Home(t) /\ last_ponit' = EndOf(cur[t])
    BY <1>0, <1>10 DEF Lock, Locked
  <2>3. pc'[t] \notin Undecided /\ (~Busy(t)' => last_ponit' = EndOf(cur[t]))
    BY <2>2 DEF Undecided, Home, Busy
  <2>4. Chain'
    BY <1>3, <1>6, <2>1, <2>3
  <2>5. Arrivals'
    BY <1>3, <1>5, <2>1 DEF ChainInv, Arrivals
  <2> QED  BY <2>1, <2>4, <2>5 DEF ChainInv, ContiguousAccepted
<1> QED  BY <1>7, <1>8, <1>9, <1>10 DEF CmdStep

(* Denied to agvcp, a command waits with its link; agv takes it on.        *)
LEMMA QueueChain ==
    ASSUME Typed, GateInv, ChainInv, AppendDenied \/ AgvPop \/ AgvPostBack
    PROVE  ChainInv'
<1> USE DEF cmdVars, evtVars, taskVars, lockVars, moveVars, planVars, faults, Goto
<1>0. /\ Issuers = {"agvcp", "agv"} /\ pc \in [Issuers -> Places] /\ mtcmdQ \in Seq(Route)
      /\ cur \in [Issuers -> Route \cup {NoRoute}]
  BY DEF Issuers, Typed, TypeOK
<1>1. UNCHANGED <<mtevtQ, evt, planEnd, Motionstyle, typeOfAction, refused, last_ponit>>
  BY DEF AppendDenied, AgvPop, AgvPostBack
<1>2. LastEvent' = LastEvent
  BY <1>1 DEF LastEvent
<1>3. CASE AppendDenied
  <2>1. /\ pc["agvcp"] = "denied" /\ mtcmdQ = <<>> /\ ~Busy("agv")
        /\ cur["agvcp"] \in Route /\ cur["agvcp"].act \in Acts
        /\ Links(cur["agvcp"], last_ponit, planEnd)
    BY <1>0, <1>3 DEF AppendDenied, Typed, GateInv, OneAtATime, Busy, Undecided, ChainInv, Chain, Arrivals
  <2>2. /\ pc' = [pc EXCEPT !["agvcp"] = "idle"] /\ cur' = cur
        /\ mtcmdQ' = Append(mtcmdQ, cur["agvcp"])
    BY <1>3 DEF AppendDenied
  <2>3. DOMAIN mtcmdQ' = {1} /\ mtcmdQ'[1] = cur["agvcp"] /\ mtcmdQ' # <<>>
    BY <1>0, <2>1, <2>2
  <2>4. \A t \in Issuers : pc'[t] \notin Undecided \cup {"lock"}
    BY <1>0, <2>1, <2>2 DEF Busy, Undecided
  <2>5. Chain'
    BY <1>1, <2>1, <2>3, <2>4 DEF Chain
  <2>6. Arrivals'
    <3>1. \A t \in Issuers : ~Busy(t)'
      BY <2>4 DEF Busy
    <3>2. \A i \in DOMAIN mtcmdQ' : mtcmdQ'[i].act \in Acts
      BY <2>1, <2>3
    <3>3. pc'["agv"] \notin {"check", "gate"}
      BY <1>0, <2>4 DEF Undecided
    <3> QED  BY <1>1, <1>2, <3>1, <3>2, <3>3 DEF ChainInv, Arrivals
  <2> QED  BY <1>1, <2>5, <2>6 DEF ChainInv, ContiguousAccepted
<1>4. CASE AgvPop /\ mtcmdQ = <<>>
  <2>1. pc' = [pc EXCEPT !["agv"] = "report"] /\ mtcmdQ' = <<>> /\ cur' = cur /\ pc["agv"] = "pop"
    BY <1>4 DEF AgvPop
  <2>2. /\ \A t \in Issuers : Busy(t)' = Busy(t) /\ (pc'[t] = "lock" => pc[t] = "lock")
        /\ \A t \in Issuers : pc'[t] \in Undecided => pc[t] \in Undecided
        /\ DOMAIN mtcmdQ' = {} /\ pc'["agv"] \notin {"check", "gate"}
    BY <1>0, <2>1 DEF Busy, Undecided
  <2>3. Chain'
    <3>1. (\A t \in Issuers : ~Busy(t)') => last_ponit' \in {Any, planEnd'}
      BY <1>1, <1>4, <2>2 DEF ChainInv, Chain
    <3>2. \A t \in Issuers : pc'[t] \in Undecided => Links(cur'[t], last_ponit', planEnd')
      BY <1>1, <2>1, <2>2 DEF ChainInv, Chain
    <3>3. \A t \in Issuers : pc'[t] = "lock" => EndOf(cur'[t]) \in {Any, planEnd'}
      BY <1>1, <2>1, <2>2 DEF ChainInv, Chain
    <3> QED  BY <2>2, <3>1, <3>2, <3>3 DEF Chain
  <2>4. Arrivals'
    <3>1. \A t \in Issuers : Busy(t)' => cur'[t].act \in Acts
      BY <2>1, <2>2 DEF ChainInv, Arrivals
    <3> QED  BY <1>1, <1>2, <2>2, <3>1 DEF ChainInv, Arrivals
  <2> QED  BY <1>1, <2>3, <2>4 DEF ChainInv, ContiguousAccepted
<1>5. CASE AgvPop /\ mtcmdQ # <<>>
  <2>1. /\ mtcmdQ' = Tail(mtcmdQ) /\ cur' = [cur EXCEPT !["agv"] = Head(mtcmdQ)]
        /\ \/ /\ pc' = [pc EXCEPT !["agv"] = "check"]
              /\ evt.kind = "over" \/ Head(mtcmdQ).act = "GOSTRAIGHT"
           \/ pc' = [pc EXCEPT !["agv"] = "postback"]
        /\ pc["agv"] = "pop" /\ Len(mtcmdQ) = 1 /\ pc["agvcp"] = "idle"
    BY <1>5 DEF AgvPop, GateInv, OneAtATime
  <2>2. DOMAIN mtcmdQ' = {} /\ 1 \in DOMAIN mtcmdQ /\ Head(mtcmdQ) = mtcmdQ[1]
    BY <1>0, <1>5, <2>1
  <2>3. /\ cur'["agv"] = mtcmdQ[1] /\ pc'["agvcp"] = "idle" /\ pc'["agv"] \in {"check", "postback"}
        /\ pc'["agv"] = "check" => evt.kind = "over" \/ mtcmdQ[1].act = "GOSTRAIGHT"
    BY <1>0, <2>1, <2>2
  <2>4. mtcmdQ[1].act \in Acts /\ Links(mtcmdQ[1], last_ponit, planEnd)
    BY <2>2 DEF ChainInv, Chain, Arrivals
  <2>5. evt.kind \in {"over", "arrival"}
    BY <2>1 DEF GateInv, EventForms
  <2>6. Chain'
    <3>1. \A t \in Issuers : pc'[t] \in Undecided => Links(cur'[t], last_ponit', planEnd')
      BY <1>0, <1>1, <2>3, <2>4 DEF Undecided
    <3>2. (\A t \in Issuers : pc'[t] # "lock") /\ Busy("agv")'
      BY <1>0, <2>3 DEF Busy, Undecided
    <3> QED  BY <1>0, <2>2, <3>1, <3>2 DEF Chain
  <2>7. Arrivals'
    <3>1. \A t \in Issuers : Busy(t)' => cur'[t].act \in Acts
      BY <1>0, <2>3, <2>4 DEF Busy, Undecided
    <3>2. pc'["agv"] \in {"check", "gate"} =>
             evt'.kind = "over" \/ (evt'.kind = "arrival" /\ cur'["agv"].act = "GOSTRAIGHT")
      BY <1>1, <2>3, <2>5
    <3> QED  BY <1>1, <1>2, <2>2, <3>1, <3>2 DEF ChainInv, Arrivals
  <2> QED  BY <1>1, <2>6, <2>7 DEF ChainInv, ContiguousAccepted
<1>6. CASE AgvPostBack
  <2>1. /\ pc["agv"] = "postback" /\ mtcmdQ = <<>> /\ pc["agvcp"] = "idle"
        /\ cur["agv"] \in Route /\ cur["agv"].act \in Acts
        /\ Links(cur["agv"], last_ponit, planEnd)
    BY <1>0, <1>6 DEF AgvPostBack, Typed, GateInv, OneAtATime, Busy, Undecided, ChainInv, Chain, Arrivals
  <2>2. /\ pc' = [pc EXCEPT !["agv"] = "report"] /\ cur' = cur
        /\ mtcmdQ' = <<cur["agv"]>> \o mtcmdQ
    BY <1>6 DEF AgvPostBack
  <2>3. DOMAIN mtcmdQ' = {1} /\ mtcmdQ'[1] = cur["agv"] /\ mtcmdQ' # <<>>
    <3>1. <<cur["agv"]>> \in Seq(Route)
      BY <2>1
    <3>2. mtcmdQ' = <<cur["agv"]>>
      BY <2>1, <2>2, <3>1, ConcatEmptySeq
    <3> QED  BY <3>2
  <2>4. \A t \in Issuers : pc'[t] \notin Undecided \cup {"lock"}
    BY <1>0, <2>1, <2>2 DEF Undecided
  <2>5. Chain'
    BY <1>1, <2>1, <2>3, <2>4 DEF Chain
  <2>6. Arrivals'
    <3>1. \A t \in Issuers : ~Busy(t)'
      BY <2>4 DEF Busy
    <3>2. \A i \in DOMAIN mtcmdQ' : mtcmdQ'[i].act \in Acts
      BY <2>1, <2>3
    <3>3. pc'["agv"] \notin {"check", "gate"}
      BY <1>0, <2>4 DEF Undecided
    <3> QED  BY <1>1, <1>2, <3>1, <3>2, <3>3 DEF ChainInv, Arrivals
  <2> QED  BY <1>1, <2>5, <2>6 DEF ChainInv, ContiguousAccepted
<1> QED  BY <1>3, <1>4, <1>5, <1>6

(* Steps that leave the commands and points alone.                         *)
LEMMA EventChain ==
    ASSUME Typed, GateInv, ChainInv,
           AgvPend \/ AgvReport \/ MoveEnd \/ Passing \/ UNCHANGED vars
    PROVE  ChainInv'
<1> USE DEF cmdVars, evtVars, taskVars, lockVars, moveVars, planVars, faults, Goto
<1>0. Issuers = {"agvcp", "agv"} /\ pc \in [Issuers -> Places]
  BY DEF Issuers, Typed, TypeOK
<1> DEFINE E == [kind : {"over", "arrival"}, ids : SUBSET Ids]
<1>1. mtevtQ \in Seq(E)
  BY DEF Typed, TypeOK
<1>2. UNCHANGED <<mtcmdQ, cur, planEnd, refused, last_ponit>>
  BY DEF AgvPend, AgvReport, MoveEnd, Passing, PassPoint, vars
<1>3. \A t \in Issuers : \/ pc'[t] = pc[t]
                         \/ pc[t] \notin Undecided \cup {"lock"} /\ pc'[t] \notin Undecided \cup {"lock"}
  BY <1>0 DEF AgvPend, AgvReport, MoveEnd, Passing, PassPoint, vars, Undecided
<1>4. \A t \in Issuers : Busy(t)' = Busy(t)
  BY <1>3 DEF Busy
<1>5. Chain'
  <2>1. \A t \in Issuers : pc'[t] \in Undecided => Links(cur'[t], last_ponit', planEnd')
    BY <1>2, <1>3 DEF ChainInv, Chain
  <2>2. \A i \in DOMAIN mtcmdQ' : Links(mtcmdQ'[i], last_ponit', planEnd')
    BY <1>2 DEF ChainInv, Chain
  <2>3. \A t \in Issuers : pc'[t] = "lock" => EndOf(cur'[t]) \in {Any, planEnd'}
    BY <1>2, <1>3 DEF ChainInv, Chain
  <2>4. mtcmdQ' = <<>> /\ (\A t \in Issuers : ~Busy(t)') => last_ponit' \in {Any, planEnd'}
    BY <1>2, <1>4 DEF ChainInv, Chain
  <2> QED  BY <2>1, <2>2, <2>3, <2>4 DEF Chain
<1>6. /\ \A t \in Issuers : Busy(t)' => cur'[t].act \in Acts
      /\ \A i \in DOMAIN mtcmdQ' : mtcmdQ'[i].act \in Acts
  BY <1>2, <1>4 DEF ChainInv, Arrivals
<1>7. Motionstyle' # "ONSTOPING" => Motionstyle' = typeOfAction' /\ Motionstyle' \in Acts
  BY DEF ChainInv, Arrivals, AgvPend, AgvReport, MoveEnd, Passing, PassPoint, vars
<1>8. pc'["agv"] \in {"check", "gate"} =>
         evt'.kind = "over" \/ (evt'.kind = "arrival" /\ cur'["agv"].act = "GOSTRAIGHT")
  <2>1. CASE AgvPend \/ AgvReport
    <3>1. pc'["agv"] \in {"pop", "idle"}
      BY <1>0, <2>1 DEF AgvPend, AgvReport
    <3> QED  BY <3>1
  <2>2. CASE MoveEnd \/ Passing \/ UNCHANGED vars
    <3>1. UNCHANGED <<pc, cur, evt>>
      BY <2>2 DEF MoveEnd, Passing, PassPoint, vars
    <3> QED  BY <3>1 DEF ChainInv, Arrivals
  <2> QED  BY <2>1, <2>2
<1>9. LastEvent'.kind = "arrival" => Motionstyle' \in Straights
  <2>1. CASE AgvPend
    <3>1. evt' = Head(mtevtQ) /\ mtevtQ' = Tail(mtevtQ) /\ mtevtQ # <<>> /\ Motionstyle' = Motionstyle
      BY <2>1 DEF AgvPend
    <3>2. LastEvent' = LastEvent
      <4> HIDE DEF E
      <4>1. Len(mtevtQ) \in Nat /\ Len(mtevtQ) >= 1 /\ Head(mtevtQ) = mtevtQ[1]
            /\ Len(Tail(mtevtQ)) = Len(mtevtQ) - 1 /\ Tail(mtevtQ) \in Seq(E)
        BY <1>1, <3>1
      <4>2. CASE Len(mtevtQ) = 1
        <5>1. mtevtQ' = <<>>
          BY <3>1, <4>1, <4>2
        <5> QED  BY <3>1, <4>1, <4>2, <5>1 DEF LastEvent
      <4>3. CASE Len(mtevtQ) > 1
        <5>1. mtevtQ' # <<>> /\ Len(mtevtQ') = Len(mtevtQ) - 1
          <6>1. Len(mtevtQ') = Len(mtevtQ) - 1 /\ Len(mtevtQ') # 0
            BY <3>1, <4>1, <4>3
          <6>2. Len(<<>>) = 0
            OBVIOUS
          <6> QED  BY <6>1, <6>2
        <5>2. mtevtQ'[Len(mtevtQ) - 1] = mtevtQ[Len(mtevtQ)]
          BY <1>1, <3>1, <4>1, <4>3
        <5> QED  BY <3>1, <5>1, <5>2 DEF LastEvent
      <4> QED  BY <4>1, <4>2, <4>3
    <3> QED  BY <3>1, <3>2 DEF ChainInv, Arrivals
  <2>2. CASE AgvReport
    <3>1. evt' = NoEvt /\ UNCHANGED <<mtevtQ, Motionstyle>>
      BY <2>2 DEF AgvReport
    <3>2. CASE mtevtQ = <<>>
      BY <3>1, <3>2 DEF LastEvent, NoEvt
    <3>3. CASE mtevtQ # <<>>
      <4>1. LastEvent' = LastEvent
        BY <3>1, <3>3 DEF LastEvent
      <4> QED  BY <3>1, <4>1 DEF ChainInv, Arrivals
    <3> QED  BY <3>2, <3>3
  <2>3. CASE MoveEnd
    <3> DEFINE e == [kind |-> "over", ids |-> running]
    <3>1. mtevtQ' = Append(mtevtQ, e) /\ e \in E
      BY <2>3 DEF MoveEnd, Typed, TypeOK
    <3>2. e.kind = "over"
      OBVIOUS
    <3> HIDE DEF e, E
    <3>3. LastEvent' = e
      <4>1. mtevtQ' # <<>> /\ mtevtQ'[Len(mtevtQ')] = e
        BY <1>1, <3>1
      <4> QED  BY <4>1 DEF LastEvent
    <3> QED  BY <3>2, <3>3
  <2>4. CASE Passing
    BY <2>4 DEF Passing, PassPoint
  <2>5. CASE UNCHANGED vars
    <3>1. LastEvent' = LastEvent /\ Motionstyle' = Motionstyle
      BY <2>5 DEF vars, LastEvent
    <3> QED  BY <3>1 DEF ChainInv, Arrivals
  <2> QED  BY <2>1, <2>2, <2>3, <2>4, <2>5
<1>10. Arrivals'
  BY <1>6, <1>7, <1>8, <1>9 DEF Arrivals
<1> QED  BY <1>2, <1>5, <1>10 DEF ChainInv, ContiguousAccepted

LEMMA ChainNext ==
    ASSUME TwoOpen, OneWay, Typed, GateInv, ChainInv, [Next]_vars
    PROVE  ChainInv'
<1>1. TypeOK
  BY DEF Typed
<1> QED  BY <1>1, Steps, ReceiveChain, CmdStepChain, QueueChain, EventChain

LEMMA InitChain == Init => ChainInv
<1> SUFFICES ASSUME Init PROVE ChainInv
  OBVIOUS
<1>1. /\ \A t \in Issuers : pc[t] = "idle"
      /\ mtcmdQ = <<>> /\ DOMAIN mtcmdQ = {} /\ LastEvent = NoEvt /\ last_ponit = Any
      /\ Motionstyle = "ONSTOPING" /\ refused = {} /\ Issuers = {"agvcp", "agv"}
  BY DEF Init, LastEvent, Issuers
<1>2. Chain
  BY <1>1 DEF Chain, Undecided
<1>3. Arrivals
  BY <1>1 DEF Arrivals, NoEvt, Busy, Undecided
<1> QED  BY <1>1, <1>2, <1>3 DEF ChainInv, ContiguousAccepted

(* A route that begins where the one sent before it ends is not refused by *)
(* issue_command(), as long as at most two actions are open and the        *)
(* controller does not mix the directions: neither of the two is lost, so  *)
(* last_ponit is where the route before it ended.                          *)
THEOREM RoutesAccepted == ASSUME TwoOpen, OneWay PROVE Spec => []ContiguousAccepted
<1>1. Init => Typed /\ GateInv /\ ChainInv
  BY InitTyped, InitGate, InitChain
<1>2. Typed /\ GateInv /\ ChainInv /\ [Next]_vars => (Typed /\ GateInv /\ ChainInv)'
  BY NextTyped, GateNext, ChainNext
<1>3. ChainInv => ContiguousAccepted
  BY DEF ChainInv
<1> QED  BY <1>1, <1>2, <1>3, PTL DEF Spec
=============================================================================
