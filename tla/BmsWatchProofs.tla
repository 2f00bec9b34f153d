---------------------------- MODULE BmsWatchProofs ----------------------------
(***************************************************************************)
(* Proofs about BmsWatch for any tasks that query, however often, and any  *)
(* period, limit and width of the clock that BmsWatchAssumption allows.    *)
(***************************************************************************)
EXTENDS BmsWatch, TLAPS

USE BmsWatchAssumption

(* Until the alarm is due the difference the program computes is the       *)
(* silence, and a time read before is not later.                           *)
Measured ==
    /\ silence <= Limit => TIME_DIFFERENCE(now, power_update_time) = silence
    /\ \A t \in Queriers :
         pc[t] = "compare" /\ ~late[t] /\ silence <= Limit
            => TIME_DIFFERENCE(tm[t], power_update_time) <= silence

(* What agv will report once it has taken every event.                     *)
Reported == IF mtevtQ = <<>> THEN error ELSE mtevtQ[Len(mtevtQ)] = "ERROR"

(* An alarm posted has its flag set or about to be set.                    *)
AlarmFlagged == Reported => bms_error \/ \E t \in Queriers : pc[t] = "set"

(* While bms alone queries it finds the flag as it left it.                *)
Alone ==
    charges = 0 =>
        /\ \A t \in Queriers \ {"bms"} : pc[t] = "idle"
        /\ pc["bms"] \in {"compare", "post", "set"} => ~bms_error
        /\ pc["bms"] = "set" => Reported
        /\ bms_error => Reported

IInv == TypeOK /\ Measured /\ AlarmJustified /\ AlarmFlagged /\ Alone

-----------------------------------------------------------------------------
(* The clock one tick later.                                               *)
LEMMA NextTick ==
    ASSUME NEW n \in 0 .. Wrap - 1
    PROVE  (n + 1) % Wrap = IF n + 1 = Wrap THEN 0 ELSE n + 1
<1>1. CASE n + 1 = Wrap
  <2>1. Wrap % Wrap = 0
    OBVIOUS
  <2> QED  BY <1>1, <2>1
<1>2. CASE n + 1 < Wrap
  <2>1. \A m \in 0 .. Wrap - 1 : m % Wrap = m
    OBVIOUS
  <2> QED  BY <1>2, <2>1
<1> QED  BY <1>1, <1>2

(* A difference of two times grows by one with each tick, also when the    *)
(* clock overflows.                                                        *)
LEMMA DifferenceGrows ==
    ASSUME NEW n \in 0 .. Wrap - 1, NEW t \in 0 .. Wrap - 1,
           TIME_DIFFERENCE(n, t) < Wrap - 1
    PROVE  TIME_DIFFERENCE((n + 1) % Wrap, t) = TIME_DIFFERENCE(n, t) + 1
<1>1. CASE n + 1 = Wrap
  BY <1>1, NextTick DEF TIME_DIFFERENCE
<1>2. CASE n + 1 < Wrap
  <2>1. (n + 1) % Wrap = n + 1
    BY <1>2, NextTick
  <2>2. TIME_DIFFERENCE(n + 1, t) = TIME_DIFFERENCE(n, t) + 1
    BY <1>2 DEF TIME_DIFFERENCE
  <2> QED  BY <2>1, <2>2
<1> QED  BY <1>1, <1>2

LEMMA DifferenceType ==
    ASSUME NEW n \in 0 .. Wrap - 1, NEW t \in 0 .. Wrap - 1
    PROVE  TIME_DIFFERENCE(n, t) \in 0 .. Wrap - 1 /\ TIME_DIFFERENCE(n, n) = 0
BY DEF TIME_DIFFERENCE

(* An event posted is what agv reports in the end; one taken is not missed.*)
LEMMA PostedIsReported ==
    ASSUME TypeOK, NEW e \in {"ERROR", "ERROR_RECOVERY"}, mtevtQ' = Append(mtevtQ, e)
    PROVE  mtevtQ' \in Seq({"ERROR", "ERROR_RECOVERY"}) /\ (Reported' <=> e = "ERROR")
<1>1. mtevtQ \in Seq({"ERROR", "ERROR_RECOVERY"}) /\ Len(mtevtQ) \in Nat
  BY DEF TypeOK
<1>2. /\ mtevtQ' \in Seq({"ERROR", "ERROR_RECOVERY"}) /\ Len(mtevtQ') = Len(mtevtQ) + 1
      /\ mtevtQ'[Len(mtevtQ) + 1] = e
  BY <1>1
<1>3. mtevtQ' # <<>>
  BY <1>1, <1>2
<1> QED  BY <1>2, <1>3 DEF Reported

LEMMA TakenIsKept ==
    ASSUME TypeOK, AgvTakes
    PROVE  mtevtQ' \in Seq({"ERROR", "ERROR_RECOVERY"}) /\ error' \in BOOLEAN
           /\ (Reported' <=> Reported)
<1> DEFINE E == {"ERROR", "ERROR_RECOVERY"}
<1>1. mtevtQ \in Seq(E) /\ mtevtQ # <<>> /\ mtevtQ' = Tail(mtevtQ)
  BY DEF TypeOK, AgvTakes
<1>2. error' = (Head(mtevtQ) = "ERROR")
  BY DEF AgvTakes
<1> HIDE DEF E
<1>3. /\ Len(mtevtQ) \in Nat \ {0} /\ Head(mtevtQ) = mtevtQ[1]
      /\ mtevtQ' \in Seq(E) /\ Len(mtevtQ') = Len(mtevtQ) - 1
      /\ \A i \in 1 .. Len(mtevtQ) - 1 : mtevtQ'[i] = mtevtQ[i + 1]
  BY <1>1
<1>4. Reported <=> mtevtQ[Len(mtevtQ)] = "ERROR"
  BY <1>1 DEF Reported
<1>5. Reported' <=> Reported
  <2>1. CASE Len(mtevtQ) = 1
    <3>1. mtevtQ' = <<>>
      BY <1>3, <2>1
    <3>2. Reported' <=> error'
      BY <3>1 DEF Reported
    <3> QED  BY <1>2, <1>3, <1>4, <2>1, <3>2
  <2>2. CASE Len(mtevtQ) # 1
    <3>1. Len(mtevtQ') # 0 /\ mtevtQ'[Len(mtevtQ')] = mtevtQ[Len(mtevtQ)]
      BY <1>3, <2>2
    <3>2. mtevtQ' # <<>>
      BY <3>1
    <3> QED  BY <1>4, <3>1, <3>2 DEF Reported
  <2> QED  BY <2>1, <2>2
<1> QED  BY <1>2, <1>3, <1>5 DEF E

-----------------------------------------------------------------------------
LEMMA InitIInv == Init => IInv
<1> SUFFICES ASSUME Init PROVE IInv
  OBVIOUS
<1>1. TypeOK
  <2>1. /\ bms_error \in BOOLEAN /\ error \in BOOLEAN /\ broken \in BOOLEAN
        /\ late \in [Queriers -> BOOLEAN]
        /\ pc \in [Queriers -> {"idle", "compare", "post", "set", "send"}]
    BY DEF Init
  <2>2. /\ now \in 0 .. Wrap - 1 /\ power_update_time \in 0 .. Wrap - 1
        /\ tm \in [Queriers -> 0 .. Wrap - 1] /\ since \in 0 .. Period
        /\ silence \in 0 .. Limit + 1 /\ charges \in 0 .. MaxCharges
    BY DEF Init
  <2>3. mtevtQ \in Seq({"ERROR", "ERROR_RECOVERY"})
    BY DEF Init
  <2> QED  BY <2>1, <2>2, <2>3 DEF TypeOK
<1>2. /\ \A t \in Queriers : pc[t] = "idle"
      /\ pc["bms"] = "idle" /\ ~Reported /\ ~bms_error
  BY DEF Init, Reported
<1>3. TIME_DIFFERENCE(now, power_update_time) = silence
  BY DifferenceType DEF Init
<1> QED  BY <1>1, <1>2, <1>3 DEF IInv, Measured, AlarmJustified, AlarmFlagged, Alone

(* A step of a query moves its task and leaves the others where they are.  *)
LEMMA GotoIs ==
    ASSUME TypeOK, NEW t \in Queriers, NEW l \in {"idle", "compare", "post", "set", "send"},
           Goto(t, l)
    PROVE  /\ pc' \in [Queriers -> {"idle", "compare", "post", "set", "send"}]
           /\ pc'[t] = l /\ \A u \in Queriers \ {t} : pc'[u] = pc[u]
BY DEF TypeOK, Goto

LEMMA QueryIInv ==
    ASSUME IInv, NEW t \in Queriers, Query(t)
    PROVE  IInv'
<1> USE DEF watchVars, evtVars, timeVars
<1>a. /\ TypeOK /\ Measured /\ AlarmJustified /\ AlarmFlagged /\ Alone /\ pc[t] = "idle"
      /\ UNCHANGED <<watchVars, evtVars, timeVars, broken>> /\ Reported' = Reported
  BY DEF IInv, Query, Reported
<1>b. charges' \in 0 .. MaxCharges /\ (charges' = 0 => charges = 0 /\ t = "bms")
  BY <1>a DEF Query, TypeOK
<1>1. CASE bms_error
  <2>1. Goto(t, "send") /\ UNCHANGED <<tm, late>>
    BY <1>1 DEF Query
  <2>2. /\ pc' \in [Queriers -> {"idle", "compare", "post", "set", "send"}]
        /\ pc'[t] = "send" /\ \A u \in Queriers \ {t} : pc'[u] = pc[u]
    BY <2>1, <1>a, GotoIs
  <2>3. TypeOK'
    BY <1>a, <1>b, <2>1, <2>2 DEF TypeOK
  <2>4. Measured' /\ AlarmJustified' /\ AlarmFlagged'
    BY <1>a, <2>1, <2>2 DEF Measured, AlarmJustified, AlarmFlagged
  <2>5. Alone'
    BY <1>a, <1>b, <2>1, <2>2 DEF Alone
  <2> QED  BY <2>3, <2>4, <2>5 DEF IInv
<1>2. CASE ~bms_error
  <2>1. /\ Goto(t, "compare") /\ tm' = [tm EXCEPT ![t] = now]
        /\ late' = [late EXCEPT ![t] = FALSE]
    BY <1>2 DEF Query, OSTimeGet
  <2>2. /\ pc' \in [Queriers -> {"idle", "compare", "post", "set", "send"}]
        /\ pc'[t] = "compare" /\ \A u \in Queriers \ {t} : pc'[u] = pc[u]
    BY <2>1, <1>a, GotoIs
  <2>3. /\ tm'[t] = now /\ \A u \in Queriers \ {t} : tm'[u] = tm[u] /\ late'[u] = late[u]
        /\ tm' \in [Queriers -> 0 .. Wrap - 1]
    BY <2>1, <1>a DEF TypeOK
  <2>4. late' \in [Queriers -> BOOLEAN]
    BY <2>1, <1>a DEF TypeOK
  <2>5. TypeOK'
    BY <1>a, <1>b, <2>2, <2>3, <2>4 DEF TypeOK
  <2>6. Measured'
    <3>1. silence <= Limit => TIME_DIFFERENCE(now, power_update_time) <= silence
      BY <1>a DEF Measured, TypeOK
    <3> QED  BY <1>a, <2>2, <2>3, <3>1 DEF Measured
  <2>7. AlarmJustified' /\ AlarmFlagged'
    BY <1>a, <2>2, <2>3 DEF AlarmJustified, AlarmFlagged
  <2>8. Alone'
    BY <1>a, <1>b, <1>2, <2>2 DEF Alone
  <2> QED  BY <2>5, <2>6, <2>7, <2>8 DEF IInv
<1> QED  BY <1>1, <1>2

LEMMA CompareIInv ==
    ASSUME IInv, NEW t \in Queriers, Compare(t)
    PROVE  IInv'
<1> USE DEF watchVars, evtVars, timeVars
<1>a. /\ TypeOK /\ Measured /\ AlarmJustified /\ AlarmFlagged /\ Alone /\ pc[t] = "compare"
      /\ UNCHANGED <<watchVars, tm, charges, evtVars, timeVars, broken, late>>
      /\ Reported' = Reported
  BY DEF IInv, Compare, Reported
<1> DEFINE l == IF TIME_DIFFERENCE(tm[t], power_update_time) > Limit THEN "post" ELSE "send"
<1>1. l \in {"post", "send"} /\ Goto(t, l)
  BY DEF Compare
<1>2. /\ pc' \in [Queriers -> {"idle", "compare", "post", "set", "send"}]
      /\ pc'[t] = l /\ \A u \in Queriers \ {t} : pc'[u] = pc[u]
  BY <1>a, <1>1, GotoIs
<1>3. TypeOK'
  BY <1>a, <1>2 DEF TypeOK
<1>4. Measured' /\ AlarmFlagged'
  BY <1>a, <1>1, <1>2 DEF Measured, AlarmFlagged
<1>5. AlarmJustified'
  <2>1. l = "post" => late[t] \/ silence > Limit
    <3>1. silence \in 0 .. Limit + 1 /\ TIME_DIFFERENCE(tm[t], power_update_time) \in 0 .. Wrap - 1
      BY <1>a, DifferenceType DEF TypeOK
    <3> QED  BY <1>a, <3>1 DEF Measured
  <2> HIDE DEF l
  <2> QED  BY <1>a, <1>2, <2>1 DEF AlarmJustified
<1>6. Alone'
  <2>1. t # "bms" => charges # 0
    BY <1>a DEF Alone
  <2> QED  BY <1>a, <1>1, <1>2, <2>1 DEF Alone
<1> QED  BY <1>3, <1>4, <1>5, <1>6 DEF IInv

LEMMA PostIInv ==
    ASSUME IInv, NEW t \in Queriers, Post(t)
    PROVE  IInv'
<1> USE DEF watchVars, timeVars
<1>a. /\ TypeOK /\ Measured /\ AlarmJustified /\ AlarmFlagged /\ Alone /\ pc[t] = "post"
      /\ mtevtQ' = Append(mtevtQ, "ERROR") /\ Goto(t, "set")
      /\ UNCHANGED <<watchVars, tm, charges, error, timeVars, broken, late>>
  BY DEF IInv, Post
<1>1. /\ pc' \in [Queriers -> {"idle", "compare", "post", "set", "send"}]
      /\ pc'[t] = "set" /\ \A u \in Queriers \ {t} : pc'[u] = pc[u]
  BY <1>a, GotoIs
<1>2. mtevtQ' \in Seq({"ERROR", "ERROR_RECOVERY"}) /\ Reported'
  BY <1>a, PostedIsReported
<1>3. TypeOK'
  BY <1>a, <1>1, <1>2 DEF TypeOK
<1>4. Measured' /\ AlarmJustified' /\ AlarmFlagged'
  BY <1>a, <1>1 DEF Measured, AlarmJustified, AlarmFlagged
<1>5. Alone'
  <2>1. t # "bms" => charges # 0
    BY <1>a DEF Alone
  <2> QED  BY <1>a, <1>1, <1>2, <2>1 DEF Alone
<1> QED  BY <1>3, <1>4, <1>5 DEF IInv

LEMMA SetIInv ==
    ASSUME IInv, NEW t \in Queriers, Set(t)
    PROVE  IInv'
<1> USE DEF evtVars, timeVars
<1>a. /\ TypeOK /\ Measured /\ AlarmJustified /\ AlarmFlagged /\ Alone /\ pc[t] = "set"
      /\ bms_error' = TRUE /\ Goto(t, "send")
      /\ UNCHANGED <<power_update_time, tm, charges, evtVars, timeVars, broken, late>>
      /\ Reported' = Reported
  BY DEF IInv, Set, Flag, Reported
<1>1. /\ pc' \in [Queriers -> {"idle", "compare", "post", "set", "send"}]
      /\ pc'[t] = "send" /\ \A u \in Queriers \ {t} : pc'[u] = pc[u]
  BY <1>a, GotoIs
<1>2. TypeOK'
  BY <1>a, <1>1 DEF TypeOK
<1>3. Measured' /\ AlarmJustified' /\ AlarmFlagged'
  BY <1>a, <1>1 DEF Measured, AlarmJustified, AlarmFlagged
<1>4. Alone'
  <2>1. t # "bms" => charges # 0
    BY <1>a DEF Alone
  <2> QED  BY <1>a, <1>1, <2>1 DEF Alone
<1> QED  BY <1>2, <1>3, <1>4 DEF IInv

LEMMA SendIInv ==
    ASSUME IInv, NEW t \in Queriers, Send(t)
    PROVE  IInv'
<1> USE DEF watchVars, evtVars
<1>a. /\ TypeOK /\ Measured /\ AlarmJustified /\ AlarmFlagged /\ Alone /\ pc[t] = "send"
      /\ Goto(t, "idle") /\ since' \in 0 .. Period
      /\ UNCHANGED <<watchVars, tm, charges, evtVars, now, silence, broken, late>>
      /\ Reported' = Reported
  BY DEF IInv, Send, Reported, TypeOK
<1>1. /\ pc' \in [Queriers -> {"idle", "compare", "post", "set", "send"}]
      /\ pc'[t] = "idle" /\ \A u \in Queriers \ {t} : pc'[u] = pc[u]
  BY <1>a, GotoIs
<1>2. TypeOK'
  BY <1>a, <1>1 DEF TypeOK
<1>3. Measured' /\ AlarmJustified' /\ AlarmFlagged'
  BY <1>a, <1>1 DEF Measured, AlarmJustified, AlarmFlagged
<1>4. Alone'
  BY <1>a, <1>1 DEF Alone
<1> QED  BY <1>2, <1>3, <1>4 DEF IInv

LEMMA FrameIInv ==
    ASSUME IInv, Frame
    PROVE  IInv'
<1> USE DEF taskVars
<1>a. /\ TypeOK /\ Measured /\ AlarmJustified /\ AlarmFlagged /\ Alone
      /\ power_update_time' = now /\ silence' = 0 /\ late' = [t \in Queriers |-> TRUE]
      /\ UNCHANGED <<taskVars, error, now, since, broken>>
  BY DEF IInv, Frame
<1>1. /\ mtevtQ' \in Seq({"ERROR", "ERROR_RECOVERY"}) /\ ~bms_error'
      /\ (bms_error /\ ~Reported') \/ (~bms_error /\ Reported' = Reported)
  <2>1. CASE bms_error
    <3>1. mtevtQ' = Append(mtevtQ, "ERROR_RECOVERY") /\ bms_error' = FALSE
      BY <2>1 DEF Frame, Recover
    <3> QED  BY <2>1, <3>1, <1>a, PostedIsReported
  <2>2. CASE ~bms_error
    BY <2>2, <1>a DEF Frame, Recover, Reported, TypeOK
  <2> QED  BY <2>1, <2>2
<1>2. TypeOK'
  <2>1. late' \in [Queriers -> BOOLEAN] /\ bms_error' \in BOOLEAN
    BY <1>a, <1>1 DEF Frame, Recover, TypeOK
  <2> QED  BY <1>a, <1>1, <2>1 DEF TypeOK
<1>3. Measured' /\ AlarmJustified'
  <2>1. TIME_DIFFERENCE(now, power_update_time)' = silence'
    BY <1>a, DifferenceType DEF TypeOK
  <2> QED  BY <1>a, <2>1 DEF Measured, AlarmJustified
<1>4. AlarmFlagged'
  BY <1>a, <1>1 DEF AlarmFlagged
<1>5. Alone'
  BY <1>a, <1>1 DEF Alone
<1> QED  BY <1>2, <1>3, <1>4, <1>5 DEF IInv

LEMMA AgvTakesIInv ==
    ASSUME IInv, AgvTakes
    PROVE  IInv'
<1> USE DEF watchVars, taskVars, timeVars
<1>a. /\ TypeOK /\ Measured /\ AlarmJustified /\ AlarmFlagged /\ Alone
      /\ UNCHANGED <<watchVars, taskVars, timeVars, broken, late>>
  BY DEF IInv, AgvTakes
<1>1. /\ mtevtQ' \in Seq({"ERROR", "ERROR_RECOVERY"}) /\ error' \in BOOLEAN
      /\ (Reported' <=> Reported)
  BY <1>a, TakenIsKept
<1>2. TypeOK'
  BY <1>a, <1>1 DEF TypeOK
<1>3. Measured' /\ AlarmJustified' /\ AlarmFlagged'
  BY <1>a, <1>1 DEF Measured, AlarmJustified, AlarmFlagged
<1>4. Alone'
  BY <1>a, <1>1 DEF Alone
<1> QED  BY <1>2, <1>3, <1>4 DEF IInv

LEMMA TickIInv ==
    ASSUME IInv, Tick
    PROVE  IInv'
<1> USE DEF watchVars, taskVars, evtVars
<1>a. /\ TypeOK /\ Measured /\ AlarmJustified /\ AlarmFlagged /\ Alone
      /\ now' = (now + 1) % Wrap /\ since' = since + 1 /\ since < Period
      /\ silence' = IF silence > Limit THEN silence ELSE silence + 1
      /\ UNCHANGED <<watchVars, taskVars, evtVars, broken, late>> /\ Reported' = Reported
  BY DEF IInv, Tick, Reported
<1>b. /\ now \in 0 .. Wrap - 1 /\ power_update_time \in 0 .. Wrap - 1
      /\ since \in 0 .. Period /\ silence \in 0 .. Limit + 1
      /\ \A t \in Queriers : tm[t] \in 0 .. Wrap - 1
  BY <1>a DEF TypeOK
<1>1. now' \in 0 .. Wrap - 1 /\ since' \in 0 .. Period /\ silence' \in 0 .. Limit + 1
  BY <1>a, <1>b, NextTick
<1>2. TypeOK'
  BY <1>a, <1>1 DEF TypeOK
<1>3. silence' <= Limit => silence <= Limit /\ silence' = silence + 1
  BY <1>a, <1>b
<1>4. Measured'
  <2>1. silence' <= Limit => TIME_DIFFERENCE(now', power_update_time) = silence'
    <3>1. Limit < Wrap - 1
      BY <1>b
    <3>2. silence' <= Limit => TIME_DIFFERENCE(now, power_update_time) = silence
      BY <1>a, <1>3 DEF Measured
    <3> QED  BY <1>a, <1>b, <1>3, <3>1, <3>2, DifferenceGrows
  <2>2. \A t \in Queriers : TIME_DIFFERENCE(tm[t], power_update_time) \in 0 .. Wrap - 1
    BY <1>b, DifferenceType
  <2> QED  BY <1>a, <1>b, <1>3, <2>1, <2>2 DEF Measured
<1>5. AlarmJustified'
  BY <1>a, <1>b DEF AlarmJustified
<1>6. AlarmFlagged' /\ Alone'
  BY <1>a DEF AlarmFlagged, Alone
<1> QED  BY <1>2, <1>4, <1>5, <1>6 DEF IInv

LEMMA RestIInv ==
    ASSUME IInv, Break \/ UNCHANGED vars
    PROVE  IInv'
<1> USE DEF vars, watchVars, taskVars, evtVars, timeVars
<1>1. TypeOK' /\ UNCHANGED <<watchVars, taskVars, evtVars, timeVars, late>>
  BY DEF IInv, TypeOK, Break
<1>2. Measured' /\ AlarmJustified' /\ AlarmFlagged' /\ Alone'
  BY <1>1 DEF IInv, Measured, AlarmJustified, AlarmFlagged, Alone, Reported
<1> QED  BY <1>1, <1>2 DEF IInv

THEOREM InductiveIInv == Spec => []IInv
<1>1. IInv /\ [Next]_vars => IInv'
  BY QueryIInv, CompareIInv, PostIInv, SetIInv, SendIInv, FrameIInv, AgvTakesIInv, TickIInv,
     RestIInv DEF Next, QueryStep
<1> QED  BY <1>1, InitIInv, PTL DEF Spec

(* Every variable has a value the code can give it.                        *)
THEOREM TypeCorrect == Spec => []TypeOK
<1>1. IInv => TypeOK
  BY DEF IInv
<1> QED  BY <1>1, InductiveIInv, PTL

(* No alarm before the battery has been silent for the limit, however many *)
(* tasks query and whenever the clock overflows, except when a frame       *)
(* overtakes a query that has read the clock.                              *)
THEOREM AlarmAfterSilence == Spec => []AlarmJustified
<1>1. IInv => AlarmJustified
  BY DEF IInv
<1> QED  BY <1>1, InductiveIInv, PTL

(* Once everything is taken an alarm agv reports is one the watch will     *)
(* take back, and while bms alone queries agv reports each.                *)
THEOREM AlarmAgrees == Spec => []FlagAgrees
<1>1. IInv => FlagAgrees
  BY DEF IInv, AlarmFlagged, Alone, FlagAgrees, Settled, Reported
<1> QED  BY <1>1, InductiveIInv, PTL

(* Every alarm has its cause, whatever the clock and whoever queries.      *)
THEOREM WatchSafe == Spec => []WatchInv
<1>1. TypeOK /\ AlarmJustified => WatchInv
  BY DEF WatchInv
<1> QED  BY <1>1, TypeCorrect, AlarmAfterSilence, PTL
=============================================================================
