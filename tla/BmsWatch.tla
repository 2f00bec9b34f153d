------------------------------- MODULE BmsWatch -------------------------------
(***************************************************************************)
(* The watch on the battery: usr/application/bms.c.                        *)
(*                                                                         *)
(* query_battery_info_tmrcb() raises an alarm when the battery has been    *)
(* silent for 30 s; can_msg_process() takes it back with the next frame.   *)
(* The query is run by bms every 5 s and, through bms_charge(), by agvcp   *)
(* or agv whenever the charger is switched.                                *)
(*                                                                         *)
(* can has a higher priority than all of them and does not block here, so  *)
(* a frame is one step that may come between any two steps of a query.     *)
(* None of the queriers blocks before the flag is set: one of a higher     *)
(* priority runs through while one of a lower is where it was.             *)
(***************************************************************************)
EXTENDS Naturals, Sequences, FiniteSets

CONSTANTS
    Queriers,    (* the tasks that query                                   *)
    MaxCharges,  (* bound: queries made to switch the charger              *)
    Limit,       (* silence after which the alarm is due, in ticks         *)
    Period,      (* bms queries at least this often, in ticks              *)
    Wrap,        (* the clock counts modulo Wrap, 2^32 in the code         *)
    MaxEvts      (* bound: events agv has not taken when the next frame or *)
                 (* tick comes: agv keeps up                               *)

AllQueriers == {"agvcp", "agv", "bms"}

ASSUME BmsWatchAssumption ==
    /\ Queriers \subseteq AllQueriers /\ "bms" \in Queriers
    /\ MaxCharges \in Nat /\ MaxEvts \in Nat \ {0}
    /\ Limit \in Nat \ {0} /\ Period \in Nat \ {0} /\ Wrap \in Nat
    /\ Limit + 2 * Period < Wrap

VARIABLES
    now,                (* OSTimeGet()                                     *)
    power_update_time, bms_error,
    pc, tm,             (* per querier: where it is, the time it read      *)
    mtevtQ, error,      (* events for agv; the battery's bit of            *)
                        (* agvstat.error                                   *)
    since,              (* ticks since the last query of bms ended         *)
    broken,             (* the battery will not be heard again             *)
    charges,
    silence, late       (* history: ticks since the last frame, up to      *)
                        (* Limit + 1; per querier, a frame came since it   *)
                        (* read the clock                                  *)

watchVars == <<power_update_time, bms_error>>
taskVars  == <<pc, tm, charges>>
evtVars   == <<mtevtQ, error>>
timeVars  == <<now, since, silence>>
vars == <<watchVars, taskVars, evtVars, timeVars, broken, late>>

Init ==
    /\ now = 0 /\ power_update_time = 0 /\ bms_error = FALSE
    /\ pc = [t \in Queriers |-> "idle"] /\ tm = [t \in Queriers |-> 0]
    /\ mtevtQ = <<>> /\ error = FALSE
    /\ since = 0 /\ broken = FALSE /\ charges = 0
    /\ silence = 0 /\ late = [t \in Queriers |-> FALSE]

Goto(t, l) == pc' = [pc EXCEPT ![t] = l]

(* No querier of a higher priority is in the part that does not block.     *)
Above(t)   == CASE t = "agvcp" -> {}
                [] t = "agv"   -> {"agvcp"}
                [] t = "bms"   -> {"agvcp", "agv"}
MayRun(t)  == \A u \in Above(t) \cap Queriers : pc[u] \in {"idle", "send"}

(* Mutant of TIME_DIFFERENCE: plain subtraction, not below 0.              *)
PlainDifference(newtm, oldtm) == IF newtm >= oldtm THEN newtm - oldtm ELSE 0

TIME_DIFFERENCE(newtm, oldtm) ==
    IF newtm >= oldtm THEN newtm - oldtm ELSE Wrap - oldtm + newtm

OSTimeGet == now

-----------------------------------------------------------------------------
(* query_battery_info_tmrcb(), run by t.                                   *)

Query(t) ==
    /\ pc[t] = "idle" /\ MayRun(t)
    /\ t # "bms" => charges < MaxCharges
    /\ charges' = IF t = "bms" THEN charges ELSE charges + 1
    /\ IF bms_error THEN Goto(t, "send") /\ UNCHANGED <<tm, late>>
       ELSE /\ Goto(t, "compare")
            /\ tm' = [tm EXCEPT ![t] = OSTimeGet]
            /\ late' = [late EXCEPT ![t] = FALSE]
    /\ UNCHANGED <<watchVars, evtVars, timeVars, broken>>

(* Mutant of Compare: the alarm is due one tick early.                     *)
CompareEarly(t) ==
    /\ pc[t] = "compare" /\ MayRun(t)
    /\ Goto(t, IF TIME_DIFFERENCE(tm[t], power_update_time) >= Limit THEN "post" ELSE "send")
    /\ UNCHANGED <<watchVars, tm, charges, evtVars, timeVars, broken, late>>

Compare(t) ==
    /\ pc[t] = "compare" /\ MayRun(t)
    /\ Goto(t, IF TIME_DIFFERENCE(tm[t], power_update_time) > Limit THEN "post" ELSE "send")
    /\ UNCHANGED <<watchVars, tm, charges, evtVars, timeVars, broken, late>>

Post(t) ==
    /\ pc[t] = "post" /\ MayRun(t)
    /\ mtevtQ' = Append(mtevtQ, "ERROR")
    /\ Goto(t, "set")
    /\ UNCHANGED <<watchVars, tm, charges, error, timeVars, broken, late>>

(* Mutant of Flag: the flag is set only if no frame came after the alarm.  *)
FlagChecked(t) == bms_error' = (TIME_DIFFERENCE(now, power_update_time) > Limit)

Flag(t) == bms_error' = TRUE

Set(t) ==
    /\ pc[t] = "set" /\ MayRun(t)
    /\ Flag(t)
    /\ Goto(t, "send")
    /\ UNCHANGED <<power_update_time, tm, charges, evtVars, timeVars, broken, late>>

(* The query itself goes out; the task may sleep from here on.             *)
Send(t) ==
    /\ pc[t] = "send"
    /\ Goto(t, "idle")
    /\ since' = IF t = "bms" THEN 0 ELSE since
    /\ UNCHANGED <<watchVars, tm, charges, evtVars, now, silence, broken, late>>

QueryStep(t) == Query(t) \/ Compare(t) \/ Post(t) \/ Set(t) \/ Send(t)

-----------------------------------------------------------------------------
(* can, agv and the clock.                                                 *)

(* Mutant of Recover: the flag is cleared first and then tested.           *)
RecoverSilent == bms_error' = FALSE /\ UNCHANGED mtevtQ

Recover ==
    IF bms_error
    THEN mtevtQ' = Append(mtevtQ, "ERROR_RECOVERY") /\ bms_error' = FALSE
    ELSE UNCHANGED <<mtevtQ, bms_error>>

(* can_msg_process(): a frame of the battery.                              *)
Frame ==
    /\ ~broken /\ Len(mtevtQ) < MaxEvts
    /\ power_update_time' = now
    /\ Recover
    /\ silence' = 0 /\ late' = [t \in Queriers |-> TRUE]
    /\ UNCHANGED <<taskVars, error, now, since, broken>>

(* process_motionctrl_event() in agv, unless agv is at a query itself.     *)
AgvTakes ==
    /\ mtevtQ # <<>>
    /\ MayRun("agv")
    /\ "agv" \in Queriers => pc["agv"] = "idle"
    /\ error' = (Head(mtevtQ) = "ERROR")
    /\ mtevtQ' = Tail(mtevtQ)
    /\ UNCHANGED <<watchVars, taskVars, timeVars, broken, late>>

Tick ==
    /\ since < Period /\ Len(mtevtQ) < MaxEvts
    /\ now' = (now + 1) % Wrap
    /\ since' = since + 1
    /\ silence' = IF silence > Limit THEN silence ELSE silence + 1
    /\ UNCHANGED <<watchVars, taskVars, evtVars, broken, late>>

Break ==
    /\ ~broken /\ broken' = TRUE
    /\ UNCHANGED <<watchVars, taskVars, evtVars, timeVars, late>>

Next ==
    \/ \E t \in Queriers : QueryStep(t)
    \/ Frame \/ AgvTakes \/ Tick \/ Break

Spec == Init /\ [][Next]_vars

(* The clock runs, bms queries for ever, and a battery that is not broken  *)
(* answers now and then.                                                   *)
FairSpec ==
    /\ Spec /\ WF_vars(QueryStep("bms"))
    /\ \A t \in Queriers \ {"bms"} : WF_vars(pc[t] # "idle" /\ QueryStep(t))
    /\ WF_vars(AgvTakes) /\ WF_vars(Tick) /\ WF_vars(Frame)

-----------------------------------------------------------------------------
(* Every variable has a value the code can give it.                        *)
TypeOK ==
    /\ now \in 0 .. Wrap - 1 /\ power_update_time \in 0 .. Wrap - 1
    /\ bms_error \in BOOLEAN /\ error \in BOOLEAN /\ broken \in BOOLEAN
    /\ pc \in [Queriers -> {"idle", "compare", "post", "set", "send"}]
    /\ tm \in [Queriers -> 0 .. Wrap - 1]
    /\ mtevtQ \in Seq({"ERROR", "ERROR_RECOVERY"})
    /\ since \in 0 .. Period /\ silence \in 0 .. Limit + 1
    /\ charges \in 0 .. MaxCharges /\ late \in [Queriers -> BOOLEAN]

(* An alarm is posted only after Limit ticks of silence, the clock's       *)
(* overflow included, except by a query that a frame overtook after it had *)
(* read the clock.                                                         *)
AlarmJustified == \A t \in Queriers : pc[t] = "post" => late[t] \/ silence > Limit

(* So the time of the last frame is one the clock can show and each alarm  *)
(* has its cause.                                                          *)
WatchInv == TypeOK /\ AlarmJustified

(* Whenever no query and no event is under way an alarm agv reports is one *)
(* the watch will take back, though the flag is set after the post; while  *)
(* bms alone has queried agv also reports each alarm of the watch.         *)
Settled     == mtevtQ = <<>> /\ \A t \in Queriers : pc[t] \notin {"post", "set"}
FlagAgrees  ==
    Settled => (error => bms_error) /\ (charges = 0 => (bms_error => error))

(* While the battery is heard an alarm, spurious or not, is taken back.    *)
AlarmTakenBack == error ~> ~error \/ broken

(* When it falls silent for good, the watch notices, however many tasks    *)
(* query; while bms alone has queried the alarm is raised and stays.       *)
SilenceAlarmed ==
    /\ broken ~> []bms_error
    /\ broken ~> [](error \/ charges > 0)
=============================================================================
