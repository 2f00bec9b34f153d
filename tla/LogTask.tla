-------------------------------- MODULE LogTask --------------------------------
(***************************************************************************)
(* The log: usr/common/log_print.c with its buffer switched on.            *)
(*                                                                         *)
(* A task that logs formats its text into tmp_logbuf, which all tasks      *)
(* share, copies it to the ring under the mutex and sets the flag when the *)
(* ring is filled by a third or the text ends with a line end.  log_task   *)
(* waits for the flag, consumes it and empties the ring.  A timer sets the *)
(* flag now and then.                                                      *)
(*                                                                         *)
(* A task is named by its priority, the smallest is the highest.  A task   *)
(* runs only while no higher one is ready, and may be preempted between    *)
(* any two steps; the mutexes inherit no priority.  That the ring is a     *)
(* queue that drops its oldest is what CircBuf shows.                      *)
(*                                                                         *)
(* The interrupt of CAN2 logs as well when its ring of frames is full.  It *)
(* cannot wait for the mutex, and log_printf() does not look at the error: *)
(* it writes to the ring whoever has it.  Then which of them has moved     *)
(* head and tail last, and so how much of the ring is left, is open.       *)
(***************************************************************************)
EXTENDS Naturals, Sequences

CONSTANTS
    Writers,    (* the tasks that log                                      *)
    Cap,        (* the ring holds Cap, LOG_BUFFER_SIZE - 1 in the code     *)
    Chunk,      (* log_task takes up to so many at once                    *)
    MaxLen,     (* the longest text                                        *)
    MaxTexts    (* bound: texts logged                                     *)

LOG_TASK_PRIOR  == 22
ROOTTASK_PRIO == 18
Tasks           == Writers \cup {LOG_TASK_PRIOR}

ASSUME LogTaskAssumption ==
    /\ Writers \subseteq Nat \ {0, LOG_TASK_PRIOR, ROOTTASK_PRIO}
    /\ Cap \in Nat \ {0} /\ Chunk \in Nat \ {0}
    /\ MaxLen \in 1 .. Cap /\ MaxTexts \in Nat

(* A character of tmp_logbuf is whether it ends a line.  In the ring it is *)
(* the text it was written for, which is history: texts are numbered, 0 is *)
(* that of the interrupt and what was left in the ring from earlier.       *)
Nobody == 0

VARIABLES
    tmp_logbuf, ring,
    mutex, list_lock,   (* who holds it, 0: nobody                         *)
    signal,             (* the flag                                        *)
    registered,         (* the output to the UART is in callback_list      *)
    pc,                 (* where each task is                              *)
    text, len, nl,      (* per writer: its text                            *)
    k,                  (* per writer: the loop of vsprintf() or memcpy()  *)
    flush,              (* per writer                                      *)
    buf,                (* of log_task                                     *)
    hit,                (* what the interrupt has written since the mutex  *)
                        (* was taken                                       *)
    texts               (* history: texts so far                           *)

lockVars == <<mutex, list_lock>>
myVars   == <<text, len, nl, k, flush>>
vars == <<tmp_logbuf, ring, lockVars, signal, registered, pc, myVars, buf, hit, texts>>

Init ==
    /\ tmp_logbuf = [j \in 1 .. MaxLen |-> FALSE] /\ ring = <<>>
    /\ mutex = 0 /\ list_lock = 0 /\ signal = FALSE /\ registered = TRUE
    /\ pc = [t \in Tasks |-> IF t = LOG_TASK_PRIOR THEN "wait" ELSE "idle"]
    /\ text = [w \in Writers |-> 0] /\ len = [w \in Writers |-> 1]
    /\ nl = [w \in Writers |-> FALSE]
    /\ k = [w \in Writers |-> 1] /\ flush = [w \in Writers |-> FALSE]
    /\ buf = <<>> /\ hit = 0 /\ texts = 0

Goto(t, l) == pc' = [pc EXCEPT ![t] = l]

(* The scheduler: t waits for nothing; nobody above t is ready.            *)
Ready(t) ==
    CASE pc[t] = "idle"    -> FALSE
      [] pc[t] = "wait"    -> signal
      [] pc[t] = "lock"    -> mutex = 0
      [] pc[t] = "outlock" -> list_lock = 0
      [] OTHER             -> TRUE
MayRun(t) == \A u \in Tasks : u < t => ~Ready(u)

-----------------------------------------------------------------------------
(* log_printf(), in w.                                                     *)

Log(w) == \E n \in 1 .. MaxLen, e \in BOOLEAN :
    /\ pc[w] = "idle" /\ MayRun(w) /\ texts < MaxTexts
    /\ texts' = texts + 1
    /\ text' = [text EXCEPT ![w] = texts']
    /\ len' = [len EXCEPT ![w] = n] /\ nl' = [nl EXCEPT ![w] = e]
    /\ k' = [k EXCEPT ![w] = 1]
    /\ Goto(w, "format")
    /\ UNCHANGED <<tmp_logbuf, ring, lockVars, signal, registered, flush, buf, hit>>

(* vsprintf(), character by character.                                     *)
Format(w) ==
    /\ pc[w] = "format" /\ MayRun(w)
    /\ tmp_logbuf' = [tmp_logbuf EXCEPT ![k[w]] = nl[w] /\ k[w] = len[w]]
    /\ IF k[w] < len[w] THEN k' = [k EXCEPT ![w] = @ + 1] /\ UNCHANGED pc
       ELSE k' = [k EXCEPT ![w] = 1] /\ Goto(w, "lock")
    /\ UNCHANGED <<ring, lockVars, signal, registered, text, len, nl, flush, buf, hit, texts>>

(* Mutant of Lock: the ring is not protected.                              *)
NoLock(t) == UNCHANGED mutex

Lock(t) == mutex = 0 /\ mutex' = t

Pend(w) ==
    /\ pc[w] = "lock" /\ MayRun(w) /\ Lock(w)
    /\ Goto(w, "copy")
    /\ UNCHANGED <<tmp_logbuf, ring, list_lock, signal, registered, myVars, buf, hit, texts>>

Last(s, n) == SubSeq(s, Len(s) - n + 1, Len(s))
Newest(s)  == IF Len(s) > Cap THEN Last(s, Cap) ELSE s
Nobodys(n) == [j \in 1 .. n |-> Nobody]

(* memcpy() to the ring.  head is moved after it, which nobody but the     *)
(* interrupt could tell: if it has written, either may be the last one to  *)
(* move head and tail.                                                     *)
Put(w) ==
    LET s == Newest(Append(ring, text[w]))
    IN  IF k[w] < len[w] \/ hit = 0 THEN ring' = s
        ELSE \E m \in 0 .. hit : \E n \in 0 .. Len(s \o Nobodys(m)) :
                 n <= Cap /\ ring' = Last(s \o Nobodys(m), n)

(* At its end the filling is looked at, as it is then.                     *)
Copy(w) ==
    /\ pc[w] = "copy" /\ MayRun(w)
    /\ Put(w)
    /\ IF k[w] < len[w]
       THEN k' = [k EXCEPT ![w] = @ + 1] /\ UNCHANGED <<pc, mutex, hit, flush>>
       ELSE /\ \E full \in BOOLEAN :
                    /\ hit = 0 => full = (Len(ring') > (Cap + 1) \div 3)
                    /\ flush' = [flush EXCEPT ![w] = full]
            /\ mutex' = 0 /\ hit' = 0 /\ Goto(w, "flush")
            /\ UNCHANGED k
    /\ UNCHANGED <<tmp_logbuf, list_lock, signal, registered, text, len, nl, buf, texts>>

Flush(w) ==
    /\ pc[w] = "flush" /\ MayRun(w)
    /\ signal' = (signal \/ flush[w])
    /\ Goto(w, "test")
    /\ UNCHANGED <<tmp_logbuf, ring, lockVars, registered, myVars, buf, hit, texts>>

(* log_put() reads the shared buffer once more; its variables end with it. *)
LineEnd(w) ==
    /\ pc[w] = "test" /\ MayRun(w)
    /\ signal' = (signal \/ tmp_logbuf[len[w]])
    /\ Goto(w, "idle")
    /\ text' = [text EXCEPT ![w] = 0] /\ len' = [len EXCEPT ![w] = 1]
    /\ nl' = [nl EXCEPT ![w] = FALSE] /\ k' = [k EXCEPT ![w] = 1]
    /\ flush' = [flush EXCEPT ![w] = FALSE]
    /\ UNCHANGED <<tmp_logbuf, ring, lockVars, registered, buf, hit, texts>>

WriterStep(w) == Log(w) \/ Format(w) \/ Pend(w) \/ Copy(w) \/ Flush(w) \/ LineEnd(w)

-----------------------------------------------------------------------------
(* log_task(), out_put() and read_circbuf().                               *)

At(l) == pc[LOG_TASK_PRIOR] = l /\ MayRun(LOG_TASK_PRIOR)

Wait ==
    /\ At("wait") /\ signal
    /\ signal' = FALSE
    /\ Goto(LOG_TASK_PRIOR, "lock")
    /\ UNCHANGED <<tmp_logbuf, ring, lockVars, registered, myVars, buf, hit, texts>>

ReadLock ==
    /\ At("lock") /\ Lock(LOG_TASK_PRIOR)
    /\ Goto(LOG_TASK_PRIOR, "read")
    /\ UNCHANGED <<tmp_logbuf, ring, list_lock, signal, registered, myVars, buf, hit, texts>>

Some == IF Len(ring) < Chunk THEN Len(ring) ELSE Chunk

Read ==
    /\ At("read")
    /\ IF hit = 0 THEN buf' = SubSeq(ring, 1, Some) /\ ring' = Last(ring, Len(ring) - Some)
       ELSE \E m \in 0 .. Some, n \in 0 .. Len(ring) :
                buf' = SubSeq(ring, 1, m) /\ ring' = Last(ring, n)
    /\ mutex' = 0 /\ hit' = 0
    /\ Goto(LOG_TASK_PRIOR, "some")
    /\ UNCHANGED <<tmp_logbuf, list_lock, signal, registered, myVars, texts>>

(* Mutant of Again: after an empty read the flag is cleared.               *)
ClearAgain ==
    /\ At("some")
    /\ IF buf = <<>> THEN Goto(LOG_TASK_PRIOR, "wait") /\ signal' = FALSE
       ELSE Goto(LOG_TASK_PRIOR, "outlock") /\ UNCHANGED signal
    /\ UNCHANGED <<tmp_logbuf, ring, lockVars, registered, myVars, buf, hit, texts>>

Again ==
    /\ At("some")
    /\ Goto(LOG_TASK_PRIOR, IF buf = <<>> THEN "wait" ELSE "outlock")
    /\ UNCHANGED <<tmp_logbuf, ring, lockVars, signal, registered, myVars, buf, hit, texts>>

OutLock ==
    /\ At("outlock") /\ list_lock = 0
    /\ list_lock' = LOG_TASK_PRIOR
    /\ Goto(LOG_TASK_PRIOR, IF registered THEN "call" ELSE "outunlock")
    /\ UNCHANGED <<tmp_logbuf, ring, mutex, signal, registered, myVars, buf, hit, texts>>

Call ==
    /\ At("call")
    /\ Goto(LOG_TASK_PRIOR, "outunlock")
    /\ UNCHANGED <<tmp_logbuf, ring, lockVars, signal, registered, myVars, buf, hit, texts>>

OutUnlock ==
    /\ At("outunlock")
    /\ list_lock' = 0 /\ buf' = <<>>
    /\ Goto(LOG_TASK_PRIOR, "lock")
    /\ UNCHANGED <<tmp_logbuf, ring, mutex, signal, registered, myVars, hit, texts>>

LogStep == Wait \/ ReadLock \/ Read \/ Again \/ OutLock \/ Call \/ OutUnlock

-----------------------------------------------------------------------------
MayChangeList == list_lock = 0

(* log_unregister_outputcb(), by root at the end of the start-up.          *)
Unregister ==
    /\ registered /\ MayRun(ROOTTASK_PRIO) /\ MayChangeList
    /\ registered' = FALSE
    /\ UNCHANGED <<tmp_logbuf, ring, lockVars, signal, pc, myVars, buf, hit, texts>>

(* Mutant of FlushTimer: the timer was never started.                      *)
NoTimer == FALSE /\ UNCHANGED vars

(* flush_tmr_callback(), in the timer task.                                *)
FlushTimer ==
    /\ ~signal /\ signal' = TRUE
    /\ UNCHANGED <<tmp_logbuf, ring, lockVars, registered, pc, myVars, buf, hit, texts>>

(* Can2_RX_ISR() logs that the ring of frames is full, a text with a line  *)
(* end.  If a task is copying, the text goes to the place the task copies  *)
(* to, until the task moves head; or it comes between the two halves of    *)
(* one that wraps around.  One that has gone all around is everywhere.     *)
Interrupt == \E n \in 1 .. MaxLen :
    /\ texts < MaxTexts /\ texts' = texts + 1
    /\ tmp_logbuf' = [j \in 1 .. MaxLen |-> IF j <= n THEN j = n ELSE tmp_logbuf[j]]
    /\ \/ ring' = Newest(ring \o Nobodys(n))
       \/ mutex \in Writers /\ \E spoilt \in SUBSET DOMAIN ring :
              /\ \A i \in spoilt : ring[i] = text[mutex] \/ hit + n > Cap
              /\ ring' = [i \in DOMAIN ring |-> IF i \in spoilt THEN Nobody ELSE ring[i]]
    /\ hit' = IF mutex = 0 THEN 0 ELSE hit + n
    /\ signal' = TRUE
    /\ UNCHANGED <<lockVars, registered, pc, myVars, buf>>

Next ==
    \/ \E w \in Writers : WriterStep(w)
    \/ LogStep \/ Unregister \/ FlushTimer \/ Interrupt

Spec == Init /\ [][Next]_vars

(* The tasks run, and the timer ticks.                                     *)
FairSpec ==
    /\ Spec
    /\ \A w \in Writers : WF_vars(pc[w] # "idle" /\ WriterStep(w))
    /\ WF_vars(LogStep) /\ WF_vars(FlushTimer)

-----------------------------------------------------------------------------
(* Every variable has a value the code can give it.                        *)
TypeOK ==
    /\ tmp_logbuf \in [1 .. MaxLen -> BOOLEAN]
    /\ ring \in Seq(Nat) /\ Len(ring) <= Cap /\ hit \in Nat
    /\ mutex \in Tasks \cup {0} /\ list_lock \in {0, LOG_TASK_PRIOR}
    /\ signal \in BOOLEAN /\ registered \in BOOLEAN
    /\ pc \in [Tasks -> {"idle", "format", "lock", "copy", "flush", "test", "wait",
                         "read", "some", "outlock", "call", "outunlock"}]
    /\ text \in [Writers -> 0 .. MaxTexts] /\ texts \in 0 .. MaxTexts
    /\ len \in [Writers -> 1 .. MaxLen] /\ k \in [Writers -> 1 .. MaxLen]
    /\ nl \in [Writers -> BOOLEAN] /\ flush \in [Writers -> BOOLEAN]
    /\ buf \in Seq(Nat) /\ Len(buf) <= Chunk

(* The tasks' texts are in the ring one after the other: whatever a text   *)
(* has become in tmp_logbuf, and whenever the interrupt writes across it,  *)
(* no other task's text is between its characters.                         *)
Contiguous ==
    \A i, j \in DOMAIN ring : i < j /\ ring[i] = ring[j] /\ ring[i] # Nobody =>
        \A m \in i .. j : ring[m] \in {Nobody, ring[i]}

(* A ring filled by a third does not wait for the timer: the flag is set,  *)
(* or about to be, whenever log_task goes to sleep on it.                  *)
WakeupNotLost ==
    pc[LOG_TASK_PRIOR] = "wait" /\ Len(ring) > (Cap + 1) \div 3 =>
        \/ signal
        \/ \E w \in Writers : pc[w] = "copy" \/ (pc[w] = "flush" /\ flush[w])

(* log_task never calls an output that has been taken off the list.        *)
CalledRegistered == pc[LOG_TASK_PRIOR] = "call" => registered

(* So the locks keep apart what they are meant to keep apart.              *)
LogInv == TypeOK /\ Contiguous /\ CalledRegistered

(* All that is logged leaves the ring, also a text whose line end another  *)
(* task has overwritten in tmp_logbuf before log_put() looked at it.       *)
Emptied == ring # <<>> ~> ring = <<>>
=============================================================================
