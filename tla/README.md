# A TLA+ model of the sAGV firmware

The repository is the firmware of a guided vehicle: an STM32F4 with uC/OS-II, a
scanner that reads 2D codes on the floor, two wheel motors, a dumper that tips
the load, a battery on the CAN bus and a WiFi link (UDP) to a controller that
sends the vehicle its actions. This directory models the part of it that decides
*what the vehicle does next*, checks it with TLC and proves its main safety
properties with TLAPS. Paths are relative to the repository (`src/`).

The commit has `agv_run()` commented out at `usr/application/root.c:174` and
`wifi_init()` at `root.c:129`, as for work on the bench. The models take the
system with both called.

## The system

Everything of interest is in `usr/application` and `usr/common`. The rest is
vendored (uC/OS-II in `ucosii`, the STM32 libraries in `library`, FatFs, minIni,
the RS9113 API, and most of `usr/bsp`).

| task | priority | runs |
| --- | --- | --- |
| motionctrl | 10 | every 20 ms `AGV_Run()` and `reverseTask()` |
| can | 11 | `can_task()`: takes CAN frames from the ring, hands them to scanner and battery |
| agvcp | 13 | `agvcp_task()`: the link to the controller, and with it `process_action_cmd()` |
| agv | 14 | `agv_task()`: motion events, `issue_next_cmd()` |
| bms | 19 | a battery query every 5 s |
| log | 22 | drains the ring of the log |

A lower number is a higher priority. The mutex of the log has no priority
inheritance, so any task may be held up in `APP_TRACE()` by the log task.

### Components, their state and their operations

**Command dispatcher** (`agv.c`). State: the command queue `mtcmdQ` and the pool
`cmdmem` behind it (8 blocks), the event queue `mtevtQ` and `evtmem` (16 blocks),
the lock points `wpQ` and `last_ponit`, the status `agvstat`. Operations:
`process_action_cmd()` (called by agvcp for each action of the controller:
issue at once, or append), `issue_next_cmd()` (called by agv on `ACTION_OVER` and
`POINT_ARRIVAL`), `issue_command()` (both), `motionctrl_event_callback()` (called
by motionctrl, can, bms, and by whoever switches the charger),
`process_motionctrl_event()`, `lock_point()`, `check_and_release_point()`.
Correct when: no command and no block is lost or duplicated; commands start in
the controller's order; every queued command is woken; the status tells what
the vehicle does; an alarm reaches the status and leaves it when it is over.

**Command gate** (`motion_ctrl.c`). `motionctrl_cmd()` refuses a command while the
vehicle is at something else, sleeps 500 ms, and writes `Motionstyle`, `typeOfAction`,
the distance `sRemain` and the number of codes `iPath`, the destination of a turn, or
`nReverseFlag`. A GOSTRAIGHT during a GOSTRAIGHT extends the run. Correct when a
movement under way is never turned into another one, the dumper and the wheels
exclude each other, and distance and codes fit the place the vehicle is at.

**Motion task** (`motion_ctrl/rAGVControl.c`, `reverseMotionControl.c`). State:
`nAgvWorkMode`, `nEvent`, `Motionstyle`, the faults `OutOfTrack` and `GSMissing`, the
distance the wheels measured since the last code, the angle still to turn. Correct
when a run ends on its code and a turn in its quadrant, every action it ends is
reported once, a code that is missed or a silent camera is noticed, and a fault
stops the wheels.

**Dumper** (`motors.c`, `reverseTask()`). `dumper_st`, the time it is held. Correct when it
goes up and is up only while the vehicle stands, is held long enough, comes down,
and each unload is reported once.

**Navigation scanner** (`Navigation.c`). Three kinds of CAN frames: code, angle and
position. Correct when each new code is reported once, and before the motion task
may act on it.

**Battery watch** (`bms.c`). The time of the last frame, the flag of the alarm. Its query is
run by bms and by whoever switches the charger, the frames come in can. Correct
when the alarm is raised after 30 s of silence, not without, and taken back with
the next frame.

**Controller link** (`agvcp.c`). State: the connection state, `txseq`, `rxseq`, the
mutex of the link, the buffer of actions `action_que` and its pool `action_mem`.
Operations: `agvcp_task()` registers the vehicle and then, in turns, receives,
sends a heartbeat and confirms and executes the buffered actions
(`process_buffered_msg()`); `agvcp_notify_event()`, called by agv, reports an end
of action, a code point or an error. Each message of the vehicle but the
heartbeat is sent again until it is answered, by the task that sends it; while
that task waits it handles the requests that arrive (`agvcp_msg_process()`) and
buffers the actions among them. Correct when each action is executed once, in
order and only after its confirmation was answered, no answered action is lost,
and each report is delivered exactly once and in order. A link that breaks is
never noticed: heartbeats are not answered, and `CONNSTATE_ERROR` is unreachable
because `err_cnt` rises only while registering.

**Log** (`log_print.c`) and **UDP console** (`console.c`). Rings that drop the oldest bytes;
the log has a formatting buffer all tasks share, a mutex, a flag with a timer, and
a list of outputs that log_task calls. Correct when a reader sees what was written,
in order, without the oldest; texts are not cut into each other; log_task is woken;
and no output is called that has been taken off its list.

**CAN reception** (`bsp_can.c`, `can_dispatcher.c`). The receiver of the chip, the ring the
interrupt fills, `can_task()` with the lock it shares with the senders. Correct when
frames come out whole and in order, and each that is not overwritten comes out.

**Sliding filter** (`sliding_filter.c`, used in `agv.c`). The last deviations of the camera,
averaged at the end of a run. Correct when it holds the last ones, none from before
a correction, and never leaves its buffer.

**Shell** (`lwshell.c`, `bsp_uart.c`). The ring of the UART, the line editor, the split into
words. Correct when the command that is run is the line that was typed.

Left aside: the control laws (floating point), the handlers of the shell commands,
the configuration file, start-up, the encoder counts, the WiFi glue and the
vendored code; the last section and `PROJECT.json` give the reason for each.

### How they interact, and what is hard about it

```
 controller ==UDP==> agvcp --process_action_cmd--> [mtcmdQ] --+
                       |  issue_command                       | OSQAccept
                       v                                      v
                  motionctrl_cmd <------issue_command------  agv --notify--> agvcp link
                       | Motionstyle, nReverseFlag            ^
                       v                                      | mtevtQ
                   motionctrl --------- ACTION_OVER, ERROR ---+
                   can, bms   --------- POINT_ARRIVAL, ERROR, ERROR_RECOVERY
```

The same code, `issue_command()`, runs in two tasks; it sleeps half a second
between its check and its effect; the state it checks belongs to a third task;
events are counted in a pool that can run out; and a queued command is woken by
one kind of event only. The motion task extends a run on commands that come at
any moment of it, from what can has read a moment ago. Rings are filled in
interrupts. Hardly anything is locked: much is correct only by priorities and by
the order of two assignments. `PROJECT.json` lists the hazards with their lines.

## The modules

| module | what it is |
| --- | --- |
| `Dispatch` | dispatcher, command gate, ends of actions, dumper, alarms: the core |
| `DispatchProofs` | its pools, the places and the order of commands, the wake-ups, the status, the event pool |
| `Waypoints`, `WaypointsProofs` | the lock points of a route, checked at each code; its safety |
| `AgvcpLink` | the link to the controller, its two senders, the network |
| `ReportChannel` | what the link promises the tasks that report: an abstract specification |
| `AgvcpLinkProofs` | its types and pool; it implements `ReportChannel`, and no action is lost, early, doubled or out of order |
| `StraightRun` | a run from code to code and the commands that extend it |
| `SlidingFilter` | extends `StraightRun` by the filter of the deviations: the composition of can, motionctrl and the filter |
| `Turn` | a turn on the spot with a camera that may fall silent |
| `MotionState` | what a run and a turn have in common of the motion task: `Motionstyle`, `nAgvWorkMode`, whether a cycle has passed |
| `MotionProofs` | the safety of `StraightRun`, `SlidingFilter` and `Turn` |
| `Dumper`, `DumperProofs` | the dumper with its clock; its safety |
| `BmsWatch`, `BmsWatchProofs` | the battery watch; its safety |
| `CanRing`, `CanRingProofs` | from the CAN interrupt to the users of the frames; its safety and its refinement |
| `DropOldest` | a queue that drops its oldest: the abstract specification of all three rings |
| `CircBuf` | the rings of the log and of the UDP console, with their index arithmetic |
| `LogTask`, `LogTaskProofs` | the log with the tasks that write it; its safety, and the refinement of `CircBuf` |
| `LineReader` | what an editor of lines promises: the abstract specification of the shell |
| `Shell` | the ring of the UART, `console_run()` and `split_line()` |
| `MC_...` | values of the constants for TLC |

`Dispatch` abstracts what the other modules detail: how a run, a turn or an unload
ends (`StraightRun`, `Turn`, `Dumper`), when a code is called wrong (`Waypoints`), when the
battery alarm is raised (`BmsWatch`), and that a report reaches the controller
(`AgvcpLink`). Each of these takes from `Dispatch` who gives commands and when.

A definition called a mutant in its comment is a plausible slip in the
definition that follows or is named; no specification uses it. Each property of
a passing run has one that breaks it, so that the property is known to look at
the code.

### Dispatch

| model | code |
| --- | --- |
| `mtcmdQ`, `cmdfree` | the command queue and the free blocks of `cmdmem` |
| `mtevtQ`, `evtfree` | the event queue and the free blocks of `evtmem` |
| `pc`, `cur`, `ret` per task | where agvcp and agv are in `process_action_cmd()` / `issue_next_cmd()` / `issue_command()`, the command they hold, its result |
| `evt` | the event in the hands of agv |
| `work_state`, `error` | `agvstat` |
| `Motionstyle`, `typeOfAction`, `nReverseFlag`, `dumper` | the variables of the same name, `dumper_st.state` |
| `bms_error`, `watch` per task, `recovering` | the battery alarm in `bms.c`; where bms, agvcp and agv are in its query; can is between the post and the flag of a recovery |
| `missing`, `nEvent`, `nAgvWorkMode` | `OutOfTrack` and `GSMissing`, the fault acted on, the mode of the motion task |
| `sent`, `outcome` | history: commands received and what became of each |

`Receive(a)` is the arrival of an action in `process_action_cmd()`; the `Issue...`
actions and `Commit` are `issue_command()` with `motionctrl_cmd()`, in either
task; `AgvPend` to `AgvDone` are `agv_task()`; `StraightEnd` to `FaultAct` are one
cycle of `AGV_Run()`; the `Dumper...` actions are `reverseTask()`; `PointArrival`,
`BmsRecovers` and `BmsClears` are can. `query_battery_info_tmrcb()` is `Silent`, `BmsPost` and
`BmsSet`, in bms (`BmsTimeout`) and, through `bms_charge()`, in agvcp and agv (`IssueCharge`).

*Grain.* Priorities are fixed and tasks preempt each other. agvcp has the higher
priority of the two that issue commands, so its code is cut only where it may
block (the 500 ms of `OSTimeDly()` and the mutex of the log in `APP_TRACE()`); the
code of agv is cut at every access to shared state. agv cannot take an event
while agvcp waits for the log: its own trace, which comes first, waits behind
it. That is why `AgvPend` asks where agvcp is, and `WakeupPending` fails without
it. The battery alarm is posted and its flag set in two steps, with agv, agvcp and can in
between: agv may have reported the alarm when the flag is not yet set. A recovery is one
step, since can runs above all that query and above agv, unless the event cannot be
posted: then can traces that and may wait, and `BmsClears` follows. The runs
have one input, hence one query that finds silence; two tasks that both post the alarm are in
`bms_watch` and in the theorems, which have no such bound.

*Abstractions.* Parameters, distances and speeds are left out: how long a
movement takes is nondeterministic. The lock points of a route are two choices here,
a route may be refused once an earlier one is known, and a code may be wrong; both
happen only if `"WAY_POINT"` is among the alarms (`Waypoints` has the queue behind
them). A new code comes into view only
while the vehicle runs straight. Not modelled: `SYS_RESET`, the first cycle in
STANDBY, the servo faults (the tests compare with constants) and
`ethCommBreakFlag` (never set), and the length of a queued command, which the code
keeps in one byte. Whether the battery has been silent long enough is a choice here (`BmsWatch`
has the clock). `OutOfTrack` and `GSMissing` are never cleared by the code, so
SUSPENDED is final, in the model as well. `AgvNotify` takes for granted that
the report is acknowledged: that is the subject of `AgvcpLink`.

### AgvcpLink

`pc` and `out` say where each task is and what it sends: `"lock"` is
`OSMutexPend()` in `agv_send_msg()`, `"wait"` is `wait_ack()`. `toCar` and `toCtl` are the
datagrams on the way, the network and the pool of received datagrams in one.
`executed`, `written` and `heard` are histories. `LockAndSend`, `Resend`, `GiveUp`,
`TakeAnswer` and `TakeOther` are `send_msg_locked()` with `wait_ack()`; `Process(d)` is
`agvcp_msg_process()`, one disjunct for each way through it; `Register`, `Heartbeat`,
`Receive`, `Confirm`, `Execute` and `Drained` are the loop of `agvcp_task()`; `Notify` is
`agvcp_notify_event()`.

*External.* The network loses datagrams and, unless `Fifo`, delivers them in any
order. The controller is not in the repository. It is taken as what the
vehicle's code presupposes: it numbers its requests from 1, has one outstanding,
sends it again until it is answered, and answers every message it hears but a
heartbeat.

*Bounds.* At most one copy of a request and at most `RxBlocks` and `AirBlocks`
datagrams are on the way; a message sent into a full channel is lost, which is
what a network does. A registration is given up only when nothing is left to
receive, because the second it waits holds 100 polls.

*Left out.* Unregistering and `agvcp_disconnect_controller()`, which nothing calls;
the lengths of datagrams; the values of parameters.

### CircBuf

The bytes written are numbered, so that what a reader gets is a set of numbers.
`write_circbuf()` and `read_circbuf()` are single steps for tasks: the log's take its mutex, the
console's are called with one held. The trace of the CAN interrupt, which gets no mutex,
is not in this module but in `LogTask`. The operators
`CIRC_CNT`, `CIRC_SPACE` and `CIRC_CNT_TO_END` are the macros of `circ_buf.h`, bit masks
as remainders of a power of two. `CircBufAssumption` limits a text to one byte more
than the ring: the log's buffer is no larger; a longer datagram to the console
is a hazard listed, not modelled.

### Waypoints

| model | code |
| --- | --- |
| `wpQ`, `last_ponit` | the queue of lock points and the end of the last route |
| `pc`, `cur`, `left` per task | where agvcp and agv are, their route, the points still to lock |
| `ahead` | the codes the wheels still have to pass: what the motion task was told |
| `running`, `open`, `planEnd`, `alarms`, `refused` | histories, and the plan of the controller |

`Check` is the comparison of a route's start in `issue_command()`, `Gate` and `Commit` are
`motionctrl_cmd()`, `Lock` is one round of the loop that calls `lock_point()`, `PassPoint` is
`check_and_release_point()` in can. *External*: the controller plans a contiguous
route and waits with the next action but `Window - 1` until it hears that one is
over; the vehicle, which needs a second or more for a code, does not reach the next
one before the points of its route are locked (`InReach`). The pools do not run out
here, that is the subject of `Dispatch`; `wpQ` has room for the points of the instance.

### StraightRun and SlidingFilter

`Move` is the vehicle itself, one cell; `Copy`, `Report` and `Latch` are the three steps of
`CanMessageProcess()` on a TxPDO3: the tag, the call of the event callback, `NewTag`.
`Accept` and `Commit` are `motionctrl_cmd()` before and after its 500 ms; `Cycle` is one
cycle of `AGV_Run()`, a disjunct for each branch; `Push` is a person. motionctrl has a
higher priority than can, so a cycle may come between any two steps of can.

Other tasks run inside a cycle only while motionctrl waits for the mutex of the log in a
trace. The traces before the branch is chosen come where nothing that others change has
been read, or where it has been read for good: what happens in them might as well happen
before or after the cycle. The end of a run is different. `Drive()` traces "Stop move."
(`motors.c:105`) before `iPath` is set to 0 (`rAGVControl.c:381`), and the callback traces its
correction (`agv.c:232`) before `Motionstyle` becomes STOP (`:398`). So that cycle is cut:
`End` (or `Brake`, after a fault) is its part up to the first trace, `ending` says in
which trace it is, and `CycleEnd` has the parts after it: `OverCorrect`, `OverAtLast`,
`OverAtOnce`, `Halt`. A `Commit` in between loses its `iPath`, its `Motionstyle`, or both.
Two histories say what that leaves: `erased`, that a command was committed while the run
it was to extend was ending; and `surplus`, how many codes more are in
`sRemain` than in `iPath`. `StopsAtDestination` and `PathAgrees` say what holds
until then and what still holds afterwards; `RunEnds` allows for it.

*Abstractions.* The lane is cut into cells of 50 mm, ten from a code to the next (`twoD_Distance`); the
vehicle is slower than a cell per frame and per cycle, and brakes within a cycle; during the
traces of its end it rolls less than a cell.
The planner asks for a speed above 0 unless the task sets it to 0. The wheels may
measure a cell as none or as two, `MaxSlips` times between two codes. Left out: the
drift across the lane, what the servos are sent (PDO1, PDO2). `ACTION_OVER` carries
the code it was reported on, which is history.

`SlidingFilter` extends this module and refines its `Report` into the steps of
`motionctrl_event_callback()` and `sliding_filter_input()`. `FilterEnd` adds the correction to
`OverCorrect`, before the trace, and `sliding_filter_init()`, which clears the filter, to
`OverAtLast`, after it. Every step of `StraightRun` is thus
taken inside `SlidingFilter`, and the run `straight_run` checks the properties of both. The average is abstracted to
whether it is large enough to correct.

### Turn

`Rotate` is the vehicle, `ReportAngle` a TxPDO2 with the angle, `Fail` the camera, `Command` the
commit of a turn, `TurnCycle` one cycle of `AGV_Run()`. Speeds are at rest, crawl, slow and
fast, by the thresholds of the code (`wOpenVel` is a crawl). The two planners are taken
for what they promise, a speed in their range. `AngleRemain` is `minusL()` and `minusR()`
with the deviation within the quadrant. The end of a turn is one step, although `Drive()` may
wait for the log in it: a turn cannot be extended, the angle is computed anew from the
headings in each cycle, and the wheels, which are told to stand, move less than a cell.
`Dispatch` has the two halves (`TurnStop`, `TurnOver`) for what others do in between.

### Dumper

`Cycle` is `reverseTask()`, cut where `dumper_up()` and `dumper_down()` sleep a tick (`UpEnd`,
`DownEnd`); `Unload`, `MoveTest` and `MoveCommit` are `motionctrl_cmd()` with its 500 ms; `Tick` is
the clock and the dumper itself. `holdtm`, `tm` and the clock count modulo `Wrap`.
`serial` is history: it stays true as long as each command is given after the UNLOAD
before it has been taken up. That is the assumption of `StandsWhileUp` and of the part
of `UnloadsEnd` that counts the reports; one task that gives the commands meets it.

### BmsWatch

`Query`, `Compare`, `Post`, `Set` and `Send` are `query_battery_info_tmrcb()`, cut at each access
to shared state; `Frame` is `can_msg_process()`. Whoever switches the charger queries too
(`bms_charge()`). `broken` is the battery that falls silent for good. `silence` and `late` are
histories.

### CanRing

`Can2_RX_ISR` is the interrupt, `Arrive` the bus. `CanStep` is `can_task()` with
`bsp_CanReceive()`: `Disable`, the copy in two halves, `Advance`, `Load` and `Count` for the one
statement that decrements the count, `Enable`, `Dispatch`. A frame is its number. The
history `seq` of a slot numbers the writes and is what the refinement looks at.

### LogTask

`Log` and `Format` are `log_printf()` up to `log_put()`, character by character in
`tmp_logbuf`; `Pend`, `Copy` and `Flush` are `log_put()`; `Wait` to `OutUnlock` are `log_task()`;
`Unregister` takes an output off the list, `FlushTimer` is the timer. The scheduler is in
the model: a task runs only while no higher one is ready (`MayRun`), so texts mix in
`tmp_logbuf` exactly as priorities allow.

`Interrupt` is the trace of `Can2_RX_ISR()` when its ring of frames is full. `OSMutexPend()`
fails in an interrupt and `log_printf()` ignores the error, so it writes to `tmp_logbuf` and to
the ring at any moment. Outside a copy that is one more text at the end. Within one, its
text lies where the task copies to, or between its two halves; `hit` counts what it wrote,
and when the task then moves `head` and `tail`, computed before or after, any suffix
of the ring may be what is left, and log_task may get any part of what it read
(`Put`, `Read`). That allows more than the code does. What the interrupt spoils is named
`Nobody`: within one copy it is the text being copied, and any text once it has written
more than the ring holds. 
Names of tasks are their priorities; that none is 0 is an assumption, 0 being "nobody" for
the locks.

### Shell, LineReader

`UartIRQ` and `bsp_UartReceive()` are single steps, interrupts being disabled in both;
`console_run` is one character, a disjunct for each kind. `split_line()` is an operator,
`LineReader` has the reference definition: the words of a line are its parts between
blanks. The split of quotes and the commands themselves are left out.

## What the runs check

Every run is on small constants, named in the modules as bounds or sizes. Deadlock is
not checked in any: a vehicle with no command left stands still, and the bounded
inputs run out. Each line of the table is one run; a property joined from several
names them in its definition.

| run | instance | states | shows |
| --- | --- | --- | --- |
| `dispatch_safety` | 3 commands, one action of each kind, 1 code point, 1 command block, 2 event blocks, all faults of the motion task, the battery watch | 8.7 M | `PoolsConserved`, `OnePlace` with both pools running out |
| `dispatch_live` | 3 commands: routes, turns, the charger, an unload; the battery watch; 2 and 8 blocks | 393 k | `WakeupPending`, `StatusAgrees`, `AgvStartsInOrder`, `EveryCommandTaken` |
| `link` | 1 block for actions, 2 requests of any kind, 1 report, 1 heartbeat, order kept | 138 k | `ActionsKept`, `OnceInOrder`, `ExecutedConfirmed`; the link implements `ReportChannel` (`DeliveredInOrder`); `EveryActionExecuted`, `EveryMessageDelivered` |
| `circ_buf` | ring of 8, texts up to 9 bytes, reads up to 5, 40 bytes | 4 k | the ring implements `DropOldest` |
| `waypoints` | 4 commands of up to 2 points, 2 outstanding, 1 code of no route | 239 k | `CodesChecked`, `RouteLocked`, `ContiguousAccepted`, `EveryActionOver` |
| `bms_watch` | bms and agvcp query, 1 switch of the charger, alarm after 3 ticks of a clock of 6 | 181 k | `WatchInv`, `FlagAgrees`, `AlarmTakenBack`, `SilenceAlarmed` |
| `can_ring` | ring of 2, receiver of 3, 7 frames | 18 k | `RingInv`, `InOrder`, `EveryFrameServed`; the ring implements `DropOldest` |
| `straight_run` | 3 commands of 1 or 2 codes, code 4 unreadable, 1 slip per code, filter of 2 | 334 k | `RunInv`, `StopsAtDestination`, `LostTrackJudged`, `RunEnds`, `FilterInv` |
| `turn` | 3 turns, 8 cells a quarter, silence noticed after 3 cycles | 206 k | `TurnInv`, `SilenceSlows`, `TurnEnds` |
| `dumper` | 5 commands, angle and hold of 2 ticks, a clock of 16 | 37 k | `DumperInv`, `StandsWhileUp`, `UnloadsEnd` |
| `log_task` | writers of priority 13 and 23, and the interrupt, ring of 5, 3 texts of up to 2 | 685 k | `LogInv`, `WakeupNotLost`, `Emptied` |
| `shell` | ring of 2, line of 6, 2 words, 8 keys of six kinds | 285 k | the ring implements `DropOldest`, the editor `LineReader` (`AsTyped`) |

*Why the bounds are enough.*
Three commands are needed for one under way, one in the hands of agv and one that
arrives; with one command block the third finds none. Two event blocks are exceeded
by an error and an arrival posted together. In `dispatch_live` the event pool is large
enough for all events of the instance, since a lost `ACTION_OVER` does stop the queue,
and there is no STOP, no refused route and no lost track, after which nothing
brings an `ACTION_OVER`. In the link one request more than blocks forces a request to
be left unanswered and sent again. Four commands let a route be extended while the
next one waits. `RouteLocked` and `ContiguousAccepted` hold for a controller with two
actions outstanding, not with three (see below). The clocks overflow within the runs
of `bms_watch` and `dumper`, and their rates keep to the assumptions of the modules.
Seven frames overfill ring and receiver together (five) and leave two to come while
the ring is read. `MaxSlips` is 1 because with two cells of ten measured wrong a missed
code is noticed only after the next one: the one and a half distances of the code
allow for no more. Eight keys fill a line of six, spoil it, end it and begin the next.

*Fairness.* The scheduler runs every ready task and none of them computes for ever:
weak fairness of the steps of tasks and interrupts, everywhere. Of the outside world: driven
wheels move, a battery or a camera that works reports, a vehicle gets to the next
code, a sender on the CAN bus ends or times out. Nothing is asked of the controller,
of faults, of slips or of the person who pushes. In `AgvcpLink`, reception, answers and
retransmissions are disabled again and again by loss and by the other task, so they
get strong fairness: among the datagrams sent for ever some arrive when there is a
block for the answer. This is what sending without end relies on; under weak
fairness the network might lose everything. `Lose`, `GiveUp`, `Heartbeat`, `Notify` and
`Request` have none. `EveryActionExecuted` is stated for a registered vehicle, since
registration itself is given up and begun anew. `SilenceAlarmed` promises the alarm only
while bms alone has queried: with a second task a frame may come between the posts of
both and the flag of the second. The flag is then set although the alarm was taken
back, and agv is not told of a battery that falls silent at this moment; the watch
itself has noticed. `TurnEnds` is for turns to the right.

## Known disagreements

Comments of the repository that the code does not follow, met while modelling. No run
checks them. The formulas named are in the modules; put in place of the properties of
`dispatch_safety`, `link` or `waypoints`, under `Spec` and with the constants noted, TLC
finds each violated within seconds.

* `agv.c:467`, "the cmd is issued to the motion-ctrl, then release the memory":
  `issue_next_cmd()` also releases a command that `motionctrl_cmd()` refused as busy. Two
  actions suffice: a GOBACKWARD that passes a code point while a GOSTRAIGHT waits
  (`Dispatch`, `ReleasedOnlyIfIssued`).
* `agv.c:304`, on STOP "clear the task queue and issue it at once": STOP leaves the
  queue as it is, the call of `clean_que()` is commented out (`StopClearsQueue`).
* `motion_ctrl.c:137`, the data are protected because one task runs this code: agvcp and agv both test
  `Motionstyle` within the 500 ms one of them sleeps, and the later one replaces the
  movement of the first (`MovementNotReplaced`).
* `agvcp.c:909`, processing first what the controller sent later "is very dangerous":
  while agv holds the command it took, the queue looks empty and agvcp issues a newer one
  at once (`StartedInOrder`). agv itself never overtakes (`AgvStartsInOrder`, proved).
* `agvcp.c:842`, the filter for repeated requests remembers one number: on a network
  that reorders (`Fifo` FALSE) an action that is sent again and overtaken by the next one
  is executed twice (`AgvcpLink`, `NotProcessedAgain`).
* `agv.c:318`, a command that is refused is put into the queue: with three actions
  outstanding (`Window` = 3) a route may be compared with a `last_ponit` that the other
  task has not moved yet; it is refused with `-PERR_EINVAL`, which is not queued, and lost
  (`Waypoints`, `ContiguousAccepted`). In the same way the points of two routes may be
  locked in the wrong order, and codes of the route be called wrong (`agv.c:652`, the
  points are queued "to check the path with them later"; `NoFalseAlarm`).
* `motion_ctrl.c:137`, the data of a run are protected by locking the scheduler, which
  takes for granted that motionctrl, with the higher priority, is never in the middle of a
  cycle: it is when it waits for the log. A GOSTRAIGHT that is committed while the run it
  extends is in the trace of `Drive()` or of the callback of `ACTION_OVER` is answered as
  accepted and erased by `iPath = 0` and `Motionstyle = STOP` (`StraightRun`,
  `StopsAtDestination` without `~erased =>`). The length it added to `sRemain` may stay, so that the
  next run may pass its code.
* `log_print.c:23`, the mutex protects the ring: the interrupt of CAN2 logs an overflow
  without it (`bsp_can.c:293`), and the text being copied, or what was in the
  ring, may be spoilt (`LogTask`, `Interrupt`).
* `rAGVControl.c:354` and `:356`, the vehicle must be pushed onto a code and the lost track
  be cleared by a button or a command: nothing clears `OutOfTrack`, so SUSPENDED is final
  (`StraightRun`, where `Push` leaves the mode as it is).
* `TshapeVplan.c:12`, planning stops when the length tends to 0: for a left turn the
  planner is called with a final speed of `wOpenVel`, and the test `wCurrent < 0.01` of
  `rAGVControl.c:501` is never met; the turn creeps on (`Turn`; `TurnEnds` for a left turn).

## What is proved

The theorems hold for all values of the constants that satisfy the assumptions named
in each module: numbers are numbers, pools and rings have a place, actions, alarms and
tasks are among those the code knows, and a clock is longer than the times it has to
tell apart. A bound on commands, requests, frames, texts or inputs enters a
proof only where a hypothesis of the theorem names it (`PoolKeepsWakeups`, `PoolKeepsStatus`
and the slips of the wheels).
Each invariant is a conjunction of named parts; the lemmas go by action.

* **`DispatchProofs`, pools and places.** `IInv`, the conjunction of `TypeOK`,
  `CmdPoolConserved` and `EvtPoolConserved`, is inductive: the types alone are not, because
  the number of free blocks stays in its range only if the blocks are counted. `PoolsSafe`
  follows; in particular the `OSQPost()` whose result is ignored never fails. `PlaceInv`, that
  is `OnePlace` with `Settled` (a task that is not at work on a command holds none, an issued
  command is no longer pending, the numbers above `sent` are unused), is inductive given
  `IInv`: `OnePlaceHolds`. `OrderInv` is inductive given both: behind a command that is no STOP
  the queue holds later ones only; what agv has in hand is earlier than what is queued;
  what agvcp has in hand is the latest of all. So whatever agv starts, nothing earlier
  waits: `AgvStarts`.
* **`DispatchProofs`, wake-ups and status.** Both hold only while no event is lost, which
  the hypothesis `[]EventsLeft` says: a block of `evtmem` is free. `CommandsWakeAgv`
  (`WakeupPending`): if a command is queued, or agv is about to put one back, then an action
  is under way, its `ACTION_OVER` is in the queue or in the hands of agv, or a task is about
  to start an action (`QueueWakes`); and agvcp appends a command only while the action it
  was denied for has its `ACTION_OVER` to come (`DeniedWakes`). `StatusSound`
  (`StatusAgrees`): agvstat says MOVING only while what corrects it is still to come
  (`MovingEnds`); this needs that behind each `POINT_ARRIVAL` in the queue there is, or will
  be, an `ACTION_OVER` (`ArrivalsFirst`); a battery alarm that is queued last of its kind, or reported with
  none queued, has its flag set, or a task about to set it (`BmsInv`, `Due`). Two hypotheses on the constants name what the code does not handle:
  `GuidanceHolds`, because a lost track or a silent camera ends an action without an
  `ACTION_OVER`; and for the wake-ups `OnlyOrders`, because a STOP and a refused route start
  nothing, so nothing ends (both are among the hazards). `EventsLast` discharges
  `EventsLeft` when the pool has more blocks than one for each command and two for each
  code point and each query that finds the battery silent, and the encoder error, posted in every cycle,
  does not occur: the blocks in use, with those that what is queued, under way or
  reported may still take, are paid for (`Budget`): a query that is to post costs two, one
  that is to set the flag costs one, as does a flag that is set (`Cost`, `Up`). `PoolKeepsWakeups` and `PoolKeepsStatus`
  put these together; the instance of `dispatch_live` satisfies their hypotheses. For a run
  without end there is no such pool, and the first two theorems are what can be said.
* **`WaypointsProofs`.** The three invariants hold if the controller has at most two
  actions open and `wpQ` has slots for both routes (`TwoOpen`); with `Window` = 3 TLC
  finds each violated. `GateInv`: agvcp, agv and the queue hold one command between them
  (`OneAtATime`); an open action is in one place and its end in one event (`Books`);
  while a command waits, the one before it is not reported over (`Before`). So only one
  task has points left to lock, and what is in `wpQ`, followed by these, is what is ahead
  of the wheels: `LockInv`, from which `RouteIsLocked` and `AlarmJustified` follow.
  `RoutesAccepted` needs `Chain`: a route not yet compared begins at `last_ponit`, once the
  task that still locks points is done, and ends where the plan of the controller
  does. A route that the vehicle drops would break the chain, and agv drops one whose
  direction differs from that of the movement under way, when a code point makes it try:
  hence the hypothesis `OneWay`, that the two directions are not both among the actions.
* **`MotionProofs`, runs.** `RunIInv` says, for a vehicle on its track, where it can be
  relative to the code it read last (`AtRest`, `Between`, `Reading`, `AtCode`), and that
  what the wheels have measured differs from that by the slips and one cell at most.
  `PrecisionAssumption` is the precision that the margins of the code ask of the wheels: the code at
  hand is the destination with less than 300 mm to go (`Near`), and one was missed
  after one and a half distances. `RunAgrees`, `RunStops` and `RunJudged` follow, for any
  distance of the codes, any number and length of commands and any set of unreadable codes.
  `Ending` is the part about a run in its last traces; `surplus` (in `Counted`) ties `sRemain` to
  `iPath` when a command came in one of them. What `RunAgrees` and `RunStops` promise in full
  they promise until `erased`; after it they bound `iPath` and the place from one side.
* **`MotionProofs`, filter.** `FilterIInv` says which
  deviations have moved up in the loop of `sliding_filter_input()` and which have not
  (`ShiftPart`, `StorePart`): `FilterSafe`.
* **`MotionProofs`, turns.** `TurnsIntoQuadrant`: once the camera has seen the angle below
  `StopAt`, a right turn brakes by a step of speed per cell and rolls on for two cells at most
  (`Braking`). The hypothesis `StopsInside` says that `StopAt` lies in the quadrant of the
  destination and that half a quadrant has two cells; the code stops at 0.8 degrees of 45.
* **`AgvcpLinkProofs`.** `IInv` joins the types and the pool of actions with where each
  task can be and what it then holds, and with `LinkHeld`: the mutex is held by exactly
  the task that waits for an answer.
  `DeliveryHolds` is the refinement of `ReportChannel`. The argument is `DeliveryInv`. Whatever report is on its way to the controller has been heard or is the one
  being sent (`Genuine`); every answer on its way back answers something heard
  (`Earned`); and everything heard has a number below `txseq`, except the message being
  sent (`Numbering`). So the answer that matches `txseq` can only answer the message being
  sent. `LockAndSend` is `Begin`, the first `HearMessage` is `Hear`, `TakeAnswer` is `Return`, the
  other steps are stutters. `ConfirmedFirst`, `ActionsSafe` and, on a network that keeps the
  order, `ActionsInOrder` each add one inductive invariant: what agvcp has in hand after
  the answer has been confirmed (`InHandConfirmed`); what was answered is in the buffer, in
  hand or executed (`KeptInv`); the numbers executed, in hand, buffered and on the way
  increase in this order (`OrderInv`).
* **`LogTaskProofs`.** `LogSafe`: a task that copies into the ring holds the mutex, and its text,
  behind which only the interrupt writes, is the last of a task in the ring; what the interrupt spoils is
  nobody's, so between two characters of a text there is no other task's. log_task holds the lock of its list while it calls.
  `NoWakeupLost`: a ring filled by a third while log_task is about to wait was filled by a task
  that has yet to look at it, or has left the flag set; what the interrupt writes across a
  task sets the flag as well (`HitInv`). `LogRingIsQueue` is the refinement of
  `DropOldest` by the ring of `CircBuf`. `WrapIs` and `CountIs` say what the masks and macros
  return, `WriteIs` and `ReadIs` that the two pieces of a write and of a read are one piece
  counted around the ring; then `write_circbuf()` is a Write and `read_circbuf()` a Read, and no
  invariant beyond the types is needed.
* **`DumperProofs`.** `DumperSafe`, `Standing`: what `state`, the sleep of motionctrl, the
  position of the dumper and the drive have to do with each other, and how far the clock
  has gone since `tm` and `holdtm`; the wrap-around is a lemma of modular arithmetic.
* **`CanRingProofs`.** `RingSafe`: from where can_task is follow the state of the interrupt
  and of its copy; given that, the count and the indices agree. `FramesInOrder` follows from
  an order of all that has arrived: handled, in hand, in the ring, in the chip.
  `RingIsQueue` is the refinement of `DropOldest`: `Advance` is its read, a write of the
  interrupt its write, all else stutters.
* **`BmsWatchProofs`.** `WatchSafe`: the time a query has measured is the silence, as long as
  that is below the period of the clock. `AlarmAgrees`: the last of the events not yet taken
  and the reported bit say what the flag says, up to the query that is between its post
  and its flag.

Every invariant of the runs is thus stated by a theorem. Only model-checked: the liveness
properties (`EveryCommandTaken`, `EveryActionExecuted`, `EveryMessageDelivered`,
`EveryActionOver`, `AlarmTakenBack`, `SilenceAlarmed`, `EveryFrameServed`, `RunEnds`,
`SilenceSlows`, `TurnEnds`, `UnloadsEnd`, `Emptied`), fairness and ENABLED being out of the proof
system's reach; and `AsTyped` of `Shell`, whose `split_line()` recurses over the line, so
that a proof would need induction over data; with it the ring of the UART, which is part of
that property.

## What is not modelled, and the plan

The plan was: the dispatcher and its theorems; the link with the channel it promises; the
lock points; the watch of the battery; the log; the CAN ring; the runs, turns and the
dumper in detail; the filter; the shell; and the theorems on each. This is done.

Two things of the plan are left. `Dispatch` and `AgvcpLink` are not composed in one state
space, which is the product of both: the link's executed actions are the
arrivals of `Dispatch`, its reports the notifications, and each module states what it
takes from the other. And a datagram to the UDP console that is longer than the ring is
not in `CircBuf`.

Not modelled:

* the control laws: velocity plans, line following and fuzzy tables in floating point,
  without discrete state; the modules take them for the range of what they return;
* start-up, which creates the tasks once, in order; and the configuration file, read
  once through minIni;
* the handlers of the shell's commands, which print, read files or drive a motor for a test;
* the counts of the encoders, read from hardware counters with the interrupts disabled;
* the glue of the WiFi driver and the register access of the board: input and output
  without a state of their own worth stating;
* vendored code: uC/OS-II, CMSIS and the STM32 libraries, FatFs with its code pages,
  the RS9113 API. It makes up most of the repository's 286 000 lines. Of the kernel the
  models use what the firmware relies on: queues, memory partitions, mutexes, delays and
  priorities.
