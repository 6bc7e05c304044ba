# Remote vehicle call and return: a verification development

The repository is the software of a model vehicle that is driven from a PC: four
vehicle computers and a control station. This directory holds TLA+ modules of the
parts in which control logic lives, the TLC configurations that check them on small
instances, and machine-checked proofs of the properties that matter most.

    tlc -config MCActCan.cfg MCActCan.tla        (one run; the others likewise)
    tlapm Act_proofs.tla                         (the proofs of one component)

## 1. Inventory

    PC  --UDP 5000, every 20 ms-->  MAIN  --CAN 0x100, every 20 ms-->  ACT
        <--UDP 5001, every 50 ms--        --CAN 0x110, every 20 ms-->  BODY
        --TCP 13400 (DoIP)------>         --CAN 0x700 / 0x710 (UDS)->  ACT / BODY
        <--UDP 5002-- MEDIA <--UDP 5002-- <--CAN 0x210 (collision)---  BODY
        --HTTP, DoIP, SOME/IP-->  MEDIA

| Component | State | Operations | What is hard | What makes it correct |
|---|---|---|---|---|
| ACT command path (`ACT/ActCan.c`, `ACT/Cpu0_Main.c`) | received command, flag, timeout counter, reported state | receive interrupt, `ActCan_Update100us` | no lock between interrupt and main loop; a command is copied byte by byte; the counter is read three times | no drive without fresh commands; a forced stop is obeyed; the report is what the outputs do |
| ACT motor driver (`ACT/Motor.c`) | direction, duties, brake | forward, reverse, brake, coast, duties, PWM cycle | nothing of its own: called by two masters | at most one master at a time |
| ACT diagnostics (`ACT/UdsDiag.c`) | request slot, session, routine, DTCs | 8 UDS services, routines, monitor | routines drive the motor in the same loop as commands; a request is copied while the next may arrive | routines end on time and give the motor back; a request is taken whole or replaced |
| ACT servo (`ACT/Servo.c`) | key held | hold a position | blocks the loop for about 20 ms in every 20th turn | follows the last decision |
| BODY command path (`BODY/BodyCan.c`) | received command, timeout, collision event, request slot | interrupt, 1 ms update, heartbeat, event | the same races as ACT; an event retried over a busy buffer; routines that block the loop | outputs fail safe; no collision is lost; the heartbeat does not stop |
| BODY outputs (`BODY/BodyControl.c`) | distances, warning level, debounce, DTCs | 10 ms and 100 ms updates, routines | hysteresis and debounce | no flicker, no missed collision |
| MAIN signals (`MAIN/BSW/Service/com.c`, `swc.c`) | mode, override, turn signal, three time stamps | datagram and frame handlers, `COM_TimeOut`, cyclic frames | supervision depends on the mode, the mode on datagrams, connections and time | a silent PC stops the vehicle in bounded time |
| MAIN diagnostics (`MAIN/BSW/Service/dcm.c`) | three DTCs and their counters | loss, recovery, clear, report | a clear while a source is silent; counters at their limits | losses are reported, none is confirmed early |
| MAIN DoIP server (`MAIN/tcp_txrx.c`, `BSW/Interface/soad.c`, `doip.c`) | one connection, pending close | accept, receive, error, deferred close | several clients, resets, a close 50 ms later on shared state | the pointer is never stale; nobody disturbs the client that is served |
| MAIN routing (`pdur.c`, `canif.c`, `cantp.c`) | none | table lookups, single frames | nothing | stateless |
| MEDIA black box (`MEDIA/blackbox`) | ring buffers, clip writers, event flag, cooldown | trigger, record, save | a capture thread per recorder against the handler; every step may fail | every accepted event ends; what is recorded is of one event, in order, and no more is added to it |
| MEDIA DoIP server (`MEDIA/doip`) | sessions, DTC store, status | activation, alive check, clear, health checks | coroutines and a thread on one store, peers that vanish, writes that fail, restarts | a tester that vanishes is forgotten; the two reports of a component agree, and settle on how it is |
| PC backend (`PC/pc_control_backend.py`) | control state | HTTP handlers, sender thread | repeats the last command for ever, over a network that loses and reorders | but for a motor test, the motor turns by the operator's wish only |
| PC user interface, streaming, drivers | | presentation, codecs, registers | no decisions | not modelled |

## 2. Modules

| Module | What it is |
|---|---|
| `Motor` | the motor driver as operators on a record |
| `DeadMan` | abstract: what a controller that obeys remote commands promises |
| `ActCan` | the ACT command path, one action per access of shared data; implements `DeadMan` |
| `ActEcu` | extends `ActCan` by the diagnostics of `UdsDiag.c`: the whole ACT main loop |
| `MainCom` | the service layer of MAIN: mode, override, supervision, DTCs, cyclic frames |
| `DoipSession` | the DoIP server of MAIN: connections, deferred close, mode callbacks |
| `BodyCan` | the BODY command path, the collision event and the heartbeat; implements `DeadMan` |
| `BodySonar` | the ultrasonic sensor of BODY and its three users: warning, DTC monitor, diagnosis |
| `RemoteDrive` | the composition PC, MAIN, ACT: the drive command on its whole way; implements `DeadMan` |
| `EventTrigger` | the black box of MEDIA: triggers, the handler of an event, the capture threads |
| `MediaDoip` | the DoIP sessions, the DTC table and the health monitor of MEDIA |
| `MC...` | instances for TLC (`BodySonar` and `RemoteDrive` need none) |
| `..._proofs` | theorems and proofs |

### ActCan

The interrupt runs to completion between any two instructions of the main loop, so it
is one action, `RxIsr`. The shared variables are `volatile`, so every access in the
source is one load or one store: `CheckTick`, `LoadTick`, `StoreTick`, `CheckExpired`
and so on follow `ActCan_Update100us` line by line, `g_cmdTimeoutTick100us++` is two
steps and the copy of the command is six. What the main loop does to its own data
belongs to the step before. `FinishTurn` stands for the rest of the turn. The three
history variables (`prevRx`, `overlapped`, `age`) are read by properties only, and by
one assumption: `SpacedByMain` says that no call of `ActCan_Update100us` is interrupted
by two commands. MAIN sends one every 20 ms (`COM_Tx_CtrAct_CAN`), a call takes
microseconds. Frames with invalid bytes are rejected by the interrupt and change nothing.

- `OutputsAgree`: direction, duties and steering follow from the state that is reported,
  on every path (command, mode, override, timeout).
- `TornAtOnePoint`: a copy is a prefix of the previous command and a suffix of the
  latest. It cannot be sharpened to "is a command that was received": that is the
  finding of run `ActCanTorn`.
- `ForceStopNotLostTwice`, `ForceStopHonoured`: a command that arrives between the copy
  and the clearing of the flag is lost. Two in a row are not, so a forced stop that
  MAIN repeats stops the motor.
- `IsDeadMan`: refinement of `DeadMan` with its fairness. The motor turns for at most
  `TimeoutTicks` calls without a command, starts on no older command, and stops for
  good when the bus falls silent, whatever the interrupt does to the counter between a
  load and a store.

Fairness: `WF(MainLoop)`. The loop of `core0_main` is endless and waits for nothing but
delays. Nothing is assumed of the interrupt.

### ActEcu

`UdsDiag_Update1ms` runs after the calls of `ActCan_Update100us` and before the PWM
cycle, so a routine has the last word in each turn. The request slot is filled by the
interrupt at any moment and copied in two parts (service and argument), so requests can
tear and be lost. Services that only answer are `AnswerOnly`.

- `MotorHasOneMaster`, `EcuDeadMan`: the motor turns because the test runs or because
  the reported state asks for it, and the test hands it back stopped and at the duty it
  found.
- `RoutineEnds`: no sequence of requests keeps a routine from ending.
- `RoutineOnSchedule`: an action property and the sharper one. Each turn takes one turn away
  from what the routine has left, and nothing else changes it: no repeated request, no
  session change, no command.
- `RequestTakenWhole`: a request leaves the slot as a whole copy unless the next one replaces it
  before. The exception is the one the missing lock makes: a request that comes in between the
  first copied byte and the clearing of the flag (`crossed`, a history variable) is lost, and its
  argument may be taken for that of the request before it.
- Finding of run `ActEcuOverride`: the test ignores the safety override.

### MainCom

All of the gateway's own code runs in one loop, only the millisecond counter moves
underneath. A turn has three steps: the polls (any number of handlers), `COM_TimeOut`
and `COM_Tx_MainFunction`. Time may pass between any two. The model keeps differences of
times where the code keeps times, and stops each at a value that no comparison tells
from a larger one (`AgeCap`, `QuietCap`). `TurnMs` bounds the length of a turn: the loop
has no blocking call, and only with such a bound is any statement about time possible.
Values that pass through (pedals, steering, gear, horn, lamps) are left out.

- `SilentPcIsHeld`: however datagrams, diagnostic connections and modes were mixed
  before, after `HeldBy = Threshold + CyclicMs + 2 * TurnMs` of silence of the PC the last
  frames on the bus are outside the remote mode or carry override and hazard lights.
- `SilentEcuIsReported`, `OverrideIsReported`: the DTCs tell the truth, except for the
  time a clear needs to be made good.
- `ConfirmedNotEarly`: no DTC is confirmed before three whole thresholds of silence.
- Observation: every control datagram overwrites the mode, the diagnostic mode of an open
  DoIP connection included. The comment in `swc.c:21` expects the mode to change with the
  connection.

No fairness: what must happen is stated with its deadline.

### DoipSession

lwIP runs without threads, its callbacks are called from the polls, so every handler is
one action. Of lwIP the model has what the server relies on: the state of a connection
(none, established, closing) and where the server's callbacks are registered. A refused
connection stays established in lwIP, because `tcp_server_accept` returns `ERR_ABRT`
without aborting it: lwIP (`tcp_in.c`) takes the code to mean that the callback has done
so. Such a connection is in the model, its data is discarded by lwIP's default callback.
The mode is here because two callbacks change it; the rest of its life is in `MainCom`.

- `ActiveIsOpen`: the pointer used unchecked by `TcpSend` and `doip_server_close` is
  never stale.
- `ServedUntilItEnds`, `DiagnosisEndsWithServed`: refused clients and late errors of
  closed connections touch neither the client that is served nor its diagnosis.
- `OffenderIsClosed`: a client that breaks the protocol is gone within
  `CloseMs + TurnMs` of its last offence. Each further offence starts the delay anew, as
  in the code: the statement counts from the last.
- Finding of run `DoipClose`: when the offender leaves by itself and another client
  connects within the 50 ms, that client is closed instead.

Two observations without a run: a refused client sees an open connection that nobody
serves, although the comment in `tcp_txrx.c:46` says it is refused; and after a reset, or
a close by the server, the mode stays diagnostic until the next control datagram.

### BodyCan

Built as `ActCan`: the interrupt against the main loop, one action for each access of
shared data (`BodyCan_Update1ms`). Here the timeout neither returns nor is remembered in
a flag, so the safe state may be followed by a command in the same call. Behind the
command path are the senders of a call: an answer, a pending collision event, a
heartbeat, in this order, into transmit buffers that are filled in turn. `FinishTurn` is
the rest of the turn, in which the collision input may be seen and the bus may take the
frames. The contents of the frames are left out, and with them the time stamp of the
event and the alive counter.

- `IsDeadMan`: as in `ActCan`; here for the lamps. `TornAtOnePoint` is there as well, as the
  part of the argument for the next property that concerns the copy.
- A timeout of one call would not be a dead man's switch: the command that is applied behind
  the timeout is one call old. `TimeoutAssumption` excludes it (the code's value is 200).
- `RepeatedIsShown`: lost and torn commands are made good by the next equal one.
- `EventSentWhenRoom`, `EventReachesBus`: a sender gives up when the buffer whose turn it
  is is busy, even if the other is free. The event survives this: it is tried again until
  it is taken, and it has its place behind an answer.

Fairness: `WF(MainLoop)` as for ACT, and `SF` of a turn whose wait drains the buffers. Two
frames take a fraction of the millisecond the loop waits, so this only says that the bus
is not jammed for ever. Without it a bus on which just one buffer empties between two
calls, always in time for an answer, starves the event behind the answers.

### BodySonar

One turn is a command or none, a diagnostic request or none, and the functions of
`BodyControl_Update1ms`, one action each. Nothing interrupts this code; what is hard is
that the warning, the monitor and the requested routine share the last distance, the fault
bit and the danger lamp, each with timers of its own. `NoObject` is a distance too. The
ages `blind` and `failed` are history.

- `NoChatter`: whatever the level and however many levels are skipped, a jitter of less than
  twice the hysteresis does not make the warning leave a level and come back.
- `WarningIsFresh`, `HeldOverMissingEcho`: the warning neither outlives the obstacle nor ends
  early over a missing echo, although the other two users overwrite the distance.
- `LampMeansFault`: the lamp blinks for a history that exists, and otherwise is lit exactly under
  a latched lamp fault or a present ultrasonic DTC, under which the ultrasonic bit is latched too:
  a steady lamp means a fault.
- The converse fails, and no property claims it. The comment at `BodyControl.c:152` says "ON when any
  diagnostic fault is latched"; line 819 masks the ultrasonic bit, so a fault latched by one missing echo
  (line 659) or by the routine leaves the lamp dark until the monitor sets the DTC or clears the bit.
  TLC refutes `~blinking /\ (sonarFault \/ lampFault) => led` in three states: a routine without an echo.
- `ConfirmedAfterRow`: the history is set by failures of the monitor in a row, nothing else.

The faults of the other lamps' feedback are one bit here (`lampFault`), as far as the
danger lamp looks at them.

### RemoteDrive

The modules above have the parts; this one has the way of a drive command from
`control_state` of the PC to the motor. A command is one of three (`GO`, `HOLD`, `OFF`), a
handler or a turn of a loop is one step, and a tick is the time of one turn of the ACT loop.
`net` holds what was sent in the last `MaxDelay` ticks: receiving takes nothing out of it, so
a datagram may be lost, late, out of order or received again, as UDP allows and as a gateway
that does not read the sequence number (`com.c:107`) accepts. A tester may start and end a
diagnosis at any time, and start a motor test in any turn of ACT: `UdsDiag_Update1ms` comes behind
the command path in a turn and has the last word on the motor (`MotorTest`, `TestTurns` long). The
session, the request slot and the servo test of `ActEcu` are behind this choice. A frame that the interrupt of ACT has not seen by the end of a tick is lost.

The servo blocks the ACT loop: `Steering_Update` holds its pulse in a busy wait, once in every
`BlockEvery` turns, and no turn counts the timeout meanwhile. So the 200 turns of the watchdog
last `ActTicks` = 200 + 10 * 20 = 400 ms, not the 200 ms that the interface tests (docs/8,
INT-IT-024) and system tests (docs/9) of the repository give. With the 500 ms of MAIN the bound from the
operator's last wish to a motor at rest is

    EndToEnd = MaxDelay + Threshold + ActTicks - 1      (900 ms and the delay of the network)

and it is tight: with one tick less TLC finds a run that drives longer.

- `DrivesOnWish`: refinement of `DeadMan` with `Limit <- EndToEnd`, the age of the wish, and the
  motor as far as no motor test has it (`DrivenByCommand`). The exception is the code's: a motor
  test drives without a wish, whatever mode and override say (finding 2). What the property says of
  the test is that it hands the motor back at rest, and that nothing which the command path saw
  meanwhile starts it on an old wish.
  Between wish and motor lie a sender that repeats, a network, a supervision that is off
  during a diagnosis, and a watchdog that does not count all of its time.
- `WishIsObeyed`: liveness. Override, diagnosis, motor test and the timeout of ACT each leave
  something behind in another place; none of it holds the vehicle once the operator keeps asking and
  the datagrams keep arriving.

Fairness: `WF` of the frames of MAIN, of the turns of ACT and of time, which are endless loops.
Nothing is assumed of the network; what `WishIsObeyed` needs of it is its premise.

### EventTrigger

The threads of the black box: those that deliver triggers, the one that handles the event under
way, and a capture thread per recorder. A capture thread pushes a frame into its ring
(`Capture`) and later in the same turn writes it to the published clip (`WriteFrame`); the
handler opens a clip, fills it from the ring, publishes it, and so on for each recorder,
sleeps, and closes them. Each of these is one action, as the locks of the code
(`_event_lock`, the lock of the ring) make it. Every step of the handler can fail where the
code calls something that raises: `MakeDirFails` before the `try`, `Raise` within it,
`OpenWriterFails`, which the code answers by a silent return. A frame is the second it was
taken in, its picture is left out. Frames are pushed in the order of time, so what
`PreEvent` selects of a ring, the frames of the last `PreSecs`, is the end of the ring.

- `OneSeam`: a clip is in the order of time and shows at most one frame twice, the one
  pushed before and written after the handler looked at the ring.
- `CameraClipsDisjoint`: no picture is evidence in two recorded events. The cooldown begins
  at the end of the handler and the clip reaches back by `PreSecs`, two times that nothing in
  the code relates; `SecsAssumption` names what is needed of them (5 s and 30 s).
- `OpenIsUnlisted`: what a failed event leaves open never gets into a recorded one.
- `EventEnds`: an accepted event is over at some time, unless its directory could not be made.

Fairness: `WF` of the handler, of each write and of time, since threads are scheduled. No recorder
has to deliver.

Observations: when the directory cannot be made (`event_trigger.py:257`), `_in_event` stays set
and no later accident is recorded until the process is restarted, whereas the tests of docs
(MEDIA-UT-042, UAT-AT-035) expect a recording after a collision; the property excludes this case by name.
The cooldown also follows an event that failed. The microphone takes its whole ring,
of any age, into a clip. The times are `time.time()`, which a clock correction moves; the
model's clock does not jump. After a failure the list of chunks of the microphone grows until the
next event.

### MediaDoip

Sessions are coroutines of one event loop, so they interleave at an `await` only: a clear is two
steps (`Acknowledge`, `ClearDtc`), an activation is one, because the table of sessions is looked
at and changed without an await between. The monitor is a thread; a check is two steps, the
status (`Check`) and the table (`SetOrClear`), between which a clear may come. A write may
fail (`StoreFails`), and the process may restart, which the table survives and the status does not.

- `DidAgreesWithDtc`: the two services that report a component agree once a check is done.
- `GoneTesterIsForgotten`: the answers to alive checks are never looked at, yet a tester that
  vanishes is dropped: the check itself makes TCP give up. (A tester that hangs but
  whose host answers keeps its address, as the code has it.)
- `ReportSettles`: a fault that stays is reported again after any clear, failed write or
  restart; one that is gone is not.

Fairness: `WF` of the monitor, of the answer to a clear, of the alive check (a timer of the event
loop) and of TCP giving up on unacknowledged data. No peer has to do anything.

## 3. Runs, bounds and results

| Run | Constants | Shows |
|---|---|---|
| `ActCan` | timeout 3 calls, 2 calls a turn, 6 frames | all properties of `ActCan` hold (71 thousand states) |
| `ActCanTorn` | same | violated: a torn command drives in a direction nobody asked for |
| `ActEcu` | timeout 2, 1 call a turn, test 2 turns, servo step 1 turn, 3 frames, 4 requests | all properties of `ActEcu` hold (359 thousand states) |
| `ActEcuOverride` | same | violated: the test drives under a forced stop |
| `MainCom` | threshold 3 ms, period 2, turn 1, counter stops at 3, one ECU | all properties of `MainCom` hold (2.4 million states) |
| `DoipSession` | 3 connections, delay 3 ms, turn 2 ms | all properties of `DoipSession` hold (6.5 thousand states) |
| `DoipClose` | same | violated: the deferred close hits another client |
| `BodyCan` | timeout 2 calls, heartbeat every 2, 2 buffers, 3 frames | all properties of `BodyCan` hold (666 thousand states) |
| `BodySonar` | distances 5 to 35 cm, measurement every 2nd turn, hold 4, monitor every 3rd turn, 3 failures | all properties of `BodySonar` hold (99 thousand states) |
| `RemoteDrive` | delay 1 tick, threshold 2, period 2, timeout 3 turns, a pulse of 1 tick in every 2nd turn, motor test 2 turns | all properties of `RemoteDrive` hold (2 million states) |
| `EventTrigger` | one camera or the microphone films; clip 1 s back and 1 s on, cooldown 2 s, ring of 2, 4 s, 2 events | all properties of `EventTrigger` hold (502 thousand states) |
| `MediaDoip` | 2 connections, 1 tester, 2 components, 1 failed write, 1 restart | all properties of `MediaDoip` hold (170 thousand states) |

Why these bounds are enough: each timeout is longer than the steps that race with it, so
a counter can be reset before, at and after its limit. The frames of `ActCan` cover every
branch (both directions, both turns, brake, inhibited mode, force stop, invalid byte) and
differ in every field that decides, so tearing shows. The routines of `ActEcu` last longer
than a timeout. In `MainCom` the counter reaches its limit and the confirmation, and every
order of the three time scales occurs; ACT and BODY are supervised by copies of one
handler, so one ECU suffices. Three connections are one served, one being closed and one
refused. In `BodyCan` one frame lights lamps, one carries lamps in a mode that must not
light them, one is invalid; two buffers are the code's own number. The distances of
`BodySonar` lie below, at, between and above the limits of the three levels, with and
without the hysteresis, and its periods are coprime, so every order of measurement, check
and toggle occurs. In `RemoteDrive` the timeout of ACT spans two servo pulses and ends between
them, a datagram can overtake another, and a motor test can be running when the timeout expires. In `EventTrigger` the second event follows
the first at the earliest time the cooldown allows, with the ring still full, or after a first
event that failed anywhere; the recorders share nothing but the handler, so one that films at a
time shows every interplay. `MaxTime` and `MaxEvents` stop that run, hence its
`CHECK_DEADLOCK FALSE`; the handler is never stopped by them. In `MediaDoip` two connections
compete for the one tester and for the same places, and the failed write hits the first or the
second component, before or after the restart.

`EcuTypeOK`, `TypeOK` of `BodyCan`, `BodySonar`, `RemoteDrive`, `MediaDoip` and `EventTrigger` and the
part `TornAtOnePoint` of `BodyCan` are in no run's list; they are proved or carried in the
invariants of section 4. So is every safety property of the passing runs, for every value of the
constants.

Every property of a passing run is accompanied by a variant of a definition (in the
modules, marked as a variant or a plausible slip) that breaks it: a mistake one could make
in that code and that the property would catch.

## 4. Proofs

| Module | Theorems |
|---|---|
| `Act_proofs` | `ActCan`: `TypeCorrect`, `OutputsCorrect`, `TornCorrect`, `ForceStopCorrect`, `DeadManImplemented`; `ActEcu`: `EcuTypeCorrect`, `EcuDeadManCorrect`, `OneMaster`, `TakenWhole`, `RoutineScheduled`, `EcuForceStopCorrect` |
| `MainCom_proofs` | `TypeCorrect`, `SilentPcHeld`, `SilentEcuReported`, `OverrideReported`, `ConfirmedLate`, `CounterMayWrap` |
| `DoipSession_proofs` | `TypeCorrect`, `ActiveOpen`, `OffenderClosed`, `ServedUntilEnd`, `DiagnosisEnds` |
| `BodyCan_proofs` | `TypeCorrect`, `RepeatedShown`, `DeadManImplemented`, `EventSent` |
| `BodySonar_proofs` | `TypeCorrect`, `NoLevelChatters`, `LampMeans`, `WarningFresh`, `HeldOver`, `ConfirmedByRow` |
| `RemoteDrive_proofs` | `TypeCorrect`, `WishImplemented` |
| `EventTrigger_proofs` | `TypeCorrect`, `OpenUnlisted`, `OneSeamPerClip`, `ClipsDisjoint`, `HandlerEnds` |
| `MediaDoip_proofs` | `TypeCorrect`, `DidAgrees` |

The assumptions are those on the constants (numbers positive, sets of the right type).
`CounterMayWrap` adds that the timeouts are shorter than the range of a time stamp, `ClipsDisjoint`
rests on `SecsAssumption`.

*ActCan.* `TypeOK` and `OutputsAgree` need what the position of the main loop says about
its own data (the counter is below the limit between its test and its increment, `idx`
runs from 1 to 7). `ForceStopNotLostTwice` needs to know, for each position in the copy,
which of the two last commands the copied fields come from: `TornAtOnePoint` and whether
the call was overlapped. The dead man's switch rests on one fact: the counter, or the
register between load and store, never lags behind the age of the last command. When the
store overwrites a reset of the interrupt, the counter runs ahead and the timeout comes
early, never late.

*MainCom.* Invariant `SupInv`: the age of a source is its silence since the last loss that
was handled; an age is examined in every turn, so it cannot pass the threshold by more than
a turn; a source whose DTC is not set is young; a frame that lets the vehicle drive is
recent; a counter of n stands for n thresholds of silence. Each of them fails alone when an
action is taken that another one of them excludes. The same invariant bounds the ages, so each is what the code
computes from two 32-bit time stamps, before, at and after a wrap of the counter (`CounterMayWrap`).

*DoipSession.* Invariant `SessionInv`: both callbacks are registered on the served connection
and nowhere else; only it can have offended; the pending close is as old as its last
offence and has been examined in every turn.

*ActEcu.* Each step of the whole ECU is a step of the command path, so the lemmas
about `ActCan` apply, or it is one of the two calls of the diagnostics, which have proofs of
their own. For one master the invariant adds that the duty saved by the test is the base duty,
since a test starts in the place of no other routine. For the same reason a routine keeps its
schedule (`RoutineScheduled`): `TurnsLeft` is positive while a routine runs, `UpdateRoutine`
takes one away, and a request starts a routine only when none runs. For requests (`TakenWhole`) `SlotInv` says what has been copied: as long as no request came in
behind the first byte, the copied part is that of the slot. `ForceStopNotLostTwice` holds in the
whole loop but for the motor test, which drives whatever was reported.

*BodyCan.* Three invariants. `ShownInv`: the copy is torn at one point, and the safe state is
entered only when the counter has expired or a command has just come in between. `DeadManInv`:
the counter, or the register between load and store, covers the age of the command; a command
that waits is new; what is lit is younger than the timeout. `RoomInv`: in a call that began to send with free buffers all of them are free before an
answer, and the next one behind it.

*BodySonar.* The three users of the sensor have an invariant each. `NoChatter` follows from the order of the
limits alone: `DeepestReached` and `ShallowestLeft` say which level a distance reaches and
which it leaves, without enumerating levels. `WarnInv`: the hold time and the turns since
the last echo add up to `HoldTime` while a distance is held, and behind that a level lasts until the
next measurement. For the lamp (`LampInv`) each of its users restores what the others rely on, and none clears the
ultrasonic bit under a present DTC (`PresentIsLatched`);
`RowInv`: the counter of failures is the number of failed checks in a row.

*RemoteDrive.* `WishInv` follows the age of the wish down the chain. `Upstream`: the wish is no
older than a `GO` under way, no older than what MAIN was told last and the delay while the
supervision keeps quiet, and below delay and threshold when a frame enables the drive.
`Downstream`: the age of the wish and the ticks until ACT's timeout, servo pulses included
(`TicksLeft`), never add up to more than `EndToEnd`, as long as a command drives. During a motor test
nothing is claimed of the motor, and its last turn stops it, so a drive by command always begins with a
frame that enables it.

*EventTrigger.* A set `Closed` of the recorders whose clips the handler has closed: an event is
listed only after all of them, and a clip published earlier belongs to an event before `last`.
For what the clips hold: `RingInv`, a ring is in the strict order of time, so `PreEvent` takes a
suffix of it (`PreEventTaken`); `FreshInv`, a clip that is not yet filled is empty; `SeamInv`, the one
place at which a clip may repeat a frame is where the ring's part meets the recorder's, and while the frame
of this second is still in the recorder's hand there is no repetition yet; `ApartInv`, what a camera shows of the recorded
events is a cooldown older than `quietTill`, and what it shows of this one reaches back at most
`PreSecs` behind it. For `HandlerEnds` a rank, `StepsLeft`: it is at most 17, every step of the
handler lowers it, failed steps included, only an accepted trigger raises it, and the sleep is at most
`PostSecs` long; the flag is up exactly while the rank may still fall or the directory was not made.

*MediaDoip.* `DtcInv`: what the monitor has found and not yet told the table is the status shown.

Only model-checked: liveness, since fairness is out of the prover's reach. `ForceStopHonoured`,
`RoutineEnds`, `EventReachesBus`, `EventEnds`, `GoneTesterIsForgotten`, `ReportSettles`,
`WishIsObeyed` and the liveness half of each `IsDeadMan`. Of three the safe part is proved:
`DeadManImplemented` is the safety half of `IsDeadMan`; `RoutineScheduled` and `HandlerEnds` give `RoutineEnds` and
`EventEnds` a rank that every step lowers, so that fairness has nothing left to do but to take the steps.

## 5. Findings

1. `ACT/ActCan.c:496`: mixed bytes of two commands drive the motor (`ActCanTorn`).
2. `ACT/UdsDiag.c:808`: the motor test ignores the safety override (`ActEcuOverride`).
3. `MAIN/BSW/Interface/soad.c:52`: the deferred close hits another client (`DoipClose`).

And one divergence of a comment from the code, without a run of its own: the danger lamp of BODY is not
"ON when any diagnostic fault is latched" (`BodyControl.c:152`), see `BodySonar`.

## 6. Not modelled

Of the 119 thousand lines of code about 110 thousand are vendored: lwIP with its PPP, IPv6 and
application parts, the drivers of the microcontroller, and their headers. None of them is
written or changed for this system. What the system relies on in lwIP (when a callback is
called, what its return value means) is in `DoipSession`, marked external. The rest is the
system's own, and most of its control is in the modules above. What is left out of it:

- Registers, sampling, codecs, HTTP pages, message layouts: no decision of the modelled parts
  depends on them. The UDP relay, the streamer and the user interface pass data on.
- The routing of MAIN (`pdur.c`, `canif.c`, `cantp.c`) is stateless: a message takes one way
  in the call that brought it, and a model of it would be its tables.
- UDS services that only read, and answers on the DoIP connections. An ECU's answer to a
  client that has left goes to the client after it (`tcp_txrx.c:118`): the code keeps no
  record of who asked, so there is nothing a property could hold the server to.
- The wrap of the millisecond counter after 49.7 days, where `CounterMayWrap` does not exclude it: a PC
  that is silent for the whole time while the vehicle is in diagnosis. When the connection ends, `COM_TimeOut` sees a
  short silence and the override is late by at most one threshold.
- The DTC monitor of ACT (`UdsDiag.c:696-797`): two samples of two sensors, which neither the
  routines nor the command path read. Together with `ActEcu` its states multiply those of
  the routines without meeting them.
- Of BODY: the debounce of the collision input, an edge detector that shares no
  state with the rest but its event, which `BodyCan` lets occur in any turn; horn and warning
  tones, the blinking of the turn signals, the timers of the lamp feedback check.
- Failures whose effect is there by another way: a `clear_all` of MEDIA that raises and ends the session, the
  handler thread of the black box that cannot be started (its flag stays set as in `MakeDirFails`), and of
  BODY a time-out that switches the warning off in the turn of a command that switches it on again.
- `/control` of the PC is accepted while the remote control is off; `RemoteDrive` has it so.

## 7. Plan

1. Proofs: the safety properties are proved. Left are sharper statements, such as a bound on the turns a
   collision event takes to the bus, and the safe parts of the other liveness properties.
2. `BodyControl`: debounce of the collision input, horn, lamp feedback, as a module of their
   own. The DTC monitor of ACT (two consecutive failures, its period).
3. Answers of ECUs to the client that asked.
