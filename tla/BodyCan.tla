------------------------------ MODULE BodyCan -------------------------------
(***************************************************************************)
(* The command path, the collision event and the heartbeat of the BODY ECU *)
(* (BodyCan.c, called from the main loop of Cpu0_Main.c).  As in ActCan    *)
(* the receive interrupt shares its variables with the main loop without a *)
(* lock, and every step of the loop that touches one is an action.  What   *)
(* differs from ACT: the timeout neither returns from the call nor is      *)
(* remembered in a flag, the lamps keep their own copy of the command, and *)
(* three kinds of frames compete for the two transmit buffers.             *)
(*                                                                         *)
(* Left out: the contents of the frames sent, so the time stamp of the     *)
(* collision and the alive counter of the heartbeat, and the debug         *)
(* counters.  BodySonar models the collision warning behind the lamps.     *)
(***************************************************************************)
EXTENDS Naturals, Sequences

CONSTANTS
  Frames,       \* the 0x110 frames that MAIN may put on the bus
  Timeout,      \* BODY_CAN_CMD_TIMEOUT_MS
  BeatPeriod,   \* BODY_CAN_HEARTBEAT_TX_PERIOD_MS
  TxBuffers     \* BODY_CAN_TX_BUFFER_COUNT

OnOff == {"ON", "OFF"}
Turns == {"OFF", "LEFT", "RIGHT", "HAZARD"}
Modes == {"STANDBY", "REMOTE_DRIVE", "DIAGNOSTIC"}

\* A command whose six bytes all pass validation.
Command == [headlamp : OnOff, turn : Turns, brake : OnOff, horn : OnOff,
            warning : OnOff, mode : Modes]

\* The order in which BodyCan_Update1ms copies the bytes.
Fields == <<"headlamp", "turn", "brake", "horn", "warning", "mode">>

\* "INVALID" stands for every byte that no validator accepts.
BusFrame == [headlamp : OnOff \cup {"INVALID"}, turn : Turns \cup {"INVALID"},
             brake : OnOff \cup {"INVALID"}, horn : OnOff \cup {"INVALID"},
             warning : OnOff \cup {"INVALID"}, mode : Modes \cup {"INVALID"}]

ASSUME FramesAssumption == Frames \subseteq BusFrame

\* 200 in the code.  A command that is applied behind the timeout, in the call
\* that found it, is one call old.
ASSUME TimeoutAssumption == Timeout \in Nat \ {0, 1}

ASSUME BeatAssumption == BeatPeriod \in Nat \ {0}

\* The code has two.
ASSUME TxAssumption == TxBuffers \in Nat \ {0, 1}

Buffers == 0..TxBuffers - 1

\* What a buffer holds until the frame is on the bus.
Loads == {"free", "answer", "event", "beat"}

\* The outputs of BodyControl that a command sets.
Lamps == [headlamp : OnOff, turn : Turns, brake : OnOff, horn : OnOff,
          warning : OnOff]

VARIABLES
  rx,          \* g_rxHeadlampRaw .. g_rxControlModeRaw
  rxUpdated,   \* g_rxUpdated
  cmdTimeout,  \* g_cmdTimeoutMs
  udsUpdated,  \* g_udsRequestUpdated
  cur,         \* g_current*: what the diagnostic services read
  lamps,       \* the requests held by BodyControl
  pc,          \* where the main loop is
  reg,         \* the register of g_cmdTimeoutMs++
  idx,         \* the next field to copy
  cmd,         \* the local copy of the command
  pending,     \* g_collisionEventPending
  beatTimer,   \* g_heartbeatTxTimerMs
  txIndex,     \* g_txBufferIndex
  buf,         \* the transmit buffers of the CAN node
  prevRx,      \* history: the command accepted before the one in rx
  overlapped,  \* history: a command was accepted during this call
  age,         \* history: turns begun since the last accepted command
  room         \* history: every buffer was free when the turn began to send

isrVars  == <<rx, rxUpdated, cmdTimeout, udsUpdated>>
outVars  == <<cur, lamps>>
loopVars == <<pc, reg, idx, cmd>>
sendVars == <<pending, beatTimer, txIndex, buf>>
histVars == <<prevRx, overlapped, age, room>>
vars     == <<isrVars, outVars, loopVars, sendVars, histVars>>

AllOff == [headlamp |-> "OFF", turn |-> "OFF", brake |-> "OFF",
           horn |-> "OFF", warning |-> "OFF"]

\* The lamps of a command, without its mode.
LampsOf(c) == [f \in DOMAIN AllOff |-> c[f]]

CommandOf(l, mode) ==
  [headlamp |-> l.headlamp, turn |-> l.turn, brake |-> l.brake,
   horn |-> l.horn, warning |-> l.warning, mode |-> mode]

NoFrames == [b \in Buffers |-> "free"]

InitCommand == CommandOf(AllOff, "STANDBY")

-----------------------------------------------------------------------------
(***************************************************************************)
(* The interrupt                                                           *)
(***************************************************************************)

ValidCommand(f) ==
  /\ f.headlamp \in OnOff
  /\ f.turn \in Turns
  /\ f.brake \in OnOff
  /\ f.horn \in OnOff
  /\ f.warning \in OnOff
  /\ f.mode \in Modes

\* The part of a call that works on the command.
InCall == pc \in {"load", "store", "expired", "safe", "updated", "copy",
                  "clear", "apply"}

\* MAIN sends a command every 20 ms and this part takes microseconds: it is
\* not interrupted by two commands.  The routines of the diagnosis, which block
\* for up to a second, come after it.
SpacedByMain == InCall => ~overlapped

\* Variant: g_rxUpdated is set only by a command that differs from the last.
RxCommandOnChange(f) ==
  /\ ValidCommand(f)
  /\ SpacedByMain
  /\ cmdTimeout' = 0
  /\ rx' = f
  /\ rxUpdated' = (rxUpdated \/ f # rx)
  /\ prevRx' = rx
  /\ overlapped' = InCall
  /\ age' = 0
  /\ UNCHANGED <<udsUpdated, outVars, loopVars, sendVars, room>>

\* A frame that fails validation only counts up g_invalidCount: a stutter.
RxCommand(f) ==
  /\ ValidCommand(f)
  /\ SpacedByMain
  /\ cmdTimeout' = 0
  /\ rx' = f
  /\ rxUpdated' = TRUE
  /\ prevRx' = rx
  /\ overlapped' = InCall
  /\ age' = 0
  /\ UNCHANGED <<udsUpdated, outVars, loopVars, sendVars, room>>

\* A diagnostic request: what it asks for is not looked at here.
RxRequest ==
  /\ udsUpdated' = TRUE
  /\ UNCHANGED <<rx, rxUpdated, cmdTimeout, outVars, loopVars, sendVars,
                 histVars>>

-----------------------------------------------------------------------------
(***************************************************************************)
(* The timeout: one access of the shared counter at a time                 *)
(***************************************************************************)

\* if (g_cmdTimeoutMs < TIMEOUT): the first load.
CheckTime ==
  /\ pc = "check"
  /\ pc' = IF cmdTimeout < Timeout THEN "load" ELSE "expired"
  /\ overlapped' = FALSE
  /\ age' = IF age > Timeout THEN age ELSE age + 1
  /\ UNCHANGED <<isrVars, outVars, reg, idx, cmd, sendVars, prevRx, room>>

\* g_cmdTimeoutMs++ is a load ...
LoadTime ==
  /\ pc = "load"
  /\ reg' = cmdTimeout
  /\ pc' = "store"
  /\ UNCHANGED <<isrVars, outVars, idx, cmd, sendVars, histVars>>

\* ... and a store: a reset by the interrupt in between is overwritten.
StoreTime ==
  /\ pc = "store"
  /\ cmdTimeout' = reg + 1
  /\ reg' = 0
  /\ pc' = "expired"
  /\ UNCHANGED <<rx, rxUpdated, udsUpdated, outVars, idx, cmd, sendVars,
                 histVars>>

\* Variant: an off-by-one in the comparison.
CheckExpiredTooLate ==
  /\ pc = "expired"
  /\ pc' = IF cmdTimeout > Timeout THEN "safe" ELSE "updated"
  /\ UNCHANGED <<isrVars, outVars, reg, idx, cmd, sendVars, histVars>>

\* if (g_cmdTimeoutMs >= TIMEOUT): a second load of the counter.
CheckExpired ==
  /\ pc = "expired"
  /\ pc' = IF cmdTimeout >= Timeout THEN "safe" ELSE "updated"
  /\ UNCHANGED <<isrVars, outVars, reg, idx, cmd, sendVars, histVars>>

\* BodyCan_EnterSafeState, which calls BodyControl_AllOff.
EnterSafeState(mode) ==
  /\ cur' = CommandOf(AllOff, mode)
  /\ lamps' = AllOff

\* The timeout does not return: a command that is pending is applied after it,
\* in the same call.
EnterSafeStateByTimeout ==
  /\ pc = "safe"
  /\ EnterSafeState("STANDBY")
  /\ pc' = "updated"
  /\ UNCHANGED <<isrVars, reg, idx, cmd, sendVars, histVars>>

-----------------------------------------------------------------------------
(***************************************************************************)
(* The command                                                             *)
(***************************************************************************)

\* if (g_rxUpdated == TRUE).
NothingReceived ==
  /\ pc = "updated"
  /\ ~rxUpdated
  /\ pc' = "uds"
  /\ UNCHANGED <<isrVars, outVars, reg, idx, cmd, sendVars, histVars>>

StartCopy ==
  /\ pc = "updated"
  /\ rxUpdated
  /\ idx' = 1
  /\ pc' = "copy"
  /\ UNCHANGED <<isrVars, outVars, reg, cmd, sendVars, histVars>>

\* headlampRaw = g_rxHeadlampRaw; ... one field after the other.
CopyField ==
  /\ pc = "copy"
  /\ cmd' = [cmd EXCEPT ![Fields[idx]] = rx[Fields[idx]]]
  /\ idx' = idx + 1
  /\ pc' = IF idx < 6 THEN "copy" ELSE "clear"
  /\ UNCHANGED <<isrVars, outVars, reg, sendVars, histVars>>

\* g_rxUpdated = FALSE, whether or not the command copied is still in rx.
ClearUpdated ==
  /\ pc = "clear"
  /\ rxUpdated' = FALSE
  /\ pc' = "apply"
  /\ UNCHANGED <<rx, cmdTimeout, udsUpdated, outVars, reg, idx, cmd, sendVars,
                 histVars>>

\* BodyCan_ApplyBodyCommand: only the remote mode lights anything.
ApplyBodyCommand(c) ==
  \/ /\ c.mode # "REMOTE_DRIVE"
     /\ EnterSafeState(c.mode)
  \/ /\ c.mode = "REMOTE_DRIVE"
     /\ cur' = c
     /\ lamps' = LampsOf(c)

Apply ==
  /\ pc = "apply"
  /\ ApplyBodyCommand(cmd)
  /\ pc' = "uds"
  /\ idx' = 0
  /\ cmd' = InitCommand
  /\ UNCHANGED <<isrVars, reg, sendVars, histVars>>

-----------------------------------------------------------------------------
(***************************************************************************)
(* What is sent: at most an answer, a collision event and a heartbeat in   *)
(* one call, in this order                                                 *)
(***************************************************************************)

\* Variant: the next frame is put into the same buffer again.
SendRawFrameSameBuffer(load) ==
  /\ buf[txIndex] = "free"
  /\ buf' = [buf EXCEPT ![txIndex] = load]
  /\ UNCHANGED txIndex

\* BodyCan_SendRawFrame puts the frame into the buffer whose turn it is ...
SendRawFrame(load) ==
  /\ buf[txIndex] = "free"
  /\ buf' = [buf EXCEPT ![txIndex] = load]
  /\ txIndex' = (txIndex + 1) % TxBuffers

\* ... or returns notSentBusy, even if another buffer is free.
NotSentBusy ==
  /\ buf[txIndex] # "free"
  /\ UNCHANGED <<buf, txIndex>>

\* if (g_udsRequestUpdated == FALSE).
CheckRequest ==
  /\ pc = "uds"
  /\ pc' = IF udsUpdated THEN "udsClear" ELSE "event"
  /\ room' = (buf = NoFrames)
  /\ UNCHANGED <<isrVars, outVars, reg, idx, cmd, sendVars, prevRx, overlapped,
                 age>>

\* The request is copied, and g_udsRequestUpdated = FALSE drops one that has
\* arrived meanwhile.
ClearRequest ==
  /\ pc = "udsClear"
  /\ udsUpdated' = FALSE
  /\ pc' = "answer"
  /\ UNCHANGED <<rx, rxUpdated, cmdTimeout, outVars, reg, idx, cmd, sendVars,
                 histVars>>

\* BodyCan_HandleUdsRequest: a frame that is no single frame is not answered,
\* every other one once; an answer that finds its buffer busy is dropped.
HandleRequest ==
  /\ pc = "answer"
  /\ pc' = "event"
  /\ \/ SendRawFrame("answer")
     \/ NotSentBusy
     \/ UNCHANGED <<buf, txIndex>>
  /\ UNCHANGED <<isrVars, outVars, reg, idx, cmd, pending, beatTimer, histVars>>

\* Variant: the event counts as sent when its buffer is busy.
SendPendingEventOnce ==
  /\ pc = "event"
  /\ pc' = "beat"
  /\ \/ ~pending /\ UNCHANGED <<buf, txIndex>>
     \/ pending /\ (SendRawFrame("event") \/ NotSentBusy)
  /\ pending' = FALSE
  /\ UNCHANGED <<isrVars, outVars, reg, idx, cmd, beatTimer, histVars>>

\* BodyCan_SendPendingCollisionEventIfNeeded: tried again in every call.
SendPendingEvent ==
  /\ pc = "event"
  /\ pc' = "beat"
  /\ \/ ~pending /\ UNCHANGED <<pending, buf, txIndex>>
     \/ pending /\ SendRawFrame("event") /\ pending' = FALSE
     \/ pending /\ NotSentBusy /\ UNCHANGED pending
  /\ UNCHANGED <<isrVars, outVars, reg, idx, cmd, beatTimer, histVars>>

\* BodyCan_SendHeartbeatIfNeeded: one that finds its buffer busy is dropped.
SendHeartbeat ==
  /\ pc = "beat"
  /\ pc' = "rest"
  /\ \/ /\ beatTimer + 1 < BeatPeriod
        /\ beatTimer' = beatTimer + 1
        /\ UNCHANGED <<buf, txIndex>>
     \/ /\ beatTimer + 1 >= BeatPeriod
        /\ beatTimer' = 0
        /\ SendRawFrame("beat") \/ NotSentBusy
  /\ UNCHANGED <<isrVars, outVars, reg, idx, cmd, pending, histVars>>

\* The rest of the turn: BodyControl_Update1ms, after which the collision
\* input may have been pressed (BodyCan_ReportCollisionOccurred), and a wait of
\* 1 ms, in which the bus may take every frame.
FinishTurn(pressed, drained) ==
  /\ pc = "rest"
  /\ pc' = "check"
  /\ pending' = (pending \/ pressed)
  /\ buf' = IF drained THEN NoFrames ELSE buf
  /\ UNCHANGED <<isrVars, outVars, reg, idx, cmd, beatTimer, txIndex, histVars>>

\* The CAN node has put a frame on the bus.
TxDone(b) ==
  /\ buf[b] # "free"
  /\ buf' = [buf EXCEPT ![b] = "free"]
  /\ UNCHANGED <<isrVars, outVars, loopVars, pending, beatTimer, txIndex,
                 histVars>>

-----------------------------------------------------------------------------

Init ==
  /\ rx = InitCommand
  /\ rxUpdated = FALSE
  /\ cmdTimeout = Timeout
  /\ udsUpdated = FALSE
  /\ cur = InitCommand
  /\ lamps = AllOff
  /\ pc = "check"
  /\ reg = 0
  /\ idx = 0
  /\ cmd = InitCommand
  /\ pending = FALSE
  /\ beatTimer = 0
  /\ txIndex = 0
  /\ buf = NoFrames
  /\ prevRx = InitCommand
  /\ overlapped = FALSE
  /\ age = Timeout
  /\ room = TRUE

Update1ms ==
  \/ CheckTime \/ LoadTime \/ StoreTime \/ CheckExpired
  \/ EnterSafeStateByTimeout
  \/ NothingReceived \/ StartCopy \/ CopyField \/ ClearUpdated \/ Apply
  \/ CheckRequest \/ ClearRequest \/ HandleRequest
  \/ SendPendingEvent \/ SendHeartbeat

MainLoop ==
  Update1ms \/ \E pressed, drained \in BOOLEAN : FinishTurn(pressed, drained)

Next ==
  \/ MainLoop
  \/ \E f \in Frames : RxCommand(f)
  \/ RxRequest
  \/ \E b \in Buffers : TxDone(b)

\* The loop never blocks on anything but time.  Two frames take a third of the
\* millisecond that the loop waits: as long as the bus is not jammed for ever,
\* some wait sees them all sent.
Spec ==
  /\ Init /\ [][Next]_vars
  /\ WF_vars(MainLoop)
  /\ SF_vars(\E pressed \in BOOLEAN : FinishTurn(pressed, TRUE))

-----------------------------------------------------------------------------
(***************************************************************************)
(* Properties                                                              *)
(***************************************************************************)

PCs == {"check", "load", "store", "expired", "safe", "updated", "copy",
        "clear", "apply", "uds", "udsClear", "answer", "event", "beat", "rest"}

\* Type invariant: an invalid byte never reaches the lamps and the counters
\* keep within their limits.
TypeOK ==
  /\ rx \in Command
  /\ rxUpdated \in BOOLEAN
  /\ cmdTimeout \in 0..Timeout
  /\ udsUpdated \in BOOLEAN
  /\ cur \in Command
  /\ lamps \in Lamps
  /\ pc \in PCs
  /\ reg \in 0..Timeout - 1
  /\ idx \in 0..7
  /\ cmd \in Command
  /\ pending \in BOOLEAN
  /\ beatTimer \in 0..BeatPeriod - 1
  /\ txIndex \in Buffers
  /\ buf \in [Buffers -> Loads]
  /\ prevRx \in Command
  /\ overlapped \in BOOLEAN
  /\ age \in 0..Timeout + 1
  /\ room \in BOOLEAN

Demand(c) == IF c.mode = "REMOTE_DRIVE" THEN LampsOf(c) ELSE AllOff

\* The two copies that the ECU keeps of the lamps, the one the diagnosis reads
\* and the one BodyControl obeys, agree on every path, and nothing is lit
\* outside the remote mode.
OutputsAgree == lamps = LampsOf(cur) /\ lamps = Demand(cur)

\* A copy overlapped by the interrupt is torn in one way only: a first part of
\* the previous command and the rest of the latest one.
TornAtOnePoint ==
  pc \in {"copy", "clear", "apply"} =>
    \E cut \in 0..idx - 1 :
      /\ ~overlapped => cut = 0
      /\ \A i \in 1..cut : cmd[Fields[i]] = prevRx[Fields[i]]
      /\ \A i \in cut + 1..idx - 1 : cmd[Fields[i]] = rx[Fields[i]]

\* A torn copy stays on the lamps, and a command that arrives during a copy is
\* dropped, but not for long: once a command has been repeated, the lamps show
\* it, or it waits, or its timeout has expired.
RepeatedIsShown ==
  rx = prevRx =>
    \/ rxUpdated
    \/ lamps = Demand(rx)
    \/ pc = "apply" /\ cmd = rx
    \/ lamps = AllOff /\ cmdTimeout = Timeout

\* An answer that has gone first never costs the collision event its turn: in
\* a call that begins to send with all buffers free, a pending event is sent.
EventSentWhenRoom == pc = "beat" /\ room => ~pending

\* A collision that was reported gets on the bus, whatever else is sent.
EventReachesBus == pending ~> \E b \in Buffers : buf[b] = "event"

\* The lamps are lit by a dead man's switch too, although the timeout does not
\* return from the call and remembers nothing.
DM == INSTANCE DeadMan WITH Limit <- Timeout, driving <- lamps # AllOff

IsDeadMan == DM!Spec
=============================================================================
