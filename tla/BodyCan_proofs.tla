--------------------------- MODULE BodyCan_proofs ---------------------------
(***************************************************************************)
(* Proofs about BodyCan, for every set of frames, every timeout and        *)
(* heartbeat period, and every number of transmit buffers.                 *)
(***************************************************************************)
EXTENDS BodyCan, Integers, TLAPS

-----------------------------------------------------------------------------
(* Type correctness.                                                       *)

\* What the position of the main loop says about its own data.
Flow ==
  /\ pc \in {"load", "store"} => cmdTimeout < Timeout
  /\ pc = "copy" => idx \in 1..6
  /\ pc \in {"clear", "apply"} => idx = 7

TypeInv == TypeOK /\ Flow

LEMMA ValidFrame ==
  ASSUME NEW f \in Frames, ValidCommand(f)
  PROVE  f \in Command
  BY FramesAssumption DEF ValidCommand, BusFrame, Command

LEMMA AllOffType == AllOff \in Lamps
  BY DEF AllOff, Lamps, OnOff, Turns

LEMMA LampsType == ASSUME NEW c \in Command PROVE LampsOf(c) \in Lamps
<1>1. DOMAIN AllOff = {"headlamp", "turn", "brake", "horn", "warning"}
  BY DEF AllOff
<1>2. LampsOf(c) = [headlamp |-> c.headlamp, turn |-> c.turn, brake |-> c.brake,
                    horn |-> c.horn, warning |-> c.warning]
  BY <1>1 DEF LampsOf
<1> QED BY <1>2 DEF Command, Lamps

LEMMA DarkType == ASSUME NEW mode \in Modes PROVE CommandOf(AllOff, mode) \in Command
  BY DEF CommandOf, AllOff, Command, OnOff, Turns

LEMMA InitCommandType == InitCommand \in Command
  BY DarkType DEF InitCommand, Modes

\* Copying one field keeps the local copy a command.
LEMMA CopyType ==
  ASSUME NEW c \in Command, NEW r \in Command, NEW i \in 1..6
  PROVE  [c EXCEPT ![Fields[i]] = r[Fields[i]]] \in Command
<1>1. CASE i = 1
  BY <1>1 DEF Fields, Command
<1>2. CASE i = 2
  BY <1>2 DEF Fields, Command
<1>3. CASE i = 3
  BY <1>3 DEF Fields, Command
<1>4. CASE i = 4
  BY <1>4 DEF Fields, Command
<1>5. CASE i = 5
  BY <1>5 DEF Fields, Command
<1>6. CASE i = 6
  BY <1>6 DEF Fields, Command
<1> QED BY <1>1, <1>2, <1>3, <1>4, <1>5, <1>6

LEMMA SafeStateType ==
  ASSUME NEW mode \in Modes, EnterSafeState(mode)
  PROVE  cur' \in Command /\ lamps' \in Lamps
  BY AllOffType, DarkType DEF EnterSafeState

LEMMA ApplyType ==
  ASSUME NEW c \in Command, ApplyBodyCommand(c)
  PROVE  cur' \in Command /\ lamps' \in Lamps
<1>1. c.mode \in Modes
  BY DEF Command
<1> QED BY <1>1, SafeStateType, LampsType DEF ApplyBodyCommand

\* Whatever is sent, the buffers stay buffers and the turn stays with one.
LEMMA SendType ==
  ASSUME buf \in [Buffers -> Loads], txIndex \in Buffers, NEW load \in Loads
  PROVE  /\ SendRawFrame(load) => buf' \in [Buffers -> Loads] /\ txIndex' \in Buffers
         /\ NotSentBusy => buf' \in [Buffers -> Loads] /\ txIndex' \in Buffers
<1>1. (txIndex + 1) % TxBuffers \in Buffers
  BY TxAssumption DEF Buffers
<1> QED BY <1>1 DEF SendRawFrame, NotSentBusy

LEMMA NoFramesType == NoFrames \in [Buffers -> Loads]
  BY DEF NoFrames, Loads

LEMMA TypeInit == Init => TypeInv
<1> SUFFICES ASSUME Init PROVE TypeInv
  OBVIOUS
<1>1. /\ cmdTimeout \in 0..Timeout /\ reg \in 0..Timeout - 1 /\ idx \in 0..7
      /\ beatTimer \in 0..BeatPeriod - 1 /\ age \in 0..Timeout + 1
      /\ txIndex \in Buffers
  BY TimeoutAssumption, BeatAssumption, TxAssumption DEF Init, Buffers
<1>2. TypeOK
  BY <1>1, InitCommandType, AllOffType, NoFramesType DEF Init, TypeOK, PCs
<1> QED BY <1>2 DEF Init, TypeInv, Flow

\* The variables that only the sending half of a call changes.
SendTypes ==
  /\ pending \in BOOLEAN
  /\ beatTimer \in 0..BeatPeriod - 1
  /\ txIndex \in Buffers
  /\ buf \in [Buffers -> Loads]
  /\ room \in BOOLEAN

LEMMA SendTypesNext == SendTypes /\ [Next]_vars => SendTypes'
<1> SUFFICES ASSUME SendTypes, [Next]_vars PROVE SendTypes'
  OBVIOUS
<1> USE BeatAssumption DEF SendTypes, sendVars, histVars
<1>1. CASE UNCHANGED <<sendVars, room>>
  BY <1>1
<1>2. CASE CheckRequest
  <2>1. room' \in BOOLEAN
    BY <1>2, Zenon DEF CheckRequest
  <2> QED BY <1>2, <2>1 DEF CheckRequest
<1>3. CASE HandleRequest
  BY <1>3, SendType DEF HandleRequest, Loads
<1>4. CASE SendPendingEvent
  BY <1>4, SendType DEF SendPendingEvent, Loads
<1>5. CASE SendHeartbeat
  <2>1. beatTimer' \in 0..BeatPeriod - 1
    BY <1>5 DEF SendHeartbeat
  <2>2. buf' \in [Buffers -> Loads] /\ txIndex' \in Buffers
    BY <1>5, SendType DEF SendHeartbeat, Loads
  <2> QED BY <1>5, <2>1, <2>2 DEF SendHeartbeat
<1>6. ASSUME NEW pressed \in BOOLEAN, NEW drained \in BOOLEAN,
             FinishTurn(pressed, drained)
      PROVE  SendTypes'
  <2>1. pending' \in BOOLEAN
    BY <1>6, Zenon DEF FinishTurn
  <2>2. buf' \in [Buffers -> Loads]
    BY <1>6, NoFramesType DEF FinishTurn
  <2> QED BY <1>6, <2>1, <2>2 DEF FinishTurn
<1>7. ASSUME NEW b \in Buffers, TxDone(b) PROVE SendTypes'
  BY <1>7 DEF TxDone, Loads
<1>8. \/ UNCHANGED <<sendVars, room>>
      \/ CheckRequest \/ HandleRequest \/ SendPendingEvent \/ SendHeartbeat
      \/ \E pressed, drained \in BOOLEAN : FinishTurn(pressed, drained)
      \/ \E b \in Buffers : TxDone(b)
  BY DEF Next, MainLoop, Update1ms, RxCommand, RxRequest, CheckTime, LoadTime,
     StoreTime, CheckExpired, EnterSafeStateByTimeout, NothingReceived,
     StartCopy, CopyField, ClearUpdated, Apply, ClearRequest, vars
<1> QED BY <1>1, <1>2, <1>3, <1>4, <1>5, <1>6, <1>7, <1>8

\* The steps that only send touch nothing of the command path.
SendStep ==
  \/ CheckRequest \/ ClearRequest \/ HandleRequest
  \/ SendPendingEvent \/ SendHeartbeat
  \/ \E pressed, drained \in BOOLEAN : FinishTurn(pressed, drained)

SendPCs == {"uds", "udsClear", "answer", "event", "beat", "rest"}

LEMMA SendStepEffect ==
  SendStep =>
    /\ pc \in SendPCs /\ pc' \in (SendPCs \cup {"check"}) \ {"uds"}
    /\ UNCHANGED <<rx, rxUpdated, cmdTimeout, outVars, reg, idx, cmd, prevRx,
                   overlapped, age>>
  BY DEF SendStep, CheckRequest, ClearRequest, HandleRequest, SendPendingEvent,
     SendHeartbeat, FinishTurn, SendPCs, isrVars, histVars

\* The bus and the requests: no step of the command path either.
BusStep == RxRequest \/ \E b \in Buffers : TxDone(b)

LEMMA BusStepEffect ==
  BusStep =>
    UNCHANGED <<rx, rxUpdated, cmdTimeout, outVars, loopVars, prevRx, overlapped, age>>
  BY DEF BusStep, RxRequest, TxDone, isrVars, histVars

LEMMA OverlapType ==
  ASSUME NEW f \in Frames, RxCommand(f)
  PROVE  overlapped' \in BOOLEAN /\ rxUpdated' \in BOOLEAN
<1>1. overlapped' = InCall /\ rxUpdated' = TRUE
  BY Zenon DEF RxCommand
<1> QED BY <1>1, SMT DEF InCall

LEMMA TypeNext == TypeInv /\ [Next]_vars => TypeInv'
<1> SUFFICES ASSUME TypeInv, [Next]_vars PROVE TypeInv'
  OBVIOUS
<1>0. SendTypes'
  BY SendTypesNext DEF TypeInv, TypeOK, SendTypes
<1> USE TimeoutAssumption DEF TypeInv, TypeOK, Flow, PCs, SendTypes
<1> USE DEF vars, isrVars, outVars, loopVars, sendVars, histVars
<1>1. ASSUME NEW f \in Frames, RxCommand(f) PROVE TypeInv'
  <2>1. overlapped' \in BOOLEAN /\ rxUpdated' \in BOOLEAN
    BY <1>1, OverlapType
  <2>2. rx' \in Command /\ prevRx' \in Command
    BY <1>1, ValidFrame DEF RxCommand
  <2>3. /\ UNCHANGED <<udsUpdated, outVars, loopVars>>
        /\ cmdTimeout' = 0 /\ age' = 0
    BY <1>1, Zenon DEF RxCommand
  <2> QED BY <1>0, <2>1, <2>2, <2>3
<1>2. CASE CheckTime
  <2>1. age' \in 0..Timeout + 1
    BY <1>2 DEF CheckTime
  <2> QED BY <1>0, <1>2, <2>1 DEF CheckTime
<1>3. CASE LoadTime
  BY <1>0, <1>3 DEF LoadTime
<1>4. CASE StoreTime
  BY <1>0, <1>4 DEF StoreTime
<1>5. CASE CheckExpired
  BY <1>0, <1>5 DEF CheckExpired
<1>6. CASE EnterSafeStateByTimeout
  <2>1. cur' \in Command /\ lamps' \in Lamps
    BY <1>6, SafeStateType DEF EnterSafeStateByTimeout, Modes
  <2> QED BY <1>0, <1>6, <2>1 DEF EnterSafeStateByTimeout
<1>7. CASE NothingReceived
  BY <1>0, <1>7 DEF NothingReceived
<1>8. CASE StartCopy
  BY <1>0, <1>8 DEF StartCopy
<1>9. CASE CopyField
  <2>1. cmd' \in Command
    BY <1>9, CopyType DEF CopyField
  <2> QED BY <1>0, <1>9, <2>1 DEF CopyField
<1>10. CASE ClearUpdated
  BY <1>0, <1>10 DEF ClearUpdated
<1>11. CASE Apply
  <2>1. cur' \in Command /\ lamps' \in Lamps
    BY <1>11, ApplyType DEF Apply
  <2> QED BY <1>0, <1>11, <2>1, InitCommandType DEF Apply
<1>12. CASE SendStep
  <2>1. udsUpdated' \in BOOLEAN
    BY <1>12 DEF SendStep, CheckRequest, ClearRequest, HandleRequest,
       SendPendingEvent, SendHeartbeat, FinishTurn
  <2> QED BY <1>0, <1>12, <2>1, SendStepEffect DEF SendPCs
<1>13. CASE BusStep
  <2>1. udsUpdated' \in BOOLEAN
    BY <1>13 DEF BusStep, RxRequest, TxDone
  <2> QED BY <1>0, <1>13, <2>1, BusStepEffect
<1>14. CASE UNCHANGED vars
  BY <1>0, <1>14
<1> QED
  BY <1>1, <1>2, <1>3, <1>4, <1>5, <1>6, <1>7, <1>8, <1>9, <1>10, <1>11,
     <1>12, <1>13, <1>14
  DEF Next, MainLoop, Update1ms, SendStep, BusStep

\* Type correctness: no invalid byte reaches the lamps, and the counter of
\* g_cmdTimeoutMs never passes the timeout, whenever the interrupt resets it.
THEOREM TypeCorrect == Spec => []TypeOK
<1>1. TypeInv => TypeOK
  BY DEF TypeInv
<1> QED BY TypeInit, TypeNext, <1>1, PTL DEF Spec

-----------------------------------------------------------------------------
(* Torn and lost commands.                                                 *)

\* The effect of copying field i on every field.
LEMMA CopyEffect ==
  ASSUME NEW c \in Command, NEW r \in Command, NEW i \in 1..6, NEW j \in 1..6
  PROVE  [c EXCEPT ![Fields[i]] = r[Fields[i]]][Fields[j]]
           = IF j = i THEN r[Fields[j]] ELSE c[Fields[j]]
<1>1. Fields[j] \in DOMAIN c
  BY DEF Fields, Command
<1>2. i # j => Fields[i] # Fields[j]
  BY DEF Fields
<1> QED BY <1>1, <1>2

LEMMA TornInit == Init => TornAtOnePoint
  BY DEF Init, TornAtOnePoint

LEMMA TornNext == TypeInv /\ TornAtOnePoint /\ [Next]_vars => TornAtOnePoint'
<1> SUFFICES ASSUME TypeInv, TornAtOnePoint, [Next]_vars,
                    pc' \in {"copy", "clear", "apply"}
             PROVE  \E cut \in 0..idx' - 1 :
                      /\ ~overlapped' => cut = 0
                      /\ \A i \in 1..cut : cmd'[Fields[i]] = prevRx'[Fields[i]]
                      /\ \A i \in cut + 1..idx' - 1 : cmd'[Fields[i]] = rx'[Fields[i]]
  BY DEF TornAtOnePoint
<1> DEFINE Tear(cut) ==
      /\ ~overlapped => cut = 0
      /\ \A i \in 1..cut : cmd[Fields[i]] = prevRx[Fields[i]]
      /\ \A i \in cut + 1..idx - 1 : cmd[Fields[i]] = rx[Fields[i]]
<1>1. ASSUME NEW f \in Frames, RxCommand(f)
      PROVE  \E cut \in 0..idx' - 1 : Tear(cut)'
  <2>1. UNCHANGED <<pc, idx, cmd>> /\ prevRx' = rx
    BY <1>1, Zenon DEF RxCommand, loopVars
  <2>2. InCall /\ overlapped' /\ ~overlapped
    BY <1>1, <2>1 DEF RxCommand, SpacedByMain, InCall
  <2>3. idx \in 1..7
    BY <2>1 DEF TypeInv, Flow
  <2>4. \A i \in 1..idx - 1 : cmd[Fields[i]] = rx[Fields[i]]
    BY <2>1, <2>2 DEF TornAtOnePoint
  <2>5. idx - 1 \in 0..idx' - 1
    BY <2>1, <2>3
  <2>6. Tear(idx - 1)'
    BY <2>1, <2>2, <2>3, <2>4
  <2> QED BY <2>1, <2>5, <2>6
<1>2. CASE StartCopy
  <2>1. 0 \in 0..idx' - 1 /\ Tear(0)'
    BY <1>2 DEF StartCopy
  <2> QED BY <2>1
<1>3. CASE CopyField
  <2>1. /\ pc = "copy" /\ idx' = idx + 1
        /\ cmd' = [cmd EXCEPT ![Fields[idx]] = rx[Fields[idx]]]
        /\ UNCHANGED <<rx, prevRx, overlapped>>
    BY <1>3 DEF CopyField, isrVars, histVars
  <2>2. idx \in 1..6 /\ cmd \in Command /\ rx \in Command
    BY <2>1 DEF TypeInv, TypeOK, Flow
  <2>3. \A j \in 1..6 : cmd'[Fields[j]] = IF j = idx THEN rx[Fields[j]] ELSE cmd[Fields[j]]
    BY <2>1, <2>2, CopyEffect
  <2>4. PICK cut \in 0..idx - 1 : Tear(cut)
    BY <2>1 DEF TornAtOnePoint
  <2>5. cut \in 0..idx' - 1 /\ Tear(cut)'
    BY <2>1, <2>2, <2>3, <2>4
  <2> QED BY <2>5
<1>4. CASE ClearUpdated \/ BusStep \/ UNCHANGED vars
  <2>1. /\ pc \in {"copy", "clear", "apply"}
        /\ UNCHANGED <<rx, prevRx, overlapped, idx, cmd>>
    BY <1>4, BusStepEffect DEF ClearUpdated, vars, isrVars, loopVars, histVars
  <2> QED BY <2>1 DEF TornAtOnePoint
<1>5. \/ \E f \in Frames : RxCommand(f)
      \/ StartCopy \/ CopyField \/ ClearUpdated \/ BusStep \/ UNCHANGED vars
  <2>1. ~SendStep
    BY SendStepEffect DEF SendPCs
  <2> QED BY <2>1 DEF Next, MainLoop, Update1ms, SendStep, BusStep, CheckTime,
      LoadTime, StoreTime, CheckExpired, EnterSafeStateByTimeout,
      NothingReceived, Apply
<1> QED BY <1>1, <1>2, <1>3, <1>4, <1>5

\* A command that was sent twice is copied whole.
LEMMA RepeatedCopied ==
  ASSUME TypeInv, TornAtOnePoint, pc \in {"clear", "apply"}, rx = prevRx
  PROVE  cmd = rx
<1>1. idx = 7 /\ cmd \in Command /\ rx \in Command
  BY DEF TypeInv, TypeOK, Flow
<1>2. PICK cut \in 0..6 :
        /\ \A i \in 1..cut : cmd[Fields[i]] = prevRx[Fields[i]]
        /\ \A i \in cut + 1..6 : cmd[Fields[i]] = rx[Fields[i]]
  BY <1>1 DEF TornAtOnePoint
<1>3. \A i \in 1..6 : cmd[Fields[i]] = rx[Fields[i]]
  BY <1>2
<1>4. /\ cmd.headlamp = rx.headlamp /\ cmd.turn = rx.turn /\ cmd.brake = rx.brake
      /\ cmd.horn = rx.horn /\ cmd.warning = rx.warning /\ cmd.mode = rx.mode
  <2>1. /\ Fields[1] = "headlamp" /\ Fields[2] = "turn" /\ Fields[3] = "brake"
        /\ Fields[4] = "horn" /\ Fields[5] = "warning" /\ Fields[6] = "mode"
    BY DEF Fields
  <2> QED BY <1>3, <2>1
<1> QED BY <1>1, <1>4 DEF Command

\* A timeout that is about to darken the lamps has counted to its end, or has
\* been overtaken by a command that waits.
SafeIsDue == pc = "safe" => cmdTimeout = Timeout \/ rxUpdated

ShownInv == TypeInv /\ TornAtOnePoint /\ SafeIsDue /\ RepeatedIsShown

LEMMA ApplyShows ==
  ASSUME NEW c, ApplyBodyCommand(c)
  PROVE  lamps' = Demand(c)
  BY DEF ApplyBodyCommand, EnterSafeState, Demand

LEMMA ShownNext == ShownInv /\ [Next]_vars => ShownInv'
<1> SUFFICES ASSUME ShownInv, [Next]_vars PROVE SafeIsDue' /\ RepeatedIsShown'
  BY TypeNext, TornNext DEF ShownInv
<1>0. TypeInv /\ cmdTimeout \in 0..Timeout /\ Timeout \in Nat
  BY TimeoutAssumption DEF ShownInv, TypeInv, TypeOK
<1> USE DEF ShownInv, SafeIsDue, RepeatedIsShown, Demand
<1>1. ASSUME NEW f \in Frames, RxCommand(f) PROVE SafeIsDue' /\ RepeatedIsShown'
  <2>1. rxUpdated' = TRUE
    BY <1>1, Zenon DEF RxCommand
  <2> QED BY <2>1
<1>2. CASE CheckExpired
  BY <1>0, <1>2 DEF CheckExpired, isrVars, outVars, histVars
<1>3. CASE StoreTime
  <2>1. cmdTimeout < Timeout
    BY <1>3 DEF StoreTime, TypeInv, Flow
  <2> QED BY <1>0, <1>3, <2>1 DEF StoreTime, outVars, histVars
<1>4. CASE EnterSafeStateByTimeout
  BY <1>0, <1>4 DEF EnterSafeStateByTimeout, EnterSafeState, isrVars, histVars
<1>5. CASE ClearUpdated
  <2>1. /\ pc = "clear" /\ pc' = "apply"
        /\ UNCHANGED <<rx, prevRx, cmd>>
    BY <1>5 DEF ClearUpdated, histVars
  <2> QED BY <2>1, RepeatedCopied
<1>6. CASE Apply
  <2>1. /\ pc = "apply" /\ pc' = "uds" /\ ApplyBodyCommand(cmd)
        /\ UNCHANGED <<rx, prevRx>>
    BY <1>6 DEF Apply, isrVars, histVars
  <2>2. rx' = prevRx' => lamps' = Demand(rx)
    BY <2>1, RepeatedCopied, ApplyShows
  <2> QED BY <2>1, <2>2
<1>7. CASE /\ pc # "apply" /\ pc' # "safe"
           /\ UNCHANGED <<rx, prevRx, rxUpdated, lamps, cmdTimeout>>
  BY <1>7
<1>8. CASE /\ UNCHANGED <<rx, prevRx, rxUpdated, lamps, cmdTimeout, pc, cmd>>
  BY <1>8
<1>9. \/ \E f \in Frames : RxCommand(f)
      \/ CheckExpired \/ StoreTime \/ EnterSafeStateByTimeout
      \/ ClearUpdated \/ Apply
      \/ /\ pc # "apply" /\ pc' # "safe"
         /\ UNCHANGED <<rx, prevRx, rxUpdated, lamps, cmdTimeout>>
      \/ UNCHANGED <<rx, prevRx, rxUpdated, lamps, cmdTimeout, pc, cmd>>
  <2>1. CASE SendStep
    BY <2>1, SendStepEffect DEF SendPCs, outVars
  <2>2. CASE BusStep
    BY <2>2, BusStepEffect DEF outVars, loopVars
  <2>3. CASE CheckTime \/ LoadTime \/ NothingReceived \/ StartCopy \/ CopyField
    BY <2>3 DEF CheckTime, LoadTime, NothingReceived, StartCopy, CopyField,
       isrVars, outVars, histVars
  <2>4. CASE UNCHANGED vars
    BY <2>4 DEF vars, isrVars, outVars, loopVars, histVars
  <2> QED BY <2>1, <2>2, <2>3, <2>4 DEF Next, MainLoop, Update1ms, SendStep, BusStep
<1> QED BY <1>1, <1>2, <1>3, <1>4, <1>5, <1>6, <1>7, <1>8, <1>9

\* A command that was lost in the copy, or torn by the next, is made good by an
\* equal one after it, at every interleaving of the interrupt with the copy and
\* the increment of the counter (BodyCan_Update1ms).
THEOREM RepeatedShown == Spec => []RepeatedIsShown
<1>1. Init => ShownInv
  <2> SUFFICES ASSUME Init PROVE ShownInv
    OBVIOUS
  <2>1. lamps = AllOff /\ cmdTimeout = Timeout /\ pc = "check"
    BY DEF Init
  <2> QED BY <2>1, TypeInit, TornInit DEF ShownInv, SafeIsDue, RepeatedIsShown
<1>2. ShownInv => RepeatedIsShown
  BY DEF ShownInv
<1> QED BY <1>1, <1>2, ShownNext, PTL DEF Spec

-----------------------------------------------------------------------------
(* The dead man's switch.                                                  *)

\* The counter, or the register between load and store, never lags behind the
\* age of the last command.
TimeCoversAge ==
  /\ pc = "load"  => age <= cmdTimeout + 1
  /\ pc = "store" => age <= reg + 1
  /\ pc \notin {"load", "store"} => age <= cmdTimeout \/ cmdTimeout = Timeout

Applying == {"copy", "clear", "apply"}
Asking   == {"load", "store", "expired", "safe", "updated"}

\* A command that waits, or is being copied, arrived in this call or since it
\* asked for a command last.
WaitingIsNew ==
  /\ rxUpdated => age <= 1
  /\ rxUpdated /\ pc \notin Asking \cup Applying => age = 0
  /\ rxUpdated /\ pc = "apply" => age = 0
  /\ pc \in Applying => age <= 1

Lit == lamps # AllOff

LitOnlyYoung ==
  Lit => /\ age <= Timeout
         /\ pc \notin {"load", "store", "expired", "safe"} => age < Timeout

DeadManInv == TypeInv /\ TimeCoversAge /\ WaitingIsNew /\ LitOnlyYoung

LEMMA DeadManInit == Init => DeadManInv
<1> SUFFICES ASSUME Init PROVE DeadManInv
  OBVIOUS
<1>1. TimeCoversAge /\ WaitingIsNew /\ LitOnlyYoung
  BY TimeoutAssumption DEF Init, TimeCoversAge, WaitingIsNew, LitOnlyYoung, Lit,
     Asking, Applying
<1> QED BY <1>1, TypeInit DEF DeadManInv

\* The ages, in the steps that do not change the lamps.
LEMMA AgesNext ==
  TypeInv /\ TimeCoversAge /\ WaitingIsNew /\ [Next]_vars
    => TimeCoversAge' /\ WaitingIsNew'
<1> SUFFICES ASSUME TypeInv, TimeCoversAge, WaitingIsNew, [Next]_vars
             PROVE  TimeCoversAge' /\ WaitingIsNew'
  OBVIOUS
<1>0. /\ cmdTimeout \in 0..Timeout /\ reg \in 0..Timeout - 1
      /\ age \in 0..Timeout + 1 /\ Timeout \in Nat \ {0, 1}
      /\ pc \in {"load", "store"} => cmdTimeout < Timeout
  BY TimeoutAssumption DEF TypeInv, TypeOK, Flow
<1> USE <1>0 DEF TimeCoversAge, WaitingIsNew, Asking, Applying
<1>1. ASSUME NEW f \in Frames, RxCommand(f) PROVE TimeCoversAge' /\ WaitingIsNew'
  <2>1. cmdTimeout' = 0 /\ age' = 0 /\ UNCHANGED <<pc, reg>>
    BY <1>1, Zenon DEF RxCommand, loopVars
  <2> QED BY <2>1
<1>2. CASE CheckTime
  <2>1. age' \in {age, age + 1} /\ age' <= age + 1
    BY <1>2 DEF CheckTime
  <2>2. age' = age => age > Timeout
    BY <1>2 DEF CheckTime
  <2>3. TimeCoversAge'
    BY <1>2, <2>1, <2>2 DEF CheckTime, isrVars
  <2> QED BY <1>2, <2>1, <2>2, <2>3 DEF CheckTime, isrVars
<1>3. CASE LoadTime
  BY <1>3 DEF LoadTime, isrVars, histVars
<1>4. CASE StoreTime
  BY <1>4 DEF StoreTime, histVars
<1>5. CASE CheckExpired \/ EnterSafeStateByTimeout \/ NothingReceived
  BY <1>5 DEF CheckExpired, EnterSafeStateByTimeout, NothingReceived, isrVars, histVars
<1>6. CASE StartCopy \/ CopyField
  BY <1>6 DEF StartCopy, CopyField, isrVars, histVars
<1>7. CASE ClearUpdated
  BY <1>7 DEF ClearUpdated, histVars
<1>8. CASE Apply
  BY <1>8 DEF Apply, isrVars, histVars
<1>9. CASE SendStep
  BY <1>9, SendStepEffect DEF SendPCs
<1>10. CASE BusStep
  BY <1>10, BusStepEffect DEF loopVars
<1>11. CASE UNCHANGED vars
  BY <1>11 DEF vars, isrVars, loopVars, histVars
<1> QED
  BY <1>1, <1>2, <1>3, <1>4, <1>5, <1>6, <1>7, <1>8, <1>9, <1>10, <1>11
  DEF Next, MainLoop, Update1ms, SendStep, BusStep

\* Each step is a step of the dead man's switch or none.
LEMMA DeadManStep ==
  DeadManInv /\ [Next]_vars => LitOnlyYoung' /\ [DM!Next]_(DM!vars)
<1> SUFFICES ASSUME DeadManInv, [Next]_vars
             PROVE  LitOnlyYoung' /\ [DM!Next]_(DM!vars)
  OBVIOUS
<1>0. cmdTimeout \in 0..Timeout /\ age \in 0..Timeout + 1 /\ Timeout \in Nat \ {0, 1}
  BY TimeoutAssumption DEF DeadManInv, TypeInv, TypeOK
<1> USE DEF DM!Next, DM!vars
<1>1. ASSUME NEW f \in Frames, RxCommand(f) PROVE LitOnlyYoung' /\ DM!Receive
  <2>1. age' = 0 /\ UNCHANGED <<pc, lamps>>
    BY <1>1, Zenon DEF RxCommand, outVars, loopVars
  <2> QED BY <1>0, <2>1 DEF LitOnlyYoung, Lit, DM!Receive
<1>2. CASE CheckTime
  <2>1. /\ pc = "check" /\ pc' \in {"load", "expired"} /\ UNCHANGED lamps
        /\ age' = IF age > Timeout THEN age ELSE age + 1
    BY <1>2 DEF CheckTime, outVars
  <2>2. Lit => age < Timeout
    BY <2>1 DEF DeadManInv, LitOnlyYoung
  <2>3. LitOnlyYoung'
    BY <1>0, <2>1, <2>2 DEF LitOnlyYoung, Lit
  <2>4. CASE age > Timeout
    BY <2>1, <2>4, <2>3
  <2>5. CASE ~(age > Timeout)
    BY <1>0, <2>1, <2>2, <2>3, <2>5 DEF DM!Turn, Lit
  <2> QED BY <2>4, <2>5
<1>3. CASE CheckExpired
  <2>1. /\ pc = "expired" /\ UNCHANGED <<age, lamps>>
        /\ pc' = IF cmdTimeout >= Timeout THEN "safe" ELSE "updated"
    BY <1>3 DEF CheckExpired, outVars, histVars
  <2>2. cmdTimeout < Timeout => age < Timeout
    BY <1>0, <2>1 DEF DeadManInv, TimeCoversAge
  <2> QED BY <1>0, <2>1, <2>2 DEF DeadManInv, LitOnlyYoung, Lit
<1>4. CASE EnterSafeStateByTimeout
  <2>1. ~Lit' /\ UNCHANGED age
    BY <1>4 DEF EnterSafeStateByTimeout, EnterSafeState, Lit, histVars
  <2> QED BY <2>1 DEF LitOnlyYoung, DM!Stop, Lit
<1>5. CASE Apply
  <2>1. age < Timeout /\ UNCHANGED age
    BY <1>0, <1>5 DEF Apply, DeadManInv, WaitingIsNew, Applying, histVars
  <2>2. LitOnlyYoung'
    BY <1>0, <2>1 DEF LitOnlyYoung
  <2>3. CASE Lit'
    BY <2>1, <2>2, <2>3 DEF DM!Start, Lit
  <2>4. CASE ~Lit'
    BY <2>1, <2>2, <2>4 DEF DM!Stop, Lit
  <2> QED BY <2>3, <2>4
<1>6. CASE /\ \/ pc \notin {"load", "store", "expired", "safe"}
              \/ pc' \in {"load", "store", "expired", "safe"}
           /\ UNCHANGED <<age, lamps>>
  BY <1>6 DEF DeadManInv, LitOnlyYoung, Lit
<1>7. CASE UNCHANGED <<pc, age, lamps>>
  BY <1>7 DEF DeadManInv, LitOnlyYoung, Lit
<1>8. \/ \E f \in Frames : RxCommand(f)
      \/ CheckTime \/ CheckExpired \/ EnterSafeStateByTimeout \/ Apply
      \/ /\ \/ pc \notin {"load", "store", "expired", "safe"}
            \/ pc' \in {"load", "store", "expired", "safe"}
         /\ UNCHANGED <<age, lamps>>
      \/ UNCHANGED <<pc, age, lamps>>
  <2>1. CASE SendStep
    BY <2>1, SendStepEffect DEF SendPCs, outVars
  <2>2. CASE BusStep
    BY <2>2, BusStepEffect DEF outVars, loopVars
  <2>3. CASE LoadTime \/ StoreTime \/ NothingReceived \/ StartCopy \/ CopyField
             \/ ClearUpdated
    BY <2>3 DEF LoadTime, StoreTime, NothingReceived, StartCopy, CopyField,
       ClearUpdated, outVars, histVars
  <2>4. CASE UNCHANGED vars
    BY <2>4 DEF vars, outVars, loopVars, histVars
  <2> QED BY <2>1, <2>2, <2>3, <2>4 DEF Next, MainLoop, Update1ms, SendStep, BusStep
<1> QED BY <1>1, <1>2, <1>3, <1>4, <1>5, <1>6, <1>7, <1>8

\* SYS-037 for the lamps, the horn and the brake light: they are lit by a dead
\* man's switch, although the timeout remembers nothing and a command may be
\* applied behind it in the same call (BodyCan_Update1ms).
THEOREM DeadManImplemented == Spec => DM!SafetySpec
<1>1. Init => DM!Init
  BY DEF Init, DM!Init
<1>2. DeadManInv /\ [Next]_vars => DeadManInv'
  BY TypeNext, AgesNext, DeadManStep DEF DeadManInv
<1> QED BY DeadManInit, <1>1, <1>2, DeadManStep, PTL DEF Spec, DM!SafetySpec

-----------------------------------------------------------------------------
(* The frames.                                                             *)

\* Before an answer all the buffers are still free, behind it the next one is.
RoomInv ==
  /\ TypeInv
  /\ room /\ pc \in {"udsClear", "answer"} => buf = NoFrames
  /\ room /\ pc = "event" => buf[txIndex] = "free"
  /\ EventSentWhenRoom

LEMMA NextBuffer ==
  ASSUME NEW i \in Buffers
  PROVE  (i + 1) % TxBuffers \in Buffers /\ (i + 1) % TxBuffers # i
<1>1. CASE i + 1 < TxBuffers
  BY <1>1, TxAssumption DEF Buffers
<1>2. CASE i + 1 = TxBuffers
  BY <1>2, TxAssumption DEF Buffers
<1> QED BY <1>1, <1>2, TxAssumption DEF Buffers

LEMMA RoomNext == RoomInv /\ [Next]_vars => RoomInv'
<1> DEFINE Sends == /\ room /\ pc \in {"udsClear", "answer"} => buf = NoFrames
                    /\ room /\ pc = "event" => buf[txIndex] = "free"
                    /\ EventSentWhenRoom
<1> SUFFICES ASSUME RoomInv, [Next]_vars PROVE Sends'
  BY TypeNext DEF RoomInv
<1>0. buf \in [Buffers -> Loads] /\ txIndex \in Buffers
  BY DEF RoomInv, TypeInv, TypeOK
<1>a. \A b \in Buffers : NoFrames[b] = "free"
  BY DEF NoFrames
<1> USE DEF RoomInv, EventSentWhenRoom
<1>1. CASE CheckRequest
  <2>1. /\ pc' \in {"udsClear", "event"} /\ UNCHANGED <<buf, txIndex>>
        /\ room' => buf = NoFrames
    BY <1>1 DEF CheckRequest, sendVars
  <2> QED BY <1>0, <1>a, <2>1
<1>2. CASE ClearRequest
  BY <1>2 DEF ClearRequest, sendVars, histVars
<1>3. CASE HandleRequest
  <2>1. pc = "answer" /\ pc' = "event" /\ UNCHANGED room
    BY <1>3 DEF HandleRequest, histVars
  <2>2. CASE SendRawFrame("answer")
    <3>1. (txIndex + 1) % TxBuffers \in Buffers /\ (txIndex + 1) % TxBuffers # txIndex
      BY <1>0, NextBuffer
    <3> QED BY <1>0, <1>a, <2>1, <2>2, <3>1 DEF SendRawFrame
  <2>3. CASE UNCHANGED <<buf, txIndex>>
    BY <1>0, <1>a, <2>1, <2>3
  <2> QED BY <1>3, <2>2, <2>3 DEF HandleRequest, NotSentBusy
<1>4. CASE SendPendingEvent
  <2>1. pc = "event" /\ pc' = "beat" /\ UNCHANGED room
    BY <1>4 DEF SendPendingEvent, histVars
  <2>2. room => ~pending'
    BY <1>4, <2>1 DEF SendPendingEvent, NotSentBusy
  <2> QED BY <2>1, <2>2
<1>5. CASE SendHeartbeat \/ \E pressed, drained \in BOOLEAN : FinishTurn(pressed, drained)
  <2>1. pc' \in {"rest", "check"}
    BY <1>5 DEF SendHeartbeat, FinishTurn
  <2> QED BY <2>1
<1>6. ASSUME NEW b \in Buffers, TxDone(b) PROVE Sends'
  <2>1. /\ buf' = [buf EXCEPT ![b] = "free"] /\ buf[b] # "free"
        /\ UNCHANGED <<pc, pending, txIndex, room>>
    BY <1>6 DEF TxDone, loopVars, histVars
  <2>2. buf # NoFrames
    BY <1>a, <2>1
  <2> QED BY <1>0, <2>1, <2>2
<1>7. CASE UNCHANGED <<pc, pending, buf, txIndex, room>>
  BY <1>7
<1>8. CASE pc' \notin {"udsClear", "answer", "event", "beat"}
  BY <1>8
<1>9. \/ CheckRequest \/ ClearRequest \/ HandleRequest \/ SendPendingEvent
      \/ SendHeartbeat \/ \E pressed, drained \in BOOLEAN : FinishTurn(pressed, drained)
      \/ \E b \in Buffers : TxDone(b)
      \/ UNCHANGED <<pc, pending, buf, txIndex, room>>
      \/ pc' \notin {"udsClear", "answer", "event", "beat"}
  BY DEF Next, MainLoop, Update1ms, RxCommand, RxRequest, CheckTime, LoadTime,
     StoreTime, CheckExpired, EnterSafeStateByTimeout, NothingReceived,
     StartCopy, CopyField, ClearUpdated, Apply, vars, loopVars, sendVars, histVars
<1> QED BY <1>1, <1>2, <1>3, <1>4, <1>5, <1>6, <1>7, <1>8, <1>9

\* With two buffers or more an answer never takes the place of the collision
\* event: a call that begins to send with free buffers sends a pending event
\* (BodyCan_SendPendingCollisionEventIfNeeded, BodyCan_SendRawFrame).
THEOREM EventSent == Spec => []EventSentWhenRoom
<1>1. Init => RoomInv
  <2> SUFFICES ASSUME Init PROVE RoomInv
    OBVIOUS
  <2>1. pc = "check"
    BY DEF Init
  <2> QED BY <2>1, TypeInit DEF RoomInv, EventSentWhenRoom
<1>2. RoomInv => EventSentWhenRoom
  BY DEF RoomInv
<1> QED BY <1>1, <1>2, RoomNext, PTL DEF Spec
=============================================================================
