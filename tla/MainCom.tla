------------------------------ MODULE MainCom -------------------------------
(***************************************************************************)
(* The service layer of the MAIN gateway: com.c (signals, cyclic frames,   *)
(* supervision of the three sources), swc.c (mode and fail-safe rules) and *)
(* dcm.c (communication DTCs).                                             *)
(*                                                                         *)
(* All of it runs in the endless loop of Cpu0_Main.c; only the millisecond *)
(* counter moves underneath.  A turn of the loop is three steps: Receive   *)
(* (the lwIP and CAN polls hand any number of packets to the handlers),    *)
(* COM_TimeOut and COM_Tx_MainFunction, each of which reads the time once. *)
(* The time may advance between any two of them.                           *)
(*                                                                         *)
(* The C code keeps the time of the last event and subtracts it from the   *)
(* present; the model keeps the difference.  What passes through to the    *)
(* frames without touching a decision is left out: accelerator, brake,     *)
(* steering, gear, horn, head light and the collision warning switch.      *)
(***************************************************************************)
EXTENDS Naturals

CONSTANTS
  Ecus,       \* the sources on the CAN bus: ACT and BODY
  Controls,   \* what a control datagram of the PC may ask for
  Threshold,  \* UDP_, ACT_ and BODY_TIMEOUT_THRESHOLD_MS (all 500)
  CyclicMs,   \* the period of the 0x100 and 0x110 frames (20)
  TurnMs,     \* bound: the milliseconds one turn of the main loop may take
  MaxCount    \* the value at which an occurrence counter stops (255)

Sources   == Ecus \cup {"Pc"}
Modes     == {"DEFAULT", "REMOTE", "DIAG"}
Turns     == {"OFF", "LEFT", "RIGHT", "HAZARD"}
Ignitions == {"ON", "OFF", "OTHER"}
DtcBits   == {"TEST_FAILED", "CONFIRMED"}

ASSUME EcusAssumption == "Pc" \notin Ecus

ASSUME ControlsAssumption == Controls \subseteq [turn : Turns, ignition : Ignitions]

ASSUME TimesAssumption ==
  /\ Threshold \in Nat \ {0}
  /\ CyclicMs \in Nat \ {0}
  /\ TurnMs \in Nat \ {0}

ASSUME MaxCountAssumption == MaxCount \in Nat /\ MaxCount >= 3

\* How late a turn of the loop can notice that an age reached the threshold.
NoticedBy == Threshold + 2 * TurnMs

\* How late the frames that follow from it can be on the bus.
HeldBy == Threshold + CyclicMs + 2 * TurnMs

\* The ages and the history variables stop at a bound that no comparison
\* tells from a larger value.
AgeCap   == NoticedBy
QuietCap == 3 * Threshold + HeldBy

Later(age, cap) == IF age < cap THEN age + 1 ELSE age

VARIABLES
  mode,           \* COM_Cur_Mode
  override,       \* COM_Safety_Override
  turnSignal,     \* COM_RxBuf_UDP_Ctr.turn_signal
  age,            \* time - Last_Udp_RxTime, Last_Act_RxTime, Last_Body_RxTime
  dtc,            \* DtcStatus_Pc, _Act, _Body as sets of status bits
  occurCount,     \* DtcOccurCount_Pc, _Act, _Body
  txAge,          \* time - lastTime_20ms
  sent,           \* the last 0x100 and 0x110 frames: [mode, override, turn]
  pc,             \* the next step of the main loop
  turnTime,       \* the milliseconds this turn has taken
  quiet,          \* history: the time since a source was last heard
  sinceClear      \* history: the time since the DTCs were last cleared

com  == <<mode, override, turnSignal>>
dcm  == <<dtc, occurCount>>
bus  == <<txAge, sent>>
vars == <<com, age, dcm, bus, pc, turnTime, quiet, sinceClear>>

-----------------------------------------------------------------------------
(* dcm.c: the communication DTCs.                                          *)

\* A plausible slip: the counter stops one too late.
CommlossOverruns(lost) ==
  /\ occurCount' = [s \in Sources |->
                      IF s \in lost /\ occurCount[s] <= MaxCount
                      THEN occurCount[s] + 1 ELSE occurCount[s]]
  /\ dtc' = [s \in Sources |->
               IF s \in lost
               THEN dtc[s] \cup {"TEST_FAILED"}
                      \cup (IF occurCount'[s] >= 3 THEN {"CONFIRMED"} ELSE {})
               ELSE dtc[s]]

\* DCM_Callback_PcCommloss, _ActCommloss and _BodyCommloss of every source
\* in lost.
Commloss(lost) ==
  LET count(s) == IF occurCount[s] < MaxCount THEN occurCount[s] + 1
                                              ELSE occurCount[s]
  IN  /\ occurCount' = [s \in Sources |-> IF s \in lost THEN count(s)
                                                        ELSE occurCount[s]]
      /\ dtc' = [s \in Sources |->
                   IF s \in lost
                   THEN dtc[s] \cup {"TEST_FAILED"}
                          \cup (IF count(s) >= 3 THEN {"CONFIRMED"} ELSE {})
                   ELSE dtc[s]]

\* A plausible slip: the counter keeps counting over a recovery.
RecoveredKeepsCount(s) ==
  /\ dtc' = [dtc EXCEPT ![s] = @ \ {"TEST_FAILED"}]
  /\ UNCHANGED occurCount

\* DCM_Callback_PcRecovered, _ActRecovered and _BodyRecovered.
Recovered(s) ==
  /\ dtc' = [dtc EXCEPT ![s] = @ \ {"TEST_FAILED"}]
  /\ occurCount' = [occurCount EXCEPT ![s] = 0]

\* The sources that service 0x19 02 reports for a status mask.
ReportedByMask(mask) == {s \in Sources : dtc[s] \cap mask # {}}

-----------------------------------------------------------------------------
(* The handlers that the polls of the main loop call.                      *)

\* A source is heard: its time stamp is renewed and its DTC recovers.
Heard(s) ==
  /\ age' = [age EXCEPT ![s] = 0]
  /\ quiet' = [quiet EXCEPT ![s] = 0]
  /\ Recovered(s)
  /\ UNCHANGED sinceClear

Receiving == pc = "receive" /\ UNCHANGED <<bus, pc, turnTime>>

\* UDP_Ctr_ProcessRx: a control datagram of the PC.
UdpCtrRx(control) ==
  /\ Receiving
  /\ turnSignal' = control.turn
  /\ mode' = CASE control.ignition = "ON" -> "REMOTE"
               [] control.ignition = "OFF" -> "DEFAULT"
               [] OTHER -> mode
  /\ override' = FALSE
  /\ Heard("Pc")

\* CAN_Stat_processRx and CAN_Body_processRx: the cyclic frame of an ECU.
CanRx(e) ==
  /\ Receiving
  /\ Heard(e)
  /\ UNCHANGED com

\* Uds_ProcessRx, service 0x14 for group 0xFFFFFF.
ClearAllDtc ==
  /\ Receiving
  /\ dtc' = [s \in Sources |-> {}]
  /\ occurCount' = [s \in Sources |-> 0]
  /\ sinceClear' = 0
  /\ UNCHANGED <<com, age, quiet>>

\* Callback_Diag_RoutingActivated, called by a DoIP routing activation.
RoutingActivated ==
  /\ Receiving
  /\ mode = "REMOTE"
  /\ mode' = "DIAG"
  /\ UNCHANGED <<override, turnSignal, age, dcm, quiet, sinceClear>>

\* Callback_Diag_RoutingDeactivated, called when the tester closes the
\* connection.
RoutingDeactivated ==
  /\ Receiving
  /\ mode = "DIAG"
  /\ mode' = "REMOTE"
  /\ UNCHANGED <<override, turnSignal, age, dcm, quiet, sinceClear>>

-----------------------------------------------------------------------------
(* The cyclic part of the main loop.                                       *)

\* A plausible slip: the remote mode guards the supervision of every source.
SilentInRemoteOnly == {s \in Sources : age[s] >= Threshold /\ mode = "REMOTE"}

\* A plausible slip: a loss of the PC that is being handled is not looked at
\* again.
SilentOnce ==
  {s \in Sources : /\ age[s] >= Threshold
                   /\ s = "Pc" => mode = "REMOTE" /\ ~override}

\* The sources that COM_TimeOut finds silent: the PC is supervised in the
\* remote mode only.
Silent == {s \in Sources : /\ age[s] >= Threshold
                           /\ s = "Pc" => mode = "REMOTE"}

\* A plausible slip: the time stamp of the PC is renewed in every mode.
TimeOutRenewsInEveryMode ==
  /\ pc = "timeout"
  /\ IF "Pc" \in Silent THEN override' = TRUE /\ turnSignal' = "HAZARD"
                        ELSE UNCHANGED <<override, turnSignal>>
  /\ Commloss(Silent)
  /\ age' = [s \in Sources |-> IF age[s] >= Threshold THEN 0 ELSE age[s]]
  /\ pc' = "transmit"
  /\ UNCHANGED <<mode, bus, turnTime, quiet, sinceClear>>

\* COM_TimeOut, with Callback_COM_PcTimeout for the PC.
TimeOut ==
  /\ pc = "timeout"
  /\ IF "Pc" \in Silent THEN override' = TRUE /\ turnSignal' = "HAZARD"
                        ELSE UNCHANGED <<override, turnSignal>>
  /\ Commloss(Silent)
  /\ age' = [s \in Sources |-> IF s \in Silent THEN 0 ELSE age[s]]
  /\ pc' = "transmit"
  /\ UNCHANGED <<mode, bus, turnTime, quiet, sinceClear>>

\* COM_Tx_MainFunction: both CAN frames every CyclicMs.  The 50 ms status
\* datagram to the PC carries no state of this module.
Transmit ==
  /\ pc = "transmit"
  /\ IF txAge >= CyclicMs
     THEN /\ sent' = [mode |-> mode, override |-> override, turn |-> turnSignal]
          /\ txAge' = 0
     ELSE UNCHANGED bus
  /\ pc' = "receive"
  /\ turnTime' = 0
  /\ UNCHANGED <<com, age, dcm, quiet, sinceClear>>

\* The polls have handed over what had arrived.
EndReceive ==
  /\ pc = "receive"
  /\ pc' = "timeout"
  /\ UNCHANGED <<com, age, dcm, bus, turnTime, quiet, sinceClear>>

\* The millisecond counter g_TickCount_1ms advances.
Tick ==
  /\ turnTime < TurnMs
  /\ turnTime' = turnTime + 1
  /\ age' = [s \in Sources |-> Later(age[s], AgeCap)]
  /\ quiet' = [s \in Sources |-> Later(quiet[s], QuietCap)]
  /\ sinceClear' = Later(sinceClear, NoticedBy)
  /\ txAge' = txAge + 1
  /\ UNCHANGED <<com, dcm, sent, pc>>

\* The loop starts some time after the counter does; the time stamps are 0.
Init ==
  /\ mode = "DEFAULT"
  /\ override = FALSE
  /\ turnSignal = "OFF"
  /\ \E boot \in 0..Threshold : age = [s \in Sources |-> boot]
  /\ dtc = [s \in Sources |-> {}]
  /\ occurCount = [s \in Sources |-> 0]
  /\ txAge \in 0..CyclicMs
  /\ sent = [mode |-> "DEFAULT", override |-> FALSE, turn |-> "OFF"]
  /\ pc = "receive"
  /\ turnTime = 0
  /\ quiet = age
  /\ sinceClear = 0

Handle ==
  \/ \E control \in Controls : UdpCtrRx(control)
  \/ \E e \in Ecus : CanRx(e)
  \/ ClearAllDtc
  \/ RoutingActivated
  \/ RoutingDeactivated

Next == Handle \/ EndReceive \/ TimeOut \/ Transmit \/ Tick

Spec == Init /\ [][Next]_vars

-----------------------------------------------------------------------------
(* Properties.                                                             *)

\* Every variable has its type and the ages stay under their caps.
TypeOK ==
  /\ mode \in Modes
  /\ override \in BOOLEAN
  /\ turnSignal \in Turns
  /\ age \in [Sources -> 0..AgeCap]
  /\ dtc \in [Sources -> SUBSET DtcBits]
  /\ occurCount \in [Sources -> 0..MaxCount]
  /\ txAge \in 0..(CyclicMs + TurnMs)
  /\ sent \in [mode : Modes, override : BOOLEAN, turn : Turns]
  /\ pc \in {"receive", "timeout", "transmit"}
  /\ turnTime \in 0..TurnMs
  /\ quiet \in [Sources -> 0..QuietCap]
  /\ sinceClear \in 0..NoticedBy

\* Once the PC has been silent for HeldBy, in whatever order datagrams,
\* diagnostic connections and mode changes came before, the last frames on
\* the bus do not let the vehicle drive: outside the remote mode, or with
\* the safety override and the hazard lights (COM_TimeOut,
\* Callback_COM_PcTimeout, the order of the main loop).
SilentPcIsHeld ==
  quiet["Pc"] >= HeldBy =>
    \/ sent.mode # "REMOTE"
    \/ sent.override /\ sent.turn = "HAZARD"

\* An ECU that has been silent for NoticedBy, and whose DTCs were not
\* cleared meanwhile, is in the answer to service 0x19 02 for failed tests.
SilentEcuIsReported ==
  \A e \in Ecus :
    quiet[e] >= NoticedBy /\ sinceClear = NoticedBy =>
      e \in ReportedByMask({"TEST_FAILED"})

\* When the loop is about to send an override in the remote mode, the DTC of
\* the PC says why, unless it was cleared within NoticedBy: a clear in the
\* diagnostic mode, where the PC is not supervised, is made good before the
\* vehicle is held again.
OverrideIsReported ==
  pc = "transmit" /\ mode = "REMOTE" /\ override /\ sinceClear = NoticedBy =>
    "Pc" \in ReportedByMask({"TEST_FAILED"})

\* A DTC is confirmed only after three thresholds of unbroken silence of its
\* source, whatever recoveries, clears and mode changes came before
\* (DtcOccurCount and its resets).
ConfirmedNotEarly ==
  [][\A s \in Sources :
       "CONFIRMED" \in dtc'[s] \ dtc[s] => quiet[s] >= 3 * Threshold]_vars
=============================================================================
