---------------------------- MODULE RemoteDrive -----------------------------
(***************************************************************************)
(* The drive command on its whole way: the operator's requests and the     *)
(* sender of the PC (pc_control_backend.py), UDP, the MAIN gateway (com.c, *)
(* swc.c), CAN, and the ACT ECU up to the motor (ActCan.c, Cpu0_Main.c).   *)
(* A tester's motor test (UdsDiag.c) is the other master of the motor.     *)
(*                                                                         *)
(* Modules of their own have the details: MainCom the gateway, ActCan the  *)
(* copy of a command that the interrupt may tear.  Here a handler and a    *)
(* turn of a loop are one step, and a command is one of three: GO (accel   *)
(* with a gear of D or R, no brake, ignition on), HOLD (anything else with *)
(* the ignition on) and OFF.                                               *)
(*                                                                         *)
(* A tick is the time of one turn of the ACT loop.  MAIN takes any number  *)
(* of turns in a tick and is never late with a frame.                      *)
(***************************************************************************)
EXTENDS Naturals

CONSTANTS
  MaxDelay,      \* bound: the ticks a datagram travels at most
  Threshold,     \* UDP_TIMEOUT_THRESHOLD_MS of MAIN (500)
  CyclicTicks,   \* the period of the 0x100 frame (20 ms)
  TimeoutTurns,  \* ACT_CAN_CMD_TIMEOUT_100US_TICKS in turns of ACT (200)
  BlockEvery,    \* STEERING_UPDATE_PERIOD_MS: turns between two servo pulses (20)
  BlockTicks,    \* the ticks a servo pulse blocks the ACT loop (20)
  TestTurns      \* turns of ACT that a motor test takes (1000)

Commands == {"GO", "HOLD", "OFF"}
Frames   == {"ENABLE", "INHIBIT"}
Nothing  == "none"

ASSUME TimesAssumption ==
  /\ MaxDelay \in Nat
  /\ Threshold \in Nat \ {0}
  /\ CyclicTicks \in Nat \ {0}
  /\ TimeoutTurns \in Nat \ {0}
  /\ BlockEvery \in Nat \ {0}
  /\ BlockTicks \in Nat
  /\ TestTurns \in Nat \ {0}

VARIABLES
  accel,     \* control_state asks to move (accel, gear and brake)
  ignition,  \* control_state["ignition"]
  net,       \* the datagrams under way: [cmd, age]
  cmd,       \* COM_RxBuf_UDP_Ctr
  mode,      \* COM_Cur_Mode
  override,  \* COM_Safety_Override
  udpAge,    \* time - Last_Udp_RxTime
  txAge,     \* time - lastTime_20ms
  can,       \* the 0x100 frame on the bus
  rx,        \* the command g_rx... with g_rxUpdated, or Nothing
  cmdTurns,  \* g_cmdTimeoutTick100us in turns
  driving,   \* the motor is driven
  test,      \* the turns that a motor test still takes, 0 without one
  servo,     \* g_steeringUpdateTimerMs
  block,     \* the ticks the servo pulse still takes
  turned,    \* the ACT loop has taken its turn in this tick
  askedAge   \* history: ticks since control_state last asked to drive

pcVars   == <<accel, ignition>>
mainVars == <<cmd, mode, override, udpAge, txAge>>
actVars  == <<rx, cmdTurns, driving, test, servo, block, turned>>
vars     == <<pcVars, net, mainVars, can, actVars, askedAge>>

\* The longest ACT drives on without a command: the turns that count, each
\* BlockEvery of them with a servo pulse before it that no turn counts.
ActTicks == TimeoutTurns
            + ((TimeoutTurns + BlockEvery - 1) \div BlockEvery) * BlockTicks

\* The longest from the last wish to drive to the motor at rest.
EndToEnd == MaxDelay + Threshold + ActTicks - 1

Command == IF ~ignition THEN "OFF" ELSE IF accel THEN "GO" ELSE "HOLD"
Asked   == Command = "GO"

TypeOK ==
  /\ accel \in BOOLEAN /\ ignition \in BOOLEAN
  /\ net \subseteq [cmd : Commands, age : 0 .. MaxDelay]
  /\ cmd \in Commands
  /\ mode \in {"DEFAULT", "REMOTE", "DIAG"}
  /\ override \in BOOLEAN
  /\ udpAge \in 0 .. Threshold
  /\ txAge \in 0 .. CyclicTicks
  /\ can \in Frames \cup {Nothing}
  /\ rx \in Frames \cup {Nothing}
  /\ cmdTurns \in 0 .. TimeoutTurns
  /\ driving \in BOOLEAN
  /\ test \in 0 .. TestTurns - 1
  /\ servo \in 0 .. BlockEvery - 1
  /\ block \in 0 .. BlockTicks
  /\ turned \in BOOLEAN
  /\ askedAge \in 0 .. EndToEnd + 1

Init ==
  /\ accel = FALSE /\ ignition = FALSE
  /\ net = {}
  /\ cmd = "OFF"
  /\ mode = "DEFAULT"
  /\ override = FALSE
  /\ udpAge = 0
  /\ txAge = 0
  /\ can = Nothing
  /\ rx = Nothing
  /\ cmdTurns = TimeoutTurns
  /\ driving = FALSE
  /\ test = 0
  /\ servo = 0
  /\ block = 0
  /\ turned = FALSE
  /\ askedAge = EndToEnd

-----------------------------------------------------------------------------
(* PC.                                                                     *)

\* What the requests make of control_state; askedAge sees the wish begin.
SetControl(a, i) ==
  /\ accel' = a
  /\ ignition' = i
  /\ askedAge' = IF a /\ i THEN 0 ELSE askedAge
  /\ UNCHANGED <<net, mainVars, can, actVars>>

\* POST /control: drive, brake or gear, then ignition.  Nobody asks whether
\* the remote control is active.
ControlDrive    == \E a \in BOOLEAN : a # accel /\ SetControl(a, ignition)
ControlIgnition == \E i \in BOOLEAN : i # ignition /\ SetControl(accel, i)

\* POST /remote-control/start and /remote-control/stop: reset_control_state.
ResetControlState == SetControl(FALSE, FALSE)

\* The sender builds a packet under the lock and sends it.  What the network
\* loses is in net and never received; what is late, out of order or doubled
\* is received late, out of order or twice.
Send ==
  /\ net' = net \cup {[cmd |-> Command, age |-> 0]}
  /\ UNCHANGED <<pcVars, mainVars, can, actVars, askedAge>>

-----------------------------------------------------------------------------
(* MAIN.                                                                   *)

\* Variant: the override is in force until the operator lets go.
OverrideUntilHold(d) == override /\ d.cmd = "GO"

OverrideAfter(d) == FALSE

\* UDP_Ctr_ProcessRx; payload[0], the sequence number, is not read.
UdpCtrRx(d) ==
  /\ cmd' = d.cmd
  /\ mode' = IF d.cmd = "OFF" THEN "DEFAULT" ELSE "REMOTE"
  /\ override' = OverrideAfter(d)
  /\ udpAge' = 0
  /\ UNCHANGED <<pcVars, net, txAge, can, actVars, askedAge>>

\* A DoIP tester comes and goes (swc.c).
RoutingActivated ==
  /\ mode = "REMOTE"
  /\ mode' = "DIAG"
  /\ UNCHANGED <<pcVars, net, cmd, override, udpAge, txAge, can, actVars, askedAge>>

\* Variant: the supervision starts anew with the remote mode.
RoutingDeactivatedRenews ==
  /\ mode = "DIAG"
  /\ mode' = "REMOTE"
  /\ udpAge' = 0
  /\ UNCHANGED <<pcVars, net, cmd, override, txAge, can, actVars, askedAge>>

RoutingDeactivated ==
  /\ mode = "DIAG"
  /\ mode' = "REMOTE"
  /\ UNCHANGED <<pcVars, net, cmd, override, udpAge, txAge, can, actVars, askedAge>>

Silent == mode = "REMOTE" /\ udpAge >= Threshold

\* COM_TimeOut, then COM_Tx_MainFunction, of a turn that sends.
MainTurn ==
  /\ txAge >= CyclicTicks
  /\ override' = (override \/ Silent)
  /\ udpAge' = IF Silent THEN 0 ELSE udpAge
  /\ can' = IF cmd = "GO" /\ mode = "REMOTE" /\ ~override' THEN "ENABLE"
            ELSE "INHIBIT"
  /\ txAge' = 0
  /\ UNCHANGED <<pcVars, net, cmd, mode, actVars, askedAge>>

-----------------------------------------------------------------------------
(* ACT.                                                                    *)

\* The receive interrupt, also while the servo pulse blocks the loop.
CanRx ==
  /\ can # Nothing
  /\ rx' = can
  /\ cmdTurns' = 0
  /\ can' = Nothing
  /\ UNCHANGED <<pcVars, net, mainVars, driving, test, servo, block, turned, askedAge>>

InTime == cmdTurns + 1 < TimeoutTurns

\* What ActCan_Update100us makes of the motor: the time-out stops it, a new
\* command sets it, else it goes on as it was.
Commanded == InTime /\ IF rx = Nothing THEN driving ELSE rx = "ENABLE"

NoMotorTest ==
  /\ test = 0
  /\ driving' = Commanded
  /\ UNCHANGED test

\* Variant: the last turn of the test does not stop the motor.
MotorTestRunsOn ==
  /\ test' = (IF test = 0 THEN TestTurns ELSE test) - 1
  /\ driving' = TRUE

\* UdsDiag_UpdateMotorRoutine1ms, of a test that goes on or that a tester has
\* just started: neither the command, the mode nor the override is read, and
\* the last turn stops the motor.
MotorTest ==
  /\ test' = (IF test = 0 THEN TestTurns ELSE test) - 1
  /\ driving' = (test' > 0)

\* Ten calls of ActCan_Update100us, UdsDiag_Update1ms, which has the last word
\* on the motor, then Steering_Update when it is due.
ActTurn ==
  /\ ~turned
  /\ block = 0
  /\ turned' = TRUE
  /\ cmdTurns' = IF cmdTurns < TimeoutTurns THEN cmdTurns + 1 ELSE cmdTurns
  /\ rx' = IF InTime THEN Nothing ELSE rx
  /\ NoMotorTest \/ MotorTest
  /\ servo' = IF servo + 1 < BlockEvery THEN servo + 1 ELSE 0
  /\ block' = IF servo' = 0 THEN BlockTicks ELSE 0
  /\ UNCHANGED <<pcVars, net, mainVars, can, askedAge>>

-----------------------------------------------------------------------------

Later(age, cap) == IF age < cap THEN age + 1 ELSE age

\* A frame that the interrupt has not seen by the end of a tick is lost.
Tick ==
  /\ txAge < CyclicTicks
  /\ turned \/ block > 0
  /\ net' = {[d EXCEPT !.age = @ + 1] : d \in {e \in net : e.age < MaxDelay}}
  /\ udpAge' = Later(udpAge, Threshold)
  /\ txAge' = txAge + 1
  /\ can' = Nothing
  /\ block' = IF turned THEN block ELSE block - 1
  /\ turned' = FALSE
  /\ askedAge' = IF Asked THEN 0 ELSE Later(askedAge, EndToEnd + 1)
  /\ UNCHANGED <<pcVars, cmd, mode, override, rx, cmdTurns, driving, test, servo>>

Next ==
  \/ ControlDrive \/ ControlIgnition \/ ResetControlState
  \/ Send
  \/ \E d \in net : UdpCtrRx(d)
  \/ RoutingActivated \/ RoutingDeactivated
  \/ MainTurn
  \/ CanRx
  \/ ActTurn
  \/ Tick

\* The loops of the ECUs run and time passes; nothing has to arrive.
Fairness ==
  /\ WF_vars(MainTurn)
  /\ WF_vars(ActTurn)
  /\ WF_vars(Tick)

Spec == Init /\ [][Next]_vars /\ Fairness

-----------------------------------------------------------------------------

\* The motor as far as no motor test has it.
DrivenByCommand == driving /\ test = 0

Wish == INSTANCE DeadMan
          WITH Limit <- EndToEnd, age <- askedAge, driving <- DrivenByCommand

\* But for a motor test, the motor is driven only by the wish of the operator:
\* EndToEnd after control_state last asked for it the vehicle is at rest, over
\* any loss, delay and order of datagrams and frames, testers that come and go,
\* and the servo pulses that stop the time-out of ACT from counting.  A motor
\* test drives without a wish for as long as it runs, which the code does not
\* prevent, and hands the motor back at rest: what drives it after the test is
\* a command of its own.
DrivesOnWish == Wish!SafetySpec

\* However the chain was disturbed before, once the operator keeps asking, no
\* tester interferes and no silence is long enough for a time-out, the motor
\* is driven and stays so: no override, time-out, test or old datagram is left
\* over.
WishIsObeyed ==
  <>[](/\ Asked
       /\ mode # "DIAG" /\ test = 0
       /\ udpAge < Threshold /\ cmdTurns < TimeoutTurns)
    => <>[]driving
=============================================================================
