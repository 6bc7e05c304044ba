------------------------- MODULE RemoteDrive_proofs -------------------------
(***************************************************************************)
(* Proofs about RemoteDrive, for every delay of the network, threshold,    *)
(* period, time-out, servo pulse and length of the motor test.             *)
(***************************************************************************)
EXTENDS RemoteDrive, Integers, TLAPS

-----------------------------------------------------------------------------
(* Arithmetic: the servo pulses in m turns of which the first starts at s. *)

LEMMA DivNext ==
  ASSUME NEW m \in Nat, NEW b \in Nat \ {0}
  PROVE  /\ m \div b \in Nat
         /\ (b + m) \div b = 1 + (m \div b)
  OBVIOUS

LEMMA DivMonotone ==
  ASSUME NEW m \in Nat, NEW n \in Nat, m <= n, NEW b \in Nat \ {0}
  PROVE  m \div b <= n \div b
  OBVIOUS

LEMMA TimesMonotone ==
  ASSUME NEW m \in Nat, NEW n \in Nat, m <= n, NEW b \in Nat
  PROVE  m * b <= n * b /\ m * b \in Nat /\ (1 + m) * b = b + m * b
  OBVIOUS
\* What was due in w ticks at the age a is due in one tick less, a tick later.
LEMMA OneTick ==
  ASSUME NEW a \in Nat, NEW b \in Nat, b <= a + 1, NEW w \in Nat \ {0},
         NEW e \in Nat, a + w <= e
  PROVE  b + (w - 1) <= e
  OBVIOUS

-----------------------------------------------------------------------------
(* Type correctness.                                                       *)

LEMMA EndToEndType == EndToEnd \in Nat /\ ActTicks \in Nat /\ ActTicks > 0
<1> DEFINE pulses == (TimeoutTurns + BlockEvery - 1) \div BlockEvery
<1>1. pulses \in Nat
  <2>1. TimeoutTurns + BlockEvery - 1 = BlockEvery + (TimeoutTurns - 1)
    BY TimesAssumption
  <2>2. TimeoutTurns - 1 \in Nat
    BY TimesAssumption
  <2> QED BY <2>1, <2>2, DivNext, TimesAssumption
<1>2. pulses * BlockTicks \in Nat
  BY <1>1, TimesMonotone, TimesAssumption
<1> QED BY <1>2, TimesAssumption DEF EndToEnd, ActTicks

LEMMA CommandType == accel \in BOOLEAN /\ ignition \in BOOLEAN => Command \in Commands
  BY DEF Command, Commands

\* The two halves of TypeOK: truth values, and the rest.
FlagsOK ==
  /\ accel \in BOOLEAN /\ ignition \in BOOLEAN
  /\ override \in BOOLEAN
  /\ driving \in BOOLEAN
  /\ turned \in BOOLEAN

DataOK ==
  /\ net \subseteq [cmd : Commands, age : 0 .. MaxDelay]
  /\ cmd \in Commands
  /\ mode \in {"DEFAULT", "REMOTE", "DIAG"}
  /\ udpAge \in 0 .. Threshold
  /\ txAge \in 0 .. CyclicTicks
  /\ can \in Frames \cup {Nothing}
  /\ rx \in Frames \cup {Nothing}
  /\ cmdTurns \in 0 .. TimeoutTurns
  /\ test \in 0 .. TestTurns - 1
  /\ servo \in 0 .. BlockEvery - 1
  /\ block \in 0 .. BlockTicks
  /\ askedAge \in 0 .. EndToEnd + 1

LEMMA TypeHalves == (TypeOK <=> FlagsOK /\ DataOK) /\ (TypeOK' <=> FlagsOK' /\ DataOK')
  BY DEF TypeOK, FlagsOK, DataOK

LEMMA TypeInit == Init => TypeOK
<1> SUFFICES ASSUME Init PROVE FlagsOK /\ DataOK
  BY TypeHalves
<1>1. FlagsOK
  BY DEF Init, FlagsOK
<1>2. DataOK
  BY TimesAssumption, EndToEndType DEF Init, DataOK, Commands, Frames, Nothing
<1> QED BY <1>1, <1>2

LEMMA FlagsNext == FlagsOK /\ [Next]_vars => FlagsOK'
<1> SUFFICES ASSUME FlagsOK, [Next]_vars PROVE FlagsOK'
  OBVIOUS
<1> USE DEF FlagsOK, pcVars, mainVars, actVars
<1>1. CASE ControlDrive \/ ControlIgnition \/ ResetControlState
  BY <1>1 DEF ControlDrive, ControlIgnition, ResetControlState, SetControl
<1>2. CASE Send \/ \E d \in net : UdpCtrRx(d)
  BY <1>2 DEF Send, UdpCtrRx, OverrideAfter
<1>3. CASE RoutingActivated \/ RoutingDeactivated
  BY <1>3 DEF RoutingActivated, RoutingDeactivated
<1>4. CASE MainTurn
  BY <1>4 DEF MainTurn, Silent
<1>5. CASE CanRx
  BY <1>5 DEF CanRx
<1>6. CASE ActTurn
  <2>1. driving' \in BOOLEAN
    <3>1. CASE NoMotorTest
      BY <3>1 DEF NoMotorTest, Commanded, InTime
    <3>2. CASE MotorTest
      BY <3>2 DEF MotorTest
    <3> QED BY <1>6, <3>1, <3>2 DEF ActTurn
  <2> QED BY <1>6, <2>1 DEF ActTurn
<1>7. CASE Tick
  BY <1>7 DEF Tick
<1>8. CASE UNCHANGED vars
  BY <1>8 DEF vars
<1> QED BY <1>1, <1>2, <1>3, <1>4, <1>5, <1>6, <1>7, <1>8 DEF Next

LEMMA DataNext == TypeOK /\ [Next]_vars => DataOK'
<1> SUFFICES ASSUME DataOK, FlagsOK, [Next]_vars PROVE DataOK'
  BY TypeHalves
<1> USE TimesAssumption, EndToEndType DEF DataOK, pcVars, mainVars, actVars
<1>1. CASE ControlDrive \/ ControlIgnition \/ ResetControlState
  <2>1. PICK a, i \in BOOLEAN : SetControl(a, i)
    BY <1>1 DEF ControlDrive, ControlIgnition, ResetControlState, FlagsOK
  <2> QED BY <2>1 DEF SetControl
<1>2. CASE Send
  BY <1>2, CommandType DEF Send, FlagsOK
<1>3. ASSUME NEW d \in net, UdpCtrRx(d)
      PROVE  DataOK'
  BY <1>3 DEF UdpCtrRx
<1>4. CASE RoutingActivated \/ RoutingDeactivated
  BY <1>4 DEF RoutingActivated, RoutingDeactivated
<1>5. CASE MainTurn
  BY <1>5 DEF MainTurn, Frames
<1>6. CASE CanRx
  BY <1>6 DEF CanRx
<1>7. CASE ActTurn
  <2>1. rx' \in Frames \cup {Nothing}
    BY <1>7 DEF ActTurn
  <2>2. cmdTurns' \in 0 .. TimeoutTurns
    BY <1>7 DEF ActTurn
  <2>3. servo' \in 0 .. BlockEvery - 1 /\ block' \in 0 .. BlockTicks
    BY <1>7 DEF ActTurn
  <2>4. test' \in 0 .. TestTurns - 1
    BY <1>7 DEF ActTurn, NoMotorTest, MotorTest
  <2> QED BY <1>7, <2>1, <2>2, <2>3, <2>4 DEF ActTurn
<1>8. CASE Tick
  <2>1. net' \subseteq [cmd : Commands, age : 0 .. MaxDelay]
    BY <1>8 DEF Tick
  <2>2. udpAge' \in 0 .. Threshold /\ askedAge' \in 0 .. EndToEnd + 1
    BY <1>8 DEF Tick, Later
  <2>3. block' \in 0 .. BlockTicks /\ txAge' \in 0 .. CyclicTicks
    BY <1>8 DEF Tick
  <2> QED BY <1>8, <2>1, <2>2, <2>3 DEF Tick
<1>9. CASE UNCHANGED vars
  BY <1>9 DEF vars
<1> QED BY <1>1, <1>2, <1>3, <1>4, <1>5, <1>6, <1>7, <1>8, <1>9 DEF Next

LEMMA TypeNext == TypeOK /\ [Next]_vars => TypeOK'
  BY TypeHalves, FlagsNext, DataNext

\* Every variable keeps its type; in particular the ages, the timers and the
\* counter of ACT keep within their limits.
THEOREM TypeCorrect == Spec => []TypeOK
  BY TypeInit, TypeNext, PTL DEF Spec
-----------------------------------------------------------------------------
(* How old the wish may be behind what is under way at each place.         *)

\* A datagram is as old as the wish in it; what MAIN was told last is MaxDelay
\* older, as long as the supervision keeps quiet; a frame that enables the
\* drive was sent before the threshold.
Upstream ==
  /\ Asked => askedAge = 0
  /\ \A d \in net : d.cmd = "GO" => askedAge <= d.age
  /\ cmd = "GO" /\ ~override /\ udpAge < Threshold => askedAge <= MaxDelay + udpAge
  /\ can = "ENABLE" => askedAge <= MaxDelay + Threshold - 1

\* Ticks until the next turn of the ACT loop is due.
Wait == (IF turned THEN 1 ELSE 0) + block

\* Servo pulses in m turns when the timer stands at s.
Pulses(s, m) == (s + m) \div BlockEvery

\* Turns until the time-out of ACT, the one that expires included.
TurnsLeft == TimeoutTurns - cmdTurns

\* Ticks until the turn in which the time-out of ACT expires.
TicksLeft ==
  Wait + (TurnsLeft - 1) + Pulses(servo, TurnsLeft - 1) * BlockTicks

\* A drive by command goes on until the time-out at most; one that a frame has
\* forbidden until the next turn.
Downstream ==
  /\ block > 0 => servo = 0
  /\ DrivenByCommand => cmdTurns < TimeoutTurns
  /\ rx = "ENABLE" /\ cmdTurns < TimeoutTurns => askedAge + TicksLeft <= EndToEnd
  /\ DrivenByCommand /\ rx # "INHIBIT" => askedAge + TicksLeft <= EndToEnd
  /\ DrivenByCommand /\ rx = "INHIBIT" => askedAge + Wait <= EndToEnd

WishInv == TypeOK /\ Upstream /\ Downstream

LEMMA UpstreamInit == Init => Upstream
<1> SUFFICES ASSUME Init PROVE Upstream
  OBVIOUS
<1>1. ~Asked
  BY DEF Init, Asked, Command
<1> QED BY <1>1 DEF Init, Upstream, Nothing

LEMMA UpstreamNext == TypeOK /\ Upstream /\ [Next]_vars => Upstream'
<1> SUFFICES ASSUME DataOK, FlagsOK, Upstream, [Next]_vars PROVE Upstream'
  BY TypeHalves
<1> USE TimesAssumption, EndToEndType DEF DataOK, pcVars, mainVars, actVars
<1>1. CASE ControlDrive \/ ControlIgnition \/ ResetControlState
  <2>1. PICK a, i \in BOOLEAN : SetControl(a, i)
    BY <1>1 DEF ControlDrive, ControlIgnition, ResetControlState, FlagsOK
  <2>2. askedAge' <= askedAge /\ askedAge' \in Nat
    BY <2>1 DEF SetControl
  <2>3. Asked' => askedAge' = 0
    BY <2>1 DEF SetControl, Asked, Command
  <2> QED BY <2>1, <2>2, <2>3 DEF SetControl, Upstream
<1>2. CASE Send
  <2>1. UNCHANGED <<Asked, askedAge, cmd, override, udpAge, can>>
    BY <1>2 DEF Send, Asked, Command
  <2>2. \A d \in net' : d.cmd = "GO" => askedAge' <= d.age
    BY <1>2 DEF Send, Asked, Upstream
  <2> QED BY <2>1, <2>2 DEF Upstream
<1>3. ASSUME NEW d \in net, UdpCtrRx(d)
      PROVE  Upstream'
  <2>1. UNCHANGED <<Asked, askedAge, net, can>>
    BY <1>3 DEF UdpCtrRx, Asked, Command
  <2>2. cmd' = "GO" => askedAge' <= MaxDelay + udpAge'
    <3>1. d.age \in 0 .. MaxDelay
      OBVIOUS
    <3>2. cmd' = "GO" => askedAge <= d.age
      BY <1>3 DEF UdpCtrRx, Upstream
    <3>3. udpAge' = 0 /\ askedAge' = askedAge
      BY <1>3 DEF UdpCtrRx
    <3> QED BY <3>1, <3>2, <3>3
  <2> QED BY <2>1, <2>2 DEF Upstream
<1>4. CASE RoutingActivated \/ RoutingDeactivated
  <2>1. UNCHANGED <<Asked, askedAge, net, cmd, override, udpAge, can>>
    BY <1>4 DEF RoutingActivated, RoutingDeactivated, Asked, Command
  <2> QED BY <2>1 DEF Upstream
<1>5. CASE MainTurn
  <2>1. UNCHANGED <<Asked, askedAge, net, cmd>>
    BY <1>5 DEF MainTurn, Asked, Command
  <2>2. ~override' => ~override /\ ~Silent /\ udpAge' = udpAge
    BY <1>5 DEF MainTurn
  <2>3. can' = "ENABLE" => cmd = "GO" /\ ~override' /\ udpAge < Threshold
    BY <1>5, <2>2 DEF MainTurn, Silent
  <2>4. can' = "ENABLE" => askedAge' <= MaxDelay + Threshold - 1
    BY <2>1, <2>2, <2>3 DEF Upstream
  <2> QED BY <2>1, <2>2, <2>4 DEF Upstream
<1>6. CASE CanRx
  <2>1. UNCHANGED <<Asked, askedAge, net, cmd, override, udpAge>> /\ can' = Nothing
    BY <1>6 DEF CanRx, Asked, Command
  <2> QED BY <2>1 DEF Upstream, Nothing
<1>7. CASE ActTurn
  <2>1. UNCHANGED <<Asked, askedAge, net, cmd, override, udpAge, can>>
    BY <1>7 DEF ActTurn, Asked, Command
  <2> QED BY <2>1 DEF Upstream
<1>8. CASE Tick
  <2>1. /\ UNCHANGED <<Asked, cmd, override>>
        /\ can' = Nothing
    BY <1>8 DEF Tick, Asked, Command
  <2>2. askedAge' <= askedAge + 1 /\ askedAge' \in Nat /\ (Asked => askedAge' = 0)
    BY <1>8 DEF Tick, Later
  <2>3. \A d \in net' : d.cmd = "GO" => askedAge' <= d.age
    <3> SUFFICES ASSUME NEW d \in net', d.cmd = "GO" PROVE askedAge' <= d.age
      OBVIOUS
    <3>1. PICK b \in net : d = [b EXCEPT !.age = @ + 1]
      BY <1>8 DEF Tick
    <3>2. d.cmd = b.cmd /\ d.age = b.age + 1
      BY <3>1
    <3> QED BY <2>2, <3>2 DEF Upstream
  <2>4. udpAge' < Threshold => udpAge < Threshold /\ udpAge' = udpAge + 1
    BY <1>8 DEF Tick, Later
  <2> QED BY <2>1, <2>2, <2>3, <2>4 DEF Upstream, Nothing
<1>9. CASE UNCHANGED vars
  BY <1>9 DEF vars, Upstream, Asked, Command
<1> QED BY <1>1, <1>2, <1>3, <1>4, <1>5, <1>6, <1>7, <1>8, <1>9 DEF Next

LEMMA PulsesType ==
  ASSUME NEW s \in Nat, NEW m \in Nat
  PROVE  Pulses(s, m) * BlockTicks \in Nat
<1>1. s + m \in Nat
  OBVIOUS
<1>2. Pulses(s, m) \in Nat
  BY <1>1, DivNext, TimesAssumption DEF Pulses
<1> QED BY <1>2, TimesMonotone, TimesAssumption

\* A turn that is not the last makes the number of ticks left neither grow
\* nor shrink: its own tick and pulse were counted.
LEMMA TurnKeepsTicks ==
  ASSUME TypeOK, ActTurn, cmdTurns + 1 < TimeoutTurns
  PROVE  TicksLeft' = TicksLeft /\ TicksLeft \in Nat \ {0} /\ TicksLeft' >= Wait'
<1> USE TimesAssumption, TypeHalves DEF DataOK
<1> DEFINE m == TimeoutTurns - cmdTurns - 2
<1>1. m \in Nat /\ TurnsLeft - 1 = m + 1 /\ TurnsLeft' - 1 = m
  BY DEF ActTurn, TurnsLeft
<1>2. Wait = 0
  BY DEF ActTurn, Wait
<1> HIDE DEF m
<1>3. CASE servo + 1 < BlockEvery
  <2>1. servo' = servo + 1 /\ block' = 0 /\ Wait' = 1
    BY <1>3 DEF ActTurn, Wait
  <2>2. servo' + m = servo + (m + 1) /\ servo' + m \in Nat
    BY <1>1, <2>1
  <2>3. Pulses(servo', m) = Pulses(servo, m + 1) /\ Pulses(servo', m) \in Nat
    BY <2>2, DivNext DEF Pulses
  <2>4. Pulses(servo', m) * BlockTicks \in Nat
    BY <2>3, TimesMonotone
  <2>5. TicksLeft = m + 1 + Pulses(servo', m) * BlockTicks
    BY <1>1, <1>2, <2>3, <2>4 DEF TicksLeft
  <2>6. TicksLeft' = 1 + m + Pulses(servo', m) * BlockTicks
    BY <1>1, <2>1, <2>4 DEF TicksLeft
  <2> QED BY <1>1, <2>1, <2>4, <2>5, <2>6
<1>4. CASE servo + 1 >= BlockEvery
  <2>1. servo = BlockEvery - 1 /\ servo' = 0 /\ block' = BlockTicks /\ Wait' = 1 + BlockTicks
    BY <1>4 DEF ActTurn, Wait
  <2>2. servo + (m + 1) = BlockEvery + m /\ servo' + m = m
    BY <1>1, <2>1
  <2>3. Pulses(servo, m + 1) = 1 + Pulses(servo', m) /\ Pulses(servo', m) \in Nat
    BY <1>1, <2>2, DivNext DEF Pulses
  <2>4. /\ Pulses(servo, m + 1) * BlockTicks = BlockTicks + Pulses(servo', m) * BlockTicks
        /\ Pulses(servo', m) * BlockTicks \in Nat
    BY <2>3, TimesMonotone
  <2>5. TicksLeft = m + 1 + BlockTicks + Pulses(servo', m) * BlockTicks
    BY <1>1, <1>2, <2>4 DEF TicksLeft
  <2>6. TicksLeft' = 1 + BlockTicks + m + Pulses(servo', m) * BlockTicks
    BY <1>1, <2>1, <2>4 DEF TicksLeft
  <2> QED BY <1>1, <2>1, <2>4, <2>5, <2>6
<1> QED BY <1>3, <1>4

\* A frame that has just come in starts the longest time: ActTicks from the
\* tick before the next turn on.
LEMMA FreshTicks ==
  ASSUME TypeOK, block > 0 => servo = 0, NEW s, s = Pulses(servo, TimeoutTurns - 1)
  PROVE  /\ s * BlockTicks \in Nat
         /\ Wait + (TimeoutTurns - 1) + s * BlockTicks <= ActTicks
<1> USE TimesAssumption, TypeHalves DEF DataOK
<1> DEFINE full == (TimeoutTurns + BlockEvery - 1) \div BlockEvery
           rest == (TimeoutTurns - 1) \div BlockEvery
<1>1. TimeoutTurns - 1 \in Nat /\ TimeoutTurns + BlockEvery - 1 = BlockEvery + (TimeoutTurns - 1)
  OBVIOUS
<1>2. full = 1 + rest /\ rest \in Nat
  BY <1>1, DivNext
<1>3. full * BlockTicks = BlockTicks + rest * BlockTicks /\ rest * BlockTicks \in Nat
  <2> HIDE DEF full, rest
  <2> QED BY <1>2, TimesMonotone
<1>4. ActTicks = TimeoutTurns + full * BlockTicks
  BY DEF ActTicks
<1>5. servo + (TimeoutTurns - 1) \in Nat /\ s \in Nat /\ s <= full
  <2>1. servo + (TimeoutTurns - 1) \in Nat /\ TimeoutTurns + BlockEvery - 1 \in Nat
        /\ servo + (TimeoutTurns - 1) <= TimeoutTurns + BlockEvery - 1
    OBVIOUS
  <2> QED BY <2>1, DivNext, DivMonotone DEF Pulses
<1>6. s * BlockTicks \in Nat /\ s * BlockTicks <= full * BlockTicks
  <2> HIDE DEF full
  <2> QED BY <1>2, <1>5, TimesMonotone
<1> HIDE DEF full
<1>7. CASE block = 0
  <2>1. Wait <= 1 /\ Wait \in Nat
    BY <1>7 DEF Wait
  <2> QED BY <1>2, <1>3, <1>4, <1>6, <2>1
<1>8. CASE block > 0
  <2>1. Wait <= 1 + BlockTicks /\ Wait \in Nat
    BY DEF Wait
  <2>2. s = rest
    BY <1>8 DEF Pulses
  <2> QED BY <1>3, <1>4, <1>6, <2>1, <2>2
<1> QED BY <1>7, <1>8

LEMMA TicksLeftType ==
  ASSUME TypeOK, cmdTurns < TimeoutTurns
  PROVE  Wait \in Nat /\ TicksLeft \in Nat /\ Wait <= TicksLeft
<1> USE TimesAssumption, TypeHalves DEF DataOK
<1>1. Wait \in Nat
  BY DEF Wait
<1>2. TurnsLeft - 1 \in Nat /\ servo \in Nat
  BY DEF TurnsLeft
<1>3. Pulses(servo, TurnsLeft - 1) * BlockTicks \in Nat
  BY <1>2, PulsesType
<1> QED BY <1>1, <1>2, <1>3 DEF TicksLeft

LEMMA DownstreamInit == Init => Downstream
  BY TimesAssumption DEF Init, Downstream, DrivenByCommand, Nothing

\* What the steps outside ACT and the clock leave alone.
LEMMA DownstreamKept ==
  ASSUME TypeOK, Downstream, UNCHANGED actVars, askedAge' \in Nat, askedAge' <= askedAge
  PROVE  Downstream'
<1>1. UNCHANGED <<Wait, TicksLeft, DrivenByCommand, rx, cmdTurns, block, servo>>
  BY DEF actVars, Wait, TicksLeft, TurnsLeft, Pulses, DrivenByCommand
<1>2. cmdTurns < TimeoutTurns => Wait \in Nat /\ TicksLeft \in Nat
  BY TicksLeftType
<1>3. askedAge \in Nat
  BY TypeHalves DEF DataOK
<1> QED BY <1>1, <1>2, <1>3, EndToEndType DEF Downstream

LEMMA DownstreamRx ==
  ASSUME TypeOK, Upstream, Downstream, CanRx
  PROVE  Downstream'
<1> USE TimesAssumption, TypeHalves, EndToEndType DEF DataOK
<1>1. /\ UNCHANGED <<askedAge, DrivenByCommand, servo, block, turned>>
      /\ cmdTurns' = 0 /\ rx' \in Frames
  BY DEF CanRx, Frames, Nothing, DrivenByCommand
<1>2. Wait' = Wait
  BY <1>1 DEF Wait
<1>3. DrivenByCommand => askedAge + Wait <= EndToEnd
  BY TicksLeftType DEF Downstream
<1>4. CASE rx' = "ENABLE"
  <2>1. askedAge <= MaxDelay + Threshold - 1
    BY <1>4 DEF CanRx, Upstream
  <2>2. TicksLeft' = Wait + (TimeoutTurns - 1) + Pulses(servo, TimeoutTurns - 1) * BlockTicks
    BY <1>1, <1>2 DEF TicksLeft, TurnsLeft, Pulses
  <2>3. TicksLeft' <= ActTicks /\ TicksLeft' \in Int
    <3>1. Wait \in Nat
      BY DEF Wait
    <3>2. block > 0 => servo = 0
      BY DEF Downstream
    <3> QED BY <2>2, <3>1, <3>2, FreshTicks
  <2>4. askedAge' + TicksLeft' <= EndToEnd
    BY <1>1, <2>1, <2>3 DEF EndToEnd
  <2> QED BY <1>1, <1>4, <2>4 DEF Downstream
<1>5. CASE rx' = "INHIBIT"
  BY <1>1, <1>2, <1>3, <1>5 DEF Downstream
<1> QED BY <1>1, <1>4, <1>5 DEF Frames

\* A turn starts a drive by command only while the wish is young enough: during
\* a motor test the motor is not the command's, and its last turn stops it.
LEMMA DownstreamTurn ==
  ASSUME TypeOK, Downstream, ActTurn
  PROVE  /\ Downstream'
         /\ DrivenByCommand' => askedAge < EndToEnd
         /\ askedAge' = askedAge
<1> USE TimesAssumption, TypeHalves, EndToEndType DEF DataOK
<1>0. DrivenByCommand' => test = 0 /\ Commanded
  <2>1. CASE NoMotorTest
    BY <2>1 DEF NoMotorTest, DrivenByCommand
  <2>2. CASE MotorTest
    <3>1. test' = 0 => ~(test' > 0)
      OBVIOUS
    <3>2. driving' = (test' > 0)
      BY <2>2 DEF MotorTest
    <3>3. ~DrivenByCommand'
      BY <3>1, <3>2, Zenon DEF DrivenByCommand
    <3> QED BY <3>3
  <2> QED BY <2>1, <2>2 DEF ActTurn
<1>1. askedAge' = askedAge /\ (block' > 0 => servo' = 0)
  BY DEF ActTurn
<1>2. CASE cmdTurns + 1 < TimeoutTurns
  <2>1. cmdTurns' < TimeoutTurns /\ rx' = Nothing
    BY <1>2 DEF ActTurn, InTime
  <2>2. DrivenByCommand' => askedAge + TicksLeft <= EndToEnd
    BY <1>0, <1>2 DEF Commanded, DrivenByCommand, Downstream, Nothing, Frames
  <2>3. TicksLeft' = TicksLeft /\ TicksLeft \in Nat \ {0}
    BY <1>2, TurnKeepsTicks
  <2> QED BY <1>1, <2>1, <2>2, <2>3 DEF Downstream, Nothing
<1>3. CASE ~(cmdTurns + 1 < TimeoutTurns)
  <2>1. cmdTurns' = TimeoutTurns /\ ~DrivenByCommand'
    BY <1>0, <1>3 DEF ActTurn, Commanded, InTime
  <2> QED BY <1>1, <2>1 DEF Downstream
<1> QED BY <1>2, <1>3

\* A tick in which a command drives the motor is one of those that were counted.
LEMMA DownstreamTick ==
  ASSUME TypeOK, Downstream, Tick
  PROVE  /\ Downstream'
         /\ DrivenByCommand => askedAge < EndToEnd
         /\ DrivenByCommand' = DrivenByCommand
<1> USE TimesAssumption, TypeHalves, EndToEndType DEF DataOK
<1>1. UNCHANGED <<DrivenByCommand, rx, cmdTurns, servo>> /\ (block' > 0 => servo' = 0)
  BY DEF Tick, Downstream, DrivenByCommand
<1>2. Wait' = Wait - 1 /\ Wait \in Nat \ {0}
  <2>1. CASE turned
    BY <2>1 DEF Tick, Wait
  <2>2. CASE ~turned
    BY <2>2 DEF Tick, Wait
  <2> QED BY <2>1, <2>2
<1>3. askedAge' \in Nat /\ askedAge' <= askedAge + 1
  BY DEF Tick, Later
<1>4. CASE cmdTurns < TimeoutTurns
  <2>1. TicksLeft \in Nat /\ Wait <= TicksLeft
    BY <1>4, TicksLeftType
  <2>2. TicksLeft' = TicksLeft - 1
    <3> DEFINE r == TurnsLeft - 1
               p == Pulses(servo, TurnsLeft - 1) * BlockTicks
    <3>1. r \in Nat /\ servo \in Nat
      BY <1>4 DEF TurnsLeft
    <3>2. p \in Nat
      BY <3>1, PulsesType
    <3>3. r' = r /\ p' = p
      BY <1>1 DEF TurnsLeft, Pulses
    <3>4. TicksLeft = Wait + r + p /\ TicksLeft' = Wait' + r' + p'
      BY DEF TicksLeft
    <3> HIDE DEF r, p
    <3> QED BY <1>2, <3>1, <3>2, <3>3, <3>4
  <2>3. DrivenByCommand => askedAge + Wait <= EndToEnd
    BY <1>2, <2>1 DEF Downstream
  <2>5. DrivenByCommand => askedAge < EndToEnd
    BY <1>2, <2>3
  <2>6. askedAge \in Nat /\ TicksLeft \in Nat \ {0}
    BY <1>2, <2>1
  <2>7. askedAge + TicksLeft <= EndToEnd => askedAge' + TicksLeft' <= EndToEnd
    BY <1>3, <2>2, <2>6, OneTick
  <2>8. askedAge + Wait <= EndToEnd => askedAge' + Wait' <= EndToEnd
    BY <1>2, <1>3, <2>6, OneTick
  <2> QED BY <1>1, <1>4, <2>3, <2>5, <2>7, <2>8 DEF Downstream
<1>5. CASE ~(cmdTurns < TimeoutTurns)
  BY <1>1, <1>5 DEF Downstream
<1> QED BY <1>4, <1>5

-----------------------------------------------------------------------------
(* The whole chain.                                                        *)

\* Every step keeps the invariant and is one of the dead man's switch.
LEMMA WishStep ==
  WishInv /\ [Next]_vars => WishInv' /\ [Wish!Next]_(Wish!vars)
<1> SUFFICES ASSUME WishInv, [Next]_vars
             PROVE  Downstream' /\ [Wish!Next]_(Wish!vars)
  BY TypeNext, UpstreamNext DEF WishInv
<1> USE TypeHalves, EndToEndType DEF WishInv, Wish!Next, Wish!vars
<1>0. askedAge \in 0 .. EndToEnd + 1
  BY DEF DataOK
<1>1. CASE ControlDrive \/ ControlIgnition \/ ResetControlState
  <2>1. PICK a, i \in BOOLEAN : SetControl(a, i)
    BY <1>1 DEF ControlDrive, ControlIgnition, ResetControlState, FlagsOK
  <2>2. UNCHANGED actVars /\ askedAge' \in {0, askedAge}
    BY <2>1 DEF SetControl
  <2>3. Downstream'
    BY <1>0, <2>2, DownstreamKept
  <2>4. CASE askedAge' = 0
    BY <2>2, <2>3, <2>4 DEF Wish!Receive, actVars, DrivenByCommand
  <2>5. CASE askedAge' = askedAge
    BY <2>2, <2>3, <2>5 DEF actVars, DrivenByCommand
  <2> QED BY <2>2, <2>4, <2>5
<1>2. CASE \/ Send \/ RoutingActivated \/ RoutingDeactivated \/ MainTurn
           \/ UNCHANGED vars
           \/ \E d \in net : UdpCtrRx(d)
  <2>1. UNCHANGED <<actVars, askedAge>>
    BY <1>2 DEF Send, RoutingActivated, RoutingDeactivated, MainTurn, UdpCtrRx, vars
  <2>2. Downstream'
    BY <1>0, <2>1, DownstreamKept
  <2> QED BY <2>1, <2>2 DEF actVars, DrivenByCommand
<1>3. CASE CanRx
  BY <1>3, DownstreamRx DEF CanRx, DrivenByCommand
<1>4. CASE ActTurn
  <2>1. /\ Downstream'
        /\ DrivenByCommand' => askedAge < EndToEnd
        /\ askedAge' = askedAge
    BY <1>4, DownstreamTurn
  <2>2. DrivenByCommand' \in BOOLEAN /\ DrivenByCommand \in BOOLEAN
    BY TypeNext DEF FlagsOK, DrivenByCommand
  <2>3. CASE DrivenByCommand' = DrivenByCommand
    BY <2>1, <2>3
  <2>4. CASE DrivenByCommand' = TRUE
    BY <2>1, <2>4 DEF Wish!Start
  <2>5. CASE DrivenByCommand' = FALSE /\ DrivenByCommand = TRUE
    BY <2>1, <2>5 DEF Wish!Stop
  <2> QED BY <2>2, <2>3, <2>4, <2>5
<1>5. CASE Tick
  <2>1. /\ Downstream'
        /\ DrivenByCommand => askedAge < EndToEnd
        /\ DrivenByCommand' = DrivenByCommand
    BY <1>5, DownstreamTick
  <2>2. askedAge' \in {0, askedAge, askedAge + 1} /\ (askedAge' = askedAge + 1 => askedAge <= EndToEnd)
    BY <1>0, <1>5 DEF Tick, Later
  <2>3. CASE askedAge' = 0
    BY <2>1, <2>3 DEF Wish!Receive
  <2>4. CASE askedAge' = askedAge
    BY <2>1, <2>4
  <2>5. CASE askedAge' = askedAge + 1
    BY <2>1, <2>2, <2>5 DEF Wish!Turn
  <2> QED BY <2>1, <2>2, <2>3, <2>4, <2>5
<1> QED BY <1>1, <1>2, <1>3, <1>4, <1>5 DEF Next

LEMMA WishInit == Init => WishInv /\ Wish!Init
  BY TypeInit, UpstreamInit, DownstreamInit DEF WishInv, Init, Wish!Init, DrivenByCommand

\* But for a motor test, the vehicle is a dead man's switch of the operator's
\* wish: over any loss, delay, order and repetition of datagrams and frames and
\* testers that come and go, the motor rests EndToEnd ticks after control_state
\* last asked for the drive, unless a motor test runs; and no test hands the
\* motor back driven.
THEOREM WishImplemented == Spec => DrivesOnWish
  BY WishInit, WishStep, PTL DEF Spec, DrivesOnWish, Wish!SafetySpec
=============================================================================
