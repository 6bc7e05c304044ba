--------------------------- MODULE MainCom_proofs ---------------------------
(***************************************************************************)
(* Proofs about MainCom, for every set of ECUs, every set of controls, and *)
(* every threshold, period and duration of a turn.                         *)
(***************************************************************************)
EXTENDS MainCom, Integers, TLAPS

\* The caps and bounds are numbers.
LEMMA Bounds ==
  /\ NoticedBy \in Nat /\ HeldBy \in Nat /\ AgeCap \in Nat /\ QuietCap \in Nat
  /\ Threshold \in Nat /\ CyclicMs \in Nat /\ TurnMs \in Nat /\ MaxCount \in Nat
  /\ Threshold > 0 /\ CyclicMs > 0 /\ TurnMs > 0 /\ MaxCount >= 3
  BY TimesAssumption, MaxCountAssumption DEF NoticedBy, HeldBy, AgeCap, QuietCap

-----------------------------------------------------------------------------
(* Types.                                                                  *)

\* The loop sends in time: the age of the cyclic frames follows the turn.
TypeInv == TypeOK /\ txAge <= CyclicMs + turnTime

LEMMA TypeInit == Init => TypeInv
<1> SUFFICES ASSUME Init PROVE TypeInv
  OBVIOUS
<1>1. PICK boot \in 0..Threshold : age = [s \in Sources |-> boot]
  BY DEF Init
<1>2. /\ age \in [Sources -> 0..AgeCap]
      /\ quiet \in [Sources -> 0..QuietCap]
  BY <1>1, Bounds DEF Init, AgeCap, NoticedBy, QuietCap, HeldBy
<1>3. dtc \in [Sources -> SUBSET DtcBits] /\ occurCount \in [Sources -> 0..MaxCount]
  BY Bounds DEF Init, DtcBits
<1>4. sent \in [mode : Modes, override : BOOLEAN, turn : Turns]
  BY DEF Init, Modes, Turns
<1>5. override \in BOOLEAN
  BY Zenon DEF Init
<1> QED
  BY <1>2, <1>3, <1>4, <1>5, Bounds DEF Init, TypeInv, TypeOK, Modes, Turns

\* The DTC callbacks keep the types of what they write.
LEMMA DtcTypes ==
  ASSUME TypeOK
  PROVE  /\ \A s \in Sources :
              Recovered(s) => /\ dtc' \in [Sources -> SUBSET DtcBits]
                              /\ occurCount' \in [Sources -> 0..MaxCount]
         /\ \A lost \in SUBSET Sources :
              Commloss(lost) => /\ dtc' \in [Sources -> SUBSET DtcBits]
                                /\ occurCount' \in [Sources -> 0..MaxCount]
<1>1. ASSUME NEW s \in Sources, Recovered(s)
      PROVE  dtc' \in [Sources -> SUBSET DtcBits] /\ occurCount' \in [Sources -> 0..MaxCount]
  BY <1>1, Bounds DEF Recovered, TypeOK
<1>2. ASSUME NEW lost \in SUBSET Sources, Commloss(lost)
      PROVE  dtc' \in [Sources -> SUBSET DtcBits] /\ occurCount' \in [Sources -> 0..MaxCount]
  BY <1>2, Bounds DEF Commloss, TypeOK, DtcBits
<1> QED BY <1>1, <1>2

\* Hearing a source keeps the types of its age and of its DTC.
LEMMA HeardTypes ==
  ASSUME TypeOK, NEW s \in Sources, Heard(s)
  PROVE  /\ age' \in [Sources -> 0..AgeCap] /\ quiet' \in [Sources -> 0..QuietCap]
         /\ dtc' \in [Sources -> SUBSET DtcBits]
         /\ occurCount' \in [Sources -> 0..MaxCount]
         /\ sinceClear' = sinceClear
<1>1. Recovered(s)
  BY DEF Heard
<1>2. /\ age' = [age EXCEPT ![s] = 0]
      /\ quiet' = [quiet EXCEPT ![s] = 0]
      /\ sinceClear' = sinceClear
  BY Zenon DEF Heard
<1> QED BY <1>1, <1>2, DtcTypes, Bounds DEF TypeOK

LEMMA TypeNext == TypeInv /\ [Next]_vars => TypeInv'
<1> SUFFICES ASSUME TypeInv, [Next]_vars PROVE TypeInv'
  OBVIOUS
<1> USE Bounds DEF TypeInv, TypeOK, com, dcm, bus
<1>1. ASSUME NEW control \in Controls, UdpCtrRx(control) PROVE TypeInv'
  <2>1. control.turn \in Turns /\ control.ignition \in Ignitions
    BY ControlsAssumption
  <2>2. mode' \in Modes
    BY <1>1 DEF UdpCtrRx, Modes
  <2>3. "Pc" \in Sources /\ Heard("Pc")
    BY <1>1 DEF UdpCtrRx, Sources
  <2>4. override' \in BOOLEAN
    BY <1>1, Zenon DEF UdpCtrRx
  <2>5. pc' = pc /\ turnTime' = turnTime /\ txAge' = txAge /\ sent' = sent
    BY <1>1 DEF UdpCtrRx, Receiving
  <2>6. turnSignal' \in Turns
    BY <1>1, <2>1 DEF UdpCtrRx
  <2> QED BY <2>2, <2>3, <2>4, <2>5, <2>6, HeardTypes
<1>2. ASSUME NEW e \in Ecus, CanRx(e) PROVE TypeInv'
  <2>1. e \in Sources /\ Heard(e)
    BY <1>2 DEF CanRx, Sources
  <2>2. mode' = mode /\ override' = override /\ turnSignal' = turnSignal
    BY <1>2, Zenon DEF CanRx
  <2>3. pc' = pc /\ turnTime' = turnTime /\ txAge' = txAge /\ sent' = sent
    BY <1>2 DEF CanRx, Receiving
  <2> QED BY <2>1, <2>2, <2>3, HeardTypes
<1>3. CASE ClearAllDtc
  BY <1>3 DEF ClearAllDtc, Receiving
<1>4. CASE RoutingActivated
  BY <1>4 DEF RoutingActivated, Receiving, Modes
<1>5. CASE RoutingDeactivated
  BY <1>5 DEF RoutingDeactivated, Receiving, Modes
<1>6. CASE EndReceive
  BY <1>6 DEF EndReceive
<1>7. CASE TimeOut
  <2>1. Silent \in SUBSET Sources /\ Commloss(Silent)
    BY <1>7 DEF TimeOut, Silent
  <2>2. dtc' \in [Sources -> SUBSET DtcBits] /\ occurCount' \in [Sources -> 0..MaxCount]
    BY <2>1, DtcTypes
  <2>3. override' \in BOOLEAN /\ turnSignal' \in Turns
    BY <1>7, Zenon DEF TimeOut, Turns
  <2>4. age' \in [Sources -> 0..AgeCap]
    BY <1>7 DEF TimeOut
  <2> QED BY <1>7, <2>2, <2>3, <2>4 DEF TimeOut
<1>8. CASE Transmit
  BY <1>8 DEF Transmit
<1>9. CASE Tick
  <2>1. age' \in [Sources -> 0..AgeCap] /\ quiet' \in [Sources -> 0..QuietCap]
    BY <1>9 DEF Tick, Later
  <2> QED BY <1>9, <2>1 DEF Tick, Later
<1>10. CASE UNCHANGED vars
  BY <1>10 DEF vars
<1> QED BY <1>1, <1>2, <1>3, <1>4, <1>5, <1>6, <1>7, <1>8, <1>9, <1>10 DEF Next, Handle

\* Type correctness of the gateway's service layer, and with it the bounds
\* of its ages and counters (com.c, dcm.c).
THEOREM TypeCorrect == Spec => []TypeOK
<1>1. TypeInv => TypeOK
  BY DEF TypeInv
<1> QED BY <1>1, TypeInit, TypeNext, PTL DEF Spec

-----------------------------------------------------------------------------
(* The supervision.  The age of a source is the time since it was heard or *)
(* found silent; the invariant says what is known when it is not the time  *)
(* since it was heard.                                                     *)

\* Nobody but COM_TimeOut shortens an age below the silence, and while the
\* override is off it has not done so to the PC.
AgeIsSilence ==
  /\ \A s \in Sources : age[s] <= quiet[s]
  /\ ~override => age["Pc"] = quiet["Pc"] \/ age["Pc"] = AgeCap

\* COM_TimeOut leaves no supervised age at the threshold.
AgeIsChecked ==
  /\ \A e \in Ecus :
       age[e] < Threshold + turnTime + (IF pc = "transmit" THEN 0 ELSE TurnMs)
  /\ pc = "transmit" /\ mode = "REMOTE" => age["Pc"] < Threshold + turnTime

\* A source whose DTC does not show a failed test was not found silent
\* since it was heard or since the DTCs were cleared.
UnreportedIsYoung ==
  /\ \A s \in Sources :
       "TEST_FAILED" \notin dtc[s] => age[s] >= quiet[s] \/ age[s] >= sinceClear
  /\ override /\ "TEST_FAILED" \notin dtc["Pc"] => age["Pc"] >= sinceClear

\* Frames that let the vehicle drive were sent to a PC heard of late.
DrivingIsRecent ==
  /\ override => turnSignal = "HAZARD"
  /\ sent.override => sent.turn = "HAZARD"
  /\ sent.mode = "REMOTE" /\ ~sent.override =>
       quiet["Pc"] < Threshold + TurnMs + txAge

\* The counter counts whole thresholds of silence.
CountIsSilence ==
  \A s \in Sources :
    /\ occurCount[s] = 1 => quiet[s] >= Threshold + age[s]
    /\ occurCount[s] = 2 => quiet[s] >= 2 * Threshold + age[s]
    /\ occurCount[s] >= 3 => quiet[s] >= 3 * Threshold

LEMMA PcIsSource == "Pc" \in Sources /\ Ecus \subseteq Sources
  BY DEF Sources

\* What a tick does to an age.
LEMMA Ticks ==
  ASSUME NEW n \in Nat, NEW cap \in Nat
  PROVE  /\ Later(n, cap) \in {n, n + 1}
         /\ n < cap => Later(n, cap) = n + 1
         /\ n >= cap => Later(n, cap) = n
  BY DEF Later

\* Hearing a source, read at one source.
LEMMA HeardAt ==
  ASSUME TypeOK, NEW s \in Sources, Heard(s), NEW x \in Sources
  PROVE  /\ x = s => /\ age'[x] = 0 /\ quiet'[x] = 0 /\ occurCount'[x] = 0
                     /\ dtc'[x] = dtc[x] \ {"TEST_FAILED"}
         /\ x # s => /\ age'[x] = age[x] /\ quiet'[x] = quiet[x]
                     /\ occurCount'[x] = occurCount[x] /\ dtc'[x] = dtc[x]
         /\ sinceClear' = sinceClear
<1>1. /\ age' = [age EXCEPT ![s] = 0]
      /\ quiet' = [quiet EXCEPT ![s] = 0]
      /\ sinceClear' = sinceClear
  BY Zenon DEF Heard
<1>2. /\ dtc' = [dtc EXCEPT ![s] = @ \ {"TEST_FAILED"}]
      /\ occurCount' = [occurCount EXCEPT ![s] = 0]
  BY DEF Heard, Recovered
<1> QED BY <1>1, <1>2 DEF TypeOK

\* COM_TimeOut, read at one source.
LEMMA TimeOutAt ==
  ASSUME TypeOK, TimeOut, NEW s \in Sources
  PROVE  /\ s \in Silent =>
              /\ age'[s] = 0 /\ "TEST_FAILED" \in dtc'[s]
              /\ occurCount'[s] \in {occurCount[s], occurCount[s] + 1}
              /\ occurCount[s] < MaxCount => occurCount'[s] = occurCount[s] + 1
              /\ "CONFIRMED" \in dtc'[s] \ dtc[s] => occurCount'[s] >= 3
         /\ s \notin Silent =>
              age'[s] = age[s] /\ dtc'[s] = dtc[s] /\ occurCount'[s] = occurCount[s]
<1>1. age' = [x \in Sources |-> IF x \in Silent THEN 0 ELSE age[x]]
  BY DEF TimeOut
<1>2. Commloss(Silent)
  BY DEF TimeOut
<1> DEFINE count == IF occurCount[s] < MaxCount THEN occurCount[s] + 1
                                               ELSE occurCount[s]
<1>3. /\ occurCount'[s] = IF s \in Silent THEN count ELSE occurCount[s]
      /\ dtc'[s] = IF s \in Silent
                   THEN dtc[s] \cup {"TEST_FAILED"}
                          \cup (IF count >= 3 THEN {"CONFIRMED"} ELSE {})
                   ELSE dtc[s]
  BY <1>2 DEF Commloss
<1> QED BY <1>1, <1>3, Bounds DEF TypeOK

\* A tick, read at one source.
LEMMA TickAt ==
  ASSUME TypeOK, Tick, NEW s \in Sources
  PROVE  /\ age'[s] = Later(age[s], AgeCap)
         /\ quiet'[s] = Later(quiet[s], QuietCap)
         /\ sinceClear' = Later(sinceClear, NoticedBy)
         /\ dtc' = dtc /\ occurCount' = occurCount
         /\ age[s] \in Nat /\ quiet[s] \in Nat /\ sinceClear \in Nat
         /\ age[s] <= AgeCap /\ quiet[s] <= QuietCap /\ sinceClear <= NoticedBy
  BY Bounds DEF TypeOK, Tick, dcm

SupInv ==
  /\ TypeInv
  /\ AgeIsSilence
  /\ AgeIsChecked
  /\ UnreportedIsYoung
  /\ DrivingIsRecent
  /\ CountIsSilence

LEMMA SupInit == Init => SupInv
<1> SUFFICES ASSUME Init PROVE SupInv
  OBVIOUS
<1>1. TypeInv
  BY TypeInit
<1>2. PICK boot \in 0..Threshold : age = [s \in Sources |-> boot]
  BY DEF Init
<1>3. /\ \A s \in Sources : /\ age[s] = boot /\ quiet[s] = boot
                            /\ occurCount[s] = 0
      /\ pc = "receive" /\ turnTime = 0 /\ sinceClear = 0
      /\ sent = [mode |-> "DEFAULT", override |-> FALSE, turn |-> "OFF"]
  BY <1>2 DEF Init
<1>4. ~override /\ ~sent.override
  <2>1. ~override
    BY Zenon DEF Init
  <2>2. sent.override = FALSE
    BY <1>3
  <2> QED BY <2>1, <2>2, Zenon
<1>5. AgeIsSilence
  BY <1>3, PcIsSource DEF AgeIsSilence
<1>6. AgeIsChecked
  BY <1>2, <1>3, PcIsSource, Bounds DEF AgeIsChecked
<1>7. UnreportedIsYoung
  BY <1>3, <1>4 DEF UnreportedIsYoung
<1>8. DrivingIsRecent
  BY <1>3, <1>4 DEF DrivingIsRecent
<1>9. CountIsSilence
  BY <1>3 DEF CountIsSilence
<1> QED BY <1>1, <1>5, <1>6, <1>7, <1>8, <1>9 DEF SupInv

\* A datagram of the PC or a frame of an ECU.
LEMMA HeardKeeps ==
  ASSUME SupInv, NEW s \in Sources, Receiving, Heard(s),
         \/ s = "Pc" /\ ~override'
         \/ s # "Pc" /\ override' = override /\ turnSignal' = turnSignal
  PROVE  /\ AgeIsSilence' /\ AgeIsChecked' /\ UnreportedIsYoung'
         /\ DrivingIsRecent' /\ CountIsSilence'
<1> USE Bounds, PcIsSource
<1>1. /\ pc = "receive" /\ pc' = "receive" /\ turnTime' = turnTime
      /\ txAge' = txAge /\ sent' = sent
  BY DEF Receiving, bus
<1>2. TypeOK
  BY DEF SupInv, TypeInv
<1>3. \A x \in Sources :
        /\ x = s => /\ age'[x] = 0 /\ quiet'[x] = 0 /\ occurCount'[x] = 0
                    /\ dtc'[x] = dtc[x] \ {"TEST_FAILED"}
        /\ x # s => /\ age'[x] = age[x] /\ quiet'[x] = quiet[x]
                    /\ occurCount'[x] = occurCount[x] /\ dtc'[x] = dtc[x]
  BY <1>2, HeardAt
<1>4. sinceClear' = sinceClear
  BY DEF Heard
<1>5. AgeIsSilence'
  BY <1>3 DEF SupInv, AgeIsSilence
<1>6. AgeIsChecked'
  BY <1>1, <1>2, <1>3 DEF SupInv, AgeIsChecked, TypeOK
<1>7. UnreportedIsYoung'
  BY <1>3, <1>4 DEF SupInv, UnreportedIsYoung
<1>8. DrivingIsRecent'
  BY <1>1, <1>2, <1>3 DEF SupInv, DrivingIsRecent, TypeOK
<1>9. CountIsSilence'
  BY <1>3 DEF SupInv, CountIsSilence
<1> QED BY <1>5, <1>6, <1>7, <1>8, <1>9

\* COM_TimeOut.
LEMMA TimeOutKeeps ==
  ASSUME SupInv, TimeOut
  PROVE  /\ AgeIsSilence' /\ AgeIsChecked' /\ UnreportedIsYoung'
         /\ DrivingIsRecent' /\ CountIsSilence'
<1> USE Bounds, PcIsSource
<1>1. /\ pc = "timeout" /\ pc' = "transmit" /\ mode' = mode /\ turnTime' = turnTime
      /\ quiet' = quiet /\ sinceClear' = sinceClear /\ txAge' = txAge /\ sent' = sent
  BY DEF TimeOut, bus
<1>2. TypeOK
  BY DEF SupInv, TypeInv
<1>3. \A s \in Sources :
         /\ s \in Silent =>
              /\ age'[s] = 0 /\ "TEST_FAILED" \in dtc'[s]
              /\ occurCount'[s] \in {occurCount[s], occurCount[s] + 1}
              /\ occurCount[s] < MaxCount => occurCount'[s] = occurCount[s] + 1
         /\ s \notin Silent =>
              age'[s] = age[s] /\ dtc'[s] = dtc[s] /\ occurCount'[s] = occurCount[s]
  BY <1>2, TimeOutAt
<1>4. /\ "Pc" \in Silent => override' /\ turnSignal' = "HAZARD"
      /\ "Pc" \notin Silent => override' = override /\ turnSignal' = turnSignal
  BY Zenon DEF TimeOut
<1>5. \A s \in Sources :
        /\ age[s] \in Nat /\ quiet[s] \in Nat /\ occurCount[s] \in Nat
        /\ s \in Silent => age[s] >= Threshold
        /\ s \in Ecus /\ s \notin Silent => age[s] < Threshold
        /\ s = "Pc" /\ mode = "REMOTE" /\ s \notin Silent => age[s] < Threshold
  BY <1>2, EcusAssumption DEF Silent, TypeOK
<1>6. turnTime \in Nat
  BY <1>2 DEF TypeOK
<1>7. AgeIsSilence'
  BY <1>1, <1>3, <1>4, <1>5 DEF SupInv, AgeIsSilence
<1>8. AgeIsChecked'
  BY <1>1, <1>3, <1>5, <1>6 DEF AgeIsChecked
<1>9. UnreportedIsYoung'
  BY <1>1, <1>3, <1>4 DEF SupInv, UnreportedIsYoung
<1>10. DrivingIsRecent'
  BY <1>1, <1>4 DEF SupInv, DrivingIsRecent
<1>11. CountIsSilence'
  <2> SUFFICES ASSUME NEW s \in Sources
               PROVE  /\ occurCount'[s] = 1 => quiet'[s] >= Threshold + age'[s]
                      /\ occurCount'[s] = 2 => quiet'[s] >= 2 * Threshold + age'[s]
                      /\ occurCount'[s] >= 3 => quiet'[s] >= 3 * Threshold
    BY DEF CountIsSilence
  <2>1. /\ occurCount[s] = 1 => quiet[s] >= Threshold + age[s]
        /\ occurCount[s] = 2 => quiet[s] >= 2 * Threshold + age[s]
        /\ occurCount[s] >= 3 => quiet[s] >= 3 * Threshold
        /\ age[s] <= quiet[s]
    BY DEF SupInv, CountIsSilence, AgeIsSilence
  <2>2. CASE s \in Silent
    BY <1>1, <1>3, <1>5, <2>1, <2>2
  <2>3. CASE s \notin Silent
    BY <1>1, <1>3, <2>1, <2>3
  <2> QED BY <2>2, <2>3
<1> QED BY <1>7, <1>8, <1>9, <1>10, <1>11

\* A millisecond passes.
LEMMA TickKeeps ==
  ASSUME SupInv, Tick
  PROVE  /\ AgeIsSilence' /\ AgeIsChecked' /\ UnreportedIsYoung'
         /\ DrivingIsRecent' /\ CountIsSilence'
<1> USE Bounds, PcIsSource
<1>1. /\ pc' = pc /\ turnTime' = turnTime + 1 /\ txAge' = txAge + 1 /\ sent' = sent
      /\ mode' = mode /\ turnSignal' = turnSignal
  BY DEF Tick, com
<1>2. override' = override
  BY Zenon DEF Tick, com
<1>3. TypeOK
  BY DEF SupInv, TypeInv
<1>4. \A s \in Sources :
         /\ age'[s] = Later(age[s], AgeCap)
         /\ quiet'[s] = Later(quiet[s], QuietCap)
         /\ sinceClear' = Later(sinceClear, NoticedBy)
         /\ dtc' = dtc /\ occurCount' = occurCount
         /\ age[s] \in Nat /\ quiet[s] \in Nat /\ sinceClear \in Nat
         /\ age[s] <= AgeCap /\ quiet[s] <= QuietCap /\ sinceClear <= NoticedBy
  BY <1>3, TickAt
<1>5. turnTime \in Nat /\ txAge \in Nat
  BY <1>3 DEF TypeOK
<1>6. AgeCap = NoticedBy /\ AgeCap < QuietCap /\ 2 * Threshold + AgeCap <= QuietCap
      /\ 3 * Threshold <= QuietCap
  BY DEF AgeCap, QuietCap, HeldBy, NoticedBy
<1>7. AgeIsSilence'
  BY <1>2, <1>4, <1>6 DEF SupInv, AgeIsSilence, Later
<1>8. AgeIsChecked'
  BY <1>1, <1>4, <1>5 DEF SupInv, AgeIsChecked, Later
<1>9. UnreportedIsYoung'
  BY <1>2, <1>4, <1>6 DEF SupInv, UnreportedIsYoung, Later
<1>10. DrivingIsRecent'
  BY <1>1, <1>2, <1>4, <1>5 DEF SupInv, DrivingIsRecent, Later
<1>11. CountIsSilence'
  BY <1>4, <1>6 DEF SupInv, CountIsSilence, Later
<1> QED BY <1>7, <1>8, <1>9, <1>10, <1>11

\* COM_Tx_MainFunction.
LEMMA TransmitKeeps ==
  ASSUME SupInv, Transmit
  PROVE  /\ AgeIsSilence' /\ AgeIsChecked' /\ UnreportedIsYoung'
         /\ DrivingIsRecent' /\ CountIsSilence'
<1> USE Bounds, PcIsSource
<1>1. /\ pc = "transmit" /\ pc' = "receive" /\ turnTime' = 0
      /\ age' = age /\ quiet' = quiet /\ sinceClear' = sinceClear
      /\ dtc' = dtc /\ occurCount' = occurCount
      /\ mode' = mode /\ turnSignal' = turnSignal
  BY DEF Transmit, com, dcm
<1>2. override' = override
  BY Zenon DEF Transmit, com
<1>3. TypeOK
  BY DEF SupInv, TypeInv
<1>4. \A s \in Sources : age[s] \in Nat /\ quiet[s] \in Nat
  BY <1>3 DEF TypeOK
<1>5. turnTime \in Nat /\ turnTime <= TurnMs /\ txAge \in Nat
  BY <1>3 DEF TypeOK
<1>6. AgeIsSilence'
  BY <1>1, <1>2 DEF SupInv, AgeIsSilence
<1>7. AgeIsChecked'
  BY <1>1, <1>4, <1>5 DEF SupInv, AgeIsChecked
<1>8. UnreportedIsYoung'
  BY <1>1, <1>2 DEF SupInv, UnreportedIsYoung
<1>9. DrivingIsRecent'
  <2>1. CASE txAge >= CyclicMs
    <3>1. /\ txAge' = 0
          /\ sent'.mode = mode /\ sent'.turn = turnSignal
      BY <2>1 DEF Transmit
    <3>2. sent'.override = override
      <4>1. sent' = [mode |-> mode, override |-> override, turn |-> turnSignal]
        BY <2>1, Zenon DEF Transmit
      <4>2. [mode |-> mode, override |-> override, turn |-> turnSignal].override = override
        BY Zenon
      <4> QED BY <4>1, <4>2, Zenon
    <3>3. mode = "REMOTE" /\ ~override => quiet["Pc"] < Threshold + TurnMs
      BY <1>1, <1>4, <1>5 DEF SupInv, AgeIsSilence, AgeIsChecked, AgeCap, NoticedBy
    <3>4. override => turnSignal = "HAZARD"
      BY DEF SupInv, DrivingIsRecent
    <3> QED BY <1>1, <1>2, <3>1, <3>2, <3>3, <3>4 DEF DrivingIsRecent
  <2>2. CASE ~(txAge >= CyclicMs)
    <3>1. txAge' = txAge /\ sent' = sent
      BY <2>2 DEF Transmit, bus
    <3> QED BY <1>1, <1>2, <3>1 DEF SupInv, DrivingIsRecent
  <2> QED BY <2>1, <2>2
<1>10. CountIsSilence'
  BY <1>1 DEF SupInv, CountIsSilence
<1> QED BY <1>6, <1>7, <1>8, <1>9, <1>10

\* The steps that only move the mode or the loop.
LEMMA ModeKeeps ==
  ASSUME SupInv,
         \/ RoutingActivated \/ RoutingDeactivated
         \/ EndReceive \/ UNCHANGED vars
  PROVE  /\ AgeIsSilence' /\ AgeIsChecked' /\ UnreportedIsYoung'
         /\ DrivingIsRecent' /\ CountIsSilence'
<1>1. /\ age' = age /\ quiet' = quiet /\ sinceClear' = sinceClear
      /\ dtc' = dtc /\ occurCount' = occurCount /\ turnTime' = turnTime
      /\ turnSignal' = turnSignal /\ txAge' = txAge /\ sent' = sent
      /\ \/ pc \in {"receive", "timeout"} /\ pc' \in {"receive", "timeout"}
         \/ pc' = pc /\ mode' = mode
  BY DEF RoutingActivated, RoutingDeactivated, EndReceive, Receiving, vars, com, dcm, bus
<1>2. override' = override
  BY Zenon DEF RoutingActivated, RoutingDeactivated, EndReceive, vars, com
<1> QED
  BY <1>1, <1>2 DEF SupInv, AgeIsSilence, AgeIsChecked, UnreportedIsYoung,
                    DrivingIsRecent, CountIsSilence

\* The tester clears the DTCs.
LEMMA ClearKeeps ==
  ASSUME SupInv, ClearAllDtc
  PROVE  /\ AgeIsSilence' /\ AgeIsChecked' /\ UnreportedIsYoung'
         /\ DrivingIsRecent' /\ CountIsSilence'
<1>1. /\ age' = age /\ quiet' = quiet /\ sinceClear' = 0 /\ turnTime' = turnTime
      /\ mode' = mode /\ turnSignal' = turnSignal /\ txAge' = txAge /\ sent' = sent
      /\ pc' = pc
  BY DEF ClearAllDtc, Receiving, com, bus
<1>2. override' = override
  BY Zenon DEF ClearAllDtc, com
<1>3. \A s \in Sources : dtc'[s] = {} /\ occurCount'[s] = 0
  BY DEF ClearAllDtc
<1>4. \A s \in Sources : age[s] \in Nat
  BY DEF SupInv, TypeInv, TypeOK
<1> QED
  BY <1>1, <1>2, <1>3, <1>4, PcIsSource DEF SupInv, AgeIsSilence, AgeIsChecked,
     UnreportedIsYoung, DrivingIsRecent, CountIsSilence

LEMMA SupNext == SupInv /\ [Next]_vars => SupInv'
<1> SUFFICES ASSUME SupInv, [Next]_vars PROVE SupInv'
  OBVIOUS
<1>1. TypeInv'
  BY TypeNext DEF SupInv
<1>2. ASSUME NEW control \in Controls, UdpCtrRx(control)
      PROVE  /\ AgeIsSilence' /\ AgeIsChecked' /\ UnreportedIsYoung'
             /\ DrivingIsRecent' /\ CountIsSilence'
  <2>1. Receiving /\ Heard("Pc")
    BY <1>2 DEF UdpCtrRx
  <2>2. ~override'
    BY <1>2, Zenon DEF UdpCtrRx
  <2> QED BY <2>1, <2>2, PcIsSource, HeardKeeps
<1>3. ASSUME NEW e \in Ecus, CanRx(e)
      PROVE  /\ AgeIsSilence' /\ AgeIsChecked' /\ UnreportedIsYoung'
             /\ DrivingIsRecent' /\ CountIsSilence'
  <2>1. Receiving /\ Heard(e) /\ e # "Pc"
    BY <1>3, EcusAssumption DEF CanRx
  <2>2. override' = override /\ turnSignal' = turnSignal
    BY <1>3, Zenon DEF CanRx, com
  <2> QED BY <2>1, <2>2, PcIsSource, HeardKeeps
<1> QED
  BY <1>1, <1>2, <1>3, ClearKeeps, ModeKeeps, TimeOutKeeps, TransmitKeeps, TickKeeps
  DEF Next, Handle, SupInv

LEMMA SupAlways == Spec => []SupInv
  BY SupInit, SupNext, PTL DEF Spec

-----------------------------------------------------------------------------
(* Theorems.                                                               *)

\* A PC that stays silent is answered within HeldBy by frames that hold the
\* vehicle and light the hazard lamps (COM_TimeOut before
\* COM_Tx_MainFunction in the loop, time stamps kept through the other modes).
THEOREM SilentPcHeld == Spec => []SilentPcIsHeld
<1>1. ASSUME SupInv PROVE SilentPcIsHeld
  <2>1. /\ txAge \in Nat /\ turnTime \in Nat /\ quiet["Pc"] \in Nat
        /\ txAge <= CyclicMs + TurnMs
    BY <1>1, PcIsSource, Bounds DEF SupInv, TypeInv, TypeOK
  <2> QED
    BY <1>1, <2>1, Bounds DEF SupInv, DrivingIsRecent, SilentPcIsHeld, HeldBy
<1> QED BY <1>1, SupAlways, PTL

\* A silent ECU shows in the DTC report within NoticedBy (COM_TimeOut,
\* Uds_ProcessRx).
THEOREM SilentEcuReported == Spec => []SilentEcuIsReported
<1>1. ASSUME SupInv PROVE SilentEcuIsReported
  <2> SUFFICES ASSUME NEW e \in Ecus, quiet[e] >= NoticedBy, sinceClear = NoticedBy,
                      "TEST_FAILED" \notin dtc[e]
               PROVE  FALSE
    BY PcIsSource DEF SilentEcuIsReported, ReportedByMask
  <2>1. age[e] \in Nat /\ turnTime \in Nat /\ turnTime <= TurnMs /\ quiet[e] \in Nat
    BY <1>1, PcIsSource DEF SupInv, TypeInv, TypeOK
  <2>2. age[e] >= NoticedBy
    BY <1>1, <2>1, PcIsSource, Bounds DEF SupInv, UnreportedIsYoung
  <2>3. age[e] < Threshold + turnTime + TurnMs
    BY <1>1, <2>1, Bounds DEF SupInv, AgeIsChecked
  <2> QED BY <2>1, <2>2, <2>3, Bounds DEF NoticedBy
<1> QED BY <1>1, SupAlways, PTL

\* The DTC of the PC explains every override that is sent in the remote mode
\* (Callback_COM_PcTimeout together with DCM_Callback_PcCommloss).
THEOREM OverrideReported == Spec => []OverrideIsReported
<1>1. ASSUME SupInv PROVE OverrideIsReported
  <2> SUFFICES ASSUME pc = "transmit", mode = "REMOTE", override,
                      sinceClear = NoticedBy, "TEST_FAILED" \notin dtc["Pc"]
               PROVE  FALSE
    BY PcIsSource DEF OverrideIsReported, ReportedByMask
  <2>1. age["Pc"] \in Nat /\ turnTime \in Nat /\ turnTime <= TurnMs
    BY <1>1, PcIsSource DEF SupInv, TypeInv, TypeOK
  <2>2. age["Pc"] >= NoticedBy
    BY <1>1 DEF SupInv, UnreportedIsYoung
  <2>3. age["Pc"] < Threshold + turnTime
    BY <1>1 DEF SupInv, AgeIsChecked
  <2> QED BY <2>1, <2>2, <2>3, Bounds DEF NoticedBy
<1> QED BY <1>1, SupAlways, PTL

\* Only COM_TimeOut confirms a DTC.
LEMMA OnlyTimeOutConfirms ==
  ASSUME TypeOK, [Next]_vars, NEW s \in Sources, "CONFIRMED" \in dtc'[s] \ dtc[s]
  PROVE  TimeOut
<1>1. ASSUME NEW control \in Controls, UdpCtrRx(control) PROVE FALSE
  BY <1>1, HeardAt, PcIsSource DEF UdpCtrRx
<1>2. ASSUME NEW e \in Ecus, CanRx(e) PROVE FALSE
  BY <1>2, HeardAt, PcIsSource DEF CanRx
<1>3. CASE ClearAllDtc
  BY <1>3 DEF ClearAllDtc
<1>4. CASE RoutingActivated \/ RoutingDeactivated \/ EndReceive \/ Transmit \/ Tick
           \/ UNCHANGED vars
  BY <1>4 DEF RoutingActivated, RoutingDeactivated, EndReceive, Transmit, Tick, vars, dcm
<1> QED BY <1>1, <1>2, <1>3, <1>4 DEF Next, Handle

\* A DTC is confirmed after three whole thresholds of silence, never earlier
\* (DtcOccurCount).
THEOREM ConfirmedLate == Spec => ConfirmedNotEarly
<1>1. ASSUME SupInv, [Next]_vars, NEW s \in Sources, "CONFIRMED" \in dtc'[s] \ dtc[s]
      PROVE  quiet[s] >= 3 * Threshold
  <2>1. TypeOK
    BY <1>1 DEF SupInv, TypeInv
  <2>2. TimeOut
    BY <1>1, <2>1, OnlyTimeOutConfirms
  <2>3. /\ s \in Silent
        /\ occurCount'[s] \in {occurCount[s], occurCount[s] + 1}
        /\ occurCount'[s] >= 3
    BY <1>1, <2>1, <2>2, TimeOutAt
  <2>4. /\ age[s] \in Nat /\ quiet[s] \in Nat /\ occurCount[s] \in Nat
        /\ age[s] >= Threshold
    BY <2>1, <2>3 DEF Silent, TypeOK
  <2>5. /\ occurCount[s] = 2 => quiet[s] >= 2 * Threshold + age[s]
        /\ occurCount[s] >= 3 => quiet[s] >= 3 * Threshold
    BY <1>1 DEF SupInv, CountIsSilence
  <2> QED BY <2>3, <2>4, <2>5, Bounds
<1>2. SupInv /\ [Next]_vars
        => [\A s \in Sources :
              "CONFIRMED" \in dtc'[s] \ dtc[s] => quiet[s] >= 3 * Threshold]_vars
  BY <1>1
<1> QED BY <1>2, SupAlways, PTL DEF Spec, ConfirmedNotEarly

-----------------------------------------------------------------------------
(* The width of the time stamps.                                           *)

\* uint32: the millisecond counter starts again after 49.7 days.
StampRange == 4294967296

\* currentTime - Last_Act_RxTime, as the code computes it.
Elapsed(time, stamp) ==
  ((time % StampRange) - (stamp % StampRange)) % StampRange

LEMMA ElapsedIsAge ==
  ASSUME NEW time \in Nat, NEW stamp \in Nat, stamp <= time,
         time - stamp < StampRange
  PROVE  Elapsed(time, stamp) = time - stamp
  BY DEF Elapsed, StampRange

\* Something that is n old is taken for n old, whatever the time is.
AgedExactly(n) == \A time \in Nat : n <= time => Elapsed(time, time - n) = n

StampsFit ==
  /\ \A e \in Ecus : age[e] < AgeCap /\ AgedExactly(age[e])
  /\ pc = "transmit" /\ mode = "REMOTE" =>
       age["Pc"] < AgeCap /\ AgedExactly(age["Pc"])
  /\ AgedExactly(txAge)

\* The ages of the model are the differences that the code computes, also over
\* a wrap of the millisecond counter: each turn of the loop examines the ECUs,
\* and the PC in the remote mode, before an age reaches its cap, and sends the
\* cyclic frames in time.  (Outside the remote mode nothing renews the stamp of
\* a silent PC, and the theorem does not speak of it.)
THEOREM CounterMayWrap ==
  ASSUME AgeCap <= StampRange, CyclicMs + TurnMs < StampRange
  PROVE  Spec => []StampsFit
<1>1. StampRange \in Nat
  BY DEF StampRange
<1>2. ASSUME NEW n \in Nat, n < StampRange PROVE AgedExactly(n)
  <2> SUFFICES ASSUME NEW time \in Nat, n <= time
               PROVE  Elapsed(time, time - n) = n
    BY DEF AgedExactly
  <2>1. time - n \in Nat /\ time - n <= time /\ time - (time - n) = n
    OBVIOUS
  <2> QED BY <1>2, <2>1, ElapsedIsAge
<1>3. SupInv => StampsFit
  <2> SUFFICES ASSUME SupInv PROVE StampsFit
    OBVIOUS
  <2>1. /\ turnTime \in Nat /\ turnTime <= TurnMs
        /\ \A s \in Sources : age[s] \in Nat
        /\ txAge \in Nat /\ txAge <= CyclicMs + TurnMs
    BY Bounds DEF SupInv, TypeInv, TypeOK
  <2>2. AgeCap = Threshold + 2 * TurnMs
    BY DEF AgeCap, NoticedBy
  <2>3. \A e \in Ecus : age[e] \in Nat /\ age[e] < AgeCap
    <3> SUFFICES ASSUME NEW e \in Ecus PROVE age[e] \in Nat /\ age[e] < AgeCap
      OBVIOUS
    <3>1. age[e] \in Nat
      BY <2>1, PcIsSource
    <3>2. age[e] < Threshold + turnTime + TurnMs \/ age[e] < Threshold + turnTime + 0
      BY DEF SupInv, AgeIsChecked
    <3> QED BY <2>1, <2>2, <3>1, <3>2, Bounds
  <2>4. pc = "transmit" /\ mode = "REMOTE" => age["Pc"] \in Nat /\ age["Pc"] < AgeCap
    BY <2>1, <2>2, PcIsSource, Bounds DEF SupInv, AgeIsChecked
  <2>5. \A n \in Nat : n < AgeCap => AgedExactly(n)
    BY <1>1, <1>2, Bounds
  <2>6. AgedExactly(txAge)
    BY <1>1, <1>2, <2>1, Bounds
  <2> QED BY <2>3, <2>4, <2>5, <2>6 DEF StampsFit
<1> QED BY <1>3, SupAlways, PTL
=============================================================================
