-------------------------- MODULE MediaDoip_proofs --------------------------
(***************************************************************************)
(* Proofs about MediaDoip, for every number of connections, sessions,      *)
(* components, failures and restarts.                                      *)
(***************************************************************************)
EXTENDS MediaDoip, Integers, TLAPS

-----------------------------------------------------------------------------
(* The invariants.                                                         *)

\* Only a connection that has a session has a tester.
SessionsOK ==
  /\ sessions \subseteq Conns
  /\ client \in [Conns -> Testers \cup {NoTester}]
  /\ clearing \subseteq sessions
  /\ gone \subseteq sessions
  /\ unacked \subseteq gone
  /\ \A c \in Conns : Activated(c) => c \in sessions

\* The monitor has found something only about the component it is at.
MonitorOK ==
  /\ well \in [Codes -> BOOLEAN]
  /\ status \in [Codes -> BOOLEAN]
  /\ row \in [Codes -> Rows]
  /\ at \in 0 .. NumCodes
  /\ found \in Results
  /\ found # "none" => at \in Codes
  /\ settled \subseteq Codes

BoundsOK ==
  /\ failures \in 0 .. MaxFailures
  /\ restarts \in 0 .. MaxRestarts

TypeInv == SessionsOK /\ MonitorOK /\ BoundsOK

\* What the monitor found is what the status shows, and is still to be told
\* to the table.
FoundIsShown ==
  found # "none" => at \notin settled /\ (found = "ok" <=> status[at])

DtcInv == MonitorOK /\ FoundIsShown /\ DidAgreesWithDtc

-----------------------------------------------------------------------------
(* The type invariant.                                                     *)

LEMMA CodesType == NumCodes \in Nat \ {0} /\ Codes \subseteq Int /\ 1 \in 0 .. NumCodes
  BY CodesAssumption DEF Codes

LEMMA BootType == BootStatus \in [Codes -> BOOLEAN]
  BY DEF BootStatus

LEMMA TypeInit == Init => TypeInv
<1> SUFFICES ASSUME Init PROVE TypeInv
  OBVIOUS
<1>1. SessionsOK
  BY DEF Init, SessionsOK, Activated
<1>2. MonitorOK
  BY CodesType, BootType DEF Init, MonitorOK, Results, Rows
<1>3. BoundsOK
  BY BoundsAssumption DEF Init, BoundsOK
<1> QED BY <1>1, <1>2, <1>3 DEF TypeInv

LEMMA SessionsNext == SessionsOK /\ [Next]_vars => SessionsOK'
<1> SUFFICES ASSUME SessionsOK, [Next]_vars PROVE SessionsOK'
  OBVIOUS
<1> USE DEF SessionsOK, sessionVars
<1>1. ASSUME NEW c \in Conns, SessionStep(c) PROVE SessionsOK'
  <2>1. CASE OnClient(c)
    BY <2>1 DEF OnClient, Activated
  <2>2. ASSUME NEW sa \in Testers, RoutingActivation(c, sa) PROVE SessionsOK'
    BY <2>2 DEF RoutingActivation, Activated, Sent
  <2>3. CASE Acknowledge(c)
    BY <2>3 DEF Acknowledge, Activated, Sent
  <2>4. CASE ClearDtc(c)
    BY <2>4 DEF ClearDtc, Activated, Sent
  <2>5. CASE AliveCheck(c)
    BY <2>5 DEF AliveCheck, Activated, Sent
  <2>6. CASE PeerCloses(c) \/ TcpGivesUp(c)
    BY <2>6 DEF PeerCloses, TcpGivesUp, Cleanup, Activated
  <2>7. CASE PeerGoes(c)
    BY <2>7 DEF PeerGoes, Activated
  <2> QED BY <1>1, <2>1, <2>2, <2>3, <2>4, <2>5, <2>6, <2>7 DEF SessionStep
<1>2. CASE (\E k \in Codes : Component(k)) \/ MonitorStep
  BY <1>2 DEF Component, MonitorStep, Check, SetOrClear, StoreFails, NextRound,
              Activated
<1>3. CASE Restart
  BY <1>3 DEF Restart, Activated
<1>4. CASE UNCHANGED vars
  BY <1>4 DEF vars, Activated
<1> QED BY <1>1, <1>2, <1>3, <1>4 DEF Next

LEMMA MonitorNext == MonitorOK /\ [Next]_vars => MonitorOK'
<1> SUFFICES ASSUME MonitorOK, [Next]_vars PROVE MonitorOK'
  OBVIOUS
<1> USE CodesType DEF MonitorOK, monitorVars
<1>1. ASSUME NEW c \in Conns, SessionStep(c) PROVE MonitorOK'
  <2>1. CASE ClearDtc(c)
    BY <2>1 DEF ClearDtc, Rows
  <2>2. CASE ~ClearDtc(c)
    BY <1>1, <2>2 DEF SessionStep, OnClient, RoutingActivation, Acknowledge,
       AliveCheck, PeerCloses, TcpGivesUp, Cleanup, PeerGoes
  <2> QED BY <2>1, <2>2
<1>2. ASSUME NEW k \in Codes, Component(k) PROVE MonitorOK'
  <2>1. well' \in [Codes -> BOOLEAN]
    BY <1>2 DEF Component, Break, Repair
  <2> QED BY <1>2, <2>1 DEF Component
<1>3. CASE Check
  <2>1. status' \in [Codes -> BOOLEAN]
    BY <1>3 DEF Check
  <2>2. found' \in Results /\ settled' \subseteq Codes /\ at' \in Codes
    BY <1>3 DEF Check, Results
  <2> QED BY <1>3, <2>1, <2>2 DEF Check
<1>4. CASE SetOrClear
  <2>1. row' \in [Codes -> Rows]
    BY <1>4 DEF SetOrClear, ClearActive, SetActive, Rows
  <2>2. at' \in 0 .. NumCodes /\ settled' \subseteq Codes /\ found' = "none"
    BY <1>4 DEF SetOrClear, NextCheck, Codes
  <2> QED BY <1>4, <2>1, <2>2 DEF SetOrClear, Results
<1>5. CASE StoreFails
  BY <1>5 DEF StoreFails, Results
<1>6. CASE NextRound
  <2>1. 1 \in Codes
    BY DEF Codes
  <2> QED BY <1>6, <2>1 DEF NextRound
<1>7. CASE Restart
  BY <1>7, BootType DEF Restart, Results
<1>8. CASE UNCHANGED vars
  BY <1>8 DEF vars
<1> QED BY <1>1, <1>2, <1>3, <1>4, <1>5, <1>6, <1>7, <1>8 DEF Next, MonitorStep

LEMMA BoundsNext == BoundsOK /\ [Next]_vars => BoundsOK'
<1> SUFFICES ASSUME BoundsOK, [Next]_vars PROVE BoundsOK'
  OBVIOUS
<1> USE BoundsAssumption DEF BoundsOK
<1>1. CASE \E c \in Conns : SessionStep(c)
  BY <1>1 DEF SessionStep, OnClient, RoutingActivation, Acknowledge, ClearDtc,
              AliveCheck, PeerCloses, TcpGivesUp, Cleanup, PeerGoes
<1>2. CASE (\E k \in Codes : Component(k)) \/ MonitorStep
  BY <1>2 DEF Component, MonitorStep, Check, SetOrClear, StoreFails, NextRound
<1>3. CASE Restart
  BY <1>3 DEF Restart
<1>4. CASE UNCHANGED vars
  BY <1>4 DEF vars
<1> QED BY <1>1, <1>2, <1>3, <1>4 DEF Next

LEMMA TypeNext == TypeInv /\ [Next]_vars => TypeInv'
  BY SessionsNext, MonitorNext, BoundsNext DEF TypeInv

LEMMA TypeImplied == TypeInv => TypeOK
  BY DEF TypeInv, SessionsOK, MonitorOK, BoundsOK, TypeOK

\* Every variable keeps its type; in particular a session that awaits or whose
\* peer is gone is one of the sessions, and the monitor never leaves its list.
THEOREM TypeCorrect == Spec => []TypeOK
<1>1. Spec => []TypeInv
  BY TypeInit, TypeNext, PTL DEF Spec
<1> QED BY <1>1, TypeImplied, PTL

-----------------------------------------------------------------------------
(* The monitor and the table.                                              *)

LEMMA DtcInit == Init => DtcInv
  BY TypeInit DEF Init, DtcInv, FoundIsShown, DidAgreesWithDtc, TypeInv

LEMMA DtcNext == DtcInv /\ [Next]_vars => DtcInv'
<1> SUFFICES ASSUME DtcInv, [Next]_vars PROVE FoundIsShown' /\ DidAgreesWithDtc'
  BY MonitorNext DEF DtcInv
<1> USE DEF DtcInv, FoundIsShown, DidAgreesWithDtc, monitorVars
<1>1. ASSUME NEW c \in Conns, SessionStep(c)
      PROVE  FoundIsShown' /\ DidAgreesWithDtc'
  <2>1. CASE ClearDtc(c)
    BY <2>1 DEF ClearDtc
  <2>2. CASE ~ClearDtc(c)
    BY <1>1, <2>2 DEF SessionStep, OnClient, RoutingActivation, Acknowledge,
       AliveCheck, PeerCloses, TcpGivesUp, Cleanup, PeerGoes
  <2> QED BY <2>1, <2>2
<1>2. CASE (\E k \in Codes : Component(k)) \/ NextRound
  BY <1>2 DEF Component, NextRound
<1>3. CASE Check
  <2>1. FoundIsShown'
    BY <1>3 DEF Check, MonitorOK
  <2>2. DidAgreesWithDtc'
    BY <1>3 DEF Check, MonitorOK
  <2> QED BY <2>1, <2>2
<1>4. CASE SetOrClear
  <2>1. at \in Codes /\ row \in [Codes -> Rows]
    BY <1>4 DEF SetOrClear, MonitorOK
  <2>2. row'[at] = "ACTIVE" <=> ~status[at]
    BY <1>4, <2>1 DEF SetOrClear, ClearActive, SetActive
  <2>3. \A k \in settled : k # at /\ row'[k] = row[k]
    BY <1>4, <2>1 DEF SetOrClear, MonitorOK
  <2> QED BY <1>4, <2>2, <2>3 DEF SetOrClear
<1>5. CASE StoreFails
  BY <1>5 DEF StoreFails
<1>6. CASE Restart
  BY <1>6 DEF Restart
<1>7. CASE UNCHANGED vars
  BY <1>7 DEF vars
<1> QED BY <1>1, <1>2, <1>3, <1>4, <1>5, <1>6, <1>7 DEF Next, MonitorStep

\* What the two diagnostic services say of a component agrees from the time
\* the monitor has told the table until the next check, clear or restart
\* (health_monitor.py, dtc_store.py).
THEOREM DidAgrees == Spec => []DidAgreesWithDtc
<1>1. DtcInv => DidAgreesWithDtc
  BY DEF DtcInv
<1> QED BY <1>1, DtcInit, DtcNext, PTL DEF Spec
=============================================================================
