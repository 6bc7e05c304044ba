------------------------- MODULE DoipSession_proofs --------------------------
(***************************************************************************)
(* Proofs about DoipSession for every set of connections, every delay of   *)
(* the deferred close and every length of a turn of the main loop.         *)
(***************************************************************************)
EXTENDS DoipSession, TLAPS

\* The types alone, without the bound of a pending close.
TypeInv ==
  /\ conn \in [Conns -> {"none", "established", "closing"}]
  /\ recvCb \in SUBSET Conns
  /\ errCb \in SUBSET Conns
  /\ active \in Conns \cup {NoConn}
  /\ closePending \in BOOLEAN
  /\ closeAge \in Nat
  /\ mode \in Modes
  /\ pc \in {"poll", "soad"}
  /\ turnTime \in 0..TurnMs
  /\ offended \in SUBSET Conns
  /\ offenceAge \in [Conns -> 0..CloseBy]

\* The callbacks are registered on the connection that is served, and there
\* only: what is a comment in tcp_txrx.c ("one connection assumed").
CallbacksOnActive ==
  /\ \A c \in recvCb : c = active
  /\ \A c \in errCb : c = active
  /\ active # NoConn => active \in recvCb /\ active \in errCb

\* A pending close has been examined in every turn since it was asked for.
CloseIsExamined ==
  /\ closeAge <= (CloseMs - 1) + turnTime
  /\ ~closePending => closeAge = 0

\* Only the connection that is served has offended, and its last offence is
\* the one the pending close counts from.
OffenderIsServed ==
  \A c \in offended : c = active /\ closePending /\ offenceAge[c] = closeAge

SessionInv ==
  /\ TypeInv
  /\ ActiveIsOpen
  /\ CallbacksOnActive
  /\ CloseIsExamined
  /\ OffenderIsServed

LEMMA InitSession == Init => SessionInv
  <1> SUFFICES ASSUME Init PROVE SessionInv
    OBVIOUS
  <1>1. closePending \in BOOLEAN
    BY Zenon DEF Init
  <1>2. TypeInv
    BY <1>1, CloseTimesAssumption DEF Init, TypeInv, Modes, CloseBy
  <1>3. CloseIsExamined
    BY CloseTimesAssumption DEF Init, CloseIsExamined
  <1>4. ActiveIsOpen /\ CallbacksOnActive /\ OffenderIsServed
    BY DEF Init, ActiveIsOpen, CallbacksOnActive, OffenderIsServed
  <1> QED BY <1>2, <1>3, <1>4 DEF SessionInv

\* What tcp_server_close does to the served connection.
LEMMA CloseServed ==
  ASSUME SessionInv, NEW c \in Conns, c = active, CloseConn(c)
  PROVE  /\ conn' \in [Conns -> {"none", "established", "closing"}]
         /\ recvCb' = {} /\ errCb' = {}
         /\ active' = NoConn
         /\ offended' = {}
         /\ offenceAge' \in [Conns -> 0..CloseBy]
  <1>1. c # NoConn
    BY NoConnAssumption
  <1>2. CloseBy \in Nat
    BY CloseTimesAssumption DEF CloseBy
  <1>3. recvCb' = {} /\ errCb' = {}
    BY DEF CloseConn, SessionInv, CallbacksOnActive
  <1>4. offended' = {}
    BY DEF CloseConn, Forget, SessionInv, OffenderIsServed
  <1>5. active' = NoConn
    BY DEF CloseConn
  <1>6. conn' \in [Conns -> {"none", "established", "closing"}]
    BY DEF CloseConn, SessionInv, TypeInv
  <1>7. offenceAge' \in [Conns -> 0..CloseBy]
    BY <1>2 DEF CloseConn, Forget, SessionInv, TypeInv
  <1> QED BY <1>3, <1>4, <1>5, <1>6, <1>7

LEMMA NextSession == SessionInv /\ [Next]_vars => SessionInv'
  <1> SUFFICES ASSUME SessionInv, [Next]_vars
               PROVE  SessionInv'
    OBVIOUS
  <1> USE NoConnAssumption, CloseTimesAssumption
  <1>0. CloseBy \in Nat /\ TurnMs \in Nat /\ CloseMs \in Nat \ {0}
    BY DEF CloseBy
  <1>1. ASSUME NEW ignition \in BOOLEAN, UdpCtrRx(ignition)
        PROVE  SessionInv'
    BY <1>1 DEF UdpCtrRx, Polling, tcp, soad, loop, history, SessionInv,
       TypeInv, ActiveIsOpen, CallbacksOnActive, CloseIsExamined,
       OffenderIsServed, Modes
  <1>2. ASSUME NEW c \in Conns, Accept(c)
        PROVE  SessionInv'
    <2>1. TypeInv'
      BY <1>2 DEF Accept, Polling, soad, loop, history, SessionInv, TypeInv
    <2>2. ActiveIsOpen'
      BY <1>2 DEF Accept, SessionInv, TypeInv, ActiveIsOpen
    <2>3. CallbacksOnActive'
      BY <1>2 DEF Accept, SessionInv, TypeInv, CallbacksOnActive
    <2>4. CloseIsExamined'
      BY <1>2 DEF Accept, Polling, soad, loop, SessionInv, CloseIsExamined
    <2>5. OffenderIsServed'
      <3>1. offended # {} => active # NoConn
        BY DEF SessionInv, TypeInv, OffenderIsServed
      <3> QED BY <3>1, <1>2 DEF Accept, soad, history, SessionInv, OffenderIsServed
    <2> QED BY <2>1, <2>2, <2>3, <2>4, <2>5 DEF SessionInv
  <1>3. ASSUME NEW c \in Conns, Fin(c)
        PROVE  SessionInv'
    <2>1. CASE c \in recvCb
      <3>1. c = active /\ CloseConn(c)
        BY <1>3, <2>1 DEF Fin, SessionInv, CallbacksOnActive
      <3>2. /\ conn' \in [Conns -> {"none", "established", "closing"}]
            /\ recvCb' = {} /\ errCb' = {} /\ active' = NoConn
            /\ offended' = {} /\ offenceAge' \in [Conns -> 0..CloseBy]
        BY <3>1, CloseServed
      <3>3. mode' \in Modes
        BY <1>3, <2>1 DEF Fin, RoutingDeactivated, SessionInv, TypeInv, Modes
      <3> QED
        BY <1>3, <3>2, <3>3 DEF Fin, Polling, soad, loop, SessionInv, TypeInv,
           ActiveIsOpen, CallbacksOnActive, CloseIsExamined, OffenderIsServed
    <2>2. CASE c \notin recvCb
      <3>1. c # active
        BY <2>2 DEF SessionInv, CallbacksOnActive
      <3> QED
        BY <1>3, <2>2, <3>1 DEF Fin, Polling, soad, loop, history, SessionInv,
           TypeInv, ActiveIsOpen, CallbacksOnActive, CloseIsExamined,
           OffenderIsServed
    <2> QED BY <2>1, <2>2
  <1>4. ASSUME NEW c \in Conns, Reset(c)
        PROVE  SessionInv'
    <2>1. TypeInv'
      BY <1>0, <1>4 DEF Reset, Polling, soad, loop, Forget, SessionInv, TypeInv
    <2>2. c \in errCb <=> c = active
      BY DEF SessionInv, CallbacksOnActive
    <2>3. ActiveIsOpen' /\ CallbacksOnActive'
      BY <1>4, <2>2 DEF Reset, SessionInv, TypeInv, ActiveIsOpen, CallbacksOnActive
    <2>4. CloseIsExamined'
      BY <1>4 DEF Reset, Polling, soad, loop, SessionInv, CloseIsExamined
    <2>5. OffenderIsServed'
      BY <1>4, <2>2 DEF Reset, soad, Forget, SessionInv, TypeInv, OffenderIsServed
    <2> QED BY <2>1, <2>3, <2>4, <2>5 DEF SessionInv
  <1>5. ASSUME NEW c \in Conns, Closed(c)
        PROVE  SessionInv'
    <2>1. c # active
      BY <1>5 DEF Closed, SessionInv, ActiveIsOpen
    <2> QED
      BY <1>5, <2>1 DEF Closed, Polling, soad, loop, history, SessionInv,
         TypeInv, ActiveIsOpen, CallbacksOnActive, CloseIsExamined,
         OffenderIsServed
  <1>6. ASSUME NEW c \in Conns, NEW msg \in Messages, ProcessRx(c, msg)
        PROVE  SessionInv'
    <2>1. c = active
      BY <1>6 DEF ProcessRx, SessionInv, CallbacksOnActive
    <2>2. ActiveIsOpen' /\ CallbacksOnActive'
      BY <1>6 DEF ProcessRx, tcp, SessionInv, ActiveIsOpen, CallbacksOnActive
    <2>3. CASE CloseSocket(c) /\ UNCHANGED mode
      BY <1>0, <1>6, <2>1, <2>2, <2>3 DEF ProcessRx, Polling, CloseSocket, tcp,
         loop, SessionInv, TypeInv, CloseIsExamined, OffenderIsServed
    <2>4. CASE RoutingActivated /\ UNCHANGED <<soad, history>>
      BY <1>6, <2>2, <2>4 DEF ProcessRx, Polling, RoutingActivated, tcp, soad,
         loop, history, SessionInv, TypeInv, CloseIsExamined, OffenderIsServed,
         Modes
    <2>5. CASE UNCHANGED <<soad, mode, history>>
      BY <1>6, <2>2, <2>5 DEF ProcessRx, Polling, tcp, soad, loop, history,
         SessionInv, TypeInv, CloseIsExamined, OffenderIsServed
    <2> QED BY <1>6, <2>3, <2>4, <2>5 DEF ProcessRx
  <1>7. CASE EndPoll
    BY <1>7 DEF EndPoll, tcp, soad, history, SessionInv, TypeInv, ActiveIsOpen,
       CallbacksOnActive, CloseIsExamined, OffenderIsServed
  <1>8. CASE MainFunction
    <2>1. CASE closePending /\ closeAge >= CloseMs /\ active # NoConn
      <3>1. active \in Conns /\ CloseConn(active)
        BY <1>8, <2>1 DEF MainFunction, SessionInv, TypeInv
      <3>2. /\ conn' \in [Conns -> {"none", "established", "closing"}]
            /\ recvCb' = {} /\ errCb' = {} /\ active' = NoConn
            /\ offended' = {} /\ offenceAge' \in [Conns -> 0..CloseBy]
        BY <3>1, CloseServed
      <3>3. closePending' \in BOOLEAN
        BY <1>8, <2>1, Zenon DEF MainFunction
      <3> QED
        BY <1>0, <1>8, <2>1, <3>2, <3>3 DEF MainFunction, SessionInv, TypeInv,
           ActiveIsOpen, CallbacksOnActive, CloseIsExamined, OffenderIsServed
    <2>2. CASE closePending /\ closeAge >= CloseMs /\ active = NoConn
      <3>1. offended = {}
        BY <2>2 DEF SessionInv, TypeInv, OffenderIsServed
      <3>2. closePending' \in BOOLEAN
        BY <1>8, <2>2, Zenon DEF MainFunction
      <3> QED
        BY <1>0, <1>8, <2>2, <3>1, <3>2 DEF MainFunction, tcp, history, SessionInv,
           TypeInv, ActiveIsOpen, CallbacksOnActive, CloseIsExamined,
           OffenderIsServed
    <2>3. CASE ~(closePending /\ closeAge >= CloseMs)
      BY <1>0, <1>8, <2>3 DEF MainFunction, tcp, soad, history, SessionInv,
         TypeInv, ActiveIsOpen, CallbacksOnActive, CloseIsExamined,
         OffenderIsServed
    <2> QED BY <2>1, <2>2, <2>3
  <1>9. CASE Tick
    <2>1. \A c \in offended : closePending /\ offenceAge[c] = closeAge /\ closeAge < CloseBy
      BY <1>0 DEF SessionInv, TypeInv, OffenderIsServed, CloseIsExamined, CloseBy
    <2>2. ActiveIsOpen' /\ CallbacksOnActive'
      BY <1>9 DEF Tick, tcp, SessionInv, ActiveIsOpen, CallbacksOnActive
    <2>3. TypeInv'
      BY <1>0, <1>9 DEF Tick, tcp, SessionInv, TypeInv
    <2>4. CloseIsExamined'
      BY <1>0, <1>9 DEF Tick, SessionInv, TypeInv, CloseIsExamined
    <2>5. OffenderIsServed'
      BY <1>9, <2>1 DEF Tick, tcp, SessionInv, TypeInv, OffenderIsServed
    <2> QED BY <2>2, <2>3, <2>4, <2>5 DEF SessionInv
  <1>10. CASE UNCHANGED vars
    BY <1>10 DEF vars, tcp, soad, loop, history, SessionInv, TypeInv,
       ActiveIsOpen, CallbacksOnActive, CloseIsExamined, OffenderIsServed
  <1> QED
    BY <1>1, <1>2, <1>3, <1>4, <1>5, <1>6, <1>7, <1>8, <1>9, <1>10 DEF Next, Handle

\* SessionInv holds in every reachable state.
THEOREM SessionCorrect == Spec => []SessionInv
  BY InitSession, NextSession, PTL DEF Spec

-----------------------------------------------------------------------------
\* Types, and the bound of a pending close (SoAd_CloseRequestTime).
THEOREM TypeCorrect == Spec => []TypeOK
  <1>1. SessionInv => TypeOK
    BY CloseTimesAssumption
    DEF SessionInv, TypeInv, CloseIsExamined, TypeOK, CloseBy
  <1> QED BY <1>1, SessionCorrect, PTL

\* tcp_active_pcb is never stale.
THEOREM ActiveOpen == Spec => []ActiveIsOpen
  <1>1. SessionInv => ActiveIsOpen
    BY DEF SessionInv
  <1> QED BY <1>1, SessionCorrect, PTL

\* The deferred close reaches its offender in time.
THEOREM OffenderClosed == Spec => []OffenderIsClosed
  <1>1. SessionInv => OffenderIsClosed
    BY CloseTimesAssumption
    DEF SessionInv, TypeInv, CloseIsExamined, OffenderIsServed,
        OffenderIsClosed, CloseBy
  <1> QED BY <1>1, SessionCorrect, PTL

\* tcp_active_pcb is taken from no connection that goes on.
THEOREM ServedUntilEnd == Spec => ServedUntilItEnds
  <1>1. SessionInv /\ [Next]_vars
          => [active' # active /\ active # NoConn => conn'[active] # "established"]_vars
    <2> SUFFICES ASSUME SessionInv, Next, active' # active, active # NoConn
                 PROVE  conn'[active] # "established"
      OBVIOUS
    <2>0. active \in Conns /\ conn \in [Conns -> {"none", "established", "closing"}]
      BY DEF SessionInv, TypeInv
    <2>1. ASSUME NEW c \in Conns, Fin(c) \/ Reset(c)
          PROVE  conn'[active] # "established"
      BY <2>0, <2>1 DEF Fin, Reset, CloseConn, SessionInv, CallbacksOnActive
    <2>2. CASE MainFunction
      BY <2>0, <2>2 DEF MainFunction, CloseConn, tcp
    <2>3. ASSUME NEW c \in Conns, Accept(c)
          PROVE  FALSE
      BY <2>3 DEF Accept
    <2> QED
      BY <2>1, <2>2, <2>3
      DEF Next, Handle, Closed, ProcessRx, UdpCtrRx, EndPoll, Tick, tcp
  <1> QED BY <1>1, SessionCorrect, PTL DEF Spec, ServedUntilItEnds

\* Only the PC or the end of the served connection ends a diagnosis.
THEOREM DiagnosisEnds == Spec => DiagnosisEndsWithServed
  <1>1. SessionInv /\ [Next]_vars
          => [mode = "DIAG" /\ mode' # "DIAG" =>
                \/ active # NoConn /\ active' = NoConn
                \/ \E ignition \in BOOLEAN : UdpCtrRx(ignition)]_vars
    <2> SUFFICES ASSUME SessionInv, Next, mode = "DIAG", mode' # "DIAG"
                 PROVE  \/ active # NoConn /\ active' = NoConn
                        \/ \E ignition \in BOOLEAN : UdpCtrRx(ignition)
      OBVIOUS
    <2>1. ASSUME NEW c \in Conns, Fin(c)
          PROVE  active # NoConn /\ active' = NoConn
      <3>1. c \in recvCb /\ CloseConn(c)
        BY <2>1 DEF Fin
      <3> QED
        BY <3>1, NoConnAssumption DEF CloseConn, SessionInv, CallbacksOnActive
    <2>2. ASSUME NEW c \in Conns, NEW msg \in Messages, ProcessRx(c, msg)
          PROVE  FALSE
      BY <2>2 DEF ProcessRx, RoutingActivated
    <2> QED
      BY <2>1, <2>2 DEF Next, Handle, Accept, Reset, Closed, EndPoll,
         MainFunction, Tick
  <1> QED BY <1>1, SessionCorrect, PTL DEF Spec, DiagnosisEndsWithServed
=============================================================================
