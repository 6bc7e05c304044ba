---------------------------- MODULE DoipSession -----------------------------
(***************************************************************************)
(* The DoIP server of the MAIN gateway: tcp_txrx.c (the one connection),   *)
(* soad.c (the deferred close), doip.c (what a message leads to) and the   *)
(* two mode callbacks of swc.c.                                            *)
(*                                                                         *)
(* lwIP runs without threads: its polls in the main loop call the          *)
(* callbacks, so each handler is one action, and SoAd_MainFunction ends    *)
(* every turn of the loop.  Of lwIP the model keeps what the server relies *)
(* on: the state of each connection and the callbacks registered on it.    *)
(*                                                                         *)
(* A message is its kind, as far as DoIP_ProcessRx tells kinds apart.  The *)
(* answers that are written back, and the requests handed to the ECUs,     *)
(* change none of this state and are left out.                             *)
(***************************************************************************)
EXTENDS Naturals

CONSTANTS
  Conns,    \* TCP connections to port 13400, one after another or at once
  NoConn,   \* the NULL of tcp_active_pcb
  CloseMs,  \* the delay of SoAd_MainFunction (50)
  TurnMs    \* bound: the milliseconds one turn of the main loop may take

ASSUME NoConnAssumption == NoConn \notin Conns

ASSUME CloseTimesAssumption == CloseMs \in Nat \ {0} /\ TurnMs \in Nat \ {0}

Modes == {"DEFAULT", "REMOTE", "DIAG"}

\* Messages after which DoIP_ProcessRx asks for the socket to be closed: a
\* length that is not the segment's, a source address not the tester's.
Offences == {"BAD_LENGTH", "DIAG_BAD_SA", "ACTIVATE_BAD_SA"}

\* Messages that are answered or dropped: too short, of an unknown type, a
\* diagnostic request (to a known ECU or to none).
Harmless == {"SHORT", "UNKNOWN_TYPE", "DIAG"}

Messages == Offences \cup Harmless \cup {"ACTIVATE"}

\* When a close that was asked for has been carried out.
CloseBy == CloseMs + TurnMs

VARIABLES
  conn,          \* the state of each connection in lwIP
  recvCb,        \* connections whose recv callback is tcp_server_recv
  errCb,         \* connections whose err callback is tcp_server_error
  active,        \* tcp_active_pcb
  closePending,  \* SoAd_IsClosePending
  closeAge,      \* time - SoAd_CloseRequestTime while a close is pending
  mode,          \* COM_Cur_Mode
  pc,            \* the main loop is polling, or past its polls
  turnTime,      \* the milliseconds this turn has taken
  offended,      \* history: open connections that asked for their close
  offenceAge     \* history: the time since each did so last

tcp     == <<conn, recvCb, errCb, active>>
soad    == <<closePending, closeAge>>
loop    == <<pc, turnTime>>
history == <<offended, offenceAge>>
vars    == <<tcp, soad, mode, loop, history>>

Polling == pc = "poll" /\ UNCHANGED loop

-----------------------------------------------------------------------------
(* swc.c, called by the server, and the PC's part in the mode.             *)

RoutingActivated == mode' = IF mode = "REMOTE" THEN "DIAG" ELSE mode

RoutingDeactivated == mode' = IF mode = "DIAG" THEN "REMOTE" ELSE mode

\* UDP_Ctr_ProcessRx: the ignition byte of a control datagram.
UdpCtrRx(ignition) ==
  /\ Polling
  /\ mode' = IF ignition THEN "REMOTE" ELSE "DEFAULT"
  /\ UNCHANGED <<tcp, soad, history>>

-----------------------------------------------------------------------------
(* tcp_txrx.c.                                                             *)

Forget(c) ==
  /\ offended' = offended \ {c}
  /\ offenceAge' = [offenceAge EXCEPT ![c] = 0]

\* A plausible slip: the callbacks are registered before active is looked at.
AcceptHooksRefused(c) ==
  /\ Polling
  /\ conn[c] = "none"
  /\ conn' = [conn EXCEPT ![c] = "established"]
  /\ recvCb' = recvCb \cup {c}
  /\ errCb' = errCb \cup {c}
  /\ active' = IF active = NoConn THEN c ELSE active
  /\ UNCHANGED <<soad, mode, history>>

\* tcp_server_accept.  ERR_ABRT tells lwIP that the callback has aborted the
\* connection already; it has not, and lwIP leaves the connection open.
Accept(c) ==
  /\ Polling
  /\ conn[c] = "none"
  /\ conn' = [conn EXCEPT ![c] = "established"]
  /\ IF active = NoConn
     THEN active' = c /\ recvCb' = recvCb \cup {c} /\ errCb' = errCb \cup {c}
     ELSE UNCHANGED <<active, recvCb, errCb>>
  /\ UNCHANGED <<soad, mode, history>>

\* A plausible slip: the err callback stays registered.
CloseConnKeepsErr(c) ==
  /\ conn' = [conn EXCEPT ![c] = "closing"]
  /\ recvCb' = recvCb \ {c}
  /\ UNCHANGED errCb
  /\ active' = IF active = c THEN NoConn ELSE active
  /\ Forget(c)

\* tcp_server_close: the connection stays with lwIP until the peer agrees.
CloseConn(c) ==
  /\ conn' = [conn EXCEPT ![c] = "closing"]
  /\ recvCb' = recvCb \ {c}
  /\ errCb' = errCb \ {c}
  /\ active' = IF active = c THEN NoConn ELSE active
  /\ Forget(c)

\* The peer closes: tcp_server_recv without data, or lwIP's default callback,
\* which only closes the connection.
Fin(c) ==
  /\ Polling
  /\ conn[c] = "established"
  /\ IF c \in recvCb
     THEN CloseConn(c) /\ RoutingDeactivated
     ELSE /\ conn' = [conn EXCEPT ![c] = "closing"]
          /\ UNCHANGED <<recvCb, errCb, active, mode, history>>
  /\ UNCHANGED soad

\* A plausible slip: the pointer to the freed connection is kept.
ResetKeepsActive(c) ==
  /\ Polling
  /\ conn[c] # "none"
  /\ conn' = [conn EXCEPT ![c] = "none"]
  /\ recvCb' = recvCb \ {c}
  /\ errCb' = errCb \ {c}
  /\ Forget(c)
  /\ UNCHANGED <<active, soad, mode>>

\* The peer resets the connection or lwIP gives it up: tcp_server_error where
\* it is registered; the connection and its callbacks are gone.
Reset(c) ==
  /\ Polling
  /\ conn[c] # "none"
  /\ conn' = [conn EXCEPT ![c] = "none"]
  /\ active' = IF c \in errCb THEN NoConn ELSE active
  /\ recvCb' = recvCb \ {c}
  /\ errCb' = errCb \ {c}
  /\ Forget(c)
  /\ UNCHANGED <<soad, mode>>

\* The peer has agreed to a close: lwIP frees the connection silently.
Closed(c) ==
  /\ Polling
  /\ conn[c] = "closing"
  /\ conn' = [conn EXCEPT ![c] = "none"]
  /\ recvCb' = recvCb \ {c}
  /\ errCb' = errCb \ {c}
  /\ UNCHANGED <<active, soad, mode, history>>

-----------------------------------------------------------------------------
(* doip.c and soad.c.                                                      *)

\* SoAd_CloseSocket: the delay begins anew.
CloseSocket(c) ==
  /\ closePending' = TRUE
  /\ closeAge' = 0
  /\ offended' = offended \cup {c}
  /\ offenceAge' = [offenceAge EXCEPT ![c] = 0]

\* tcp_server_recv with data, SoAd_RxIndication and DoIP_ProcessRx.  What a
\* refused connection sends is discarded by lwIP: a stutter.
ProcessRx(c, msg) ==
  /\ Polling
  /\ conn[c] = "established"
  /\ c \in recvCb
  /\ \/ msg \in Offences /\ CloseSocket(c) /\ UNCHANGED mode
     \/ msg = "ACTIVATE" /\ RoutingActivated /\ UNCHANGED <<soad, history>>
     \/ msg \in Harmless /\ UNCHANGED <<soad, mode, history>>
  /\ UNCHANGED tcp

\* The polls have handed over what had arrived; COM_TimeOut,
\* COM_Tx_MainFunction and Sd_MainFunction follow.
EndPoll ==
  /\ pc = "poll"
  /\ pc' = "soad"
  /\ UNCHANGED <<tcp, soad, mode, turnTime, history>>

\* A plausible slip: an off-by-one in the comparison.
MainFunctionTooLate ==
  /\ pc = "soad"
  /\ IF closePending /\ closeAge > CloseMs
     THEN /\ IF active = NoConn THEN UNCHANGED <<tcp, history>>
                                ELSE CloseConn(active)
          /\ closePending' = FALSE
          /\ closeAge' = 0
     ELSE UNCHANGED <<tcp, soad, history>>
  /\ pc' = "poll"
  /\ turnTime' = 0
  /\ UNCHANGED mode

\* SoAd_MainFunction and doip_server_close: whichever connection is active
\* now is closed; lwIP ignores a close of NULL.
MainFunction ==
  /\ pc = "soad"
  /\ IF closePending /\ closeAge >= CloseMs
     THEN /\ IF active = NoConn THEN UNCHANGED <<tcp, history>>
                                ELSE CloseConn(active)
          /\ closePending' = FALSE
          /\ closeAge' = 0
     ELSE UNCHANGED <<tcp, soad, history>>
  /\ pc' = "poll"
  /\ turnTime' = 0
  /\ UNCHANGED mode

\* The millisecond counter advances.  Without a pending close nothing reads
\* the time of the request.
Tick ==
  /\ turnTime < TurnMs
  /\ turnTime' = turnTime + 1
  /\ closeAge' = IF closePending THEN closeAge + 1 ELSE closeAge
  /\ offenceAge' = [c \in Conns |->
                      IF c \in offended /\ offenceAge[c] < CloseBy
                      THEN offenceAge[c] + 1 ELSE offenceAge[c]]
  /\ UNCHANGED <<tcp, closePending, mode, pc, offended>>

-----------------------------------------------------------------------------
Init ==
  /\ conn = [c \in Conns |-> "none"]
  /\ recvCb = {}
  /\ errCb = {}
  /\ active = NoConn
  /\ closePending = FALSE
  /\ closeAge = 0
  /\ mode = "DEFAULT"
  /\ pc = "poll"
  /\ turnTime = 0
  /\ offended = {}
  /\ offenceAge = [c \in Conns |-> 0]

Handle ==
  \/ \E c \in Conns : \/ Accept(c) \/ Fin(c) \/ Reset(c) \/ Closed(c)
                      \/ \E msg \in Messages : ProcessRx(c, msg)
  \/ \E ignition \in BOOLEAN : UdpCtrRx(ignition)

Next == Handle \/ EndPoll \/ MainFunction \/ Tick

Spec == Init /\ [][Next]_vars

-----------------------------------------------------------------------------
(* Properties.                                                             *)

\* Type invariant; a pending close is younger than CloseBy.
TypeOK ==
  /\ conn \in [Conns -> {"none", "established", "closing"}]
  /\ recvCb \in SUBSET Conns
  /\ errCb \in SUBSET Conns
  /\ active \in Conns \cup {NoConn}
  /\ closePending \in BOOLEAN
  /\ closeAge \in 0..CloseBy - 1
  /\ mode \in Modes
  /\ pc \in {"poll", "soad"}
  /\ turnTime \in 0..TurnMs
  /\ offended \in SUBSET Conns
  /\ offenceAge \in [Conns -> 0..CloseBy]

\* tcp_active_pcb never points to a connection that lwIP has freed or that the
\* server has closed, whatever resets, closes and refused connections come in
\* between (TcpSend and doip_server_close use it unchecked).
ActiveIsOpen == active # NoConn => conn[active] = "established"

\* The server turns away from the connection it serves only when that
\* connection ends: neither a refused client nor a late reset of a connection
\* closed before can take tcp_active_pcb from it (tcp_server_error clears it
\* without looking at whose error it is).
ServedUntilItEnds ==
  [][active' # active /\ active # NoConn => conn'[active] # "established"]_vars

\* No connection outlives its last offence by CloseBy, although the close is
\* asked for and carried out in different turns and by a flag that all
\* connections share (SoAd_CloseSocket, SoAd_MainFunction).
OffenderIsClosed == \A c \in offended : offenceAge[c] < CloseBy

\* The diagnosis ends by a control datagram of the PC or with the connection
\* that is served, never by a client that was refused.
DiagnosisEndsWithServed ==
  [][mode = "DIAG" /\ mode' # "DIAG" =>
       \/ active # NoConn /\ active' = NoConn
       \/ \E ignition \in BOOLEAN : UdpCtrRx(ignition)]_vars

\* doip.c: the socket that is closed by force is the one whose message failed
\* the check.
CloseHitsOffender ==
  [][\A c \in Conns :
       MainFunction /\ conn[c] = "established" /\ conn'[c] = "closing"
         => c \in offended]_vars
=============================================================================
