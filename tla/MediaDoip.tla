----------------------------- MODULE MediaDoip ------------------------------
(***************************************************************************)
(* The diagnostics of the MEDIA computer about itself: the DoIP sessions   *)
(* (tcp_handler.py), the one UDS service that changes state (clear, 0x14,  *)
(* uds_server.py), the DTC table (dtc_store.py) and the thread that checks *)
(* the components (health_monitor.py).                                     *)
(*                                                                         *)
(* The sessions are coroutines of one event loop and change hands at an    *)
(* await only; a request is handled after the await of its acknowledgement.*)
(* The monitor is a thread: it finds out how a component is, updates the   *)
(* status that ReadDataByIdentifier shows, and then sets or clears the DTC,*)
(* one component after another.  The table outlives the process.           *)
(*                                                                         *)
(* Left out: requests that are refused or only read, the UDP discovery,    *)
(* the time stamps and the occurrence counter of a row.                    *)
(***************************************************************************)
EXTENDS Naturals, FiniteSets

CONSTANTS
  Conns,        \* the TCP connections there may be at a time
  Testers,      \* allowed_source_addresses
  MaxSessions,  \* max_tcp_sessions (8)
  NumCodes,     \* the components _run_checks goes through (7)
  BootOk,       \* those that SystemStatus says are well before a check (eth0)
  MaxFailures,  \* bound: the times the table cannot be written
  MaxRestarts   \* bound: the restarts of the process

Codes    == 1 .. NumCodes
NoTester == "none"
Rows     == {"none", "ACTIVE", "STORED"}

ASSUME TestersAssumption == NoTester \notin Testers

ASSUME CodesAssumption == NumCodes \in Nat \ {0} /\ BootOk \subseteq Codes

ASSUME BoundsAssumption ==
  /\ MaxSessions \in Nat \ {0}
  /\ MaxFailures \in Nat
  /\ MaxRestarts \in Nat

VARIABLES
  sessions,   \* server.sessions: the connections that have one
  client,     \* client_sa of an activated session
  clearing,   \* sessions that acknowledged a clear and await
  gone,       \* connections whose peer cannot be reached any more
  unacked,    \* connections with data that a peer that is gone will not take
  well,       \* how a component really is
  status,     \* SystemStatus: how the last check found it
  row,        \* its row in the table
  at,         \* the component the monitor is at; 0 while it waits
  found,      \* what it found, between the status and the table
  settled,    \* history: the table holds what the last check found
  failures,   \* bounded by MaxFailures
  restarts    \* bounded by MaxRestarts

sessionVars == <<sessions, client, clearing, gone, unacked>>
monitorVars == <<status, at, found, settled>>

vars == <<sessionVars, monitorVars, well, row, failures, restarts>>

Results == {"none", "ok", "bad"}

TypeOK ==
  /\ sessions \subseteq Conns
  /\ client \in [Conns -> Testers \cup {NoTester}]
  /\ clearing \subseteq sessions
  /\ gone \subseteq sessions
  /\ unacked \subseteq gone
  /\ well \in [Codes -> BOOLEAN]
  /\ status \in [Codes -> BOOLEAN]
  /\ row \in [Codes -> Rows]
  /\ at \in 0 .. NumCodes
  /\ found \in Results
  /\ settled \subseteq Codes
  /\ failures \in 0 .. MaxFailures
  /\ restarts \in 0 .. MaxRestarts

BootStatus == [k \in Codes |-> k \in BootOk]

Init ==
  /\ sessions = {}
  /\ client = [c \in Conns |-> NoTester]
  /\ clearing = {}
  /\ gone = {}
  /\ unacked = {}
  /\ well = [k \in Codes |-> TRUE]
  /\ status = BootStatus
  /\ row = [k \in Codes |-> "none"]
  /\ at = 1
  /\ found = "none"
  /\ settled = {}
  /\ failures = 0
  /\ restarts = 0

-----------------------------------------------------------------------------
(* The sessions.                                                           *)

Activated(c) == client[c] # NoTester

\* What the server sends to a peer that is gone stays unacknowledged.
Sent(c) == unacked' = IF c \in gone THEN unacked \cup {c} ELSE unacked

OnClient(c) ==
  /\ c \notin sessions
  /\ Cardinality(sessions) < MaxSessions
  /\ sessions' = sessions \cup {c}
  /\ UNCHANGED <<client, clearing, gone, unacked, monitorVars, well, row,
                 failures, restarts>>

AlreadyActive(c, sa) == \E d \in sessions \ {c} : client[d] = sa

RoutingActivation(c, sa) ==
  /\ c \in sessions \ clearing
  /\ ~AlreadyActive(c, sa)
  /\ client' = [client EXCEPT ![c] = sa]
  /\ Sent(c)
  /\ UNCHANGED <<sessions, clearing, gone, monitorVars, well, row, failures,
                 restarts>>

\* A clear request with the right addresses: the acknowledgement goes out.
Acknowledge(c) ==
  /\ c \in sessions \ clearing
  /\ Activated(c)
  /\ clearing' = clearing \cup {c}
  /\ Sent(c)
  /\ UNCHANGED <<sessions, client, gone, monitorVars, well, row, failures,
                 restarts>>

\* The await is over: handle() and its answer.
ClearDtc(c) ==
  /\ c \in clearing
  /\ clearing' = clearing \ {c}
  /\ row' = [k \in Codes |-> "none"]
  /\ settled' = {}
  /\ Sent(c)
  /\ UNCHANGED <<sessions, client, gone, status, at, found, well, failures,
                 restarts>>

\* Variant: only an activated session is asked whether it is alive.
AliveCheckActivated(c) ==
  /\ c \in sessions
  /\ Activated(c)
  /\ Sent(c)
  /\ UNCHANGED <<sessions, client, clearing, gone, monitorVars, well, row,
                 failures, restarts>>

\* _alive_check_loop, every 35 seconds; the answer is not waited for.
AliveCheck(c) ==
  /\ c \in sessions
  /\ Sent(c)
  /\ UNCHANGED <<sessions, client, clearing, gone, monitorVars, well, row,
                 failures, restarts>>

Cleanup(c) ==
  /\ sessions' = sessions \ {c}
  /\ client' = [client EXCEPT ![c] = NoTester]
  /\ clearing' = clearing \ {c}
  /\ gone' = gone \ {c}
  /\ unacked' = unacked \ {c}
  /\ UNCHANGED <<monitorVars, well, row, failures, restarts>>

\* The peer ends the connection: the read that is or will be awaited ends.
PeerCloses(c) == c \in (sessions \ gone) \ clearing /\ Cleanup(c)

\* TCP gives up on the unacknowledged data: the read raises.
TcpGivesUp(c) == c \in unacked /\ Cleanup(c)

\* The host of the peer is switched off or unplugged.
PeerGoes(c) ==
  /\ c \in sessions \ gone
  /\ gone' = gone \cup {c}
  /\ UNCHANGED <<sessions, client, clearing, unacked, monitorVars, well, row,
                 failures, restarts>>

-----------------------------------------------------------------------------
(* The health monitor.                                                     *)

Break(k)  == well[k]  /\ well' = [well EXCEPT ![k] = FALSE]
Repair(k) == ~well[k] /\ well' = [well EXCEPT ![k] = TRUE]

Component(k) ==
  /\ Break(k) \/ Repair(k)
  /\ UNCHANGED <<sessionVars, monitorVars, row, failures, restarts>>

\* A _check function up to its status.update.
Check ==
  /\ at \in Codes
  /\ found = "none"
  /\ found' = IF well[at] THEN "ok" ELSE "bad"
  /\ status' = [status EXCEPT ![at] = well[at]]
  /\ settled' = settled \ {at}
  /\ UNCHANGED <<sessionVars, well, row, at, failures, restarts>>

\* Variant: a row that is there already is left as it is.
SetActiveOnce(r) == IF r = "none" THEN "ACTIVE" ELSE r

SetActive(r)   == "ACTIVE"
ClearActive(r) == IF r = "ACTIVE" THEN "STORED" ELSE r

NextCheck == IF at < NumCodes THEN at + 1 ELSE 0

SetOrClear ==
  /\ found # "none"
  /\ row' = [row EXCEPT ![at] = IF found = "ok" THEN ClearActive(@)
                                ELSE SetActive(@)]
  /\ settled' = settled \cup {at}
  /\ found' = "none"
  /\ at' = NextCheck
  /\ UNCHANGED <<sessionVars, status, well, failures, restarts>>

\* Variant: the exception ends the thread.
StoreFailsForGood ==
  /\ found # "none"
  /\ failures < MaxFailures
  /\ failures' = failures + 1
  /\ found' = "none"
  /\ at' = NumCodes + 1
  /\ UNCHANGED <<sessionVars, status, settled, well, row, restarts>>

\* The table is locked or the disk is full: _loop logs the exception, and
\* the components after this one are not checked in this round.
StoreFails ==
  /\ found # "none"
  /\ failures < MaxFailures
  /\ failures' = failures + 1
  /\ found' = "none"
  /\ at' = 0
  /\ UNCHANGED <<sessionVars, status, settled, well, row, restarts>>

\* The interval is over.
NextRound ==
  /\ at = 0
  /\ found = "none"
  /\ at' = 1
  /\ UNCHANGED <<sessionVars, status, found, settled, well, row, failures,
                 restarts>>

\* The process is killed and started again.
Restart ==
  /\ restarts < MaxRestarts
  /\ restarts' = restarts + 1
  /\ sessions' = {}
  /\ client' = [c \in Conns |-> NoTester]
  /\ clearing' = {}
  /\ gone' = {}
  /\ unacked' = {}
  /\ status' = BootStatus
  /\ at' = 1
  /\ found' = "none"
  /\ settled' = {}
  /\ UNCHANGED <<well, row, failures>>

-----------------------------------------------------------------------------

SessionStep(c) ==
  \/ OnClient(c)
  \/ \E sa \in Testers : RoutingActivation(c, sa)
  \/ Acknowledge(c)
  \/ ClearDtc(c)
  \/ AliveCheck(c)
  \/ PeerCloses(c) \/ TcpGivesUp(c) \/ PeerGoes(c)

MonitorStep == Check \/ SetOrClear \/ StoreFails \/ NextRound

Next ==
  \/ \E c \in Conns : SessionStep(c)
  \/ \E k \in Codes : Component(k)
  \/ MonitorStep
  \/ Restart

\* The event loop and the thread run, TCP does not retransmit for ever; no
\* peer has to do anything.
Fairness ==
  /\ WF_vars(MonitorStep)
  /\ \A c \in Conns :
       /\ WF_vars(ClearDtc(c))
       /\ WF_vars(AliveCheck(c))
       /\ WF_vars(TcpGivesUp(c))

Spec == Init /\ [][Next]_vars /\ Fairness

-----------------------------------------------------------------------------

\* The session of a tester that cannot be reached is dropped, whatever it was
\* at: its address and its place among the sessions are free again.
GoneTesterIsForgotten == \A c \in Conns : c \in gone ~> c \notin sessions

\* What ReadDataByIdentifier and ReadDTCInformation say of a component agrees,
\* except while the monitor is between the two, after a clear, after a
\* restart and after a write that failed, until the next check.
DidAgreesWithDtc ==
  \A k \in settled : (row[k] = "ACTIVE") <=> ~status[k]

\* A fault that stays is reported again and again, also after each clear; one
\* that is gone for good is not, whatever the table held.  Writes fail only
\* so many times.
ReportSettles ==
  \A k \in Codes :
    /\ <>[]~well[k] => []<>(row[k] = "ACTIVE")
    /\ <>[]well[k] => <>[](row[k] # "ACTIVE")
=============================================================================
