------------------------------- MODULE PortSync -------------------------------
(***************************************************************************)
(* The port-sync loop (run_port_sync_cycle): it reads the port the VPN     *)
(* forwards and, when amuled's preference differs, writes the preference   *)
(* and restarts amuled, at most once in a window.                          *)
(*                                                                         *)
(* One step is one run of code between two awaits.  Time only matters for  *)
(* the window of the rate limit, which is counted from the reading of the  *)
(* clock that the decision to restart is made on.  What the loop remembers (the last        *)
(* restart, the alert) is lost with the process.                           *)
(***************************************************************************)
EXTENDS Naturals

CONSTANTS
  Port,       \* the ports gluetun may forward
  NoPort,     \* nothing is forwarded yet
  MaxMoves,   \* bound: how often the VPN renegotiates its port
  MaxFaults   \* bound: errors and crashes of a behaviour

ASSUME PortAssumption ==
  /\ NoPort \notin Port
  /\ MaxMoves \in Nat
  /\ MaxFaults \in Nat

VARIABLES
  live,    \* the port gluetun forwards
  pref,    \* the listen port in amuled's preferences
  bound,   \* the port amuled listens on
  ec,      \* whether the EC client holds a transport
  ppc,     \* where run_port_sync_cycle is
  goal,    \* the forwarded port this cycle has read
  soon,    \* too_soon: a recorded restart is less than a window ago
  alert,   \* EdgeState: is the port_mismatch alert raised
  recent,  \* history: the restarts of amuled decided on less than a window ago
  moves,   \* how often the VPN renegotiated
  faults   \* how many errors and crashes there have been

muleVars == <<pref, bound>>
worldVars == <<live, moves>>
portVars == <<muleVars, worldVars, ec, ppc, goal, soon, alert, recent, faults>>

PortTypeOK ==
  /\ live \in Port \cup {NoPort}
  /\ pref \in Port /\ bound \in Port
  /\ ec \in BOOLEAN
  /\ ppc \in {"read", "current", "set", "restart", "settle", "recheck", "status", "sleep"}
  /\ goal \in Port \cup {NoPort}
  /\ soon \in BOOLEAN /\ alert \in BOOLEAN
  /\ recent \in Nat
  /\ moves \in 0 .. MaxMoves
  /\ faults \in 0 .. MaxFaults

\* amuled listens on the port of its preferences; a refused connection at
\* start-up is tolerated.
PortInit ==
  /\ live \in Port \cup {NoPort}
  /\ pref \in Port /\ bound = pref
  /\ ec \in BOOLEAN
  /\ ppc = "read"
  /\ goal = NoPort
  /\ soon = FALSE
  /\ alert = FALSE
  /\ recent = 0
  /\ moves = 0
  /\ faults = 0

Fault == faults < MaxFaults /\ faults' = faults + 1

-----------------------------------------------------------------------------
(* The environment.                                                        *)

Renegotiate ==
  /\ moves < MaxMoves /\ moves' = moves + 1
  /\ live' \in (Port \cup {NoPort}) \ {live}
  /\ UNCHANGED <<muleVars, ec, ppc, goal, soon, alert, recent, faults>>

\* amuled restarts for a reason of its own.
MuleRestarts ==
  /\ bound' = pref
  /\ ec' = FALSE
  /\ Fault
  /\ UNCHANGED <<pref, worldVars, ppc, goal, soon, alert, recent>>

WindowEnds ==
  /\ soon \/ recent > 0
  /\ soon' = FALSE
  /\ recent' = 0
  /\ UNCHANGED <<muleVars, worldVars, ec, ppc, goal, alert, faults>>

\* The ID the ed2k server gives: high only if amuled can be reached.
MaybeHighID(high) == high => bound = live

-----------------------------------------------------------------------------
(* The cycle.                                                              *)

ReadPort ==
  /\ ppc = "read"
  /\ goal' = live
  /\ ppc' = IF live = NoPort THEN "sleep" ELSE "current"
  /\ UNCHANGED <<muleVars, worldVars, ec, soon, alert, recent, faults>>

\* The control server does not answer: as if nothing was forwarded.
PortUnreadable ==
  /\ ppc = "read"
  /\ goal' = NoPort
  /\ ppc' = "sleep"
  /\ Fault
  /\ UNCHANGED <<muleVars, worldVars, ec, soon, alert, recent>>

Aligned ==
  /\ ppc = "current" /\ ec /\ pref = goal
  /\ ppc' = "status"
  /\ UNCHANGED <<muleVars, worldVars, ec, goal, soon, alert, recent, faults>>

TooSoon ==
  /\ ppc = "current" /\ ec /\ pref # goal /\ soon
  /\ ppc' = "sleep"
  /\ UNCHANGED <<muleVars, worldVars, ec, goal, soon, alert, recent, faults>>

Diverges ==
  /\ ppc = "current" /\ ec /\ pref # goal /\ ~soon
  /\ ppc' = "set"
  /\ UNCHANGED <<muleVars, worldVars, ec, goal, soon, alert, recent, faults>>

\* set_listen_port writes the preference; amuled does not listen on it yet.
SetPort ==
  /\ ppc = "set" /\ ec
  /\ pref' = goal
  /\ ppc' = "restart"
  /\ UNCHANGED <<bound, worldVars, ec, goal, soon, alert, recent, faults>>

\* Mutation: the restart is not recorded.
RestartUnrecorded ==
  /\ ppc = "restart"
  /\ bound' = pref
  /\ ec' \in BOOLEAN
  /\ recent' = recent + 1
  /\ ppc' = "settle"
  /\ UNCHANGED <<pref, worldVars, goal, soon, alert, faults>>

\* A restart ends the process that holds the other end of the connection.
Restart ==
  /\ ppc = "restart"
  /\ bound' = pref
  /\ ec' \in BOOLEAN
  /\ recent' = recent + 1
  /\ soon' = TRUE
  /\ ppc' = "settle"
  /\ UNCHANGED <<pref, worldVars, goal, alert, faults>>

\* RestarterError: refused, or done without an answer.
RestartFails ==
  /\ ppc = "restart"
  /\ \/ UNCHANGED <<bound, ec, recent>>
     \/ bound' = pref /\ ec' \in BOOLEAN /\ recent' = recent + 1
  /\ alert' = TRUE
  /\ ppc' = "sleep"
  /\ Fault
  /\ UNCHANGED <<pref, worldVars, goal, soon>>

Settle ==
  /\ ppc = "settle"
  /\ ppc' = "recheck"
  /\ UNCHANGED <<muleVars, worldVars, ec, goal, soon, alert, recent, faults>>

\* After a restart: the alert follows the ID.
Recheck ==
  /\ ppc = "recheck" /\ ec
  /\ \E high \in BOOLEAN : MaybeHighID(high) /\ alert' = ~high
  /\ ppc' = "read"
  /\ UNCHANGED <<muleVars, worldVars, ec, goal, soon, recent, faults>>

\* Mutation: an aligned preference is taken for a port in use.
StatusTrusting ==
  /\ ppc = "status" /\ ec
  /\ alert' = FALSE
  /\ ppc' = "sleep"
  /\ UNCHANGED <<muleVars, worldVars, ec, goal, soon, recent, faults>>

\* With an aligned preference, only a high ID ends the alert.
Status ==
  /\ ppc = "status" /\ ec
  /\ \E high \in BOOLEAN : MaybeHighID(high) /\ alert' = (alert /\ ~high)
  /\ ppc' = "sleep"
  /\ UNCHANGED <<muleVars, worldVars, ec, goal, soon, recent, faults>>

Requesting == ppc \in {"current", "set", "recheck", "status"}

\* Without a transport every request fails, and no code of the loop connects.
NotConnected ==
  /\ Requesting /\ ~ec
  /\ ppc' = "sleep"
  /\ UNCHANGED <<muleVars, worldVars, ec, goal, soon, alert, recent, faults>>

\* A request fails; if it was to write the preference, it may have done so.
EcFails ==
  /\ Requesting /\ ec
  /\ pref' \in {pref} \cup (IF ppc = "set" THEN {goal} ELSE {})
  /\ ec' \in BOOLEAN
  /\ ppc' = "sleep"
  /\ Fault
  /\ UNCHANGED <<bound, worldVars, goal, soon, alert, recent>>

WakeUp ==
  /\ ppc = "sleep"
  /\ ppc' = "read"
  /\ UNCHANGED <<muleVars, worldVars, ec, goal, soon, alert, recent, faults>>

\* The process ends and starts again.
Crash ==
  /\ ppc' = "read"
  /\ goal' = NoPort
  /\ ec' \in BOOLEAN
  /\ soon' = FALSE
  /\ alert' = FALSE
  /\ Fault
  /\ UNCHANGED <<muleVars, worldVars, recent>>

-----------------------------------------------------------------------------
PortStep ==
  \/ ReadPort \/ PortUnreadable \/ Aligned \/ TooSoon \/ Diverges \/ SetPort
  \/ Restart \/ RestartFails \/ Settle \/ Recheck \/ Status
  \/ NotConnected \/ EcFails \/ WakeUp

PortNext == PortStep \/ Renegotiate \/ MuleRestarts \/ WindowEnds \/ Crash

\* The loop keeps running and time passes; nothing is asked of the VPN.
PortSpec == PortInit /\ [][PortNext]_portVars
PortFairSpec == PortSpec /\ WF_portVars(PortStep) /\ WF_portVars(WindowEnds)
-----------------------------------------------------------------------------
(* Properties                                                              *)

\* At most one restart of amuled is decided on in a window, but for errors: a restart
\* whose answer was lost is not recorded, and a new process does not know of the
\* old one's.
RestartsPaid == recent <= 1 + faults

\* The loop is past its decision to write the preference, and not yet done.
Busy == ppc \in {"restart", "settle", "recheck"}

\* The loop takes amuled's preference for the port it listens on.  That is right
\* between its restarts: it takes an error to part the two.
MismatchPaid == bound # pref /\ ~Busy => faults > 0

\* The alert of a restart that failed outlives the preference that was written: but
\* for the end of the process, it ends only when amuled listens on the forwarded
\* port.
AlertUntilReachable == [][alert /\ ~alert' /\ ~Crash => bound = live]_portVars

\* "UN seul algorithme couvre" the boot and a renegotiation (port_sync_loop.py:3-6):
\* once connected, the preference follows the forwarded port, at least as long as
\* nothing fails.
RenegotiationFollowed ==
  ec => \A p \in Port : live = p /\ pref # p ~> pref = p \/ live # p
=============================================================================
