------------------------------ MODULE Heartbeat ------------------------------
(***************************************************************************)
(* heartbeat_node.py on one host: the peers heard of, and the list it logs. *)
(* A beat may be lost, late or the last one before its sender dies.         *)
(***************************************************************************)
EXTENDS Naturals

CONSTANTS
  Peers,       \* the other hosts
  PeerTimeout, \* PEER_TIMEOUT_S, in clock ticks
  ReportEvery  \* REPORT_PERIOD_S

ASSUME HeartbeatAssumption == PeerTimeout \in Nat /\ ReportEvery \in Nat \ {0}

VARIABLES
  alive,     \* peers whose node runs
  peers,     \* DOMAIN self.peers
  since,     \* ticks since each peer was last heard of, up to PeerTimeout + 1
  timer,     \* ticks to the next report
  reported   \* self.last_reported

hbVars == <<alive, peers, since, timer, reported>>

HbInit ==
  /\ alive = {}
  /\ peers = {}
  /\ since = [p \in Peers |-> PeerTimeout + 1]
  /\ timer = ReportEvery
  /\ reported = {}

StartsOrDies(p) ==
  /\ alive' = IF p \in alive THEN alive \ {p} ELSE alive \cup {p}
  /\ UNCHANGED <<peers, since, timer, reported>>

(* _on_heartbeat *)
OnHeartbeat(p) ==
  /\ p \in alive
  /\ peers' = peers \cup {p}
  /\ since' = [since EXCEPT ![p] = 0]
  /\ UNCHANGED <<alive, timer, reported>>

Fresh == {p \in peers : since[p] <= PeerTimeout}

(* Mutant of Report: only a list with somebody new in it is logged.         *)
ReportGrowing ==
  /\ timer = 0
  /\ peers' = Fresh
  /\ reported' = IF Fresh \subseteq reported THEN reported ELSE Fresh
  /\ timer' = ReportEvery
  /\ UNCHANGED <<alive, since>>

(* _report: drop the expired peers, log the list if it changed. *)
Report ==
  /\ timer = 0
  /\ peers' = Fresh
  /\ reported' = IF Fresh = reported THEN reported ELSE Fresh
  /\ timer' = ReportEvery
  /\ UNCHANGED <<alive, since>>

(* A tick.  A peer that is up and has been heard of is heard of again within *)
(* the timeout: it beats ten times in it, and not all ten are lost.         *)
Clock ==
  /\ timer > 0
  /\ \A p \in alive \cap peers : since[p] < PeerTimeout
  /\ since' = [p \in Peers |-> IF since[p] > PeerTimeout THEN since[p] ELSE since[p] + 1]
  /\ timer' = timer - 1
  /\ UNCHANGED <<alive, peers, reported>>

HbNext == Clock \/ Report \/ \E p \in Peers : StartsOrDies(p) \/ OnHeartbeat(p)

-----------------------------------------------------------------------------
HbTypeOK ==
  /\ {alive, peers, reported} \subseteq SUBSET Peers
  /\ since \in [Peers -> 0..(PeerTimeout + 1)]
  /\ timer \in 0..ReportEvery

(* A dead peer leaves the list and a live one joins it and stays: beats,    *)
(* expiry and reports run on three periods that are not aligned.            *)
ListFollowsPeers ==
  \A p \in Peers :
    /\ <>[](p \notin alive) => <>[](p \notin reported)
    /\ <>[](p \in alive) => <>[](p \in reported)
=============================================================================
