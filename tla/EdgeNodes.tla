------------------------------ MODULE EdgeNodes ------------------------------
(***************************************************************************)
(* The small programs around the drives: at the edge of the fleet, on the   *)
(* camera hosts and on the control machine.  They share no state, so their  *)
(* interleavings say nothing: `subject' picks, for a whole behaviour, the   *)
(* one that moves.                                                          *)
(***************************************************************************)
EXTENDS JoyIndex, PadTeleop, JointTeleop, Heartbeat, CameraHost, CameraPortal,
        FleetDeploy

VARIABLE subject

cellVars == <<jiVars, ptVars, jtVars, hbVars>>
siteVars == <<chVars, cpVars, fdVars>>
vars == <<subject, cellVars, siteVars>>

Init ==
  /\ subject \in {"index", "twist", "joints", "beat", "cameras", "portal", "deploy"}
  /\ JiInit /\ PtInit /\ JtInit /\ HbInit
  /\ ChInit /\ (subject # "cameras" => feed = "ok" /\ web = "absent")
  /\ CpInit /\ FdInit

IndexNext ==
  /\ subject = "index"
  /\ JiNext
  /\ UNCHANGED <<subject, ptVars, jtVars, hbVars, siteVars>>

TwistNext ==
  /\ subject = "twist"
  /\ PtNext
  /\ UNCHANGED <<subject, jiVars, jtVars, hbVars, siteVars>>

JointsNext ==
  /\ subject = "joints"
  /\ JtNext
  /\ UNCHANGED <<subject, jiVars, ptVars, hbVars, siteVars>>

BeatNext ==
  /\ subject = "beat"
  /\ HbNext
  /\ UNCHANGED <<subject, jiVars, ptVars, jtVars, siteVars>>

CamerasNext ==
  /\ subject = "cameras"
  /\ ChNext
  /\ UNCHANGED <<subject, cellVars, cpVars, fdVars>>

PortalNext ==
  /\ subject = "portal"
  /\ CpNext
  /\ UNCHANGED <<subject, cellVars, chVars, fdVars>>

DeployNext ==
  /\ subject = "deploy"
  /\ FdNext
  /\ UNCHANGED <<subject, cellVars, chVars, cpVars>>

Next ==
  \/ IndexNext \/ TwistNext \/ JointsNext \/ BeatNext
  \/ CamerasNext \/ PortalNext \/ DeployNext

(* A script that is not waiting runs on, and the lock is granted to a       *)
(* waiter that keeps asking; pads that are there repeat themselves; every   *)
(* callback and timer is served; beats arrive and time goes on, whatever    *)
(* peers come and go; systemd starts services again, its timer fires, and   *)
(* every probe ends; the page's timers fire, MAX_WAIT_MS included.          *)
Fairness ==
  /\ \A d \in Devs :
       /\ SF_jiVars(subject = "index" /\ Flock(d))
       /\ WF_jiVars(subject = "index" /\ (Script(d) \/ UnitStops(d)))
  /\ WF_ptVars(subject = "twist" /\ Drive)
  /\ \A t \in Teleops :
       /\ WF_ptVars(subject = "twist" /\ Joy(t))
       /\ SF_ptVars(subject = "twist" /\ OnJoy(t))
  /\ WF_jtVars(subject = "joints" /\ OnJoyState)
  /\ WF_jtVars(subject = "joints" /\ Tick)
  /\ SF_hbVars(subject = "beat" /\ Clock)
  /\ WF_hbVars(subject = "beat" /\ Report)
  /\ \A p \in Peers : WF_hbVars(subject = "beat" /\ OnHeartbeat(p))
  /\ WF_chVars(subject = "cameras" /\ Systemd)
  /\ WF_chVars(subject = "cameras" /\ Watchdog)
  /\ \A t \in Tiles : WF_cpVars(subject = "portal" /\ Refresh(t))

Spec == Init /\ [][Next]_vars /\ Fairness

(* The types of the state of the program that moves, and the index file's   *)
(* lock.                                                                    *)
TypeOK ==
  /\ subject = "index" => JiTypeOK
  /\ subject = "twist" => PtTypeOK
  /\ subject = "joints" => JtTypeOK
  /\ subject = "beat" => HbTypeOK
  /\ subject = "cameras" => ChTypeOK
  /\ subject = "portal" => CpTypeOK
  /\ subject = "deploy" => FdTypeOK
=============================================================================
