------------------------------ MODULE PadTeleop ------------------------------
(***************************************************************************)
(* The two joy_to_twist nodes (revhub: holonomic, diffdrive_teleop:         *)
(* differential), one per operator pad, publishing on one cmd_vel topic.    *)
(* The drive that listens holds the last Twist, as the simulator's does.    *)
(***************************************************************************)
EXTENDS Naturals

CONSTANTS
  Teleops,  \* the joy_to_twist nodes, each with its pad
  Kind,     \* Kind[t]: "holonomic" or "differential"
  DeadMan,  \* Teleops whose enable_button is set
  Poses     \* pad states: left stick, right stick and dead-man button, dead zone applied

ASSUME PadTeleopAssumption ==
  /\ Kind \in [Teleops -> {"holonomic", "differential"}]
  /\ DeadMan \subseteq Teleops
  /\ Poses \subseteq [fwd : Nat, side : Nat, yaw : Nat, button : BOOLEAN]

VARIABLES
  padOn,      \* pads that are there
  pose,       \* what each pad's operator does
  inbox,      \* Joy messages waiting: at most the newest one per node
  wasActive,  \* self._was_active
  cmd,        \* Twists waiting at the drive: at most the newest one
  driven,     \* the Twist the drive follows
  orphaned    \* history: a node died in mid-command and no Twist came since

ptVars == <<padOn, pose, inbox, wasActive, cmd, driven, orphaned>>

Stop == [x |-> 0, y |-> 0, z |-> 0]
AtRest == [fwd |-> 0, side |-> 0, yaw |-> 0, button |-> FALSE]

(* revhub's _on_joy: the left stick translates, the right one turns.        *)
HolonomicTwist(p, enabled) ==
  IF enabled THEN [x |-> p.fwd, y |-> p.side, z |-> p.yaw] ELSE Stop

(* diffdrive_teleop's _on_joy: the left stick drives and turns; `linear.y   *)
(* stays 0.0'.                                                              *)
DifferentialTwist(p, enabled) ==
  IF enabled THEN [x |-> p.fwd, y |-> 0, z |-> p.side] ELSE Stop

TwistOf(t, p) ==
  LET enabled == t \in DeadMan => p.button
  IN  IF Kind[t] = "holonomic" THEN HolonomicTwist(p, enabled)
      ELSE DifferentialTwist(p, enabled)

Wanted(t) == IF padOn[t] THEN TwistOf(t, pose[t]) ELSE Stop

PtInit ==
  /\ padOn = [t \in Teleops |-> TRUE]
  /\ pose = [t \in Teleops |-> AtRest]
  /\ inbox = [t \in Teleops |-> {}]
  /\ wasActive = [t \in Teleops |-> FALSE]
  /\ cmd = {}
  /\ driven = Stop
  /\ orphaned = FALSE

-----------------------------------------------------------------------------
Pose(t) ==
  /\ \E p \in Poses : pose' = [pose EXCEPT ![t] = p]
  /\ UNCHANGED <<padOn, inbox, wasActive, cmd, driven, orphaned>>

PadComesOrGoes(t) ==
  /\ padOn' = [padOn EXCEPT ![t] = ~@]
  /\ UNCHANGED <<pose, inbox, wasActive, cmd, driven, orphaned>>

(* The pad's publisher repeats its state (autorepeat_rate). *)
Joy(t) ==
  /\ padOn[t]
  /\ inbox' = [inbox EXCEPT ![t] = {pose[t]}]
  /\ UNCHANGED <<padOn, pose, wasActive, cmd, driven, orphaned>>

Take(t, p) == p \in inbox[t] /\ inbox' = [inbox EXCEPT ![t] = {}]

(* _on_joy, driving: publish and remember. *)
OnJoyDriving(t) == \E p \in Poses :
  /\ Take(t, p)
  /\ TwistOf(t, p) # Stop
  /\ cmd' = {TwistOf(t, p)}
  /\ wasActive' = [wasActive EXCEPT ![t] = TRUE]
  /\ orphaned' = FALSE
  /\ UNCHANGED <<padOn, pose, driven>>

(* Mutants of OnJoyReleased: silent; or a centred pad streams zeros. *)
OnJoyReleasedSilently(t) == \E p \in Poses :
  /\ Take(t, p)
  /\ TwistOf(t, p) = Stop
  /\ wasActive[t]
  /\ wasActive' = [wasActive EXCEPT ![t] = FALSE]
  /\ UNCHANGED <<padOn, pose, cmd, driven, orphaned>>

OnJoyReleasedAlways(t) == \E p \in Poses :
  /\ Take(t, p)
  /\ TwistOf(t, p) = Stop
  /\ cmd' = {Stop}
  /\ wasActive' = [wasActive EXCEPT ![t] = FALSE]
  /\ orphaned' = FALSE
  /\ UNCHANGED <<padOn, pose, driven>>

(* _on_joy, just released: one zero Twist, then the topic is the others'.   *)
OnJoyReleased(t) == \E p \in Poses :
  /\ Take(t, p)
  /\ TwistOf(t, p) = Stop
  /\ wasActive[t]
  /\ cmd' = {Stop}
  /\ wasActive' = [wasActive EXCEPT ![t] = FALSE]
  /\ orphaned' = FALSE
  /\ UNCHANGED <<padOn, pose, driven>>

OnJoyIdle(t) == \E p \in Poses :
  /\ Take(t, p)
  /\ TwistOf(t, p) = Stop
  /\ ~wasActive[t]
  /\ UNCHANGED <<padOn, pose, wasActive, cmd, driven, orphaned>>

Drive ==
  /\ cmd # {}
  /\ \E c \in cmd : driven' = c
  /\ cmd' = {}
  /\ UNCHANGED <<padOn, pose, inbox, wasActive, orphaned>>

(* The process is restarted: _was_active is False again, nothing is sent.   *)
TeleopRestarts(t) ==
  /\ inbox' = [inbox EXCEPT ![t] = {}]
  /\ wasActive' = [wasActive EXCEPT ![t] = FALSE]
  /\ orphaned' = (orphaned \/ wasActive[t])
  /\ UNCHANGED <<padOn, pose, cmd, driven>>

OnJoy(t) == OnJoyDriving(t) \/ OnJoyReleased(t) \/ OnJoyIdle(t)

PtNext == Drive \/ \E t \in Teleops : Pose(t) \/ PadComesOrGoes(t) \/ Joy(t) \/ OnJoy(t) \/ TeleopRestarts(t)

-----------------------------------------------------------------------------
Twists == {Stop} \cup {TwistOf(t, p) : t \in Teleops, p \in Poses}

PtTypeOK ==
  /\ padOn \in [Teleops -> BOOLEAN]
  /\ pose \in [Teleops -> Poses \cup {AtRest}]
  /\ \A t \in Teleops : inbox[t] \subseteq Poses \cup {AtRest}
  /\ wasActive \in [Teleops -> BOOLEAN]
  /\ cmd \subseteq Twists /\ driven \in Twists
  /\ orphaned \in BOOLEAN

(* `An IDLE pad would ... stomp whichever pad is actually driving': when one*)
(* operator holds a command and nobody else asks for anything, be his pad   *)
(* idle or gone, the drive ends up following that command for good.         *)
OnePadDrives ==
  \A t \in Teleops : \A p \in {q \in Poses : TwistOf(t, q) # Stop} :
    <>[](/\ padOn[t] /\ pose[t] = p
         /\ \A u \in Teleops \ {t} : Wanted(u) = Stop)
      => <>[](driven = TwistOf(t, p))

(* `Publish exactly ONE zero on release (prompt stop)': when every pad is   *)
(* there and released the drive stops, although each zero is sent once and  *)
(* nothing in this chain times out, unless a node died in mid-command.      *)
AllReleasedStops ==
  /\ <>[](\A t \in Teleops : padOn[t] /\ Wanted(t) = Stop)
  /\ []<>~orphaned
  => <>[](driven = Stop)
=============================================================================
