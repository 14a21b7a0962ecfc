----------------------------- MODULE JointTeleop -----------------------------
(***************************************************************************)
(* joy_to_joints.py: a pad's axis moves the target angle of each position   *)
(* joint at a rate, a button holds a velocity joint (the flywheel) spinning,*)
(* the home button sends everything to zero.  The simulator's controllers   *)
(* hold the last command; systemd restarts the node when it fails.          *)
(***************************************************************************)
EXTENDS Integers

CONSTANTS
  Joints,  \* position joints
  Low,     \* min_angle of each joint, in whole steps
  High,    \* max_angle
  Rate,    \* steps one tick moves a joint at full deflection (sign: invert, scale)
  Grips,   \* states of the pad: [axis : -1..1, home : BOOLEAN, spin : BOOLEAN]
  NoJoy    \* no Joy message yet

(* Every joint range of the inventory contains zero. *)
ASSUME JointTeleopAssumption ==
  /\ Low \in [Joints -> Int] /\ High \in [Joints -> Int] /\ Rate \in [Joints -> Int]
  /\ \A j \in Joints : Low[j] <= 0 /\ 0 <= High[j]
  /\ Grips \subseteq [axis : -1..1, home : BOOLEAN, spin : BOOLEAN]
  /\ NoJoy \notin Grips

VARIABLES
  gripOn,   \* is the pad there?
  grip,     \* what the operator does
  joy,      \* self._axes, self._buttons
  target,   \* the target of each position joint
  running,  \* the flywheel's `running'
  angle,    \* simulator: last command of each position joint
  spin,     \* simulator: is the flywheel commanded to spin?
  first,    \* history: nothing published since the node started
  orphan    \* history: the node died while the flywheel spun, not commanded since

jtVars == <<gripOn, grip, joy, target, running, angle, spin, first, orphan>>

Released == [axis |-> 0, home |-> FALSE, spin |-> FALSE]
Level == [j \in Joints |-> 0]

JtInit ==
  /\ gripOn = TRUE
  /\ grip = Released
  /\ joy = NoJoy
  /\ target = Level
  /\ running = FALSE
  /\ angle = Level
  /\ spin = FALSE
  /\ first = TRUE
  /\ orphan = FALSE

-----------------------------------------------------------------------------
Grip ==
  /\ grip' \in Grips \ {grip}
  /\ UNCHANGED <<gripOn, joy, target, running, angle, spin, first, orphan>>

PadLeavesOrReturns ==
  /\ gripOn' = ~gripOn
  /\ UNCHANGED <<grip, joy, target, running, angle, spin, first, orphan>>

(* _on_joy: remember the newest state; it is acted on by the timer. *)
OnJoyState ==
  /\ gripOn
  /\ joy' = grip
  /\ UNCHANGED <<gripOn, grip, target, running, angle, spin, first, orphan>>

(* Mutants of Integrate: a bound is forgotten; the step is not limited. *)
IntegrateOneSided(j) ==
  LET t == target[j] + joy.axis * Rate[j]
  IN  IF t > High[j] THEN High[j] ELSE t

IntegrateToEnd(j) ==
  IF joy.axis * Rate[j] > 0 THEN High[j]
  ELSE IF joy.axis * Rate[j] < 0 THEN Low[j] ELSE target[j]

(* One tick of rate control, limited to the joint's range. *)
Integrate(j) ==
  LET t == target[j] + joy.axis * Rate[j]
  IN  IF t > High[j] THEN High[j] ELSE IF t < Low[j] THEN Low[j] ELSE t

(* Mutants of SpinFlywheel: home does not stop it; released, it never stops.*)
SpinFlywheelHoming ==
  LET held == joy.spin
  IN  /\ running' = held
      /\ spin' = IF held \/ running THEN held ELSE spin
      /\ orphan' = (orphan /\ ~held /\ ~running)

SpinFlywheelOn ==
  LET held == joy.spin /\ ~joy.home
  IN  /\ running' = (running \/ held)
      /\ spin' = IF held THEN TRUE ELSE spin
      /\ orphan' = (orphan /\ ~held)

(* _tick, a velocity joint: spin while held, one stop, then quiet. *)
SpinFlywheel ==
  LET held == joy.spin /\ ~joy.home
  IN  /\ running' = held
      /\ spin' = IF held \/ running THEN held ELSE spin
      /\ orphan' = (orphan /\ ~held /\ ~running)

(* _tick: every joint, from the newest Joy message, however old it is. *)
Tick ==
  /\ joy # NoJoy
  /\ target' = [j \in Joints |-> IF joy.home THEN 0 ELSE Integrate(j)]
  /\ angle' = target'
  /\ SpinFlywheel
  /\ first' = FALSE
  /\ UNCHANGED <<gripOn, grip, joy>>

(* The node fails and is started again. *)
NodeRestarts ==
  /\ joy' = NoJoy
  /\ target' = Level
  /\ running' = FALSE
  /\ first' = TRUE
  /\ orphan' = spin
  /\ UNCHANGED <<gripOn, grip, angle, spin>>

JtNext == Grip \/ PadLeavesOrReturns \/ OnJoyState \/ Tick \/ NodeRestarts

-----------------------------------------------------------------------------
JtTypeOK ==
  /\ gripOn \in BOOLEAN
  /\ grip \in Grips \cup {Released}
  /\ joy \in Grips \cup {Released, NoJoy}
  /\ target \in [Joints -> Int] /\ angle \in [Joints -> Int]
  /\ {running, spin, first, orphan} \subseteq BOOLEAN

(* A joint is never sent beyond its range, whatever is held for however long*)
(* and however stale the message acted on is.                               *)
JointsInRange ==
  \A j \in Joints : Low[j] <= angle[j] /\ angle[j] <= High[j]

Reach(j) == IF Rate[j] < 0 THEN -Rate[j] ELSE Rate[j]

(* `Mapping an axis straight to an angle would instead snap joints to a new *)
(* pose': unless homed, no command moves a joint by more than one tick's    *)
(* worth, but for the first one of a restarted node.                        *)
JointsNeverSnap ==
  [][first \/ joy.home \/ \A j \in Joints :
       /\ angle'[j] - angle[j] <= Reach(j)
       /\ angle[j] - angle'[j] <= Reach(j)]_jtVars

(* `The home button stops velocity joints too': held on a pad that is there,*)
(* it wins over every axis and button, and everything ends up at zero.      *)
HomeWins ==
  <>[](gripOn /\ grip.home) /\ <>[]~(first \/ orphan) => <>[](angle = Level /\ ~spin)

(* `On release a single 0 is sent': a released flywheel stops and stays so, *)
(* unless the node was restarted while it spun.                             *)
ReleasedFlywheelStops ==
  <>[](gripOn /\ ~grip.spin) /\ <>[]~(first \/ orphan) => <>[]~spin
=============================================================================
