----------------------------- MODULE SwerveChain -----------------------------
(***************************************************************************)
(* Driving the simulated swerve robot: gamepad publisher -> motion_control *)
(* -> /sim/swerve/cmd_vel -> twist_to_swerve -> joint controllers.  No     *)
(* planner publishes there.  Pad, motion_control and twist_to_swerve may   *)
(* each die and come back.                                                 *)
(***************************************************************************)
EXTENDS SwerveDrive, Sequences

CONSTANTS
  Guard,   \* joy_release_guard_ms, in watchdog periods
  Depth,   \* depth of each topic queue
  MaxWind  \* bound of the model: how far a steer joint is followed

ASSUME SwerveChainAssumption == Guard \in Nat /\ Depth \in Nat \ {0} /\ MaxWind \in Nat

VARIABLES
  padOn,  \* the pad and its publisher are there
  stick,  \* where the sticks are
  joyQ, cmdQ, joyActive, guard  \* motion_control and its queues

mcVars == <<joyQ, cmdQ, joyActive, guard>>
vars == <<sdVars, mcVars, padOn, stick>>

Mc == INSTANCE MotionControl WITH planQ <- <<>>

Init ==
  /\ SdInit
  /\ padOn = TRUE
  /\ stick = Rest
  /\ Mc!McInit

-----------------------------------------------------------------------------
MoveStick == stick' \in Motions \ {stick} /\ UNCHANGED <<sdVars, mcVars, padOn>>
PadToggles == padOn' = ~padOn /\ UNCHANGED <<sdVars, mcVars, stick>>
PadPublishes == padOn /\ Mc!JoyArrives(stick) /\ UNCHANGED <<sdVars, padOn, stick>>

HandleJoy == Mc!OnJoy /\ UNCHANGED <<sdVars, padOn, stick>>

(* motion_control fails and systemd starts it again. *)
MotionControlRestarts ==
  /\ joyQ' = <<>>
  /\ joyActive' = FALSE
  /\ guard' = 0
  /\ UNCHANGED <<sdVars, cmdQ, padOn, stick>>

TakeTwist ==
  /\ cmdQ # <<>>
  /\ \A k \in Modules : Abs(Mix(Head(cmdQ).m)[k].steer) <= MaxWind
  /\ OnTwist(Head(cmdQ).m)
  /\ cmdQ' = Tail(cmdQ)
  /\ UNCHANGED <<joyQ, joyActive, guard, padOn, stick>>

Watchdog == WatchdogStops /\ UNCHANGED <<mcVars, padOn, stick>>

(* The subscription dies with its process, and a new one sees only what is *)
(* published after it.                                                     *)
NodeDies ==
  /\ Dies
  /\ cmdQ' = <<>>
  /\ UNCHANGED <<joyQ, joyActive, guard, padOn, stick>>

LoseTwist ==
  /\ ~up
  /\ cmdQ # <<>>
  /\ cmdQ' = <<>>
  /\ UNCHANGED <<sdVars, joyQ, joyActive, guard, padOn, stick>>

NodeRestarts ==
  /\ cmdQ = <<>>
  /\ Restarts
  /\ UNCHANGED <<mcVars, padOn, stick>>

Tick == Ages /\ Mc!GuardElapses /\ UNCHANGED <<padOn, stick>>

Next ==
  \/ MoveStick \/ PadToggles \/ PadPublishes
  \/ HandleJoy \/ MotionControlRestarts
  \/ TakeTwist \/ Watchdog \/ NodeDies \/ LoseTwist \/ NodeRestarts
  \/ Tick

(* Callbacks and timers of a running process are served, time does not     *)
(* stop, systemd restarts a failed unit.                                   *)
Fairness ==
  /\ WF_vars(HandleJoy) /\ WF_vars(TakeTwist) /\ WF_vars(Watchdog)
  /\ WF_vars(LoseTwist) /\ WF_vars(NodeRestarts) /\ WF_vars(Tick)

Spec == Init /\ [][Next]_vars /\ Fairness

-----------------------------------------------------------------------------
TypeOK ==
  /\ SdTypeOK
  /\ padOn \in BOOLEAN
  /\ stick \in Motions
  /\ Mc!McTypeOK

Silent == <>[][~PadPublishes]_vars /\ <>[]up

(* `A watchdog zeroes every drive wheel if the Twist source goes quiet':    *)
(* pad, radio or motion_control may be gone in mid-command, the wheels stop *)
(* if twist_to_swerve keeps running and has handled a Twist.                *)
SilenceStops == Silent /\ <>[]~fresh => <>[](drive = Still)

(* The same without the proviso.  A node that was restarted in mid-command  *)
(* believes that nothing moves, and its watchdog never sends the zeros.     *)
WatchdogZeroesWheels == Silent => <>[](drive = Still)
=============================================================================
