----------------------------- MODULE SwerveDrive -----------------------------
(***************************************************************************)
(* twist_to_swerve.py: one Twist in, a steer angle and a drive speed per   *)
(* module out, and a watchdog for a silent source.  The simulator's joint  *)
(* controllers keep the last value they were sent, also while the node is  *)
(* down; systemd restarts a failed node (swerve-drive.service).            *)
(***************************************************************************)
EXTENDS SwerveKinematics

CONSTANTS
  Modules,  \* the swerve modules
  Motions,  \* body velocities (Twists)
  Rest,     \* the zero Twist
  Heading,  \* Heading[t][k]: where module k's ground contact goes under t, minus phi0
  Speed,    \* Speed[t][k]: how fast; 0 is below 1e-9
  Timeout   \* command_timeout_s, in watchdog periods

ASSUME SwerveDriveAssumption ==
  /\ Rest \in Motions
  /\ Heading \in [Motions -> [Modules -> Int]]
  /\ Speed \in [Motions -> [Modules -> Nat]]
  /\ \A k \in Modules : Speed[Rest][k] = 0
  /\ Timeout \in Nat

VARIABLES
  up,         \* is the process running?
  prevSteer,  \* self._prev_steer
  moving,     \* self._moving
  age,        \* periods since self._last_cmd_time, up to Timeout + 1
  steer,      \* simulator: last position command of each steer joint
  drive,      \* simulator: last velocity command of each drive joint
  asked,      \* history: the Twist handled last
  fresh       \* history: no Twist handled since the process started

joints == <<steer, drive>>
sdVars == <<up, prevSteer, moving, age, joints, asked, fresh>>

Still == [k \in Modules |-> 0]

SdInit ==
  /\ up = TRUE
  /\ prevSteer = Still
  /\ moving = FALSE
  /\ age = 0
  /\ steer = Still
  /\ drive = Still
  /\ asked = Rest
  /\ fresh = TRUE

Mix(t) == [k \in Modules |-> MixModule(Heading[t][k], Speed[t][k], prevSteer[k])]

(* _publish, together with the joint controllers that receive it. *)
Publish(commands) ==
  /\ steer' = [k \in Modules |-> commands[k].steer]
  /\ drive' = [k \in Modules |-> commands[k].drive]
  /\ prevSteer' = steer'

(* Mutant of OnTwist: the watchdog is armed only if every wheel turns. *)
OnTwistAllMoving(t) ==
  /\ up
  /\ age' = 0
  /\ Publish(Mix(t))
  /\ moving' = (\A k \in Modules : drive'[k] # 0)
  /\ asked' = t
  /\ fresh' = FALSE
  /\ UNCHANGED up

(* _on_twist *)
OnTwist(t) ==
  /\ up
  /\ age' = 0
  /\ Publish(Mix(t))
  /\ moving' = (\E k \in Modules : drive'[k] # 0)
  /\ asked' = t
  /\ fresh' = FALSE
  /\ UNCHANGED up

(* Mutant of WatchdogStops: says it stopped, and sends nothing. *)
WatchdogForgets ==
  /\ up
  /\ moving
  /\ age > Timeout
  /\ moving' = FALSE
  /\ UNCHANGED <<up, prevSteer, age, joints, asked, fresh>>

(* _watchdog: drives to zero, angles held. *)
WatchdogStops ==
  /\ up
  /\ moving
  /\ age > Timeout
  /\ Publish([k \in Modules |-> [steer |-> prevSteer[k], drive |-> 0]])
  /\ moving' = FALSE
  /\ UNCHANGED <<up, age, asked, fresh>>

(* A watchdog period passes. *)
Ages ==
  /\ age' = IF age > Timeout THEN age ELSE age + 1
  /\ UNCHANGED <<up, prevSteer, moving, joints, asked, fresh>>

(* The process dies; a restarted one knows nothing of the joints. *)
Dies ==
  /\ up
  /\ up' = FALSE
  /\ UNCHANGED <<prevSteer, moving, age, joints, asked, fresh>>

Restarts ==
  /\ ~up
  /\ up' = TRUE
  /\ prevSteer' = Still
  /\ moving' = FALSE
  /\ age' = 0
  /\ fresh' = TRUE
  /\ UNCHANGED <<joints, asked>>

-----------------------------------------------------------------------------
SdTypeOK ==
  /\ up \in BOOLEAN
  /\ prevSteer \in [Modules -> Int]
  /\ moving \in BOOLEAN
  /\ age \in 0..(Timeout + 1)
  /\ steer \in [Modules -> Int]
  /\ drive \in [Modules -> Int]
  /\ asked \in Motions
  /\ fresh \in BOOLEAN

(* Once it has handled a Twist, the node's picture of the joints is exact:  *)
(* the angles the next command is measured from are the commanded ones, and *)
(* the watchdog is armed exactly while a wheel is commanded to turn.        *)
KnowsTheJoints ==
  ~fresh => prevSteer = steer /\ (moving <=> drive # Still)

(* A driven wheel rolls where, and as fast as, the last Twist asks, whether *)
(* mix chose the angle itself or its opposite with the drive reversed.      *)
RollsAsAsked ==
  \A k \in Modules : drive[k] # 0 =>
    /\ Abs(drive[k]) = Speed[asked][k]
    /\ RollsTowards(steer[k], drive[k], Heading[asked][k])

(* `That caps every steering move at 90 degrees', and a module that is not  *)
(* driven afterwards does not swing at all; the first Twist of a restarted  *)
(* node, which measures from zero, is the exception.                        *)
SteersAtMostQuarter ==
  [][fresh \/ \A k \in Modules :
       /\ 2 * Abs(steer'[k] - steer[k]) <= HalfTurn
       /\ drive'[k] = 0 => steer'[k] = steer[k]]_sdVars
=============================================================================
