--------------------------- MODULE SwerveKinematics ---------------------------
(***************************************************************************)
(* swerve_drive/kinematics.py on whole angle units, 2 * HalfTurn of them in *)
(* a turn: how one module turns the velocity of its ground contact into a   *)
(* steer angle (a continuous joint, never wrapped) and a drive speed.       *)
(***************************************************************************)
EXTENDS WheelNumerics

CONSTANTS
  HalfTurn  \* pi, in angle units

ASSUME SwerveKinematicsAssumption == HalfTurn \in Nat \ {0}

Turn == 2 * HalfTurn

(* wrap: into (-pi, pi]. *)
Wrap(a) == -(((HalfTurn - a) % Turn) - HalfTurn)

(* Mutants of Aim: the flip forgets to reverse the drive; the angle nearest *)
(* zero instead of the one nearest the last command.                        *)
AimNoReverse(desired, speed, prev) ==
  LET ahead   == prev + Wrap(desired - prev)
      flipped == prev + Wrap(desired + HalfTurn - prev)
  IN  IF Abs(ahead - prev) <= Abs(flipped - prev)
      THEN [steer |-> ahead, drive |-> speed]
      ELSE [steer |-> flipped, drive |-> speed]

AimWrapped(desired, speed, prev) ==
  LET ahead   == Wrap(desired)
      flipped == Wrap(desired + HalfTurn)
  IN  IF Abs(ahead - prev) <= Abs(flipped - prev)
      THEN [steer |-> ahead, drive |-> speed]
      ELSE [steer |-> flipped, drive |-> -speed]

(* mix, a module that moves: roll forwards at `desired' or backwards at the *)
(* opposite angle, whichever is nearer to `prev', the angle last commanded. *)
Aim(desired, speed, prev) ==
  LET ahead   == prev + Wrap(desired - prev)
      flipped == prev + Wrap(desired + HalfTurn - prev)
  IN  IF Abs(ahead - prev) <= Abs(flipped - prev)
      THEN [steer |-> ahead, drive |-> speed]
      ELSE [steer |-> flipped, drive |-> -speed]

(* mix, one module; a module that stands still holds its angle. *)
MixModule(desired, speed, prev) ==
  IF speed = 0 THEN [steer |-> prev, drive |-> 0] ELSE Aim(desired, speed, prev)

(* Does a wheel at joint angle `steer', driven with the sign of `drive',    *)
(* roll towards `desired'?                                                  *)
RollsTowards(steer, drive, desired) ==
  (steer + (IF drive < 0 THEN HalfTurn ELSE 0) - desired) % Turn = 0
=============================================================================
