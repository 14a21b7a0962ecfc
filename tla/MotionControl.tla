---------------------------- MODULE MotionControl ----------------------------
(***************************************************************************)
(* motion_control.py: arbitration of the gamepad and a motion planner onto *)
(* cmd_vel, between the topic queues it reads and the one it writes.  One  *)
(* executor thread runs the two subscriptions, one message per step, in    *)
(* any order between the topics.                                           *)
(*                                                                         *)
(* A Twist is [src, m]: who it is from and which motion it asks for.  `src'*)
(* is not in the message; the properties use it.                           *)
(***************************************************************************)
EXTENDS Integers, Sequences

CONSTANTS
  Motions,  \* body velocities
  Rest,     \* every axis inside the dead zone; the zero Twist
  Guard,    \* joy_release_guard_ms, in control ticks
  Depth     \* depth of each topic queue (10 in the code)

ASSUME MotionControlAssumption ==
  /\ Rest \in Motions
  /\ Guard \in Nat
  /\ Depth \in Nat \ {0}

VARIABLES
  joyQ,       \* Joy messages not handled yet (their mapped motion)
  planQ,      \* planner Twists not handled yet
  cmdQ,       \* Twists published on cmd_vel and not taken yet
  joyActive,  \* self._joy_active
  guard       \* ticks left of the guard window after a release

mcVars == <<joyQ, planQ, cmdQ, joyActive, guard>>

Twist == [src : {"joy", "plan"}, m : Motions]

(* Mutant of Push: a queue without a limit. *)
PushAll(q, x) == Append(q, x)

(* KEEP_LAST: a full queue loses its oldest message. *)
Push(q, x) == IF Len(q) = Depth THEN Append(Tail(q), x) ELSE Append(q, x)

McInit ==
  /\ joyQ = <<>>
  /\ planQ = <<>>
  /\ cmdQ = <<>>
  /\ joyActive = FALSE
  /\ guard = 0

(* The gamepad publisher and the planner publish. *)
JoyArrives(m) == joyQ' = Push(joyQ, m) /\ UNCHANGED <<planQ, cmdQ, joyActive, guard>>
PlanArrives(m) == planQ' = Push(planQ, m) /\ UNCHANGED <<joyQ, cmdQ, joyActive, guard>>

-----------------------------------------------------------------------------
(* Mutant of OnJoyActive: publishes, but does not claim control. *)
OnJoyActivePolite ==
  /\ joyQ # <<>>
  /\ Head(joyQ) # Rest
  /\ joyQ' = Tail(joyQ)
  /\ cmdQ' = Push(cmdQ, [src |-> "joy", m |-> Head(joyQ)])
  /\ UNCHANGED <<planQ, joyActive, guard>>

(* _on_joy, a stick is outside the dead zone: the operator drives. *)
OnJoyActive ==
  /\ joyQ # <<>>
  /\ Head(joyQ) # Rest
  /\ joyQ' = Tail(joyQ)
  /\ cmdQ' = Push(cmdQ, [src |-> "joy", m |-> Head(joyQ)])
  /\ joyActive' = TRUE
  /\ UNCHANGED <<planQ, guard>>

(* Mutants of OnJoyRelease: no zero Twist; control is never given back. *)
OnJoyReleaseSilent ==
  /\ joyQ # <<>>
  /\ Head(joyQ) = Rest
  /\ joyActive
  /\ joyQ' = Tail(joyQ)
  /\ joyActive' = FALSE
  /\ guard' = Guard
  /\ UNCHANGED <<planQ, cmdQ>>

OnJoyReleaseKeeps ==
  /\ joyQ # <<>>
  /\ Head(joyQ) = Rest
  /\ joyActive
  /\ joyQ' = Tail(joyQ)
  /\ cmdQ' = Push(cmdQ, [src |-> "joy", m |-> Rest])
  /\ guard' = Guard
  /\ UNCHANGED <<planQ, joyActive>>

(* _on_joy, the sticks were just released: one zero Twist, then the guard. *)
OnJoyRelease ==
  /\ joyQ # <<>>
  /\ Head(joyQ) = Rest
  /\ joyActive
  /\ joyQ' = Tail(joyQ)
  /\ cmdQ' = Push(cmdQ, [src |-> "joy", m |-> Rest])
  /\ joyActive' = FALSE
  /\ guard' = Guard
  /\ UNCHANGED planQ

(* _on_joy, centred and already released: silent. *)
OnJoyIdle ==
  /\ joyQ # <<>>
  /\ Head(joyQ) = Rest
  /\ ~joyActive
  /\ joyQ' = Tail(joyQ)
  /\ UNCHANGED <<planQ, cmdQ, joyActive, guard>>

(* _on_planner: discarded while the operator drives or the guard runs. *)
OnPlannerDiscard ==
  /\ planQ # <<>>
  /\ joyActive \/ guard > 0
  /\ planQ' = Tail(planQ)
  /\ UNCHANGED <<joyQ, cmdQ, joyActive, guard>>

(* Mutant of OnPlannerPass: only the guard window is looked at. *)
OnPlannerPassGuardOnly ==
  /\ planQ # <<>>
  /\ guard = 0
  /\ planQ' = Tail(planQ)
  /\ cmdQ' = Push(cmdQ, [src |-> "plan", m |-> Head(planQ)])
  /\ UNCHANGED <<joyQ, joyActive, guard>>

(* _on_planner: passed through verbatim. *)
OnPlannerPass ==
  /\ planQ # <<>>
  /\ ~joyActive
  /\ guard = 0
  /\ planQ' = Tail(planQ)
  /\ cmdQ' = Push(cmdQ, [src |-> "plan", m |-> Head(planQ)])
  /\ UNCHANGED <<joyQ, joyActive, guard>>

OnJoy == OnJoyActive \/ OnJoyRelease \/ OnJoyIdle
OnPlanner == OnPlannerDiscard \/ OnPlannerPass

(* A control period passes. *)
GuardElapses ==
  /\ guard' = IF guard > 0 THEN guard - 1 ELSE 0
  /\ UNCHANGED <<joyQ, planQ, cmdQ, joyActive>>

McTypeOK ==
  /\ joyQ \in Seq(Motions) /\ Len(joyQ) <= Depth
  /\ planQ \in Seq(Motions) /\ Len(planQ) <= Depth
  /\ cmdQ \in Seq(Twist) /\ Len(cmdQ) <= Depth
  /\ joyActive \in BOOLEAN
  /\ guard \in 0..Guard
=============================================================================
