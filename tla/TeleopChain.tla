----------------------------- MODULE TeleopChain -----------------------------
(***************************************************************************)
(* The deployed driving chain of a robot: gamepad publisher and planner -> *)
(* motion_control -> cmd_vel -> revhub_node (joy-source twist).  Messages  *)
(* wait in the topic queues for as long as the receiver takes, and are     *)
(* lost when a queue is full; the pad may die with a stick pushed.         *)
(***************************************************************************)
EXTENDS MotionControl

CONSTANTS
  Timeout  \* --joy-timeout-ms of revhub_node, in control ticks

ASSUME TeleopChainAssumption == Timeout \in Nat \ {0}

VARIABLES
  padOn,    \* the pad and its publisher (ros-joy@.service) are there
  stick,    \* where the sticks are
  axes,     \* revhub_node: self.twist_cmd
  from,     \* who published the Twist in `axes`
  age,      \* revhub_node: ticks since _last_joy_mono
  dropped   \* history: has cmd_vel's queue ever overflowed?

chainVars == <<padOn, stick, axes, from, age>>
vars == <<mcVars, chainVars, dropped>>

(* The twist source of revhub_node. *)
Node == INSTANCE CommandSource
  WITH Sources <- {"twist"}, source <- "twist", Ports <- {}, NONE <- "none", present <- padOn,
       held <- "none", reader <- "scan", unread <- {}, jsOk <- FALSE,
       buttons <- "none"

Init ==
  /\ McInit
  /\ padOn = TRUE
  /\ stick = Rest
  /\ axes = Rest
  /\ from = "plan"
  /\ age = Timeout
  /\ dropped = FALSE

-----------------------------------------------------------------------------
(* A pad that is there autorepeats its sticks; the planner publishes when  *)
(* it has a plan.                                                          *)
PadPublishes == padOn /\ JoyArrives(stick) /\ UNCHANGED <<chainVars, dropped>>
PlannerPublishes == (\E m \in Motions : PlanArrives(m)) /\ UNCHANGED <<chainVars, dropped>>

MoveStick ==
  /\ stick' \in Motions \ {stick}
  /\ UNCHANGED <<mcVars, padOn, axes, from, age, dropped>>

PadDies == padOn /\ padOn' = FALSE /\ UNCHANGED <<mcVars, stick, axes, from, age, dropped>>
PadReturns == ~padOn /\ padOn' = TRUE /\ UNCHANGED <<mcVars, stick, axes, from, age, dropped>>

CountDrops == dropped' = (dropped \/ (cmdQ' # cmdQ /\ Len(cmdQ) = Depth))
HandleJoy == OnJoy /\ CountDrops /\ UNCHANGED chainVars
HandlePlan == OnPlanner /\ CountDrops /\ UNCHANGED chainVars

(* revhub_node's ROS thread takes one Twist. *)
TakeCmd ==
  /\ cmdQ # <<>>
  /\ cmdQ' = Tail(cmdQ)
  /\ from' = Head(cmdQ).src
  /\ Node!TakeTwist(Head(cmdQ).m)
  /\ UNCHANGED <<joyQ, planQ, joyActive, guard, padOn, stick, dropped>>

(* One control period: every clock of the chain advances. *)
Tick ==
  /\ GuardElapses
  /\ Node!GrowOlder
  /\ UNCHANGED <<padOn, stick, axes, from, dropped>>

Environment == PadPublishes \/ PlannerPublishes \/ MoveStick \/ PadDies \/ PadReturns
System == HandleJoy \/ HandlePlan \/ TakeCmd \/ Tick
Next == Environment \/ System

(* Each subscription's callback runs as long as it has messages; time does *)
(* not stop; a pad that stays on keeps repeating itself.                   *)
Fairness ==
  /\ WF_vars(HandleJoy) /\ WF_vars(HandlePlan) /\ WF_vars(TakeCmd)
  /\ WF_vars(Tick) /\ WF_vars(PadPublishes)

Spec == Init /\ [][Next]_vars /\ Fairness

-----------------------------------------------------------------------------
TypeOK ==
  /\ McTypeOK
  /\ padOn \in BOOLEAN
  /\ stick \in Motions
  /\ axes \in Motions
  /\ from \in {"joy", "plan"}
  /\ age \in 0..Timeout

(* What revhub_node has done last and will do next, in order. *)
Wire == <<[src |-> from, m |-> axes]>> \o cmdQ
Last(s) == s[Len(s)]

(* `The joystick always wins': while motion_control believes a stick is    *)
(* pushed, the newest Twist on the wire is the operator's, so that nothing *)
(* the planner sent before the grab is executed after it.                  *)
OperatorHasLastWord ==
  joyActive => Last(Wire).src = "joy" /\ Last(Wire).m # Rest

(* A plan never takes over from a moving stick directly: when no message is*)
(* dropped the zero Twist of the release is executed in between.           *)
HandoverThroughZero ==
  ~dropped => \A i \in 1..(Len(Wire) - 1) :
    Wire[i].src = "joy" /\ Wire[i + 1].src = "plan" => Wire[i].m = Rest

(* `Both silent -> ... command timeout holds the motors at zero'.          *)
SilenceStops ==
  <>[][~PadPublishes /\ ~PlannerPublishes]_vars => <>[](Node!Command.of = Rest)

(* Sticks held outside the dead zone on a living pad end up driving,       *)
(* whatever the planner does.                                              *)
OperatorTakesControl ==
  \A s \in Motions \ {Rest} : <>[](padOn /\ stick = s) => <>[](axes = s)

(* `on stick release ... after a short guard window, planner messages pass *)
(* through': with the sticks of a living pad at rest the planner drives.   *)
PlannerDrivesAfterRelease ==
  <>[](padOn /\ stick = Rest) /\ []<><<PlannerPublishes>>_vars => []<>(from = "plan")

(* The same when the pad is gone for good, nobody touching a stick.  The   *)
(* code never gets there if the last Joy message had a stick pushed:       *)
(* `_joy_active` has no timeout.                                           *)
PlannerReplacesDeadPad ==
  <>[](~padOn /\ stick = Rest) /\ []<><<PlannerPublishes>>_vars => []<>(from = "plan")
=============================================================================
