---------------------------- MODULE CommandSource ----------------------------
(***************************************************************************)
(* revhub_node.py: where the control loop's wheel vector comes from.       *)
(*   "device"  the js_reader thread reads a joydev node of this host;      *)
(*   "ros"     a Joy topic; "twist" the motion commands of motion_control. *)
(* A stick position or Twist is a member of Motions; a calibration button  *)
(* is named by the hub port it drives.                                     *)
(***************************************************************************)
EXTENDS Integers

CONSTANTS
  Sources,   \* the --joy-source values considered
  Motions,   \* stick positions / body velocities
  Rest,      \* sticks inside the dead zone, the zero Twist, no axes at all
  Ports,     \* hub ports of the calibration buttons
  NONE,      \* no calibration button held
  Timeout    \* --joy-timeout-ms, in control ticks

ASSUME CommandSourceAssumption ==
  /\ Sources \subseteq {"device", "ros", "twist"}
  /\ Rest \in Motions
  /\ NONE \notin Ports
  /\ Timeout \in Nat \ {0}

VARIABLES
  source,   \* args.joy_source of this process, fixed
  \* --- the operator's side ------------------------------------------------
  present,  \* is the pad's device node there?
  stick,    \* where the sticks are
  held,     \* which calibration button is down
  \* --- the node -----------------------------------------------------------
  reader,   \* threads not started yet, js_reader scanning for the device, or reading it
  unread,   \* kinds of joydev events not read yet
  jsOk,     \* self.js_ok as js_reader leaves it
  axes,     \* self.axes / self.twist_cmd
  buttons,  \* self.buttons
  age       \* ticks since _last_joy_mono, up to Timeout

operator == <<present, stick, held>>
node == <<reader, unread, jsOk, axes, buttons, age>>
srcVars == <<source, operator, node>>

-----------------------------------------------------------------------------
(* Mutant of JsOk: a command is believed however old. *)
JsOkLate == IF source = "device" THEN jsOk ELSE age <= Timeout

(* run_control: may the sticks be believed this tick? *)
JsOk == IF source = "device" THEN jsOk ELSE age < Timeout

(* The command of this tick: calibration first, then the sticks, else stop. *)
Command ==
  IF JsOk /\ source # "twist" /\ buttons # NONE
  THEN [kind |-> "cal", of |-> buttons]
  ELSE [kind |-> "motion", of |-> IF JsOk THEN axes ELSE Rest]

Commands == [kind : {"cal"}, of : Ports] \cup [kind : {"motion"}, of : Motions]

NodeInit ==
  /\ reader = "off"
  /\ unread = {}
  /\ jsOk = FALSE
  /\ axes = Rest
  /\ buttons = NONE
  /\ age = Timeout

SourceInit ==
  /\ source \in Sources
  /\ present \in BOOLEAN
  /\ stick = Rest
  /\ held = NONE
  /\ NodeInit

(* A fresh process knows nothing. *)
NodeReset ==
  /\ reader' = "off"
  /\ unread' = {}
  /\ jsOk' = FALSE
  /\ axes' = Rest
  /\ buttons' = NONE
  /\ age' = Timeout

-----------------------------------------------------------------------------
(* main starts the threads once the first session is open. *)
StartThreads ==
  /\ reader' = IF reader = "off" THEN "scan" ELSE reader
  /\ UNCHANGED <<operator, unread, jsOk, axes, buttons, age>>

(* The pad falls asleep, its dongle re-enumerates: whoever has the old     *)
(* device node open will read end of file, even if the pad is back by then.*)
PadGoes ==
  /\ present
  /\ present' = FALSE
  /\ reader' = IF reader = "read" THEN "eof" ELSE reader
  /\ unread' = {}
  /\ UNCHANGED <<stick, held, jsOk, axes, buttons, age>>

PadComes == ~present /\ present' = TRUE /\ UNCHANGED <<stick, held, node>>

(* The operator moves a stick or a button; an open device reports it. *)
MoveStick ==
  /\ stick' \in Motions \ {stick}
  /\ unread' = IF reader = "read" THEN unread \cup {"axis"} ELSE unread
  /\ UNCHANGED <<present, held, reader, jsOk, axes, buttons, age>>

PressButton ==
  /\ held' \in (Ports \cup {NONE}) \ {held}
  /\ unread' = IF reader = "read" THEN unread \cup {"button"} ELSE unread
  /\ UNCHANGED <<present, stick, reader, jsOk, axes, buttons, age>>

-----------------------------------------------------------------------------
(* js_reader: no device matches. *)
ScanMissing ==
  /\ source = "device"
  /\ reader = "scan"
  /\ ~present
  /\ jsOk' = FALSE
  /\ axes' = Rest
  /\ UNCHANGED <<operator, reader, unread, buttons, age>>

(* Mutant of ScanOpen: JS_EVENT_INIT events are ignored. *)
ScanOpenNoInit ==
  /\ source = "device"
  /\ reader = "scan"
  /\ present
  /\ reader' = "read"
  /\ unread' = {}
  /\ jsOk' = TRUE
  /\ UNCHANGED <<operator, axes, buttons, age>>

(* open(): joydev queues the present value of every axis and button.       *)
ScanOpen ==
  /\ source = "device"
  /\ reader = "scan"
  /\ present
  /\ reader' = "read"
  /\ unread' = {"axis", "button"}
  /\ jsOk' = TRUE
  /\ UNCHANGED <<operator, axes, buttons, age>>

ReadAxis ==
  /\ reader = "read"
  /\ "axis" \in unread
  /\ unread' = unread \ {"axis"}
  /\ axes' = stick
  /\ UNCHANGED <<operator, reader, jsOk, buttons, age>>

ReadButton ==
  /\ reader = "read"
  /\ "button" \in unread
  /\ unread' = unread \ {"button"}
  /\ buttons' = held
  /\ UNCHANGED <<operator, reader, jsOk, axes, age>>

(* End of file, a short read or an OSError: the axes are forgotten, the    *)
(* buttons are not.                                                        *)
ReadEnd ==
  /\ reader = "eof"
  /\ reader' = "scan"
  /\ jsOk' = FALSE
  /\ axes' = Rest
  /\ UNCHANGED <<operator, unread, buttons, age>>

-----------------------------------------------------------------------------
(* _on_joy_msg: the publisher on the pad's host reports its present state. *)
OnJoyMsg ==
  /\ source = "ros"
  /\ present
  /\ axes' = stick
  /\ buttons' = held
  /\ age' = 0
  /\ UNCHANGED <<operator, reader, unread, jsOk>>

(* _on_twist_msg: a motion command m arrives. *)
TakeTwist(m) ==
  /\ axes' = m
  /\ age' = 0

OnTwistMsg ==
  /\ source = "twist"
  /\ present
  /\ TakeTwist(stick)
  /\ UNCHANGED <<operator, reader, unread, jsOk, buttons>>

(* One control period passes. *)
GrowOlder == age' = IF age < Timeout THEN age + 1 ELSE age

-----------------------------------------------------------------------------
Operator == PadGoes \/ PadComes \/ MoveStick \/ PressButton
Reader == ScanMissing \/ ScanOpen \/ ReadAxis \/ ReadButton \/ ReadEnd
Messages == OnJoyMsg \/ OnTwistMsg

SourceTypeOK ==
  /\ source \in Sources
  /\ present \in BOOLEAN
  /\ stick \in Motions
  /\ held \in Ports \cup {NONE}
  /\ reader \in {"off", "scan", "read", "eof"}
  /\ unread \subseteq {"axis", "button"}
  /\ jsOk \in BOOLEAN
  /\ axes \in Motions
  /\ buttons \in Ports \cup {NONE}
  /\ age \in 0..Timeout
=============================================================================
