---------------------------- MODULE XDriveDriver ----------------------------
(***************************************************************************)
(* xdrive_driver.py: the older driver node, cmd_vel straight to the hub.   *)
(* Two mutually exclusive callback groups of one MultiThreadedExecutor run *)
(* interleaved:                                                            *)
(*   command   _on_cmd and the 25 Hz _safety_tick, which calls _apply;     *)
(*   feedback  _feedback_tick: encoders, status register, re-arm, recovery.*)
(* They share self.hub and self._last_applied without a lock.              *)
(***************************************************************************)
EXTENDS WheelNumerics, FiniteSets

CONSTANTS
  NW,           \* number of wheels (4)
  Demands,      \* wheel vectors mix() can produce
  Quantum,      \* POWER_QUANTUM
  NONE,         \* _last_applied = None
  Timeout,      \* cmd_timeout_ms in safety ticks
  StatusEvery,  \* encoder reads between two status reads (20)
  BulkLimit,    \* failed encoder reads in a row before a reconnect (20)
  MaxAttempts,  \* session attempts (5)
  Faults,       \* which faults the environment may inject
  MaxFaults     \* bound: how many

Wheels == 1..NW
Zero == [w \in Wheels |-> 0]
Powers == [Wheels -> {Quantize(d[w], Quantum) : d \in Demands, w \in Wheels}]

ASSUME XDriveAssumption ==
  /\ NW \in Nat \ {0}
  /\ Demands \subseteq [Wheels -> Int]
  /\ Zero \in Demands
  /\ Quantum \in Nat \ {0}
  /\ NONE \notin [Wheels -> Int]
  /\ Timeout \in Nat \ {0}
  /\ StatusEvery \in Nat \ {0}
  /\ BulkLimit \in Nat \ {0}
  /\ MaxAttempts \in Nat \ {0}
  /\ Faults \subseteq {"trip", "lost", "arm", "read", "mute", "open", "stop"}
  /\ MaxFaults \in Nat

VARIABLES
  \* --- command group ------------------------------------------------------
  target,   \* self._target
  age,      \* safety ticks since _last_cmd, up to Timeout
  powers,   \* _apply's quantized vector
  next,     \* wheel _apply sends next, 0 between two calls
  \* --- feedback group -----------------------------------------------------
  fb,       \* where the feedback thread is ("start": the constructor)
  todo,     \* channels the re-arm loop has not reached
  count,    \* self._fb_count % StatusEvery
  fails,    \* self._fb_failures
  strikes,  \* self._status_strikes
  attempts, \* failed attempts of _open_validated_session
  \* --- shared -------------------------------------------------------------
  usable,   \* is self.hub an open session?
  memory,   \* self._last_applied
  \* --- the hub ------------------------------------------------------------
  hubOn, hubOut, latch,  \* enabled channels, their output, latched fault bits
  budget

command == <<target, age, powers, next>>
feedback == <<todo, count, fails, strikes, attempts>>
hub == <<hubOn, hubOut, latch>>
vars == <<command, fb, feedback, usable, memory, hub, budget>>

Up == fb \notin {"start", "down"}
\* Is anything keeping the hub alive?
Kept == fb \notin {"start", "reopen", "down"}

Fault(f) == f \in Faults /\ budget > 0 /\ budget' = budget - 1
HubOff == hubOn' = {} /\ hubOut' = Zero

Init ==
  /\ target = Zero /\ age = 0 /\ powers = Zero /\ next = 0
  /\ fb = "start" /\ todo = {} /\ count = 0 /\ fails = 0 /\ strikes = 0
  /\ attempts = 0 /\ usable = FALSE /\ memory = NONE
  /\ hubOn = {} /\ hubOut = Zero /\ latch \in BOOLEAN
  /\ budget = MaxFaults

-----------------------------------------------------------------------------
(* _on_cmd: record only. *)
OnCmd ==
  /\ Up
  /\ next = 0
  /\ target' \in Demands
  /\ age' = 0
  /\ UNCHANGED <<powers, next, fb, feedback, usable, memory, hub, budget>>

(* Mutant of SafetyTick: the command timeout is not looked at. *)
SafetyTickTrusting ==
  /\ Up
  /\ next = 0
  /\ powers' = [w \in Wheels |-> Quantize(target[w], Quantum)]
  /\ next' = IF powers' = memory THEN 0 ELSE 1
  /\ UNCHANGED <<target, age, fb, feedback, usable, memory, hub, budget>>

(* _safety_tick: zero a stale target, then _apply; the same powers again   *)
(* cause no traffic.                                                       *)
SafetyTick ==
  /\ Up
  /\ next = 0
  /\ age' = IF age < Timeout THEN age + 1 ELSE age
  /\ target' = IF age = Timeout THEN Zero ELSE target
  /\ powers' = [w \in Wheels |-> Quantize(target'[w], Quantum)]
  /\ next' = IF powers' = memory THEN 0 ELSE 1
  /\ UNCHANGED <<fb, feedback, usable, memory, hub, budget>>

(* One set_power; a disabled channel swallows it. *)
SetPower == hubOut' = IF next \in hubOn THEN [hubOut EXCEPT ![next] = powers[next]] ELSE hubOut

SendPower ==
  /\ Up
  /\ next \in Wheels
  /\ usable
  /\ SetPower
  /\ next' = next + 1
  /\ UNCHANGED <<target, age, powers, fb, feedback, usable, memory, hubOn, latch, budget>>

(* set_power raises, before or after the hub acted: the rest of the vector *)
(* is not sent, and the memory stays what it was.                          *)
SendFails ==
  /\ Up
  /\ next \in Wheels
  /\ \/ ~usable /\ UNCHANGED <<hubOut, budget>>
     \/ usable /\ Fault("lost") /\ (SetPower \/ UNCHANGED hubOut)
  /\ next' = 0
  /\ UNCHANGED <<target, age, powers, fb, feedback, usable, memory, hubOn, latch>>

ApplyDone ==
  /\ Up
  /\ next = NW + 1
  /\ memory' = powers
  /\ next' = 0
  /\ UNCHANGED <<target, age, powers, fb, feedback, usable, hub, budget>>

-----------------------------------------------------------------------------
(* _feedback_tick: the encoders are read; every StatusEvery-th time the    *)
(* status register is next.                                                *)
BulkOk ==
  /\ fb = "idle"
  /\ fails' = 0
  /\ count' = (count + 1) % StatusEvery
  /\ fb' = IF count' = 0 THEN "status" ELSE "idle"
  /\ UNCHANGED <<command, todo, strikes, attempts, usable, memory, hub, budget>>

(* _recover_session closes the old session, which may fail unnoticed. *)
Recover ==
  /\ fails' = 0
  /\ strikes' = 0
  /\ attempts' = 0
  /\ usable' = FALSE
  /\ fb' = "reopen"
  /\ \/ HubOff
     \/ "lost" \in Faults /\ UNCHANGED <<hubOn, hubOut>>

BulkFails ==
  /\ fb = "idle"
  /\ Fault("read")
  /\ \/ /\ fails + 1 < BulkLimit
        /\ fails' = fails + 1
        /\ UNCHANGED <<fb, strikes, attempts, usable, hubOn, hubOut>>
     \/ fails + 1 = BulkLimit /\ Recover
  /\ UNCHANGED <<command, todo, count, memory, latch>>

StatusClean ==
  /\ fb = "status"
  /\ ~latch
  /\ strikes' = 0
  /\ fb' = "idle"
  /\ UNCHANGED <<command, todo, count, fails, attempts, usable, memory, hub, budget>>

(* Mutant of StatusBlip: strikes without a limit. *)
StatusBlipUncounted ==
  /\ fb = "status"
  /\ latch
  /\ latch' = FALSE
  /\ strikes' = strikes + 1
  /\ todo' = Wheels
  /\ fb' = "rearm"
  /\ UNCHANGED <<command, count, fails, attempts, usable, memory, hubOn, hubOut, budget>>

(* Fault bits read, and thereby cleared: a first strike re-arms. *)
StatusBlip ==
  /\ fb = "status"
  /\ latch
  /\ latch' = FALSE
  /\ strikes = 0
  /\ strikes' = 1
  /\ todo' = Wheels
  /\ fb' = "rearm"
  /\ UNCHANGED <<command, count, fails, attempts, usable, memory, hubOn, hubOut, budget>>

(* A status read that raises: the request was lost, or its answer, and then*)
(* the register has been cleared all the same.                             *)
NoAnswer ==
  \/ Fault("read") /\ UNCHANGED latch
  \/ Fault("mute") /\ latch' = FALSE

(* A first strike without an answer re-arms nothing.                       *)
StatusMute ==
  /\ fb = "status"
  /\ strikes = 0
  /\ NoAnswer
  /\ strikes' = 1
  /\ fb' = "idle"
  /\ UNCHANGED <<command, todo, count, fails, attempts, usable, memory, hubOn, hubOut>>

StatusRecover ==
  /\ fb = "status"
  /\ strikes = 1
  /\ \/ latch /\ latch' = FALSE /\ UNCHANGED budget
     \/ NoAnswer
  /\ Recover
  /\ UNCHANGED <<command, todo, count, memory>>

(* The re-arm loop enables the channels in order, at zero power.           *)
EnableNext(w) ==
  /\ w \in todo
  /\ \A v \in todo : w <= v
  /\ hubOn' = hubOn \cup {w}

RearmOk ==
  /\ fb = "rearm"
  /\ \E w \in Wheels :
       /\ EnableNext(w)
       /\ todo' = todo \ {w}
  /\ UNCHANGED <<command, fb, count, fails, strikes, attempts, usable, memory, hubOut, latch, budget>>

(* Mutant of RearmDone: remembers zeros, as revhub_node.py does, instead of*)
(* forgetting.                                                             *)
RearmDoneZero ==
  /\ fb = "rearm"
  /\ todo = {}
  /\ memory' = Zero
  /\ fb' = "idle"
  /\ UNCHANGED <<command, feedback, usable, hub, budget>>

(* `_last_applied = None   # resend powers on next command'.  The command  *)
(* group may be half way through an _apply that will overwrite it.         *)
RearmDone ==
  /\ fb = "rearm"
  /\ todo = {}
  /\ memory' = NONE
  /\ fb' = "idle"
  /\ UNCHANGED <<command, feedback, usable, hub, budget>>

(* set_mode() or enable() raises, before or after the hub acted.           *)
RearmFails ==
  /\ fb = "rearm"
  /\ todo # {}
  /\ Fault("arm")
  /\ UNCHANGED hubOn \/ \E w \in Wheels : EnableNext(w)
  /\ todo' = {}
  /\ fb' = "idle"
  /\ UNCHANGED <<command, count, fails, strikes, attempts, usable, memory, hubOut, latch>>

-----------------------------------------------------------------------------
(* Mutant of OpenOk: a recovery does not assign self.hub. *)
OpenOkDropped ==
  /\ fb \in {"start", "reopen"}
  /\ hubOn' = Wheels
  /\ hubOut' = Zero
  /\ latch' = FALSE
  /\ usable' = (fb = "start")
  /\ attempts' = 0
  /\ memory' = IF fb = "start" THEN Zero ELSE memory
  /\ fb' = IF fb = "start" THEN "idle" ELSE "forget"
  /\ UNCHANGED <<command, todo, count, fails, strikes, budget>>

(* _open_validated_session succeeds.  The constructor then knows what is   *)
(* applied; a recovery publishes the session first and forgets the memory  *)
(* a moment later.                                                         *)
OpenOk ==
  /\ fb \in {"start", "reopen"}
  /\ hubOn' = Wheels
  /\ hubOut' = Zero
  /\ latch' = FALSE
  /\ usable' = TRUE
  /\ attempts' = 0
  /\ memory' = IF fb = "start" THEN Zero ELSE memory
  /\ fb' = IF fb = "start" THEN "idle" ELSE "forget"
  /\ UNCHANGED <<command, todo, count, fails, strikes, budget>>

ForgetApplied ==
  /\ fb = "forget"
  /\ memory' = NONE
  /\ fb' = "idle"
  /\ UNCHANGED <<command, feedback, usable, hub, budget>>

(* An attempt that raises: before the hub was touched, after its channels  *)
(* were enabled (and the clean-up was lost), or fail-safed by the clean-up.*)
(* The last one ends the process.                                          *)
OpenFails ==
  /\ fb \in {"start", "reopen"}
  /\ Fault("open")
  /\ \/ UNCHANGED <<hubOn, hubOut>>
     \/ hubOn' = Wheels /\ hubOut' = Zero
     \/ HubOff
  /\ attempts' = attempts + 1
  /\ fb' = IF attempts' = MaxAttempts THEN "down" ELSE fb
  /\ UNCHANGED <<command, todo, count, fails, strikes, usable, memory, latch>>

(* SIGINT or SIGTERM: the executor returns and destroy_node closes the     *)
(* session, errors swallowed.  Before or between sessions there is none;   *)
(* `stop' is the first half of a restart of the unit.                      *)
Stop ==
  /\ usable
  /\ Fault("stop")
  /\ fb' = "down"
  /\ usable' = FALSE
  /\ \/ HubOff
     \/ "lost" \in Faults /\ UNCHANGED <<hubOn, hubOut>>
  /\ UNCHANGED <<command, feedback, memory, latch>>

(* systemd starts a fresh process. *)
Restart ==
  /\ fb = "down"
  /\ target' = Zero /\ age' = 0 /\ powers' = Zero /\ next' = 0
  /\ fb' = "start" /\ todo' = {} /\ count' = 0 /\ fails' = 0 /\ strikes' = 0
  /\ attempts' = 0 /\ usable' = FALSE /\ memory' = NONE
  /\ UNCHANGED <<hub, budget>>

-----------------------------------------------------------------------------
(* The hub misses its keep-alives for 2.5 s although a session is open. *)
HubTrip ==
  /\ Kept
  /\ Fault("trip")
  /\ HubOff
  /\ latch' = TRUE
  /\ UNCHANGED <<command, fb, feedback, usable, memory>>

(* Nobody keeps it alive at all. *)
HubLapse ==
  /\ ~Kept
  /\ hubOn # {}
  /\ HubOff
  /\ latch' = TRUE
  /\ UNCHANGED <<command, fb, feedback, usable, memory, budget>>

-----------------------------------------------------------------------------
CommandGroup == SafetyTick \/ SendPower \/ SendFails \/ ApplyDone
FeedbackGroup ==
  \/ BulkOk \/ StatusClean \/ StatusBlip \/ StatusRecover
  \/ RearmOk \/ RearmDone \/ ForgetApplied
Failure == BulkFails \/ StatusMute \/ RearmFails \/ OpenFails \/ Stop \/ HubTrip

Next == \/ OnCmd \/ CommandGroup \/ FeedbackGroup \/ OpenOk
        \/ Failure \/ Restart \/ HubLapse

(* The executor has threads for both groups, timers fire, an attempt to    *)
(* open a session is validated in the end, systemd restarts the node and   *)
(* the hub watches itself.  The command group's steps are taken one by one *)
(* so that a stream of new commands cannot starve its timer.               *)
Fairness ==
  /\ SF_vars(SafetyTick) /\ WF_vars(SendPower \/ SendFails \/ ApplyDone)
  /\ WF_vars(FeedbackGroup) /\ WF_vars(OpenOk)
  /\ WF_vars(Restart) /\ WF_vars(HubLapse)

Spec == Init /\ [][Next]_vars /\ Fairness

-----------------------------------------------------------------------------
TypeOK ==
  /\ target \in Demands
  /\ age \in 0..Timeout
  /\ powers \in [Wheels -> Int]
  /\ next \in 0..(NW + 1)
  /\ fb \in {"start", "idle", "status", "rearm", "reopen", "forget", "down"}
  /\ todo \in SUBSET Wheels
  /\ count \in 0..(StatusEvery - 1)
  /\ fails \in 0..(BulkLimit - 1)
  /\ strikes \in 0..1
  /\ attempts \in 0..MaxAttempts
  /\ usable \in BOOLEAN
  /\ memory \in [Wheels -> Int] \cup {NONE}
  /\ hubOn \in SUBSET Wheels
  /\ hubOut \in [Wheels -> Int]
  /\ latch \in BOOLEAN
  /\ budget \in 0..MaxFaults

(* The dedupe of _apply is safe as long as no set_power fails: whichever   *)
(* group wrote `_last_applied' last, between two _apply calls a channel is *)
(* at rest or drives at exactly what is remembered, so that a new target   *)
(* can only be suppressed when nothing drives against it.                  *)
DedupeIsSafe ==
  Up /\ next = 0 /\ memory # NONE =>
    \A w \in Wheels : hubOut[w] \in {0, memory[w]}

(* Header: `zeroing the motors if no cmd_vel arrives within cmd_timeout_ms'*)
CommandTimeoutStops == <>[][~OnCmd]_vars => <>[](hubOut = Zero)

(* `cannot leave a zombie driver behind': every reconnect, and every fail- *)
(* safe while a strike stands, ends in a session that commands an enabled  *)
(* hub: through failed re-arms, five failed attempts and fresh processes.  *)
RecoveryEnds ==
  fb = "reopen" \/ (usable /\ latch /\ strikes = 1) ~> usable /\ hubOn = Wheels

(* `Re-arm now ... resend powers on next command': with a target that is   *)
(* refreshed and does not change, the wheels end up driving at it.         *)
TargetReachesWheels ==
  \A t \in Demands :
    <>[](target = t) => <>[](hubOut = [w \in Wheels |-> Quantize(t[w], Quantum)])
=============================================================================
