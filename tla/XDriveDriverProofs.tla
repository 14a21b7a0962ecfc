-------------------------- MODULE XDriveDriverProofs --------------------------
(* xdrive_driver.py: its types, the dedupe of its shared memory, the stop of  *)
(* its command timeout and the channels its recovery leaves, for every number *)
(* of wheels, timeout, status period and budget of faults.                    *)
EXTENDS XDriveDriver, WheelNumericsProofs

(* The command half, the feedback half, the hub. *)
CommandTyped ==
  /\ target \in Demands
  /\ age \in 0..Timeout
  /\ powers \in [Wheels -> Int]
  /\ next \in 0..(NW + 1)

FeedbackTyped ==
  /\ fb \in {"start", "idle", "status", "rearm", "reopen", "forget", "down"}
  /\ todo \in SUBSET Wheels
  /\ count \in 0..(StatusEvery - 1)
  /\ fails \in 0..(BulkLimit - 1)
  /\ strikes \in 0..1
  /\ attempts \in 0..MaxAttempts
  /\ fb \in {"start", "reopen"} => attempts < MaxAttempts

HubTyped ==
  /\ memory \in [Wheels -> Int] \cup {NONE}
  /\ hubOn \in SUBSET Wheels
  /\ hubOut \in [Wheels -> Int]
  /\ budget \in 0..MaxFaults

BitsTyped == usable \in BOOLEAN /\ latch \in BOOLEAN

Typed == CommandTyped /\ FeedbackTyped /\ HubTyped /\ BitsTyped

LEMMA TypedIsTypeOK == Typed => TypeOK
BY Zenon DEF Typed, TypeOK, CommandTyped, FeedbackTyped, HubTyped, BitsTyped

LEMMA ZeroVector == Zero \in [Wheels -> Int]
BY DEF Zero

(* What _apply computes is a vector of whole powers. *)
LEMMA QuantizedVector ==
  ASSUME NEW t \in [Wheels -> Int]
  PROVE  [w \in Wheels |-> Quantize(t[w], Quantum)] \in [Wheels -> Int]
<1> SUFFICES ASSUME NEW w \in Wheels PROVE Quantize(t[w], Quantum) \in Int
  OBVIOUS
<1> QED
  BY QuantizeNear, XDriveAssumption
LEMMA InitTyped == Init => Typed
<1>1. Init => CommandTyped /\ FeedbackTyped /\ HubTyped
  BY XDriveAssumption, ZeroVector DEF Init, CommandTyped, FeedbackTyped, HubTyped
<1>2. Init => BitsTyped
  BY Zenon DEF Init, BitsTyped
<1> QED
  BY <1>1, <1>2 DEF Typed

-----------------------------------------------------------------------------
(* The feedback group, the hub and the environment leave the command half.  *)
LEMMA CommandStep ==
  ASSUME Typed, [Next]_vars
  PROVE  CommandTyped'
<1> USE XDriveAssumption, ZeroVector DEF Typed, CommandTyped
<1>1. CASE OnCmd
  BY <1>1 DEF OnCmd
<1>2. CASE SafetyTick
  <2>1. target' \in Demands /\ age' \in 0..Timeout /\ next' \in 0..(NW + 1)
    BY <1>2 DEF SafetyTick
  <2>2. target' \in [Wheels -> Int]
    BY <2>1
  <2>3. powers' \in [Wheels -> Int]
    BY <1>2, <2>2, QuantizedVector DEF SafetyTick
  <2> QED
    BY <2>1, <2>3
<1>3. CASE SendPower
  BY <1>3 DEF SendPower, Wheels
<1>4. CASE SendFails \/ ApplyDone
  BY <1>4 DEF SendFails, ApplyDone
<1>5. CASE Restart
  BY <1>5 DEF Restart
<1>6. CASE UNCHANGED command
  BY <1>6 DEF command
<1>7. [Next]_vars => \/ OnCmd \/ SafetyTick \/ SendPower \/ SendFails \/ ApplyDone
                     \/ Restart \/ UNCHANGED command
  BY Zenon DEF Next, vars, CommandGroup, FeedbackGroup, Failure, BulkOk, BulkFails, StatusClean,
     StatusBlip, StatusMute, StatusRecover, RearmOk, RearmDone, RearmFails, OpenOk,
     ForgetApplied, OpenFails, Stop, HubTrip, HubLapse
<1> QED
  BY <1>1, <1>2, <1>3, <1>4, <1>5, <1>6, <1>7

(* The command group, the hub and new commands leave the feedback half.     *)
LEMMA FeedbackStep ==
  ASSUME Typed, [Next]_vars
  PROVE  FeedbackTyped'
<1> USE XDriveAssumption DEF Typed, FeedbackTyped
<1>1. CASE BulkOk
  BY <1>1 DEF BulkOk
<1>2. CASE BulkFails
  BY <1>2 DEF BulkFails, Recover
<1>3. CASE StatusClean \/ StatusBlip \/ StatusMute
  BY <1>3 DEF StatusClean, StatusBlip, StatusMute
<1>4. CASE StatusRecover
  BY <1>4 DEF StatusRecover, Recover
<1>5. CASE RearmOk
  BY <1>5 DEF RearmOk
<1>6. CASE RearmDone \/ RearmFails \/ ForgetApplied
  BY <1>6 DEF RearmDone, RearmFails, ForgetApplied, feedback
<1>7. CASE OpenOk
  BY <1>7 DEF OpenOk
<1>8. CASE OpenFails
  BY <1>8 DEF OpenFails
<1>9. CASE Restart
  BY <1>9 DEF Restart
<1>10. CASE Stop
  BY <1>10 DEF Stop, feedback
<1>11. CASE UNCHANGED <<fb, feedback>>
  BY <1>11 DEF feedback
<1> QED
  BY <1>1, <1>2, <1>3, <1>4, <1>5, <1>6, <1>7, <1>8, <1>9, <1>10, <1>11
     DEF Next, vars, CommandGroup, FeedbackGroup, Failure, OnCmd, SafetyTick, SendPower,
         SendFails, ApplyDone, HubTrip, HubLapse

LEMMA HubStepTyped ==
  ASSUME Typed, [Next]_vars
  PROVE  HubTyped'
<1> USE XDriveAssumption, ZeroVector DEF Typed, HubTyped
<1>1. CASE SendPower
  BY <1>1 DEF SendPower, SetPower, CommandTyped
<1>2. CASE SendFails \/ ApplyDone
  BY <1>2 DEF SendFails, ApplyDone, SetPower, Fault, CommandTyped, hub
<1>3. CASE BulkFails \/ StatusRecover \/ Stop
  BY <1>3 DEF BulkFails, StatusRecover, Stop, Recover, NoAnswer, Fault, HubOff
<1>4. CASE StatusMute
  BY <1>4 DEF StatusMute, NoAnswer, Fault
<1>5. CASE RearmOk \/ RearmFails
  BY <1>5 DEF RearmOk, RearmFails, EnableNext, Fault
<1>6. CASE RearmDone \/ ForgetApplied
  BY <1>6 DEF RearmDone, ForgetApplied, hub
<1>7. CASE OpenOk
  BY <1>7 DEF OpenOk
<1>8. CASE OpenFails
  BY <1>8 DEF OpenFails, Fault, HubOff
<1>9. CASE Restart
  BY <1>9 DEF Restart, hub
<1>10. CASE HubTrip \/ HubLapse
  BY <1>10 DEF HubTrip, HubLapse, Fault, HubOff
<1>11. CASE UNCHANGED <<memory, hubOn, hubOut, budget>>
  BY <1>11
<1> QED
  BY <1>1, <1>2, <1>3, <1>4, <1>5, <1>6, <1>7, <1>8, <1>9, <1>10, <1>11
     DEF Next, vars, CommandGroup, FeedbackGroup, Failure, OnCmd, SafetyTick,
         BulkOk, StatusClean, StatusBlip, hub

LEMMA BitsStep ==
  ASSUME Typed, [Next]_vars
  PROVE  BitsTyped'
<1> USE DEF Typed, BitsTyped
<1>1. CASE BulkFails \/ StatusRecover \/ StatusMute \/ Stop
  BY Zenon, <1>1 DEF BulkFails, StatusRecover, StatusMute, Stop, NoAnswer, Recover
<1>2. CASE StatusBlip \/ OpenOk
  BY Zenon, <1>2 DEF StatusBlip, OpenOk
<1>3. CASE OpenFails
  BY Zenon, <1>3 DEF OpenFails
<1>4. CASE Restart
  BY Zenon, <1>4 DEF Restart, hub
<1>5. CASE HubTrip \/ HubLapse
  BY Zenon, <1>5 DEF HubTrip, HubLapse
<1>6. CASE UNCHANGED <<usable, latch>>
  BY Zenon, <1>6
<1>7. [Next]_vars => \/ BulkFails \/ StatusRecover \/ StatusMute \/ Stop \/ StatusBlip
                     \/ OpenOk \/ OpenFails \/ Restart \/ HubTrip \/ HubLapse \/ UNCHANGED <<usable, latch>>
  BY DEF Next, vars, CommandGroup, FeedbackGroup, Failure, OnCmd, SafetyTick, SendPower,
         SendFails, ApplyDone, BulkOk, StatusClean, RearmOk, RearmDone, RearmFails,
         ForgetApplied, hub
<1> QED
  BY Zenon, <1>1, <1>2, <1>3, <1>4, <1>5, <1>6, <1>7

LEMMA StepTyped == Typed /\ [Next]_vars => Typed'
BY CommandStep, FeedbackStep, HubStepTyped, BitsStep DEF Typed

(* The types hold for every instance, whatever the two callback groups do   *)
(* in between each other's steps.                                           *)
THEOREM TypeCorrect == Spec => []TypeOK
BY InitTyped, StepTyped, TypedIsTypeOK, PTL DEF Spec

-----------------------------------------------------------------------------
(* While no session is open nothing drives, nor does a disabled channel; a  *)
(* wheel _apply has passed is at rest or at its new power; and between two  *)
(* _apply calls the memory is right about every wheel that drives.          *)
OffIsStill == \A w \in Wheels \ hubOn : hubOut[w] = 0
ClosedIsStill == ~usable => hubOut = Zero
ClosedWhile == fb \in {"start", "reopen", "down"} => ~usable
PassedIsSent == \A w \in Wheels : w < next => hubOut[w] \in {0, powers[w]}
MemoryIsRight ==
  next = 0 /\ memory # NONE => \A w \in Wheels : hubOut[w] \in {0, memory[w]}

DedupeInv == Typed /\ OffIsStill /\ ClosedIsStill /\ ClosedWhile /\ PassedIsSent /\ MemoryIsRight

LEMMA InitDedupe == Init => DedupeInv
BY InitTyped DEF Init, DedupeInv, OffIsStill, ClosedIsStill, ClosedWhile, PassedIsSent, MemoryIsRight, Zero

(* A channel goes off together with its output, and SendPower heeds it.     *)
LEMMA StepOff == Typed /\ OffIsStill /\ [Next]_vars => OffIsStill'
<1> SUFFICES ASSUME Typed, OffIsStill, [Next]_vars PROVE OffIsStill'
  OBVIOUS
<1>1. CASE SetPower /\ hubOn' = hubOn
  BY <1>1 DEF SetPower, OffIsStill, Typed, HubTyped
<1>2. CASE hubOut' = Zero
  BY <1>2 DEF OffIsStill, Zero
<1>3. CASE hubOut' = hubOut /\ hubOn \subseteq hubOn'
  BY <1>3 DEF OffIsStill
<1>4. CASE SendPower \/ SendFails
  BY <1>4, <1>1, <1>3 DEF SendPower, SendFails
<1>5. CASE BulkFails \/ StatusRecover \/ OpenFails \/ Stop
  BY <1>5, <1>2, <1>3 DEF BulkFails, StatusRecover, OpenFails, Stop, Recover, HubOff
<1>6. CASE RearmOk \/ RearmFails
  BY <1>6, <1>3 DEF RearmOk, RearmFails, EnableNext
<1> QED
  BY <1>2, <1>3, <1>4, <1>5, <1>6
     DEF Next, vars, CommandGroup, FeedbackGroup, Failure, OnCmd, SafetyTick, ApplyDone,
         BulkOk, StatusClean, StatusBlip, StatusMute, RearmDone, OpenOk, ForgetApplied,
         Restart, HubTrip, HubLapse, HubOff, hub

(* A step that lets every wheel be or stops it, and leaves the command half.*)
LEMMA StopOrKeep ==
  ASSUME PassedIsSent, MemoryIsRight, UNCHANGED command, memory' \in {memory, NONE},
         hubOut' \in {hubOut, Zero}
  PROVE  PassedIsSent' /\ MemoryIsRight'
BY DEF PassedIsSent, MemoryIsRight, command, Zero

LEMMA StepDedupe ==
  ASSUME "lost" \notin Faults, DedupeInv, [Next]_vars
  PROVE  DedupeInv'
<1> USE DEF DedupeInv
<1>1. Typed' /\ OffIsStill'
  BY StepTyped, StepOff
<1>2. CASE OnCmd
  BY <1>1, <1>2 DEF OnCmd, ClosedIsStill, ClosedWhile, PassedIsSent, MemoryIsRight, hub
<1>3. CASE SafetyTick
  <2>1. ClosedIsStill' /\ ClosedWhile'
    BY <1>3 DEF SafetyTick, ClosedIsStill, ClosedWhile, hub
  <2>2. next' \in {0, 1}
    BY <1>3 DEF SafetyTick
  <2>3. PassedIsSent'
    BY <2>2, XDriveAssumption DEF PassedIsSent, Wheels
  <2>4. MemoryIsRight'
    BY <1>3 DEF SafetyTick, MemoryIsRight, hub
  <2> QED
    BY <1>1, <2>1, <2>3, <2>4
<1>4. CASE SendPower
  <2> USE <1>4 DEF SendPower, SetPower
  <2>1. ClosedIsStill' /\ ClosedWhile'
    BY DEF ClosedIsStill, ClosedWhile
  <2>2. ASSUME NEW w \in Wheels, w < next'
        PROVE  hubOut'[w] \in {0, powers[w]}
    <3> USE XDriveAssumption DEF Typed, CommandTyped, HubTyped, PassedIsSent, OffIsStill, Wheels
    <3>1. CASE w < next
      BY <3>1
    <3>2. CASE w = next
      BY <3>2
    <3> QED
      BY <2>2, <3>1, <3>2
  <2>3. PassedIsSent'
    BY <2>2 DEF PassedIsSent
  <2>4. MemoryIsRight'
    BY XDriveAssumption DEF MemoryIsRight, Wheels
  <2> QED
    BY <1>1, <2>1, <2>3, <2>4
<1>5. CASE SendFails
  <2>1. hubOut = Zero
    BY <1>5 DEF SendFails, Fault, ClosedIsStill
  <2>2. hubOut' = Zero /\ UNCHANGED <<fb, usable>>
    BY <1>5, <2>1 DEF SendFails, Fault
  <2> QED
    BY <1>1, <2>2 DEF ClosedIsStill, ClosedWhile, PassedIsSent, MemoryIsRight, Zero
<1>6. CASE ApplyDone
  <2>1. ClosedIsStill' /\ ClosedWhile'
    BY <1>6 DEF ApplyDone, ClosedIsStill, ClosedWhile, hub
  <2>2. PassedIsSent'
    BY <1>6, XDriveAssumption DEF ApplyDone, PassedIsSent, Wheels
  <2>3. MemoryIsRight'
    BY <1>6, XDriveAssumption DEF ApplyDone, PassedIsSent, MemoryIsRight, Wheels, hub
  <2> QED
    BY <1>1, <2>1, <2>2, <2>3
<1>7. CASE BulkOk \/ StatusClean \/ StatusBlip \/ StatusMute \/ RearmOk \/ RearmFails
  <2>1. UNCHANGED <<command, usable, memory, hubOut>> /\ fb' \in {"idle", "status", "rearm"}
    BY <1>7 DEF BulkOk, StatusClean, StatusBlip, StatusMute, RearmOk, RearmFails, hub
  <2> QED
    BY <1>1, <2>1, StopOrKeep DEF ClosedIsStill, ClosedWhile
<1>8. CASE BulkFails \/ StatusRecover \/ Stop
  <2>1. /\ UNCHANGED <<command, memory>>
        /\ \/ hubOut' = Zero /\ usable' = FALSE
           \/ UNCHANGED <<hubOut, usable, fb>>
    BY <1>8 DEF BulkFails, StatusRecover, Stop, Recover, HubOff
  <2> QED
    BY <1>1, <2>1, StopOrKeep DEF ClosedIsStill, ClosedWhile
<1>9. CASE RearmDone \/ ForgetApplied
  <2>1. UNCHANGED <<command, usable, hubOut>> /\ memory' = NONE /\ fb' = "idle"
    BY <1>9 DEF RearmDone, ForgetApplied, hub
  <2> QED
    BY <1>1, <2>1, StopOrKeep DEF ClosedIsStill, ClosedWhile
<1>10. CASE OpenOk
  <2>1. hubOut' = Zero /\ usable' /\ fb' \in {"idle", "forget"} /\ UNCHANGED command
    BY <1>10 DEF OpenOk
  <2> QED
    BY <1>1, <2>1 DEF ClosedIsStill, ClosedWhile, PassedIsSent, MemoryIsRight, Zero
<1>11. CASE OpenFails
  <2>1. UNCHANGED <<command, memory, usable>> /\ ~usable /\ hubOut' \in {hubOut, Zero}
    BY <1>11 DEF OpenFails, HubOff, ClosedWhile
  <2> QED
    BY <1>1, <2>1, StopOrKeep DEF ClosedIsStill, ClosedWhile
<1>12. CASE Restart
  <2>1. hubOut' = Zero /\ ~usable' /\ memory' = NONE
    BY <1>12 DEF Restart, ClosedWhile, ClosedIsStill, hub
  <2> QED
    BY <1>1, <2>1 DEF ClosedIsStill, ClosedWhile, PassedIsSent, MemoryIsRight, Zero
<1>13. CASE HubTrip \/ HubLapse
  <2>1. UNCHANGED <<command, memory, fb, usable>> /\ hubOut' = Zero
    BY <1>13 DEF HubTrip, HubLapse, HubOff
  <2> QED
    BY <1>1, <2>1, StopOrKeep DEF ClosedIsStill, ClosedWhile
<1>14. CASE UNCHANGED vars
  <2>1. UNCHANGED <<command, fb, usable, memory, hubOut>>
    BY <1>14 DEF vars, hub
  <2> QED
    BY <1>1, <2>1, StopOrKeep DEF ClosedIsStill, ClosedWhile
<1> QED
  BY <1>2, <1>3, <1>4, <1>5, <1>6, <1>7, <1>8, <1>9, <1>10, <1>11, <1>12, <1>13, <1>14
     DEF Next, CommandGroup, FeedbackGroup, Failure

(* As long as no set_power fails, the memory that two callback groups write *)
(* without a lock never hides a command a driving wheel needs: re-arms and  *)
(* recoveries may overtake an _apply at any of its calls.                   *)
THEOREM DedupeIsSafeAlways ==
  ASSUME "lost" \notin Faults
  PROVE  Spec => []DedupeIsSafe
<1>1. DedupeInv => DedupeIsSafe
  BY DEF DedupeInv, MemoryIsRight, DedupeIsSafe
<1>2. DedupeInv /\ [Next]_vars => DedupeInv'
  BY StepDedupe
<1> QED
  BY InitDedupe, <1>1, <1>2, PTL DEF Spec

-----------------------------------------------------------------------------
(* The safe half of CommandTimeoutStops.  The zero of an expired target is   *)
(* suppressed only when no wheel drives, and a vector of zeros that got to   *)
(* its end has stopped every wheel.                                          *)
StopReachesWheels ==
  [][\/ SafetyTick /\ age = Timeout /\ next' = 0
     \/ ApplyDone /\ powers = Zero
     => hubOut' = Zero]_vars

LEMMA StopStep ==
  ASSUME DedupeInv
  PROVE  (SafetyTick /\ age = Timeout /\ next' = 0) \/ (ApplyDone /\ powers = Zero) => hubOut' = Zero
<1> USE DEF DedupeInv, Typed, HubTyped, Zero
<1>1. ASSUME SafetyTick, age = Timeout, next' = 0 PROVE hubOut' = Zero
  <2>1. memory = [w \in Wheels |-> Quantize(0, Quantum)] /\ next = 0 /\ hubOut' = hubOut
    BY <1>1 DEF SafetyTick, hub
  <2>2. Quantize(0, Quantum) = 0
    <3>1. 0 = 0 * Quantum
      BY XDriveAssumption
    <3> QED
      BY <3>1, XDriveAssumption, QuantizeGrid DEF OnGrid
  <2>3. \A w \in Wheels : hubOut[w] = 0
    BY <2>1, <2>2, XDriveAssumption DEF MemoryIsRight
  <2> QED
    BY <2>1, <2>3
<1>2. ASSUME ApplyDone, powers = Zero PROVE hubOut' = Zero
  <2>1. \A w \in Wheels : hubOut[w] = 0
    BY <1>2, XDriveAssumption DEF ApplyDone, PassedIsSent, Wheels
  <2> QED
    BY <1>2, <2>1 DEF ApplyDone, hub
<1> QED
  BY <1>1, <1>2

(* As long as no set_power fails, a command timeout ends with the motors at  *)
(* zero in the step that says so: re-arms, reconnects and the memory both    *)
(* callback groups write cannot make _apply skip a stop that is needed.      *)
THEOREM StopReachesWheelsAlways ==
  ASSUME "lost" \notin Faults
  PROVE  Spec => StopReachesWheels
<1>1. DedupeInv /\ [Next]_vars => DedupeInv'
  BY StepDedupe
<1>2. DedupeInv /\ [Next]_vars =>
        [(SafetyTick /\ age = Timeout /\ next' = 0) \/ (ApplyDone /\ powers = Zero)
           => hubOut' = Zero]_vars
  BY StopStep
<1> QED
  BY InitDedupe, <1>1, <1>2, PTL DEF Spec, StopReachesWheels

-----------------------------------------------------------------------------
(* The safe half of RecoveryEnds: unless a call of a re-arm raises, or the   *)
(* answer of a clearing status read is lost on its way, a session whose      *)
(* status register is clean has every channel enabled, but for those the     *)
(* re-arm loop has yet to reach.                                             *)
CleanMeansEnabled == Kept /\ ~latch /\ (fb = "rearm" => todo = {}) => hubOn = Wheels

CleanInv == Kept /\ ~latch => IF fb = "rearm" THEN Wheels \ todo \subseteq hubOn ELSE hubOn = Wheels

LEMMA CleanStep ==
  ASSUME "arm" \notin Faults, "mute" \notin Faults, Typed, CleanInv, [Next]_vars
  PROVE  CleanInv'
<1> USE DEF CleanInv, Kept
<1>0. hubOn \in SUBSET Wheels /\ todo \in SUBSET Wheels
  BY DEF Typed, HubTyped, FeedbackTyped
<1>1. CASE RearmOk
  <2>1. PICK w \in todo : hubOn' = hubOn \cup {w} /\ todo' = todo \ {w}
    BY <1>1 DEF RearmOk, EnableNext
  <2>2. fb = "rearm" /\ fb' = "rearm" /\ latch' = latch
    BY <1>1 DEF RearmOk
  <2> QED
    BY <2>1, <2>2
<1>2. CASE RearmDone
  BY <1>0, <1>2 DEF RearmDone, hub
<1>3. CASE StatusBlip
  BY <1>3 DEF StatusBlip
<1>4. CASE OpenOk
  BY <1>4 DEF OpenOk
<1>5. CASE HubTrip
  BY <1>5 DEF HubTrip
<1>6. CASE fb' \in {"start", "reopen", "down"}
  BY <1>6
<1>7. CASE UNCHANGED <<fb, todo, hubOn, latch>>
  BY <1>7
<1>8. CASE fb \in {"idle", "status", "forget"} /\ fb' \in {"idle", "status"} /\ UNCHANGED <<hubOn, latch>>
  BY <1>8
<1>9. ~RearmFails
  BY DEF RearmFails, Fault
<1> QED
  BY <1>1, <1>2, <1>3, <1>4, <1>5, <1>6, <1>7, <1>8, <1>9
     DEF Next, CommandGroup, FeedbackGroup, Failure, vars, feedback, hub, OnCmd, SafetyTick,
         SendPower, SendFails, ApplyDone, BulkOk, BulkFails, Recover, StatusClean, StatusMute,
         NoAnswer, Fault, StatusRecover, ForgetApplied, OpenFails, Stop, Restart, HubLapse

(* Fail-safes, failed reads, reconnects and lost set_power calls leave a     *)
(* session whose channels are on, or bits in the register that say they are  *)
(* not: a fail-safe cannot slip between the status read and the re-arm.  The *)
(* two assumptions are what the code needs: `get_module_status(clear=True)'  *)
(* wipes the bits even when its answer is lost, and nothing re-arms then,    *)
(* nor after a re-arm that raised.                                           *)
THEOREM CleanMeansEnabledAlways ==
  ASSUME "arm" \notin Faults, "mute" \notin Faults
  PROVE  Spec => []CleanMeansEnabled
<1>1. Init => CleanInv
  BY DEF Init, CleanInv, Kept
<1>2. Typed /\ CleanInv /\ [Next]_vars => CleanInv'
  BY CleanStep
<1>3. Typed /\ CleanInv => CleanMeansEnabled
  BY DEF CleanInv, CleanMeansEnabled, Typed, HubTyped
<1> QED
  BY InitTyped, StepTyped, <1>1, <1>2, <1>3, PTL DEF Spec
=============================================================================
