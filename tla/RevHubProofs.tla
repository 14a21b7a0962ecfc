---------------------------- MODULE RevHubProofs ----------------------------
(***************************************************************************)
(* Proofs about RevHub for every number of wheels, slew, quantum, set of   *)
(* demands, status period, attempt limit and kind and number of faults.    *)
(***************************************************************************)
EXTENDS RevHub, WheelNumericsProofs

USE RevHubAssumption DEF Wheels, Zero, Live

-----------------------------------------------------------------------------
(* What slew_apply computes is a wheel vector near what it remembers.      *)
LEMMA SlewVector ==
  ASSUME NEW f \in [Wheels -> Int], NEW t \in [Wheels -> Int], NEW w \in Wheels
  PROVE  /\ SlewStep(f[w], t[w], Slew, Quantum) \in Int
         /\ Near(SlewStep(f[w], t[w], Slew, Quantum), f[w])
<1>1. f[w] \in Int /\ t[w] \in Int /\ Slew \in Nat /\ Quantum \in Nat \ {0}
  OBVIOUS
<1> QED
  BY <1>1, SlewStepNear DEF Near

(* A set point is as near to itself as anything can be. *)
LEMMA NearSelf == \A a \in Int : Near(a, a)
  BY DEF Near, Abs

-----------------------------------------------------------------------------
(* The parts the actions are built from keep their part of the type.       *)
LEMMA FaultType ==
  ASSUME TypeOK, NEW f, Fault(f)
  PROVE  budget' \in 0..MaxFaults
BY DEF TypeOK, Fault

LEMMA HubOffType ==
  ASSUME NEW bits \in BOOLEAN, HubOff(bits)
  PROVE  HubTypeOK'
BY DEF HubOff, HubTypeOK

LEMMA HubCommandType ==
  ASSUME HubTypeOK, NEW w \in Wheels, NEW v \in Int, HubCommand(w, v)
  PROVE  HubTypeOK'
BY DEF HubCommand, HubTypeOK

LEMMA HubAttachType ==
  ASSUME HubTypeOK, NEW w \in Wheels, HubAttach(w)
  PROVE  HubTypeOK'
BY DEF HubAttach, HubTypeOK

LEMMA HubSameType ==
  ASSUME HubTypeOK, UNCHANGED hub
  PROVE  HubTypeOK'
BY DEF hub, HubTypeOK

LEMMA TypeInit == Init => TypeOK
<1>1. Init => stop \in BOOLEAN /\ wanted \in BOOLEAN /\ HubTypeOK
  BY DEF Init, HubTypeOK
<1> QED
  BY <1>1 DEF Init, TypeOK

LEMMA TypeStep ==
  ASSUME TypeOK, [Next]_vars
  PROVE  TypeOK'
<1> USE DEF TypeOK
<1>1. CASE UNCHANGED vars
  BY <1>1, HubSameType DEF vars, driver, unit
<1>2. CASE Demand
  BY <1>2, HubSameType DEF Demand, driver, unit
<1>3. CASE OpenOk
  <2>1. HubTypeOK'
    BY <1>3 DEF OpenOk, HubTypeOK
  <2> QED
    BY <1>3, <2>1 DEF OpenOk, unit
<1>4. CASE OpenFail
  <2>1. HubTypeOK'
    <3>1. latch \in BOOLEAN
      BY DEF HubTypeOK
    <3>2. CASE UNCHANGED hub
      BY <3>2, HubSameType
    <3>3. CASE hubOn' = Wheels /\ hubOut' = Zero /\ UNCHANGED latch
      BY <3>1, <3>3 DEF HubTypeOK
    <3>4. CASE HubOff(latch)
      BY <3>1, <3>4, HubOffType
    <3> QED
      BY <1>4, <3>2, <3>3, <3>4 DEF OpenFail
  <2>2. budget' \in 0..MaxFaults
    BY <1>4, FaultType DEF OpenFail
  <2> QED
    BY <1>4, <2>1, <2>2 DEF OpenFail, unit
<1>22. CASE OpenMissing
  <2>1. budget' \in 0..MaxFaults
    BY <1>22, FaultType DEF OpenMissing
  <2> QED
    BY <1>22, <2>1, HubSameType DEF OpenMissing, unit
<1>5. CASE BeginTick
  <2>1. \A w \in Wheels : SlewStep(applied[w], demand[w], Slew, Quantum) \in Int
    BY SlewVector
  <2> QED
    BY <1>5, <2>1, HubSameType DEF BeginTick, unit
<1>6. CASE SendOk
  <2>1. PICK w \in Wheels : /\ HubCommand(w, out[w])
                            /\ applied' = [applied EXCEPT ![w] = out[w]]
    BY <1>6 DEF SendOk
  <2>2. HubTypeOK'
    BY <2>1, HubCommandType
  <2> QED
    BY <1>6, <2>1, <2>2 DEF SendOk, unit
<1>7. CASE SendDone
  BY <1>7, HubSameType DEF SendDone, EndSend, unit
<1>8. CASE SendFail
  <2>1. PICK w \in Wheels : \/ Fault("lost") /\ UNCHANGED hub
                            \/ Fault("noack") /\ HubCommand(w, out[w])
    BY <1>8 DEF SendFail
  <2>2. HubTypeOK'
    BY <2>1, HubSameType, HubCommandType
  <2>3. budget' \in 0..MaxFaults
    BY <2>1, FaultType
  <2> QED
    BY <1>8, <2>2, <2>3 DEF SendFail, EndSend, unit
<1>9. CASE Sleep
  BY <1>9, HubSameType DEF Sleep, unit
<1>10. CASE StatusClean
  BY <1>10, HubSameType DEF StatusClean, unit
<1>11. CASE StatusBlip
  <2>1. HubTypeOK'
    BY <1>11 DEF StatusBlip, HubTypeOK
  <2> QED
    BY <1>11, <2>1 DEF StatusBlip, unit
<1>12. CASE StatusMute
  <2>1. latch' \in BOOLEAN /\ budget' \in 0..MaxFaults
    BY <1>12, FaultType DEF StatusMute, NoAnswer, HubTypeOK
  <2>2. HubTypeOK'
    BY <1>12, <2>1 DEF StatusMute, HubTypeOK
  <2> QED
    BY <1>12, <2>1, <2>2 DEF StatusMute, unit
<1>21. CASE StatusRecover
  <2>1. latch' \in BOOLEAN /\ budget' \in 0..MaxFaults
    BY <1>21, FaultType DEF StatusRecover, NoAnswer, HubTypeOK
  <2>2. HubTypeOK'
    BY <1>21, <2>1 DEF StatusRecover, HubTypeOK
  <2> QED
    BY <1>21, <2>1, <2>2 DEF StatusRecover, unit
<1>13. CASE RearmOk
  <2>1. PICK w \in Wheels : HubAttach(w) /\ todo' = todo \ {w}
    BY <1>13 DEF RearmOk
  <2>2. HubTypeOK'
    BY <2>1, HubAttachType
  <2> QED
    BY <1>13, <2>1, <2>2 DEF RearmOk, unit
<1>14. CASE RearmDone
  BY <1>14, HubSameType DEF RearmDone, unit
<1>15. CASE RearmFail
  <2>1. PICK w \in Wheels : \/ Fault("lost") /\ UNCHANGED hub
                            \/ Fault("noack") /\ HubAttach(w)
    BY <1>15 DEF RearmFail
  <2>2. HubTypeOK'
    BY <2>1, HubSameType, HubAttachType
  <2>3. budget' \in 0..MaxFaults
    BY <2>1, FaultType
  <2> QED
    BY <1>15, <2>2, <2>3 DEF RearmFail, unit
<1>16. CASE StopSignal
  BY <1>16, HubSameType DEF StopSignal, driver
<1>17. CASE Shutdown
  <2>1. HubTypeOK'
    BY <1>17, HubSameType, HubOffType DEF Shutdown, HubTypeOK
  <2>2. budget' \in 0..MaxFaults
    BY <1>17, FaultType DEF Shutdown
  <2> QED
    BY <1>17, <2>1, <2>2 DEF Shutdown, unit
<1>18. CASE Restart
  <2>1. stop' \in BOOLEAN /\ wanted' \in BOOLEAN
    BY <1>18 DEF Restart
  <2> QED
    BY <1>18, <2>1, HubSameType DEF Restart
<1>19. CASE HubTrip
  BY <1>19, FaultType, HubOffType DEF HubTrip, driver, unit
<1>20. CASE HubLapse
  BY <1>20, HubOffType DEF HubLapse, driver, unit
<1> QED
  BY <1>1, <1>2, <1>3, <1>4, <1>5, <1>6, <1>7, <1>8, <1>9, <1>10, <1>11,
     <1>12, <1>13, <1>14, <1>15, <1>16, <1>17, <1>18, <1>19, <1>20, <1>21, <1>22
     DEF Next, Loop, Failure

(* The type invariant: in particular the driver never counts a second      *)
(* strike without reconnecting, and never more attempts than the limit.    *)
THEOREM TypeCorrect == Spec => []TypeOK
<1>1. TypeOK /\ [Next]_vars => TypeOK'
  BY TypeStep
<1> QED
  BY TypeInit, <1>1, PTL DEF Spec

-----------------------------------------------------------------------------
(* What a step can do to the channels: nothing, put them all to rest, send *)
(* one pending command, or attach one channel of the re-arm loop.          *)
HubQuiet == UNCHANGED <<hubOn, hubOut>>
HubRest == hubOut' = Zero /\ hubOn' \in SUBSET Wheels
HubSend == pc = "send" /\ \E w \in Pending : HubCommand(w, out[w])
HubRearm == pc = "rearm" /\ \E w \in todo : HubAttach(w)

LEMMA HubStep ==
  ASSUME TypeOK, [Next]_vars
  PROVE  HubQuiet \/ HubRest \/ HubSend \/ HubRearm
<1> USE DEF HubQuiet, HubRest, HubSend, HubRearm, hub
<1>1. CASE SendOk \/ SendFail
  BY <1>1 DEF SendOk, SendFail, IsNext
<1>2. CASE RearmOk \/ RearmFail
  BY <1>2 DEF RearmOk, RearmFail, IsNext
<1>3. CASE OpenOk \/ OpenFail \/ OpenMissing \/ StatusRecover \/ Shutdown \/ HubTrip \/ HubLapse
  BY <1>3 DEF OpenOk, OpenFail, OpenMissing, StatusRecover, Shutdown, HubTrip, HubLapse, HubOff
<1>4. CASE \/ UNCHANGED vars \/ Demand \/ BeginTick \/ SendDone \/ Sleep
           \/ StatusClean \/ StatusBlip \/ StatusMute \/ RearmDone
           \/ StopSignal \/ Restart
  BY <1>4 DEF vars, Demand, BeginTick, SendDone, EndSend, Sleep, StatusClean,
              StatusBlip, StatusMute, RearmDone, StopSignal, Restart
<1> QED
  BY <1>1, <1>2, <1>3, <1>4 DEF Next, Loop, Failure

(* A disabled channel stays at rest. *)
LEMMA OffStep ==
  ASSUME TypeOK, OffIsStill, [Next]_vars
  PROVE  OffIsStill'
<1> USE DEF TypeOK, HubTypeOK, OffIsStill
<1>1. CASE HubQuiet
  BY <1>1 DEF HubQuiet
<1>2. CASE HubRest
  BY <1>2 DEF HubRest
<1>3. CASE HubSend
  BY <1>3 DEF HubSend, HubCommand, Pending
<1>4. CASE HubRearm
  BY <1>4 DEF HubRearm, HubAttach
<1> QED
  BY <1>1, <1>2, <1>3, <1>4, HubStep

-----------------------------------------------------------------------------
(* The vector being sent stays one slew step from `applied`: it is computed*)
(* so, and each acknowledged command brings `applied` to it.               *)
LEMMA SendNearStep ==
  ASSUME TypeOK, SendIsNear, [Next]_vars
  PROVE  SendIsNear'
<1> USE DEF TypeOK, SendIsNear
<1>1. CASE BeginTick
  <2> SUFFICES ASSUME NEW w \in Wheels
               PROVE  Near(out'[w], applied'[w])
    OBVIOUS
  <2>1. out'[w] = SlewStep(applied[w], demand[w], Slew, Quantum)
    BY <1>1 DEF BeginTick
  <2>2. Near(SlewStep(applied[w], demand[w], Slew, Quantum), applied[w])
    BY SlewVector
  <2> QED
    BY <1>1, <2>1, <2>2 DEF BeginTick
<1>2. CASE SendOk
  <2>1. PICK w \in Wheels : applied' = [applied EXCEPT ![w] = out[w]]
    BY <1>2 DEF SendOk
  <2>2. pc = "send" /\ out' = out
    BY <1>2 DEF SendOk
  <2> SUFFICES ASSUME NEW v \in Wheels
               PROVE  Near(out[v], applied'[v])
    BY <2>2
  <2>3. CASE v = w
    BY <2>1, <2>3, NearSelf
  <2>4. CASE v # w
    BY <2>1, <2>2, <2>4
  <2> QED
    BY <2>3, <2>4
<1>3. CASE pc' # "send"
  BY <1>3
<1>4. CASE UNCHANGED <<pc, out, applied>>
  BY <1>4
<1> QED
  BY <1>1, <1>2, <1>3, <1>4 DEF Next, Loop, Failure, vars, driver, Demand,
     OpenOk, OpenFail, OpenMissing, SendDone, SendFail, EndSend, Sleep, StatusClean,
     StatusBlip, StatusMute, StatusRecover, RearmOk, RearmDone, RearmFail,
     StopSignal, Shutdown, Restart, HubTrip, HubLapse

(* A channel the re-arm loop has passed is at rest until the loop is done. *)
LEMMA RearmedStep ==
  ASSUME TypeOK, RearmedIsStill, [Next]_vars
  PROVE  RearmedIsStill'
<1> USE DEF TypeOK, HubTypeOK, RearmedIsStill
<1>1. CASE RearmOk
  <2>1. PICK w \in Wheels : HubAttach(w) /\ todo' = todo \ {w}
    BY <1>1 DEF RearmOk
  <2> QED
    BY <1>1, <2>1 DEF RearmOk, HubAttach
<1>2. CASE StatusBlip
  BY <1>2 DEF StatusBlip
<1>3. CASE HubTrip
  BY <1>3 DEF HubTrip, HubOff, driver
<1>4. CASE pc' # "rearm"
  BY <1>4
<1>5. CASE UNCHANGED <<pc, todo, hubOut>>
  BY <1>5
<1> QED
  BY <1>1, <1>2, <1>3, <1>4, <1>5 DEF Next, Loop, Failure, vars, driver, hub,
     Demand, OpenOk, OpenFail, OpenMissing, BeginTick, SendOk, SendDone, SendFail, EndSend,
     Sleep, StatusClean, StatusMute, StatusRecover, RearmDone, RearmFail,
     StopSignal, Shutdown, Restart, HubLapse

-----------------------------------------------------------------------------
(* What a step of a live session can do to one channel's set point h and to*)
(* the driver's memory a of it.  Both HubFollowsApplied and AppliedIsExact *)
(* follow from this case analysis.                                         *)
LEMMA ChannelStep ==
  ASSUME MotorInv, [Next]_vars, Live', NEW w \in Wheels
  PROVE  \/ Live /\ hubOut'[w] = hubOut[w] /\ applied'[w] = applied[w]
         \/ hubOut'[w] = 0
         \/ hubOut'[w] = applied'[w]
         \/ /\ "noack" \in Faults
            /\ hubOut'[w] = out[w]
            /\ applied'[w] = applied[w]
            /\ Near(out[w], applied[w])
<1> USE DEF MotorInv, TypeOK, HubTypeOK
<1>1. CASE OpenOk
  BY <1>1 DEF OpenOk
<1>2. CASE SendOk
  <2>1. PICK v \in Wheels : /\ HubCommand(v, out[v])
                            /\ applied' = [applied EXCEPT ![v] = out[v]]
    BY <1>2 DEF SendOk
  <2>2. CASE v = w
    <3>1. CASE w \in hubOn
      BY <2>1, <2>2, <3>1 DEF HubCommand
    <3>2. CASE w \notin hubOn
      BY <2>1, <2>2, <3>2 DEF HubCommand, OffIsStill
    <3> QED
      BY <3>1, <3>2
  <2>3. CASE v # w
    BY <1>2, <2>1, <2>3 DEF SendOk, HubCommand
  <2> QED
    BY <2>2, <2>3
<1>3. CASE SendFail
  <2>1. PICK v \in Wheels : \/ UNCHANGED hub
                            \/ "noack" \in Faults /\ HubCommand(v, out[v])
    BY <1>3 DEF SendFail, Fault
  <2>2. pc = "send" /\ applied' = applied
    BY <1>3 DEF SendFail, EndSend
  <2>3. CASE UNCHANGED hub
    BY <2>2, <2>3 DEF hub
  <2>4. CASE "noack" \in Faults /\ HubCommand(v, out[v])
    BY <2>2, <2>4 DEF HubCommand, SendIsNear
  <2> QED
    BY <2>1, <2>3, <2>4
<1>4. CASE RearmOk \/ RearmFail
  <2>1. PICK v \in Wheels : UNCHANGED hub \/ HubAttach(v)
    BY <1>4 DEF RearmOk, RearmFail
  <2>2. applied' = applied /\ Live
    BY <1>4 DEF RearmOk, RearmFail
  <2> QED
    BY <2>1, <2>2 DEF HubAttach, hub
<1>5. CASE RearmDone
  BY <1>5 DEF RearmDone, RearmedIsStill, hub
<1>6. CASE HubTrip
  BY <1>6 DEF HubTrip, HubOff
<1>7. CASE ~Live'
  BY <1>7
<1>8. CASE Live /\ UNCHANGED <<applied, hubOut>>
  BY <1>8
<1> QED
  BY <1>1, <1>2, <1>3, <1>4, <1>5, <1>6, <1>7, <1>8 DEF Next, Loop, Failure,
     vars, driver, hub, Demand, OpenFail, OpenMissing, BeginTick, SendDone, EndSend, Sleep,
     StatusClean, StatusBlip, StatusMute, StatusRecover, StopSignal, Shutdown,
     Restart, HubLapse

LEMMA MotorStep ==
  ASSUME MotorInv, [Next]_vars
  PROVE  MotorInv'
<1>1. TypeOK' /\ OffIsStill' /\ SendIsNear' /\ RearmedIsStill'
  BY TypeStep, OffStep, SendNearStep, RearmedStep DEF MotorInv
<1>2. HubFollowsApplied'
  <2> SUFFICES ASSUME Live', NEW w \in Wheels
               PROVE  hubOut'[w] = 0 \/ Near(hubOut'[w], applied'[w])
    BY DEF HubFollowsApplied
  <2>1. hubOut'[w] \in Int /\ applied'[w] \in Int
    BY <1>1 DEF TypeOK, HubTypeOK
  <2> QED
    BY <2>1, ChannelStep, NearSelf DEF MotorInv, HubFollowsApplied
<1>3. AppliedIsExact'
  <2> SUFFICES ASSUME Live', "noack" \notin Faults, NEW w \in Wheels
               PROVE  hubOut'[w] \in {0, applied'[w]}
    BY DEF AppliedIsExact
  <2> QED
    BY ChannelStep DEF MotorInv, AppliedIsExact
<1> QED
  BY <1>1, <1>2, <1>3 DEF MotorInv

LEMMA MotorInit == Init => MotorInv
BY TypeInit DEF Init, MotorInv, OffIsStill, SendIsNear, RearmedIsStill,
                HubFollowsApplied, AppliedIsExact

THEOREM MotorInvariant == Spec => []MotorInv
<1>1. MotorInv /\ [Next]_vars => MotorInv'
  BY MotorStep
<1> QED
  BY MotorInit, <1>1, PTL DEF Spec

(* Lost replies, fail-safes, half-finished re-arms and restarts included, a*)
(* wheel of a live session never drives further than one slew step from    *)
(* what the driver remembers having commanded.                             *)
THEOREM HubFollowsAppliedAlways == Spec => []HubFollowsApplied
<1>1. MotorInv => HubFollowsApplied
  BY DEF MotorInv
<1> QED
  BY MotorInvariant, <1>1, PTL

(* On a line that may lose requests but no replies the memory is exact.    *)
THEOREM AppliedIsExactAlways == Spec => []AppliedIsExact
<1>1. MotorInv => AppliedIsExact
  BY DEF MotorInv
<1> QED
  BY MotorInvariant, <1>1, PTL

-----------------------------------------------------------------------------
(* When every command that acts is answered, CalmInv is inductive, and with *)
(* it a step that moves a channel moves it from `applied` to `out`.         *)
Answered == "noack" \notin Faults

LEMMA CalmStep ==
  ASSUME Answered, MotorInv, CalmInv, [Next]_vars
  PROVE  CalmInv'
<1> USE DEF MotorInv, TypeOK, HubTypeOK, CalmInv
<1>1. CASE OpenOk
  BY <1>1 DEF OpenOk
<1>2. CASE SendOk
  <2>1. PICK v \in Wheels : /\ HubCommand(v, out[v])
                            /\ applied' = [applied EXCEPT ![v] = out[v]]
    BY <1>2 DEF SendOk
  <2> QED
    BY <1>2, <2>1 DEF SendOk, HubCommand
<1>3. CASE SendFail \/ StatusMute \/ RearmFail
  <2>1. UNCHANGED <<hub, applied>>
    BY <1>3 DEF Answered, SendFail, EndSend, StatusMute, RearmFail, NoAnswer, Fault, hub
  <2>2. CASE SendFail \/ StatusMute
    BY <2>1, <2>2 DEF SendFail, EndSend, StatusMute, hub
  <2>3. CASE RearmFail
    BY <2>1, <2>3 DEF RearmFail, IsNext, hub
  <2> QED
    BY <1>3, <2>2, <2>3
<1>4. CASE RearmOk
  BY <1>4 DEF RearmOk, HubAttach
<1>5. CASE RearmDone
  BY <1>5 DEF RearmDone, hub
<1>6. CASE StatusBlip
  BY <1>6 DEF StatusBlip
<1>7. CASE StatusClean
  BY <1>7 DEF StatusClean, hub
<1>8. CASE HubTrip
  BY <1>8 DEF HubTrip, HubOff, driver
<1>9. CASE ~Live'
  BY <1>9
<1>10. CASE /\ Live /\ pc # "rearm" /\ pc' # "rearm"
            /\ UNCHANGED <<applied, todo, strikes, hubOn, hubOut, latch>>
  BY <1>10
<1>11. CASE UNCHANGED <<pc, applied, todo, strikes, hubOn, hubOut, latch>>
  BY <1>11
<1> QED
  BY <1>1, <1>2, <1>3, <1>4, <1>5, <1>6, <1>7, <1>8, <1>9, <1>10, <1>11
     DEF Next, Loop, Failure, vars, driver, hub, Demand, OpenFail, OpenMissing, BeginTick,
     SendDone, EndSend, Sleep, StatusRecover, StopSignal, Shutdown, Restart,
     HubLapse

(* When no reply is lost no channel is made to jump, until a re-arm is cut  *)
(* short: between two steps its set point moves by at most one slew step,   *)
(* or it is cut to zero.                                                    *)
THEOREM SlewLimitedAlways ==
  ASSUME Answered
  PROVE  Spec => SlewLimited
<1>1. Init => MotorInv /\ CalmInv
  BY MotorInit DEF Init, CalmInv
<1>2. MotorInv /\ CalmInv /\ [Next]_vars => (MotorInv /\ CalmInv)'
  BY MotorStep, CalmStep
<1>3. ASSUME MotorInv, CalmInv, [Next]_vars, ~CutShort, NEW w \in Wheels
      PROVE  hubOut'[w] = 0 \/ Near(hubOut'[w], hubOut[w])
  <2> USE DEF MotorInv, TypeOK, HubTypeOK
  <2>1. CASE HubQuiet
    BY <1>3, <2>1, NearSelf DEF HubQuiet
  <2>2. CASE HubRest
    BY <2>2 DEF HubRest
  <2>3. CASE HubSend
    <3>1. PICK v \in Pending : HubCommand(v, out[v])
      BY <2>3 DEF HubSend
    <3>2. CASE w = v /\ w \in hubOn
      <4>1. hubOut'[w] = out[w] /\ hubOut[w] = applied[w]
        BY <1>3, <2>3, <3>1, <3>2 DEF HubSend, HubCommand, CalmInv, CutShort
      <4> QED
        BY <1>3, <2>3, <4>1 DEF HubSend, SendIsNear
    <3>3. CASE ~(w = v /\ w \in hubOn)
      <4>1. hubOut'[w] = hubOut[w]
        BY <1>3, <3>1, <3>3 DEF HubCommand
      <4> QED
        BY <1>3, <4>1, NearSelf
    <3> QED
      BY <3>2, <3>3
  <2>4. CASE HubRearm
    <3>1. PICK v \in todo : HubAttach(v)
      BY <2>4 DEF HubRearm
    <3>2. hubOut'[w] \in {0, hubOut[w]}
      BY <1>3, <3>1 DEF HubAttach
    <3> QED
      BY <1>3, <3>2, NearSelf
  <2> QED
    BY <1>3, HubStep, <2>1, <2>2, <2>3, <2>4
<1>4. MotorInv /\ CalmInv /\ [Next]_vars =>
        [~CutShort => \A w \in Wheels :
           hubOut'[w] = 0 \/ Near(hubOut'[w], hubOut[w])]_vars
  BY <1>3
<1> QED
  BY <1>1, <1>2, <1>4, PTL DEF Spec, SlewLimited

-----------------------------------------------------------------------------
(* The ramp.  Every set point is a multiple of the quantum, so that the     *)
(* rounding of the next one neither drifts nor passes its goal.             *)
Goal(w) == Quantize(demand[w], Quantum)

GridInv == \A w \in Wheels : OnGrid(applied[w], Quantum) /\ OnGrid(out[w], Quantum)

(* What slew_apply computes and what it remembers, step by step.            *)
VectorQuiet == UNCHANGED <<out, applied>>
VectorRest == out' \in {out, Zero} /\ applied' = Zero
VectorSent == /\ out' = out
              /\ \E w \in Wheels : applied' = [applied EXCEPT ![w] = out[w]]

LEMMA VectorStep == [Next]_vars => VectorQuiet \/ VectorRest \/ BeginTick \/ VectorSent
<1> SUFFICES ASSUME [Next]_vars, ~BeginTick PROVE VectorQuiet \/ VectorRest \/ VectorSent
  OBVIOUS
<1> USE DEF VectorQuiet, VectorRest, VectorSent
<1>1. CASE SendOk
  BY <1>1 DEF SendOk
<1>2. CASE OpenOk \/ RearmDone \/ Restart
  BY <1>2 DEF OpenOk, RearmDone, Restart
<1>3. CASE ~(SendOk \/ OpenOk \/ RearmDone \/ Restart)
  BY <1>3 DEF Next, Loop, Failure, vars, driver, Demand, OpenFail, OpenMissing, SendDone,
     SendFail, EndSend, Sleep, StatusClean, StatusBlip, StatusMute, StatusRecover, RearmOk,
     RearmFail, StopSignal, Shutdown, HubTrip, HubLapse
<1> QED
  BY <1>1, <1>2, <1>3

LEMMA ZeroOnGrid == OnGrid(0, Quantum) /\ Quantize(0, Quantum) = 0
<1>1. 0 \in Int /\ 0 = 0 * Quantum
  OBVIOUS
<1>2. OnGrid(0, Quantum)
  BY <1>1 DEF OnGrid
<1> QED
  BY <1>2, QuantizeGrid

(* One tick of the ramp, for one wheel. *)
LEMMA VectorOnRamp ==
  ASSUME TypeOK, GridInv, BeginTick, NEW w \in Wheels
  PROVE  /\ OnGrid(out'[w], Quantum)
         /\ Between(applied[w], out'[w], Goal(w))
         /\ Quantum < 2 * Slew =>
              out'[w] = Goal(w) \/ Abs(Goal(w) - out'[w]) + Quantum <= Abs(Goal(w) - applied[w])
<1>1. applied[w] \in Int /\ demand[w] \in Int /\ Slew \in Nat /\ Quantum \in Nat \ {0}
  BY DEF TypeOK
<1>2. out'[w] = SlewStep(applied[w], demand[w], Slew, Quantum)
  BY DEF BeginTick
<1>3. OnGrid(applied[w], Quantum)
  BY DEF GridInv
<1> QED
  BY <1>1, <1>2, <1>3, SlewStepBetween, RampGetsNearer DEF Goal

LEMMA GridStep ==
  ASSUME TypeOK, GridInv, [Next]_vars
  PROVE  GridInv'
<1>1. CASE VectorQuiet
  BY <1>1 DEF VectorQuiet, GridInv
<1>2. CASE VectorRest
  BY <1>2, ZeroOnGrid DEF VectorRest, GridInv
<1>3. CASE BeginTick
  <2>1. applied' = applied
    BY <1>3 DEF BeginTick
  <2> QED
    BY <1>3, <2>1, VectorOnRamp DEF GridInv
<1>4. CASE VectorSent
  BY <1>4 DEF VectorSent, GridInv, TypeOK
<1> QED
  BY <1>1, <1>2, <1>3, <1>4, VectorStep

LEMMA GridHolds == Spec => []GridInv
<1>1. Init => GridInv
  BY ZeroOnGrid DEF Init, GridInv
<1>2. TypeOK /\ GridInv /\ [Next]_vars => GridInv'
  BY GridStep
<1> QED
  BY TypeCorrect, <1>1, <1>2, PTL DEF Spec

(* The arithmetic under SteadyDemandReached.  The vector slew_apply computes *)
(* never passes its goal, the demand rounded to the quantum, nor leaves it   *)
(* again; and with a slew limit above half a quantum (1500 and 300 by        *)
(* default) each wheel is there or at least a quantum nearer than before.    *)
RampsToGoal ==
  [][BeginTick => \A w \in Wheels :
       /\ Between(applied[w], out'[w], Goal(w))
       /\ Quantum < 2 * Slew =>
            \/ out'[w] = Goal(w)
            \/ Abs(Goal(w) - out'[w]) + Quantum <= Abs(Goal(w) - applied[w])]_vars

THEOREM RampsToGoalAlways == Spec => RampsToGoal
<1>1. TypeOK /\ GridInv /\ [Next]_vars =>
        [BeginTick => \A w \in Wheels :
           /\ Between(applied[w], out'[w], Goal(w))
           /\ Quantum < 2 * Slew =>
                \/ out'[w] = Goal(w)
                \/ Abs(Goal(w) - out'[w]) + Quantum <= Abs(Goal(w) - applied[w])]_vars
  BY VectorOnRamp
<1> QED
  BY <1>1, TypeCorrect, GridHolds, PTL DEF Spec, RampsToGoal

-----------------------------------------------------------------------------
(* The range of the demands, rounded, is the range of the set points.       *)
Within(x, lo, hi) == Quantize(lo, Quantum) <= x /\ x <= Quantize(hi, Quantum)

AllWithin(lo, hi) == \A w \in Wheels :
  /\ Within(applied[w], lo, hi)
  /\ Within(out[w], lo, hi)
  /\ Within(hubOut[w], lo, hi)

DemandsWithin(lo, hi) == \A d \in Demands : \A w \in Wheels : lo <= d[w] /\ d[w] <= hi

LEMMA ZeroWithin ==
  ASSUME NEW lo \in Int, NEW hi \in Int, DemandsWithin(lo, hi)
  PROVE  Within(0, lo, hi)
<1>1. 1 \in Wheels /\ Zero[1] = 0
  OBVIOUS
<1>2. lo <= 0 /\ 0 <= hi
  BY <1>1 DEF DemandsWithin
<1>3. Quantize(lo, Quantum) <= Quantize(0, Quantum)
      /\ Quantize(0, Quantum) <= Quantize(hi, Quantum)
  BY <1>2, QuantizeMonotone
<1> QED
  BY <1>3, ZeroOnGrid DEF Within

LEMMA WithinStep ==
  ASSUME NEW lo \in Int, NEW hi \in Int, DemandsWithin(lo, hi),
         TypeOK, GridInv, AllWithin(lo, hi), [Next]_vars
  PROVE  AllWithin(lo, hi)'
<1>1. Within(0, lo, hi)
  BY ZeroWithin
<1>2. ASSUME NEW w \in Wheels PROVE Within(out'[w], lo, hi) /\ Within(applied'[w], lo, hi)
  <2>1. CASE VectorQuiet
    BY <2>1 DEF VectorQuiet, AllWithin
  <2>2. CASE VectorRest
    BY <1>1, <2>2 DEF VectorRest, AllWithin
  <2>3. CASE VectorSent
    BY <2>3 DEF VectorSent, AllWithin, TypeOK
  <2>4. CASE BeginTick
    <3>1. applied' = applied /\ Between(applied[w], out'[w], Goal(w))
      BY <2>4, VectorOnRamp DEF BeginTick
    <3>2. Within(applied[w], lo, hi)
      BY DEF AllWithin
    <3>3. demand[w] \in Int /\ lo <= demand[w] /\ demand[w] <= hi
      BY DEF DemandsWithin, TypeOK
    <3>4. Within(Goal(w), lo, hi)
      BY <3>3, QuantizeMonotone DEF Within, Goal
    <3>5. {out'[w], applied[w], Goal(w), Quantize(lo, Quantum), Quantize(hi, Quantum)} \subseteq Int
      <4>1. TypeOK'
        BY TypeStep
      <4>2. out'[w] \in Int /\ applied[w] \in Int
        BY <4>1 DEF TypeOK
      <4>3. Goal(w) \in Int /\ Quantize(lo, Quantum) \in Int /\ Quantize(hi, Quantum) \in Int
        BY <3>3, QuantizeNear DEF Goal
      <4> QED
        BY <4>2, <4>3
    <3> QED
      BY <3>1, <3>2, <3>4, <3>5 DEF Between, Within
  <2> QED
    BY <2>1, <2>2, <2>3, <2>4, VectorStep
<1>3. ASSUME NEW w \in Wheels PROVE Within(hubOut'[w], lo, hi)
  <2> USE DEF TypeOK, HubTypeOK, AllWithin
  <2>1. CASE HubQuiet
    BY <2>1 DEF HubQuiet
  <2>2. CASE HubRest
    BY <1>1, <2>2 DEF HubRest
  <2>3. CASE HubSend
    BY <2>3 DEF HubSend, HubCommand, Pending
  <2>4. CASE HubRearm
    BY <1>1, <2>4 DEF HubRearm, HubAttach
  <2> QED
    BY <2>1, <2>2, <2>3, <2>4, HubStep
<1> QED
  BY <1>2, <1>3 DEF AllWithin, Within

(* Whatever ramps, faults and re-arms come together, no channel is ever set  *)
(* beyond the range of the demands, rounded to the quantum: --quantum may    *)
(* take a wheel past max_power, by half a quantum at most and never further. *)
THEOREM SetPointsWithinDemands ==
  ASSUME NEW lo \in Int, NEW hi \in Int, DemandsWithin(lo, hi)
  PROVE  Spec => [](\A w \in Wheels : Within(hubOut[w], lo, hi))
<1>1. Init => AllWithin(lo, hi)
  BY ZeroWithin DEF Init, AllWithin
<1>2. TypeOK /\ GridInv /\ AllWithin(lo, hi) /\ [Next]_vars => AllWithin(lo, hi)'
  BY WithinStep
<1>3. AllWithin(lo, hi) => \A w \in Wheels : Within(hubOut[w], lo, hi)
  BY DEF AllWithin
<1> QED
  BY TypeCorrect, GridHolds, <1>1, <1>2, <1>3, PTL DEF Spec

-----------------------------------------------------------------------------
(* The safe half of ChannelsComeBackUnlessCut.  A status register without   *)
(* fault bits is what check_hub_status goes by: when no reply is lost it     *)
(* means that every channel is enabled, or the last re-arm was cut short.    *)
(* While the re-arm loop runs, the channels it has passed are.               *)
CleanMeansEnabled == Live /\ ~latch /\ todo = {} => hubOn = Wheels

CleanInv ==
  /\ CleanMeansEnabled
  /\ pc = "rearm" /\ ~latch => Wheels \ todo \subseteq hubOn

LEMMA CleanStep ==
  ASSUME Answered, TypeOK, CleanInv, [Next]_vars
  PROVE  CleanInv'
<1> USE DEF TypeOK, HubTypeOK, CleanInv, CleanMeansEnabled
<1>1. CASE OpenOk
  BY <1>1 DEF OpenOk
<1>2. CASE SendOk
  BY <1>2 DEF SendOk, HubCommand
<1>3. CASE SendFail \/ StatusMute \/ RearmFail
  <2>1. UNCHANGED hub
    BY <1>3 DEF Answered, SendFail, EndSend, StatusMute, RearmFail, NoAnswer, Fault, hub
  <2>2. CASE SendFail \/ StatusMute
    BY <2>1, <2>2 DEF SendFail, EndSend, StatusMute, hub
  <2>3. CASE RearmFail
    BY <2>1, <2>3 DEF RearmFail, IsNext, hub
  <2> QED
    BY <1>3, <2>2, <2>3
<1>4. CASE RearmOk
  <2>1. PICK w \in Wheels : HubAttach(w) /\ todo' = todo \ {w}
    BY <1>4 DEF RearmOk
  <2>2. pc = "rearm" /\ pc' = "rearm" /\ latch' = latch /\ hubOn' = hubOn \cup {w}
    BY <1>4, <2>1 DEF RearmOk, HubAttach
  <2>3. ~latch' => Wheels \ todo' \subseteq hubOn'
    BY <2>1, <2>2
  <2>4. ~latch' /\ todo' = {} => hubOn' = Wheels
    BY <2>2, <2>3
  <2> QED
    BY <2>2, <2>3, <2>4
<1>5. CASE RearmDone
  BY <1>5 DEF RearmDone, hub
<1>6. CASE StatusBlip
  BY <1>6 DEF StatusBlip
<1>7. CASE HubTrip
  BY <1>7 DEF HubTrip, HubOff, driver
<1>8. CASE ~Live'
  BY <1>8
<1>9. CASE Live /\ pc # "rearm" /\ pc' # "rearm" /\ UNCHANGED <<todo, hubOn, latch>>
  BY <1>9
<1>10. CASE UNCHANGED <<pc, todo, hubOn, latch>>
  BY <1>10
<1> QED
  BY <1>1, <1>2, <1>3, <1>4, <1>5, <1>6, <1>7, <1>8, <1>9, <1>10
     DEF Next, Loop, Failure, vars, driver, hub, Demand, OpenFail, OpenMissing, BeginTick,
     SendDone, EndSend, Sleep, StatusClean, StatusRecover, StopSignal, Shutdown, Restart,
     HubLapse

(* With every reply answered, a clean register of a live session never hides *)
(* a disabled channel: a fail-safe at any moment, the re-arm loop included,  *)
(* leaves its bits for the next status read.                                 *)
THEOREM CleanMeansEnabledAlways ==
  ASSUME Answered
  PROVE  Spec => []CleanMeansEnabled
<1>1. Init => CleanInv
  BY DEF Init, CleanInv, CleanMeansEnabled
<1>2. TypeOK /\ CleanInv /\ [Next]_vars => CleanInv'
  BY CleanStep
<1>3. CleanInv => CleanMeansEnabled
  BY DEF CleanInv
<1> QED
  BY TypeCorrect, <1>1, <1>2, <1>3, PTL DEF Spec
=============================================================================
