-------------------------- MODULE RevHubDriveProofs --------------------------
(* The whole node implements the control loop: what RevHubProofs proves of  *)
(* RevHub for every demand holds for the demands the node's threads produce.*)
EXTENDS RevHubDrive, TLAPS

Proven == INSTANCE RevHubProofs
  WITH Demands <- {WheelsOf(c) : c \in Commands}, demand <- WheelsOf(Command)

-----------------------------------------------------------------------------
(* SourceTypeOK in two halves: the counter, and everything else.            *)
AgeOK == age \in 0..Timeout

WordsOK ==
  /\ source \in Sources
  /\ present \in BOOLEAN
  /\ stick \in Motions
  /\ held \in Ports \cup {NONE}
  /\ reader \in {"off", "scan", "read", "eof"}
  /\ unread \subseteq {"axis", "button"}
  /\ jsOk \in BOOLEAN
  /\ axes \in Motions
  /\ buttons \in Ports \cup {NONE}

LEMMA SourceTypeInit == Init => SourceTypeOK
<1>1. Init => AgeOK
  BY CommandSourceAssumption DEF Init, SourceInit, NodeInit, AgeOK
<1>2. Init => WordsOK
  BY Zenon, CommandSourceAssumption DEF Init, SourceInit, NodeInit, WordsOK
<1> QED
  BY <1>1, <1>2 DEF SourceTypeOK, AgeOK, WordsOK

(* The source half's part of a step of the node. *)
SourceMove ==
  \/ UNCHANGED srcVars
  \/ GrowOlder /\ UNCHANGED <<source, operator, reader, unread, jsOk, axes, buttons>>
  \/ StartThreads /\ UNCHANGED source
  \/ NodeReset /\ UNCHANGED <<source, operator>>
  \/ (Operator \/ Reader \/ Messages) /\ UNCHANGED source

LEMMA SourceMoves == [Next]_vars => SourceMove
BY DEF Next, vars, SourceMove, LoopStep, OpenStep, FailStep, RestartStep, LapseStep,
       OperatorStep, ReaderStep, MessageStep

LEMMA SourceTypeStep ==
  ASSUME SourceTypeOK, [Next]_vars
  PROVE  SourceTypeOK'
<1>1. SourceMove
  BY SourceMoves
<1>2. AgeOK /\ WordsOK
  BY DEF SourceTypeOK, AgeOK, WordsOK
<1>3. AgeOK'
  <2> USE <1>2, CommandSourceAssumption DEF AgeOK, srcVars, node, operator
  <2>1. CASE UNCHANGED srcVars
    BY <2>1
  <2>2. CASE GrowOlder \/ NodeReset \/ StartThreads
    BY <2>2 DEF GrowOlder, NodeReset, StartThreads
  <2>3. CASE Operator
    BY <2>3 DEF Operator, PadGoes, PadComes, MoveStick, PressButton
  <2>4. CASE Reader
    BY <2>4 DEF Reader, ScanMissing, ScanOpen, ReadAxis, ReadButton, ReadEnd
  <2>5. CASE Messages
    BY <2>5 DEF Messages, OnJoyMsg, OnTwistMsg, TakeTwist
  <2> QED
    BY <1>1, <2>1, <2>2, <2>3, <2>4, <2>5 DEF SourceMove
<1>4. WordsOK'
  <2> USE <1>2, CommandSourceAssumption DEF WordsOK, srcVars, node, operator
  <2>1. CASE UNCHANGED srcVars
    BY <2>1
  <2>2. CASE GrowOlder /\ UNCHANGED <<source, operator, reader, unread, jsOk, axes, buttons>>
    BY <2>2
  <2>3. CASE NodeReset /\ UNCHANGED <<source, operator>>
    BY <2>3 DEF NodeReset
  <2>4. CASE StartThreads /\ UNCHANGED source
    BY <2>4 DEF StartThreads
  <2>5. CASE Operator /\ UNCHANGED source
    BY <2>5 DEF Operator, PadGoes, PadComes, MoveStick, PressButton
  <2>6. CASE Reader /\ UNCHANGED source
    BY <2>6 DEF Reader, ScanMissing, ScanOpen, ReadAxis, ReadButton, ReadEnd
  <2>7. CASE Messages /\ UNCHANGED source
    BY <2>7 DEF Messages, OnJoyMsg, OnTwistMsg, TakeTwist
  <2> QED
    BY <1>1, <2>1, <2>2, <2>3, <2>4, <2>5, <2>6, <2>7 DEF SourceMove
<1> QED
  BY <1>3, <1>4 DEF SourceTypeOK, AgeOK, WordsOK

(* What the threads leave behind is always a command of the repertoire.     *)
Typed == Command \in Commands

LEMMA CommandType == SourceTypeOK => Typed
BY CommandSourceAssumption DEF Typed, SourceTypeOK, Command, Commands, JsOk

LEMMA CommandTypeNext == SourceTypeOK' => Typed'
BY CommandType, PTL

(* A node that has heard nothing asks for no motion. *)
LEMMA RestAtFirst ==
  ASSUME jsOk = FALSE, age = Timeout
  PROVE  WheelsOf(Command) = Proven!Zero
<1>1. ~JsOk
  BY CommandSourceAssumption DEF JsOk
<1>2. Command = [kind |-> "motion", of |-> Rest]
  BY <1>1 DEF Command
<1>3. WheelsOf(Command) = Mix[Rest]
  BY <1>2 DEF WheelsOf
<1> QED
  BY <1>3, RevHubDriveAssumption DEF Motors!Zero, Proven!Zero, Motors!Wheels,
                                     Proven!Wheels

-----------------------------------------------------------------------------
LEMMA LoopConstants == Proven!RevHubAssumption
BY RevHubDriveAssumption
   DEF Motors!RevHubAssumption, Proven!RevHubAssumption, Motors!Zero, Proven!Zero,
       Motors!Wheels, Proven!Wheels

LEMMA LoopInit == Init => Proven!Init
<1> SUFFICES ASSUME Init PROVE Proven!Init
  OBVIOUS
<1>1. WheelsOf(Command) = Proven!Zero
  BY RestAtFirst DEF Init, SourceInit, NodeInit
<1> QED
  BY <1>1 DEF Init, Motors!Init, Proven!Init, Motors!Zero, Proven!Zero,
       Motors!Wheels, Proven!Wheels

(* The steps the control loop and the hub take are RevHub's own.            *)
LEMMA LoopSteps ==
  ASSUME LoopStep \/ FailStep \/ OpenStep \/ RestartStep \/ LapseStep
  PROVE  Proven!Next
<1> USE DEF Motors!Wheels, Proven!Wheels, Motors!Zero, Proven!Zero, Motors!hub,
            Proven!hub, Motors!driver, Proven!driver, Motors!unit, Proven!unit
<1>1. Motors!BeginTick => Proven!BeginTick
  BY DEF Motors!BeginTick, Proven!BeginTick, Motors!SlewStep, Proven!SlewStep,
         Motors!Clamp, Proven!Clamp, Motors!Quantize, Proven!Quantize,
         Motors!RoundDiv, Proven!RoundDiv
<1>2. Motors!SendOk => Proven!SendOk
  BY DEF Motors!SendOk, Proven!SendOk, Motors!IsNext, Proven!IsNext, Motors!Pending,
         Proven!Pending, Motors!HubCommand, Proven!HubCommand
<1>3. Motors!SendDone => Proven!SendDone
  BY DEF Motors!SendDone, Proven!SendDone, Motors!Pending, Proven!Pending,
         Motors!EndSend, Proven!EndSend
<1>4. Motors!StatusClean => Proven!StatusClean
  BY DEF Motors!StatusClean, Proven!StatusClean
<1>5. Motors!StatusBlip => Proven!StatusBlip
  BY DEF Motors!StatusBlip, Proven!StatusBlip
<1>6. Motors!StatusRecover => Proven!StatusRecover
  BY DEF Motors!StatusRecover, Proven!StatusRecover, Motors!NoAnswer,
         Proven!NoAnswer, Motors!Fault, Proven!Fault
<1>7. Motors!RearmOk => Proven!RearmOk
  BY DEF Motors!RearmOk, Proven!RearmOk, Motors!IsNext, Proven!IsNext,
         Motors!HubAttach, Proven!HubAttach
<1>8. Motors!RearmDone => Proven!RearmDone
  BY DEF Motors!RearmDone, Proven!RearmDone
<1>9. Motors!Shutdown => Proven!Shutdown
  BY DEF Motors!Shutdown, Proven!Shutdown, Motors!HubOff, Proven!HubOff,
         Motors!Fault, Proven!Fault
<1>10. Motors!Sleep => Proven!Sleep
  BY DEF Motors!Sleep, Proven!Sleep
<1>11. Motors!SendFail => Proven!SendFail
  BY DEF Motors!SendFail, Proven!SendFail, Motors!IsNext, Proven!IsNext,
         Motors!Pending, Proven!Pending, Motors!Fault, Proven!Fault,
         Motors!HubCommand, Proven!HubCommand, Motors!EndSend, Proven!EndSend
<1>12. Motors!StatusMute => Proven!StatusMute
  BY DEF Motors!StatusMute, Proven!StatusMute, Motors!NoAnswer, Proven!NoAnswer,
         Motors!Fault, Proven!Fault
<1>13. Motors!RearmFail => Proven!RearmFail
  BY DEF Motors!RearmFail, Proven!RearmFail, Motors!IsNext, Proven!IsNext,
         Motors!Fault, Proven!Fault, Motors!HubAttach, Proven!HubAttach
<1>14. Motors!OpenFail => Proven!OpenFail
  BY DEF Motors!OpenFail, Proven!OpenFail, Motors!Fault, Proven!Fault,
         Motors!HubOff, Proven!HubOff
<1>15. Motors!OpenMissing => Proven!OpenMissing
  BY DEF Motors!OpenMissing, Proven!OpenMissing, Motors!Fault, Proven!Fault
<1>16. Motors!HubTrip => Proven!HubTrip
  BY DEF Motors!HubTrip, Proven!HubTrip, Motors!Live, Proven!Live, Motors!Fault,
         Proven!Fault, Motors!HubOff, Proven!HubOff
<1>17. Motors!StopSignal => Proven!StopSignal
  BY DEF Motors!StopSignal, Proven!StopSignal
<1>18. Motors!OpenOk => Proven!OpenOk
  BY DEF Motors!OpenOk, Proven!OpenOk
<1>19. Motors!HubLapse => Proven!HubLapse
  BY DEF Motors!HubLapse, Proven!HubLapse, Motors!Live, Proven!Live, Motors!HubOff,
         Proven!HubOff
<1>20. Motors!Restart => Proven!Restart
  BY DEF Motors!Restart, Proven!Restart
<1> QED
  BY <1>1, <1>2, <1>3, <1>4, <1>5, <1>6, <1>7, <1>8, <1>9, <1>10,
     <1>11, <1>12, <1>13, <1>14, <1>15, <1>16, <1>17, <1>18, <1>19, <1>20
     DEF LoopStep, FailStep, OpenStep, RestartStep, LapseStep,
         Proven!Next, Proven!Loop, Proven!Failure

(* A step of the source half changes at most the demand.                    *)
LEMMA SourceSteps ==
  ASSUME SourceTypeOK', UNCHANGED loopVars
  PROVE  Proven!Demand
<1>1. WheelsOf(Command)' \in {WheelsOf(c) : c \in Commands}
  <2>1. Command' \in Commands
    BY CommandTypeNext DEF Typed
  <2>2. WheelsOf(Command)' = WheelsOf(Command')
    BY DEF WheelsOf
  <2> QED
    BY <2>1, <2>2
<1> QED
  BY <1>1 DEF Proven!Demand, Proven!driver, Proven!hub, Proven!unit, loopVars

(* The node, seen from the loop, is RevHub with a demand that changes.      *)
LEMMA NodeSteps ==
  ASSUME SourceTypeOK', [Next]_vars
  PROVE  [Proven!Next]_(Proven!vars)
<1>1. CASE LoopStep \/ FailStep \/ OpenStep \/ RestartStep \/ LapseStep
  BY <1>1, LoopSteps
<1>2. CASE OperatorStep \/ ReaderStep \/ MessageStep \/ UNCHANGED vars
  BY <1>2, SourceSteps DEF OperatorStep, ReaderStep, MessageStep, vars, Proven!Next
<1> QED
  BY <1>1, <1>2 DEF Next

LEMMA SourceTyped == Spec => []SourceTypeOK
<1>1. SourceTypeOK /\ [Next]_vars => SourceTypeOK'
  BY SourceTypeStep
<1> QED
  BY SourceTypeInit, <1>1, PTL DEF Spec

LEMMA NodeIsRevHub == Spec => Proven!Spec
<1>1. Init => Proven!Init
  BY LoopInit
<1>2. SourceTypeOK' /\ [Next]_vars => [Proven!Next]_(Proven!vars)
  BY NodeSteps
<1> QED
  BY SourceTyped, <1>1, <1>2, PTL DEF Spec, Proven!Spec

(* revhub_node.py as a whole, whichever source its commands come from:      *)
(* every wheel of a live session is at rest or within one slew step of what *)
(* the loop remembers, whatever is lost and however the reader, the ROS     *)
(* callbacks and the loop interleave.                                       *)
THEOREM NodeFollowsApplied == Spec => []HubFollowsApplied
<1>1. Proven!Spec => []Proven!HubFollowsApplied
  BY Proven!HubFollowsAppliedAlways, LoopConstants
<1>2. Proven!HubFollowsApplied => HubFollowsApplied
  BY DEF HubFollowsApplied, Motors!HubFollowsApplied, Proven!HubFollowsApplied,
         Motors!Live, Proven!Live, Motors!Wheels, Proven!Wheels,
         Motors!Near, Proven!Near, Motors!Abs, Proven!Abs
<1> QED
  BY NodeIsRevHub, <1>1, <1>2, PTL

(* The whole node never sets a channel beyond the range of what its sticks,  *)
(* Twists and calibration buttons can ask for, rounded to the quantum.       *)
THEOREM NodeStaysWithinCommands ==
  ASSUME NEW lo \in Int, NEW hi \in Int,
         \A c \in Commands : \A w \in Motors!Wheels : lo <= WheelsOf(c)[w] /\ WheelsOf(c)[w] <= hi
  PROVE  Spec => [](\A w \in Motors!Wheels : /\ Motors!Quantize(lo, Quantum) <= hubOut[w]
                                             /\ hubOut[w] <= Motors!Quantize(hi, Quantum))
<1>1. Proven!DemandsWithin(lo, hi)
  BY DEF Proven!DemandsWithin, Proven!Wheels, Motors!Wheels
<1>2. Proven!Spec => [](\A w \in Proven!Wheels : Proven!Within(hubOut[w], lo, hi))
  BY <1>1, Proven!SetPointsWithinDemands, LoopConstants
<1>3. (\A w \in Proven!Wheels : Proven!Within(hubOut[w], lo, hi)) =>
        \A w \in Motors!Wheels : /\ Motors!Quantize(lo, Quantum) <= hubOut[w]
                                 /\ hubOut[w] <= Motors!Quantize(hi, Quantum)
  BY DEF Proven!Wheels, Motors!Wheels, Proven!Within, Proven!Quantize, Motors!Quantize,
         Proven!RoundDiv, Motors!RoundDiv
<1> QED
  BY NodeIsRevHub, <1>2, <1>3, PTL

-----------------------------------------------------------------------------
(* js_reader: while the device is open, what the thread has not been told    *)
(* yet is still unread; without it no stick is believed.                     *)
SeesThePad == source = "device" =>
  /\ reader = "read" => /\ present /\ jsOk
                        /\ "axis" \notin unread => axes = stick
                        /\ "button" \notin unread => buttons = held
  /\ reader \in {"off", "scan"} => ~jsOk /\ axes = Rest

LEMMA SeesThePadStep == SeesThePad /\ [Next]_vars => SeesThePad'
<1> SUFFICES ASSUME SeesThePad, [Next]_vars PROVE SeesThePad'
  OBVIOUS
<1> USE DEF SeesThePad, srcVars, node, operator
<1>1. CASE UNCHANGED srcVars
  BY <1>1
<1>2. CASE GrowOlder /\ UNCHANGED <<source, operator, reader, unread, jsOk, axes, buttons>>
  BY <1>2
<1>3. CASE StartThreads /\ UNCHANGED source
  BY <1>3 DEF StartThreads
<1>4. CASE NodeReset /\ UNCHANGED <<source, operator>>
  BY <1>4 DEF NodeReset
<1>5. CASE Operator /\ UNCHANGED source
  BY <1>5 DEF Operator, PadGoes, PadComes, MoveStick, PressButton
<1>6. CASE Reader /\ UNCHANGED source
  BY <1>6 DEF Reader, ScanMissing, ScanOpen, ReadAxis, ReadButton, ReadEnd
<1>7. CASE Messages /\ UNCHANGED source
  BY <1>7 DEF Messages, OnJoyMsg, OnTwistMsg
<1> QED
  BY <1>1, <1>2, <1>3, <1>4, <1>5, <1>6, <1>7, SourceMoves DEF SourceMove

(* The safe half of ButtonsAreRefreshed and SilenceStops: a pad that is open *)
(* is seen as it is, sticks and buttons, once its events are read, through   *)
(* every unplugging and restart; one that is not open, or a source that has  *)
(* been silent for the timeout, commands rest.                               *)
Heard == IF source = "device" THEN reader \in {"read", "eof"} ELSE age < Timeout

UnheardIsRest == ~Heard => Command = [kind |-> "motion", of |-> Rest]

THEOREM SeesThePadAlways == Spec => [](SeesThePad /\ UnheardIsRest)
<1>1. Init => SeesThePad
  BY DEF Init, SourceInit, NodeInit, SeesThePad
<1>2. SourceTypeOK /\ SeesThePad => UnheardIsRest
  BY CommandSourceAssumption
     DEF SourceTypeOK, SeesThePad, UnheardIsRest, Heard, Command, JsOk
<1> QED
  BY SourceTyped, <1>1, <1>2, SeesThePadStep, PTL DEF Spec

-----------------------------------------------------------------------------
(* The safe half of SilenceStops for the wheels: while nothing is heard,     *)
(* every set point the loop computes lies between the last one and zero, and *)
(* with a slew limit above half a quantum it is zero or at least a quantum   *)
(* nearer to it.  No wheel is ever sped up or reversed on a stale command.   *)
SilenceBrakes ==
  [][Motors!BeginTick /\ ~Heard => \A w \in Motors!Wheels :
       /\ Proven!Between(applied[w], out'[w], 0)
       /\ Quantum < 2 * Slew =>
            \/ out'[w] = 0
            \/ Motors!Abs(out'[w]) + Quantum <= Motors!Abs(applied[w])]_vars

THEOREM SilenceBrakesAlways == Spec => SilenceBrakes
<1> DEFINE Ramp(w) ==
      /\ Proven!Between(applied[w], out'[w], Proven!Goal(w))
      /\ Quantum < 2 * Slew =>
           \/ out'[w] = Proven!Goal(w)
           \/ Proven!Abs(Proven!Goal(w) - out'[w]) + Quantum
                <= Proven!Abs(Proven!Goal(w) - applied[w])
<1>1. Proven!Spec => [](Proven!TypeOK /\ Proven!GridInv)
  BY Proven!TypeCorrect, Proven!GridHolds, LoopConstants, PTL
<1>2. ASSUME UnheardIsRest, ~Heard, NEW w \in Proven!Wheels PROVE Proven!Goal(w) = 0
  <2>1. WheelsOf(Command)[w] = 0
    BY <1>2, RevHubDriveAssumption
       DEF UnheardIsRest, WheelsOf, Motors!Zero, Motors!Wheels, Proven!Wheels
  <2> QED
    BY <2>1, Proven!ZeroOnGrid, LoopConstants DEF Proven!Goal
<1>3. Motors!BeginTick => Proven!BeginTick
  BY DEF Motors!BeginTick, Proven!BeginTick, Motors!SlewStep, Proven!SlewStep,
         Motors!Clamp, Proven!Clamp, Motors!Quantize, Proven!Quantize,
         Motors!RoundDiv, Proven!RoundDiv, Motors!Wheels, Proven!Wheels,
         Motors!hub, Proven!hub, Motors!unit, Proven!unit
<1>4. ASSUME Proven!TypeOK, Proven!GridInv, Proven!BeginTick, NEW w \in Proven!Wheels
      PROVE  Ramp(w)
  BY <1>4, Proven!VectorOnRamp, LoopConstants
<1>5. ASSUME Proven!TypeOK, Proven!TypeOK', Proven!GridInv, UnheardIsRest, ~Heard,
             Motors!BeginTick, NEW w \in Motors!Wheels
      PROVE  /\ Proven!Between(applied[w], out'[w], 0)
             /\ Quantum < 2 * Slew =>
                  \/ out'[w] = 0
                  \/ Motors!Abs(out'[w]) + Quantum <= Motors!Abs(applied[w])
  <2>1. w \in Proven!Wheels
    BY <1>5 DEF Motors!Wheels, Proven!Wheels
  <2>2. Ramp(w) /\ Proven!Goal(w) = 0
    BY <1>2, <1>3, <1>4, <1>5, <2>1
  <2>3. out'[w] \in Int /\ applied[w] \in Int /\ Quantum \in Nat /\ Slew \in Nat
    BY <1>5, <2>1, LoopConstants DEF Proven!TypeOK, Proven!RevHubAssumption
  <2>4. Proven!Abs(0 - out'[w]) = Motors!Abs(out'[w])
        /\ Proven!Abs(0 - applied[w]) = Motors!Abs(applied[w])
    BY <2>3 DEF Proven!Abs, Motors!Abs
  <2> QED
    BY <2>2, <2>4
<1>6. Proven!TypeOK /\ Proven!TypeOK' /\ Proven!GridInv /\ UnheardIsRest /\ [Next]_vars =>
        [Motors!BeginTick /\ ~Heard => \A w \in Motors!Wheels :
           /\ Proven!Between(applied[w], out'[w], 0)
           /\ Quantum < 2 * Slew =>
                \/ out'[w] = 0
                \/ Motors!Abs(out'[w]) + Quantum <= Motors!Abs(applied[w])]_vars
  BY <1>5
<1> QED
  BY NodeIsRevHub, <1>1, SeesThePadAlways, <1>6, PTL DEF Spec, SilenceBrakes
=============================================================================
