----------------------------- MODULE TeleopProofs -----------------------------
(* The arbitration of motion_control.py as its receiver sees it, for every   *)
(* set of motions, queue depth, guard window and timeout.                    *)
EXTENDS TeleopChain, TLAPS

(* The types, words apart from numbers. *)
WordsTyped ==
  /\ padOn \in BOOLEAN
  /\ joyActive \in BOOLEAN
  /\ dropped \in BOOLEAN
  /\ stick \in Motions
  /\ axes \in Motions
  /\ from \in {"joy", "plan"}

QueuesTyped ==
  /\ joyQ \in Seq(Motions) /\ Len(joyQ) <= Depth
  /\ planQ \in Seq(Motions) /\ Len(planQ) <= Depth
  /\ cmdQ \in Seq(Twist) /\ Len(cmdQ) <= Depth

ClocksTyped == guard \in 0..Guard /\ age \in 0..Timeout

Typed == WordsTyped /\ QueuesTyped /\ ClocksTyped

LEMMA TypedIsTypeOK == Typed => TypeOK
BY Zenon DEF Typed, WordsTyped, QueuesTyped, ClocksTyped, TypeOK, McTypeOK

-----------------------------------------------------------------------------
(* A queue keeps its depth, and its newest message is the one just sent.    *)
LEMMA PushFacts ==
  ASSUME NEW S, NEW q \in Seq(S), Len(q) <= Depth, NEW x \in S
  PROVE  /\ Push(q, x) \in Seq(S)
         /\ Len(Push(q, x)) <= Depth
         /\ Len(Push(q, x)) >= 1
         /\ Push(q, x)[Len(Push(q, x))] = x
         /\ Len(q) # Depth => Push(q, x) = Append(q, x)
<1> USE MotionControlAssumption
<1>1. CASE Len(q) = Depth
  <2>1. Tail(q) \in Seq(S) /\ Len(Tail(q)) = Depth - 1
    BY <1>1
  <2>2. Push(q, x) = Append(Tail(q), x)
    BY <1>1 DEF Push
  <2> QED
    BY <1>1, <2>1, <2>2
<1>2. CASE Len(q) # Depth
  BY <1>2 DEF Push
<1> QED
  BY <1>1, <1>2

LEMMA TakeFacts ==
  ASSUME NEW S, NEW q \in Seq(S), q # <<>>, Len(q) <= Depth
  PROVE  /\ Head(q) \in S /\ Tail(q) \in Seq(S)
         /\ Len(Tail(q)) = Len(q) - 1 /\ Len(Tail(q)) <= Depth /\ Len(q) >= 1
BY MotionControlAssumption

(* The wire, message by message. *)
LEMMA WireFacts ==
  ASSUME NEW h, NEW q \in Seq(Twist)
  PROVE  /\ Len(<<h>> \o q) = Len(q) + 1
         /\ (<<h>> \o q)[1] = h
         /\ \A i \in 1..Len(q) : (<<h>> \o q)[i + 1] = q[i]
OBVIOUS
-----------------------------------------------------------------------------
LEMMA InitTyped == Init => Typed
<1>1. Init => WordsTyped
  BY Zenon, MotionControlAssumption DEF Init, McInit, WordsTyped
<1>2. Init => QueuesTyped /\ ClocksTyped
  BY MotionControlAssumption, TeleopChainAssumption
     DEF Init, McInit, QueuesTyped, ClocksTyped
<1> QED
  BY <1>1, <1>2 DEF Typed

LEMMA QueuesStep ==
  ASSUME Typed, [Next]_vars
  PROVE  QueuesTyped'
<1> USE MotionControlAssumption DEF Typed, QueuesTyped
<1>1. CASE PadPublishes
  <2>1. joyQ' = Push(joyQ, stick) /\ UNCHANGED <<planQ, cmdQ>>
    BY <1>1 DEF PadPublishes, JoyArrives
  <2> QED
    BY <2>1, PushFacts DEF WordsTyped
<1>2. CASE PlannerPublishes
  <2>1. PICK m \in Motions : planQ' = Push(planQ, m) /\ UNCHANGED <<joyQ, cmdQ>>
    BY <1>2 DEF PlannerPublishes, PlanArrives
  <2> QED
    BY <2>1, PushFacts
<1>3. ASSUME joyQ # <<>>, joyQ' = Tail(joyQ), UNCHANGED planQ,
             NEW t \in Twist, cmdQ' = Push(cmdQ, t)
      PROVE  QueuesTyped'
  BY <1>3, PushFacts, TakeFacts
<1>4. CASE OnJoyActive
  <2>1. [src |-> "joy", m |-> Head(joyQ)] \in Twist
    BY <1>4, TakeFacts DEF OnJoyActive, Twist
  <2> QED
    BY <1>3, <1>4, <2>1 DEF OnJoyActive
<1>5. CASE OnJoyRelease
  <2>1. [src |-> "joy", m |-> Rest] \in Twist
    BY DEF Twist
  <2> QED
    BY <1>3, <1>5, <2>1 DEF OnJoyRelease
<1>6. CASE OnJoyIdle \/ OnPlannerDiscard
  BY <1>6, TakeFacts DEF OnJoyIdle, OnPlannerDiscard
<1>7. CASE OnPlannerPass
  <2>1. [src |-> "plan", m |-> Head(planQ)] \in Twist
    BY <1>7, TakeFacts DEF OnPlannerPass, Twist
  <2> QED
    BY <1>7, <2>1, PushFacts, TakeFacts DEF OnPlannerPass
<1>8. CASE TakeCmd
  BY <1>8, TakeFacts DEF TakeCmd
<1>9. CASE UNCHANGED <<joyQ, planQ, cmdQ>>
  BY <1>9
<1> QED
  BY <1>1, <1>2, <1>4, <1>5, <1>6, <1>7, <1>8, <1>9
     DEF Next, vars, mcVars, Environment, System, HandleJoy, HandlePlan, OnJoy, OnPlanner,
         MoveStick, PadDies, PadReturns, Tick, GuardElapses

LEMMA WordsStep ==
  ASSUME Typed, [Next]_vars
  PROVE  WordsTyped'
<1> USE DEF Typed, WordsTyped
<1>1. CASE HandleJoy
  <2>1. CountDrops /\ OnJoy /\ UNCHANGED <<padOn, stick, axes, from>>
    BY <1>1 DEF HandleJoy, chainVars
  <2>2. dropped' \in BOOLEAN
    BY Zenon, <2>1 DEF CountDrops
  <2>3. joyActive' \in BOOLEAN
    BY Zenon, <2>1 DEF OnJoy, OnJoyActive, OnJoyRelease, OnJoyIdle
  <2> QED
    BY Zenon, <2>1, <2>2, <2>3
<1>2. CASE HandlePlan
  <2>1. CountDrops /\ OnPlanner /\ UNCHANGED <<padOn, stick, axes, from>>
    BY <1>2 DEF HandlePlan, chainVars
  <2>2. dropped' \in BOOLEAN
    BY Zenon, <2>1 DEF CountDrops
  <2>3. joyActive' \in BOOLEAN
    BY Zenon, <2>1 DEF OnPlanner, OnPlannerDiscard, OnPlannerPass
  <2> QED
    BY Zenon, <2>1, <2>2, <2>3
<1>3. CASE TakeCmd
  <2>1. Head(cmdQ) \in Twist
    BY <1>3, TakeFacts DEF TakeCmd, QueuesTyped
  <2>2. axes' = Head(cmdQ).m /\ from' = Head(cmdQ).src
    BY <1>3 DEF TakeCmd, Node!TakeTwist
  <2>3. axes' \in Motions /\ from' \in {"joy", "plan"}
    BY <2>1, <2>2 DEF Twist
  <2> QED
    BY Zenon, <1>3, <2>3 DEF TakeCmd
<1>4. CASE Environment
  <2>1. CASE PadPublishes \/ PlannerPublishes
    BY Zenon, <2>1 DEF PadPublishes, PlannerPublishes, JoyArrives, PlanArrives, chainVars
  <2>2. CASE MoveStick
    BY Zenon, <2>2 DEF MoveStick, mcVars
  <2>3. CASE PadDies \/ PadReturns
    BY Zenon, <2>3 DEF PadDies, PadReturns, mcVars
  <2> QED
    BY Zenon, <1>4, <2>1, <2>2, <2>3 DEF Environment
<1>5. CASE Tick
  BY Zenon, <1>5 DEF Tick, GuardElapses
<1>6. CASE UNCHANGED vars
  BY Zenon, <1>6 DEF vars, mcVars, chainVars
<1> QED
  BY Zenon, <1>1, <1>2, <1>3, <1>4, <1>5, <1>6 DEF Next, System

LEMMA ClocksStep ==
  ASSUME Typed, [Next]_vars
  PROVE  ClocksTyped'
<1> USE MotionControlAssumption, TeleopChainAssumption DEF Typed, ClocksTyped
<1>1. CASE Tick
  BY <1>1 DEF Tick, GuardElapses, Node!GrowOlder
<1>2. CASE TakeCmd
  BY <1>2 DEF TakeCmd, Node!TakeTwist
<1>3. CASE HandleJoy \/ HandlePlan
  BY <1>3 DEF HandleJoy, HandlePlan, OnJoy, OnJoyActive, OnJoyRelease, OnJoyIdle, OnPlanner,
              OnPlannerDiscard, OnPlannerPass, chainVars
<1>4. CASE Environment \/ UNCHANGED vars
  BY <1>4 DEF Environment, PadPublishes, PlannerPublishes, JoyArrives, PlanArrives,
              MoveStick, PadDies, PadReturns, mcVars, chainVars, vars
<1> QED
  BY <1>1, <1>2, <1>3, <1>4 DEF Next, System

LEMMA StepTyped == Typed /\ [Next]_vars => Typed'
BY QueuesStep, WordsStep, ClocksStep DEF Typed

(* Queues never outgrow their depth, whatever arrives and however slowly it *)
(* is served.                                                               *)
THEOREM TypeCorrect == Spec => []TypeOK
BY InitTyped, StepTyped, TypedIsTypeOK, PTL DEF Spec

-----------------------------------------------------------------------------
(* The newest message of the wire. *)
Newest == IF cmdQ = <<>> THEN [src |-> from, m |-> axes] ELSE cmdQ[Len(cmdQ)]

LEMMA NewestIsLast == Typed => Last(Wire) = Newest
<1> SUFFICES ASSUME Typed PROVE Last(Wire) = Newest
  OBVIOUS
<1>1. cmdQ \in Seq(Twist)
  BY DEF Typed, QueuesTyped
<1>2. CASE cmdQ = <<>>
  BY <1>1, <1>2, WireFacts DEF Wire, Last, Newest
<1>3. CASE cmdQ # <<>>
  <2>1. Len(cmdQ) \in 1..Len(cmdQ)
    BY <1>1, <1>3
  <2> QED
    BY <1>1, <1>3, <2>1, WireFacts DEF Wire, Last, Newest
<1> QED
  BY <1>2, <1>3

(* Once the sticks are released the newest word of the operator is a zero.  *)
WordFits ==
  /\ joyActive => Newest.src = "joy" /\ Newest.m # Rest
  /\ ~joyActive /\ Newest.src = "joy" => Newest.m = Rest

(* What a step does to the wire: nothing, one message more, one less.       *)
Quiet == UNCHANGED <<from, axes, cmdQ, joyActive, dropped>>
Published(t) ==
  /\ cmdQ' = Push(cmdQ, t)
  /\ UNCHANGED <<from, axes>>
  /\ CountDrops
Taken ==
  /\ cmdQ # <<>> /\ cmdQ' = Tail(cmdQ)
  /\ from' = Head(cmdQ).src /\ axes' = Head(cmdQ).m
  /\ UNCHANGED <<joyActive, dropped>>

LEMMA WireStep ==
  ASSUME Typed, [Next]_vars
  PROVE  \/ Quiet
         \/ \E m \in Motions \ {Rest} : Published([src |-> "joy", m |-> m]) /\ joyActive'
         \/ Published([src |-> "joy", m |-> Rest]) /\ ~joyActive'
         \/ \E m \in Motions :
              Published([src |-> "plan", m |-> m]) /\ ~joyActive /\ UNCHANGED joyActive
         \/ Taken
<1>1. CASE HandleJoy
  <2>1. CASE OnJoyActive
    <3>1. Head(joyQ) \in Motions \ {Rest}
      BY <2>1, TakeFacts DEF OnJoyActive, Typed, QueuesTyped
    <3> QED
      BY <1>1, <2>1, <3>1 DEF HandleJoy, OnJoyActive, Published, chainVars
  <2>2. CASE OnJoyRelease
    BY <1>1, <2>2 DEF HandleJoy, OnJoyRelease, Published, chainVars
  <2>3. CASE OnJoyIdle
    BY Zenon, <1>1, <2>3 DEF HandleJoy, OnJoyIdle, Quiet, CountDrops, chainVars, Typed, WordsTyped
  <2> QED
    BY <1>1, <2>1, <2>2, <2>3 DEF HandleJoy, OnJoy
<1>2. CASE HandlePlan
  <2>1. CASE OnPlannerPass
    <3>1. Head(planQ) \in Motions
      BY <2>1, TakeFacts DEF OnPlannerPass, Typed, QueuesTyped
    <3> QED
      BY <1>2, <2>1, <3>1 DEF HandlePlan, OnPlannerPass, Published, chainVars
  <2>2. CASE OnPlannerDiscard
    BY Zenon, <1>2, <2>2 DEF HandlePlan, OnPlannerDiscard, Quiet, CountDrops, chainVars, Typed, WordsTyped
  <2> QED
    BY <1>2, <2>1, <2>2 DEF HandlePlan, OnPlanner
<1>3. CASE TakeCmd
  BY <1>3 DEF TakeCmd, Taken, Node!TakeTwist
<1>4. CASE Environment \/ Tick \/ UNCHANGED vars
  BY <1>4 DEF Environment, PadPublishes, PlannerPublishes, JoyArrives, PlanArrives,
              MoveStick, PadDies, PadReturns, Tick, GuardElapses, mcVars, chainVars, vars, Quiet
<1> QED
  BY <1>1, <1>2, <1>3, <1>4 DEF Next, System

(* Taking the oldest message leaves the newest one. *)
LEMMA LastStays ==
  ASSUME NEW S, NEW q \in Seq(S), q # <<>>, Len(q) # 1
  PROVE  Tail(q) # <<>> /\ Tail(q)[Len(Tail(q))] = q[Len(q)]
<1>1. Len(q) \in Nat /\ Len(q) # 0
  OBVIOUS
<1>2. Tail(q) \in Seq(S) /\ Len(Tail(q)) = Len(q) - 1
  OBVIOUS
<1>3. \A i \in 1..Len(Tail(q)) : Tail(q)[i] = q[i + 1]
  OBVIOUS
<1>4. Len(Tail(q)) \in 1..Len(Tail(q)) /\ Len(Tail(q)) + 1 = Len(q)
  BY <1>1, <1>2
<1>5. Tail(q) # <<>>
  BY <1>2, <1>4
<1> QED
  BY <1>3, <1>4, <1>5

LEMMA TakenMovesWire ==
  ASSUME Typed, Taken
  PROVE  Wire' = <<Head(cmdQ)>> \o Tail(cmdQ)
<1>1. Head(cmdQ) \in Twist
  BY TakeFacts DEF Typed, QueuesTyped, Taken
<1>2. [src |-> from', m |-> axes'] = Head(cmdQ)
  BY <1>1 DEF Taken, Twist
<1>3. cmdQ' = Tail(cmdQ)
  BY DEF Taken
<1>4. Wire' = <<[src |-> from', m |-> axes']>> \o cmdQ'
  BY Zenon DEF Wire
<1> QED
  BY <1>2, <1>3, <1>4

LEMMA WordStep == Typed /\ WordFits /\ [Next]_vars => WordFits'
<1> SUFFICES ASSUME Typed, WordFits, [Next]_vars PROVE WordFits'
  OBVIOUS
<1>1. cmdQ \in Seq(Twist) /\ Len(cmdQ) <= Depth
  BY DEF Typed, QueuesTyped
<1>2. ASSUME NEW t \in Twist, Published(t)
      PROVE  Newest' = t
  <2>1. cmdQ' \in Seq(Twist) /\ Len(cmdQ') >= 1 /\ cmdQ'[Len(cmdQ')] = t
    BY <1>1, <1>2, PushFacts DEF Published
  <2> QED
    BY <2>1 DEF Newest
<1>3. CASE Quiet
  BY Zenon, <1>3 DEF Quiet, Newest, WordFits
<1>4. ASSUME NEW m \in Motions \ {Rest}, Published([src |-> "joy", m |-> m]), joyActive'
      PROVE  WordFits'
  BY <1>2, <1>4 DEF WordFits, Twist
<1>5. CASE Published([src |-> "joy", m |-> Rest]) /\ ~joyActive'
  BY <1>2, <1>5, MotionControlAssumption DEF WordFits, Twist
<1>6. ASSUME NEW m \in Motions, Published([src |-> "plan", m |-> m]),
             ~joyActive, UNCHANGED joyActive
      PROVE  WordFits'
  BY <1>2, <1>6 DEF WordFits, Twist
<1>7. CASE Taken
  <2>1. Newest' = Newest
    <3>1. Head(cmdQ) \in Twist /\ Tail(cmdQ) \in Seq(Twist) /\ Len(Tail(cmdQ)) = Len(cmdQ) - 1
      BY <1>1, <1>7, TakeFacts DEF Taken
    <3>2. CASE Len(cmdQ) = 1
      <4>1. cmdQ' = <<>> /\ cmdQ[Len(cmdQ)] = Head(cmdQ)
        BY <1>1, <1>7, <3>1, <3>2 DEF Taken
      <4>2. [src |-> from', m |-> axes'] = Head(cmdQ)
        BY <1>7, <3>1 DEF Taken, Twist
      <4>3. Newest' = [src |-> from', m |-> axes']
        BY Zenon, <4>1 DEF Newest
      <4>4. Newest = Head(cmdQ)
        BY Zenon, <1>7, <4>1 DEF Newest, Taken
      <4> QED
        BY Zenon, <4>2, <4>3, <4>4
    <3>3. CASE Len(cmdQ) # 1
      <4>1. cmdQ' # <<>> /\ cmdQ # <<>> /\ cmdQ'[Len(cmdQ')] = cmdQ[Len(cmdQ)]
        BY Zenon, <1>1, <1>7, <3>3, LastStays DEF Taken
      <4>2. Newest' = cmdQ'[Len(cmdQ')] /\ Newest = cmdQ[Len(cmdQ)]
        BY Zenon, <4>1 DEF Newest
      <4> QED
        BY Zenon, <4>1, <4>2
    <3> QED
      BY <3>2, <3>3
  <2> QED
    BY <1>7, <2>1 DEF WordFits, Taken
<1> QED
  BY <1>3, <1>4, <1>5, <1>6, <1>7, WireStep

LEMMA InitFits == Init => WordFits
BY DEF Init, McInit, WordFits, Newest

(* Whatever the planner publishes and however slowly the callbacks run, the *)
(* newest Twist on the wire is the operator's for as long as motion_control *)
(* believes a stick is pushed.                                              *)
THEOREM OperatorHasLastWordAlways == Spec => []OperatorHasLastWord
<1>1. Typed /\ WordFits => OperatorHasLastWord
  BY Zenon, NewestIsLast DEF WordFits, OperatorHasLastWord
<1> QED
  BY <1>1, InitTyped, InitFits, StepTyped, WordStep, PTL DEF Spec

-----------------------------------------------------------------------------
(* A message joins the wire behind everything sent before it.               *)
LEMMA WireGrows ==
  ASSUME NEW h, NEW q \in Seq(Twist), NEW t \in Twist
  PROVE  /\ Len(<<h>> \o Append(q, t)) = Len(<<h>> \o q) + 1
         /\ (<<h>> \o Append(q, t))[Len(<<h>> \o q) + 1] = t
         /\ \A i \in 1..Len(<<h>> \o q) : (<<h>> \o Append(q, t))[i] = (<<h>> \o q)[i]
<1>1. Append(q, t) \in Seq(Twist) /\ Len(Append(q, t)) = Len(q) + 1
  OBVIOUS
<1>2. (<<h>> \o Append(q, t))[Len(q) + 2] = t
  OBVIOUS
<1>3. ASSUME NEW i \in 1..Len(<<h>> \o q)
      PROVE  (<<h>> \o Append(q, t))[i] = (<<h>> \o q)[i]
  OBVIOUS
<1> QED
  BY <1>1, <1>2, <1>3, WireFacts

(* The receiver moves on by one message. *)
LEMMA WireMoves ==
  ASSUME NEW h, NEW q \in Seq(Twist), q # <<>>
  PROVE  /\ Len(<<Head(q)>> \o Tail(q)) = Len(<<h>> \o q) - 1
         /\ \A i \in 1..Len(<<Head(q)>> \o Tail(q)) :
              (<<Head(q)>> \o Tail(q))[i] = (<<h>> \o q)[i + 1]
OBVIOUS

LEMMA HandoverStep == Typed /\ WordFits /\ HandoverThroughZero /\ [Next]_vars
                        => HandoverThroughZero'
<1> SUFFICES ASSUME Typed, WordFits, HandoverThroughZero, [Next]_vars, ~dropped',
                    NEW i \in 1..(Len(Wire') - 1),
                    Wire'[i].src = "joy", Wire'[i + 1].src = "plan"
             PROVE  Wire'[i].m = Rest
  BY DEF HandoverThroughZero
<1> DEFINE h == [src |-> from, m |-> axes]
<1>1. cmdQ \in Seq(Twist) /\ Len(cmdQ) <= Depth /\ Len(Wire) = Len(cmdQ) + 1
  BY WireFacts DEF Typed, QueuesTyped, Wire
<1>2. ASSUME ~dropped, i \in 1..(Len(Wire) - 1), Wire'[i] = Wire[i], Wire'[i + 1] = Wire[i + 1]
      PROVE  Wire'[i].m = Rest
  BY <1>2 DEF HandoverThroughZero
<1>3. ASSUME NEW t \in Twist, Published(t), t.src = "plan" => ~joyActive
      PROVE  Wire'[i].m = Rest
  <2>1. CASE cmdQ' = cmdQ
    <3>1. Wire' = Wire /\ ~dropped
      BY <1>3, <2>1 DEF Published, Wire, CountDrops
    <3> QED
      BY <1>2, <3>1
  <2>2. CASE cmdQ' # cmdQ
    <3>1. ~dropped /\ Len(cmdQ) # Depth
      BY <1>3, <2>2 DEF Published, CountDrops
    <3>2. Wire = <<h>> \o cmdQ /\ Wire' = <<h>> \o Append(cmdQ, t)
      <4>1. cmdQ' = Append(cmdQ, t)
        BY <1>1, <1>3, <3>1, PushFacts DEF Published
      <4>2. UNCHANGED <<from, axes>>
        BY Zenon, <1>3 DEF Published
      <4> QED
        BY Zenon, <4>1, <4>2 DEF Wire
    <3> HIDE DEF h
    <3>3. /\ Len(Wire') = Len(Wire) + 1 /\ Wire'[Len(Wire) + 1] = t
          /\ \A k \in 1..Len(Wire) : Wire'[k] = Wire[k]
      BY <1>1, <3>2, WireGrows
    <3>4. CASE i = Len(Wire)
      <4>1. Wire'[i] = Newest /\ t.src = "plan"
        BY <1>1, <3>3, <3>4, NewestIsLast DEF Last
      <4> QED
        BY <1>3, <4>1 DEF WordFits
    <3>5. CASE i # Len(Wire)
      BY <1>1, <1>2, <3>1, <3>3, <3>5
    <3> QED
      BY <3>4, <3>5
  <2> QED
    BY <2>1, <2>2
<1>4. CASE Quiet
  <2>1. Wire' = Wire /\ ~dropped
    BY <1>4 DEF Quiet, Wire
  <2> QED
    BY <1>2, <2>1
<1>5. CASE Taken
  <2>1. cmdQ # <<>> /\ Wire = <<h>> \o cmdQ /\ ~dropped
    BY <1>5 DEF Taken, Wire
  <2> HIDE DEF h
  <2>2. /\ Len(Wire') = Len(Wire) - 1
        /\ \A k \in 1..Len(Wire') : Wire'[k] = Wire[k + 1]
    BY <1>1, <1>5, <2>1, TakenMovesWire, WireMoves
  <2>3. i + 1 \in 1..(Len(Wire) - 1) /\ Wire'[i] = Wire[i + 1] /\ Wire'[i + 1] = Wire[(i + 1) + 1]
    BY <1>1, <2>2
  <2> QED
    BY <2>1, <2>3 DEF HandoverThroughZero
<1>6. \A m \in Motions : [src |-> "joy", m |-> m] \in Twist /\ [src |-> "plan", m |-> m] \in Twist
  BY DEF Twist
<1> QED
  BY <1>3, <1>4, <1>5, <1>6, WireStep, MotionControlAssumption

LEMMA InitHandover == Init => HandoverThroughZero
BY WireFacts DEF Init, McInit, HandoverThroughZero, Wire

(* Without an overflow of cmd_vel's queue, no plan follows a moving stick:  *)
(* the release's zero Twist lies between them.                              *)
THEOREM HandoverAlwaysThroughZero == Spec => []HandoverThroughZero
BY InitTyped, InitFits, InitHandover, StepTyped, WordStep, HandoverStep, PTL DEF Spec
=============================================================================
