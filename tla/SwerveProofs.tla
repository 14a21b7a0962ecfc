----------------------------- MODULE SwerveProofs -----------------------------
(* What the swerve chain guarantees for every set of modules and headings,  *)
(* every angle unit, queue depth and timeout.                               *)
EXTENDS SwerveChain, WheelNumericsProofs

(* The swerve part of the state is described by SdTypeOK, KnowsTheJoints    *)
(* and RollsAsAsked; their conjunction with the types of the queues, whose  *)
(* Twists the node mixes, is inductive.                                     *)
IInv == TypeOK /\ KnowsTheJoints /\ RollsAsAsked

-----------------------------------------------------------------------------
(* Whole numbers between -1 and 1 turns are 0 turns.                        *)
LEMMA SmallMultiple ==
  ASSUME NEW q \in Nat \ {0}, NEW n \in Int, -q < q * n, q * n < q
  PROVE  n = 0
<1>1. CASE n >= 1
  <2>1. q * (n - 1) >= 0
    BY <1>1
  <2>2. q * (n - 1) = q * n - q /\ q * n \in Int
    OBVIOUS
  <2> QED
    BY <2>1, <2>2
<1>2. CASE n <= -1
  <2>1. q * (-n - 1) >= 0
    BY <1>2
  <2>2. q * (-n - 1) = -(q * n) - q /\ q * n \in Int
    OBVIOUS
  <2> QED
    BY <2>1, <2>2
<1> QED
  BY <1>1, <1>2

(* A whole number of turns leaves no remainder.                             *)
LEMMA WholeTurns ==
  ASSUME NEW q \in Nat \ {0}, NEW n \in Int
  PROVE  (q * n) % q = 0
<1> DEFINE d == (q * n) \div q
           r == (q * n) % q
<1>0. q * n \in Int
  OBVIOUS
<1>1. d \in Int /\ r \in Int /\ 0 <= r /\ r < q /\ q * n = q * d + r
  BY <1>0, DivMod
<1> HIDE DEF d, r
<1>2. q * (n - d) = q * n - q * d /\ q * d \in Int /\ n - d \in Int
  BY <1>1
<1>3. q * (n - d) = r
  BY <1>0, <1>1, <1>2
<1>4. n - d = 0
  BY <1>1, <1>2, <1>3, SmallMultiple
<1>5. r = 0
  BY <1>3, <1>4
<1> QED
  BY <1>5 DEF r

(* wrap changes an angle by whole turns, into half a turn either way.       *)
LEMMA WrapRange ==
  ASSUME NEW x \in Int
  PROVE  /\ Wrap(x) \in Int
         /\ -HalfTurn < Wrap(x)
         /\ Wrap(x) <= HalfTurn
         /\ \E n \in Int : Wrap(x) = x + Turn * n
<1> DEFINE q == (HalfTurn - x) \div Turn
           r == (HalfTurn - x) % Turn
<1>1. HalfTurn \in Nat \ {0} /\ Turn \in Nat \ {0} /\ Turn = 2 * HalfTurn
  BY SwerveKinematicsAssumption DEF Turn
<1>2. HalfTurn - x \in Int
  BY <1>1
<1>3. q \in Int /\ r \in Int /\ 0 <= r /\ r < Turn /\ HalfTurn - x = Turn * q + r
  BY <1>1, <1>2, DivMod
<1>4. Wrap(x) = -(r - HalfTurn)
  BY DEF Wrap
<1> HIDE DEF q, r
<1>5. Turn * q \in Int
  BY <1>1, <1>3
<1>6. Wrap(x) = x + Turn * q
  BY <1>1, <1>3, <1>4, <1>5
<1> QED
  BY <1>1, <1>3, <1>4, <1>6

(* The two candidates of mix are half a turn apart, so that the nearer one  *)
(* is at most a quarter turn away.                                          *)
LEMMA Opposite ==
  ASSUME NEW x \in Int
  PROVE  \/ Wrap(x + HalfTurn) = Wrap(x) + HalfTurn
         \/ Wrap(x + HalfTurn) = Wrap(x) - HalfTurn
<1>1. HalfTurn \in Nat \ {0} /\ Turn \in Nat \ {0} /\ Turn = 2 * HalfTurn
  BY SwerveKinematicsAssumption DEF Turn
<1> DEFINE v == Wrap(x)
           w == Wrap(x + HalfTurn)
<1>2. v \in Int /\ -HalfTurn < v /\ v <= HalfTurn
  BY WrapRange
<1>3. w \in Int /\ -HalfTurn < w /\ w <= HalfTurn
  BY <1>1, WrapRange
<1>4. PICK n \in Int : v = x + Turn * n
  BY WrapRange
<1>5. PICK m \in Int : w = (x + HalfTurn) + Turn * m
  <2>1. x + HalfTurn \in Int
    BY <1>1
  <2> HIDE DEF v
  <2> QED
    BY <2>1, WrapRange
<1> HIDE DEF v, w
<1>6. Turn * (m - n) = Turn * m - Turn * n /\ Turn * m \in Int /\ Turn * n \in Int
  BY <1>1
<1>7. w - v = HalfTurn + Turn * (m - n)
  BY <1>1, <1>4, <1>5, <1>6
<1>8. CASE w >= v
  <2>1. -Turn < Turn * (m - n) /\ Turn * (m - n) < Turn
    BY <1>1, <1>2, <1>3, <1>6, <1>7, <1>8
  <2>2. m - n = 0
    BY <1>1, <2>1, SmallMultiple
  <2>3. Turn * (m - n) = 0
    BY <1>1, <2>2
  <2> QED
    BY <1>1, <1>2, <1>3, <1>7, <2>3 DEF v, w
<1>9. CASE w < v
  <2>1. Turn * (m - n + 1) = Turn * (m - n) + Turn /\ m - n + 1 \in Int
    BY <1>1
  <2>2. -Turn < Turn * (m - n + 1) /\ Turn * (m - n + 1) < Turn
    BY <1>1, <1>2, <1>3, <1>6, <1>7, <1>9, <2>1
  <2>3. m - n + 1 = 0
    BY <1>1, <2>1, <2>2, SmallMultiple
  <2>4. Turn * (m - n + 1) = 0
    BY <1>1, <2>3
  <2> QED
    BY <1>1, <1>2, <1>3, <1>6, <1>7, <2>1, <2>4 DEF v, w
<1> QED
  BY <1>2, <1>3, <1>8, <1>9

(* What mix commands a module that moves: at most a quarter turn from the   *)
(* angle commanded last, at the asked speed, forwards or backwards.         *)
LEMMA AimSteer ==
  ASSUME NEW desired \in Int, NEW speed \in Nat \ {0}, NEW prev \in Int
  PROVE  LET c == Aim(desired, speed, prev)
         IN  /\ c.steer \in Int
             /\ c.drive \in {speed, -speed}
             /\ 2 * Abs(c.steer - prev) <= HalfTurn
             /\ RollsTowards(c.steer, c.drive, desired)
<1> DEFINE x == desired - prev
           v == Wrap(x)
           w == Wrap(x + HalfTurn)
           c == Aim(desired, speed, prev)
<1>1. HalfTurn \in Nat \ {0} /\ Turn \in Nat \ {0} /\ Turn = 2 * HalfTurn
  BY SwerveKinematicsAssumption DEF Turn
<1>2. x \in Int /\ x + HalfTurn \in Int /\ desired + HalfTurn - prev = x + HalfTurn
  BY <1>1
<1>3. /\ v \in Int /\ -HalfTurn < v /\ v <= HalfTurn
      /\ \E n \in Int : v = x + Turn * n
  <2> HIDE DEF x
  <2> QED
    BY <1>2, WrapRange
<1>4. /\ w \in Int /\ -HalfTurn < w /\ w <= HalfTurn
      /\ \E n \in Int : w = x + HalfTurn + Turn * n
  <2> HIDE DEF x
  <2> QED
    BY <1>2, WrapRange
<1>5. w = v + HalfTurn \/ w = v - HalfTurn
  <2> HIDE DEF x
  <2> QED
    BY <1>2, Opposite
<1>6. c = IF Abs(prev + v - prev) <= Abs(prev + w - prev)
          THEN [steer |-> prev + v, drive |-> speed]
          ELSE [steer |-> prev + w, drive |-> -speed]
  <2>1. Wrap(desired - prev) = v /\ Wrap(desired + HalfTurn - prev) = w
    BY <1>2
  <2>2. c = Aim(desired, speed, prev)
    OBVIOUS
  <2> HIDE DEF v, w, x, c
  <2> QED
    BY <1>3, <1>4, <2>1, <2>2 DEF Aim, Abs
<1>7. prev + v - prev = v /\ prev + w - prev = w
  BY <1>3, <1>4
<1> HIDE DEF v, w, c
<1>8. CASE Abs(v) <= Abs(w)
  <2>1. c = [steer |-> prev + v, drive |-> speed]
    BY <1>6, <1>7, <1>8
  <2>2. 2 * Abs(v) <= HalfTurn
    BY <1>1, <1>3, <1>4, <1>5, <1>8 DEF Abs
  <2>3. PICK n \in Int : v = x + Turn * n
    BY <1>3
  <2>4. Turn * n \in Int /\ prev + v + 0 - desired = Turn * n
    BY <1>1, <1>2, <2>3
  <2>5. RollsTowards(prev + v, speed, desired)
    BY <1>1, <2>4, WholeTurns DEF RollsTowards
  <2> QED
    BY <1>3, <1>7, <2>1, <2>2, <2>5 DEF c
<1>9. CASE ~(Abs(v) <= Abs(w))
  <2>1. c = [steer |-> prev + w, drive |-> -speed]
    BY <1>6, <1>7, <1>9
  <2>2. 2 * Abs(w) <= HalfTurn
    BY <1>1, <1>3, <1>4, <1>5, <1>9 DEF Abs
  <2>3. PICK n \in Int : w = x + HalfTurn + Turn * n
    BY <1>4
  <2>4. Turn * n \in Int /\ Turn * (n + 1) = Turn * n + Turn /\ n + 1 \in Int
    BY <1>1
  <2>5. prev + w + HalfTurn - desired = Turn * (n + 1)
    BY <1>1, <1>2, <2>3, <2>4
  <2>6. RollsTowards(prev + w, -speed, desired)
    <3>1. -speed < 0
      OBVIOUS
    <3>2. (Turn * (n + 1)) % Turn = 0
      BY <1>1, <2>4, WholeTurns
    <3> QED
      BY <2>5, <3>1, <3>2 DEF RollsTowards
  <2> QED
    BY <1>4, <1>7, <2>1, <2>2, <2>6 DEF c
<1> QED
  BY <1>8, <1>9

(* What mix commands any module, in the terms of the invariant.             *)
LEMMA MixSteer ==
  ASSUME SdTypeOK, NEW t \in Motions, NEW k \in Modules
  PROVE  /\ Mix(t)[k].steer \in Int
         /\ Mix(t)[k].drive \in Int
         /\ 2 * Abs(Mix(t)[k].steer - prevSteer[k]) <= HalfTurn
         /\ Mix(t)[k].drive = 0 => Mix(t)[k].steer = prevSteer[k]
         /\ Mix(t)[k].drive # 0 =>
              /\ Abs(Mix(t)[k].drive) = Speed[t][k]
              /\ RollsTowards(Mix(t)[k].steer, Mix(t)[k].drive, Heading[t][k])
<1> DEFINE h == Heading[t][k]
           s == Speed[t][k]
           p == prevSteer[k]
           c == Mix(t)[k]
<1>1. h \in Int /\ s \in Nat /\ p \in Int /\ HalfTurn \in Nat
  BY SwerveDriveAssumption, SwerveKinematicsAssumption DEF SdTypeOK
<1>2. c = MixModule(h, s, p)
  BY DEF Mix
<1> HIDE DEF h, s, p, c
<1>3. CASE s = 0
  <2>1. c = [steer |-> p, drive |-> 0]
    BY <1>2, <1>3 DEF MixModule
  <2>2. c.steer = p /\ c.drive = 0
    BY <2>1
  <2>3. 2 * Abs(p - p) <= HalfTurn
    BY <1>1 DEF Abs
  <2> QED
    BY <1>1, <2>2, <2>3 DEF c, p, s, h
<1>4. CASE s # 0
  <2>1. c = Aim(h, s, p)
    BY <1>2, <1>4 DEF MixModule
  <2>2. /\ c.steer \in Int
        /\ c.drive \in {s, -s}
        /\ 2 * Abs(c.steer - p) <= HalfTurn
        /\ RollsTowards(c.steer, c.drive, h)
    BY <1>1, <1>4, <2>1, AimSteer
  <2>3. c.drive \in Int /\ c.drive # 0 /\ Abs(c.drive) = s
    BY <1>1, <1>4, <2>2 DEF Abs
  <2> QED
    BY <2>2, <2>3 DEF c, p, s, h
<1> QED
  BY <1>3, <1>4

-----------------------------------------------------------------------------
(* The empty queue, the window that is over and the one that starts.        *)
LEMMA EmptyType ==
  /\ \A S : <<>> \in Seq(S)
  /\ Len(<<>>) <= Depth
  /\ 0 \in 0..Guard
  /\ Guard \in 0..Guard
  BY SwerveChainAssumption

(* The initial state. *)
LEMMA InitIInv == Init => IInv
<1> SUFFICES ASSUME Init PROVE IInv
  OBVIOUS
<1> USE DEF Init, SdInit, Mc!McInit
<1>1. SdTypeOK
  <2>1. Still \in [Modules -> Int]
    BY DEF Still
  <2>2. 0 \in 0..(Timeout + 1)
    BY SwerveDriveAssumption
  <2> QED
    BY <2>1, <2>2, SwerveDriveAssumption DEF SdTypeOK
<1>2. Mc!McTypeOK
  BY EmptyType, SwerveChainAssumption DEF Mc!McTypeOK
<1>3. TypeOK
  BY <1>1, <1>2, SwerveDriveAssumption DEF TypeOK
<1>4. KnowsTheJoints
  BY DEF KnowsTheJoints
<1>5. RollsAsAsked
  BY DEF RollsAsAsked, Still
<1> QED
  BY <1>3, <1>4, <1>5 DEF IInv

(* A bounded queue of well-typed messages stays one when a message is       *)
(* pushed or its oldest taken.                                              *)
LEMMA PushType ==
  ASSUME NEW S, NEW q \in Seq(S), Len(q) <= Depth, NEW x \in S
  PROVE  Mc!Push(q, x) \in Seq(S) /\ Len(Mc!Push(q, x)) <= Depth
<1>1. Depth \in Nat \ {0}
  BY SwerveChainAssumption
<1>2. CASE Len(q) = Depth
  <2>1. q # <<>>
    BY <1>1, <1>2
  <2>2. Tail(q) \in Seq(S) /\ Len(Tail(q)) = Len(q) - 1
    BY <2>1
  <2> QED
    BY <1>1, <1>2, <2>2 DEF Mc!Push
<1>3. CASE Len(q) # Depth
  BY <1>1, <1>3 DEF Mc!Push
<1> QED
  BY <1>2, <1>3

LEMMA TailType ==
  ASSUME NEW S, NEW q \in Seq(S), Len(q) <= Depth, q # <<>>
  PROVE  /\ Tail(q) \in Seq(S)
         /\ Len(Tail(q)) <= Depth
         /\ Head(q) \in S
  BY SwerveChainAssumption

(* _on_joy leaves the queues of motion_control well typed.                  *)
LEMMA OnJoyType ==
  ASSUME Mc!McTypeOK, Mc!OnJoy
  PROVE  Mc!McTypeOK'
<1> USE DEF Mc!McTypeOK
<1>0. /\ Rest \in Motions
      /\ joyQ # <<>>
      /\ joyQ' = Tail(joyQ)
      /\ Head(joyQ) \in Motions
      /\ joyQ' \in Seq(Motions)
      /\ Len(joyQ') <= Depth
  BY SwerveDriveAssumption, TailType
     DEF Mc!OnJoy, Mc!OnJoyActive, Mc!OnJoyRelease, Mc!OnJoyIdle
<1>1. CASE Mc!OnJoyActive
  <2> DEFINE x == [src |-> "joy", m |-> Head(joyQ)]
  <2>1. x \in Mc!Twist
    BY <1>0 DEF Mc!Twist
  <2>2. cmdQ' \in Seq(Mc!Twist) /\ Len(cmdQ') <= Depth
    BY <1>1, <2>1, PushType DEF Mc!OnJoyActive
  <2> QED
    BY <1>0, <1>1, <2>2 DEF Mc!OnJoyActive
<1>2. CASE Mc!OnJoyRelease
  <2> DEFINE x == [src |-> "joy", m |-> Rest]
  <2>1. x \in Mc!Twist
    BY <1>0 DEF Mc!Twist
  <2>2. cmdQ' \in Seq(Mc!Twist) /\ Len(cmdQ') <= Depth
    BY <1>2, <2>1, PushType DEF Mc!OnJoyRelease
  <2> QED
    BY <1>0, <1>2, <2>2, EmptyType DEF Mc!OnJoyRelease
<1>3. CASE Mc!OnJoyIdle
  BY <1>0, <1>3 DEF Mc!OnJoyIdle
<1> QED
  BY <1>1, <1>2, <1>3 DEF Mc!OnJoy

(* _on_twist: the joints follow mix, the watchdog is armed if one turns.    *)
LEMMA OnTwistStep ==
  ASSUME SdTypeOK, NEW t \in Motions, OnTwist(t)
  PROVE  SdTypeOK' /\ KnowsTheJoints' /\ RollsAsAsked'
<1>1. /\ steer' = [k \in Modules |-> Mix(t)[k].steer]
      /\ drive' = [k \in Modules |-> Mix(t)[k].drive]
      /\ prevSteer' = steer'
  BY DEF OnTwist, Publish
<1>2. /\ up' = up
      /\ age' = 0
      /\ moving' = (\E k \in Modules : drive'[k] # 0)
      /\ asked' = t
      /\ fresh' = FALSE
  BY DEF OnTwist
<1>3. steer' \in [Modules -> Int] /\ drive' \in [Modules -> Int]
  BY <1>1, MixSteer
<1>4. SdTypeOK'
  <2>1. 0 \in 0..(Timeout + 1)
    BY SwerveDriveAssumption
  <2>2. moving' \in BOOLEAN
    BY <1>2
  <2> QED
    BY <1>1, <1>2, <1>3, <2>1, <2>2 DEF SdTypeOK
<1>5. KnowsTheJoints'
  <2>1. drive' # Still <=> \E k \in Modules : drive'[k] # 0
    BY <1>3 DEF Still
  <2> QED
    BY <1>1, <1>2, <2>1 DEF KnowsTheJoints, Still
<1>6. RollsAsAsked'
  <2> SUFFICES ASSUME NEW k \in Modules, drive'[k] # 0
               PROVE  /\ Abs(drive'[k]) = Speed[t][k]
                      /\ RollsTowards(steer'[k], drive'[k], Heading[t][k])
    BY <1>2 DEF RollsAsAsked
  <2>1. drive'[k] = Mix(t)[k].drive /\ steer'[k] = Mix(t)[k].steer
    BY <1>1
  <2> QED
    BY <2>1, MixSteer
<1> QED
  BY <1>4, <1>5, <1>6

(* _watchdog, the passing of time, death and restart.                       *)
LEMMA SwerveStep ==
  ASSUME SdTypeOK, KnowsTheJoints, RollsAsAsked,
         WatchdogStops \/ Ages \/ Dies \/ Restarts
  PROVE  SdTypeOK' /\ KnowsTheJoints' /\ RollsAsAsked'
<1>0. Still \in [Modules -> Int] /\ 0 \in 0..(Timeout + 1) /\ Timeout \in Nat
  BY SwerveDriveAssumption DEF Still
<1>1. CASE WatchdogStops
  <2>1. /\ steer' = [k \in Modules |-> prevSteer[k]]
        /\ drive' = Still
        /\ prevSteer' = steer'
        /\ moving' = FALSE
        /\ UNCHANGED <<up, age, asked, fresh>>
    BY <1>1 DEF WatchdogStops, Publish, Still
  <2>2. SdTypeOK'
    BY <1>0, <2>1 DEF SdTypeOK
  <2>3. KnowsTheJoints'
    BY <2>1 DEF KnowsTheJoints, Still
  <2>4. RollsAsAsked'
    BY <2>1 DEF RollsAsAsked, Still
  <2> QED
    BY <2>2, <2>3, <2>4
<1>2. CASE Ages
  <2>1. SdTypeOK'
    BY <1>0, <1>2 DEF Ages, SdTypeOK, joints
  <2> QED
    BY <1>2, <2>1 DEF Ages, joints, KnowsTheJoints, RollsAsAsked, Still
<1>3. CASE Dies
  BY <1>3 DEF Dies, joints, SdTypeOK, KnowsTheJoints, RollsAsAsked, Still
<1>4. CASE Restarts
  <2>1. SdTypeOK'
    BY <1>0, <1>4 DEF Restarts, SdTypeOK, joints
  <2> QED
    BY <1>4, <2>1 DEF Restarts, joints, KnowsTheJoints, RollsAsAsked, Still
<1> QED
  BY <1>1, <1>2, <1>3, <1>4

(* The swerve part of IInv depends on its own variables only.               *)
LEMMA SwerveUnchanged ==
  ASSUME SdTypeOK, KnowsTheJoints, RollsAsAsked, UNCHANGED sdVars
  PROVE  SdTypeOK' /\ KnowsTheJoints' /\ RollsAsAsked'
BY DEF sdVars, joints, SdTypeOK, KnowsTheJoints, RollsAsAsked, Still

(* Every step preserves the invariant. *)
LEMMA IInvStep == IInv /\ [Next]_vars => IInv'
<1> SUFFICES ASSUME IInv, [Next]_vars PROVE IInv'
  OBVIOUS
<1>0. /\ SdTypeOK /\ KnowsTheJoints /\ RollsAsAsked /\ Mc!McTypeOK
      /\ padOn \in BOOLEAN /\ stick \in Motions
  BY DEF IInv, TypeOK
<1> SUFFICES /\ SdTypeOK' /\ KnowsTheJoints' /\ RollsAsAsked' /\ Mc!McTypeOK'
             /\ padOn' \in BOOLEAN /\ stick' \in Motions
  BY DEF IInv, TypeOK
<1>1. CASE MoveStick
  BY <1>0, <1>1, SwerveUnchanged DEF MoveStick, mcVars, Mc!McTypeOK
<1>2. CASE PadToggles
  BY <1>0, <1>2, SwerveUnchanged DEF PadToggles, mcVars, Mc!McTypeOK
<1>3. CASE PadPublishes
  <2>1. joyQ' \in Seq(Motions) /\ Len(joyQ') <= Depth
    BY <1>0, <1>3, PushType DEF PadPublishes, Mc!JoyArrives, Mc!McTypeOK
  <2> QED
    BY <1>0, <1>3, <2>1, SwerveUnchanged DEF PadPublishes, Mc!JoyArrives, Mc!McTypeOK
<1>4. CASE HandleJoy
  BY <1>0, <1>4, OnJoyType, SwerveUnchanged DEF HandleJoy
<1>5. CASE MotionControlRestarts
  BY <1>0, <1>5, EmptyType, SwerveUnchanged DEF MotionControlRestarts, Mc!McTypeOK
<1>6. CASE TakeTwist
  <2>1. /\ cmdQ' \in Seq(Mc!Twist) /\ Len(cmdQ') <= Depth
        /\ Head(cmdQ) \in Mc!Twist
    BY <1>0, <1>6, TailType DEF TakeTwist, Mc!McTypeOK
  <2>2. Head(cmdQ).m \in Motions
    BY <2>1 DEF Mc!Twist
  <2>3. SdTypeOK' /\ KnowsTheJoints' /\ RollsAsAsked'
    BY <1>0, <1>6, <2>2, OnTwistStep DEF TakeTwist
  <2> QED
    BY <1>0, <1>6, <2>1, <2>3 DEF TakeTwist, Mc!McTypeOK
<1>7. CASE Watchdog
  BY <1>0, <1>7, SwerveStep DEF Watchdog, mcVars, Mc!McTypeOK
<1>8. CASE NodeDies
  BY <1>0, <1>8, SwerveStep, EmptyType DEF NodeDies, Mc!McTypeOK
<1>9. CASE LoseTwist
  BY <1>0, <1>9, SwerveUnchanged, EmptyType DEF LoseTwist, Mc!McTypeOK
<1>10. CASE NodeRestarts
  BY <1>0, <1>10, SwerveStep DEF NodeRestarts, mcVars, Mc!McTypeOK
<1>11. CASE Tick
  <2>1. guard' \in 0..Guard
    BY <1>0, <1>11, SwerveChainAssumption DEF Tick, Mc!GuardElapses, Mc!McTypeOK
  <2> QED
    BY <1>0, <1>11, <2>1, SwerveStep DEF Tick, Mc!GuardElapses, Mc!McTypeOK
<1>12. CASE UNCHANGED vars
  BY <1>0, <1>12, SwerveUnchanged DEF vars, mcVars, Mc!McTypeOK
<1> QED
  BY <1>1, <1>2, <1>3, <1>4, <1>5, <1>6, <1>7, <1>8, <1>9, <1>10, <1>11, <1>12 DEF Next

THEOREM IInvAlways == Spec => []IInv
BY InitIInv, IInvStep, PTL DEF Spec

(* The types of the node, the joints, the pad and the queues.               *)
THEOREM TypeCorrect == Spec => []TypeOK
<1>1. IInv => TypeOK
  BY DEF IInv
<1> QED
  BY IInvAlways, <1>1, PTL

(* Through deaths and restarts of every process, a node that has handled a  *)
(* Twist knows the joints, and its watchdog is armed exactly while a wheel  *)
(* is commanded to turn.                                                    *)
THEOREM KnowsTheJointsAlways == Spec => []KnowsTheJoints
<1>1. IInv => KnowsTheJoints
  BY DEF IInv
<1> QED
  BY IInvAlways, <1>1, PTL

(* A driven wheel always rolls where the last Twist asks, whatever the      *)
(* modules' headings and however often the angles have wound.               *)
THEOREM RollsAsAskedAlways == Spec => []RollsAsAsked
<1>1. IInv => RollsAsAsked
  BY DEF IInv
<1> QED
  BY IInvAlways, <1>1, PTL

(* mix never swings a module by more than a quarter turn, and a stop never  *)
(* swings one, but for the first Twist of a restarted node.                 *)
THEOREM SteersAtMostQuarterAlways == Spec => SteersAtMostQuarter
<1> DEFINE Gentle == \A k \in Modules :
             /\ 2 * Abs(steer'[k] - steer[k]) <= HalfTurn
             /\ drive'[k] = 0 => steer'[k] = steer[k]
<1>1. IInv /\ [Next]_vars => [fresh \/ Gentle]_sdVars
  <2> SUFFICES ASSUME IInv, [Next]_vars, ~fresh, ~UNCHANGED sdVars PROVE Gentle
    OBVIOUS
  <2>0. /\ SdTypeOK /\ prevSteer = steer /\ HalfTurn \in Nat
        /\ steer \in [Modules -> Int]
    BY SwerveKinematicsAssumption DEF IInv, TypeOK, KnowsTheJoints, SdTypeOK
  <2>1. CASE steer' = steer
    BY <2>0, <2>1 DEF Abs
  <2>2. CASE Watchdog
    <3>1. steer' = [k \in Modules |-> prevSteer[k]]
      BY <2>2 DEF Watchdog, WatchdogStops, Publish
    <3>2. steer' = steer
      BY <2>0, <3>1
    <3> QED
      BY <2>1, <3>2
  <2>3. CASE TakeTwist
    <3>1. PICK t \in Motions : OnTwist(t)
      <4>1. Head(cmdQ) \in Mc!Twist
        BY <2>3, TailType DEF IInv, TypeOK, Mc!McTypeOK, TakeTwist
      <4> QED
        BY <2>3, <4>1 DEF TakeTwist, Mc!Twist
    <3>2. /\ steer' = [k \in Modules |-> Mix(t)[k].steer]
          /\ drive' = [k \in Modules |-> Mix(t)[k].drive]
      BY <3>1 DEF OnTwist, Publish
    <3> SUFFICES ASSUME NEW k \in Modules
                 PROVE  /\ 2 * Abs(steer'[k] - steer[k]) <= HalfTurn
                        /\ drive'[k] = 0 => steer'[k] = steer[k]
      OBVIOUS
    <3>3. steer'[k] = Mix(t)[k].steer /\ drive'[k] = Mix(t)[k].drive
      BY <3>2
    <3> QED
      BY <2>0, <3>3, MixSteer
  <2>4. TakeTwist \/ Watchdog \/ steer' = steer
    BY DEF Next, vars, sdVars, joints, MoveStick, PadToggles, PadPublishes,
           HandleJoy, MotionControlRestarts, NodeDies, Dies, LoseTwist,
           NodeRestarts, Restarts, Tick, Ages
  <2> QED
    BY <2>1, <2>2, <2>3, <2>4
<1> QED
  BY IInvAlways, <1>1, PTL DEF Spec, SteersAtMostQuarter
=============================================================================
