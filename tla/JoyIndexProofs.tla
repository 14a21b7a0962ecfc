---------------------------- MODULE JoyIndexProofs ----------------------------
(* The joystick index file is sound for every set of pads and devices, and  *)
(* however long pads come and go.                                           *)
EXTENDS JoyIndex, TLAPS

(* What a script in its locked section knows about the file, and what one   *)
(* past FindKey or publishing keeps.                                        *)
Reading == \A d \in Devs : At(d, "append") =>
  /\ \A line \in Lines : line.key # key[d]
  /\ num[d] = Len(map)

Identified == \A d \in Devs :
  step[d] \in {"lock", "look", "append", "publish"} /\ occupant[d] # Nobody
    => key[d] = occupant[d]

Published == \A d \in Devs :
  At(d, "publish") => [key |-> key[d], n |-> num[d]] \in Lines

IInv == JiTypeOK /\ OneLinePerPad /\ Reading /\ Identified /\ Published

-----------------------------------------------------------------------------
(* When the numbers in use are 0..n-1, the lowest free one is n.            *)
LEMMA LowestFree ==
  ASSUME NEW n \in Nat
  PROVE  Min(0..n \ 0..(n - 1)) = n
<1>1. 0..n \ 0..(n - 1) = {n}
  OBVIOUS
<1> QED
  BY <1>1 DEF Min

(* A line appended to the file keeps the others.                            *)
LEMMA AppendedLines ==
  ASSUME NEW s, NEW T, s \in Seq(T), NEW e \in T
  PROVE  /\ Append(s, e) \in Seq(T)
         /\ Len(Append(s, e)) = Len(s) + 1
         /\ DOMAIN Append(s, e) = 1..(Len(s) + 1)
         /\ \A i \in 1..Len(s) : Append(s, e)[i] = s[i]
         /\ Append(s, e)[Len(s) + 1] = e
         /\ DOMAIN s = 1..Len(s)
OBVIOUS

LEMMA LineOf == ASSUME NEW T, NEW s \in Seq(T), NEW i \in DOMAIN s PROVE s[i] \in T
OBVIOUS

(* Two instances that publish at the same index have the same key.          *)
LEMMA IInvImpliesOwnTopic == IInv => OwnTopic
<1> SUFFICES ASSUME IInv, NEW d \in Devs, At(d, "publish")
             PROVE  /\ [key |-> key[d], n |-> num[d]] \in Lines
                    /\ occupant[d] # Nobody => key[d] = occupant[d]
                    /\ \A e \in Devs : At(e, "publish") /\ key[e] # key[d] => num[e] # num[d]
  BY DEF OwnTopic
<1>1. [key |-> key[d], n |-> num[d]] \in Lines
  BY DEF IInv, Published
<1>2. occupant[d] # Nobody => key[d] = occupant[d]
  BY DEF IInv, Identified, At
<1>3. ASSUME NEW e \in Devs, At(e, "publish"), key[e] # key[d]
      PROVE  num[e] # num[d]
  <2>1. [key |-> key[e], n |-> num[e]] \in Lines
    BY <1>3 DEF IInv, Published
  <2>2. PICK i \in DOMAIN map : map[i] = [key |-> key[d], n |-> num[d]]
    BY <1>1 DEF Lines
  <2>3. PICK j \in DOMAIN map : map[j] = [key |-> key[e], n |-> num[e]]
    BY <2>1 DEF Lines
  <2>4. map[i].key # map[j].key
    BY <2>2, <2>3, <1>3
  <2> QED
    BY <2>2, <2>3, <2>4 DEF IInv, OneLinePerPad
<1> QED
  BY <1>1, <1>2, <1>3

-----------------------------------------------------------------------------
LEMMA InitIInv == JiInit => IInv
<1> SUFFICES ASSUME JiInit PROVE IInv
  OBVIOUS
<1> USE JoyIndexAssumption DEF JiInit
<1>1. JiTypeOK
  BY DEF JiTypeOK
<1>2. OneLinePerPad /\ Reading /\ Identified /\ Published
  BY DEF OneLinePerPad, Lines, Reading, Identified, Published, At
<1> QED
  BY <1>1, <1>2 DEF IInv

(* Every step but AppendLine leaves the file alone: then only the program   *)
(* counters, keys and numbers have to be looked at.                         *)
LEMMA FileUntouched ==
  ASSUME IInv, map' = map PROVE Lines' = Lines /\ OneLinePerPad'
BY DEF IInv, OneLinePerPad, Lines

LEMMA StepIInv == IInv /\ [JiNext]_jiVars => IInv'
<1> SUFFICES ASSUME IInv, [JiNext]_jiVars PROVE IInv'
  OBVIOUS
<1> USE JoyIndexAssumption DEF IInv
<1>1. ASSUME NEW d \in Devs, NEW p \in Pads, PlugIn(p, d) PROVE IInv'
  BY <1>1, FileUntouched DEF PlugIn, JiTypeOK, Reading, Identified, Published, At, GoTo
<1>2. ASSUME NEW d \in Devs, Unplug(d) PROVE IInv'
  BY <1>2, FileUntouched DEF Unplug, JiTypeOK, Reading, Identified, Published, At
<1>3. ASSUME NEW d \in Devs, UnitStops(d) PROVE IInv'
  BY <1>3, FileUntouched DEF UnitStops, JiTypeOK, Reading, Identified, Published, At, GoTo
<1>4. ASSUME NEW d \in Devs, JoyNodeFails(d) PROVE IInv'
  BY <1>4, FileUntouched DEF JoyNodeFails, JiTypeOK, Reading, Identified, Published, At, GoTo
<1>5. ASSUME NEW d \in Devs, Flock(d) PROVE IInv'
  BY <1>5, FileUntouched DEF Flock, JiTypeOK, Reading, Identified, Published, At, GoTo
<1>6. ASSUME NEW d \in Devs, CheckDev(d) PROVE IInv'
  BY <1>6, FileUntouched DEF CheckDev, JiTypeOK, Reading, Identified, Published, At, GoTo
<1>7. ASSUME NEW d \in Devs, FindKey(d) PROVE IInv'
  BY <1>7, FileUntouched DEF FindKey, JiTypeOK, Reading, Identified, Published, At, GoTo
<1>8. ASSUME NEW d \in Devs, KnownKey(d) PROVE IInv'
  <2>1. PICK line \in Lines : line.key = key[d] /\ num' = [num EXCEPT ![d] = line.n]
    BY <1>8 DEF KnownKey
  <2>2. line \in [key : Pads \cup Devs, n : Nat]
    <3>1. PICK i \in DOMAIN map : line = map[i]
      BY <2>1 DEF Lines
    <3>2. map \in Seq([key : Pads \cup Devs, n : Nat])
      BY DEF JiTypeOK
    <3>3. map[i] \in [key : Pads \cup Devs, n : Nat]
      BY <3>2, LineOf
    <3> QED
      BY <3>1, <3>3
  <2>3. line = [key |-> key[d], n |-> num'[d]]
    BY <2>1, <2>2 DEF JiTypeOK
  <2>4. JiTypeOK'
    BY <1>8, <2>1, <2>2 DEF KnownKey, JiTypeOK, At, GoTo
  <2>5. Published'
    BY <1>8, <2>1, <2>3, FileUntouched DEF KnownKey, Published, JiTypeOK, At, GoTo
  <2>6. Reading' /\ Identified'
    BY <1>8, <2>1, FileUntouched DEF KnownKey, Reading, Identified, JiTypeOK, At, GoTo
  <2> QED
    BY <1>8, <2>4, <2>5, <2>6, FileUntouched DEF KnownKey
<1>9. ASSUME NEW d \in Devs, NewIndex(d) PROVE IInv'
  <2>1. Len(map) \in Nat
    BY DEF JiTypeOK
  <2>2. {line.n : line \in Lines} = 0..(Len(map) - 1)
    BY DEF OneLinePerPad
  <2>3. num' = [num EXCEPT ![d] = Len(map)]
    BY <1>9, <2>1, <2>2, LowestFree DEF NewIndex
  <2>4. JiTypeOK'
    BY <1>9, <2>1, <2>3 DEF NewIndex, JiTypeOK, At, GoTo
  <2>5. Reading' /\ Identified' /\ Published'
    BY <1>9, <2>3, FileUntouched
       DEF NewIndex, Reading, Identified, Published, JiTypeOK, At, GoTo
  <2> QED
    BY <1>9, <2>4, <2>5, FileUntouched DEF NewIndex
<1>10. ASSUME NEW d \in Devs, AppendLine(d) PROVE IInv'
  <2> DEFINE line == [key |-> key[d], n |-> num[d]]
  <2>1. line \in [key : Pads \cup Devs, n : Nat]
    BY <1>10 DEF AppendLine, JiTypeOK, At
  <2>2. /\ map' = Append(map, line)
        /\ map \in Seq([key : Pads \cup Devs, n : Nat])
        /\ Len(map) \in Nat
    BY <1>10 DEF AppendLine, JiTypeOK
  <2>3. /\ map' \in Seq([key : Pads \cup Devs, n : Nat])
        /\ Len(map') = Len(map) + 1
        /\ DOMAIN map' = 1..(Len(map) + 1)
        /\ \A i \in 1..Len(map) : map'[i] = map[i]
        /\ map'[Len(map) + 1] = line
        /\ DOMAIN map = 1..Len(map)
    BY <2>1, <2>2, AppendedLines
  <2>4. Lines' = Lines \cup {line}
    BY <2>2, <2>3 DEF Lines
  <2>5. (\A l \in Lines : l.key # key[d]) /\ num[d] = Len(map)
    BY <1>10 DEF AppendLine, Reading
  <2>6. OneLinePerPad'
    <3>1. {l.n : l \in Lines'} = 0..(Len(map') - 1)
      <4>1. {l.n : l \in Lines} = 0..(Len(map) - 1)
        BY DEF OneLinePerPad
      <4>2. {l.n : l \in Lines'} = {l.n : l \in Lines} \cup {Len(map)}
        <5>1. line.n = Len(map)
          BY <2>5
        <5> HIDE DEF line
        <5> QED
          BY <2>4, <5>1
      <4> QED
        BY <4>1, <4>2, <2>2, <2>3
    <3>2. ASSUME NEW i \in DOMAIN map', NEW j \in DOMAIN map', i # j
          PROVE  map'[i].key # map'[j].key /\ map'[i].n # map'[j].n
      <4>1. \A k \in 1..Len(map) : map[k].key # key[d]
        BY <2>3, <2>5 DEF Lines
      <4>2. \A k \in 1..Len(map) : map[k].n # num[d]
        <5>1. \A k \in 1..Len(map) : map[k].n \in 0..(Len(map) - 1)
          BY <2>3 DEF OneLinePerPad, Lines
        <5> QED
          BY <5>1, <2>2, <2>5
      <4>3. CASE i \in 1..Len(map) /\ j \in 1..Len(map)
        BY <4>3, <3>2, <2>3 DEF OneLinePerPad
      <4>4. CASE i = Len(map) + 1 /\ j \in 1..Len(map)
        BY <4>4, <4>1, <4>2, <2>3
      <4>5. CASE j = Len(map) + 1 /\ i \in 1..Len(map)
        BY <4>5, <4>1, <4>2, <2>3
      <4> QED
        BY <4>3, <4>4, <4>5, <3>2, <2>2, <2>3
    <3> QED
      BY <3>1, <3>2 DEF OneLinePerPad
  <2>7. JiTypeOK'
    BY <1>10, <2>3 DEF AppendLine, JiTypeOK, At, GoTo
  <2>8. Published'
    BY <1>10, <2>4 DEF AppendLine, Published, JiTypeOK, At, GoTo
  <2>9. Reading' /\ Identified'
    BY <1>10 DEF AppendLine, Reading, Identified, JiTypeOK, At, GoTo
  <2> QED
    BY <2>6, <2>7, <2>8, <2>9
<1>11. CASE UNCHANGED jiVars
  BY <1>11, FileUntouched DEF jiVars, JiTypeOK, Reading, Identified, Published, At
<1> QED
  BY <1>1, <1>2, <1>3, <1>4, <1>5, <1>6, <1>7, <1>8, <1>9, <1>10, <1>11
     DEF JiNext, Script

-----------------------------------------------------------------------------
LEMMA IInvHolds == JiSpec => []IInv
BY InitIInv, StepIInv, PTL DEF JiSpec

(* No pad and no index is ever in the file twice and no number is skipped,  *)
(* wherever in the script an unplug kills an instance: the flock of         *)
(* joy-publish.sh is enough.                                                *)
THEOREM IndexFileIsSound == JiSpec => []OneLinePerPad
<1>1. IInv => OneLinePerPad
  BY DEF IInv
<1> QED
  BY <1>1, IInvHolds, PTL

(* The lock is held exactly inside the locked section, and every instance   *)
(* that publishes does so at its own pad's line of the file.                *)
THEOREM InstancesKeepTheirTopic == JiSpec => [](JiTypeOK /\ OwnTopic)
<1>1. IInv => JiTypeOK /\ OwnTopic
  BY IInvImpliesOwnTopic DEF IInv
<1> QED
  BY <1>1, IInvHolds, PTL
-----------------------------------------------------------------------------
KeyIndexed ==
  /\ DOMAIN IndexOf = {map[i].key : i \in DOMAIN map}
  /\ \A i \in DOMAIN map : IndexOf[map[i].key] = map[i].n

(* A key has one line, so the first line with a key is the line of that key.*)
LEMMA KeyIndex == IInv => KeyIndexed
<1> SUFFICES ASSUME IInv
             PROVE  /\ DOMAIN IndexOf = {map[i].key : i \in DOMAIN map}
                    /\ \A i \in DOMAIN map : IndexOf[map[i].key] = map[i].n
  BY DEF KeyIndexed
<1>1. {line.key : line \in Lines} = {map[i].key : i \in DOMAIN map}
  BY DEF Lines
<1>2. DOMAIN IndexOf = {line.key : line \in Lines}
  BY DEF IndexOf
<1>3. ASSUME NEW i \in DOMAIN map PROVE IndexOf[map[i].key] = map[i].n
  <2>1. {j \in DOMAIN map : map[j].key = map[i].key} = {i}
    BY DEF IInv, OneLinePerPad
  <2>2. i \in Nat
    BY DEF IInv, JiTypeOK
  <2>3. Min({i}) = i
    BY <2>2 DEF Min
  <2>4. map[i].key \in {line.key : line \in Lines}
    BY <1>1
  <2>5. IndexOf[map[i].key] =
          map[Min({j \in DOMAIN map : map[j].key = map[i].key})].n
    BY <2>4 DEF IndexOf
  <2> QED
    BY <2>1, <2>3, <2>5
<1> QED
  BY <1>1, <1>2, <1>3 DEF KeyIndexed

LEMMA KeyIndexNext == IInv' => KeyIndexed'
BY KeyIndex, PTL

(* The abstract step of AppendLine: the key becomes known, with the lowest  *)
(* number no other key has.                                                 *)
LEMMA AppendAssigns ==
  ASSUME IInv, IInv', NEW d \in Devs, AppendLine(d)
  PROVE  Stable!Assign(key[d]) /\ key[d] \in Pads \cup Devs
<1> DEFINE added == [key |-> key[d], n |-> num[d]]
<1>1. added \in [key : Pads \cup Devs, n : Nat]
  BY DEF AppendLine, JiTypeOK, At, IInv
<1>2. /\ map' = Append(map, added)
      /\ map \in Seq([key : Pads \cup Devs, n : Nat])
      /\ Len(map) \in Nat
  BY DEF AppendLine, JiTypeOK, IInv
<1>3. /\ DOMAIN map' = 1..(Len(map) + 1)
      /\ \A i \in 1..Len(map) : map'[i] = map[i]
      /\ map'[Len(map) + 1] = added
      /\ DOMAIN map = 1..Len(map)
  BY <1>1, <1>2, AppendedLines
<1>4. (\A l \in Lines : l.key # key[d]) /\ num[d] = Len(map)
  BY DEF AppendLine, Reading, IInv
<1>5. /\ DOMAIN IndexOf = {map[i].key : i \in DOMAIN map}
      /\ \A i \in DOMAIN map : IndexOf[map[i].key] = map[i].n
  BY KeyIndex DEF KeyIndexed
<1>6. /\ DOMAIN IndexOf' = {map'[i].key : i \in DOMAIN map'}
      /\ \A i \in DOMAIN map' : IndexOf'[map'[i].key] = map'[i].n
  BY KeyIndexNext DEF KeyIndexed
<1>7. key[d] \notin DOMAIN IndexOf
  BY <1>4, <1>5 DEF Lines
<1>8. DOMAIN IndexOf' = DOMAIN IndexOf \cup {key[d]}
  <2>1. \A i \in DOMAIN map : map'[i].key = map[i].key
    BY <1>3
  <2>2. DOMAIN map' = DOMAIN map \cup {Len(map) + 1}
    BY <1>2, <1>3
  <2>3. map'[Len(map) + 1].key = key[d]
    BY <1>3
  <2> QED
    BY <1>5, <1>6, <2>1, <2>2, <2>3
<1>9. IndexOf'[key[d]] = Len(map)
  <2>1. Len(map) + 1 \in DOMAIN map'
    BY <1>2, <1>3
  <2>2. map'[Len(map) + 1].key = key[d] /\ map'[Len(map) + 1].n = Len(map)
    BY <1>3, <1>4
  <2> QED
    BY <1>6, <2>1, <2>2
<1>10. ASSUME NEW j \in DOMAIN IndexOf
       PROVE  IndexOf'[j] = IndexOf[j] /\ IndexOf[j] \in 0..(Len(map) - 1)
  <2>1. PICK i \in DOMAIN map : map[i].key = j
    BY <1>5
  <2>2. IndexOf[j] = map[i].n
    BY <1>5, <2>1
  <2>3. i \in DOMAIN map' /\ map'[i] = map[i]
    BY <1>2, <1>3
  <2>4. IndexOf'[j] = map[i].n
    BY <1>6, <2>1, <2>3
  <2>5. map[i].n \in 0..(Len(map) - 1)
    BY DEF IInv, OneLinePerPad, Lines
  <2> QED
    BY <2>2, <2>4, <2>5
<1>11. IndexOf' \in [DOMAIN IndexOf \cup {key[d]} -> Nat]
  <2>1. IndexOf' = [k \in DOMAIN IndexOf' |-> IndexOf'[k]]
    BY DEF IndexOf
  <2>2. \A k \in DOMAIN IndexOf' : IndexOf'[k] \in Nat
    BY <1>2, <1>8, <1>9, <1>10
  <2> QED
    BY <1>8, <2>1, <2>2
<1>12. \A n \in 0..(Len(map) - 1) : \E j \in DOMAIN IndexOf : IndexOf[j] = n
  <2> SUFFICES ASSUME NEW n \in 0..(Len(map) - 1)
               PROVE  \E j \in DOMAIN IndexOf : IndexOf[j] = n
    OBVIOUS
  <2>1. n \in {line.n : line \in Lines}
    BY DEF IInv, OneLinePerPad
  <2>2. PICK i \in DOMAIN map : map[i].n = n
    BY <2>1 DEF Lines
  <2> QED
    BY <1>5, <2>2
<1>13. \A j \in DOMAIN IndexOf : IndexOf'[j] = IndexOf[j] /\ IndexOf'[key[d]] # IndexOf[j]
  BY <1>2, <1>9, <1>10
<1>14. key[d] \in Pads \cup Devs
  BY <1>1
<1> QED
  BY <1>7, <1>9, <1>11, <1>12, <1>13, <1>14 DEF Stable!Assign, Stable!Known

(* Every other step leaves the file, and so what a reader finds in it.      *)
LEMMA OthersStutter ==
  ASSUME [JiNext]_jiVars, \A d \in Devs : ~AppendLine(d)
  PROVE  IndexOf' = IndexOf
<1>1. map' = map
  BY DEF JiNext, jiVars, Script, PlugIn, Unplug, UnitStops, JoyNodeFails, Flock, CheckDev,
     FindKey, KnownKey, NewIndex
<1> QED
  BY <1>1 DEF IndexOf, Lines

(* joy-publish.sh implements the registry: a key is given the lowest free   *)
(* index once and for all, whatever races, unplugs and restarts happen.     *)
THEOREM IndicesAreStable == JiSpec => StableIndices
<1>1. JiInit => Stable!Init
  BY DEF JiInit, Stable!Init, Stable!Known, IndexOf, Lines
<1>2. IInv /\ IInv' /\ [JiNext]_jiVars => [Stable!Next]_IndexOf
  <2> SUFFICES ASSUME IInv, IInv', [JiNext]_jiVars PROVE [Stable!Next]_IndexOf
    OBVIOUS
  <2>1. CASE \E d \in Devs : AppendLine(d)
    BY <2>1, AppendAssigns DEF Stable!Next
  <2>2. CASE \A d \in Devs : ~AppendLine(d)
    BY <2>2, OthersStutter
  <2> QED
    BY <2>1, <2>2
<1> QED
  BY <1>1, <1>2, IInvHolds, PTL DEF JiSpec, StableIndices, Stable!Spec
=============================================================================
