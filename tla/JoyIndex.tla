------------------------------- MODULE JoyIndex -------------------------------
(***************************************************************************)
(* joy-publish.sh: one instance per joystick device (ros-joy@jsN.service),  *)
(* each finds its pad's index in a file shared under flock, or appends a    *)
(* new one, and publishes on the topic of that index.  udev starts an       *)
(* instance on plug, systemd stops it (BindsTo) after an unplug.            *)
(***************************************************************************)
EXTENDS Naturals, Sequences, FiniteSetsExt

CONSTANTS
  Pads,   \* controllers; a pad stands for its by-id name
  Devs,   \* kernel device names (js0, js1, ...)
  Nobody  \* no pad, no holder, no key

ASSUME JoyIndexAssumption == Nobody \notin Pads \cup Devs /\ Pads \cap Devs = {}

VARIABLES
  occupant,  \* the pad behind each device
  step,      \* where the instance of each device is in the script
  key,       \* $key
  num,       \* $N
  holder,    \* who holds the flock
  map        \* index.map: lines of [key, n]

jiVars == <<occupant, step, key, num, holder, map>>

Lines == {map[i] : i \in DOMAIN map}

JiInit ==
  /\ occupant = [d \in Devs |-> Nobody]
  /\ step = [d \in Devs |-> "off"]
  /\ key = [d \in Devs |-> Nobody]
  /\ num = [d \in Devs |-> 0]
  /\ holder = Nobody
  /\ map = <<>>

At(d, s) == step[d] = s
GoTo(d, s) == step' = [step EXCEPT ![d] = s]

(* udev starts an instance for a device that appears. *)
PlugIn(p, d) ==
  /\ \A e \in Devs : occupant[e] # p
  /\ occupant[d] = Nobody
  /\ At(d, "off")
  /\ occupant' = [occupant EXCEPT ![d] = p]
  /\ GoTo(d, "start")
  /\ UNCHANGED <<key, num, holder, map>>

Unplug(d) ==
  /\ occupant[d] # Nobody
  /\ occupant' = [occupant EXCEPT ![d] = Nobody]
  /\ UNCHANGED <<step, key, num, holder, map>>

(* BindsTo: the instance of a device that is gone is killed, wherever it is;*)
(* the kernel releases its lock.                                            *)
UnitStops(d) ==
  /\ occupant[d] = Nobody
  /\ ~At(d, "off")
  /\ GoTo(d, "off")
  /\ key' = [key EXCEPT ![d] = Nobody]
  /\ num' = [num EXCEPT ![d] = 0]
  /\ holder' = IF holder = d THEN Nobody ELSE holder
  /\ UNCHANGED <<occupant, map>>

(* The device must be there, ... *)
CheckDev(d) ==
  /\ At(d, "start")
  /\ occupant[d] # Nobody
  /\ GoTo(d, "key")
  /\ UNCHANGED <<occupant, key, num, holder, map>>

(* ... but if it goes before udevadm is asked, its kernel name is the key.  *)
FindKey(d) ==
  /\ At(d, "key")
  /\ key' = [key EXCEPT ![d] = IF occupant[d] # Nobody THEN occupant[d] ELSE d]
  /\ GoTo(d, "lock")
  /\ UNCHANGED <<occupant, num, holder, map>>

(* Mutant of Flock: the lock does not exclude. *)
FlockShared(d) ==
  /\ At(d, "lock")
  /\ holder' = d
  /\ GoTo(d, "look")
  /\ UNCHANGED <<occupant, key, num, map>>

Flock(d) ==
  /\ At(d, "lock")
  /\ holder = Nobody
  /\ holder' = d
  /\ GoTo(d, "look")
  /\ UNCHANGED <<occupant, key, num, map>>

(* Mutant of KnownKey: no flock -u, so the exec'd node inherits the lock.   *)
KnownKeyKeepsLock(d) ==
  /\ At(d, "look")
  /\ \E line \in Lines :
       line.key = key[d] /\ num' = [num EXCEPT ![d] = line.n]
  /\ GoTo(d, "publish")
  /\ UNCHANGED <<occupant, key, holder, map>>

(* Mutant of KnownKey: the first line of the file is taken for the pad's.  *)
KnownKeyFirst(d) ==
  /\ At(d, "look")
  /\ \E line \in Lines : line.key = key[d]
  /\ num' = [num EXCEPT ![d] = map[1].n]
  /\ holder' = Nobody
  /\ GoTo(d, "publish")
  /\ UNCHANGED <<occupant, key, map>>

(* The pad has a line: publish there. *)
KnownKey(d) ==
  /\ At(d, "look")
  /\ \E line \in Lines :
       line.key = key[d] /\ num' = [num EXCEPT ![d] = line.n]
  /\ holder' = Nobody
  /\ GoTo(d, "publish")
  /\ UNCHANGED <<occupant, key, map>>

(* It has none: the lowest number no line has, ... *)
NewIndex(d) ==
  /\ At(d, "look")
  /\ \A line \in Lines : line.key # key[d]
  /\ num' = [num EXCEPT ![d] = Min(0..Len(map) \ {line.n : line \in Lines})]
  /\ GoTo(d, "append")
  /\ UNCHANGED <<occupant, key, holder, map>>

(* ... appended to the file. *)
AppendLine(d) ==
  /\ At(d, "append")
  /\ map' = Append(map, [key |-> key[d], n |-> num[d]])
  /\ holder' = Nobody
  /\ GoTo(d, "publish")
  /\ UNCHANGED <<occupant, key, num>>

(* Restart=on-failure: the joy node is started again while its pad is there.*)
JoyNodeFails(d) ==
  /\ At(d, "publish")
  /\ GoTo(d, "start")
  /\ key' = [key EXCEPT ![d] = Nobody]
  /\ num' = [num EXCEPT ![d] = 0]
  /\ UNCHANGED <<occupant, holder, map>>

Script(d) == CheckDev(d) \/ FindKey(d) \/ KnownKey(d) \/ NewIndex(d) \/ AppendLine(d)

JiNext == \E d \in Devs :
  \/ \E p \in Pads : PlugIn(p, d)
  \/ Unplug(d) \/ UnitStops(d) \/ JoyNodeFails(d) \/ Flock(d) \/ Script(d)

JiSpec == JiInit /\ [][JiNext]_jiVars

-----------------------------------------------------------------------------
(* The file as a function from keys to indices.                             *)
IndexOf == [k \in {line.key : line \in Lines} |->
  map[Min({i \in DOMAIN map : map[i].key = k})].n]

Stable == INSTANCE Registry WITH Keys <- Pads \cup Devs, index <- IndexOf

(* Types; a script past FindKey has a key, and the lock is held exactly by  *)
(* the script that reads and extends the file.                              *)
JiTypeOK ==
  /\ occupant \in [Devs -> Pads \cup {Nobody}]
  /\ step \in [Devs -> {"off", "start", "key", "lock", "look", "append", "publish"}]
  /\ key \in [Devs -> Pads \cup Devs \cup {Nobody}]
  /\ num \in [Devs -> Nat]
  /\ holder \in Devs \cup {Nobody}
  /\ map \in Seq([key : Pads \cup Devs, n : Nat])
  /\ \A d \in Devs : step[d] \in {"lock", "look", "append", "publish"} => key[d] # Nobody
  /\ \A d \in Devs : holder = d <=> step[d] \in {"look", "append"}

(* `Two controllers plugged at once ... flock serializes the map update':  *)
(* no key and no index is ever in the file twice, and no number is skipped, *)
(* whatever is unplugged in mid-script.                                     *)
OneLinePerPad ==
  /\ \A i, j \in DOMAIN map :
       i # j => map[i].key # map[j].key /\ map[i].n # map[j].n
  /\ {line.n : line \in Lines} = 0..(Len(map) - 1)

(* `N is a stable per-controller index': an instance that publishes does so *)
(* at the index the file has for its pad, and no two pads share a topic.    *)
OwnTopic ==
  \A d \in Devs : At(d, "publish") =>
    /\ [key |-> key[d], n |-> num[d]] \in Lines
    /\ occupant[d] # Nobody => key[d] = occupant[d]
    /\ \A e \in Devs : At(e, "publish") /\ key[e] # key[d] => num[e] # num[d]

(* `N is a stable per-controller index' and `a new controller gets the      *)
(* lowest free index': through unplugs in mid-script and instances that race*)
(* for the file, a key is given the lowest free index once and for all, and *)
(* the file changes in no other way.                                        *)
StableIndices == Stable!Spec

(* Plug and play: a pad that stays plugged in is published, again and again *)
(* if its node fails, whatever instance comes and goes beside it.           *)
PluggedPadPublishes ==
  \A d \in Devs : <>[](occupant[d] # Nobody) => []<>At(d, "publish")
=============================================================================
