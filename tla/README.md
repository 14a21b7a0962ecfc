# Verification of ros-deploy

TLA+ models, TLC runs and TLAPS proofs for the robot software this repository
deploys. The repository is an Ansible fleet deployment together with small ROS 2
packages; the part that moves motors comes first here, because that is where a
wrong interleaving or a lost message has consequences.

`PROJECT.json` holds the machine-readable side: which definition models which
lines, the runs, the mutants, the hazards and the theorems.

## 1. Inventory

| Component | State it keeps | Operations | Interacts with | Must hold |
|---|---|---|---|---|
| `revhub_node.py` control loop | `applied`, `_strikes`, tick, hub session, stop event | open a validated session, slew and send, status check, re-arm, recover, shut down | REV hub (serial, every call may fail), reader thread, ROS thread, systemd | wheels follow what the driver believes; no jump beyond the slew limit; all channels enabled again after a fail-safe; demands reached; silence stops |
| `revhub_node.py` command sources | `js_ok`, `axes`, `buttons`, `twist_cmd`, `_last_joy_mono` | js_reader scan/read/close, Joy and Twist callbacks, per-tick selection | joydev, ROS topics, the control loop (shared fields, no lock) | a vanished pad or a silent topic stops the wheels; a button released while the pad was away is noticed |
| `motion_control.py` | `_joy_active`, release time | `_on_joy`, `_on_planner` | gamepad publisher, planner, `cmd_vel` queue | the operator has the last word; plan takes over through zero; the planner gets through after a release |
| `xdrive_driver.py` | `_target`, `_last_cmd`, `_last_applied`, strike and failure counters, `hub` | `_on_cmd`, `_safety_tick`, `_feedback_tick`, recovery, stop | REV hub; two callback groups running concurrently | command timeout stops; dedupe never hides a needed command; recovery ends |
| `kinematics.py` (X-drive) | none | `mix` | both drivers | range, direction preserved |
| `revhub/joy_to_twist.py` | `_was_active` | `_on_joy` | several pads, one `cmd_vel` | one idle pad does not override another; release stops |
| `joint_teleop` | newest Joy message, joint targets, `running` | `_on_joy`, timer `_tick` | Joy topic, joint controllers, systemd | targets stay in range and never snap; home wins; a released flywheel stops |
| `swerve_drive` | last command time, last angles, `_moving` | `_on_twist`, `_watchdog` | `cmd_vel`, joint controllers, systemd | wheels roll where asked, by the shortest swing; silence stops, restarts included |
| `diffdrive_teleop` | `_was_active` | `_on_joy` | Joy topic, `cmd_vel` | release stops once |
| `heartbeat` | last beat per peer, last report | publish, receive, report | all hosts | the list ends up with the peers that live |
| joy publisher (role `joy`) | `index.map` | allocate a stable index under `flock` | udev, systemd instances | indices unique and stable |
| camera watchdog | none (oneshot) | HTTP probe, rate probe, restart | systemd, camera and web services | viewers are served again after any trouble; a healthy camera is left alone |
| cameras role, relay | unit files, handlers | deploy, notify, restart | systemd | a changed file ends in a restarted unit |
| camera portal | tiles, timers and awaited snapshots in the page | scan, start streams, tick, finish | HTTP hosts, host_vars, the ROS domain | one live refresh loop per tile; one tile per camera, on the topic the role corrects |
| fleet package collection | lock file, staging clones | discover, fetch manifest, resolve commit, write lock, import | GitHub (pushes at any time), git, Ansible | lock and staging agree |
| fleet package distribution | workspace, install tree of a node | select, sync, rosdep, build | the lock, Ansible loop and changed semantics, colcon | the node runs the versions of the lock |
| robot roles (xdrive, swerve, joint_teleop, ...) | workspace, install tree, units | sync, build, enable, restart | colcon, systemd | the running node is the synced source |
| wired / wifi roles | NetworkManager profiles | create, check carrier, activate | the SSH link they run over | the host stays reachable |
| provisioning scripts | SD card, host files | flash, re-image, bootstrap | operator, external tools | one-shot |
| fleet portal | none | serve inventory | files | pure I/O |

Hard behaviour: serial transactions that fail before or after the hub acted,
destructive status reads, two-strike recovery racing new faults, three threads
over unlocked fields, two ROS callback groups over one memory, bounded topic
queues, pads and planners that die at the wrong moment, process exits that rely
on the hub's own watchdog, a watchdog run that acts on what it saw half a minute
ago, page timers that survive a rescan, plays that stop between lock, import,
sync and build. The `hazards` list of `PROJECT.json` names each at
its line.

## 2. Modules

| Module | Models | Built on |
|---|---|---|
| `WheelNumerics` | Python `round()`, quantization, the slew clamp | Integers |
| `RevHub` | control loop and session of `revhub_node.py`, and the hub | `WheelNumerics` |
| `CommandSource` | reader thread, callbacks, command selection of `revhub_node.py` | |
| `RevHubDrive` | the whole node: `CommandSource` beside an instance of `RevHub` | both |
| `MotionControl` | `motion_control.py` with its three topic queues | |
| `TeleopChain` | pad and planner -> `MotionControl` -> `cmd_vel` -> the twist source (instance of `CommandSource`) | both |
| `XDriveDriver` | `xdrive_driver.py`, both callback groups, and the hub | `WheelNumerics` |
| `SwerveKinematics` | `wrap` and `mix` of `swerve_drive/kinematics.py` on whole angle units | `WheelNumerics` |
| `SwerveDrive` | `twist_to_swerve.py`, its watchdog, death and restart, the joint controllers | `SwerveKinematics` |
| `SwerveChain` | pad -> `MotionControl` (instance) -> `/sim/swerve/cmd_vel` -> `SwerveDrive` | both |
| `Registry` | what the index file promises: keys get the lowest free index for good | |
| `JoyIndex` | `joy-publish.sh` in several instances, `index.map`, its lock, udev and systemd | implements `Registry` |
| `PadTeleop` | both `joy_to_twist` nodes on one `cmd_vel` | |
| `JointTeleop` | `joy_to_joints.py` and the joint controllers | |
| `Heartbeat` | `heartbeat_node.py` on one host | |
| `CameraHost` | camera service, HTTP server, systemd and `camera-watchdog.sh` on one host | |
| `CameraPortal` | `camera-portal.py`: which topics a scan finds, and the page's refresh loops | |
| `FleetDeploy` | `collect_fleet_packages.py` and the role `fleet_packages` on one node | |
| `EdgeNodes` | `JoyIndex` and the last six, one per behaviour | all seven |
| `MC*` | small instances for TLC | |
| `WheelNumericsProofs`, `RevHubProofs`, `RevHubDriveProofs`, `XDriveDriverProofs`, `TeleopProofs`, `SwerveProofs`, `JoyIndexProofs`, `EdgeNodesProofs` | lemmas and theorems | TLAPS |

### RevHub: state and steps

`applied`, `strikes`, `attempts`, `stop` are the fields of `LocalTeleop`; `out` is
`slew_apply`'s local vector and `todo` the channels the re-arm loop has left, so
that a fault can fall between any two serial transactions. `pc` is the position
of the main thread:

    open -> loop -> send -> (status -> (rearm) ->) sleep -> loop ...
             |                  `-> open (second strike)
             `-> down (stop)         `-> down (attempts used up) -> open (systemd)

The hub is three variables: enabled channels, their outputs, and the latched
fail-safe bits. It is external code, modelled from how the driver uses it: a
command to a disabled channel is accepted and ignored, fail-safe disables every
channel and sets the latch, a status read clears it.

A fault is one of `trip` (keep-alives missed for 2.5 s), `lost` (the request
never arrives, `rhsp` raises), `noack` (the hub acts, the reply is lost, `rhsp`
raises), `open` (a session attempt fails). `Faults` says which may happen and
`MaxFaults` how many.

Abstractions: the hub's PID and the wheels' mechanics are left out (an output is
the set point); a session attempt is one step that ends well, or in one of three
ways badly; the velocity mode's `attach()` is the re-arm step (the role's
default mode, which no host overrides); the encoder publication is best effort, changes no
state and is left out. `tick` is kept modulo the status period.

### CommandSource and RevHubDrive

A stick position or a Twist is a member of `Motions`, a calibration button the
port it drives. `unread` holds the kinds of joydev events waiting (each event
carries the present value, so the order inside a kind does not matter). `source`
is the command-line choice, fixed per behaviour. In `RevHubDrive` the demand of
the instantiated control loop is the expression `WheelsOf(Command)`: each step of
the source half is a change of demand of `RevHub`. That is also how
`RevHubDriveProofs` carries the theorems of `RevHub` over to the node.

### MotionControl and TeleopChain

Messages are handled one per step in any order between the topics, which is what
a single-threaded executor allows. Each queue is KEEP_LAST with depth `Depth`.
`guard` counts the control periods of the 300 ms window. `src` in a Twist and
`dropped` are history the properties use; the code has neither.

### XDriveDriver

`next` is the wheel `_apply` sends next (0: no call under way), so the feedback
group can act inside an `_apply`; `usable` says whether `self.hub` is an open
session. Assigning `self.hub` and clearing `_last_applied` are two steps
(`OpenOk`, `ForgetApplied`). Here `lost` is a `set_power` or a fail-safe that
raises, `arm` a re-arm that does, `read` an encoder or status read that never
arrives, `mute` a status read whose answer is lost, `open` a failed session
attempt, `stop` a SIGTERM. A call that raises may have acted on the hub all the
same: the wheel has moved, the channel is enabled, the register is cleared
(`SetPower`, `EnableNext`, `NoAnswer`). `Stop` is what `main` does then
(`destroy_node`: fail-safe and close, errors swallowed); it stands for the first
half of a restart of the unit, so `Restart` follows it. A stop of the unit for
good is not of interest: the node is gone and the hub goes still by itself.

### SwerveDrive and SwerveChain

Angles are whole numbers, `2 * HalfTurn` to a turn; a steer joint is continuous,
so its angle is an unbounded integer. What `mix` computes from the geometry with
`hypot` and `atan2` (how fast each module's ground contact moves, and where to,
less `phi0`) is given by the constants `Speed` and `Heading`; everything after
that is translated: `wrap`, the choice between the angle and its opposite, the
module that stands still, feeding back the last command. `steer` and `drive` are
the last commands the simulator's joint controllers received; they hold them
while the node is down. `fresh` (no Twist handled since the start) and `asked`
(the last Twist) are history. The subscription is volatile: what is published
while the node is down is lost (`LoseTwist`). What a callback publishes to
all the joint controllers is one step: a death between two of these messages is
not modelled. On this chain nothing publishes
plans, so `MotionControl` is instantiated with an empty planner queue.

### JoyIndex, PadTeleop, JointTeleop, Heartbeat

These programs share no state, so their interleavings say nothing and would only
multiply the state space: `subject` in `EdgeNodes` chooses one at the start of a
behaviour and the others stand still. Every property speaks of one of them.

`JoyIndex`: `step[d]` is the position of the instance of device `d` in the
script (check the device, find the key, lock, look the key up, append,
publish). A pad stands for its by-id name; when it vanishes before `udevadm` is
asked, the kernel name becomes the key, which uses up an index for good. Two
pads of one model without serial numbers share a by-id name in udev: they would
be one pad here, and are outside this abstraction. An
unplug kills the instance wherever it is and the kernel releases its lock.

`PadTeleop`: two of the stick axes, the turn axis and the dead-man button,
after the dead zone. Queues hold the newest message. `orphaned` is history.

`JointTeleop`: angles in whole steps; one axis moves every position joint, each
with its own signed `Rate` and its range; the one velocity joint is the
flywheel. `first` and `orphan` are history.

The history of numbers is an implementation of `Registry`: `IndexOf` reads the
file as a function from keys to indices, and `StableIndices` is the registry's
specification under that mapping (an append is an `Assign`, every other step of
every instance a stutter).

`Heartbeat`: `since` counts to one beyond the timeout. A live peer is heard of
within the timeout (ten beats are sent in it); before it is heard of first, and
after its last beat, nothing is assumed.

### CameraHost, CameraPortal, FleetDeploy

These three are further subjects of `EdgeNodes`.

`CameraHost`: `feed` is the watched topic with the service behind it (`down`,
`warming`, `ok`, `slow`, `stalled`), `web` the HTTP server, which goes down and
comes up with the camera, or `absent` on a host without it. `dog` is the
position of the one watchdog run: the timer fires, the HTTP probe, the rate
probe, the restart. A probe lasts, so `ever` and `always` record whether what it
reads for was there at some time or all the time: then it succeeds, or fails,
or may do either. A trouble is an exit, a stall, a degraded rate, a wedged
listener or a hung run; `MaxTroubles` bounds their number. One topic is watched,
and the colour relay counts as part of the camera service, as for
`ros-cameras.service`.

`CameraPortal`: `HostVars[h]` is the list of the lines of a host's variables
that the portal's parser looks at, in file order, since it assigns `swap_rb` to
the nearest `namespace:` above it. `ProbeHost` is what a scan keeps of the
topics one server advertises, `RoleTopics` what the cameras role publishes with
the right colours (the swap is spelled out, or follows from the sensor table:
`SwapImplied`), `PageTopics` what of that the portal can know. The watchdog
probes that of a host's first camera only. A host without cameras in its
variables is one whose server the portal trusts with everything it lists. A scan
may find any part of the domain on any set of hosts that answer (`Views`). The page counts, per tile, the timers pending and the
snapshots awaited. The proxy between page and hosts keeps no state and is left
out, so is the HTML.

`FleetDeploy`: `phase` is the position of the play: collect, import, sync,
build. Each repository is asked twice (manifest, then commit) and a push may
fall between. Every step can fail in part: some clones, some items of the sync
loop (the node then leaves the play), a build with some packages installed. An
invalid manifest ends the collection. A collection by hand while a play is under
way, which nothing in the scripts prevents, is not modelled.
`changed` is `fleet_sync is changed`. `halfway` and `unbuilt` are history.
A version is a commit; `Manifest[r][v]` says what its `fleet.yaml` asks for.

## 3. Runs

| Run | Result | Shows |
|---|---|---|
| `RevHub_recovery` | pass | fail-safes, lost requests, failed attempts and stop requests: `TypeOK`, `SlewLimited`, `ChannelsComeBackUnlessCut`, `SteadyDemandReached`, all but the first up to a re-arm that is cut short |
| `RevHub_deaf` | violation | a half-done re-arm is never finished |
| `RevHubDrive` | pass | the node with each source, fail-safes, lost requests and lost replies at every call, failed attempts, stop requests: `HubFollowsApplied`, `SilenceStops`, `ButtonsAreRefreshed` |
| `TeleopChain` | pass | `OperatorHasLastWord`, `HandoverThroughZero`, `SilenceStops`, `OperatorTakesControl`, `PlannerDrivesAfterRelease` |
| `TeleopChain_lockout` | violation | a dead pad locks the planner out |
| `XDriveDriver` | pass | `DedupeIsSafe`, `CommandTimeoutStops`, `RecoveryEnds` while motor commands get through, with fail-safes, failed reads, lost answers, cut re-arms, failed attempts and stops |
| `XDriveDriver_timeout` | violation | a half-sent vector and the dedupe defeat the command timeout |
| `XDriveDriver_race` | violation | an `_apply` under way undoes the re-arm's `_last_applied = None` |
| `SwerveChain` | pass | deaths of every process: `KnowsTheJoints`, `RollsAsAsked`, `SteersAtMostQuarter`, `SilenceStops` |
| `SwerveChain_restart` | violation | the watchdog of a restarted node does not know that wheels turn |
| `CameraHost_stall` | violation | behind the HTTP server a stalled camera is never restarted |
| `EdgeNodes` | pass | `JoyIndex`: `OneLinePerPad`, `OwnTopic`, `PluggedPadPublishes`, `StableIndices`; `PadTeleop`: `OnePadDrives`, `AllReleasedStops`; `JointTeleop`: `JointsInRange`, `JointsNeverSnap`, `HomeWins`, `ReleasedFlywheelStops`; `Heartbeat`: `ListFollowsPeers`; `CameraHost`: `ViewersServed`, `HealthyCameraKept`; `CameraPortal`: `OneLoopPerTile`, `TilesKeepRefreshing`, `OneTilePerCamera`; `FleetDeploy`: `NodeRunsTheLock` |

Bounds. Two wheels are enough for one to be reached and another not, which is
what every partial failure is about; demands are one that is no multiple of the
quantum, its reverse and zero, so ties, ramps and sign changes occur. A status
read every second tick (20 to 100 in the code) keeps both a tick with and one
without a read; two attempts (5) keep a failed one that is not the last. Three
faults allow a blip, a fault in its treatment and one in the next. `RevHubDrive`
has one wheel and a status read every tick, since the vector is `RevHub`'s
business; two faults reach the second strike. Queues hold two messages (10):
one overflow and one order to get wrong. Timeouts are one or two ticks: time
advances only with `Sleep` or `Tick`, so any relation to other steps occurs.
`SwerveChain` has an angle unit of 30 degrees and three motions whose headings
make one module wind further with every round, flip and not flip, and one that
leaves the other module still; `MaxWind` follows the joints for half a turn each
way (a Twist that would go further is not handled; the proofs need no such
bound). Its queues hold one message, since `TeleopChain` looks at their order.
`EdgeNodes` has two pads and two devices (either pad behind either device, the
file grows to four lines), one holonomic and one differential teleop of which
one has a dead-man button, one joint whose range starts at zero and one that
mirrors it, two peers, and a timeout that is no multiple of the report period.
Its camera host meets three troubles: one the watchdog answers, one during its
answer, one after. Its portal has a host with a swapped and a plain camera and
one whose swap only the sensor implies, each listing the whole domain; one scan
under way (`MaxScans`) and one that lands while a snapshot is awaited
(`MaxOvertakes`). Its fleet has two repositories with two and three versions:
one package moves to another group, one appears (`Manifest`); the lengths of the
manifests bound the pushes, plays are unbounded. The second passes through an
invalid manifest on its way. `XDriveDriver` has four faults, which reach the
second strike in a session that a fault cost its channels before.

Fairness. `RevHub`: the main thread runs, an attempt to open the session
succeeds eventually (the `open` faults are finite), systemd restarts the unit
(`Restart=always`), the hub's watchdog fires. `RevHubDrive` adds the reader
thread; button events get their own fairness since joydev delivers in order.
`TeleopChain`: every subscription is served, time passes, a pad that stays on
repeats itself (`autorepeat_rate`). `XDriveDriver`: `_safety_tick` is strongly
fair because a queue of messages in its own callback group can disable it again
and again but not starve it. `SwerveChain`: callbacks and timers of a running
process are served, time passes, systemd restarts (`Restart=on-failure`).
`EdgeNodes`: a script that is not blocked runs on, a waiter gets the lock
(strongly fair: others may take it in between), a pad that is there repeats
itself, callbacks are served though restarts interrupt them, live peers are
heard of, time passes; the camera units are started again (`Restart=always`
without a start limit), the watchdog's timer fires and every probe ends
(`timeout` around each, `TimeoutStartSec` around the run); the page's timers
fire and every tick finishes (`MAX_WAIT_MS` when neither `load` nor `error`
comes). `FleetDeploy` has no fairness: plays need not happen.
Faults, deaths, operators, planners and stop requests are never forced.

Each property of a passing run has a mutant, an operator beside the definition
it replaces and marked "Mutant of": the plausible slip that breaks it.

## 4. Proofs

`RevHubProofs` holds for every number of wheels, slew, quantum, demand set,
status period, attempt limit and kind and number of faults; the assumptions are
`RevHubAssumption` in `RevHub`.

* `TypeCorrect`: `Spec => []TypeOK`.
* `HubFollowsAppliedAlways`: a wheel of a live session is at rest or within one
  step (slew plus half a quantum) of `applied`. It is not inductive alone. A
  reply lost in the middle of a vector leaves the wheel at `out[w]`, so `out`
  must be near `applied` (`SendIsNear`, which rests on `SlewStepNear` of
  `WheelNumericsProofs`: rounding moves by at most half a quantum); `RearmDone`
  sets `applied` to zero, so the channels the loop has passed must be at rest
  (`RearmedIsStill`) and a disabled one too (`OffIsStill`). The conjunction is
  `MotorInv`; `ChannelStep` says what one step can do to one channel.
* `AppliedIsExactAlways`: with no lost reply the memory is exact (a theorem
  only: the run with lost replies cannot show it).
* `SlewLimitedAlways`: when no reply is lost (`Answered`), no step moves a wheel
  further than one slew step unless to zero, until a re-arm is cut short. It
  needs `CalmInv` as well: an enabled channel drives at exactly `applied`, and a
  fault not yet counted has switched every channel off. A re-arm is cut short
  (`CutShort`) when one of its `attach()` calls raises: `applied` is then stale
  and the next command may be a jump (the history `RevHub_deaf` shows, from
  `revhub_node.py:334`). `todo` keeps the channels such a loop never reached
  until the next re-arm or session.
* `RampsToGoalAlways`: what a steady demand needs of the arithmetic. The vector of
  a tick lies between `applied` and the quantized demand, and every wheel arrives
  or comes at least a quantum nearer. The second half needs `Quantum < 2 * Slew`
  (300 and 1500 by default): otherwise a slew step can round to nothing and the
  ramp stands still. `GridInv` (what the driver applies are multiples of the
  quantum) is what makes a step that gets nearer get nearer by a whole quantum;
  the lemmas on `Quantize` and `SlewStep` (`QuantizeOnGrid`, `QuantizeMonotone`,
  `SlewStepBetween`, `RampGetsNearer`) are in `WheelNumericsProofs`.
* `SetPointsWithinDemands`: demands between `lo` and `hi` leave every channel
  between `Quantize(lo)` and `Quantize(hi)`. So `--quantum` can carry a wheel
  past `--max-power`, by half a quantum at most: 8000 becomes 8100 at 300.
* `CleanMeansEnabledAlways`: when no reply is lost, a live session whose status
  register is clean has every channel enabled, unless a re-arm was cut short. It
  is the safe half of `ChannelsComeBackUnlessCut`: `check_hub_status` goes by the
  register alone. `CleanInv` follows the re-arm loop: the channels it has passed
  are enabled. With lost replies it is false, since a status read whose reply is
  lost has cleared the register.

`RevHubDriveProofs`: `NodeFollowsApplied` is `HubFollowsApplied` for the whole
node, for every `Mix`, calibration, timeout and source (`RevHubDriveAssumption`:
RevHub's assumption for the commands the sources can leave, and sticks at rest
ask for no motion). The node implements `RevHub` with `demand <-
WheelsOf(Command)`: a step of the loop or the hub is RevHub's own (`LoopSteps`),
a step of a thread or the operator is RevHub's `Demand` (`SourceSteps`), for
which `SourceTypeOK`, inductive by itself, keeps the command in the repertoire;
then `HubFollowsAppliedAlways` is cited through the instance (`NodeIsRevHub`).
`NodeStaysWithinCommands` carries `SetPointsWithinDemands` over in the same way.
`SeesThePadAlways` and `SilenceBrakesAlways` are the safe halves of
`ButtonsAreRefreshed` and `SilenceStops`. The first: while the device is open, what
the reader has not been told is still unread, and a source that is not heard
(device gone, or silent for the timeout) commands rest. The second: while the
source is not heard, each tick's vector lies between the last one and zero, and is
nearer by a quantum or zero. What fairness adds is that ticks happen and that
`hubOut` gets the vector.

`SwerveProofs` holds for every set of modules, headings, speeds, angle unit,
timeout and queue depth (`SwerveKinematicsAssumption`, `SwerveDriveAssumption`,
`SwerveChainAssumption`).

* The arithmetic: `WrapRange` (wrap changes an angle by whole turns, into half a
  turn either way), `Opposite` (mix's two candidates are half a turn apart, hence
  one is within a quarter turn), `AimSteer` and `MixSteer` (what a module is
  commanded).
* `IInv` (`TypeOK`, `KnowsTheJoints`, `RollsAsAsked`) is inductive. The types of
  the queues belong to it because the node mixes what it takes from them.
* `SteersAtMostQuarterAlways` needs `KnowsTheJoints`: the swing is measured from
  the commanded angle, mix measures from `_prev_steer`. The two differ after a
  restart, which is why the property exempts the first Twist.

`JoyIndexProofs` holds for every set of pads and devices (`JoyIndexAssumption`).

* `IInv`: types with the lock (`JiTypeOK`), `OneLinePerPad`, what an instance
  about to append knows of the file (`Reading`: its key has no line and its
  number is the length of the file), that a key belongs to the pad that is there
  (`Identified`) and that a published number is in the file (`Published`).
  `Reading` is what the lock is for: only the holder appends.
* `LowestFree`: with the numbers 0..n-1 in use the lowest free one is n, so the
  script never meets the gaps it is prepared to fill.
* `IndexFileIsSound` and `InstancesKeepTheirTopic` follow.
* `IndicesAreStable`: `JiSpec` implements `Registry`. A key has one line, so
  `IndexOf` of a line's key is that line's number (`KeyIndex`); then an append
  is an `Assign` of the lowest free number (`AppendAssigns`, from `Reading`) and
  every other step leaves the file (`OthersStutter`).

`XDriveDriverProofs` holds for every number of wheels, timeout, status period and
fault budget (`XDriveAssumption`).

* `TypeCorrect`: `Spec => []TypeOK`.
* `DedupeIsSafeAlways`: with `"lost"` not among the faults, what the shared
  memory says of a driving wheel is what the wheel does. The inductive
  `DedupeInv` adds to it that a disabled channel is at rest (`OffIsStill`), that
  nothing drives while no session is open (`ClosedIsStill`, `ClosedWhile`: the
  feedback half is then in its recovery) and that the channels `_apply` has
  passed hold what it sent (`PassedIsSent`), since it writes the memory only at
  the end of the vector, when the other callback group may have wiped it or
  switched channels off. With lost calls the statement is false:
  `XDriveDriver_timeout` shows the history.
* `StopReachesWheelsAlways`, the safe half of `CommandTimeoutStops`, from the same
  invariant: the zero of an expired target is suppressed only when no wheel
  drives, and a vector of zeros that got to its end has stopped every wheel.
* `CleanMeansEnabledAlways`, the safe half of `RecoveryEnds`: with `"arm"` and
  `"mute"` not among the faults, a session whose status register is clean has
  every channel enabled, but for those the re-arm loop has yet to reach. A
  fail-safe between the status read and the re-arm leaves new bits. Both
  assumptions are needed: the status read clears the register even when its
  answer is lost, and then, as after a re-arm that raised, nothing re-arms. So
  is the second strike of `RecoveryEnds`: a fail-safe is only sure to be dealt
  with once it is seen in the register while a strike stands.

`TeleopProofs` holds for every set of motions, queue depth, guard window and
timeout (`MotionControlAssumption`, `TeleopChainAssumption`).

* `TypeCorrect`, with the queue bounds: a full queue drops its oldest message.
* `OperatorHasLastWordAlways`: not inductive alone, because a plan is published
  only while `joyActive` is false, and a grab must find nothing to undo. `WordFits`
  adds the other half: once the sticks are released the operator's newest word is
  a zero. `WireStep` says what any step does to the wire (nothing, one message
  more, one less), and the proofs go by these three cases.
* `HandoverAlwaysThroughZero` uses `WordFits` for the pair a new plan forms with
  the message before it; all older pairs only move.

`EdgeNodesProofs` holds for every set of pads, joints, peers, hosts, tiles and
repositories, every range, rate, timeout, inventory and manifest, and every bound
on troubles and scans (`JoyIndexAssumption`, `PadTeleopAssumption`,
`JointTeleopAssumption`, `HeartbeatAssumption`, `CameraHostAssumption`,
`CameraPortalAssumption`, `FleetDeployAssumption`). Every step of the composition
is a step or a stutter of each part (`EveryPartSteps`), so each part has its own
inductive invariant, and `EdgeInv` is their conjunction.

* Index map (`IndexKeptHere`): the theorems of `JoyIndexProofs`, in the composition.
* Joints (`JtInv`): the targets are in range too and, once the node has sent
  anything, the joints hold the targets. `JointsInRangeAlways` and
  `JointsNeverSnapEver` follow. After a restart the targets are zero and the
  joints are not: the exemption of the first command.
* Camera host (`ChInv`): while the camera is `steady` the rate probe has seen the
  topic all the time it has read (`always`), so it cannot fail; and the HTTP
  branch never touches the camera. `HealthyCameraKeptEver` follows.
* Camera page (`CpInv`): `OneLoopPerTile` as it is, and `Scanned`: what is shown and
  listed is what some scan made of some part of the domain on some set of hosts.
  `OneTilePerCameraAlways` then compares `ProbeHost` with `PageTopics`: for every
  declared camera, also one with the wrong colours, exactly one tile.
* Fleet (`FdInv`): the chain of copies. Unless the lock was left halfway, the
  staging holds it (`StagedAsLocked`); a node that got to the build has the source
  that was staged (`SyncedFromStaging`), and what it has not built is waiting for a
  build or in `unbuilt` (`BuiltFromSource`). `NodeRunsTheLockAlways` joins the links.
* `SomebodyDrivesAlways`, `FlywheelIsKnownAlways` and `TilesHaveLoopsAlways` are the
  safe halves of `AllReleasedStops`, `ReleasedFlywheelStops` and
  `TilesKeepRefreshing`: in every state there is someone left to do what fairness
  then makes happen.

Every invariant and every action property of the runs is stated by a theorem.
Only model-checked: the properties under fairness, since liveness and `ENABLED`
are out of the prover's reach (`OnePadDrives` is one of them).

## 5. What the properties leave out because the code breaks it

Where the code does not do what its comments say, a violation run shows it (the
`findings`). In these cases the property states what does hold and names the
exception, which is real behaviour of the code:

* `revhub_node.py`: a re-arm that is cut short (`RevHub_deaf`, and the exemption
  of `SlewLimited` and `ChannelsComeBackUnlessCut`).
* `revhub_node.py`: after a set-point whose reply is lost the wheel has moved and
  `applied` has not. When the target then returns to `applied`, nothing is sent
  and the wheel keeps one step (`SilenceStops` of `RevHubDrive`).
* `camera-watchdog.sh`: a camera that stalls behind the HTTP server
  (`ViewersServed`; `CameraHost_stall`).
* `camera-portal.py`: `startStreams` clears timers only, so a scan that lands
  while a snapshot is awaited leaves two loops for the tile, or one for a tile
  that is gone (`OneLoopPerTile` holds up to then).
* `camera-portal.py`: a swap that follows from the sensor table is unknown to the
  portal, which shows `image_raw` where the role corrects `image_color`
  (`OneTilePerCamera` states this topic for such a camera; `skadi` has one).
* `xdrive_driver.py`: a fail-safe whose clearing status read got no answer, or
  whose re-arm raised, leaves channels disabled behind a clean register
  (`CleanMeansEnabledAlways` assumes neither; `RecoveryEnds` starts at the second
  strike).
* `collect_fleet_packages.py`: a lock whose import failed, or that `--dry-run`
  wrote, is deployed by a later play with `fleet_collect=false` although the
  staging holds something else (`NodeRunsTheLock`, `halfway`).
* `roles/fleet_packages`: after a failed sync or build the next play finds
  nothing changed and does not build (`NodeRunsTheLock`, `unbuilt`). Packages
  that leave the lock stay on the nodes.
* `joint_teleop`, `diffdrive_teleop`, `swerve_drive`: what a restart forgets.

Met while reading and not modelled: a snapshot request given up by the page may
overlap the proxy's own 30 s hold on the host; the portal's header says frames
are verified, `snapshot_ok` looks at the answer only; the handler that restarts
the colour relay goes by `cameras_color_relay`, not by the effective value;
handlers of the robot roles are lost when a later task of the play fails.

## 6. Plan

Done: the drives and their command chains, the small nodes, the camera hosts,
the camera page, the fleet packages; proofs of every invariant and action
property the runs check. Left to prove, of what no fairness is needed for:

* the safe halves of the liveness properties of `TeleopChain` and `Heartbeat`;
* `CleanMeansEnabled` and `RampsToGoal` for the whole node, through the instance;
* what `RevHub` and `XDriveDriver` promise alike of one motor hub, as an abstract
  specification of their own that both implement.

Not modelled:

* the X-drive `mix` and the geometry of the swerve drive: floating point, which
  the drives' models take as constants;
* the proxy and the pages of the camera portal, the fleet portal: they relay
  bytes or render files and keep no state;
* the other robot roles (`xdrive`, `swerve_drive`, `joint_teleop`): the same
  sync-then-build shape as `FleetDeploy` with local packages;
* host configuration and network roles: files and packages installed by Ansible
  modules, links switched by NetworkManager and netplan, once;
* provisioning scripts: interactive, one-shot, around external tools.
