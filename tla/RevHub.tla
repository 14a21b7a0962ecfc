------------------------------- MODULE RevHub -------------------------------
(***************************************************************************)
(* revhub_node.py: the control loop of the robot driver (the only writer   *)
(* of motor commands), its hub session, and the REV hub at the far end of  *)
(* the serial line.                                                        *)
(*                                                                         *)
(* Where the commands come from is CommandSource.tla; here `demand` is the *)
(* wheel vector the source half would compute if the loop read it now.     *)
(*                                                                         *)
(* A serial transaction is one step.  It may be                            *)
(*   ok     the hub acts and the reply arrives,                            *)
(*   lost   the hub never sees it, rhsp raises,                            *)
(*   noack  the hub acts, the reply is corrupted, rhsp raises.             *)
(* `budget` bounds the number of faults of a behaviour.                    *)
(***************************************************************************)
EXTENDS WheelNumerics, FiniteSets

CONSTANTS
  NW,           \* number of wheels (4 in the code)
  Demands,      \* wheel vectors the source half can ask for
  Slew,         \* --slew
  Quantum,      \* --quantum
  StatusEvery,  \* control ticks between two status reads (100 in the code)
  MaxAttempts,  \* session attempts before giving up (5 in the code)
  Faults,       \* which faults the environment may inject
  MaxFaults,    \* bound: how many of them
  MayStop       \* may the unit be told to stop?

Wheels == 1..NW
Zero == [w \in Wheels |-> 0]

ASSUME RevHubAssumption ==
  /\ NW \in Nat \ {0}
  /\ Demands \subseteq [Wheels -> Int]
  /\ Zero \in Demands
  /\ Slew \in Nat \ {0}
  /\ Quantum \in Nat \ {0}
  /\ StatusEvery \in Nat \ {0}
  /\ MaxAttempts \in Nat \ {0}
  /\ Faults \subseteq {"trip", "lost", "noack", "open"}
  /\ MaxFaults \in Nat
  /\ MayStop \in BOOLEAN

VARIABLES
  \* --- the driver process -------------------------------------------------
  pc,        \* where the main thread is
  demand,    \* what the source half asks for
  out,       \* slew_apply's local vector
  applied,   \* self.applied
  tick,      \* tick % status_every
  strikes,   \* self._strikes
  attempts,  \* failed attempts of open_validated_session so far
  todo,      \* channels the re-arm loop has not reached, or never did
  stop,      \* self.stop
  wanted,    \* systemd: is the unit meant to run (Restart=always)?
  \* --- the hub ------------------------------------------------------------
  hubOn,     \* the enabled channels
  hubOut,    \* set point the channel is driving at
  latch,     \* KeepAliveTimeout / FailSafe status bits, latched until read
  budget     \* faults left

driver == <<pc, out, applied, tick, strikes, attempts, todo>>
hub == <<hubOn, hubOut, latch>>
unit == <<stop, wanted>>
vars == <<driver, demand, hub, unit, budget>>

Live == pc \in {"loop", "send", "status", "rearm", "sleep"}

-----------------------------------------------------------------------------
(* The environment may inject fault f now, at the cost of one of the budget. *)
Fault(f) ==
  /\ f \in Faults
  /\ budget > 0
  /\ budget' = budget - 1

(* fail_safe(), a session's __exit__ and a keep-alive lapse do the same to  *)
(* the hub: every channel disabled and its output removed.                  *)
HubOff(bits) ==
  /\ hubOn' = {}
  /\ hubOut' = Zero
  /\ latch' = bits

(* set_power / set_velocity reaching the hub: a disabled channel accepts it *)
(* and ignores it.                                                          *)
HubCommand(w, v) ==
  /\ hubOut' = IF w \in hubOn THEN [hubOut EXCEPT ![w] = v] ELSE hubOut
  /\ UNCHANGED <<hubOn, latch>>

(* attach(): zero target, then enable. *)
HubAttach(w) ==
  /\ hubOn' = hubOn \cup {w}
  /\ hubOut' = [hubOut EXCEPT ![w] = 0]
  /\ UNCHANGED latch

-----------------------------------------------------------------------------
Init ==
  /\ pc = "open"
  /\ demand = Zero
  /\ out = Zero
  /\ applied = Zero
  /\ tick = 0
  /\ strikes = 0
  /\ attempts = 0
  /\ todo = {}
  /\ stop = FALSE
  /\ wanted = TRUE
  /\ hubOn = {}
  /\ hubOut = Zero
  /\ latch \in BOOLEAN
  /\ budget = MaxFaults

(* The js_reader / ROS thread changes what the loop will read next. *)
Demand ==
  /\ demand' \in Demands
  /\ UNCHANGED <<driver, hub, unit, budget>>

-----------------------------------------------------------------------------
(* Mutant of OpenOk: `applied' survives the reconnect. *)
OpenOkStale ==
  /\ pc = "open"
  /\ pc' = "loop"
  /\ hubOn' = Wheels
  /\ hubOut' = Zero
  /\ latch' = FALSE
  /\ attempts' = 0
  /\ todo' = {}
  /\ UNCHANGED <<demand, out, applied, tick, strikes, unit, budget>>

(* open_validated_session: an attempt that passes validation. *)
OpenOk ==
  /\ pc = "open"
  /\ pc' = "loop"
  /\ hubOn' = Wheels
  /\ hubOut' = Zero
  /\ latch' = FALSE
  /\ applied' = Zero
  /\ attempts' = 0
  /\ todo' = {}
  /\ UNCHANGED <<demand, out, tick, strikes, unit, budget>>

(* An attempt that raises: before the hub was touched, after its channels  *)
(* were attached (and the clean-up __exit__ was lost), or fail-safed by it.*)
(* The last one makes the process exit.                                    *)
OpenFail ==
  /\ pc = "open"
  /\ Fault("open")
  /\ \/ UNCHANGED hub
     \/ hubOn' = Wheels /\ hubOut' = Zero /\ UNCHANGED latch
     \/ HubOff(latch)
  /\ attempts' = attempts + 1
  /\ pc' = IF attempts + 1 = MaxAttempts THEN "down" ELSE "open"
  /\ UNCHANGED <<demand, out, applied, tick, strikes, todo, unit>>

(* enumerate_hubs finds no hub (unplugged, not enumerated yet): no retry,  *)
(* the process exits at once.                                              *)
OpenMissing ==
  /\ pc = "open"
  /\ attempts = 0
  /\ Fault("open")
  /\ pc' = "down"
  /\ UNCHANGED <<demand, out, applied, tick, strikes, attempts, todo, hub, unit>>

-----------------------------------------------------------------------------
(* run_control, top of the loop: slew_apply computes what it will send. *)
BeginTick ==
  /\ pc = "loop"
  /\ ~stop
  /\ out' = [w \in Wheels |-> SlewStep(applied[w], demand[w], Slew, Quantum)]
  /\ pc' = "send"
  /\ UNCHANGED <<demand, applied, tick, strikes, attempts, todo, hub, unit, budget>>

(* Wheels whose command changes, and the one whose turn it is. *)
Pending == {w \in Wheels : out[w] # applied[w]}
IsNext(w, S) == w \in S /\ \A v \in S : w <= v

SendOk ==
  /\ pc = "send"
  /\ \E w \in Wheels :
       /\ IsNext(w, Pending)
       /\ HubCommand(w, out[w])
       /\ applied' = [applied EXCEPT ![w] = out[w]]
  /\ UNCHANGED <<pc, demand, out, tick, strikes, attempts, todo, unit, budget>>

(* tick += 1; the status register is read every StatusEvery ticks. *)
EndSend ==
  /\ tick' = (tick + 1) % StatusEvery
  /\ pc' = IF tick' = 0 THEN "status" ELSE "sleep"
  /\ UNCHANGED <<demand, out, applied, strikes, attempts, todo, unit>>

SendDone ==
  /\ pc = "send"
  /\ Pending = {}
  /\ EndSend
  /\ UNCHANGED <<hub, budget>>

(* Mutant of SendFail: the command is remembered before it is sent. *)
SendFailRemembers ==
  /\ pc = "send"
  /\ \E w \in Wheels :
       /\ IsNext(w, Pending)
       /\ Fault("lost")
       /\ applied' = [applied EXCEPT ![w] = out[w]]
  /\ pc' = "sleep"
  /\ UNCHANGED <<demand, out, tick, strikes, attempts, todo, hub, unit>>

(* An exception in the loop: the remaining wheels are not sent this tick. *)
SendFail ==
  /\ pc = "send"
  /\ \E w \in Wheels :
       /\ IsNext(w, Pending)
       /\ \/ Fault("lost") /\ UNCHANGED hub
          \/ Fault("noack") /\ HubCommand(w, out[w])
  /\ EndSend

(* self.stop.wait(): time passes, the commands grow older. *)
Sleep ==
  /\ pc = "sleep"
  /\ pc' = "loop"
  /\ demand' \in Demands
  /\ UNCHANGED <<out, applied, tick, strikes, attempts, todo, hub, unit, budget>>

-----------------------------------------------------------------------------
(* check_hub_status: the register is clean. *)
StatusClean ==
  /\ pc = "status"
  /\ ~latch
  /\ strikes' = 0
  /\ pc' = "sleep"
  /\ UNCHANGED <<demand, out, applied, tick, attempts, todo, hub, unit, budget>>

(* No answer.  When only the reply is lost the hub has still cleared its   *)
(* latch.                                                                  *)
NoAnswer ==
  \/ Fault("lost") /\ UNCHANGED latch
  \/ Fault("noack") /\ latch' = FALSE

(* Mutants of StatusBlip: strikes without a limit; a strike without re-arm.*)
StatusBlipUncounted ==
  /\ pc = "status"
  /\ latch
  /\ latch' = FALSE
  /\ strikes' = strikes + 1
  /\ todo' = Wheels
  /\ pc' = "rearm"
  /\ UNCHANGED <<demand, out, applied, tick, attempts, hubOn, hubOut, unit, budget>>

StatusBlipLogged ==
  /\ pc = "status"
  /\ latch
  /\ latch' = FALSE
  /\ strikes = 0
  /\ strikes' = 1
  /\ pc' = "sleep"
  /\ UNCHANGED <<demand, out, applied, tick, attempts, todo, hubOn, hubOut, unit, budget>>

(* Fault bits read, and thereby cleared: a first strike re-arms.           *)
StatusBlip ==
  /\ pc = "status"
  /\ latch
  /\ latch' = FALSE
  /\ strikes = 0
  /\ strikes' = 1
  /\ todo' = Wheels
  /\ pc' = "rearm"
  /\ UNCHANGED <<demand, out, applied, tick, attempts, hubOn, hubOut, unit, budget>>

(* No answer is a strike too, but nothing is re-armed. *)
StatusMute ==
  /\ pc = "status"
  /\ NoAnswer
  /\ strikes = 0
  /\ strikes' = 1
  /\ pc' = "sleep"
  /\ UNCHANGED <<demand, out, applied, tick, attempts, todo, hubOn, hubOut, unit>>

(* The second strike: recover_session closes the old session (an exception *)
(* of that is swallowed) and goes to open a new one.                       *)
StatusRecover ==
  /\ pc = "status"
  /\ strikes = 1
  /\ strikes' = 0
  /\ attempts' = 0
  /\ pc' = "open"
  /\ \/ latch /\ latch' = FALSE /\ UNCHANGED budget
     \/ NoAnswer
  /\ \/ hubOn' = {} /\ hubOut' = Zero
     \/ "lost" \in Faults /\ UNCHANGED <<hubOn, hubOut>>
  /\ UNCHANGED <<demand, out, applied, tick, todo, unit>>

(* The re-arm loop, one channel at a time. *)
RearmOk ==
  /\ pc = "rearm"
  /\ \E w \in Wheels :
       /\ IsNext(w, todo)
       /\ HubAttach(w)
       /\ todo' = todo \ {w}
  /\ UNCHANGED <<pc, demand, out, applied, tick, strikes, attempts, unit, budget>>

(* Mutant of RearmDone: `applied' is not reset. *)
RearmDoneStale ==
  /\ pc = "rearm"
  /\ todo = {}
  /\ pc' = "sleep"
  /\ UNCHANGED <<demand, out, applied, tick, strikes, attempts, todo, hub, unit, budget>>

(* All channels re-armed: targets are resent from zero. *)
RearmDone ==
  /\ pc = "rearm"
  /\ todo = {}
  /\ applied' = Zero
  /\ pc' = "sleep"
  /\ UNCHANGED <<demand, out, tick, strikes, attempts, todo, hub, unit, budget>>

(* `motor re-enable failed`: swallowed, and self.applied is NOT reset. *)
RearmFail ==
  /\ pc = "rearm"
  /\ \E w \in Wheels :
       /\ IsNext(w, todo)
       /\ \/ Fault("lost") /\ UNCHANGED hub
          \/ Fault("noack") /\ HubAttach(w)
  /\ pc' = "sleep"
  /\ UNCHANGED <<demand, out, applied, tick, strikes, attempts, todo, unit>>

-----------------------------------------------------------------------------
(* SIGTERM / SIGINT, or the ROS thread failing to start: self.stop is set. *)
(* systemctl stop clears `wanted`, a restart or a failed start does not.   *)
StopSignal ==
  /\ MayStop
  /\ ~stop
  /\ pc # "down"
  /\ stop' = TRUE
  /\ wanted' \in BOOLEAN
  /\ UNCHANGED <<driver, demand, hub, budget>>

(* The loop ends: fail_safe() and __exit__, errors swallowed. *)
Shutdown ==
  /\ pc = "loop"
  /\ stop
  /\ pc' = "down"
  /\ \/ HubOff(latch) /\ UNCHANGED budget
     \/ Fault("lost") /\ UNCHANGED hub
  /\ UNCHANGED <<demand, out, applied, tick, strikes, attempts, todo, unit>>

(* systemd starts a fresh process. *)
Restart ==
  /\ pc = "down"
  /\ wanted
  /\ pc' = "open"
  /\ out' = Zero
  /\ applied' = Zero
  /\ tick' = 0
  /\ strikes' = 0
  /\ attempts' = 0
  /\ todo' = {}
  /\ stop' = FALSE
  /\ demand' = Zero
  /\ UNCHANGED <<wanted, hub, budget>>

-----------------------------------------------------------------------------
(* The hub misses its keep-alives for 2.5 s although a session is open.    *)
HubTrip ==
  /\ Live
  /\ Fault("trip")
  /\ HubOff(TRUE)
  /\ UNCHANGED <<driver, demand, unit>>

(* Nobody keeps the hub alive: it fails safe by itself. *)
HubLapse ==
  /\ ~Live
  /\ hubOn # {}
  /\ HubOff(TRUE)
  /\ UNCHANGED <<driver, demand, unit, budget>>

-----------------------------------------------------------------------------
Loop == \/ BeginTick \/ SendOk \/ SendDone \/ Sleep
        \/ StatusClean \/ StatusBlip \/ StatusRecover
        \/ RearmOk \/ RearmDone \/ Shutdown

Failure == \/ SendFail \/ StatusMute \/ RearmFail
           \/ OpenFail \/ OpenMissing \/ HubTrip

Next == Loop \/ OpenOk \/ Failure \/ Demand \/ StopSignal \/ Restart \/ HubLapse

Spec == Init /\ [][Next]_vars

(* The main thread keeps running, an attempt to open the session is        *)
(* eventually validated, systemd restarts a dead unit, and the hub's own   *)
(* watchdog fires.  Faults, commands and stop requests are never forced.   *)
Fairness ==
  /\ WF_vars(Loop)
  /\ WF_vars(OpenOk)
  /\ WF_vars(Restart)
  /\ WF_vars(HubLapse)

FairSpec == Spec /\ Fairness

-----------------------------------------------------------------------------
HubTypeOK ==
  /\ hubOn \in SUBSET Wheels
  /\ hubOut \in [Wheels -> Int]
  /\ latch \in BOOLEAN

TypeOK ==
  /\ pc \in {"open", "loop", "send", "status", "rearm", "sleep", "down"}
  /\ demand \in Demands
  /\ out \in [Wheels -> Int]
  /\ applied \in [Wheels -> Int]
  /\ tick \in 0..(StatusEvery - 1)
  /\ strikes \in 0..1
  /\ attempts \in 0..MaxAttempts
  /\ pc = "open" => attempts < MaxAttempts
  /\ todo \in SUBSET Wheels
  /\ stop \in BOOLEAN
  /\ wanted \in BOOLEAN
  /\ HubTypeOK
  /\ budget \in 0..MaxFaults

(* Furthest one command can move a wheel, doubled to stay in the integers. *)
Near(a, b) == 2 * Abs(a - b) <= 2 * Slew + Quantum

(* `applied` is what the driver believes it commanded.  Whatever is lost,  *)
(* half done or tripped, a channel of a live session is either at rest or  *)
(* within one slew step of that belief (slew_apply, check_hub_status).     *)
HubFollowsApplied ==
  Live => \A w \in Wheels : hubOut[w] = 0 \/ Near(hubOut[w], applied[w])

(* When no reply is ever lost after the hub has acted, the belief is exact:*)
(* a channel is at rest or drives at exactly what the driver remembers.    *)
AppliedIsExact ==
  Live /\ "noack" \notin Faults =>
    \A w \in Wheels : hubOut[w] \in {0, applied[w]}

(* A disabled channel never drives: every way a channel goes off also      *)
(* takes its output away, and no later command revives it.                 *)
OffIsStill == \A w \in Wheels : w \notin hubOn => hubOut[w] = 0

(* What makes the three invariants above inductive: the vector slew_apply  *)
(* is sending is one step away from `applied`, and a channel the re-arm    *)
(* loop has passed is at rest.                                             *)
SendIsNear == pc = "send" => \A w \in Wheels : Near(out[w], applied[w])
RearmedIsStill == pc = "rearm" => \A w \in Wheels \ todo : hubOut[w] = 0

MotorInv ==
  /\ TypeOK
  /\ OffIsStill
  /\ SendIsNear
  /\ RearmedIsStill
  /\ HubFollowsApplied
  /\ AppliedIsExact

(* Has the last re-arm of this session been cut short?                      *)
CutShort == todo # {} /\ pc # "rearm"

(* The invariant behind SlewLimited when no reply is lost: unless a re-arm  *)
(* was cut short an enabled channel drives at exactly `applied`, and a fault*)
(* that is not yet counted has switched every channel off.                  *)
CalmInv ==
  /\ pc \in {"loop", "send", "status", "sleep"} /\ todo = {} =>
       \A w \in hubOn : hubOut[w] = applied[w]
  /\ pc = "rearm" => strikes = 1 /\ \A w \in hubOn : hubOut[w] = 0
  /\ Live /\ latch /\ strikes = 0 => hubOn = {}

(* --slew: `max power change per wheel per apply tick'.  A driving channel *)
(* moves by at most one slew step or is cut to zero, whatever requests are  *)
(* lost, unless the last re-arm of the session was cut short.               *)
SlewLimited ==
  [][ ~CutShort => \A w \in Wheels :
        hubOut'[w] = 0 \/ Near(hubOut'[w], hubOut[w]) ]_vars

(* The header promises `motor re-enable on a single blip and full          *)
(* reconnect on two': once the faults are over every channel is enabled    *)
(* again and stays so.                                                     *)
ChannelsComeBack == <>[](stop \/ hubOn = Wheels)

(* That promise is kept through fail-safes at any moment, lost requests and *)
(* failed sessions, except for a session whose last re-arm was cut short.   *)
ChannelsComeBackUnlessCut ==
  <>[](~stop) => <>[](hubOn = Wheels \/ CutShort)

(* A steady demand is reached: the slew-limited, quantized ramp ends at    *)
(* the demand rounded to the quantum.                                      *)
SteadyDemandReached ==
  \A t \in Demands :
    <>[](demand = t /\ ~stop /\ ~CutShort) =>
      <>[](hubOut = [w \in Wheels |-> Quantize(t[w], Quantum)])
=============================================================================
