----------------------------- MODULE RevHubDrive -----------------------------
(***************************************************************************)
(* revhub_node.py as a whole: the threads that fill in the command         *)
(* (CommandSource) next to the control loop that drives the hub (RevHub).  *)
(* They share self.js_ok, self.axes, self.buttons and self.twist_cmd       *)
(* without a lock; the loop reads them once a tick.                        *)
(***************************************************************************)
EXTENDS CommandSource, FiniteSets

CONSTANTS
  NW, Slew, Quantum, StatusEvery, MaxAttempts, Faults, MaxFaults, MayStop,
  Mix,      \* mix() and the wheel scales: wheel vector of a motion
  CalDrive  \* wheel vector of a calibration button

VARIABLES pc, out, applied, tick, strikes, attempts, todo, stop, wanted,
          hubOn, hubOut, latch, budget

WheelsOf(c) == IF c.kind = "cal" THEN CalDrive[c.of] ELSE Mix[c.of]

(* The control loop, its demand being what this node would command now. *)
Motors == INSTANCE RevHub
  WITH Demands <- {WheelsOf(c) : c \in Commands}, demand <- WheelsOf(Command)

(* The loop's constants are RevHub's, and sticks at rest ask for no motion.*)
ASSUME RevHubDriveAssumption ==
  /\ Motors!RevHubAssumption
  /\ Mix[Rest] = Motors!Zero

loopVars == <<pc, out, applied, tick, strikes, attempts, todo, stop, wanted,
              hubOn, hubOut, latch, budget>>
vars == <<srcVars, loopVars>>

Init == SourceInit /\ Motors!Init

(* The threads of the source half run while the process does. *)
Running == pc # "down" /\ reader # "off"

(* The control loop's own steps leave the source half alone. *)
LoopStep ==
  \/ /\ UNCHANGED srcVars
     /\ \/ Motors!BeginTick \/ Motors!SendOk \/ Motors!SendDone
        \/ Motors!StatusClean \/ Motors!StatusBlip \/ Motors!StatusRecover
        \/ Motors!RearmOk \/ Motors!RearmDone \/ Motors!Shutdown
  \/ /\ GrowOlder
     /\ UNCHANGED <<source, operator, reader, unread, jsOk, axes, buttons>>
     /\ Motors!Sleep

FailStep ==
  /\ UNCHANGED srcVars
  /\ \/ Motors!SendFail \/ Motors!StatusMute \/ Motors!RearmFail
     \/ Motors!OpenFail \/ Motors!OpenMissing
     \/ Motors!HubTrip \/ Motors!StopSignal

OpenStep == StartThreads /\ UNCHANGED source /\ Motors!OpenOk
LapseStep == UNCHANGED srcVars /\ Motors!HubLapse
RestartStep == UNCHANGED <<source, operator>> /\ NodeReset /\ Motors!Restart

OperatorStep == Operator /\ UNCHANGED <<source, loopVars>>
ReaderStep == Running /\ Reader /\ UNCHANGED <<source, loopVars>>
\* joydev delivers in order: no stream of stick events overtakes a button for ever.
ReadButtonStep == Running /\ ReadButton /\ UNCHANGED <<source, loopVars>>
MessageStep == Running /\ Messages /\ UNCHANGED <<source, loopVars>>

Next == \/ LoopStep \/ OpenStep \/ FailStep \/ RestartStep \/ LapseStep
        \/ OperatorStep \/ ReaderStep \/ MessageStep

Spec ==
  /\ Init
  /\ [][Next]_vars
  /\ WF_vars(LoopStep) /\ WF_vars(OpenStep)
  /\ WF_vars(RestartStep) /\ WF_vars(LapseStep)
  /\ WF_vars(ReaderStep) /\ WF_vars(ReadButtonStep)

-----------------------------------------------------------------------------
(* Every wheel is at rest or within one slew step of what the loop          *)
(* remembers (RevHub!HubFollowsApplied), with the demands this node's       *)
(* threads really produce and requests or replies lost at any call.         *)
HubFollowsApplied == Motors!HubFollowsApplied

(* Header: `motors are zeroed while it is gone'.  A pad that stays away, or*)
(* messages that stop coming, stop the wheels for good, whenever the hub   *)
(* falls into fail-safe on the way: except for a wheel that has obeyed its *)
(* last set-point although the reply was lost.  It keeps that one step, for*)
(* the loop believes it at rest and sends it nothing.                      *)
SilenceStops ==
  <>[](~present) =>
    <>[](\A w \in Motors!Wheels :
           hubOut[w] = 0 \/ (applied[w] = 0 /\ Motors!Near(hubOut[w], applied[w])))

(* A button released while the pad was away is noticed after its return.   *)
ButtonsAreRefreshed ==
  source = "device" => \A b \in Ports : <>[](present /\ held # b) => <>[](pc = "down" \/ buttons # b)
=============================================================================
