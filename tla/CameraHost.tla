------------------------------ MODULE CameraHost ------------------------------
(***************************************************************************)
(* A camera host: the camera service with its colour relay, the HTTP server *)
(* that is PartOf it, systemd that starts both again, and                   *)
(* camera-watchdog.sh, which a timer fires.                                 *)
(***************************************************************************)
EXTENDS Naturals

CONSTANT MaxTroubles  \* bound: how many troubles befall the host

ASSUME CameraHostAssumption == MaxTroubles \in Nat

VARIABLES
  feed,      \* the watched topic; "down": its service is not active
  web,       \* web_video_server; "absent": not installed on this host
  dog,       \* the watchdog run: none ("idle"), in a probe, or "hung"
  ever,      \* history: the current probe has had something to read
  always,    \* history: it has had so all the time
  steady,    \* history: the camera has published since the timer fired
  troubles   \* troubles to come

chVars == <<feed, web, dog, ever, always, steady, troubles>>

Watched == feed = "ok" /\ web \in {"absent", "ok"}

(* Mutant of Readable: any frames at all are taken for a healthy rate. *)
ReadableAny(probe) ==
  \/ probe = "http" /\ web = "ok" /\ feed \in {"ok", "slow"}
  \/ probe = "rate" /\ feed \in {"ok", "slow"}

(* Is there what a probe asks for: bytes over HTTP, frames at MIN_RATE?  A  *)
(* degraded camera still serves a frame within the HTTP budget.             *)
Readable(probe) ==
  \/ probe = "http" /\ web = "ok" /\ feed \in {"ok", "slow"}
  \/ probe = "rate" /\ feed = "ok"

Measure ==
  /\ ever' = (ever \/ Readable(dog)')
  /\ always' = (always /\ Readable(dog)')
  /\ steady' = (steady /\ feed' = "ok")

(* The host boots, or runs without a fault. *)
ChInit ==
  /\ feed \in {"down", "ok"} /\ web \in {"absent", feed}
  /\ dog = "idle" /\ ever = FALSE /\ always = FALSE /\ steady = FALSE
  /\ troubles = MaxTroubles

-----------------------------------------------------------------------------
(* systemd: Restart=always without a start limit; the HTTP server goes down *)
(* and comes up with the camera (PartOf, BindsTo, After).                   *)
GroupDown == feed' = "down" /\ web' = IF web = "absent" THEN web ELSE "down"

CameraStarts ==
  /\ feed = "down" /\ feed' = "warming"
  /\ UNCHANGED <<web, dog, troubles>> /\ Measure

FramesFlow ==
  /\ feed = "warming" /\ feed' = "ok"
  /\ UNCHANGED <<web, dog, troubles>> /\ Measure

WebStarts ==
  /\ web = "down" /\ feed # "down" /\ web' = "ok"
  /\ UNCHANGED <<feed, dog, troubles>> /\ Measure

(* Troubles: an exit, whatever its status; frames that stop or thin out     *)
(* while the process lives; a listener that no longer answers.              *)
Trouble ==
  /\ troubles > 0 /\ troubles' = troubles - 1
  /\ \/ feed # "down" /\ GroupDown
     \/ feed \in {"warming", "ok", "slow"} /\ feed' = "stalled" /\ UNCHANGED web
     \/ feed = "ok" /\ feed' = "slow" /\ UNCHANGED web
     \/ web \in {"ok", "wedged"} /\ web' = "down" /\ UNCHANGED feed
     \/ web = "ok" /\ web' = "wedged" /\ UNCHANGED feed
  /\ UNCHANGED dog /\ Measure

(* A stall of the listener may clear by itself. *)
WebClears ==
  /\ web = "wedged" /\ web' = "ok"
  /\ UNCHANGED <<feed, dog, troubles>> /\ Measure

-----------------------------------------------------------------------------
(* The watchdog.  A probe that had something to read all the time succeeds, *)
(* one that never had fails, any other may do either.                       *)
Begin(probe) ==
  /\ dog' = probe
  /\ ever' = Readable(probe)
  /\ always' = Readable(probe)

End ==
  /\ dog' = "idle"
  /\ ever' = FALSE /\ always' = FALSE /\ steady' = FALSE

(* The timer fires; a service that is not active is left to systemd.  Runs  *)
(* are an interval apart and the services up within seconds of a restart:   *)
(* they are not starting when a run begins (but may fail just after).       *)
TimerFires ==
  /\ dog = "idle"
  /\ feed \notin {"down", "warming"} /\ web # "down"
  /\ Begin(IF web = "absent" THEN "rate" ELSE "http")
  /\ steady' = (feed = "ok")
  /\ UNCHANGED <<feed, web, troubles>>

HttpServed ==
  /\ dog = "http" /\ ever
  /\ Begin("rate")
  /\ UNCHANGED <<feed, web, steady, troubles>>

(* Mutant of HttpSilent: the camera is bounced too.                         *)
HttpSilentBounces ==
  /\ dog = "http" /\ ~always
  /\ GroupDown /\ End /\ UNCHANGED troubles

(* No bytes: restart the HTTP server, and only that. *)
HttpSilent ==
  /\ dog = "http" /\ ~always
  /\ web' = "down" /\ End
  /\ UNCHANGED <<feed, troubles>>

RateHealthy ==
  /\ dog = "rate" /\ ever
  /\ End /\ UNCHANGED <<feed, web, troubles>>

(* Restart the camera, whatever became of it since is-active was asked. *)
RateLow ==
  /\ dog = "rate" /\ ~always
  /\ GroupDown /\ End /\ UNCHANGED troubles

(* A run that hangs is killed after TimeoutStartSec. *)
RunHangs ==
  /\ dog \in {"http", "rate"} /\ troubles > 0
  /\ troubles' = troubles - 1 /\ dog' = "hung"
  /\ UNCHANGED <<feed, web, ever, always, steady>>

RunKilled ==
  /\ dog = "hung"
  /\ End /\ UNCHANGED <<feed, web, troubles>>

Systemd == CameraStarts \/ FramesFlow \/ WebStarts
Watchdog == TimerFires \/ HttpServed \/ HttpSilent \/ RateHealthy \/ RateLow \/ RunKilled

ChNext == Systemd \/ Trouble \/ WebClears \/ Watchdog \/ RunHangs

(* Services are started again for ever; the timer fires, every probe ends.  *)
ChSpec == ChInit /\ [][ChNext]_chVars /\ WF_chVars(Systemd) /\ WF_chVars(Watchdog)

-----------------------------------------------------------------------------
ChTypeOK ==
  /\ feed \in {"down", "warming", "ok", "slow", "stalled"}
  /\ web \in {"absent", "down", "ok", "wedged"}
  /\ dog \in {"idle", "http", "rate", "hung"}
  /\ {ever, always, steady} \subseteq BOOLEAN
  /\ troubles \in 0..MaxTroubles

(* Crashes, a wedged listener, a hung watchdog run, a degraded rate, and on *)
(* a host without the HTTP server a stall too: once the troubles end, frames*)
(* come at full rate and are served, and nothing is restarted any more.     *)
(* Except for a camera that stalls behind the HTTP server.                  *)
ViewersServed == <>[]Watched \/ <>[](feed = "stalled" /\ web # "absent")

(* `Restart ONLY the HTTP server ... bouncing [the camera] would drop every *)
(* ROS subscriber': a camera that publishes from the timer on is not taken  *)
(* down by the run, whatever happens to the HTTP server meanwhile.          *)
HealthyCameraKept ==
  [][steady /\ feed' # feed => troubles' < troubles]_chVars

(* Header, probe 1: `probe the topic rate and restart the camera service'.  *)
(* A camera that stalls is restarted.                                       *)
StalledCameraRestarted == feed = "stalled" ~> feed # "stalled"
=============================================================================
