----------------------------- MODULE CameraPortal -----------------------------
(***************************************************************************)
(* camera-portal.py: which topics a scan takes for a host's cameras, and    *)
(* the page that refreshes one tile per camera with snapshots.              *)
(***************************************************************************)
EXTENDS Naturals, Sequences, FiniteSetsExt

CONSTANTS
  Hosts,        \* the hosts the portal scans
  HostVars,     \* HostVars[h]: the lines of its file that the portal or the role reads
  Domain,       \* the image topics on the ROS domain: [host, ns, kind]
  MaxScans,     \* bound: scans under way at once
  MaxOvertakes  \* bound: scans that land while snapshots are awaited

Line == [key : {"namespace", "swap_rb", "sensor"}, value : STRING]

ASSUME CameraPortalAssumption ==
  /\ \A h \in Hosts : HostVars[h] \in Seq(Line)
  /\ Domain \subseteq [host : Hosts, ns : STRING, kind : {"image_raw", "image_color"}]
  /\ MaxScans \in Nat \ {0} /\ MaxOvertakes \in Nat

VARIABLES
  shown,     \* the tiles of the page
  listed,    \* history: hosts that answered the last scan with all their cameras
  waiting,   \* pending timers of each tile's refresh loops
  asking,    \* loops of each tile that await their snapshot
  scans,     \* scans under way
  overtakes  \* scans that may still land while a snapshot is awaited

cpVars == <<shown, listed, waiting, asking, scans, overtakes>>

-----------------------------------------------------------------------------
(* The namespace a line of a host's file belongs to: the nearest above it.  *)
Entry(h, i) ==
  LET above == {k \in 1..i : HostVars[h][k].key = "namespace"}
  IN  IF above = {} THEN "" ELSE HostVars[h][Max(above)].value

HostNamespaces(h) ==
  {HostVars[h][i].value : i \in {k \in DOMAIN HostVars[h] : HostVars[h][k].key = "namespace"}}

Says(h, ns, field, value) ==
  \E i \in DOMAIN HostVars[h] :
    Entry(h, i) = ns /\ HostVars[h][i].key = field /\ HostVars[h][i].value = value

(* The portal goes by `swap_rb: true' alone.  *)
HostSwapped(h) == {ns \in HostNamespaces(h) : Says(h, ns, "swap_rb", "true")}

ListTopics(advertised, swapped) ==
  {t \in advertised : t.kind = IF t.ns \in swapped THEN "image_color" ELSE "image_raw"}

(* Mutant of ProbeHost: any topic of a namespace the host has. *)
ProbeHostAnyOwner(h, advertised) ==
  {t \in ListTopics(advertised, HostSwapped(h)) :
     HostNamespaces(h) # {} => t.ns \in HostNamespaces(h)}

(* The cameras of a host: of the topics of the whole domain, which its      *)
(* server lists, those of its own namespaces, if any are known.             *)
ProbeHost(h, advertised) ==
  {t \in ListTopics(advertised, HostSwapped(h)) :
     HostNamespaces(h) # {} => t.ns \in HostNamespaces(h) /\ t.host = h}

(* The role corrects a camera also when its file leaves the swap to the     *)
(* sensor table.                                                            *)
SwapImplied == [h \in Hosts |->
  {ns \in HostNamespaces(h) : Says(h, ns, "sensor", "imx296") /\ ~Says(h, ns, "swap_rb", "false")}
    \ HostSwapped(h)]

(* The topic of each camera on which the role has the colours right. *)
RoleTopics == [h \in Hosts |->
  {[host |-> h, ns |-> ns,
    kind |-> IF ns \in HostSwapped(h) \cup SwapImplied[h] THEN "image_color" ELSE "image_raw"] :
     ns \in HostNamespaces(h)}]

(* What the page has of them: a swap the portal cannot see stays undone. *)
PageTopics == [h \in Hosts |->
  {IF t.ns \in SwapImplied[h] THEN [t EXCEPT !.kind = "image_raw"] ELSE t : t \in RoleTopics[h]}]

(* discover: what a scan may find.  A host whose port is closed or whose    *)
(* server does not answer has no cameras.                                   *)
View(advertised, up) ==
  [tiles |-> UNION {{[at |-> h, topic |-> t] : t \in ProbeHost(h, advertised)} : h \in up},
   listed |-> {h \in up : PageTopics[h] \subseteq advertised}]

Views == {View(advertised, up) : advertised \in SUBSET Domain, up \in SUBSET Hosts}

(* Every tile the page may get. *)
Tiles == View(Domain, Hosts).tiles

CpInit ==
  /\ shown = {} /\ listed = {}
  /\ waiting = [t \in Tiles |-> 0] /\ asking = waiting
  /\ scans = 1 /\ overtakes = MaxOvertakes

-----------------------------------------------------------------------------
Rescan ==
  /\ scans < MaxScans /\ scans' = scans + 1
  /\ UNCHANGED <<shown, listed, waiting, asking, overtakes>>

(* Mutant of StartStreams: the timers of the last scan stay. *)
StartStreamsUncleared(tiles) ==
  waiting' = [t \in Tiles |-> IF t \in tiles THEN waiting[t] + 1 ELSE waiting[t]]

(* Every pending timer is cleared, one is started for each tile; what is    *)
(* being asked for is left alone.                                           *)
StartStreams(tiles) ==
  waiting' = [t \in Tiles |-> IF t \in tiles THEN 1 ELSE 0]

(* A scan returns: the tiles are built and their streams started. *)
ScanLands ==
  /\ scans > 0 /\ scans' = scans - 1
  /\ \E view \in Views :
       /\ shown' = view.tiles /\ listed' = view.listed
       /\ StartStreams(view.tiles)
  /\ IF \E t \in Tiles : asking[t] > 0
     THEN overtakes > 0 /\ overtakes' = overtakes - 1
     ELSE UNCHANGED overtakes
  /\ UNCHANGED asking

(* The portal does not answer: scan() raises, the page stays as it is. *)
ScanFails ==
  /\ scans > 0 /\ scans' = scans - 1
  /\ UNCHANGED <<shown, listed, waiting, asking, overtakes>>

(* tick *)
Ask(t) ==
  /\ waiting[t] > 0
  /\ waiting' = [waiting EXCEPT ![t] = @ - 1]
  /\ asking' = [asking EXCEPT ![t] = @ + 1]
  /\ UNCHANGED <<shown, listed, scans, overtakes>>

(* Mutant of Finish: a snapshot that fails ends the loop. *)
FinishOnLoad(t) ==
  /\ asking[t] > 0
  /\ asking' = [asking EXCEPT ![t] = @ - 1]
  /\ \/ waiting' = [waiting EXCEPT ![t] = @ + 1]
     \/ UNCHANGED waiting
  /\ UNCHANGED <<shown, listed, scans, overtakes>>

(* finish, once for every tick: the snapshot loads, or fails, or neither    *)
(* event has come by MAX_WAIT_MS.  In any case the loop goes on.            *)
Finish(t) ==
  /\ asking[t] > 0
  /\ asking' = [asking EXCEPT ![t] = @ - 1]
  /\ waiting' = [waiting EXCEPT ![t] = @ + 1]
  /\ UNCHANGED <<shown, listed, scans, overtakes>>

Refresh(t) == Ask(t) \/ Finish(t)

CpNext ==
  \/ Rescan \/ ScanLands \/ ScanFails
  \/ \E t \in Tiles : Refresh(t)

-----------------------------------------------------------------------------
CpTypeOK ==
  /\ shown \subseteq Tiles /\ listed \subseteq Hosts
  /\ {waiting, asking} \subseteq [Tiles -> Nat]
  /\ scans \in 0..MaxScans /\ overtakes \in 0..MaxOvertakes

(* `Only when that frame has landed (or failed) schedule the next one':     *)
(* every tile has exactly one refresh loop, a camera that is not shown has  *)
(* none, until a scan lands while a snapshot is awaited.                    *)
OneLoopPerTile ==
  overtakes = MaxOvertakes => \A t \in Tiles : waiting[t] + asking[t] = IF t \in shown THEN 1 ELSE 0

(* `Move on rather than freezing this tile forever': a tile that stays is   *)
(* asked for again and again, answered or not, whatever scans land between. *)
TilesKeepRefreshing ==
  \A t \in Tiles :
    <>[](t \in shown) => []<>(waiting[t] > 0) /\ []<>(asking[t] > 0)

(* `So each camera appears once': however much of the domain a server lists *)
(* beside its own cameras, a host with declared cameras has one tile for    *)
(* each of them, and no phantom.  The tile shows the topic the role         *)
(* corrects if the file spells the swap out; if only the sensor table       *)
(* implies it, the raw topic, with red and blue exchanged.                  *)
OneTilePerCamera ==
  \A h \in {g \in Hosts : HostNamespaces(g) # {}} :
    LET mine == {t.topic : t \in {u \in shown : u.at = h}}
    IN  mine \subseteq PageTopics[h] /\ (h \in listed => PageTopics[h] \subseteq mine)
=============================================================================
