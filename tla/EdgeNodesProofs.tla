--------------------------- MODULE EdgeNodesProofs ---------------------------
(* The small programs around the drives, each for every value of its         *)
(* constants: joints and pads, peers, camera hosts, the camera page, the     *)
(* fleet packages.  The index file has a module of its own.                  *)
EXTENDS EdgeNodes, JoyIndexProofs

-----------------------------------------------------------------------------
(* A camera host.  The watchdog never doubts a camera that publishes.        *)
ChInv ==
  /\ ChTypeOK
  /\ steady => feed = "ok"
  /\ steady /\ dog = "rate" => always

ChBits == ever \in BOOLEAN /\ always \in BOOLEAN /\ steady \in BOOLEAN

ChWords ==
  /\ feed \in {"down", "warming", "ok", "slow", "stalled"}
  /\ web \in {"absent", "down", "ok", "wedged"}
  /\ dog \in {"idle", "http", "rate", "hung"}

LEMMA ChTyped == ChTypeOK <=> ChBits /\ ChWords /\ troubles \in 0..MaxTroubles
BY Zenon DEF ChTypeOK, ChBits, ChWords

LEMMA ChInitHolds == ChInit => ChInv
<1> SUFFICES ASSUME ChInit PROVE ChInv
  OBVIOUS
<1>1. ChBits
  BY Zenon DEF ChInit, ChBits
<1>2. ChWords
  BY DEF ChInit, ChWords
<1>3. troubles \in 0..MaxTroubles
  BY CameraHostAssumption DEF ChInit
<1> QED
  BY Zenon, <1>1, <1>2, <1>3, ChTyped DEF ChInv, ChInit

LEMMA ChTypeStep == ChInv /\ [ChNext]_chVars => ChTypeOK'
<1> SUFFICES ASSUME ChInv, [ChNext]_chVars PROVE ChTypeOK'
  OBVIOUS
<1>0. ChBits /\ ChWords /\ troubles \in 0..MaxTroubles
  BY ChTyped DEF ChInv
<1> DEFINE Services == Systemd \/ Trouble \/ WebClears
           Runs == Watchdog \/ RunHangs
<1>1. CASE Services
  <2>1. ChBits'
    <3>1. Measure
      BY Zenon, <1>1 DEF Systemd, CameraStarts, FramesFlow, WebStarts, Trouble, WebClears
    <3> QED
      BY Zenon, <3>1 DEF Measure, ChBits
  <2>2. ChWords'
    BY <1>0, <1>1 DEF ChWords, Systemd, CameraStarts, FramesFlow, WebStarts, Trouble, WebClears,
                      GroupDown
  <2>3. troubles' \in 0..MaxTroubles
    BY <1>0, <1>1, CameraHostAssumption
       DEF Systemd, CameraStarts, FramesFlow, WebStarts, Trouble, WebClears
  <2> QED
    BY Zenon, <2>1, <2>2, <2>3 DEF ChTypeOK, ChBits, ChWords
<1>2. CASE Runs
  <2>1. ChBits'
    BY Zenon, <1>0, <1>2
       DEF ChBits, Watchdog, TimerFires, HttpServed, HttpSilent, RateHealthy, RateLow, RunKilled,
           RunHangs, Begin, End, Readable
  <2>2. ChWords'
    BY <1>0, <1>2
       DEF ChWords, Watchdog, TimerFires, HttpServed, HttpSilent, RateHealthy, RateLow, RunKilled,
           RunHangs, GroupDown, Begin, End
  <2>3. troubles' \in 0..MaxTroubles
    BY <1>0, <1>2, CameraHostAssumption
       DEF Watchdog, TimerFires, HttpServed, HttpSilent, RateHealthy, RateLow, RunKilled, RunHangs
  <2> QED
    BY Zenon, <2>1, <2>2, <2>3 DEF ChTypeOK, ChBits, ChWords
<1>3. CASE UNCHANGED chVars
  BY Zenon, <1>3 DEF chVars, ChInv, ChTypeOK
<1> QED
  BY <1>1, <1>2, <1>3 DEF ChNext

LEMMA ChStep == ChInv /\ [ChNext]_chVars => ChInv'
<1> SUFFICES ASSUME ChInv, [ChNext]_chVars
             PROVE  (steady' => feed' = "ok") /\ (steady' /\ dog' = "rate" => always')
  BY ChTypeStep DEF ChInv
<1>1. CASE Systemd \/ Trouble \/ WebClears
  <2>1. Measure /\ dog' = dog
    BY Zenon, <1>1 DEF Systemd, CameraStarts, FramesFlow, WebStarts, Trouble, WebClears
  <2>2. ASSUME steady', dog' = "rate" PROVE always'
    <3>1. steady /\ feed' = "ok"
      BY Zenon, <2>1, <2>2 DEF Measure
    <3>2. always /\ Readable(dog)'
      BY <2>1, <2>2, <3>1 DEF ChInv, Readable
    <3> QED
      BY Zenon, <2>1, <3>2 DEF Measure
  <2> QED
    BY Zenon, <2>1, <2>2 DEF Measure
<1>2. CASE TimerFires
  <2>1. (steady' <=> feed = "ok") /\ feed' = feed
    BY Zenon, <1>2 DEF TimerFires
  <2>2. dog' = "rate" => (always' <=> feed \in {"ok"})
    BY <1>2 DEF TimerFires, Begin, Readable
  <2> QED
    BY <2>1, <2>2
<1>3. CASE HttpServed
  <2>1. (steady' <=> steady) /\ feed' = feed /\ always' = Readable("rate")
    BY Zenon, <1>3 DEF HttpServed, Begin
  <2>2. Readable("rate") <=> feed = "ok"
    BY DEF Readable
  <2> QED
    BY <2>1, <2>2 DEF ChInv
<1>4. CASE HttpSilent \/ RateHealthy \/ RateLow \/ RunKilled
  BY Zenon, <1>4 DEF HttpSilent, RateHealthy, RateLow, RunKilled, End
<1>5. CASE RunHangs
  BY <1>5 DEF RunHangs, ChInv
<1>6. CASE UNCHANGED chVars
  BY Zenon, <1>6 DEF chVars, ChInv
<1> QED
  BY Zenon, <1>1, <1>2, <1>3, <1>4, <1>5, <1>6 DEF ChNext, Watchdog

LEMMA ChKeeps ==
  ChInv /\ [ChNext]_chVars => [steady /\ feed' # feed => troubles' < troubles]_chVars
<1> SUFFICES ASSUME ChInv, [ChNext]_chVars, steady, feed' # feed
             PROVE  troubles' < troubles
  OBVIOUS
<1>1. CASE Trouble
  BY <1>1, CameraHostAssumption DEF Trouble, ChInv, ChTypeOK
<1>2. CASE ~Trouble
  BY <1>2 DEF ChInv, ChNext, chVars, Systemd, CameraStarts, FramesFlow, WebStarts, WebClears,
              Watchdog, TimerFires, HttpServed, HttpSilent, RateHealthy, RateLow, RunKilled,
              RunHangs
<1> QED
  BY <1>1, <1>2

-----------------------------------------------------------------------------
(* The camera page.                                                          *)
LEMMA ViewParts ==
  ASSUME NEW a, NEW u
  PROVE  /\ View(a, u).tiles = UNION {{[at |-> h, topic |-> t] : t \in ProbeHost(h, a)} : h \in u}
         /\ View(a, u).listed = {h \in u : PageTopics[h] \subseteq a}
BY DEF View

LEMMA TileOfView ==
  ASSUME NEW a, NEW u, NEW tile
  PROVE  tile \in View(a, u).tiles <=>
           \E h \in u : \E t \in ProbeHost(h, a) : tile = [at |-> h, topic |-> t]
BY ViewParts

LEMMA ViewIsTyped ==
  ASSUME NEW a \in SUBSET Domain, NEW u \in SUBSET Hosts
  PROVE  View(a, u).tiles \subseteq Tiles /\ View(a, u).listed \subseteq Hosts
<1>1. \A h \in u : ProbeHost(h, a) \subseteq ProbeHost(h, Domain)
  BY DEF ProbeHost, ListTopics
<1>2. ASSUME NEW tile \in View(a, u).tiles PROVE tile \in Tiles
  <2>1. PICK h \in u : \E t \in ProbeHost(h, a) : tile = [at |-> h, topic |-> t]
    BY <1>2, TileOfView
  <2>2. PICK t \in ProbeHost(h, a) : tile = [at |-> h, topic |-> t]
    BY <2>1
  <2>3. t \in ProbeHost(h, Domain) /\ h \in Hosts
    BY <1>1, <2>2
  <2> QED
    BY <2>2, <2>3, TileOfView DEF Tiles
<1>3. View(a, u).listed \subseteq Hosts
  BY ViewParts
<1> QED
  BY <1>2, <1>3

(* The page's topics, one for each declared camera, by what the portal reads. *)
LEMMA OnePageTopic ==
  ASSUME NEW h \in Hosts
  PROVE  PageTopics[h] =
           {[host |-> h, ns |-> ns,
             kind |-> IF ns \in HostSwapped(h) THEN "image_color" ELSE "image_raw"] :
              ns \in HostNamespaces(h)}
<1> DEFINE Colour(ns) == IF ns \in HostSwapped(h) \cup SwapImplied[h] THEN "image_color" ELSE "image_raw"
           TopicKind(ns) == IF ns \in HostSwapped(h) THEN "image_color" ELSE "image_raw"
           Role(ns) == [host |-> h, ns |-> ns, kind |-> Colour(ns)]
           Page(t) == IF t.ns \in SwapImplied[h] THEN [t EXCEPT !.kind = "image_raw"] ELSE t
<1>1. RoleTopics[h] = {Role(ns) : ns \in HostNamespaces(h)}
  BY DEF RoleTopics
<1>2. PageTopics[h] = {Page(t) : t \in RoleTopics[h]}
  BY DEF PageTopics
<1>3. ASSUME NEW ns \in HostNamespaces(h)
      PROVE  Page(Role(ns)) = [host |-> h, ns |-> ns, kind |-> TopicKind(ns)]
  <2>1. CASE ns \in SwapImplied[h]
    <3>1. ns \notin HostSwapped(h)
      BY <2>1 DEF SwapImplied
    <3> QED
      BY <2>1, <3>1
  <2>2. CASE ns \notin SwapImplied[h]
    BY <2>2
  <2> QED
    BY <2>1, <2>2
<1> HIDE DEF Role, Page
<1> QED
  BY <1>1, <1>2, <1>3

(* A host's server adds nothing to its own cameras, and hides none of them.  *)
LEMMA ProbeIsPage ==
  ASSUME NEW a \in SUBSET Domain, NEW h \in Hosts, HostNamespaces(h) # {}
  PROVE  ProbeHost(h, a) = PageTopics[h] \cap a
<1> DEFINE TopicKind(ns) == IF ns \in HostSwapped(h) THEN "image_color" ELSE "image_raw"
<1>1. PageTopics[h] = {[host |-> h, ns |-> ns, kind |-> TopicKind(ns)] : ns \in HostNamespaces(h)}
  BY OnePageTopic
<1>2. \A t : t \in ProbeHost(h, a) <=> /\ t \in a /\ t.kind = TopicKind(t.ns)
                                      /\ t.ns \in HostNamespaces(h) /\ t.host = h
  BY DEF ProbeHost, ListTopics
<1> HIDE DEF TopicKind
<1>3. ASSUME NEW t \in ProbeHost(h, a) PROVE t \in PageTopics[h]
  <2>1. t \in [host : Hosts, ns : STRING, kind : {"image_raw", "image_color"}]
    BY <1>2, CameraPortalAssumption
  <2>2. t = [host |-> t.host, ns |-> t.ns, kind |-> t.kind]
    BY <2>1
  <2> QED
    BY <1>1, <1>2, <2>2
<1>4. ASSUME NEW t \in PageTopics[h], t \in a PROVE t \in ProbeHost(h, a)
  BY <1>1, <1>2, <1>4
<1> QED
  BY <1>2, <1>3, <1>4

(* The page is what some scan found. *)
Scanned == \E a \in SUBSET Domain, u \in SUBSET Hosts :
  shown = View(a, u).tiles /\ listed = View(a, u).listed

LEMMA ScannedShowsEach == Scanned => OneTilePerCamera
<1> SUFFICES ASSUME NEW a \in SUBSET Domain, NEW u \in SUBSET Hosts,
                    shown = View(a, u).tiles, listed = View(a, u).listed,
                    NEW h \in Hosts, HostNamespaces(h) # {}
             PROVE  LET mine == {t.topic : t \in {x \in shown : x.at = h}}
                    IN  mine \subseteq PageTopics[h] /\ (h \in listed => PageTopics[h] \subseteq mine)
  BY DEF Scanned, OneTilePerCamera
<1> DEFINE mine == {x \in shown : x.at = h}
<1>1. ASSUME NEW x \in mine PROVE x.topic \in PageTopics[h]
  <2>0. PICK g \in u : \E t \in ProbeHost(g, a) : x = [at |-> g, topic |-> t]
    BY TileOfView
  <2>1. PICK t \in ProbeHost(g, a) : x = [at |-> g, topic |-> t]
    BY <2>0
  <2>2. g = h /\ x.topic = t
    BY <2>1
  <2> QED
    BY <2>1, <2>2, ProbeIsPage
<1>2. ASSUME h \in listed, NEW t \in PageTopics[h]
      PROVE  \E x \in mine : x.topic = t
  <2>1. h \in u /\ PageTopics[h] \subseteq a
    BY <1>2, ViewParts
  <2>2. t \in ProbeHost(h, a)
    BY <1>2, <2>1, ProbeIsPage
  <2>3. [at |-> h, topic |-> t] \in mine
    BY <2>1, <2>2, TileOfView
  <2> QED
    BY <2>3
<1> QED
  BY <1>1, <1>2

CpInv == CpTypeOK /\ OneLoopPerTile /\ Scanned

CpCounts ==
  /\ waiting \in [Tiles -> Nat] /\ asking \in [Tiles -> Nat]
  /\ scans \in 0..MaxScans /\ overtakes \in 0..MaxOvertakes

LEMMA CpTyped == CpTypeOK <=> CpCounts /\ shown \subseteq Tiles /\ listed \subseteq Hosts
BY Zenon DEF CpTypeOK, CpCounts

LEMMA ScannedIsTyped == Scanned => shown \subseteq Tiles /\ listed \subseteq Hosts
BY ViewIsTyped DEF Scanned

LEMMA CpInitHolds == CpInit => CpInv
<1> SUFFICES ASSUME CpInit PROVE CpInv
  OBVIOUS
<1>1. Scanned
  <2>1. View({}, {}).tiles = {} /\ View({}, {}).listed = {}
    BY ViewParts
  <2> QED
    BY <2>1 DEF CpInit, Scanned
<1>2. CpCounts /\ OneLoopPerTile
  BY CameraPortalAssumption DEF CpInit, CpCounts, OneLoopPerTile
<1> QED
  BY <1>1, <1>2, ScannedIsTyped, CpTyped DEF CpInv

LEMMA CpStep == CpInv /\ [CpNext]_cpVars => CpInv'
<1> SUFFICES ASSUME CpInv, [CpNext]_cpVars PROVE CpInv'
  OBVIOUS
<1>0. CpCounts /\ shown \subseteq Tiles /\ listed \subseteq Hosts
  BY CpTyped DEF CpInv
<1>1. CASE ScanLands
  <2>1. PICK view \in Views : /\ shown' = view.tiles /\ listed' = view.listed
                              /\ StartStreams(view.tiles)
    BY <1>1 DEF ScanLands
  <2>2. Scanned'
    BY <2>1 DEF Views, Scanned
  <2>3. shown' \subseteq Tiles /\ listed' \subseteq Hosts
    <3>1. PICK a \in SUBSET Domain, u \in SUBSET Hosts : view = View(a, u)
      BY DEF Views
    <3> QED
      BY <2>1, <3>1, ViewIsTyped
  <2>4. /\ waiting' = [t \in Tiles |-> IF t \in shown' THEN 1 ELSE 0]
        /\ asking' = asking
    BY <1>1, <2>1 DEF ScanLands, StartStreams
  <2>5. CpCounts'
    BY <1>0, <1>1, <2>4, CameraPortalAssumption DEF ScanLands, CpCounts
  <2>6. OneLoopPerTile'
    <3>1. ASSUME overtakes' = MaxOvertakes PROVE \A t \in Tiles : asking[t] = 0
      BY <1>0, <1>1, <3>1, CameraPortalAssumption DEF ScanLands, CpCounts
    <3> QED
      BY <2>4, <3>1 DEF OneLoopPerTile
  <2> QED
    BY Zenon, <2>2, <2>3, <2>5, <2>6 DEF CpInv, CpTypeOK, CpCounts
<1>2. ASSUME CpCounts', OneLoopPerTile', UNCHANGED <<shown, listed>>
      PROVE  CpInv'
  BY Zenon, <1>0, <1>2 DEF CpInv, CpTypeOK, CpCounts, Scanned
<1>3. CASE Rescan \/ ScanFails \/ UNCHANGED cpVars
  <2>1. CpCounts' /\ UNCHANGED <<shown, listed, waiting, asking, overtakes>>
    BY <1>0, <1>3, CameraPortalAssumption DEF Rescan, ScanFails, cpVars, CpCounts
  <2> QED
    BY <1>2, <2>1 DEF CpInv, OneLoopPerTile
<1>4. ASSUME NEW t \in Tiles, Refresh(t) PROVE CpInv'
  <2>1. UNCHANGED <<shown, listed, scans, overtakes>>
    BY <1>4 DEF Refresh, Ask, Finish
  <2>2. /\ waiting' \in [Tiles -> Nat] /\ asking' \in [Tiles -> Nat]
        /\ \A u \in Tiles : waiting'[u] + asking'[u] = waiting[u] + asking[u]
    BY <1>0, <1>4 DEF Refresh, Ask, Finish, CpCounts
  <2> QED
    BY <1>0, <1>2, <2>1, <2>2 DEF CpInv, CpCounts, OneLoopPerTile
<1> QED
  BY <1>1, <1>3, <1>4 DEF CpNext

-----------------------------------------------------------------------------
(* The fleet packages: the lock, the staging directory, the node's source    *)
(* and its install, one step after the other.                                *)
FdNats ==
  /\ branch \in [Repos -> Nat] /\ staged \in [Repos -> Nat]
  /\ source \in [Repos -> Nat] /\ built \in [Repos -> Nat]
  /\ \A r \in Repos : branch[r] \in 1..Len(Manifest[r])

FdWords ==
  /\ phase \in {"idle", "collect", "import", "sync", "build", "done"}
  /\ todo \subseteq Repos /\ unbuilt \subseteq Repos

FdLocks ==
  /\ entries \in [Repos -> [sha : Nat, asks : Asks]]
  /\ lock \in [Repos -> [sha : Nat, asks : Asks]]

FdBits == changed \in BOOLEAN /\ halfway \in BOOLEAN

FdTyped == FdNats /\ FdWords /\ FdLocks /\ FdBits

LEMMA FdTypedIsTypeOK == FdTyped => FdTypeOK
BY Zenon DEF FdTyped, FdNats, FdWords, FdLocks, FdBits, FdTypeOK

(* What a play may rely on when the script has not stopped between writing   *)
(* the lock and importing it: the staging holds what the lock says.          *)
StagedAsLocked ==
  /\ phase = "import" => halfway
  /\ ~halfway => \A r \in Locked : staged[r] = lock[r].sha

(* The node has been synced from the staging. *)
SyncedFromStaging == phase \in {"build", "done"} => \A r \in Selected : source[r] = staged[r]

(* An install is of the node's source, but for what waits for a build: what  *)
(* this play's sync changed and what an earlier play failed to build.        *)
BuiltFromSource ==
  /\ changed => phase = "build"
  /\ \A r \in Repos \ unbuilt :
       (changed /\ r \in Selected) \/ built[r] \in {0, source[r]}
  /\ phase = "done" => \A r \in Selected \ unbuilt : built[r] = source[r]

FdInv == FdTyped /\ StagedAsLocked /\ SyncedFromStaging /\ BuiltFromSource

LEMMA FdInitHolds == FdInit => FdInv
<1> SUFFICES ASSUME FdInit PROVE FdInv
  OBVIOUS
<1>1. FdNats
  <2>1. \A r \in Repos : 1 \in 1..Len(Manifest[r])
    BY FleetDeployAssumption
  <2> QED
    BY <2>1 DEF FdInit, FdNats, Zero
<1>2. FdWords /\ FdBits
  BY DEF FdInit, FdWords, FdBits
<1>3. FdLocks
  BY DEF FdInit, FdLocks, Nothing, NoEntry, Asks
<1>4. StagedAsLocked /\ SyncedFromStaging /\ BuiltFromSource
  BY DEF FdInit, StagedAsLocked, SyncedFromStaging, BuiltFromSource, Locked, Nothing, NoEntry, Zero
<1> QED
  BY <1>1, <1>2, <1>3, <1>4 DEF FdInv, FdTyped

LEMMA FdInvIsTheLock == FdInv => NodeRunsTheLock
BY DEF FdInv, StagedAsLocked, SyncedFromStaging, BuiltFromSource, NodeRunsTheLock, Selected

(* What leaves the plays and the staging alone. *)
LEMMA FdNatsStep == FdTyped /\ [FdNext]_fdVars => FdNats'
<1> SUFFICES ASSUME FdTyped, [FdNext]_fdVars PROVE FdNats'
  OBVIOUS
<1> USE DEF FdTyped, FdNats
<1>1. ASSUME NEW r \in Repos, Push(r) PROVE FdNats'
  <2>1. \A q \in Repos : Len(Manifest[q]) \in Nat
    BY FleetDeployAssumption
  <2> QED
    BY <1>1, <2>1 DEF Push, node
<1>2. ASSUME NEW repos \in SUBSET Locked, Import(repos), UNCHANGED <<branch, node>>
      PROVE  FdNats'
  BY <1>2 DEF Import, Locked, FdLocks, node
<1>3. CASE VcsImport \/ VcsImportFails
  BY <1>2, <1>3 DEF VcsImport, VcsImportFails
<1>4. CASE Sync
  BY <1>4 DEF Sync
<1>5. CASE Build \/ BuildFails
  BY <1>5 DEF Build, BuildFails
<1>6. CASE UNCHANGED <<branch, staged, node>>
  BY <1>6 DEF node
<1> QED
  BY <1>1, <1>3, <1>4, <1>5, <1>6
     DEF FdNext, fdVars, StartCollection, StartReuse, FetchManifest, ResolveSha, CollectionDies,
         WriteLock, BuildSkipped, node

LEMMA FdWordsStep == FdTyped /\ [FdNext]_fdVars => FdWords'
BY DEF FdTyped, FdWords, FdNext, fdVars, StartCollection, StartReuse, Push, FetchManifest,
       ResolveSha, CollectionDies, WriteLock, VcsImport, VcsImportFails, Sync, Build, BuildFails,
       BuildSkipped, node, collector, Selected, Locked

LEMMA FdBitsStep == FdTyped /\ [FdNext]_fdVars => FdBits'
BY Zenon DEF FdTyped, FdBits, FdNext, fdVars, StartCollection, StartReuse, Push, FetchManifest,
       ResolveSha, CollectionDies, WriteLock, VcsImport, VcsImportFails, Sync, Build, BuildFails,
       BuildSkipped, node, collector

LEMMA FdLocksStep == FdTyped /\ [FdNext]_fdVars => FdLocks'
<1> SUFFICES ASSUME FdTyped, [FdNext]_fdVars PROVE FdLocks'
  OBVIOUS
<1> USE DEF FdTyped, FdLocks
<1>1. ASSUME NEW r \in Repos, FetchManifest(r) PROVE FdLocks'
  <2>1. Manifest[r][branch[r]] \in Asks
    BY FleetDeployAssumption DEF FdNats
  <2> QED
    BY <1>1, <2>1 DEF FetchManifest
<1>2. ASSUME NEW r \in Repos, ResolveSha(r) PROVE FdLocks'
  BY <1>2 DEF ResolveSha, FdNats
<1>3. Nothing \in [Repos -> [sha : Nat, asks : Asks]]
  BY DEF Nothing, NoEntry, Asks
<1>4. CASE CollectionDies \/ WriteLock
  BY <1>3, <1>4 DEF CollectionDies, WriteLock
<1>5. CASE UNCHANGED <<entries, lock>>
  BY <1>5
<1> QED
  BY <1>1, <1>2, <1>4, <1>5
     DEF FdNext, fdVars, StartCollection, StartReuse, Push, VcsImport, VcsImportFails, Sync,
         Build, BuildFails, BuildSkipped, collector

LEMMA FdTypedStep == FdTyped /\ [FdNext]_fdVars => FdTyped'
BY FdNatsStep, FdWordsStep, FdLocksStep, FdBitsStep DEF FdTyped

LEMMA FdStep == FdInv /\ [FdNext]_fdVars => FdInv'
<1> SUFFICES ASSUME FdInv, [FdNext]_fdVars, FdTyped' PROVE FdInv'
  BY FdTypedStep DEF FdInv
<1>0. /\ staged \in [Repos -> Nat] /\ source \in [Repos -> Nat] /\ built \in [Repos -> Nat]
      /\ unbuilt \subseteq Repos /\ Selected \subseteq Repos /\ Locked \subseteq Repos
  BY DEF FdInv, FdTyped, FdNats, FdWords, Selected, Locked
<1> USE DEF FdInv, StagedAsLocked, SyncedFromStaging, BuiltFromSource
<1>1. CASE WriteLock
  BY <1>1 DEF WriteLock, node
<1>2. CASE VcsImport \/ VcsImportFails
  <2>1. PICK repos \in SUBSET Locked : /\ Import(repos)
                                       /\ (~halfway' => repos = Locked)
    BY <1>2 DEF VcsImport, VcsImportFails
  <2>2. Locked' = Locked /\ lock' = lock
    BY <1>2 DEF VcsImport, VcsImportFails, Locked
  <2>3. StagedAsLocked'
    BY <1>0, <1>2, <2>1, <2>2 DEF VcsImport, VcsImportFails, Import
  <2>4. SyncedFromStaging' /\ BuiltFromSource'
    BY <1>2 DEF VcsImport, VcsImportFails, node
  <2> QED
    BY <2>3, <2>4
<1>3. CASE Sync
  <2>1. PICK repos \in SUBSET {r \in Selected : staged[r] # 0} :
          /\ source' = [r \in Repos |-> IF r \in repos THEN staged[r] ELSE source[r]]
          /\ IF repos = Selected
             THEN phase' = "build" /\ changed' = (source' # source) /\ UNCHANGED unbuilt
             ELSE phase' = "idle" /\ changed' = FALSE /\ unbuilt' = unbuilt \cup repos
    BY <1>3 DEF Sync
  <2>2. phase = "sync" /\ UNCHANGED <<lock, staged, built, halfway>>
    BY <1>3 DEF Sync
  <2>3. Selected' = Selected /\ Locked' = Locked
    BY <2>2 DEF Selected, Locked
  <2>4. StagedAsLocked'
    BY <2>1, <2>2, <2>3
  <2>5. ~changed
    BY <2>2
  <2>6. CASE repos = Selected
    <3>1. phase' = "build" /\ (changed' <=> source' # source) /\ unbuilt' = unbuilt
      BY <2>1, <2>6
    <3>2. SyncedFromStaging'
      BY <1>0, <2>1, <2>2, <2>3, <2>6
    <3>3. BuiltFromSource'
      <4>1. ASSUME NEW r \in Repos \ unbuilt
            PROVE  (changed' /\ r \in Selected) \/ built[r] \in {0, source'[r]}
        <5>1. CASE changed' /\ r \in Selected
          BY <5>1
        <5>2. CASE ~changed'
          BY <2>5, <3>1, <5>2
        <5>3. CASE r \notin Selected
          BY <1>0, <2>1, <2>5, <2>6, <5>3
        <5> QED
          BY <5>1, <5>2, <5>3
      <4> QED
        BY <2>2, <2>3, <3>1, <4>1
    <3> QED
      BY <2>4, <3>2, <3>3
  <2>7. CASE repos # Selected
    BY <1>0, <2>1, <2>2, <2>3, <2>4, <2>5, <2>7
  <2> QED
    BY <2>6, <2>7
<1>4. CASE Build
  <2>1. Selected' = Selected /\ Locked' = Locked
    BY <1>4 DEF Build, Selected, Locked
  <2> QED
    BY <1>0, <1>4, <2>1 DEF Build
<1>5. CASE BuildFails
  <2>1. Selected' = Selected /\ Locked' = Locked
    BY <1>5 DEF BuildFails, Selected, Locked
  <2>2. phase' = "idle" /\ ~changed' /\ unbuilt' = unbuilt \cup Selected
        /\ UNCHANGED <<lock, staged, source, halfway>>
    BY <1>5 DEF BuildFails
  <2>3. \A r \in Repos \ Selected : built'[r] = built[r]
    BY <1>0, <1>5 DEF BuildFails
  <2> QED
    BY <1>0, <2>1, <2>2, <2>3
<1>6. CASE BuildSkipped
  <2>1. /\ Selected' = Selected /\ Locked' = Locked
        /\ phase = "build" /\ phase' = "done"
        /\ UNCHANGED <<lock, staged, source, built, changed, unbuilt, halfway>>
    BY <1>6 DEF BuildSkipped, Selected, Locked, node
  <2>2. ~changed /\ \A r \in Selected : built[r] # 0
    BY <1>6 DEF BuildSkipped, BuildDue
  <2> QED
    BY <1>0, <2>1, <2>2
<1>7. ASSUME UNCHANGED <<lock, staged, node, halfway>>, phase' = phase \/ phase' \in {"idle", "collect", "sync"},
             changed => phase' = phase
      PROVE  FdInv'
  <2>1. Selected' = Selected /\ Locked' = Locked
    BY <1>7 DEF Selected, Locked
  <2> QED
    BY <1>7, <2>1 DEF node
<1>8. CASE StartCollection \/ StartReuse \/ CollectionDies
  <2>1. ~changed
    BY <1>8 DEF StartCollection, StartReuse, CollectionDies
  <2> QED
    BY <1>7, <1>8, <2>1 DEF StartCollection, StartReuse, CollectionDies
<1>9. CASE (\E r \in Repos : Push(r) \/ FetchManifest(r) \/ ResolveSha(r)) \/ UNCHANGED fdVars
  BY <1>7, <1>9 DEF Push, FetchManifest, ResolveSha, fdVars, node
<1> QED
  BY <1>1, <1>2, <1>3, <1>4, <1>5, <1>6, <1>8, <1>9 DEF FdNext

-----------------------------------------------------------------------------
(* Peers and pads keep their types. *)
LEMMA HbInitHolds == HbInit => HbTypeOK
BY HeartbeatAssumption DEF HbInit, HbTypeOK

LEMMA HbStep == HbTypeOK /\ [HbNext]_hbVars => HbTypeOK'
<1> SUFFICES ASSUME HbTypeOK, [HbNext]_hbVars PROVE HbTypeOK'
  OBVIOUS
<1> USE HeartbeatAssumption DEF HbTypeOK
<1>1. CASE Clock
  BY <1>1 DEF Clock
<1>2. CASE Report
  BY <1>2 DEF Report, Fresh
<1>3. ASSUME NEW p \in Peers, StartsOrDies(p) \/ OnHeartbeat(p) PROVE HbTypeOK'
  BY <1>3 DEF StartsOrDies, OnHeartbeat
<1>4. CASE UNCHANGED hbVars
  BY <1>4 DEF hbVars
<1> QED
  BY <1>1, <1>2, <1>3, <1>4 DEF HbNext

PtPads ==
  /\ padOn \in [Teleops -> BOOLEAN] /\ wasActive \in [Teleops -> BOOLEAN]
  /\ pose \in [Teleops -> Poses \cup {AtRest}]
  /\ \A t \in Teleops : inbox[t] \subseteq Poses \cup {AtRest}

PtTwists == cmd \subseteq Twists /\ driven \in Twists

PtInv == PtPads /\ PtTwists /\ orphaned \in BOOLEAN /\ DOMAIN inbox = Teleops

LEMMA PtInvIsTypeOK == PtInv => PtTypeOK
BY Zenon DEF PtInv, PtPads, PtTwists, PtTypeOK

LEMMA TwistsFacts ==
  Stop \in Twists /\ \A t \in Teleops, p \in Poses : TwistOf(t, p) \in Twists
BY DEF Twists

LEMMA PtInitHolds == PtInit => PtInv
<1> SUFFICES ASSUME PtInit PROVE PtInv
  OBVIOUS
<1>1. PtPads /\ DOMAIN inbox = Teleops
  BY DEF PtInit, PtPads
<1>2. PtTwists /\ orphaned \in BOOLEAN
  BY Zenon, TwistsFacts DEF PtInit, PtTwists
<1> QED
  BY <1>1, <1>2 DEF PtInv

LEMMA PtPadsStep == PtInv /\ [PtNext]_ptVars => PtPads' /\ DOMAIN inbox' = Teleops
<1> SUFFICES ASSUME PtInv, [PtNext]_ptVars PROVE PtPads' /\ DOMAIN inbox' = Teleops
  OBVIOUS
<1> USE DEF PtInv, PtPads
<1>1. ASSUME NEW t \in Teleops, Pose(t) \/ PadComesOrGoes(t) \/ Joy(t) \/ TeleopRestarts(t)
      PROVE  PtPads' /\ DOMAIN inbox' = Teleops
  <2>1. CASE Pose(t)
    <3>1. PICK p \in Poses : pose' = [pose EXCEPT ![t] = p]
      BY <2>1 DEF Pose
    <3> QED
      BY <2>1, <3>1 DEF Pose
  <2>2. CASE PadComesOrGoes(t)
    <3>1. padOn' \in [Teleops -> BOOLEAN]
      BY Zenon, <2>2 DEF PadComesOrGoes
    <3> QED
      BY <2>2, <3>1 DEF PadComesOrGoes
  <2>3. CASE Joy(t)
    BY <2>3 DEF Joy
  <2>4. CASE TeleopRestarts(t)
    BY <2>4 DEF TeleopRestarts
  <2> QED
    BY <1>1, <2>1, <2>2, <2>3, <2>4
<1>2. ASSUME NEW t \in Teleops, OnJoy(t) PROVE PtPads' /\ DOMAIN inbox' = Teleops
  <2>1. /\ inbox' = [inbox EXCEPT ![t] = {}] /\ UNCHANGED <<padOn, pose>>
        /\ \/ wasActive' = wasActive
           \/ wasActive' = [wasActive EXCEPT ![t] = TRUE]
           \/ wasActive' = [wasActive EXCEPT ![t] = FALSE]
    BY Zenon, <1>2 DEF OnJoy, OnJoyDriving, OnJoyReleased, OnJoyIdle, Take
  <2> QED
    BY <2>1
<1>3. CASE Drive \/ UNCHANGED ptVars
  BY <1>3 DEF Drive, ptVars
<1> QED
  BY <1>1, <1>2, <1>3 DEF PtNext

LEMMA PtStep == PtInv /\ [PtNext]_ptVars => PtInv'
<1> SUFFICES ASSUME PtInv, [PtNext]_ptVars PROVE PtTwists' /\ orphaned' \in BOOLEAN
  BY PtPadsStep DEF PtInv
<1> USE DEF PtInv, PtTwists
<1>1. CASE Drive
  BY Zenon, <1>1 DEF Drive
<1>2. ASSUME NEW t \in Teleops, Pose(t) \/ PadComesOrGoes(t) \/ Joy(t)
      PROVE  PtTwists' /\ orphaned' \in BOOLEAN
  BY Zenon, <1>2 DEF Pose, PadComesOrGoes, Joy
<1>3. ASSUME NEW t \in Teleops, OnJoy(t) PROVE PtTwists' /\ orphaned' \in BOOLEAN
  BY Zenon, <1>3, TwistsFacts DEF OnJoy, OnJoyDriving, OnJoyReleased, OnJoyIdle
<1>4. ASSUME NEW t \in Teleops, TeleopRestarts(t) PROVE PtTwists' /\ orphaned' \in BOOLEAN
  BY Zenon, <1>4 DEF TeleopRestarts
<1>5. CASE UNCHANGED ptVars
  BY Zenon, <1>5 DEF ptVars
<1> QED
  BY Zenon, <1>1, <1>2, <1>3, <1>4, <1>5 DEF PtNext

-----------------------------------------------------------------------------
(* The joints. *)
Holds(j, a) == a \in Int /\ Low[j] <= a /\ a <= High[j]

(* The targets are in range too, and what the joints were sent, once the     *)
(* node has sent anything.                                                   *)
JtInv ==
  /\ JtTypeOK
  /\ \A j \in Joints : Holds(j, target[j]) /\ Holds(j, angle[j])
  /\ ~first => angle = target

LEMMA ZeroHolds == \A j \in Joints : Holds(j, 0)
<1>1. \A j \in Joints : Low[j] <= 0 /\ 0 <= High[j]
  BY Zenon, JointTeleopAssumption
<1>2. 0 \in Int
  OBVIOUS
<1> QED
  BY Zenon, <1>1, <1>2 DEF Holds

LEMMA ReachIs ==
  ASSUME NEW j \in Joints, NEW a \in -1..1
  PROVE  /\ Reach(j) \in Nat /\ Rate[j] \in Int /\ a * Rate[j] \in Int
         /\ a * Rate[j] <= Reach(j) /\ -Reach(j) <= a * Rate[j]
<1>1. Rate[j] \in Int
  BY JointTeleopAssumption
<1>2. a = -1 \/ a = 0 \/ a = 1
  OBVIOUS
<1>3. CASE a = -1
  BY <1>1, <1>3 DEF Reach
<1>4. CASE a = 0
  BY <1>1, <1>4 DEF Reach
<1>5. CASE a = 1
  BY <1>1, <1>5 DEF Reach
<1> QED
  BY <1>2, <1>3, <1>4, <1>5

(* One tick of rate control stays in range and within the joint's reach. *)
LEMMA IntegrateFacts ==
  ASSUME NEW j \in Joints, joy.axis \in -1..1, Holds(j, target[j])
  PROVE  /\ Holds(j, Integrate(j))
         /\ Integrate(j) - target[j] <= Reach(j)
         /\ target[j] - Integrate(j) <= Reach(j)
<1> DEFINE d == joy.axis * Rate[j]
<1>1. d \in Int /\ Reach(j) \in Nat /\ d <= Reach(j) /\ -Reach(j) <= d
  BY ReachIs
<1>2. Low[j] \in Int /\ High[j] \in Int /\ Low[j] <= High[j]
  BY JointTeleopAssumption
<1>3. Integrate(j) = IF target[j] + d > High[j] THEN High[j]
                     ELSE IF target[j] + d < Low[j] THEN Low[j] ELSE target[j] + d
  BY Zenon DEF Integrate
<1> HIDE DEF d
<1> QED
  BY <1>1, <1>2, <1>3 DEF Holds

LEMMA TickFacts ==
  ASSUME JtInv, Tick
  PROVE  /\ target' \in [Joints -> Int] /\ angle' = target'
         /\ \A j \in Joints : Holds(j, target'[j])
         /\ ~joy.home => \A j \in Joints : /\ target'[j] - target[j] <= Reach(j)
                                           /\ target[j] - target'[j] <= Reach(j)
<1>1. joy.axis \in -1..1
  <2>1. joy \in Grips \cup {Released}
    BY DEF Tick, JtInv, JtTypeOK
  <2> QED
    BY <2>1, JointTeleopAssumption DEF Released
<1>2. target' = [j \in Joints |-> IF joy.home THEN 0 ELSE Integrate(j)] /\ angle' = target'
  BY DEF Tick
<1>4. \A j \in Joints : /\ Holds(j, Integrate(j))
                        /\ Integrate(j) - target[j] <= Reach(j)
                        /\ target[j] - Integrate(j) <= Reach(j)
  BY <1>1, IntegrateFacts DEF JtInv
<1>5. \A j \in Joints : target'[j] = IF joy.home THEN 0 ELSE Integrate(j)
  BY <1>2
<1>6. \A j \in Joints : Holds(j, target'[j])
  BY ZeroHolds, <1>4, <1>5
<1>7. target' \in [Joints -> Int]
  BY <1>2, <1>5, <1>6 DEF Holds
<1> QED
  BY <1>2, <1>4, <1>5, <1>6, <1>7

-----------------------------------------------------------------------------
LEMMA JtInitHolds == JtInit => JtInv
<1> SUFFICES ASSUME JtInit PROVE JtInv
  OBVIOUS
<1>1. Level \in [Joints -> Int] /\ \A j \in Joints : Holds(j, Level[j])
  BY ZeroHolds DEF Level
<1>2. {running, spin, first, orphan} \subseteq BOOLEAN
  BY DEF JtInit
<1>3. target = Level /\ angle = Level
  BY DEF JtInit
<1>4. gripOn \in BOOLEAN /\ grip = Released /\ joy = NoJoy
  BY DEF JtInit
<1> QED
  BY Zenon, <1>1, <1>2, <1>3, <1>4 DEF JtInv, JtTypeOK

LEMMA JtStep == JtInv /\ [JtNext]_jtVars => JtInv'
<1> SUFFICES ASSUME JtInv, [JtNext]_jtVars PROVE JtInv'
  OBVIOUS
<1>1. CASE Tick
  <2>1. {running', spin', first', orphan'} \subseteq BOOLEAN
    BY Zenon, <1>1 DEF Tick, SpinFlywheel, JtInv, JtTypeOK
  <2>2. UNCHANGED <<gripOn, grip, joy>> /\ angle' = target'
    BY <1>1 DEF Tick
  <2> QED
    BY <1>1, <2>1, <2>2, TickFacts DEF JtInv, JtTypeOK
<1>2. CASE NodeRestarts
  <2>1. Level \in [Joints -> Int] /\ \A j \in Joints : Holds(j, Level[j])
    BY ZeroHolds DEF Level
  <2>2. {running', spin', first', orphan'} \subseteq BOOLEAN
    BY <1>2 DEF NodeRestarts, JtInv, JtTypeOK
  <2>3. target' = Level /\ first' /\ joy' = NoJoy /\ UNCHANGED <<gripOn, grip, angle>>
    BY <1>2 DEF NodeRestarts
  <2> QED
    BY <2>1, <2>2, <2>3 DEF JtInv, JtTypeOK, Holds
<1>3. CASE Grip \/ PadLeavesOrReturns \/ OnJoyState
  BY <1>3 DEF Grip, PadLeavesOrReturns, OnJoyState, JtInv, JtTypeOK, Holds
<1>4. CASE UNCHANGED jtVars
  BY <1>4 DEF jtVars, JtInv, JtTypeOK, Holds
<1> QED
  BY <1>1, <1>2, <1>3, <1>4 DEF JtNext

Gentle ==
  first \/ joy.home \/ \A j \in Joints :
    /\ angle'[j] - angle[j] <= Reach(j)
    /\ angle[j] - angle'[j] <= Reach(j)

LEMMA JtGentle == JtInv /\ [JtNext]_jtVars => [Gentle]_jtVars
<1> SUFFICES ASSUME JtInv, [JtNext]_jtVars, ~first, ~joy.home, jtVars' # jtVars
             PROVE  \A j \in Joints : /\ angle'[j] - angle[j] <= Reach(j)
                                      /\ angle[j] - angle'[j] <= Reach(j)
  BY DEF Gentle
<1>1. angle = target /\ angle \in [Joints -> Int]
  BY DEF JtInv, JtTypeOK
<1>2. CASE Tick
  BY <1>1, <1>2, TickFacts
<1>3. CASE angle' = angle
  <2>1. \A j \in Joints : Reach(j) \in Nat
    BY ReachIs
  <2> QED
    BY <1>1, <1>3, <2>1
<1> QED
  BY <1>2, <1>3 DEF JtNext, Grip, PadLeavesOrReturns, OnJoyState, NodeRestarts, jtVars
-----------------------------------------------------------------------------
(* What the liveness properties of these programs rest on in every state.    *)

(* The word the drive gets last is a motion only while some node knows that  *)
(* it is driving, and will say stop on release, or has died doing so.        *)
SomebodyDrives ==
  (IF cmd = {} THEN driven # Stop ELSE cmd # {Stop})
    => orphaned \/ \E t \in Teleops : wasActive[t]

LEMMA SomebodyStep ==
  ASSUME PtInv, SomebodyDrives, [PtNext]_ptVars PROVE SomebodyDrives'
<1> USE DEF SomebodyDrives
<1>0. wasActive \in [Teleops -> BOOLEAN]
  BY DEF PtInv, PtPads
<1>1. CASE Drive
  <2>1. PICK c \in cmd : driven' = c
    BY <1>1 DEF Drive
  <2> QED
    BY <1>1, <2>1 DEF Drive
<1>2. ASSUME NEW t \in Teleops, Pose(t) \/ PadComesOrGoes(t) \/ Joy(t) \/ OnJoyIdle(t)
      PROVE  SomebodyDrives'
  BY <1>2 DEF Pose, PadComesOrGoes, Joy, OnJoyIdle
<1>3. ASSUME NEW t \in Teleops, OnJoyDriving(t) PROVE SomebodyDrives'
  <2>1. wasActive' = [wasActive EXCEPT ![t] = TRUE]
    BY <1>3 DEF OnJoyDriving
  <2> QED
    BY <1>0, <2>1
<1>4. ASSUME NEW t \in Teleops, OnJoyReleased(t) PROVE SomebodyDrives'
  <2>1. cmd' = {Stop}
    BY <1>4 DEF OnJoyReleased
  <2> QED
    BY <2>1
<1>5. ASSUME NEW t \in Teleops, TeleopRestarts(t) PROVE SomebodyDrives'
  <2>1. /\ wasActive' = [wasActive EXCEPT ![t] = FALSE]
        /\ orphaned' = (orphaned \/ wasActive[t])
        /\ UNCHANGED <<cmd, driven>>
    BY Zenon, <1>5 DEF TeleopRestarts
  <2> QED
    BY <1>0, <2>1
<1>6. CASE UNCHANGED ptVars
  BY <1>6 DEF ptVars
<1> QED
  BY <1>1, <1>2, <1>3, <1>4, <1>5, <1>6 DEF PtNext, OnJoy

(* A flywheel spins only while the node knows it does, and will stop it on   *)
(* release, or has been restarted meanwhile.                                 *)
FlywheelIsKnown == (running => spin) /\ (spin => running \/ orphan)

LEMMA FlywheelStep ==
  ASSUME JtInv, FlywheelIsKnown, [JtNext]_jtVars PROVE FlywheelIsKnown'
<1> USE DEF FlywheelIsKnown
<1>0. running \in BOOLEAN /\ spin \in BOOLEAN /\ orphan \in BOOLEAN
  BY Zenon DEF JtInv, JtTypeOK
<1>1. CASE Tick
  BY Zenon, <1>0, <1>1 DEF Tick, SpinFlywheel
<1>2. CASE NodeRestarts
  BY Zenon, <1>0, <1>2 DEF NodeRestarts
<1>3. CASE Grip \/ PadLeavesOrReturns \/ OnJoyState \/ UNCHANGED jtVars
  <2>1. UNCHANGED <<running, spin, orphan>>
    BY <1>3 DEF Grip, PadLeavesOrReturns, OnJoyState, jtVars
  <2> QED
    BY Zenon, <2>1
<1> QED
  BY <1>1, <1>2, <1>3 DEF JtNext

(* No tile freezes, and each scan that overtakes a snapshot leaves it at     *)
(* most one loop more.                                                       *)
TilesHaveLoops == \A t \in Tiles :
  /\ t \in shown => waiting[t] + asking[t] > 0
  /\ waiting[t] + asking[t] <= 1 + MaxOvertakes - overtakes

LEMMA TilesStep ==
  ASSUME CpInv, TilesHaveLoops, [CpNext]_cpVars PROVE TilesHaveLoops'
<1>0. CpCounts
  BY CpTyped DEF CpInv
<1> USE CameraPortalAssumption DEF CpCounts, TilesHaveLoops
<1>1. CASE ScanLands
  <2>1. waiting' = [t \in Tiles |-> IF t \in shown' THEN 1 ELSE 0] /\ asking' = asking
    BY <1>1 DEF ScanLands, StartStreams
  <2>2. \/ overtakes' = overtakes - 1
        \/ overtakes' = overtakes /\ \A t \in Tiles : asking[t] = 0
    BY <1>0, <1>1 DEF ScanLands
  <2> QED
    BY <1>0, <2>1, <2>2
<1>2. ASSUME NEW t \in Tiles, Refresh(t) PROVE TilesHaveLoops'
  <2>1. UNCHANGED <<shown, overtakes>>
    BY <1>2 DEF Refresh, Ask, Finish
  <2>2. \A u \in Tiles : waiting'[u] + asking'[u] = waiting[u] + asking[u]
    <3> HIDE DEF TilesHaveLoops
    <3>1. CASE Ask(t)
      BY <1>0, <3>1 DEF Ask
    <3>2. CASE Finish(t)
      BY <1>0, <3>2 DEF Finish
    <3> QED
      BY <1>2, <3>1, <3>2 DEF Refresh
  <2> QED
    BY <2>1, <2>2
<1>3. CASE Rescan \/ ScanFails \/ UNCHANGED cpVars
  BY <1>3 DEF Rescan, ScanFails, cpVars
<1> QED
  BY <1>1, <1>2, <1>3 DEF CpNext

-----------------------------------------------------------------------------
(* The composition: whoever moves, each program takes one of its own steps   *)
(* or none.                                                                  *)
EdgeInv == IInv /\ PtInv /\ JtInv /\ HbTypeOK /\ ChInv /\ CpInv /\ FdInv

LEMMA EveryPartSteps ==
  [Next]_vars => /\ [JiNext]_jiVars /\ [PtNext]_ptVars /\ [JtNext]_jtVars /\ [HbNext]_hbVars
                 /\ [ChNext]_chVars /\ [CpNext]_cpVars /\ [FdNext]_fdVars
BY Zenon DEF Next, vars, IndexNext, TwistNext, JointsNext, BeatNext, CamerasNext, PortalNext,
             DeployNext, cellVars, siteVars

LEMMA EdgeInvHolds == Spec => []EdgeInv
<1>1. Init => EdgeInv
  BY InitIInv, PtInitHolds, JtInitHolds, HbInitHolds, ChInitHolds, CpInitHolds, FdInitHolds
     DEF Init, EdgeInv
<1>2. EdgeInv /\ [Next]_vars => EdgeInv'
  BY EveryPartSteps, StepIInv, PtStep, JtStep, HbStep, ChStep, CpStep, FdStep DEF EdgeInv
<1> QED
  BY <1>1, <1>2, PTL DEF Spec

(* The types of every program hold, the index file's lock included, and not  *)
(* only those of the one that moves.                                         *)
THEOREM TypeCorrect == Spec => []TypeOK
<1>1. EdgeInv => TypeOK
  BY Zenon, PtInvIsTypeOK, FdTypedIsTypeOK DEF EdgeInv, TypeOK, IInv, JtInv, ChInv, CpInv, FdInv
<1> QED
  BY <1>1, EdgeInvHolds, PTL

(* joy-publish.sh keeps index.map sound and its indices stable, and each of   *)
(* its instances on its own topic: the index file's theorems hold here too.  *)
THEOREM IndexKeptHere == Spec => [](OneLinePerPad /\ OwnTopic) /\ StableIndices
<1>1. Init => JiInit
  BY DEF Init
<1>2. [Next]_vars => [JiNext]_jiVars
  BY EveryPartSteps
<1>3. Spec => JiSpec
  BY <1>1, <1>2, PTL DEF Spec, JiSpec
<1> QED
  BY <1>3, IndexFileIsSound, InstancesKeepTheirTopic, IndicesAreStable, PTL

(* However long an axis is held and however stale the message acted on, no   *)
(* joint is sent beyond its range.                                           *)
THEOREM JointsInRangeAlways == Spec => []JointsInRange
<1>1. EdgeInv => JointsInRange
  BY DEF EdgeInv, JtInv, Holds, JointsInRange
<1> QED
  BY <1>1, EdgeInvHolds, PTL

(* Unless homed or just restarted, no command moves a joint by more than one *)
(* tick's worth.                                                             *)
THEOREM JointsNeverSnapEver == Spec => JointsNeverSnap
<1>1. EdgeInv /\ [Next]_vars => [Gentle]_jtVars
  BY EveryPartSteps, JtGentle DEF EdgeInv
<1> QED
  BY <1>1, EdgeInvHolds, PTL DEF Spec, JointsNeverSnap, Gentle

(* camera-watchdog.sh never takes down a camera that publishes from the      *)
(* timer on, whatever the HTTP server and other troubles do meanwhile.       *)
THEOREM HealthyCameraKeptEver == Spec => HealthyCameraKept
<1>1. EdgeInv /\ [Next]_vars => [steady /\ feed' # feed => troubles' < troubles]_chVars
  BY EveryPartSteps, ChKeeps DEF EdgeInv
<1> QED
  BY <1>1, EdgeInvHolds, PTL DEF Spec, HealthyCameraKept

(* The page of camera-portal.py never runs two loops for a tile nor one for  *)
(* a camera that is gone, unless a scan overtakes a snapshot.                *)
THEOREM OneLoopPerTileAlways == Spec => []OneLoopPerTile
<1>1. EdgeInv => OneLoopPerTile
  BY DEF EdgeInv, CpInv
<1> QED
  BY <1>1, EdgeInvHolds, PTL

(* For every inventory and every set of topics on the domain, a scanned host *)
(* with declared cameras has exactly one tile for each of them: the topic    *)
(* the role corrects, or the raw one where only the sensor implies the swap. *)
THEOREM OneTilePerCameraAlways == Spec => []OneTilePerCamera
<1>1. EdgeInv => OneTilePerCamera
  BY ScannedShowsEach DEF EdgeInv, CpInv
<1> QED
  BY <1>1, EdgeInvHolds, PTL

(* A node whose play is done runs what the lock says, whatever was pushed,   *)
(* failed or was interrupted before, but for the two ways the code leaves.   *)
THEOREM NodeRunsTheLockAlways == Spec => []NodeRunsTheLock
<1>1. EdgeInv => NodeRunsTheLock
  BY FdInvIsTheLock DEF EdgeInv
<1> QED
  BY <1>1, EdgeInvHolds, PTL

Attended == SomebodyDrives /\ FlywheelIsKnown /\ TilesHaveLoops

LEMMA AttendedHolds == Spec => []Attended
<1>1. Init => Attended
  BY CameraPortalAssumption
     DEF Init, PtInit, JtInit, CpInit, Attended, SomebodyDrives, FlywheelIsKnown, TilesHaveLoops
<1>2. EdgeInv /\ Attended /\ [Next]_vars => Attended'
  BY EveryPartSteps, SomebodyStep, FlywheelStep, TilesStep DEF EdgeInv, Attended
<1> QED
  BY EdgeInvHolds, <1>1, <1>2, PTL DEF Spec

(* A drive that follows joy_to_twist, which has no timeout, is not left in   *)
(* motion with no node to stop it, however pads and nodes come and go: but   *)
(* for a node that died in mid-command, until the next Twist.                *)
THEOREM SomebodyDrivesAlways == Spec => []SomebodyDrives
<1>1. Attended => SomebodyDrives
  BY DEF Attended
<1> QED
  BY <1>1, AttendedHolds, PTL

(* joy_to_joints knows of every spinning flywheel, so that the one zero it   *)
(* sends on release is sent; except for what a restart forgets.              *)
THEOREM FlywheelIsKnownAlways == Spec => []FlywheelIsKnown
<1>1. Attended => FlywheelIsKnown
  BY DEF Attended
<1> QED
  BY <1>1, AttendedHolds, PTL

(* Whatever scans land, fail or overtake a snapshot, every tile of the page  *)
(* is refreshed by some loop, and by no more than one for each overtaking    *)
(* scan besides its own.                                                     *)
THEOREM TilesHaveLoopsAlways == Spec => []TilesHaveLoops
<1>1. Attended => TilesHaveLoops
  BY DEF Attended
<1> QED
  BY <1>1, AttendedHolds, PTL
=============================================================================
