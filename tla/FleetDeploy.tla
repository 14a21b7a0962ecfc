----------------------------- MODULE FleetDeploy -----------------------------
(***************************************************************************)
(* collect_fleet_packages.py and roles/fleet_packages: the control machine  *)
(* locks the versions of the repositories that carry the topic and stages   *)
(* them; the play brings a node what the lock says.  A repository has one   *)
(* package; a version stands for a commit, 0 for none.                      *)
(***************************************************************************)
EXTENDS Naturals, Sequences

CONSTANTS
  Repos,    \* repositories of the organisation
  Manifest  \* Manifest[r][v]: what fleet.yaml of version v asks for

Asks == {"absent", "invalid", "here", "elsewhere"}

ASSUME FleetDeployAssumption ==
  \A r \in Repos : Manifest[r] \in Seq(Asks) /\ Manifest[r] # <<>>

VARIABLES
  branch,   \* the version each default branch is at
  phase,    \* how far it is
  todo,     \* repositories the collection has yet to look at
  entries,  \* the lock it builds: [sha, asks] of each repository, a sha of 0
            \* between the two requests
  lock,     \* packages.lock.yml
  staged,   \* the version of each clone in the staging directory
  source,   \* the version in the node's workspace
  built,    \* the version its install was built from
  changed,  \* fleet_sync is changed
  halfway,  \* history: the script last stopped with a lock it had not imported
  unbuilt   \* history: packages of a play that failed before their build

fdVars == <<branch, phase, todo, entries, lock, staged, source, built,
            changed, halfway, unbuilt>>

collector == <<todo, entries>>
node == <<source, built, changed, unbuilt>>

NoEntry == [sha |-> 0, asks |-> "absent"]
Nothing == [r \in Repos |-> NoEntry]
Zero == [r \in Repos |-> 0]

Locked == {r \in Repos : lock[r].sha # 0}

(* Packages whose groups take in this node. *)
Selected == {r \in Locked : lock[r].asks = "here"}

FdInit ==
  /\ branch \in [Repos -> {1}]
  /\ phase = "idle"
  /\ todo = {} /\ entries = Nothing
  /\ lock = Nothing /\ staged = Zero /\ source = Zero /\ built = Zero
  /\ changed = FALSE /\ halfway = FALSE /\ unbuilt = {}

(* Somebody pushes to a default branch, at any time. *)
Push(r) ==
  /\ branch[r] < Len(Manifest[r])
  /\ branch' = [branch EXCEPT ![r] = @ + 1]
  /\ UNCHANGED <<phase, collector, lock, staged, node, halfway>>

-----------------------------------------------------------------------------
(* The collection, by the play or by hand.  The topic may be set and taken  *)
(* away between two of them.                                                *)
StartCollection ==
  /\ phase \in {"idle", "done"} /\ phase' = "collect"
  /\ todo' \in SUBSET Repos
  /\ UNCHANGED <<branch, entries, lock, staged, node, halfway>>

(* -e fleet_collect=false *)
StartReuse ==
  /\ phase \in {"idle", "done"} /\ phase' = "sync"
  /\ UNCHANGED <<branch, collector, lock, staged, node, halfway>>

Fetching == \E r \in Repos : entries[r].asks # "absent" /\ entries[r].sha = 0

(* fetch_manifest; a repository without one is skipped. *)
FetchManifest(r) ==
  /\ phase = "collect" /\ r \in todo /\ ~Fetching
  /\ todo' = todo \ {r}
  /\ entries' = [entries EXCEPT ![r].asks = Manifest[r][branch[r]]]
  /\ UNCHANGED <<branch, phase, lock, staged, node, halfway>>

(* resolve_sha, of what the branch is by now; validate_manifest. *)
ResolveSha(r) ==
  /\ phase = "collect"
  /\ entries[r].sha = 0 /\ entries[r].asks \in {"here", "elsewhere"}
  /\ entries' = [entries EXCEPT ![r].sha = branch[r]]
  /\ UNCHANGED <<branch, phase, todo, lock, staged, node, halfway>>

(* An invalid manifest, GitHub or the network: nothing has been written.    *)
CollectionDies ==
  /\ phase = "collect" /\ phase' = "idle"
  /\ todo' = {} /\ entries' = Nothing
  /\ UNCHANGED <<branch, lock, staged, node, halfway>>

(* write_repos_file, write_lockfile. *)
WriteLock ==
  /\ phase = "collect" /\ todo = {} /\ ~Fetching
  /\ lock' = entries /\ entries' = Nothing
  /\ halfway' = TRUE
  /\ phase' = "import"
  /\ UNCHANGED <<branch, todo, staged, node>>

Import(repos) == staged' = [r \in Repos |-> IF r \in repos THEN lock[r].sha ELSE staged[r]]

(* vcs_import: the script exits with 0, and the play goes on.  The script by*)
(* hand is a play that then reaches no node.                                *)
VcsImport ==
  /\ phase = "import"
  /\ Import(Locked)
  /\ halfway' = FALSE
  /\ phase' = "sync"
  /\ UNCHANGED <<branch, collector, lock, node>>

(* Mutant of VcsImportFails: no check=True. *)
VcsImportFailsUnseen ==
  /\ phase = "import"
  /\ \E repos \in SUBSET Locked : repos # Locked /\ Import(repos)
  /\ halfway' = FALSE
  /\ phase' = "sync"
  /\ UNCHANGED <<branch, collector, lock, node>>

(* Some clone fails, and the play ends there; or --dry-run clones nothing. *)
VcsImportFails ==
  /\ phase = "import"
  /\ \E repos \in SUBSET Locked : repos # Locked /\ Import(repos)
  /\ phase' = "idle"
  /\ UNCHANGED <<branch, collector, lock, node, halfway>>

-----------------------------------------------------------------------------
(* The role.  Items of the loop that fail do not keep the others from being *)
(* synced; then the node is out of the play.                                *)
Sync ==
  /\ phase = "sync"
  /\ \E repos \in SUBSET {r \in Selected : staged[r] # 0} :
       /\ source' = [r \in Repos |-> IF r \in repos THEN staged[r] ELSE source[r]]
       /\ IF repos = Selected
          THEN phase' = "build" /\ changed' = (source' # source) /\ UNCHANGED unbuilt
          ELSE phase' = "idle" /\ changed' = FALSE /\ unbuilt' = unbuilt \cup repos
  /\ UNCHANGED <<branch, collector, lock, staged, built, halfway>>

(* Mutant of BuildDue: only what is not installed is built. *)
NotInstalled == \E r \in Selected : built[r] = 0

(* Something came with this play's sync, or is not installed. *)
BuildDue == changed \/ \E r \in Selected : built[r] = 0

Build ==
  /\ phase = "build" /\ BuildDue
  /\ built' = [r \in Repos |-> IF r \in Selected THEN source[r] ELSE built[r]]
  /\ unbuilt' = unbuilt \ Selected
  /\ phase' = "done" /\ changed' = FALSE
  /\ UNCHANGED <<branch, collector, lock, staged, source, halfway>>

(* rosdep fails, or colcon, after some packages were installed. *)
BuildFails ==
  /\ phase = "build" /\ BuildDue
  /\ \E repos \in SUBSET Selected :
       built' = [r \in Repos |-> IF r \in repos THEN source[r] ELSE built[r]]
  /\ unbuilt' = unbuilt \cup Selected
  /\ phase' = "idle" /\ changed' = FALSE
  /\ UNCHANGED <<branch, collector, lock, staged, source, halfway>>

BuildSkipped ==
  /\ phase = "build" /\ ~BuildDue
  /\ phase' = "done"
  /\ UNCHANGED <<branch, collector, lock, staged, node, halfway>>

FdNext ==
  \/ StartCollection \/ StartReuse
  \/ \E r \in Repos : Push(r) \/ FetchManifest(r) \/ ResolveSha(r)
  \/ CollectionDies \/ WriteLock \/ VcsImport \/ VcsImportFails
  \/ Sync \/ Build \/ BuildFails \/ BuildSkipped

-----------------------------------------------------------------------------
FdTypeOK ==
  /\ {branch, staged, source, built} \subseteq [Repos -> Nat]
  /\ phase \in {"idle", "collect", "import", "sync", "build", "done"}
  /\ todo \subseteq Repos /\ unbuilt \subseteq Repos
  /\ {entries, lock} \subseteq [Repos -> [sha : Nat, asks : Asks]]
  /\ changed \in BOOLEAN /\ halfway \in BOOLEAN

(* `The auditable record of what the fleet deploys': when a play is done,   *)
(* the node has the source of every package the lock gives it at the locked *)
(* version, and runs that version, whatever was pushed, failed or was       *)
(* interrupted before.  Two ways to get past it are left out: a lock whose  *)
(* import failed or was not asked for, reused; and a build that failed in   *)
(* an earlier play, which a later one without changes does not repeat.      *)
NodeRunsTheLock ==
  phase = "done" /\ ~halfway =>
    \A r \in Selected :
      /\ source[r] = lock[r].sha
      /\ r \notin unbuilt => built[r] = lock[r].sha
=============================================================================
