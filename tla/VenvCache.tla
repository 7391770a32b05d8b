----------------------------- MODULE VenvCache ------------------------------
(***************************************************************************)
(* The virtual environment that the isolated plugins of one package share: *)
(* a directory, one metadata file per plugin that says what it was built   *)
(* for, and the registry of its owners.  A host brings its plugins up one  *)
(* after the other, replaces workers that die, and shuts the plugins down, *)
(* which waits for no respawn under way; it may crash between any two      *)
(* steps.  A write truncates its file first.                               *)
(*                                                                         *)
(* What a plugin declares is its requirements, 0 for no file, and its      *)
(* manifest; installing puts the requirements it read into the directory.  *)
(***************************************************************************)
EXTENDS Integers

CONSTANTS
  Plugin,     \* the plugins of the package
  Declared,   \* what a plugin may declare: records of req and manifest
  MaxEdits,   \* changes that somebody makes on disk
  MaxFaults   \* steps that fail, and crashes

ASSUME EnvAssumption == Declared \subseteq [req : Nat, manifest : Nat \ {0}]

VARIABLES
  declared,   \* declared[p]: the requirements file and the manifest of p
  venv,       \* the directory: what is installed in it for each plugin
  metadata,   \* metadata[p]: CacheMetadata, or NoMetadata
  owners,     \* owners.json; absent, truncated and empty read alike
  manager,    \* "down", "starting", "up", "stopping"
  todo,       \* the plugins the manager has still to bring up or to shut down
  step,       \* step[p]: where p's ensure() or launch is
  outcome,    \* outcome[p]: EnsureOutcome
  read,       \* read[p]: the requirements p has read
  draft,      \* draft[p]: what p is about to write: owners, or one CacheMetadata
  release,    \* the release_owner that is about to write: by whom, and who is left
  child,      \* child[p]: "none", "running", "dead"
  edits, faults,
  stale,      \* history: plugins whose metadata may not tell what is installed
  built,      \* history: what p declared when ensure() last built or updated for it
  ended       \* history: how the manager last came down, or does: "shutdown",
              \* "unreleased" (a write failed), "overtaken" (by a respawn), "rollback", "crash"

files == <<declared, venv, metadata, owners>>

progress == <<manager, todo, step, outcome, read, draft, release, child>>

bounds == <<edits, faults>>

history == <<stale, built, ended>>

envVars == <<files, progress, bounds, history>>

\* No file, or one that cannot be read.
NoMetadata == [req |-> -1, manifest |-> -1]

NoVenv == [exists |-> FALSE]

\* A directory that python3 -m venv has just made.
Fresh == [exists |-> TRUE, installed |-> [p \in Plugin |-> 0]]

\* Metadata of an older release, without the manifest's signals.
NoSignal == 0

EnvInit ==
  /\ declared \in [Plugin -> {d \in Declared : d.req # 2 /\ d.manifest = 1}]
  /\ \/ venv = NoVenv /\ metadata = [p \in Plugin |-> NoMetadata] /\ built = [p \in Plugin |-> NoMetadata]
     \/ \E p \in Plugin :
          /\ venv = [Fresh EXCEPT !.installed[p] = declared[p].req]
          /\ metadata = [q \in Plugin |->
               IF q = p THEN [declared[p] EXCEPT !.manifest = NoSignal] ELSE NoMetadata]
          /\ built = [q \in Plugin |-> IF q = p THEN declared[p] ELSE NoMetadata]
  /\ owners = {}
  /\ manager = "down"
  /\ todo = {}
  /\ step = [p \in Plugin |-> "idle"]
  /\ outcome = [p \in Plugin |-> "Reused"]
  /\ read = [p \in Plugin |-> 0]
  /\ draft = [p \in Plugin |-> {}]
  /\ release = {}
  /\ child = [p \in Plugin |-> "none"]
  /\ edits = 0 /\ faults = 0
  /\ stale = {} /\ ended = "never"
-----------------------------------------------------------------------------
(* VenvManager::ensure, one action per await *)

Quiet == \A p \in Plugin : step[p] = "idle"

\* No shutdown of this host has met a respawn.
Orderly == manager \in {"starting", "up"} \/ ended # "overtaken"

\* ensure() and launch_worker have returned.
Done(p) ==
  /\ step' = [step EXCEPT ![p] = "idle"]
  /\ outcome' = [outcome EXCEPT ![p] = "Reused"]
  /\ read' = [read EXCEPT ![p] = 0]
  /\ draft' = [draft EXCEPT ![p] = {}]

GoesTo(p, to) == step' = [step EXCEPT ![p] = to]

\* evaluate_cache: a signal that the metadata does not have is skipped.
Valid(p) ==
  /\ venv.exists
  /\ metadata[p].req = declared[p].req
  /\ metadata[p].manifest \in {NoSignal, declared[p].manifest}

HasOtherOwner(p) == owners \ {p} # {}

\* Fault: ensure() returns on a hit before it claims the environment.
ReusesUnclaimed(p) ==
  /\ Valid(p)
  /\ outcome' = [outcome EXCEPT ![p] = "Reused"]
  /\ read' = [read EXCEPT ![p] = declared[p].req]
  /\ GoesTo(p, "ready")
  /\ UNCHANGED <<stale, built>>

\* The cache is valid: ensure() only claims the environment.
Reuses(p) ==
  /\ Valid(p)
  /\ outcome' = [outcome EXCEPT ![p] = "Reused"]
  /\ read' = [read EXCEPT ![p] = declared[p].req]
  /\ GoesTo(p, "claim")
  /\ UNCHANGED <<stale, built>>

\* It is not: a directory with other owners is updated in place.
Rebuilds(p) ==
  /\ ~Valid(p)
  /\ outcome' = [outcome EXCEPT ![p] =
       IF HasOtherOwner(p) /\ venv.exists THEN "SharedUpdate" ELSE "Built"]
  /\ GoesTo(p, "prepare")
  /\ stale' = stale \cup {p}
  /\ built' = [built EXCEPT ![p] = NoMetadata]
  /\ UNCHANGED read

Ensure(p) ==
  /\ step[p] = "ensure"
  /\ Reuses(p) \/ Rebuilds(p)
  /\ UNCHANGED <<files, manager, todo, draft, release, child, bounds, ended>>

\* prepare_directories removes the directory unless it is shared.
PrepareDirectories(p) ==
  /\ step[p] = "prepare"
  /\ IF outcome[p] = "SharedUpdate"
     THEN GoesTo(p, "install") /\ UNCHANGED <<venv, stale>>
     ELSE /\ GoesTo(p, "create")
          /\ venv' = NoVenv
          /\ stale' = IF venv.exists THEN Plugin ELSE stale
  /\ UNCHANGED <<declared, metadata, owners, manager, todo, outcome, read, draft, release, child, bounds,
                 built, ended>>

\* create_venv keeps what it finds.
CreateVenv(p) ==
  /\ step[p] = "create"
  /\ venv' = IF venv.exists THEN venv ELSE Fresh
  /\ GoesTo(p, "install")
  /\ UNCHANGED <<declared, metadata, owners, manager, todo, outcome, read, draft, release, child, bounds,
                 history>>

\* install_requirements starts pip, or finds no requirements file.
StartsPip(p) ==
  /\ step[p] = "install"
  /\ read' = [read EXCEPT ![p] = declared[p].req]
  /\ IF declared[p].req = 0
     THEN GoesTo(p, "claim") /\ UNCHANGED venv
     ELSE venv.exists /\ GoesTo(p, "installing") /\ venv' = [venv EXCEPT !.installed[p] = 0]
  /\ UNCHANGED <<declared, metadata, owners, manager, todo, outcome, draft, release, child, bounds, history>>

PipEnds(p) ==
  /\ step[p] = "installing"
  /\ venv.exists
  /\ venv' = [venv EXCEPT !.installed[p] = read[p]]
  /\ GoesTo(p, "claim")
  /\ UNCHANGED <<declared, metadata, owners, manager, todo, outcome, read, draft, release, child, bounds,
                 history>>

AfterClaim(p) == IF outcome[p] = "Reused" THEN "ready" ELSE "save"

\* register_owner reads the registry; when p is new in it, the write truncates it.
RegisterOwner(p) ==
  /\ step[p] = "claim"
  /\ IF p \in owners
     THEN GoesTo(p, AfterClaim(p)) /\ UNCHANGED <<owners, draft>>
     ELSE /\ draft' = [draft EXCEPT ![p] = owners \cup {p}]
          /\ owners' = {}
          /\ GoesTo(p, "claiming")
  /\ UNCHANGED <<declared, venv, metadata, manager, todo, outcome, read, release, child, bounds, history>>

OwnersWritten(p) ==
  /\ step[p] = "claiming"
  /\ owners' = draft[p]
  /\ draft' = [draft EXCEPT ![p] = {}]
  /\ GoesTo(p, AfterClaim(p))
  /\ UNCHANGED <<declared, venv, metadata, manager, todo, outcome, read, release, child, bounds, history>>

\* save_metadata hashes the files as they are by now.
SaveMetadata(p) ==
  /\ step[p] = "save"
  /\ draft' = [draft EXCEPT ![p] = {declared[p]}]
  /\ metadata' = [metadata EXCEPT ![p] = NoMetadata]
  /\ GoesTo(p, "saving")
  /\ UNCHANGED <<declared, venv, owners, manager, todo, outcome, read, release, child, bounds, history>>

\* The file is named for the plugin's class.
Writes(p, m) == metadata' = [metadata EXCEPT ![p] = m]

MetadataWritten(p) ==
  /\ step[p] = "saving"
  /\ \E m \in draft[p] :
       /\ Writes(p, m)
       /\ built' = [built EXCEPT ![p] = m]
       /\ stale' = IF Orderly /\ m.req = read[p] THEN stale \ {p} ELSE stale
  /\ draft' = [draft EXCEPT ![p] = {}]
  /\ GoesTo(p, "ready")
  /\ UNCHANGED <<declared, venv, owners, manager, todo, outcome, read, release, child, bounds, ended>>

\* launch_worker goes on: the script is found, the process starts and the
\* handshake succeeds.
Launch(p) ==
  /\ step[p] = "ready"
  /\ venv.exists
  /\ child' = [child EXCEPT ![p] = "running"]
  /\ todo' = IF manager = "starting" THEN todo \ {p} ELSE todo
  /\ Done(p)
  /\ UNCHANGED <<files, manager, release, bounds, history>>
-----------------------------------------------------------------------------
(* Steps that fail *)

Emptied == IF venv.exists THEN {Fresh} ELSE {}

\* What is left of the directory when p's step stops half way.
LeftBy(p) ==
  CASE step[p] = "prepare" /\ outcome[p] = "Built" -> {venv} \cup Emptied
    [] step[p] = "create" -> {NoVenv, Fresh}
    [] OTHER -> {venv}

StaleWith(dir) == IF dir = venv THEN stale ELSE Plugin

\* Fault: what pip reports is not looked at.
FailsUnlessPip(p) ==
  IF step[p] = "installing"
  THEN GoesTo(p, "claim") /\ UNCHANGED <<manager, todo, outcome, read, draft, ended>>
  ELSE /\ Done(p)
       /\ IF manager = "starting"
          THEN manager' = "stopping" /\ todo' = (Plugin \ todo) \ {p} /\ ended' = "rollback"
          ELSE UNCHANGED <<manager, todo, ended>>

\* An error from initialize() rolls the plugins initialised before back; from
\* a respawn it fails the invocation.
Fails(p) ==
  /\ Done(p)
  /\ IF manager = "starting"
     THEN manager' = "stopping" /\ todo' = (Plugin \ todo) \ {p} /\ ended' = "rollback"
     ELSE UNCHANGED <<manager, todo, ended>>

\* There is nothing to install into, or to launch from.
Doomed(p) == ~venv.exists /\ step[p] \in {"install", "installing", "ready"}

EnsureFails(p) ==
  /\ step[p] \notin {"idle", "ensure"}
  /\ \/ Doomed(p) /\ UNCHANGED faults
     \/ faults < MaxFaults /\ faults' = faults + 1
  /\ Fails(p)
  /\ venv' \in LeftBy(p)
  /\ stale' = StaleWith(venv')
  /\ UNCHANGED <<declared, metadata, owners, release, child, edits, built>>

\* The host's process ends, and with it pip and the workers.
HostEnds ==
  /\ todo' = {}
  /\ step' = [p \in Plugin |-> "idle"]
  /\ outcome' = [p \in Plugin |-> "Reused"]
  /\ read' = [p \in Plugin |-> 0]
  /\ draft' = [p \in Plugin |-> {}]
  /\ release' = {}
  /\ child' = [p \in Plugin |-> "none"]
  /\ venv' \in UNION {LeftBy(p) : p \in Plugin}
  /\ stale' = StaleWith(venv')
  /\ UNCHANGED <<declared, metadata, owners, edits, built>>

Crash ==
  /\ faults < MaxFaults
  /\ faults' = faults + 1
  /\ manager # "down"
  /\ manager' = "down"
  /\ ended' = "crash"
  /\ HostEnds

\* Nothing of a host is left.
Over == Quiet /\ \A p \in Plugin : child[p] = "none"

\* A host that has been shut down exits, whatever it has under way.
Exits ==
  /\ manager = "down"
  /\ ~Over
  /\ HostEnds
  /\ UNCHANGED <<manager, faults, ended>>
-----------------------------------------------------------------------------
(* The manager *)

Start ==
  /\ manager = "down"
  /\ Over
  /\ manager' = "starting"
  /\ todo' = Plugin
  /\ UNCHANGED <<files, step, outcome, read, draft, release, child, bounds, history>>

\* initialize() of one plugin after the other.
InitializePlugin(p) ==
  /\ manager = "starting"
  /\ Quiet
  /\ p \in todo
  /\ GoesTo(p, "ensure")
  /\ UNCHANGED <<files, manager, todo, outcome, read, draft, release, child, bounds, history>>

Started ==
  /\ manager = "starting"
  /\ todo = {}
  /\ manager' = "up"
  /\ UNCHANGED <<files, todo, step, outcome, read, draft, release, child, bounds, history>>

\* Invocations are under way.
InService == manager = "up" \/ (manager = "stopping" /\ ended # "rollback")

ChildDies(p) ==
  /\ child[p] = "running"
  /\ InService
  /\ child' = [child EXCEPT ![p] = "dead"]
  /\ UNCHANGED <<files, manager, todo, step, outcome, read, draft, release, bounds, history>>

\* From here on what becomes of the environment is not followed.
Overtaken == ended' = "overtaken" /\ stale' = Plugin

\* respawn_worker: plugins are invoked, and respawned, at the same time.
RespawnsDead(p) ==
  /\ InService
  /\ child[p] = "dead"
  /\ step[p] = "idle"
  /\ child' = [child EXCEPT ![p] = "none"]
  /\ GoesTo(p, "ensure")
  /\ IF manager = "up" THEN UNCHANGED <<stale, ended>> ELSE Overtaken
  /\ UNCHANGED <<files, manager, todo, outcome, read, draft, release, bounds, built>>

\* PluginManager::shutdown waits for the tracked tasks, not for respawns.
ShutdownAll ==
  /\ manager = "up"
  /\ manager' = "stopping"
  /\ todo' = Plugin
  /\ IF Quiet THEN ended' = "shutdown" /\ UNCHANGED stale ELSE Overtaken
  /\ UNCHANGED <<files, step, outcome, read, draft, release, child, bounds, built>>

\* release_owner: the last owner removes the file, another one rewrites it.
Releases(p) ==
  IF p \notin owners \/ owners = {p}
  THEN /\ owners' = owners \ {p}
       /\ todo' = todo \ {p}
       /\ UNCHANGED release
  ELSE /\ owners' = {}
       /\ release' = {[by |-> p, left |-> owners \ {p}]}
       /\ UNCHANGED todo

\* shutdown() of one plugin after the other stops its worker and releases its claim.
ShutdownPlugin(p) ==
  /\ manager = "stopping"
  /\ release = {}
  /\ p \in todo
  /\ Releases(p)
  /\ child' = [child EXCEPT ![p] = "none"]
  /\ UNCHANGED <<declared, venv, metadata, manager, step, outcome, read, draft, bounds, history>>

\* The registry is written, or not: shutdown() goes on either way.
Released ==
  \E r \in release :
    /\ \/ owners' = r.left /\ UNCHANGED <<faults, ended>>
       \/ /\ faults < MaxFaults /\ faults' = faults + 1
          /\ ended' = IF ended = "shutdown" THEN "unreleased" ELSE ended
          /\ UNCHANGED owners
    /\ todo' = todo \ {r.by}
    /\ release' = {}
    /\ UNCHANGED <<declared, venv, metadata, manager, step, outcome, read, draft, child, edits, stale,
                   built>>

Stopped ==
  /\ manager = "stopping"
  /\ todo = {}
  /\ release = {}
  /\ manager' = "down"
  /\ UNCHANGED <<files, todo, step, outcome, read, draft, release, child, bounds, history>>
-----------------------------------------------------------------------------
(* Somebody changes a plugin's files or removes the directory of a host that is down. *)

Edit(p) ==
  /\ edits < MaxEdits
  /\ edits' = edits + 1
  /\ \E d \in Declared \ {declared[p]} : declared' = [declared EXCEPT ![p] = d]
  /\ UNCHANGED <<venv, metadata, owners, progress, faults, history>>

RemovesVenv ==
  /\ edits < MaxEdits
  /\ edits' = edits + 1
  /\ manager = "down" /\ Over
  /\ venv.exists
  /\ venv' = NoVenv
  /\ stale' = Plugin
  /\ UNCHANGED <<declared, metadata, owners, progress, faults, built, ended>>
-----------------------------------------------------------------------------
EnvNext ==
  \/ Start \/ Started \/ ShutdownAll \/ Released \/ Stopped \/ Crash \/ Exits \/ RemovesVenv
  \/ \E p \in Plugin :
       \/ InitializePlugin(p) \/ ChildDies(p) \/ RespawnsDead(p)
       \/ Ensure(p) \/ PrepareDirectories(p) \/ CreateVenv(p) \/ StartsPip(p) \/ PipEnds(p)
       \/ RegisterOwner(p) \/ OwnersWritten(p) \/ SaveMetadata(p) \/ MetadataWritten(p)
       \/ Launch(p) \/ EnsureFails(p) \/ ShutdownPlugin(p) \/ Edit(p)

EnvSpec == EnvInit /\ [][EnvNext]_envVars
-----------------------------------------------------------------------------
\* The directory is never removed while a worker runs out of it, whichever
\* plugins of the package are being rebuilt, respawned or rolled back
\* (venv.rs 505-522, 646-675), until a shutdown meets a respawn.
RunningVenvKept == Orderly => \A p \in Plugin : child[p] = "running" => venv.exists

\* A plugin that ensure() has passed has the requirements it read installed
\* (venv.rs 537-556, 723-812): no failed, timed-out or skipped install counts.
\* Exempt are the plugins whose metadata outlived what it tells: the directory
\* was removed, a build of theirs did not complete, their files changed under the
\* build or a shutdown met a respawn, and they have not been built for since.
ReadyIsInstalled ==
  \A p \in Plugin :
    step[p] = "ready" /\ p \notin stale /\ read[p] # 0 => venv.installed[p] = read[p]

\* ensure() builds for a plugin only if there is no directory, or its files are
\* not those it was last built for, or that build did not complete: neither the
\* builds of other plugins nor metadata of an older release make it build
\* (venv.rs 207-245, 337-350).
NoThrash ==
  [][\A p \in Plugin : step[p] = "ensure" /\ step'[p] = "prepare" =>
       ~venv.exists \/ built[p] # declared[p]]_envVars

\* After a shutdown that met no respawn no claim is left, whichever workers died
\* and whatever earlier starts left behind (plugin.rs 884-906, venv.rs 605-638).
ClaimsReleased == manager = "down" /\ ended = "shutdown" => owners = {}

\* The environment that plugins share is there while one of them runs, and is
\* claimed by none when they have been shut down (venv.rs, plugin.rs 884-906),
\* unless a respawn was under way in the shutdown.
VenvKept == RunningVenvKept /\ ClaimsReleased
-----------------------------------------------------------------------------
\* "Ensure a usable venv exists" (venv.rs:498): ReadyIsInstalled for every plugin.
UsableVenv ==
  \A p \in Plugin : step[p] = "ready" /\ read[p] # 0 => venv.installed[p] = read[p]

\* "a venv stops being treated as shared once its co-owners are gone"
\* (venv.rs:601): ClaimsReleased after a failed start as well.
RollbackReleases ==
  manager = "down" /\ ended \in {"shutdown", "rollback"} => owners = {}

\* "so a later rebuild is not permanently downgraded to an in-place update by a
\* stale owner entry" (plugin.rs:895): a respawn under way claims after the release.
EveryShutdownReleases ==
  manager = "down" /\ ended \in {"shutdown", "overtaken"} => owners = {}

\* "wiping the shared interpreter would break a worker that is already executing
\* out of it" (venv.rs:518): a respawn under way in a shutdown finds the registry
\* without the claims of workers that still run.
NeverWipedUnderWorker == \A p \in Plugin : child[p] = "running" => venv.exists
=============================================================================
