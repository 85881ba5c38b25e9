---------------------------- MODULE RunPipeline ----------------------------
(***************************************************************************)
(* The commands on one FlashHub bundle with a Python backend - run/serve,  *)
(* pull, bundle sync and bundle clean (go/internal/cli) - composed from    *)
(* the synced tree (BundleSync), the bundle venv (BundleVenv) and the      *)
(* bundle's weights, of which only the completeness WeightsDownload        *)
(* establishes is kept here.                                               *)
(*                                                                         *)
(* One command works on the bundle at a time.  It may fail or be killed at *)
(* any step.  A clean lists what it will remove and then waits at its      *)
(* prompt, while other commands may run.  The environment variables that   *)
(* skip stages (FLASHCLI_SKIP_...) are unset, --checkpoint is not given;   *)
(* FLASHCLI_FORCE_VENV and sync --force are the command's force.           *)
(***************************************************************************)
EXTENDS BundleSync, BundleVenv

CONSTANTS
  WantOf,      \* [Pubs -> [Envs -> Wants]]: the fingerprint of a manifest
  NativeFiles, \* the native artifacts among Paths
  SystemCuda,  \* the system loader already finds the CUDA libraries
  MaxAborts,   \* bound: commands that fail or are killed
  MaxCleans    \* bound: cleans

ASSUME PipelineAssumption ==
  /\ WantOf \in [Pubs -> [Envs -> Wants]]
  /\ NativeFiles \subseteq Paths
  /\ SystemCuda \in BOOLEAN
  /\ MaxAborts \in Nat /\ MaxCleans \in Nat

VARIABLES
  step,      \* the stage of the running command
  cmd,       \* its kind, host environment and force
  weights,   \* the weights store: "bare" is files that satisfy the bundle's
             \* readiness rules with no download manifest and no marker
  host,      \* the cache schema the installed host requires
  victims,   \* what the clean that waits at its prompt will remove
  prepared,  \* history: the environment of the last run that reached the
             \* entry, if nothing but runs in it was begun since
  aborts, cleans

pipeVars == <<step, cmd, weights, host, victims, prepared, aborts, cleans>>
vars == <<syncVars, venvVars, pipeVars>>

Kinds == {"run", "pull", "sync"}
Steps == {"idle", "sync", "load", "weights", "venv", "schema", "cuda", "exec"}
Weights == {"none", "partial", "bare", "complete"}
Victims == {"tree", "models"} \cup Runtimes
NoCmd == [kind |-> "none", env |-> NoEnv, force |-> FALSE]

TypeOK ==
  /\ SyncTypeOK /\ VenvTypeOK
  /\ step \in Steps
  /\ cmd \in [kind : Kinds, env : Envs, force : BOOLEAN] \cup {NoCmd}
  /\ step # "idle" => cmd # NoCmd
  /\ weights \in Weights
  /\ host \in Schemas
  /\ victims \in SUBSET Victims
  /\ prepared \in Envs \cup {NoEnv}
  /\ aborts \in 0..MaxAborts /\ cleans \in 0..MaxCleans
  /\ sync # "off" => step = "sync"
  /\ build # "off" => step = "venv"
  /\ step \notin {"idle", "sync", "load"} => Loadable(cmd.env)

Init ==
  /\ SyncInit /\ VenvInit
  /\ step = "idle"
  /\ cmd = NoCmd
  /\ weights = "none" /\ host = 1
  /\ victims = {} /\ prepared = NoEnv
  /\ aborts = 0 /\ cleans = 0

-----------------------------------------------------------------------------
(* The stages of a command *)

\* The order of the stages: runPrelude and runPythonBackend for run, pullCmd
\* and bundleSyncCmd with ensureBundleRuntime for the others.
After(s) ==
  IF cmd.kind = "run"
  THEN CASE s = "sync"    -> "load"
         [] s = "load"    -> "weights"
         [] s = "weights" -> "venv"
         [] s = "venv"    -> "schema"
         [] s = "schema"  -> "cuda"
         [] s = "cuda"    -> "exec"
         [] s = "exec"    -> "idle"
  ELSE CASE s = "sync"    -> "load"
         [] s = "load"    -> "venv"
         [] s = "venv"    -> "cuda"
         [] s = "cuda"    -> IF cmd.kind = "pull" THEN "weights" ELSE "idle"
         [] s \in {"weights", "schema", "exec"} -> "idle"

Continue(s) ==
  /\ step = s /\ step' = After(s)
  /\ cmd' = IF After(s) = "idle" THEN NoCmd ELSE cmd

\* The runtime id: the sync marker's, else one made from the bundle's path.
RuntimeID == IF done = "ok" THEN "repo" ELSE "path"

Start ==
  /\ step = "idle" /\ step' = "sync"
  /\ \E k \in Kinds, e \in Envs, force \in BOOLEAN :
       /\ k = "pull" => ~force
       /\ cmd' = [kind |-> k, env |-> e, force |-> force]
       /\ SyncStart(k = "sync" /\ force)
       /\ prepared' = IF k = "run" /\ e = prepared /\ ~force THEN prepared ELSE NoEnv
  /\ UNCHANGED <<venvVars, weights, host, victims, aborts, cleans>>

Sync ==
  /\ step = "sync"
  /\ SyncStep(cmd.env)
  /\ UNCHANGED <<venvVars, pipeVars>>

Synced ==
  /\ Continue("sync")
  /\ sync = "done" /\ SyncReset
  /\ UNCHANGED <<hub, syncDisk, synced, treeCut, venvVars>>
  /\ UNCHANGED <<weights, host, victims, prepared, aborts, cleans>>

\* manifest.Load and applyEnv on the manifest that is on disk.
Load ==
  /\ Continue("load")
  /\ Loadable(cmd.env)
  /\ UNCHANGED <<syncVars, venvVars>>
  /\ UNCHANGED <<weights, host, victims, prepared, aborts, cleans>>

\* The manifest cannot be used: the command fails and nothing is repaired.
Refuse ==
  /\ \/ step = "sync" /\ sync = "resolve" /\ cmd.env \notin Supports[sel]
     \/ step = "load" /\ ~Loadable(cmd.env)
  /\ step' = "idle" /\ cmd' = NoCmd /\ SyncReset
  /\ UNCHANGED <<hub, syncDisk, synced, treeCut, venvVars>>
  /\ UNCHANGED <<weights, host, victims, prepared, aborts, cleans>>

\* PrepareBundle.  A pull lists the hub again; a run accepts what is complete,
\* and accepts files without a manifest that satisfy the readiness rules.
WeightsUsable == cmd.kind = "run" /\ weights \in {"complete", "bare"}

PrepareWeights ==
  /\ Continue("weights")
  /\ weights' = IF WeightsUsable THEN weights ELSE "complete"
  /\ UNCHANGED <<syncVars, venvVars, host, victims, prepared, aborts, cleans>>

Ensure ==
  /\ step = "venv"
  /\ EnsureStart(RuntimeID, WantOf[tree[ManifestPath]][cmd.env])
  /\ UNCHANGED <<syncVars, pipeVars>>

\* Only a run passes FLASHCLI_FORCE_VENV on.
Build ==
  /\ step = "venv"
  /\ BuildStep(cmd.kind = "run" /\ cmd.force, host)
  /\ UNCHANGED <<syncVars, pipeVars>>

Built ==
  /\ Continue("venv")
  /\ build = "done" /\ EnsureReset
  /\ UNCHANGED <<syncVars, venvDisk, venvCut>>
  /\ UNCHANGED <<weights, host, victims, prepared, aborts, cleans>>

\* (mutant: only a missing protocol package is replaced)
NoProtocol == venv[RuntimeID].protocol = 0
\* EnsureProtocolCacheSchema: an older protocol package, or none, is replaced.
Stale == venv[RuntimeID].protocol < host

UpgradeProtocol ==
  /\ Continue("schema")
  /\ IF Stale
     THEN \E s \in host..MaxSchema :
            venv' = [venv EXCEPT ![RuntimeID].protocol = s]
     ELSE UNCHANGED venv
  /\ UNCHANGED <<syncVars, fp, venvRegs, venvCut>>
  /\ UNCHANGED <<weights, host, victims, prepared, aborts, cleans>>

\* cuda.Ensure: a run needs the CUDA userland, pull and sync only if the
\* selected runtime directory holds native artifacts (preflightBundle).
HasNative ==
  \E f \in NativeFiles :
    /\ tree[f] # Absent
    /\ DirOf[f] # NoDir
    /\ DirOf[f] = RuntimeOf[tree[ManifestPath]][cmd.env]
CudaMissing ==
  /\ ~SystemCuda /\ ~venv[RuntimeID].cuda
  /\ cmd.kind = "run" \/ HasNative

EnsureCuda ==
  /\ Continue("cuda")
  /\ venv' = IF CudaMissing THEN [venv EXCEPT ![RuntimeID].cuda = TRUE] ELSE venv
  /\ prepared' = IF cmd.kind = "run" THEN cmd.env ELSE prepared
  /\ UNCHANGED <<syncVars, fp, venvRegs, venvCut>>
  /\ UNCHANGED <<weights, host, victims, aborts, cleans>>

\* The entry runs, and ends.
Exit ==
  /\ Continue("exec")
  /\ UNCHANGED <<syncVars, venvVars>>
  /\ UNCHANGED <<weights, host, victims, prepared, aborts, cleans>>

\* A stage fails, or the command is killed in it.
Abort ==
  /\ step \notin {"idle", "exec"} /\ aborts < MaxAborts
  /\ aborts' = aborts + 1 /\ step' = "idle" /\ cmd' = NoCmd
  /\ \/ sync # "off" /\ SyncAborts /\ UNCHANGED <<venvVars, weights>>
     \/ build # "off" /\ BuildAborts /\ UNCHANGED <<syncVars, weights>>
     \/ /\ step = "weights" /\ weights' \in {weights, "partial"}
        /\ UNCHANGED <<syncVars, venvVars>>
        /\ WeightsUsable => weights' = weights
     \/ \* the old package is uninstalled before the new one is installed
        /\ step = "schema" /\ Stale
        /\ venv' = [venv EXCEPT ![RuntimeID].protocol = 0]
        /\ UNCHANGED <<syncVars, fp, venvRegs, venvCut, weights>>
     \/ sync = "off" /\ build = "off" /\ UNCHANGED <<syncVars, venvVars, weights>>
  /\ UNCHANGED <<host, victims, prepared, cleans>>

\* flashcli itself is upgraded (selfupdate): the new host wants a new schema.
HostUpgrade ==
  /\ step = "idle" /\ host < MaxSchema
  /\ host' = host + 1 /\ prepared' = NoEnv
  /\ UNCHANGED <<syncVars, venvVars, step, cmd, weights, victims, aborts, cleans>>

Upload == Publish /\ UNCHANGED <<venvVars, pipeVars>>

-----------------------------------------------------------------------------
(* bundle clean *)

RootUsable == tree[ManifestPath] # Absent

RuntimeExists(r) ==
  venv[r] # NoVenv \/ fp[r] # NoWant \/ (r = "repo" /\ rtMarker # "none")

Existing ==
  {r \in Runtimes : RuntimeExists(r)}
    \cup (IF done # "none" \/ \E f \in Paths : tree[f] # Absent THEN {"tree"} ELSE {})
    \cup (IF weights # "none" THEN {"models"} ELSE {})

\* refRuntimePaths: the sync marker's runtime, else the one whose own marker
\* names the bundle.  Both are the repository's.
RefRuntimes == IF done = "ok" \/ rtMarker = "ok" THEN {"repo"} ELSE {}

\* refAllPaths.  Without a readable marker the weights are looked for under the
\* tree's key, where no weights of a v4 bundle are.
RefAll == {"tree"} \cup (IF done = "ok" THEN {"models"} ELSE {}) \cup RefRuntimes

\* orphanCachePaths: a bundle whose root is gone, and every runtime directory
\* with no readable marker or no usable root.
OrphanRuntimes == {r \in Runtimes : r = "path" \/ rtMarker # "ok" \/ ~RootUsable}
Orphans ==
  (IF done = "ok" /\ ~RootUsable THEN {"tree", "models", "repo"} ELSE {})
    \cup OrphanRuntimes

CleanLists == {Runtimes, RefRuntimes, RefAll, Orphans, Victims}

\* confirmCleanup shows the paths that exist and waits for the answer.
Scan ==
  /\ step = "idle" /\ victims = {} /\ cleans < MaxCleans
  /\ \E paths \in CleanLists : victims' = paths \cap Existing
  /\ victims' # {}
  /\ cleans' = cleans + 1
  /\ UNCHANGED <<syncVars, venvVars, step, cmd, weights, host, prepared, aborts>>

Decline ==
  /\ step = "idle" /\ victims # {} /\ victims' = {}
  /\ UNCHANGED <<syncVars, venvVars, step, cmd, weights, host, prepared, aborts, cleans>>

\* What is left of each directory when its removal has ended, or was cut short.
LeftOfTree(cut) ==
  /\ \E kept \in IF cut THEN SUBSET Paths ELSE {{}} :
       tree' = [f \in Paths |-> IF f \in kept THEN tree[f] ELSE Absent]
  /\ done' \in (IF cut THEN {done, "none"} ELSE {"none"})
  /\ treeCut' = TRUE
  /\ UNCHANGED <<hub, rtMarker, syncRegs, synced, venvVars, weights>>

LeftOfModels(cut) ==
  /\ weights' \in IF cut /\ weights # "none" THEN {weights, "partial", "bare"}
                  ELSE {"none"}
  /\ UNCHANGED <<syncVars, venvVars>>

LeftOfRuntime(r, cut) ==
  /\ \E v \in IF cut THEN Remains(venv[r]) ELSE {NoVenv} : venv' = [venv EXCEPT ![r] = v]
  /\ fp' \in (IF cut THEN {fp} ELSE {}) \cup {[fp EXCEPT ![r] = NoWant]}
  /\ rtMarker' \in IF r = "path" THEN {rtMarker}
                   ELSE (IF cut THEN {rtMarker} ELSE {}) \cup {"none"}
  /\ venvCut' = [venvCut EXCEPT ![r] = TRUE]
  /\ UNCHANGED <<hub, tree, done, syncRegs, synced, treeCut, venvRegs, weights>>

\* removePaths: RemoveAll of one path after the other.
Remove(x, cut) ==
  \/ x = "tree" /\ LeftOfTree(cut)
  \/ x = "models" /\ LeftOfModels(cut)
  \/ x \in Runtimes /\ LeftOfRuntime(x, cut)

Clean ==
  /\ step = "idle"
  /\ \E x \in victims : Remove(x, FALSE) /\ victims' = victims \ {x}
  /\ prepared' = NoEnv
  /\ UNCHANGED <<step, cmd, host, aborts, cleans>>

\* A removal fails, or the clean is killed in it: the rest is not tried.
CleanAborts ==
  /\ step = "idle" /\ aborts < MaxAborts
  /\ \E x \in victims : Remove(x, TRUE)
  /\ victims' = {}
  /\ aborts' = aborts + 1 /\ prepared' = NoEnv
  /\ UNCHANGED <<step, cmd, host, cleans>>

-----------------------------------------------------------------------------
CommandStep ==
  \/ Sync
  \/ Synced
  \/ Load
  \/ Refuse
  \/ PrepareWeights
  \/ Ensure
  \/ Build
  \/ Built
  \/ UpgradeProtocol
  \/ EnsureCuda
  \/ Exit

Next ==
  \/ Start
  \/ CommandStep
  \/ Abort
  \/ HostUpgrade
  \/ Upload
  \/ Scan
  \/ Decline
  \/ Clean
  \/ CleanAborts

Spec == Init /\ [][Next]_vars

\* A command that is running goes on, and in every environment somebody tries
\* again and again to run the bundle, without force.
TryRun(e) == Start /\ cmd'.kind = "run" /\ cmd'.env = e /\ ~cmd'.force
FairSpec ==
  Spec /\ WF_vars(CommandStep) /\ \A e \in Envs : SF_vars(TryRun(e))

-----------------------------------------------------------------------------
(* Properties *)

(* When the entry is started everything it needs is there: the weights, a    *)
(* protocol package that is not older than the host, the CUDA libraries, and *)
(* the tree and the venv as their markers vouch for them, for the environment*)
(* of this run - whichever commands were interrupted before (runserve.go,    *)
(* runPythonBackend).                                                        *)
EntryFindsWhatItNeeds ==
  step = "exec" =>
    /\ weights \in {"complete", "bare"}
    /\ venv[RuntimeID].protocol >= host
    /\ SystemCuda \/ venv[RuntimeID].cuda
    /\ ~treeCut => \E v \in Pubs : IsPublication(v)
    /\ ~venvCut[RuntimeID] => Whole(RuntimeID, WantOf[tree[ManifestPath]][cmd.env])

\* The running command is at a step that needs the network.
AtNetwork ==
  \/ sync \notin {"off", "done"}
  \/ build \notin {"off", "check", "done"}
  \/ step = "weights" /\ ~WeightsUsable
  \/ step = "schema" /\ Stale
  \/ step = "cuda" /\ CudaMissing

(* Once a run has reached its entry, every later run in the same environment *)
(* needs no network, also after interrupted runs, until another command, a   *)
(* clean or an upgrade of the host was begun (docs/architecture.md: "once    *)
(* preparation succeeds, every later run/serve runs offline").               *)
PreparedRunsOffline ==
  cmd.kind = "run" /\ prepared = cmd.env => ~AtNetwork

(* Somebody who keeps trying to run the bundle in an environment it supports *)
(* gets it to run again and again, whatever was interrupted or removed,      *)
(* unless a completion marker is left without a manifest: ensureBundleRef    *)
(* then asks the hub for nothing and every run fails to load the manifest.   *)
RunsAgain ==
  \A e \in Envs :
    (\A v \in Pubs : e \in Supports[v]) =>
      \/ []<>(step = "exec" /\ cmd.env = e)
      \/ <>[](done # "none" /\ ~RootUsable)
=============================================================================
