------------------------- MODULE RunPipelineProofs -------------------------
(***************************************************************************)
(* Theorems about RunPipeline, for every hub, every set of environments,   *)
(* and any number of interrupted commands and cleans.                      *)
(***************************************************************************)
EXTENDS RunPipeline, TLAPS

LEMMA DownloadedType ==
  ASSUME SyncTypeOK, NEW f \in Paths, NEW v \in Pubs
  PROVE  /\ Downloaded(f, v) \in Pubs
         /\ f \notin Unhashed => Downloaded(f, v) = Body[v][f]
BY HubAssumption DEF Downloaded, SyncTypeOK, Absent

LEMMA SyncStepType ==
  ASSUME SyncTypeOK, NEW e \in Envs, SyncStep(e)
  PROVE  SyncTypeOK' /\ sync # "off" /\ sync' # "off"
<1>0. ManifestPath \in Paths \ Unhashed
  BY HubAssumption
<1>1. CASE FetchIndex
  BY <1>1 DEF FetchIndex, SyncTypeOK, SyncStages, syncDisk
<1>2. CASE DownloadManifest
  <2>1. Downloaded(ManifestPath, ix) \in Pubs
    BY <1>0, DownloadedType DEF SyncTypeOK
  <2>2. tree' \in [Paths -> Pubs \cup {Absent}] /\ sel' \in Pubs
    BY <1>0, <1>2, <2>1 DEF DownloadManifest, SyncTypeOK
  <2> QED BY <1>2, <2>2 DEF DownloadManifest, SyncTypeOK, SyncStages
<1>3. CASE ResolveEnv(e)
  BY <1>3 DEF ResolveEnv, SyncTypeOK, SyncStages, syncDisk
<1>4. CASE SyncManifest(e)
  <2>1. Downloaded(ManifestPath, ix) \in Pubs
    BY <1>0, DownloadedType DEF SyncTypeOK
  <2>2. tree' \in [Paths -> Pubs \cup {Absent}]
    BY <1>0, <1>4, <2>1 DEF SyncManifest, SyncTypeOK
  <2>3. todo' \in SUBSET Paths
    BY <1>4, HubAssumption DEF SyncManifest, SyncTypeOK, Wanted
  <2> QED BY <1>4, <2>2, <2>3 DEF SyncManifest, SyncTypeOK, SyncStages
<1>5. CASE SyncFile
  <2>1. PICK f \in todo : /\ tree' = [tree EXCEPT ![f] = Downloaded(f, ix)]
                          /\ todo' = todo \ {f}
    BY <1>5 DEF SyncFile
  <2>2. f \in Paths /\ Downloaded(f, ix) \in Pubs
    BY <2>1, DownloadedType DEF SyncTypeOK
  <2> QED BY <1>5, <2>1, <2>2 DEF SyncFile, SyncTypeOK, SyncStages
<1>6. CASE WriteRuntimeMarker(e)
  BY <1>6 DEF WriteRuntimeMarker, SyncTypeOK, SyncStages, Marker
<1>7. CASE WriteMarker
  BY <1>7 DEF WriteMarker, SyncTypeOK, SyncStages, Marker
<1> QED BY <1>1, <1>2, <1>3, <1>4, <1>5, <1>6, <1>7 DEF SyncStep

LEMMA BuildStepType ==
  ASSUME VenvTypeOK, NEW force \in BOOLEAN, NEW s \in Schemas,
         BuildStep(force, s)
  PROVE  VenvTypeOK' /\ build # "off" /\ build' # "off" /\ rt' = rt /\ want' = want
<1>0. want \in Wants /\ build # "off"
  BY DEF BuildStep, Check, RemoveVenv, CreateVenv, InstallProtocol, InstallTorch,
         InstallDeps, WriteFingerprint, VenvTypeOK
<1>1. CASE Check(force)
  BY <1>1 DEF Check, VenvTypeOK, BuildStages, venvDisk
<1>2. CASE RemoveVenv
  <2>1. NoVenv \in Venv
    BY VenvAssumption DEF NoVenv, Venv
  <2> QED BY <1>2, <2>1 DEF RemoveVenv, VenvTypeOK, BuildStages
<1>3. CASE CreateVenv
  <2>1. AbiOf[want] \in Pythons
    BY <1>0 DEF Pythons
  <2>2. venv' \in [Runtimes -> Venv]
    BY <1>3, <2>1 DEF CreateVenv, VenvTypeOK, Venv
  <2> QED BY <1>3, <2>2 DEF CreateVenv, VenvTypeOK, BuildStages
<1>4. CASE InstallProtocol(s)
  <2>1. venv' \in [Runtimes -> Venv]
    BY <1>4, VenvAssumption DEF InstallProtocol, VenvTypeOK, Venv, Schemas
  <2> QED BY <1>4, <2>1 DEF InstallProtocol, VenvTypeOK, BuildStages
<1>5. CASE InstallTorch
  <2>1. venv' \in [Runtimes -> Venv]
    BY <1>0, <1>5 DEF InstallTorch, VenvTypeOK, Venv
  <2> QED BY <1>5, <2>1 DEF InstallTorch, VenvTypeOK, BuildStages
<1>6. CASE InstallDeps
  <2>1. venv' \in [Runtimes -> Venv]
    BY <1>0, <1>6 DEF InstallDeps, VenvTypeOK, Venv
  <2> QED BY <1>6, <2>1 DEF InstallDeps, VenvTypeOK, BuildStages
<1>7. CASE WriteFingerprint
  BY <1>0, <1>7 DEF WriteFingerprint, VenvTypeOK, BuildStages
<1> QED BY <1>1, <1>2, <1>3, <1>4, <1>5, <1>6, <1>7 DEF BuildStep

\* The state of the sync and the venv that a stage leaves alone.
LEMMA SyncFrame ==
  ASSUME SyncTypeOK, UNCHANGED syncVars
  PROVE  SyncTypeOK'
BY DEF SyncTypeOK, syncVars, syncDisk, syncRegs

LEMMA VenvFrame ==
  ASSUME VenvTypeOK, UNCHANGED venvVars
  PROVE  VenvTypeOK'
BY DEF VenvTypeOK, venvVars, venvDisk, venvRegs

LEMMA SyncResetType ==
  ASSUME SyncTypeOK, SyncReset, UNCHANGED <<hub, syncDisk, synced, treeCut>>
  PROVE  SyncTypeOK' /\ sync' = "off"
BY HubAssumption DEF SyncTypeOK, SyncReset, SyncStages, syncDisk, Pubs

LEMMA SyncAbortsType ==
  ASSUME SyncTypeOK, SyncAborts
  PROVE  SyncTypeOK' /\ sync' = "off"
BY HubAssumption DEF SyncTypeOK, SyncAborts, SyncReset, SyncStages, Marker, Pubs

LEMMA BuildAbortsType ==
  ASSUME VenvTypeOK, BuildAborts
  PROVE  VenvTypeOK' /\ build' = "off"
<1>1. venv' \in [Runtimes -> Venv]
  BY DEF BuildAborts, VenvTypeOK, Remains
<1>2. fp' \in [Runtimes -> Wants \cup {NoWant}]
  BY DEF BuildAborts, VenvTypeOK
<1>3. venvCut' \in [Runtimes -> BOOLEAN]
  BY DEF BuildAborts, VenvTypeOK
<1> QED
  BY <1>1, <1>2, <1>3
  DEF BuildAborts, EnsureReset, VenvTypeOK, BuildStages, Runtimes

\* A change of the installed packages outside Ensure.
LEMMA VenvWriteType ==
  ASSUME VenvTypeOK, venv' \in [Runtimes -> Venv], UNCHANGED <<fp, venvRegs, venvCut>>
  PROVE  VenvTypeOK'
BY DEF VenvTypeOK, venvRegs

-----------------------------------------------------------------------------
(* Type correctness *)

\* The next stage belongs to the same command, and follows the load.
LEMMA ContinueType ==
  ASSUME TypeOK, NEW s \in Steps \ {"idle"}, Continue(s)
  PROVE  /\ step = s /\ step' \in Steps /\ step' # "sync"
         /\ cmd' \in [kind : Kinds, env : Envs, force : BOOLEAN] \cup {NoCmd}
         /\ step' # "idle" => cmd' = cmd /\ cmd # NoCmd
         /\ step' = "load" <=> s = "sync"
<1>1. /\ After(s) \in Steps \ {"sync"}
      /\ After(s) = "load" <=> s = "sync"
  BY DEF After, Steps
<1> QED BY <1>1 DEF Continue, TypeOK

\* A step that changes neither the sync nor the venv nor the tree.
LEMMA StageType ==
  ASSUME TypeOK, NEW s \in Steps \ {"idle", "sync"}, Continue(s),
         s = "load" => Loadable(cmd.env),
         SyncTypeOK', VenvTypeOK', tree' = tree,
         sync' = sync, build' = "off", s # "venv" => build = "off",
         weights' \in Weights, prepared' \in Envs \cup {NoEnv},
         UNCHANGED <<host, victims, aborts, cleans>>
  PROVE  TypeOK'
<1>1. /\ step = s /\ step' \in Steps /\ step' # "sync" /\ step' # "load"
      /\ cmd' \in [kind : Kinds, env : Envs, force : BOOLEAN] \cup {NoCmd}
      /\ step' # "idle" => cmd' = cmd /\ cmd # NoCmd
  BY ContinueType
<1>2. sync' = "off"
  BY <1>1 DEF TypeOK
<1>3. step' # "idle" => Loadable(cmd.env) /\ cmd' = cmd
  BY <1>1 DEF TypeOK
<1>4. Loadable(cmd.env) /\ cmd' = cmd => Loadable(cmd.env)'
  BY DEF Loadable
<1> QED BY <1>1, <1>2, <1>3, <1>4 DEF TypeOK

\* What the removal of one victim leaves has its type.
RemovedTypeOK ==
  /\ SyncTypeOK' /\ VenvTypeOK' /\ weights' \in Weights
  /\ sync' = sync /\ build' = build

LEMMA RemoveType ==
  ASSUME TypeOK, NEW x \in Victims, NEW cut \in BOOLEAN, Remove(x, cut)
  PROVE  RemovedTypeOK
<1>0. SyncTypeOK /\ VenvTypeOK
  BY DEF TypeOK
<1>1. CASE x = "tree"
  <2>1. LeftOfTree(cut)
    BY <1>1 DEF Remove, Runtimes
  <2>2. VenvTypeOK'
    BY <1>0, <2>1, VenvFrame DEF LeftOfTree
  <2>3. PICK kept : tree' = [f \in Paths |-> IF f \in kept THEN tree[f] ELSE Absent]
    BY <2>1 DEF LeftOfTree
  <2>4. tree' \in [Paths -> Pubs \cup {Absent}]
    BY <1>0, <2>3 DEF SyncTypeOK
  <2>5. SyncTypeOK'
    BY <1>0, <2>1, <2>4 DEF LeftOfTree, SyncTypeOK, Marker, syncRegs
  <2> QED BY <2>1, <2>2, <2>5
      DEF RemovedTypeOK, LeftOfTree, TypeOK, syncRegs, venvVars, venvRegs
<1>2. CASE x = "models"
  <2>1. LeftOfModels(cut)
    BY <1>2 DEF Remove, Runtimes
  <2>2. SyncTypeOK' /\ VenvTypeOK'
    BY <1>0, <2>1, SyncFrame, VenvFrame DEF LeftOfModels
  <2>3. weights' \in Weights
    BY <2>1 DEF LeftOfModels, Weights, TypeOK
  <2> QED BY <2>1, <2>2, <2>3
      DEF RemovedTypeOK, LeftOfModels, syncVars, syncRegs, venvVars, venvRegs
<1>3. CASE x \in Runtimes
  <2>1. LeftOfRuntime(x, cut)
    BY <1>3 DEF Remove, Runtimes
  <2>2. NoVenv \in Venv
    BY VenvAssumption DEF NoVenv, Venv
  <2>3. PICK v \in IF cut THEN Remains(venv[x]) ELSE {NoVenv} :
          venv' = [venv EXCEPT ![x] = v]
    BY <2>1 DEF LeftOfRuntime
  <2>4. venv' \in [Runtimes -> Venv]
    BY <1>0, <2>2, <2>3 DEF VenvTypeOK, Remains
  <2>5. fp' \in [Runtimes -> Wants \cup {NoWant}]
    BY <1>0, <2>1 DEF LeftOfRuntime, VenvTypeOK
  <2>6. venvCut' \in [Runtimes -> BOOLEAN]
    BY <1>0, <2>1 DEF LeftOfRuntime, VenvTypeOK
  <2>7. VenvTypeOK'
    BY <1>0, <2>1, <2>4, <2>5, <2>6 DEF LeftOfRuntime, VenvTypeOK, venvRegs
  <2>8. SyncTypeOK'
    BY <1>0, <2>1 DEF LeftOfRuntime, SyncTypeOK, Marker, syncRegs
  <2> QED BY <2>1, <2>7, <2>8
      DEF RemovedTypeOK, LeftOfRuntime, TypeOK, syncRegs, venvRegs
<1> QED BY <1>1, <1>2, <1>3 DEF Victims

\* Every variable has its type, a sync runs only at the sync stage and a build
\* only at the venv stage, and from the weights stage on the manifest on disk
\* supports the command's environment.
THEOREM TypeCorrect == Spec => []TypeOK
<1>1. Init => TypeOK
  <2> SUFFICES ASSUME Init PROVE TypeOK
    OBVIOUS
  <2>1. SyncTypeOK
    <3>1. 1 \in Pubs
      BY HubAssumption DEF Pubs
    <3> QED BY <3>1 DEF Init, SyncInit, SyncTypeOK, Marker, SyncStages
  <2>2. VenvTypeOK
    <3>1. NoVenv \in Venv
      BY VenvAssumption DEF NoVenv, Venv
    <3> QED BY <3>1 DEF Init, VenvInit, VenvTypeOK, BuildStages, Runtimes
  <2> QED BY <2>1, <2>2, VenvAssumption, PipelineAssumption
         DEF Init, SyncInit, VenvInit, TypeOK, Steps, Weights, Schemas
<1>2. TypeOK /\ [Next]_vars => TypeOK'
  <2> SUFFICES ASSUME TypeOK, [Next]_vars PROVE TypeOK'
    OBVIOUS
  <2>0. SyncTypeOK /\ VenvTypeOK
    BY DEF TypeOK
  <2>1. CASE UNCHANGED vars
    <3>1. SyncTypeOK' /\ VenvTypeOK'
      BY <2>0, <2>1, SyncFrame, VenvFrame DEF vars
    <3> QED BY <2>1, <3>1
        DEF vars, pipeVars, syncVars, syncDisk, syncRegs, venvVars, venvRegs, TypeOK, Loadable
  <2>2. CASE Start
    <3>1. VenvTypeOK'
      BY <2>0, <2>2, VenvFrame DEF Start
    <3>2. PICK k \in Kinds, e \in Envs, force \in BOOLEAN :
            /\ cmd' = [kind |-> k, env |-> e, force |-> force]
            /\ SyncStart(k = "sync" /\ force)
            /\ prepared' = IF k = "run" /\ e = prepared /\ ~force
                           THEN prepared ELSE NoEnv
      BY <2>2 DEF Start
    <3>3. SyncTypeOK'
      BY <2>0, <3>2 DEF SyncStart, SyncTypeOK, SyncStages, syncDisk
    <3>4. cmd' \in [kind : Kinds, env : Envs, force : BOOLEAN] /\ cmd' # NoCmd
      BY <3>2 DEF NoCmd, Kinds
    <3>5. /\ build = "off" /\ build' = "off" /\ step' = "sync" /\ weights' = weights
          /\ host' = host /\ victims' = victims /\ aborts' = aborts /\ cleans' = cleans
      BY <2>2 DEF Start, TypeOK, venvVars, venvRegs
    <3> QED BY <3>1, <3>2, <3>3, <3>4, <3>5 DEF TypeOK, Steps
  <2>3. CASE Sync
    <3>1. VenvTypeOK'
      BY <2>0, <2>3, VenvFrame DEF Sync
    <3>2. cmd.env \in Envs /\ step = "sync"
      BY <2>3, HubAssumption DEF Sync, TypeOK, NoCmd
    <3>3. SyncTypeOK' /\ sync' # "off"
      BY <2>0, <2>3, <3>2, SyncStepType DEF Sync
    <3> QED BY <2>3, <3>1, <3>2, <3>3 DEF Sync, TypeOK, pipeVars, venvVars, venvRegs
  <2>4. CASE Synced
    <3>1. VenvTypeOK'
      BY <2>0, <2>4, VenvFrame DEF Synced, venvVars
    <3>2. SyncTypeOK' /\ sync' = "off"
      BY <2>0, <2>4, SyncResetType DEF Synced
    <3>3. /\ step = "sync" /\ step' \in Steps /\ step' = "load"
          /\ cmd' \in [kind : Kinds, env : Envs, force : BOOLEAN] \cup {NoCmd}
          /\ cmd' # NoCmd
      BY <2>4, ContinueType DEF Synced, Steps
    <3> QED BY <2>4, <3>1, <3>2, <3>3 DEF Synced, TypeOK, venvVars, venvRegs
  <2>5. CASE Load
    <3>1. SyncTypeOK' /\ VenvTypeOK'
      BY <2>0, <2>5, SyncFrame, VenvFrame DEF Load
    <3>2. build = "off" /\ build' = "off" /\ tree' = tree /\ sync' = sync
      BY <2>5 DEF Load, Continue, TypeOK, venvVars, venvRegs, syncVars, syncDisk, syncRegs
    <3> QED BY <2>5, <3>1, <3>2, StageType DEF Load, Steps, TypeOK
  <2>6. CASE Refuse
    <3>1. VenvTypeOK'
      BY <2>0, <2>6, VenvFrame DEF Refuse
    <3>2. SyncTypeOK' /\ sync' = "off"
      BY <2>0, <2>6, SyncResetType DEF Refuse
    <3> QED BY <2>6, <3>1, <3>2 DEF Refuse, TypeOK, venvVars, venvRegs, Steps
  <2>7. CASE PrepareWeights
    <3>1. SyncTypeOK' /\ VenvTypeOK'
      BY <2>0, <2>7, SyncFrame, VenvFrame DEF PrepareWeights
    <3>2. build = "off" /\ build' = "off" /\ tree' = tree /\ sync' = sync
      BY <2>7 DEF PrepareWeights, Continue, TypeOK, venvVars, venvRegs,
                  syncVars, syncDisk, syncRegs
    <3>3. weights' \in Weights /\ prepared' \in Envs \cup {NoEnv}
      BY <2>7 DEF PrepareWeights, TypeOK, Weights
    <3> QED BY <2>7, <3>1, <3>2, <3>3, StageType DEF PrepareWeights, Steps
  <2>8. CASE Ensure
    <3>1. SyncTypeOK'
      BY <2>0, <2>8, SyncFrame DEF Ensure
    <3>2. Loadable(cmd.env) /\ cmd.env \in Envs /\ cmd # NoCmd
      BY <2>8, HubAssumption DEF Ensure, TypeOK, Loadable, NoCmd
    <3>3. tree[ManifestPath] \in Pubs
      BY <2>0, <3>2, HubAssumption DEF Loadable, SyncTypeOK
    <3>4. WantOf[tree[ManifestPath]][cmd.env] \in Wants
      BY <3>2, <3>3, PipelineAssumption
    <3>5. VenvTypeOK'
      BY <2>0, <2>8, <3>4 DEF Ensure, EnsureStart, VenvTypeOK, RuntimeID, Runtimes,
                              BuildStages, venvDisk
    <3> QED BY <2>8, <3>1, <3>5 DEF Ensure, TypeOK, Loadable, pipeVars, syncVars, syncDisk,
                                    syncRegs
  <2>9. CASE Build
    <3>1. SyncTypeOK'
      BY <2>0, <2>9, SyncFrame DEF Build
    <3>2. VenvTypeOK' /\ build' # "off"
      <4>1. (cmd.kind = "run" /\ cmd.force) \in BOOLEAN /\ host \in Schemas
        BY <2>9 DEF Build, TypeOK
      <4> QED BY <2>0, <2>9, <4>1, BuildStepType DEF Build
    <3> QED BY <2>9, <3>1, <3>2 DEF Build, TypeOK, Loadable, pipeVars, syncVars, syncDisk,
                                    syncRegs
  <2>10. CASE Built
    <3>1. SyncTypeOK'
      BY <2>0, <2>10, SyncFrame DEF Built
    <3>2. VenvTypeOK' /\ build' = "off"
      BY <2>0, <2>10 DEF Built, EnsureReset, VenvTypeOK, BuildStages, Runtimes, venvDisk
    <3>3. tree' = tree /\ sync' = sync
      BY <2>10 DEF Built, syncVars, syncDisk, syncRegs
    <3> QED BY <2>10, <3>1, <3>2, <3>3, StageType DEF Built, TypeOK, Steps
  <2>11. CASE UpgradeProtocol
    <3>1. SyncTypeOK'
      BY <2>0, <2>11, SyncFrame DEF UpgradeProtocol
    <3>2. venv' \in [Runtimes -> Venv]
      BY <2>0, <2>11, VenvAssumption
      DEF UpgradeProtocol, VenvTypeOK, Venv, Schemas, TypeOK
    <3>3. VenvTypeOK' /\ build = "off" /\ build' = "off"
      BY <2>0, <2>11, <3>2, VenvWriteType
      DEF UpgradeProtocol, Continue, venvRegs, TypeOK
    <3>4. tree' = tree /\ sync' = sync
      BY <2>11 DEF UpgradeProtocol, syncVars, syncDisk, syncRegs
    <3> QED BY <2>11, <3>1, <3>3, <3>4, StageType DEF UpgradeProtocol, TypeOK, Steps
  <2>12. CASE EnsureCuda
    <3>1. SyncTypeOK'
      BY <2>0, <2>12, SyncFrame DEF EnsureCuda
    <3>2. venv' \in [Runtimes -> Venv]
      BY <2>0, <2>12 DEF EnsureCuda, VenvTypeOK, Venv
    <3>3. VenvTypeOK' /\ build = "off" /\ build' = "off"
      BY <2>0, <2>12, <3>2, VenvWriteType DEF EnsureCuda, Continue, venvRegs, TypeOK
    <3>4. tree' = tree /\ sync' = sync
      BY <2>12 DEF EnsureCuda, syncVars, syncDisk, syncRegs
    <3>5. prepared' \in Envs \cup {NoEnv}
      BY <2>12 DEF EnsureCuda, Continue, TypeOK, NoCmd
    <3> QED BY <2>12, <3>1, <3>3, <3>4, <3>5, StageType DEF EnsureCuda, TypeOK, Steps
  <2>13. CASE Exit
    <3>1. SyncTypeOK' /\ VenvTypeOK'
      BY <2>0, <2>13, SyncFrame, VenvFrame DEF Exit
    <3>2. build = "off" /\ build' = "off" /\ tree' = tree /\ sync' = sync
      BY <2>13 DEF Exit, Continue, TypeOK, venvVars, venvRegs, syncVars, syncDisk, syncRegs
    <3> QED BY <2>13, <3>1, <3>2, StageType DEF Exit, TypeOK, Steps
  <2>14. CASE Abort
    <3>0. /\ step' = "idle" /\ cmd' = NoCmd /\ aborts' \in 0..MaxAborts
          /\ UNCHANGED <<host, victims, prepared, cleans>>
      BY <2>14, PipelineAssumption DEF Abort, TypeOK
    <3>1. CASE sync # "off" /\ SyncAborts /\ UNCHANGED <<venvVars, weights>>
      <4>1. SyncTypeOK' /\ sync' = "off" /\ VenvTypeOK'
        BY <2>0, <3>1, SyncAbortsType, VenvFrame
      <4>2. build' = "off"
        BY <3>1 DEF TypeOK, venvVars, venvRegs
      <4> QED BY <3>0, <3>1, <4>1, <4>2 DEF TypeOK, Steps
    <3>2. CASE build # "off" /\ BuildAborts /\ UNCHANGED <<syncVars, weights>>
      <4>1. VenvTypeOK' /\ build' = "off" /\ SyncTypeOK'
        BY <2>0, <3>2, BuildAbortsType, SyncFrame
      <4>2. sync' = "off"
        BY <3>2 DEF TypeOK, syncVars, syncRegs
      <4> QED BY <3>0, <3>2, <4>1, <4>2 DEF TypeOK, Steps
    <3>3. CASE /\ step = "weights" /\ weights' \in {weights, "partial"}
               /\ UNCHANGED <<syncVars, venvVars>>
      <4>1. SyncTypeOK' /\ VenvTypeOK'
        BY <2>0, <3>3, SyncFrame, VenvFrame
      <4>2. sync' = "off" /\ build' = "off"
        BY <3>3 DEF TypeOK, syncVars, syncRegs, venvVars, venvRegs
      <4> QED BY <3>0, <3>3, <4>1, <4>2 DEF TypeOK, Steps, Weights
    <3>4. CASE /\ step = "schema" /\ Stale
               /\ venv' = [venv EXCEPT ![RuntimeID].protocol = 0]
               /\ UNCHANGED <<syncVars, fp, venvRegs, venvCut, weights>>
      <4>0. 0 \in 0..MaxSchema
        BY VenvAssumption
      <4>1. venv' \in [Runtimes -> Venv]
        BY <2>0, <3>4, <4>0 DEF VenvTypeOK, Venv
      <4>2. SyncTypeOK' /\ VenvTypeOK'
        BY <2>0, <3>4, <4>1, SyncFrame, VenvWriteType
      <4>3. sync' = "off" /\ build' = "off"
        BY <3>4 DEF TypeOK, syncVars, syncRegs, venvRegs
      <4> QED BY <3>0, <3>4, <4>2, <4>3 DEF TypeOK, Steps
    <3>5. CASE sync = "off" /\ build = "off" /\ UNCHANGED <<syncVars, venvVars, weights>>
      <4>1. SyncTypeOK' /\ VenvTypeOK'
        BY <2>0, <3>5, SyncFrame, VenvFrame
      <4>2. sync' = "off" /\ build' = "off"
        BY <3>5 DEF syncVars, syncRegs, venvVars, venvRegs
      <4> QED BY <3>0, <3>5, <4>1, <4>2 DEF TypeOK, Steps
    <3> QED BY <2>14, <3>1, <3>2, <3>3, <3>4, <3>5 DEF Abort
  <2>15. CASE HostUpgrade
    <3>1. SyncTypeOK' /\ VenvTypeOK'
      BY <2>0, <2>15, SyncFrame, VenvFrame DEF HostUpgrade
    <3>2. host' \in Schemas
      BY <2>15, VenvAssumption DEF HostUpgrade, TypeOK, Schemas
    <3> QED BY <2>15, <3>1, <3>2 DEF HostUpgrade, TypeOK, syncVars, syncRegs, venvVars,
                                     venvRegs
  <2>16. CASE Upload
    <3>1. VenvTypeOK'
      BY <2>0, <2>16, VenvFrame DEF Upload
    <3>2. SyncTypeOK'
      BY <2>0, <2>16, HubAssumption
      DEF Upload, Publish, SyncTypeOK, Pubs, syncDisk, syncRegs
    <3> QED BY <2>16, <3>1, <3>2 DEF Upload, Publish, TypeOK, Loadable, pipeVars, syncDisk,
                                     syncRegs, venvVars, venvRegs
  <2>17. CASE Scan
    <3>1. SyncTypeOK' /\ VenvTypeOK'
      BY <2>0, <2>17, SyncFrame, VenvFrame DEF Scan
    <3>2. victims' \in SUBSET Victims
      BY <2>17 DEF Scan, Existing, Victims
    <3>3. cleans' \in 0..MaxCleans
      BY <2>17, PipelineAssumption DEF Scan, TypeOK
    <3> QED BY <2>17, <3>1, <3>2, <3>3 DEF Scan, TypeOK, syncVars, syncRegs, venvVars,
                                           venvRegs
  <2>18. CASE Decline
    <3>1. SyncTypeOK' /\ VenvTypeOK'
      BY <2>0, <2>18, SyncFrame, VenvFrame DEF Decline
    <3> QED BY <2>18, <3>1 DEF Decline, TypeOK, syncVars, syncRegs, venvVars, venvRegs
  <2>19. CASE Clean
    <3>1. PICK x \in victims : Remove(x, FALSE) /\ victims' = victims \ {x}
      BY <2>19 DEF Clean
    <3>2. x \in Victims
      BY <3>1 DEF TypeOK
    <3>3. RemovedTypeOK
      BY <3>1, <3>2, RemoveType
    <3> QED BY <2>19, <3>1, <3>3 DEF Clean, RemovedTypeOK, TypeOK, Victims
  <2>20. CASE CleanAborts
    <3>1. PICK x \in victims : Remove(x, TRUE)
      BY <2>20 DEF CleanAborts
    <3>2. x \in Victims
      BY <3>1 DEF TypeOK
    <3>3. RemovedTypeOK
      BY <3>1, <3>2, RemoveType
    <3>4. aborts' \in 0..MaxAborts
      BY <2>20, PipelineAssumption DEF CleanAborts, TypeOK
    <3> QED BY <2>20, <3>3, <3>4 DEF CleanAborts, RemovedTypeOK, TypeOK
  <2> QED BY <2>1, <2>2, <2>3, <2>4, <2>5, <2>6, <2>7, <2>8, <2>9, <2>10, <2>11, <2>12,
             <2>13, <2>14, <2>15, <2>16, <2>17, <2>18, <2>19, <2>20
          DEF Next, CommandStep
<1> QED BY <1>1, <1>2, PTL DEF Spec

-----------------------------------------------------------------------------
(* The tree that the completion marker vouches for *)

\* Why the marker can be trusted: a sync that asks the hub found no marker or
\* was forced; while it fetches, what it has handled is one publication's; and
\* that publication is whole when the markers are written.
Fetching == {"index", "manifest", "resolve", "reindex", "remanifest", "files"}

TreeInv ==
  /\ MarkerVouchesForTree
  /\ sync = "mark" => \E v \in Pubs : IsPublication(v)
  /\ sync = "files" =>
       /\ tree[ManifestPath] = Body[ix][ManifestPath]
       /\ \A f \in Wanted(ix, sel, cmd.env) \ todo : IsFile(f, ix)
  /\ sync \in Fetching => done = "none" \/ treeCut

\* TreeInv is about the sync alone, and about the running command's environment.
LEMMA TreeFrame ==
  ASSUME TreeInv, UNCHANGED <<syncDisk, syncRegs, synced, treeCut>>,
         sync = "files" => cmd'.env = cmd.env
  PROVE  TreeInv'
BY DEF TreeInv, MarkerVouchesForTree, IsPublication, IsFile, Wanted, syncDisk, syncRegs

\* A sync that returns to its caller or fails leaves what it found.
LEMMA TreeReset ==
  ASSUME TypeOK, TreeInv, sync' = "off", UNCHANGED <<tree, synced, treeCut>>,
         done' = done \/ sync = "mark"
  PROVE  TreeInv'
BY DEF TreeInv, MarkerVouchesForTree, IsPublication, IsFile, Fetching

LEMMA TreeSyncStep ==
  ASSUME TypeOK, TreeInv, NEW e \in Envs, e = cmd.env, cmd' = cmd, SyncStep(e)
  PROVE  TreeInv'
<1>0. SyncTypeOK /\ ManifestPath \in Paths \ Unhashed
  BY HubAssumption DEF TypeOK
<1>1. CASE FetchIndex
  BY <1>1 DEF FetchIndex, TreeInv, MarkerVouchesForTree, IsPublication, IsFile, Fetching, syncDisk
<1>2. CASE DownloadManifest
  <2>1. (done = "none" \/ treeCut)'
    BY <1>2 DEF DownloadManifest, TreeInv, Fetching
  <2> QED BY <1>2, <2>1 DEF DownloadManifest, TreeInv, MarkerVouchesForTree
<1>3. CASE ResolveEnv(e)
  BY <1>3 DEF ResolveEnv, TreeInv, MarkerVouchesForTree, IsPublication, IsFile, Fetching, syncDisk
<1>4. CASE SyncManifest(e)
  <2>1. (done = "none" \/ treeCut)'
    BY <1>4 DEF SyncManifest, TreeInv, Fetching
  <2>2. tree'[ManifestPath] = Body[ix][ManifestPath]
    BY <1>0, <1>4, DownloadedType DEF SyncManifest, SyncTypeOK
  <2>3. Wanted(ix, sel, cmd.env)' = todo'
    BY <1>4 DEF SyncManifest, Wanted
  <2> QED BY <1>4, <2>1, <2>2, <2>3 DEF SyncManifest, TreeInv, MarkerVouchesForTree
<1>5. CASE SyncFile
  <2>1. PICK f \in todo : /\ tree' = [tree EXCEPT ![f] = Downloaded(f, ix)]
                          /\ todo' = todo \ {f}
    BY <1>5 DEF SyncFile
  <2>2. /\ f \in Paths /\ Downloaded(f, ix) # Absent
        /\ f \notin Unhashed => Downloaded(f, ix) = Body[ix][f]
    BY <1>0, <2>1, DownloadedType DEF SyncTypeOK, Pubs, Absent
  <2>3. (done = "none" \/ treeCut)'
    BY <1>5 DEF SyncFile, TreeInv, Fetching
  <2>4. tree'[ManifestPath] = Body[ix][ManifestPath]
    BY <1>0, <1>5, <2>1, <2>2 DEF SyncFile, TreeInv, SyncTypeOK
  <2>5. ASSUME NEW g \in Wanted(ix, sel, e) \ todo'
        PROVE  IsFile(g, ix)'
    <3>1. g \in Paths
      BY HubAssumption, <1>0 DEF Wanted, SyncTypeOK
    <3>2. CASE g = f
      BY <1>0, <1>5, <2>1, <2>2, <3>1, <3>2 DEF SyncTypeOK, SyncFile, IsFile
    <3>3. CASE g # f
      BY <1>0, <1>5, <2>1, <3>1, <3>3 DEF SyncTypeOK, SyncFile, TreeInv, IsFile
    <3> QED BY <3>2, <3>3
  <2>6. Wanted(ix, sel, cmd.env)' = Wanted(ix, sel, e)
    BY <1>5 DEF SyncFile, Wanted
  <2> QED BY <1>5, <2>3, <2>4, <2>5, <2>6 DEF SyncFile, TreeInv, MarkerVouchesForTree
<1>6. CASE WriteRuntimeMarker(e)
  <2>1. IsPublication(ix)'
    <3>1. synced'.sel = sel /\ synced'.env = cmd.env /\ tree' = tree
      BY <1>6 DEF WriteRuntimeMarker
    <3>2. /\ tree[ManifestPath] = Body[ix][ManifestPath]
          /\ \A f \in Wanted(ix, sel, cmd.env) : IsFile(f, ix)
      BY <1>6 DEF WriteRuntimeMarker, TreeInv
    <3>3. Wanted(ix, synced.sel, synced.env)' = Wanted(ix, sel, cmd.env)
      BY <1>6, <3>1 DEF WriteRuntimeMarker, Wanted
    <3>4. ix' = ix
      BY <1>6 DEF WriteRuntimeMarker
    <3> QED BY <3>1, <3>2, <3>3, <3>4 DEF IsPublication, IsFile
  <2>2. ix \in Pubs /\ ix' = ix
    BY <1>0, <1>6 DEF SyncTypeOK, WriteRuntimeMarker
  <2>3. (\E v \in Pubs : IsPublication(v))'
    BY <2>1, <2>2
  <2> QED BY <1>6, <2>3 DEF WriteRuntimeMarker, TreeInv, MarkerVouchesForTree, Fetching
<1>7. CASE WriteMarker
  BY <1>7 DEF WriteMarker, TreeInv, MarkerVouchesForTree, IsPublication, IsFile, Fetching
<1> QED BY <1>1, <1>2, <1>3, <1>4, <1>5, <1>6, <1>7 DEF SyncStep

\* Whenever the completion marker is there, the tree is one publication's,
\* unless a forced sync or a removal was begun and not ended.
THEOREM MarkedTree == Spec => []MarkerVouchesForTree
<1>1. Init => TreeInv
  BY DEF Init, SyncInit, TreeInv, MarkerVouchesForTree, Fetching
<1>2. TypeOK /\ TreeInv /\ [Next]_vars => TreeInv'
  <2> SUFFICES ASSUME TypeOK, TreeInv, [Next]_vars PROVE TreeInv'
    OBVIOUS
  <2>1. CASE UNCHANGED vars
    BY <2>1, TreeFrame DEF vars, syncVars, pipeVars
  <2>2. CASE Start
    <3>1. PICK forced : SyncStart(forced)
      BY <2>2 DEF Start
    <3> QED BY <3>1 DEF SyncStart, TreeInv, MarkerVouchesForTree, IsPublication, IsFile, Fetching,
                        syncDisk
  <2>3. CASE Sync
    <3>1. cmd.env \in Envs /\ cmd' = cmd
      BY <2>3, HubAssumption DEF Sync, TypeOK, NoCmd, pipeVars
    <3> QED BY <2>3, <3>1, TreeSyncStep DEF Sync
  <2>4. CASE Synced
    BY <2>4, TreeReset DEF Synced, SyncReset, syncDisk
  <2>5. CASE Refuse
    BY <2>5, TreeReset DEF Refuse, SyncReset, syncDisk
  <2>6. CASE Load \/ PrepareWeights \/ Ensure \/ Build \/ Built \/ UpgradeProtocol \/ Exit
    <3>1. UNCHANGED syncVars /\ sync # "files"
      BY <2>6 DEF Load, PrepareWeights, Ensure, Build, Built, UpgradeProtocol, Exit,
                  Continue, TypeOK
    <3> QED BY <3>1, TreeFrame DEF syncVars
  <2>7. CASE EnsureCuda \/ HostUpgrade \/ Scan \/ Decline
    <3>1. UNCHANGED syncVars /\ sync # "files"
      BY <2>7 DEF EnsureCuda, HostUpgrade, Scan, Decline, Continue, TypeOK
    <3> QED BY <3>1, TreeFrame DEF syncVars
  <2>8. CASE Abort
    <3>1. CASE sync # "off" /\ SyncAborts
      BY <3>1, TreeReset DEF SyncAborts, SyncReset
    <3>2. CASE ~(sync # "off" /\ SyncAborts)
      <4>1. UNCHANGED syncVars /\ sync # "files"
        BY <2>8, <3>2 DEF Abort, TypeOK
      <4> QED BY <4>1, TreeFrame DEF syncVars
    <3> QED BY <3>1, <3>2
  <2>9. CASE Upload
    BY <2>9, TreeFrame DEF Upload, Publish, pipeVars
  <2>10. CASE Clean \/ CleanAborts
    <3>1. PICK x \in victims, cut \in BOOLEAN : Remove(x, cut)
      BY <2>10 DEF Clean, CleanAborts
    <3>2. sync = "off"
      BY <2>10 DEF Clean, CleanAborts, TypeOK
    <3>3. CASE LeftOfTree(cut)
      BY <3>2, <3>3 DEF LeftOfTree, TreeInv, MarkerVouchesForTree, Fetching, syncRegs
    <3>4. CASE LeftOfModels(cut) \/ LeftOfRuntime(x, cut)
      <4>1. UNCHANGED <<tree, done, syncRegs, synced, treeCut>>
        BY <3>4 DEF LeftOfModels, LeftOfRuntime, syncVars, syncDisk
      <4> QED BY <3>2, <4>1 DEF TreeInv, MarkerVouchesForTree, IsPublication, IsFile, Fetching,
                                syncRegs
    <3> QED BY <3>1, <3>3, <3>4 DEF Remove
  <2> QED BY <2>1, <2>2, <2>3, <2>4, <2>5, <2>6, <2>7, <2>8, <2>9, <2>10
          DEF Next, CommandStep
<1>3. TreeInv => MarkerVouchesForTree
  BY DEF TreeInv
<1> QED BY <1>1, <1>2, <1>3, TypeCorrect, PTL DEF Spec

-----------------------------------------------------------------------------
(* The venv that the fingerprint vouches for *)

\* Why the fingerprint can be trusted: it is written when every package has been
\* installed for it, into a venv that was removed first.
VenvInv ==
  /\ FingerprintVouchesForVenv
  /\ build \in {"create", "protocol", "torch", "deps", "fingerprint"} => venvCut[rt]
  /\ build \in {"protocol", "torch", "deps", "fingerprint"} =>
       venv[rt].python = AbiOf[want]
  /\ build \in {"deps", "fingerprint"} /\ "torch" \in Stack[want] => venv[rt].torch = want
  /\ build = "fingerprint" /\ "deps" \in Stack[want] => venv[rt].deps = want

\* The venv r is left alone as far as the fingerprint is about it.
Alike(r) ==
  /\ venv'[r].python = venv[r].python
  /\ venv'[r].torch = venv[r].torch
  /\ venv'[r].deps = venv[r].deps
  /\ fp'[r] = fp[r] /\ venvCut'[r] = venvCut[r]

\* FingerprintVouchesForVenv of one runtime directory.
Vouched(r) ==
  \A w \in Wants :
    fp[r] = w /\ venv[r].python = AbiOf[w] /\ ~venvCut[r] => Whole(r, w)

LEMMA VouchedForAll == FingerprintVouchesForVenv <=> \A r \in Runtimes : Vouched(r)
BY DEF FingerprintVouchesForVenv, Vouched

LEMMA AlikeVouched ==
  ASSUME NEW r \in Runtimes, Vouched(r), Alike(r)
  PROVE  Vouched(r)'
BY DEF Vouched, Alike, Whole

\* No build is running and no venv is changed but for what was cut.
LEMMA VenvQuiet ==
  ASSUME VenvInv, build' \in {"off", "check", "remove", "done"},
         \A r \in Runtimes : Alike(r) \/ venvCut'[r]
  PROVE  VenvInv'
<1>1. ASSUME NEW r \in Runtimes PROVE Vouched(r)'
  <2>1. CASE Alike(r)
    BY <2>1, AlikeVouched, VouchedForAll DEF VenvInv
  <2>2. CASE venvCut'[r]
    BY <2>2 DEF Vouched
  <2> QED BY <2>1, <2>2
<1>2. FingerprintVouchesForVenv'
  BY <1>1 DEF FingerprintVouchesForVenv, Vouched
<1> QED BY <1>2 DEF VenvInv

\* One install into a venv whose removal was begun, and its stage facts.
LEMMA VenvInstalled ==
  ASSUME VenvTypeOK, VenvInv, NEW v, venv' = [venv EXCEPT ![rt] = v],
         UNCHANGED <<fp, rt, want, venvCut>>, venvCut[rt],
         build' \in {"create", "protocol", "torch", "deps", "fingerprint"},
         build' # "create" => v.python = AbiOf[want],
         build' \in {"deps", "fingerprint"} /\ "torch" \in Stack[want] => v.torch = want,
         build' = "fingerprint" /\ "deps" \in Stack[want] => v.deps = want
  PROVE  VenvInv'
<1>1. rt \in Runtimes /\ venv'[rt] = v
  BY DEF VenvTypeOK
<1>2. ASSUME NEW r \in Runtimes PROVE Vouched(r)'
  <2>1. CASE r = rt
    BY <2>1 DEF Vouched
  <2>2. CASE r # rt
    <3>1. Alike(r)
      BY <2>2 DEF Alike, VenvTypeOK
    <3> QED BY <3>1, AlikeVouched, VouchedForAll DEF VenvInv
  <2> QED BY <2>1, <2>2
<1>3. FingerprintVouchesForVenv'
  BY <1>2 DEF FingerprintVouchesForVenv, Vouched
<1> QED BY <1>1, <1>3 DEF VenvInv

LEMMA VenvBuildStep ==
  ASSUME VenvTypeOK, VenvInv, NEW force \in BOOLEAN, NEW s \in Schemas,
         BuildStep(force, s)
  PROVE  VenvInv'
<1>0. want \in Wants /\ rt \in Runtimes /\ venv[rt] \in Venv
  BY BuildStepType DEF VenvTypeOK
<1>1. CASE Check(force)
  <2>1. \A r \in Runtimes : Alike(r)
    BY <1>1 DEF Check, Alike, venvDisk
  <2>2. build' \in {"remove", "done"}
    BY <1>1 DEF Check
  <2> QED BY <2>1, <2>2, VenvQuiet
<1>2. CASE RemoveVenv
  <2>1. ASSUME NEW r \in Runtimes PROVE Vouched(r)'
    <3>1. CASE r = rt
      BY <1>2, <3>1 DEF RemoveVenv, Vouched, VenvTypeOK
    <3>2. CASE r # rt
      <4>1. Alike(r)
        BY <1>2, <3>2 DEF RemoveVenv, Alike, VenvTypeOK
      <4> QED BY <4>1, AlikeVouched, VouchedForAll DEF VenvInv
    <3> QED BY <3>1, <3>2
  <2>2. FingerprintVouchesForVenv'
    BY <2>1 DEF FingerprintVouchesForVenv, Vouched
  <2>3. venvCut'[rt'] /\ build' = "create"
    BY <1>0, <1>2 DEF RemoveVenv, VenvTypeOK
  <2> QED BY <2>2, <2>3 DEF VenvInv
<1>3. CASE CreateVenv
  <2>1. PICK v : v = [venv[rt] EXCEPT !.python = AbiOf[want]]
    OBVIOUS
  <2>2. venv' = [venv EXCEPT ![rt] = v]
    BY <1>3, <2>1 DEF CreateVenv
  <2>3. v.python = AbiOf[want]
    BY <1>0, <2>1 DEF Venv
  <2>4. build' = "protocol" /\ venvCut[rt] /\ UNCHANGED <<fp, rt, want, venvCut>>
    BY <1>3 DEF CreateVenv, VenvInv
  <2> QED BY <2>2, <2>3, <2>4, VenvInstalled
<1>4. CASE InstallProtocol(s)
  <2>0. PICK t \in s..MaxSchema : venv' = [venv EXCEPT ![rt].protocol = t]
    BY <1>4 DEF InstallProtocol
  <2>1. PICK v : v = [venv[rt] EXCEPT !.protocol = t]
    OBVIOUS
  <2>2. venv' = [venv EXCEPT ![rt] = v]
    BY <2>0, <2>1
  <2>3. v.python = AbiOf[want]
    BY <1>0, <1>4, <2>1 DEF InstallProtocol, VenvInv, Venv
  <2>4. build' = "torch" /\ venvCut[rt] /\ UNCHANGED <<fp, rt, want, venvCut>>
    BY <1>4 DEF InstallProtocol, VenvInv
  <2> QED BY <2>2, <2>3, <2>4, VenvInstalled
<1>5. CASE InstallTorch
  <2>1. PICK v : v = IF "torch" \in Stack[want] THEN [venv[rt] EXCEPT !.torch = want]
                     ELSE venv[rt]
    OBVIOUS
  <2>2. venv' = [venv EXCEPT ![rt] = v]
    BY <1>0, <1>5, <2>1 DEF InstallTorch, VenvTypeOK
  <2>3. v.python = AbiOf[want] /\ ("torch" \in Stack[want] => v.torch = want)
    BY <1>0, <1>5, <2>1 DEF InstallTorch, VenvInv, Venv
  <2>4. build' = "deps" /\ venvCut[rt] /\ UNCHANGED <<fp, rt, want, venvCut>>
    BY <1>5 DEF InstallTorch, VenvInv
  <2> QED BY <2>2, <2>3, <2>4, VenvInstalled
<1>6. CASE InstallDeps
  <2>1. PICK v : v = IF "deps" \in Stack[want] THEN [venv[rt] EXCEPT !.deps = want]
                     ELSE venv[rt]
    OBVIOUS
  <2>2. venv' = [venv EXCEPT ![rt] = v]
    BY <1>0, <1>6, <2>1 DEF InstallDeps, VenvTypeOK
  <2>3. /\ v.python = AbiOf[want] /\ ("torch" \in Stack[want] => v.torch = want)
        /\ "deps" \in Stack[want] => v.deps = want
    BY <1>0, <1>6, <2>1 DEF InstallDeps, VenvInv, Venv
  <2>4. build' = "fingerprint" /\ venvCut[rt] /\ UNCHANGED <<fp, rt, want, venvCut>>
    BY <1>6 DEF InstallDeps, VenvInv
  <2> QED BY <2>2, <2>3, <2>4, VenvInstalled
<1>7. CASE WriteFingerprint
  <2>1. ASSUME NEW r \in Runtimes PROVE Vouched(r)'
    <3>1. CASE r = rt
      <4>1. Whole(rt, want) /\ fp'[rt] = want /\ venv' = venv
        BY <1>0, <1>7 DEF WriteFingerprint, VenvInv, VenvTypeOK, Whole
      <4> QED BY <3>1, <4>1 DEF Vouched, Whole
    <3>2. CASE r # rt
      <4>1. Alike(r)
        BY <1>7, <3>2 DEF WriteFingerprint, Alike, VenvTypeOK
      <4> QED BY <4>1, AlikeVouched, VouchedForAll DEF VenvInv
    <3> QED BY <3>1, <3>2
  <2>2. FingerprintVouchesForVenv'
    BY <2>1 DEF FingerprintVouchesForVenv, Vouched
  <2> QED BY <1>7, <2>2 DEF WriteFingerprint, VenvInv
<1> QED BY <1>1, <1>2, <1>3, <1>4, <1>5, <1>6, <1>7 DEF BuildStep

LEMMA VenvStill ==
  ASSUME VenvInv, UNCHANGED venvVars
  PROVE  VenvInv'
BY DEF VenvInv, FingerprintVouchesForVenv, Whole, venvVars, venvDisk, venvRegs

LEMMA VenvInvariant == Spec => []VenvInv
<1>1. Init => VenvInv
  BY VenvAssumption
  DEF Init, VenvInit, VenvInv, FingerprintVouchesForVenv, NoVenv
<1>2. TypeOK /\ VenvInv /\ [Next]_vars => VenvInv'
  <2> SUFFICES ASSUME TypeOK, VenvInv, [Next]_vars PROVE VenvInv'
    OBVIOUS
  <2>0. VenvTypeOK
    BY DEF TypeOK
  <2>1. CASE UNCHANGED venvVars
    BY <2>1, VenvStill
  <2>2. CASE Ensure
    BY <2>2, VenvQuiet DEF Ensure, EnsureStart, Alike, venvDisk
  <2>3. CASE Build
    <3>1. (cmd.kind = "run" /\ cmd.force) \in BOOLEAN /\ host \in Schemas
      BY DEF TypeOK
    <3> QED BY <2>0, <2>3, <3>1, VenvBuildStep DEF Build
  <2>4. CASE Built
    BY <2>4, VenvQuiet DEF Built, EnsureReset, Alike, venvDisk
  <2>5. CASE UpgradeProtocol \/ EnsureCuda
    <3>1. build' = "off"
      BY <2>5 DEF UpgradeProtocol, EnsureCuda, Continue, TypeOK, venvRegs
    <3>2. ASSUME NEW r \in Runtimes PROVE Alike(r)
      <4>1. \/ venv' = venv
            \/ \E s : venv' = [venv EXCEPT ![RuntimeID].protocol = s]
            \/ venv' = [venv EXCEPT ![RuntimeID].cuda = TRUE]
        BY <2>5 DEF UpgradeProtocol, EnsureCuda
      <4>2. fp' = fp /\ venvCut' = venvCut
        BY <2>5 DEF UpgradeProtocol, EnsureCuda
      <4> QED BY <2>0, <4>1, <4>2 DEF Alike, VenvTypeOK, Venv
    <3> QED BY <3>1, <3>2, VenvQuiet
  <2>6. CASE Abort
    <3>1. CASE BuildAborts
      <4>1. build' = "off"
        BY <3>1 DEF BuildAborts, EnsureReset
      <4>2. ASSUME NEW r \in Runtimes PROVE Alike(r) \/ venvCut'[r]
        <5>1. CASE build = "remove"
          BY <2>0, <3>1, <5>1 DEF BuildAborts, Alike, VenvTypeOK
        <5>2. CASE build = "fingerprint"
          BY <2>0, <3>1, <5>2 DEF BuildAborts, Alike, VenvTypeOK, VenvInv
        <5>3. CASE build \notin {"remove", "fingerprint"}
          BY <3>1, <5>3 DEF BuildAborts, Alike
        <5> QED BY <5>1, <5>2, <5>3
      <4> QED BY <4>1, <4>2, VenvQuiet
    <3>2. CASE step = "schema" /\ venv' = [venv EXCEPT ![RuntimeID].protocol = 0]
                 /\ UNCHANGED <<fp, venvRegs, venvCut>>
      <4>1. build' = "off"
        BY <3>2 DEF TypeOK, venvRegs
      <4>2. ASSUME NEW r \in Runtimes PROVE Alike(r)
        BY <2>0, <3>2 DEF Alike, VenvTypeOK, Venv
      <4> QED BY <4>1, <4>2, VenvQuiet
    <3>3. CASE UNCHANGED venvVars
      BY <3>3, VenvStill
    <3> QED BY <2>6, <3>1, <3>2, <3>3 DEF Abort
  <2>7. CASE Clean \/ CleanAborts
    <3>1. PICK x \in victims, cut \in BOOLEAN : Remove(x, cut)
      BY <2>7 DEF Clean, CleanAborts
    <3>2. CASE UNCHANGED venvVars
      BY <3>2, VenvStill
    <3>3. CASE x \in Runtimes /\ LeftOfRuntime(x, cut)
      <4>1. build' = "off"
        BY <2>7, <3>3 DEF Clean, CleanAborts, TypeOK, LeftOfRuntime, venvRegs
      <4>2. ASSUME NEW r \in Runtimes PROVE Alike(r) \/ venvCut'[r]
        <5>1. PICK v : venv' = [venv EXCEPT ![x] = v]
          BY <3>3 DEF LeftOfRuntime
        <5>2. fp' = fp \/ fp' = [fp EXCEPT ![x] = NoWant]
          BY <3>3 DEF LeftOfRuntime
        <5>3. venvCut' = [venvCut EXCEPT ![x] = TRUE]
          BY <3>3 DEF LeftOfRuntime
        <5>4. CASE r = x
          BY <2>0, <5>3, <5>4 DEF VenvTypeOK
        <5>5. CASE r # x
          BY <2>0, <5>1, <5>2, <5>3, <5>5 DEF Alike, VenvTypeOK
        <5> QED BY <5>4, <5>5
      <4> QED BY <4>1, <4>2, VenvQuiet
    <3> QED BY <3>1, <3>2, <3>3 DEF Remove, LeftOfTree, LeftOfModels
  <2>8. CASE Start \/ Sync \/ Synced \/ Load \/ Refuse \/ PrepareWeights \/ Exit
    BY <2>1, <2>8 DEF Start, Sync, Synced, Load, Refuse, PrepareWeights, Exit
  <2>9. CASE HostUpgrade \/ Upload \/ Scan \/ Decline \/ UNCHANGED vars
    BY <2>1, <2>9 DEF HostUpgrade, Upload, Scan, Decline, vars
  <2> QED BY <2>2, <2>3, <2>4, <2>5, <2>6, <2>7, <2>8, <2>9 DEF Next, CommandStep
<1> QED BY <1>1, <1>2, TypeCorrect, PTL DEF Spec

\* A venv that Ensure would reuse has everything its fingerprint asks for, unless
\* a removal was begun and no build has ended since.
THEOREM FingerprintedVenv == Spec => []FingerprintVouchesForVenv
<1>1. VenvInv => FingerprintVouchesForVenv
  BY DEF VenvInv
<1> QED BY <1>1, VenvInvariant, PTL

-----------------------------------------------------------------------------
(* What the entry finds *)

\* What each stage of a run has established for the ones after it.
Fits(r, w) == fp[r] = w /\ venv[r].python = AbiOf[w]
RunWant == WantOf[tree[ManifestPath]][cmd.env]

StageInv ==
  /\ sync = "done" \/ step \notin {"idle", "sync"} => done # "none"
  /\ step \in {"schema", "exec"} => cmd.kind = "run"
  /\ build # "off" => rt = RuntimeID /\ want = RunWant
  /\ build = "done" => Fits(rt, want)
  /\ cmd.kind = "run" =>
       /\ step \in {"venv", "schema", "cuda", "exec"} => weights \in {"complete", "bare"}
       /\ step \in {"schema", "cuda", "exec"} => Fits(RuntimeID, RunWant)
       /\ step \in {"cuda", "exec"} => venv[RuntimeID].protocol >= host
  /\ step = "exec" => SystemCuda \/ venv[RuntimeID].cuda

\* Between commands and until the weights are prepared nothing is promised.
LEMMA StageEarly ==
  ASSUME build' = "off", step' \in {"idle", "sync", "load", "weights"},
         (sync = "done" \/ step \notin {"idle", "sync"} => done # "none")'
  PROVE  StageInv'
BY DEF StageInv

LEMMA RuntimeIDType == RuntimeID \in Runtimes
BY DEF RuntimeID, Runtimes

LEMMA StageInvariant == Spec => []StageInv
<1>1. Init => StageInv
  BY StageEarly DEF Init, SyncInit, VenvInit, StageInv, NoCmd
<1>2. TypeOK /\ VenvInv /\ StageInv /\ [Next]_vars => StageInv'
  <2> SUFFICES ASSUME TypeOK, VenvInv, StageInv, [Next]_vars PROVE StageInv'
    OBVIOUS
  <2>0. VenvTypeOK /\ SyncTypeOK
    BY DEF TypeOK
  <2>1. CASE UNCHANGED vars
    BY <2>1 DEF vars, syncVars, syncDisk, syncRegs, venvVars, venvDisk, venvRegs, pipeVars,
                StageInv, RuntimeID, RunWant, Fits
  <2>2. CASE Start \/ Sync \/ Synced \/ Refuse
    <3>1. build' = "off" /\ step' \in {"idle", "sync", "load"}
      BY <2>2 DEF Start, Sync, Synced, Refuse, Continue, After, TypeOK, pipeVars, venvVars,
                  venvRegs
    <3>2. (sync = "done" \/ step \notin {"idle", "sync"} => done # "none")'
      BY <2>2 DEF Start, SyncStart, Sync, Synced, Refuse, Continue, After, StageInv, SyncReset,
                  SyncStep, FetchIndex, DownloadManifest, ResolveEnv, SyncManifest, SyncFile,
                  WriteRuntimeMarker, WriteMarker, syncDisk, pipeVars
    <3> QED BY <3>1, <3>2, StageEarly
  <2>3. CASE HostUpgrade \/ Scan \/ Decline \/ Clean \/ CleanAborts
    <3>1. step' = "idle"
      BY <2>3 DEF HostUpgrade, Scan, Decline, Clean, CleanAborts
    <3>2. build' = "off"
      BY <2>3 DEF HostUpgrade, Scan, Decline, Clean, CleanAborts, Remove, LeftOfTree,
                  LeftOfModels, LeftOfRuntime, TypeOK, venvVars, venvRegs
    <3>3. sync' # "done"
      BY <2>3 DEF HostUpgrade, Scan, Decline, Clean, CleanAborts, Remove, LeftOfTree,
                  LeftOfModels, LeftOfRuntime, TypeOK, syncVars, syncRegs
    <3> QED BY <3>1, <3>2, <3>3, StageEarly
  <2>4. CASE Abort
    <3>1. step' = "idle"
      BY <2>4 DEF Abort
    <3>2. build' = "off"
      BY <2>4 DEF Abort, BuildAborts, EnsureReset, TypeOK, venvVars, venvRegs
    <3>3. sync' # "done"
      BY <2>4 DEF Abort, SyncAborts, SyncReset, TypeOK, syncVars, syncRegs
    <3> QED BY <3>1, <3>2, <3>3, StageEarly
  <2>5. CASE Upload
    BY <2>5 DEF Upload, Publish, syncDisk, syncRegs, venvVars, venvDisk, venvRegs, pipeVars,
                StageInv, RuntimeID, RunWant, Fits
  <2>14. ASSUME Load \/ PrepareWeights \/ Ensure \/ Build \/ Built \/ UpgradeProtocol
               \/ EnsureCuda \/ Exit
        PROVE  (sync = "done" \/ step \notin {"idle", "sync"} => done # "none")'
    <3>1. /\ step \notin {"idle", "sync"}
          /\ UNCHANGED syncVars
      BY <2>14 DEF Load, PrepareWeights, Ensure, Build, Built, UpgradeProtocol, EnsureCuda,
                  Exit, Continue
    <3> QED BY <3>1 DEF StageInv, syncVars, syncDisk
  <2>6. CASE Load
    <3>1. build' = "off" /\ (cmd'.kind = "run" => step' = "weights")
          /\ step' \in {"weights", "venv"}
      BY <2>6 DEF Load, Continue, After, TypeOK, venvVars, venvRegs, NoCmd
    <3> QED BY <2>14, <2>6, <3>1 DEF StageInv
  <2>7. CASE PrepareWeights
    <3>1. build' = "off" /\ step' \in {"venv", "idle"}
          /\ (step' = "venv" => weights' \in {"complete", "bare"})
      BY <2>7 DEF PrepareWeights, WeightsUsable, Continue, After, TypeOK, venvVars, venvRegs
    <3> QED BY <2>14, <2>7, <3>1 DEF StageInv
  <2>8. CASE Ensure
    BY <2>8, <2>14 DEF Ensure, EnsureStart, StageInv, RuntimeID, RunWant, pipeVars, syncVars,
                syncDisk
  <2>9. CASE Build
    <3>1. (cmd.kind = "run" /\ cmd.force) \in BOOLEAN /\ host \in Schemas
      BY DEF TypeOK
    <3>2. build # "off" /\ build' # "off" /\ rt' = rt /\ want' = want
      BY <2>0, <2>9, <3>1, BuildStepType DEF Build
    <3>3. RuntimeID' = RuntimeID /\ RunWant' = RunWant /\ step = "venv"
          /\ UNCHANGED <<step, cmd, weights>>
      BY <2>9 DEF Build, RuntimeID, RunWant, pipeVars, syncVars, syncDisk
    <3>4. build' = "done" => Fits(rt, want)'
      <4>1. build' = "done" =>
              Check(cmd.kind = "run" /\ cmd.force) \/ WriteFingerprint
        BY <2>9 DEF Build, BuildStep, RemoveVenv, CreateVenv, InstallProtocol,
                    InstallTorch, InstallDeps
      <4>2. CASE Check(cmd.kind = "run" /\ cmd.force)
        BY <4>2 DEF Check, Reusable, Fits, venvDisk
      <4>3. CASE WriteFingerprint
        BY <2>0, <4>3 DEF WriteFingerprint, VenvInv, Fits, VenvTypeOK
      <4> QED BY <4>1, <4>2, <4>3
    <3> QED BY <2>14, <2>9, <3>2, <3>3, <3>4 DEF StageInv
  <2>10. CASE Built
    <3>1. RuntimeID' = RuntimeID /\ venv' = venv /\ fp' = fp /\ tree' = tree
          /\ weights' = weights /\ build' = "off" /\ build = "done"
      BY <2>10 DEF Built, EnsureReset, RuntimeID, syncVars, syncDisk, venvDisk
    <3>2. /\ step' \in {"schema", "cuda"} /\ cmd' = cmd /\ step = "venv"
          /\ cmd.kind = "run" <=> step' = "schema"
      BY <2>10 DEF Built, Continue, After
    <3>3. Fits(RuntimeID, RunWant) /\ RunWant' = RunWant
      BY <3>1, <3>2 DEF StageInv, RunWant
    <3>4. Fits(RuntimeID, RunWant)'
      BY <3>1, <3>3 DEF Fits
    <3> QED BY <2>14, <2>10, <3>1, <3>2, <3>4 DEF StageInv
  <2>11. CASE UpgradeProtocol
    <3>1. RuntimeID' = RuntimeID /\ fp' = fp /\ tree' = tree /\ weights' = weights
          /\ build' = "off" /\ host' = host
      BY <2>11 DEF UpgradeProtocol, RuntimeID, syncVars, syncDisk, Continue, TypeOK,
                   venvRegs
    <3>2. /\ step' = "cuda" /\ cmd' = cmd /\ step = "schema" /\ cmd.kind = "run"
      BY <2>11 DEF UpgradeProtocol, Continue, After, StageInv
    <3>3. venv[RuntimeID] \in Venv /\ host \in Nat
      BY <2>0, RuntimeIDType, VenvAssumption DEF VenvTypeOK, TypeOK, Schemas
    <3>4. /\ venv'[RuntimeID].protocol >= host
          /\ venv'[RuntimeID].python = venv[RuntimeID].python
      <4>1. CASE Stale
        <5>1. PICK t \in host..MaxSchema :
                venv' = [venv EXCEPT ![RuntimeID].protocol = t]
          BY <2>11, <4>1 DEF UpgradeProtocol
        <5>2. venv'[RuntimeID] = [venv[RuntimeID] EXCEPT !.protocol = t]
          BY <2>0, <5>1, RuntimeIDType DEF VenvTypeOK
        <5>3. /\ venv'[RuntimeID].protocol = t
              /\ venv'[RuntimeID].python = venv[RuntimeID].python
          BY <3>3, <5>2 DEF Venv
        <5> QED BY <3>3, <5>1, <5>3, VenvAssumption
      <4>2. CASE ~Stale
        BY <2>11, <3>3, <4>2, VenvAssumption DEF UpgradeProtocol, Stale, Venv
      <4> QED BY <4>1, <4>2
    <3>5. Fits(RuntimeID, RunWant) /\ RunWant' = RunWant
      BY <3>1, <3>2 DEF StageInv, RunWant
    <3>6. Fits(RuntimeID, RunWant)'
      BY <3>1, <3>4, <3>5 DEF Fits
    <3> QED BY <2>14, <2>11, <3>1, <3>2, <3>4, <3>6 DEF StageInv
  <2>12. CASE EnsureCuda
    <3>1. RuntimeID' = RuntimeID /\ fp' = fp /\ tree' = tree /\ weights' = weights
          /\ build' = "off" /\ host' = host
      BY <2>12 DEF EnsureCuda, RuntimeID, syncVars, syncDisk, Continue, TypeOK, venvRegs
    <3>2. /\ step' \in {"exec", "weights", "idle"} /\ step = "cuda"
          /\ step' = "exec" => cmd' = cmd /\ cmd.kind = "run"
          /\ step' = "weights" => cmd' = cmd /\ cmd.kind # "run"
      BY <2>12 DEF EnsureCuda, Continue, After
    <3>3. CASE step' = "exec"
      <4>1. venv[RuntimeID] \in Venv
        BY <2>0, RuntimeIDType DEF VenvTypeOK
      <4>2. /\ venv'[RuntimeID].protocol = venv[RuntimeID].protocol
            /\ venv'[RuntimeID].python = venv[RuntimeID].python
            /\ SystemCuda \/ venv'[RuntimeID].cuda
        <5>1. CASE CudaMissing
          <6>1. venv'[RuntimeID] = [venv[RuntimeID] EXCEPT !.cuda = TRUE]
            BY <2>0, <2>12, <5>1, RuntimeIDType DEF EnsureCuda, VenvTypeOK
          <6> QED BY <4>1, <6>1 DEF Venv
        <5>2. CASE ~CudaMissing
          BY <2>12, <3>2, <3>3, <5>2 DEF EnsureCuda, CudaMissing
        <5> QED BY <5>1, <5>2
      <4>3. Fits(RuntimeID, RunWant) /\ venv[RuntimeID].protocol >= host
            /\ weights \in {"complete", "bare"} /\ RunWant' = RunWant
        BY <3>1, <3>2, <3>3 DEF StageInv, RunWant
      <4>4. Fits(RuntimeID, RunWant)'
        BY <3>1, <4>2, <4>3 DEF Fits
      <4> QED BY <2>14, <2>12, <3>1, <3>2, <3>3, <4>2, <4>3, <4>4 DEF StageInv
    <3>4. CASE step' # "exec"
      BY <2>14, <2>12, <3>1, <3>2, <3>4, StageEarly
    <3> QED BY <2>14, <2>12, <3>3, <3>4
  <2>13. CASE Exit
    <3>1. build' = "off" /\ step' = "idle"
      BY <2>13 DEF Exit, Continue, After, TypeOK, StageInv, venvVars, venvRegs
    <3> QED BY <2>14, <2>13, <3>1, StageEarly
  <2> QED BY <2>1, <2>2, <2>3, <2>4, <2>5, <2>6, <2>7, <2>8, <2>9, <2>10, <2>11, <2>12,
             <2>13
          DEF Next, CommandStep
<1> QED BY <1>1, <1>2, TypeCorrect, VenvInvariant, PTL DEF Spec

\* Whatever was interrupted before, an entry that is started has its weights, its
\* protocol package and its CUDA libraries, and the tree and the venv are what
\* their markers vouch for.
THEOREM EntryIsPrepared == Spec => []EntryFindsWhatItNeeds
<1>1. TypeOK /\ MarkerVouchesForTree /\ FingerprintVouchesForVenv /\ StageInv
        => EntryFindsWhatItNeeds
  <2> SUFFICES ASSUME TypeOK, MarkerVouchesForTree, FingerprintVouchesForVenv, StageInv,
                      step = "exec"
               PROVE  EntryFindsWhatItNeeds
    BY DEF EntryFindsWhatItNeeds
  <2>1. RunWant \in Wants
    <3>1. Loadable(cmd.env) /\ cmd.env \in Envs
      BY HubAssumption DEF TypeOK, NoCmd
    <3>2. tree[ManifestPath] \in Pubs
      BY <3>1, HubAssumption DEF Loadable, TypeOK, SyncTypeOK
    <3> QED BY <3>1, <3>2, PipelineAssumption DEF RunWant
  <2> QED BY <2>1, RuntimeIDType
      DEF StageInv, Fits, RunWant, FingerprintVouchesForVenv, MarkerVouchesForTree,
          EntryFindsWhatItNeeds
<1> QED BY <1>1, TypeCorrect, MarkedTree, StageInvariant, FingerprintedVenv, PTL

-----------------------------------------------------------------------------
(* The offline guarantee *)

\* What a run leaves on the disk for the next one in environment e.
Ready(e) ==
  /\ done # "none" /\ weights \in {"complete", "bare"}
  /\ Fits(RuntimeID, WantOf[tree[ManifestPath]][e])
  /\ venv[RuntimeID].protocol >= host
  /\ SystemCuda \/ venv[RuntimeID].cuda

\* A command that began on a prepared bundle is an unforced run of it, and neither
\* its sync nor its build has anything to do.
OfflineInv ==
  prepared # NoEnv =>
    /\ Ready(prepared)
    /\ sync \in {"off", "done"} /\ build \in {"off", "check", "done"}
    /\ step \notin {"idle", "exec"} => cmd.kind = "run" /\ cmd.env = prepared /\ ~cmd.force

\* A step that leaves the disk alone leaves the bundle prepared.
LEMMA ReadyStays ==
  ASSUME NEW e, Ready(e),
         UNCHANGED <<done, weights, tree, venv, fp, host>>
  PROVE  Ready(e)'
BY DEF Ready, Fits, RuntimeID

\* The checks of each stage find nothing missing.
LEMMA NothingMissing ==
  ASSUME TypeOK, StageInv, OfflineInv, prepared # NoEnv, step \notin {"idle", "exec"}
  PROVE  /\ step = "weights" => WeightsUsable
         /\ ~Stale /\ ~CudaMissing
         /\ build = "check" => Reusable
<1>1. venv[RuntimeID].protocol \in Nat /\ host \in Nat
  BY RuntimeIDType, VenvAssumption DEF TypeOK, VenvTypeOK, Venv, Schemas
<1>2. build = "check" => want \in Wants /\ AbiOf[want] # 0
  BY VenvAssumption DEF TypeOK, VenvTypeOK
<1> QED
  BY <1>1, <1>2 DEF OfflineInv, Ready, WeightsUsable, Stale, CudaMissing, Reusable, StageInv,
                    Fits, RunWant

LEMMA OfflineStep ==
  ASSUME TypeOK, StageInv, StageInv', OfflineInv, [Next]_vars
  PROVE  OfflineInv'
<1>1. CASE prepared' = NoEnv
  BY <1>1 DEF OfflineInv
<1>2. CASE HostUpgrade \/ Clean \/ CleanAborts
  BY <1>1, <1>2 DEF HostUpgrade, Clean, CleanAborts
<1>3. CASE Start
  <2>1. PICK k \in Kinds, e \in Envs, force \in BOOLEAN :
          /\ cmd' = [kind |-> k, env |-> e, force |-> force]
          /\ SyncStart(k = "sync" /\ force)
          /\ prepared' = IF k = "run" /\ e = prepared /\ ~force THEN prepared ELSE NoEnv
    BY <1>3 DEF Start
  <2>2. CASE k = "run" /\ e = prepared /\ ~force /\ prepared # NoEnv
    <3>1. UNCHANGED <<done, weights, tree, venv, fp, host, build>> /\ sync' = "done"
      BY <1>3, <2>1, <2>2 DEF Start, SyncStart, OfflineInv, Ready, syncDisk, venvVars, venvDisk,
                              venvRegs
    <3>2. Ready(prepared)'
      BY <2>1, <2>2, <3>1, ReadyStays DEF OfflineInv
    <3> QED BY <2>1, <2>2, <3>1, <3>2 DEF OfflineInv
  <2> QED BY <1>1, <2>1, <2>2
<1>4. CASE EnsureCuda
  <2>1. CASE cmd.kind = "run"
    <3>1. step' = "exec" /\ cmd' = cmd /\ prepared' = cmd.env
      BY <1>4, <2>1 DEF EnsureCuda, Continue, After
    <3>2. Ready(cmd.env)'
      BY <3>1 DEF StageInv, Ready, RunWant
    <3>3. sync' = "off" /\ build' = "off"
      BY <1>4 DEF EnsureCuda, Continue, TypeOK, syncVars, syncRegs, venvRegs
    <3> QED BY <3>1, <3>2, <3>3 DEF OfflineInv
  <2>2. CASE cmd.kind # "run"
    <3>1. prepared = NoEnv
      BY <1>4, <2>2 DEF EnsureCuda, Continue, OfflineInv
    <3> QED BY <1>1, <1>4, <2>2, <3>1 DEF EnsureCuda
  <2> QED BY <2>1, <2>2
<1>5. ASSUME prepared # NoEnv, prepared' = prepared,
             UNCHANGED <<done, weights, tree, venv, fp, host>>,
             sync' \in {"off", "done"}, build' \in {"off", "check", "done"},
             step' \in {"idle", "exec"} \/ (cmd' = cmd /\ step \notin {"idle", "exec"})
      PROVE  OfflineInv'
  BY <1>5, ReadyStays DEF OfflineInv
<1>6. CASE prepared # NoEnv /\ (Sync \/ Synced \/ Load \/ Refuse)
  <2>1. ~Sync
    BY <1>6 DEF OfflineInv, Sync, SyncStep, FetchIndex, DownloadManifest, ResolveEnv,
                SyncManifest, SyncFile, WriteRuntimeMarker, WriteMarker
  <2>2. /\ UNCHANGED <<done, weights, tree, venv, fp, host, prepared, build>>
        /\ sync' \in {sync, "off"}
    BY <1>6, <2>1 DEF Synced, Load, Refuse, SyncReset, syncVars, syncDisk, syncRegs, venvVars,
                      venvDisk, venvRegs
  <2>3. step' = "idle" \/ (cmd' = cmd /\ step \notin {"idle", "exec"})
    BY <1>6, <2>1 DEF Synced, Load, Refuse, Continue
  <2> QED BY <1>5, <1>6, <2>2, <2>3 DEF OfflineInv
<1>7. CASE prepared # NoEnv /\ (PrepareWeights \/ UpgradeProtocol)
  <2>1. step \in {"weights", "schema"}
    BY <1>7 DEF PrepareWeights, UpgradeProtocol, Continue
  <2>2. /\ UNCHANGED <<done, weights, tree, venv, fp, host, prepared, build, sync>>
    BY <1>7, <2>1, NothingMissing
    DEF PrepareWeights, UpgradeProtocol, Continue, syncVars, syncDisk, syncRegs, venvVars,
        venvDisk, venvRegs
  <2>3. step' = "idle" \/ cmd' = cmd
    BY <1>7 DEF PrepareWeights, UpgradeProtocol, Continue
  <2> QED BY <1>5, <1>7, <2>1, <2>2, <2>3 DEF OfflineInv
<1>8. CASE prepared # NoEnv /\ (Ensure \/ Build \/ Built)
  <2>1. step = "venv" /\ cmd.kind = "run" /\ ~cmd.force
    BY <1>8 DEF Ensure, Build, Built, Continue, OfflineInv
  <2>2. ASSUME Build PROVE build' = "done" /\ UNCHANGED <<venvDisk, syncVars, pipeVars>>
    <3>1. BuildStep(FALSE, host)
      BY <2>1, <2>2 DEF Build
    <3>2. build = "check" /\ Check(FALSE)
      BY <1>8, <3>1 DEF OfflineInv, BuildStep, Check, RemoveVenv, CreateVenv, InstallProtocol,
                        InstallTorch, InstallDeps, WriteFingerprint
    <3> QED BY <1>8, <2>1, <2>2, <3>2, NothingMissing DEF Build, Check
  <2>3. /\ UNCHANGED <<done, weights, tree, venv, fp, host, prepared, sync>>
        /\ build' \in {"off", "check", "done"}
    BY <1>8, <2>2 DEF Ensure, EnsureStart, Built, EnsureReset, syncVars, syncDisk, syncRegs,
                      venvDisk, pipeVars
  <2>4. step' = "idle" \/ cmd' = cmd
    BY <1>8, <2>2 DEF Ensure, Built, Continue, pipeVars
  <2> QED BY <1>5, <1>8, <2>1, <2>3, <2>4 DEF OfflineInv
<1>9. CASE prepared # NoEnv /\ Abort
  <2>1. step' = "idle" /\ prepared' = prepared /\ host' = host /\ step \notin {"idle", "exec"}
    BY <1>9 DEF Abort
  <2>2. /\ UNCHANGED <<done, weights, tree, venv, fp>>
        /\ sync' \in {"off", "done"} /\ build' \in {"off", "check", "done"}
    BY <1>9, <2>1, NothingMissing
    DEF Abort, SyncAborts, SyncReset, BuildAborts, EnsureReset, OfflineInv, syncVars, syncDisk,
        syncRegs, venvVars, venvDisk, venvRegs
  <2> QED BY <1>5, <1>9, <2>1, <2>2
<1>10. CASE prepared # NoEnv /\ (Exit \/ Upload \/ Scan \/ Decline \/ UNCHANGED vars)
  <2>1. /\ UNCHANGED <<done, weights, tree, venv, fp, host, prepared, build, sync>>
        /\ step' = "idle" \/ UNCHANGED <<step, cmd>>
    BY <1>10 DEF Exit, Continue, After, StageInv, Upload, Publish, Scan, Decline, vars, syncVars,
                 syncDisk, syncRegs, venvVars, venvDisk, venvRegs, pipeVars
  <2> QED BY <1>10, <2>1, ReadyStays DEF OfflineInv
<1>11. CASE prepared = NoEnv /\ ~Start /\ ~EnsureCuda
  <2>1. prepared' = NoEnv
    BY <1>11 DEF Next, CommandStep, Sync, Synced, Load, Refuse, PrepareWeights, Ensure, Build,
                 Built, UpgradeProtocol, Exit, Abort, HostUpgrade, Upload, Scan, Decline, Clean,
                 CleanAborts, vars, pipeVars
  <2> QED BY <1>1, <2>1
<1> QED BY <1>2, <1>3, <1>4, <1>6, <1>7, <1>8, <1>9, <1>10, <1>11 DEF Next, CommandStep

\* For every hub, environment and number of interruptions: once a run has reached its
\* entry, later runs in its environment need no network (docs/architecture.md).
THEOREM OfflineOncePrepared == Spec => []PreparedRunsOffline
<1>1. Init => OfflineInv
  BY DEF Init, OfflineInv
<1>2. TypeOK /\ StageInv /\ StageInv' /\ OfflineInv /\ [Next]_vars => OfflineInv'
  BY OfflineStep
<1>3. TypeOK /\ StageInv /\ OfflineInv => PreparedRunsOffline
  <2> SUFFICES ASSUME TypeOK, StageInv, OfflineInv, cmd.kind = "run", prepared = cmd.env
               PROVE  ~AtNetwork
    BY DEF PreparedRunsOffline
  <2>1. prepared # NoEnv
    BY HubAssumption DEF TypeOK, NoCmd
  <2>2. CASE step \in {"idle", "exec"}
    BY <2>1, <2>2 DEF AtNetwork, OfflineInv
  <2>3. CASE step \notin {"idle", "exec"}
    BY <2>1, <2>3, NothingMissing DEF AtNetwork, OfflineInv
  <2> QED BY <2>2, <2>3
<1> QED BY <1>1, <1>2, <1>3, TypeCorrect, StageInvariant, PTL DEF Spec
=============================================================================
