----------------------------- MODULE BundleSync -----------------------------
(***************************************************************************)
(* The synced tree of one FlashHub bundle (go/internal/flashhub) and the   *)
(* command that brings it up to date (ensureBundleRef in                   *)
(* go/internal/cli/ref_resolve.go).                                        *)
(*                                                                         *)
(* The hub's repository is a series of publications; the publication a     *)
(* file's bytes come from stands for the bytes.  A file is downloaded to a *)
(* temporary name, checked and renamed, so it is absent or whole.  One     *)
(* command works on the tree at a time.  The actions are parameterised by  *)
(* the command's host environment e and its --force; RunPipeline gives the *)
(* commands.                                                               *)
(***************************************************************************)
EXTENDS Naturals

CONSTANTS
  Paths,      \* the bundle-relative paths of every publication
  ManifestPath,
  Dirs,       \* the runtime directories
  NoDir,      \* not in a runtime directory; no runtime directory declared
  Legacy,     \* the directories under the top-level runtime/
  DirOf,      \* [Paths -> Dirs or NoDir]
  Envs,       \* the host environments a command may resolve to
  NoEnv,      \* none of them
  MaxPub,     \* bound: publications
  Index,      \* [Pubs -> SUBSET Paths]: the repository index
  Body,       \* [Pubs -> [Paths -> Pubs]]: the publication that wrote a file
  Unhashed,   \* the files the index lists without an MD5
  Supports,   \* [Pubs -> SUBSET Envs]: the manifest's environments
  RuntimeOf   \* [Pubs -> [Envs -> Dirs or NoDir]]: its runtime map

Pubs == 1..MaxPub
Absent == 0

ASSUME HubAssumption ==
  /\ MaxPub \in Nat \ {0} /\ NoEnv \notin Envs
  /\ ManifestPath \in Paths \ Unhashed
  /\ Legacy \subseteq Dirs /\ NoDir \notin Dirs
  /\ DirOf \in [Paths -> Dirs \cup {NoDir}] /\ DirOf[ManifestPath] = NoDir
  /\ Index \in [Pubs -> SUBSET Paths]
  /\ Body \in [Pubs -> [Paths -> Pubs]]
  /\ Supports \in [Pubs -> SUBSET Envs]
  /\ RuntimeOf \in [Pubs -> [Envs -> Dirs \cup {NoDir}]]
  /\ \A v \in Pubs : ManifestPath \in Index[v]

VARIABLES
  hub,       \* the current publication
  tree,      \* [Paths -> Absent or the publication the file's bytes are of]
  done,      \* .flashcli_bundle.json, the completion marker
  rtMarker,  \* .runtime.json in the runtime directory of the repository
  sync,      \* where ensureBundleRef is
  ix,        \* the publication of the index it fetched last
  sel,       \* the manifest it selects the environment and the files with
  todo,      \* the wanted files it has not handled yet
  synced,    \* history: [env, sel] of the last sync that fetched every file
  treeCut    \* history: a forced sync or a removal was begun since then

syncDisk == <<tree, done, rtMarker>>
syncRegs == <<sync, ix, sel, todo>>
syncVars == <<hub, syncDisk, syncRegs, synced, treeCut>>

Marker == {"none", "torn", "ok"}
SyncStages == {"off", "index", "manifest", "resolve", "reindex", "remanifest",
               "files", "mark", "done"}

SyncTypeOK ==
  /\ hub \in Pubs
  /\ tree \in [Paths -> Pubs \cup {Absent}]
  /\ done \in Marker /\ rtMarker \in Marker
  /\ sync \in SyncStages
  /\ ix \in Pubs /\ sel \in Pubs /\ todo \in SUBSET Paths
  /\ synced \in [env : Envs \cup {NoEnv}, sel : Pubs]
  /\ treeCut \in BOOLEAN

SyncInit ==
  /\ hub = 1
  /\ tree = [f \in Paths |-> Absent]
  /\ done = "none" /\ rtMarker = "none"
  /\ sync = "off" /\ ix = 1 /\ sel = 1 /\ todo = {}
  /\ synced = [env |-> NoEnv, sel |-> 1]
  /\ treeCut = FALSE

-----------------------------------------------------------------------------
(* What a publication's files are *)

RuntimeRels(m) == {RuntimeOf[m][e] : e \in Supports[m]} \ {NoDir}

\* The selected runtime directory and what is in no other declared or legacy
\* directory.
WantFile(f, selected, rels) ==
  \/ DirOf[f] \in {NoDir, selected}
  \/ DirOf[f] \notin rels \cup Legacy

\* The files of publication v that manifest m wants for environment e.
Wanted(v, m, e) == {f \in Index[v] : WantFile(f, RuntimeOf[m][e], RuntimeRels(m))}

\* (mutant: an existing file is never downloaded again)
SkipExisting(f, v) == IF tree[f] # Absent THEN tree[f] ELSE Body[v][f]
\* DownloadFile: a file whose MD5 is the index's is left alone, and so is any
\* existing file of an index entry without one.
Downloaded(f, v) ==
  IF f \in Unhashed /\ tree[f] # Absent THEN tree[f] ELSE Body[v][f]

\* (mutant: a marker that cannot be read makes the bundle unusable)
MarkedLoadable(e) ==
  done = "ok" /\ tree[ManifestPath] # Absent /\ e \in Supports[tree[ManifestPath]]
\* The manifest on disk.  (tree[ManifestPath] names the publication.)
Loadable(e) == tree[ManifestPath] # Absent /\ e \in Supports[tree[ManifestPath]]

-----------------------------------------------------------------------------
(* ensureBundleRef *)

\* (mutant: the hub is asked every time)
AskAlways(force) ==
  /\ sync = "off"
  /\ sync' = "index"
  /\ treeCut' = (treeCut \/ force)
  /\ UNCHANGED <<hub, syncDisk, ix, sel, todo, synced>>
\* The completion marker alone decides whether the hub is asked at all.
SyncStart(force) ==
  /\ sync = "off"
  /\ sync' = IF done # "none" /\ ~force THEN "done" ELSE "index"
  /\ treeCut' = (treeCut \/ force)
  /\ UNCHANGED <<hub, syncDisk, ix, sel, todo, synced>>

FetchIndex ==
  /\ \/ sync = "index" /\ sync' = "manifest"
     \/ sync = "reindex" /\ sync' = "remanifest"
  /\ ix' = hub
  /\ UNCHANGED <<hub, syncDisk, sel, todo, synced, treeCut>>

\* The manifest is downloaded and read back before anything else is decided.
DownloadManifest ==
  /\ sync = "manifest"
  /\ tree' = [tree EXCEPT ![ManifestPath] = Downloaded(ManifestPath, ix)]
  /\ sel' = tree'[ManifestPath]
  /\ sync' = "resolve"
  /\ UNCHANGED <<hub, done, rtMarker, ix, todo, synced, treeCut>>

\* resolveEnvKey: an environment the manifest does not have fails the command.
ResolveEnv(e) ==
  /\ sync = "resolve" /\ e \in Supports[sel]
  /\ sync' = "reindex"
  /\ UNCHANGED <<hub, syncDisk, ix, sel, todo, synced, treeCut>>

\* SyncBundle fetches the index and the manifest again, and applies the first
\* manifest's selection to the second index.
SyncManifest(e) ==
  /\ sync = "remanifest"
  /\ tree' = [tree EXCEPT ![ManifestPath] = Downloaded(ManifestPath, ix)]
  /\ todo' = Wanted(ix, sel, e)
  /\ sync' = "files"
  /\ UNCHANGED <<hub, done, rtMarker, ix, sel, synced, treeCut>>

SyncFile ==
  /\ sync = "files"
  /\ \E f \in todo :
       /\ tree' = [tree EXCEPT ![f] = Downloaded(f, ix)]
       /\ todo' = todo \ {f}
  /\ UNCHANGED <<hub, done, rtMarker, sync, ix, sel, synced, treeCut>>

\* Every file is there: the runtime marker is written ...
WriteRuntimeMarker(e) ==
  /\ sync = "files" /\ todo = {}
  /\ rtMarker' = "ok"
  /\ synced' = [env |-> e, sel |-> sel]
  /\ treeCut' = FALSE
  /\ sync' = "mark"
  /\ UNCHANGED <<hub, tree, done, ix, sel, todo>>

\* ... and then the completion marker.
WriteMarker ==
  /\ sync = "mark"
  /\ done' = "ok"
  /\ sync' = "done"
  /\ UNCHANGED <<hub, tree, rtMarker, ix, sel, todo, synced, treeCut>>

SyncStep(e) ==
  \/ FetchIndex
  \/ DownloadManifest
  \/ ResolveEnv(e)
  \/ SyncManifest(e)
  \/ SyncFile
  \/ WriteRuntimeMarker(e)
  \/ WriteMarker

\* The command returns to its caller.
SyncReset == sync' = "off" /\ ix' = 1 /\ sel' = 1 /\ todo' = {}

\* A step fails or the process is killed.  A marker that was being written may
\* be left truncated, which os.WriteFile does not prevent.
SyncAborts ==
  /\ sync # "off"
  /\ done' \in {done} \cup (IF sync = "mark" THEN {"torn"} ELSE {})
  /\ rtMarker' \in {rtMarker}
       \cup (IF sync = "files" /\ todo = {} THEN {"torn"} ELSE {})
  /\ SyncReset
  /\ UNCHANGED <<hub, tree, synced, treeCut>>

\* A new version of the bundle is uploaded (outside flashcli).
Publish ==
  /\ hub < MaxPub
  /\ hub' = hub + 1
  /\ UNCHANGED <<syncDisk, syncRegs, synced, treeCut>>

-----------------------------------------------------------------------------
(* What the marker vouches for *)

\* File f is there and, if the index lists its MD5, is publication v's.
IsFile(f, v) ==
  IF f \in Unhashed THEN tree[f] # Absent ELSE tree[f] = Body[v][f]

\* The tree is the files one publication v has for the environment and the
\* selection of the last whole sync, and v's manifest.
IsPublication(v) ==
  /\ tree[ManifestPath] = Body[v][ManifestPath]
  /\ \A f \in Wanted(v, synced.sel, synced.env) : IsFile(f, v)

(* Whenever the completion marker is there - even truncated - the tree is    *)
(* one publication's, not a mixture of what several syncs fetched, unless a  *)
(* forced sync or a removal was begun and did not end                        *)
(* (ref_resolve.go: "Only treat the tree as synced when the completion       *)
(* marker exists (written after a full sync)").                              *)
MarkerVouchesForTree ==
  done # "none" /\ ~treeCut => \E v \in Pubs : IsPublication(v)
=============================================================================
