# A TLA+ verification of flashcli

flashcli runs model *bundles*: a Go host (`go/`) resolves a bundle reference,
syncs its tree from FlashHub, chooses an environment, builds a Python venv,
downloads the weights and starts the bundle's inference; a Python package
(`flashcli-bundle/`) runs inside the venv, finds again what the host prepared,
repairs what is missing, loads the bundle's entry and serves HTTP. This
directory holds TLA+ models of the parts where order, crashes, concurrency or
two implementations of one rule matter, the TLC configurations that check them,
and TLAPS proofs of what matters most.

Paths below are relative to the repository's root; the Python package is
`flashcli-bundle/src/flashcli_bundle`, and its modules are named without it.

## 1. Inventory

On the host:

| component | state it keeps | operations | talks to | hard behaviour |
|---|---|---|---|---|
| **Weights cache** `go/internal/weights` | a directory per source/repo/revision: files, `.incomplete` files, `.flashcli_download.json`, `.flashcli_download.incomplete` | `Download`, `IsCached`, `DownloadBundle`, `PrepareBundle` | hub HTTP API, every bundle of the same repository | crash between any two writes, resume, retries over mirrors, two commands without a lock, upstream changes |
| **Bundle sync** `go/internal/flashhub`, `cli/ref_resolve.go` | the synced tree, its completion marker, the runtime marker | `ensureBundleRef`, `SyncBundle`, `DownloadFile` | FlashHub index | interrupted resync, one tree for several environments, index fetched twice |
| **Bundle venv** `go/internal/venv` | `venv/`, `.venv-fingerprint`, the protocol package's cache schema | `Ensure`, `EnsureProtocolCacheSchema` | uv/pip, PyPI | crash in the middle of a rebuild, stale fingerprint |
| **Run pipeline** `cli/runserve.go`, `cli/preflight_bundle.go` | none of its own | sync, preflight, venv, weights, entry | all of the above | what a crash or failure of one stage means for the next run; the offline guarantee |
| **Cache clean** `cli/bundle_extra.go`, `cli/cleanup.go` | markers of synced bundles, weight stores | scan, confirm, remove | syncs and runs at the same time | scan result stale after the prompt, removal cut short |
| **Manifest parsing** `go/internal/manifest` | none (pure) | load, apply environment, variant entry, validate | every command | the same document has a second reader in Python |
| **Native exec**, **Native session**, **Provisioning** | a child process; a loaded session; tool directories | | | listed, not modelled (section 7) |

In the venv:

| component | state it keeps | operations | talks to | hard behaviour |
|---|---|---|---|---|
| **A command in the venv** `infer/cli.py`, `infer/app.py`, `manifest_resolve.py`, `options.py` | the invocation | parse, activate, create engine | host, FlashHub, the caches | three readings of one document by two ways while other commands change the tree; arguments scanned twice |
| **Refs and documents** `preset_ref.py`, `resolve.py`, `marker.py`, `flashhub.py` | index cache, temporary manifest | resolve a ref, fetch a document | FlashHub | stale index, one cache key for several namespaces |
| **Infer process** `infer/app.py`, `infer/helpers.py`, `activate_core.py`, `entry_env.py`, `cuda_userland.py` | `os.environ`, the venv | activate, repair, inject environment, run an entry | pip, the entry | repairs that repeat, a foreign environment, `--no-auto-install` |
| **Bundle dependencies** `infer/deps.py`, `runtime/requirements_spec.py` | installed packages, the constraints file, a git checkout | `ensure_runtime_python_stack` | pip, git | a fixed order of pip calls, each of which may move what an earlier one installed; interruptions |
| **Weights lookup** `weights.py`, `checkpoint.py`, `variants.py`, `cache.py` | none of its own | `resolve_checkpoint`, `require_extra_weights_cached` | the host's cache | two implementations of the readiness rules |
| **Native libraries** `native.py`, `native_naming.py`, `native_validate.py`, `runtime_env.py` | `sys.modules` | choose an environment, check, open and attach libraries | the bundle's directories | scores, several builds in one directory, import order |
| **Serve gate** `infer/serve/inference.py`, `app.py` | one semaphore, its holder, the inference loop's tasks, a queue per stream | acquire, run, stream, release, health | HTTP clients, the engine | disconnects, cancellation across two event loops, time-outs |
| **Streaming of a reply** `bundles/qwen3_vl_8b_nvfp4`, `bundles/qwen36_27b_nvfp4` | parser buffers, a bounded queue, a worker thread | feed, flush, bridge | the engine, the event loop | a tag cut over two tokens, a reader that leaves |

**What makes each part correct** (in brackets the property that says so):

- *Weights cache*: a directory is taken for complete only when every recorded
  file is whole (`CompleteIsFaithful`, `MarkerUntilComplete`); an interruption is
  resumed and never looks like an old cache (`InterruptedNeverLooksLegacy`), and
  where it is taken for one meanwhile the marker stands (`LegacyPathIsGuarded`); what was prepared stays usable offline
  (`CompletedPullRunsOffline`, `PreparedIsWhole`); pulls converge (`PullsConverge`).
- *Bundle sync, venv, pipeline, clean*: the completion marker means one whole
  publication (`MarkerVouchesForTree`); a venv that is reused has what its
  fingerprint says (`FingerprintVouchesForVenv`); the entry finds what it needs
  (`EntryFindsWhatItNeeds`); a prepared bundle runs offline
  (`PreparedRunsOffline`); every mess is repaired by running again (`RunsAgain`).
- *A command*: the venv starts what the host chose (`StartsWhatHostChose`) and
  refuses nothing that validates and has flags of its own (`ValidBundleStarts`);
  options arrive where they are declared (`OptionsReachTheirPhase`), and host and
  entry read one list of arguments alike (`ArgumentsAreShared`).
- *Infer process*: an entry starts on a complete venv (`EntryRunsReady`), on its
  own environment (`EntryEnvIsOwn`), an engine without installing when told so
  (`EngineRespectsNoInstall`), and every run ends (`EveryRunEnds`).
- *Bundle dependencies*: a call that returns has left what is declared
  (`ReadyMeansLoaded`), pins hold wherever they are handed over (`PinsHold`), repeated calls repair (`Heals`).
- *Weights lookup*: what a pull completed the venv finds (`DoneIsFound`), it is no
  laxer than the host (`VenvNoLaxer`), and a bundle's own weights do not depend on
  the cache (`BundleComesFirst`).
- *Native libraries*: the environment fits when one does (`KinCell`), modules are
  of one build (`OneBuild`) and none is skipped (`NothingSkipped`), the kernels
  reach the API (`KernelsReachTheApi`), the ABI check vouches (`GateVouches`).
- *Serve gate*: one release per acquire, through every hand-over
  (`SlotIsAccounted`, `ImplementsSlot`), no
  response hangs (`NoOneStarves`, `EveryoneIsAnswered`), the slot comes back
  (`SlotComesBack`), cancelled work ends (`OrphansEnd`).
- *Streaming*: nothing leaks (`NothingLeaks`), a finished reply is whole
  (`FinishedIsWhole`), the worker ends (`WorkerEnds`).

The hazards behind these statements are in `PROJECT.json`, each at the line
where it bites and with the properties that would catch it.

## 2. The modules

| module | models | state | actions |
|---|---|---|---|
| `WeightsDownload` | `weights/download.go`, `hf.go`, `ms.go`, `download_manifest.go`, `checkpoint.go`: one destination directory and the commands on it | `remote` (the hub), `disk` and `part` (files and their `.incomplete` files, as blocks of upstream versions), `manifest`, `marker`; per command `pc`, `cmd`, `plan`, `todo`, `handle`, `attempt`, `outcome` | `Begin` … `Settle`: one action per step of `downloadRemote`, `hfDownloadOnce`/`msDownloadOnce` and `downloadFileWithResume`, `*Fault`, `Crash`, `Publish` |
| `BundleSync` | `ensureBundleRef`, `SyncBundle`, `DownloadFile`, both markers | `hub`, `tree`, `done`, `rtMarker`; the running sync's `sync`, `ix`, `sel`, `todo`; history `synced`, `treeCut` | `FetchIndex`, `DownloadManifest`, `ResolveEnv`, `SyncManifest`, `SyncFile`, `WriteRuntimeMarker`, `WriteMarker`, `SyncAborts`, `Publish` |
| `BundleVenv` | `venv.Ensure`, `installSpecs`, the runtime directories | `venv`, `fp`; `build`, `rt`, `want`; history `venvCut` | `Check`, `RemoveVenv`, `CreateVenv`, `InstallProtocol`, `InstallTorch`, `InstallDeps`, `WriteFingerprint`, `BuildAborts` |
| `RunPipeline` | `run`/`serve`, `pull`, `bundle sync`, `bundle clean` on one bundle; EXTENDS the two modules above | `step`, `cmd`, `weights`, `host`, `victims`; history `prepared` | `Start`, one action per stage, `Abort`, `HostUpgrade`, `Upload`, `Scan`, `Decline`, `Clean`, `CleanAborts` |
| `RuntimeRequirements` | `runtime/requirements_spec.py`: which block declares the packages, deduplication, the probe of one requirement | none (operators) | |
| `DepsInstall` | `infer/deps.py`; EXTENDS `RuntimeRequirements` | `venv`, `pins`, `source`, `built`, `bundle`; the running call's `pc`, `call`; `ready`, `faults` | one per pip or git call: `EnsureHost`, `Look`, `Collect`, `TorchBatch`, `Pin`, `PypiBatch`, `Prereqs`, `Isolated`, `Clone`, `Fetch`, `Checkout`, `Editable`, `SecondLook`, `Retry`, `FinalLook`; `Interrupt`, `Publish` |
| `InferEntry` | `execute_run`, `execute_serve` and what they call; EXTENDS `DepsInstall`, whose calls are stages of the process | `stage`, `proc`, `environ` | `Start`, `Activate`, `CudaUserland`, `VerifyNatives`, `EnsurePython`, `DepsDone`, `Weights`, `InjectEnv`, `Script`, `HttpImports`, `Create`, `Load`, `End`, `DepsKilled`, `Sync` |
| `WeightsLookup` | who has the weights: the host's rules (`weights/*.go`) and the venv's (`weights.py`, `checkpoint.py`) over one disk | `pub`, `disk`, `pulled`, `have`, `ran`, `events` | `Pull`, `PullFails`, `Look`, `LookAt`, `Sync` |
| `NativeNaming` | `runtime_env.py`, `native_naming.py`: keys, scores, names of libraries | none (operators) | |
| `NativeLoad` | from the machine to `flash_rt.api`: environment, directory check, libraries, registration; EXTENDS `NativeNaming` | `pub`, `disk`, `proc`, `stage`, `env`, `why`, `attached`, `package`, `handle` | `Start`, `ResolveEnv`, `Layout`, `Activate`, `Verify`, `CheckPython`, `Importable`, `EntryImportsApi`, `End`, `Sync` |
| `BundleManifest` | `flashcli-bundle.json` as Go and as Python take it: formats 3 and 4, defaults, environments, variants, entries, options, validation | none (operators `Go…`, `Py…`) | |
| `RefTarget` | where a ref's bundle is, for host and venv, and how the venv fetches a document | none (operators) | |
| `InferCommand` | one `run` or `serve` from the user's arguments to the entry; EXTENDS the two modules above | `disk`, `hub`; `stage`, `cmd`, `host`, `inv`, `active`, `ran`; `changes` | `Begin`, `Host`, `Parse`, `Activate`, `Script`, `Create`, `End`; other commands `Publish`, `Sync`, `Clean`, `Edit` |
| `InferenceSlot` | what the gate promises (abstract): one owner, taken when free, handed on or given back by its owner, nobody waiting for a free slot | `owner`, `stage` | `Ask`, `Take`, `Invalid`, `Enter`, `TurnAway`, `GiveUp`, `GiveBack` |
| `ServeGate` | `infer/serve/inference.py` and `app.py`: semaphore, handler, two nested generators, the producer task on the second event loop, finalizers | `sem`, `holder`, `req`, `inner`, `job`, `out`, `fut`, `queue` | one per await, yield or hook: `Arrive`, `Acquire`, `Refuse`, `RefuseWoken`, `Start`, `GetChunk`, …, `DisconnectGetting`, `Finalize`, `CancelDelivered` |
| `ReplyStream` | the VL bundle's token loop and tool-call parser; the agent bundles' thinking splitter, worker thread and bridge | `said`, `buf`, `tool`, `calls`, `split`; `thread`, `queue`, `reader`; `got` | `Token`, `EndOfSequence`, the steps of `Worker` and of `Loop`, `Disconnect` |
| `MC*` | the small instances | | |
| `*Proofs` | the theorems | | |

`PROJECT.json` maps every definition to the lines it translates. A definition
marked `(mutant: …)` beside another one is a plausible bug of it; the properties
are shown to fail when it takes the other's place.

**How the models compose.** `BundleSync` and `BundleVenv` are actions with
parameters over their own variables; `RunPipeline` gives them the arguments the
caller gives in the code. Of the weights it keeps only whether the store is
empty, partial, complete, or "bare" (files that satisfy the readiness rules,
with neither manifest nor marker), which is what `WeightsDownload` establishes
in detail; `WeightsLookup` keeps which kinds of files are where, for both
readers. `InferEntry` runs the calls of `DepsInstall` as stages of its process.
`InferCommand` has the document and the arguments and leaves the venv, the
weights and the environment variables to `InferEntry`.

**Abstractions.**
- A file is its upstream version, block by block in `WeightsDownload` (where
  resuming can mix versions), as a whole in `BundleSync` (where an MD5 decides),
  and a kind in `WeightsLookup`. HuggingFace and ModelScope are one downloader:
  their steps are the same.
- On the host's side a package of a venv is absent or installed for one
  fingerprint (`BundleVenv`). In the venv it is a version and a build, and pip is
  external: it keeps what satisfies its request, installs the newest wheel that
  does, for all names or none, and leaves any part of its changes when it is cut
  short. Every version of a distribution has the same requirements.
- A level of a document is a function from the paths that are there to their
  values; a list of options is one value. An argument is a flag, an option or a
  word, and the arguments start with the ref. A URL is its namespace: how it is
  cut into parts is left out.
- The name of an environment or of a library is the sequence of what its dashes
  separate; a text is a sequence of symbols, a tag a short sequence of them.
- A generation is something that yields chunks, ends, fails or goes on for ever. The
  semaphore is `asyncio`'s from Python 3.10.8 on: a release gives the value to a
  waiter before that one runs. Any waiter may be the next; `asyncio` takes the first.
- In `RunPipeline` one command works at a time, except that `bundle clean` may
  wait at its prompt while others run. There is one FlashHub bundle with a Python
  backend, no `--checkpoint`, no `FLASHCLI_SKIP_*` variable, and the source of
  `flashcli-bundle` offers a package at least as new as the host.
- A kill is modelled at every step that leaves something behind; a write without
  a rename (`os.WriteFile` of the markers) may leave a truncated file.

## 3. What the runs check

Each run is an MC module with a `.cfg`; deadlock is checked except where every
request may be over (`serve`, `stream`).

| run | instance | checks |
|---|---|---|
| `weights_solo` | one command at a time; a file of two blocks and an empty one; every legacy cache; two attempts, three faults or crashes; an unchanging hub | a recorded set that is complete on disk is the hub's bytes (`CompleteIsFaithful`); whatever is interrupted, a bundle that was prepared runs offline (`CompletedPullRunsOffline`), and a run starts on every selected file (`PreparedIsWhole`) |
| `weights_pair` | two commands on one directory without a lock; a file of two blocks, which the readiness rules ask for, and an empty one, which they do not; two faults | an interruption never looks like a legacy cache (`InterruptedNeverLooksLegacy`); a command that finds neither manifest nor marker although the other began finds a complete download; where that one begins after this look and is taken for an old cache, its marker stands (`LegacyPathIsGuarded`) |
| `weights_shared` | two bundles with different `allow_patterns` on one store, files republished with other sizes | the marker stays until the last recorded set is complete (`MarkerUntilComplete`); once faults stop, repeated pulls prepare each bundle (`PullsConverge`) |
| `serve` | a stream and two plain requests, busy time-out zero, a queue of two chunks | one release per acquire on all paths, the value always with the semaphore, a woken waiter or the holder (`SlotIsAccounted`); a response that waits for a chunk has a producer that brings one (`NoOneStarves`); the gate implements `InferenceSlot` (`ImplementsSlot`); the slot comes back unless its response was never started (`SlotComesBack`), nobody waits for ever (`EveryoneIsAnswered`), orphaned producers end (`OrphansEnd`) |
| `bundle` | a manifest, a file with no MD5 and a native library of one environment; two environments, the second dropped by the second publication; two cache schemas; one interruption anywhere | the completion marker vouches for what it stands beside (`MarkerVouchesForTree`); the entry starts only with its weights, protocol package and CUDA libraries (`EntryFindsWhatItNeeds`); after a run that reached the entry, later runs need no network (`PreparedRunsOffline`) |
| `bundle_clean` | one publication, one clean of any of its five lists, one interruption of the clean or of a command | the fingerprint vouches for the venv before a removal is begun and after it is complete, though it was decided before other commands ran (`FingerprintVouchesForVenv`; of one that was cut short it says nothing); whoever keeps trying gets the bundle to run (`RunsAgain`) |
| `deps` | seven distributions in two versions and two builds, among them torch, a second CUDA wheel, the package itself and one that is cloned; three publications; two failures or interruptions | a call that returns has left what is declared, loading (`ReadyMeansLoaded`); a pinned build is replaced by the torch batch only, or by what requires it in one of the calls that are handed no constraints (`PinsHold`); repeated calls repair (`Heals`) |
| `infer` | scripts and engines, with and without `--no-auto-install`, two publications on one venv, an HTTP stack that wants a newer dependency, two failures or interruptions | an entry that may install starts on a complete venv (`EntryRunsReady`), on its own environment (`EntryEnvIsOwn`); an engine's run without installing changes nothing but CUDA libraries (`EngineRespectsNoInstall`); every run ends (`EveryRunEnds`) |
| `lookup` | eight publications: with variants, extras, shipped files, patterns of each form, one that takes a directory or the host's own files as well, and without a repository; three syncs and pulls that fail or stop at any file | what a pull completed the venv finds, with its extras (`DoneIsFound`); the venv takes nothing the host would not call ready, if patterns take files of the weights only (`VenvNoLaxer`); a bundle's own weights do not depend on the cache (`BundleComesFirst`) |
| `native` | twelve publications: one build, another platform's, two builds in one directory, a matrix, a wrong tag, a common directory, an older one, libraries named as they were before commits were, alone and beside others, …; machines with two CUDA keys or none, two Pythons, two C libraries, overrides; one sync between processes | the environment fits when one does (`KinCell`); the modules are of one build, unless a library of the old naming lies beside another of its module (`OneBuild`); none is skipped (`NothingSkipped`); the kernels reach the API (`KernelsReachTheApi`); where the check of C libraries passes, none is refused (`GateVouches`) |
| `stream` | every cut of a reply into at most five tokens or three lines, token limits 0, 1 and 5, thinking asked for or not; a queue of one | no piece of a tag, call, stop string or reasoning is sent as answer (`NothingLeaks`); a reply that ends by itself is whole, and is what it would be unstreamed where the two splits have the same rules (`FinishedIsWhole`); the worker thread ends (`WorkerEnds`) |
| `command` | documents of formats 3 and 4 from a directory or FlashHub; every list of at most two arguments over the host's flags, their values, abbreviations and options, of three over six of them, some of four; options with a flag of the parser's or one flag for two; three publications, syncs, cleans or edits by others | the venv starts the entry the host chose (`StartsWhatHostChose`) and refuses no bundle that validates and has flags of its own (`ValidBundleStarts`); each option reaches the call of its phase (`OptionsReachTheirPhase`); host and venv have the same values of the host's flags, and a script what the host left (`ArgumentsAreShared`) |

**Why the bounds are enough.**
- Two blocks are the least for which a transfer can stop in the middle, be
  resumed, be too long and have a hole; the empty file is the size the code
  treats apart. Two commands are enough for every conflict on one file, since no
  step looks at more than one other writer's effect; `LegacyPathIsGuarded` speaks
  of two, and with a third transferring it is lost. `MaxFaults` bounds network
  errors and crashes together; more of them only repeat states the directory can
  be in.
- A stream with two rivals is the least in which the slot is handed over while a
  third request waits; two queued chunks cover a consumer behind and level with
  its producer. `QueueCap` of `serve` is not in the code, whose queue is
  unbounded: a put beyond it is delayed, and no property depends on it. That of
  `stream` is the code's own bound made small, so that the queue is full.
- Two publications and two environments are the least that can be mixed; one
  interruption is followed by commands of every kind, and the properties about
  any number of them are proved.
- In `lookup` a pattern says which kinds of files it takes, and whether also a
  directory or the host's own files. Where Go and Python read a glob otherwise (Go
  compares `.safetensors` without regard to case), no instance has such a name.
- In `command` not every argument that `argparse` knows is there: no `-h`, no
  abbreviation of a switch or of an option, and `--f=B` only for the flags of the
  host that take a value; option names differ from each other and from the parser's
  own names.
- In `deps` the second failure falls into the repair of the first one; a third
  finds a venv in a state that two can already leave.
- `events`, `changes` and `MaxSyncs` count what other commands do; the properties
  that speak of a command undisturbed need none of them, those that hold in any
  case (`OptionsReachTheirPhase`, `KinCell`, `VenvNoLaxer`) are proved for all.

**Exceptions that the properties state.** They were found by checking without
them; each is a place where the code does less than one might think (next
section), and everything outside it must satisfy the property.
- `MarkerVouchesForTree`, `FingerprintVouchesForVenv`: a forced sync or a removal
  was *begun and not ended* (`treeCut`, `venvCut`). An unforced sync or a build
  interrupted at any point, changes of environment, truncated markers and
  republications between the two fetches of the index must leave them true.
- `RunsAgain`: a completion marker whose manifest was removed.
- `LegacyPathIsGuarded`: a download that begins between another command's look at the
  marker and its look at the files; all it says there is that the marker stands.
- `PinsHold`: the calls that install without constraints, and of those only what they
  require (`Unconstrained`). `PinsHoldInProcess`, which is proved, adds the CUDA
  libraries and the HTTP stack.
- `Heals`: a pin of what is no longer installed, or a declared CUDA wheel and torch
  of different builds; pip, asked for what is there, changes nothing.
- `EntryRunsReady`: after a reinstallation of the HTTP stack, which comes last and
  is followed by no check.
- `DoneIsFound`: a pattern that is a plain directory name, or `require_any_patterns`
  with the weights, on which the two sets of rules disagree (`Agreed`), and a
  bundle that itself ships something like weights (`ShipsNone`).
- `DoneIsFound`, `BundleComesFirst`: extras with a `relative_dir` that are to be
  downloaded though they are not `bundled` (`DownloadsOutside`): the pull would write them into the
  bundle's directory, where they could be taken for its own weights.
- `VenvNoLaxer`: weights with a pattern that takes a directory, or the host's own
  files, as well (`TakesFiles`), or with `require_any_patterns`.
- `OneBuild`: a directory in which a library of the old naming lies beside another of
  its module (`OldBeside`).
- `StartsWhatHostChose`, `ValidBundleStarts`: somebody changed the document
  meanwhile, the cache was moved, a directory has the name of a FlashHub ref, a
  variant overrides its entry, or a kind is blank or a mode unknown (`Steady`,
  `Plain`); and a native entry that only an environment makes possible.
- `ValidBundleStarts`: an engine with an option whose flag the parser has already, or
  another option has (`OwnFlags`).
- `ArgumentsAreShared`: the value of a flag that is abbreviated; and `--quiet`, `-q` and
  `--mtp-checkpoint` with its value, which a script gets though the host took them
  (`Unstripped`).
- `NothingLeaks`, `FinishedIsWhole`: reasoning with a `<thinking>` tag before its
  closing mark (`Tagged`). That a finished reply is the unstreamed one is said of texts
  without a `<thinking>` block, and without a mark when no reasoning was asked for
  (`Alike`).

### Where the code and its words differ

These are disagreements between the code and its comments, documents or other
half, met while modelling. The properties above hold around them.

*Host.*
1. Concurrent downloads share one `.incomplete` file (`download.go:319`): a file of
   the right size with a hole.
2. Bundles with different patterns share one download manifest (`hf.go:231`): an
   interrupted pull of one takes the offline guarantee from the other, and the
   complete manifest of one is accepted for the larger selection of another.
3. `pull` keeps a file that the hub replaced by one of the same size
   (`download.go:265`, against the comment at 81-82).
4. An interrupted `sync --force` leaves the old completion marker beside two
   publications' files (`ref_resolve.go:52`), and it never refreshes a file that
   has no MD5 (`flashhub.go:214`).
5. An interrupted rebuild of a venv leaves the old fingerprint (`venv.go:139`).
6. `pull` prepares neither the CUDA libraries nor the cache schema of the first run
   (`runserve.go:196`).
7. `clean` without arguments removes the marker without which `clean --orphans`
   takes the live runtime for an orphan.
8. A cache key has no namespace (`ref_resolve.go:45-53`, `preset_ref.py:44-59`):
   bundles of one name in two namespaces replace each other.
9. The legacy path looks at the marker and then at the files (`download.go:95`). A
   first download that begins in between, and has finished the files the readiness
   rules ask for, is accepted incomplete, against the comment at 96-98 ("never
   mistaken for a legacy ready cache").
10. `isDownloadMetadata` (`download_manifest.go:30`) knows three names of "host
   bookkeeping files that must never satisfy" a pattern; `.flashcli_model.json`
   (`cache.go:81`) is a fourth, with which the host calls `*.json` satisfied.

*Serve gate.*

11. The slot is released while its producer may still be in the engine
   (`inference.py:171`).
12. A slot acquired for a body that is never entered is lost (`app.py:445`).
13. A time-out in the turn of a hand-over answers "another request is running"
   (`inference.py:104-107`) though no request has the slot: the next waiter gets it, or
   it is free.

*Venv.*

14. `--no-auto-install` is not honoured for scripts and for the CUDA libraries
    (`infer/cli.py:289`; `help_text.py:26`).
15. A clone whose checkout failed is afterwards taken for the wanted ref
    (`infer/deps.py:329`).
16. A bundle that ships a model is its own checkpoint, and extras that were pulled
    beside the cached one are not found (`weights.py:323`).
17. Library names with tags that the builder writes are not all accepted
    (`native_naming.py:143`); a sync never removes a library, and the lowest ABI in
    the directory is the one that is loaded.
18. Nothing calls `ensure_native_host_abi_for_bundle`; its check is a predicate here.
19. The temporary manifest is shared by namespaces and kept when the index has no
    MD5; the venv's index cache is never refreshed.
20. The pins are there "so later PyPI installs cannot replace CUDA builds"
    (`infer/deps.py:123`). The prerequisites of isolated packages (642), the package
    `flashcli-bundle` itself (909-911), the HTTP stack (`infer/helpers.py:61`) and the
    CUDA libraries are installed without them; what they require may replace a pinned
    build, and nobody notices where no declared CUDA wheel disagrees with the new one.
21. Validation wants one ABI of all modules (`native_validate.py:188-209`) and looks at
    the first file of each by name; a library of the old naming, `{module}-{key}.so`,
    sorts by its key but has the ABI "dev" for the loader (`native_naming.py:142`, 386).
    Beside another build of its module the check passes and the process mixes builds.

*Host against venv.*

22. Entry overrides of a variant in format 3 and a blank kind mean something else to
    each; `format_version` as the text `"4"` is accepted by one.
23. A native entry that exists only in an environment, beside axes in the defaults
    or at the top, is refused by the host and accepted in the venv.
24. `validate` and the host accept an unknown mode or kind and missing options; the
    venv refuses them, after the weights were downloaded. `validate` does not look
    at the native blocks that an environment brings.
25. The host resolves FlashHub refs before local directories, the venv prefers a
    local bundle root.
26. The host accepts `--checkpoint X` before the ref; the venv takes `X` for the ref
    (`infer/cli.py:112-117`).
27. The third reading of a document goes by the absolute `bundle_root` of the marker:
    a cache that was moved is refused.
28. `path.glob` in the venv (`checkpoint.py:47-50`) is content with a directory, with
    `.flashcli_download.json` and with `.flashcli_download.incomplete`; the host takes
    files only, and never those (`checkpoint.go:117`, `download_manifest.go:28-29`). With
    such a pattern the venv takes a directory the host would not call ready.
29. An option whose flag the parser of the venv has already (`--warmup` and `--benchmark`
    in run, `--port` and `--host` in serve, `--checkpoint`, `--mtp-checkpoint`,
    `--no-auto-install`, `--quiet`, `--help` in both), or two options of one flag, pass
    both validations (`validate_ext.go:264-337`, `options.py:235-292`); `add_argument`
    (`infer/cli.py:139-188`) then raises an `ArgumentError` that nothing catches. No bundle
    of the repository does it for a Python entry.
30. "Host flags ... would otherwise trip argparse" of a script (`infer/cli.py:212-215`), but
    of those the host takes (`hostflags.go:29-37`) only `--checkpoint` and
    `--no-auto-install` are stripped (233-236): `--quiet`, `-q` and `--mtp-checkpoint` with
    its value do reach it.
31. `argparse` takes an abbreviation such as `--check X` for the flag; the host does not
    know it. The venv then has a checkpoint of which the host knows nothing.

*Streaming.*

32. `feed` sends a `<thinking>` tag that comes before the line of the closing mark
    (`_qwen36_thinking.py:119-124`), and strips it from what it still has when the mark
    comes (109), as `flush` (132) and the unstreamed split (67) do: the client sees the tag or
    not, as the lines are cut.
33. Only the unstreamed split knows `<thinking>...</thinking>` blocks (59-63): of
    `<thinking>r</thinking>a` it makes the reasoning `r` and the answer `a`, while the stream
    sends all of it as reasoning.
34. A mark in a reply whose reasoning was not asked for parts the unstreamed reply
    (64-68), and is sent as content when it is streamed.

## 4. Fairness

- **Weights.** A started command that is not killed goes on (weak fairness of its
  own steps: it is a sequential program), and each bundle is pulled again and
  again (strong fairness of starting a pull, because other commands keep it from
  starting meanwhile). Faults are bounded, which is "the network eventually works".
- **Serve.** Both event loops run what is ready, finalizer hooks included; a wait
  for the slot ends because it has a time-out; a client takes the next chunk or
  goes away; a cancelled task reaches an await; a generation that has the slot is
  finite, as `max_tokens` makes it. Nothing is assumed of a generation whose
  request is gone, so that `OrphansEnd` depends on the cancellation.
- **Bundle.** A running command goes on, and in every environment somebody tries to
  run the bundle again and again without force. No fairness for publications,
  upgrades, cleans or interruptions.
- **Dependencies.** A call that began goes on to its end, and the command is given
  again (weak fairness of each; nothing else competes). Failures are bounded.
- **Infer process.** The process goes on, and an entry that runs comes to its end;
  nothing is assumed of new runs.
- **Streaming.** The worker thread runs, and a response whose generator was closed
  drains its queue (`asyncio` does both). Nothing is assumed of the client or of
  the loop otherwise.
- `WeightsLookup`, `NativeLoad` and `InferCommand` have only safety properties.

## 5. What is proved

All theorems hold for every value of the constants that satisfies the assumptions
named in the modules. Most say that bounds are naturals and that maps and records
have the types their comments give. These say more:

- `EnvKeyIsSet` (`InferCommand`): the host passes a key that is not empty, as
  `runserve.go:210` does only then.
- `InputsFit` (`InferCommand`): an argument list is a sequence of strings, of any
  length, and a disk has the fields of `RefTarget`.
- `NamesAssumption` (`WeightsLookup`): what manifests, repositories and directories are
  made of. A directory that `--checkpoint` may name lies outside of the bundle's: one inside
  would be what the bundle ships.
- `FilesAssumption` (`NativeLoad`): a directory is finite, so that it has a first name,
  and the names in it are made of segments that the order of names knows. They may be
  of the naming with an ABI or of the old one without. That order is by segments; it is
  the order of the strings as long as no segment holds a character that sorts before
  `-`, and `sanitize_flashrt_abi` leaves none.
- `TextAssumption` (`ReplyStream`): texts are sequences of symbols, and a token of the
  VL engine is `</tool_call>` itself or has no part of it. The tokenizer of the model
  has that tag as one token, and `feed` relies on it: it holds back what may be the
  beginning of an opening tag or a stop string, never of a closing tag
  (`_qwen3_vl_stream_parser.py:98-112`). With a closing tag in two tokens both theorems on
  replies would be false.

Five of the seven on weights need more, and their
statement says what: of each of these hypotheses TLC finds a counterexample without
it (the first three disagreements above, and a third command).

| module | theorem | argument |
|---|---|---|
| `WeightsDownloadProofs` | `TypeCorrect` | one lemma per record the actions build, one step per action |
| | `NeverLooksLegacy` | `NeverLegacyInv` adds `ManifestKept`: a command past its listing has a manifest on disk, because nothing removes one. Without it the step that removes the marker (`Settle`) could leave nothing |
| | `SoloMarkerUntilComplete` | `SoloMarkerInv`: a lone command's plan is the manifest on disk, the marker stands while it downloads, and at `settle` the set is verified. Assumes one process - with two it is false |
| | `PreparedIsWholeHolds` | `DiskKept`: no step of any command removes a finished file; `WholeInv`: every manifest lists what the bundle selects, so a verified one stands for the whole selection. Any number of processes; assumes one bundle, since the manifest of another one stands for less |
| | `CompleteIsFaithfulHolds` | `PrefixInv`: every file, finished or partial, is the beginning of the hub's, and an open transfer goes on where its partial file ends; so a file of the right length is the hub's. Assumes one process and a hub that does not change |
| | `CompletedPullRunsOfflineHolds` | `SettledInv`: there is one expected set, and once it was complete no command has a file to transfer. Assumes one process, one bundle and a hub that does not change |
| | `LegacyPathIsGuardedHolds` | `LegacyInv`: while a command that read no manifest looks at the directory, first for the marker and then at the files, the other keeps the marker as if it were alone. Assumes two processes: a third could be transferring when the second removes the marker |
| `ServeGateProofs` | `TypeCorrect`, `SlotAccounted` | `SlotInv`: the semaphore, the waiter a release woke, the holder and the requests' phases say the same: one value, and nobody waiting where it is free |
| | `PlainKeepsSlot`, `NoStarvation`, `OrphansCancelled` | `PipeInv`: how a request, its inner generator, its future and its task hang together; an open inner generator has a live producer or the sentinel it left in the queue |
| | `GateImplementsSlot` | every step of the gate is a step of `InferenceSlot` or a stutter, under `SlotInv`; the owner is the holder or whoever the value is promised to, so that a time-out during a hand-over passes it on (`GiveUp`) |
| `RunPipelineProofs` | `TypeCorrect` | one lemma per sub-module, which also carries that a command past its load stage has a loadable manifest |
| | `MarkedTree` | `TreeInv`: a sync that asks the hub found no marker or was forced; while it fetches, what it has handled is one publication's; that publication is whole when the markers are written |
| | `FingerprintedVenv` | `VenvInv`: between the removal and the fingerprint the venv is marked as cut, and each install establishes its package for the fingerprint that will be written |
| | `EntryIsPrepared` | `StageInv`: what each stage of a run has established survives the stages after it; uses the two invariants before |
| | `OfflineOncePrepared` | `OfflineInv`: what a run that reached its entry left is ready for the next one, whose sync and build then find nothing to do, and an interruption changes nothing either |
| `InferEntryProofs` | `ReadyMeansLoadedHolds` | `IInv`: `ready` is set only by a look that missed nothing, and whatever changes venv or manifest afterwards begins by resetting it |
| | `PinsHoldAlways`, `PinsHoldInProcessAlways` | a pip call that is handed the constraints, which name the pinned wheel, keeps it (`PipKeepsPins`); any other touches only what it requires (`PipLeavesOthers`) |
| | `EntryRunsReadyHolds` | `EInv` on top of `IInv`: between the check and the entry only the reinstallation of the HTTP stack touches the venv, and `proc.http` remembers it |
| | `EngineRespectsNoInstallHolds` | by stages: the only one that installs when told not to is that of the CUDA libraries |
| | `EntryEnvIsOwnHolds` | `VInv`: from the injection on every name is the run's own, and `hub offline` is from the start of the process; the repair that goes back to the creation comes after the injection |
| `WeightsLookupProofs` | `VenvNoLaxerHolds` | lemmas on the two sets of rules over an arbitrary disk - a pattern that takes files of the weights only takes the same for both -, then over every place the venv searches |
| | `LookupTypeOKHolds` | also that the outcome recorded is one of the six |
| | `LookInvHolds` | the bundle's directory holds what the bundle ships, and every block that was pulled is ready. A pull only adds files, and a directory that satisfies the rules goes on doing so when files are added (`GrownReady`) |
| | `DoneIsFoundHolds` | the host's rules imply the venv's (`RulesAgree`) where patterns mean the same to both; the two compute the same destination (`DestsAgree`); the venv's search stops at no earlier place (`ShipsNone`) |
| | `BundleComesFirstHolds` | what the search sees of the bundle's directory is what lies below it (`SameLocal`), which no pull writes |
| `NativeLoadProofs` | `KinCellHolds` | `FirstBest`: the first of the best scores in any order; `ScoreFits`: a key that fits outscores every one that does not; `ResolvedKey` for the three cases of the code |
| | `LoadTypeOKHolds` | also that libraries are attached only by a process that passed its checks |
| | `KernelsReachTheApiHolds` | `HandleInv`: nothing can hold kernels before the natives are registered, so that an early import of the API is served by the registration |
| | `GateVouchesHolds` | `CauseIsSelected`: the library for which a process was refused is one that the host's check selects too |
| | `OneBuildHolds` | `BuildInv`: what is attached is what the check selected, from one directory whose libraries passed it. Sorting names is a strict total order (`NamesOrdered`, `NamesTransitive`) with a first name in every finite set (`FirstExists`); a name is parted at its key in one way (`ParseIs`), so that for one module the first name is the lowest ABI (`LowestIsFirst`) unless a name without an ABI is beside it, and the loader's choice is the check's |
| | `NothingSkippedHolds` | `BuildInv`: where a process is ready, the check recognized every library of the directory; the one taken for a module has that module's name (`TakeIs`), and a name begins with its module (`LibsIs`, `FileNameIs`) |
| `InferCommandProofs` | `OptionsReachTheirPhaseHolds` | `CallInv`: the running entry was called with the split of this invocation's own options, all of them declared; no later reading touches them |
| | `StartsWhatHostChoseHolds` | `ReadInv`: as long as nobody else changed anything, each of the venv's three readings sees the document the host saw, at the place the host resolved. Where Go and Python read a level alike (`SameLevel`) they make the same entry of it (`PlainEntry`, `VenvMakesHostEntry`) |
| | `ValidBundleStartsHolds` | `ReadInv`, with what `GoValidates` checked turned into each condition the venv has for a refusal (`ValidEntries`, `ValidOptions`, `ValidLayout`); the one about flags is the exception, and is that of the host's document (`EngineFits`) |
| | `ArgumentsAreSharedHolds` | `ArgumentInv`: what the host passed and what the first reading made of the arguments stay as they are. For lists of every length, the host's loop knows after each argument what the positions of both flags and of their values so far say (`PeelKnows`, by the least number of arguments for which it would not), and the venv, which asks for positions, finds the same values (`SameValues`) and the same rest (`SameScript`) |
| `ReplyStreamProofs` | `NothingLeaksHolds` | `StreamOk`. For the splitter (`AgentOk`): the chunks on their way lead from what the client has to what was let go, and what is held back is never more than the beginning of a mark. For the parser (`VlOk`): the text so far is what was read and what is held back; what was sent is what is visible of the read part, whose calls are all closed (`OnTrack`, with enough held back that no tag straddles), or the parser is in the one call that is open (`InAt`). `feed` keeps this for every token (`FeedGoes`) |
| | `FinishedIsWholeHolds` | the same invariant: at the end nothing is held back, or it is sent. Stripping the tags of a text that has none is stripping white space (`HeldFree`), and without blocks the unstreamed split parts at the same mark (`AlikeMeans`) |

Those that a property of a run states name it in their statement. The type
invariants, `PlainHoldsUntilDone`, `OrphansAreCancelled` and `PinsHoldInProcess` are proved and not run.

**Only model-checked.** The liveness properties (`PullsConverge`, `SlotComesBack`,
`EveryoneIsAnswered`, `OrphansEnd`, `RunsAgain`, `Heals`, `EveryRunEnds`,
`WorkerEnds`), since fairness and ENABLED are out of the prover's reach. Every
invariant and every action property that a run checks is also a theorem. Induction over
data, which the installed provers do not do as such, is replaced in the proofs by the
least number for which a statement fails (`LeastNumber`): the argument of a list, the
file of a directory, the position in a text.

## 6. What is left to do

To model, in the order of their worth: the child of a native execution with its pump, its
queue of 16 lines and its pending request (a reply is never another request's;
`Close` returns); a native session under concurrent handlers;
`ResolveEnvironment` and its fallbacks on the host; two commands on one venv and two
syncs of one tree at once; a neighbour bundle whose stores a clean could take.

## 7. What is not modelled, and why

- **Native exec, native session, provisioning**: not begun; the hazards listed for
  them have a note instead of a property.
- **The host's choice of an environment** (`preflight.go`, `env_fallback.go`): the
  models take the environment that was chosen as data. (`EnvResolve` at
  `preflight.go:341` walks a map in random order.) The venv's own choice is
  `NativeNaming` and `NativeLoad`.
- **Two commands on one venv, two syncs at once**: the code takes no lock; the
  bundle model runs one command at a time, apart from a clean at its prompt.
- **Neighbour bundles** in `clean`: the stores that several markers share.
- **Mirrors, `FLASHCLI_GR00T_SRC`, `FLASHCLI_SKIP_*` on the host**: alternatives of a
  step that is there.
- **Weights copied out of a bundle** (`download.go:211`), glob matching, the text of a
  store key, uv's and pip's resolver: taken as what they do.
- **Host probes, `doctor`, `du`, progress, logs**: reports; a model takes what they
  return as data.
- **The bundles' model code and request translation** (`openai_bridge.py`): the gate
  sees only that a generation yields, ends, fails or blocks, the reply models only
  its text.
- **Install scripts, docker files, build and benchmark scripts**: straight-line
  scripts run by hand.
