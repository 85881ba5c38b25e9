----------------------------- MODULE NativeLoad -----------------------------
(***************************************************************************)
(* How a process in the bundle venv finds its native libraries: the key of *)
(* the runtime map that serves this machine, the check of that directory,  *)
(* the libraries it opens, and how they reach the flash_rt package         *)
(* (infer/bundle/resolve.py, manifest_ext.py, native_validate.py,          *)
(* activate_core.py, native.py).  What of it concerns pip is in            *)
(* InferEntry.                                                             *)
(*                                                                         *)
(* A cell of the runtime map is [key, dir, match]: its directory has the   *)
(* name dir, None if the environment has none; one whose name is not the   *)
(* key is shared by several environments.  A library on the disk is what   *)
(* its build was told, [module, tag, commit, key], and what it is, [py,    *)
(* need]: the Python it was compiled for and the C library it needs.  One  *)
(* with the tag None is of the old naming, <module> - <key>.so.            *)
(***************************************************************************)
EXTENDS NativeNaming, FiniteSets

CONSTANTS
    Pubs,       \* publications: [abi, cells, files, package]
    Gpus,       \* what detect_gpu may find: [sm, cu, os, arch], or None
    Pythons,    \* interpreters of the venv
    Overrides,  \* FLASHCLI_RUNTIME_ENV_KEY
    LibVersions,\* versions of the host's C libraries
    PySegment,  \* [Pythons -> "py310"...]
    MaxSyncs    \* bound on syncs

KeysOf(pub) == [i \in 1..Len(pub.cells) |-> pub.cells[i].key]
Range1(s) == {s[i] : i \in 1..Len(s)}
Cell(pub, key) == CHOOSE c \in Range1(pub.cells) : c.key = key

ASSUME LoadAssumption ==
    /\ \A p \in Pubs :
          /\ p.abi \in Pythons /\ p.cells # <<>> /\ p.cells \in Seq(Range1(p.cells))
          /\ p.package \in {"none", "eager", "lazy", "broken"}
    /\ PySegment \in [Pythons -> DOMAIN PyOf]
    /\ \A g \in Gpus \ {None} : g.sm \in DOMAIN SmOf /\ g.cu \in DOMAIN CuOf
    /\ DOMAIN SmOf \cap DOMAIN CuOf = {}
    /\ \A p \in Pubs : None \notin Range1(KeysOf(p))
    /\ MaxSyncs \in Nat

\* What a library was told: names, or no ABI at all.
Segments == DOMAIN Rank
Told(f) ==
    /\ f.module \in Segments /\ f.commit \in Segments
    /\ f.tag \in Seq(Segments) \cup {None} /\ f.key \in Seq(Segments)

ASSUME FilesAssumption ==
    \A p \in Pubs :
        /\ Range1(KeysOf(p)) \subseteq Seq(Segments)
        /\ \A d \in DOMAIN p.files :
              IsFiniteSet(p.files[d].lib) /\ \A f \in p.files[d].lib : Told(f)

VARIABLES
    pub,      \* the manifest in the bundle directory
    disk,     \* [directories -> [lib, sub]]: libraries, and whether substrate/ has some
    proc,     \* the process's machine and environment
    stage,    \* where it is
    env,      \* the key that activate_for_preset chose
    why,      \* why it was refused
    attached, \* native modules in sys.modules: [bases -> files]
    package,  \* flash_rt: not imported, or imported with its api module or without
    handle,   \* the kernels that flash_rt.api holds: None, or a file
    syncs     \* syncs so far

vars == <<pub, disk, proc, stage, env, why, attached, package, handle, syncs>>

Nothing == [b \in {} |-> None]
NoProc == [gpu |-> None, override |-> None, py |-> None, libs |-> 0, cuda |-> FALSE,
           other |-> FALSE]

Init ==
    /\ pub \in Pubs /\ disk = pub.files /\ proc = NoProc /\ stage = "idle" /\ env = None /\ why = "none"
    /\ attached = Nothing /\ package = "absent" /\ handle = None
    /\ syncs = 0

-----------------------------------------------------------------------------
(***************************************************************************)
(* A directory of the runtime map                                          *)
(***************************************************************************)
Abi(f) == IF f.tag = None THEN <<>> ELSE AbiOf(f.tag, f.commit)
FileName(f) == LibraryName(f.module, Abi(f), f.key)
Names(d, dir) == {FileName(f) : f \in d[dir].lib}
FileAt(d, dir, name) == CHOOSE f \in d[dir].lib : FileName(f) = name

\* In a directory of its own a library must have the cell's key; in a shared one its
\* name says what it is.
Own(c) == c.dir = c.key
LookupKey(c) == IF Own(c) THEN c.key ELSE None

HasNatives(d, dir) == dir \in DOMAIN d /\ (d[dir].lib # {} \/ d[dir].sub)

LibrariesOf(d, c) == Libraries(Names(d, c.dir), LookupKey(c))

\* What _resolve_host_native_paths takes for a module: in a shared directory the
\* first file, whatever its tag.
Take(c, arts) == IF Own(c) THEN PickBest(arts) ELSE FirstByName(DOMAIN arts)

NativesAmong(d, c, libs) == [b \in Bases(libs) |-> FileAt(d, c.dir, Take(c, Artifacts(libs, b)))]
HostNatives(d, c) == NativesAmong(d, c, LibrariesOf(d, c))

\* The first files of all modules have one ABI and one Python.
FirstAgree(libs) ==
    LET First(b) == libs[FirstByName(DOMAIN Artifacts(libs, b))]
    IN  \A a, b \in Bases(libs) : First(a).abi = First(b).abi /\ First(a).py = First(b).py

\* (mutant: a name that is not recognized is passed over)
CellOKLax(d, c) == c.dir \in DOMAIN d /\ FirstAgree(LibrariesOf(d, c))

\* _validate_runtime_cell with allow_empty: every name is recognized, and they agree.
CellOK(d, c) ==
    /\ c.dir \in DOMAIN d
    /\ Names(d, c.dir) = DOMAIN LibrariesOf(d, c)
    /\ FirstAgree(LibrariesOf(d, c))

\* validate_bundle_layout: the keys that have a directory end with the bundle's Python.
KeysMatchAbi(p) ==
    \A c \in Range1(p.cells) :
        c.dir = None \/ c.match \/ Ends(c.key, <<PySegment[p.abi]>>)

\* _load_extension_from_path in the process, and what fails it
Opening(f, m) ==
    IF f.py # m.py THEN "python"
    ELSE IF f.need > m.libs THEN "libs"
    ELSE IF ~m.cuda THEN "cuda" ELSE "ok"

\* _probe_so_file: another interpreter than the bundle's opens nothing itself.  The
\* interpreter of the right version (FLASHCLI_PY*_BIN) only finds Python mismatches.
Probe(f, m, abi) ==
    IF m.py = abi THEN Opening(f, m)
    ELSE IF ~m.other \/ f.py # abi THEN "python" ELSE "ok"

-----------------------------------------------------------------------------
(***************************************************************************)
(* The process                                                             *)
(***************************************************************************)
At(s) == stage = s
GoOn(s) == stage' = s /\ UNCHANGED <<pub, disk, proc, env, why, attached, package, handle, syncs>>
Refuse(reason) ==
    /\ stage' = "refused" /\ why' = reason
    /\ UNCHANGED <<pub, disk, proc, env, attached, package, handle, syncs>>

\* cuda: the CUDA libraries load; other: the bundle's Python is there besides the
\* venv's; early: something imported flash_rt before the bundle was importable.
Start ==
    /\ At("idle")
    /\ \E gpu \in Gpus, override \in Overrides, py \in Pythons, libs \in LibVersions,
          cuda \in BOOLEAN, other \in BOOLEAN, early \in BOOLEAN :
          /\ proc' = [gpu |-> gpu, override |-> override, py |-> py, libs |-> libs,
                      cuda |-> cuda, other |-> other]
          /\ package' = IF early /\ pub.package = "eager" THEN "api" ELSE "absent"
    /\ stage' = "resolve"
    /\ UNCHANGED <<pub, disk, env, why, attached, handle, syncs>>

\* variant_dir_name with the bundle's python_abi
HostKey(p, gpu) == <<gpu.sm, gpu.cu, gpu.os, gpu.arch, PySegment[p.abi]>>

\* resolve_bundle_env_key: the override needs no GPU.
EnvKeys(p, gpu, override) ==
    IF override \in Range1(KeysOf(p)) THEN {override}
    ELSE IF gpu = None THEN {}
    ELSE {ResolveKey(KeysOf(p), HostKey(p, gpu), override)} \ {None}

ResolveEnv ==
    /\ At("resolve")
    /\ \/ /\ EnvKeys(pub, proc.gpu, proc.override) = {}
          /\ Refuse(IF proc.gpu = None THEN "gpu" ELSE "environment")
       \/ \E key \in EnvKeys(pub, proc.gpu, proc.override) :
             /\ env' = key /\ stage' = "layout"
             /\ UNCHANGED <<pub, disk, proc, why, attached, package, handle, syncs>>

Layout ==
    /\ At("layout")
    /\ IF KeysMatchAbi(pub) /\ (Cell(pub, env).dir = None \/ CellOK(disk, Cell(pub, env))) THEN GoOn("activate")
       ELSE Refuse("layout")

\* activate_bundle_core and ensure_bundle_importable look at the override alone:
\* the directory it names, if any.
Named(p, override) ==
    {c \in Range1(p.cells) : c.key = override /\ c.dir # None}
NativesNamed(p, d, override) == \E c \in Named(p, override) : HasNatives(d, c.dir)

\* With natives: a GPU, and the CUDA libraries of the artifact (InferEntry), unless
\* they are skipped.
Activate ==
    /\ At("activate")
    /\ IF ~NativesNamed(pub, disk, proc.override) THEN GoOn("python")
       ELSE IF proc.gpu = None THEN Refuse("gpu")
       ELSE \/ Refuse("cuda") \/ GoOn("verify")
            \/ /\ proc' = [proc EXCEPT !.cuda = TRUE] /\ stage' = "verify"
               /\ UNCHANGED <<pub, disk, env, why, attached, package, handle, syncs>>

\* _resolve_host_native_paths opens every library it takes.
OpensAll(next) ==
    LET c == Cell(pub, env)
        files == HostNatives(disk, c)
        bad == {b \in DOMAIN files : Probe(files[b], proc, pub.abi) # "ok"}
    IN  \/ c.dir = None /\ Refuse("no directory")
        \/ c.dir # None /\ DOMAIN files = {} /\ Refuse("no natives")
        \/ c.dir # None /\ \E b \in bad : Refuse(Probe(files[b], proc, pub.abi))
        \/ c.dir # None /\ DOMAIN files # {} /\ bad = {} /\ next

\* verify_native_modules
Verify == At("verify") /\ OpensAll(GoOn("python"))

\* check_bundle_python_abi, then probe_native_python_abi, which opens again what
\* Verify opened.
CheckPython ==
    /\ At("python")
    /\ IF proc.py # pub.abi THEN Refuse("interpreter") ELSE GoOn("import")

\* import flash_rt, once; its api module takes the kernels that sys.modules has, and
\* _refresh_flash_rt_kernel_bindings gives them to one that was imported without.
Kernels(modules) == {modules[b] : b \in {<<"flash_rt_kernels">>} \cap DOMAIN modules}
\* (mutant: without the refresh, an early import keeps nothing)
BindOnImport(modules) ==
    /\ package' = IF package # "absent" THEN package
                  ELSE CASE pub.package = "eager" -> "api"
                         [] pub.package = "lazy" -> "plain"
                         [] pub.package \in {"none", "broken"} -> "absent"
    /\ handle' = IF package' # "api" \/ package = "api" \/ Kernels(modules) = {} THEN handle
                 ELSE CHOOSE f \in Kernels(modules) : TRUE

Bind(modules) ==
    /\ package' = IF package # "absent" THEN package
                  ELSE CASE pub.package = "eager" -> "api"
                         [] pub.package = "lazy" -> "plain"
                         [] pub.package \in {"none", "broken"} -> "absent"
    /\ handle' = IF package' # "api" \/ handle # None \/ Kernels(modules) = {} THEN handle
                 ELSE CHOOSE f \in Kernels(modules) : TRUE
\* _register_from_paths
Register(modules) ==
    /\ attached' = modules /\ stage' = "ready" /\ Bind(modules)
    /\ UNCHANGED <<pub, disk, proc, env, why, syncs>>

\* ensure_bundle_importable: without natives where the override names an environment
\* that has none; else it resolves and opens everything again.
Importable ==
    /\ At("import")
    /\ \/ /\ proc.override # None /\ ~NativesNamed(pub, disk, proc.override)
          /\ Register(Nothing)
       \/ /\ proc.override = None \/ NativesNamed(pub, disk, proc.override)
          /\ IF proc.gpu = None THEN Refuse("gpu")
             ELSE OpensAll(Register(HostNatives(disk, Cell(pub, env))))

\* The entry imports flash_rt.api when it needs it.
EntryImportsApi ==
    /\ At("ready") /\ package = "plain"
    /\ package' = "api"
    /\ handle' = IF Kernels(attached) = {} THEN None ELSE CHOOSE f \in Kernels(attached) : TRUE
    /\ UNCHANGED <<pub, disk, proc, stage, env, why, attached, syncs>>

End ==
    /\ stage \in {"ready", "refused"}
    /\ stage' = "idle" /\ proc' = NoProc /\ env' = None /\ why' = "none"
    /\ attached' = Nothing /\ package' = "absent" /\ handle' = None
    /\ UNCHANGED <<pub, disk, syncs>>

\* A sync replaces files of the same name and removes none.
Sync ==
    /\ At("idle") /\ syncs < MaxSyncs /\ syncs' = syncs + 1
    /\ \E p \in Pubs :
          /\ pub' = p
          /\ disk' = [d \in DOMAIN disk \cup DOMAIN p.files |->
                IF d \notin DOMAIN p.files THEN disk[d]
                ELSE IF d \notin DOMAIN disk THEN p.files[d]
                ELSE [lib |-> p.files[d].lib \cup
                              {f \in disk[d].lib : FileName(f) \notin Names(p.files, d)},
                      sub |-> p.files[d].sub \/ disk[d].sub]]
    /\ UNCHANGED <<proc, stage, env, why, attached, package, handle>>

Next ==
    \/ Start \/ ResolveEnv \/ Layout \/ Activate \/ Verify \/ CheckPython \/ Importable
    \/ EntryImportsApi \/ End \/ Sync

Spec == Init /\ [][Next]_vars
-----------------------------------------------------------------------------
(***************************************************************************)
(* The check of the C libraries (native_host_abi.py), which answers for    *)
(* the libraries that it selects itself                                    *)
(***************************************************************************)
\* (mutant: the highest ABI)
SelectedNewest(d, c) ==
    LET libs == Libraries(Names(d, c.dir), c.key)
        best == {PickNewest(Artifacts(libs, b)) : b \in Bases(libs)}
    IN  IF best = {} THEN d[c.dir].lib ELSE {FileAt(d, c.dir, n) : n \in best}

\* selected_native_so_paths: the cell's key also where the directory is shared.
Selected(d, c) ==
    LET libs == Libraries(Names(d, c.dir), c.key)
        best == {PickBest(Artifacts(libs, b)) : b \in Bases(libs)}
    IN  IF best = {} THEN d[c.dir].lib ELSE {FileAt(d, c.dir, n) : n \in best}

\* merge_requirements, compare_abi; without readelf and objdump nothing is needed.
Needs(files, tools) ==
    IF ~tools \/ files = {} THEN 0
    ELSE CHOOSE n \in {f.need : f \in files} : \A f \in files : f.need <= n

\* ensure_native_host_abi_for_bundle: what the libraries ask for, then opening them
HostAbiOK(d, c, m, tools) ==
    /\ Needs(Selected(d, c), tools) <= m.libs
    /\ \A f \in Selected(d, c) : Opening(f, m) \notin {"python", "libs"}

-----------------------------------------------------------------------------
(***************************************************************************)
(* Properties                                                              *)
(***************************************************************************)
Stages == {"idle", "resolve", "layout", "activate", "verify", "python", "import", "ready",
           "refused"}
Reasons == {"none", "gpu", "environment", "layout", "cuda", "no directory", "no natives",
            "python", "libs", "interpreter"}

\* The state of the process; an environment is chosen between resolve_bundle_env_key
\* and the end, and natives are attached only to a process that is ready.
LoadTypeOK ==
    /\ pub \in Pubs /\ stage \in Stages /\ why \in Reasons /\ syncs \in 0..MaxSyncs
    /\ proc \in [gpu : Gpus \cup {None}, override : Overrides \cup {None},
                py : Pythons \cup {None}, libs : LibVersions \cup {0},
                cuda : BOOLEAN, other : BOOLEAN]
    /\ env \in Range1(KeysOf(pub)) \cup {None}
    /\ stage \in {"layout", "activate", "verify", "python", "import", "ready"} => env # None
    /\ stage \in {"idle", "resolve"} => env = None
    /\ package \in {"absent", "plain", "api"}
    /\ (stage = "refused" <=> why # "none")
    /\ stage # "ready" => attached = Nothing

\* An environment fits if it has the host's SM and a CUDA of its family.
Fits(key, host) ==
    LET k == ParseKey(key) h == ParseKey(host)
    IN  /\ IsKey(key) /\ SamePlace(k, h)
        /\ k.sm = h.sm /\ k.cu # None /\ Family(k.cu) = Family(h.cu)

\* resolve_bundle_env_key (manifest_ext.py:82) never takes an environment of another
\* Python or platform, nor one of another SM or CUDA family when one fits, whatever
\* the order of the runtime map and the tags it declares.
KinCell ==
    env # None /\ proc.override \notin Range1(KeysOf(pub)) =>
        LET host == HostKey(pub, proc.gpu)
        IN  /\ SamePlace(ParseKey(env), ParseKey(host))
            /\ (\E key \in Range1(KeysOf(pub)) : Fits(key, host)) => Fits(env, host)

\* A library without an ABI, which counts as "dev" (native_naming.py:142), lies in
\* the cell's own directory beside another of its module.
OldBeside(d, c) ==
    /\ Own(c)
    /\ LET libs == LibrariesOf(d, c)
       IN  \E m, n \in DOMAIN libs :
              m # n /\ libs[m].base = libs[n].base /\ Len(n) = Len(c.key) + 1

\* The modules of a process come from one build, whatever earlier publications have
\* left in the directory: validation looks at the first file of each module
\* (native_validate.py:195), the loader at the lowest ABI (native_naming.py:386).
\* Excepted is a directory where a library of the old naming lies beside another of
\* its module: its name then sorts by its key, and its ABI is "dev".
OneBuild ==
    stage = "ready" /\ (Cell(pub, env).dir # None => ~OldBeside(disk, Cell(pub, env))) =>
        \A a, b \in DOMAIN attached :
            LET lib(x) == Library(FileName(attached[x]), LookupKey(Cell(pub, env)))
            IN  lib(a).abi = lib(b).abi /\ lib(a).py = lib(b).py

\* A process that is ready has a module for every library in the directory of its
\* environment: none is passed over for its name (native_validate.py:170).  An
\* override that the bundle does not know runs without natives (native.py:312).
NothingSkipped ==
    stage = "ready" /\ proc.override \in Range1(KeysOf(pub)) \cup {None} /\ Cell(pub, env).dir # None =>
        \A f \in disk[Cell(pub, env).dir].lib : \E b \in DOMAIN attached : attached[b].module = f.module

\* flash_rt.api holds the kernels of this process whenever both are there, however
\* early something imported it (native.py:175).
KernelsReachTheApi ==
    stage = "ready" /\ package = "api" /\ Kernels(attached) # {} => handle \in Kernels(attached)

\* Where the check of the C libraries passes, no process on that machine is refused
\* for them, for a directory of one environment (native_host_abi.py:350).
GateVouches ==
    stage = "refused" /\ why = "libs" /\ Own(Cell(pub, env)) =>
        \A tools \in BOOLEAN : ~HostAbiOK(disk, Cell(pub, env), proc, tools)
=============================================================================
