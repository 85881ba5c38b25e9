----------------------------- MODULE InferEntry -----------------------------
(***************************************************************************)
(* The process that runs inside the bundle venv: execute_run and           *)
(* execute_serve of flashcli_bundle/infer/app.py.  It activates the bundle *)
(* (CUDA libraries, native modules, declared packages), finds the weights, *)
(* sets the environment of the entry, and runs a script or an engine; an   *)
(* import that fails is answered with one repair.  Every pip call goes to  *)
(* the venv of DepsInstall, whose calls are stages of this process.        *)
(***************************************************************************)
EXTENDS DepsInstall

CONSTANTS
    Modes,          \* [Caps -> {"engine", "script"}]: manifest entry.<cap>.mode
    EntryNeeds,     \* what the entry of each publication imports, declared or not
    HttpStack,      \* distributions of fastapi and uvicorn
    NativeRuntime,  \* the environment's directory holds native modules
    Userland,       \* pip packages with the CUDA libraries; {} = family unknown
    SystemCuda,     \* the libraries load without them
    Dlopens,        \* the libraries of the pip packages load
    SkipUserland,   \* FLASHCLI_SKIP_CUDA_USERLAND
    SkipAutoInstall,\* FLASHCLI_SKIP_AUTO_INSTALL
    Extras,         \* declared extra_weights, as environment keys
    Usable,         \* those with a repo, or bundled
    ManifestEnv,    \* the names of the manifest's env block
    Undeclared      \* other FLASHCLI_EXTRA_WEIGHT_ names of the user's environment

Caps == {"run", "serve"}
ScriptKeys == {"checkpoint", "bundle root", "preset", "variant"}
Keys == ScriptKeys \cup {"mtp", "hub offline"} \cup Extras \cup ManifestEnv \cup Undeclared
Values == {"unset", "foreign", "own"}

ASSUME EntryAssumption ==
    /\ Modes \in [Caps -> {"engine", "script"}]
    /\ EntryNeeds \in [DOMAIN Bundles -> SUBSET Names] /\ HttpStack \subseteq Names
    /\ Userland \subseteq Requirement
    /\ {NativeRuntime, SystemCuda, Dlopens, SkipUserland, SkipAutoInstall} \subseteq BOOLEAN
    /\ Usable \subseteq Extras
    /\ ManifestEnv \cap (ScriptKeys \cup Extras) = {}
    /\ (Undeclared \cup {"mtp"}) \cap Extras = {}

VARIABLES
    stage,   \* where the process is; "deps" while a call of DepsInstall runs
    proc,    \* its arguments and what it remembers
    environ  \* os.environ, by who gave the value: nobody, the user, this run

entry == <<stage, proc, environ>>
vars == <<deps, entry>>

NoProc == [cap |-> "run", mode |-> "engine", asked |-> FALSE, install |-> FALSE,
           then |-> "none", retried |-> FALSE, http |-> FALSE]
NoEnviron == [k \in Keys |-> "unset"]

EntryInit ==
    /\ Init
    /\ stage = "idle" /\ proc = NoProc /\ environ = NoEnviron

(***************************************************************************)
(* Steps of the process                                                    *)
(***************************************************************************)
At(s) == stage = s
To(s) == stage' = s /\ UNCHANGED proc
Exit == stage' = "idle" /\ proc' = NoProc /\ environ' = NoEnviron

\* A step that touches nothing but the process: it goes on or it ends.
GoOn(s) == To(s) /\ UNCHANGED <<deps, environ>>
Stop == Exit /\ UNCHANGED deps

\* A pip install outside ensure_runtime_python_stack, without constraints.
PipThen(rs, s, rest) ==
    /\ \E res \in {Resolve(rs, NoPins, FALSE, FALSE)} :
          \/ /\ res.met /\ venv' = res.after
             /\ stage' = s /\ proc' = rest /\ UNCHANGED <<environ, faults>>
          \/ ~res.met /\ Exit /\ UNCHANGED <<venv, faults>>
          \/ /\ venv' \in Partial(res.after) /\ Exit
             /\ faults < MaxFaults /\ faults' = faults + 1
    /\ ready' = FALSE
    /\ UNCHANGED <<pins, source, built, bundle, pc, call>>

\* ensure_runtime_python_stack or, with force, repair_bundle_python_stack.
CallDeps(force, next, rest) ==
    /\ Begin(force)
    /\ stage' = "deps" /\ proc' = [rest EXCEPT !.then = next]
    /\ UNCHANGED environ

\* auto_install_flag
AutoInstall(no_auto_install) == ~no_auto_install /\ ~SkipAutoInstall

\* infer_run, infer_serve: the host has set FLASHCLI_BUNDLE_ROOT and the offline
\* switches (inferexec.go:23).  A script's RunInvocation does not carry
\* --no-auto-install, which is stripped from the script's arguments.
Start ==
    /\ At("idle") /\ pc = "idle"
    /\ \E cap \in Caps, asked \in BOOLEAN, k \in {{}, Keys} :
          /\ proc' = [NoProc EXCEPT !.cap = cap, !.mode = Modes[cap], !.asked = asked,
                          !.install = AutoInstall(asked /\ Modes[cap] = "engine")]
          /\ environ' = [[n \in Keys |-> IF n \in k THEN "foreign" ELSE "unset"]
                            EXCEPT !["bundle root"] = "own", !["hub offline"] = "own"]
    /\ stage' = "activate"
    /\ UNCHANGED deps

\* activate_for_preset: no bundle, no environment for the host, a broken layout,
\* no GPU for native modules.
Activate ==
    /\ At("activate")
    /\ Stop \/ GoOn(IF NativeRuntime THEN "userland" ELSE "natives")

CudaFiles == Userland # {} /\ \A r \in Userland : venv[r.name] # Absent
CudaLoads == SystemCuda \/ (CudaFiles /\ Dlopens)

\* ensure_cuda_userland_libs: install is TRUE whatever --no-auto-install says.
\* Files that are there and do not load are not installed again.
CudaUserland ==
    /\ At("userland")
    /\ IF SkipUserland \/ CudaLoads THEN GoOn("natives")
       ELSE IF CudaFiles \/ Userland = {} THEN Stop
       ELSE PipThen(Userland, "userland again", proc)

CudaUserlandAgain ==
    /\ At("userland again")
    /\ IF CudaLoads THEN GoOn("natives") ELSE Stop

\* verify_native_modules, check_bundle_python_abi, probe_native_python_abi
VerifyNatives ==
    /\ At("natives")
    /\ Stop \/ GoOn(IF proc.install THEN "python" ELSE "weights")

EnsurePython ==
    /\ At("python")
    /\ IF Missing = {} THEN GoOn("python again")
       ELSE CallDeps(FALSE, "python again", proc)

PythonAgain ==
    /\ At("python again")
    /\ IF Missing = {} THEN GoOn("weights") ELSE CallDeps(TRUE, "weights", proc)

\* (mutant: an error of pip is ignored)
DepsDoneAnyway == At("deps") /\ pc = "idle" /\ GoOn(proc.then)

\* A call that returned lets the process go on; an error of pip is not caught.
DepsDone ==
    /\ At("deps") /\ pc = "idle"
    /\ \/ ready /\ GoOn(proc.then)
       \/ ~ready /\ Stop

\* ensure_bundle_importable, resolve_effective_model_variant, ensure_model_cached
Weights ==
    /\ At("weights")
    /\ Stop \/ GoOn("env")

\* inject_script_entry_env
ScriptEnv(variant) ==
    [k \in Keys |->
        IF k \in Usable \cup (ScriptKeys \ {"variant"}) \/ (k = "variant" /\ variant) THEN "own"
        ELSE IF k \in ScriptKeys \cup Extras THEN "unset"
        ELSE environ[k]]

\* (mutant: nothing is cleared for an engine)
KeepEngineEnv(mtp) ==
    [k \in Keys |-> IF k \in ManifestEnv \/ (k = "mtp" /\ mtp) THEN "own" ELSE environ[k]]

\* inject_engine_entry_env: the manifest's env block, then --mtp-checkpoint.
EngineEnv(mtp) ==
    [k \in Keys |->
        IF k \in ManifestEnv \/ (k = "mtp" /\ mtp) THEN "own"
        ELSE IF k \in ScriptKeys \cup Extras THEN "unset"
        ELSE environ[k]]

\* inject_entry_env: extra weights or an MTP checkpoint that is not there end it.
InjectEnv ==
    /\ At("env")
    /\ \/ Stop
       \/ /\ \E given \in BOOLEAN :
                environ' = IF proc.mode = "script" THEN ScriptEnv(given) ELSE EngineEnv(given)
          /\ To(IF proc.mode = "script" THEN "script"
                ELSE IF proc.cap = "serve" THEN "http" ELSE "create")
          /\ UNCHANGED deps

Imports(names) == \A n \in names : venv[n] # Absent

\* load_entry_callable and invoke_script_main: no entry, no such attribute, an
\* import that fails, or the script's own end.
Script ==
    /\ At("script")
    /\ Stop \/ (Imports(EntryNeeds[bundle]) /\ GoOn("running"))

\* ensure_flashcli_serve_imports
HttpImports ==
    /\ At("http")
    /\ IF Imports(HttpStack) THEN GoOn("create")
       ELSE IF proc.install /\ HostSource # None
       THEN PipThen({AnyVersion(Host)}, "http again", [proc EXCEPT !.http = TRUE])
       ELSE Stop

HttpImportsAgain ==
    /\ At("http again")
    /\ IF Imports(HttpStack) THEN GoOn("create") ELSE Stop

\* (mutant: every ImportError is answered by a repair)
CreateAgain ==
    /\ At("create")
    /\ IF Imports(EntryNeeds[bundle]) THEN GoOn("load")
       ELSE IF proc.install THEN CallDeps(TRUE, "create", proc)
       ELSE Stop

\* (mutant: the repair does not ask whether it may)
CreateUnasked ==
    /\ At("create")
    /\ IF Imports(EntryNeeds[bundle]) THEN GoOn("load")
       ELSE IF ~proc.retried THEN CallDeps(TRUE, "create", [proc EXCEPT !.retried = TRUE])
       ELSE Stop

\* retry_after_bundle_repair(create_engine): FLASHCLI_BUNDLE_ROOT is no longer
\* set, so the bundle is looked up again and may not be found; an ImportError is
\* answered by one forced repair.
Create ==
    /\ At("create")
    /\ \/ Stop
       \/ IF Imports(EntryNeeds[bundle]) THEN GoOn("load")
          ELSE IF proc.install /\ ~proc.retried
          THEN CallDeps(TRUE, "create", [proc EXCEPT !.retried = TRUE])
          ELSE Stop

\* engine.load, then predict, or warmup and uvicorn
Load ==
    /\ At("load")
    /\ Stop \/ GoOn(IF proc.cap = "serve" THEN "serving" ELSE "running")

\* The entry returns, raises, or the process is killed.
End == stage \notin {"idle", "deps"} /\ Stop

\* A step of the dependency call the process is in, or its end there.
DepsStep == At("deps") /\ Step /\ UNCHANGED entry
DepsKilled == At("deps") /\ Interrupt /\ Exit

\* A sync between two runs.
Sync == At("idle") /\ Publish /\ UNCHANGED entry

EntryStep ==
    \/ Activate \/ CudaUserland \/ CudaUserlandAgain \/ VerifyNatives \/ EnsurePython
    \/ PythonAgain \/ DepsDone \/ Weights \/ InjectEnv \/ Script \/ HttpImports
    \/ HttpImportsAgain \/ Create \/ Load \/ DepsStep

EntryNext == Start \/ EntryStep \/ End \/ DepsKilled \/ Sync

\* The process goes on; how long a script or a prediction takes is the entry's
\* own, but it ends.
EntrySpec ==
    /\ EntryInit /\ [][EntryNext]_vars
    /\ WF_vars(EntryStep) /\ WF_vars(stage = "running" /\ End)

-----------------------------------------------------------------------------
EntryStages == {"idle", "activate", "userland", "userland again", "natives", "python",
                "python again", "deps", "weights", "env", "script", "http", "http again",
                "create", "load", "running", "serving"}

Activated == {"weights", "env", "script", "http", "create", "load", "running", "serving"}

\* When the process may install, no entry and no engine starts on a venv that
\* lacks a declared package (activate_core.py:81), whatever earlier runs left in
\* it, unless the reinstallation of the HTTP stack came after the check.
EntryRunsReady == stage \in Activated /\ proc.install /\ ~proc.http => Missing = {}

\* A run of an engine that was told not to install changes nothing in the venv
\* but the CUDA libraries (helpers.py:14, activate_core.py:56).
EngineRespectsNoInstall ==
    [][proc.asked /\ proc.mode = "engine"
          => \A n \in Names \ Reach(Userland) : venv'[n] = venv[n]]_vars

\* In the whole process two more calls go without the constraints: that for the
\* CUDA libraries and that for the HTTP stack (helpers.py:55).
PinsHoldInProcess ==
    [][\A n \in TorchEcosystem :
          pins[n] # Absent /\ venv'[n] \notin {venv[n], pins[n], Absent}
              => \/ pc = "torch" \/ Unconstrained(n)
                 \/ stage = "userland" /\ n \in Reach(Userland)
                 \/ stage = "http" /\ n \in Closure[Host]]_vars

\* What an entry reads is of this run: a script finds its names set, an engine
\* finds none of them, and neither finds what the user's environment held under
\* a name the bundle declares (entry_env.py:43).
EntryEnvIsOwn ==
    stage \in {"script", "http", "http again", "create", "load", "running", "serving"} =>
        /\ \A k \in ScriptKeys \cup Extras \cup {"hub offline"} : environ[k] # "foreign"
        /\ proc.mode = "engine" => \A k \in ScriptKeys \cup Extras : environ[k] = "unset"
        /\ proc.mode = "script" => \A k \in Usable \cup {"checkpoint"} : environ[k] = "own"

\* Every run comes to its end or serves, whatever its imports and repairs meet.
EveryRunEnds == stage # "idle" ~> stage \in {"idle", "serving"}
=============================================================================
