---------------------------- MODULE DepsInstall ----------------------------
(***************************************************************************)
(* ensure_runtime_python_stack of flashcli_bundle/infer/deps.py: the       *)
(* packages a bundle declares are put into its venv by a fixed order of    *)
(* pip calls (torch from its CUDA index, a constraints file that pins it,  *)
(* the rest from PyPI, some without their dependencies, Isaac-GR00T from a *)
(* git checkout), then looked at again.  Between calls the bundle may be   *)
(* republished with other requirements, and a call may be cut short        *)
(* anywhere: the venv, the constraints file and the checkout stay.         *)
(*                                                                         *)
(* pip is external: it keeps what satisfies its request and installs the   *)
(* newest wheel that does, for all names of the request or for none; cut   *)
(* short, it leaves any part of its changes.  Every version of a           *)
(* distribution has the same requirements.                                 *)
(***************************************************************************)
EXTENDS RuntimeRequirements, FiniteSets

CONSTANTS
    Host,         \* flashcli-bundle itself, which the manifest does not manage
    Gr00t,        \* the distribution that comes from the Isaac-GR00T repository
    Requires,     \* Requires-Dist: [Names -> SUBSET Requirement]
    PyPI,         \* the versions on PyPI: [Names -> SUBSET Versions]
    TorchIndex,   \* the CUDA builds on the torch index: [Names -> SUBSET Versions]
    Bundles,      \* the publications of the bundle, in order
    Env,          \* FLASHCLI_RUNTIME_ENV_KEY
    Repos,        \* FlashRT trees next to flashcli
    Shipped,      \* the requirements shipped with flashcli
    HostSources,  \* where flashcli-bundle can be installed from
    MaxFaults     \* bound: pip or git failures, and interruptions

ASSUME DepsAssumption ==
    /\ Host \in Names /\ Gr00t \in Names
    /\ {Host, Gr00t} \cap TorchEcosystem = {}
    /\ Requires \in [Names -> SUBSET Requirement]
    /\ PyPI \in [Names -> SUBSET Versions] /\ TorchIndex \in [Names -> SUBSET Versions]
    /\ {"cuda", "plain"} \subseteq Builds
    /\ MaxFaults \in Nat

VARIABLES
    venv,     \* what pip would list: [Names -> Installed]
    pins,     \* torch-ecosystem.constraints.txt: [Names -> Installed], Absent = not pinned
    source,   \* the Isaac-GR00T checkout kept under the name of the wanted ref
    built,    \* the revision gr00t was installed from
    bundle,   \* the publication on disk, an index of Bundles
    pc, call, \* the running call: its stage, its arguments and its batches
    ready,    \* the last call returned and nothing has changed since
    faults

deps == <<venv, pins, source, built, bundle, pc, call, ready, faults>>

NoPins == [n \in Names |-> Absent]

(***************************************************************************)
(* pip                                                                     *)
(***************************************************************************)
ReqNames(rs) == {r.name : r \in rs}

\* The names a distribution brings, its own and those its wheels require.
Closure ==
    LET after[k \in 0..Cardinality(Names)] ==
            IF k = 0 THEN [n \in Names |-> {n}]
            ELSE LET seen == after[k - 1]
                 IN  [n \in Names |-> seen[n] \cup UNION {seen[m] : m \in ReqNames(Requires[n])}]
    IN  after[Cardinality(Names)]

Reach(rs) == UNION {Closure[n] : n \in ReqNames(rs)}

\* What a resolution must respect.  pinned is NoPins without --constraint.
Fits(rs, touched, pinned, noDeps, n, w) ==
    /\ \A r \in rs : r.name = n => w.ver \in r.accepts
    /\ ~noDeps => \A m \in touched : \A r \in Requires[m] : r.name = n => w.ver \in r.accepts
    /\ pinned[n] # Absent => w = pinned[n]

\* The wheels on offer; --extra-index-url adds the torch index.
Offers(n, extra) ==
    {[ver |-> v, build |-> "plain"] : v \in PyPI[n]}
        \cup (IF extra THEN {[ver |-> v, build |-> "cuda"] : v \in TorchIndex[n]} ELSE {})

\* Of two wheels pip takes the higher version, and a local version (+cu128)
\* before the same one without.
Newer(v, w) == v.ver > w.ver \/ (v.ver = w.ver /\ (v.build = "cuda" \/ v = w))
Newest(ws) == CHOOSE w \in ws : \A v \in ws : Newer(w, v)

\* One pip install: whether the request can be met, and the venv after it.
Resolve(rs, pinned, noDeps, extra) ==
    LET touched == IF noDeps THEN ReqNames(rs) ELSE Reach(rs)
        moved == {n \in touched : \/ venv[n] = Absent
                                  \/ ~Fits(rs, touched, pinned, noDeps, n, venv[n])}
        Choice(n) == {w \in Offers(n, extra) : Fits(rs, touched, pinned, noDeps, n, w)}
        found == {n \in moved : Choice(n) # {}}
    IN  [met   |-> found = moved,
         after |-> [n \in Names |-> IF n \in found THEN Newest(Choice(n)) ELSE venv[n]]]

\* What a pip that is cut short leaves: each package it was to change is as
\* before, gone or changed.
Partial(after) ==
    LET changed == {n \in Names : after[n] # venv[n]}
        Left(kept, gone) == [n \in Names |-> IF n \in kept THEN venv[n]
                                             ELSE IF n \in gone THEN Absent ELSE after[n]]
    IN  {Left(kept, gone) : kept \in SUBSET changed, gone \in SUBSET changed}

(***************************************************************************)
(* What a call looks at                                                    *)
(***************************************************************************)
\* _torch_wheel_cuda_ok: torch and the wheel load together.
TorchWheelCudaOk(v, r) ==
    UsesTorchCudaWheelIndex(r) =>
        /\ v[Torch] # Absent /\ v[r.name] # Absent
        /\ v[r.name].build = v[Torch].build

\* _missing_runtime_imports
MissingRuntimeImports(v, declared) ==
    {r \in declared : ~ImportSatisfied(v, r) \/ ~TorchWheelCudaOk(v, r)}

\* The spec of each publication, and the packages it declares.
Specs == [b \in DOMAIN Bundles |-> ResolveRuntimeRequirements(Bundles[b], Env, Repos, Shipped)]
Packages == [b \in DOMAIN Bundles |-> ToSet(AllPackages(Specs[b]))]

\* What the bundle on disk lacks.
Missing == MissingRuntimeImports(venv, Packages[bundle])

\* flashcli_bundle_pip_spec: a source checkout, else FLASHCLI_INSTALL_REPO, else
\* what pip recorded for flashcli-bundle, else what it recorded for flashcli.
HostSource ==
    LET order == <<"checkout", "install repo", "direct url", "flashcli direct url">>
        found == SelectSeq(order, LAMBDA s : s \in HostSources)
    IN  IF found = <<>> THEN None ELSE Head(found)

(***************************************************************************)
(* The batches of _collect_install_batches.  unread are the packages whose *)
(* wheel metadata could not be downloaded: they count as requiring nothing.*)
(***************************************************************************)
\* _pip_wheel_requires_cache
WheelRequires(r, unread) ==
    IF UsesTorchCudaWheelIndex(r) \/ r.name \in unread \cup {Host, Gr00t} THEN {}
    ELSE Requires[r.name]

\* resolve_torch_index_specs: the declared torch and CUDA wheels, and every torch
\* name the other packages require.
TorchIndexSpecs(spec, unread) ==
    LET declared == (IF spec.torch = None THEN {} ELSE {spec.torch})
                        \cup {r \in ToSet(spec.pip) : UsesTorchCudaWheelIndex(r)}
        required == UNION {ReqNames(WheelRequires(r, unread)) : r \in ToSet(spec.pip)}
    IN  declared \cup {AnyVersion(n) : n \in (required \cap TorchEcosystem) \ ReqNames(declared)}

\* (mutant: a torch wheel of any version will do)
NeedsTorchAtAll(r, force) == force \/ venv[r.name] = Absent

\* _needs_torch_index_install
NeedsTorchIndexInstall(r, force) ==
    NeedsPipInstall(venv, r, force) \/ ~TorchWheelCudaOk(venv, r)

\* torch_ecosystem_nodeps_needed: its torch requirements come from the torch batch.
WithoutDeps(requires, covered) ==
    LET torches == ReqNames(requires) \cap TorchEcosystem
    IN  torches # {} /\ torches \subseteq covered

\* pypi_prereqs_for_isolated_install
PypiPrereqs(requires) == {q \in requires : q.name \notin TorchEcosystem}

Batches(spec, force, unread) ==
    LET index == TorchIndexSpecs(spec, unread)
        pip == {r \in ToSet(spec.pip) :
                    /\ ~UsesTorchCudaWheelIndex(r) /\ r.name # Host
                    /\ NeedsPipInstall(venv, r, force)}
        isolated == {r \in pip : WithoutDeps(WheelRequires(r, unread), ReqNames(index))}
    IN  [force    |-> force,
         torch    |-> {r \in index : NeedsTorchIndexInstall(r, force)},
         vcs      |-> {r \in pip : r.name = Gr00t},
         isolated |-> isolated,
         pypi     |-> {r \in pip \ isolated : r.name # Gr00t},
         now      |-> None,
         missing  |-> {}]

NoCall == [force |-> FALSE, torch |-> {}, vcs |-> {}, isolated |-> {}, pypi |-> {},
           now |-> None, missing |-> {}]

(***************************************************************************)
(* The call                                                                *)
(***************************************************************************)
Init ==
    /\ venv = [n \in Names |-> Absent]
    /\ pins = NoPins
    /\ source = "none" /\ built = "none"
    /\ bundle = 1
    /\ pc = "idle" /\ call = NoCall
    /\ ready = FALSE
    /\ faults = 0

Goto(stage, rest) == pc' = stage /\ call' = rest /\ UNCHANGED <<ready, faults>>
Return == pc' = "idle" /\ call' = NoCall /\ ready' = TRUE /\ UNCHANGED faults
Raise == pc' = "idle" /\ call' = NoCall /\ UNCHANGED <<ready, faults>>
Fault ==
    /\ faults < MaxFaults /\ faults' = faults + 1
    /\ pc' = "idle" /\ call' = NoCall /\ UNCHANGED ready

\* _run_pip: the request is met, refused (CalledProcessError) or cut short.
Pip(rs, pinned, noDeps, extra, stage, rest) ==
    \E res \in {Resolve(rs, pinned, noDeps, extra)} :
        \/ res.met /\ venv' = res.after /\ Goto(stage, rest)
        \/ ~res.met /\ UNCHANGED venv /\ Raise
        \/ venv' \in Partial(res.after) /\ Fault

Begin(force) ==
    /\ pc = "idle" /\ pc' = "host"
    /\ call' = [NoCall EXCEPT !.force = force]
    /\ ready' = FALSE
    /\ UNCHANGED <<venv, pins, source, built, bundle, faults>>

\* ensure_flashcli_bundle_in_venv
EnsureHost ==
    /\ pc = "host"
    /\ IF ~call.force /\ venv[Host] # Absent THEN Goto("look", call) /\ UNCHANGED venv
       ELSE IF HostSource = None THEN Raise /\ UNCHANGED venv
       ELSE Pip({AnyVersion(Host)}, NoPins, FALSE, FALSE, "look", call)
    /\ UNCHANGED <<pins, source, built, bundle>>

\* The early return of ensure_runtime_python_stack.
Look ==
    /\ pc = "look"
    /\ IF ~call.force /\ Missing = {}
       THEN Return ELSE Goto("collect", call)
    /\ UNCHANGED <<venv, pins, source, built, bundle>>

\* A download of metadata that fails is taken for a wheel without requirements.
Collect ==
    /\ pc = "collect"
    /\ \E unread \in SUBSET NamesOf(Specs[bundle].pip) :
          /\ faults + Cardinality(unread) <= MaxFaults
          /\ faults' = faults + Cardinality(unread)
          /\ call' = Batches(Specs[bundle], call.force, unread)
    /\ pc' = "torch"
    /\ UNCHANGED <<venv, pins, source, built, bundle, ready>>

\* _pip_install_torch_index_packages
TorchBatch ==
    /\ pc = "torch"
    /\ IF call.torch = {} THEN Goto("pypi", call) /\ UNCHANGED venv
       ELSE Pip(call.torch, NoPins, FALSE, TRUE, "pin", call)
    /\ UNCHANGED <<pins, source, built, bundle>>

\* _refresh_torch_ecosystem_constraints
Pin ==
    /\ pc = "pin" /\ Goto("pypi", call)
    /\ pins' = IF \A n \in TorchEcosystem : venv[n] = Absent THEN pins
               ELSE [n \in Names |-> IF n \in TorchEcosystem THEN venv[n] ELSE Absent]
    /\ UNCHANGED <<venv, source, built, bundle>>

\* (mutant: the constraints file is not handed over)
UnpinnedBatch ==
    /\ pc = "pypi"
    /\ IF call.pypi = {} THEN Goto("isolated", call) /\ UNCHANGED venv
       ELSE Pip(call.pypi, NoPins, FALSE, FALSE, "isolated", call)
    /\ UNCHANGED <<pins, source, built, bundle>>

\* The packages of PyPI, under the constraints file if there is one.
PypiBatch ==
    /\ pc = "pypi"
    /\ IF call.pypi = {} THEN Goto("isolated", call) /\ UNCHANGED venv
       ELSE Pip(call.pypi, pins, FALSE, FALSE, "isolated", call)
    /\ UNCHANGED <<pins, source, built, bundle>>

\* _install_isolated_packages, one package: its prerequisites with their
\* dependencies, then the package without.  Neither sees the constraints.
Prereqs ==
    /\ pc = "isolated"
    /\ IF call.isolated = {} THEN Goto("vcs", call) /\ UNCHANGED venv
       ELSE \E r \in call.isolated :
              LET needed == {q \in PypiPrereqs(Requires[r.name]) :
                                NeedsPipInstall(venv, q, call.force)}
                  rest == [call EXCEPT !.now = r, !.isolated = @ \ {r}]
              IN  IF needed = {} THEN Goto("nodeps", rest) /\ UNCHANGED venv
                  ELSE Pip(needed, NoPins, FALSE, FALSE, "nodeps", rest)
    /\ UNCHANGED <<pins, source, built, bundle>>

Isolated ==
    /\ pc = "nodeps"
    /\ IF NeedsPipInstall(venv, call.now, call.force)
       THEN Pip({call.now}, NoPins, TRUE, FALSE, "isolated", [call EXCEPT !.now = None])
       ELSE Goto("isolated", [call EXCEPT !.now = None]) /\ UNCHANGED venv
    /\ UNCHANGED <<pins, source, built, bundle>>

\* _ensure_isaac_gr00t_source: a directory with pyproject.toml and gr00t/ is
\* taken as it is; a clone checks out the default branch, the wanted ref follows.
Source ==
    /\ pc = "vcs"
    /\ IF \A r \in call.vcs : ~NeedsPipInstall(venv, r, call.force)
       THEN Goto("second", call)
       ELSE IF source # "none" THEN Goto("editable", call)
       ELSE Goto("clone", call)
    /\ UNCHANGED <<venv, pins, source, built, bundle>>

Clone ==
    /\ pc = "clone"
    /\ \/ source' = "default branch" /\ Goto("fetch", call)
       \/ source' = "none" /\ Fault
    /\ UNCHANGED <<venv, pins, built, bundle>>

Fetch ==
    /\ pc = "fetch"
    /\ Goto("checkout", call) \/ Fault
    /\ UNCHANGED <<venv, pins, source, built, bundle>>

Checkout ==
    /\ pc = "checkout"
    /\ source' = "ref" /\ Goto("editable", call)
    /\ UNCHANGED <<venv, pins, built, bundle>>

\* pip install -e of the checkout.
Editable ==
    /\ pc = "editable"
    /\ Pip(call.vcs, pins, TRUE, FALSE, "second", call)
    /\ built' = IF pc' = "second" THEN source ELSE built
    /\ UNCHANGED <<pins, source, bundle>>

\* (mutant: the installs are trusted)
NoSecondLook ==
    /\ pc = "second" /\ Return
    /\ UNCHANGED <<venv, pins, source, built, bundle>>

SecondLook ==
    /\ pc = "second"
    /\ IF Missing = {} THEN Return ELSE Goto("retry", [call EXCEPT !.missing = Missing])
    /\ UNCHANGED <<venv, pins, source, built, bundle>>

\* _install_missing_packages, one package; pip checks gr00t out by itself.
Retry ==
    /\ pc = "retry"
    /\ IF call.missing = {} THEN Goto("final", call) /\ UNCHANGED <<venv, built>>
       ELSE \E r \in call.missing :
              /\ Pip({r}, pins, FALSE, FALSE, "retry", [call EXCEPT !.missing = @ \ {r}])
              /\ built' = IF r.name = Gr00t /\ pc' = "retry" THEN "ref" ELSE built
    /\ UNCHANGED <<pins, source, bundle>>

FinalLook ==
    /\ pc = "final"
    /\ IF Missing = {} THEN Return ELSE Raise
    /\ UNCHANGED <<venv, pins, source, built, bundle>>

\* The process ends between two steps.
Interrupt ==
    /\ pc # "idle" /\ Fault
    /\ UNCHANGED <<venv, pins, source, built, bundle>>

\* A sync brings other requirements.
Publish ==
    /\ pc = "idle"
    /\ bundle < Len(Bundles) /\ bundle' = bundle + 1
    /\ ready' = FALSE
    /\ UNCHANGED <<venv, pins, source, built, pc, call, faults>>

Step ==
    \/ EnsureHost \/ Look \/ Collect \/ TorchBatch \/ Pin \/ PypiBatch \/ Prereqs
    \/ Isolated \/ Source \/ Clone \/ Fetch \/ Checkout \/ Editable \/ SecondLook
    \/ Retry \/ FinalLook

Next ==
    \/ \E force \in BOOLEAN : Begin(force)
    \/ Step
    \/ Interrupt
    \/ Publish

\* A call runs to its end, and the command is given again.
Spec == Init /\ [][Next]_deps /\ WF_deps(Step) /\ WF_deps(\E force \in BOOLEAN : Begin(force))

-----------------------------------------------------------------------------
\* A call that returned has left every package of the manifest on disk in the
\* venv, in a version it accepts and loading with the torch beside it, whatever
\* earlier calls left there and however they ended (deps.py:974).
ReadyMeansLoaded == ready => Missing = {}

\* The pip calls that are not handed the constraints file, and what each can move:
\* flashcli-bundle with what it requires, the prerequisites of an isolated package
\* with what they require, and that package itself.
Unconstrained(n) ==
    \/ pc = "host" /\ n \in Closure[Host]
    \/ pc = "isolated" /\ \E r \in call.isolated : n \in Reach(PypiPrereqs(Requires[r.name]))
    \/ pc = "nodeps" /\ n = call.now.name

\* A pinned torch package is brought to another build than the pinned one only by
\* the torch batch, which pins again, and by what requires it and is installed
\* without the constraints: no package of the PyPI batch, no checkout and no retry,
\* whatever they require, "can replace CUDA builds" (deps.py:123).
PinsHold ==
    [][\A n \in TorchEcosystem :
          pins[n] # Absent /\ venv'[n] \notin {venv[n], pins[n], Absent}
              => pc = "torch" \/ Unconstrained(n)]_deps

\* The constraints file pins what is no longer installed.
PinsAreStale == \E n \in TorchEcosystem : pins[n] # Absent /\ pins[n] # venv[n]

\* A declared CUDA wheel and torch are of different builds.
BuildsAreMixed ==
    \E r \in Packages[bundle] :
        venv[Torch] # Absent /\ ~TorchWheelCudaOk(venv, r)

\* Calls that are given again and again get the bundle ready, after any failure or
\* interruption (deps.py:974), unless the venv has come to where pip, asked for
\* what it already has, changes nothing.
Heals == []<>ready \/ <>[](PinsAreStale \/ BuildsAreMixed)
=============================================================================
