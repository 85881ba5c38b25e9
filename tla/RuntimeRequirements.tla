------------------------ MODULE RuntimeRequirements ------------------------
(***************************************************************************)
(* Which Python requirements a bundle declares, and whether a venv meets   *)
(* one: flashcli_bundle/runtime/requirements_spec.py.                      *)
(*                                                                         *)
(* A requirement is [name, accepts]: the distribution and the versions its *)
(* specifier admits.  The text of a specifier, of a requirements file and  *)
(* of a manifest is parsed elsewhere; what is modelled is which block wins *)
(* and what happens to it.  "pytorch", the second name of torch, is one    *)
(* name with it.                                                           *)
(***************************************************************************)
EXTENDS Naturals, Sequences, SequencesExt

CONSTANTS
    Names,        \* distributions
    Torch,        \* the distribution torch
    CudaWheels,   \* torchaudio, torchvision, torchtext
    NoRoot,       \* distributions none of whose import names is found
    Versions,     \* of a distribution; 0 stands for not installed
    Builds,       \* the builds of a wheel: the CUDA of the torch index, or plain
    None          \* no block, no requirement

ASSUME RequirementNames ==
    /\ Torch \in Names
    /\ CudaWheels \subseteq Names \ {Torch}
    /\ Versions \subseteq Nat \ {0}

Requirement == [name: Names, accepts: SUBSET Versions]
AnyVersion(n) == [name |-> n, accepts |-> Versions]

\* What the venv holds of a distribution.
Wheel == [ver: Versions, build: Builds]
Absent == [ver |-> 0, build |-> "none"]
Installed == Wheel \cup {Absent}

\* torch_ecosystem_package_names
TorchEcosystem == {Torch} \cup CudaWheels

\* uses_torch_cuda_wheel_index
UsesTorchCudaWheelIndex(r) == r.name \in CudaWheels

NamesOf(rs) == {rs[i].name : i \in DOMAIN rs}

\* _dedupe_strings: the first requirement of each name stays.
Dedupe(rs) ==
    LET kept[i \in 0..Len(rs)] ==
            IF i = 0 THEN <<>>
            ELSE LET before == kept[i - 1]
                 IN  IF rs[i].name \in NamesOf(before) THEN before ELSE Append(before, rs[i])
    IN  kept[Len(rs)]

\* parse_torch_dependency: false, null and "skip" mean no torch at all; an
\* object without a package means any torch.
ParseTorchDependency(value) ==
    IF value.kind = "skip" THEN None
    ELSE IF value.kind = "default" THEN AnyVersion(Torch)
    ELSE [name |-> Torch, accepts |-> value.accepts]

\* _split_torch: torch is taken out of the list; any torch when it is not there.
SplitTorch(rs) ==
    LET torches == SelectSeq(rs, LAMBDA r : r.name = Torch)
    IN  [torch |-> IF torches = <<>> THEN AnyVersion(Torch) ELSE Last(torches),
         pip   |-> SelectSeq(rs, LAMBDA r : r.name # Torch)]

\* _spec_from_python_dependencies: an explicit block is authoritative even when
\* it is empty.
SpecFromPythonDependencies(py, txt) ==
    [torch |-> ParseTorchDependency(py.torch), pip |-> Dedupe(py.pip \o txt)]

\* load_from_bundle_root.  b.block, b.defaults and b.envs[e] are
\* python_dependencies objects or None: the one at the top of the manifest hides
\* both others, that of the selected environment replaces the defaults.
LoadFromBundleRoot(b, env) ==
    LET py == IF b.block # None THEN b.block
              ELSE IF env \in DOMAIN b.envs /\ b.envs[env] # None THEN b.envs[env]
              ELSE b.defaults
    IN  IF ~b.manifest THEN None
        ELSE IF py # None THEN SpecFromPythonDependencies(py, b.txt)
        ELSE IF b.txt # <<>> THEN SplitTorch(b.txt)
        ELSE None

\* extract_from_flashrt_pyproject of a FlashRT tree that has a pyproject.toml.
ExtractFromFlashrtPyproject(repo) == SplitTorch(Dedupe(repo.txt \o repo.dependencies))

\* resolve_runtime_requirements: the bundle, else the first FlashRT tree next to
\* flashcli, else the list shipped with flashcli.
ResolveRuntimeRequirements(b, env, repos, shipped) ==
    LET trees == SelectSeq(repos, LAMBDA r : r.pyproject /\ r.flash_rt)
    IN  IF LoadFromBundleRoot(b, env) # None THEN LoadFromBundleRoot(b, env)
        ELSE IF trees # <<>> THEN ExtractFromFlashrtPyproject(Head(trees))
        ELSE [torch |-> AnyVersion(Torch), pip |-> shipped]

\* RuntimeRequirementsSpec.all_packages: torch first.
AllPackages(spec) ==
    Dedupe((IF spec.torch = None THEN <<>> ELSE <<spec.torch>>) \o spec.pip)

\* _run_requirement_probe in the venv with python -I, in the order of its checks.
Probe(venv, r) ==
    IF venv[r.name].ver = 0 THEN "dist missing"
    ELSE IF r.name \in NoRoot THEN "module missing"
    ELSE IF venv[r.name].ver \notin r.accepts THEN "version mismatch"
    ELSE "ok"

\* requirement_import_satisfied
ImportSatisfied(venv, r) == Probe(venv, r) = "ok"

\* requirement_needs_pip_install
NeedsPipInstall(venv, r, force) == force \/ ~ImportSatisfied(venv, r)
=============================================================================
