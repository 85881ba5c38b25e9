-------------------------- MODULE InferEntryProofs --------------------------
(* Proofs about DepsInstall, whose calls are stages of the process, and    *)
(* about InferEntry on top of them.                                        *)
EXTENDS InferEntry, TLAPS

-----------------------------------------------------------------------------
(* DepsInstall *)

\* ready is TRUE only between calls: a running call has none to show.
IInv == ready => pc = "idle" /\ Missing = {}

LEMMA InitIInv == Init => IInv
  BY DEF Init, IInv

\* What is missing depends on the venv and on the publication only.
LEMMA MissingStays ==
  ASSUME venv' = venv, bundle' = bundle
  PROVE  Missing' = Missing
  BY DEF Missing

\* A pip call leaves ready alone, however it ends.
LEMMA PipLeavesReady ==
  ASSUME NEW rs, NEW pinned, NEW noDeps, NEW extra, NEW label, NEW rest,
         Pip(rs, pinned, noDeps, extra, label, rest)
  PROVE  ready' = ready
  BY DEF Pip, Goto, Raise, Fault

\* A step of a running call makes ready TRUE only after a look that found
\* nothing missing, and it changes nothing with it.
LEMMA StepIInv ==
  ASSUME IInv, Step
  PROVE  IInv'
<1>1. CASE EnsureHost
  <2>1. ~ready  BY <1>1 DEF EnsureHost, IInv
  <2>2. ready' = ready  BY <1>1, PipLeavesReady DEF EnsureHost, Goto, Raise
  <2>. QED  BY <2>1, <2>2 DEF IInv
<1>2. CASE Look
  <2>1. ~ready /\ Missing' = Missing  BY <1>2, MissingStays DEF Look, IInv
  <2>. QED  BY <1>2, <2>1 DEF Look, Return, Goto, IInv
<1>3. CASE Collect
  BY <1>3 DEF Collect, IInv
<1>4. CASE TorchBatch
  <2>1. ~ready  BY <1>4 DEF TorchBatch, IInv
  <2>2. ready' = ready  BY <1>4, PipLeavesReady DEF TorchBatch, Goto
  <2>. QED  BY <2>1, <2>2 DEF IInv
<1>5. CASE Pin
  BY <1>5 DEF Pin, Goto, IInv
<1>6. CASE PypiBatch
  <2>1. ~ready  BY <1>6 DEF PypiBatch, IInv
  <2>2. ready' = ready  BY <1>6, PipLeavesReady DEF PypiBatch, Goto
  <2>. QED  BY <2>1, <2>2 DEF IInv
<1>7. CASE Prereqs
  <2>1. ~ready  BY <1>7 DEF Prereqs, IInv
  <2>2. ready' = ready  BY <1>7, PipLeavesReady DEF Prereqs, Goto
  <2>. QED  BY <2>1, <2>2 DEF IInv
<1>8. CASE Isolated
  <2>1. ~ready  BY <1>8 DEF Isolated, IInv
  <2>2. ready' = ready  BY <1>8, PipLeavesReady DEF Isolated, Goto
  <2>. QED  BY <2>1, <2>2 DEF IInv
<1>9. CASE Source
  BY <1>9 DEF Source, Goto, IInv
<1>10. CASE Clone
  BY <1>10 DEF Clone, Goto, Fault, IInv
<1>11. CASE Fetch
  BY <1>11 DEF Fetch, Goto, Fault, IInv
<1>12. CASE Checkout
  BY <1>12 DEF Checkout, Goto, IInv
<1>13. CASE Editable
  <2>1. ~ready  BY <1>13 DEF Editable, IInv
  <2>2. ready' = ready  BY <1>13, PipLeavesReady DEF Editable
  <2>. QED  BY <2>1, <2>2 DEF IInv
<1>14. CASE SecondLook
  <2>1. ~ready /\ Missing' = Missing  BY <1>14, MissingStays DEF SecondLook, IInv
  <2>. QED  BY <1>14, <2>1 DEF SecondLook, Return, Goto, IInv
<1>15. CASE Retry
  <2>1. ~ready  BY <1>15 DEF Retry, IInv
  <2>2. ready' = ready  BY <1>15, PipLeavesReady DEF Retry, Goto
  <2>. QED  BY <2>1, <2>2 DEF IInv
<1>16. CASE FinalLook
  <2>1. ~ready /\ Missing' = Missing  BY <1>16, MissingStays DEF FinalLook, IInv
  <2>. QED  BY <1>16, <2>1 DEF FinalLook, Return, Raise, IInv
<1>. QED
  BY <1>1, <1>2, <1>3, <1>4, <1>5, <1>6, <1>7, <1>8, <1>9, <1>10, <1>11, <1>12, <1>13,
     <1>14, <1>15, <1>16 DEF Step

LEMMA NextIInv == IInv /\ [Next]_deps => IInv'
<1>. SUFFICES ASSUME IInv, [Next]_deps PROVE IInv'
  OBVIOUS
<1>1. ASSUME NEW force \in BOOLEAN, Begin(force) PROVE IInv'
  BY <1>1 DEF Begin, IInv
<1>2. CASE Step
  BY <1>2, StepIInv
<1>3. CASE Interrupt
  BY <1>3 DEF Interrupt, Fault, IInv
<1>4. CASE Publish
  BY <1>4 DEF Publish, IInv
<1>5. CASE UNCHANGED deps
  <2>1. Missing' = Missing  BY <1>5, MissingStays DEF deps
  <2>. QED  BY <1>5, <2>1 DEF deps, IInv
<1>. QED
  BY <1>1, <1>2, <1>3, <1>4, <1>5 DEF Next

\* Whatever the packages, the publications, pip's answers and the interruptions: a
\* call that returned has left every declared package in the venv (deps.py:974).
THEOREM ReadyMeansLoadedHolds == Spec => []ReadyMeansLoaded
<1>1. IInv => ReadyMeansLoaded
  BY DEF IInv, ReadyMeansLoaded
<1>. QED
  BY InitIInv, NextIInv, <1>1, PTL DEF Spec

-----------------------------------------------------------------------------
(* Pins.                                                                   *)

\* What a pip call makes of a pinned distribution: it stays, or the pinned wheel comes.
LEMMA ResolveKeepsPins ==
  ASSUME NEW rs, NEW noDeps, NEW extra, NEW n \in Names, pins[n] # Absent
  PROVE  Resolve(rs, pins, noDeps, extra).after[n] \in {venv[n], pins[n]}
<1>. DEFINE touched == IF noDeps THEN ReqNames(rs) ELSE Reach(rs)
            Choice(m) == {w \in Offers(m, extra) : Fits(rs, touched, pins, noDeps, m, w)}
            found == {m \in touched :
                        /\ venv[m] = Absent \/ ~Fits(rs, touched, pins, noDeps, m, venv[m])
                        /\ Choice(m) # {}}
<1>1. Resolve(rs, pins, noDeps, extra).after[n]
        = IF n \in found THEN Newest(Choice(n)) ELSE venv[n]
  BY DEF Resolve
<1>2. \A w \in Choice(n) : w = pins[n]
  BY DEF Fits
<1>3. CASE n \in found
  <2>1. PICK w \in Choice(n) : TRUE  BY <1>3
  <2>2. \A v \in Choice(n) : Newer(w, v)  BY <1>2 DEF Newer
  <2>3. Newest(Choice(n)) \in Choice(n)  BY <2>1, <2>2 DEF Newest
  <2>. QED  BY <1>1, <1>2, <1>3, <2>3
<1>. QED  BY <1>1, <1>3

LEMMA PipKeepsPins ==
  ASSUME NEW rs, NEW noDeps, NEW extra, NEW label, NEW rest, NEW n \in Names,
         pins[n] # Absent, Pip(rs, pins, noDeps, extra, label, rest)
  PROVE  venv'[n] \in {venv[n], pins[n], Absent}
<1>. DEFINE after == Resolve(rs, pins, noDeps, extra).after
<1>1. after[n] \in {venv[n], pins[n]}
  BY ResolveKeepsPins
<1>2. CASE venv' = after
  BY <1>1, <1>2
<1>3. CASE UNCHANGED venv
  BY <1>3
<1>4. CASE venv' \in Partial(after)
  BY <1>1, <1>4 DEF Partial
<1>. QED
  BY <1>2, <1>3, <1>4 DEF Pip

\* What a pip call does not reach it leaves, unless it is cut short.
LEMMA PipLeavesOthers ==
  ASSUME NEW rs, NEW pinned, NEW noDeps, NEW extra, NEW label, NEW rest, NEW n \in Names,
         n \notin (IF noDeps THEN ReqNames(rs) ELSE Reach(rs)),
         Pip(rs, pinned, noDeps, extra, label, rest)
  PROVE  venv'[n] \in {venv[n], Absent}
<1>. DEFINE after == Resolve(rs, pinned, noDeps, extra).after
<1>1. after[n] = venv[n]
  BY DEF Resolve
<1>2. CASE venv' = after
  BY <1>1, <1>2
<1>3. CASE UNCHANGED venv
  BY <1>3
<1>4. CASE venv' \in Partial(after)
  BY <1>1, <1>4 DEF Partial
<1>. QED
  BY <1>2, <1>3, <1>4 DEF Pip

LEMMA ReachGrows ==
  ASSUME NEW rs, NEW more, rs \subseteq more
  PROVE  Reach(rs) \subseteq Reach(more)
  BY DEF Reach, ReqNames

\* A pinned package is moved to another build by what PinsHold names, or not at all.
Held(n) == venv'[n] \in {venv[n], pins[n], Absent} \/ pc = "torch" \/ Unconstrained(n)

LEMMA StepHoldsPins ==
  ASSUME Step, NEW n \in TorchEcosystem, pins[n] # Absent
  PROVE  Held(n)
<1>n. n \in Names
  BY RequirementNames DEF TorchEcosystem
<1>1. CASE UNCHANGED venv
  BY <1>1 DEF Held
<1>2. CASE EnsureHost /\ venv' # venv
  <2>1. CASE n \in Closure[Host]
    BY <1>2, <2>1 DEF EnsureHost, Held, Unconstrained
  <2>2. CASE n \notin Closure[Host]
    <3>1. n \notin Reach({AnyVersion(Host)})
      BY <2>2 DEF Reach, ReqNames, AnyVersion
    <3>2. Pip({AnyVersion(Host)}, NoPins, FALSE, FALSE, "look", call)
      BY <1>2 DEF EnsureHost
    <3>3. venv'[n] \in {venv[n], Absent}
      BY <1>n, <3>1, <3>2, PipLeavesOthers
    <3>. QED  BY <3>3 DEF Held
  <2>. QED  BY <2>1, <2>2
<1>3. CASE TorchBatch
  BY <1>3 DEF TorchBatch, Held
<1>4. CASE PypiBatch
  BY <1>1, <1>4, <1>n, PipKeepsPins DEF PypiBatch, Held
<1>5. CASE Prereqs /\ venv' # venv
  <2>1. PICK r \in call.isolated : \E rest :
          Pip({q \in PypiPrereqs(Requires[r.name]) : NeedsPipInstall(venv, q, call.force)},
              NoPins, FALSE, FALSE, "nodeps", rest)
    BY <1>5 DEF Prereqs
  <2>. DEFINE needed == {q \in PypiPrereqs(Requires[r.name]) :
                           NeedsPipInstall(venv, q, call.force)}
  <2>2. CASE n \in Reach(PypiPrereqs(Requires[r.name]))
    BY <1>5, <2>2 DEF Prereqs, Held, Unconstrained
  <2>3. CASE n \notin Reach(PypiPrereqs(Requires[r.name]))
    <3>1. needed \subseteq PypiPrereqs(Requires[r.name])
      OBVIOUS
    <3>2. n \notin Reach(needed)
      BY <2>3, <3>1, ReachGrows
    <3>3. venv'[n] \in {venv[n], Absent}
      BY <1>n, <2>1, <3>2, PipLeavesOthers
    <3>. QED  BY <3>3 DEF Held
  <2>. QED  BY <2>2, <2>3
<1>6. CASE Isolated /\ venv' # venv
  <2>1. CASE n = call.now.name
    BY <1>6, <2>1 DEF Isolated, Held, Unconstrained
  <2>2. CASE n # call.now.name
    <3>1. n \notin ReqNames({call.now})
      BY <2>2 DEF ReqNames
    <3>2. PICK rest : Pip({call.now}, NoPins, TRUE, FALSE, "isolated", rest)
      BY <1>6 DEF Isolated
    <3>3. venv'[n] \in {venv[n], Absent}
      BY <1>n, <3>1, <3>2, PipLeavesOthers
    <3>. QED  BY <3>3 DEF Held
  <2>. QED  BY <2>1, <2>2
<1>7. CASE Editable
  BY <1>7, <1>n, PipKeepsPins DEF Editable, Held
<1>8. CASE Retry
  BY <1>1, <1>8, <1>n, PipKeepsPins DEF Retry, Held
<1>. QED
  BY <1>1, <1>2, <1>3, <1>4, <1>5, <1>6, <1>7, <1>8 DEF Step, Look, Collect, Pin, Source,
     Clone, Fetch, Checkout, SecondLook, FinalLook

\* Whatever the wheels on offer and their requirements: no pip call that is handed
\* the constraints brings a pinned torch package to another build, and the others
\* bring only what they require (deps.py:123).
THEOREM PinsHoldAlways == Spec => PinsHold
<1>1. ASSUME [Next]_deps, NEW n \in TorchEcosystem, pins[n] # Absent
      PROVE  Held(n)
  <2>1. CASE UNCHANGED venv
    BY <2>1 DEF Held
  <2>2. CASE Step
    BY <1>1, <2>2, StepHoldsPins
  <2>. QED
    BY <1>1, <2>1, <2>2 DEF Next, deps, Begin, Interrupt, Publish
<1>2. [Next]_deps
        => [\A n \in TorchEcosystem :
               pins[n] # Absent /\ venv'[n] \notin {venv[n], pins[n], Absent}
                   => pc = "torch" \/ Unconstrained(n)]_deps
  BY <1>1 DEF Held
<1>. QED
  BY <1>2, PTL DEF Spec, PinsHold

-----------------------------------------------------------------------------
(* InferEntry *)

ProcType == [cap: Caps, mode: {"engine", "script"}, asked: BOOLEAN, install: BOOLEAN,
             then: EntryStages \cup {"none"}, retried: BOOLEAN, http: BOOLEAN]

\* A process that may not install never calls DepsInstall, and one that may has a
\* complete venv from the second look on, until the HTTP stack is reinstalled.
EInv ==
    /\ IInv
    /\ proc \in ProcType
    /\ stage # "deps" => pc = "idle"
    /\ stage = "http again" => proc.http
    /\ stage \in {"deps", "python", "python again"} => proc.install
    /\ stage = "deps" => proc.then \in {"python again", "weights", "create"}
    /\ proc.asked /\ proc.mode = "engine" => ~proc.install
    /\ stage \in Activated /\ proc.install /\ ~proc.http => Missing = {}

LEMMA InitEInv == EntryInit => EInv
  BY InitIInv DEF EntryInit, EInv, ProcType, NoProc, Caps, Activated, EntryStages, Init

\* The end of the process, with the venv as it is and no call running.
LEMMA ExitEInv ==
  ASSUME IInv', pc' = "idle", Exit
  PROVE  EInv'
  BY DEF Exit, EInv, ProcType, NoProc, Caps, Activated, EntryStages

LEMMA DepsUnchanged ==
  ASSUME IInv, UNCHANGED deps
  PROVE  IInv' /\ pc' = pc /\ Missing' = Missing /\ ready' = ready
<1>1. Missing' = Missing
  BY MissingStays DEF deps
<1>. QED
  BY <1>1 DEF deps, IInv

LEMMA StopEInv ==
  ASSUME EInv, Stop, stage # "deps" \/ pc = "idle"
  PROVE  EInv'
<1>1. IInv' /\ pc' = "idle"
  BY DepsUnchanged DEF Stop, EInv
<1>. QED
  BY <1>1, ExitEInv DEF Stop

\* A step that goes on to s, when s asks for nothing the process has not.
LEMMA GoOnEInv ==
  ASSUME EInv, NEW s, GoOn(s), stage # "deps" \/ pc = "idle",
         s # "deps", s = "http again" => proc.http,
         s \in {"python", "python again"} => proc.install,
         s \in Activated /\ proc.install /\ ~proc.http => Missing = {}
  PROVE  EInv'
<1>1. IInv' /\ pc' = pc /\ Missing' = Missing
  BY DepsUnchanged DEF GoOn, EInv
<1>2. stage' = s /\ proc' = proc
  BY DEF GoOn, To
<1>. QED
  BY <1>1, <1>2 DEF EInv

LEMMA CallDepsEInv ==
  ASSUME EInv, NEW force \in BOOLEAN, NEW next \in {"python again", "weights", "create"},
         NEW rest \in ProcType, CallDeps(force, next, rest),
         rest.install, rest.asked /\ rest.mode = "engine" => ~rest.install
  PROVE  EInv'
<1>1. IInv'
  BY DEF CallDeps, Begin, IInv
<1>2. stage' = "deps" /\ proc' = [rest EXCEPT !.then = next]
  BY DEF CallDeps
<1>3. /\ proc' \in ProcType /\ proc'.then = next
      /\ proc'.install = rest.install /\ proc'.asked = rest.asked /\ proc'.mode = rest.mode
  BY <1>2 DEF ProcType, EntryStages
<1>. QED
  BY <1>1, <1>2, <1>3 DEF EInv, Activated

LEMMA PipThenEInv ==
  ASSUME EInv, NEW rs, NEW s \in {"userland again", "http again"}, NEW rest \in ProcType,
         PipThen(rs, s, rest), stage # "deps", s = "http again" => rest.http,
         rest.asked /\ rest.mode = "engine" => ~rest.install
  PROVE  EInv'
<1>1. IInv' /\ pc' = "idle"
  BY DEF PipThen, IInv, EInv
<1>2. CASE Exit
  BY <1>1, <1>2, ExitEInv
<1>3. CASE stage' = s /\ proc' = rest
  BY <1>1, <1>3 DEF EInv, Activated
<1>. QED
  BY <1>2, <1>3 DEF PipThen

LEMMA EntryStepEInv ==
  ASSUME EInv, EntryStep
  PROVE  EInv'
<1>1. CASE Activate
  BY <1>1, StopEInv, GoOnEInv DEF Activate, At, Activated
<1>2. CASE CudaUserland
  <2>1. CASE GoOn("natives")  BY <1>2, <2>1, GoOnEInv DEF CudaUserland, At, Activated
  <2>2. CASE Stop  BY <1>2, <2>2, StopEInv DEF CudaUserland, At
  <2>3. CASE PipThen(Userland, "userland again", proc)
    BY <1>2, <2>3, PipThenEInv DEF CudaUserland, At, EInv
  <2>. QED  BY <1>2, <2>1, <2>2, <2>3 DEF CudaUserland
<1>3. CASE CudaUserlandAgain
  BY <1>3, StopEInv, GoOnEInv DEF CudaUserlandAgain, At, Activated
<1>4. CASE VerifyNatives
  BY <1>4, StopEInv, GoOnEInv DEF VerifyNatives, At, Activated
<1>5. CASE EnsurePython
  <2>1. proc \in ProcType /\ proc.install /\ stage # "deps"
    BY <1>5 DEF EnsurePython, At, EInv
  <2>2. CASE GoOn("python again")  BY <2>1, <2>2, GoOnEInv DEF Activated
  <2>3. CASE CallDeps(FALSE, "python again", proc)
    BY <2>1, <2>3, CallDepsEInv DEF EInv
  <2>. QED  BY <1>5, <2>2, <2>3 DEF EnsurePython
<1>6. CASE PythonAgain
  <2>1. proc \in ProcType /\ proc.install /\ stage # "deps"
    BY <1>6 DEF PythonAgain, At, EInv
  <2>2. CASE Missing = {} /\ GoOn("weights")  BY <2>1, <2>2, GoOnEInv
  <2>3. CASE CallDeps(TRUE, "weights", proc)
    BY <2>1, <2>3, CallDepsEInv DEF EInv
  <2>. QED  BY <1>6, <2>2, <2>3 DEF PythonAgain
<1>7. CASE DepsDone
  <2>1. stage = "deps" /\ pc = "idle" /\ proc.install
           /\ proc.then \in {"python again", "weights", "create"}
    BY <1>7 DEF DepsDone, At, EInv
  <2>2. CASE ready /\ GoOn(proc.then)
    <3>1. Missing = {}  BY <2>2 DEF EInv, IInv
    <3>. QED  BY <2>1, <2>2, <3>1, GoOnEInv
  <2>3. CASE Stop  BY <2>1, <2>3, StopEInv
  <2>. QED  BY <1>7, <2>2, <2>3 DEF DepsDone
<1>8. CASE Weights
  <2>1. stage = "weights"  BY <1>8 DEF Weights, At
  <2>2. CASE GoOn("env")
    BY <2>1, <2>2, GoOnEInv DEF EInv, Activated
  <2>. QED  BY <1>8, <2>1, <2>2, StopEInv DEF Weights
<1>9. CASE InjectEnv
  <2>1. stage = "env"  BY <1>9 DEF InjectEnv, At
  <2>2. CASE Stop  BY <2>1, <2>2, StopEInv
  <2>3. CASE UNCHANGED deps /\ proc' = proc /\ stage' \in {"script", "http", "create"}
    BY <2>1, <2>3, DepsUnchanged DEF EInv, Activated
  <2>. QED  BY <1>9, <2>2, <2>3 DEF InjectEnv, To
<1>10. CASE Script
  <2>1. stage = "script"  BY <1>10 DEF Script, At
  <2>2. CASE GoOn("running")
    BY <2>1, <2>2, GoOnEInv DEF EInv, Activated
  <2>. QED  BY <1>10, <2>1, <2>2, StopEInv DEF Script
<1>11. CASE HttpImports
  <2>1. stage = "http"  BY <1>11 DEF HttpImports, At
  <2>2. CASE GoOn("create")
    BY <2>1, <2>2, GoOnEInv DEF EInv, Activated
  <2>3. CASE PipThen({AnyVersion(Host)}, "http again", [proc EXCEPT !.http = TRUE])
    <3>. DEFINE rest == [proc EXCEPT !.http = TRUE]
    <3>1. /\ rest \in ProcType /\ rest.http /\ rest.install = proc.install
          /\ rest.asked = proc.asked /\ rest.mode = proc.mode
      BY DEF EInv, ProcType
    <3>. QED  BY <2>1, <2>3, <3>1, PipThenEInv DEF EInv
  <2>. QED  BY <1>11, <2>1, <2>2, <2>3, StopEInv DEF HttpImports
<1>12. CASE HttpImportsAgain
  <2>1. stage = "http again" /\ proc.http  BY <1>12 DEF HttpImportsAgain, At, EInv
  <2>2. CASE GoOn("create")
    BY <2>1, <2>2, GoOnEInv DEF EInv
  <2>. QED  BY <1>12, <2>1, <2>2, StopEInv DEF HttpImportsAgain
<1>13. CASE Create
  <2>1. stage = "create"  BY <1>13 DEF Create, At
  <2>2. CASE GoOn("load")
    BY <2>1, <2>2, GoOnEInv DEF EInv, Activated
  <2>3. CASE proc.install /\ CallDeps(TRUE, "create", [proc EXCEPT !.retried = TRUE])
    <3>. DEFINE rest == [proc EXCEPT !.retried = TRUE]
    <3>1. /\ rest \in ProcType /\ rest.install = proc.install
          /\ rest.asked = proc.asked /\ rest.mode = proc.mode
      BY DEF EInv, ProcType
    <3>. QED  BY <2>3, <3>1, CallDepsEInv DEF EInv
  <2>. QED  BY <1>13, <2>1, <2>2, <2>3, StopEInv DEF Create
<1>14. CASE Load
  <2>1. stage = "load"  BY <1>14 DEF Load, At
  <2>2. CASE GoOn(IF proc.cap = "serve" THEN "serving" ELSE "running")
    BY <2>1, <2>2, GoOnEInv DEF EInv, Activated
  <2>. QED  BY <1>14, <2>1, <2>2, StopEInv DEF Load
<1>15. CASE DepsStep
  <2>1. IInv'  BY <1>15, StepIInv DEF DepsStep, EInv
  <2>. QED  BY <1>15, <2>1 DEF DepsStep, entry, At, EInv, Activated
<1>. QED
  BY <1>1, <1>2, <1>3, <1>4, <1>5, <1>6, <1>7, <1>8, <1>9, <1>10, <1>11, <1>12, <1>13,
     <1>14, <1>15 DEF EntryStep

LEMMA NextEInv == EInv /\ [EntryNext]_vars => EInv'
<1>. SUFFICES ASSUME EInv, [EntryNext]_vars PROVE EInv'
  OBVIOUS
<1>1. CASE Start
  <2>1. IInv' /\ pc' = "idle"  BY <1>1, DepsUnchanged DEF Start, EInv
  <2>2. stage' = "activate" /\ proc' \in ProcType
           /\ (proc'.asked /\ proc'.mode = "engine" => ~proc'.install)
    <3>1. PICK cap \in Caps, asked \in BOOLEAN :
             proc' = [NoProc EXCEPT !.cap = cap, !.mode = Modes[cap], !.asked = asked,
                          !.install = AutoInstall(asked /\ Modes[cap] = "engine")]
      BY <1>1 DEF Start
    <3>2. AutoInstall(asked /\ Modes[cap] = "engine") \in BOOLEAN
      BY DEF AutoInstall
    <3>3. Modes[cap] \in {"engine", "script"}
      BY EntryAssumption
    <3>4. asked /\ Modes[cap] = "engine" => ~AutoInstall(asked /\ Modes[cap] = "engine")
      BY DEF AutoInstall
    <3>5. /\ proc'.cap = cap /\ proc'.mode = Modes[cap] /\ proc'.asked = asked
          /\ proc'.install = AutoInstall(asked /\ Modes[cap] = "engine")
          /\ proc' \in ProcType
      BY <3>1, <3>2, <3>3 DEF NoProc, ProcType, EntryStages
    <3>. QED  BY <1>1, <3>4, <3>5 DEF Start
  <2>. QED  BY <2>1, <2>2 DEF EInv, Activated
<1>2. CASE EntryStep
  BY <1>2, EntryStepEInv
<1>3. CASE End
  BY <1>3, StopEInv DEF End
<1>4. CASE DepsKilled
  <2>1. IInv' /\ pc' = "idle"
    BY <1>4 DEF DepsKilled, Interrupt, Fault, EInv, IInv
  <2>. QED  BY <1>4, <2>1, ExitEInv DEF DepsKilled
<1>5. CASE Sync
  <2>1. IInv'  BY <1>5 DEF Sync, Publish, IInv
  <2>. QED  BY <1>5, <2>1 DEF Sync, Publish, At, entry, EInv, Activated
<1>6. CASE UNCHANGED vars
  BY <1>6, DepsUnchanged DEF vars, entry, EInv
<1>. QED
  BY <1>1, <1>2, <1>3, <1>4, <1>5, <1>6 DEF EntryNext

\* Whatever the manifest, the wheels, the failures and the interruptions before it: an
\* entry that may install starts on a complete venv (activate_core.py:81).
THEOREM EntryRunsReadyHolds == EntrySpec => []EntryRunsReady
<1>1. EInv => EntryRunsReady
  BY DEF EInv, EntryRunsReady
<1>. QED
  BY InitEInv, NextEInv, <1>1, PTL DEF EntrySpec

-----------------------------------------------------------------------------
(* --no-auto-install in engine mode.                                       *)

\* A pip that is cut short leaves alone what it was not to change.
LEMMA PartialSpares ==
  ASSUME NEW after, NEW v \in Partial(after), NEW n \in Names, after[n] = venv[n]
  PROVE  v[n] = venv[n]
<1>. DEFINE changed == {m \in Names : after[m] # venv[m]}
            Left(kept, gone) == [m \in Names |-> IF m \in kept THEN venv[m]
                                    ELSE IF m \in gone THEN Absent ELSE after[m]]
<1>1. v \in {Left(kept, gone) : kept \in SUBSET changed, gone \in SUBSET changed}
  BY DEF Partial
<1>. HIDE DEF changed, Left
<1>2. PICK kept \in SUBSET changed, gone \in SUBSET changed : v = Left(kept, gone)
  BY <1>1
<1>3. n \notin changed
  BY DEF changed
<1>. QED
  BY <1>2, <1>3 DEF Left

\* pip changes nothing outside what its request reaches, even cut short.
LEMMA PipThenReaches ==
  ASSUME NEW rs, NEW s, NEW rest, PipThen(rs, s, rest), NEW n \in Names \ Reach(rs)
  PROVE  venv'[n] = venv[n]
<1>. DEFINE after == Resolve(rs, NoPins, FALSE, FALSE).after
<1>1. after[n] = venv[n]
  BY DEF Resolve
<1>2. venv' = after \/ UNCHANGED venv \/ venv' \in Partial(after)
  BY DEF PipThen
<1>. QED
  BY <1>1, <1>2, PartialSpares

\* Whatever the packages: an engine's run with --no-auto-install installs the CUDA
\* libraries at most (helpers.py:14).
THEOREM EngineRespectsNoInstallHolds == EntrySpec => EngineRespectsNoInstall
<1>1. ASSUME EInv, [EntryNext]_vars, proc.asked, proc.mode = "engine",
             NEW n \in Names \ Reach(Userland)
      PROVE  venv'[n] = venv[n]
  <2>1. ~proc.install /\ stage \notin {"deps", "python", "python again"}
    BY <1>1 DEF EInv
  <2>2. CASE CudaUserland
    <3>1. CASE PipThen(Userland, "userland again", proc)
      BY <1>1, <3>1, PipThenReaches
    <3>. QED  BY <2>2, <3>1 DEF CudaUserland, GoOn, Stop, deps
  <2>4. CASE EntryStep /\ ~CudaUserland
    <3>1. UNCHANGED venv
      BY <2>1, <2>4
         DEF EntryStep, At, GoOn, Stop, deps, Activate, CudaUserlandAgain, VerifyNatives,
             EnsurePython, PythonAgain, DepsDone, Weights, InjectEnv, Script, HttpImports,
             HttpImportsAgain, Create, Load, DepsStep
    <3>. QED  BY <3>1
  <2>5. CASE Start \/ End \/ DepsKilled \/ Sync \/ UNCHANGED vars
    <3>1. UNCHANGED venv
      BY <2>1, <2>5 DEF Start, End, DepsKilled, Sync, Publish, Stop, At, deps, vars
    <3>. QED  BY <3>1
  <2>6. \/ Start \/ End \/ DepsKilled \/ Sync \/ UNCHANGED vars
        \/ EntryStep
    BY <1>1 DEF EntryNext
  <2>. QED
    BY <2>2, <2>4, <2>5, <2>6
<1>2. EInv /\ [EntryNext]_vars
        => [proc.asked /\ proc.mode = "engine"
              => \A n \in Names \ Reach(Userland) : venv'[n] = venv[n]]_vars
  BY <1>1
<1>. QED
  BY InitEInv, NextEInv, <1>2, PTL DEF EntrySpec, EngineRespectsNoInstall

-----------------------------------------------------------------------------
(* The environment of an entry.                                            *)

Injected == {"script", "http", "http again", "create", "load", "running", "serving"}

OwnEnv(mode) ==
    /\ \A k \in ScriptKeys \cup Extras \cup {"hub offline"} : environ[k] # "foreign"
    /\ mode = "engine" => \A k \in ScriptKeys \cup Extras : environ[k] = "unset"
    /\ mode = "script" => \A k \in Usable \cup {"checkpoint"} : environ[k] = "own"

\* A repair is part of what comes after the injection when the process goes back to
\* creating its engine.
AfterInjection == stage \in Injected \/ (stage = "deps" /\ proc.then = "create")

\* The host's offline switches are the process's own from its start, the rest from
\* the injection on.
VInv ==
    /\ EInv
    /\ stage # "idle" => environ["hub offline"] # "foreign"
    /\ AfterInjection => OwnEnv(proc.mode)

\* A step that leaves the environment and does not jump over the injection
LEMMA KeepVInv ==
  ASSUME VInv, EInv', environ' = environ, proc'.mode = proc.mode, stage # "idle",
         AfterInjection' => AfterInjection
  PROVE  VInv'
  BY DEF VInv, OwnEnv

LEMMA ExitVInv ==
  ASSUME EInv', Exit
  PROVE  VInv'
  BY DEF Exit, VInv, AfterInjection, Injected

\* inject_entry_env sets and clears every name that it is about.
LEMMA InjectVInv ==
  ASSUME VInv, EInv', InjectEnv
  PROVE  VInv'
<1>1. stage = "env" /\ environ["hub offline"] # "foreign" /\ proc.mode \in {"engine", "script"}
  BY DEF InjectEnv, At, VInv, EInv, ProcType
<1>2. CASE Stop
  BY <1>2, ExitVInv DEF Stop
<1>3. ASSUME NEW given \in BOOLEAN, proc' = proc,
             environ' = IF proc.mode = "script" THEN ScriptEnv(given) ELSE EngineEnv(given)
      PROVE  OwnEnv(proc.mode)' /\ environ'["hub offline"] # "foreign"
  <2>1. /\ ScriptKeys \cup Extras \cup {"hub offline"} \subseteq Keys /\ Usable \subseteq Extras
        /\ "hub offline" \notin ScriptKeys /\ "mtp" \notin ScriptKeys \cup Extras
        /\ ManifestEnv \cap (ScriptKeys \cup Extras) = {}
    BY EntryAssumption DEF Keys, ScriptKeys
  <2>2. CASE proc.mode = "script"
    <3>1. environ' = ScriptEnv(given)
      BY <1>3, <2>2
    <3>2. \A k \in ScriptKeys \cup Extras \cup {"hub offline"} : environ'[k] # "foreign"
      BY <1>1, <2>1, <3>1 DEF ScriptEnv
    <3>3. \A k \in Usable \cup {"checkpoint"} : environ'[k] = "own"
      BY <2>1, <3>1 DEF ScriptEnv, ScriptKeys
    <3>. QED  BY <1>3, <2>2, <3>2, <3>3 DEF OwnEnv
  <2>3. CASE proc.mode = "engine"
    <3>1. environ' = EngineEnv(given)
      BY <1>3, <2>3
    <3>2. \A k \in ScriptKeys \cup Extras : environ'[k] = "unset"
      BY <2>1, <3>1 DEF EngineEnv
    <3>3. environ'["hub offline"] # "foreign"
      BY <1>1, <2>1, <3>1 DEF EngineEnv
    <3>. QED  BY <1>3, <2>3, <3>2, <3>3 DEF OwnEnv
  <2>. QED
    BY <1>1, <2>2, <2>3
<1>. QED
  BY <1>2, <1>3 DEF InjectEnv, To, VInv

\* What can come before a stage of Injected: the injection, or another one of them.
LEMMA EntryStepVInv ==
  ASSUME VInv, EInv', EntryStep
  PROVE  VInv'
<1>1. CASE Exit
  BY <1>1, ExitVInv
<1>2. CASE InjectEnv
  BY <1>2, InjectVInv
<1>3. CASE ~Exit /\ (Activate \/ CudaUserland \/ CudaUserlandAgain \/ VerifyNatives
                       \/ EnsurePython \/ PythonAgain \/ Weights)
  <2>1. environ' = environ /\ stage # "idle" /\ proc'.mode = proc.mode
    BY <1>3 DEF Activate, CudaUserland, CudaUserlandAgain, VerifyNatives, EnsurePython,
                PythonAgain, Weights, GoOn, To, Stop, At, PipThen, CallDeps, VInv, EInv, ProcType
  <2>2. ~AfterInjection'
    BY <1>3 DEF Activate, CudaUserland, CudaUserlandAgain, VerifyNatives, EnsurePython,
                PythonAgain, Weights, GoOn, To, Stop, At, PipThen, CallDeps, AfterInjection,
                Injected, VInv, EInv, ProcType
  <2>. QED  BY <2>1, <2>2, KeepVInv
<1>4. CASE ~Exit /\ (Script \/ HttpImports \/ HttpImportsAgain \/ Create \/ Load)
  <2>1. environ' = environ /\ stage # "idle" /\ proc'.mode = proc.mode
    BY <1>4 DEF Script, HttpImports, HttpImportsAgain, Create, Load, GoOn, To, Stop, At,
                PipThen, CallDeps, VInv, EInv, ProcType
  <2>2. AfterInjection
    BY <1>4 DEF Script, HttpImports, HttpImportsAgain, Create, Load, At, AfterInjection, Injected
  <2>. QED  BY <2>1, <2>2, KeepVInv
<1>5. CASE ~Exit /\ DepsDone
  BY <1>5, KeepVInv DEF DepsDone, GoOn, To, Stop, At, AfterInjection, Injected, VInv, EInv
<1>6. CASE DepsStep
  BY <1>6, KeepVInv DEF DepsStep, entry, At, AfterInjection
<1>. QED
  BY <1>1, <1>2, <1>3, <1>4, <1>5, <1>6 DEF EntryStep

\* Whatever the user's environment held, and however often a repair sends the
\* process back: an entry reads what this run has set (entry_env.py:43).
THEOREM EntryEnvIsOwnHolds == EntrySpec => []EntryEnvIsOwn
<1>1. EntryInit => VInv
  BY InitEInv DEF EntryInit, VInv, AfterInjection, Injected
<1>2. VInv /\ [EntryNext]_vars => VInv'
  <2>. SUFFICES ASSUME VInv, [EntryNext]_vars PROVE VInv'
    OBVIOUS
  <2>1. EInv'
    BY NextEInv DEF VInv
  <2>2. CASE Start
    <3>1. environ'["hub offline"] = "own"
      BY <2>2 DEF Start, Keys
    <3>. QED  BY <2>1, <2>2, <3>1 DEF Start, VInv, AfterInjection, Injected
  <2>3. CASE EntryStep
    BY <2>1, <2>3, EntryStepVInv
  <2>4. CASE End \/ DepsKilled
    BY <2>1, <2>4, ExitVInv DEF End, DepsKilled, Stop
  <2>5. CASE Sync \/ UNCHANGED vars
    BY <2>1, <2>5 DEF Sync, vars, entry, VInv, AfterInjection, OwnEnv
  <2>. QED
    BY <2>2, <2>3, <2>4, <2>5 DEF EntryNext
<1>3. VInv => EntryEnvIsOwn
  BY DEF VInv, AfterInjection, Injected, OwnEnv, EntryEnvIsOwn
<1>. QED
  BY <1>1, <1>2, <1>3, PTL DEF EntrySpec

-----------------------------------------------------------------------------
(* Pins in the whole process. *)

LEMMA PartialLeaves ==
  ASSUME NEW after, NEW n \in Names, after[n] = venv[n], venv' \in Partial(after)
  PROVE  venv'[n] \in {venv[n], Absent}
  BY DEF Partial

LEMMA PipThenLeavesOthers ==
  ASSUME NEW rs, NEW s, NEW rest, PipThen(rs, s, rest), NEW n \in Names, n \notin Reach(rs)
  PROVE  venv'[n] \in {venv[n], Absent}
<1>. DEFINE after == Resolve(rs, NoPins, FALSE, FALSE).after
<1>1. after[n] = venv[n]
  BY DEF Resolve
<1>2. CASE venv' = after
  BY <1>1, <1>2
<1>3. CASE UNCHANGED venv
  BY <1>3
<1>4. CASE venv' \in Partial(after)
  BY <1>1, <1>4, PartialLeaves
<1>5. venv' \in {after, venv} \cup Partial(after)
  BY Zenon DEF PipThen
<1>. QED
  BY <1>2, <1>3, <1>4, <1>5

HeldInProcess(n) ==
  \/ Held(n)
  \/ stage = "userland" /\ n \in Reach(Userland)
  \/ stage = "http" /\ n \in Closure[Host]

\* Whatever a process installs and however it ends: a pinned torch package goes to
\* another build only with the torch batch or with what requires it in one of the
\* calls without constraints, the CUDA libraries' and the HTTP stack's among them.
THEOREM PinsHoldInProcessAlways == EntrySpec => PinsHoldInProcess
<1>1. ASSUME [EntryNext]_vars, NEW n \in TorchEcosystem, pins[n] # Absent
      PROVE  HeldInProcess(n)
  <2>n. n \in Names
    BY RequirementNames DEF TorchEcosystem
  <2>1. CASE UNCHANGED venv
    BY <2>1 DEF HeldInProcess, Held
  <2>2. CASE DepsStep
    BY <1>1, <2>2, StepHoldsPins DEF DepsStep, HeldInProcess
  <2>3. CASE CudaUserland /\ venv' # venv
    <3>1. PipThen(Userland, "userland again", proc) /\ stage = "userland"
      BY <2>3 DEF CudaUserland, GoOn, Stop, At, deps
    <3>. QED
      BY <2>n, <3>1, PipThenLeavesOthers DEF HeldInProcess, Held
  <2>4. CASE HttpImports /\ venv' # venv
    <3>1. /\ PipThen({AnyVersion(Host)}, "http again", [proc EXCEPT !.http = TRUE])
          /\ stage = "http"
      BY <2>4 DEF HttpImports, GoOn, Stop, At, deps
    <3>2. CASE n \in Closure[Host]
      BY <3>1, <3>2 DEF HeldInProcess
    <3>3. CASE n \notin Closure[Host]
      <4>1. n \notin Reach({AnyVersion(Host)})
        BY <3>3 DEF Reach, ReqNames, AnyVersion
      <4>. QED
        BY <2>n, <3>1, <4>1, PipThenLeavesOthers DEF HeldInProcess, Held
    <3>. QED  BY <3>2, <3>3
  <2>5. CASE Start \/ End \/ DepsKilled \/ Sync
    BY <2>1, <2>5 DEF Start, End, Stop, DepsKilled, Interrupt, Sync, Publish, deps
  <2>6. CASE \/ Activate \/ CudaUserlandAgain \/ VerifyNatives \/ EnsurePython
             \/ PythonAgain \/ DepsDone \/ Weights \/ InjectEnv \/ Script
             \/ HttpImportsAgain \/ Create \/ Load
    BY <2>1, <2>6 DEF Activate, CudaUserlandAgain, VerifyNatives, EnsurePython, PythonAgain,
       DepsDone, Weights, InjectEnv, Script, HttpImportsAgain, Create, Load, GoOn, Stop,
       CallDeps, Begin, deps
  <2>. QED
    BY <1>1, <2>1, <2>2, <2>3, <2>4, <2>5, <2>6 DEF EntryNext, EntryStep, vars, deps
<1>2. [EntryNext]_vars
        => [\A n \in TorchEcosystem :
               pins[n] # Absent /\ venv'[n] \notin {venv[n], pins[n], Absent}
                   => \/ pc = "torch" \/ Unconstrained(n)
                      \/ stage = "userland" /\ n \in Reach(Userland)
                      \/ stage = "http" /\ n \in Closure[Host]]_vars
  BY <1>1 DEF HeldInProcess, Held
<1>. QED
  BY <1>2, PTL DEF EntrySpec, PinsHoldInProcess
=============================================================================
