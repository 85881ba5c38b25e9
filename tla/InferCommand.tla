---------------------------- MODULE InferCommand ----------------------------
(***************************************************************************)
(* One `flashcli run` or `flashcli serve` of a Python bundle, from the     *)
(* user's arguments to the entry: the host reads the bundle's document,    *)
(* takes its own flags from the arguments and hands all of them on         *)
(* (runserve.go); in the bundle venv infer/cli.py reads the document again *)
(* to parse them, activate_for_preset reads it to activate the bundle, and *)
(* create_run_engine reads it once more for the engine, by another way to  *)
(* the tree.  Another command may publish, sync or clean between two of    *)
(* these readings.                                                         *)
(***************************************************************************)
EXTENDS BundleManifest, RefTarget

CONSTANTS
    Inputs,       \* a ref, the arguments after it, the disk and FlashHub
    Upstream,     \* what FlashHub, or a developer's directory, may hold meanwhile
    Namespaces,   \* whose bundles have this name and version
    Other,        \* the index of another namespace's
    Variants,     \* what may follow the ref's @
    EnvKey,       \* the environment the host resolves to on this machine
    MaxChanges    \* bound: changes of disk and FlashHub during a command

\* What a disk holds (RefTarget).
IsDisk(d) ==
    d = [here |-> d.here, tree |-> d.tree, root |-> d.root, index |-> d.index, file |-> d.file]

ASSUME InputsFit == \A i \in Inputs : IsDisk(i.disk) /\ i.tail \in Seq(STRING)

\* The host passes on a key that is not empty (runserve.go:210); a document of
\* version 3 looks none up.
ASSUME EnvKeyIsSet == EnvKey # ""

\* The flags that take a value: as a token of its own, after a "=", or after an
\* abbreviation that argparse takes for the flag.
ValueFlags == {"--checkpoint", "--mtp-checkpoint"}
Assigned == [f \in ValueFlags |->
    IF f = "--checkpoint" THEN "--checkpoint=B" ELSE "--mtp-checkpoint=B"]
Abbreviation == [f \in ValueFlags |-> IF f = "--checkpoint" THEN "--check" ELSE "--mtp"]

Switches == {"--no-auto-install", "--quiet", "-q"}
Flags == ValueFlags \cup Range(Assigned) \cup Switches

VARIABLES
    disk,     \* see RefTarget
    hub,      \* FlashHub's index of the ref's repository
    stage,    \* where the command is
    cmd,      \* capability, ref, arguments after the ref
    host,     \* what the host read and decided, and the values of its flags
    inv,      \* RunInvocation or ServeInvocation: what the first reading gave
    active,   \* the document the bundle was activated with
    ran,      \* what was started, and with what
    changes   \* changes of the disk or of FlashHub since the command began

vars == <<disk, hub, stage, cmd, host, inv, active, ran, changes>>
data == <<disk, hub, changes>>

NoDisk == [here |-> NoTree, tree |-> NoTree, root |-> "tree", index |-> NoIndex, file |-> NoTree]
NoRef == [form |-> "path", namespace |-> None, at |-> ""]
NoCmd == [cap |-> "run", ref |-> NoRef, tail |-> <<>>]
NoValue == [f \in ValueFlags |-> None]
NoHost == [doc |-> NoTree, entry |-> NoEntry, given |-> NoValue]
NoInv == [doc |-> NoTree, target |-> None, mode |-> "engine", options |-> NoOptions,
          values |-> NoOptions, argv |-> <<>>, given |-> NoValue]
NoRun == [entry |-> NoEntry, load |-> NoOptions, rest |-> NoOptions, why |-> None]

\* Between two commands nothing is looked at.
Init ==
    /\ disk = NoDisk /\ hub = NoIndex /\ stage = "idle" /\ cmd = NoCmd /\ host = NoHost
    /\ inv = NoInv /\ active = NoTree /\ ran = NoRun /\ changes = 0

-----------------------------------------------------------------------------
(* The arguments.  A token "a" stands for "--a=value", "A" for a word.      *)

Word(t) == t = "A"

\* peelHostFlags, at token i: a flag takes whatever follows it as its value.
GoToken(was, tail, i) ==
    LET t == tail[i]
        mine == was.own \cup {i}
    IN  CASE was.expects \in ValueFlags ->
               [given |-> [was.given EXCEPT ![was.expects] = t], expects |-> None, own |-> mine]
          [] was.expects \notin ValueFlags /\ t \in ValueFlags ->
               [was EXCEPT !.expects = IF i < Len(tail) THEN t ELSE None, !.own = mine]
          [] was.expects \notin ValueFlags /\ t \in Range(Assigned) ->
               [was EXCEPT !.given = [f \in ValueFlags |-> IF Assigned[f] = t THEN "B" ELSE was.given[f]],
                           !.own = mine]
          [] was.expects \notin ValueFlags /\ t \in Switches -> [was EXCEPT !.own = mine]
          [] was.expects \notin ValueFlags /\ t \notin Flags -> was

\* peelHostFlags: the last value counts.  scan[i] is what is known after i
\* tokens, and the flag whose value the next is.
Unpeeled == [given |-> NoValue, expects |-> None, own |-> {}]
GoPeel(tail) ==
    LET scan[i \in 0 .. Len(tail)] ==
            IF i = 0 THEN Unpeeled ELSE GoToken(scan[i - 1], tail, i)
    IN  scan[Len(tail)]

\* argparse: a value is a word.
Taken(tail, f) == {i \in 2 .. Len(tail) : tail[i - 1] \in {f, Abbreviation[f]} /\ Word(tail[i])}

\* argparse ends the process when a value is missing.
ValuesGiven(tail) ==
    \A f \in ValueFlags, i \in 1 .. Len(tail) :
        tail[i] \in {f, Abbreviation[f]} => i + 1 \in Taken(tail, f)

\* _peek_checkpoint_from_argv, _peek_mtp_checkpoint_from_argv, or the parser of
\* an engine
ValueOf(tail, f) ==
    LET giving == {i \in 1 .. Len(tail) : tail[i] = Assigned[f] \/ i \in Taken(tail, f)}
        last == CHOOSE i \in giving : \A j \in giving : j <= i
    IN  IF giving = {} THEN None ELSE IF tail[last] = Assigned[f] THEN "B" ELSE tail[last]

Kept(tail, own) ==
    LET keep[i \in 0 .. Len(tail)] ==
            IF i = 0 THEN <<>>
            ELSE IF i \in own THEN keep[i - 1] ELSE Append(keep[i - 1], tail[i])
    IN  keep[Len(tail)]

StrippedFlags == {"--checkpoint", "--checkpoint=B", "--no-auto-install"}

\* (mutant: a flag is stripped without its value)
StripNoValue(tail) == Kept(tail, {i \in 1 .. Len(tail) : tail[i] \in StrippedFlags})

\* _bundle_argv_after_ref, _strip_script_host_flags: the others reach the script.
\* What does not begin with "--" is a value.
StripHostFlags(tail) ==
    Kept(tail, {i \in 1 .. Len(tail) : tail[i] \in StrippedFlags}
               \cup {i \in 2 .. Len(tail) : tail[i - 1] = "--checkpoint" /\ (Word(tail[i]) \/ tail[i] = "-q")})

\* What _build_run_parser and _build_serve_parser have before an option is added.
CapFlags(cap) == IF cap = "run" THEN {"benchmark", "warmup"} ELSE {"port", "host"}
ParserFlags(cap) ==
    {"checkpoint", "mtp-checkpoint", "no-auto-install", "quiet", "help"} \cup CapFlags(cap)

OptionFlags(options) == {options[o].flag : o \in DOMAIN options}

\* add_argument raises for a flag that the parser has.
FlagsFit(cap, options) ==
    /\ OptionFlags(options) \cap ParserFlags(cap) = {}
    /\ \A o, p \in DOMAIN options : options[o].flag = options[p].flag => o = p

\* parse_args: nothing unknown, and no second positional.
Parses(tail, cap, options) ==
    /\ ValuesGiven(tail)
    /\ \A i \in 1 .. Len(tail) :
          \/ tail[i] \in Flags \cup Range(Abbreviation)
          \/ \E f \in ValueFlags : i \in Taken(tail, f)
          \/ tail[i] \in CapFlags(cap) \cup OptionFlags(options)

\* _collect_bundle_options: given values, and defaults for those not given
Values(tail, options) ==
    [o \in {n \in DOMAIN options : options[n].default \/ options[n].flag \in Range(tail)} |->
        IF options[o].flag \in Range(tail) THEN "given" ELSE "default"]

-----------------------------------------------------------------------------
(* Which option goes where.                                                *)

Phases(cap) == IF cap = "run" THEN {"load", "predict"} ELSE {"load", "warmup"}

\* _parse_option_dict: a phase that is not the capability's is its default.
Phase(cap, option) ==
    IF option.phase \in Phases(cap) THEN option.phase
    ELSE IF cap = "run" THEN "predict" ELSE "load"

\* (mutant: what is not for the warm-up is kept from load, as for predict)
LoadOptionsServe(cap, options) == {o \in DOMAIN options : Phase(cap, options[o]) = "warmup"}

\* split_run_options, split_serve_options
LoadOptions(cap, options) ==
    IF cap = "run" THEN {o \in DOMAIN options : Phase(cap, options[o]) = "load"}
    ELSE {o \in DOMAIN options : Phase(cap, options[o]) # "warmup"}

\* load_kw with the variant in "model"; the values of options nobody declared
\* are dropped.
LoadArgs(cap, values, options, variant) ==
    LET mine == Restrict(values, DOMAIN values \cap LoadOptions(cap, options))
    IN  IF variant = "" THEN mine ELSE Merge(mine, [o \in {"model"} |-> "variant"])

RestArgs(cap, values, options) ==
    Restrict(values, (DOMAIN values \cap DOMAIN options) \ LoadOptions(cap, options))

-----------------------------------------------------------------------------
(* The command.                                                            *)

\* On the disk that earlier commands left.
Begin ==
    /\ stage = "idle"
    /\ \E i \in Inputs, cap \in Caps, v \in Variants :
          /\ disk' = i.disk /\ hub' = i.hub
          /\ cmd' = [cap |-> cap, ref |-> [i.ref EXCEPT !.at = v], tail |-> i.tail]
    /\ stage' = "host" /\ UNCHANGED <<host, inv, active, ran, changes>>

Variant == cmd.ref.at

\* An error of the host, or of a process in the venv.
Fails(end, why) ==
    /\ stage' = end /\ ran' = [NoRun EXCEPT !.why = why]
    /\ UNCHANGED <<cmd, host, inv, active, data>>

\* Load, the environment, the variant.
HostLoads(doc) == GoLoads(doc) /\ GoApplies(doc, EnvKey) /\ GoKnowsVariant(doc, Variant)

\* runPrelude with the bundle's root: any kind that is not native goes to the
\* venv.
HostReads(doc) ==
    LET entry == GoEntryFor(doc, GoLevel(doc, EnvKey), cmd.cap, Variant)
    IN  IF HostLoads(doc) /\ entry # NoEntry
        THEN /\ host' = [doc |-> doc, entry |-> entry, given |-> GoPeel(cmd.tail).given]
             /\ stage' = IF entry.kind \in Kinds \ {"python"} THEN "native" ELSE "parse"
             /\ UNCHANGED <<cmd, inv, active, ran>>
        ELSE /\ stage' = "host failed" /\ ran' = [NoRun EXCEPT !.why = "manifest"]
             /\ UNCHANGED <<cmd, host, inv, active>>

\* ensureBundleRef and runPrelude: a FlashHub ref whose tree has no completion
\* marker is synced first.
Host ==
    /\ stage = "host"
    /\ LET target == GoTarget(cmd.ref)
           latest == Found(hub).doc
       IN  IF ~RefFits(cmd.ref) THEN Fails("host failed", "ref")
           ELSE IF disk[target] # NoTree
           THEN HostReads(disk[target]) /\ UNCHANGED data
           ELSE IF target = "tree" /\ HostLoads(latest)
           THEN /\ disk' = [disk EXCEPT !.tree = latest, !.root = "tree"]
                /\ HostReads(latest) /\ UNCHANGED <<hub, changes>>
           ELSE Fails("host failed", "manifest")

\* parse_run_argv, parse_serve_argv with the document of the first reading
Parsed(doc, target) ==
    LET entry == PyEntry(PyLevel(doc, EnvKey), cmd.cap)
        options == PyOptions(doc, EnvKey, Variant, cmd.cap)
        script == entry.mode = "script"
        stops == /\ stage' = "failed" /\ UNCHANGED <<cmd, host, inv, active>>
    IN  IF ~PyHasOptions(doc, EnvKey, Variant, cmd.cap)
        THEN stops /\ ran' = [NoRun EXCEPT !.why = "manifest"]
        ELSE IF ~script /\ ~FlagsFit(cmd.cap, options)
        THEN stops /\ ran' = [NoRun EXCEPT !.why = "flags"]
        ELSE IF ~(IF script THEN ValuesGiven(cmd.tail) ELSE Parses(cmd.tail, cmd.cap, options))
        THEN stops /\ ran' = [NoRun EXCEPT !.why = "arguments"]
        ELSE /\ inv' = [doc |-> doc, target |-> target, mode |-> entry.mode, options |-> options,
                        values |-> IF script THEN NoOptions ELSE Values(cmd.tail, options),
                        argv |-> IF script THEN StripHostFlags(cmd.tail) ELSE <<>>,
                        given |-> [f \in ValueFlags |-> ValueOf(cmd.tail, f)]]
             /\ stage' = "activate"
             /\ UNCHANGED <<cmd, host, active, ran>>

Reads(doc) == doc # NoTree /\ PyReads(doc, EnvKey)

\* resolve_run_target and resolve_manifest_for_preset: FLASHCLI_BUNDLE_ROOT,
\* whose document is passed over when it is refused; the directory, which
\* raises; the marker's root, passed over too; and FlashHub, which may also not
\* answer.
Parse ==
    /\ stage = "parse"
    /\ LET env == disk[GoTarget(cmd.ref)]
           target == PyTarget(cmd.ref, disk)
           known == CASE Reads(env) -> env
                      [] ~Reads(env) /\ target = "here" -> disk.here
                      [] ~Reads(env) /\ target # "here" -> MarkedTree(disk)
       IN  IF target # None /\ Reads(known)
           THEN Parsed(known, target) /\ UNCHANGED data
           ELSE IF target = "tree"
           THEN \E got \in Answers(disk, hub) :
                  /\ disk' = got.disk /\ UNCHANGED <<hub, changes>>
                  /\ IF got.done /\ Reads(got.disk.file) THEN Parsed(got.disk.file, target)
                     ELSE /\ stage' = "failed" /\ UNCHANGED <<cmd, host, inv, active>>
                          /\ ran' = [NoRun EXCEPT !.why = IF got.done THEN "manifest" ELSE "network"]
           ELSE Fails("failed", "manifest")

\* activate_for_preset, resolve_effective_model_variant: the second reading.
\* (InferEntry has the venv, the weights and the environment of the entry.)
Activate ==
    /\ stage = "activate"
    /\ LET doc == Root(disk, inv.target, GoTarget(cmd.ref))
       IN  IF Reads(doc) /\ PyLayoutFits(doc, EnvKey) /\ PyKnowsVariant(doc, Variant)
           THEN /\ active' = doc
                /\ stage' = IF inv.mode = "script" THEN "script" ELSE "create"
                /\ UNCHANGED <<cmd, host, inv, ran, data>>
           ELSE Fails("failed", "manifest")

\* load_entry, coerce_run_engine
Loads(doc, entry) == entry # NoEntry /\ entry.module \in doc.files

\* load_entry_callable: a script of the bundle that was activated
Script ==
    /\ stage = "script"
    /\ LET entry == PyEntry(PyLevel(active, EnvKey), cmd.cap)
       IN  IF ~Loads(active, entry) THEN Fails("failed", "manifest")
           ELSE /\ ran' = [NoRun EXCEPT !.entry = entry]
                /\ stage' = "running" /\ UNCHANGED <<cmd, host, inv, active, data>>

\* The options of the first reading, or of the second when it had none.
Specs ==
    IF inv.options # NoOptions THEN inv.options
    ELSE PyOptions(active, EnvKey, Variant, cmd.cap)

\* create_run_engine, create_serve_engine: FLASHCLI_BUNDLE_ROOT is no longer
\* set; the directory or the marker's tree is read a third time.
Create ==
    /\ stage = "create"
    /\ LET doc == Root(disk, inv.target, None)
           entry == PyEntry(PyLevel(doc, EnvKey), cmd.cap)
       IN  IF ~Reads(doc) \/ ~Loads(doc, entry) THEN Fails("failed", "manifest")
           ELSE /\ ran' = [NoRun EXCEPT
                            !.entry = entry,
                            !.load = LoadArgs(cmd.cap, inv.values, Specs, Variant),
                            !.rest = RestArgs(cmd.cap, inv.values, Specs)]
                /\ stage' = "running" /\ UNCHANGED <<cmd, host, inv, active, data>>

End ==
    /\ stage \in {"host failed", "native", "failed", "running"} /\ stage' = "idle"
    /\ disk' = NoDisk /\ hub' = NoIndex /\ cmd' = NoCmd /\ host' = NoHost /\ inv' = NoInv
    /\ active' = NoTree /\ ran' = NoRun /\ changes' = 0

-----------------------------------------------------------------------------
(* Other commands, a publisher and a developer, meanwhile.                 *)

Change(newDisk, newHub) ==
    /\ stage # "idle" /\ changes < MaxChanges
    /\ <<newDisk, newHub>> # <<disk, hub>>
    /\ disk' = newDisk /\ hub' = newHub /\ changes' = changes + 1
    /\ UNCHANGED <<stage, cmd, host, inv, active, ran>>

Publish == IsFlashHub(cmd.ref) /\ \E index \in Upstream : Change(disk, index)

\* Of this ref, or of another one with its cache key.
Sync ==
    \E n \in Namespaces :
        LET ref == [cmd.ref EXCEPT !.namespace = n]
            doc == Found(IF RepoUrl(ref) = RepoUrl(cmd.ref) THEN hub ELSE Other).doc
        IN  /\ IsFlashHub(ref) /\ CacheKey(ref) = CacheKey(cmd.ref) /\ GoLoads(doc)
            /\ Change([disk EXCEPT !.tree = doc, !.root = "tree"], hub)

Clean == Change([disk EXCEPT !.tree = NoTree], hub)

Edit ==
    /\ disk.here # NoTree
    /\ \E d \in {NoTree} \cup {Found(index).doc : index \in Upstream} :
          Change([disk EXCEPT !.here = d], hub)

Next ==
    \/ Begin \/ Host \/ Parse \/ Activate \/ Script \/ Create \/ End
    \/ Publish \/ Sync \/ Clean \/ Edit

Spec == Init /\ [][Next]_vars

-----------------------------------------------------------------------------
(* What the venv's reader does not take as the host's does: a variant that *)
(* changes the entry, a blank kind, and a mode nobody knows.               *)
KindPaths == {<<"entry", "kind">>} \cup {<<"entry", c, "kind">> : c \in Caps}
ModePaths == {<<"entry", c, "mode">> : c \in Caps}

PlainLevel(level) ==
    /\ \A p \in KindPaths \cap DOMAIN level : level[p] \in Kinds
    /\ \A p \in ModePaths \cap DOMAIN level : level[p] \in {"engine", "script"}

Plain(doc) ==
    /\ PlainLevel(doc.top) /\ PlainLevel(doc.defaults)
    /\ \A k \in DOMAIN doc.envs : PlainLevel(doc.envs[k])
    /\ \A v \in DOMAIN doc.variants : \A p \in DOMAIN doc.variants[v] : p[1] # "entry"

\* Nobody changed anything since the command began, the document is plain, the
\* cache was not moved, and no directory has the name of a FlashHub ref.
Steady ==
    /\ changes = 0 /\ Plain(host.doc) /\ disk.root = "tree"
    /\ PyTarget(cmd.ref, disk) = GoTarget(cmd.ref)

\* What runs in the venv is the entry for which the host chose to start it: its
\* module and its mode, whichever environment overrides them
\* (docs/bundle_execution_abi.md:289).
StartsWhatHostChose ==
    stage = "running" /\ Steady => ran.entry = host.entry /\ inv.mode = host.entry.mode

\* An engine's options have flags of their own: validate does not ask for it.
OwnFlags ==
    host.entry.mode = "script"
    \/ FlagsFit(cmd.cap, PyOptions(host.doc, EnvKey, Variant, cmd.cap))

\* A bundle that `bundle validate` accepts is not refused in the venv, after
\* weights were downloaded and the venv was built, for another reason of its
\* document than flags the parser has already: not without FlashHub either.
\* (Validate does not look at the native block an environment brings.)
ValidBundleStarts ==
    /\ stage = "failed" /\ Steady /\ GoValidates(host.doc) /\ OwnFlags
    /\ \A e \in GoEntries(host.doc, GoLevel(host.doc, EnvKey)) : NativeFits(e)
    => ran.why = "arguments"

\* Every value reaches the engine, in the call its document declares it for
\* (options.py:295), whatever is published between the readings; only "model"
\* belongs to the variant.
OptionsReachTheirPhase ==
    stage = "running" /\ inv.mode = "engine" =>
        \A o \in DOMAIN inv.values :
            LET declared == inv.options[o].phase
                call == IF cmd.cap = "run"
                        THEN IF declared = "load" THEN ran.load ELSE ran.rest
                        ELSE IF declared = "warmup" THEN ran.rest ELSE ran.load
            IN  /\ o \in DOMAIN call
                /\ call[o] = inv.values[o] \/ (o = "model" /\ Variant # "")

\* The tokens of the flags that the host takes and _strip_script_host_flags knows
\* nothing of.
Unstripped(tail) ==
    {i \in 1 .. Len(tail) : tail[i] \in Flags \ StrippedFlags}
    \cup {i \in 2 .. Len(tail) : tail[i - 1] = "--mtp-checkpoint"}

\* Host and entry share the arguments (cli.py:209): both have the same values of
\* the flags, unless one is abbreviated, which the host does not know, and a
\* script gets, in its order, what the host did not take, with --quiet and
\* --mtp-checkpoint.
ArgumentsAreShared ==
    stage = "running" =>
        /\ \A f \in ValueFlags : Abbreviation[f] \notin Range(cmd.tail) => inv.given[f] = host.given[f]
        /\ inv.mode = "script" =>
              inv.argv = Kept(cmd.tail, GoPeel(cmd.tail).own \ Unstripped(cmd.tail))
=============================================================================
