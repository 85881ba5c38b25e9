------------------------- MODULE InferCommandProofs -------------------------
(***************************************************************************)
(* Proofs about InferCommand: every option reaches the call it is declared *)
(* for, whatever the documents, the arguments and the other commands.      *)
(***************************************************************************)
EXTENDS InferCommand, WellFoundedInduction, TLAPS

\* Only declared options have values.
OnlyDeclared == DOMAIN inv.values \subseteq DOMAIN inv.options

\* Script is only reached in script mode.
ScriptsAreScripts == stage = "script" => inv.mode = "script"

\* An engine was called with the split of the values of the first reading.
CalledAsSplit ==
    stage = "running" /\ inv.mode = "engine" =>
        /\ ran.load = LoadArgs(cmd.cap, inv.values, Specs, Variant)
        /\ ran.rest = RestArgs(cmd.cap, inv.values, Specs)

\* The strengthening of OptionsReachTheirPhase.
CallInv == cmd.cap \in Caps /\ OnlyDeclared /\ ScriptsAreScripts /\ CalledAsSplit

\* _collect_bundle_options gives values to declared options only.
LEMMA ValuesAreDeclared ==
    ASSUME NEW tail, NEW options
    PROVE  DOMAIN Values(tail, options) \subseteq DOMAIN options
BY DEF Values

\* No declared option, no value.
LEMMA NothingDeclared ==
    ASSUME OnlyDeclared, inv.options = NoOptions
    PROVE  DOMAIN inv.values = {}
BY DEF OnlyDeclared, NoOptions

\* Between two commands no value is there.
LEMMA CallInit == Init => CallInv
<1> SUFFICES ASSUME Init PROVE CallInv
  OBVIOUS
<1>1. cmd.cap \in Caps
  BY DEF Init, NoCmd, Caps
<1>2. inv.values = NoOptions /\ inv.options = NoOptions
  BY DEF Init, NoInv
<1>3. stage = "idle"
  BY DEF Init
<1> QED
  BY <1>1, <1>2, <1>3 DEF CallInv, OnlyDeclared, ScriptsAreScripts, CalledAsSplit

\* What no step of the command touches stays as it is.
LEMMA CallKept ==
    ASSUME CallInv, UNCHANGED <<cmd, inv>>,
           stage' \notin {"script", "running"} \/ UNCHANGED <<stage, active, ran>>
    PROVE  CallInv'
BY DEF CallInv, OnlyDeclared, ScriptsAreScripts, CalledAsSplit, Specs, Variant

\* A command that fails, or goes on to its next stage, keeps it.
LEMMA CallStops ==
    ASSUME CallInv, cmd' = cmd, inv' = inv,
           stage' \in {"host failed", "native", "parse", "failed"}
    PROVE  CallInv'
BY CallKept

\* A failure is such a step.
LEMMA FailsKeep ==
    ASSUME CallInv, NEW why, Fails("failed", why) \/ Fails("host failed", why)
    PROVE  CallInv'
BY CallStops DEF Fails

\* A parsed invocation has values of declared options only.
LEMMA ParsedKeeps ==
    ASSUME CallInv, NEW doc, NEW target, Parsed(doc, target)
    PROVE  CallInv'
<1>1. CASE UNCHANGED <<cmd, inv>> /\ stage' = "failed"
  BY <1>1, CallKept
<1>2. CASE ~(UNCHANGED <<cmd, inv>> /\ stage' = "failed")
  <2> DEFINE entry == PyEntry(PyLevel(doc, EnvKey), cmd.cap)
             options == PyOptions(doc, EnvKey, Variant, cmd.cap)
             values == IF entry.mode = "script" THEN NoOptions ELSE Values(cmd.tail, options)
  <2>1. /\ inv' = [doc |-> doc, target |-> target, mode |-> entry.mode, options |-> options,
                   values |-> values,
                   argv |-> IF entry.mode = "script" THEN StripHostFlags(cmd.tail) ELSE <<>>,
                   given |-> [f \in ValueFlags |-> ValueOf(cmd.tail, f)]]
        /\ stage' = "activate" /\ cmd' = cmd
    BY <1>2 DEF Parsed
  <2>2. inv'.values = values /\ inv'.options = options
    BY <2>1
  <2>3. DOMAIN values \subseteq DOMAIN options
    <3>1. DOMAIN NoOptions = {}
      BY DEF NoOptions
    <3> QED
      BY <3>1, ValuesAreDeclared
  <2> QED
    BY <2>1, <2>2, <2>3 DEF CallInv, OnlyDeclared, ScriptsAreScripts, CalledAsSplit
<1> QED
  BY <1>1, <1>2

\* No step breaks it.
LEMMA CallStep == CallInv /\ [Next]_vars => CallInv'
<1> SUFFICES ASSUME CallInv, [Next]_vars PROVE CallInv'
  OBVIOUS
<1>2. CASE Begin
  <2>1. cmd'.cap \in Caps
    BY <1>2 DEF Begin
  <2> QED
    BY <1>2, <2>1 DEF Begin, CallInv, OnlyDeclared, ScriptsAreScripts, CalledAsSplit
<1>3. CASE Host
  <2>1. ASSUME NEW doc, HostReads(doc) PROVE CallInv'
    <3>1. cmd' = cmd /\ inv' = inv /\ stage' \in {"host failed", "native", "parse"}
      BY <2>1, Zenon DEF HostReads
    <3> QED
      BY <3>1, CallStops
  <2>2. (\E d : HostReads(d)) \/ (\E w : Fails("host failed", w))
    BY <1>3 DEF Host
  <2> QED
    BY <2>1, <2>2, FailsKeep
<1>4. CASE Parse
  <2>1. (\E d, t : Parsed(d, t)) \/ Fails("failed", "manifest")
          \/ (stage' = "failed" /\ UNCHANGED <<cmd, inv>>)
    BY <1>4 DEF Parse
  <2> QED
    BY <2>1, ParsedKeeps, FailsKeep, CallStops
<1>5. CASE Activate
  <2>1. CASE Fails("failed", "manifest")
    BY <2>1, FailsKeep
  <2>2. CASE ~Fails("failed", "manifest")
    <3>1. /\ stage' = IF inv.mode = "script" THEN "script" ELSE "create"
          /\ UNCHANGED <<cmd, inv>>
      BY <1>5, <2>2 DEF Activate
    <3> QED
      BY <3>1 DEF CallInv, OnlyDeclared, ScriptsAreScripts, CalledAsSplit
  <2> QED
    BY <2>1, <2>2
<1>6. CASE Script
  <2>1. CASE Fails("failed", "manifest")
    BY <2>1, FailsKeep
  <2>2. CASE ~Fails("failed", "manifest")
    <3>1. stage = "script" /\ stage' = "running" /\ UNCHANGED <<cmd, inv>>
      BY <1>6, <2>2 DEF Script
    <3> QED
      BY <3>1 DEF CallInv, OnlyDeclared, ScriptsAreScripts, CalledAsSplit
  <2> QED
    BY <2>1, <2>2
<1>7. CASE Create
  <2>1. CASE Fails("failed", "manifest")
    BY <2>1, FailsKeep
  <2>2. CASE ~Fails("failed", "manifest")
    <3>1. /\ stage' = "running" /\ UNCHANGED <<cmd, inv, active>>
          /\ \E entry : ran' = [NoRun EXCEPT
                !.entry = entry,
                !.load = LoadArgs(cmd.cap, inv.values, Specs, Variant),
                !.rest = RestArgs(cmd.cap, inv.values, Specs)]
      BY <1>7, <2>2 DEF Create
    <3>2. /\ ran'.load = LoadArgs(cmd.cap, inv.values, Specs, Variant)
          /\ ran'.rest = RestArgs(cmd.cap, inv.values, Specs)
      BY <3>1 DEF NoRun
    <3>3. Specs' = Specs /\ Variant' = Variant
      BY <3>1 DEF Specs, Variant
    <3> QED
      BY <3>1, <3>2, <3>3 DEF CallInv, OnlyDeclared, ScriptsAreScripts, CalledAsSplit
  <2> QED
    BY <2>1, <2>2
<1>8. CASE End
  <2>1. cmd' = NoCmd /\ inv' = NoInv /\ stage' = "idle"
    BY <1>8 DEF End
  <2>2. cmd'.cap \in Caps /\ inv'.values = inv'.options
    BY <2>1 DEF NoCmd, NoInv, Caps
  <2> QED
    BY <2>1, <2>2 DEF CallInv, OnlyDeclared, ScriptsAreScripts, CalledAsSplit
<1>9. CASE Publish \/ Sync \/ Clean \/ Edit
  <2>1. UNCHANGED <<stage, cmd, inv, active, ran>>
    BY <1>9 DEF Publish, Sync, Clean, Edit, Change
  <2> QED
    BY <2>1, CallKept
<1>10. CASE UNCHANGED vars
  BY <1>10, CallKept DEF vars
<1> QED
  BY <1>2, <1>3, <1>4, <1>5, <1>6, <1>7, <1>8, <1>9, <1>10 DEF Next

\* What a document declares for load.
ForLoad(cap, option) == IF cap = "run" THEN option.phase = "load" ELSE option.phase # "warmup"

\* A value is in the call its phase says; the variant may replace "model".
Reaches(cap, values, options, v, o) ==
    /\ ForLoad(cap, options[o]) =>
          /\ o \in DOMAIN LoadArgs(cap, values, options, v)
          /\ \/ LoadArgs(cap, values, options, v)[o] = values[o]
             \/ o = "model" /\ v # ""
    /\ ~ForLoad(cap, options[o]) =>
          /\ o \in DOMAIN RestArgs(cap, values, options)
          /\ RestArgs(cap, values, options)[o] = values[o]

\* The split of declared values puts each where its phase says.
LEMMA SplitReaches ==
    ASSUME NEW cap \in Caps, NEW values, NEW options, DOMAIN values \subseteq DOMAIN options,
           NEW v, NEW o \in DOMAIN values
    PROVE  Reaches(cap, values, options, v, o)
<1> SUFFICES
      /\ ForLoad(cap, options[o]) =>
            /\ o \in DOMAIN LoadArgs(cap, values, options, v)
            /\ \/ LoadArgs(cap, values, options, v)[o] = values[o]
               \/ o = "model" /\ v # ""
      /\ ~ForLoad(cap, options[o]) =>
            /\ o \in DOMAIN RestArgs(cap, values, options)
            /\ RestArgs(cap, values, options)[o] = values[o]
  BY Zenon DEF Reaches
<1> DEFINE first == ForLoad(cap, options[o])
           mine == Restrict(values, DOMAIN values \cap LoadOptions(cap, options))
           theirs == Restrict(values, (DOMAIN values \cap DOMAIN options) \ LoadOptions(cap, options))
<1>1. o \in DOMAIN options
  OBVIOUS
<1>2. o \in LoadOptions(cap, options) <=> first
  <2>1. CASE cap = "run"
    BY <1>1, <2>1 DEF LoadOptions, Phase, Phases, ForLoad
  <2>2. CASE cap = "serve"
    BY <1>1, <2>2 DEF LoadOptions, Phase, Phases, ForLoad
  <2> QED
    BY <2>1, <2>2 DEF Caps
<1>3. CASE first
  <2>1. o \in DOMAIN mine /\ mine[o] = values[o]
    BY <1>2, <1>3 DEF Restrict
  <2>2. CASE v = ""
    BY <1>3, <2>1, <2>2 DEF LoadArgs
  <2>3. CASE v # ""
    BY <1>3, <2>1, <2>3 DEF LoadArgs, Merge
  <2> QED
    BY <2>2, <2>3
<1>4. CASE ~first
  <2>1. o \in DOMAIN theirs /\ theirs[o] = values[o]
    BY <1>1, <1>2, <1>4 DEF Restrict
  <2> QED
    BY <1>4, <2>1 DEF RestArgs
<1> QED
  BY <1>3, <1>4

\* What was called is right.
LEMMA CallReaches == CallInv => OptionsReachTheirPhase
<1> SUFFICES ASSUME CallInv, stage = "running", inv.mode = "engine", NEW o \in DOMAIN inv.values
             PROVE  LET declared == inv.options[o].phase
                        call == IF cmd.cap = "run"
                                THEN IF declared = "load" THEN ran.load ELSE ran.rest
                                ELSE IF declared = "warmup" THEN ran.rest ELSE ran.load
                    IN  /\ o \in DOMAIN call
                        /\ call[o] = inv.values[o] \/ (o = "model" /\ Variant # "")
  BY DEF OptionsReachTheirPhase
<1>1. cmd.cap \in Caps /\ DOMAIN inv.values \subseteq DOMAIN inv.options
  BY DEF CallInv, OnlyDeclared
<1>2. inv.options # NoOptions
  BY NothingDeclared DEF CallInv
<1>3. /\ ran.load = LoadArgs(cmd.cap, inv.values, inv.options, Variant)
      /\ ran.rest = RestArgs(cmd.cap, inv.values, inv.options)
  BY <1>2 DEF CallInv, CalledAsSplit, Specs
<1> DEFINE option == inv.options[o]
<1>4. Reaches(cmd.cap, inv.values, inv.options, Variant, o)
  BY <1>1, SplitReaches, Zenon
<1>5. CASE ForLoad(cmd.cap, option)
  <2>1. o \in DOMAIN ran.load /\ (ran.load[o] = inv.values[o] \/ (o = "model" /\ Variant # ""))
    <3>1. /\ o \in DOMAIN LoadArgs(cmd.cap, inv.values, inv.options, Variant)
          /\ \/ LoadArgs(cmd.cap, inv.values, inv.options, Variant)[o] = inv.values[o]
             \/ o = "model" /\ Variant # ""
      BY <1>4, <1>5, Zenon DEF Reaches
    <3> QED
      BY <1>3, <3>1, Zenon
  <2> QED
    BY <1>5, <2>1, Zenon DEF ForLoad
<1>6. CASE ~ForLoad(cmd.cap, option)
  <2>1. o \in DOMAIN ran.rest /\ ran.rest[o] = inv.values[o]
    <3>1. /\ o \in DOMAIN RestArgs(cmd.cap, inv.values, inv.options)
          /\ RestArgs(cmd.cap, inv.values, inv.options)[o] = inv.values[o]
      BY <1>4, <1>6, Zenon DEF Reaches
    <3> QED
      BY <1>3, <3>1, Zenon
  <2> QED
    BY <1>6, <2>1, Zenon DEF ForLoad
<1> QED
  BY <1>5, <1>6

\* Every value reaches the call its document declares it for, for all documents,
\* arguments, refs and interleavings of other commands.
THEOREM OptionsReachTheirPhaseHolds == Spec => []OptionsReachTheirPhase
<1>1. Spec => []CallInv
  BY CallInit, CallStep, PTL DEF Spec
<1> QED
  BY <1>1, CallReaches, PTL

-----------------------------------------------------------------------------
(* The two readers of one document.                                        *)

\* Levels with the same paths and values have the same entries.
LEMMA SameEntry ==
    ASSUME NEW one, NEW two, DOMAIN one = DOMAIN two, \A p \in DOMAIN one : one[p] = two[p],
           NEW cap
    PROVE  GoEntry(one, cap) = GoEntry(two, cap)
<1>1. \A p, absent : Get(one, p, absent) = Get(two, p, absent)
  BY DEF Get
<1>2. TopKind(one) = TopKind(two)
  BY <1>1 DEF TopKind
<1>3. \A kind : Entry(one, cap, kind) = Entry(two, cap, kind)
  BY <1>1 DEF Entry
<1> QED
  BY <1>1, <1>2, <1>3 DEF GoEntry

\* A variant of a plain document leaves the entry as it is.
LEMMA VariantKeepsEntry ==
    ASSUME NEW doc, Plain(doc), NEW level, NEW cap, NEW v
    PROVE  GoEntryFor(doc, level, cap, v) = GoEntry(level, cap)
<1>1. CASE v \notin GoVariants(doc)
  BY <1>1 DEF GoEntryFor
<1>2. CASE v \in GoVariants(doc)
  <2> DEFINE block == doc.variants[v]
             entry == Restrict(block, {p \in DOMAIN block : p[1] = "entry"})
  <2>1. v \in DOMAIN doc.variants
    BY <1>2 DEF GoVariants
  <2>2. {p \in DOMAIN block : p[1] = "entry"} = {}
    BY <2>1 DEF Plain
  <2>3. DOMAIN entry = {}
    BY <2>2 DEF Restrict
  <2>4. DOMAIN Merge(level, entry) = DOMAIN level
    BY <2>3 DEF Merge
  <2>5. \A p \in DOMAIN level : Merge(level, entry)[p] = level[p]
    BY <2>3 DEF Merge
  <2>6. GoEntry(Merge(level, entry), cap) = GoEntry(level, cap)
    <3> HIDE DEF entry
    <3> QED
      BY <2>4, <2>5, SameEntry
  <2> QED
    BY <1>2, <2>6 DEF GoEntryFor
<1> QED
  BY <1>1, <1>2

\* Merging plain levels gives a plain one.
LEMMA MergePlain ==
    ASSUME NEW base, NEW over, PlainLevel(base), PlainLevel(over)
    PROVE  PlainLevel(Merge(base, over))
<1>1. ASSUME NEW p \in DOMAIN Merge(base, over)
      PROVE  \/ p \in DOMAIN base /\ Merge(base, over)[p] = base[p]
             \/ p \in DOMAIN over /\ Merge(base, over)[p] = over[p]
  BY DEF Merge
<1> QED
  BY <1>1 DEF PlainLevel

\* So does leaving paths out.
LEMMA RestrictPlain ==
    ASSUME NEW level, PlainLevel(level), NEW P \in SUBSET DOMAIN level
    PROVE  PlainLevel(Restrict(level, P))
BY DEF PlainLevel, Restrict

\* The level the host takes is plain.
LEMMA LevelPlain ==
    ASSUME NEW doc, Plain(doc), GoApplies(doc, EnvKey)
    PROVE  PlainLevel(GoLevel(doc, EnvKey))
<1>1. CASE doc.version = "4"
  <2> DEFINE P == {p \in DOMAIN doc.defaults : \A q \in DOMAIN doc.top : q[1] # p[1]}
  <2>1. PlainLevel(Restrict(doc.defaults, P))
    <3>1. P \in SUBSET DOMAIN doc.defaults
      OBVIOUS
    <3> QED
      BY <3>1, RestrictPlain DEF Plain
  <2>2. PlainLevel(UnderTop(doc.defaults, doc.top))
    BY <2>1, MergePlain DEF Plain, UnderTop
  <2>3. PlainLevel(doc.envs[EnvKey])
    BY <1>1 DEF GoApplies, Plain
  <2> QED
    BY <1>1, <2>2, <2>3, MergePlain DEF GoLevel, GoBase
<1>2. CASE doc.version # "4"
  BY <1>2 DEF Plain, GoLevel
<1> QED
  BY <1>1, <1>2

\* Both take the same level of a document the host loads.
LEMMA SameLevel ==
    ASSUME NEW doc, GoLoads(doc)
    PROVE  PyLevel(doc, EnvKey) = GoLevel(doc, EnvKey) /\ PyVersion(doc) = doc.version
<1>1. doc.version \in {"3", "4"} /\ PyVersion(doc) = doc.version
  BY DEF GoLoads, PyVersion
<1>2. PyKey(doc, EnvKey) = EnvKey
  BY EnvKeyIsSet DEF PyKey
<1> QED
  BY <1>1, <1>2 DEF PyLevel, GoLevel, GoBase

\* Both make the same entry of a plain level.
LEMMA PlainEntry ==
    ASSUME NEW level, PlainLevel(level), NEW cap \in Caps
    PROVE  /\ PyEntry(level, cap) = GoEntry(level, cap)
           /\ GoEntry(level, cap).kind \in Kinds \cup {"none"}
<1> DEFINE path == <<"entry", cap, "kind">>
<1>1. path \in KindPaths /\ <<"entry", "kind">> \in KindPaths
  BY DEF KindPaths
<1>2. TopKind(level) \in Kinds
  BY <1>1 DEF TopKind, Get, PlainLevel, Kinds
<1>3. path \in DOMAIN level => level[path] \in Kinds
  BY <1>1 DEF PlainLevel
<1>4. "blank" \notin Kinds
  BY DEF Kinds
<1> DEFINE kind == IF path \in DOMAIN level THEN level[path] ELSE TopKind(level)
<1>5. kind \in Kinds
  BY <1>2, <1>3
<1>6. PyEntry(level, cap) = Entry(level, cap, kind)
  BY <1>2, <1>3, <1>4, Zenon DEF PyEntry, Get
<1>7. GoEntry(level, cap) = Entry(level, cap, kind)
  BY <1>2, <1>3, <1>4, Zenon DEF GoEntry, Get
<1>8. Entry(level, cap, kind).kind \in {kind, "none"}
  <2> HIDE DEF kind
  <2> QED
    BY DEF Entry, NoEntry
<1> QED
  BY <1>5, <1>6, <1>7, <1>8

\* The entry for which the host starts the venv is the one the venv makes.
LEMMA VenvMakesHostEntry ==
    ASSUME NEW doc, Plain(doc), HostLoads(doc), NEW cap \in Caps, NEW v
    PROVE  PyEntry(PyLevel(doc, EnvKey), cap) = GoEntryFor(doc, GoLevel(doc, EnvKey), cap, v)
<1>1. PyLevel(doc, EnvKey) = GoLevel(doc, EnvKey)
  BY SameLevel DEF HostLoads
<1>2. PlainLevel(GoLevel(doc, EnvKey))
  BY LevelPlain DEF HostLoads
<1> QED
  BY <1>1, <1>2, PlainEntry, VariantKeepsEntry

\* The entries whose kinds and native blocks the host asks about.
LEMMA HostEntry ==
    ASSUME NEW doc, NEW level, NEW x
    PROVE  x \in GoEntries(doc, level)
             <=> x # NoEntry /\ \E c \in Caps : x \in GoEntriesOf(doc, level, c)
BY Zenon DEF GoEntries

\* The kinds for which the version axes are checked are the same.
LEMMA SameKinds ==
    ASSUME NEW doc, Plain(doc), HostLoads(doc)
    PROVE  PyKinds(PyLevel(doc, EnvKey)) = {e.kind : e \in GoEntries(doc, GoLevel(doc, EnvKey))}
<1> DEFINE level == GoLevel(doc, EnvKey)
<1> HIDE DEF level
<1>1. PyLevel(doc, EnvKey) = level
  BY SameLevel DEF HostLoads, level
<1>2. \A c \in Caps, v \in {""} \cup GoVariants(doc) : GoEntryFor(doc, level, c, v) = PyEntry(level, c)
  BY <1>1, VenvMakesHostEntry DEF level
<1>3. GoEntries(doc, level) = {PyEntry(level, c) : c \in Caps} \ {NoEntry}
  <2>1. \A c \in Caps : GoEntriesOf(doc, level, c) = {PyEntry(level, c)}
    BY <1>2 DEF GoEntriesOf
  <2>2. \A x : x \in GoEntries(doc, level) <=> x # NoEntry /\ \E c \in Caps : x = PyEntry(level, c)
    BY <2>1, HostEntry
  <2> QED
    BY <2>2
<1>4. PyKinds(level) = {e.kind : e \in {PyEntry(level, c) : c \in Caps} \ {NoEntry}}
  BY DEF PyKinds, PyEnabled
<1> QED
  BY <1>1, <1>3, <1>4 DEF level

\* What the host loads, the venv reads.
LEMMA VenvReadsWhatHostLoads ==
    ASSUME NEW doc, Plain(doc), HostLoads(doc)
    PROVE  Reads(doc)
<1>1. doc.version \in {"3", "4"} /\ PyVersion(doc) = doc.version
  BY SameLevel DEF HostLoads, GoLoads
<1>2. PyHasLevel(doc, EnvKey)
  <2>1. PyKey(doc, EnvKey) = EnvKey
    BY EnvKeyIsSet DEF PyKey
  <2> QED
    BY <1>1, <2>1 DEF PyHasLevel, HostLoads, GoLoads, GoApplies
<1>3. GoVersionsFit(doc, GoLevel(doc, EnvKey))
  BY <1>1 DEF HostLoads, GoLoads, GoApplies, GoLevel, GoBase
<1>4. PySupports(doc, PyLevel(doc, EnvKey))
  <2>1. PyLevel(doc, EnvKey) = GoLevel(doc, EnvKey)
    BY SameLevel DEF HostLoads
  <2> QED
    BY <1>1, <1>3, <2>1, SameKinds DEF PySupports, GoVersionsFit
<1>5. doc # NoTree
  BY <1>1 DEF NoTree
<1> QED
  BY <1>2, <1>4, <1>5 DEF Reads, PyReads

\* What `bundle validate` accepts.
Validated(doc) ==
    /\ Plain(doc) /\ HostLoads(doc) /\ GoValidates(doc)
    /\ \A e \in GoEntries(doc, GoLevel(doc, EnvKey)) : NativeFits(e)

\* Validate asked the level of this machine's environment for what it needs.
LEMMA LevelValidated ==
    ASSUME NEW doc, Validated(doc)
    PROVE  GoLevelFits(doc, GoLevel(doc, EnvKey))
<1>1. CASE doc.version = "4"
  <2>1. EnvKey \in DOMAIN doc.envs
    BY <1>1 DEF Validated, HostLoads, GoApplies
  <2> QED
    BY <1>1, <2>1 DEF Validated, GoValidates
<1>2. CASE doc.version # "4"
  BY <1>2 DEF Validated, GoValidates, GoLevel
<1> QED
  BY <1>1, <1>2

\* The entries of a validated level, for the venv: native blocks are there, and a
\* Python entry's module is a file of the bundle.
LEMMA ValidEntries ==
    ASSUME NEW doc, Validated(doc), NEW cap \in Caps,
           PyEntry(PyLevel(doc, EnvKey), cap) # NoEntry
    PROVE  LET entry == PyEntry(PyLevel(doc, EnvKey), cap)
           IN  /\ entry \in GoEntries(doc, GoLevel(doc, EnvKey))
               /\ entry.kind \in Kinds /\ NativeFits(entry)
               /\ entry.kind = "python" => entry.module \in doc.files
<1> DEFINE level == GoLevel(doc, EnvKey)
           entry == PyEntry(PyLevel(doc, EnvKey), cap)
<1>1. Plain(doc) /\ HostLoads(doc)
  BY DEF Validated
<1>2. entry = GoEntryFor(doc, level, cap, "")
  BY <1>1, VenvMakesHostEntry
<1>3. entry = GoEntry(level, cap)
  BY <1>1, <1>2, VariantKeepsEntry
<1>4. entry \in GoEntries(doc, level)
  <2>1. entry \in GoEntriesOf(doc, level, cap)
    BY <1>2 DEF GoEntriesOf
  <2> QED
    BY <2>1, HostEntry
<1>5. NativeFits(entry)
  BY <1>4 DEF Validated
<1>6. entry.kind \in Kinds
  <2>1. PlainLevel(level)
    BY <1>1, LevelPlain DEF HostLoads
  <2>2. entry.kind \in Kinds \cup {"none"}
    BY <1>3, <2>1, PlainEntry
  <2>3. entry.kind # "none"
    <3>1. PICK kind : entry = Entry(level, cap, kind) /\ kind \in Kinds
      <4>1. \A k : k = "blank" \/ k \in Kinds => (IF k = "blank" THEN TopKind(level) ELSE k) \in Kinds
        BY <2>1 DEF TopKind, Get, PlainLevel, Kinds, KindPaths
      <4>2. Get(level, <<"entry", cap, "kind">>, "blank") \in Kinds \cup {"blank"}
        BY <2>1 DEF Get, PlainLevel, KindPaths
      <4> QED
        BY <1>3, <4>1, <4>2 DEF GoEntry
    <3>2. entry.kind = kind
      BY <3>1 DEF Entry
    <3> QED
      BY <3>1, <3>2 DEF Kinds
  <2> QED
    BY <2>2, <2>3
<1>7. entry.kind = "python" => entry.module \in doc.files
  BY <1>3, LevelValidated DEF GoLevelFits
<1> QED
  BY <1>4, <1>5, <1>6, <1>7

\* A validated bundle's options are there for the venv, under its variant.
LEMMA ValidOptions ==
    ASSUME NEW doc, Validated(doc), NEW cap \in Caps
    PROVE  /\ PyKnowsVariant(doc, Variant)
           /\ PyHasOptions(doc, EnvKey, Variant, cap)
           /\ OptionsFit(GoLevel(doc, EnvKey), doc.variants,
                         {c \in Caps : GoEntry(GoLevel(doc, EnvKey), c) # NoEntry})
<1> DEFINE level == GoLevel(doc, EnvKey)
           enabled == {c \in Caps : GoEntry(level, c) # NoEntry}
<1>1. HostLoads(doc) /\ PyLevel(doc, EnvKey) = level /\ doc.version \in {"3", "4"}
  BY SameLevel DEF Validated, HostLoads, GoLoads
<1>2. OptionsFit(level, IF doc.version = "4" THEN <<>> ELSE doc.variants, enabled)
  <2> HIDE DEF level
  <2> QED
    BY LevelValidated, Zenon DEF GoLevelFits, level
<1>3. CASE doc.version = "4"
  <2>1. NothingIn(doc.variants) /\ NothingIn(<<>>)
    BY <1>1, <1>3 DEF HostLoads, GoLoads, NothingIn
  <2>2. OptionsFit(level, doc.variants, enabled)
    <3>1. OptionsFit(level, <<>>, enabled)
      BY <1>2, <1>3
    <3> HIDE DEF level, enabled
    <3> QED
      BY <2>1, <3>1 DEF OptionsFit
  <2> QED
    BY <2>1, <2>2 DEF PyKnowsVariant, PyHasOptions, PyVariants
<1>4. CASE doc.version = "3"
  <2>1. OptionsFit(level, doc.variants, enabled)
    BY <1>2, <1>4
  <2>2. ASSUME ~NothingIn(doc.variants)
        PROVE  /\ Variant \in DOMAIN doc.variants
               /\ \A c \in Caps : Options(level, c) = NoOptions
    <3>1. Variant \in DOMAIN doc.variants
      BY <1>1, <1>4, <2>2 DEF HostLoads, GoKnowsVariant, GoVariants, NothingIn
    <3>2. \A c \in Caps : Options(level, c) = NoOptions
      <4> HIDE DEF level, enabled
      <4> QED
        BY <2>1, <2>2 DEF OptionsFit
    <3> QED
      BY <3>1, <3>2
  <2> QED
    BY <1>1, <2>1, <2>2 DEF PyKnowsVariant, PyHasOptions, PyVariants
<1> QED
  BY <1>1, <1>3, <1>4

\* A validated bundle for which the host starts the venv has a layout that fits,
\* for the venv too.
LEMMA ValidLayout ==
    ASSUME NEW doc, Validated(doc), NEW cap \in Caps, NEW v,
           GoEntryFor(doc, GoLevel(doc, EnvKey), cap, v) # NoEntry,
           GoEntryFor(doc, GoLevel(doc, EnvKey), cap, v).kind \notin Kinds \ {"python"}
    PROVE  /\ PyLayoutFits(doc, EnvKey)
           /\ Loads(doc, PyEntry(PyLevel(doc, EnvKey), cap))
<1> DEFINE level == GoLevel(doc, EnvKey)
<1> HIDE DEF level
<1>1. Plain(doc) /\ HostLoads(doc) /\ PyLevel(doc, EnvKey) = level
  BY SameLevel DEF Validated, HostLoads, level
<1>2. PyEntry(level, cap) # NoEntry /\ PyEntry(level, cap).kind = "python"
  <2>1. PyEntry(level, cap) = GoEntryFor(doc, level, cap, v)
    BY <1>1, VenvMakesHostEntry DEF level
  <2>2. PyEntry(level, cap).kind \in Kinds
    BY <1>1, <2>1, ValidEntries DEF level
  <2> QED
    BY <2>1, <2>2 DEF level
<1>3. PyEntry(level, cap) \in GoEntries(doc, level) /\ PyEntry(level, cap).module \in doc.files
  BY <1>1, <1>2, ValidEntries DEF level
<1>4. <<"python_dependencies">> \in DOMAIN level
  BY <1>2, <1>3, LevelValidated DEF GoLevelFits, level
<1>5. ASSUME NEW c \in PyEnabled(level)
      PROVE  /\ PyEntry(level, c).kind \in Kinds
             /\ NativeFits(PyEntry(level, c))
             /\ PyEntry(level, c).kind = "python" =>
                   /\ Get(level, <<"entry", c, "mode">>, "engine") \in {"engine", "script"}
                   /\ PyEntry(level, c).module \in doc.files
  <2>1. c \in Caps /\ PyEntry(level, c) # NoEntry
    BY DEF PyEnabled
  <2>2. PlainLevel(level)
    BY <1>1, LevelPlain DEF HostLoads, level
  <2>3. Get(level, <<"entry", c, "mode">>, "engine") \in {"engine", "script"}
    BY <2>1, <2>2 DEF PlainLevel, ModePaths, Get
  <2> QED
    BY <1>1, <2>1, <2>3, ValidEntries
<1>6. OptionsFit(level, PyVariants(doc), PyEnabled(level))
  <2>1. \A c \in Caps : GoEntry(level, c) = PyEntry(level, c)
    BY <1>1, LevelPlain, PlainEntry DEF HostLoads, level
  <2>2. {c \in Caps : GoEntry(level, c) # NoEntry} = PyEnabled(level)
    BY <2>1 DEF PyEnabled
  <2>3. OptionsFit(level, doc.variants, {c \in Caps : GoEntry(level, c) # NoEntry})
    BY ValidOptions, Zenon DEF level
  <2> QED
    BY <2>2, <2>3 DEF PyVariants
<1>7. PyLayoutFits(doc, EnvKey)
  BY <1>1, <1>4, <1>5, <1>6 DEF PyLayoutFits
<1> QED
  BY <1>1, <1>2, <1>3, <1>7 DEF Loads

-----------------------------------------------------------------------------
(* One document, read three times.                                         *)

\* After the host, the command is in the venv.
InVenv == {"parse", "activate", "script", "create", "running", "failed"}

\* The cache was not moved, and no directory has the name of a FlashHub ref.
SamePlace == disk.root = "tree" /\ PyTarget(cmd.ref, disk) = GoTarget(cmd.ref)

\* What the host starts the venv with.
HostChose ==
    /\ HostLoads(host.doc)
    /\ host.entry = GoEntryFor(host.doc, GoLevel(host.doc, EnvKey), cmd.cap, Variant)
    /\ host.entry # NoEntry
    /\ host.entry.kind \notin Kinds \ {"python"}

\* The entry that the venv makes of the host's document.
Made == PyEntry(PyLevel(host.doc, EnvKey), cmd.cap)

\* The host's document is still where it read it.
Still == disk[GoTarget(cmd.ref)] = host.doc

\* The first reading took the mode, the second activated, the third started the
\* entry, each of the host's document.
FirstRead ==
    stage \in {"activate", "script", "create", "running"} =>
        /\ inv.target = PyTarget(cmd.ref, disk)
        /\ Reads(host.doc) => inv.mode = Made.mode
SecondRead == stage \in {"script", "create", "running"} => Reads(host.doc) /\ active = host.doc
ThirdRead == stage = "running" /\ SamePlace => ran.entry = Made

\* Its options have flags of their own, if it is an engine's.
EngineFits ==
    Made.mode = "script" \/ FlagsFit(cmd.cap, PyOptions(host.doc, EnvKey, Variant, cmd.cap))

\* A validated document is then only refused for its arguments.
FailsForArguments ==
    stage = "failed" /\ SamePlace /\ Validated(host.doc) /\ EngineFits => ran.why = "arguments"

\* The strengthening of StartsWhatHostChose and ValidBundleStarts.
Seen == FirstRead /\ SecondRead /\ ThirdRead /\ FailsForArguments
ReadInv ==
    /\ cmd.cap \in Caps /\ changes \in Nat /\ IsDisk(disk)
    /\ stage \in InVenv => HostChose
    /\ stage \in InVenv /\ changes = 0 => Still /\ Seen

\* Between two commands there is nothing to read.
LEMMA ReadInit == Init => ReadInv
<1> SUFFICES ASSUME Init PROVE ReadInv
  OBVIOUS
<1>1. stage \notin InVenv /\ changes \in Nat
  BY DEF Init, InVenv
<1>2. cmd.cap \in Caps /\ IsDisk(disk)
  BY DEF Init, NoCmd, Caps, NoDisk, IsDisk
<1> QED
  BY <1>1, <1>2 DEF ReadInv

\* A target is a place of the disk.
LEMMA Targets ==
    ASSUME NEW ref
    PROVE  GoTarget(ref) \in {"tree", "here"}
BY DEF GoTarget, CacheKey

\* A document the host loads is one.
LEMMA LoadedIsOne ==
    ASSUME NEW doc, HostLoads(doc)
    PROVE  doc # NoTree
BY DEF HostLoads, GoLoads, NoTree

\* What the invariant says of the host's decision depends on command and host only.
LEMMA ChoiceKept ==
    ASSUME UNCHANGED <<cmd, host>>
    PROVE  /\ HostChose' <=> HostChose
           /\ Made' = Made
           /\ Validated(host.doc)' <=> Validated(host.doc)
           /\ EngineFits' <=> EngineFits
BY DEF HostChose, Made, Variant, Validated, HostLoads, EngineFits

\* Another command's change ends what the readings are known to have in common.
LEMMA ChangeKeepsRead ==
    ASSUME ReadInv, NEW newDisk, NEW newHub, Change(newDisk, newHub), IsDisk(newDisk)
    PROVE  ReadInv'
<1>1. /\ changes' \in Nat /\ changes' # 0 /\ IsDisk(disk)'
      /\ UNCHANGED <<stage, cmd, host, inv, active, ran>>
  BY DEF Change, ReadInv, IsDisk
<1>2. HostChose' <=> HostChose
  BY <1>1, ChoiceKept
<1> QED
  BY <1>1, <1>2 DEF ReadInv

\* On an unchanged disk, what the host read is still there.
LEMMA PlaceKept ==
    ASSUME UNCHANGED <<cmd, host>>, IsDisk(disk), IsDisk(disk'),
           disk'.tree = disk.tree, disk'.here = disk.here, disk'.root = disk.root
    PROVE  /\ Still' <=> Still
           /\ SamePlace' <=> SamePlace
           /\ PyTarget(cmd.ref, disk)' = PyTarget(cmd.ref, disk)
<1>1. disk["tree"] = disk.tree /\ disk'["tree"] = disk.tree
  BY DEF IsDisk
<1>2. disk["here"] = disk.here /\ disk'["here"] = disk.here
  BY DEF IsDisk
<1> QED
  BY <1>1, <1>2, Targets DEF Still, SamePlace, PyTarget

\* The host goes on with a document that is at the target.
LEMMA HostReadsKeeps ==
    ASSUME ReadInv, NEW doc, HostReads(doc), IsDisk(disk'), changes' = changes,
           HostLoads(doc) => disk'[GoTarget(cmd.ref)] = doc
    PROVE  ReadInv'
<1> DEFINE entry == GoEntryFor(doc, GoLevel(doc, EnvKey), cmd.cap, Variant)
<1>1. CASE HostLoads(doc) /\ entry # NoEntry
  <2>1. /\ host' = [doc |-> doc, entry |-> entry, given |-> GoPeel(cmd.tail).given]
        /\ stage' = IF entry.kind \in Kinds \ {"python"} THEN "native" ELSE "parse"
        /\ cmd' = cmd
    BY <1>1, Zenon DEF HostReads
  <2>2. host'.doc = doc /\ host'.entry = entry
    BY <2>1
  <2>3. ASSUME stage' \in InVenv PROVE HostChose' /\ Still' /\ stage' = "parse"
    <3>1. entry.kind \notin Kinds \ {"python"} /\ stage' = "parse"
      BY <2>1, <2>3 DEF InVenv
    <3> HIDE DEF entry
    <3>2. HostLoads(doc)' /\ Still'
      BY <1>1, <2>1, <2>2 DEF Still, HostLoads, Variant
    <3>3. HostChose'
      BY <1>1, <2>1, <2>2, <3>1, <3>2 DEF HostChose, Variant, entry, HostLoads
    <3> QED
      BY <3>1, <3>2, <3>3
  <2>4. stage' = "parse" => Seen'
    BY DEF Seen, FirstRead, SecondRead, ThirdRead, FailsForArguments
  <2> QED
    BY <2>1, <2>3, <2>4 DEF ReadInv
<1>2. CASE ~(HostLoads(doc) /\ entry # NoEntry)
  <2>1. stage' = "host failed" /\ cmd' = cmd
    BY <1>2, Zenon DEF HostReads
  <2> QED
    BY <2>1 DEF ReadInv, InVenv
<1> QED
  BY <1>1, <1>2

\* The host's step.
LEMMA HostKeepsRead == ReadInv /\ Host => ReadInv'
<1> SUFFICES ASSUME ReadInv, Host PROVE ReadInv'
  OBVIOUS
<1> DEFINE target == GoTarget(cmd.ref)
           latest == Found(hub).doc
<1>1. CASE \E why : Fails("host failed", why)
  BY <1>1 DEF Fails, data, ReadInv, InVenv
<1>2. CASE HostReads(disk[target]) /\ UNCHANGED data
  <2>1. IsDisk(disk') /\ changes' = changes /\ disk'[target] = disk[target]
    BY <1>2 DEF data, ReadInv
  <2> QED
    BY <1>2, <2>1, HostReadsKeeps
<1>3. CASE /\ target = "tree" /\ HostReads(latest) /\ UNCHANGED <<hub, changes>>
           /\ disk' = [disk EXCEPT !.tree = latest, !.root = "tree"]
  <2>1. IsDisk(disk') /\ disk'["tree"] = latest
    BY <1>3 DEF ReadInv, IsDisk
  <2> QED
    BY <1>3, <2>1, HostReadsKeeps
<1> QED
  BY <1>1, <1>2, <1>3 DEF Host

\* FlashHub's answers touch the index and the copy only.
LEMMA AnswersKeepPlaces ==
    ASSUME IsDisk(disk), NEW got \in Answers(disk, hub)
    PROVE  /\ IsDisk(got.disk)
           /\ got.disk.tree = disk.tree /\ got.disk.here = disk.here /\ got.disk.root = disk.root
<1> DEFINE left(f, d) == [disk |-> [disk EXCEPT !.index = Index(disk, hub), !.file = f], done |-> d]
<1>1. \A f, d : left(f, d).disk = [disk EXCEPT !.index = Index(disk, hub), !.file = f]
  OBVIOUS
<1>2. got \in Fetches(disk, hub) => \E f, d : got = left(f, d)
  <2> DEFINE entry == Found(Index(disk, hub))
  <2>1. \/ got = left(disk.file, TRUE)
        \/ \E f \in Downloads(disk.file, entry) : got = left(f, f = entry.doc)
        \/ got = left(NoTree, FALSE)
        \/ got \notin Fetches(disk, hub)
    BY Zenon DEF Fetches
  <2> HIDE DEF left
  <2> QED
    BY <2>1
<1>3. got \in Fetches(disk, hub) \/ got = [disk |-> disk, done |-> FALSE]
  BY DEF Answers
<1>4. CASE got = [disk |-> disk, done |-> FALSE]
  BY <1>4
<1>5. CASE \E f, d : got = left(f, d)
  <2>1. PICK f, d : got = left(f, d)
    BY <1>5
  <2>2. got.disk = [disk EXCEPT !.index = Index(disk, hub), !.file = f]
    BY <1>1, <2>1
  <2> HIDE DEF left
  <2> QED
    BY <2>2 DEF IsDisk
<1> QED
  BY <1>2, <1>3, <1>4, <1>5

\* Parsing with the host's document, or with another one when that is refused.
LEMMA ParsedKeepsRead ==
    ASSUME ReadInv, stage = "parse", NEW doc, NEW target, Parsed(doc, target),
           target = PyTarget(cmd.ref, disk),
           changes = 0 /\ Reads(host.doc) => doc = host.doc,
           changes' = changes, IsDisk(disk'),
           disk'.tree = disk.tree, disk'.here = disk.here, disk'.root = disk.root
    PROVE  ReadInv'
<1> DEFINE entry == PyEntry(PyLevel(doc, EnvKey), cmd.cap)
<1>1. IsDisk(disk) /\ HostChose /\ (changes = 0 => Still) /\ cmd.cap \in Caps /\ changes \in Nat
  BY DEF ReadInv, InVenv
<1>2. UNCHANGED <<cmd, host>>
  BY DEF Parsed
<1>3. /\ HostChose' /\ Made' = Made /\ (Validated(host.doc)' <=> Validated(host.doc))
      /\ (EngineFits' <=> EngineFits)
  BY <1>1, <1>2, ChoiceKept
<1>4. /\ changes = 0 => Still'
      /\ PyTarget(cmd.ref, disk)' = PyTarget(cmd.ref, disk)
  BY <1>1, <1>2, PlaceKept
<1>5. CASE stage' = "failed" /\ ran'.why = "arguments"
  <2>1. Seen'
    BY <1>5 DEF Seen, FirstRead, SecondRead, ThirdRead, FailsForArguments
  <2> QED
    BY <1>1, <1>2, <1>3, <1>4, <2>1 DEF ReadInv
<1>6. CASE stage' = "failed" /\ ~PyHasOptions(doc, EnvKey, Variant, cmd.cap)
  <2>1. changes = 0 => ~Validated(host.doc)
    <3> SUFFICES ASSUME changes = 0, Validated(host.doc) PROVE FALSE
      OBVIOUS
    <3>1. Reads(host.doc)
      BY VenvReadsWhatHostLoads DEF Validated
    <3> QED
      BY <1>1, <1>6, <3>1, ValidOptions
  <2>2. changes = 0 => Seen'
    BY <1>3, <1>6, <2>1 DEF Seen, FirstRead, SecondRead, ThirdRead, FailsForArguments
  <2> QED
    BY <1>1, <1>2, <1>3, <1>4, <2>2 DEF ReadInv
<1>10. CASE /\ stage' = "failed" /\ entry.mode # "script"
            /\ ~FlagsFit(cmd.cap, PyOptions(doc, EnvKey, Variant, cmd.cap))
  <2>1. changes = 0 /\ Validated(host.doc) => ~EngineFits
    <3> SUFFICES ASSUME changes = 0, Validated(host.doc) PROVE ~EngineFits
      OBVIOUS
    <3>1. doc = host.doc
      BY VenvReadsWhatHostLoads DEF Validated
    <3> QED
      BY <1>10, <3>1 DEF EngineFits, Made
  <2>2. changes = 0 => Seen'
    BY <1>3, <1>10, <2>1 DEF Seen, FirstRead, SecondRead, ThirdRead, FailsForArguments
  <2> QED
    BY <1>1, <1>2, <1>3, <1>4, <1>10, <2>2 DEF ReadInv
<1>7. CASE stage' = "activate" /\ inv'.target = target /\ inv'.mode = entry.mode
  <2>1. changes = 0 /\ Reads(host.doc) => entry = Made
    BY DEF Made
  <2>2. changes = 0 /\ Reads(host.doc) => inv'.mode = Made'.mode
    BY <1>3, <1>7, <2>1
  <2>3. Reads(host.doc)' <=> Reads(host.doc)
    BY <1>2 DEF Reads
  <2>4. changes = 0 => FirstRead'
    BY <1>4, <1>7, <2>2, <2>3 DEF FirstRead
  <2>5. SecondRead' /\ ThirdRead' /\ FailsForArguments'
    BY <1>7 DEF SecondRead, ThirdRead, FailsForArguments
  <2> QED
    BY <1>1, <1>2, <1>3, <1>4, <2>4, <2>5 DEF ReadInv, Seen
<1>8. \/ stage' = "failed" /\ ran' = [NoRun EXCEPT !.why = "arguments"]
      \/ stage' = "failed" /\ ~PyHasOptions(doc, EnvKey, Variant, cmd.cap)
      \/ /\ stage' = "failed" /\ entry.mode # "script"
         /\ ~FlagsFit(cmd.cap, PyOptions(doc, EnvKey, Variant, cmd.cap))
      \/ /\ stage' = "activate"
         /\ \E o, v, a, c : inv' = [doc |-> doc, target |-> target, mode |-> entry.mode,
                                    options |-> o, values |-> v, argv |-> a, given |-> c]
  BY Zenon DEF Parsed
<1>9. \/ stage' = "failed" /\ ran'.why = "arguments"
      \/ stage' = "failed" /\ ~PyHasOptions(doc, EnvKey, Variant, cmd.cap)
      \/ /\ stage' = "failed" /\ entry.mode # "script"
         /\ ~FlagsFit(cmd.cap, PyOptions(doc, EnvKey, Variant, cmd.cap))
      \/ stage' = "activate" /\ inv'.target = target /\ inv'.mode = entry.mode
  <2> HIDE DEF entry
  <2> QED
    BY <1>8 DEF NoRun
<1> QED
  BY <1>5, <1>6, <1>7, <1>9, <1>10

\* The first reading.
LEMMA ParseKeepsRead == ReadInv /\ Parse => ReadInv'
<1> SUFFICES ASSUME ReadInv, Parse PROVE ReadInv'
  OBVIOUS
<1> DEFINE env == disk[GoTarget(cmd.ref)]
           target == PyTarget(cmd.ref, disk)
           known == CASE Reads(env) -> env
                      [] ~Reads(env) /\ target = "here" -> disk.here
                      [] ~Reads(env) /\ target # "here" -> MarkedTree(disk)
<1>1. stage = "parse" /\ HostChose /\ IsDisk(disk) /\ (changes = 0 => env = host.doc)
      /\ cmd.cap \in Caps /\ changes \in Nat
  BY DEF Parse, ReadInv, InVenv, Still
<1>2. Reads(env) => known = env
  OBVIOUS
<1>3. target \in {"here", "tree", None} /\ None \notin {"here", "tree"}
  BY DEF PyTarget, CacheKey, None
<1>4. changes = 0 /\ SamePlace /\ Validated(host.doc) => target # None /\ Reads(known)
  <2>1. Validated(host.doc) => Reads(host.doc)
    BY VenvReadsWhatHostLoads DEF Validated
  <2>2. SamePlace => target # None
    BY <1>3, Targets DEF SamePlace
  <2> QED
    BY <1>1, <1>2, <2>1, <2>2
<1> HIDE DEF env, known
<1>5. CASE Parsed(known, target) /\ UNCHANGED data
  <2>1. IsDisk(disk') /\ disk' = disk /\ changes' = changes
    BY <1>1, <1>5 DEF data
  <2> QED
    BY <1>1, <1>2, <1>5, <2>1, ParsedKeepsRead
\* It fails without having been what the host chose.
<1>6. ASSUME ~(target # None /\ Reads(known)), stage' = "failed", UNCHANGED <<cmd, host>>,
             IsDisk(disk'), disk'.tree = disk.tree, disk'.here = disk.here,
             disk'.root = disk.root, changes' = changes
      PROVE  ReadInv'
  <2>1. /\ HostChose' /\ Made' = Made /\ (Validated(host.doc)' <=> Validated(host.doc))
        /\ (EngineFits' <=> EngineFits)
      BY <1>1, <1>6, ChoiceKept
  <2>2. (Still' <=> Still) /\ (SamePlace' <=> SamePlace)
    BY <1>1, <1>6, PlaceKept
  <2>3. changes = 0 => FailsForArguments'
    BY <1>4, <1>6, <2>1, <2>2 DEF FailsForArguments
  <2>4. FirstRead' /\ SecondRead' /\ ThirdRead'
    BY <1>6 DEF FirstRead, SecondRead, ThirdRead
  <2>5. changes = 0 => Still'
    BY <1>1, <2>2 DEF Still, env
  <2> QED
    BY <1>1, <1>6, <2>1, <2>3, <2>4, <2>5 DEF ReadInv, Seen
<1>7. CASE ~(target # None /\ Reads(known)) /\ Fails("failed", "manifest")
  <2>1. disk' = disk /\ changes' = changes /\ stage' = "failed" /\ UNCHANGED <<cmd, host>>
    BY <1>7 DEF Fails, data
  <2> QED
    BY <1>1, <1>6, <1>7, <2>1
<1>8. ASSUME ~(target # None /\ Reads(known)), target = "tree",
             NEW got \in Answers(disk, hub), disk' = got.disk, changes' = changes,
             \/ Parsed(got.disk.file, target)
             \/ stage' = "failed" /\ UNCHANGED <<cmd, host>>
      PROVE  ReadInv'
  <2>1. IsDisk(disk') /\ disk'.tree = disk.tree /\ disk'.here = disk.here /\ disk'.root = disk.root
    BY <1>1, <1>8, AnswersKeepPlaces
  <2>2. CASE Parsed(got.disk.file, target)
    <3>1. ~(changes = 0 /\ Reads(host.doc))
      BY <1>1, <1>2, <1>3, <1>8
    <3> QED
      BY <1>1, <1>8, <2>1, <2>2, <3>1, ParsedKeepsRead
  <2>3. CASE stage' = "failed" /\ UNCHANGED <<cmd, host>>
    BY <1>6, <1>8, <2>1, <2>3
  <2> QED
    BY <1>8, <2>2, <2>3
<1>9. \/ Parsed(known, target) /\ UNCHANGED data
      \/ ~(target # None /\ Reads(known)) /\ Fails("failed", "manifest")
      \/ /\ ~(target # None /\ Reads(known)) /\ target = "tree"
         /\ \E got \in Answers(disk, hub) :
              /\ disk' = got.disk /\ UNCHANGED <<hub, changes>>
              /\ \/ Parsed(got.disk.file, target)
                 \/ stage' = "failed" /\ UNCHANGED <<cmd, host>>
  BY Zenon DEF Parse, env, known
<1> QED
  BY <1>5, <1>7, <1>8, <1>9

\* A reading that fails for another reason than the arguments did not have a
\* validated document in its place.
LEMMA LaterFailureKeepsRead ==
    ASSUME ReadInv, stage \in {"activate", "script", "create"}, NEW why, Fails("failed", why),
           changes = 0 /\ SamePlace => ~Validated(host.doc)
    PROVE  ReadInv'
<1>1. HostChose /\ IsDisk(disk) /\ (changes = 0 => Still) /\ cmd.cap \in Caps /\ changes \in Nat
  BY DEF ReadInv, InVenv
<1>2. disk' = disk /\ changes' = changes /\ stage' = "failed" /\ UNCHANGED <<cmd, host>>
  BY DEF Fails, data
<1>3. /\ HostChose' /\ Made' = Made /\ (Validated(host.doc)' <=> Validated(host.doc))
      /\ (EngineFits' <=> EngineFits)
  BY <1>1, <1>2, ChoiceKept
<1>4. (Still' <=> Still) /\ (SamePlace' <=> SamePlace)
  BY <1>1, <1>2, PlaceKept
<1>5. changes = 0 => Seen'
  BY <1>2, <1>3, <1>4 DEF Seen, FirstRead, SecondRead, ThirdRead, FailsForArguments
<1> QED
  BY <1>1, <1>2, <1>3, <1>4, <1>5 DEF ReadInv

\* Going on to the next stage with what was read.
LEMMA GoingOnKeepsRead ==
    ASSUME ReadInv, stage \in {"activate", "script", "create"},
           stage' \in {"script", "create", "running"}, UNCHANGED <<cmd, host, inv, data>>,
           changes = 0 => SecondRead' /\ ThirdRead'
    PROVE  ReadInv'
<1>1. /\ HostChose /\ IsDisk(disk) /\ cmd.cap \in Caps /\ changes \in Nat
      /\ changes = 0 => Still /\ FirstRead
  BY DEF ReadInv, InVenv, Seen
<1>2. HostChose' /\ Made' = Made
  BY <1>1, ChoiceKept
<1>3. changes = 0 => Still' /\ FirstRead' /\ FailsForArguments'
  BY <1>1, <1>2 DEF data, Still, FirstRead, Reads, FailsForArguments
<1> QED
  BY <1>1, <1>2, <1>3 DEF ReadInv, Seen, data

\* With nothing changed, the tree's root is the host's document, for every reading.
LEMMA RootIsHosts ==
    ASSUME ReadInv, stage \in InVenv, changes = 0
    PROVE  /\ Root(disk, inv.target, GoTarget(cmd.ref)) = host.doc
           /\ SamePlace /\ inv.target = PyTarget(cmd.ref, disk)
                => Root(disk, inv.target, None) = host.doc
<1>1. IsDisk(disk) /\ disk[GoTarget(cmd.ref)] = host.doc /\ host.doc # NoTree
  BY LoadedIsOne DEF ReadInv, Still, HostChose
<1>2. disk["tree"] = disk.tree /\ disk["here"] = disk.here
  BY <1>1 DEF IsDisk
<1>3. GoTarget(cmd.ref) \in {"tree", "here"}
  BY Targets
<1>4. Root(disk, inv.target, GoTarget(cmd.ref)) = host.doc
  BY <1>1, <1>3 DEF Root, None
<1>5. ASSUME SamePlace, inv.target = PyTarget(cmd.ref, disk)
      PROVE  Root(disk, inv.target, None) = host.doc
  <2>1. inv.target = GoTarget(cmd.ref) /\ disk.root = "tree"
    BY <1>5 DEF SamePlace
  <2> QED
    BY <1>1, <1>2, <1>3, <2>1 DEF Root, MarkedTree
<1> QED
  BY <1>4, <1>5

\* The host's document, once validated, can be activated and started.
LEMMA ValidStarts ==
    ASSUME HostChose, cmd.cap \in Caps, Validated(host.doc)
    PROVE  /\ Reads(host.doc) /\ PyLayoutFits(host.doc, EnvKey)
           /\ PyKnowsVariant(host.doc, Variant) /\ Loads(host.doc, Made)
<1>1. Reads(host.doc)
  BY VenvReadsWhatHostLoads DEF Validated
<1>2. PyKnowsVariant(host.doc, Variant)
  BY ValidOptions
<1>3. PyLayoutFits(host.doc, EnvKey) /\ Loads(host.doc, Made)
  <2> DEFINE entry == GoEntryFor(host.doc, GoLevel(host.doc, EnvKey), cmd.cap, Variant)
  <2>1. entry # NoEntry /\ entry.kind \notin Kinds \ {"python"}
    BY Zenon DEF HostChose
  <2> QED
    BY <2>1, ValidLayout DEF Made
<1> QED
  BY <1>1, <1>2, <1>3

\* The second reading.
LEMMA ActivateKeepsRead == ReadInv /\ Activate => ReadInv'
<1> SUFFICES ASSUME ReadInv, Activate PROVE ReadInv'
  OBVIOUS
<1> DEFINE doc == Root(disk, inv.target, GoTarget(cmd.ref))
           good == Reads(doc) /\ PyLayoutFits(doc, EnvKey) /\ PyKnowsVariant(doc, Variant)
<1>1. stage = "activate" /\ HostChose /\ cmd.cap \in Caps /\ changes \in Nat
  BY DEF Activate, ReadInv, InVenv
<1>2. changes = 0 => doc = host.doc
  BY <1>1, RootIsHosts DEF InVenv
<1> HIDE DEF doc
<1>3. CASE good
  <2>1. /\ active' = doc /\ stage' \in {"script", "create"}
        /\ UNCHANGED <<cmd, host, inv, ran, data>>
    BY <1>3 DEF Activate, doc
  <2>2. changes = 0 => SecondRead' /\ ThirdRead'
    BY <1>2, <1>3, <2>1 DEF SecondRead, ThirdRead, Reads
  <2> QED
    BY <1>1, <2>1, <2>2, GoingOnKeepsRead
<1>4. CASE ~good
  <2>1. Fails("failed", "manifest")
    BY <1>4 DEF Activate, doc
  <2>2. changes = 0 => ~Validated(host.doc)
    BY <1>1, <1>2, <1>4, ValidStarts
  <2> QED
    BY <1>1, <2>1, <2>2, LaterFailureKeepsRead
<1> QED
  BY <1>3, <1>4

\* A script of the activated bundle.
LEMMA ScriptKeepsRead == ReadInv /\ Script => ReadInv'
<1> SUFFICES ASSUME ReadInv, Script PROVE ReadInv'
  OBVIOUS
<1> DEFINE entry == PyEntry(PyLevel(active, EnvKey), cmd.cap)
<1>1. stage = "script" /\ HostChose /\ cmd.cap \in Caps /\ changes \in Nat
      /\ (changes = 0 => active = host.doc /\ Reads(host.doc))
  BY DEF Script, ReadInv, InVenv, Seen, SecondRead
<1>2. changes = 0 => entry = Made
  BY <1>1 DEF Made
<1> HIDE DEF entry
<1>3. CASE Loads(active, entry)
  <2>1. /\ ran' = [NoRun EXCEPT !.entry = entry]
        /\ stage' = "running" /\ UNCHANGED <<cmd, host, inv, active, data>>
    BY <1>3 DEF Script, entry
  <2>2. ran'.entry = entry
    BY <2>1 DEF NoRun
  <2>3. changes = 0 => SecondRead' /\ ThirdRead'
    BY <1>1, <1>2, <2>1, <2>2, ChoiceKept DEF SecondRead, ThirdRead, Reads
  <2> QED
    BY <1>1, <2>1, <2>3, GoingOnKeepsRead
<1>4. CASE ~Loads(active, entry)
  <2>1. Fails("failed", "manifest")
    BY <1>4 DEF Script, entry
  <2>2. changes = 0 => ~Validated(host.doc)
    BY <1>1, <1>2, <1>4, ValidStarts
  <2> QED
    BY <1>1, <2>1, <2>2, LaterFailureKeepsRead
<1> QED
  BY <1>3, <1>4

\* The third reading.
LEMMA CreateKeepsRead == ReadInv /\ Create => ReadInv'
<1> SUFFICES ASSUME ReadInv, Create PROVE ReadInv'
  OBVIOUS
<1> DEFINE doc == Root(disk, inv.target, None)
           entry == PyEntry(PyLevel(doc, EnvKey), cmd.cap)
<1>1. stage = "create" /\ HostChose /\ cmd.cap \in Caps /\ changes \in Nat
      /\ (changes = 0 => /\ active = host.doc /\ Reads(host.doc)
                         /\ inv.target = PyTarget(cmd.ref, disk))
  BY DEF Create, ReadInv, InVenv, Seen, FirstRead, SecondRead
<1>2. changes = 0 /\ SamePlace => doc = host.doc /\ entry = Made
  BY <1>1, RootIsHosts DEF InVenv, Made
<1> HIDE DEF doc, entry
<1>3. CASE Reads(doc) /\ Loads(doc, entry)
  <2>1. /\ \E l, r : ran' = [NoRun EXCEPT !.entry = entry, !.load = l, !.rest = r]
        /\ stage' = "running" /\ UNCHANGED <<cmd, host, inv, active, data>>
    BY <1>3 DEF Create, doc, entry
  <2>2. ran'.entry = entry
    BY <2>1 DEF NoRun
  <2>3. SamePlace' <=> SamePlace
    BY <2>1 DEF SamePlace, data
  <2>4. changes = 0 => SecondRead' /\ ThirdRead'
    BY <1>1, <1>2, <2>1, <2>2, <2>3, ChoiceKept DEF SecondRead, ThirdRead, Reads
  <2> QED
    BY <1>1, <2>1, <2>4, GoingOnKeepsRead
<1>4. CASE ~(Reads(doc) /\ Loads(doc, entry))
  <2>1. Fails("failed", "manifest")
    BY <1>4 DEF Create, doc, entry
  <2>2. changes = 0 /\ SamePlace => ~Validated(host.doc)
    BY <1>1, <1>2, <1>4, ValidStarts
  <2> QED
    BY <1>1, <2>1, <2>2, LaterFailureKeepsRead
<1> QED
  BY <1>3, <1>4

\* No step breaks it.
LEMMA ReadStep == ReadInv /\ [Next]_vars => ReadInv'
<1> SUFFICES ASSUME ReadInv, [Next]_vars PROVE ReadInv'
  OBVIOUS
<1>1. CASE Begin
  <2>1. PICK i \in Inputs, cap \in Caps, v \in Variants :
           /\ disk' = i.disk
           /\ cmd' = [cap |-> cap, ref |-> [i.ref EXCEPT !.at = v], tail |-> i.tail]
    BY <1>1 DEF Begin
  <2>2. IsDisk(disk') /\ cmd'.cap \in Caps
    BY <2>1, InputsFit
  <2>3. stage' = "host" /\ changes' = changes
    BY <1>1 DEF Begin
  <2> QED
    BY <2>2, <2>3 DEF ReadInv, InVenv
<1>2. CASE End
  <2>1. cmd' = NoCmd /\ changes' = 0 /\ disk' = NoDisk /\ stage' = "idle"
    BY <1>2 DEF End
  <2>2. cmd'.cap \in Caps /\ IsDisk(disk')
    BY <2>1 DEF NoCmd, Caps, NoDisk, IsDisk
  <2> QED
    BY <2>1, <2>2 DEF ReadInv, InVenv
<1>3. CASE Publish
  <2>1. PICK index \in Upstream : Change(disk, index)
    BY <1>3 DEF Publish
  <2> QED
    BY <2>1, ChangeKeepsRead DEF ReadInv
<1>4. CASE Sync
  <2>1. PICK doc, d : d = [disk EXCEPT !.tree = doc, !.root = "tree"] /\ Change(d, hub)
    BY <1>4 DEF Sync
  <2>2. IsDisk(d)
    BY <2>1 DEF ReadInv, IsDisk
  <2> QED
    BY <2>1, <2>2, ChangeKeepsRead
<1>5. CASE Clean
  <2>1. IsDisk([disk EXCEPT !.tree = NoTree])
    BY DEF ReadInv, IsDisk
  <2> QED
    BY <1>5, <2>1, ChangeKeepsRead DEF Clean
<1>6. CASE Edit
  <2>1. PICK d : Change([disk EXCEPT !.here = d], hub)
    BY <1>6 DEF Edit
  <2>2. IsDisk([disk EXCEPT !.here = d])
    BY DEF ReadInv, IsDisk
  <2> QED
    BY <2>1, <2>2, ChangeKeepsRead
<1>7. CASE UNCHANGED vars
  <2>1. UNCHANGED <<cmd, host, inv, active, ran, disk, changes, stage>>
    BY <1>7 DEF vars
  <2>2. ReadInv' <=> ReadInv
    BY <2>1, ChoiceKept DEF ReadInv, Still, SamePlace, Seen, FirstRead, SecondRead, ThirdRead,
       FailsForArguments, Reads, IsDisk
  <2> QED
    BY <2>2
<1> QED
  BY <1>1, <1>2, <1>3, <1>4, <1>5, <1>6, <1>7, HostKeepsRead, ParseKeepsRead,
     ActivateKeepsRead, ScriptKeepsRead, CreateKeepsRead DEF Next

\* What runs, when nothing changed meanwhile, is what the host chose.
LEMMA ReadGivesChoice == ReadInv => StartsWhatHostChose
<1> SUFFICES ASSUME ReadInv, stage = "running", Steady
             PROVE  ran.entry = host.entry /\ inv.mode = host.entry.mode
  BY DEF StartsWhatHostChose
<1>1. HostChose /\ Seen /\ cmd.cap \in Caps /\ SamePlace /\ Plain(host.doc)
  BY DEF ReadInv, InVenv, Steady, SamePlace
<1>2. ran.entry = Made /\ inv.mode = Made.mode
  BY <1>1 DEF Seen, FirstRead, SecondRead, ThirdRead
<1>3. Made = host.entry
  BY <1>1, VenvMakesHostEntry DEF HostChose, Made
<1> QED
  BY <1>2, <1>3

\* What fails, when nothing changed meanwhile, was not validated.
LEMMA ReadGivesStart == ReadInv => ValidBundleStarts
<1> SUFFICES ASSUME ReadInv, stage = "failed", Steady, GoValidates(host.doc), OwnFlags,
                    \A e \in GoEntries(host.doc, GoLevel(host.doc, EnvKey)) : NativeFits(e)
             PROVE  ran.why = "arguments"
  BY DEF ValidBundleStarts
<1>1. HostChose /\ Seen /\ SamePlace /\ Plain(host.doc) /\ cmd.cap \in Caps
  BY DEF ReadInv, InVenv, Steady, SamePlace
<1>2. Validated(host.doc)
  BY <1>1 DEF Validated, HostChose
<1>3. EngineFits
  <2>1. Made = host.entry
    BY <1>1, VenvMakesHostEntry DEF HostChose, Made
  <2> QED
    BY <2>1 DEF OwnFlags, EngineFits
<1> QED
  BY <1>1, <1>2, <1>3 DEF Seen, FailsForArguments

\* The venv starts the entry, in the mode, for which the host started the venv:
\* for all documents, variants, environments, refs and interleavings.
THEOREM StartsWhatHostChoseHolds == Spec => []StartsWhatHostChose
<1>1. Spec => []ReadInv
  BY ReadInit, ReadStep, PTL DEF Spec
<1> QED
  BY <1>1, ReadGivesChoice, PTL

\* A bundle that `bundle validate` accepts is refused in the venv for its
\* arguments only, or for flags that are not its own.
THEOREM ValidBundleStartsHolds == Spec => []ValidBundleStarts
<1>1. Spec => []ReadInv
  BY ReadInit, ReadStep, PTL DEF Spec
<1> QED
  BY <1>1, ReadGivesStart, PTL

-----------------------------------------------------------------------------
(* The arguments, read by the host token by token and by the venv at once. *)

\* A nonempty set of numbers has a least one.
LEMMA LeastNumber ==
    ASSUME NEW T, T \subseteq Nat, T # {}
    PROVE  \E x \in T : \A y \in T : x <= y
<1>1. IsWellFoundedOn(OpToRel(<, Nat), Nat)
  BY NatLessThanWellFounded
<1>2. PICK x \in T : \A y \in T : ~ (<<y, x>> \in OpToRel(<, Nat))
  BY <1>1, WFMin
<1>3. \A a, b \in Nat : b < a => <<b, a>> \in OpToRel(<, Nat)
  BY DEF OpToRel
<1>4. ASSUME NEW y \in T PROVE x <= y
  <2>1. x \in Nat /\ y \in Nat
    OBVIOUS
  <2>2. ~(y < x)
    BY <1>2, <1>3, <2>1
  <2> QED
    BY <2>1, <2>2
<1> QED
  BY <1>4

\* The host's scan of the first n tokens.
IsScan(f, tail, n) ==
    f = [i \in 0 .. n |-> IF i = 0 THEN Unpeeled ELSE GoToken(f[i - 1], tail, i)]

\* There is one: a shortest stretch without a scan would be one token longer than
\* one with a scan.
LEMMA ScanExists ==
    ASSUME NEW tail, NEW n \in Nat
    PROVE  \E f : IsScan(f, tail, n)
<1> DEFINE T == {m \in Nat : ~ \E f : IsScan(f, tail, m)}
<1> SUFFICES ASSUME T # {} PROVE FALSE
  OBVIOUS
<1>1. PICK m \in T : \A k \in T : m <= k
  BY LeastNumber
<1>2. m # 0
  <2> DEFINE f == [i \in 0 .. 0 |-> Unpeeled]
  <2>1. \A i \in 0 .. 0 : i = 0
    OBVIOUS
  <2>2. f = [i \in 0 .. 0 |-> IF i = 0 THEN Unpeeled ELSE GoToken(f[i - 1], tail, i)]
    BY <2>1
  <2>3. \E g : IsScan(g, tail, 0)
    BY <2>2 DEF IsScan
  <2> QED
    BY <1>1, <2>3
<1>3. m - 1 \in Nat /\ m - 1 \notin T
  BY <1>1, <1>2
<1>4. PICK f : IsScan(f, tail, m - 1)
  BY <1>3
<1> DEFINE g == [i \in 0 .. m |-> IF i = m THEN GoToken(f[m - 1], tail, m) ELSE f[i]]
<1>5. ASSUME NEW i \in 0 .. m
      PROVE  g[i] = IF i = 0 THEN Unpeeled ELSE GoToken(g[i - 1], tail, i)
  <2>1. CASE i = m
    BY <1>2, <1>3, <2>1
  <2>2. CASE i # m
    <3>1. i \in 0 .. (m - 1) /\ g[i] = f[i]
      BY <1>3, <2>2
    <3>2. i # 0 => g[i - 1] = f[i - 1]
      BY <1>3, <2>2
    <3>3. f[i] = IF i = 0 THEN Unpeeled ELSE GoToken(f[i - 1], tail, i)
      BY <1>4, <3>1, Zenon DEF IsScan
    <3> QED
      BY <3>1, <3>2, <3>3
  <2> QED
    BY <2>1, <2>2
<1>6. IsScan(g, tail, m)
  <2> DEFINE h == [i \in 0 .. m |-> IF i = 0 THEN Unpeeled ELSE GoToken(g[i - 1], tail, i)]
  <2>1. \A i \in 0 .. m : g[i] = h[i]
    BY <1>5
  <2>2. g = h
    BY <2>1
  <2> QED
    BY <2>2, Zenon DEF IsScan
<1> QED
  BY <1>1, <1>6

\* peelHostFlags is such a scan.
LEMMA PeelIsScan ==
    ASSUME NEW tail \in Seq(STRING)
    PROVE  \E f : IsScan(f, tail, Len(tail)) /\ GoPeel(tail) = f[Len(tail)]
<1> DEFINE scan == CHOOSE f : IsScan(f, tail, Len(tail))
<1>1. IsScan(scan, tail, Len(tail))
  BY ScanExists
<1>2. GoPeel(tail) = scan[Len(tail)]
  BY Zenon DEF GoPeel, IsScan
<1> QED
  BY <1>1, <1>2

\* The tokens after a flag, and after any.
Followers(tail, i, f) == {j \in 2 .. i : tail[j - 1] = f}
Behind(tail, i) == {j \in 2 .. i : tail[j - 1] \in ValueFlags}

\* The tokens that give a flag its value, and which one the last of them gives.
Givers(tail, i, f) == {j \in 1 .. i : tail[j] = Assigned[f]} \cup Followers(tail, i, f)
LastOf(G, tail, f) ==
    IF G = {} THEN None
    ELSE LET last == CHOOSE j \in G : \A k \in G : k <= j
         IN  IF tail[last] = Assigned[f] THEN "B" ELSE tail[last]
Last(tail, i, f) == LastOf(Givers(tail, i, f), tail, f)

\* What the host knows after i tokens.
HostGiven(tail, i) == [f \in ValueFlags |-> Last(tail, i, f)]
Owned(tail, i) == {j \in 1 .. i : tail[j] \in Flags} \cup Behind(tail, i)
Awaits(tail, i) == IF i > 0 /\ tail[i] \in ValueFlags THEN tail[i] ELSE None
Knows(tail, i) ==
    [given |-> HostGiven(tail, i), expects |-> Awaits(tail, i), own |-> Owned(tail, i)]

\* Without tokens there is nothing to know.
LEMMA KnowsNothing ==
    ASSUME NEW tail
    PROVE  Knows(tail, 0) = Unpeeled
<1>1. ASSUME NEW f \in ValueFlags PROVE Last(tail, 0, f) = None
  <2>1. Givers(tail, 0, f) = {}
    BY DEF Givers, Followers
  <2> QED
    BY <2>1, Zenon DEF Last, LastOf
<1>2. HostGiven(tail, 0) = NoValue
  BY <1>1 DEF HostGiven, NoValue
<1>3. Awaits(tail, 0) = None
  BY DEF Awaits
<1>4. Owned(tail, 0) = {}
  BY DEF Owned, Behind
<1> QED
  BY <1>2, <1>3, <1>4, Zenon DEF Knows, Unpeeled

\* The last of the tokens that give a value, once the next one gives one.
LEMMA LastGiver ==
    ASSUME NEW tail, NEW f, NEW i \in Nat \ {0}, i \in Givers(tail, i, f)
    PROVE  Last(tail, i, f) = IF tail[i] = Assigned[f] THEN "B" ELSE tail[i]
<1>1. Givers(tail, i, f) \subseteq 1 .. i
  BY DEF Givers, Followers
<1> DEFINE last == CHOOSE j \in Givers(tail, i, f) : \A k \in Givers(tail, i, f) : k <= j
<1>2. \A k \in Givers(tail, i, f) : k <= i
  BY <1>1
<1>3. last \in Givers(tail, i, f) /\ \A k \in Givers(tail, i, f) : k <= last
  BY <1>2
<1>4. last = i
  BY <1>1, <1>2, <1>3
<1>5. Last(tail, i, f) = IF tail[last] = Assigned[f] THEN "B" ELSE tail[last]
  <2>1. Givers(tail, i, f) # {}
    OBVIOUS
  <2> QED
    BY <2>1, Zenon DEF Last, LastOf
<1> HIDE DEF last
<1> QED
  BY <1>4, <1>5, Zenon

\* What a token changes of the value of a flag.
LEMMA TokenGives ==
    ASSUME NEW tail, NEW f \in ValueFlags, NEW i \in Nat \ {0}
    PROVE  Last(tail, i, f) =
             IF tail[i] = Assigned[f] THEN "B"
             ELSE IF i > 1 /\ tail[i - 1] = f THEN tail[i]
             ELSE Last(tail, i - 1, f)
<1>1. i - 1 \in Nat
  OBVIOUS
<1>2. i \in Givers(tail, i, f) <=> tail[i] = Assigned[f] \/ (i > 1 /\ tail[i - 1] = f)
  BY <1>1 DEF Givers, Followers
<1>3. CASE i \in Givers(tail, i, f)
  BY <1>2, <1>3, LastGiver
<1>4. CASE i \notin Givers(tail, i, f)
  <2>1. Givers(tail, i, f) = Givers(tail, i - 1, f)
    BY <1>1, <1>4 DEF Givers, Followers
  <2>2. Last(tail, i, f) = Last(tail, i - 1, f)
    BY <2>1 DEF Last
  <2> QED
    BY <1>2, <1>4, <2>2
<1> QED
  BY <1>3, <1>4

\* What it changes of the tokens that are the host's.
LEMMA TokenOwned ==
    ASSUME NEW tail, NEW i \in Nat \ {0}
    PROVE  Owned(tail, i) = Owned(tail, i - 1)
             \cup (IF tail[i] \in Flags \/ (i > 1 /\ tail[i - 1] \in ValueFlags) THEN {i} ELSE {})
BY DEF Owned, Behind

\* The flags are different from each other, from words and from nothing.
LEMMA FlagsDiffer ==
    /\ "A" \notin Flags /\ None \notin ValueFlags
    /\ Range(Assigned) = {"--checkpoint=B", "--mtp-checkpoint=B"}
    /\ \A f \in ValueFlags : Assigned[f] \notin ValueFlags \cup Switches /\ f \notin Switches
    /\ \A f \in ValueFlags : "A" # Assigned[f]
<1>1. Range(Assigned) = {Assigned["--checkpoint"], Assigned["--mtp-checkpoint"]}
  BY DEF Range, Assigned, ValueFlags
<1>2. Range(Assigned) = {"--checkpoint=B", "--mtp-checkpoint=B"}
  BY <1>1 DEF Assigned, ValueFlags
<1> QED
  BY <1>2 DEF Flags, ValueFlags, Switches, Assigned, None

\* When every flag has its value, one token adds what it should.
LEMMA TokenAdds ==
    ASSUME NEW tail \in Seq(STRING), ValuesGiven(tail), NEW i \in 1 .. Len(tail)
    PROVE  GoToken(Knows(tail, i - 1), tail, i) = Knows(tail, i)
<1> DEFINE was == Knows(tail, i - 1)
<1>1. i \in Nat \ {0} /\ i - 1 \in Nat /\ Len(tail) \in Nat
  OBVIOUS
<1>2. PICK t : t = tail[i]
  OBVIOUS
<1>3. PICK g, x, o : /\ g = HostGiven(tail, i - 1) /\ x = Awaits(tail, i - 1) /\ o = Owned(tail, i - 1)
                     /\ was = [given |-> g, expects |-> x, own |-> o]
  BY DEF Knows
<1>4. /\ x \in ValueFlags <=> i > 1 /\ tail[i - 1] \in ValueFlags
      /\ x \in ValueFlags => x = tail[i - 1]
      /\ x \notin ValueFlags => x = None
  BY <1>1, <1>3, FlagsDiffer DEF Awaits
<1>5. x \in ValueFlags => t = "A"
  <2> SUFFICES ASSUME x \in ValueFlags PROVE t = "A"
    OBVIOUS
  <2>1. i - 1 \in 1 .. Len(tail) /\ tail[i - 1] = x
    BY <1>1, <1>4
  <2>2. (i - 1) + 1 \in Taken(tail, x)
    BY <2>1 DEF ValuesGiven
  <2> QED
    BY <1>1, <1>2, <2>2 DEF Taken, Word
<1>6. t \in ValueFlags => i < Len(tail)
  <2> SUFFICES ASSUME t \in ValueFlags PROVE i < Len(tail)
    OBVIOUS
  <2>1. i + 1 \in Taken(tail, t)
    BY <1>2 DEF ValuesGiven
  <2> QED
    BY <1>1, <2>1 DEF Taken
<1>7. Awaits(tail, i) = IF t \in ValueFlags THEN t ELSE None
  BY <1>1, <1>2 DEF Awaits
<1>8. Owned(tail, i) = o \cup (IF t \in Flags \/ x \in ValueFlags THEN {i} ELSE {})
  BY <1>1, <1>2, <1>3, <1>4, TokenOwned
<1>9. \A f \in ValueFlags : HostGiven(tail, i)[f] =
         IF t = Assigned[f] THEN "B" ELSE IF x \in ValueFlags /\ x = f THEN t ELSE g[f]
  <2> SUFFICES ASSUME NEW f \in ValueFlags
               PROVE  HostGiven(tail, i)[f] =
                        IF t = Assigned[f] THEN "B" ELSE IF x \in ValueFlags /\ x = f THEN t ELSE g[f]
    OBVIOUS
  <2>1. HostGiven(tail, i)[f] = Last(tail, i, f) /\ g[f] = Last(tail, i - 1, f)
    BY <1>3 DEF HostGiven
  <2> QED
    BY <1>1, <1>2, <1>4, <2>1, TokenGives
<1>10. Knows(tail, i) = [given |-> HostGiven(tail, i), expects |-> Awaits(tail, i), own |-> Owned(tail, i)]
  BY DEF Knows
<1>11. /\ g = [f \in ValueFlags |-> g[f]]
       /\ HostGiven(tail, i) = [f \in ValueFlags |-> HostGiven(tail, i)[f]]
  BY <1>3 DEF HostGiven
<1>12. PICK v, w : v = HostGiven(tail, i) /\ w = was
  OBVIOUS
<1>13. w.given = g /\ w.expects = x /\ w.own = o /\ w = [given |-> g, expects |-> x, own |-> o]
  BY <1>3, <1>12
<1>14. t \in ValueFlags \/ t \in Range(Assigned) \/ t \in Switches <=> t \in Flags
  BY DEF Flags
<1> HIDE DEF was
<1>15. CASE x \in ValueFlags
  <2>1. t \notin Flags /\ \A f \in ValueFlags : t # Assigned[f]
    BY <1>5, <1>15, FlagsDiffer
  <2>2. v = [g EXCEPT ![x] = t]
    BY <1>9, <1>11, <1>12, <1>15, <2>1
  <2>3. GoToken(w, tail, i) = [given |-> [g EXCEPT ![x] = t], expects |-> None, own |-> o \cup {i}]
    BY <1>2, <1>13, <1>15 DEF GoToken
  <2>4. t \notin ValueFlags
    BY <1>14, <2>1
  <2>5. Knows(tail, i) = [given |-> [g EXCEPT ![x] = t], expects |-> None, own |-> o \cup {i}]
    BY <1>7, <1>8, <1>10, <1>12, <1>15, <2>2, <2>4, Zenon
  <2> QED
    BY <1>12, <2>3, <2>5, Zenon DEF was
<1>16. CASE x \notin ValueFlags /\ t \in ValueFlags
  <2>1. \A f \in ValueFlags : t # Assigned[f]
    BY <1>16, FlagsDiffer
  <2>2. v = g
    BY <1>9, <1>11, <1>12, <1>16, <2>1
  <2>3. t \notin Range(Assigned) /\ t \notin Switches /\ t \in Flags
    BY <1>14, <1>16, FlagsDiffer DEF ValueFlags, Switches
  <2>4. GoToken(w, tail, i) = [w EXCEPT !.expects = IF i < Len(tail) THEN t ELSE None, !.own = w.own \cup {i}]
    BY <1>2, <1>13, <1>16, <2>3, Zenon DEF GoToken
  <2>5. GoToken(w, tail, i) = [given |-> g, expects |-> t, own |-> o \cup {i}]
    <3>1. (IF i < Len(tail) THEN t ELSE None) = t
      BY <1>6, <1>16
    <3>2. GoToken(w, tail, i) = [w EXCEPT !.expects = t, !.own = o \cup {i}]
      BY <1>13, <2>4, <3>1, Zenon
    <3> QED
      BY <1>13, <3>2
  <2>6. Awaits(tail, i) = t /\ Owned(tail, i) = o \cup {i}
    BY <1>7, <1>8, <1>16, <2>3
  <2> QED
    BY <1>10, <1>12, <2>2, <2>5, <2>6, Zenon DEF was
<1>17. CASE x \notin ValueFlags /\ t \in Range(Assigned)
  <2>1. t \notin ValueFlags /\ t \notin Switches
    BY <1>17, FlagsDiffer DEF ValueFlags, Switches
  <2>2. v = [f \in ValueFlags |-> IF Assigned[f] = t THEN "B" ELSE g[f]]
    BY <1>9, <1>11, <1>12, <1>17
  <2>3. GoToken(w, tail, i) =
          [w EXCEPT !.given = [f \in ValueFlags |-> IF Assigned[f] = t THEN "B" ELSE g[f]],
                    !.own = o \cup {i}]
    BY <1>2, <1>13, <1>14, <1>17, <2>1 DEF GoToken
  <2>4. GoToken(w, tail, i) = [given |-> v, expects |-> x, own |-> o \cup {i}]
    BY <1>13, <2>2, <2>3
  <2>5. Awaits(tail, i) = None /\ Owned(tail, i) = o \cup {i} /\ x = None
    BY <1>4, <1>7, <1>8, <1>14, <1>17, <2>1
  <2> QED
    BY <1>10, <1>12, <2>4, <2>5, Zenon DEF was
<1>18. CASE x \notin ValueFlags /\ t \notin ValueFlags /\ t \notin Range(Assigned)
  <2>1. \A f \in ValueFlags : t # Assigned[f]
    BY <1>18, FlagsDiffer DEF ValueFlags, Assigned
  <2>2. v = g
    BY <1>9, <1>11, <1>12, <1>18, <2>1
  <2>3. CASE t \in Switches
    <3>1. GoToken(w, tail, i) = [w EXCEPT !.own = o \cup {i}]
      BY <1>2, <1>13, <1>14, <1>18, <2>3 DEF GoToken
    <3>2. GoToken(w, tail, i) = [given |-> g, expects |-> x, own |-> o \cup {i}]
      BY <1>13, <3>1
    <3>3. Awaits(tail, i) = None /\ Owned(tail, i) = o \cup {i} /\ x = None
      BY <1>4, <1>7, <1>8, <1>14, <1>18, <2>3
    <3> QED
      BY <1>10, <1>12, <2>2, <3>2, <3>3, Zenon DEF was
  <2>4. CASE t \notin Switches
    <3>1. GoToken(w, tail, i) = w
      BY <1>2, <1>13, <1>14, <1>18, <2>4 DEF GoToken
    <3> QED
      BY <1>4, <1>7, <1>8, <1>10, <1>12, <1>13, <1>14, <1>18, <2>2, <2>4, <3>1
  <2> QED
    BY <2>3, <2>4
<1> QED
  BY <1>12, <1>15, <1>16, <1>17, <1>18 DEF was

\* So after every token the host knows what it should: the first token after which
\* it does not would have been added wrongly.
LEMMA PeelKnows ==
    ASSUME NEW tail \in Seq(STRING), ValuesGiven(tail)
    PROVE  GoPeel(tail) = Knows(tail, Len(tail))
<1>1. PICK f : IsScan(f, tail, Len(tail)) /\ GoPeel(tail) = f[Len(tail)]
  BY PeelIsScan
<1>2. \A i \in 0 .. Len(tail) : f[i] = IF i = 0 THEN Unpeeled ELSE GoToken(f[i - 1], tail, i)
  BY <1>1, Zenon DEF IsScan
<1> DEFINE T == {i \in 0 .. Len(tail) : f[i] # Knows(tail, i)}
<1>3. T = {}
  <2> SUFFICES ASSUME T # {} PROVE FALSE
    OBVIOUS
  <2>1. PICK m \in T : \A k \in T : m <= k
    <3>1. T \subseteq Nat
      OBVIOUS
    <3> HIDE DEF T
    <3> QED
      BY <3>1, LeastNumber
  <2>2. m # 0
    BY <1>2, <2>1, KnowsNothing
  <2>3. m - 1 \in 0 .. Len(tail) /\ m \in 1 .. Len(tail) /\ m - 1 \notin T
    BY <2>1, <2>2
  <2>4. f[m - 1] = Knows(tail, m - 1)
    BY <2>3
  <2>5. f[m] = Knows(tail, m)
    BY <1>2, <2>2, <2>3, <2>4, TokenAdds
  <2> QED
    BY <2>1, <2>5
<1>4. Len(tail) \in 0 .. Len(tail)
  OBVIOUS
<1> QED
  BY <1>1, <1>3, <1>4

\* The host and the venv agree on the value of a flag that is not abbreviated.
LEMMA SameValues ==
    ASSUME NEW tail \in Seq(STRING), ValuesGiven(tail),
           NEW f \in ValueFlags, Abbreviation[f] \notin Range(tail)
    PROVE  GoPeel(tail).given[f] = ValueOf(tail, f)
<1> DEFINE n == Len(tail)
           giving == {i \in 1 .. n : tail[i] = Assigned[f] \/ i \in Taken(tail, f)}
<1>1. Taken(tail, f) = Followers(tail, n, f)
  <2>1. \A i \in 1 .. n : tail[i] # Abbreviation[f]
    BY DEF Range
  <2>2. n \in Nat
    OBVIOUS
  <2>3. ASSUME NEW j \in 2 .. n, tail[j - 1] = f PROVE Word(tail[j])
    <3>1. (j - 1) + 1 \in Taken(tail, f)
      BY <2>2, <2>3 DEF ValuesGiven
    <3> QED
      BY <2>2, <3>1 DEF Taken
  <2>4. \A j \in 2 .. n : tail[j - 1] \in {f, Abbreviation[f]} <=> tail[j - 1] = f
    BY <2>1, <2>2
  <2> QED
    BY <2>3, <2>4 DEF Taken, Followers
<1>2. Givers(tail, n, f) = giving
  BY <1>1 DEF Givers, Followers
<1>3. Last(tail, n, f) = ValueOf(tail, f)
  <2> DEFINE By(G) == IF G = {} THEN None
                      ELSE LET last == CHOOSE i \in G : \A j \in G : j <= i
                           IN  IF tail[last] = Assigned[f] THEN "B" ELSE tail[last]
  <2>1. Last(tail, n, f) = By(Givers(tail, n, f))
    BY Zenon DEF Last, LastOf
  <2>2. ValueOf(tail, f) = By(giving)
    BY Zenon DEF ValueOf
  <2> HIDE DEF By, giving
  <2> QED
    BY <1>2, <2>1, <2>2
<1>4. GoPeel(tail).given = HostGiven(tail, n)
  BY PeelKnows DEF Knows
<1>5. HostGiven(tail, n)[f] = Last(tail, n, f)
  BY DEF HostGiven
<1> QED
  BY <1>3, <1>4, <1>5

\* A script gets what the host left, and the flags nothing strips.
LEMMA SameScript ==
    ASSUME NEW tail \in Seq(STRING), ValuesGiven(tail)
    PROVE  StripHostFlags(tail) = Kept(tail, GoPeel(tail).own \ Unstripped(tail))
<1> DEFINE n == Len(tail)
           S == {i \in 1 .. n : tail[i] \in StrippedFlags}
                  \cup {i \in 2 .. n : tail[i - 1] = "--checkpoint" /\ (Word(tail[i]) \/ tail[i] = "-q")}
<1>1. n \in Nat
  OBVIOUS
<1>2. GoPeel(tail).own = Owned(tail, n)
  BY PeelKnows DEF Knows
<1>3. ASSUME NEW i \in 2 .. n, tail[i - 1] \in ValueFlags PROVE tail[i] = "A"
  <2>1. (i - 1) + 1 \in Taken(tail, tail[i - 1])
    BY <1>1, <1>3 DEF ValuesGiven
  <2> QED
    BY <1>1, <2>1 DEF Taken, Word
<1>4. "A" \notin Flags /\ StrippedFlags \subseteq Flags
  BY FlagsDiffer DEF StrippedFlags, Flags, ValueFlags, Switches
<1>5. \A i \in 1 .. n : i \in S <=> i \in Owned(tail, n) \ Unstripped(tail)
  <2> SUFFICES ASSUME NEW i \in 1 .. n
               PROVE  i \in S <=> i \in Owned(tail, n) \ Unstripped(tail)
    OBVIOUS
  <2>1. i \in Owned(tail, n) <=> tail[i] \in Flags \/ (i > 1 /\ tail[i - 1] \in ValueFlags)
    BY <1>1 DEF Owned, Behind
  <2>2. i \in Unstripped(tail) <=> \/ tail[i] \in Flags \ StrippedFlags
                                   \/ i > 1 /\ tail[i - 1] = "--mtp-checkpoint"
    BY <1>1 DEF Unstripped
  <2>3. i \in S <=> \/ tail[i] \in StrippedFlags
                    \/ i > 1 /\ tail[i - 1] = "--checkpoint" /\ (tail[i] = "A" \/ tail[i] = "-q")
    BY <1>1 DEF Word
  <2>4. i > 1 /\ tail[i - 1] \in ValueFlags => tail[i] = "A"
    BY <1>1, <1>3
  <2>5. tail[i - 1] \in ValueFlags <=> tail[i - 1] = "--checkpoint" \/ tail[i - 1] = "--mtp-checkpoint"
    BY DEF ValueFlags
  <2> HIDE DEF S
  <2> QED
    BY <1>4, <2>1, <2>2, <2>3, <2>4, <2>5
<1>6. S \subseteq 1 .. n /\ Owned(tail, n) \subseteq 1 .. n
  BY <1>1 DEF Owned, Behind
<1>7. S = GoPeel(tail).own \ Unstripped(tail)
  <2> HIDE DEF S
  <2> QED
    BY <1>2, <1>5, <1>6
<1>8. StripHostFlags(tail) = Kept(tail, S)
  BY Zenon DEF StripHostFlags
<1> QED
  BY <1>7, <1>8

\* The first reading gave the values of the flags, and a script's arguments.
Given ==
    stage \in {"activate", "script", "create", "running"} =>
        /\ ValuesGiven(cmd.tail) /\ inv.given = [f \in ValueFlags |-> ValueOf(cmd.tail, f)]
        /\ inv.mode = "script" => inv.argv = StripHostFlags(cmd.tail)

\* The strengthening of ArgumentsAreShared.
ArgumentInv ==
    /\ cmd.tail \in Seq(STRING)
    /\ stage \in InVenv => host.given = GoPeel(cmd.tail).given
    /\ Given

\* A step that takes command, host and invocation as they are.
LEMMA ArgumentsKept ==
    ASSUME ArgumentInv, UNCHANGED <<cmd, host, inv>>, stage \in InVenv \/ stage' \notin InVenv,
           stage' \in {"activate", "script", "create", "running"}
              => stage \in {"activate", "script", "create", "running"}
    PROVE  ArgumentInv'
BY DEF ArgumentInv, Given

\* A failure is one.
LEMMA FailureKeepsArguments ==
    ASSUME ArgumentInv, NEW why,
           Fails("host failed", why) \/ (Fails("failed", why) /\ stage \in InVenv)
    PROVE  ArgumentInv'
BY ArgumentsKept DEF Fails, InVenv

\* The host takes its flags.
LEMMA HostTakesFlags ==
    ASSUME ArgumentInv, NEW doc, HostReads(doc)
    PROVE  ArgumentInv'
<1> DEFINE entry == GoEntryFor(doc, GoLevel(doc, EnvKey), cmd.cap, Variant)
<1>1. CASE HostLoads(doc) /\ entry # NoEntry
  <2>1. /\ host' = [doc |-> doc, entry |-> entry, given |-> GoPeel(cmd.tail).given]
        /\ stage' = IF entry.kind \in Kinds \ {"python"} THEN "native" ELSE "parse"
        /\ cmd' = cmd
    BY <1>1, Zenon DEF HostReads
  <2> HIDE DEF entry
  <2>2. host'.given = GoPeel(cmd.tail).given /\ stage' \in {"native", "parse"}
    BY <2>1
  <2> QED
    BY <2>1, <2>2 DEF ArgumentInv, Given
<1>2. CASE ~(HostLoads(doc) /\ entry # NoEntry)
  <2>1. stage' = "host failed" /\ UNCHANGED <<cmd, host, inv>>
    BY <1>2, Zenon DEF HostReads
  <2> QED
    BY <2>1, ArgumentsKept DEF InVenv
<1> QED
  BY <1>1, <1>2

\* Parsing refuses a missing value, and gives values and arguments.
LEMMA ParsedGives ==
    ASSUME ArgumentInv, stage = "parse", NEW doc, NEW target, Parsed(doc, target)
    PROVE  ArgumentInv'
<1> DEFINE entry == PyEntry(PyLevel(doc, EnvKey), cmd.cap)
           script == entry.mode = "script"
           argv == IF script THEN StripHostFlags(cmd.tail) ELSE <<>>
           given == [f \in ValueFlags |-> ValueOf(cmd.tail, f)]
<1>1. CASE stage' = "failed" /\ UNCHANGED <<cmd, host, inv>>
  BY <1>1, ArgumentsKept DEF InVenv
<1>2. CASE ~(stage' = "failed" /\ UNCHANGED <<cmd, host, inv>>)
  <2>1. /\ stage' = "activate" /\ UNCHANGED <<cmd, host>>
        /\ \E o, v : inv' = [doc |-> doc, target |-> target, mode |-> entry.mode, options |-> o,
                             values |-> v, argv |-> argv, given |-> given]
    BY <1>2, Zenon DEF Parsed
  <2>2. ValuesGiven(cmd.tail)
    <3>1. IF script THEN ValuesGiven(cmd.tail)
          ELSE Parses(cmd.tail, cmd.cap, PyOptions(doc, EnvKey, Variant, cmd.cap))
      BY <1>2, Zenon DEF Parsed
    <3> HIDE DEF script
    <3> QED
      BY <3>1 DEF Parses
  <2>3. inv'.given = given /\ inv'.argv = argv /\ inv'.mode = entry.mode
    <3> HIDE DEF entry, argv, given
    <3> QED
      BY <2>1
  <2>4. inv'.mode = "script" => inv'.argv = StripHostFlags(cmd.tail)
    BY <2>3
  <2> QED
    BY <2>1, <2>2, <2>3, <2>4 DEF ArgumentInv, Given, InVenv
<1> QED
  BY <1>1, <1>2

\* Between two commands nothing was given.
LEMMA ArgumentInit == Init => ArgumentInv
BY DEF Init, NoCmd, ArgumentInv, Given, InVenv

\* No step breaks it.
LEMMA ArgumentStep == ArgumentInv /\ [Next]_vars => ArgumentInv'
<1> SUFFICES ASSUME ArgumentInv, [Next]_vars PROVE ArgumentInv'
  OBVIOUS
<1>1. CASE Begin
  <2>1. PICK i \in Inputs, cap \in Caps, v \in Variants :
           cmd' = [cap |-> cap, ref |-> [i.ref EXCEPT !.at = v], tail |-> i.tail]
    BY <1>1 DEF Begin
  <2>2. cmd'.tail \in Seq(STRING)
    BY <2>1, InputsFit
  <2>3. stage' = "host"
    BY <1>1 DEF Begin
  <2> QED
    BY <2>2, <2>3 DEF ArgumentInv, Given, InVenv
<1>2. CASE Host
  <2>1. (\E d : HostReads(d)) \/ (\E w : Fails("host failed", w))
    BY <1>2 DEF Host
  <2> QED
    BY <2>1, HostTakesFlags, FailureKeepsArguments
<1>3. CASE Parse
  <2>1. stage = "parse" /\ stage \in InVenv
    BY <1>3 DEF Parse, InVenv
  <2>2. (\E d, t : Parsed(d, t)) \/ Fails("failed", "manifest")
          \/ (stage' = "failed" /\ UNCHANGED <<cmd, host, inv>>)
    BY <1>3 DEF Parse
  <2> QED
    BY <2>1, <2>2, ParsedGives, FailureKeepsArguments, ArgumentsKept
<1>4. CASE Activate \/ Script \/ Create
  <2>1. stage \in {"activate", "script", "create"} /\ UNCHANGED <<cmd, host, inv>>
    BY <1>4 DEF Activate, Script, Create, Fails
  <2> QED
    BY <2>1, ArgumentsKept DEF InVenv
<1>5. CASE End
  <2>1. cmd' = NoCmd /\ stage' = "idle"
    BY <1>5 DEF End
  <2> QED
    BY <2>1 DEF NoCmd, ArgumentInv, Given, InVenv
<1>6. CASE Publish \/ Sync \/ Clean \/ Edit
  <2>1. UNCHANGED <<stage, cmd, host, inv>>
    BY <1>6 DEF Publish, Sync, Clean, Edit, Change
  <2> QED
    BY <2>1, ArgumentsKept
<1>7. CASE UNCHANGED vars
  BY <1>7, ArgumentsKept DEF vars
<1> QED
  BY <1>1, <1>2, <1>3, <1>4, <1>5, <1>6, <1>7 DEF Next

\* What was given is shared.
LEMMA ArgumentsGiveSharing == ArgumentInv => ArgumentsAreShared
<1> SUFFICES ASSUME ArgumentInv, stage = "running"
             PROVE  /\ \A f \in ValueFlags : Abbreviation[f] \notin Range(cmd.tail) => inv.given[f] = host.given[f]
                    /\ inv.mode = "script" =>
                          inv.argv = Kept(cmd.tail, GoPeel(cmd.tail).own \ Unstripped(cmd.tail))
  BY DEF ArgumentsAreShared
<1>1. /\ cmd.tail \in Seq(STRING) /\ ValuesGiven(cmd.tail)
      /\ inv.given = [f \in ValueFlags |-> ValueOf(cmd.tail, f)]
      /\ host.given = GoPeel(cmd.tail).given
      /\ inv.mode = "script" => inv.argv = StripHostFlags(cmd.tail)
  BY DEF ArgumentInv, Given, InVenv
<1>2. ASSUME NEW f \in ValueFlags, Abbreviation[f] \notin Range(cmd.tail)
      PROVE  inv.given[f] = host.given[f]
  BY <1>1, <1>2, SameValues
<1>3. inv.mode = "script" => inv.argv = Kept(cmd.tail, GoPeel(cmd.tail).own \ Unstripped(cmd.tail))
  BY <1>1, SameScript
<1> QED
  BY <1>2, <1>3

\* Host and venv make the same of the arguments: one value of each flag that is not
\* abbreviated, and a script gets what the host left and the flags nothing strips,
\* for argument lists of every length.
THEOREM ArgumentsAreSharedHolds == Spec => []ArgumentsAreShared
<1>1. Spec => []ArgumentInv
  BY ArgumentInit, ArgumentStep, PTL DEF Spec
<1> QED
  BY <1>1, ArgumentsGiveSharing, PTL
=============================================================================
