--------------------------- MODULE BundleManifest ---------------------------
(***************************************************************************)
(* flashcli-bundle.json as its two readers take it: manifest.py in the     *)
(* bundle venv, and go/internal/manifest on the host, which decides first  *)
(* and hands the command over.                                             *)
(*                                                                         *)
(* A level of the document (the top of a v3 file; the top, the defaults    *)
(* and each environment of a v4 file; a variant's block) is a function     *)
(* from the paths that are there to their values.  A list of options is    *)
(* one value: lists are never merged.                                      *)
(***************************************************************************)
EXTENDS Naturals, Sequences, FiniteSets, Functions

Caps == {"run", "serve"}
Kinds == {"python", "native-exec", "native-abi"}
Supported == 1

Get(level, path, absent) == IF path \in DOMAIN level THEN level[path] ELSE absent

NothingIn(block) == DOMAIN block = {}

-----------------------------------------------------------------------------
(* What both readers do alike.                                             *)

\* _merge_v4, merge_native_spec; mergeV4, deepMerge
Merge(base, over) ==
    [p \in DOMAIN base \cup DOMAIN over |-> IF p \in DOMAIN over THEN over[p] ELSE base[p]]

\* (mutant: an overlay replaces the blocks it touches)
MergeShallow(base, over) ==
    Merge(Restrict(base, {p \in DOMAIN base : \A q \in DOMAIN over : q[1] # p[1]}), over)

\* The top of a v4 document replaces whole blocks of its defaults.
UnderTop(defaults, top) ==
    Merge(Restrict(defaults, {p \in DOMAIN defaults : \A q \in DOMAIN top : q[1] # p[1]}), top)

NoEntry == [kind |-> "none", module |-> "none", mode |-> "engine", native |-> {}]

NativeKeys == {"library", "command"}

\* An entry that is there, given its kind: a Python entry needs its module, and
\* a mode nobody knows is the engine.
Entry(level, cap, kind) ==
    LET module == Get(level, <<"entry", cap, "module">>, "none")
        declared == \E p \in DOMAIN level : Len(p) > 2 /\ p[1] = "entry" /\ p[2] = cap
    IN  IF ~declared \/ (kind = "python" /\ module = "none") THEN NoEntry
        ELSE [kind |-> kind, module |-> module,
              mode |-> IF Get(level, <<"entry", cap, "mode">>, "engine") = "script"
                       THEN "script" ELSE "engine",
              native |-> {k \in NativeKeys :
                            {<<"entry", "native", k>>, <<"entry", cap, "native", k>>}
                              \cap DOMAIN level # {}}]

\* entry.kind; blank and absent are Python
TopKind(level) ==
    LET kind == Get(level, <<"entry", "kind">>, "python")
    IN  IF kind = "blank" THEN "python" ELSE kind

\* bundle_runtime_abi_version, bundle_exec_protocol_version; 0 where absent
Axis(level, name) == Get(level, <<name>>, 0)

\* A native version axis is there, and right, exactly with an entry of its kind.
AxesFit(kinds, level) ==
    /\ Axis(level, "runtime_abi_version") = IF "native-abi" \in kinds THEN Supported ELSE 0
    /\ Axis(level, "exec_protocol_version") = IF "native-exec" \in kinds THEN Supported ELSE 0

ProtocolFits(level) == Get(level, <<"protocol_version">>, 0) = Supported

\* What a native entry of this kind must declare.
NativeFits(entry) ==
    /\ entry.kind = "native-exec" => "command" \in entry.native
    /\ entry.kind = "native-abi" => "library" \in entry.native

OptionsKey(cap) == <<IF cap = "run" THEN "run_options" ELSE "serve_options">>
NoOptions == [o \in {} |-> "none"]
Options(level, cap) == Get(level, OptionsKey(cap), NoOptions)
HelpFor(options) == \A o \in DOMAIN options : options[o].help

\* Every enabled capability has options, under its variants if there are any,
\* and every option its help.
OptionsFit(level, variants, enabled) ==
    /\ ~NothingIn(variants) => \A c \in Caps : Options(level, c) = NoOptions
    /\ \A c \in enabled :
          \A b \in (IF NothingIn(variants) THEN {level} ELSE {variants[v] : v \in DOMAIN variants}) :
             Options(b, c) # NoOptions /\ HelpFor(Options(b, c))

-----------------------------------------------------------------------------
(* The venv's reader.                                                      *)

\* EntrySpec.from_dict: a blank kind is Python, not the default.
PyEntry(level, cap) ==
    LET kind == Get(level, <<"entry", cap, "kind">>, TopKind(level))
    IN  Entry(level, cap, IF kind = "blank" THEN "python" ELSE kind)

\* int(...): the text "4" is the number
PyVersion(doc) == IF doc.version = "text 4" THEN "4" ELSE doc.version

\* (mutant: the key the host sets is not looked at)
PyKeyIgnored(doc, key) ==
    CHOOSE k \in DOMAIN doc.envs : Cardinality(DOMAIN doc.envs) = 1 \/ k # key

\* FLASHCLI_RUNTIME_ENV_KEY, or the only environment
PyKey(doc, key) ==
    IF key # "" \/ Cardinality(DOMAIN doc.envs) # 1 THEN key
    ELSE CHOOSE k \in DOMAIN doc.envs : TRUE

\* (mutant: the environment replaces the blocks it touches)
PyLevelShallow(doc, key) ==
    IF PyVersion(doc) = "4"
    THEN MergeShallow(UnderTop(doc.defaults, doc.top), doc.envs[PyKey(doc, key)])
    ELSE doc.top

\* _effective_v4_raw
PyLevel(doc, key) ==
    IF PyVersion(doc) = "4"
    THEN Merge(UnderTop(doc.defaults, doc.top), doc.envs[PyKey(doc, key)])
    ELSE doc.top

PyHasLevel(doc, key) ==
    PyVersion(doc) = "4" =>
        /\ NothingIn(doc.variants) /\ ~NothingIn(doc.defaults) /\ ~NothingIn(doc.envs)
        /\ PyKey(doc, key) \in DOMAIN doc.envs

PyEnabled(level) == {c \in Caps : PyEntry(level, c) # NoEntry}
PyKinds(level) == {PyEntry(level, c).kind : c \in PyEnabled(level)}

\* require_v3
PySupports(doc, level) ==
    /\ PyVersion(doc) \in {"3", "4"}
    /\ ProtocolFits(level)
    /\ AxesFit(PyKinds(level), level)

\* load_bundle_manifest_data
PyReads(doc, key) == PyHasLevel(doc, key) /\ PySupports(doc, PyLevel(doc, key))

\* bundle_variants
PyVariants(doc) == doc.variants

\* resolve_bundle_variant: "" where @variant is missing
PyKnowsVariant(doc, variant) == ~NothingIn(PyVariants(doc)) => variant \in DOMAIN PyVariants(doc)

\* _bundle_options
PyOptions(doc, key, variant, cap) ==
    IF NothingIn(PyVariants(doc)) THEN Options(PyLevel(doc, key), cap)
    ELSE Options(PyVariants(doc)[variant], cap)

\* _reject_top_level_options_with_variants, resolve_options_variant
PyHasOptions(doc, key, variant, cap) ==
    ~NothingIn(PyVariants(doc)) =>
        /\ Options(PyLevel(doc, key), cap) = NoOptions
        /\ variant \in DOMAIN PyVariants(doc)

\* validate_bundle_layout of a document PyReads accepts: dependencies, modes,
\* entry files, options, kinds.
PyLayoutFits(doc, key) ==
    LET level == PyLevel(doc, key)
        enabled == PyEnabled(level)
    IN  /\ <<"python_dependencies">> \in DOMAIN level
        /\ \A c \in enabled :
              /\ PyEntry(level, c).kind \in Kinds
              /\ NativeFits(PyEntry(level, c))
              /\ PyEntry(level, c).kind = "python" =>
                    /\ Get(level, <<"entry", c, "mode">>, "engine") \in {"engine", "script"}
                    /\ PyEntry(level, c).module \in doc.files
        /\ OptionsFit(level, PyVariants(doc), enabled)

-----------------------------------------------------------------------------
(* The host's reader.                                                      *)

\* entrySpecFromMap: a blank kind is the default.
GoEntry(level, cap) ==
    LET kind == Get(level, <<"entry", cap, "kind">>, "blank")
    IN  Entry(level, cap, IF kind = "blank" THEN TopKind(level) ELSE kind)

GoVariants(doc) == IF doc.version = "3" THEN DOMAIN doc.variants ELSE {}

\* EntryFor: a variant's entry block is merged over the entry.
GoEntryFor(doc, level, cap, variant) ==
    IF variant \notin GoVariants(doc) THEN GoEntry(level, cap)
    ELSE LET block == doc.variants[variant]
         IN  GoEntry(Merge(level, Restrict(block, {p \in DOMAIN block : p[1] = "entry"})), cap)

\* effectiveEntries
GoEntriesOf(doc, level, cap) ==
    {GoEntryFor(doc, level, cap, v) : v \in {""} \cup GoVariants(doc)}

GoEntries(doc, level) ==
    (UNION {GoEntriesOf(doc, level, c) : c \in Caps}) \ {NoEntry}

\* CheckExecutionVersions, with the protocol version RequireV3 and requireV4 want
GoVersionsFit(doc, level) ==
    ProtocolFits(level) /\ AxesFit({e.kind : e \in GoEntries(doc, level)}, level)

GoBase(doc) == IF doc.version = "4" THEN UnderTop(doc.defaults, doc.top) ELSE doc.top

GoLevel(doc, key) == IF doc.version = "4" THEN Merge(GoBase(doc), doc.envs[key]) ELSE doc.top

\* Load: a v4 document is checked before an environment is chosen.
GoLoads(doc) ==
    /\ doc.version \in {"3", "4"}
    /\ doc.version = "4" =>
          NothingIn(doc.variants) /\ ~NothingIn(doc.defaults) /\ ~NothingIn(doc.envs)
    /\ GoVersionsFit(doc, GoBase(doc))

\* ApplyEnv: and once more with the environment.
GoApplies(doc, key) ==
    doc.version = "4" => key \in DOMAIN doc.envs /\ GoVersionsFit(doc, GoLevel(doc, key))

\* ResolveVariant
GoKnowsVariant(doc, variant) ==
    /\ doc.version = "4" => variant = ""
    /\ GoVariants(doc) # {} => variant \in GoVariants(doc)

\* What `bundle validate` asks of one environment's level.
GoLevelFits(doc, level) ==
    LET enabled == {c \in Caps : GoEntry(level, c) # NoEntry}
    IN  /\ (\E e \in GoEntries(doc, level) : e.kind = "python")
              => <<"python_dependencies">> \in DOMAIN level
        /\ \A c \in enabled : GoEntry(level, c).kind = "python"
              => GoEntry(level, c).module \in doc.files
        /\ OptionsFit(level, IF doc.version = "4" THEN <<>> ELSE doc.variants, enabled)

\* Validate of a document GoLoads accepts: native blocks are asked for without
\* an environment only.
GoValidates(doc) ==
    /\ \A e \in GoEntries(doc, GoBase(doc)) : e.kind \in Kinds /\ NativeFits(e)
    /\ \A c \in Caps : GoEntry(GoBase(doc), c).kind = "python"
          => GoEntry(GoBase(doc), c).module \in doc.files
    /\ IF doc.version = "4"
       THEN \A k \in DOMAIN doc.envs : GoApplies(doc, k) /\ GoLevelFits(doc, GoLevel(doc, k))
       ELSE GoLevelFits(doc, doc.top)
=============================================================================
