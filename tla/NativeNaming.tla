---------------------------- MODULE NativeNaming ----------------------------
(***************************************************************************)
(* Names of runtime environments and of native libraries                   *)
(* (flashcli_bundle/runtime_env.py, native_naming.py).  A name is the      *)
(* sequence of what its dashes separate: <<"sm120", "cu130", "linux",      *)
(* "x86_64", "py312">> is an environment key, and a library is             *)
(* <module> - <FlashRT ABI> - <environment key>.so, without its suffix.    *)
(***************************************************************************)
EXTENDS Naturals, Sequences

CONSTANTS
    SmOf, CuOf, PyOf,  \* [segments -> Nat]: "sm120" -> 120, "cu130" -> 130, "py312" -> 312
    Systems, Machines, \* the known operating systems and architectures
    Modules,           \* segments that start with "flash_rt"
    AbiLike,           \* segments that look like a version, a commit or "dev"
    Rank,              \* [segments -> Nat]: their order as strings
    None

Dev == "dev"

ASSUME NamingAssumption ==
    /\ SmOf \in [DOMAIN SmOf -> Nat] /\ CuOf \in [DOMAIN CuOf -> Nat]
    /\ PyOf \in [DOMAIN PyOf -> Nat] /\ Rank \in [DOMAIN Rank -> Nat]
    /\ \A s, t \in DOMAIN Rank : Rank[s] = Rank[t] => s = t
    /\ Dev \in AbiLike \cap DOMAIN Rank
    /\ Modules \cap AbiLike = {}
    /\ None \notin Nat

From(name, i) == SubSeq(name, i, Len(name))
Upto(name, i) == SubSeq(name, 1, i)
Ends(name, key) == Len(name) > Len(key) /\ From(name, Len(name) - Len(key) + 1) = key

\* A name sorts after the longer ones that it begins: "-" comes before ".so".
NameLess(a, b) ==
    \E n \in 0..Len(b) :
        /\ n < Len(a) /\ Upto(a, n) = Upto(b, n)
        /\ n = Len(b) \/ Rank[a[n + 1]] < Rank[b[n + 1]]

-----------------------------------------------------------------------------
(***************************************************************************)
(* Environment keys                                                        *)
(***************************************************************************)
\* _parse_nvidia_segments: the first segment of that kind
FirstOf(f, tail) ==
    LET at == {i \in 1..Len(tail) : tail[i] \in DOMAIN f}
    IN  IF at = {} THEN None ELSE f[tail[CHOOSE i \in at : \A j \in at : i <= j]]

\* parse_variant_key: a name of fewer segments than <platform>-<os>-<arch> is no key.
Tagged(name) == name # <<>> /\ name[Len(name)] \in DOMAIN PyOf
Parts(name) == IF Tagged(name) THEN Upto(name, Len(name) - 1) ELSE name
IsKey(name) == Len(Parts(name)) >= 3

ParseKey(name) ==
    LET parts == Parts(name)
        n == Len(parts)
        tail == Upto(parts, n - 2)
    IN  [tail |-> tail, os |-> parts[n - 1], arch |-> parts[n],
         py |-> IF Tagged(name) THEN PyOf[name[Len(name)]] ELSE None,
         sm |-> FirstOf(SmOf, tail), cu |-> FirstOf(CuOf, tail)]

\* cuda_runtime_family: 12.x and 13.x
Family(cu) == cu \div 10

SmScore(a, h) == IF None \in {a.sm, h.sm} THEN 0 ELSE IF a.sm = h.sm THEN 10 ELSE 6
\* (mutant: the family counts as much as the exact tag, and more than the SM)
CuScoreFirst(a, h) ==
    IF None \in {a.cu, h.cu} THEN 0
    ELSE IF a.cu = h.cu THEN 15
    ELSE IF Family(a.cu) = Family(h.cu) THEN 3 ELSE 0

CuScore(a, h) ==
    IF None \in {a.cu, h.cu} THEN 0
    ELSE IF a.cu = h.cu THEN 5
    ELSE IF Family(a.cu) = Family(h.cu) THEN 3 ELSE 0

SamePlace(a, h) == a.py = h.py /\ a.os = h.os /\ a.arch = h.arch

\* score_env_key_match
KeyScore(a, h) ==
    IF ~SamePlace(a, h) THEN 0
    ELSE IF a.tail = h.tail THEN 35
    ELSE 20 + SmScore(a, h) + CuScore(a, h)

Score(key, host) ==
    IF IsKey(key) /\ IsKey(host) THEN KeyScore(ParseKey(key), ParseKey(host)) ELSE 0

\* resolve_runtime_env_key, over the keys of the runtime map in their order: the
\* user's choice, the host's own key, or the first of those with the best score.
ResolveKey(keys, host, override) ==
    LET all == {keys[i] : i \in 1..Len(keys)}
        good == {i \in 1..Len(keys) : Score(keys[i], host) > 0}
        Better(i, j) == \/ Score(keys[i], host) > Score(keys[j], host)
                        \/ Score(keys[i], host) = Score(keys[j], host) /\ i <= j
    IN  IF override \in all THEN override
        ELSE IF host \in all THEN host
        ELSE IF good = {} THEN None
        ELSE keys[CHOOSE i \in good : \A j \in good : Better(i, j)]

-----------------------------------------------------------------------------
(***************************************************************************)
(* Native libraries                                                        *)
(***************************************************************************)
\* sanitize_flashrt_abi: a tag keeps its dashes; an empty one becomes the commit.
AbiOf(tag, commit) == IF tag = <<>> THEN <<commit>> ELSE tag

\* native_artifact_tag, native_so_filename
LibraryName(module, abi, key) == <<module>> \o abi \o key

\* _split_module_base_and_abi
SplitModule(front) ==
    LET n == Len(front)
    IN  IF n = 0 THEN None
        ELSE IF front[1] \notin Modules THEN None
        ELSE IF n = 1 THEN [base |-> front, abi |-> Dev]
        ELSE IF front[n] \in AbiLike THEN [base |-> Upto(front, n - 1), abi |-> front[n]]
        ELSE None

\* parse_native_artifact
ParseLibrary(name, key) ==
    IF ~Ends(name, key) \/ ~IsKey(key) THEN None
    ELSE LET split == SplitModule(Upto(name, Len(name) - Len(key)))
         IN  IF split = None THEN None
             ELSE [base |-> split.base, abi |-> split.abi, key |-> key,
                   py |-> ParseKey(key).py]

KnownKey(name) ==
    IsKey(name) /\ LET parts == Parts(name)
                   IN  parts[Len(parts) - 1] \in Systems /\ parts[Len(parts)] \in Machines

\* infer_env_key_from_native_stem: with or without an ABI segment, else the
\* shortest suffix that is a key
InferKey(name) ==
    LET n == Len(name)
        Is(i) == i < n /\ KnownKey(From(name, i + 1))
        first == IF n >= 7 THEN 2 ELSE 1
        later == {i \in 1..(n - 3) : Is(i)}
    IN  IF n < 4 THEN None
        ELSE IF Is(first) THEN From(name, first + 1)
        ELSE IF Is(3 - first) THEN From(name, 4 - first)
        ELSE IF later = {} THEN None
        ELSE From(name, (CHOOSE i \in later : \A j \in later : j <= i) + 1)

\* resolve_env_key_for_native_dir, parse_native_tag_from_filename: key is None for
\* a directory that environments share.
Keyed(name, key) == IF key = None THEN None ELSE ParseLibrary(name, key)
Library(name, key) == Keyed(name, IF key # None THEN key ELSE InferKey(name))

\* list_native_artifacts: what the recognized names say
Recognized(said) == [n \in {m \in DOMAIN said : said[m] # None} |-> said[n]]
Libraries(names, key) == Recognized([n \in names |-> Library(n, key)])

\* discover_native_module_bases, and the libraries of one module
Bases(libs) == {libs[n].base : n \in DOMAIN libs}
Artifacts(libs, base) == [n \in {m \in DOMAIN libs : libs[m].base = base} |-> libs[n]]

FirstByName(names) == CHOOSE n \in names : \A m \in names : n = m \/ NameLess(n, m)

\* (mutant: the highest ABI)
PickNewest(libs) ==
    FirstByName({n \in DOMAIN libs : \A m \in DOMAIN libs : Rank[libs[n].abi] >= Rank[libs[m].abi]})
\* _pick_best_artifact: the lowest ABI, then the file name
PickBest(libs) ==
    FirstByName({n \in DOMAIN libs : \A m \in DOMAIN libs : Rank[libs[n].abi] <= Rank[libs[m].abi]})
=============================================================================
