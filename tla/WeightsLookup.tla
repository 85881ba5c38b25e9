--------------------------- MODULE WeightsLookup ---------------------------
(***************************************************************************)
(* Who has the weights: the host fills a directory (Go, internal/weights)  *)
(* and calls it ready by its rules; later the process in the bundle venv   *)
(* (Python, flashcli_bundle/weights.py and checkpoint.py), which cannot    *)
(* download, looks for weights by rules of its own, first in the bundle,   *)
(* then where it believes the host put them.  Publications of a bundle,    *)
(* and bundles with the same repository, share directories.                *)
(*                                                                         *)
(* A path is a sequence of names; the disk gives every directory the kinds *)
(* of files in it.  A file pattern has a form: "in" is a glob or a file    *)
(* name in dir, "below" a glob through all directories, "dir" the plain    *)
(* name of a directory.  Besides files of its kind, the names that a glob  *)
(* takes may be those of directories, dirs, or of files that the host adds *)
(* to a download, own: '*.json' takes .flashcli_download.json.             *)
(***************************************************************************)
EXTENDS Naturals, Sequences

CONSTANTS
    Pubs,    \* the publications: [version, name, variants, block, shipped]
    Hub,     \* [repositories -> sets of <<directory, kind>>]
    Other,   \* the directories --checkpoint may name
    MaxEvents, \* bound on syncs and failed pulls
    None

\* "model" stands for the files that are a checkpoint by themselves, "shard" for
\* other main safetensors, "pre" and "post" for the two processor sidecars.
Kinds == {"model", "config", "shard", "stats", "pre", "post", "data"}

\* "record" is what isDownloadMetadata knows, the manifest of a download and the
\* marker of an incomplete one; "mark" is .flashcli_model.json, which it does not.
Own == {"record", "mark"}
OnDisk == Kinds \cup Own

Top == "top"    \* the manifest outside of any variants block
Variants(p) == p.variants \cup {Top}

HasSource(spec) == spec.repo # None \/ spec.rel # <<>>
Specs(b) == {b.main} \cup {b.extras[k] : k \in DOMAIN b.extras}

ASSUME PubsAssumption ==
    /\ \A r \in DOMAIN Hub : \A f \in Hub[r] : f[2] \in Kinds
    /\ \A p \in Pubs :
          /\ p.version \in {3, 4} /\ (p.version = 4 => p.variants = {})
          /\ Top \notin p.variants
          /\ \A f \in p.shipped : f[2] \in Kinds
          /\ \A v \in Variants(p) : \A s \in Specs(p.block[v]) :
                HasSource(s) => s.bundled \/ s.repo \in DOMAIN Hub
    /\ MaxEvents \in Nat

\* What manifests, repositories and directories are made of; a directory in the
\* bundle would be one that the bundle ships.
Names == STRING \cup {"bundle", "store", "models", "checkpoint", "extra", Top, None}
Paths == Seq(Names)
Patterns == [form : {"in", "below", "dir"}, dir : Paths, kind : Kinds \cup {None},
             dirs : SUBSET Names, own : BOOLEAN]
WeightSpecs ==
    [repo : Names, bundled : BOOLEAN, allow : SUBSET Patterns, any : SUBSET Patterns,
     ns : BOOLEAN, dir : Paths, subdir : Paths, rel : Paths, cache : Names]

ASSUME NamesAssumption ==
    /\ \A r \in DOMAIN Hub : Hub[r] \subseteq Paths \X Kinds
    /\ \A p \in Pubs :
          /\ p.name \in STRING /\ p.variants \subseteq STRING /\ p.shipped \subseteq Paths \X Kinds
          /\ \A v \in Variants(p) :
                /\ p.block[v].dir \in Paths /\ Specs(p.block[v]) \subseteq WeightSpecs
                /\ DOMAIN p.block[v].extras \subseteq STRING
    /\ \A c \in Other : c \in Paths /\ c # <<>> /\ c[1] # "bundle"

VARIABLES
    pub,    \* the publication in the bundle directory
    disk,   \* [directories -> SUBSET OnDisk]
    pulled, \* what the last pull of pub did, and for which variant
    have,   \* every publication and variant whose pull succeeded
    ran,    \* what the last process in the venv was asked for, and how it ended
    events  \* syncs and failed pulls so far

vars == <<pub, disk, pulled, have, ran, events>>

(***************************************************************************)
(* Directories                                                             *)
(***************************************************************************)
Under(d, p) == {q \in DOMAIN d : Len(q) >= Len(p) /\ SubSeq(q, 1, Len(p)) = p}
IsDir(d, p) == Under(d, p) # {}
Files(d, p) == IF p \in DOMAIN d THEN d[p] ELSE {}
Children(d, p) == {SubSeq(q, 1, Len(p) + 1) : q \in Under(d, p) \ {p}}

Below(d, p, kind) == \E q \in Under(d, p) : kind \in d[q]

\* A directory below p has one of the names.
Named(d, p, names) ==
    \E q \in Under(d, p) : \E i \in Len(p) + 1 .. Len(q) : q[i] \in names

\* _matches_allow_pattern (checkpoint.py): a pattern without a wildcard is a file, and
\* one with a wildcard is whatever path.glob yields, a directory or a record, too.
PyMatch(d, p, pat) ==
    \/ /\ pat.form = "in"
       /\ \/ pat.kind \in Files(d, p \o pat.dir)
          \/ pat.own /\ \E f \in Own : f \in Files(d, p \o pat.dir)
          \/ \E n \in pat.dirs : IsDir(d, p \o pat.dir \o <<n>>)
    \/ /\ pat.form = "below"
       /\ \/ Below(d, p, pat.kind)
          \/ pat.own /\ \E f \in Own : Below(d, p, f)
          \/ Named(d, p, pat.dirs)

\* MatchFileUnder: only files, and no record; a plain name is any file below a
\* directory of that name, too.
GoMatch(d, p, pat) ==
    \/ /\ pat.form = "in"
       /\ \/ pat.kind \in Files(d, p \o pat.dir)
          \/ pat.own /\ "mark" \in Files(d, p \o pat.dir)
    \/ /\ pat.form = "below"
       /\ Below(d, p, pat.kind) \/ (pat.own /\ Below(d, p, "mark"))
    \/ pat.form = "dir" /\ \E kind \in Kinds \cup {"mark"} : Below(d, p \o pat.dir, kind)

WeightFiles(d, p) == "model" \in Files(d, p) \/ {"config", "shard"} \subseteq Files(d, p)
NormStats(d, p) == "stats" \in Files(d, p) \/ {"pre", "post"} \subseteq Files(d, p)
Usable(d, p, ns) == IsDir(d, p) /\ WeightFiles(d, p) /\ (ns => NormStats(d, p))

-----------------------------------------------------------------------------
(***************************************************************************)
(* The host                                                                *)
(***************************************************************************)
GoCached(d, p, spec) ==
    IF spec.allow = {} THEN Usable(d, p, spec.ns)
    ELSE /\ IsDir(d, p) /\ \A pat \in spec.allow : GoMatch(d, p, pat)
         /\ spec.ns => NormStats(d, p)

\* bundleWeightsReady and ExtraWeightsReady, which say the same
GoReady(d, p, spec) ==
    IF spec.any = {} THEN GoCached(d, p, spec)
    ELSE /\ \E pat \in spec.any : GoMatch(d, p, pat)
         /\ spec.ns => NormStats(d, p)

\* The block that a variant selects: none, or one.
Blocks(p, v) == IF p.variants = {} THEN {p.block[Top]}
                ELSE {p.block[w] : w \in p.variants \cap {v}}

\* ManifestSpecs and VariantWeightsRel
GoRel(p, v, b) ==
    IF b.dir # <<>> THEN b.dir
    ELSE IF p.variants # {}
    THEN IF HasSource(b.main) THEN <<"checkpoint", b.main.repo>> ELSE <<"checkpoint", v>>
    ELSE IF p.version = 4 THEN <<>> ELSE <<"checkpoint">>

\* StoreKeyFor: what version 4 names after the repository, version 3 names after the
\* bundle and its version.
GoBase(p) == IF p.version = 4
           THEN <<"store", IF p.block[Top].main.repo = None THEN p.name
                           ELSE p.block[Top].main.repo>>
           ELSE <<"models", p.name>>

Bundle == <<"bundle">>

\* ManifestSpecs gives extras of version 4 a weights_dir, then ExtraWeightDest.
GoDest(p, b, key, checkpoint) ==
    LET spec == b.extras[key]
        sub == IF spec.dir # <<>> THEN spec.dir
               ELSE IF p.version = 4 THEN <<"extra", key>> ELSE spec.subdir
    IN  IF sub # <<>> THEN checkpoint \o sub
        ELSE IF spec.rel # <<>> THEN Bundle \o spec.rel
        ELSE <<"models", IF spec.cache = None THEN key ELSE spec.cache>>

FileMatches(f, pat) ==
    \/ pat.form = "in" /\ f = <<pat.dir, pat.kind>>
    \/ pat.form = "below" /\ f[2] = pat.kind
    \/ pat.form = "dir" /\ Len(f[1]) >= Len(pat.dir) /\ SubSeq(f[1], 1, Len(pat.dir)) = pat.dir

\* What Download puts into dest: the selected files of the repository, or a
\* directory of the bundle; the host keeps its record beside the former.
Fetch(d, spec, dest) ==
    IF spec.bundled
    THEN LET from == Bundle \o spec.rel
         IN  {<<dest \o SubSeq(r[1], Len(from) + 1, Len(r[1])), r[2]>> :
                 r \in {f \in Under(d, from) \X OnDisk : f[2] \in d[f[1]]}}
    ELSE {<<dest, "record">>} \cup
         {<<dest \o f[1], f[2]>> :
             f \in {g \in Hub[spec.repo] : spec.allow = {} \/ \E pat \in spec.allow : FileMatches(g, pat)}}

Put(d, files) ==
    [q \in DOMAIN d \cup {f[1] : f \in files} |->
        Files(d, q) \cup {f[2] : f \in {g \in files : g[1] = q}}]

Checkpoint(p, v, b) == GoBase(p) \o GoRel(p, v, b)

\* DownloadBundle: main weights, then every extra.
MainFiles(d, p, v, b) ==
    IF HasSource(b.main) THEN Fetch(d, b.main, Checkpoint(p, v, b)) ELSE {}
PullFiles(d, p, v, b) ==
    MainFiles(d, p, v, b)
        \cup UNION {Fetch(d, b.extras[k], GoDest(p, b, k, Checkpoint(p, v, b))) :
                        k \in {x \in DOMAIN b.extras : HasSource(b.extras[x])}}

\* WriteMarker
Marked(d, checkpoint) == Put(d, {<<checkpoint, "mark">>})

\* Its error returns; an extra without a source is one.
PullOK(d, p, v, b) ==
    LET after == Put(d, PullFiles(d, p, v, b))
    IN  /\ HasSource(b.main) => GoReady(after, Checkpoint(p, v, b), b.main)
        /\ \A k \in DOMAIN b.extras :
              /\ HasSource(b.extras[k])
              /\ GoReady(after, GoDest(p, b, k, Checkpoint(p, v, b)), b.extras[k])

-----------------------------------------------------------------------------
(***************************************************************************)
(* The venv                                                                *)
(***************************************************************************)
\* (mutant: the default of version 3 for every version)
PyRelThree(p, v, b) ==
    IF b.dir # <<>> THEN b.dir
    ELSE IF p.variants # {}
    THEN IF HasSource(b.main) THEN <<"checkpoint", b.main.repo>> ELSE <<"checkpoint", v>>
    ELSE <<"checkpoint">>

\* bundle_weights_rel, variant_weights_dir, _derived_weights_dir
PyRel(p, v, b) ==
    IF b.dir # <<>> THEN b.dir
    ELSE IF p.variants # {}
    THEN IF HasSource(b.main) THEN <<"checkpoint", b.main.repo>> ELSE <<"checkpoint", v>>
    ELSE IF p.version = 4 THEN <<>> ELSE <<"checkpoint">>

\* weights_store_key, or the preset's cache key
PyBase(p) ==
    LET repo == p.block[Top].main.repo
    IN  IF p.version # 4 THEN <<"models", p.name>>
        ELSE <<"store", IF repo = None THEN p.name ELSE repo>>

\* _effective_v4_raw: every extra of version 4 has a weights_dir.
PyExtra(p, b, key) ==
    IF p.version = 4 /\ b.extras[key].dir = <<>>
    THEN [b.extras[key] EXCEPT !.dir = <<"extra", key>>] ELSE b.extras[key]

\* extra_weight_dest
PyDest(p, b, key, checkpoint) ==
    LET spec == PyExtra(p, b, key)
    IN  IF spec.dir # <<>> THEN checkpoint \o spec.dir
        ELSE IF spec.subdir # <<>> THEN checkpoint \o spec.subdir
        ELSE IF spec.rel # <<>> THEN Bundle \o spec.rel
        ELSE <<"models", IF spec.cache = None THEN key ELSE spec.cache>>

\* (mutant: any of the patterns is enough)
PyCachedAny(d, p, spec) ==
    IF spec.allow = {} THEN Usable(d, p, spec.ns)
    ELSE /\ IsDir(d, p) /\ \E pat \in spec.allow : PyMatch(d, p, pat)
         /\ spec.ns => NormStats(d, p)

\* has_cached_weight_files
PyCached(d, p, spec) ==
    IF spec.allow = {} THEN Usable(d, p, spec.ns)
    ELSE /\ IsDir(d, p) /\ \A pat \in spec.allow : PyMatch(d, p, pat)
         /\ spec.ns => NormStats(d, p)

\* extra_weights_ready
PyReady(d, p, spec) ==
    IF spec.any = {} THEN PyCached(d, p, spec)
    ELSE /\ IsDir(d, p) /\ \E pat \in spec.any : PyMatch(d, p, pat)
         /\ spec.ns => NormStats(d, p)

\* has_local_weights: the directory, or one in it.  With patterns nothing else
\* counts; a checkpoint that lacks its statistics hides the directories in it.
HasLocal(d, p, spec) ==
    /\ IsDir(d, p)
    /\ IF spec.allow # {}
       THEN \E q \in {p} \cup Children(d, p) : PyCached(d, q, spec)
       ELSE \/ Usable(d, p, spec.ns) \/ PyReady(d, p, spec)
            \/ /\ ~(spec.ns /\ WeightFiles(d, p))
               /\ \E q \in Children(d, p) : Usable(d, q, spec.ns) \/ PyReady(d, q, spec)

\* weights_spec.py: another default directory, and a copy of has_local_weights.
LayoutDir(p, v, b) == Bundle \o (IF p.variants # {} THEN PyRel(p, v, b)
                                  ELSE IF b.dir # <<>> THEN b.dir ELSE <<"checkpoint">>)
LayoutHasLocal(d, p, spec) == HasLocal(d, p, spec)

\* validate_weights_spec, of every variant, whichever is asked for
ValidWeights(d, p) ==
    \A v \in IF p.variants = {} THEN {Top} ELSE p.variants :
        LET b == p.block[v]
        IN  \/ LayoutHasLocal(d, LayoutDir(p, v, b), b.main)
            \/ b.main.repo # None
            \/ b.main.bundled /\ p.variants # {}

\* (mutant: the cache first)
CacheFirst(d, p, v, b) ==
    LET local == Bundle \o PyRel(p, v, b)
        cache == PyBase(p) \o PyRel(p, v, b)
    IN  IF HasLocal(d, cache, b.main) THEN {cache}
        ELSE {c \in {local} : HasLocal(d, c, b.main)}

\* ensure_checkpoint: bundle_weights_dir, then _checkpoint_at; the marker there
\* names the directory it is in.  None, or one.
Found(d, p, v, b) ==
    LET local == Bundle \o PyRel(p, v, b)
        cache == PyBase(p) \o PyRel(p, v, b)
    IN  IF HasLocal(d, local, b.main) THEN {local}
        ELSE {c \in {cache} : HasLocal(d, c, b.main)}

\* require_extra_weights_cached, and again _validate_extra_weights_cached: an extra
\* that nobody could download is not asked for.
ExtrasThere(d, p, b, checkpoint) ==
    \A k \in DOMAIN b.extras :
        (b.extras[k].bundled \/ b.extras[k].repo # None)
            => PyReady(d, PyDest(p, b, k, checkpoint), b.extras[k])

\* validate_bundle_layout, resolve_effective_model_variant, then ensure_model_cached and inject_entry_env
Search(d, p, v, checkpoints) ==
    IF ~ValidWeights(d, p) THEN "invalid layout"
    ELSE IF Blocks(p, v) = {} THEN "unknown variant"
    ELSE IF checkpoints = {} THEN "weights missing"
    ELSE IF \A b \in Blocks(p, v), c \in checkpoints : ExtrasThere(d, p, b, c)
    THEN "found" ELSE "extra missing"

-----------------------------------------------------------------------------
Idle == [v |-> Top, done |-> FALSE]
NoRun == [v |-> Top, out |-> "none"]

Init ==
    /\ pub \in Pubs
    /\ disk = Put([q \in Other |-> {"model"}], pub.shipped)
    /\ pulled = Idle /\ have = {} /\ ran = NoRun /\ events = 0

Event == events < MaxEvents /\ events' = events + 1

\* PrepareBundle succeeds.
Pull(v) ==
    /\ \E b \in Blocks(pub, v) :
          /\ PullOK(disk, pub, v, b)
          /\ disk' = Marked(Put(disk, PullFiles(disk, pub, v, b)), Checkpoint(pub, v, b))
    /\ pulled' = [v |-> v, done |-> TRUE] /\ have' = have \cup {<<pub, v>>}
    /\ ran' = NoRun /\ UNCHANGED <<pub, events>>

\* It fails or is interrupted at some file, of an extra only after all of the weights.
PullFails(v) ==
    /\ Event
    /\ \E b \in Blocks(pub, v) :
          \E files \in SUBSET PullFiles(disk, pub, v, b) :
             /\ files \subseteq MainFiles(disk, pub, v, b) \/ MainFiles(disk, pub, v, b) \subseteq files
             /\ disk' = Put(disk, files)
    /\ pulled' = Idle /\ ran' = NoRun /\ UNCHANGED <<pub, have>>

\* run and serve after a pull, or with FLASHCLI_SKIP_WEIGHTS.
Look(v) ==
    /\ \E found \in {UNION {Found(disk, pub, v, b) : b \in Blocks(pub, v)}} :
          ran' = [v |-> v, out |-> Search(disk, pub, v, found)]
    /\ UNCHANGED <<pub, disk, pulled, have, events>>

\* The same with --checkpoint: nothing is looked for but the extras, there.
LookAt(v, c) ==
    /\ ran' = [v |-> "--checkpoint", out |-> Search(disk, pub, v, {c})]
    /\ UNCHANGED <<pub, disk, pulled, have, events>>

\* bundle sync puts another publication in the place of this one.
Sync(p) ==
    /\ Event
    /\ pub' = p
    /\ disk' = Put([q \in DOMAIN disk \ Under(disk, Bundle) |-> disk[q]], p.shipped)
    /\ pulled' = Idle /\ ran' = NoRun /\ UNCHANGED have

Next ==
    \/ \E v \in Variants(pub) : Pull(v) \/ PullFails(v) \/ Look(v)
    \/ \E v \in Variants(pub), c \in Other : LookAt(v, c)
    \/ \E p \in Pubs : Sync(p)

Spec == Init /\ [][Next]_vars

-----------------------------------------------------------------------------
\* The values of the state.
LookupTypeOK ==
    /\ pub \in Pubs
    /\ \A q \in DOMAIN disk : disk[q] \subseteq OnDisk
    /\ pulled.v \in Variants(pub) /\ pulled.done \in BOOLEAN
    /\ \A h \in have : h[1] \in Pubs /\ h[2] \in Variants(h[1])
    /\ events \in 0..MaxEvents
    /\ ran.v \in Variants(pub) \cup {"--checkpoint"}
    /\ ran.out \in {"none", "found", "invalid layout", "unknown variant", "weights missing", "extra missing"}

\* A block on which the two sets of rules agree: no pattern that is a plain
\* directory, and no require_any_patterns beside allow_patterns for the weights.
Agreed(b) ==
    /\ \A s \in Specs(b) :
          \A pat \in s.allow \cup s.any : pat.form # "dir"
    /\ b.main.any = {} /\ b.main.repo # None

\* The bundle itself ships nothing that the venv could take for the weights.
ShipsNone(p, v, b) == ~HasLocal(Put(<<>>, p.shipped), Bundle \o PyRel(p, v, b), b.main)

\* No extra is downloaded into the bundle: relative_dir is where bundled ones are
\* (download.go:190), though a document may give it to any other.
DownloadsOutside(p) ==
    \A v \in Variants(p) : \A k \in DOMAIN p.block[v].extras :
        p.block[v].extras[k].rel # <<>> => p.block[v].extras[k].bundled

\* Once a pull has succeeded the venv finds weights and extras, whatever other
\* pulls of this or another publication with the same directories do, fail or
\* leave half done (weights.py:311, bundle.go:129).
DoneIsFound ==
    \A h \in have : h[1] = pub /\ DownloadsOutside(pub) =>
        \A b \in Blocks(pub, h[2]) : Agreed(b) /\ ShipsNone(pub, h[2], b) =>
            /\ Found(disk, pub, h[2], b) = {Checkpoint(pub, h[2], b)}
            /\ ExtrasThere(disk, pub, b, Checkpoint(pub, h[2], b))

\* Every pattern takes files of the weights only.
TakesFiles(spec) == \A pat \in spec.allow : pat.dirs = {} /\ ~pat.own

\* The venv never takes a directory that the host would not call ready: it, or
\* one directly in it, passes the host's rules (checkpoint.go:72).  Excepted are
\* weights with a pattern that takes a directory or the host's files as well,
\* with which the venv is content and the host is not (checkpoint.py:47).
VenvNoLaxer ==
    \A v \in Variants(pub) : \A b \in Blocks(pub, v) : b.main.any = {} /\ TakesFiles(b.main) =>
        \A c \in Found(disk, pub, v, b) :
            \E q \in {c} \cup Children(disk, c) : GoReady(disk, q, b.main)

\* What a search in the bundle's own directory ends with does not depend on what
\* pulls have put, completed or left half done, into the cache (weights.py:323).
BundleComesFirst ==
    [][\A v \in Variants(pub) : \A b \in Blocks(pub, v) :
          pub' = pub /\ ~ShipsNone(pub, v, b) /\ DownloadsOutside(pub) =>
             Found(disk, pub, v, b)' = Found(disk, pub, v, b)]_vars
=============================================================================
