------------------------ MODULE WeightsLookupProofs ------------------------
(***************************************************************************)
(* What holds of the two sets of rules for every manifest, repository and  *)
(* content of the disk.                                                    *)
(***************************************************************************)
EXTENDS WeightsLookup, SequenceTheorems, TLAPS

(* What the venv matches with a pattern that takes files of the weights only, the *)
(* host matches. *)
LEMMA MatchCarries ==
    ASSUME NEW d, NEW p, NEW pat, PyMatch(d, p, pat), pat.dirs = {}, ~pat.own
    PROVE  GoMatch(d, p, pat)
BY DEF PyMatch, GoMatch, Named

(* With such patterns has_cached_weight_files is no laxer than HasCachedWeightFiles. *)
LEMMA CachedCarries ==
    ASSUME NEW d, NEW p, NEW spec, TakesFiles(spec), PyCached(d, p, spec)
    PROVE  GoCached(d, p, spec)
<1>1. CASE spec.allow = {}
    BY <1>1 DEF PyCached, GoCached
<1>2. CASE spec.allow # {}
    <2>1. IsDir(d, p) /\ (spec.ns => NormStats(d, p))
        BY <1>2 DEF PyCached
    <2>2. \A pat \in spec.allow : PyMatch(d, p, pat)
        BY <1>2 DEF PyCached
    <2>3. \A pat \in spec.allow : GoMatch(d, p, pat)
        BY <2>2, MatchCarries DEF TakesFiles
    <2> QED  BY <1>2, <2>1, <2>3 DEF GoCached
<1> QED  BY <1>1, <1>2

(* What has_local_weights accepts, the host accepts there or one level down. *)
LEMMA LocalCarries ==
    ASSUME NEW d, NEW p, NEW spec, spec.any = {}, TakesFiles(spec), HasLocal(d, p, spec)
    PROVE  \E q \in {p} \cup Children(d, p) : GoReady(d, q, spec)
<1>1. ASSUME NEW q, PyCached(d, q, spec)
      PROVE  GoReady(d, q, spec)
    BY <1>1, CachedCarries DEF GoReady
<1>2. ASSUME NEW q, PyReady(d, q, spec)
      PROVE  PyCached(d, q, spec)
    BY <1>2 DEF PyReady
<1>3. CASE spec.allow # {}
    <2>1. PICK q \in {p} \cup Children(d, p) : PyCached(d, q, spec)
        BY <1>3 DEF HasLocal
    <2> QED  BY <2>1, <1>1
<1>4. CASE spec.allow = {}
    <2>1. PICK q \in {p} \cup Children(d, p) : Usable(d, q, spec.ns) \/ PyReady(d, q, spec)
        BY <1>4 DEF HasLocal
    <2>2. PyCached(d, q, spec)
        BY <2>1, <1>2, <1>4 DEF PyCached
    <2> QED  BY <2>1, <2>2, <1>1
<1> QED  BY <1>3, <1>4

(* The venv never takes a directory that the host would not call ready, unless a *)
(* pattern takes directories or the host's own files as well. *)
THEOREM VenvNoLaxerHolds == Spec => []VenvNoLaxer
<1>1. VenvNoLaxer
    <2> SUFFICES ASSUME NEW v \in Variants(pub), NEW b \in Blocks(pub, v), b.main.any = {},
                        TakesFiles(b.main), NEW c \in Found(disk, pub, v, b)
                 PROVE  \E q \in {c} \cup Children(disk, c) : GoReady(disk, q, b.main)
        BY DEF VenvNoLaxer
    <2>1. HasLocal(disk, c, b.main)
        BY DEF Found
    <2> QED  BY <2>1, LocalCarries
<1> QED  BY <1>1, PTL

-----------------------------------------------------------------------------
Kinded(files) == \A f \in files : f[2] \in OnDisk
DiskOK(d) == \A q \in DOMAIN d : d[q] \subseteq OnDisk

(* Writing files of known kinds keeps the disk well formed. *)
LEMMA PutKeeps ==
    ASSUME NEW d, DiskOK(d), NEW files, Kinded(files)
    PROVE  DiskOK(Put(d, files))
<1> SUFFICES ASSUME NEW q \in DOMAIN d \cup {f[1] : f \in files}
             PROVE  Put(d, files)[q] \subseteq OnDisk
    BY DEF DiskOK, Put
<1>1. Put(d, files)[q] = Files(d, q) \cup {f[2] : f \in {g \in files : g[1] = q}}
    BY DEF Put
<1>2. Files(d, q) \subseteq OnDisk
    BY DEF Files, DiskOK
<1>3. {f[2] : f \in {g \in files : g[1] = q}} \subseteq OnDisk
    BY DEF Kinded
<1> QED  BY <1>1, <1>2, <1>3

(* What a download writes has known kinds. *)
LEMMA FetchKinded ==
    ASSUME NEW d, NEW spec, NEW dest, spec.bundled \/ spec.repo \in DOMAIN Hub
    PROVE  Kinded(Fetch(d, spec, dest))
<1>1. CASE spec.bundled
    <2> DEFINE from == Bundle \o spec.rel
               there == {f \in Under(d, from) \X OnDisk : f[2] \in d[f[1]]}
    <2>1. Fetch(d, spec, dest) =
            {<<dest \o SubSeq(r[1], Len(from) + 1, Len(r[1])), r[2]>> : r \in there}
        BY <1>1, Zenon DEF Fetch
    <2>2. \A r \in there : r[2] \in OnDisk
        OBVIOUS
    <2> HIDE DEF there, from
    <2> QED  BY <2>1, <2>2 DEF Kinded
<1>2. CASE ~spec.bundled
    <2> DEFINE chosen == {g \in Hub[spec.repo] :
                             spec.allow = {} \/ \E pat \in spec.allow : FileMatches(g, pat)}
    <2>1. Fetch(d, spec, dest) =
            {<<dest, "record">>} \cup {<<dest \o f[1], f[2]>> : f \in chosen}
        BY <1>2, Zenon DEF Fetch
    <2>2. \A f \in chosen : f[2] \in OnDisk
        BY <1>2, PubsAssumption DEF OnDisk
    <2>3. "record" \in OnDisk
        BY DEF OnDisk, Own
    <2> HIDE DEF chosen
    <2> QED  BY <2>1, <2>2, <2>3 DEF Kinded
<1> QED  BY <1>1, <1>2

(* The block of a variant is one the manifest declares. *)
LEMMA BlockDeclared ==
    ASSUME NEW p \in Pubs, NEW v \in Variants(p), NEW b \in Blocks(p, v)
    PROVE  \A s \in Specs(b) : HasSource(s) => s.bundled \/ s.repo \in DOMAIN Hub
<1>1. \E w \in Variants(p) : b = p.block[w]
    BY DEF Blocks, Variants
<1> QED  BY <1>1, PubsAssumption

(* All that a pull writes has known kinds. *)
LEMMA PullKinded ==
    ASSUME NEW d, NEW p \in Pubs, NEW v \in Variants(p), NEW b \in Blocks(p, v)
    PROVE  Kinded(PullFiles(d, p, v, b))
<1> DEFINE cp == Checkpoint(p, v, b)
           keys == {x \in DOMAIN b.extras : HasSource(b.extras[x])}
<1>1. HasSource(b.main) => Kinded(Fetch(d, b.main, cp))
    BY BlockDeclared, FetchKinded DEF Specs
<1>2. ASSUME NEW k \in keys
      PROVE  Kinded(Fetch(d, b.extras[k], GoDest(p, b, k, cp)))
    BY BlockDeclared, FetchKinded DEF Specs
<1>3. PullFiles(d, p, v, b) =
        (IF HasSource(b.main) THEN Fetch(d, b.main, cp) ELSE {})
            \cup UNION {Fetch(d, b.extras[k], GoDest(p, b, k, cp)) : k \in keys}
    BY Zenon DEF PullFiles, MainFiles
<1> HIDE DEF cp, keys
<1> QED  BY <1>1, <1>2, <1>3 DEF Kinded

LEMMA TopThere == \A p : Top \in Variants(p)
BY DEF Variants

LEMMA BoundType == MaxEvents \in Nat
BY PubsAssumption

(* The values of the state, for every manifest and repository. *)
THEOREM LookupTypeOKHolds == Spec => []LookupTypeOK
<1>1. Init => LookupTypeOK
    <2> SUFFICES ASSUME Init PROVE LookupTypeOK
        OBVIOUS
    <2>1. DiskOK([q \in Other |-> {"model"}])
        BY DEF DiskOK, OnDisk, Kinds
    <2>2. Kinded(pub.shipped)
        BY PubsAssumption DEF Init, Kinded, OnDisk
    <2>3. DiskOK(disk)
        BY <2>1, <2>2, PutKeeps DEF Init
    <2>4. pub \in Pubs /\ Top \in Variants(pub)
        BY DEF Init, Variants
    <2>5. pulled.v = Top /\ pulled.done = FALSE /\ ran.v = Top /\ ran.out = "none"
        BY DEF Init, Idle, NoRun
    <2>6. events \in 0..MaxEvents
        BY BoundType DEF Init
    <2>7. \A h \in have : h[1] \in Pubs /\ h[2] \in Variants(h[1])
        BY DEF Init
    <2> HIDE DEF Init
    <2> QED  BY <2>3, <2>4, <2>5, <2>6, <2>7 DEF LookupTypeOK, DiskOK
<1>2. LookupTypeOK /\ [Next]_vars => LookupTypeOK'
    <2> SUFFICES ASSUME LookupTypeOK, [Next]_vars PROVE LookupTypeOK'
        OBVIOUS
    <2>0. DiskOK(disk) /\ pub \in Pubs
        BY DEF LookupTypeOK, DiskOK
    <2>a. events \in 0..MaxEvents
        BY DEF LookupTypeOK
    <2>b. \A h \in have : h[1] \in Pubs /\ h[2] \in Variants(h[1])
        BY DEF LookupTypeOK
    <2>1. ASSUME NEW v \in Variants(pub), Pull(v) PROVE LookupTypeOK'
        <3>1. PICK b \in Blocks(pub, v) :
                  disk' = Marked(Put(disk, PullFiles(disk, pub, v, b)), Checkpoint(pub, v, b))
            BY <2>1 DEF Pull
        <3>2. DiskOK(disk')
            <4>1. DiskOK(Put(disk, PullFiles(disk, pub, v, b)))
                BY <2>0, PullKinded, PutKeeps
            <4>2. Kinded({<<Checkpoint(pub, v, b), "mark">>})
                BY DEF Kinded, OnDisk, Own
            <4> QED  BY <3>1, <4>1, <4>2, PutKeeps DEF Marked
        <3>3. pub' = pub /\ events' = events /\ have' = have \cup {<<pub, v>>}
            BY <2>1 DEF Pull
        <3>4. pulled'.v = v /\ pulled'.done = TRUE /\ ran'.v = Top /\ ran'.out = "none"
            BY <2>1 DEF Pull, NoRun
        <3>5. \A h \in have' : h[1] \in Pubs /\ h[2] \in Variants(h[1])
            <4> SUFFICES ASSUME NEW h \in have' PROVE h[1] \in Pubs /\ h[2] \in Variants(h[1])
                OBVIOUS
            <4>1. CASE h \in have
                BY <4>1, <2>b
            <4>2. CASE h = <<pub, v>>
                BY <4>2, <2>0
            <4> QED  BY <4>1, <4>2, <3>3
        <3> QED  BY <3>2, <3>3, <3>4, <3>5, <2>0, TopThere DEF LookupTypeOK, DiskOK
    <2>2. ASSUME NEW v \in Variants(pub), PullFails(v) PROVE LookupTypeOK'
        <3>0. PICK b \in Blocks(pub, v) :
                  \E files \in SUBSET PullFiles(disk, pub, v, b) : disk' = Put(disk, files)
            BY <2>2 DEF PullFails
        <3>1. PICK files \in SUBSET PullFiles(disk, pub, v, b) : disk' = Put(disk, files)
            BY <3>0
        <3>2. Kinded(files)
            BY <2>0, PullKinded DEF Kinded
        <3>3. DiskOK(disk')
            BY <3>1, <3>2, <2>0, PutKeeps
        <3>4. pub' = pub /\ have' = have /\ events' = events + 1 /\ events < MaxEvents
            BY <2>2 DEF PullFails, Event
        <3>5. pulled'.v = Top /\ pulled'.done = FALSE /\ ran'.v = Top /\ ran'.out = "none"
            BY <2>2 DEF PullFails, Idle, NoRun
        <3>6. events' \in 0..MaxEvents
            BY <3>4, <2>a, BoundType
        <3> QED  BY <3>3, <3>4, <3>5, <3>6, <2>0, TopThere DEF LookupTypeOK, DiskOK
    <2>3. ASSUME NEW v \in Variants(pub), Look(v) \/ \E c \in Other : LookAt(v, c)
          PROVE  LookupTypeOK'
        <3>1. UNCHANGED <<pub, disk, pulled, have, events>>
            BY <2>3 DEF Look, LookAt
        <3>2. \E w \in Variants(pub) \cup {"--checkpoint"} : \E cs :
                 ran' = [v |-> w, out |-> Search(disk, pub, v, cs)]
            BY <2>3 DEF Look, LookAt
        <3>3. \A cs : Search(disk, pub, v, cs) \in
                 {"found", "invalid layout", "unknown variant", "weights missing", "extra missing"}
            BY DEF Search
        <3>4. /\ ran'.v \in Variants(pub) \cup {"--checkpoint"}
              /\ ran'.out \in {"found", "invalid layout", "unknown variant",
                               "weights missing", "extra missing"}
            <4>1. PICK w \in Variants(pub) \cup {"--checkpoint"} :
                     \E cs : ran' = [v |-> w, out |-> Search(disk, pub, v, cs)]
                BY <3>2
            <4>2. PICK cs : ran' = [v |-> w, out |-> Search(disk, pub, v, cs)]
                BY <4>1
            <4>3. ran'.v = w /\ ran'.out = Search(disk, pub, v, cs)
                BY <4>2
            <4> QED  BY <4>1, <4>3, <3>3
        <3> QED  BY <3>1, <3>4 DEF LookupTypeOK
    <2>4. ASSUME NEW p \in Pubs, Sync(p) PROVE LookupTypeOK'
        <3> DEFINE rest == [q \in DOMAIN disk \ Under(disk, Bundle) |-> disk[q]]
        <3>1. DiskOK(rest) /\ Kinded(p.shipped)
            BY <2>0, PubsAssumption DEF DiskOK, Kinded, OnDisk
        <3>2. disk' = Put(rest, p.shipped)
            BY <2>4 DEF Sync
        <3>3. DiskOK(disk')
            BY <3>1, <3>2, PutKeeps
        <3>4. pub' = p /\ have' = have /\ events' = events + 1 /\ events < MaxEvents
            BY <2>4 DEF Sync, Event
        <3>5. pulled'.v = Top /\ pulled'.done = FALSE /\ ran'.v = Top /\ ran'.out = "none"
            BY <2>4 DEF Sync, Idle, NoRun
        <3>6. events' \in 0..MaxEvents
            BY <3>4, <2>a, BoundType
        <3> QED  BY <3>3, <3>4, <3>5, <3>6, TopThere DEF LookupTypeOK, DiskOK
    <2>5. CASE UNCHANGED vars
        BY <2>5 DEF LookupTypeOK, vars
    <2> QED  BY <2>1, <2>2, <2>3, <2>4, <2>5 DEF Next
<1> QED  BY <1>1, <1>2, PTL DEF Spec

-----------------------------------------------------------------------------
(* Paths, and what grows below them.                                       *)

Extends(q, p) == \E r \in Paths : q = p \o r

(* A path begins with another one when it is that one with something after it. *)
LEMMA PathParts ==
    ASSUME NEW p \in Paths, NEW q \in Paths
    PROVE  Len(q) >= Len(p) /\ SubSeq(q, 1, Len(p)) = p <=> Extends(q, p)
<1>1. Len(p) \in Nat /\ Len(q) \in Nat
    BY LenProperties DEF Paths
<1>2. ASSUME Len(q) >= Len(p), SubSeq(q, 1, Len(p)) = p PROVE Extends(q, p)
    <2> DEFINE r == SubSeq(q, Len(p) + 1, Len(q))
    <2>1. r \in Paths
        <3>1. \A i \in Len(p) + 1 .. Len(q) : q[i] \in Names
            BY <1>1, ElementOfSeq DEF Paths
        <3> QED  BY <1>1, <3>1, SubSeqProperties DEF Paths
    <2>2. SubSeq(q, 1, Len(p)) \o r = SubSeq(q, 1, Len(q))
        <3>1. /\ q \in Seq(Names) /\ 1 \in 1 .. Len(q) + 1
              /\ Len(p) \in 1 - 1 .. Len(q) /\ Len(q) \in Len(p) .. Len(q)
            BY <1>1, <1>2 DEF Paths
        <3> QED  BY <3>1, ConcatAdjacentSubSeq
    <2>3. SubSeq(q, 1, Len(q)) = q
        BY SubSeqFull DEF Paths
    <2> HIDE DEF r
    <2> QED  BY <1>2, <2>1, <2>2, <2>3 DEF Extends
<1>3. ASSUME NEW r \in Paths, q = p \o r PROVE Len(q) >= Len(p) /\ SubSeq(q, 1, Len(p)) = p
    <2>1. Len(q) = Len(p) + Len(r) /\ Len(r) \in Nat
        BY <1>3, ConcatProperties, LenProperties DEF Paths
    <2>2. CASE Len(p) = 0
        <3>1. p = <<>>
            BY <2>2, EmptySeq DEF Paths
        <3>2. SubSeq(q, 1, 0) = <<>>
            BY SubSeqEmpty
        <3> QED  BY <1>1, <2>1, <2>2, <3>1, <3>2
    <2>3. CASE Len(p) # 0
        <3>1. SubSeq(p \o r, 1, Len(p)) = SubSeq(p, 1, Len(p))
            BY <1>1, <2>3, SubSeqOfConcat1 DEF Paths
        <3>2. SubSeq(p, 1, Len(p)) = p
            BY SubSeqFull DEF Paths
        <3> QED  BY <1>1, <1>3, <2>1, <3>1, <3>2
    <2> QED  BY <2>2, <2>3
<1> QED  BY <1>2, <1>3 DEF Extends

(* What is below a path. *)
LEMMA UnderIs ==
    ASSUME NEW d, DOMAIN d \subseteq Paths, NEW p \in Paths, NEW q
    PROVE  q \in Under(d, p) <=> q \in DOMAIN d /\ Extends(q, p)
BY PathParts DEF Under

(* One path below another. *)
LEMMA ExtendsFurther ==
    ASSUME NEW p \in Paths, NEW x \in Paths
    PROVE  /\ p \o x \in Paths /\ Extends(p \o x, p) /\ Extends(p, p)
           /\ \A q : Extends(q, p \o x) => Extends(q, p)
<1>1. p \o x \in Paths
    BY ConcatProperties DEF Paths
<1>2. Extends(p \o x, p)
    BY DEF Extends
<1>3. Extends(p, p)
    <2>1. p \o <<>> = p /\ <<>> \in Paths
        BY ConcatEmptySeq, EmptySeq DEF Paths
    <2> QED  BY <2>1 DEF Extends
<1>4. ASSUME NEW q, Extends(q, p \o x) PROVE Extends(q, p)
    <2>1. PICK r \in Paths : q = (p \o x) \o r
        BY <1>4 DEF Extends
    <2>2. q = p \o (x \o r) /\ x \o r \in Paths
        BY <2>1, ConcatAssociative, ConcatProperties DEF Paths
    <2> QED  BY <2>2 DEF Extends
<1> QED  BY <1>1, <1>2, <1>3, <1>4

(* Everything that is below p in d is there in e, too. *)
Grown(d, e, p) ==
    \A q \in DOMAIN d : Extends(q, p) => q \in DOMAIN e /\ d[q] \subseteq e[q]

(* A disk on which paths are paths. *)
IsDisk(d) == DOMAIN d \subseteq Paths

(* What grew below p grew below every path below p. *)
LEMMA GrownFurther ==
    ASSUME NEW d, NEW e, NEW p \in Paths, NEW x \in Paths, Grown(d, e, p)
    PROVE  Grown(d, e, p \o x)
BY ExtendsFurther DEF Grown

(* Then it has more files, and more directories. *)
LEMMA GrownFiles ==
    ASSUME NEW d, NEW e, IsDisk(d), IsDisk(e), NEW p \in Paths, Grown(d, e, p)
    PROVE  /\ Files(d, p) \subseteq Files(e, p)
           /\ IsDir(d, p) => IsDir(e, p)
           /\ \A kind : Below(d, p, kind) => Below(e, p, kind)
           /\ \A names : Named(d, p, names) => Named(e, p, names)
<1>1. Files(d, p) \subseteq Files(e, p)
    <2>1. Extends(p, p)
        BY ExtendsFurther
    <2> QED  BY <2>1 DEF Files, Grown
<1>2. \A q \in Under(d, p) : q \in Under(e, p) /\ d[q] \subseteq e[q]
    BY UnderIs DEF Grown, IsDisk
<1>3. IsDir(d, p) => IsDir(e, p)
    BY <1>2 DEF IsDir
<1>4. \A kind : Below(d, p, kind) => Below(e, p, kind)
    BY <1>2 DEF Below
<1>5. \A names : Named(d, p, names) => Named(e, p, names)
    BY <1>2 DEF Named
<1> QED  BY <1>1, <1>3, <1>4, <1>5

(* What the patterns match stays matched. *)
LEMMA GrownMatches ==
    ASSUME NEW d, NEW e, IsDisk(d), IsDisk(e), NEW p \in Paths, Grown(d, e, p),
           NEW pat \in Patterns
    PROVE  /\ PyMatch(d, p, pat) => PyMatch(e, p, pat)
           /\ GoMatch(d, p, pat) => GoMatch(e, p, pat)
<1>1. pat.dir \in Paths
    BY DEF Patterns
<1>2. p \o pat.dir \in Paths /\ Grown(d, e, p \o pat.dir)
    BY <1>1, ExtendsFurther, GrownFurther
<1>3. /\ Files(d, p \o pat.dir) \subseteq Files(e, p \o pat.dir)
      /\ \A kind : Below(d, p \o pat.dir, kind) => Below(e, p \o pat.dir, kind)
      /\ \A kind : Below(d, p, kind) => Below(e, p, kind)
      /\ Named(d, p, pat.dirs) => Named(e, p, pat.dirs)
    BY <1>2, GrownFiles
<1>4. ASSUME NEW n \in pat.dirs, IsDir(d, p \o pat.dir \o <<n>>)
      PROVE  IsDir(e, p \o pat.dir \o <<n>>)
    <2>1. <<n>> \in Paths
        BY DEF Patterns, Paths
    <2>2. p \o pat.dir \o <<n>> \in Paths /\ Grown(d, e, p \o pat.dir \o <<n>>)
        BY <1>2, <2>1, ExtendsFurther, GrownFurther
    <2> QED  BY <1>4, <2>2, GrownFiles
<1>5. PyMatch(d, p, pat) => PyMatch(e, p, pat)
    BY <1>3, <1>4 DEF PyMatch
<1>6. GoMatch(d, p, pat) => GoMatch(e, p, pat)
    BY <1>3 DEF GoMatch
<1> QED  BY <1>5, <1>6

(* Whatever has the weights, by either set of rules, keeps them. *)
LEMMA GrownReady ==
    ASSUME NEW d, NEW e, IsDisk(d), IsDisk(e), NEW p \in Paths, Grown(d, e, p),
           NEW spec \in WeightSpecs
    PROVE  /\ WeightFiles(d, p) => WeightFiles(e, p)
           /\ Usable(d, p, spec.ns) => Usable(e, p, spec.ns)
           /\ PyCached(d, p, spec) => PyCached(e, p, spec)
           /\ PyReady(d, p, spec) => PyReady(e, p, spec)
           /\ GoReady(d, p, spec) => GoReady(e, p, spec)
<1>1. Files(d, p) \subseteq Files(e, p) /\ (IsDir(d, p) => IsDir(e, p))
    BY GrownFiles
<1>2. /\ NormStats(d, p) => NormStats(e, p)
      /\ WeightFiles(d, p) => WeightFiles(e, p)
    BY <1>1 DEF NormStats, WeightFiles
<1>3. spec.allow \subseteq Patterns /\ spec.any \subseteq Patterns
    BY DEF WeightSpecs
<1>4. \A pat \in spec.allow \cup spec.any :
          /\ PyMatch(d, p, pat) => PyMatch(e, p, pat)
          /\ GoMatch(d, p, pat) => GoMatch(e, p, pat)
    BY <1>3, GrownMatches
<1>5. Usable(d, p, spec.ns) => Usable(e, p, spec.ns)
    BY <1>1, <1>2 DEF Usable
<1>6. PyCached(d, p, spec) => PyCached(e, p, spec)
    BY <1>1, <1>2, <1>4, <1>5 DEF PyCached
<1>7. PyReady(d, p, spec) => PyReady(e, p, spec)
    BY <1>1, <1>2, <1>4, <1>6 DEF PyReady
<1>8. GoCached(d, p, spec) => GoCached(e, p, spec)
    BY <1>1, <1>2, <1>4, <1>5 DEF GoCached
<1>9. GoReady(d, p, spec) => GoReady(e, p, spec)
    BY <1>1, <1>2, <1>4, <1>8 DEF GoReady
<1> QED  BY <1>2, <1>5, <1>6, <1>7, <1>9

-----------------------------------------------------------------------------
(* What the venv sees of a directory depends on what is below it, only.    *)

SameUnder(d, e, p) == Grown(d, e, p) /\ Grown(e, d, p)

(* A directory in another one is below it. *)
LEMMA ChildrenBelow ==
    ASSUME NEW d, IsDisk(d), NEW p \in Paths, NEW c \in Children(d, p)
    PROVE  \E x \in Paths : c = p \o x
<1>1. PICK q \in Under(d, p) \ {p} : c = SubSeq(q, 1, Len(p) + 1)
    BY DEF Children
<1>2. q \in Paths /\ q # p /\ Len(q) >= Len(p) /\ SubSeq(q, 1, Len(p)) = p
    BY <1>1 DEF Under, IsDisk
<1>3. Len(p) \in Nat /\ Len(q) \in Nat
    BY <1>2, LenProperties DEF Paths
<1>4. Len(q) # Len(p)
    BY <1>2, SubSeqFull DEF Paths
<1>5. SubSeq(q, 1, Len(p)) \o SubSeq(q, Len(p) + 1, Len(p) + 1) = SubSeq(q, 1, Len(p) + 1)
    <2>1. /\ q \in Seq(Names) /\ 1 \in 1 .. Len(q) + 1
          /\ Len(p) \in 1 - 1 .. Len(q) /\ Len(p) + 1 \in Len(p) .. Len(q)
        BY <1>2, <1>3, <1>4 DEF Paths
    <2> QED  BY <2>1, ConcatAdjacentSubSeq
<1>6. SubSeq(q, Len(p) + 1, Len(p) + 1) \in Paths
    <2>1. \A i \in Len(p) + 1 .. Len(p) + 1 : q[i] \in Names
        BY <1>2, <1>3, <1>4, ElementOfSeq DEF Paths
    <2> QED  BY <1>3, <2>1, SubSeqProperties DEF Paths
<1> QED  BY <1>1, <1>2, <1>5, <1>6

(* Two disks that agree below p have the same weights there. *)
LEMMA SameLocal ==
    ASSUME NEW d, NEW e, IsDisk(d), IsDisk(e), NEW p \in Paths, SameUnder(d, e, p),
           NEW spec \in WeightSpecs
    PROVE  HasLocal(d, p, spec) <=> HasLocal(e, p, spec)
<1>1. Under(d, p) = Under(e, p)
    <2>1. \A q : q \in Under(d, p) <=> q \in DOMAIN d /\ Extends(q, p)
        BY UnderIs DEF IsDisk
    <2>2. \A q : q \in Under(e, p) <=> q \in DOMAIN e /\ Extends(q, p)
        BY UnderIs DEF IsDisk
    <2>3. \A q : q \in Under(d, p) <=> q \in Under(e, p)
        BY <2>1, <2>2 DEF SameUnder, Grown
    <2> QED  BY <2>3
<1>2. Children(d, p) = Children(e, p) /\ (IsDir(d, p) <=> IsDir(e, p))
    BY <1>1 DEF Children, IsDir
<1>3. ASSUME NEW q \in {p} \cup Children(d, p)
      PROVE  /\ WeightFiles(d, q) <=> WeightFiles(e, q)
             /\ Usable(d, q, spec.ns) <=> Usable(e, q, spec.ns)
             /\ PyCached(d, q, spec) <=> PyCached(e, q, spec)
             /\ PyReady(d, q, spec) <=> PyReady(e, q, spec)
    <2>1. q \in Paths /\ Grown(d, e, q) /\ Grown(e, d, q)
        <3>1. CASE q = p
            BY <3>1 DEF SameUnder
        <3>2. CASE q \in Children(d, p)
            <4>1. PICK x \in Paths : q = p \o x
                BY <3>2, ChildrenBelow
            <4> QED  BY <4>1, GrownFurther, ExtendsFurther DEF SameUnder
        <3> QED  BY <3>1, <3>2
    <2>2. /\ WeightFiles(d, q) => WeightFiles(e, q)
          /\ Usable(d, q, spec.ns) => Usable(e, q, spec.ns)
          /\ PyCached(d, q, spec) => PyCached(e, q, spec)
          /\ PyReady(d, q, spec) => PyReady(e, q, spec)
        BY <2>1, GrownReady
    <2>3. /\ WeightFiles(e, q) => WeightFiles(d, q)
          /\ Usable(e, q, spec.ns) => Usable(d, q, spec.ns)
          /\ PyCached(e, q, spec) => PyCached(d, q, spec)
          /\ PyReady(e, q, spec) => PyReady(d, q, spec)
        BY <2>1, GrownReady
    <2> QED  BY <2>2, <2>3
<1>4. CASE spec.allow # {}
    BY <1>2, <1>3, <1>4 DEF HasLocal
<1>5. CASE spec.allow = {}
    <2>1. /\ WeightFiles(d, p) <=> WeightFiles(e, p)
          /\ Usable(d, p, spec.ns) <=> Usable(e, p, spec.ns)
          /\ PyReady(d, p, spec) <=> PyReady(e, p, spec)
        BY <1>3
    <2>2. (\E q \in Children(d, p) : Usable(d, q, spec.ns) \/ PyReady(d, q, spec))
            <=> \E q \in Children(e, p) : Usable(e, q, spec.ns) \/ PyReady(e, q, spec)
        BY <1>2, <1>3
    <2> QED  BY <1>2, <1>5, <2>1, <2>2 DEF HasLocal
<1> QED  BY <1>4, <1>5

(* What is below p is a directory at p. *)
LEMMA MatchInDir ==
    ASSUME NEW d, IsDisk(d), NEW p \in Paths, NEW pat \in Patterns, PyMatch(d, p, pat)
    PROVE  IsDir(d, p)
<1>0. pat.dir \in Paths /\ p \o pat.dir \in Paths
    BY ExtendsFurther DEF Patterns
<1>1. CASE Files(d, p \o pat.dir) # {}
    <2>1. p \o pat.dir \in DOMAIN d
        BY <1>1 DEF Files
    <2>2. Extends(p \o pat.dir, p)
        BY <1>0, ExtendsFurther
    <2> QED  BY <2>1, <2>2, UnderIs DEF IsDir, IsDisk
<1>2. CASE Under(d, p) # {}
    BY <1>2 DEF IsDir
<1>3. CASE \E n \in pat.dirs : IsDir(d, p \o pat.dir \o <<n>>)
    <2>1. PICK n \in pat.dirs : IsDir(d, p \o pat.dir \o <<n>>)
        BY <1>3
    <2>2. <<n>> \in Paths
        BY DEF Patterns, Paths
    <2>3. PICK q : q \in Under(d, p \o pat.dir \o <<n>>)
        BY <2>1 DEF IsDir
    <2>4. q \in DOMAIN d /\ Extends(q, p)
        BY <1>0, <2>2, <2>3, UnderIs, ExtendsFurther DEF IsDisk
    <2> QED  BY <2>4, UnderIs DEF IsDir, IsDisk
<1>4. \A kind : Below(d, p, kind) => Under(d, p) # {}
    BY DEF Below
<1>5. \A names : Named(d, p, names) => Under(d, p) # {}
    BY DEF Named
<1> QED  BY <1>1, <1>2, <1>3, <1>4, <1>5 DEF PyMatch

(* Where no pattern names a directory, both sets of rules say the same. *)
LEMMA RulesAgree ==
    ASSUME NEW d, IsDisk(d), NEW p \in Paths, NEW spec \in WeightSpecs,
           \A pat \in spec.allow \cup spec.any : pat.form # "dir", GoReady(d, p, spec)
    PROVE  PyReady(d, p, spec) /\ (spec.any = {} => HasLocal(d, p, spec))
<1>0. spec.allow \subseteq Patterns /\ spec.any \subseteq Patterns
    BY DEF WeightSpecs
<1>1. \A pat \in spec.allow \cup spec.any : GoMatch(d, p, pat) => PyMatch(d, p, pat)
    BY DEF GoMatch, PyMatch, Own
<1>2. GoCached(d, p, spec) => PyCached(d, p, spec)
    BY <1>1 DEF GoCached, PyCached
<1>3. CASE spec.any = {}
    <2>1. PyCached(d, p, spec) /\ PyReady(d, p, spec)
        BY <1>2, <1>3 DEF GoReady, PyReady
    <2>2. IsDir(d, p)
        BY <2>1 DEF PyCached, Usable
    <2>3. HasLocal(d, p, spec)
        BY <2>1, <2>2 DEF HasLocal
    <2> QED  BY <2>1, <2>3
<1>4. CASE spec.any # {}
    <2>1. PICK pat \in spec.any : GoMatch(d, p, pat)
        BY <1>4 DEF GoReady
    <2>2. PyMatch(d, p, pat) /\ IsDir(d, p)
        BY <1>0, <1>1, <2>1, MatchInDir
    <2> QED  BY <1>4, <2>1, <2>2 DEF GoReady, PyReady
<1> QED  BY <1>3, <1>4

-----------------------------------------------------------------------------
(* What writing files adds.                                                *)

(* A path that is not in the bundle directory. *)
Away(p) == p \in Paths /\ p # <<>> /\ p[1] # "bundle"

LEMMA ShortSeq ==
    ASSUME NEW S, NEW a \in S, NEW b \in S
    PROVE  <<>> \in Seq(S) /\ <<a>> \in Seq(S) /\ <<a, b>> \in Seq(S)
OBVIOUS

LEMMA BundlePath == Bundle \in Paths /\ Len(Bundle) = 1 /\ Bundle[1] = "bundle"
<1>1. "bundle" \in Names
    BY DEF Names
<1>2. Bundle \in Paths
    BY <1>1, ShortSeq DEF Bundle, Paths
<1> QED  BY <1>2 DEF Bundle

(* Nothing below such a path is in the bundle directory either. *)
LEMMA AwayFurther ==
    ASSUME NEW p, Away(p), NEW x \in Paths
    PROVE  Away(p \o x) /\ ~Extends(p \o x, Bundle)
<1>1. p \in Seq(Names) /\ x \in Seq(Names) /\ Len(p) \in Nat \ {0} /\ Len(x) \in Nat
    BY EmptySeq, LenProperties DEF Away, Paths
<1>2. p \o x \in Paths /\ Len(p \o x) = Len(p) + Len(x) /\ (p \o x)[1] = p[1]
    BY <1>1, ConcatProperties DEF Paths
<1>3. Away(p \o x)
    <2>1. Len(p \o x) # 0
        BY <1>1, <1>2
    <2> QED  BY <1>2, <2>1, EmptySeq DEF Away
<1>4. ASSUME Extends(p \o x, Bundle) PROVE FALSE
    <2>1. PICK r \in Paths : p \o x = Bundle \o r
        BY <1>4 DEF Extends
    <2>2. Len(r) \in Nat
        BY LenProperties DEF Paths
    <2>3. (Bundle \o r)[1] = Bundle[1]
        BY <2>2, BundlePath, ConcatProperties DEF Paths
    <2> QED  BY <1>2, <2>1, <2>3, BundlePath DEF Away
<1> QED  BY <1>3, <1>4

(* What the directories are, and what is in them. *)
LEMMA PutIs ==
    ASSUME NEW d, NEW files
    PROVE  /\ \A q : q \in DOMAIN Put(d, files) <=> q \in DOMAIN d \/ \E f \in files : q = f[1]
           /\ \A q \in DOMAIN Put(d, files) : \A kind :
                 kind \in Put(d, files)[q] <=>
                    (q \in DOMAIN d /\ kind \in d[q]) \/ \E f \in files : f[1] = q /\ f[2] = kind
<1>1. \A q : q \in DOMAIN Put(d, files) <=> q \in DOMAIN d \/ \E f \in files : q = f[1]
    BY DEF Put
<1>2. ASSUME NEW q \in DOMAIN Put(d, files), NEW kind
      PROVE  kind \in Put(d, files)[q] <=>
                (q \in DOMAIN d /\ kind \in d[q]) \/ \E f \in files : f[1] = q /\ f[2] = kind
    <2>1. Put(d, files)[q] = Files(d, q) \cup {f[2] : f \in {g \in files : g[1] = q}}
        BY DEF Put
    <2>2. kind \in {f[2] : f \in {g \in files : g[1] = q}}
            <=> \E f \in files : f[1] = q /\ f[2] = kind
        OBVIOUS
    <2>3. kind \in Files(d, q) <=> q \in DOMAIN d /\ kind \in d[q]
        BY DEF Files
    <2> QED  BY <2>1, <2>2, <2>3
<1> QED  BY <1>1, <1>2

(* Writing files only adds to a disk. *)
LEMMA PutGrows ==
    ASSUME NEW d, IsDisk(d), NEW files, \A f \in files : f[1] \in Paths, NEW p
    PROVE  IsDisk(Put(d, files)) /\ Grown(d, Put(d, files), p)
<1>1. IsDisk(Put(d, files))
    BY PutIs DEF IsDisk
<1>2. \A q \in DOMAIN d : q \in DOMAIN Put(d, files) /\ d[q] \subseteq Put(d, files)[q]
    BY PutIs
<1> QED  BY <1>1, <1>2 DEF Grown

(* A file that changes nothing in the bundle directory. *)
Harmless(d, f) ==
    f[1] \in Paths /\ (Extends(f[1], Bundle) => f[1] \in DOMAIN d /\ f[2] \in d[f[1]])

(* Such files leave the bundle directory as it is. *)
LEMMA PutHarmless ==
    ASSUME NEW d, IsDisk(d), NEW files, \A f \in files : Harmless(d, f)
    PROVE  SameUnder(d, Put(d, files), Bundle)
<1>1. Grown(d, Put(d, files), Bundle)
    BY PutGrows DEF Harmless
<1>2. ASSUME NEW q \in DOMAIN Put(d, files), Extends(q, Bundle)
      PROVE  q \in DOMAIN d /\ Put(d, files)[q] \subseteq d[q]
    <2>1. q \in DOMAIN d
        BY <1>2, PutIs DEF Harmless
    <2>2. ASSUME NEW kind \in Put(d, files)[q] PROVE kind \in d[q]
        <3>1. (q \in DOMAIN d /\ kind \in d[q]) \/ \E f \in files : f[1] = q /\ f[2] = kind
            BY PutIs
        <3> QED  BY <1>2, <3>1 DEF Harmless
    <2> QED  BY <2>1, <2>2
<1> QED  BY <1>1, <1>2 DEF SameUnder, Grown

-----------------------------------------------------------------------------
(* Where the host puts things.                                             *)

(* A block of a publication that has one for the variant. *)
IsBlock(p, v, b) == p \in Pubs /\ v \in Variants(p) /\ b \in Blocks(p, v)

(* What such a block is made of. *)
LEMMA BlockIs ==
    ASSUME NEW p, NEW v, NEW b, IsBlock(p, v, b)
    PROVE  /\ \E w \in Variants(p) : b = p.block[w]
           /\ b.dir \in Paths /\ Specs(b) \subseteq WeightSpecs
           /\ DOMAIN b.extras \subseteq STRING
           /\ b.main \in WeightSpecs
           /\ \A k \in DOMAIN b.extras : k \in STRING /\ b.extras[k] \in WeightSpecs
           /\ \A s \in Specs(b) : HasSource(s) => s.bundled \/ s.repo \in DOMAIN Hub
           /\ p.name \in Names /\ v \in Names /\ p.block[Top].main.repo \in Names
<1>1. PICK w \in Variants(p) : b = p.block[w]
    BY DEF IsBlock, Blocks, Variants
<1>2. /\ b.dir \in Paths /\ Specs(b) \subseteq WeightSpecs
      /\ DOMAIN b.extras \subseteq STRING
    BY <1>1, NamesAssumption DEF IsBlock
<1>3. \A k \in DOMAIN b.extras : k \in STRING /\ b.extras[k] \in WeightSpecs
    BY <1>2 DEF Specs
<1>4. b.main \in WeightSpecs
    BY <1>2 DEF Specs
<1>5. \A s \in Specs(b) : HasSource(s) => s.bundled \/ s.repo \in DOMAIN Hub
    BY BlockDeclared DEF IsBlock
<1>6. p.name \in Names /\ v \in Names
    BY NamesAssumption DEF IsBlock, Variants, Top, Names
<1>7. p.block[Top].main.repo \in Names
    <2>1. Top \in Variants(p) /\ p \in Pubs
        BY DEF Variants, IsBlock
    <2>2. Specs(p.block[Top]) \subseteq WeightSpecs
        BY <2>1, NamesAssumption
    <2>3. p.block[Top].main \in WeightSpecs
        BY <2>2 DEF Specs
    <2> QED  BY <2>3 DEF WeightSpecs
<1> QED  BY <1>1, <1>2, <1>3, <1>4, <1>5, <1>6, <1>7

(* The weights go to the store or to the models, never into the bundle. *)
LEMMA CheckpointAway ==
    ASSUME NEW p, NEW v, NEW b, IsBlock(p, v, b)
    PROVE  Away(Checkpoint(p, v, b))
<1>0. "store" \in Names /\ "models" \in Names /\ "checkpoint" \in Names
    BY DEF Names
<1>1. Away(GoBase(p))
    <2>1. ASSUME NEW a \in Names PROVE Away(<<"store", a>>) /\ Away(<<"models", a>>)
        BY <1>0, <2>1, ShortSeq DEF Away, Paths
    <2> QED  BY <2>1, BlockIs DEF GoBase
<1>2. GoRel(p, v, b) \in Paths
    <2>1. b.main.repo \in Names
        BY BlockIs DEF WeightSpecs
    <2>2. <<"checkpoint", b.main.repo>> \in Paths
        BY <1>0, <2>1, ShortSeq DEF Paths
    <2>3. <<"checkpoint", v>> \in Paths
        BY <1>0, BlockIs, ShortSeq DEF Paths
    <2>4. <<>> \in Paths /\ <<"checkpoint">> \in Paths
        BY <1>0, ShortSeq DEF Paths
    <2>5. b.dir \in Paths
        BY BlockIs
    <2> QED  BY <2>2, <2>3, <2>4, <2>5 DEF GoRel
<1> QED  BY <1>1, <1>2, AwayFurther DEF Checkpoint

(* So does an extra, unless it has a relative_dir. *)
LEMMA DestPlace ==
    ASSUME NEW p, NEW v, NEW b, IsBlock(p, v, b), NEW k \in DOMAIN b.extras
    PROVE  LET dest == GoDest(p, b, k, Checkpoint(p, v, b))
           IN  \/ Away(dest)
               \/ dest = Bundle \o b.extras[k].rel /\ b.extras[k].rel # <<>>
<1> DEFINE cp == Checkpoint(p, v, b)
           spec == b.extras[k]
           sub == IF spec.dir # <<>> THEN spec.dir
                  ELSE IF p.version = 4 THEN <<"extra", k>> ELSE spec.subdir
           cached == <<"models", IF spec.cache = None THEN k ELSE spec.cache>>
<1>0. "extra" \in Names /\ "models" \in Names
    BY DEF Names
<1>1. spec \in WeightSpecs /\ k \in Names
    BY BlockIs DEF Names
<1>2. spec.dir \in Paths /\ spec.subdir \in Paths /\ spec.cache \in Names
    BY <1>1 DEF WeightSpecs
<1>3. <<"extra", k>> \in Paths
    BY <1>0, <1>1, ShortSeq DEF Paths
<1>4. sub \in Paths
    BY <1>2, <1>3
<1>5. Away(cached)
    BY <1>0, <1>1, <1>2, ShortSeq DEF Away, Paths
<1>6. Away(cp \o sub)
    BY <1>4, CheckpointAway, AwayFurther
<1>7. GoDest(p, b, k, cp) = IF sub # <<>> THEN cp \o sub
                            ELSE IF spec.rel # <<>> THEN Bundle \o spec.rel ELSE cached
    BY Zenon DEF GoDest
<1> HIDE DEF cp, spec, sub, cached
<1>8. Away(GoDest(p, b, k, cp)) \/ (GoDest(p, b, k, cp) = Bundle \o spec.rel /\ spec.rel # <<>>)
    BY <1>5, <1>6, <1>7
<1> QED  BY <1>8, Zenon DEF cp, spec

(* What a download writes is below its destination, *)
LEMMA FetchBelow ==
    ASSUME NEW d, IsDisk(d), NEW spec \in WeightSpecs, NEW dest \in Paths,
           spec.bundled \/ spec.repo \in DOMAIN Hub, NEW f \in Fetch(d, spec, dest)
    PROVE  \E x \in Paths : f[1] = dest \o x
<1>1. CASE spec.bundled = TRUE
    <2> DEFINE from == Bundle \o spec.rel
               there == {g \in Under(d, from) \X OnDisk : g[2] \in d[g[1]]}
    <2>1. Fetch(d, spec, dest) =
            {<<dest \o SubSeq(r[1], Len(from) + 1, Len(r[1])), r[2]>> : r \in there}
        BY <1>1, Zenon DEF Fetch
    <2>2. from \in Paths
        BY BundlePath, ExtendsFurther DEF WeightSpecs
    <2>3. \A r \in there : r[1] \in Under(d, from)
        OBVIOUS
    <2> HIDE DEF from, there
    <2>4. PICK r \in there : f = <<dest \o SubSeq(r[1], Len(from) + 1, Len(r[1])), r[2]>>
        BY <2>1
    <2>5. r[1] \in Paths /\ Len(from) \in Nat /\ Len(r[1]) \in Nat
        <3>1. r[1] \in Paths
            BY <2>3 DEF Under, IsDisk
        <3> QED  BY <2>2, <3>1, LenProperties DEF Paths
    <2>6. SubSeq(r[1], Len(from) + 1, Len(r[1])) \in Paths
        <3>1. \A i \in Len(from) + 1 .. Len(r[1]) : r[1][i] \in Names
            BY <2>5, ElementOfSeq DEF Paths
        <3> QED  BY <2>5, <3>1, SubSeqProperties DEF Paths
    <2> QED  BY <2>4, <2>6
<1>2. CASE spec.bundled = FALSE
    <2> DEFINE chosen == {g \in Hub[spec.repo] :
                             spec.allow = {} \/ \E pat \in spec.allow : FileMatches(g, pat)}
    <2>1. Fetch(d, spec, dest) =
            {<<dest, "record">>} \cup {<<dest \o g[1], g[2]>> : g \in chosen}
        BY <1>2, Zenon DEF Fetch
    <2>2. \A g \in chosen : g[1] \in Paths
        BY <1>2, NamesAssumption
    <2>3. dest \o <<>> = dest /\ <<>> \in Paths
        BY ConcatEmptySeq, EmptySeq DEF Paths
    <2> HIDE DEF chosen
    <2>4. CASE f = <<dest, "record">>
        BY <2>3, <2>4
    <2>5. CASE f \in {<<dest \o g[1], g[2]>> : g \in chosen}
        <3>1. PICK g \in chosen : f = <<dest \o g[1], g[2]>>
            BY <2>5
        <3> QED  BY <2>2, <3>1
    <2> QED  BY <2>1, <2>4, <2>5
<1>3. spec.bundled \in BOOLEAN
    BY DEF WeightSpecs
<1> QED  BY <1>1, <1>2, <1>3

(* and there already when the destination is where the bundle has it. *)
LEMMA FetchHome ==
    ASSUME NEW d, IsDisk(d), NEW spec \in WeightSpecs, spec.bundled = TRUE,
           NEW f \in Fetch(d, spec, Bundle \o spec.rel)
    PROVE  f[1] \in DOMAIN d /\ f[2] \in d[f[1]]
<1> DEFINE from == Bundle \o spec.rel
           there == {g \in Under(d, from) \X OnDisk : g[2] \in d[g[1]]}
<1>1. Fetch(d, spec, from) =
        {<<from \o SubSeq(r[1], Len(from) + 1, Len(r[1])), r[2]>> : r \in there}
    BY Zenon DEF Fetch
<1>2. from \in Paths
    BY BundlePath, ExtendsFurther DEF WeightSpecs
<1>3. \A r \in there : r[1] \in Under(d, from) /\ r[2] \in d[r[1]]
    OBVIOUS
<1>4. f \in Fetch(d, spec, from)
    OBVIOUS
<1> HIDE DEF from, there
<1>5. PICK r \in there : f = <<from \o SubSeq(r[1], Len(from) + 1, Len(r[1])), r[2]>>
    BY <1>1, <1>4
<1>6. r[1] \in DOMAIN d /\ r[1] \in Paths /\ Len(r[1]) >= Len(from)
         /\ SubSeq(r[1], 1, Len(from)) = from
    BY <1>3 DEF Under, IsDisk
<1>7. Len(from) \in Nat /\ Len(r[1]) \in Nat
    BY <1>2, <1>6, LenProperties DEF Paths
<1>8. SubSeq(r[1], 1, Len(from)) \o SubSeq(r[1], Len(from) + 1, Len(r[1]))
        = SubSeq(r[1], 1, Len(r[1]))
    <2>1. /\ r[1] \in Seq(Names) /\ 1 \in 1 .. Len(r[1]) + 1
          /\ Len(from) \in 1 - 1 .. Len(r[1]) /\ Len(r[1]) \in Len(from) .. Len(r[1])
        BY <1>6, <1>7 DEF Paths
    <2> QED  BY <2>1, ConcatAdjacentSubSeq
<1>9. SubSeq(r[1], 1, Len(r[1])) = r[1]
    BY <1>6, SubSeqFull DEF Paths
<1>10. f[1] = r[1] /\ f[2] = r[2]
    BY <1>5, <1>6, <1>8, <1>9
<1> QED  BY <1>3, <1>6, <1>10

-----------------------------------------------------------------------------
(* What a pull leaves.                                                     *)

(* The disk of a bundle that was only unpacked. *)
Shipped(p) == Put(<<>>, p.shipped)

LEMMA ShippedIsDisk ==
    ASSUME NEW p \in Pubs
    PROVE  IsDisk(Shipped(p)) /\ \A f \in p.shipped : f[1] \in Paths
<1>1. \A f \in p.shipped : f[1] \in Paths
    BY NamesAssumption
<1>2. DOMAIN <<>> = {}
    OBVIOUS
<1>3. IsDisk(<<>>)
    BY <1>2 DEF IsDisk
<1> QED  BY <1>1, <1>3, PutGrows DEF Shipped

(* The place of an extra. *)
Dest(p, v, b, k) == GoDest(p, b, k, Checkpoint(p, v, b))

(* An extra that the bundle has is where it came from. *)
LEMMA HomeOnly ==
    ASSUME NEW p, NEW v, NEW b, IsBlock(p, v, b), NEW k \in DOMAIN b.extras,
           ~Away(Dest(p, v, b, k))
    PROVE  /\ Dest(p, v, b, k) = Bundle \o b.extras[k].rel
           /\ b.extras[k].rel \in Paths
           /\ DownloadsOutside(p) => b.extras[k].bundled = TRUE
<1>1. Dest(p, v, b, k) = Bundle \o b.extras[k].rel /\ b.extras[k].rel # <<>>
    BY DestPlace DEF Dest
<1>2. b.extras[k] \in WeightSpecs
    BY BlockIs
<1>3. b.extras[k].rel \in Paths /\ b.extras[k].bundled \in BOOLEAN
    BY <1>2 DEF WeightSpecs
<1>4. DownloadsOutside(p) => b.extras[k].bundled
    <2>1. PICK w \in Variants(p) : b = p.block[w]
        BY BlockIs
    <2> QED  BY <1>1, <2>1 DEF DownloadsOutside
<1> QED  BY <1>1, <1>3, <1>4

(* A pull writes below the weights and below every extra. *)
LEMMA PullWrites ==
    ASSUME NEW d, NEW p, NEW v, NEW b, NEW f \in PullFiles(d, p, v, b)
    PROVE  \/ HasSource(b.main) /\ f \in Fetch(d, b.main, Checkpoint(p, v, b))
           \/ \E k \in DOMAIN b.extras :
                 HasSource(b.extras[k]) /\ f \in Fetch(d, b.extras[k], Dest(p, v, b, k))
<1> DEFINE cp == Checkpoint(p, v, b)
           keys == {x \in DOMAIN b.extras : HasSource(b.extras[x])}
<1>1. PullFiles(d, p, v, b) =
        (IF HasSource(b.main) THEN Fetch(d, b.main, cp) ELSE {})
            \cup UNION {Fetch(d, b.extras[k], GoDest(p, b, k, cp)) : k \in keys}
    BY Zenon DEF PullFiles, MainFiles
<1>2. \A k \in keys : k \in DOMAIN b.extras /\ HasSource(b.extras[k])
    OBVIOUS
<1>3. \A k \in keys : GoDest(p, b, k, cp) = Dest(p, v, b, k)
    BY DEF Dest
<1>4. cp = Checkpoint(p, v, b)
    OBVIOUS
<1> HIDE DEF cp, keys
<1>5. CASE HasSource(b.main) /\ f \in Fetch(d, b.main, cp)
    BY <1>4, <1>5
<1>6. CASE f \in UNION {Fetch(d, b.extras[k], GoDest(p, b, k, cp)) : k \in keys}
    <2>1. PICK k \in keys : f \in Fetch(d, b.extras[k], GoDest(p, b, k, cp))
        BY <1>6
    <2> QED  BY <1>2, <1>3, <2>1
<1> QED  BY <1>1, <1>5, <1>6

(* A pull adds nothing to the bundle directory. *)
LEMMA PullHarmless ==
    ASSUME NEW d, IsDisk(d), NEW p, NEW v, NEW b, IsBlock(p, v, b),
           NEW f \in PullFiles(d, p, v, b)
    PROVE  f[1] \in Paths /\ (DownloadsOutside(p) => Harmless(d, f))
<1>1. ASSUME NEW spec \in Specs(b), HasSource(spec), NEW dest, Away(dest),
             f \in Fetch(d, spec, dest)
      PROVE  f[1] \in Paths /\ Harmless(d, f)
    <2>1. spec \in WeightSpecs /\ (spec.bundled \/ spec.repo \in DOMAIN Hub) /\ dest \in Paths
        BY <1>1, BlockIs DEF Away
    <2>2. PICK x \in Paths : f[1] = dest \o x
        BY <1>1, <2>1, FetchBelow
    <2>3. f[1] \in Paths /\ ~Extends(f[1], Bundle)
        BY <1>1, <2>2, AwayFurther DEF Away
    <2> QED  BY <2>3 DEF Harmless
<1>2. CASE HasSource(b.main) /\ f \in Fetch(d, b.main, Checkpoint(p, v, b))
    BY <1>1, <1>2, CheckpointAway DEF Specs
<1>3. ASSUME NEW k \in DOMAIN b.extras, HasSource(b.extras[k]),
             f \in Fetch(d, b.extras[k], Dest(p, v, b, k))
      PROVE  f[1] \in Paths /\ (DownloadsOutside(p) => Harmless(d, f))
    <2>1. CASE Away(Dest(p, v, b, k))
        BY <1>1, <1>3, <2>1 DEF Specs
    <2>2. CASE ~Away(Dest(p, v, b, k))
        <3>1. /\ Dest(p, v, b, k) = Bundle \o b.extras[k].rel
              /\ b.extras[k].rel \in Paths
              /\ DownloadsOutside(p) => b.extras[k].bundled = TRUE
            BY <2>2, HomeOnly
        <3>2. b.extras[k] \in WeightSpecs
            BY BlockIs
        <3>3. b.extras[k].bundled \/ b.extras[k].repo \in DOMAIN Hub
            BY <1>3, BlockIs DEF Specs
        <3>4. Bundle \o b.extras[k].rel \in Paths
            BY <3>1, BundlePath, ExtendsFurther
        <3>5. f[1] \in Paths
            <4>1. PICK x \in Paths : f[1] = (Bundle \o b.extras[k].rel) \o x
                BY <1>3, <3>1, <3>2, <3>3, <3>4, FetchBelow
            <4> QED  BY <3>4, <4>1, ExtendsFurther
        <3>6. ASSUME DownloadsOutside(p) PROVE f[1] \in DOMAIN d /\ f[2] \in d[f[1]]
            BY <1>3, <3>1, <3>2, <3>6, FetchHome
        <3> QED  BY <3>5, <3>6 DEF Harmless
    <2> QED  BY <2>1, <2>2
<1> QED  BY <1>2, <1>3, PullWrites

(* Nothing outside the bundle directory is lost. *)
Kept(d, e) == \A q : Away(q) => Grown(d, e, q)

(* What a pull that succeeded has made ready. *)
BlockReady(d, p, v, b) ==
    /\ HasSource(b.main) => GoReady(d, Checkpoint(p, v, b), b.main)
    /\ \A k \in DOMAIN b.extras :
          GoReady(IF Away(Dest(p, v, b, k)) THEN d ELSE Shipped(p), Dest(p, v, b, k), b.extras[k])

(* It stays ready as long as nothing is lost. *)
LEMMA BlockStays ==
    ASSUME NEW d, NEW e, IsDisk(d), IsDisk(e), Kept(d, e),
           NEW p, NEW v, NEW b, IsBlock(p, v, b), BlockReady(d, p, v, b)
    PROVE  BlockReady(e, p, v, b)
<1>1. ASSUME NEW q, Away(q), NEW spec \in WeightSpecs, GoReady(d, q, spec)
      PROVE  GoReady(e, q, spec)
    <2>1. q \in Paths /\ Grown(d, e, q)
        BY <1>1 DEF Away, Kept
    <2> QED  BY <1>1, <2>1, GrownReady
<1>2. HasSource(b.main) => GoReady(e, Checkpoint(p, v, b), b.main)
    BY <1>1, BlockIs, CheckpointAway DEF BlockReady
<1>3. ASSUME NEW k \in DOMAIN b.extras
      PROVE  GoReady(IF Away(Dest(p, v, b, k)) THEN e ELSE Shipped(p),
                     Dest(p, v, b, k), b.extras[k])
    <2>1. b.extras[k] \in WeightSpecs
        BY BlockIs
    <2>2. GoReady(IF Away(Dest(p, v, b, k)) THEN d ELSE Shipped(p),
                  Dest(p, v, b, k), b.extras[k])
        BY DEF BlockReady
    <2> QED  BY <1>1, <2>1, <2>2
<1> QED  BY <1>2, <1>3 DEF BlockReady

(* A pull that succeeded made its block ready. *)
LEMMA PullMakesReady ==
    ASSUME NEW d, NEW p, NEW v, NEW b, IsBlock(p, v, b), PullOK(d, p, v, b),
           NEW e, e = Put(d, PullFiles(d, p, v, b)), IsDisk(e),
           SameUnder(e, Shipped(p), Bundle)
    PROVE  BlockReady(e, p, v, b)
<1>1. /\ HasSource(b.main) => GoReady(e, Checkpoint(p, v, b), b.main)
      /\ \A k \in DOMAIN b.extras : GoReady(e, Dest(p, v, b, k), b.extras[k])
    BY Zenon DEF PullOK, Dest
<1>2. ASSUME NEW k \in DOMAIN b.extras, ~Away(Dest(p, v, b, k))
      PROVE  GoReady(Shipped(p), Dest(p, v, b, k), b.extras[k])
    <2>1. /\ Dest(p, v, b, k) = Bundle \o b.extras[k].rel
          /\ b.extras[k].rel \in Paths
          /\ DownloadsOutside(p) => b.extras[k].bundled = TRUE
        BY <1>2, HomeOnly
    <2>2. Dest(p, v, b, k) \in Paths /\ Grown(e, Shipped(p), Dest(p, v, b, k))
        <3>1. Grown(e, Shipped(p), Bundle)
            BY DEF SameUnder
        <3>2. Grown(e, Shipped(p), Bundle \o b.extras[k].rel)
            BY <2>1, <3>1, BundlePath, GrownFurther
        <3>3. Bundle \o b.extras[k].rel \in Paths
            BY <2>1, BundlePath, ExtendsFurther
        <3> QED  BY <2>1, <3>2, <3>3
    <2>3. IsDisk(Shipped(p))
        BY ShippedIsDisk DEF IsBlock
    <2>4. b.extras[k] \in WeightSpecs
        BY BlockIs
    <2> QED  BY <1>1, <2>2, <2>3, <2>4, GrownReady
<1> QED  BY <1>1, <1>2 DEF BlockReady

(* A variant selects at most one block. *)
LEMMA OneBlock ==
    ASSUME NEW p, NEW v, NEW b \in Blocks(p, v), NEW c \in Blocks(p, v)
    PROVE  b = c
BY DEF Blocks

(* On a disk without a bundle, the bundle directory is what is unpacked there. *)
LEMMA Unpacked ==
    ASSUME NEW d, IsDisk(d), \A q \in DOMAIN d : ~Extends(q, Bundle), NEW p \in Pubs
    PROVE  SameUnder(Put(d, p.shipped), Shipped(p), Bundle)
<1> DEFINE s == Put(<<>>, p.shipped)
           e == Put(d, p.shipped)
<1>0. DOMAIN <<>> = {}
    OBVIOUS
<1>1. \A q : Extends(q, Bundle) => (q \in DOMAIN e <=> q \in DOMAIN s)
    BY <1>0, PutIs
<1>2. ASSUME NEW q \in DOMAIN e, q \in DOMAIN s, Extends(q, Bundle)
      PROVE  e[q] = s[q]
    <2>1. \A kind : kind \in e[q] <=> \E f \in p.shipped : f[1] = q /\ f[2] = kind
        BY <1>2, PutIs
    <2>2. \A kind : kind \in s[q] <=> \E f \in p.shipped : f[1] = q /\ f[2] = kind
        BY <1>0, <1>2, PutIs
    <2>3. e[q] \subseteq s[q] /\ s[q] \subseteq e[q]
        BY <2>1, <2>2
    <2> QED  BY <2>3
<1> QED  BY <1>1, <1>2 DEF SameUnder, Grown, Shipped

-----------------------------------------------------------------------------
(* The bundle directory holds what the bundle ships, and what was once     *)
(* pulled is still ready.                                                  *)
LookInv ==
    /\ IsDisk(disk)
    /\ DownloadsOutside(pub) => SameUnder(disk, Shipped(pub), Bundle)
    /\ \A h \in have : DownloadsOutside(h[1]) =>
          \A b \in Blocks(h[1], h[2]) : BlockReady(disk, h[1], h[2], b)

(* What holds of the history does not suffer from a disk that only grew. *)
LEMMA HaveStays ==
    ASSUME LookupTypeOK, LookInv, NEW e, IsDisk(e), Kept(disk, e),
           NEW h \in have, DownloadsOutside(h[1]), NEW b \in Blocks(h[1], h[2])
    PROVE  BlockReady(e, h[1], h[2], b)
<1>1. IsBlock(h[1], h[2], b)
    BY DEF LookupTypeOK, IsBlock
<1>2. BlockReady(disk, h[1], h[2], b) /\ IsDisk(disk)
    BY DEF LookInv
<1> QED  BY <1>1, <1>2, BlockStays

(* Writing what a pull writes, or some of it. *)
LEMMA WritingKeeps ==
    ASSUME LookupTypeOK, LookInv, NEW v \in Variants(pub), NEW b \in Blocks(pub, v),
           NEW files \in SUBSET PullFiles(disk, pub, v, b)
    PROVE  /\ IsDisk(Put(disk, files)) /\ Kept(disk, Put(disk, files))
           /\ DownloadsOutside(pub) => SameUnder(Put(disk, files), Shipped(pub), Bundle)
<1>1. IsBlock(pub, v, b) /\ IsDisk(disk)
    BY DEF LookupTypeOK, IsBlock, LookInv
<1>2. \A f \in files : f[1] \in Paths /\ (DownloadsOutside(pub) => Harmless(disk, f))
    BY <1>1, PullHarmless
<1>3. IsDisk(Put(disk, files)) /\ Kept(disk, Put(disk, files))
    <2>1. \A p : IsDisk(Put(disk, files)) /\ Grown(disk, Put(disk, files), p)
        BY <1>1, <1>2, PutGrows
    <2> QED  BY <2>1 DEF Kept
<1>4. ASSUME DownloadsOutside(pub) PROVE SameUnder(Put(disk, files), Shipped(pub), Bundle)
    <2>1. SameUnder(disk, Put(disk, files), Bundle)
        BY <1>1, <1>2, <1>4, PutHarmless
    <2>2. SameUnder(disk, Shipped(pub), Bundle)
        BY <1>4 DEF LookInv
    <2> QED  BY <2>1, <2>2 DEF SameUnder, Grown
<1> QED  BY <1>3, <1>4

(* So does the marker beside the weights. *)
LEMMA MarkKeeps ==
    ASSUME NEW d, IsDisk(d), NEW p, NEW v, NEW b, IsBlock(p, v, b),
           NEW e, e = Marked(d, Checkpoint(p, v, b))
    PROVE  IsDisk(e) /\ Kept(d, e) /\ SameUnder(d, e, Bundle)
<1> DEFINE cp == Checkpoint(p, v, b)
<1>1. Away(cp)
    BY CheckpointAway
<1>2. cp \in Paths /\ ~Extends(cp, Bundle)
    <2>1. <<>> \in Paths /\ cp \o <<>> = cp
        BY <1>1, ConcatEmptySeq, EmptySeq DEF Away, Paths
    <2> QED  BY <1>1, <2>1, AwayFurther DEF Away
<1> HIDE DEF cp
<1>3. \A f \in {<<cp, "mark">>} : f[1] \in Paths /\ Harmless(d, f)
    BY <1>2 DEF Harmless
<1>4. e = Put(d, {<<cp, "mark">>})
    BY DEF Marked, cp
<1>5. \A q : IsDisk(e) /\ Grown(d, e, q)
    BY <1>3, <1>4, PutGrows
<1>6. SameUnder(d, e, Bundle)
    BY <1>3, <1>4, PutHarmless
<1> QED  BY <1>5, <1>6 DEF Kept

(* The invariant holds at the start, *)
LEMMA LookInvInit == Init => LookInv
<1> SUFFICES ASSUME Init PROVE LookInv
    OBVIOUS
<1> DEFINE other == [q \in Other |-> {"model"}]
<1>1. pub \in Pubs /\ disk = Put(other, pub.shipped) /\ have = {}
    BY DEF Init
<1>2. \A q \in DOMAIN other : Away(q)
    BY NamesAssumption DEF Away
<1>3. \A q \in DOMAIN other : q \in Paths /\ ~Extends(q, Bundle)
    <2> SUFFICES ASSUME NEW q \in DOMAIN other PROVE q \in Paths /\ ~Extends(q, Bundle)
        OBVIOUS
    <2>0. Away(q)
        BY <1>2
    <2>1. <<>> \in Paths
        BY EmptySeq DEF Paths
    <2>2. q \o <<>> = q
        BY <2>0, ConcatEmptySeq DEF Away, Paths
    <2> QED  BY <2>0, <2>1, <2>2, AwayFurther DEF Away
<1> HIDE DEF other
<1>4. IsDisk(other)
    BY <1>3 DEF IsDisk
<1>5. IsDisk(disk)
    BY <1>1, <1>4, ShippedIsDisk, PutGrows
<1>6. SameUnder(disk, Shipped(pub), Bundle)
    BY <1>1, <1>3, <1>4, Unpacked
<1> QED  BY <1>1, <1>5, <1>6 DEF LookInv

(* after a pull, *)
LEMMA LookInvPull ==
    ASSUME LookupTypeOK, LookInv, NEW v \in Variants(pub), Pull(v)
    PROVE  LookInv'
<1>1. PICK b \in Blocks(pub, v) :
         /\ PullOK(disk, pub, v, b)
         /\ disk' = Marked(Put(disk, PullFiles(disk, pub, v, b)), Checkpoint(pub, v, b))
    BY DEF Pull
<1>2. pub' = pub /\ have' = have \cup {<<pub, v>>}
    BY DEF Pull
<1>b. IsBlock(pub, v, b)
    BY DEF LookupTypeOK, IsBlock
<1> DEFINE after == Put(disk, PullFiles(disk, pub, v, b))
<1>a. /\ IsDisk(after) /\ Kept(disk, after)
      /\ DownloadsOutside(pub) => SameUnder(after, Shipped(pub), Bundle)
    BY WritingKeeps
<1>c. after = Put(disk, PullFiles(disk, pub, v, b))
    OBVIOUS
<1> HIDE DEF after
<1>d. IsDisk(disk') /\ Kept(after, disk') /\ SameUnder(after, disk', Bundle)
    BY <1>1, <1>a, <1>b, <1>c, MarkKeeps
<1>3. /\ IsDisk(disk') /\ Kept(disk, disk')
      /\ DownloadsOutside(pub) => SameUnder(disk', Shipped(pub), Bundle)
    <2>1. Kept(disk, disk')
        BY <1>a, <1>d DEF Kept, Grown
    <2>2. DownloadsOutside(pub) => SameUnder(disk', Shipped(pub), Bundle)
        BY <1>a, <1>d DEF SameUnder, Grown
    <2> QED  BY <1>d, <2>1, <2>2
<1>4. ASSUME NEW h \in have', DownloadsOutside(h[1]), NEW c \in Blocks(h[1], h[2])
      PROVE  BlockReady(disk', h[1], h[2], c)
    <2>1. CASE h \in have
        BY <1>3, <1>4, <2>1, HaveStays
    <2>2. CASE h = <<pub, v>>
        <3>1. h[1] = pub /\ h[2] = v
            BY <2>2
        <3>2. c = b
            BY <1>4, <3>1, OneBlock
        <3>3. BlockReady(after, pub, v, b)
            BY <1>1, <1>4, <1>a, <1>b, <1>c, <3>1, PullMakesReady
        <3> QED  BY <1>3, <1>a, <1>b, <1>d, <3>1, <3>2, <3>3, BlockStays
    <2> QED  BY <1>2, <2>1, <2>2
<1> QED  BY <1>2, <1>3, <1>4 DEF LookInv

(* after one that fails, *)
LEMMA LookInvPullFails ==
    ASSUME LookupTypeOK, LookInv, NEW v \in Variants(pub), PullFails(v)
    PROVE  LookInv'
<1>1. PICK b \in Blocks(pub, v) :
         \E files \in SUBSET PullFiles(disk, pub, v, b) : disk' = Put(disk, files)
    BY DEF PullFails
<1>2. PICK files \in SUBSET PullFiles(disk, pub, v, b) : disk' = Put(disk, files)
    BY <1>1
<1>3. pub' = pub /\ have' = have
    BY DEF PullFails
<1>4. /\ IsDisk(disk') /\ Kept(disk, disk')
      /\ DownloadsOutside(pub) => SameUnder(disk', Shipped(pub), Bundle)
    BY <1>2, WritingKeeps
<1>5. ASSUME NEW h \in have, DownloadsOutside(h[1]), NEW c \in Blocks(h[1], h[2])
      PROVE  BlockReady(disk', h[1], h[2], c)
    BY <1>4, <1>5, HaveStays
<1> QED  BY <1>3, <1>4, <1>5 DEF LookInv

(* and after a sync. *)
LEMMA LookInvSync ==
    ASSUME LookupTypeOK, LookInv, NEW p \in Pubs, Sync(p)
    PROVE  LookInv'
<1> DEFINE rest == [q \in DOMAIN disk \ Under(disk, Bundle) |-> disk[q]]
<1>1. pub' = p /\ have' = have /\ disk' = Put(rest, p.shipped)
    BY DEF Sync
<1>2. IsDisk(disk)
    BY DEF LookInv
<1>3. \A q : q \in DOMAIN rest <=> q \in DOMAIN disk /\ ~Extends(q, Bundle)
    BY <1>2, BundlePath, UnderIs DEF IsDisk
<1>4. IsDisk(rest) /\ \A q \in DOMAIN rest : ~Extends(q, Bundle) /\ rest[q] = disk[q]
    BY <1>2, <1>3 DEF IsDisk
<1> HIDE DEF rest
<1>5. \A q : IsDisk(disk') /\ Grown(rest, disk', q)
    BY <1>1, <1>4, ShippedIsDisk, PutGrows
<1>6. SameUnder(disk', Shipped(p), Bundle)
    BY <1>1, <1>4, Unpacked
<1>7. Kept(disk, disk')
    <2> SUFFICES ASSUME NEW q, Away(q), NEW r \in DOMAIN disk, Extends(r, q)
                 PROVE  r \in DOMAIN disk' /\ disk[r] \subseteq disk'[r]
        BY DEF Kept, Grown
    <2>1. ~Extends(r, Bundle)
        BY AwayFurther DEF Extends
    <2>2. r \in DOMAIN rest /\ rest[r] = disk[r]
        BY <1>3, <1>4, <2>1
    <2> QED  BY <1>5, <2>2 DEF Grown
<1>8. ASSUME NEW h \in have, DownloadsOutside(h[1]), NEW c \in Blocks(h[1], h[2])
      PROVE  BlockReady(disk', h[1], h[2], c)
    BY <1>5, <1>7, <1>8, HaveStays
<1> QED  BY <1>1, <1>5, <1>6, <1>8 DEF LookInv

LEMMA LookInvNext == LookupTypeOK /\ LookInv /\ [Next]_vars => LookInv'
<1> SUFFICES ASSUME LookupTypeOK, LookInv, [Next]_vars PROVE LookInv'
    OBVIOUS
<1>1. ASSUME UNCHANGED <<pub, disk, have>> PROVE LookInv'
    BY <1>1 DEF LookInv
<1>2. ASSUME NEW v \in Variants(pub), Look(v) \/ \E c \in Other : LookAt(v, c)
      PROVE  LookInv'
    BY <1>1, <1>2 DEF Look, LookAt
<1>3. CASE UNCHANGED vars
    BY <1>1, <1>3 DEF vars
<1> QED  BY <1>2, <1>3, LookInvPull, LookInvPullFails, LookInvSync DEF Next

(* The bundle directory stays as it was unpacked, and what a pull has made ready *)
(* stays ready, whatever other pulls and syncs do. *)
THEOREM LookInvHolds == Spec => []LookInv
<1>1. Init => LookInv
    BY LookInvInit
<1>2. LookupTypeOK /\ LookInv /\ [Next]_vars => LookInv'
    BY LookInvNext
<1> QED  BY <1>1, <1>2, LookupTypeOKHolds, PTL DEF Spec

-----------------------------------------------------------------------------
(* Where the venv looks for an extra is where the host put it. *)
LEMMA DestsAgree ==
    ASSUME NEW p, NEW v, NEW b, IsBlock(p, v, b), NEW k \in DOMAIN b.extras
    PROVE  PyDest(p, b, k, Checkpoint(p, v, b)) = Dest(p, v, b, k)
<1> DEFINE cp == Checkpoint(p, v, b)
           spec == b.extras[k]
<1>1. spec \in WeightSpecs
    BY BlockIs
<1>2. CASE p.version = 4 /\ spec.dir = <<>>
    <2> DEFINE given == [spec EXCEPT !.dir = <<"extra", k>>]
    <2>1. given.dir = <<"extra", k>>
        BY <1>1 DEF WeightSpecs
    <2>2. PyExtra(p, b, k) = given
        BY <1>2 DEF PyExtra
    <2>3. PyDest(p, b, k, cp) = cp \o <<"extra", k>>
        <3>1. PyExtra(p, b, k).dir # <<>> /\ PyExtra(p, b, k).dir = <<"extra", k>>
            BY <2>1, <2>2
        <3> QED  BY <3>1, Zenon DEF PyDest
    <2>4. GoDest(p, b, k, cp) = cp \o <<"extra", k>>
        BY <1>2, Zenon DEF GoDest
    <2> QED  BY <2>3, <2>4 DEF Dest
<1>3. CASE ~(p.version = 4 /\ spec.dir = <<>>)
    <2>1. PyExtra(p, b, k) = spec
        BY <1>3 DEF PyExtra
    <2>2. CASE spec.dir # <<>>
        <3>1. PyDest(p, b, k, cp) = cp \o spec.dir
            BY <2>1, <2>2, Zenon DEF PyDest
        <3>2. GoDest(p, b, k, cp) = cp \o spec.dir
            BY <2>2, Zenon DEF GoDest
        <3> QED  BY <3>1, <3>2 DEF Dest
    <2>3. CASE spec.dir = <<>>
        <3> DEFINE rest == IF spec.subdir # <<>> THEN cp \o spec.subdir
                           ELSE IF spec.rel # <<>> THEN Bundle \o spec.rel
                           ELSE <<"models", IF spec.cache = None THEN k ELSE spec.cache>>
        <3>1. PyDest(p, b, k, cp) = rest
            BY <2>1, <2>3, Zenon DEF PyDest
        <3>2. GoDest(p, b, k, cp) = rest
            BY <1>3, <2>3, Zenon DEF GoDest
        <3> HIDE DEF rest, cp
        <3>3. PyDest(p, b, k, cp) = GoDest(p, b, k, cp)
            BY <3>1, <3>2
        <3> QED  BY <3>3, Zenon DEF Dest, cp
    <2> QED  BY <2>2, <2>3
<1> QED  BY <1>2, <1>3

(* So is where it looks for the weights. *)
LEMMA WeightsAgree ==
    ASSUME NEW p, NEW v, NEW b
    PROVE  PyBase(p) \o PyRel(p, v, b) = Checkpoint(p, v, b)
<1>1. PyBase(p) = GoBase(p)
    BY DEF PyBase, GoBase
<1>2. PyRel(p, v, b) = GoRel(p, v, b)
    BY DEF PyRel, GoRel
<1> QED  BY <1>1, <1>2 DEF Checkpoint

(* The directory of the weights in the bundle. *)
LEMMA LocalPath ==
    ASSUME NEW p, NEW v, NEW b, IsBlock(p, v, b)
    PROVE  Bundle \o PyRel(p, v, b) \in Paths /\ PyRel(p, v, b) \in Paths
<1>1. b.main.repo \in Names /\ b.dir \in Paths /\ v \in Names /\ "checkpoint" \in Names
    BY BlockIs DEF WeightSpecs, Names
<1>2. <<"checkpoint", b.main.repo>> \in Paths /\ <<"checkpoint", v>> \in Paths
    BY <1>1, ShortSeq DEF Paths
<1>3. <<>> \in Paths /\ <<"checkpoint">> \in Paths
    BY <1>1, ShortSeq DEF Paths
<1>4. PyRel(p, v, b) \in Paths
    BY <1>1, <1>2, <1>3 DEF PyRel
<1> QED  BY <1>4, BundlePath, ExtendsFurther

(* What the venv finds in the bundle is what the bundle ships. *)
LEMMA LocalIsShipped ==
    ASSUME NEW d, IsDisk(d), NEW p, NEW v, NEW b, IsBlock(p, v, b),
           SameUnder(d, Shipped(p), Bundle)
    PROVE  HasLocal(d, Bundle \o PyRel(p, v, b), b.main) <=> ~ShipsNone(p, v, b)
<1> DEFINE local == Bundle \o PyRel(p, v, b)
<1>1. local \in Paths /\ PyRel(p, v, b) \in Paths
    BY LocalPath
<1>2. SameUnder(d, Shipped(p), local)
    BY <1>1, BundlePath, GrownFurther DEF SameUnder
<1>3. IsDisk(Shipped(p)) /\ b.main \in WeightSpecs
    BY ShippedIsDisk, BlockIs DEF IsBlock
<1>4. HasLocal(d, local, b.main) <=> HasLocal(Shipped(p), local, b.main)
    BY <1>1, <1>2, <1>3, SameLocal
<1> QED  BY <1>4 DEF ShipsNone, Shipped

(* An extra that was made ready is ready for the venv. *)
LEMMA ExtraFound ==
    ASSUME NEW d, IsDisk(d), NEW p, NEW v, NEW b, IsBlock(p, v, b),
           SameUnder(d, Shipped(p), Bundle), BlockReady(d, p, v, b),
           \A s \in Specs(b) : \A pat \in s.allow \cup s.any : pat.form # "dir",
           NEW k \in DOMAIN b.extras
    PROVE  PyReady(d, Dest(p, v, b, k), b.extras[k])
<1> DEFINE dest == Dest(p, v, b, k)
<1>1. b.extras[k] \in WeightSpecs /\ b.extras[k] \in Specs(b)
    BY BlockIs DEF Specs
<1>2. GoReady(IF Away(dest) THEN d ELSE Shipped(p), dest, b.extras[k])
    BY DEF BlockReady
<1>3. \A pat \in b.extras[k].allow \cup b.extras[k].any : pat.form # "dir"
    BY <1>1
<1>4. CASE Away(dest)
    <2>1. dest \in Paths /\ GoReady(d, dest, b.extras[k])
        BY <1>2, <1>4 DEF Away
    <2> QED  BY <1>1, <1>3, <2>1, RulesAgree
<1>5. CASE ~Away(dest)
    <2>1. /\ Dest(p, v, b, k) = Bundle \o b.extras[k].rel
          /\ b.extras[k].rel \in Paths
          /\ DownloadsOutside(p) => b.extras[k].bundled = TRUE
        BY <1>5, HomeOnly
    <2>2. Grown(Shipped(p), d, Bundle \o b.extras[k].rel)
        BY <2>1, BundlePath, GrownFurther DEF SameUnder
    <2>3. Bundle \o b.extras[k].rel \in Paths
        BY <2>1, BundlePath, ExtendsFurther
    <2>4. GoReady(Shipped(p), dest, b.extras[k]) /\ dest \in Paths
        BY <1>2, <1>5, <2>1, <2>3
    <2>5. IsDisk(Shipped(p))
        BY ShippedIsDisk DEF IsBlock
    <2>6. PyReady(Shipped(p), dest, b.extras[k])
        BY <1>1, <1>3, <2>4, <2>5, RulesAgree
    <2> QED  BY <1>1, <2>1, <2>2, <2>4, <2>5, <2>6, GrownReady
<1> QED  BY <1>4, <1>5

(* Once a pull has succeeded the venv finds weights and extras: DoneIsFound, for *)
(* every publication, repository and manifest. *)
THEOREM DoneIsFoundHolds == Spec => []DoneIsFound
<1>1. LookupTypeOK /\ LookInv => DoneIsFound
    <2> SUFFICES ASSUME LookupTypeOK, LookInv, NEW h \in have, h[1] = pub,
                        DownloadsOutside(pub), NEW b \in Blocks(pub, h[2]),
                        Agreed(b), ShipsNone(pub, h[2], b)
                 PROVE  /\ Found(disk, pub, h[2], b) = {Checkpoint(pub, h[2], b)}
                        /\ ExtrasThere(disk, pub, b, Checkpoint(pub, h[2], b))
        BY Zenon DEF DoneIsFound
    <2> DEFINE v == h[2]
               cp == Checkpoint(pub, v, b)
    <2>1. IsBlock(pub, v, b) /\ IsDisk(disk)
        BY DEF LookupTypeOK, IsBlock, LookInv
    <2>2. SameUnder(disk, Shipped(pub), Bundle) /\ BlockReady(disk, pub, v, b)
        BY DEF LookInv
    <2> HIDE DEF v
    <2>3. \A s \in Specs(b) : \A pat \in s.allow \cup s.any : pat.form # "dir"
        BY DEF Agreed
    <2>4. HasLocal(disk, cp, b.main)
        <3>1. b.main.any = {} /\ HasSource(b.main) /\ b.main \in Specs(b)
            BY DEF Agreed, HasSource, Specs
        <3>2. GoReady(disk, cp, b.main)
            BY <2>2, <3>1 DEF BlockReady
        <3>3. cp \in Paths /\ b.main \in WeightSpecs
            BY <2>1, CheckpointAway, BlockIs DEF Away
        <3>4. \A pat \in b.main.allow \cup b.main.any : pat.form # "dir"
            BY <2>3, <3>1
        <3> QED  BY <2>1, <3>1, <3>2, <3>3, <3>4, RulesAgree
    <2>5. ~HasLocal(disk, Bundle \o PyRel(pub, v, b), b.main)
        BY <2>1, <2>2, LocalIsShipped DEF v
    <2>6. Found(disk, pub, v, b) = {cp}
        <3>1. Found(disk, pub, v, b) =
                 {c \in {PyBase(pub) \o PyRel(pub, v, b)} : HasLocal(disk, c, b.main)}
            BY <2>5, Zenon DEF Found
        <3>2. PyBase(pub) \o PyRel(pub, v, b) = cp
            BY WeightsAgree
        <3> HIDE DEF cp
        <3> QED  BY <2>4, <3>1, <3>2
    <2>7. ASSUME NEW k \in DOMAIN b.extras
          PROVE  PyReady(disk, PyDest(pub, b, k, cp), b.extras[k])
        <3>1. PyDest(pub, b, k, cp) = Dest(pub, v, b, k)
            BY <2>1, DestsAgree
        <3>2. PyReady(disk, Dest(pub, v, b, k), b.extras[k])
            BY <2>1, <2>2, <2>3, ExtraFound
        <3> QED  BY <3>1, <3>2
    <2>8. ExtrasThere(disk, pub, b, cp)
        BY <2>7 DEF ExtrasThere
    <2> QED  BY <2>6, <2>8 DEF v
<1> QED  BY <1>1, LookupTypeOKHolds, LookInvHolds, PTL

(* A bundle that ships its weights is served from its own directory, whatever *)
(* pulls do to the cache: BundleComesFirst. *)
THEOREM BundleComesFirstHolds == Spec => BundleComesFirst
<1>1. LookupTypeOK /\ LookInv /\ LookInv' /\ [Next]_vars =>
         [\A v \in Variants(pub) : \A b \in Blocks(pub, v) :
             pub' = pub /\ ~ShipsNone(pub, v, b) /\ DownloadsOutside(pub) =>
                Found(disk, pub, v, b)' = Found(disk, pub, v, b)]_vars
    <2> SUFFICES ASSUME LookupTypeOK, LookInv, LookInv', NEW v \in Variants(pub),
                        NEW b \in Blocks(pub, v), pub' = pub, ~ShipsNone(pub, v, b),
                        DownloadsOutside(pub)
                 PROVE  Found(disk', pub', v, b) = Found(disk, pub, v, b)
        OBVIOUS
    <2> DEFINE local == Bundle \o PyRel(pub, v, b)
    <2>1. IsBlock(pub, v, b)
        BY DEF LookupTypeOK, IsBlock
    <2>2. /\ IsDisk(disk) /\ SameUnder(disk, Shipped(pub), Bundle)
          /\ IsDisk(disk') /\ SameUnder(disk', Shipped(pub), Bundle)
        BY DEF LookInv
    <2>3. HasLocal(disk, local, b.main) /\ HasLocal(disk', local, b.main)
        BY <2>1, <2>2, LocalIsShipped
    <2>4. Found(disk, pub, v, b) = {local}
        BY <2>3, Zenon DEF Found
    <2>5. Found(disk', pub, v, b) = {local}
        BY <2>3, Zenon DEF Found
    <2> QED  BY <2>4, <2>5
<1> QED  BY <1>1, LookupTypeOKHolds, LookInvHolds, PTL DEF Spec, BundleComesFirst
=============================================================================
