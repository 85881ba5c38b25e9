-------------------------- MODULE NativeLoadProofs --------------------------
(***************************************************************************)
(* Proofs about NativeLoad: the values of its state, the choice of an      *)
(* environment, and what is loaded from its directory, for every runtime   *)
(* map, machine and set of names.                                          *)
(***************************************************************************)
EXTENDS NativeLoad, SequenceTheorems, FiniteSetTheorems, WellFoundedInduction, TLAPS

\* A nonempty set of numbers has a least one.
LEMMA LeastNumber ==
    ASSUME NEW T, T \subseteq Nat, T # {}
    PROVE  \E x \in T : \A y \in T : x <= y
<1>1. IsWellFoundedOn(OpToRel(<, Nat), Nat)
  BY NatLessThanWellFounded
<1>2. PICK x \in T : \A y \in T : ~ (<<y, x>> \in OpToRel(<, Nat))
  BY <1>1, WFMin
<1>3. \A a, b \in Nat : b < a => <<b, a>> \in OpToRel(<, Nat)
  BY DEF OpToRel
<1>4. x \in Nat
  OBVIOUS
<1>5. ASSUME NEW y \in T PROVE x <= y
  <2>1. y \in Nat
    OBVIOUS
  <2>2. ~(y < x)
    BY <1>2, <1>3, <1>4, <2>1
  <2> QED
    BY <2>1, <2>2, <1>4
<1> QED
  BY <1>5

\* A bounded score over indices has a first best one.
LEMMA FirstBest ==
    ASSUME NEW G, G \subseteq Nat, G # {}, NEW f, \A i \in G : f[i] \in 0..50
    PROVE  \E i \in G : \A j \in G : f[i] > f[j] \/ (f[i] = f[j] /\ i <= j)
<1> DEFINE D == {50 - f[i] : i \in G}
<1>1. D \subseteq Nat /\ D # {}
  <2>1. \A i \in G : 50 - f[i] \in Nat
    <3>1. \A n \in 0..50 : 50 - n \in Nat
      OBVIOUS
    <3> QED
      BY <3>1
  <2>2. D \subseteq Nat
    BY <2>1
  <2>3. PICK i \in G : TRUE
    OBVIOUS
  <2>4. 50 - f[i] \in D
    OBVIOUS
  <2> QED
    BY <2>2, <2>4
<1>2. PICK d \in D : \A e \in D : d <= e
  BY <1>1, LeastNumber
<1> DEFINE H == {i \in G : 50 - f[i] = d}
<1>3. H \subseteq Nat /\ H # {}
  BY <1>2
<1>4. PICK i \in H : \A j \in H : i <= j
  BY <1>3, LeastNumber
<1>5. ASSUME NEW j \in G PROVE f[i] > f[j] \/ (f[i] = f[j] /\ i <= j)
  <2>1. d <= 50 - f[j]
    BY <1>2
  <2>2. f[i] \in 0..50 /\ f[j] \in 0..50 /\ 50 - f[i] = d
    BY <1>4
  <2>3. CASE j \in H
    <3>1. 50 - f[j] = d /\ i <= j
      BY <1>4, <2>3
    <3> QED
      BY <3>1, <2>2
  <2>4. CASE j \notin H
    <3>1. 50 - f[j] # d
      BY <2>4
    <3> QED
      BY <3>1, <2>1, <2>2
  <2> QED
    BY <2>3, <2>4
<1>6. i \in G
  BY <1>4
<1> QED
  BY <1>5, <1>6

-----------------------------------------------------------------------------
\* What a score can be.
LEMMA ScoreRange ==
    ASSUME NEW key, NEW host
    PROVE  Score(key, host) \in 0..50
<1> DEFINE k == ParseKey(key)
           h == ParseKey(host)
<1>1. SmScore(k, h) \in {0, 6, 10}
  BY DEF SmScore
<1>2. CuScore(k, h) \in {0, 3, 5}
  BY DEF CuScore
<1> HIDE DEF k, h
<1>3. KeyScore(k, h) \in 0..50
  BY <1>1, <1>2 DEF KeyScore
<1> USE DEF k, h
<1> QED
  BY <1>3 DEF Score

\* A positive score is only given on the host's own platform and Python.
LEMMA ScoreMeansPlace ==
    ASSUME NEW key, NEW host, Score(key, host) > 0
    PROVE  /\ IsKey(key) /\ IsKey(host)
           /\ SamePlace(ParseKey(key), ParseKey(host))
  BY DEF Score, KeyScore

\* The SM and the CUDA tag of a key are those of its tail.
LEMMA TailDecides ==
    ASSUME NEW key
    PROVE  /\ ParseKey(key).sm = FirstOf(SmOf, ParseKey(key).tail)
           /\ ParseKey(key).cu = FirstOf(CuOf, ParseKey(key).tail)
  BY DEF ParseKey

\* An environment that fits scores at least 33.
LEMMA FittingScore ==
    ASSUME NEW key, NEW host, IsKey(host), ParseKey(host).sm # None,
           ParseKey(host).cu # None, Fits(key, host)
    PROVE  Score(key, host) >= 33
<1> DEFINE k == ParseKey(key)
           h == ParseKey(host)
<1>1. IsKey(key) /\ SamePlace(k, h) /\ k.sm = h.sm /\ k.cu # None
      /\ Family(k.cu) = Family(h.cu) /\ h.sm # None /\ h.cu # None
  BY DEF Fits
<1>2. Score(key, host) = KeyScore(k, h)
  BY <1>1 DEF Score
<1> HIDE DEF k, h
<1>3. SmScore(k, h) = 10
  BY <1>1 DEF SmScore
<1>4. CuScore(k, h) \in {3, 5}
  BY <1>1 DEF CuScore
<1>5. KeyScore(k, h) >= 33
  BY <1>1, <1>3, <1>4 DEF KeyScore
<1> QED
  BY <1>2, <1>5

\* And only those that fit do.
LEMMA ScoreFits ==
    ASSUME NEW key, NEW host, IsKey(host), ParseKey(host).cu # None,
           Score(key, host) >= 33
    PROVE  Fits(key, host)
<1> DEFINE k == ParseKey(key)
           h == ParseKey(host)
<1>0. Score(key, host) \in 0..50
  BY ScoreRange
<1>1. IsKey(key) /\ IsKey(host) /\ SamePlace(k, h)
  BY <1>0, ScoreMeansPlace
<1>2. KeyScore(k, h) >= 33
  BY <1>1 DEF Score
<1>3. k.sm = FirstOf(SmOf, k.tail) /\ k.cu = FirstOf(CuOf, k.tail)
  BY <1>1, TailDecides
<1>4. h.sm = FirstOf(SmOf, h.tail) /\ h.cu = FirstOf(CuOf, h.tail)
  BY <1>1, TailDecides
<1>5. h.cu # None
  OBVIOUS
<1>6. SmScore(k, h) \in {0, 6, 10} /\ CuScore(k, h) \in {0, 3, 5}
  BY DEF SmScore, CuScore
<1>7. k.sm = h.sm /\ k.cu # None /\ Family(k.cu) = Family(h.cu)
  <2> HIDE DEF k, h
  <2>1. CASE k.tail = h.tail
    <3>1. k.sm = h.sm /\ k.cu = h.cu
      BY <2>1, <1>3, <1>4
    <3> QED
      BY <3>1, <1>5
  <2>2. CASE k.tail # h.tail
    <3>1. 20 + SmScore(k, h) + CuScore(k, h) >= 33
      BY <2>2, <1>1, <1>2 DEF KeyScore
    <3>2. SmScore(k, h) = 10 /\ CuScore(k, h) \in {3, 5}
      BY <3>1, <1>6
    <3>3. k.sm = h.sm
      BY <3>2 DEF SmScore
    <3>4. k.cu # None /\ (k.cu = h.cu \/ Family(k.cu) = Family(h.cu))
      BY <3>2 DEF CuScore
    <3> QED
      BY <3>3, <3>4
  <2> QED
    BY <2>1, <2>2
<1> QED
  BY <1>1, <1>7 DEF Fits

-----------------------------------------------------------------------------
\* A tail that has a segment of a kind has a number of that kind.
LEMMA FirstIsNumber ==
    ASSUME NEW f, f \in [DOMAIN f -> Nat], NEW tail,
           NEW i \in 1..Len(tail), tail[i] \in DOMAIN f, Len(tail) \in Nat
    PROVE  FirstOf(f, tail) \in Nat
<1> DEFINE at == {j \in 1..Len(tail) : tail[j] \in DOMAIN f}
<1>1. at \subseteq Nat /\ i \in at
  OBVIOUS
<1>2. \E j \in at : \A k \in at : j <= k
  BY <1>1, LeastNumber
<1> DEFINE first == CHOOSE j \in at : \A k \in at : j <= k
<1>3. first \in at
  BY <1>2
<1>4. at # {}
  BY <1>1
<1>5. FirstOf(f, tail) = f[tail[first]]
  BY <1>4 DEF FirstOf
<1>6. tail[first] \in DOMAIN f
  BY <1>3
<1> QED
  BY <1>5, <1>6

\* The host's key has an SM and a CUDA tag.
LEMMA HostParses ==
    ASSUME NEW p \in Pubs, NEW gpu \in Gpus \ {None}
    PROVE  /\ IsKey(HostKey(p, gpu))
           /\ ParseKey(HostKey(p, gpu)).sm # None
           /\ ParseKey(HostKey(p, gpu)).cu # None
<1> DEFINE name == <<gpu.sm, gpu.cu, gpu.os, gpu.arch, PySegment[p.abi]>>
           parts == Upto(name, 4)
           tail == Upto(parts, 2)
<1>1. gpu.sm \in DOMAIN SmOf /\ gpu.cu \in DOMAIN CuOf /\ PySegment[p.abi] \in DOMAIN PyOf
  BY LoadAssumption
<1>2. /\ SmOf \in [DOMAIN SmOf -> Nat] /\ CuOf \in [DOMAIN CuOf -> Nat] /\ None \notin Nat
  BY NamingAssumption
<1>3. Len(name) = 5 /\ name # <<>> /\ name[5] = PySegment[p.abi]
      /\ name[1] = gpu.sm /\ name[2] = gpu.cu
  OBVIOUS
<1> DEFINE S == {gpu.sm, gpu.cu, gpu.os, gpu.arch, PySegment[p.abi]}
<1>4. name \in Seq(S)
  OBVIOUS
<1> HIDE DEF name, S
<1>5. /\ parts \in Seq(S) /\ Len(parts) = 4
      /\ parts[1] = gpu.sm /\ parts[2] = gpu.cu
  BY <1>3, <1>4, SubSeqProperties DEF Upto
<1> HIDE DEF parts
<1>6. Len(tail) = 2 /\ tail[1] = gpu.sm /\ tail[2] = gpu.cu
  BY <1>5, SubSeqProperties DEF Upto
<1> HIDE DEF tail
<1>7. FirstOf(SmOf, tail) \in Nat
  <2>1. 1 \in 1..Len(tail) /\ tail[1] \in DOMAIN SmOf /\ Len(tail) \in Nat
    BY <1>1, <1>6
  <2> QED
    BY <2>1, <1>2, FirstIsNumber
<1>8. FirstOf(CuOf, tail) \in Nat
  <2>1. 2 \in 1..Len(tail) /\ tail[2] \in DOMAIN CuOf /\ Len(tail) \in Nat
    BY <1>1, <1>6
  <2> QED
    BY <2>1, <1>2, FirstIsNumber
<1>9. Tagged(name) /\ Parts(name) = parts
  BY <1>1, <1>3 DEF Tagged, Parts, parts
<1>10. IsKey(name)
  <2>1. Len(parts) = 4
    BY <1>5 DEF parts
  <2> QED
    BY <2>1, <1>9 DEF IsKey
<1>12. ParseKey(name).sm = FirstOf(SmOf, tail) /\ ParseKey(name).cu = FirstOf(CuOf, tail)
  <2>1. Len(parts) = 4
    BY <1>5 DEF parts
  <2>2. Upto(Parts(name), Len(Parts(name)) - 2) = tail
    <3>1. Len(Parts(name)) - 2 = 2
      BY <2>1, <1>9
    <3>2. tail = Upto(parts, 2)
      BY DEF tail
    <3> QED
      BY <3>1, <3>2, <1>9
  <2> QED
    BY <2>2 DEF ParseKey
<1>11. HostKey(p, gpu) = name
  BY DEF HostKey, name
<1> QED
  BY <1>2, <1>7, <1>8, <1>10, <1>11, <1>12

-----------------------------------------------------------------------------
\* The best key is one of the map's, and a key of the host's platform; it fits if
\* one of the map does.
LEMMA ResolvedKey ==
    ASSUME NEW keys, Len(keys) \in Nat, NEW host, NEW override,
           ResolveKey(keys, host, override) # None
    PROVE  LET key == ResolveKey(keys, host, override)
               all == {keys[i] : i \in 1..Len(keys)}
           IN  /\ key \in all
               /\ override \in all => key = override
               /\ override \notin all /\ host \notin all =>
                     /\ Score(key, host) > 0
                     /\ \A other \in all : Score(other, host) <= Score(key, host)
               /\ override \notin all /\ host \in all => key = host
<1> DEFINE all == {keys[i] : i \in 1..Len(keys)}
           good == {i \in 1..Len(keys) : Score(keys[i], host) > 0}
           Better(i, j) == \/ Score(keys[i], host) > Score(keys[j], host)
                           \/ Score(keys[i], host) = Score(keys[j], host) /\ i <= j
           best == CHOOSE i \in good : \A j \in good : Better(i, j)
<1>1. CASE override \in all
  BY <1>1 DEF ResolveKey
<1>2. CASE override \notin all /\ host \in all
  BY <1>2 DEF ResolveKey
<1>3. CASE override \notin all /\ host \notin all
  <2>1. good # {}
    BY <1>3 DEF ResolveKey
  <2>2. ResolveKey(keys, host, override) = keys[best]
    BY <1>3, <2>1 DEF ResolveKey
  <2>3. \E i \in good : \A j \in good : Better(i, j)
    <3> DEFINE f == [i \in good |-> Score(keys[i], host)]
    <3>1. good \subseteq Nat
      OBVIOUS
    <3>2. \A i \in good : f[i] \in 0..50
      BY ScoreRange
    <3> HIDE DEF good, f
    <3>3. \E i \in good : \A j \in good : f[i] > f[j] \/ (f[i] = f[j] /\ i <= j)
      BY <2>1, <3>1, <3>2, FirstBest
    <3>4. \A i \in good : f[i] = Score(keys[i], host)
      BY DEF f
    <3> QED
      BY <3>3, <3>4
  <2>4. best \in good /\ \A j \in good : Better(best, j)
    <3> HIDE DEF good, Better
    <3> QED
      BY <2>3
  <2>5. keys[best] \in all /\ Score(keys[best], host) > 0
    BY <2>4
  <2>6. ASSUME NEW b, b \in good, \A j \in good : Better(b, j),
               NEW i \in 1..Len(keys)
        PROVE  Score(keys[i], host) <= Score(keys[b], host)
    <3>1. Score(keys[i], host) \in 0..50 /\ Score(keys[b], host) \in 0..50
      BY ScoreRange
    <3>2. CASE i \in good
      <4>1. \/ Score(keys[b], host) > Score(keys[i], host)
            \/ Score(keys[b], host) = Score(keys[i], host)
        BY <2>6, <3>2
      <4>2. \A x, y \in 0..50 : x > y \/ x = y => y <= x
        OBVIOUS
      <4> HIDE DEF Better, good, best, all
      <4> QED
        BY <4>1, <4>2, <3>1, Zenon
    <3>3. CASE i \notin good
      <4>1. ~(Score(keys[i], host) > 0)
        BY <3>3
      <4>2. Score(keys[b], host) > 0
        BY <2>6
      <4>3. \A x, y \in 0..50 : ~(x > 0) /\ y > 0 => x <= y
        OBVIOUS
      <4> HIDE DEF Better, good, best, all
      <4> QED
        BY <4>1, <4>2, <4>3, <3>1, Zenon
    <3> QED
      BY <3>2, <3>3
  <2>7. ASSUME NEW i \in 1..Len(keys) PROVE Score(keys[i], host) <= Score(keys[best], host)
    <3> HIDE DEF good, Better
    <3> QED
      BY <2>4, <2>6
  <2> QED
    BY <1>3, <2>2, <2>5, <2>7
<1> QED
  BY <1>1, <1>2, <1>3

LEMMA KeysOfMap ==
    ASSUME NEW p \in Pubs
    PROVE  /\ Len(KeysOf(p)) = Len(p.cells) /\ Len(p.cells) \in Nat
           /\ Range1(KeysOf(p)) = {KeysOf(p)[i] : i \in 1..Len(KeysOf(p))}
<1>1. p.cells \in Seq(Range1(p.cells))
  BY LoadAssumption
<1>2. Len(p.cells) \in Nat
  BY <1>1
<1>3. Len(KeysOf(p)) = Len(p.cells)
  BY <1>2 DEF KeysOf
<1> QED
  BY <1>2, <1>3 DEF Range1

\* What resolve_bundle_env_key gives.
LEMMA ResolvedEnv ==
    ASSUME NEW p \in Pubs, NEW gpu \in Gpus \cup {None}, NEW override,
           NEW key \in EnvKeys(p, gpu, override)
    PROVE  /\ key \in Range1(KeysOf(p)) /\ key # None
           /\ override \notin Range1(KeysOf(p)) =>
                 /\ SamePlace(ParseKey(key), ParseKey(HostKey(p, gpu)))
                 /\ (\E k \in Range1(KeysOf(p)) : Fits(k, HostKey(p, gpu))) => Fits(key, HostKey(p, gpu))
<1> DEFINE keys == KeysOf(p)
           host == HostKey(p, gpu)
<1>1. None \notin Range1(keys)
  BY LoadAssumption
<1>2. CASE override \in Range1(keys)
  BY <1>1, <1>2 DEF EnvKeys
<1>3. CASE override \notin Range1(keys)
  <2>1. gpu # None /\ key = ResolveKey(keys, host, override) /\ key # None
    BY <1>3 DEF EnvKeys
  <2>2. Len(keys) \in Nat /\ Range1(keys) = {keys[i] : i \in 1..Len(keys)}
    BY KeysOfMap
  <2>3. IsKey(host) /\ ParseKey(host).sm # None /\ ParseKey(host).cu # None
    BY <2>1, HostParses
  <2> HIDE DEF keys, host
  <2>4. key \in Range1(keys)
    BY <2>1, <2>2, ResolvedKey
  <2>5. CASE host \in Range1(keys)
    <3>1. key = host
      BY <1>3, <2>1, <2>2, <2>5, ResolvedKey
    <3>2. SamePlace(ParseKey(host), ParseKey(host))
      BY DEF SamePlace
    <3>3. Fits(host, host)
      BY <2>3, <3>2 DEF Fits
    <3> QED
      BY <2>1, <2>4, <3>1, <3>2, <3>3 DEF keys, host
  <2>6. CASE host \notin Range1(keys)
    <3>1. /\ Score(key, host) > 0
          /\ \A k \in Range1(keys) : Score(k, host) <= Score(key, host)
      BY <1>3, <2>1, <2>2, <2>6, ResolvedKey
    <3>2. SamePlace(ParseKey(key), ParseKey(host))
      BY <3>1, ScoreMeansPlace
    <3>3. ASSUME NEW k \in Range1(keys), Fits(k, host) PROVE Fits(key, host)
      <4>1. Score(k, host) >= 33
        BY <2>3, <3>3, FittingScore
      <4>2. Score(k, host) <= Score(key, host) /\ Score(k, host) \in 0..50 /\ Score(key, host) \in 0..50
        BY <3>1, ScoreRange
      <4>3. Score(key, host) >= 33
        BY <4>1, <4>2
      <4> QED
        BY <2>3, <4>3, ScoreFits
    <3> QED
      BY <2>1, <2>4, <3>2, <3>3 DEF keys, host
  <2> QED
    BY <2>5, <2>6
<1> QED
  BY <1>2, <1>3

-----------------------------------------------------------------------------
\* What opening a library can say.
LEMMA ProbeSays ==
    ASSUME NEW f, NEW m, NEW abi
    PROVE  Probe(f, m, abi) \in {"python", "libs", "cuda", "ok"}
  BY DEF Probe, Opening

\* OpensAll refuses the process with a reason, or goes on.
LEMMA OpensAllGives ==
    ASSUME NEW next \in BOOLEAN, OpensAll(next)
    PROVE  \/ next
           \/ \E r \in Reasons \ {"none"} : Refuse(r)
<1> DEFINE c == Cell(pub, env)
           files == HostNatives(disk, c)
           bad == {b \in DOMAIN files : Probe(files[b], proc, pub.abi) # "ok"}
<1>1. \/ c.dir = None /\ Refuse("no directory")
      \/ c.dir # None /\ DOMAIN files = {} /\ Refuse("no natives")
      \/ c.dir # None /\ \E b \in bad : Refuse(Probe(files[b], proc, pub.abi))
      \/ c.dir # None /\ DOMAIN files # {} /\ bad = {} /\ next
  BY DEF OpensAll
<1>2. \A b \in bad : Probe(files[b], proc, pub.abi) \in {"python", "libs", "cuda"}
  <2>1. \A b : Probe(files[b], proc, pub.abi) \in {"python", "libs", "cuda", "ok"}
    BY ProbeSays
  <2> QED
    BY <2>1
<1> HIDE DEF c, files, bad
<1>3. {"python", "libs", "cuda", "no directory", "no natives"} \subseteq Reasons \ {"none"}
  BY DEF Reasons
<1> QED
  BY <1>1, <1>2, <1>3

\* A process that is refused leaves the rest as it is.
LEMMA RefusalKeepsType ==
    ASSUME LoadTypeOK, stage \notin {"idle", "refused", "ready"},
           NEW r \in Reasons \ {"none"}, Refuse(r)
    PROVE  LoadTypeOK' /\ UNCHANGED <<pub, proc, env>>
<1>1. stage' = "refused" /\ why' = r /\ UNCHANGED <<pub, disk, proc, env, attached, package, handle, syncs>>
  BY DEF Refuse
<1>2. stage' \in Stages /\ attached = Nothing
  BY <1>1 DEF Stages, LoadTypeOK
<1> QED
  BY <1>1, <1>2 DEF LoadTypeOK

\* And so does one that goes on to a stage after the choice of the environment.
LEMMA GoingOnKeepsType ==
    ASSUME LoadTypeOK, stage \in {"layout", "activate", "verify", "python", "import"},
           NEW s \in {"activate", "verify", "python", "import"}, GoOn(s)
    PROVE  LoadTypeOK' /\ UNCHANGED <<pub, proc, env>>
<1>1. stage' = s /\ UNCHANGED <<pub, disk, proc, env, why, attached, package, handle, syncs>>
  BY DEF GoOn
<1>2. stage' \in Stages /\ env # None /\ why = "none" /\ attached = Nothing
  BY <1>1 DEF Stages, LoadTypeOK
<1> QED
  BY <1>1, <1>2 DEF LoadTypeOK

\* The package's state after an import.
LEMMA BindKeepsType ==
    ASSUME LoadTypeOK, NEW modules, Bind(modules)
    PROVE  package' \in {"absent", "plain", "api"}
<1>1. pub.package \in {"none", "eager", "lazy", "broken"}
  BY LoadAssumption DEF LoadTypeOK
<1> QED
  BY <1>1 DEF Bind, LoadTypeOK

\* A process that registers its natives is ready.
LEMMA RegisterKeepsType ==
    ASSUME LoadTypeOK, stage = "import", NEW modules, Register(modules)
    PROVE  LoadTypeOK' /\ UNCHANGED <<pub, proc, env>>
<1>1. stage' = "ready" /\ UNCHANGED <<pub, disk, proc, env, why, syncs>>
  BY DEF Register
<1>2. package' \in {"absent", "plain", "api"}
  BY BindKeepsType DEF Register
<1>3. stage' \in Stages /\ env # None /\ why = "none"
  BY <1>1 DEF Stages, LoadTypeOK
<1> QED
  BY <1>1, <1>2, <1>3 DEF LoadTypeOK

-----------------------------------------------------------------------------
\* What holds of every state that a process between its start and its end reaches.
Settled == LoadTypeOK /\ KinCell

LEMMA SettledInit == Init => Settled
<1> SUFFICES ASSUME Init PROVE Settled
  OBVIOUS
<1>1. env = None /\ KinCell
  BY DEF Init, KinCell
<1>2. NoProc \in [gpu : Gpus \cup {None}, override : Overrides \cup {None},
                  py : Pythons \cup {None}, libs : LibVersions \cup {0},
                  cuda : BOOLEAN, other : BOOLEAN]
  BY DEF NoProc
<1> QED
  BY <1>1, <1>2, LoadAssumption DEF Init, Settled, LoadTypeOK, Stages, Reasons

\* KinCell speaks of what the rest of a process leaves alone.
LEMMA KinCellStays ==
    ASSUME KinCell, UNCHANGED <<pub, env>>, proc'.gpu = proc.gpu, proc'.override = proc.override
    PROVE  KinCell'
  BY DEF KinCell

LEMMA SettledStep == Settled /\ [Next]_vars => Settled'
<1> SUFFICES ASSUME Settled, [Next]_vars PROVE Settled'
  OBVIOUS
<1> USE DEF Settled
<1>1. ASSUME UNCHANGED <<pub, proc, env>> PROVE KinCell'
  BY <1>1, KinCellStays
<1>2. CASE Start
  <2>1. stage = "idle" /\ stage' = "resolve" /\ UNCHANGED <<pub, disk, env, why, attached, handle, syncs>>
    BY <1>2 DEF Start, At
  <2>2. env = None
    BY <2>1 DEF LoadTypeOK
  <2>3. package' \in {"absent", "plain", "api"}
    BY <1>2 DEF Start
  <2>4. proc' \in [gpu : Gpus \cup {None}, override : Overrides \cup {None},
                   py : Pythons \cup {None}, libs : LibVersions \cup {0},
                   cuda : BOOLEAN, other : BOOLEAN]
    <3>1. PICK gpu \in Gpus, override \in Overrides, py \in Pythons, libs \in LibVersions,
               cuda \in BOOLEAN, other \in BOOLEAN :
            proc' = [gpu |-> gpu, override |-> override, py |-> py, libs |-> libs,
                     cuda |-> cuda, other |-> other]
      BY <1>2 DEF Start
    <3> QED
      BY <3>1
  <2>5. KinCell'
    BY <2>1, <2>2 DEF KinCell
  <2>6. LoadTypeOK'
    BY <2>1, <2>2, <2>3, <2>4 DEF LoadTypeOK, Stages
  <2> QED
    BY <2>5, <2>6
<1>3. CASE ResolveEnv
  <2>1. stage = "resolve" /\ env = None
    BY <1>3 DEF ResolveEnv, At, LoadTypeOK
  <2>2. CASE \E r \in {"gpu", "environment"} : Refuse(r)
    <3>1. {"gpu", "environment"} \subseteq Reasons \ {"none"}
      BY DEF Reasons
    <3> QED
      BY <2>1, <2>2, <3>1, <1>1, RefusalKeepsType
  <2>3. CASE \E key \in EnvKeys(pub, proc.gpu, proc.override) :
                env' = key /\ stage' = "layout"
                /\ UNCHANGED <<pub, disk, proc, why, attached, package, handle, syncs>>
    <3>1. PICK key \in EnvKeys(pub, proc.gpu, proc.override) :
                env' = key /\ stage' = "layout"
                /\ UNCHANGED <<pub, disk, proc, why, attached, package, handle, syncs>>
      BY <2>3
    <3>2. pub \in Pubs /\ proc.gpu \in Gpus \cup {None}
      BY DEF LoadTypeOK
    <3>3. /\ key \in Range1(KeysOf(pub)) /\ key # None
          /\ proc.override \notin Range1(KeysOf(pub)) =>
                /\ SamePlace(ParseKey(key), ParseKey(HostKey(pub, proc.gpu)))
                /\ (\E k \in Range1(KeysOf(pub)) : Fits(k, HostKey(pub, proc.gpu)))
                      => Fits(key, HostKey(pub, proc.gpu))
      BY <3>2, ResolvedEnv
    <3>4. KinCell'
      BY <3>1, <3>3 DEF KinCell
    <3>5. LoadTypeOK'
      BY <2>1, <3>1, <3>3 DEF LoadTypeOK, Stages
    <3> QED
      BY <3>4, <3>5
  <2> QED
    BY <1>3, <2>2, <2>3 DEF ResolveEnv
<1>4. CASE Layout
  <2>1. stage = "layout"
    BY <1>4 DEF Layout, At
  <2>2. GoOn("activate") \/ Refuse("layout")
    BY <1>4 DEF Layout
  <2>3. "layout" \in Reasons \ {"none"}
    BY DEF Reasons
  <2> QED
    BY <2>1, <2>2, <2>3, <1>1, GoingOnKeepsType, RefusalKeepsType
<1>5. CASE Activate
  <2>1. stage = "activate"
    BY <1>5 DEF Activate, At
  <2>2. CASE \E s \in {"python", "verify"} : GoOn(s)
    BY <2>1, <2>2, <1>1, GoingOnKeepsType
  <2>3. CASE \E r \in {"gpu", "cuda"} : Refuse(r)
    <3>1. {"gpu", "cuda"} \subseteq Reasons \ {"none"}
      BY DEF Reasons
    <3> QED
      BY <2>1, <2>3, <3>1, <1>1, RefusalKeepsType
  <2>4. CASE /\ proc' = [proc EXCEPT !.cuda = TRUE] /\ stage' = "verify"
             /\ UNCHANGED <<pub, disk, env, why, attached, package, handle, syncs>>
    <3>1. /\ proc' \in [gpu : Gpus \cup {None}, override : Overrides \cup {None},
                        py : Pythons \cup {None}, libs : LibVersions \cup {0},
                        cuda : BOOLEAN, other : BOOLEAN]
          /\ proc'.gpu = proc.gpu /\ proc'.override = proc.override
      BY <2>4 DEF LoadTypeOK
    <3>2. KinCell'
      BY <2>4, <3>1, KinCellStays
    <3>3. LoadTypeOK'
      BY <2>1, <2>4, <3>1 DEF LoadTypeOK, Stages
    <3> QED
      BY <3>2, <3>3
  <2> QED
    BY <1>5, <2>2, <2>3, <2>4 DEF Activate
<1>6. CASE Verify
  <2>1. stage = "verify" /\ OpensAll(GoOn("python"))
    BY <1>6 DEF Verify, At
  <2>2. GoOn("python") \in BOOLEAN
    BY DEF GoOn
  <2>3. GoOn("python") \/ \E r \in Reasons \ {"none"} : Refuse(r)
    BY <2>1, <2>2, OpensAllGives
  <2> QED
    BY <2>1, <2>3, <1>1, GoingOnKeepsType, RefusalKeepsType
<1>7. CASE CheckPython
  <2>1. stage = "python"
    BY <1>7 DEF CheckPython, At
  <2>2. GoOn("import") \/ Refuse("interpreter")
    BY <1>7 DEF CheckPython
  <2>3. "interpreter" \in Reasons \ {"none"}
    BY DEF Reasons
  <2> QED
    BY <2>1, <2>2, <2>3, <1>1, GoingOnKeepsType, RefusalKeepsType
<1>8. CASE Importable
  <2>1. stage = "import"
    BY <1>8 DEF Importable, At
  <2>2. CASE Register(Nothing)
    BY <2>1, <2>2, <1>1, RegisterKeepsType
  <2>3. CASE Refuse("gpu")
    <3>1. "gpu" \in Reasons \ {"none"}
      BY DEF Reasons
    <3> QED
      BY <2>1, <2>3, <3>1, <1>1, RefusalKeepsType
  <2>4. CASE OpensAll(Register(HostNatives(disk, Cell(pub, env))))
    <3>1. Register(HostNatives(disk, Cell(pub, env))) \in BOOLEAN
      BY DEF Register
    <3>2. \/ Register(HostNatives(disk, Cell(pub, env)))
          \/ \E r \in Reasons \ {"none"} : Refuse(r)
      BY <2>4, <3>1, OpensAllGives
    <3> QED
      BY <2>1, <3>2, <1>1, RegisterKeepsType, RefusalKeepsType
  <2> QED
    BY <1>8, <2>2, <2>3, <2>4 DEF Importable
<1>9. CASE EntryImportsApi
  <2>1. /\ stage = "ready" /\ package' = "api"
        /\ UNCHANGED <<pub, disk, proc, stage, env, why, attached, syncs>>
    BY <1>9 DEF EntryImportsApi, At
  <2>2. LoadTypeOK'
    BY <2>1 DEF LoadTypeOK
  <2> QED
    BY <2>1, <2>2, <1>1
<1>10. CASE End
  <2>1. /\ stage' = "idle" /\ proc' = NoProc /\ env' = None /\ why' = "none"
        /\ attached' = Nothing /\ package' = "absent" /\ UNCHANGED <<pub, disk, syncs>>
    BY <1>10 DEF End
  <2>2. NoProc \in [gpu : Gpus \cup {None}, override : Overrides \cup {None},
                    py : Pythons \cup {None}, libs : LibVersions \cup {0},
                    cuda : BOOLEAN, other : BOOLEAN]
    BY DEF NoProc
  <2>3. KinCell'
    BY <2>1 DEF KinCell
  <2>4. LoadTypeOK'
    BY <2>1, <2>2 DEF LoadTypeOK, Stages, Reasons
  <2> QED
    BY <2>3, <2>4
<1>11. CASE Sync
  <2>1. /\ stage = "idle" /\ syncs < MaxSyncs /\ syncs' = syncs + 1 /\ pub' \in Pubs
        /\ UNCHANGED <<proc, stage, env, why, attached, package, handle>>
    BY <1>11 DEF Sync, At
  <2>2. env = None /\ syncs \in 0..MaxSyncs
    BY <2>1 DEF LoadTypeOK
  <2>3. syncs' \in 0..MaxSyncs
    BY <2>1, <2>2, LoadAssumption
  <2>4. KinCell'
    BY <2>1, <2>2 DEF KinCell
  <2>5. LoadTypeOK'
    BY <2>1, <2>2, <2>3 DEF LoadTypeOK
  <2> QED
    BY <2>4, <2>5
<1>12. CASE UNCHANGED vars
  <2>1. LoadTypeOK'
    BY <1>12 DEF LoadTypeOK, vars
  <2> QED
    BY <1>12, <2>1, <1>1 DEF vars
<1> QED
  BY <1>2, <1>3, <1>4, <1>5, <1>6, <1>7, <1>8, <1>9, <1>10, <1>11, <1>12 DEF Next

\* The state of a process keeps its values, and natives are only ever attached to a
\* process that got through all its checks (activate_core.py:44).
THEOREM LoadTypeOKHolds == Spec => []LoadTypeOK
<1>1. Settled => LoadTypeOK
  BY DEF Settled
<1> QED
  BY <1>1, SettledInit, SettledStep, PTL DEF Spec

\* For every runtime map, every order of it and every machine: the environment that
\* is chosen is of the host's platform and Python, and fits its SM and CUDA family
\* whenever one of the map does (manifest_ext.py:82, runtime_env.py:130).
THEOREM KinCellHolds == Spec => []KinCell
<1>1. Settled => KinCell
  BY DEF Settled
<1> QED
  BY <1>1, SettledInit, SettledStep, PTL DEF Spec

-----------------------------------------------------------------------------
(* The kernels of flash_rt.api.                                            *)

\* Nothing holds kernels before the natives are registered.
HandleInv == (stage # "ready" => handle = None) /\ KernelsReachTheApi

\* Registering binds an API that is there, early or not; one that comes later takes
\* what is registered.
LEMMA HandleStep == HandleInv /\ [Next]_vars => HandleInv'
<1> SUFFICES ASSUME HandleInv, [Next]_vars PROVE HandleInv'
  OBVIOUS
<1>1. ASSUME stage # "ready", stage' # "ready", handle' = handle PROVE HandleInv'
  BY <1>1 DEF HandleInv, KernelsReachTheApi
<1>2. ASSUME NEW modules, stage # "ready", Register(modules) PROVE HandleInv'
  <2>1. /\ attached' = modules /\ stage' = "ready" /\ handle = None
        /\ handle' = IF package' # "api" \/ handle # None \/ Kernels(modules) = {} THEN handle
                     ELSE CHOOSE f \in Kernels(modules) : TRUE
    BY <1>2 DEF Register, Bind, HandleInv
  <2>2. Kernels(modules)' = Kernels(modules) /\ Kernels(attached)' = Kernels(modules)
    BY <2>1 DEF Kernels
  <2>. QED
    BY <2>1, <2>2 DEF HandleInv, KernelsReachTheApi
<1>3. ASSUME stage # "ready", NEW r, Refuse(r) PROVE HandleInv'
  BY <1>1, <1>3 DEF Refuse
<1>4. ASSUME stage # "ready", NEW s, s # "ready", GoOn(s) PROVE HandleInv'
  BY <1>1, <1>4 DEF GoOn
<1>5. CASE Start \/ ResolveEnv \/ Layout \/ Activate \/ CheckPython
  BY <1>1, <1>3, <1>4, <1>5 DEF Start, ResolveEnv, Layout, Activate, CheckPython, At
<1>6. CASE Verify
  BY <1>3, <1>4, <1>6 DEF Verify, OpensAll, At
<1>7. CASE Importable
  BY <1>2, <1>3, <1>7 DEF Importable, OpensAll, At
<1>8. CASE EntryImportsApi
  <2>1. /\ stage' = stage /\ stage = "ready" /\ attached' = attached
        /\ handle' = IF Kernels(attached) = {} THEN None ELSE CHOOSE f \in Kernels(attached) : TRUE
    BY <1>8 DEF EntryImportsApi, At
  <2>2. Kernels(attached)' = Kernels(attached)
    BY <2>1 DEF Kernels
  <2>. QED
    BY <2>1, <2>2 DEF HandleInv, KernelsReachTheApi
<1>9. CASE End
  BY <1>9 DEF End, HandleInv, KernelsReachTheApi
<1>10. CASE Sync
  BY <1>1, <1>10 DEF Sync, At
<1>11. CASE UNCHANGED vars
  BY <1>11 DEF vars, HandleInv, KernelsReachTheApi, Kernels
<1>. QED
  BY <1>5, <1>6, <1>7, <1>8, <1>9, <1>10, <1>11 DEF Next

\* However early something imported flash_rt: its API holds the kernels of this
\* process (native.py:175).
THEOREM KernelsReachTheApiHolds == Spec => []KernelsReachTheApi
<1>1. Init => HandleInv
  BY DEF Init, HandleInv, KernelsReachTheApi
<1>2. HandleInv => KernelsReachTheApi
  BY DEF HandleInv
<1>. QED
  BY <1>1, <1>2, HandleStep, PTL DEF Spec

-----------------------------------------------------------------------------
(* The check of the C libraries.                                           *)

\* A library for which a process was refused is one that the check selects.
CauseIsSelected ==
    stage = "refused" /\ why = "libs" /\ Own(Cell(pub, env)) =>
        \E f \in Selected(disk, Cell(pub, env)) : Opening(f, proc) = "libs"

\* In a directory of its own, what the loader takes is what the check selects.
LEMMA TakesSelected ==
    ASSUME NEW d, NEW c, Own(c), NEW b \in DOMAIN HostNatives(d, c)
    PROVE  HostNatives(d, c)[b] \in Selected(d, c)
<1> DEFINE libs == Libraries(Names(d, c.dir), c.key)
           best == {PickBest(Artifacts(libs, x)) : x \in Bases(libs)}
<1>1. LibrariesOf(d, c) = libs
  BY DEF LibrariesOf, LookupKey
<1> HIDE DEF libs
<1>2. HostNatives(d, c) = [x \in Bases(libs) |-> FileAt(d, c.dir, Take(c, Artifacts(libs, x)))]
  BY <1>1 DEF HostNatives, NativesAmong
<1>3. b \in Bases(libs) /\ HostNatives(d, c)[b] = FileAt(d, c.dir, PickBest(Artifacts(libs, b)))
  BY <1>2 DEF Take
<1>4. PickBest(Artifacts(libs, b)) \in best /\ best # {}
  BY <1>3
<1>5. Selected(d, c) = IF best = {} THEN d[c.dir].lib ELSE {FileAt(d, c.dir, n) : n \in best}
  BY DEF Selected, libs
<1> HIDE DEF best
<1>. QED
  BY <1>3, <1>4, <1>5

LEMMA RefusalHasCause ==
    ASSUME NEW next \in BOOLEAN, OpensAll(next), next => stage' # "refused"
    PROVE  CauseIsSelected'
<1> SUFFICES ASSUME stage' = "refused", why' = "libs", Own(Cell(pub, env))'
             PROVE  \E f \in Selected(disk, Cell(pub, env))' : Opening(f, proc)' = "libs"
  BY DEF CauseIsSelected
<1> DEFINE c == Cell(pub, env)
           files == HostNatives(disk, c)
<1>1. \/ c.dir = None /\ Refuse("no directory")
      \/ c.dir # None /\ DOMAIN files = {} /\ Refuse("no natives")
      \/ \E b \in DOMAIN files : Refuse(Probe(files[b], proc, pub.abi))
  BY DEF OpensAll
<1> HIDE DEF files
<1>2. PICK b \in DOMAIN files : Refuse(Probe(files[b], proc, pub.abi))
  BY <1>1 DEF Refuse
<1>3. UNCHANGED <<pub, disk, proc, env>> /\ Probe(files[b], proc, pub.abi) = "libs"
  BY <1>2 DEF Refuse
<1>4. Opening(files[b], proc) = "libs"
  BY <1>3 DEF Probe
<1>5. Own(c)
  BY <1>3 DEF Own, Cell
<1>6. files[b] \in Selected(disk, c)
  BY <1>5, TakesSelected DEF files
<1>7. PICK f \in Selected(disk, Cell(pub, env)) : Opening(f, proc) = "libs"
  BY <1>4, <1>6
<1>8. Selected(disk, Cell(pub, env))' = Selected(disk, Cell(pub, env))
  BY <1>3 DEF Selected, Cell
<1>9. Opening(f, proc)' = Opening(f, proc)
  BY <1>3 DEF Opening
<1>. QED
  BY <1>7, <1>8, <1>9

\* Only opening a library refuses a process for the C libraries.
LEMMA CauseStep == CauseIsSelected /\ [Next]_vars => CauseIsSelected'
<1> SUFFICES ASSUME CauseIsSelected, [Next]_vars PROVE CauseIsSelected'
  OBVIOUS
<1>1. CASE stage' # "refused" \/ why' # "libs"
  BY <1>1 DEF CauseIsSelected
<1>2. CASE Start \/ ResolveEnv \/ Layout \/ Activate \/ CheckPython \/ End
  <2>1. stage' # "refused" \/ why' # "libs"
    BY <1>2 DEF Start, ResolveEnv, Layout, Activate, CheckPython, End, GoOn, Refuse
  <2>. QED  BY <1>1, <2>1
<1>3. CASE Verify
  <2>1. OpensAll(GoOn("python")) /\ (GoOn("python") => stage' # "refused")
    BY <1>3 DEF Verify, GoOn
  <2>2. GoOn("python") \in BOOLEAN
    BY DEF GoOn
  <2>. QED  BY <2>1, <2>2, RefusalHasCause
<1>4. CASE Importable
  <2>1. CASE Register(Nothing) \/ Refuse("gpu")
    BY <1>1, <2>1 DEF Register, Refuse
  <2>2. CASE OpensAll(Register(HostNatives(disk, Cell(pub, env))))
    <3>1. Register(HostNatives(disk, Cell(pub, env))) \in BOOLEAN
      BY DEF Register
    <3>2. Register(HostNatives(disk, Cell(pub, env))) => stage' # "refused"
      BY DEF Register
    <3>. QED  BY <2>2, <3>1, <3>2, RefusalHasCause
  <2>. QED  BY <1>4, <2>1, <2>2 DEF Importable
<1>5. CASE EntryImportsApi \/ Sync
  <2>1. stage' # "refused"
    BY <1>5 DEF EntryImportsApi, Sync, At
  <2>. QED  BY <1>1, <2>1
<1>6. CASE UNCHANGED vars
  <2>1. UNCHANGED <<stage, why, disk, pub, env, proc>>
    BY <1>6 DEF vars
  <2>2. CauseIsSelected' = CauseIsSelected
    BY <2>1 DEF CauseIsSelected, Selected, Opening, Own, Cell
  <2>. QED  BY <2>2
<1>. QED
  BY <1>2, <1>3, <1>4, <1>5, <1>6 DEF Next

\* For every publication and machine: where the check of the C libraries passes, no
\* process is refused for them (native_host_abi.py:350).
THEOREM GateVouchesHolds == Spec => []GateVouches
<1>1. Init => CauseIsSelected
  BY DEF Init, CauseIsSelected
<1>2. CauseIsSelected => GateVouches
  BY DEF CauseIsSelected, GateVouches, HostAbiOK
<1>. QED
  BY <1>1, <1>2, CauseStep, PTL DEF Spec

-----------------------------------------------------------------------------
(* The order of names.                                                     *)

\* File names without the suffix.
Stems == Seq(Segments)

\* Beginnings are equal when their segments are.
LEMMA UptoSame ==
    ASSUME NEW a \in Stems, NEW b \in Stems, NEW n \in Nat, n <= Len(a), n <= Len(b)
    PROVE  Upto(a, n) = Upto(b, n) <=> \A i \in 1..n : a[i] = b[i]
<1>1. Len(a) \in Nat /\ Len(b) \in Nat
  BY LenProperties DEF Stems
<1>2. (\A i \in 1..n : a[i] \in Segments) /\ (\A i \in 1..n : b[i] \in Segments)
  BY <1>1, ElementOfSeq DEF Stems
<1>3. /\ Upto(a, n) \in Seq(Segments) /\ Len(Upto(a, n)) = n
      /\ \A i \in 1..n : Upto(a, n)[i] = a[i]
  <2>1. n - 1 + 1 = n /\ 1 \in Int /\ n \in Int
    OBVIOUS
  <2>. QED  BY <1>2, <2>1, SubSeqProperties DEF Upto
<1>4. /\ Upto(b, n) \in Seq(Segments) /\ Len(Upto(b, n)) = n
      /\ \A i \in 1..n : Upto(b, n)[i] = b[i]
  <2>1. n - 1 + 1 = n /\ 1 \in Int /\ n \in Int
    OBVIOUS
  <2>. QED  BY <1>2, <2>1, SubSeqProperties DEF Upto
<1>5. ASSUME \A i \in 1..n : a[i] = b[i] PROVE Upto(a, n) = Upto(b, n)
  BY <1>3, <1>4, <1>5, SeqEqual
<1>6. ASSUME Upto(a, n) = Upto(b, n) PROVE \A i \in 1..n : a[i] = b[i]
  BY <1>3, <1>4, <1>6
<1>. QED  BY <1>5, <1>6

\* The order, segment by segment.
LessAt(a, b, n) ==
    /\ n <= Len(b) /\ n < Len(a) /\ \A i \in 1..n : a[i] = b[i]
    /\ n = Len(b) \/ Rank[a[n + 1]] < Rank[b[n + 1]]

LEMMA LessIs ==
    ASSUME NEW a \in Stems, NEW b \in Stems
    PROVE  NameLess(a, b) <=> \E n \in Nat : LessAt(a, b, n)
<1>1. Len(a) \in Nat /\ Len(b) \in Nat
  BY LenProperties DEF Stems
<1>2. ASSUME NEW n \in Nat
      PROVE  LessAt(a, b, n) <=>
                /\ n \in 0..Len(b) /\ n < Len(a) /\ Upto(a, n) = Upto(b, n)
                /\ n = Len(b) \/ Rank[a[n + 1]] < Rank[b[n + 1]]
  <2>1. CASE n <= Len(b) /\ n < Len(a)
    <3>1. Upto(a, n) = Upto(b, n) <=> \A i \in 1..n : a[i] = b[i]
      BY <1>1, <2>1, UptoSame
    <3>. QED  BY <1>1, <2>1, <3>1 DEF LessAt
  <2>. QED  BY <1>1, <2>1 DEF LessAt
<1>3. \A n \in 0..Len(b) : n \in Nat
  BY <1>1
<1>. QED  BY <1>2, <1>3 DEF NameLess

\* Two different names are in order one way or the other.
LEMMA NamesOrdered ==
    ASSUME NEW a \in Stems, NEW b \in Stems, a # b
    PROVE  NameLess(a, b) \/ NameLess(b, a)
<1>1. Len(a) \in Nat /\ Len(b) \in Nat
  BY LenProperties DEF Stems
<1> DEFINE D == {i \in Nat : 1 <= i /\ i <= Len(a) /\ i <= Len(b) /\ a[i] # b[i]}
<1>2. CASE D = {}
  <2>1. \A i \in Nat : 1 <= i /\ i <= Len(a) /\ i <= Len(b) => a[i] = b[i]
    BY <1>2
  <2>2. Len(a) # Len(b)
    <3>1. ASSUME Len(a) = Len(b) PROVE FALSE
      <4>1. \A i \in 1..Len(a) : a[i] = b[i]
        BY <1>1, <2>1, <3>1
      <4>. QED  BY <3>1, <4>1, SeqEqual DEF Stems
    <3>. QED  BY <3>1
  <2>3. CASE Len(a) < Len(b)
    <3>1. LessAt(b, a, Len(a))
      BY <1>1, <2>1, <2>3 DEF LessAt
    <3>. QED  BY <1>1, <3>1, LessIs
  <2>4. CASE Len(b) < Len(a)
    <3>1. LessAt(a, b, Len(b))
      BY <1>1, <2>1, <2>4 DEF LessAt
    <3>. QED  BY <1>1, <3>1, LessIs
  <2>. QED  BY <1>1, <2>2, <2>3, <2>4
<1>3. CASE D # {}
  <2>1. PICK i \in D : \A j \in D : i <= j
    BY <1>3, LeastNumber
  <2>2. i \in Nat /\ 1 <= i /\ i <= Len(a) /\ i <= Len(b) /\ a[i] # b[i]
    BY <2>1
  <2>3. \A j \in 1..(i - 1) : a[j] = b[j]
    BY <1>1, <2>1, <2>2
  <2>4. a[i] \in Segments /\ b[i] \in Segments
    BY <1>1, <2>2, ElementOfSeq DEF Stems
  <2>5. Rank[a[i]] # Rank[b[i]] /\ Rank[a[i]] \in Nat /\ Rank[b[i]] \in Nat
    BY <2>2, <2>4, NamingAssumption DEF Segments
  <2>6. i - 1 \in Nat /\ i - 1 + 1 = i
    BY <2>2
  <2> HIDE DEF D
  <2>7. CASE Rank[a[i]] < Rank[b[i]]
    <3>1. LessAt(a, b, i - 1)
      BY <1>1, <2>2, <2>3, <2>6, <2>7 DEF LessAt
    <3>. QED  BY <2>6, <3>1, LessIs
  <2>8. CASE Rank[b[i]] < Rank[a[i]]
    <3>1. LessAt(b, a, i - 1)
      BY <1>1, <2>2, <2>3, <2>6, <2>8 DEF LessAt
    <3>. QED  BY <2>6, <3>1, LessIs
  <2>. QED  BY <2>5, <2>7, <2>8
<1>. QED  BY <1>2, <1>3

\* The order is transitive.
LEMMA NamesTransitive ==
    ASSUME NEW a \in Stems, NEW b \in Stems, NEW c \in Stems, NameLess(a, b), NameLess(b, c)
    PROVE  NameLess(a, c)
<1>1. Len(a) \in Nat /\ Len(b) \in Nat /\ Len(c) \in Nat
  BY LenProperties DEF Stems
<1>2. PICK n \in Nat : LessAt(a, b, n)
  BY LessIs
<1>3. PICK m \in Nat : LessAt(b, c, m)
  BY LessIs
<1>4. /\ \A i \in 1..Len(a) : a[i] \in Segments
      /\ \A i \in 1..Len(b) : b[i] \in Segments
      /\ \A i \in 1..Len(c) : c[i] \in Segments
  BY ElementOfSeq DEF Stems
<1>5. \A s \in Segments : Rank[s] \in Nat
  BY NamingAssumption DEF Segments
<1>6. CASE n < m
  <2>1. LessAt(a, c, n)
    BY <1>1, <1>2, <1>3, <1>6 DEF LessAt
  <2>. QED  BY <2>1, LessIs
<1>7. CASE n = m
  <2>1. CASE m = Len(c)
    <3>1. LessAt(a, c, m)
      BY <1>1, <1>2, <1>3, <1>7, <2>1 DEF LessAt
    <3>. QED  BY <3>1, LessIs
  <2>2. CASE m # Len(c)
    <3>1. n + 1 \in 1..Len(a) /\ n + 1 \in 1..Len(b) /\ n + 1 \in 1..Len(c)
      BY <1>1, <1>2, <1>3, <1>7, <2>2 DEF LessAt
    <3>2. Rank[a[n + 1]] \in Nat /\ Rank[b[n + 1]] \in Nat /\ Rank[c[n + 1]] \in Nat
      BY <1>4, <1>5, <3>1
    <3>3. Rank[a[n + 1]] < Rank[b[n + 1]] /\ Rank[b[n + 1]] < Rank[c[n + 1]]
      BY <1>1, <1>2, <1>3, <1>7, <2>2 DEF LessAt
    <3>4. Rank[a[n + 1]] < Rank[c[n + 1]]
      BY <3>2, <3>3
    <3>5. LessAt(a, c, n)
      BY <1>1, <1>2, <1>3, <1>7, <3>4 DEF LessAt
    <3>. QED  BY <3>5, LessIs
  <2>. QED  BY <2>1, <2>2
<1>8. CASE m < n
  <2>1. a[m + 1] = b[m + 1]
    <3>1. m + 1 \in 1..n
      BY <1>8
    <3>. QED  BY <1>2, <3>1 DEF LessAt
  <2>2. LessAt(a, c, m)
    BY <1>1, <1>2, <1>3, <1>8, <2>1 DEF LessAt
  <2>. QED  BY <2>2, LessIs
<1>. QED  BY <1>6, <1>7, <1>8

Least(n, names) == n \in names /\ \A m \in names : n = m \/ NameLess(n, m)

\* Of finitely many names one is the first.
LEMMA FirstExists ==
    ASSUME NEW names, IsFiniteSet(names), names \subseteq Stems, names # {}
    PROVE  Least(FirstByName(names), names)
<1> DEFINE Bad == {T \in FiniteSubsetsOf(names) : T # {} /\ \A x \in T : ~Least(x, T)}
<1>1. IsWellFoundedOn(StrictSubsetOrdering(names), FiniteSubsetsOf(names))
  BY FS_StrictSubsetOrderingWellFounded
<1>2. CASE Bad # {}
  <2>1. PICK T \in Bad : \A U \in Bad : ~(<<U, T>> \in StrictSubsetOrdering(names))
    <3>1. Bad \subseteq FiniteSubsetsOf(names)
      OBVIOUS
    <3> HIDE DEF Bad
    <3>. QED  BY <1>1, <1>2, <3>1, WFMin
  <2>2. T \subseteq names /\ IsFiniteSet(T) /\ T # {} /\ \A x \in T : ~Least(x, T)
    BY <2>1 DEF FiniteSubsetsOf
  <2>3. PICK x \in T : TRUE
    BY <2>2
  <2> DEFINE U == T \ {x}
  <2>4. U \subseteq names /\ IsFiniteSet(U) /\ U # T
    BY <2>2, <2>3, FS_RemoveElement
  <2>5. <<U, T>> \in StrictSubsetOrdering(names)
    BY <2>2, <2>4 DEF StrictSubsetOrdering
  <2>6. U \notin Bad
    BY <2>1, <2>5
  <2>7. U = {} \/ \E y \in U : Least(y, U)
    BY <2>4, <2>6 DEF FiniteSubsetsOf
  <2>8. CASE U = {}
    <3>1. T = {x}
      BY <2>3, <2>8
    <3>. QED  BY <2>2, <2>3, <3>1 DEF Least
  <2>9. ASSUME NEW y \in U, Least(y, U) PROVE FALSE
    <3>1. x \in Stems /\ y \in Stems /\ x # y /\ y \in T
      BY <2>2, <2>3
    <3>2. \A m \in T : m = x \/ m = y \/ NameLess(y, m)
      BY <2>9 DEF Least
    <3>3. CASE NameLess(y, x)
      <4>1. Least(y, T)
        BY <3>1, <3>2, <3>3 DEF Least
      <4>. QED  BY <2>2, <3>1, <4>1
    <3>4. CASE NameLess(x, y)
      <4>1. \A m \in T : m \in Stems
        BY <2>2
      <4>2. \A m \in T : x = m \/ NameLess(x, m)
        BY <3>1, <3>2, <3>4, <4>1, NamesTransitive
      <4>3. Least(x, T)
        BY <2>3, <4>2 DEF Least
      <4>. QED  BY <2>2, <2>3, <4>3
    <3>. QED  BY <3>1, <3>3, <3>4, NamesOrdered
  <2>. QED  BY <2>7, <2>8, <2>9
<1>3. CASE Bad = {}
  <2>1. names \in FiniteSubsetsOf(names)
    BY DEF FiniteSubsetsOf
  <2>2. \E x \in names : Least(x, names)
    BY <1>3, <2>1
  <2>. QED  BY <2>2 DEF FirstByName, Least
<1>. QED  BY <1>2, <1>3

-----------------------------------------------------------------------------
(* What the name of a library says.                                        *)

\* The rest of a name is a name.
LEMMA FromIs ==
    ASSUME NEW name \in Stems, NEW j \in Nat, 1 <= j
    PROVE  From(name, j) \in Stems
<1>1. Len(name) \in Nat
  BY LenProperties DEF Stems
<1>2. \A i \in j..Len(name) : name[i] \in Segments
  BY <1>1, ElementOfSeq DEF Stems
<1>. QED  BY <1>1, <1>2, SubSeqProperties DEF From, Stems

\* A nonempty set of numbers with a bound has a greatest one.
LEMMA GreatestNumber ==
    ASSUME NEW n \in Nat, NEW T, T \subseteq 1..n, T # {}
    PROVE  \E x \in T : \A y \in T : y <= x
<1> DEFINE D == {n - i : i \in T}
<1>1. D \subseteq Nat /\ D # {}
  <2>1. \A i \in T : n - i \in Nat
    <3>1. \A i \in 1..n : n - i \in Nat
      OBVIOUS
    <3>. QED  BY <3>1
  <2>. QED  BY <2>1
<1>2. PICK d \in D : \A e \in D : d <= e
  BY <1>1, LeastNumber
<1>3. PICK x \in T : d = n - x
  BY <1>2
<1>4. ASSUME NEW y \in T PROVE y <= x
  <2>1. n - x <= n - y
    BY <1>2, <1>3
  <2>2. x \in Nat /\ y \in Nat
    OBVIOUS
  <2>. QED  BY <2>1, <2>2
<1>. QED  BY <1>4

\* The key that a name is found to have is what the name ends with.
LEMMA InferIs ==
    ASSUME NEW name \in Stems, InferKey(name) # None
    PROVE  InferKey(name) \in Stems
<1> DEFINE n == Len(name)
           Is(i) == i < n /\ KnownKey(From(name, i + 1))
           first == IF n >= 7 THEN 2 ELSE 1
           later == {i \in 1..(n - 3) : Is(i)}
           last == CHOOSE i \in later : \A j \in later : j <= i
<1>0. n \in Nat
  BY LenProperties DEF Stems
<1>1. InferKey(name) =
         IF n < 4 THEN None
         ELSE IF Is(first) THEN From(name, first + 1)
         ELSE IF Is(3 - first) THEN From(name, 4 - first)
         ELSE IF later = {} THEN None ELSE From(name, last + 1)
  BY Zenon DEF InferKey
<1>2. first + 1 \in Nat /\ 1 <= first + 1 /\ 4 - first \in Nat /\ 1 <= 4 - first
  OBVIOUS
<1>3. CASE n >= 4 /\ later # {}
  <2>1. n - 3 \in Nat /\ later \subseteq 1..(n - 3)
    BY <1>0, <1>3
  <2>2. \E i \in later : \A j \in later : j <= i
    <3> HIDE DEF later
    <3>. QED  BY <1>3, <2>1, GreatestNumber
  <2>3. last \in later
    BY <2>2
  <2>4. last + 1 \in Nat /\ 1 <= last + 1
    BY <2>1, <2>3
  <2> HIDE DEF last, later, first, Is
  <2>. QED  BY <1>1, <1>2, <2>4, FromIs
<1>4. CASE n < 4 \/ later = {}
  <2> HIDE DEF last, later, first, Is
  <2>. QED  BY <1>1, <1>2, <1>4, FromIs
<1>. QED  BY <1>0, <1>3, <1>4

\* The parts of a name that is recognized.
Split(name, k, l) ==
    LET n == Len(name) - Len(k)
    IN  /\ n \in 1..Len(name) /\ From(name, n + 1) = k /\ l.py = ParseKey(k).py
        /\ \/ n = 1 /\ l.base = Upto(name, 1) /\ l.abi = Dev
           \/ n >= 2 /\ l.base = Upto(name, n - 1) /\ l.abi = name[n]

LEMMA ParseIs ==
    ASSUME NEW name \in Stems, NEW k \in Stems, ParseLibrary(name, k) # None
    PROVE  Split(name, k, ParseLibrary(name, k))
<1> DEFINE n == Len(name) - Len(k)
           front == Upto(name, n)
           split == SplitModule(front)
           l == ParseLibrary(name, k)
<1>0. Len(name) \in Nat /\ Len(k) \in Nat
  BY LenProperties DEF Stems
<1>1. Ends(name, k) /\ split # None
         /\ l = [base |-> split.base, abi |-> split.abi, key |-> k, py |-> ParseKey(k).py]
  BY Zenon DEF ParseLibrary
<1>2. Len(name) > Len(k) /\ From(name, n + 1) = k
  BY <1>1 DEF Ends
<1>3. n \in 1..Len(name) /\ n \in Nat
  BY <1>0, <1>2
<1> HIDE DEF n
<1>4. /\ front \in Seq(Segments) /\ Len(front) = n
      /\ \A i \in 1..n : front[i] = name[i]
  <2>1. \A i \in 1..n : name[i] \in Segments
    BY <1>0, <1>3, ElementOfSeq DEF Stems
  <2>2. n - 1 + 1 = n /\ 1 \in Int /\ n \in Int
    BY <1>3
  <2>. QED  BY <1>3, <2>1, <2>2, SubSeqProperties DEF Upto
<1> HIDE DEF front
<1>5. CASE n = 1
  <2>1. split = [base |-> front, abi |-> Dev]
    BY <1>1, <1>4, <1>5 DEF SplitModule
  <2>2. l.base = Upto(name, 1) /\ l.abi = Dev
    BY <1>1, <1>5, <2>1 DEF front
  <2>. QED  BY <1>1, <1>2, <1>3, <1>5, <2>2 DEF Split, n
<1>6. CASE n # 1
  <2>1. split = [base |-> Upto(front, n - 1), abi |-> front[n]]
    BY <1>1, <1>3, <1>4, <1>6 DEF SplitModule
  <2>2. n >= 2 /\ n - 1 \in Nat /\ n - 1 <= Len(name) /\ n - 1 <= Len(front) /\ n \in 1..n
    BY <1>0, <1>3, <1>4, <1>6
  <2>3. Upto(front, n - 1) = Upto(name, n - 1)
    <3>1. \A i \in 1..(n - 1) : front[i] = name[i]
      BY <1>3, <1>4
    <3>. QED  BY <1>4, <2>2, <3>1, UptoSame DEF Stems
  <2>4. l.base = Upto(name, n - 1) /\ l.abi = name[n]
    BY <1>1, <1>4, <2>1, <2>2, <2>3
  <2>. QED  BY <1>1, <1>2, <1>3, <2>2, <2>4 DEF Split, n
<1>. QED  BY <1>5, <1>6

\* Whatever the key, a recognized name is split, and its base begins with its module.
LEMMA LibrarySays ==
    ASSUME NEW name \in Stems, NEW key, key = None \/ key \in Stems, Library(name, key) # None
    PROVE  \E k \in Stems :
              /\ Split(name, k, Library(name, key)) /\ (key # None => k = key)
              /\ Library(name, key).base[1] = name[1]
<1> DEFINE k == IF key # None THEN key ELSE InferKey(name)
<1>1. k # None /\ Library(name, key) = ParseLibrary(name, k)
  BY DEF Library, Keyed
<1>2. k \in Stems
  BY <1>1, InferIs
<1>3. Split(name, k, Library(name, key))
  BY <1>1, <1>2, ParseIs
<1> HIDE DEF k
<1>4. Len(name) \in Nat /\ Len(k) \in Nat
  BY <1>2, LenProperties DEF Stems
<1>5. ASSUME NEW j \in 1..Len(name) PROVE Upto(name, j)[1] = name[1]
  <2>1. \A i \in 1..j : name[i] \in Segments
    BY <1>4, ElementOfSeq DEF Stems
  <2>2. 1 \in 1..(j - 1 + 1) /\ 1 \in Int /\ j \in Int /\ 1 + 1 - 1 = 1
    BY <1>4
  <2>. QED  BY <2>1, <2>2, SubSeqProperties DEF Upto
<1>6. Library(name, key).base[1] = name[1]
  <2> DEFINE n == Len(name) - Len(k)
  <2>1. n \in 1..Len(name)
    BY <1>3 DEF Split
  <2>2. Library(name, key).base = Upto(name, 1) \/ (n >= 2 /\ Library(name, key).base = Upto(name, n - 1))
    BY <1>3 DEF Split
  <2>3. 1 \in 1..Len(name) /\ (n >= 2 => n - 1 \in 1..Len(name))
    BY <1>4, <2>1
  <2> HIDE DEF n
  <2>. QED  BY <1>5, <2>2, <2>3
<1>. QED  BY <1>2, <1>3, <1>6 DEF k

-----------------------------------------------------------------------------
(* What the loader takes from a directory.                                 *)

LibOK(lib) == IsFiniteSet(lib) /\ \A f \in lib : Told(f)

\* The name of a library: its module, and then its ABI and its key.
LEMMA FileNameIs ==
    ASSUME NEW f, Told(f)
    PROVE  /\ FileName(f) \in Stems /\ FileName(f)[1] = f.module
           /\ Abi(f) \o f.key = From(FileName(f), 2)
<1> DEFINE abi == Abi(f)
           rest == abi \o f.key
<1>1. abi \in Seq(Segments) /\ f.key \in Seq(Segments) /\ <<f.module>> \in Seq(Segments)
  <2>1. AbiOf(f.tag, f.commit) \in Seq(Segments) \/ f.tag = None
    BY DEF Told, AbiOf
  <2>2. << >> \in Seq(Segments)
    OBVIOUS
  <2>. QED  BY <2>1, <2>2 DEF Told, Abi
<1> HIDE DEF abi
<1>2. rest \in Seq(Segments) /\ Len(rest) \in Nat
  BY <1>1, ConcatProperties, LenProperties
<1>3. FileName(f) = <<f.module>> \o rest
  <2> DEFINE head == <<f.module>>
  <2>1. FileName(f) = (head \o abi) \o f.key
    BY DEF FileName, LibraryName, abi
  <2>2. head \in Seq(Segments)
    BY <1>1
  <2> HIDE DEF head
  <2>3. \A s, t, u \in Seq(Segments) : (s \o t) \o u = s \o (t \o u)
    BY ConcatAssociative
  <2>4. (head \o abi) \o f.key = head \o (abi \o f.key)
    BY <1>1, <2>2, <2>3
  <2>. QED  BY <2>1, <2>4 DEF head
<1> HIDE DEF rest
<1>4. Len(<<f.module>>) = 1 /\ <<f.module>>[1] = f.module
  OBVIOUS
<1>5. /\ FileName(f) \in Seq(Segments) /\ Len(FileName(f)) = 1 + Len(rest)
      /\ \A i \in 1..(1 + Len(rest)) :
            FileName(f)[i] = IF i <= 1 THEN <<f.module>>[i] ELSE rest[i - 1]
  BY <1>1, <1>2, <1>3, <1>4, ConcatProperties
<1>6. FileName(f)[1] = f.module
  BY <1>2, <1>4, <1>5
<1>7. From(FileName(f), 2) = rest
  <2> DEFINE s == SubSeq(FileName(f), 2, Len(FileName(f)))
  <2>1. \A i \in 2..Len(FileName(f)) : FileName(f)[i] \in Segments
    BY <1>2, <1>5, ElementOfSeq
  <2>2. /\ s \in Seq(Segments)
        /\ Len(s) = IF 2 <= Len(FileName(f)) THEN Len(FileName(f)) - 2 + 1 ELSE 0
        /\ \A i \in 1..(Len(FileName(f)) - 2 + 1) : s[i] = FileName(f)[2 + i - 1]
    BY <1>2, <1>5, <2>1, SubSeqProperties
  <2> HIDE DEF s
  <2>3. Len(s) = Len(rest)
    BY <1>2, <1>5, <2>2
  <2>4. \A i \in 1..Len(s) : s[i] = rest[i]
    <3> SUFFICES ASSUME NEW i \in 1..Len(s) PROVE s[i] = rest[i]
      OBVIOUS
    <3>1. s[i] = FileName(f)[i + 1]
      BY <1>2, <1>5, <2>2, <2>3
    <3>2. i + 1 \in 1..(1 + Len(rest)) /\ ~(i + 1 <= 1) /\ i + 1 - 1 = i
      BY <1>2, <2>3
    <3>. QED  BY <1>5, <3>1, <3>2
  <2>5. s = rest
    BY <1>2, <2>2, <2>3, <2>4, SeqEqual
  <2>. QED  BY <2>5 DEF s, From
<1>. QED  BY <1>5, <1>6, <1>7 DEF Stems, rest, abi

\* The names in a directory.
LEMMA NamesIs ==
    ASSUME NEW d, NEW dir, LibOK(d[dir].lib)
    PROVE  /\ Names(d, dir) \subseteq Stems /\ IsFiniteSet(Names(d, dir))
           /\ \A n \in Names(d, dir) : FileAt(d, dir, n) \in d[dir].lib /\ FileName(FileAt(d, dir, n)) = n
<1> DEFINE lib == d[dir].lib
           name == [f \in lib |-> FileName(f)]
<1>1. Names(d, dir) \subseteq Stems
  BY FileNameIs DEF Names, LibOK
<1>2. IsFiniteSet(Names(d, dir))
  <2>1. name \in Surjection(lib, Names(d, dir))
    BY DEF Surjection, Names
  <2>2. IsFiniteSet(lib)
    BY DEF LibOK
  <2> HIDE DEF name, lib
  <2>. QED  BY <2>1, <2>2, FS_Surjection
<1>3. ASSUME NEW n \in Names(d, dir)
      PROVE  FileAt(d, dir, n) \in d[dir].lib /\ FileName(FileAt(d, dir, n)) = n
  <2>1. \E f \in d[dir].lib : FileName(f) = n
    BY DEF Names
  <2>. QED  BY <2>1 DEF FileAt
<1>. QED  BY <1>1, <1>2, <1>3

\* A cell of some runtime map, with libraries in its directory.
CellOf(d, c) ==
    /\ c.key \in Stems /\ c.key # None /\ (\E p \in Pubs : c.key \in Range1(KeysOf(p)))
    /\ LibOK(d[c.dir].lib)

\* The name of a library is parted at one key, the cell's own when it asks for it.
Parted(d, c, n) ==
    \E k \in Stems : Split(n, k, LibrariesOf(d, c)[n]) /\ (Own(c) => k = c.key)

\* What the libraries of a directory say.
LEMMA LibsIs ==
    ASSUME NEW d, NEW c, CellOf(d, c), NEW n \in DOMAIN LibrariesOf(d, c)
    PROVE  /\ n \in Names(d, c.dir) /\ n \in Stems
           /\ LibrariesOf(d, c)[n] = Library(n, LookupKey(c))
           /\ Parted(d, c, n)
           /\ LibrariesOf(d, c)[n].base[1] = n[1]
<1> DEFINE said == [m \in Names(d, c.dir) |-> Library(m, LookupKey(c))]
<1>1. LibrariesOf(d, c) = Recognized(said)
  BY DEF LibrariesOf, Libraries
<1>2. n \in DOMAIN said /\ said[n] # None /\ LibrariesOf(d, c)[n] = said[n]
  BY <1>1 DEF Recognized
<1>3. n \in Names(d, c.dir) /\ n \in Stems
  BY <1>2, NamesIs DEF CellOf
<1>4. LibrariesOf(d, c)[n] = Library(n, LookupKey(c)) /\ Library(n, LookupKey(c)) # None
  BY <1>2, <1>3
<1>5. (LookupKey(c) = None \/ LookupKey(c) \in Stems) /\ (Own(c) => LookupKey(c) # None /\ LookupKey(c) = c.key)
  BY DEF LookupKey, CellOf
<1>6. PICK k \in Stems :
         /\ Split(n, k, Library(n, LookupKey(c))) /\ (LookupKey(c) # None => k = LookupKey(c))
         /\ Library(n, LookupKey(c)).base[1] = n[1]
  BY <1>3, <1>4, <1>5, LibrarySays
<1>7. Parted(d, c, n)
  BY <1>4, <1>5, <1>6 DEF Parted
<1>. QED  BY <1>3, <1>4, <1>6, <1>7

\* The libraries of one module are some of them.
LEMMA ArtifactsIs ==
    ASSUME NEW libs, NEW b
    PROVE  /\ DOMAIN Artifacts(libs, b) = {m \in DOMAIN libs : libs[m].base = b}
           /\ \A n \in DOMAIN Artifacts(libs, b) : Artifacts(libs, b)[n] = libs[n]
  BY DEF Artifacts

LEMMA ArtifactsFinite ==
    ASSUME NEW d, NEW c, CellOf(d, c), NEW b
    PROVE  /\ IsFiniteSet(DOMAIN Artifacts(LibrariesOf(d, c), b))
           /\ DOMAIN Artifacts(LibrariesOf(d, c), b) \subseteq Stems
<1>1. DOMAIN Artifacts(LibrariesOf(d, c), b) \subseteq Names(d, c.dir)
  BY ArtifactsIs, LibsIs
<1>2. IsFiniteSet(Names(d, c.dir)) /\ Names(d, c.dir) \subseteq Stems
  BY NamesIs DEF CellOf
<1>. QED  BY <1>1, <1>2, FS_Subset

\* An ABI has a rank.
LEMMA AbiRanked ==
    ASSUME NEW d, NEW c, CellOf(d, c), NEW n \in DOMAIN LibrariesOf(d, c)
    PROVE  Rank[LibrariesOf(d, c)[n].abi] \in Nat
<1>1. PICK k \in Stems : Split(n, k, LibrariesOf(d, c)[n])
  <2>1. Parted(d, c, n)
    BY LibsIs
  <2>. QED  BY <2>1 DEF Parted
<1>2. n \in Stems
  BY LibsIs
<1>3. LibrariesOf(d, c)[n].abi \in Segments
  <2>1. Len(n) - Len(k) \in 1..Len(n)
    BY <1>1 DEF Split
  <2>2. n[Len(n) - Len(k)] \in Segments
    BY <1>2, <2>1, ElementOfSeq DEF Stems
  <2>3. Dev \in Segments
    BY NamingAssumption DEF Segments
  <2>. QED  BY <1>1, <2>2, <2>3 DEF Split
<1>. QED  BY <1>3, NamingAssumption DEF Segments

\* The lowest ABI of a module.
Lowest(arts) == {n \in DOMAIN arts : \A m \in DOMAIN arts : Rank[arts[n].abi] <= Rank[arts[m].abi]}

\* What the loader takes for a module is one of its libraries, under its own name.
LEMMA TakeIs ==
    ASSUME NEW d, NEW c, CellOf(d, c), NEW b \in Bases(LibrariesOf(d, c))
    PROVE  LET arts == Artifacts(LibrariesOf(d, c), b)
               n == Take(c, arts)
           IN  /\ n \in DOMAIN LibrariesOf(d, c) /\ LibrariesOf(d, c)[n].base = b
               /\ Least(FirstByName(DOMAIN arts), DOMAIN arts)
               /\ Own(c) => n \in Lowest(arts)
               /\ HostNatives(d, c)[b] \in d[c.dir].lib /\ FileName(HostNatives(d, c)[b]) = n
<1> DEFINE libs == LibrariesOf(d, c)
           arts == Artifacts(libs, b)
           n == Take(c, arts)
<1>1. /\ DOMAIN arts = {m \in DOMAIN libs : libs[m].base = b}
      /\ \A m \in DOMAIN arts : arts[m] = libs[m]
  BY ArtifactsIs
<1>2. DOMAIN arts # {}
  BY <1>1 DEF Bases
<1>3. IsFiniteSet(DOMAIN arts) /\ DOMAIN arts \subseteq Stems
  BY ArtifactsFinite
<1>4. Least(FirstByName(DOMAIN arts), DOMAIN arts)
  BY <1>2, <1>3, FirstExists
<1>5. \A m \in DOMAIN arts : Rank[arts[m].abi] \in Nat
  BY <1>1, AbiRanked
<1> HIDE DEF libs, arts
<1>6. Lowest(arts) # {}
  <2> DEFINE T == {Rank[arts[m].abi] : m \in DOMAIN arts}
  <2>1. T \subseteq Nat /\ T # {}
    BY <1>2, <1>5
  <2>2. PICK x \in T : \A y \in T : x <= y
    BY <2>1, LeastNumber
  <2>3. PICK m \in DOMAIN arts : Rank[arts[m].abi] = x
    BY <2>2
  <2>4. m \in Lowest(arts)
    BY <2>2, <2>3 DEF Lowest
  <2>. QED  BY <2>4
<1>7. Least(FirstByName(Lowest(arts)), Lowest(arts))
  <2>1. Lowest(arts) \subseteq DOMAIN arts
    BY DEF Lowest
  <2>2. IsFiniteSet(Lowest(arts)) /\ Lowest(arts) \subseteq Stems
    BY <1>3, <2>1, FS_Subset
  <2>. QED  BY <1>6, <2>2, FirstExists
<1>8. PickBest(arts) = FirstByName(Lowest(arts))
  BY DEF PickBest, Lowest
<1>9. n \in DOMAIN arts /\ (Own(c) => n \in Lowest(arts))
  BY <1>4, <1>7, <1>8 DEF Take, Least, Lowest
<1>10. n \in DOMAIN libs /\ libs[n].base = b
  BY <1>1, <1>9
<1>11. HostNatives(d, c)[b] = FileAt(d, c.dir, n)
  BY DEF HostNatives, NativesAmong, libs, arts
<1>12. n \in Names(d, c.dir)
  BY <1>10, LibsIs DEF libs
<1>13. HostNatives(d, c)[b] \in d[c.dir].lib /\ FileName(HostNatives(d, c)[b]) = n
  BY <1>11, <1>12, NamesIs DEF CellOf
<1>. QED  BY <1>4, <1>9, <1>10, <1>13 DEF libs, arts

\* Where every library that has another of its module beside it has an ABI in its
\* name, the first file of a module is the one of the lowest ABI.
LEMMA LowestIsFirst ==
    ASSUME NEW d, NEW c, CellOf(d, c), Own(c), ~OldBeside(d, c), NEW b,
           NEW x \in Lowest(Artifacts(LibrariesOf(d, c), b)),
           NEW y, Least(y, DOMAIN Artifacts(LibrariesOf(d, c), b))
    PROVE  x = y
<1> DEFINE libs == LibrariesOf(d, c)
           arts == Artifacts(libs, b)
           k == c.key
<1>1. /\ x \in DOMAIN libs /\ libs[x].base = b /\ y \in DOMAIN libs /\ libs[y].base = b
      /\ Rank[libs[x].abi] <= Rank[libs[y].abi]
  <2>1. x \in DOMAIN arts /\ y \in DOMAIN arts
    BY DEF Lowest, Least
  <2>2. Rank[arts[x].abi] <= Rank[arts[y].abi]
    BY <2>1 DEF Lowest
  <2>3. /\ DOMAIN arts = {m \in DOMAIN libs : libs[m].base = b}
        /\ \A m \in DOMAIN arts : arts[m] = libs[m]
    BY ArtifactsIs
  <2> HIDE DEF libs, arts
  <2>. QED  BY <2>1, <2>2, <2>3
<1>2. y = x \/ NameLess(y, x)
  BY ArtifactsIs DEF Lowest, Least
<1>3. ASSUME x # y, NEW n \in {x, y}
      PROVE  /\ n \in Stems /\ Split(n, k, libs[n]) /\ Len(n) - Len(k) >= 2
             /\ Len(n) \in Nat /\ Len(k) \in Nat
  <2>1. n \in Names(d, c.dir) /\ n \in Stems /\ Split(n, k, libs[n])
    <3>1. n \in Names(d, c.dir) /\ n \in Stems
      BY <1>1, LibsIs
    <3>2. Parted(d, c, n)
      BY <1>1, LibsIs
    <3>. QED  BY <3>1, <3>2 DEF Parted
  <2>2. Len(n) \in Nat /\ Len(k) \in Nat
    BY <2>1, LenProperties DEF Stems, CellOf
  <2>3. Len(n) # Len(k) + 1
    BY <1>1, <1>3 DEF OldBeside
  <2>4. Len(n) - Len(k) \in 1..Len(n)
    BY <2>1 DEF Split
  <2>5. Len(n) - Len(k) >= 2
    BY <2>2, <2>3, <2>4
  <2>. QED  BY <2>1, <2>2, <2>5
<1> HIDE DEF libs, arts, k
<1>4. ASSUME NameLess(y, x), x # y PROVE FALSE
  <2> DEFINE ny == Len(y) - Len(k)
             nx == Len(x) - Len(k)
  <2>1. /\ y \in Stems /\ ny >= 2 /\ ny \in Nat /\ ny <= Len(y) /\ Len(y) \in Nat
        /\ From(y, ny + 1) = k /\ b = Upto(y, ny - 1) /\ libs[y].abi = y[ny]
    BY <1>1, <1>3, <1>4 DEF Split
  <2>2. /\ x \in Stems /\ nx >= 2 /\ nx \in Nat /\ nx <= Len(x) /\ Len(x) \in Nat
        /\ From(x, nx + 1) = k /\ b = Upto(x, nx - 1) /\ libs[x].abi = x[nx]
    BY <1>1, <1>3, <1>4 DEF Split
  <2>3. Len(k) \in Nat
    BY <1>3, <1>4
  <2>4. ny = nx /\ Len(x) = Len(y)
    <3>1. Len(Upto(y, ny - 1)) = ny - 1
      <4>1. \A i \in 1..(ny - 1) : y[i] \in Segments
        BY <2>1, ElementOfSeq DEF Stems
      <4>2. 1 \in Int /\ ny - 1 \in Int /\ 1 <= ny - 1 /\ ny - 1 - 1 + 1 = ny - 1
        BY <2>1
      <4> HIDE DEF ny
      <4>. QED  BY <4>1, <4>2, SubSeqProperties DEF Upto
    <3>2. Len(Upto(x, nx - 1)) = nx - 1
      <4>1. \A i \in 1..(nx - 1) : x[i] \in Segments
        BY <2>2, ElementOfSeq DEF Stems
      <4>2. 1 \in Int /\ nx - 1 \in Int /\ 1 <= nx - 1 /\ nx - 1 - 1 + 1 = nx - 1
        BY <2>2
      <4> HIDE DEF nx
      <4>. QED  BY <4>1, <4>2, SubSeqProperties DEF Upto
    <3>3. ny - 1 = nx - 1
      BY <2>1, <2>2, <3>1, <3>2
    <3>. QED  BY <2>1, <2>2, <2>3, <3>3
  <2>5. PICK q \in Nat : LessAt(y, x, q)
    BY <1>4, <2>1, <2>2, LessIs
  <2>6. q < Len(y) /\ Rank[y[q + 1]] < Rank[x[q + 1]]
    BY <2>1, <2>4, <2>5 DEF LessAt
  <2>7. \A i \in 1..(ny - 1) : y[i] = x[i]
    <3>1. Upto(y, ny - 1) = Upto(x, ny - 1) /\ ny - 1 \in Nat /\ ny - 1 <= Len(y) /\ ny - 1 <= Len(x)
      BY <2>1, <2>2, <2>4
    <3> HIDE DEF ny
    <3>. QED  BY <2>1, <2>2, <3>1, UptoSame
  <2>8. \A i \in (ny + 1)..Len(y) : y[i] = x[i]
    <3> SUFFICES ASSUME NEW i \in (ny + 1)..Len(y) PROVE y[i] = x[i]
      OBVIOUS
    <3>1. From(y, ny + 1)[i - ny] = y[i]
      <4>1. \A j \in (ny + 1)..Len(y) : y[j] \in Segments
        BY <2>1, ElementOfSeq DEF Stems
      <4>2. ny + 1 \in Int /\ Len(y) \in Int /\ i - ny \in 1..(Len(y) - (ny + 1) + 1)
               /\ (ny + 1) + (i - ny) - 1 = i
        BY <2>1
      <4> HIDE DEF ny
      <4>. QED  BY <4>1, <4>2, SubSeqProperties DEF From
    <3>2. From(x, ny + 1)[i - ny] = x[i]
      <4>1. \A j \in (ny + 1)..Len(x) : x[j] \in Segments
        BY <2>1, <2>2, <2>4, ElementOfSeq DEF Stems
      <4>2. ny + 1 \in Int /\ Len(x) \in Int /\ i - ny \in 1..(Len(x) - (ny + 1) + 1)
               /\ (ny + 1) + (i - ny) - 1 = i
        BY <2>1, <2>2, <2>4
      <4> HIDE DEF ny
      <4>. QED  BY <4>1, <4>2, SubSeqProperties DEF From
    <3>. QED  BY <2>1, <2>2, <2>4, <3>1, <3>2
  <2>9. \A s \in Segments : Rank[s] \in Nat
    BY NamingAssumption DEF Segments
  <2>10. y[q + 1] \in Segments /\ x[q + 1] \in Segments
    <3>1. q + 1 \in 1..Len(y) /\ q + 1 \in 1..Len(x)
      BY <2>1, <2>4, <2>6
    <3>. QED  BY <2>1, <2>2, <3>1, ElementOfSeq DEF Stems
  <2>11. y[q + 1] # x[q + 1]
    <3>1. Rank[y[q + 1]] \in Nat /\ Rank[x[q + 1]] \in Nat
      BY <2>9, <2>10
    <3>. QED  BY <2>6, <3>1
  <2>12. q + 1 = ny
    <3>1. q + 1 \in 1..Len(y)
      BY <2>1, <2>6
    <3>2. q + 1 \in 1..(ny - 1) \/ q + 1 = ny \/ q + 1 \in (ny + 1)..Len(y)
      BY <2>1, <3>1
    <3> HIDE DEF ny
    <3>. QED  BY <2>7, <2>8, <2>11, <3>2
  <2>13. Rank[libs[y].abi] < Rank[libs[x].abi]
    BY <2>1, <2>2, <2>4, <2>6, <2>12
  <2>14. Rank[libs[y].abi] \in Nat /\ Rank[libs[x].abi] \in Nat
    BY <1>1, AbiRanked DEF libs
  <2>. QED  BY <1>1, <2>13, <2>14
<1>. QED  BY <1>2, <1>4

\* So what the loader takes is what the validation has looked at.
LEMMA TakeIsFirst ==
    ASSUME NEW d, NEW c, CellOf(d, c), ~OldBeside(d, c), NEW b \in Bases(LibrariesOf(d, c))
    PROVE  Take(c, Artifacts(LibrariesOf(d, c), b)) = FirstByName(DOMAIN Artifacts(LibrariesOf(d, c), b))
<1> DEFINE arts == Artifacts(LibrariesOf(d, c), b)
<1>1. CASE Own(c)
  <2>1. Take(c, arts) \in Lowest(arts) /\ Least(FirstByName(DOMAIN arts), DOMAIN arts)
    BY <1>1, TakeIs
  <2>. QED  BY <1>1, <2>1, LowestIsFirst
<1>2. CASE ~Own(c)
  BY <1>2 DEF Take
<1>. QED  BY <1>1, <1>2

-----------------------------------------------------------------------------
(* What a process has loaded is what its directory offers.                 *)
Chosen == stage \in {"layout", "activate", "verify", "python", "import", "ready"}
Validated == stage \in {"activate", "verify", "python", "import", "ready"}
HereOK == Cell(pub, env).dir = None \/ CellOK(disk, Cell(pub, env))
ChoiceOK == proc.override \in Range1(KeysOf(pub)) => env = proc.override
Loaded ==
    \/ attached = Nothing /\ proc.override # None /\ ~NativesNamed(pub, disk, proc.override)
    \/ attached = HostNatives(disk, Cell(pub, env)) /\ Cell(pub, env).dir # None

BuildInv ==
    /\ \A d \in DOMAIN disk : LibOK(disk[d].lib)
    /\ Chosen => ChoiceOK
    /\ Validated => HereOK
    /\ stage = "ready" => Loaded

LEMMA BuildInit == Init => BuildInv
<1> SUFFICES ASSUME Init PROVE BuildInv
  OBVIOUS
<1>1. pub \in Pubs /\ disk = pub.files /\ stage = "idle"
  BY DEF Init
<1>2. \A d \in DOMAIN disk : LibOK(disk[d].lib)
  BY <1>1, FilesAssumption DEF LibOK
<1>. QED  BY <1>1, <1>2 DEF BuildInv, Chosen, Validated

\* A sync keeps the libraries of a directory what they were told to be.
LEMMA SyncLibs ==
    ASSUME \A d \in DOMAIN disk : LibOK(disk[d].lib), Sync
    PROVE  \A d \in DOMAIN disk' : LibOK(disk'[d].lib)
<1>1. PICK p \in Pubs :
         disk' = [d \in DOMAIN disk \cup DOMAIN p.files |->
                    IF d \notin DOMAIN p.files THEN disk[d]
                    ELSE IF d \notin DOMAIN disk THEN p.files[d]
                    ELSE [lib |-> p.files[d].lib \cup
                                  {f \in disk[d].lib : FileName(f) \notin Names(p.files, d)},
                          sub |-> p.files[d].sub \/ disk[d].sub]]
  BY DEF Sync
<1> SUFFICES ASSUME NEW d \in DOMAIN disk' PROVE LibOK(disk'[d].lib)
  OBVIOUS
<1>2. \A x \in DOMAIN p.files : LibOK(p.files[x].lib)
  BY FilesAssumption DEF LibOK
<1> DEFINE old == {f \in disk[d].lib : FileName(f) \notin Names(p.files, d)}
           new == p.files[d].lib
<1>3. d \in DOMAIN disk \cup DOMAIN p.files
  BY <1>1
<1>4. CASE d \notin DOMAIN p.files
  <2>1. disk'[d] = disk[d] /\ d \in DOMAIN disk
    BY <1>1, <1>3, <1>4
  <2>. QED  BY <2>1
<1>5. CASE d \in DOMAIN p.files /\ d \notin DOMAIN disk
  <2>1. disk'[d] = p.files[d]
    BY <1>1, <1>3, <1>5
  <2>. QED  BY <1>2, <1>5, <2>1
<1>6. CASE d \in DOMAIN p.files /\ d \in DOMAIN disk
  <2>1. disk'[d].lib = new \cup old
    BY <1>1, <1>3, <1>6
  <2>2. LibOK(new) /\ LibOK(disk[d].lib) /\ old \subseteq disk[d].lib
    BY <1>2, <1>6
  <2> HIDE DEF new, old
  <2>3. IsFiniteSet(old)
    BY <2>2, FS_Subset DEF LibOK
  <2>4. IsFiniteSet(new \cup old)
    BY <2>2, <2>3, FS_Union DEF LibOK
  <2>. QED  BY <2>1, <2>2, <2>4 DEF LibOK
<1>. QED  BY <1>3, <1>4, <1>5, <1>6

\* Where the process stays the same, so does what is known of it.
LEMMA BuildKept ==
    ASSUME BuildInv, UNCHANGED <<pub, disk, env>>, proc'.override = proc.override,
           Chosen' => Chosen, Validated' => Validated, stage' # "ready"
    PROVE  BuildInv'
<1>1. HereOK' = HereOK /\ ChoiceOK' = ChoiceOK
  BY DEF HereOK, ChoiceOK, Cell, CellOK, LibrariesOf, Names, LookupKey, Own
<1>. QED  BY <1>1 DEF BuildInv

\* What is said of the environment does not change with the rest of the process.
LEMMA SameEnvironment ==
    ASSUME UNCHANGED <<pub, disk, proc, env>>
    PROVE  /\ HereOK' = HereOK /\ ChoiceOK' = ChoiceOK /\ Cell(pub, env)' = Cell(pub, env)
           /\ NativesNamed(pub, disk, proc.override)' = NativesNamed(pub, disk, proc.override)
           /\ HostNatives(disk, Cell(pub, env))' = HostNatives(disk, Cell(pub, env))
<1>1. HereOK' = HereOK /\ ChoiceOK' = ChoiceOK
  BY DEF HereOK, ChoiceOK, Cell, CellOK, LibrariesOf, Names, LookupKey, Own
<1>2. /\ NativesNamed(pub, disk, proc.override)' = NativesNamed(pub, disk, proc.override)
      /\ HostNatives(disk, Cell(pub, env))' = HostNatives(disk, Cell(pub, env))
      /\ Cell(pub, env)' = Cell(pub, env)
  BY DEF NativesNamed, Named, HasNatives, HostNatives, NativesAmong, LibrariesOf, Names,
         LookupKey, Own, Take, FileAt, Cell
<1>. QED  BY <1>1, <1>2

LEMMA BuildSame ==
    ASSUME BuildInv, UNCHANGED <<pub, disk, proc, stage, env, attached>>
    PROVE  BuildInv'
<1>1. Loaded' = Loaded
  BY SameEnvironment DEF Loaded, Nothing
<1>2. Chosen' = Chosen /\ Validated' = Validated
  BY DEF Chosen, Validated
<1>. QED  BY <1>1, <1>2, SameEnvironment DEF BuildInv

LEMMA BuildStep == BuildInv /\ [Next]_vars => BuildInv'
<1> SUFFICES ASSUME BuildInv, [Next]_vars PROVE BuildInv'
  OBVIOUS
<1>1. ASSUME NEW r, Refuse(r) PROVE BuildInv'
  BY <1>1, BuildKept DEF Refuse, Chosen, Validated
<1>2. ASSUME NEW s, s # "ready", GoOn(s), Chosen, Validated PROVE BuildInv'
  BY <1>2, BuildKept DEF GoOn
<1>3. ASSUME UNCHANGED <<disk>>, stage' \in {"idle", "resolve"} PROVE BuildInv'
  BY <1>3 DEF BuildInv, Chosen, Validated
<1>4. CASE Start
  BY <1>3, <1>4 DEF Start
<1>5. CASE ResolveEnv
  <2>1. CASE \E r \in {"gpu", "environment"} : Refuse(r)
    BY <1>1, <2>1
  <2>2. ASSUME NEW key \in EnvKeys(pub, proc.gpu, proc.override), env' = key, stage' = "layout",
               UNCHANGED <<pub, disk, proc, why, attached, package, handle, syncs>>
        PROVE  BuildInv'
    <3>1. ChoiceOK'
      BY <2>2 DEF ChoiceOK, EnvKeys
    <3>. QED  BY <2>2, <3>1 DEF BuildInv, Chosen, Validated
  <2>. QED  BY <1>5, <2>1, <2>2 DEF ResolveEnv
<1>6. CASE Layout
  <2>1. CASE Refuse("layout")
    BY <1>1, <2>1
  <2>2. CASE HereOK /\ GoOn("activate")
    <3>1. UNCHANGED <<pub, disk, proc, env>> /\ stage' = "activate" /\ stage = "layout"
      BY <1>6, <2>2 DEF GoOn, Layout, At
    <3>. QED  BY <2>2, <3>1, SameEnvironment DEF BuildInv, Chosen, Validated
  <2>. QED  BY <1>6, <2>1, <2>2 DEF Layout, HereOK
<1>7. CASE Activate
  <2>1. stage = "activate" /\ Chosen /\ Validated
    BY <1>7 DEF Activate, At, Chosen, Validated
  <2>2. CASE \E s \in {"python", "verify"} : GoOn(s)
    BY <1>2, <2>1, <2>2
  <2>3. CASE \E r \in {"gpu", "cuda"} : Refuse(r)
    BY <1>1, <2>3
  <2>4. CASE /\ proc' = [proc EXCEPT !.cuda = TRUE] /\ stage' = "verify"
             /\ UNCHANGED <<pub, disk, env, why, attached, package, handle, syncs>>
    <3>1. proc'.override = proc.override
      BY <2>4
    <3>. QED  BY <2>1, <2>4, <3>1, BuildKept
  <2>. QED  BY <1>7, <2>2, <2>3, <2>4 DEF Activate
<1>8. ASSUME NEW next \in BOOLEAN, OpensAll(next), next => BuildInv' PROVE BuildInv'
  <2>1. next \/ \E r \in Reasons \ {"none"} : Refuse(r)
    BY <1>8, OpensAllGives
  <2>. QED  BY <1>1, <1>8, <2>1
<1>9. CASE Verify
  <2>1. stage = "verify" /\ Chosen /\ Validated /\ OpensAll(GoOn("python"))
    BY <1>9 DEF Verify, At, Chosen, Validated
  <2>2. GoOn("python") \in BOOLEAN
    BY DEF GoOn
  <2>. QED  BY <1>2, <1>8, <2>1, <2>2
<1>10. CASE CheckPython
  <2>1. stage = "python" /\ Chosen /\ Validated
    BY <1>10 DEF CheckPython, At, Chosen, Validated
  <2>. QED  BY <1>1, <1>2, <1>10, <2>1 DEF CheckPython
<1>11. CASE Importable
  <2>1. stage = "import" /\ Chosen /\ Validated
    BY <1>11 DEF Importable, At, Chosen, Validated
  <2>2. ASSUME NEW modules, Register(modules),
               \/ /\ modules = Nothing /\ proc.override # None
                  /\ ~NativesNamed(pub, disk, proc.override)
               \/ modules = HostNatives(disk, Cell(pub, env)) /\ Cell(pub, env).dir # None
        PROVE  BuildInv'
    <3>1. UNCHANGED <<pub, disk, proc, env>> /\ attached' = modules /\ stage' = "ready"
      BY <2>2 DEF Register
    <3>2. Loaded'
      BY <2>2, <3>1, SameEnvironment DEF Loaded, Nothing
    <3>. QED  BY <2>1, <3>1, <3>2, SameEnvironment DEF BuildInv
  <2>3. CASE proc.override # None /\ ~NativesNamed(pub, disk, proc.override) /\ Register(Nothing)
    BY <2>2, <2>3
  <2>4. CASE Refuse("gpu")
    BY <1>1, <2>4
  <2>5. CASE OpensAll(Register(HostNatives(disk, Cell(pub, env))))
    <3> DEFINE files == HostNatives(disk, Cell(pub, env))
    <3>1. \/ \E r : Refuse(r)
          \/ Register(files) /\ Cell(pub, env).dir # None
      BY <2>5 DEF OpensAll
    <3> HIDE DEF files
    <3>2. CASE Register(files) /\ Cell(pub, env).dir # None
      BY <2>2, <3>2 DEF files
    <3>. QED  BY <1>1, <3>1, <3>2
  <2>. QED  BY <1>11, <2>3, <2>4, <2>5 DEF Importable
<1>12. CASE EntryImportsApi
  <2>1. UNCHANGED <<pub, disk, proc, stage, env, attached>>
    BY <1>12 DEF EntryImportsApi
  <2>. QED  BY <2>1, BuildSame
<1>13. CASE End
  BY <1>3, <1>13 DEF End
<1>14. CASE Sync
  <2>1. stage' = "idle" /\ \A d \in DOMAIN disk' : LibOK(disk'[d].lib)
    <3>1. stage = "idle" /\ stage' = stage
      BY <1>14 DEF Sync, At
    <3>2. \A d \in DOMAIN disk : LibOK(disk[d].lib)
      BY DEF BuildInv
    <3>. QED  BY <1>14, <3>1, <3>2, SyncLibs
  <2>. QED  BY <2>1 DEF BuildInv, Chosen, Validated
<1>15. CASE UNCHANGED vars
  <2>1. UNCHANGED <<pub, disk, proc, stage, env, attached>>
    BY <1>15 DEF vars
  <2>. QED  BY <2>1, BuildSame
<1>. QED
  BY <1>4, <1>5, <1>6, <1>7, <1>9, <1>10, <1>11, <1>12, <1>13, <1>14, <1>15 DEF Next

\* The cell of a process that is ready, with its directory.
LEMMA CellIs ==
    ASSUME LoadTypeOK, BuildInv, stage = "ready", Cell(pub, env).dir # None
    PROVE  LET c == Cell(pub, env)
           IN  /\ c \in Range1(pub.cells) /\ c.key = env /\ CellOf(disk, c)
               /\ CellOK(disk, c) /\ c.dir \in DOMAIN disk
<1> DEFINE c == Cell(pub, env)
<1>1. pub \in Pubs /\ env \in Range1(KeysOf(pub)) /\ env # None
  BY DEF LoadTypeOK
<1>2. \E x \in Range1(pub.cells) : x.key = env
  <2>1. Len(KeysOf(pub)) = Len(pub.cells) /\ Len(pub.cells) \in Nat
    BY <1>1, KeysOfMap
  <2>2. PICK i \in 1..Len(pub.cells) : env = KeysOf(pub)[i]
    BY <1>1, <2>1 DEF Range1
  <2>3. KeysOf(pub)[i] = pub.cells[i].key
    BY <2>2 DEF KeysOf
  <2>. QED  BY <2>2, <2>3 DEF Range1
<1>3. c \in Range1(pub.cells) /\ c.key = env
  BY <1>2 DEF Cell
<1>4. CellOK(disk, c)
  BY DEF BuildInv, Validated, HereOK
<1>5. c.dir \in DOMAIN disk
  BY <1>4 DEF CellOK
<1>6. LibOK(disk[c.dir].lib)
  BY <1>5 DEF BuildInv
<1>7. env \in Stems
  BY <1>1, FilesAssumption DEF Stems
<1>8. CellOf(disk, c)
  BY <1>1, <1>3, <1>6, <1>7 DEF CellOf
<1>. QED  BY <1>3, <1>4, <1>5, <1>8

\* For every publication, every order of names and whatever syncs have left in the
\* directory: the modules of a process come from one build (native_validate.py:195),
\* except where a library of the old naming lies beside another of its module.
THEOREM OneBuildHolds == Spec => []OneBuild
<1>1. LoadTypeOK /\ BuildInv => OneBuild
  <2> SUFFICES ASSUME LoadTypeOK, BuildInv, stage = "ready",
                      Cell(pub, env).dir # None => ~OldBeside(disk, Cell(pub, env)),
                      NEW a \in DOMAIN attached, NEW b \in DOMAIN attached
               PROVE  LET lib(x) == Library(FileName(attached[x]), LookupKey(Cell(pub, env)))
                      IN  lib(a).abi = lib(b).abi /\ lib(a).py = lib(b).py
    BY DEF OneBuild
  <2> DEFINE c == Cell(pub, env)
             libs == LibrariesOf(disk, c)
             First(x) == libs[FirstByName(DOMAIN Artifacts(libs, x))]
             lib(x) == Library(FileName(attached[x]), LookupKey(c))
  <2>1. attached = HostNatives(disk, c) /\ c.dir # None
    <3>1. attached # Nothing
      BY DEF Nothing
    <3>. QED  BY <3>1 DEF BuildInv, Loaded
  <2>2. CellOf(disk, c) /\ CellOK(disk, c) /\ ~OldBeside(disk, c)
    BY <2>1, CellIs
  <2>3. DOMAIN attached = Bases(libs)
    BY <2>1 DEF HostNatives, NativesAmong
  <2>4. ASSUME NEW x \in Bases(libs) PROVE lib(x) = First(x)
    <3>1. /\ Take(c, Artifacts(libs, x)) \in DOMAIN libs
          /\ FileName(HostNatives(disk, c)[x]) = Take(c, Artifacts(libs, x))
      BY <2>2, TakeIs
    <3>2. Take(c, Artifacts(libs, x)) = FirstByName(DOMAIN Artifacts(libs, x))
      BY <2>2, TakeIsFirst
    <3>3. libs[Take(c, Artifacts(libs, x))] = Library(Take(c, Artifacts(libs, x)), LookupKey(c))
      BY <2>2, <3>1, LibsIs
    <3> HIDE DEF libs, c
    <3>. QED  BY <2>1, <3>1, <3>2, <3>3
  <2>5. First(a).abi = First(b).abi /\ First(a).py = First(b).py
    <3>1. FirstAgree(libs)
      BY <2>2 DEF CellOK
    <3> HIDE DEF libs, c
    <3>. QED  BY <2>3, <3>1, Zenon DEF FirstAgree
  <2> HIDE DEF libs, c, First
  <2>6. lib(a) = First(a) /\ lib(b) = First(b)
    BY <2>3, <2>4
  <2>7. lib(a).abi = lib(b).abi /\ lib(a).py = lib(b).py
    BY <2>5, <2>6
  <2>. QED  BY <2>7 DEF c
<1>. QED  BY <1>1, BuildInit, BuildStep, LoadTypeOKHolds, PTL DEF Spec

\* For every publication: no library of the environment's directory is passed over
\* (native_validate.py:170).
THEOREM NothingSkippedHolds == Spec => []NothingSkipped
<1>1. LoadTypeOK /\ BuildInv => NothingSkipped
  <2> SUFFICES ASSUME LoadTypeOK, BuildInv, stage = "ready",
                      proc.override \in Range1(KeysOf(pub)) \cup {None},
                      Cell(pub, env).dir # None,
                      NEW f \in disk[Cell(pub, env).dir].lib
               PROVE  \E b \in DOMAIN attached : attached[b].module = f.module
    BY DEF NothingSkipped
  <2> DEFINE c == Cell(pub, env)
             libs == LibrariesOf(disk, c)
  <2>1. /\ c \in Range1(pub.cells) /\ c.key = env /\ CellOf(disk, c)
        /\ CellOK(disk, c) /\ c.dir \in DOMAIN disk
    BY CellIs
  <2>2. attached = HostNatives(disk, c)
    <3> SUFFICES ASSUME proc.override # None, ~NativesNamed(pub, disk, proc.override) PROVE FALSE
      BY DEF BuildInv, Loaded
    <3>1. env = proc.override
      BY DEF BuildInv, Chosen, ChoiceOK
    <3>2. c \in Named(pub, proc.override)
      BY <2>1, <3>1 DEF Named
    <3>3. HasNatives(disk, c.dir)
      BY <2>1 DEF HasNatives
    <3>. QED  BY <3>2, <3>3 DEF NativesNamed
  <2>3. Told(f)
    BY <2>1 DEF CellOf, LibOK
  <2> DEFINE n == FileName(f)
  <2>4. n \in Names(disk, c.dir) /\ n \in DOMAIN libs
    BY <2>1 DEF Names, CellOK
  <2> DEFINE b == libs[n].base
  <2>5. b[1] = f.module
    <3>1. b[1] = n[1]
      BY <2>1, <2>4, LibsIs
    <3>2. n[1] = f.module
      BY <2>3, FileNameIs
    <3>. QED  BY <3>1, <3>2
  <2>6. b \in Bases(libs)
    BY <2>4 DEF Bases
  <2>7. DOMAIN attached = Bases(libs)
    BY <2>2 DEF HostNatives, NativesAmong
  <2> HIDE DEF b, n
  <2>8. /\ Take(c, Artifacts(libs, b)) \in DOMAIN libs
        /\ libs[Take(c, Artifacts(libs, b))].base = b
        /\ HostNatives(disk, c)[b] \in disk[c.dir].lib
        /\ FileName(HostNatives(disk, c)[b]) = Take(c, Artifacts(libs, b))
    BY <2>1, <2>6, TakeIs
  <2>9. libs[Take(c, Artifacts(libs, b))].base[1] = Take(c, Artifacts(libs, b))[1]
    BY <2>1, <2>8, LibsIs
  <2> HIDE DEF libs, c
  <2>10. FileName(attached[b])[1] = attached[b].module
    <3>1. Told(attached[b])
      BY <2>1, <2>2, <2>8 DEF CellOf, LibOK
    <3>. QED  BY <3>1, FileNameIs
  <2>11. attached[b].module = f.module
    BY <2>2, <2>5, <2>8, <2>9, <2>10
  <2>. QED  BY <2>6, <2>7, <2>11
<1>. QED  BY <1>1, BuildInit, BuildStep, LoadTypeOKHolds, PTL DEF Spec
=============================================================================
