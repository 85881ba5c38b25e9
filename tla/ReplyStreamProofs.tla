-------------------------- MODULE ReplyStreamProofs --------------------------
(* Proofs about ReplyStream: what the two parsers send is what the whole    *)
(* text means, however it is cut.                                           *)
EXTENDS ReplyStream, SequenceTheorems, WellFoundedInduction, TLAPS

-----------------------------------------------------------------------------
(* Numbers *)

\* A nonempty set of numbers has a least one.
LEMMA LeastNumber ==
    ASSUME NEW T, T \subseteq Nat, T # {}
    PROVE  \E x \in T : \A y \in T : x <= y
<1>1. IsWellFoundedOn(OpToRel(<, Nat), Nat)
  BY NatLessThanWellFounded
<1>2. PICK x \in T : \A y \in T : ~ (<<y, x>> \in OpToRel(<, Nat))
  BY <1>1, WFMin
<1>3. \A a, b \in Nat : b < a => <<b, a>> \in OpToRel(<, Nat)
  BY DEF OpToRel
<1>4. ASSUME NEW y \in T PROVE x <= y
  <2>1. x \in Nat /\ y \in Nat
    OBVIOUS
  <2>2. ~(y < x)
    BY <1>2, <1>3, <2>1
  <2> QED
    BY <2>1, <2>2
<1> QED
  BY <1>4

\* A set of numbers that has 0 and with every number below a bound the next one
\* has them all up to the bound.
LEMMA Upto ==
    ASSUME NEW T, NEW n \in Nat, 0 \in T, \A m \in 0 .. n - 1 : m \in T => m + 1 \in T
    PROVE  \A m \in 0 .. n : m \in T
<1> DEFINE U == {m \in 0 .. n : m \notin T}
<1> SUFFICES ASSUME U # {} PROVE FALSE
  OBVIOUS
<1>1. PICK m \in U : \A k \in U : m <= k
  <2>1. U \subseteq Nat
    OBVIOUS
  <2> HIDE DEF U
  <2> QED
    BY <2>1, LeastNumber
<1>2. m \in 1 .. n
  OBVIOUS
<1>3. m - 1 \in 0 .. n - 1 /\ m - 1 \notin U
  BY <1>1, <1>2
<1>4. m - 1 \in T
  BY <1>3
<1>5. (m - 1) + 1 \in T
  BY <1>3, <1>4
<1> QED
  BY <1>2, <1>5

\* The same from a number on.
LEMMA From ==
    ASSUME NEW T, NEW m \in Nat, NEW n \in Nat, m \in T, \A k \in m .. n - 1 : k \in T => k + 1 \in T
    PROVE  \A k \in m .. n : k \in T
<1> DEFINE U == {k \in Nat : k < m \/ k \in T}
<1>1. 0 \in U
  OBVIOUS
<1>2. ASSUME NEW k \in 0 .. n - 1, k \in U PROVE k + 1 \in U
  <2>1. CASE k < m
    <3>1. k + 1 < m \/ k + 1 = m
      BY <2>1
    <3> QED
      BY <3>1
  <2>2. CASE ~(k < m)
    BY <1>2, <2>2
  <2> QED
    BY <2>1, <2>2
<1>3. \A k \in 0 .. n - 1 : k \in U => k + 1 \in U
  BY <1>2
<1>4. \A k \in 0 .. n : k \in U
  <2> HIDE DEF U
  <2> QED
    BY <1>1, <1>3, Upto
<1> QED
  BY <1>4

\* A nonempty set of numbers below a bound has a greatest one.
LEMMA GreatestNumber ==
    ASSUME NEW n \in Nat, NEW T, T \subseteq 0 .. n, T # {}
    PROVE  \E x \in T : \A y \in T : x >= y
<1> DEFINE U == {m \in Nat : n - m \in T}
<1>1. PICK y : y \in T
  OBVIOUS
<1>2. n - y \in U
  BY <1>1
<1>3. PICK m \in U : \A k \in U : m <= k
  <2>1. U \subseteq Nat /\ U # {}
    BY <1>2
  <2> HIDE DEF U
  <2> QED
    BY <2>1, LeastNumber
<1>4. ASSUME NEW z \in T PROVE n - m >= z
  <2>1. n - z \in U
    OBVIOUS
  <2> QED
    BY <1>3, <2>1
<1> QED
  BY <1>3, <1>4

\* Min and Max of sets of numbers.
LEMMA MinIs ==
    ASSUME NEW T, T \subseteq Nat, T # {}
    PROVE  Min(T) \in T /\ \A y \in T : Min(T) <= y
BY LeastNumber DEF Min

\* The greatest member of a bounded set of numbers.
LEMMA MaxIs ==
    ASSUME NEW n \in Nat, NEW T, T \subseteq 0 .. n, T # {}
    PROVE  Max(T) \in T /\ \A y \in T : Max(T) >= y
BY GreatestNumber DEF Max

-----------------------------------------------------------------------------
(* Facts of sequences, in a form the provers find *)

\* Putting sequences together is associative.
LEMMA Associates ==
    \A E, x, y, z : x \in Seq(E) /\ y \in Seq(E) /\ z \in Seq(E) => (x \o y) \o z = x \o (y \o z)
BY ConcatAssociative

\* What a concatenation is.
LEMMA Joined ==
    \A E, x, y : x \in Seq(E) /\ y \in Seq(E) =>
       /\ x \o y \in Seq(E)
       /\ Len(x \o y) = Len(x) + Len(y)
       /\ \A i \in 1 .. Len(x) : (x \o y)[i] = x[i]
       /\ \A i \in 1 .. Len(y) : (x \o y)[Len(x) + i] = y[i]
<1> SUFFICES ASSUME NEW E, NEW x, NEW y, x \in Seq(E), y \in Seq(E)
             PROVE  /\ x \o y \in Seq(E)
                    /\ Len(x \o y) = Len(x) + Len(y)
                    /\ \A i \in 1 .. Len(x) : (x \o y)[i] = x[i]
                    /\ \A i \in 1 .. Len(y) : (x \o y)[Len(x) + i] = y[i]
  OBVIOUS
<1>1. Len(x) \in Nat /\ Len(y) \in Nat
  BY LenProperties
<1>2. /\ x \o y \in Seq(E)
      /\ Len(x \o y) = Len(x) + Len(y)
      /\ \A i \in 1 .. Len(x) + Len(y) :
            (x \o y)[i] = IF i <= Len(x) THEN x[i] ELSE y[i - Len(x)]
  BY ConcatProperties
<1>3. ASSUME NEW i \in 1 .. Len(x) PROVE (x \o y)[i] = x[i]
  BY <1>1, <1>2
<1>4. ASSUME NEW i \in 1 .. Len(y) PROVE (x \o y)[Len(x) + i] = y[i]
  <2>1. Len(x) + i \in 1 .. Len(x) + Len(y) /\ ~(Len(x) + i <= Len(x)) /\ (Len(x) + i) - Len(x) = i
    BY <1>1
  <2> QED
    BY <1>2, <2>1
<1> QED
  BY <1>2, <1>3, <1>4

\* A stretch of a sequence: empty, or from i to j.
LEMMA Stretch ==
    \A E, x, i, j : x \in Seq(E) /\ i \in Nat \ {0} /\ j \in Nat /\ i <= j + 1 /\ j <= Len(x) =>
       /\ SubSeq(x, i, j) \in Seq(E)
       /\ Len(SubSeq(x, i, j)) = j + 1 - i
       /\ \A k \in 1 .. j + 1 - i : SubSeq(x, i, j)[k] = x[i + k - 1]
<1> SUFFICES ASSUME NEW E, NEW x, NEW i, NEW j, x \in Seq(E), i \in Nat \ {0}, j \in Nat,
                    i <= j + 1, j <= Len(x)
             PROVE  /\ SubSeq(x, i, j) \in Seq(E)
                    /\ Len(SubSeq(x, i, j)) = j + 1 - i
                    /\ \A k \in 1 .. j + 1 - i : SubSeq(x, i, j)[k] = x[i + k - 1]
  OBVIOUS
<1>1. Len(x) \in Nat /\ \A k \in 1 .. Len(x) : x[k] \in E
  BY LenProperties, ElementOfSeq
<1>2. \A k \in i .. j : x[k] \in E
  BY <1>1
<1>3. SubSeq(x, i, j) \in Seq(E)
  BY <1>2, SubSeqProperties
<1>4. Len(SubSeq(x, i, j)) = IF i <= j THEN j - i + 1 ELSE 0
  BY <1>2, SubSeqProperties
<1>5. \A k \in 1 .. j - i + 1 : SubSeq(x, i, j)[k] = x[i + k - 1]
  BY <1>2, SubSeqProperties
<1>6. j + 1 - i = IF i <= j THEN j - i + 1 ELSE 0
  OBVIOUS
<1>7. \A k \in 1 .. j + 1 - i : k \in 1 .. j - i + 1
  OBVIOUS
<1> QED
  BY <1>3, <1>4, <1>5, <1>6, <1>7

\* Sequences of the same length with the same elements.
LEMMA SameSeq ==
    \A E, x, y : x \in Seq(E) /\ y \in Seq(E) /\ Len(x) = Len(y)
                 /\ (\A i \in 1 .. Len(x) : x[i] = y[i]) => x = y
BY SeqEqual

\* A sequence is what it has up to a position and what it has beyond.
LEMMA Cut ==
    ASSUME NEW E, NEW x \in Seq(E), NEW i \in 0 .. Len(x)
    PROVE  x = SubSeq(x, 1, i) \o SubSeq(x, i + 1, Len(x))
<1>1. Len(x) \in Nat /\ i \in Nat
  BY LenProperties
<1>2. PICK a : a = SubSeq(x, 1, i)
  OBVIOUS
<1>3. PICK b : b = SubSeq(x, i + 1, Len(x))
  OBVIOUS
<1>4. a \in Seq(E) /\ Len(a) = i /\ \A k \in 1 .. i : a[k] = x[k]
  BY <1>1, <1>2, Stretch
<1>5. b \in Seq(E) /\ Len(b) = Len(x) - i /\ \A k \in 1 .. Len(x) - i : b[k] = x[i + k]
  <2>1. i + 1 \in Nat \ {0} /\ i + 1 <= Len(x) + 1 /\ Len(x) <= Len(x)
    BY <1>1
  <2>2. /\ b \in Seq(E) /\ Len(b) = Len(x) + 1 - (i + 1)
        /\ \A k \in 1 .. Len(x) + 1 - (i + 1) : b[k] = x[(i + 1) + k - 1]
    BY <1>1, <1>3, <2>1, Stretch
  <2>3. Len(x) + 1 - (i + 1) = Len(x) - i /\ \A k \in 1 .. Len(x) - i : (i + 1) + k - 1 = i + k
    BY <1>1
  <2> QED
    BY <2>2, <2>3
<1>6. PICK y : y = a \o b
  OBVIOUS
<1>7. y \in Seq(E) /\ Len(y) = Len(x)
  BY <1>1, <1>4, <1>5, <1>6, Joined
<1>8. ASSUME NEW k \in 1 .. Len(x) PROVE x[k] = y[k]
  <2>1. CASE k <= i
    <3>1. k \in 1 .. Len(a)
      BY <1>4, <2>1
    <3> QED
      BY <1>4, <1>5, <1>6, <3>1, Joined
  <2>2. CASE ~(k <= i)
    <3>1. k - i \in 1 .. Len(b) /\ Len(a) + (k - i) = k /\ i + (k - i) = k
      BY <1>1, <1>4, <1>5, <2>2
    <3>2. y[Len(a) + (k - i)] = b[k - i]
      BY <1>4, <1>5, <1>6, <3>1, Joined
    <3> QED
      BY <1>5, <3>1, <3>2
  <2> QED
    BY <2>1, <2>2
<1> QED
  BY <1>2, <1>3, <1>6, <1>7, <1>8, SameSeq

-----------------------------------------------------------------------------
(* The operators on sequences under names of their own: to the provers they *)
(* are wholes, of which they know what the facts below say.                 *)

Cat(x, y)    == x \o y
App(x, e)    == Append(x, e)
Sub(x, i, j) == SubSeq(x, i, j)
Below(S, n)  == S \cap (1 .. n)

\* What stands in two sequences put together.
LEMMA CatIs ==
    \A E, x, y : x \in Seq(E) /\ y \in Seq(E) =>
       /\ Cat(x, y) \in Seq(E)
       /\ Len(Cat(x, y)) = Len(x) + Len(y)
       /\ \A i \in 1 .. Len(x) : Cat(x, y)[i] = x[i]
       /\ \A i \in 1 .. Len(y) : Cat(x, y)[Len(x) + i] = y[i]
BY Joined, Zenon DEF Cat

\* Three sequences put together, in either order.
LEMMA CatCat ==
    \A E, x, y, z : x \in Seq(E) /\ y \in Seq(E) /\ z \in Seq(E) => Cat(Cat(x, y), z) = Cat(x, Cat(y, z))
BY Associates, Zenon DEF Cat

\* The empty sequence adds nothing.
LEMMA CatNone ==
    \A E, x : x \in Seq(E) => Cat(x, <<>>) = x /\ Cat(<<>>, x) = x
BY ConcatEmptySeq, Zenon DEF Cat

\* What stands in a sequence with one element more.
LEMMA AppIs ==
    \A E, x, e : x \in Seq(E) /\ e \in E =>
       /\ App(x, e) \in Seq(E)
       /\ Len(App(x, e)) = Len(x) + 1
       /\ \A i \in 1 .. Len(x) : App(x, e)[i] = x[i]
       /\ App(x, e)[Len(x) + 1] = e
<1> TAKE E, x, e
<1> HAVE x \in Seq(E) /\ e \in E
<1>1. /\ Append(x, e) \in Seq(E)
      /\ Len(Append(x, e)) = Len(x) + 1
      /\ \A i \in 1 .. Len(x) : Append(x, e)[i] = x[i]
      /\ Append(x, e)[Len(x) + 1] = e
  BY AppendProperties
<1> QED
  BY <1>1, Zenon DEF App

\* What stands in a part of a sequence.
LEMMA SubIs ==
    \A E, x, i, j : x \in Seq(E) /\ i \in Nat \ {0} /\ j \in Nat /\ i <= j + 1 /\ j <= Len(x) =>
       /\ Sub(x, i, j) \in Seq(E)
       /\ Len(Sub(x, i, j)) = j + 1 - i
       /\ \A k \in 1 .. j + 1 - i : Sub(x, i, j)[k] = x[i + k - 1]
BY Stretch, Zenon DEF Sub

\* From i to j is a stretch of x, perhaps an empty one.
Fits(E, x, i, j) == x \in Seq(E) /\ i \in Nat \ {0} /\ j \in Nat /\ i <= j + 1 /\ j <= Len(x)

\* s is what x has there.
IsSub(E, s, x, i, j) ==
    s \in Seq(E) /\ Len(s) = j + 1 - i /\ \A k \in 1 .. j + 1 - i : s[k] = x[i + k - 1]

\* The same, for a part that fits.
LEMMA SubFits ==
    \A E, x, i, j : Fits(E, x, i, j) => IsSub(E, Sub(x, i, j), x, i, j)
<1> TAKE E, x, i, j
<1> HAVE Fits(E, x, i, j)
<1>1. x \in Seq(E) /\ i \in Nat \ {0} /\ j \in Nat /\ i <= j + 1 /\ j <= Len(x)
  BY DEF Fits
<1>2. Len(x) \in Nat /\ \A k \in 1 .. Len(x) : x[k] \in E
  BY <1>1, LenProperties, ElementOfSeq
<1>3. \A k \in i .. j : x[k] \in E
  BY <1>1, <1>2
<1>4. SubSeq(x, i, j) \in Seq(E)
  BY <1>1, <1>3, SubSeqProperties
<1>5. Len(SubSeq(x, i, j)) = IF i <= j THEN j - i + 1 ELSE 0
  BY <1>1, <1>3, SubSeqProperties
<1>6. \A k \in 1 .. j - i + 1 : SubSeq(x, i, j)[k] = x[i + k - 1]
  BY <1>1, <1>3, SubSeqProperties
<1>7. j + 1 - i = IF i <= j THEN j - i + 1 ELSE 0
  BY <1>1
<1>8. \A k \in 1 .. j + 1 - i : k \in 1 .. j - i + 1
  BY <1>1
<1>9. IsSub(E, SubSeq(x, i, j), x, i, j)
  BY <1>4, <1>5, <1>6, <1>7, <1>8 DEF IsSub
<1> QED
  BY <1>9, Zenon DEF Sub

\* Appending to the second part of a concatenation.
LEMMA AppCat ==
    \A E, x, y, e : x \in Seq(E) /\ y \in Seq(E) /\ e \in E => App(Cat(x, y), e) = Cat(x, App(y, e))
<1> TAKE E, x, y, e
<1> HAVE x \in Seq(E) /\ y \in Seq(E) /\ e \in E
<1>1. Len(x) \in Nat /\ Len(y) \in Nat
  BY LenProperties
<1>2. PICK u : u = App(y, e)
  OBVIOUS
<1>3. PICK v : v = Cat(x, y)
  OBVIOUS
<1>4. PICK a : a = App(v, e)
  OBVIOUS
<1>12. PICK b : b = Cat(x, u)
  OBVIOUS
<1>5. u \in Seq(E) /\ Len(u) = Len(y) + 1 /\ (\A i \in 1 .. Len(y) : u[i] = y[i]) /\ u[Len(y) + 1] = e
  BY <1>2, AppIs
<1>9. /\ v \in Seq(E) /\ Len(v) = Len(x) + Len(y)
      /\ \A i \in 1 .. Len(x) : v[i] = x[i]
      /\ \A i \in 1 .. Len(y) : v[Len(x) + i] = y[i]
  BY <1>3, CatIs
<1>10. a \in Seq(E) /\ Len(a) = Len(v) + 1 /\ (\A i \in 1 .. Len(v) : a[i] = v[i]) /\ a[Len(v) + 1] = e
  <2>1. v \in Seq(E)
    BY <1>9
  <2> QED
    BY <1>4, <2>1, AppIs
<1>11. /\ b \in Seq(E) /\ Len(b) = Len(x) + Len(u)
       /\ \A i \in 1 .. Len(x) : b[i] = x[i]
       /\ \A i \in 1 .. Len(u) : b[Len(x) + i] = u[i]
  <2>1. u \in Seq(E)
    BY <1>5
  <2> QED
    BY <1>12, <2>1, CatIs
<1>6. Len(a) = Len(b)
  BY <1>1, <1>5, <1>9, <1>10, <1>11
<1>7. ASSUME NEW i \in 1 .. Len(a) PROVE a[i] = b[i]
  <2>1. CASE i \in 1 .. Len(x)
    <3>1. i \in 1 .. Len(v)
      BY <1>1, <1>9, <2>1
    <3> QED
      BY <1>9, <1>10, <1>11, <2>1, <3>1
  <2>2. CASE i \in Len(x) + 1 .. Len(x) + Len(y)
    <3>1. PICK j : j = i - Len(x)
      OBVIOUS
    <3>2. j \in 1 .. Len(y) /\ j \in 1 .. Len(u) /\ Len(x) + j = i /\ i \in 1 .. Len(v)
      BY <1>1, <1>5, <1>9, <2>2, <3>1
    <3>3. a[i] = v[i] /\ v[i] = y[j] /\ b[i] = u[j] /\ u[j] = y[j]
      BY <1>5, <1>9, <1>10, <1>11, <3>2
    <3> QED
      BY <3>3
  <2>3. CASE i = Len(x) + Len(y) + 1
    <3>1. PICK j : j = Len(y) + 1
      OBVIOUS
    <3>2. j \in 1 .. Len(u) /\ Len(x) + j = i /\ i = Len(v) + 1
      BY <1>1, <1>5, <1>9, <2>3, <3>1
    <3>3. a[i] = e /\ b[i] = u[j] /\ u[j] = e
      BY <1>5, <1>10, <1>11, <3>1, <3>2
    <3> QED
      BY <3>3
  <2>4. i \in 1 .. Len(x) + Len(y) + 1
    BY <1>1, <1>9, <1>10
  <2> QED
    BY <1>1, <2>1, <2>2, <2>3, <2>4
<1>8. a = b
  BY <1>6, <1>7, <1>10, <1>11, SameSeq
<1> QED
  BY <1>2, <1>3, <1>4, <1>8, <1>12

\* A sequence is what it has up to a position and what it has beyond.
LEMMA CutCat ==
    \A E, x, i : x \in Seq(E) /\ i \in 0 .. Len(x) => x = Cat(Sub(x, 1, i), Sub(x, i + 1, Len(x)))
BY Cut, Zenon DEF Cat, Sub

\* Two stretches that meet.
LEMMA SubSub ==
    \A E, x, i, j, l, k : Fits(E, x, i, j) /\ Fits(E, x, l, k) /\ l = j + 1
       => Sub(x, i, k) = Cat(Sub(x, i, j), Sub(x, l, k))
<1> TAKE E, x, i, j, l, k
<1> HAVE Fits(E, x, i, j) /\ Fits(E, x, l, k) /\ l = j + 1
<1>1. /\ x \in Seq(E) /\ Len(x) \in Nat /\ l = j + 1
      /\ i \in 1 .. Len(x) + 1 /\ j \in i - 1 .. Len(x) /\ k \in j .. Len(x)
  BY LenProperties DEF Fits
<1>2. SubSeq(x, i, j) \o SubSeq(x, j + 1, k) = SubSeq(x, i, k)
  BY <1>1, ConcatAdjacentSubSeq
<1> QED
  BY <1>1, <1>2, Zenon DEF Cat, Sub

\* From the first position to the last it is the sequence.
LEMMA SubWhole ==
    \A E, x : x \in Seq(E) => Sub(x, 1, Len(x)) = x
BY SubSeqFull, Zenon DEF Sub

\* A part that ends before it begins is empty.
LEMMA SubNone ==
    \A x, i, j : i \in Nat /\ j \in Nat /\ j < i => Sub(x, i, j) = <<>>
<1> SUFFICES ASSUME NEW x, NEW i \in Nat, NEW j \in Nat, j < i PROVE Sub(x, i, j) = <<>>
  BY Zenon
<1>1. i \in Int /\ j \in Int
  OBVIOUS
<1>2. SubSeq(x, i, j) = <<>>
  BY <1>1, SubSeqEmpty
<1> QED
  BY <1>2, Zenon DEF Sub

\* A stretch that is one longer.
LEMMA SubNext ==
    \A E, x, i, j : x \in Seq(E) /\ i \in 1 .. Len(x) /\ j \in i - 1 .. Len(x) - 1
       => Sub(x, i, j + 1) = App(Sub(x, i, j), x[j + 1])
<1> TAKE E, x, i, j
<1> HAVE x \in Seq(E) /\ i \in 1 .. Len(x) /\ j \in i - 1 .. Len(x) - 1
<1>1. Len(x) \in Nat /\ \A k \in 1 .. Len(x) : x[k] \in E
  BY LenProperties, ElementOfSeq
<1>2. PICK n : n = j + 1
  OBVIOUS
<1>3. n \in i .. Len(x) /\ n \in 1 .. Len(x) /\ n - 1 = j /\ x[n] \in E
  BY <1>1, <1>2
<1>4. SubSeq(x, i, n) = SubSeq(x, i, n - 1) \o <<x[n]>>
  BY <1>3, SubSeqRecursiveSecond
<1>5. SubSeq(x, i, n - 1) \in Seq(E)
  <2>1. i \in Nat \ {0} /\ n - 1 \in Nat /\ i <= (n - 1) + 1 /\ n - 1 <= Len(x)
    BY <1>1, <1>3
  <2> QED
    BY <2>1, Stretch
<1>6. Append(SubSeq(x, i, n - 1), x[n]) = SubSeq(x, i, n - 1) \o <<x[n]>>
  BY <1>3, <1>5, AppendIsConcat
<1>7. SubSeq(x, i, n) = Append(SubSeq(x, i, j), x[n])
  BY <1>3, <1>4, <1>6
<1> QED
  BY <1>2, <1>7, Zenon DEF Sub, App

-----------------------------------------------------------------------------
(* What is picked of a sequence *)

\* The function by which Picked is defined.
IsKept(f, text, S) ==
    f = [n \in 0 .. Len(text) |->
           IF n = 0 THEN <<>> ELSE IF n \in S THEN Append(f[n - 1], text[n]) ELSE f[n - 1]]

\* There is one, up to every position.
LEMMA KeptExists ==
    ASSUME NEW E, NEW text \in Seq(E), NEW S
    PROVE  \E f : IsKept(f, text, S)
<1> DEFINE Step(f, m) == IF m = 0 THEN <<>> ELSE IF m \in S THEN Append(f[m - 1], text[m]) ELSE f[m - 1]
           T == {n \in Nat : \E f : f = [m \in 0 .. n |-> Step(f, m)]}
<1>1. 0 \in T
  <2> DEFINE f == [m \in 0 .. 0 |-> <<>>]
  <2>1. \A m \in 0 .. 0 : m = 0
    OBVIOUS
  <2>2. f = [m \in 0 .. 0 |-> Step(f, m)]
    BY <2>1
  <2> QED
    BY <2>2
<1>2. ASSUME NEW n \in 0 .. Len(text) - 1, n \in T PROVE n + 1 \in T
  <2>1. n \in Nat /\ n + 1 \in Nat
    BY LenProperties
  <2>2. PICK f : f = [m \in 0 .. n |-> Step(f, m)]
    BY <1>2
  <2> DEFINE g == [m \in 0 .. n + 1 |-> IF m = n + 1 THEN Step(f, n + 1) ELSE f[m]]
  <2>3. ASSUME NEW m \in 0 .. n + 1 PROVE g[m] = Step(g, m)
    <3>1. CASE m = n + 1
      <4>1. g[(n + 1) - 1] = f[n] /\ f[(n + 1) - 1] = f[n]
        BY <2>1
      <4>2. g[m] = Step(f, n + 1)
        BY <3>1
      <4> HIDE DEF g
      <4> QED
        BY <3>1, <4>1, <4>2
    <3>2. CASE m # n + 1
      <4>1. m \in 0 .. n /\ g[m] = f[m]
        BY <2>1, <3>2
      <4>2. m # 0 => m - 1 \in 0 .. n /\ g[m - 1] = f[m - 1]
        BY <2>1, <4>1
      <4>3. f[m] = Step(f, m)
        BY <2>2, <4>1
      <4> HIDE DEF g
      <4> QED
        BY <4>1, <4>2, <4>3
    <3> QED
      BY <3>1, <3>2
  <2>4. g = [m \in 0 .. n + 1 |-> Step(g, m)]
    BY <2>3
  <2> QED
    BY <2>1, <2>4
<1>3. Len(text) \in T
  <2>1. Len(text) \in Nat
    BY LenProperties
  <2>2. \A m \in 0 .. Len(text) - 1 : m \in T => m + 1 \in T
    BY <1>2
  <2> HIDE DEF T
  <2>3. \A m \in 0 .. Len(text) : m \in T
    BY <1>1, <2>1, <2>2, Upto
  <2> QED
    BY <2>1, <2>3
<1> QED
  BY <1>3 DEF IsKept

\* The defining equation of the function for Picked.
Keeps(f, text, S) ==
    /\ f[0] = <<>>
    /\ \A n \in 1 .. Len(text) :
          f[n] = IF n \in S THEN Append(f[n - 1], text[n]) ELSE f[n - 1]

\* Picked is the last value of such a function.
LEMMA PickedIs ==
    ASSUME NEW E, NEW text \in Seq(E), NEW S
    PROVE  \E f : Picked(text, S) = f[Len(text)] /\ Keeps(f, text, S)
<1> DEFINE f == CHOOSE f : IsKept(f, text, S)
<1>1. IsKept(f, text, S)
  BY KeptExists
<1>2. Picked(text, S) = f[Len(text)]
  BY Zenon DEF Picked, IsKept
<1> HIDE DEF f
<1>3. Len(text) \in Nat
  BY LenProperties
<1>4. \A n \in 0 .. Len(text) :
         f[n] = IF n = 0 THEN <<>> ELSE IF n \in S THEN Append(f[n - 1], text[n]) ELSE f[n - 1]
  BY <1>1, Zenon DEF IsKept
<1>5. f[0] = <<>>
  BY <1>3, <1>4
<1>6. \A n \in 1 .. Len(text) : f[n] = IF n \in S THEN Append(f[n - 1], text[n]) ELSE f[n - 1]
  BY <1>3, <1>4
<1> QED
  BY <1>2, <1>5, <1>6 DEF Keeps

\* Nothing is picked of nothing.
LEMMA PickedEmpty ==
    ASSUME NEW S
    PROVE  Picked(<<>>, S) = <<>>
<1>1. <<>> \in Seq({}) /\ Len(<<>>) = 0
  BY EmptySeq
<1> QED
  BY <1>1, PickedIs DEF Keeps

\* It is a sequence of what the sequence has.
LEMMA PickedType ==
    ASSUME NEW E, NEW text \in Seq(E), NEW S
    PROVE  Picked(text, S) \in Seq(E)
<1>0. PICK f : Picked(text, S) = f[Len(text)] /\ Keeps(f, text, S)
  BY PickedIs
<1>1. /\ Picked(text, S) = f[Len(text)] /\ f[0] = <<>>
      /\ \A n \in 1 .. Len(text) :
            f[n] = IF n \in S THEN Append(f[n - 1], text[n]) ELSE f[n - 1]
  BY <1>0 DEF Keeps
<1> DEFINE T == {n \in Nat : f[n] \in Seq(E)}
<1>2. Len(text) \in Nat /\ \A n \in 1 .. Len(text) : text[n] \in E
  BY LenProperties, ElementOfSeq
<1>3. 0 \in T
  BY <1>1, EmptySeq
<1>4. ASSUME NEW n \in 0 .. Len(text) - 1, n \in T PROVE n + 1 \in T
  <2>1. n + 1 \in 1 .. Len(text) /\ (n + 1) - 1 = n /\ n + 1 \in Nat
    BY <1>2
  <2>2. f[n + 1] = IF n + 1 \in S THEN Append(f[n], text[n + 1]) ELSE f[n]
    BY <1>1, <2>1
  <2>3. f[n] \in Seq(E) /\ text[n + 1] \in E
    BY <1>2, <1>4, <2>1
  <2>4. Append(f[n], text[n + 1]) \in Seq(E)
    BY <2>3, AppendProperties
  <2> QED
    BY <2>1, <2>2, <2>3, <2>4
<1>5. Len(text) \in T
  <2>1. \A m \in 0 .. Len(text) - 1 : m \in T => m + 1 \in T
    BY <1>4
  <2> HIDE DEF T
  <2>2. \A m \in 0 .. Len(text) : m \in T
    BY <1>2, <1>3, <2>1, Upto
  <2> QED
    BY <1>2, <2>2
<1> QED
  BY <1>1, <1>5

\* Two such functions agree as far as what they pick does.
LEMMA KeptAgree ==
    ASSUME NEW E, NEW F, NEW a \in Seq(E), NEW b \in Seq(F), NEW S, NEW T,
           NEW f, NEW g, Keeps(f, a, S), Keeps(g, b, T), NEW m \in 0 .. Len(a), m <= Len(b),
           \A i \in 1 .. m : (i \in S <=> i \in T) /\ (i \in S => a[i] = b[i]),
           \A i \in m + 1 .. Len(b) : i \notin T
    PROVE  g[Len(b)] = f[m]
<1> DEFINE U == {n \in Nat : g[n] = IF n <= m THEN f[n] ELSE f[m]}
<1>3. Len(a) \in Nat /\ Len(b) \in Nat /\ m \in Nat
  BY LenProperties
<1>4. 0 \in U
  BY <1>3 DEF Keeps
<1>5. ASSUME NEW n \in 0 .. Len(b) - 1, n \in U PROVE n + 1 \in U
  <2>1. n + 1 \in 1 .. Len(b) /\ (n + 1) - 1 = n /\ n + 1 \in Nat
    BY <1>3
  <2>2. g[n + 1] = IF n + 1 \in T THEN Append(g[n], b[n + 1]) ELSE g[n]
    BY <2>1 DEF Keeps
  <2>3. CASE n + 1 <= m
    <3>1. n + 1 \in 1 .. Len(a) /\ n + 1 \in 1 .. m /\ g[n] = f[n]
      BY <1>3, <1>5, <2>3
    <3>2. f[n + 1] = IF n + 1 \in S THEN Append(f[n], a[n + 1]) ELSE f[n]
      BY <2>1, <3>1 DEF Keeps
    <3>3. (n + 1 \in S <=> n + 1 \in T) /\ (n + 1 \in S => a[n + 1] = b[n + 1])
      BY <3>1
    <3> QED
      BY <2>1, <2>2, <2>3, <3>1, <3>2, <3>3
  <2>4. CASE ~(n + 1 <= m)
    <3>1. n + 1 \in m + 1 .. Len(b)
      BY <1>3, <2>1, <2>4
    <3>2. g[n + 1] = g[n]
      BY <2>2, <3>1
    <3>3. g[n] = f[m]
      <4>1. n <= m => n = m
        BY <1>3, <2>4
      <4> QED
        BY <1>5, <4>1
    <3> QED
      BY <2>1, <2>4, <3>2, <3>3
  <2> QED
    BY <2>3, <2>4
<1>6. Len(b) \in U
  <2>1. \A n \in 0 .. Len(b) - 1 : n \in U => n + 1 \in U
    BY <1>5
  <2> HIDE DEF U
  <2>2. \A n \in 0 .. Len(b) : n \in U
    BY <1>3, <1>4, <2>1, Upto
  <2> QED
    BY <1>3, <2>2
<1> QED
  BY <1>3, <1>6

\* What lies beyond a position, or is not picked, does not matter.
LEMMA PickedGrow ==
    ASSUME NEW E, NEW F, NEW a \in Seq(E), NEW b \in Seq(F), NEW S, NEW T, Len(a) <= Len(b),
           \A i \in 1 .. Len(a) : (i \in S <=> i \in T) /\ (i \in S => a[i] = b[i]),
           \A i \in Len(a) + 1 .. Len(b) : i \notin T
    PROVE  Picked(b, T) = Picked(a, S)
<1>1. PICK f : Picked(a, S) = f[Len(a)] /\ Keeps(f, a, S)
  BY PickedIs
<1>2. PICK g : Picked(b, T) = g[Len(b)] /\ Keeps(g, b, T)
  BY PickedIs
<1>3. Len(a) \in 0 .. Len(a)
  BY LenProperties
<1> QED
  BY <1>1, <1>2, <1>3, KeptAgree

\* One position more.
LEMMA PickedStep ==
    ASSUME NEW E, NEW a \in Seq(E), NEW S, NEW m \in 1 .. Len(a)
    PROVE  Picked(a, S \cap (1 .. m)) =
              IF m \in S THEN Append(Picked(a, S \cap (1 .. m - 1)), a[m])
                         ELSE Picked(a, S \cap (1 .. m - 1))
<1>1. PICK f : Keeps(f, a, S)
  BY PickedIs
<1>2. ASSUME NEW n \in 0 .. Len(a) PROVE Picked(a, S \cap (1 .. n)) = f[n]
  <2> DEFINE T == S \cap (1 .. n)
  <2>1. PICK g : Picked(a, T) = g[Len(a)] /\ Keeps(g, a, T)
    <3> HIDE DEF T
    <3> QED
      BY PickedIs
  <2>2. Len(a) \in Nat
    BY LenProperties
  <2>3. /\ \A i \in 1 .. n : i \in S <=> i \in T
        /\ \A i \in n + 1 .. Len(a) : i \notin T
        /\ n <= Len(a)
    BY <2>2
  <2> HIDE DEF T
  <2>4. g[Len(a)] = f[n]
    BY <1>1, <2>1, <2>3, KeptAgree
  <2> QED
    BY <2>1, <2>4 DEF T
<1>3. m \in 0 .. Len(a) /\ m - 1 \in 0 .. Len(a)
  BY LenProperties
<1>4. f[m] = IF m \in S THEN Append(f[m - 1], a[m]) ELSE f[m - 1]
  BY <1>1 DEF Keeps
<1> QED
  BY <1>2, <1>3, <1>4

\* Up to nothing there is nothing, up to the end there is all.
LEMMA PickedEnds ==
    ASSUME NEW E, NEW a \in Seq(E), NEW S
    PROVE  /\ Picked(a, S \cap (1 .. 0)) = <<>>
           /\ Picked(a, S \cap (1 .. Len(a))) = Picked(a, S)
<1>1. <<>> \in Seq(E) /\ Len(<<>>) = 0 /\ Len(a) \in Nat
  BY EmptySeq, LenProperties
<1>2. Picked(a, S \cap (1 .. 0)) = Picked(<<>>, S)
  <2>1. PICK e \in Seq(E) : e = <<>> /\ Len(e) = 0
    BY <1>1
  <2>2. \A i \in Len(e) + 1 .. Len(a) : i \notin S \cap (1 .. 0)
    BY <1>1, <2>1
  <2>3. Len(e) <= Len(a)
    BY <1>1, <2>1
  <2>4. \A i \in 1 .. Len(e) : /\ i \in S <=> i \in S \cap (1 .. 0)
                               /\ i \in S => e[i] = a[i]
    BY <2>1
  <2>5. Picked(a, S \cap (1 .. 0)) = Picked(e, S)
    BY <2>2, <2>3, <2>4, PickedGrow
  <2> QED
    BY <2>1, <2>5
<1>3. Picked(a, S \cap (1 .. Len(a))) = Picked(a, S)
  <2>1. \A i \in 1 .. Len(a) : i \in S <=> i \in S \cap (1 .. Len(a))
    OBVIOUS
  <2>2. \A i \in Len(a) + 1 .. Len(a) : i \notin S \cap (1 .. Len(a))
    BY <1>1
  <2>3. Len(a) <= Len(a)
    BY <1>1
  <2> QED
    BY <2>1, <2>2, <2>3, PickedGrow
<1> QED
  BY <1>2, <1>3, PickedEmpty

\* The same under the operators' other names.
LEMMA NextPicked ==
    ASSUME NEW E, NEW a \in Seq(E), NEW S, NEW m \in 1 .. Len(a)
    PROVE  Picked(a, Below(S, m)) =
              IF m \in S THEN App(Picked(a, Below(S, m - 1)), a[m]) ELSE Picked(a, Below(S, m - 1))
<1>1. Picked(a, S \cap (1 .. m)) =
         IF m \in S THEN Append(Picked(a, S \cap (1 .. m - 1)), a[m])
                    ELSE Picked(a, S \cap (1 .. m - 1))
  BY PickedStep
<1> QED
  BY <1>1, Zenon DEF App, Below

\* Nothing is picked below 0, and all below the length.
LEMMA EndsPicked ==
    ASSUME NEW E, NEW a \in Seq(E), NEW S
    PROVE  Picked(a, Below(S, 0)) = <<>> /\ Picked(a, Below(S, Len(a))) = Picked(a, S)
BY PickedEnds, Zenon DEF Below

\* What is below a bound.
LEMMA BelowIs ==
    \A S, n, i : i \in Below(S, n) <=> i \in S /\ i \in 1 .. n
BY DEF Below

\* A stretch that is picked as a whole.
LEMMA RunPicked ==
    ASSUME NEW E, NEW a \in Seq(E), NEW S, NEW m \in 0 .. Len(a), NEW n \in m .. Len(a),
           \A i \in m + 1 .. n : i \in S
    PROVE  Picked(a, Below(S, n)) = Cat(Picked(a, Below(S, m)), Sub(a, m + 1, n))
<1> DEFINE P(k) == Picked(a, Below(S, k))
           T == {k \in Nat : P(k) = Cat(P(m), Sub(a, m + 1, k))}
<1>1. Len(a) \in Nat /\ m \in Nat /\ n \in Nat /\ \A i \in 1 .. Len(a) : a[i] \in E
  BY LenProperties, ElementOfSeq
<1>2. \A k : P(k) \in Seq(E)
  BY PickedType
<1>3. m \in T
  <2>1. Sub(a, m + 1, m) = <<>>
    BY <1>1, SubNone
  <2>2. Cat(P(m), <<>>) = P(m)
    BY <1>2, CatNone
  <2> HIDE DEF P
  <2> QED
    BY <1>1, <2>1, <2>2
<1>4. ASSUME NEW k \in m .. n - 1, k \in T PROVE k + 1 \in T
  <2>1. k + 1 \in 1 .. Len(a) /\ k + 1 \in m + 1 .. n /\ (k + 1) - 1 = k /\ k + 1 \in Nat
    BY <1>1
  <2>2. P(k + 1) = App(P(k), a[k + 1])
    <3>1. PICK l : l = k + 1
      OBVIOUS
    <3>2. l \in 1 .. Len(a) /\ l - 1 = k /\ l \in S
      BY <2>1, <3>1
    <3>3. Picked(a, Below(S, l)) =
             IF l \in S THEN App(Picked(a, Below(S, l - 1)), a[l]) ELSE Picked(a, Below(S, l - 1))
      BY <3>2, NextPicked
    <3> QED
      BY <3>1, <3>2, <3>3
  <2>3. Sub(a, m + 1, k + 1) = App(Sub(a, m + 1, k), a[k + 1])
    <3>1. PICK i : i = m + 1
      OBVIOUS
    <3>2. i \in 1 .. Len(a) /\ k \in i - 1 .. Len(a) - 1
      BY <1>1, <2>1, <3>1
    <3>3. Sub(a, i, k + 1) = App(Sub(a, i, k), a[k + 1])
      BY <3>2, SubNext
    <3> QED
      BY <3>1, <3>3
  <2>4. P(k) = Cat(P(m), Sub(a, m + 1, k))
    BY <1>4
  <2>5. PICK w, y, e : w = P(m) /\ y = Sub(a, m + 1, k) /\ e = a[k + 1]
    OBVIOUS
  <2>6. w \in Seq(E) /\ e \in E
    BY <1>1, <1>2, <2>1, <2>5
  <2>7. y \in Seq(E)
    BY <1>1, <2>5, SubIs
  <2>8. App(Cat(w, y), e) = Cat(w, App(y, e))
    BY <2>6, <2>7, AppCat
  <2> HIDE DEF P
  <2>9. P(k + 1) = Cat(P(m), Sub(a, m + 1, k + 1))
    BY <2>2, <2>3, <2>4, <2>5, <2>8
  <2> QED
    BY <2>1, <2>9
<1>5. n \in T
  <2>1. \A k \in m .. n - 1 : k \in T => k + 1 \in T
    BY <1>4
  <2> HIDE DEF T
  <2>2. \A k \in m .. n : k \in T
    BY <1>1, <1>3, <2>1, From
  <2> QED
    BY <1>1, <2>2
<1> QED
  BY <1>5

\* v goes on where w ends.
Begins(E, w, v) == \E c \in Seq(E) : v = Cat(w, c)

\* A sequence begins with itself.
LEMMA BeginsRefl ==
    ASSUME NEW E, NEW w \in Seq(E) PROVE Begins(E, w, w)
BY EmptySeq, CatNone DEF Begins

\* Every sequence begins with the empty one.
LEMMA BeginsEmpty ==
    ASSUME NEW E, NEW w \in Seq(E) PROVE Begins(E, <<>>, w)
BY CatNone DEF Begins

\* A sequence with one element more begins as it began.
LEMMA BeginsApp ==
    ASSUME NEW E, NEW w \in Seq(E), NEW v, NEW e \in E, Begins(E, w, v)
    PROVE  Begins(E, w, App(v, e))
<1>1. PICK c \in Seq(E) : v = Cat(w, c)
  BY DEF Begins
<1>2. App(Cat(w, c), e) = Cat(w, App(c, e)) /\ App(c, e) \in Seq(E)
  BY AppCat, AppIs
<1> QED
  BY <1>1, <1>2 DEF Begins

\* What is picked up to a position is the beginning of what is picked.
LEMMA BeginsPicked ==
    ASSUME NEW E, NEW a \in Seq(E), NEW S, NEW m \in 0 .. Len(a)
    PROVE  Begins(E, Picked(a, Below(S, m)), Picked(a, S))
<1> DEFINE P(k) == Picked(a, Below(S, k))
           T == {k \in Nat : Begins(E, P(m), P(k))}
<1>1. Len(a) \in Nat /\ m \in Nat /\ \A i \in 1 .. Len(a) : a[i] \in E
  BY LenProperties, ElementOfSeq
<1>2. P(m) \in Seq(E)
  BY PickedType
<1>3. m \in T
  BY <1>1, <1>2, BeginsRefl
<1>4. ASSUME NEW k \in m .. Len(a) - 1, k \in T PROVE k + 1 \in T
  <2>1. PICK l : l = k + 1
    OBVIOUS
  <2>2. l \in 1 .. Len(a) /\ l - 1 = k /\ l \in Nat /\ a[l] \in E
    BY <1>1, <2>1
  <2>3. P(l) = IF l \in S THEN App(P(k), a[l]) ELSE P(k)
    BY <2>2, NextPicked
  <2>4. Begins(E, P(m), P(k))
    BY <1>4
  <2> HIDE DEF P
  <2>5. Begins(E, P(m), App(P(k), a[l]))
    BY <1>2, <2>2, <2>4, BeginsApp
  <2> QED
    BY <2>1, <2>2, <2>3, <2>4, <2>5
<1>5. Len(a) \in T
  <2>1. \A k \in m .. Len(a) - 1 : k \in T => k + 1 \in T
    BY <1>4
  <2> HIDE DEF T
  <2>2. \A k \in m .. Len(a) : k \in T
    BY <1>1, <1>3, <2>1, From
  <2> QED
    BY <1>1, <2>2
<1> QED
  BY <1>5, EndsPicked

\* What is picked of a concatenation.
LEMMA PickedConcat ==
    ASSUME NEW E, NEW x \in Seq(E), NEW y \in Seq(E), NEW S, NEW U,
           \A i \in 1 .. Len(y) : i \in U <=> Len(x) + i \in S
    PROVE  Picked(Cat(x, y), S) = Cat(Picked(x, S), Picked(y, U))
<1> DEFINE w == Picked(x, S)
           P(k) == Picked(Cat(x, y), Below(S, Len(x) + k))
           Q(k) == Picked(y, Below(U, k))
           T == {k \in Nat : P(k) = Cat(w, Q(k))}
<1>0. PICK z : z = Cat(x, y)
  OBVIOUS
<1>1. /\ z \in Seq(E) /\ Len(z) = Len(x) + Len(y)
      /\ \A i \in 1 .. Len(x) : z[i] = x[i]
      /\ \A i \in 1 .. Len(y) : z[Len(x) + i] = y[i]
  BY <1>0, CatIs
<1>2. Len(x) \in Nat /\ Len(y) \in Nat /\ \A i \in 1 .. Len(y) : y[i] \in E
  BY LenProperties, ElementOfSeq
<1>3. w \in Seq(E) /\ \A k : P(k) \in Seq(E) /\ Q(k) \in Seq(E)
  <2>1. w \in Seq(E)
    BY PickedType
  <2>2. \A k : Picked(z, Below(S, Len(x) + k)) \in Seq(E) /\ Q(k) \in Seq(E)
    BY <1>1, PickedType
  <2> QED
    BY <1>0, <2>1, <2>2
<1>4. 0 \in T
  <2>1. P(0) = w
    <3>1. Len(x) + 0 = Len(x) /\ Len(x) <= Len(z)
      BY <1>1, <1>2
    <3>2. \A i \in 1 .. Len(x) : /\ i \in S <=> i \in Below(S, Len(x))
                                 /\ i \in S => x[i] = z[i]
      BY <1>1, BelowIs
    <3>3. \A i \in Len(x) + 1 .. Len(z) : i \notin Below(S, Len(x))
      BY <1>2, BelowIs
    <3>4. Picked(z, Below(S, Len(x))) = w
      BY <1>1, <3>1, <3>2, <3>3, PickedGrow
    <3> QED
      BY <1>0, <3>1, <3>4
  <2>2. Q(0) = <<>>
    BY EndsPicked
  <2>3. Cat(w, <<>>) = w
    BY <1>3, CatNone
  <2> HIDE DEF w, P, Q
  <2> QED
    BY <2>1, <2>2, <2>3
<1>5. ASSUME NEW k \in 0 .. Len(y) - 1, k \in T PROVE k + 1 \in T
  <2>1. /\ k + 1 \in 1 .. Len(y) /\ (k + 1) - 1 = k /\ k + 1 \in Nat
        /\ Len(x) + (k + 1) \in 1 .. Len(z) /\ (Len(x) + (k + 1)) - 1 = Len(x) + k
    BY <1>1, <1>2
  <2>2. P(k + 1) = IF Len(x) + (k + 1) \in S THEN App(P(k), z[Len(x) + (k + 1)]) ELSE P(k)
    <3>1. PICK m : m = Len(x) + (k + 1)
      OBVIOUS
    <3>2. m \in 1 .. Len(z) /\ m - 1 = Len(x) + k
      BY <2>1, <3>1
    <3>3. Picked(z, Below(S, m)) =
             IF m \in S THEN App(Picked(z, Below(S, m - 1)), z[m]) ELSE Picked(z, Below(S, m - 1))
      BY <1>1, <3>2, NextPicked
    <3> QED
      BY <1>0, <3>1, <3>2, <3>3
  <2>3. Q(k + 1) = IF k + 1 \in U THEN App(Q(k), y[k + 1]) ELSE Q(k)
    <3>1. PICK m : m = k + 1
      OBVIOUS
    <3>2. m \in 1 .. Len(y) /\ m - 1 = k
      BY <2>1, <3>1
    <3>3. Picked(y, Below(U, m)) =
             IF m \in U THEN App(Picked(y, Below(U, m - 1)), y[m]) ELSE Picked(y, Below(U, m - 1))
      BY <3>2, NextPicked
    <3> QED
      BY <3>1, <3>2, <3>3
  <2>4. z[Len(x) + (k + 1)] = y[k + 1] /\ y[k + 1] \in E
    BY <1>1, <1>2, <2>1
  <2>5. k + 1 \in U <=> Len(x) + (k + 1) \in S
    BY <2>1
  <2>6. P(k) = Cat(w, Q(k))
    BY <1>5
  <2>7. PICK p, q, v, e : p = P(k) /\ q = Q(k) /\ v = w /\ e = y[k + 1]
    OBVIOUS
  <2>8. p \in Seq(E) /\ q \in Seq(E) /\ v \in Seq(E) /\ e \in E
    BY <1>3, <2>4, <2>7
  <2>11. p = Cat(v, q)
    BY <2>6, <2>7
  <2> HIDE DEF w, P, Q
  <2>9. CASE k + 1 \in U
    <3>1. App(Cat(v, q), e) = Cat(v, App(q, e))
      BY <2>8, AppCat
    <3>3. P(k + 1) = App(p, e) /\ Q(k + 1) = App(q, e)
      BY <2>2, <2>3, <2>4, <2>5, <2>7, <2>9
    <3>4. P(k + 1) = Cat(v, Q(k + 1))
      BY <2>11, <3>1, <3>3
    <3> QED
      BY <2>1, <2>7, <3>4
  <2>10. CASE k + 1 \notin U
    BY <2>1, <2>2, <2>3, <2>5, <2>6, <2>10
  <2> QED
    BY <2>9, <2>10
<1>6. Len(y) \in T
  <2>1. \A k \in 0 .. Len(y) - 1 : k \in T => k + 1 \in T
    BY <1>5
  <2> HIDE DEF T
  <2>2. \A k \in 0 .. Len(y) : k \in T
    BY <1>2, <1>4, <2>1, Upto
  <2> QED
    BY <1>2, <2>2
<1>7. P(Len(y)) = Picked(z, S)
  BY <1>0, <1>1, EndsPicked
<1>8. Q(Len(y)) = Picked(y, U)
  BY EndsPicked
<1> QED
  BY <1>0, <1>6, <1>7, <1>8

\* Positions that are not there pick nothing.
LEMMA PickedNone ==
    ASSUME NEW E, NEW x \in Seq(E), NEW S, \A i \in 1 .. Len(x) : i \notin S
    PROVE  Picked(x, S) = <<>>
<1>1. PICK e \in Seq(E) : e = <<>> /\ Len(e) = 0
  BY EmptySeq
<1>2. Len(e) <= Len(x)
  BY <1>1, LenProperties
<1>3. \A i \in 1 .. Len(e) : (i \in {} <=> i \in S) /\ (i \in {} => e[i] = x[i])
  BY <1>1
<1>4. \A i \in Len(e) + 1 .. Len(x) : i \notin S
  BY <1>1
<1>5. Picked(x, S) = Picked(e, {})
  BY <1>2, <1>3, <1>4, PickedGrow
<1> QED
  BY <1>1, <1>5, PickedEmpty

\* Only what is among the positions matters.
LEMMA PickedSame ==
    ASSUME NEW E, NEW x \in Seq(E), NEW S, NEW U, \A i \in 1 .. Len(x) : i \in S <=> i \in U
    PROVE  Picked(x, S) = Picked(x, U)
<1>1. Len(x) <= Len(x) /\ \A i \in Len(x) + 1 .. Len(x) : i \notin U
  BY LenProperties
<1> QED
  BY <1>1, PickedGrow

-----------------------------------------------------------------------------
(* Beginnings, and texts without their white space *)

\* A sequence that goes on begins as it began.
LEMMA BeginsMore ==
    \A E, w, v, c : w \in Seq(E) /\ v \in Seq(E) /\ c \in Seq(E) /\ Begins(E, w, v) => Begins(E, w, Cat(v, c))
<1> SUFFICES ASSUME NEW E, NEW w, NEW v, NEW c, w \in Seq(E), v \in Seq(E), c \in Seq(E), Begins(E, w, v)
             PROVE  Begins(E, w, Cat(v, c))
  OBVIOUS
<1>1. PICK d \in Seq(E) : v = Cat(w, d)
  BY DEF Begins
<1>2. Cat(d, c) \in Seq(E)
  BY CatIs
<1>3. Cat(Cat(w, d), c) = Cat(w, Cat(d, c))
  BY CatCat
<1> QED
  BY <1>1, <1>2, <1>3 DEF Begins

\* A beginning is a prefix.
LEMMA BeginsIsPrefix ==
    ASSUME NEW E, NEW w \in Seq(E), NEW v \in Seq(E), Begins(E, w, v)
    PROVE  IsPrefix(w, v)
<1>1. PICK c \in Seq(E) : v = Cat(w, c)
  BY DEF Begins
<1>2. Len(w) \in Nat /\ Len(c) \in Nat
  BY LenProperties
<1>3. Len(v) = Len(w) + Len(c) /\ \A i \in 1 .. Len(w) : v[i] = w[i]
  BY <1>1, CatIs
<1>4. Len(w) <= Len(v)
  BY <1>2, <1>3
<1>5. PICK a, b : a = Sub(w, 1, Len(w)) /\ b = Sub(v, 1, Len(w))
  OBVIOUS
<1>6. w \in Seq(E) /\ v \in Seq(E) /\ 1 \in Nat \ {0} /\ 1 <= Len(w) + 1 /\ Len(w) <= Len(w)
  BY <1>2
<1>7. a \in Seq(E) /\ Len(a) = Len(w) + 1 - 1 /\ \A k \in 1 .. Len(w) + 1 - 1 : a[k] = w[1 + k - 1]
  BY <1>2, <1>5, <1>6, SubIs
<1>8. b \in Seq(E) /\ Len(b) = Len(w) + 1 - 1 /\ \A k \in 1 .. Len(w) + 1 - 1 : b[k] = v[1 + k - 1]
  BY <1>2, <1>4, <1>5, <1>6, SubIs
<1>9. Len(w) + 1 - 1 = Len(w) /\ \A k \in 1 .. Len(w) : 1 + k - 1 = k
  BY <1>2
<1>10. a = b
  BY <1>3, <1>7, <1>8, <1>9, SameSeq
<1>11. SubSeq(w, 1, Len(w)) = SubSeq(v, 1, Len(w))
  BY <1>5, <1>10, Zenon DEF Sub
<1> QED
  BY <1>4, <1>11, Zenon DEF IsPrefix

\* Where a text is no white space.
Solid(x) == {i \in DOMAIN x : x[i] \notin Space}

\* Where a text is not white space.
LEMMA SolidIs ==
    \A x : x \in Texts => \A i : i \in Solid(x) <=> i \in 1 .. Len(x) /\ x[i] \notin Space
BY LenProperties DEF Solid, Texts

\* Squeezed picks those positions.
LEMMA SqIs ==
    \A x : Squeezed(x) = Picked(x, Solid(x))
BY Zenon DEF Squeezed, Solid

\* A text without its white space is a text.
LEMMA SqType ==
    \A x : x \in Texts => Squeezed(x) \in Texts
BY SqIs, PickedType DEF Texts

\* Of nothing, nothing.
LEMMA SqNone ==
    Squeezed(<<>>) = <<>>
BY SqIs, PickedEmpty

\* Two texts without their white space are the whole without its.
LEMMA SqCat ==
    \A x, y : x \in Texts /\ y \in Texts => Squeezed(Cat(x, y)) = Cat(Squeezed(x), Squeezed(y))
<1> TAKE x, y
<1> HAVE x \in Texts /\ y \in Texts
<1>1. PICK z : z = Cat(x, y)
  OBVIOUS
<1>2. x \in Seq(Symbols) /\ y \in Seq(Symbols) /\ Len(x) \in Nat /\ Len(y) \in Nat
  BY LenProperties DEF Texts
<1>3. /\ z \in Seq(Symbols) /\ Len(z) = Len(x) + Len(y)
      /\ \A i \in 1 .. Len(x) : z[i] = x[i]
      /\ \A i \in 1 .. Len(y) : z[Len(x) + i] = y[i]
  BY <1>1, <1>2, CatIs
<1>4. \A i : i \in Solid(z) <=> i \in 1 .. Len(z) /\ z[i] \notin Space
  BY <1>3, SolidIs DEF Texts
<1>5. \A i \in 1 .. Len(y) : i \in Solid(y) <=> Len(x) + i \in Solid(z)
  <2>1. \A i \in 1 .. Len(y) : Len(x) + i \in 1 .. Len(z)
    BY <1>2, <1>3
  <2> QED
    BY <1>3, <1>4, <2>1, SolidIs
<1>6. \A i \in 1 .. Len(x) : i \in Solid(x) <=> i \in Solid(z)
  <2>1. \A i \in 1 .. Len(x) : i \in 1 .. Len(z)
    BY <1>2, <1>3
  <2> QED
    BY <1>3, <1>4, <2>1, SolidIs
<1>7. Picked(z, Solid(z)) = Cat(Picked(x, Solid(z)), Picked(y, Solid(y)))
  BY <1>1, <1>2, <1>5, PickedConcat
<1>8. Picked(x, Solid(z)) = Picked(x, Solid(x))
  BY <1>2, <1>6, PickedSame
<1> QED
  BY <1>1, <1>7, <1>8, SqIs

\* White space leaves nothing.
LEMMA SqBlank ==
    \A x : x \in Texts /\ Blank(x) => Squeezed(x) = <<>>
<1> TAKE x
<1> HAVE x \in Texts /\ Blank(x)
<1>1. \A i \in 1 .. Len(x) : i \notin Solid(x)
  BY SolidIs, LenProperties DEF Blank, Texts
<1> QED
  BY <1>1, SqIs, PickedNone DEF Texts

\* What the start of a text begins with, without white space too.
LEMMA SqBegins ==
    \A w, v : w \in Texts /\ v \in Texts /\ Begins(Symbols, w, v)
              => Begins(Symbols, Squeezed(w), Squeezed(v))
<1> TAKE w, v
<1> HAVE w \in Texts /\ v \in Texts /\ Begins(Symbols, w, v)
<1>1. PICK c \in Texts : v = Cat(w, c)
  BY Zenon DEF Begins, Texts
<1>2. Squeezed(v) = Cat(Squeezed(w), Squeezed(c)) /\ Squeezed(c) \in Texts
  BY <1>1, SqCat, SqType
<1> QED
  BY <1>2, Zenon DEF Begins, Texts

\* Stripping white space takes nothing else.
LEMMA SqLStrip ==
    \A x : x \in Texts => LStrip(x) \in Texts /\ Squeezed(LStrip(x)) = Squeezed(x)
<1> TAKE x
<1> HAVE x \in Texts
<1>1. CASE Blank(x)
  <2>1. LStrip(x) = <<>>
    BY <1>1, Zenon DEF LStrip
  <2>2. <<>> \in Texts
    BY EmptySeq DEF Texts
  <2> QED
    BY <1>1, <2>1, <2>2, SqBlank, SqNone
<1>2. CASE ~Blank(x)
  <2>1. Solid(x) \subseteq Nat /\ Solid(x) # {}
    BY <1>2, SolidIs, LenProperties DEF Blank, Texts
  <2>2. PICK m : m = Min(Solid(x))
    OBVIOUS
  <2>3. m \in Solid(x) /\ \A i \in Solid(x) : m <= i
    BY <2>1, <2>2, MinIs
  <2>4. m \in 1 .. Len(x) /\ Len(x) \in Nat
    BY <2>3, SolidIs, LenProperties DEF Texts
  <2>5. LStrip(x) = Sub(x, m, Len(x))
    BY <1>2, <2>2, Zenon DEF LStrip, After, Sub, Solid
  <2>6. PICK a, b : a = Sub(x, 1, m - 1) /\ b = Sub(x, m, Len(x))
    OBVIOUS
  <2>7. a \in Texts /\ Blank(a)
    <3>0. PICK i : i = m - 1
      OBVIOUS
    <3>4. 1 \in Nat \ {0} /\ i \in Nat /\ 1 <= i + 1 /\ i <= Len(x)
      BY <2>4, <3>0
    <3>1. /\ a \in Seq(Symbols) /\ Len(a) = i + 1 - 1
          /\ \A k \in 1 .. i + 1 - 1 : a[k] = x[1 + k - 1]
      BY <2>6, <3>0, <3>4, SubIs DEF Texts
    <3>2. DOMAIN a = 1 .. m - 1 /\ \A k \in 1 .. m - 1 : a[k] = x[k]
      BY <2>4, <3>0, <3>1, LenProperties
    <3>3. \A k \in 1 .. m - 1 : x[k] \in Space
      <4>1. \A k \in 1 .. m - 1 : k \in 1 .. Len(x) /\ ~(m <= k)
        BY <2>4
      <4> QED
        BY <2>3, <4>1, SolidIs
    <3> QED
      BY <3>1, <3>2, <3>3 DEF Blank, Texts
  <2>8. b \in Texts
    BY <2>4, <2>6, SubIs DEF Texts
  <2>9. x = Cat(a, b)
    <3>1. PICK i : i = m - 1
      OBVIOUS
    <3>2. x \in Seq(Symbols) /\ i \in 0 .. Len(x) /\ i + 1 = m
      BY <2>4, <3>1 DEF Texts
    <3>3. x = Cat(Sub(x, 1, i), Sub(x, i + 1, Len(x)))
      BY <3>2, CutCat
    <3> QED
      BY <2>6, <3>1, <3>2, <3>3
  <2>10. Squeezed(x) = Cat(<<>>, Squeezed(b))
    BY <2>7, <2>8, <2>9, SqCat, SqBlank
  <2>11. Squeezed(b) \in Seq(Symbols)
    BY <2>8, SqType DEF Texts
  <2> QED
    BY <2>5, <2>6, <2>8, <2>10, <2>11, CatNone
<1> QED
  BY <1>1, <1>2

\* rstrip takes white space only.
LEMMA SqRStrip ==
    \A x : x \in Texts => RStrip(x) \in Texts /\ Squeezed(RStrip(x)) = Squeezed(x)
<1> TAKE x
<1> HAVE x \in Texts
<1>1. CASE Blank(x)
  <2>1. RStrip(x) = <<>>
    BY <1>1, Zenon DEF RStrip
  <2>2. <<>> \in Texts
    BY EmptySeq DEF Texts
  <2> QED
    BY <1>1, <2>1, <2>2, SqBlank, SqNone
<1>2. CASE ~Blank(x)
  <2>0. Len(x) \in Nat
    BY LenProperties DEF Texts
  <2>1. Solid(x) \subseteq 0 .. Len(x) /\ Solid(x) # {}
    BY <1>2, SolidIs, LenProperties DEF Blank, Texts
  <2>2. PICK m : m = Max(Solid(x))
    OBVIOUS
  <2>3. m \in Solid(x) /\ \A i \in Solid(x) : m >= i
    BY <2>0, <2>1, <2>2, MaxIs
  <2>4. m \in 1 .. Len(x)
    BY <2>3, SolidIs
  <2>5. RStrip(x) = Sub(x, 1, m)
    BY <1>2, <2>2, Zenon DEF RStrip, Sub, Solid
  <2>6. PICK a, b : a = Sub(x, 1, m) /\ b = Sub(x, m + 1, Len(x))
    OBVIOUS
  <2>7. b \in Texts /\ Blank(b)
    <3>1. PICK i : i = m + 1
      OBVIOUS
    <3>2. x \in Seq(Symbols) /\ i \in Nat \ {0} /\ i <= Len(x) + 1 /\ Len(x) <= Len(x)
      BY <2>0, <2>4, <3>1 DEF Texts
    <3>3. /\ b \in Seq(Symbols) /\ Len(b) = Len(x) + 1 - i
          /\ \A k \in 1 .. Len(x) + 1 - i : b[k] = x[i + k - 1]
      BY <2>0, <2>6, <3>1, <3>2, SubIs
    <3>4. DOMAIN b = 1 .. Len(x) - m /\ \A k \in 1 .. Len(x) - m : b[k] = x[m + k]
      BY <2>0, <2>4, <3>1, <3>3, LenProperties
    <3>5. \A k \in 1 .. Len(x) - m : x[m + k] \in Space
      <4>1. \A k \in 1 .. Len(x) - m : m + k \in 1 .. Len(x) /\ ~(m >= m + k)
        BY <2>0, <2>4
      <4> QED
        BY <2>3, <4>1, SolidIs
    <3> QED
      BY <3>3, <3>4, <3>5 DEF Blank, Texts
  <2>8. a \in Texts
    BY <2>0, <2>4, <2>6, SubIs DEF Texts
  <2>9. x = Cat(a, b)
    BY <2>4, <2>6, CutCat DEF Texts
  <2>10. Squeezed(x) = Cat(Squeezed(a), <<>>)
    BY <2>7, <2>8, <2>9, SqCat, SqBlank
  <2>11. Squeezed(a) \in Seq(Symbols)
    BY <2>8, SqType DEF Texts
  <2> QED
    BY <2>5, <2>6, <2>8, <2>10, <2>11, CatNone
<1> QED
  BY <1>1, <1>2

\* strip takes white space only.
LEMMA SqStrip ==
    \A x : x \in Texts => Strip(x) \in Texts /\ Squeezed(Strip(x)) = Squeezed(x)
<1> TAKE x
<1> HAVE x \in Texts
<1>1. PICK y : y = RStrip(x)
  OBVIOUS
<1>2. y \in Texts /\ Squeezed(y) = Squeezed(x)
  BY <1>1, SqRStrip
<1>3. LStrip(y) \in Texts /\ Squeezed(LStrip(y)) = Squeezed(y)
  BY <1>2, SqLStrip
<1>4. Strip(x) = LStrip(y)
  BY <1>1, Zenon DEF Strip
<1> QED
  BY <1>2, <1>3, <1>4

-----------------------------------------------------------------------------
(* Tags in a text, symbol by symbol *)

\* Where a tag stands.
Matches(x, tag, p) == p + Len(tag) - 1 <= Len(x) /\ \A k \in 1 .. Len(tag) : x[p + k - 1] = tag[k]

\* A tag stands at a position if it matches there.
LEMMA AtIs ==
    \A E, x, tag, p :
       x \in Seq(E) /\ tag \in Seq(E) /\ Len(tag) # 0 /\ p \in 1 .. Len(x) =>
          (At(x, tag, p) <=> Matches(x, tag, p))
<1> TAKE E, x, tag, p
<1> HAVE x \in Seq(E) /\ tag \in Seq(E) /\ Len(tag) # 0 /\ p \in 1 .. Len(x)
<1>1. Len(x) \in Nat /\ p \in Nat \ {0} /\ Len(tag) \in Nat \ {0}
  BY LenProperties
<1>2. PICK j : j = p + Len(tag) - 1
  OBVIOUS
<1>3. At(x, tag, p) <=> j <= Len(x) /\ Sub(x, p, j) = tag
  BY <1>2, Zenon DEF At, Sub
<1>4. CASE j <= Len(x)
  <2>1. j \in Nat /\ p <= j + 1 /\ j + 1 - p = Len(tag)
    BY <1>1, <1>2
  <2>2. PICK s : s = Sub(x, p, j)
    OBVIOUS
  <2>3. s \in Seq(E) /\ Len(s) = Len(tag) /\ \A k \in 1 .. Len(tag) : s[k] = x[p + k - 1]
    BY <1>1, <1>4, <2>1, <2>2, SubIs
  <2>4. s = tag <=> \A k \in 1 .. Len(tag) : s[k] = tag[k]
    BY <2>3, SameSeq
  <2> QED
    BY <1>2, <1>3, <1>4, <2>2, <2>3, <2>4 DEF Matches
<1>5. CASE ~(j <= Len(x))
  BY <1>2, <1>3, <1>5 DEF Matches
<1> QED
  BY <1>4, <1>5

\* Where a tag of two symbols stands.
LEMMA PairAt ==
    ASSUME NEW E, NEW x \in Seq(E), NEW a \in E, NEW b \in E
    PROVE  \A p : p \in Occurrences(x, <<a, b>>) <=>
                     p \in 1 .. Len(x) /\ p + 1 \in 1 .. Len(x) /\ x[p] = a /\ x[p + 1] = b
<1>1. Len(x) \in Nat /\ DOMAIN x = 1 .. Len(x)
  BY LenProperties
<1>2. PICK tag : tag = <<a, b>>
  OBVIOUS
<1>3. tag \in Seq(E) /\ Len(tag) = 2 /\ tag[1] = a /\ tag[2] = b
  BY <1>2
<1>4. ASSUME NEW p \in 1 .. Len(x)
      PROVE  At(x, tag, p) <=> p + 1 \in 1 .. Len(x) /\ x[p] = a /\ x[p + 1] = b
  <2>1. x \in Seq(E) /\ tag \in Seq(E) /\ Len(tag) # 0 /\ p \in 1 .. Len(x)
    BY <1>3
  <2>2. At(x, tag, p) <=> Matches(x, tag, p)
    BY <2>1, AtIs
  <2>3. p + Len(tag) - 1 = p + 1 /\ p + 1 - 1 = p /\ p + 2 - 1 = p + 1 /\ 1 .. Len(tag) = {1, 2}
    BY <1>1, <1>3
  <2>4. p + 1 <= Len(x) <=> p + 1 \in 1 .. Len(x)
    BY <1>1
  <2>5. (\A k \in 1 .. Len(tag) : x[p + k - 1] = tag[k]) <=> x[p] = a /\ x[p + 1] = b
    BY <1>3, <2>3
  <2> QED
    BY <2>2, <2>3, <2>4, <2>5 DEF Matches
<1>5. \A p : p \in Occurrences(x, tag) <=> p \in 1 .. Len(x) /\ At(x, tag, p)
  BY <1>1 DEF Occurrences
<1> QED
  BY <1>2, <1>4, <1>5

\* Where reasoning may end.
LEMMA MarkAt ==
    ASSUME NEW x \in Texts
    PROVE  \A p : p \in Positions(x) <=>
                     p \in 1 .. Len(x) /\ p + 1 \in 1 .. Len(x) /\ x[p] = "t" /\ x[p + 1] \in {"i", "o"}
<1>1. x \in Seq(Symbols) /\ "t" \in Symbols /\ "i" \in Symbols /\ "o" \in Symbols
  BY DEF Texts, Symbols
<1>2. \A p : p \in Occurrences(x, <<"t", "i">>) <=>
                p \in 1 .. Len(x) /\ p + 1 \in 1 .. Len(x) /\ x[p] = "t" /\ x[p + 1] = "i"
  BY <1>1, PairAt
<1>3. \A p : p \in Occurrences(x, <<"t", "o">>) <=>
                p \in 1 .. Len(x) /\ p + 1 \in 1 .. Len(x) /\ x[p] = "t" /\ x[p + 1] = "o"
  BY <1>1, PairAt
<1>4. \A p : p \in Positions(x) <=> p \in Occurrences(x, <<"t", "i">>) \/ p \in Occurrences(x, <<"t", "o">>)
  BY Zenon DEF Positions, Marks
<1> QED
  BY <1>2, <1>3, <1>4

\* The first mark, what is before it and what is behind it.
LEMMA MarkFirst ==
    ASSUME NEW x \in Texts, Positions(x) # {}
    PROVE  /\ FirstMark(x) \in Positions(x)
           /\ \A p \in Positions(x) : FirstMark(x) <= p
           /\ Before(x, FirstMark(x)) = Sub(x, 1, FirstMark(x) - 1)
           /\ AfterMark(x) = Sub(x, FirstMark(x) + 2, Len(x))
<1>1. Positions(x) \subseteq Nat
  BY MarkAt
<1>2. FirstMark(x) \in Positions(x) /\ \A p \in Positions(x) : FirstMark(x) <= p
  BY <1>1, MinIs DEF FirstMark
<1>3. Before(x, FirstMark(x)) = Sub(x, 1, FirstMark(x) - 1)
  BY Zenon DEF Before, Sub
<1>4. PICK m : m = (CHOOSE n \in Marks : At(x, n, FirstMark(x)))
  OBVIOUS
<1>5. m \in Marks
  <2>1. \E n \in Marks : At(x, n, FirstMark(x))
    BY <1>2, Zenon DEF Positions, Occurrences
  <2> QED
    BY <1>4, <2>1, Zenon
<1>6. Len(m) = 2
  BY <1>5 DEF Marks
<1>7. AfterMark(x) = Sub(x, FirstMark(x) + Len(m), Len(x))
  BY <1>4, Zenon DEF AfterMark, After, Sub
<1> QED
  BY <1>2, <1>3, <1>6, <1>7

-----------------------------------------------------------------------------
(* Stretches of a concatenation *)

\* Within the first part.
LEMMA SubLeft ==
    \A E, x, y, i, j : y \in Seq(E) /\ Fits(E, x, i, j)
       => Sub(Cat(x, y), i, j) = Sub(x, i, j)
<1> TAKE E, x, y, i, j
<1> HAVE y \in Seq(E) /\ Fits(E, x, i, j)
<1>1. /\ x \in Seq(E) /\ Len(x) \in Nat /\ Len(y) \in Nat
      /\ i \in Nat \ {0} /\ j \in Nat /\ i <= j + 1 /\ j <= Len(x)
  BY LenProperties DEF Fits
<1>2. PICK z : z = Cat(x, y)
  OBVIOUS
<1>3. z \in Seq(E) /\ Len(z) = Len(x) + Len(y) /\ \A k \in 1 .. Len(x) : z[k] = x[k]
  BY <1>1, <1>2, CatIs
<1>4. PICK a : a = Sub(z, i, j)
  OBVIOUS
<1>5. PICK b : b = Sub(x, i, j)
  OBVIOUS
<1>6. Fits(E, z, i, j)
  BY <1>1, <1>3 DEF Fits
<1>7. IsSub(E, a, z, i, j) /\ IsSub(E, b, x, i, j)
  BY <1>4, <1>5, <1>6, SubFits
<1>8. /\ a \in Seq(E) /\ Len(a) = j + 1 - i /\ \A k \in 1 .. j + 1 - i : a[k] = z[i + k - 1]
      /\ b \in Seq(E) /\ Len(b) = j + 1 - i /\ \A k \in 1 .. j + 1 - i : b[k] = x[i + k - 1]
  BY <1>7 DEF IsSub
<1>9. \A k \in 1 .. j + 1 - i : i + k - 1 \in 1 .. Len(x)
  BY <1>1
<1>10. a = b
  BY <1>3, <1>8, <1>9, SameSeq
<1> QED
  BY <1>2, <1>4, <1>5, <1>10

\* A place of the second part, and the same place of the whole.
Moved(u, x, i) == u = Len(x) + i

\* From within the second part on.
LEMMA SubRight ==
    \A E, x, y, i, j, u, v : x \in Seq(E) /\ Fits(E, y, i, j) /\ Moved(u, x, i) /\ Moved(v, x, j)
       => Sub(Cat(x, y), u, v) = Sub(y, i, j)
<1> TAKE E, x, y, i, j, u, v
<1> HAVE x \in Seq(E) /\ Fits(E, y, i, j) /\ Moved(u, x, i) /\ Moved(v, x, j)
<1>1. /\ y \in Seq(E) /\ Len(x) \in Nat /\ Len(y) \in Nat
      /\ i \in Nat \ {0} /\ j \in Nat /\ i <= j + 1 /\ j <= Len(y)
  BY LenProperties DEF Fits
<1>2. PICK z : z = Cat(x, y)
  OBVIOUS
<1>3. z \in Seq(E) /\ Len(z) = Len(x) + Len(y) /\ \A k \in 1 .. Len(y) : z[Len(x) + k] = y[k]
  BY <1>1, <1>2, CatIs
<1>4. u = Len(x) + i /\ v = Len(x) + j
  BY DEF Moved
<1>5. u \in Nat \ {0} /\ v \in Nat /\ u <= v + 1 /\ v <= Len(z) /\ v + 1 - u = j + 1 - i
  BY <1>1, <1>3, <1>4
<1>6. PICK a : a = Sub(z, u, v)
  OBVIOUS
<1>7. PICK b : b = Sub(y, i, j)
  OBVIOUS
<1>8. IsSub(E, a, z, u, v) /\ IsSub(E, b, y, i, j)
  <2>1. Fits(E, z, u, v)
    BY <1>3, <1>5 DEF Fits
  <2> QED
    BY <1>6, <1>7, <2>1, SubFits
<1>9. /\ a \in Seq(E) /\ Len(a) = v + 1 - u /\ \A k \in 1 .. v + 1 - u : a[k] = z[u + k - 1]
      /\ b \in Seq(E) /\ Len(b) = j + 1 - i /\ \A k \in 1 .. j + 1 - i : b[k] = y[i + k - 1]
  BY <1>8 DEF IsSub
<1>10. \A k \in 1 .. j + 1 - i : i + k - 1 \in 1 .. Len(y) /\ Len(x) + (i + k - 1) = u + k - 1
  BY <1>1, <1>4
<1>11. ASSUME NEW k \in 1 .. j + 1 - i PROVE a[k] = b[k]
  <2>1. PICK l : l = i + k - 1
    OBVIOUS
  <2>2. l \in 1 .. Len(y) /\ Len(x) + l = u + k - 1
    BY <1>10, <2>1
  <2>3. a[k] = z[u + k - 1] /\ b[k] = y[l]
    BY <1>5, <1>9, <2>1
  <2> QED
    BY <1>3, <2>2, <2>3
<1>12. a = b
  BY <1>5, <1>9, <1>11, SameSeq
<1> QED
  BY <1>2, <1>4, <1>6, <1>7, <1>12

\* From within the first part to within the second.
LEMMA SubOver ==
    \A E, x, y, i, j : Fits(E, x, i, Len(x)) /\ Fits(E, y, 1, j)
       => Sub(Cat(x, y), i, Len(x) + j) = Cat(Sub(x, i, Len(x)), Sub(y, 1, j))
<1> TAKE E, x, y, i, j
<1> HAVE Fits(E, x, i, Len(x)) /\ Fits(E, y, 1, j)
<1>1. /\ x \in Seq(E) /\ y \in Seq(E) /\ Len(x) \in Nat /\ Len(y) \in Nat
      /\ i \in 1 .. Len(x) + 1 /\ j \in 0 .. Len(y)
  BY LenProperties DEF Fits
<1>2. PICK z : z = Cat(x, y)
  OBVIOUS
<1>3. z \in Seq(E) /\ Len(z) = Len(x) + Len(y)
  BY <1>1, <1>2, CatIs
<1>4. PICK m, n : m = Len(x) /\ n = Len(x) + j
  OBVIOUS
<1>5. i \in 1 .. Len(z) + 1 /\ m \in i - 1 .. Len(z) /\ n \in m .. Len(z)
  BY <1>1, <1>3, <1>4
<1>6. Sub(z, i, n) = Cat(Sub(z, i, m), Sub(z, m + 1, n))
  <2>1. PICK l : l = m + 1
    OBVIOUS
  <2>2. Fits(E, z, i, m) /\ Fits(E, z, l, n)
    BY <1>1, <1>3, <1>5, <2>1 DEF Fits
  <2>3. Sub(z, i, n) = Cat(Sub(z, i, m), Sub(z, l, n))
    BY <2>1, <2>2, SubSub
  <2> QED
    BY <2>1, <2>3
<1>7. Sub(z, i, m) = Sub(x, i, m)
  BY <1>1, <1>2, <1>4, SubLeft
<1>8. Sub(z, m + 1, n) = Sub(y, 1, j)
  <2>1. PICK l : l = m + 1
    OBVIOUS
  <2>2. Moved(l, x, 1) /\ Moved(n, x, j)
    BY <1>4, <2>1 DEF Moved
  <2>3. Sub(z, l, n) = Sub(y, 1, j)
    BY <1>1, <1>2, <2>2, SubRight
  <2> QED
    BY <2>1, <2>3
<1> QED
  BY <1>2, <1>4, <1>6, <1>7, <1>8

\* The rest of the first part and the second.
LEMMA SubToEnd ==
    \A E, x, y, i : Fits(E, x, i, Len(x)) /\ y \in Seq(E)
       => Sub(Cat(x, y), i, Len(Cat(x, y))) = Cat(Sub(x, i, Len(x)), y)
<1> TAKE E, x, y, i
<1> HAVE Fits(E, x, i, Len(x)) /\ y \in Seq(E)
<1>1. x \in Seq(E) /\ Len(x) \in Nat /\ Len(y) \in Nat
  BY LenProperties DEF Fits
<1>2. Len(Cat(x, y)) = Len(x) + Len(y)
  BY <1>1, CatIs
<1>3. PICK n : n = Len(y)
  OBVIOUS
<1>4. Fits(E, y, 1, n)
  BY <1>1, <1>3 DEF Fits
<1>5. Sub(Cat(x, y), i, Len(x) + n) = Cat(Sub(x, i, Len(x)), Sub(y, 1, n))
  BY <1>4, SubOver
<1>6. Sub(y, 1, n) = y
  BY <1>3, SubWhole
<1> QED
  BY <1>2, <1>3, <1>5, <1>6

-----------------------------------------------------------------------------
(* The first mark of a text that grows *)

\* Once there is a mark the first one stays.
LEMMA MarkStays ==
    ASSUME NEW x \in Texts, NEW t \in Texts, Positions(x) # {}
    PROVE  /\ Positions(Cat(x, t)) # {}
           /\ Before(Cat(x, t), FirstMark(Cat(x, t))) = Before(x, FirstMark(x))
           /\ AfterMark(Cat(x, t)) = Cat(AfterMark(x), t)
<1>1. PICK y : y = Cat(x, t)
  OBVIOUS
<1>2. x \in Seq(Symbols) /\ t \in Seq(Symbols) /\ Len(x) \in Nat /\ Len(t) \in Nat
  BY LenProperties DEF Texts
<1>3. y \in Texts /\ Len(y) = Len(x) + Len(t) /\ \A k \in 1 .. Len(x) : y[k] = x[k]
  BY <1>1, <1>2, CatIs DEF Texts
<1>4. PICK p : p = FirstMark(x)
  OBVIOUS
<1>5. p \in Positions(x) /\ \A q \in Positions(x) : p <= q
  BY <1>4, MarkFirst
<1>6. p \in 1 .. Len(x) /\ p + 1 \in 1 .. Len(x)
  BY <1>5, MarkAt
<1>7. p \in Positions(y)
  <2>1. x[p] = "t" /\ x[p + 1] \in {"i", "o"}
    BY <1>5, MarkAt
  <2>2. y[p] = x[p] /\ y[p + 1] = x[p + 1] /\ p \in 1 .. Len(y) /\ p + 1 \in 1 .. Len(y)
    BY <1>2, <1>3, <1>6
  <2> QED
    BY <1>3, <2>1, <2>2, MarkAt
<1>8. PICK q : q = FirstMark(y)
  OBVIOUS
<1>9. q \in Positions(y) /\ q <= p
  BY <1>3, <1>7, <1>8, MarkFirst
<1>10. q \in 1 .. Len(y) /\ q + 1 \in 1 .. Len(y) /\ y[q] = "t" /\ y[q + 1] \in {"i", "o"}
  BY <1>3, <1>9, MarkAt
<1>11. q \in Positions(x)
  <2>1. q \in 1 .. Len(x) /\ q + 1 \in 1 .. Len(x)
    BY <1>2, <1>6, <1>9, <1>10
  <2> QED
    BY <1>3, <1>10, <2>1, MarkAt
<1>12. q = p
  <2>1. p <= q
    BY <1>5, <1>11
  <2> QED
    BY <1>6, <1>9, <1>10, <2>1
<1>13. Before(y, q) = Before(x, p)
  <2>1. PICK j : j = p - 1
    OBVIOUS
  <2>2. Fits(Symbols, x, 1, j)
    BY <1>2, <1>6, <2>1 DEF Fits
  <2>3. Sub(y, 1, j) = Sub(x, 1, j)
    BY <1>1, <1>2, <2>2, SubLeft
  <2> QED
    BY <1>12, <2>1, <2>3, Zenon DEF Before, Sub
<1>14. AfterMark(y) = Cat(AfterMark(x), t)
  <2>1. PICK i : i = p + 2
    OBVIOUS
  <2>2. Fits(Symbols, x, i, Len(x))
    BY <1>2, <1>6, <2>1 DEF Fits
  <2>3. Sub(y, i, Len(y)) = Cat(Sub(x, i, Len(x)), t)
    BY <1>1, <1>2, <2>2, SubToEnd
  <2>4. AfterMark(y) = Sub(y, q + 2, Len(y))
    BY <1>3, <1>7, <1>8, MarkFirst
  <2>5. AfterMark(x) = Sub(x, p + 2, Len(x))
    BY <1>4, MarkFirst
  <2> QED
    BY <1>12, <2>1, <2>3, <2>4, <2>5
<1> QED
  BY <1>1, <1>4, <1>7, <1>8, <1>13, <1>14

\* What stands before a part without a mark has none, if none is broken.
LEMMA MarkMoves ==
    ASSUME NEW w \in Texts, NEW a \in Texts, 
           Positions(w) = {}, w # <<>> /\ a # <<>> /\ w[Len(w)] = "t" => a[1] \notin {"i", "o"}
    PROVE  /\ \A p : p \in Positions(Cat(w, a)) <=> p - Len(w) \in Positions(a) /\ p \in Nat
           /\ Positions(a) # {} =>
                 /\ Positions(Cat(w, a)) # {}
                 /\ Before(Cat(w, a), FirstMark(Cat(w, a))) = Cat(w, Before(a, FirstMark(a)))
                 /\ AfterMark(Cat(w, a)) = AfterMark(a)
           /\ Positions(a) = {} => Positions(Cat(w, a)) = {}
<1>1. PICK y : y = Cat(w, a)
  OBVIOUS
<1>2. w \in Seq(Symbols) /\ a \in Seq(Symbols) /\ Len(w) \in Nat /\ Len(a) \in Nat
  BY LenProperties DEF Texts
<1>3. /\ y \in Texts /\ Len(y) = Len(w) + Len(a)
      /\ \A k \in 1 .. Len(w) : y[k] = w[k]
      /\ \A k \in 1 .. Len(a) : y[Len(w) + k] = a[k]
  BY <1>1, <1>2, CatIs DEF Texts
<1>4. ASSUME NEW p, p \in Positions(y) PROVE p \in Nat /\ p - Len(w) \in Positions(a)
  <2>1. p \in 1 .. Len(y) /\ p + 1 \in 1 .. Len(y) /\ y[p] = "t" /\ y[p + 1] \in {"i", "o"}
    BY <1>3, <1>4, MarkAt
  <2>2. ~(p + 1 \in 1 .. Len(w))
    <3> SUFFICES ASSUME p + 1 \in 1 .. Len(w) PROVE FALSE
      OBVIOUS
    <3>1. p \in 1 .. Len(w) /\ y[p] = w[p] /\ y[p + 1] = w[p + 1]
      BY <1>2, <1>3, <2>1
    <3>2. p \in Positions(w)
      BY <2>1, <3>1, MarkAt
    <3> QED
      BY <3>2
  <2>3. p # Len(w)
    <3> SUFFICES ASSUME p = Len(w) PROVE FALSE
      OBVIOUS
    <3>1. p \in 1 .. Len(w) /\ 1 \in 1 .. Len(a)
      BY <1>2, <1>3, <2>1
    <3>2. w[Len(w)] = "t" /\ a[1] \in {"i", "o"}
      BY <1>3, <2>1, <3>1
    <3>3. w # <<>> /\ a # <<>>
      BY <1>2, <3>1, EmptySeq
    <3> QED
      BY <3>2, <3>3
  <2>4. PICK q : q = p - Len(w)
    OBVIOUS
  <2>5. q \in 1 .. Len(a) /\ q + 1 \in 1 .. Len(a) /\ Len(w) + q = p /\ Len(w) + (q + 1) = p + 1
    BY <1>2, <1>3, <2>1, <2>2, <2>3, <2>4
  <2>6. y[p] = a[q] /\ y[p + 1] = a[q + 1]
    BY <1>3, <2>5
  <2> QED
    BY <2>1, <2>4, <2>5, <2>6, MarkAt
<1>5. ASSUME NEW p \in Nat, p - Len(w) \in Positions(a) PROVE p \in Positions(y)
  <2>1. PICK q : q = p - Len(w)
    OBVIOUS
  <2>2. q \in 1 .. Len(a) /\ q + 1 \in 1 .. Len(a) /\ a[q] = "t" /\ a[q + 1] \in {"i", "o"}
    BY <1>5, <2>1, MarkAt
  <2>3. p \in 1 .. Len(y) /\ p + 1 \in 1 .. Len(y) /\ Len(w) + q = p /\ Len(w) + (q + 1) = p + 1
    BY <1>2, <1>3, <2>1, <2>2
  <2>4. y[p] = a[q] /\ y[p + 1] = a[q + 1]
    BY <1>3, <2>2, <2>3
  <2> QED
    BY <1>3, <2>2, <2>3, <2>4, MarkAt
<1>6. CASE Positions(a) = {}
  <2>1. Positions(y) = {}
    BY <1>4, <1>6
  <2> QED
    BY <1>1, <1>4, <1>5, <1>6, <2>1
<1>7. CASE Positions(a) # {}
  <2>1. PICK f : f = FirstMark(a)
    OBVIOUS
  <2>2. f \in Positions(a) /\ \A q \in Positions(a) : f <= q
    BY <1>7, <2>1, MarkFirst
  <2>3. f \in 1 .. Len(a) /\ f + 1 \in 1 .. Len(a)
    BY <2>2, MarkAt
  <2>4. PICK g : g = Len(w) + f
    OBVIOUS
  <2>5. g \in Nat /\ g - Len(w) = f
    BY <1>2, <2>3, <2>4
  <2>6. g \in Positions(y)
    BY <1>5, <2>2, <2>5
  <2>7. PICK h : h = FirstMark(y)
    OBVIOUS
  <2>8. h \in Positions(y) /\ h <= g
    BY <1>3, <2>6, <2>7, MarkFirst
  <2>9. h \in Nat /\ h - Len(w) \in Positions(a)
    BY <1>4, <2>8
  <2>10. h = g
    <3>1. f <= h - Len(w)
      BY <2>2, <2>9
    <3> QED
      BY <1>2, <2>3, <2>4, <2>8, <2>9, <3>1
  <2>11. Before(y, g) = Cat(w, Before(a, f))
    <3>1. PICK j : j = f - 1
      OBVIOUS
    <3>2. Fits(Symbols, w, 1, Len(w)) /\ Fits(Symbols, a, 1, j)
      BY <1>2, <2>3, <3>1 DEF Fits
    <3>6. Len(w) + j = g - 1
      BY <1>2, <2>3, <2>4, <3>1
    <3>3. Sub(y, 1, Len(w) + j) = Cat(Sub(w, 1, Len(w)), Sub(a, 1, j))
      BY <1>1, <1>2, <3>2, SubOver
    <3>4. Sub(w, 1, Len(w)) = w
      BY <1>2, SubWhole
    <3>5. Before(y, g) = Sub(y, 1, g - 1) /\ Before(a, f) = Sub(a, 1, f - 1)
      BY Zenon DEF Before, Sub
    <3> QED
      BY <3>1, <3>3, <3>4, <3>5, <3>6
  <2>12. AfterMark(y) = AfterMark(a)
    <3>1. PICK i : i = f + 2
      OBVIOUS
    <3>2. Fits(Symbols, a, i, Len(a))
      BY <1>2, <2>3, <3>1 DEF Fits
    <3>7. h + 2 = Len(w) + i
      BY <1>2, <2>3, <2>4, <2>10, <3>1
    <3>8. PICK u, v : u = h + 2 /\ v = Len(y)
      OBVIOUS
    <3>9. Moved(u, w, i) /\ Moved(v, w, Len(a))
      BY <1>3, <3>7, <3>8 DEF Moved
    <3>3. Sub(y, u, v) = Sub(a, i, Len(a))
      BY <1>1, <1>2, <3>2, <3>9, SubRight
    <3>4. AfterMark(y) = Sub(y, h + 2, Len(y))
      BY <1>3, <2>6, <2>7, MarkFirst
    <3>5. AfterMark(a) = Sub(a, f + 2, Len(a))
      BY <1>7, <2>1, MarkFirst
    <3> QED
      BY <3>1, <3>3, <3>4, <3>5, <3>8
  <2> QED
    BY <1>1, <1>4, <1>5, <1>7, <2>1, <2>6, <2>7, <2>10, <2>11, <2>12
<1> QED
  BY <1>6, <1>7

-----------------------------------------------------------------------------
(* What the chunks on their way bring *)

Fields == {"content", "reasoning", "finish", "raise", "end"}
Chunks == [field : Fields, text : Texts]

\* f goes through what the client has of a field, without its white space, as the chunks arrive.
Carries(f, Q, field) ==
    \A i \in 1 .. Len(Q) :
       f[i] = IF Q[i].field = field THEN Cat(f[i - 1], Squeezed(Q[i].text)) ELSE f[i - 1]

\* The chunks lead from w to v.
Leads(Q, field, w, v) == \E f : f[0] = w /\ f[Len(Q)] = v /\ Carries(f, Q, field)

\* No chunks bring nothing.
LEMMA LeadsNone ==
    \A field, w : Leads(<<>>, field, w, w)
<1> TAKE field, w
<1> DEFINE f == [i \in 0 .. 0 |-> w]
<1>1. Len(<<>>) = 0
  BY EmptySeq
<1>2. f[0] = w
  OBVIOUS
<1> HIDE DEF f
<1>3. Carries(f, <<>>, field)
  BY <1>1 DEF Carries
<1> QED
  BY <1>1, <1>2, <1>3 DEF Leads

\* One chunk brings its text, to its field.
LEMMA LeadsOne ==
    \A c, field, w : Leads(<<c>>, field, w, IF c.field = field THEN Cat(w, Squeezed(c.text)) ELSE w)
<1> TAKE c, field, w
<1> DEFINE v == IF c.field = field THEN Cat(w, Squeezed(c.text)) ELSE w
           f == [i \in 0 .. 1 |-> IF i = 0 THEN w ELSE v]
<1>1. PICK Q : Q = <<c>>
  OBVIOUS
<1>2. Len(Q) = 1 /\ Q[1] = c
  BY <1>1
<1>3. f[0] = w /\ f[1] = v
  OBVIOUS
<1> HIDE DEF f
<1>4. Carries(f, Q, field)
  <2> SUFFICES ASSUME NEW i \in 1 .. Len(Q)
               PROVE  f[i] = IF Q[i].field = field THEN Cat(f[i - 1], Squeezed(Q[i].text)) ELSE f[i - 1]
    BY DEF Carries
  <2>1. i = 1 /\ i - 1 = 0
    BY <1>2
  <2> QED
    BY <1>2, <1>3, <2>1
<1> HIDE DEF v
<1>5. Leads(Q, field, w, v)
  BY <1>2, <1>3, <1>4 DEF Leads
<1> QED
  BY <1>1, <1>5 DEF v

\* Chunks behind chunks bring what both bring.
LEMMA LeadsCat ==
    ASSUME NEW E, NEW Q \in Seq(E), NEW R \in Seq(E), NEW field, NEW w, NEW u, NEW v,
           Leads(Q, field, w, u), Leads(R, field, u, v)
    PROVE  Leads(Cat(Q, R), field, w, v)
<1>1. PICK f : f[0] = w /\ f[Len(Q)] = u /\ Carries(f, Q, field)
  BY DEF Leads
<1>2. PICK g : g[0] = u /\ g[Len(R)] = v /\ Carries(g, R, field)
  BY DEF Leads
<1>3. PICK Z : Z = Cat(Q, R)
  OBVIOUS
<1>4. /\ Z \in Seq(E) /\ Len(Z) = Len(Q) + Len(R)
      /\ \A i \in 1 .. Len(Q) : Z[i] = Q[i]
      /\ \A i \in 1 .. Len(R) : Z[Len(Q) + i] = R[i]
  BY <1>3, CatIs
<1>5. Len(Q) \in Nat /\ Len(R) \in Nat
  BY LenProperties
<1> DEFINE h == [i \in 0 .. Len(Q) + Len(R) |-> IF i <= Len(Q) THEN f[i] ELSE g[i - Len(Q)]]
<1>6. \A i \in 0 .. Len(Q) : h[i] = f[i]
  BY <1>5
<1>7. \A i \in 0 .. Len(R) : h[Len(Q) + i] = g[i]
  <2> TAKE i \in 0 .. Len(R)
  <2>1. Len(Q) + i \in 0 .. Len(Q) + Len(R) /\ (Len(Q) + i) - Len(Q) = i
    BY <1>5
  <2>2. h[Len(Q) + i] = IF Len(Q) + i <= Len(Q) THEN f[Len(Q) + i] ELSE g[i]
    BY <2>1
  <2> HIDE DEF h
  <2>3. CASE i = 0
    BY <1>1, <1>2, <1>5, <2>2, <2>3
  <2>4. CASE i # 0
    BY <1>5, <2>2, <2>4
  <2> QED
    BY <2>3, <2>4
<1> HIDE DEF h
<1>8. ASSUME NEW i \in 1 .. Len(Z)
      PROVE  h[i] = IF Z[i].field = field THEN Cat(h[i - 1], Squeezed(Z[i].text)) ELSE h[i - 1]
  <2>1. CASE i <= Len(Q)
    <3>1. i \in 1 .. Len(Q) /\ i \in 0 .. Len(Q) /\ i - 1 \in 0 .. Len(Q)
      BY <1>5, <2>1
    <3>2. h[i] = f[i] /\ h[i - 1] = f[i - 1] /\ Z[i] = Q[i]
      BY <1>4, <1>6, <3>1
    <3>3. f[i] = IF Q[i].field = field THEN Cat(f[i - 1], Squeezed(Q[i].text)) ELSE f[i - 1]
      BY <1>1, <3>1 DEF Carries
    <3> QED
      BY <3>2, <3>3
  <2>2. CASE ~(i <= Len(Q))
    <3>1. PICK k : k = i - Len(Q)
      OBVIOUS
    <3>2. k \in 1 .. Len(R) /\ k \in 0 .. Len(R) /\ k - 1 \in 0 .. Len(R)
      BY <1>4, <1>5, <2>2, <3>1
    <3>3. Len(Q) + k = i /\ Len(Q) + (k - 1) = i - 1
      BY <1>5, <3>1, <3>2
    <3>4. h[i] = g[k] /\ h[i - 1] = g[k - 1] /\ Z[i] = R[k]
      BY <1>4, <1>7, <3>2, <3>3
    <3>5. g[k] = IF R[k].field = field THEN Cat(g[k - 1], Squeezed(R[k].text)) ELSE g[k - 1]
      BY <1>2, <3>2 DEF Carries
    <3> QED
      BY <3>4, <3>5
  <2> QED
    BY <2>1, <2>2
<1>9. h[0] = w /\ h[Len(Z)] = v
  BY <1>1, <1>2, <1>4, <1>5, <1>6, <1>7
<1>10. Carries(h, Z, field)
  BY <1>8 DEF Carries
<1> QED
  BY <1>3, <1>9, <1>10 DEF Leads

\* When the first one has arrived the others lead on.
LEMMA LeadsTail ==
    ASSUME NEW E, NEW Q \in Seq(E), Q # <<>>, NEW field, NEW w, NEW v, Leads(Q, field, w, v)
    PROVE  Leads(Tail(Q), field,
                 IF Head(Q).field = field THEN Cat(w, Squeezed(Head(Q).text)) ELSE w, v)
<1>1. PICK f : f[0] = w /\ f[Len(Q)] = v /\ Carries(f, Q, field)
  BY DEF Leads
<1>2. PICK R : R = Tail(Q)
  OBVIOUS
<1>3. Len(Q) \in Nat \ {0}
  BY EmptySeq
<1>4. Len(R) = Len(Q) - 1 /\ (\A i \in 1 .. Len(R) : R[i] = Q[i + 1]) /\ Head(Q) = Q[1]
  BY <1>2, <1>3, HeadTailProperties
<1> DEFINE g == [i \in 0 .. Len(R) |-> f[i + 1]]
<1>5. \A i \in 0 .. Len(R) : g[i] = f[i + 1]
  OBVIOUS
<1> HIDE DEF g
<1>6. ASSUME NEW i \in 1 .. Len(R)
      PROVE  g[i] = IF R[i].field = field THEN Cat(g[i - 1], Squeezed(R[i].text)) ELSE g[i - 1]
  <2>1. PICK k : k = i + 1
    OBVIOUS
  <2>2. k \in 1 .. Len(Q) /\ k - 1 = i /\ (i - 1) + 1 = i /\ i \in 0 .. Len(R) /\ i - 1 \in 0 .. Len(R)
    BY <1>3, <1>4, <2>1
  <2>3. f[k] = IF Q[k].field = field THEN Cat(f[k - 1], Squeezed(Q[k].text)) ELSE f[k - 1]
    BY <1>1, <2>2 DEF Carries
  <2>4. g[i] = f[k] /\ g[i - 1] = f[i] /\ R[i] = Q[k]
    BY <1>4, <1>5, <2>1, <2>2
  <2> QED
    BY <2>2, <2>3, <2>4
<1>7. g[Len(R)] = v
  <2>1. Len(R) \in 0 .. Len(R) /\ Len(R) + 1 = Len(Q)
    BY <1>3, <1>4
  <2> QED
    BY <1>1, <1>5, <2>1
<1>8. g[0] = IF Head(Q).field = field THEN Cat(w, Squeezed(Head(Q).text)) ELSE w
  <2>1. 0 \in 0 .. Len(R) /\ 0 + 1 = 1 /\ 1 \in 1 .. Len(Q) /\ 1 - 1 = 0
    BY <1>3, <1>4
  <2>2. f[1] = IF Q[1].field = field THEN Cat(f[1 - 1], Squeezed(Q[1].text)) ELSE f[1 - 1]
    BY <1>1, <2>1 DEF Carries
  <2> QED
    BY <1>1, <1>4, <1>5, <2>1, <2>2
<1>9. Carries(g, R, field)
  BY <1>6 DEF Carries
<1>10. Leads(R, field, g[0], v)
  BY <1>7, <1>9 DEF Leads
<1> QED
  BY <1>2, <1>8, <1>10

\* What the client has is the beginning of what it will have.
LEMMA LeadsBegins ==
    ASSUME NEW Q \in Seq(Chunks), NEW field, NEW w \in Texts, NEW v, Leads(Q, field, w, v)
    PROVE  Begins(Symbols, w, v)
<1>1. PICK f : f[0] = w /\ f[Len(Q)] = v /\ Carries(f, Q, field)
  BY DEF Leads
<1> DEFINE T == {i \in Nat : f[i] \in Texts /\ Begins(Symbols, w, f[i])}
<1>2. Len(Q) \in Nat /\ \A i \in 1 .. Len(Q) : Q[i] \in Chunks
  BY LenProperties, ElementOfSeq
<1>3. 0 \in T
  BY <1>1, BeginsRefl DEF Texts
<1>4. ASSUME NEW i \in 0 .. Len(Q) - 1, i \in T PROVE i + 1 \in T
  <2>1. PICK k : k = i + 1
    OBVIOUS
  <2>2. k \in 1 .. Len(Q) /\ k - 1 = i /\ k \in Nat
    BY <1>2, <2>1
  <2>3. f[k] = IF Q[k].field = field THEN Cat(f[i], Squeezed(Q[k].text)) ELSE f[i]
    BY <1>1, <2>2 DEF Carries
  <2>4. f[i] \in Texts /\ Begins(Symbols, w, f[i])
    BY <1>4
  <2>5. PICK t : t = Squeezed(Q[k].text)
    OBVIOUS
  <2>6. t \in Texts
    <3>1. Q[k] \in Chunks
      BY <1>2, <2>2
    <3>2. Q[k].text \in Texts
      BY <3>1 DEF Chunks
    <3> QED
      BY <2>5, <3>2, SqType
  <2>7. Cat(f[i], t) \in Texts /\ Begins(Symbols, w, Cat(f[i], t))
    BY <2>4, <2>6, CatIs, BeginsMore DEF Texts
  <2> QED
    BY <2>1, <2>2, <2>3, <2>4, <2>5, <2>7
<1>5. Len(Q) \in T
  <2>1. \A i \in 0 .. Len(Q) - 1 : i \in T => i + 1 \in T
    BY <1>4
  <2> HIDE DEF T
  <2>2. \A i \in 0 .. Len(Q) : i \in T
    BY <1>2, <1>3, <2>1, Upto
  <2> QED
    BY <1>2, <2>2
<1> QED
  BY <1>1, <1>5

\* Chunks of other fields bring nothing.
LEMMA LeadsQuiet ==
    ASSUME NEW E, NEW Q \in Seq(E), NEW field, NEW w, NEW v, Leads(Q, field, w, v),
           \A i \in 1 .. Len(Q) : Q[i].field # field
    PROVE  v = w
<1>1. PICK f : f[0] = w /\ f[Len(Q)] = v /\ Carries(f, Q, field)
  BY DEF Leads
<1> DEFINE T == {i \in Nat : f[i] = w}
<1>2. Len(Q) \in Nat
  BY LenProperties
<1>3. 0 \in T
  BY <1>1
<1>4. ASSUME NEW i \in 0 .. Len(Q) - 1, i \in T PROVE i + 1 \in T
  <2>1. PICK k : k = i + 1
    OBVIOUS
  <2>2. k \in 1 .. Len(Q) /\ k - 1 = i /\ k \in Nat
    BY <1>2, <2>1
  <2>3. f[k] = IF Q[k].field = field THEN Cat(f[i], Squeezed(Q[k].text)) ELSE f[i]
    BY <1>1, <2>2 DEF Carries
  <2> QED
    BY <1>4, <2>1, <2>2, <2>3
<1>5. Len(Q) \in T
  <2>1. \A i \in 0 .. Len(Q) - 1 : i \in T => i + 1 \in T
    BY <1>4
  <2> HIDE DEF T
  <2>2. \A i \in 0 .. Len(Q) : i \in T
    BY <1>2, <1>3, <2>1, Upto
  <2> QED
    BY <1>2, <2>2
<1> QED
  BY <1>1, <1>5

\* A chunk that is only there if it has a text.
LEMMA ChunkLeads ==
    ASSUME NEW text \in Texts, NEW name \in {"content", "reasoning"}, NEW w \in Texts
    PROVE  /\ Chunk(name, text) \in Seq(Chunks)
           /\ \A i \in 1 .. Len(Chunk(name, text)) : Chunk(name, text)[i].field = name
           /\ Leads(Chunk(name, text), name, w, Cat(w, Squeezed(text)))
           /\ \A field : field # name => Leads(Chunk(name, text), field, w, w)
<1>1. CASE text = <<>>
  <2>1. Chunk(name, text) = <<>>
    BY <1>1, Zenon DEF Chunk
  <2>2. Cat(w, Squeezed(text)) = w
    BY <1>1, SqNone, CatNone DEF Texts
  <2>3. <<>> \in Seq(Chunks) /\ Len(<<>>) = 0
    BY EmptySeq
  <2> QED
    BY <2>1, <2>2, <2>3, LeadsNone
<1>2. CASE text # <<>>
  <2>1. PICK c : c = [field |-> name, text |-> text]
    OBVIOUS
  <2>2. c \in Chunks /\ c.field = name /\ c.text = text
    BY <2>1 DEF Chunks, Fields
  <2>3. Chunk(name, text) = <<c>>
    BY <1>2, <2>1, Zenon DEF Chunk
  <2>4. <<c>> \in Seq(Chunks) /\ Len(<<c>>) = 1 /\ <<c>>[1] = c
    BY <2>2
  <2>5. \A i \in 1 .. Len(<<c>>) : <<c>>[i].field = name
    BY <2>2
  <2>6. Leads(<<c>>, name, w, IF c.field = name THEN Cat(w, Squeezed(c.text)) ELSE w)
    BY LeadsOne
  <2>7. \A field : Leads(<<c>>, field, w, IF c.field = field THEN Cat(w, Squeezed(c.text)) ELSE w)
    BY LeadsOne
  <2>8. \A field : field # name => Leads(<<c>>, field, w, w)
    BY <2>2, <2>7
  <2> QED
    BY <2>2, <2>3, <2>4, <2>5, <2>6, <2>8
<1> QED
  BY <1>1, <1>2

-----------------------------------------------------------------------------
(* The tags <thinking> and </thinking> in a text *)

TagFree(x) == TagsAt(x, OpenTags \cup CloseTags) = {}

\* Where such a tag stands.
LEMMA BlockTagAt ==
    ASSUME NEW x \in Texts, NEW p \in TagsAt(x, OpenTags \cup CloseTags)
    PROVE  \E t \in OpenTags \cup CloseTags : p \in Occurrences(x, t)
BY DEF TagsAt

\* All four are pairs.
LEMMA BlockPair ==
    ASSUME NEW t \in OpenTags \cup CloseTags
    PROVE  \E a, b \in Symbols : t = <<a, b>> /\ b \in {"k", "e"}
<1>1. \A s \in {"b", "k", "r", "t", "e", "x"} : s \in Symbols
  BY DEF Symbols
<1>2. t = <<"b", "k">> \/ t = <<"r", "k">> \/ t = <<"t", "e">> \/ t = <<"x", "e">>
  BY DEF OpenTags, CloseTags
<1> QED
  BY <1>1, <1>2

\* A text of other symbols has none.
LEMMA HeldFree ==
    ASSUME NEW x \in Texts, \A i \in 1 .. Len(x) : x[i] \in {"t", "i", "o"}
    PROVE  TagFree(x)
<1> SUFFICES ASSUME NEW p \in TagsAt(x, OpenTags \cup CloseTags) PROVE FALSE
  BY DEF TagFree
<1>1. PICK t \in OpenTags \cup CloseTags : p \in Occurrences(x, t)
  BY BlockTagAt
<1>2. PICK a, b \in Symbols : t = <<a, b>> /\ b \in {"k", "e"}
  BY BlockPair
<1>3. p + 1 \in 1 .. Len(x) /\ x[p + 1] = b
  BY <1>1, <1>2, PairAt DEF Texts
<1> QED
  BY <1>2, <1>3

\* Nor has the end of a text that has none.
LEMMA FreeEnd ==
    ASSUME NEW w \in Texts, NEW b \in Texts, TagFree(Cat(w, b))
    PROVE  TagFree(b)
<1> SUFFICES ASSUME NEW p \in TagsAt(b, OpenTags \cup CloseTags) PROVE FALSE
  BY DEF TagFree
<1>1. PICK t \in OpenTags \cup CloseTags : p \in Occurrences(b, t)
  BY BlockTagAt
<1>2. PICK c, d \in Symbols : t = <<c, d>> /\ d \in {"k", "e"}
  BY BlockPair
<1>3. p \in 1 .. Len(b) /\ p + 1 \in 1 .. Len(b) /\ b[p] = c /\ b[p + 1] = d
  BY <1>1, <1>2, PairAt DEF Texts
<1>4. PICK s : s = Cat(w, b)
  OBVIOUS
<1>5. s \in Seq(Symbols) /\ Len(s) = Len(w) + Len(b) /\ Len(w) \in Nat /\ Len(b) \in Nat
      /\ \A i \in 1 .. Len(b) : s[Len(w) + i] = b[i]
  BY <1>4, CatIs, LenProperties DEF Texts
<1>6. PICK q : q = Len(w) + p
  OBVIOUS
<1>7. q \in 1 .. Len(s) /\ q + 1 \in 1 .. Len(s) /\ q + 1 = Len(w) + (p + 1)
  BY <1>3, <1>5, <1>6
<1>8. s[q] = c /\ s[q + 1] = d
  BY <1>3, <1>5, <1>6, <1>7
<1>9. q \in Occurrences(s, t)
  BY <1>2, <1>5, <1>7, <1>8, PairAt
<1>10. q \in TagsAt(s, OpenTags \cup CloseTags)
  BY <1>1, <1>9 DEF TagsAt
<1> QED
  BY <1>4, <1>10 DEF TagFree

\* Such a text keeps everything when its tags are stripped.
LEMMA StripFree ==
    ASSUME NEW x \in Texts
    PROVE  /\ StripTags(x) \in Texts
           /\ TagFree(x) => Squeezed(StripTags(x)) = Squeezed(x)
<1> DEFINE tags == TagsAt(x, OpenTags \cup CloseTags)
           S == {n \in DOMAIN x : n \notin tags /\ n - 1 \notin tags}
<1>1. PICK u : u = Untagged(x)
  OBVIOUS
<1>2. u = Picked(x, S)
  BY <1>1, Zenon DEF Untagged
<1>3. x \in Seq(Symbols) /\ Len(x) \in Nat /\ DOMAIN x = 1 .. Len(x)
  BY LenProperties DEF Texts
<1>4. u \in Texts
  BY <1>2, <1>3, PickedType DEF Texts
<1>5. Strip(u) \in Texts /\ Squeezed(Strip(u)) = Squeezed(u)
  BY <1>4, SqStrip
<1>6. StripTags(x) = Strip(u)
  BY <1>1, Zenon DEF StripTags
<1>7. ASSUME TagFree(x) PROVE u = x
  <2>1. tags = {}
    BY <1>7 DEF TagFree
  <2>2. S = 1 .. Len(x)
    BY <1>3, <2>1
  <2> HIDE DEF S, tags
  <2>3. 0 \in 0 .. Len(x) /\ Len(x) \in 0 .. Len(x) /\ \A i \in 0 + 1 .. Len(x) : i \in S
    BY <1>3, <2>2
  <2>4. Picked(x, Below(S, Len(x))) = Cat(Picked(x, Below(S, 0)), Sub(x, 0 + 1, Len(x)))
    BY <1>3, <2>3, RunPicked
  <2>5. Picked(x, Below(S, 0)) = <<>> /\ Picked(x, Below(S, Len(x))) = Picked(x, S)
    BY <1>3, EndsPicked
  <2>6. Sub(x, 0 + 1, Len(x)) = x
    BY <1>3, SubWhole
  <2> QED
    BY <1>2, <1>3, <2>4, <2>5, <2>6, CatNone
<1> QED
  BY <1>5, <1>6, <1>7

-----------------------------------------------------------------------------
(* The splitter *)

\* What of a text s the splitter that keeps b has let go, and as what: th is
\* is whether reasoning was asked for, sp whether it is over, and h then what it
\* was, which is the text before the mark if that has no tags.
LetGo(s, b) == Sub(s, 1, Len(s) - Len(b))
Thought(h, th, sp, s, b) == IF ~th THEN <<>> ELSE IF sp THEN h ELSE LetGo(s, b)
Agreed(h, s) ==
    TagFree(Before(s, FirstMark(s))) => Squeezed(h) = Squeezed(Before(s, FirstMark(s)))
Answer(th, sp, s) == IF ~th THEN s ELSE IF sp THEN AfterMark(s) ELSE <<>>

\* A splitter with l lines to come: while it has seen no mark it keeps an end
\* of the text that may begin one.
SplitOk(h, th, sp, s, b, l) ==
    /\ h \in Texts /\ s \in Texts /\ b \in Texts
    /\ ~th => sp
    /\ sp => b = <<>>
    /\ th /\ sp => Positions(s) # {} /\ Agreed(h, s)
    /\ ~sp => /\ Positions(s) = {}
              /\ Fits(Symbols, s, 1, Len(s) - Len(b)) /\ s = Cat(LetGo(s, b), b)
              /\ l # 0 /\ b = <<>> /\ s # <<>> => s[Len(s)] # "t"
              /\ \A i \in 1 .. Len(b) : b[i] \in {"t", "i", "o"}

\* What is before the first mark and what is behind it are texts.
LEMMA MarkTexts ==
    ASSUME NEW s \in Texts, Positions(s) # {}
    PROVE  Before(s, FirstMark(s)) \in Texts /\ AfterMark(s) \in Texts
<1>1. PICK p : p = FirstMark(s)
  OBVIOUS
<1>2. p \in 1 .. Len(s) /\ p + 1 \in 1 .. Len(s) /\ Len(s) \in Nat
  BY <1>1, MarkFirst, MarkAt, LenProperties DEF Texts
<1>3. Before(s, p) = Sub(s, 1, p - 1) /\ AfterMark(s) = Sub(s, p + 2, Len(s))
  BY <1>1, MarkFirst
<1>4. PICK i, j : i = p + 2 /\ j = p - 1
  OBVIOUS
<1>5. Fits(Symbols, s, 1, j) /\ Fits(Symbols, s, i, Len(s))
  BY <1>2, <1>4 DEF Fits, Texts
<1>6. IsSub(Symbols, Sub(s, 1, j), s, 1, j) /\ IsSub(Symbols, Sub(s, i, Len(s)), s, i, Len(s))
  BY <1>5, SubFits
<1> QED
  BY <1>1, <1>3, <1>4, <1>6 DEF IsSub, Texts

\* What has been let go are texts.
LEMMA SplitTypes ==
    ASSUME NEW h, NEW th, NEW sp, NEW s, NEW b, NEW l, SplitOk(h, th, sp, s, b, l)
    PROVE  Thought(h, th, sp, s, b) \in Texts /\ Answer(th, sp, s) \in Texts
<1>1. h \in Texts /\ s \in Texts /\ b \in Texts /\ Len(s) \in Nat /\ <<>> \in Texts
  BY LenProperties, EmptySeq DEF SplitOk, Texts
<1>2. CASE ~th
  BY <1>1, <1>2 DEF Thought, Answer
<1>3. CASE th /\ sp
  <2>1. Positions(s) # {}
    BY <1>3 DEF SplitOk
  <2> QED
    BY <1>1, <1>3, <2>1, MarkTexts DEF Thought, Answer
<1>4. CASE th /\ ~sp
  <2>1. PICK j : j = Len(s) - Len(b)
    OBVIOUS
  <2>2. Fits(Symbols, s, 1, j)
    BY <1>4, <2>1 DEF SplitOk
  <2>3. IsSub(Symbols, Sub(s, 1, j), s, 1, j)
    BY <2>2, SubFits
  <2>4. Sub(s, 1, j) \in Texts
    BY <2>3 DEF IsSub, Texts
  <2> QED
    BY <1>1, <1>4, <2>1, <2>4 DEF Thought, Answer, LetGo
<1> QED
  BY <1>2, <1>3, <1>4

\* What has been let go is a beginning of what the lines mean, and all of it when
\* nothing is kept: the answer always, the reasoning if it has no tags.
LEMMA SplitStreamed ==
    ASSUME NEW h, NEW sp, sp \in BOOLEAN, NEW s, NEW b, NEW l, req.thinking \in BOOLEAN,
           SplitOk(h, req.thinking, sp, s, b, l)
    PROVE  LET w == Thought(h, req.thinking, sp, s, b)
               a == Answer(req.thinking, sp, s)
               wr == Streamed(s).reasoning
               wc == Streamed(s).content
           IN  /\ wr \in Texts /\ wc \in Texts
               /\ Begins(Symbols, Squeezed(a), Squeezed(wc)) /\ (b = <<>> => Squeezed(a) = Squeezed(wc))
               /\ Positions(s) = {} \/ TagFree(Before(s, FirstMark(s))) =>
                     /\ Begins(Symbols, Squeezed(w), Squeezed(wr))
                     /\ b = <<>> => Squeezed(w) = Squeezed(wr)
<1>1. h \in Texts /\ s \in Texts /\ b \in Texts /\ Len(s) \in Nat /\ <<>> \in Texts
  BY LenProperties, EmptySeq DEF SplitOk, Texts
<1>2. PICK th, w, a : th = req.thinking /\ w = Thought(h, th, sp, s, b) /\ a = Answer(th, sp, s)
  OBVIOUS
<1>3. w \in Texts /\ a \in Texts
  BY <1>2, SplitTypes
<1>4. PICK wr, wc : wr = Streamed(s).reasoning /\ wc = Streamed(s).content
  OBVIOUS
<1>5. Squeezed(w) \in Seq(Symbols) /\ Squeezed(a) \in Seq(Symbols) /\ Squeezed(<<>>) \in Seq(Symbols)
  BY <1>1, <1>3, SqType DEF Texts
<1>6. CASE ~th
  <2>1. Streamed(s) = [reasoning |-> <<>>, content |-> s]
    BY <1>2, <1>6, Zenon DEF Streamed
  <2>2. wr = <<>> /\ wc = s /\ w = <<>> /\ a = s
    BY <1>2, <1>4, <1>6, <2>1 DEF Thought, Answer
  <2> QED
    BY <1>1, <1>2, <1>4, <1>5, <2>2, BeginsRefl
<1>7. CASE th /\ sp
  <2>1. Positions(s) # {} /\ Agreed(h, s)
    BY <1>2, <1>7 DEF SplitOk
  <2>2. Streamed(s) = [reasoning |-> Before(s, FirstMark(s)), content |-> AfterMark(s)]
    BY <1>2, <1>7, <2>1, Zenon DEF Streamed
  <2>3. wr = Before(s, FirstMark(s)) /\ wc = AfterMark(s) /\ w = h /\ a = AfterMark(s)
    BY <1>2, <1>4, <1>7, <2>2 DEF Thought, Answer
  <2>4. wr \in Texts /\ wc \in Texts
    BY <1>1, <2>1, <2>3, MarkTexts
  <2>5. TagFree(Before(s, FirstMark(s))) => Squeezed(w) = Squeezed(wr)
    BY <2>1, <2>3 DEF Agreed
  <2> QED
    BY <1>2, <1>4, <1>5, <2>1, <2>3, <2>4, <2>5, BeginsRefl
<1>8. CASE th /\ ~sp
  <2>1. Positions(s) = {} /\ s = Cat(LetGo(s, b), b)
    BY <1>2, <1>8 DEF SplitOk
  <2>2. Streamed(s) = [reasoning |-> s, content |-> <<>>]
    BY <1>2, <1>8, <2>1, Zenon DEF Streamed
  <2>3. wr = s /\ wc = <<>>
    BY <1>4, <2>2
  <2>4. w = LetGo(s, b) /\ a = <<>>
    BY <1>2, <1>8, Zenon DEF Thought, Answer
  <2>5. s = Cat(w, b)
    BY <2>1, <2>4
  <2>6. Begins(Symbols, w, s)
    BY <1>1, <2>5 DEF Begins, Texts
  <2>7. Begins(Symbols, Squeezed(w), Squeezed(s))
    BY <1>1, <1>3, <2>6, SqBegins
  <2>8. Begins(Symbols, Squeezed(a), Squeezed(wc))
    BY <1>5, <2>3, <2>4, BeginsRefl
  <2>9. b = <<>> => w = s
    BY <1>3, <2>5, CatNone DEF Texts
  <2> QED
    BY <1>1, <1>2, <1>4, <2>3, <2>4, <2>7, <2>8, <2>9
<1> QED
  BY <1>6, <1>7, <1>8

\* Where the reply that is not streamed is taken apart alike, it means the same.
LEMMA AlikeMeans ==
    ASSUME NEW s \in Texts, req.thinking \in BOOLEAN, Blocks(s) = {},
           req.thinking \/ Positions(s) = {},
           Positions(s) = {} \/ TagFree(Before(s, FirstMark(s)))
    PROVE  /\ Squeezed(Whole(s, req.thinking).reasoning) = Squeezed(Streamed(s).reasoning)
           /\ Squeezed(Whole(s, req.thinking).content) = Squeezed(Streamed(s).content)
<1>1. PICK th : th = req.thinking
  OBVIOUS
<1>2. CASE Positions(s) # {}
  <2>1. PICK b, c : b = Before(s, FirstMark(s)) /\ c = AfterMark(s)
    OBVIOUS
  <2>2. Streamed(s) = [reasoning |-> b, content |-> c]
    BY <1>2, <2>1, Zenon DEF Streamed
  <2>3. Whole(s, th) = [reasoning |-> StripTags(b), content |-> Strip(c)]
    BY <1>2, <2>1, Zenon DEF Whole
  <2>4. b \in Texts /\ c \in Texts /\ TagFree(b)
    BY <1>2, <2>1, MarkTexts
  <2>5. Squeezed(StripTags(b)) = Squeezed(b) /\ Squeezed(Strip(c)) = Squeezed(c)
    BY <2>4, StripFree, SqStrip
  <2> QED
    BY <1>1, <2>2, <2>3, <2>5
<1>3. CASE Positions(s) = {} /\ th
  <2>1. Streamed(s) = [reasoning |-> s, content |-> <<>>]
    BY <1>1, <1>3, Zenon DEF Streamed
  <2>2. Whole(s, th) = [reasoning |-> Strip(s), content |-> <<>>]
    BY <1>3, Zenon DEF Whole
  <2>3. Squeezed(Strip(s)) = Squeezed(s)
    BY SqStrip
  <2> QED
    BY <1>1, <2>1, <2>2, <2>3
<1>4. CASE Positions(s) = {} /\ ~th
  <2>1. Streamed(s) = [reasoning |-> <<>>, content |-> s]
    BY <1>1, <1>4, Zenon DEF Streamed
  <2>2. Whole(s, th) = [reasoning |-> <<>>, content |-> s]
    BY <1>4, Zenon DEF Whole
  <2> QED
    BY <1>1, <2>1, <2>2
<1> QED
  BY <1>2, <1>3, <1>4

\* Chunks of content and reasoning only, which lead from what had been let go to
\* what has been let go.
Brings(Q, w, v, a, c) ==
    /\ Q \in Seq(Chunks)
    /\ \A i \in 1 .. Len(Q) : Q[i].field \in {"content", "reasoning"}
    /\ Leads(Q, "reasoning", Squeezed(w), Squeezed(v))
    /\ Leads(Q, "content", Squeezed(a), Squeezed(c))

\* No chunks bring nothing, to neither field.
LEMMA BringsNone ==
    ASSUME NEW w, NEW a PROVE Brings(<<>>, w, w, a, a)
BY LeadsNone, EmptySeq DEF Brings

\* Chunks behind chunks bring what both bring, to both fields.
LEMMA BringsCat ==
    ASSUME NEW Q, NEW R, NEW w, NEW u, NEW v, NEW a, NEW b, NEW c,
           Brings(Q, w, u, a, b), Brings(R, u, v, b, c)
    PROVE  Brings(Cat(Q, R), w, v, a, c)
<1>1. Q \in Seq(Chunks) /\ R \in Seq(Chunks) /\ Len(Q) \in Nat /\ Len(R) \in Nat
  BY LenProperties DEF Brings
<1>2. PICK Z : Z = Cat(Q, R)
  OBVIOUS
<1>3. /\ Z \in Seq(Chunks) /\ Len(Z) = Len(Q) + Len(R)
      /\ \A i \in 1 .. Len(Q) : Z[i] = Q[i]
      /\ \A i \in 1 .. Len(R) : Z[Len(Q) + i] = R[i]
  BY <1>1, <1>2, CatIs
<1>4. ASSUME NEW i \in 1 .. Len(Z) PROVE Z[i].field \in {"content", "reasoning"}
  <2>1. CASE i <= Len(Q)
    <3>1. i \in 1 .. Len(Q)
      BY <1>1, <2>1
    <3> QED
      BY <1>3, <3>1 DEF Brings
  <2>2. CASE ~(i <= Len(Q))
    <3>1. PICK k : k = i - Len(Q)
      OBVIOUS
    <3>2. k \in 1 .. Len(R) /\ Len(Q) + k = i
      BY <1>1, <1>3, <2>2, <3>1
    <3>3. Z[i] = R[k]
      BY <1>3, <3>2
    <3> QED
      BY <3>2, <3>3 DEF Brings
  <2> QED
    BY <2>1, <2>2
<1>5. Leads(Z, "reasoning", Squeezed(w), Squeezed(v)) /\ Leads(Z, "content", Squeezed(a), Squeezed(c))
  <2>1. /\ Leads(Q, "reasoning", Squeezed(w), Squeezed(u)) /\ Leads(R, "reasoning", Squeezed(u), Squeezed(v))
        /\ Leads(Q, "content", Squeezed(a), Squeezed(b)) /\ Leads(R, "content", Squeezed(b), Squeezed(c))
    BY DEF Brings
  <2> QED
    BY <1>1, <1>2, <2>1, LeadsCat
<1> QED
  BY <1>2, <1>3, <1>4, <1>5 DEF Brings

\* A chunk of reasoning, and one of content.
LEMMA ReasoningBrings ==
    ASSUME NEW w \in Texts, NEW a \in Texts, NEW t \in Texts, NEW u \in Texts, Squeezed(u) = Squeezed(t)
    PROVE  Brings(Chunk("reasoning", u), w, Cat(w, t), a, a)
<1>1. Squeezed(Cat(w, t)) = Cat(Squeezed(w), Squeezed(u)) /\ Squeezed(w) \in Texts /\ Squeezed(a) \in Texts
  BY SqCat, SqType
<1>2. PICK c : c = Chunk("reasoning", u)
  OBVIOUS
<1>3. /\ c \in Seq(Chunks) /\ \A i \in 1 .. Len(c) : c[i].field = "reasoning"
      /\ Leads(c, "reasoning", Squeezed(w), Cat(Squeezed(w), Squeezed(u)))
  BY <1>1, <1>2, ChunkLeads
<1>4. Leads(c, "content", Squeezed(a), Squeezed(a))
  BY <1>1, <1>2, ChunkLeads
<1> QED
  BY <1>1, <1>2, <1>3, <1>4 DEF Brings

\* A chunk of content brings its text, white space apart.
LEMMA ContentBrings ==
    ASSUME NEW w \in Texts, NEW a \in Texts, NEW t \in Texts, NEW u \in Texts, Squeezed(u) = Squeezed(t)
    PROVE  Brings(Chunk("content", u), w, w, a, Cat(a, t))
<1>1. Squeezed(Cat(a, t)) = Cat(Squeezed(a), Squeezed(u)) /\ Squeezed(w) \in Texts /\ Squeezed(a) \in Texts
  BY SqCat, SqType
<1>2. PICK c : c = Chunk("content", u)
  OBVIOUS
<1>3. /\ c \in Seq(Chunks) /\ \A i \in 1 .. Len(c) : c[i].field = "content"
      /\ Leads(c, "content", Squeezed(a), Cat(Squeezed(a), Squeezed(u)))
  BY <1>1, <1>2, ChunkLeads
<1>4. Leads(c, "reasoning", Squeezed(w), Squeezed(w))
  BY <1>1, <1>2, ChunkLeads
<1> QED
  BY <1>1, <1>2, <1>3, <1>4 DEF Brings

\* A stretch of one.
LEMMA SubOne ==
    ASSUME NEW E, NEW x \in Seq(E), NEW i \in 1 .. Len(x)
    PROVE  SubSeq(x, i, i) = <<x[i]>>
<1>1. Len(x) \in Nat /\ x[i] \in E
  BY LenProperties, ElementOfSeq
<1>2. PICK s : s = SubSeq(x, i, i)
  OBVIOUS
<1>3. PICK u : u = <<x[i]>>
  OBVIOUS
<1>4. u \in Seq(E) /\ Len(u) = 1 /\ u[1] = x[i]
  BY <1>1, <1>3
<1>5. IsSub(E, s, x, i, i)
  <2>1. Fits(E, x, i, i)
    BY <1>1 DEF Fits
  <2>2. IsSub(E, Sub(x, i, i), x, i, i)
    BY <2>1, SubFits
  <2> QED
    BY <1>2, <2>2, Zenon DEF Sub
<1>6. s \in Seq(E) /\ Len(s) = 1 /\ s[1] = x[i]
  BY <1>1, <1>5 DEF IsSub
<1>7. s = u
  BY <1>4, <1>6, SameSeq
<1> QED
  BY <1>2, <1>3, <1>7

\* How much of a text without a mark may begin one.
LEMMA HoldIs ==
    ASSUME NEW x \in Texts
    PROVE  /\ HoldSuffix(x) \in 0 .. Len(x)
           /\ HoldSuffix(x) = 0 /\ x # <<>> => x[Len(x)] # "t"
           /\ \A i \in 1 .. HoldSuffix(x) : x[Len(x) - HoldSuffix(x) + i] \in {"t", "i", "o"}
<1>1. Len(x) \in Nat /\ DOMAIN x = 1 .. Len(x) /\ x \in Seq(Symbols)
  BY LenProperties DEF Texts
<1> DEFINE N == {n \in DOMAIN x : \E m \in Marks : n <= Len(m) /\ SubSeq(m, 1, n) = After(x, Len(x) - n + 1)}
<1>2. {0} \cup N \subseteq 0 .. Len(x) /\ {0} \cup N # {}
  BY <1>1
<1>3. HoldSuffix(x) = Max({0} \cup N)
  BY Zenon DEF HoldSuffix
<1>4. PICK T : T = {0} \cup N
  OBVIOUS
<1>5. Max(T) \in T /\ \A n \in T : Max(T) >= n
  BY <1>1, <1>2, <1>4, MaxIs
<1>6. ASSUME x # <<>>, x[Len(x)] = "t" PROVE 1 \in T
  <2>1. Len(x) # 0
    BY <1>1, <1>6, EmptySeq
  <2>2. PICK m : m = <<"t", "i">>
    OBVIOUS
  <2>3. m \in Marks /\ 1 <= Len(m) /\ SubSeq(m, 1, 1) = <<"t">>
    <3>1. m \in Marks
      BY <2>2, Zenon DEF Marks
    <3>2. m \in Seq(Symbols) /\ Len(m) = 2 /\ m[1] = "t"
      BY <2>2 DEF Symbols
    <3>3. 1 \in 1 .. Len(m)
      BY <3>2
    <3>4. SubSeq(m, 1, 1) = <<m[1]>>
      BY <3>2, <3>3, SubOne
    <3> QED
      BY <3>1, <3>2, <3>4
  <2>4. After(x, Len(x) - 1 + 1) = <<"t">>
    <3>1. Len(x) - 1 + 1 = Len(x)
      BY <1>1
    <3>2. SubSeq(x, Len(x), Len(x)) = <<x[Len(x)]>>
      <4>1. Len(x) \in 1 .. Len(x)
        BY <1>1, <2>1
      <4> QED
        BY <1>1, <4>1, SubOne
    <3> QED
      BY <1>6, <3>1, <3>2 DEF After
  <2>5. 1 \in DOMAIN x
    BY <1>1, <2>1
  <2> QED
    BY <1>4, <2>3, <2>4, <2>5
<1> HIDE DEF N
<1>7. HoldSuffix(x) \in 0 .. Len(x)
  BY <1>2, <1>3, <1>4, <1>5
<1>8. ASSUME HoldSuffix(x) = 0, x # <<>> PROVE x[Len(x)] # "t"
  <2>1. Max(T) = 0
    BY <1>3, <1>4, <1>8
  <2>2. 1 \notin T
    BY <1>5, <2>1
  <2> QED
    BY <1>6, <1>8, <2>2
<1>9. ASSUME NEW i \in 1 .. HoldSuffix(x)
      PROVE  x[Len(x) - HoldSuffix(x) + i] \in {"t", "i", "o"}
  <2>1. PICK n : n = HoldSuffix(x)
    OBVIOUS
  <2>2. n \in T /\ n # 0 /\ n \in 1 .. Len(x) /\ i \in 1 .. n
    BY <1>1, <1>3, <1>4, <1>5, <1>7, <1>9, <2>1
  <2>3. PICK m \in Marks : n <= Len(m) /\ SubSeq(m, 1, n) = After(x, Len(x) - n + 1)
    BY <1>4, <2>2 DEF N
  <2>4. m \in Seq(Symbols) /\ Len(m) = 2 /\ m[1] \in {"t", "i", "o"} /\ m[2] \in {"t", "i", "o"}
    <3>1. {"t", "i", "o"} \subseteq Symbols
      BY DEF Symbols
    <3>2. CASE m = <<"t", "i">>
      BY <3>1, <3>2
    <3>3. CASE m = <<"t", "o">>
      BY <3>1, <3>3
    <3> QED
      BY <2>3, <3>2, <3>3 DEF Marks
  <2>5. PICK q : q = Len(x) - n + 1
    OBVIOUS
  <2>6. Sub(m, 1, n) = Sub(x, q, Len(x))
    BY <2>3, <2>5, Zenon DEF Sub, After
  <2>7. Fits(Symbols, m, 1, n) /\ Fits(Symbols, x, q, Len(x))
    BY <1>1, <2>2, <2>3, <2>4, <2>5 DEF Fits
  <2>8. IsSub(Symbols, Sub(m, 1, n), m, 1, n) /\ IsSub(Symbols, Sub(x, q, Len(x)), x, q, Len(x))
    BY <2>7, SubFits
  <2>9. Sub(m, 1, n)[i] = m[i] /\ i \in {1, 2}
    <3>1. i \in 1 .. n + 1 - 1 /\ 1 + i - 1 = i /\ i \in {1, 2}
      BY <2>2, <2>3, <2>4
    <3>2. Sub(m, 1, n)[i] = m[1 + i - 1]
      BY <2>8, <3>1 DEF IsSub
    <3> QED
      BY <3>1, <3>2
  <2>10. Sub(x, q, Len(x))[i] = x[Len(x) - n + i]
    <3>1. i \in 1 .. Len(x) + 1 - q /\ q + i - 1 = Len(x) - n + i
      BY <1>1, <2>2, <2>5
    <3>2. Sub(x, q, Len(x))[i] = x[q + i - 1]
      BY <2>8, <3>1 DEF IsSub
    <3> QED
      BY <3>1, <3>2
  <2> QED
    BY <2>1, <2>4, <2>6, <2>9, <2>10
<1> QED
  BY <1>7, <1>8, <1>9

\* What feed returns for a text it does not take apart.
LEMMA FedPlain ==
    ASSUME NEW text, text = <<>> \/ ~req.thinking \/ split
    PROVE  Fed(text).out = Chunk("content", text) /\ Fed(text).buf = buf /\ Fed(text).split = split
<1>1. Fed(text) = [out |-> Chunk("content", text), buf |-> buf, split |-> split]
  BY Zenon DEF Fed
<1> QED
  BY <1>1

\* What it returns when reasoning ends.
LEMMA FedMark ==
    ASSUME NEW text, NEW all, all = Cat(buf, text), text # <<>>, req.thinking, ~split, Positions(all) # {}
    PROVE  /\ Fed(text).out = Cat(Chunk("reasoning", StripTags(Before(all, FirstMark(all)))),
                                  Chunk("content", LStrip(AfterMark(all))))
           /\ Fed(text).buf = <<>> /\ Fed(text).split = TRUE
<1>1. all = buf \o text
  BY Zenon DEF Cat
<1>2. Fed(text) = [out |-> Chunk("reasoning", StripTags(Before(all, FirstMark(all))))
                            \o Chunk("content", LStrip(AfterMark(all))),
                   buf |-> <<>>, split |-> TRUE]
  BY <1>1, Zenon DEF Fed
<1>3. Fed(text) = [out |-> Cat(Chunk("reasoning", StripTags(Before(all, FirstMark(all)))),
                               Chunk("content", LStrip(AfterMark(all)))),
                   buf |-> <<>>, split |-> TRUE]
  BY <1>2, Zenon DEF Cat
<1> QED
  BY <1>3

\* And while it goes on.
LEMMA FedHold ==
    ASSUME NEW text, NEW all, all = Cat(buf, text), text # <<>>, req.thinking, ~split, Positions(all) = {}
    PROVE  /\ Fed(text).out = Chunk("reasoning", Sub(all, 1, Len(all) - HoldSuffix(all)))
           /\ Fed(text).buf = Sub(all, Len(all) - HoldSuffix(all) + 1, Len(all))
           /\ Fed(text).split = FALSE
<1>1. all = buf \o text
  BY Zenon DEF Cat
<1>2. Fed(text) = [out |-> Chunk("reasoning", SubSeq(all, 1, Len(all) - HoldSuffix(all))),
                   buf |-> After(all, Len(all) - HoldSuffix(all) + 1), split |-> FALSE]
  BY <1>1, Zenon DEF Fed
<1>3. Fed(text) = [out |-> Chunk("reasoning", Sub(all, 1, Len(all) - HoldSuffix(all))),
                   buf |-> Sub(all, Len(all) - HoldSuffix(all) + 1, Len(all)), split |-> FALSE]
  BY <1>2, Zenon DEF Sub, After
<1> QED
  BY <1>3

\* A line's content: what feed yields brings the client from what had been let go
\* to what has been let go, and the splitter still keeps what may begin a mark.
FedTo(k, h, text) ==
    /\ Fed(text).split \in BOOLEAN
    /\ \A l : SplitOk(k, req.thinking, Fed(text).split, Cat(said, text), Fed(text).buf, l)
    /\ Brings(Fed(text).out,
              Thought(h, req.thinking, split, said, buf),
              Thought(k, req.thinking, Fed(text).split, Cat(said, text), Fed(text).buf),
              Answer(req.thinking, split, said),
              Answer(req.thinking, Fed(text).split, Cat(said, text)))

LEMMA FedBrings ==
    ASSUME NEW h, NEW text \in Texts, req.thinking \in BOOLEAN, split \in BOOLEAN, left # 0,
           SplitOk(h, req.thinking, split, said, buf, left)
    PROVE  \E k : FedTo(k, h, text)
<1> DEFINE th == req.thinking
<1>1. PICK fo, fb, fs, s : fo = Fed(text).out /\ fb = Fed(text).buf /\ fs = Fed(text).split /\ s = Cat(said, text)
  OBVIOUS
<1>2. /\ h \in Texts /\ said \in Texts /\ buf \in Texts /\ Len(said) \in Nat /\ Len(buf) \in Nat /\ Len(text) \in Nat
      /\ said \in Seq(Symbols) /\ buf \in Seq(Symbols) /\ text \in Seq(Symbols) /\ <<>> \in Texts
  BY LenProperties, EmptySeq DEF SplitOk, Texts
<1>3. s \in Texts /\ Len(s) = Len(said) + Len(text)
  BY <1>1, <1>2, CatIs DEF Texts
<1>4. CASE text = <<>>
  <2>1. fo = Chunk("content", text) /\ fb = buf /\ fs = split
    BY <1>1, <1>4, FedPlain
  <2>2. s = said
    BY <1>1, <1>2, <1>4, CatNone
  <2>3. fo = <<>>
    BY <1>4, <2>1, Zenon DEF Chunk
  <2>4. \A l : SplitOk(h, th, fs, s, fb, l)
    BY <2>1, <2>2 DEF SplitOk
  <2> QED
    BY <1>1, <2>1, <2>2, <2>3, <2>4, BringsNone DEF FedTo
<1>5. CASE text # <<>> /\ ~th
  <2>1. fo = Chunk("content", text) /\ fb = buf /\ fs = split
    BY <1>1, <1>5, FedPlain
  <2>2. split = TRUE /\ buf = <<>>
    BY <1>5 DEF SplitOk
  <2>3. \A l : SplitOk(h, th, fs, s, fb, l)
    BY <1>2, <1>3, <1>5, <2>1, <2>2 DEF SplitOk
  <2>4. /\ Thought(h, th, split, said, buf) = <<>> /\ Thought(h, th, fs, s, fb) = <<>>
        /\ Answer(th, split, said) = said /\ Answer(th, fs, s) = Cat(said, text)
    BY <1>1, <1>5, Zenon DEF Thought, Answer
  <2>5. Brings(fo, <<>>, <<>>, said, Cat(said, text))
    BY <1>2, <2>1, ContentBrings
  <2> QED
    BY <1>1, <2>1, <2>3, <2>4, <2>5 DEF FedTo
<1>6. CASE text # <<>> /\ th /\ split
  <2>1. fo = Chunk("content", text) /\ fb = buf /\ fs = split
    BY <1>1, <1>6, FedPlain
  <2>2. split = TRUE /\ buf = <<>> /\ Positions(said) # {} /\ Agreed(h, said)
    BY <1>6 DEF SplitOk
  <2>3. /\ Positions(s) # {}
        /\ Before(s, FirstMark(s)) = Before(said, FirstMark(said))
        /\ AfterMark(s) = Cat(AfterMark(said), text)
    BY <1>1, <1>2, <2>2, MarkStays
  <2>4. \A l : SplitOk(h, th, fs, s, fb, l)
    <3>1. Agreed(h, s)
      BY <2>2, <2>3 DEF Agreed
    <3> QED
      BY <1>2, <1>3, <1>6, <2>1, <2>2, <2>3, <3>1 DEF SplitOk
  <2>5. PICK w, a : w = Thought(h, th, split, said, buf) /\ a = Answer(th, split, said)
    OBVIOUS
  <2>6. w \in Texts /\ a \in Texts
    BY <2>5, SplitTypes
  <2>7. Thought(h, th, fs, s, fb) = w /\ Answer(th, fs, s) = Cat(a, text)
    BY <1>6, <2>1, <2>3, <2>5, Zenon DEF Thought, Answer
  <2>8. Brings(fo, w, w, a, Cat(a, text))
    BY <2>1, <2>6, ContentBrings
  <2> QED
    BY <1>1, <2>1, <2>4, <2>5, <2>7, <2>8 DEF FedTo
<1>7. CASE text # <<>> /\ th /\ ~split
  <2>1. /\ Positions(said) = {} /\ said = Cat(LetGo(said, buf), buf)
        /\ buf = <<>> /\ said # <<>> => said[Len(said)] # "t"
        /\ Fits(Symbols, said, 1, Len(said) - Len(buf))
    BY <1>7 DEF SplitOk
  <2>2. PICK w, a, all : w = LetGo(said, buf) /\ a = <<>> /\ all = Cat(buf, text)
    OBVIOUS
  <2>3. w = Thought(h, th, split, said, buf) /\ a = Answer(th, split, said)
    BY <1>7, <2>2, Zenon DEF Thought, Answer
  <2>4. w \in Texts /\ a \in Texts /\ w \in Seq(Symbols) /\ Len(w) \in Nat
    BY <2>3, SplitTypes, LenProperties DEF Texts
  <2>5. all \in Texts /\ all \in Seq(Symbols) /\ Len(all) = Len(buf) + Len(text)
    BY <1>2, <2>2, CatIs DEF Texts
  <2>6. s = Cat(w, all) /\ said = Cat(w, buf)
    <3>1. Cat(Cat(w, buf), text) = Cat(w, Cat(buf, text))
      BY <1>2, <2>4, CatCat
    <3> QED
      BY <1>1, <2>1, <2>2, <3>1
  <2>7. /\ Len(said) = Len(w) + Len(buf)
        /\ \A i \in 1 .. Len(w) : said[i] = w[i]
        /\ \A i \in 1 .. Len(buf) : said[Len(w) + i] = buf[i]
    BY <1>2, <2>4, <2>6, CatIs
  <2>8. Positions(w) = {}
    <3> SUFFICES ASSUME NEW p \in Positions(w) PROVE FALSE
      OBVIOUS
    <3>1. p \in 1 .. Len(w) /\ p + 1 \in 1 .. Len(w) /\ w[p] = "t" /\ w[p + 1] \in {"i", "o"}
      BY <2>4, MarkAt
    <3>2. p \in 1 .. Len(said) /\ p + 1 \in 1 .. Len(said) /\ said[p] = w[p] /\ said[p + 1] = w[p + 1]
      BY <1>2, <2>4, <2>7, <3>1
    <3>3. p \in Positions(said)
      BY <1>2, <3>1, <3>2, MarkAt
    <3> QED
      BY <2>1, <3>3
  <2>9. w # <<>> /\ all # <<>> /\ w[Len(w)] = "t" => all[1] \notin {"i", "o"}
    <3> SUFFICES ASSUME w # <<>>, w[Len(w)] = "t", all[1] \in {"i", "o"} PROVE FALSE
      OBVIOUS
    <3>1. Len(w) # 0
      BY <2>4, EmptySeq
    <3>2. Len(w) \in 1 .. Len(w) /\ Len(w) \in 1 .. Len(said) /\ said[Len(w)] = "t"
      BY <1>2, <2>4, <2>7, <3>1
    <3>3. CASE buf = <<>>
      <4>1. Len(said) = Len(w) /\ said # <<>>
        BY <1>2, <2>4, <2>7, <3>1, <3>3, EmptySeq
      <4> QED
        BY <2>1, <3>2, <3>3, <4>1
    <3>4. CASE buf # <<>>
      <4>1. 1 \in 1 .. Len(buf)
        BY <1>2, <3>4, EmptySeq
      <4>2. all[1] = buf[1]
        BY <1>2, <2>2, <4>1, CatIs
      <4>3. Len(w) + 1 \in 1 .. Len(said) /\ said[Len(w) + 1] = buf[1]
        BY <1>2, <2>4, <2>7, <4>1
      <4>4. Len(w) \in Positions(said)
        BY <1>2, <3>2, <4>2, <4>3, MarkAt
      <4> QED
        BY <2>1, <4>4
    <3> QED
      BY <3>3, <3>4
  <2>10. CASE Positions(all) # {}
    <3>1. /\ fo = Cat(Chunk("reasoning", StripTags(Before(all, FirstMark(all)))), Chunk("content", LStrip(AfterMark(all))))
          /\ fb = <<>> /\ fs = TRUE
      BY <1>1, <1>7, <2>2, <2>10, FedMark
    <3>2. /\ Positions(s) # {}
          /\ Before(s, FirstMark(s)) = Cat(w, Before(all, FirstMark(all)))
          /\ AfterMark(s) = AfterMark(all)
      BY <2>4, <2>5, <2>6, <2>8, <2>9, <2>10, MarkMoves
    <3>3. PICK b, c, t, k : /\ b = Before(all, FirstMark(all)) /\ c = AfterMark(all)
                            /\ t = StripTags(b) /\ k = Cat(w, t)
      OBVIOUS
    <3>4. b \in Texts /\ c \in Texts
      BY <2>5, <2>10, <3>3, MarkTexts
    <3>5. t \in Texts /\ (TagFree(b) => Squeezed(t) = Squeezed(b))
      BY <3>3, <3>4, StripFree
    <3>6. k \in Texts /\ Squeezed(k) = Cat(Squeezed(w), Squeezed(t))
          /\ Squeezed(Cat(w, b)) = Cat(Squeezed(w), Squeezed(b))
      BY <2>4, <3>3, <3>4, <3>5, CatIs, SqCat DEF Texts
    <3>7. Agreed(k, s)
      <4>1. TagFree(Cat(w, b)) => TagFree(b)
        BY <2>4, <3>4, FreeEnd
      <4>2. Before(s, FirstMark(s)) = Cat(w, b)
        BY <3>2, <3>3
      <4> QED
        BY <3>5, <3>6, <4>1, <4>2 DEF Agreed
    <3>8. \A l : SplitOk(k, th, fs, s, fb, l)
      BY <1>2, <1>3, <1>7, <3>1, <3>2, <3>6, <3>7 DEF SplitOk
    <3>9. Thought(k, th, fs, s, fb) = k /\ Answer(th, fs, s) = c
      BY <1>7, <3>1, <3>2, <3>3, Zenon DEF Thought, Answer
    <3>10. LStrip(c) \in Texts /\ Squeezed(LStrip(c)) = Squeezed(c)
      BY <3>4, SqLStrip
    <3>11. Brings(Chunk("reasoning", t), w, k, a, a)
      BY <2>4, <3>3, <3>5, ReasoningBrings
    <3>12. Brings(Chunk("content", LStrip(c)), k, k, a, c)
      <4>1. Cat(a, c) = c
        BY <2>2, <3>4, CatNone DEF Texts
      <4>2. Brings(Chunk("content", LStrip(c)), k, k, a, Cat(a, c))
        BY <2>4, <3>4, <3>6, <3>10, ContentBrings
      <4> QED
        BY <4>1, <4>2
    <3>13. Brings(fo, w, k, a, c)
      BY <3>1, <3>3, <3>11, <3>12, BringsCat
    <3>14. FedTo(k, h, text)
      <4>1. fs \in BOOLEAN
        BY <3>1
      <4> QED
        BY <1>1, <2>3, <3>8, <3>9, <3>13, <4>1, Zenon DEF FedTo
    <3> QED
      BY <3>14
  <2>11. CASE Positions(all) = {}
    <3>1. PICK d, n, m : d = HoldSuffix(all) /\ n = Len(all) - HoldSuffix(all) /\ m = n + 1
      OBVIOUS
    <3>2. fo = Chunk("reasoning", Sub(all, 1, n)) /\ fb = Sub(all, m, Len(all)) /\ fs = FALSE
      BY <1>1, <1>7, <2>2, <2>11, <3>1, FedHold
    <3>3. /\ d \in 0 .. Len(all) /\ (d = 0 /\ all # <<>> => all[Len(all)] # "t")
          /\ \A i \in 1 .. d : all[Len(all) - d + i] \in {"t", "i", "o"}
      BY <2>5, <3>1, HoldIs
    <3>4. n \in 0 .. Len(all) /\ Len(all) - n = d /\ Len(all) \in Nat
      <4>1. Len(all) \in Nat /\ d \in 0 .. Len(all) /\ n = Len(all) - d
        BY <1>2, <2>5, <3>1, <3>3, LenProperties
      <4> HIDE <3>3
      <4> QED
        BY <4>1
    <3>5. Fits(Symbols, all, 1, n) /\ Fits(Symbols, all, m, Len(all))
      BY <2>5, <3>1, <3>4 DEF Fits
    <3>6. PICK b : b = Sub(all, 1, n)
      OBVIOUS
    <3>7. b \in Texts /\ Len(b) = n /\ fb \in Texts /\ Len(fb) = d /\ IsSub(Symbols, fb, all, m, Len(all))
      <4>1. IsSub(Symbols, b, all, 1, n) /\ IsSub(Symbols, fb, all, m, Len(all))
        BY <3>2, <3>5, <3>6, SubFits
      <4> QED
        BY <3>1, <3>4, <4>1 DEF IsSub, Texts
    <3>8. all = Cat(b, fb)
      BY <2>5, <3>1, <3>2, <3>4, <3>6, CutCat
    <3>9. Positions(s) = {}
      BY <2>4, <2>5, <2>6, <2>8, <2>9, <2>11, MarkMoves
    <3>10. PICK v : v = Cat(w, b)
      OBVIOUS
    <3>11. v \in Texts /\ Len(v) = Len(w) + n
      BY <2>4, <3>7, <3>10, CatIs DEF Texts
    <3>12. s = Cat(v, fb)
      <4>1. Cat(Cat(w, b), fb) = Cat(w, Cat(b, fb))
        BY <2>4, <3>7, CatCat DEF Texts
      <4> QED
        BY <2>6, <3>8, <3>10, <4>1
    <3>13. Len(s) = Len(v) + d
      BY <3>7, <3>11, <3>12, CatIs DEF Texts
    <3>14. LetGo(s, fb) = v
      <4>1. PICK j : j = Len(s) - Len(fb)
        OBVIOUS
      <4>2. Len(v) \in Nat /\ j = Len(v)
        BY <2>4, <3>3, <3>4, <3>7, <3>11, <3>13, <4>1
      <4>3. Fits(Symbols, v, 1, j)
        BY <3>11, <4>2 DEF Fits, Texts
      <4>4. Sub(s, 1, j) = Sub(v, 1, j)
        BY <3>7, <3>12, <4>3, SubLeft DEF Texts
      <4>5. Sub(v, 1, j) = v
        BY <3>11, <4>2, SubWhole DEF Texts
      <4> QED
        BY <4>1, <4>4, <4>5 DEF LetGo
    <3>15. fb = <<>> /\ s # <<>> => s[Len(s)] # "t"
      <4> SUFFICES ASSUME fb = <<>> PROVE s[Len(s)] # "t"
        OBVIOUS
      <4>1. d = 0
        BY <3>7, EmptySeq
      <4>2. Len(text) # 0
        BY <1>2, <1>7, EmptySeq
      <4>3. Len(all) \in 1 .. Len(all) /\ all # <<>>
        BY <1>2, <2>5, <4>2, EmptySeq
      <4>4. Len(s) = Len(w) + Len(all) /\ s[Len(w) + Len(all)] = all[Len(all)]
        BY <2>4, <2>5, <2>6, <4>3, CatIs
      <4> QED
        BY <3>3, <4>1, <4>3, <4>4
    <3>16. Fits(Symbols, s, 1, Len(s) - Len(fb))
      <4>1. Len(v) \in Nat /\ Len(s) - Len(fb) = Len(v) /\ Len(v) <= Len(s)
        BY <2>4, <3>3, <3>4, <3>7, <3>11, <3>13
      <4> QED
        BY <1>3, <4>1 DEF Fits, Texts
    <3>17. \A l : SplitOk(h, th, fs, s, fb, l)
      <4>1. ASSUME NEW i \in 1 .. Len(fb) PROVE fb[i] \in {"t", "i", "o"}
        <5>1. i \in 1 .. d /\ i \in 1 .. Len(all) + 1 - m /\ m + i - 1 = Len(all) - d + i
          BY <3>1, <3>3, <3>4, <3>7, <4>1
        <5>2. fb[i] = all[m + i - 1]
          BY <3>7, <5>1 DEF IsSub
        <5> QED
          BY <3>3, <5>1, <5>2
      <4> QED
        BY <1>2, <1>3, <1>7, <3>2, <3>7, <3>9, <3>12, <3>14, <3>15, <3>16, <4>1 DEF SplitOk
    <3>18. Thought(h, th, fs, s, fb) = v /\ Answer(th, fs, s) = a
      BY <1>7, <2>2, <3>2, <3>14, Zenon DEF Thought, Answer
    <3>19. Brings(fo, w, v, a, a)
      BY <2>4, <3>2, <3>6, <3>7, <3>10, ReasoningBrings
    <3>20. FedTo(h, h, text)
      <4>1. fs \in BOOLEAN
        BY <3>2
      <4> QED
        BY <1>1, <2>3, <3>17, <3>18, <3>19, <4>1, Zenon DEF FedTo
    <3> QED
      BY <3>20
  <2> QED
    BY <2>10, <2>11
<1> QED
  BY <1>4, <1>5, <1>6, <1>7

\* The end of the lines: flush brings what had been kept.
LEMMA RestBrings ==
    ASSUME NEW h, NEW f, NEW b, NEW sp, b = f.buf, sp = f.split, sp \in BOOLEAN,
           NEW th, th \in BOOLEAN, NEW s, NEW l, SplitOk(h, th, sp, s, b, l)
    PROVE  /\ SplitOk(h, th, sp, s, <<>>, 0)
           /\ Brings(Rest(f), Thought(h, th, sp, s, b), Thought(h, th, sp, s, <<>>),
                     Answer(th, sp, s), Answer(th, sp, s))
<1>1. b = f.buf /\ sp = f.split
  OBVIOUS
<1>2. SplitOk(h, th, sp, s, b, l) /\ sp \in BOOLEAN
  OBVIOUS
<1>3. h \in Texts /\ s \in Texts /\ b \in Texts /\ Len(s) \in Nat /\ <<>> \in Texts /\ Len(<<>>) = 0
  BY <1>2, LenProperties, EmptySeq DEF SplitOk, Texts
<1>4. CASE sp
  <2>1. b = <<>>
    BY <1>2, <1>4 DEF SplitOk
  <2>2. SplitOk(h, th, sp, s, <<>>, 0)
    BY <1>2, <1>4, <2>1 DEF SplitOk
  <2>3. Rest(f) = <<>>
    BY <1>1, <1>4, <2>1, Zenon DEF Rest, Chunk
  <2> QED
    BY <1>1, <2>1, <2>2, <2>3, BringsNone
<1>5. CASE ~sp
  <2>1. th /\ Positions(s) = {} /\ s = Cat(LetGo(s, b), b) /\ TagFree(b)
    BY <1>2, <1>3, <1>5, HeldFree DEF SplitOk
  <2>2. LetGo(s, <<>>) = s
    <3>1. PICK j : j = Len(s) - Len(<<>>)
      OBVIOUS
    <3>2. j = Len(s)
      BY <1>3, <3>1
    <3>3. Sub(s, 1, j) = s
      BY <1>3, <3>2, SubWhole DEF Texts
    <3> QED
      BY <3>1, <3>3 DEF LetGo
  <2>3. Cat(s, <<>>) = s
    BY <1>3, CatNone DEF Texts
  <2>4. Fits(Symbols, s, 1, Len(s) - Len(<<>>))
    BY <1>3 DEF Fits, Texts
  <2>5. SplitOk(h, th, sp, s, <<>>, 0)
    BY <1>3, <1>5, <2>1, <2>2, <2>3, <2>4 DEF SplitOk
  <2>6. PICK w, a : w = Thought(h, th, sp, s, b) /\ a = Answer(th, sp, s)
    OBVIOUS
  <2>7. w \in Texts /\ a \in Texts
    BY <1>2, <2>6, SplitTypes
  <2>8. w = LetGo(s, b) /\ Thought(h, th, sp, s, <<>>) = s
    BY <1>5, <2>1, <2>2, <2>6, Zenon DEF Thought
  <2>9. Rest(f) = Chunk("reasoning", StripTags(b))
    BY <1>1, <1>5, Zenon DEF Rest
  <2>10. StripTags(b) \in Texts /\ Squeezed(StripTags(b)) = Squeezed(b)
    BY <1>3, <2>1, StripFree
  <2>11. Brings(Rest(f), w, Cat(w, b), a, a)
    BY <1>3, <2>7, <2>9, <2>10, ReasoningBrings
  <2> QED
    BY <1>1, <2>1, <2>5, <2>6, <2>8, <2>11
<1> QED
  BY <1>4, <1>5


-----------------------------------------------------------------------------
(* The chunks on their way, todo behind queue *)

Tl(x) == Tail(x)

\* What stands in the tail of a sequence.
LEMMA TlIs ==
    \A E, x : x \in Seq(E) /\ x # <<>> =>
       /\ Len(x) \in Nat \ {0} /\ Head(x) = x[1] /\ x[1] \in E
       /\ Tl(x) \in Seq(E) /\ Len(Tl(x)) = Len(x) - 1
       /\ \A i \in 1 .. Len(Tl(x)) : Tl(x)[i] = x[i + 1]
<1> TAKE E, x
<1> HAVE x \in Seq(E) /\ x # <<>>
<1>1. Len(x) \in Nat \ {0}
  BY EmptySeq
<1>2. Tail(x) \in Seq(E) /\ Len(Tail(x)) = Len(x) - 1 /\ \A i \in 1 .. Len(Tail(x)) : Tail(x)[i] = x[i + 1]
  BY HeadTailProperties
<1>3. Tl(x) \in Seq(E) /\ Len(Tl(x)) = Len(x) - 1 /\ \A i \in 1 .. Len(Tl(x)) : Tl(x)[i] = x[i + 1]
  BY <1>2, Zenon DEF Tl
<1>4. x[1] \in E
  BY <1>1, ElementOfSeq
<1>5. Head(x) = x[1]
  BY <1>1
<1> QED
  BY <1>1, <1>3, <1>4, <1>5

\* Taking the first of a concatenation.
LEMMA TlCat ==
    \A E, x, y : x \in Seq(E) /\ x # <<>> /\ y \in Seq(E) =>
       /\ Cat(x, y) # <<>> /\ Head(Cat(x, y)) = Head(x)
       /\ Tl(Cat(x, y)) = Cat(Tl(x), y)
<1> TAKE E, x, y
<1> HAVE x \in Seq(E) /\ x # <<>> /\ y \in Seq(E)
<1>1. PICK z, u : z = Cat(x, y) /\ u = Tl(x)
  OBVIOUS
<1>2. /\ Len(x) \in Nat \ {0} /\ Len(y) \in Nat /\ Head(x) = x[1]
      /\ u \in Seq(E) /\ Len(u) = Len(x) - 1 /\ \A i \in 1 .. Len(u) : u[i] = x[i + 1]
  BY <1>1, TlIs, LenProperties
<1>3. /\ z \in Seq(E) /\ Len(z) = Len(x) + Len(y)
      /\ \A i \in 1 .. Len(x) : z[i] = x[i]
      /\ \A i \in 1 .. Len(y) : z[Len(x) + i] = y[i]
  BY <1>1, CatIs
<1>4. z # <<>>
  <2>1. Len(z) # 0
    BY <1>2, <1>3
  <2> QED
    BY <2>1, EmptySeq
<1>5. PICK v, w : v = Tl(z) /\ w = Cat(u, y)
  OBVIOUS
<1>6. v \in Seq(E) /\ Len(v) = Len(z) - 1 /\ (\A i \in 1 .. Len(v) : v[i] = z[i + 1]) /\ Head(z) = z[1]
  BY <1>3, <1>4, <1>5, TlIs
<1>7. /\ w \in Seq(E) /\ Len(w) = Len(u) + Len(y)
      /\ \A i \in 1 .. Len(u) : w[i] = u[i]
      /\ \A i \in 1 .. Len(y) : w[Len(u) + i] = y[i]
  <2>1. u \in Seq(E) /\ y \in Seq(E)
    BY <1>2
  <2> QED
    BY <1>5, <2>1, CatIs
<1>8. Len(v) = Len(w)
  BY <1>2, <1>3, <1>6, <1>7
<1>9. ASSUME NEW i \in 1 .. Len(v) PROVE v[i] = w[i]
  <2>1. CASE i <= Len(u)
    <3>1. i \in 1 .. Len(u) /\ i + 1 \in 1 .. Len(x)
      BY <1>2, <2>1
    <3> QED
      BY <1>2, <1>3, <1>6, <1>7, <3>1
  <2>2. CASE ~(i <= Len(u))
    <3>1. PICK k : k = i - Len(u)
      OBVIOUS
    <3>2. k \in 1 .. Len(y) /\ Len(u) + k = i /\ Len(x) + k = i + 1
      BY <1>2, <1>3, <1>6, <2>2, <3>1
    <3> QED
      BY <1>3, <1>6, <1>7, <3>2
  <2> QED
    BY <2>1, <2>2
<1>10. v = w
  BY <1>6, <1>7, <1>8, <1>9, SameSeq
<1>11. Head(z) = Head(x)
  BY <1>2, <1>3, <1>6
<1> QED
  BY <1>1, <1>4, <1>5, <1>10, <1>11

\* The worker puts its first chunk into the queue: their order is the same.
LEMMA PutCat ==
    \A E, q, t : q \in Seq(E) /\ t \in Seq(E) /\ t # <<>> => Cat(App(q, Head(t)), Tl(t)) = Cat(q, t)
<1> TAKE E, q, t
<1> HAVE q \in Seq(E) /\ t \in Seq(E) /\ t # <<>>
<1>1. PICK a, u, e, v, w : a = App(q, Head(t)) /\ u = Tl(t) /\ e = Head(t) /\ v = Cat(a, u) /\ w = Cat(q, t)
  OBVIOUS
<1>2. /\ Len(t) \in Nat \ {0} /\ e = t[1] /\ e \in E
      /\ u \in Seq(E) /\ Len(u) = Len(t) - 1 /\ \A i \in 1 .. Len(u) : u[i] = t[i + 1]
  BY <1>1, TlIs
<1>3. /\ Len(q) \in Nat /\ a \in Seq(E) /\ Len(a) = Len(q) + 1
      /\ (\A i \in 1 .. Len(q) : a[i] = q[i]) /\ a[Len(q) + 1] = e
  BY <1>1, <1>2, AppIs, LenProperties
<1>4. /\ v \in Seq(E) /\ Len(v) = Len(a) + Len(u)
      /\ \A i \in 1 .. Len(a) : v[i] = a[i]
      /\ \A i \in 1 .. Len(u) : v[Len(a) + i] = u[i]
  <2>1. a \in Seq(E) /\ u \in Seq(E)
    BY <1>2, <1>3
  <2>2. v = Cat(a, u)
    BY <1>1
  <2> QED
    BY <2>1, <2>2, CatIs
<1>5. /\ w \in Seq(E) /\ Len(w) = Len(q) + Len(t)
      /\ \A i \in 1 .. Len(q) : w[i] = q[i]
      /\ \A i \in 1 .. Len(t) : w[Len(q) + i] = t[i]
  BY <1>1, CatIs
<1>6. Len(v) = Len(w)
  BY <1>2, <1>3, <1>4, <1>5
<1>7. ASSUME NEW i \in 1 .. Len(v) PROVE v[i] = w[i]
  <2>1. CASE i <= Len(q)
    <3>1. i \in 1 .. Len(q) /\ i \in 1 .. Len(a)
      BY <1>3, <2>1
    <3> QED
      BY <1>3, <1>4, <1>5, <3>1
  <2>2. CASE i = Len(q) + 1
    <3>1. i \in 1 .. Len(a) /\ 1 \in 1 .. Len(t)
      BY <1>2, <1>3, <2>2
    <3> QED
      BY <1>2, <1>3, <1>4, <1>5, <2>2, <3>1
  <2>3. CASE i > Len(q) + 1
    <3>1. PICK k, l : k = i - Len(a) /\ l = k + 1
      OBVIOUS
    <3>2. k \in 1 .. Len(u) /\ l \in 1 .. Len(t) /\ Len(a) + k = i /\ Len(q) + l = i
      BY <1>2, <1>3, <1>4, <2>3, <3>1
    <3>3. v[i] = u[k] /\ w[i] = t[l] /\ u[k] = t[l]
      BY <1>2, <1>4, <1>5, <3>1, <3>2
    <3> QED
      BY <3>3
  <2> QED
    BY <1>3, <2>1, <2>2, <2>3
<1>8. v = w
  BY <1>4, <1>5, <1>6, <1>7, SameSeq
<1> QED
  BY <1>1, <1>8

\* Beginnings of beginnings.
LEMMA BeginsTrans ==
    \A E, w, u, v : w \in Seq(E) /\ u \in Seq(E) /\ Begins(E, w, u) /\ Begins(E, u, v) => Begins(E, w, v)
<1> TAKE E, w, u, v
<1> HAVE w \in Seq(E) /\ u \in Seq(E) /\ Begins(E, w, u) /\ Begins(E, u, v)
<1>1. PICK c \in Seq(E) : v = Cat(u, c)
  BY DEF Begins
<1> QED
  BY <1>1, BeginsMore

-----------------------------------------------------------------------------
(* The splitter, the worker and the reader *)

Ends    == {"no", "stop", "error", "closed", "gone", "tool_calls", "length"}
Replies == [content : Texts, reasoning : Texts, calls : Seq(Texts), end : Ends]

\* Behind a finish chunk there is nothing more to read: the lines are over, the
\* splitter is flushed.
Finishes(Q, b, l) ==
    \A i \in 1 .. Len(Q) : Q[i].field = "finish" =>
       l = 0 /\ b = <<>> /\ \A k \in i + 1 .. Len(Q) : Q[k].field \in {"raise", "end"}

\* While the client reads, the chunks on their way lead from what it has to what
\* the splitter has let go.
Pending(h, th, sp, s, b, l, Q, g) ==
    /\ g.end = "no"
    /\ Leads(Q, "reasoning", Squeezed(g.reasoning), Squeezed(Thought(h, th, sp, s, b)))
    /\ Leads(Q, "content", Squeezed(g.content), Squeezed(Answer(th, sp, s)))
    /\ Finishes(Q, b, l)

\* Later it keeps a beginning of it, or all if it was told that the reply is whole.
Past(h, th, sp, s, b, l, g) ==
    /\ g.end \notin {"no", "tool_calls"}
    /\ Begins(Symbols, Squeezed(g.reasoning), Squeezed(Thought(h, th, sp, s, b)))
    /\ Begins(Symbols, Squeezed(g.content), Squeezed(Answer(th, sp, s)))
    /\ g.end = "stop" => /\ l = 0 /\ b = <<>>
                         /\ Squeezed(g.reasoning) = Squeezed(Thought(h, th, sp, s, b))
                         /\ Squeezed(g.content) = Squeezed(Answer(th, sp, s))

\* The inductive invariant of "agent", where h is the reasoning once it is over.
AgentWith(h) ==
    /\ req.thinking \in BOOLEAN /\ split \in BOOLEAN /\ left \in Nat
    /\ SplitOk(h, req.thinking, split, said, buf, left)
    /\ todo \in Seq(Chunks) /\ queue \in Seq(Chunks)
    /\ got \in Replies /\ got.calls = <<>>
    /\ reader = "get" => Pending(h, req.thinking, split, said, buf, left, Cat(queue, todo), got)
    /\ reader # "get" => Past(h, req.thinking, split, said, buf, left, got)

AgentOk == \E h : AgentWith(h)

\* A mark brings nothing.
LEMMA MarkLeads ==
    ASSUME NEW name \in {"finish", "raise", "end"}
    PROVE  /\ Mark(name) \in Seq(Chunks) /\ Len(Mark(name)) = 1 /\ Mark(name)[1].field = name
           /\ \A w : Leads(Mark(name), "content", w, w) /\ Leads(Mark(name), "reasoning", w, w)
<1>1. PICK c : c = [field |-> name, text |-> <<>>]
  OBVIOUS
<1>2. c \in Chunks /\ c.field = name
  <2>1. <<>> \in Texts
    BY EmptySeq DEF Texts
  <2> QED
    BY <1>1, <2>1 DEF Chunks, Fields
<1>3. Mark(name) = <<c>>
  BY <1>1, Zenon DEF Mark
<1>4. <<c>> \in Seq(Chunks) /\ Len(<<c>>) = 1 /\ <<c>>[1] = c
  BY <1>2
<1>5. \A field, w : Leads(<<c>>, field, w, IF c.field = field THEN Cat(w, Squeezed(c.text)) ELSE w)
  BY LeadsOne
<1>6. \A w : Leads(<<c>>, "content", w, w) /\ Leads(<<c>>, "reasoning", w, w)
  BY <1>2, <1>5
<1> QED
  BY <1>2, <1>3, <1>4, <1>6

\* Behind chunks none of which is a finish.
LEMMA FinishesNew ==
    ASSUME NEW Q \in Seq(Chunks), NEW R \in Seq(Chunks), NEW b, NEW l,
           \A i \in 1 .. Len(Q) : Q[i].field # "finish", Finishes(R, b, l)
    PROVE  Finishes(Cat(Q, R), b, l)
<1>1. PICK Z : Z = Cat(Q, R)
  OBVIOUS
<1>2. /\ Z \in Seq(Chunks) /\ Len(Z) = Len(Q) + Len(R)
      /\ \A i \in 1 .. Len(Q) : Z[i] = Q[i]
      /\ \A i \in 1 .. Len(R) : Z[Len(Q) + i] = R[i]
  BY <1>1, CatIs
<1>3. Len(Q) \in Nat /\ Len(R) \in Nat
  BY LenProperties
<1>4. ASSUME NEW i \in 1 .. Len(Z), Z[i].field = "finish"
      PROVE  l = 0 /\ b = <<>> /\ \A k \in i + 1 .. Len(Z) : Z[k].field \in {"raise", "end"}
  <2>1. ~(i \in 1 .. Len(Q))
    BY <1>2, <1>4
  <2>2. PICK j : j = i - Len(Q)
    OBVIOUS
  <2>3. j \in 1 .. Len(R) /\ Len(Q) + j = i
    BY <1>2, <1>3, <2>1, <2>2
  <2>4. Z[i] = R[j]
    BY <1>2, <2>3
  <2>5. l = 0 /\ b = <<>> /\ \A k \in j + 1 .. Len(R) : R[k].field \in {"raise", "end"}
    BY <1>4, <2>3, <2>4 DEF Finishes
  <2>6. ASSUME NEW k \in i + 1 .. Len(Z) PROVE Z[k].field \in {"raise", "end"}
    <3>1. PICK m : m = k - Len(Q)
      OBVIOUS
    <3>2. m \in j + 1 .. Len(R) /\ m \in 1 .. Len(R) /\ Len(Q) + m = k
      BY <1>2, <1>3, <2>3, <3>1
    <3>3. Z[k] = R[m]
      BY <1>2, <3>2
    <3> QED
      BY <2>5, <3>2, <3>3
  <2> QED
    BY <2>5, <2>6
<1> QED
  BY <1>1, <1>4 DEF Finishes

\* Behind any chunks, the marks of an end.
LEMMA FinishesEnd ==
    ASSUME NEW Q \in Seq(Chunks), NEW R \in Seq(Chunks), NEW b, NEW l, Finishes(Q, b, l),
           \A i \in 1 .. Len(R) : R[i].field \in {"raise", "end"}
    PROVE  Finishes(Cat(Q, R), b, l)
<1>1. PICK Z : Z = Cat(Q, R)
  OBVIOUS
<1>2. /\ Z \in Seq(Chunks) /\ Len(Z) = Len(Q) + Len(R)
      /\ \A i \in 1 .. Len(Q) : Z[i] = Q[i]
      /\ \A i \in 1 .. Len(R) : Z[Len(Q) + i] = R[i]
  BY <1>1, CatIs
<1>3. Len(Q) \in Nat /\ Len(R) \in Nat
  BY LenProperties
<1>4. ASSUME NEW k \in 1 .. Len(Z), ~(k \in 1 .. Len(Q)) PROVE Z[k].field \in {"raise", "end"}
  <2>1. PICK m : m = k - Len(Q)
    OBVIOUS
  <2>2. m \in 1 .. Len(R) /\ Len(Q) + m = k
    BY <1>2, <1>3, <1>4, <2>1
  <2>3. Z[k] = R[m]
    BY <1>2, <2>2
  <2> QED
    BY <2>2, <2>3
<1>5. ASSUME NEW i \in 1 .. Len(Z), Z[i].field = "finish"
      PROVE  l = 0 /\ b = <<>> /\ \A k \in i + 1 .. Len(Z) : Z[k].field \in {"raise", "end"}
  <2>1. i \in 1 .. Len(Q)
    BY <1>4, <1>5
  <2>2. Q[i].field = "finish"
    BY <1>2, <1>5, <2>1
  <2>3. l = 0 /\ b = <<>> /\ \A k \in i + 1 .. Len(Q) : Q[k].field \in {"raise", "end"}
    BY <2>1, <2>2 DEF Finishes
  <2>4. ASSUME NEW k \in i + 1 .. Len(Z) PROVE Z[k].field \in {"raise", "end"}
    <3>1. k \in 1 .. Len(Z)
      BY <1>2, <1>3
    <3>2. CASE k \in 1 .. Len(Q)
      <4>1. k \in i + 1 .. Len(Q) /\ Z[k] = Q[k]
        BY <1>2, <3>2
      <4> QED
        BY <2>3, <4>1
    <3>3. CASE ~(k \in 1 .. Len(Q))
      BY <1>4, <3>1, <3>3
    <3> QED
      BY <3>2, <3>3
  <2> QED
    BY <2>3, <2>4
<1> QED
  BY <1>1, <1>5 DEF Finishes

\* When the first one is taken.
LEMMA FinishesTl ==
    ASSUME NEW Q \in Seq(Chunks), Q # <<>>, NEW b, NEW l, Finishes(Q, b, l)
    PROVE  Finishes(Tl(Q), b, l)
<1>1. PICK R : R = Tl(Q)
  OBVIOUS
<1>2. /\ Len(Q) \in Nat \ {0} /\ R \in Seq(Chunks) /\ Len(R) = Len(Q) - 1
      /\ \A i \in 1 .. Len(R) : R[i] = Q[i + 1]
  BY <1>1, TlIs
<1>3. ASSUME NEW i \in 1 .. Len(R), R[i].field = "finish"
      PROVE  l = 0 /\ b = <<>> /\ \A k \in i + 1 .. Len(R) : R[k].field \in {"raise", "end"}
  <2>1. PICK j : j = i + 1
    OBVIOUS
  <2>2. j \in 1 .. Len(Q) /\ Q[j].field = "finish"
    BY <1>2, <1>3, <2>1
  <2>3. l = 0 /\ b = <<>> /\ \A k \in j + 1 .. Len(Q) : Q[k].field \in {"raise", "end"}
    BY <2>2 DEF Finishes
  <2>4. ASSUME NEW k \in i + 1 .. Len(R) PROVE R[k].field \in {"raise", "end"}
    <3>1. PICK m : m = k + 1
      OBVIOUS
    <3>2. m \in j + 1 .. Len(Q) /\ k \in 1 .. Len(R)
      BY <1>2, <2>1, <3>1
    <3>3. R[k] = Q[m]
      BY <1>2, <3>1, <3>2
    <3> QED
      BY <2>3, <3>2, <3>3
  <2> QED
    BY <2>3, <2>4
<1> QED
  BY <1>1, <1>3 DEF Finishes

\* What a line adds, and what it makes of the splitter.
Lined(k, h, s, b, sp, l, R) ==
    /\ SplitOk(k, req.thinking, sp, s, b, l) /\ sp \in BOOLEAN /\ l \in Nat
    /\ R \in Seq(Chunks) /\ Finishes(R, b, l)
    /\ Leads(R, "reasoning", Squeezed(Thought(h, req.thinking, split, said, buf)),
             Squeezed(Thought(k, req.thinking, sp, s, b)))
    /\ Leads(R, "content", Squeezed(Answer(req.thinking, split, said)),
             Squeezed(Answer(req.thinking, sp, s)))

LEMMA LineBrings ==
    ASSUME NEW h, AgentWith(h), NEW text \in Texts, NEW finish \in BOOLEAN, left > 0,
           NEW s, NEW b, NEW sp, NEW l, NEW R,
           s = Cat(said, text), sp = Fed(text).split,
           b = IF finish THEN <<>> ELSE Fed(text).buf,
           l = IF finish THEN 0 ELSE left - 1,
           R = Cat(Fed(text).out, IF finish THEN Cat(Rest(Fed(text)), Mark("finish")) ELSE <<>>)
    PROVE  \E k : Lined(k, h, s, b, sp, l, R)
<1>1. /\ req.thinking \in BOOLEAN /\ split \in BOOLEAN /\ left \in Nat /\ left # 0
      /\ SplitOk(h, req.thinking, split, said, buf, left)
  BY DEF AgentWith
<1>2. PICK f, th : f = Fed(text) /\ th = req.thinking
  OBVIOUS
<1>3. PICK w, a : w = Thought(h, th, split, said, buf) /\ a = Answer(th, split, said)
  OBVIOUS
<1>4. PICK k : FedTo(k, h, text)
  BY <1>1, FedBrings
<1>5. PICK v, c :
      /\ v = Thought(k, th, sp, s, f.buf) /\ c = Answer(th, sp, s)
      /\ sp \in BOOLEAN
      /\ \A n : SplitOk(k, th, sp, s, f.buf, n)
      /\ Brings(f.out, w, v, a, c)
  BY <1>2, <1>3, <1>4 DEF FedTo
<1>6. f.out \in Seq(Chunks) /\ Len(f.out) \in Nat
  BY <1>5, LenProperties DEF Brings
<1>7. CASE ~finish
  <2>1. b = f.buf /\ l = left - 1 /\ R = f.out
    BY <1>2, <1>6, <1>7, CatNone
  <2>2. Finishes(R, b, l)
    BY <1>5, <2>1 DEF Brings, Finishes
  <2> QED
    BY <1>1, <1>2, <1>3, <1>5, <1>6, <2>1, <2>2 DEF Brings, Lined
<1>8. CASE finish
  <2>1. PICK r, m : r = Rest(f) /\ m = Mark("finish")
    OBVIOUS
  <2>2. b = <<>> /\ l = 0 /\ R = Cat(f.out, Cat(r, m))
    BY <1>2, <1>8, <2>1
  <2>3. PICK u : u = Thought(k, th, sp, s, <<>>)
    OBVIOUS
  <2>4. SplitOk(k, th, sp, s, <<>>, 0) /\ Brings(r, v, u, c, c)
    <3>1. PICK x : x = f.buf
      OBVIOUS
    <3>2. SplitOk(k, th, sp, s, x, 0) /\ sp \in BOOLEAN /\ th \in BOOLEAN /\ sp = f.split
      BY <1>1, <1>2, <1>5, <3>1
    <3>3. /\ SplitOk(k, th, sp, s, <<>>, 0)
          /\ Brings(Rest(f), Thought(k, th, sp, s, x), Thought(k, th, sp, s, <<>>),
                    Answer(th, sp, s), Answer(th, sp, s))
      BY <3>1, <3>2, RestBrings
    <3>4. Thought(k, th, sp, s, x) = v /\ Answer(th, sp, s) = c
      BY <1>5, <3>1, Zenon
    <3> QED
      BY <2>1, <2>3, <3>3, <3>4, Zenon
  <2>5. PICK Q : Q = Cat(f.out, r)
    OBVIOUS
  <2>6. Brings(Q, w, u, a, c)
    BY <1>5, <2>4, <2>5, BringsCat
  <2>7. r \in Seq(Chunks) /\ Q \in Seq(Chunks)
    BY <2>4, <2>6 DEF Brings
  <2>8. /\ m \in Seq(Chunks) /\ Len(m) = 1 /\ m[1].field = "finish"
        /\ Leads(m, "content", Squeezed(c), Squeezed(c))
        /\ Leads(m, "reasoning", Squeezed(u), Squeezed(u))
    BY <2>1, MarkLeads
  <2>9. R = Cat(Q, m)
    BY <1>6, <2>2, <2>5, <2>7, <2>8, CatCat
  <2>10. R \in Seq(Chunks)
    BY <2>7, <2>8, <2>9, CatIs
  <2>11. Leads(R, "reasoning", Squeezed(w), Squeezed(u)) /\ Leads(R, "content", Squeezed(a), Squeezed(c))
    <3>1. Leads(Q, "reasoning", Squeezed(w), Squeezed(u)) /\ Leads(Q, "content", Squeezed(a), Squeezed(c))
      BY <2>6 DEF Brings
    <3> QED
      BY <2>7, <2>8, <2>9, <3>1, LeadsCat
  <2>12. Finishes(R, b, l)
    <3>1. \A i \in 1 .. Len(Q) : Q[i].field # "finish"
      BY <2>6 DEF Brings
    <3>2. Finishes(m, b, l)
      BY <2>2, <2>8 DEF Finishes
    <3> QED
      BY <2>7, <2>8, <2>9, <3>1, <3>2, FinishesNew
  <2> QED
    BY <1>2, <1>3, <1>5, <2>2, <2>3, <2>4, <2>10, <2>11, <2>12 DEF Lined
<1> QED
  BY <1>7, <1>8

\* Every action of the worker and of the reader keeps the invariant.
LEMMA LineOk ==
    ASSUME NEW h, AgentWith(h), NEW text \in Texts, NEW finish \in BOOLEAN, Line(text, finish)
    PROVE  \E k : AgentWith(k)'
<1>1. /\ req.thinking \in BOOLEAN /\ split \in BOOLEAN /\ left \in Nat
      /\ SplitOk(h, req.thinking, split, said, buf, left)
      /\ todo \in Seq(Chunks) /\ queue \in Seq(Chunks)
      /\ got \in Replies /\ got.calls = <<>>
      /\ reader = "get" => Pending(h, req.thinking, split, said, buf, left, Cat(queue, todo), got)
      /\ reader # "get" => Past(h, req.thinking, split, said, buf, left, got)
  BY DEF AgentWith
<1>2. /\ todo = <<>> /\ left > 0
      /\ said' = Cat(said, text) /\ split' = Fed(text).split
      /\ buf' = IF finish THEN <<>> ELSE Fed(text).buf
      /\ todo' = Cat(Fed(text).out, IF finish THEN Cat(Rest(Fed(text)), Mark("finish")) ELSE <<>>)
      /\ left' = IF finish THEN 0 ELSE left - 1
      /\ req' = req /\ queue' = queue /\ reader' = reader /\ got' = got
  BY Zenon DEF Line, Asks, Cat
<1>3. PICK th, w, a : th = req.thinking /\ w = Thought(h, th, split, said, buf) /\ a = Answer(th, split, said)
  OBVIOUS
<1>4. PICK s, b, sp, l, R : s = said' /\ b = buf' /\ sp = split' /\ l = left' /\ R = todo'
  OBVIOUS
<1>5. PICK k, v, c :
      /\ v = Thought(k, th, sp, s, b) /\ c = Answer(th, sp, s)
      /\ SplitOk(k, th, sp, s, b, l) /\ sp \in BOOLEAN /\ l \in Nat
      /\ R \in Seq(Chunks) /\ Finishes(R, b, l)
      /\ Leads(R, "reasoning", Squeezed(w), Squeezed(v)) /\ Leads(R, "content", Squeezed(a), Squeezed(c))
  BY <1>2, <1>3, <1>4, LineBrings DEF Lined
<1>6. ASSUME reader = "get" PROVE Pending(k, th, sp, s, b, l, Cat(queue, R), got)
  <2>1. Cat(queue, todo) = queue
    BY <1>1, <1>2, CatNone
  <2>2. /\ got.end = "no" /\ Finishes(queue, buf, left)
        /\ Leads(queue, "reasoning", Squeezed(got.reasoning), Squeezed(w))
        /\ Leads(queue, "content", Squeezed(got.content), Squeezed(a))
    BY <1>1, <1>3, <1>6, <2>1 DEF Pending
  <2>3. \A i \in 1 .. Len(queue) : queue[i].field # "finish"
    BY <1>1, <1>2, <2>2 DEF Finishes
  <2>4. Finishes(Cat(queue, R), b, l)
    BY <1>1, <1>5, <2>3, FinishesNew
  <2>5. /\ Leads(Cat(queue, R), "reasoning", Squeezed(got.reasoning), Squeezed(v))
        /\ Leads(Cat(queue, R), "content", Squeezed(got.content), Squeezed(c))
    BY <1>1, <1>5, <2>2, LeadsCat
  <2> QED
    BY <1>5, <2>2, <2>4, <2>5 DEF Pending
<1>7. ASSUME reader # "get" PROVE Past(k, th, sp, s, b, l, got)
  <2>1. /\ got.end \notin {"no", "tool_calls"} /\ got.end # "stop"
        /\ Begins(Symbols, Squeezed(got.reasoning), Squeezed(w))
        /\ Begins(Symbols, Squeezed(got.content), Squeezed(a))
    BY <1>1, <1>2, <1>3, <1>7 DEF Past
  <2>2. w \in Texts /\ a \in Texts
    BY <1>1, <1>3, SplitTypes
  <2>3. Squeezed(w) \in Texts /\ Squeezed(a) \in Texts
    BY <2>2, SqType
  <2>4. Begins(Symbols, Squeezed(w), Squeezed(v)) /\ Begins(Symbols, Squeezed(a), Squeezed(c))
    BY <1>5, <2>3, LeadsBegins
  <2>5. Squeezed(got.reasoning) \in Texts /\ Squeezed(got.content) \in Texts
    BY <1>1, SqType DEF Replies
  <2>6. Begins(Symbols, Squeezed(got.reasoning), Squeezed(v)) /\ Begins(Symbols, Squeezed(got.content), Squeezed(c))
    BY <2>1, <2>3, <2>4, <2>5, BeginsTrans DEF Texts
  <2> QED
    BY <1>5, <2>1, <2>6 DEF Past
<1>8. AgentWith(k)'
  BY <1>1, <1>2, <1>3, <1>4, <1>5, <1>6, <1>7 DEF AgentWith
<1> QED
  BY <1>8

\* The end of the lines, or a line that says "error".
LEMMA LastLineOk ==
    ASSUME NEW h, AgentWith(h), LastLine
    PROVE  AgentWith(h)'
<1>1. /\ todo \in Seq(Chunks) /\ queue \in Seq(Chunks)
      /\ reader = "get" => Pending(h, req.thinking, split, said, buf, left, Cat(queue, todo), got)
  BY DEF AgentWith
<1>2. /\ todo = <<>>
      /\ todo' = Mark("end") \/ todo' = Cat(Mark("raise"), Mark("end"))
      /\ UNCHANGED <<req, left, said, buf, split, queue, reader, got>>
  BY Zenon DEF LastLine, Asks, Cat, parser
<1>3. PICK R : R = todo'
  OBVIOUS
<1>4. /\ R \in Seq(Chunks)
      /\ \A i \in 1 .. Len(R) : R[i].field \in {"raise", "end"}
      /\ \A w : Leads(R, "content", w, w) /\ Leads(R, "reasoning", w, w)
  <2>1. PICK m, n : m = Mark("raise") /\ n = Mark("end")
    OBVIOUS
  <2>2. /\ m \in Seq(Chunks) /\ Len(m) = 1 /\ m[1].field = "raise"
        /\ \A w : Leads(m, "content", w, w) /\ Leads(m, "reasoning", w, w)
    BY <2>1, MarkLeads
  <2>3. /\ n \in Seq(Chunks) /\ Len(n) = 1 /\ n[1].field = "end"
        /\ \A w : Leads(n, "content", w, w) /\ Leads(n, "reasoning", w, w)
    BY <2>1, MarkLeads
  <2>4. CASE R = n
    <3>1. \A i \in 1 .. Len(n) : n[i].field = "end"
      BY <2>3
    <3> QED
      BY <2>3, <2>4, <3>1
  <2>5. CASE R = Cat(m, n)
    <3>1. R \in Seq(Chunks) /\ Len(R) = 2 /\ R[1] = m[1] /\ R[2] = n[1]
      <4>1. /\ R \in Seq(Chunks) /\ Len(R) = Len(m) + Len(n)
            /\ \A i \in 1 .. Len(m) : R[i] = m[i]
            /\ \A i \in 1 .. Len(n) : R[Len(m) + i] = n[i]
        <5>1. m \in Seq(Chunks) /\ n \in Seq(Chunks)
          BY <2>2, <2>3
        <5> QED
          BY <2>5, <5>1, CatIs
      <4>2. 1 \in 1 .. Len(m) /\ 1 \in 1 .. Len(n) /\ Len(m) + 1 = 2
        BY <2>2, <2>3
      <4> QED
        BY <2>2, <2>3, <4>1, <4>2
    <3>2. \A w : Leads(R, "content", w, w) /\ Leads(R, "reasoning", w, w)
      BY <2>2, <2>3, <2>5, LeadsCat
    <3> QED
      BY <2>2, <2>3, <3>1, <3>2
  <2> QED
    BY <1>2, <1>3, <2>1, <2>4, <2>5
<1>5. ASSUME reader = "get" PROVE Pending(h, req.thinking, split, said, buf, left, Cat(queue, R), got)
  <2>1. Cat(queue, todo) = queue
    <3>1. queue \in Seq(Chunks) /\ todo = <<>>
      BY <1>1, <1>2
    <3> QED
      BY <3>1, CatNone
  <2>2. PICK w, a : w = Thought(h, req.thinking, split, said, buf) /\ a = Answer(req.thinking, split, said)
    OBVIOUS
  <2>3. /\ got.end = "no" /\ Finishes(queue, buf, left)
        /\ Leads(queue, "reasoning", Squeezed(got.reasoning), Squeezed(w))
        /\ Leads(queue, "content", Squeezed(got.content), Squeezed(a))
    BY <1>1, <1>5, <2>1, <2>2 DEF Pending
  <2>4. Finishes(Cat(queue, R), buf, left)
    BY <1>1, <1>4, <2>3, FinishesEnd
  <2>5. /\ Leads(Cat(queue, R), "reasoning", Squeezed(got.reasoning), Squeezed(w))
        /\ Leads(Cat(queue, R), "content", Squeezed(got.content), Squeezed(a))
    <3>1. Leads(R, "reasoning", Squeezed(w), Squeezed(w)) /\ Leads(R, "content", Squeezed(a), Squeezed(a))
      BY <1>4
    <3> QED
      BY <1>1, <1>4, <2>3, <3>1, LeadsCat
  <2> QED
    BY <2>2, <2>3, <2>4, <2>5 DEF Pending
<1> QED
  BY <1>2, <1>3, <1>4, <1>5 DEF AgentWith

\* The worker waits for a place in the queue, has it, or does without.
LEMMA PutOk ==
    ASSUME NEW h, AgentWith(h), Put
    PROVE  AgentWith(h)'
<1>1. /\ todo \in Seq(Chunks) /\ queue \in Seq(Chunks)
  BY DEF AgentWith
<1>2. /\ todo # <<>> /\ queue' = App(queue, Head(todo)) /\ todo' = Tl(todo)
      /\ UNCHANGED <<req, left, said, buf, split, reader, got>>
  BY Zenon DEF Put, Popped, App, Tl, parser
<1>3. Cat(queue', todo') = Cat(queue, todo)
  BY <1>1, <1>2, PutCat
<1>4. todo' \in Seq(Chunks) /\ queue' \in Seq(Chunks)
  BY <1>1, <1>2, TlIs, AppIs
<1> QED
  BY <1>2, <1>3, <1>4 DEF AgentWith

\* A chunk is dropped, or the generator closed: the client is gone already.
LEMMA DropOk ==
    ASSUME NEW h, AgentWith(h), Drop \/ Break
    PROVE  AgentWith(h)'
<1>1. todo \in Seq(Chunks)
  BY DEF AgentWith
<1>2. /\ reader # "get" /\ todo # <<>>
      /\ todo' = Tl(todo) \/ todo' = Mark("end")
      /\ UNCHANGED <<req, left, said, buf, split, queue, reader, got>>
  BY Zenon DEF Drop, Break, GivesUp, Cancelled, Popped, Tl, parser
<1>3. todo' \in Seq(Chunks)
  BY <1>1, <1>2, TlIs, MarkLeads
<1> QED
  BY <1>2, <1>3 DEF AgentWith

\* The reader takes a chunk.
LEMMA GetOk ==
    ASSUME NEW h, AgentWith(h), Get
    PROVE  AgentWith(h)'
<1>1. /\ req.thinking \in BOOLEAN /\ split \in BOOLEAN /\ left \in Nat
      /\ SplitOk(h, req.thinking, split, said, buf, left)
      /\ todo \in Seq(Chunks) /\ queue \in Seq(Chunks)
      /\ got \in Replies /\ got.calls = <<>>
      /\ reader = "get" => Pending(h, req.thinking, split, said, buf, left, Cat(queue, todo), got)
  BY DEF AgentWith
<1>2. /\ reader = "get" /\ queue # <<>> /\ queue' = Tl(queue) /\ got' = Delivered(Head(queue))
      /\ reader' = IF got'.end = "no" THEN "get" ELSE "closing"
      /\ UNCHANGED <<req, left, said, buf, split, todo>>
  BY Zenon DEF Get, Tl, parser
<1>3. PICK Q, R, c : Q = Cat(queue, todo) /\ R = Cat(queue', todo) /\ c = Head(queue)
  OBVIOUS
<1>4. Q \in Seq(Chunks) /\ Q # <<>> /\ Head(Q) = c /\ R = Tl(Q) /\ c \in Chunks
  <2>1. Q \in Seq(Chunks)
    BY <1>1, <1>3, CatIs
  <2>2. Q # <<>> /\ Head(Q) = c /\ R = Tl(Q)
    BY <1>1, <1>2, <1>3, TlCat
  <2>3. c \in Chunks
    BY <1>1, <1>2, <1>3, TlIs
  <2> QED
    BY <2>1, <2>2, <2>3
<1>5. R \in Seq(Chunks) /\ queue' \in Seq(Chunks)
  BY <1>1, <1>2, <1>4, TlIs
<1>6. c.field \in Fields /\ c.text \in Texts
  BY <1>4 DEF Chunks
<1>7. PICK w, a : w = Thought(h, req.thinking, split, said, buf) /\ a = Answer(req.thinking, split, said)
  OBVIOUS
<1>8. /\ got.end = "no" /\ Finishes(Q, buf, left)
      /\ Leads(Q, "reasoning", Squeezed(got.reasoning), Squeezed(w))
      /\ Leads(Q, "content", Squeezed(got.content), Squeezed(a))
  BY <1>1, <1>2, <1>3, <1>7 DEF Pending
<1>9. Finishes(R, buf, left)
  BY <1>4, <1>8, FinishesTl
<1>10. /\ Leads(R, "reasoning", IF c.field = "reasoning" THEN Cat(Squeezed(got.reasoning), Squeezed(c.text))
                                ELSE Squeezed(got.reasoning), Squeezed(w))
       /\ Leads(R, "content", IF c.field = "content" THEN Cat(Squeezed(got.content), Squeezed(c.text))
                              ELSE Squeezed(got.content), Squeezed(a))
  <2>1. R = Tail(Q)
    BY <1>4, Zenon DEF Tl
  <2> QED
    BY <1>4, <1>8, <2>1, LeadsTail
<1>11. got.content \in Texts /\ got.reasoning \in Texts
  BY <1>1 DEF Replies
<1>12. CASE c.field = "content"
  <2>1. PICK t : t = Cat(got.content, c.text)
    OBVIOUS
  <2>2. got' = [got EXCEPT !.content = t]
    BY <1>2, <1>3, <1>12, <2>1, Zenon DEF Delivered, Cat
  <2>3. t \in Texts /\ Squeezed(t) = Cat(Squeezed(got.content), Squeezed(c.text))
    BY <1>6, <1>11, <2>1, CatIs, SqCat DEF Texts
  <2>4. /\ got' \in Replies /\ got'.content = t /\ got'.reasoning = got.reasoning
        /\ got'.calls = <<>> /\ got'.end = "no"
    BY <1>1, <1>8, <2>2, <2>3 DEF Replies
  <2>5. Pending(h, req.thinking, split, said, buf, left, R, got')
    BY <1>7, <1>9, <1>10, <1>12, <2>3, <2>4 DEF Pending
  <2> QED
    BY <1>1, <1>2, <1>3, <1>5, <2>4, <2>5 DEF AgentWith
<1>13. CASE c.field = "reasoning"
  <2>1. PICK t : t = Cat(got.reasoning, c.text)
    OBVIOUS
  <2>2. got' = [got EXCEPT !.reasoning = t]
    BY <1>2, <1>3, <1>13, <2>1, Zenon DEF Delivered, Cat
  <2>3. t \in Texts /\ Squeezed(t) = Cat(Squeezed(got.reasoning), Squeezed(c.text))
    BY <1>6, <1>11, <2>1, CatIs, SqCat DEF Texts
  <2>4. /\ got' \in Replies /\ got'.reasoning = t /\ got'.content = got.content
        /\ got'.calls = <<>> /\ got'.end = "no"
    BY <1>1, <1>8, <2>2, <2>3 DEF Replies
  <2>5. Pending(h, req.thinking, split, said, buf, left, R, got')
    BY <1>7, <1>9, <1>10, <1>13, <2>3, <2>4 DEF Pending
  <2> QED
    BY <1>1, <1>2, <1>3, <1>5, <2>4, <2>5 DEF AgentWith
<1>14. CASE c.field \in {"finish", "raise", "end"}
  <2>1. /\ Leads(R, "reasoning", Squeezed(got.reasoning), Squeezed(w))
        /\ Leads(R, "content", Squeezed(got.content), Squeezed(a))
    BY <1>10, <1>14
  <2>2. Squeezed(got.reasoning) \in Texts /\ Squeezed(got.content) \in Texts
    BY <1>11, SqType
  <2>3. Begins(Symbols, Squeezed(got.reasoning), Squeezed(w)) /\ Begins(Symbols, Squeezed(got.content), Squeezed(a))
    BY <1>5, <2>1, <2>2, LeadsBegins
  <2>4. PICK e : e = IF c.field = "finish" THEN "stop" ELSE IF c.field = "raise" THEN "error" ELSE "closed"
    OBVIOUS
  <2>5. got' = [got EXCEPT !.end = e]
    BY <1>2, <1>3, <1>14, <2>4, Zenon DEF Delivered
  <2>6. e \in Ends /\ e \notin {"no", "tool_calls"} /\ (e = "stop" => c.field = "finish")
    BY <1>14, <2>4 DEF Ends
  <2>7. /\ got' \in Replies /\ got'.reasoning = got.reasoning /\ got'.content = got.content
        /\ got'.calls = <<>> /\ got'.end = e
    BY <1>1, <2>5, <2>6 DEF Replies
  <2>8. ASSUME c.field = "finish"
        PROVE  left = 0 /\ buf = <<>> /\ Squeezed(got.reasoning) = Squeezed(w) /\ Squeezed(got.content) = Squeezed(a)
    <3>1. Len(Q) \in Nat \ {0} /\ Q[1] = c /\ Len(R) = Len(Q) - 1 /\ \A i \in 1 .. Len(R) : R[i] = Q[i + 1]
      BY <1>4, TlIs
    <3>2. left = 0 /\ buf = <<>> /\ \A k \in 1 + 1 .. Len(Q) : Q[k].field \in {"raise", "end"}
      BY <1>8, <2>8, <3>1 DEF Finishes
    <3>3. ASSUME NEW i \in 1 .. Len(R) PROVE R[i].field \in {"raise", "end"}
      <4>1. i + 1 \in 1 + 1 .. Len(Q)
        BY <3>1
      <4> QED
        BY <3>1, <3>2, <4>1
    <3>4. /\ \A i \in 1 .. Len(R) : R[i].field # "reasoning"
          /\ \A i \in 1 .. Len(R) : R[i].field # "content"
      BY <3>3
    <3>5. Squeezed(w) = Squeezed(got.reasoning)
      BY <1>5, <2>1, <3>4, LeadsQuiet
    <3>6. Squeezed(a) = Squeezed(got.content)
      BY <1>5, <2>1, <3>4, LeadsQuiet
    <3> QED
      BY <3>2, <3>5, <3>6
  <2>9. Past(h, req.thinking, split, said, buf, left, got')
    BY <1>7, <2>3, <2>6, <2>7, <2>8 DEF Past
  <2>10. reader' = "closing"
    BY <1>2, <2>6, <2>7
  <2> QED
    BY <1>1, <1>2, <1>5, <2>7, <2>9, <2>10 DEF AgentWith
<1> QED
  BY <1>6, <1>12, <1>13, <1>14 DEF Fields

\* The client goes, or the generator is closed.
LEMMA ClosedOk ==
    ASSUME NEW h, AgentWith(h), Disconnect \/ Drain \/ Join
    PROVE  AgentWith(h)'
<1>1. /\ SplitOk(h, req.thinking, split, said, buf, left)
      /\ todo \in Seq(Chunks) /\ queue \in Seq(Chunks)
      /\ got \in Replies /\ got.calls = <<>>
      /\ reader = "get" => Pending(h, req.thinking, split, said, buf, left, Cat(queue, todo), got)
  BY DEF AgentWith
<1>2. CASE Disconnect
  <2>1. /\ reader = "get" /\ reader' = "closing" /\ got' = [got EXCEPT !.end = "gone"]
        /\ UNCHANGED <<req, left, said, buf, split, todo, queue>>
    BY <1>2, Zenon DEF Disconnect, parser
  <2>2. PICK Q, w, a : /\ Q = Cat(queue, todo)
                       /\ w = Thought(h, req.thinking, split, said, buf) /\ a = Answer(req.thinking, split, said)
    OBVIOUS
  <2>3. Q \in Seq(Chunks)
    BY <1>1, <2>2, CatIs
  <2>4. got.content \in Texts /\ got.reasoning \in Texts
    BY <1>1 DEF Replies
  <2>5. /\ Leads(Q, "reasoning", Squeezed(got.reasoning), Squeezed(w))
        /\ Leads(Q, "content", Squeezed(got.content), Squeezed(a))
    BY <1>1, <2>1, <2>2 DEF Pending
  <2>6. Squeezed(got.reasoning) \in Texts /\ Squeezed(got.content) \in Texts
    BY <2>4, SqType
  <2>7. Begins(Symbols, Squeezed(got.reasoning), Squeezed(w)) /\ Begins(Symbols, Squeezed(got.content), Squeezed(a))
    BY <2>3, <2>5, <2>6, LeadsBegins
  <2>8. /\ got' \in Replies /\ got'.reasoning = got.reasoning /\ got'.content = got.content
        /\ got'.calls = <<>> /\ got'.end = "gone"
    BY <1>1, <2>1 DEF Replies, Ends
  <2>9. Past(h, req.thinking, split, said, buf, left, got')
    BY <2>2, <2>7, <2>8 DEF Past
  <2> QED
    BY <2>1, <2>8, <2>9 DEF AgentWith
<1>3. CASE Drain \/ Join
  <2>1. /\ reader # "get" /\ reader' # "get"
        /\ queue' = queue \/ queue' = <<>>
        /\ UNCHANGED <<req, left, said, buf, split, todo, got>>
    BY <1>3 DEF Drain, Join, parser
  <2>2. queue' \in Seq(Chunks)
    BY <1>1, <2>1, EmptySeq
  <2> QED
    BY <2>1, <2>2 DEF AgentWith
<1> QED
  BY <1>2, <1>3

\* At the start nothing has been said.
LEMMA AgentInit ==
    ASSUME Init, model = "agent"
    PROVE  AgentOk
<1>1. /\ req \in {Parsed(body) : body \in Bodies} /\ left = MaxLines /\ said = <<>> /\ buf = <<>>
      /\ split = ~req.thinking /\ todo = <<>> /\ queue = <<>> /\ reader = "get"
      /\ got = [content |-> <<>>, reasoning |-> <<>>, calls |-> <<>>, end |-> "no"]
  BY DEF Init
<1>2. PICK th, e, h : th = req.thinking /\ e = <<>> /\ h = e
  OBVIOUS
<1>3. th \in BOOLEAN
  <2>1. PICK body \in Bodies : req = Parsed(body)
    BY <1>1
  <2>2. EnableThinking(body) \in BOOLEAN
    BY DEF EnableThinking
  <2>3. req.thinking = EnableThinking(body)
    BY <2>1 DEF Parsed
  <2> QED
    BY <1>2, <2>2, <2>3
<1>4. /\ e \in Texts /\ Len(e) = 0 /\ e \in Seq(Symbols) /\ e \in Seq(Chunks) /\ Cat(e, e) = e
      /\ Sub(e, 1, 0) = e
  <2>1. e \in Seq(Symbols) /\ e \in Seq(Chunks) /\ Len(e) = 0
    BY <1>2, EmptySeq
  <2>2. Cat(e, e) = e
    BY <1>2, <2>1, CatNone
  <2>3. Sub(e, 1, 0) = e
    BY <1>2, SubNone
  <2> QED
    BY <2>1, <2>2, <2>3 DEF Texts
<1>5. Positions(e) = {}
  BY <1>4, MarkAt
<1>6. LetGo(e, e) = e
  <2>1. PICK j : j = Len(e) - Len(e)
    OBVIOUS
  <2>2. j = 0
    BY <1>4, <2>1
  <2> QED
    BY <1>4, <2>1, <2>2 DEF LetGo
<1>7. SplitOk(h, th, ~th, e, e, left)
  <2>1. Fits(Symbols, e, 1, Len(e) - Len(e))
    BY <1>4 DEF Fits
  <2> QED
    BY <1>2, <1>3, <1>4, <1>5, <1>6, <2>1 DEF SplitOk
<1>8. Thought(h, th, ~th, e, e) = e /\ Answer(th, ~th, e) = e
  BY <1>2, <1>3, <1>6 DEF Thought, Answer
<1>9. Pending(h, th, ~th, e, e, left, e, got)
  <2>1. got.reasoning = e /\ got.content = e /\ got.end = "no"
    BY <1>1, <1>2
  <2>2. \A f : Leads(e, f, Squeezed(e), Squeezed(e))
    BY <1>2, LeadsNone
  <2>3. Finishes(e, e, left)
    BY <1>4 DEF Finishes
  <2> QED
    BY <1>8, <2>1, <2>2, <2>3 DEF Pending
<1>10. got \in Replies /\ got.calls = <<>>
  <2>1. <<>> \in Texts /\ <<>> \in Seq(Texts)
    BY EmptySeq DEF Texts
  <2> QED
    BY <1>1, <2>1 DEF Replies, Ends
<1>11. left \in Nat
  BY <1>1, StreamAssumption
<1>12. AgentWith(h)
  BY <1>1, <1>2, <1>3, <1>4, <1>7, <1>9, <1>10, <1>11 DEF AgentWith
<1> QED
  BY <1>12 DEF AgentOk

\* The invariant says that nothing leaks, and that a finished reply is whole.
LEMMA AgentWhole ==
    ASSUME AgentOk, model = "agent"
    PROVE  NothingLeaks /\ FinishedIsWhole
<1>0. PICK h : AgentWith(h)
  BY DEF AgentOk
<1>1. /\ req.thinking \in BOOLEAN /\ split \in BOOLEAN
      /\ SplitOk(h, req.thinking, split, said, buf, left)
      /\ got \in Replies /\ got.calls = <<>>
      /\ reader = "get" => Pending(h, req.thinking, split, said, buf, left, Cat(queue, todo), got)
      /\ reader # "get" => Past(h, req.thinking, split, said, buf, left, got)
      /\ todo \in Seq(Chunks) /\ queue \in Seq(Chunks)
  BY <1>0 DEF AgentWith
<1>2. PICK th, w, a, e : /\ th = req.thinking /\ e = Expected(said)
                         /\ w = Thought(h, th, split, said, buf) /\ a = Answer(th, split, said)
  OBVIOUS
<1>3. e.calls = <<>> /\ e.reasoning = Streamed(said).reasoning /\ e.content = Streamed(said).content
  <2>1. e = [reasoning |-> Streamed(said).reasoning, content |-> Streamed(said).content, calls |-> <<>>]
    BY <1>2, Zenon DEF Expected
  <2> QED
    BY <2>1
<1>4. w \in Texts /\ a \in Texts /\ got.content \in Texts /\ got.reasoning \in Texts
  BY <1>1, <1>2, SplitTypes DEF Replies
<1>5. PICK gr, gc, sw, sa : /\ gr = Squeezed(got.reasoning) /\ gc = Squeezed(got.content)
                            /\ sw = Squeezed(w) /\ sa = Squeezed(a)
  OBVIOUS
<1>6. gr \in Seq(Symbols) /\ gc \in Seq(Symbols) /\ sw \in Seq(Symbols) /\ sa \in Seq(Symbols)
  BY <1>4, <1>5, SqType DEF Texts
<1>7. /\ Begins(Symbols, gr, sw) /\ Begins(Symbols, gc, sa)
      /\ got.end \in {"stop", "tool_calls"} => buf = <<>> /\ gr = sw /\ gc = sa
  <2>1. CASE reader = "get"
    <3>1. PICK Q : Q = Cat(queue, todo)
      OBVIOUS
    <3>2. Q \in Seq(Chunks)
      BY <1>1, <3>1, CatIs
    <3>3. got.end = "no" /\ Leads(Q, "reasoning", gr, sw) /\ Leads(Q, "content", gc, sa)
      BY <1>1, <1>2, <1>5, <2>1, <3>1 DEF Pending
    <3> QED
      BY <1>6, <3>2, <3>3, LeadsBegins DEF Texts
  <2>2. CASE reader # "get"
    BY <1>1, <1>2, <1>5, <2>2 DEF Past
  <2> QED
    BY <2>1, <2>2
<1>8. PICK wr, wc : wr = Squeezed(e.reasoning) /\ wc = Squeezed(e.content)
  OBVIOUS
<1>9. PICK free : free = (Positions(said) = {} \/ TagFree(Before(said, FirstMark(said))))
  OBVIOUS
<1>10. /\ e.reasoning \in Texts /\ e.content \in Texts
       /\ Begins(Symbols, sa, wc) /\ (buf = <<>> => sa = wc)
       /\ free => Begins(Symbols, sw, wr) /\ (buf = <<>> => sw = wr)
  <2>1. th \in BOOLEAN /\ split \in BOOLEAN /\ SplitOk(h, th, split, said, buf, left)
    BY <1>1, <1>2
  <2>2. req.thinking = th
    BY <1>2
  <2>3. /\ e.reasoning \in Texts /\ e.content \in Texts
        /\ Begins(Symbols, Squeezed(a), Squeezed(e.content))
        /\ buf = <<>> => Squeezed(a) = Squeezed(e.content)
        /\ free => /\ Begins(Symbols, Squeezed(w), Squeezed(e.reasoning))
                   /\ buf = <<>> => Squeezed(w) = Squeezed(e.reasoning)
    <3>1. PICK r, c : r = Streamed(said).reasoning /\ c = Streamed(said).content
      OBVIOUS
    <3>2. w = Thought(h, req.thinking, split, said, buf) /\ a = Answer(req.thinking, split, said)
      BY <1>2, <2>2, Zenon
    <3>3. /\ r \in Texts /\ c \in Texts
          /\ Begins(Symbols, Squeezed(a), Squeezed(c)) /\ (buf = <<>> => Squeezed(a) = Squeezed(c))
          /\ Positions(said) = {} \/ TagFree(Before(said, FirstMark(said))) =>
                /\ Begins(Symbols, Squeezed(w), Squeezed(r))
                /\ buf = <<>> => Squeezed(w) = Squeezed(r)
      <4>1. req.thinking \in BOOLEAN /\ split \in BOOLEAN /\ SplitOk(h, req.thinking, split, said, buf, left)
        BY <2>1, <2>2
      <4>2. Begins(Symbols, Squeezed(a), Squeezed(c)) /\ (buf = <<>> => Squeezed(a) = Squeezed(c))
        BY <3>1, <3>2, <4>1, SplitStreamed
      <4>3. Positions(said) = {} \/ TagFree(Before(said, FirstMark(said))) =>
                /\ Begins(Symbols, Squeezed(w), Squeezed(r))
                /\ buf = <<>> => Squeezed(w) = Squeezed(r)
        BY <3>1, <3>2, <4>1, SplitStreamed
      <4>4. r \in Texts /\ c \in Texts
        BY <3>1, <3>2, <4>1, SplitStreamed
      <4> QED
        BY <4>2, <4>3, <4>4
    <3> QED
      BY <1>3, <1>9, <3>1, <3>3, Zenon
  <2> QED
    BY <1>5, <1>8, <2>3
<1>11. wr \in Seq(Symbols) /\ wc \in Seq(Symbols)
  BY <1>8, <1>10, SqType DEF Texts
<1>12. IsPrefix(gc, wc) /\ (got.end \in {"stop", "tool_calls"} => gc = wc)
  <2>1. Begins(Symbols, gc, wc)
    BY <1>6, <1>7, <1>10, <1>11, BeginsTrans
  <2> QED
    BY <1>6, <1>7, <1>10, <1>11, <2>1, BeginsIsPrefix
<1>13. ASSUME free PROVE IsPrefix(gr, wr) /\ (got.end \in {"stop", "tool_calls"} => gr = wr)
  <2>1. Begins(Symbols, gr, wr)
    BY <1>6, <1>7, <1>10, <1>11, <1>13, BeginsTrans
  <2> QED
    BY <1>6, <1>7, <1>10, <1>11, <1>13, <2>1, BeginsIsPrefix
<1>14. ~Tagged => free
  BY <1>9 DEF Tagged, TagFree
<1>15. ASSUME Alike
       PROVE  wr = Squeezed(Whole(said, th).reasoning) /\ wc = Squeezed(Whole(said, th).content)
  <2>1. said \in Texts /\ Blocks(said) = {} /\ (th \/ Positions(said) = {}) /\ free
    BY <1>1, <1>2, <1>14, <1>15 DEF Alike, SplitOk
  <2> QED
    BY <1>1, <1>2, <1>3, <1>8, <1>9, <2>1, AlikeMeans
<1>16. IsPrefix(got.calls, e.calls) /\ got.calls = e.calls
  <2>1. <<>> \in Seq(Texts)
    BY EmptySeq
  <2>2. Begins(Texts, <<>>, <<>>)
    BY <2>1, BeginsRefl
  <2> QED
    BY <1>1, <1>3, <2>1, <2>2, BeginsIsPrefix
<1>17. NothingLeaks
  BY <1>2, <1>5, <1>8, <1>12, <1>13, <1>14, <1>16 DEF NothingLeaks
<1>18. FinishedIsWhole
  <2>1. ASSUME got.end \in {"stop", "tool_calls"}
        PROVE  gc = wc /\ (Tagged \/ gr = wr) /\ got.calls = e.calls
               /\ (Alike => /\ gc = Squeezed(Whole(said, th).content)
                            /\ gr = Squeezed(Whole(said, th).reasoning))
    BY <1>12, <1>13, <1>14, <1>15, <1>16, <2>1 DEF Alike
  <2> QED
    BY <1>2, <1>5, <1>8, <2>1, Zenon DEF FinishedIsWhole
<1> QED
  BY <1>17, <1>18

-----------------------------------------------------------------------------
(* The tags of a text with tool calls and a stop string *)

Opens(r, x) == IF r.tools THEN Occurrences(x, Open) ELSE {}
Closes(x)   == Occurrences(x, Close)
Stops(r, x) == IF r.stop THEN Occurrences(x, Stop) ELSE {}

\* Where an opening tag stands.
LEMMA OpensIs ==
    \A r, x : x \in Texts =>
       \A p : p \in Opens(r, x) <=>
                 r.tools /\ p \in 1 .. Len(x) /\ p + 1 \in 1 .. Len(x) /\ x[p] = "o1" /\ x[p + 1] = "o2"
<1> TAKE r, x
<1> HAVE x \in Texts
<1>1. x \in Seq(Symbols) /\ "o1" \in Symbols /\ "o2" \in Symbols
  BY DEF Texts, Symbols
<1>2. \A p : p \in Occurrences(x, <<"o1", "o2">>) <=>
                p \in 1 .. Len(x) /\ p + 1 \in 1 .. Len(x) /\ x[p] = "o1" /\ x[p + 1] = "o2"
  BY <1>1, PairAt
<1>3. \A p : p \in Opens(r, x) <=> r.tools /\ p \in Occurrences(x, <<"o1", "o2">>)
  BY Zenon DEF Opens, Open
<1> QED
  BY <1>2, <1>3

\* Where a closing tag stands.
LEMMA ClosesIs ==
    \A x : x \in Texts =>
       \A p : p \in Closes(x) <=>
                 p \in 1 .. Len(x) /\ p + 1 \in 1 .. Len(x) /\ x[p] = "c1" /\ x[p + 1] = "c2"
<1> TAKE x
<1> HAVE x \in Texts
<1>1. x \in Seq(Symbols) /\ "c1" \in Symbols /\ "c2" \in Symbols
  BY DEF Texts, Symbols
<1>2. \A p : p \in Occurrences(x, <<"c1", "c2">>) <=>
                p \in 1 .. Len(x) /\ p + 1 \in 1 .. Len(x) /\ x[p] = "c1" /\ x[p + 1] = "c2"
  BY <1>1, PairAt
<1>3. \A p : p \in Closes(x) <=> p \in Occurrences(x, <<"c1", "c2">>)
  BY Zenon DEF Closes, Close
<1> QED
  BY <1>2, <1>3

\* Where a stop string stands.
LEMMA StopsIs ==
    \A r, x : x \in Texts =>
       \A p : p \in Stops(r, x) <=>
                 /\ r.stop /\ p \in 1 .. Len(x) /\ p + 1 \in 1 .. Len(x) /\ p + 2 \in 1 .. Len(x)
                 /\ x[p] = "s" /\ x[p + 1] = "s" /\ x[p + 2] = "z"
<1> TAKE r, x
<1> HAVE x \in Texts
<1>1. x \in Seq(Symbols) /\ Len(x) \in Nat /\ DOMAIN x = 1 .. Len(x)
  BY LenProperties DEF Texts
<1>2. PICK tag : tag = Stop
  OBVIOUS
<1>3. tag \in Seq(Symbols) /\ Len(tag) = 3 /\ tag[1] = "s" /\ tag[2] = "s" /\ tag[3] = "z"
  BY <1>2 DEF Stop, Symbols
<1>4. ASSUME NEW p \in 1 .. Len(x)
      PROVE  At(x, tag, p) <=> /\ p + 1 \in 1 .. Len(x) /\ p + 2 \in 1 .. Len(x)
                               /\ x[p] = "s" /\ x[p + 1] = "s" /\ x[p + 2] = "z"
  <2>1. At(x, tag, p) <=> Matches(x, tag, p)
    <3>1. x \in Seq(Symbols) /\ tag \in Seq(Symbols) /\ Len(tag) # 0 /\ p \in 1 .. Len(x)
      BY <1>1, <1>3
    <3> QED
      BY <3>1, AtIs
  <2>2. /\ p + Len(tag) - 1 = p + 2 /\ p + 1 - 1 = p /\ p + 2 - 1 = p + 1 /\ p + 3 - 1 = p + 2
        /\ 1 .. Len(tag) = {1, 2, 3}
    BY <1>1, <1>3
  <2>3. p + 2 <= Len(x) <=> p + 1 \in 1 .. Len(x) /\ p + 2 \in 1 .. Len(x)
    BY <1>1
  <2>4. (\A k \in 1 .. Len(tag) : x[p + k - 1] = tag[k]) <=> x[p] = "s" /\ x[p + 1] = "s" /\ x[p + 2] = "z"
    BY <1>3, <2>2
  <2> QED
    BY <2>1, <2>2, <2>3, <2>4 DEF Matches
<1>5. \A p : p \in Occurrences(x, tag) <=> p \in 1 .. Len(x) /\ At(x, tag, p)
  BY <1>1 DEF Occurrences
<1>6. \A p : p \in Stops(r, x) <=> r.stop /\ p \in Occurrences(x, tag)
  BY <1>2, Zenon DEF Stops
<1> QED
  BY <1>4, <1>5, <1>6

\* Two texts that have the same symbols up to the end of the first.
Shares(x, y) ==
    /\ x \in Texts /\ y \in Texts /\ Len(x) \in Nat /\ Len(y) \in Nat /\ Len(x) <= Len(y)
    /\ \A i \in 1 .. Len(x) : y[i] = x[i]

\* A text that goes on has the symbols it had.
LEMMA CatShares ==
    \A x, t : x \in Texts /\ t \in Texts => Shares(x, Cat(x, t))
<1> TAKE x, t
<1> HAVE x \in Texts /\ t \in Texts
<1>1. PICK y : y = Cat(x, t)
  OBVIOUS
<1>2. Len(x) \in Nat /\ Len(t) \in Nat
  BY LenProperties DEF Texts
<1>3. y \in Texts /\ Len(y) = Len(x) + Len(t) /\ \A i \in 1 .. Len(x) : y[i] = x[i]
  BY <1>1, CatIs DEF Texts
<1>4. Shares(x, y)
  BY <1>2, <1>3 DEF Shares
<1> QED
  BY <1>1, <1>4

\* Tags stay where they are.
LEMMA TagsStay ==
    \A r, x, y : Shares(x, y) =>
       /\ \A p \in Nat : p + 1 <= Len(x) => (p \in Opens(r, x) <=> p \in Opens(r, y))
       /\ \A p \in Nat : p + 1 <= Len(x) => (p \in Closes(x) <=> p \in Closes(y))
       /\ \A p \in Nat : p + 2 <= Len(x) => (p \in Stops(r, x) <=> p \in Stops(r, y))
<1> TAKE r, x, y
<1> HAVE Shares(x, y)
<1>1. /\ x \in Texts /\ y \in Texts /\ Len(x) \in Nat /\ Len(y) \in Nat /\ Len(x) <= Len(y)
      /\ \A i \in 1 .. Len(x) : y[i] = x[i]
  BY DEF Shares
<1>2. ASSUME NEW p \in Nat, p + 1 <= Len(x)
      PROVE  (p \in Opens(r, x) <=> p \in Opens(r, y)) /\ (p \in Closes(x) <=> p \in Closes(y))
  <2>1. p + 1 \in 1 .. Len(x) /\ p + 1 \in 1 .. Len(y) /\ y[p + 1] = x[p + 1]
    BY <1>1, <1>2
  <2>2. p \in 1 .. Len(x) <=> p \in 1 .. Len(y)
    BY <1>1, <1>2
  <2>3. p \in 1 .. Len(x) => y[p] = x[p]
    BY <1>1
  <2>4. /\ p \in Opens(r, x) <=> r.tools /\ p \in 1 .. Len(x) /\ p + 1 \in 1 .. Len(x) /\ x[p] = "o1" /\ x[p + 1] = "o2"
        /\ p \in Opens(r, y) <=> r.tools /\ p \in 1 .. Len(y) /\ p + 1 \in 1 .. Len(y) /\ y[p] = "o1" /\ y[p + 1] = "o2"
    BY <1>1, OpensIs
  <2>5. /\ p \in Closes(x) <=> p \in 1 .. Len(x) /\ p + 1 \in 1 .. Len(x) /\ x[p] = "c1" /\ x[p + 1] = "c2"
        /\ p \in Closes(y) <=> p \in 1 .. Len(y) /\ p + 1 \in 1 .. Len(y) /\ y[p] = "c1" /\ y[p + 1] = "c2"
    BY <1>1, ClosesIs
  <2> QED
    BY <2>1, <2>2, <2>3, <2>4, <2>5
<1>3. ASSUME NEW p \in Nat, p + 2 <= Len(x) PROVE p \in Stops(r, x) <=> p \in Stops(r, y)
  <2>1. /\ p + 1 \in 1 .. Len(x) /\ p + 1 \in 1 .. Len(y) /\ y[p + 1] = x[p + 1]
        /\ p + 2 \in 1 .. Len(x) /\ p + 2 \in 1 .. Len(y) /\ y[p + 2] = x[p + 2]
    BY <1>1, <1>3
  <2>2. p \in 1 .. Len(x) <=> p \in 1 .. Len(y)
    BY <1>1, <1>3
  <2>3. p \in 1 .. Len(x) => y[p] = x[p]
    BY <1>1
  <2>4. /\ p \in Stops(r, x) <=>
              /\ r.stop /\ p \in 1 .. Len(x) /\ p + 1 \in 1 .. Len(x) /\ p + 2 \in 1 .. Len(x)
              /\ x[p] = "s" /\ x[p + 1] = "s" /\ x[p + 2] = "z"
        /\ p \in Stops(r, y) <=>
              /\ r.stop /\ p \in 1 .. Len(y) /\ p + 1 \in 1 .. Len(y) /\ p + 2 \in 1 .. Len(y)
              /\ y[p] = "s" /\ y[p + 1] = "s" /\ y[p + 2] = "z"
    BY <1>1, StopsIs
  <2> QED
    BY <2>1, <2>2, <2>3, <2>4
<1> QED
  BY <1>2, <1>3

\* The second text stands in the first behind n symbols.
Behind(y, a, n) ==
    /\ y \in Texts /\ a \in Texts /\ Len(y) \in Nat /\ Len(a) \in Nat /\ n \in Nat /\ Len(y) = n + Len(a)
    /\ \A i \in 1 .. Len(a) : y[n + i] = a[i]

\* A text put behind another has its symbols there.
LEMMA CatBehind ==
    \A v, a : v \in Texts /\ a \in Texts => Behind(Cat(v, a), a, Len(v))
<1> TAKE v, a
<1> HAVE v \in Texts /\ a \in Texts
<1>1. PICK y : y = Cat(v, a)
  OBVIOUS
<1>2. Len(v) \in Nat /\ Len(a) \in Nat
  BY LenProperties DEF Texts
<1>3. y \in Texts /\ Len(y) = Len(v) + Len(a) /\ \A i \in 1 .. Len(a) : y[Len(v) + i] = a[i]
  BY <1>1, CatIs DEF Texts
<1>4. Len(y) \in Nat
  BY <1>2, <1>3
<1>5. Behind(y, a, Len(v))
  BY <1>2, <1>3, <1>4 DEF Behind
<1> QED
  BY <1>1, <1>5

\* Its tags are the text's tags there.
LEMMA TagsMove ==
    \A r, y, a, n : Behind(y, a, n) =>
       \A p, q : p \in Nat \ {0} /\ q = n + p =>
          /\ p \in Opens(r, a) <=> q \in Opens(r, y)
          /\ p \in Closes(a) <=> q \in Closes(y)
          /\ p \in Stops(r, a) <=> q \in Stops(r, y)
<1> TAKE r, y, a, n
<1> HAVE Behind(y, a, n)
<1>1. /\ y \in Texts /\ a \in Texts /\ Len(y) \in Nat /\ Len(a) \in Nat /\ n \in Nat /\ Len(y) = n + Len(a)
      /\ \A i \in 1 .. Len(a) : y[n + i] = a[i]
  BY DEF Behind
<1> TAKE p, q
<1> HAVE p \in Nat \ {0} /\ q = n + p
<1>2. /\ p \in 1 .. Len(a) <=> q \in 1 .. Len(y)
      /\ p + 1 \in 1 .. Len(a) <=> q + 1 \in 1 .. Len(y)
      /\ p + 2 \in 1 .. Len(a) <=> q + 2 \in 1 .. Len(y)
      /\ q + 1 = n + (p + 1) /\ q + 2 = n + (p + 2)
  BY <1>1
<1>3. p \in 1 .. Len(a) => y[q] = a[p]
  BY <1>1
<1>4. p + 1 \in 1 .. Len(a) => y[q + 1] = a[p + 1]
  BY <1>1, <1>2
<1>5. p + 2 \in 1 .. Len(a) => y[q + 2] = a[p + 2]
  BY <1>1, <1>2
<1>6. /\ p \in Opens(r, a) <=> r.tools /\ p \in 1 .. Len(a) /\ p + 1 \in 1 .. Len(a) /\ a[p] = "o1" /\ a[p + 1] = "o2"
      /\ q \in Opens(r, y) <=> r.tools /\ q \in 1 .. Len(y) /\ q + 1 \in 1 .. Len(y) /\ y[q] = "o1" /\ y[q + 1] = "o2"
  BY <1>1, OpensIs
<1>7. /\ p \in Closes(a) <=> p \in 1 .. Len(a) /\ p + 1 \in 1 .. Len(a) /\ a[p] = "c1" /\ a[p + 1] = "c2"
      /\ q \in Closes(y) <=> q \in 1 .. Len(y) /\ q + 1 \in 1 .. Len(y) /\ y[q] = "c1" /\ y[q + 1] = "c2"
  BY <1>1, ClosesIs
<1>8. /\ p \in Stops(r, a) <=>
            /\ r.stop /\ p \in 1 .. Len(a) /\ p + 1 \in 1 .. Len(a) /\ p + 2 \in 1 .. Len(a)
            /\ a[p] = "s" /\ a[p + 1] = "s" /\ a[p + 2] = "z"
      /\ q \in Stops(r, y) <=>
            /\ r.stop /\ q \in 1 .. Len(y) /\ q + 1 \in 1 .. Len(y) /\ q + 2 \in 1 .. Len(y)
            /\ y[q] = "s" /\ y[q + 1] = "s" /\ y[q + 2] = "z"
  <2>1. y \in Texts /\ a \in Texts
    BY <1>1
  <2> QED
    BY <2>1, StopsIs
<1>9. p \in Opens(r, a) <=> q \in Opens(r, y)
  BY <1>2, <1>3, <1>4, <1>6
<1>10. p \in Closes(a) <=> q \in Closes(y)
  BY <1>2, <1>3, <1>4, <1>7
<1>11. p \in Stops(r, a) <=> q \in Stops(r, y)
  BY <1>2, <1>3, <1>4, <1>5, <1>8
<1> QED
  BY <1>9, <1>10, <1>11

\* The positions inside calls.
LEMMA HiddenIs ==
    \A r, x : x \in Texts =>
       \A i : i \in Hidden(r, x) <=>
                 /\ i \in 1 .. Len(x)
                 /\ \E j \in Opens(r, x) : j <= i /\ \A k \in Closes(x) : ~(k >= j + 2 /\ k + 1 < i)
<1> TAKE r, x
<1> HAVE x \in Texts
<1>1. DOMAIN x = 1 .. Len(x) /\ Len(Open) = 2 /\ Len(Close) = 2
  BY LenProperties DEF Texts, Open, Close
<1>2. \A k \in Closes(x) : k + 2 - 1 = k + 1
  BY ClosesIs
<1>3. \A i : i \in InCall(x) <=>
                /\ i \in 1 .. Len(x)
                /\ \E j \in Occurrences(x, Open) :
                      j <= i /\ ~\E k \in Closes(x) : k >= j + 2 /\ k + 2 - 1 < i
  BY <1>1, Zenon DEF InCall, Closes
<1>4. \A i : i \in InCall(x) <=>
                /\ i \in 1 .. Len(x)
                /\ \E j \in Occurrences(x, Open) : j <= i /\ \A k \in Closes(x) : ~(k >= j + 2 /\ k + 1 < i)
  BY <1>2, <1>3
<1>5. \A i : i \in Hidden(r, x) <=> r.tools /\ i \in InCall(x)
  BY Zenon DEF Hidden
<1>6. \A j : j \in Opens(r, x) <=> r.tools /\ j \in Occurrences(x, Open)
  BY Zenon DEF Opens
<1> QED
  BY <1>4, <1>5, <1>6, Zenon

\* Up to a position every call is closed.
Settled(r, x, m) == \A j \in Opens(r, x) : j <= m => \E k \in Closes(x) : k >= j + 2 /\ k + 1 <= m

\* No opening tag can come to stand at m or before it when the text goes on.
Firm(r, x, m) == r.tools => m < Len(x) \/ m = 0 \/ x[m] = "c2"

\* The calls there are, by where they begin.
CallSet(r, x) == IF r.tools THEN CallsAt(x) ELSE {}

\* The first closing tag behind an opening one, or the end of the text.
LEMMA ClosingIs ==
    \A x, j : x \in Texts /\ j \in Nat =>
       /\ Closing(x, j) \in Nat /\ Closing(x, j) <= Len(x) + 1
       /\ \A k \in Closes(x) : k >= j + 2 => Closing(x, j) <= k
       /\ Closing(x, j) # Len(x) + 1 => Closing(x, j) \in Closes(x) /\ Closing(x, j) >= j + 2
<1> TAKE x, j
<1> HAVE x \in Texts /\ j \in Nat
<1>1. Len(x) \in Nat /\ Len(Open) = 2
  BY LenProperties DEF Texts, Open
<1>2. PICK T : T = {Len(x) + 1} \cup {k \in Closes(x) : k >= j + 2}
  OBVIOUS
<1>3. Closing(x, j) = Min(T)
  BY <1>1, <1>2, Zenon DEF Closing, Closes
<1>4. \A k \in Closes(x) : k \in 1 .. Len(x)
  BY ClosesIs
<1>5. T \subseteq Nat /\ T # {} /\ Len(x) + 1 \in T
  BY <1>1, <1>2, <1>4
<1>6. PICK c : c = Closing(x, j)
  OBVIOUS
<1>7. c \in T /\ \A k \in T : c <= k
  BY <1>3, <1>5, <1>6, MinIs
<1> QED
  BY <1>2, <1>5, <1>6, <1>7

\* What a call is: it is opened outside of any other, closed, and has the body of one.
LEMMA CallSetIs ==
    \A r, x : x \in Texts =>
       \A j : j \in CallSet(r, x) <=>
                 /\ j \in Opens(r, x)
                 /\ \A h \in Opens(r, x) : h < j => \E k \in Closes(x) : k >= h + 2 /\ k < j
                 /\ Closing(x, j) <= Len(x) /\ Body(BodyAt(x, j)) = "call"
<1> TAKE r, x
<1> HAVE x \in Texts
<1>1. Len(Open) = 2
  BY DEF Open
<1>2. \A j : j \in Opened(x) <=>
                /\ j \in Occurrences(x, Open)
                /\ ~\E h \in Occurrences(x, Open) :
                      h < j /\ ~\E k \in Closes(x) : k >= h + 2 /\ k < j
  BY <1>1, Zenon DEF Opened, Closes
<1>3. \A j : j \in CallsAt(x) <=> j \in Opened(x) /\ Closing(x, j) <= Len(x) /\ Body(BodyAt(x, j)) = "call"
  BY Zenon DEF CallsAt
<1>4. \A j : j \in CallSet(r, x) <=> r.tools /\ j \in CallsAt(x)
  BY Zenon DEF CallSet
<1>5. \A j : j \in Opens(r, x) <=> r.tools /\ j \in Occurrences(x, Open)
  BY Zenon DEF Opens
<1> QED
  BY <1>2, <1>3, <1>4, <1>5, Zenon

\* A call's body.
LEMMA BodyIs ==
    \A x, j : BodyAt(x, j) = Sub(x, j + 2, Closing(x, j) - 1)
<1> TAKE x, j
<1>1. Len(Open) = 2
  BY DEF Open
<1> QED
  BY <1>1, Zenon DEF BodyAt, Sub

\* The bodies at all places, and the calls.
Bodied(x) == [j \in DOMAIN x |-> BodyAt(x, j)]

\* The bodies, one for every position, make a sequence.
LEMMA BodiedIs ==
    \A x : x \in Texts =>
       \E E : /\ Bodied(x) \in Seq(E) /\ Len(Bodied(x)) = Len(x) /\ Len(x) \in Nat
              /\ \A j \in 1 .. Len(x) : Bodied(x)[j] = BodyAt(x, j)
<1> TAKE x
<1> HAVE x \in Texts
<1>1. DOMAIN x = 1 .. Len(x) /\ Len(x) \in Nat
  BY LenProperties DEF Texts
<1>2. PICK b, n : b = Bodied(x) /\ n = Len(x)
  OBVIOUS
<1>3. b = [j \in 1 .. n |-> BodyAt(x, j)] /\ n \in Nat
  BY <1>1, <1>2, Zenon DEF Bodied
<1>4. PICK E : E = {BodyAt(x, j) : j \in 1 .. n}
  OBVIOUS
<1>5. b \in [1 .. n -> E] /\ \A j \in 1 .. n : b[j] = BodyAt(x, j)
  BY <1>3, <1>4
<1>6. b \in Seq(E)
  BY <1>3, <1>5
<1>7. Len(b) = n
  BY <1>3, <1>5, <1>6, LenProperties
<1> QED
  BY <1>1, <1>2, <1>5, <1>6, <1>7

\* The calls are the bodies picked at the calls.
LEMMA CallsIs ==
    \A r, x : x \in Texts => Calls(r, x) = Picked(Bodied(x), CallSet(r, x))
<1> TAKE r, x
<1> HAVE x \in Texts
<1>1. CASE r.tools
  <2>1. Calls(r, x) = Picked([j \in DOMAIN x |-> BodyAt(x, j)], CallsAt(x))
    BY <1>1, Zenon DEF Calls
  <2>2. CallSet(r, x) = CallsAt(x)
    BY <1>1, Zenon DEF CallSet
  <2> QED
    BY <2>1, <2>2, Zenon DEF Bodied
<1>2. CASE ~r.tools
  <2>1. Calls(r, x) = <<>> /\ CallSet(r, x) = {}
    BY <1>2, Zenon DEF Calls, CallSet
  <2>2. PICK E, b : b = Bodied(x) /\ b \in Seq(E)
    BY BodiedIs
  <2>3. Picked(b, {}) = <<>>
    BY <2>2, PickedNone
  <2> QED
    BY <2>1, <2>2, <2>3
<1> QED
  BY <1>1, <1>2

\* A text that goes on behind a settled part.
Grown(r, x, y, m) == Shares(x, y) /\ m \in 0 .. Len(x) /\ Settled(r, x, m) /\ Firm(r, x, m)

\* A part of a text is still there when it goes on.
LEMMA SubShares ==
    \A x, y, i, j : Shares(x, y) /\ Fits(Symbols, x, i, j) => Sub(y, i, j) = Sub(x, i, j)
<1> TAKE x, y, i, j
<1> HAVE Shares(x, y) /\ Fits(Symbols, x, i, j)
<1>1. /\ x \in Texts /\ y \in Texts /\ Len(x) \in Nat /\ Len(y) \in Nat /\ Len(x) <= Len(y)
      /\ \A k \in 1 .. Len(x) : y[k] = x[k]
  BY DEF Shares
<1>2. i \in Nat \ {0} /\ j \in Nat /\ i <= j + 1 /\ j <= Len(x)
  BY DEF Fits
<1>3. Fits(Symbols, y, i, j)
  BY <1>1, <1>2 DEF Fits, Texts
<1>4. PICK a, b : a = Sub(y, i, j) /\ b = Sub(x, i, j)
  OBVIOUS
<1>5. IsSub(Symbols, a, y, i, j) /\ IsSub(Symbols, b, x, i, j)
  BY <1>3, <1>4, SubFits
<1>6. /\ a \in Seq(Symbols) /\ Len(a) = j + 1 - i /\ \A k \in 1 .. j + 1 - i : a[k] = y[i + k - 1]
      /\ b \in Seq(Symbols) /\ Len(b) = j + 1 - i /\ \A k \in 1 .. j + 1 - i : b[k] = x[i + k - 1]
  BY <1>5 DEF IsSub
<1>7. \A k \in 1 .. j + 1 - i : i + k - 1 \in 1 .. Len(x)
  BY <1>1, <1>2
<1>8. a = b
  BY <1>1, <1>6, <1>7, SameSeq
<1> QED
  BY <1>4, <1>8

\* The opening tags of the settled part.
LEMMA OpensKept ==
    \A r, x, y, m : Grown(r, x, y, m) => \A j \in 1 .. m : j \in Opens(r, x) <=> j \in Opens(r, y)
<1> TAKE r, x, y, m
<1> HAVE Grown(r, x, y, m)
<1>1. /\ x \in Texts /\ y \in Texts /\ Len(x) \in Nat /\ Len(y) \in Nat /\ Len(x) <= Len(y)
      /\ \A i \in 1 .. Len(x) : y[i] = x[i]
      /\ m \in 0 .. Len(x) /\ Shares(x, y)
  BY DEF Grown, Shares
<1>2. r.tools => m < Len(x) \/ m = 0 \/ x[m] = "c2"
  BY DEF Grown, Firm
<1> TAKE j \in 1 .. m
<1>3. CASE j + 1 <= Len(x)
  BY <1>1, <1>3, TagsStay
<1>4. CASE ~(j + 1 <= Len(x))
  <2>1. j = Len(x) /\ m = Len(x) /\ j \in 1 .. Len(x) /\ ~(j + 1 \in 1 .. Len(x))
    BY <1>1, <1>4
  <2>2. j \notin Opens(r, x)
    BY <1>1, <2>1, OpensIs
  <2>3. j \notin Opens(r, y)
    <3> SUFFICES ASSUME j \in Opens(r, y) PROVE FALSE
      OBVIOUS
    <3>1. r.tools /\ y[j] = "o1"
      BY <1>1, OpensIs
    <3>2. x[m] = "c2"
      BY <1>1, <1>2, <2>1, <3>1
    <3>3. y[j] = "c2"
      BY <1>1, <2>1, <3>2
    <3> QED
      BY <3>1, <3>3
  <2> QED
    BY <2>2, <2>3
<1> QED
  BY <1>3, <1>4

\* The settled part stays so.
LEMMA SettledKept ==
    \A r, x, y, m : Grown(r, x, y, m) => Settled(r, y, m)
<1> TAKE r, x, y, m
<1> HAVE Grown(r, x, y, m)
<1>1. /\ x \in Texts /\ y \in Texts /\ Len(x) \in Nat /\ m \in 0 .. Len(x) /\ Shares(x, y)
      /\ Settled(r, x, m)
  BY DEF Grown, Shares
<1>2. ASSUME NEW j \in Opens(r, y), j <= m PROVE \E k \in Closes(y) : k >= j + 2 /\ k + 1 <= m
  <2>1. j \in 1 .. m
    BY <1>1, <1>2, OpensIs
  <2>2. j \in Opens(r, x)
    BY <2>1, <1>2, OpensKept
  <2>3. PICK k \in Closes(x) : k >= j + 2 /\ k + 1 <= m
    BY <1>1, <1>2, <2>2 DEF Settled
  <2>4. k \in Nat /\ k + 1 <= Len(x)
    BY <1>1, <2>3, ClosesIs
  <2>5. k \in Closes(y)
    BY <1>1, <2>4, TagsStay
  <2> QED
    BY <2>3, <2>5
<1> QED
  BY <1>2 DEF Settled

\* The hidden positions of the settled part stay so.
LEMMA HiddenKept ==
    \A r, x, y, m : Grown(r, x, y, m) => \A i \in 1 .. m : i \in Hidden(r, x) <=> i \in Hidden(r, y)
<1> TAKE r, x, y, m
<1> HAVE Grown(r, x, y, m)
<1>1. /\ x \in Texts /\ y \in Texts /\ Len(x) \in Nat /\ Len(y) \in Nat /\ Len(x) <= Len(y)
      /\ m \in 0 .. Len(x) /\ Shares(x, y)
  BY DEF Grown, Shares
<1> TAKE i \in 1 .. m
<1>2. i \in 1 .. Len(x) /\ i \in 1 .. Len(y)
  BY <1>1
<1>3. \A j : j <= i => (j \in Opens(r, x) <=> j \in Opens(r, y))
  <2> TAKE j
  <2> HAVE j <= i
  <2>1. j \in Opens(r, x) \/ j \in Opens(r, y) => j \in 1 .. m
    <3>1. j \in Opens(r, x) => j \in 1 .. Len(x)
      BY <1>1, OpensIs
    <3>2. j \in Opens(r, y) => j \in 1 .. Len(y)
      BY <1>1, OpensIs
    <3> QED
      BY <1>1, <1>2, <3>1, <3>2
  <2> QED
    BY <2>1, OpensKept
<1>4. \A k : k + 1 < i => (k \in Closes(x) <=> k \in Closes(y))
  <2> TAKE k
  <2> HAVE k + 1 < i
  <2>1. k \in Closes(x) \/ k \in Closes(y) => k \in Nat
    BY <1>1, ClosesIs
  <2>2. k \in Nat => k + 1 <= Len(x)
    BY <1>1, <1>2
  <2> QED
    BY <1>1, <2>1, <2>2, TagsStay
<1>5. i \in Hidden(r, x) <=> \E j \in Opens(r, x) : j <= i /\ \A k \in Closes(x) : ~(k >= j + 2 /\ k + 1 < i)
  BY <1>1, <1>2, HiddenIs
<1>6. i \in Hidden(r, y) <=> \E j \in Opens(r, y) : j <= i /\ \A k \in Closes(y) : ~(k >= j + 2 /\ k + 1 < i)
  BY <1>1, <1>2, HiddenIs
<1> QED
  BY <1>3, <1>4, <1>5, <1>6

\* The calls of the settled part are closed, and where they were.
LEMMA CallsKept ==
    \A r, x, y, m : Grown(r, x, y, m) =>
       \A j \in 1 .. m : /\ j \in CallSet(r, x) <=> j \in CallSet(r, y)
                         /\ j \in CallSet(r, x) => BodyAt(x, j) = BodyAt(y, j)
<1> TAKE r, x, y, m
<1> HAVE Grown(r, x, y, m)
<1>1. /\ x \in Texts /\ y \in Texts /\ Len(x) \in Nat /\ Len(y) \in Nat /\ Len(x) <= Len(y)
      /\ m \in 0 .. Len(x) /\ Shares(x, y) /\ Settled(r, x, m)
  BY DEF Grown, Shares
<1> TAKE j \in 1 .. m
<1>2. j \in Opens(r, x) <=> j \in Opens(r, y)
  BY OpensKept
<1>3. CASE j \notin Opens(r, x)
  <2>1. j \notin CallSet(r, x) /\ j \notin CallSet(r, y)
    BY <1>1, <1>2, <1>3, CallSetIs
  <2> QED
    BY <2>1
<1>4. CASE j \in Opens(r, x)
  <2>1. PICK c, d : c = Closing(x, j) /\ d = Closing(y, j)
    OBVIOUS
  <2>2. j \in Nat
    BY <1>1
  <2>3. /\ c \in Nat /\ \A k \in Closes(x) : k >= j + 2 => c <= k
        /\ c # Len(x) + 1 => c \in Closes(x) /\ c >= j + 2
    BY <1>1, <2>1, <2>2, ClosingIs
  <2>4. /\ d \in Nat /\ \A k \in Closes(y) : k >= j + 2 => d <= k
        /\ d # Len(y) + 1 => d \in Closes(y) /\ d >= j + 2
    BY <1>1, <2>1, <2>2, ClosingIs
  <2>5. PICK k \in Closes(x) : k >= j + 2 /\ k + 1 <= m
    BY <1>1, <1>4 DEF Settled
  <2>6. k \in Nat /\ c <= k /\ c + 1 <= m /\ c + 1 <= Len(x)
    <3>1. k \in Nat
      BY <1>1, ClosesIs
    <3> QED
      BY <1>1, <2>3, <2>5, <3>1
  <2>7. c \in Closes(x) /\ c >= j + 2
    BY <1>1, <2>3, <2>6
  <2>8. c \in Closes(y)
    BY <1>1, <2>3, <2>6, <2>7, TagsStay
  <2>9. d <= c /\ d + 1 <= Len(x) /\ d # Len(y) + 1
    <3>1. d <= c
      BY <2>4, <2>7, <2>8
    <3> QED
      BY <1>1, <2>3, <2>4, <2>6, <3>1
  <2>10. d \in Closes(x) /\ d >= j + 2
    BY <1>1, <2>4, <2>9, TagsStay
  <2>11. c = d
    BY <2>3, <2>4, <2>9, <2>10
  <2>12. BodyAt(x, j) = BodyAt(y, j)
    <3>1. PICK a, b : a = j + 2 /\ b = c - 1
      OBVIOUS
    <3>2. Fits(Symbols, x, a, b)
      BY <1>1, <2>2, <2>3, <2>6, <2>7, <3>1 DEF Fits, Texts
    <3>3. Sub(y, a, b) = Sub(x, a, b)
      BY <1>1, <3>2, SubShares
    <3> QED
      BY <2>1, <2>11, <3>1, <3>3, BodyIs
  <2>13. c <= Len(x) /\ d <= Len(y)
    BY <1>1, <2>3, <2>6, <2>11
  <2>14. \A h : h < j => (h \in Opens(r, x) <=> h \in Opens(r, y))
    <3> TAKE h
    <3> HAVE h < j
    <3>1. h \in Opens(r, x) \/ h \in Opens(r, y) => h \in 1 .. m
      <4>1. h \in Opens(r, x) => h \in 1 .. Len(x)
        BY <1>1, OpensIs
      <4>2. h \in Opens(r, y) => h \in 1 .. Len(y)
        BY <1>1, OpensIs
      <4> QED
        BY <1>1, <4>1, <4>2
    <3> QED
      BY <3>1, OpensKept
  <2>15. \A l : l < j => (l \in Closes(x) <=> l \in Closes(y))
    <3> TAKE l
    <3> HAVE l < j
    <3>1. l \in Closes(x) \/ l \in Closes(y) => l \in Nat
      BY <1>1, ClosesIs
    <3>2. l \in Nat => l + 1 <= Len(x)
      BY <1>1
    <3> QED
      BY <1>1, <3>1, <3>2, TagsStay
  <2>16. j \in CallSet(r, x) <=> /\ \A h \in Opens(r, x) : h < j => \E l \in Closes(x) : l >= h + 2 /\ l < j
                                 /\ Body(BodyAt(x, j)) = "call"
    BY <1>1, <1>4, <2>1, <2>13, CallSetIs
  <2>17. j \in CallSet(r, y) <=> /\ \A h \in Opens(r, y) : h < j => \E l \in Closes(y) : l >= h + 2 /\ l < j
                                 /\ Body(BodyAt(y, j)) = "call"
    BY <1>1, <1>2, <1>4, <2>1, <2>13, CallSetIs
  <2> QED
    BY <2>12, <2>14, <2>15, <2>16, <2>17
<1> QED
  BY <1>3, <1>4

\* What is shown of the settled part, and its calls, stay as they are.
LEMMA ShownKept ==
    \A r, x, y, m : Grown(r, x, y, m) =>
       Picked(y, (1 .. m) \ Hidden(r, y)) = Picked(x, (1 .. m) \ Hidden(r, x))
<1> TAKE r, x, y, m
<1> HAVE Grown(r, x, y, m)
<1>1. /\ x \in Seq(Symbols) /\ y \in Seq(Symbols) /\ Len(x) \in Nat /\ Len(y) \in Nat /\ Len(x) <= Len(y)
      /\ m \in 0 .. Len(x) /\ \A i \in 1 .. Len(x) : y[i] = x[i]
  BY DEF Grown, Shares, Texts
<1>2. PICK S, T : S = (1 .. m) \ Hidden(r, x) /\ T = (1 .. m) \ Hidden(r, y)
  OBVIOUS
<1>3. \A i \in 1 .. m : i \in Hidden(r, x) <=> i \in Hidden(r, y)
  BY HiddenKept
<1>4. \A i \in 1 .. Len(x) : (i \in S <=> i \in T) /\ (i \in S => x[i] = y[i])
  BY <1>1, <1>2, <1>3
<1>5. \A i \in Len(x) + 1 .. Len(y) : i \notin T
  BY <1>1, <1>2
<1>6. Picked(y, T) = Picked(x, S)
  BY <1>1, <1>4, <1>5, PickedGrow
<1> QED
  BY <1>2, <1>6

\* A set that lies below a bound.
LEMMA BelowAll ==
    \A S, n : (\A i \in S : i \in 1 .. n) => Below(S, n) = S
BY DEF Below

\* The calls of the settled part are still there when the text goes on.
LEMMA CallsBelow ==
    \A r, x, y, m : Grown(r, x, y, m) /\ (\A j \in CallSet(r, x) : j <= m)
       => Picked(Bodied(y), Below(CallSet(r, y), m)) = Calls(r, x)
<1> TAKE r, x, y, m
<1> HAVE Grown(r, x, y, m) /\ (\A j \in CallSet(r, x) : j <= m)
<1>1. x \in Texts /\ y \in Texts /\ Len(x) \in Nat /\ Len(y) \in Nat /\ Len(x) <= Len(y) /\ m \in 0 .. Len(x)
  BY DEF Grown, Shares
<1>2. PICK E, a : /\ a = Bodied(x) /\ a \in Seq(E) /\ Len(a) = Len(x)
                  /\ \A j \in 1 .. Len(x) : a[j] = BodyAt(x, j)
  BY <1>1, BodiedIs
<1>3. PICK F, b : /\ b = Bodied(y) /\ b \in Seq(F) /\ Len(b) = Len(y)
                  /\ \A j \in 1 .. Len(y) : b[j] = BodyAt(y, j)
  BY <1>1, BodiedIs
<1>4. PICK S, T : S = CallSet(r, x) /\ T = Below(CallSet(r, y), m)
  OBVIOUS
<1>11. \A j : j \in T <=> j \in CallSet(r, y) /\ j \in 1 .. m
  BY <1>4, BelowIs
<1>5. \A j \in 1 .. m : (j \in S <=> j \in T) /\ (j \in S => BodyAt(x, j) = BodyAt(y, j))
  BY <1>4, <1>11, CallsKept
<1>6. \A j \in 1 .. Len(x) : ~(j <= m) => j \notin S /\ j \notin T
  BY <1>1, <1>4, <1>11
<1>7. \A j \in 1 .. Len(a) : (j \in S <=> j \in T) /\ (j \in S => a[j] = b[j])
  <2> TAKE j \in 1 .. Len(a)
  <2>1. j \in 1 .. Len(x) /\ j \in 1 .. Len(y)
    BY <1>1, <1>2
  <2>2. a[j] = BodyAt(x, j) /\ b[j] = BodyAt(y, j)
    BY <1>2, <1>3, <2>1
  <2>3. CASE j <= m
    <3>1. j \in 1 .. m
      BY <1>1, <2>1, <2>3
    <3> QED
      BY <1>5, <2>2, <3>1
  <2>4. CASE ~(j <= m)
    BY <1>6, <2>1, <2>4
  <2> QED
    BY <2>3, <2>4
<1>8. \A j \in Len(a) + 1 .. Len(b) : j \notin T
  BY <1>1, <1>2, <1>3, <1>11
<1>9. Len(a) <= Len(b)
  BY <1>1, <1>2, <1>3
<1>10. Picked(b, T) = Picked(a, S)
  BY <1>2, <1>3, <1>7, <1>8, <1>9, PickedGrow
<1> QED
  BY <1>1, <1>2, <1>3, <1>4, <1>10, CallsIs

\* No call is added behind the settled part: the calls stay as they were.
LEMMA SameCalls ==
    \A r, x, y, m : Grown(r, x, y, m)
                    /\ (\A j \in CallSet(r, x) : j <= m) /\ (\A j \in CallSet(r, y) : j <= m)
       => Calls(r, y) = Calls(r, x)
<1> TAKE r, x, y, m
<1> HAVE Grown(r, x, y, m) /\ (\A j \in CallSet(r, x) : j <= m) /\ (\A j \in CallSet(r, y) : j <= m)
<1>1. y \in Texts /\ m \in Nat
  BY DEF Grown, Shares
<1>2. PICK T : T = CallSet(r, y)
  OBVIOUS
<1>3. \A j \in T : j \in 1 .. Len(y)
  BY <1>1, <1>2, CallSetIs, OpensIs
<1>4. Below(T, m) = T
  <2>1. \A j \in T : j \in 1 .. m
    BY <1>1, <1>2, <1>3
  <2> QED
    BY <2>1, BelowAll
<1>5. Picked(Bodied(y), Below(T, m)) = Calls(r, x)
  BY <1>2, CallsBelow
<1> QED
  BY <1>1, <1>2, <1>4, <1>5, CallsIs

\* A text that has been read up to n, where nothing is open, and of which c was sent.
Base(r, x, n, c) ==
    /\ x \in Texts /\ Len(x) \in Nat /\ n \in 0 .. Len(x)
    /\ Settled(r, x, n)
    /\ \A j \in Opens(r, x) : j > n => \A k \in Closes(x) : ~(k >= j + 2)
    /\ \A p \in Stops(r, x) : p \in Hidden(r, x) \/ p > n
    /\ c = Picked(x, (1 .. n) \ Hidden(r, x))

\* No stop string outside of the calls.
Quiet(r, x) == \A p \in Stops(r, x) : p \in Hidden(r, x)

\* Behind n the first opening tag hides all.
LEMMA BaseHidden ==
    \A r, x, n, c : Base(r, x, n, c) =>
       \A i \in n + 1 .. Len(x) : i \in Hidden(r, x) <=> \E j \in Opens(r, x) : n < j /\ j <= i
<1> TAKE r, x, n, c
<1> HAVE Base(r, x, n, c)
<1>1. /\ x \in Texts /\ Len(x) \in Nat /\ n \in 0 .. Len(x)
      /\ \A j \in Opens(r, x) : j <= n => \E k \in Closes(x) : k >= j + 2 /\ k + 1 <= n
      /\ \A j \in Opens(r, x) : j > n => \A k \in Closes(x) : ~(k >= j + 2)
  BY DEF Base, Settled
<1> TAKE i \in n + 1 .. Len(x)
<1>2. i \in 1 .. Len(x)
  BY <1>1
<1>3. i \in Hidden(r, x) <=> \E j \in Opens(r, x) : j <= i /\ \A k \in Closes(x) : ~(k >= j + 2 /\ k + 1 < i)
  BY <1>1, <1>2, HiddenIs
<1>4. \A j \in Opens(r, x) : j \in Nat
  BY <1>1, OpensIs
<1>5. \A k \in Closes(x) : k \in Nat
  BY <1>1, ClosesIs
<1>6. ASSUME NEW j \in Opens(r, x), j <= i, n < j PROVE i \in Hidden(r, x)
  <2>1. \A k \in Closes(x) : ~(k >= j + 2)
    BY <1>1, <1>4, <1>6
  <2> QED
    BY <1>3, <1>6, <2>1
<1>7. ASSUME NEW j \in Opens(r, x), j <= i, \A k \in Closes(x) : ~(k >= j + 2 /\ k + 1 < i) PROVE n < j
  <2>1. SUFFICES ASSUME j <= n PROVE FALSE
    BY <1>1, <1>4
  <2>2. PICK k \in Closes(x) : k >= j + 2 /\ k + 1 <= n
    BY <1>1, <2>1
  <2> QED
    BY <1>1, <1>5, <1>7, <2>2
<1> QED
  BY <1>3, <1>6, <1>7

\* What stands between n and m is shown when no call begins there.
LEMMA BaseRun ==
    \A r, x, n, c, m : Base(r, x, n, c) /\ m \in n .. Len(x) /\ (\A j \in Opens(r, x) : ~(n < j /\ j <= m))
       => Cat(c, Sub(x, n + 1, m)) = Picked(x, (1 .. m) \ Hidden(r, x))
<1> TAKE r, x, n, c, m
<1> HAVE Base(r, x, n, c) /\ m \in n .. Len(x) /\ (\A j \in Opens(r, x) : ~(n < j /\ j <= m))
<1>1. x \in Texts /\ Len(x) \in Nat /\ n \in 0 .. Len(x) /\ c = Picked(x, (1 .. n) \ Hidden(r, x))
  BY DEF Base
<1>2. PICK H, S : H = Hidden(r, x) /\ S = (1 .. m) \ H
  OBVIOUS
<1>3. \A i \in n + 1 .. m : i \notin H
  <2> TAKE i \in n + 1 .. m
  <2>1. i \in n + 1 .. Len(x) /\ i <= m /\ i \in Nat
    BY <1>1
  <2>2. \A j \in Opens(r, x) : j \in Nat
    BY <1>1, OpensIs
  <2>3. ~\E j \in Opens(r, x) : n < j /\ j <= i
    BY <1>1, <2>1, <2>2
  <2> QED
    BY <1>2, <2>1, <2>3, BaseHidden
<1>4. \A i \in n + 1 .. m : i \in S
  BY <1>1, <1>2, <1>3
<1>5. Below(S, m) = S /\ Below(S, n) = (1 .. n) \ H
  BY <1>1, <1>2, BelowIs
<1>6. x \in Seq(Symbols) /\ n \in 0 .. Len(x) /\ m \in n .. Len(x)
  BY <1>1 DEF Texts
<1>7. Picked(x, Below(S, m)) = Cat(Picked(x, Below(S, n)), Sub(x, n + 1, m))
  BY <1>4, <1>6, RunPicked
<1> QED
  BY <1>1, <1>2, <1>5, <1>7

\* Where content ends.
LEMMA LimitIs ==
    \A r, x : x \in Texts =>
       /\ Limit(r, x) \in 1 .. Len(x) + 1
       /\ \A p \in Stops(r, x) : p \in Hidden(r, x) \/ Limit(r, x) <= p
       /\ Limit(r, x) # Len(x) + 1 => Limit(r, x) \in Stops(r, x) /\ Limit(r, x) \notin Hidden(r, x)
<1> TAKE r, x
<1> HAVE x \in Texts
<1>1. Len(x) \in Nat
  BY LenProperties DEF Texts
<1>2. PICK T, l : T = {Len(x) + 1} \cup (Stops(r, x) \ Hidden(r, x)) /\ l = Limit(r, x)
  OBVIOUS
<1>3. \A p \in Stops(r, x) : p \in 1 .. Len(x)
  BY StopsIs
<1>4. T \subseteq 1 .. Len(x) + 1 /\ Len(x) + 1 \in T
  BY <1>1, <1>2, <1>3
<1>5. l \in T /\ \A p \in T : l <= p
  <2>1. CASE r.stop
    <3>1. l = Min(T)
      BY <1>2, <2>1, Zenon DEF Limit, Stops
    <3>2. T \subseteq Nat /\ T # {}
      BY <1>1, <1>4
    <3> QED
      BY <3>1, <3>2, MinIs
  <2>2. CASE ~r.stop
    <3>1. l = Len(x) + 1
      BY <1>2, <2>2, Zenon DEF Limit
    <3>2. Stops(r, x) = {}
      BY <2>2, Zenon DEF Stops
    <3> QED
      BY <1>1, <1>2, <3>1, <3>2
  <2> QED
    BY <2>1, <2>2
<1> QED
  BY <1>2, <1>4, <1>5

\* What was sent is a beginning of what is visible.
LEMMA BaseBegins ==
    \A r, x, n, c : Base(r, x, n, c) => c \in Texts /\ Visible(r, x) \in Texts /\ Begins(Symbols, c, Visible(r, x))
<1> TAKE r, x, n, c
<1> HAVE Base(r, x, n, c)
<1>1. /\ x \in Texts /\ Len(x) \in Nat /\ n \in 0 .. Len(x) /\ c = Picked(x, (1 .. n) \ Hidden(r, x))
      /\ \A p \in Stops(r, x) : p \in Hidden(r, x) \/ p > n
  BY DEF Base
<1>2. PICK H, l, S : H = Hidden(r, x) /\ l = Limit(r, x) /\ S = (1 .. l - 1) \ H
  OBVIOUS
<1>3. l \in 1 .. Len(x) + 1 /\ (l # Len(x) + 1 => l \in Stops(r, x) /\ l \notin H)
  BY <1>1, <1>2, LimitIs
<1>4. n <= l - 1
  BY <1>1, <1>2, <1>3
<1>5. Below(S, n) = (1 .. n) \ H
  BY <1>1, <1>2, <1>3, <1>4, BelowIs
<1>6. Visible(r, x) = Picked(x, S)
  BY <1>2, Zenon DEF Visible
<1>7. x \in Seq(Symbols)
  BY <1>1 DEF Texts
<1>8. Begins(Symbols, Picked(x, Below(S, n)), Picked(x, S)) /\ Picked(x, S) \in Seq(Symbols)
      /\ Picked(x, Below(S, n)) \in Seq(Symbols)
  BY <1>1, <1>7, BeginsPicked, PickedType
<1> QED
  BY <1>1, <1>2, <1>5, <1>6, <1>8 DEF Texts

\* It is all of it when the rest is hidden.
LEMMA BaseAll ==
    \A r, x, n, c : Base(r, x, n, c) /\ Quiet(r, x) /\ (\A i \in n + 1 .. Len(x) : i \in Hidden(r, x))
       => c = Visible(r, x)
<1> TAKE r, x, n, c
<1> HAVE Base(r, x, n, c) /\ Quiet(r, x) /\ (\A i \in n + 1 .. Len(x) : i \in Hidden(r, x))
<1>1. /\ x \in Texts /\ Len(x) \in Nat /\ n \in 0 .. Len(x) /\ c = Picked(x, (1 .. n) \ Hidden(r, x))
      /\ \A p \in Stops(r, x) : p \in Hidden(r, x)
  BY DEF Base, Quiet
<1>2. PICK H, l, S, U : H = Hidden(r, x) /\ l = Limit(r, x) /\ S = (1 .. l - 1) \ H /\ U = (1 .. n) \ H
  OBVIOUS
<1>3. l = Len(x) + 1
  BY <1>1, <1>2, LimitIs
<1>4. \A i \in 1 .. Len(x) : i \in S <=> i \in U
  BY <1>1, <1>2, <1>3
<1>5. Visible(r, x) = Picked(x, S)
  BY <1>2, Zenon DEF Visible
<1>6. x \in Seq(Symbols)
  BY <1>1 DEF Texts
<1>7. Picked(x, S) = Picked(x, U)
  BY <1>4, <1>6, PickedSame
<1> QED
  BY <1>1, <1>2, <1>5, <1>7

\* What stands before the first stop string, if that is not hidden, is what is visible.
LEMMA StopVisible ==
    \A r, x, p : /\ x \in Texts /\ p \in Stops(r, x) /\ p \notin Hidden(r, x)
                 /\ \A q \in Stops(r, x) : q \in Hidden(r, x) \/ p <= q
       => Visible(r, x) = Picked(x, (1 .. p - 1) \ Hidden(r, x))
<1> TAKE r, x, p
<1> HAVE /\ x \in Texts /\ p \in Stops(r, x) /\ p \notin Hidden(r, x)
         /\ \A q \in Stops(r, x) : q \in Hidden(r, x) \/ p <= q
<1>1. PICK l : l = Limit(r, x)
  OBVIOUS
<1>2. Len(x) \in Nat
  BY LenProperties DEF Texts
<1>3. p \in 1 .. Len(x)
  BY StopsIs
<1>4. /\ l \in 1 .. Len(x) + 1 /\ (p \in Hidden(r, x) \/ l <= p)
      /\ l # Len(x) + 1 => l \in Stops(r, x) /\ l \notin Hidden(r, x)
  BY <1>1, LimitIs
<1>5. l = p
  BY <1>2, <1>3, <1>4
<1> QED
  BY <1>1, <1>5, Zenon DEF Visible

\* The calls that are closed begin before n.
LEMMA BaseCalls ==
    \A r, x, n, c : Base(r, x, n, c) => \A j \in CallSet(r, x) : j <= n
<1> TAKE r, x, n, c
<1> HAVE Base(r, x, n, c)
<1>1. /\ x \in Texts /\ Len(x) \in Nat /\ n \in 0 .. Len(x)
      /\ \A j \in Opens(r, x) : j > n => \A k \in Closes(x) : ~(k >= j + 2)
  BY DEF Base
<1> TAKE j \in CallSet(r, x)
<1>2. j \in Opens(r, x) /\ Closing(x, j) <= Len(x)
  BY <1>1, CallSetIs
<1>3. j \in Nat
  BY <1>1, <1>2, OpensIs
<1>4. PICK k : k = Closing(x, j)
  OBVIOUS
<1>5. k \in Nat /\ (k # Len(x) + 1 => k \in Closes(x) /\ k >= j + 2)
  BY <1>1, <1>3, <1>4, ClosingIs
<1>6. k \in Closes(x) /\ k >= j + 2
  BY <1>1, <1>2, <1>4, <1>5
<1> QED
  BY <1>1, <1>2, <1>3, <1>6

-----------------------------------------------------------------------------
(* How a text goes on with a token *)

Piece(t) == t \in Texts /\ (t = Close \/ \A i \in 1 .. Len(t) : t[i] # "c1" /\ t[i] # "c2")

\* Outside of a call: v was read, b is held back.
FreeAt(r, x, v, b, c) ==
    /\ v \in Texts /\ b \in Texts /\ x = Cat(v, b)
    /\ Base(r, x, Len(v), c)
    /\ \A j \in Opens(r, x) : j <= Len(v)
    /\ Quiet(r, x)

\* Enough is held back.
Tight(r, v, b) ==
    \/ v = <<>>
    \/ v[Len(v)] = "c2"
    \/ (r.tools => Len(b) >= 1) /\ (r.stop => Len(b) >= 2)

\* Inside the call that begins at j.
InAt(r, x, j, c) == j \in Opens(r, x) /\ Base(r, x, j - 1, c) /\ Quiet(r, x)

\* A closing tag does not end within a token.
LEMMA NewClose ==
    \A x, t, k : x \in Texts /\ Piece(t) /\ k \in Closes(Cat(x, t))
       => k \in Nat /\ (k + 1 <= Len(x) \/ (k = Len(x) + 1 /\ t = Close))
<1> TAKE x, t, k
<1> HAVE x \in Texts /\ Piece(t) /\ k \in Closes(Cat(x, t))
<1>1. t \in Texts /\ (t = Close \/ \A i \in 1 .. Len(t) : t[i] # "c1" /\ t[i] # "c2")
  BY DEF Piece
<1>2. PICK y, n : y = Cat(x, t) /\ n = Len(x)
  OBVIOUS
<1>3. n \in Nat /\ Len(t) \in Nat
  BY <1>1, <1>2, LenProperties DEF Texts
<1>4. y \in Texts /\ Len(y) = n + Len(t) /\ \A i \in 1 .. Len(t) : y[n + i] = t[i]
  BY <1>1, <1>2, CatIs DEF Texts
<1>5. k \in 1 .. Len(y) /\ k + 1 \in 1 .. Len(y) /\ y[k] = "c1" /\ y[k + 1] = "c2"
  <2>1. k \in Closes(y)
    BY <1>2
  <2> QED
    BY <1>4, <2>1, ClosesIs
<1>6. ASSUME ~(k + 1 <= n) PROVE k = n + 1 /\ t = Close
  <2>1. PICK i : i = k + 1 - n
    OBVIOUS
  <2>2. i \in 1 .. Len(t) /\ n + i = k + 1
    BY <1>3, <1>4, <1>5, <1>6, <2>1
  <2>3. t[i] = "c2"
    BY <1>4, <1>5, <2>2
  <2>4. t = Close
    BY <1>1, <2>2, <2>3
  <2>5. Len(t) = 2 /\ t[1] = "c1"
    BY <2>4 DEF Close
  <2>6. i = 2
    BY <2>2, <2>3, <2>5
  <2> QED
    BY <1>3, <1>4, <1>5, <2>2, <2>4, <2>6
<1> QED
  BY <1>2, <1>3, <1>5, <1>6

\* A token after text outside of a call.
LEMMA FreeGrown ==
    \A r, x, v, b, c, t : FreeAt(r, x, v, b, c) /\ Tight(r, v, b) /\ Piece(t) =>
       /\ Base(r, Cat(x, t), Len(v), c)
       /\ Calls(r, Cat(x, t)) = Calls(r, x)
       /\ \A j \in Opens(r, Cat(x, t)) : j > Len(v) => j >= Len(x)
<1> TAKE r, x, v, b, c, t
<1> HAVE FreeAt(r, x, v, b, c) /\ Tight(r, v, b) /\ Piece(t)
<1>1. PICK y, n, m : y = Cat(x, t) /\ n = Len(v) /\ m = Len(x)
  OBVIOUS
<1>2. /\ v \in Texts /\ b \in Texts /\ x = Cat(v, b)
      /\ Base(r, x, n, c)
      /\ \A j \in Opens(r, x) : j <= n
      /\ Quiet(r, x)
  BY <1>1 DEF FreeAt
<1>3. v = <<>> \/ v[n] = "c2" \/ ((r.tools => Len(b) >= 1) /\ (r.stop => Len(b) >= 2))
  BY <1>1 DEF Tight
<1>4. t \in Texts
  BY DEF Piece
<1>5. /\ x \in Texts /\ m \in Nat /\ n \in 0 .. m /\ Settled(r, x, n)
      /\ \A j \in Opens(r, x) : j > n => \A k \in Closes(x) : ~(k >= j + 2)
      /\ \A p \in Stops(r, x) : p \in Hidden(r, x) \/ p > n
      /\ c = Picked(x, (1 .. n) \ Hidden(r, x))
  BY <1>1, <1>2 DEF Base
<1>6. n \in Nat /\ Len(b) \in Nat /\ m = n + Len(b) /\ (n # 0 => x[n] = v[n])
  <2>1. n \in Nat /\ Len(b) \in Nat
    BY <1>1, <1>2, LenProperties DEF Texts
  <2>2. v \in Seq(Symbols) /\ b \in Seq(Symbols)
    BY <1>2 DEF Texts
  <2>3. Len(Cat(v, b)) = Len(v) + Len(b) /\ \A i \in 1 .. Len(v) : Cat(v, b)[i] = v[i]
    BY <2>2, CatIs
  <2> QED
    BY <1>1, <1>2, <2>1, <2>3
<1>7. Shares(x, y)
  BY <1>1, <1>4, <1>5, CatShares
<1>8. y \in Texts /\ Len(y) \in Nat /\ m <= Len(y) /\ \A i \in 1 .. m : y[i] = x[i]
  BY <1>1, <1>7 DEF Shares
<1>9. n = 0 \/ x[n] = "c2" \/ ((r.tools => m >= n + 1) /\ (r.stop => m >= n + 2))
  <2>1. v = <<>> => n = 0
    BY <1>1
  <2> QED
    BY <1>3, <1>6, <2>1
<1>10. Grown(r, x, y, n)
  <2>1. Firm(r, x, n)
    <3>1. r.tools => n < m \/ n = 0 \/ x[n] = "c2"
      BY <1>5, <1>9
    <3> QED
      BY <1>1, <3>1 DEF Firm
  <2> QED
    BY <1>1, <1>5, <1>7, <2>1 DEF Grown
<1>11. ASSUME NEW j \in Opens(r, y), j > n PROVE j \in Nat /\ j >= m
  <2>1. j \in Nat
    BY <1>8, OpensIs
  <2>2. SUFFICES ASSUME ~(j >= m) PROVE FALSE
    BY <2>1
  <2>3. j + 1 <= Len(x)
    BY <1>1, <1>5, <2>1, <2>2
  <2>4. j \in Opens(r, x)
    BY <1>7, <2>1, <2>3, TagsStay
  <2> QED
    BY <1>2, <1>5, <1>11, <2>1, <2>4
<1>12. ASSUME NEW j \in Opens(r, y), j > n, NEW k \in Closes(y), k >= j + 2 PROVE FALSE
  <2>1. j \in Nat /\ j >= m
    BY <1>11, <1>12
  <2>2. k \in Nat /\ (k + 1 <= m \/ k = m + 1)
    <3>1. k \in Closes(Cat(x, t))
      BY <1>1
    <3> QED
      BY <1>1, <1>5, <3>1, NewClose
  <2> QED
    BY <1>5, <1>12, <2>1, <2>2
<1>13. ASSUME NEW p \in Stops(r, y), ~(p > n) PROVE p \in Hidden(r, y)
  <2>1. /\ r.stop /\ p \in 1 .. Len(y) /\ p + 1 \in 1 .. Len(y) /\ p + 2 \in 1 .. Len(y)
        /\ y[p] = "s" /\ y[p + 1] = "s" /\ y[p + 2] = "z"
    BY <1>8, StopsIs
  <2>2. p \in 1 .. n
    BY <1>5, <1>8, <1>13, <2>1
  <2>3. p + 2 <= m
    <3>1. SUFFICES ASSUME ~(p + 2 <= m) PROVE FALSE
      BY <1>5, <2>2
    <3>2. n = p \/ n = p + 1
      BY <1>5, <2>2, <3>1
    <3>3. y[n] = "s" /\ x[n] = y[n]
      BY <1>5, <1>8, <2>1, <2>2, <3>2
    <3> QED
      BY <1>5, <1>9, <2>1, <2>2, <3>1, <3>2, <3>3
  <2>4. p \in Stops(r, x)
    <3>1. p \in Nat /\ p + 2 <= Len(x)
      BY <1>1, <1>5, <2>2, <2>3
    <3> QED
      BY <1>7, <3>1, TagsStay
  <2>5. p \in Hidden(r, x)
    BY <1>2, <2>4 DEF Quiet
  <2> QED
    BY <1>10, <2>2, <2>5, HiddenKept
<1>14. Settled(r, y, n) /\ c = Picked(y, (1 .. n) \ Hidden(r, y))
  BY <1>5, <1>10, SettledKept, ShownKept
<1>15. Base(r, y, n, c)
  <2>1. n \in 0 .. Len(y)
    BY <1>5, <1>8
  <2> QED
    BY <1>8, <1>12, <1>13, <1>14, <2>1 DEF Base
<1>16. Calls(r, y) = Calls(r, x)
  <2>1. (\A j \in CallSet(r, x) : j <= n) /\ (\A j \in CallSet(r, y) : j <= n)
    BY <1>2, <1>15, BaseCalls
  <2> QED
    BY <1>10, <2>1, SameCalls
<1> QED
  BY <1>1, <1>11, <1>15, <1>16

\* What stands before an open call stays as it is.
Stays(r, x, j, c, y, n) ==
    /\ n = j - 1 /\ j \in Nat \ {0} /\ j + 1 <= Len(x) /\ j \in Opens(r, y)
    /\ Grown(r, x, y, n)
    /\ Settled(r, y, n)
    /\ \A p \in Stops(r, y) : p < j => p \in Hidden(r, y)
    /\ c = Picked(y, (1 .. n) \ Hidden(r, y))

\* A call that is open hides whatever follows, up to its closing tag.
LEMMA InStays ==
    \A r, x, j, c, t : InAt(r, x, j, c) /\ t \in Texts => Stays(r, x, j, c, Cat(x, t), j - 1)
<1> TAKE r, x, j, c, t
<1> HAVE InAt(r, x, j, c) /\ t \in Texts
<1>0. PICK y, n : y = Cat(x, t) /\ n = j - 1
  OBVIOUS
<1>1. PICK m : m = Len(x)
  OBVIOUS
<1>2. j \in Opens(r, x) /\ Base(r, x, n, c) /\ Quiet(r, x)
  BY <1>0, <1>1 DEF InAt
<1>3. /\ x \in Texts /\ m \in Nat /\ n \in 0 .. m /\ Settled(r, x, n)
      /\ c = Picked(x, (1 .. n) \ Hidden(r, x))
  BY <1>0, <1>1, <1>2 DEF Base
<1>4. j \in Nat \ {0} /\ j + 1 <= m
  <2>1. j \in 1 .. Len(x) /\ j + 1 \in 1 .. Len(x)
    BY <1>2, <1>3, OpensIs
  <2> QED
    BY <1>0, <1>1, <1>3, <2>1
<1>5. Shares(x, y)
  BY <1>0, <1>1, <1>3, CatShares
<1>6. y \in Texts /\ Len(y) \in Nat /\ m <= Len(y)
  BY <1>0, <1>1, <1>5 DEF Shares
<1>7. Grown(r, x, y, n)
  <2>1. n < m
    BY <1>0, <1>1, <1>3, <1>4
  <2> QED
    BY <1>0, <1>1, <1>3, <1>5, <2>1 DEF Grown, Firm
<1>8. j \in Opens(r, y)
  BY <1>0, <1>1, <1>2, <1>4, <1>5, TagsStay
<1>9. ASSUME NEW p \in Stops(r, y), p < j PROVE p \in Hidden(r, y)
  <2>1. p \in 1 .. Len(y)
    BY <1>6, StopsIs
  <2>2. p \in 1 .. n /\ p \in Nat /\ p + 2 <= Len(x)
    BY <1>0, <1>1, <1>4, <1>6, <1>9, <2>1
  <2>3. p \in Stops(r, x)
    BY <1>5, <2>2, TagsStay
  <2>4. p \in Hidden(r, x)
    BY <1>2, <2>3 DEF Quiet
  <2> QED
    BY <1>7, <2>2, <2>4, HiddenKept
<1>10. Settled(r, y, n) /\ c = Picked(y, (1 .. n) \ Hidden(r, y))
  BY <1>3, <1>7, SettledKept, ShownKept
<1>11. Stays(r, x, j, c, y, n)
  BY <1>0, <1>1, <1>4, <1>7, <1>8, <1>9, <1>10 DEF Stays
<1> QED
  BY <1>0, <1>11

\* A token inside a call that does not close it.
LEMMA InGrown ==
    \A r, x, j, c, t : InAt(r, x, j, c) /\ Piece(t) /\ t # Close =>
       InAt(r, Cat(x, t), j, c) /\ Calls(r, Cat(x, t)) = Calls(r, x)
<1> TAKE r, x, j, c, t
<1> HAVE InAt(r, x, j, c) /\ Piece(t) /\ t # Close
<1>1. PICK y, n : y = Cat(x, t) /\ n = j - 1
  OBVIOUS
<1>2. j \in Opens(r, x) /\ Base(r, x, n, c) /\ t \in Texts
  BY <1>1 DEF InAt, Piece
<1>3. /\ x \in Texts /\ Len(x) \in Nat
      /\ \A i \in Opens(r, x) : i > n => \A k \in Closes(x) : ~(k >= i + 2)
  BY <1>2 DEF Base
<1>4. /\ j \in Nat \ {0} /\ j + 1 <= Len(x) /\ j \in Opens(r, y)
      /\ Grown(r, x, y, n) /\ Settled(r, y, n)
      /\ \A p \in Stops(r, y) : p < j => p \in Hidden(r, y)
      /\ c = Picked(y, (1 .. n) \ Hidden(r, y))
  <2>1. InAt(r, x, j, c) /\ t \in Texts
    BY <1>2
  <2>2. Stays(r, x, j, c, Cat(x, t), j - 1)
    BY <2>1, InStays, Zenon
  <2>3. Stays(r, x, j, c, y, n)
    BY <1>1, <2>2, Zenon
  <2> QED
    BY <2>3 DEF Stays
<1>5. Shares(x, y) /\ y \in Texts /\ Len(y) \in Nat /\ Len(x) <= Len(y)
  BY <1>4 DEF Grown, Shares
<1>6. \A k \in Closes(y) : k \in Nat /\ ~(k >= j + 2)
  <2> SUFFICES ASSUME NEW k \in Closes(y) PROVE k \in Nat /\ ~(k >= j + 2)
    OBVIOUS
  <2>1. k \in Closes(Cat(x, t))
    BY <1>1
  <2>2. k \in Nat /\ k + 1 <= Len(x)
    BY <1>3, <2>1, NewClose
  <2>3. k \in Closes(x)
    BY <1>5, <2>2, TagsStay
  <2> QED
    BY <1>1, <1>2, <1>3, <1>4, <2>2, <2>3
<1>7. \A i \in Opens(r, y) : i > n => \A k \in Closes(y) : ~(k >= i + 2)
  <2>1. \A i \in Opens(r, y) : i \in Nat
    BY <1>5, OpensIs
  <2> QED
    BY <1>1, <1>4, <1>6, <2>1
<1>8. ASSUME NEW p \in Stops(r, y) PROVE p \in Hidden(r, y)
  <2>1. p \in 1 .. Len(y)
    BY <1>5, StopsIs
  <2>2. CASE p < j
    BY <1>4, <2>2
  <2>3. CASE ~(p < j)
    <3>1. j <= p /\ \A k \in Closes(y) : ~(k >= j + 2 /\ k + 1 < p)
      BY <1>4, <1>6, <2>1, <2>3
    <3> QED
      BY <1>4, <1>5, <2>1, <3>1, HiddenIs
  <2> QED
    BY <2>2, <2>3
<1>9. Base(r, y, n, c)
  <2>1. n \in 0 .. Len(y)
    BY <1>1, <1>3, <1>4, <1>5
  <2> QED
    BY <1>4, <1>5, <1>7, <1>8, <2>1 DEF Base
<1>10. InAt(r, y, j, c)
  BY <1>1, <1>4, <1>8, <1>9 DEF InAt, Quiet
<1>11. Calls(r, y) = Calls(r, x)
  <2>1. (\A i \in CallSet(r, x) : i <= n) /\ (\A i \in CallSet(r, y) : i <= n)
    BY <1>2, <1>9, BaseCalls
  <2> QED
    BY <1>4, <2>1, SameCalls
<1> QED
  BY <1>1, <1>10, <1>11

\* The tags of a text that ends with a closing tag.
LEMMA TagsClosed ==
    \A r, x, y : x \in Texts /\ y = Cat(x, Close) =>
       /\ Shares(x, y) /\ y \in Texts /\ Len(x) \in Nat /\ Len(y) = Len(x) + 2
       /\ y[Len(y)] = "c2"
       /\ Len(x) + 1 \in Closes(y)
       /\ \A k \in Closes(y) : k \in Closes(x) \/ k = Len(x) + 1
       /\ \A i \in Opens(r, y) : i \in Nat \ {0} /\ i + 1 <= Len(x) /\ i \in Opens(r, x)
       /\ \A p \in Stops(r, y) : p \in Nat \ {0} /\ p + 2 <= Len(x) /\ p \in Stops(r, x)
<1> TAKE r, x, y
<1> HAVE x \in Texts /\ y = Cat(x, Close)
<1>1. PICK t : t = Close
  OBVIOUS
<1>2. t \in Seq(Symbols) /\ Len(t) = 2 /\ t[1] = "c1" /\ t[2] = "c2"
  BY <1>1 DEF Close, Symbols
<1>3. Piece(t) /\ t \in Texts
  BY <1>1, <1>2 DEF Piece, Texts
<1>4. PICK m : m = Len(x) /\ m \in Nat
  BY LenProperties DEF Texts
<1>5. Shares(x, y)
  BY <1>1, <1>3, CatShares
<1>6. y \in Texts /\ \A i \in 1 .. m : y[i] = x[i]
  BY <1>4, <1>5 DEF Shares
<1>7. Len(y) = m + 2 /\ y[m + 1] = "c1" /\ y[m + 2] = "c2"
  <2>1. x \in Seq(Symbols) /\ t \in Seq(Symbols)
    BY <1>2 DEF Texts
  <2>2. Len(Cat(x, t)) = Len(x) + Len(t) /\ \A i \in 1 .. Len(t) : Cat(x, t)[Len(x) + i] = t[i]
    BY <2>1, CatIs
  <2>3. 1 \in 1 .. Len(t) /\ 2 \in 1 .. Len(t)
    BY <1>2
  <2> QED
    BY <1>1, <1>2, <1>4, <2>2, <2>3
<1>8. m + 1 \in Closes(y)
  <2>1. m + 1 \in 1 .. Len(y) /\ (m + 1) + 1 \in 1 .. Len(y) /\ y[m + 1] = "c1" /\ y[(m + 1) + 1] = "c2"
    BY <1>4, <1>7
  <2> QED
    BY <1>6, <2>1, ClosesIs
<1>9. ASSUME NEW k \in Closes(y) PROVE k \in Closes(x) \/ k = m + 1
  <2>1. k \in Closes(Cat(x, t))
    BY <1>1
  <2>2. k \in Nat /\ (k + 1 <= Len(x) \/ k = Len(x) + 1)
    BY <1>3, <2>1, NewClose
  <2> QED
    BY <1>4, <1>5, <2>2, TagsStay
<1>10. ASSUME NEW i \in Opens(r, y) PROVE i \in Nat \ {0} /\ i + 1 <= m /\ i \in Opens(r, x)
  <2>1. i \in 1 .. Len(y) /\ i + 1 \in 1 .. Len(y) /\ y[i] = "o1" /\ y[i + 1] = "o2"
    BY <1>6, OpensIs
  <2>2. i + 1 # m + 1 /\ i + 1 # m + 2
    BY <1>7, <2>1
  <2>3. i \in Nat \ {0} /\ i + 1 <= m
    BY <1>4, <1>7, <2>1, <2>2
  <2> QED
    BY <1>4, <1>5, <2>3, TagsStay
<1>11. ASSUME NEW p \in Stops(r, y) PROVE p \in Nat \ {0} /\ p + 2 <= m /\ p \in Stops(r, x)
  <2>1. /\ p \in 1 .. Len(y) /\ p + 2 \in 1 .. Len(y) /\ y[p + 1] = "s" /\ y[p + 2] = "z"
    BY <1>6, StopsIs
  <2>2. p + 2 # m + 1 /\ p + 2 # m + 2
    BY <1>7, <2>1
  <2>3. p \in Nat \ {0} /\ p + 2 <= m
    BY <1>4, <1>7, <2>1, <2>2
  <2> QED
    BY <1>4, <1>5, <2>3, TagsStay
<1> QED
  BY <1>4, <1>5, <1>6, <1>7, <1>8, <1>9, <1>10, <1>11

\* A closing tag after text inside a call.
LEMMA InClosed ==
    \A r, x, j, c, y, e, body :
       InAt(r, x, j, c) /\ y = Cat(x, Close) /\ e = <<>> /\ body = Sub(x, j + 2, Len(x)) =>
          /\ FreeAt(r, y, y, e, c) /\ Tight(r, y, e)
          /\ Calls(r, y) = IF Body(body) = "call" THEN App(Calls(r, x), body) ELSE Calls(r, x)
<1> TAKE r, x, j, c, y, e, body
<1> HAVE InAt(r, x, j, c) /\ y = Cat(x, Close) /\ e = <<>> /\ body = Sub(x, j + 2, Len(x))
<1>1. PICK n, m, z : n = j - 1 /\ m = Len(x) /\ z = Len(x) + 1
  OBVIOUS
<1>2. j \in Opens(r, x) /\ Base(r, x, n, c) /\ Quiet(r, x)
  BY <1>1 DEF InAt
<1>3. /\ x \in Texts /\ m \in Nat
      /\ \A i \in Opens(r, x) : i > n => \A k \in Closes(x) : ~(k >= i + 2)
  BY <1>1, <1>2 DEF Base
<1>4. /\ Shares(x, y) /\ y \in Texts /\ m \in Nat /\ Len(y) = m + 2
      /\ y[Len(y)] = "c2"
      /\ z \in Closes(y)
      /\ \A k \in Closes(y) : k \in Closes(x) \/ k = z
      /\ \A i \in Opens(r, y) : i \in Nat \ {0} /\ i + 1 <= m /\ i \in Opens(r, x)
      /\ \A p \in Stops(r, y) : p \in Nat \ {0} /\ p + 2 <= m /\ p \in Stops(r, x)
  BY <1>1, <1>3, TagsClosed
<1>5. /\ j \in Nat \ {0} /\ j + 1 <= m /\ j \in Opens(r, y)
      /\ Grown(r, x, y, n) /\ Settled(r, y, n)
      /\ c = Picked(y, (1 .. n) \ Hidden(r, y))
  <2>1. InAt(r, x, j, c) /\ Close \in Texts
    BY DEF Close, Texts, Symbols
  <2>2. Stays(r, x, j, c, Cat(x, Close), j - 1)
    BY <2>1, InStays, Zenon
  <2>3. Stays(r, x, j, c, y, n)
    BY <1>1, <2>2, Zenon
  <2> QED
    BY <1>1, <2>3 DEF Stays
<1>6. \A k \in Closes(x) : ~(k >= j + 2)
  BY <1>1, <1>2, <1>3, <1>5
<1>7. \A k \in Closes(y) : k >= j + 2 => k = z
  BY <1>4, <1>6
<1>8. \A i \in j .. Len(y) : i \in Hidden(r, y)
  <2> TAKE i \in j .. Len(y)
  <2>1. i \in 1 .. Len(y) /\ j <= i /\ i <= m + 2 /\ i \in Nat
    BY <1>4, <1>5
  <2>2. \A k \in Closes(y) : ~(k >= j + 2 /\ k + 1 < i)
    BY <1>1, <1>4, <1>7, <2>1
  <2> QED
    BY <1>4, <1>5, <2>1, <2>2, HiddenIs
<1>9. Quiet(r, y)
  <2> SUFFICES ASSUME NEW p \in Stops(r, y) PROVE p \in Hidden(r, y)
    BY DEF Quiet
  <2>1. p \in Nat \ {0} /\ p + 2 <= m /\ p \in Stops(r, x)
    BY <1>4
  <2>2. CASE p < j
    <3>1. p \in Hidden(r, x)
      BY <1>2, <2>1 DEF Quiet
    <3>2. p \in 1 .. n
      BY <1>1, <1>5, <2>1, <2>2
    <3> QED
      BY <1>5, <3>1, <3>2, HiddenKept
  <2>3. CASE ~(p < j)
    <3>1. p \in j .. Len(y)
      BY <1>4, <1>5, <2>1, <2>3
    <3> QED
      BY <1>8, <3>1
  <2> QED
    BY <2>2, <2>3
<1>10. Base(r, y, Len(y), c)
  <2>1. Settled(r, y, Len(y))
    <3> SUFFICES ASSUME NEW i \in Opens(r, y) PROVE \E k \in Closes(y) : k >= i + 2 /\ k + 1 <= Len(y)
      BY DEF Settled
    <3>1. i \in Nat \ {0} /\ i + 1 <= m
      BY <1>4
    <3>2. z >= i + 2 /\ z + 1 <= Len(y)
      BY <1>1, <1>4, <3>1
    <3> QED
      BY <1>4, <3>2
  <2>2. c = Picked(y, (1 .. Len(y)) \ Hidden(r, y))
    <3>1. PICK S, U : S = (1 .. n) \ Hidden(r, y) /\ U = (1 .. Len(y)) \ Hidden(r, y)
      OBVIOUS
    <3>2. \A i \in 1 .. Len(y) : i \in S <=> i \in U
      BY <1>1, <1>4, <1>5, <1>8, <3>1
    <3>3. y \in Seq(Symbols)
      BY <1>4 DEF Texts
    <3>4. Picked(y, S) = Picked(y, U)
      BY <3>2, <3>3, PickedSame
    <3> QED
      BY <1>5, <3>1, <3>4
  <2>3. \A i \in Opens(r, y) : ~(i > Len(y))
    BY <1>4
  <2>4. Len(y) \in Nat /\ Len(y) \in 0 .. Len(y)
    BY <1>4
  <2>5. \A p \in Stops(r, y) : p \in Hidden(r, y)
    BY <1>9 DEF Quiet
  <2> QED
    BY <1>4, <2>1, <2>2, <2>3, <2>4, <2>5 DEF Base
<1>11. FreeAt(r, y, y, e, c)
  <2>1. e \in Texts /\ y = Cat(y, e)
    <3>1. e \in Texts /\ y \in Seq(Symbols)
      BY <1>4, EmptySeq DEF Texts
    <3> QED
      BY <3>1, CatNone
  <2>2. \A i \in Opens(r, y) : i <= Len(y)
    BY <1>4
  <2> QED
    BY <1>4, <1>9, <1>10, <2>1, <2>2 DEF FreeAt
<1>12. Tight(r, y, e)
  BY <1>4 DEF Tight
<1>13. Closing(y, j) = z
  <2>1. PICK k : k = Closing(y, j)
    OBVIOUS
  <2>2. y \in Texts /\ j \in Nat
    BY <1>4, <1>5
  <2>3. /\ k \in Nat /\ k <= Len(y) + 1
        /\ \A l \in Closes(y) : l >= j + 2 => k <= l
        /\ k # Len(y) + 1 => k \in Closes(y) /\ k >= j + 2
    BY <2>1, <2>2, ClosingIs
  <2>4. k <= z
    BY <1>1, <1>4, <1>5, <2>3
  <2>5. k # Len(y) + 1
    BY <1>1, <1>4, <2>3, <2>4
  <2> QED
    BY <1>7, <2>1, <2>3, <2>5
<1>14. BodyAt(y, j) = body
  <2>1. PICK a : a = j + 2
    OBVIOUS
  <2>2. z - 1 = m
    BY <1>1, <1>4
  <2>3. Fits(Symbols, x, a, m)
    BY <1>1, <1>3, <1>5, <2>1 DEF Fits, Texts
  <2>4. Sub(y, a, m) = Sub(x, a, m)
    BY <1>4, <2>3, SubShares
  <2> QED
    BY <1>1, <1>13, <2>1, <2>2, <2>4, BodyIs
<1>15. PICK Q : Q = CallSet(r, y)
  OBVIOUS
<1>16. \A i \in Q : i \in 1 .. j
  <2> SUFFICES ASSUME NEW i \in Q PROVE i \in 1 .. j
    OBVIOUS
  <2>1. /\ i \in Opens(r, y)
        /\ \A h \in Opens(r, y) : h < i => \E k \in Closes(y) : k >= h + 2 /\ k < i
    BY <1>4, <1>15, CallSetIs
  <2>2. i \in Nat \ {0} /\ i + 1 <= m
    BY <1>4, <2>1
  <2>3. SUFFICES ASSUME j < i PROVE FALSE
    BY <1>5, <2>2
  <2>4. PICK k \in Closes(y) : k >= j + 2 /\ k < i
    BY <1>5, <2>1, <2>3
  <2>5. k = z
    BY <1>7, <2>4
  <2> QED
    BY <1>1, <1>4, <2>2, <2>4, <2>5
<1>17. j \in Q <=> Body(body) = "call"
  <2>1. \A h \in Opens(r, y) : h < j => \E k \in Closes(y) : k >= h + 2 /\ k < j
    <3> SUFFICES ASSUME NEW h \in Opens(r, y), h < j PROVE \E k \in Closes(y) : k >= h + 2 /\ k < j
      OBVIOUS
    <3>1. h \in Nat
      BY <1>4
    <3>2. h <= n
      BY <1>1, <1>5, <3>1
    <3>3. PICK k \in Closes(y) : k >= h + 2 /\ k + 1 <= n
      BY <1>5, <3>2 DEF Settled
    <3>4. k \in Nat
      BY <1>4, ClosesIs
    <3> QED
      BY <1>1, <1>5, <3>3, <3>4
  <2>2. Closing(y, j) <= Len(y)
    BY <1>1, <1>4, <1>13
  <2> QED
    BY <1>4, <1>5, <1>14, <1>15, <2>1, <2>2, CallSetIs
<1>18. PICK E, b : /\ b = Bodied(y) /\ b \in Seq(E) /\ Len(b) = Len(y)
                   /\ \A i \in 1 .. Len(y) : b[i] = BodyAt(y, i)
  BY <1>4, BodiedIs
<1>19. Picked(b, Below(Q, n)) = Calls(r, x)
  <2>1. \A i \in CallSet(r, x) : i <= n
    BY <1>2, BaseCalls
  <2> QED
    BY <1>5, <1>15, <1>18, <2>1, CallsBelow
<1>20. Below(Q, j) = Q
  BY <1>16, BelowAll
<1>21. Picked(b, Q) = IF j \in Q THEN App(Calls(r, x), body) ELSE Calls(r, x)
  <2>1. j \in 1 .. Len(b) /\ b[j] = body
    BY <1>4, <1>5, <1>14, <1>18
  <2>2. Picked(b, Below(Q, j)) = IF j \in Q THEN App(Picked(b, Below(Q, j - 1)), b[j]) ELSE Picked(b, Below(Q, j - 1))
    BY <1>18, <2>1, NextPicked
  <2> QED
    BY <1>1, <1>19, <1>20, <2>1, <2>2
<1>22. Calls(r, y) = Picked(b, Q)
  BY <1>4, <1>15, <1>18, CallsIs
<1> QED
  BY <1>11, <1>12, <1>17, <1>21, <1>22

\* Of the text y, v was read and a is at hand.
Ahead(r, y, v, a, c) == v \in Texts /\ a \in Texts /\ y = Cat(v, a) /\ Base(r, y, Len(v), c)

\* What was held back and the token are what is at hand.
LEMMA FreeAhead ==
    \A r, x, v, b, c, t : FreeAt(r, x, v, b, c) /\ Tight(r, v, b) /\ Piece(t)
       => Ahead(r, Cat(x, t), v, Cat(b, t), c)
<1> TAKE r, x, v, b, c, t
<1> HAVE FreeAt(r, x, v, b, c) /\ Tight(r, v, b) /\ Piece(t)
<1>1. v \in Texts /\ b \in Texts /\ x = Cat(v, b) /\ t \in Texts
  BY DEF FreeAt, Piece
<1>2. v \in Seq(Symbols) /\ b \in Seq(Symbols) /\ t \in Seq(Symbols)
  BY <1>1 DEF Texts
<1>3. Cat(Cat(v, b), t) = Cat(v, Cat(b, t)) /\ Cat(b, t) \in Seq(Symbols)
  BY <1>2, CatCat, CatIs
<1>4. PICK y, a : y = Cat(x, t) /\ a = Cat(b, t)
  OBVIOUS
<1>5. y = Cat(v, a) /\ a \in Texts
  BY <1>1, <1>3, <1>4 DEF Texts
<1>6. Base(r, y, Len(v), c)
  BY <1>4, FreeGrown
<1>7. Ahead(r, y, v, a, c)
  BY <1>1, <1>5, <1>6 DEF Ahead
<1> QED
  BY <1>4, <1>7

\* The tags of y behind v are those of a.
LEMMA AheadTags ==
    \A r, y, v, a, c : Ahead(r, y, v, a, c) =>
       /\ Behind(y, a, Len(v))
       /\ \A j \in Opens(r, y) : j \in Nat /\ (j > Len(v) => j - Len(v) \in Opens(r, a))
       /\ \A p \in Stops(r, y) : p \in Nat /\ (p > Len(v) => p - Len(v) \in Stops(r, a))
       /\ \A q \in Opens(r, a) : q \in 1 .. Len(a) /\ Len(v) + q \in Opens(r, y)
       /\ \A q \in Stops(r, a) : q \in 1 .. Len(a) /\ Len(v) + q \in Stops(r, y)
<1> TAKE r, y, v, a, c
<1> HAVE Ahead(r, y, v, a, c)
<1>1. v \in Texts /\ a \in Texts /\ y = Cat(v, a)
  BY DEF Ahead
<1>2. PICK n : n = Len(v) /\ n \in Nat
  BY <1>1, LenProperties DEF Texts
<1>3. Behind(y, a, n)
  BY <1>1, <1>2, CatBehind
<1>4. y \in Texts
  BY <1>3 DEF Behind
<1>5. ASSUME NEW j \in Opens(r, y) PROVE j \in Nat /\ (j > n => j - n \in Opens(r, a))
  <2>1. j \in Nat
    BY <1>4, OpensIs
  <2>2. ASSUME j > n PROVE j - n \in Opens(r, a)
    <3>1. PICK p : p = j - n
      OBVIOUS
    <3>2. p \in Nat \ {0} /\ j = n + p
      BY <1>2, <2>1, <2>2, <3>1
    <3> QED
      BY <1>3, <3>1, <3>2, TagsMove
  <2> QED
    BY <2>1, <2>2
<1>6. ASSUME NEW j \in Stops(r, y) PROVE j \in Nat /\ (j > n => j - n \in Stops(r, a))
  <2>1. j \in Nat
    BY <1>4, StopsIs
  <2>2. ASSUME j > n PROVE j - n \in Stops(r, a)
    <3>1. PICK p : p = j - n
      OBVIOUS
    <3>2. p \in Nat \ {0} /\ j = n + p
      BY <1>2, <2>1, <2>2, <3>1
    <3> QED
      BY <1>3, <3>1, <3>2, TagsMove
  <2> QED
    BY <2>1, <2>2
<1>7. ASSUME NEW q \in Opens(r, a) PROVE q \in 1 .. Len(a) /\ n + q \in Opens(r, y)
  <2>1. q \in 1 .. Len(a)
    BY <1>1, OpensIs
  <2>2. q \in Nat \ {0}
    BY <2>1
  <2> QED
    BY <1>3, <2>1, <2>2, TagsMove
<1>8. ASSUME NEW q \in Stops(r, a) PROVE q \in 1 .. Len(a) /\ n + q \in Stops(r, y)
  <2>1. q \in 1 .. Len(a)
    BY <1>1, StopsIs
  <2>2. q \in Nat \ {0}
    BY <2>1
  <2> QED
    BY <1>3, <2>1, <2>2, TagsMove
<1> QED
  BY <1>2, <1>3, <1>5, <1>6, <1>7, <1>8

\* What is let go of a before an opening tag is shown.
LEMMA AheadRun ==
    \A r, y, v, a, c, s, m : Ahead(r, y, v, a, c) /\ s \in 0 .. Len(a) /\ m = Len(v) + s
                          /\ (\A q \in Opens(r, a) : ~(q <= s))
       => Cat(c, Sub(a, 1, s)) = Picked(y, (1 .. m) \ Hidden(r, y))
<1> TAKE r, y, v, a, c, s, m
<1> HAVE Ahead(r, y, v, a, c) /\ s \in 0 .. Len(a) /\ m = Len(v) + s
         /\ (\A q \in Opens(r, a) : ~(q <= s))
<1>1. PICK n : n = Len(v)
  OBVIOUS
<1>2. v \in Texts /\ a \in Texts /\ y = Cat(v, a) /\ Base(r, y, n, c)
  BY <1>1 DEF Ahead
<1>3. /\ Behind(y, a, n)
      /\ \A j \in Opens(r, y) : j \in Nat /\ (j > n => j - n \in Opens(r, a))
  BY <1>1, AheadTags
<1>4. n \in Nat /\ Len(a) \in Nat /\ Len(y) = n + Len(a)
  BY <1>3 DEF Behind
<1>5. Sub(y, n + 1, m) = Sub(a, 1, s)
  <2>1. PICK u : u = n + 1
    OBVIOUS
  <2>2. Fits(Symbols, a, 1, s) /\ Moved(u, v, 1) /\ Moved(m, v, s) /\ v \in Seq(Symbols)
    BY <1>1, <1>2, <1>4, <2>1 DEF Fits, Moved, Texts
  <2>3. Sub(Cat(v, a), u, m) = Sub(a, 1, s)
    BY <2>2, SubRight
  <2> QED
    BY <1>2, <2>1, <2>3
<1>6. m \in n .. Len(y)
  BY <1>1, <1>4
<1>7. \A j \in Opens(r, y) : ~(n < j /\ j <= m)
  BY <1>1, <1>3, <1>4
<1>8. Cat(c, Sub(y, n + 1, m)) = Picked(y, (1 .. m) \ Hidden(r, y))
  BY <1>2, <1>6, <1>7, BaseRun
<1> QED
  BY <1>5, <1>8

\* No tag in what is at hand: some of it is let go.
LEMMA NoTag ==
    \A r, y, v, a, c, s : Ahead(r, y, v, a, c) /\ s \in 0 .. Len(a) /\ Opens(r, a) = {} /\ Stops(r, a) = {}
       => FreeAt(r, y, Cat(v, Sub(a, 1, s)), Sub(a, s + 1, Len(a)), Cat(c, Sub(a, 1, s)))
<1> TAKE r, y, v, a, c, s
<1> HAVE Ahead(r, y, v, a, c) /\ s \in 0 .. Len(a) /\ Opens(r, a) = {} /\ Stops(r, a) = {}
<1>1. PICK n, m, d, f, g : n = Len(v) /\ m = Len(v) + s /\ d = Sub(a, 1, s) /\ f = Sub(a, s + 1, Len(a))
                           /\ g = Cat(c, d)
  OBVIOUS
<1>2. v \in Texts /\ a \in Texts /\ y = Cat(v, a) /\ Base(r, y, n, c)
  BY <1>1 DEF Ahead
<1>3. /\ Behind(y, a, n)
      /\ \A j \in Opens(r, y) : j \in Nat /\ (j > n => j - n \in Opens(r, a))
      /\ \A p \in Stops(r, y) : p \in Nat /\ (p > n => p - n \in Stops(r, a))
  BY <1>1, AheadTags
<1>4. n \in Nat /\ Len(a) \in Nat /\ Len(y) = n + Len(a) /\ Len(y) \in Nat /\ y \in Texts
  BY <1>3 DEF Behind
<1>5. /\ Settled(r, y, n)
      /\ \A p \in Stops(r, y) : p \in Hidden(r, y) \/ p > n
  BY <1>2 DEF Base
<1>6. \A j \in Opens(r, y) : j \in Nat /\ j <= n
  BY <1>3, <1>4
<1>7. \A p \in Stops(r, y) : p \in Hidden(r, y)
  BY <1>3, <1>5
<1>8. g = Picked(y, (1 .. m) \ Hidden(r, y))
  <2>1. \A q \in Opens(r, a) : ~(q <= s)
    OBVIOUS
  <2>2. Ahead(r, y, v, a, c) /\ s \in 0 .. Len(a) /\ m = Len(v) + s
    BY <1>1
  <2> QED
    BY <1>1, <2>1, <2>2, AheadRun
<1>9. m \in 0 .. Len(y) /\ n <= m /\ m \in Nat
  BY <1>1, <1>4
<1>10. Base(r, y, m, g)
  <2>1. Settled(r, y, m)
    <3> SUFFICES ASSUME NEW j \in Opens(r, y) PROVE \E k \in Closes(y) : k >= j + 2 /\ k + 1 <= m
      BY DEF Settled
    <3>1. PICK k \in Closes(y) : k >= j + 2 /\ k + 1 <= n
      BY <1>5, <1>6 DEF Settled
    <3>2. k \in Nat
      BY <1>4, ClosesIs
    <3> QED
      BY <1>4, <1>9, <3>1, <3>2
  <2>2. \A j \in Opens(r, y) : ~(j > m)
    BY <1>4, <1>6, <1>9
  <2> QED
    BY <1>4, <1>7, <1>8, <1>9, <2>1, <2>2 DEF Base
<1>11. d \in Texts /\ f \in Texts /\ a = Cat(d, f) /\ Len(d) = s
  <2>1. a \in Seq(Symbols) /\ s \in 0 .. Len(a)
    BY <1>2 DEF Texts
  <2>2. Cat(Sub(a, 1, s), Sub(a, s + 1, Len(a))) = a
    BY <2>1, CutCat
  <2>3. Fits(Symbols, a, 1, s) /\ Fits(Symbols, a, s + 1, Len(a))
    BY <1>4, <2>1 DEF Fits
  <2>4. IsSub(Symbols, Sub(a, 1, s), a, 1, s) /\ IsSub(Symbols, Sub(a, s + 1, Len(a)), a, s + 1, Len(a))
    BY <2>3, SubFits
  <2>5. s + 1 - 1 = s
    BY <2>1
  <2> QED
    BY <1>1, <2>2, <2>4, <2>5 DEF IsSub, Texts
<1>12. PICK w : w = Cat(v, d)
  OBVIOUS
<1>13. w \in Texts /\ Len(w) = m /\ y = Cat(w, f)
  <2>1. v \in Seq(Symbols) /\ d \in Seq(Symbols) /\ f \in Seq(Symbols)
    BY <1>2, <1>11 DEF Texts
  <2>2. Cat(Cat(v, d), f) = Cat(v, Cat(d, f))
    BY <2>1, CatCat
  <2>3. Cat(v, d) \in Seq(Symbols) /\ Len(Cat(v, d)) = Len(v) + Len(d)
    BY <2>1, CatIs
  <2> QED
    BY <1>1, <1>2, <1>11, <1>12, <2>2, <2>3 DEF Texts
<1>14. FreeAt(r, y, w, f, g)
  <2>1. \A j \in Opens(r, y) : j <= m
    BY <1>4, <1>6, <1>9
  <2> QED
    BY <1>7, <1>10, <1>11, <1>13, <2>1 DEF FreeAt, Quiet
<1> QED
  BY <1>1, <1>12, <1>14

\* An opening tag comes first.
LEMMA FirstOpen ==
    \A r, y, v, a, c, q : Ahead(r, y, v, a, c) /\ q \in Opens(r, a) /\ (\A o \in Opens(r, a) : q <= o)
                          /\ (\A p \in Stops(r, a) : q <= p)
       => InAt(r, y, Len(v) + q, Cat(c, Sub(a, 1, q - 1)))
<1> TAKE r, y, v, a, c, q
<1> HAVE Ahead(r, y, v, a, c) /\ q \in Opens(r, a) /\ (\A o \in Opens(r, a) : q <= o)
         /\ (\A p \in Stops(r, a) : q <= p)
<1>1. PICK n, j, s, g : n = Len(v) /\ j = Len(v) + q /\ s = q - 1 /\ g = Cat(c, Sub(a, 1, q - 1))
  OBVIOUS
<1>2. Base(r, y, n, c)
  BY <1>1 DEF Ahead
<1>3. /\ Behind(y, a, n)
      /\ \A i \in Opens(r, y) : i \in Nat /\ (i > n => i - n \in Opens(r, a))
      /\ \A p \in Stops(r, y) : p \in Nat /\ (p > n => p - n \in Stops(r, a))
      /\ \A o \in Opens(r, a) : o \in 1 .. Len(a) /\ n + o \in Opens(r, y)
  BY <1>1, AheadTags
<1>4. n \in Nat /\ Len(a) \in Nat /\ Len(y) = n + Len(a) /\ Len(y) \in Nat /\ y \in Texts
  BY <1>3 DEF Behind
<1>5. /\ Settled(r, y, n)
      /\ \A i \in Opens(r, y) : i > n => \A k \in Closes(y) : ~(k >= i + 2)
      /\ \A p \in Stops(r, y) : p \in Hidden(r, y) \/ p > n
  BY <1>2 DEF Base
<1>6. q \in 1 .. Len(a) /\ j \in Opens(r, y) /\ j \in Nat /\ n < j /\ j <= Len(y)
  BY <1>1, <1>3, <1>4
<1>7. \A i \in Opens(r, y) : i > n => j <= i
  BY <1>1, <1>3, <1>4, <1>6
<1>8. Quiet(r, y)
  <2> SUFFICES ASSUME NEW p \in Stops(r, y), p > n PROVE p \in Hidden(r, y)
    BY <1>5 DEF Quiet
  <2>1. p - n \in Stops(r, a) /\ p \in Nat
    BY <1>3
  <2>2. q <= p - n
    BY <2>1
  <2>3. p \in 1 .. Len(y)
    BY <1>4, StopsIs
  <2>4. p \in n + 1 .. Len(y) /\ j <= p
    BY <1>1, <1>4, <1>6, <2>1, <2>2, <2>3
  <2> QED
    BY <1>2, <1>6, <2>4, BaseHidden
<1>9. PICK m : m = j - 1
  OBVIOUS
<1>10. m \in Nat /\ m = n + s /\ n <= m /\ s \in 0 .. Len(a) /\ m \in 0 .. Len(y)
  BY <1>1, <1>4, <1>6, <1>9
<1>11. g = Picked(y, (1 .. m) \ Hidden(r, y))
  <2>1. \A o \in Opens(r, a) : ~(o <= s)
    BY <1>1, <1>3, <1>6
  <2>2. Ahead(r, y, v, a, c) /\ s \in 0 .. Len(a) /\ m = Len(v) + s
    BY <1>1, <1>10
  <2> QED
    BY <1>1, <2>1, <2>2, AheadRun
<1>12. Base(r, y, m, g)
  <2>1. Settled(r, y, m)
    <3> SUFFICES ASSUME NEW i \in Opens(r, y), i <= m PROVE \E k \in Closes(y) : k >= i + 2 /\ k + 1 <= m
      BY DEF Settled
    <3>1. i \in Nat /\ i <= n
      BY <1>3, <1>4, <1>6, <1>7, <1>9
    <3>2. PICK k \in Closes(y) : k >= i + 2 /\ k + 1 <= n
      BY <1>5, <3>1 DEF Settled
    <3>3. k \in Nat
      BY <1>4, ClosesIs
    <3> QED
      BY <1>4, <1>10, <3>2, <3>3
  <2>2. \A i \in Opens(r, y) : i > m => \A k \in Closes(y) : ~(k >= i + 2)
    BY <1>3, <1>4, <1>5, <1>10
  <2>3. \A p \in Stops(r, y) : p \in Hidden(r, y)
    BY <1>8 DEF Quiet
  <2> QED
    BY <1>4, <1>10, <1>11, <2>1, <2>2, <2>3 DEF Base
<1>13. InAt(r, y, j, g)
  BY <1>6, <1>8, <1>9, <1>12 DEF InAt
<1> QED
  BY <1>1, <1>13

\* A stop string comes first.
LEMMA FirstStop ==
    \A r, y, v, a, c, p : Ahead(r, y, v, a, c) /\ p \in Stops(r, a) /\ (\A q \in Stops(r, a) : p <= q)
                          /\ (\A q \in Opens(r, a) : ~(q <= p))
       => Visible(r, y) = Cat(c, Sub(a, 1, p - 1))
<1> TAKE r, y, v, a, c, p
<1> HAVE Ahead(r, y, v, a, c) /\ p \in Stops(r, a) /\ (\A q \in Stops(r, a) : p <= q)
         /\ (\A q \in Opens(r, a) : ~(q <= p))
<1>1. PICK n, l, s : n = Len(v) /\ l = Len(v) + p /\ s = p - 1
  OBVIOUS
<1>2. Base(r, y, n, c)
  BY <1>1 DEF Ahead
<1>3. /\ Behind(y, a, n)
      /\ \A i \in Opens(r, y) : i \in Nat /\ (i > n => i - n \in Opens(r, a))
      /\ \A i \in Stops(r, y) : i \in Nat /\ (i > n => i - n \in Stops(r, a))
      /\ \A i \in Opens(r, a) : i \in 1 .. Len(a)
      /\ \A i \in Stops(r, a) : i \in 1 .. Len(a) /\ n + i \in Stops(r, y)
  BY <1>1, AheadTags
<1>4. n \in Nat /\ Len(a) \in Nat /\ Len(y) = n + Len(a) /\ Len(y) \in Nat /\ y \in Texts
  BY <1>3 DEF Behind
<1>5. \A i \in Stops(r, y) : i \in Hidden(r, y) \/ i > n
  BY <1>2 DEF Base
<1>6. p \in 1 .. Len(a) /\ l \in Stops(r, y) /\ l \in Nat /\ n < l /\ l <= Len(y)
  BY <1>1, <1>3, <1>4
<1>7. l \notin Hidden(r, y)
  <2>1. ~\E i \in Opens(r, y) : n < i /\ i <= l
    BY <1>1, <1>3, <1>4, <1>6
  <2>2. l \in n + 1 .. Len(y)
    BY <1>4, <1>6
  <2> QED
    BY <1>2, <2>1, <2>2, BaseHidden
<1>8. \A i \in Stops(r, y) : i \in Hidden(r, y) \/ l <= i
  BY <1>1, <1>3, <1>4, <1>5, <1>6
<1>9. Visible(r, y) = Picked(y, (1 .. l - 1) \ Hidden(r, y))
  BY <1>4, <1>6, <1>7, <1>8, StopVisible
<1>10. PICK m : m = l - 1
  OBVIOUS
<1>11. s \in 0 .. Len(a) /\ m = n + s
  BY <1>1, <1>4, <1>6, <1>10
<1>12. Cat(c, Sub(a, 1, s)) = Picked(y, (1 .. m) \ Hidden(r, y))
  <2>1. \A o \in Opens(r, a) : ~(o <= s)
    BY <1>1, <1>3, <1>6
  <2>2. Ahead(r, y, v, a, c) /\ s \in 0 .. Len(a) /\ m = Len(v) + s
    BY <1>1, <1>11
  <2> QED
    BY <2>1, <2>2, AheadRun
<1> QED
  BY <1>1, <1>9, <1>10, <1>12

\* What follows a new opening tag does not close the call.
LEMMA RestOpen ==
    \A r, y, v, a, c, q, w : Ahead(r, y, v, a, c) /\ q \in Opens(r, a) /\ Shares(w, a) /\ q + 1 <= Len(w)
       => Fits(Symbols, w, q + 2, Len(w)) /\ Closes(Sub(w, q + 2, Len(w))) = {}
<1> TAKE r, y, v, a, c, q, w
<1> HAVE Ahead(r, y, v, a, c) /\ q \in Opens(r, a) /\ Shares(w, a) /\ q + 1 <= Len(w)
<1>1. PICK n, i, e : n = Len(v) /\ i = q + 2 /\ e = Sub(w, q + 2, Len(w))
  OBVIOUS
<1>2. Base(r, y, n, c)
  BY <1>1 DEF Ahead
<1>3. /\ Behind(y, a, n)
      /\ q \in 1 .. Len(a) /\ n + q \in Opens(r, y)
  BY <1>1, AheadTags
<1>4. n \in Nat /\ Len(a) \in Nat
  BY <1>3 DEF Behind
<1>5. w \in Texts /\ a \in Texts /\ Len(w) \in Nat /\ Len(w) <= Len(a)
  BY DEF Shares
<1>6. Fits(Symbols, w, i, Len(w))
  BY <1>1, <1>3, <1>5 DEF Fits, Texts
<1>7. IsSub(Symbols, e, w, i, Len(w))
  BY <1>1, <1>6, SubFits
<1>8. /\ e \in Texts /\ Len(e) = Len(w) + 1 - i /\ \A k \in 1 .. Len(e) : e[k] = w[i + k - 1]
  BY <1>7 DEF IsSub, Texts
<1>9. PICK h : h = q + 1
  OBVIOUS
<1>10. Behind(w, e, h)
  <2>1. Len(e) \in Nat /\ h \in Nat /\ Len(w) = h + Len(e)
    BY <1>1, <1>3, <1>5, <1>8, <1>9
  <2>2. \A k \in 1 .. Len(e) : h + k = i + k - 1
    BY <1>1, <1>3, <1>9
  <2>3. \A k \in 1 .. Len(e) : w[h + k] = e[k]
    BY <1>8, <2>2
  <2> QED
    BY <1>5, <1>8, <2>1, <2>3 DEF Behind
<1>11. ASSUME NEW k \in Closes(e) PROVE FALSE
  <2>1. k \in 1 .. Len(e)
    BY <1>8, ClosesIs
  <2>2. PICK l, z : l = h + k /\ z = n + l
    OBVIOUS
  <2>3. k \in Nat \ {0} /\ h \in Nat /\ l \in Nat \ {0} /\ z \in Nat
    BY <1>3, <1>4, <1>9, <2>1, <2>2
  <2>4. l \in Closes(w)
    BY <1>10, <1>11, <2>2, <2>3, TagsMove
  <2>5. l + 1 <= Len(w)
    BY <1>5, <2>3, <2>4, ClosesIs
  <2>6. l \in Closes(a)
    BY <2>3, <2>4, <2>5, TagsStay
  <2>7. z \in Closes(y)
    BY <1>3, <2>2, <2>3, <2>6, TagsMove
  <2>8. z >= (n + q) + 2 /\ n + q > n
    BY <1>3, <1>4, <1>9, <2>2, <2>3
  <2> QED
    BY <1>2, <1>3, <2>7, <2>8 DEF Base
<1>12. Closes(e) = {}
  BY <1>11
<1> QED
  BY <1>1, <1>6, <1>12

\* It is the beginning of the call's body.
LEMMA RestBody ==
    \A r, y, v, a, c, q : Ahead(r, y, v, a, c) /\ q \in Opens(r, a)
       => Sub(a, q + 2, Len(a)) = Sub(y, (Len(v) + q) + 2, Len(y))
<1> TAKE r, y, v, a, c, q
<1> HAVE Ahead(r, y, v, a, c) /\ q \in Opens(r, a)
<1>1. PICK n, i, u, l, m : n = Len(v) /\ i = q + 2 /\ u = (Len(v) + q) + 2 /\ l = Len(a) /\ m = Len(y)
  OBVIOUS
<1>2. v \in Texts /\ a \in Texts /\ y = Cat(v, a)
  BY DEF Ahead
<1>3. Behind(y, a, n) /\ q \in 1 .. Len(a)
  BY <1>1, AheadTags
<1>4. n \in Nat /\ l \in Nat /\ m = n + l
  BY <1>1, <1>3 DEF Behind
<1>5. q + 1 <= l
  <2>1. q + 1 \in 1 .. Len(a)
    BY <1>2, OpensIs
  <2> QED
    BY <1>1, <2>1
<1>6. Fits(Symbols, a, i, l) /\ Moved(u, v, i) /\ Moved(m, v, l) /\ v \in Seq(Symbols)
  BY <1>1, <1>2, <1>3, <1>4, <1>5 DEF Fits, Moved, Texts
<1>7. Sub(Cat(v, a), u, m) = Sub(a, i, l)
  BY <1>6, SubRight
<1> QED
  BY <1>1, <1>2, <1>7

\* All that is visible was sent when nothing is held back, and inside a call.
LEMMA FreeAll ==
    \A r, x, c : FreeAt(r, x, x, <<>>, c) => c = Visible(r, x)
<1> TAKE r, x, c
<1> HAVE FreeAt(r, x, x, <<>>, c)
<1>1. Base(r, x, Len(x), c) /\ Quiet(r, x)
  BY DEF FreeAt
<1>2. Len(x) \in Nat
  BY <1>1 DEF Base
<1>3. \A i \in Len(x) + 1 .. Len(x) : i \in Hidden(r, x)
  BY <1>2
<1> QED
  BY <1>1, <1>3, BaseAll

\* The same inside a call, where everything more is hidden.
LEMMA InAll ==
    \A r, x, j, c : InAt(r, x, j, c) => c = Visible(r, x)
<1> TAKE r, x, j, c
<1> HAVE InAt(r, x, j, c)
<1>1. PICK n : n = j - 1
  OBVIOUS
<1>2. j \in Opens(r, x) /\ Base(r, x, n, c) /\ Quiet(r, x)
  BY <1>1 DEF InAt
<1>3. x \in Texts
  BY <1>2 DEF Base
<1>4. j \in Nat
  BY <1>2, <1>3, OpensIs
<1>5. \A i \in n + 1 .. Len(x) : i \in Hidden(r, x)
  <2> TAKE i \in n + 1 .. Len(x)
  <2>1. n < j /\ j <= i
    BY <1>1, <1>4
  <2> QED
    BY <1>2, <2>1, BaseHidden
<1> QED
  BY <1>2, <1>5, BaseAll

-----------------------------------------------------------------------------
(* The loop of feed *)

\* The function by which Rounds is defined.
IsLoop(f, r, hold, p, n) ==
    f = [i \in 0 .. n |-> IF i = 0 THEN p ELSE Round(r, hold, f[i - 1])]

\* There is one.
LEMMA LoopExists ==
    ASSUME NEW r, NEW hold, NEW p, NEW n \in Nat
    PROVE  \E f : IsLoop(f, r, hold, p, n)
<1> DEFINE Step(f, m) == IF m = 0 THEN p ELSE Round(r, hold, f[m - 1])
           T == {k \in Nat : \E f : f = [m \in 0 .. k |-> Step(f, m)]}
<1>1. 0 \in T
  <2> DEFINE f == [m \in 0 .. 0 |-> p]
  <2>1. \A m \in 0 .. 0 : m = 0
    OBVIOUS
  <2>2. f = [m \in 0 .. 0 |-> Step(f, m)]
    BY <2>1
  <2> QED
    BY <2>2
<1>2. ASSUME NEW k \in 0 .. n - 1, k \in T PROVE k + 1 \in T
  <2>1. k \in Nat /\ k + 1 \in Nat
    OBVIOUS
  <2>2. PICK f : f = [m \in 0 .. k |-> Step(f, m)]
    BY <1>2
  <2> DEFINE g == [m \in 0 .. k + 1 |-> IF m = k + 1 THEN Step(f, k + 1) ELSE f[m]]
  <2>3. ASSUME NEW m \in 0 .. k + 1 PROVE g[m] = Step(g, m)
    <3>1. CASE m = k + 1
      <4>1. g[(k + 1) - 1] = f[k] /\ f[(k + 1) - 1] = f[k]
        BY <2>1
      <4>2. g[m] = Step(f, k + 1)
        BY <3>1
      <4> HIDE DEF g
      <4> QED
        BY <3>1, <4>1, <4>2
    <3>2. CASE m # k + 1
      <4>1. m \in 0 .. k /\ g[m] = f[m]
        BY <2>1, <3>2
      <4>2. m # 0 => m - 1 \in 0 .. k /\ g[m - 1] = f[m - 1]
        BY <2>1, <4>1
      <4>3. f[m] = Step(f, m)
        BY <2>2, <4>1
      <4> HIDE DEF g
      <4> QED
        BY <4>1, <4>2, <4>3
    <3> QED
      BY <3>1, <3>2
  <2>4. g = [m \in 0 .. k + 1 |-> Step(g, m)]
    BY <2>3
  <2> QED
    BY <2>1, <2>4
<1>3. n \in T
  <2>1. \A k \in 0 .. n - 1 : k \in T => k + 1 \in T
    BY <1>2
  <2> HIDE DEF T
  <2>2. \A k \in 0 .. n : k \in T
    BY <1>1, <2>1, Upto
  <2> QED
    BY <2>2
<1> QED
  BY <1>3 DEF IsLoop

\* A round that finds the loop at its end changes nothing.
LEMMA RoundDone ==
    \A r, hold, p : p.done => Round(r, hold, p) = p
BY Zenon DEF Round

\* The loop has ended after two rounds if it is at its end then.
LEMMA TwoRounds ==
    ASSUME NEW r, NEW hold, NEW p, NEW n \in Nat, n >= 2, NEW q,
           q = Round(r, hold, Round(r, hold, p)), q.done
    PROVE  Rounds(r, hold, p, n) = q
<1> DEFINE f == CHOOSE f : IsLoop(f, r, hold, p, n)
<1>1. IsLoop(f, r, hold, p, n)
  BY LoopExists
<1>2. Rounds(r, hold, p, n) = f[n]
  BY Zenon DEF Rounds, IsLoop
<1> HIDE DEF f
<1>3. \A i \in 0 .. n : f[i] = IF i = 0 THEN p ELSE Round(r, hold, f[i - 1])
  BY <1>1, Zenon DEF IsLoop
<1>4. f[0] = p /\ \A i \in 0 .. n - 1 : f[i + 1] = Round(r, hold, f[i])
  <2>1. \A i \in 0 .. n - 1 : i + 1 \in 0 .. n /\ i + 1 # 0 /\ (i + 1) - 1 = i
    OBVIOUS
  <2>2. 0 \in 0 .. n
    OBVIOUS
  <2> QED
    BY <1>3, <2>1, <2>2
<1>5. f[2] = q
  <2>1. 0 \in 0 .. n - 1 /\ 1 \in 0 .. n - 1 /\ 0 + 1 = 1 /\ 1 + 1 = 2
    OBVIOUS
  <2>2. f[1] = Round(r, hold, p)
    BY <1>4, <2>1
  <2>3. f[2] = Round(r, hold, f[1])
    BY <1>4, <2>1
  <2> QED
    BY <2>2, <2>3
<1> DEFINE T == {i \in Nat : f[i] = q}
<1>6. 2 \in T
  BY <1>5
<1>7. \A i \in 2 .. n - 1 : i \in T => i + 1 \in T
  <2> TAKE i \in 2 .. n - 1
  <2> HAVE i \in T
  <2>1. i \in 0 .. n - 1 /\ i + 1 \in Nat /\ f[i] = q
    OBVIOUS
  <2>2. f[i + 1] = Round(r, hold, q)
    BY <1>4, <2>1
  <2>3. f[i + 1] = q
    BY <2>2, RoundDone
  <2> QED
    BY <2>1, <2>3
<1>8. n \in T
  <2> HIDE DEF T
  <2>1. \A i \in 2 .. n : i \in T
    BY <1>6, <1>7, From
  <2> QED
    BY <2>1
<1> QED
  BY <1>2, <1>8

\* Which tag the parser finds.
LEMMA OpenFound ==
    \A r, x, o : x \in Texts /\ o = (IF r.tools THEN Find(x, Open) ELSE 0) =>
       \/ o = 0 /\ Opens(r, x) = {}
       \/ o # 0 /\ o \in Opens(r, x) /\ \A q \in Opens(r, x) : o <= q
<1> TAKE r, x, o
<1> HAVE x \in Texts /\ o = (IF r.tools THEN Find(x, Open) ELSE 0)
<1>1. PICK T : T = Opens(r, x)
  OBVIOUS
<1>2. T \subseteq Nat /\ 0 \notin T
  BY <1>1, OpensIs
<1>3. o = IF T = {} THEN 0 ELSE Min(T)
  <2>1. CASE r.tools
    BY <1>1, <2>1, Zenon DEF Opens, Find
  <2>2. CASE ~r.tools
    BY <1>1, <2>2, Zenon DEF Opens
  <2> QED
    BY <2>1, <2>2
<1>4. T # {} => Min(T) \in T /\ \A q \in T : Min(T) <= q
  BY <1>2, MinIs
<1> QED
  BY <1>1, <1>2, <1>3, <1>4

\* Which stop string the parser finds.
LEMMA StopFound ==
    \A r, x, o : x \in Texts /\ o = (IF r.stop THEN Find(x, Stop) ELSE 0) =>
       \/ o = 0 /\ Stops(r, x) = {}
       \/ o # 0 /\ o \in Stops(r, x) /\ \A q \in Stops(r, x) : o <= q
<1> TAKE r, x, o
<1> HAVE x \in Texts /\ o = (IF r.stop THEN Find(x, Stop) ELSE 0)
<1>1. PICK T : T = Stops(r, x)
  OBVIOUS
<1>2. T \subseteq Nat /\ 0 \notin T
  BY <1>1, StopsIs
<1>3. o = IF T = {} THEN 0 ELSE Min(T)
  <2>1. CASE r.stop
    BY <1>1, <2>1, Zenon DEF Stops, Find
  <2>2. CASE ~r.stop
    BY <1>1, <2>2, Zenon DEF Stops
  <2> QED
    BY <2>1, <2>2
<1>4. T # {} => Min(T) \in T /\ \A q \in T : Min(T) <= q
  BY <1>2, MinIs
<1> QED
  BY <1>1, <1>2, <1>3, <1>4

\* A closing tag is found in a token that is one and in no other.
LEMMA CloseFound ==
    \A t : Closes(t) = {} => Find(t, Close) = 0
BY Zenon DEF Closes, Find

\* The same of any token.
LEMMA PieceCloses ==
    \A t : Piece(t) => IF t = Close THEN Find(t, Close) = 1 ELSE Find(t, Close) = 0
<1> TAKE t
<1> HAVE Piece(t)
<1>1. t \in Texts /\ (t = Close \/ \A i \in 1 .. Len(t) : t[i] # "c1" /\ t[i] # "c2")
  BY DEF Piece
<1>2. CASE t # Close
  <2>1. Closes(t) = {}
    BY <1>1, <1>2, ClosesIs
  <2> QED
    BY <1>2, <2>1, CloseFound
<1>3. CASE t = Close
  <2>1. Len(t) = 2 /\ t[1] = "c1" /\ t[2] = "c2"
    BY <1>3 DEF Close
  <2>2. 1 \in 1 .. Len(t) /\ 1 + 1 \in 1 .. Len(t) /\ t[1 + 1] = "c2"
    BY <2>1
  <2>3. 1 \in Closes(t)
    BY <1>1, <2>1, <2>2, ClosesIs
  <2>4. Closes(t) \subseteq Nat /\ \A k \in Closes(t) : 1 <= k
    BY <1>1, ClosesIs
  <2>5. Min(Closes(t)) \in Closes(t) /\ \A k \in Closes(t) : Min(Closes(t)) <= k
    BY <2>3, <2>4, MinIs
  <2>6. Min(Closes(t)) = 1
    BY <2>3, <2>4, <2>5
  <2>7. Find(t, Close) = Min(Closes(t))
    BY <2>3, Zenon DEF Closes, Find
  <2> QED
    BY <1>3, <2>6, <2>7
<1> QED
  BY <1>2, <1>3

\* The parser in the loop.
St(b, tl, cs, tx, d, rs) ==
    [buf |-> b, tool |-> tl, calls |-> cs, text |-> tx, done |-> d, raises |-> rs]

\* In the loop; where an opening tag begins; how much is let go; the call at hand.
Loops(p, b, tl, cs, tx) == p = St(b, tl, cs, tx, FALSE, FALSE)
OpensAt(r, b, o)        == o = IF r.tools THEN Find(b, Open) ELSE 0
LetsGo(b, hold, s)      == s = IF Len(b) > hold THEN Len(b) - hold ELSE 0
Reads(tl, body)         == tl = <<body>>
Empty(z)                == z = <<>>

\* A round; the parser at the end of the loop.
Turns(r, hold, p, q)    == q = Round(r, hold, p)
Ended(q, b, tl, cs, tx) == q = St(b, tl, cs, tx, TRUE, FALSE)
Raised(q, z, cs, tx)    == q = St(z, z, cs, tx, TRUE, TRUE)

\* Outside of a call, no opening tag: what need not be held back is let go.
LEMMA RoundLast ==
    \A r, hold, b, cs, tx, s, p, o, q, z :
       Turns(r, hold, p, q) /\ Empty(z) /\ Loops(p, b, z, cs, tx) /\ OpensAt(r, b, o) /\ o = 0 /\ LetsGo(b, hold, s)
       => Ended(q, Sub(b, s + 1, Len(b)), z, cs, Cat(tx, Sub(b, 1, s)))
<1> TAKE r, hold, b, cs, tx, s, p, o, q, z
<1> HAVE Turns(r, hold, p, q) /\ Empty(z) /\ Loops(p, b, z, cs, tx) /\ OpensAt(r, b, o) /\ o = 0 /\ LetsGo(b, hold, s)
<1>0. /\ p = St(b, <<>>, cs, tx, FALSE, FALSE)
      /\ o = IF r.tools THEN Find(b, Open) ELSE 0
      /\ s = IF Len(b) > hold THEN Len(b) - hold ELSE 0
      /\ z = <<>> /\ q = Round(r, hold, p)
  BY DEF Loops, OpensAt, LetsGo, Turns, Empty
<1>1. p.buf = b /\ p.tool = <<>> /\ p.calls = cs /\ p.text = tx /\ p.done = FALSE /\ p.raises = FALSE
  BY <1>0 DEF St
<1>2. Round(r, hold, p) = [p EXCEPT !.text = Cat(p.text, Sub(b, 1, s)),
                                    !.buf = Sub(b, s + 1, Len(b)), !.done = TRUE]
  BY <1>0, <1>1, Zenon DEF Round, Cat, Sub, After
<1>3. p = [buf |-> b, tool |-> <<>>, calls |-> cs, text |-> tx, done |-> FALSE, raises |-> FALSE]
  BY <1>0 DEF St
<1>4. Round(r, hold, p) = St(Sub(b, s + 1, Len(b)), <<>>, cs, Cat(tx, Sub(b, 1, s)), TRUE, FALSE)
  BY <1>1, <1>2, <1>3 DEF St
<1> QED
  BY <1>0, <1>4 DEF Ended

\* Outside of a call, an opening tag at o.
LEMMA RoundOpen ==
    \A r, hold, b, cs, tx, p, o, q, z, tl :
       Turns(r, hold, p, q) /\ Empty(z) /\ Reads(tl, z) /\ Loops(p, b, z, cs, tx) /\ OpensAt(r, b, o) /\ o # 0
       => Loops(q, Sub(b, o + 2, Len(b)), tl, cs, Cat(tx, Sub(b, 1, o - 1)))
<1> TAKE r, hold, b, cs, tx, p, o, q, z, tl
<1> HAVE Turns(r, hold, p, q) /\ Empty(z) /\ Reads(tl, z) /\ Loops(p, b, z, cs, tx) /\ OpensAt(r, b, o) /\ o # 0
<1>0. /\ p = St(b, <<>>, cs, tx, FALSE, FALSE)
      /\ o = IF r.tools THEN Find(b, Open) ELSE 0
      /\ q = Round(r, hold, p) /\ z = <<>> /\ tl = <<z>>
  BY DEF Loops, OpensAt, Turns, Empty, Reads
<1>1. p.buf = b /\ p.tool = <<>> /\ p.calls = cs /\ p.text = tx /\ p.done = FALSE /\ p.raises = FALSE
  BY <1>0 DEF St
<1>2. Len(Open) = 2
  BY DEF Open
<1>3. Round(r, hold, p) = [p EXCEPT !.text = Cat(p.text, Sub(b, 1, o - 1)),
                                    !.buf = Sub(b, o + 2, Len(b)), !.tool = <<<<>>>>]
  BY <1>0, <1>1, <1>2, Zenon DEF Round, Cat, Sub, After, Before
<1>4. p = [buf |-> b, tool |-> <<>>, calls |-> cs, text |-> tx, done |-> FALSE, raises |-> FALSE]
  BY <1>0 DEF St
<1>5. Round(r, hold, p) = St(Sub(b, o + 2, Len(b)), <<<<>>>>, cs, Cat(tx, Sub(b, 1, o - 1)), FALSE, FALSE)
  BY <1>1, <1>3, <1>4 DEF St
<1>6. tl = <<<<>>>>
  BY <1>0
<1> QED
  BY <1>0, <1>5, <1>6, Zenon DEF Loops

\* Inside a call, no closing tag.
LEMMA RoundTool ==
    \A r, hold, b, body, cs, tx, p, tl, q, z, tm :
       /\ Turns(r, hold, p, q) /\ Empty(z) /\ Reads(tl, body) /\ Loops(p, b, tl, cs, tx)
       /\ Find(b, Close) = 0 /\ Reads(tm, Cat(body, b))
       => Ended(q, z, tm, cs, tx)
<1> SUFFICES ASSUME NEW r, NEW hold, NEW b, NEW body, NEW cs, NEW tx, NEW p, NEW tl, NEW q, NEW z, NEW tm
             PROVE  /\ Turns(r, hold, p, q) /\ Empty(z) /\ Reads(tl, body) /\ Loops(p, b, tl, cs, tx)
                    /\ Find(b, Close) = 0 /\ Reads(tm, Cat(body, b))
                    => Ended(q, z, tm, cs, tx)
  OBVIOUS
<1>0. SUFFICES ASSUME q = Round(r, hold, p), z = <<>>, tl = <<body>>, p = St(b, tl, cs, tx, FALSE, FALSE),
                      Find(b, Close) = 0, tm = <<Cat(body, b)>>
               PROVE  q = St(z, tm, cs, tx, TRUE, FALSE)
  BY DEF Turns, Empty, Reads, Loops, Ended
<1>1. p.buf = b /\ p.tool = tl /\ p.calls = cs /\ p.text = tx /\ p.done = FALSE /\ p.raises = FALSE
  BY <1>0 DEF St
<1>2. tl # <<>> /\ tl[1] = body
  BY <1>0
<1>3. PICK e : e = <<Cat(p.tool[1], p.buf)>>
  OBVIOUS
<1>4. q = [p EXCEPT !.tool = e, !.buf = z, !.done = TRUE]
  BY <1>0, <1>1, <1>2, <1>3, Zenon DEF Round, Cat
<1>5. p = [buf |-> b, tool |-> tl, calls |-> cs, text |-> tx, done |-> FALSE, raises |-> FALSE]
  BY <1>0 DEF St
<1>6. q = [buf |-> z, tool |-> e, calls |-> cs, text |-> tx, done |-> TRUE, raises |-> FALSE]
  BY <1>4, <1>5
<1>7. e = tm
  BY <1>0, <1>1, <1>2, <1>3
<1> QED
  BY <1>6, <1>7, Zenon DEF St

\* What becomes of the calls when a body is complete.
Takes(cs, body, ds) == ds = IF Body(body) = "call" THEN App(cs, body) ELSE cs

\* What a round makes of the parser that found a closing tag.
ClosedRound(p, close, body) ==
    [p EXCEPT !.tool = <<>>, !.buf = After(@, close + Len(Close)),
              !.calls = IF Body(body) = "call" THEN Append(@, body) ELSE @,
              !.raises = Body(body) = "raises",
              !.done = Body(body) = "raises"]

\* Inside a call, a closing tag and nothing else.
LEMMA RoundClose ==
    \A r, hold, b, body, cs, tx, p, tl, ds, q, z :
       /\ Turns(r, hold, p, q) /\ Empty(z) /\ Reads(tl, body) /\ Loops(p, b, tl, cs, tx) /\ b = Close /\ Find(b, Close) = 1 /\ body \in Texts
       /\ Takes(cs, body, ds)
       => IF Body(body) = "raises" THEN Raised(q, z, ds, tx) ELSE Loops(q, z, z, ds, tx)
<1> TAKE r, hold, b, body, cs, tx, p, tl, ds, q, z
<1> HAVE /\ Turns(r, hold, p, q) /\ Empty(z) /\ Reads(tl, body) /\ Loops(p, b, tl, cs, tx) /\ b = Close /\ Find(b, Close) = 1 /\ body \in Texts
         /\ Takes(cs, body, ds)
<1>0. /\ tl = <<body>> /\ p = St(b, tl, cs, tx, FALSE, FALSE)
      /\ ds = (IF Body(body) = "call" THEN App(cs, body) ELSE cs) 
      /\ q = Round(r, hold, p) /\ z = <<>>
  BY DEF Reads, Loops, Takes, Turns, Empty
<1>1. p.buf = b /\ p.tool = tl /\ p.calls = cs /\ p.text = tx /\ p.done = FALSE /\ p.raises = FALSE
  BY <1>0 DEF St
<1>2. tl # <<>> /\ tl[1] = body /\ Len(b) = 2 /\ 1 # 0 /\ Len(Close) = 2
  BY <1>0 DEF Close
<1>3. Before(b, 1) = <<>>
  <2>1. Sub(b, 1, 1 - 1) = <<>>
    <3>1. 1 - 1 = 0
      OBVIOUS
    <3> QED
      BY <3>1, SubNone
  <2> QED
    BY <2>1, Zenon DEF Before, Sub
<1>4. After(b, 1 + Len(Close)) = <<>>
  <2>1. 1 + Len(Close) = 3
    BY <1>2
  <2>2. Sub(b, 3, Len(b)) = <<>>
    BY <1>2, SubNone
  <2> QED
    BY <2>1, <2>2, Zenon DEF After, Sub
<1>5. Cat(tl[1], Before(b, 1)) = body
  <2>1. Cat(body, <<>>) = body
    BY CatNone DEF Texts
  <2> QED
    BY <1>2, <1>3, <2>1
<1>6. Round(r, hold, p) =
        [p EXCEPT !.tool = <<>>, !.buf = After(p.buf, 1 + Len(Close)),
                  !.calls = IF Body(body) = "call" THEN App(p.calls, body) ELSE p.calls,
                  !.raises = Body(body) = "raises",
                  !.done = Body(body) = "raises"]
  <2>1. p.tool[1] \o Before(p.buf, 1) = body
    BY <1>1, <1>5, Zenon DEF Cat
  <2>2. Find(p.buf, Close) = 1 /\ Find(p.buf, Close) # 0 /\ ~p.done /\ p.tool # <<>>
    BY <1>1, <1>2
  <2>3. Round(r, hold, p) =
          ClosedRound(p, Find(p.buf, Close), p.tool[1] \o Before(p.buf, Find(p.buf, Close)))
    BY <2>2, Zenon DEF Round, ClosedRound
  <2>4. p.tool[1] \o Before(p.buf, Find(p.buf, Close)) = body
    BY <2>1, <2>2, Zenon
  <2>5. Round(r, hold, p) = ClosedRound(p, 1, body)
    BY <2>2, <2>3, <2>4, Zenon
  <2> QED
    BY <2>5, Zenon DEF ClosedRound, App
<1>7. p = [buf |-> b, tool |-> tl, calls |-> cs, text |-> tx, done |-> FALSE, raises |-> FALSE]
  BY <1>0 DEF St
<1>8. PICK raise : raise = (Body(body) = "raises")
  OBVIOUS
<1>9. q = [buf |-> z, tool |-> z, calls |-> ds, text |-> tx, done |-> raise, raises |-> raise]
  BY <1>0, <1>1, <1>4, <1>6, <1>7, <1>8
<1>10. CASE Body(body) = "raises"
  <2>1. raise = TRUE
    BY <1>8, <1>10
  <2>2. Raised(q, z, ds, tx)
    BY <1>9, <2>1 DEF Raised, St
  <2> QED
    BY <1>10, <2>2
<1>11. CASE Body(body) # "raises"
  <2>1. raise = FALSE
    BY <1>8, <1>11
  <2>2. Loops(q, z, z, ds, tx)
    BY <1>9, <2>1 DEF Loops, St
  <2> QED
    BY <1>11, <2>2
<1> QED
  BY <1>10, <1>11

\* The loop has ended.
LEMMA EndedIs ==
    \A q, b, tl, cs, tx : Ended(q, b, tl, cs, tx) =>
       q.buf = b /\ q.tool = tl /\ q.calls = cs /\ q.text = tx /\ q.done /\ q.raises = FALSE
BY DEF Ended, St

\* The loop was left by the exception of a body without get.
LEMMA RaisedIs ==
    \A q, z, cs, tx : Raised(q, z, cs, tx) =>
       q.buf = z /\ q.tool = z /\ q.calls = cs /\ q.text = tx /\ q.done /\ q.raises = TRUE
BY DEF Raised, St

\* The loop has ended after one round if it is at its end then.
LEMMA OneRound ==
    ASSUME NEW r, NEW hold, NEW p, NEW n \in Nat, n >= 2, NEW q, Turns(r, hold, p, q), q.done
    PROVE  Rounds(r, hold, p, n) = q
<1>1. q = Round(r, hold, p)
  BY DEF Turns
<1>2. q = Round(r, hold, Round(r, hold, p))
  BY <1>1, RoundDone
<1> QED
  BY <1>2, TwoRounds

\* The loop outside of a call: the text is let go as far as it may be, or a call begins.
LEMMA LoopFree ==
    ASSUME NEW r, NEW hold \in Nat, NEW w \in Texts, NEW cs, NEW n \in Nat, n >= 2, NEW p, NEW z, NEW e,
           Empty(z), Loops(p, w, z, cs, z), e = Rounds(r, hold, p, n),
           \A q \in Opens(r, w) : Fits(Symbols, w, q + 2, Len(w)) /\ Closes(Sub(w, q + 2, Len(w))) = {}
    PROVE  \/ /\ Opens(r, w) = {}
              /\ \E s \in 0 .. Len(w) : LetsGo(w, hold, s) /\ Ended(e, Sub(w, s + 1, Len(w)), z, cs, Sub(w, 1, s))
           \/ \E q, tl :
                    /\ q \in Opens(r, w)
                    /\ \A o \in Opens(r, w) : q <= o
                    /\ Reads(tl, Sub(w, q + 2, Len(w)))
                    /\ Ended(e, z, tl, cs, Sub(w, 1, q - 1))
<1>0. z = <<>>
  BY DEF Empty
<1>1. PICK o : OpensAt(r, w, o) /\ o = IF r.tools THEN Find(w, Open) ELSE 0
  BY DEF OpensAt
<1>2. Len(w) \in Nat /\ w \in Seq(Symbols)
  BY LenProperties DEF Texts
<1>3. \/ o = 0 /\ Opens(r, w) = {}
      \/ o # 0 /\ o \in Opens(r, w) /\ \A q \in Opens(r, w) : o <= q
  BY <1>1, OpenFound
<1>4. CASE o = 0
  <2>1. PICK s : LetsGo(w, hold, s) /\ s = IF Len(w) > hold THEN Len(w) - hold ELSE 0
    BY DEF LetsGo
  <2>2. s \in 0 .. Len(w)
    BY <1>2, <2>1
  <2>3. PICK d, f : d = Sub(w, 1, s) /\ f = Sub(w, s + 1, Len(w))
    OBVIOUS
  <2>4. d \in Seq(Symbols)
    <3>1. Fits(Symbols, w, 1, s)
      BY <1>2, <2>2 DEF Fits
    <3>2. IsSub(Symbols, d, w, 1, s)
      BY <2>3, <3>1, SubFits
    <3> QED
      BY <3>2 DEF IsSub
  <2>5. PICK g : Turns(r, hold, p, g)
    BY DEF Turns
  <2>6. Ended(g, f, z, cs, Cat(z, d))
    BY <1>1, <1>4, <2>1, <2>3, <2>5, RoundLast
  <2>7. Ended(g, f, z, cs, d)
    <3>1. Cat(<<>>, d) = d
      BY <2>4, CatNone
    <3> QED
      BY <1>0, <2>6, <3>1
  <2>8. g.done
    BY <2>7, EndedIs
  <2>9. e = g
    BY <2>5, <2>8, OneRound
  <2> QED
    BY <1>3, <1>4, <2>1, <2>2, <2>3, <2>7, <2>9
<1>5. CASE o # 0
  <2>1. PICK d, f : d = Sub(w, 1, o - 1) /\ f = Sub(w, o + 2, Len(w))
    OBVIOUS
  <2>2. o \in Opens(r, w) /\ Fits(Symbols, w, o + 2, Len(w)) /\ Closes(f) = {}
    BY <1>3, <1>5, <2>1
  <2>3. o \in 1 .. Len(w)
    BY <2>2, OpensIs
  <2>4. d \in Seq(Symbols) /\ f \in Seq(Symbols)
    <3>1. Fits(Symbols, w, 1, o - 1)
      BY <1>2, <2>3 DEF Fits
    <3>2. IsSub(Symbols, d, w, 1, o - 1) /\ IsSub(Symbols, f, w, o + 2, Len(w))
      BY <2>1, <2>2, <3>1, SubFits
    <3> QED
      BY <3>2 DEF IsSub
  <2>5. Cat(z, d) = d /\ Cat(z, f) = f
    <3>1. Cat(<<>>, d) = d /\ Cat(<<>>, f) = f
      BY <2>4, CatNone
    <3> QED
      BY <1>0, <3>1
  <2>6. Find(f, Close) = 0
    BY <2>2, CloseFound
  <2>7. PICK g, h, tl, tm : /\ Turns(r, hold, p, g) /\ Turns(r, hold, g, h)
                            /\ Reads(tl, z) /\ Reads(tm, Cat(z, f))
    BY DEF Turns, Reads
  <2>8. Loops(g, f, tl, cs, d)
    <3>1. Loops(g, f, tl, cs, Cat(z, d))
      BY <1>1, <1>5, <2>1, <2>7, RoundOpen
    <3> QED
      BY <2>5, <3>1
  <2>9. Ended(h, z, tm, cs, d)
    BY <2>6, <2>7, <2>8, RoundTool
  <2>10. h.done
    BY <2>9, EndedIs
  <2>11. e = h
    <3>1. h = Round(r, hold, Round(r, hold, p))
      BY <2>7, Zenon DEF Turns
    <3> QED
      BY <2>10, <3>1, TwoRounds
  <2>12. Reads(tm, f)
    BY <2>5, <2>7
  <2> QED
    BY <1>3, <1>5, <2>1, <2>2, <2>9, <2>11, <2>12
<1> QED
  BY <1>4, <1>5

\* The loop inside a call.
LEMMA LoopTool ==
    ASSUME NEW r, NEW hold \in Nat, NEW t, Find(t, Close) = 0, NEW body, NEW tl, Reads(tl, body),
           NEW cs, NEW n \in Nat, n >= 2, NEW p, NEW z, NEW e, NEW tm,
           Empty(z), Loops(p, t, tl, cs, z), Reads(tm, Cat(body, t)), e = Rounds(r, hold, p, n)
    PROVE  Ended(e, z, tm, cs, z)
<1>1. PICK g : Turns(r, hold, p, g)
  BY DEF Turns
<1>2. Ended(g, z, tm, cs, z)
  BY <1>1, RoundTool
<1>3. g.done
  BY <1>2, EndedIs
<1>4. e = g
  BY <1>1, <1>3, OneRound
<1> QED
  BY <1>2, <1>4

\* The loop at the end of a call.
LEMMA LoopClose ==
    ASSUME NEW r, NEW hold \in Nat, NEW t, t = Close, NEW body \in Texts, NEW tl, Reads(tl, body),
           NEW cs, NEW n \in Nat, n >= 2, NEW p, NEW z, NEW e, NEW ds,
           Empty(z), Loops(p, t, tl, cs, z), Takes(cs, body, ds), e = Rounds(r, hold, p, n)
    PROVE  IF Body(body) = "raises" THEN Raised(e, z, ds, z) ELSE Ended(e, z, z, ds, z)
<1>0. z = <<>>
  BY DEF Empty
<1>1. PICK g, h : Turns(r, hold, p, g) /\ Turns(r, hold, g, h)
  BY DEF Turns
<1>2. Find(t, Close) = 1
  <2>1. Piece(t)
    BY DEF Piece, Close, Texts, Symbols
  <2> QED
    BY <2>1, PieceCloses
<1>3. IF Body(body) = "raises" THEN Raised(g, z, ds, z) ELSE Loops(g, z, z, ds, z)
  BY <1>1, <1>2, RoundClose
<1>4. CASE Body(body) = "raises"
  <2>1. Raised(g, z, ds, z)
    BY <1>3, <1>4
  <2>2. g.done
    BY <2>1, RaisedIs
  <2>3. e = g
    BY <1>1, <2>2, OneRound
  <2> QED
    BY <1>4, <2>1, <2>3
<1>5. CASE Body(body) # "raises"
  <2>1. Loops(g, z, z, ds, z)
    BY <1>3, <1>5
  <2>2. z \in Texts /\ Len(z) = 0 /\ Opens(r, z) = {}
    <3>1. z \in Texts /\ Len(z) = 0
      BY <1>0, EmptySeq DEF Texts
    <3> QED
      BY <3>1, OpensIs
  <2>3. PICK o : OpensAt(r, z, o) /\ o = IF r.tools THEN Find(z, Open) ELSE 0
    BY DEF OpensAt
  <2>4. o = 0
    BY <2>2, <2>3, OpenFound
  <2>5. PICK s : LetsGo(z, hold, s) /\ s = IF Len(z) > hold THEN Len(z) - hold ELSE 0
    BY DEF LetsGo
  <2>6. s = 0
    BY <2>2, <2>5
  <2>7. Ended(h, Sub(z, s + 1, Len(z)), z, ds, Cat(z, Sub(z, 1, s)))
    BY <1>1, <2>1, <2>3, <2>4, <2>5, RoundLast
  <2>8. Sub(z, s + 1, Len(z)) = z /\ Sub(z, 1, s) = z /\ Cat(z, z) = z
    <3>1. Sub(z, 0 + 1, 0) = <<>> /\ Sub(z, 1, 0) = <<>>
      BY SubNone
    <3>2. z \in Seq(Symbols)
      BY <2>2 DEF Texts
    <3>3. Cat(z, <<>>) = z
      BY <3>2, CatNone
    <3> QED
      BY <1>0, <2>2, <2>6, <3>1, <3>3
  <2>9. Ended(h, z, z, ds, z)
    BY <2>7, <2>8
  <2>10. h.done
    BY <2>9, EndedIs
  <2>11. e = h
    <3>1. h = Round(r, hold, Round(r, hold, p))
      BY <1>1, Zenon DEF Turns
    <3> QED
      BY <2>10, <3>1, TwoRounds
  <2> QED
    BY <1>5, <2>9, <2>11
<1> QED
  BY <1>4, <1>5

-----------------------------------------------------------------------------
(* feed *)

\* What is held back is enough to begin a tag.
LEMMA HoldEnough ==
    \A r : Hold(r) \in Nat /\ (r.tools => Hold(r) >= 1) /\ (r.stop => Hold(r) >= 2)
<1> TAKE r
<1>1. PICK T : T = {1} \cup (IF r.tools THEN {Len(Open)} ELSE {}) \cup (IF r.stop THEN {Len(Stop)} ELSE {})
  OBVIOUS
<1>2. Len(Open) = 2 /\ Len(Stop) = 3
  BY DEF Open, Stop
<1>3. /\ T \subseteq 0 .. 3 /\ T # {} /\ \A i \in T : i \in Nat /\ i >= 1
      /\ r.tools => 2 \in T
      /\ r.stop => 3 \in T
  BY <1>1, <1>2
<1>4. PICK m : m = Max(T)
  OBVIOUS
<1>5. m \in T /\ \A i \in T : m >= i
  BY <1>3, <1>4, MaxIs
<1>6. Hold(r) = m - 1
  BY <1>1, <1>4, Zenon DEF Hold
<1> QED
  BY <1>3, <1>5, <1>6

\* How the parser goes on: outside of a call with enough held back, or inside of one.
OnTrack(r, y, f, tl, g) ==
    \/ Empty(tl) /\ \E v : FreeAt(r, y, v, f, g) /\ Tight(r, v, f)
    \/ Empty(f) /\ \E body, j : Reads(tl, body) /\ InAt(r, y, j, g) /\ body = Sub(y, j + 2, Len(y))

\* What is sent of it is the beginning of what is visible.
LEMMA OnTrackSends ==
    \A r, y, f, tl, g : OnTrack(r, y, f, tl, g)
       => g \in Texts /\ Visible(r, y) \in Texts /\ Begins(Symbols, g, Visible(r, y))
<1> TAKE r, y, f, tl, g
<1> HAVE OnTrack(r, y, f, tl, g)
<1>1. \/ \E v : FreeAt(r, y, v, f, g)
      \/ \E j : InAt(r, y, j, g)
  BY DEF OnTrack
<1>2. CASE \E v : FreeAt(r, y, v, f, g)
  <2>1. PICK v : FreeAt(r, y, v, f, g)
    BY <1>2
  <2>2. Base(r, y, Len(v), g)
    BY <2>1 DEF FreeAt
  <2> QED
    BY <2>2, BaseBegins
<1>3. CASE \E j : InAt(r, y, j, g)
  <2>1. PICK j : InAt(r, y, j, g)
    BY <1>3
  <2>2. PICK n : n = j - 1
    OBVIOUS
  <2>3. Base(r, y, n, g)
    BY <2>1, <2>2 DEF InAt
  <2> QED
    BY <2>3, BaseBegins
<1> QED
  BY <1>1, <1>2, <1>3

\* A token outside of a call, without a stop string.
LEMMA FeedFree ==
    ASSUME NEW r, NEW x, NEW v, NEW b, NEW c, NEW t, FreeAt(r, x, v, b, c), Tight(r, v, b), Piece(t),
           NEW hold \in Nat, NEW a, a = Cat(b, t), Stops(r, a) = {}, NEW y, y = Cat(x, t),
           NEW n \in Nat, n >= 2, NEW cs, NEW p, NEW z, NEW e,
           Empty(z), Loops(p, a, z, cs, z), e = Rounds(r, hold, p, n)
    PROVE  \E f, tl, d :
              /\ Ended(e, f, tl, cs, d)
              /\ (r.tools => hold >= 1) /\ (r.stop => hold >= 2) => OnTrack(r, y, f, tl, Cat(c, d))
              /\ hold = 0 => Cat(c, d) = Visible(r, y)
<1>0. z = <<>>
  BY DEF Empty
<1>1. Ahead(r, y, v, a, c)
  BY FreeAhead
<1>2. v \in Texts /\ a \in Texts /\ y = Cat(v, a)
  BY <1>1 DEF Ahead
<1>3. Len(a) \in Nat /\ Len(b) \in Nat /\ Len(a) >= Len(b) /\ a \in Seq(Symbols) /\ v \in Seq(Symbols)
  <2>1. b \in Seq(Symbols) /\ t \in Seq(Symbols)
    BY DEF FreeAt, Piece, Texts
  <2>2. Len(b) \in Nat /\ Len(t) \in Nat
    BY <2>1, LenProperties
  <2>3. Len(Cat(b, t)) = Len(b) + Len(t)
    BY <2>1, CatIs
  <2> QED
    BY <1>2, <2>2, <2>3 DEF Texts
<1>4. Shares(a, a)
  BY <1>2, <1>3 DEF Shares
<1>5. \A q \in Opens(r, a) : Fits(Symbols, a, q + 2, Len(a)) /\ Closes(Sub(a, q + 2, Len(a))) = {}
  <2> TAKE q \in Opens(r, a)
  <2>1. q + 1 \in 1 .. Len(a)
    BY <1>2, OpensIs
  <2>2. q + 1 <= Len(a)
    BY <2>1
  <2> QED
    BY <1>1, <1>4, <2>2, RestOpen
<1>6. \/ /\ Opens(r, a) = {}
         /\ \E s \in 0 .. Len(a) : LetsGo(a, hold, s) /\ Ended(e, Sub(a, s + 1, Len(a)), z, cs, Sub(a, 1, s))
      \/ \E q, tl :
               /\ q \in Opens(r, a)
               /\ \A o \in Opens(r, a) : q <= o
               /\ Reads(tl, Sub(a, q + 2, Len(a)))
               /\ Ended(e, z, tl, cs, Sub(a, 1, q - 1))
  BY <1>2, <1>5, LoopFree
<1>7. CASE /\ Opens(r, a) = {}
           /\ \E s \in 0 .. Len(a) : LetsGo(a, hold, s) /\ Ended(e, Sub(a, s + 1, Len(a)), z, cs, Sub(a, 1, s))
  <2>1. PICK s \in 0 .. Len(a) : LetsGo(a, hold, s) /\ Ended(e, Sub(a, s + 1, Len(a)), z, cs, Sub(a, 1, s))
    BY <1>7
  <2>2. s = IF Len(a) > hold THEN Len(a) - hold ELSE 0
    BY <2>1 DEF LetsGo
  <2>3. PICK d, f, w : d = Sub(a, 1, s) /\ f = Sub(a, s + 1, Len(a)) /\ w = Cat(v, d)
    OBVIOUS
  <2>4. FreeAt(r, y, w, f, Cat(c, d))
    BY <1>1, <1>7, <2>3, NoTag
  <2>5. Len(f) = Len(a) - s
    <3>1. Fits(Symbols, a, s + 1, Len(a))
      BY <1>3, <2>1 DEF Fits
    <3>2. IsSub(Symbols, f, a, s + 1, Len(a))
      BY <2>3, <3>1, SubFits
    <3>3. Len(f) = Len(a) + 1 - (s + 1)
      BY <3>2 DEF IsSub
    <3> QED
      BY <1>3, <2>1, <3>3
  <2>6. s = 0 => w = v
    <3>1. s = 0 => d = <<>>
      BY <2>3, SubNone
    <3>2. Cat(v, <<>>) = v
      BY <1>3, CatNone
    <3> QED
      BY <2>3, <3>1, <3>2
  <2>7. ASSUME (r.tools => hold >= 1) /\ (r.stop => hold >= 2) PROVE OnTrack(r, y, f, z, Cat(c, d))
    <3>1. CASE s = 0
      <4>1. v = <<>> \/ v[Len(v)] = "c2" \/ ((r.tools => Len(b) >= 1) /\ (r.stop => Len(b) >= 2))
        BY DEF Tight
      <4>2. Len(f) >= Len(b) /\ Len(f) \in Nat
        BY <1>3, <2>5, <3>1
      <4>3. v = <<>> \/ v[Len(v)] = "c2" \/ ((r.tools => Len(f) >= 1) /\ (r.stop => Len(f) >= 2))
        BY <1>3, <4>1, <4>2
      <4>4. Tight(r, w, f)
        BY <2>6, <3>1, <4>3 DEF Tight
      <4> QED
        BY <2>4, <4>4 DEF OnTrack
    <3>2. CASE s # 0
      <4>1. Len(f) = hold
        BY <1>3, <2>2, <2>5, <3>2
      <4>2. Tight(r, w, f)
        BY <2>7, <4>1 DEF Tight
      <4> QED
        BY <2>4, <4>2 DEF OnTrack
    <3> QED
      BY <3>1, <3>2
  <2>8. ASSUME hold = 0 PROVE Cat(c, d) = Visible(r, y)
    <3>1. s = Len(a)
      BY <1>3, <2>2, <2>8
    <3>2. d = a
      BY <1>3, <2>3, <3>1, SubWhole
    <3>3. f = <<>>
      <4>1. Len(a) < s + 1 /\ s + 1 \in Nat
        BY <1>3, <3>1
      <4> QED
        BY <1>3, <2>3, <4>1, SubNone
    <3>4. w = y
      BY <1>2, <2>3, <3>2
    <3>5. FreeAt(r, y, y, <<>>, Cat(c, d))
      BY <2>4, <3>3, <3>4
    <3> QED
      BY <3>5, FreeAll
  <2>9. Ended(e, f, z, cs, d)
    BY <2>1, <2>3
  <2> QED
    BY <2>7, <2>8, <2>9
<1>8. CASE \E q, tl :
               /\ q \in Opens(r, a)
               /\ \A o \in Opens(r, a) : q <= o
               /\ Reads(tl, Sub(a, q + 2, Len(a)))
               /\ Ended(e, z, tl, cs, Sub(a, 1, q - 1))
  <2>1. PICK q, tl :
               /\ q \in Opens(r, a)
               /\ \A o \in Opens(r, a) : q <= o
               /\ Reads(tl, Sub(a, q + 2, Len(a)))
               /\ Ended(e, z, tl, cs, Sub(a, 1, q - 1))
    BY <1>8
  <2>2. PICK d, j : d = Sub(a, 1, q - 1) /\ j = Len(v) + q
    OBVIOUS
  <2>3. InAt(r, y, j, Cat(c, d))
    BY <1>1, <2>1, <2>2, FirstOpen
  <2>4. PICK body : body = Sub(a, q + 2, Len(a))
    OBVIOUS
  <2>5. Reads(tl, body) /\ body = Sub(y, j + 2, Len(y))
    BY <1>1, <2>1, <2>2, <2>4, RestBody
  <2>6. OnTrack(r, y, z, tl, Cat(c, d))
    BY <2>3, <2>5 DEF OnTrack
  <2>7. Cat(c, d) = Visible(r, y)
    BY <2>3, InAll
  <2>8. Ended(e, z, tl, cs, d)
    BY <2>1, <2>2
  <2> QED
    BY <2>6, <2>7, <2>8
<1> QED
  BY <1>6, <1>7, <1>8

\* A token outside of a call with which a stop string is complete.
LEMMA FeedStop ==
    ASSUME NEW r, NEW x, NEW v, NEW b, NEW c, NEW t, FreeAt(r, x, v, b, c), Tight(r, v, b), Piece(t),
           NEW hold \in Nat, hold = 0, NEW a, a = Cat(b, t), NEW y, y = Cat(x, t),
           NEW o \in Stops(r, a), \A i \in Stops(r, a) : o <= i, NEW w, w = Sub(a, 1, o - 1),
           NEW n \in Nat, n >= 2, NEW cs, NEW p, NEW z, NEW e,
           Empty(z), Loops(p, w, z, cs, z), e = Rounds(r, hold, p, n)
    PROVE  \E f, tl, d : Ended(e, f, tl, cs, d) /\ Cat(c, d) = Visible(r, y)
<1>1. Ahead(r, y, v, a, c)
  BY FreeAhead
<1>2. a \in Texts
  BY <1>1 DEF Ahead
<1>3. Len(a) \in Nat /\ a \in Seq(Symbols)
  BY <1>2, LenProperties DEF Texts
<1>4. o \in 1 .. Len(a) /\ a[o] = "s"
  BY <1>2, StopsIs
<1>5. PICK m : m = o - 1
  OBVIOUS
<1>6. m \in Nat /\ m < Len(a) /\ w = Sub(a, 1, m) /\ o = m + 1
  BY <1>3, <1>4, <1>5
<1>7. w \in Texts /\ Len(w) = m /\ Len(w) \in Nat /\ Shares(w, a)
  <2>1. Fits(Symbols, a, 1, m)
    BY <1>3, <1>6 DEF Fits
  <2>2. IsSub(Symbols, w, a, 1, m)
    BY <1>6, <2>1, SubFits
  <2>3. w \in Seq(Symbols) /\ Len(w) = m + 1 - 1 /\ \A k \in 1 .. m + 1 - 1 : w[k] = a[1 + k - 1]
    BY <2>2 DEF IsSub
  <2>4. m + 1 - 1 = m /\ \A k \in 1 .. m : 1 + k - 1 = k
    BY <1>6
  <2>5. Len(w) = m /\ \A k \in 1 .. m : w[k] = a[k]
    BY <2>3, <2>4
  <2> QED
    BY <1>2, <1>3, <1>6, <2>3, <2>5 DEF Shares, Texts
<1>8. \A q \in Opens(r, a) : q \in Nat /\ q + 1 \in Nat /\ a[q] = "o1" /\ a[q + 1] = "o2"
  BY <1>2, OpensIs
<1>9. \A q \in Opens(r, a) : q + 1 <= m \/ q > o
  BY <1>4, <1>6, <1>8
<1>10. \A q \in Opens(r, w) : q \in Nat /\ q + 1 <= m /\ q \in Opens(r, a)
  <2> TAKE q \in Opens(r, w)
  <2>1. q \in 1 .. Len(w) /\ q + 1 \in 1 .. Len(w)
    BY <1>7, OpensIs
  <2>2. q \in Nat /\ q + 1 <= Len(w)
    BY <2>1
  <2> QED
    BY <1>7, <2>2, TagsStay
<1>11. \A q \in Opens(r, a) : q \in Opens(r, w) \/ q > o
  <2> TAKE q \in Opens(r, a)
  <2>1. q \in Nat
    BY <1>8
  <2>2. q + 1 <= m => q \in Opens(r, w)
    BY <1>7, <2>1, TagsStay
  <2> QED
    BY <1>9, <2>2
<1>12. \A q \in Opens(r, w) : Fits(Symbols, w, q + 2, Len(w)) /\ Closes(Sub(w, q + 2, Len(w))) = {}
  <2> TAKE q \in Opens(r, w)
  <2>1. q \in Opens(r, a) /\ q + 1 <= Len(w)
    BY <1>7, <1>10
  <2> QED
    BY <1>1, <1>7, <2>1, RestOpen
<1>13. \/ /\ Opens(r, w) = {}
          /\ \E s \in 0 .. Len(w) : LetsGo(w, hold, s) /\ Ended(e, Sub(w, s + 1, Len(w)), z, cs, Sub(w, 1, s))
       \/ \E q, tl :
                /\ q \in Opens(r, w)
                /\ \A i \in Opens(r, w) : q <= i
                /\ Reads(tl, Sub(w, q + 2, Len(w)))
                /\ Ended(e, z, tl, cs, Sub(w, 1, q - 1))
  BY <1>7, <1>12, LoopFree
<1>14. CASE /\ Opens(r, w) = {}
            /\ \E s \in 0 .. Len(w) : LetsGo(w, hold, s) /\ Ended(e, Sub(w, s + 1, Len(w)), z, cs, Sub(w, 1, s))
  <2>1. PICK s \in 0 .. Len(w) : LetsGo(w, hold, s) /\ Ended(e, Sub(w, s + 1, Len(w)), z, cs, Sub(w, 1, s))
    BY <1>14
  <2>2. s = Len(w)
    <3>1. s = IF Len(w) > hold THEN Len(w) - hold ELSE 0
      BY <2>1 DEF LetsGo
    <3> QED
      BY <1>7, <3>1
  <2>3. Sub(w, 1, s) = w
    BY <1>7, <2>2, SubWhole DEF Texts
  <2>4. \A q \in Opens(r, a) : ~(q <= o)
    BY <1>4, <1>8, <1>11, <1>14
  <2>5. Visible(r, y) = Cat(c, Sub(a, 1, o - 1))
    BY <1>1, <2>4, FirstStop
  <2>6. Cat(c, w) = Visible(r, y)
    BY <2>5
  <2>7. PICK f : Ended(e, f, z, cs, w)
    BY <2>1, <2>3
  <2> QED
    BY <2>6, <2>7
<1>15. CASE \E q, tl :
                /\ q \in Opens(r, w)
                /\ \A i \in Opens(r, w) : q <= i
                /\ Reads(tl, Sub(w, q + 2, Len(w)))
                /\ Ended(e, z, tl, cs, Sub(w, 1, q - 1))
  <2>1. PICK q, tl :
                /\ q \in Opens(r, w)
                /\ \A i \in Opens(r, w) : q <= i
                /\ Ended(e, z, tl, cs, Sub(w, 1, q - 1))
    BY <1>15
  <2>2. q \in Nat /\ q + 1 <= m /\ q \in Opens(r, a) /\ q \in 1 .. Len(w)
    BY <1>7, <1>10, <2>1, OpensIs
  <2>3. \A i \in Opens(r, a) : q <= i
    BY <1>4, <1>6, <1>8, <1>11, <2>1, <2>2
  <2>4. \A i \in Stops(r, a) : q <= i
    <3>1. \A i \in Stops(r, a) : i \in Nat
      BY <1>2, StopsIs
    <3> QED
      BY <1>4, <1>6, <2>2, <3>1
  <2>5. PICK d, j : d = Sub(a, 1, q - 1) /\ j = Len(v) + q
    OBVIOUS
  <2>6. InAt(r, y, j, Cat(c, d))
    BY <1>1, <2>2, <2>3, <2>4, <2>5, FirstOpen
  <2>7. Cat(c, d) = Visible(r, y)
    BY <2>6, InAll
  <2>8. Sub(w, 1, q - 1) = d
    <3>1. PICK k : k = q - 1
      OBVIOUS
    <3>2. Fits(Symbols, w, 1, k)
      BY <1>7, <2>2, <3>1 DEF Fits, Texts
    <3>3. Sub(a, 1, k) = Sub(w, 1, k)
      BY <1>7, <3>2, SubShares
    <3> QED
      BY <2>5, <3>1, <3>3
  <2>9. Ended(e, z, tl, cs, d)
    BY <2>1, <2>8
  <2> QED
    BY <2>7, <2>9
<1> QED
  BY <1>13, <1>14, <1>15

\* A token inside of a call.
LEMMA FeedTool ==
    ASSUME NEW r, NEW x, NEW j, NEW c, NEW t, InAt(r, x, j, c), Piece(t),
           NEW body, body = Sub(x, j + 2, Len(x)), NEW tl, Reads(tl, body), NEW y, y = Cat(x, t),
           NEW hold \in Nat, NEW n \in Nat, n >= 2, NEW cs, cs = Calls(r, x), NEW p, NEW z, NEW e,
           Empty(z), Loops(p, t, tl, cs, z), e = Rounds(r, hold, p, n)
    PROVE  /\ c = Visible(r, y)
           /\ \/ \E ds : Raised(e, z, ds, z) /\ Calls(r, y) = cs /\ OnTrack(r, y, z, z, c)
              \/ \E tm, ds : Ended(e, z, tm, ds, z) /\ Calls(r, y) = ds /\ OnTrack(r, y, z, tm, c)
<1>0. z = <<>>
  BY DEF Empty
<1>1. j \in Opens(r, x) /\ x \in Texts
  BY DEF InAt, Base
<1>2. Fits(Symbols, x, j + 2, Len(x)) /\ body \in Texts
  <2>1. j \in 1 .. Len(x) /\ j + 1 \in 1 .. Len(x) /\ x \in Seq(Symbols) /\ Len(x) \in Nat
    BY <1>1, OpensIs, LenProperties DEF Texts
  <2>2. Fits(Symbols, x, j + 2, Len(x))
    BY <2>1 DEF Fits
  <2>3. IsSub(Symbols, body, x, j + 2, Len(x))
    BY <2>2, SubFits
  <2> QED
    BY <2>2, <2>3 DEF IsSub, Texts
<1>3. CASE t # Close
  <2>1. InAt(r, y, j, c) /\ Calls(r, y) = cs
    BY <1>3, InGrown
  <2>2. Find(t, Close) = 0
    BY <1>3, PieceCloses
  <2>3. PICK new, tm : new = Cat(body, t) /\ Reads(tm, Cat(body, t)) /\ Reads(tm, new)
    BY DEF Reads
  <2>4. Ended(e, z, tm, cs, z)
    BY <2>2, <2>3, LoopTool
  <2>5. new = Sub(y, j + 2, Len(y))
    <3>1. t \in Seq(Symbols)
      BY DEF Piece, Texts
    <3>2. PICK i : i = j + 2
      OBVIOUS
    <3>3. Fits(Symbols, x, i, Len(x)) /\ body = Sub(x, i, Len(x))
      BY <1>2, <3>2
    <3>4. Sub(Cat(x, t), i, Len(Cat(x, t))) = Cat(Sub(x, i, Len(x)), t)
      BY <3>1, <3>3, SubToEnd
    <3> QED
      BY <2>3, <3>2, <3>3, <3>4
  <2>6. OnTrack(r, y, z, tm, c)
    BY <2>1, <2>3, <2>5 DEF OnTrack
  <2>7. c = Visible(r, y)
    BY <2>1, InAll
  <2> QED
    BY <2>1, <2>4, <2>6, <2>7
<1>4. CASE t = Close
  <2>1. PICK call : call = IF Body(body) = "call" THEN App(cs, body) ELSE cs
    OBVIOUS
  <2>2. y = Cat(x, Close)
    BY <1>4
  <2>3. FreeAt(r, y, y, z, c) /\ Tight(r, y, z) /\ Calls(r, y) = call
    BY <1>0, <2>1, <2>2, InClosed
  <2>4. Takes(cs, body, call)
    BY <2>1 DEF Takes
  <2>5. IF Body(body) = "raises" THEN Raised(e, z, call, z) ELSE Ended(e, z, z, call, z)
    BY <1>2, <1>4, <2>4, LoopClose
  <2>6. OnTrack(r, y, z, z, c)
    BY <2>3 DEF OnTrack
  <2>7. c = Visible(r, y)
    BY <1>0, <2>3, FreeAll
  <2>8. CASE Body(body) = "raises"
    <3>1. call = cs
      BY <2>1, <2>8
    <3> QED
      BY <2>3, <2>5, <2>6, <2>7, <2>8, <3>1
  <2>9. CASE Body(body) # "raises"
    BY <2>3, <2>5, <2>6, <2>7, <2>9
  <2> QED
    BY <2>8, <2>9
<1> QED
  BY <1>3, <1>4

\* What a feed comes to, when the parser was on track.
Feeds(f, final, c, y) ==
    /\ Visible(req, y) \in Texts
    /\ \/ /\ f.state.raises = TRUE
          /\ c = Visible(req, y) /\ calls = Calls(req, y)
       \/ /\ f.state.raises = FALSE
          /\ f.state.calls = Calls(req, y)
          /\ f.hit \/ final => Cat(c, f.state.text) = Visible(req, y)
          /\ ~f.hit /\ ~final => OnTrack(req, y, f.state.buf, f.state.tool, Cat(c, f.state.text))

\* feed takes the loop to the text at hand.
LEMMA FeedIs ==
    ASSUME NEW t, NEW final, NEW f, f = Feed(t, final),
           NEW a, a = Cat(buf, t), NEW o, o = IF req.stop /\ tool = <<>> THEN Find(a, Stop) ELSE 0,
           NEW w, w = IF o # 0 THEN Sub(a, 1, o - 1) ELSE a
    PROVE  /\ f.hit = (o # 0)
           /\ \E p : /\ Loops(p, w, tool, calls, <<>>)
                     /\ f.state = Rounds(req, IF final \/ o # 0 THEN 0 ELSE Hold(req), p, Len(a) + 2)
<1>1. PICK p : p = St(w, tool, calls, <<>>, FALSE, FALSE)
  OBVIOUS
<1>2. PICK e : e = Rounds(req, IF final \/ o # 0 THEN 0 ELSE Hold(req), p, Len(a) + 2)
  OBVIOUS
<1>3. Feed(t, final) = [state |-> e, hit |-> o # 0]
  BY <1>1, <1>2, Zenon DEF Feed, Cat, St, Sub, Before, Held
<1>4. f.state = e /\ f.hit = (o # 0)
  BY <1>3
<1>5. Loops(p, w, tool, calls, <<>>)
  BY <1>1, Zenon DEF Loops
<1> QED
  BY <1>2, <1>4, <1>5

\* A parser on track stays so, and when nothing is held back all that is visible was sent.
LEMMA FeedGoes ==
    ASSUME NEW c, OnTrack(req, said, buf, tool, c), calls = Calls(req, said), NEW t, Piece(t),
           NEW final, final \in BOOLEAN, NEW f, f = Feed(t, final), NEW y, y = Cat(said, t)
    PROVE  Feeds(f, final, c, y)
<1>1. PICK a, z : a = Cat(buf, t) /\ z = <<>> /\ Empty(z)
  BY DEF Empty
<1>2. PICK o : o = IF req.stop /\ tool = <<>> THEN Find(a, Stop) ELSE 0
  OBVIOUS
<1>3. PICK w : w = IF o # 0 THEN Sub(a, 1, o - 1) ELSE a
  OBVIOUS
<1>4. PICK hold : hold = IF final \/ o # 0 THEN 0 ELSE Hold(req)
  OBVIOUS
<1>5. PICK n : n = Len(a) + 2
  OBVIOUS
<1>6. f.hit = (o # 0) /\ \E p : Loops(p, w, tool, calls, z) /\ f.state = Rounds(req, hold, p, n)
  BY <1>1, <1>2, <1>3, <1>4, <1>5, FeedIs
<1>7. PICK p : Loops(p, w, tool, calls, z) /\ f.state = Rounds(req, hold, p, n)
  BY <1>6
<1>8. PICK e : e = f.state
  OBVIOUS
<1>9. hold \in Nat /\ (final \/ o # 0 => hold = 0)
      /\ (~final /\ o = 0 => (req.tools => hold >= 1) /\ (req.stop => hold >= 2))
  BY <1>4, HoldEnough
<1>10. \/ Empty(tool) /\ \E v : FreeAt(req, said, v, buf, c) /\ Tight(req, v, buf)
       \/ Empty(buf) /\ \E body, j : /\ Reads(tool, body) /\ InAt(req, said, j, c)
                                     /\ body = Sub(said, j + 2, Len(said))
  BY DEF OnTrack
<1>11. CASE Empty(tool) /\ \E v : FreeAt(req, said, v, buf, c) /\ Tight(req, v, buf)
  <2>1. PICK v : FreeAt(req, said, v, buf, c) /\ Tight(req, v, buf)
    BY <1>11
  <2>2. tool = z /\ tool = <<>>
    BY <1>1, <1>11 DEF Empty
  <2>3. a \in Texts
    <3>1. Ahead(req, y, v, a, c)
      BY <1>1, <2>1, FreeAhead
    <3> QED
      BY <3>1 DEF Ahead
  <2>4. n \in Nat /\ n >= 2
    <3>1. Len(a) \in Nat
      BY <2>3, LenProperties DEF Texts
    <3> QED
      BY <1>5, <3>1
  <2>5. Base(req, y, Len(v), c) /\ Calls(req, y) = calls
    BY <2>1, FreeGrown
  <2>6. Visible(req, y) \in Texts
    BY <2>5, BaseBegins
  <2>7. o = IF req.stop THEN Find(a, Stop) ELSE 0
    BY <1>2, <2>2
  <2>8. \/ o = 0 /\ Stops(req, a) = {}
        \/ o # 0 /\ o \in Stops(req, a) /\ \A i \in Stops(req, a) : o <= i
    BY <2>3, <2>7, StopFound
  <2>9. Loops(p, w, z, calls, z)
    BY <1>7, <2>2
  <2>10. CASE o = 0
    <3>1. Stops(req, a) = {} /\ Loops(p, a, z, calls, z)
      BY <1>3, <2>8, <2>9, <2>10
    <3>2. PICK b, tl, d :
              /\ Ended(e, b, tl, calls, d)
              /\ (req.tools => hold >= 1) /\ (req.stop => hold >= 2) => OnTrack(req, y, b, tl, Cat(c, d))
              /\ hold = 0 => Cat(c, d) = Visible(req, y)
      BY <1>1, <1>7, <1>8, <1>9, <2>1, <2>4, <3>1, FeedFree
    <3>3. e.buf = b /\ e.tool = tl /\ e.calls = calls /\ e.text = d /\ e.raises = FALSE
      BY <3>2, EndedIs
    <3>4. f.hit = FALSE
      BY <1>6, <2>10
    <3>5. final => Cat(c, d) = Visible(req, y)
      BY <1>9, <3>2
    <3>6. ~final => OnTrack(req, y, b, tl, Cat(c, d))
      BY <1>9, <2>10, <3>2
    <3> QED
      BY <1>8, <2>5, <2>6, <3>3, <3>4, <3>5, <3>6 DEF Feeds
  <2>11. CASE o # 0
    <3>1. w = Sub(a, 1, o - 1) /\ o \in Stops(req, a) /\ \A i \in Stops(req, a) : o <= i
      BY <1>3, <2>8, <2>11
    <3>2. hold = 0
      BY <1>9, <2>11
    <3>3. PICK b, tl, d : Ended(e, b, tl, calls, d) /\ Cat(c, d) = Visible(req, y)
      BY <1>1, <1>7, <1>8, <1>9, <2>1, <2>4, <2>9, <3>1, <3>2, FeedStop
    <3>4. e.calls = calls /\ e.text = d /\ e.raises = FALSE
      BY <3>3, EndedIs
    <3>5. f.hit = TRUE
      BY <1>6, <2>11
    <3> QED
      BY <1>8, <2>5, <2>6, <3>3, <3>4, <3>5 DEF Feeds
  <2> QED
    BY <2>10, <2>11
<1>12. CASE Empty(buf) /\ \E body, j : /\ Reads(tool, body) /\ InAt(req, said, j, c)
                                       /\ body = Sub(said, j + 2, Len(said))
  <2>1. PICK body, j : Reads(tool, body) /\ InAt(req, said, j, c) /\ body = Sub(said, j + 2, Len(said))
    BY <1>12
  <2>2. t \in Seq(Symbols)
    BY DEF Piece, Texts
  <2>3. a = t
    <3>1. buf = <<>>
      BY <1>12 DEF Empty
    <3>2. Cat(<<>>, t) = t
      BY <2>2, CatNone
    <3> QED
      BY <1>1, <3>1, <3>2
  <2>4. o = 0 /\ w = t
    <3>1. tool # <<>>
      BY <2>1 DEF Reads
    <3>2. o = 0
      BY <1>2, <3>1
    <3> QED
      BY <1>3, <2>3, <3>2
  <2>5. n \in Nat /\ n >= 2
    <3>1. Len(t) \in Nat
      BY <2>2, LenProperties
    <3> QED
      BY <1>5, <2>3, <3>1
  <2>6. Loops(p, t, tool, calls, z)
    BY <1>7, <2>4
  <2>7. /\ c = Visible(req, y)
        /\ \/ \E ds : Raised(e, z, ds, z) /\ Calls(req, y) = calls /\ OnTrack(req, y, z, z, c)
           \/ \E tm, ds : Ended(e, z, tm, ds, z) /\ Calls(req, y) = ds /\ OnTrack(req, y, z, tm, c)
    BY <1>1, <1>7, <1>8, <1>9, <2>1, <2>5, <2>6, FeedTool
  <2>8. CASE \E ds : Raised(e, z, ds, z) /\ Calls(req, y) = calls /\ OnTrack(req, y, z, z, c)
    <3>1. PICK ds : Raised(e, z, ds, z) /\ Calls(req, y) = calls /\ OnTrack(req, y, z, z, c)
      BY <2>8
    <3>2. e.raises = TRUE
      BY <3>1, RaisedIs
    <3>3. Visible(req, y) \in Texts
      BY <3>1, OnTrackSends
    <3> QED
      BY <1>8, <2>7, <3>1, <3>2, <3>3 DEF Feeds
  <2>9. CASE \E tm, ds : Ended(e, z, tm, ds, z) /\ Calls(req, y) = ds /\ OnTrack(req, y, z, tm, c)
    <3>1. PICK tm, ds : Ended(e, z, tm, ds, z) /\ Calls(req, y) = ds /\ OnTrack(req, y, z, tm, c)
      BY <2>9
    <3>2. e.buf = z /\ e.tool = tm /\ e.calls = ds /\ e.text = z /\ e.raises = FALSE
      BY <3>1, EndedIs
    <3>3. Visible(req, y) \in Texts /\ c \in Texts
      BY <3>1, OnTrackSends
    <3>4. Cat(c, z) = c
      <4>1. Cat(c, <<>>) = c
        BY <3>3, CatNone DEF Texts
      <4> QED
        BY <1>1, <4>1
    <3> QED
      BY <1>8, <2>7, <3>1, <3>2, <3>3, <3>4 DEF Feeds
  <2> QED
    BY <2>7, <2>8, <2>9
<1> QED
  BY <1>10, <1>11, <1>12

-----------------------------------------------------------------------------
(* The invariant of "vl" *)

\* The client's reply, without reasoning.
Reply(c, cs, en) == [content |-> c, reasoning |-> <<>>, calls |-> cs, end |-> en]

\* What the client has of the text x, and all of it when it was told so.
Sent(r, x, c, cs, en) ==
    /\ c \in Texts /\ Visible(r, x) \in Texts
    /\ Begins(Symbols, c, Visible(r, x))
    /\ cs = Calls(r, x) \/ cs = <<>>
    /\ en \in {"stop", "tool_calls"} => c = Visible(r, x) /\ cs = Calls(r, x)

\* The inductive invariant of "vl".
VlOk ==
    /\ said \in Texts
    /\ reader = "none" /\ thread = "none" /\ todo = <<>> /\ queue = <<>>
    /\ got = Reply(got.content, got.calls, got.end)
    /\ Sent(req, said, got.content, got.calls, got.end)
    /\ got.end = "no" =>
          /\ got.calls = calls /\ calls = Calls(req, said)
          /\ OnTrack(req, said, buf, tool, got.content)
          /\ FastText => Empty(buf) /\ Empty(tool)

\* A reply with other fields.
LEMMA ReplyWith ==
    ASSUME NEW c, NEW cs, NEW en, NEW z, NEW g, g = [content |-> c, reasoning |-> z, calls |-> cs, end |-> en],
           NEW d, NEW ds, NEW e, NEW q, q = [g EXCEPT !.content = d, !.calls = ds, !.end = e]
    PROVE  q = [content |-> d, reasoning |-> z, calls |-> ds, end |-> e]
OBVIOUS

\* An event adds to the reply.
LEMMA ReceivedIs ==
    ASSUME got = Reply(got.content, got.calls, got.end), NEW text, NEW all, NEW end, Received(text, all, end)
    PROVE  /\ got' = Reply(got'.content, got'.calls, got'.end)
           /\ got'.content = Cat(got.content, text) /\ got'.calls = all /\ got'.end = end
<1>1. PICK d, c, cs, en : d = Cat(got.content, text) /\ c = got.content /\ cs = got.calls /\ en = got.end
  OBVIOUS
<1>2. got' = [got EXCEPT !.content = d, !.calls = all, !.end = end]
  BY <1>1, Zenon DEF Received, Cat
<1>3. got = [content |-> c, reasoning |-> <<>>, calls |-> cs, end |-> en]
  BY <1>1, Zenon DEF Reply
<1>4. got' = [content |-> d, reasoning |-> <<>>, calls |-> all, end |-> end]
  BY <1>2, <1>3, ReplyWith, Zenon
<1>5. got' = Reply(d, all, end)
  BY <1>4, Zenon DEF Reply
<1>6. got'.content = d /\ got'.calls = all /\ got'.end = end
  BY <1>4
<1> QED
  BY <1>1, <1>5, <1>6

\* With nothing held back all that is visible was sent.
LEMMA OnTrackAll ==
    \A r, y, f, tl, g : OnTrack(r, y, f, tl, g) /\ Empty(f) => g = Visible(r, y)
<1> TAKE r, y, f, tl, g
<1> HAVE OnTrack(r, y, f, tl, g) /\ Empty(f)
<1>1. f = <<>>
  BY DEF Empty
<1>2. \/ \E v : FreeAt(r, y, v, f, g)
      \/ \E j : InAt(r, y, j, g)
  BY DEF OnTrack
<1>3. CASE \E v : FreeAt(r, y, v, f, g)
  <2>1. PICK v : FreeAt(r, y, v, f, g)
    BY <1>3
  <2>2. v \in Texts /\ y = Cat(v, f)
    BY <2>1 DEF FreeAt
  <2>3. Cat(v, <<>>) = v
    BY <2>2, CatNone DEF Texts
  <2>4. FreeAt(r, y, y, <<>>, g)
    BY <1>1, <2>1, <2>2, <2>3
  <2> QED
    BY <2>4, FreeAll
<1>4. CASE \E j : InAt(r, y, j, g)
  BY <1>4, InAll
<1> QED
  BY <1>2, <1>3, <1>4

\* A list of calls begins with itself and with nothing.
LEMMA CallsBegin ==
    \A r, x : x \in Texts => IsPrefix(Calls(r, x), Calls(r, x)) /\ IsPrefix(<<>>, Calls(r, x))
<1> TAKE r, x
<1> HAVE x \in Texts
<1>1. PICK cs : cs = Calls(r, x)
  OBVIOUS
<1>2. PICK E : Bodied(x) \in Seq(E)
  BY BodiedIs
<1>3. PICK a, S : a = Bodied(x) /\ a \in Seq(E) /\ S = CallSet(r, x)
  BY <1>2
<1>4. Picked(a, S) \in Seq(E)
  BY <1>3, PickedType
<1>5. cs \in Seq(E) /\ <<>> \in Seq(E)
  BY <1>1, <1>3, <1>4, CallsIs, EmptySeq
<1>6. Begins(E, cs, cs) /\ Begins(E, <<>>, cs)
  BY <1>5, BeginsRefl, BeginsEmpty
<1>7. IsPrefix(cs, cs) /\ IsPrefix(<<>>, cs)
  BY <1>5, <1>6, BeginsIsPrefix
<1> QED
  BY <1>1, <1>7

\* Without tools and stop strings a token is sent as it is.
LEMMA FastGoes ==
    ASSUME FastText, NEW c, OnTrack(req, said, buf, tool, c), Empty(buf), Empty(tool),
           NEW t, Piece(t), NEW y, y = Cat(said, t)
    PROVE  OnTrack(req, y, buf, tool, Cat(c, t)) /\ Calls(req, y) = <<>>
<1>0. ~req.tools /\ ~req.stop
  BY DEF FastText
<1>1. buf = <<>> /\ tool = <<>>
  BY DEF Empty
<1>2. PICK v : FreeAt(req, said, v, buf, c) /\ Tight(req, v, buf)
  BY <1>1 DEF OnTrack, Reads
<1>3. Ahead(req, y, v, Cat(buf, t), c)
  BY <1>2, FreeAhead
<1>4. t \in Texts /\ t \in Seq(Symbols) /\ Len(t) \in Nat
  BY LenProperties DEF Piece, Texts
<1>5. Ahead(req, y, v, t, c)
  <2>1. Cat(<<>>, t) = t
    BY <1>4, CatNone
  <2> QED
    BY <1>1, <1>3, <2>1
<1>6. Opens(req, t) = {} /\ Stops(req, t) = {}
  BY <1>0 DEF Opens, Stops
<1>7. PICK s : s = Len(t) /\ s \in 0 .. Len(t)
  BY <1>4
<1>8. FreeAt(req, y, Cat(v, Sub(t, 1, s)), Sub(t, s + 1, Len(t)), Cat(c, Sub(t, 1, s)))
  BY <1>5, <1>6, <1>7, NoTag
<1>9. Sub(t, 1, s) = t /\ Sub(t, s + 1, Len(t)) = <<>>
  <2>1. s < s + 1 /\ s + 1 \in Nat
    BY <1>4, <1>7
  <2> QED
    BY <1>4, <1>7, <2>1, SubWhole, SubNone
<1>10. PICK w : w = Cat(v, t)
  OBVIOUS
<1>11. FreeAt(req, y, w, buf, Cat(c, t))
  BY <1>1, <1>8, <1>9, <1>10
<1>12. Tight(req, w, buf)
  BY <1>0 DEF Tight
<1>13. OnTrack(req, y, buf, tool, Cat(c, t))
  BY <1>11, <1>12 DEF OnTrack
<1> QED
  BY <1>0, <1>13, Zenon DEF Calls

\* What a feed brings keeps the invariant.
LEMMA YieldOk ==
    ASSUME VlOk, got.end = "no", ~FastText, NEW f, NEW final \in BOOLEAN, NEW y, y \in Texts, NEW en,
           Feeds(f, final, got.content, y), Yield(f, en),
           en = "no" => ~f.hit /\ ~final,
           en \in {"stop", "tool_calls"} => f.hit \/ final,
           said' = y, UNCHANGED <<req, todo, thread, queue, reader>>
    PROVE  VlOk'
<1>1. /\ reader = "none" /\ thread = "none" /\ todo = <<>> /\ queue = <<>>
      /\ got = Reply(got.content, got.calls, got.end)
      /\ got.calls = calls /\ calls = Calls(req, said) /\ OnTrack(req, said, buf, tool, got.content)
  BY DEF VlOk
<1>2. ~FastText'
  BY DEF FastText
<1>3. PICK c, p, r : c = got.content /\ p = f.state /\ r = req
  OBVIOUS
<1>4. c \in Texts
  BY <1>1, <1>3, OnTrackSends
<1>5. Visible(r, y) \in Texts /\ Begins(Symbols, Visible(r, y), Visible(r, y))
  <2>1. Visible(r, y) \in Texts
    BY <1>3 DEF Feeds
  <2> QED
    BY <2>1, BeginsRefl DEF Texts
<1>6. CASE p.raises = TRUE
  <2>1. c = Visible(r, y) /\ calls = Calls(r, y)
    BY <1>3, <1>6 DEF Feeds
  <2>2. Received(<<>>, got.calls, "error")
    BY <1>3, <1>6, Zenon DEF Yield
  <2>3. /\ got' = Reply(got'.content, got'.calls, got'.end)
        /\ got'.content = Cat(c, <<>>) /\ got'.calls = got.calls /\ got'.end = "error"
    BY <1>1, <1>3, <2>2, ReceivedIs
  <2>4. got'.content = c
    BY <1>4, <2>3, CatNone DEF Texts
  <2>5. Sent(r, y, got'.content, got'.calls, got'.end)
    BY <1>1, <1>4, <1>5, <2>1, <2>3, <2>4 DEF Sent
  <2>6. got'.end # "no"
    BY <2>3
  <2> QED
    BY <1>1, <1>3, <2>3, <2>5, <2>6 DEF VlOk
<1>7. CASE p.raises = FALSE
  <2>1. PICK d : d = Cat(c, p.text)
    OBVIOUS
  <2>2. /\ p.calls = Calls(r, y)
        /\ f.hit \/ final => d = Visible(r, y)
        /\ ~f.hit /\ ~final => OnTrack(r, y, p.buf, p.tool, d)
    BY <1>3, <1>7, <2>1 DEF Feeds
  <2>3. Received(p.text, p.calls, en) /\ buf' = p.buf /\ tool' = p.tool /\ calls' = p.calls
    BY <1>3, <1>7, Zenon DEF Yield
  <2>4. /\ got' = Reply(got'.content, got'.calls, got'.end)
        /\ got'.content = Cat(c, p.text) /\ got'.calls = p.calls /\ got'.end = en
    BY <1>1, <1>3, <2>3, ReceivedIs
  <2>5. d \in Texts /\ Begins(Symbols, d, Visible(r, y))
    <3>1. CASE f.hit \/ final
      BY <1>5, <2>2, <3>1
    <3>2. CASE ~f.hit /\ ~final
      BY <2>2, <3>2, OnTrackSends
    <3> QED
      BY <3>1, <3>2
  <2>6. Sent(r, y, got'.content, got'.calls, got'.end)
    BY <1>5, <2>1, <2>2, <2>4, <2>5 DEF Sent
  <2>7. got'.end = "no" => /\ got'.calls = calls' /\ calls' = Calls(r, y)
                           /\ OnTrack(r, y, buf', tool', got'.content)
    BY <2>1, <2>2, <2>3, <2>4
  <2> QED
    BY <1>1, <1>2, <1>3, <2>4, <2>6, <2>7 DEF VlOk
<1>8. p.raises = TRUE \/ p.raises = FALSE
  BY <1>3 DEF Feeds
<1> QED
  BY <1>6, <1>7, <1>8

\* What a token is.
LEMMA TokenIs ==
    \A t \in Tokens : Piece(t)
<1> TAKE t \in Tokens
<1>1. t \in Texts /\ (t = Close \/ \A i \in DOMAIN t : t[i] \notin {"c1", "c2"})
  BY TextAssumption
<1>2. DOMAIN t = 1 .. Len(t)
  BY <1>1, LenProperties DEF Texts
<1> QED
  BY <1>1, <1>2 DEF Piece

\* A token keeps the invariant.
LEMMA TokenOk ==
    ASSUME VlOk, NEW t \in Tokens, Token(t)
    PROVE  VlOk'
<1>1. Piece(t) /\ t \in Texts
  BY TokenIs DEF Piece
<1>2. PICK y : y = Cat(said, t)
  OBVIOUS
<1>3. /\ said \in Texts /\ reader = "none" /\ thread = "none" /\ todo = <<>> /\ queue = <<>>
      /\ got = Reply(got.content, got.calls, got.end)
  BY DEF VlOk
<1>4. got.end = "no" /\ UNCHANGED <<req, todo, thread, queue, reader>>
  BY DEF Token, Generating, bridge
<1>5. said' = y
  BY <1>2, Zenon DEF Token, Cat
<1>6. y \in Texts
  <2>1. said \in Seq(Symbols) /\ t \in Seq(Symbols)
    BY <1>1, <1>3 DEF Texts
  <2> QED
    BY <1>2, <2>1, CatIs DEF Texts
<1>7. /\ got.calls = calls /\ calls = Calls(req, said)
      /\ OnTrack(req, said, buf, tool, got.content)
      /\ FastText => Empty(buf) /\ Empty(tool)
  BY <1>4 DEF VlOk
<1>8. PICK en : en = IF left = 1 THEN "length" ELSE "no"
  OBVIOUS
<1>9. CASE FastText
  <2>1. Received(t, <<>>, en) /\ UNCHANGED parser
    BY <1>8, <1>9, Zenon DEF Token
  <2>2. UNCHANGED <<buf, tool, calls>>
    BY <2>1 DEF parser
  <2>3. /\ got' = Reply(got'.content, got'.calls, got'.end)
        /\ got'.content = Cat(got.content, t) /\ got'.calls = <<>> /\ got'.end = en
    BY <1>3, <2>1, ReceivedIs
  <2>4. OnTrack(req, y, buf, tool, Cat(got.content, t)) /\ Calls(req, y) = <<>>
    BY <1>1, <1>2, <1>7, <1>9, FastGoes
  <2>5. /\ Cat(got.content, t) \in Texts /\ Visible(req, y) \in Texts
        /\ Begins(Symbols, Cat(got.content, t), Visible(req, y))
    BY <2>4, OnTrackSends
  <2>6. en \notin {"stop", "tool_calls"}
    BY <1>8
  <2>7. Sent(req, y, got'.content, got'.calls, got'.end)
    BY <2>3, <2>4, <2>5, <2>6 DEF Sent
  <2>8. calls = <<>>
    BY <1>7, <1>9, Zenon DEF Calls, FastText
  <2>9. got'.end = "no" => /\ got'.calls = calls' /\ calls' = Calls(req, y)
                           /\ OnTrack(req, y, buf', tool', got'.content)
                           /\ Empty(buf') /\ Empty(tool')
    BY <1>7, <1>9, <2>2, <2>3, <2>4, <2>8
  <2> QED
    BY <1>3, <1>4, <1>5, <1>6, <2>3, <2>7, <2>9 DEF VlOk
<1>10. CASE ~FastText
  <2>1. PICK f, e : f = Feed(t, FALSE) /\ e = IF f.hit THEN "stop" ELSE en
    OBVIOUS
  <2>2. Yield(f, e)
    BY <1>8, <1>10, <2>1, Zenon DEF Token
  <2>3. Feeds(f, FALSE, got.content, y)
    BY <1>1, <1>2, <1>7, <2>1, FeedGoes
  <2>4. (e = "no" => ~f.hit) /\ (e \in {"stop", "tool_calls"} => f.hit)
    BY <1>8, <2>1
  <2> QED
    BY <1>4, <1>5, <1>6, <1>10, <2>2, <2>3, <2>4, YieldOk
<1> QED
  BY <1>9, <1>10

\* So does the end of the sequence, which flushes the parser.
LEMMA EndOk ==
    ASSUME VlOk, EndOfSequence
    PROVE  VlOk'
<1>1. /\ said \in Texts /\ reader = "none" /\ thread = "none" /\ todo = <<>> /\ queue = <<>>
      /\ got = Reply(got.content, got.calls, got.end)
  BY DEF VlOk
<1>2. got.end = "no" /\ UNCHANGED <<req, said, todo, thread, queue, reader>>
  BY DEF EndOfSequence, Generating, bridge
<1>3. /\ got.calls = calls /\ calls = Calls(req, said)
      /\ OnTrack(req, said, buf, tool, got.content)
      /\ FastText => Empty(buf) /\ Empty(tool)
  BY <1>2 DEF VlOk
<1>4. CASE FastText
  <2>1. Received(<<>>, <<>>, "stop") /\ UNCHANGED parser
    BY <1>4, Zenon DEF EndOfSequence
  <2>2. UNCHANGED <<buf, tool, calls>>
    BY <2>1 DEF parser
  <2>3. /\ got' = Reply(got'.content, got'.calls, got'.end)
        /\ got'.content = Cat(got.content, <<>>) /\ got'.calls = <<>> /\ got'.end = "stop"
    BY <1>1, <2>1, ReceivedIs
  <2>4. /\ got.content \in Texts /\ Visible(req, said) \in Texts
        /\ Begins(Symbols, got.content, Visible(req, said))
    BY <1>3, OnTrackSends
  <2>5. got'.content = got.content
    BY <2>3, <2>4, CatNone DEF Texts
  <2>6. got.content = Visible(req, said)
    BY <1>3, <1>4, OnTrackAll
  <2>7. Calls(req, said) = <<>>
    BY <1>4, Zenon DEF Calls, FastText
  <2>8. Sent(req, said, got'.content, got'.calls, got'.end)
    BY <2>3, <2>4, <2>5, <2>6, <2>7 DEF Sent
  <2>9. got'.end # "no"
    BY <2>3
  <2> QED
    BY <1>1, <1>2, <2>3, <2>8, <2>9 DEF VlOk
<1>5. CASE ~FastText
  <2>1. PICK f, e, z : f = Feed(z, TRUE) /\ e = (IF f.state.calls # <<>> THEN "tool_calls" ELSE "stop") /\ z = <<>>
    OBVIOUS
  <2>2. f = Flushed
    BY <2>1 DEF Flushed
  <2>3. Yield(f, e)
    BY <1>5, <2>1, <2>2, Zenon DEF EndOfSequence
  <2>4. Piece(z)
    <3>1. z \in Texts /\ Len(z) = 0
      BY <2>1, EmptySeq DEF Texts
    <3> QED
      BY <3>1 DEF Piece
  <2>5. said = Cat(said, z)
    BY <1>1, <2>1, CatNone DEF Texts
  <2>6. Feeds(f, TRUE, got.content, said)
    BY <1>3, <2>1, <2>4, <2>5, FeedGoes
  <2>7. e # "no"
    BY <2>1
  <2> QED
    BY <1>1, <1>2, <1>5, <2>3, <2>6, <2>7, YieldOk
<1> QED
  BY <1>4, <1>5

\* So does a request for no tokens.
LEMMA NoTokensOk ==
    ASSUME VlOk, NoTokens
    PROVE  VlOk'
<1>1. /\ said \in Texts /\ reader = "none" /\ thread = "none" /\ todo = <<>> /\ queue = <<>>
      /\ got = Reply(got.content, got.calls, got.end)
      /\ Sent(req, said, got.content, got.calls, got.end)
  BY DEF VlOk
<1>2. Received(<<>>, <<>>, "length") /\ UNCHANGED <<req, said, todo, thread, queue, reader>>
  BY DEF NoTokens, bridge
<1>3. /\ got' = Reply(got'.content, got'.calls, got'.end)
      /\ got'.content = Cat(got.content, <<>>) /\ got'.calls = <<>> /\ got'.end = "length"
  BY <1>1, <1>2, ReceivedIs
<1>4. got.content \in Texts
  BY <1>1 DEF Sent
<1>5. got'.content = got.content
  BY <1>3, <1>4, CatNone DEF Texts
<1>6. Sent(req, said, got'.content, got'.calls, got'.end)
  BY <1>1, <1>3, <1>5 DEF Sent
<1>7. got'.end # "no"
  BY <1>3
<1> QED
  BY <1>1, <1>2, <1>3, <1>6, <1>7 DEF VlOk

\* It holds at the start.
LEMMA VlInit ==
    ASSUME Init, model = "vl"
    PROVE  VlOk
<1>1. PICK z : z = <<>> /\ Empty(z)
  BY DEF Empty
<1>2. /\ said = z /\ buf = z /\ tool = z /\ calls = z
      /\ reader = "none" /\ thread = "none" /\ todo = <<>> /\ queue = <<>>
      /\ got = Reply(z, z, "no")
  BY <1>1 DEF Init, Reply
<1>3. got.content = z /\ got.calls = z /\ got.end = "no"
  BY <1>2 DEF Reply
<1>4. z \in Texts /\ Len(z) = 0 /\ z = Cat(z, z)
  BY <1>1, EmptySeq, CatNone DEF Texts
<1>5. Opens(req, z) = {} /\ Stops(req, z) = {}
  BY <1>4, OpensIs, StopsIs
<1>6. Base(req, z, 0, z)
  <2>1. Picked(z, (1 .. 0) \ Hidden(req, z)) = z
    BY <1>1, PickedEmpty
  <2>2. Settled(req, z, 0)
    BY <1>5 DEF Settled
  <2> QED
    BY <1>4, <1>5, <2>1, <2>2 DEF Base
<1>7. FreeAt(req, z, z, z, z) /\ Tight(req, z, z)
  <2>1. Tight(req, z, z)
    BY <1>1 DEF Tight
  <2> QED
    BY <1>4, <1>5, <1>6, <2>1 DEF FreeAt, Quiet
<1>8. OnTrack(req, z, z, z, z)
  BY <1>1, <1>7 DEF OnTrack
<1>9. Calls(req, z) = z
  <2>1. CallSet(req, z) = {}
    BY <1>4, <1>5, CallSetIs
  <2>2. PICK E : Bodied(z) \in Seq(E)
    BY <1>4, BodiedIs
  <2>3. Picked(Bodied(z), {}) = <<>>
    BY <2>2, PickedNone
  <2> QED
    BY <1>1, <1>4, <2>1, <2>3, CallsIs
<1>10. Sent(req, z, z, z, "no")
  <2>1. Visible(req, z) \in Texts /\ Begins(Symbols, z, Visible(req, z))
    BY <1>8, OnTrackSends
  <2> QED
    BY <1>4, <1>9, <2>1 DEF Sent
<1> QED
  BY <1>1, <1>2, <1>3, <1>4, <1>8, <1>9, <1>10 DEF VlOk

\* The invariant says that nothing leaks, and that a finished reply is whole.
LEMMA VlWhole ==
    ASSUME VlOk, model = "vl"
    PROVE  NothingLeaks /\ FinishedIsWhole
<1>1. /\ said \in Texts
      /\ got = Reply(got.content, got.calls, got.end)
      /\ Sent(req, said, got.content, got.calls, got.end)
  BY DEF VlOk
<1>2. PICK e, c, w, cs, en : /\ e = Expected(said) /\ c = got.content /\ w = Visible(req, said)
                             /\ cs = Calls(req, said) /\ en = got.end
  OBVIOUS
<1>3. e.reasoning = <<>> /\ e.content = w /\ e.calls = cs
  <2>1. e = [reasoning |-> <<>>, content |-> w, calls |-> cs]
    BY <1>2, Zenon DEF Expected
  <2> QED
    BY <2>1
<1>4. got.reasoning = <<>>
  BY <1>1 DEF Reply
<1>5. /\ c \in Texts /\ w \in Texts /\ Begins(Symbols, c, w)
      /\ got.calls = cs \/ got.calls = <<>>
      /\ en \in {"stop", "tool_calls"} => c = w /\ got.calls = cs
  BY <1>1, <1>2 DEF Sent
<1>6. IsPrefix(got.calls, cs)
  BY <1>1, <1>2, <1>5, CallsBegin
<1>7. IsPrefix(Squeezed(c), Squeezed(w))
  <2>1. Squeezed(c) \in Seq(Symbols) /\ Squeezed(w) \in Seq(Symbols)
    BY <1>5, SqType DEF Texts
  <2>2. Begins(Symbols, Squeezed(c), Squeezed(w))
    BY <1>5, SqBegins
  <2> QED
    BY <2>1, <2>2, BeginsIsPrefix
<1>8. IsPrefix(Squeezed(got.reasoning), Squeezed(e.reasoning)) /\ Squeezed(got.reasoning) = Squeezed(e.reasoning)
  <2>1. Squeezed(got.reasoning) = <<>> /\ Squeezed(e.reasoning) = <<>>
    BY <1>3, <1>4, SqNone
  <2>2. <<>> \in Seq(Symbols)
    BY EmptySeq
  <2>3. IsPrefix(<<>>, <<>>)
    BY <2>2, BeginsRefl, BeginsIsPrefix
  <2> QED
    BY <2>1, <2>3
<1>9. NothingLeaks
  BY <1>2, <1>3, <1>6, <1>7, <1>8, Zenon DEF NothingLeaks
<1>10. FinishedIsWhole
  <2>1. ~Alike
    BY DEF Alike
  <2> QED
    BY <1>2, <1>3, <1>5, <1>8, <2>1, Zenon DEF FinishedIsWhole
<1> QED
  BY <1>9, <1>10

-----------------------------------------------------------------------------
(* Both backends *)

\* The inductive invariant.
StreamOk ==
    /\ model \in {"vl", "agent"}
    /\ model = "agent" => AgentOk
    /\ model = "vl" => VlOk

\* It holds at the start.
LEMMA StreamInit ==
    Init => StreamOk
<1> SUFFICES ASSUME Init PROVE StreamOk
  OBVIOUS
<1>1. model \in {"vl", "agent"}
  BY StreamAssumption DEF Init
<1> QED
  BY <1>1, AgentInit, VlInit DEF StreamOk

\* Every step keeps it.
LEMMA StreamNext ==
    StreamOk /\ [Next]_vars => StreamOk'
<1> SUFFICES ASSUME StreamOk, [Next]_vars PROVE StreamOk'
  OBVIOUS
<1>1. /\ model \in {"vl", "agent"}
      /\ model = "agent" => AgentOk
      /\ model = "vl" => VlOk
  BY DEF StreamOk
<1>2. model' = model
  <2>1. CASE Next
    BY <2>1 DEF Next, Worker, Loop, Token, EndOfSequence, NoTokens, Line, LastLine, Put, Drop, Break,
                Get, Disconnect, Drain, Join
  <2>2. CASE UNCHANGED vars
    BY <2>2 DEF vars
  <2> QED
    BY <2>1, <2>2
<1>3. CASE model = "agent"
  <2>1. PICK h : AgentWith(h)
    BY <1>1, <1>3 DEF AgentOk
  <2>2. ASSUME NEW t \in Tokens, Token(t) PROVE AgentOk'
    BY <1>3, <2>2 DEF Token, Generating
  <2>3. ASSUME EndOfSequence \/ NoTokens PROVE AgentOk'
    BY <1>3, <2>3 DEF EndOfSequence, NoTokens, Generating
  <2>4. ASSUME NEW text \in Words \cup {<<>>}, NEW finish \in BOOLEAN, Line(text, finish) PROVE AgentOk'
    <3>1. text \in Texts
      BY TextAssumption, EmptySeq DEF Texts
    <3> QED
      BY <2>1, <2>4, <3>1, LineOk DEF AgentOk
  <2>5. ASSUME LastLine PROVE AgentOk'
    BY <2>1, <2>5, LastLineOk DEF AgentOk
  <2>6. ASSUME Put PROVE AgentOk'
    BY <2>1, <2>6, PutOk DEF AgentOk
  <2>7. ASSUME Drop \/ Break PROVE AgentOk'
    BY <2>1, <2>7, DropOk DEF AgentOk
  <2>8. ASSUME Get PROVE AgentOk'
    BY <2>1, <2>8, GetOk DEF AgentOk
  <2>9. ASSUME Disconnect \/ Drain \/ Join PROVE AgentOk'
    BY <2>1, <2>9, ClosedOk DEF AgentOk
  <2>10. ASSUME UNCHANGED vars PROVE AgentOk'
    BY <2>1, <2>10 DEF vars, parser, bridge, AgentOk, AgentWith
  <2>11. AgentOk'
    BY <2>2, <2>3, <2>4, <2>5, <2>6, <2>7, <2>8, <2>9, <2>10 DEF Next, Worker, Loop
  <2> QED
    BY <1>2, <1>3, <2>11 DEF StreamOk
<1>4. CASE model = "vl"
  <2>1. VlOk
    BY <1>1, <1>4
  <2>2. reader = "none" /\ thread = "none" /\ todo = <<>> /\ queue = <<>>
    BY <2>1 DEF VlOk
  <2>3. ASSUME NEW t \in Tokens, Token(t) PROVE VlOk'
    BY <2>1, <2>3, TokenOk
  <2>4. ASSUME EndOfSequence PROVE VlOk'
    BY <2>1, <2>4, EndOk
  <2>5. ASSUME NoTokens PROVE VlOk'
    BY <2>1, <2>5, NoTokensOk
  <2>6. ASSUME Worker PROVE VlOk'
    BY <1>4, <2>2, <2>6 DEF Worker, Line, LastLine, Asks, Put, Drop, Break
  <2>7. ASSUME Loop PROVE VlOk'
    BY <1>4, <2>2, <2>7 DEF Loop, Get, Disconnect, Drain, Join
  <2>8. ASSUME UNCHANGED vars PROVE VlOk'
    <3>1. UNCHANGED <<said, reader, thread, todo, queue, got, req, calls, buf, tool>>
      BY <2>8 DEF vars, parser, bridge
    <3>2. FastText' <=> FastText
      BY <3>1 DEF FastText
    <3> QED
      BY <2>1, <3>1, <3>2 DEF VlOk
  <2>9. VlOk'
    BY <2>3, <2>4, <2>5, <2>6, <2>7, <2>8 DEF Next
  <2> QED
    BY <1>2, <1>4, <2>9 DEF StreamOk
<1> QED
  BY <1>1, <1>3, <1>4

\* It says what is to be shown.
LEMMA StreamWhole ==
    StreamOk => NothingLeaks /\ FinishedIsWhole
BY AgentWhole, VlWhole DEF StreamOk

\* However the text is cut into tokens or lines, what the client has is at every
\* moment the beginning of what the whole text means: feed of the two parsers
\* never sends a piece of a tag, of a stop string or of a call as content.  (Of the
\* reasoning nothing is said when it holds a <thinking> tag before its mark.)
THEOREM NothingLeaksHolds == Spec => []NothingLeaks
<1>1. Init => StreamOk
  BY StreamInit
<1>2. StreamOk /\ [Next]_vars => StreamOk'
  BY StreamNext
<1>3. StreamOk => NothingLeaks
  BY StreamWhole
<1> QED
  BY <1>1, <1>2, <1>3, PTL DEF Spec

\* A reply that ended by itself has arrived as a whole: nothing that feed held
\* back is lost when the text ends; and it is what the reply that is not streamed
\* would be, of every text that both splits read by the same rules (Alike).
THEOREM FinishedIsWholeHolds == Spec => []FinishedIsWhole
<1>1. Init => StreamOk
  BY StreamInit
<1>2. StreamOk /\ [Next]_vars => StreamOk'
  BY StreamNext
<1>3. StreamOk => FinishedIsWhole
  BY StreamWhole
<1> QED
  BY <1>1, <1>2, <1>3, PTL DEF Spec
=============================================================================
