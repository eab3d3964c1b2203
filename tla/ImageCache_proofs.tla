-------------------------- MODULE ImageCache_proofs ---------------------------
(***************************************************************************)
(* Proofs about the image cache, for any number of processes, images,      *)
(* workers, calls and kills.                                               *)
(***************************************************************************)
EXTENDS ImageCache, SequenceTheorems, FiniteSetTheorems, WellFoundedInduction, TLAPS

(***************************************************************************)
(* Sequences without duplicates.                                           *)
(***************************************************************************)
\* A non-empty set of natural numbers has a least element, which is Min.
LEMMA MinIsLeast ==
  ASSUME NEW S \in SUBSET Nat, S # {}
  PROVE  Min(S) \in S
<1>1. PICK x \in S : \A y \in S : ~(<<y, x>> \in OpToRel(<, Nat))
  BY NatLessThanWellFounded, WFMin
<1>2. \A y \in S : x <= y
  <2> SUFFICES ASSUME NEW y \in S, y < x PROVE FALSE
    OBVIOUS
  <2>1. <<y, x>> \in OpToRel(<, Nat)
    BY DEF OpToRel
  <2> QED BY <1>1, <2>1
<1> QED BY <1>2 DEF Min

\* Taking one position out of a sequence keeps the order of all others.
LEMMA RemoveAtProperties ==
  ASSUME NEW S, NEW c \in Seq(S), NEW k \in 1 .. Len(c)
  PROVE  /\ RemoveAt(c, k) \in Seq(S)
         /\ Len(RemoveAt(c, k)) = Len(c) - 1
         /\ \A i \in 1 .. Len(c) - 1 :
              RemoveAt(c, k)[i] = IF i < k THEN c[i] ELSE c[i + 1]
<1> DEFINE a == SubSeq(c, 1, k - 1)
           b == SubSeq(c, k + 1, Len(c))
<1>1. /\ a \in Seq(S) /\ Len(a) = k - 1
      /\ \A i \in 1 .. k - 1 : a[i] = c[i]
  BY SubSeqProperties
<1>2. /\ b \in Seq(S) /\ Len(b) = Len(c) - k
      /\ \A i \in 1 .. Len(c) - k : b[i] = c[k + i]
  BY SubSeqProperties
<1>3. RemoveAt(c, k) = a \o b
  BY DEF RemoveAt
<1> HIDE DEF a, b
<1>4. /\ a \o b \in Seq(S)
      /\ Len(a \o b) = Len(a) + Len(b)
      /\ \A i \in 1 .. Len(a) + Len(b) :
           (a \o b)[i] = IF i <= Len(a) THEN a[i] ELSE b[i - Len(a)]
  BY <1>1, <1>2, ConcatProperties
<1>5. Len(a) + Len(b) = Len(c) - 1
  BY <1>1, <1>2
<1>6. ASSUME NEW i \in 1 .. Len(c) - 1
      PROVE  RemoveAt(c, k)[i] = IF i < k THEN c[i] ELSE c[i + 1]
  <2>1. CASE i < k
    BY <2>1, <1>1, <1>3, <1>4, <1>5
  <2>2. CASE i >= k
    <3>1. i - (k - 1) \in 1 .. Len(c) - k
      BY <2>2
    <3>2. b[i - (k - 1)] = c[i + 1]
      BY <1>2, <3>1
    <3> QED BY <2>2, <3>2, <1>1, <1>3, <1>4, <1>5
  <2> QED BY <2>1, <2>2
<1> QED BY <1>3, <1>4, <1>5, <1>6

\* Without duplicates, the removed element is gone, and nothing else is; all others
\* keep their order.
LEMMA RemoveFirstProperties ==
  ASSUME NEW S, NEW c \in Seq(S), NEW e \in S, NoDuplicates(c)
  PROVE  LET r == RemoveFirst(c, e) IN
         /\ r \in Seq(S)
         /\ ToSet(r) \subseteq ToSet(c)
         /\ NoDuplicates(r)
         /\ e \notin ToSet(r)
         /\ ToSet(c) \ {e} \subseteq ToSet(r)
         /\ \A imgs : EndsIn(c, imgs) => EndsIn(r, imgs)
         /\ Len(r) <= Len(c)
<1> DEFINE I == {i \in 1 .. Len(c) : c[i] = e}
           k == SelectInSeq(c, LAMBDA v : v = e)
<1>1. DOMAIN c = 1 .. Len(c) /\ Len(c) \in Nat
  BY LenProperties
<1>2. CASE I = {}
  <2>1. RemoveFirst(c, e) = c
    BY <1>2 DEF RemoveFirst
  <2>2. e \notin ToSet(c)
    BY <1>1, <1>2 DEF ToSet
  <2> QED BY <2>1, <2>2
<1>3. CASE I # {}
  <2>1. I \in SUBSET Nat
    OBVIOUS
  <2>2. k = Min(I)
    BY <1>3 DEF SelectInSeq
  <2>3. k \in 1 .. Len(c) /\ c[k] = e
    BY <2>1, <2>2, <1>3, MinIsLeast
  <2>4. RemoveFirst(c, e) = RemoveAt(c, k)
    BY <2>3 DEF RemoveFirst
  <2> HIDE DEF k
  <2> DEFINE r == RemoveAt(c, k)
  <2>5. /\ r \in Seq(S)
        /\ Len(r) = Len(c) - 1
        /\ \A i \in 1 .. Len(c) - 1 : r[i] = IF i < k THEN c[i] ELSE c[i + 1]
    BY <2>3, RemoveAtProperties
  <2>6. DOMAIN r = 1 .. Len(c) - 1
    BY <2>5, LenProperties
  <2> HIDE DEF r
  <2>7. \A i \in DOMAIN r : \E j \in DOMAIN c : j # k /\ r[i] = c[j]
    <3> SUFFICES ASSUME NEW i \in DOMAIN r
                 PROVE  \E j \in DOMAIN c : j # k /\ r[i] = c[j]
      OBVIOUS
    <3>1. CASE i < k
      BY <3>1, <2>3, <2>5, <2>6, <1>1
    <3>2. CASE i >= k
      <4>1. i + 1 \in DOMAIN c /\ i + 1 # k /\ r[i] = c[i + 1]
        BY <3>2, <2>3, <2>5, <2>6, <1>1
      <4> QED BY <4>1
    <3> QED BY <3>1, <3>2, <2>3, <2>6
  <2>8. ToSet(r) \subseteq ToSet(c)
    BY <2>7 DEF ToSet
  <2>9. e \notin ToSet(r)
    BY <2>7, <2>3, <1>1 DEF ToSet, NoDuplicates
  <2>10. NoDuplicates(r)
    <3> SUFFICES ASSUME NEW i \in DOMAIN r, NEW j \in DOMAIN r, r[i] = r[j], i < j
                 PROVE  FALSE
      BY <2>6, <1>1 DEF NoDuplicates
    <3> DEFINE at(n) == IF n < k THEN n ELSE n + 1
    <3>1. at(i) \in DOMAIN c /\ at(j) \in DOMAIN c /\ at(i) # at(j)
      BY <2>3, <2>6, <1>1
    <3>2. c[at(i)] = r[i] /\ c[at(j)] = r[j]
      BY <2>5, <2>6
    <3> QED BY <3>1, <3>2 DEF NoDuplicates
  <2>11. ASSUME NEW j \in DOMAIN c, c[j] # e PROVE c[j] \in ToSet(r)
    <3> DEFINE i == IF j < k THEN j ELSE j - 1
    <3>1. i \in DOMAIN r /\ r[i] = c[j]
      BY <2>11, <2>3, <2>5, <2>6, <1>1
    <3> QED BY <3>1 DEF ToSet
  <2>12. ASSUME NEW imgs, EndsIn(c, imgs), NEW i \in DOMAIN r, NEW j \in DOMAIN r, i < j, r[i] \in imgs
         PROVE  r[j] \in imgs
    <3> DEFINE at(n) == IF n < k THEN n ELSE n + 1
    <3>1. at(i) \in DOMAIN c /\ at(j) \in DOMAIN c /\ at(i) < at(j)
      BY <2>3, <2>6, <2>12, <1>1
    <3>2. c[at(i)] = r[i] /\ c[at(j)] = r[j]
      BY <2>5, <2>6
    <3> QED BY <3>1, <3>2, <2>12 DEF EndsIn
  <2>13. ToSet(c) \ {e} \subseteq ToSet(r) /\ \A imgs : EndsIn(c, imgs) => EndsIn(r, imgs)
    BY <2>11, <2>12 DEF ToSet, EndsIn
  <2>14. Len(r) <= Len(c)
    BY <2>5, <1>1
  <2> QED BY <2>4, <2>5, <2>8, <2>9, <2>10, <2>13, <2>14 DEF r
<1> QED BY <1>2, <1>3

\* AddToCache keeps the cache within its bound and without duplicates, and puts
\* nothing into it but the image.
LEMMA AddedProperties ==
  ASSUME NEW c \in Seq(Images), NEW img \in Images, NoDuplicates(c)
  PROVE  /\ Added(c, img) \in Seq(Images)
         /\ Len(Added(c, img)) <= MaxEntries
         /\ NoDuplicates(Added(c, img))
         /\ ToSet(Added(c, img)) \subseteq ToSet(c) \cup {img}
<1> DEFINE r == RemoveFirst(c, img)
           d == Append(r, img)
           f == IF Len(d) > MaxEntries THEN Len(d) - MaxEntries + 1 ELSE 1
           a == SubSeq(d, f, Len(d))
<1>1. /\ r \in Seq(Images) /\ ToSet(r) \subseteq ToSet(c)
      /\ NoDuplicates(r) /\ img \notin ToSet(r)
  BY RemoveFirstProperties
<1> HIDE DEF r
<1>2. /\ d \in Seq(Images) /\ Len(d) = Len(r) + 1 /\ Len(r) \in Nat
      /\ DOMAIN d = 1 .. Len(r) + 1 /\ DOMAIN r = 1 .. Len(r)
      /\ d[Len(r) + 1] = img
      /\ \A i \in 1 .. Len(r) : d[i] = r[i]
  BY <1>1, LenProperties
<1> HIDE DEF d
<1>3. ToSet(d) \subseteq ToSet(c) \cup {img}
  BY <1>1, <1>2 DEF ToSet
<1>4. NoDuplicates(d)
  <2> SUFFICES ASSUME NEW i \in 1 .. Len(r) + 1, NEW j \in 1 .. Len(r) + 1, d[i] = d[j], i < j
               PROVE  FALSE
    BY <1>2 DEF NoDuplicates
  <2>1. CASE j = Len(r) + 1
    BY <2>1, <1>1, <1>2 DEF ToSet
  <2>2. CASE j \in 1 .. Len(r)
    BY <2>2, <1>1, <1>2 DEF NoDuplicates
  <2> QED BY <2>1, <2>2, <1>2
<1>5. MaxEntries \in Nat \ {0}
  BY BoundsAssumption
<1>6. f \in 1 .. Len(d) /\ Len(d) \in Nat /\ Len(d) - f + 1 <= MaxEntries
  BY <1>2, <1>5
<1> HIDE DEF f
<1>7. /\ a \in Seq(Images)
      /\ Len(a) = Len(d) - f + 1
      /\ \A i \in 1 .. Len(d) - f + 1 : a[i] = d[f + i - 1]
  <2>1. \A i \in f .. Len(d) : d[i] \in Images
    BY <1>2, <1>6, ElementOfSeq
  <2> QED BY <2>1, <1>6, SubSeqProperties
<1>8. DOMAIN a = 1 .. Len(d) - f + 1
  BY <1>7, LenProperties
<1> HIDE DEF a
<1>9. \A i \in DOMAIN a : f + i - 1 \in DOMAIN d /\ a[i] = d[f + i - 1]
  BY <1>2, <1>6, <1>7, <1>8
<1>10. ToSet(a) \subseteq ToSet(d)
  BY <1>9 DEF ToSet
<1>11. NoDuplicates(a)
  <2> SUFFICES ASSUME NEW i \in DOMAIN a, NEW j \in DOMAIN a, a[i] = a[j] PROVE i = j
    BY DEF NoDuplicates
  <2>1. f + i - 1 = f + j - 1
    BY <1>4, <1>9 DEF NoDuplicates
  <2> QED BY <2>1, <1>6, <1>8
<1>12. Added(c, img) = a
  BY DEF Added, a, f, d, r
<1> QED BY <1>3, <1>6, <1>7, <1>10, <1>11, <1>12

\* A sequence without duplicates whose elements are all in a finite set is no longer
\* than that set is large.
LEMMA NoDuplicatesFits ==
  ASSUME NEW S, NEW c \in Seq(S), NoDuplicates(c), NEW W, IsFiniteSet(W), ToSet(c) \subseteq W
  PROVE  Len(c) <= Cardinality(W)
<1>1. DOMAIN c = 1 .. Len(c) /\ Len(c) \in Nat
  BY LenProperties
<1> DEFINE f == [i \in 1 .. Len(c) |-> c[i]]
<1>2. f \in Injection(1 .. Len(c), W)
  <2>1. \A i \in 1 .. Len(c) : c[i] \in W
    BY <1>1 DEF ToSet
  <2>2. \A i, j \in 1 .. Len(c) : c[i] = c[j] => i = j
    BY <1>1 DEF NoDuplicates
  <2> QED BY <2>1, <2>2 DEF Injection, IsInjective
<1>3. Cardinality(1 .. Len(c)) <= Cardinality(W)
  BY <1>2, FS_Injection
<1>4. Cardinality(1 .. Len(c)) = Len(c)
  BY <1>1, FS_Interval
<1> QED BY <1>3, <1>4

\* AddToCache puts the image last.  If the images of the call are the last ones
\* before, they are so afterwards, and none of them is evicted if they all fit.
LEMMA AddedKeepsLast ==
  ASSUME NEW c \in Seq(Images), NEW img \in Images, NoDuplicates(c), Len(c) <= MaxEntries,
         NEW W, IsFiniteSet(W), img \in W, EndsIn(c, W)
  PROVE  /\ img \in ToSet(Added(c, img))
         /\ EndsIn(Added(c, img), W)
         /\ Cardinality(W) <= MaxEntries => ToSet(c) \cap W \subseteq ToSet(Added(c, img))
<1> DEFINE r == RemoveFirst(c, img)
           d == Append(r, img)
           f == IF Len(d) > MaxEntries THEN Len(d) - MaxEntries + 1 ELSE 1
           a == SubSeq(d, f, Len(d))
<1>1. /\ r \in Seq(Images) /\ NoDuplicates(r) /\ img \notin ToSet(r)
      /\ ToSet(c) \ {img} \subseteq ToSet(r) /\ EndsIn(r, W) /\ Len(r) <= Len(c)
  BY RemoveFirstProperties
<1> HIDE DEF r
<1>2. /\ d \in Seq(Images) /\ Len(d) = Len(r) + 1 /\ Len(r) \in Nat
      /\ DOMAIN d = 1 .. Len(r) + 1 /\ DOMAIN r = 1 .. Len(r)
      /\ d[Len(r) + 1] = img
      /\ \A i \in 1 .. Len(r) : d[i] = r[i]
  BY <1>1, LenProperties
<1> HIDE DEF d
<1>3. ToSet(c) \subseteq ToSet(d)
  <2>1. ToSet(r) \subseteq ToSet(d) /\ img \in ToSet(d)
    BY <1>2 DEF ToSet
  <2> QED BY <1>1, <2>1
<1>4. EndsIn(d, W)
  <2> SUFFICES ASSUME NEW i \in DOMAIN d, NEW j \in DOMAIN d, i < j, d[i] \in W
               PROVE  d[j] \in W
    BY DEF EndsIn
  <2>1. CASE j = Len(r) + 1
    BY <2>1, <1>2
  <2>2. CASE j \in 1 .. Len(r)
    <3>1. i \in 1 .. Len(r)
      BY <2>2, <1>2
    <3> QED BY <3>1, <2>2, <1>1, <1>2 DEF EndsIn
  <2> QED BY <2>1, <2>2, <1>2
<1>5. NoDuplicates(d)
  <2> SUFFICES ASSUME NEW i \in 1 .. Len(r) + 1, NEW j \in 1 .. Len(r) + 1, d[i] = d[j], i < j
               PROVE  FALSE
    BY <1>2 DEF NoDuplicates
  <2>1. CASE j = Len(r) + 1
    BY <2>1, <1>1, <1>2 DEF ToSet
  <2>2. CASE j \in 1 .. Len(r)
    BY <2>2, <1>1, <1>2 DEF NoDuplicates
  <2> QED BY <2>1, <2>2, <1>2
<1>6. MaxEntries \in Nat \ {0} /\ Len(c) \in Nat
  BY BoundsAssumption, LenProperties
<1>7. Len(d) \in Nat /\ f \in 1 .. Len(d) /\ f <= 2 /\ (f = 2 => Len(d) > MaxEntries)
  BY <1>1, <1>2, <1>6
<1> HIDE DEF f
<1>8. /\ Len(a) = Len(d) - f + 1 /\ DOMAIN a = 1 .. Len(a)
      /\ \A i \in 1 .. Len(d) - f + 1 : a[i] = d[f + i - 1]
  <2>1. \A i \in f .. Len(d) : d[i] \in Images
    BY <1>2, <1>7, ElementOfSeq
  <2>2. a \in Seq(Images)
    BY <2>1, <1>7, SubSeqProperties
  <2> QED BY <2>1, <2>2, <1>7, SubSeqProperties, LenProperties
<1> HIDE DEF a
<1>9. \A i \in DOMAIN a : f + i - 1 \in DOMAIN d /\ a[i] = d[f + i - 1]
  BY <1>2, <1>7, <1>8
<1>10. \A j \in f .. Len(d) : d[j] \in ToSet(a)
  <2> SUFFICES ASSUME NEW j \in f .. Len(d) PROVE d[j] \in ToSet(a)
    OBVIOUS
  <2>1. j - f + 1 \in DOMAIN a /\ a[j - f + 1] = d[j]
    BY <1>7, <1>8
  <2> QED BY <2>1 DEF ToSet
<1>11. img \in ToSet(a)
  BY <1>2, <1>7, <1>10
<1>12. EndsIn(a, W)
  <2> SUFFICES ASSUME NEW i \in DOMAIN a, NEW j \in DOMAIN a, i < j, a[i] \in W
               PROVE  a[j] \in W
    BY DEF EndsIn
  <2>1. f + i - 1 < f + j - 1
    BY <1>7, <1>8
  <2> QED BY <2>1, <1>4, <1>9 DEF EndsIn
<1>13. ASSUME Cardinality(W) <= MaxEntries, NEW x \in ToSet(c) \cap W PROVE x \in ToSet(a)
  <2>1. PICK j \in DOMAIN d : d[j] = x
    BY <1>3 DEF ToSet
  <2>2. CASE j >= f
    BY <2>1, <2>2, <1>2, <1>7, <1>10
  <2>3. CASE j < f
    <3>1. j = 1 /\ Len(d) > MaxEntries
      BY <2>3, <1>2, <1>7
    <3>2. \A i \in DOMAIN d : d[i] \in W
      BY <3>1, <2>1, <1>2, <1>4 DEF EndsIn
    <3>3. ToSet(d) \subseteq W
      BY <3>2 DEF ToSet
    <3>4. Len(d) <= Cardinality(W) /\ Cardinality(W) \in Nat
      BY <3>3, <1>2, <1>5, NoDuplicatesFits, FS_CardinalityType
    <3> QED BY <3>1, <3>4, <1>6, <1>7, <1>13
  <2> QED BY <2>2, <2>3, <1>2, <1>7
<1>14. Added(c, img) = a
  BY DEF Added, a, f, d, r
<1> QED BY <1>11, <1>12, <1>13, <1>14

(***************************************************************************)
(* The invariant.                                                          *)
(***************************************************************************)
LEMMA InitInv == Init => IndInv
<1> SUFFICES ASSUME Init PROVE IndInv
  OBVIOUS
<1> USE DEF Init
<1>1. TypeOK
  BY BoundsAssumption DEF TypeOK, MutexHeld
<1>2. CachedIsVerified
  BY DEF CachedIsVerified, ToSet
<1>3. CacheBounded
  BY BoundsAssumption DEF CacheBounded, NoDuplicates
<1>4. Accepting
  BY DEF Accepting
<1>5. FreshLast
  BY DEF FreshLast, EndsIn, Uncached
<1>6. HolderWorks
  BY DEF HolderWorks
<1> QED BY <1>1, <1>2, <1>3, <1>4, <1>5, <1>6 DEF IndInv

\* What GoTo does to the goroutines.
LEMMA GoToProperties ==
  ASSUME TypeOK, NEW p \in Processes, NEW i \in DOMAIN list[p], NEW label \in Labels,
         GoTo(p, i, label)
  PROVE  /\ worker' \in [Processes -> Seq(Labels)]
         /\ \A q \in Processes : Len(worker'[q]) = Len(list[q])
         /\ \A q \in Processes : \A j \in DOMAIN list[q] :
              worker'[q][j] = IF q = p /\ j = i THEN label ELSE worker[q][j]
<1>1. /\ worker \in [Processes -> Seq(Labels)]
      /\ \A q \in Processes : Len(worker[q]) = Len(list[q])
      /\ \A q \in Processes : DOMAIN list[q] = 1 .. Len(worker[q])
  BY LenProperties DEF TypeOK
<1> DEFINE w == [worker[p] EXCEPT ![i] = label]
<1>2. /\ w \in Seq(Labels)
      /\ Len(w) = Len(worker[p])
      /\ \A j \in 1 .. Len(worker[p]) : w[j] = IF j = i THEN label ELSE worker[p][j]
  BY <1>1, ExceptSeq
<1>3. worker' = [worker EXCEPT ![p] = w]
  BY DEF GoTo
<1> HIDE DEF w
<1>4. \A q \in Processes : worker'[q] = IF q = p THEN w ELSE worker[q]
  BY <1>1, <1>3
<1> QED BY <1>1, <1>2, <1>3, <1>4

\* A step of one goroutine that ends at a label other than "save" and "write"
\* and leaves the mutex and the list alone keeps the mutex with its holder.
LEMMA MovedKeepsMutex ==
  ASSUME TypeOK, NEW p \in Processes, NEW i \in DOMAIN list[p],
         NEW label \in Labels \ {"save", "write"}, GoTo(p, i, label), UNCHANGED <<mu, list>>
  PROVE  /\ worker' \in [Processes -> Seq(Labels)]
         /\ \A q \in Processes : Len(worker'[q]) = Len(list'[q])
         /\ MutexHeld'
<1>1. /\ worker' \in [Processes -> Seq(Labels)]
      /\ \A q \in Processes : Len(worker'[q]) = Len(list[q])
      /\ \A q \in Processes : \A j \in DOMAIN list[q] :
           worker'[q][j] = IF q = p /\ j = i THEN label ELSE worker[q][j]
  BY GoToProperties
<1>2. MutexHeld
  BY DEF TypeOK
<1>3. ASSUME NEW q \in Processes, NEW j \in DOMAIN list[q], worker'[q][j] \in {"save", "write"}
      PROVE  mu[q] = j
  <2>1. ~(q = p /\ j = i)
    BY <1>1, <1>3
  <2>2. worker[q][j] \in {"save", "write"}
    BY <1>1, <1>3, <2>1
  <2> QED BY <1>2, <2>2 DEF MutexHeld
<1>4. MutexHeld'
  BY <1>3 DEF MutexHeld
<1> QED BY <1>1, <1>4

\* A function from 1 .. n is a sequence of length n.
LEMMA FunctionIsSeq ==
  ASSUME NEW S, NEW n \in Nat, NEW w \in [1 .. n -> S]
  PROVE  w \in Seq(S) /\ Len(w) = n
  BY SMT

LEMMA TypeStep == TypeOK /\ CacheBounded /\ [Next]_vars => TypeOK'
<1> SUFFICES ASSUME TypeOK, CacheBounded, [Next]_vars PROVE TypeOK'
  OBVIOUS
<1> USE DEF TypeOK, MutexHeld
<1>1. ASSUME NEW p \in Processes, Load(p) PROVE TypeOK'
  BY <1>1 DEF Load
<1>2. ASSUME NEW p \in Processes, NEW l \in Lists, StartVerify(p, l) PROVE TypeOK'
  <2>1. l \in Seq(Images) /\ Len(l) \in Nat /\ DOMAIN l = 1 .. Len(l)
    BY ListsAssumption, LenProperties
  <2> DEFINE w == [i \in DOMAIN l |-> IF Contains(cache[p], l[i]) THEN "cached" ELSE "new"]
  <2>2. w \in [1 .. Len(l) -> Labels] /\ \A i \in DOMAIN l : w[i] \notin {"save", "write"}
    BY <2>1 DEF Labels
  <2> HIDE DEF w
  <2>3. w \in Seq(Labels) /\ Len(w) = Len(l)
    BY <2>1, <2>2, FunctionIsSeq
  <2>4. worker' = [worker EXCEPT ![p] = w] /\ list' = [list EXCEPT ![p] = l]
    BY <1>2 DEF StartVerify, w
  <2>5. MutexHeld'
    BY <1>2, <2>2, <2>4 DEF StartVerify
  <2> QED BY <1>2, <2>1, <2>3, <2>4, <2>5, BoundsAssumption DEF StartVerify
<1>3. ASSUME NEW p \in Processes, Worker(p) PROVE TypeOK'
  <2>1. PICK i \in DOMAIN list[p] :
          \/ Acquire(p, i) \/ IsCached(p, i) \/ VerifyImageExistence(p, i)
          \/ AddToCache(p, i) \/ OpenCacheFile(p, i) \/ WriteCacheFile(p, i)
    BY <1>3 DEF Worker
  <2>2. list[p][i] \in Images /\ i \in Nat \ {0}
    BY <2>1
  <2> DEFINE Kept == /\ worker' \in [Processes -> Seq(Labels)]
                     /\ \A q \in Processes : Len(worker'[q]) = Len(list'[q])
                     /\ MutexHeld'
  <2>3. <<>> \in Seq(Images)
    BY EmptySeq
  <2>4. {"lookup", "ok", "verify", "add", "failed"} \subseteq Labels \ {"save", "write"}
    BY DEF Labels
  <2> HIDE DEF GoTo, MutexHeld
  <2>5. CASE Acquire(p, i)
    <3>1. UNCHANGED <<mu, list>> /\ \E label \in {"lookup"} : GoTo(p, i, label)
      BY <2>5 DEF Acquire
    <3>2. Kept
      BY <2>4, <3>1, MovedKeepsMutex
    <3> QED BY <2>2, <2>5, <3>2 DEF Acquire
  <2>6. CASE IsCached(p, i)
    <3>1. UNCHANGED <<mu, list>> /\ \E label \in {"ok", "verify"} : GoTo(p, i, label)
      BY <2>6 DEF IsCached
    <3>2. Kept
      BY <2>4, <3>1, MovedKeepsMutex
    <3> QED BY <2>2, <2>6, <3>2 DEF IsCached
  <2>7. CASE VerifyImageExistence(p, i)
    <3>1. UNCHANGED <<mu, list>> /\ \E label \in {"add", "failed"} : GoTo(p, i, label)
      BY <2>7 DEF VerifyImageExistence
    <3>2. Kept
      BY <2>4, <3>1, MovedKeepsMutex
    <3> QED BY <2>2, <2>7, <3>2 DEF VerifyImageExistence
  <2>8. CASE AddToCache(p, i)
    <3>1. Added(cache[p], list[p][i]) \in Seq(Images)
      BY <2>2, AddedProperties DEF CacheBounded
    <3>2. GoTo(p, i, "save") /\ list' = list /\ mu' = [mu EXCEPT ![p] = i] /\ mu[p] = 0
      BY <2>8 DEF AddToCache
    <3>3. Kept
      BY <2>2, <3>2, GoToProperties DEF MutexHeld, Labels
    <3> QED BY <2>2, <2>8, <3>1, <3>3 DEF AddToCache
  <2>9. CASE OpenCacheFile(p, i)
    <3>1. mu[p] = i
      BY <2>9 DEF OpenCacheFile, MutexHeld
    <3>2. list' = list /\ \/ GoTo(p, i, "write") /\ mu' = mu
                          \/ GoTo(p, i, "ok") /\ mu' = [mu EXCEPT ![p] = 0]
      BY <2>9 DEF OpenCacheFile
    <3>3. Kept
      <4>1. CASE GoTo(p, i, "write") /\ mu' = mu
        <5>1. /\ worker' \in [Processes -> Seq(Labels)]
              /\ \A q \in Processes : Len(worker'[q]) = Len(list[q])
              /\ \A q \in Processes : \A j \in DOMAIN list[q] :
                   worker'[q][j] = IF q = p /\ j = i THEN "write" ELSE worker[q][j]
          BY <4>1, GoToProperties DEF Labels
        <5>2. MutexHeld'
          <6>1. list' = list /\ mu' = mu
            BY <3>2, <4>1
          <6>2. MutexHeld
            OBVIOUS
          <6> QED BY <3>1, <5>1, <6>1, <6>2 DEF MutexHeld
        <5> QED BY <3>2, <5>1, <5>2
      <4>2. CASE GoTo(p, i, "ok") /\ mu' = [mu EXCEPT ![p] = 0]
        BY <3>1, <3>2, <4>2, GoToProperties DEF MutexHeld, Labels
      <4> QED BY <3>2, <4>1, <4>2
    <3>4. file' \in Seq(Images)
      BY <2>3, <2>9 DEF OpenCacheFile
    <3>5. mu' \in [Processes -> Nat]
      <4>1. mu' = mu \/ mu' = [mu EXCEPT ![p] = 0]
        BY <3>2
      <4>2. mu \in [Processes -> Nat]
        OBVIOUS
      <4>3. [mu EXCEPT ![p] = 0] \in [Processes -> Nat]
        BY <4>2
      <4> QED BY <4>1, <4>2, <4>3
    <3>6. UNCHANGED <<registry, verified, cache, phase, list, verdict, calls, kills>>
      BY <2>9 DEF OpenCacheFile
    <3> QED BY <3>3, <3>4, <3>5, <3>6
  <2>10. CASE WriteCacheFile(p, i)
    <3>1. mu[p] = i
      BY <2>10 DEF WriteCacheFile, MutexHeld
    <3>2. list' = list /\ GoTo(p, i, "ok") /\ mu' = [mu EXCEPT ![p] = 0]
      BY <2>10 DEF WriteCacheFile
    <3>3. Kept
      BY <3>1, <3>2, GoToProperties DEF MutexHeld, Labels
    <3> QED BY <2>3, <2>10, <3>3 DEF WriteCacheFile
  <2> QED BY <2>1, <2>5, <2>6, <2>7, <2>8, <2>9, <2>10
<1>4. ASSUME NEW p \in Processes, Collect(p) PROVE TypeOK'
  BY <1>4 DEF Collect
<1>5. ASSUME NEW p \in Processes, Exit(p) \/ Killed(p) PROVE TypeOK'
  <2>1. Forget(p)
    BY <1>5 DEF Exit, Killed
  <2>2. MutexHeld'
    BY <2>1 DEF Forget
  <2> QED BY <1>5, <2>1, <2>2, BoundsAssumption DEF Exit, Killed, Forget
<1>6. ASSUME NEW img \in Images, ImageRemoved(img) PROVE TypeOK'
  BY <1>6 DEF ImageRemoved
<1>7. CASE UNCHANGED vars
  BY <1>7 DEF vars
<1> QED BY <1>1, <1>2, <1>3, <1>4, <1>5, <1>6, <1>7 DEF Next

\* What holds of the content of the file and of every cache.
Sound(c, imgs) ==
  c \in Seq(Images) /\ Len(c) <= MaxEntries /\ NoDuplicates(c) /\ ToSet(c) \subseteq imgs

\* Every step leaves sound content in the file and in the caches: what is stored
\* was verified, at most MaxEntries of it and no image twice.
LEMMA StorageStep ==
  IndInv /\ [Next]_vars => CachedIsVerified' /\ CacheBounded'
<1> SUFFICES ASSUME IndInv, [Next]_vars
             PROVE  Sound(file', verified') /\ \A q \in Processes : Sound(cache'[q], verified')
  BY DEF CachedIsVerified, CacheBounded, Sound
<1>1. Sound(file, verified) /\ \A q \in Processes : Sound(cache[q], verified)
  BY DEF IndInv, TypeOK, CachedIsVerified, CacheBounded, Sound
<1>2. TypeOK /\ Accepting
  BY DEF IndInv
<1>3. cache \in [Processes -> Seq(Images)]
  BY <1>2 DEF TypeOK
<1>4. Sound(<<>>, verified)
  BY EmptySeq, BoundsAssumption DEF Sound, NoDuplicates, ToSet
<1>5. ASSUME NEW p \in Processes, Load(p)
      PROVE  Sound(file', verified') /\ \A q \in Processes : Sound(cache'[q], verified')
  <2>1. file' = file /\ verified' = verified /\ cache' = [cache EXCEPT ![p] = file]
    BY <1>5 DEF Load
  <2>2. \A q \in Processes : cache'[q] = IF q = p THEN file ELSE cache[q]
    BY <1>3, <2>1
  <2> QED BY <1>1, <2>1, <2>2
<1>6. ASSUME NEW p \in Processes, Worker(p)
      PROVE  Sound(file', verified') /\ \A q \in Processes : Sound(cache'[q], verified')
  <2>1. PICK i \in DOMAIN list[p] :
          \/ Acquire(p, i) \/ IsCached(p, i) \/ VerifyImageExistence(p, i)
          \/ AddToCache(p, i) \/ OpenCacheFile(p, i) \/ WriteCacheFile(p, i)
    BY <1>6 DEF Worker
  <2>2. CASE Acquire(p, i) \/ IsCached(p, i)
    <3>1. UNCHANGED <<file, verified, cache>>
      BY <2>2 DEF Acquire, IsCached
    <3> QED BY <1>1, <3>1
  <2>3. CASE VerifyImageExistence(p, i)
    <3>1. UNCHANGED <<file, cache>> /\ verified \subseteq verified'
      BY <2>3 DEF VerifyImageExistence
    <3> QED BY <1>1, <3>1 DEF Sound
  <2>4. CASE AddToCache(p, i)
    <3>1. list[p][i] \in verified
      BY <1>2, <2>4 DEF Accepting, AddToCache
    <3>2. verified \subseteq Images
      BY <1>2 DEF TypeOK
    <3>3. Sound(Added(cache[p], list[p][i]), verified)
      BY <1>1, <3>1, <3>2, AddedProperties DEF Sound
    <3>4. /\ UNCHANGED <<file, verified>>
          /\ cache' = [cache EXCEPT ![p] = Added(cache[p], list[p][i])]
      BY <2>4 DEF AddToCache
    <3>5. \A q \in Processes :
            cache'[q] = IF q = p THEN Added(cache[p], list[p][i]) ELSE cache[q]
      BY <1>3, <3>4
    <3> QED BY <1>1, <3>3, <3>4, <3>5
  <2>5. CASE OpenCacheFile(p, i)
    <3>1. file' \in {file, <<>>} /\ UNCHANGED <<verified, cache>>
      BY <2>5 DEF OpenCacheFile
    <3> QED BY <1>1, <1>4, <3>1
  <2>6. CASE WriteCacheFile(p, i)
    <3>1. file' \in {cache[p], <<>>} /\ UNCHANGED <<verified, cache>>
      BY <2>6 DEF WriteCacheFile
    <3> QED BY <1>1, <1>4, <3>1
  <2> QED BY <2>1, <2>2, <2>3, <2>4, <2>5, <2>6
<1>7. ASSUME NEW p \in Processes, Exit(p) \/ Killed(p)
      PROVE  Sound(file', verified') /\ \A q \in Processes : Sound(cache'[q], verified')
  <2>1. UNCHANGED <<file, verified>> /\ cache' = [cache EXCEPT ![p] = <<>>]
    BY <1>7 DEF Exit, Killed, Forget
  <2>2. \A q \in Processes : cache'[q] = IF q = p THEN <<>> ELSE cache[q]
    BY <1>3, <2>1
  <2> QED BY <1>1, <1>4, <2>1, <2>2
<1>8. CASE UNCHANGED <<file, verified, cache>>
  BY <1>1, <1>8
<1>9. ASSUME NEW p \in Processes, Collect(p) \/ \E l \in Lists : StartVerify(p, l)
      PROVE  UNCHANGED <<file, verified, cache>>
  BY <1>9 DEF Collect, StartVerify
<1>10. ASSUME NEW img \in Images, ImageRemoved(img)
       PROVE  UNCHANGED <<file, verified, cache>>
  BY <1>10 DEF ImageRemoved
<1>11. CASE UNCHANGED vars
  BY <1>8, <1>11 DEF vars
<1> QED BY <1>5, <1>6, <1>7, <1>8, <1>9, <1>10, <1>11 DEF Next

\* No step accepts an image that was never pulled, or says yes while a goroutine
\* has not accepted.
LEMMA AcceptingStep == IndInv /\ [Next]_vars => Accepting'
<1> SUFFICES ASSUME IndInv, [Next]_vars PROVE Accepting'
  OBVIOUS
<1>1. TypeOK /\ Accepting /\ CachedIsVerified
  BY DEF IndInv
<1>2. /\ worker \in [Processes -> Seq(Labels)] /\ list \in [Processes -> Seq(Images)]
      /\ cache \in [Processes -> Seq(Images)]
      /\ verdict \in [Processes -> {"none", "pullable", "failed"}]
  BY <1>1 DEF TypeOK
<1>3. ASSUME NEW p \in Processes, NEW l \in Lists, StartVerify(p, l) PROVE Accepting'
  <2>1. l \in Seq(Images) /\ DOMAIN l = 1 .. Len(l)
    BY ListsAssumption, LenProperties
  <2> DEFINE w == [i \in DOMAIN l |-> IF Contains(cache[p], l[i]) THEN "cached" ELSE "new"]
  <2>2. /\ worker' = [worker EXCEPT ![p] = w] /\ list' = [list EXCEPT ![p] = l]
        /\ verdict' = [verdict EXCEPT ![p] = "none"] /\ verified' = verified
    BY <1>3 DEF StartVerify
  <2>3. ASSUME NEW i \in DOMAIN l, w[i] \in {"cached", "add", "save", "write", "ok"}
        PROVE  l[i] \in verified
    <3>1. Contains(cache[p], l[i])
      BY <2>3
    <3>2. l[i] \in ToSet(cache[p])
      BY <3>1, <1>2, LenProperties DEF Contains, ToSet
    <3> QED BY <3>2, <1>1 DEF CachedIsVerified
  <2> HIDE DEF w
  <2>4. ASSUME NEW q \in Processes, NEW i \in DOMAIN list'[q]
        PROVE  /\ worker'[q][i] \in {"cached", "add", "save", "write", "ok"} => list'[q][i] \in verified'
               /\ verdict'[q] = "pullable" => worker'[q][i] \in {"cached", "ok"}
    <3>1. CASE q = p
      <4>1. list'[q] = l /\ worker'[q] = w /\ verdict'[q] = "none"
        BY <3>1, <2>2, <1>2
      <4> QED BY <4>1, <2>2, <2>3
    <3>2. CASE q # p
      <4>1. list'[q] = list[q] /\ worker'[q] = worker[q] /\ verdict'[q] = verdict[q]
        BY <3>2, <2>2, <1>2
      <4> QED BY <4>1, <2>2, <1>1 DEF Accepting
    <3> QED BY <3>1, <3>2
  <2> QED BY <2>4 DEF Accepting
<1>4. ASSUME NEW p \in Processes, Worker(p) PROVE Accepting'
  <2>1. PICK i \in DOMAIN list[p] :
          \/ Acquire(p, i) \/ IsCached(p, i) \/ VerifyImageExistence(p, i)
          \/ AddToCache(p, i) \/ OpenCacheFile(p, i) \/ WriteCacheFile(p, i)
    BY <1>4 DEF Worker
  <2>2. worker[p][i] \in {"new", "lookup", "verify", "add", "save", "write"}
    BY <2>1 DEF Acquire, IsCached, VerifyImageExistence, AddToCache, OpenCacheFile, WriteCacheFile
  <2>3. UNCHANGED <<list, verdict>> /\ verified \subseteq verified'
    BY <2>1 DEF Acquire, IsCached, VerifyImageExistence, AddToCache, OpenCacheFile, WriteCacheFile
  <2>4. PICK label \in Labels :
          GoTo(p, i, label) /\ (label \in {"cached", "add", "save", "write", "ok"} => list[p][i] \in verified')
    <3>1. CASE Acquire(p, i)
      <4>1. GoTo(p, i, "lookup")
        BY <3>1 DEF Acquire
      <4> QED BY <4>1 DEF Labels
    <3>2. CASE IsCached(p, i)
      <4>1. CASE Contains(cache[p], list[p][i])
        <5>1. list[p][i] \in ToSet(cache[p])
          BY <4>1, <1>2, LenProperties DEF Contains, ToSet
        <5>2. list[p][i] \in verified'
          BY <5>1, <1>1, <2>3 DEF CachedIsVerified
        <5>3. GoTo(p, i, "ok")
          BY <3>2, <4>1 DEF IsCached
        <5> QED BY <5>2, <5>3 DEF Labels
      <4>2. CASE ~Contains(cache[p], list[p][i])
        <5>1. GoTo(p, i, "verify")
          BY <3>2, <4>2 DEF IsCached
        <5> QED BY <5>1 DEF Labels
      <4> QED BY <4>1, <4>2
    <3>3. CASE VerifyImageExistence(p, i)
      <4>1. \/ GoTo(p, i, "add") /\ list[p][i] \in verified'
            \/ GoTo(p, i, "failed")
        BY <3>3 DEF VerifyImageExistence
      <4> QED BY <4>1 DEF Labels
    <3>4. CASE AddToCache(p, i) \/ OpenCacheFile(p, i) \/ WriteCacheFile(p, i)
      <4>1. worker[p][i] \in {"add", "save", "write"}
        BY <3>4 DEF AddToCache, OpenCacheFile, WriteCacheFile
      <4>2. list[p][i] \in verified'
        BY <4>1, <1>1, <2>3 DEF Accepting
      <4>3. GoTo(p, i, "save") \/ GoTo(p, i, "write") \/ GoTo(p, i, "ok")
        BY <3>4 DEF AddToCache, OpenCacheFile, WriteCacheFile
      <4> QED BY <4>2, <4>3 DEF Labels
    <3> QED BY <2>1, <3>1, <3>2, <3>3, <3>4
  <2>5. \A q \in Processes : \A j \in DOMAIN list[q] :
          worker'[q][j] = IF q = p /\ j = i THEN label ELSE worker[q][j]
    BY <1>1, <2>4, GoToProperties
  <2>6. verdict[p] # "pullable"
    BY <1>1, <2>2 DEF Accepting
  <2>7. ASSUME NEW q \in Processes, NEW j \in DOMAIN list[q]
        PROVE  /\ worker'[q][j] \in {"cached", "add", "save", "write", "ok"} => list[q][j] \in verified'
               /\ verdict[q] = "pullable" => worker'[q][j] \in {"cached", "ok"}
    <3>1. CASE q = p /\ j = i
      BY <3>1, <2>4, <2>5, <2>6
    <3>2. CASE ~(q = p /\ j = i)
      BY <3>2, <2>3, <2>5, <1>1 DEF Accepting
    <3> QED BY <3>1, <3>2
  <2> QED BY <2>3, <2>7 DEF Accepting
<1>5. ASSUME NEW p \in Processes, Collect(p) PROVE Accepting'
  <2>1. /\ UNCHANGED <<list, worker, verified>>
        /\ verdict' = [verdict EXCEPT ![p] =
             IF \E i \in Uncached(p) : worker[p][i] = "failed" THEN "failed" ELSE "pullable"]
        /\ \A i \in Uncached(p) : worker[p][i] \in {"ok", "failed"}
    BY <1>5 DEF Collect
  <2>2. verdict'[p] = "pullable" => \A i \in DOMAIN list[p] : worker[p][i] \in {"cached", "ok"}
    BY <2>1, <1>2 DEF Uncached
  <2>3. \A q \in Processes : q # p => verdict'[q] = verdict[q]
    BY <2>1, <1>2
  <2> QED BY <2>1, <2>2, <2>3, <1>1 DEF Accepting
<1>6. ASSUME NEW p \in Processes, Exit(p) \/ Killed(p) PROVE Accepting'
  <2>1. /\ verified' = verified /\ list' = [list EXCEPT ![p] = <<>>]
        /\ worker' = [worker EXCEPT ![p] = <<>>] /\ verdict' = [verdict EXCEPT ![p] = "none"]
    BY <1>6 DEF Exit, Killed, Forget
  <2>2. ASSUME NEW q \in Processes, NEW i \in DOMAIN list'[q]
        PROVE  q # p /\ list'[q] = list[q] /\ worker'[q] = worker[q] /\ verdict'[q] = verdict[q]
    BY <2>1, <2>2, <1>2
  <2> QED BY <2>1, <2>2, <1>1 DEF Accepting
<1>7. CASE UNCHANGED <<list, worker, verdict, verified>>
  BY <1>1, <1>7 DEF Accepting
<1>8. ASSUME NEW p \in Processes, Load(p) PROVE UNCHANGED <<list, worker, verdict, verified>>
  BY <1>8 DEF Load
<1>9. ASSUME NEW img \in Images, ImageRemoved(img)
      PROVE  UNCHANGED <<list, worker, verdict, verified>>
  BY <1>9 DEF ImageRemoved
<1>10. CASE UNCHANGED vars
  BY <1>7, <1>10 DEF vars
<1> QED BY <1>3, <1>4, <1>5, <1>6, <1>7, <1>8, <1>9, <1>10 DEF Next

\* The images of a call are finitely many.
LEMMA WantedFinite ==
  ASSUME TypeOK, NEW p \in Processes
  PROVE  IsFiniteSet(Wanted(p)) /\ Wanted(p) \subseteq Images /\ IsFiniteSet(Uncached(p))
<1>1. list[p] \in Seq(Images) /\ DOMAIN list[p] = 1 .. Len(list[p]) /\ Len(list[p]) \in Nat
  BY LenProperties DEF TypeOK
<1>2. IsFiniteSet(Uncached(p))
  <2>1. IsFiniteSet(1 .. Len(list[p])) /\ Uncached(p) \in SUBSET (1 .. Len(list[p]))
    BY <1>1, FS_Interval DEF Uncached
  <2> QED BY <2>1, FS_Subset
<1> DEFINE f == [i \in Uncached(p) |-> list[p][i]]
<1>3. f \in Surjection(Uncached(p), Wanted(p))
  BY DEF Wanted, Surjection
<1>4. IsFiniteSet(Wanted(p))
  BY <1>2, <1>3, FS_Surjection
<1>5. Wanted(p) \subseteq Images
  BY <1>1, ElementOfSeq DEF Wanted, Uncached
<1> QED BY <1>2, <1>4, <1>5

\* A goroutine that takes a step was started for an image that was not cached, and
\* remains one of those.
LEMMA UncachedStays ==
  ASSUME TypeOK, NEW p \in Processes, NEW i \in DOMAIN list[p], worker[p][i] # "cached",
         NEW label \in Labels \ {"cached"}, GoTo(p, i, label), UNCHANGED list
  PROVE  \A q \in Processes : Uncached(q)' = Uncached(q) /\ Wanted(q)' = Wanted(q)
<1>1. \A q \in Processes : \A j \in DOMAIN list[q] :
        worker'[q][j] = IF q = p /\ j = i THEN label ELSE worker[q][j]
  BY GoToProperties
<1>2. \A q \in Processes : Uncached(q)' = Uncached(q)
  BY <1>1 DEF Uncached
<1> QED BY <1>2 DEF Wanted

\* The steps of goroutines, seen from outside: where they come from and go to.
LEMMA WorkerSteps ==
  ASSUME NEW p \in Processes, NEW i \in DOMAIN list[p],
         \/ Acquire(p, i) \/ IsCached(p, i) \/ VerifyImageExistence(p, i)
         \/ AddToCache(p, i) \/ OpenCacheFile(p, i) \/ WriteCacheFile(p, i)
  PROVE  /\ UNCHANGED <<registry, phase, list, verdict, calls, kills>>
         /\ \E label \in Labels \ {"cached", "new"} :
              /\ GoTo(p, i, label)
              /\ \/ worker[p][i] = "new" /\ label = "lookup" /\ UNCHANGED <<cache, mu>>
                 \/ /\ worker[p][i] = "lookup" /\ UNCHANGED <<cache, mu>>
                    /\ \/ label = "ok" /\ Contains(cache[p], list[p][i])
                       \/ label = "verify"
                 \/ worker[p][i] = "verify" /\ label \in {"add", "failed"} /\ UNCHANGED <<cache, mu>>
                 \/ /\ worker[p][i] = "add" /\ label = "save" /\ mu' = [mu EXCEPT ![p] = i]
                    /\ cache' = [cache EXCEPT ![p] = Added(@, list[p][i])]
                 \/ worker[p][i] = "save" /\ label = "write" /\ UNCHANGED <<cache, mu>>
                 \/ /\ worker[p][i] \in {"save", "write"} /\ label = "ok" /\ UNCHANGED cache
                    /\ mu' = [mu EXCEPT ![p] = 0]
<1> USE DEF Labels
<1>1. CASE Acquire(p, i)
  <2>1. GoTo(p, i, "lookup")
    BY <1>1 DEF Acquire
  <2> QED BY <1>1, <2>1 DEF Acquire
<1>2. CASE IsCached(p, i)
  <2>1. \/ GoTo(p, i, "ok") /\ Contains(cache[p], list[p][i])
        \/ GoTo(p, i, "verify")
    <3>1. CASE Contains(cache[p], list[p][i])
      BY <3>1, <1>2 DEF IsCached
    <3>2. CASE ~Contains(cache[p], list[p][i])
      BY <3>2, <1>2 DEF IsCached
    <3> QED BY <3>1, <3>2
  <2> QED BY <1>2, <2>1 DEF IsCached
<1>3. CASE VerifyImageExistence(p, i)
  <2>1. GoTo(p, i, "add") \/ GoTo(p, i, "failed")
    BY <1>3 DEF VerifyImageExistence
  <2> QED BY <1>3, <2>1 DEF VerifyImageExistence
<1>4. CASE AddToCache(p, i)
  <2>1. GoTo(p, i, "save")
    BY <1>4 DEF AddToCache
  <2> QED BY <1>4, <2>1 DEF AddToCache
<1>5. CASE OpenCacheFile(p, i)
  <2>1. \/ GoTo(p, i, "write") /\ UNCHANGED mu
        \/ GoTo(p, i, "ok") /\ mu' = [mu EXCEPT ![p] = 0]
    BY <1>5 DEF OpenCacheFile
  <2> QED BY <1>5, <2>1 DEF OpenCacheFile
<1>6. CASE WriteCacheFile(p, i)
  <2>1. GoTo(p, i, "ok")
    BY <1>6 DEF WriteCacheFile
  <2> QED BY <1>6, <2>1 DEF WriteCacheFile
<1> QED BY <1>1, <1>2, <1>3, <1>4, <1>5, <1>6

\* Every step keeps the images of a call together at the end of the cache.
LEMMA FreshStep == IndInv /\ [Next]_vars => FreshLast'
<1> SUFFICES ASSUME IndInv, [Next]_vars PROVE FreshLast'
  OBVIOUS
<1>1. TypeOK /\ FreshLast /\ CacheBounded
  BY DEF IndInv
<1>2. /\ worker \in [Processes -> Seq(Labels)] /\ list \in [Processes -> Seq(Images)]
      /\ cache \in [Processes -> Seq(Images)]
      /\ phase \in [Processes -> {"off", "idle", "verifying"}]
  BY <1>1 DEF TypeOK
<1> DEFINE Kept(q) == UNCHANGED <<list[q], worker[q], cache[q], phase[q]>>
           Good(q) == /\ phase[q] = "off" => list[q] = <<>>
                      /\ EndsIn(cache[q], Wanted(q))
                      /\ Cardinality(Wanted(q)) <= MaxEntries =>
                           \A j \in Uncached(q) :
                             worker[q][j] \in {"ok", "save", "write"} => list[q][j] \in ToSet(cache[q])
<1>3. \A q \in Processes : Good(q)
  BY <1>1 DEF FreshLast
<1>4. ASSUME NEW q \in Processes, Kept(q) PROVE Good(q)'
  <2>1. Uncached(q)' = Uncached(q) /\ Wanted(q)' = Wanted(q)
    BY <1>4 DEF Uncached, Wanted
  <2> QED BY <1>3, <1>4, <2>1 DEF EndsIn, ToSet
<1>5. ASSUME NEW q \in Processes, list'[q] = <<>> PROVE Good(q)'
  <2>1. Uncached(q)' = {} /\ Wanted(q)' = {}
    BY <1>5 DEF Uncached, Wanted
  <2> QED BY <1>5, <2>1 DEF EndsIn
<1> SUFFICES ASSUME NEW q \in Processes PROVE Good(q)'
  BY DEF FreshLast
<1>6. ASSUME NEW p \in Processes, Load(p) PROVE Good(q)'
  <2>1. /\ list' = list /\ worker' = worker /\ phase[p] = "off"
        /\ \A r \in Processes : r # p => cache'[r] = cache[r] /\ phase'[r] = phase[r]
    BY <1>2, <1>6 DEF Load
  <2>2. CASE q = p
    <3>1. list[q] = <<>>
      BY <1>3, <2>1, <2>2
    <3> QED BY <1>5, <2>1, <3>1
  <2>3. CASE q # p
    BY <1>4, <2>1, <2>3
  <2> QED BY <2>2, <2>3
<1>7. ASSUME NEW p \in Processes, NEW l \in Lists, StartVerify(p, l) PROVE Good(q)'
  <2> DEFINE w == [i \in DOMAIN l |-> IF Contains(cache[p], l[i]) THEN "cached" ELSE "new"]
  <2>1. /\ worker' = [worker EXCEPT ![p] = w] /\ list' = [list EXCEPT ![p] = l]
        /\ phase' = [phase EXCEPT ![p] = "verifying"] /\ cache' = cache
    BY <1>7 DEF StartVerify
  <2>2. \A i \in DOMAIN l : w[i] = "cached" \/ (w[i] = "new" /\ ~Contains(cache[p], l[i]))
    OBVIOUS
  <2> HIDE DEF w
  <2>3. CASE q = p
    <3>1. list'[q] = l /\ worker'[q] = w /\ phase'[q] = "verifying" /\ cache'[q] = cache[p]
      BY <1>2, <2>1, <2>3
    <3>2. ASSUME NEW e \in Wanted(q)' PROVE e \notin ToSet(cache[p])
      <4>1. PICK i \in DOMAIN l : e = l[i] /\ w[i] # "cached"
        BY <3>1, <3>2 DEF Wanted, Uncached
      <4>2. ~Contains(cache[p], e)
        BY <2>2, <4>1
      <4>3. cache[p] \in Seq(Images) /\ DOMAIN cache[p] = 1 .. Len(cache[p])
        BY <1>2, LenProperties
      <4> QED BY <4>2, <4>3 DEF Contains, ToSet
    <3>3. EndsIn(cache'[q], Wanted(q)')
      BY <3>1, <3>2 DEF EndsIn, ToSet
    <3>4. \A j \in Uncached(q)' : worker'[q][j] = "new"
      BY <2>2, <3>1 DEF Uncached
    <3> QED BY <3>1, <3>3, <3>4
  <2>4. CASE q # p
    BY <1>2, <1>4, <2>1, <2>4
  <2> QED BY <2>3, <2>4
<1>8. ASSUME NEW p \in Processes, Worker(p) PROVE Good(q)'
  <2>1. PICK i \in DOMAIN list[p] :
          \/ Acquire(p, i) \/ IsCached(p, i) \/ VerifyImageExistence(p, i)
          \/ AddToCache(p, i) \/ OpenCacheFile(p, i) \/ WriteCacheFile(p, i)
    BY <1>8 DEF Worker
  <2>2. /\ UNCHANGED <<phase, list>>
        /\ \E label \in Labels \ {"cached", "new"} :
              /\ GoTo(p, i, label)
              /\ worker[p][i] # "cached"
              /\ \/ label \notin {"ok", "save", "write"} /\ cache' = cache
                 \/ label = "ok" /\ Contains(cache[p], list[p][i]) /\ cache' = cache
                 \/ worker[p][i] \in {"save", "write"} /\ cache' = cache
                 \/ cache' = [cache EXCEPT ![p] = Added(@, list[p][i])]
    BY <2>1, WorkerSteps
  <2>3. PICK label \in Labels \ {"cached", "new"} :
              /\ GoTo(p, i, label)
              /\ worker[p][i] # "cached"
              /\ \/ label \notin {"ok", "save", "write"} /\ cache' = cache
                 \/ label = "ok" /\ Contains(cache[p], list[p][i]) /\ cache' = cache
                 \/ worker[p][i] \in {"save", "write"} /\ cache' = cache
                 \/ cache' = [cache EXCEPT ![p] = Added(@, list[p][i])]
    BY <2>2
  <2>4. Uncached(q)' = Uncached(q) /\ Wanted(q)' = Wanted(q)
    BY <1>1, <2>2, <2>3, UncachedStays
  <2>5. \A j \in DOMAIN list[q] :
          worker'[q][j] = IF q = p /\ j = i THEN label ELSE worker[q][j]
    BY <1>1, <2>3, GoToProperties
  <2>6. i \in Uncached(p) /\ list[p][i] \in Wanted(p)
    BY <2>3 DEF Uncached, Wanted
  <2>7. CASE cache' = cache
    <3>1. ASSUME NEW j \in Uncached(q), Cardinality(Wanted(q)) <= MaxEntries,
                 worker'[q][j] \in {"ok", "save", "write"}
          PROVE  list[q][j] \in ToSet(cache[q])
      <4>1. CASE q = p /\ j = i
        <5>1. CASE worker[p][i] \in {"ok", "save", "write"}
          BY <1>3, <3>1, <4>1, <5>1
        <5>2. CASE label = "ok" /\ Contains(cache[p], list[p][i])
          <6>1. cache[p] \in Seq(Images) /\ DOMAIN cache[p] = 1 .. Len(cache[p])
            BY <1>2, LenProperties
          <6> QED BY <4>1, <5>2, <6>1 DEF Contains, ToSet
        <5>3. CASE cache' = [cache EXCEPT ![p] = Added(@, list[p][i])]
          <6>1. cache[p] = Added(cache[p], list[p][i])
            BY <1>2, <2>7, <5>3
          <6>2. list[p][i] \in ToSet(Added(cache[p], list[p][i]))
            BY <1>1, <1>2, <1>3, <2>6, WantedFinite, AddedKeepsLast DEF CacheBounded
          <6> QED BY <4>1, <6>1, <6>2
        <5> QED BY <2>3, <2>5, <3>1, <4>1, <5>1, <5>2, <5>3
      <4>2. CASE ~(q = p /\ j = i)
        <5>1. worker'[q][j] = worker[q][j]
          BY <2>5, <4>2 DEF Uncached
        <5> QED BY <1>3, <3>1, <5>1
      <4> QED BY <4>1, <4>2
    <3> QED BY <1>3, <2>2, <2>4, <2>7, <3>1
  <2>8. CASE cache' = [cache EXCEPT ![p] = Added(@, list[p][i])]
    <3>1. CASE q = p
      <4>1. /\ list[p][i] \in ToSet(cache'[p])
            /\ EndsIn(cache'[p], Wanted(p))
            /\ Cardinality(Wanted(p)) <= MaxEntries => ToSet(cache[p]) \cap Wanted(p) \subseteq ToSet(cache'[p])
        <5>1. cache'[p] = Added(cache[p], list[p][i])
          BY <1>2, <2>8
        <5>2. /\ cache[p] \in Seq(Images) /\ NoDuplicates(cache[p]) /\ Len(cache[p]) <= MaxEntries
              /\ IsFiniteSet(Wanted(p)) /\ list[p][i] \in Images /\ EndsIn(cache[p], Wanted(p))
          BY <1>1, <1>2, <1>3, <2>6, WantedFinite DEF CacheBounded
        <5> HIDE DEF Good
        <5> QED BY <2>6, <5>1, <5>2, AddedKeepsLast
      <4>2. ASSUME NEW j \in Uncached(p), Cardinality(Wanted(p)) <= MaxEntries,
                   worker'[p][j] \in {"ok", "save", "write"}
            PROVE  list[p][j] \in ToSet(cache'[p])
        <5>1. CASE j = i
          BY <4>1, <5>1
        <5>2. CASE j # i
          <6>1. worker'[p][j] = worker[p][j]
            BY <2>5, <3>1, <5>2 DEF Uncached
          <6>2. list[p][j] \in ToSet(cache[p]) /\ list[p][j] \in Wanted(p)
            BY <1>3, <4>2, <6>1 DEF Wanted
          <6> QED BY <4>1, <4>2, <6>2
        <5> QED BY <5>1, <5>2
      <4> QED BY <1>3, <2>2, <2>4, <3>1, <4>1, <4>2
    <3>2. CASE q # p
      <4>1. cache'[q] = cache[q]
        BY <1>2, <2>8, <3>2
      <4>2. \A j \in Uncached(q) : worker'[q][j] = worker[q][j]
        BY <2>5, <3>2 DEF Uncached
      <4> QED BY <1>3, <2>2, <2>4, <4>1, <4>2
    <3> QED BY <3>1, <3>2
  <2> QED BY <2>3, <2>7, <2>8
<1>9. ASSUME NEW p \in Processes, Collect(p) PROVE Good(q)'
  <2>1. /\ UNCHANGED <<cache, list, worker>> /\ phase' = [phase EXCEPT ![p] = "idle"]
        /\ phase[p] = "verifying"
    BY <1>9 DEF Collect
  <2>2. phase'[q] = "off" => phase[q] = "off"
    BY <1>2, <2>1
  <2>3. Uncached(q)' = Uncached(q) /\ Wanted(q)' = Wanted(q)
    BY <2>1 DEF Uncached, Wanted
  <2> QED BY <1>3, <2>1, <2>2, <2>3
<1>10. ASSUME NEW p \in Processes, Exit(p) \/ Killed(p) PROVE Good(q)'
  <2>1. /\ list' = [list EXCEPT ![p] = <<>>] /\ worker' = [worker EXCEPT ![p] = <<>>]
        /\ cache' = [cache EXCEPT ![p] = <<>>] /\ phase' = [phase EXCEPT ![p] = "off"]
    BY <1>10 DEF Exit, Killed, Forget
  <2>2. CASE q = p
    BY <1>2, <1>5, <2>1, <2>2
  <2>3. CASE q # p
    BY <1>2, <1>4, <2>1, <2>3
  <2> QED BY <2>2, <2>3
<1>11. ASSUME NEW img \in Images, ImageRemoved(img) PROVE Good(q)'
  BY <1>4, <1>11 DEF ImageRemoved
<1>12. CASE UNCHANGED vars
  BY <1>4, <1>12 DEF vars
<1> QED BY <1>6, <1>7, <1>8, <1>9, <1>10, <1>11, <1>12 DEF Next

\* Every step keeps the mutex with a goroutine that is going to return it, and
\* leaves no goroutine behind when a call returns.
LEMMA HolderStep == IndInv /\ [Next]_vars => HolderWorks'
<1> SUFFICES ASSUME IndInv, [Next]_vars PROVE HolderWorks'
  OBVIOUS
<1>1. TypeOK /\ HolderWorks /\ MutexHeld
  BY DEF IndInv, TypeOK
<1>2. /\ worker \in [Processes -> Seq(Labels)] /\ list \in [Processes -> Seq(Images)]
      /\ mu \in [Processes -> Nat]
      /\ phase \in [Processes -> {"off", "idle", "verifying"}]
      /\ \A p \in Processes : 0 \notin DOMAIN list[p]
  BY <1>1, LenProperties DEF TypeOK
<1> DEFINE Good(q) ==
      /\ phase[q] # "verifying" =>
           \A i \in DOMAIN list[q] : worker[q][i] \in {"cached", "ok", "failed"}
      /\ mu[q] # 0 => mu[q] \in DOMAIN list[q] /\ worker[q][mu[q]] \in {"save", "write"}
<1>3. \A q \in Processes : Good(q)
  BY <1>1 DEF HolderWorks
<1> SUFFICES ASSUME NEW q \in Processes PROVE Good(q)'
  BY DEF HolderWorks
<1>4. CASE UNCHANGED <<list[q], worker[q], mu[q], phase[q]>>
  BY <1>3, <1>4
<1>5. ASSUME NEW p \in Processes, Load(p) PROVE Good(q)'
  <2>1. UNCHANGED <<list, worker, mu>> /\ phase[p] = "off" /\ phase' = [phase EXCEPT ![p] = "idle"]
    BY <1>5 DEF Load
  <2>2. phase'[q] # "verifying" => phase[q] # "verifying"
    BY <1>2, <2>1
  <2> QED BY <1>3, <2>1, <2>2
<1>6. ASSUME NEW p \in Processes, NEW l \in Lists, StartVerify(p, l) PROVE Good(q)'
  <2>1. /\ phase[p] = "idle" /\ phase' = [phase EXCEPT ![p] = "verifying"] /\ mu' = mu
        /\ list' = [list EXCEPT ![p] = l]
        /\ worker' = [worker EXCEPT ![p] =
             [i \in DOMAIN l |-> IF Contains(cache[p], l[i]) THEN "cached" ELSE "new"]]
    BY <1>6 DEF StartVerify
  <2>2. CASE q = p
    <3>1. mu[p] = 0
      BY <1>3, <2>1
    <3> QED BY <1>2, <2>1, <2>2, <3>1
  <2>3. CASE q # p
    BY <1>2, <1>4, <2>1, <2>3
  <2> QED BY <2>2, <2>3
<1>7. ASSUME NEW p \in Processes, Worker(p) PROVE Good(q)'
  <2>1. PICK i \in DOMAIN list[p] :
          \/ Acquire(p, i) \/ IsCached(p, i) \/ VerifyImageExistence(p, i)
          \/ AddToCache(p, i) \/ OpenCacheFile(p, i) \/ WriteCacheFile(p, i)
    BY <1>7 DEF Worker
  <2>2. /\ UNCHANGED <<phase, list>>
        /\ \E label \in Labels \ {"cached", "new"} :
              /\ GoTo(p, i, label)
              /\ worker[p][i] \in {"new", "lookup", "verify", "add", "save", "write"}
              /\ \/ worker[p][i] \notin {"save", "write"} /\ mu' = mu
                 \/ label = "save" /\ mu' = [mu EXCEPT ![p] = i]
                 \/ label = "write" /\ mu' = mu
                 \/ worker[p][i] \in {"save", "write"} /\ mu' = [mu EXCEPT ![p] = 0]
    BY <2>1, WorkerSteps
  <2>3. PICK label \in Labels \ {"cached", "new"} :
              /\ GoTo(p, i, label)
              /\ worker[p][i] \in {"new", "lookup", "verify", "add", "save", "write"}
              /\ \/ worker[p][i] \notin {"save", "write"} /\ mu' = mu
                 \/ label = "save" /\ mu' = [mu EXCEPT ![p] = i]
                 \/ label = "write" /\ mu' = mu
                 \/ worker[p][i] \in {"save", "write"} /\ mu' = [mu EXCEPT ![p] = 0]
    BY <2>2
  <2>4. \A j \in DOMAIN list[q] :
          worker'[q][j] = IF q = p /\ j = i THEN label ELSE worker[q][j]
    BY <1>1, <2>3, GoToProperties
  <2>5. CASE q = p
    <3>1. phase[p] = "verifying"
      BY <1>3, <2>3
    <3>2. ASSUME mu'[p] # 0 PROVE mu'[p] \in DOMAIN list[p] /\ worker'[p][mu'[p]] \in {"save", "write"}
      <4>1. CASE worker[p][i] \notin {"save", "write"} /\ mu' = mu
        <5>1. mu[p] \in DOMAIN list[p] /\ worker[p][mu[p]] \in {"save", "write"}
          BY <1>3, <3>2, <4>1
        <5>2. mu[p] # i
          BY <4>1, <5>1
        <5> QED BY <2>4, <2>5, <4>1, <5>1, <5>2
      <4>2. CASE label = "save" /\ mu' = [mu EXCEPT ![p] = i]
        BY <1>2, <2>4, <2>5, <4>2
      <4>3. CASE label = "write" /\ mu' = mu
        <5>1. mu[p] \in DOMAIN list[p] /\ worker[p][mu[p]] \in {"save", "write"}
          BY <1>3, <3>2, <4>3
        <5> QED BY <2>4, <2>5, <4>3, <5>1
      <4>4. CASE mu' = [mu EXCEPT ![p] = 0]
        BY <1>2, <3>2, <4>4
      <4> QED BY <2>3, <4>1, <4>2, <4>3, <4>4
    <3> QED BY <2>2, <2>5, <3>1, <3>2
  <2>6. CASE q # p
    <3>1. mu'[q] = mu[q]
      BY <1>2, <2>3, <2>6
    <3>2. \A j \in DOMAIN list[q] : worker'[q][j] = worker[q][j]
      BY <2>4, <2>6
    <3> QED BY <1>3, <2>2, <3>1, <3>2
  <2> QED BY <2>5, <2>6
<1>8. ASSUME NEW p \in Processes, Collect(p) PROVE Good(q)'
  <2>1. /\ UNCHANGED <<list, worker, mu>> /\ phase' = [phase EXCEPT ![p] = "idle"]
        /\ \A i \in Uncached(p) : worker[p][i] \in {"ok", "failed"}
    BY <1>8 DEF Collect
  <2>2. \A i \in DOMAIN list[p] : worker[p][i] \in {"cached", "ok", "failed"}
    BY <2>1 DEF Uncached
  <2>3. q # p => phase'[q] = phase[q]
    BY <1>2, <2>1
  <2> QED BY <1>3, <2>1, <2>2, <2>3
<1>9. ASSUME NEW p \in Processes, Exit(p) \/ Killed(p) PROVE Good(q)'
  <2>1. /\ list' = [list EXCEPT ![p] = <<>>] /\ worker' = [worker EXCEPT ![p] = <<>>]
        /\ mu' = [mu EXCEPT ![p] = 0] /\ phase' = [phase EXCEPT ![p] = "off"]
    BY <1>9 DEF Exit, Killed, Forget
  <2>2. CASE q = p
    BY <1>2, <2>1, <2>2
  <2>3. CASE q # p
    BY <1>2, <1>4, <2>1, <2>3
  <2> QED BY <2>2, <2>3
<1>10. ASSUME NEW img \in Images, ImageRemoved(img) PROVE Good(q)'
  BY <1>4, <1>10 DEF ImageRemoved
<1>11. CASE UNCHANGED vars
  BY <1>4, <1>11 DEF vars
<1> QED BY <1>5, <1>6, <1>7, <1>8, <1>9, <1>10, <1>11 DEF Next

\* Whose result is not there yet, and nobody works: there is room in the semaphore.
LEMMA RoomForOne ==
  ASSUME TypeOK, NEW p \in Processes, Uncached(p) # {}, Working(p) = {}
  PROVE  Cardinality(Working(p)) < Min({MaxWorkers, Cardinality(Uncached(p))})
<1> DEFINE n == Cardinality(Uncached(p))
<1>1. IsFiniteSet(Uncached(p))
  BY WantedFinite
<1>2. n \in Nat /\ n # 0
  BY <1>1, FS_CardinalityType, FS_EmptySet
<1>3. MaxWorkers \in Nat \ {0}
  BY BoundsAssumption
<1> HIDE DEF n
<1>4. Min({MaxWorkers, n}) \in {MaxWorkers, n}
  BY <1>2, <1>3, MinIsLeast
<1>5. Cardinality(Working(p)) = 0
  BY FS_EmptySet
<1> QED BY <1>2, <1>3, <1>4, <1>5 DEF n

\* How many steps each label leaves.
StepsOf(label) ==
  CASE label = "new" -> 6 [] label = "lookup" -> 5 [] label = "verify" -> 4
    [] label = "add" -> 3 [] label = "save" -> 2 [] label = "write" -> 1 [] OTHER -> 0

\* The stages that a goroutine still has before it are counted by its label.
LEMMA StagesOrdered ==
  ASSUME NEW n \in 1 .. 6, NEW label
  PROVE  (\E m \in n .. 6 : label = Stages[m]) <=> n <= StepsOf(label)
<1>1. /\ Stages[1] = "write" /\ Stages[2] = "save" /\ Stages[3] = "add"
      /\ Stages[4] = "verify" /\ Stages[5] = "lookup" /\ Stages[6] = "new"
  BY DEF Stages
<1>2. \A m \in n .. 6 : m \in {1, 2, 3, 4, 5, 6} /\ n <= m
  OBVIOUS
<1>3. ASSUME NEW m \in n .. 6, label = Stages[m] PROVE n <= StepsOf(label)
  BY <1>1, <1>2, <1>3 DEF StepsOf
<1>4. ASSUME n <= StepsOf(label) PROVE \E m \in n .. 6 : label = Stages[m]
  <2>1. StepsOf(label) \in n .. 6 /\ label = Stages[StepsOf(label)]
    BY <1>1, <1>4 DEF StepsOf
  <2> QED BY <2>1
<1> QED BY <1>3, <1>4

(***************************************************************************)
(* The theorems.                                                           *)
(***************************************************************************)
\* The inductive invariant holds in every state, for any number of processes and
\* goroutines, any lists and any limits (cache_pool checks it on a small instance).
THEOREM CacheInductive == Spec => []IndInv
<1>1. IndInv /\ [Next]_vars => IndInv'
  BY TypeStep, StorageStep, AcceptingStep, FreshStep, HolderStep DEF IndInv
<1> QED BY InitInv, <1>1, PTL DEF Spec

\* Every variable keeps its type, and whoever stores an image holds the mutex.
THEOREM CacheTypeCorrect == Spec => []TypeOK
<1>1. IndInv => TypeOK
  BY DEF IndInv
<1> QED BY CacheInductive, <1>1, PTL

\* No image enters a cache or the cache file that was never pulled, with kills and
\* with processes that write the file at the same time.
THEOREM NothingUnpulledIsCached == Spec => []CachedIsVerified
<1>1. IndInv => CachedIsVerified
  BY DEF IndInv
<1> QED BY CacheInductive, <1>1, PTL

\* Caches and file stay within maxEntries and hold no image twice.
THEOREM CacheStaysBounded == Spec => []CacheBounded
<1>1. IndInv => CacheBounded
  BY DEF IndInv
<1> QED BY CacheInductive, <1>1, PTL

\* VerifyImagesPullable says yes only about images that were pulled.
THEOREM VerdictIsSound == Spec => []VerdictSound
<1>1. IndInv => VerdictSound
  <2> SUFFICES ASSUME Accepting, NEW p \in Processes, verdict[p] = "pullable"
               PROVE  ToSet(list[p]) \subseteq verified
    BY DEF IndInv, VerdictSound
  <2>1. \A i \in DOMAIN list[p] : list[p][i] \in verified
    BY DEF Accepting
  <2> QED BY <2>1 DEF ToSet
<1> QED BY CacheInductive, <1>1, PTL

\* What a call has just verified is still in the cache when it returns, whatever its
\* other goroutines have added meanwhile, if its images fit at all.
THEOREM FreshImagesStay == Spec => []FreshStay
<1>1. IndInv => FreshStay
  BY DEF IndInv, FreshLast, FreshStay
<1> QED BY CacheInductive, <1>1, PTL

\* Semaphore, mutex and results channel never leave a call in which no goroutine and
\* not even the collecting loop can go on.
THEOREM NeverStuckCorrect == Spec => []NeverStuck
<1>1. IndInv => NeverStuck
  <2> SUFFICES ASSUME IndInv, NEW p \in Processes,
                      NEW i \in Uncached(p), worker[p][i] \notin {"ok", "failed"},
                      \A j \in Uncached(p) : worker[p][j] \notin {"verify", "save", "write"}
               PROVE  \E j \in Uncached(p) :
                        \/ /\ worker[p][j] = "new"
                           /\ Cardinality(Working(p)) < Min({MaxWorkers, Cardinality(Uncached(p))})
                        \/ worker[p][j] \in {"lookup", "add"} /\ mu[p] = 0
    BY DEF NeverStuck, CanGoOn
  <2>1. TypeOK /\ HolderWorks
    BY DEF IndInv
  <2>2. mu[p] = 0
    BY <2>1 DEF HolderWorks, Uncached
  <2>3. CASE \E j \in Uncached(p) : worker[p][j] \in {"lookup", "add"}
    BY <2>2, <2>3
  <2>4. CASE ~\E j \in Uncached(p) : worker[p][j] \in {"lookup", "add"}
    <3>1. worker[p][i] \in Labels \ {"cached"}
      <4>1. i \in DOMAIN list[p] /\ worker[p][i] # "cached"
        BY DEF Uncached
      <4>2. worker[p] \in Seq(Labels) /\ DOMAIN list[p] = 1 .. Len(worker[p])
        BY <2>1, LenProperties DEF TypeOK
      <4> QED BY <4>1, <4>2, ElementOfSeq
    <3>2. worker[p][i] = "new"
      BY <2>4, <3>1 DEF Labels
    <3>3. Working(p) = {}
      BY <2>4 DEF Working, Uncached
    <3> QED BY <2>1, <3>2, <3>3, RoomForOne
  <2> QED BY <2>3, <2>4
<1> QED BY CacheInductive, <1>1, PTL

\* Every step of a goroutine uses up one of the finitely many that its call may take,
\* and nothing gives one back.  With NeverStuckCorrect this is why each call of
\* VerifyImagesPullable returns.
THEOREM CallsAdvanceCorrect == Spec => CallsAdvance
<1> DEFINE Less == \A p \in Processes :
             /\ Worker(p) => StepsLeft(p)' \subseteq StepsLeft(p) /\ StepsLeft(p)' # StepsLeft(p)
             /\ phase[p] = "verifying" => StepsLeft(p)' \subseteq StepsLeft(p)
<1>1. IndInv /\ [Next]_vars => [Less]_vars
  <2> SUFFICES ASSUME IndInv, Next PROVE Less
    OBVIOUS
  <2>1. TypeOK
    BY DEF IndInv
  <2>2. /\ list \in [Processes -> Seq(Images)] /\ worker \in [Processes -> Seq(Labels)]
        /\ phase \in [Processes -> {"off", "idle", "verifying"}]
    BY <2>1 DEF TypeOK
  <2>3. ASSUME NEW q \in Processes, UNCHANGED <<list[q], worker[q]>>
        PROVE  StepsLeft(q)' = StepsLeft(q)
    BY <2>3 DEF StepsLeft
  <2>4. ASSUME NEW q \in Processes, list'[q] = <<>> PROVE StepsLeft(q)' \subseteq StepsLeft(q)
    BY <2>4 DEF StepsLeft
  <2>5. ASSUME NEW p \in Processes, Worker(p)
        PROVE  /\ StepsLeft(p)' \subseteq StepsLeft(p) /\ StepsLeft(p)' # StepsLeft(p)
               /\ \A q \in Processes : q # p => StepsLeft(q)' = StepsLeft(q)
    <3>1. PICK i \in DOMAIN list[p] :
            \/ Acquire(p, i) \/ IsCached(p, i) \/ VerifyImageExistence(p, i)
            \/ AddToCache(p, i) \/ OpenCacheFile(p, i) \/ WriteCacheFile(p, i)
      BY <2>5 DEF Worker
    <3>2. /\ UNCHANGED list
          /\ \E label \in Labels : GoTo(p, i, label) /\
                \/ worker[p][i] = "new" /\ label = "lookup"
                \/ worker[p][i] = "lookup" /\ label \in {"ok", "verify"}
                \/ worker[p][i] = "verify" /\ label \in {"add", "failed"}
                \/ worker[p][i] = "add" /\ label = "save"
                \/ worker[p][i] = "save" /\ label = "write"
                \/ worker[p][i] \in {"save", "write"} /\ label = "ok"
      BY <3>1, WorkerSteps
    <3>3. PICK label \in Labels : GoTo(p, i, label) /\
                \/ worker[p][i] = "new" /\ label = "lookup"
                \/ worker[p][i] = "lookup" /\ label \in {"ok", "verify"}
                \/ worker[p][i] = "verify" /\ label \in {"add", "failed"}
                \/ worker[p][i] = "add" /\ label = "save"
                \/ worker[p][i] = "save" /\ label = "write"
                \/ worker[p][i] \in {"save", "write"} /\ label = "ok"
      BY <3>2
    <3>4. \A q \in Processes : \A j \in DOMAIN list[q] :
            worker'[q][j] = IF q = p /\ j = i THEN label ELSE worker[q][j]
      BY <2>1, <3>3, GoToProperties
    <3>5. StepsOf(label) \in 0 .. 6 /\ StepsOf(worker[p][i]) \in 1 .. 6
          /\ StepsOf(label) < StepsOf(worker[p][i])
      BY <3>3 DEF StepsOf
    <3>7. \A q \in Processes : \A e \in (DOMAIN list[q]) \X (1 .. 6) :
            /\ e[1] \in DOMAIN list[q] /\ e[2] \in 1 .. 6
            /\ e \in StepsLeft(q)' <=> e[2] <= StepsOf(worker'[q][e[1]])
            /\ e \in StepsLeft(q) <=> e[2] <= StepsOf(worker[q][e[1]])
      BY <3>2, StagesOrdered DEF StepsLeft
    <3>8. \A q \in Processes : /\ StepsLeft(q) \subseteq (DOMAIN list[q]) \X (1 .. 6)
                              /\ StepsLeft(q)' \subseteq (DOMAIN list[q]) \X (1 .. 6)
      BY <3>2 DEF StepsLeft
    <3>9. StepsLeft(p)' \subseteq StepsLeft(p)
      BY <3>4, <3>5, <3>7, <3>8
    <3> DEFINE e == <<i, StepsOf(worker[p][i])>>
    <3>11. e \in StepsLeft(p) /\ e \notin StepsLeft(p)'
      <4>1. e \in (DOMAIN list[p]) \X (1 .. 6) /\ e[1] = i /\ e[2] = StepsOf(worker[p][i])
        BY <3>5
      <4> QED BY <3>4, <3>5, <3>7, <4>1
    <3>12. ASSUME NEW q \in Processes, q # p PROVE StepsLeft(q)' = StepsLeft(q)
      BY <3>4, <3>7, <3>8, <3>12
    <3> QED BY <3>9, <3>11, <3>12
  <2>6. ASSUME NEW q \in Processes, phase[q] = "verifying" PROVE StepsLeft(q)' \subseteq StepsLeft(q)
    <3>1. ASSUME NEW p \in Processes, Load(p) \/ Collect(p) PROVE UNCHANGED <<list[q], worker[q]>>
      BY <3>1 DEF Load, Collect
    <3>2. ASSUME NEW p \in Processes, NEW l \in Lists, StartVerify(p, l)
          PROVE  UNCHANGED <<list[q], worker[q]>>
      BY <2>2, <2>6, <3>2 DEF StartVerify
    <3>3. ASSUME NEW p \in Processes, Exit(p) \/ Killed(p)
          PROVE  list'[q] = <<>> \/ UNCHANGED <<list[q], worker[q]>>
      BY <2>2, <3>3 DEF Exit, Killed, Forget
    <3>4. ASSUME NEW img \in Images, ImageRemoved(img) PROVE UNCHANGED <<list[q], worker[q]>>
      BY <3>4 DEF ImageRemoved
    <3> QED BY <2>3, <2>4, <2>5, <3>1, <3>2, <3>3, <3>4 DEF Next
  <2> QED BY <2>5, <2>6
<1> QED BY CacheInductive, <1>1, PTL DEF Spec, CallsAdvance

=============================================================================
