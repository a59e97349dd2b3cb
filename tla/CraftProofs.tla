----------------------------- MODULE CraftProofs -----------------------------
(***************************************************************************)
(* Proofs about CraftAdvisor, for any affixes, bases, item levels and      *)
(* equipment.                                                              *)
(*                                                                         *)
(* The text of an item is written by one fold and one recursion, and read  *)
(* by another fold.  What these compute is proved first, each by a least   *)
(* counterexample; then what the parser makes of a text: the modifiers of  *)
(* the base's lines followed by those of the affixes (ParsedMods).  All    *)
(* that is claimed of the counts, the ratings and the plans follows from   *)
(* that without another look at a line of text.                            *)
(***************************************************************************)
EXTENDS CraftAdvisor, FiniteSetTheorems, SequenceTheorems, TLAPS

----------------------------------------------------------------------------
(* Folds.                                                                  *)

(* A set of numbers that is not empty has a least one.                     *)
LEMMA LeastNumber ==
  ASSUME NEW S \in SUBSET Nat, S # {}
  PROVE  \E n \in S : \A m \in S : n <= m
<1>2. PICK d \in S : \A e \in S : <<e, d>> \notin OpToRel(<, Nat)
  BY WFMin, NatLessThanWellFounded, Zenon
<1>3. \A e \in S : ~(e < d)
  BY <1>2 DEF OpToRel
<1> QED BY <1>3

One(s) == CHOOSE x \in s : TRUE
Small(S, n) == {s \in SUBSET S : Cardinality(s) <= n}

(* Taking one element, any, leaves a smaller set.                          *)
LEMMA RestIsSmaller ==
  ASSUME NEW S, IsFiniteSet(S), NEW s \in SUBSET S, NEW x \in s
  PROVE  /\ s \ {x} \in SUBSET S
         /\ Cardinality(s) \in Nat \ {0}
         /\ Cardinality(s \ {x}) = Cardinality(s) - 1
<1>2. IsFiniteSet(s)
  BY FS_Subset
<1>3. Cardinality(s) \in Nat \ {0}
  BY <1>2, FS_CardinalityType, FS_EmptySet
<1>4. Cardinality(s \ {x}) = Cardinality(s) - 1
  BY <1>2, FS_RemoveElement
<1> QED BY <1>3, <1>4

LEMMA SmallIsAll ==
  ASSUME NEW S, IsFiniteSet(S)
  PROVE  Cardinality(S) \in Nat /\ Small(S, Cardinality(S)) = SUBSET S
BY FS_Subset, FS_CardinalityType DEF Small

LEMMA SmallIsEmpty ==
  ASSUME NEW S, IsFiniteSet(S), NEW s \in Small(S, 0)
  PROVE  s = {}
<1>1. s \in SUBSET S /\ Cardinality(s) <= 0
  BY DEF Small
<1>2. SUFFICES ASSUME s # {} PROVE FALSE
  OBVIOUS
<1>3. PICK x \in s : TRUE
  BY <1>2
<1>4. Cardinality(s) \in Nat \ {0}
  BY <1>1, RestIsSmaller
<1> QED BY <1>1, <1>4

(* The fold over a sequence takes the last element after the others.       *)
(* Folds says that g is what it computes, for the sets of indices in T.    *)
Folds(g, b, s, T) ==
  g = [t \in T |-> IF t = {} THEN b ELSE ReadLine(g[t \ {Max(t)}], s[Max(t)])]

Reads(b, s) == FoldLeft(ReadLine, b, s)

LEMMA ReadsUnfolds ==
  ASSUME NEW b, NEW s
  PROVE  Reads(b, s) = (CHOOSE g : Folds(g, b, s, SUBSET (DOMAIN s)))[DOMAIN s]
BY DEF Reads, FoldLeft, MapThenFoldSet, Folds

(* A finite set of natural numbers has a greatest one.                     *)
LEMMA MaxOf ==
  ASSUME NEW n \in Nat, NEW t \in SUBSET (1..n), t # {}
  PROVE  Max(t) \in t /\ \A y \in t : Max(t) >= y
<1> DEFINE Above == {m \in Nat : \A y \in t : m >= y}
<1>1. n \in Above /\ Above \in SUBSET Nat
  OBVIOUS
<1>2. PICK m \in Above : \A k \in Above : m <= k
  BY <1>1, LeastNumber
<1>3. m \in t
  <2>1. SUFFICES ASSUME m \notin t PROVE FALSE
    OBVIOUS
  <2>2. \A y \in t : y \in 1..n /\ m >= y /\ m # y
    BY <1>2, <2>1
  <2>3. m \in Nat /\ m > 0
    <3>1. PICK y \in t : TRUE
      OBVIOUS
    <3> QED BY <1>2, <2>2, <3>1
  <2>4. m - 1 \in Above
    BY <2>2, <2>3
  <2> QED BY <1>2, <2>3, <2>4
<1>4. \E x \in t : \A y \in t : x >= y
  BY <1>2, <1>3
<1> QED BY <1>4, Zenon DEF Max

LEMMA PartialFolds ==
  ASSUME NEW b, NEW s, NEW l \in Nat, DOMAIN s = 1..l, NEW n \in Nat
  PROVE  \E g : Folds(g, b, s, Small(1..l, n))
<1> DEFINE S == 1..l
           Lacking == {m \in Nat : ~\E g : Folds(g, b, s, Small(S, m))}
<1>0. IsFiniteSet(S)
  BY FS_Interval
<1>1. SUFFICES ASSUME Lacking # {} PROVE FALSE
  OBVIOUS
<1>2. PICK m \in Lacking : \A k \in Lacking : m <= k
  BY <1>1, LeastNumber
<1>9. \A t \in SUBSET S : t # {} => Max(t) \in t
  BY MaxOf
<1> HIDE DEF S
<1>3. CASE m = 0
  <2> DEFINE g == [t \in Small(S, 0) |-> b]
  <2>2. Folds(g, b, s, Small(S, 0))
    BY <1>0, SmallIsEmpty DEF Folds
  <2> QED BY <1>2, <1>3, <2>2
<1>4. CASE m # 0
  <2>1. m - 1 \in Nat /\ m - 1 \notin Lacking
    BY <1>2, <1>4
  <2>2. PICK g : Folds(g, b, s, Small(S, m - 1))
    BY <2>1
  <2> DEFINE h == [t \in Small(S, m) |-> IF t = {} THEN b ELSE ReadLine(g[t \ {Max(t)}], s[Max(t)])]
  <2>3. ASSUME NEW t \in Small(S, m), t # {}
        PROVE  h[t \ {Max(t)}] = g[t \ {Max(t)}]
    <3> DEFINE r == t \ {Max(t)}
    <3>0. t \in SUBSET S /\ Max(t) \in t /\ Cardinality(t) <= m
      BY <1>9, <2>3 DEF Small
    <3>1. r \in Small(S, m - 1) /\ r \in Small(S, m)
      BY <1>0, <1>2, <3>0, RestIsSmaller DEF Small
    <3> HIDE DEF r
    <3>2. g[r] = IF r = {} THEN b ELSE ReadLine(g[r \ {Max(r)}], s[Max(r)])
      BY <2>2, <3>1 DEF Folds
    <3>3. h[r] = IF r = {} THEN b ELSE ReadLine(g[r \ {Max(r)}], s[Max(r)])
      BY <3>1
    <3> QED BY <3>2, <3>3 DEF r
  <2> DEFINE k == [t \in Small(S, m) |-> IF t = {} THEN b ELSE ReadLine(h[t \ {Max(t)}], s[Max(t)])]
  <2>5. ASSUME NEW t \in Small(S, m) PROVE h[t] = k[t]
    <3>1. CASE t = {}
      BY <3>1
    <3>2. CASE t # {}
      <4>1. h[t] = ReadLine(g[t \ {Max(t)}], s[Max(t)])
        BY <3>2
      <4>2. k[t] = ReadLine(h[t \ {Max(t)}], s[Max(t)])
        BY <3>2, Zenon
      <4> HIDE DEF h, k
      <4> QED BY <2>3, <3>2, <4>1, <4>2
    <3> QED BY <3>1, <3>2
  <2>7. h = [t \in Small(S, m) |-> h[t]] /\ k = [t \in Small(S, m) |-> k[t]]
    OBVIOUS
  <2>4. Folds(h, b, s, Small(S, m))
    <3>1. h = k
      <4> HIDE DEF h, k
      <4> QED BY <2>5, <2>7
    <3> QED BY <3>1, Zenon DEF Folds
  <2> QED BY <1>2, <2>4
<1> QED BY <1>3, <1>4

(* Reading, line by line: Trace says that g[k] is what the first k lines   *)
(* make of b.                                                              *)
Trace(g, b, s) == g[0] = b /\ \A k \in 1..Len(s) : g[k] = ReadLine(g[k - 1], s[k])

LEMMA ReadsTrace ==
  ASSUME NEW b, NEW X, NEW s \in Seq(X)
  PROVE  \E g : Trace(g, b, s) /\ Reads(b, s) = g[Len(s)]
<1> DEFINE n == Len(s)
<1>1. n \in Nat /\ DOMAIN s = 1..n
  BY LenProperties
<1>2. IsFiniteSet(1..n)
  BY <1>1, FS_Interval
<1> HIDE DEF n
<1>3. \E g : Folds(g, b, s, SUBSET (1..n))
  <2>1. Cardinality(1..n) \in Nat /\ Small(1..n, Cardinality(1..n)) = SUBSET (1..n)
    BY <1>2, SmallIsAll
  <2>2. \E g : Folds(g, b, s, Small(1..n, Cardinality(1..n)))
    BY <1>1, <2>1, PartialFolds
  <2> QED BY <2>1, <2>2
<1> DEFINE f == CHOOSE g : Folds(g, b, s, SUBSET (1..n))
<1>4. Folds(f, b, s, SUBSET (1..n)) /\ Reads(b, s) = f[1..n]
  BY <1>1, <1>3, ReadsUnfolds
<1> HIDE DEF f
<1> DEFINE g == [k \in 0..n |-> f[1..k]]
<1>5. g[0] = b
  <2>1. f[{}] = b
    BY <1>4 DEF Folds
  <2> QED BY <1>1, <2>1
<1>6. ASSUME NEW k \in 1..n PROVE g[k] = ReadLine(g[k - 1], s[k])
  <2>1. 1..k \in SUBSET (1..n) /\ 1..k # {} /\ k \in Nat /\ k - 1 \in 0..n /\ k \in 0..n
    BY <1>1
  <2>2. Max(1..k) = k
    <3>1. Max(1..k) \in 1..k /\ \A y \in 1..k : Max(1..k) >= y
      BY <1>1, <2>1, MaxOf
    <3> QED BY <2>1, <3>1
  <2>3. (1..k) \ {k} = 1..(k - 1)
    BY <2>1
  <2>4. f[1..k] = ReadLine(f[(1..k) \ {Max(1..k)}], s[Max(1..k)])
    BY <1>4, <2>1 DEF Folds
  <2> QED BY <2>1, <2>2, <2>3, <2>4
<1>7. g[n] = f[1..n]
  BY <1>1
<1> HIDE DEF g
<1>8. Trace(g, b, s)
  BY <1>5, <1>6 DEF Trace, n
<1> QED BY <1>4, <1>7, <1>8 DEF n

LEMMA TraceIsUnique ==
  ASSUME NEW b, NEW X, NEW s \in Seq(X), NEW g, NEW h, Trace(g, b, s), Trace(h, b, s),
         NEW k \in 0..Len(s)
  PROVE  g[k] = h[k]
<1> DEFINE Differ == {i \in 0..Len(s) : g[i] # h[i]}
<1>1. SUFFICES ASSUME Differ # {} PROVE FALSE
  OBVIOUS
<1>0. Len(s) \in Nat
  BY LenProperties
<1>2. PICK m \in Differ : \A i \in Differ : m <= i
  <2>1. Differ \in SUBSET Nat
    BY <1>0
  <2> QED BY <1>1, <2>1, LeastNumber
<1>3. m # 0 /\ m \in 1..Len(s)
  BY <1>0, <1>2 DEF Trace
<1>4. m - 1 \in 0..Len(s) /\ m - 1 \notin Differ
  BY <1>0, <1>2, <1>3
<1> QED BY <1>2, <1>3, <1>4 DEF Trace

(* Texts are read one after the other.                                     *)
LEMMA ReadsConcat ==
  ASSUME NEW b, NEW X, NEW s \in Seq(X), NEW t \in Seq(X)
  PROVE  Reads(b, s \o t) = Reads(Reads(b, s), t)
<1> DEFINE n == Len(s)
           m == Len(t)
<1>1. /\ n \in Nat /\ m \in Nat /\ s \o t \in Seq(X) /\ Len(s \o t) = n + m
      /\ \A i \in 1..n : (s \o t)[i] = s[i]
      /\ \A i \in 1..m : (s \o t)[n + i] = t[i]
  BY LenProperties, ConcatProperties
<1>2. PICK g : Trace(g, b, s \o t) /\ Reads(b, s \o t) = g[n + m]
  BY <1>1, ReadsTrace
<1>3. PICK h : Trace(h, b, s) /\ Reads(b, s) = h[n]
  BY ReadsTrace
<1>4. PICK k : Trace(k, Reads(b, s), t) /\ Reads(Reads(b, s), t) = k[m]
  BY ReadsTrace
<1> HIDE DEF n, m
<1>5. Trace(g, b, s)
  BY <1>1, <1>2 DEF Trace, n
<1>6. g[n] = Reads(b, s)
  BY <1>1, <1>3, <1>5, TraceIsUnique DEF n
<1> DEFINE q == [i \in 0..m |-> g[n + i]]
<1>7. q[0] = Reads(b, s) /\ q[m] = g[n + m]
  BY <1>1, <1>6
<1>8. ASSUME NEW i \in 1..m PROVE q[i] = ReadLine(q[i - 1], t[i])
  <2>1. n + i \in 1..(n + m) /\ i \in 0..m /\ i - 1 \in 0..m /\ (n + i) - 1 = n + (i - 1)
    BY <1>1
  <2>2. g[n + i] = ReadLine(g[(n + i) - 1], (s \o t)[n + i])
    BY <1>1, <1>2, <2>1 DEF Trace
  <2> QED BY <1>1, <2>1, <2>2
<1> HIDE DEF q
<1>9. Trace(q, Reads(b, s), t)
  BY <1>7, <1>8 DEF Trace, m
<1>10. q[m] = k[m]
  BY <1>1, <1>4, <1>9, TraceIsUnique DEF m
<1> QED BY <1>2, <1>4, <1>7, <1>10

LEMMA ReadsNone == ASSUME NEW b PROVE Reads(b, <<>>) = b
<1>1. PICK g : Trace(g, b, <<>>) /\ Reads(b, <<>>) = g[Len(<<>>)]
  BY ReadsTrace, EmptySeq
<1>2. Len(<<>>) = 0
  OBVIOUS
<1> QED BY <1>1, <1>2 DEF Trace

LEMMA ReadsOne ==
  ASSUME NEW b, NEW x
  PROVE  Reads(b, <<x>>) = ReadLine(b, x)
<1>0. <<x>> \in Seq({x}) /\ Len(<<x>>) = 1 /\ <<x>>[1] = x
  OBVIOUS
<1>1. PICK g : Trace(g, b, <<x>>) /\ Reads(b, <<x>>) = g[1]
  BY <1>0, ReadsTrace
<1> QED BY <1>0, <1>1 DEF Trace

----------------------------------------------------------------------------
(* Flattening.                                                             *)

Flattens(f, seqs, n) ==
  f = [i \in 1..n |-> IF i = 1 THEN seqs[i] ELSE f[i - 1] \o seqs[i]]

LEMMA PartialFlats ==
  ASSUME NEW seqs, NEW n \in Nat
  PROVE  \E f : Flattens(f, seqs, n)
<1> DEFINE Lacking == {m \in Nat : ~\E f : Flattens(f, seqs, m)}
<1>1. SUFFICES ASSUME Lacking # {} PROVE FALSE
  OBVIOUS
<1>2. PICK m \in Lacking : \A k \in Lacking : m <= k
  BY <1>1, LeastNumber
<1>3. CASE m = 0
  <2> DEFINE f == [i \in 1..0 |-> seqs[i]]
  <2>1. 1..0 = {}
    OBVIOUS
  <2>2. Flattens(f, seqs, 0)
    BY <2>1 DEF Flattens
  <2> QED BY <1>2, <1>3, <2>2
<1>4. CASE m # 0
  <2>1. m - 1 \in Nat /\ m - 1 \notin Lacking
    BY <1>2, <1>4
  <2>2. PICK f : Flattens(f, seqs, m - 1)
    BY <2>1
  <2> DEFINE h == [i \in 1..m |-> IF i = 1 THEN seqs[i] ELSE f[i - 1] \o seqs[i]]
  <2>3. ASSUME NEW i \in 1..m, i # 1 PROVE h[i - 1] = f[i - 1]
    <3>1. i - 1 \in 1..(m - 1) /\ i - 1 \in 1..m
      BY <1>2, <2>3
    <3> DEFINE j == i - 1
    <3>2. f[j] = IF j = 1 THEN seqs[j] ELSE f[j - 1] \o seqs[j]
      <4> HIDE DEF j
      <4> QED BY <2>2, <3>1 DEF Flattens, j
    <3>3. h[j] = IF j = 1 THEN seqs[j] ELSE f[j - 1] \o seqs[j]
      BY <3>1
    <3> QED BY <3>2, <3>3
  <2>4. ASSUME NEW i \in 1..m
        PROVE  h[i] = IF i = 1 THEN seqs[i] ELSE h[i - 1] \o seqs[i]
    <3>1. h[i] = IF i = 1 THEN seqs[i] ELSE f[i - 1] \o seqs[i]
      OBVIOUS
    <3> HIDE DEF h
    <3> QED BY <2>3, <3>1
  <2>5. h = [i \in 1..m |-> h[i]]
    OBVIOUS
  <2>6. Flattens(h, seqs, m)
    <3> HIDE DEF h
    <3> QED BY <2>4, <2>5 DEF Flattens
  <2> QED BY <1>2, <2>6
<1> QED BY <1>3, <1>4

LEMMA Flattened ==
  ASSUME NEW X, NEW seqs \in Seq(X), seqs # <<>>
  PROVE  \E f : Flattens(f, seqs, Len(seqs)) /\ FlattenSeq(seqs) = f[Len(seqs)]
<1>1. Len(seqs) \in Nat /\ Len(seqs) # 0
  BY EmptySeq
<1>2. \E f : Flattens(f, seqs, Len(seqs))
  BY <1>1, PartialFlats
<1> DEFINE f == CHOOSE f : Flattens(f, seqs, Len(seqs))
<1>3. Flattens(f, seqs, Len(seqs))
  BY <1>2
<1>4. FlattenSeq(seqs) = f[Len(seqs)]
  BY <1>1 DEF FlattenSeq, Flattens
<1> QED BY <1>3, <1>4

----------------------------------------------------------------------------
(* The sequences f[a], for the a of a set, one after the other.            *)
Strings(g, f, T) ==
  g = [s \in T |-> IF s = {} THEN <<>> ELSE f[One(s)] \o g[s \ {One(s)}]]

Strung(f, S) == (CHOOSE g : Strings(g, f, SUBSET S))[S]

LEMMA PartialStrings ==
  ASSUME NEW f, NEW S, IsFiniteSet(S), NEW n \in Nat
  PROVE  \E g : Strings(g, f, Small(S, n))
<1> DEFINE Lacking == {m \in Nat : ~\E g : Strings(g, f, Small(S, m))}
<1>1. SUFFICES ASSUME Lacking # {} PROVE FALSE
  OBVIOUS
<1>2. PICK m \in Lacking : \A k \in Lacking : m <= k
  BY <1>1, LeastNumber
<1>3. CASE m = 0
  <2> DEFINE g == [s \in Small(S, 0) |-> <<>>]
  <2>2. Strings(g, f, Small(S, 0))
    BY SmallIsEmpty DEF Strings
  <2> QED BY <1>2, <1>3, <2>2
<1>4. CASE m # 0
  <2>1. m - 1 \in Nat /\ m - 1 \notin Lacking
    BY <1>2, <1>4
  <2>2. PICK g : Strings(g, f, Small(S, m - 1))
    BY <2>1
  <2> DEFINE h == [s \in Small(S, m) |-> IF s = {} THEN <<>> ELSE f[One(s)] \o g[s \ {One(s)}]]
  <2>3. ASSUME NEW s \in Small(S, m), s # {}
        PROVE  h[s \ {One(s)}] = g[s \ {One(s)}]
    <3> DEFINE r == s \ {One(s)}
    <3>0. s \in SUBSET S /\ One(s) \in s /\ Cardinality(s) <= m
      BY <2>3 DEF Small, One
    <3>1. r \in Small(S, m - 1) /\ r \in Small(S, m)
      BY <1>2, <3>0, RestIsSmaller DEF Small
    <3> HIDE DEF r
    <3>2. g[r] = IF r = {} THEN <<>> ELSE f[One(r)] \o g[r \ {One(r)}]
      BY <2>2, <3>1 DEF Strings
    <3>3. h[r] = IF r = {} THEN <<>> ELSE f[One(r)] \o g[r \ {One(r)}]
      BY <3>1
    <3> QED BY <3>2, <3>3 DEF r
  <2>4. ASSUME NEW s \in Small(S, m)
        PROVE  h[s] = IF s = {} THEN <<>> ELSE f[One(s)] \o h[s \ {One(s)}]
    <3>1. h[s] = IF s = {} THEN <<>> ELSE f[One(s)] \o g[s \ {One(s)}]
      OBVIOUS
    <3> HIDE DEF h
    <3> QED BY <2>3, <3>1
  <2>5. h = [s \in Small(S, m) |-> h[s]]
    OBVIOUS
  <2>6. Strings(h, f, Small(S, m))
    <3> HIDE DEF h
    <3> QED BY <2>4, <2>5 DEF Strings
  <2> QED BY <1>2, <2>6
<1> QED BY <1>3, <1>4

LEMMA StrungExists ==
  ASSUME NEW f, NEW S, IsFiniteSet(S)
  PROVE  Strings(CHOOSE g : Strings(g, f, SUBSET S), f, SUBSET S)
<1>1. Cardinality(S) \in Nat /\ Small(S, Cardinality(S)) = SUBSET S
  BY SmallIsAll
<1>2. \E g : Strings(g, f, Small(S, Cardinality(S)))
  BY <1>1, PartialStrings
<1>3. \E g : Strings(g, f, SUBSET S)
  BY <1>1, <1>2
<1> QED BY <1>3

(* What is strung does not depend on the set it is a part of.              *)
LEMMA StringsAgree ==
  ASSUME NEW f, NEW S, NEW T, NEW g, NEW h, NEW s,
         IsFiniteSet(S), IsFiniteSet(T), Strings(g, f, SUBSET S), Strings(h, f, SUBSET T),
         s \in SUBSET S, s \in SUBSET T
  PROVE  g[s] = h[s]
<1> DEFINE Differ == {n \in Nat : \E r \in SUBSET S :
                                    r \in SUBSET T /\ Cardinality(r) = n /\ g[r] # h[r]}
<1>1. ASSUME Differ # {} PROVE FALSE
  <2>1. PICK m \in Differ : \A k \in Differ : m <= k
    BY <1>1, LeastNumber
  <2>2. PICK r \in SUBSET S : r \in SUBSET T /\ Cardinality(r) = m /\ g[r] # h[r]
    BY <2>1
  <2>3. CASE r = {}
    BY <2>2, <2>3 DEF Strings
  <2>4. CASE r # {}
    <3> DEFINE x == One(r)
               q == r \ {x}
    <3>1. x \in r
      BY <2>4 DEF One
    <3>2. /\ q \in SUBSET S /\ q \in SUBSET T
          /\ Cardinality(r) \in Nat \ {0} /\ Cardinality(q) = Cardinality(r) - 1
      BY <2>2, <3>1, RestIsSmaller
    <3>3. g[r] = f[x] \o g[q] /\ h[r] = f[x] \o h[q]
      BY <2>2, <2>4 DEF Strings
    <3> HIDE DEF x, q
    <3>4. g[q] # h[q]
      BY <2>2, <3>3
    <3>5. Cardinality(q) \in Differ
      BY <3>2, <3>4
    <3> QED BY <2>1, <2>2, <3>2, <3>5
  <2> QED BY <2>3, <2>4
<1>2. IsFiniteSet(s) /\ Cardinality(s) \in Nat
  BY FS_Subset, FS_CardinalityType
<1> QED BY <1>1, <1>2

LEMMA StrungNone == ASSUME NEW f PROVE Strung(f, {}) = <<>>
<1>1. Strings(CHOOSE g : Strings(g, f, SUBSET {}), f, SUBSET {})
  BY FS_EmptySet, StrungExists
<1> QED BY <1>1 DEF Strung, Strings

LEMMA StrungSome ==
  ASSUME NEW f, NEW S, IsFiniteSet(S), S # {}
  PROVE  /\ One(S) \in S
         /\ Strung(f, S) = f[One(S)] \o Strung(f, S \ {One(S)})
<1> DEFINE R == S \ {One(S)}
<1>1. One(S) \in S /\ R \in SUBSET S
  BY DEF One
<1>2. IsFiniteSet(R)
  BY <1>1, FS_Subset
<1> HIDE DEF R
<1>3. PICK g : Strings(g, f, SUBSET S) /\ Strung(f, S) = g[S]
  BY StrungExists DEF Strung
<1>4. PICK h : Strings(h, f, SUBSET R) /\ Strung(f, R) = h[R]
  BY <1>2, StrungExists DEF Strung
<1>5. g[R] = h[R]
  <2>1. R \in SUBSET S /\ R \in SUBSET R
    BY <1>1
  <2>2. IsFiniteSet(S) /\ IsFiniteSet(R) /\ Strings(g, f, SUBSET S) /\ Strings(h, f, SUBSET R)
    BY <1>2, <1>3, <1>4
  <2>3. \A s \in SUBSET S : s \in SUBSET R => g[s] = h[s]
    BY <2>2, StringsAgree
  <2> QED BY <2>1, <2>3
<1>6. g[S] = f[One(S)] \o g[R]
  BY <1>3 DEF Strings, R
<1> QED BY <1>1, <1>3, <1>4, <1>5, <1>6 DEF R

(* The affixes' part of a text.                                            *)
AffixText(S, form) ==
  FoldSet(LAMBDA affix, rest : AffixLines(affix, form) \o rest, <<>>, S)

LinesOf(form) == [a \in Pool |-> AffixLines(a, form)]

LEMMA AffixTextIsStrung ==
  ASSUME NEW S \in SUBSET Pool, IsFiniteSet(S), NEW form
  PROVE  AffixText(S, form) = Strung(LinesOf(form), S)
<1> DEFINE Writes(g) ==
             g = [s \in SUBSET S |->
                    IF s = {} THEN <<>> ELSE AffixLines(One(s), form) \o g[s \ {One(s)}]]
<1>1. AffixText(S, form) = (CHOOSE g : Writes(g))[S]
  BY DEF AffixText, FoldSet, MapThenFoldSet, One
<1>2. ASSUME NEW g PROVE Writes(g) <=> Strings(g, LinesOf(form), SUBSET S)
  <2>1. \A s \in SUBSET S : s # {} => LinesOf(form)[One(s)] = AffixLines(One(s), form)
    BY DEF LinesOf, One
  <2>2. [s \in SUBSET S |-> IF s = {} THEN <<>> ELSE AffixLines(One(s), form) \o g[s \ {One(s)}]]
        = [s \in SUBSET S |-> IF s = {} THEN <<>> ELSE LinesOf(form)[One(s)] \o g[s \ {One(s)}]]
    BY <2>1
  <2> QED BY <2>2, Zenon DEF Strings
<1> HIDE DEF Writes
<1>3. (CHOOSE g : Writes(g)) = (CHOOSE g : Strings(g, LinesOf(form), SUBSET S))
  BY <1>2, Zenon
<1> QED BY <1>1, <1>3 DEF Strung

----------------------------------------------------------------------------
(* What there is to read, and what the parser knows while it reads.        *)
Texts == (UNION {Range(a.lines) : a \in Pool})
           \cup (UNION {{b.extra[i].text : i \in DOMAIN b.extra} : b \in Bases})
Mod == [source : Source, kind : Kind \cup {"unknown"}, tier : Nat, text : Texts]
ModLines == [type : {"mod"}, source : Source, text : Texts]
Notes == [type : {"annotation"}, source : Source, kind : Kind \cup {"unknown"}, tier : Nat]
Lines == ModLines \cup Notes \cup {[type |-> "corrupted"]}

State(b) ==
  /\ b = [base |-> b.base, rarity |-> b.rarity, level |-> b.level, corrupted |-> b.corrupted,
          annotated |-> b.annotated, pending |-> b.pending, mods |-> b.mods]
  /\ b.mods \in Seq(Mod)

SameItem(b, c) ==
  c.base = b.base /\ c.rarity = b.rarity /\ c.level = b.level /\ c.corrupted = b.corrupted

(* Reading a text of which nothing is pending, in state b, made c.         *)
Reached(b, c, mods) ==
  /\ State(c) /\ SameItem(b, c) /\ c.pending = NoPending
  /\ c.mods = b.mods \o mods

LEMMA TextsSay == \A t \in Texts : t.says \in Kind \cup {"unknown"}
<1>1. TAKE t \in Texts
<1>2. CASE \E a \in Pool : t \in Range(a.lines)
  BY <1>2, PoolAssumption DEF Range
<1>3. CASE \E b \in Bases : t \in {b.extra[i].text : i \in DOMAIN b.extra}
  BY <1>3, BasesAssumption
<1>4. (\E a \in Pool : t \in Range(a.lines))
      \/ \E b \in Bases : t \in {b.extra[i].text : i \in DOMAIN b.extra}
  BY DEF Texts
<1> QED BY <1>2, <1>3, <1>4

LEMMA ReadsMod ==
  ASSUME NEW b, NEW line \in ModLines, State(b), b.pending \in Notes \cup {NoPending}
  PROVE  LET c == ReadLine(b, line)
             m == ModOf(line, b.pending, b.rarity = "Unique")
         IN  /\ State(c) /\ SameItem(b, c) /\ c.pending = NoPending
             /\ m \in Mod /\ c.mods = Append(b.mods, m)
<1> DEFINE c == ReadLine(b, line)
           m == ModOf(line, b.pending, b.rarity = "Unique")
<1>1. line.type = "mod" /\ line.source \in Source /\ line.text \in Texts
  BY DEF ModLines
<1>2. line.text.says \in Kind \cup {"unknown"}
  BY <1>1, TextsSay
<1>3. m \in Mod
  <2>1. CASE b.pending \in Notes
    BY <1>1, <2>1 DEF ModOf, Mod, Notes
  <2>2. CASE b.pending = NoPending
    BY <1>1, <1>2, <2>2 DEF ModOf, Mod, NoPending
  <2> QED BY <2>1, <2>2
<1> HIDE DEF m
<1>4. c = [b EXCEPT !.pending = NoPending, !.mods = Append(@, m)]
  BY <1>1 DEF ReadLine, ReadMod, m
<1>5. c = [base |-> b.base, rarity |-> b.rarity, level |-> b.level, corrupted |-> b.corrupted,
           annotated |-> b.annotated, pending |-> NoPending, mods |-> Append(b.mods, m)]
  BY <1>4 DEF State
<1>6. Append(b.mods, m) \in Seq(Mod)
  BY <1>3, AppendProperties DEF State
<1> HIDE DEF c
<1> QED BY <1>3, <1>5, <1>6 DEF State, SameItem, c, m

LEMMA ReadsNote ==
  ASSUME NEW b, NEW note \in Notes, State(b)
  PROVE  LET c == ReadLine(b, note)
         IN  State(c) /\ SameItem(b, c) /\ c.pending = note /\ c.mods = b.mods
<1> DEFINE c == ReadLine(b, note)
<1>1. note.type = "annotation"
  BY DEF Notes
<1>2. c = [b EXCEPT !.annotated = TRUE, !.pending = note]
  BY <1>1 DEF ReadLine
<1>3. c = [base |-> b.base, rarity |-> b.rarity, level |-> b.level, corrupted |-> b.corrupted,
           annotated |-> TRUE, pending |-> note, mods |-> b.mods]
  BY <1>2 DEF State
<1> HIDE DEF c
<1> QED BY <1>3 DEF State, SameItem, c

LEMMA ReadsCorrupted ==
  ASSUME NEW d, State(d)
  PROVE  LET c == ReadLine(d, [type |-> "corrupted"])
         IN  /\ c.base = d.base /\ c.rarity = d.rarity /\ c.level = d.level
             /\ c.corrupted = TRUE /\ c.mods = d.mods
<1> DEFINE c == ReadLine(d, [type |-> "corrupted"])
<1>1. c = [d EXCEPT !.corrupted = TRUE]
  BY DEF ReadLine
<1>2. c = [base |-> d.base, rarity |-> d.rarity, level |-> d.level, corrupted |-> TRUE,
           annotated |-> d.annotated, pending |-> d.pending, mods |-> d.mods]
  BY <1>1 DEF State
<1> HIDE DEF c
<1> QED BY <1>2 DEF c

(* Lines of modifiers: the first takes over what is pending.               *)
Made(s, pending, unique) ==
  [i \in 1..Len(s) |-> ModOf(s[i], IF i = 1 THEN pending ELSE NoPending, unique)]

LEMMA ReadsMods ==
  ASSUME NEW b, NEW s \in Seq(ModLines), Len(s) > 0, State(b), b.pending \in Notes \cup {NoPending}
  PROVE  /\ Reached(b, Reads(b, s), Made(s, b.pending, b.rarity = "Unique"))
         /\ Made(s, b.pending, b.rarity = "Unique") \in Seq(Mod)
<1> DEFINE n == Len(s)
           q == Len(b.mods)
           made == Made(s, b.pending, b.rarity = "Unique")
           waits(k) == IF k = 0 THEN b.pending ELSE NoPending
<1>1. /\ n \in Nat /\ n > 0 /\ q \in Nat
      /\ \A i \in 1..n : s[i] \in ModLines
      /\ \A i \in 1..n : made[i] = ModOf(s[i], waits(i - 1), b.rarity = "Unique")
  BY LenProperties, ElementOfSeq DEF State, Made
<1>2. PICK g : Trace(g, b, s) /\ Reads(b, s) = g[n]
  BY ReadsTrace
<1> DEFINE Fits(k) ==
             /\ State(g[k]) /\ SameItem(b, g[k]) /\ g[k].pending = waits(k)
             /\ Len(g[k].mods) = q + k
             /\ \A i \in 1..q : g[k].mods[i] = b.mods[i]
             /\ \A i \in 1..k : made[i] \in Mod /\ g[k].mods[q + i] = made[i]
           Lacking == {k \in 0..n : ~Fits(k)}
<1>3. ASSUME Lacking # {} PROVE FALSE
  <2>1. PICK m \in Lacking : \A k \in Lacking : m <= k
    <3>1. Lacking \in SUBSET Nat
      BY <1>1
    <3> HIDE DEF Lacking
    <3> QED BY <1>3, <3>1, LeastNumber
  <2>2. m \in 0..n /\ ~Fits(m)
    BY <2>1
  <2>3. CASE m = 0
    <3>1. g[0] = b
      BY <1>2 DEF Trace
    <3> QED BY <1>1, <2>2, <2>3, <3>1 DEF SameItem
  <2>4. CASE m # 0
    <3> DEFINE j == m - 1
    <3>1. j \in 0..n /\ m \in 1..n /\ m = j + 1 /\ j < m /\ j \in Nat
      BY <1>1, <2>2, <2>4
    <3>2. Fits(j)
      <4>1. j \notin Lacking
        <5> HIDE DEF Lacking
        <5> QED BY <1>1, <2>1, <2>2, <3>1
      <4> QED BY <3>1, <4>1
    <3>3. g[m] = ReadLine(g[j], s[m])
      BY <1>2, <3>1 DEF Trace
    <3>4. s[m] \in ModLines /\ made[m] = ModOf(s[m], waits(j), b.rarity = "Unique")
      BY <1>1, <3>1
    <3> HIDE DEF j, made
    <3>5. waits(j) \in Notes \cup {NoPending}
      OBVIOUS
    <3>13. made[m] = ModOf(s[m], g[j].pending, g[j].rarity = "Unique")
      BY <3>2, <3>4 DEF SameItem
    <3>6. /\ State(g[m]) /\ SameItem(g[j], g[m]) /\ g[m].pending = NoPending
          /\ made[m] \in Mod /\ g[m].mods = Append(g[j].mods, made[m])
      BY <3>2, <3>3, <3>4, <3>5, <3>13, ReadsMod
    <3>7. g[j].mods \in Seq(Mod) /\ Len(g[j].mods) = q + j
      BY <3>2 DEF State
    <3>8. /\ Len(g[m].mods) = q + m
          /\ \A i \in 1..(q + j) : g[m].mods[i] = g[j].mods[i]
          /\ g[m].mods[q + m] = made[m]
      <4>1. /\ Len(Append(g[j].mods, made[m])) = Len(g[j].mods) + 1
            /\ \A i \in 1..Len(g[j].mods) : Append(g[j].mods, made[m])[i] = g[j].mods[i]
            /\ Append(g[j].mods, made[m])[Len(g[j].mods) + 1] = made[m]
        BY <3>6, <3>7, AppendProperties
      <4>2. Len(g[j].mods) + 1 = q + m
        <5>1. q \in Nat /\ j \in Nat /\ m = j + 1 /\ Len(g[j].mods) = q + j
          BY <1>1, <3>1, <3>7
        <5> HIDE DEF q
        <5> QED BY <5>1
      <4> QED BY <3>6, <3>7, <4>1, <4>2
    <3>9. \A i \in 1..m : made[i] \in Mod /\ g[m].mods[q + i] = made[i]
      <4>1. TAKE i \in 1..m
      <4>2. CASE i = m
        BY <3>6, <3>8, <4>2
      <4>3. CASE i # m
        <5>1. i \in 1..j /\ q + i \in 1..(q + j)
          BY <1>1, <3>1, <4>3
        <5> QED BY <3>2, <3>8, <5>1
      <4> QED BY <4>2, <4>3
    <3>10. \A i \in 1..q : g[m].mods[i] = b.mods[i]
      BY <1>1, <3>1, <3>2, <3>8
    <3>11. SameItem(b, g[m])
      BY <3>2, <3>6 DEF SameItem
    <3>12. g[m].pending = waits(m)
      BY <2>4, <3>6
    <3> QED BY <2>2, <3>6, <3>8, <3>9, <3>10, <3>11, <3>12
  <2> QED BY <2>3, <2>4
<1>4. Fits(n)
  BY <1>1, <1>3
<1>5. made \in Seq(Mod) /\ Len(made) = n
  <2>1. made = [i \in 1..n |-> made[i]]
    BY DEF Made
  <2>2. \A i \in 1..n : made[i] \in Mod
    BY <1>4
  <2> HIDE DEF made, n
  <2>3. made \in [1..n -> Mod]
    BY <2>1, <2>2
  <2> QED BY <1>1, <2>3
<1>6. g[n].mods = b.mods \o made
  <2> HIDE DEF made, n
  <2>1. b.mods \in Seq(Mod) /\ g[n].mods \in Seq(Mod)
    BY <1>4 DEF State
  <2>2. /\ b.mods \o made \in Seq(Mod) /\ Len(b.mods \o made) = q + n
        /\ \A i \in 1..(q + n) : (b.mods \o made)[i] = IF i <= q THEN b.mods[i] ELSE made[i - q]
    BY <1>5, <2>1, ConcatProperties
  <2>3. \A i \in 1..(q + n) : g[n].mods[i] = (b.mods \o made)[i]
    <3>1. TAKE i \in 1..(q + n)
    <3>2. CASE i <= q
      BY <1>1, <1>4, <2>2, <3>2
    <3>3. CASE i > q
      <4>1. i - q \in 1..n /\ q + (i - q) = i
        BY <1>1, <3>3
      <4>2. g[n].mods[q + (i - q)] = made[i - q]
        BY <1>4, <4>1
      <4>3. (b.mods \o made)[i] = made[i - q]
        BY <1>1, <2>2, <3>3
      <4>4. g[n].mods[i] = made[i - q]
        BY <4>1, <4>2
      <4> QED BY <4>3, <4>4
    <3>4. i <= q \/ i > q
      <4>1. q \in Nat /\ i \in Int
        BY <1>1
      <4> HIDE DEF q
      <4> QED BY <4>1
    <3> QED BY <3>2, <3>3, <3>4
  <2> QED BY <1>4, <2>1, <2>2, <2>3, SeqEqual
<1>7. n # 0
  BY <1>1
<1> HIDE DEF made, n
<1> QED BY <1>2, <1>4, <1>5, <1>6, <1>7 DEF Reached, made

----------------------------------------------------------------------------
(* The modifiers read from the lines of a base and of an affix.            *)
TagIn(source, form) == IF form = "export" THEN ExportTag(source) ELSE source

NoteOf(a) ==
  IF a.source = "explicit" THEN Annotation("explicit", a.kind, a.tier)
  ELSE Annotation(a.source, "unknown", a.tier)

ExtraMod(x, form, unique) ==
  ModOf(ModLine(TagIn(x.source, form), x.text),
        IF form = "annotated" THEN Annotation(x.source, "unknown", 0) ELSE NoPending, unique)

TaggedLines(a, form) == [i \in 1..Len(a.lines) |-> ModLine(TagIn(a.source, form), a.lines[i])]

AffixMods(a, form, unique) ==
  IF form = "export" /\ a.source = "fractured" THEN <<>>
  ELSE Made(TaggedLines(a, form), IF form = "annotated" THEN NoteOf(a) ELSE NoPending, unique)

LEMMA ReachedNext ==
  ASSUME NEW b, NEW c, NEW d, NEW m \in Seq(Mod), NEW k \in Seq(Mod),
         State(b), Reached(b, c, m), Reached(c, d, k)
  PROVE  Reached(b, d, m \o k)
<1>1. (b.mods \o m) \o k = b.mods \o (m \o k)
  BY ConcatAssociative DEF State
<1> QED BY <1>1 DEF Reached, SameItem

LEMMA ReadsExtra ==
  ASSUME NEW b, State(b), b.pending = NoPending,
         NEW base \in Bases, NEW i \in DOMAIN base.extra, NEW form \in Forms
  PROVE  LET x == base.extra[i]
             m == ExtraMod(x, form, b.rarity = "Unique")
         IN  /\ ExtraLines(x, form) \in Seq(Lines) /\ m \in Mod
             /\ Reached(b, Reads(b, ExtraLines(x, form)), <<m>>)
<1> DEFINE x == base.extra[i]
           m == ExtraMod(x, form, b.rarity = "Unique")
           line == ModLine(TagIn(x.source, form), x.text)
           note == Annotation(x.source, "unknown", 0)
<1>1. x.source \in Source /\ x.text \in Texts
  BY BasesAssumption DEF Texts, Source
<1>2. line \in ModLines /\ note \in Notes
  BY <1>1 DEF ModLines, ModLine, Notes, Annotation, TagIn, ExportTag, Source
<1>3. CASE form = "annotated"
  <2>1. ExtraLines(x, form) = <<note, line>>
    BY <1>3 DEF ExtraLines, TagIn
  <2>2. m = ModOf(line, note, b.rarity = "Unique")
    BY <1>3 DEF ExtraMod
  <2> HIDE DEF x, line, note, m
  <2>3. <<note>> \in Seq(Lines) /\ <<line>> \in Seq(Lines) /\ <<note, line>> \in Seq(Lines)
        /\ <<note, line>> = <<note>> \o <<line>>
    BY <1>2 DEF Lines
  <2> DEFINE c == Reads(b, <<note>>)
             d == Reads(c, <<line>>)
  <2>4. State(c) /\ SameItem(b, c) /\ c.pending = note /\ c.mods = b.mods
    BY <1>2, ReadsOne, ReadsNote
  <2>5. c.pending \in Notes \cup {NoPending} /\ c.rarity = b.rarity
    BY <1>2, <2>4 DEF SameItem
  <2>6. /\ State(d) /\ SameItem(c, d) /\ d.pending = NoPending
        /\ m \in Mod /\ d.mods = Append(c.mods, m)
    <3> HIDE DEF c
    <3>1. d = ReadLine(c, line)
      BY ReadsOne
    <3> HIDE DEF d
    <3> QED BY <1>2, <2>2, <2>4, <2>5, <3>1, ReadsMod
  <2>7. Reads(b, ExtraLines(x, form)) = d
    <3>1. \A u, v \in Seq(Lines) : Reads(b, u \o v) = Reads(Reads(b, u), v)
      BY ReadsConcat
    <3>2. Reads(b, <<note>> \o <<line>>) = d
      BY <2>3, <3>1
    <3> QED BY <2>1, <2>3, <3>2
  <2>8. d.mods = b.mods \o <<m>>
    BY <2>4, <2>6, AppendIsConcat DEF State
  <2> HIDE DEF c, d
  <2> QED BY <2>1, <2>3, <2>4, <2>6, <2>7, <2>8 DEF Reached, SameItem, x, m
<1>4. CASE form # "annotated"
  <2>1. ExtraLines(x, form) = <<line>>
    BY <1>4 DEF ExtraLines, TagIn, Forms
  <2>2. m = ModOf(line, NoPending, b.rarity = "Unique")
    BY <1>4 DEF ExtraMod
  <2> HIDE DEF x, line, m
  <2>3. <<line>> \in Seq(Lines)
    BY <1>2 DEF Lines
  <2> DEFINE d == Reads(b, <<line>>)
  <2>4. /\ State(d) /\ SameItem(b, d) /\ d.pending = NoPending
        /\ m \in Mod /\ d.mods = Append(b.mods, m)
    <3>1. d = ReadLine(b, line)
      BY ReadsOne
    <3> HIDE DEF d
    <3> QED BY <1>2, <2>2, <3>1, ReadsMod
  <2>5. d.mods = b.mods \o <<m>>
    BY <2>4, AppendIsConcat DEF State
  <2> HIDE DEF d
  <2> QED BY <2>1, <2>3, <2>4, <2>5 DEF Reached, SameItem, x, m, d
<1> QED BY <1>3, <1>4

LEMMA ReadsAffix ==
  ASSUME NEW b, State(b), b.pending = NoPending, NEW a \in Pool, NEW form \in Forms
  PROVE  LET m == AffixMods(a, form, b.rarity = "Unique")
         IN  /\ AffixLines(a, form) \in Seq(Lines) /\ m \in Seq(Mod)
             /\ Reached(b, Reads(b, AffixLines(a, form)), m)
<1> DEFINE m == AffixMods(a, form, b.rarity = "Unique")
           s == TaggedLines(a, form)
           note == NoteOf(a)
           n == Len(a.lines)
<1>1. /\ n \in Nat /\ n > 0 /\ DOMAIN a.lines = 1..n
      /\ \A i \in 1..n : a.lines[i] \in Texts
      /\ a.source \in Source /\ a.kind \in Kind /\ a.tier \in Nat
  <2>1. a.lines \in Seq(Range(a.lines)) /\ Len(a.lines) > 0
        /\ a.source \in {"explicit", "crafted", "fractured"} /\ a.kind \in Kind /\ a.tier \in Nat
    BY PoolAssumption
  <2>2. n \in Nat /\ DOMAIN a.lines = 1..n
    BY <2>1, LenProperties
  <2>3. \A i \in 1..n : a.lines[i] \in Texts
    BY <2>2 DEF Texts, Range
  <2> QED BY <2>1, <2>2, <2>3 DEF Source
<1>2. note \in Notes
  BY <1>1 DEF NoteOf, Notes, Annotation
<1>3. s \in Seq(ModLines) /\ Len(s) = n
  <2>1. TagIn(a.source, form) \in Source
    BY <1>1 DEF TagIn, ExportTag, Source
  <2> HIDE DEF n
  <2>2. \A i \in 1..n : ModLine(TagIn(a.source, form), a.lines[i]) \in ModLines
    BY <1>1, <2>1 DEF ModLine, ModLines
  <2>3. s \in [1..n -> ModLines]
    BY <2>2 DEF TaggedLines, n
  <2> HIDE DEF s
  <2> QED BY <1>1, <2>3
<1>4. s \in Seq(Lines)
  <2>1. ModLines \subseteq Lines
    BY DEF Lines
  <2> HIDE DEF s
  <2> QED BY <1>3, <2>1, SeqMonotonic
<1>5. CASE form = "export" /\ a.source = "fractured"
  <2>1. AffixLines(a, form) = <<>> /\ m = <<>>
    BY <1>5 DEF AffixLines, AffixMods
  <2>2. Reads(b, <<>>) = b
    BY ReadsNone
  <2>3. b.mods \o <<>> = b.mods
    BY ConcatEmptySeq DEF State
  <2> HIDE DEF m
  <2> QED BY <2>1, <2>2, <2>3, EmptySeq DEF Reached, SameItem, m
<1>6. CASE form # "annotated" /\ ~(form = "export" /\ a.source = "fractured")
  <2>1. AffixLines(a, form) = s
    BY <1>1, <1>6 DEF AffixLines, Forms, TaggedLines, TagIn
  <2>2. m = Made(s, NoPending, b.rarity = "Unique")
    BY <1>6 DEF AffixMods
  <2> HIDE DEF m, s
  <2>3. Len(s) > 0
    BY <1>1, <1>3
  <2>4. Reached(b, Reads(b, s), m) /\ m \in Seq(Mod)
    BY <1>3, <2>2, <2>3, ReadsMods
  <2> QED BY <1>4, <2>1, <2>4 DEF m
<1>7. CASE form = "annotated"
  <2>1. AffixLines(a, form) = <<note>> \o s
    BY <1>1, <1>7 DEF AffixLines, TaggedLines, TagIn, NoteOf
  <2>2. m = Made(s, note, b.rarity = "Unique")
    BY <1>7 DEF AffixMods
  <2> HIDE DEF m, s, note
  <2>3. Len(s) > 0 /\ <<note>> \in Seq(Lines) /\ <<note>> \o s \in Seq(Lines)
    BY <1>1, <1>2, <1>3, <1>4, ConcatProperties DEF Lines
  <2> DEFINE c == Reads(b, <<note>>)
  <2>4. State(c) /\ SameItem(b, c) /\ c.pending = note /\ c.mods = b.mods
    BY <1>2, ReadsOne, ReadsNote
  <2> HIDE DEF c
  <2>5. Reached(c, Reads(c, s), m) /\ m \in Seq(Mod)
    <3>1. c.pending \in Notes \cup {NoPending} /\ c.rarity = b.rarity
      BY <1>2, <2>4 DEF SameItem
    <3>2. m = Made(s, c.pending, c.rarity = "Unique")
      BY <2>2, <2>4, <3>1
    <3> QED BY <1>3, <2>3, <2>4, <3>1, <3>2, ReadsMods
  <2>6. Reads(b, <<note>> \o s) = Reads(c, s)
    <3>1. \A u, v \in Seq(Lines) : Reads(b, u \o v) = Reads(Reads(b, u), v)
      BY ReadsConcat
    <3> QED BY <1>4, <2>3, <3>1 DEF c
  <2> QED BY <2>1, <2>3, <2>4, <2>5, <2>6 DEF Reached, SameItem, m
<1> QED BY <1>5, <1>6, <1>7

----------------------------------------------------------------------------
(* What the parser makes of the text of an item.                           *)
ExtraMods(base, form, unique) ==
  [i \in 1..Len(base.extra) |-> ExtraMod(base.extra[i], form, unique)]

ModsOf(form, unique) == [a \in Pool |-> AffixMods(a, form, unique)]

LEMMA ReadsAffixes ==
  ASSUME NEW S \in SUBSET Pool, NEW form \in Forms,
         NEW b, State(b), b.pending = NoPending
  PROVE  LET text == Strung(LinesOf(form), S)
             mods == Strung(ModsOf(form, b.rarity = "Unique"), S)
         IN  text \in Seq(Lines) /\ mods \in Seq(Mod) /\ Reached(b, Reads(b, text), mods)
<1> DEFINE text(T) == Strung(LinesOf(form), T)
           mods(T, c) == Strung(ModsOf(form, c.rarity = "Unique"), T)
           Fits(T, c) == /\ text(T) \in Seq(Lines) /\ mods(T, c) \in Seq(Mod)
                         /\ Reached(c, Reads(c, text(T)), mods(T, c))
           Good(T) == \A c : State(c) /\ c.pending = NoPending => Fits(T, c)
           Lacking == {n \in Nat : \E T \in SUBSET S : Cardinality(T) = n /\ ~Good(T)}
<1>0. IsFiniteSet(S)
  BY PoolAssumption, FS_Subset
<1>1. ASSUME Lacking # {} PROVE FALSE
  <2>1. PICK m \in Lacking : \A k \in Lacking : m <= k
    <3>1. Lacking \in SUBSET Nat
      OBVIOUS
    <3> HIDE DEF Lacking
    <3> QED BY <1>1, <3>1, LeastNumber
  <2>2. PICK T \in SUBSET S : Cardinality(T) = m /\ ~Good(T)
    BY <2>1
  <2>3. PICK c : State(c) /\ c.pending = NoPending /\ ~Fits(T, c)
    BY <2>2
  <2>4. CASE T = {}
    <3>1. text(T) = <<>> /\ mods(T, c) = <<>>
      BY <2>4, StrungNone
    <3>2. Reads(c, <<>>) = c /\ c.mods \o <<>> = c.mods
      BY <2>3, ReadsNone, ConcatEmptySeq DEF State
    <3> QED BY <2>3, <3>1, <3>2, EmptySeq DEF Reached, SameItem
  <2>5. CASE T # {}
    <3> DEFINE a == One(T)
               R == T \ {a}
               u == c.rarity = "Unique"
    <3>1. /\ a \in T /\ IsFiniteSet(T)
          /\ text(T) = LinesOf(form)[a] \o text(R)
          /\ mods(T, c) = ModsOf(form, u)[a] \o mods(R, c)
      <4>1. IsFiniteSet(T)
        BY <1>0, FS_Subset
      <4> QED BY <2>5, <4>1, StrungSome
    <3>2. a \in Pool
      BY <3>1
    <3>3. LinesOf(form)[a] = AffixLines(a, form) /\ ModsOf(form, u)[a] = AffixMods(a, form, u)
      BY <3>2 DEF LinesOf, ModsOf
    <3>4. R \in SUBSET S /\ Cardinality(T) \in Nat \ {0} /\ Cardinality(R) = Cardinality(T) - 1
      BY <1>0, <3>1, RestIsSmaller
    <3> HIDE DEF a, R
    <3>5. Good(R)
      <4>1. Cardinality(R) \in Nat /\ Cardinality(R) < m
        BY <2>2, <3>4
      <4>2. Cardinality(R) \notin Lacking
        <5> HIDE DEF Lacking
        <5> QED BY <2>1, <2>2, <3>4, <4>1
      <4> HIDE DEF Good
      <4> QED BY <3>4, <4>1, <4>2
    <3> DEFINE d == Reads(c, AffixLines(a, form))
    <3>6. /\ AffixLines(a, form) \in Seq(Lines) /\ AffixMods(a, form, u) \in Seq(Mod)
          /\ Reached(c, d, AffixMods(a, form, u))
      BY <2>3, <3>2, ReadsAffix
    <3>7. State(d) /\ d.pending = NoPending /\ d.rarity = c.rarity
      BY <3>6 DEF Reached, SameItem
    <3> HIDE DEF d
    <3>8. Fits(R, d)
      BY <3>5, <3>7
    <3>9. mods(R, d) = mods(R, c)
      BY <3>7
    <3> HIDE DEF text, mods
    <3>10. Reads(c, AffixLines(a, form) \o text(R)) = Reads(d, text(R))
      <4>1. \A v, w \in Seq(Lines) : Reads(c, v \o w) = Reads(Reads(c, v), w)
        BY ReadsConcat
      <4> QED BY <3>6, <3>8, <4>1 DEF d
    <3>11. text(T) \in Seq(Lines) /\ mods(T, c) \in Seq(Mod)
      BY <3>1, <3>3, <3>6, <3>8, <3>9, ConcatProperties
    <3>12. Reached(c, Reads(d, text(R)), AffixMods(a, form, u) \o mods(R, c))
      BY <2>3, <3>6, <3>8, <3>9, ReachedNext
    <3> QED BY <2>3, <3>1, <3>3, <3>10, <3>11, <3>12
  <2> QED BY <2>4, <2>5
<1>2. IsFiniteSet(S) /\ Cardinality(S) \in Nat
  BY <1>0, FS_CardinalityType
<1>3. Good(S)
  <2> HIDE DEF Good
  <2> QED BY <1>1, <1>2
<1> QED BY <1>3

LEMMA ReadsExtras ==
  ASSUME NEW base \in Bases, NEW form \in Forms, NEW b, State(b), b.pending = NoPending
  PROVE  LET text == FlattenSeq([i \in DOMAIN base.extra |-> ExtraLines(base.extra[i], form)])
             mods == ExtraMods(base, form, b.rarity = "Unique")
         IN  text \in Seq(Lines) /\ mods \in Seq(Mod) /\ Reached(b, Reads(b, text), mods)
<1> DEFINE n == Len(base.extra)
           lines == [i \in DOMAIN base.extra |-> ExtraLines(base.extra[i], form)]
           mod(i) == ExtraMod(base.extra[i], form, b.rarity = "Unique")
           mods(k) == [i \in 1..k |-> mod(i)]
<1>1. n \in Nat /\ DOMAIN base.extra = 1..n
  BY BasesAssumption, LenProperties
<1>2. \A i \in 1..n : ExtraLines(base.extra[i], form) \in Seq(Lines) /\ mod(i) \in Mod
  BY <1>1, ReadsExtra
<1>3. lines = [i \in 1..n |-> ExtraLines(base.extra[i], form)]
  BY <1>1
<1> HIDE DEF n, lines
<1>4. lines \in Seq(Seq(Lines)) /\ Len(lines) = n
  BY <1>1, <1>2, <1>3
<1>5. \A k \in 0..n : mods(k) \in Seq(Mod) /\ Len(mods(k)) = k
  <2>1. TAKE k \in 0..n
  <2>2. k \in Nat /\ \A i \in 1..k : mod(i) \in Mod
    BY <1>1, <1>2
  <2> HIDE DEF mod
  <2> QED BY <2>2
<1>6. CASE n = 0
  <2>1. lines = <<>>
    BY <1>4, <1>6, EmptySeq
  <2>2. FlattenSeq(lines) = <<>>
    BY <2>1 DEF FlattenSeq
  <2>3. mods(n) = <<>>
    BY <1>1, <1>5, <1>6, EmptySeq
  <2>4. Reads(b, <<>>) = b /\ b.mods \o <<>> = b.mods
    BY ReadsNone, ConcatEmptySeq DEF State
  <2>5. Reached(b, b, <<>>)
    BY <2>4 DEF Reached, SameItem
  <2> QED BY <2>2, <2>3, <2>4, <2>5, EmptySeq DEF ExtraMods, n, lines
<1>7. CASE n # 0
  <2>1. lines # <<>>
    BY <1>4, <1>7
  <2>2. PICK f : Flattens(f, lines, n) /\ FlattenSeq(lines) = f[n]
    BY <1>4, <2>1, Flattened
  <2> DEFINE Fits(k) == f[k] \in Seq(Lines) /\ Reached(b, Reads(b, f[k]), mods(k))
             Lacking == {k \in 1..n : ~Fits(k)}
  <2>3. ASSUME Lacking # {} PROVE FALSE
    <3>1. PICK m \in Lacking : \A k \in Lacking : m <= k
      <4>1. Lacking \in SUBSET Nat
        BY <1>1
      <4> HIDE DEF Lacking
      <4> QED BY <2>3, <4>1, LeastNumber
    <3>2. m \in 1..n /\ ~Fits(m)
      BY <3>1
    <3> DEFINE t == ExtraLines(base.extra[m], form)
    <3>3. /\ t \in Seq(Lines) /\ mod(m) \in Mod /\ lines[m] = t
          /\ f[m] = IF m = 1 THEN lines[m] ELSE f[m - 1] \o lines[m]
      BY <1>2, <1>3, <2>2, <3>2 DEF Flattens
    <3>4. \A c : State(c) /\ c.pending = NoPending /\ c.rarity = b.rarity
                   => Reached(c, Reads(c, t), <<mod(m)>>)
      BY <1>1, <3>2, ReadsExtra
    <3> HIDE DEF t
    <3>5. CASE m = 1
      <4>1. mods(1) = <<mod(1)>>
        <5> HIDE DEF mod
        <5> QED OBVIOUS
      <4> QED BY <3>2, <3>3, <3>4, <3>5, <4>1
    <3>6. CASE m # 1
      <4> DEFINE j == m - 1
      <4>1. j \in 1..n /\ j < m /\ m = j + 1 /\ j \in Nat
        BY <1>1, <3>2, <3>6
      <4>2. Fits(j)
        <5>1. j \notin Lacking
          <6> HIDE DEF Lacking
          <6> QED BY <1>1, <3>1, <3>2, <4>1
        <5> QED BY <4>1, <5>1
      <4> DEFINE c == Reads(b, f[j])
      <4>3. State(c) /\ c.pending = NoPending /\ c.rarity = b.rarity /\ Reached(b, c, mods(j))
        BY <4>2 DEF Reached, SameItem
      <4>4. Reads(b, f[j] \o t) = Reads(c, t) /\ f[j] \o t \in Seq(Lines)
        <5>1. \A v, w \in Seq(Lines) : Reads(b, v \o w) = Reads(Reads(b, v), w) /\ v \o w \in Seq(Lines)
          BY ReadsConcat, ConcatProperties
        <5> QED BY <3>3, <4>2, <5>1
      <4> HIDE DEF c
      <4>5. Reached(c, Reads(c, t), <<mod(m)>>)
        BY <3>4, <4>3
      <4>6. mods(j) \in Seq(Mod) /\ Len(mods(j)) = j /\ mods(m) \in Seq(Mod) /\ Len(mods(m)) = m
        BY <1>1, <1>5, <3>2, <4>1
      <4>7. mods(j) \o <<mod(m)>> = mods(m)
        <5>1. <<mod(m)>> \in Seq(Mod) /\ Len(<<mod(m)>>) = 1 /\ <<mod(m)>>[1] = mod(m)
          BY <3>3
        <5>2. \A i \in 1..j : mods(j)[i] = mod(i)
          OBVIOUS
        <5>3. \A i \in 1..m : mods(m)[i] = mod(i)
          OBVIOUS
        <5> HIDE DEF mods, mod, j
        <5>4. /\ mods(j) \o <<mod(m)>> \in Seq(Mod) /\ Len(mods(j) \o <<mod(m)>>) = m
              /\ \A i \in 1..m : (mods(j) \o <<mod(m)>>)[i] =
                   IF i <= j THEN mods(j)[i] ELSE <<mod(m)>>[i - j]
          BY <4>1, <4>6, <5>1, ConcatProperties
        <5>5. \A i \in 1..m : (mods(j) \o <<mod(m)>>)[i] = mods(m)[i]
          <6>1. TAKE i \in 1..m
          <6>2. CASE i <= j
            BY <4>1, <5>2, <5>3, <5>4, <6>2
          <6>3. CASE i = m
            BY <4>1, <5>1, <5>3, <5>4, <6>3
          <6>4. i <= j \/ i = m
            <7>1. j \in Nat /\ m = j + 1 /\ i \in 1..m
              BY <4>1
            <7> QED BY <7>1
          <6> QED BY <6>2, <6>3, <6>4
        <5> QED BY <4>6, <5>4, <5>5, SeqEqual
      <4>8. Reached(b, Reads(c, t), mods(j) \o <<mod(m)>>)
        <5>1. <<mod(m)>> \in Seq(Mod)
          BY <3>3
        <5> HIDE DEF mods
        <5> QED BY <4>3, <4>5, <4>6, <5>1, ReachedNext
      <4>9. f[m] = f[j] \o t
        BY <3>3, <3>6
      <4> HIDE DEF mods, j
      <4> QED BY <3>2, <4>4, <4>7, <4>8, <4>9
    <3> QED BY <3>5, <3>6
  <2>4. Fits(n)
    <3>1. n \in 1..n
      BY <1>1, <1>7
    <3> HIDE DEF Fits
    <3> QED BY <2>3, <3>1
  <2>5. mods(n) \in Seq(Mod)
    BY <1>1, <1>5
  <2> QED BY <2>2, <2>4, <2>5 DEF ExtraMods, n, lines
<1> QED BY <1>6, <1>7

(* The modifiers of the base's lines, then those of the affixes; the rest  *)
(* is read as it is written (Parse, parse.go:97-200).                      *)
AsWritten(it, p, form) ==
  /\ p.base = BaseRead(it.base, form)
  /\ p.rarity = it.rarity /\ p.level = it.level /\ p.corrupted = it.corrupted

LEMMA ParsedMods ==
  ASSUME NEW it \in GameItem, NEW form \in Forms
  PROVE  LET p == Parse(it, form)
             u == it.rarity = "Unique"
         IN  /\ AsWritten(it, p, form)
             /\ p.mods = ExtraMods(it.base, form, u) \o Strung(ModsOf(form, u), it.affixes)
             /\ ExtraMods(it.base, form, u) \in Seq(Mod)
             /\ Strung(ModsOf(form, u), it.affixes) \in Seq(Mod)
<1> DEFINE b == [base |-> BaseRead(it.base, form), rarity |-> it.rarity, level |-> it.level,
                 corrupted |-> FALSE, annotated |-> FALSE, pending |-> NoPending, mods |-> <<>>]
           extras == FlattenSeq([i \in DOMAIN it.base.extra |-> ExtraLines(it.base.extra[i], form)])
           affixes == Strung(LinesOf(form), it.affixes)
           rest == IF it.corrupted THEN <<[type |-> "corrupted"]>> ELSE <<>>
           c == Reads(b, extras)
           d == Reads(c, affixes)
           e == ExtraMods(it.base, form, it.rarity = "Unique")
           a == Strung(ModsOf(form, it.rarity = "Unique"), it.affixes)
<1>1. it.base \in Bases /\ it.affixes \in SUBSET Pool /\ it.corrupted \in BOOLEAN
  BY DEF GameItem
<1>2. IsFiniteSet(it.affixes)
  BY <1>1, PoolAssumption, FS_Subset
<1>3. State(b) /\ b.pending = NoPending /\ b.rarity = it.rarity /\ b.mods = <<>>
  BY EmptySeq DEF State
<1> HIDE DEF b
<1>4. extras \in Seq(Lines) /\ e \in Seq(Mod) /\ Reached(b, c, e)
  <2>1. e = ExtraMods(it.base, form, b.rarity = "Unique")
    BY <1>3
  <2> HIDE DEF e
  <2> QED BY <1>1, <1>3, <2>1, ReadsExtras
<1>5. State(c) /\ c.pending = NoPending /\ c.rarity = it.rarity
  BY <1>3, <1>4 DEF Reached, SameItem
<1>6. affixes \in Seq(Lines) /\ a \in Seq(Mod) /\ Reached(c, d, a)
  <2> HIDE DEF c
  <2> QED BY <1>1, <1>5, ReadsAffixes
<1>7. Parse(it, form) = Reads(b, (extras \o affixes) \o rest)
  <2>1. affixes = AffixText(it.affixes, form)
    BY <1>1, <1>2, AffixTextIsStrung
  <2>2. Text(it, form) = (extras \o AffixText(it.affixes, form)) \o rest
    BY DEF Text, AffixText
  <2>3. Parse(it, form) = Reads(b, Text(it, form))
    BY DEF Parse, Reads, b
  <2> HIDE DEF extras, affixes, rest
  <2> QED BY <2>1, <2>2, <2>3
<1>8. rest \in Seq(Lines)
  <2>1. [type |-> "corrupted"] \in Lines
    BY DEF Lines
  <2>2. <<[type |-> "corrupted"]>> \in Seq(Lines)
    BY <2>1
  <2> QED BY <2>2, EmptySeq
<1>9. Reads(b, (extras \o affixes) \o rest) = Reads(d, rest)
  <2>1. \A q : \A v, w \in Seq(Lines) :
          Reads(q, v \o w) = Reads(Reads(q, v), w) /\ v \o w \in Seq(Lines)
    BY ReadsConcat, ConcatProperties
  <2> DEFINE both == extras \o affixes
  <2>2. both \in Seq(Lines) /\ Reads(b, both) = d
    <3> HIDE DEF extras, affixes
    <3> QED BY <1>4, <1>6, <2>1
  <2> HIDE DEF both, rest, d
  <2>3. Reads(b, both \o rest) = Reads(Reads(b, both), rest)
    BY <1>8, <2>1, <2>2
  <2> QED BY <2>2, <2>3 DEF both
<1>10. /\ State(d) /\ d.base = BaseRead(it.base, form) /\ d.rarity = it.rarity /\ d.level = it.level
       /\ b.corrupted = FALSE /\ d.corrupted = b.corrupted
       /\ d.mods = e \o a
  <2>1. <<>> \o e = e
    BY <1>4, ConcatEmptySeq
  <2>2. /\ b.base = BaseRead(it.base, form) /\ b.rarity = it.rarity /\ b.level = it.level
        /\ b.corrupted = FALSE
    BY DEF b
  <2> HIDE DEF e, a, c, d
  <2> QED BY <1>3, <1>4, <1>6, <2>1, <2>2 DEF Reached, SameItem
<1> HIDE DEF extras, affixes, c, d, e, a
<1>13. ASSUME AsWritten(it, Parse(it, form), form), Parse(it, form).mods = e \o a
       PROVE  LET p == Parse(it, form)
                  u == it.rarity = "Unique"
              IN  /\ AsWritten(it, p, form)
                  /\ p.mods = ExtraMods(it.base, form, u) \o Strung(ModsOf(form, u), it.affixes)
                  /\ ExtraMods(it.base, form, u) \in Seq(Mod)
                  /\ Strung(ModsOf(form, u), it.affixes) \in Seq(Mod)
  BY <1>4, <1>6, <1>13 DEF e, a
<1>11. CASE it.corrupted
  <2>1. rest = <<[type |-> "corrupted"]>>
    BY <1>11
  <2>2. Reads(d, rest) = ReadLine(d, [type |-> "corrupted"])
    BY <2>1, ReadsOne
  <2>6. it.corrupted = TRUE
    BY <1>1, <1>11
  <2> DEFINE p == Parse(it, form)
  <2>7. p.base = d.base /\ p.rarity = d.rarity /\ p.level = d.level /\ p.corrupted = TRUE
        /\ p.mods = d.mods
    <3>1. p = ReadLine(d, [type |-> "corrupted"])
      BY <1>7, <1>9, <2>2
    <3> HIDE DEF p
    <3> QED BY <1>10, <3>1, ReadsCorrupted
  <2>8. AsWritten(it, p, form) /\ p.mods = e \o a
    <3> HIDE DEF p
    <3> QED BY <1>10, <2>6, <2>7 DEF AsWritten
  <2> QED BY <1>13, <2>8
<1>12. CASE ~it.corrupted
  <2>1. Reads(d, rest) = d
    BY <1>12, ReadsNone
  <2>2. it.corrupted = FALSE
    BY <1>1, <1>12
  <2>3. Parse(it, form) = d
    BY <1>7, <1>9, <2>1
  <2>4. AsWritten(it, d, form)
    BY <1>10, <2>2 DEF AsWritten
  <2> QED BY <1>10, <1>13, <2>3, <2>4
<1> QED BY <1>11, <1>12

----------------------------------------------------------------------------
(* How many modifiers of a sequence belong to a set.                       *)
Hits(s, M) == {i \in 1..Len(s) : s[i] \in M}
Tally(s, M) == Cardinality(Hits(s, M))

LEMMA TallyNat ==
  ASSUME NEW X, NEW s \in Seq(X), NEW M
  PROVE  IsFiniteSet(Hits(s, M)) /\ Tally(s, M) \in Nat
<1>1. Len(s) \in Nat
  BY LenProperties
<1>2. IsFiniteSet(1..Len(s))
  BY <1>1, FS_Interval
<1>3. IsFiniteSet(Hits(s, M))
  BY <1>2, FS_Subset DEF Hits
<1> QED BY <1>3, FS_CardinalityType DEF Tally

LEMMA TallyNone == ASSUME NEW M PROVE Tally(<<>>, M) = 0
<1>1. Hits(<<>>, M) = {}
  BY DEF Hits
<1> QED BY <1>1, FS_EmptySet DEF Tally

LEMMA TallyOne == ASSUME NEW m, NEW M PROVE Tally(<<m>>, M) = IF m \in M THEN 1 ELSE 0
<1>1. Len(<<m>>) = 1 /\ <<m>>[1] = m
  OBVIOUS
<1>2. Hits(<<m>>, M) = IF m \in M THEN {1} ELSE {}
  BY <1>1 DEF Hits
<1> QED BY <1>2, FS_EmptySet, FS_Singleton DEF Tally

LEMMA TallyConcat ==
  ASSUME NEW X, NEW s \in Seq(X), NEW t \in Seq(X), NEW M
  PROVE  Tally(s \o t, M) = Tally(s, M) + Tally(t, M)
<1> DEFINE n == Len(s)
           T == Hits(t, M)
           U == {n + i : i \in T}
           shift == [i \in T |-> n + i]
<1>1. /\ n \in Nat /\ Len(t) \in Nat /\ Len(s \o t) = n + Len(t)
      /\ \A i \in 1..n : (s \o t)[i] = s[i]
      /\ \A i \in 1..Len(t) : (s \o t)[n + i] = t[i]
  BY LenProperties, ConcatProperties
<1>2. IsFiniteSet(Hits(s, M)) /\ IsFiniteSet(T) /\ T \in SUBSET (1..Len(t))
  BY TallyNat DEF Hits
<1>3. Hits(s \o t, M) = Hits(s, M) \cup U
  <2>1. ASSUME NEW i \in Hits(s \o t, M) PROVE i \in Hits(s, M) \cup U
    <3>1. i \in 1..(n + Len(t)) /\ (s \o t)[i] \in M
      BY <1>1 DEF Hits
    <3>2. CASE i <= n
      <4>1. i \in 1..n
        BY <1>1, <3>1, <3>2
      <4> QED BY <1>1, <3>1, <4>1 DEF Hits
    <3>3. CASE i > n
      <4>1. i - n \in 1..Len(t) /\ n + (i - n) = i
        BY <1>1, <3>1, <3>3
      <4>2. i - n \in T
        BY <1>1, <3>1, <4>1 DEF Hits
      <4> QED BY <4>1, <4>2
    <3>4. i <= n \/ i > n
      BY <1>1, <3>1
    <3> QED BY <3>2, <3>3, <3>4
  <2>2. ASSUME NEW i \in Hits(s, M) PROVE i \in Hits(s \o t, M)
    BY <1>1 DEF Hits
  <2>3. ASSUME NEW i \in T PROVE n + i \in Hits(s \o t, M)
    <3>1. i \in 1..Len(t) /\ t[i] \in M
      BY DEF Hits
    <3>2. n + i \in 1..(n + Len(t))
      BY <1>1, <3>1
    <3> QED BY <1>1, <3>1, <3>2 DEF Hits
  <2> QED BY <2>1, <2>2, <2>3
<1>4. Hits(s, M) \cap U = {}
  BY <1>1, <1>2 DEF Hits
<1>5. IsFiniteSet(U) /\ Cardinality(U) = Cardinality(T)
  <2>1. shift \in Bijection(T, U)
    <3>1. shift \in [T -> U] /\ \A u \in U : \E i \in T : shift[i] = u
      OBVIOUS
    <3>2. \A i, j \in T : shift[i] = shift[j] => i = j
      BY <1>1, <1>2
    <3> HIDE DEF shift, U, T
    <3>3. shift \in Injection(T, U)
      BY <3>1, <3>2 DEF Injection, IsInjective
    <3>4. shift \in Surjection(T, U)
      BY <3>1 DEF Surjection
    <3> QED BY <3>3, <3>4 DEF Bijection
  <2>2. ExistsBijection(T, U)
    BY <2>1 DEF ExistsBijection
  <2> QED BY <1>2, <2>2, FS_Bijection
<1> HIDE DEF U, T
<1>6. Cardinality(Hits(s, M) \cup U) = Cardinality(Hits(s, M)) + Cardinality(U)
  <2>1. Cardinality(Hits(s, M) \cup U)
        = Cardinality(Hits(s, M)) + Cardinality(U) - Cardinality(Hits(s, M) \cap U)
    BY <1>2, <1>5, FS_Union
  <2>2. Cardinality(Hits(s, M)) \in Nat /\ Cardinality(U) \in Nat
    BY <1>2, <1>5, FS_CardinalityType
  <2>3. Cardinality(Hits(s, M) \cap U) = 0
    BY <1>4, FS_EmptySet
  <2> QED BY <2>1, <2>2, <2>3
<1> QED BY <1>3, <1>5, <1>6 DEF Tally, T

LEMMA StrungTyped ==
  ASSUME NEW X, NEW f, NEW S, IsFiniteSet(S), \A a \in S : f[a] \in Seq(X)
  PROVE  Strung(f, S) \in Seq(X)
<1> DEFINE Lacking == {n \in Nat : \E T \in SUBSET S : Cardinality(T) = n /\ Strung(f, T) \notin Seq(X)}
<1>1. ASSUME Lacking # {} PROVE FALSE
  <2>1. PICK m \in Lacking : \A k \in Lacking : m <= k
    <3>1. Lacking \in SUBSET Nat
      OBVIOUS
    <3> HIDE DEF Lacking
    <3> QED BY <1>1, <3>1, LeastNumber
  <2>2. PICK T \in SUBSET S : Cardinality(T) = m /\ Strung(f, T) \notin Seq(X)
    BY <2>1
  <2>3. CASE T = {}
    BY <2>2, <2>3, StrungNone, EmptySeq
  <2>4. CASE T # {}
    <3> DEFINE a == One(T)
               R == T \ {a}
    <3>1. IsFiniteSet(T)
      BY FS_Subset
    <3>2. a \in T /\ Strung(f, T) = f[a] \o Strung(f, R)
      BY <2>4, <3>1, StrungSome
    <3>3. R \in SUBSET S /\ Cardinality(T) \in Nat \ {0} /\ Cardinality(R) = Cardinality(T) - 1
      BY <3>2, RestIsSmaller
    <3> HIDE DEF a, R
    <3>4. Strung(f, R) \in Seq(X)
      BY <2>1, <2>2, <3>3
    <3> QED BY <2>2, <3>2, <3>4, ConcatProperties
  <2> QED BY <2>3, <2>4
<1>2. Cardinality(S) \in Nat
  BY FS_CardinalityType
<1> QED BY <1>1, <1>2

(* Any affix can be taken out of the count.                                *)
LEMMA TallyTakes ==
  ASSUME NEW M, NEW f, NEW S, NEW a \in S, IsFiniteSet(S), \A x \in S : f[x] \in Seq(Mod)
  PROVE  Tally(Strung(f, S), M) = Tally(f[a], M) + Tally(Strung(f, S \ {a}), M)
<1> DEFINE T(s) == Tally(Strung(f, s), M)
           t(x) == Tally(f[x], M)
           Takes(s) == \A x \in s : T(s) = t(x) + T(s \ {x})
           Lacking == {n \in Nat : \E s \in SUBSET S : Cardinality(s) = n /\ ~Takes(s)}
<1>0. \A x \in S : t(x) \in Nat
  BY TallyNat
<1>1. \A s \in SUBSET S : IsFiniteSet(s) /\ Strung(f, s) \in Seq(Mod) /\ T(s) \in Nat
  <2>1. TAKE s \in SUBSET S
  <2>2. IsFiniteSet(s)
    BY FS_Subset
  <2>3. Strung(f, s) \in Seq(Mod)
    BY <2>2, StrungTyped
  <2> QED BY <2>2, <2>3, TallyNat
<1>2. \A s \in SUBSET S : s # {} => One(s) \in s /\ T(s) = t(One(s)) + T(s \ {One(s)})
  <2>1. TAKE s \in SUBSET S
  <2>2. HAVE s # {}
  <2> DEFINE x == One(s)
             r == s \ {x}
  <2>3. x \in s /\ Strung(f, s) = f[x] \o Strung(f, r)
    BY <1>1, <2>2, StrungSome
  <2>4. r \in SUBSET S
    OBVIOUS
  <2> HIDE DEF x, r
  <2>5. Strung(f, r) \in Seq(Mod) /\ f[x] \in Seq(Mod)
    BY <1>1, <2>3, <2>4
  <2>6. Tally(f[x] \o Strung(f, r), M) = Tally(f[x], M) + Tally(Strung(f, r), M)
    BY <2>5, TallyConcat
  <2> QED BY <2>3, <2>6 DEF x, r
<1> HIDE DEF T, t
<1>3. ASSUME Lacking # {} PROVE FALSE
  <2>1. PICK m \in Lacking : \A k \in Lacking : m <= k
    <3>1. Lacking \in SUBSET Nat
      OBVIOUS
    <3> HIDE DEF Lacking
    <3> QED BY <1>3, <3>1, LeastNumber
  <2>2. PICK s \in SUBSET S : Cardinality(s) = m /\ ~Takes(s)
    BY <2>1
  <2>3. PICK x \in s : T(s) # t(x) + T(s \ {x})
    BY <2>2
  <2> DEFINE y == One(s)
  <2>4. y \in s /\ T(s) = t(y) + T(s \ {y}) /\ x # y
    BY <1>2, <2>3
  <2> HIDE DEF y
  <2>5. ASSUME NEW z \in s PROVE s \ {z} \in SUBSET S /\ Takes(s \ {z})
    <3>1. s \ {z} \in SUBSET S /\ Cardinality(s) \in Nat \ {0}
          /\ Cardinality(s \ {z}) = Cardinality(s) - 1
      BY RestIsSmaller
    <3>2. Cardinality(s \ {z}) \in Nat /\ Cardinality(s \ {z}) < m
      BY <2>2, <3>1
    <3>3. Cardinality(s \ {z}) \notin Lacking
      <4> HIDE DEF Lacking
      <4> QED BY <2>1, <2>2, <3>1, <3>2
    <3> HIDE DEF Takes
    <3> QED BY <3>1, <3>2, <3>3
  <2>6. T(s \ {y}) = t(x) + T((s \ {y}) \ {x})
    BY <2>4, <2>5
  <2>7. T(s \ {x}) = t(y) + T((s \ {x}) \ {y})
    BY <2>4, <2>5
  <2>8. (s \ {y}) \ {x} = (s \ {x}) \ {y}
    OBVIOUS
  <2>9. T((s \ {y}) \ {x}) \in Nat /\ t(x) \in Nat /\ t(y) \in Nat
    BY <1>0, <1>1, <2>4
  <2> DEFINE A == T((s \ {y}) \ {x})
             p == t(x)
             q == t(y)
  <2>10. A \in Nat /\ p \in Nat /\ q \in Nat /\ T(s \ {x}) = q + A /\ T(s) = q + (p + A)
    BY <2>4, <2>6, <2>7, <2>8, <2>9
  <2>11. T(s) # p + T(s \ {x})
    BY <2>3
  <2> HIDE DEF A, p, q
  <2> QED BY <2>10, <2>11
<1>4. Cardinality(S) \in Nat
  BY FS_CardinalityType
<1>5. Takes(S)
  <2> HIDE DEF Takes
  <2> QED BY <1>3, <1>4
<1> QED BY <1>5 DEF T, t

(* An affix that counts as one of its kind.                                *)
LEMMA TallyKind ==
  ASSUME NEW M, NEW kind, NEW f, NEW S, IsFiniteSet(S),
         \A a \in S : f[a] \in Seq(Mod) /\ Tally(f[a], M) = IF a.kind = kind THEN 1 ELSE 0
  PROVE  Tally(Strung(f, S), M) = Cardinality(Of(S, kind))
<1> DEFINE T(s) == Tally(Strung(f, s), M)
           Counts(s) == T(s) = Cardinality(Of(s, kind))
           Lacking == {n \in Nat : \E s \in SUBSET S : Cardinality(s) = n /\ ~Counts(s)}
<1>3. ASSUME Lacking # {} PROVE FALSE
  <2>1. PICK m \in Lacking : \A k \in Lacking : m <= k
    <3>1. Lacking \in SUBSET Nat
      OBVIOUS
    <3> HIDE DEF Lacking
    <3> QED BY <1>3, <3>1, LeastNumber
  <2>2. PICK s \in SUBSET S : Cardinality(s) = m /\ ~Counts(s)
    BY <2>1
  <2>3. CASE s = {}
    <3>1. Of(s, kind) = {}
      BY <2>3 DEF Of
    <3> QED BY <2>2, <2>3, <3>1, StrungNone, TallyNone, FS_EmptySet
  <2>4. CASE s # {}
    <3>1. PICK a \in s : TRUE
      BY <2>4
    <3> DEFINE r == s \ {a}
    <3>2. IsFiniteSet(s)
      BY FS_Subset
    <3>3. T(s) = Tally(f[a], M) + T(r)
      BY <3>2, TallyTakes
    <3>4. r \in SUBSET S /\ Cardinality(s) \in Nat \ {0} /\ Cardinality(r) = Cardinality(s) - 1
      BY RestIsSmaller
    <3>5. Counts(r)
      <4>1. Cardinality(r) \in Nat /\ Cardinality(r) < m
        BY <2>2, <3>4
      <4>2. Cardinality(r) \notin Lacking
        <5> HIDE DEF Lacking
        <5> QED BY <2>1, <2>2, <3>4, <4>1
      <4> HIDE DEF Counts
      <4> QED BY <3>4, <4>1, <4>2
    <3>6. IsFiniteSet(Of(s, kind)) /\ Cardinality(Of(s, kind)) \in Nat
      <4>1. Of(s, kind) \in SUBSET s
        BY DEF Of
      <4> QED BY <3>2, <4>1, FS_Subset, FS_CardinalityType
    <3>7. Of(r, kind) = Of(s, kind) \ {a}
      BY DEF Of
    <3>8. Cardinality(Of(r, kind)) = IF a \in Of(s, kind) THEN Cardinality(Of(s, kind)) - 1
                                     ELSE Cardinality(Of(s, kind))
      BY <3>6, <3>7, FS_RemoveElement
    <3>9. a \in Of(s, kind) <=> a.kind = kind
      BY DEF Of
    <3>10. Tally(f[a], M) = IF a.kind = kind THEN 1 ELSE 0
      OBVIOUS
    <3> HIDE DEF r, T
    <3>11. T(r) = Cardinality(Of(r, kind)) /\ T(s) # Cardinality(Of(s, kind))
      BY <2>2, <3>5
    <3>12. CASE a.kind = kind
      BY <3>3, <3>6, <3>8, <3>9, <3>10, <3>11, <3>12
    <3>13. CASE a.kind # kind
      BY <3>3, <3>6, <3>8, <3>9, <3>10, <3>11, <3>13
    <3> QED BY <3>12, <3>13
  <2> QED BY <2>3, <2>4
<1>4. Cardinality(S) \in Nat
  BY FS_CardinalityType
<1>5. Counts(S)
  <2> HIDE DEF Counts
  <2> QED BY <1>3, <1>4
<1> QED BY <1>5

----------------------------------------------------------------------------
(* The count of open slots.                                                *)
Counted(kind) == {m \in Mod : OccupiesAffix(m.source) /\ m.kind = kind}

LEMMA CountIsTally ==
  ASSUME NEW p, p.mods \in Seq(Mod), NEW kind
  PROVE  CountOf(p, kind) = Tally(p.mods, Counted(kind)) /\ CountOf(p, kind) \in Nat
<1>1. DOMAIN p.mods = 1..Len(p.mods) /\ \A i \in 1..Len(p.mods) : p.mods[i] \in Mod
  BY LenProperties, ElementOfSeq
<1>2. {i \in DOMAIN p.mods : OccupiesAffix(p.mods[i].source) /\ p.mods[i].kind = kind}
      = Hits(p.mods, Counted(kind))
  BY <1>1 DEF Hits, Counted
<1> QED BY <1>2, TallyNat DEF CountOf, Tally

LEMMA AffixModsTyped ==
  ASSUME NEW a \in Pool, NEW form \in Forms, NEW unique \in BOOLEAN
  PROVE  AffixMods(a, form, unique) \in Seq(Mod)
<1> DEFINE b == [base |-> 0, rarity |-> IF unique THEN "Unique" ELSE "Rare", level |-> 0,
                 corrupted |-> FALSE, annotated |-> FALSE, pending |-> NoPending, mods |-> <<>>]
<1>1. State(b) /\ b.pending = NoPending /\ (b.rarity = "Unique") = unique
  BY EmptySeq DEF State
<1> HIDE DEF b
<1>2. AffixMods(a, form, b.rarity = "Unique") \in Seq(Mod)
  BY <1>1, ReadsAffix
<1> QED BY <1>1, <1>2

(* The one modifier of a readable affix counts for its kind.               *)
LEMMA ReadableAffix ==
  ASSUME NEW form \in Forms, Readable(form), item.affixes \in SUBSET Pool,
         NEW a \in item.affixes, NEW kind \in Kind
  PROVE  Tally(AffixMods(a, form, FALSE), Counted(kind)) = IF a.kind = kind THEN 1 ELSE 0
<1> DEFINE s == TaggedLines(a, form)
           pending == IF form = "annotated" THEN NoteOf(a) ELSE NoPending
           m == ModOf(s[1], pending, FALSE)
<1>1. a \in Pool /\ Len(a.lines) = 1 /\ a.source \in {"explicit", "crafted", "fractured"}
  BY PoolAssumption DEF Readable
<1>2. IF form = "annotated" THEN a.source = "explicit" ELSE a.lines[1].says = a.kind
  BY DEF Readable
<1>3. ~(form = "export" /\ a.source = "fractured")
  BY DEF Readable, Exportable
<1>4. Len(s) = 1 /\ s[1] = ModLine(TagIn(a.source, form), a.lines[1])
  BY <1>1 DEF TaggedLines
<1>5. AffixMods(a, form, FALSE) = <<m>>
  <2>1. AffixMods(a, form, FALSE) = Made(s, pending, FALSE)
    BY <1>3 DEF AffixMods
  <2>2. Made(s, pending, FALSE) = [i \in 1..1 |-> ModOf(s[i], IF i = 1 THEN pending ELSE NoPending, FALSE)]
    <3> HIDE DEF s, pending
    <3> QED BY <1>4 DEF Made
  <2> HIDE DEF s, pending
  <2>3. [i \in 1..1 |-> ModOf(s[i], IF i = 1 THEN pending ELSE NoPending, FALSE)] = <<m>>
    <3>1. \A i \in 1..1 : ModOf(s[i], IF i = 1 THEN pending ELSE NoPending, FALSE) = m
      OBVIOUS
    <3> HIDE DEF m
    <3>2. [i \in 1..1 |-> ModOf(s[i], IF i = 1 THEN pending ELSE NoPending, FALSE)] = [i \in 1..1 |-> m]
      BY <3>1
    <3>3. [i \in 1..1 |-> m] = <<m>>
      OBVIOUS
    <3> QED BY <3>2, <3>3, Zenon
  <2> QED BY <2>1, <2>2, <2>3
<1>6. OccupiesAffix(m.source) /\ m.kind = a.kind
  <2>1. CASE form = "annotated"
    <3>1. pending = Annotation("explicit", a.kind, a.tier)
      BY <1>2, <2>1 DEF NoteOf
    <3>2. m.source = "explicit" /\ m.kind = a.kind
      BY <3>1 DEF ModOf, Annotation
    <3> QED BY <3>2 DEF OccupiesAffix
  <2>2. CASE form # "annotated"
    <3>1. pending.type = "none"
      BY <2>2 DEF NoPending
    <3>2. s[1].source \in {"explicit", "crafted", "fractured"} /\ s[1].text = a.lines[1]
      BY <1>1, <1>4 DEF ModLine, TagIn, ExportTag
    <3> HIDE DEF s, pending
    <3>3. m.source = s[1].source /\ m.kind = s[1].text.says
      BY <3>1, <3>2 DEF ModOf, OccupiesAffix
    <3> QED BY <1>2, <2>2, <3>2, <3>3 DEF OccupiesAffix
  <2> QED BY <2>1, <2>2
<1>7. m \in Mod
  <2>1. <<m>> \in Seq(Mod)
    BY <1>1, <1>5, AffixModsTyped
  <2> HIDE DEF m
  <2>2. Len(<<m>>) = 1 /\ <<m>>[1] = m
    OBVIOUS
  <2> QED BY <2>1, <2>2, ElementOfSeq
<1> HIDE DEF m
<1>8. m \in Counted(kind) <=> a.kind = kind
  BY <1>6, <1>7 DEF Counted
<1>9. Tally(<<m>>, Counted(kind)) = IF m \in Counted(kind) THEN 1 ELSE 0
  BY TallyOne
<1> QED BY <1>5, <1>8, <1>9

(* No line of a base does, in a text that is readable.                     *)
LEMMA ReadableExtras ==
  ASSUME NEW base \in Bases, NEW form \in Forms, NEW kind \in Kind,
         form = "export" => \A i \in DOMAIN base.extra :
           base.extra[i].source = "rune" \/ base.extra[i].text.says = "unknown",
         ExtraMods(base, form, FALSE) \in Seq(Mod)
  PROVE  Tally(ExtraMods(base, form, FALSE), Counted(kind)) = 0
<1> DEFINE n == Len(base.extra)
<1>1. n \in Nat /\ DOMAIN base.extra = 1..n
  BY BasesAssumption, LenProperties
<1>2. ASSUME NEW i \in 1..n PROVE ExtraMods(base, form, FALSE)[i] \notin Counted(kind)
  <2> DEFINE x == base.extra[i]
             m == ExtraMod(x, form, FALSE)
  <2>1. x.source \in {"implicit", "rune", "enchant"}
    BY <1>1, BasesAssumption
  <2>2. ExtraMods(base, form, FALSE)[i] = m
    BY DEF ExtraMods
  <2>3. CASE form = "annotated"
    <3>1. m.source = x.source
      BY <2>3 DEF ExtraMod, ModOf, Annotation
    <3> QED BY <2>1, <2>2, <3>1 DEF Counted, OccupiesAffix
  <2>4. CASE form = "plain"
    <3>1. m.source = x.source
      BY <2>4 DEF ExtraMod, ModOf, NoPending, ModLine, TagIn
    <3> QED BY <2>1, <2>2, <3>1 DEF Counted, OccupiesAffix
  <2>5. CASE form = "export" /\ x.source = "rune"
    <3>1. m.source = "rune"
      BY <2>5 DEF ExtraMod, ModOf, NoPending, ModLine, TagIn, ExportTag
    <3> QED BY <2>2, <3>1 DEF Counted, OccupiesAffix
  <2>6. CASE form = "export" /\ x.source # "rune"
    <3>1. x.text.says = "unknown"
      BY <1>1, <2>6
    <3>2. m.kind = "unknown"
      BY <2>6, <3>1 DEF ExtraMod, ModOf, NoPending, ModLine, TagIn
    <3> QED BY <2>2, <3>2 DEF Counted, Kind
  <2> QED BY <2>3, <2>4, <2>5, <2>6 DEF Forms
<1>3. Len(ExtraMods(base, form, FALSE)) = n
  BY <1>1 DEF ExtraMods
<1>4. Hits(ExtraMods(base, form, FALSE), Counted(kind)) = {}
  BY <1>2, <1>3 DEF Hits
<1> QED BY <1>4, FS_EmptySet DEF Tally

(* On a readable text the counts are those of the item in the game.        *)
LEMMA ReadableCounts ==
  ASSUME item \in GameItem, item.rarity # "Unique",
         NEW form \in Forms, Readable(form), NEW kind \in Kind
  PROVE  /\ CountOf(Read(form), kind) = Cardinality(Of(item.affixes, kind))
         /\ CountOf(Read(form), kind) \in Nat
<1> DEFINE p == Read(form)
           f == ModsOf(form, FALSE)
           e == ExtraMods(item.base, form, FALSE)
           t == Strung(f, item.affixes)
<1>1. item.base \in Bases /\ item.affixes \in SUBSET Pool /\ IsFiniteSet(item.affixes)
  BY PoolAssumption, FS_Subset DEF GameItem
<1>2. p.mods = e \o t /\ e \in Seq(Mod) /\ t \in Seq(Mod)
  <2>1. (item.rarity = "Unique") = FALSE
    OBVIOUS
  <2>2. p = Parse(item, form)
    BY DEF Read
  <2> HIDE DEF p
  <2> QED BY <2>1, <2>2, ParsedMods
<1>3. \A a \in item.affixes :
        f[a] \in Seq(Mod) /\ Tally(f[a], Counted(kind)) = IF a.kind = kind THEN 1 ELSE 0
  <2>1. TAKE a \in item.affixes
  <2>2. a \in Pool /\ f[a] = AffixMods(a, form, FALSE)
    BY <1>1 DEF ModsOf
  <2> HIDE DEF f
  <2> QED BY <1>1, <2>2, ReadableAffix, AffixModsTyped
<1> HIDE DEF f, e
<1>4. Tally(t, Counted(kind)) = Cardinality(Of(item.affixes, kind))
  BY <1>1, <1>3, TallyKind
<1>5. Tally(e, Counted(kind)) = 0
  <2>1. form = "export" => \A i \in DOMAIN item.base.extra :
          item.base.extra[i].source = "rune" \/ item.base.extra[i].text.says = "unknown"
    BY DEF Readable, Exportable
  <2> QED BY <1>1, <1>2, <2>1, ReadableExtras DEF e
<1> HIDE DEF p, t
<1>6. Tally(e \o t, Counted(kind)) = Tally(e, Counted(kind)) + Tally(t, Counted(kind))
  BY <1>2, TallyConcat
<1>7. e \o t \in Seq(Mod)
  BY <1>2, ConcatProperties
<1>8. CountOf(p, kind) = Tally(p.mods, Counted(kind)) /\ CountOf(p, kind) \in Nat
  BY <1>2, <1>7, CountIsTally
<1>9. Tally(t, Counted(kind)) \in Nat
  BY <1>2, TallyNat
<1> QED BY <1>2, <1>4, <1>5, <1>6, <1>8, <1>9 DEF p

LEMMA CountsTrue == item \in GameItem => CountsAreTrue
<1> SUFFICES ASSUME item \in GameItem, item.rarity = "Rare", NEW form \in Forms, Readable(form),
                    NEW kind \in Kind
             PROVE  Open(Read(form), kind) = FreeSlots(item, kind)
  BY DEF CountsAreTrue
<1> DEFINE p == Read(form)
           n == Cardinality(Of(item.affixes, kind))
<1>1. CountOf(p, kind) = n /\ n \in Nat
  BY ReadableCounts
<1>2. FreeSlots(item, kind) = 3 - n /\ 3 - n >= 0
  BY DEF FreeSlots, SlotsOf, GameItem
<1>3. p.rarity = "Rare"
  <2>1. AsWritten(item, Parse(item, form), form)
    BY ParsedMods
  <2> QED BY <2>1 DEF AsWritten, Read
<1> HIDE DEF p, n
<1> QED BY <1>1, <1>2, <1>3 DEF Open, p

----------------------------------------------------------------------------
(* The plans there are, and what the player finds at the step he is at: a  *)
(* plan is made for an item that was not corrupted; an annulment for one   *)
(* with three affixes of the kind, a slam for one with fewer.              *)
Plans ==
  {<<>>, <<"divine">>, <<"upgrade", "fill">>,
   <<"slam", "essence", "divine">>, <<"catalyse", "essence", "divine">>,
   <<"annul", "slam", "essence", "divine">>, <<"annul", "catalyse", "essence", "divine">>}

At(s) == step <= Len(plan.steps) /\ plan.steps[step] = s

PlanInv ==
  /\ item \in GameItem
  /\ step \in Nat \ {0} /\ plan.steps \in Plans
  /\ ~Over => ~item.corrupted
  /\ At("upgrade") => item.rarity \in {"Normal", "Magic"}
  /\ plan.readable =>
       /\ At("annul") =>
            plan.kind \in Kind /\ item.rarity = "Rare" /\ FreeSlots(item, plan.kind) = 0
       /\ At("slam") => plan.kind \in Kind /\ FreeSlots(item, plan.kind) > 0
       /\ At("catalyse") => \E kind \in Kind : FreeSlots(item, kind) > 0

LEMMA PlansShape ==
  ASSUME NEW s \in Plans
  PROVE  /\ Len(s) \in Nat
         /\ \A i \in 1..Len(s) :
              /\ s[i] \in {"annul", "slam", "catalyse", "essence", "divine", "upgrade", "fill"}
              /\ s[i] \in {"annul", "upgrade"} => i = 1
              /\ s[i] \in {"slam", "catalyse"} => i = 1 \/ (i = 2 /\ s[1] = "annul")
<1>1. CASE s = <<>>
  BY <1>1
<1>2. CASE s = <<"divine">>
  BY <1>2
<1>3. CASE s = <<"upgrade", "fill">>
  BY <1>3
<1>4. CASE s \in {<<"slam", "essence", "divine">>, <<"catalyse", "essence", "divine">>}
  <2>1. Len(s) = 3 /\ s[1] \in {"slam", "catalyse"} /\ s[2] = "essence" /\ s[3] = "divine"
    BY <1>4
  <2>2. 1..Len(s) = {1, 2, 3}
    BY <2>1
  <2> QED BY <2>1, <2>2
<1>5. CASE s \in {<<"annul", "slam", "essence", "divine">>, <<"annul", "catalyse", "essence", "divine">>}
  <2>1. /\ Len(s) = 4 /\ s[1] = "annul" /\ s[2] \in {"slam", "catalyse"}
        /\ s[3] = "essence" /\ s[4] = "divine"
    BY <1>5
  <2>2. 1..Len(s) = {1, 2, 3, 4}
    BY <2>1
  <2> QED BY <2>1, <2>2
<1> QED BY <1>1, <1>2, <1>3, <1>4, <1>5 DEF Plans

(* What one affix more, or fewer, does to the slots.                       *)
LEMMA OfCount ==
  ASSUME NEW S \in SUBSET Pool, NEW kind
  PROVE  IsFiniteSet(Of(S, kind)) /\ Cardinality(Of(S, kind)) \in Nat
<1>1. Of(S, kind) \in SUBSET Pool
  BY DEF Of
<1> QED BY <1>1, PoolAssumption, FS_Subset, FS_CardinalityType

LEMMA OfMore ==
  ASSUME NEW S \in SUBSET Pool, NEW a \in Pool \ S, NEW kind
  PROVE  Cardinality(Of(S \cup {a}, kind))
           = Cardinality(Of(S, kind)) + IF a.kind = kind THEN 1 ELSE 0
<1>1. IsFiniteSet(Of(S, kind)) /\ Cardinality(Of(S, kind)) \in Nat
  BY OfCount
<1>2. CASE a.kind = kind
  <2>1. Of(S \cup {a}, kind) = Of(S, kind) \cup {a} /\ a \notin Of(S, kind)
    BY <1>2 DEF Of
  <2> QED BY <1>1, <1>2, <2>1, FS_AddElement
<1>3. CASE a.kind # kind
  <2>1. Of(S \cup {a}, kind) = Of(S, kind)
    BY <1>3 DEF Of
  <2> QED BY <1>1, <1>3, <2>1
<1> QED BY <1>2, <1>3

LEMMA OfFewer ==
  ASSUME NEW S \in SUBSET Pool, NEW a \in S, NEW kind
  PROVE  Cardinality(Of(S \ {a}, kind))
           = Cardinality(Of(S, kind)) - IF a.kind = kind THEN 1 ELSE 0
<1>1. IsFiniteSet(Of(S, kind)) /\ Cardinality(Of(S, kind)) \in Nat
  BY OfCount
<1>2. CASE a.kind = kind
  <2>1. Of(S \ {a}, kind) = Of(S, kind) \ {a} /\ a \in Of(S, kind)
    BY <1>2 DEF Of
  <2>2. Cardinality(Of(S, kind) \ {a}) = Cardinality(Of(S, kind)) - 1
    BY <1>1, <2>1, FS_RemoveElement
  <2> QED BY <1>2, <2>1, <2>2
<1>3. CASE a.kind # kind
  <2>1. Of(S \ {a}, kind) = Of(S, kind)
    BY <1>3 DEF Of
  <2> QED BY <1>1, <1>3, <2>1
<1> QED BY <1>2, <1>3

(* The game may give an item these affixes.                                *)
LEMMA GameAllows ==
  ASSUME NEW it \in GameItem, NEW r \in {"Normal", "Magic", "Rare", "Unique"}, NEW c \in BOOLEAN,
         NEW S \in SUBSET Pool,
         \A kind \in Kind : SlotsOf(r) - Cardinality(Of(S, kind)) >= 0,
         \A a, b \in S : a.source = "fractured" /\ b.source = "fractured" => a = b
  PROVE  /\ [base |-> it.base, rarity |-> r, level |-> it.level, corrupted |-> c, affixes |-> S]
              \in GameItem
         /\ it = [base |-> it.base, rarity |-> it.rarity, level |-> it.level,
                  corrupted |-> it.corrupted, affixes |-> it.affixes]
BY DEF GameItem, FreeSlots

(* An explicit affix more, where a slot of its kind is free.               *)
LEMMA OneMoreAffix ==
  ASSUME NEW it \in GameItem, NEW a \in Pool \ it.affixes, a.source = "explicit",
         FreeSlots(it, a.kind) > 0
  PROVE  [it EXCEPT !.affixes = @ \cup {a}] \in GameItem
<1> DEFINE S == it.affixes \cup {a}
           n(kind) == Cardinality(Of(it.affixes, kind))
<1>1. /\ it.affixes \in SUBSET Pool /\ it.rarity \in {"Normal", "Magic", "Rare", "Unique"}
      /\ it.corrupted \in BOOLEAN /\ S \in SUBSET Pool
  BY DEF GameItem
<1>2. SlotsOf(it.rarity) \in Nat /\ a.kind \in Kind
  BY PoolAssumption DEF SlotsOf
<1>3. ASSUME NEW kind \in Kind PROVE SlotsOf(it.rarity) - Cardinality(Of(S, kind)) >= 0
  <2>1. n(kind) \in Nat
    BY <1>1, OfCount
  <2>2. Cardinality(Of(S, kind)) = n(kind) + IF a.kind = kind THEN 1 ELSE 0
    BY <1>1, OfMore
  <2>3. SlotsOf(it.rarity) - n(kind) >= 0
    BY DEF GameItem, FreeSlots
  <2>4. a.kind = kind => SlotsOf(it.rarity) - n(kind) > 0
    BY DEF FreeSlots
  <2> HIDE DEF n
  <2> QED BY <1>2, <2>1, <2>2, <2>3, <2>4
<1>4. \A b, c \in S : b.source = "fractured" /\ c.source = "fractured" => b = c
  BY DEF GameItem
<1> HIDE DEF S
<1>5. /\ [base |-> it.base, rarity |-> it.rarity, level |-> it.level, corrupted |-> it.corrupted,
          affixes |-> S] \in GameItem
      /\ it = [base |-> it.base, rarity |-> it.rarity, level |-> it.level,
               corrupted |-> it.corrupted, affixes |-> it.affixes]
  BY <1>1, <1>3, <1>4, GameAllows
<1>6. [it EXCEPT !.affixes = S]
      = [base |-> it.base, rarity |-> it.rarity, level |-> it.level, corrupted |-> it.corrupted,
         affixes |-> S]
  BY <1>5
<1> QED BY <1>5, <1>6 DEF S

LEMMA OneFewerAffix ==
  ASSUME NEW it \in GameItem, NEW a \in it.affixes
  PROVE  /\ [it EXCEPT !.affixes = @ \ {a}] \in GameItem
         /\ FreeSlots([it EXCEPT !.affixes = @ \ {a}], a.kind) = FreeSlots(it, a.kind) + 1
<1> DEFINE S == it.affixes \ {a}
           n(kind) == Cardinality(Of(it.affixes, kind))
<1>1. /\ it.affixes \in SUBSET Pool /\ it.rarity \in {"Normal", "Magic", "Rare", "Unique"}
      /\ it.corrupted \in BOOLEAN /\ S \in SUBSET Pool
  BY DEF GameItem
<1>2. SlotsOf(it.rarity) \in Nat
  BY DEF SlotsOf
<1>7. \A kind : n(kind) \in Nat /\ Cardinality(Of(S, kind)) = n(kind) - IF a.kind = kind THEN 1 ELSE 0
  BY <1>1, OfCount, OfFewer
<1>3. ASSUME NEW kind \in Kind PROVE SlotsOf(it.rarity) - Cardinality(Of(S, kind)) >= 0
  <2>3. SlotsOf(it.rarity) - n(kind) >= 0
    BY DEF GameItem, FreeSlots
  <2> HIDE DEF n, S
  <2> QED BY <1>2, <1>7, <2>3
<1>4. \A b, c \in S : b.source = "fractured" /\ c.source = "fractured" => b = c
  BY DEF GameItem
<1> HIDE DEF S
<1>5. /\ [base |-> it.base, rarity |-> it.rarity, level |-> it.level, corrupted |-> it.corrupted,
          affixes |-> S] \in GameItem
      /\ it = [base |-> it.base, rarity |-> it.rarity, level |-> it.level,
               corrupted |-> it.corrupted, affixes |-> it.affixes]
  BY <1>1, <1>3, <1>4, GameAllows
<1>6. [it EXCEPT !.affixes = S]
      = [base |-> it.base, rarity |-> it.rarity, level |-> it.level, corrupted |-> it.corrupted,
         affixes |-> S]
  BY <1>5
<1>8. FreeSlots([it EXCEPT !.affixes = S], a.kind) = SlotsOf(it.rarity) - Cardinality(Of(S, a.kind))
  BY <1>6 DEF FreeSlots
<1>9. SlotsOf(it.rarity) - Cardinality(Of(S, a.kind)) = (SlotsOf(it.rarity) - n(a.kind)) + 1
  <2> DEFINE k == n(a.kind)
  <2>1. k \in Nat /\ Cardinality(Of(S, a.kind)) = k - 1
    BY <1>7
  <2> HIDE DEF k
  <2>2. SlotsOf(it.rarity) - Cardinality(Of(S, a.kind)) = (SlotsOf(it.rarity) - k) + 1
    BY <1>2, <2>1
  <2> QED BY <2>2 DEF k
<1> QED BY <1>5, <1>6, <1>8, <1>9 DEF S, FreeSlots

LEMMA ItemUpgraded ==
  ASSUME NEW t, NEW S,
         t = [base |-> t.base, rarity |-> t.rarity, level |-> t.level, corrupted |-> t.corrupted,
              affixes |-> t.affixes]
  PROVE  [t EXCEPT !.rarity = "Rare", !.affixes = S]
         = [base |-> t.base, rarity |-> "Rare", level |-> t.level, corrupted |-> t.corrupted,
            affixes |-> S]
<1> DEFINE r == "Rare"
           d == [base |-> t.base, rarity |-> r, level |-> t.level, corrupted |-> t.corrupted,
                 affixes |-> t.affixes]
<1> HIDE DEF r
<1>1. [t EXCEPT !.rarity = r] = d
  OBVIOUS
<1>2. [d EXCEPT !.affixes = S]
      = [base |-> t.base, rarity |-> r, level |-> t.level, corrupted |-> t.corrupted,
         affixes |-> S]
  OBVIOUS
<1>3. [t EXCEPT !.rarity = r, !.affixes = S] = [d EXCEPT !.affixes = S]
  <2> HIDE DEF d
  <2> QED BY <1>1, Zenon
<1> QED BY <1>2, <1>3 DEF r

LEMMA UpgradedItem ==
  ASSUME NEW it \in GameItem, it.rarity \in {"Normal", "Magic"},
         NEW a \in Pool \ it.affixes, a.source = "explicit"
  PROVE  [it EXCEPT !.rarity = "Rare", !.affixes = @ \cup {a}] \in GameItem
<1> DEFINE S == it.affixes \cup {a}
<1>1. it.affixes \in SUBSET Pool /\ it.corrupted \in BOOLEAN /\ S \in SUBSET Pool
  BY DEF GameItem
<1>3. ASSUME NEW kind \in Kind PROVE SlotsOf("Rare") - Cardinality(Of(S, kind)) >= 0
  <2>1. Cardinality(Of(it.affixes, kind)) \in Nat
    BY <1>1, OfCount
  <2>2. Cardinality(Of(S, kind)) = Cardinality(Of(it.affixes, kind)) + IF a.kind = kind THEN 1 ELSE 0
    BY <1>1, OfMore
  <2>3. SlotsOf(it.rarity) - Cardinality(Of(it.affixes, kind)) >= 0
    BY DEF GameItem, FreeSlots
  <2>4. SlotsOf(it.rarity) \in {0, 1} /\ SlotsOf("Rare") = 3
    BY DEF SlotsOf
  <2> HIDE DEF S
  <2> QED BY <2>1, <2>2, <2>3, <2>4
<1>4. \A b, c \in S : b.source = "fractured" /\ c.source = "fractured" => b = c
  BY DEF GameItem
<1> HIDE DEF S
<1>5. /\ [base |-> it.base, rarity |-> "Rare", level |-> it.level, corrupted |-> it.corrupted,
          affixes |-> S] \in GameItem
      /\ it = [base |-> it.base, rarity |-> it.rarity, level |-> it.level,
               corrupted |-> it.corrupted, affixes |-> it.affixes]
  BY <1>1, <1>3, <1>4, GameAllows
<1>7. [it EXCEPT !.rarity = "Rare", !.affixes = S]
      = [base |-> it.base, rarity |-> "Rare", level |-> it.level, corrupted |-> it.corrupted,
         affixes |-> S]
  BY <1>5, ItemUpgraded
<1> QED BY <1>5, <1>7 DEF S

(* Short sequences.                                                        *)
LEMMA Catenated ==
  ASSUME NEW w, NEW x, NEW y, NEW z
  PROVE  /\ <<w>> \o <<x>> \o <<y, z>> = <<w, x, y, z>>
         /\ <<>> \o <<x>> \o <<y, z>> = <<x, y, z>>
<1> DEFINE X == {w, x, y, z}
<1>1. /\ <<w>> \in Seq(X) /\ <<x>> \in Seq(X) /\ <<w, x>> \in Seq(X)
      /\ <<y, z>> \in Seq(X) /\ <<x, y, z>> \in Seq(X) /\ <<w, x, y, z>> \in Seq(X)
  OBVIOUS
<1> HIDE DEF X
<1>2. <<w>> \o <<x>> = <<w, x>>
  <2>1. Len(<<w>>) = 1 /\ <<w>>[1] = w
    OBVIOUS
  <2>2. Len(<<x>>) = 1 /\ <<x>>[1] = x
    OBVIOUS
  <2>3. Len(<<w, x>>) = 2 /\ <<w, x>>[1] = w /\ <<w, x>>[2] = x
    OBVIOUS
  <2> DEFINE s == <<w>>
             t == <<x>>
             u == <<w, x>>
  <2>4. s \in Seq(X) /\ t \in Seq(X) /\ u \in Seq(X)
    BY <1>1
  <2> HIDE DEF s, t, u
  <2>5. /\ s \o t \in Seq(X) /\ Len(s \o t) = 2
        /\ \A i \in 1..2 : (s \o t)[i] = IF i <= 1 THEN s[i] ELSE t[i - 1]
    BY <2>1, <2>2, <2>4, ConcatProperties DEF s, t
  <2>6. \A i \in 1..2 : (s \o t)[i] = u[i]
    BY <2>1, <2>2, <2>3, <2>5 DEF s, t, u
  <2>7. Len(u) = 2
    BY <2>3 DEF u
  <2> QED BY <2>4, <2>5, <2>6, <2>7, SeqEqual DEF s, t, u
<1>3. <<w, x>> \o <<y, z>> = <<w, x, y, z>>
  <2>1. Len(<<w, x>>) = 2 /\ <<w, x>>[1] = w /\ <<w, x>>[2] = x
    OBVIOUS
  <2>2. Len(<<y, z>>) = 2 /\ <<y, z>>[1] = y /\ <<y, z>>[2] = z
    OBVIOUS
  <2>3. Len(<<w, x, y, z>>) = 4 /\ <<w, x, y, z>>[1] = w /\ <<w, x, y, z>>[2] = x /\ <<w, x, y, z>>[3] = y /\ <<w, x, y, z>>[4] = z
    OBVIOUS
  <2> DEFINE s == <<w, x>>
             t == <<y, z>>
             u == <<w, x, y, z>>
  <2>4. s \in Seq(X) /\ t \in Seq(X) /\ u \in Seq(X)
    BY <1>1
  <2> HIDE DEF s, t, u
  <2>5. /\ s \o t \in Seq(X) /\ Len(s \o t) = 4
        /\ \A i \in 1..4 : (s \o t)[i] = IF i <= 2 THEN s[i] ELSE t[i - 2]
    BY <2>1, <2>2, <2>4, ConcatProperties DEF s, t
  <2>6. \A i \in 1..4 : (s \o t)[i] = u[i]
    BY <2>1, <2>2, <2>3, <2>5 DEF s, t, u
  <2>7. Len(u) = 4
    BY <2>3 DEF u
  <2> QED BY <2>4, <2>5, <2>6, <2>7, SeqEqual DEF s, t, u
<1>5. <<x>> \o <<y, z>> = <<x, y, z>>
  <2>1. Len(<<x>>) = 1 /\ <<x>>[1] = x
    OBVIOUS
  <2>2. Len(<<y, z>>) = 2 /\ <<y, z>>[1] = y /\ <<y, z>>[2] = z
    OBVIOUS
  <2>3. Len(<<x, y, z>>) = 3 /\ <<x, y, z>>[1] = x /\ <<x, y, z>>[2] = y /\ <<x, y, z>>[3] = z
    OBVIOUS
  <2> DEFINE s == <<x>>
             t == <<y, z>>
             u == <<x, y, z>>
  <2>4. s \in Seq(X) /\ t \in Seq(X) /\ u \in Seq(X)
    BY <1>1
  <2> HIDE DEF s, t, u
  <2>5. /\ s \o t \in Seq(X) /\ Len(s \o t) = 3
        /\ \A i \in 1..3 : (s \o t)[i] = IF i <= 1 THEN s[i] ELSE t[i - 1]
    BY <2>1, <2>2, <2>4, ConcatProperties DEF s, t
  <2>6. \A i \in 1..3 : (s \o t)[i] = u[i]
    BY <2>1, <2>2, <2>3, <2>5 DEF s, t, u
  <2>7. Len(u) = 3
    BY <2>3 DEF u
  <2> QED BY <2>4, <2>5, <2>6, <2>7, SeqEqual DEF s, t, u
<1>4. <<>> \o <<x>> = <<x>>
  BY <1>1, ConcatEmptySeq
<1> QED BY <1>2, <1>3, <1>4, <1>5

(* A plan made for a readable text of the item tells the truth of it.      *)
LEMMA AdviceFits ==
  ASSUME item \in GameItem, NEW form \in Forms, NEW goal \in Goal
  PROVE  LET it == Read(form)
             s == StepsFor(it, goal)
             kind == TargetKind(it, goal)
         IN  /\ s \in Plans
             /\ s # <<>> => ~item.corrupted
             /\ s # <<>> /\ s[1] = "upgrade" => item.rarity \in {"Normal", "Magic"}
             /\ s # <<>> /\ s[1] \in {"annul", "slam", "catalyse"} =>
                  item.rarity = "Rare" /\ kind \in Kind
             /\ Readable(form) /\ s # <<>> /\ s[1] = "annul" => FreeSlots(item, kind) = 0
             /\ Readable(form) /\ s # <<>> /\ s[1] \in {"slam", "catalyse"} =>
                  FreeSlots(item, kind) > 0
<1> DEFINE it == Read(form)
           k == KindOf(goal)
           kind == TargetKind(it, goal)
           s == StepsFor(it, goal)
<1>1. it.rarity = item.rarity /\ it.corrupted = item.corrupted
  <2>1. AsWritten(item, Parse(item, form), form)
    BY ParsedMods
  <2> QED BY <2>1 DEF AsWritten, Read
<1>2. item.rarity \in {"Normal", "Magic", "Rare", "Unique"} /\ item.corrupted \in BOOLEAN
  BY DEF GameItem
<1> HIDE DEF it
<1>3. CASE item.corrupted
  <2>1. s = <<>>
    BY <1>1, <1>3 DEF StepsFor
  <2> QED BY <2>1 DEF Plans, it
<1>4. CASE ~item.corrupted /\ item.rarity = "Unique"
  <2>1. s = <<"divine">>
    BY <1>1, <1>4 DEF StepsFor
  <2>2. s[1] = "divine"
    BY <2>1
  <2> QED BY <1>4, <2>1, <2>2 DEF Plans, it
<1>5. CASE ~item.corrupted /\ item.rarity \in {"Normal", "Magic"}
  <2>1. s = <<"upgrade", "fill">>
    BY <1>1, <1>5 DEF StepsFor
  <2>2. s[1] = "upgrade"
    BY <2>1
  <2> QED BY <1>5, <2>1, <2>2 DEF Plans, it
<1>6. CASE ~item.corrupted /\ item.rarity = "Rare" /\ (goal.text = NoText \/ k = "unknown")
  <2>1. s = <<>>
    BY <1>1, <1>6 DEF StepsFor
  <2> QED BY <2>1 DEF Plans, it
<1>7. CASE ~item.corrupted /\ item.rarity = "Rare" /\ goal.text # NoText /\ k # "unknown"
  <2>1. kind = k
    BY <1>1, <1>7 DEF TargetKind
  <2>2. k \in Kind
    <3>1. CASE goal.kind # "auto"
      BY <3>1 DEF Goal, KindOf
    <3>2. CASE goal.kind = "auto"
      <4>1. PICK a \in Pool : goal.text = a.lines[1]
        BY <1>7 DEF Goal
      <4>2. a.lines \in Seq(Range(a.lines)) /\ Len(a.lines) > 0
        BY PoolAssumption
      <4>3. 1 \in DOMAIN a.lines
        BY <4>2, LenProperties
      <4>4. a.lines[1].says \in Kind \cup {"unknown"}
        BY <4>3, PoolAssumption
      <4> QED BY <1>7, <3>2, <4>1, <4>4 DEF KindOf
    <3> QED BY <3>1, <3>2
  <2>3. s = AnnulIfFull(it, k) \o Slam(it, goal) \o <<"essence", "divine">>
    BY <1>1, <1>7 DEF StepsFor
  <2>4. Slam(it, goal) \in {<<"slam">>, <<"catalyse">>}
    BY DEF Slam
  <2>5. Readable(form) => Open(it, k) = FreeSlots(item, k)
    BY <1>7, <2>2, CountsTrue DEF CountsAreTrue, it
  <2> HIDE DEF s, kind, k
  <2>6. CASE Open(it, k) = 0
    <3>1. AnnulIfFull(it, k) = <<"annul">>
      BY <2>6 DEF AnnulIfFull
    <3>2. s \in {<<"annul", "slam", "essence", "divine">>, <<"annul", "catalyse", "essence", "divine">>}
      <4>1. \A x \in {"slam", "catalyse"} :
              <<"annul">> \o <<x>> \o <<"essence", "divine">> = <<"annul", x, "essence", "divine">>
        BY Catenated
      <4> QED BY <2>3, <2>4, <3>1, <4>1
    <3>3. s # <<>> /\ s[1] = "annul" /\ s \in Plans
      BY <3>2 DEF Plans
    <3> QED BY <1>7, <2>1, <2>2, <2>5, <2>6, <3>3 DEF s, kind, it
  <2>7. CASE Open(it, k) # 0
    <3>1. AnnulIfFull(it, k) = <<>>
      BY <2>7 DEF AnnulIfFull
    <3>2. s \in {<<"slam", "essence", "divine">>, <<"catalyse", "essence", "divine">>}
      <4>1. \A x \in {"slam", "catalyse"} :
              <<>> \o <<x>> \o <<"essence", "divine">> = <<x, "essence", "divine">>
        BY Catenated
      <4> QED BY <2>3, <2>4, <3>1, <4>1
    <3>3. s # <<>> /\ s[1] \in {"slam", "catalyse"} /\ s \in Plans
      BY <3>2 DEF Plans
    <3>4. Readable(form) => FreeSlots(item, k) > 0
      <4>1. FreeSlots(item, k) >= 0
        BY <2>2 DEF GameItem
      <4>2. FreeSlots(item, k) \in Int
        <5>1. Cardinality(Of(item.affixes, k)) \in Nat
          BY OfCount DEF GameItem
        <5> QED BY <1>7, <5>1 DEF FreeSlots, SlotsOf
      <4> QED BY <2>5, <2>7, <4>1, <4>2
    <3> QED BY <1>7, <2>1, <2>2, <3>3, <3>4 DEF s, kind, it
  <2> QED BY <2>6, <2>7
<1> QED BY <1>2, <1>3, <1>4, <1>5, <1>6, <1>7

LEMMA PlanInit == Init => PlanInv
<1> SUFFICES ASSUME Init PROVE PlanInv
  OBVIOUS
<1>1. plan.steps = <<>> /\ Len(plan.steps) = 0 /\ step = 1 /\ item \in GameItem
  BY DEF Init, NoPlan
<1> QED BY <1>1 DEF PlanInv, Plans, At, Over

LEMMA PlanAsk == PlanInv /\ Ask => PlanInv'
<1> SUFFICES ASSUME PlanInv, Ask PROVE PlanInv'
  OBVIOUS
<1>1. PICK form \in Forms, goal \in Goal :
        plan' = [craftable |-> Advise(Read(form), goal).craftable,
                 kind |-> Advise(Read(form), goal).kind, steps |-> Advise(Read(form), goal).steps,
                 verdict |-> Verdict(Read(form)), readable |-> Readable(form)]
  BY DEF Ask
<1> DEFINE s == StepsFor(Read(form), goal)
           k == TargetKind(Read(form), goal)
<1>2. plan'.steps = s /\ plan'.kind = k /\ plan'.readable = Readable(form)
  BY <1>1 DEF Advise
<1>3. step' = 1 /\ item' = item /\ item \in GameItem
  BY DEF Ask, PlanInv
<1>4. /\ s \in Plans
      /\ s # <<>> => ~item.corrupted
      /\ s # <<>> /\ s[1] = "upgrade" => item.rarity \in {"Normal", "Magic"}
      /\ s # <<>> /\ s[1] \in {"annul", "slam", "catalyse"} => item.rarity = "Rare" /\ k \in Kind
      /\ Readable(form) /\ s # <<>> /\ s[1] = "annul" => FreeSlots(item, k) = 0
      /\ Readable(form) /\ s # <<>> /\ s[1] \in {"slam", "catalyse"} => FreeSlots(item, k) > 0
  BY <1>3, AdviceFits
<1> HIDE DEF s, k
<1>5. Len(s) \in Nat /\ (Len(s) >= 1 => s # <<>>)
  BY <1>4, PlansShape
<1>6. Over' \/ s # <<>>
  BY <1>2, <1>3, <1>5 DEF Over
<1>7. \A x : At(x)' => s # <<>> /\ s[1] = x
  BY <1>2, <1>3, <1>5 DEF At
<1>8. \A kind : FreeSlots(item, kind)' = FreeSlots(item, kind)
  BY <1>3 DEF FreeSlots
<1>9. (item \in GameItem /\ step \in Nat \ {0} /\ plan.steps \in Plans)'
  BY <1>2, <1>3, <1>4
<1>10. (~Over => ~item.corrupted)' /\ (At("upgrade") => item.rarity \in {"Normal", "Magic"})'
  BY <1>3, <1>4, <1>6, <1>7
<1>11. ASSUME plan'.readable, At("annul")'
       PROVE  plan'.kind \in Kind /\ item'.rarity = "Rare" /\ FreeSlots(item, plan.kind)' = 0
  BY <1>2, <1>3, <1>4, <1>7, <1>11
<1>12. ASSUME plan'.readable, At("slam")'
       PROVE  plan'.kind \in Kind /\ FreeSlots(item, plan.kind)' > 0
  BY <1>2, <1>3, <1>4, <1>7, <1>12
<1>13. ASSUME plan'.readable, At("catalyse")'
       PROVE  \E kind \in Kind : FreeSlots(item, kind)' > 0
  BY <1>2, <1>3, <1>4, <1>7, <1>8, <1>13
<1> QED BY <1>9, <1>10, <1>11, <1>12, <1>13 DEF PlanInv

LEMMA PlanCorrupt == PlanInv /\ Corrupt => PlanInv'
<1> SUFFICES ASSUME PlanInv, Corrupt PROVE PlanInv'
  OBVIOUS
<1>1. plan'.steps = <<>> /\ Len(plan'.steps) = 0 /\ step' = 1
  BY DEF Corrupt, NoPlan
<1>2. item' \in GameItem
  <2>1. item \in GameItem /\ item' = [item EXCEPT !.corrupted = TRUE]
    BY DEF Corrupt, PlanInv
  <2> QED BY <2>1 DEF GameItem, FreeSlots
<1> QED BY <1>1, <1>2 DEF PlanInv, Plans, At, Over

LEMMA PlanFollow == PlanInv /\ Follow => PlanInv'
<1> SUFFICES ASSUME PlanInv, Follow PROVE PlanInv'
  OBVIOUS
<1>1. /\ item \in GameItem /\ step \in Nat /\ step >= 1 /\ plan.steps \in Plans
      /\ step' = step + 1 /\ plan' = plan /\ ~Over /\ ~item.corrupted
  BY DEF Follow, PlanInv
<1> DEFINE s == plan.steps
           x == s[step]
<1>2. /\ Len(s) \in Nat
      /\ \A i \in 1..Len(s) :
           /\ s[i] \in {"annul", "slam", "catalyse", "essence", "divine", "upgrade", "fill"}
           /\ s[i] \in {"annul", "upgrade"} => i = 1
           /\ s[i] \in {"slam", "catalyse"} => i = 1 \/ (i = 2 /\ s[1] = "annul")
  BY <1>1, PlansShape
<1>3. step \in 1..Len(s) /\ At(x)
  BY <1>1, <1>2 DEF Over, At
<1>4. ~At("annul")' /\ ~At("upgrade")'
  BY <1>1, <1>2 DEF At
<1>5. At("slam")' \/ At("catalyse")' => x = "annul"
  BY <1>1, <1>2 DEF At
<1>6. x \in {"annul", "slam", "catalyse", "essence", "divine", "upgrade", "fill"}
  BY <1>2, <1>3
<1>7. /\ item' \in GameItem /\ item'.corrupted = item.corrupted
      /\ plan.readable /\ x = "annul" => plan.kind \in Kind /\ FreeSlots(item, plan.kind)' > 0
  <2>1. item.affixes \in SUBSET Pool
    BY <1>1 DEF GameItem
  <2>2. CASE x = "annul"
    <3>1. PICK a \in Removable(plan.kind) : item' = [item EXCEPT !.affixes = @ \ {a}]
      BY <2>2 DEF Follow, Annul
    <3>2. a \in item.affixes /\ a.kind = plan.kind
      BY DEF Removable, Of
    <3>3. item' \in GameItem /\ FreeSlots(item', a.kind) = FreeSlots(item, a.kind) + 1
      BY <1>1, <3>1, <3>2, OneFewerAffix
    <3>4. item'.corrupted = item.corrupted
      BY <3>1, <1>1 DEF GameItem
    <3>5. plan.readable => plan.kind \in Kind /\ FreeSlots(item, plan.kind) = 0
      BY <1>3, <2>2 DEF PlanInv
    <3>6. FreeSlots(item, plan.kind)' = FreeSlots(item', plan.kind)
      BY <1>1 DEF FreeSlots
    <3> QED BY <3>2, <3>3, <3>4, <3>5, <3>6
  <2>3. CASE x \in {"slam", "catalyse", "fill"}
    <3>1. PICK a \in Rolled : FreeSlots(item, a.kind) > 0 /\ item' = [item EXCEPT !.affixes = @ \cup {a}]
      BY <2>3 DEF Follow, Add, Addable
    <3>2. a \in Pool \ item.affixes /\ a.source = "explicit"
      BY DEF Rolled
    <3>3. item' \in GameItem
      BY <1>1, <3>1, <3>2, OneMoreAffix
    <3>4. item'.corrupted = item.corrupted
      BY <3>1, <1>1 DEF GameItem
    <3> QED BY <2>3, <3>3, <3>4
  <2>4. CASE x = "upgrade"
    <3>1. PICK a \in Rolled : item' = [item EXCEPT !.rarity = "Rare", !.affixes = @ \cup {a}]
      BY <2>4 DEF Follow, Upgrade
    <3>2. a \in Pool \ item.affixes /\ a.source = "explicit"
      BY DEF Rolled
    <3>3. item.rarity \in {"Normal", "Magic"}
      BY <1>3, <2>4 DEF PlanInv
    <3>4. item' \in GameItem
      BY <1>1, <3>1, <3>2, <3>3, UpgradedItem
    <3>5. item'.corrupted = item.corrupted
      BY <3>1, <1>1 DEF GameItem
    <3> QED BY <2>4, <3>4, <3>5
  <2>5. CASE x \in {"essence", "divine"}
    BY <1>1, <2>5 DEF Follow
  <2> QED BY <1>6, <2>2, <2>3, <2>4, <2>5
<1> HIDE DEF s, x
<1>8. (item \in GameItem /\ step \in Nat \ {0} /\ plan.steps \in Plans)' /\ (~Over => ~item.corrupted)'
  BY <1>1, <1>7
<1>9. plan'.readable /\ (At("slam")' \/ At("catalyse")')
        => plan.kind \in Kind /\ FreeSlots(item, plan.kind)' > 0
  BY <1>1, <1>5, <1>7
<1>10. plan'.readable /\ At("catalyse")' => \E kind \in Kind : FreeSlots(item, kind)' > 0
  <2>1. SUFFICES ASSUME plan'.readable, At("catalyse")'
                 PROVE  \E kind \in Kind : FreeSlots(item, kind)' > 0
    OBVIOUS
  <2>2. plan.kind \in Kind /\ FreeSlots(item, plan.kind)' > 0
    BY <1>9, <2>1
  <2>3. FreeSlots(item, plan.kind)' = FreeSlots(item', plan.kind)
    BY <1>1 DEF FreeSlots
  <2>4. \A kind : FreeSlots(item, kind)' = FreeSlots(item', kind)
    BY DEF FreeSlots
  <2> QED BY <2>2, <2>3, <2>4
<1> QED BY <1>1, <1>4, <1>8, <1>9, <1>10 DEF PlanInv

LEMMA PlanStep == PlanInv /\ [Next]_vars => PlanInv'
<1>1. PlanInv /\ UNCHANGED vars => PlanInv'
  BY DEF vars, PlanInv, At, Over, FreeSlots
<1> QED BY <1>1, PlanAsk, PlanFollow, PlanCorrupt DEF Next

(* Of three affixes of a kind one can be removed: one may be fractured.    *)
LEMMA OneIsRemovable ==
  ASSUME item \in GameItem, item.rarity = "Rare", NEW kind \in Kind, FreeSlots(item, kind) = 0
  PROVE  Removable(kind) # {}
<1> DEFINE S == Of(item.affixes, kind)
<1>1. S \in SUBSET item.affixes /\ Cardinality(S) \in Nat /\ IsFiniteSet(S)
  <2>1. item.affixes \in SUBSET Pool
    BY DEF GameItem
  <2> QED BY <2>1, OfCount DEF Of
<1>2. Cardinality(S) = 3
  BY <1>1 DEF FreeSlots, SlotsOf
<1>3. SUFFICES ASSUME \A a \in S : a.source = "fractured" PROVE FALSE
  BY DEF Removable
<1>4. \A a, b \in S : a = b
  BY <1>1, <1>3 DEF GameItem
<1> HIDE DEF S
<1>5. PICK a : S \subseteq {a}
  BY <1>4
<1>6. Cardinality(S) <= Cardinality({a}) /\ Cardinality({a}) = 1
  BY <1>5, FS_Singleton, FS_Subset
<1> QED BY <1>2, <1>6

LEMMA StepsFit == PlanInv => StepsPossible
<1> SUFFICES ASSUME PlanInv, plan.readable, ~Over
             PROVE  CASE plan.steps[step] = "annul" ->
                           FreeSlots(item, plan.kind) = 0 /\ Removable(plan.kind) # {}
                      [] plan.steps[step] = "slam" -> FreeSlots(item, plan.kind) > 0
                      [] plan.steps[step] = "catalyse" -> \E kind \in Kind : FreeSlots(item, kind) > 0
                      [] OTHER -> ~item.corrupted
  BY DEF StepsPossible
<1> DEFINE x == plan.steps[step]
<1>1. Len(plan.steps) \in Nat /\ step \in Nat /\ step >= 1 /\ item \in GameItem /\ ~item.corrupted
  BY PlansShape DEF PlanInv
<1>2. At(x)
  BY <1>1 DEF At, Over
<1>3. x = "annul" => FreeSlots(item, plan.kind) = 0 /\ Removable(plan.kind) # {}
  BY <1>1, <1>2, OneIsRemovable DEF PlanInv
<1>4. x = "slam" => FreeSlots(item, plan.kind) > 0
  BY <1>2 DEF PlanInv
<1>5. x = "catalyse" => \E kind \in Kind : FreeSlots(item, kind) > 0
  BY <1>2 DEF PlanInv
<1> HIDE DEF x
<1> QED BY <1>1, <1>3, <1>4, <1>5 DEF x

(* The open slots the advisor counts on a readable text are those of the   *)
(* item, for any affixes and bases (Parse and countAffixes,                *)
(* parse.go:106-230).                                                      *)
THEOREM CountsHold == Spec => []CountsAreTrue
<1>1. PlanInv => CountsAreTrue
  BY CountsTrue DEF PlanInv
<1> QED BY <1>1, PlanInit, PlanStep, PTL DEF Spec

(* Each step of a plan made for a readable text can be carried out when    *)
(* the player comes to it (Advise, advise.go:99-176).                      *)
THEOREM StepsHold == Spec => []StepsPossible
BY PlanInit, PlanStep, StepsFit, PTL DEF Spec

----------------------------------------------------------------------------
(* The text the program writes.                                            *)
LEMMA StrungAlike ==
  ASSUME NEW f, NEW g, NEW S, \A a \in S : f[a] = g[a]
  PROVE  Strung(f, S) = Strung(g, S)
<1>1. ASSUME NEW h PROVE Strings(h, f, SUBSET S) <=> Strings(h, g, SUBSET S)
  <2>1. \A s \in SUBSET S : s # {} => f[One(s)] = g[One(s)]
    BY DEF One
  <2>2. [s \in SUBSET S |-> IF s = {} THEN <<>> ELSE f[One(s)] \o h[s \ {One(s)}]]
        = [s \in SUBSET S |-> IF s = {} THEN <<>> ELSE g[One(s)] \o h[s \ {One(s)}]]
    BY <2>1
  <2> QED BY <2>2, Zenon DEF Strings
<1>2. (CHOOSE h : Strings(h, f, SUBSET S)) = (CHOOSE h : Strings(h, g, SUBSET S))
  BY <1>1, Zenon
<1> QED BY <1>2 DEF Strung

(* Its affixes are read as in the game's own text.                         *)
LEMMA ExportedAffixes ==
  ASSUME item \in GameItem, Exportable, NEW unique
  PROVE  Strung(ModsOf("export", unique), item.affixes) = Strung(ModsOf("plain", unique), item.affixes)
<1>1. ASSUME NEW a \in item.affixes
      PROVE  ModsOf("export", unique)[a] = ModsOf("plain", unique)[a]
  <2>1. a \in Pool
    BY DEF GameItem
  <2>2. a.source \in {"explicit", "crafted"}
    BY <2>1, PoolAssumption DEF Exportable
  <2>3. TagIn(a.source, "export") = TagIn(a.source, "plain")
    BY <2>2 DEF TagIn, ExportTag
  <2>4. TaggedLines(a, "export") = TaggedLines(a, "plain")
    BY <2>3 DEF TaggedLines
  <2>5. AffixMods(a, "export", unique) = AffixMods(a, "plain", unique)
    BY <2>2, <2>4 DEF AffixMods
  <2> QED BY <2>1, <2>5 DEF ModsOf
<1> QED BY <1>1, StrungAlike

LEMMA SameCounts ==
  ASSUME item \in GameItem, Exportable, item.rarity # "Unique", NEW kind \in Kind
  PROVE  CountOf(Read("export"), kind) = CountOf(Read("plain"), kind)
<1> DEFINE t == Strung(ModsOf("plain", FALSE), item.affixes)
<1>1. ASSUME NEW form \in {"export", "plain"}
      PROVE  CountOf(Read(form), kind) = Tally(t, Counted(kind))
  <2> DEFINE p == Read(form)
             e == ExtraMods(item.base, form, FALSE)
  <2>1. (item.rarity = "Unique") = FALSE /\ form \in Forms /\ item.base \in Bases
    BY DEF Forms, GameItem
  <2>2. Strung(ModsOf(form, FALSE), item.affixes) = t
    BY ExportedAffixes
  <2>3. p = Parse(item, form)
    BY DEF Read
  <2> HIDE DEF p, t
  <2>4. p.mods = e \o t /\ e \in Seq(Mod) /\ t \in Seq(Mod)
    <3> HIDE DEF e
    <3> QED BY <2>1, <2>2, <2>3, ParsedMods DEF e
  <2>5. Tally(e, Counted(kind)) = 0
    <3>1. form = "export" => \A i \in DOMAIN item.base.extra :
            item.base.extra[i].source = "rune" \/ item.base.extra[i].text.says = "unknown"
      BY DEF Exportable
    <3> QED BY <2>1, <2>4, <3>1, ReadableExtras
  <2> HIDE DEF e
  <2>6. Tally(e \o t, Counted(kind)) = Tally(e, Counted(kind)) + Tally(t, Counted(kind))
    BY <2>4, TallyConcat
  <2>7. e \o t \in Seq(Mod)
    BY <2>4, ConcatProperties
  <2>8. CountOf(p, kind) = Tally(p.mods, Counted(kind))
    BY <2>4, <2>7, CountIsTally
  <2>9. Tally(t, Counted(kind)) \in Nat
    BY <2>4, TallyNat
  <2> QED BY <2>4, <2>5, <2>6, <2>8, <2>9 DEF p
<1> QED BY <1>1

(* The rating looks at nothing but the modifiers, the weapon family and    *)
(* what stays the same.                                                    *)
LEMMA ScoreAlike ==
  ASSUME NEW p, NEW q, WeaponFamily(q) = WeaponFamily(p), q.rarity = p.rarity, q.level = p.level, q.mods = p.mods
  PROVE  Score(q) = Score(p)
<1>1. Affixes(q) = Affixes(p)
  BY Zenon DEF Affixes
<1>2. ASSUME NEW w PROVE Worth(q, w) = Worth(p, w)
  BY <1>1, Zenon DEF Worth
<1>8. /\ Worth(q, "desirable") = Worth(p, "desirable") /\ Worth(q, "filler") = Worth(p, "filler")
      /\ Worth(q, "neutral") = Worth(p, "neutral")
  BY <1>2
<1>3. HighTier(q) = HighTier(p)
  BY <1>8, Zenon DEF HighTier
<1>4. OpenSlots(q) = OpenSlots(p)
  <2>1. ASSUME NEW kind PROVE Open(q, kind) = Open(p, kind)
    <3>1. CountOf(q, kind) = CountOf(p, kind)
      BY Zenon DEF CountOf
    <3> QED BY <3>1, Zenon DEF Open
  <2>2. Open(q, "prefix") = Open(p, "prefix") /\ Open(q, "suffix") = Open(p, "suffix")
    BY <2>1
  <2> QED BY <2>2, Zenon DEF OpenSlots
<1>5. Blend(q) = Blend(p)
  <2>1. BaseScore(q) = BaseScore(p)
    BY Zenon DEF BaseScore
  <2>2. ModScore(q) = ModScore(p)
    BY <1>3, <1>8, Zenon DEF ModScore
  <2>3. Headroom(q) = Headroom(p)
    BY <1>4, <1>8, Zenon DEF Headroom
  <2> QED BY <2>1, <2>2, <2>3, Zenon DEF Blend
<1>6. Hopeless(q) = Hopeless(p)
  BY <1>4, <1>8, Zenon DEF Hopeless
<1>7. Foreign(q) = Foreign(p)
  BY Zenon DEF Foreign
<1> QED BY <1>5, <1>6, <1>7, Zenon DEF Score

LEMMA ExportIsRead == item \in GameItem => ExportReadsBack
<1> SUFFICES ASSUME item \in GameItem, Exportable
             PROVE  /\ \A kind \in Kind : Open(Read("export"), kind) = Open(Read("plain"), kind)
                    /\ (\A i \in DOMAIN item.base.extra : item.base.extra[i].source = "rune")
                       /\ ~ClassTells(item.base)
                         => Score(Read("export")) = Score(Read("plain"))
  BY DEF ExportReadsBack
<1> DEFINE u == item.rarity = "Unique"
           p == Read("plain")
           q == Read("export")
<1>1. /\ AsWritten(item, p, "plain") /\ AsWritten(item, q, "export")
      /\ p.mods = ExtraMods(item.base, "plain", u) \o Strung(ModsOf("plain", u), item.affixes)
      /\ q.mods = ExtraMods(item.base, "export", u) \o Strung(ModsOf("export", u), item.affixes)
  BY ParsedMods DEF Read, Forms
<1>2. ASSUME NEW kind \in Kind PROVE Open(q, kind) = Open(p, kind)
  <2>1. p.rarity = item.rarity /\ q.rarity = item.rarity
    BY <1>1 DEF AsWritten
  <2>2. CASE item.rarity = "Unique"
    <3> HIDE DEF p, q
    <3> QED BY <2>1, <2>2 DEF Open
  <2>3. CASE item.rarity # "Unique"
    <3>1. CountOf(q, kind) = CountOf(p, kind)
      BY <2>3, SameCounts
    <3> HIDE DEF p, q
    <3> QED BY <2>1, <3>1, Zenon DEF Open
  <2> QED BY <2>2, <2>3
<1>3. ASSUME \A i \in DOMAIN item.base.extra : item.base.extra[i].source = "rune",
             ~ClassTells(item.base)
      PROVE  Score(q) = Score(p)
  <2>1. DOMAIN item.base.extra = 1..Len(item.base.extra)
    BY BasesAssumption, LenProperties DEF GameItem
  <2>2. \A i \in 1..Len(item.base.extra) :
          ExtraMod(item.base.extra[i], "export", u) = ExtraMod(item.base.extra[i], "plain", u)
    BY <1>3, <2>1 DEF ExtraMod, TagIn, ExportTag
  <2>3. ExtraMods(item.base, "export", u) = ExtraMods(item.base, "plain", u)
    BY <2>2 DEF ExtraMods
  <2> HIDE DEF p, q, u
  <2>6. Strung(ModsOf("export", u), item.affixes) = Strung(ModsOf("plain", u), item.affixes)
    BY ExportedAffixes
  <2>4. q.mods = p.mods
    BY <1>1, <2>3, <2>6, Zenon
  <2>5. q.rarity = p.rarity /\ q.level = p.level
    BY <1>1 DEF AsWritten
  <2>7. WeaponFamily(q) = WeaponFamily(p)
    <3>1. p.base = item.base /\ q.base.name = item.base.name /\ q.base.class = {}
      BY <1>1 DEF AsWritten, BaseRead
    <3>2. FamilyOf({}) = "none"
      BY DEF FamilyOf
    <3> QED BY <1>3, <3>1, <3>2 DEF WeaponFamily, ClassTells
  <2> QED BY <2>4, <2>5, <2>7, ScoreAlike
<1> QED BY <1>2, <1>3

(* The text the program writes of an item has the open slots of the game's *)
(* own, and its rating if only rune lines stand among the affixes and the  *)
(* class, which is not written, adds nothing to the name (ItemText,        *)
(* build.go:101-143; Parse, parse.go:97-200).                              *)
THEOREM ExportHolds == Spec => []ExportReadsBack
<1>1. PlanInv => ExportReadsBack
  BY ExportIsRead DEF PlanInv
<1> QED BY <1>1, PlanInit, PlanStep, PTL DEF Spec

----------------------------------------------------------------------------
(* The rating as filler is removed.                                        *)
Valued(w) == {m \in Mod : OccupiesAffix(m.source) /\ m.text.worth = w}
HighValued == {m \in Valued("desirable") : m.tier \in {1, 2}}

LEMMA WorthIsTally ==
  ASSUME NEW p, p.mods \in Seq(Mod), NEW w
  PROVE  /\ Cardinality(Worth(p, w)) = Tally(p.mods, Valued(w))
         /\ Cardinality(HighTier(p)) = Tally(p.mods, HighValued)
<1>1. DOMAIN p.mods = 1..Len(p.mods) /\ \A i \in 1..Len(p.mods) : p.mods[i] \in Mod
  BY LenProperties, ElementOfSeq
<1>2. \A v : Worth(p, v) = Hits(p.mods, Valued(v))
  BY <1>1 DEF Worth, Affixes, Hits, Valued
<1>3. HighTier(p) = Hits(p.mods, HighValued)
  <2>1. Worth(p, "desirable") = Hits(p.mods, Valued("desirable"))
    BY <1>2
  <2> QED BY <2>1 DEF HighTier, Hits, HighValued
<1> QED BY <1>2, <1>3 DEF Tally

(* The modifiers of an affix carry its wording.                            *)
LEMMA ModsOfLines ==
  ASSUME NEW a \in Pool, NEW form \in Forms, NEW M,
         \A m \in M : \A i \in DOMAIN a.lines : m.text # a.lines[i]
  PROVE  Tally(AffixMods(a, form, FALSE), M) = 0
<1> DEFINE s == TaggedLines(a, form)
           note == IF form = "annotated" THEN NoteOf(a) ELSE NoPending
<1>1. Len(a.lines) \in Nat /\ DOMAIN a.lines = 1..Len(a.lines)
  BY PoolAssumption, LenProperties
<1>2. CASE form = "export" /\ a.source = "fractured"
  <2>1. AffixMods(a, form, FALSE) = <<>>
    BY <1>2 DEF AffixMods
  <2> QED BY <2>1, TallyNone
<1>3. CASE ~(form = "export" /\ a.source = "fractured")
  <2>1. AffixMods(a, form, FALSE) = Made(s, note, FALSE)
    BY <1>3 DEF AffixMods
  <2>2. Len(s) = Len(a.lines) /\ \A i \in 1..Len(a.lines) : s[i].text = a.lines[i]
    BY <1>1 DEF TaggedLines, ModLine
  <2> HIDE DEF s, note
  <2> DEFINE made == Made(s, note, FALSE)
  <2>3. Len(made) = Len(a.lines) /\ \A i \in 1..Len(a.lines) : made[i].text = a.lines[i]
    <3>1. \A i \in 1..Len(a.lines) :
            made[i] = ModOf(s[i], IF i = 1 THEN note ELSE NoPending, FALSE)
      BY <2>2 DEF Made
    <3>2. \A pending : \A i \in 1..Len(a.lines) : ModOf(s[i], pending, FALSE).text = a.lines[i]
      BY <2>2 DEF ModOf
    <3>3. Len(made) = Len(a.lines)
      BY <1>1, <2>2 DEF Made
    <3> HIDE DEF made
    <3>4. ASSUME NEW i \in 1..Len(a.lines) PROVE made[i].text = a.lines[i]
      <4> DEFINE pending == IF i = 1 THEN note ELSE NoPending
      <4>1. made[i] = ModOf(s[i], pending, FALSE)
        BY <3>1
      <4> HIDE DEF pending
      <4> QED BY <3>2, <4>1
    <3> QED BY <3>3, <3>4
  <2> HIDE DEF made
  <2>4. Hits(made, M) = {}
    BY <1>1, <2>3 DEF Hits
  <2> QED BY <2>1, <2>4, FS_EmptySet DEF Tally, made
<1> QED BY <1>2, <1>3

(* An item, and what it is with one affix fewer.                           *)
Without(it, a, less) ==
  /\ less.base = it.base /\ less.rarity = it.rarity /\ less.level = it.level
  /\ less.affixes = it.affixes \ {a}

LEMMA TakesFrom ==
  ASSUME NEW M, NEW f, NEW S, NEW a \in S, IsFiniteSet(S), \A x \in S : f[x] \in Seq(Mod)
  PROVE  \A e \in Seq(Mod) :
           LET p == e \o Strung(f, S)
               q == e \o Strung(f, S \ {a})
           IN  /\ p \in Seq(Mod) /\ q \in Seq(Mod)
               /\ Tally(p, M) \in Nat /\ Tally(q, M) \in Nat /\ Tally(f[a], M) \in Nat
               /\ Tally(p, M) = Tally(f[a], M) + Tally(q, M)
<1>1. Tally(Strung(f, S), M) = Tally(f[a], M) + Tally(Strung(f, S \ {a}), M)
  BY TallyTakes
<1>2. Strung(f, S) \in Seq(Mod) /\ Strung(f, S \ {a}) \in Seq(Mod)
  <2>1. IsFiniteSet(S \ {a})
    BY FS_Subset
  <2> QED BY <2>1, StrungTyped
<1>3. TAKE e \in Seq(Mod)
<1> DEFINE t == Strung(f, S)
           r == Strung(f, S \ {a})
           x == Tally(e, M)
           y == Tally(f[a], M)
           z == Tally(r, M)
<1>4. t \in Seq(Mod) /\ r \in Seq(Mod) /\ Tally(t, M) = y + z
  BY <1>1, <1>2
<1> HIDE DEF t, r
<1>5. Tally(e \o t, M) = x + Tally(t, M) /\ Tally(e \o r, M) = x + z
  BY <1>4, TallyConcat
<1>6. e \o t \in Seq(Mod) /\ e \o r \in Seq(Mod)
  BY <1>4, ConcatProperties
<1>7. x \in Nat /\ y \in Nat /\ z \in Nat
  BY <1>4, TallyNat
<1>8. Tally(e \o t, M) = x + (y + z)
  BY <1>4, <1>5
<1> HIDE DEF x, y, z
<1>9. x + (y + z) = y + (x + z) /\ x + (y + z) \in Nat /\ x + z \in Nat
  BY <1>7
<1> QED BY <1>5, <1>6, <1>7, <1>8, <1>9 DEF t, r, y

LEMMA TakenOut ==
  ASSUME NEW it \in GameItem, NEW less \in GameItem, NEW a \in it.affixes, NEW form \in Forms,
         Without(it, a, less), it.rarity = "Rare"
  PROVE  LET p == Parse(it, form)
             q == Parse(less, form)
         IN  \A M : /\ p.mods \in Seq(Mod) /\ q.mods \in Seq(Mod)
                    /\ Tally(p.mods, M) \in Nat /\ Tally(q.mods, M) \in Nat
                    /\ Tally(AffixMods(a, form, FALSE), M) \in Nat
                    /\ Tally(p.mods, M) = Tally(AffixMods(a, form, FALSE), M) + Tally(q.mods, M)
<1> DEFINE p == Parse(it, form)
           q == Parse(less, form)
<1>1. (it.rarity = "Unique") = FALSE /\ (less.rarity = "Unique") = FALSE
  BY DEF Without
<1>2. less.base = it.base /\ less.affixes = it.affixes \ {a}
  BY DEF Without
<1>3. PICK e, f : e = ExtraMods(it.base, form, FALSE) /\ f = ModsOf(form, FALSE)
  OBVIOUS
<1>4. p.mods = e \o Strung(f, it.affixes) /\ e \in Seq(Mod)
  BY <1>1, <1>3, ParsedMods
<1>5. q.mods = e \o Strung(f, it.affixes \ {a})
  BY <1>1, <1>2, <1>3, ParsedMods
<1>6. it.affixes \in SUBSET Pool /\ IsFiniteSet(it.affixes)
  BY PoolAssumption, FS_Subset DEF GameItem
<1>7. f[a] = AffixMods(a, form, FALSE) /\ \A b \in it.affixes : f[b] \in Seq(Mod)
  <2>1. \A b \in Pool : f[b] = AffixMods(b, form, FALSE)
    BY <1>3 DEF ModsOf
  <2> QED BY <1>6, <2>1, AffixModsTyped
<1>8. PICK S : S = it.affixes
  OBVIOUS
<1>9. a \in S /\ IsFiniteSet(S) /\ \A b \in S : f[b] \in Seq(Mod)
  BY <1>6, <1>7, <1>8
<1> HIDE DEF p, q
<1>10. ASSUME NEW M
       PROVE  /\ p.mods \in Seq(Mod) /\ q.mods \in Seq(Mod)
              /\ Tally(p.mods, M) \in Nat /\ Tally(q.mods, M) \in Nat /\ Tally(f[a], M) \in Nat
              /\ Tally(p.mods, M) = Tally(f[a], M) + Tally(q.mods, M)
  <2>1. p.mods = e \o Strung(f, S) /\ q.mods = e \o Strung(f, S \ {a})
    BY <1>4, <1>5, <1>8
  <2>2. \A c \in Seq(Mod) :
          /\ c \o Strung(f, S) \in Seq(Mod) /\ c \o Strung(f, S \ {a}) \in Seq(Mod)
          /\ Tally(c \o Strung(f, S), M) \in Nat /\ Tally(c \o Strung(f, S \ {a}), M) \in Nat
          /\ Tally(f[a], M) \in Nat
          /\ Tally(c \o Strung(f, S), M) = Tally(f[a], M) + Tally(c \o Strung(f, S \ {a}), M)
    BY <1>9, TakesFrom
  <2> QED BY <1>4, <2>1, <2>2
<1> QED BY <1>7, <1>10 DEF p, q

(* What the rating is made of, as an affix worded as filler goes.          *)
LEMMA FillerGone ==
  ASSUME NEW it \in GameItem, NEW less \in GameItem, NEW a \in it.affixes, NEW form \in Forms,
         Without(it, a, less), it.rarity = "Rare", \A i \in DOMAIN a.lines : a.lines[i].worth = "filler"
  PROVE  LET p == Parse(it, form)
             q == Parse(less, form)
             n(r, w) == Cardinality(Worth(r, w))
         IN  /\ \A w \in {"desirable", "neutral", "filler"} : n(p, w) \in Nat /\ n(q, w) \in Nat
             /\ n(q, "filler") <= n(p, "filler")
             /\ n(q, "desirable") = n(p, "desirable") /\ n(q, "neutral") = n(p, "neutral")
             /\ Cardinality(HighTier(q)) = Cardinality(HighTier(p))
             /\ Cardinality(HighTier(p)) \in Nat
             /\ \A kind \in Kind : CountOf(q, kind) <= CountOf(p, kind)
                                   /\ CountOf(p, kind) \in Nat /\ CountOf(q, kind) \in Nat
<1> DEFINE p == Parse(it, form)
           q == Parse(less, form)
           g(M) == Tally(AffixMods(a, form, FALSE), M)
<1>1. a \in Pool
  BY DEF GameItem
<1>2. \A M : /\ p.mods \in Seq(Mod) /\ q.mods \in Seq(Mod)
             /\ Tally(p.mods, M) \in Nat /\ Tally(q.mods, M) \in Nat /\ g(M) \in Nat
             /\ Tally(p.mods, M) = g(M) + Tally(q.mods, M)
  <2>1. \A M : /\ Parse(it, form).mods \in Seq(Mod) /\ Parse(less, form).mods \in Seq(Mod)
               /\ Tally(Parse(it, form).mods, M) \in Nat /\ Tally(Parse(less, form).mods, M) \in Nat
               /\ Tally(AffixMods(a, form, FALSE), M) \in Nat
               /\ Tally(Parse(it, form).mods, M)
                    = Tally(AffixMods(a, form, FALSE), M) + Tally(Parse(less, form).mods, M)
    <3> HIDE DEF p, q, g
    <3> QED BY TakenOut
  <2> QED BY <2>1
<1>3. g(Valued("desirable")) = 0 /\ g(Valued("neutral")) = 0 /\ g(HighValued) = 0
  <2>1. \A M \in {Valued("desirable"), Valued("neutral"), HighValued} : \A m \in M : m.text.worth # "filler"
    BY DEF Valued, HighValued
  <2>2. \A M \in {Valued("desirable"), Valued("neutral"), HighValued} :
          \A m \in M : \A i \in DOMAIN a.lines : m.text # a.lines[i]
    BY <2>1
  <2> QED BY <1>1, <2>2, ModsOfLines
<1> HIDE DEF p, q, g
<1>4. ASSUME NEW w
      PROVE  /\ Cardinality(Worth(p, w)) = Tally(p.mods, Valued(w))
             /\ Cardinality(Worth(q, w)) = Tally(q.mods, Valued(w))
  BY <1>2, WorthIsTally
<1>5. /\ Cardinality(HighTier(p)) = Tally(p.mods, HighValued)
      /\ Cardinality(HighTier(q)) = Tally(q.mods, HighValued)
  BY <1>2, WorthIsTally
<1>6. \A M : g(M) = 0 => Tally(q.mods, M) = Tally(p.mods, M)
  BY <1>2
<1>7. \A M : Tally(q.mods, M) <= Tally(p.mods, M)
  BY <1>2
<1>8. \A w \in {"desirable", "neutral", "filler"} :
        Cardinality(Worth(p, w)) \in Nat /\ Cardinality(Worth(q, w)) \in Nat
  BY <1>2, <1>4
<1>9. Cardinality(Worth(q, "filler")) <= Cardinality(Worth(p, "filler"))
  BY <1>4, <1>7
<1>10. /\ Cardinality(Worth(q, "desirable")) = Cardinality(Worth(p, "desirable"))
       /\ Cardinality(Worth(q, "neutral")) = Cardinality(Worth(p, "neutral"))
       /\ Cardinality(HighTier(q)) = Cardinality(HighTier(p)) /\ Cardinality(HighTier(p)) \in Nat
  BY <1>2, <1>3, <1>4, <1>5, <1>6
<1>11. ASSUME NEW kind \in Kind
       PROVE  CountOf(q, kind) <= CountOf(p, kind) /\ CountOf(p, kind) \in Nat /\ CountOf(q, kind) \in Nat
  <2>1. /\ CountOf(p, kind) = Tally(p.mods, Counted(kind))
        /\ CountOf(q, kind) = Tally(q.mods, Counted(kind))
    BY <1>2, CountIsTally
  <2> QED BY <1>2, <1>7, <2>1
<1> QED BY <1>8, <1>9, <1>10, <1>11 DEF p, q

LEMMA ClampOrder ==
  ASSUME NEW x \in Int, NEW y \in Int, x <= y
  PROVE  Clamp(x) \in Int /\ Clamp(y) \in Int /\ Clamp(x) <= Clamp(y)
BY DEF Clamp

LEMMA Lowest ==
  ASSUME NEW S \in SUBSET Int, NEW n \in S, \A m \in S : n <= m
  PROVE  LowestOf(S) = n
<1> DEFINE l == LowestOf(S)
<1>1. l \in S /\ \A m \in S : l <= m
  BY DEF LowestOf
<1> HIDE DEF l
<1>2. l \in Int /\ n \in Int /\ l <= n /\ n <= l
  BY <1>1
<1>3. l = n
  BY <1>2
<1> QED BY <1>3 DEF l

(* The lowest of a blend and the caps that apply.                          *)
Capped(b, hopeless, foreign) ==
  LowestOf({b} \cup (IF hopeless THEN {55} ELSE {}) \cup (IF foreign THEN {35} ELSE {}))

LEMMA CappedIs ==
  ASSUME NEW b \in Int, NEW hopeless \in BOOLEAN, NEW foreign \in BOOLEAN
  PROVE  Capped(b, hopeless, foreign) =
           IF foreign THEN (IF b <= 35 THEN b ELSE 35)
           ELSE IF hopeless THEN (IF b <= 55 THEN b ELSE 55) ELSE b
<1> DEFINE S == {b} \cup (IF hopeless THEN {55} ELSE {}) \cup (IF foreign THEN {35} ELSE {})
           n == IF foreign THEN (IF b <= 35 THEN b ELSE 35)
                ELSE IF hopeless THEN (IF b <= 55 THEN b ELSE 55) ELSE b
<1>1. S \in SUBSET Int /\ n \in S /\ \A m \in S : n <= m
  <2>1. CASE foreign /\ hopeless
    BY <2>1
  <2>2. CASE foreign /\ ~hopeless
    BY <2>2
  <2>3. CASE ~foreign /\ hopeless
    BY <2>3
  <2>4. CASE ~foreign /\ ~hopeless
    BY <2>4
  <2> QED BY <2>1, <2>2, <2>3, <2>4
<1>2. Capped(b, hopeless, foreign) = LowestOf(S)
  BY DEF Capped
<1> HIDE DEF S, n
<1>3. LowestOf(S) = n
  BY <1>1, Lowest
<1> QED BY <1>2, <1>3 DEF n

LEMMA CappedOrder ==
  ASSUME NEW b \in Int, NEW c \in Int, NEW h \in BOOLEAN, NEW g \in BOOLEAN, NEW foreign \in BOOLEAN,
         b <= c, g => h
  PROVE  /\ Capped(b, h, foreign) \in Int /\ Capped(c, g, foreign) \in Int
         /\ Capped(b, h, foreign) <= Capped(c, g, foreign)
<1>1. /\ Capped(b, h, foreign) = IF foreign THEN (IF b <= 35 THEN b ELSE 35)
                                 ELSE IF h THEN (IF b <= 55 THEN b ELSE 55) ELSE b
      /\ Capped(c, g, foreign) = IF foreign THEN (IF c <= 35 THEN c ELSE 35)
                                 ELSE IF g THEN (IF c <= 55 THEN c ELSE 55) ELSE c
  BY CappedIs
<1>2. CASE foreign
  BY <1>1, <1>2
<1>3. CASE ~foreign /\ h /\ g
  BY <1>1, <1>3
<1>4. CASE ~foreign /\ h /\ ~g
  BY <1>1, <1>4
<1>5. CASE ~foreign /\ ~h
  BY <1>1, <1>5
<1> QED BY <1>2, <1>3, <1>4, <1>5

(* As filler goes no part of the rating falls.                             *)
LEMMA ScoreOrder ==
  ASSUME NEW p, NEW q,
         p.rarity = "Rare", q.rarity = "Rare", q.base = p.base, q.level = p.level, p.level \in Nat,
         \A w \in {"desirable", "neutral", "filler"} :
           Cardinality(Worth(p, w)) \in Nat /\ Cardinality(Worth(q, w)) \in Nat,
         Cardinality(Worth(q, "filler")) <= Cardinality(Worth(p, "filler")),
         Cardinality(Worth(q, "desirable")) = Cardinality(Worth(p, "desirable")),
         Cardinality(Worth(q, "neutral")) = Cardinality(Worth(p, "neutral")),
         Cardinality(HighTier(q)) = Cardinality(HighTier(p)), Cardinality(HighTier(p)) \in Nat,
         \A kind \in Kind : CountOf(q, kind) <= CountOf(p, kind)
                            /\ CountOf(p, kind) \in Nat /\ CountOf(q, kind) \in Nat
  PROVE  Score(p) <= Score(q)
<1> DEFINE f == Cardinality(Worth(p, "filler"))
           g == Cardinality(Worth(q, "filler"))
           d == Cardinality(Worth(p, "desirable"))
           n == Cardinality(Worth(p, "neutral"))
           h == Cardinality(HighTier(p))
           o == OpenSlots(p)
           r == OpenSlots(q)
<1>1. /\ f \in Nat /\ g \in Nat /\ d \in Nat /\ n \in Nat /\ h \in Nat /\ g <= f
      /\ Cardinality(Worth(q, "desirable")) = d /\ Cardinality(Worth(q, "neutral")) = n
      /\ Cardinality(HighTier(q)) = h
  OBVIOUS
<1>2. o \in Nat /\ r \in Nat /\ o <= r
  <2>1. ASSUME NEW kind \in Kind
        PROVE  Open(p, kind) \in Nat /\ Open(q, kind) \in Nat /\ Open(p, kind) <= Open(q, kind)
    <3>1. CountOf(q, kind) <= CountOf(p, kind) /\ CountOf(p, kind) \in Nat /\ CountOf(q, kind) \in Nat
      OBVIOUS
    <3> QED BY <3>1 DEF Open
  <2>2. /\ Open(p, "prefix") \in Nat /\ Open(q, "prefix") \in Nat
        /\ Open(p, "suffix") \in Nat /\ Open(q, "suffix") \in Nat
        /\ Open(p, "prefix") <= Open(q, "prefix") /\ Open(p, "suffix") <= Open(q, "suffix")
    BY <2>1 DEF Kind
  <2> QED BY <2>2 DEF OpenSlots
<1>3. BaseScore(q) = BaseScore(p) /\ BaseScore(p) \in Int
  <2>1. BaseScore(p) \in {60, 100, 95, 80, 55, 30}
    BY DEF BaseScore
  <2> QED BY <2>1 DEF BaseScore
<1>4. ModScore(p) \in Int /\ ModScore(q) \in Int /\ ModScore(p) <= ModScore(q)
  <2> DEFINE x == 50 + 12 * (d + h) - 11 * f + 2 * n - IF f >= 3 THEN 15 ELSE 0
             y == 50 + 12 * (d + h) - 11 * g + 2 * n - IF g >= 3 THEN 15 ELSE 0
  <2>1. ModScore(p) = Clamp(x)
    BY DEF ModScore
  <2>2. ModScore(q) = Clamp(y)
    BY <1>1 DEF ModScore
  <2> HIDE DEF f, g, d, n, h
  <2>3. x \in Int /\ y \in Int /\ x <= y
    BY <1>1
  <2> HIDE DEF x, y
  <2> QED BY <2>1, <2>2, <2>3, ClampOrder
<1>5. Headroom(p) \in Int /\ Headroom(q) \in Int /\ Headroom(p) <= Headroom(q)
  <2> DEFINE x == 40 + 10 * o - 8 * f + 8 * d
             y == 40 + 10 * r - 8 * g + 8 * d
  <2>1. Headroom(p) = Clamp(x)
    BY DEF Headroom
  <2>2. Headroom(q) = Clamp(y)
    BY <1>1 DEF Headroom
  <2> HIDE DEF f, g, d, o, r
  <2>3. x \in Int /\ y \in Int /\ x <= y
    BY <1>1, <1>2
  <2> HIDE DEF x, y
  <2> QED BY <2>1, <2>2, <2>3, ClampOrder
<1>6. Blend(p) \in Int /\ Blend(q) \in Int /\ Blend(p) <= Blend(q)
  <2> DEFINE b == BaseScore(p)
             m == ModScore(p)
             k == ModScore(q)
             x == Headroom(p)
             y == Headroom(q)
  <2>1. /\ Blend(p) = (30 * b + 40 * m + 30 * x + 50) \div 100
        /\ Blend(q) = (30 * b + 40 * k + 30 * y + 50) \div 100
    BY <1>3 DEF Blend
  <2>2. b \in Int /\ m \in Int /\ k \in Int /\ x \in Int /\ y \in Int /\ m <= k /\ x <= y
    BY <1>3, <1>4, <1>5
  <2> HIDE DEF b, m, k, x, y
  <2> DEFINE u == 30 * b + 40 * m + 30 * x + 50
             v == 30 * b + 40 * k + 30 * y + 50
  <2>3. u \in Int /\ v \in Int /\ u <= v
    BY <2>2
  <2>4. Blend(p) = u \div 100 /\ Blend(q) = v \div 100
    BY <2>1
  <2> HIDE DEF u, v
  <2>5. u \div 100 \in Int /\ v \div 100 \in Int /\ u \div 100 <= v \div 100
    BY <2>3
  <2> QED BY <2>4, <2>5
<1>7. Hopeless(p) \in BOOLEAN /\ Hopeless(q) \in BOOLEAN /\ (Hopeless(q) => Hopeless(p))
  <2>1. Hopeless(p) <=> (o = 0 /\ f >= 2)
    BY DEF Hopeless
  <2>2. Hopeless(q) <=> (r = 0 /\ g >= 2)
    BY DEF Hopeless
  <2>3. Hopeless(p) \in BOOLEAN /\ Hopeless(q) \in BOOLEAN
    BY DEF Hopeless
  <2> HIDE DEF f, g, o, r
  <2> QED BY <1>1, <1>2, <2>1, <2>2, <2>3
<1>8. Foreign(q) = Foreign(p) /\ Foreign(p) \in BOOLEAN
  <2>1. WeaponFamily(q) = WeaponFamily(p)
    BY Zenon DEF WeaponFamily
  <2> QED BY <2>1, Zenon DEF Foreign
<1>9. Score(p) = Clamp(Capped(Blend(p), Hopeless(p), Foreign(p)))
  BY Zenon DEF Score, Capped
<1>10. Score(q) = Clamp(Capped(Blend(q), Hopeless(q), Foreign(p)))
  BY <1>8, Zenon DEF Score, Capped
<1>11. /\ Capped(Blend(p), Hopeless(p), Foreign(p)) \in Int
       /\ Capped(Blend(q), Hopeless(q), Foreign(p)) \in Int
       /\ Capped(Blend(p), Hopeless(p), Foreign(p)) <= Capped(Blend(q), Hopeless(q), Foreign(p))
  BY <1>6, <1>7, <1>8, CappedOrder
<1> QED BY <1>9, <1>10, <1>11, ClampOrder

LEMMA FillerLowers ==
  ASSUME NEW it \in GameItem, NEW less \in GameItem, NEW a \in it.affixes, NEW form \in Forms,
         Without(it, a, less), it.rarity = "Rare", \A i \in DOMAIN a.lines : a.lines[i].worth = "filler"
  PROVE  Score(Parse(it, form)) <= Score(Parse(less, form))
<1> DEFINE p == Parse(it, form)
           q == Parse(less, form)
<1>1. AsWritten(it, p, form) /\ AsWritten(less, q, form)
  BY ParsedMods
<1>2. it.level \in Nat /\ less.base = it.base /\ less.rarity = it.rarity /\ less.level = it.level
  BY LevelsAssumption DEF Without, GameItem
<1>3. /\ \A w \in {"desirable", "neutral", "filler"} :
           Cardinality(Worth(p, w)) \in Nat /\ Cardinality(Worth(q, w)) \in Nat
      /\ Cardinality(Worth(q, "filler")) <= Cardinality(Worth(p, "filler"))
      /\ Cardinality(Worth(q, "desirable")) = Cardinality(Worth(p, "desirable"))
      /\ Cardinality(Worth(q, "neutral")) = Cardinality(Worth(p, "neutral"))
      /\ Cardinality(HighTier(q)) = Cardinality(HighTier(p))
      /\ Cardinality(HighTier(p)) \in Nat
      /\ \A kind \in Kind : CountOf(q, kind) <= CountOf(p, kind)
                            /\ CountOf(p, kind) \in Nat /\ CountOf(q, kind) \in Nat
  BY FillerGone
<1> HIDE DEF p, q
<1>4. p.rarity = "Rare" /\ q.rarity = "Rare" /\ q.base = p.base /\ q.level = p.level /\ p.level \in Nat
  BY <1>1, <1>2 DEF AsWritten
<1>5. Score(p) <= Score(q)
  BY <1>3, <1>4, ScoreOrder
<1> QED BY <1>5 DEF p, q

(* A step that takes affixes away takes one.                               *)
LEMMA OneAtATime ==
  ASSUME PlanInv, PlanInv', [Next]_vars, item.rarity = "Rare",
         item'.affixes # item.affixes, item'.affixes \subseteq item.affixes
  PROVE  \E a \in item.affixes : Without(item, a, item')
<1>1. item \in GameItem /\ item.affixes \in SUBSET Pool
  BY DEF PlanInv, GameItem
<1>2. CASE UNCHANGED vars \/ Ask
  BY <1>2 DEF vars, Ask
<1>3. CASE Corrupt
  <2>1. item' = [item EXCEPT !.corrupted = TRUE]
    BY <1>3 DEF Corrupt
  <2> QED BY <1>1, <2>1 DEF GameItem
<1>4. CASE Follow
  <2> DEFINE x == plan.steps[step]
  <2>1. x \in {"annul", "slam", "catalyse", "essence", "divine", "upgrade", "fill"}
    <3>1. step \in 1..Len(plan.steps)
      BY <1>4, PlansShape DEF Follow, Over, PlanInv
    <3> QED BY <3>1, PlansShape DEF PlanInv
  <2>2. CASE x = "annul"
    <3>1. PICK a \in Removable(plan.kind) : item' = [item EXCEPT !.affixes = @ \ {a}]
      BY <1>4, <2>2 DEF Follow, Annul
    <3>2. a \in item.affixes
      BY DEF Removable, Of
    <3>3. Without(item, a, item')
      BY <1>1, <3>1 DEF GameItem, Without
    <3> QED BY <3>2, <3>3
  <2>3. CASE x \in {"slam", "catalyse", "fill"}
    <3>1. PICK a \in Rolled : item' = [item EXCEPT !.affixes = @ \cup {a}]
      BY <1>4, <2>3 DEF Follow, Add, Addable
    <3>2. item'.affixes = item.affixes \cup {a} /\ a \notin item.affixes
      BY <1>1, <3>1 DEF GameItem, Rolled
    <3> QED BY <3>2
  <2>4. CASE x = "upgrade"
    <3>1. step \in 1..Len(plan.steps) /\ At(x)
      BY <1>4, PlansShape DEF Follow, Over, PlanInv, At
    <3>2. item.rarity \in {"Normal", "Magic"}
      BY <2>4, <3>1 DEF PlanInv
    <3> QED BY <3>2
  <2>5. CASE x \in {"essence", "divine"}
    BY <1>4, <2>5 DEF Follow
  <2> QED BY <2>1, <2>2, <2>3, <2>4, <2>5
<1> QED BY <1>2, <1>3, <1>4 DEF Next

(* Getting rid of filler never lowers the rating (Rate, rate.go:43-75).    *)
THEOREM FillerHolds == Spec => FillerNeverHelps
<1> DEFINE Lower ==
      item.rarity = "Rare" /\ item'.affixes # item.affixes /\ item'.affixes \subseteq item.affixes
      /\ (\A a \in item.affixes \ item'.affixes :
            \A i \in DOMAIN a.lines : a.lines[i].worth = "filler")
      => \A form \in Forms : Score(Parse(item, form)) <= Score(Parse(item', form))
<1>1. PlanInv /\ PlanInv' /\ [Next]_vars => [Lower]_vars
  <2>1. SUFFICES ASSUME PlanInv, PlanInv', [Next]_vars,
                        item.rarity = "Rare", item'.affixes # item.affixes,
                        item'.affixes \subseteq item.affixes,
                        \A a \in item.affixes \ item'.affixes :
                          \A i \in DOMAIN a.lines : a.lines[i].worth = "filler",
                        NEW form \in Forms
                 PROVE  Score(Parse(item, form)) <= Score(Parse(item', form))
    OBVIOUS
  <2>2. PICK a \in item.affixes : Without(item, a, item')
    BY <2>1, OneAtATime
  <2>3. a \in item.affixes \ item'.affixes
    BY <2>2 DEF Without
  <2>4. \A i \in DOMAIN a.lines : a.lines[i].worth = "filler"
    BY <2>1, <2>3
  <2>5. item \in GameItem /\ item' \in GameItem
    BY <2>1 DEF PlanInv
  <2> QED BY <2>1, <2>2, <2>4, <2>5, FillerLowers
<1> QED BY <1>1, PlanInit, PlanStep, PTL DEF Spec, FillerNeverHelps
=============================================================================
