------------------------ MODULE UpgradeRankingProofs ------------------------
(***************************************************************************)
(* Proofs about UpgradeRanking, for any slots, items, weights and stats.   *)
(*                                                                         *)
(* The gaps of a character are sums over its items.  What a sum is, and    *)
(* that it grows with its summands, is proved first, from the definition   *)
(* of the community modules: by a least counterexample, for the library's  *)
(* induction theorems cannot be applied here.  The invariant is GearInv,   *)
(* by which what is worn fits.                                             *)
(***************************************************************************)
EXTENDS UpgradeRanking, FiniteSetTheorems, WellFoundedInduction, TLAPS

----------------------------------------------------------------------------
(* Sums.                                                                   *)

(* A set of numbers that is not empty has a least one.                     *)
LEMMA LeastNumber ==
  ASSUME NEW S \in SUBSET Nat, S # {}
  PROVE  \E n \in S : \A m \in S : n <= m
<1>2. PICK d \in S : \A e \in S : <<e, d>> \notin OpToRel(<, Nat)
  BY WFMin, NatLessThanWellFounded, Zenon
<1>3. \A e \in S : ~(e < d)
  BY <1>2 DEF OpToRel
<1> QED BY <1>3

(* A sum takes one element after the other.  Adds says that g is what the  *)
(* library's sum computes, for the subsets in T of what is summed over.    *)
One(s) == CHOOSE x \in s : TRUE
Adds(g, f, T) ==
  g = [s \in T |-> IF s = {} THEN 0 ELSE f[One(s)] + g[s \ {One(s)}]]
Small(S, n) == {s \in SUBSET S : Cardinality(s) <= n}

(* The library's definition is a choice of such a g.                       *)
LEMMA SumUnfolds ==
  ASSUME NEW f, NEW S
  PROVE  SumFunctionOnSet(f, S) = (CHOOSE g : Adds(g, f, SUBSET S))[S]
BY DEF SumFunctionOnSet, FoldFunctionOnSet, MapThenFoldSet, Adds, One

(* Taking one element leaves a smaller set.                                *)
LEMMA RestIsSmaller ==
  ASSUME NEW S, IsFiniteSet(S), NEW s \in SUBSET S, s # {}
  PROVE  /\ One(s) \in s /\ s \ {One(s)} \in SUBSET S
         /\ Cardinality(s) \in Nat \ {0}
         /\ Cardinality(s \ {One(s)}) = Cardinality(s) - 1
<1> DEFINE x == One(s)
<1>1. x \in s
  BY DEF One
<1> HIDE DEF x
<1>2. IsFiniteSet(s)
  BY FS_Subset
<1>3. Cardinality(s) \in Nat \ {0}
  BY <1>1, <1>2, FS_CardinalityType, FS_EmptySet
<1>4. Cardinality(s \ {x}) = Cardinality(s) - 1
  BY <1>1, <1>2, FS_RemoveElement
<1> QED BY <1>1, <1>3, <1>4 DEF x

(* There is such a g for the subsets of up to n elements, whatever n is.   *)
LEMMA PartialSums ==
  ASSUME NEW f, NEW S, IsFiniteSet(S), NEW n \in Nat
  PROVE  \E g : Adds(g, f, Small(S, n))
<1> DEFINE Lacking == {m \in Nat : ~\E g : Adds(g, f, Small(S, m))}
<1>1. SUFFICES ASSUME Lacking # {} PROVE FALSE
  OBVIOUS
<1>2. PICK m \in Lacking : \A k \in Lacking : m <= k
  BY <1>1, LeastNumber
<1>3. CASE m = 0
  <2>1. ASSUME NEW s \in Small(S, 0) PROVE s = {}
    <3>1. s \in SUBSET S /\ Cardinality(s) <= 0
      BY DEF Small
    <3>2. SUFFICES ASSUME s # {} PROVE FALSE
      OBVIOUS
    <3>3. Cardinality(s) \in Nat \ {0}
      BY <3>1, <3>2, RestIsSmaller
    <3> QED BY <3>1, <3>3
  <2> DEFINE g == [s \in Small(S, 0) |-> 0]
  <2>2. Adds(g, f, Small(S, 0))
    BY <2>1 DEF Adds
  <2> QED BY <1>2, <1>3, <2>2
<1>4. CASE m # 0
  <2>1. m - 1 \in Nat /\ m - 1 \notin Lacking
    BY <1>2, <1>4
  <2>2. PICK g : Adds(g, f, Small(S, m - 1))
    BY <2>1
  <2> DEFINE h == [s \in Small(S, m) |->
                     IF s = {} THEN 0 ELSE f[One(s)] + g[s \ {One(s)}]]
  <2>3. ASSUME NEW s \in Small(S, m), s # {}
        PROVE  h[s \ {One(s)}] = g[s \ {One(s)}]
    <3> DEFINE r == s \ {One(s)}
    <3>1. r \in Small(S, m - 1) /\ r \in Small(S, m)
      BY <1>2, <2>3, RestIsSmaller DEF Small
    <3> HIDE DEF r
    <3>2. g[r] = IF r = {} THEN 0 ELSE f[One(r)] + g[r \ {One(r)}]
      BY <2>2, <3>1 DEF Adds
    <3>3. h[r] = IF r = {} THEN 0 ELSE f[One(r)] + g[r \ {One(r)}]
      BY <3>1
    <3> QED BY <3>2, <3>3 DEF r
  <2> DEFINE k == [s \in Small(S, m) |->
                     IF s = {} THEN 0 ELSE f[One(s)] + h[s \ {One(s)}]]
  <2>5. ASSUME NEW s \in Small(S, m) PROVE h[s] = k[s]
    <3>1. CASE s = {}
      BY <3>1
    <3>2. CASE s # {}
      <4>1. h[s] = f[One(s)] + g[s \ {One(s)}]
        BY <3>2
      <4>2. k[s] = f[One(s)] + h[s \ {One(s)}]
        BY <3>2, Zenon
      <4> HIDE DEF h, k
      <4> QED BY <2>3, <3>2, <4>1, <4>2
    <3> QED BY <3>1, <3>2
  <2>7. h = [s \in Small(S, m) |-> h[s]] /\ k = [s \in Small(S, m) |-> k[s]]
    OBVIOUS
  <2>4. Adds(h, f, Small(S, m))
    <3>1. h = k
      <4> HIDE DEF h, k
      <4> QED BY <2>5, <2>7
    <3> QED BY <3>1, Zenon DEF Adds
  <2> QED BY <1>2, <2>4
<1> QED BY <1>3, <1>4

(* So the choice is not an empty one.                                      *)
LEMMA SumIsDefined ==
  ASSUME NEW f, NEW S, IsFiniteSet(S)
  PROVE  \E g : Adds(g, f, SUBSET S) /\ SumFunctionOnSet(f, S) = g[S]
<1>1. Cardinality(S) \in Nat
  BY FS_CardinalityType
<1>2. Small(S, Cardinality(S)) = SUBSET S
  BY FS_Subset DEF Small
<1>3. \E g : Adds(g, f, SUBSET S)
  <2>1. \E g : Adds(g, f, Small(S, Cardinality(S)))
    BY <1>1, PartialSums
  <2> QED BY <1>2, <2>1
<1>4. Adds(CHOOSE g : Adds(g, f, SUBSET S), f, SUBSET S)
  BY <1>3
<1> QED BY <1>4, SumUnfolds

(* A sum of natural numbers is one, and grows with its summands.           *)
LEMMA SumGrows ==
  ASSUME NEW S, IsFiniteSet(S), NEW e \in [S -> Nat], NEW f \in [S -> Nat],
         \A x \in S : e[x] <= f[x]
  PROVE  SumFunction(e) \in Nat /\ SumFunction(f) \in Nat /\ SumFunction(e) <= SumFunction(f)
<1>1. PICK g : Adds(g, e, SUBSET S) /\ SumFunctionOnSet(e, S) = g[S]
  BY SumIsDefined
<1>2. PICK h : Adds(h, f, SUBSET S) /\ SumFunctionOnSet(f, S) = h[S]
  BY SumIsDefined
<1> DEFINE Grows(s) == g[s] \in Nat /\ h[s] \in Nat /\ g[s] <= h[s]
           Lacking == {n \in Nat : \E s \in SUBSET S : Cardinality(s) = n /\ ~Grows(s)}
<1>3. ASSUME Lacking # {} PROVE FALSE
  <2>1. PICK m \in Lacking : \A k \in Lacking : m <= k
    BY <1>3, LeastNumber
  <2>2. PICK s \in SUBSET S : Cardinality(s) = m /\ ~Grows(s)
    BY <2>1
  <2>3. CASE s = {}
    <3>1. g[s] = 0 /\ h[s] = 0
      BY <1>1, <1>2, <2>3 DEF Adds
    <3> QED BY <2>2, <3>1
  <2>4. CASE s # {}
    <3> DEFINE x == One(s)
               r == s \ {x}
    <3>1. x \in s /\ r \in SUBSET S /\ Cardinality(s) \in Nat /\ Cardinality(r) = Cardinality(s) - 1
      BY <2>4, RestIsSmaller
    <3>2. g[s] = e[x] + g[r] /\ h[s] = f[x] + h[r]
      BY <1>1, <1>2, <2>4 DEF Adds
    <3> HIDE DEF x, r
    <3>3. Grows(r)
      <4> SUFFICES ASSUME ~Grows(r) PROVE FALSE
        OBVIOUS
      <4>0. Cardinality(r) \in Nat
        BY <2>1, <2>2, <3>1, FS_CardinalityType, FS_Subset
      <4>1. Cardinality(r) \in Lacking
        BY <3>1, <4>0
      <4> QED BY <2>1, <2>2, <3>1, <4>1
    <3>4. e[x] \in Nat /\ f[x] \in Nat /\ e[x] <= f[x]
      BY <3>1
    <3> QED BY <2>2, <3>2, <3>3, <3>4
  <2> QED BY <2>3, <2>4
<1>4. Cardinality(S) \in Nat
  BY FS_CardinalityType
<1>5. Grows(S)
  BY <1>3, <1>4
<1> QED BY <1>1, <1>2, <1>5 DEF SumFunction

----------------------------------------------------------------------------
(* What is worn fits, and the stats of items are numbers.                  *)
GearInv ==
  /\ gear \in [Worn -> Items \cup {NoItem}]
  /\ \A s \in Worn : Equipped(s) => gear[s].class \in Fits[s]

LEMMA GearStep ==
  ASSUME GearInv, [Next]_vars
  PROVE  GearInv'
<1>1. CASE UNCHANGED vars
  BY <1>1 DEF GearInv, Equipped, vars
<1>2. ASSUME NEW s \in Worn, Equip(s) PROVE GearInv'
  <2>1. PICK it \in {i \in Items : i.class \in Fits[s]} \cup {NoItem} :
          gear' = [gear EXCEPT ![s] = it]
    BY <1>2 DEF Equip
  <2> QED BY <2>1 DEF GearInv, Equipped
<1> QED BY <1>1, <1>2 DEF Next

LEMMA GearInvariant == Spec => []GearInv
<1>1. Init => GearInv
  BY DEF Init, GearInv, Equipped
<1>2. GearInv /\ [Next]_vars => GearInv'
  BY GearStep
<1> QED BY <1>1, <1>2, PTL DEF Spec

LEMMA StatsTyped ==
  ASSUME GearInv, NEW s \in Worn
  PROVE  ItemStats(s) \in Stat
<1>1. CASE Equipped(s)
  BY <1>1, ItemsAssumption DEF GearInv, Equipped, ItemStats
<1>2. CASE ~Equipped(s)
  BY <1>2 DEF ItemStats, Statless, Stat
<1> QED BY <1>1, <1>2

(* The slots are finitely many.                                            *)
LEMMA WornFinite == IsFiniteSet(Worn)
<1> DEFINE n == Len(Considered)
           f == [i \in 1..n |-> Considered[i]]
<1>1. n \in Nat
  BY SlotsAssumption
<1>2. f \in Surjection(1..n, Slots)
  BY DEF Slots, Surjection
<1>3. IsFiniteSet(1..n)
  BY <1>1, FS_Interval
<1> HIDE DEF f, n
<1>4. IsFiniteSet(Slots)
  BY <1>2, <1>3, FS_Surjection
<1> QED BY <1>4, SlotsAssumption, FS_Union DEF Worn

----------------------------------------------------------------------------
(* The query.                                                              *)

(* The first of the words in the name of a base that has those of its      *)
(* class is its class (WeaponCategory, url.go:25-49).                      *)
LEMMA WordIsClass ==
  ASSUME NEW it \in Items, it.words = WordsIn(it.class)
  PROVE  WeaponCategory(it) = IF it.class \in Named THEN it.class ELSE AnyCategory
<1> DEFINE hits == {i \in DOMAIN Words : Words[i] \in it.words}
<1>0. /\ DOMAIN Words = 1..7
      /\ Words[1] = "quiver" /\ Words[2] = "crossbow" /\ Words[3] = "bow"
      /\ Words[4] = "quarterstaff" /\ Words[5] = "wand" /\ Words[6] = "sceptre"
      /\ Words[7] = "staff"
  BY DEF Words
<1>1. Named = {"quiver", "crossbow", "bow", "quarterstaff", "wand", "sceptre", "staff"}
  BY <1>0 DEF Named
<1>2. it.words = WordsIn(it.class)
  OBVIOUS
<1>3. ASSUME NEW k \in 1..7, Words[k] = it.class, k \in hits, \A i \in hits : k <= i
      PROVE  WeaponCategory(it) = it.class
  <2>1. hits \subseteq Int
    BY <1>0
  <2>2. Min(hits) \in hits /\ \A i \in hits : Min(hits) <= i
    BY <1>3 DEF Min
  <2>3. Min(hits) = k
    BY <1>3, <2>1, <2>2
  <2> QED BY <1>3, <2>3 DEF WeaponCategory
<1>4. CASE it.class = "quiver"
  BY <1>0, <1>1, <1>2, <1>3, <1>4 DEF WordsIn
<1>5. CASE it.class = "crossbow"
  BY <1>0, <1>1, <1>2, <1>3, <1>5 DEF WordsIn
<1>6. CASE it.class = "bow"
  BY <1>0, <1>1, <1>2, <1>3, <1>6 DEF WordsIn
<1>7. CASE it.class = "quarterstaff"
  BY <1>0, <1>1, <1>2, <1>3, <1>7 DEF WordsIn
<1>8. CASE it.class = "wand"
  BY <1>0, <1>1, <1>2, <1>3, <1>8 DEF WordsIn
<1>9. CASE it.class = "sceptre"
  BY <1>0, <1>1, <1>2, <1>3, <1>9 DEF WordsIn
<1>10. CASE it.class = "staff"
  BY <1>0, <1>1, <1>2, <1>3, <1>10 DEF WordsIn
<1>11. CASE it.class \notin Named
  <2>1. it.words = {}
    BY <1>1, <1>2, <1>11 DEF WordsIn
  <2> QED BY <1>11, <2>1 DEF WeaponCategory
<1> QED BY <1>1, <1>4, <1>5, <1>6, <1>7, <1>8, <1>9, <1>10, <1>11

(* A name that does not mislead has the words of its class, or none, which *)
(* gives no category.                                                      *)
LEMMA NoWordsNoCategory ==
  ASSUME NEW it \in Items, ~Misleading(it)
  PROVE  WeaponCategory(it) \in {AnyCategory, it.class}
<1>1. CASE it.words = {}
  BY <1>1 DEF WeaponCategory
<1>2. CASE it.words = WordsIn(it.class)
  BY <1>2, WordIsClass
<1> QED BY <1>1, <1>2 DEF Misleading

(* The category of a query is the class of what is looked for, if it is    *)
(* of the right kind; and where it is sure, nothing else has it.           *)
LEMMA CategoryFits ==
  ASSUME GearInv, NEW s \in Slots, NEW it \in Items, RightKind(s, it),
         Equipped(s) => ~Misleading(gear[s])
  PROVE  Category(s) \in {AnyCategory, it.class}
<1>0. s \in Worn
  BY DEF Worn
<1>1. CASE program = "server" /\ Equipped(s) /\ WeaponCategory(gear[s]) # AnyCategory
  <2>1. gear[s] \in Items /\ gear[s].class \in Fits[s]
    BY <1>0, <1>1 DEF GearInv, Equipped
  <2>2. Category(s) = gear[s].class
    BY <1>1, <2>1, NoWordsNoCategory DEF Category
  <2>3. gear[s].class = it.class
    BY <1>1, <2>1, FitsAssumption DEF RightKind
  <2> QED BY <2>2, <2>3
<1>2. CASE ~(program = "server" /\ Equipped(s) /\ WeaponCategory(gear[s]) # AnyCategory)
  <2>1. Category(s) = SlotCategory(s)
    BY <1>2 DEF Category
  <2> QED BY <2>1, FitsAssumption DEF SlotCategory, RightKind
<1> QED BY <1>1, <1>2

(* The filters are finitely many, so that all of them are enough.          *)
LEMMA FiltersEnough ==
  ASSUME GearInv, NEW s \in Slots
  PROVE  Cardinality(Filters(s)) \in Nat /\ Needed(s) <= Cardinality(Filters(s))
<1> DEFINE W == WantedRes(s)
           R == {[stat |-> r, min |-> ResWanted(r)] : r \in W}
           f == [r \in W |-> [stat |-> r, min |-> ResWanted(r)]]
           L == {[stat |-> "life", min |-> LifeWanted(s)]}
<1>1. IsFiniteSet(W)
  BY SlotsAssumption, FS_Subset DEF WantedRes
<1>2. f \in Surjection(W, R)
  BY DEF Surjection
<1>3. IsFiniteSet(L)
  BY FS_Singleton
<1>4. Wants(s) \in SUBSET (R \cup L)
  BY DEF Wants
<1> HIDE DEF W, R, f, L
<1>5. IsFiniteSet(R)
  BY <1>1, <1>2, FS_Surjection
<1>6. IsFiniteSet(R \cup L)
  BY <1>3, <1>5, FS_Union
<1>7. Filters(s) \in SUBSET (R \cup L)
  BY <1>4 DEF Filters
<1>8. Cardinality(Filters(s)) \in Nat
  BY <1>6, <1>7, FS_Subset, FS_CardinalityType
<1> DEFINE c == Cardinality(Filters(s))
           N == {2, c}
<1>9. \E x \in N : \A y \in N : x <= y
  BY <1>8
<1>10. Needed(s) = CHOOSE x \in N : \A y \in N : x <= y
  BY DEF Needed, Min
<1> QED BY <1>8, <1>9, <1>10

(* An item of the right kind that has all the report wants, at a price     *)
(* within the budget, is found: for any items, any slots and resistances,  *)
(* and any files of ids, unless the worn item's name has the word of       *)
(* another class (Build, query.go:85-137, priceForReport,                  *)
(* server.go:271-283).                                                     *)
THEOREM PerfectOnesAreFound == Spec => []PerfectIsFound
<1>1. GearInv => PerfectIsFound
  <2> SUFFICES ASSUME GearInv, NEW s \in Slots, NEW it \in Items,
                      RightKind(s, it), Affordable(it), \A w \in Wants(s) : Meets(it, w),
                      Equipped(s) => ~Misleading(gear[s])
               PROVE  Finds(s, it)
    BY DEF PerfectIsFound
  <2>1. {w \in Filters(s) : Meets(it, w)} = Filters(s)
    BY DEF Filters
  <2> QED BY <2>1, CategoryFits, FiltersEnough DEF Finds
<1> QED BY <1>1, GearInvariant, PTL

(* What the server finds is of the slot's class, and of the class of the   *)
(* weapon in it when its name tells that ("match the equipped item's       *)
(* actual class", server.go:274-279), unless the name misleads.            *)
THEOREM FoundFits == Spec => []FindsItsKind
<1>1. GearInv => FindsItsKind
  <2> SUFFICES ASSUME GearInv, NEW s \in Slots, NEW it \in Items,
                      program = "server", Finds(s, it),
                      s \in Hands => Equipped(s) /\ Telling(gear[s]),
                      Equipped(s) => ~Misleading(gear[s])
               PROVE  RightKind(s, it)
    BY DEF FindsItsKind
  <2>1. s \in Worn /\ Category(s) \in {AnyCategory, it.class}
    BY DEF Worn, Finds
  <2>2. AnyCategory \notin Named
    BY DEF AnyCategory, Named, Words
  <2>3. CASE Equipped(s) /\ Telling(gear[s])
    <3>1. gear[s] \in Items /\ gear[s].class \in Fits[s]
      BY <2>1, <2>3 DEF GearInv, Equipped
    <3>2. Category(s) = gear[s].class
      BY <2>2, <2>3, <3>1, WordIsClass DEF Category, Telling
    <3> QED BY <2>1, <2>2, <2>3, <3>1, <3>2 DEF RightKind, Telling
  <2>4. CASE s \notin Hands
    <3>1. (CHOOSE class \in Fits[s] : TRUE) \in Fits[s]
      BY <2>4, FitsAssumption
    <3>2. CASE Category(s) = SlotCategory(s)
      <4>1. Category(s) \in Fits[s] /\ Category(s) # AnyCategory
        BY <2>4, <3>1, <3>2, FitsAssumption DEF SlotCategory
      <4> QED BY <2>1, <2>4, <4>1 DEF RightKind
    <3>3. CASE Category(s) # SlotCategory(s)
      <4>1. Equipped(s) /\ Category(s) = WeaponCategory(gear[s]) /\ Category(s) # AnyCategory
        BY <3>3 DEF Category
      <4>2. gear[s] \in Items /\ gear[s].class \in Fits[s]
        BY <2>1, <4>1 DEF GearInv, Equipped
      <4>3. Category(s) = gear[s].class
        BY <4>1, <4>2, NoWordsNoCategory
      <4> QED BY <2>1, <2>4, <4>1, <4>2, <4>3 DEF RightKind
    <3> QED BY <3>2, <3>3
  <2> QED BY <2>3, <2>4
<1> QED BY <1>1, GearInvariant, PTL

----------------------------------------------------------------------------
(* The ranking.                                                            *)

(* What is divided by more is less.                                        *)
LEMMA QuotientFalls ==
  ASSUME NEW k \in Nat, NEW c \in Nat \ {0}, NEW a \in Nat, NEW b \in Nat, a <= b
  PROVE  k \div (b + c) \in Nat /\ k \div (b + c) <= k \div (a + c)
<1> DEFINE p == a + c
           q == b + c
           m == k \div p
           n == k \div q
<1>1. p \in Nat \ {0} /\ q \in Nat \ {0} /\ p <= q
  OBVIOUS
<1> HIDE DEF p, q
<1>2. m \in Nat /\ n \in Nat /\ k < p * (m + 1) /\ q * n <= k
  BY <1>1
<1> HIDE DEF m, n
<1>3. p * n <= q * n
  BY <1>1, <1>2
<1>4. p * n \in Nat /\ q * n \in Nat /\ p * (m + 1) \in Nat
  BY <1>1, <1>2
<1>5. p * n < p * (m + 1)
  BY <1>2, <1>3, <1>4
<1>6. n < m + 1
  <2> SUFFICES ASSUME m + 1 <= n PROVE FALSE
    BY <1>2
  <2>1. p * (m + 1) <= p * n
    BY <1>1, <1>2
  <2> QED BY <1>4, <1>5, <2>1
<1> QED BY <1>2, <1>6 DEF m, n, p, q

LEMMA ProductGrows ==
  ASSUME NEW w \in Nat, NEW a \in Int, NEW b \in Int, a <= b
  PROVE  w * a \in Int /\ w * b \in Int /\ w * a <= w * b
OBVIOUS

LEMMA StatsTypedNext ==
  ASSUME GearInv', NEW s \in Worn
  PROVE  ItemStats(s)' \in Stat
<1>1. CASE Equipped(s)'
  BY <1>1, ItemsAssumption DEF GearInv, Equipped, ItemStats
<1>2. CASE ~Equipped(s)'
  BY <1>2 DEF ItemStats, Statless, Stat
<1> QED BY <1>1, <1>2

(* Only the item of one slot changes, and it gets no worse.                *)
Improves(s) ==
  /\ GearInv /\ GearInv' /\ UNCHANGED query
  /\ NotWorse(s) /\ \A t \in Worn \ {s} : gear'[t] = gear[t]

LEMMA OthersKeepTheirs ==
  ASSUME NEW s \in Slots, Improves(s), NEW t \in Worn, t # s
  PROVE  ItemStats(t)' = ItemStats(t) /\ Equipped(t)' = Equipped(t)
BY DEF Improves, ItemStats, Equipped

(* Then no resistance of the character falls, and the gaps do not grow     *)
(* (CharacterStats, stats.go:167-176, Analyze, scorer.go:69-77).           *)
LEMMA GapsShrink ==
  ASSUME NEW s \in Slots, Improves(s)
  PROVE  TotalGap \in Nat /\ TotalGap' \in Nat /\ TotalGap' <= TotalGap
<1>0. s \in Worn /\ GearInv /\ GearInv'
  BY DEF Worn, Improves
<1>1. ASSUME NEW r \in Resistances
      PROVE  ResGap(r) \in Nat /\ ResGap(r)' \in Nat /\ ResGap(r)' <= ResGap(r)
  <2> DEFINE e == [slot \in Worn |-> ItemStats(slot).res[r]]
             f == [slot \in Worn |-> ItemStats(slot)'.res[r]]
  <2>1. ASSUME NEW t \in Worn
        PROVE  /\ ItemStats(t).res[r] \in Nat /\ ItemStats(t)'.res[r] \in Nat
               /\ ItemStats(t).res[r] <= ItemStats(t)'.res[r]
    <3>1. ItemStats(t) \in Stat /\ ItemStats(t)' \in Stat
      BY <1>0, StatsTyped, StatsTypedNext
    <3>2. CASE t = s
      BY <3>1, <3>2 DEF Improves, NotWorse, AtLeast, Stat
    <3>3. CASE t # s
      BY <3>1, <3>3, OthersKeepTheirs DEF Stat
    <3> QED BY <3>2, <3>3
  <2>2. e \in [Worn -> Nat] /\ f \in [Worn -> Nat] /\ \A t \in Worn : e[t] <= f[t]
    BY <2>1
  <2>3. CharacterRes(r) = SumFunction(e) /\ CharacterRes(r)' = SumFunction(f)
    BY DEF CharacterRes
  <2> HIDE DEF e, f
  <2>4. CharacterRes(r) \in Nat /\ CharacterRes(r)' \in Nat /\ CharacterRes(r) <= CharacterRes(r)'
    BY <2>2, <2>3, WornFinite, SumGrows
  <2> QED BY <2>4 DEF ResGap, ResCap
<1> DEFINE g == [r \in Resistances |-> ResGap(r)]
           h == [r \in Resistances |-> ResGap(r)']
<1>2. g \in [Resistances -> Nat] /\ h \in [Resistances -> Nat]
      /\ \A r \in Resistances : h[r] <= g[r]
  BY <1>1
<1>3. TotalGap = SumFunction(g) /\ TotalGap' = SumFunction(h)
  BY DEF TotalGap
<1> HIDE DEF g, h
<1> QED BY <1>2, <1>3, SlotsAssumption, SumGrows

(* The parts of a score that look at the slot's own item.                  *)
OwnScore(slot) == Emptiness(slot) + Survival(slot) + Attributes(slot) + Offence(slot)

Counted(slot) ==
  /\ Emptiness(slot) \in Int /\ Survival(slot) \in Int
  /\ Attributes(slot) \in Int /\ Offence(slot) \in Int

LEMMA OwnScoreFalls ==
  ASSUME NEW s \in Slots, Improves(s), CanRollRes(s)
  PROVE  /\ Counted(s) /\ Counted(s)'
         /\ OwnScore(s) \in Int /\ OwnScore(s)' \in Int /\ OwnScore(s)' <= OwnScore(s)
<1> DEFINE a == ItemStats(s)
           b == ItemStats(s)'
<1>0. s \in Worn /\ GearInv /\ GearInv'
  BY DEF Worn, Improves
<1>1. /\ a \in Stat /\ b \in Stat /\ a.def <= b.def /\ a.attr <= b.attr /\ a.off <= b.off
  BY <1>0, StatsTyped, StatsTypedNext DEF Improves, NotWorse, AtLeast, Stat
<1>2. /\ a.def \in Nat /\ a.attr \in Nat /\ a.off \in Nat
      /\ b.def \in Nat /\ b.attr \in Nat /\ b.off \in Nat
  BY <1>1 DEF Stat
<1>3. Goals' = Goals
  BY DEF Improves, query, Goals
<1>4. Emptiness(s) \in Int /\ Emptiness(s)' \in Int /\ Emptiness(s)' <= Emptiness(s)
  BY DEF Emptiness, Improves, NotWorse
<1>5. Survival(s) \in Int /\ Survival(s)' \in Int /\ Survival(s)' <= Survival(s)
  <2> DEFINE w == Weight["survival"]
             m == 2 + 200 \div (a.def + 50)
             n == 2 + 200 \div (b.def + 50)
  <2>1. w \in Nat
    BY GoalsAssumption DEF AllGoals
  <2>2. m \in Int /\ n \in Int /\ n <= m
    <3> DEFINE x == a.def
               y == b.def
    <3>1. x \in Nat /\ y \in Nat /\ x <= y /\ 200 \in Nat /\ 50 \in Nat \ {0}
      BY <1>1, <1>2
    <3> HIDE DEF x, y
    <3>2. 200 \div (y + 50) \in Nat /\ 200 \div (y + 50) <= 200 \div (x + 50)
      BY <3>1, QuotientFalls
    <3>3. 200 \div (x + 50) \in Nat
      BY <3>1
    <3>4. m = 2 + 200 \div (x + 50) /\ n = 2 + 200 \div (y + 50)
      BY DEF x, y
    <3> HIDE DEF m, n
    <3> QED BY <3>2, <3>3, <3>4
  <2>3. w * m \in Int /\ w * n \in Int /\ w * n <= w * m
    BY <2>1, <2>2, ProductGrows
  <2>4. /\ Survival(s) = IF "survival" \notin Goals THEN 0 ELSE w * m
        /\ Survival(s)' = IF "survival" \notin Goals THEN 0 ELSE w * n
    BY <1>3 DEF Survival
  <2> HIDE DEF w, m, n
  <2> QED BY <2>3, <2>4
<1>6. Attributes(s) \in Int /\ Attributes(s)' \in Int /\ Attributes(s)' <= Attributes(s)
  <2> DEFINE w == Weight["attributes"]
             m == 2 + 60 \div (a.attr + 20)
             n == 2 + 60 \div (b.attr + 20)
  <2>1. w \in Nat
    BY GoalsAssumption DEF AllGoals
  <2>2. m \in Int /\ n \in Int /\ n <= m
    <3> DEFINE x == a.attr
               y == b.attr
    <3>1. x \in Nat /\ y \in Nat /\ x <= y /\ 60 \in Nat /\ 20 \in Nat \ {0}
      BY <1>1, <1>2
    <3> HIDE DEF x, y
    <3>2. 60 \div (y + 20) \in Nat /\ 60 \div (y + 20) <= 60 \div (x + 20)
      BY <3>1, QuotientFalls
    <3>3. 60 \div (x + 20) \in Nat
      BY <3>1
    <3>4. m = 2 + 60 \div (x + 20) /\ n = 2 + 60 \div (y + 20)
      BY DEF x, y
    <3> HIDE DEF m, n
    <3> QED BY <3>2, <3>3, <3>4
  <2>3. w * m \in Int /\ w * n \in Int /\ w * n <= w * m
    BY <2>1, <2>2, ProductGrows
  <2>4. /\ Attributes(s) = IF "attributes" \notin Goals \/ ~CanRollRes(s) THEN 0 ELSE w * m
        /\ Attributes(s)' = IF "attributes" \notin Goals \/ ~CanRollRes(s) THEN 0 ELSE w * n
    BY <1>3 DEF Attributes, CanRollRes
  <2> HIDE DEF w, m, n
  <2> QED BY <2>3, <2>4
<1>7. Offence(s) \in Int /\ Offence(s)' \in Int /\ Offence(s)' <= Offence(s)
  <2> DEFINE w == Weight["dps"]
             m == 10 + 400 \div (a.off + 20)
             n == 10 + 400 \div (b.off + 20)
  <2>1. w \in Nat
    BY GoalsAssumption DEF AllGoals
  <2>2. m \in Int /\ n \in Int /\ n <= m
    <3> DEFINE x == a.off
               y == b.off
    <3>1. x \in Nat /\ y \in Nat /\ x <= y /\ 400 \in Nat /\ 20 \in Nat \ {0}
      BY <1>1, <1>2
    <3> HIDE DEF x, y
    <3>2. 400 \div (y + 20) \in Nat /\ 400 \div (y + 20) <= 400 \div (x + 20)
      BY <3>1, QuotientFalls
    <3>3. 400 \div (x + 20) \in Nat
      BY <3>1
    <3>4. m = 10 + 400 \div (x + 20) /\ n = 10 + 400 \div (y + 20)
      BY DEF x, y
    <3> HIDE DEF m, n
    <3> QED BY <3>2, <3>3, <3>4
  <2>3. w * m \in Int /\ w * n \in Int /\ w * n <= w * m
    BY <2>1, <2>2, ProductGrows
  <2>4. /\ Offence(s) = IF "dps" \notin Goals \/ ~IsOffensive(s) THEN 0 ELSE w * m
        /\ Offence(s)' = IF "dps" \notin Goals \/ ~IsOffensive(s) THEN 0 ELSE w * n
    BY <1>3 DEF Offence, IsOffensive
  <2> HIDE DEF w, m, n
  <2> QED BY <2>3, <2>4
<1> QED BY <1>4, <1>5, <1>6, <1>7 DEF OwnScore, Counted

LEMMA OwnScoreKept ==
  ASSUME NEW s \in Slots, Improves(s), NEW t \in Slots, t # s
  PROVE  /\ Counted(t) /\ Counted(t)'
         /\ OwnScore(t) \in Int /\ OwnScore(t)' = OwnScore(t)
<1>0. t \in Worn /\ GearInv
  BY DEF Worn, Improves
<1>1. ItemStats(t) \in Stat /\ ItemStats(t)' = ItemStats(t) /\ Equipped(t)' = Equipped(t)
  BY <1>0, StatsTyped, OthersKeepTheirs
<1>2. Goals' = Goals
  BY DEF Improves, query, Goals
<1>3. /\ Weight["survival"] \in Nat /\ Weight["attributes"] \in Nat /\ Weight["dps"] \in Nat
  BY GoalsAssumption DEF AllGoals
<1> DEFINE d == ItemStats(t).def
           a == ItemStats(t).attr
           o == ItemStats(t).off
<1>4. /\ d \in Nat /\ a \in Nat /\ o \in Nat
  BY <1>1 DEF Stat
<1>5. /\ 200 \div (d + 50) \in Int /\ 60 \div (a + 20) \in Int /\ 400 \div (o + 20) \in Int
  BY <1>4
<1>6. Emptiness(t) \in Int /\ Emptiness(t)' = Emptiness(t)
  BY <1>1 DEF Emptiness
<1>7. Survival(t) \in Int /\ Survival(t)' = Survival(t)
  <2>1. Survival(t)' = Survival(t)
    BY <1>1, <1>2 DEF Survival
  <2> QED BY <1>3, <1>5, <2>1 DEF Survival
<1>8. Attributes(t) \in Int /\ Attributes(t)' = Attributes(t)
  <2>1. Attributes(t)' = Attributes(t)
    BY <1>1, <1>2 DEF Attributes, CanRollRes
  <2> QED BY <1>3, <1>5, <2>1 DEF Attributes
<1>9. Offence(t) \in Int /\ Offence(t)' = Offence(t)
  <2>1. Offence(t)' = Offence(t)
    BY <1>1, <1>2 DEF Offence, IsOffensive
  <2> QED BY <1>3, <1>5, <2>1 DEF Offence
<1> QED BY <1>6, <1>7, <1>8, <1>9 DEF OwnScore, Counted

(* Improving an item takes from its slot what it takes from the gaps, and  *)
(* no other slot loses more.                                               *)
LEMMA GapsAreShared ==
  ASSUME NEW s \in Slots, Improves(s), CanRollRes(s), NEW t \in Slots
  PROVE  /\ Resists(s) \in Int /\ Resists(s)' \in Int
         /\ Resists(t) \in Int /\ Resists(t)' \in Int
         /\ Resists(s)' - Resists(s) <= Resists(t)' - Resists(t)
<1> DEFINE w == Weight["resists"]
           m == TotalGap
           n == TotalGap'
<1>1. w \in Nat
  BY GoalsAssumption DEF AllGoals
<1>2. m \in Nat /\ n \in Nat /\ n <= m
  BY GapsShrink
<1>3. w * m \in Int /\ w * n \in Int /\ w * n <= w * m
  BY <1>1, <1>2, ProductGrows
<1>4. Goals' = Goals
  BY DEF Improves, query, Goals
<1>5. \A u \in Slots :
        /\ Resists(u) = IF "resists" \notin Goals \/ ~CanRollRes(u) THEN 0 ELSE w * m
        /\ Resists(u)' = IF "resists" \notin Goals \/ ~CanRollRes(u) THEN 0 ELSE w * n
  BY <1>4 DEF Resists, CanRollRes
<1> HIDE DEF w, m, n
<1> QED BY <1>3, <1>5

(* Improving the item of a slot that gaps count for never moves the slot   *)
(* up in the ranking, for any weights, items and resistances (Analyze,     *)
(* scorer.go:65-98).                                                       *)
THEOREM ImprovedIsNotUrgent == Spec => NeverUpTheRanking
<1>1. ASSUME GearInv, GearInv', [Next]_vars, ~UNCHANGED vars,
             NEW s \in Slots, CanRollRes(s), NotWorse(s),
             \A t \in Worn \ {s} : gear'[t] = gear[t],
             NEW t \in Slots, Before(t, s)
      PROVE  Before(t, s)'
  <2>1. Improves(s)
    BY <1>1 DEF Improves, Next, Equip
  <2>2. CASE t = s
    <3>1. Counted(s) /\ Resists(s) \in Int
      BY <1>1, <2>1, OwnScoreFalls, GapsAreShared
    <3>2. Score(s) \in Int
      BY <3>1 DEF Score, Counted
    <3>3. Position(s) \in Int
      BY SlotsAssumption DEF Position, Slots
    <3> QED BY <1>1, <2>2, <3>2, <3>3 DEF Before
  <2>3. CASE t # s
    <3>1. /\ OwnScore(s) \in Int /\ OwnScore(s)' \in Int /\ OwnScore(s)' <= OwnScore(s)
          /\ OwnScore(t) \in Int /\ OwnScore(t)' = OwnScore(t)
          /\ Counted(s) /\ Counted(s)' /\ Counted(t) /\ Counted(t)'
      BY <1>1, <2>1, <2>3, OwnScoreFalls, OwnScoreKept
    <3>2. /\ Resists(s) \in Int /\ Resists(s)' \in Int
          /\ Resists(t) \in Int /\ Resists(t)' \in Int
          /\ Resists(s)' - Resists(s) <= Resists(t)' - Resists(t)
      BY <1>1, <2>1, GapsAreShared
    <3>3. /\ Score(s) = OwnScore(s) + Resists(s) /\ Score(t) = OwnScore(t) + Resists(t)
          /\ Score(s)' = OwnScore(s)' + Resists(s)' /\ Score(t)' = OwnScore(t)' + Resists(t)'
      BY <3>1, <3>2 DEF Score, OwnScore, Counted
    <3>4. Position(s)' = Position(s) /\ Position(t)' = Position(t)
      BY DEF Position
    <3>5. Score(s)' \in Int /\ Score(t)' \in Int /\ Score(s)' - Score(s) <= Score(t)' - Score(t)
          /\ Score(s) \in Int /\ Score(t) \in Int
      BY <3>1, <3>2, <3>3
    <3>6. CASE Score(t) > Score(s)
      <4>1. Score(t)' > Score(s)'
        BY <3>5, <3>6
      <4> QED BY <4>1 DEF Before
    <3>7. CASE Score(t) = Score(s) /\ Position(t) < Position(s)
      <4>1. Score(t)' > Score(s)' \/ Score(t)' = Score(s)'
        BY <3>5, <3>7
      <4> QED BY <3>4, <3>7, <4>1 DEF Before
    <3> QED BY <1>1, <3>6, <3>7 DEF Before
  <2> QED BY <2>2, <2>3
<1>2. GearInv /\ GearInv' /\ [Next]_vars =>
        [\A s \in Slots :
           CanRollRes(s) /\ NotWorse(s) /\ (\A t \in Worn \ {s} : gear'[t] = gear[t])
             => \A t \in Slots : Before(t, s) => Before(t, s)']_vars
  BY <1>1
<1> QED BY <1>2, GearInvariant, PTL DEF Spec, NeverUpTheRanking
=============================================================================
