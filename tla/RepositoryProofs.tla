-------------------------- MODULE RepositoryProofs --------------------------
(***************************************************************************)
(* What the queries of Repository return, for every database: the loops    *)
(* that fill a list of recommendations, and the sums of the spend summary. *)
(*                                                                         *)
(* The library's induction theorems take a predicate, which the provers    *)
(* cannot supply.  Here induction is over a SET of the cases for which the *)
(* claim holds: a set of numbers, or of subsets of a finite set, that has  *)
(* no least case missing has none missing.                                 *)
(***************************************************************************)
EXTENDS Repository, FiniteSetTheorems, SequenceTheorems, TLAPS

(* Induction *)

\* A case holds when all smaller sets are cases that hold: then all hold.
LEMMA SubsetInduction ==
  ASSUME NEW S, IsFiniteSet(S), NEW Holds \in SUBSET (SUBSET S),
         \A T \in SUBSET S : (\A U \in SUBSET T : U # T => U \in Holds) => T \in Holds
  PROVE  Holds = SUBSET S
<1> SUFFICES ASSUME Holds # SUBSET S PROVE FALSE
  OBVIOUS
<1> DEFINE Fails == (SUBSET S) \ Holds
<1>1. Fails \subseteq SUBSET S /\ Fails # {}
  OBVIOUS
<1>2. IsWellFoundedOn(StrictSubsetOrdering(S), SUBSET S)
  <2>1. FiniteSubsetsOf(S) = SUBSET S
    BY FS_FiniteSubsetsOfFinite
  <2>2. IsWellFoundedOn(StrictSubsetOrdering(S), FiniteSubsetsOf(S))
    BY FS_StrictSubsetOrderingWellFounded
  <2> QED
    BY <2>1, <2>2
<1>3. \E T \in Fails : \A U \in Fails : <<U, T>> \notin StrictSubsetOrdering(S)
  <2> HIDE DEF Fails
  <2> QED
    BY <1>1, <1>2, WFMin
<1>4. PICK T \in Fails : \A U \in Fails : <<U, T>> \notin StrictSubsetOrdering(S)
  BY <1>3
<1>5. \A U \in SUBSET T : U # T => U \in Holds
  <2> TAKE U \in SUBSET T
  <2> HAVE U # T
  <2>1. <<U, T>> \in StrictSubsetOrdering(S)
    BY <1>4 DEF StrictSubsetOrdering
  <2> QED
    BY <1>4, <2>1
<1> QED
  BY <1>4, <1>5

Below == {p \in Nat \X Nat : p[1] < p[2]}

\* From 0 one at a time to n.
LEMMA CountUp ==
  ASSUME NEW n \in Nat, NEW Holds, 0 \in Holds,
         \A k \in 1 .. n : k - 1 \in Holds => k \in Holds
  PROVE  \A k \in 0 .. n : k \in Holds
<1> DEFINE Fails == {k \in 0 .. n : k \notin Holds}
<1> SUFFICES ASSUME Fails # {} PROVE FALSE
  OBVIOUS
<1>1. Fails \subseteq Nat
  OBVIOUS
<1>2. IsWellFoundedOn(Below, Nat)
  BY NatLessThanWellFounded DEF OpToRel, Below
<1>3. \E k \in Fails : \A j \in Fails : <<j, k>> \notin Below
  <2> HIDE DEF Fails
  <2> QED
    BY <1>1, <1>2, WFMin
<1>4. PICK k \in Fails : \A j \in Fails : <<j, k>> \notin Below
  BY <1>3
<1>5. k \in 1 .. n /\ k - 1 \in 0 .. n
  BY <1>4
<1>6. k - 1 \in Holds
  <2>1. k - 1 \in Nat /\ k \in Nat /\ k - 1 < k
    BY <1>5
  <2>2. <<k - 1, k>> \in Below
    BY <2>1 DEF Below
  <2> QED
    BY <1>4, <1>5, <2>2
<1> QED
  BY <1>4, <1>5, <1>6

-----------------------------------------------------------------------------
(* Loops: the recursive functions behind the folds exist *)

PicksFrom(pick, S) ==
  pick \in [(SUBSET S) \ {{}} -> S] /\ \A T \in (SUBSET S) \ {{}} : pick[T] \in T

\* What a loop over the members of S, in the order of pick, has made of each
\* subset: base of none, and step takes the one picked and what the rest made.
Makes(made, S, V, base, pick, step) ==
  /\ made \in [SUBSET S -> V]
  /\ made[{}] = base
  /\ \A T \in (SUBSET S) \ {{}} : made[T] = step[<<pick[T], made[T \ {pick[T]}]>>]

LEMMA LoopExists ==
  ASSUME NEW S, IsFiniteSet(S), NEW V, NEW base \in V, NEW pick, PicksFrom(pick, S),
         NEW step \in [S \X V -> V]
  PROVE  \E made : Makes(made, S, V, base, pick, step)
<1> DEFINE Rest(T)  == T \ {pick[T]}
           Obeys(made, T) == made[T] = step[<<pick[T], made[Rest(T)]>>]
           Upto(n) == \E made \in [SUBSET S -> V] :
                        /\ made[{}] = base
                        /\ \A T \in (SUBSET S) \ {{}} :
                             Cardinality(T) <= n => Obeys(made, T)
           Holds   == {n \in Nat : Upto(n)}
<1>1. \A T \in SUBSET S : /\ IsFiniteSet(T) /\ Cardinality(T) \in Nat
                          /\ Cardinality(T) = 0 <=> T = {}
                          /\ Cardinality(T) <= Cardinality(S)
  BY FS_Subset, FS_CardinalityType, FS_EmptySet
<1>2. \A T \in (SUBSET S) \ {{}} :
        pick[T] \in T /\ Rest(T) \in SUBSET S /\ Cardinality(Rest(T)) = Cardinality(T) - 1
  BY <1>1, FS_RemoveElement DEF PicksFrom
<1>3. 0 \in Holds
  <2> DEFINE made == [T \in SUBSET S |-> base]
  <2>1. made \in [SUBSET S -> V] /\ made[{}] = base
    OBVIOUS
  <2>2. \A T \in (SUBSET S) \ {{}} : ~(Cardinality(T) <= 0)
    BY <1>1
  <2> HIDE DEF made
  <2> QED
    BY <2>1, <2>2
<1>4. Cardinality(S) \in Nat
  BY FS_CardinalityType
<1>5. ASSUME NEW n \in 1 .. Cardinality(S), n - 1 \in Holds PROVE n \in Holds
  <2>1. PICK old \in [SUBSET S -> V] :
          /\ old[{}] = base
          /\ \A T \in (SUBSET S) \ {{}} : Cardinality(T) <= n - 1 => Obeys(old, T)
    BY <1>5
  <2> DEFINE made == [T \in SUBSET S |->
                        IF Cardinality(T) = n THEN step[<<pick[T], old[Rest(T)]>>] ELSE old[T]]
  <2>2. n \in Nat /\ n # 0
    BY <1>4
  <2>3. \A T \in SUBSET S : Cardinality(T) = n => T # {}
    BY <1>1, <2>2
  <2>4. made \in [SUBSET S -> V]
    <3>1. ASSUME NEW T \in SUBSET S, Cardinality(T) = n
          PROVE  step[<<pick[T], old[Rest(T)]>>] \in V
      <4>1. pick[T] \in S /\ old[Rest(T)] \in V
        BY <1>2, <2>3, <3>1
      <4> HIDE DEF Rest
      <4> QED
        BY <4>1
    <3> HIDE DEF Rest
    <3> QED
      BY <3>1
  <2>5. made[{}] = base
    BY <2>1, <2>3
  <2>6. ASSUME NEW T \in (SUBSET S) \ {{}}, Cardinality(T) <= n PROVE Obeys(made, T)
    <3>1. Cardinality(T) \in Nat /\ Cardinality(Rest(T)) = Cardinality(T) - 1
          /\ Rest(T) \in SUBSET S
      BY <1>1, <1>2
    <3> HIDE DEF Rest
    <3>2. made[Rest(T)] = old[Rest(T)]
      BY <2>2, <2>6, <3>1
    <3>3. CASE Cardinality(T) = n
      BY <3>2, <3>3
    <3>4. CASE Cardinality(T) <= n - 1
      <4>1. made[T] = old[T] /\ Obeys(old, T)
        BY <2>1, <2>2, <3>1, <3>4
      <4> QED
        BY <3>2, <4>1
    <3> QED
      BY <2>2, <2>6, <3>1, <3>3, <3>4
  <2> HIDE DEF made, Obeys
  <2> QED
    BY <2>2, <2>4, <2>5, <2>6
<1>6. Cardinality(S) \in Holds
  <2> HIDE DEF Holds
  <2> QED
    BY <1>3, <1>4, <1>5, CountUp
<1>7. PICK made \in [SUBSET S -> V] :
        /\ made[{}] = base
        /\ \A T \in (SUBSET S) \ {{}} : Cardinality(T) <= Cardinality(S) => Obeys(made, T)
  BY <1>6
<1> QED
  BY <1>1, <1>7 DEF Makes

-----------------------------------------------------------------------------
(* ORDER BY *)

\* A function on 1 .. n is a sequence of length n.
LEMMA SequenceOf ==
  ASSUME NEW n \in Nat, NEW S, NEW seq \in [1 .. n -> S]
  PROVE  seq \in Seq(S) /\ Len(seq) = n /\ DOMAIN seq = 1 .. n
  BY SeqDef

\* R is a total order on S.
Orders(R, S) ==
  /\ \A x \in S : <<x, x>> \notin R
  /\ \A x, y \in S : x # y => <<x, y>> \in R \/ <<y, x>> \in R
  /\ \A x, y, z \in S : <<x, y>> \in R /\ <<y, z>> \in R => <<x, z>> \in R

\* The n-th of seq has n - 1 of S before it.
Counts(seq, R, S) ==
  /\ seq = [n \in 1 .. Cardinality(S) |-> seq[n]]
  /\ \A n \in 1 .. Cardinality(S) :
       (\E x \in S : Cardinality({y \in S : <<y, x>> \in R}) = n - 1)
         => /\ seq[n] \in S
            /\ Cardinality({y \in S : <<y, seq[n]>> \in R}) = n - 1

\* seq lists all of S, in the order of R.
Ranks(seq, R, S) ==
  /\ seq \in Seq(S) /\ Len(seq) = Cardinality(S)
  /\ \A x \in S : \E n \in DOMAIN seq : seq[n] = x
  /\ \A m, n \in DOMAIN seq : m < n => <<seq[m], seq[n]>> \in R

\* Counting what comes before numbers the members of S from 1 on.
LEMMA Ranking ==
  ASSUME NEW S, IsFiniteSet(S), NEW R, Orders(R, S), NEW seq, Counts(seq, R, S)
  PROVE  Ranks(seq, R, S)
<1> USE DEF Orders, Counts
<1> DEFINE N       == Cardinality(S)
           Lower(x) == {y \in S : <<y, x>> \in R}
           rank    == [x \in S |-> Cardinality(Lower(x)) + 1]
<1>1. N \in Nat
  BY FS_CardinalityType
<1>2. \A x \in S : IsFiniteSet(Lower(x)) /\ Cardinality(Lower(x)) \in Nat
  <2> TAKE x \in S
  <2>1. Lower(x) \in SUBSET S
    OBVIOUS
  <2> HIDE DEF Lower
  <2>2. IsFiniteSet(Lower(x))
    BY <2>1, FS_Subset
  <2> QED
    BY <2>2, FS_CardinalityType
<1>3. ASSUME NEW x \in S, NEW y \in S, <<x, y>> \in R
      PROVE  Cardinality(Lower(x)) < Cardinality(Lower(y))
  <2>1. Lower(x) \in SUBSET Lower(y) /\ Lower(x) # Lower(y)
    BY <1>3
  <2> HIDE DEF Lower
  <2>2. /\ Cardinality(Lower(x)) <= Cardinality(Lower(y))
        /\ Cardinality(Lower(x)) # Cardinality(Lower(y))
    BY <1>2, <2>1, FS_Subset
  <2> QED
    BY <1>2, <2>2
<1>4. \A x \in S : rank[x] \in 1 .. N
  <2> TAKE x \in S
  <2>1. Lower(x) \in SUBSET S /\ Lower(x) # S
    OBVIOUS
  <2> HIDE DEF Lower
  <2>2. Cardinality(Lower(x)) <= N /\ Cardinality(Lower(x)) # N
    BY <2>1, FS_Subset
  <2> QED
    BY <1>1, <1>2, <2>2
<1>5. \A x, y \in S : rank[x] = rank[y] => x = y
  <2> TAKE x, y \in S
  <2> HAVE rank[x] = rank[y]
  <2>1. /\ Cardinality(Lower(x)) \in Nat
        /\ Cardinality(Lower(x)) = Cardinality(Lower(y))
    <3> HIDE DEF Lower
    <3> QED
      BY <1>2
  <2>2. <<x, y>> \in R => Cardinality(Lower(x)) < Cardinality(Lower(y))
    BY <1>3
  <2>3. <<y, x>> \in R => Cardinality(Lower(y)) < Cardinality(Lower(x))
    BY <1>3
  <2> HIDE DEF Lower
  <2> QED
    BY <2>1, <2>2, <2>3
<1>6. \A n \in 1 .. N : \E x \in S : rank[x] = n
  <2>1. rank \in Injection(S, 1 .. N)
    <3> HIDE DEF Lower
    <3>1. rank \in [S -> 1 .. N]
      BY <1>4
    <3> HIDE DEF rank
    <3> QED
      BY <1>5, <3>1 DEF Injection, IsInjective
  <2>2. IsFiniteSet(1 .. N) /\ Cardinality(1 .. N) = N
    BY <1>1, FS_Interval
  <2> HIDE DEF rank
  <2>3. rank \in Surjection(S, 1 .. N)
    BY <2>1, <2>2, FS_Injection
  <2> QED
    BY <2>3 DEF Surjection
<1>7. \A n \in 1 .. N : seq[n] \in S /\ rank[seq[n]] = n
  <2> TAKE n \in 1 .. N
  <2>1. PICK x \in S : rank[x] = n
    BY <1>6
  <2>2. Cardinality(Lower(x)) = n - 1
    <3> HIDE DEF Lower
    <3> QED
      BY <1>2, <2>1
  <2>3. seq[n] \in S /\ Cardinality(Lower(seq[n])) = n - 1
    BY <2>2
  <2> HIDE DEF Lower
  <2> QED
    BY <1>1, <2>3
<1>8. seq \in Seq(S) /\ Len(seq) = N /\ DOMAIN seq = 1 .. N
  <2> HIDE DEF N, rank
  <2>1. seq = [n \in 1 .. N |-> seq[n]]
    BY DEF N
  <2>2. seq \in [1 .. N -> S]
    BY <1>7, <2>1
  <2> QED
    BY <1>1, <2>2, SequenceOf
<1> HIDE DEF rank, Lower
<1>9. \A x \in S : \E n \in DOMAIN seq : seq[n] = x
  BY <1>4, <1>5, <1>7, <1>8
<1>10. \A m, n \in DOMAIN seq : m < n => <<seq[m], seq[n]>> \in R
  <2> TAKE m, n \in DOMAIN seq
  <2> HAVE m < n
  <2>1. seq[m] \in S /\ seq[n] \in S /\ rank[seq[m]] = m /\ rank[seq[n]] = n
    BY <1>7, <1>8
  <2>2. <<seq[n], seq[m]>> \in R => rank[seq[n]] < rank[seq[m]]
    BY <1>2, <1>3, <2>1 DEF rank
  <2> QED
    BY <1>1, <1>8, <2>1, <2>2
<1> QED
  BY <1>8, <1>9, <1>10 DEF Ranks, N

\* What the sorts below compare.
LEMMA Ids ==
  /\ IsFiniteSet(Invoices) /\ IsFiniteSet(Lines) /\ IsFiniteSet(Tracks)
  /\ IsFiniteSet(Artists) /\ IsFiniteSet(Genres)
  /\ Invoices \subseteq Int /\ Tracks \subseteq Int /\ Artists \subseteq Int
  /\ Genres \subseteq Int /\ Albums \subseteq Int
  BY IdsAssumption

\* Every invoice of the customer, the newest first.
LEMMA NewestFirst ==
  ASSUME chinook \in DatabaseShape, NEW c
  PROVE  LET all == InOrder(OwnInvoices(c), Newer) IN
         /\ all \in Seq(OwnInvoices(c)) /\ Len(all) = Cardinality(OwnInvoices(c))
         /\ \A i \in OwnInvoices(c) : \E n \in DOMAIN all : all[n] = i
         /\ \A m, n \in DOMAIN all : m < n => Newer(all[m], all[n])
<1> DEFINE S   == OwnInvoices(c)
           R   == {p \in S \X S : Newer(p[1], p[2])}
           all == InOrder(S, Newer)
<1>1. S \subseteq Invoices /\ \A i \in S : i \in Int /\ chinook.date[i] \in Nat
  BY Ids DEF OwnInvoices, DatabaseShape
<1>2. IsFiniteSet(S)
  BY <1>1, Ids, FS_Subset
<1> HIDE DEF S
<1>3. \A x, y \in S : <<x, y>> \in R <=> Newer(x, y)
  OBVIOUS
<1>4. /\ \A x \in S : ~Newer(x, x)
      /\ \A x, y \in S : x # y => Newer(x, y) \/ Newer(y, x)
      /\ \A x, y, z \in S : Newer(x, y) /\ Newer(y, z) => Newer(x, z)
  <2>1. \A x, y \in S : /\ chinook.date[x] \in Nat /\ chinook.date[y] \in Nat
                         /\ x \in Int /\ y \in Int
    BY <1>1
  <2>2. \A x \in S : ~Newer(x, x)
    BY <2>1 DEF Newer
  <2>3. \A x, y \in S : x # y => Newer(x, y) \/ Newer(y, x)
    BY <2>1 DEF Newer
  <2>4. ASSUME NEW x \in S, NEW y \in S, NEW z \in S, Newer(x, y), Newer(y, z)
        PROVE  Newer(x, z)
    BY <2>1, <2>4 DEF Newer
  <2> QED
    BY <2>2, <2>3, <2>4
<1>5. all = [n \in 1 .. Cardinality(S) |-> all[n]]
  BY DEF InOrder
<1>6. ASSUME NEW n \in 1 .. Cardinality(S), NEW x \in S,
             Cardinality({y \in S : <<y, x>> \in R}) = n - 1
      PROVE  /\ all[n] \in S
             /\ Cardinality({y \in S : <<y, all[n]>> \in R}) = n - 1
  <2>1. \A z \in S : {y \in S : <<y, z>> \in R} = {y \in S : Newer(y, z)}
    BY <1>3
  <2>2. all[n] = CHOOSE z \in S : Cardinality({y \in S : Newer(y, z)}) = n - 1
    BY DEF InOrder
  <2>3. Cardinality({y \in S : Newer(y, x)}) = n - 1
    BY <1>6, <2>1
  <2>4. all[n] \in S /\ Cardinality({y \in S : Newer(y, all[n])}) = n - 1
    BY <2>2, <2>3
  <2> QED
    BY <2>1, <2>4
<1> HIDE DEF R, all
<1>7. Ranks(all, R, S)
  <2>1. Orders(R, S)
    BY <1>3, <1>4 DEF Orders
  <2>2. Counts(all, R, S)
    BY <1>5, <1>6 DEF Counts
  <2> QED
    BY <1>2, <2>1, <2>2, Ranking
<1>8. \A m \in DOMAIN all : all[m] \in S
  BY <1>7 DEF Ranks
<1> QED
  BY <1>3, <1>7, <1>8 DEF S, all, Ranks

\* Everything bought at all, and nothing else.
LEMMA MostBoughtLists ==
  ASSUME NEW All, IsFiniteSet(All), All \subseteq Int, NEW bought \in [All -> Nat]
  PROVE  LET top == MostBought(All, bought) IN
         /\ top \in Seq(All)
         /\ \A x \in All : bought[x] > 0 => \E n \in DOMAIN top : top[n] = x
<1> DEFINE S == {x \in All : bought[x] > 0}
           Before(x, y) == \/ bought[x] > bought[y]
                           \/ bought[x] = bought[y] /\ x < y
           R   == {p \in S \X S : Before(p[1], p[2])}
           Item(n) == CHOOSE x \in S : Cardinality({y \in S : Before(y, x)}) = n - 1
           top == MostBought(All, bought)
<1>1. S \subseteq All /\ \A x \in S : x \in Int /\ bought[x] \in Nat
  OBVIOUS
<1>2. IsFiniteSet(S)
  BY <1>1, FS_Subset
<1>3. top = [n \in 1 .. Cardinality(S) |-> Item(n)]
  BY DEF MostBought, InOrder
<1> HIDE DEF S, top, Item
<1>4. top = [n \in 1 .. Cardinality(S) |-> top[n]]
  BY <1>3
<1>5. \A x, y \in S : <<x, y>> \in R <=> Before(x, y)
  OBVIOUS
<1>6. Orders(R, S)
  BY <1>1 DEF Orders
<1> HIDE DEF Before
<1>7. ASSUME NEW n \in 1 .. Cardinality(S), NEW x \in S,
             Cardinality({y \in S : <<y, x>> \in R}) = n - 1
      PROVE  /\ top[n] \in S
             /\ Cardinality({y \in S : <<y, top[n]>> \in R}) = n - 1
  <2>1. \A z \in S : {y \in S : <<y, z>> \in R} = {y \in S : Before(y, z)}
    BY <1>5
  <2>2. Cardinality({y \in S : Before(y, x)}) = n - 1
    BY <1>7, <2>1
  <2>3. top[n] \in S /\ Cardinality({y \in S : Before(y, top[n])}) = n - 1
    BY <1>3, <2>2 DEF Item
  <2> QED
    BY <2>1, <2>3
<1>8. Counts(top, R, S)
  BY <1>7, <1>4 DEF Counts
<1> HIDE DEF R
<1>9. Ranks(top, R, S)
  BY <1>2, <1>6, <1>8, Ranking
<1>10. top \in Seq(All)
  BY <1>1, <1>9, SeqMonotonic DEF Ranks
<1> QED
  BY <1>9, <1>10 DEF S, top, Ranks

\* Every track of S, and nothing else.
LEMMA CatalogLists ==
  ASSUME chinook \in DatabaseShape, NEW S \in SUBSET Tracks
  PROVE  InCatalogOrder(S) \in Seq(S) /\ ToSet(InCatalogOrder(S)) = S
<1> DEFINE Before(t, u) == \/ chinook.albumOf[t] < chinook.albumOf[u]
                           \/ chinook.albumOf[t] = chinook.albumOf[u] /\ t < u
           R    == {p \in S \X S : Before(p[1], p[2])}
           Item(n) == CHOOSE t \in S : Cardinality({u \in S : Before(u, t)}) = n - 1
           rows == InCatalogOrder(S)
<1>1. \A t \in S : t \in Int /\ chinook.albumOf[t] \in Int
  <2>1. chinook.albumOf \in [Tracks -> Albums \cup {0}]
    BY DEF DatabaseShape
  <2>2. Tracks \subseteq Int /\ Albums \cup {0} \subseteq Int
    BY Ids
  <2> QED
    BY <2>1, <2>2
<1>2. IsFiniteSet(S)
  BY Ids, FS_Subset
<1>3. rows = [n \in 1 .. Cardinality(S) |-> Item(n)]
  BY DEF InCatalogOrder, InOrder
<1> HIDE DEF rows, Item
<1>4. rows = [n \in 1 .. Cardinality(S) |-> rows[n]]
  BY <1>3
<1>5. \A t, u \in S : <<t, u>> \in R <=> Before(t, u)
  OBVIOUS
<1>6. Orders(R, S)
  BY <1>1 DEF Orders
<1> HIDE DEF Before
<1>7. ASSUME NEW n \in 1 .. Cardinality(S), NEW t \in S,
             Cardinality({u \in S : <<u, t>> \in R}) = n - 1
      PROVE  /\ rows[n] \in S
             /\ Cardinality({u \in S : <<u, rows[n]>> \in R}) = n - 1
  <2>1. \A v \in S : {u \in S : <<u, v>> \in R} = {u \in S : Before(u, v)}
    BY <1>5
  <2>2. Cardinality({u \in S : Before(u, t)}) = n - 1
    BY <1>7, <2>1
  <2>3. rows[n] \in S /\ Cardinality({u \in S : Before(u, rows[n])}) = n - 1
    BY <1>3, <2>2 DEF Item
  <2> QED
    BY <2>1, <2>3
<1>8. Counts(rows, R, S)
  BY <1>7, <1>4 DEF Counts
<1> HIDE DEF R
<1>9. Ranks(rows, R, S)
  BY <1>2, <1>6, <1>8, Ranking
<1>10. ToSet(rows) = S
  BY <1>9 DEF ToSet, Ranks
<1> QED
  BY <1>9, <1>10 DEF rows, Ranks

-----------------------------------------------------------------------------
(* A loop over a sequence: FoldLeft takes the last index first, and recurs *)

LEMMA LargestIndex ==
  ASSUME NEW n \in Nat, NEW T \in (SUBSET (1 .. n)) \ {{}}
  PROVE  Max(T) \in T /\ \A x \in T : Max(T) >= x
<1> DEFINE Gaps == {k \in Nat : n - k \in T}
<1>1. Gaps \subseteq Nat /\ Gaps # {}
  <2>1. PICK x \in T : TRUE
    OBVIOUS
  <2>2. x \in 1 .. n /\ n - x \in Nat /\ n - (n - x) = x
    OBVIOUS
  <2>3. n - x \in Gaps
    BY <2>1, <2>2
  <2> QED
    BY <2>3
<1>2. IsWellFoundedOn(Below, Nat)
  BY NatLessThanWellFounded DEF OpToRel, Below
<1>3. \E k \in Gaps : \A j \in Gaps : <<j, k>> \notin Below
  <2> HIDE DEF Gaps
  <2> QED
    BY <1>1, <1>2, WFMin
<1>4. PICK k \in Gaps : \A j \in Gaps : <<j, k>> \notin Below
  BY <1>3
<1>5. n - k \in T /\ \A x \in T : n - k >= x
  <2> SUFFICES ASSUME NEW x \in T PROVE n - k >= x
    BY <1>4
  <2>1. x \in 1 .. n /\ n - x \in Nat /\ n - (n - x) = x /\ k \in Nat
    BY <1>4
  <2>2. n - x \in Gaps
    BY <2>1
  <2>3. ~(n - x < k)
    BY <1>4, <2>1, <2>2 DEF Below
  <2> QED
    BY <2>1, <2>3
<1> QED
  BY <1>5 DEF Max

LEMMA LargestOfInterval ==
  ASSUME NEW k \in Nat \ {0}
  PROVE  Max(1 .. k) = k /\ (1 .. k) \ {k} = 1 .. k - 1
<1>1. Max(1 .. k) \in 1 .. k /\ \A x \in 1 .. k : Max(1 .. k) >= x
  <2>1. 1 \in 1 .. k
    OBVIOUS
  <2> QED
    BY <2>1, LargestIndex
<1> QED
  BY <1>1

Largest(n) == [T \in (SUBSET (1 .. n)) \ {{}} |-> Max(T)]

LEMMA IndexLoop ==
  ASSUME NEW n \in Nat, NEW V, NEW base \in V, NEW step \in [(1 .. n) \X V -> V]
  PROVE  \E made : Makes(made, 1 .. n, V, base, Largest(n), step)
<1>1. IsFiniteSet(1 .. n)
  BY FS_Interval
<1>2. PicksFrom(Largest(n), 1 .. n)
  BY LargestIndex DEF Largest, PicksFrom
<1> QED
  BY <1>1, <1>2, LoopExists

-----------------------------------------------------------------------------
(* take(): one pass over the rows *)

Reasons   == {"seed", "artist", "genre"}
Picks     == [track : Tracks, reason : Reasons]
PickLists == Seq(Picks)

\* The list after one row more.
Offered(sofar, t, reason, owned, bound) ==
  IF Len(sofar) < bound /\ NotYetTaken(t, owned, sofar)
    THEN Append(sofar, [track |-> t, reason |-> reason])
    ELSE sofar

\* Take is the list after the last row.
LEMMA TakeLoop ==
  ASSUME NEW picks \in PickLists, NEW rows \in Seq(Tracks), NEW reason \in Reasons,
         NEW owned, NEW bound
  PROVE  \E list :
           /\ list[0] = picks
           /\ \A k \in 1 .. Len(rows) :
                list[k] = Offered(list[k - 1], rows[k], reason, owned, bound)
           /\ Take(picks, rows, reason, owned, bound) = list[Len(rows)]
<1> DEFINE n == Len(rows)
           After(sofar, k) == Offered(sofar, rows[k], reason, owned, bound)
           step == [p \in (1 .. n) \X PickLists |-> After(p[2], p[1])]
           Made(T, made) == IF T = {} THEN picks ELSE After(made[T \ {Max(T)}], Max(T))
           loop == CHOOSE made : made = [T \in SUBSET (1 .. n) |-> Made(T, made)]
<1>1. n \in Nat /\ DOMAIN rows = 1 .. n /\ \A k \in 1 .. n : rows[k] \in Tracks
  BY LenProperties
<1>2. Take(picks, rows, reason, owned, bound) = loop[1 .. n]
  BY <1>1 DEF Take, Offered, FoldLeft, MapThenFoldSet
<1>3. step \in [(1 .. n) \X PickLists -> PickLists]
  <2> SUFFICES ASSUME NEW k \in 1 .. n, NEW sofar \in PickLists
               PROVE  After(sofar, k) \in PickLists
    OBVIOUS
  <2>1. [track |-> rows[k], reason |-> reason] \in Picks
    BY <1>1 DEF Picks
  <2>2. Append(sofar, [track |-> rows[k], reason |-> reason]) \in PickLists
    BY <2>1, AppendProperties DEF PickLists
  <2> QED
    BY <2>2 DEF Offered
<1>4. loop = [T \in SUBSET (1 .. n) |-> Made(T, loop)]
  <2>1. PICK made : Makes(made, 1 .. n, PickLists, picks, Largest(n), step)
    <3> HIDE DEF step, n, Made, loop, After
    <3>1. n \in Nat
      BY <1>1
    <3> QED
      BY <1>3, <3>1, IndexLoop
  <2>2. \A T \in SUBSET (1 .. n) : made[T] = Made(T, made)
    <3> SUFFICES ASSUME NEW T \in SUBSET (1 .. n), T # {}
                 PROVE  made[T] = After(made[T \ {Max(T)}], Max(T))
      BY <2>1 DEF Makes
    <3>1. Max(T) \in 1 .. n /\ made[T \ {Max(T)}] \in PickLists
      <4>1. Max(T) \in 1 .. n
        BY <1>1, LargestIndex
      <4>2. T \ {Max(T)} \in SUBSET (1 .. n) /\ made \in [SUBSET (1 .. n) -> PickLists]
        BY <2>1 DEF Makes
      <4> QED
        BY <4>1, <4>2
    <3>2. made[T] = step[<<Max(T), made[T \ {Max(T)}]>>]
      BY <2>1 DEF Makes, Largest
    <3> HIDE DEF After
    <3> QED
      BY <3>1, <3>2
  <2>3. made = [T \in SUBSET (1 .. n) |-> Made(T, made)]
    <3>1. made \in [SUBSET (1 .. n) -> PickLists]
      BY <2>1 DEF Makes
    <3> HIDE DEF Made, n
    <3> QED
      BY <2>2, <3>1
  <2>4. \E some : some = [T \in SUBSET (1 .. n) |-> Made(T, some)]
    BY <2>3
  <2> HIDE DEF Made, n, step
  <2> QED
    BY <2>4, Zenon
<1> HIDE DEF loop
<1> DEFINE list == [k \in 0 .. n |-> loop[1 .. k]]
<1>5. list[0] = picks
  <2>1. 1 .. 0 = {} /\ 0 \in 0 .. n
    <3> HIDE DEF n
    <3> QED
      BY <1>1
  <2>2. loop[{}] = picks
    <3>1. {} \in SUBSET (1 .. n) /\ Made({}, loop) = picks
      OBVIOUS
    <3> HIDE DEF Made, n
    <3> QED
      BY <1>4, <3>1
  <2>3. list[0] = loop[1 .. 0]
    <3> HIDE DEF n
    <3> QED
      BY <2>1
  <2> QED
    BY <2>1, <2>2, <2>3
<1>6. ASSUME NEW k \in 1 .. n PROVE list[k] = After(list[k - 1], k)
  <2>1. /\ k \in Nat \ {0} /\ 1 .. k \in SUBSET (1 .. n) /\ 1 .. k # {}
        /\ k \in 0 .. n /\ k - 1 \in 0 .. n
    <3> HIDE DEF n
    <3>1. n \in Nat
      BY <1>1
    <3>2. k \in Nat \ {0} /\ k <= n
      BY <3>1
    <3>3. 1 .. k # {} /\ 1 .. k \in SUBSET (1 .. n)
      <4>1. k \in 1 .. k
        BY <3>2
      <4>2. \A j \in 1 .. k : j \in 1 .. n
        BY <3>1, <3>2
      <4> QED
        BY <4>1, <4>2
    <3> QED
      BY <3>1, <3>2, <3>3
  <2>2. Max(1 .. k) = k /\ (1 .. k) \ {k} = 1 .. k - 1
    BY <2>1, LargestOfInterval
  <2> HIDE DEF After
  <2> QED
    BY <1>4, <2>1, <2>2
<1>7. list[n] = loop[1 .. n]
  BY <1>1
<1> HIDE DEF list
<1> QED
  BY <1>2, <1>5, <1>6, <1>7

-----------------------------------------------------------------------------
(* What one pass does to the list *)

\* Nothing owned, nothing outside pool, no artist twice, and not too long.
Sound(picks, pool, owned, bound) ==
  /\ picks \in PickLists /\ Len(picks) <= bound
  /\ \A n \in DOMAIN picks : picks[n].track \in pool /\ picks[n].track \notin owned
  /\ \A m, n \in DOMAIN picks :
       ArtistKey(picks[m].track) = ArtistKey(picks[n].track) => m = n

\* No track of S could be added.
Covers(picks, S, owned, bound) ==
  Len(picks) < bound => \A t \in S : t \in owned \/ ArtistKey(t) \in Credited(picks)

\* picks, and then tracks taken for that reason.
Extends(more, picks, reason) ==
  /\ Len(picks) <= Len(more)
  /\ \A n \in DOMAIN picks : more[n] = picks[n]
  /\ \A n \in DOMAIN more : n > Len(picks) => more[n].reason = reason

LEMMA Indexes ==
  ASSUME NEW picks \in PickLists
  PROVE  /\ Len(picks) \in Nat /\ DOMAIN picks = 1 .. Len(picks)
         /\ \A n \in DOMAIN picks : picks[n] \in Picks
  BY LenProperties DEF PickLists

LEMMA CreditGrows ==
  ASSUME NEW picks \in PickLists, NEW more \in PickLists, NEW reason,
         Extends(more, picks, reason)
  PROVE  Credited(picks) \subseteq Credited(more)
<1>1. \A n \in DOMAIN picks : n \in DOMAIN more /\ more[n] = picks[n]
  BY Indexes DEF Extends
<1>2. Picked(picks) \subseteq Picked(more)
  BY <1>1 DEF Picked
<1> QED
  BY <1>2 DEF Credited

LEMMA ExtendsOn ==
  ASSUME NEW p \in PickLists, NEW q \in PickLists, NEW r \in PickLists, NEW reason,
         Extends(q, p, reason), Extends(r, q, reason)
  PROVE  Extends(r, p, reason)
<1>1. /\ Len(p) \in Nat /\ DOMAIN p = 1 .. Len(p)
      /\ Len(q) \in Nat /\ DOMAIN q = 1 .. Len(q)
      /\ Len(r) \in Nat /\ DOMAIN r = 1 .. Len(r)
  BY Indexes
<1>2. Len(p) <= Len(r) /\ \A n \in DOMAIN p : r[n] = p[n]
  BY <1>1 DEF Extends
<1>3. \A n \in DOMAIN r : n > Len(p) => r[n].reason = reason
  <2> TAKE n \in DOMAIN r
  <2> HAVE n > Len(p)
  <2>1. CASE n > Len(q)
    BY <2>1 DEF Extends
  <2>2. CASE n <= Len(q)
    <3>1. n \in DOMAIN q /\ r[n] = q[n]
      BY <1>1, <2>2 DEF Extends
    <3> QED
      BY <3>1 DEF Extends
  <2> QED
    BY <1>1, <2>1, <2>2
<1> QED
  BY <1>2, <1>3 DEF Extends

LEMMA CoversOn ==
  ASSUME NEW picks \in PickLists, NEW more \in PickLists, NEW reason,
         Extends(more, picks, reason), NEW S, NEW owned, NEW bound \in Nat,
         Covers(picks, S, owned, bound)
  PROVE  Covers(more, S, owned, bound)
<1>1. Credited(picks) \subseteq Credited(more)
  BY CreditGrows
<1>2. Len(picks) \in Nat /\ Len(more) \in Nat /\ Len(picks) <= Len(more)
  BY Indexes DEF Extends
<1> QED
  BY <1>1, <1>2 DEF Covers

LEMMA ExtendsSelf == \A picks \in PickLists : \A reason : Extends(picks, picks, reason)
<1> TAKE picks \in PickLists
<1> TAKE reason
<1>1. Len(picks) \in Nat /\ DOMAIN picks = 1 .. Len(picks)
  BY Indexes
<1> QED
  BY <1>1 DEF Extends

\* One row: the list stays sound, only grows, and covers that row's track.
LEMMA OfferKeeps ==
  ASSUME NEW pool \in SUBSET Tracks, NEW owned, NEW bound \in Nat, NEW t \in pool,
         NEW reason \in Reasons, NEW sofar, Sound(sofar, pool, owned, bound),
         NEW more, more = Offered(sofar, t, reason, owned, bound)
  PROVE  /\ Sound(more, pool, owned, bound)
         /\ Extends(more, sofar, reason)
         /\ Covers(more, {t}, owned, bound)
<1> DEFINE pick == [track |-> t, reason |-> reason]
<1>1. /\ sofar \in PickLists /\ Len(sofar) \in Nat /\ DOMAIN sofar = 1 .. Len(sofar)
      /\ Len(sofar) <= bound
  BY Indexes DEF Sound
<1>2. CASE Len(sofar) < bound /\ NotYetTaken(t, owned, sofar)
  <2>1. more = Append(sofar, pick)
    BY <1>2 DEF Offered
  <2>2. pick \in Picks /\ pick.track = t /\ pick.reason = reason
    BY DEF Picks
  <2> HIDE DEF pick
  <2>3. /\ more \in PickLists /\ Len(more) = Len(sofar) + 1
        /\ \A n \in 1 .. Len(sofar) : more[n] = sofar[n]
        /\ more[Len(sofar) + 1] = pick
    BY <1>1, <2>1, <2>2, AppendProperties DEF PickLists
  <2>4. Len(more) \in Nat /\ DOMAIN more = 1 .. Len(sofar) + 1
    BY <2>3, Indexes
  <2>5. \A n \in DOMAIN more : \/ n \in DOMAIN sofar /\ more[n] = sofar[n]
                               \/ n = Len(sofar) + 1 /\ more[n] = pick
    BY <1>1, <2>3, <2>4
  <2>6. t \notin owned /\ \A n \in DOMAIN sofar : ArtistKey(sofar[n].track) # ArtistKey(t)
    BY <1>2 DEF NotYetTaken, NotYetOwned, Picked, Credited
  <2>7. Extends(more, sofar, reason)
    BY <1>1, <2>2, <2>3, <2>4, <2>5 DEF Extends
  <2>8. \A n \in DOMAIN more : more[n].track \in pool /\ more[n].track \notin owned
    BY <2>2, <2>5, <2>6 DEF Sound
  <2>9. \A m, n \in DOMAIN more :
          ArtistKey(more[m].track) = ArtistKey(more[n].track) => m = n
    BY <1>1, <2>2, <2>5, <2>6 DEF Sound
  <2>10. Len(more) <= bound
    BY <1>1, <1>2, <2>3
  <2>11. ArtistKey(t) \in Credited(more)
    <3>1. Len(sofar) + 1 \in DOMAIN more
      BY <1>1, <2>4
    <3> QED
      BY <2>2, <2>3, <3>1 DEF Credited, Picked
  <2> QED
    BY <2>3, <2>7, <2>8, <2>9, <2>10, <2>11 DEF Sound, Covers
<1>3. CASE ~(Len(sofar) < bound /\ NotYetTaken(t, owned, sofar))
  <2>1. more = sofar
    BY <1>3 DEF Offered
  <2>2. Len(sofar) < bound => t \in owned \/ ArtistKey(t) \in Credited(sofar)
    BY <1>3 DEF NotYetTaken, NotYetOwned, Credited
  <2>3. Extends(more, sofar, reason)
    BY <1>1, <2>1, ExtendsSelf
  <2> QED
    BY <2>1, <2>2, <2>3 DEF Covers
<1> QED
  BY <1>2, <1>3

\* What a pass promises of its result.
Passes(result, picks, S, pool, reason, owned, bound) ==
  /\ Sound(result, pool, owned, bound)
  /\ Extends(result, picks, reason)
  /\ Covers(result, S, owned, bound)

LEMMA TakeTyped ==
  ASSUME NEW picks \in PickLists, NEW rows \in Seq(Tracks), NEW reason \in Reasons,
         NEW owned, NEW bound
  PROVE  Take(picks, rows, reason, owned, bound) \in PickLists
<1>1. PICK list :
        /\ list[0] = picks
        /\ \A k \in 1 .. Len(rows) :
             list[k] = Offered(list[k - 1], rows[k], reason, owned, bound)
        /\ Take(picks, rows, reason, owned, bound) = list[Len(rows)]
  BY TakeLoop
<1>2. Len(rows) \in Nat /\ \A k \in 1 .. Len(rows) : rows[k] \in Tracks
  BY LenProperties
<1> DEFINE Holds == {k \in 0 .. Len(rows) : list[k] \in PickLists}
<1>3. 0 \in Holds
  BY <1>1, <1>2
<1>4. ASSUME NEW k \in 1 .. Len(rows), k - 1 \in Holds PROVE k \in Holds
  <2>1. list[k - 1] \in PickLists /\ k \in 0 .. Len(rows)
    BY <1>2, <1>4
  <2>2. [track |-> rows[k], reason |-> reason] \in Picks
    BY <1>2 DEF Picks
  <2>3. Append(list[k - 1], [track |-> rows[k], reason |-> reason]) \in PickLists
    BY <2>1, <2>2, AppendProperties DEF PickLists
  <2>4. list[k] \in PickLists
    BY <1>1, <2>1, <2>3 DEF Offered
  <2> QED
    BY <2>1, <2>4
<1>5. Len(rows) \in 0 .. Len(rows)
  BY <1>2
<1>6. \A k \in 0 .. Len(rows) : k \in Holds
  <2> HIDE DEF Holds
  <2> QED
    BY <1>2, <1>3, <1>4, CountUp
<1> QED
  BY <1>1, <1>5, <1>6

\* A whole pass covers every row it was given.
LEMMA TakePasses ==
  ASSUME NEW pool \in SUBSET Tracks, NEW owned, NEW bound \in Nat, NEW reason \in Reasons,
         NEW picks, Sound(picks, pool, owned, bound), NEW rows \in Seq(pool)
  PROVE  Passes(Take(picks, rows, reason, owned, bound), picks, ToSet(rows), pool,
                reason, owned, bound)
<1>1. Len(rows) \in Nat /\ DOMAIN rows = 1 .. Len(rows)
      /\ \A k \in 1 .. Len(rows) : rows[k] \in pool
  BY LenProperties
<1>2. rows \in Seq(Tracks) /\ picks \in PickLists
  BY SeqMonotonic DEF Sound
<1>3. PICK list :
        /\ list[0] = picks
        /\ \A k \in 1 .. Len(rows) :
             list[k] = Offered(list[k - 1], rows[k], reason, owned, bound)
        /\ Take(picks, rows, reason, owned, bound) = list[Len(rows)]
  BY <1>2, TakeLoop
<1> DEFINE Upto(k) == {rows[j] : j \in 1 .. k}
           Holds   == {k \in 0 .. Len(rows) :
                         Passes(list[k], picks, Upto(k), pool, reason, owned, bound)}
<1>4. 0 \in Holds
  <2>1. 0 \in 0 .. Len(rows) /\ Upto(0) = {}
    BY <1>1
  <2>2. Extends(picks, picks, reason) /\ Covers(picks, {}, owned, bound)
    BY <1>2, ExtendsSelf DEF Covers
  <2> QED
    BY <1>3, <2>1, <2>2 DEF Passes
<1>5. ASSUME NEW k \in 1 .. Len(rows), k - 1 \in Holds PROVE k \in Holds
  <2> DEFINE sofar == list[k - 1]
             more  == list[k]
  <2>1. /\ Sound(sofar, pool, owned, bound)
        /\ Extends(sofar, picks, reason)
        /\ Covers(sofar, Upto(k - 1), owned, bound)
    BY <1>5 DEF Passes
  <2>2. more = Offered(sofar, rows[k], reason, owned, bound) /\ rows[k] \in pool
    BY <1>1, <1>3
  <2> HIDE DEF sofar, more, Holds, Upto
  <2>3. /\ Sound(more, pool, owned, bound)
        /\ Extends(more, sofar, reason)
        /\ Covers(more, {rows[k]}, owned, bound)
    BY <2>1, <2>2, OfferKeeps
  <2>4. sofar \in PickLists /\ more \in PickLists
    BY <2>1, <2>3 DEF Sound
  <2>5. Extends(more, picks, reason)
    BY <1>2, <2>1, <2>3, <2>4, ExtendsOn
  <2>6. Covers(more, Upto(k - 1), owned, bound)
    BY <2>1, <2>3, <2>4, CoversOn
  <2>7. Upto(k) = Upto(k - 1) \cup {rows[k]}
    <3>1. 1 .. k = (1 .. k - 1) \cup {k}
      BY <1>1
    <3> QED
      BY <3>1 DEF Upto
  <2>8. Covers(more, Upto(k), owned, bound)
    BY <2>3, <2>6, <2>7 DEF Covers
  <2>9. k \in 0 .. Len(rows)
    BY <1>1
  <2> QED
    BY <2>3, <2>5, <2>8, <2>9 DEF Passes, Holds, more
<1>6. \A k \in 0 .. Len(rows) : k \in Holds
  <2> HIDE DEF Holds
  <2> QED
    BY <1>1, <1>4, <1>5, CountUp
<1>7. Len(rows) \in 0 .. Len(rows) /\ Upto(Len(rows)) = ToSet(rows)
  BY <1>1 DEF ToSet
<1> HIDE DEF Upto
<1> QED
  BY <1>3, <1>6, <1>7

\* TakeEach is the list after the last shelf.
LEMMA TakeEachLoop ==
  ASSUME NEW picks \in PickLists, NEW shelves \in Seq(Seq(Tracks)), NEW reason \in Reasons,
         NEW owned, NEW bound
  PROVE  \E list :
           /\ list[0] = picks
           /\ \A k \in 1 .. Len(shelves) :
                list[k] = Take(list[k - 1], shelves[k], reason, owned, bound)
           /\ TakeEach(picks, shelves, reason, owned, bound) = list[Len(shelves)]
<1> DEFINE n == Len(shelves)
           After(sofar, k) == Take(sofar, shelves[k], reason, owned, bound)
           step == [p \in (1 .. n) \X PickLists |-> After(p[2], p[1])]
           Made(T, made) == IF T = {} THEN picks ELSE After(made[T \ {Max(T)}], Max(T))
           loop == CHOOSE made : made = [T \in SUBSET (1 .. n) |-> Made(T, made)]
<1>1. n \in Nat /\ DOMAIN shelves = 1 .. n /\ \A k \in 1 .. n : shelves[k] \in Seq(Tracks)
  BY LenProperties
<1>2. TakeEach(picks, shelves, reason, owned, bound) = loop[1 .. n]
  BY <1>1 DEF TakeEach, FoldLeft, MapThenFoldSet
<1>3. step \in [(1 .. n) \X PickLists -> PickLists]
  <2> SUFFICES ASSUME NEW k \in 1 .. n, NEW sofar \in PickLists
               PROVE  After(sofar, k) \in PickLists
    OBVIOUS
  <2> QED
    BY <1>1, TakeTyped
<1>4. loop = [T \in SUBSET (1 .. n) |-> Made(T, loop)]
  <2>1. PICK made : Makes(made, 1 .. n, PickLists, picks, Largest(n), step)
    <3> HIDE DEF step, n, Made, loop, After
    <3>1. n \in Nat
      BY <1>1
    <3> QED
      BY <1>3, <3>1, IndexLoop
  <2>2. \A T \in SUBSET (1 .. n) : made[T] = Made(T, made)
    <3> SUFFICES ASSUME NEW T \in SUBSET (1 .. n), T # {}
                 PROVE  made[T] = After(made[T \ {Max(T)}], Max(T))
      BY <2>1 DEF Makes
    <3>1. Max(T) \in 1 .. n /\ made[T \ {Max(T)}] \in PickLists
      <4>1. Max(T) \in 1 .. n
        BY <1>1, LargestIndex
      <4>2. T \ {Max(T)} \in SUBSET (1 .. n) /\ made \in [SUBSET (1 .. n) -> PickLists]
        BY <2>1 DEF Makes
      <4> QED
        BY <4>1, <4>2
    <3>2. made[T] = step[<<Max(T), made[T \ {Max(T)}]>>]
      BY <2>1 DEF Makes, Largest
    <3> HIDE DEF After
    <3> QED
      BY <3>1, <3>2
  <2>3. made = [T \in SUBSET (1 .. n) |-> Made(T, made)]
    <3>1. made \in [SUBSET (1 .. n) -> PickLists]
      BY <2>1 DEF Makes
    <3> HIDE DEF Made, n
    <3> QED
      BY <2>2, <3>1
  <2>4. \E some : some = [T \in SUBSET (1 .. n) |-> Made(T, some)]
    BY <2>3
  <2> HIDE DEF Made, n, step
  <2> QED
    BY <2>4, Zenon
<1> HIDE DEF loop
<1> DEFINE list == [k \in 0 .. n |-> loop[1 .. k]]
<1>5. list[0] = picks
  <2>1. 1 .. 0 = {} /\ 0 \in 0 .. n
    <3> HIDE DEF n
    <3> QED
      BY <1>1
  <2>2. loop[{}] = picks
    <3>1. {} \in SUBSET (1 .. n) /\ Made({}, loop) = picks
      OBVIOUS
    <3> HIDE DEF Made, n
    <3> QED
      BY <1>4, <3>1
  <2>3. list[0] = loop[1 .. 0]
    <3> HIDE DEF n
    <3> QED
      BY <2>1
  <2> QED
    BY <2>1, <2>2, <2>3
<1>6. ASSUME NEW k \in 1 .. n PROVE list[k] = After(list[k - 1], k)
  <2>1. /\ k \in Nat \ {0} /\ 1 .. k \in SUBSET (1 .. n) /\ 1 .. k # {}
        /\ k \in 0 .. n /\ k - 1 \in 0 .. n
    <3> HIDE DEF n
    <3>1. n \in Nat
      BY <1>1
    <3>2. k \in Nat \ {0} /\ k <= n
      BY <3>1
    <3>3. 1 .. k # {} /\ 1 .. k \in SUBSET (1 .. n)
      <4>1. k \in 1 .. k
        BY <3>2
      <4>2. \A j \in 1 .. k : j \in 1 .. n
        BY <3>1, <3>2
      <4> QED
        BY <4>1, <4>2
    <3> QED
      BY <3>1, <3>2, <3>3
  <2>2. Max(1 .. k) = k /\ (1 .. k) \ {k} = 1 .. k - 1
    BY <2>1, LargestOfInterval
  <2> HIDE DEF After
  <2> QED
    BY <1>4, <2>1, <2>2
<1>7. list[n] = loop[1 .. n]
  BY <1>1
<1> HIDE DEF list
<1> QED
  BY <1>2, <1>5, <1>6, <1>7

\* All the passes together cover every row of every shelf.
LEMMA TakeEachPasses ==
  ASSUME NEW pool \in SUBSET Tracks, NEW owned, NEW bound \in Nat, NEW reason \in Reasons,
         NEW picks, Sound(picks, pool, owned, bound), NEW shelves \in Seq(Seq(pool))
  PROVE  Passes(TakeEach(picks, shelves, reason, owned, bound), picks,
                UNION {ToSet(shelves[n]) : n \in DOMAIN shelves}, pool, reason, owned, bound)
<1>1. Len(shelves) \in Nat /\ DOMAIN shelves = 1 .. Len(shelves)
      /\ \A k \in 1 .. Len(shelves) : shelves[k] \in Seq(pool)
  BY LenProperties
<1>2. shelves \in Seq(Seq(Tracks)) /\ picks \in PickLists
  <2>1. Seq(pool) \subseteq Seq(Tracks)
    BY SeqMonotonic
  <2> QED
    BY <2>1, SeqMonotonic DEF Sound
<1>3. PICK list :
        /\ list[0] = picks
        /\ \A k \in 1 .. Len(shelves) :
             list[k] = Take(list[k - 1], shelves[k], reason, owned, bound)
        /\ TakeEach(picks, shelves, reason, owned, bound) = list[Len(shelves)]
  BY <1>2, TakeEachLoop
<1> DEFINE Upto(k) == UNION {ToSet(shelves[j]) : j \in 1 .. k}
           Holds   == {k \in 0 .. Len(shelves) :
                         Passes(list[k], picks, Upto(k), pool, reason, owned, bound)}
<1>4. 0 \in Holds
  <2>1. 0 \in 0 .. Len(shelves) /\ Upto(0) = {}
    BY <1>1
  <2>2. Extends(picks, picks, reason) /\ Covers(picks, {}, owned, bound)
    BY <1>2, ExtendsSelf DEF Covers
  <2> QED
    BY <1>3, <2>1, <2>2 DEF Passes
<1>5. ASSUME NEW k \in 1 .. Len(shelves), k - 1 \in Holds PROVE k \in Holds
  <2> DEFINE sofar == list[k - 1]
             more  == list[k]
             shelf == ToSet(shelves[k])
  <2>1. /\ Sound(sofar, pool, owned, bound)
        /\ Extends(sofar, picks, reason)
        /\ Covers(sofar, Upto(k - 1), owned, bound)
    BY <1>5 DEF Passes
  <2>2. more = Take(sofar, shelves[k], reason, owned, bound) /\ shelves[k] \in Seq(pool)
    BY <1>1, <1>3
  <2>3. Upto(k) = Upto(k - 1) \cup shelf
    <3>1. 1 .. k = (1 .. k - 1) \cup {k}
      BY <1>1
    <3> QED
      BY <3>1
  <2> HIDE DEF sofar, more, Holds, Upto
  <2>4. Passes(more, sofar, shelf, pool, reason, owned, bound)
    BY <2>1, <2>2, TakePasses
  <2>5. sofar \in PickLists /\ more \in PickLists
    BY <2>1, <2>4 DEF Passes, Sound
  <2>6. Extends(more, picks, reason)
    BY <1>2, <2>1, <2>4, <2>5, ExtendsOn DEF Passes
  <2>7. Covers(more, Upto(k - 1), owned, bound)
    BY <2>1, <2>4, <2>5, CoversOn DEF Passes
  <2>8. Covers(more, Upto(k), owned, bound)
    <3> HIDE DEF shelf
    <3> QED
      BY <2>3, <2>4, <2>7 DEF Covers, Passes
  <2>9. k \in 0 .. Len(shelves)
    BY <1>1
  <2> QED
    BY <2>4, <2>6, <2>8, <2>9 DEF Passes, Holds, more
<1>6. \A k \in 0 .. Len(shelves) : k \in Holds
  <2> HIDE DEF Holds
  <2> QED
    BY <1>1, <1>4, <1>5, CountUp
<1>7. /\ Len(shelves) \in 0 .. Len(shelves)
      /\ Upto(Len(shelves)) = UNION {ToSet(shelves[n]) : n \in DOMAIN shelves}
  BY <1>1
<1> HIDE DEF Upto
<1> QED
  BY <1>3, <1>6, <1>7

-----------------------------------------------------------------------------
(* recommend_tracks() *)

LEMMA ClampBounds ==
  ASSUME NEW limit \in Int, NEW most \in Nat \ {0}
  PROVE  Clamp(limit, most) \in 1 .. most
  BY DEF Clamp

LEMMA FirstOfSeq ==
  ASSUME NEW S, NEW seq \in Seq(S), NEW n \in Nat
  PROVE  /\ FirstOf(seq, n) \in Seq(S)
         /\ Len(FirstOf(seq, n)) = IF n < Len(seq) THEN n ELSE Len(seq)
         /\ \A k \in DOMAIN FirstOf(seq, n) : k \in DOMAIN seq /\ FirstOf(seq, n)[k] = seq[k]
<1> DEFINE m == IF n < Len(seq) THEN n ELSE Len(seq)
<1>1. Len(seq) \in Nat /\ m \in Nat /\ m <= Len(seq) /\ DOMAIN seq = 1 .. Len(seq)
  BY LenProperties
<1>2. \A k \in 1 .. m : seq[k] \in S
  BY <1>1, ElementOfSeq
<1>3. FirstOf(seq, n) = SubSeq(seq, 1, m)
  BY DEF FirstOf
<1> HIDE DEF m
<1>4. /\ SubSeq(seq, 1, m) \in Seq(S) /\ Len(SubSeq(seq, 1, m)) = m
      /\ DOMAIN SubSeq(seq, 1, m) = 1 .. m
      /\ \A k \in 1 .. m : SubSeq(seq, 1, m)[k] = seq[k]
  BY <1>1, <1>2
<1> QED
  BY <1>1, <1>3, <1>4 DEF m

\* The tables: tracks of an artist, tracks of a genre.
ByArtist(a) == {t \in Tracks : HasArtist(t) /\ ArtistOf(t) = a}
ByGenre(g)  == {t \in Tracks : chinook.genreOf[t] = g}

LEMMA Shelves ==
  ASSUME chinook \in DatabaseShape
  PROVE  /\ \A a : /\ TracksByArtist(a) \in Seq(ByArtist(a))
                   /\ ToSet(TracksByArtist(a)) = ByArtist(a)
         /\ \A g : /\ TracksByGenre(g) \in Seq(ByGenre(g))
                   /\ ToSet(TracksByGenre(g)) = ByGenre(g)
<1>1. \A a : ByArtist(a) \in SUBSET Tracks
  BY DEF ByArtist
<1>2. \A g : ByGenre(g) \in SUBSET Tracks
  BY DEF ByGenre
<1>3. \A a : TracksByArtist(a) = InCatalogOrder(ByArtist(a))
  BY DEF TracksByArtist, ByArtist
<1>4. \A g : TracksByGenre(g) = InCatalogOrder(ByGenre(g))
  BY DEF TracksByGenre, ByGenre
<1> QED
  BY <1>1, <1>2, <1>3, <1>4, CatalogLists

LEMMA Favourites ==
  ASSUME NEW c
  PROVE  OwnedArtists(c) \in Seq(Artists) /\ GenreAffinity(c) \in Seq(Genres)
<1>1. \A L \in SUBSET Lines : Cardinality(L) \in Nat
  BY Ids, FS_Subset, FS_CardinalityType
<1>2. \A x : LinesOfArtist(c, x) \in SUBSET Lines /\ LinesOfGenre(c, x) \in SUBSET Lines
  BY DEF LinesOfArtist, LinesOfGenre, OwnLines
<1>3. [a \in Artists |-> Cardinality(LinesOfArtist(c, a))] \in [Artists -> Nat]
  BY <1>1, <1>2
<1>4. [g \in Genres |-> Cardinality(LinesOfGenre(c, g))] \in [Genres -> Nat]
  BY <1>1, <1>2
<1>5. OwnedArtists(c) \in Seq(Artists)
  BY <1>3, Ids, MostBoughtLists DEF OwnedArtists
<1>6. MostBought(Genres, [g \in Genres |-> Cardinality(LinesOfGenre(c, g))]) \in Seq(Genres)
  BY <1>4, Ids, MostBoughtLists
<1>7. GenreAffinity(c) \in Seq(Genres)
  BY <1>6, CapAssumption, FirstOfSeq DEF GenreAffinity
<1> QED
  BY <1>5, <1>7

LEMMA NothingYet ==
  ASSUME NEW pool, NEW owned, NEW bound \in Nat
  PROVE  Sound(<<>>, pool, owned, bound)
<1>1. <<>> \in PickLists /\ Len(<<>>) = 0 /\ DOMAIN <<>> = {}
  BY EmptySeq DEF PickLists
<1> QED
  BY <1>1 DEF Sound

\* The shelves of the artists a customer has bought from.
LEMMA ArtistsTaken ==
  ASSUME chinook \in DatabaseShape, NEW c, NEW owned, NEW bound \in Nat,
         NEW pool \in SUBSET Tracks,
         \A a \in ToSet(OwnedArtists(c)) : ByArtist(a) \subseteq pool,
         NEW picks, Sound(picks, pool, owned, bound)
  PROVE  Passes(FromArtists(c, picks, owned, bound), picks,
                UNION {ByArtist(a) : a \in ToSet(OwnedArtists(c))},
                pool, "artist", owned, bound)
<1> DEFINE artists == OwnedArtists(c)
           shelves == [n \in DOMAIN artists |-> TracksByArtist(artists[n])]
<1>1. artists \in Seq(Artists) /\ Len(artists) \in Nat /\ DOMAIN artists = 1 .. Len(artists)
  BY Favourites, LenProperties
<1>2. \A n \in DOMAIN artists : artists[n] \in ToSet(artists)
  BY DEF ToSet
<1>3. \A n \in DOMAIN artists : /\ shelves[n] \in Seq(pool)
                                /\ ToSet(shelves[n]) = ByArtist(artists[n])
  BY <1>2, Shelves, SeqMonotonic
<1>4. shelves \in Seq(Seq(pool)) /\ DOMAIN shelves = DOMAIN artists
  <2>1. shelves \in [1 .. Len(artists) -> Seq(pool)]
    <3> HIDE DEF artists
    <3> QED
      BY <1>1, <1>3
  <2> HIDE DEF shelves
  <2> QED
    BY <1>1, <2>1, SequenceOf
<1>5. FromArtists(c, picks, owned, bound) = TakeEach(picks, shelves, "artist", owned, bound)
  BY DEF FromArtists
<1>6. UNION {ToSet(shelves[n]) : n \in DOMAIN shelves}
        = UNION {ByArtist(a) : a \in ToSet(artists)}
  <2>1. ToSet(artists) = {artists[n] : n \in DOMAIN artists}
    BY DEF ToSet
  <2> HIDE DEF shelves, artists
  <2> QED
    BY <1>3, <1>4, <2>1
<1>7. "artist" \in Reasons
  BY DEF Reasons
<1> HIDE DEF shelves
<1>8. Passes(TakeEach(picks, shelves, "artist", owned, bound), picks,
             UNION {ToSet(shelves[n]) : n \in DOMAIN shelves}, pool, "artist", owned, bound)
  BY <1>4, <1>7, TakeEachPasses
<1> QED
  BY <1>5, <1>6, <1>8

\* The shelves of their strongest genres.
LEMMA GenresTaken ==
  ASSUME chinook \in DatabaseShape, NEW c, NEW owned, NEW bound \in Nat,
         NEW pool \in SUBSET Tracks,
         \A g \in ToSet(GenreAffinity(c)) : ByGenre(g) \subseteq pool,
         NEW picks, Sound(picks, pool, owned, bound)
  PROVE  Passes(FromGenres(c, picks, owned, bound), picks,
                UNION {ByGenre(g) : g \in ToSet(GenreAffinity(c))},
                pool, "genre", owned, bound)
<1> DEFINE genres  == GenreAffinity(c)
           shelves == [n \in DOMAIN genres |-> TracksByGenre(genres[n])]
<1>1. genres \in Seq(Genres) /\ Len(genres) \in Nat /\ DOMAIN genres = 1 .. Len(genres)
  BY Favourites, LenProperties
<1>2. \A n \in DOMAIN genres : genres[n] \in ToSet(genres)
  BY DEF ToSet
<1>3. \A n \in DOMAIN genres : /\ shelves[n] \in Seq(pool)
                               /\ ToSet(shelves[n]) = ByGenre(genres[n])
  BY <1>2, Shelves, SeqMonotonic
<1>4. shelves \in Seq(Seq(pool)) /\ DOMAIN shelves = DOMAIN genres
  <2>1. shelves \in [1 .. Len(genres) -> Seq(pool)]
    <3> HIDE DEF genres
    <3> QED
      BY <1>1, <1>3
  <2> HIDE DEF shelves
  <2> QED
    BY <1>1, <2>1, SequenceOf
<1>5. FromGenres(c, picks, owned, bound) = TakeEach(picks, shelves, "genre", owned, bound)
  BY DEF FromGenres
<1>6. UNION {ToSet(shelves[n]) : n \in DOMAIN shelves}
        = UNION {ByGenre(g) : g \in ToSet(genres)}
  <2>1. ToSet(genres) = {genres[n] : n \in DOMAIN genres}
    BY DEF ToSet
  <2> HIDE DEF shelves, genres
  <2> QED
    BY <1>3, <1>4, <2>1
<1>7. "genre" \in Reasons
  BY DEF Reasons
<1> HIDE DEF shelves
<1>8. Passes(TakeEach(picks, shelves, "genre", owned, bound), picks,
             UNION {ToSet(shelves[n]) : n \in DOMAIN shelves}, pool, "genre", owned, bound)
  BY <1>4, <1>7, TakeEachPasses
<1> QED
  BY <1>5, <1>6, <1>8

\* Sound picks have as many artists as tracks.
LEMMA OneArtistEach ==
  ASSUME NEW pool, NEW owned, NEW bound, NEW picks, Sound(picks, pool, owned, bound)
  PROVE  Cardinality(Credited(picks)) = Len(picks)
<1> DEFINE D   == DOMAIN picks
           key == [n \in D |-> ArtistKey(picks[n].track)]
<1>1. picks \in PickLists /\ Len(picks) \in Nat /\ D = 1 .. Len(picks)
  BY Indexes DEF Sound
<1>2. \A n \in D : key[n] = ArtistKey(picks[n].track)
  OBVIOUS
<1>3. Credited(picks) = {ArtistKey(picks[n].track) : n \in D}
  BY DEF Credited, Picked
<1>4. key \in [D -> Credited(picks)]
  BY <1>3
<1> HIDE DEF key
<1>5. \A m, n \in D : key[m] = key[n] => m = n
  BY <1>2 DEF Sound
<1>6. \A x \in Credited(picks) : \E n \in D : key[n] = x
  BY <1>2, <1>3
<1>7. key \in Bijection(D, Credited(picks))
  <2> HIDE DEF D
  <2>1. key \in Injection(D, Credited(picks))
    BY <1>4, <1>5 DEF Injection, IsInjective
  <2>2. key \in Surjection(D, Credited(picks))
    BY <1>4, <1>6 DEF Surjection
  <2> QED
    BY <2>1, <2>2 DEF Bijection
<1> HIDE DEF D
<1>8. ExistsBijection(1 .. Len(picks), Credited(picks))
  BY <1>1, <1>7 DEF ExistsBijection
<1> QED
  BY <1>1, <1>8, FS_CountingElements

\* What is taken for its genre comes after every familiar artist.
FamiliarFirst(picks, c, owned) ==
  \A n \in DOMAIN picks :
    picks[n].reason = "genre" =>
      \A a \in ToSet(OwnedArtists(c)) :
        \/ ByArtist(a) \subseteq owned
        \/ <<"artist", a>> \in Credited(FirstOf(picks, n - 1))

\* A track taken later leaves the earlier credits where they are.
LEMMA PrefixCredit ==
  ASSUME NEW p \in PickLists, NEW q \in PickLists, NEW reason, Extends(q, p, reason),
         NEW n \in DOMAIN q, n > Len(p)
  PROVE  Credited(p) \subseteq Credited(FirstOf(q, n - 1))
<1> DEFINE head == FirstOf(q, n - 1)
<1>1. /\ Len(p) \in Nat /\ DOMAIN p = 1 .. Len(p)
      /\ Len(q) \in Nat /\ DOMAIN q = 1 .. Len(q)
  BY Indexes
<1>2. n - 1 \in Nat /\ n - 1 < Len(q) /\ n - 1 >= Len(p)
  BY <1>1
<1>3. /\ head \in PickLists /\ Len(head) = n - 1
      /\ \A k \in DOMAIN head : head[k] = q[k]
  BY <1>2, FirstOfSeq DEF PickLists
<1> HIDE DEF head
<1>4. DOMAIN head = 1 .. n - 1
  BY <1>3, Indexes
<1>5. \A k \in DOMAIN p : k \in DOMAIN head /\ head[k] = p[k]
  BY <1>1, <1>2, <1>3, <1>4 DEF Extends
<1>6. Picked(p) \subseteq Picked(head)
  BY <1>5 DEF Picked
<1> QED
  BY <1>6 DEF Credited, head

\* Whatever a customer owns and asks for, the list is what it should be.
LEMMA Recommended ==
  ASSUME chinook \in DatabaseShape, NEW c, NEW seed \in Genres \cup {NoGenre},
         NEW limit \in Int, NEW picks, picks = RecommendTracks(c, seed, limit),
         NEW bound, bound = Clamp(limit, MaxRecommendations),
         NEW owned, owned = OwnedTracks(c)
  PROVE  /\ Sound(picks, Profile(c, seed), owned, bound)
         /\ Covers(picks, Profile(c, seed), owned, bound)
         /\ FamiliarFirst(picks, c, owned)
<1> DEFINE pool == Profile(c, seed)
<1>1. bound \in Nat /\ pool \in SUBSET Tracks
  BY CapAssumption, ClampBounds DEF Profile
<1>2. Sound(<<>>, pool, owned, bound) /\ <<>> \in PickLists /\ Len(<<>>) = 0
  <2> HIDE DEF pool
  <2> QED
    BY <1>1, NothingYet, EmptySeq DEF PickLists
<1>3. CASE seed # NoGenre
  <2>1. picks = Take(<<>>, TracksByGenre(seed), "seed", owned, bound)
    BY <1>3 DEF RecommendTracks
  <2>2. pool = ByGenre(seed)
    BY <1>3 DEF Profile, ByGenre
  <2>3. "seed" \in Reasons
    BY DEF Reasons
  <2>4. TracksByGenre(seed) \in Seq(pool) /\ ToSet(TracksByGenre(seed)) = pool
    BY <2>2, Shelves
  <2> HIDE DEF pool
  <2>5. Passes(Take(<<>>, TracksByGenre(seed), "seed", owned, bound), <<>>,
               ToSet(TracksByGenre(seed)), pool, "seed", owned, bound)
    BY <1>1, <1>2, <2>3, <2>4, TakePasses
  <2>6. Passes(picks, <<>>, pool, pool, "seed", owned, bound)
    BY <2>1, <2>4, <2>5
  <2>7. picks \in PickLists /\ \A n \in DOMAIN picks : picks[n].reason = "seed"
    <3>1. picks \in PickLists
      BY <2>6 DEF Passes, Sound
    <3>2. \A n \in DOMAIN picks : n > 0
      BY <3>1, Indexes
    <3> QED
      BY <1>2, <2>6, <3>1, <3>2 DEF Passes, Extends
  <2> QED
    BY <2>6, <2>7 DEF Passes, FamiliarFirst, pool
<1>4. CASE seed = NoGenre
  <2> DEFINE A  == UNION {ByArtist(a) : a \in ToSet(OwnedArtists(c))}
             G  == UNION {ByGenre(g) : g \in ToSet(GenreAffinity(c))}
             p1 == FromArtists(c, <<>>, owned, bound)
  <2>1. picks = FromGenres(c, p1, owned, bound)
    BY <1>4 DEF RecommendTracks, ArtistsFirst
  <2>2. pool = A \cup G
    BY <1>4 DEF Profile, ByArtist, ByGenre
  <2>3. /\ \A a \in ToSet(OwnedArtists(c)) : ByArtist(a) \subseteq pool
        /\ \A g \in ToSet(GenreAffinity(c)) : ByGenre(g) \subseteq pool
    BY <2>2
  <2> HIDE DEF pool
  <2>4. Passes(p1, <<>>, A, pool, "artist", owned, bound)
    BY <1>1, <1>2, <2>3, ArtistsTaken
  <2> HIDE DEF p1
  <2>5. Passes(picks, p1, G, pool, "genre", owned, bound)
    BY <1>1, <2>1, <2>3, <2>4, GenresTaken DEF Passes
  <2>6. /\ p1 \in PickLists /\ Len(p1) \in Nat /\ DOMAIN p1 = 1 .. Len(p1)
        /\ picks \in PickLists /\ Len(picks) \in Nat /\ DOMAIN picks = 1 .. Len(picks)
    BY <2>4, <2>5, Indexes DEF Passes, Sound
  <2>7. Covers(picks, A, owned, bound)
    <3> HIDE DEF A
    <3> QED
      BY <1>1, <2>4, <2>5, <2>6, CoversOn DEF Passes
  <2>8. Covers(picks, pool, owned, bound)
    <3> HIDE DEF A, G
    <3> QED
      BY <2>2, <2>5, <2>7 DEF Covers, Passes
  <2>9. ASSUME NEW n \in DOMAIN picks, picks[n].reason = "genre",
               NEW a \in ToSet(OwnedArtists(c)), NEW t \in ByArtist(a),
               t \notin owned
        PROVE  <<"artist", a>> \in Credited(FirstOf(picks, n - 1))
    <3>1. \A k \in DOMAIN p1 : p1[k].reason = "artist"
      BY <1>2, <2>4, <2>6 DEF Passes, Extends
    <3>2. n > Len(p1)
      <4>1. n \in DOMAIN p1 => picks[n] = p1[n]
        BY <2>5 DEF Passes, Extends
      <4> QED
        BY <2>6, <2>9, <3>1, <4>1
    <3>3. Len(picks) <= bound
      BY <2>5 DEF Passes, Sound
    <3>4. Len(p1) < bound
      BY <1>1, <2>6, <3>2, <3>3
    <3>5. t \in ByArtist(a)
      BY <2>9
    <3>6. t \in A /\ ArtistKey(t) = <<"artist", a>>
      BY <3>5 DEF ByArtist, ArtistKey
    <3>7. <<"artist", a>> \in Credited(p1)
      <4> HIDE DEF A
      <4> QED
        BY <2>4, <2>9, <3>4, <3>6 DEF Passes, Covers
    <3>8. Credited(p1) \subseteq Credited(FirstOf(picks, n - 1))
      BY <2>5, <2>6, <3>2, PrefixCredit DEF Passes
    <3> QED
      BY <3>7, <3>8
  <2>10. FamiliarFirst(picks, c, owned)
    BY <2>9 DEF FamiliarFirst
  <2> QED
    BY <2>5, <2>8, <2>10 DEF Passes, pool
<1> QED
  BY <1>3, <1>4

-----------------------------------------------------------------------------
(* Sums over invoices do not depend on the order they are added in *)

AnyOf(T) == CHOOSE x \in T : TRUE

\* What FoldFunctionOnSet adds up, for every set of invoices at once.
IsSum(f) ==
  /\ f \in [SUBSET Invoices -> Nat]
  /\ f[{}] = 0
  /\ \A T \in (SUBSET Invoices) \ {{}} :
       f[T] = chinook.total[AnyOf(T)] + f[T \ {AnyOf(T)}]

LEMMA SumExists ==
  ASSUME chinook \in DatabaseShape
  PROVE  \E f : IsSum(f)
<1> DEFINE pick == [T \in (SUBSET Invoices) \ {{}} |-> AnyOf(T)]
           add  == [p \in Invoices \X Nat |-> chinook.total[p[1]] + p[2]]
<1>1. \A T \in (SUBSET Invoices) \ {{}} : AnyOf(T) \in T
  BY DEF AnyOf
<1>2. PicksFrom(pick, Invoices)
  BY <1>1 DEF PicksFrom
<1>3. chinook.total \in [Invoices -> Nat]
  BY DEF DatabaseShape
<1>4. add \in [Invoices \X Nat -> Nat]
  BY <1>3
<1>5. /\ \A T \in (SUBSET Invoices) \ {{}} : pick[T] = AnyOf(T)
      /\ \A x \in Invoices : \A n \in Nat : add[<<x, n>>] = chinook.total[x] + n
  OBVIOUS
<1> HIDE DEF pick, add
<1>6. PICK f : Makes(f, Invoices, Nat, 0, pick, add)
  BY <1>2, <1>4, Ids, LoopExists
<1>7. ASSUME NEW T \in (SUBSET Invoices) \ {{}}
      PROVE  f[T] = chinook.total[AnyOf(T)] + f[T \ {AnyOf(T)}]
  <2>1. AnyOf(T) \in Invoices /\ pick[T] = AnyOf(T) /\ T \ {AnyOf(T)} \in SUBSET Invoices
    BY <1>1, <1>5
  <2>2. f[T \ {AnyOf(T)}] \in Nat /\ f[T] = add[<<AnyOf(T), f[T \ {AnyOf(T)}]>>]
    BY <1>6, <2>1 DEF Makes
  <2> QED
    BY <1>5, <2>1, <2>2
<1>8. IsSum(f)
  BY <1>6, <1>7 DEF IsSum, Makes
<1> QED
  BY <1>8

LEMMA SpentIsSum ==
  ASSUME NEW f, IsSum(f), NEW S \in SUBSET Invoices
  PROVE  Spent(S) = f[S]
<1> DEFINE Made(T, made) == IF T = {} THEN 0
                            ELSE chinook.total[AnyOf(T)] + made[T \ {AnyOf(T)}]
           loop == CHOOSE made : made = [T \in SUBSET S |-> Made(T, made)]
<1>1. Spent(S) = loop[S]
  BY DEF Spent, FoldFunctionOnSet, MapThenFoldSet, AnyOf
<1>2. \A T \in (SUBSET S) \ {{}} : AnyOf(T) \in T
  BY DEF AnyOf
<1>3. \A T \in SUBSET S : f[T] = Made(T, f)
  BY DEF IsSum
<1>4. loop = [T \in SUBSET S |-> Made(T, loop)]
  <2> DEFINE made == [T \in SUBSET S |-> f[T]]
  <2>1. \A T \in SUBSET S : Made(T, made) = Made(T, f)
    <3> TAKE T \in SUBSET S
    <3>1. T # {} => made[T \ {AnyOf(T)}] = f[T \ {AnyOf(T)}]
      <4>1. T \ {AnyOf(T)} \in SUBSET S
        OBVIOUS
      <4> QED
        BY <4>1
    <3> HIDE DEF made
    <3> QED
      BY <3>1
  <2>2. made = [T \in SUBSET S |-> Made(T, made)]
    <3>1. \A T \in SUBSET S : made[T] = Made(T, made)
      <4>1. \A T \in SUBSET S : made[T] = f[T]
        OBVIOUS
      <4> HIDE DEF made, Made
      <4> QED
        BY <1>3, <2>1, <4>1
    <3>2. made = [T \in SUBSET S |-> made[T]]
      OBVIOUS
    <3> HIDE DEF made, Made
    <3> QED
      BY <3>1, <3>2
  <2>3. \E one : one = [T \in SUBSET S |-> Made(T, one)]
    BY <2>2
  <2> HIDE DEF Made, made
  <2> QED
    BY <2>3, Zenon
<1> HIDE DEF loop
<1> DEFINE Holds == {T \in SUBSET S : loop[T] = f[T]}
<1>5. ASSUME NEW T \in SUBSET S, \A U \in SUBSET T : U # T => U \in Holds
      PROVE  T \in Holds
  <2>1. loop[T] = Made(T, loop) /\ f[T] = Made(T, f)
    <3> HIDE DEF Made
    <3> QED
      BY <1>3, <1>4
  <2>2. CASE T = {}
    BY <2>1, <2>2
  <2>3. CASE T # {}
    <3>1. AnyOf(T) \in T
      BY <1>2, <2>3
    <3>2. T \ {AnyOf(T)} \in Holds
      BY <1>5, <3>1
    <3> QED
      BY <2>1, <2>3, <3>2
  <2> QED
    BY <2>2, <2>3
<1>6. IsFiniteSet(S)
  BY Ids, FS_Subset
<1>7. Holds = SUBSET S
  <2>1. Holds \in SUBSET (SUBSET S)
    OBVIOUS
  <2> HIDE DEF Holds
  <2> QED
    BY <1>5, <1>6, <2>1, SubsetInduction
<1> QED
  BY <1>1, <1>7

\* Any invoice may be the one added last.
LEMMA SumTakesAny ==
  ASSUME chinook \in DatabaseShape, NEW f, IsSum(f)
  PROVE  \A T \in SUBSET Invoices : \A x \in T : f[T] = chinook.total[x] + f[T \ {x}]
<1> DEFINE Holds == {T \in SUBSET Invoices :
                       \A x \in T : f[T] = chinook.total[x] + f[T \ {x}]}
<1>1. \A i \in Invoices : chinook.total[i] \in Nat
  BY DEF DatabaseShape
<1>2. \A T \in SUBSET Invoices : f[T] \in Nat
  BY DEF IsSum
<1>3. ASSUME NEW T \in SUBSET Invoices, \A U \in SUBSET T : U # T => U \in Holds
      PROVE  T \in Holds
  <2> SUFFICES ASSUME NEW x \in T PROVE f[T] = chinook.total[x] + f[T \ {x}]
    OBVIOUS
  <2> DEFINE y == AnyOf(T)
  <2>1. y \in T /\ f[T] = chinook.total[y] + f[T \ {y}]
    BY DEF IsSum, AnyOf
  <2> HIDE DEF y
  <2>2. CASE x = y
    BY <2>1, <2>2
  <2>3. CASE x # y
    <3> DEFINE rest == T \ {x, y}
    <3>1. /\ T \ {x} \in Holds /\ T \ {y} \in Holds
          /\ x \in T \ {y} /\ y \in T \ {x}
      BY <1>3, <2>1, <2>3
    <3>2. (T \ {x}) \ {y} = rest /\ (T \ {y}) \ {x} = rest
      OBVIOUS
    <3>3. f[T \ {y}] = chinook.total[x] + f[rest]
      BY <3>1, <3>2
    <3>4. f[T \ {x}] = chinook.total[y] + f[rest]
      BY <3>1, <3>2
    <3>5. chinook.total[x] \in Nat /\ chinook.total[y] \in Nat /\ f[rest] \in Nat
      BY <1>1, <1>2, <2>1
    <3> QED
      BY <2>1, <3>3, <3>4, <3>5
  <2> QED
    BY <2>2, <2>3
<1>4. Holds = SUBSET Invoices
  <2>1. Holds \in SUBSET (SUBSET Invoices)
    OBVIOUS
  <2> HIDE DEF Holds
  <2> QED
    BY <1>3, <2>1, Ids, SubsetInduction
<1> QED
  BY <1>4

LEMMA SumSplits ==
  ASSUME chinook \in DatabaseShape, NEW f, IsSum(f),
         NEW A \in SUBSET Invoices, NEW B \in SUBSET Invoices, A \cap B = {}
  PROVE  f[A \cup B] = f[A] + f[B]
<1> DEFINE Holds == {T \in SUBSET B : f[A \cup T] = f[A] + f[T]}
<1>1. /\ \A i \in Invoices : chinook.total[i] \in Nat
      /\ \A T \in SUBSET Invoices : f[T] \in Nat
      /\ f[{}] = 0
  BY DEF DatabaseShape, IsSum
<1>2. \A T \in SUBSET Invoices : \A x \in T : f[T] = chinook.total[x] + f[T \ {x}]
  BY SumTakesAny
<1>3. ASSUME NEW T \in SUBSET B, \A U \in SUBSET T : U # T => U \in Holds
      PROVE  T \in Holds
  <2>1. CASE T = {}
    BY <1>1, <2>1
  <2>2. CASE T # {}
    <3>1. PICK x \in T : TRUE
      BY <2>2
    <3>2. T \ {x} \in Holds
      BY <1>3, <3>1
    <3>3. x \in A \cup T /\ (A \cup T) \ {x} = A \cup (T \ {x})
      BY <3>1
    <3>4. f[A \cup T] = chinook.total[x] + f[A \cup (T \ {x})]
      BY <1>2, <3>3
    <3>5. f[T] = chinook.total[x] + f[T \ {x}]
      BY <1>2, <3>1
    <3>6. chinook.total[x] \in Nat /\ f[A] \in Nat /\ f[T \ {x}] \in Nat
      BY <1>1, <3>1
    <3> QED
      BY <3>2, <3>4, <3>5, <3>6
  <2> QED
    BY <2>1, <2>2
<1>4. IsFiniteSet(B)
  BY Ids, FS_Subset
<1>5. Holds = SUBSET B
  <2>1. Holds \in SUBSET (SUBSET B)
    OBVIOUS
  <2> HIDE DEF Holds
  <2> QED
    BY <1>3, <1>4, <2>1, SubsetInduction
<1> QED
  BY <1>5

-----------------------------------------------------------------------------
(* get_spend_summary() *)

InYear(c, y) == {i \in OwnInvoices(c) : YearOf(chinook.date[i]) = y}

LEMMA YearsListed ==
  LET years == SetToSeq(Years) IN
  /\ years \in Seq(Years)
  /\ \A m, n \in DOMAIN years : years[m] = years[n] => m = n
  /\ \A y \in Years : \E n \in DOMAIN years : years[n] = y
<1> DEFINE N     == Cardinality(Years)
           years == SetToSeq(Years)
<1>1. IsFiniteSet(Years) /\ N \in Nat /\ ExistsBijection(1 .. N, Years)
  BY YearsAssumption, FS_CardinalityType
<1>2. \E f \in [1 .. N -> Years] : IsInjective(f)
  BY <1>1 DEF ExistsBijection, Bijection, Injection
<1>3. years \in [1 .. N -> Years] /\ IsInjective(years)
  BY <1>2 DEF SetToSeq
<1> HIDE DEF years
<1>4. years \in Injection(1 .. N, Years)
  BY <1>3 DEF Injection
<1>5. IsFiniteSet(1 .. N) /\ Cardinality(1 .. N) = N
  BY <1>1, FS_Interval
<1>6. years \in Surjection(1 .. N, Years)
  <2> HIDE DEF N
  <2>1. Cardinality(1 .. N) = Cardinality(Years)
    BY <1>5 DEF N
  <2> QED
    BY <1>1, <1>4, <2>1, FS_Injection
<1>7. years \in Seq(Years) /\ DOMAIN years = 1 .. N
  <2> HIDE DEF N
  <2> QED
    BY <1>1, <1>3, SequenceOf
<1>8. \A y \in Years : \E n \in DOMAIN years : years[n] = y
  BY <1>6, <1>7 DEF Surjection
<1> QED
  BY <1>3, <1>7, <1>8 DEF years, IsInjective

LEMMA YearSpent ==
  ASSUME NEW c, NEW f, IsSum(f)
  PROVE  /\ GetSpendSummary(c, AnyYear).spent = f[OwnInvoices(c)]
         /\ \A y \in Years : GetSpendSummary(c, y).spent = f[InYear(c, y)]
<1> DEFINE Within(y) == {i \in OwnInvoices(c) : y = AnyYear \/ YearOf(chinook.date[i]) = y}
<1>1. \A y : Within(y) \in SUBSET Invoices
  BY DEF OwnInvoices
<1>2. \A y : GetSpendSummary(c, y).spent = f[Within(y)]
  <2> TAKE y
  <2>1. CASE Within(y) = {}
    <3>1. GetSpendSummary(c, y).spent = 0
      BY <2>1 DEF GetSpendSummary
    <3> HIDE DEF Within
    <3> QED
      BY <2>1, <3>1 DEF IsSum
  <2>2. CASE Within(y) # {}
    <3>1. GetSpendSummary(c, y).spent = Spent(Within(y))
      BY <2>2 DEF GetSpendSummary
    <3> HIDE DEF Within
    <3> QED
      BY <1>1, <3>1, SpentIsSum
  <2> QED
    BY <2>1, <2>2
<1>3. Within(AnyYear) = OwnInvoices(c)
  OBVIOUS
<1>4. \A y \in Years : Within(y) = InYear(c, y)
  BY YearsAssumption DEF InYear
<1> HIDE DEF Within
<1> QED
  BY <1>2, <1>3, <1>4

LEMMA YearLoop ==
  ASSUME NEW c, \A y \in Years : GetSpendSummary(c, y).spent \in Nat,
         NEW years, years = SetToSeq(Years), years \in Seq(Years)
  PROVE  \E sum :
           /\ sum[0] = 0
           /\ \A k \in 1 .. Len(years) : sum[k] = sum[k - 1] + GetSpendSummary(c, years[k]).spent
           /\ YearTotals(c) = sum[Len(years)]
<1> DEFINE n == Len(years)
           After(sum, k) == sum + GetSpendSummary(c, years[k]).spent
           step == [p \in (1 .. n) \X Nat |-> After(p[2], p[1])]
           Made(T, made) == IF T = {} THEN 0 ELSE After(made[T \ {Max(T)}], Max(T))
           loop == CHOOSE made : made = [T \in SUBSET (1 .. n) |-> Made(T, made)]
<1>1. n \in Nat /\ DOMAIN years = 1 .. n /\ \A k \in 1 .. n : years[k] \in Years
  BY LenProperties
<1>2. YearTotals(c) = loop[1 .. n]
  BY <1>1 DEF YearTotals, FoldLeft, MapThenFoldSet
<1>3. step \in [(1 .. n) \X Nat -> Nat]
  <2> SUFFICES ASSUME NEW k \in 1 .. n, NEW sum \in Nat
               PROVE  After(sum, k) \in Nat
    OBVIOUS
  <2> QED
    BY <1>1
<1>4. loop = [T \in SUBSET (1 .. n) |-> Made(T, loop)]
  <2>1. PICK made : Makes(made, 1 .. n, Nat, 0, Largest(n), step)
    <3> HIDE DEF step, n, Made, loop, After
    <3>1. n \in Nat
      BY <1>1
    <3> QED
      BY <1>3, <3>1, IndexLoop
  <2>2. \A T \in SUBSET (1 .. n) : made[T] = Made(T, made)
    <3> SUFFICES ASSUME NEW T \in SUBSET (1 .. n), T # {}
                 PROVE  made[T] = After(made[T \ {Max(T)}], Max(T))
      BY <2>1 DEF Makes
    <3>1. Max(T) \in 1 .. n /\ made[T \ {Max(T)}] \in Nat
      <4>1. Max(T) \in 1 .. n
        BY <1>1, LargestIndex
      <4>2. T \ {Max(T)} \in SUBSET (1 .. n) /\ made \in [SUBSET (1 .. n) -> Nat]
        BY <2>1 DEF Makes
      <4> QED
        BY <4>1, <4>2
    <3>2. made[T] = step[<<Max(T), made[T \ {Max(T)}]>>]
      BY <2>1 DEF Makes, Largest
    <3> HIDE DEF After
    <3> QED
      BY <3>1, <3>2
  <2>3. made = [T \in SUBSET (1 .. n) |-> Made(T, made)]
    <3>1. made \in [SUBSET (1 .. n) -> Nat]
      BY <2>1 DEF Makes
    <3> HIDE DEF Made, n
    <3> QED
      BY <2>2, <3>1
  <2>4. \E some : some = [T \in SUBSET (1 .. n) |-> Made(T, some)]
    BY <2>3
  <2> HIDE DEF Made, n, step
  <2> QED
    BY <2>4, Zenon
<1> HIDE DEF loop
<1> DEFINE sum == [k \in 0 .. n |-> loop[1 .. k]]
<1>5. sum[0] = 0
  <2>1. 1 .. 0 = {} /\ 0 \in 0 .. n
    <3> HIDE DEF n
    <3> QED
      BY <1>1
  <2>2. loop[{}] = 0
    <3>1. {} \in SUBSET (1 .. n) /\ Made({}, loop) = 0
      OBVIOUS
    <3> HIDE DEF Made, n
    <3> QED
      BY <1>4, <3>1
  <2>3. sum[0] = loop[1 .. 0]
    <3> HIDE DEF n
    <3> QED
      BY <2>1
  <2> QED
    BY <2>1, <2>2, <2>3
<1>6. ASSUME NEW k \in 1 .. n PROVE sum[k] = After(sum[k - 1], k)
  <2>1. /\ k \in Nat \ {0} /\ 1 .. k \in SUBSET (1 .. n) /\ 1 .. k # {}
        /\ k \in 0 .. n /\ k - 1 \in 0 .. n
    <3> HIDE DEF n
    <3>1. n \in Nat
      BY <1>1
    <3>2. k \in Nat \ {0} /\ k <= n
      BY <3>1
    <3>3. 1 .. k # {} /\ 1 .. k \in SUBSET (1 .. n)
      <4>1. k \in 1 .. k
        BY <3>2
      <4>2. \A j \in 1 .. k : j \in 1 .. n
        BY <3>1, <3>2
      <4> QED
        BY <4>1, <4>2
    <3> QED
      BY <3>1, <3>2, <3>3
  <2>2. Max(1 .. k) = k /\ (1 .. k) \ {k} = 1 .. k - 1
    BY <2>1, LargestOfInterval
  <2> HIDE DEF After
  <2> QED
    BY <1>4, <2>1, <2>2
<1>7. sum[n] = loop[1 .. n]
  BY <1>1
<1> HIDE DEF sum
<1> QED
  BY <1>2, <1>5, <1>6, <1>7

\* The years add up to everything the customer bought.
LEMMA YearsAddUp ==
  ASSUME chinook \in Databases, NEW c, NEW f, IsSum(f)
  PROVE  YearTotals(c) = f[OwnInvoices(c)]
<1> DEFINE years == SetToSeq(Years)
           Upto(k) == UNION {InYear(c, years[j]) : j \in 1 .. k}
<1>1. chinook \in DatabaseShape /\ \A i \in Invoices : YearOf(chinook.date[i]) \in Years
  BY DatabaseAssumption, YearsAssumption
<1>2. /\ years \in Seq(Years) /\ Len(years) \in Nat /\ DOMAIN years = 1 .. Len(years)
      /\ \A k \in 1 .. Len(years) : years[k] \in Years
  BY YearsListed, LenProperties
<1>3. /\ \A T \in SUBSET Invoices : f[T] \in Nat
      /\ f[{}] = 0
  BY DEF IsSum
<1>4. \A y : InYear(c, y) \in SUBSET Invoices
  BY DEF InYear, OwnInvoices
<1>5. \A y \in Years : GetSpendSummary(c, y).spent = f[InYear(c, y)]
  BY YearSpent
<1>6. PICK sum :
        /\ sum[0] = 0
        /\ \A k \in 1 .. Len(years) : sum[k] = sum[k - 1] + GetSpendSummary(c, years[k]).spent
        /\ YearTotals(c) = sum[Len(years)]
  <2> HIDE DEF years
  <2>1. \A y \in Years : GetSpendSummary(c, y).spent \in Nat
    BY <1>3, <1>4, <1>5
  <2> QED
    BY <1>2, <2>1, YearLoop DEF years
<1>7. \A j, k \in 1 .. Len(years) : j # k => InYear(c, years[j]) \cap InYear(c, years[k]) = {}
  <2>1. \A j, k \in 1 .. Len(years) : years[j] = years[k] => j = k
    BY <1>2, YearsListed
  <2> HIDE DEF years
  <2> QED
    BY <2>1 DEF InYear
<1>8. Upto(Len(years)) = OwnInvoices(c)
  <2>1. \A i \in OwnInvoices(c) : \E j \in 1 .. Len(years) : years[j] = YearOf(chinook.date[i])
    BY <1>1, <1>2, YearsListed DEF OwnInvoices
  <2> HIDE DEF years
  <2> QED
    BY <2>1 DEF InYear
<1> HIDE DEF years
<1> DEFINE Holds == {k \in 0 .. Len(years) : sum[k] = f[Upto(k)]}
<1>9. 0 \in Holds
  <2>1. 0 \in 0 .. Len(years) /\ Upto(0) = {}
    BY <1>2
  <2> QED
    BY <1>3, <1>6, <2>1
<1>10. ASSUME NEW k \in 1 .. Len(years), k - 1 \in Holds PROVE k \in Holds
  <2>1. Upto(k) = Upto(k - 1) \cup InYear(c, years[k])
    <3>1. 1 .. k = (1 .. k - 1) \cup {k}
      BY <1>2
    <3> QED
      BY <3>1
  <2>2. Upto(k - 1) \cap InYear(c, years[k]) = {}
    <3>1. \A j \in 1 .. k - 1 : j \in 1 .. Len(years) /\ j # k
      BY <1>2
    <3> QED
      BY <1>7, <3>1
  <2>3. Upto(k - 1) \in SUBSET Invoices
    BY <1>4
  <2> HIDE DEF Upto
  <2>4. f[Upto(k)] = f[Upto(k - 1)] + f[InYear(c, years[k])]
    BY <1>1, <1>4, <2>1, <2>2, <2>3, SumSplits
  <2>5. sum[k] = sum[k - 1] + f[InYear(c, years[k])]
    BY <1>2, <1>5, <1>6
  <2>6. k \in 0 .. Len(years)
    BY <1>2
  <2> QED
    BY <1>10, <2>4, <2>5, <2>6
<1>11. \A k \in 0 .. Len(years) : k \in Holds
  <2> HIDE DEF Holds
  <2> QED
    BY <1>2, <1>9, <1>10, CountUp
<1>12. Len(years) \in 0 .. Len(years)
  BY <1>2
<1> HIDE DEF Upto
<1> QED
  BY <1>6, <1>8, <1>11, <1>12

LEMMA Extremes ==
  ASSUME NEW D \in SUBSET Nat, NEW x \in D
  PROVE  /\ (\A d \in D : x >= d) => Max(D) = x
         /\ (\A d \in D : x <= d) => Min(D) = x
<1>1. ASSUME \A d \in D : x >= d PROVE Max(D) = x
  <2>1. Max(D) \in D /\ \A d \in D : Max(D) >= d
    BY <1>1 DEF Max
  <2>2. Max(D) \in Nat /\ x \in Nat /\ Max(D) >= x /\ x >= Max(D)
    BY <1>1, <2>1
  <2> QED
    BY <2>2
<1>2. ASSUME \A d \in D : x <= d PROVE Min(D) = x
  <2>1. Min(D) \in D /\ \A d \in D : Min(D) <= d
    BY <1>2 DEF Min
  <2>2. Min(D) \in Nat /\ x \in Nat /\ Min(D) <= x /\ x <= Min(D)
    BY <1>2, <2>1
  <2> QED
    BY <2>2
<1> QED
  BY <1>1, <1>2

\* The newest invoice heads the list, and the oldest ends it when none is cut.
LEMMA ListEnds ==
  ASSUME chinook \in DatabaseShape, NEW c, OwnInvoices(c) # {},
         NEW listed, listed = ListInvoices(c, MaxInvoiceLimit),
         NEW dates, dates = {chinook.date[i] : i \in OwnInvoices(c)}
  PROVE  /\ Max(dates) = chinook.date[Head(listed)]
         /\ Cardinality(OwnInvoices(c)) <= MaxInvoiceLimit =>
              /\ Len(listed) = Cardinality(OwnInvoices(c))
              /\ Min(dates) = chinook.date[Last(listed)]
<1> DEFINE S   == OwnInvoices(c)
           all == InOrder(S, Newer)
<1>1. /\ all \in Seq(S) /\ Len(all) = Cardinality(S)
      /\ \A i \in S : \E n \in DOMAIN all : all[n] = i
      /\ \A m, n \in DOMAIN all : m < n => Newer(all[m], all[n])
  BY NewestFirst
<1>2. \A i \in S : chinook.date[i] \in Nat
  BY DEF DatabaseShape, OwnInvoices
<1>3. MaxInvoiceLimit \in Nat \ {0} /\ listed = FirstOf(all, MaxInvoiceLimit)
  <2>1. Clamp(MaxInvoiceLimit, MaxInvoiceLimit) = MaxInvoiceLimit
    BY CapAssumption DEF Clamp
  <2> QED
    BY <2>1, CapAssumption DEF ListInvoices
<1> HIDE DEF all
<1>4. Len(all) \in Nat /\ DOMAIN all = 1 .. Len(all) /\ \A n \in DOMAIN all : all[n] \in S
  BY <1>1, LenProperties
<1>5. Len(all) > 0
  BY <1>1, <1>4
<1>6. /\ listed \in Seq(S)
      /\ Len(listed) = IF MaxInvoiceLimit < Len(all) THEN MaxInvoiceLimit ELSE Len(all)
      /\ \A k \in DOMAIN listed : k \in DOMAIN all /\ listed[k] = all[k]
  <2> HIDE DEF S
  <2> QED
    BY <1>1, <1>3, FirstOfSeq
<1>7. Len(listed) \in Nat /\ Len(listed) > 0 /\ DOMAIN listed = 1 .. Len(listed)
  BY <1>3, <1>4, <1>5, <1>6, LenProperties
<1> HIDE DEF S
<1>8. Head(listed) = all[1]
  <2>1. Head(listed) = listed[1]
    BY <1>6, <1>7
  <2> QED
    BY <1>6, <1>7, <2>1
<1>9. \A m, n \in DOMAIN all : m <= n => chinook.date[all[m]] >= chinook.date[all[n]]
  <2> TAKE m, n \in DOMAIN all
  <2> HAVE m <= n
  <2>1. chinook.date[all[m]] \in Nat /\ chinook.date[all[n]] \in Nat
    BY <1>2, <1>4
  <2>2. m = n \/ m < n
    BY <1>4
  <2>3. m < n => Newer(all[m], all[n])
    BY <1>1
  <2> QED
    BY <2>1, <2>2, <2>3 DEF Newer
<1>10. dates = {chinook.date[all[n]] : n \in DOMAIN all} /\ \A d \in dates : d \in Nat
  BY <1>1, <1>2, <1>4 DEF S
<1>11. Max(dates) = chinook.date[all[1]]
  <2> DEFINE top == chinook.date[all[1]]
  <2>1. 1 \in DOMAIN all /\ \A n \in DOMAIN all : 1 <= n
    BY <1>4, <1>5
  <2>2. top \in dates /\ \A d \in dates : top >= d
    BY <1>9, <1>10, <2>1
  <2>3. dates \in SUBSET Nat
    BY <1>10
  <2> HIDE DEF top
  <2> QED
    BY <2>2, <2>3, Extremes DEF top
<1>12. ASSUME Cardinality(S) <= MaxInvoiceLimit
       PROVE  Len(listed) = Cardinality(S) /\ Min(dates) = chinook.date[Last(listed)]
  <2> DEFINE least == chinook.date[all[Len(all)]]
  <2>1. Len(listed) = Len(all)
    BY <1>1, <1>3, <1>4, <1>6, <1>12
  <2>2. Last(listed) = all[Len(all)]
    BY <1>6, <1>7, <2>1 DEF Last
  <2>3. Len(all) \in DOMAIN all /\ \A n \in DOMAIN all : n <= Len(all)
    BY <1>4, <1>5
  <2>4. least \in dates /\ \A d \in dates : least <= d
    <3>1. least \in dates
      BY <1>10, <2>3
    <3>2. \A n \in DOMAIN all : chinook.date[all[n]] >= least
      BY <1>9, <2>3
    <3>3. least \in Nat
      BY <1>10, <3>1
    <3> HIDE DEF least
    <3> QED
      BY <1>10, <3>1, <3>2, <3>3
  <2> HIDE DEF least
  <2>5. dates \in SUBSET Nat
    BY <1>10
  <2>6. Min(dates) = least
    BY <2>4, <2>5, Extremes
  <2> QED
    BY <1>1, <2>1, <2>2, <2>6 DEF least
<1> QED
  BY <1>8, <1>11, <1>12 DEF S

\* The summary of everything tells what the invoices and the years tell.
LEMMA SummaryAgrees ==
  ASSUME chinook \in Databases, NEW c,
         NEW summary, summary = GetSpendSummary(c, AnyYear),
         NEW listed, listed = ListInvoices(c, MaxInvoiceLimit)
  PROVE  /\ summary.spent = Spent({i \in Invoices : GetInvoiceDetail(c, i) # NotFound})
         /\ summary.spent = YearTotals(c)
         /\ summary.count > 0 =>
              /\ summary.last = chinook.date[Head(listed)]
              /\ summary.count <= MaxInvoiceLimit =>
                   /\ Len(listed) = summary.count
                   /\ summary.first = chinook.date[Last(listed)]
<1> DEFINE S     == OwnInvoices(c)
           dates == {chinook.date[i] : i \in S}
<1>1. chinook \in DatabaseShape
  BY DatabaseAssumption
<1>2. PICK f : IsSum(f)
  BY <1>1, SumExists
<1>3. summary.spent = f[S]
  BY <1>2, YearSpent
<1>4. {i \in Invoices : GetInvoiceDetail(c, i) # NotFound} = S
  BY DEF GetInvoiceDetail, NotFound, OwnInvoices
<1>5. S \in SUBSET Invoices
  BY DEF OwnInvoices
<1>6. Spent(S) = f[S] /\ YearTotals(c) = f[S]
  <2> HIDE DEF S
  <2>1. Spent(S) = f[S]
    BY <1>2, <1>5, SpentIsSum
  <2>2. YearTotals(c) = f[S]
    BY <1>2, YearsAddUp DEF S
  <2> QED
    BY <2>1, <2>2
<1>7. {i \in S : AnyYear = AnyYear \/ YearOf(chinook.date[i]) = AnyYear} = S
  OBVIOUS
<1>8. CASE S = {}
  <2>1. summary.count = 0
    BY <1>7, <1>8 DEF GetSpendSummary
  <2> QED
    BY <1>3, <1>4, <1>6, <2>1
<1>9. CASE S # {}
  <2>1. summary.count = Cardinality(S) /\ summary.first = Min(dates) /\ summary.last = Max(dates)
    BY <1>7, <1>9 DEF GetSpendSummary
  <2>2. /\ Max(dates) = chinook.date[Head(listed)]
        /\ Cardinality(S) <= MaxInvoiceLimit =>
             /\ Len(listed) = Cardinality(S)
             /\ Min(dates) = chinook.date[Last(listed)]
    BY <1>1, <1>9, ListEnds
  <2> HIDE DEF S, dates
  <2> QED
    BY <1>3, <1>4, <1>6, <2>1, <2>2
<1> QED
  BY <1>8, <1>9

-----------------------------------------------------------------------------
(* What a caller is told *)

\* A line resolves for whom it is listed, and no one else.
LEMMA ListedLinesResolve ==
  ASSUME chinook \in Databases, NEW c, NEW l \in Lines
  PROVE  GetInvoiceLine(c, l) # NotFound <=>
           \E i \in Invoices : /\ GetInvoiceDetail(c, i) # NotFound
                               /\ l \in GetInvoiceDetail(c, i).lines
<1>1. chinook.invoiceOf[l] \in Invoices
  BY DatabaseAssumption DEF DatabaseShape
<1>2. GetInvoiceLine(c, l) # NotFound <=> BuyerOf(l) = c
  BY DEF GetInvoiceLine, NotFound, OwnLines
<1>3. \A i \in Invoices :
        /\ GetInvoiceDetail(c, i) # NotFound <=> chinook.customerOf[i] = c
        /\ chinook.customerOf[i] = c => GetInvoiceDetail(c, i).lines = LinesShown(c, i)
  BY DEF GetInvoiceDetail, NotFound, OwnInvoices
<1>4. ASSUME BuyerOf(l) = c
      PROVE  /\ GetInvoiceDetail(c, chinook.invoiceOf[l]) # NotFound
             /\ l \in GetInvoiceDetail(c, chinook.invoiceOf[l]).lines
  BY <1>1, <1>3, <1>4 DEF BuyerOf, LinesShown
<1>5. ASSUME NEW i \in Invoices, GetInvoiceDetail(c, i) # NotFound,
             l \in GetInvoiceDetail(c, i).lines
      PROVE  BuyerOf(l) = c
  BY <1>3, <1>5 DEF LinesShown
<1> QED
  BY <1>1, <1>2, <1>4, <1>5


\* An answer describes the database: nothing it was computed from changes, so
\* it stays true for as long as the caller keeps it.
LineIsTold(ask, gives) ==
  ask.line \in Lines /\ gives = GetInvoiceLine(ask.customer, ask.line)

SummaryIsTold(ask, gives) ==
  LET S     == OwnInvoices(ask.customer)
      dates == {chinook.date[i] : i \in S}
  IN  /\ \A f : IsSum(f) => gives.spent = f[S]
      /\ S = {} => gives.count = 0
      /\ S # {} => /\ gives.count = Cardinality(S)
                   /\ gives.first = Min(dates) /\ gives.last = Max(dates)

PicksAreTold(ask, gives) ==
  LET pool  == Profile(ask.customer, ask.seed)
      owned == OwnedTracks(ask.customer)
      bound == Clamp(ask.limit, MaxRecommendations)
  IN  /\ ask.limit \in Int
      /\ Sound(gives, pool, owned, bound)
      /\ Covers(gives, pool, owned, bound)
      /\ FamiliarFirst(gives, ask.customer, owned)

Told(ask, gives) ==
  /\ ask.read = "line" => LineIsTold(ask, gives)
  /\ ask.read = "summary" /\ ask.year = AnyYear => SummaryIsTold(ask, gives)
  /\ ask.read = "recommend" => PicksAreTold(ask, gives)

AnswersAreTrue ==
  /\ chinook \in Databases
  /\ answer # Nothing => Told(answer.ask, answer.gives)

LEMMA SameReads ==
  ASSUME UNCHANGED chinook, NEW c
  PROVE  /\ OwnLines(c)' = OwnLines(c) /\ OwnInvoices(c)' = OwnInvoices(c)
         /\ OwnedTracks(c)' = OwnedTracks(c)
         /\ \A t : ArtistKey(t)' = ArtistKey(t)
         /\ \A a : ByArtist(a)' = ByArtist(a)
         /\ OwnedArtists(c)' = OwnedArtists(c) /\ GenreAffinity(c)' = GenreAffinity(c)
         /\ \A seed : Profile(c, seed)' = Profile(c, seed)
<1>1. OwnLines(c)' = OwnLines(c) /\ OwnInvoices(c)' = OwnInvoices(c)
  BY DEF OwnLines, OwnInvoices, BuyerOf
<1>2. OwnedTracks(c)' = OwnedTracks(c)
  BY <1>1 DEF OwnedTracks
<1>3. \A t : ArtistKey(t)' = ArtistKey(t)
  BY DEF ArtistKey, HasArtist, ArtistOf
<1>4. \A a : ByArtist(a)' = ByArtist(a)
  BY DEF ByArtist, HasArtist, ArtistOf
<1>5. \A a : LinesOfArtist(c, a)' = LinesOfArtist(c, a)
  BY <1>1 DEF LinesOfArtist, HasArtist, ArtistOf
<1>6. \A g : LinesOfGenre(c, g)' = LinesOfGenre(c, g)
  BY <1>1 DEF LinesOfGenre
<1>7. OwnedArtists(c)' = OwnedArtists(c)
  <2>1. [a \in Artists |-> Cardinality(LinesOfArtist(c, a))]'
          = [a \in Artists |-> Cardinality(LinesOfArtist(c, a))]
    BY <1>5
  <2> QED
    BY <2>1 DEF OwnedArtists
<1>8. GenreAffinity(c)' = GenreAffinity(c)
  <2>1. [g \in Genres |-> Cardinality(LinesOfGenre(c, g))]'
          = [g \in Genres |-> Cardinality(LinesOfGenre(c, g))]
    BY <1>6
  <2> QED
    BY <2>1 DEF GenreAffinity
<1>9. \A seed : Profile(c, seed)' = Profile(c, seed)
  BY <1>7, <1>8 DEF Profile, HasArtist, ArtistOf
<1> QED
  BY <1>1, <1>2, <1>3, <1>4, <1>7, <1>8, <1>9

LEMMA SameList ==
  ASSUME UNCHANGED chinook, NEW picks, NEW pool, NEW owned, NEW bound, NEW c
  PROVE  /\ Sound(picks, pool, owned, bound) => Sound(picks, pool, owned, bound)'
         /\ Covers(picks, pool, owned, bound) => Covers(picks, pool, owned, bound)'
         /\ FamiliarFirst(picks, c, owned) => FamiliarFirst(picks, c, owned)'
<1>1. \A p : Credited(p)' = Credited(p)
  BY SameReads DEF Credited, Picked
<1>2. Sound(picks, pool, owned, bound) => Sound(picks, pool, owned, bound)'
  BY SameReads DEF Sound
<1>3. Covers(picks, pool, owned, bound) => Covers(picks, pool, owned, bound)'
  BY <1>1, SameReads DEF Covers
<1>4. FamiliarFirst(picks, c, owned) => FamiliarFirst(picks, c, owned)'
  BY <1>1, SameReads DEF FamiliarFirst
<1> QED
  BY <1>2, <1>3, <1>4

LEMMA ToldStays ==
  ASSUME UNCHANGED chinook, NEW ask, NEW gives, Told(ask, gives)
  PROVE  Told(ask, gives)'
<1>1. LineIsTold(ask, gives) => LineIsTold(ask, gives)'
  BY DEF LineIsTold, GetInvoiceLine, OwnLines, BuyerOf
<1>2. SummaryIsTold(ask, gives) => SummaryIsTold(ask, gives)'
  <2>1. \A f : IsSum(f)' <=> IsSum(f)
    BY DEF IsSum
  <2>2. OwnInvoices(ask.customer)' = OwnInvoices(ask.customer)
    BY SameReads
  <2>3. {chinook.date[i] : i \in OwnInvoices(ask.customer)}'
          = {chinook.date[i] : i \in OwnInvoices(ask.customer)}
    BY <2>2
  <2> QED
    BY <2>1, <2>2, <2>3 DEF SummaryIsTold
<1>3. PicksAreTold(ask, gives) => PicksAreTold(ask, gives)'
  <2>1. /\ Profile(ask.customer, ask.seed)' = Profile(ask.customer, ask.seed)
        /\ OwnedTracks(ask.customer)' = OwnedTracks(ask.customer)
    BY SameReads
  <2> QED
    BY <2>1, SameList DEF PicksAreTold
<1> QED
  BY <1>1, <1>2, <1>3 DEF Told

\* Each query answers with what it computes.
LEMMA AnswersAreTold ==
  ASSUME chinook \in Databases, NEW c \in Customers
  PROVE  /\ \A l \in Lines :
              LineIsTold([read |-> "line", customer |-> c, line |-> l], GetInvoiceLine(c, l))
         /\ \A y : y = AnyYear =>
              SummaryIsTold([read |-> "summary", customer |-> c, year |-> y],
                            GetSpendSummary(c, y))
         /\ \A seed \in Genres \cup {NoGenre}, limit \in Limits :
              PicksAreTold([read |-> "recommend", customer |-> c, seed |-> seed,
                            limit |-> limit], RecommendTracks(c, seed, limit))
<1>1. chinook \in DatabaseShape
  BY DatabaseAssumption
<1>2. ASSUME NEW l \in Lines
      PROVE  LineIsTold([read |-> "line", customer |-> c, line |-> l], GetInvoiceLine(c, l))
  BY DEF LineIsTold
<1>3. SummaryIsTold([read |-> "summary", customer |-> c, year |-> AnyYear],
                    GetSpendSummary(c, AnyYear))
  <2> DEFINE S     == OwnInvoices(c)
             dates == {chinook.date[i] : i \in S}
             gives == GetSpendSummary(c, AnyYear)
  <2>1. {i \in S : AnyYear = AnyYear \/ YearOf(chinook.date[i]) = AnyYear} = S
    OBVIOUS
  <2>2. S = {} => gives.count = 0
    BY <2>1 DEF GetSpendSummary
  <2>3. S # {} => gives.count = Cardinality(S) /\ gives.first = Min(dates)
                    /\ gives.last = Max(dates)
    BY <2>1 DEF GetSpendSummary
  <2>4. \A f : IsSum(f) => gives.spent = f[S]
    BY <1>1, YearSpent
  <2> QED
    BY <2>2, <2>3, <2>4 DEF SummaryIsTold
<1>4. ASSUME NEW seed \in Genres \cup {NoGenre}, NEW limit \in Limits
      PROVE  PicksAreTold([read |-> "recommend", customer |-> c, seed |-> seed,
                           limit |-> limit], RecommendTracks(c, seed, limit))
  <2>1. limit \in Int
    BY CapAssumption
  <2>2. /\ Sound(RecommendTracks(c, seed, limit), Profile(c, seed), OwnedTracks(c),
                 Clamp(limit, MaxRecommendations))
        /\ Covers(RecommendTracks(c, seed, limit), Profile(c, seed), OwnedTracks(c),
                  Clamp(limit, MaxRecommendations))
        /\ FamiliarFirst(RecommendTracks(c, seed, limit), c, OwnedTracks(c))
    BY <1>1, <2>1, Recommended
  <2> QED
    BY <2>1, <2>2 DEF PicksAreTold
<1> QED
  BY <1>2, <1>3, <1>4

LEMMA AnswersStayTrue ==
  /\ RepositoryInit => AnswersAreTrue
  /\ AnswersAreTrue /\ (Ask \/ Leave \/ UNCHANGED repositoryVars) => AnswersAreTrue'
<1>1. RepositoryInit => AnswersAreTrue
  BY DEF RepositoryInit, AnswersAreTrue
<1>2. AnswersAreTrue /\ Leave => AnswersAreTrue'
  BY DEF Leave, AnswersAreTrue
<1>3. AnswersAreTrue /\ UNCHANGED repositoryVars => AnswersAreTrue'
  BY ToldStays DEF AnswersAreTrue, repositoryVars
<1>4. ASSUME AnswersAreTrue, NEW query, NEW gives, Told(query, gives), Answers(query, gives)
      PROVE  AnswersAreTrue'
  BY <1>4, ToldStays DEF AnswersAreTrue, Answers
<1>5. ASSUME AnswersAreTrue, NEW c \in Customers
      PROVE  /\ \A limit \in Limits : AskInvoices(c, limit) => AnswersAreTrue'
             /\ \A i \in Invoices : AskDetail(c, i) => AnswersAreTrue'
             /\ \A year \in Years \cup {AnyYear} : AskSummary(c, year) => AnswersAreTrue'
             /\ \A l \in Lines : AskLine(c, l) => AnswersAreTrue'
             /\ \A seed \in Genres \cup {NoGenre}, limit \in Limits :
                  AskRecommendations(c, seed, limit) => AnswersAreTrue'
  <2>1. chinook \in Databases
    BY <1>5 DEF AnswersAreTrue
  <2>2. ASSUME NEW limit \in Limits, AskInvoices(c, limit) PROVE AnswersAreTrue'
    BY <1>4, <1>5, <2>2 DEF AskInvoices, Told
  <2>3. ASSUME NEW i \in Invoices, AskDetail(c, i) PROVE AnswersAreTrue'
    BY <1>4, <1>5, <2>3 DEF AskDetail, Told
  <2>4. ASSUME NEW year \in Years \cup {AnyYear}, AskSummary(c, year) PROVE AnswersAreTrue'
    <3>1. Told([read |-> "summary", customer |-> c, year |-> year], GetSpendSummary(c, year))
      BY <2>1, AnswersAreTold DEF Told
    <3> QED
      BY <1>4, <1>5, <2>4, <3>1 DEF AskSummary
  <2>5. ASSUME NEW l \in Lines, AskLine(c, l) PROVE AnswersAreTrue'
    <3>1. Told([read |-> "line", customer |-> c, line |-> l], GetInvoiceLine(c, l))
      BY <2>1, AnswersAreTold DEF Told
    <3> QED
      BY <1>4, <1>5, <2>5, <3>1 DEF AskLine
  <2>6. ASSUME NEW seed \in Genres \cup {NoGenre}, NEW limit \in Limits,
               AskRecommendations(c, seed, limit)
        PROVE  AnswersAreTrue'
    <3>1. Told([read |-> "recommend", customer |-> c, seed |-> seed, limit |-> limit],
               RecommendTracks(c, seed, limit))
      BY <2>1, AnswersAreTold DEF Told
    <3> QED
      BY <1>4, <1>5, <2>6, <3>1 DEF AskRecommendations
  <2> QED
    BY <2>2, <2>3, <2>4, <2>5, <2>6
<1>6. AnswersAreTrue /\ Ask => AnswersAreTrue'
  BY <1>5 DEF Ask
<1> QED
  BY <1>1, <1>2, <1>3, <1>6

\* What is true of the database is what the properties ask of an answer.
LEMMA TrueAnswersSuffice ==
  AnswersAreTrue => RefundableIsShown /\ SummaryMatchesInvoices /\ RecommendationsAreSound
<1> SUFFICES ASSUME AnswersAreTrue
             PROVE  RefundableIsShown /\ SummaryMatchesInvoices /\ RecommendationsAreSound
  OBVIOUS
<1>1. chinook \in Databases /\ chinook \in DatabaseShape
  BY DatabaseAssumption DEF AnswersAreTrue
<1>2. RefundableIsShown
  BY <1>1, ListedLinesResolve DEF AnswersAreTrue, Told, LineIsTold, RefundableIsShown, Asked
<1>3. SummaryMatchesInvoices
  <2> DEFINE c      == answer.ask.customer
             listed == ListInvoices(c, MaxInvoiceLimit)
             S      == OwnInvoices(c)
             dates  == {chinook.date[i] : i \in S}
  <2> SUFFICES ASSUME Asked("summary"), answer.ask.year = AnyYear
               PROVE  /\ answer.gives.spent
                            = Spent({i \in Invoices : GetInvoiceDetail(c, i) # NotFound})
                      /\ answer.gives.spent = YearTotals(c)
                      /\ answer.gives.count > 0 =>
                           /\ answer.gives.last = chinook.date[Head(listed)]
                           /\ answer.gives.count <= MaxInvoiceLimit =>
                                /\ Len(listed) = answer.gives.count
                                /\ answer.gives.first = chinook.date[Last(listed)]
    BY Zenon DEF SummaryMatchesInvoices
  <2>1. SummaryIsTold(answer.ask, answer.gives)
    BY DEF AnswersAreTrue, Told, Asked
  <2>2. PICK f : IsSum(f)
    BY <1>1, SumExists
  <2>3. /\ answer.gives.spent = f[S]
        /\ S = {} => answer.gives.count = 0
        /\ S # {} => /\ answer.gives.count = Cardinality(S)
                     /\ answer.gives.first = Min(dates) /\ answer.gives.last = Max(dates)
    BY <2>1, <2>2 DEF SummaryIsTold
  <2>4. {i \in Invoices : GetInvoiceDetail(c, i) # NotFound} = S
    BY DEF GetInvoiceDetail, NotFound, OwnInvoices
  <2>5. Spent(S) = f[S] /\ YearTotals(c) = f[S]
    <3>1. S \in SUBSET Invoices
      BY DEF OwnInvoices
    <3>2. Spent(S) = f[S]
      <4> HIDE DEF S
      <4> QED
        BY <2>2, <3>1, SpentIsSum
    <3> QED
      BY <1>1, <2>2, <3>2, YearsAddUp
  <2>6. S # {} =>
          /\ Max(dates) = chinook.date[Head(listed)]
          /\ Cardinality(S) <= MaxInvoiceLimit =>
               /\ Len(listed) = Cardinality(S)
               /\ Min(dates) = chinook.date[Last(listed)]
    BY <1>1, ListEnds
  <2> HIDE DEF c, listed, S, dates
  <2> QED
    BY <2>3, <2>4, <2>5, <2>6
<1>4. ASSUME Asked("recommend"), NEW ask, ask = answer.ask, NEW picks, picks = answer.gives
      PROVE  /\ Sound(picks, Profile(ask.customer, ask.seed), OwnedTracks(ask.customer),
                      Clamp(ask.limit, MaxRecommendations))
             /\ Covers(picks, Profile(ask.customer, ask.seed), OwnedTracks(ask.customer),
                       Clamp(ask.limit, MaxRecommendations))
             /\ FamiliarFirst(picks, ask.customer, OwnedTracks(ask.customer))
             /\ ask.limit \in Int
  BY <1>4 DEF AnswersAreTrue, Told, PicksAreTold, Asked
<1>5. RecommendationsAreFair
  <2> SUFFICES ASSUME Asked("recommend"), NEW ask, ask = answer.ask,
                      NEW picks, picks = answer.gives,
                      NEW pool, pool = Profile(ask.customer, ask.seed),
                      NEW owned, owned = OwnedTracks(ask.customer),
                      NEW bound, bound = Clamp(ask.limit, MaxRecommendations)
               PROVE  /\ Picked(picks) \subseteq pool \ owned
                      /\ Cardinality(Credited(picks)) = Len(picks)
                      /\ Len(picks) <= MaxRecommendations
                      /\ Len(picks) < bound
                           => \A t \in pool \ owned : ArtistKey(t) \in Credited(picks)
    BY DEF RecommendationsAreFair
  <2>1. Sound(picks, pool, owned, bound) /\ Covers(picks, pool, owned, bound) /\ ask.limit \in Int
    BY <1>4
  <2>2. Picked(picks) \subseteq pool \ owned
    BY <2>1 DEF Sound, Picked
  <2>3. Cardinality(Credited(picks)) = Len(picks)
    BY <2>1, OneArtistEach
  <2>4. Len(picks) <= MaxRecommendations
    <3>1. Len(picks) \in Nat /\ Len(picks) <= bound
      BY <2>1, Indexes DEF Sound
    <3>2. bound <= MaxRecommendations
      BY <2>1, CapAssumption DEF Clamp
    <3>3. bound \in Int
      BY <2>1, CapAssumption DEF Clamp
    <3> QED
      BY <3>1, <3>2, <3>3, CapAssumption
  <2> QED
    BY <2>1, <2>2, <2>3, <2>4 DEF Covers
<1>6. FamiliarArtistsFirst
  <2>1. \A a : ToSet(TracksByArtist(a)) = ByArtist(a)
    BY <1>1, Shelves
  <2> QED
    BY <1>4, <2>1 DEF FamiliarArtistsFirst, FamiliarFirst
<1> QED
  BY <1>2, <1>3, <1>5, <1>6 DEF RecommendationsAreSound
=============================================================================
