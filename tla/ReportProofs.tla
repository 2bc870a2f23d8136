---------------------------- MODULE ReportProofs ----------------------------
(***************************************************************************)
(* Reading a report: its lines (ReportContext) and the rows of a table       *)
(* (TableScan), for every report and every table; before them the facts      *)
(* about folds and sums of the library that these proofs and those of        *)
(* PlatformProofs use.                                                      *)
(***************************************************************************)
EXTENDS ReportContext, TableScan, FiniteSetTheorems, WellFoundedInduction, TLAPS

-----------------------------------------------------------------------------
(* Folds.  The library's FoldLeft is a recursive function on the sets of      *)
(* positions that are left.                                                  *)

(* Some number of a set of naturals is the least.                            *)
LEMMA LeastNumber ==
  ASSUME NEW S, S \subseteq Nat, S # {}
  PROVE  \E x \in S : \A y \in S : x <= y
<1> DEFINE R == {pair \in Nat \X Nat : pair[1] < pair[2]}
<1>1. IsWellFoundedOn(R, Nat)
    BY NatLessThanWellFounded DEF OpToRel
<1>2. PICK x \in S : \A y \in S : <<y, x>> \notin R
    <2> HIDE DEF R
    <2> QED BY <1>1, WFMin
<1>3. ASSUME NEW y \in S PROVE x <= y
    <2>1. <<y, x>> \in Nat \X Nat /\ <<y, x>>[1] = y /\ <<y, x>>[2] = x
        OBVIOUS
    <2> QED BY <1>2, <2>1
<1> QED BY <1>3

(* A finite set without one of its elements is one smaller.                  *)
LEMMA OneLess ==
  ASSUME NEW S, IsFiniteSet(S), NEW x \in S
  PROVE  Cardinality(S \ {x}) = Cardinality(S) - 1
<1>1. Cardinality(S \ {x}) = IF x \in S THEN Cardinality(S) - 1 ELSE Cardinality(S)
    BY FS_RemoveElement, Zenon
<1> QED BY <1>1

(* A fold takes one chosen element of what is left at a time.                *)
Chooses(c, S) ==
  c \in [(SUBSET S) \ {{}} -> S] /\ \A t \in (SUBSET S) \ {{}} : c[t] \in t

IsFoldOf(h, g, base, c, S) ==
  \A t \in SUBSET S : h[t] = IF t = {} THEN base ELSE g[<<h[t \ {c[t]}], c[t]>>]

(* Over a finite set it exists.                                              *)
LEMMA FoldExists ==
  ASSUME NEW S, IsFiniteSet(S), NEW T, NEW base \in T,
         NEW c, Chooses(c, S), NEW g \in [T \X S -> T]
  PROVE  \E h \in [SUBSET S -> T] : IsFoldOf(h, g, base, c, S)
<1> USE DEF Chooses
<1> DEFINE Small(n) == {t \in SUBSET S : Cardinality(t) <= n}
           IsFold(h, n) == /\ h \in [Small(n) -> T]
                           /\ \A t \in Small(n) :
                                h[t] = IF t = {} THEN base ELSE g[<<h[t \ {c[t]}], c[t]>>]
           Missing == {n \in Nat : ~ \E h : IsFold(h, n)}
<1>1. ASSUME NEW t \in SUBSET S
      PROVE  Cardinality(t) \in Nat /\ Cardinality(t) <= Cardinality(S)
    BY FS_Subset, FS_CardinalityType
<1>2. ASSUME NEW t \in (SUBSET S) \ {{}}
      PROVE  t \ {c[t]} \in SUBSET S /\ Cardinality(t \ {c[t]}) = Cardinality(t) - 1
  <2>1. IsFiniteSet(t) /\ c[t] \in t
      BY FS_Subset
  <2> QED BY <2>1, OneLess
<1>3. Missing = {}
  <2> SUFFICES ASSUME Missing # {} PROVE FALSE
      OBVIOUS
  <2>1. PICK n \in Missing : \A m \in Missing : n <= m
    <3>1. Missing \subseteq Nat
        OBVIOUS
    <3> HIDE DEF Missing
    <3> QED BY <3>1, LeastNumber
  <2>2. n \in Nat /\ ~ \E h : IsFold(h, n)
      OBVIOUS
  <2>3. CASE n = 0
    <3>1. ASSUME NEW t \in Small(0) PROVE t = {}
      <4>1. Cardinality(t) = 0 /\ IsFiniteSet(t)
          BY <1>1, FS_Subset
      <4> QED BY <4>1, FS_EmptySet
    <3>2. IsFold([t \in Small(0) |-> base], 0)
        BY <3>1
    <3> HIDE DEF IsFold
    <3> QED BY <2>2, <2>3, <3>2
  <2>4. CASE n # 0
    <3>1. n - 1 \in Nat /\ n - 1 \notin Missing
      <4>1. n - 1 \in Nat /\ ~ (n <= n - 1)
          BY <2>2, <2>4
      <4> HIDE DEF Missing
      <4> QED BY <2>1, <4>1
    <3>2. PICK h : IsFold(h, n - 1)
        BY <3>1
    <3> DEFINE k == [t \in Small(n) |-> IF t \in Small(n - 1) THEN h[t]
                                        ELSE g[<<h[t \ {c[t]}], c[t]>>]]
    <3>3. ASSUME NEW t \in Small(n), t # {}
          PROVE  t \ {c[t]} \in Small(n - 1) /\ t \ {c[t]} \in Small(n)
        BY <1>1, <1>2, <3>1, <3>3
    <3>4. ASSUME NEW t \in Small(n) \ Small(n - 1) PROVE t # {}
      <4>1. {} \in Small(n - 1)
          BY <3>1, FS_EmptySet
      <4> QED BY <4>1
    <3>5. ASSUME NEW t \in Small(n) PROVE k[t] \in T
      <4>1. CASE t \in Small(n - 1)
          BY <3>2, <4>1
      <4>2. CASE t \notin Small(n - 1)
        <5>1. h[t \ {c[t]}] \in T /\ c[t] \in S
            BY <3>2, <3>3, <3>4, <4>2
        <5>2. g[<<h[t \ {c[t]}], c[t]>>] \in T
            BY <5>1, SMTT(60)
        <5> QED BY <4>2, <5>2
      <4> QED BY <4>1, <4>2
    <3>6. ASSUME NEW t \in Small(n)
          PROVE  k[t] = IF t = {} THEN base ELSE g[<<k[t \ {c[t]}], c[t]>>]
      <4>0. CASE t = {}
        <5>1. t \in Small(n - 1)
            BY <4>0, <3>4
        <5> QED BY <5>1, <4>0, <3>2
      <4>1. CASE t # {}
        <5>1. k[t \ {c[t]}] = h[t \ {c[t]}]
            BY <3>3, <4>1
        <5>2. k[t] = g[<<h[t \ {c[t]}], c[t]>>]
          <6>1. CASE t \in Small(n - 1)
              BY <6>1, <3>2, <4>1
          <6>2. CASE t \notin Small(n - 1)
              BY <6>2
          <6> QED BY <6>1, <6>2
        <5> QED BY <4>1, <5>1, <5>2
      <4> QED BY <4>0, <4>1
    <3>7. IsFold(k, n)
      <4>1. k \in [Small(n) -> T]
          BY <3>5
      <4> HIDE DEF k
      <4> QED BY <4>1, <3>6
    <3> HIDE DEF IsFold, k
    <3> QED BY <2>2, <3>7
  <2> QED BY <2>3, <2>4
<1>4. PICK h : IsFold(h, Cardinality(S))
    BY <1>1, <1>3
<1>5. Small(Cardinality(S)) = SUBSET S
    BY <1>1
<1> QED BY <1>4, <1>5 DEF IsFoldOf

(* What holds of a set when it holds of all that is left without one of its   *)
(* elements holds of every subset of a finite set.                           *)
LEMMA AllSubsets ==
  ASSUME NEW S, IsFiniteSet(S), NEW Good,
         \A t \in SUBSET S : (\A x \in t : t \ {x} \in Good) => t \in Good
  PROVE  \A t \in SUBSET S : t \in Good
<1> DEFINE Sizes == {n \in Nat : \E t \in SUBSET S : Cardinality(t) = n /\ t \notin Good}
<1>1. ASSUME NEW t \in SUBSET S PROVE Cardinality(t) \in Nat
    BY FS_Subset, FS_CardinalityType
<1>2. ASSUME Sizes # {} PROVE FALSE
  <2>1. PICK n \in Sizes : \A m \in Sizes : n <= m
    <3>1. Sizes \subseteq Nat
        OBVIOUS
    <3> HIDE DEF Sizes
    <3> QED BY <1>2, <3>1, LeastNumber
  <2>2. PICK t \in SUBSET S : Cardinality(t) = n /\ t \notin Good
      OBVIOUS
  <2>3. PICK x \in t : t \ {x} \notin Good
      BY <2>2
  <2>4. IsFiniteSet(t) /\ t \ {x} \in SUBSET S
      BY FS_Subset
  <2>5. Cardinality(t \ {x}) = n - 1 /\ Cardinality(t \ {x}) \in Nat
      BY <1>1, <2>2, <2>4, OneLess
  <2>6. n - 1 \in Sizes
      BY <2>3, <2>4, <2>5
  <2> QED BY <2>1, <2>6
<1> QED BY <1>1, <1>2

(* What such a fold keeps at each element holds of all it returns.           *)
LEMMA FoldStays ==
  ASSUME NEW S, IsFiniteSet(S), NEW T, NEW h,
         NEW c, Chooses(c, S), h[{}] \in T,
         \A t \in (SUBSET S) \ {{}} : h[t \ {c[t]}] \in T => h[t] \in T
  PROVE  \A t \in SUBSET S : h[t] \in T
<1> DEFINE Good == {t \in SUBSET S : h[t] \in T}
<1>1. ASSUME NEW t \in SUBSET S, \A x \in t : t \ {x} \in Good
      PROVE  t \in Good
  <2>1. CASE t = {}
      BY <2>1
  <2>2. CASE t # {}
    <3>1. c[t] \in t
        BY <2>2 DEF Chooses
    <3>2. t \ {c[t]} \in Good
        BY <1>1, <3>1
    <3> QED BY <2>2, <3>2
  <2> QED BY <2>1, <2>2
<1>2. \A t \in SUBSET S : t \in Good
  <2> HIDE DEF Good
  <2> QED BY <1>1, AllSubsets
<1> QED BY <1>2

(* The positions of a sequence.                                              *)
LEMMA FinitePositions ==
  ASSUME NEW n \in Nat
  PROVE  IsFiniteSet(1..n)
BY FS_Interval

(* A set of positions has a last one.                                        *)
LEMMA LastIsGreatest ==
  ASSUME NEW n \in Nat, NEW t \in SUBSET (0..n), t # {}
  PROVE  Max(t) \in t /\ \A y \in t : y <= Max(t)
<1> DEFINE Rest == {n - y : y \in t}
<1>1. Rest \subseteq Nat /\ Rest # {}
  <2>1. PICK y \in t : TRUE
      OBVIOUS
  <2>2. n - y \in Rest
      OBVIOUS
  <2>3. ASSUME NEW z \in t PROVE n - z \in Nat
      OBVIOUS
  <2> QED BY <2>2, <2>3
<1>2. PICK x \in Rest : \A z \in Rest : x <= z
    <2> HIDE DEF Rest
    <2> QED BY <1>1, LeastNumber
<1>3. PICK m \in t : x = n - m
    OBVIOUS
<1>4. ASSUME NEW y \in t PROVE m >= y
  <2>1. n - y \in Rest /\ m \in Nat /\ y \in Nat
      OBVIOUS
  <2>2. x <= n - y
      BY <1>2, <2>1
  <2> QED BY <1>3, <2>1, <2>2
<1>5. Max(t) \in t /\ \A y \in t : Max(t) >= y
    BY <1>4 DEF Max
<1>6. \A y \in t : y \in Nat
    OBVIOUS
<1> QED BY <1>5, <1>6

LEMMA LastPosition ==
  ASSUME NEW n \in Nat, NEW t \in SUBSET (1..n), t # {}
  PROVE  Max(t) \in t
<1>1. t \in SUBSET (0..n)
    OBVIOUS
<1> QED BY <1>1, LastIsGreatest

(* Sums.  The sum of a function over a finite set is the element taken out,   *)
(* whichever, and the sum of the rest.                                       *)
IsSum(T, h, f, S) ==
  /\ h \in [SUBSET S -> T] /\ h[{}] = 0
  /\ \A t \in SUBSET S : \A x \in t : h[t] = f[x] + h[t \ {x}]

Some(S) == [t \in (SUBSET S) \ {{}} |-> CHOOSE x \in t : TRUE]

LEMMA SomeChooses == ASSUME NEW S PROVE Chooses(Some(S), S)
<1>1. ASSUME NEW t \in (SUBSET S) \ {{}} PROVE (CHOOSE x \in t : TRUE) \in t
    OBVIOUS
<1> QED BY <1>1 DEF Chooses, Some

LEMMA SumExists ==
  ASSUME NEW S, IsFiniteSet(S), NEW T \in {Nat, Int}, NEW f \in [S -> T]
  PROVE  \E h : IsSum(T, h, f, S)
<1> DEFINE c == Some(S)
           g == [p \in T \X S |-> f[p[2]] + p[1]]
<1>1. Chooses(c, S) /\ g \in [T \X S -> T] /\ 0 \in T /\ T \subseteq Int
    BY SomeChooses
<1>2. PICK h \in [SUBSET S -> T] : IsFoldOf(h, g, 0, c, S)
  <2> HIDE DEF c, g
  <2> QED BY <1>1, FoldExists
<1> HIDE DEF c
<1>3. h[{}] = 0
    BY <1>2 DEF IsFoldOf
<1>4. ASSUME NEW t \in (SUBSET S) \ {{}}
      PROVE  c[t] \in t /\ h[t] = f[c[t]] + h[t \ {c[t]}]
  <2>1. c[t] \in t /\ c[t] \in S /\ h[t \ {c[t]}] \in T
      BY <1>1 DEF Chooses
  <2>2. h[t] = g[<<h[t \ {c[t]}], c[t]>>]
      BY <1>2 DEF IsFoldOf
  <2> QED BY <2>1, <2>2
<1> DEFINE Good == {t \in SUBSET S : \A x \in t : h[t] = f[x] + h[t \ {x}]}
<1>5. ASSUME NEW t \in SUBSET S, \A x \in t : t \ {x} \in Good
      PROVE  t \in Good
  <2> SUFFICES ASSUME NEW x \in t PROVE h[t] = f[x] + h[t \ {x}]
      OBVIOUS
  <2>1. c[t] \in t /\ h[t] = f[c[t]] + h[t \ {c[t]}]
      BY <1>4
  <2>2. CASE x = c[t]
      BY <2>1, <2>2
  <2>3. CASE x # c[t]
    <3> DEFINE y == c[t]
    <3> HIDE DEF y
    <3>1. y \in t /\ x # y /\ h[t] = f[y] + h[t \ {y}]
        BY <2>1, <2>3 DEF y
    <3>2. h[t \ {y}] = f[x] + h[(t \ {y}) \ {x}]
        BY <1>5, <3>1
    <3>3. h[t \ {x}] = f[y] + h[(t \ {x}) \ {y}]
        BY <1>5, <3>1
    <3>4. (t \ {x}) \ {y} = (t \ {y}) \ {x} /\ (t \ {x}) \ {y} \in SUBSET S
        OBVIOUS
    <3>5. PICK w \in T : w = h[(t \ {x}) \ {y}]
        BY <3>4
    <3>6. f[x] \in Int /\ f[y] \in Int /\ w \in Int
        BY <1>1, <3>1
    <3>7. h[t] = f[y] + (f[x] + w) /\ h[t \ {x}] = f[y] + w
        BY <3>1, <3>2, <3>3, <3>4, <3>5
    <3> QED BY <3>5, <3>6, <3>7
  <2> QED BY <2>2, <2>3
<1>6. \A t \in SUBSET S : t \in Good
  <2> HIDE DEF Good
  <2> QED BY <1>5, AllSubsets
<1>7. IsSum(T, h, f, S)
    BY <1>3, <1>6 DEF IsSum
<1> QED BY <1>7

(* It is the library's sum.                                                  *)
LEMMA SumIsTheSum ==
  ASSUME NEW S, IsFiniteSet(S), NEW T \in {Nat, Int}, NEW f \in [S -> T],
         NEW h, IsSum(T, h, f, S), NEW A \in SUBSET S
  PROVE  SumFunctionOnSet(f, A) = h[A]
<1> DEFINE next(F, t) == f[CHOOSE x \in t : TRUE] + F[t \ {CHOOSE x \in t : TRUE}]
<1>1. SumFunctionOnSet(f, A) =
        (CHOOSE F : F = [t \in SUBSET A |-> IF t = {} THEN 0 ELSE next(F, t)])[A]
    BY DEF SumFunctionOnSet, FoldFunctionOnSet, MapThenFoldSet
<1> DEFINE k == [t \in SUBSET A |-> h[t]]
<1>2. k = [t \in SUBSET A |-> IF t = {} THEN 0 ELSE next(k, t)]
  <2>1. ASSUME NEW t \in SUBSET A PROVE k[t] = IF t = {} THEN 0 ELSE next(k, t)
    <3>1. CASE t = {}
        BY <3>1 DEF IsSum
    <3>2. CASE t # {}
      <4> DEFINE x == CHOOSE x \in t : TRUE
      <4>1. x \in t
          BY <3>2
      <4> HIDE DEF x
      <4>2. h[t] = f[x] + h[t \ {x}] /\ t \ {x} \in SUBSET A
          BY <4>1 DEF IsSum
      <4>3. k[t] = f[x] + k[t \ {x}]
          BY <4>2
      <4> QED BY <3>2, <4>3 DEF x
    <3> QED BY <3>1, <3>2
  <2> QED BY <2>1
<1> HIDE DEF k
<1>3. PICK F : /\ F = [t \in SUBSET A |-> IF t = {} THEN 0 ELSE next(F, t)]
               /\ SumFunctionOnSet(f, A) = F[A]
    BY <1>1, <1>2
<1> DEFINE Good == {t \in SUBSET A : F[t] = h[t]}
<1>4. IsFiniteSet(A)
    BY FS_Subset
<1>5. ASSUME NEW t \in SUBSET A, \A x \in t : t \ {x} \in Good
      PROVE  t \in Good
  <2>1. CASE t = {}
      BY <1>3, <2>1 DEF IsSum
  <2>2. CASE t # {}
    <3> DEFINE x == CHOOSE x \in t : TRUE
    <3>1. x \in t
        BY <2>2
    <3>2. F[t] = f[x] + F[t \ {x}]
        BY <1>3, <2>2
    <3> HIDE DEF x
    <3>3. F[t \ {x}] = h[t \ {x}] /\ h[t] = f[x] + h[t \ {x}]
        BY <1>5, <3>1 DEF IsSum
    <3> QED BY <3>2, <3>3
  <2> QED BY <2>1, <2>2
<1>6. \A t \in SUBSET A : t \in Good
  <2> HIDE DEF Good
  <2> QED BY <1>4, <1>5, AllSubsets
<1> QED BY <1>3, <1>6

-----------------------------------------------------------------------------
(* The scan of a table.  What it remembers of the rows above is what a reader *)
(* sees above the next row: the last dividers and the entity (PlaceInv), the  *)
(* headings that still stand (OutlineInv), and the components since the last  *)
(* heading or total with their sums (ComponentsInv).                         *)

(* The last of positions, one of which comes after all others.                *)
LEMMA LastOfMore ==
  ASSUME NEW n \in Nat, NEW t \in SUBSET (0..n)
  PROVE  Max(t \union {n + 1}) = n + 1
<1>1. \A y \in t \union {n + 1} : n + 1 >= y
    OBVIOUS
<1>2. ASSUME NEW x \in t \union {n + 1}, \A y \in t \union {n + 1} : x >= y PROVE x = n + 1
    BY <1>2
<1> QED BY <1>1, <1>2 DEF Max

(* One summand more.                                                         *)
LEMMA OneSummandMore ==
  ASSUME NEW S, IsFiniteSet(S), NEW f \in [S -> Int], NEW x, x \notin S,
         NEW g \in [S \union {x} -> Int], \A y \in S : g[y] = f[y]
  PROVE  SumFunction(f) \in Int /\ SumFunction(g) = SumFunction(f) + g[x]
<1> DEFINE U == S \union {x}
<1>1. IsFiniteSet(U)
    BY FS_AddElement
<1>2. Int \in {Nat, Int}
    OBVIOUS
<1>3. PICK h : IsSum(Int, h, g, U)
  <2> HIDE DEF U
  <2> QED BY <1>1, <1>2, SumExists DEF U
<1> DEFINE k == [t \in SUBSET S |-> h[t]]
<1>4. IsSum(Int, k, f, S)
  <2>1. k \in [SUBSET S -> Int] /\ k[{}] = 0
      BY <1>3 DEF IsSum
  <2>2. ASSUME NEW t \in SUBSET S, NEW y \in t PROVE k[t] = f[y] + k[t \ {y}]
    <3>1. h[t] = g[y] + h[t \ {y}] /\ t \ {y} \in SUBSET S /\ g[y] = f[y]
        BY <1>3 DEF IsSum
    <3> QED BY <3>1
  <2> HIDE DEF k
  <2> QED BY <2>1, <2>2 DEF IsSum
<1> HIDE DEF k
<1>5. SumFunctionOnSet(f, S) = k[S]
    BY <1>2, <1>4, SumIsTheSum
<1>6. SumFunctionOnSet(g, U) = h[U]
  <2> HIDE DEF U
  <2> QED BY <1>1, <1>2, <1>3, SumIsTheSum DEF U
<1>7. h[U] = g[x] + h[S] /\ k[S] = h[S] /\ k[S] \in Int
  <2>1. h[U] = g[x] + h[U \ {x}] /\ U \ {x} = S
      BY <1>3 DEF IsSum
  <2>2. k[S] = h[S]
      BY DEF k
  <2>3. k[S] \in Int
      BY <1>4 DEF IsSum
  <2> QED BY <2>1, <2>2, <2>3
<1>8. DOMAIN f = S /\ DOMAIN g = U
    OBVIOUS
<1> HIDE DEF U
<1>9. g[x] \in Int
    BY DEF U
<1> QED BY <1>5, <1>6, <1>7, <1>8, <1>9 DEF SumFunction

(* What the state holds.                                                     *)
RowsOf(matrix) == IF matrix THEN MatrixRows ELSE StatementRows

PlaceTyped == \E V : place \in [section : V, parent : V, group : V, period : V]

ScanTypes ==
  /\ byEntity \in BOOLEAN /\ table \in Seq(RowsOf(byEntity))
  /\ at \in 1..Len(table) + 1
  /\ PlaceTyped
  /\ \E F : facts \in Seq(F)
  /\ \E n \in Nat : \A h \in outline : h.level \in 1..n
  /\ count \in Nat

(* The last divider above the next row.                                      *)
SectionAbove(i) == LabelOfLast(DividesSections, i, header)
PeriodAbove(i) == LabelOfLast(DividesPeriods, i, None)

PlaceInv ==
  /\ place.section = SectionAbove(at)
  /\ place.period = PeriodAbove(at)
  /\ entity = OwnerOf(at - 1)

OutlineInv ==
  /\ \A j \in 1..at - 1 :
       Stands(j, at) => [level |-> NumberOf(j), label |-> NameOf(j)] \in outline
  /\ \A h \in outline : \E j \in 1..at - 1 :
       /\ h.label = NameOf(j)
       /\ (Stands(j, at) /\ h.level = NumberOf(j)) \/ StandsBare(j, at)

(* The facts are of the rows read, in their order.                           *)
ReadInv ==
  \A k \in DOMAIN facts :
    /\ facts[k].at \in 1..at - 1
    /\ \A m \in 1..k - 1 : facts[m].at < facts[k].at
    /\ \A c \in DOMAIN facts[k].cells : facts[k].cells[c] \in Int

ComponentsInv ==
  LET own == Summed(at, Len(facts))
  IN /\ count = Cardinality(own)
     /\ DOMAIN sums = UNION {DOMAIN facts[k].cells : k \in own}
     /\ \A c \in DOMAIN sums : sums[c] = ColumnSum(own, c)

TInv ==
  /\ ScanTypes /\ PlaceInv /\ OutlineInv /\ ReadInv /\ ComponentsInv
  /\ FactsKeepTheirPlace /\ TotalsAddUp

(* A row without numbers is called by its label and belongs to no entity.     *)
LEMMA BareRows ==
  ASSUME ScanAssumption, ScanTypes, NEW r \in RowsOf(byEntity), ~HasData(r)
  PROVE  Owner(r) = None /\ RowLabel(r) = r.label
<1>1. r.relation = None /\ r.descriptor = None
    BY DEF ScanAssumption, RowsOf, HasData, NoCells, None
<1>2. CASE ~byEntity
    BY <1>1, <1>2 DEF Owner, RowLabel, Called
<1>3. CASE byEntity /\ r.label # None
    BY <1>1, <1>3 DEF Owner, RowLabel, Called, Boundary
<1>4. CASE byEntity /\ r.label = None
    BY <1>1, <1>4 DEF Owner, RowLabel, Called, Filled, HasData
<1> QED BY <1>2, <1>3, <1>4

(* The row that is read.                                                     *)
LEMMA RowRead ==
  ASSUME ScanTypes, at <= Len(table)
  PROVE  /\ table[at] \in RowsOf(byEntity) /\ at \in DOMAIN table /\ at \in Nat \ {0}
         /\ at + 1 \in 1..Len(table) + 1 /\ at - 1 \in Nat
BY DEF ScanTypes

(* The entity it belongs to is what a reader says.                           *)
LEMMA OwnerIsRead ==
  ASSUME ScanTypes, at <= Len(table), entity = OwnerOf(at - 1)
  PROVE  OwnerOf(at) = Owner(table[at]) /\ NameOf(at) = RowLabel(table[at])
<1> DEFINE r == table[at]
           starts(i) == {j \in 1..i : table[j].label # None \/ ~Filled(table[j])
                                        \/ table[j].descriptor \in TotalLabels}
           own == r.label # None \/ ~Filled(r) \/ r.descriptor \in TotalLabels
<1>1. at \in Nat \ {0} /\ at - 1 \in Nat /\ (at - 1) + 1 = at
    BY RowRead
<1>2. starts(at) = IF own THEN starts(at - 1) \union {at} ELSE starts(at - 1)
    BY <1>1
<1>3. own => Max(starts(at)) = at /\ starts(at) # {}
  <2>1. starts(at - 1) \in SUBSET (0..at - 1)
      BY <1>1
  <2>2. Max(starts(at - 1) \union {(at - 1) + 1}) = (at - 1) + 1
    <3> HIDE DEF starts
    <3> QED BY <1>1, <2>1, LastOfMore
  <2> QED BY <1>1, <1>2, <2>2
<1>4. OwnerOf(at) = Owner(r)
  <2>1. CASE ~byEntity
      BY <2>1 DEF OwnerOf, Owner
  <2>2. CASE byEntity /\ own
    <3>1. OwnerOf(at) = IF \/ r.label \in TotalLabels \/ r.descriptor \in TotalLabels
                           \/ ~HasData(r) /\ r.descriptor = None
                        THEN None ELSE r.label
      <4> HIDE DEF own
      <4> QED BY <1>3, <2>2 DEF OwnerOf
    <3> QED BY <2>2, <3>1 DEF Owner, Boundary, Filled, HasData, NoCells, TotalLabels, BareTotals, None
  <2>3. CASE byEntity /\ ~own
    <3>1. OwnerOf(at) = OwnerOf(at - 1)
      <4> HIDE DEF own
      <4> QED BY <1>2, <2>3 DEF OwnerOf
    <3> QED BY <2>3, <3>1 DEF Owner, Boundary, TotalLabels, BareTotals, None
  <2> QED BY <2>1, <2>2, <2>3
<1> QED BY <1>4 DEF NameOf, RowLabel

LEMMA SectionsAreRead ==
  ASSUME ScanTypes, at <= Len(table)
  PROVE  SectionAbove(at + 1) =
           IF DividesSections(table[at]) THEN table[at].label ELSE SectionAbove(at)
<1> DEFINE above(i) == {j \in 1..i - 1 : DividesSections(table[j])}
<1>1. at \in Nat \ {0} /\ at - 1 \in Nat /\ (at - 1) + 1 = at /\ (at + 1) - 1 = at
    BY RowRead
<1>2. above(at + 1) = IF DividesSections(table[at]) THEN above(at) \union {at} ELSE above(at)
    BY <1>1
<1>3. DividesSections(table[at]) => Max(above(at + 1)) = at /\ above(at + 1) # {}
  <2>1. above(at) \in SUBSET (0..at - 1)
      BY <1>1
  <2>2. Max(above(at) \union {(at - 1) + 1}) = (at - 1) + 1
    <3> HIDE DEF above
    <3> QED BY <1>1, <2>1, LastOfMore
  <2> QED BY <1>1, <1>2, <2>2
<1>4. \A i : SectionAbove(i) = IF above(i) = {} THEN header ELSE table[Max(above(i))].label
    BY DEF SectionAbove, LabelOfLast, RowsAbove
<1> HIDE DEF above
<1> QED BY <1>2, <1>3, <1>4

LEMMA PeriodsAreRead ==
  ASSUME ScanTypes, at <= Len(table)
  PROVE  PeriodAbove(at + 1) =
           IF DividesPeriods(table[at]) THEN table[at].label ELSE PeriodAbove(at)
<1> DEFINE above(i) == {j \in 1..i - 1 : DividesPeriods(table[j])}
<1>1. at \in Nat \ {0} /\ at - 1 \in Nat /\ (at - 1) + 1 = at /\ (at + 1) - 1 = at
    BY RowRead
<1>2. above(at + 1) = IF DividesPeriods(table[at]) THEN above(at) \union {at} ELSE above(at)
    BY <1>1
<1>3. DividesPeriods(table[at]) => Max(above(at + 1)) = at /\ above(at + 1) # {}
  <2>1. above(at) \in SUBSET (0..at - 1)
      BY <1>1
  <2>2. Max(above(at) \union {(at - 1) + 1}) = (at - 1) + 1
    <3> HIDE DEF above
    <3> QED BY <1>1, <2>1, LastOfMore
  <2> QED BY <1>1, <1>2, <2>2
<1>4. \A i : PeriodAbove(i) = IF above(i) = {} THEN None ELSE table[Max(above(i))].label
    BY DEF PeriodAbove, LabelOfLast, RowsAbove
<1> HIDE DEF above
<1> QED BY <1>2, <1>3, <1>4

(* What the rows say does not change.                                        *)
Rereads == UNCHANGED <<table, byEntity, header>>

LEMMA TableStays ==
  ASSUME Rereads
  PROVE  /\ \A i : SectionAbove(i)' = SectionAbove(i)
         /\ \A i : PeriodAbove(i)' = PeriodAbove(i)
         /\ \A i : OwnerOf(i)' = OwnerOf(i)
         /\ \A i : NameOf(i)' = NameOf(i)
         /\ LastFilled' = LastFilled
<1>1. table' = table /\ byEntity' = byEntity /\ header' = header
    BY DEF Rereads
<1>2. \A i : SectionAbove(i)' = SectionAbove(i)
    BY <1>1 DEF SectionAbove, LabelOfLast, RowsAbove, DividesSections
<1>3. \A i : PeriodAbove(i)' = PeriodAbove(i)
    BY <1>1 DEF PeriodAbove, LabelOfLast, RowsAbove, DividesPeriods
<1>4. \A i : OwnerOf(i)' = OwnerOf(i)
    BY <1>1 DEF OwnerOf
<1>5. \A i : NameOf(i)' = NameOf(i)
    BY <1>1, <1>4 DEF NameOf
<1>6. LastFilled' = LastFilled
    BY <1>1 DEF LastFilled
<1> QED BY <1>2, <1>3, <1>4, <1>5, <1>6

(* The facts of a row are one record, added when it is read.                  *)
Adding == Rereads /\ (facts' = facts \/ \E f : f.at = at /\ facts' = Append(facts, f))

LEMMA NumbersStay ==
  ASSUME ScanTypes, Adding
  PROVE  \A j : j # at => NumberOf(j)' = NumberOf(j)
<1>1. PICK F : facts \in Seq(F)
    BY DEF ScanTypes
<1>2. table' = table
    BY DEF Adding, Rereads
<1>3. CASE facts' = facts
    BY <1>2, <1>3 DEF NumberOf
<1>4. ASSUME NEW f, f.at = at, facts' = Append(facts, f)
      PROVE  \A j : j # at => NumberOf(j)' = NumberOf(j)
  <2>1. /\ DOMAIN facts' = DOMAIN facts \union {Len(facts) + 1}
        /\ \A k \in DOMAIN facts : facts'[k] = facts[k]
        /\ facts'[Len(facts) + 1] = f
      BY <1>1, <1>4
  <2>2. ASSUME NEW j, j # at
        PROVE  (\E k \in DOMAIN facts' : facts'[k].at = j /\ facts'[k].inferred)
                 <=> (\E k \in DOMAIN facts : facts[k].at = j /\ facts[k].inferred)
      BY <1>4, <2>1, <2>2
  <2> QED BY <1>2, <2>2 DEF NumberOf
<1> QED BY <1>3, <1>4 DEF Adding

LEMMA StandsStay ==
  ASSUME ScanTypes, Adding, NEW i \in 1..at, NEW j \in 1..i - 1
  PROVE  (Stands(j, i)' <=> Stands(j, i)) /\ (StandsBare(j, i)' <=> StandsBare(j, i))
<1>1. table' = table /\ at \in Nat /\ i \in Nat
    BY DEF Adding, Rereads, ScanTypes
<1>2. \A k \in 1..i - 1 : NumberOf(k)' = NumberOf(k)
    BY <1>1, NumbersStay
<1>3. \A k \in j + 1..i - 1 : k \in 1..i - 1
    BY <1>1
<1> QED BY <1>1, <1>2, <1>3 DEF Stands, StandsBare

LEMMA StandsGoesOn ==
  ASSUME ScanTypes, Adding, NEW i, i = at, NEW j \in 1..i - 1
  PROVE  /\ Stands(j, i + 1)' <=> /\ Stands(j, i) /\ ~DividesSections(table[i])
                                  /\ NumberOf(i)' \notin 1..NumberOf(j)
         /\ StandsBare(j, i + 1)' <=> /\ StandsBare(j, i) /\ ~DividesSections(table[i])
                                      /\ NumberOf(i)' # 1
<1>1. table' = table /\ i \in Nat /\ (i + 1) - 1 = i
    BY DEF Adding, Rereads, ScanTypes
<1>2. \A k \in 1..i - 1 : NumberOf(k)' = NumberOf(k)
    BY <1>1, NumbersStay
<1>3. j + 1..i = (j + 1..i - 1) \union {i} /\ \A k \in j + 1..i - 1 : k \in 1..i - 1
    BY <1>1
<1>4. Stands(j, i + 1)' <=> /\ NumberOf(j) > 0
                            /\ \A k \in j + 1..i : ~DividesSections(table[k])
                                                       /\ NumberOf(k)' \notin 1..NumberOf(j)
    BY <1>1, <1>2 DEF Stands
<1>5. StandsBare(j, i + 1)' <=>
        /\ NumberOf(j) = 0 /\ ~HasData(table[j]) /\ table[j].label \notin Sections \union Periods
        /\ \A k \in j + 1..i : ~DividesSections(table[k]) /\ NumberOf(k)' # 1
    BY <1>1, <1>2 DEF StandsBare
<1> QED BY <1>2, <1>3, <1>4, <1>5 DEF Stands, StandsBare

(* The headings that stand are above the next one without a number.           *)
LEMMA DeepestIs ==
  ASSUME ScanTypes
  PROVE  Deepest \in Nat /\ Above(Deepest + 1) = outline
<1>1. PICK n \in Nat : \A h \in outline : h.level \in 1..n
    BY DEF ScanTypes
<1> DEFINE levels == {h.level : h \in outline} \union {0}
<1>2. levels \in SUBSET (0..n) /\ levels # {}
    BY <1>1
<1>3. Max(levels) \in levels /\ \A y \in levels : y <= Max(levels)
  <2> HIDE DEF levels
  <2> QED BY <1>2, LastIsGreatest
<1>4. Deepest = Max(levels)
    BY DEF Deepest
<1>5. Deepest \in Nat
    BY <1>2, <1>3, <1>4
<1>6. ASSUME NEW h \in outline PROVE h.level <= Deepest /\ h.level \in Nat
  <2>1. h.level \in levels /\ h.level \in Nat
      BY <1>1
  <2>2. h.level <= Max(levels)
    <3> HIDE DEF levels
    <3> QED BY <1>3, <2>1
  <2> QED BY <1>4, <2>1, <2>2
<1>7. \A h \in outline : h.level < Deepest + 1
    BY <1>5, <1>6
<1> QED BY <1>5, <1>7 DEF Above

(* The next row changes the headings as a reader would.                      *)
LEMMA SectionClears ==
  ASSUME ScanTypes, Adding, NEW i, i = at, at' = i + 1,
         DividesSections(table[i]), NumberOf(i)' = 0, outline' = {}
  PROVE  OutlineInv'
<1>1. i \in Nat \ {0} /\ (i + 1) - 1 = i
    BY DEF ScanTypes
<1>2. ASSUME NEW j \in 1..i PROVE ~Stands(j, i + 1)'
  <2>1. CASE j = i
      BY <2>1 DEF Stands
  <2>2. CASE j # i
    <3>1. j \in 1..i - 1
        BY <1>1, <2>2
    <3> QED BY <3>1, StandsGoesOn
  <2> QED BY <2>1, <2>2
<1> QED BY <1>1, <1>2 DEF OutlineInv

LEMMA OutlineStays ==
  ASSUME ScanTypes, OutlineInv, Adding, NEW i, i = at, at' = i + 1,
         ~DividesSections(table[i]), NumberOf(i)' = 0, outline' = outline
  PROVE  OutlineInv'
<1>1. i \in Nat \ {0} /\ (i + 1) - 1 = i
    BY DEF ScanTypes
<1>2. \A j \in 1..i - 1 : j \in 1..i /\ NumberOf(j)' = NumberOf(j) /\ NameOf(j)' = NameOf(j)
    BY <1>1, NumbersStay, TableStays DEF Adding
<1>3. ASSUME NEW j \in 1..i, Stands(j, i + 1)'
      PROVE  [level |-> NumberOf(j)', label |-> NameOf(j)'] \in outline
  <2>1. j # i
      BY <1>3 DEF Stands
  <2>2. j \in 1..i - 1
      BY <1>1, <2>1
  <2>3. Stands(j, i)
      BY <1>3, <2>2, StandsGoesOn
  <2> QED BY <1>2, <2>2, <2>3 DEF OutlineInv
<1>4. ASSUME NEW h \in outline
      PROVE  \E j \in 1..i : /\ h.label = NameOf(j)'
                             /\ \/ Stands(j, i + 1)' /\ h.level = NumberOf(j)'
                                \/ StandsBare(j, i + 1)'
  <2>1. PICK j \in 1..i - 1 : /\ h.label = NameOf(j)
                              /\ (Stands(j, i) /\ h.level = NumberOf(j)) \/ StandsBare(j, i)
      BY DEF OutlineInv
  <2>2. Stands(j, i) => Stands(j, i + 1)'
      BY StandsGoesOn
  <2>3. StandsBare(j, i) => StandsBare(j, i + 1)'
      BY StandsGoesOn
  <2> QED BY <1>2, <2>1, <2>2, <2>3
<1> QED BY <1>1, <1>3, <1>4 DEF OutlineInv

LEMMA BareHeadingStands ==
  ASSUME ScanTypes, OutlineInv, Adding, NEW i, i = at, at' = i + 1,
         table[i].label \notin Sections \union Periods, ~HasData(table[i]), NumberOf(i)' = 0,
         NEW l, outline' = outline \union {[level |-> l, label |-> NameOf(i)]}
  PROVE  OutlineInv'
<1>1. i \in Nat \ {0} /\ (i + 1) - 1 = i
    BY DEF ScanTypes
<1>2. \A j \in 1..i : j # i => /\ j \in 1..i - 1
                               /\ NumberOf(j)' = NumberOf(j) /\ NameOf(j)' = NameOf(j)
    BY <1>1, NumbersStay, TableStays DEF Adding
<1>3. NameOf(i)' = NameOf(i) /\ ~DividesSections(table[i]) /\ table' = table
    BY TableStays DEF Adding, Rereads, DividesSections
<1>4. ASSUME NEW j \in 1..i, Stands(j, i + 1)'
      PROVE  [level |-> NumberOf(j)', label |-> NameOf(j)'] \in outline'
  <2>1. j # i
      BY <1>4 DEF Stands
  <2>2. Stands(j, i)
      BY <1>2, <1>4, <2>1, StandsGoesOn
  <2> QED BY <1>2, <2>1, <2>2 DEF OutlineInv
<1>5. ASSUME NEW h \in outline'
      PROVE  \E j \in 1..i : /\ h.label = NameOf(j)'
                             /\ \/ Stands(j, i + 1)' /\ h.level = NumberOf(j)'
                                \/ StandsBare(j, i + 1)'
  <2>1. CASE h \in outline
    <3>1. PICK j \in 1..i - 1 : /\ h.label = NameOf(j)
                                /\ (Stands(j, i) /\ h.level = NumberOf(j)) \/ StandsBare(j, i)
        BY <2>1 DEF OutlineInv
    <3>2. j \in 1..i /\ j # i
        BY <1>1
    <3>3. Stands(j, i) => Stands(j, i + 1)'
        BY <1>3, StandsGoesOn
    <3>4. StandsBare(j, i) => StandsBare(j, i + 1)'
        BY <1>3, StandsGoesOn
    <3> QED BY <1>2, <3>1, <3>2, <3>3, <3>4
  <2>2. CASE h = [level |-> l, label |-> NameOf(i)]
    <3>1. i \in 1..i /\ \A k \in i + 1..(i + 1) - 1 : FALSE
        BY <1>1
    <3>2. StandsBare(i, i + 1)'
        BY <1>3, <3>1 DEF StandsBare
    <3> QED BY <1>3, <2>2, <3>1, <3>2
  <2> QED BY <2>1, <2>2
<1> QED BY <1>1, <1>4, <1>5 DEF OutlineInv

LEMMA NumberedRowStands ==
  ASSUME ScanTypes, OutlineInv, Adding, NEW i, i = at, at' = i + 1,
         ~DividesSections(table[i]), NEW n \in Nat \ {0}, NumberOf(i)' = n,
         outline' = Under(n, NameOf(i)), \A j \in 1..i - 1 : NumberOf(j) \in Nat
  PROVE  OutlineInv'
<1>1. i \in Nat \ {0} /\ (i + 1) - 1 = i
    BY DEF ScanTypes
<1>2. \A j \in 1..i : j # i => /\ j \in 1..i - 1
                               /\ NumberOf(j)' = NumberOf(j) /\ NameOf(j)' = NameOf(j)
    BY <1>1, NumbersStay, TableStays DEF Adding
<1>3. NameOf(i)' = NameOf(i) /\ table' = table
    BY TableStays DEF Adding, Rereads
<1>4. outline' = {h \in outline : h.level < n} \union {[level |-> n, label |-> NameOf(i)]}
    BY DEF Under, Above
<1>5. ASSUME NEW j \in 1..i, Stands(j, i + 1)'
      PROVE  [level |-> NumberOf(j)', label |-> NameOf(j)'] \in outline'
  <2>1. CASE j = i
      BY <1>3, <1>4, <2>1
  <2>2. CASE j # i
    <3>1. Stands(j, i) /\ n \notin 1..NumberOf(j)
        BY <1>2, <1>5, <2>2, StandsGoesOn
    <3>2. NumberOf(j) \in Nat /\ NumberOf(j) < n
        BY <1>2, <2>2, <3>1
    <3>3. [level |-> NumberOf(j), label |-> NameOf(j)] \in outline
        BY <1>2, <2>2, <3>1 DEF OutlineInv
    <3> QED BY <1>2, <1>4, <2>2, <3>2, <3>3
  <2> QED BY <2>1, <2>2
<1>6. ASSUME NEW h \in outline'
      PROVE  \E j \in 1..i : /\ h.label = NameOf(j)'
                             /\ \/ Stands(j, i + 1)' /\ h.level = NumberOf(j)'
                                \/ StandsBare(j, i + 1)'
  <2>1. CASE h \in outline /\ h.level < n
    <3>1. PICK j \in 1..i - 1 : /\ h.label = NameOf(j)
                                /\ (Stands(j, i) /\ h.level = NumberOf(j)) \/ StandsBare(j, i)
        BY <2>1 DEF OutlineInv
    <3>2. j \in 1..i /\ j # i /\ NumberOf(j) \in Nat
        BY <1>1
    <3>3. h.level \in Nat \ {0}
        BY <2>1 DEF ScanTypes
    <3>4. Stands(j, i) /\ h.level = NumberOf(j) => Stands(j, i + 1)'
      <4> SUFFICES ASSUME Stands(j, i), h.level = NumberOf(j) PROVE Stands(j, i + 1)'
          OBVIOUS
      <4>1. n \notin 1..NumberOf(j)
          BY <2>1, <3>2
      <4> QED BY <4>1, StandsGoesOn
    <3>5. StandsBare(j, i) => StandsBare(j, i + 1)'
      <4>1. n # 1
          BY <2>1, <3>3
      <4> QED BY <4>1, StandsGoesOn
    <3> QED BY <1>2, <3>1, <3>2, <3>4, <3>5
  <2>2. CASE h = [level |-> n, label |-> NameOf(i)]
    <3>1. i \in 1..i /\ \A k \in i + 1..(i + 1) - 1 : FALSE
        BY <1>1
    <3>2. Stands(i, i + 1)'
        BY <1>3, <3>1 DEF Stands
    <3> QED BY <1>3, <2>2, <3>1, <3>2
  <2> QED BY <1>4, <2>1, <2>2
<1> QED BY <1>1, <1>5, <1>6 DEF OutlineInv

LEMMA PlaceMoves ==
  ASSUME ScanTypes, PlaceInv, Rereads, NEW i, i = at, i <= Len(table), at' = i + 1,
         entity' = Owner(table[i]),
         place'.section = IF DividesSections(table[i]) THEN table[i].label ELSE place.section,
         place'.period = IF DividesPeriods(table[i]) THEN table[i].label ELSE place.period
  PROVE  PlaceInv'
<1>1. (i + 1) - 1 = i
    BY DEF ScanTypes
<1>2. SectionAbove(i + 1)' = SectionAbove(i + 1) /\ PeriodAbove(i + 1)' = PeriodAbove(i + 1)
    BY TableStays
<1>3. OwnerOf(i)' = Owner(table[i])
    BY TableStays, OwnerIsRead DEF PlaceInv
<1>4. place'.section = SectionAbove(i + 1) /\ place'.period = PeriodAbove(i + 1)
    BY SectionsAreRead, PeriodsAreRead DEF PlaceInv
<1> QED BY <1>1, <1>2, <1>3, <1>4 DEF PlaceInv

(* A fact that is in its place stays there.                                  *)
InPlace(f) ==
  /\ f.section = SectionAbove(f.at) /\ f.period = PeriodAbove(f.at)
  /\ f.entity = OwnerOf(f.at) /\ PlacedUnder(f)

LEMMA PlacesAre == FactsKeepTheirPlace <=> \A k \in DOMAIN facts : InPlace(facts[k])
BY DEF FactsKeepTheirPlace, InPlace, SectionAbove, PeriodAbove

LEMMA PlacesStay ==
  ASSUME ScanTypes, Adding, NEW f, f.at \in 1..at - 1, InPlace(f)
  PROVE  InPlace(f)'
<1> DEFINE i == f.at
<1>1. i \in 1..at /\ i # at /\ \A j \in 1..i - 1 : j # at /\ j \in 1..at
    BY DEF ScanTypes
<1>2. /\ NumberOf(i)' = NumberOf(i)
      /\ \A j \in 1..i - 1 : NumberOf(j)' = NumberOf(j) /\ NameOf(j)' = NameOf(j)
    BY <1>1, NumbersStay, TableStays DEF Adding
<1>3. \A j \in 1..i - 1 : (Stands(j, i)' <=> Stands(j, i)) /\ (StandsBare(j, i)' <=> StandsBare(j, i))
    BY <1>1, StandsStay
<1>4. /\ SectionAbove(i)' = SectionAbove(i) /\ PeriodAbove(i)' = PeriodAbove(i)
      /\ OwnerOf(i)' = OwnerOf(i)
    BY TableStays DEF Adding
<1>5. PlacedUnder(f)'
    BY <1>2, <1>3 DEF InPlace, PlacedUnder
<1> QED BY <1>4, <1>5 DEF InPlace

(* The fact of the row that is read is in its place.                          *)
LEMMA NewFactInPlace ==
  ASSUME ScanTypes, PlaceInv, OutlineInv, Adding, NEW i, i = at, i <= Len(table),
         NEW n \in Nat, NumberOf(i)' = n,
         NEW f, f.at = i, f.section = place.section, f.period = place.period,
         f.entity = Owner(table[i]), f.headings = IF n = 0 THEN outline ELSE Above(n)
  PROVE  InPlace(f)'
<1>1. i \in 1..at /\ \A j \in 1..i - 1 : j # at
    BY DEF ScanTypes
<1>2. \A j \in 1..i - 1 : NumberOf(j)' = NumberOf(j) /\ NameOf(j)' = NameOf(j)
    BY <1>1, NumbersStay, TableStays DEF Adding
<1>3. \A j \in 1..i - 1 : (Stands(j, i)' <=> Stands(j, i)) /\ (StandsBare(j, i)' <=> StandsBare(j, i))
    BY <1>1, StandsStay
<1>4. /\ f.section = SectionAbove(i)' /\ f.period = PeriodAbove(i)'
      /\ f.entity = OwnerOf(i)'
    BY TableStays, OwnerIsRead DEF Adding, PlaceInv
<1>5. ASSUME NEW j \in 1..i - 1, Stands(j, i)', n = 0 \/ NumberOf(j)' < n
      PROVE  [level |-> NumberOf(j)', label |-> NameOf(j)'] \in f.headings
  <2> DEFINE h == [level |-> NumberOf(j), label |-> NameOf(j)]
  <2>1. h \in outline /\ h.level = NumberOf(j)
      BY <1>3, <1>5 DEF OutlineInv
  <2>2. n # 0 => h \in Above(n)
      BY <1>2, <1>5, <2>1 DEF Above
  <2> QED BY <1>2, <2>1, <2>2
<1>6. ASSUME NEW h \in f.headings
      PROVE  /\ n = 0 \/ h.level < n
             /\ \E j \in 1..i - 1 :
                  /\ h.label = NameOf(j)'
                  /\ (Stands(j, i)' /\ h.level = NumberOf(j)') \/ StandsBare(j, i)'
  <2>1. h \in outline /\ (n = 0 \/ h.level < n)
      BY DEF Above
  <2> QED BY <1>2, <1>3, <2>1 DEF OutlineInv
<1>7. PlacedUnder(f)'
    BY <1>5, <1>6 DEF PlacedUnder
<1> QED BY <1>4, <1>7 DEF InPlace

(* What a sum is of, as rows and facts are added.                            *)
LEMMA FactsKept ==
  ASSUME ScanTypes, Adding
  PROVE  /\ Len(facts) \in Nat /\ DOMAIN facts = 1..Len(facts)
         /\ \A k \in 1..Len(facts) : k \in DOMAIN facts' /\ facts'[k] = facts[k]
<1>1. PICK F : facts \in Seq(F)
    BY DEF ScanTypes
<1> QED BY <1>1 DEF Adding

LEMMA FactAdded ==
  ASSUME ScanTypes, NEW f, facts' = Append(facts, f)
  PROVE  /\ Len(facts') = Len(facts) + 1 /\ facts'[Len(facts) + 1] = f
         /\ DOMAIN facts' = 1..Len(facts) + 1
         /\ \E F : facts' \in Seq(F)
<1>1. PICK F : facts \in Seq(F)
    BY DEF ScanTypes
<1>2. facts \in Seq(F \union {f})
    BY <1>1
<1>3. facts' \in Seq(F \union {f})
    BY <1>2
<1> QED BY <1>1, <1>3

LEMMA SummedStays ==
  ASSUME ScanTypes, Adding, NEW i, NEW n \in 0..Len(facts)
  PROVE  Summed(i, n)' = Summed(i, n)
<1>1. table' = table /\ Len(facts) \in Nat
    BY FactsKept DEF Adding, Rereads
<1>2. \A k \in 1..n : facts'[k] = facts[k]
    BY <1>1, FactsKept
<1>3. \A k \in 1..n : \A m \in k..n : m \in 1..n
    BY <1>1
<1> QED BY <1>1, <1>2, <1>3 DEF Summed

LEMMA ColumnsStay ==
  ASSUME ScanTypes, Adding, NEW S \in SUBSET (1..Len(facts)), NEW c
  PROVE  ColumnSum(S, c)' = ColumnSum(S, c)
<1>1. \A k \in S : facts'[k] = facts[k]
    BY FactsKept
<1> DEFINE col == {k \in S : c \in DOMAIN facts[k].cells}
           later == {k \in S : c \in DOMAIN facts'[k].cells}
<1>2. later = col
    BY <1>1
<1>3. [k \in later |-> facts'[k].cells[c]] = [k \in col |-> facts[k].cells[c]]
    BY <1>1, <1>2
<1> QED BY <1>3 DEF ColumnSum

LEMMA SummedGoesOn ==
  ASSUME ScanTypes, ReadInv, NEW i, i = at, NEW n, n = Len(facts), Rereads,
         table[i].label = None \/ HasData(table[i])
  PROVE  /\ facts' = facts => Summed(i + 1, n)' = Summed(i, n)
         /\ \A f : facts' = Append(facts, f) /\ f.at = i /\ ~f.total =>
                     Summed(i + 1, n + 1)' = Summed(i, n) \union {n + 1}
<1>1. table' = table /\ i \in Nat /\ (i + 1) - 1 = i
    BY DEF ScanTypes, Rereads
<1>2. ASSUME NEW k \in 1..n
      PROVE  /\ facts[k].at \in 1..i - 1
             /\ facts[k].at..i = (facts[k].at..i - 1) \union {i}
  <2>1. n \in Nat /\ DOMAIN facts = 1..n
      BY DEF ScanTypes
  <2> QED BY <1>1, <2>1 DEF ReadInv
<1>3. ASSUME facts' = facts PROVE Summed(i + 1, n)' = Summed(i, n)
    BY <1>1, <1>2, <1>3 DEF Summed
<1>4. ASSUME NEW f, facts' = Append(facts, f), f.at = i, ~f.total
      PROVE  Summed(i + 1, n + 1)' = Summed(i, n) \union {n + 1}
  <2>1. /\ facts'[n + 1] = f /\ n \in Nat
        /\ \A k \in 1..n : facts'[k] = facts[k]
    <3>1. Adding
        BY <1>4 DEF Adding
    <3> QED BY <1>4, <3>1, FactAdded, FactsKept
  <2>2. ASSUME NEW k \in 1..n
        PROVE  k \in Summed(i + 1, n + 1)' <=> k \in Summed(i, n)
    <3>1. k..n + 1 = (k..n) \union {n + 1} /\ k \in 1..n + 1 /\ \A m \in k..n : m \in 1..n
        BY <2>1
    <3>2. (\A m \in k..n + 1 : ~facts'[m].total) <=> \A m \in k..n : ~facts[m].total
        BY <1>4, <2>1, <3>1
    <3>3. (\A j \in facts[k].at..i : table[j].label = None \/ HasData(table[j]))
            <=> \A j \in facts[k].at..i - 1 : table[j].label = None \/ HasData(table[j])
        BY <1>2
    <3> QED BY <1>1, <2>1, <3>1, <3>2, <3>3 DEF Summed
  <2>3. n + 1 \in Summed(i + 1, n + 1)'
    <3>1. i..i = {i} /\ n + 1..n + 1 = {n + 1} /\ n + 1 \in 1..n + 1
        BY <1>1, <2>1
    <3> QED BY <1>1, <1>4, <2>1, <3>1 DEF Summed
  <2>4. Summed(i + 1, n + 1)' \subseteq (1..n) \union {n + 1} /\ Summed(i, n) \subseteq 1..n
      BY <2>1 DEF Summed
  <2> QED BY <2>2, <2>3, <2>4
<1> QED BY <1>3, <1>4

(* A heading and a total begin a new sum.                                     *)
LEMMA SumsBegin ==
  ASSUME ScanTypes, ReadInv, Adding, NEW i, i = at, at' = i + 1, ClosesSum,
         \/ facts' = facts /\ table[i].label # None /\ ~HasData(table[i])
         \/ \E f : facts' = Append(facts, f) /\ f.total
  PROVE  ComponentsInv'
<1>1. table' = table /\ i \in Nat /\ (i + 1) - 1 = i
    BY DEF ScanTypes, Adding, Rereads
<1>2. Summed(i + 1, Len(facts))' = {}
  <2>1. CASE facts' = facts /\ table[i].label # None /\ ~HasData(table[i])
    <3>1. ASSUME NEW k \in 1..Len(facts) PROVE i \in facts[k].at..i
      <4>1. facts[k].at \in 1..i - 1
          BY FactsKept DEF ReadInv
      <4> QED BY <1>1, <4>1
    <3> QED BY <1>1, <2>1, <3>1 DEF Summed
  <2>2. CASE \E f : facts' = Append(facts, f) /\ f.total
    <3>1. PICK f : facts' = Append(facts, f) /\ f.total
        BY <2>2, SMTT(60)
    <3>2. Len(facts') = Len(facts) + 1 /\ facts'[Len(facts')] = f /\ Len(facts) \in Nat
        BY <3>1, FactAdded, FactsKept
    <3>3. \A k \in 1..Len(facts') : Len(facts') \in k..Len(facts')
        BY <3>2
    <3> QED BY <1>1, <3>1, <3>2, <3>3 DEF Summed
  <2> QED BY <2>1, <2>2
<1>3. sums' = << >> /\ count' = 0 /\ DOMAIN sums' = {}
    BY DEF ClosesSum, NoCells
<1>4. at' = i + 1 /\ Cardinality({}) = 0
    BY FS_EmptySet
<1>5. count' = Cardinality(Summed(at, Len(facts))')
    BY <1>2, <1>3, <1>4
<1>6. DOMAIN sums' = UNION {DOMAIN facts'[k].cells : k \in Summed(at, Len(facts))'}
    BY <1>2, <1>3, <1>4
<1> QED BY <1>3, <1>5, <1>6 DEF ComponentsInv

LEMMA SumsStay ==
  ASSUME ScanTypes, ReadInv, ComponentsInv, Adding, NEW i, i = at, at' = i + 1,
         facts' = facts, UNCHANGED <<sums, count>>, table[i].label = None \/ HasData(table[i])
  PROVE  ComponentsInv'
<1>1. PICK own : own = Summed(i, Len(facts))
    OBVIOUS
<1>2. Summed(at, Len(facts))' = own /\ own \in SUBSET (1..Len(facts))
  <2>1. Summed(i + 1, Len(facts))' = own
      BY <1>1, SummedGoesOn DEF Adding
  <2> QED BY <1>1, <2>1 DEF Summed
<1>3. \A c : ColumnSum(own, c)' = ColumnSum(own, c)
    BY <1>2, ColumnsStay
<1>4. /\ count = Cardinality(own)
      /\ DOMAIN sums = UNION {DOMAIN facts[k].cells : k \in own}
      /\ \A c \in DOMAIN sums : sums[c] = ColumnSum(own, c)
    BY <1>1 DEF ComponentsInv
<1>5. \A c \in DOMAIN sums' : sums'[c] = ColumnSum(Summed(at, Len(facts)), c)'
    BY <1>2, <1>3, <1>4
<1>6. count' = Cardinality(Summed(at, Len(facts))')
    BY <1>2, <1>4
<1>7. DOMAIN sums' = UNION {DOMAIN facts'[k].cells : k \in Summed(at, Len(facts))'}
  <2>1. sums' = sums /\ facts' = facts
      OBVIOUS
  <2>2. DOMAIN sums' = UNION {DOMAIN facts'[k].cells : k \in own}
      BY <1>4, <2>1, Zenon
  <2> QED BY <1>2, <2>2, Zenon
<1> QED BY <1>5, <1>6, <1>7 DEF ComponentsInv

(* A sum of integers is one, and of nothing 0.                               *)
LEMMA SumOfIntegers ==
  ASSUME NEW S, IsFiniteSet(S), NEW f \in [S -> Int]
  PROVE  SumFunction(f) \in Int /\ (S = {} => SumFunction(f) = 0)
<1>1. PICK h : IsSum(Int, h, f, S)
  <2>1. Int \in {Nat, Int}
      OBVIOUS
  <2> QED BY <2>1, SumExists
<1>2. SumFunctionOnSet(f, S) = h[S]
  <2>1. Int \in {Nat, Int} /\ S \in SUBSET S
      OBVIOUS
  <2> QED BY <1>1, <2>1, SumIsTheSum
<1>3. DOMAIN f = S
    OBVIOUS
<1>4. h[S] \in Int /\ h[{}] = 0
    BY <1>1 DEF IsSum
<1> QED BY <1>2, <1>3, <1>4 DEF SumFunction

(* A component more.                                                         *)
LEMMA ColumnGoesOn ==
  ASSUME ScanTypes, ReadInv, Rereads, NEW f, f.at = at, facts' = Append(facts, f),
         \A c \in DOMAIN f.cells : f.cells[c] \in Int,
         NEW n, n = Len(facts), NEW S \in SUBSET (1..n), NEW c,
         NEW T, T = S \union {n + 1}
  PROVE  /\ ColumnSum(S, c) \in Int
         /\ (\A k \in S : c \notin DOMAIN facts[k].cells) => ColumnSum(S, c) = 0
         /\ c \in DOMAIN f.cells => ColumnSum(T, c)' = ColumnSum(S, c) + f.cells[c]
         /\ c \notin DOMAIN f.cells => ColumnSum(T, c)' = ColumnSum(S, c)
<1> DEFINE col == {k \in S : c \in DOMAIN facts[k].cells}
           later == {k \in T : c \in DOMAIN facts'[k].cells}
           former == [k \in col |-> facts[k].cells[c]]
           new == [k \in later |-> facts'[k].cells[c]]
<1>1. /\ n \in Nat /\ DOMAIN facts = 1..n /\ n + 1 \notin S
      /\ \A k \in S : facts'[k] = facts[k]
      /\ facts'[n + 1] = f
  <2>1. Adding
      BY DEF Adding
  <2>2. n \in Nat /\ DOMAIN facts = 1..n /\ \A k \in 1..n : facts'[k] = facts[k]
      BY <2>1, FactsKept
  <2>3. facts'[n + 1] = f
      BY FactAdded
  <2>4. n + 1 \notin S /\ \A k \in S : facts'[k] = facts[k]
      BY <2>2
  <2> QED BY <2>2, <2>3, <2>4
<1>2. IsFiniteSet(col) /\ former \in [col -> Int]
  <2>1. IsFiniteSet(1..n)
      BY <1>1, FinitePositions
  <2>2. \A k \in col : facts[k].cells[c] \in Int
      BY <1>1 DEF ReadInv
  <2>3. IsFiniteSet(col)
      BY <2>1, FS_Subset
  <2> QED BY <2>2, <2>3
<1>3. ColumnSum(S, c) = SumFunction(former)
    BY DEF ColumnSum
<1>4. ColumnSum(T, c)' = SumFunction(new)
    BY DEF ColumnSum
<1>5. SumFunction(former) \in Int /\ (col = {} => SumFunction(former) = 0)
  <2> HIDE DEF col, former
  <2> QED BY <1>2, SumOfIntegers
<1>6. ASSUME c \in DOMAIN f.cells
      PROVE  SumFunction(new) = SumFunction(former) + f.cells[c]
  <2>1. later = col \union {n + 1} /\ n + 1 \notin col
      BY <1>1, <1>6
  <2>2. new \in [col \union {n + 1} -> Int] /\ \A k \in col : new[k] = former[k]
    <3>1. \A k \in col : facts'[k].cells[c] = former[k]
        BY <1>1
    <3>2. facts'[n + 1].cells[c] \in Int
        BY <1>1, <1>6
    <3>3. \A k \in col : former[k] \in Int
        BY <1>2
    <3> HIDE DEF later, col, former
    <3> QED BY <2>1, <3>1, <3>2, <3>3
  <2>3. new[n + 1] = f.cells[c]
      BY <1>1, <2>1
  <2>4. SumFunction(new) = SumFunction(former) + new[n + 1]
    <3> HIDE DEF later, col, former, new
    <3> QED BY <1>2, <2>1, <2>2, OneSummandMore
  <2> QED BY <2>3, <2>4
<1>7. ASSUME c \notin DOMAIN f.cells
      PROVE  SumFunction(new) = SumFunction(former)
  <2>1. later = col
      BY <1>1, <1>7
  <2>2. new = former
      BY <1>1, <2>1
  <2> QED BY <2>2
<1>8. (\A k \in S : c \notin DOMAIN facts[k].cells) => col = {}
    OBVIOUS
<1>9. /\ c \in DOMAIN f.cells => ColumnSum(T, c)' = ColumnSum(S, c) + f.cells[c]
      /\ c \notin DOMAIN f.cells => ColumnSum(T, c)' = ColumnSum(S, c)
  <2> HIDE DEF col, former, new
  <2> QED BY <1>3, <1>4, <1>5, <1>6, <1>7
<1>10. ColumnSum(S, c) \in Int /\ (col = {} => ColumnSum(S, c) = 0)
  <2> HIDE DEF col, former
  <2> QED BY <1>3, <1>5
<1> HIDE DEF col
<1> QED BY <1>8, <1>9, <1>10

LEMMA SumsGoOn ==
  ASSUME ScanTypes, ReadInv, ComponentsInv, Rereads, NEW i, i = at, at' = i + 1,
         HasData(table[i]), NEW f, f.at = i, ~f.total, facts' = Append(facts, f),
         f.cells = table[i].cells, Adds(table[i]),
         \A c \in DOMAIN f.cells : f.cells[c] \in Int
  PROVE  ComponentsInv'
<1>0. Adding /\ Len(facts) \in Nat
  <2>1. Adding
      BY DEF Adding
  <2> QED BY <2>1, FactsKept
<1>1. PICK n, own, new : n = Len(facts) /\ own = Summed(i, n) /\ new = own \union {n + 1}
    OBVIOUS
<1>2. own \in SUBSET (1..n) /\ n + 1 \notin own /\ IsFiniteSet(own)
  <2>1. own \in SUBSET (1..n)
      BY <1>1 DEF Summed
  <2>2. IsFiniteSet(1..n)
      BY <1>0, <1>1, FS_Interval
  <2> QED BY <1>0, <1>1, <2>1, <2>2, FS_Subset
<1>3. Summed(at, Len(facts))' = new
  <2>1. Len(facts)' = n + 1
      BY <1>1, FactAdded
  <2>2. Summed(i + 1, n + 1)' = own \union {n + 1}
      BY <1>1, SummedGoesOn
  <2> QED BY <1>1, <2>1, <2>2
<1>4. /\ count = Cardinality(own)
      /\ DOMAIN sums = UNION {DOMAIN facts[k].cells : k \in own}
      /\ \A c \in DOMAIN sums : sums[c] = ColumnSum(own, c)
    BY <1>1 DEF ComponentsInv
<1>5. count' = Cardinality(Summed(at, Len(facts))')
  <2>1. Cardinality(own \union {n + 1}) = Cardinality(own) + 1
      BY <1>2, FS_AddElement
  <2>2. count' = count + 1
      BY DEF Adds
  <2> QED BY <1>1, <1>3, <1>4, <2>1, <2>2
<1>6. DOMAIN sums' = DOMAIN sums \union DOMAIN f.cells
    BY DEF Adds
<1>7. DOMAIN sums' = UNION {DOMAIN facts'[k].cells : k \in new}
  <2>1. facts'[n + 1] = f /\ \A k \in own : facts'[k] = facts[k]
      BY <1>0, <1>1, <1>2, FactAdded, FactsKept
  <2>2. UNION {DOMAIN facts'[k].cells : k \in own} = UNION {DOMAIN facts[k].cells : k \in own}
      BY <2>1
  <2>3. \A x : x \in UNION {DOMAIN facts'[k].cells : k \in new}
                 <=> x \in UNION {DOMAIN facts'[k].cells : k \in own} \/ x \in DOMAIN f.cells
      BY <1>1, <2>1, Zenon
  <2>4. UNION {DOMAIN facts'[k].cells : k \in own} = DOMAIN sums
      BY <1>4, <2>2
  <2> HIDE <2>2
  <2> QED BY <1>6, <2>3, <2>4, Zenon
<1>8. ASSUME NEW c \in DOMAIN sums'
      PROVE  sums'[c] = ColumnSum(new, c)'
  <2>1. sums'[c] = (IF c \in DOMAIN sums THEN sums[c] ELSE 0)
                     + (IF c \in DOMAIN f.cells THEN f.cells[c] ELSE 0)
      BY <1>6 DEF Adds
  <2>2. /\ ColumnSum(own, c) \in Int
        /\ (\A k \in own : c \notin DOMAIN facts[k].cells) => ColumnSum(own, c) = 0
        /\ ColumnSum(new, c)' =
             ColumnSum(own, c) + (IF c \in DOMAIN f.cells THEN f.cells[c] ELSE 0)
    <3>1. n = Len(facts) /\ own \in SUBSET (1..n) /\ f.at = at /\ new = own \union {n + 1}
        BY <1>1, <1>2
    <3>2. ColumnSum(own, c) \in Int
        BY <3>1, ColumnGoesOn, Zenon
    <3>3. (\A k \in own : c \notin DOMAIN facts[k].cells) => ColumnSum(own, c) = 0
        BY <3>1, ColumnGoesOn, Zenon
    <3>4. c \in DOMAIN f.cells => ColumnSum(new, c)' = ColumnSum(own, c) + f.cells[c]
        BY <3>1, ColumnGoesOn
    <3>5. c \notin DOMAIN f.cells => ColumnSum(new, c)' = ColumnSum(own, c)
        BY <3>1, ColumnGoesOn
    <3> QED BY <3>2, <3>3, <3>4, <3>5
  <2>3. (IF c \in DOMAIN sums THEN sums[c] ELSE 0) = ColumnSum(own, c)
    <3>1. c \in DOMAIN sums => sums[c] = ColumnSum(own, c)
        BY <1>4
    <3>2. c \notin DOMAIN sums => \A k \in own : c \notin DOMAIN facts[k].cells
        BY <1>4
    <3> QED BY <2>2, <3>1, <3>2
  <2> QED BY <2>1, <2>2, <2>3
<1>10. DOMAIN sums' = UNION {DOMAIN facts'[k].cells : k \in Summed(at, Len(facts))'}
    BY <1>3, <1>7, Zenon
<1>11. \A c \in DOMAIN sums' : sums'[c] = ColumnSum(Summed(at, Len(facts)), c)'
    BY <1>3, <1>8
<1> QED BY <1>5, <1>10, <1>11 DEF ComponentsInv

(* What the facts say, when a row is read.                                   *)
LEMMA PlacesKept ==
  ASSUME ScanTypes, ReadInv, Adding, FactsKeepTheirPlace,
         facts' = facts \/ \E f : facts' = Append(facts, f) /\ InPlace(f)'
  PROVE  FactsKeepTheirPlace'
<1>1. ASSUME NEW k \in DOMAIN facts', NEW f, f = facts'[k] PROVE InPlace(f)'
  <2>1. CASE k \in 1..Len(facts)
    <3>1. f = facts[k] /\ k \in DOMAIN facts
        BY <1>1, <2>1, FactsKept
    <3>2. InPlace(f) /\ f.at \in 1..at - 1
        BY <3>1, PlacesAre DEF ReadInv
    <3> QED BY <3>2, PlacesStay
  <2>2. CASE k \notin 1..Len(facts)
    <3>1. facts' # facts
        BY <2>2, FactsKept
    <3>2. PICK g : facts' = Append(facts, g) /\ InPlace(g)'
        BY <3>1
    <3>3. facts'[Len(facts) + 1] = g /\ DOMAIN facts' = 1..Len(facts) + 1
        BY <3>2, FactAdded
    <3>4. k = Len(facts) + 1
        BY <2>2, <3>3, FactsKept
    <3> QED BY <1>1, <3>2, <3>3, <3>4
  <2> QED BY <2>1, <2>2
<1>2. ASSUME NEW k \in DOMAIN facts'
      PROVE  /\ facts'[k].section = SectionAbove(facts[k].at)'
             /\ facts'[k].period = PeriodAbove(facts[k].at)'
             /\ facts'[k].entity = OwnerOf(facts[k].at)'
             /\ PlacedUnder(facts[k])'
  <2>1. PICK f : f = facts'[k]
      OBVIOUS
  <2>2. InPlace(f)'
      BY <1>1, <2>1
  <2> QED BY <2>1, <2>2 DEF InPlace, PlacedUnder
<1> QED BY <1>2 DEF FactsKeepTheirPlace, SectionAbove, PeriodAbove

LEMMA TotalsKept ==
  ASSUME ScanTypes, ReadInv, ComponentsInv, Adding, TotalsAddUp, NEW i, i = at,
         \/ facts' = facts
         \/ \E f : /\ facts' = Append(facts, f) /\ f.at = i
                   /\ f.blank => /\ count >= 2
                                 /\ \/ i = LastFilled
                                    \/ \A c \in DOMAIN f.cells : c \in DOMAIN sums /\ sums[c] = f.cells[c]
  PROVE  TotalsAddUp'
<1>1. LastFilled' = LastFilled
    BY TableStays DEF Adding
<1>2. ASSUME NEW k \in DOMAIN facts', NEW f, f = facts'[k], f.blank, NEW own, own = Summed(f.at, k - 1)'
      PROVE  /\ Cardinality(own) >= 2
             /\ f.at = LastFilled \/ \A c \in DOMAIN f.cells : f.cells[c] = ColumnSum(own, c)'
  <2>1. CASE k \in 1..Len(facts)
    <3>1. f = facts[k] /\ k \in DOMAIN facts /\ k - 1 \in 0..Len(facts)
        BY <1>2, <2>1, FactsKept
    <3>2. own = Summed(f.at, k - 1) /\ own \in SUBSET (1..Len(facts))
      <4>1. Summed(f.at, k - 1)' = Summed(f.at, k - 1)
          BY <3>1, SummedStays
      <4> QED BY <1>2, <2>1, <3>1, <4>1 DEF Summed
    <3>3. \A c : ColumnSum(own, c)' = ColumnSum(own, c)
        BY <3>2, ColumnsStay
    <3>4. /\ Cardinality(own) >= 2
          /\ f.at = LastFilled \/ \A c \in DOMAIN f.cells : f.cells[c] = ColumnSum(own, c)
        BY <1>2, <3>1, <3>2 DEF TotalsAddUp
    <3> QED BY <3>3, <3>4
  <2>2. CASE k \notin 1..Len(facts)
    <3>1. facts' # facts
        BY <2>2, FactsKept
    <3>2. PICK g : /\ facts' = Append(facts, g) /\ g.at = i
                   /\ g.blank => /\ count >= 2
                                 /\ \/ i = LastFilled
                                    \/ \A c \in DOMAIN g.cells : c \in DOMAIN sums /\ sums[c] = g.cells[c]
        BY <3>1
    <3>3. facts'[Len(facts) + 1] = g /\ DOMAIN facts' = 1..Len(facts) + 1
        BY <3>2, FactAdded
    <3>4. k = Len(facts) + 1 /\ f = g /\ k - 1 = Len(facts) /\ Len(facts) \in 0..Len(facts)
        BY <1>2, <2>2, <3>3, FactsKept
    <3>5. own = Summed(at, Len(facts)) /\ own \in SUBSET (1..Len(facts))
      <4>1. PICK n : n = Len(facts)
          OBVIOUS
      <4>2. Summed(i, n)' = Summed(i, n)
          BY <3>4, <4>1, SummedStays
      <4>3. f.at = i /\ k - 1 = n
        <5>1. f.at = i
            BY <3>2, <3>4, Zenon
        <5>2. k - 1 = n
            BY <3>4, <4>1, Zenon
        <5> QED BY <5>1, <5>2
      <4>4. own = Summed(i, n)'
          BY <1>2, <4>3
      <4>5. own = Summed(i, n)
          BY <4>2, <4>4, Zenon
      <4> QED BY <4>1, <4>5 DEF Summed
    <3>6. \A c : ColumnSum(own, c)' = ColumnSum(own, c)
        BY <3>5, ColumnsStay
    <3>7. g.blank /\ count >= 2
      <4>1. f.blank
          BY <1>2, Zenon
      <4> QED BY <3>2, <3>4, <4>1, Zenon
    <3>8. Cardinality(own) >= 2
        BY <3>5, <3>7 DEF ComponentsInv
    <3>9. f.at = LastFilled \/ \A c \in DOMAIN f.cells : f.cells[c] = ColumnSum(own, c)
      <4>1. \/ i = LastFilled
            \/ \A c \in DOMAIN f.cells : c \in DOMAIN sums /\ sums[c] = f.cells[c]
          BY <3>2, <3>4, <3>7, Zenon
      <4>2. \A c \in DOMAIN sums : sums[c] = ColumnSum(own, c)
          BY <3>5, Zenon DEF ComponentsInv
      <4>3. f.at = i
          BY <3>2, <3>4, Zenon
      <4> QED BY <4>1, <4>2, <4>3
    <3> QED BY <3>6, <3>8, <3>9
  <2> QED BY <2>1, <2>2
<1>3. ASSUME NEW k \in DOMAIN facts', facts'[k].blank
      PROVE  /\ Cardinality(Summed(facts[k].at, k - 1)') >= 2
             /\ \/ facts'[k].at = LastFilled'
                \/ \A c \in DOMAIN facts'[k].cells :
                     facts'[k].cells[c] = ColumnSum(Summed(facts[k].at, k - 1), c)'
  <2>1. PICK f, own : f = facts'[k] /\ own = Summed(f.at, k - 1)'
      OBVIOUS
  <2>2. own = Summed(facts[k].at, k - 1)'
      BY <2>1
  <2>3. /\ Cardinality(own) >= 2
        /\ f.at = LastFilled \/ \A c \in DOMAIN f.cells : f.cells[c] = ColumnSum(own, c)'
      BY <1>2, <1>3, <2>1
  <2> QED BY <1>1, <2>1, <2>2, <2>3
<1> QED BY <1>3 DEF TotalsAddUp

LEMMA ReadKept ==
  ASSUME ScanTypes, ReadInv, Adding, NEW i, i = at, at' = i + 1,
         \A f : f.at = i /\ facts' = Append(facts, f) => \A c \in DOMAIN f.cells : f.cells[c] \in Int
  PROVE  ReadInv'
<1>1. i \in Nat \ {0} /\ (i + 1) - 1 = i
    BY DEF ScanTypes
<1>2. ASSUME NEW k \in DOMAIN facts'
      PROVE  /\ facts'[k].at \in 1..i
             /\ \A m \in 1..k - 1 : facts'[m].at < facts'[k].at
             /\ \A c \in DOMAIN facts'[k].cells : facts'[k].cells[c] \in Int
  <2>1. CASE k \in 1..Len(facts)
    <3>1. /\ facts'[k] = facts[k] /\ k \in DOMAIN facts
          /\ \A m \in 1..k - 1 : facts'[m] = facts[m]
        BY <2>1, FactsKept
    <3>2. facts[k].at \in 1..i
        BY <1>1, <3>1 DEF ReadInv
    <3> QED BY <3>1, <3>2 DEF ReadInv
  <2>2. CASE k \notin 1..Len(facts)
    <3>1. facts' # facts
        BY <2>2, FactsKept
    <3>2. PICK g : g.at = i /\ facts' = Append(facts, g)
        BY <3>1 DEF Adding
    <3>3. facts'[Len(facts) + 1] = g /\ DOMAIN facts' = 1..Len(facts) + 1
        BY <3>2, FactAdded
    <3>4. k = Len(facts) + 1 /\ k - 1 = Len(facts)
        BY <2>2, <3>3, FactsKept
    <3>5. ASSUME NEW m \in 1..k - 1 PROVE facts'[m].at < i
      <4>1. facts'[m] = facts[m] /\ m \in DOMAIN facts
          BY <3>4, FactsKept
      <4>2. facts[m].at \in 1..i - 1
          BY <4>1 DEF ReadInv
      <4> QED BY <1>1, <4>1, <4>2
    <3> QED BY <1>1, <3>2, <3>3, <3>4, <3>5
  <2> QED BY <2>1, <2>2
<1> QED BY <1>1, <1>2 DEF ReadInv

LEMMA PlaceChanges ==
  ASSUME PlaceTyped, NEW x
  PROVE  /\ place' = place => PlaceTyped'
         /\ place' = [place EXCEPT !.section = x, !.group = x] =>
              PlaceTyped' /\ place'.section = x /\ place'.period = place.period
         /\ place' = [place EXCEPT !.period = x] =>
              PlaceTyped' /\ place'.section = place.section /\ place'.period = x
         /\ place' = [place EXCEPT !.group = x] =>
              PlaceTyped' /\ place'.section = place.section /\ place'.period = place.period
         /\ place' = [place EXCEPT !.parent = x, !.group = x] =>
              PlaceTyped' /\ place'.section = place.section /\ place'.period = place.period
<1>1. PICK V : place \in [section : V, parent : V, group : V, period : V]
    BY DEF PlaceTyped
<1>2. PICK W : W = V \union {x}
    OBVIOUS
<1>3. place \in [section : W, parent : W, group : W, period : W] /\ x \in W
    BY <1>1, <1>2
<1>4. /\ [place EXCEPT !.section = x, !.group = x] \in [section : W, parent : W, group : W, period : W]
      /\ [place EXCEPT !.period = x] \in [section : W, parent : W, group : W, period : W]
      /\ [place EXCEPT !.group = x] \in [section : W, parent : W, group : W, period : W]
      /\ [place EXCEPT !.parent = x, !.group = x] \in [section : W, parent : W, group : W, period : W]
    BY <1>3
<1> QED BY <1>3, <1>4 DEF PlaceTyped

LEMMA TypesKept ==
  ASSUME ScanTypes, Adding, at <= Len(table), at' = at + 1, count' \in Nat,
         \E n \in Nat : \A h \in outline' : h.level \in 1..n, PlaceTyped'
  PROVE  ScanTypes'
<1>1. table' = table /\ byEntity' = byEntity /\ at' \in 1..Len(table) + 1
    BY RowRead DEF Adding, Rereads
<1>2. \E F : facts' \in Seq(F)
  <2>1. CASE facts' = facts
      BY <2>1 DEF ScanTypes
  <2>2. CASE \E f : facts' = Append(facts, f)
      BY <2>2, FactAdded
  <2> QED BY <2>1, <2>2 DEF Adding
<1>3. RowsOf(byEntity)' = RowsOf(byEntity)
    BY <1>1 DEF RowsOf
<1> QED BY <1>1, <1>2, <1>3 DEF ScanTypes, PlaceTyped

(* The number a row stands under is known when it is read.                    *)
LEMMA NumberRead ==
  ASSUME ScanTypes, ReadInv, Rereads, NEW i, i = at
  PROVE  /\ facts' = facts =>
              NumberOf(i)' = IF DividesSections(table[i]) \/ DividesPeriods(table[i])
                             THEN 0 ELSE table[i].outline
         /\ \A f : facts' = Append(facts, f) /\ f.at = i =>
              NumberOf(i)' = IF DividesSections(table[i]) \/ DividesPeriods(table[i]) \/ f.inferred
                             THEN 0 ELSE table[i].outline
<1>1. table' = table /\ i \in Nat
    BY DEF Rereads, ScanTypes
<1>2. ASSUME NEW k \in 1..Len(facts) PROVE facts[k].at # i
  <2>1. DOMAIN facts = 1..Len(facts)
      BY DEF ScanTypes
  <2> QED BY <1>1, <2>1 DEF ReadInv
<1>3. ASSUME facts' = facts
      PROVE  NumberOf(i)' = IF DividesSections(table[i]) \/ DividesPeriods(table[i])
                            THEN 0 ELSE table[i].outline
  <2>1. DOMAIN facts = 1..Len(facts)
      BY DEF ScanTypes
  <2>2. ~ \E k \in DOMAIN facts' : facts'[k].at = i /\ facts'[k].inferred
      BY <1>2, <1>3, <2>1
  <2> QED BY <1>1, <2>2 DEF NumberOf, DividesSections, DividesPeriods
<1>4. ASSUME NEW f, facts' = Append(facts, f), f.at = i
      PROVE  NumberOf(i)' = IF DividesSections(table[i]) \/ DividesPeriods(table[i]) \/ f.inferred
                            THEN 0 ELSE table[i].outline
  <2>1. Adding
      BY <1>4 DEF Adding
  <2>2. /\ facts'[Len(facts) + 1] = f /\ DOMAIN facts' = 1..Len(facts) + 1
        /\ \A k \in 1..Len(facts) : facts'[k] = facts[k]
        /\ Len(facts) \in Nat
      BY <1>4, <2>1, FactAdded, FactsKept
  <2>3. (\E k \in DOMAIN facts' : facts'[k].at = i /\ facts'[k].inferred) <=> f.inferred
    <3>1. ASSUME NEW k \in DOMAIN facts', facts'[k].at = i PROVE k = Len(facts) + 1
        BY <1>2, <2>2, <3>1
    <3> QED BY <1>4, <2>2, <3>1
  <2> QED BY <1>1, <2>3 DEF NumberOf, DividesSections, DividesPeriods
<1> QED BY <1>3, <1>4

LEMMA NumbersAre ==
  ASSUME ScanAssumption, ScanTypes, NEW j \in 1..at - 1
  PROVE  NumberOf(j) \in Nat
<1>1. j \in 1..Len(table) /\ DOMAIN table = 1..Len(table)
    BY DEF ScanTypes
<1>2. table[j] \in StatementRows \union MatrixRows
    BY <1>1 DEF ScanTypes, RowsOf
<1>3. table[j].outline \in Nat
    BY <1>2 DEF ScanAssumption
<1> QED BY <1>3 DEF NumberOf

-----------------------------------------------------------------------------
(* Each kind of row.                                                         *)

(* A row that adds no fact.                                                  *)
LEMMA NothingAdded ==
  ASSUME ScanAssumption, TInv, Rereads, NEW i, i = at, i <= Len(table), at' = i + 1, facts' = facts
  PROVE  ReadInv' /\ FactsKeepTheirPlace' /\ TotalsAddUp'
<1>1. Adding
    BY DEF Adding
<1>2. \A f : facts # Append(facts, f)
  <2>1. PICK F : facts \in Seq(F)
      BY DEF TInv, ScanTypes
  <2> SUFFICES ASSUME NEW f, facts = Append(facts, f) PROVE FALSE
      OBVIOUS
  <2>2. facts \in Seq(F \union {f})
      BY <2>1
  <2>3. Len(Append(facts, f)) = Len(facts) + 1 /\ Len(facts) \in Nat
      BY <2>2
  <2> QED BY <2>3
<1>3. ReadInv'
  <2>1. \A f : f.at = i /\ facts' = Append(facts, f) => \A c \in DOMAIN f.cells : f.cells[c] \in Int
      BY <1>2
  <2> QED BY <1>1, <2>1, ReadKept DEF TInv
<1>4. FactsKeepTheirPlace'
    BY <1>1, PlacesKept DEF TInv
<1>5. TotalsAddUp'
    BY <1>1, TotalsKept DEF TInv
<1> QED BY <1>3, <1>4, <1>5

LEMMA SkipKeeps == ASSUME ScanAssumption, TInv, Skip PROVE TInv'
<1> USE DEF TInv
<1>1. PICK i : i = at
    OBVIOUS
<1>2. /\ i <= Len(table) /\ at' = i + 1 /\ Rereads /\ Fill(table[i])
      /\ RowLabel(table[i]) = None
      /\ UNCHANGED <<place, outline, sums, count, facts>>
    BY <1>1 DEF Skip, Reading, Rereads
<1>3. Adding /\ facts' = facts /\ place' = place /\ outline' = outline /\ count' = count
    BY <1>2 DEF Adding
<1>4. /\ table[i].label = None /\ table[i].relation = None /\ table[i].descriptor = None
      /\ table[i] \in RowsOf(byEntity)
    BY <1>1, <1>2, RowRead DEF RowLabel, Called
<1>5. ~DividesSections(table[i]) /\ ~DividesPeriods(table[i]) /\ table[i].outline = 0
  <2>1. None \notin Sections /\ None \notin Periods
      BY DEF None, Sections, Periods
  <2>2. table[i] \in StatementRows \union MatrixRows
      BY <1>4 DEF RowsOf
  <2>3. {table[i].label, table[i].relation, table[i].descriptor} = {None}
      BY <1>4
  <2> QED BY <1>4, <2>1, <2>2, <2>3 DEF DividesSections, DividesPeriods, ScanAssumption
<1>6. NumberOf(i)' = 0
    BY <1>1, <1>2, <1>3, <1>5, NumberRead
<1>7. OutlineInv'
    BY <1>1, <1>2, <1>3, <1>5, <1>6, OutlineStays
<1>8. PlaceInv'
    BY <1>1, <1>2, <1>3, <1>5, PlaceMoves DEF Fill
<1>9. ComponentsInv'
    BY <1>1, <1>2, <1>3, <1>4, SumsStay
<1>10. ScanTypes'
  <2>1. count' \in Nat /\ \E n \in Nat : \A h \in outline' : h.level \in 1..n
      BY <1>3, SMTT(60) DEF ScanTypes
  <2>2. PlaceTyped'
      BY <1>3, PlaceChanges DEF ScanTypes, PlaceTyped
  <2> QED BY <1>1, <1>2, <1>3, <2>1, <2>2, TypesKept
<1>11. ReadInv' /\ FactsKeepTheirPlace' /\ TotalsAddUp'
    BY <1>1, <1>2, <1>3, NothingAdded
<1> QED BY <1>7, <1>8, <1>9, <1>10, <1>11

LEMMA SectionDividerKeeps == ASSUME ScanAssumption, TInv, SectionDivider PROVE TInv'
<1> USE DEF TInv
<1>1. PICK i : i = at
    OBVIOUS
<1>2. /\ i <= Len(table) /\ at' = i + 1 /\ Rereads /\ Fill(table[i])
      /\ RowLabel(table[i]) \in Sections /\ ~HasData(table[i])
      /\ place' = [place EXCEPT !.section = RowLabel(table[i]), !.group = RowLabel(table[i])]
      /\ outline' = {} /\ ClosesSum /\ facts' = facts
    BY <1>1 DEF SectionDivider, Reading, Rereads
<1>3. Adding /\ count' \in Nat
    BY <1>2 DEF Adding, ClosesSum
<1>4. RowLabel(table[i]) = table[i].label
    BY <1>1, <1>2, RowRead, BareRows
<1>5. /\ DividesSections(table[i]) /\ ~DividesPeriods(table[i]) /\ table[i].label # None
    BY <1>2, <1>4 DEF DividesSections, DividesPeriods, Sections, Periods, None
<1>6. NumberOf(i)' = 0
    BY <1>1, <1>2, <1>3, <1>5, NumberRead
<1>7. OutlineInv'
    BY <1>1, <1>2, <1>3, <1>5, <1>6, SectionClears
<1>8. PlaceInv' /\ PlaceTyped'
  <2>1. place'.section = table[i].label /\ place'.period = place.period /\ PlaceTyped'
      BY <1>2, <1>4, PlaceChanges DEF ScanTypes, PlaceTyped
  <2>2. PlaceInv'
      BY <1>1, <1>2, <1>5, <2>1, PlaceMoves DEF Fill
  <2> QED BY <2>1, <2>2
<1>9. ComponentsInv'
    BY <1>1, <1>2, <1>3, <1>5, SumsBegin
<1>10. ScanTypes'
  <2>1. \E n \in Nat : \A h \in outline' : h.level \in 1..n
      BY <1>2
  <2> QED BY <1>1, <1>2, <1>3, <1>8, <2>1, TypesKept
<1>11. ReadInv' /\ FactsKeepTheirPlace' /\ TotalsAddUp'
    BY <1>1, <1>2, NothingAdded
<1> QED BY <1>7, <1>8, <1>9, <1>10, <1>11

LEMMA PeriodDividerKeeps == ASSUME ScanAssumption, TInv, PeriodDivider PROVE TInv'
<1> USE DEF TInv
<1>1. PICK i : i = at
    OBVIOUS
<1>2. /\ i <= Len(table) /\ at' = i + 1 /\ Rereads /\ Fill(table[i])
      /\ RowLabel(table[i]) \in Periods /\ ~HasData(table[i])
      /\ place' = [place EXCEPT !.period = RowLabel(table[i])]
      /\ outline' = outline /\ ClosesSum /\ facts' = facts
    BY <1>1 DEF PeriodDivider, NewPeriod, Reading, Rereads
<1>3. Adding /\ count' \in Nat
    BY <1>2 DEF Adding, ClosesSum
<1>4. RowLabel(table[i]) = table[i].label
    BY <1>1, <1>2, RowRead, BareRows
<1>5. ~DividesSections(table[i]) /\ DividesPeriods(table[i]) /\ table[i].label # None
    BY <1>2, <1>4 DEF DividesSections, DividesPeriods, Sections, Periods, None
<1>6. NumberOf(i)' = 0
    BY <1>1, <1>2, <1>3, <1>5, NumberRead
<1>7. OutlineInv'
    BY <1>1, <1>2, <1>3, <1>5, <1>6, OutlineStays
<1>8. PlaceInv' /\ PlaceTyped'
  <2>1. place'.section = place.section /\ place'.period = table[i].label /\ PlaceTyped'
      BY <1>2, <1>4, PlaceChanges DEF ScanTypes, PlaceTyped
  <2>2. PlaceInv'
      BY <1>1, <1>2, <1>5, <2>1, PlaceMoves DEF Fill
  <2> QED BY <2>1, <2>2
<1>9. ComponentsInv'
    BY <1>1, <1>2, <1>3, <1>5, SumsBegin
<1>10. ScanTypes'
  <2>1. \E n \in Nat : \A h \in outline' : h.level \in 1..n
      BY <1>2 DEF ScanTypes
  <2> QED BY <1>1, <1>2, <1>3, <1>8, <2>1, TypesKept
<1>11. ReadInv' /\ FactsKeepTheirPlace' /\ TotalsAddUp'
    BY <1>1, <1>2, NothingAdded
<1> QED BY <1>7, <1>8, <1>9, <1>10, <1>11

(* A row added to the outline keeps the levels within a bound.                *)
LEMMA LevelsKept ==
  ASSUME ScanTypes, NEW l \in Nat \ {0}, NEW x,
         \A h \in outline' : h \in outline \/ h = [level |-> l, label |-> x]
  PROVE  \E n \in Nat : \A h \in outline' : h.level \in 1..n
<1>1. PICK n \in Nat : \A h \in outline : h.level \in 1..n
    BY DEF ScanTypes
<1>2. n + l \in Nat /\ \A h \in outline' : h.level \in 1..n + l
  <2>1. ASSUME NEW h \in outline' PROVE h.level \in 1..n + l
    <3>1. CASE h \in outline
        BY <1>1, <3>1
    <3>2. CASE h = [level |-> l, label |-> x]
        BY <3>2
    <3> QED BY <3>1, <3>2
  <2> QED BY <2>1
<1> QED BY <1>2

LEMMA HeadingKeeps == ASSUME ScanAssumption, TInv, Heading PROVE TInv'
<1> USE DEF TInv
<1>1. PICK i : i = at
    OBVIOUS
<1>2. /\ i <= Len(table) /\ at' = i + 1 /\ Rereads /\ Fill(table[i])
      /\ RowLabel(table[i]) \notin Periods \union Sections \union {None} /\ ~HasData(table[i])
      /\ place' = [place EXCEPT !.group = RowLabel(table[i])]
      /\ outline' = Under(IF table[i].outline > 0 THEN table[i].outline ELSE Deepest + 1,
                          RowLabel(table[i]))
      /\ ClosesSum /\ facts' = facts
    BY <1>1 DEF Heading, Reading, Rereads
<1>3. Adding /\ count' \in Nat
    BY <1>2 DEF Adding, ClosesSum
<1>4. RowLabel(table[i]) = table[i].label /\ table[i].outline \in Nat
  <2>1. table[i] \in RowsOf(byEntity)
      BY <1>1, <1>2, RowRead
  <2>2. table[i] \in StatementRows \union MatrixRows
      BY <2>1 DEF RowsOf
  <2> QED BY <1>2, <2>1, <2>2, BareRows DEF ScanAssumption
<1>5. ~DividesSections(table[i]) /\ ~DividesPeriods(table[i]) /\ table[i].label # None
    BY <1>2, <1>4 DEF DividesSections, DividesPeriods
<1>6. NumberOf(i)' = table[i].outline
    BY <1>1, <1>2, <1>3, <1>5, NumberRead
<1>7. NameOf(i) = RowLabel(table[i])
    BY <1>1, <1>2, OwnerIsRead DEF PlaceInv
<1>8. OutlineInv' /\ \E n \in Nat : \A h \in outline' : h.level \in 1..n
  <2>1. CASE table[i].outline > 0
    <3>1. PICK n \in Nat \ {0} : n = table[i].outline
        BY <1>4, <2>1
    <3>2. outline' = Under(n, NameOf(i)) /\ NumberOf(i)' = n
        BY <1>2, <1>6, <1>7, <2>1, <3>1
    <3>3. \A j \in 1..i - 1 : NumberOf(j) \in Nat
        BY <1>1, NumbersAre
    <3>4. \A h \in outline' : h \in outline \/ h = [level |-> n, label |-> NameOf(i)]
        BY <3>2 DEF Under, Above
    <3>5. OutlineInv'
        BY <1>1, <1>2, <1>3, <1>5, <3>2, <3>3, NumberedRowStands
    <3>6. \E m \in Nat : \A h \in outline' : h.level \in 1..m
        BY <3>4, LevelsKept
    <3> QED BY <3>5, <3>6
  <2>2. CASE table[i].outline = 0
    <3>1. PICK n \in Nat \ {0} : n = Deepest + 1
        BY DeepestIs
    <3>2. outline' = outline \union {[level |-> n, label |-> NameOf(i)]}
        BY <1>2, <1>7, <2>2, <3>1, DeepestIs DEF Under
    <3>3. table[i].label \notin Sections \union Periods /\ NumberOf(i)' = 0
        BY <1>2, <1>4, <1>6, <2>2
    <3>4. OutlineInv'
        BY <1>1, <1>2, <1>3, <3>2, <3>3, BareHeadingStands
    <3>5. \E m \in Nat : \A h \in outline' : h.level \in 1..m
        BY <3>2, LevelsKept
    <3> QED BY <3>4, <3>5
  <2> QED BY <1>4, <2>1, <2>2
<1>9. PlaceInv' /\ PlaceTyped'
  <2>1. place'.section = place.section /\ place'.period = place.period /\ PlaceTyped'
      BY <1>2, <1>4, PlaceChanges DEF ScanTypes, PlaceTyped
  <2>2. PlaceInv'
      BY <1>1, <1>2, <1>5, <2>1, PlaceMoves DEF Fill
  <2> QED BY <2>1, <2>2
<1>10. ComponentsInv'
    BY <1>1, <1>2, <1>3, <1>5, SumsBegin
<1>11. ScanTypes'
    BY <1>1, <1>2, <1>3, <1>8, <1>9, TypesKept
<1>12. ReadInv' /\ FactsKeepTheirPlace' /\ TotalsAddUp'
    BY <1>1, <1>2, NothingAdded
<1> QED BY <1>8, <1>9, <1>10, <1>11, <1>12

LEMMA FactsKeep == ASSUME ScanAssumption, TInv, Facts PROVE TInv'
<1> USE DEF TInv
<1>1. PICK i, r, f : i = at /\ r = table[at] /\ f = FactsOf(r)
    OBVIOUS
<1>2. /\ i <= Len(table) /\ at' = i + 1 /\ Rereads /\ Fill(r)
      /\ HasData(r) /\ (RowLabel(r) # None \/ TotalGroup(r) # None)
      /\ place' = Placed(r)
      /\ facts' = Append(facts, f)
      /\ outline' = IF Level(r) > 0 THEN Under(Level(r), RowLabel(r)) ELSE outline
      /\ IF IsTotal(r) THEN ClosesSum ELSE Adds(r)
    BY <1>1 DEF Facts, Reading, Rereads
<1>3. /\ f.at = i /\ f.inferred = (TotalGroup(r) # None)
      /\ f.blank = (RowLabel(r) = None)
      /\ f.total = IsTotal(r)
      /\ f.cells = r.cells /\ f.entity = Owner(r)
      /\ f.section = place.section /\ f.period = place.period
      /\ f.headings = IF Level(r) = 0 THEN outline ELSE Above(Level(r))
    BY <1>1 DEF FactsOf, IsTotal
<1>4. Adding
    BY <1>1, <1>2, <1>3 DEF Adding
<1>5. r.outline \in Nat /\ \A c \in DOMAIN f.cells : f.cells[c] \in Int
  <2>1. r \in StatementRows \union MatrixRows
      BY <1>1, <1>2, RowRead DEF RowsOf
  <2> QED BY <1>3, <2>1 DEF ScanAssumption
<1>6. ~DividesSections(r) /\ ~DividesPeriods(r)
    BY <1>2 DEF DividesSections, DividesPeriods
<1>7. PICK n \in Nat : n = Level(r)
    BY <1>5 DEF Level
<1>8. NumberOf(i)' = n
  <2>1. NumberOf(i)' = IF f.inferred THEN 0 ELSE r.outline
      BY <1>1, <1>2, <1>3, <1>6, NumberRead
  <2> QED BY <1>3, <1>7, <2>1 DEF Level
<1>9. NameOf(i) = RowLabel(r)
    BY <1>1, <1>2, OwnerIsRead DEF PlaceInv
<1>10. OutlineInv' /\ \E m \in Nat : \A h \in outline' : h.level \in 1..m
  <2>1. CASE n > 0
    <3>1. n \in Nat \ {0} /\ outline' = Under(n, NameOf(i))
        BY <1>2, <1>7, <1>9, <2>1
    <3>2. \A j \in 1..i - 1 : NumberOf(j) \in Nat
        BY <1>1, NumbersAre
    <3>3. \A h \in outline' : h \in outline \/ h = [level |-> n, label |-> NameOf(i)]
        BY <3>1 DEF Under, Above
    <3>4. OutlineInv'
        BY <1>1, <1>2, <1>4, <1>6, <1>8, <3>1, <3>2, NumberedRowStands
    <3>5. \E m \in Nat : \A h \in outline' : h.level \in 1..m
        BY <3>1, <3>3, LevelsKept
    <3> QED BY <3>4, <3>5
  <2>2. CASE n = 0
    <3>1. outline' = outline
        BY <1>2, <1>7, <2>2
    <3>2. OutlineInv'
        BY <1>1, <1>2, <1>4, <1>6, <1>8, <2>2, <3>1, OutlineStays
    <3> QED BY <3>1, <3>2 DEF ScanTypes
  <2> QED BY <2>1, <2>2
<1>11. PlaceInv' /\ PlaceTyped'
  <2>1. place'.section = place.section /\ place'.period = place.period /\ PlaceTyped'
    <3>1. place' = place \/ place' = [place EXCEPT !.parent = r.label, !.group = r.label]
        BY <1>2 DEF Placed
    <3> QED BY <3>1, PlaceChanges DEF ScanTypes
  <2>2. PlaceInv'
      BY <1>1, <1>2, <1>6, <2>1, PlaceMoves DEF Fill
  <2> QED BY <2>1, <2>2, SMTT(60)
<1>12. ComponentsInv' /\ count' \in Nat
  <2>1. CASE IsTotal(r)
    <3>1. ClosesSum
        BY <1>2, <2>1
    <3>2. ComponentsInv'
        BY <1>1, <1>2, <1>3, <1>4, <2>1, <3>1, SumsBegin
    <3> QED BY <3>1, <3>2 DEF ClosesSum
  <2>2. CASE ~IsTotal(r)
    <3>1. Adds(r) /\ r = table[i]
        BY <1>1, <1>2, <2>2
    <3>2. ComponentsInv'
        BY <1>1, <1>2, <1>3, <1>5, <2>2, <3>1, SumsGoOn
    <3> QED BY <3>1, <3>2 DEF Adds, ScanTypes
  <2> QED BY <2>1, <2>2
<1>13. ReadInv'
  <2>1. ASSUME NEW g, g.at = i, facts' = Append(facts, g), NEW c \in DOMAIN g.cells
        PROVE  g.cells[c] \in Int
    <3>1. g = f
      <4>1. facts'[Len(facts) + 1] = f
          BY <1>2, FactAdded
      <4>2. facts'[Len(facts) + 1] = g
          BY <2>1, FactAdded
      <4> QED BY <4>1, <4>2
    <3> QED BY <1>5, <2>1, <3>1
  <2> QED BY <1>1, <1>2, <1>4, <2>1, ReadKept
<1>14. FactsKeepTheirPlace'
  <2>1. InPlace(f)'
      BY <1>1, <1>2, <1>3, <1>4, <1>7, <1>8, NewFactInPlace
  <2> QED BY <1>2, <1>4, <2>1, PlacesKept
<1>15. TotalsAddUp'
  <2>1. ASSUME f.blank
        PROVE  /\ count >= 2
               /\ i = LastFilled
                    \/ \A c \in DOMAIN f.cells : c \in DOMAIN sums /\ sums[c] = f.cells[c]
    <3>1. BlankGroup(r) # None
        BY <1>2, <1>3, <2>1 DEF TotalGroup
    <3>2. (at = LastFilled /\ count >= 2) \/ AddsUp(r)
        BY <3>1 DEF BlankGroup
    <3> QED BY <1>1, <1>3, <3>2 DEF AddsUp
  <2> QED BY <1>1, <1>2, <1>3, <1>4, <2>1, TotalsKept
<1>16. ScanTypes'
    BY <1>1, <1>2, <1>4, <1>10, <1>11, <1>12, TypesKept
<1> QED BY <1>10, <1>11, <1>12, <1>13, <1>14, <1>15, <1>16

LEMMA ScanStarts == ASSUME ScanAssumption, ScanInit PROVE TInv
<1>1. /\ byEntity \in BOOLEAN /\ ScanStart
      /\ table \in Tables(RowsOf(byEntity))
    BY DEF ScanInit, RowsOf
<1>2. /\ at = 1 /\ outline = {} /\ sums = << >> /\ count = 0 /\ facts = << >>
      /\ place = [section |-> header, parent |-> None, group |-> None, period |-> None]
      /\ entity = None
    BY <1>1 DEF ScanStart, NoCells
<1>3. table \in Seq(RowsOf(byEntity))
    BY <1>1 DEF Tables
<1>4. PlaceTyped
  <2>1. place \in [section : {header, None}, parent : {header, None},
                   group : {header, None}, period : {header, None}]
      BY <1>2
  <2> QED BY <2>1 DEF PlaceTyped
<1>5. ScanTypes
  <2>1. at \in 1..Len(table) + 1
      BY <1>2, <1>3
  <2>2. \E F : facts \in Seq(F)
    <3>1. facts \in Seq({})
        BY <1>2
    <3> QED BY <3>1
  <2>3. \E n \in Nat : \A h \in outline : h.level \in 1..n
      BY <1>2
  <2> QED BY <1>1, <1>2, <1>3, <1>4, <2>1, <2>2, <2>3 DEF ScanTypes
<1>6. PlaceInv
  <2>1. SectionAbove(1) = header /\ PeriodAbove(1) = None
    <3>1. \A j \in 1..1 - 1 : FALSE
        OBVIOUS
    <3> QED BY <3>1 DEF SectionAbove, PeriodAbove, LabelOfLast, RowsAbove
  <2>2. OwnerOf(0) = None
    <3>1. 1..0 = {}
        OBVIOUS
    <3> QED BY <3>1 DEF OwnerOf
  <2>3. place.section = header /\ place.period = None
      BY <1>2
  <2>4. at - 1 = 0
      BY <1>2
  <2> QED BY <1>2, <2>1, <2>2, <2>3, <2>4 DEF PlaceInv
<1>7. OutlineInv /\ ReadInv /\ FactsKeepTheirPlace /\ TotalsAddUp
    BY <1>2 DEF OutlineInv, ReadInv, FactsKeepTheirPlace, TotalsAddUp
<1>8. ComponentsInv
  <2>1. Len(facts) = 0 /\ Summed(at, 0) = {}
      BY <1>2 DEF Summed
  <2>2. Cardinality({}) = 0 /\ DOMAIN sums = {}
      BY <1>2, FS_EmptySet
  <2> QED BY <1>2, <2>1, <2>2 DEF ComponentsInv
<1> QED BY <1>5, <1>6, <1>7, <1>8 DEF TInv

LEMMA ScanUnchanged == ASSUME TInv, UNCHANGED scanVars PROVE TInv'
<1>1. /\ table' = table /\ byEntity' = byEntity /\ header' = header /\ at' = at
      /\ place' = place /\ outline' = outline /\ sums' = sums /\ count' = count
      /\ entity' = entity /\ relation' = relation /\ facts' = facts
    BY DEF scanVars
<1>2. Adding /\ Rereads
    BY <1>1 DEF Adding, Rereads
<1>3. ScanTypes'
    BY <1>1 DEF TInv, ScanTypes, PlaceTyped, RowsOf
<1>4. PlaceInv'
    BY <1>1, <1>2, TableStays DEF TInv, PlaceInv
<1>5. \A j : NumberOf(j)' = NumberOf(j) /\ NameOf(j)' = NameOf(j)
    BY <1>1, <1>2, TableStays DEF NumberOf, DividesSections, DividesPeriods
<1>6. \A i, j : (Stands(j, i)' <=> Stands(j, i)) /\ (StandsBare(j, i)' <=> StandsBare(j, i))
    BY <1>1, <1>5 DEF Stands, StandsBare, DividesSections
<1>7. OutlineInv'
    BY <1>1, <1>5, <1>6 DEF TInv, OutlineInv
<1>8. ReadInv'
    BY <1>1 DEF TInv, ReadInv
<1>9. /\ \A i, n : Summed(i, n)' = Summed(i, n)
      /\ \A S, c : ColumnSum(S, c)' = ColumnSum(S, c)
    BY <1>1 DEF Summed, ColumnSum
<1>10. ComponentsInv'
    BY <1>1, <1>9 DEF TInv, ComponentsInv
<1>11. FactsKeepTheirPlace'
    BY <1>1, <1>2, <1>5, <1>6, TableStays
    DEF TInv, FactsKeepTheirPlace, SectionAbove, PeriodAbove, PlacedUnder
<1>12. TotalsAddUp'
    BY <1>1, <1>2, <1>9, TableStays DEF TInv, TotalsAddUp
<1> QED BY <1>3, <1>4, <1>7, <1>8, <1>10, <1>11, <1>12 DEF TInv

(* Every fact stands where a reader of its table would put it and every total *)
(* adds up, whatever the table (df_to_facts, kb_builder.py:1134-1640).        *)
THEOREM FactsMeanTheirRowsAlways == ScanSpec => []FactsMeanTheirRows
<1> USE ScanAssumption
<1>1. ScanInit => TInv
    BY ScanStarts
<1>2. TInv /\ [ScanNext]_scanVars => TInv'
  <2> SUFFICES ASSUME TInv, [ScanNext]_scanVars PROVE TInv'
      OBVIOUS
  <2>1. CASE Skip
      BY <2>1, SkipKeeps
  <2>2. CASE SectionDivider
      BY <2>2, SectionDividerKeeps
  <2>3. CASE PeriodDivider
      BY <2>3, PeriodDividerKeeps
  <2>4. CASE Heading
      BY <2>4, HeadingKeeps
  <2>5. CASE Facts
      BY <2>5, FactsKeep
  <2>6. CASE UNCHANGED scanVars
      BY <2>6, ScanUnchanged
  <2> QED BY <2>1, <2>2, <2>3, <2>4, <2>5, <2>6 DEF ScanNext
<1>3. TInv => FactsMeanTheirRows
    BY DEF TInv, FactsMeanTheirRows
<1> QED BY <1>1, <1>2, <1>3, PTL DEF ScanSpec

-----------------------------------------------------------------------------
(* The reading of a report.  What is latched is what a reader says of the     *)
(* last line (HereInv), so a table that closes there stands where it should.  *)
HereSet(V) ==
  [section : V, inNotes : BOOLEAN, chapter : V, ref : V, page : Nat, continued : BOOLEAN, said : V]
IsHere(c) == \E V : c \in HereSet(V)

BlockSet(V) ==
  [section : V, ref : V, page : Nat, continued : BOOLEAN, looks : V, width : V,
   look : V \union {"semantic"}, at : Nat, from : Nat]

ReadTypes ==
  /\ lines \in Seq(LineKinds) /\ read \in BOOLEAN /\ IsHere(here)
  /\ \E V : blocks \in Seq(BlockSet(V))

HereInv ==
  /\ here.inNotes = AmongNotes(Len(lines)) /\ here.section = SectionAt(Len(lines))
  /\ here.chapter = ChapterAt(Len(lines)) /\ here.ref = ScheduleAt(Len(lines))

(* A table that stands where a reader says, and one that lost its header to   *)
(* another (the two parts of TablesStandInTheirNote).                        *)
Stood(b) == b.at \in 0..Len(lines) /\ b.section = SectionAt(b.at) /\ b.ref = ScheduleAt(b.at)

Heads(done, n) ==
  LET b == done[n]  a == done[b.from] IN
  /\ b.from \in 1..n - 1 /\ a.look = "semantic" /\ a.width = b.width
  /\ a.section = b.section /\ a.ref = b.ref
  /\ \A m \in b.from + 1..n - 1 :
       done[m].look = "semantic" => <<done[m].section, done[m].ref>> # <<b.section, b.ref>>
  /\ b.page > a.page + 1 => a.page = NoPage

Fine(done) == \A n \in DOMAIN done : Stood(done[n]) /\ (done[n].from # 0 => Heads(done, n))

BlocksInv == Fine(blocks) /\ (~read => \A n \in DOMAIN blocks : blocks[n].from = 0)

ContextInv == ReadTypes /\ HereInv /\ BlocksInv

(* A line more.                                                              *)
LEMMA LinesKept ==
  ASSUME lines \in Seq(LineKinds), NEW l \in LineKinds, lines' = Append(lines, l)
  PROVE  /\ Len(lines) \in Nat /\ Len(lines') = Len(lines) + 1 /\ lines'[Len(lines) + 1] = l
         /\ \A i \in 1..Len(lines) : lines'[i] = lines[i]
         /\ lines' \in Seq(LineKinds)
OBVIOUS

LEMMA LastLineOfMore ==
  ASSUME NEW n \in Nat, NEW S \in SUBSET (1..n)
  PROVE  LastLine(S \union {n + 1}) = n + 1
<1>1. S \union {0} \in SUBSET (0..n)
    OBVIOUS
<1>2. (S \union {n + 1}) \union {0} = (S \union {0}) \union {n + 1}
    OBVIOUS
<1>3. Max((S \union {0}) \union {n + 1}) = n + 1
    BY <1>1, LastOfMore
<1> QED BY <1>2, <1>3 DEF LastLine

LEMMA LastLineIs ==
  ASSUME NEW n \in Nat, NEW S \in SUBSET (1..n)
  PROVE  /\ LastLine(S) \in S \union {0} /\ (LastLine(S) = 0 <=> S = {})
         /\ \A y \in S : y <= LastLine(S)
<1>1. S \union {0} \in SUBSET (0..n) /\ S \union {0} # {}
    OBVIOUS
<1>2. Max(S \union {0}) \in S \union {0} /\ \A y \in S \union {0} : y <= Max(S \union {0})
    BY <1>1, LastIsGreatest
<1>3. S # {} => Max(S \union {0}) # 0
  <2> SUFFICES ASSUME NEW y \in S, Max(S \union {0}) = 0 PROVE FALSE
      OBVIOUS
  <2>1. y <= 0 /\ y \in 1..n
      BY <1>2
  <2> QED BY <2>1
<1>4. S = {} => Max(S \union {0}) = 0
    BY <1>2
<1> QED BY <1>2, <1>3, <1>4 DEF LastLine

(* What a reader says of the lines above does not change.                    *)
LEMMA ReadingStays ==
  ASSUME lines \in Seq(LineKinds), NEW l \in LineKinds, lines' = Append(lines, l),
         NEW i \in 0..Len(lines)
  PROVE  /\ AmongNotes(i)' = AmongNotes(i) /\ SectionAt(i)' = SectionAt(i)
         /\ ChapterAt(i)' = ChapterAt(i) /\ ScheduleAt(i)' = ScheduleAt(i)
<1>1. \A j \in 1..Len(lines) : lines'[j] = lines[j]
    BY LinesKept
<1>2. \A j \in 1..Len(lines) : (Opens(j)' <=> Opens(j)) /\ (Closes(j)' <=> Closes(j))
    BY <1>1 DEF Opens, Closes
<1>3. ASSUME NEW k \in 0..Len(lines)
      PROVE  StartOf(k)' = StartOf(k) /\ StartOf(k) \in 0..Len(lines)
  <2>1. /\ k \in Nat /\ \A j \in 1..k : j \in 1..Len(lines)
      BY LinesKept
  <2>2. {j \in 1..k : Opens(j)' \/ Closes(j)'} = {j \in 1..k : Opens(j) \/ Closes(j)}
      BY <1>2, <2>1
  <2>3. StartOf(k)' = StartOf(k)
      BY <2>2 DEF StartOf
  <2> DEFINE S == {j \in 1..k : Opens(j) \/ Closes(j)}
  <2>4. LastLine(S) \in S \union {0}
    <3>1. S \in SUBSET (1..k)
        OBVIOUS
    <3> HIDE DEF S
    <3> QED BY <2>1, <3>1, LastLineIs
  <2>5. StartOf(k) \in S \union {0}
      BY <2>4 DEF StartOf
  <2>6. StartOf(k) \in 0..Len(lines)
    <3>1. \A j \in S \union {0} : j \in 0..Len(lines)
        BY <2>1, LinesKept
    <3> QED BY <2>5, <3>1
  <2> QED BY <2>3, <2>6
<1>4. ASSUME NEW k \in 0..Len(lines) PROVE AmongNotes(k)' = AmongNotes(k)
  <2>1. PICK s \in 0..Len(lines) : s = StartOf(k) /\ s = StartOf(k)'
      BY <1>3
  <2>2. s # 0 => s \in 1..Len(lines)
      BY LinesKept
  <2> QED BY <1>2, <2>1, <2>2 DEF AmongNotes
<1>5. i \in Nat /\ \A j \in 1..i : j \in 1..Len(lines) /\ j \in 0..Len(lines)
    BY LinesKept
<1>6. SectionAt(i)' = SectionAt(i)
  <2> DEFINE S == {k \in 1..i : lines[k].kind = "heading" /\ ~AmongNotes(k)
                                   /\ lines[k].names \notin {Note, Nothing}}
             later == {k \in 1..i : lines'[k].kind = "heading" /\ ~AmongNotes(k)'
                                    /\ lines'[k].names \notin {Note, Nothing}}
  <2>1. later = S
      BY <1>1, <1>4, <1>5
  <2>2. PICK j : j = LastLine(S)
      OBVIOUS
  <2>3. j \in S \union {0}
    <3>1. S \in SUBSET (1..i)
        OBVIOUS
    <3> HIDE DEF S
    <3> QED BY <1>5, <2>2, <3>1, LastLineIs
  <2>4. j = 0 \/ lines'[j] = lines[j]
      BY <1>1, <1>5, <2>3
  <2>5. SectionAt(i) = IF AmongNotes(i) THEN Note ELSE IF j = 0 THEN Nothing ELSE lines[j].names
      BY <2>2 DEF SectionAt
  <2>6. LastLine(later) = j
      BY <2>1, <2>2
  <2>7. SectionAt(i)' = IF AmongNotes(i)' THEN Note ELSE IF j = 0 THEN Nothing ELSE lines'[j].names
    <3> HIDE DEF S
    <3> QED BY <2>6 DEF SectionAt, LastLine
  <2>8. AmongNotes(i)' = AmongNotes(i)
      BY <1>4
  <2> HIDE DEF S, later
  <2>9. CASE j = 0
      BY <2>9, <2>4, <2>5, <2>7, <2>8
  <2>10. CASE j # 0
    <3>1. lines'[j].names = lines[j].names
        BY <2>4, <2>10
    <3>2. SectionAt(i)' = IF AmongNotes(i)' THEN Note ELSE lines'[j].names
        BY <2>7, <2>10
    <3>3. SectionAt(i) = IF AmongNotes(i) THEN Note ELSE lines[j].names
        BY <2>5, <2>10
    <3>4. CASE AmongNotes(i)
        BY <2>8, <3>2, <3>3, <3>4
    <3>5. CASE ~AmongNotes(i)
        BY <2>8, <3>1, <3>2, <3>3, <3>5
    <3> QED BY <3>4, <3>5
  <2> QED BY <2>9, <2>10
<1>7. ASSUME NEW k \in 0..Len(lines) PROVE ChapterAt(k)' = ChapterAt(k)
  <2>0. k \in Nat /\ \A j \in 1..k : j \in 1..Len(lines) /\ j \in 0..Len(lines)
      BY LinesKept
  <2> DEFINE S == {j \in 1..k : OpensChapter(j)}
             later == {j \in 1..k : OpensChapter(j)'}
  <2>1. later = S
      BY <1>1, <1>4, <2>0 DEF OpensChapter
  <2>2. PICK j : j = LastLine(S)
      OBVIOUS
  <2>3. j \in S \union {0}
    <3>1. S \in SUBSET (1..k)
        OBVIOUS
    <3> HIDE DEF S
    <3> QED BY <2>0, <2>2, <3>1, LastLineIs
  <2>4. j = 0 \/ lines'[j] = lines[j]
      BY <1>1, <2>0, <2>3
  <2>5. ChapterAt(k) = IF j = 0 THEN "V" ELSE lines[j].chapter
      BY <2>2 DEF ChapterAt
  <2>6. LastLine(later) = j
      BY <2>1, <2>2
  <2>7. ChapterAt(k)' = IF j = 0 THEN "V" ELSE lines'[j].chapter
    <3> HIDE DEF S
    <3> QED BY <2>6 DEF ChapterAt, LastLine
  <2> HIDE DEF S, later
  <2>9. CASE j = 0
      BY <2>9, <2>4, <2>5, <2>7
  <2>10. CASE j # 0
      BY <2>10, <2>4, <2>5, <2>7
  <2> QED BY <2>9, <2>10
<1>8. ScheduleAt(i)' = ScheduleAt(i)
  <2> DEFINE S == {k \in 1..i : Announces(k) /\ \A m \in k..i : AmongNotes(m)}
             later == {k \in 1..i : Announces(k)' /\ \A m \in k..i : AmongNotes(m)'}
  <2>1. later = S
    <3>1. \A k \in 1..i : \A m \in k..i : m \in 0..Len(lines)
        BY <1>5
    <3> QED BY <1>1, <1>4, <1>5, <3>1 DEF Announces
  <2>2. PICK j : j = LastLine(S)
      OBVIOUS
  <2>3. j \in S \union {0}
    <3>1. S \in SUBSET (1..i)
        OBVIOUS
    <3> HIDE DEF S
    <3> QED BY <1>5, <2>2, <3>1, LastLineIs
  <2>4. j = 0 \/ (lines'[j] = lines[j] /\ ChapterAt(j)' = ChapterAt(j))
      BY <1>1, <1>5, <1>7, <2>3
  <2>5. ScheduleAt(i) = IF j = 0 THEN NoRef ELSE <<ChapterAt(j), lines[j].schedule>>
      BY <2>2 DEF ScheduleAt
  <2>6. LastLine(later) = j
      BY <2>1, <2>2
  <2>7. ScheduleAt(i)' = IF j = 0 THEN NoRef ELSE <<ChapterAt(j)', lines'[j].schedule>>
    <3> HIDE DEF S
    <3> QED BY <2>6 DEF ScheduleAt, LastLine
  <2> HIDE DEF S, later
  <2>9. CASE j = 0
      BY <2>9, <2>4, <2>5, <2>7
  <2>10. CASE j # 0
      BY <2>10, <2>4, <2>5, <2>7
  <2> QED BY <2>9, <2>10
<1> QED BY <1>4, <1>5, <1>6, <1>7, <1>8

(* What a reader says of the next line.                                      *)
LEMMA NotesRead ==
  ASSUME lines \in Seq(LineKinds), NEW l \in LineKinds, lines' = Append(lines, l),
         NEW i, i = Len(lines),
         NEW opens, opens <=> (l.kind = "heading" /\ l.names = Note /\ l.starts),
         NEW closes, closes <=> (/\ l.kind = "heading" /\ l.names # Note /\ l.chapter = Nothing
                                 /\ l.names = "report" \/ (l.names \in Statements /\ l.starts))
  PROVE  AmongNotes(i + 1)' <=> opens \/ (AmongNotes(i) /\ ~closes)
<1>1. i \in Nat /\ lines'[i + 1] = l /\ \A j \in 1..i : lines'[j] = lines[j]
    BY LinesKept
<1>2. /\ \A j \in 1..i : (Opens(j)' <=> Opens(j)) /\ (Closes(j)' <=> Closes(j))
      /\ Opens(i + 1)' <=> opens
      /\ Closes(i + 1)' <=> closes
    BY <1>1 DEF Opens, Closes
<1> DEFINE S == {j \in 1..i : Opens(j) \/ Closes(j)}
           later == {j \in 1..i + 1 : Opens(j)' \/ Closes(j)'}
<1>3. later = IF opens \/ closes THEN S \union {i + 1} ELSE S
  <2>1. 1..i + 1 = (1..i) \union {i + 1} /\ i + 1 \notin 1..i
      BY <1>1
  <2> QED BY <1>2, <2>1
<1>4. S \in SUBSET (1..i)
    OBVIOUS
<1>5. StartOf(i + 1)' = LastLine(later) /\ StartOf(i) = LastLine(S)
    BY DEF StartOf, LastLine
<1> HIDE DEF S, later
<1>6. CASE opens \/ closes
  <2>1. StartOf(i + 1)' = i + 1
      BY <1>1, <1>3, <1>4, <1>5, <1>6, LastLineOfMore
  <2>2. AmongNotes(i + 1)' <=> Opens(i + 1)'
      BY <1>1, <2>1 DEF AmongNotes
  <2> QED BY <1>2, <1>6, <2>2
<1>7. CASE ~opens /\ ~closes
  <2>1. PICK s : s = StartOf(i) /\ s = StartOf(i + 1)' /\ s \in S \union {0}
      BY <1>1, <1>3, <1>4, <1>5, <1>7, LastLineIs
  <2>2. s # 0 => s \in 1..i
      BY <1>4, <2>1
  <2>3. AmongNotes(i + 1)' <=> s # 0 /\ Opens(s)'
      BY <2>1 DEF AmongNotes
  <2>4. AmongNotes(i) <=> s # 0 /\ Opens(s)
      BY <2>1 DEF AmongNotes
  <2> QED BY <1>2, <1>7, <2>2, <2>3, <2>4
<1> QED BY <1>6, <1>7

LEMMA ChapterRead ==
  ASSUME lines \in Seq(LineKinds), NEW l \in LineKinds, lines' = Append(lines, l),
         NEW i, i = Len(lines)
  PROVE  ChapterAt(i + 1)' =
           IF AmongNotes(i + 1)' /\ l.kind = "heading" /\ l.chapter # Nothing
           THEN l.chapter ELSE ChapterAt(i)
<1>1. i \in Nat /\ lines'[i + 1] = l /\ \A j \in 1..i : lines'[j] = lines[j]
    BY LinesKept
<1> DEFINE S == {j \in 1..i : OpensChapter(j)}
           later == {j \in 1..i + 1 : OpensChapter(j)'}
           more == AmongNotes(i + 1)' /\ l.kind = "heading" /\ l.chapter # Nothing
<1>2. \A j \in 1..i : AmongNotes(j)' = AmongNotes(j)
  <2>1. \A j \in 1..i : j \in 0..Len(lines)
      BY <1>1
  <2> QED BY <2>1, ReadingStays
<1>3. later = IF more THEN S \union {i + 1} ELSE S
  <2>1. 1..i + 1 = (1..i) \union {i + 1} /\ i + 1 \notin 1..i
      BY <1>1
  <2>2. \A j \in 1..i : OpensChapter(j)' <=> OpensChapter(j)
      BY <1>1, <1>2 DEF OpensChapter
  <2>3. OpensChapter(i + 1)' <=> more
      BY <1>1 DEF OpensChapter
  <2> HIDE DEF more
  <2> QED BY <2>1, <2>2, <2>3
<1>4. S \in SUBSET (1..i)
    OBVIOUS
<1>5. PICK k : k = LastLine(later)
    OBVIOUS
<1>6. ChapterAt(i + 1)' = IF k = 0 THEN "V" ELSE lines'[k].chapter
    BY <1>5 DEF ChapterAt, LastLine
<1>7. ChapterAt(i) = IF LastLine(S) = 0 THEN "V" ELSE lines[LastLine(S)].chapter
    BY DEF ChapterAt
<1> HIDE DEF S, later
<1>8. CASE more
  <2>1. k = i + 1 /\ k # 0
    <3>1. later = S \union {i + 1}
        BY <1>3, <1>8
    <3>2. LastLine(S \union {i + 1}) = i + 1
        BY <1>1, <1>4, LastLineOfMore
    <3> HIDE DEF more
    <3> QED BY <1>1, <1>5, <3>1, <3>2
  <2>2. ChapterAt(i + 1)' = l.chapter
      BY <1>1, <1>6, <2>1
  <2> QED BY <1>8, <2>2
<1>9. CASE ~more
  <2> HIDE DEF more
  <2>1. k = LastLine(S) /\ k \in S \union {0}
      BY <1>1, <1>3, <1>4, <1>5, <1>9, LastLineIs
  <2>2. CASE k = 0
    <3>1. ChapterAt(i + 1)' = "V" /\ ChapterAt(i) = "V"
        BY <1>6, <1>7, <2>1, <2>2
    <3> QED BY <1>9, <3>1 DEF more
  <2>3. CASE k # 0
    <3>1. lines'[k] = lines[k]
        BY <1>1, <1>4, <2>1, <2>3
    <3>2. ChapterAt(i + 1)' = lines'[k].chapter /\ ChapterAt(i) = lines[k].chapter
        BY <1>6, <1>7, <2>1, <2>3
    <3>3. ChapterAt(i + 1)' = ChapterAt(i)
        BY <3>1, <3>2
    <3> QED BY <1>9, <3>3 DEF more
  <2> QED BY <2>2, <2>3
<1> QED BY <1>8, <1>9

LEMMA SectionRead ==
  ASSUME lines \in Seq(LineKinds), NEW l \in LineKinds, lines' = Append(lines, l),
         NEW i, i = Len(lines)
  PROVE  /\ AmongNotes(i + 1)' => SectionAt(i + 1)' = Note
         /\ AmongNotes(i) => SectionAt(i) = Note
         /\ ~AmongNotes(i + 1)' /\ l.kind = "heading" /\ l.names \notin {Note, Nothing} =>
              SectionAt(i + 1)' = l.names
         /\ ~AmongNotes(i + 1)' /\ ~AmongNotes(i)
              /\ ~(l.kind = "heading" /\ l.names \notin {Note, Nothing}) =>
              SectionAt(i + 1)' = SectionAt(i)
<1>1. i \in Nat /\ lines'[i + 1] = l /\ \A j \in 1..i : lines'[j] = lines[j]
    BY LinesKept
<1>2. \A j \in 1..i : AmongNotes(j)' = AmongNotes(j)
  <2>1. \A j \in 1..i : j \in 0..Len(lines)
      BY <1>1
  <2> QED BY <2>1, ReadingStays
<1>3. (AmongNotes(i + 1)' => SectionAt(i + 1)' = Note) /\ (AmongNotes(i) => SectionAt(i) = Note)
    BY DEF SectionAt
<1>4. ASSUME ~AmongNotes(i + 1)'
      PROVE  /\ l.kind = "heading" /\ l.names \notin {Note, Nothing} => SectionAt(i + 1)' = l.names
             /\ ~AmongNotes(i) /\ ~(l.kind = "heading" /\ l.names \notin {Note, Nothing}) =>
                  SectionAt(i + 1)' = SectionAt(i)
  <2> DEFINE S == {k \in 1..i : lines[k].kind = "heading" /\ ~AmongNotes(k)
                                   /\ lines[k].names \notin {Note, Nothing}}
             later == {k \in 1..i + 1 : lines'[k].kind = "heading" /\ ~AmongNotes(k)'
                                        /\ lines'[k].names \notin {Note, Nothing}}
             more == l.kind = "heading" /\ l.names \notin {Note, Nothing}
  <2>1. later = IF more THEN S \union {i + 1} ELSE S
    <3>1. 1..i + 1 = (1..i) \union {i + 1} /\ i + 1 \notin 1..i
        BY <1>1
    <3> QED BY <1>1, <1>2, <1>4, <3>1
  <2>2. S \in SUBSET (1..i)
      OBVIOUS
  <2>3. PICK k : k = LastLine(later)
      OBVIOUS
  <2>4. SectionAt(i + 1)' = IF k = 0 THEN Nothing ELSE lines'[k].names
    <3>1. SectionAt(i + 1)' = IF AmongNotes(i + 1)' THEN Note
                              ELSE IF k = 0 THEN Nothing ELSE lines'[k].names
        BY <2>3 DEF SectionAt, LastLine
    <3> QED BY <1>4, <3>1
  <2>5. ~AmongNotes(i) => SectionAt(i) = IF LastLine(S) = 0 THEN Nothing ELSE lines[LastLine(S)].names
      BY DEF SectionAt
  <2> HIDE DEF S, later, more
  <2>6. CASE more
    <3>1. k = i + 1 /\ k # 0
      <4>1. later = S \union {i + 1}
          BY <2>1, <2>6
      <4>2. LastLine(S \union {i + 1}) = i + 1
          BY <1>1, <2>2, LastLineOfMore
      <4> QED BY <1>1, <2>3, <4>1, <4>2
    <3>2. SectionAt(i + 1)' = l.names
        BY <1>1, <2>4, <3>1
    <3> QED BY <2>6, <3>2 DEF more
  <2>7. CASE ~more
    <3>1. k = LastLine(S) /\ k \in S \union {0}
        BY <1>1, <2>1, <2>2, <2>3, <2>7, LastLineIs
    <3>2. ASSUME ~AmongNotes(i) PROVE SectionAt(i + 1)' = SectionAt(i)
      <4>1. CASE k = 0
          BY <2>4, <2>5, <3>1, <3>2, <4>1
      <4>2. CASE k # 0
        <5>1. lines'[k] = lines[k]
            BY <1>1, <2>2, <3>1, <4>2
        <5>2. SectionAt(i + 1)' = lines'[k].names /\ SectionAt(i) = lines[k].names
            BY <2>4, <2>5, <3>1, <3>2, <4>2
        <5> QED BY <5>1, <5>2
      <4> QED BY <4>1, <4>2
    <3> QED BY <2>7, <3>2 DEF more
  <2> QED BY <2>6, <2>7
<1> QED BY <1>3, <1>4

LEMMA ScheduleRead ==
  ASSUME lines \in Seq(LineKinds), NEW l \in LineKinds, lines' = Append(lines, l),
         NEW i, i = Len(lines),
         NEW more, more <=> (l.kind \in {"heading", "text"} /\ l.schedule > 0)
  PROVE  /\ ~AmongNotes(i) => ScheduleAt(i) = NoRef
         /\ ~AmongNotes(i + 1)' => ScheduleAt(i + 1)' = NoRef
         /\ AmongNotes(i + 1)' /\ more => ScheduleAt(i + 1)' = <<ChapterAt(i + 1)', l.schedule>>
         /\ AmongNotes(i + 1)' /\ ~more => ScheduleAt(i + 1)' = ScheduleAt(i)
<1>1. i \in Nat /\ lines'[i + 1] = l /\ \A j \in 1..i : lines'[j] = lines[j]
    BY LinesKept
<1>2. \A j \in 1..i : AmongNotes(j)' = AmongNotes(j) /\ ChapterAt(j)' = ChapterAt(j)
  <2>1. \A j \in 1..i : j \in 0..Len(lines)
      BY <1>1
  <2> QED BY <2>1, ReadingStays
<1> DEFINE S == {k \in 1..i : Announces(k) /\ \A m \in k..i : AmongNotes(m)}
           later == {k \in 1..i + 1 : Announces(k)' /\ \A m \in k..i + 1 : AmongNotes(m)'}
<1>3. later = IF ~AmongNotes(i + 1)' THEN {} ELSE IF more THEN S \union {i + 1} ELSE S
  <2>1. 1..i + 1 = (1..i) \union {i + 1} /\ i + 1 \notin 1..i
      BY <1>1
  <2>2. \A k \in 1..i : Announces(k)' <=> Announces(k)
      BY <1>1, <1>2 DEF Announces
  <2>3. Announces(i + 1)' <=> AmongNotes(i + 1)' /\ more
      BY <1>1 DEF Announces
  <2>4. ASSUME NEW k \in 1..i
        PROVE  (\A m \in k..i + 1 : AmongNotes(m)')
                 <=> AmongNotes(i + 1)' /\ \A m \in k..i : AmongNotes(m)
    <3>1. k..i + 1 = (k..i) \union {i + 1} /\ \A m \in k..i : m \in 1..i
        BY <1>1
    <3> QED BY <1>2, <3>1
  <2>5. i + 1..i + 1 = {i + 1}
      BY <1>1
  <2>6. \A k \in 1..i : k \in later <=> k \in S /\ AmongNotes(i + 1)'
      BY <2>1, <2>2, <2>4
  <2>7. i + 1 \in later <=> AmongNotes(i + 1)' /\ more
      BY <1>1, <2>3, <2>5
  <2>8. later \subseteq (1..i) \union {i + 1} /\ S \subseteq 1..i
      BY <2>1
  <2>9. i + 1 \notin S
      BY <2>1, <2>8
  <2> HIDE DEF S, later
  <2>10. \A k : k \in later <=> AmongNotes(i + 1)' /\ (k \in S \/ (more /\ k = i + 1))
      BY <2>6, <2>7, <2>8, <2>9, Zenon
  <2>11. CASE ~AmongNotes(i + 1)'
      BY <2>10, <2>11
  <2>12. CASE AmongNotes(i + 1)' /\ more
      BY <2>10, <2>12
  <2>13. CASE AmongNotes(i + 1)' /\ ~more
      BY <2>10, <2>13
  <2> QED BY <2>11, <2>12, <2>13
<1>4. S \in SUBSET (1..i) /\ (~AmongNotes(i) => S = {})
  <2>1. \A k \in 1..i : i \in k..i
      BY <1>1
  <2> QED BY <2>1
<1>5. PICK k, former : k = LastLine(later) /\ former = LastLine(S)
    OBVIOUS
<1>6. ScheduleAt(i + 1)' = IF k = 0 THEN NoRef ELSE <<ChapterAt(k)', lines'[k].schedule>>
    BY <1>5 DEF ScheduleAt, LastLine
<1>7. ScheduleAt(i) = IF former = 0 THEN NoRef ELSE <<ChapterAt(former), lines[former].schedule>>
    BY <1>5 DEF ScheduleAt
<1> HIDE DEF S, later
<1>8. former \in S \union {0} /\ (former = 0 <=> S = {})
    BY <1>1, <1>4, <1>5, LastLineIs
<1>9. ASSUME ~AmongNotes(i) PROVE ScheduleAt(i) = NoRef
    BY <1>4, <1>7, <1>8, <1>9
<1>10. ASSUME ~AmongNotes(i + 1)' PROVE ScheduleAt(i + 1)' = NoRef
  <2>1. k = 0
    <3>1. later = {} /\ {} \in SUBSET (1..i)
        BY <1>3, <1>10
    <3> QED BY <1>1, <1>5, <3>1, LastLineIs
  <2> QED BY <1>6, <2>1
<1>11. ASSUME AmongNotes(i + 1)', more
       PROVE  ScheduleAt(i + 1)' = <<ChapterAt(i + 1)', l.schedule>>
  <2>1. k = i + 1 /\ k # 0
    <3>1. later = S \union {i + 1}
        BY <1>3, <1>11
    <3>2. LastLine(S \union {i + 1}) = i + 1
        BY <1>1, <1>4, LastLineOfMore
    <3> QED BY <1>1, <1>5, <3>1, <3>2
  <2> QED BY <1>1, <1>6, <2>1
<1>12. ASSUME AmongNotes(i + 1)', ~more PROVE ScheduleAt(i + 1)' = ScheduleAt(i)
  <2>1. k = former
      BY <1>3, <1>5, <1>12
  <2>2. CASE k = 0
      BY <1>6, <1>7, <2>1, <2>2
  <2>3. CASE k # 0
    <3>1. k \in 1..i
        BY <1>4, <1>8, <2>1, <2>3
    <3>2. lines'[k] = lines[k] /\ ChapterAt(k)' = ChapterAt(k)
        BY <1>1, <1>2, <3>1
    <3>3. ScheduleAt(i + 1)' = <<ChapterAt(k)', lines'[k].schedule>>
        BY <1>6, <2>3
    <3>4. ScheduleAt(i) = <<ChapterAt(k), lines[k].schedule>>
        BY <1>7, <2>1, <2>3
    <3> QED BY <3>2, <3>3, <3>4
  <2> QED BY <2>2, <2>3
<1> QED BY <1>9, <1>10, <1>11, <1>12

(* What a line latches.                                                      *)
LEMMA PageLatched ==
  ASSUME ContextAssumption, NEW l \in LineKinds, NEW c, IsHere(c),
         NEW d, d = Continued(NewPage(c, l), l)
  PROVE  /\ IsHere(d) /\ d.section = c.section /\ d.inNotes = c.inNotes
         /\ d.chapter = c.chapter /\ d.ref = c.ref
<1>1. PICK V : c \in HereSet(V)
    BY DEF IsHere
<1>2. l.page \in Nat
    BY DEF ContextAssumption
<1>3. PICK e : e = NewPage(c, l)
    OBVIOUS
<1>4. /\ e \in HereSet(V) /\ e.section = c.section /\ e.inNotes = c.inNotes
      /\ e.chapter = c.chapter /\ e.ref = c.ref
    BY <1>1, <1>2, <1>3 DEF NewPage, HereSet
<1>5. /\ d \in HereSet(V) /\ d.section = e.section /\ d.inNotes = e.inNotes
      /\ d.chapter = e.chapter /\ d.ref = e.ref
    BY <1>3, <1>4 DEF Continued, HereSet
<1> QED BY <1>4, <1>5 DEF IsHere

LEMMA SaidLatched ==
  ASSUME NEW l, NEW c, IsHere(c), NEW what, NEW d, d = Says(c, what, l)
  PROVE  /\ IsHere(d) /\ d.section = c.section /\ d.inNotes = c.inNotes
         /\ d.chapter = c.chapter /\ d.ref = c.ref
<1>1. PICK V : c \in HereSet(V)
    BY DEF IsHere
<1>2. PICK s, W : /\ s = IF l.continued THEN c.said \union {what} ELSE c.said \ {what}
                  /\ W = V \union {s}
    OBVIOUS
<1>3. d = [c EXCEPT !.said = s]
    BY <1>2 DEF Says
<1>4. c \in HereSet(W) /\ s \in W
    BY <1>1, <1>2 DEF HereSet
<1>5. /\ d \in HereSet(W) /\ d.section = c.section /\ d.inNotes = c.inNotes
      /\ d.chapter = c.chapter /\ d.ref = c.ref
    BY <1>3, <1>4 DEF HereSet
<1> QED BY <1>5 DEF IsHere

(* A heading that leaves the notes open.                                     *)
Stays(c, l) == c.inNotes /\ (l.chapter # Nothing \/ (l.names \in Statements /\ ~l.starts))

LEMMA SectionLatched ==
  ASSUME ContextAssumption, NEW l \in LineKinds, NEW c, IsHere(c), NEW d, d = Section(c, l)
  PROVE  /\ IsHere(d) /\ d.chapter = c.chapter /\ d.inNotes \in BOOLEAN
         /\ Stays(c, l) => d.section = Note /\ d.inNotes /\ d.ref = c.ref
         /\ ~Stays(c, l) /\ l.names = Note /\ l.starts => d.section = Note /\ d.inNotes /\ d.ref = c.ref
         /\ ~Stays(c, l) /\ l.names \notin {Note, Nothing} =>
              d.section = l.names /\ ~d.inNotes /\ d.ref = NoRef
         /\ ~Stays(c, l) /\ (l.names = Nothing \/ (l.names = Note /\ ~l.starts)) => d = c
<1>1. PICK V : c \in HereSet(V)
    BY DEF IsHere
<1>2. PICK s, W : s = c.said \ {"title"} /\ W = V \union {s, Note, l.names, NoRef}
    OBVIOUS
<1>3. c \in HereSet(W) /\ s \in W /\ Note \in W /\ l.names \in W /\ NoRef \in W
    BY <1>1, <1>2 DEF HereSet
<1>4. Note # Nothing
    BY DEF Note, Nothing
<1>5. CASE Stays(c, l)
  <2>1. d = [c EXCEPT !.section = Note]
      BY <1>5 DEF Section, Stays
  <2>2. d \in HereSet(W) /\ d.section = Note /\ d.inNotes = c.inNotes /\ d.chapter = c.chapter /\ d.ref = c.ref
      BY <1>3, <2>1 DEF HereSet
  <2>3. c.inNotes = TRUE
      BY <1>3, <1>5 DEF Stays, HereSet
  <2> QED BY <1>5, <2>2, <2>3 DEF IsHere
<1>6. CASE ~Stays(c, l) /\ l.names = Note /\ l.starts
  <2>1. d = [c EXCEPT !.section = Note, !.inNotes = TRUE]
      BY <1>6 DEF Section, Stays
  <2>2. d \in HereSet(W) /\ d.section = Note /\ d.inNotes /\ d.chapter = c.chapter /\ d.ref = c.ref
      BY <1>3, <2>1 DEF HereSet
  <2> QED BY <1>4, <1>6, <2>2 DEF IsHere
<1>7. CASE ~Stays(c, l) /\ l.names \notin {Note, Nothing}
  <2>1. d = [c EXCEPT !.section = l.names, !.inNotes = FALSE, !.ref = NoRef, !.said = s]
      BY <1>2, <1>7 DEF Section, Stays, Leave
  <2>2. d \in HereSet(W) /\ d.section = l.names /\ ~d.inNotes /\ d.chapter = c.chapter /\ d.ref = NoRef
      BY <1>3, <2>1 DEF HereSet
  <2>3. IsHere(d) /\ ~d.inNotes /\ d.inNotes \in BOOLEAN
      BY <2>2 DEF IsHere, HereSet
  <2> QED BY <1>7, <2>2, <2>3
<1>8. CASE ~Stays(c, l) /\ (l.names = Nothing \/ (l.names = Note /\ ~l.starts))
  <2>1. d = c
      BY <1>4, <1>8 DEF Section, Stays
  <2>2. d.inNotes \in BOOLEAN
      BY <1>1, <2>1 DEF HereSet
  <2> QED BY <1>4, <1>8, <2>1, <2>2
<1> QED BY <1>5, <1>6, <1>7, <1>8

LEMMA ChapterLatched ==
  ASSUME NEW l, NEW c, IsHere(c), NEW d, d = Chapter(c, l)
  PROVE  /\ IsHere(d) /\ d.section = c.section /\ d.inNotes = c.inNotes /\ d.ref = c.ref
         /\ d.chapter = IF c.inNotes /\ l.chapter # Nothing THEN l.chapter ELSE c.chapter
<1>1. PICK V : c \in HereSet(V)
    BY DEF IsHere
<1>2. PICK W : W = V \union {l.chapter}
    OBVIOUS
<1>3. c \in HereSet(W) /\ l.chapter \in W
    BY <1>1, <1>2 DEF HereSet
<1>4. CASE c.inNotes /\ l.chapter # Nothing
  <2>1. d = [c EXCEPT !.chapter = l.chapter]
      BY <1>4 DEF Chapter
  <2>2. /\ d \in HereSet(W) /\ d.section = c.section /\ d.inNotes = c.inNotes /\ d.ref = c.ref
        /\ d.chapter = l.chapter
      BY <1>3, <2>1 DEF HereSet
  <2> QED BY <1>4, <2>2 DEF IsHere
<1>5. CASE ~(c.inNotes /\ l.chapter # Nothing)
    BY <1>5 DEF Chapter
<1> QED BY <1>4, <1>5

LEMMA ScheduleLatched ==
  ASSUME NEW l, NEW c, IsHere(c), NEW d, d = ScheduleRef(c, l)
  PROVE  /\ IsHere(d) /\ d.section = c.section /\ d.inNotes = c.inNotes /\ d.chapter = c.chapter
         /\ d.ref = IF c.inNotes /\ l.schedule > 0 THEN <<c.chapter, l.schedule>> ELSE c.ref
<1>1. PICK V : c \in HereSet(V)
    BY DEF IsHere
<1>2. PICK x, W : x = <<c.chapter, l.schedule>> /\ W = V \union {x}
    OBVIOUS
<1>3. c \in HereSet(W) /\ x \in W
    BY <1>1, <1>2 DEF HereSet
<1>4. CASE c.inNotes /\ l.schedule > 0
  <2>1. PICK e : e = [c EXCEPT !.ref = x]
      OBVIOUS
  <2>2. /\ e \in HereSet(W) /\ e.section = c.section /\ e.inNotes = c.inNotes /\ e.ref = x
        /\ e.chapter = c.chapter
      BY <1>3, <2>1 DEF HereSet
  <2>3. d = Says(e, "title", l)
      BY <1>2, <1>4, <2>1 DEF ScheduleRef
  <2>4. IsHere(e)
      BY <2>2 DEF IsHere
  <2>5. /\ IsHere(d) /\ d.section = e.section /\ d.inNotes = e.inNotes
        /\ d.chapter = e.chapter /\ d.ref = e.ref
      BY <2>3, <2>4, SaidLatched
  <2> QED BY <1>2, <1>4, <2>2, <2>5
<1>5. CASE ~(c.inNotes /\ l.schedule > 0)
    BY <1>5 DEF ScheduleRef
<1> QED BY <1>4, <1>5

(* So what is latched is what a reader says of the next line.                *)
LEMMA HereReads ==
  ASSUME ContextAssumption, lines \in Seq(LineKinds), IsHere(here), HereInv,
         NEW l \in LineKinds, lines' = Append(lines, l), here' = Latched(here, l)
  PROVE  IsHere(here)' /\ HereInv'
<1>1. PICK i, h, g, d : /\ i = Len(lines) /\ h = here /\ g = here'
                        /\ d = Continued(NewPage(h, l), l)
    OBVIOUS
<1>2. PICK opens, closes, names, more :
        /\ opens <=> (l.kind = "heading" /\ l.names = Note /\ l.starts)
        /\ closes <=> (/\ l.kind = "heading" /\ l.names # Note /\ l.chapter = Nothing
                       /\ l.names = "report" \/ (l.names \in Statements /\ l.starts))
        /\ names <=> (l.kind = "heading" /\ l.names \notin {Note, Nothing})
        /\ more <=> (l.kind \in {"heading", "text"} /\ l.schedule > 0)
    OBVIOUS
<1>3. PICK among : among = AmongNotes(i + 1)' /\ among \in BOOLEAN
    BY DEF AmongNotes
<1>4. among <=> opens \/ (h.inNotes /\ ~closes)
  <2>1. AmongNotes(i + 1)' <=> opens \/ (AmongNotes(i) /\ ~closes)
      BY <1>1, <1>2, NotesRead
  <2>2. h.inNotes = AmongNotes(i)
      BY <1>1 DEF HereInv
  <2> QED BY <1>3, <2>1, <2>2
<1>5. PICK chapter, section, ref :
        chapter = ChapterAt(i + 1)' /\ section = SectionAt(i + 1)' /\ ref = ScheduleAt(i + 1)'
    OBVIOUS
<1>6. chapter = IF among /\ l.kind = "heading" /\ l.chapter # Nothing THEN l.chapter ELSE h.chapter
  <2>1. ChapterAt(i + 1)' = IF AmongNotes(i + 1)' /\ l.kind = "heading" /\ l.chapter # Nothing
                            THEN l.chapter ELSE ChapterAt(i)
      BY <1>1, ChapterRead
  <2>2. h.chapter = ChapterAt(i)
      BY <1>1 DEF HereInv
  <2> QED BY <1>3, <1>5, <2>1, <2>2
<1>7. /\ among => section = Note
      /\ h.inNotes => h.section = Note
      /\ ~among /\ names => section = l.names
      /\ ~among /\ ~h.inNotes /\ ~names => section = h.section
  <2>1. /\ AmongNotes(i + 1)' => SectionAt(i + 1)' = Note
        /\ AmongNotes(i) => SectionAt(i) = Note
        /\ ~AmongNotes(i + 1)' /\ names => SectionAt(i + 1)' = l.names
        /\ ~AmongNotes(i + 1)' /\ ~AmongNotes(i) /\ ~names => SectionAt(i + 1)' = SectionAt(i)
      BY <1>1, <1>2, SectionRead
  <2>2. h.inNotes = AmongNotes(i) /\ h.section = SectionAt(i)
      BY <1>1 DEF HereInv
  <2> QED BY <1>3, <1>5, <2>1, <2>2
<1>8. /\ ~h.inNotes => h.ref = NoRef
      /\ ~among => ref = NoRef
      /\ among /\ more => ref = <<chapter, l.schedule>>
      /\ among /\ ~more => ref = h.ref
  <2>1. /\ ~AmongNotes(i) => ScheduleAt(i) = NoRef
        /\ ~AmongNotes(i + 1)' => ScheduleAt(i + 1)' = NoRef
        /\ AmongNotes(i + 1)' /\ more => ScheduleAt(i + 1)' = <<ChapterAt(i + 1)', l.schedule>>
        /\ AmongNotes(i + 1)' /\ ~more => ScheduleAt(i + 1)' = ScheduleAt(i)
      BY <1>1, <1>2, ScheduleRead
  <2>2. h.inNotes = AmongNotes(i) /\ h.ref = ScheduleAt(i)
      BY <1>1 DEF HereInv
  <2> QED BY <1>3, <1>5, <2>1, <2>2
<1>9. /\ IsHere(h) /\ IsHere(d) /\ d.section = h.section /\ d.inNotes = h.inNotes
      /\ d.chapter = h.chapter /\ d.ref = h.ref
    BY <1>1, PageLatched
<1>10. h.inNotes \in BOOLEAN /\ l.starts \in BOOLEAN /\ l.names \in Named \union {Nothing}
  <2>1. PICK V : h \in HereSet(V)
      BY <1>9 DEF IsHere
  <2> QED BY <2>1 DEF HereSet, ContextAssumption
<1>11. IsHere(g) /\ g.inNotes = among /\ g.section = section /\ g.chapter = chapter /\ g.ref = ref
  <2>1. CASE l.kind = "heading"
    <3>1. PICK e, f, c : e = Says(d, "heading", l) /\ f = Section(e, l) /\ c = Chapter(f, l)
        OBVIOUS
    <3>2. g = ScheduleRef(c, l)
        BY <1>1, <2>1, <3>1 DEF Latched
    <3>3. /\ IsHere(e) /\ e.section = h.section /\ e.inNotes = h.inNotes
          /\ e.chapter = h.chapter /\ e.ref = h.ref
        BY <1>9, <3>1, SaidLatched
    <3>4. /\ IsHere(f) /\ f.chapter = e.chapter /\ f.inNotes \in BOOLEAN
          /\ Stays(e, l) => f.section = Note /\ f.inNotes /\ f.ref = e.ref
          /\ ~Stays(e, l) /\ l.names = Note /\ l.starts => f.section = Note /\ f.inNotes /\ f.ref = e.ref
          /\ ~Stays(e, l) /\ l.names \notin {Note, Nothing} =>
               f.section = l.names /\ ~f.inNotes /\ f.ref = NoRef
          /\ ~Stays(e, l) /\ (l.names = Nothing \/ (l.names = Note /\ ~l.starts)) => f = e
      <4>1. IsHere(e) /\ f = Section(e, l)
          BY <3>1, <3>3
      <4> QED BY <4>1, SectionLatched, SMTT(20)
    <3>5. /\ IsHere(c) /\ c.section = f.section /\ c.inNotes = f.inNotes /\ c.ref = f.ref
          /\ c.chapter = IF f.inNotes /\ l.chapter # Nothing THEN l.chapter ELSE f.chapter
        BY <3>1, <3>4, ChapterLatched
    <3>6. /\ IsHere(g) /\ g.section = c.section /\ g.inNotes = c.inNotes /\ g.chapter = c.chapter
          /\ g.ref = IF c.inNotes /\ l.schedule > 0 THEN <<c.chapter, l.schedule>> ELSE c.ref
        BY <3>2, <3>5, ScheduleLatched
    <3>7. /\ Note \notin Statements /\ "report" \notin Statements /\ Note # Nothing /\ Note # "report"
          /\ Nothing \notin Statements /\ Nothing # "report"
        BY DEF Note, Statements, Nothing
    <3>8. l.names \in Statements \union {Note, "report", Nothing}
        BY <1>10 DEF Named
    <3>9. f.inNotes = among /\ f.section = section /\ f.ref = IF among THEN h.ref ELSE NoRef
      <4>1. CASE Stays(e, l)
          BY <1>2, <1>4, <1>7, <1>10, <2>1, <3>1, <3>3, <3>4, <3>7, <3>8, <4>1 DEF Stays
      <4>2. CASE ~Stays(e, l) /\ l.names = Note /\ l.starts
          BY <1>2, <1>4, <1>7, <1>10, <2>1, <3>1, <3>3, <3>4, <3>7, <3>8, <4>2 DEF Stays
      <4>3. CASE ~Stays(e, l) /\ l.names \notin {Note, Nothing}
          BY <1>2, <1>4, <1>7, <1>10, <2>1, <3>1, <3>3, <3>4, <3>7, <3>8, <4>3 DEF Stays
      <4>4. CASE ~Stays(e, l) /\ (l.names = Nothing \/ (l.names = Note /\ ~l.starts))
        <5>1. f = e /\ ~opens /\ ~closes /\ ~names
            BY <1>2, <1>10, <3>4, <3>7, <4>4
        <5>2. among <=> h.inNotes
            BY <1>4, <5>1
        <5> QED BY <1>3, <1>7, <1>8, <1>10, <3>3, <5>1, <5>2
      <4> QED BY <4>1, <4>2, <4>3, <4>4
    <3>10. g.chapter = chapter
        BY <1>6, <2>1, <3>3, <3>4, <3>5, <3>6, <3>9
    <3>11. g.ref = ref
      <4>1. more <=> l.schedule > 0
          BY <1>2, <2>1
      <4> QED BY <1>8, <3>5, <3>6, <3>9, <3>10, <4>1
    <3> QED BY <3>5, <3>6, <3>9, <3>10, <3>11
  <2>2. CASE l.kind = "text"
    <3>1. g = ScheduleRef(d, l)
        BY <1>1, <2>2 DEF Latched
    <3>2. /\ IsHere(g) /\ g.section = d.section /\ g.inNotes = d.inNotes /\ g.chapter = d.chapter
          /\ g.ref = IF d.inNotes /\ l.schedule > 0 THEN <<d.chapter, l.schedule>> ELSE d.ref
        BY <1>9, <3>1, ScheduleLatched
    <3>3. ~opens /\ ~closes /\ ~names /\ (more <=> l.schedule > 0) /\ l.kind # "heading"
        BY <1>2, <2>2
    <3>4. among = h.inNotes
        BY <1>3, <1>4, <1>10, <3>3
    <3>5. chapter = h.chapter
        BY <1>6, <3>3
    <3> QED BY <1>7, <1>8, <1>9, <1>10, <3>2, <3>3, <3>4, <3>5
  <2>3. CASE l.kind \notin {"heading", "text"}
    <3>1. g = d
        BY <1>1, <2>3 DEF Latched
    <3>2. ~opens /\ ~closes /\ ~names /\ ~more /\ l.kind # "heading"
        BY <1>2, <2>3
    <3>3. among = h.inNotes
        BY <1>3, <1>4, <1>10, <3>2
    <3>4. chapter = h.chapter
        BY <1>6, <3>2
    <3> QED BY <1>7, <1>8, <1>9, <1>10, <3>1, <3>2, <3>3, <3>4
  <2> QED BY <2>1, <2>2, <2>3
<1>12. Len(lines') = i + 1
    BY <1>1, LinesKept
<1>13. /\ AmongNotes(Len(lines))' = AmongNotes(i + 1)' /\ SectionAt(Len(lines))' = SectionAt(i + 1)'
       /\ ChapterAt(Len(lines))' = ChapterAt(i + 1)' /\ ScheduleAt(Len(lines))' = ScheduleAt(i + 1)'
    BY <1>12
<1>14. HereInv'
    BY <1>1, <1>3, <1>5, <1>11, <1>13 DEF HereInv
<1> QED BY <1>1, <1>11, <1>14 DEF IsHere

(* The tables.                                                               *)
LEMMA TablesStand ==
  ASSUME ReadTypes, Fine(blocks)
  PROVE  TablesStandInTheirNote
<1> SUFFICES ASSUME NEW n \in DOMAIN blocks, NEW b, b = blocks[n], NEW a, a = blocks[b.from]
             PROVE  /\ b.section = SectionAt(b.at) /\ b.ref = ScheduleAt(b.at)
                    /\ b.from # 0 =>
                         /\ b.from < n /\ a.look = "semantic" /\ a.width = b.width
                         /\ SectionAt(a.at) = SectionAt(b.at) /\ ScheduleAt(a.at) = ScheduleAt(b.at)
                         /\ \A m \in b.from + 1..n - 1 :
                              blocks[m].look = "semantic" =>
                                <<blocks[m].section, blocks[m].ref>> # <<b.section, b.ref>>
                         /\ b.page > a.page + 1 => a.page = NoPage
    BY DEF TablesStandInTheirNote
<1>1. b.section = SectionAt(b.at) /\ b.ref = ScheduleAt(b.at)
    BY DEF Fine, Stood
<1>2. ASSUME b.from # 0
      PROVE  /\ b.from < n /\ a.look = "semantic" /\ a.width = b.width
             /\ SectionAt(a.at) = SectionAt(b.at) /\ ScheduleAt(a.at) = ScheduleAt(b.at)
             /\ \A m \in b.from + 1..n - 1 :
                  blocks[m].look = "semantic" =>
                    <<blocks[m].section, blocks[m].ref>> # <<b.section, b.ref>>
             /\ b.page > a.page + 1 => a.page = NoPage
  <2>1. Heads(blocks, n)
      BY <1>2 DEF Fine
  <2>2. b.from \in DOMAIN blocks /\ b.from < n
    <3>1. Len(blocks) \in Nat /\ DOMAIN blocks = 1..Len(blocks)
        BY DEF ReadTypes
    <3>2. b.from \in 1..n - 1
        BY <2>1 DEF Heads
    <3> QED BY <3>1, <3>2
  <2>3. a.section = SectionAt(a.at) /\ a.ref = ScheduleAt(a.at)
      BY <2>2 DEF Fine, Stood
  <2> QED BY <1>1, <2>1, <2>2, <2>3 DEF Heads
<1> QED BY <1>1, <1>2

(* One more, with its own header or one it inherits.                         *)
LEMMA InheritedFine ==
  ASSUME NEW V, NEW done \in Seq(BlockSet(V)), Fine(done),
         NEW b \in BlockSet(V), Stood(b), b.from = 0
  PROVE  Inherited(done, b) \in Seq(BlockSet(V)) /\ Fine(Inherited(done, b))
<1>1. PICK k, i, x, more : /\ k = Len(done) /\ i = Previous(done, b)
                           /\ x = (IF /\ b.continued /\ b.look = "data" /\ i # 0
                                      /\ SamePlace(done[i], b) /\ done[i].width = b.width
                                   THEN [b EXCEPT !.look = "semantic", !.from = i] ELSE b)
                           /\ more = Append(done, x)
    OBVIOUS
<1>2. Inherited(done, b) = more
    BY <1>1 DEF Inherited
<1> DEFINE S == {j \in DOMAIN done : /\ done[j].look = "semantic" /\ done[j].section = b.section
                                     /\ done[j].ref = b.ref}
<1>3. k \in Nat /\ DOMAIN done = 1..k /\ S \in SUBSET (1..k)
    BY <1>1
<1>4. i \in S \union {0} /\ \A y \in S : y <= i
  <2>1. i = LastLine(S)
      BY <1>1 DEF Previous, LastLine
  <2> HIDE DEF S
  <2> QED BY <1>3, <2>1, LastLineIs
<1>5. i \in 0..k /\ i \in Nat
    BY <1>3, <1>4
<1>6. /\ x \in BlockSet(V) /\ x.section = b.section /\ x.ref = b.ref /\ x.at = b.at
      /\ x.page = b.page /\ x.width = b.width /\ x.page \in Nat
  <2>1. CASE x = b
      BY <2>1 DEF BlockSet
  <2>2. CASE x = [b EXCEPT !.look = "semantic", !.from = i]
    <3>1. x \in BlockSet(V)
        BY <1>5, <2>2 DEF BlockSet
    <3> QED BY <2>2, <3>1 DEF BlockSet
  <2> QED BY <1>1, <2>1, <2>2
<1>7. /\ more \in Seq(BlockSet(V)) /\ DOMAIN more = 1..k + 1 /\ more[k + 1] = x
      /\ \A n \in 1..k : more[n] = done[n]
    BY <1>1, <1>6
<1>8. Stood(x)
    BY <1>6 DEF Stood
<1>9. ASSUME NEW n \in 1..k, done[n].from # 0 PROVE Heads(more, n)
  <2>1. Heads(done, n)
      BY <1>3, <1>9 DEF Fine
  <2>2. done[n].from \in 1..n - 1 /\ n \in Nat
      BY <2>1, <1>3 DEF Heads
  <2>3. /\ more[n] = done[n] /\ more[done[n].from] = done[done[n].from]
        /\ \A m \in done[n].from + 1..n - 1 : more[m] = done[m]
      BY <1>3, <1>7, <2>2
  <2> QED BY <2>1, <2>3 DEF Heads
<1>10. ASSUME x.from # 0 PROVE Heads(more, k + 1)
  <2>1. /\ x.from = i /\ i # 0 /\ SamePlace(done[i], b) /\ done[i].width = b.width
    <3>1. x # b
        BY <1>10
    <3>2. /\ x = [b EXCEPT !.look = "semantic", !.from = i] /\ i # 0
          /\ SamePlace(done[i], b) /\ done[i].width = b.width
        BY <1>1, <3>1
    <3>3. x.from = i
        BY <3>2 DEF BlockSet
    <3> QED BY <3>2, <3>3
  <2>2. i \in S /\ i \in 1..k /\ more[i] = done[i] /\ done[i] \in BlockSet(V)
      BY <1>3, <1>4, <1>7, <2>1
  <2>3. done[i].page \in Nat
      BY <2>2 DEF BlockSet
  <2>4. ASSUME NEW m \in i + 1..k, more[m].look = "semantic"
        PROVE  <<more[m].section, more[m].ref>> # <<b.section, b.ref>>
    <3>1. m \in 1..k /\ m > i /\ more[m] = done[m]
        BY <1>3, <1>5, <1>7
    <3>2. m \notin S
        BY <1>4, <1>5, <3>1
    <3> QED BY <1>3, <2>4, <3>1, <3>2
  <2>5. x.page > more[i].page + 1 => more[i].page = NoPage
    <3>1. done[i].page = 0 \/ b.page = 0 \/ b.page \in {done[i].page, done[i].page + 1}
        BY <2>1 DEF SamePlace, NoPage
    <3> QED BY <1>6, <2>2, <2>3, <3>1 DEF NoPage
  <2>6. (k + 1) - 1 = k /\ x.from \in 1..k
      BY <1>3, <2>1, <2>2
  <2>7. more[x.from] = done[i]
      BY <2>1, <2>2
  <2> QED BY <1>6, <1>7, <2>1, <2>2, <2>4, <2>5, <2>6, <2>7 DEF Heads
<1>11. ASSUME NEW n \in DOMAIN more
       PROVE  Stood(more[n]) /\ (more[n].from # 0 => Heads(more, n))
  <2>1. CASE n \in 1..k
      BY <1>3, <1>7, <1>9, <2>1 DEF Fine
  <2>2. CASE n = k + 1
      BY <1>7, <1>8, <1>10, <2>2
  <2> QED BY <1>3, <1>7, <2>1, <2>2
<1> QED BY <1>2, <1>7, <1>11 DEF Fine

(* All, in their order.                                                      *)
LEMMA AllInherited ==
  ASSUME NEW V, NEW s \in Seq(BlockSet(V)), \A n \in DOMAIN s : Stood(s[n]) /\ s[n].from = 0
  PROVE  /\ FoldLeft(Inherited, << >>, s) \in Seq(BlockSet(V))
         /\ Fine(FoldLeft(Inherited, << >>, s))
<1> DEFINE T == {done \in Seq(BlockSet(V)) : Fine(done)}
           S == DOMAIN s
           next(F, t) == Inherited(F[t \ {Max(t)}], s[Max(t)])
           last == [t \in (SUBSET S) \ {{}} |-> Max(t)]
           g == [p \in T \X S |-> Inherited(p[1], s[p[2]])]
<1>1. S = 1..Len(s) /\ IsFiniteSet(S) /\ \A i \in S : s[i] \in BlockSet(V) /\ Stood(s[i]) /\ s[i].from = 0
    BY FS_Interval
<1>2. ASSUME NEW t \in (SUBSET S) \ {{}} PROVE Max(t) \in t
  <2>1. Len(s) \in Nat /\ t \in SUBSET (1..Len(s)) /\ t # {}
      BY <1>1
  <2> QED BY <2>1, LastPosition
<1>3. << >> \in T
    BY DEF Fine
<1>4. ASSUME NEW done \in T, NEW i \in S PROVE Inherited(done, s[i]) \in T
    BY <1>1, InheritedFine
<1> HIDE DEF S, T
<1>5. Chooses(last, S) /\ \A t \in (SUBSET S) \ {{}} : last[t] = Max(t)
    BY <1>2 DEF Chooses
<1>6. g \in [T \X S -> T]
    BY <1>4
<1>7. \E F : F = [t \in SUBSET S |-> IF t = {} THEN << >> ELSE next(F, t)]
  <2>1. PICK h \in [SUBSET S -> T] : IsFoldOf(h, g, << >>, last, S)
    <3> HIDE DEF last, g
    <3> QED BY <1>1, <1>3, <1>5, <1>6, FoldExists
  <2>2. ASSUME NEW t \in SUBSET S PROVE h[t] = IF t = {} THEN << >> ELSE next(h, t)
    <3>1. CASE t = {}
        BY <2>1, <3>1 DEF IsFoldOf
    <3>2. CASE t # {}
      <4>1. h[t \ {Max(t)}] \in T /\ Max(t) \in S /\ last[t] = Max(t)
          BY <1>5, <3>2 DEF Chooses
      <4>2. h[t] = g[<<h[t \ {Max(t)}], Max(t)>>]
          BY <2>1, <3>2, <4>1 DEF IsFoldOf
      <4> QED BY <3>2, <4>1, <4>2
    <3> QED BY <3>1, <3>2
  <2>3. h = [t \in SUBSET S |-> IF t = {} THEN << >> ELSE next(h, t)]
      BY <2>2
  <2> QED BY <2>3
<1>8. PICK F : /\ F = [t \in SUBSET S |-> IF t = {} THEN << >> ELSE next(F, t)]
               /\ FoldLeft(Inherited, << >>, s) = F[S]
  <2>1. FoldLeft(Inherited, << >>, s) =
          (CHOOSE F : F = [t \in SUBSET S |-> IF t = {} THEN << >> ELSE next(F, t)])[S]
      BY DEF FoldLeft, MapThenFoldSet, S
  <2> QED BY <1>7, <2>1
<1>9. F[{}] \in T
    BY <1>3, <1>8
<1>10. ASSUME NEW t \in (SUBSET S) \ {{}}, F[t \ {last[t]}] \in T
       PROVE  F[t] \in T
  <2>1. F[t] = Inherited(F[t \ {Max(t)}], s[Max(t)])
      BY <1>8
  <2>2. F[t \ {Max(t)}] \in T /\ Max(t) \in S
      BY <1>5, <1>10 DEF Chooses
  <2> QED BY <1>4, <2>1, <2>2
<1>11. \A t \in SUBSET S : F[t] \in T
  <2> HIDE DEF last
  <2> QED BY <1>1, <1>5, <1>9, <1>10, FoldStays
<1>12. FoldLeft(Inherited, << >>, s) \in T
    BY <1>8, <1>11
<1> QED BY <1>12 DEF T

(* A table closed at a line stands where what is latched says.               *)
LEMMA FlushedStands ==
  ASSUME lines \in Seq(LineKinds), IsHere(here), HereInv, \E V : blocks \in Seq(BlockSet(V)),
         \A n \in DOMAIN blocks : Stood(blocks[n]) /\ blocks[n].from = 0
  PROVE  /\ \E V : Flushed \in Seq(BlockSet(V))
         /\ \A n \in DOMAIN Flushed : Stood(Flushed[n]) /\ Flushed[n].from = 0
<1>1. CASE open = NoTable
    BY <1>1 DEF Flushed
<1>2. CASE open # NoTable
  <2>1. PICK V : blocks \in Seq(BlockSet(V))
      OBVIOUS
  <2>2. PICK W : here \in HereSet(W)
      BY DEF IsHere
  <2>3. PICK looks, width, look : looks = open.looks /\ width = open.width /\ look = open.looks[1]
      OBVIOUS
  <2>4. PICK b : b = [section |-> here.section, ref |-> here.ref, page |-> here.page,
                      continued |-> here.continued \/ here.said # {},
                      looks |-> looks, width |-> width, look |-> look,
                      at |-> Len(lines), from |-> 0]
      OBVIOUS
  <2>5. Flushed = Append(blocks, b)
      BY <1>2, <2>3, <2>4 DEF Flushed
  <2> DEFINE U == V \union W \union {looks, width, look}
  <2>6. b \in BlockSet(U)
    <3>1. here.section \in W /\ here.ref \in W /\ here.page \in Nat /\ here.continued \in BOOLEAN
        BY <2>2 DEF HereSet
    <3>2. Len(lines) \in Nat
        OBVIOUS
    <3> QED BY <2>4, <3>1, <3>2 DEF BlockSet
  <2>7. blocks \in Seq(BlockSet(U))
    <3>1. BlockSet(V) \subseteq BlockSet(U)
        BY DEF BlockSet
    <3> HIDE DEF U
    <3> QED BY <2>1, <3>1
  <2>8. Stood(b) /\ b.from = 0
    <3>1. b.at = Len(lines) /\ b.section = here.section /\ b.ref = here.ref /\ b.from = 0
        BY <2>4
    <3>2. b.at \in 0..Len(lines)
        BY <3>1
    <3> QED BY <3>1, <3>2 DEF Stood, HereInv
  <2> HIDE DEF U
  <2>9. /\ Append(blocks, b) \in Seq(BlockSet(U))
        /\ \A n \in DOMAIN Append(blocks, b) :
             (n \in DOMAIN blocks /\ Append(blocks, b)[n] = blocks[n]) \/ Append(blocks, b)[n] = b
      BY <2>6, <2>7
  <2> QED BY <2>5, <2>8, <2>9
<1> QED BY <1>1, <1>2

(* It still does when a line more is read.                                   *)
LEMMA StillStands ==
  ASSUME lines \in Seq(LineKinds), NEW l \in LineKinds, lines' = Append(lines, l),
         NEW b, Stood(b)
  PROVE  /\ b.at \in 0..Len(lines') /\ b.section = SectionAt(b.at)'
         /\ b.ref = ScheduleAt(b.at)'
<1>1. PICK i : i = b.at
    OBVIOUS
<1>2. i \in 0..Len(lines) /\ b.section = SectionAt(i) /\ b.ref = ScheduleAt(i)
    BY <1>1 DEF Stood
<1>3. SectionAt(i)' = SectionAt(i) /\ ScheduleAt(i)' = ScheduleAt(i)
    BY <1>2, ReadingStays
<1>4. i \in 0..Len(lines')
    BY <1>2, LinesKept
<1> QED BY <1>1, <1>2, <1>3, <1>4

(* The same lines are read the same.                                         *)
LEMMA SameReading ==
  ASSUME lines' = lines, NEW i
  PROVE  /\ AmongNotes(i)' = AmongNotes(i) /\ SectionAt(i)' = SectionAt(i)
         /\ ChapterAt(i)' = ChapterAt(i) /\ ScheduleAt(i)' = ScheduleAt(i)
<1>1. \A k : AmongNotes(k)' = AmongNotes(k)
    BY DEF AmongNotes, StartOf, Opens, Closes, LastLine
<1>2. SectionAt(i)' = SectionAt(i)
    BY <1>1 DEF SectionAt, LastLine
<1>3. \A k : ChapterAt(k)' = ChapterAt(k)
    BY <1>1 DEF ChapterAt, OpensChapter, LastLine
<1>4. ScheduleAt(i)' = ScheduleAt(i)
    BY <1>1, <1>3 DEF ScheduleAt, Announces, LastLine
<1> QED BY <1>1, <1>2, <1>3, <1>4

(* The three steps.                                                          *)
LEMMA ContextStarts ==
  ASSUME ContextInit
  PROVE  ContextInv
<1>1. PICK h : h = [section |-> Nothing, inNotes |-> FALSE, chapter |-> "V", ref |-> NoRef,
                    page |-> NoPage, continued |-> FALSE, said |-> {}]
    OBVIOUS
<1>2. h \in HereSet({Nothing, "V", NoRef, {}})
    BY <1>1 DEF HereSet, NoPage
<1>3. lines = << >> /\ here = h /\ blocks = << >> /\ read = FALSE
    BY <1>1 DEF ContextInit
<1>4. ReadTypes
  <2>1. lines \in Seq(LineKinds) /\ blocks \in Seq(BlockSet({})) /\ read \in BOOLEAN
    <3>1. \A T : << >> \in Seq(T)
        OBVIOUS
    <3> QED BY <1>3, <3>1
  <2>2. IsHere(here)
      BY <1>2, <1>3 DEF IsHere
  <2> QED BY <2>1, <2>2 DEF ReadTypes
<1>5. \A S \in SUBSET (1..0) : LastLine(S) = 0
    BY LastLineIs
<1>6. StartOf(0) = 0
    BY <1>5 DEF StartOf
<1>7. ~AmongNotes(0)
    BY <1>6 DEF AmongNotes
<1>8. SectionAt(0) = Nothing
  <2> DEFINE S == {k \in 1..0 : lines[k].kind = "heading" /\ ~AmongNotes(k)
                                   /\ lines[k].names \notin {Note, Nothing}}
  <2>1. LastLine(S) = 0
      BY <1>5
  <2> QED BY <1>7, <2>1 DEF SectionAt
<1>9. ChapterAt(0) = "V"
  <2> DEFINE S == {k \in 1..0 : OpensChapter(k)}
  <2>1. LastLine(S) = 0
      BY <1>5
  <2> QED BY <2>1 DEF ChapterAt
<1>10. ScheduleAt(0) = NoRef
  <2> DEFINE S == {k \in 1..0 : Announces(k) /\ \A m \in k..0 : AmongNotes(m)}
  <2>1. LastLine(S) = 0
      BY <1>5
  <2> QED BY <2>1 DEF ScheduleAt
<1>11. HereInv
  <2>1. Len(lines) = 0
      BY <1>3
  <2>2. here.inNotes = FALSE /\ here.section = Nothing /\ here.chapter = "V" /\ here.ref = NoRef
      BY <1>1, <1>3
  <2>3. AmongNotes(0) = FALSE
      BY <1>7 DEF AmongNotes
  <2> QED BY <1>8, <1>9, <1>10, <2>1, <2>2, <2>3 DEF HereInv
<1>12. BlocksInv
    BY <1>3 DEF BlocksInv, Fine
<1> QED BY <1>4, <1>11, <1>12 DEF ContextInv

LEMMA ReadLineKeepsContext ==
  ASSUME ContextAssumption, ContextInv, NEW l \in LineKinds, ReadLine(l)
  PROVE  ContextInv'
<1>1. /\ lines \in Seq(LineKinds) /\ read = FALSE /\ read' = FALSE /\ IsHere(here) /\ HereInv
      /\ \E V : blocks \in Seq(BlockSet(V))
      /\ \A n \in DOMAIN blocks : Stood(blocks[n]) /\ blocks[n].from = 0
    BY DEF ContextInv, ReadTypes, BlocksInv, Fine, ReadLine
<1>2. /\ lines' = Append(lines, l) /\ here' = Latched(here, l)
      /\ blocks' = blocks \/ blocks' = Flushed
    BY DEF ReadLine
<1>3. IsHere(here)' /\ HereInv'
    BY <1>1, <1>2, HereReads
<1>4. /\ \E V : blocks' \in Seq(BlockSet(V))
      /\ \A n \in DOMAIN blocks' : Stood(blocks'[n]) /\ blocks'[n].from = 0
  <2>1. CASE blocks' = blocks
      BY <1>1, <2>1
  <2>2. CASE blocks' = Flushed
      BY <1>1, <2>2, FlushedStands
  <2> QED BY <1>2, <2>1, <2>2
<1>5. lines' \in Seq(LineKinds)
    BY <1>1, <1>2, LinesKept
<1>6. ReadTypes'
    BY <1>1, <1>3, <1>4, <1>5 DEF ReadTypes, IsHere
<1>7. ASSUME NEW n \in DOMAIN blocks' PROVE Stood(blocks[n])' /\ blocks'[n].from = 0
  <2>1. PICK b : b = blocks'[n]
      OBVIOUS
  <2>2. Stood(b) /\ b.from = 0
      BY <1>4, <2>1
  <2>3. /\ b.at \in 0..Len(lines') /\ b.section = SectionAt(b.at)'
        /\ b.ref = ScheduleAt(b.at)'
      BY <1>1, <1>2, <2>2, StillStands
  <2>4. Stood(b)'
      BY <2>3 DEF Stood
  <2> QED BY <2>1, <2>2, <2>4
<1>8. BlocksInv'
    BY <1>7 DEF BlocksInv, Fine
<1> QED BY <1>3, <1>6, <1>8 DEF ContextInv

LEMMA FinishKeepsContext ==
  ASSUME ContextInv, Finish
  PROVE  ContextInv'
<1>1. /\ lines \in Seq(LineKinds) /\ read = FALSE /\ IsHere(here) /\ HereInv
      /\ \E V : blocks \in Seq(BlockSet(V))
      /\ \A n \in DOMAIN blocks : Stood(blocks[n]) /\ blocks[n].from = 0
    BY DEF ContextInv, ReadTypes, BlocksInv, Fine, Finish
<1>2. PICK f : f = Flushed
    OBVIOUS
<1>3. PICK V : f \in Seq(BlockSet(V))
    BY <1>1, <1>2, FlushedStands
<1>4. \A n \in DOMAIN f : Stood(f[n]) /\ f[n].from = 0
    BY <1>1, <1>2, FlushedStands
<1>5. PICK s : s = [i \in DOMAIN f |-> Recovered(f[i])]
    OBVIOUS
<1>6. /\ lines' = lines /\ here' = here /\ read' = TRUE
      /\ blocks' = FoldLeft(Inherited, << >>, s)
    BY <1>2, <1>5 DEF Finish
<1>7. ASSUME NEW n \in DOMAIN f
      PROVE  s[n] \in BlockSet(V) /\ Stood(s[n]) /\ s[n].from = 0
  <2>1. PICK b : b = f[n] /\ b \in BlockSet(V) /\ Stood(b) /\ b.from = 0
      BY <1>3, <1>4
  <2>2. s[n] = b \/ s[n] = [b EXCEPT !.look = "semantic"]
      BY <1>5, <2>1 DEF Recovered
  <2>3. /\ s[n] \in BlockSet(V) /\ s[n].at = b.at /\ s[n].section = b.section
        /\ s[n].ref = b.ref /\ s[n].from = b.from
      BY <2>1, <2>2 DEF BlockSet
  <2> QED BY <2>1, <2>3 DEF Stood
<1>8. s \in Seq(BlockSet(V)) /\ DOMAIN s = DOMAIN f
  <2>1. Len(f) \in Nat /\ DOMAIN f = 1..Len(f)
      BY <1>3
  <2>2. s \in [1..Len(f) -> BlockSet(V)]
      BY <1>5, <1>7, <2>1
  <2> QED BY <2>1, <2>2
<1>9. blocks' \in Seq(BlockSet(V)) /\ Fine(blocks')
    BY <1>6, <1>7, <1>8, AllInherited
<1>10. ReadTypes'
    BY <1>1, <1>6, <1>9 DEF ReadTypes, IsHere
<1>11. \A i : /\ AmongNotes(i)' = AmongNotes(i) /\ SectionAt(i)' = SectionAt(i)
              /\ ChapterAt(i)' = ChapterAt(i) /\ ScheduleAt(i)' = ScheduleAt(i)
    BY <1>6, SameReading
<1>12. HereInv'
    BY <1>1, <1>6, <1>11 DEF HereInv
<1>13. BlocksInv'
    BY <1>6, <1>9, <1>11 DEF BlocksInv, Fine, Stood, Heads
<1> QED BY <1>10, <1>12, <1>13 DEF ContextInv

LEMMA StandingKeepsContext ==
  ASSUME ContextInv, UNCHANGED contextVars
  PROVE  ContextInv'
<1>1. lines' = lines /\ here' = here /\ blocks' = blocks /\ read' = read
    BY DEF contextVars
<1>2. \A i : /\ AmongNotes(i)' = AmongNotes(i) /\ SectionAt(i)' = SectionAt(i)
             /\ ChapterAt(i)' = ChapterAt(i) /\ ScheduleAt(i)' = ScheduleAt(i)
    BY <1>1, SameReading
<1>3. ReadTypes'
    BY <1>1 DEF ContextInv, ReadTypes, IsHere
<1>4. HereInv'
    BY <1>1, <1>2 DEF ContextInv, HereInv
<1>5. BlocksInv'
    BY <1>1, <1>2 DEF ContextInv, BlocksInv, Fine, Stood, Heads
<1> QED BY <1>3, <1>4, <1>5 DEF ContextInv

(* Every table stands where its place in the report says, and inherits its    *)
(* header from the one before it of the same place only, whatever the report *)
(* (table_parser.py:391-441, :468-575).                                      *)
THEOREM TablesAlwaysStandInTheirNote == ContextSpec => []TablesStandInTheirNote
<1>1. ContextInit => ContextInv
    BY ContextStarts
<1>2. ContextInv /\ [ContextNext]_contextVars => ContextInv'
  <2> SUFFICES ASSUME ContextInv, [ContextNext]_contextVars PROVE ContextInv'
      OBVIOUS
  <2>1. CASE Finish
      BY <2>1, FinishKeepsContext
  <2>2. ASSUME NEW l \in LineKinds, ReadLine(l) PROVE ContextInv'
      BY <2>2, ContextAssumption, ReadLineKeepsContext
  <2>3. CASE UNCHANGED contextVars
      BY <2>3, StandingKeepsContext
  <2> QED BY <2>1, <2>2, <2>3 DEF ContextNext
<1>3. ContextInv => TablesStandInTheirNote
    BY TablesStand DEF ContextInv, BlocksInv
<1> QED BY <1>1, <1>2, <1>3, PTL DEF ContextSpec
=============================================================================
