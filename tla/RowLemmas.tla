------------------------------- MODULE RowLemmas -------------------------------
(***************************************************************************)
(* Rows that are numbered in the order of their creation, as the modules   *)
(* keep them: the least and the greatest of a set of numbers, for the      *)
(* oldest and the newest row, and sequences, for the tables.               *)
(***************************************************************************)
EXTENDS Integers, Sequences, FiniteSets, FiniteSetsExt, WellFoundedInduction,
    FiniteSetTheorems, TLAPS

\* A nonempty set of natural numbers has a least member.
LEMMA MinIsLeast ==
    ASSUME NEW S \in SUBSET Nat, S # {}
    PROVE  Min(S) \in S /\ \A y \in S : Min(S) <= y
<1> DEFINE R == {p \in Nat \X Nat : p[1] < p[2]}
<1>1. IsWellFoundedOn(R, Nat)
  <2>1. OpToRel(<, Nat) = R
    BY DEF OpToRel
  <2> QED
    BY <2>1, NatLessThanWellFounded
<1>2. PICK x \in S : \A y \in S : <<y, x>> \notin R
  BY <1>1, WFMin
<1>3. ASSUME NEW y \in S
      PROVE  x <= y
  <2>1. x \in Nat /\ y \in Nat /\ ~(y < x)
    BY <1>2
  <2> QED
    BY <2>1
<1> QED
  BY <1>3 DEF Min

\* The smaller of two.
LEMMA MinOfTwo ==
    ASSUME NEW a \in Nat, NEW b \in Nat
    PROVE  Min({a, b}) = IF a <= b THEN a ELSE b
<1> DEFINE S == {a, b}
<1>1. S \in SUBSET Nat /\ S # {}
  OBVIOUS
<1>2. Min(S) \in S /\ \A y \in S : Min(S) <= y
  BY <1>1, MinIsLeast
<1> HIDE DEF S
<1>3. a \in S /\ b \in S /\ \A y \in S : y = a \/ y = b
  BY DEF S
<1>4. Min(S) \in {a, b} /\ Min(S) <= a /\ Min(S) <= b
  BY <1>2, <1>3
<1> QED
  BY <1>4 DEF S

\* A nonempty set of integers that is bounded above has a greatest member.
LEMMA MaxIsGreatest ==
    ASSUME NEW S \in SUBSET Int, S # {}, NEW b \in Int, \A y \in S : y <= b
    PROVE  Max(S) \in S /\ \A y \in S : y <= Max(S)
<1> DEFINE T == {b - y : y \in S}
<1>1. T \in SUBSET Nat /\ T # {}
  <2>1. \A y \in S : b - y \in Nat
    OBVIOUS
  <2>2. PICK y \in S : TRUE
    OBVIOUS
  <2>3. b - y \in T
    BY <2>2
  <2> QED
    BY <2>1, <2>3
<1> HIDE DEF T
<1>2. Min(T) \in T /\ \A t \in T : Min(T) <= t
  BY <1>1, MinIsLeast
<1>3. PICK x \in S : Min(T) = b - x
  BY <1>2 DEF T
<1>4. \A y \in S : y <= x
  BY <1>2, <1>3 DEF T
<1> QED
  BY <1>4 DEF Max

\* So has a nonempty finite set of integers a least member.
LEMMA MinOfFinite ==
    ASSUME NEW S \in SUBSET Int, S # {}, IsFiniteSet(S)
    PROVE  Min(S) \in S /\ \A y \in S : Min(S) <= y
<1> DEFINE HasLeast(U) == \E x \in U : \A y \in U : x <= y
           T == {U \in FiniteSubsetsOf(S) : U # {} /\ ~HasLeast(U)}
<1>1. T = {}
  <2> SUFFICES ASSUME T # {} PROVE FALSE
    OBVIOUS
  <2>1. PICK U \in T : \A V \in T : <<V, U>> \notin StrictSubsetOrdering(S)
    <3>1. T \subseteq FiniteSubsetsOf(S)
      OBVIOUS
    <3> HIDE DEF T
    <3> QED
      BY <3>1, FS_StrictSubsetOrderingWellFounded, WFMin
  <2>2. U \in SUBSET S /\ IsFiniteSet(U) /\ U # {} /\ ~HasLeast(U)
    BY DEF FiniteSubsetsOf
  <2>3. PICK x \in U : TRUE
    BY <2>2
  <2> DEFINE V == U \ {x}
  <2>4. V \in FiniteSubsetsOf(S)
    BY <2>2, FS_RemoveElement DEF FiniteSubsetsOf
  <2>5. <<V, U>> \in StrictSubsetOrdering(S)
    BY <2>2, <2>3 DEF StrictSubsetOrdering
  <2>6. V = {} \/ HasLeast(V)
    BY <2>1, <2>4, <2>5
  <2>7. CASE V = {}
    BY <2>2, <2>3, <2>7
  <2>8. CASE HasLeast(V)
    <3>1. PICK z \in V : \A y \in V : z <= y
      BY <2>8
    <3>2. x \in Int /\ z \in Int /\ U = V \cup {x}
      BY <2>2, <2>3, <3>1
    <3>3. CASE z <= x
      BY <2>2, <3>1, <3>2, <3>3
    <3>4. CASE x <= z
      <4>1. \A y \in U : y \in Int /\ x <= y
        BY <2>2, <3>1, <3>2, <3>4
      <4> QED
        BY <2>2, <2>3, <4>1
    <3> QED
      BY <3>2, <3>3, <3>4
  <2> QED
    BY <2>6, <2>7, <2>8
<1>2. S \in FiniteSubsetsOf(S)
  BY DEF FiniteSubsetsOf
<1>3. HasLeast(S)
  BY <1>1, <1>2
<1> QED
  BY <1>3 DEF Min

\* The members of a finite set of positive numbers can be told by how many
\* are not greater.
LEMMA Numbered ==
    ASSUME NEW n \in Nat, NEW S \in SUBSET (1 .. n), NEW i \in 1 .. Cardinality(S)
    PROVE  \E c \in S : Cardinality({d \in S : d <= c}) = i
<1> DEFINE UpTo(c) == {d \in S : d <= c}
           T == {c \in 0 .. n : i <= Cardinality(UpTo(c))}
<1>0. S \subseteq 1 .. n /\ \A d \in S : d \in Int /\ 1 <= d /\ d <= n
  OBVIOUS
<1>1. IsFiniteSet(S) /\ Cardinality(S) \in Nat
  <2>1. IsFiniteSet(1 .. n)
    BY FS_Interval
  <2>2. IsFiniteSet(S)
    BY <1>0, <2>1, FS_Subset
  <2> QED
    BY <2>2, FS_CardinalityType
<1>2. \A c \in Int : UpTo(c) \in SUBSET S /\ \A d : d \in UpTo(c) <=> d \in S /\ d <= c
  OBVIOUS
<1> HIDE DEF UpTo
<1>3. \A c \in Int : IsFiniteSet(UpTo(c)) /\ Cardinality(UpTo(c)) \in Nat
  BY <1>1, <1>2, FS_Subset, FS_CardinalityType
<1>4. UpTo(n) = S /\ UpTo(0) = {}
  <2>1. /\ \A d : d \in UpTo(n) <=> d \in S /\ d <= n
        /\ \A d : d \in UpTo(0) <=> d \in S /\ d <= 0
    BY DEF UpTo
  <2>2. \A d \in S : d <= n /\ ~(d <= 0)
    BY <1>0
  <2> QED
    BY <2>1, <2>2, Zenon
<1>5. PICK c \in T : \A y \in T : c <= y
  <2>1. n \in T
    BY <1>1, <1>4
  <2>2. T \in SUBSET Nat /\ T # {}
    BY <2>1
  <2> HIDE DEF T
  <2> QED
    BY <2>2, MinIsLeast
<1>6. c \in 0 .. n /\ c \in Int /\ i <= Cardinality(UpTo(c))
  BY <1>5
<1>7. c # 0
  BY <1>4, <1>6, FS_EmptySet
<1>8. c - 1 \in 0 .. n /\ c - 1 \in Int /\ c - 1 \notin T
  BY <1>5, <1>6, <1>7
<1>9. Cardinality(UpTo(c - 1)) < i
  BY <1>3, <1>8
<1>10. c \in S
  <2> SUFFICES ASSUME c \notin S PROVE FALSE
    OBVIOUS
  <2>1. \A d \in S : d <= c <=> d <= c - 1
    BY <1>0, <1>6
  <2>2. UpTo(c) = UpTo(c - 1)
    BY <1>2, <1>6, <1>8, <2>1
  <2> QED
    BY <1>3, <1>6, <1>8, <1>9, <2>2
<1>11. UpTo(c) = UpTo(c - 1) \cup {c} /\ c \notin UpTo(c - 1)
  <2>1. \A d \in S : d <= c <=> d <= c - 1 \/ d = c
    BY <1>0, <1>6
  <2>2. c \in UpTo(c) /\ c \notin UpTo(c - 1)
    BY <1>2, <1>6, <1>8, <1>10
  <2> QED
    BY <1>2, <1>6, <1>8, <2>1, <2>2
<1>12. Cardinality(UpTo(c)) = Cardinality(UpTo(c - 1)) + 1
  BY <1>3, <1>8, <1>11, FS_AddElement
<1>13. Cardinality(UpTo(c)) = i
  BY <1>3, <1>6, <1>8, <1>9, <1>12
<1> QED
  BY <1>10, <1>13 DEF UpTo

---------------------------------------------------------------------------
\* What is known of a sequence and of its entries.
LEMMA SeqParts ==
    ASSUME NEW S, NEW s \in Seq(S)
    PROVE  /\ Len(s) \in Nat
           /\ DOMAIN s = 1 .. Len(s)
           /\ DOMAIN s \in SUBSET Nat
           /\ \A j \in DOMAIN s : s[j] \in S
OBVIOUS

\* Entries that are mapped one by one make a sequence of the same length.
LEMMA SeqMapped ==
    ASSUME NEW S, NEW T, NEW s \in Seq(S), NEW t,
           DOMAIN t = DOMAIN s, t = [j \in DOMAIN t |-> t[j]],
           \A j \in DOMAIN s : t[j] \in T
    PROVE  t \in Seq(T) /\ Len(t) = Len(s)
<1>1. DOMAIN s = 1 .. Len(s) /\ Len(s) \in Nat
  OBVIOUS
<1>2. t \in [1 .. Len(s) -> T]
  BY <1>1
<1> QED
  BY <1>1, <1>2

\* Writing one row of a table.
LEMMA SeqExcept ==
    ASSUME NEW S, NEW s \in Seq(S), NEW i \in DOMAIN s, NEW r \in S
    PROVE  /\ [s EXCEPT ![i] = r] \in Seq(S)
           /\ Len([s EXCEPT ![i] = r]) = Len(s)
           /\ DOMAIN [s EXCEPT ![i] = r] = DOMAIN s
           /\ \A j \in DOMAIN s : [s EXCEPT ![i] = r][j] = IF j = i THEN r ELSE s[j]
OBVIOUS

\* Adding a row to a table.
LEMMA SeqAppend ==
    ASSUME NEW S, NEW s \in Seq(S), NEW r \in S
    PROVE  /\ Append(s, r) \in Seq(S)
           /\ Len(Append(s, r)) = Len(s) + 1
           /\ DOMAIN Append(s, r) = DOMAIN s \cup {Len(s) + 1}
           /\ Len(s) + 1 \notin DOMAIN s
           /\ \A j \in DOMAIN s : Append(s, r)[j] = s[j]
           /\ Append(s, r)[Len(s) + 1] = r
OBVIOUS

---------------------------------------------------------------------------
(* Folds.  MapThenFoldSet (Folds) defines a function of the sets that are  *)
(* still to be folded; that there is one is what a proof about a fold      *)
(* begins with.                                                            *)

\* A set that holds 0 and, with each number, the next one holds all up to n.
LEMMA UpTo ==
    ASSUME NEW n \in Nat, NEW S, 0 \in S,
           \A k \in 1 .. n : k - 1 \in S => k \in S
    PROVE  \A k \in 0 .. n : k \in S
<1> DEFINE Bad == {k \in 0 .. n : k \notin S}
<1> SUFFICES ASSUME Bad # {} PROVE FALSE
  OBVIOUS
<1>1. Bad \in SUBSET Nat
  OBVIOUS
<1>2. Min(Bad) \in Bad /\ \A y \in Bad : Min(Bad) <= y
  BY <1>1, MinIsLeast
<1> DEFINE m == Min(Bad)
<1>3. m \in 1 .. n /\ m \notin S
  BY <1>2
<1>4. m - 1 \in S
  <2>1. m - 1 \in 0 .. n /\ ~(m <= m - 1)
    BY <1>3
  <2> HIDE DEF m
  <2>2. m - 1 \notin Bad
    BY <1>2, <2>1 DEF m
  <2> QED
    BY <2>1, <2>2
<1> QED
  BY <1>3, <1>4

\* c chooses a member of every subset of D; h takes them with the step g.
Chooses(c, D) == \A T \in SUBSET D : T # {} => c[T] \in T
Steps(g, D, A) == g \in [D \X A -> A]
IsFold(h, D, A, b, c, g) ==
    /\ h \in [SUBSET D -> A] /\ h[{}] = b
    /\ \A T \in SUBSET D : T # {} => h[T] = g[<<c[T], h[T \ {c[T]}]>>]

\* There is a function of the subsets of a finite set that takes their members
\* in the order that a choice gives.
LEMMA FoldExists ==
    ASSUME NEW D, IsFiniteSet(D), NEW A, NEW b \in A,
           NEW c, Chooses(c, D), NEW g, Steps(g, D, A)
    PROVE  \E h : IsFold(h, D, A, b, c, g)
<1> USE DEF Chooses, Steps
<1> DEFINE Folds(h, T) == h[T] = IF T = {} THEN b ELSE g[<<c[T], h[T \ {c[T]}]>>]
           Upto(m) == {T \in SUBSET D : Cardinality(T) <= m}
           Good == {m \in Nat : \E h \in [SUBSET D -> A] : \A T \in Upto(m) : Folds(h, T)}
<1>0. \A T \in SUBSET D : IsFiniteSet(T) /\ Cardinality(T) \in Nat /\ Cardinality(T) <= Cardinality(D)
  BY FS_Subset, FS_CardinalityType
<1>1. 0 \in Good
  <2> DEFINE h == [T \in SUBSET D |-> b]
  <2>1. h \in [SUBSET D -> A]
    OBVIOUS
  <2>2. \A T \in Upto(0) : T = {}
    BY <1>0, FS_EmptySet
  <2>3. \A T \in Upto(0) : Folds(h, T)
    BY <2>2
  <2> QED
    BY <2>1, <2>3
<1>2. ASSUME NEW m \in Good PROVE m + 1 \in Good
  <2>1. PICK h \in [SUBSET D -> A] : \A T \in Upto(m) : Folds(h, T)
    OBVIOUS
  <2> DEFINE k == [T \in SUBSET D |-> IF T = {} THEN b ELSE g[<<c[T], h[T \ {c[T]}]>>]]
  <2>2. k \in [SUBSET D -> A]
    OBVIOUS
  <2>3. \A T \in Upto(m) : k[T] = h[T]
    BY <2>1
  <2>4. ASSUME NEW T \in Upto(m + 1) PROVE Folds(k, T)
    <3>1. CASE T = {}
      BY <3>1
    <3>2. CASE T # {}
      <4>1. c[T] \in T /\ T \ {c[T]} \in SUBSET D
        BY <3>2
      <4>2. Cardinality(T \ {c[T]}) = Cardinality(T) - 1
        BY <4>1, <1>0, FS_RemoveElement
      <4>3. T \ {c[T]} \in Upto(m)
        BY <4>1, <4>2, <1>0
      <4> QED
        BY <3>2, <4>3, <2>3
    <3> QED
      BY <3>1, <3>2
  <2>5. \A T \in Upto(m + 1) : Folds(k, T)
    BY <2>4
  <2>6. m + 1 \in Nat
    OBVIOUS
  <2> HIDE DEF k, Folds, Upto
  <2> QED
    BY <2>2, <2>5, <2>6
<1>3. Cardinality(D) \in Good
  <2> DEFINE Bad == Nat \ Good
  <2> SUFFICES ASSUME Cardinality(D) \notin Good PROVE FALSE
    OBVIOUS
  <2>1. Bad \in SUBSET Nat /\ Bad # {}
    BY FS_CardinalityType
  <2>2. Min(Bad) \in Bad /\ \A y \in Bad : Min(Bad) <= y
    BY <2>1, MinIsLeast
  <2>3. Min(Bad) # 0
    BY <1>1, <2>2
  <2> DEFINE m == Min(Bad) - 1
  <2>4. m \in Nat /\ m \notin Bad
    <3> HIDE DEF Bad
    <3>1. Min(Bad) \in Nat
      BY <2>1, <2>2
    <3> QED
      BY <3>1, <2>3, <2>2
  <2>5. m + 1 \in Good
    <3>1. m \in Good
      BY <2>4
    <3> QED
      BY <3>1, <1>2
  <2>6. m + 1 = Min(Bad)
    BY <2>1, <2>2
  <2> HIDE DEF Good
  <2> QED
    BY <2>2, <2>5, <2>6
<1>4. PICK h \in [SUBSET D -> A] : \A T \in Upto(Cardinality(D)) : Folds(h, T)
  BY <1>3
<1>5. \A T \in SUBSET D : Folds(h, T)
  BY <1>0, <1>4
<1>6. IsFold(h, D, A, b, c, g)
  BY <1>5 DEF IsFold
<1> QED
  BY <1>6

\* What holds of no member, and of one more when it held of those before it,
\* holds of every subset.
LEMMA SubsetByOne ==
    ASSUME NEW D, IsFiniteSet(D), NEW c, Chooses(c, D), NEW G, {} \in G,
           \A T \in SUBSET D : T # {} /\ T \ {c[T]} \in G => T \in G
    PROVE  \A T \in SUBSET D : T \in G
<1> DEFINE n == Cardinality(D)
           Good == {k \in 0 .. n : \A T \in SUBSET D : Cardinality(T) = k => T \in G}
<1>1. n \in Nat /\ \A T \in SUBSET D : IsFiniteSet(T) /\ Cardinality(T) \in 0 .. n
  BY FS_Subset, FS_CardinalityType
<1>2. 0 \in Good
  BY <1>1, FS_EmptySet
<1>3. ASSUME NEW k \in 1 .. n, k - 1 \in Good PROVE k \in Good
  <2> SUFFICES ASSUME NEW T \in SUBSET D, Cardinality(T) = k PROVE T \in G
    BY <1>1
  <2>1. T # {}
    <3>1. k # 0
      BY <1>1
    <3> QED
      BY <3>1, FS_EmptySet
  <2>2. c[T] \in T /\ T \ {c[T]} \in SUBSET D
    BY <2>1 DEF Chooses
  <2>3. Cardinality(T \ {c[T]}) = k - 1
    BY <1>1, <2>2, FS_RemoveElement
  <2> QED
    BY <1>3, <2>1, <2>2, <2>3
<1>4. \A k \in 0 .. n : k \in Good
  <2> HIDE DEF Good, n
  <2> QED
    BY <1>1, <1>2, <1>3, UpTo
<1> QED
  BY <1>1, <1>4

\* The same for the entries of a sequence, the last one first.
IsFoldLeft(h, n, A, b, g) ==
    /\ h \in [SUBSET (1 .. n) -> A] /\ h[{}] = b
    /\ \A T \in SUBSET (1 .. n) : T # {} => Max(T) \in T /\ h[T] = g[<<Max(T), h[T \ {Max(T)}]>>]

LEMMA FoldLeftExists ==
    ASSUME NEW n \in Nat, NEW A, NEW b \in A, NEW g, Steps(g, 1 .. n, A)
    PROVE  \E h : IsFoldLeft(h, n, A, b, g)
<1> DEFINE D == 1 .. n
           c == [T \in SUBSET D |-> Max(T)]
<1>1. IsFiniteSet(D)
  BY FS_Interval
<1>2. ASSUME NEW T \in SUBSET D, T # {} PROVE Max(T) \in T
  BY <1>2, MaxIsGreatest
<1>3. Chooses(c, D) /\ Steps(g, D, A)
  BY <1>2 DEF Chooses
<1> HIDE DEF c
<1>4. PICK h : IsFold(h, D, A, b, c, g)
  BY <1>1, <1>3, FoldExists
<1>5. \A T \in SUBSET D : c[T] = Max(T)
  BY DEF c
<1>6. ASSUME NEW T \in SUBSET D, T # {} PROVE h[T] = g[<<Max(T), h[T \ {Max(T)}]>>]
  BY <1>4, <1>5, <1>6 DEF IsFold
<1>7. h \in [SUBSET (1 .. n) -> A] /\ h[{}] = b
  BY <1>4 DEF IsFold
<1>8. IsFoldLeft(h, n, A, b, g)
  BY <1>2, <1>6, <1>7 DEF IsFoldLeft
<1> QED
  BY <1>8

\* The greatest of the first k numbers is k.
LEMMA LastOfFirst ==
    ASSUME NEW k \in Nat \ {0}
    PROVE  Max(1 .. k) = k /\ (1 .. k) \ {k} = 1 .. k - 1
<1>1. 1 .. k # {} /\ k \in 1 .. k /\ k \in Nat /\ k \in Int /\ 1 .. k \in SUBSET Int
        /\ \A y \in 1 .. k : y <= k
  OBVIOUS
<1>2. Max(1 .. k) \in 1 .. k /\ \A y \in 1 .. k : y <= Max(1 .. k)
  BY <1>1, MaxIsGreatest, Zenon
<1>3. k <= Max(1 .. k) /\ Max(1 .. k) <= k /\ Max(1 .. k) \in Nat
  BY <1>1, <1>2
<1>4. (1 .. k) \ {k} = 1 .. k - 1
  BY <1>1
<1> QED
  BY <1>1, <1>3, <1>4

---------------------------------------------------------------------------
(* Sequences that are divided and joined.                                  *)

LEMMA SeqDivided ==
    ASSUME NEW S, NEW s \in Seq(S), NEW n \in 0 .. Len(s)
    PROVE  /\ SubSeq(s, 1, n) \in Seq(S) /\ Len(SubSeq(s, 1, n)) = n
           /\ SubSeq(s, n + 1, Len(s)) \in Seq(S) /\ Len(SubSeq(s, n + 1, Len(s))) = Len(s) - n
           /\ \A k \in 1 .. n : SubSeq(s, 1, n)[k] = s[k]
           /\ \A k \in 1 .. Len(s) - n : SubSeq(s, n + 1, Len(s))[k] = s[n + k]
OBVIOUS

LEMMA SeqJoined ==
    ASSUME NEW S, NEW s \in Seq(S), NEW t \in Seq(S)
    PROVE  /\ s \o t \in Seq(S) /\ Len(s \o t) = Len(s) + Len(t)
           /\ \A k \in 1 .. Len(s) : (s \o t)[k] = s[k]
           /\ \A k \in 1 .. Len(t) : (s \o t)[Len(s) + k] = t[k]
OBVIOUS

\* Which of the two an entry is from.
LEMMA SeqSides ==
    ASSUME NEW S, NEW s \in Seq(S), NEW t \in Seq(S), NEW u, u = s \o t
    PROVE  /\ u \in Seq(S) /\ Len(s) \in Nat /\ DOMAIN u \in SUBSET Nat
           /\ \A i \in DOMAIN u : i <= Len(s) => i \in DOMAIN s /\ u[i] = s[i]
           /\ \A i \in DOMAIN u : i > Len(s) => i - Len(s) \in DOMAIN t /\ u[i] = t[i - Len(s)]
           /\ \A i \in DOMAIN s : i \in DOMAIN u /\ u[i] = s[i]
           /\ \A i \in DOMAIN t : Len(s) + i \in DOMAIN u /\ u[Len(s) + i] = t[i]
<1>1. /\ u \in Seq(S) /\ Len(u) = Len(s) + Len(t)
      /\ \A k \in 1 .. Len(s) : u[k] = s[k]
      /\ \A k \in 1 .. Len(t) : u[Len(s) + k] = t[k]
  BY SeqJoined
<1>2. /\ DOMAIN s = 1 .. Len(s) /\ DOMAIN t = 1 .. Len(t) /\ DOMAIN u = 1 .. Len(u)
      /\ Len(s) \in Nat /\ Len(t) \in Nat
  BY <1>1
<1> DEFINE m == Len(s)
           n == Len(t)
<1> HIDE DEF m, n
<1>3. /\ DOMAIN s = 1 .. m /\ DOMAIN t = 1 .. n /\ DOMAIN u = 1 .. m + n /\ m \in Nat /\ n \in Nat
      /\ \A k \in 1 .. m : u[k] = s[k]
      /\ \A k \in 1 .. n : u[m + k] = t[k]
  BY <1>1, <1>2 DEF m, n
<1>4. ASSUME NEW i \in DOMAIN u, i > m PROVE i - m \in DOMAIN t /\ u[i] = t[i - m]
  <2>1. i - m \in 1 .. n /\ m + (i - m) = i
    BY <1>3, <1>4
  <2> QED
    BY <1>3, <2>1
<1>5. ASSUME NEW i \in DOMAIN u, i <= m PROVE i \in DOMAIN s /\ u[i] = s[i]
  BY <1>3, <1>5
<1>6. ASSUME NEW i \in DOMAIN s PROVE i \in DOMAIN u /\ u[i] = s[i]
  BY <1>3
<1>7. ASSUME NEW i \in DOMAIN t PROVE m + i \in DOMAIN u /\ u[m + i] = t[i]
  BY <1>3
<1>8. DOMAIN u \in SUBSET Nat
  BY <1>3
<1> QED
  BY <1>1, <1>2, <1>4, <1>5, <1>6, <1>7, <1>8 DEF m

================================================================================
