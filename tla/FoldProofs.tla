------------------------------ MODULE FoldProofs ------------------------------
(***************************************************************************)
(* Facts about numbers, finite sets, sequences and folds on which the        *)
(* theorems about the components rest.                                       *)
(*                                                                         *)
(* A fold is a recursive function of the subsets of a set.  What is wanted   *)
(* of it is that it exists, from which each use derives the steps of its     *)
(* own operator, and that two of them that begin alike and step alike are    *)
(* the same.  A sum over a finite set is one, whatever order is chosen.      *)
(***************************************************************************)
EXTENDS Integers, SequencesExt, FiniteSetsExt, FiniteSetTheorems, SequenceTheorems,
        WellFoundedInduction, TLAPS

(***************************************************************************)
(* Numbers and finite sets                                                  *)
(***************************************************************************)
LEMMA LeastElement ==
  ASSUME NEW S \in SUBSET Nat, S # {}
  PROVE  \E least \in S : \A n \in S : least <= n
  <1>1. IsWellFoundedOn(OpToRel(<, Nat), Nat)
    BY NatLessThanWellFounded
  <1>2. PICK least \in S : \A n \in S : ~ (<<n, least>> \in OpToRel(<, Nat))
    BY <1>1, WFMin
  <1>3. \A n \in S : ~ (n < least)
    BY <1>2 DEF OpToRel
  <1> QED BY <1>3

\* What holds of the empty set, and of each set when it holds of what is left
\* without one chosen element, holds of all.
Chooses(S, choose) == \A s \in SUBSET S : s # {} => choose[s] \in s

Inductive(S, choose, Good) ==
    {} \in Good /\ \A s \in SUBSET S : s # {} /\ s \ {choose[s]} \in Good => s \in Good

LEMMA SubsetInduction ==
  ASSUME NEW S, IsFiniteSet(S), NEW choose, Chooses(S, choose),
         NEW Good, Inductive(S, choose, Good)
  PROVE  SUBSET S \subseteq Good
  <1> SUFFICES ASSUME NEW bad \in SUBSET S, bad \notin Good PROVE FALSE
    OBVIOUS
  <1>1. \A s \in SUBSET S : IsFiniteSet(s) /\ Cardinality(s) \in Nat
    BY FS_Subset, FS_CardinalityType
  <1> DEFINE sizes == {k \in Nat : \E s \in SUBSET S : s \notin Good /\ Cardinality(s) = k}
  <1>2. sizes # {}
    BY <1>1
  <1>3. PICK least \in sizes : \A k \in sizes : least <= k
    <2> HIDE DEF sizes
    <2>1. sizes \in SUBSET Nat
      BY DEF sizes
    <2> QED BY <1>2, <2>1, LeastElement
  <1>4. PICK s \in SUBSET S : s \notin Good /\ Cardinality(s) = least
    OBVIOUS
  <1>5. s # {} /\ choose[s] \in s /\ s \ {choose[s]} \notin Good
    BY <1>4 DEF Chooses, Inductive
  <1>6. Cardinality(s \ {choose[s]}) = least - 1
    BY <1>1, <1>4, <1>5, FS_RemoveElement
  <1>7. Cardinality(s \ {choose[s]}) \in sizes
    BY <1>1, <1>5
  <1>8. least \in Nat /\ least <= least - 1
    BY <1>3, <1>6, <1>7
  <1> QED BY <1>8

\* A finite set of things with numbers has one with the greatest.
LEMMA GreatestNumber ==
  ASSUME NEW S, IsFiniteSet(S), NEW number \in [S -> Nat]
  PROVE  \A s \in SUBSET S : s # {} => \E x \in s : \A y \in s : number[y] <= number[x]
  <1> DEFINE choose == [s \in SUBSET S |-> CHOOSE x \in s : TRUE]
             Good == {s \in SUBSET S :
                        s # {} => \E x \in s : \A y \in s : number[y] <= number[x]}
  <1>1. \A s \in SUBSET S : s # {} => choose[s] \in s
    OBVIOUS
  <1>2. {} \in Good
    OBVIOUS
  <1>3. ASSUME NEW s \in SUBSET S, s # {}, s \ {choose[s]} \in Good
        PROVE  s \in Good
    <2> DEFINE c == choose[s]
    <2>1. c \in s
      BY <1>1, <1>3
    <2> HIDE DEF choose
    <2>2. CASE s \ {c} = {}
      BY <2>1, <2>2
    <2>3. CASE s \ {c} # {}
      <3>1. PICK x \in s \ {c} : \A y \in s \ {c} : number[y] <= number[x]
        BY <1>3, <2>3
      <3>2. CASE number[c] <= number[x]
        BY <3>1, <3>2
      <3>3. CASE number[x] <= number[c]
        BY <2>1, <3>1, <3>3
      <3>4. number[c] \in Nat /\ number[x] \in Nat
        BY <2>1
      <3> QED BY <3>2, <3>3, <3>4
    <2> QED BY <2>2, <2>3
  <1> HIDE DEF choose, Good
  <1>4. Chooses(S, choose)
    BY <1>1 DEF Chooses
  <1>5. Inductive(S, choose, Good)
    BY <1>2, <1>3 DEF Inductive
  <1>6. SUBSET S \subseteq Good
    BY <1>4, <1>5, SubsetInduction
  <1> QED BY <1>6 DEF Good

\* Counting up from nothing reaches every number.
LEMMA CountUp ==
  ASSUME NEW n \in Nat, NEW Good, 0 \in Good,
         \A k \in 0..(n - 1) : k \in Good => k + 1 \in Good
  PROVE  0..n \subseteq Good
  <1> DEFINE bad == {k \in 0..n : k \notin Good}
  <1> SUFFICES ASSUME bad # {} PROVE FALSE
    OBVIOUS
  <1>1. PICK least \in bad : \A k \in bad : least <= k
    <2>1. bad \in SUBSET Nat
      OBVIOUS
    <2> HIDE DEF bad
    <2> QED BY <2>1, LeastElement
  <1>2. least \in 0..n /\ least \notin Good /\ least # 0
    BY <1>1
  <1>3. least - 1 \in 0..(n - 1) /\ least - 1 \in 0..n
    BY <1>2
  <1>4. least - 1 \in Good
    BY <1>1, <1>2, <1>3
  <1>5. least - 1 + 1 = least
    BY <1>2
  <1> QED BY <1>2, <1>3, <1>4, <1>5

LEMMA Greatest ==
  ASSUME NEW S \in SUBSET Nat, IsFiniteSet(S), S # {}
  PROVE  /\ Max(S) \in S
         /\ \A x \in S : x <= Max(S)
  <1> DEFINE number == [x \in S |-> x]
  <1>1. number \in [S -> Nat] /\ \A x \in S : number[x] = x
    OBVIOUS
  <1> HIDE DEF number
  <1>2. \E x \in S : \A y \in S : number[y] <= number[x]
    BY <1>1, GreatestNumber
  <1>3. \E x \in S : \A y \in S : x >= y
    BY <1>1, <1>2
  <1> QED BY <1>3 DEF Max

LEMMA Least ==
  ASSUME NEW S \in SUBSET Nat, S # {}
  PROVE  /\ Min(S) \in S
         /\ \A x \in S : Min(S) <= x
  BY LeastElement DEF Min

LEMMA UpTo ==
  ASSUME NEW n \in Nat
  PROVE  /\ 1..0 = {} /\ IsFiniteSet(1..n)
         /\ \A k \in 1..n : 1..k # {} /\ Max(1..k) = k /\ (1..k) \ {k} = 1..(k - 1)
         /\ \A s \in SUBSET (1..n) : s # {} => Max(s) \in s
  <1>1. \A k \in Nat : IsFiniteSet(1..k)
    BY FS_Interval
  <1>2. ASSUME NEW s \in SUBSET (1..n), s # {} PROVE Max(s) \in s
    <2>1. IsFiniteSet(s)
      <3>1. IsFiniteSet(1..n)
        BY <1>1
      <3> QED BY <3>1, FS_Subset
    <2>2. s \in SUBSET Nat
      OBVIOUS
    <2> QED BY <1>2, <2>1, <2>2, Greatest
  <1>3. ASSUME NEW k \in 1..n PROVE Max(1..k) = k
    <2>1. 1..k \in SUBSET Nat /\ 1..k # {} /\ IsFiniteSet(1..k)
      BY <1>1
    <2>2. Max(1..k) \in 1..k /\ \A x \in 1..k : x <= Max(1..k)
      BY <2>1, Greatest
    <2> QED BY <2>2
  <1>4. \A k \in 1..n : 1..k # {} /\ (1..k) \ {k} = 1..(k - 1)
    OBVIOUS
  <1>5. 1..0 = {}
    OBVIOUS
  <1> QED BY <1>1, <1>2, <1>3, <1>4, <1>5

-----------------------------------------------------------------------------
(***************************************************************************)
(* Folds exist                                                              *)
(***************************************************************************)
Folds(S, choose, base, step, g) ==
    g = [s \in SUBSET S |-> IF s = {} THEN base
                            ELSE step[<<choose[s], g[s \ {choose[s]}]>>]]

\* A fold over subsets of at most k elements extends to those of k + 1.
LEMMA FoldExists ==
  ASSUME NEW S, IsFiniteSet(S), NEW choose, Chooses(S, choose),
         NEW A, NEW base \in A, NEW step \in [S \X A -> A]
  PROVE  \E g \in [SUBSET S -> A] : Folds(S, choose, base, step, g)
  <1> DEFINE Small(k) == {s \in SUBSET S : Cardinality(s) <= k}
             Solves(k, g) ==
               g = [s \in Small(k) |->
                      IF s = {} THEN base
                      ELSE step[<<choose[s], g[s \ {choose[s]}]>>]]
             Defined(k) == \E g : Solves(k, g) /\ g \in [Small(k) -> A]
             good == {k \in Nat : Defined(k)}
  <1>1. \A s \in SUBSET S : IsFiniteSet(s) /\ Cardinality(s) \in Nat
    BY FS_Subset, FS_CardinalityType
  <1>2. \A s \in SUBSET S : s # {} =>
          /\ choose[s] \in s
          /\ Cardinality(s \ {choose[s]}) = Cardinality(s) - 1
    BY <1>1, FS_RemoveElement DEF Chooses
  <1>3. Defined(0)
    <2>1. \A s \in Small(0) : s = {}
      BY <1>1, FS_EmptySet
    <2> DEFINE g == [s \in Small(0) |-> base]
    <2>2. Solves(0, g) /\ g \in [Small(0) -> A]
      <3> HIDE DEF Small
      <3> QED BY <2>1
    <2> HIDE DEF Solves, Small
    <2> QED BY <2>2
  <1>4. ASSUME NEW k \in Nat, Defined(k) PROVE Defined(k + 1)
    <2>1. PICK g : Solves(k, g) /\ g \in [Small(k) -> A]
      BY <1>4
    <2> DEFINE more == [s \in Small(k + 1) |->
                   IF s = {} THEN base
                   ELSE step[<<choose[s], g[s \ {choose[s]}]>>]]
    <2>2. Small(k) \subseteq Small(k + 1)
      BY <1>1
    <2>3. \A s \in Small(k) : more[s] = g[s]
      <3> HIDE DEF Small
      <3> QED BY <2>1, <2>2
    <2>4. \A s \in Small(k + 1) : s # {} => s \ {choose[s]} \in Small(k)
      BY <1>1, <1>2
    <2>5. \A s \in Small(k + 1) : s # {} => choose[s] \in S
      BY <1>2
    <2>6. Solves(k + 1, more)
      <3> HIDE DEF Small
      <3> QED BY <2>3, <2>4
    <2>7. more \in [Small(k + 1) -> A]
      <3> HIDE DEF Small
      <3> QED BY <2>1, <2>4, <2>5
    <2> HIDE DEF Solves, Small, more
    <2> QED BY <2>6, <2>7
  <1>5. Cardinality(S) \in Nat /\ Defined(Cardinality(S))
    <2>1. Cardinality(S) \in Nat
      BY FS_CardinalityType
    <2>2. 0 \in good /\ \A k \in 0..(Cardinality(S) - 1) : k \in good => k + 1 \in good
      <3> HIDE DEF Defined
      <3> QED BY <1>3, <1>4
    <2>3. 0..Cardinality(S) \subseteq good
      <3> HIDE DEF good
      <3> QED BY <2>1, <2>2, CountUp
    <2> HIDE DEF Defined
    <2> QED BY <2>1, <2>3
  <1>6. Small(Cardinality(S)) = SUBSET S
    BY FS_Subset, <1>1
  <1> HIDE DEF Small
  <1>7. PICK g : Solves(Cardinality(S), g) /\ g \in [Small(Cardinality(S)) -> A]
    BY <1>5
  <1>8. Folds(S, choose, base, step, g) /\ g \in [SUBSET S -> A]
    BY <1>6, <1>7 DEF Folds
  <1> QED BY <1>8

\* The fold of a sequence goes by the greatest index.
LastIndex(n) == [s \in SUBSET (1..n) |-> Max(s)]

FoldsSequence(n, base, step, g) ==
    g = [s \in SUBSET (1..n) |-> IF s = {} THEN base
                                 ELSE step[<<Max(s), g[s \ {Max(s)}]>>]]

LEMMA SequenceFoldExists ==
  ASSUME NEW n \in Nat, NEW A, NEW base \in A, NEW step \in [(1..n) \X A -> A]
  PROVE  \E g \in [SUBSET (1..n) -> A] : FoldsSequence(n, base, step, g)
  <1>1. \A s \in SUBSET (1..n) : LastIndex(n)[s] = Max(s)
    BY DEF LastIndex
  <1>2. \A s \in SUBSET (1..n) : s # {} => Max(s) \in s
    BY UpTo
  <1>3. PICK all, choose : all = 1..n /\ choose = LastIndex(n)
    OBVIOUS
  <1>4. Chooses(all, choose)
    BY <1>1, <1>2, <1>3 DEF Chooses
  <1>5. IsFiniteSet(all)
    BY <1>3, UpTo
  <1>6. step \in [all \X A -> A]
    BY <1>3
  <1>7. PICK g \in [SUBSET all -> A] : Folds(all, choose, base, step, g)
    BY <1>4, <1>5, <1>6, FoldExists
  <1>8. g = [s \in SUBSET (1..n) |->
               IF s = {} THEN base ELSE step[<<choose[s], g[s \ {choose[s]}]>>]]
    BY <1>3, <1>7 DEF Folds
  <1>9. \A s \in SUBSET (1..n) : choose[s] = Max(s)
    BY <1>1, <1>3
  <1>10. FoldsSequence(n, base, step, g)
    BY <1>8, <1>9 DEF FoldsSequence
  <1> QED BY <1>3, <1>7, <1>10

\* Step by step, along the sequence.
Walks(n, base, step, path) ==
    path[0] = base /\ \A k \in 1..n : path[k] = step[<<k, path[k - 1]>>]

Arrives(n, A, base, step, end) ==
    \E path \in [0..n -> A] : Walks(n, base, step, path) /\ path[n] = end

LEMMA FoldPath ==
  ASSUME NEW n \in Nat, NEW A, NEW base \in A, NEW step \in [(1..n) \X A -> A],
         NEW g, FoldsSequence(n, base, step, g)
  PROVE  Arrives(n, A, base, step, g[1..n])
  <1> DEFINE path == [k \in 0..n |-> g[1..k]]
  <1>1. \A k \in 0..n : 1..k \in SUBSET (1..n) /\ path[k] = g[1..k]
    OBVIOUS
  <1>2. path[0] = base /\ path[n] = g[1..n]
    <2>1. path[0] = g[1..0] /\ path[n] = g[1..n]
      <3>1. 0 \in 0..n /\ n \in 0..n
        OBVIOUS
      <3> QED BY <1>1, <3>1
    <2>2. 1..0 = {} /\ g[{}] = base
      BY DEF FoldsSequence
    <2> QED BY <2>1, <2>2
  <1>3. ASSUME NEW k \in 1..n PROVE path[k] = step[<<k, path[k - 1]>>]
    <2>1. 1..k # {} /\ Max(1..k) = k /\ (1..k) \ {k} = 1..(k - 1)
      BY UpTo
    <2>2. 1..k \in SUBSET (1..n) /\ k - 1 \in 0..n /\ k \in 0..n
      BY <1>1
    <2>3. path[k] = g[1..k] /\ path[k - 1] = g[1..(k - 1)]
      BY <1>1, <2>2
    <2>4. g[1..k] = step[<<k, g[1..(k - 1)]>>]
      BY <2>1, <2>2 DEF FoldsSequence
    <2> QED BY <2>3, <2>4
  <1> DEFINE good == {k \in 0..n : path[k] \in A}
  <1>4. 0..n \subseteq good
    <2>0. 0 \in good
      BY <1>2
    <2>1. ASSUME NEW k \in 0..(n - 1), k \in good PROVE k + 1 \in good
      <3> HIDE DEF path
      <3>1. k + 1 \in 1..n /\ (k + 1) - 1 = k /\ path[k] \in A
        BY <2>1
      <3>2. path[k + 1] = step[<<k + 1, path[k]>>]
        BY <1>3, <3>1
      <3>3. k + 1 \in 0..n
        BY <3>1
      <3> QED BY <3>1, <3>2, <3>3
    <2> HIDE DEF good
    <2>2. \A k \in 0..(n - 1) : k \in good => k + 1 \in good
      BY <2>1
    <2> QED BY <2>0, <2>2, CountUp
  <1>5. path \in [0..n -> A]
    BY <1>4
  <1> HIDE DEF path
  <1>6. Walks(n, base, step, path)
    BY <1>2, <1>3 DEF Walks
  <1> QED BY <1>2, <1>5, <1>6 DEF Arrives

-----------------------------------------------------------------------------
(***************************************************************************)
(* The sum over a finite set, in whatever order its elements are chosen     *)
(***************************************************************************)
Sum(f, s) == MapThenSumSet(LAMBDA x : f[x], s)

Some(t) == CHOOSE x \in t : TRUE

Sums(f, S, g) ==
    g = [t \in SUBSET S |-> IF t = {} THEN 0 ELSE f[Some(t)] + g[t \ {Some(t)}]]

LEMMA SumsExist ==
  ASSUME NEW S, IsFiniteSet(S), NEW f \in [S -> Nat]
  PROVE  \E g \in [SUBSET S -> Nat] : Sums(f, S, g) /\ Sum(f, S) = g[S]
  <1> DEFINE choose == [t \in SUBSET S |-> Some(t)]
             step   == [p \in S \X Nat |-> f[p[1]] + p[2]]
  <1>1. \A t \in SUBSET S : choose[t] = Some(t) /\ (t # {} => Some(t) \in t)
    BY DEF Some
  <1>2. step \in [S \X Nat -> Nat] /\ \A x \in S, n \in Nat : step[<<x, n>>] = f[x] + n
    OBVIOUS
  <1> HIDE DEF choose, step
  <1>3. PICK h \in [SUBSET S -> Nat] : Folds(S, choose, 0, step, h)
    <2>1. Chooses(S, choose)
      BY <1>1 DEF Chooses
    <2>2. 0 \in Nat /\ step \in [S \X Nat -> Nat]
      BY <1>2
    <2> QED BY <2>1, <2>2, FoldExists
  <1>4. Sums(f, S, h)
    <2>1. \A t \in SUBSET S : t # {} => t \ {Some(t)} \in SUBSET S /\ h[t \ {Some(t)}] \in Nat
      BY <1>1
    <2>2. ASSUME NEW t \in SUBSET S, t # {}
          PROVE  step[<<choose[t], h[t \ {choose[t]}]>>] = f[Some(t)] + h[t \ {Some(t)}]
      <3>1. Some(t) \in S /\ h[t \ {Some(t)}] \in Nat /\ choose[t] = Some(t)
        BY <1>1, <2>1, <2>2
      <3> QED BY <1>2, <3>1
    <2>3. h = [t \in SUBSET S |-> IF t = {} THEN 0
                                 ELSE step[<<choose[t], h[t \ {choose[t]}]>>]]
      BY <1>3 DEF Folds
    <2> QED BY <2>2, <2>3 DEF Sums
  <1> DEFINE g == CHOOSE h0 : h0 = [t \in SUBSET S |->
                     IF t = {} THEN 0 ELSE f[Some(t)] + h0[t \ {Some(t)}]]
  <1>5. Sum(f, S) = g[S]
    BY DEF Sum, MapThenSumSet, MapThenFoldSet, Some
  <1>6. Sums(f, S, g)
    <2>1. h = [t \in SUBSET S |-> IF t = {} THEN 0 ELSE f[Some(t)] + h[t \ {Some(t)}]]
      BY <1>4 DEF Sums
    <2>2. g = [t \in SUBSET S |-> IF t = {} THEN 0 ELSE f[Some(t)] + g[t \ {Some(t)}]]
      BY <2>1
    <2> QED BY <2>2 DEF Sums
  <1> HIDE DEF g
  <1>7. g = h
    <2> DEFINE same == {t \in SUBSET S : g[t] = h[t]}
    <2>1. {} \in same
      BY <1>4, <1>6 DEF Sums
    <2>2. ASSUME NEW t \in SUBSET S, t # {} /\ t \ {choose[t]} \in same
          PROVE  t \in same
      <3>1. /\ choose[t] = Some(t) /\ Some(t) \in t
            /\ g[t \ {Some(t)}] = h[t \ {Some(t)}]
        BY <1>1, <2>2
      <3>2. g[t] = f[Some(t)] + g[t \ {Some(t)}] /\ h[t] = f[Some(t)] + h[t \ {Some(t)}]
        BY <1>4, <1>6, <2>2 DEF Sums
      <3> QED BY <3>1, <3>2
    <2>3. Chooses(S, choose)
      BY <1>1 DEF Chooses
    <2> HIDE DEF same
    <2>6. Inductive(S, choose, same)
      BY <2>1, <2>2 DEF Inductive
    <2>7. IsFiniteSet(S)
      OBVIOUS
    <2>4. SUBSET S \subseteq same
      BY ONLY <2>3, <2>6, <2>7, SubsetInduction
    <2>5. \A t \in SUBSET S : g[t] = h[t]
      BY <2>4 DEF same
    <2> QED BY <1>4, <1>6, <2>5 DEF Sums
  <1> QED BY <1>3, <1>5, <1>6, <1>7

\* The sum over a part is the fold over the whole, at that part.
LEMMA SumOfPart ==
  ASSUME NEW S, IsFiniteSet(S), NEW f \in [S -> Nat],
         NEW g \in [SUBSET S -> Nat], Sums(f, S, g), NEW T \in SUBSET S
  PROVE  Sum(f, T) = g[T]
  <1> DEFINE part   == [x \in T |-> f[x]]
             choose == [t \in SUBSET T |-> Some(t)]
  <1>1. \A t \in SUBSET T : t # {} => Some(t) \in t
    BY DEF Some
  <1>2. IsFiniteSet(T)
    BY FS_Subset
  <1>3. part \in [T -> Nat] /\ \A x \in T : part[x] = f[x]
    OBVIOUS
  <1> HIDE DEF part
  <1>4. Sum(f, T) = (CHOOSE h : h = [t \in SUBSET T |->
                       IF t = {} THEN 0 ELSE f[Some(t)] + h[t \ {Some(t)}]])[T]
    BY DEF Sum, MapThenSumSet, MapThenFoldSet, Some
  <1>5. PICK h \in [SUBSET T -> Nat] : Sums(part, T, h) /\ Sum(part, T) = h[T]
    BY <1>2, <1>3, SumsExist
  <1>6. h = [t \in SUBSET T |-> IF t = {} THEN 0 ELSE f[Some(t)] + h[t \ {Some(t)}]]
    <2>1. h = [t \in SUBSET T |-> IF t = {} THEN 0 ELSE part[Some(t)] + h[t \ {Some(t)}]]
      BY <1>5 DEF Sums
    <2>2. \A t \in SUBSET T : t # {} => part[Some(t)] = f[Some(t)]
      BY <1>1, <1>3
    <2> QED BY <2>1, <2>2
  <1> DEFINE q == CHOOSE h0 : h0 = [t \in SUBSET T |->
                     IF t = {} THEN 0 ELSE f[Some(t)] + h0[t \ {Some(t)}]]
  <1>7. q = [t \in SUBSET T |-> IF t = {} THEN 0 ELSE f[Some(t)] + q[t \ {Some(t)}]]
    BY <1>6
  <1>8. Sum(f, T) = q[T]
    BY <1>4
  <1> HIDE DEF q
  <1> DEFINE same == {t \in SUBSET T : q[t] = g[t]}
  <1>9. \A t \in SUBSET T : choose[t] = Some(t) /\ (t # {} => choose[t] \in t)
    BY <1>1
  <1> HIDE DEF choose
  <1>10. {} \in same
    BY <1>7 DEF Sums
  <1>11. ASSUME NEW t \in SUBSET T, t # {} /\ t \ {choose[t]} \in same
         PROVE  t \in same
    <2>1. choose[t] = Some(t) /\ Some(t) \in t
      BY <1>9, <1>11
    <2>4. q[t \ {Some(t)}] = g[t \ {Some(t)}]
      BY <1>11, <2>1
    <2>2. t \in SUBSET S
      OBVIOUS
    <2>3. q[t] = f[Some(t)] + q[t \ {Some(t)}] /\ g[t] = f[Some(t)] + g[t \ {Some(t)}]
      BY <1>7, <1>11, <2>2 DEF Sums
    <2> QED BY <2>3, <2>4
  <1>12. SUBSET T \subseteq same
    <2> HIDE DEF same
    <2>1. Chooses(T, choose)
      BY <1>9 DEF Chooses
    <2>2. Inductive(T, choose, same)
      BY <1>10, <1>11 DEF Inductive
    <2> QED BY <1>2, <2>1, <2>2, SubsetInduction
  <1>13. q[T] = g[T]
    BY <1>12
  <1> QED BY <1>8, <1>13

\* Whichever element is taken first, the rest adds up to the same.
LEMMA SumsAnyOrder ==
  ASSUME NEW S, IsFiniteSet(S), NEW f \in [S -> Nat],
         NEW g \in [SUBSET S -> Nat], Sums(f, S, g)
  PROVE  \A T \in SUBSET S : \A x \in T : g[T] = f[x] + g[T \ {x}]
  <1> DEFINE Splits(T) == \A x \in T : g[T] = f[x] + g[T \ {x}]
             good == {k \in Nat : \A T \in SUBSET S : Cardinality(T) <= k => Splits(T)}
  <1>1. \A T \in SUBSET S : IsFiniteSet(T) /\ Cardinality(T) \in Nat
                            /\ (Cardinality(T) = 0 <=> T = {})
    BY FS_Subset, FS_CardinalityType, FS_EmptySet
  <1>2. \A T \in SUBSET S : \A x \in T : Cardinality(T \ {x}) = Cardinality(T) - 1
    BY <1>1, FS_RemoveElement
  <1>3. 0 \in good
    <2>1. \A T \in SUBSET S : Cardinality(T) <= 0 => T = {}
      BY <1>1
    <2> QED BY <2>1
  <1>4. ASSUME NEW k \in Nat, k \in good PROVE k + 1 \in good
    <2> SUFFICES ASSUME NEW T \in SUBSET S, Cardinality(T) <= k + 1, NEW x \in T
                 PROVE  g[T] = f[x] + g[T \ {x}]
      OBVIOUS
    <2> DEFINE c == Some(T)
    <2>1. c \in T /\ g[T] = f[c] + g[T \ {c}]
      BY DEF Some, Sums
    <2> HIDE DEF c
    <2>2. CASE x = c
      <3>1. f[x] = f[c] /\ T \ {x} = T \ {c}
        BY <2>2
      <3>2. g[T] = f[c] + g[T \ {c}]
        BY <2>1
      <3> QED BY ONLY <3>1, <3>2
    <2>3. CASE x # c
      <3>1. /\ T \ {c} \in SUBSET S /\ T \ {x} \in SUBSET S
            /\ x \in T \ {c} /\ c \in T \ {x}
            /\ (T \ {c}) \ {x} = (T \ {x}) \ {c}
            /\ (T \ {c}) \ {x} \in SUBSET S
        BY <2>1, <2>3
      <3>2. Cardinality(T \ {c}) <= k /\ Cardinality(T \ {x}) <= k
        BY <1>1, <1>2, <2>1
      <3>3. Splits(T \ {c}) /\ Splits(T \ {x})
        <4> HIDE DEF Splits
        <4> QED BY <1>4, <3>1, <3>2
      <3>4. /\ g[T \ {c}] = f[x] + g[(T \ {c}) \ {x}]
            /\ g[T \ {x}] = f[c] + g[(T \ {x}) \ {c}]
        BY <3>1, <3>3
      <3>5. f[c] \in Nat /\ f[x] \in Nat /\ g[(T \ {c}) \ {x}] \in Nat
        BY <2>1, <3>1
      <3>6. \A u, v, r \in Nat : u + (v + r) = v + (u + r)
        OBVIOUS
      <3>7. g[T] = f[c] + (f[x] + g[(T \ {c}) \ {x}])
        BY <2>1, <3>4
      <3>8. g[T] = f[x] + (f[c] + g[(T \ {c}) \ {x}])
        BY <3>5, <3>6, <3>7
      <3> QED BY <3>1, <3>4, <3>8
    <2> QED BY <2>2, <2>3
  <1>5. Cardinality(S) \in Nat
    BY <1>1
  <1>6. 0..Cardinality(S) \subseteq good
    <2>1. \A k \in 0..(Cardinality(S) - 1) : k \in good => k + 1 \in good
      <3> HIDE DEF good
      <3> QED BY <1>4, <1>5
    <2> HIDE DEF good
    <2> QED BY <1>3, <1>5, <2>1, CountUp
  <1>7. \A T \in SUBSET S : Cardinality(T) <= Cardinality(S)
    BY FS_Subset
  <1>8. Cardinality(S) \in good
    BY <1>5, <1>6
  <1> QED BY <1>7, <1>8

LEMMA SumOfMore ==
  ASSUME NEW S, IsFiniteSet(S), NEW f \in [S -> Nat]
  PROVE  /\ Sum(f, {}) = 0
         /\ \A T \in SUBSET S : Sum(f, T) \in Nat
         /\ \A T \in SUBSET S, x \in S : x \notin T => Sum(f, T \cup {x}) = Sum(f, T) + f[x]
  <1>1. PICK g \in [SUBSET S -> Nat] : Sums(f, S, g)
    BY SumsExist
  <1>2. \A T \in SUBSET S : Sum(f, T) = g[T]
    BY <1>1, SumOfPart
  <1>3. g[{}] = 0
    BY <1>1 DEF Sums
  <1>4. ASSUME NEW T \in SUBSET S, NEW x \in S, x \notin T
        PROVE  Sum(f, T \cup {x}) = Sum(f, T) + f[x]
    <2>1. T \cup {x} \in SUBSET S /\ x \in T \cup {x} /\ (T \cup {x}) \ {x} = T
      BY <1>4
    <2>2. g[T \cup {x}] = f[x] + g[(T \cup {x}) \ {x}]
      BY <1>1, <2>1, SumsAnyOrder
    <2>3. g[T] \in Nat /\ f[x] \in Nat
      OBVIOUS
    <2>4. Sum(f, T \cup {x}) = g[T \cup {x}] /\ Sum(f, T) = g[T]
      BY <1>2, <2>1
    <2>5. g[T \cup {x}] = f[x] + g[T]
      BY <2>1, <2>2
    <2> QED BY <2>3, <2>4, <2>5
  <1> QED BY <1>2, <1>3, <1>4
=============================================================================
