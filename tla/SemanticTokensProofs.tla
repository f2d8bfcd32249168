------------------------- MODULE SemanticTokensProofs -------------------------
(***************************************************************************)
(* Theorems about SemanticTokens, for every set of documents and texts, any *)
(* legends and meanings, any number of tokens, and servers of every encoding *)
(* and convention.                                                         *)
(*                                                                         *)
(* First TextCoordinates is read: what its sums, ranks and searches are, and *)
(* that the mapper undoes what a server counts.  Then the tokens of one      *)
(* document are followed, group by group, into a row and out of it again,    *)
(* and the legends from one to the next.                                    *)
(***************************************************************************)
EXTENDS SemanticTokens, FoldProofs

(***************************************************************************)
(* Sets of numbers in order                                                *)
(***************************************************************************)
\* How many are up to a number: none at first, and one more at each element.
Counts(S) ==
    /\ \A n \in Nat : Rank(S, n) \in Nat
    /\ \A n \in Nat : Rank(S, n + 1) = Rank(S, n) + (IF n + 1 \in S THEN 1 ELSE 0)
    /\ \A m, n \in Nat : m <= n => Rank(S, m) <= Rank(S, n)
    /\ \A m \in Nat, n \in S : m < n => Rank(S, m) < Rank(S, n)
    /\ \A n \in Nat : Rank(S, n) <= Cardinality(S)
    /\ \A n \in Nat : (\A m \in S : n < m) => Rank(S, n) = 0
    /\ \A n \in Nat : (\A m \in S : m <= n) => Rank(S, n) = Cardinality(S)
    /\ Cardinality(S) \in Nat

LEMMA RankCounts ==
  ASSUME NEW S, \A x \in S : x \in Nat, IsFiniteSet(S)
  PROVE  Counts(S)
  <1>0. \A m \in S : m \in Nat
    OBVIOUS
  <1> DEFINE Upto(n) == {m \in S : m <= n}
  <1>1. \A n \in Nat : IsFiniteSet(Upto(n)) /\ Rank(S, n) \in Nat /\ Rank(S, n) <= Cardinality(S)
    BY FS_Subset, FS_CardinalityType DEF Rank
  <1>2. ASSUME NEW n \in Nat
        PROVE  Rank(S, n + 1) = Rank(S, n) + (IF n + 1 \in S THEN 1 ELSE 0)
    <2>1. CASE n + 1 \in S
      <3>1. Upto(n + 1) = Upto(n) \cup {n + 1} /\ n + 1 \notin Upto(n)
        BY <1>0, <2>1
      <3>2. Cardinality(Upto(n) \cup {n + 1}) = Cardinality(Upto(n)) + 1
        <4> HIDE DEF Upto
        <4> QED BY <1>1, <3>1, FS_AddElement
      <3> QED BY <2>1, <3>1, <3>2 DEF Rank
    <2>2. CASE n + 1 \notin S
      <3>1. Upto(n + 1) = Upto(n)
        BY <1>0, <2>2
      <3> QED BY <1>1, <2>2, <3>1 DEF Rank
    <2> QED BY <2>1, <2>2
  <1>3. ASSUME NEW m \in Nat, NEW n \in Nat, m <= n PROVE Rank(S, m) <= Rank(S, n)
    <2>1. Upto(m) \in SUBSET Upto(n)
      BY <1>0, <1>3
    <2> QED BY <1>1, <2>1, FS_Subset DEF Rank
  <1>4. ASSUME NEW m \in Nat, NEW n \in S, m < n PROVE Rank(S, m) < Rank(S, n)
    <2>1. n \in Nat /\ n - 1 \in Nat /\ (n - 1) + 1 = n
      BY <1>0, <1>4
    <2>2. Rank(S, n) = Rank(S, n - 1) + 1
      BY <1>2, <2>1
    <2>3. Rank(S, m) <= Rank(S, n - 1)
      BY <1>3, <1>4, <2>1
    <2>4. Rank(S, m) \in Nat /\ Rank(S, n - 1) \in Nat
      BY <1>1, <2>1
    <2> QED BY <2>2, <2>3, <2>4
  <1>5. ASSUME NEW n \in Nat, \A m \in S : n < m PROVE Rank(S, n) = 0
    <2>1. Upto(n) = {}
      BY <1>0, <1>5
    <2> QED BY <2>1, FS_EmptySet DEF Rank
  <1>6. ASSUME NEW n \in Nat, \A m \in S : m <= n PROVE Rank(S, n) = Cardinality(S)
    <2>1. Upto(n) = S
      BY <1>6
    <2> QED BY <2>1 DEF Rank
  <1>7. Cardinality(S) \in Nat
    BY FS_CardinalityType
  <1> QED BY <1>1, <1>2, <1>3, <1>4, <1>5, <1>6, <1>7 DEF Counts

\* The k-th element is the one up to which there are k.
Enumerates(S) ==
    /\ \A n \in S : Rank(S, n) \in 1..Cardinality(S) /\ Ascending(S)[Rank(S, n)] = n
    /\ \A k \in 1..Cardinality(S) : Ascending(S)[k] \in S /\ Rank(S, Ascending(S)[k]) = k
    /\ DOMAIN Ascending(S) = 1..Cardinality(S)
    /\ Len(Ascending(S)) = Cardinality(S)
    /\ Ascending(S) \in Seq(S)

LEMMA AscendingEnumerates ==
  ASSUME NEW S, \A x \in S : x \in Nat, IsFiniteSet(S)
  PROVE  Enumerates(S)
  <1>1. Counts(S)
    BY RankCounts
  <1>2. PICK size \in Nat : size = Cardinality(S)
    BY <1>1 DEF Counts
  <1>3. \A m, n \in S : m # n => Rank(S, m) # Rank(S, n)
    <2> SUFFICES ASSUME NEW m \in S, NEW n \in S, m < n PROVE Rank(S, m) < Rank(S, n)
      <3>1. \A m, n \in S : m < n => Rank(S, m) < Rank(S, n)
        OBVIOUS
      <3>2. \A m, n \in S : m < n \/ n < m \/ m = n
        OBVIOUS
      <3>3. \A m \in S : Rank(S, m) \in Nat
        BY <1>1 DEF Counts
      <3> QED BY <3>1, <3>2, <3>3
    <2> QED BY <1>1 DEF Counts
  <1>4. \A n \in S : Rank(S, n) \in 1..size
    <2> TAKE n \in S
    <2>1. n \in Nat /\ Rank(S, n) \in Nat /\ Rank(S, n) <= size
      BY <1>1, <1>2 DEF Counts
    <2>2. Rank(S, n) # 0
      <3>1. CASE n = 0
        <4>1. n \in {m \in S : m <= n}
          BY <2>1
        <4>2. IsFiniteSet({m \in S : m <= n})
          BY FS_Subset
        <4> QED BY <4>1, <4>2, FS_EmptySet DEF Rank
      <3>2. CASE n # 0
        <4>1. Rank(S, 0) < Rank(S, n) /\ Rank(S, 0) \in Nat
          BY <1>1, <2>1, <3>2 DEF Counts
        <4> QED BY <4>1
      <3> QED BY <3>1, <3>2
    <2> QED BY <2>1, <2>2
  <1> DEFINE rank == [n \in S |-> Rank(S, n)]
  <1>5. rank \in Surjection(S, 1..size)
    <2>1. rank \in Injection(S, 1..size)
      BY <1>3, <1>4 DEF Injection, IsInjective
    <2>2. IsFiniteSet(1..size) /\ Cardinality(1..size) = size
      <3>1. 1 \in Int /\ size \in Int
        OBVIOUS
      <3> QED BY <3>1, FS_Interval
    <2> HIDE DEF rank
    <2> QED BY <1>2, <2>1, <2>2, FS_Injection
  <1>6. \A k \in 1..size : \E n \in S : Rank(S, n) = k
    BY <1>5 DEF Surjection
  <1>7. \A k \in 1..size : Ascending(S)[k] = CHOOSE n \in S : Rank(S, n) = k
    BY <1>2 DEF Ascending
  <1>8. \A k \in 1..size : Ascending(S)[k] \in S /\ Rank(S, Ascending(S)[k]) = k
    BY <1>6, <1>7
  <1>9. \A n \in S : Ascending(S)[Rank(S, n)] = n
    BY <1>3, <1>4, <1>8
  <1>10. DOMAIN Ascending(S) = 1..size
    BY <1>2 DEF Ascending
  <1>11. Ascending(S) \in [1..size -> S]
    BY <1>8, <1>10, <1>2 DEF Ascending
  <1>12. Ascending(S) \in Seq(S) /\ Len(Ascending(S)) = size
    BY <1>11, <1>10
  <1> QED BY <1>2, <1>4, <1>8, <1>9, <1>10, <1>12 DEF Enumerates

\* Among numbers, the greatest that is not greater than a number.
Floor(S, n) == Max({m \in S : m <= n} \cup {0})

LEMMA FloorIs ==
  ASSUME NEW S, \A x \in S : x \in Nat, IsFiniteSet(S), NEW n \in Nat
  PROVE  /\ Floor(S, n) \in Nat /\ Floor(S, n) <= n
         /\ Floor(S, n) \in S \cup {0}
         /\ \A m \in S : m <= n => m <= Floor(S, n)
  <1> DEFINE upto == {m \in S : m <= n} \cup {0}
  <1>0. \A m \in S : m \in Nat
    OBVIOUS
  <1>1. upto \in SUBSET Nat /\ upto # {}
    BY <1>0
  <1>2. IsFiniteSet(upto)
    <2>1. IsFiniteSet({m \in S : m <= n})
      BY FS_Subset
    <2> QED BY <2>1, FS_AddElement
  <1>3. Max(upto) \in upto /\ \A x \in upto : x <= Max(upto)
    <2> HIDE DEF upto
    <2> QED BY <1>1, <1>2, Greatest
  <1>4. Floor(S, n) = Max(upto)
    BY DEF Floor
  <1> QED BY <1>0, <1>3, <1>4

-----------------------------------------------------------------------------
(***************************************************************************)
(* Lines                                                                   *)
(***************************************************************************)
Halfway(range) == (range[1] + range[2]) \div 2

Searches(offset, starts, g) ==
    g = [range \in (0..Len(starts)) \X (0..Len(starts)) |->
           IF range[1] + 1 >= range[2] THEN range[1]
           ELSE IF starts[Halfway(range) + 1] <= offset THEN g[<<Halfway(range), range[2]>>]
           ELSE g[<<range[1], Halfway(range)>>]]

\* The search ends at the last line that does not start behind the offset.
LEMMA LastLine ==
  ASSUME NEW size \in Nat, NEW starts, Len(starts) = size + 1, NEW offset,
         NEW last \in 0..size,
         \A k \in 0..size : starts[k + 1] <= offset <=> k <= last
  PROVE  lineAtOffset(offset, starts) = last
  <1> DEFINE pairs == (0..(size + 1)) \X (0..(size + 1))
             Clamp(low, high) == IF low + 1 >= high THEN low
                                 ELSE IF last <= low THEN low
                                 ELSE IF last >= high THEN high - 1 ELSE last
             f == [range \in pairs |-> Clamp(range[1], range[2])]
  <1>1. ASSUME NEW low \in 0..(size + 1), NEW high \in 0..(size + 1), low + 1 < high
        PROVE  /\ Halfway(<<low, high>>) \in 1..size
               /\ low < Halfway(<<low, high>>) /\ Halfway(<<low, high>>) < high
    <2>1. (low + high) \div 2 \in Nat /\ low < (low + high) \div 2 /\ (low + high) \div 2 < high
      BY <1>1
    <2> QED BY <2>1 DEF Halfway
  <1>2. ASSUME NEW low \in 0..(size + 1), NEW high \in 0..(size + 1), low + 1 < high,
               NEW middle \in 1..size, low < middle, middle < high
        PROVE  Clamp(low, high) = IF starts[middle + 1] <= offset THEN Clamp(middle, high)
                                  ELSE Clamp(low, middle)
    <2>1. starts[middle + 1] <= offset <=> middle <= last
      <3>1. middle \in 0..size
        OBVIOUS
      <3> QED BY <3>1
    <2>2. CASE middle <= last
      <3>1. Clamp(low, high) = Clamp(middle, high)
        BY <1>2, <2>2
      <3> QED BY <2>1, <2>2, <3>1
    <2>3. CASE ~ (middle <= last)
      <3>1. Clamp(low, high) = Clamp(low, middle)
        BY <1>2, <2>3
      <3> QED BY <2>1, <2>3, <3>1
    <2> QED BY <2>2, <2>3
  <1>3. \A low, high \in 0..(size + 1) : f[<<low, high>>] = Clamp(low, high)
    <2> HIDE DEF Clamp
    <2> QED OBVIOUS
  <1>4. Searches(offset, starts, f)
    <2> DEFINE Step(range) ==
           IF range[1] + 1 >= range[2] THEN range[1]
           ELSE IF starts[Halfway(range) + 1] <= offset THEN f[<<Halfway(range), range[2]>>]
           ELSE f[<<range[1], Halfway(range)>>]
    <2>1. ASSUME NEW low \in 0..(size + 1), NEW high \in 0..(size + 1)
          PROVE  Clamp(low, high) = Step(<<low, high>>)
      <3> DEFINE middle == Halfway(<<low, high>>)
      <3>1. CASE low + 1 >= high
        <4>1. Clamp(low, high) = low
          BY <3>1
        <4>2. Step(<<low, high>>) = low
          BY <3>1
        <4> QED BY <4>1, <4>2
      <3>2. CASE ~ (low + 1 >= high)
        <4>1. middle \in 1..size /\ low < middle /\ middle < high /\ low + 1 < high
          BY <1>1, <3>2
        <4>2. Step(<<low, high>>) = IF starts[middle + 1] <= offset THEN f[<<middle, high>>]
                                    ELSE f[<<low, middle>>]
          BY <3>2
        <4> HIDE DEF middle, Step, f, Clamp
        <4>3. middle \in 0..(size + 1)
          BY <4>1
        <4>4. f[<<middle, high>>] = Clamp(middle, high) /\ f[<<low, middle>>] = Clamp(low, middle)
          BY <1>3, <4>3
        <4>5. Clamp(low, high) = IF starts[middle + 1] <= offset THEN Clamp(middle, high)
                                 ELSE Clamp(low, middle)
          BY <1>2, <4>1
        <4> QED BY <4>2, <4>4, <4>5
      <3> QED BY <3>1, <3>2
    <2>2. \A range \in pairs : range = <<range[1], range[2]>>
                              /\ range[1] \in 0..(size + 1) /\ range[2] \in 0..(size + 1)
      OBVIOUS
    <2> HIDE DEF Clamp, Step
    <2>3. \A range \in pairs : Clamp(range[1], range[2]) = Step(range)
      BY <2>1, <2>2
    <2>4. f = [range \in pairs |-> Step(range)]
      <3> HIDE DEF pairs
      <3> QED BY <2>3
    <2> QED BY <2>4 DEF Searches, Step
  <1>5. PICK g : Searches(offset, starts, g) /\ lineAtOffset(offset, starts) = g[<<0, Len(starts)>>]
    <2> HIDE DEF f
    <2> QED BY <1>4 DEF lineAtOffset, Searches, Halfway
  <1>6. ASSUME NEW low \in 0..(size + 1), NEW high \in 0..(size + 1)
        PROVE  g[<<low, high>>] =
                 IF low + 1 >= high THEN low
                 ELSE IF starts[Halfway(<<low, high>>) + 1] <= offset
                        THEN g[<<Halfway(<<low, high>>), high>>]
                 ELSE g[<<low, Halfway(<<low, high>>)>>]
    <2>1. <<low, high>> \in (0..Len(starts)) \X (0..Len(starts))
      OBVIOUS
    <2> QED BY <1>5, <2>1 DEF Searches
  <1> DEFINE good == {k \in Nat : \A low, high \in 0..(size + 1) :
                        high - low <= k => g[<<low, high>>] = Clamp(low, high)}
  <1>7. 0 \in good
    <2>1. ASSUME NEW low \in 0..(size + 1), NEW high \in 0..(size + 1), high - low <= 0
          PROVE  g[<<low, high>>] = Clamp(low, high)
      <3>1. low + 1 >= high
        BY <2>1
      <3> QED BY <1>6, <3>1
    <2> HIDE DEF Clamp
    <2> QED BY <2>1
  <1>8. ASSUME NEW k \in Nat, k \in good PROVE k + 1 \in good
    <2>1. ASSUME NEW low \in 0..(size + 1), NEW high \in 0..(size + 1), high - low <= k + 1
          PROVE  g[<<low, high>>] = Clamp(low, high)
      <3>1. CASE low + 1 >= high
        BY <1>6, <3>1
      <3>2. CASE ~ (low + 1 >= high)
        <4>1. PICK middle \in 1..size : middle = Halfway(<<low, high>>)
                                        /\ low < middle /\ middle < high /\ low + 1 < high
          BY <1>1, <3>2
        <4>2. middle \in 0..(size + 1) /\ high - middle <= k /\ middle - low <= k
          BY <2>1, <4>1
        <4> HIDE DEF Clamp
        <4>3. g[<<middle, high>>] = Clamp(middle, high) /\ g[<<low, middle>>] = Clamp(low, middle)
          BY <1>8, <4>2
        <4>4. Clamp(low, high) = IF starts[middle + 1] <= offset THEN Clamp(middle, high)
                                 ELSE Clamp(low, middle)
          BY <1>2, <4>1
        <4>5. g[<<low, high>>] = IF starts[middle + 1] <= offset THEN g[<<middle, high>>]
                                 ELSE g[<<low, middle>>]
          BY <1>6, <3>2, <4>1
        <4> QED BY <4>3, <4>4, <4>5
      <3> QED BY <3>1, <3>2
    <2> HIDE DEF Clamp
    <2> QED BY <2>1
  <1>9. 0..(size + 1) \subseteq good
    <2>1. size + 1 \in Nat /\ \A k \in 0..((size + 1) - 1) : k \in good => k + 1 \in good
      <3> HIDE DEF good
      <3> QED BY <1>8
    <2> HIDE DEF good
    <2> QED BY <1>7, <2>1, CountUp
  <1>10. g[<<0, size + 1>>] = Clamp(0, size + 1)
    <2>1. size + 1 \in good /\ 0 \in 0..(size + 1) /\ size + 1 \in 0..(size + 1)
      BY <1>9
    <2> HIDE DEF Clamp
    <2> QED BY <2>1
  <1>11. Clamp(0, size + 1) = last
    OBVIOUS
  <1> QED BY <1>5, <1>10, <1>11

\* The line of an offset is how many breaks are before it, and it starts behind
\* the last of them; it ends before the next.
HasLines(content, unicode) ==
    LET breaks == Breaks(content, unicode)
        starts == lineStarts(content, unicode)
        ends   == lineEnds(content, unicode)
    IN  /\ breaks \subseteq 1..Len(content) /\ IsFiniteSet(breaks)
        /\ Len(starts) = Cardinality(breaks) + 1
        /\ \A o \in 0..Len(content) :
              /\ Rank(breaks, o) \in 0..Cardinality(breaks)
              /\ lineAtOffset(o, starts) = Rank(breaks, o)
              /\ starts[Rank(breaks, o) + 1] = Floor(breaks, o)
              /\ ends[Rank(breaks, o) + 1] \in o..Len(content)
              /\ \/ ends[Rank(breaks, o) + 1] = Len(content) /\ \A b \in breaks : b <= o
                 \/ \E b \in breaks : /\ b > o /\ ends[Rank(breaks, o) + 1] = b - 1
                                      /\ \A other \in breaks : other > o => b <= other

LEMMA Lines ==
  ASSUME NEW content \in Seq(Units), NEW unicode \in BOOLEAN
  PROVE  HasLines(content, unicode)
  <1> DEFINE breaks == Breaks(content, unicode)
             starts == lineStarts(content, unicode)
             ends   == lineEnds(content, unicode)
  <1>0. breaks \subseteq 1..Len(content)
    BY DEF Breaks
  <1>1. \A b \in breaks : b \in Nat /\ b > 0
    BY DEF Breaks
  <1> HIDE DEF breaks
  <1>2. IsFiniteSet(breaks)
    <2>1. IsFiniteSet(1..Len(content))
      <3>1. 1 \in Int /\ Len(content) \in Int
        OBVIOUS
      <3> QED BY <3>1, FS_Interval
    <2> QED BY <1>0, <2>1, FS_Subset
  <1>3. Counts(breaks)
    BY <1>1, <1>2, RankCounts
  <1>4. Enumerates(breaks)
    BY <1>1, <1>2, AscendingEnumerates
  <1>5. PICK size \in Nat : size = Cardinality(breaks)
    BY <1>3 DEF Counts
  <1>6. PICK at : /\ at = Ascending(breaks) /\ DOMAIN at = 1..size /\ Len(at) = size
                  /\ \A k \in 1..size : at[k] \in breaks
    BY <1>4, <1>5 DEF Enumerates
  <1>6a. /\ \A k \in 1..size : at[k] \in Nat /\ at[k] > 0
         /\ at \in Seq(Nat)
    <2>1. \A k \in 1..size : at[k] \in Nat /\ at[k] > 0
      BY <1>1, <1>6
    <2>2. at = [k \in 1..size |-> at[k]]
      BY <1>6 DEF Ascending
    <2>3. at \in [1..size -> Nat]
      BY <2>1, <2>2
    <2> QED BY <2>1, <2>3
  <1>7. /\ \A n \in breaks : Rank(breaks, n) \in 1..size /\ at[Rank(breaks, n)] = n
        /\ \A k \in 1..size : Rank(breaks, at[k]) = k
    BY <1>4, <1>5, <1>6 DEF Enumerates
  <1>8. starts = <<0>> \o at /\ at \in Seq(Nat) /\ Len(at) = size
    BY <1>6, <1>6a DEF lineStarts, breaks
  <1>9. Len(starts) = size + 1 /\ \A k \in 0..size : starts[k + 1] = IF k = 0 THEN 0 ELSE at[k]
    <2> HIDE DEF starts
    <2> QED BY <1>8
  <1>10. ends = Append([i \in DOMAIN at |-> at[i] - 1], Len(content))
    BY <1>6 DEF lineEnds, breaks
  <1>11. \A k \in 0..size : ends[k + 1] = IF k = size THEN Len(content) ELSE at[k + 1] - 1
    <2> DEFINE before == [i \in 1..size |-> at[i] - 1]
    <2>1. ends = Append(before, Len(content))
      BY <1>6, <1>10
    <2>2. before \in Seq(Int) /\ Len(before) = size
      <3>1. \A i \in 1..size : at[i] - 1 \in Int
        BY <1>6a
      <3>2. before \in [1..size -> Int]
        BY <3>1
      <3> HIDE DEF before
      <3> QED BY <3>2
    <2>3. \A i \in 1..size : before[i] = at[i] - 1
      OBVIOUS
    <2> HIDE DEF ends, before
    <2> QED BY <2>1, <2>2, <2>3
  <1> HIDE DEF starts, ends
  <1>12. ASSUME NEW o \in 0..Len(content)
         PROVE  /\ Rank(breaks, o) \in 0..size
                /\ lineAtOffset(o, starts) = Rank(breaks, o)
                /\ starts[Rank(breaks, o) + 1] = Floor(breaks, o)
                /\ ends[Rank(breaks, o) + 1] \in o..Len(content)
                /\ \/ ends[Rank(breaks, o) + 1] = Len(content) /\ \A b \in breaks : b <= o
                   \/ \E b \in breaks : /\ b > o /\ ends[Rank(breaks, o) + 1] = b - 1
                                        /\ \A other \in breaks : other > o => b <= other
    <2>1. PICK line \in 0..size : line = Rank(breaks, o)
      <3>1. o \in Nat
        OBVIOUS
      <3> QED BY <1>3, <1>5, <3>1 DEF Counts
    <2>2. ASSUME NEW k \in 1..size PROVE at[k] <= o <=> k <= line
      <3>1. at[k] \in breaks /\ at[k] \in Nat /\ o \in Nat /\ Rank(breaks, at[k]) = k
        BY <1>6, <1>6a, <1>7
      <3>2. at[k] <= o => Rank(breaks, at[k]) <= Rank(breaks, o)
        BY <1>3, <3>1 DEF Counts
      <3>3. o < at[k] => Rank(breaks, o) < Rank(breaks, at[k])
        BY <1>3, <3>1 DEF Counts
      <3> QED BY <2>1, <3>1, <3>2, <3>3
    <2>3. \A k \in 0..size : starts[k + 1] <= o <=> k <= line
      <3> TAKE k \in 0..size
      <3>1. CASE k = 0
        BY <1>9, <3>1
      <3>2. CASE k # 0
        <4>1. k \in 1..size /\ starts[k + 1] = at[k]
          BY <1>9, <3>2
        <4> QED BY <2>2, <4>1
      <3> QED BY <3>1, <3>2
    <2>4. lineAtOffset(o, starts) = line
      BY <1>9, <2>3, LastLine
    <2>5. starts[line + 1] = Floor(breaks, o)
      <3>1. o \in Nat
        OBVIOUS
      <3>2. /\ Floor(breaks, o) \in Nat /\ Floor(breaks, o) <= o
            /\ Floor(breaks, o) \in breaks \cup {0}
            /\ \A m \in breaks : m <= o => m <= Floor(breaks, o)
        BY <1>1, <1>2, <3>1, FloorIs
      <3>3. CASE line = 0
        <4>1. \A m \in breaks : ~ (m <= o)
          <5> TAKE m \in breaks
          <5>1. Rank(breaks, m) \in 1..size /\ at[Rank(breaks, m)] = m
            BY <1>7
          <5> QED BY <2>2, <3>3, <5>1
        <4>2. Floor(breaks, o) = 0
          BY <3>2, <4>1
        <4> QED BY <1>9, <3>3, <4>2
      <3>4. CASE line # 0
        <4>1. line \in 1..size /\ starts[line + 1] = at[line]
          BY <1>9, <3>4
        <4>2. at[line] \in breaks /\ at[line] <= o /\ at[line] \in Nat /\ at[line] > 0
          <5>1. line <= line
            OBVIOUS
          <5> QED BY <1>6, <1>6a, <2>2, <4>1, <5>1
        <4>3. Floor(breaks, o) \in breaks
          BY <3>2, <4>2
        <4>4. PICK k \in 1..size : at[k] = Floor(breaks, o) /\ Rank(breaks, Floor(breaks, o)) = k
          BY <1>7, <4>3
        <4>5. k <= line
          BY <2>2, <3>2, <4>4
        <4>6. ~ (at[line] < at[k])
          <5>1. at[k] \in breaks /\ Rank(breaks, at[k]) = k /\ Rank(breaks, at[line]) = line
            BY <1>7, <4>1, <4>3, <4>4
          <5>2. at[line] < at[k] => line < k
            BY <1>3, <4>2, <5>1 DEF Counts
          <5> QED BY <4>5, <5>2
        <4>7. at[line] <= at[k]
          BY <3>2, <4>2, <4>4
        <4> QED BY <3>2, <4>1, <4>2, <4>4, <4>6, <4>7
      <3> QED BY <3>3, <3>4
    <2>6. CASE line = size
      <3>1. ends[line + 1] = Len(content)
        BY <1>11, <2>6
      <3>2. \A b \in breaks : b <= o
        <4> TAKE b \in breaks
        <4>1. Rank(breaks, b) \in 1..size /\ at[Rank(breaks, b)] = b
          BY <1>7
        <4> QED BY <2>2, <2>6, <4>1
      <3>3. ends[line + 1] \in o..Len(content)
        BY <3>1
      <3> QED BY <2>1, <2>4, <2>5, <3>1, <3>2, <3>3
    <2>7. CASE line # size
      <3>1. line + 1 \in 1..size /\ ends[line + 1] = at[line + 1] - 1
        BY <1>11, <2>7
      <3>2. PICK b \in breaks : b = at[line + 1]
        BY <1>6, <3>1
      <3>3. b > o
        <4>1. ~ (at[line + 1] <= o)
          BY <2>2, <3>1
        <4> QED BY <1>1, <3>2, <4>1
      <3>4. ASSUME NEW other \in breaks, other > o PROVE b <= other
        <4>1. PICK k \in 1..size : k = Rank(breaks, other) /\ at[k] = other
          BY <1>7
        <4>2. ~ (k <= line)
          BY <1>1, <2>2, <3>4, <4>1
        <4>3. Rank(breaks, b) = line + 1
          BY <1>7, <3>1, <3>2
        <4>4. other < b => Rank(breaks, other) < Rank(breaks, b)
          BY <1>1, <1>3 DEF Counts
        <4> QED BY <1>1, <4>1, <4>2, <4>3, <4>4
      <3>5. ends[line + 1] \in o..Len(content)
        <4>1. b <= Len(content) /\ b \in Nat /\ Len(content) \in Nat
          BY <1>0, <1>1
        <4> QED BY <3>1, <3>2, <3>3, <4>1
      <3>6. ends[line + 1] = b - 1
        BY <3>1, <3>2
      <3> QED BY <2>1, <2>4, <2>5, <3>3, <3>4, <3>5, <3>6
    <2> QED BY <2>6, <2>7
  <1>13. HasLines(content, unicode)
    BY <1>0, <1>2, <1>5, <1>9, <1>12 DEF HasLines, breaks, starts, ends
  <1> QED BY <1>13

-----------------------------------------------------------------------------
(***************************************************************************)
(* Widths                                                                  *)
(***************************************************************************)
\* How wide a text is up to each of its offsets.
Measures(content, encoding, upto) ==
    /\ upto \in [0..Len(content) -> Nat] /\ upto[0] = 0
    /\ \A o \in 0..(Len(content) - 1) :
          upto[o + 1] = upto[o] + Size(encoding, content[o + 1])
    /\ \A a, b \in 0..Len(content) :
          a <= b => Width(content, encoding, a, b) = upto[b] - upto[a]

\* Only the second half of a character adds nothing.
LEMMA SizeIs ==
  ASSUME NEW encoding \in PositionEncodings, NEW unit \in Units
  PROVE  /\ Size(encoding, unit) \in 0..4
         /\ Size(encoding, unit) = 0 => unit = "low" /\ encoding # "utf-16"
         /\ encoding = "utf-16" => Size(encoding, unit) = 1
  BY DEF PositionEncodings, Units, Size

LEMMA WidthsMeasure ==
  ASSUME NEW content \in Seq(Units), NEW encoding \in PositionEncodings
  PROVE  \E upto : Measures(content, encoding, upto)
  <1> DEFINE sizes == [i \in DOMAIN content |-> Size(encoding, content[i])]
  <1>1. PICK n \in Nat : n = Len(content) /\ DOMAIN content = 1..n
    OBVIOUS
  <1>2. \A i \in 1..n : sizes[i] = Size(encoding, content[i]) /\ sizes[i] \in Nat
    <2> TAKE i \in 1..n
    <2>1. content[i] \in Units
      BY <1>1
    <2> QED BY <1>1, <2>1, SizeIs
  <1>3. sizes \in [1..n -> Nat]
    BY <1>1, <1>2
  <1>4. \A a, b \in 0..n : Width(content, encoding, a, b) = Sum(sizes, (a + 1)..b)
    BY DEF Width, Sum
  <1> HIDE DEF sizes
  <1>5. /\ Sum(sizes, {}) = 0
        /\ \A T \in SUBSET (1..n) : Sum(sizes, T) \in Nat
        /\ \A T \in SUBSET (1..n), x \in 1..n :
              x \notin T => Sum(sizes, T \cup {x}) = Sum(sizes, T) + sizes[x]
    <2>1. IsFiniteSet(1..n)
      BY UpTo
    <2> QED BY <1>3, <2>1, SumOfMore
  <1> DEFINE upto == [o \in 0..n |-> Sum(sizes, 1..o)]
  <1>6. upto \in [0..n -> Nat] /\ \A o \in 0..n : upto[o] = Sum(sizes, 1..o)
    <2>1. \A o \in 0..n : 1..o \in SUBSET (1..n)
      OBVIOUS
    <2> QED BY <1>5, <2>1
  <1>7. upto[0] = 0
    <2>1. 1..0 = {}
      OBVIOUS
    <2> QED BY <1>5, <1>6, <2>1
  <1> HIDE DEF upto
  <1>8. ASSUME NEW a \in 0..n, NEW o \in 0..(n - 1), a <= o
        PROVE  Sum(sizes, (a + 1)..(o + 1)) = Sum(sizes, (a + 1)..o) + Size(encoding, content[o + 1])
    <2>1. /\ (a + 1)..(o + 1) = ((a + 1)..o) \cup {o + 1}
          /\ o + 1 \notin (a + 1)..o /\ o + 1 \in 1..n
          /\ (a + 1)..o \in SUBSET (1..n)
      BY <1>8
    <2>2. Sum(sizes, ((a + 1)..o) \cup {o + 1}) = Sum(sizes, (a + 1)..o) + sizes[o + 1]
      BY <1>5, <2>1
    <2>3. sizes[o + 1] = Size(encoding, content[o + 1])
      BY <1>2, <2>1
    <2> QED BY <2>1, <2>2, <2>3
  <1>9. \A o \in 0..(n - 1) : upto[o + 1] = upto[o] + Size(encoding, content[o + 1])
    <2> TAKE o \in 0..(n - 1)
    <2>1. 0 \in 0..n /\ o \in 0..n /\ o + 1 \in 0..n /\ 0 + 1 = 1 /\ 0 <= o
      OBVIOUS
    <2>2. Sum(sizes, 1..(o + 1)) = Sum(sizes, 1..o) + Size(encoding, content[o + 1])
      BY <1>8, <2>1
    <2> QED BY <1>6, <2>1, <2>2
  <1>10. ASSUME NEW a \in 0..n
         PROVE  \A b \in 0..n : a <= b => Sum(sizes, (a + 1)..b) = upto[b] - upto[a]
    <2> DEFINE good == {k \in 0..(n - a) : Sum(sizes, (a + 1)..(a + k)) = upto[a + k] - upto[a]}
    <2>1. 0 \in good
      <3>1. (a + 1)..(a + 0) = {} /\ a + 0 = a /\ upto[a] \in Nat /\ 0 \in 0..(n - a)
        BY <1>6
      <3> QED BY <1>5, <3>1
    <2>2. ASSUME NEW k \in 0..((n - a) - 1), k \in good PROVE k + 1 \in good
      <3>1. /\ a + k \in 0..(n - 1) /\ a <= a + k /\ (a + k) + 1 = a + (k + 1)
            /\ k + 1 \in 0..(n - a) /\ a + k \in 0..n /\ a + (k + 1) \in 0..n
        OBVIOUS
      <3>2. Sum(sizes, (a + 1)..(a + (k + 1))) =
              Sum(sizes, (a + 1)..(a + k)) + Size(encoding, content[(a + k) + 1])
        BY <1>8, <3>1
      <3>3. upto[a + (k + 1)] = upto[a + k] + Size(encoding, content[(a + k) + 1])
        BY <1>9, <3>1
      <3>4. Sum(sizes, (a + 1)..(a + k)) = upto[a + k] - upto[a]
        BY <2>2
      <3>5. /\ upto[a + k] \in Nat /\ upto[a] \in Nat
            /\ Size(encoding, content[(a + k) + 1]) \in Nat
        <4>1. (a + k) + 1 \in 1..n
          BY <3>1
        <4> QED BY <1>2, <1>6, <3>1, <4>1
      <3>6. Sum(sizes, (a + 1)..(a + (k + 1))) = upto[a + (k + 1)] - upto[a]
        <4>1. \A x, y, z \in Nat : (x - y) + z = (x + z) - y
          OBVIOUS
        <4> QED BY <3>2, <3>3, <3>4, <3>5, <4>1
      <3> QED BY <3>1, <3>6
    <2>3. 0..(n - a) \subseteq good
      <3>1. n - a \in Nat /\ \A k \in 0..((n - a) - 1) : k \in good => k + 1 \in good
        <4> HIDE DEF good
        <4> QED BY <2>2
      <3> HIDE DEF good
      <3> QED BY <2>1, <3>1, CountUp
    <2> SUFFICES ASSUME NEW b \in 0..n, a <= b
                 PROVE  Sum(sizes, (a + 1)..b) = upto[b] - upto[a]
      OBVIOUS
    <2>4. b - a \in 0..(n - a) /\ a + (b - a) = b
      OBVIOUS
    <2> QED BY <2>3, <2>4
  <1>11. \A a, b \in 0..n : a <= b => Width(content, encoding, a, b) = upto[b] - upto[a]
    BY <1>4, <1>10
  <1> QED BY <1>1, <1>6, <1>7, <1>9, <1>11 DEF Measures

\* It grows, except in the midst of a character; in UTF-16 it counts.
Grows(content, encoding, upto) ==
    /\ \A a, b \in 0..Len(content) : a <= b => upto[a] <= upto[b]
    /\ \A a, b \in 0..Len(content) :
          a < b /\ (encoding = "utf-16" \/ Boundary(content, a)) => upto[a] < upto[b]
    /\ \A a \in 0..(Len(content) - 1), b \in 0..Len(content) :
          a < b /\ content[a + 1] # "low" => upto[a] < upto[b]
    /\ encoding = "utf-16" => \A o \in 0..Len(content) : upto[o] = o

LEMMA WidthsGrow ==
  ASSUME NEW content \in Seq(Units), NEW encoding \in PositionEncodings,
         Paired(content), NEW upto, Measures(content, encoding, upto)
  PROVE  Grows(content, encoding, upto)
  <1>1. PICK n \in Nat : n = Len(content)
    OBVIOUS
  <1>2. /\ \A o \in 0..n : upto[o] \in Nat
        /\ \A o \in 0..(n - 1) : upto[o + 1] = upto[o] + Size(encoding, content[o + 1])
        /\ upto[0] = 0
    BY <1>1 DEF Measures
  <1>3. \A o \in 0..(n - 1) :
          /\ Size(encoding, content[o + 1]) \in 0..4
          /\ Size(encoding, content[o + 1]) = 0 => content[o + 1] = "low" /\ encoding # "utf-16"
          /\ encoding = "utf-16" => Size(encoding, content[o + 1]) = 1
    <2> TAKE o \in 0..(n - 1)
    <2>1. content[o + 1] \in Units
      BY <1>1
    <2> QED BY <2>1, SizeIs
  <1>4. ASSUME NEW a \in 0..n
        PROVE  \A b \in 0..n : a <= b => upto[a] <= upto[b]
    <2> DEFINE good == {k \in 0..(n - a) : upto[a] <= upto[a + k]}
    <2>1. 0 \in good
      <3>1. a + 0 = a /\ upto[a] \in Nat /\ 0 \in 0..(n - a)
        BY <1>2
      <3> QED BY <3>1
    <2>2. ASSUME NEW k \in 0..((n - a) - 1), k \in good PROVE k + 1 \in good
      <3>1. a + k \in 0..(n - 1) /\ (a + k) + 1 = a + (k + 1) /\ k + 1 \in 0..(n - a)
            /\ a + k \in 0..n
        OBVIOUS
      <3>2. upto[(a + k) + 1] = upto[a + k] + Size(encoding, content[(a + k) + 1])
            /\ Size(encoding, content[(a + k) + 1]) \in 0..4
        BY <1>2, <1>3, <3>1
      <3>3. upto[a] <= upto[a + k] /\ upto[a] \in Nat /\ upto[a + k] \in Nat
        BY <1>2, <2>2, <3>1
      <3>4. upto[a] <= upto[a + (k + 1)]
        BY <3>1, <3>2, <3>3
      <3> QED BY <3>1, <3>4
    <2>3. 0..(n - a) \subseteq good
      <3>1. n - a \in Nat /\ \A k \in 0..((n - a) - 1) : k \in good => k + 1 \in good
        <4> HIDE DEF good
        <4> QED BY <2>2
      <3> HIDE DEF good
      <3> QED BY <2>1, <3>1, CountUp
    <2> SUFFICES ASSUME NEW b \in 0..n, a <= b PROVE upto[a] <= upto[b]
      OBVIOUS
    <2>4. b - a \in 0..(n - a) /\ a + (b - a) = b
      OBVIOUS
    <2> QED BY <2>3, <2>4
  <1>5. ASSUME NEW a \in 0..(n - 1), NEW b \in 0..n, a < b,
               Size(encoding, content[a + 1]) # 0
        PROVE  upto[a] < upto[b]
    <2>1. a + 1 \in 0..n /\ a \in 0..n /\ a + 1 <= b
      BY <1>5
    <2>2. upto[a + 1] <= upto[b]
      BY <1>4, <2>1
    <2>3. upto[a + 1] = upto[a] + Size(encoding, content[a + 1])
          /\ Size(encoding, content[a + 1]) \in 0..4
          /\ upto[a] \in Nat /\ upto[b] \in Nat
      BY <1>2, <1>3, <2>1
    <2> QED BY <1>5, <2>2, <2>3
  <1>6. ASSUME NEW a \in 0..n, NEW b \in 0..n, a < b,
               encoding = "utf-16" \/ Boundary(content, a)
        PROVE  upto[a] < upto[b]
    <2>1. a \in 0..(n - 1)
      BY <1>6
    <2>2. Size(encoding, content[a + 1]) # 0
      <3>1. CASE encoding = "utf-16"
        BY <1>3, <2>1, <3>1
      <3>2. CASE Boundary(content, a)
        <4>1. content[a + 1] # "low"
          <5>1. a + 1 \in 1..(Len(content) + 1) /\ a + 1 <= Len(content) /\ (a + 1) - 1 = a
            BY <1>1, <2>1
          <5>2. (a + 1 <= Len(content) /\ content[a + 1] = "low")
                  <=> (a + 1 > 1 /\ content[a] = "high")
            BY <5>1 DEF Paired
          <5> QED BY <3>2, <5>1, <5>2 DEF Boundary
        <4> QED BY <1>3, <2>1, <4>1
      <3> QED BY <1>6, <3>1, <3>2
    <2> QED BY <1>5, <1>6, <2>1, <2>2
  <1>7. ASSUME encoding = "utf-16" PROVE \A o \in 0..n : upto[o] = o
    <2> DEFINE good == {o \in 0..n : upto[o] = o}
    <2>1. 0 \in good
      BY <1>2
    <2>2. ASSUME NEW k \in 0..(n - 1), k \in good PROVE k + 1 \in good
      <3>1. upto[k + 1] = upto[k] + 1 /\ k + 1 \in 0..n
        BY <1>2, <1>3, <1>7
      <3> QED BY <2>2, <3>1
    <2>3. 0..n \subseteq good
      <3>1. \A k \in 0..(n - 1) : k \in good => k + 1 \in good
        <4> HIDE DEF good
        <4> QED BY <2>2
      <3> HIDE DEF good
      <3> QED BY <2>1, <3>1, CountUp
    <2> QED BY <2>3
  <1>8. \A a \in 0..(n - 1), b \in 0..n :
           a < b /\ content[a + 1] # "low" => upto[a] < upto[b]
    <2> SUFFICES ASSUME NEW a \in 0..(n - 1), NEW b \in 0..n, a < b, content[a + 1] # "low"
                 PROVE  upto[a] < upto[b]
      OBVIOUS
    <2>1. Size(encoding, content[a + 1]) # 0
      BY <1>3
    <2> QED BY <1>5, <2>1
  <1> QED BY <1>1, <1>4, <1>6, <1>7, <1>8 DEF Grows

-----------------------------------------------------------------------------
(***************************************************************************)
(* The server's positions and the editor's                                  *)
(***************************************************************************)
Served(content, encoding, unicode, o) ==
    [line |-> Rank(Breaks(content, unicode), o),
     character |-> Width(content, encoding, Floor(Breaks(content, unicode), o), o)]

Edited(content, o) ==
    [line |-> Rank(Breaks(content, FALSE), o),
     character |-> o - Floor(Breaks(content, FALSE), o)]

LEMMA EditorPositionIs ==
  ASSUME NEW content \in Seq(Units), NEW o \in 0..Len(content)
  PROVE  editorPositionAtOffset(content, o) = Edited(content, o)
  <1>1. FALSE \in BOOLEAN
    OBVIOUS
  <1>2. HasLines(content, FALSE)
    BY <1>1, Lines
  <1>3. /\ lineAtOffset(o, lineStarts(content, FALSE)) = Rank(Breaks(content, FALSE), o)
        /\ lineStarts(content, FALSE)[Rank(Breaks(content, FALSE), o) + 1]
             = Floor(Breaks(content, FALSE), o)
    BY <1>2 DEF HasLines
  <1> QED BY <1>3 DEF editorPositionAtOffset, Edited

\* Between two offsets with as many breaks before them there is none.
LEMMA SameLine ==
  ASSUME NEW S, \A x \in S : x \in Nat, IsFiniteSet(S), NEW T, \A x \in T : x \in S,
         NEW a \in Nat, NEW b \in Nat, a <= b, Rank(S, a) = Rank(S, b)
  PROVE  Rank(T, a) = Rank(T, b) /\ Floor(T, a) = Floor(T, b)
  <1>1. Counts(S)
    BY RankCounts
  <1>2. \A m \in S : m <= b => m <= a
    <2> SUFFICES ASSUME NEW m \in S, m <= b, a < m PROVE FALSE
      OBVIOUS
    <2>1. m \in Nat /\ Rank(S, a) < Rank(S, m) /\ Rank(S, m) <= Rank(S, b)
      BY <1>1 DEF Counts
    <2>2. Rank(S, a) \in Nat /\ Rank(S, m) \in Nat
      BY <1>1, <2>1 DEF Counts
    <2> QED BY <2>1, <2>2
  <1>3. \A m \in T : m \in Nat /\ (m <= b => m <= a)
    BY <1>2
  <1>4. {m \in T : m <= a} = {m \in T : m <= b}
    BY <1>3
  <1> QED BY <1>4 DEF Rank, Floor

\* A position on the line of an offset is looked for between the ends of the line.
LEMMA OnLine ==
  ASSUME NEW content \in Seq(Units), NEW encoding \in PositionEncodings,
         NEW unicode \in BOOLEAN, NEW upto, Measures(content, encoding, upto),
         NEW a \in 0..Len(content), NEW w,
         NEW start, start = Floor(Breaks(content, unicode), a),
         NEW end, end = lineEnds(content, unicode)[Rank(Breaks(content, unicode), a) + 1],
         NEW offsets, offsets = {o \in start..end :
                                   /\ encoding = "utf-16" \/ Boundary(content, o)
                                   /\ upto[o] - upto[start] = w}
  PROVE  toUtf16Position(content, encoding, unicode,
                         [line |-> Rank(Breaks(content, unicode), a), character |-> w])
           = IF offsets = {} THEN NoPosition
             ELSE editorPositionAtOffset(content, CHOOSE o \in offsets : TRUE)
  <1>1. PICK line : line = Rank(Breaks(content, unicode), a)
    OBVIOUS
  <1>2. PICK starts : starts = lineStarts(content, unicode)
    OBVIOUS
  <1>3. PICK ends : ends = lineEnds(content, unicode)
    OBVIOUS
  <1>4. /\ line \in 0..Cardinality(Breaks(content, unicode))
        /\ Len(starts) = Cardinality(Breaks(content, unicode)) + 1
        /\ starts[line + 1] = start /\ ends[line + 1] = end
        /\ end \in a..Len(content)
    BY <1>1, <1>2, <1>3, Lines DEF HasLines
  <1>5. ~ (line >= Len(starts))
    <2>1. \A x \in Breaks(content, unicode) : x \in Nat
      BY DEF Breaks
    <2>2. IsFiniteSet(Breaks(content, unicode))
      BY Lines DEF HasLines
    <2>3. Cardinality(Breaks(content, unicode)) \in Nat
      BY <2>2, FS_CardinalityType
    <2> QED BY <1>4, <2>3
  <1>6. start \in 0..a /\ end \in Nat
    <2>1. \A x \in Breaks(content, unicode) : x \in Nat
      BY DEF Breaks
    <2>2. IsFiniteSet(Breaks(content, unicode)) /\ a \in Nat
      BY Lines DEF HasLines
    <2>3. start \in Nat /\ start <= a
      BY <2>1, <2>2, FloorIs
    <2> QED BY <1>4, <2>3
  <1>7. \A o \in start..end : Width(content, encoding, start, o) = upto[o] - upto[start]
    <2> TAKE o \in start..end
    <2>1. start \in 0..Len(content) /\ o \in 0..Len(content) /\ start <= o
      BY <1>4, <1>6
    <2> QED BY <2>1 DEF Measures
  <1>8. offsets = {o \in start..end : /\ encoding = "utf-16" \/ Boundary(content, o)
                                      /\ Width(content, encoding, start, o) = w}
    BY <1>7
  <1>9. toUtf16Position(content, encoding, unicode, [line |-> line, character |-> w])
          = IF line >= Len(starts) \/ offsets = {} THEN NoPosition
            ELSE editorPositionAtOffset(content, CHOOSE o \in offsets : TRUE)
    <2>1. PICK p : p = [line |-> line, character |-> w]
      OBVIOUS
    <2>2. p.line = line /\ p.character = w
      BY <2>1
    <2>3. PICK found : found = {o \in starts[p.line + 1]..ends[p.line + 1] :
                                  /\ encoding = "utf-16" \/ Boundary(content, o)
                                  /\ Width(content, encoding, starts[p.line + 1], o)
                                       = p.character}
      OBVIOUS
    <2>4. found = offsets
      BY <1>4, <1>8, <2>2, <2>3
    <2>5. toUtf16Position(content, encoding, unicode, p)
            = IF p.line >= Len(starts) \/ found = {} THEN NoPosition
              ELSE editorPositionAtOffset(content, CHOOSE o \in found : TRUE)
      BY <1>2, <1>3, <2>3 DEF toUtf16Position
    <2> QED BY <2>1, <2>2, <2>4, <2>5
  <1> QED BY <1>1, <1>5, <1>9

\* Where a token starts is where the server meant; where it ends is, too, unless
\* that is on another line of the server's, which is no position at all.
LEMMA SpanMaps ==
  ASSUME NEW content \in Seq(Units), Paired(content), NEW encoding \in PositionEncodings,
         NEW unicode \in BOOLEAN,
         NEW a \in 0..Len(content), NEW b \in 0..Len(content), a <= b,
         Boundary(content, a), Boundary(content, b)
  PROVE  toUtf16Position(content, encoding, unicode,
            [line |-> Served(content, encoding, unicode, a).line,
             character |-> Served(content, encoding, unicode, a).character
                             + Width(content, encoding, a, b)])
           = IF Served(content, encoding, unicode, a).line
                  = Served(content, encoding, unicode, b).line
               THEN Edited(content, b) ELSE NoPosition
  <1>1. PICK breaks : breaks = Breaks(content, unicode)
    OBVIOUS
  <1>2. PICK upto : Measures(content, encoding, upto)
    BY WidthsMeasure
  <1>3. Grows(content, encoding, upto)
    BY <1>2, WidthsGrow
  <1>4. \A x \in breaks : x \in Nat /\ x > 0 /\ x <= Len(content) /\ content[x] # "low"
    BY <1>1 DEF Breaks
  <1>5. IsFiniteSet(breaks)
    BY <1>1, Lines DEF HasLines
  <1>6. PICK n \in Nat : n = Len(content)
    OBVIOUS
  <1>7. PICK start : start = Floor(breaks, a)
    OBVIOUS
  <1>8. start \in 0..n /\ start <= a
    <2>1. a \in Nat
      OBVIOUS
    <2>2. start \in Nat /\ start <= a
      BY <1>4, <1>5, <1>7, <2>1, FloorIs
    <2> QED BY <1>6, <2>2
  <1>9. PICK end : end = lineEnds(content, unicode)[Rank(breaks, a) + 1]
    OBVIOUS
  <1>10. /\ end \in a..n
         /\ \/ end = n /\ \A x \in breaks : x <= a
            \/ \E x \in breaks : x > a /\ end = x - 1 /\ \A other \in breaks : other > a => x <= other
    BY <1>1, <1>6, <1>9, Lines DEF HasLines
  <1>11. \A x, y \in 0..n : x <= y => Width(content, encoding, x, y) = upto[y] - upto[x]
    BY <1>2, <1>6 DEF Measures
  <1>12. \A x \in 0..n : upto[x] \in Nat
    BY <1>2, <1>6 DEF Measures
  <1>13. Served(content, encoding, unicode, a).character + Width(content, encoding, a, b)
           = upto[b] - upto[start]
    <2>1. Served(content, encoding, unicode, a).character = Width(content, encoding, start, a)
      BY <1>1, <1>7 DEF Served
    <2>2. /\ Width(content, encoding, start, a) = upto[a] - upto[start]
          /\ Width(content, encoding, a, b) = upto[b] - upto[a]
      BY <1>6, <1>8, <1>11
    <2>3. upto[a] \in Nat /\ upto[b] \in Nat /\ upto[start] \in Nat
      BY <1>6, <1>8, <1>12
    <2> QED BY <2>1, <2>2, <2>3
  <1>14. Served(content, encoding, unicode, a).line = Rank(breaks, a)
         /\ Served(content, encoding, unicode, b).line = Rank(breaks, b)
    BY <1>1 DEF Served
  <1>15. PICK w : w = upto[b] - upto[start]
    OBVIOUS
  <1>16. PICK offsets : offsets = {o \in start..end :
                                     /\ encoding = "utf-16" \/ Boundary(content, o)
                                     /\ upto[o] - upto[start] = w}
    OBVIOUS
  <1>17. toUtf16Position(content, encoding, unicode, [line |-> Rank(breaks, a), character |-> w])
           = IF offsets = {} THEN NoPosition
             ELSE editorPositionAtOffset(content, CHOOSE o \in offsets : TRUE)
    BY <1>1, <1>2, <1>7, <1>9, <1>16, OnLine
  <1>18. Counts(breaks)
    BY <1>4, <1>5, RankCounts
  <1>19. CASE Rank(breaks, a) = Rank(breaks, b)
    <2>1. b \in start..end
      <3>1. \A x \in breaks : x <= b => x <= a
        <4> SUFFICES ASSUME NEW x \in breaks, x <= b, a < x PROVE FALSE
          BY <1>4
        <4>1. a \in Nat /\ b \in Nat /\ x \in Nat
          BY <1>4
        <4>2. Rank(breaks, a) < Rank(breaks, x) /\ Rank(breaks, x) <= Rank(breaks, b)
              /\ Rank(breaks, a) \in Nat /\ Rank(breaks, x) \in Nat
          BY <1>18, <4>1 DEF Counts
        <4> QED BY <1>19, <4>2
      <3>2. CASE end = n
        BY <1>6, <1>8, <3>2
      <3>3. CASE end # n
        <4>1. PICK x \in breaks : x > a /\ end = x - 1
          BY <1>10, <3>3
        <4>2. x \in Nat /\ ~ (x <= b)
          BY <1>4, <3>1, <4>1
        <4> QED BY <1>8, <4>1, <4>2
      <3> QED BY <3>2, <3>3
    <2>2. b \in offsets
      BY <1>15, <1>16, <2>1
    <2>3. ASSUME NEW o \in offsets PROVE o = b
      <3>1. /\ o \in start..end /\ (encoding = "utf-16" \/ Boundary(content, o))
            /\ upto[o] - upto[start] = upto[b] - upto[start]
        BY <1>15, <1>16
      <3>2. o \in 0..n /\ b \in 0..n /\ start \in 0..n
        BY <1>6, <1>8, <1>10, <3>1
      <3>3. upto[o] = upto[b]
        <4>1. upto[o] \in Nat /\ upto[b] \in Nat /\ upto[start] \in Nat
          BY <1>12, <3>2
        <4> QED BY <3>1, <4>1
      <3>4. ~ (o < b)
        <4>1. o < b => upto[o] < upto[b]
          BY <1>3, <1>6, <3>1, <3>2 DEF Grows
        <4> QED BY <1>12, <3>2, <3>3, <4>1
      <3>5. ~ (b < o)
        <4>1. b < o => upto[b] < upto[o]
          BY <1>3, <1>6, <3>2 DEF Grows
        <4> QED BY <1>12, <3>2, <3>3, <4>1
      <3> QED BY <3>2, <3>4, <3>5
    <2>4. (CHOOSE o \in offsets : TRUE) = b
      BY <2>2, <2>3
    <2>5. editorPositionAtOffset(content, b) = Edited(content, b)
      BY EditorPositionIs
    <2> QED BY <1>13, <1>14, <1>15, <1>17, <1>19, <2>2, <2>4, <2>5
  <1>20. CASE Rank(breaks, a) # Rank(breaks, b)
    <2>1. ~ (\A x \in breaks : x <= a)
      <3> SUFFICES ASSUME \A x \in breaks : x <= a PROVE FALSE
        OBVIOUS
      <3>1. \A x \in breaks : x <= b
        BY <1>4
      <3>2. a \in Nat /\ b \in Nat
        OBVIOUS
      <3>3. Rank(breaks, a) = Cardinality(breaks) /\ Rank(breaks, b) = Cardinality(breaks)
        BY <1>18, <3>1, <3>2 DEF Counts
      <3> QED BY <1>20, <3>3
    <2>2. PICK x \in breaks : /\ x > a /\ end = x - 1
                              /\ \A other \in breaks : other > a => x <= other
      BY <1>10, <2>1
    <2>3. x <= b
      <3> SUFFICES ASSUME b < x PROVE FALSE
        BY <1>4
      <3>1. {m \in breaks : m <= a} = {m \in breaks : m <= b}
        <4>1. \A m \in breaks : m \in Nat /\ (m > a => x <= m)
          BY <1>4, <2>2
        <4>2. x \in Nat
          BY <1>4
        <4>3. \A m \in breaks : m <= b <=> m <= a
          BY <4>1, <4>2
        <4> QED BY <4>3
      <3> QED BY <1>20, <3>1 DEF Rank
    <2>4. /\ x - 1 \in 0..(n - 1) /\ x - 1 \in 0..n /\ x \in 0..n /\ (x - 1) + 1 = x
      BY <1>4, <1>6, <2>2
    <2>5. upto[x - 1] < upto[b]
      <3>1. content[(x - 1) + 1] # "low" /\ x - 1 < b /\ b \in 0..n
        BY <1>4, <1>6, <2>3, <2>4
      <3> QED BY <1>3, <1>6, <2>4, <3>1 DEF Grows
    <2>6. ASSUME NEW o \in offsets PROVE FALSE
      <3>1. o \in start..(x - 1) /\ upto[o] - upto[start] = upto[b] - upto[start]
        BY <1>15, <1>16, <2>2
      <3>2. o \in 0..n /\ o <= x - 1 /\ b \in 0..n
        BY <1>6, <1>8, <2>4, <3>1
      <3>3. upto[o] <= upto[x - 1]
        BY <1>3, <1>6, <2>4, <3>2 DEF Grows
      <3>4. upto[o] \in Nat /\ upto[b] \in Nat /\ upto[start] \in Nat /\ upto[x - 1] \in Nat
        BY <1>8, <1>12, <2>4, <3>2
      <3> QED BY <2>5, <3>1, <3>3, <3>4
    <2>7. offsets = {}
      BY <2>6
    <2> QED BY <1>13, <1>14, <1>15, <1>17, <1>20, <2>7
  <1> QED BY <1>19, <1>20

-----------------------------------------------------------------------------
(***************************************************************************)
(* Normalised text                                                         *)
(***************************************************************************)
Body(text) == IF text # <<>> /\ Head(text) = "bom" THEN Tail(text) ELSE text

\* The LF of each CRLF.
Second(body) == {i \in DOMAIN body : body[i] = "lf" /\ i > 1 /\ body[i - 1] = "cr"}

Kept(body) == {i \in DOMAIN body : ~ (body[i] = "lf" /\ i > 1 /\ body[i - 1] = "cr")}

\* What is known of a text without byte order mark, and of what is made of it.
Normalises(body, content) ==
    LET kept == Kept(body)
    IN  /\ body \in Seq(Units) /\ content \in Seq(Units) /\ Paired(content)
        /\ \A x \in kept : x \in Nat
        /\ IsFiniteSet(kept) /\ Cardinality(kept) = Len(content)
        /\ Counts(kept)
        /\ \A i \in kept : /\ Rank(kept, i) \in 1..Len(content)
                           /\ content[Rank(kept, i)] = IF body[i] = "cr" THEN "lf" ELSE body[i]
        /\ \A k \in 1..Len(content) : \E i \in kept : Rank(kept, i) = k

\* Without a byte order mark, the characters of a text are still whole.
LEMMA BodyIs ==
  ASSUME NEW text \in Seq(Units), Paired(text)
  PROVE  Body(text) \in Seq(Units) /\ Paired(Body(text))
  <1>1. CASE ~ (text # <<>> /\ Head(text) = "bom")
    BY <1>1 DEF Body
  <1>2. CASE text # <<>> /\ Head(text) = "bom"
    <2>1. PICK body : body = Tail(text)
      OBVIOUS
    <2>2. PICK n \in Nat : n = Len(text) /\ n > 0
      BY <1>2
    <2>3. body \in Seq(Units) /\ Len(body) = n - 1 /\ \A i \in 1..(n - 1) : body[i] = text[i + 1]
      BY <1>2, <2>1, <2>2
    <2>4. text[1] = "bom"
      BY <1>2
    <2>5. ASSUME NEW i \in 1..(Len(body) + 1)
          PROVE  (i <= Len(body) /\ body[i] = "low") <=> (i > 1 /\ body[i-1] = "high")
      <3>1. i + 1 \in 1..(Len(text) + 1) /\ (i + 1) - 1 = i
        BY <2>2, <2>3
      <3>2. (i + 1 <= Len(text) /\ text[i + 1] = "low") <=> (i + 1 > 1 /\ text[i] = "high")
        BY <3>1 DEF Paired
      <3>3. CASE i = 1
        <4>1. ~ (i > 1) /\ text[i] # "high"
          BY <2>4, <3>3
        <4>2. i <= Len(body) => body[i] = text[i + 1]
          BY <2>3
        <4>3. i <= Len(body) => i + 1 <= Len(text)
          BY <2>2, <2>3
        <4> QED BY <3>2, <4>1, <4>2, <4>3
      <3>4. CASE i # 1
        <4>1. i > 1 /\ i - 1 \in 1..(n - 1) /\ (i - 1) + 1 = i
          BY <2>3, <3>4
        <4>2. body[i - 1] = text[i]
          BY <2>3, <4>1
        <4>3. i <= Len(body) => body[i] = text[i + 1]
          BY <2>3
        <4>4. i <= Len(body) <=> i + 1 <= Len(text)
          BY <2>2, <2>3
        <4> QED BY <3>2, <4>1, <4>2, <4>3, <4>4
      <3> QED BY <3>3, <3>4
    <2>6. Paired(body)
      BY <2>5 DEF Paired
    <2> QED BY <1>2, <2>1, <2>3, <2>6 DEF Body
  <1> QED BY <1>1, <1>2

LEMMA NormalisesText ==
  ASSUME NEW text \in Seq(Units), Paired(text)
  PROVE  Normalises(Body(text), normalizeSemanticText(text))
  <1>1. PICK body \in Seq(Units) : body = Body(text) /\ Paired(body)
    BY BodyIs
  <1>2. PICK content : content = normalizeSemanticText(text)
    OBVIOUS
  <1>3. PICK kept : kept = Kept(body)
    OBVIOUS
  <1>4. PICK n \in Nat : n = Len(body) /\ DOMAIN body = 1..n
    OBVIOUS
  <1>5. \A x \in kept : x \in 1..n /\ x \in Nat
    BY <1>3, <1>4 DEF Kept
  <1>6. IsFiniteSet(kept)
    <2>1. IsFiniteSet(1..n)
      BY UpTo
    <2>2. kept \in SUBSET (1..n)
      BY <1>5
    <2> QED BY <2>1, <2>2, FS_Subset
  <1>7. Counts(kept) /\ Enumerates(kept)
    BY <1>5, <1>6, RankCounts, AscendingEnumerates
  <1>8. PICK size \in Nat : size = Cardinality(kept)
    BY <1>7 DEF Counts
  <1>9. PICK at : /\ at = Ascending(kept)
                  /\ \A k \in 1..size : at[k] \in kept /\ Rank(kept, at[k]) = k
                  /\ \A i \in kept : Rank(kept, i) \in 1..size /\ at[Rank(kept, i)] = i
    BY <1>7, <1>8 DEF Enumerates
  <1>10. PICK picked : picked = [k \in 1..size |-> body[at[k]]]
    OBVIOUS
  <1>11. content = [k \in 1..size |-> IF picked[k] = "cr" THEN "lf" ELSE picked[k]]
    <2>1. picked = Picked(body, kept)
      BY <1>8, <1>9, <1>10 DEF Picked
    <2>2. DOMAIN picked = 1..size
      BY <1>10
    <2>3. content = [k \in DOMAIN picked |-> IF picked[k] = "cr" THEN "lf" ELSE picked[k]]
      BY <1>1, <1>2, <1>3, <2>1 DEF normalizeSemanticText, Body, Kept
    <2> QED BY <2>2, <2>3
  <1>12. \A k \in 1..size : /\ content[k] = IF body[at[k]] = "cr" THEN "lf" ELSE body[at[k]]
                            /\ content[k] \in Units
    <2> TAKE k \in 1..size
    <2>1. body[at[k]] \in Units
      BY <1>1, <1>4, <1>5, <1>9
    <2>2. content[k] = IF body[at[k]] = "cr" THEN "lf" ELSE body[at[k]]
      BY <1>10, <1>11
    <2> QED BY <2>1, <2>2 DEF Units
  <1>13. content \in Seq(Units) /\ Len(content) = size
    <2>1. content \in [1..size -> Units]
      BY <1>11, <1>12
    <2> QED BY <2>1
  <1>14. \A i \in kept : /\ Rank(kept, i) \in 1..size
                         /\ content[Rank(kept, i)] = IF body[i] = "cr" THEN "lf" ELSE body[i]
    BY <1>9, <1>12
  <1>15. ASSUME NEW k \in 1..(size + 1)
         PROVE  (k <= size /\ content[k] = "low") <=> (k > 1 /\ content[k - 1] = "high")
    <2>1. ASSUME NEW i \in 1..n
          PROVE  /\ body[i] = "low" => i - 1 \in 1..n /\ body[i - 1] = "high"
                 /\ body[i] = "high" => i + 1 \in 1..n /\ body[i + 1] = "low"
      <3>1. i \in 1..(Len(body) + 1) /\ i + 1 \in 1..(Len(body) + 1) /\ (i + 1) - 1 = i
        BY <1>4
      <3>2. /\ (i <= Len(body) /\ body[i] = "low") <=> (i > 1 /\ body[i - 1] = "high")
            /\ (i + 1 <= Len(body) /\ body[i + 1] = "low") <=> (i + 1 > 1 /\ body[i] = "high")
        BY <1>1, <3>1 DEF Paired
      <3> QED BY <1>4, <3>2
    <2>2. \A i \in 1..n : body[i] = "low" \/ body[i] = "high" => i \in kept
      <3>1. "low" # "lf" /\ "high" # "lf"
        OBVIOUS
      <3> QED BY <1>3, <1>4, <3>1 DEF Kept
    <2>3. \A i \in kept : i - 1 \in Nat => Rank(kept, i) = Rank(kept, i - 1) + 1
      <3> SUFFICES ASSUME NEW i \in kept, i - 1 \in Nat
                   PROVE  Rank(kept, i) = Rank(kept, i - 1) + 1
        OBVIOUS
      <3>1. (i - 1) + 1 = i
        BY <1>5
      <3> QED BY <1>7, <3>1 DEF Counts
    <2>4. ASSUME k <= size, content[k] = "low" PROVE k > 1 /\ content[k - 1] = "high"
      <3>1. k \in 1..size /\ at[k] \in kept /\ Rank(kept, at[k]) = k
        BY <1>9, <2>4
      <3>2. body[at[k]] = "low"
        BY <1>12, <2>4, <3>1
      <3>3. at[k] \in 1..n
        BY <1>5, <3>1
      <3>4. at[k] - 1 \in 1..n /\ body[at[k] - 1] = "high"
        BY <2>1, <3>2, <3>3
      <3>5. at[k] - 1 \in kept
        BY <2>2, <3>4
      <3>6. Rank(kept, at[k] - 1) \in 1..size
            /\ content[Rank(kept, at[k] - 1)] = "high"
        BY <1>14, <3>4, <3>5
      <3>7. k = Rank(kept, at[k] - 1) + 1
        <4>1. at[k] - 1 \in Nat
          BY <3>4
        <4> QED BY <2>3, <3>1, <4>1
      <3> QED BY <3>6, <3>7
    <2>5. ASSUME k > 1, content[k - 1] = "high" PROVE k <= size /\ content[k] = "low"
      <3>1. k - 1 \in 1..size /\ at[k - 1] \in kept /\ Rank(kept, at[k - 1]) = k - 1
        <4>1. k - 1 \in 1..size
          BY <2>5
        <4> QED BY <1>9, <4>1
      <3>2. body[at[k - 1]] = "high"
        BY <1>12, <2>5, <3>1
      <3>3. at[k - 1] \in 1..n
        BY <1>5, <3>1
      <3>4. at[k - 1] + 1 \in 1..n /\ body[at[k - 1] + 1] = "low"
        BY <2>1, <3>2, <3>3
      <3>5. at[k - 1] + 1 \in kept
        BY <2>2, <3>4
      <3>6. Rank(kept, at[k - 1] + 1) \in 1..size
            /\ content[Rank(kept, at[k - 1] + 1)] = "low"
        BY <1>14, <3>4, <3>5
      <3>7. Rank(kept, at[k - 1] + 1) = k
        <4>1. (at[k - 1] + 1) - 1 = at[k - 1] /\ at[k - 1] \in Nat
          BY <3>3
        <4> QED BY <2>3, <3>1, <3>5, <4>1
      <3> QED BY <3>6, <3>7
    <2> QED BY <2>4, <2>5
  <1>16. Paired(content)
    BY <1>13, <1>15 DEF Paired
  <1>17. \A k \in 1..size : \E i \in kept : Rank(kept, i) = k
    BY <1>9
  <1> QED BY <1>1, <1>2, <1>3, <1>5, <1>6, <1>7, <1>8, <1>13, <1>14, <1>16, <1>17 DEF Normalises

\* As many of a set as there are numbers, when it leaves out none of them.
LEMMA RankRuns ==
  ASSUME NEW S, Counts(S), NEW low \in Nat, NEW high \in Nat, low <= high,
         \A i \in (low + 1)..high : i \in S
  PROVE  Rank(S, high) = Rank(S, low) + (high - low)
  <1> DEFINE good == {k \in 0..(high - low) : Rank(S, low + k) = Rank(S, low) + k}
  <1>1. Rank(S, low) \in Nat
    BY DEF Counts
  <1>2. 0 \in good
    BY <1>1
  <1>3. ASSUME NEW k \in 0..((high - low) - 1), k \in good PROVE k + 1 \in good
    <2>1. /\ low + k \in Nat /\ low + (k + 1) = (low + k) + 1 /\ k + 1 \in 0..(high - low)
          /\ (low + k) + 1 \in (low + 1)..high
      OBVIOUS
    <2>2. Rank(S, (low + k) + 1) = Rank(S, low + k) + 1
      BY <2>1 DEF Counts
    <2>3. Rank(S, low + k) = Rank(S, low) + k
      BY <1>3
    <2>4. Rank(S, low + (k + 1)) = Rank(S, low) + (k + 1)
      BY <1>1, <2>1, <2>2, <2>3
    <2> QED BY <2>1, <2>4
  <1>4. 0..(high - low) \subseteq good
    <2>1. high - low \in Nat /\ \A k \in 0..((high - low) - 1) : k \in good => k + 1 \in good
      <3> HIDE DEF good
      <3> QED BY <1>3
    <2> HIDE DEF good
    <2> QED BY <1>2, <2>1, CountUp
  <1>5. high - low \in good /\ low + (high - low) = high
    BY <1>4
  <1> QED BY <1>5

\* An editor counts lines and characters of its own text as the mapper does those
\* of the normalised one.
LEMMA EditorPositionMaps ==
  ASSUME NEW text \in Seq(Units), Paired(text),
         NEW content, content = normalizeSemanticText(text),
         NEW offset \in 0..Len(content)
  PROVE  EditorPosition(text, offset) = Edited(content, offset)
  <1>1. PICK body : body = Body(text)
    OBVIOUS
  <1>2. Normalises(body, content)
    BY <1>1, NormalisesText
  <1>3. PICK kept : kept = Kept(body)
    OBVIOUS
  <1>4. PICK second : second = Second(body)
    OBVIOUS
  <1>5. PICK n \in Nat : n = Len(body) /\ DOMAIN body = 1..n
    BY <1>2 DEF Normalises
  <1>6. PICK size \in Nat : size = Len(content) /\ DOMAIN content = 1..size
    BY <1>2 DEF Normalises
  <1>7. /\ \A i \in 1..n : i \in second <=> i \notin kept
        /\ \A i \in kept : i \in 1..n /\ i \in Nat
        /\ \A i \in second : /\ i \in 1..n /\ i - 1 \in 1..n
                             /\ body[i] = "lf" /\ body[i - 1] = "cr"
        /\ \A i \in 1..n : i - 1 \in 1..n /\ body[i] = "lf" /\ body[i - 1] = "cr" => i \in second
    BY <1>3, <1>4, <1>5 DEF Kept, Second
  <1>8. /\ Counts(kept) /\ IsFiniteSet(kept) /\ Cardinality(kept) = size
        /\ \A i \in kept : /\ Rank(kept, i) \in 1..size
                           /\ content[Rank(kept, i)] = IF body[i] = "cr" THEN "lf" ELSE body[i]
        /\ \A k \in 1..size : \E i \in kept : Rank(kept, i) = k
    BY <1>2, <1>3, <1>6 DEF Normalises
  \* Where the offset is in the text.
  <1>9. \A i \in 1..(n + 1) : Cardinality((1..(i - 1)) \ second) = Rank(kept, i - 1)
    <2> TAKE i \in 1..(n + 1)
    <2>1. \A j \in 1..(i - 1) : j \in 1..n
      OBVIOUS
    <2>2. (1..(i - 1)) \ second = {m \in kept : m <= i - 1}
      BY <1>7, <2>1
    <2> QED BY <2>2 DEF Rank
  <1>10. PICK at \in 1..(n + 1) :
           /\ at \notin second /\ Rank(kept, at - 1) = offset
           /\ \A i \in (1..(n + 1)) \ second : Rank(kept, i - 1) = offset => i = at
    <2>1. ASSUME NEW i \in kept
          PROVE  i \in 1..n /\ Rank(kept, i) = Rank(kept, i - 1) + 1 /\ Rank(kept, i - 1) \in Nat
      <3>1. i \in 1..n /\ i - 1 \in Nat /\ (i - 1) + 1 = i
        BY <1>7, <2>1
      <3>2. PICK j \in Nat : j = i - 1 /\ j + 1 = i
        BY <3>1
      <3>3. /\ Rank(kept, j) \in Nat
            /\ Rank(kept, j + 1) = Rank(kept, j) + (IF j + 1 \in kept THEN 1 ELSE 0)
        BY <1>8 DEF Counts
      <3> QED BY <2>1, <3>1, <3>2, <3>3
    <2>2. Rank(kept, n) = size
      <3>1. \A m \in kept : m <= n
        BY <1>7
      <3> QED BY <1>8, <3>1 DEF Counts
    <2>3. CASE offset = size
      <3>1. n + 1 \in 1..(n + 1) /\ (n + 1) - 1 = n /\ n + 1 \notin second
        BY <1>7
      <3>2. ASSUME NEW i \in (1..(n + 1)) \ second, Rank(kept, i - 1) = offset
            PROVE  i = n + 1
        <4> SUFFICES ASSUME i # n + 1 PROVE FALSE
          OBVIOUS
        <4>1. i \in kept
          <5>1. i \in 1..n /\ i \notin second
            OBVIOUS
          <5> QED BY <1>7, <5>1
        <4>2. Rank(kept, i) = size + 1 /\ Rank(kept, i) \in 1..size
          BY <1>8, <2>1, <2>3, <3>2, <4>1
        <4> QED BY <4>2
      <3> QED BY <2>2, <2>3, <3>1, <3>2
    <2>4. CASE offset # size
      <3>1. offset + 1 \in 1..size
        BY <1>6, <2>4
      <3>2. PICK i \in kept : Rank(kept, i) = offset + 1
        BY <1>8, <3>1
      <3>3. i \in 1..(n + 1) /\ i \notin second /\ Rank(kept, i - 1) = offset
        <4>1. i \in 1..n /\ Rank(kept, i) = Rank(kept, i - 1) + 1 /\ Rank(kept, i - 1) \in Nat
          BY <2>1
        <4>2. i \notin second
          BY <1>7, <4>1
        <4> QED BY <3>2, <4>1, <4>2
      <3>4. ASSUME NEW j \in (1..(n + 1)) \ second, Rank(kept, j - 1) = offset
            PROVE  j = i
        <4>1. j # n + 1
          BY <2>2, <2>4, <3>4
        <4>2. j \in 1..n /\ j \notin second
          BY <4>1
        <4>3. j \in kept
          BY <1>7, <4>2
        <4>4. Rank(kept, j) = offset + 1
          BY <2>1, <3>4, <4>3
        <4>5. i \in Nat /\ j \in Nat
          BY <1>7, <4>3
        <4>6. i < j => Rank(kept, i) < Rank(kept, j)
          BY <1>8, <4>3, <4>5 DEF Counts
        <4>7. j < i => Rank(kept, j) < Rank(kept, i)
          BY <1>8, <4>5 DEF Counts
        <4> QED BY <3>1, <3>2, <4>4, <4>5, <4>6, <4>7
      <3> QED BY <3>3, <3>4
    <2> QED BY <2>3, <2>4
  <1>11. Min({i \in (1..(n + 1)) \ second : Cardinality((1..(i - 1)) \ second) = offset}) = at
    <2>1. {i \in (1..(n + 1)) \ second : Cardinality((1..(i - 1)) \ second) = offset} = {at}
      BY <1>9, <1>10
    <2>2. {at} \in SUBSET Nat /\ {at} # {}
      OBVIOUS
    <2>3. Min({at}) = at
      BY <2>2, Least
    <2> QED BY <2>1, <2>3
  \* Its line: each break of the text is one of the content, and the other way round.
  <1>12. PICK breaks : breaks = {i \in 1..n : body[i] \in {"cr", "lf"} /\ i + 1 \notin second}
    OBVIOUS
  <1>13. PICK before : before = {i \in breaks : i < at}
    OBVIOUS
  <1>14. \A i \in before : i \in 1..n /\ i \in Nat /\ i > 0 /\ i < at /\ i \in breaks
    BY <1>12, <1>13
  <1>15. IsFiniteSet(before)
    <2>1. before \in SUBSET (1..n) /\ IsFiniteSet(1..n)
      BY <1>14, UpTo
    <2> QED BY <2>1, FS_Subset
  <1>16. PICK lines : lines = Breaks(content, FALSE)
    OBVIOUS
  <1>17. \A k \in 1..size : k \in lines <=> content[k] = "lf"
    BY <1>6, <1>16 DEF Breaks
  <1>18. \A k \in lines : k \in 1..size /\ k \in Nat
    BY <1>6, <1>16 DEF Breaks
  <1>19. PICK upto : upto = {k \in lines : k <= offset}
    OBVIOUS
  <1>20. \A i \in second : i - 1 \in kept /\ Rank(kept, i) = Rank(kept, i - 1)
    <2> TAKE i \in second
    <2>1. i \in 1..n /\ i - 1 \in 1..n /\ body[i - 1] = "cr"
      BY <1>7
    <2>2. i - 1 \in kept
      <3>1. body[i - 1] # "lf"
        BY <2>1
      <3>2. i - 1 \notin second
        BY <1>7, <3>1
      <3> QED BY <1>7, <2>1, <3>2
    <2>3. i - 1 \in Nat /\ (i - 1) + 1 = i /\ i \notin kept
      BY <1>7, <2>1
    <2>4. Rank(kept, i) = Rank(kept, i - 1) + 0
      BY <1>8, <2>3 DEF Counts
    <2>5. Rank(kept, i - 1) \in Nat
      BY <1>8, <2>3 DEF Counts
    <2> QED BY <2>2, <2>4, <2>5
  <1>21. ASSUME NEW i \in before PROVE Rank(kept, i) \in upto
    <2>1. /\ i \in 1..n /\ i \in Nat /\ i < at /\ (body[i] = "cr" \/ body[i] = "lf")
      BY <1>12, <1>14
    <2>2. Rank(kept, i) <= offset
      <3>1. i <= at - 1 /\ at - 1 \in Nat
        BY <2>1
      <3> QED BY <1>8, <1>10, <2>1, <3>1 DEF Counts
    <2>3. CASE i \in kept
      <3>1. Rank(kept, i) \in 1..size /\ content[Rank(kept, i)] = "lf"
        BY <1>8, <2>1, <2>3
      <3> QED BY <1>17, <1>19, <2>2, <3>1
    <2>4. CASE i \notin kept
      <3>1. i \in second
        BY <1>7, <2>1, <2>4
      <3>2. i - 1 \in kept /\ Rank(kept, i) = Rank(kept, i - 1) /\ body[i - 1] = "cr"
        BY <1>7, <1>20, <3>1
      <3>3. Rank(kept, i) \in 1..size /\ content[Rank(kept, i)] = "lf"
        BY <1>8, <3>2
      <3> QED BY <1>17, <1>19, <2>2, <3>3
    <2> QED BY <2>3, <2>4
  <1>22. ASSUME NEW i \in before, NEW j \in before, i < j
         PROVE  Rank(kept, i) < Rank(kept, j)
    <2>1. i \in Nat /\ j \in 1..n
      BY <1>14
    <2>2. CASE j \in kept
      BY <1>8, <1>22, <2>1, <2>2 DEF Counts
    <2>3. CASE j \notin kept
      <3>1. j \in second
        BY <1>7, <2>1, <2>3
      <3>2. j - 1 \in kept /\ Rank(kept, j) = Rank(kept, j - 1)
        BY <1>20, <3>1
      <3>3. i # j - 1
        <4>1. i + 1 \notin second
          BY <1>12, <1>13
        <4> QED BY <2>1, <3>1, <4>1
      <3>4. i < j - 1
        BY <1>22, <2>1, <3>3
      <3>5. Rank(kept, i) < Rank(kept, j - 1)
        BY <1>8, <2>1, <3>2, <3>4 DEF Counts
      <3> QED BY <3>2, <3>5
    <2> QED BY <2>2, <2>3
  <1>23. ASSUME NEW k \in upto PROVE \E i \in before : Rank(kept, i) = k
    <2>1. k \in 1..size /\ k <= offset /\ content[k] = "lf"
      BY <1>17, <1>18, <1>19
    <2>2. PICK i \in kept : Rank(kept, i) = k
      BY <1>8, <2>1
    <2>3. i \in 1..n /\ (body[i] = "cr" \/ body[i] = "lf")
      <3>1. content[k] = IF body[i] = "cr" THEN "lf" ELSE body[i]
        BY <1>8, <2>2
      <3> QED BY <1>7, <2>1, <2>2, <3>1
    <2>4. i < at
      <3> SUFFICES ASSUME at <= i PROVE FALSE
        BY <2>3
      <3>1. at - 1 \in Nat /\ at - 1 < i
        BY <2>3
      <3>2. Rank(kept, at - 1) < Rank(kept, i)
        BY <1>8, <3>1 DEF Counts
      <3> QED BY <1>10, <2>1, <2>2, <3>2
    <2>5. CASE i + 1 \notin second
      <3>1. i \in before
        BY <1>12, <1>13, <2>3, <2>4, <2>5
      <3> QED BY <2>2, <3>1
    <2>6. CASE i + 1 \in second
      <3>1. i + 1 \in 1..n /\ body[i + 1] = "lf" /\ (i + 1) - 1 = i
        BY <1>7, <2>3, <2>6
      <3>2. Rank(kept, i + 1) = k
        BY <1>20, <2>2, <2>6, <3>1
      <3>3. (i + 1) + 1 \notin second
        <4> SUFFICES ASSUME (i + 1) + 1 \in second PROVE FALSE
          OBVIOUS
        <4>1. ((i + 1) + 1) - 1 = i + 1
          BY <2>3
        <4>2. body[i + 1] = "cr"
          BY <1>7, <4>1
        <4> QED BY <3>1, <4>2
      <3>4. i + 1 < at
        <4>1. i + 1 # at
          BY <1>10, <2>6
        <4> QED BY <2>3, <2>4, <4>1
      <3>5. i + 1 \in before
        BY <1>12, <1>13, <3>1, <3>3, <3>4
      <3> QED BY <3>2, <3>5
    <2> QED BY <2>5, <2>6
  <1>24. Cardinality(before) = Rank(lines, offset)
    <2> DEFINE rank == [i \in before |-> Rank(kept, i)]
    <2>1. rank \in [before -> upto]
      BY <1>21
    <2>2. \A i, j \in before : rank[i] = rank[j] => i = j
      <3> SUFFICES ASSUME NEW i \in before, NEW j \in before, i < j, rank[i] = rank[j]
                   PROVE  FALSE
        BY <1>14
      <3>1. Rank(kept, i) < Rank(kept, j)
        BY <1>22
      <3>2. Rank(kept, i) \in Nat /\ Rank(kept, j) \in Nat
        BY <1>8, <1>14 DEF Counts
      <3> QED BY <3>1, <3>2
    <2>3. \A k \in upto : \E i \in before : rank[i] = k
      BY <1>23
    <2>4. rank \in Bijection(before, upto)
      <3> HIDE DEF rank
      <3> QED BY <2>1, <2>2, <2>3 DEF Bijection, Injection, Surjection, IsInjective
    <2>5. ExistsBijection(before, upto)
      BY <2>4 DEF ExistsBijection
    <2> QED BY <1>15, <1>19, <2>5, FS_Bijection DEF Rank
  \* Its character: what follows the last break is all kept.
  <1>25. PICK last : last = Max(before \cup {0})
    OBVIOUS
  <1>26. last \in before \cup {0} /\ last \in Nat /\ \A i \in before : i <= last
    <2>1. before \cup {0} \in SUBSET Nat /\ before \cup {0} # {}
      BY <1>14
    <2>2. IsFiniteSet(before \cup {0})
      BY <1>15, FS_AddElement
    <2>3. last \in before \cup {0} /\ \A i \in before \cup {0} : i <= last
      BY <1>25, <2>1, <2>2, Greatest
    <2> QED BY <1>14, <2>3
  <1>27. last <= at - 1 /\ at - 1 \in Nat
    BY <1>14, <1>26
  <1>28. \A i \in (last + 1)..(at - 1) : i \in kept
    <2> SUFFICES ASSUME NEW i \in (last + 1)..(at - 1), i \notin kept PROVE FALSE
      OBVIOUS
    <2>1. i \in 1..n /\ i < at /\ last < i
      BY <1>26, <1>27
    <2>2. i \in second
      BY <1>7, <2>1
    <2>3. body[i] = "lf"
      BY <1>7, <2>2
    <2>4. i + 1 \notin second
      <3> SUFFICES ASSUME i + 1 \in second PROVE FALSE
        OBVIOUS
      <3>1. (i + 1) - 1 = i
        BY <2>1
      <3>2. body[i] = "cr"
        BY <1>7, <3>1
      <3> QED BY <2>3, <3>2
    <2>5. i \in before
      BY <1>12, <1>13, <2>1, <2>3, <2>4
    <2>6. i <= last
      BY <1>26, <2>5
    <2> QED BY <1>26, <2>1, <2>6
  <1>29. offset = Rank(kept, last) + ((at - 1) - last)
    BY <1>8, <1>10, <1>26, <1>27, <1>28, RankRuns
  <1>30. Rank(kept, last) = Floor(lines, offset)
    <2>1. IsFiniteSet(lines)
      <3>1. IsFiniteSet(1..size) /\ lines \in SUBSET (1..size)
        BY <1>18, UpTo
      <3> QED BY <3>1, FS_Subset
    <2>2. offset \in Nat
      OBVIOUS
    <2>3. /\ Floor(lines, offset) \in Nat /\ Floor(lines, offset) <= offset
          /\ Floor(lines, offset) \in lines \cup {0}
          /\ \A m \in lines : m <= offset => m <= Floor(lines, offset)
      BY <1>18, <2>1, <2>2, FloorIs
    <2>4. Rank(kept, last) \in Nat
      BY <1>8, <1>26 DEF Counts
    <2>5. CASE last = 0
      <3>1. before = {}
        BY <1>14, <1>26, <2>5
      <3>2. \A m \in upto : FALSE
        BY <1>23, <3>1
      <3>3. Floor(lines, offset) = 0
        BY <1>19, <2>3, <3>2
      <3>4. Rank(kept, 0) = 0
        <4>1. \A m \in kept : 0 < m
          BY <1>7
        <4>2. 0 \in Nat
          OBVIOUS
        <4> QED BY <1>8, <4>1, <4>2 DEF Counts
      <3> QED BY <2>5, <3>3, <3>4
    <2>6. CASE last # 0
      <3>1. last \in before
        BY <1>26, <2>6
      <3>2. Rank(kept, last) \in lines /\ Rank(kept, last) <= offset
        BY <1>19, <1>21, <3>1
      <3>3. Rank(kept, last) <= Floor(lines, offset)
        BY <2>3, <3>2
      <3>4. Floor(lines, offset) # 0
        <4>1. Rank(kept, last) > 0
          BY <1>18, <3>2
        <4> QED BY <2>3, <2>4, <3>3, <4>1
      <3>5. Floor(lines, offset) \in upto
        BY <1>19, <2>3, <3>4
      <3>6. PICK i \in before : Rank(kept, i) = Floor(lines, offset)
        BY <1>23, <3>5
      <3>7. i <= last /\ i \in Nat
        BY <1>14, <1>26
      <3>8. Rank(kept, i) <= Rank(kept, last)
        BY <1>8, <1>26, <3>7 DEF Counts
      <3> QED BY <2>3, <2>4, <3>3, <3>6, <3>8
    <2> QED BY <2>5, <2>6
  <1>31. at - 1 - last = offset - Floor(lines, offset)
    <2>1. Rank(kept, last) \in Nat
      BY <1>8, <1>26 DEF Counts
    <2> QED BY <1>26, <1>27, <1>29, <1>30, <2>1
  <1>32. EditorPosition(text, offset) = [line |-> Cardinality(before), character |-> at - 1 - last]
    <2>1. EditorPosition(text, offset) =
            LET middle == Min({i \in (1..(Len(body) + 1)) \ second :
                                 Cardinality((1..(i - 1)) \ second) = offset})
                ends   == {i \in DOMAIN body : body[i] \in {"cr", "lf"} /\ i + 1 \notin second}
                early  == {i \in ends : i < middle}
            IN  [line |-> Cardinality(early), character |-> middle - 1 - Max(early \cup {0})]
      BY <1>1, <1>4 DEF EditorPosition, Body, Second
    <2> QED BY <1>5, <1>11, <1>12, <1>13, <1>25, <2>1
  <1> QED BY <1>16, <1>24, <1>31, <1>32 DEF Edited

-----------------------------------------------------------------------------
(***************************************************************************)
(* Legends                                                                 *)
(***************************************************************************)
\* What is picked from a sequence: the elements at the indices, in their order.
LEMMA PickedIs ==
  ASSUME NEW A, NEW s \in Seq(A), NEW S, \A x \in S : x \in DOMAIN s
  PROVE  /\ IsFiniteSet(S) /\ Cardinality(S) \in Nat
         /\ Picked(s, S) \in Seq(A) /\ Len(Picked(s, S)) = Cardinality(S)
         /\ \A k \in 1..Cardinality(S) : Picked(s, S)[k] = s[Ascending(S)[k]]
         /\ \A k \in 1..Cardinality(S) : Ascending(S)[k] \in S /\ Rank(S, Ascending(S)[k]) = k
         /\ \A x \in S : Rank(S, x) \in 1..Cardinality(S) /\ Picked(s, S)[Rank(S, x)] = s[x]
  <1>1. PICK n \in Nat : n = Len(s) /\ DOMAIN s = 1..n
    OBVIOUS
  <1>2. \A x \in S : x \in Nat
    BY <1>1
  <1>3. IsFiniteSet(S)
    <2>1. S \in SUBSET (1..n) /\ IsFiniteSet(1..n)
      BY <1>1, UpTo
    <2> QED BY <2>1, FS_Subset
  <1>4. Enumerates(S)
    BY <1>2, <1>3, AscendingEnumerates
  <1>5. PICK size \in Nat : size = Cardinality(S)
    BY <1>3, FS_CardinalityType
  <1>6. /\ \A k \in 1..size : Ascending(S)[k] \in S /\ Rank(S, Ascending(S)[k]) = k
        /\ \A x \in S : Rank(S, x) \in 1..size /\ Ascending(S)[Rank(S, x)] = x
    BY <1>4, <1>5 DEF Enumerates
  <1>7. Picked(s, S) = [k \in 1..size |-> s[Ascending(S)[k]]]
    BY <1>5 DEF Picked
  <1>8. \A k \in 1..size : s[Ascending(S)[k]] \in A
    BY <1>6
  <1>9. Picked(s, S) \in [1..size -> A]
    BY <1>7, <1>8
  <1>10. Picked(s, S) \in Seq(A) /\ Len(Picked(s, S)) = size
    BY <1>9
  <1> QED BY <1>3, <1>5, <1>6, <1>7, <1>10

\* Picking all leaves a sequence as it is.
LEMMA PickedAll ==
  ASSUME NEW A, NEW s \in Seq(A), NEW S, S = DOMAIN s
  PROVE  Picked(s, S) = s
  <1>1. PICK n \in Nat : n = Len(s) /\ S = 1..n
    OBVIOUS
  <1>2. \A x \in S : x \in DOMAIN s
    OBVIOUS
  <1>3. /\ IsFiniteSet(S) /\ Picked(s, S) \in Seq(A) /\ Len(Picked(s, S)) = Cardinality(S)
        /\ \A x \in S : Picked(s, S)[Rank(S, x)] = s[x]
    BY <1>2, PickedIs
  <1>4. Cardinality(S) = n
    <2>1. 1 \in Int /\ n \in Int
      OBVIOUS
    <2>2. Cardinality(1..n) = IF 1 > n THEN 0 ELSE n - 1 + 1
      BY <2>1, FS_Interval
    <2>3. Cardinality(1..n) = n
      BY <2>2
    <2> QED BY <1>1, <2>3
  <1>5. \A x \in 1..n : Rank(S, x) = x
    <2> TAKE x \in 1..n
    <2>1. {m \in S : m <= x} = 1..x
      BY <1>1
    <2>2. Cardinality(1..x) = x
      <3>1. 1 \in Int /\ x \in Int
        OBVIOUS
      <3> QED BY <3>1, FS_Interval
    <2> QED BY <2>1, <2>2 DEF Rank
  <1>6. \A x \in 1..n : Picked(s, S)[x] = s[x]
    BY <1>1, <1>3, <1>5
  <1>7. Len(s) = n /\ Len(Picked(s, S)) = n
    BY <1>1, <1>3, <1>4
  <1> QED BY <1>3, <1>6, <1>7

\* A list of names goes on with others.
Continues(names, more) ==
    Len(names) <= Len(more) /\ \A i \in 1..Len(names) : more[i] = names[i]

LEMMA AddedIs ==
  ASSUME NEW A, NEW names \in Seq(A), NEW more \in Seq(A), Distinct(names), Distinct(more)
  PROVE  /\ Added(names, more) \in Seq(A) /\ Distinct(Added(names, more))
         /\ Continues(names, Added(names, more))
         /\ ToSet(Added(names, more)) = ToSet(names) \cup ToSet(more)
  <1>1. PICK S : S = {i \in DOMAIN more : more[i] \notin ToSet(names)}
    OBVIOUS
  <1>2. PICK picked : picked = Picked(more, S)
    OBVIOUS
  <1>3. PICK m \in Nat : m = Cardinality(S)
    BY <1>1, PickedIs
  <1>4. /\ picked \in Seq(A) /\ Len(picked) = m
        /\ \A k \in 1..m : picked[k] = more[Ascending(S)[k]]
        /\ \A k \in 1..m : Ascending(S)[k] \in S /\ Rank(S, Ascending(S)[k]) = k
        /\ \A x \in S : Rank(S, x) \in 1..m /\ picked[Rank(S, x)] = more[x]
    <2>1. \A x \in S : x \in DOMAIN more
      BY <1>1
    <2> QED BY <1>2, <1>3, <2>1, PickedIs
  <1>5. PICK n \in Nat : n = Len(names) /\ DOMAIN names = 1..n
    OBVIOUS
  <1>6. PICK all : all = names \o picked
    OBVIOUS
  <1>7. /\ all \in Seq(A) /\ Len(all) = n + m
        /\ \A i \in 1..n : all[i] = names[i]
        /\ \A i \in (n + 1)..(n + m) : all[i] = picked[i - n]
    <2>1. names \in Seq(A) /\ picked \in Seq(A)
      BY <1>4
    <2>2. all \in Seq(A) /\ Len(all) = n + m
      <3>1. names \o picked \in Seq(A) /\ Len(names \o picked) = Len(names) + Len(picked)
        BY <2>1, ConcatProperties
      <3> QED BY <1>4, <1>5, <1>6, <3>1
    <2>3. \A i \in 1..n : all[i] = names[i]
      BY <1>4, <1>5, <1>6, <2>1
    <2>4. \A i \in (n + 1)..(n + m) : all[i] = picked[i - n]
      BY <1>4, <1>5, <1>6, <2>1
    <2> QED BY <2>2, <2>3, <2>4
  <1>8. Added(names, more) = all
    BY <1>1, <1>2, <1>6 DEF Added
  <1>9. \A k \in 1..m : picked[k] \notin ToSet(names) /\ picked[k] \in ToSet(more)
    <2> TAKE k \in 1..m
    <2>1. Ascending(S)[k] \in DOMAIN more /\ more[Ascending(S)[k]] \notin ToSet(names)
      BY <1>1, <1>4
    <2>2. more[Ascending(S)[k]] \in ToSet(more)
      BY <2>1 DEF ToSet
    <2> QED BY <1>4, <2>1, <2>2
  <1>10. \A i \in 1..n : names[i] \in ToSet(names)
    BY <1>5 DEF ToSet
  <1>11. ASSUME NEW i \in DOMAIN all, NEW j \in DOMAIN all, all[i] = all[j]
         PROVE  i = j
    <2>1. i \in 1..(n + m) /\ j \in 1..(n + m)
      BY <1>7
    <2>2. CASE i \in 1..n /\ j \in 1..n
      BY <1>5, <1>7, <1>11, <2>2 DEF Distinct
    <2>3. CASE i \in 1..n /\ j \notin 1..n
      <3>1. j \in (n + 1)..(n + m) /\ j - n \in 1..m
        BY <2>1, <2>3
      <3>2. all[j] = picked[j - n] /\ all[i] = names[i]
        BY <1>7, <2>3, <3>1
      <3> QED BY <1>9, <1>10, <1>11, <2>3, <3>1, <3>2
    <2>4. CASE i \notin 1..n /\ j \in 1..n
      <3>1. i \in (n + 1)..(n + m) /\ i - n \in 1..m
        BY <2>1, <2>4
      <3>2. all[i] = picked[i - n] /\ all[j] = names[j]
        BY <1>7, <2>4, <3>1
      <3> QED BY <1>9, <1>10, <1>11, <2>4, <3>1, <3>2
    <2>5. CASE i \notin 1..n /\ j \notin 1..n
      <3>1. /\ i \in (n + 1)..(n + m) /\ i - n \in 1..m
            /\ j \in (n + 1)..(n + m) /\ j - n \in 1..m
        BY <2>1, <2>5
      <3>2. more[Ascending(S)[i - n]] = more[Ascending(S)[j - n]]
        BY <1>4, <1>7, <1>11, <3>1
      <3>3. Ascending(S)[i - n] \in DOMAIN more /\ Ascending(S)[j - n] \in DOMAIN more
        BY <1>1, <1>4, <3>1
      <3>4. Ascending(S)[i - n] = Ascending(S)[j - n]
        BY <3>2, <3>3 DEF Distinct
      <3>5. i - n = j - n
        BY <1>4, <3>1, <3>4
      <3> QED BY <2>1, <3>5
    <2> QED BY <2>2, <2>3, <2>4, <2>5
  <1>12. Distinct(all)
    BY <1>11 DEF Distinct
  <1>13. ToSet(all) = ToSet(names) \cup ToSet(more)
    <2>1. ASSUME NEW x \in ToSet(all) PROVE x \in ToSet(names) \cup ToSet(more)
      <3>1. PICK i \in 1..(n + m) : x = all[i]
        BY <1>7 DEF ToSet
      <3>2. CASE i \in 1..n
        BY <1>7, <1>10, <3>1, <3>2
      <3>3. CASE i \notin 1..n
        <4>1. i \in (n + 1)..(n + m) /\ i - n \in 1..m
          BY <3>3
        <4> QED BY <1>7, <1>9, <3>1, <4>1
      <3> QED BY <3>2, <3>3
    <2>2. ASSUME NEW x \in ToSet(names) PROVE x \in ToSet(all)
      <3>1. PICK i \in 1..n : x = names[i]
        BY <1>5 DEF ToSet
      <3>2. i \in DOMAIN all /\ x = all[i]
        BY <1>7, <3>1
      <3> QED BY <3>2 DEF ToSet
    <2>3. ASSUME NEW x \in ToSet(more), x \notin ToSet(names) PROVE x \in ToSet(all)
      <3>1. PICK i \in DOMAIN more : x = more[i]
        BY DEF ToSet
      <3>2. i \in S
        BY <1>1, <2>3, <3>1
      <3>3. PICK k \in 1..m : picked[k] = x
        BY <1>4, <3>1, <3>2
      <3>4. n + k \in (n + 1)..(n + m) /\ (n + k) - n = k
        OBVIOUS
      <3>5. n + k \in DOMAIN all /\ all[n + k] = x
        BY <1>7, <3>3, <3>4
      <3> QED BY <3>5 DEF ToSet
    <2> QED BY <2>1, <2>2, <2>3
  <1>14. Continues(names, all)
    BY <1>5, <1>7 DEF Continues
  <1> QED BY <1>7, <1>8, <1>12, <1>13, <1>14

\* A list of distinct names has as many places as names.
LEMMA DistinctCounts ==
  ASSUME NEW A, NEW names \in Seq(A), Distinct(names)
  PROVE  Cardinality(ToSet(names)) = Len(names)
  <1>1. PICK n \in Nat : n = Len(names) /\ DOMAIN names = 1..n
    OBVIOUS
  <1>2. names \in [1..n -> ToSet(names)]
    BY <1>1 DEF ToSet
  <1>3. \A i, j \in 1..n : names[i] = names[j] => i = j
    BY <1>1 DEF Distinct
  <1>4. \A x \in ToSet(names) : \E i \in 1..n : names[i] = x
    BY <1>1 DEF ToSet
  <1>5. names \in Bijection(1..n, ToSet(names))
    BY <1>2, <1>3, <1>4 DEF Bijection, Injection, Surjection, IsInjective
  <1>6. ExistsBijection(1..n, ToSet(names))
    BY <1>5 DEF ExistsBijection
  <1> QED BY <1>1, <1>6, FS_CountingElements

\* A name is where it is said to be.
LEMMA IndexOfIs ==
  ASSUME NEW A, NEW names \in Seq(A), NEW name \in ToSet(names)
  PROVE  /\ IndexOf(names, name) \in 0..(Len(names) - 1)
         /\ names[IndexOf(names, name) + 1] = name
  <1>1. PICK i \in DOMAIN names : names[i] = name
    BY DEF ToSet
  <1>2. PICK at \in DOMAIN names : /\ names[at] = name
                                  /\ at = CHOOSE j \in DOMAIN names : names[j] = name
    BY <1>1
  <1>3. IndexOf(names, name) = at - 1 /\ at \in 1..Len(names)
    BY <1>2 DEF IndexOf
  <1>4. (at - 1) + 1 = at /\ at - 1 \in 0..(Len(names) - 1)
    BY <1>3
  <1> QED BY <1>2, <1>3, <1>4

-----------------------------------------------------------------------------
(***************************************************************************)
(* Token by token                                                          *)
(***************************************************************************)
\* The greatest of some numbers up to k + 1.
LEMMA GreatestOfMore ==
  ASSUME NEW k \in Nat, NEW t \in SUBSET (1..(k + 1)), t # {}
  PROVE  /\ Max(t) \in t /\ t \ {Max(t)} \in SUBSET (1..k)
         /\ t \in SUBSET (1..k) => t \ {Max(t)} \in SUBSET (1..k)
         /\ t \notin SUBSET (1..k) => Max(t) = k + 1
  <1>1. t \in SUBSET Nat /\ IsFiniteSet(t)
    <2>1. k + 1 \in Nat
      OBVIOUS
    <2>2. IsFiniteSet(1..(k + 1))
      BY <2>1, UpTo
    <2>3. t \in SUBSET Nat
      OBVIOUS
    <2> QED BY <2>2, <2>3, FS_Subset
  <1>2. Max(t) \in t /\ \A x \in t : x <= Max(t)
    BY <1>1, Greatest
  <1>3. PICK m \in 1..(k + 1) : m = Max(t)
    BY <1>2
  <1>4. \A x \in t : x \in 1..(k + 1) /\ x <= m
    BY <1>2, <1>3
  <1>5. \A x \in t \ {m} : x \in 1..k
    BY <1>4
  <1>6. ASSUME t \notin SUBSET (1..k) PROVE m = k + 1
    <2>1. PICK x \in t : x \notin 1..k
      BY <1>6
    <2> QED BY <1>4, <2>1
  <1> QED BY <1>2, <1>3, <1>5, <1>6

TakesFrom(content, legend, data, n, path) ==
    /\ path[0] = Start
    /\ \A k \in 1..n : path[k] = TakeToken(content, legend, path[k - 1], data[k])

LEMMA TakesOneByOne ==
  ASSUME NEW content, NEW legend, NEW n \in Nat, NEW data, DOMAIN data = 1..n
  PROVE  \E path : /\ TakesFrom(content, legend, data, n, path)
                   /\ semanticTokenCandidates(content, legend, data)
                        = IF validateSemanticTokens(data, legend) THEN path[n] ELSE Refusal
  <1> DEFINE Steps(k, h) ==
               h = [t \in SUBSET (1..k) |->
                      IF t = {} THEN Start
                      ELSE TakeToken(content, legend, h[t \ {Max(t)}], data[Max(t)])]
             good == {k \in Nat : \E h : Steps(k, h)}
  <1>1. 0 \in good
    <2> DEFINE h == [t \in SUBSET (1..0) |-> Start]
    <2>1. \A t \in SUBSET (1..0) : t = {}
      OBVIOUS
    <2>2. h = [t \in SUBSET (1..0) |->
                 IF t = {} THEN Start
                 ELSE TakeToken(content, legend, h[t \ {Max(t)}], data[Max(t)])]
      BY <2>1
    <2>3. Steps(0, h)
      BY <2>2
    <2> HIDE DEF h, Steps
    <2> QED BY <2>3
  <1>2. ASSUME NEW k \in Nat, k \in good PROVE k + 1 \in good
    <2>1. PICK h : Steps(k, h)
      BY <1>2
    <2> DEFINE Next1(t) == TakeToken(content, legend, h[t \ {Max(t)}], data[Max(t)])
               more == [t \in SUBSET (1..(k + 1)) |-> IF t = {} THEN Start ELSE Next1(t)]
    <2>2. \A t \in SUBSET (1..k) : t \in SUBSET (1..(k + 1))
      OBVIOUS
    <2>3. \A t \in SUBSET (1..k) : more[t] = h[t]
      <3>1. \A t \in SUBSET (1..k) : h[t] = IF t = {} THEN Start ELSE Next1(t)
        BY <2>1
      <3> HIDE DEF Next1
      <3> QED BY <2>2, <3>1
    <2>4. \A t \in SUBSET (1..(k + 1)) : t # {} => t \ {Max(t)} \in SUBSET (1..k)
      BY GreatestOfMore
    <2>5. \A t \in SUBSET (1..(k + 1)) : t # {} =>
             Next1(t) = TakeToken(content, legend, more[t \ {Max(t)}], data[Max(t)])
      <3> HIDE DEF more
      <3> QED BY <2>3, <2>4
    <2>6. more = [t \in SUBSET (1..(k + 1)) |->
                    IF t = {} THEN Start
                    ELSE TakeToken(content, legend, more[t \ {Max(t)}], data[Max(t)])]
      <3> DEFINE Next2(t) == TakeToken(content, legend, more[t \ {Max(t)}], data[Max(t)])
      <3>1. \A t \in SUBSET (1..(k + 1)) : t # {} => Next1(t) = Next2(t)
        BY <2>5
      <3>2. more = [t \in SUBSET (1..(k + 1)) |-> IF t = {} THEN Start ELSE Next1(t)]
        OBVIOUS
      <3> HIDE DEF Next1, Next2, more
      <3>3. more = [t \in SUBSET (1..(k + 1)) |-> IF t = {} THEN Start ELSE Next2(t)]
        BY <3>1, <3>2
      <3> QED BY <3>3 DEF Next2
    <2>7. Steps(k + 1, more)
      BY <2>6
    <2> HIDE DEF more, Steps
    <2> QED BY <2>7
  <1>3. n \in good
    <2>1. \A k \in 0..(n - 1) : k \in good => k + 1 \in good
      <3> HIDE DEF good
      <3> QED BY <1>2
    <2> HIDE DEF good
    <2>2. 0..n \subseteq good
      BY <1>1, <2>1, CountUp
    <2> QED BY <2>2
  <1>4. PICK h : Steps(n, h)
    BY <1>3
  <1> DEFINE g == CHOOSE g0 :
                    g0 = [t \in SUBSET (1..n) |->
                            IF t = {} THEN Start
                            ELSE TakeToken(content, legend, g0[t \ {Max(t)}], data[Max(t)])]
  <1>5. g = [t \in SUBSET (1..n) |->
               IF t = {} THEN Start
               ELSE TakeToken(content, legend, g[t \ {Max(t)}], data[Max(t)])]
    BY <1>4
  <1>6. semanticTokenCandidates(content, legend, data)
          = IF validateSemanticTokens(data, legend) THEN g[1..n] ELSE Refusal
    BY DEF semanticTokenCandidates, FoldLeft, MapThenFoldSet
  <1> HIDE DEF g
  <1> DEFINE path == [k \in 0..n |-> g[1..k]]
  <1>7. path[0] = Start
    <2>1. 1..0 = {} /\ {} \in SUBSET (1..n) /\ 0 \in 0..n
      OBVIOUS
    <2>2. g[{}] = Start
      BY <1>5, <2>1
    <2> QED BY <2>1, <2>2
  <1>8. ASSUME NEW k \in 1..n
        PROVE  path[k] = TakeToken(content, legend, path[k - 1], data[k])
    <2>1. /\ 1..k # {} /\ Max(1..k) = k /\ (1..k) \ {k} = 1..(k - 1)
          /\ 1..k \in SUBSET (1..n) /\ k \in 0..n /\ k - 1 \in 0..n
      BY UpTo
    <2>2. g[1..k] = TakeToken(content, legend, g[(1..k) \ {Max(1..k)}], data[Max(1..k)])
      BY <1>5, <2>1
    <2>3. g[1..k] = TakeToken(content, legend, g[1..(k - 1)], data[k])
      BY <2>1, <2>2
    <2> QED BY <2>1, <2>3
  <1>9. path[n] = g[1..n]
    OBVIOUS
  <1>10. TakesFrom(content, legend, data, n, path)
    <2> HIDE DEF path
    <2> QED BY <1>7, <1>8 DEF TakesFrom
  <1> HIDE DEF path
  <1> QED BY <1>6, <1>9, <1>10

NothingDecoded == [line |-> 0, from |-> 0, tokens |-> <<>>]

DecodesFrom(legend, data, n, path) ==
    /\ path[0] = NothingDecoded
    /\ \A k \in 1..n : path[k] = DecodeToken(legend, path[k - 1], data[k])

LEMMA DecodesOneByOne ==
  ASSUME NEW legend, NEW n \in Nat, NEW row, NEW data, data = row.data, DOMAIN data = 1..n
  PROVE  \E path : /\ DecodesFrom(legend, data, n, path)
                   /\ Decoded(row, legend) = path[n].tokens
  <1> DEFINE Steps(k, h) ==
               h = [t \in SUBSET (1..k) |->
                      IF t = {} THEN NothingDecoded
                      ELSE DecodeToken(legend, h[t \ {Max(t)}], data[Max(t)])]
             good == {k \in Nat : \E h : Steps(k, h)}
  <1>1. 0 \in good
    <2> DEFINE h == [t \in SUBSET (1..0) |-> NothingDecoded]
    <2>1. \A t \in SUBSET (1..0) : t = {}
      OBVIOUS
    <2>2. h = [t \in SUBSET (1..0) |->
                 IF t = {} THEN NothingDecoded
                 ELSE DecodeToken(legend, h[t \ {Max(t)}], data[Max(t)])]
      BY <2>1
    <2>3. Steps(0, h)
      BY <2>2
    <2> HIDE DEF h, Steps
    <2> QED BY <2>3
  <1>2. ASSUME NEW k \in Nat, k \in good PROVE k + 1 \in good
    <2>1. PICK h : Steps(k, h)
      BY <1>2
    <2> DEFINE Next1(t) == DecodeToken(legend, h[t \ {Max(t)}], data[Max(t)])
               more == [t \in SUBSET (1..(k + 1)) |-> IF t = {} THEN NothingDecoded ELSE Next1(t)]
    <2>2. \A t \in SUBSET (1..k) : t \in SUBSET (1..(k + 1))
      OBVIOUS
    <2>3. \A t \in SUBSET (1..k) : more[t] = h[t]
      <3>1. \A t \in SUBSET (1..k) : h[t] = IF t = {} THEN NothingDecoded ELSE Next1(t)
        BY <2>1
      <3> HIDE DEF Next1
      <3> QED BY <2>2, <3>1
    <2>4. \A t \in SUBSET (1..(k + 1)) : t # {} => t \ {Max(t)} \in SUBSET (1..k)
      BY GreatestOfMore
    <2>5. \A t \in SUBSET (1..(k + 1)) : t # {} =>
             Next1(t) = DecodeToken(legend, more[t \ {Max(t)}], data[Max(t)])
      <3> HIDE DEF more
      <3> QED BY <2>3, <2>4
    <2>6. more = [t \in SUBSET (1..(k + 1)) |->
                    IF t = {} THEN NothingDecoded
                    ELSE DecodeToken(legend, more[t \ {Max(t)}], data[Max(t)])]
      <3> DEFINE Next2(t) == DecodeToken(legend, more[t \ {Max(t)}], data[Max(t)])
      <3>1. \A t \in SUBSET (1..(k + 1)) : t # {} => Next1(t) = Next2(t)
        BY <2>5
      <3>2. more = [t \in SUBSET (1..(k + 1)) |-> IF t = {} THEN NothingDecoded ELSE Next1(t)]
        OBVIOUS
      <3> HIDE DEF Next1, Next2, more
      <3>3. more = [t \in SUBSET (1..(k + 1)) |-> IF t = {} THEN NothingDecoded ELSE Next2(t)]
        BY <3>1, <3>2
      <3> QED BY <3>3 DEF Next2
    <2>7. Steps(k + 1, more)
      BY <2>6
    <2> HIDE DEF more, Steps
    <2> QED BY <2>7
  <1>3. n \in good
    <2>1. \A k \in 0..(n - 1) : k \in good => k + 1 \in good
      <3> HIDE DEF good
      <3> QED BY <1>2
    <2> HIDE DEF good
    <2>2. 0..n \subseteq good
      BY <1>1, <2>1, CountUp
    <2> QED BY <2>2
  <1>4. PICK h : Steps(n, h)
    BY <1>3
  <1> DEFINE g == CHOOSE g0 :
                    g0 = [t \in SUBSET (1..n) |->
                            IF t = {} THEN NothingDecoded
                            ELSE DecodeToken(legend, g0[t \ {Max(t)}], data[Max(t)])]
  <1>5. g = [t \in SUBSET (1..n) |->
               IF t = {} THEN NothingDecoded
               ELSE DecodeToken(legend, g[t \ {Max(t)}], data[Max(t)])]
    BY <1>4
  <1>6. Decoded(row, legend) = g[1..n].tokens
    BY DEF Decoded, NothingDecoded, FoldLeft, MapThenFoldSet
  <1> HIDE DEF g
  <1> DEFINE path == [k \in 0..n |-> g[1..k]]
  <1>7. path[0] = NothingDecoded
    <2>1. 1..0 = {} /\ {} \in SUBSET (1..n) /\ 0 \in 0..n
      OBVIOUS
    <2>2. g[{}] = NothingDecoded
      BY <1>5, <2>1
    <2> QED BY <2>1, <2>2
  <1>8. ASSUME NEW k \in 1..n
        PROVE  path[k] = DecodeToken(legend, path[k - 1], data[k])
    <2>1. /\ 1..k # {} /\ Max(1..k) = k /\ (1..k) \ {k} = 1..(k - 1)
          /\ 1..k \in SUBSET (1..n) /\ k \in 0..n /\ k - 1 \in 0..n
      BY UpTo
    <2>2. g[1..k] = DecodeToken(legend, g[(1..k) \ {Max(1..k)}], data[Max(1..k)])
      BY <1>5, <2>1
    <2>3. g[1..k] = DecodeToken(legend, g[1..(k - 1)], data[k])
      BY <2>1, <2>2
    <2> QED BY <2>1, <2>3
  <1>9. path[n] = g[1..n]
    OBVIOUS
  <1>10. DecodesFrom(legend, data, n, path)
    <2> HIDE DEF path
    <2> QED BY <1>7, <1>8 DEF DecodesFrom
  <1> HIDE DEF path
  <1> QED BY <1>6, <1>9, <1>10

-----------------------------------------------------------------------------
(***************************************************************************)
(* What the crawler makes of a server's tokens                              *)
(***************************************************************************)
Text(content) == content \in Seq(Units) /\ Paired(content)

Counting == upstream.encoding \in PositionEncodings /\ upstream.unicodeLineBreaks \in BOOLEAN

\* What is known of the tokens of a server.
Listed(content, list) ==
    /\ Len(list) \in Nat /\ DOMAIN list = 1..Len(list)
    /\ \A i \in 1..Len(list) :
          /\ list[i].span[1] \in 0..Len(content) /\ list[i].span[2] \in 0..Len(content)
          /\ list[i].span[1] < list[i].span[2]
          /\ Boundary(content, list[i].span[1]) /\ Boundary(content, list[i].span[2])
          /\ list[i].means = <<list[i].means[1], list[i].means[2]>>
    /\ \A i \in 1..(Len(list) - 1) : list[i].span[1] <= list[i + 1].span[1]

Named(legend, list) == \A i \in 1..Len(list) : Expressible(legend, list[i].means)

\* The first tokens can be shown: each on one line, none in the midst of another.
Alone(content, t) ==
    ServerPosition(content, t.span[1]).line = ServerPosition(content, t.span[2]).line

Apart(t, u) == t.span[2] <= u.span[1]

Clear(content, list, k) ==
    /\ \A i \in 1..k : Alone(content, list[i])
    /\ \A i \in 1..(k - 1) : Apart(list[i], list[i + 1])

\* The server counts as Served does.
LEMMA ServerPositionIs ==
  ASSUME NEW content, NEW o
  PROVE  ServerPosition(content, o)
           = Served(content, upstream.encoding, upstream.unicodeLineBreaks, o)
  BY DEF ServerPosition, Served, Rank, Floor

\* In the editor's coordinates.
Origin == [line |-> 0, character |-> 0]

EditedBefore(content, list, i) ==
    IF i = 1 THEN Origin ELSE Edited(content, list[i - 1].span[1])

ShownToken(content, list, legend, i) ==
    [deltaLine |-> Edited(content, list[i].span[1]).line - EditedBefore(content, list, i).line,
     deltaCharacter |-> Relative(Edited(content, list[i].span[1]), EditedBefore(content, list, i)),
     length |-> list[i].span[2] - list[i].span[1],
     type |-> IndexOf(legend.types, list[i].means[1]),
     modifiers |-> {IndexOf(legend.modifiers, m) : m \in list[i].means[2]}]

Shown(content, list, legend, k) == [i \in 1..k |-> ShownToken(content, list, legend, i)]

\* In the server's.
FoundRange(content, t) ==
    [line |-> ServerPosition(content, t.span[1]).line,
     from |-> ServerPosition(content, t.span[1]).character,
     to   |-> ServerPosition(content, t.span[1]).character
                + Width(content, upstream.encoding, t.span[1], t.span[2])]

Found(content, list, k) ==
    {FoundRange(content, list[i]) : i \in {j \in 1..k : list[j].means[1] \in Navigable}}

LEMMA EditedIs ==
  ASSUME NEW content \in Seq(Units), NEW o \in 0..Len(content)
  PROVE  /\ Edited(content, o).line \in Nat /\ Edited(content, o).character \in Nat
         /\ Edited(content, o) # NoPosition
         /\ Edited(content, o) = [line |-> Edited(content, o).line,
                                  character |-> Edited(content, o).character]
         /\ Edited(content, o).line = Rank(Breaks(content, FALSE), o)
         /\ Edited(content, o).character = o - Floor(Breaks(content, FALSE), o)
  <1>1. PICK breaks : breaks = Breaks(content, FALSE)
    OBVIOUS
  <1>2. \A x \in breaks : x \in Nat
    BY <1>1 DEF Breaks
  <1>3. IsFiniteSet(breaks)
    <2>1. FALSE \in BOOLEAN
      OBVIOUS
    <2>2. HasLines(content, FALSE)
      BY <2>1, Lines
    <2> QED BY <1>1, <2>2 DEF HasLines
  <1>4. o \in Nat
    OBVIOUS
  <1>5. Rank(breaks, o) \in Nat
    BY <1>2, <1>3, <1>4, RankCounts DEF Counts
  <1>6. Floor(breaks, o) \in Nat /\ Floor(breaks, o) <= o
    BY <1>2, <1>3, <1>4, FloorIs
  <1>7. Edited(content, o) = [line |-> Rank(breaks, o), character |-> o - Floor(breaks, o)]
    BY <1>1 DEF Edited
  <1>8. /\ Edited(content, o).line = Rank(breaks, o)
        /\ Edited(content, o).character = o - Floor(breaks, o)
    BY <1>7
  <1>9. Edited(content, o) # NoPosition
    <2>1. NoPosition.line = -1
      BY DEF NoPosition
    <2> QED BY <1>5, <1>8, <2>1
  <1>10. Edited(content, o) = [line |-> Edited(content, o).line,
                               character |-> Edited(content, o).character]
    BY <1>7, <1>8
  <1>11. Edited(content, o).line \in Nat /\ Edited(content, o).character \in Nat
    BY <1>4, <1>5, <1>6, <1>8
  <1> QED BY <1>1, <1>8, <1>9, <1>10, <1>11

\* Where a token begins is mapped to where an editor has it.
LEMMA StartMaps ==
  ASSUME NEW content, Text(content), Counting, NEW a \in 0..Len(content), Boundary(content, a)
  PROVE  /\ toUtf16Position(content, upstream.encoding, upstream.unicodeLineBreaks,
                            [line |-> ServerPosition(content, a).line,
                             character |-> ServerPosition(content, a).character])
              = Edited(content, a)
         /\ ServerPosition(content, a).line \in Nat
         /\ ServerPosition(content, a).character \in Nat
  <1>1. PICK encoding \in PositionEncodings, unicode \in BOOLEAN :
          encoding = upstream.encoding /\ unicode = upstream.unicodeLineBreaks
    BY DEF Counting
  <1>2. content \in Seq(Units) /\ Paired(content)
    BY DEF Text
  <1>3. PICK served : served = Served(content, encoding, unicode, a)
    OBVIOUS
  <1>4. served = ServerPosition(content, a)
    BY <1>1, <1>3, ServerPositionIs
  <1>5. PICK upto : Measures(content, encoding, upto)
    BY <1>2, WidthsMeasure
  <1>6. Width(content, encoding, a, a) = 0
    <2>1. a <= a /\ upto[a] \in Nat /\ Width(content, encoding, a, a) = upto[a] - upto[a]
      BY <1>5 DEF Measures
    <2> QED BY <2>1
  <1>7. served.line \in Nat /\ served.character \in Nat
    <2>1. PICK breaks : breaks = Breaks(content, unicode)
      OBVIOUS
    <2>2. \A x \in breaks : x \in Nat
      BY <2>1 DEF Breaks
    <2>3. IsFiniteSet(breaks) /\ a \in Nat
      BY <1>2, <2>1, Lines DEF HasLines
    <2>4. Rank(breaks, a) \in Nat
      BY <2>2, <2>3, RankCounts DEF Counts
    <2>5. Floor(breaks, a) \in Nat /\ Floor(breaks, a) <= a
      BY <2>2, <2>3, FloorIs
    <2>6. PICK start \in 0..Len(content) : start = Floor(breaks, a) /\ start <= a
      BY <2>5
    <2>7. Width(content, encoding, start, a) = upto[a] - upto[start]
      BY <1>5, <2>6 DEF Measures
    <2>8. upto[start] <= upto[a] /\ upto[start] \in Nat /\ upto[a] \in Nat
      BY <1>2, <1>5, <2>6, WidthsGrow DEF Grows, Measures
    <2>9. Width(content, encoding, start, a) \in Nat
      BY <2>7, <2>8
    <2>10. served = [line |-> Rank(breaks, a), character |-> Width(content, encoding, start, a)]
      BY <1>3, <2>1, <2>6 DEF Served
    <2> QED BY <2>4, <2>9, <2>10
  <1>8. served.character + Width(content, encoding, a, a) = served.character
    BY <1>6, <1>7
  <1>9. toUtf16Position(content, encoding, unicode,
          [line |-> served.line,
           character |-> served.character + Width(content, encoding, a, a)])
          = Edited(content, a)
    <2>1. a <= a
      OBVIOUS
    <2>2. toUtf16Position(content, encoding, unicode,
            [line |-> Served(content, encoding, unicode, a).line,
             character |-> Served(content, encoding, unicode, a).character
                             + Width(content, encoding, a, a)])
           = IF Served(content, encoding, unicode, a).line
                  = Served(content, encoding, unicode, a).line
               THEN Edited(content, a) ELSE NoPosition
      BY <1>2, <2>1, SpanMaps
    <2> QED BY <1>3, <2>2
  <1> QED BY <1>1, <1>4, <1>7, <1>8, <1>9

\* Its end, counted from its beginning, is mapped if it is on the same line of
\* the server's, and nowhere else.
LEMMA EndMaps ==
  ASSUME NEW content, Text(content), Counting,
         NEW a \in 0..Len(content), NEW b \in 0..Len(content), a < b,
         Boundary(content, a), Boundary(content, b)
  PROVE  /\ toUtf16Position(content, upstream.encoding, upstream.unicodeLineBreaks,
                            [line |-> ServerPosition(content, a).line,
                             character |-> ServerPosition(content, a).character
                                             + Width(content, upstream.encoding, a, b)])
              = IF ServerPosition(content, a).line = ServerPosition(content, b).line
                  THEN Edited(content, b) ELSE NoPosition
         /\ Width(content, upstream.encoding, a, b) \in Nat
         /\ Width(content, upstream.encoding, a, b) > 0
  <1>1. PICK encoding \in PositionEncodings, unicode \in BOOLEAN :
          encoding = upstream.encoding /\ unicode = upstream.unicodeLineBreaks
    BY DEF Counting
  <1>2. content \in Seq(Units) /\ Paired(content) /\ a <= b
    BY DEF Text
  <1>3. /\ Served(content, encoding, unicode, a) = ServerPosition(content, a)
        /\ Served(content, encoding, unicode, b) = ServerPosition(content, b)
    BY <1>1, ServerPositionIs
  <1>4. toUtf16Position(content, encoding, unicode,
            [line |-> Served(content, encoding, unicode, a).line,
             character |-> Served(content, encoding, unicode, a).character
                             + Width(content, encoding, a, b)])
           = IF Served(content, encoding, unicode, a).line
                  = Served(content, encoding, unicode, b).line
               THEN Edited(content, b) ELSE NoPosition
    BY <1>2, SpanMaps
  <1>5. PICK upto : Measures(content, encoding, upto)
    BY <1>2, WidthsMeasure
  <1>6. /\ Width(content, encoding, a, b) = upto[b] - upto[a]
        /\ upto[a] \in Nat /\ upto[b] \in Nat
    BY <1>2, <1>5 DEF Measures
  <1>7. upto[a] < upto[b]
    BY <1>2, <1>5, WidthsGrow DEF Grows
  <1> QED BY <1>1, <1>3, <1>4, <1>6, <1>7

\* What is on one line for the server is on one line in the editor.
LEMMA SameServedLine ==
  ASSUME NEW content, Text(content), Counting,
         NEW a \in 0..Len(content), NEW b \in 0..Len(content), a <= b,
         ServerPosition(content, a).line = ServerPosition(content, b).line
  PROVE  /\ Edited(content, a).line = Edited(content, b).line
         /\ Edited(content, b).character - Edited(content, a).character = b - a
  <1>1. PICK encoding \in PositionEncodings, unicode \in BOOLEAN :
          encoding = upstream.encoding /\ unicode = upstream.unicodeLineBreaks
    BY DEF Counting
  <1>2. content \in Seq(Units)
    BY DEF Text
  <1>3. PICK all : all = Breaks(content, unicode)
    OBVIOUS
  <1>4. PICK lf : lf = Breaks(content, FALSE)
    OBVIOUS
  <1>5. /\ \A x \in all : x \in Nat
        /\ \A x \in lf : x \in all /\ x \in Nat
    BY <1>3, <1>4 DEF Breaks
  <1>6. IsFiniteSet(all)
    BY <1>2, <1>3, Lines DEF HasLines
  <1>7. Rank(all, a) = Rank(all, b)
    BY <1>1, <1>3, ServerPositionIs DEF Served
  <1>8. a \in Nat /\ b \in Nat
    OBVIOUS
  <1>9. Rank(lf, a) = Rank(lf, b) /\ Floor(lf, a) = Floor(lf, b)
    <2>1. \A x \in lf : x \in all
      BY <1>5
    <2> QED BY <1>5, <1>6, <1>7, <1>8, <2>1, SameLine
  <1>10. IsFiniteSet(lf)
    <2>1. lf \in SUBSET all
      BY <1>5
    <2> QED BY <1>6, <2>1, FS_Subset
  <1>11. Floor(lf, a) \in Nat
    BY <1>5, <1>8, <1>10, FloorIs
  <1>12. /\ Edited(content, a) = [line |-> Rank(lf, a), character |-> a - Floor(lf, a)]
         /\ Edited(content, b) = [line |-> Rank(lf, b), character |-> b - Floor(lf, b)]
    BY <1>4 DEF Edited
  <1>13. (b - Floor(lf, b)) - (a - Floor(lf, a)) = b - a
    BY <1>8, <1>9, <1>11
  <1> QED BY <1>9, <1>12, <1>13

\* In the midst of what was before, on its line: before its end.
LEMMA Overlaps ==
  ASSUME NEW content, Text(content),
         NEW p \in 0..Len(content), NEW q \in 0..Len(content), NEW o \in 0..Len(content),
         p <= q, p <= o, Edited(content, p).line = Edited(content, q).line
  PROVE  /\ Edited(content, o).line = Edited(content, p).line
         /\ Edited(content, o).character < Edited(content, q).character
         <=> o < q
  <1>1. PICK lf : lf = Breaks(content, FALSE)
    OBVIOUS
  <1>2. content \in Seq(Units) /\ p \in Nat /\ q \in Nat /\ o \in Nat /\ FALSE \in BOOLEAN
    BY DEF Text
  <1>3. \A x \in lf : x \in Nat
    BY <1>1 DEF Breaks
  <1>4. IsFiniteSet(lf)
    BY <1>1, <1>2, Lines DEF HasLines
  <1>5. Counts(lf)
    BY <1>3, <1>4, RankCounts
  <1>6. /\ Edited(content, p) = [line |-> Rank(lf, p), character |-> p - Floor(lf, p)]
        /\ Edited(content, q) = [line |-> Rank(lf, q), character |-> q - Floor(lf, q)]
        /\ Edited(content, o) = [line |-> Rank(lf, o), character |-> o - Floor(lf, o)]
    BY <1>1 DEF Edited
  <1>7. Rank(lf, p) = Rank(lf, q)
    BY <1>6
  <1>8. \A x \in lf : x \in lf
    OBVIOUS
  <1>9. Floor(lf, p) = Floor(lf, q)
    BY <1>2, <1>3, <1>4, <1>7, <1>8, SameLine
  <1>10. Rank(lf, o) = Rank(lf, p) => Floor(lf, o) = Floor(lf, p)
    BY <1>2, <1>3, <1>4, <1>8, SameLine
  <1>11. Floor(lf, p) \in Nat
    BY <1>2, <1>3, <1>4, FloorIs
  <1>12. o < q => Rank(lf, o) = Rank(lf, p)
    <2>1. o < q => Rank(lf, p) <= Rank(lf, o) /\ Rank(lf, o) <= Rank(lf, q)
      BY <1>2, <1>5 DEF Counts
    <2>2. Rank(lf, p) \in Nat /\ Rank(lf, o) \in Nat
      BY <1>2, <1>5 DEF Counts
    <2> QED BY <1>7, <2>1, <2>2
  <1>13. Rank(lf, o) = Rank(lf, p) =>
           (o - Floor(lf, o) < q - Floor(lf, q) <=> o < q)
    BY <1>2, <1>9, <1>10, <1>11
  <1> QED BY <1>6, <1>12, <1>13

ServedBefore(content, list, k) ==
    IF k = 1 THEN Origin ELSE ServerPosition(content, list[k - 1].span[1])

EndBefore(content, list, k) ==
    IF k = 1 THEN 0 ELSE Edited(content, list[k - 1].span[2]).character

\* After the first k tokens.
Taken(content, legend, list, k, acc) ==
    /\ acc.ok = TRUE
    /\ acc.line = ServedBefore(content, list, k + 1).line
    /\ acc.character = ServedBefore(content, list, k + 1).character
    /\ acc.previous = EditedBefore(content, list, k + 1)
    /\ acc.previousEnd = EndBefore(content, list, k + 1)
    /\ acc.highlighting = Shown(content, list, legend, k)
    /\ acc.found = Found(content, list, k)

\* A group of five numbers leads from where the one before it is to its own token.
Writes(content, legend, list, k, token, last, at) ==
    /\ last.line + token.deltaLine = at.line
    /\ token.deltaCharacter + (IF token.deltaLine = 0 THEN last.character ELSE 0)
         = at.character
    /\ token.length = Width(content, upstream.encoding, list[k].span[1], list[k].span[2])
    /\ token.type = IndexOf(legend.types, list[k].means[1])
    /\ token.modifiers = {IndexOf(legend.modifiers, m) : m \in list[k].means[2]}
    /\ last.line \in Nat /\ last.character \in Nat /\ at.line \in Nat /\ at.character \in Nat

LEMMA DataIs ==
  ASSUME NEW content, NEW legend, NEW list, Text(content), Counting, Listed(content, list),
         NEW k \in 1..Len(list), NEW token, token = Data(content, legend, list)[k],
         NEW last, last = ServedBefore(content, list, k),
         NEW at, at = ServerPosition(content, list[k].span[1])
  PROVE  Writes(content, legend, list, k, token, last, at)
  <1>1. k \in DOMAIN list
    BY DEF Listed
  <1>2. at.line \in Nat /\ at.character \in Nat
    BY StartMaps DEF Listed
  <1>3. last.line \in Nat /\ last.character \in Nat
    <2>1. CASE k = 1
      BY <2>1 DEF ServedBefore, Origin
    <2>2. CASE k # 1
      <3>1. k - 1 \in 1..Len(list)
        BY <2>2 DEF Listed
      <3>2. list[k - 1].span[1] \in 0..Len(content) /\ Boundary(content, list[k - 1].span[1])
        BY <3>1 DEF Listed
      <3>3. last = ServerPosition(content, list[k - 1].span[1])
        BY <2>2 DEF ServedBefore
      <3> QED BY <3>2, <3>3, StartMaps
    <2> QED BY <2>1, <2>2
  <1>4. last = IF k = 1 THEN [line |-> 0, character |-> 0]
               ELSE ServerPosition(content, list[k - 1].span[1])
    BY DEF ServedBefore, Origin
  <1>5. token = [deltaLine |-> at.line - last.line,
                 deltaCharacter |-> IF at.line = last.line
                                      THEN at.character - last.character ELSE at.character,
                 length |-> Width(content, upstream.encoding,
                                  list[k].span[1], list[k].span[2]),
                 type |-> IndexOf(legend.types, list[k].means[1]),
                 modifiers |-> {IndexOf(legend.modifiers, m) : m \in list[k].means[2]}]
    BY <1>1, <1>4 DEF Data
  <1>6. /\ token.deltaLine = at.line - last.line
        /\ token.deltaCharacter = IF at.line = last.line
                                    THEN at.character - last.character ELSE at.character
        /\ token.length = Width(content, upstream.encoding, list[k].span[1], list[k].span[2])
        /\ token.type = IndexOf(legend.types, list[k].means[1])
        /\ token.modifiers = {IndexOf(legend.modifiers, m) : m \in list[k].means[2]}
    BY <1>5
  <1> HIDE <1>5
  <1>7. last.line + token.deltaLine = at.line
    BY <1>2, <1>3, <1>6
  <1>8. token.deltaLine = 0 <=> at.line = last.line
    BY <1>2, <1>3, <1>6
  <1>9. token.deltaCharacter + (IF token.deltaLine = 0 THEN last.character ELSE 0)
          = at.character
    BY <1>2, <1>3, <1>6, <1>8
  <1> QED BY <1>2, <1>3, <1>6, <1>7, <1>9 DEF Writes

\* One token more.
LEMMA ShownMore ==
  ASSUME NEW content, NEW list, NEW legend, NEW k \in Nat
  PROVE  /\ Shown(content, list, legend, 0) = <<>>
         /\ Append(Shown(content, list, legend, k), ShownToken(content, list, legend, k + 1))
              = Shown(content, list, legend, k + 1)
         /\ Len(Shown(content, list, legend, k)) = k
  <1> DEFINE s == Shown(content, list, legend, k)
             f(i) == ShownToken(content, list, legend, i)
             A == {f(i) : i \in 1..(k + 1)}
  <1>1. Shown(content, list, legend, 0) = <<>>
    BY DEF Shown
  <1>2. \A i \in 1..(k + 1) : f(i) \in A
    OBVIOUS
  <1>3. /\ s = [i \in 1..k |-> f(i)]
        /\ Shown(content, list, legend, k + 1) = [i \in 1..(k + 1) |-> f(i)]
    BY DEF Shown
  <1> HIDE DEF s, f, A
  <1>4. s \in [1..k -> A]
    BY <1>2, <1>3
  <1>5. s \in Seq(A) /\ Len(s) = k
    BY <1>4
  <1>6. Append(s, f(k + 1)) = [i \in 1..(k + 1) |-> f(i)]
    <2>1. f(k + 1) \in A
      BY <1>2
    <2>2. Append(s, f(k + 1)) \in Seq(A) /\ Len(Append(s, f(k + 1))) = k + 1
      BY <1>5, <2>1
    <2>3. ASSUME NEW i \in 1..(k + 1) PROVE Append(s, f(k + 1))[i] = f(i)
      <3>1. CASE i = k + 1
        BY <1>5, <3>1
      <3>2. CASE i # k + 1
        <4>1. i \in 1..k /\ Append(s, f(k + 1))[i] = s[i]
          BY <1>5, <2>1, <3>2
        <4> QED BY <1>3, <4>1
      <3> QED BY <3>1, <3>2
    <2>4. DOMAIN Append(s, f(k + 1)) = 1..(k + 1)
      BY <2>2
    <2>5. PICK longer : longer = Append(s, f(k + 1))
      OBVIOUS
    <2>6. longer \in Seq(A) /\ Len(longer) = k + 1
      BY <2>2, <2>5
    <2>7. longer = [i \in 1..(k + 1) |-> longer[i]]
      BY <2>6
    <2> QED BY <2>3, <2>5, <2>7
  <1> QED BY <1>1, <1>3, <1>5, <1>6 DEF s, f

\* What is refused stays refused.
LEMMA RefusalIs == Refusal.ok = FALSE
  BY DEF Refusal, Start

\* One token more is clear when it is on one line and apart from the one before.
LEMMA ClearMore ==
  ASSUME NEW content, NEW list, NEW k \in Nat, k > 0
  PROVE  Clear(content, list, k) <=> /\ Clear(content, list, k - 1)
                                     /\ Alone(content, list[k])
                                     /\ k > 1 => Apart(list[k - 1], list[k])
  <1>1. ASSUME Clear(content, list, k)
        PROVE  /\ Clear(content, list, k - 1) /\ Alone(content, list[k])
               /\ k > 1 => Apart(list[k - 1], list[k])
    <2>1. /\ \A i \in 1..(k - 1) : i \in 1..k
          /\ \A i \in 1..((k - 1) - 1) : i \in 1..(k - 1)
          /\ k \in 1..k /\ k > 1 => k - 1 \in 1..(k - 1) /\ (k - 1) + 1 = k
      OBVIOUS
    <2>2. Clear(content, list, k - 1)
      BY <1>1, <2>1 DEF Clear
    <2>3. Alone(content, list[k])
      BY <1>1, <2>1 DEF Clear
    <2>4. ASSUME k > 1 PROVE Apart(list[k - 1], list[k])
      <3>1. k - 1 \in 1..(k - 1) /\ (k - 1) + 1 = k
        BY <2>4
      <3>2. Apart(list[k - 1], list[(k - 1) + 1])
        BY <1>1, <3>1 DEF Clear
      <3> QED BY <3>1, <3>2
    <2> QED BY <2>2, <2>3, <2>4
  <1>2. ASSUME Clear(content, list, k - 1), Alone(content, list[k]),
               k > 1 => Apart(list[k - 1], list[k])
        PROVE  Clear(content, list, k)
    <2>1. ASSUME NEW i \in 1..k PROVE Alone(content, list[i])
      <3>1. i = k \/ i \in 1..(k - 1)
        OBVIOUS
      <3> QED BY <1>2, <3>1 DEF Clear
    <2>2. ASSUME NEW i \in 1..(k - 1) PROVE Apart(list[i], list[i + 1])
      <3>1. CASE i = k - 1
        <4>1. k > 1 /\ i + 1 = k
          BY <3>1
        <4> QED BY <1>2, <3>1, <4>1
      <3>2. CASE i # k - 1
        <4>1. i \in 1..((k - 1) - 1)
          BY <3>2
        <4> QED BY <1>2, <4>1 DEF Clear
      <3> QED BY <3>1, <3>2
    <2> QED BY <2>1, <2>2 DEF Clear
  <1> QED BY <1>1, <1>2

\* The step of semanticTokenCandidates.
LEMMA TakesNext ==
  ASSUME NEW content, NEW legend, NEW list, Text(content), Counting, Listed(content, list),
         legend.types \in Seq(Names), Named(legend, list),
         NEW k \in 1..Len(list), Clear(content, list, k - 1),
         NEW acc, Taken(content, legend, list, k - 1, acc),
         NEW token, token = Data(content, legend, list)[k],
         NEW next, next = TakeToken(content, legend, acc, token)
  PROVE  /\ Clear(content, list, k) => Taken(content, legend, list, k, next)
         /\ ~ Clear(content, list, k) => next.ok = FALSE
  <1>1. PICK a, b : a = list[k].span[1] /\ b = list[k].span[2]
    OBVIOUS
  <1>2. /\ a \in 0..Len(content) /\ b \in 0..Len(content) /\ a < b
        /\ Boundary(content, a) /\ Boundary(content, b)
    BY <1>1 DEF Listed
  <1>3. PICK last : last = ServedBefore(content, list, k)
    OBVIOUS
  <1>4. PICK at : at = ServerPosition(content, a)
    OBVIOUS
  <1>5. PICK w : w = Width(content, upstream.encoding, a, b)
    OBVIOUS
  <1>6. k \in Nat /\ k > 0 /\ (k - 1) + 1 = k /\ k - 1 \in Nat
    BY DEF Listed
  <1>7. /\ last.line + token.deltaLine = at.line
        /\ token.deltaCharacter + (IF token.deltaLine = 0 THEN last.character ELSE 0)
             = at.character
        /\ token.length = w
        /\ token.type = IndexOf(legend.types, list[k].means[1])
        /\ token.modifiers = {IndexOf(legend.modifiers, m) : m \in list[k].means[2]}
    <2>1. at = ServerPosition(content, list[k].span[1])
      BY <1>1, <1>4
    <2>2. w = Width(content, upstream.encoding, list[k].span[1], list[k].span[2])
      BY <1>1, <1>5
    <2>3. last = ServedBefore(content, list, k)
      BY <1>3
    <2>4. Writes(content, legend, list, k, token, last, at)
      BY <2>1, <2>3, DataIs
    <2> QED BY <2>2, <2>4 DEF Writes
  <1>8. /\ acc.ok = TRUE /\ acc.line = last.line /\ acc.character = last.character
        /\ acc.previous = EditedBefore(content, list, k)
        /\ acc.previousEnd = EndBefore(content, list, k)
        /\ acc.highlighting = Shown(content, list, legend, k - 1)
        /\ acc.found = Found(content, list, k - 1)
    BY <1>3, <1>6 DEF Taken
  <1>9. PICK start : start = Edited(content, a)
    OBVIOUS
  <1>10. PICK end : end = IF Alone(content, list[k]) THEN Edited(content, b) ELSE NoPosition
    OBVIOUS
  <1>11. toUtf16Position(content, upstream.encoding, upstream.unicodeLineBreaks,
                         [line |-> at.line, character |-> at.character]) = start
    BY <1>2, <1>4, <1>9, StartMaps
  <1>12. toUtf16Position(content, upstream.encoding, upstream.unicodeLineBreaks,
                         [line |-> at.line, character |-> at.character + w]) = end
    BY <1>1, <1>2, <1>4, <1>5, <1>10, EndMaps DEF Alone
  <1>13. content \in Seq(Units)
    BY DEF Text
  <1>14. start # NoPosition /\ start.line \in Nat /\ start.character \in Nat
    BY <1>2, <1>9, <1>13, EditedIs
  <1>15. end = NoPosition <=> ~ Alone(content, list[k])
    BY <1>2, <1>10, <1>13, EditedIs
  <1>16. Alone(content, list[k]) =>
            end.line = start.line /\ end.character - start.character = b - a
    <2> SUFFICES ASSUME Alone(content, list[k])
                 PROVE  end.line = start.line /\ end.character - start.character = b - a
      OBVIOUS
    <2>1. a <= b /\ ServerPosition(content, a).line = ServerPosition(content, b).line
      BY <1>1, <1>2 DEF Alone
    <2>2. end = Edited(content, b)
      BY <1>10
    <2> QED BY <1>2, <1>9, <2>1, <2>2, SameServedLine
  <1>17. (start.line = acc.previous.line /\ start.character < acc.previousEnd)
           <=> (k > 1 /\ ~ Apart(list[k - 1], list[k]))
    <2>1. CASE k = 1
      <3>1. acc.previousEnd = 0 /\ ~ (k > 1)
        BY <1>8, <2>1 DEF EndBefore
      <3> QED BY <1>14, <3>1
    <2>2. CASE k # 1
      <3>1. PICK j \in 1..Len(list) : j = k - 1 /\ j \in 1..(k - 1) /\ j + 1 = k
                                      /\ j \in 1..(Len(list) - 1)
        BY <2>2 DEF Listed
      <3>2. PICK p, q : p = list[j].span[1] /\ q = list[j].span[2]
        OBVIOUS
      <3>3. /\ p \in 0..Len(content) /\ q \in 0..Len(content) /\ p < q /\ p <= a
        BY <1>1, <3>1, <3>2 DEF Listed
      <3>4. Alone(content, list[j])
        BY <3>1 DEF Clear
      <3>5. p <= q /\ ServerPosition(content, p).line = ServerPosition(content, q).line
        BY <3>2, <3>3, <3>4 DEF Alone
      <3>6. Edited(content, p).line = Edited(content, q).line
        BY <3>3, <3>5, SameServedLine
      <3>7. acc.previous = Edited(content, p) /\ acc.previousEnd = Edited(content, q).character
        BY <1>8, <2>2, <3>1, <3>2 DEF EditedBefore, EndBefore
      <3>8. /\ Edited(content, a).line = Edited(content, p).line
            /\ Edited(content, a).character < Edited(content, q).character
            <=> a < q
        BY <1>2, <3>3, <3>5, <3>6, Overlaps
      <3>9. k > 1 /\ (Apart(list[k - 1], list[k]) <=> q <= a)
        BY <1>1, <2>2, <3>1, <3>2 DEF Apart
      <3>10. a \in Nat /\ q \in Nat
        BY <1>2, <3>3
      <3> QED BY <1>9, <3>7, <3>8, <3>9, <3>10
    <2> QED BY <2>1, <2>2
  <1>18. Clear(content, list, k) <=> /\ Alone(content, list[k])
                                     /\ k > 1 => Apart(list[k - 1], list[k])
    BY <1>6, ClearMore
  <1>19. next = IF \/ ~ acc.ok \/ NoPosition \in {start, end} \/ end.line # start.line
                   \/ start.line = acc.previous.line /\ start.character < acc.previousEnd
                  THEN Refusal
                ELSE [ok |-> TRUE, line |-> at.line, character |-> at.character,
                      previous |-> start, previousEnd |-> end.character,
                      highlighting |-> Append(acc.highlighting,
                          [deltaLine |-> start.line - acc.previous.line,
                           deltaCharacter |-> Relative(start, acc.previous),
                           length |-> end.character - start.character,
                           type |-> token.type, modifiers |-> token.modifiers]),
                      found |-> IF legend.types[token.type + 1] \in Navigable
                                  THEN acc.found \cup {[line |-> at.line, from |-> at.character,
                                                        to |-> at.character + w]}
                                ELSE acc.found]
    <2>1. acc.line + token.deltaLine = at.line /\ token.length = w
      BY <1>7, <1>8
    <2>2. token.deltaCharacter + (IF token.deltaLine = 0 THEN acc.character ELSE 0)
            = at.character
      BY <1>7, <1>8
    <2>3. PICK line, character :
            /\ line = acc.line + token.deltaLine
            /\ character = token.deltaCharacter
                             + (IF token.deltaLine = 0 THEN acc.character ELSE 0)
      OBVIOUS
    <2>4. PICK first, behind :
            /\ first = toUtf16Position(content, upstream.encoding, upstream.unicodeLineBreaks,
                                       [line |-> line, character |-> character])
            /\ behind = toUtf16Position(content, upstream.encoding, upstream.unicodeLineBreaks,
                                        [line |-> line, character |-> character + token.length])
      OBVIOUS
    <2>5. first = start /\ behind = end /\ line = at.line /\ character = at.character
      BY <1>11, <1>12, <2>1, <2>2, <2>3, <2>4
    <2>6. next = IF \/ ~ acc.ok \/ NoPosition \in {first, behind} \/ behind.line # first.line
                    \/ first.line = acc.previous.line /\ first.character < acc.previousEnd
                  THEN Refusal
                ELSE [ok |-> TRUE, line |-> line, character |-> character,
                      previous |-> first, previousEnd |-> behind.character,
                      highlighting |-> Append(acc.highlighting,
                          [deltaLine |-> first.line - acc.previous.line,
                           deltaCharacter |-> Relative(first, acc.previous),
                           length |-> behind.character - first.character,
                           type |-> token.type, modifiers |-> token.modifiers]),
                      found |-> IF legend.types[token.type + 1] \in Navigable
                                  THEN acc.found \cup {[line |-> line, from |-> character,
                                                        to |-> character + token.length]}
                                ELSE acc.found]
      BY <2>3, <2>4 DEF TakeToken
    <2> QED BY <2>1, <2>5, <2>6
  <1>20. ASSUME ~ Clear(content, list, k) PROVE next.ok = FALSE
    <2>1. next = Refusal
      BY <1>15, <1>17, <1>18, <1>19, <1>20
    <2> QED BY <2>1, RefusalIs
  <1>21. ASSUME Clear(content, list, k) PROVE Taken(content, legend, list, k, next)
    <2>1. ~ (\/ ~ acc.ok \/ NoPosition \in {start, end} \/ end.line # start.line
             \/ start.line = acc.previous.line /\ start.character < acc.previousEnd)
      BY <1>8, <1>14, <1>15, <1>16, <1>17, <1>18, <1>21
    <2>2. PICK item : item = [deltaLine |-> start.line - acc.previous.line,
                              deltaCharacter |-> Relative(start, acc.previous),
                              length |-> end.character - start.character,
                              type |-> token.type, modifiers |-> token.modifiers]
      OBVIOUS
    <2>3. PICK range : range = [line |-> at.line, from |-> at.character,
                                to |-> at.character + w]
      OBVIOUS
    <2>4. /\ next.ok = TRUE /\ next.line = at.line /\ next.character = at.character
          /\ next.previous = start /\ next.previousEnd = end.character
          /\ next.highlighting = Append(acc.highlighting, item)
          /\ next.found = IF legend.types[token.type + 1] \in Navigable
                            THEN acc.found \cup {range} ELSE acc.found
      BY <1>19, <2>1, <2>2, <2>3
    <2>5. item = ShownToken(content, list, legend, k)
      BY <1>1, <1>7, <1>8, <1>9, <1>16, <1>18, <1>21, <2>2 DEF ShownToken
    <2>6. next.highlighting = Shown(content, list, legend, k)
      <3>1. PICK j \in Nat : j = k - 1 /\ j + 1 = k
        BY <1>6
      <3>2. Append(Shown(content, list, legend, j), ShownToken(content, list, legend, j + 1))
              = Shown(content, list, legend, j + 1)
        BY ShownMore
      <3> QED BY <1>8, <2>4, <2>5, <3>1, <3>2
    <2>7. legend.types[token.type + 1] = list[k].means[1]
      <3>1. list[k].means[1] \in ToSet(legend.types)
        BY DEF Named, Expressible
      <3> QED BY <1>7, <3>1, IndexOfIs
    <2>8. range = FoundRange(content, list[k])
      BY <1>1, <1>4, <1>5, <2>3 DEF FoundRange
    <2>9. next.found = Found(content, list, k)
      <3>1. next.found = IF list[k].means[1] \in Navigable
                           THEN Found(content, list, k - 1) \cup {FoundRange(content, list[k])}
                         ELSE Found(content, list, k - 1)
        BY <1>8, <2>4, <2>7, <2>8
      <3>2. 1..k = (1..(k - 1)) \cup {k}
        BY <1>6
      <3>3. Found(content, list, k) = IF list[k].means[1] \in Navigable
                           THEN Found(content, list, k - 1) \cup {FoundRange(content, list[k])}
                         ELSE Found(content, list, k - 1)
        <4> DEFINE nav(n) == {j \in 1..n : list[j].means[1] \in Navigable}
                   r(i) == FoundRange(content, list[i])
        <4>1. nav(k) = IF list[k].means[1] \in Navigable THEN nav(k - 1) \cup {k} ELSE nav(k - 1)
          BY <3>2
        <4>2. {r(i) : i \in nav(k - 1) \cup {k}} = {r(i) : i \in nav(k - 1)} \cup {r(k)}
          <5> HIDE DEF nav, r
          <5> QED OBVIOUS
        <4>3. \A n : Found(content, list, n) = {r(i) : i \in nav(n)}
          BY DEF Found
        <4> HIDE DEF nav
        <4> QED BY <4>1, <4>2, <4>3
      <3> QED BY <3>1, <3>3
    <2>10. /\ ServedBefore(content, list, k + 1) = at
           /\ EditedBefore(content, list, k + 1) = start
           /\ EndBefore(content, list, k + 1) = end.character
      <3>1. k + 1 # 1 /\ (k + 1) - 1 = k
        BY <1>6
      <3>2. end = Edited(content, b)
        BY <1>10, <1>18, <1>21
      <3> QED BY <1>1, <1>4, <1>9, <3>1, <3>2 DEF ServedBefore, EditedBefore, EndBefore
    <2> QED BY <2>4, <2>6, <2>9, <2>10 DEF Taken
  <1> QED BY <1>20, <1>21

\* What a server writes passes validateSemanticTokens.
LEMMA DataValid ==
  ASSUME NEW content, NEW legend, NEW list, Text(content), Counting, Listed(content, list),
         legend \in Parsed, Named(legend, list)
  PROVE  validateSemanticTokens(Data(content, legend, list), legend)
  <1>1. PICK data : data = Data(content, legend, list)
    OBVIOUS
  <1>2. DOMAIN data = 1..Len(list)
    BY <1>1 DEF Data, Listed
  <1>3. ASSUME NEW i \in 1..Len(list)
        PROVE  /\ data[i].length > 0
               /\ data[i].type < Len(legend.types)
               /\ data[i].modifiers \subseteq 0..(Len(legend.modifiers) - 1)
    <2>1. PICK token, last, at : /\ token = data[i]
                                 /\ last = ServedBefore(content, list, i)
                                 /\ at = ServerPosition(content, list[i].span[1])
      OBVIOUS
    <2>2. Writes(content, legend, list, i, token, last, at)
      BY <1>1, <2>1, DataIs
    <2>3. Width(content, upstream.encoding, list[i].span[1], list[i].span[2]) > 0
      BY EndMaps DEF Listed
    <2>4. /\ list[i].means[1] \in ToSet(legend.types)
          /\ \A m \in list[i].means[2] : m \in ToSet(legend.modifiers)
      BY DEF Named, Expressible
    <2>5. legend.types \in Seq(Names) /\ legend.modifiers \in Seq(Names)
      BY DEF Parsed
    <2>6. IndexOf(legend.types, list[i].means[1]) \in 0..(Len(legend.types) - 1)
      BY <2>4, <2>5, IndexOfIs
    <2>7. \A m \in list[i].means[2] : IndexOf(legend.modifiers, m) \in 0..(Len(legend.modifiers) - 1)
      BY <2>4, <2>5, IndexOfIs
    <2>8. token.modifiers \subseteq 0..(Len(legend.modifiers) - 1)
      BY <2>2, <2>7 DEF Writes
    <2>9. token.length > 0 /\ token.type < Len(legend.types)
      BY <2>2, <2>3, <2>5, <2>6 DEF Writes
    <2> QED BY <2>1, <2>8, <2>9
  <1> QED BY <1>1, <1>2, <1>3 DEF validateSemanticTokens

\* The tokens of a document are taken, and taken as they should be shown, exactly
\* when each can be.
LEMMA CandidatesAre ==
  ASSUME NEW content, NEW legend, NEW list, Text(content), Counting, Listed(content, list),
         legend \in Parsed, Named(legend, list),
         NEW taken, taken = semanticTokenCandidates(content, legend, Data(content, legend, list))
  PROVE  IF Clear(content, list, Len(list))
           THEN /\ taken.ok = TRUE
                /\ taken.highlighting = Shown(content, list, legend, Len(list))
                /\ taken.found = Found(content, list, Len(list))
         ELSE taken.ok = FALSE
  <1>1. PICK n \in Nat : n = Len(list)
    BY DEF Listed
  <1>2. PICK data : data = Data(content, legend, list)
    OBVIOUS
  <1>3. DOMAIN data = 1..n
    BY <1>1, <1>2 DEF Data, Listed
  <1>4. PICK path :
          /\ TakesFrom(content, legend, data, n, path)
          /\ semanticTokenCandidates(content, legend, data)
               = IF validateSemanticTokens(data, legend) THEN path[n] ELSE Refusal
    BY <1>3, TakesOneByOne
  <1>5. taken = path[n]
    BY <1>2, <1>4, DataValid
  <1>6. legend.types \in Seq(Names)
    BY DEF Parsed
  <1> DEFINE Right(k) == IF Clear(content, list, k) THEN Taken(content, legend, list, k, path[k])
                         ELSE path[k].ok = FALSE
             good == {k \in 0..n : Right(k)}
  <1>7. 0 \in good
    <2>1. Clear(content, list, 0)
      BY DEF Clear
    <2>2. path[0] = Start
      BY <1>4 DEF TakesFrom
    <2>3. /\ Start.ok = TRUE /\ Start.line = 0 /\ Start.character = 0
          /\ Start.previous = Origin /\ Start.previousEnd = 0
          /\ Start.highlighting = <<>> /\ Start.found = {}
      BY DEF Start, Origin
    <2>4. /\ ServedBefore(content, list, 0 + 1) = Origin
          /\ EditedBefore(content, list, 0 + 1) = Origin
          /\ EndBefore(content, list, 0 + 1) = 0
      BY DEF ServedBefore, EditedBefore, EndBefore
    <2>5. Origin.line = 0 /\ Origin.character = 0
      BY DEF Origin
    <2>6. Found(content, list, 0) = {}
      BY DEF Found
    <2>7. Shown(content, list, legend, 0) = <<>>
      BY ShownMore
    <2>8. Taken(content, legend, list, 0, path[0])
      BY <2>2, <2>3, <2>4, <2>5, <2>6, <2>7 DEF Taken
    <2> QED BY <2>1, <2>8
  <1>8. ASSUME NEW j \in 0..(n - 1), j \in good PROVE j + 1 \in good
    <2>1. PICK k \in 1..n : k = j + 1 /\ k - 1 = j /\ k \in Nat /\ k > 0
      OBVIOUS
    <2>2. path[k] = TakeToken(content, legend, path[j], data[k])
      BY <1>4, <2>1 DEF TakesFrom
    <2>3. CASE Clear(content, list, j)
      <3>1. Taken(content, legend, list, j, path[j])
        BY <1>8, <2>3
      <3>2. PICK acc, token, next : acc = path[j] /\ token = data[k] /\ next = path[k]
        OBVIOUS
      <3>3. /\ Clear(content, list, k) => Taken(content, legend, list, k, next)
            /\ ~ Clear(content, list, k) => next.ok = FALSE
        <4>1. Clear(content, list, k - 1) /\ Taken(content, legend, list, k - 1, acc)
          BY <2>1, <2>3, <3>1, <3>2
        <4>2. token = Data(content, legend, list)[k] /\ next = TakeToken(content, legend, acc, token)
          BY <1>2, <2>2, <3>2
        <4>3. k \in 1..Len(list)
          BY <1>1
        <4> QED BY <1>6, <4>1, <4>2, <4>3, TakesNext
      <3> QED BY <2>1, <3>2, <3>3
    <2>4. CASE ~ Clear(content, list, j)
      <3>1. path[j].ok = FALSE
        BY <1>8, <2>4
      <3>2. path[k] = Refusal
        BY <2>2, <3>1 DEF TakeToken
      <3>3. ~ Clear(content, list, k)
        BY <2>1, <2>4, ClearMore
      <3> QED BY <2>1, <3>2, <3>3, RefusalIs
    <2> QED BY <2>3, <2>4
  <1>9. n \in good
    <2>1. \A j \in 0..(n - 1) : j \in good => j + 1 \in good
      <3> HIDE DEF good
      <3> QED BY <1>8
    <2> HIDE DEF good
    <2>2. 0..n \subseteq good
      BY <1>7, <2>1, CountUp
    <2> QED BY <2>2
  <1> QED BY <1>1, <1>5, <1>9 DEF Taken

-----------------------------------------------------------------------------
(***************************************************************************)
(* What an editor makes of a row                                           *)
(***************************************************************************)
Place(content, t) ==
    [start |-> Edited(content, t.span[1]), end |-> Edited(content, t.span[2]),
     means |-> t.means]

Places(content, list, k) == [i \in 1..k |-> Place(content, list[i])]

LEMMA PlacesMore ==
  ASSUME NEW content, NEW list, NEW k \in Nat
  PROVE  /\ Places(content, list, 0) = <<>>
         /\ Append(Places(content, list, k), Place(content, list[k + 1]))
              = Places(content, list, k + 1)
  <1> DEFINE s == Places(content, list, k)
             f(i) == Place(content, list[i])
             A == {f(i) : i \in 1..(k + 1)}
  <1>1. Places(content, list, 0) = <<>>
    BY DEF Places
  <1>2. \A i \in 1..(k + 1) : f(i) \in A
    OBVIOUS
  <1>3. /\ s = [i \in 1..k |-> f(i)]
        /\ Places(content, list, k + 1) = [i \in 1..(k + 1) |-> f(i)]
    BY DEF Places
  <1> HIDE DEF s, f, A
  <1>4. s \in [1..k -> A]
    BY <1>2, <1>3
  <1>5. s \in Seq(A) /\ Len(s) = k
    BY <1>4
  <1>6. Append(s, f(k + 1)) = [i \in 1..(k + 1) |-> f(i)]
    <2>1. f(k + 1) \in A
      BY <1>2
    <2>2. Append(s, f(k + 1)) \in Seq(A) /\ Len(Append(s, f(k + 1))) = k + 1
      BY <1>5, <2>1
    <2>3. ASSUME NEW i \in 1..(k + 1) PROVE Append(s, f(k + 1))[i] = f(i)
      <3>1. CASE i = k + 1
        BY <1>5, <3>1
      <3>2. CASE i # k + 1
        <4>1. i \in 1..k /\ Append(s, f(k + 1))[i] = s[i]
          BY <1>5, <2>1, <3>2
        <4> QED BY <1>3, <4>1
      <3> QED BY <3>1, <3>2
    <2>5. PICK longer : longer = Append(s, f(k + 1))
      OBVIOUS
    <2>6. longer \in Seq(A) /\ Len(longer) = k + 1
      BY <2>2, <2>5
    <2>7. longer = [i \in 1..(k + 1) |-> longer[i]]
      BY <2>6
    <2> QED BY <2>3, <2>5, <2>7
  <1> QED BY <1>1, <1>3, <1>6 DEF s, f

\* What can be shown is on one line of the editor's, too.
OnOneLine(content, t) ==
    /\ Edited(content, t.span[1]).line = Edited(content, t.span[2]).line
    /\ Edited(content, t.span[2]).character - Edited(content, t.span[1]).character
         = t.span[2] - t.span[1]

LEMMA ClearOnOneLine ==
  ASSUME NEW content, NEW list, Text(content), Counting, Listed(content, list),
         Clear(content, list, Len(list)), NEW i \in 1..Len(list)
  PROVE  OnOneLine(content, list[i])
  <1>1. PICK a, b : a = list[i].span[1] /\ b = list[i].span[2]
    OBVIOUS
  <1>2. a \in 0..Len(content) /\ b \in 0..Len(content) /\ a <= b
    BY <1>1 DEF Listed
  <1>3. ServerPosition(content, a).line = ServerPosition(content, b).line
    BY <1>1 DEF Clear, Alone
  <1> QED BY <1>1, <1>2, <1>3, SameServedLine DEF OnOneLine

\* The step of an editor that decodes a row.
LEMMA DecodesNext ==
  ASSUME NEW content \in Seq(Units), NEW legend \in Parsed, NEW list, Listed(content, list),
         Named(legend, list), NEW k \in 1..Len(list), OnOneLine(content, list[k]),
         NEW acc, acc.line = EditedBefore(content, list, k).line,
         acc.from = EditedBefore(content, list, k).character,
         acc.tokens = Places(content, list, k - 1)
  PROVE  LET next == DecodeToken(legend, acc, ShownToken(content, list, legend, k))
         IN  /\ next.line = EditedBefore(content, list, k + 1).line
             /\ next.from = EditedBefore(content, list, k + 1).character
             /\ next.tokens = Places(content, list, k)
  <1>1. PICK next, token : /\ token = ShownToken(content, list, legend, k)
                           /\ next = DecodeToken(legend, acc, token)
    OBVIOUS
  <1>2. PICK a, b : a = list[k].span[1] /\ b = list[k].span[2]
    OBVIOUS
  <1>3. a \in 0..Len(content) /\ b \in 0..Len(content) /\ a < b
    BY <1>2 DEF Listed
  <1>4. k \in Nat /\ k > 0 /\ k - 1 \in Nat /\ (k - 1) + 1 = k /\ k + 1 # 1 /\ (k + 1) - 1 = k
    BY DEF Listed
  <1>5. PICK start, end, last : /\ start = Edited(content, a) /\ end = Edited(content, b)
                                /\ last = EditedBefore(content, list, k)
    OBVIOUS
  <1>6. /\ start.line \in Nat /\ start.character \in Nat
        /\ end = [line |-> end.line, character |-> end.character]
        /\ start = [line |-> start.line, character |-> start.character]
        /\ end.line \in Nat /\ end.character \in Nat
    BY <1>3, <1>5, EditedIs
  <1>7. last.line \in Nat /\ last.character \in Nat
    <2>1. CASE k = 1
      BY <1>5, <2>1 DEF EditedBefore, Origin
    <2>2. CASE k # 1
      <3>1. k - 1 \in 1..Len(list) /\ last = Edited(content, list[k - 1].span[1])
        BY <1>5, <2>2 DEF EditedBefore, Listed
      <3>2. list[k - 1].span[1] \in 0..Len(content)
        BY <3>1 DEF Listed
      <3> QED BY <3>1, <3>2, EditedIs
    <2> QED BY <2>1, <2>2
  <1>8. /\ token.deltaLine = start.line - last.line
        /\ token.deltaCharacter = IF start.line = last.line
                                    THEN start.character - last.character ELSE start.character
        /\ token.length = b - a
        /\ token.type = IndexOf(legend.types, list[k].means[1])
        /\ token.modifiers = {IndexOf(legend.modifiers, m) : m \in list[k].means[2]}
    BY <1>1, <1>2, <1>5 DEF ShownToken, Relative
  <1>9. end.line = start.line /\ end.character = start.character + (b - a)
    <2>1. end.line = start.line /\ end.character - start.character = b - a
      BY <1>2, <1>5 DEF OnOneLine
    <2> QED BY <1>3, <1>6, <2>1
  <1>10. PICK line, from : /\ line = acc.line + token.deltaLine
                           /\ from = token.deltaCharacter
                                       + (IF token.deltaLine = 0 THEN acc.from ELSE 0)
    OBVIOUS
  <1>11. line = start.line /\ from = start.character
    <2>1. acc.line = last.line /\ acc.from = last.character
      BY <1>5
    <2>2. line = start.line
      BY <1>6, <1>7, <1>8, <1>10, <2>1
    <2>3. token.deltaLine = 0 <=> start.line = last.line
      BY <1>6, <1>7, <1>8
    <2>4. from = start.character
      BY <1>6, <1>7, <1>8, <1>10, <2>1, <2>3
    <2> QED BY <2>2, <2>4
  <1>12. PICK means : means = <<legend.types[token.type + 1],
                                {legend.modifiers[bit + 1] : bit \in token.modifiers}>>
    OBVIOUS
  <1>13. means = list[k].means
    <2>1. legend.types \in Seq(Names) /\ legend.modifiers \in Seq(Names)
      BY DEF Parsed
    <2>2. /\ list[k].means[1] \in ToSet(legend.types)
          /\ \A m \in list[k].means[2] : m \in ToSet(legend.modifiers)
      BY DEF Named, Expressible
    <2>3. legend.types[token.type + 1] = list[k].means[1]
      BY <1>8, <2>1, <2>2, IndexOfIs
    <2>4. \A m \in list[k].means[2] : legend.modifiers[IndexOf(legend.modifiers, m) + 1] = m
      BY <2>1, <2>2, IndexOfIs
    <2>5. {legend.modifiers[bit + 1] : bit \in token.modifiers} = list[k].means[2]
      <3> DEFINE at(m) == IndexOf(legend.modifiers, m)
                 name(bit) == legend.modifiers[bit + 1]
      <3>1. \A m \in list[k].means[2] : name(at(m)) = m
        BY <2>4
      <3>2. token.modifiers = {at(m) : m \in list[k].means[2]}
        BY <1>8
      <3> HIDE DEF at, name
      <3>3. {name(bit) : bit \in token.modifiers} = list[k].means[2]
        BY <3>1, <3>2
      <3> QED BY <3>3 DEF name
    <2>6. list[k].means = <<list[k].means[1], list[k].means[2]>>
      BY DEF Listed
    <2> QED BY <1>12, <2>3, <2>5, <2>6
  <1>14. PICK item : item = [start |-> [line |-> line, character |-> from],
                             end |-> [line |-> line, character |-> from + token.length],
                             means |-> means]
    OBVIOUS
  <1>15. next.line = line /\ next.from = from /\ next.tokens = Append(acc.tokens, item)
    BY <1>1, <1>10, <1>12, <1>14 DEF DecodeToken
  <1>16. item = Place(content, list[k])
    <2>1. [line |-> line, character |-> from] = start
      BY <1>6, <1>11
    <2>2. [line |-> line, character |-> from + token.length] = end
      BY <1>6, <1>8, <1>9, <1>11
    <2> QED BY <1>2, <1>5, <1>13, <1>14, <2>1, <2>2 DEF Place
  <1>17. next.tokens = Places(content, list, k)
    <2>1. PICK j \in Nat : j = k - 1 /\ j + 1 = k
      BY <1>4
    <2>2. Append(Places(content, list, j), Place(content, list[j + 1]))
            = Places(content, list, j + 1)
      BY PlacesMore
    <2> QED BY <1>15, <1>16, <2>1, <2>2
  <1>18. EditedBefore(content, list, k + 1) = start
    BY <1>2, <1>4, <1>5 DEF EditedBefore
  <1> QED BY <1>1, <1>11, <1>15, <1>17, <1>18

\* A row is decoded to the places of its tokens.
LEMMA DecodedIs ==
  ASSUME NEW content \in Seq(Units), NEW legend \in Parsed, NEW list, Listed(content, list),
         Named(legend, list), \A i \in 1..Len(list) : OnOneLine(content, list[i]),
         NEW row, row.data = Shown(content, list, legend, Len(list))
  PROVE  /\ Decoded(row, legend) = Places(content, list, Len(list))
         /\ validateSemanticTokens(row.data, legend)
  <1>1. PICK n \in Nat : n = Len(list)
    BY DEF Listed
  <1>2. PICK data : data = row.data
    OBVIOUS
  <1>3. DOMAIN data = 1..n /\ \A i \in 1..n : data[i] = ShownToken(content, list, legend, i)
    BY <1>1, <1>2 DEF Shown
  <1>4. PICK path : DecodesFrom(legend, data, n, path) /\ Decoded(row, legend) = path[n].tokens
    BY <1>2, <1>3, DecodesOneByOne
  <1> DEFINE Right(k) == /\ path[k].line = EditedBefore(content, list, k + 1).line
                         /\ path[k].from = EditedBefore(content, list, k + 1).character
                         /\ path[k].tokens = Places(content, list, k)
             good == {k \in 0..n : Right(k)}
  <1>5. 0 \in good
    <2>1. path[0] = NothingDecoded
      BY <1>4 DEF DecodesFrom
    <2>2. EditedBefore(content, list, 0 + 1) = Origin
      BY DEF EditedBefore
    <2>3. Places(content, list, 0) = <<>>
      BY PlacesMore
    <2> QED BY <2>1, <2>2, <2>3 DEF Origin, NothingDecoded
  <1>6. ASSUME NEW j \in 0..(n - 1), j \in good PROVE j + 1 \in good
    <2>1. PICK k \in 1..n : k = j + 1 /\ k - 1 = j /\ (k - 1) + 1 = k
      OBVIOUS
    <2>2. PICK acc : acc = path[j]
      OBVIOUS
    <2>3. path[k] = DecodeToken(legend, acc, ShownToken(content, list, legend, k))
      BY <1>3, <1>4, <2>1, <2>2 DEF DecodesFrom
    <2>4. /\ acc.line = EditedBefore(content, list, k).line
          /\ acc.from = EditedBefore(content, list, k).character
          /\ acc.tokens = Places(content, list, k - 1)
      BY <1>6, <2>1, <2>2
    <2>5. k \in 1..Len(list) /\ OnOneLine(content, list[k])
      BY <1>1
    <2>6. Right(k)
      BY <2>3, <2>4, <2>5, DecodesNext
    <2> QED BY <2>1, <2>6
  <1>7. n \in good
    <2>1. \A j \in 0..(n - 1) : j \in good => j + 1 \in good
      <3> HIDE DEF good
      <3> QED BY <1>6
    <2> HIDE DEF good
    <2>2. 0..n \subseteq good
      BY <1>5, <2>1, CountUp
    <2> QED BY <2>2
  <1>8. Decoded(row, legend) = Places(content, list, n)
    BY <1>4, <1>7
  <1>9. ASSUME NEW i \in 1..n
        PROVE  /\ data[i].length > 0 /\ data[i].type < Len(legend.types)
               /\ data[i].modifiers \subseteq 0..(Len(legend.modifiers) - 1)
    <2>1. /\ data[i].length = list[i].span[2] - list[i].span[1]
          /\ data[i].type = IndexOf(legend.types, list[i].means[1])
          /\ data[i].modifiers = {IndexOf(legend.modifiers, m) : m \in list[i].means[2]}
      BY <1>3 DEF ShownToken
    <2>2. list[i].span[1] \in 0..Len(content) /\ list[i].span[2] \in 0..Len(content)
          /\ list[i].span[1] < list[i].span[2]
      BY <1>1 DEF Listed
    <2>3. legend.types \in Seq(Names) /\ legend.modifiers \in Seq(Names)
      BY DEF Parsed
    <2>4. /\ list[i].means[1] \in ToSet(legend.types)
          /\ \A m \in list[i].means[2] : m \in ToSet(legend.modifiers)
      BY <1>1 DEF Named, Expressible
    <2>5. IndexOf(legend.types, list[i].means[1]) \in 0..(Len(legend.types) - 1)
      BY <2>3, <2>4, IndexOfIs
    <2>6. \A m \in list[i].means[2] : IndexOf(legend.modifiers, m) \in 0..(Len(legend.modifiers) - 1)
      BY <2>3, <2>4, IndexOfIs
    <2>7. data[i].modifiers \subseteq 0..(Len(legend.modifiers) - 1)
      BY <2>1, <2>6
    <2>8. data[i].length > 0
      BY <2>1, <2>2
    <2>9. data[i].type < Len(legend.types)
      BY <2>1, <2>3, <2>5
    <2> QED BY <2>7, <2>8, <2>9
  <1>10. validateSemanticTokens(data, legend)
    BY <1>3, <1>9 DEF validateSemanticTokens
  <1> QED BY <1>1, <1>2, <1>8, <1>10

\* A name stays where it is when others go behind it.
LEMMA IndexOfStays ==
  ASSUME NEW A, NEW names \in Seq(A), NEW more \in Seq(A), Distinct(more),
         Continues(names, more), NEW name \in ToSet(names)
  PROVE  IndexOf(more, name) = IndexOf(names, name) /\ name \in ToSet(more)
  <1>1. PICK i \in 0..(Len(names) - 1) : i = IndexOf(names, name) /\ names[i + 1] = name
    BY IndexOfIs
  <1>2. i + 1 \in 1..Len(names) /\ DOMAIN more = 1..Len(more)
    OBVIOUS
  <1>3. i + 1 \in DOMAIN more /\ more[i + 1] = name
    BY <1>1, <1>2 DEF Continues
  <1>4. name \in ToSet(more)
    BY <1>3 DEF ToSet
  <1>5. /\ IndexOf(more, name) \in 0..(Len(more) - 1)
        /\ more[IndexOf(more, name) + 1] = name
    BY <1>4, IndexOfIs
  <1>6. PICK j \in 0..(Len(more) - 1) : j = IndexOf(more, name) /\ more[j + 1] = name
    BY <1>5
  <1>7. j + 1 \in DOMAIN more
    BY <1>2
  <1>8. j + 1 = i + 1
    BY <1>3, <1>6, <1>7 DEF Distinct
  <1> QED
    BY <1>1, <1>4, <1>6, <1>8

\* One legend goes on with another: rows that are written in it stay true.
Extends(legend, more) ==
    Continues(legend.types, more.types) /\ Continues(legend.modifiers, more.modifiers)

Legend(legend) ==
    /\ legend.types \in Seq(Names) /\ legend.modifiers \in Seq(Names)
    /\ Distinct(legend.types) /\ Distinct(legend.modifiers)

Knows(legend, more) ==
    /\ ToSet(more.types) \subseteq ToSet(legend.types)
    /\ ToSet(more.modifiers) \subseteq ToSet(legend.modifiers)

LEMMA MergedIs ==
  ASSUME NEW legend, legend \in Parsed \/ legend = NoLegend, NEW more \in Parsed,
         NoLegend \notin Parsed, MaxModifiers \in Nat,
         NEW merged, merged = Merged(legend, more)
  PROVE  /\ Legend(merged) /\ Knows(merged, more)
         /\ legend \in Parsed => Extends(legend, merged)
         /\ Fits(merged) => merged \in Parsed
         /\ (legend # NoLegend =>
                /\ Cardinality(ToSet(legend.types) \cup ToSet(more.types)) <= MaxTypes
                /\ Cardinality(ToSet(legend.modifiers) \cup ToSet(more.modifiers))
                     <= MaxModifiers)
              => Fits(merged)
  <1>1. /\ more.types \in Seq(Names) /\ more.modifiers \in Seq(Names)
        /\ Distinct(more.types) /\ Distinct(more.modifiers)
        /\ Len(more.types) <= MaxTypes /\ Len(more.modifiers) <= MaxModifiers
    BY DEF Parsed
  <1>2. CASE legend = NoLegend
    <2>1. merged = more
      BY <1>2 DEF Merged
    <2> QED
      BY <1>1, <1>2, <2>1 DEF Legend, Knows, Fits
  <1>3. CASE legend \in Parsed
    <2>1. /\ legend.types \in Seq(Names) /\ legend.modifiers \in Seq(Names)
          /\ Distinct(legend.types) /\ Distinct(legend.modifiers)
      BY <1>3 DEF Parsed
    <2>2. PICK types, modifiers : /\ types = Added(legend.types, more.types)
                                  /\ modifiers = Added(legend.modifiers, more.modifiers)
      OBVIOUS
    <2>3. merged = [types |-> types, modifiers |-> modifiers]
      BY <1>3, <2>2 DEF Merged
    <2>4. /\ types \in Seq(Names) /\ Distinct(types) /\ Continues(legend.types, types)
          /\ ToSet(types) = ToSet(legend.types) \cup ToSet(more.types)
      BY <1>1, <2>1, <2>2, AddedIs
    <2>5. /\ modifiers \in Seq(Names) /\ Distinct(modifiers)
          /\ Continues(legend.modifiers, modifiers)
          /\ ToSet(modifiers) = ToSet(legend.modifiers) \cup ToSet(more.modifiers)
      BY <1>1, <2>1, <2>2, AddedIs
    <2>6. /\ Cardinality(ToSet(types)) = Len(types)
          /\ Cardinality(ToSet(modifiers)) = Len(modifiers)
      BY <2>4, <2>5, DistinctCounts
    <2>7. Legend(merged) /\ Knows(merged, more) /\ Extends(legend, merged)
      BY <2>3, <2>4, <2>5 DEF Legend, Knows, Extends
    <2>8. Fits(merged) => merged \in Parsed
      BY <2>3, <2>4, <2>5 DEF Fits, Parsed
    <2>9. (/\ Cardinality(ToSet(legend.types) \cup ToSet(more.types)) <= MaxTypes
           /\ Cardinality(ToSet(legend.modifiers) \cup ToSet(more.modifiers)) <= MaxModifiers)
             => Fits(merged)
      BY <2>3, <2>4, <2>5, <2>6 DEF Fits
    <2>10. legend # NoLegend
      BY <1>3
    <2> QED
      BY <2>7, <2>8, <2>9, <2>10
  <1> QED
    BY <1>2, <1>3

\* Renumbered for the merged legend, the tokens are what they would be in it.
LEMMA MergedShows ==
  ASSUME NEW legend, legend \in Parsed \/ legend = NoLegend, NEW more \in Parsed,
         NoLegend \notin Parsed, MaxModifiers \in Nat,
         NEW merged, merged = Merged(legend, more), Fits(merged),
         NEW content, NEW list, Len(list) \in Nat, Named(more, list),
         NEW data, data = Shown(content, list, more, Len(list))
  PROVE  /\ Remapped(data, more, merged) = Shown(content, list, merged, Len(list))
         /\ Named(merged, list)
  <1>1. PICK n \in Nat : n = Len(list)
    OBVIOUS
  <1>2. Legend(merged) /\ Knows(merged, more)
    BY MergedIs
  <1>3. more.types \in Seq(Names) /\ more.modifiers \in Seq(Names)
    BY DEF Parsed
  <1>4. Named(merged, list)
    BY <1>2 DEF Named, Knows, Expressible
  <1>5. DOMAIN data = 1..n
    BY <1>1 DEF Shown
  <1>6. ASSUME NEW i \in 1..n
        PROVE  [deltaLine |-> data[i].deltaLine, deltaCharacter |-> data[i].deltaCharacter,
                length |-> data[i].length,
                type |-> IndexOf(merged.types, more.types[data[i].type + 1]),
                modifiers |-> {IndexOf(merged.modifiers, more.modifiers[bit + 1]) :
                                 bit \in data[i].modifiers}]
                 = ShownToken(content, list, merged, i)
    <2>1. PICK name, names : name = list[i].means[1] /\ names = list[i].means[2]
      OBVIOUS
    <2>2. name \in ToSet(more.types) /\ names \subseteq ToSet(more.modifiers)
      BY <1>1, <2>1 DEF Named, Expressible
    <2>3. more.types[IndexOf(more.types, name) + 1] = name
      BY <1>3, <2>2, IndexOfIs
    <2>4. \A m \in names : more.modifiers[IndexOf(more.modifiers, m) + 1] = m
      BY <1>3, <2>2, IndexOfIs
    <2>5. PICK bits : bits = {IndexOf(more.modifiers, m) : m \in names}
      OBVIOUS
    <2>6. {IndexOf(merged.modifiers, more.modifiers[bit + 1]) : bit \in bits}
            = {IndexOf(merged.modifiers, m) : m \in names}
      <3>1. \A m \in names : \E bit \in bits : more.modifiers[bit + 1] = m
        BY <2>4, <2>5
      <3>2. \A bit \in bits : more.modifiers[bit + 1] \in names
        BY <2>4, <2>5
      <3> QED
        BY <3>1, <3>2
    <2>7. PICK dl, dc, w : /\ dl = ShownToken(content, list, more, i).deltaLine
                           /\ dc = ShownToken(content, list, more, i).deltaCharacter
                           /\ w = ShownToken(content, list, more, i).length
      OBVIOUS
    <2>8. data[i] = [deltaLine |-> dl, deltaCharacter |-> dc, length |-> w,
                     type |-> IndexOf(more.types, name), modifiers |-> bits]
      BY <1>1, <2>1, <2>5, <2>7 DEF Shown, ShownToken
    <2>9. ShownToken(content, list, merged, i)
            = [deltaLine |-> dl, deltaCharacter |-> dc, length |-> w,
               type |-> IndexOf(merged.types, name),
               modifiers |-> {IndexOf(merged.modifiers, m) : m \in names}]
      BY <2>1, <2>7 DEF ShownToken
    <2>10. /\ data[i].deltaLine = dl /\ data[i].deltaCharacter = dc /\ data[i].length = w
           /\ data[i].type = IndexOf(more.types, name) /\ data[i].modifiers = bits
      BY <2>8
    <2> QED
      BY <2>3, <2>6, <2>9, <2>10
  <1> QED
    BY <1>1, <1>4, <1>5, <1>6 DEF Remapped, Shown

\* A row stays true when its legend is extended.
LEMMA ExtendsShows ==
  ASSUME NEW legend \in Parsed, NEW merged, Legend(merged), Extends(legend, merged),
         NEW content, NEW list, Len(list) \in Nat, Named(legend, list)
  PROVE  /\ Shown(content, list, merged, Len(list)) = Shown(content, list, legend, Len(list))
         /\ Named(merged, list)
  <1>1. PICK n \in Nat : n = Len(list)
    OBVIOUS
  <1>2. /\ legend.types \in Seq(Names) /\ legend.modifiers \in Seq(Names)
        /\ merged.types \in Seq(Names) /\ merged.modifiers \in Seq(Names)
        /\ Distinct(merged.types) /\ Distinct(merged.modifiers)
        /\ Continues(legend.types, merged.types)
        /\ Continues(legend.modifiers, merged.modifiers)
    BY DEF Parsed, Legend, Extends
  <1>3. ASSUME NEW i \in 1..n
        PROVE  /\ ShownToken(content, list, merged, i) = ShownToken(content, list, legend, i)
               /\ Expressible(merged, list[i].means)
    <2>1. PICK name, names : name = list[i].means[1] /\ names = list[i].means[2]
      OBVIOUS
    <2>2. name \in ToSet(legend.types) /\ names \subseteq ToSet(legend.modifiers)
      BY <1>1, <2>1 DEF Named, Expressible
    <2>3. /\ IndexOf(merged.types, name) = IndexOf(legend.types, name)
          /\ name \in ToSet(merged.types)
      BY <1>2, <2>2, IndexOfStays
    <2>4. \A m \in names : /\ IndexOf(merged.modifiers, m) = IndexOf(legend.modifiers, m)
                           /\ m \in ToSet(merged.modifiers)
      BY <1>2, <2>2, IndexOfStays
    <2>5. {IndexOf(merged.modifiers, m) : m \in names}
            = {IndexOf(legend.modifiers, m) : m \in names}
      BY <2>4
    <2> QED
      BY <2>1, <2>3, <2>4, <2>5 DEF ShownToken, Expressible
  <1> QED
    BY <1>1, <1>3 DEF Shown, Named

\* Asked for a range from the beginning to the mapper's end, a server leaves out no
\* token: each begins before the end.
LEMMA BeginsBefore ==
  ASSUME NEW content, Text(content), Counting,
         NEW a \in 0..Len(content), a < Len(content), Boundary(content, a),
         NEW end, end = positionAtUtf16Offset(content, upstream.encoding,
                                              upstream.unicodeLineBreaks, Len(content))
  PROVE  Before(ServerPosition(content, a), end)
  <1>1. PICK encoding \in PositionEncodings, unicode \in BOOLEAN :
          encoding = upstream.encoding /\ unicode = upstream.unicodeLineBreaks
    BY DEF Counting
  <1>2. content \in Seq(Units) /\ Paired(content)
    BY DEF Text
  <1>3. PICK n \in Nat : n = Len(content) /\ a \in Nat /\ a < n
    BY <1>2
  <1>4. PICK breaks : breaks = Breaks(content, unicode)
    OBVIOUS
  <1>5. \A x \in breaks : x \in Nat
    BY <1>4 DEF Breaks
  <1>6. HasLines(content, unicode)
    BY <1>2, Lines
  <1>7. IsFiniteSet(breaks)
    BY <1>4, <1>6 DEF HasLines
  <1>8. PICK starts : starts = lineStarts(content, unicode)
    OBVIOUS
  <1>9. n \in 0..Len(content)
    BY <1>3
  <1>10. /\ lineAtOffset(n, starts) = Rank(breaks, n)
         /\ starts[Rank(breaks, n) + 1] = Floor(breaks, n)
    BY <1>4, <1>6, <1>8, <1>9 DEF HasLines
  <1>11. end = [line |-> Rank(breaks, n),
                character |-> Width(content, encoding, Floor(breaks, n), n)]
    BY <1>1, <1>3, <1>8, <1>10 DEF positionAtUtf16Offset
  <1>12. ServerPosition(content, a)
           = [line |-> Rank(breaks, a),
              character |-> Width(content, encoding, Floor(breaks, a), a)]
    BY <1>1, <1>4, ServerPositionIs DEF Served
  <1>13. Rank(breaks, a) \in Nat /\ Rank(breaks, n) \in Nat /\ Rank(breaks, a) <= Rank(breaks, n)
    <2>1. Counts(breaks)
      BY <1>5, <1>7, RankCounts
    <2>2. a <= n
      BY <1>3
    <2> QED
      BY <1>3, <2>1, <2>2 DEF Counts
  <1>14. ASSUME Rank(breaks, a) = Rank(breaks, n)
         PROVE  Width(content, encoding, Floor(breaks, a), a)
                  < Width(content, encoding, Floor(breaks, n), n)
    <2>1. a <= n
      BY <1>3
    <2>2. \A x \in breaks : x \in breaks
      OBVIOUS
    <2>3. Floor(breaks, a) = Floor(breaks, n)
      BY <1>3, <1>5, <1>7, <1>14, <2>1, <2>2, SameLine
    <2>4. Floor(breaks, a) \in Nat /\ Floor(breaks, a) <= a
      BY <1>3, <1>5, <1>7, FloorIs
    <2>5. PICK start \in 0..Len(content) : start = Floor(breaks, a) /\ start <= a
      BY <1>3, <2>4
    <2>6. start <= n
      BY <1>3, <2>5
    <2>7. PICK upto : Measures(content, encoding, upto)
      BY <1>2, WidthsMeasure
    <2>8. /\ Width(content, encoding, start, a) = upto[a] - upto[start]
          /\ Width(content, encoding, start, n) = upto[n] - upto[start]
      BY <1>9, <2>5, <2>6, <2>7 DEF Measures
    <2>9. upto[start] \in Nat /\ upto[a] \in Nat /\ upto[n] \in Nat
      BY <1>9, <2>5, <2>7 DEF Measures
    <2>10. Grows(content, encoding, upto)
      BY <1>2, <2>7, WidthsGrow
    <2>11. upto[a] < upto[n]
      BY <1>3, <1>9, <2>10 DEF Grows
    <2> QED
      BY <2>3, <2>5, <2>8, <2>9, <2>11
  <1> QED
    BY <1>11, <1>12, <1>13, <1>14 DEF Before

\* The tokens of the range are all tokens.
LEMMA InRangeAll ==
  ASSUME NEW content, Text(content), Counting,
         NEW A, NEW list \in Seq(A), Listed(content, list)
  PROVE  InRange(content, list) = list
  <1>1. PICK end : end = positionAtUtf16Offset(content, upstream.encoding,
                                               upstream.unicodeLineBreaks, Len(content))
    OBVIOUS
  <1>2. PICK n \in Nat : n = Len(content)
    BY DEF Text
  <1>3. ASSUME NEW i \in DOMAIN list
        PROVE  Before(ServerPosition(content, list[i].span[1]), end)
    <2>1. PICK a, b : a = list[i].span[1] /\ b = list[i].span[2]
      OBVIOUS
    <2>2. i \in 1..Len(list)
      BY DEF Listed
    <2>3. /\ a \in 0..Len(content) /\ b \in 0..Len(content) /\ a < b
          /\ Boundary(content, a)
      BY <2>1, <2>2 DEF Listed
    <2>4. a < Len(content)
      BY <1>2, <2>3
    <2> QED
      BY <1>1, <2>1, <2>3, <2>4, BeginsBefore
  <1>4. PICK S : S = {i \in DOMAIN list : Before(ServerPosition(content, list[i].span[1]), end)}
    OBVIOUS
  <1>5. S = DOMAIN list
    BY <1>3, <1>4
  <1>6. Picked(list, S) = list
    BY <1>5, PickedAll
  <1> QED
    BY <1>1, <1>4, <1>6 DEF InRange

\* What the server may list, in the words of the lemmas.
LEMMA ListsAre ==
  ASSUME NEW d \in Docs, SemanticTokensAssumption, NEW content, Text(content),
         NEW list \in TokenLists(d, content)
  PROVE  /\ list \in Seq([span : Spans(content), means : Meanings[d]])
         /\ Listed(content, list)
  <1> DEFINE A == [span : Spans(content), means : Meanings[d]]
  <1>1. list \in Seq(A)
    <2> HIDE DEF A
    <2>1. list \in UNION {[1..m -> A] : m \in 0..MaxTokens[d]}
      BY DEF TokenLists, BoundedSeq, SeqOf, A
    <2>2. PICK m \in 0..MaxTokens[d] : list \in [1..m -> A]
      BY <2>1
    <2>3. m \in Nat
      BY DEF SemanticTokensAssumption
    <2>4. DOMAIN list = 1..m /\ \A i \in 1..m : list[i] \in A
      BY <2>2
    <2>5. list = [i \in 1..m |-> list[i]]
      BY <2>2
    <2> QED
      BY <2>3, <2>4, <2>5
  <1>2. PICK n \in Nat : n = Len(list) /\ DOMAIN list = 1..n
    BY <1>1
  <1>3. ASSUME NEW i \in 1..n
        PROVE  /\ list[i].span[1] \in 0..Len(content) /\ list[i].span[2] \in 0..Len(content)
               /\ list[i].span[1] < list[i].span[2]
               /\ Boundary(content, list[i].span[1]) /\ Boundary(content, list[i].span[2])
               /\ list[i].means = <<list[i].means[1], list[i].means[2]>>
    <2>1. list[i] \in A
      <3> HIDE DEF A
      <3> QED BY <1>1, <1>2
    <2>2. list[i].span \in Spans(content) /\ list[i].means \in Meanings[d]
      BY <2>1
    <2> QED
      BY <2>2 DEF Spans, SemanticTokensAssumption
  <1>4. \A i \in 1..(Len(list) - 1) : list[i].span[1] <= list[i + 1].span[1]
    BY DEF TokenLists
  <1> QED
    BY <1>1, <1>2, <1>3, <1>4 DEF Listed

(***************************************************************************)
(* The inductive invariant                                                 *)
(***************************************************************************)
\* What stays as it is: the files, and how the server counts.
Given ==
    /\ \A d \in Docs : source[d] \in Texts[d]
    /\ upstream \in [encoding : Encodings, unicodeLineBreaks : Conventions]

\* The crawler that has the database open knows its legend.
OneLegend ==
    /\ db.legend \in Parsed \/ db.legend = NoLegend
    /\ open \in BOOLEAN
    /\ memory = IF open THEN db.legend ELSE NoLegend

Answered ==
    \A d \in Docs : tokens[d] = Unasked \/ tokens[d] \in TokenLists(d, Content(d))

\* A row has the tokens in the legend of the index and in the editor's coordinates.
Keeps(content, list, legend, row) ==
    /\ legend \in Parsed /\ Named(legend, list)
    /\ row.hash = content /\ row.data = Shown(content, list, legend, Len(list))

Truth(d) ==
    /\ tokens[d] # Unasked
    /\ Keeps(Content(d), tokens[d], db.legend, db.rows[d])
    /\ Clear(Content(d), tokens[d], Len(tokens[d]))
    /\ db.occurrences[d] = Found(Content(d), tokens[d], Len(tokens[d]))

Rows ==
    /\ DOMAIN tokens = Docs /\ DOMAIN db.rows = Docs /\ DOMAIN db.occurrences = Docs
    /\ \A d \in Docs : (db.rows[d] = NoRow /\ db.occurrences[d] = {}) \/ Truth(d)

IInv == Given /\ OneLegend /\ Answered /\ Rows /\ refused = {}

\* What is sent to the server is a text of whole characters.
LEMMA GivenText ==
  ASSUME SemanticTokensAssumption, Given, NEW d \in Docs
  PROVE  Text(Content(d)) /\ Counting
  <1>1. PICK text \in Texts[d] : text = source[d]
    BY DEF Given
  <1>2. text \in Seq(Units) /\ Paired(text)
    BY DEF SemanticTokensAssumption
  <1>3. Normalises(Body(text), normalizeSemanticText(text))
    BY <1>2, NormalisesText
  <1>4. Text(normalizeSemanticText(text))
    BY <1>3 DEF Normalises, Text
  <1>5. upstream.encoding \in PositionEncodings /\ upstream.unicodeLineBreaks \in BOOLEAN
    BY DEF Given, SemanticTokensAssumption
  <1> QED
    BY <1>1, <1>4, <1>5 DEF Content, Counting

\* The invariant holds at first.
LEMMA Initially == SemanticTokensAssumption /\ Init => IInv
  <1> SUFFICES ASSUME SemanticTokensAssumption, Init PROVE IInv
    OBVIOUS
  <1>1. Given
    BY DEF Init, Given
  <1>2. OneLegend
    BY DEF Init, OneLegend
  <1>3. Answered
    BY DEF Init, Answered
  <1>4. Rows /\ refused = {}
    BY DEF Init, Rows
  <1> QED
    BY <1>1, <1>2, <1>3, <1>4 DEF IInv

\* The files stay as they are.
LEMMA GivenStays ==
  ASSUME Given, UNCHANGED <<source, upstream>>
  PROVE  Given' /\ \A d \in Docs : Content(d)' = Content(d)
  BY DEF Given, Content

\* Counting as before, a server has things where it had them.
LEMMA SameServer ==
  ASSUME upstream' = upstream, NEW content, NEW list, NEW k
  PROVE  /\ Clear(content, list, k)' <=> Clear(content, list, k)
         /\ Found(content, list, k)' = Found(content, list, k)
  BY DEF Clear, Alone, Found, FoundRange, ServerPosition

\* What a row says stays true while its legend is only extended.
LEMMA TruthStays ==
  ASSUME NEW d \in Docs, Truth(d), UNCHANGED <<source, upstream>>,
         tokens'[d] = tokens[d], db'.rows[d] = db.rows[d],
         db'.occurrences[d] = db.occurrences[d],
         Keeps(Content(d), tokens[d], db'.legend, db.rows[d])
  PROVE  Truth(d)'
  <1>1. PICK content, list : content = Content(d) /\ list = tokens[d]
    OBVIOUS
  <1>2. content = Content(d)' /\ list = tokens'[d]
    BY <1>1 DEF Content
  <1>3. /\ Clear(content, list, Len(list))' <=> Clear(content, list, Len(list))
        /\ Found(content, list, Len(list))' = Found(content, list, Len(list))
    BY SameServer
  <1>4. Clear(content, list, Len(list))' /\ db'.occurrences[d] = Found(content, list, Len(list))'
    BY <1>1, <1>3 DEF Truth
  <1> QED
    BY <1>1, <1>2, <1>4 DEF Truth

\* Opening and leaving the database.
LEMMA OtherSteps ==
  ASSUME SemanticTokensAssumption, IInv, Open \/ Leave \/ UNCHANGED vars
  PROVE  IInv'
  <1>1. UNCHANGED <<source, upstream, tokens, db, refused>>
    BY DEF Open, Leave, vars
  <1>2. Given' /\ \A d \in Docs : Content(d)' = Content(d)
    BY <1>1, GivenStays DEF IInv
  <1>3. OneLegend'
    <2>1. OneLegend
      BY DEF IInv
    <2>2. CASE Open
      BY <1>1, <2>1, <2>2 DEF OneLegend, Open
    <2>3. CASE Leave
      BY <1>1, <2>1, <2>3 DEF OneLegend, Leave
    <2>4. CASE UNCHANGED vars
      BY <1>1, <2>1, <2>4 DEF OneLegend, vars
    <2> QED
      BY <2>2, <2>3, <2>4
  <1>4. Answered'
    BY <1>1, <1>2 DEF IInv, Answered
  <1>5. Rows'
    <2>1. ASSUME NEW d \in Docs
          PROVE  ((db.rows[d] = NoRow /\ db.occurrences[d] = {}) \/ Truth(d))'
      <3>1. CASE Truth(d)
        <4>1. Keeps(Content(d), tokens[d], db'.legend, db.rows[d])
          BY <1>1, <3>1 DEF Truth
        <4> QED
          BY <1>1, <3>1, <4>1, TruthStays
      <3>2. CASE db.rows[d] = NoRow /\ db.occurrences[d] = {}
        BY <1>1, <3>2
      <3> QED
        BY <3>1, <3>2 DEF IInv, Rows
    <2>2. DOMAIN tokens' = Docs /\ DOMAIN db'.rows = Docs /\ DOMAIN db'.occurrences = Docs
      BY <1>1 DEF IInv, Rows
    <2> QED
      BY <2>1, <2>2 DEF Rows
  <1>6. refused' = {}
    BY <1>1 DEF IInv
  <1> QED
    BY <1>2, <1>3, <1>4, <1>5, <1>6 DEF IInv

\* What a crawl makes of the tokens of a document.
LEMMA CaptureStep ==
  ASSUME SemanticTokensAssumption, IInv, NEW d \in Docs, Capture(d)
  PROVE  IInv'
  <1>0. PICK legend \in Legends, full \in BOOLEAN,
             list \in IF tokens[d] = Unasked THEN TokenLists(d, Content(d)) ELSE {tokens[d]} :
          LET content == Content(d)
              sent   == IF full THEN list ELSE InRange(content, list)
              taken  == semanticTokenCandidates(content, legend, Data(content, legend, sent))
              merged == Merged(memory, legend)
          IN  /\ open
              /\ \A i \in DOMAIN list : Expressible(legend, list[i].means)
              /\ tokens' = [tokens EXCEPT ![d] = list]
              /\ IF taken.ok /\ Fits(merged)
                   THEN /\ db' = [legend |-> merged,
                                 rows |-> [db.rows EXCEPT ![d] =
                                     [hash |-> content,
                                      data |-> Remapped(taken.highlighting, legend, merged)]],
                                 occurrences |->
                                     [db.occurrences EXCEPT ![d] = @ \cup taken.found]]
                        /\ memory' = merged
                        /\ UNCHANGED refused
                   ELSE /\ refused' = IF Showable(content, list, legend)
                                        THEN refused \cup {d} ELSE refused
                        /\ UNCHANGED <<db, memory>>
              /\ UNCHANGED <<source, upstream, open>>
    BY DEF Capture
  <1>1. PICK content, old : content = Content(d) /\ old = memory
    OBVIOUS
  <1>2. /\ list \in IF tokens[d] = Unasked THEN TokenLists(d, content) ELSE {tokens[d]}
        /\ \A i \in DOMAIN list : Expressible(legend, list[i].means)
    BY <1>0, <1>1
  <1>3. Given /\ OneLegend /\ Answered /\ Rows /\ refused = {}
    BY DEF IInv
  <1>4. Text(content) /\ Counting
    BY <1>1, <1>3, GivenText
  <1>5. list \in TokenLists(d, content) /\ (tokens[d] # Unasked => list = tokens[d])
    BY <1>1, <1>2, <1>3 DEF Answered
  <1>6. /\ list \in Seq([span : Spans(content), means : Meanings[d]])
        /\ Listed(content, list)
    BY <1>4, <1>5, ListsAre
  <1>7. legend \in Parsed /\ NoLegend \notin Parsed /\ MaxModifiers \in Nat
    BY DEF SemanticTokensAssumption
  <1>8. Named(legend, list)
    BY <1>2, <1>6 DEF Named, Listed
  <1>9. InRange(content, list) = list
    BY <1>4, <1>6, InRangeAll
  <1>10. PICK taken, merged :
           /\ taken = semanticTokenCandidates(content, legend, Data(content, legend, list))
           /\ merged = Merged(old, legend)
    OBVIOUS
  <1>11. /\ open = TRUE
         /\ tokens' = [tokens EXCEPT ![d] = list]
         /\ IF taken.ok /\ Fits(merged)
              THEN /\ db' = [legend |-> merged,
                            rows |-> [db.rows EXCEPT ![d] =
                                [hash |-> content,
                                 data |-> Remapped(taken.highlighting, legend, merged)]],
                            occurrences |->
                                [db.occurrences EXCEPT ![d] = @ \cup taken.found]]
                   /\ memory' = merged
                   /\ UNCHANGED refused
              ELSE /\ refused' = IF Showable(content, list, legend)
                                   THEN refused \cup {d} ELSE refused
                   /\ UNCHANGED <<db, memory>>
         /\ UNCHANGED <<source, upstream, open>>
    <2>1. (IF full THEN list ELSE InRange(content, list)) = list
      BY <1>9
    <2>2. open = TRUE
      BY <1>0, <1>3 DEF OneLegend
    <2> QED
      BY <1>0, <1>1, <1>10, <2>1, <2>2
  <1>12. old = db.legend /\ (old \in Parsed \/ old = NoLegend)
    BY <1>1, <1>3, <1>11 DEF OneLegend
  <1>13. IF Clear(content, list, Len(list))
           THEN /\ taken.ok = TRUE
                /\ taken.highlighting = Shown(content, list, legend, Len(list))
                /\ taken.found = Found(content, list, Len(list))
         ELSE taken.ok = FALSE
    BY <1>4, <1>6, <1>7, <1>8, <1>10, CandidatesAre
  <1>14. /\ Legend(merged)
         /\ old \in Parsed => Extends(old, merged)
         /\ Fits(merged) => merged \in Parsed
         /\ (old # NoLegend =>
                /\ Cardinality(ToSet(old.types) \cup ToSet(legend.types)) <= MaxTypes
                /\ Cardinality(ToSet(old.modifiers) \cup ToSet(legend.modifiers))
                     <= MaxModifiers)
              => Fits(merged)
    BY <1>7, <1>10, <1>12, MergedIs
  <1>15. Given' /\ \A e \in Docs : Content(e)' = Content(e)
    BY <1>3, <1>11, GivenStays
  <1>16. Answered'
    <2>1. ASSUME NEW e \in Docs
          PROVE  tokens'[e] = Unasked \/ tokens'[e] \in TokenLists(e, Content(e))
      BY <1>1, <1>3, <1>5, <1>11 DEF Answered, Rows
    <2> QED
      BY <1>15, <2>1 DEF Answered
  <1>17. DOMAIN tokens = Docs /\ DOMAIN db.rows = Docs /\ DOMAIN db.occurrences = Docs
    BY <1>3 DEF Rows
  <1>18. tokens'[d] = list /\ \A e \in Docs : e # d => tokens'[e] = tokens[e]
    BY <1>11, <1>17
  <1>19. CASE ~ (taken.ok /\ Fits(merged))
    <2>1. UNCHANGED <<db, memory, source, upstream, open>>
      BY <1>11, <1>19
    <2>2. OneLegend'
      BY <1>3, <2>1 DEF OneLegend
    <2>3. ~ Showable(content, list, legend)
      <3>1. SUFFICES ASSUME Showable(content, list, legend) PROVE FALSE
        OBVIOUS
      <3>2. Clear(content, list, Len(list))
        BY <1>6, <3>1 DEF Showable, Clear, Alone, Apart, Listed
      <3>3. taken.ok
        BY <1>13, <3>2
      <3>4. Fits(merged)
        BY <1>12, <1>14, <3>1 DEF Showable
      <3> QED
        BY <1>19, <3>3, <3>4
    <2>4. refused' = {}
      BY <1>3, <1>11, <1>19, <2>3
    <2>5. ASSUME NEW e \in Docs
          PROVE  ((db.rows[e] = NoRow /\ db.occurrences[e] = {}) \/ Truth(e))'
      <3>1. CASE Truth(e)
        <4>1. tokens[e] # Unasked /\ Keeps(Content(e), tokens[e], db'.legend, db.rows[e])
          BY <2>1, <3>1 DEF Truth
        <4>2. tokens'[e] = tokens[e]
          BY <1>5, <1>18, <4>1
        <4> QED
          BY <2>1, <3>1, <4>1, <4>2, TruthStays
      <3>2. CASE db.rows[e] = NoRow /\ db.occurrences[e] = {}
        BY <2>1, <3>2
      <3> QED
        BY <1>3, <3>1, <3>2 DEF Rows
    <2>6. Rows'
      <3>1. DOMAIN tokens' = Docs /\ DOMAIN db'.rows = Docs /\ DOMAIN db'.occurrences = Docs
        BY <1>11, <1>17, <2>1
      <3> QED
        BY <2>5, <3>1 DEF Rows
    <2> QED
      BY <1>15, <1>16, <2>2, <2>4, <2>6 DEF IInv
  <1>20. CASE taken.ok /\ Fits(merged)
    <2>1. PICK row : row = [hash |-> content,
                            data |-> Remapped(taken.highlighting, legend, merged)]
      OBVIOUS
    <2>2. /\ db' = [legend |-> merged, rows |-> [db.rows EXCEPT ![d] = row],
                    occurrences |-> [db.occurrences EXCEPT ![d] = @ \cup taken.found]]
          /\ memory' = merged /\ UNCHANGED <<source, upstream, open, refused>>
      BY <1>11, <1>20, <2>1
    <2>3. /\ db'.legend = merged /\ db'.rows = [db.rows EXCEPT ![d] = row]
          /\ db'.occurrences = [db.occurrences EXCEPT ![d] = @ \cup taken.found]
      BY <2>2
    <2>4. merged \in Parsed
      BY <1>14, <1>20
    <2>5. OneLegend'
      BY <1>11, <2>2, <2>3, <2>4 DEF OneLegend
    <2>6. /\ Clear(content, list, Len(list))
          /\ taken.highlighting = Shown(content, list, legend, Len(list))
          /\ taken.found = Found(content, list, Len(list))
      BY <1>13, <1>20
    <2>7. Len(list) \in Nat
      BY <1>6 DEF Listed
    <2>8. /\ Remapped(taken.highlighting, legend, merged)
               = Shown(content, list, merged, Len(list))
          /\ Named(merged, list)
      BY <1>7, <1>8, <1>10, <1>12, <1>20, <2>6, <2>7, MergedShows
    <2>9. Keeps(content, list, merged, row)
      BY <2>1, <2>4, <2>8 DEF Keeps
    <2>10. list # Unasked
      <3>1. PICK n \in Nat : n = Len(list) /\ DOMAIN list = 1..n
        BY <1>6
      <3>2. \A i \in 1..n : list[i] \in [span : Spans(content), means : Meanings[d]]
        <4> DEFINE A == [span : Spans(content), means : Meanings[d]]
        <4>1. list \in Seq(A)
          BY <1>6
        <4> HIDE DEF A
        <4>2. \A i \in 1..n : list[i] \in A
          BY <3>1, <4>1
        <4> QED
          BY <4>2 DEF A
      <3>3. \A i \in 1..n : list[i] \in [span : Nat \X Nat, means : Meanings[d]]
        <4>1. \A s \in Spans(content) : s \in Nat \X Nat
          BY <1>4 DEF Spans, Text
        <4> QED
          BY <3>2, <4>1
      <3>4. list \in Seq([span : Nat \X Nat, means : Meanings[d]])
        <4> DEFINE A == [span : Spans(content), means : Meanings[d]]
                   B == [span : Nat \X Nat, means : Meanings[d]]
        <4>1. list \in Seq(A) /\ \A i \in 1..n : list[i] \in B
          BY <1>6, <3>3
        <4> HIDE DEF A, B
        <4>2. list \in Seq(B)
          BY <3>1, <4>1
        <4> QED
          BY <4>2 DEF B
      <3> QED
        BY <3>4 DEF SemanticTokensAssumption
    <2>11. Truth(d)'
      <3>1. /\ Clear(content, list, Len(list))'
            /\ Found(content, list, Len(list))' = Found(content, list, Len(list))
        BY <2>2, <2>6, SameServer
      <3>2. db'.rows[d] = row /\ db'.occurrences[d] = db.occurrences[d] \cup taken.found
        BY <1>17, <2>3
      <3>3. db.occurrences[d] \subseteq Found(content, list, Len(list))
        <4>1. CASE Truth(d)
          BY <1>1, <1>5, <4>1 DEF Truth
        <4>2. CASE db.occurrences[d] = {}
          BY <4>2
        <4> QED
          BY <1>3, <4>1, <4>2 DEF Rows
      <3>4. db'.occurrences[d] = Found(content, list, Len(list))'
        BY <2>6, <3>1, <3>2, <3>3
      <3>5. content = Content(d)' /\ list = tokens'[d]
        BY <1>1, <1>15, <1>18
      <3> QED
        BY <2>3, <2>9, <2>10, <3>1, <3>2, <3>4, <3>5 DEF Truth
    <2>12. ASSUME NEW e \in Docs, e # d
           PROVE  ((db.rows[e] = NoRow /\ db.occurrences[e] = {}) \/ Truth(e))'
      <3>1. /\ tokens'[e] = tokens[e] /\ db'.rows[e] = db.rows[e]
            /\ db'.occurrences[e] = db.occurrences[e]
        BY <1>17, <1>18, <2>3, <2>12
      <3>2. CASE Truth(e)
        <4>1. PICK there, those : there = Content(e) /\ those = tokens[e]
          OBVIOUS
        <4>2. Keeps(there, those, old, db.rows[e])
          BY <1>12, <3>2, <4>1 DEF Truth
        <4>3. old \in Parsed /\ Named(old, those)
          BY <4>2 DEF Keeps
        <4>4. Len(those) \in Nat
          <5>1. those \in TokenLists(e, there)
            BY <1>3, <3>2, <4>1 DEF Answered, Truth
          <5>2. Text(there)
            BY <1>3, <4>1, GivenText
          <5> QED
            BY <5>1, <5>2, ListsAre DEF Listed
        <4>5. /\ Shown(there, those, merged, Len(those)) = Shown(there, those, old, Len(those))
              /\ Named(merged, those)
          BY <1>14, <4>3, <4>4, ExtendsShows
        <4>6. Keeps(there, those, merged, db.rows[e])
          BY <2>4, <4>2, <4>5 DEF Keeps
        <4>7. Keeps(Content(e), tokens[e], db'.legend, db.rows[e])
          BY <2>3, <4>1, <4>6
        <4> QED
          BY <2>2, <3>1, <3>2, <4>7, TruthStays
      <3>3. CASE db.rows[e] = NoRow /\ db.occurrences[e] = {}
        BY <3>1, <3>3
      <3> QED
        BY <1>3, <3>2, <3>3 DEF Rows
    <2>13. Rows'
      <3>1. DOMAIN tokens' = Docs /\ DOMAIN db'.rows = Docs /\ DOMAIN db'.occurrences = Docs
        BY <1>11, <1>17, <2>3
      <3>2. \A e \in Docs : ((db.rows[e] = NoRow /\ db.occurrences[e] = {}) \/ Truth(e))'
        BY <2>11, <2>12
      <3> QED
        BY <3>1, <3>2 DEF Rows
    <2> QED
      BY <1>3, <1>15, <1>16, <2>2, <2>5, <2>13 DEF IInv
  <1> QED
    BY <1>19, <1>20

\* What can be shown does not overlap: no two tokens cover the same place.
Covers(list, i, offset) == list[i].span[1] <= offset /\ offset < list[i].span[2]

LEMMA OneCovers ==
  ASSUME NEW content \in Seq(Units), NEW list, Listed(content, list),
         Clear(content, list, Len(list)), NEW offset \in Nat,
         NEW i \in 1..Len(list), NEW j \in 1..Len(list),
         Covers(list, i, offset), Covers(list, j, offset)
  PROVE  i = j
  <1>1. PICK n \in Nat : n = Len(list)
    BY DEF Listed
  <1>2. \A k \in 1..n : /\ list[k].span[1] \in Nat /\ list[k].span[2] \in Nat
                        /\ list[k].span[1] < list[k].span[2]
    BY <1>1 DEF Listed
  <1>3. \A k \in 1..(n - 1) : list[k].span[2] <= list[k + 1].span[1]
    BY <1>1 DEF Clear, Apart
  <1> DEFINE good == {k \in 0..n : \A m \in 1..k : m < k => list[m].span[2] <= list[k].span[1]}
  <1>4. 0 \in good
    OBVIOUS
  <1>5. ASSUME NEW k \in 0..(n - 1), k \in good
        PROVE  k + 1 \in good
    <2>1. PICK next \in 1..n : next = k + 1 /\ next - 1 = k
      BY <1>1
    <2>2. ASSUME NEW m \in 1..next, m < next
          PROVE  list[m].span[2] <= list[next].span[1]
      <3>1. k \in 1..(n - 1) /\ m \in 1..k
        BY <1>1, <2>1, <2>2
      <3>2. list[k].span[2] <= list[next].span[1]
        BY <1>3, <2>1, <3>1
      <3>3. CASE m = k
        BY <3>2, <3>3
      <3>4. CASE m # k
        <4>1. m < k
          BY <3>1, <3>4
        <4>2. list[m].span[2] <= list[k].span[1]
          BY <1>5, <3>1, <4>1
        <4>3. /\ k \in 1..n /\ m \in 1..n
              /\ list[k].span[1] < list[k].span[2]
              /\ list[k].span[1] \in Nat /\ list[k].span[2] \in Nat
              /\ list[m].span[2] \in Nat /\ list[next].span[1] \in Nat
          BY <1>2, <3>1
        <4>4. PICK w, x, y, z : /\ w = list[m].span[2] /\ x = list[k].span[1]
                                /\ y = list[k].span[2] /\ z = list[next].span[1]
          OBVIOUS
        <4>5. w \in Nat /\ x \in Nat /\ y \in Nat /\ z \in Nat /\ w <= x /\ x < y /\ y <= z
          BY <3>2, <4>2, <4>3, <4>4
        <4>6. w <= z
          BY <4>5
        <4> QED
          BY <4>4, <4>6, Zenon
      <3> QED
        BY <3>3, <3>4
    <2> QED
      BY <2>1, <2>2
  <1>6. 0..n \subseteq good
    <2>1. \A k \in 0..(n - 1) : k \in good => k + 1 \in good
      <3> HIDE DEF good
      <3> QED
        BY <1>5
    <2> HIDE DEF good
    <2> QED
      BY <1>1, <1>4, <2>1, CountUp
  <1>7. ASSUME NEW x \in 1..n, NEW y \in 1..n, Covers(list, x, offset), Covers(list, y, offset)
        PROVE  ~ (x < y)
    <2>1. y \in good /\ x \in 1..n
      <3> HIDE DEF good
      <3> QED
        BY <1>6
    <2>2. x < y => list[x].span[2] <= list[y].span[1]
      BY <2>1
    <2>3. PICK b, a : b = list[x].span[2] /\ a = list[y].span[1]
      OBVIOUS
    <2>4. a \in Nat /\ b \in Nat
      BY <1>2, <2>3
    <2>5. offset < b /\ a <= offset
      BY <1>7, <2>3 DEF Covers
    <2>6. x < y => b <= a
      BY <2>2, <2>3
    <2> QED
      BY <2>4, <2>5, <2>6
  <1> QED
    BY <1>1, <1>7

\* A server that counts as editors do.
LEMMA CountsAlike ==
  ASSUME NEW content, Text(content),
         upstream = [encoding |-> "utf-16", unicodeLineBreaks |-> FALSE],
         NEW a \in 0..Len(content)
  PROVE  /\ ServerPosition(content, a) = Edited(content, a)
         /\ \A b \in 0..Len(content) :
               a <= b => Width(content, upstream.encoding, a, b) = b - a
  <1>1. upstream.encoding = "utf-16" /\ upstream.unicodeLineBreaks = FALSE
    OBVIOUS
  <1>2. "utf-16" \in PositionEncodings /\ content \in Seq(Units) /\ Paired(content)
    BY DEF PositionEncodings, Text
  <1>3. PICK upto : Measures(content, "utf-16", upto)
    BY <1>2, WidthsMeasure
  <1>4. Grows(content, "utf-16", upto)
    BY <1>2, <1>3, WidthsGrow
  <1>5. \A o \in 0..Len(content) : upto[o] = o
    BY <1>4 DEF Grows
  <1>6. \A x, y \in 0..Len(content) : x <= y => Width(content, "utf-16", x, y) = y - x
    BY <1>3, <1>5 DEF Measures
  <1>7. PICK breaks : breaks = Breaks(content, FALSE)
    OBVIOUS
  <1>8. \A x \in breaks : x \in Nat
    BY <1>7 DEF Breaks
  <1>9. IsFiniteSet(breaks)
    <2>1. FALSE \in BOOLEAN
      OBVIOUS
    <2>2. HasLines(content, FALSE)
      BY <1>2, <2>1, Lines
    <2> QED
      BY <1>7, <2>2 DEF HasLines
  <1>10. a \in Nat
    OBVIOUS
  <1>11. Floor(breaks, a) \in Nat /\ Floor(breaks, a) <= a
    BY <1>8, <1>9, <1>10, FloorIs
  <1>12. PICK start \in 0..Len(content) : start = Floor(breaks, a) /\ start <= a
    BY <1>11
  <1>13. Width(content, "utf-16", start, a) = a - start
    BY <1>6, <1>12
  <1>14. ServerPosition(content, a) = Served(content, "utf-16", FALSE, a)
    BY <1>1, ServerPositionIs
  <1> QED
    BY <1>1, <1>6, <1>7, <1>12, <1>13, <1>14 DEF Served, Edited

\* What is looked up at the place of an offset, in an occurrence's range.
At(o, position) ==
    o.line = position.line /\ o.from <= position.character /\ position.character < o.to

EditedRange(content, t) ==
    [line |-> Edited(content, t.span[1]).line,
     from |-> Edited(content, t.span[1]).character,
     to   |-> Edited(content, t.span[2]).character]

\* The range of an occurrence has a place exactly when its token covers it.
LEMMA RangeCovers ==
  ASSUME NEW content, Text(content), Counting,
         upstream = [encoding |-> "utf-16", unicodeLineBreaks |-> FALSE],
         NEW list, Listed(content, list), Clear(content, list, Len(list)),
         NEW i \in 1..Len(list), NEW offset \in 0..Len(content)
  PROVE  /\ FoundRange(content, list[i]) = EditedRange(content, list[i])
         /\ At(EditedRange(content, list[i]), Edited(content, offset))
              <=> Covers(list, i, offset)
  <1>1. PICK a, b : a = list[i].span[1] /\ b = list[i].span[2]
    OBVIOUS
  <1>2. a \in 0..Len(content) /\ b \in 0..Len(content) /\ a < b
    BY <1>1 DEF Listed
  <1>3. PICK n \in Nat : n = Len(content) /\ content \in Seq(Units)
    BY DEF Text
  <1>4. a \in Nat /\ b \in Nat /\ offset \in Nat /\ a <= b
    BY <1>2, <1>3
  <1>5. \A o \in 0..Len(content) : ServerPosition(content, o) = Edited(content, o)
    BY CountsAlike
  <1>6. Width(content, upstream.encoding, a, b) = b - a
    BY <1>2, <1>4, CountsAlike
  <1>7. OnOneLine(content, list[i])
    BY ClearOnOneLine
  <1>8. PICK p, q, r : /\ p = Edited(content, a) /\ q = Edited(content, b)
                       /\ r = Edited(content, offset)
    OBVIOUS
  <1>9. /\ p.line \in Nat /\ p.character \in Nat /\ q.line \in Nat /\ q.character \in Nat
        /\ r.line \in Nat /\ r.character \in Nat
    BY <1>2, <1>3, <1>8, EditedIs
  <1>10. p.line = q.line /\ q.character - p.character = b - a
    BY <1>1, <1>7, <1>8 DEF OnOneLine
  <1>11. FoundRange(content, list[i]) = EditedRange(content, list[i])
    <2>1. FoundRange(content, list[i])
            = [line |-> p.line, from |-> p.character, to |-> p.character + (b - a)]
      BY <1>1, <1>2, <1>5, <1>6, <1>8 DEF FoundRange
    <2>2. p.character + (b - a) = q.character
      BY <1>4, <1>9, <1>10
    <2> QED
      BY <1>1, <1>8, <2>1, <2>2 DEF EditedRange
  <1>12. At(EditedRange(content, list[i]), r)
           <=> p.line = r.line /\ p.character <= r.character /\ r.character < q.character
    BY <1>1, <1>8 DEF At, EditedRange
  <1>13. CASE offset < a
    <2>1. ASSUME p.line = r.line PROVE r.character < p.character
      <3>1. ServerPosition(content, offset).line = ServerPosition(content, a).line
        BY <1>2, <1>5, <1>8, <2>1
      <3>2. offset <= a
        BY <1>4, <1>13
      <3>3. p.character - r.character = a - offset
        BY <1>2, <1>8, <3>1, <3>2, SameServedLine
      <3> QED
        BY <1>4, <1>9, <1>13, <3>3
    <2>2. ~ Covers(list, i, offset)
      BY <1>1, <1>4, <1>13 DEF Covers
    <2> QED
      BY <1>8, <1>9, <1>11, <1>12, <2>1, <2>2
  <1>14. CASE a <= offset
    <2>1. r.line = p.line /\ r.character < q.character <=> offset < b
      BY <1>2, <1>4, <1>8, <1>10, <1>14, Overlaps
    <2>2. ASSUME p.line = r.line PROVE p.character <= r.character
      <3>1. ServerPosition(content, a).line = ServerPosition(content, offset).line
        BY <1>2, <1>5, <1>8, <2>2
      <3>2. r.character - p.character = offset - a
        BY <1>2, <1>8, <1>14, <3>1, SameServedLine
      <3> QED
        BY <1>4, <1>9, <1>14, <3>2
    <2>3. Covers(list, i, offset) <=> offset < b
      BY <1>1, <1>14 DEF Covers
    <2> QED
      BY <1>8, <1>11, <1>12, <2>1, <2>2, <2>3
  <1> QED
    BY <1>4, <1>13, <1>14

\* The invariant is one.
LEMMA Invariance == Spec => []IInv
  <1>1. Init => IInv
    BY Initially, SemanticTokensAssumption
  <1>2. IInv /\ [Next]_vars => IInv'
    <2> SUFFICES ASSUME IInv, [Next]_vars PROVE IInv'
      OBVIOUS
    <2>1. SemanticTokensAssumption
      BY SemanticTokensAssumption
    <2>2. CASE Open \/ Leave \/ UNCHANGED vars
      BY <2>1, <2>2, OtherSteps
    <2>3. ASSUME NEW d \in Docs, Capture(d) PROVE IInv'
      BY <2>1, <2>3, CaptureStep
    <2> QED
      BY <2>2, <2>3 DEF Next
  <1> QED
    BY <1>1, <1>2, PTL DEF Spec

\* What the invariant says of a row.
LEMMA RowIs ==
  ASSUME SemanticTokensAssumption, IInv, NEW d \in Docs, db.rows[d] # NoRow,
         NEW content, content = Content(d), NEW list, list = tokens[d]
  PROVE  /\ Text(content) /\ Counting /\ Listed(content, list)
         /\ Keeps(content, list, db.legend, db.rows[d])
         /\ Clear(content, list, Len(list))
         /\ db.occurrences[d] = Found(content, list, Len(list))
  <1>1. Truth(d)
    BY DEF IInv, Rows
  <1>2. Text(content) /\ Counting
    BY GivenText DEF IInv
  <1>3. list \in TokenLists(d, content)
    BY <1>1 DEF IInv, Answered, Truth
  <1>4. Listed(content, list)
    BY <1>2, <1>3, ListsAre
  <1> QED
    BY <1>1, <1>2, <1>4 DEF Truth

\* An editor has what is at an offset where the mapper says.
LEMMA EditorsAgree ==
  ASSUME SemanticTokensAssumption, NEW d \in Docs, NEW text \in Texts[d],
         NEW content, content = normalizeSemanticText(text), NEW o \in 0..Len(content)
  PROVE  EditorPosition(text, o) = Edited(content, o)
  BY EditorPositionMaps DEF SemanticTokensAssumption

\* In every editor text with the hash of a row, each token is where the server
\* meant it, under the names it gave (semanticTokenCandidates, the merged legend
\* of saveSemanticTokens, and what CodeIndex hands to an editor).
THEOREM HighlightingIsTrue == Spec => []HighlightingTrue
  <1>1. ASSUME IInv PROVE HighlightingTrue
    <2> SUFFICES ASSUME NEW d \in Docs, db.rows[d] # NoRow
                 PROVE  /\ validateSemanticTokens(db.rows[d].data, db.legend)
                        /\ \A text \in Texts[d] : normalizeSemanticText(text) = db.rows[d].hash =>
                             Decoded(db.rows[d], db.legend) =
                               [i \in DOMAIN tokens[d] |->
                                 [start |-> EditorPosition(text, tokens[d][i].span[1]),
                                  end   |-> EditorPosition(text, tokens[d][i].span[2]),
                                  means |-> tokens[d][i].means]]
      BY DEF HighlightingTrue
    <2>1. PICK content, list, legend, row :
            /\ content = Content(d) /\ list = tokens[d]
            /\ legend = db.legend /\ row = db.rows[d]
      OBVIOUS
    <2>2. SemanticTokensAssumption
      BY SemanticTokensAssumption
    <2>3. /\ Text(content) /\ Counting /\ Listed(content, list)
          /\ Keeps(content, list, legend, row)
          /\ Clear(content, list, Len(list))
      BY <1>1, <2>1, <2>2, RowIs
    <2>4. /\ legend \in Parsed /\ Named(legend, list)
          /\ row.hash = content /\ row.data = Shown(content, list, legend, Len(list))
      BY <2>3 DEF Keeps
    <2>5. content \in Seq(Units)
      BY <2>3 DEF Text
    <2>6. \A i \in 1..Len(list) : OnOneLine(content, list[i])
      BY <2>3, ClearOnOneLine
    <2>7. /\ Decoded(row, legend) = Places(content, list, Len(list))
          /\ validateSemanticTokens(row.data, legend)
      BY <2>3, <2>4, <2>5, <2>6, DecodedIs
    <2>8. ASSUME NEW text \in Texts[d], normalizeSemanticText(text) = content
          PROVE  Places(content, list, Len(list)) =
                   [i \in DOMAIN list |->
                      [start |-> EditorPosition(text, list[i].span[1]),
                       end   |-> EditorPosition(text, list[i].span[2]),
                       means |-> list[i].means]]
      <3>1. \A o \in 0..Len(content) : EditorPosition(text, o) = Edited(content, o)
        BY <2>2, <2>8, EditorsAgree
      <3>2. DOMAIN list = 1..Len(list)
        BY <2>3 DEF Listed
      <3>3. \A i \in 1..Len(list) : /\ list[i].span[1] \in 0..Len(content)
                                    /\ list[i].span[2] \in 0..Len(content)
        BY <2>3 DEF Listed
      <3> QED
        BY <3>1, <3>2, <3>3 DEF Places, Place
    <2> QED
      BY <2>1, <2>4, <2>7, <2>8
  <1> QED
    BY <1>1, Invariance, PTL

\* Tokens are refused exactly when an editor could not show them: no row holds
\* others, and none that could be shown was refused (the checks of
\* semanticTokenCandidates, and parseSemanticTokensLegend of the merged legend).
THEOREM RefusalsAreExact == Spec => []RefusesExactly
  <1>1. ASSUME IInv PROVE RefusesExactly
    <2>1. refused = {}
      BY <1>1 DEF IInv
    <2>2. ASSUME NEW d \in Docs, db.rows[d] # NoRow
          PROVE  Showable(db.rows[d].hash, tokens[d], db.legend)
      <3>1. PICK content, list, legend, row :
              /\ content = Content(d) /\ list = tokens[d]
              /\ legend = db.legend /\ row = db.rows[d]
        OBVIOUS
      <3>2. SemanticTokensAssumption
        BY SemanticTokensAssumption
      <3>3. /\ Listed(content, list) /\ Keeps(content, list, legend, row)
            /\ Clear(content, list, Len(list))
        BY <1>1, <2>2, <3>1, <3>2, RowIs
      <3>4. legend \in Parsed /\ row.hash = content
        BY <3>3 DEF Keeps
      <3>5. /\ legend.types \in Seq(Names) /\ Distinct(legend.types)
            /\ legend.modifiers \in Seq(Names) /\ Distinct(legend.modifiers)
            /\ Len(legend.types) <= MaxTypes /\ Len(legend.modifiers) <= MaxModifiers
        BY <3>4 DEF Parsed
      <3>6. /\ Cardinality(ToSet(legend.types)) = Len(legend.types)
            /\ Cardinality(ToSet(legend.modifiers)) = Len(legend.modifiers)
        BY <3>5, DistinctCounts
      <3>7. /\ ToSet(legend.types) \cup ToSet(legend.types) = ToSet(legend.types)
            /\ ToSet(legend.modifiers) \cup ToSet(legend.modifiers) = ToSet(legend.modifiers)
        OBVIOUS
      <3>8. /\ Cardinality(ToSet(legend.types) \cup ToSet(legend.types)) <= MaxTypes
            /\ Cardinality(ToSet(legend.modifiers) \cup ToSet(legend.modifiers)) <= MaxModifiers
        BY <3>5, <3>6, <3>7
      <3>9. DOMAIN list = 1..Len(list)
        BY <3>3 DEF Listed
      <3>10. Showable(content, list, legend)
        BY <3>1, <3>3, <3>8, <3>9 DEF Showable, Clear, Alone, Apart
      <3> QED
        BY <3>1, <3>4, <3>10
    <2> QED
      BY <2>1, <2>2 DEF RefusesExactly
  <1> QED
    BY <1>1, Invariance, PTL

\* Of a server that counts as editors do, a lookup at any place of an editor text
\* with the hash of a row finds the navigable token that covers it, and nothing
\* where none does (the occurrences of semanticTokenCandidates and the lookup
\* #findOccurrenceId).
THEOREM NavigationIsFound == Spec => []NavigationFinds
  <1>1. ASSUME IInv PROVE NavigationFinds
    <2> SUFFICES ASSUME upstream = [encoding |-> "utf-16", unicodeLineBreaks |-> FALSE],
                        NEW d \in Docs, db.rows[d] # NoRow,
                        NEW text \in Texts[d], normalizeSemanticText(text) = db.rows[d].hash,
                        NEW offset \in 0..(Len(Content(d)) - 1)
                 PROVE  findOccurrence(db.occurrences[d], EditorPosition(text, offset)) =
                          {[line |-> EditorPosition(text, t.span[1]).line,
                            from |-> EditorPosition(text, t.span[1]).character,
                            to   |-> EditorPosition(text, t.span[2]).character] :
                              t \in {u \in ToSet(tokens[d]) :
                                       /\ u.span[1] <= offset /\ offset < u.span[2]
                                       /\ u.means[1] \in Navigable}}
      BY DEF NavigationFinds
    <2>1. PICK content, list, legend, row, occurrences :
            /\ content = Content(d) /\ list = tokens[d]
            /\ legend = db.legend /\ row = db.rows[d] /\ occurrences = db.occurrences[d]
      OBVIOUS
    <2>2. SemanticTokensAssumption
      BY SemanticTokensAssumption
    <2>3. /\ Text(content) /\ Counting /\ Listed(content, list)
          /\ Keeps(content, list, legend, row)
          /\ Clear(content, list, Len(list))
          /\ occurrences = Found(content, list, Len(list))
      BY <1>1, <2>1, <2>2, RowIs
    <2>4. normalizeSemanticText(text) = content
      BY <2>1, <2>3 DEF Keeps
    <2>5. \A o \in 0..Len(content) : EditorPosition(text, o) = Edited(content, o)
      BY <2>2, <2>4, EditorsAgree
    <2>6. content \in Seq(Units)
      BY <2>3 DEF Text
    <2>7. offset \in 0..Len(content) /\ offset \in Nat
      BY <2>1, <2>6
    <2>8. PICK n \in Nat : n = Len(list) /\ DOMAIN list = 1..n
      BY <2>3 DEF Listed
    <2>9. PICK place : place = Edited(content, offset)
      OBVIOUS
    <2> DEFINE range(i) == EditedRange(content, list[i])
    <2>10. \A i \in 1..n : /\ FoundRange(content, list[i]) = range(i)
                           /\ At(range(i), place) <=> Covers(list, i, offset)
      BY <2>3, <2>7, <2>8, <2>9, RangeCovers
    <2>11. PICK navigable : navigable = {i \in 1..n : list[i].means[1] \in Navigable}
      OBVIOUS
    <2>12. occurrences = {range(i) : i \in navigable}
      BY <2>3, <2>8, <2>10, <2>11 DEF Found
    <2>13. PICK at : at = {o \in occurrences : At(o, place)}
      OBVIOUS
    <2>14. PICK covering : covering = {i \in navigable : Covers(list, i, offset)}
      OBVIOUS
    <2>15. at = {range(i) : i \in covering}
      <3> HIDE DEF range
      <3> QED
        BY <2>10, <2>11, <2>12, <2>13, <2>14
    <2>16. \A i, j \in covering : i = j
      BY <2>3, <2>6, <2>7, <2>8, <2>11, <2>14, OneCovers
    <2>17. \A o, p \in at : o = p
      <3> HIDE DEF range
      <3> QED
        BY <2>15, <2>16
    <2>18. \A o \in at : o.to - o.from \in Int
      <3> SUFFICES ASSUME NEW i \in 1..n
                   PROVE  range(i).to - range(i).from \in Int
        BY <2>11, <2>14, <2>15
      <3>1. PICK a, b : a = list[i].span[1] /\ b = list[i].span[2]
        OBVIOUS
      <3>2. a \in 0..Len(content) /\ b \in 0..Len(content)
        BY <2>3, <2>8, <3>1 DEF Listed
      <3>3. Edited(content, a).character \in Nat /\ Edited(content, b).character \in Nat
        BY <2>6, <3>2, EditedIs
      <3> QED
        BY <3>1, <3>3 DEF EditedRange
    <2>19. findOccurrence(occurrences, place) = at
      <3>1. findOccurrence(occurrences, place)
              = {o \in at : \A p \in at : o.to - o.from <= p.to - p.from}
        BY <2>13 DEF findOccurrence, At
      <3>2. \A o \in at : \A p \in at : o.to - o.from <= p.to - p.from
        BY <2>17, <2>18
      <3> QED
        BY <3>1, <3>2
    <2>20. PICK covered : covered = {u \in ToSet(list) : /\ u.span[1] <= offset /\ offset < u.span[2]
                                                        /\ u.means[1] \in Navigable}
      OBVIOUS
    <2>21. /\ \A u \in covered : \E i \in covering : u = list[i]
           /\ \A i \in covering : list[i] \in covered
      BY <2>8, <2>11, <2>14, <2>20 DEF ToSet, Covers
    <2>22. \A i \in covering :
             [line |-> EditorPosition(text, list[i].span[1]).line,
              from |-> EditorPosition(text, list[i].span[1]).character,
              to   |-> EditorPosition(text, list[i].span[2]).character] = range(i)
      <3>1. \A i \in 1..n : /\ list[i].span[1] \in 0..Len(content)
                            /\ list[i].span[2] \in 0..Len(content)
        BY <2>3, <2>8 DEF Listed
      <3> QED
        BY <2>5, <2>11, <2>14, <3>1 DEF EditedRange
    <2>23. {[line |-> EditorPosition(text, t.span[1]).line,
             from |-> EditorPosition(text, t.span[1]).character,
             to   |-> EditorPosition(text, t.span[2]).character] : t \in covered} = at
      <3> DEFINE f(t) == [line |-> EditorPosition(text, t.span[1]).line,
                          from |-> EditorPosition(text, t.span[1]).character,
                          to   |-> EditorPosition(text, t.span[2]).character]
      <3>1. \A i \in covering : f(list[i]) = range(i)
        BY <2>22
      <3> HIDE DEF f, range
      <3>2. {f(t) : t \in covered} = at
        BY <2>15, <2>21, <3>1
      <3> QED
        BY <3>2 DEF f
    <2>24. EditorPosition(text, offset) = place
      BY <2>5, <2>7, <2>9
    <2> QED
      BY <2>1, <2>19, <2>20, <2>23, <2>24
  <1> QED
    BY <1>1, Invariance, PTL
=============================================================================
