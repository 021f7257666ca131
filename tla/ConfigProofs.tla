---------------------------- MODULE ConfigProofs ----------------------------
(***************************************************************************)
(* What the configuration reads from a file, whatever its lines, is what   *)
(* the lines say: splitting a line that has been trimmed gives its words,  *)
(* fgets comes by the pieces of the lines one after the other, and the     *)
(* dictionary keeps of each name the first that begins with it.            *)
(***************************************************************************)
EXTENDS Config, TLAPS, FiniteSetTheorems, SequenceTheorems, WellFoundedInduction

-----------------------------------------------------------------------------
(* Numbers *)

(* A set of numbers has a least one, and Min is it; one that is bounded    *)
(* has a greatest.                                                         *)
LEMMA LeastPlace ==
  ASSUME NEW S \in SUBSET Nat, S # {}
  PROVE  \E x \in S : \A y \in S : x <= y
  <1> DEFINE Less == {ss \in Nat \X Nat : ss[1] < ss[2]}
  <1>1. IsWellFoundedOn(Less, Nat)
    BY NatLessThanWellFounded DEF OpToRel
  <1>2. \A x, y \in Nat : x < y => <<x, y>> \in Less
    OBVIOUS
  <1>3. PICK x \in S : \A y \in S : ~ (<<y, x>> \in Less)
    <2> HIDE DEF Less
    <2> QED BY <1>1, WFMin
  <1>4. \A y \in S : ~ (y < x)
    <2> HIDE DEF Less
    <2> QED BY <1>2, <1>3
  <1> QED BY <1>3, <1>4

LEMMA MinIs ==
  ASSUME NEW S \in SUBSET Nat, S # {}
  PROVE  Min(S) \in S /\ \A y \in S : Min(S) <= y
  BY LeastPlace DEF Min

LEMMA MaxIs ==
  ASSUME NEW n \in Nat, NEW S \in SUBSET (0 .. n), S # {}
  PROVE  Max(S) \in S /\ \A y \in S : Max(S) >= y
  <1> DEFINE below == {n - x : x \in S}
  <1>1. below \in SUBSET Nat /\ below # {}
    <2>1. \A x \in S : n - x \in Nat /\ n - x \in below
      OBVIOUS
    <2>2. \A d \in below : \E x \in S : d = n - x
      OBVIOUS
    <2> HIDE DEF below
    <2> QED BY <2>1, <2>2
  <1>2. PICK d \in below : \A e \in below : d <= e
    <2> HIDE DEF below
    <2> QED BY <1>1, LeastPlace
  <1>3. PICK x \in S : d = n - x
    BY <1>2
  <1>4. \A y \in S : x >= y
    BY <1>2, <1>3
  <1> QED BY <1>3, <1>4 DEF Max

(* What FindFirst finds, and that nothing else is it. *)
IsFirst(s, i, r, S) ==
  /\ r \in i .. Len(s) + 1
  /\ r <= Len(s) => s[r] \in S
  /\ \A j \in i .. r - 1 : s[j] \notin S

LEMMA FindFirstIs ==
  ASSUME NEW C, NEW s \in Seq(C), NEW i \in 1 .. Len(s) + 1, NEW S
  PROVE  IsFirst(s, i, FindFirst(s, i, S), S)
  <1> DEFINE P == {j \in i .. Len(s) : s[j] \in S} \cup {Len(s) + 1}
  <1>1. P \in SUBSET Nat /\ P # {}
    OBVIOUS
  <1>2. Min(P) \in P /\ \A y \in P : Min(P) <= y
    <2> HIDE DEF P
    <2> QED BY <1>1, MinIs
  <1>3. FindFirst(s, i, S) = Min(P)
    BY DEF FindFirst
  <1> DEFINE q == Min(P)
  <1>4. q \in i .. Len(s) + 1 /\ (q <= Len(s) => s[q] \in S)
    <2> HIDE DEF q
    <2> QED BY <1>2 DEF q
  <1>5. ASSUME NEW j \in i .. q - 1
        PROVE  s[j] \notin S
    <2>1. j \in i .. Len(s) /\ ~ q <= j
      BY <1>4
    <2>2. j \notin P
      BY <1>2, <2>1
    <2> QED BY <2>1, <2>2
  <1> HIDE DEF q
  <1> QED BY <1>3, <1>4, <1>5 DEF IsFirst, q

LEMMA FindFirstNotIs ==
  ASSUME NEW C, NEW s \in Seq(C), NEW i \in 1 .. Len(s) + 1, NEW S
  PROVE  /\ FindFirstNot(s, i, S) \in i .. Len(s) + 1
         /\ FindFirstNot(s, i, S) <= Len(s) => s[FindFirstNot(s, i, S)] \notin S
         /\ \A j \in i .. FindFirstNot(s, i, S) - 1 : s[j] \in S
  <1> DEFINE P == {j \in i .. Len(s) : s[j] \notin S} \cup {Len(s) + 1}
  <1>1. P \in SUBSET Nat /\ P # {}
    OBVIOUS
  <1>2. Min(P) \in P /\ \A y \in P : Min(P) <= y
    <2> HIDE DEF P
    <2> QED BY <1>1, MinIs
  <1>3. FindFirstNot(s, i, S) = Min(P)
    BY DEF FindFirstNot
  <1> DEFINE q == Min(P)
  <1>4. q \in i .. Len(s) + 1 /\ (q <= Len(s) => s[q] \notin S)
    <2> HIDE DEF q
    <2> QED BY <1>2 DEF q
  <1>5. ASSUME NEW j \in i .. q - 1
        PROVE  s[j] \in S
    <2>1. j \in i .. Len(s) /\ ~ q <= j
      BY <1>4
    <2>2. j \notin P
      BY <1>2, <2>1
    <2> QED BY <2>1, <2>2
  <1> HIDE DEF q
  <1> QED BY <1>3, <1>4, <1>5 DEF q

LEMMA FirstIsUnique ==
  ASSUME NEW C, NEW s \in Seq(C), NEW i \in 1 .. Len(s) + 1, NEW S,
         NEW r, IsFirst(s, i, r, S)
  PROVE  FindFirst(s, i, S) = r
  <1> DEFINE q == FindFirst(s, i, S)
  <1>1. IsFirst(s, i, q, S)
    BY FindFirstIs
  <1> HIDE DEF q
  <1>2. q \in Int /\ r \in Int
    BY <1>1 DEF IsFirst
  <1>3. ~ q < r
    BY <1>1, <1>2 DEF IsFirst
  <1>4. ~ r < q
    BY <1>1, <1>2 DEF IsFirst
  <1> QED BY <1>2, <1>3, <1>4 DEF q

-----------------------------------------------------------------------------
(* The members of a set of numbers in their order *)

Rank(S, i) == Cardinality({j \in S : j <= i})

LEMMA RankFacts ==
  ASSUME NEW S \in SUBSET Nat, IsFiniteSet(S)
  PROVE  /\ Cardinality(S) \in Nat
         /\ \A i \in S : Rank(S, i) \in 1 .. Cardinality(S)
         /\ \A i, j \in S : i < j => Rank(S, i) < Rank(S, j)
         /\ \A i, j \in S : Rank(S, i) = Rank(S, j) => i = j
  <1> DEFINE upto(i) == {j \in S : j <= i}
  <1>1. \A i \in S : upto(i) \in SUBSET S /\ i \in upto(i)
    OBVIOUS
  <1>2. Cardinality(S) \in Nat
    BY FS_CardinalityType
  <1>3. ASSUME NEW i \in S
        PROVE  Rank(S, i) \in 1 .. Cardinality(S) /\ IsFiniteSet(upto(i)) /\ Rank(S, i) \in Nat
    <2> DEFINE T == upto(i)
    <2>1. T \in SUBSET S /\ T # {}
      BY <1>1
    <2> HIDE DEF T
    <2>2. IsFiniteSet(T) /\ Cardinality(T) <= Cardinality(S)
      BY <2>1, FS_Subset
    <2>3. Cardinality(T) \in Nat /\ Cardinality(T) # 0
      BY <2>1, <2>2, FS_CardinalityType, FS_EmptySet
    <2> QED BY <1>2, <2>2, <2>3 DEF Rank, T
  <1>4. ASSUME NEW i \in S, NEW j \in S, i < j
        PROVE  Rank(S, i) < Rank(S, j)
    <2> DEFINE T == upto(i)
               U == upto(j)
    <2>0. i \in Nat /\ j \in Nat /\ \A x \in S : x \in Nat
      OBVIOUS
    <2>1. T \in SUBSET U /\ j \in U /\ j \notin T
      <3>1. \A x \in S : x <= i => x <= j
        BY <2>0, <1>4
      <3>2. ~ j <= i /\ j <= j
        BY <2>0, <1>4
      <3>3. T = {x \in S : x <= i} /\ U = {x \in S : x <= j}
        OBVIOUS
      <3> HIDE DEF T, U
      <3> QED BY <3>1, <3>2, <3>3
    <2>2. IsFiniteSet(U) /\ Rank(S, i) = Cardinality(T) /\ Rank(S, j) = Cardinality(U)
      BY <1>3 DEF Rank
    <2>3. Rank(S, i) \in Nat /\ Rank(S, j) \in Nat
      BY <1>3
    <2> HIDE DEF T, U
    <2>4. Cardinality(T) <= Cardinality(U) /\ (Cardinality(U) = Cardinality(T) => U = T)
      BY <2>1, <2>2, FS_Subset
    <2>5. Cardinality(T) # Cardinality(U)
      BY <2>1, <2>4
    <2> QED BY <2>2, <2>3, <2>4, <2>5
  <1>5. \A i, j \in S : Rank(S, i) = Rank(S, j) => i = j
    <2> SUFFICES ASSUME NEW i \in S, NEW j \in S, Rank(S, i) = Rank(S, j)
                 PROVE  i = j
      OBVIOUS
    <2>1. Rank(S, i) \in Nat /\ i \in Nat /\ j \in Nat
      BY <1>3
    <2>2. ~ i < j /\ ~ j < i
      BY <2>1, <1>4
    <2> QED BY <2>1, <2>2
  <1> QED BY <1>2, <1>3, <1>4, <1>5

LEMMA InOrderFacts ==
  ASSUME NEW S \in SUBSET Nat, IsFiniteSet(S)
  PROVE  /\ DOMAIN InOrder(S) = 1 .. Cardinality(S)
         /\ \A k \in 1 .. Cardinality(S) : InOrder(S)[k] \in S /\ Rank(S, InOrder(S)[k]) = k
         /\ \A i \in S : Rank(S, i) \in 1 .. Cardinality(S) /\ InOrder(S)[Rank(S, i)] = i
  <1> DEFINE N == Cardinality(S)
             f == [i \in S |-> Rank(S, i)]
  <1>1. /\ N \in Nat
        /\ \A i \in S : Rank(S, i) \in 1 .. N
        /\ \A i, j \in S : Rank(S, i) = Rank(S, j) => i = j
    BY RankFacts
  <1>2. f \in Injection(S, 1 .. N)
    BY <1>1 DEF Injection, IsInjective
  <1>3. IsFiniteSet(1 .. N) /\ Cardinality(1 .. N) = N
    <2>1. 1 \in Int /\ N \in Int /\ N >= 0
      BY <1>1
    <2> HIDE DEF N
    <2>2. IsFiniteSet(1 .. N) /\ Cardinality(1 .. N) = IF 1 > N THEN 0 ELSE N - 1 + 1
      BY <2>1, FS_Interval
    <2> QED BY <2>1, <2>2
  <1>4. f \in Surjection(S, 1 .. N)
    <2> HIDE DEF f
    <2> QED BY <1>2, <1>3, FS_Injection
  <1>5. \A k \in 1 .. N : \E i \in S : Rank(S, i) = k
    BY <1>4 DEF Surjection
  <1>6. InOrder(S) = [k \in 1 .. N |-> CHOOSE i \in S : Rank(S, i) = k]
    BY DEF InOrder, Rank
  <1>7. \A k \in 1 .. N : InOrder(S)[k] \in S /\ Rank(S, InOrder(S)[k]) = k
    BY <1>5, <1>6
  <1>8. \A i \in S : InOrder(S)[Rank(S, i)] = i
    BY <1>1, <1>7
  <1> QED BY <1>1, <1>6, <1>7, <1>8

(* What comes in front of all comes first. *)
LEMMA InOrderFirst ==
  ASSUME NEW B \in SUBSET Nat, IsFiniteSet(B), NEW a \in Nat, \A b \in B : a < b,
         NEW S, S = B \cup {a}
  PROVE  /\ S \in SUBSET Nat /\ IsFiniteSet(S) /\ Cardinality(S) = Cardinality(B) + 1
         /\ InOrder(S)[1] = a
         /\ \A k \in 1 .. Cardinality(B) : InOrder(S)[k + 1] = InOrder(B)[k]
  <1>1. a \notin B /\ S \in SUBSET Nat
    OBVIOUS
  <1>2. IsFiniteSet(S) /\ Cardinality(S) = Cardinality(B) + 1 /\ Cardinality(B) \in Nat
    BY <1>1, FS_AddElement, FS_CardinalityType
  <1>3. Rank(S, a) = 1
    <2>1. {j \in S : j <= a} = {a}
      <3>1. \A b \in B : b \in Nat /\ a < b
        OBVIOUS
      <3>2. \A b \in B : ~ b <= a
        BY <3>1
      <3>3. a \in S /\ a <= a
        OBVIOUS
      <3>4. \A j \in S : j <= a <=> j = a
        BY <3>2, <3>3
      <3> QED BY <3>3, <3>4, Zenon
    <2> QED BY <2>1, FS_Singleton DEF Rank
  <1>4. ASSUME NEW b \in B
        PROVE  Rank(S, b) = Rank(B, b) + 1
    <2> DEFINE T == {j \in B : j <= b}
    <2>1. {j \in S : j <= b} = T \cup {a} /\ a \notin T /\ T \in SUBSET B
      BY <1>1
    <2> HIDE DEF T
    <2>2. IsFiniteSet(T)
      BY <2>1, FS_Subset
    <2>3. Cardinality(T \cup {a}) = Cardinality(T) + 1
      BY <2>1, <2>2, FS_AddElement
    <2> QED BY <2>1, <2>3 DEF Rank, T
  <1>5. /\ \A i \in S : InOrder(S)[Rank(S, i)] = i
        /\ \A k \in 1 .. Cardinality(B) : InOrder(B)[k] \in B /\ Rank(B, InOrder(B)[k]) = k
    BY <1>1, <1>2, InOrderFacts
  <1>6. InOrder(S)[1] = a
    BY <1>3, <1>5
  <1>7. ASSUME NEW k \in 1 .. Cardinality(B)
        PROVE  InOrder(S)[k + 1] = InOrder(B)[k]
    <2>1. InOrder(B)[k] \in B /\ Rank(B, InOrder(B)[k]) = k
      BY <1>5
    <2>2. Rank(S, InOrder(B)[k]) = k + 1
      BY <2>1, <1>4
    <2> QED BY <2>1, <2>2, <1>5
  <1> QED BY <1>1, <1>2, <1>6, <1>7

Moved(B, d) == {b + d : b \in B}

(* When all are moved by as much, so are they in their order. *)
LEMMA InOrderMoved ==
  ASSUME NEW B \in SUBSET Nat, IsFiniteSet(B), NEW d \in Nat,
         NEW S, S = Moved(B, d)
  PROVE  /\ S \in SUBSET Nat /\ IsFiniteSet(S) /\ Cardinality(S) = Cardinality(B)
         /\ \A k \in 1 .. Cardinality(B) : InOrder(S)[k] = InOrder(B)[k] + d
  <1>1. S \in SUBSET Nat
    BY DEF Moved
  <1>2. ASSUME NEW T \in SUBSET B, NEW U, U = Moved(T, d)
        PROVE  IsFiniteSet(U) /\ Cardinality(U) = Cardinality(T)
    <2> DEFINE f == [b \in T |-> b + d]
    <2>1. IsFiniteSet(T)
      BY FS_Subset
    <2>2. f \in [T -> U] /\ \A u \in U : \E b \in T : f[b] = u
      BY <1>2 DEF Moved
    <2>3. \A b, c \in T : f[b] = f[c] => b = c
      OBVIOUS
    <2> HIDE DEF f
    <2>4. f \in Bijection(T, U)
      <3>1. f \in Injection(T, U)
        BY <2>2, <2>3 DEF Injection, IsInjective
      <3>2. f \in Surjection(T, U)
        BY <2>2 DEF Surjection
      <3> QED BY <3>1, <3>2 DEF Bijection
    <2>5. ExistsBijection(T, U)
      BY <2>4 DEF ExistsBijection
    <2> QED BY <2>1, <2>5, FS_Bijection
  <1>3. IsFiniteSet(S) /\ Cardinality(S) = Cardinality(B)
    BY <1>2
  <1>4. ASSUME NEW b \in B
        PROVE  b + d \in S /\ Rank(S, b + d) = Rank(B, b)
    <2>0. b + d \in S
      BY DEF Moved
    <2> DEFINE T == {j \in B : j <= b}
               U == {j \in S : j <= b + d}
    <2>1. U = Moved(T, d)
      <3>1. \A c \in B : c <= b <=> c + d <= b + d
        <4>1. \A c \in B : c \in Nat
          OBVIOUS
        <4>2. \A c \in Nat : c <= b <=> c + d <= b + d
          <5>1. b \in Nat
            OBVIOUS
          <5> QED BY <5>1
        <4> QED BY <4>1, <4>2
      <3>2. \A u : u \in U <=> u \in S /\ u <= b + d
        OBVIOUS
      <3>3. \A c : c \in T <=> c \in B /\ c <= b
        OBVIOUS
      <3> HIDE DEF T, U
      <3> QED BY <3>1, <3>2, <3>3 DEF Moved
    <2>2. T \in SUBSET B
      OBVIOUS
    <2> HIDE DEF T, U
    <2>3. Cardinality(U) = Cardinality(T)
      BY <2>1, <2>2, <1>2
    <2> QED BY <2>0, <2>3 DEF Rank, T, U
  <1>5. /\ \A i \in S : InOrder(S)[Rank(S, i)] = i
        /\ \A k \in 1 .. Cardinality(B) : InOrder(B)[k] \in B /\ Rank(B, InOrder(B)[k]) = k
    BY <1>1, <1>3, InOrderFacts
  <1>6. ASSUME NEW k \in 1 .. Cardinality(B)
        PROVE  InOrder(S)[k] = InOrder(B)[k] + d
    BY <1>4, <1>5
  <1> QED BY <1>1, <1>3, <1>6

-----------------------------------------------------------------------------
(* The words of a line *)

(* Where words begin in what a line holds from i on, the word that begins  *)
(* at b, and the words that begin at places B.                             *)
Begins(t, i) == {b \in i .. Len(t) : t[b] # Blank /\ (b = i \/ t[b - 1] = Blank)}
WordAt(t, b) == SubSeq(t, b, FindFirst(t, b, {Blank}) - 1)
WordsAt(t, B) == [k \in DOMAIN InOrder(B) |-> WordAt(t, InOrder(B)[k])]

LEMMA WordsOfIs ==
  ASSUME NEW t \in Seq(Char)
  PROVE  WordsOf(t) = WordsAt(t, Begins(t, 1))
  <1>1. {i \in DOMAIN t : t[i] # Blank /\ (i = 1 \/ t[i - 1] = Blank)} = Begins(t, 1)
    BY DEF Begins
  <1> QED BY <1>1 DEF WordsOf, WordsAt, WordAt

LEMMA BeginsFinite ==
  ASSUME NEW t \in Seq(Char), NEW B \in SUBSET (1 .. Len(t))
  PROVE  IsFiniteSet(B) /\ B \in SUBSET Nat /\ Cardinality(B) \in Nat
  <1>1. IsFiniteSet(1 .. Len(t))
    <2>1. 1 \in Int /\ Len(t) \in Int
      OBVIOUS
    <2> QED BY <2>1, FS_Interval
  <1>2. IsFiniteSet(B)
    BY <1>1, FS_Subset
  <1> QED BY <1>2, FS_CardinalityType

(* A word holds at least one character, none of them a blank. *)
LEMMA WordType ==
  ASSUME NEW t \in Seq(Char), NEW b \in 1 .. Len(t), t[b] # Blank
  PROVE  /\ WordAt(t, b) \in Seq(Char) /\ Len(WordAt(t, b)) > 0 /\ WordAt(t, b)[1] = t[b]
         /\ \A j \in 1 .. Len(WordAt(t, b)) :
              WordAt(t, b)[j] = t[b + j - 1] /\ b + j - 1 \in 1 .. Len(t) /\ t[b + j - 1] # Blank
  <1> DEFINE e == FindFirst(t, b, {Blank})
  <1>1. /\ e \in b .. Len(t) + 1
        /\ \A j \in b .. e - 1 : t[j] \notin {Blank}
        /\ e <= Len(t) => t[e] \in {Blank}
    BY FindFirstIs DEF IsFirst
  <1>2. WordAt(t, b) = SubSeq(t, b, e - 1)
    BY DEF WordAt
  <1> HIDE DEF e
  <1>3. e > b
    BY <1>1
  <1>4. b \in Int /\ e - 1 \in Int /\ \A j \in b .. e - 1 : t[j] \in Char
    BY <1>1
  <1>5. /\ SubSeq(t, b, e - 1) \in Seq(Char)
        /\ Len(SubSeq(t, b, e - 1)) = IF b <= e - 1 THEN (e - 1) - b + 1 ELSE 0
        /\ \A j \in 1 .. (e - 1) - b + 1 : SubSeq(t, b, e - 1)[j] = t[b + j - 1]
    BY <1>4, SubSeqProperties
  <1>6. Len(SubSeq(t, b, e - 1)) = e - b
    BY <1>1, <1>3, <1>5
  <1>7. ASSUME NEW j \in 1 .. e - b
        PROVE  /\ SubSeq(t, b, e - 1)[j] = t[b + j - 1]
               /\ b + j - 1 \in 1 .. Len(t) /\ t[b + j - 1] # Blank
    BY <1>1, <1>5
  <1>8. 1 \in 1 .. e - b /\ b + 1 - 1 = b
    BY <1>1, <1>3
  <1> QED BY <1>2, <1>3, <1>5, <1>6, <1>7, <1>8

LEMMA WordsType ==
  ASSUME NEW t \in Seq(Char), NEW B \in SUBSET (1 .. Len(t)), \A b \in B : t[b] # Blank
  PROVE  /\ WordsAt(t, B) \in Seq(Seq(Char)) /\ Len(WordsAt(t, B)) = Cardinality(B)
         /\ \A k \in 1 .. Cardinality(B) :
              InOrder(B)[k] \in B /\ WordsAt(t, B)[k] = WordAt(t, InOrder(B)[k])
  <1>1. IsFiniteSet(B) /\ B \in SUBSET Nat /\ Cardinality(B) \in Nat
    BY BeginsFinite
  <1>2. /\ DOMAIN InOrder(B) = 1 .. Cardinality(B)
        /\ \A k \in 1 .. Cardinality(B) : InOrder(B)[k] \in B
    BY <1>1, InOrderFacts
  <1>3. \A b \in B : WordAt(t, b) \in Seq(Char)
    BY WordType
  <1>4. WordsAt(t, B) = [k \in 1 .. Cardinality(B) |-> WordAt(t, InOrder(B)[k])]
    BY <1>2 DEF WordsAt
  <1>5. \A k \in 1 .. Cardinality(B) :
          WordsAt(t, B)[k] = WordAt(t, InOrder(B)[k]) /\ WordsAt(t, B)[k] \in Seq(Char)
    BY <1>2, <1>3, <1>4
  <1>6. WordsAt(t, B) = [k \in 1 .. Cardinality(B) |-> WordsAt(t, B)[k]]
    BY <1>4
  <1> DEFINE u == WordsAt(t, B)
             n == Cardinality(B)
  <1>7. u \in Seq(Seq(Char)) /\ Len(u) = n
    <2>1. u = [k \in 1 .. n |-> u[k]] /\ n \in Nat /\ \A k \in 1 .. n : u[k] \in Seq(Char)
      BY <1>1, <1>5, <1>6
    <2> HIDE DEF u, n
    <2>2. u \in [1 .. n -> Seq(Char)]
      BY <2>1
    <2> QED BY <2>1, <2>2
  <1> QED BY <1>2, <1>5, <1>7

LEMMA NoWords ==
  ASSUME NEW t
  PROVE  WordsAt(t, {}) = << >>
  <1>1. Cardinality({}) = 0 /\ IsFiniteSet({})
    BY FS_EmptySet
  <1>2. DOMAIN InOrder({}) = 1 .. 0
    BY <1>1, InOrderFacts
  <1>3. WordsAt(t, {}) = [k \in 1 .. 0 |-> WordAt(t, InOrder({})[k])]
    BY <1>2 DEF WordsAt
  <1> QED BY <1>3

(* The word that begins before the others is the first. *)
LEMMA WordsFirst ==
  ASSUME NEW t \in Seq(Char), NEW B \in SUBSET (1 .. Len(t)), NEW a \in 1 .. Len(t),
         \A b \in B : a < b, \A b \in B \cup {a} : t[b] # Blank
  PROVE  WordsAt(t, B \cup {a}) = <<WordAt(t, a)>> \o WordsAt(t, B)
  <1> DEFINE S == B \cup {a}
             w == WordAt(t, a)
             u == WordsAt(t, S)
             v == WordsAt(t, B)
  <1>0. IsFiniteSet(B) /\ B \in SUBSET Nat /\ Cardinality(B) \in Nat /\ a \in Nat
    BY BeginsFinite
  <1>1. /\ Cardinality(S) = Cardinality(B) + 1 /\ InOrder(S)[1] = a
        /\ \A k \in 1 .. Cardinality(B) : InOrder(S)[k + 1] = InOrder(B)[k]
    BY <1>0, InOrderFirst
  <1>2. S \in SUBSET (1 .. Len(t)) /\ a \in S
    OBVIOUS
  <1>3. w \in Seq(Char)
    BY WordType
  <1>4. /\ v \in Seq(Seq(Char)) /\ Len(v) = Cardinality(B)
        /\ \A k \in 1 .. Cardinality(B) : v[k] = WordAt(t, InOrder(B)[k])
    BY WordsType
  <1>5. /\ u \in Seq(Seq(Char)) /\ Len(u) = Cardinality(B) + 1
        /\ \A k \in 1 .. Cardinality(B) + 1 : u[k] = WordAt(t, InOrder(S)[k])
    <2> HIDE DEF S
    <2>1. \A b \in S : t[b] # Blank
      BY DEF S
    <2> QED BY <2>1, <1>1, <1>2, WordsType
  <1>6. u[1] = w /\ \A k \in 1 .. Cardinality(B) : u[k + 1] = v[k]
    <2>1. 1 \in 1 .. Cardinality(B) + 1
      BY <1>0
    <2>2. \A k \in 1 .. Cardinality(B) : k + 1 \in 1 .. Cardinality(B) + 1
      BY <1>0
    <2> HIDE DEF S, u, v
    <2> QED BY <2>1, <2>2, <1>1, <1>4, <1>5 DEF w
  <1> HIDE DEF S, u, v, w
  <1>7. <<w>> \in Seq(Seq(Char)) /\ Len(<<w>>) = 1 /\ <<w>>[1] = w
    BY <1>3
  <1> DEFINE one == <<w>>
  <1>8. one \in Seq(Seq(Char)) /\ Len(one) = 1 /\ one[1] = w
    BY <1>7
  <1> HIDE DEF one
  <1>9. /\ one \o v \in Seq(Seq(Char)) /\ Len(one \o v) = Cardinality(B) + 1
        /\ \A k \in 1 .. Cardinality(B) + 1 :
             (one \o v)[k] = IF k <= 1 THEN one[k] ELSE v[k - 1]
    <2>1. /\ one \o v \in Seq(Seq(Char)) /\ Len(one \o v) = Len(one) + Len(v)
          /\ \A k \in 1 .. Len(one) + Len(v) :
               (one \o v)[k] = IF k <= Len(one) THEN one[k] ELSE v[k - Len(one)]
      BY <1>4, <1>8, ConcatProperties
    <2>2. Len(one) + Len(v) = Cardinality(B) + 1
      BY <1>0, <1>4, <1>8
    <2> QED BY <2>1, <2>2, <1>8
  <1>10. \A k \in 1 .. Cardinality(B) + 1 : u[k] = (one \o v)[k]
    <2> SUFFICES ASSUME NEW k \in 1 .. Cardinality(B) + 1
                 PROVE  u[k] = (one \o v)[k]
      OBVIOUS
    <2>1. CASE k = 1
      BY <2>1, <1>6, <1>8, <1>9
    <2>2. CASE k # 1
      <3>1. k - 1 \in 1 .. Cardinality(B) /\ ~ k <= 1 /\ (k - 1) + 1 = k
        BY <2>2, <1>0
      <3>2. (one \o v)[k] = v[k - 1]
        BY <3>1, <1>9
      <3>3. u[(k - 1) + 1] = v[k - 1]
        BY <3>1, <1>6
      <3> QED BY <3>1, <3>2, <3>3
    <2> QED BY <2>1, <2>2
  <1>11. u = one \o v
    BY <1>5, <1>9, <1>10, SeqEqual
  <1> QED BY <1>11 DEF S, u, v, w, one

(* StrSplit goes from the first word to what comes behind it. *)
SplitOn(t, i, rest) ==
  LET sp == FindFirstNot(t, i, {Blank})
      np == FindFirst(t, sp, {Blank})
  IN  IF sp > Len(t) THEN << >>
      ELSE IF np > Len(t) THEN <<SubSeq(t, sp, Len(t))>>
      ELSE <<SubSeq(t, sp, np - 1)>> \o rest[np]

LEMMA WordsSplit ==
  ASSUME NEW t \in Seq(Char), NEW i \in 1 .. Len(t) + 1, NEW rest,
         \A j \in 1 .. Len(t) : j > i => rest[j] = WordsAt(t, Begins(t, j))
  PROVE  WordsAt(t, Begins(t, i)) = SplitOn(t, i, rest)
  <1> DEFINE sp == FindFirstNot(t, i, {Blank})
             np == FindFirst(t, sp, {Blank})
  <1>1. /\ sp \in i .. Len(t) + 1
        /\ sp <= Len(t) => t[sp] # Blank
        /\ \A j \in i .. sp - 1 : t[j] = Blank
    BY FindFirstNotIs
  <1>2. /\ np \in sp .. Len(t) + 1
        /\ np <= Len(t) => t[np] = Blank
        /\ \A j \in sp .. np - 1 : t[j] # Blank
    <2> HIDE DEF sp
    <2>1. sp \in 1 .. Len(t) + 1
      BY <1>1
    <2>2. IsFirst(t, sp, np, {Blank})
      BY <2>1, FindFirstIs
    <2> QED BY <2>2 DEF IsFirst
  <1>3. SplitOn(t, i, rest) =
          IF sp > Len(t) THEN << >>
          ELSE IF np > Len(t) THEN <<SubSeq(t, sp, Len(t))>>
          ELSE <<SubSeq(t, sp, np - 1)>> \o rest[np]
    BY DEF SplitOn
  <1>4. sp <= Len(t) => WordAt(t, sp) = SubSeq(t, sp, np - 1)
    BY DEF WordAt
  <1> HIDE DEF sp, np
  <1>5. CASE sp > Len(t)
    <2>1. Begins(t, i) = {}
      BY <1>1, <1>5 DEF Begins
    <2> QED BY <2>1, <1>3, <1>5, NoWords
  <1>6. CASE sp <= Len(t) /\ np > Len(t)
    <2>1. Begins(t, i) = {sp}
      <3>1. ASSUME NEW b \in i .. Len(t), t[b] # Blank, b = i \/ t[b - 1] = Blank
            PROVE  b = sp
        <4>1. ~ b < sp
          BY <3>1, <1>1
        <4>2. ~ b > sp
          <5> SUFFICES ASSUME b > sp PROVE FALSE
            OBVIOUS
          <5>1. b # i /\ b - 1 \in sp .. np - 1
            BY <1>1, <1>2, <1>6
          <5> QED BY <5>1, <3>1, <1>2
        <4> QED BY <4>1, <4>2, <1>1
      <3>2. sp \in i .. Len(t) /\ t[sp] # Blank /\ (sp = i \/ t[sp - 1] = Blank)
        BY <1>1, <1>6
      <3> QED BY <3>1, <3>2 DEF Begins
    <2>2. WordsAt(t, {} \cup {sp}) = <<WordAt(t, sp)>> \o WordsAt(t, {})
      <3>1. sp \in 1 .. Len(t) /\ t[sp] # Blank
        BY <1>1, <1>6
      <3> QED BY <3>1, WordsFirst
    <2>3. WordAt(t, sp) = SubSeq(t, sp, Len(t))
      BY <1>2, <1>4, <1>6
    <2>4. <<WordAt(t, sp)>> \o << >> = <<WordAt(t, sp)>>
      <3> DEFINE w == WordAt(t, sp)
      <3> HIDE DEF w
      <3>1. <<w>> \in Seq({w})
        OBVIOUS
      <3>2. <<w>> \o << >> = <<w>>
        BY <3>1, ConcatEmptySeq
      <3> QED BY <3>2 DEF w
    <2>5. {} \cup {sp} = {sp}
      OBVIOUS
    <2>6. SplitOn(t, i, rest) = <<SubSeq(t, sp, Len(t))>>
      <3>1. ~ sp > Len(t) /\ np > Len(t)
        BY <1>1, <1>2, <1>6
      <3> QED BY <3>1, <1>3, Zenon
    <2>7. WordsAt(t, {}) = << >>
      BY NoWords
    <2>8. WordsAt(t, Begins(t, i)) = <<SubSeq(t, sp, Len(t))>>
      BY <2>1, <2>2, <2>3, <2>4, <2>5, <2>7, Zenon
    <2> QED BY <2>6, <2>8, Zenon
  <1>7. CASE sp <= Len(t) /\ np <= Len(t)
    <2> DEFINE B == Begins(t, np)
    <2>1. B \in SUBSET (1 .. Len(t)) /\ (\A b \in B : sp < b /\ t[b] # Blank)
      BY <1>1, <1>2, <1>7 DEF Begins
    <2>2. Begins(t, i) = B \cup {sp}
      <3>1. ASSUME NEW b \in i .. Len(t), t[b] # Blank, b = i \/ t[b - 1] = Blank
            PROVE  b = sp \/ b \in B
        <4>1. ~ b < sp
          BY <3>1, <1>1
        <4>2. CASE b > sp /\ b < np
          <5>1. b # i /\ b - 1 \in sp .. np - 1
            BY <1>1, <1>2, <4>2
          <5> QED BY <5>1, <3>1, <1>2
        <4>3. CASE b >= np
          <5>1. b \in np .. Len(t) /\ (b = np \/ t[b - 1] = Blank)
            BY <3>1, <4>3, <1>1, <1>2
          <5> QED BY <5>1, <3>1 DEF Begins
        <4> QED BY <4>1, <4>2, <4>3, <1>1, <1>2
      <3>2. sp \in i .. Len(t) /\ t[sp] # Blank /\ (sp = i \/ t[sp - 1] = Blank)
        BY <1>1, <1>7
      <3>3. ASSUME NEW b \in B
            PROVE  b \in i .. Len(t) /\ t[b] # Blank /\ (b = i \/ t[b - 1] = Blank)
        BY <1>1, <1>2, <1>7 DEF Begins
      <3> HIDE DEF B
      <3>4. \A b : b \in Begins(t, i) <=> b \in i .. Len(t) /\ t[b] # Blank /\ (b = i \/ t[b - 1] = Blank)
        BY DEF Begins
      <3> QED BY <3>1, <3>2, <3>3, <3>4
    <2>3. WordsAt(t, B \cup {sp}) = <<WordAt(t, sp)>> \o WordsAt(t, B)
      <3>1. sp \in 1 .. Len(t) /\ t[sp] # Blank
        BY <1>1, <1>7
      <3> HIDE DEF B
      <3> QED BY <2>1, <3>1, WordsFirst
    <2>4. rest[np] = WordsAt(t, B)
      <3>1. np \in 1 .. Len(t) /\ np > i
        BY <1>1, <1>2, <1>7
      <3> QED BY <3>1
    <2> HIDE DEF B
    <2>5. SplitOn(t, i, rest) = <<SubSeq(t, sp, np - 1)>> \o rest[np]
      <3>1. ~ sp > Len(t) /\ ~ np > Len(t)
        BY <1>1, <1>2, <1>7
      <3> QED BY <3>1, <1>3, Zenon
    <2>6. WordAt(t, sp) = SubSeq(t, sp, np - 1)
      BY <1>4, <1>7
    <2> QED BY <2>2, <2>3, <2>4, <2>5, <2>6, Zenon
  <1> QED BY <1>1, <1>2, <1>5, <1>6, <1>7

(* Splitting a line gives its words. *)
LEMMA SplitIs ==
  ASSUME NEW t \in Seq(Char)
  PROVE  StrSplit(t) = WordsOf(t)
  <1> DEFINE Step(from) == [i \in 1 .. Len(t) + 1 |-> SplitOn(t, i, from)]
             words == [i \in 1 .. Len(t) + 1 |-> WordsAt(t, Begins(t, i))]
             found == CHOOSE from : from = Step(from)
  <1>1. words = Step(words)
    <2> SUFFICES ASSUME NEW i \in 1 .. Len(t) + 1
                 PROVE  WordsAt(t, Begins(t, i)) = SplitOn(t, i, words)
      OBVIOUS
    <2>1. \A j \in 1 .. Len(t) : j > i => words[j] = WordsAt(t, Begins(t, j))
      OBVIOUS
    <2> HIDE DEF words
    <2> QED BY <2>1, WordsSplit
  <1>2. found = Step(found)
    <2> HIDE DEF Step, words
    <2> QED BY <1>1
  <1>3. StrSplit(t) = found[1]
    BY DEF StrSplit, SplitOn
  <1> HIDE DEF found
  <1>4. \A i \in 1 .. Len(t) + 1 : found[i] = SplitOn(t, i, found)
    BY <1>2
  <1> DEFINE odd == {d \in 0 .. Len(t) : found[Len(t) + 1 - d] # WordsAt(t, Begins(t, Len(t) + 1 - d))}
  <1>5. odd = {}
    <2> SUFFICES ASSUME odd # {} PROVE FALSE
      OBVIOUS
    <2>1. odd \in SUBSET Nat
      OBVIOUS
    <2>2. PICK d \in odd : \A e \in odd : d <= e
      <3> HIDE DEF odd
      <3> QED BY <2>1, LeastPlace
    <2> DEFINE i == Len(t) + 1 - d
    <2>3. i \in 1 .. Len(t) + 1 /\ found[i] # WordsAt(t, Begins(t, i))
      BY <2>2
    <2>4. ASSUME NEW j \in 1 .. Len(t), j > i
          PROVE  found[j] = WordsAt(t, Begins(t, j))
      <3>1. Len(t) + 1 - j \in 0 .. Len(t) /\ ~ d <= Len(t) + 1 - j
        BY <2>2, <2>4
      <3>2. Len(t) + 1 - j \notin odd
        BY <2>2, <3>1
      <3>3. Len(t) + 1 - (Len(t) + 1 - j) = j
        OBVIOUS
      <3> QED BY <3>1, <3>2, <3>3
    <2> HIDE DEF i, odd
    <2>5. WordsAt(t, Begins(t, i)) = SplitOn(t, i, found)
      BY <2>3, <2>4, WordsSplit
    <2> QED BY <2>3, <2>5, <1>4
  <1>6. found[1] = WordsAt(t, Begins(t, 1))
    <2>1. Len(t) \in 0 .. Len(t) /\ Len(t) + 1 - Len(t) = 1
      OBVIOUS
    <2>2. Len(t) \notin odd
      BY <1>5
    <2> QED BY <2>1, <2>2
  <1> QED BY <1>3, <1>6, WordsOfIs

-----------------------------------------------------------------------------
(* What StrTrim leaves *)

(* The words are the same when there are blanks around them. *)
LEMMA WordsShifted ==
  ASSUME NEW t \in Seq(Char), NEW p \in Seq(Char), NEW d \in Nat, Len(t) + d <= Len(p),
         \A j \in 1 .. Len(t) : t[j] = p[j + d],
         \A j \in 1 .. Len(p) : j <= d \/ j > Len(t) + d => p[j] = Blank
  PROVE  WordsOf(t) = WordsOf(p)
  <1> DEFINE B == Begins(t, 1)
             S == Begins(p, 1)
  <1>1. B \in SUBSET (1 .. Len(t)) /\ \A b \in B : t[b] # Blank /\ (b = 1 \/ t[b - 1] = Blank)
    BY DEF Begins
  <1>2. S \in SUBSET (1 .. Len(p)) /\ \A b \in S : p[b] # Blank /\ (b = 1 \/ p[b - 1] = Blank)
    BY DEF Begins
  <1>3. S = Moved(B, d)
    <2>1. ASSUME NEW b \in B
          PROVE  b + d \in S
      <3>1. b \in 1 .. Len(t) /\ b + d \in 1 .. Len(p) /\ p[b + d] # Blank
        BY <1>1
      <3>2. CASE b = 1
        <4>1. b + d = 1 \/ (b + d - 1 \in 1 .. Len(p) /\ b + d - 1 <= d)
          BY <3>2
        <4>2. b + d = 1 \/ p[b + d - 1] = Blank
          BY <4>1
        <4> QED BY <3>1, <4>2 DEF Begins
      <3>3. CASE b # 1
        <4>1. b - 1 \in 1 .. Len(t) /\ t[b - 1] = Blank /\ (b - 1) + d = b + d - 1
          BY <3>1, <3>3, <1>1
        <4>2. p[b + d - 1] = Blank
          BY <4>1
        <4> QED BY <3>1, <4>2 DEF Begins
      <3> QED BY <3>2, <3>3
    <2>2. ASSUME NEW c \in S
          PROVE  c - d \in B /\ c = (c - d) + d
      <3>1. c \in 1 .. Len(p) /\ p[c] # Blank /\ c > d /\ c <= Len(t) + d
        BY <1>2
      <3>2. c - d \in 1 .. Len(t) /\ (c - d) + d = c
        BY <3>1
      <3>3. t[c - d] # Blank
        BY <3>1, <3>2
      <3>4. c - d = 1 \/ t[c - d - 1] = Blank
        <4> SUFFICES ASSUME c - d # 1
                     PROVE  t[c - d - 1] = Blank
          OBVIOUS
        <4>1. c - d - 1 \in 1 .. Len(t) /\ (c - d - 1) + d = c - 1 /\ c # 1
          BY <3>2
        <4>2. p[c - 1] = Blank
          BY <4>1, <1>2
        <4> QED BY <4>1, <4>2
      <3> QED BY <3>2, <3>3, <3>4 DEF Begins
    <2>3. \A b \in B : b + d \in S
      BY <2>1
    <2>4. \A c \in S : \E b \in B : c = b + d
      BY <2>2
    <2> HIDE DEF B, S
    <2> QED BY <2>3, <2>4 DEF Moved
  <1>4. ASSUME NEW b \in B
        PROVE  WordAt(p, b + d) = WordAt(t, b)
    <2> DEFINE e == FindFirst(t, b, {Blank})
    <2>1. b \in 1 .. Len(t) /\ b + d \in 1 .. Len(p) + 1
      BY <1>1
    <2>2. IsFirst(t, b, e, {Blank})
      BY <2>1, FindFirstIs
    <2>3. WordAt(t, b) = SubSeq(t, b, e - 1)
      BY DEF WordAt
    <2> HIDE DEF e
    <2>4. /\ e \in b .. Len(t) + 1
          /\ e <= Len(t) => t[e] = Blank
          /\ \A j \in b .. e - 1 : t[j] # Blank
      BY <2>2 DEF IsFirst
    <2>5. IsFirst(p, b + d, e + d, {Blank})
      <3>1. e + d \in b + d .. Len(p) + 1
        BY <2>1, <2>4
      <3>2. ASSUME e + d <= Len(p)
            PROVE  p[e + d] = Blank
        <4>1. CASE e <= Len(t)
          <5>1. e \in 1 .. Len(t)
            BY <4>1, <2>1, <2>4
          <5> QED BY <5>1, <4>1, <2>4
        <4>2. CASE e > Len(t)
          <5>1. e + d \in 1 .. Len(p) /\ e + d > Len(t) + d
            BY <3>2, <4>2, <2>1, <2>4
          <5> QED BY <5>1
        <4> QED BY <4>1, <4>2, <2>4
      <3>3. ASSUME NEW j \in b + d .. e + d - 1
            PROVE  p[j] # Blank
        <4>1. j - d \in b .. e - 1 /\ j - d \in 1 .. Len(t) /\ (j - d) + d = j
          <5>1. b \in 1 .. Len(t) /\ e \in b .. Len(t) + 1 /\ Len(t) \in Nat
            BY <2>1, <2>4
          <5> QED BY <5>1
        <4>2. t[j - d] # Blank /\ t[j - d] = p[j]
          BY <4>1, <2>4
        <4> QED BY <4>2
      <3> QED BY <3>1, <3>2, <3>3, <2>1, <2>4 DEF IsFirst
    <2>6. FindFirst(p, b + d, {Blank}) = e + d
      BY <2>1, <2>5, FirstIsUnique
    <2>7. WordAt(p, b + d) = SubSeq(p, b + d, e + d - 1)
      <3>1. WordAt(p, b + d) = SubSeq(p, b + d, FindFirst(p, b + d, {Blank}) - 1)
        BY DEF WordAt
      <3>2. (e + d) - 1 = e + d - 1
        BY <2>1, <2>4
      <3> QED BY <3>1, <3>2, <2>6, Zenon
    <2>8. /\ SubSeq(t, b, e - 1) \in Seq(Char)
          /\ Len(SubSeq(t, b, e - 1)) = e - b
          /\ \A j \in 1 .. e - b : SubSeq(t, b, e - 1)[j] = t[b + j - 1]
      <3>1. b \in Int /\ e - 1 \in Int /\ \A j \in b .. e - 1 : t[j] \in Char
        BY <2>1, <2>4
      <3>2. (e - 1) - b + 1 = e - b /\ (IF b <= e - 1 THEN e - b ELSE 0) = e - b
        BY <2>1, <2>4
      <3> QED BY <3>1, <3>2, SubSeqProperties
    <2>9. /\ SubSeq(p, b + d, e + d - 1) \in Seq(Char)
          /\ Len(SubSeq(p, b + d, e + d - 1)) = e - b
          /\ \A j \in 1 .. e - b : SubSeq(p, b + d, e + d - 1)[j] = p[b + d + j - 1]
      <3>1. b + d \in Int /\ e + d - 1 \in Int /\ \A j \in b + d .. e + d - 1 : p[j] \in Char
        BY <2>1, <2>4
      <3>2. /\ (e + d - 1) - (b + d) + 1 = e - b
            /\ (IF b + d <= e + d - 1 THEN e - b ELSE 0) = e - b
        BY <2>1, <2>4
      <3> QED BY <3>1, <3>2, SubSeqProperties
    <2>10. \A j \in 1 .. e - b : t[b + j - 1] = p[b + d + j - 1]
      <3> SUFFICES ASSUME NEW j \in 1 .. e - b
                   PROVE  t[b + j - 1] = p[b + d + j - 1]
        OBVIOUS
      <3>1. b + j - 1 \in 1 .. Len(t) /\ (b + j - 1) + d = b + d + j - 1
        BY <2>1, <2>4
      <3> QED BY <3>1
    <2> DEFINE u == SubSeq(t, b, e - 1)
               v == SubSeq(p, b + d, e + d - 1)
    <2>11. /\ u \in Seq(Char) /\ v \in Seq(Char) /\ Len(u) = e - b /\ Len(v) = e - b
           /\ \A j \in 1 .. e - b : u[j] = v[j]
      BY <2>8, <2>9, <2>10
    <2>12. WordAt(t, b) = u /\ WordAt(p, b + d) = v
      BY <2>3, <2>7
    <2> HIDE DEF u, v
    <2>13. u = v
      BY <2>11, SeqEqual
    <2> QED BY <2>12, <2>13
  <1>5. WordsOf(t) = WordsAt(t, B) /\ WordsOf(p) = WordsAt(p, S)
    BY WordsOfIs
  <1> HIDE DEF B, S
  <1>6. IsFiniteSet(B) /\ B \in SUBSET Nat /\ Cardinality(B) \in Nat
    BY <1>1, BeginsFinite
  <1>7. /\ Cardinality(S) = Cardinality(B)
        /\ \A k \in 1 .. Cardinality(B) : InOrder(S)[k] = InOrder(B)[k] + d
    BY <1>3, <1>6, InOrderMoved
  <1>8. /\ WordsAt(t, B) \in Seq(Seq(Char)) /\ Len(WordsAt(t, B)) = Cardinality(B)
        /\ \A k \in 1 .. Cardinality(B) :
             InOrder(B)[k] \in B /\ WordsAt(t, B)[k] = WordAt(t, InOrder(B)[k])
    BY <1>1, WordsType
  <1>9. /\ WordsAt(p, S) \in Seq(Seq(Char)) /\ Len(WordsAt(p, S)) = Cardinality(S)
        /\ \A k \in 1 .. Cardinality(S) : WordsAt(p, S)[k] = WordAt(p, InOrder(S)[k])
    BY <1>2, WordsType
  <1>10. \A k \in 1 .. Cardinality(B) : WordsAt(t, B)[k] = WordsAt(p, S)[k]
    BY <1>4, <1>7, <1>8, <1>9
  <1>11. WordsAt(t, B) = WordsAt(p, S)
    BY <1>7, <1>8, <1>9, <1>10, SeqEqual
  <1> QED BY <1>5, <1>11

(* What is left of a line: its ends are no blanks, what went is. *)
Trimmed == {Blank, NewLine}

LEMMA TrimFacts ==
  ASSUME NEW r \in Seq(Char)
  PROVE  \E sp \in 1 .. Len(r) + 1 : \E ep \in sp - 1 .. Len(r) :
           /\ StrTrim(r) = SubSeq(r, sp, ep)
           /\ StrTrim(r) \in Seq(Char) /\ Len(StrTrim(r)) = ep - sp + 1
           /\ \A j \in 1 .. ep - sp + 1 : StrTrim(r)[j] = r[j + (sp - 1)]
           /\ sp <= ep => r[sp] \notin Trimmed /\ r[ep] \notin Trimmed
           /\ \A j \in 1 .. Len(r) : j < sp \/ j > ep => r[j] \in Trimmed
  <1> DEFINE sp == FindFirstNot(r, 1, Trimmed)
             E == {sp - 1} \cup {j \in sp .. Len(r) : r[j] \notin Trimmed}
             ep == Max(E)
  <1>1. /\ sp \in 1 .. Len(r) + 1
        /\ sp <= Len(r) => r[sp] \notin Trimmed
        /\ \A j \in 1 .. sp - 1 : r[j] \in Trimmed
    BY FindFirstNotIs
  <1>2. StrTrim(r) = SubSeq(r, sp, ep)
    BY DEF StrTrim, Trimmed
  <1> HIDE DEF sp
  <1>3. Len(r) \in Nat /\ E \in SUBSET (0 .. Len(r)) /\ E # {}
    BY <1>1
  <1>4. ep \in E /\ \A y \in E : ep >= y
    <2> HIDE DEF E
    <2> QED BY <1>3, MaxIs
  <1> HIDE DEF ep
  <1>5. ep \in sp - 1 .. Len(r) /\ (sp <= ep => r[ep] \notin Trimmed)
    BY <1>1, <1>4
  <1>6. \A j \in sp .. Len(r) : j > ep => r[j] \in Trimmed
    <2> SUFFICES ASSUME NEW j \in sp .. Len(r), j > ep, r[j] \notin Trimmed
                 PROVE  FALSE
      OBVIOUS
    <2>1. j \in E
      OBVIOUS
    <2>2. ep >= j
      BY <2>1, <1>4
    <2> QED BY <2>2, <1>1, <1>5
  <1>7. \A j \in 1 .. Len(r) : j < sp \/ j > ep => r[j] \in Trimmed
    BY <1>1, <1>6
  <1>8. sp <= ep => r[sp] \notin Trimmed
    BY <1>1, <1>5
  <1>9. /\ SubSeq(r, sp, ep) \in Seq(Char)
        /\ Len(SubSeq(r, sp, ep)) = ep - sp + 1
        /\ \A j \in 1 .. ep - sp + 1 : SubSeq(r, sp, ep)[j] = r[sp + j - 1]
    <2>1. sp \in Int /\ ep \in Int /\ \A j \in sp .. ep : r[j] \in Char
      BY <1>1, <1>5
    <2>2. (IF sp <= ep THEN ep - sp + 1 ELSE 0) = ep - sp + 1
      BY <1>1, <1>5
    <2> QED BY <2>1, <2>2, SubSeqProperties
  <1>10. \A j \in 1 .. ep - sp + 1 : StrTrim(r)[j] = r[j + (sp - 1)]
    <2>1. \A j \in 1 .. ep - sp + 1 : sp + j - 1 = j + (sp - 1)
      BY <1>1, <1>5
    <2> QED BY <2>1, <1>2, <1>9
  <1> HIDE DEF E
  <1>11. StrTrim(r) \in Seq(Char) /\ Len(StrTrim(r)) = ep - sp + 1
    BY <1>2, <1>9
  <1> QED BY <1>1, <1>2, <1>5, <1>7, <1>8, <1>10, <1>11

(* What fgets gives of a line: a piece of it and, where the line ends, its *)
(* end.                                                                    *)
Gives(r, p) ==
  /\ Len(p) <= Len(r)
  /\ \A j \in 1 .. Len(p) : r[j] = p[j] /\ r[j] # NewLine
  /\ \A j \in 1 .. Len(r) : j > Len(p) => r[j] = NewLine

(* Trimming it leaves the words of the piece; nothing, if there is none.   *)
LEMMA TrimWords ==
  ASSUME NEW r \in Seq(Char), NEW p \in Seq(Char), Gives(r, p)
  PROVE  /\ StrTrim(r) \in Seq(Char) /\ WordsOf(StrTrim(r)) = WordsOf(p)
         /\ \A j \in 1 .. Len(StrTrim(r)) : StrTrim(r)[j] # NewLine
         /\ StrTrim(r) # << >> => StrTrim(r)[1] # Blank
  <1>0. PICK sp \in 1 .. Len(r) + 1 : \E ep \in sp - 1 .. Len(r) :
           /\ StrTrim(r) \in Seq(Char) /\ Len(StrTrim(r)) = ep - sp + 1
           /\ \A j \in 1 .. ep - sp + 1 : StrTrim(r)[j] = r[j + (sp - 1)]
           /\ sp <= ep => r[sp] \notin Trimmed /\ r[ep] \notin Trimmed
           /\ \A j \in 1 .. Len(r) : j < sp \/ j > ep => r[j] \in Trimmed
    BY TrimFacts
  <1>1. PICK ep \in sp - 1 .. Len(r) :
           /\ StrTrim(r) \in Seq(Char) /\ Len(StrTrim(r)) = ep - sp + 1
           /\ \A j \in 1 .. ep - sp + 1 : StrTrim(r)[j] = r[j + (sp - 1)]
           /\ sp <= ep => r[sp] \notin Trimmed /\ r[ep] \notin Trimmed
           /\ \A j \in 1 .. Len(r) : j < sp \/ j > ep => r[j] \in Trimmed
    BY <1>0
  <1> DEFINE t == StrTrim(r)
  <1>2. /\ t \in Seq(Char) /\ Len(t) = ep - sp + 1
        /\ \A j \in 1 .. ep - sp + 1 : t[j] = r[j + (sp - 1)]
    BY <1>1
  <1> HIDE DEF t
  <1>3. /\ Len(p) <= Len(r)
        /\ \A j \in 1 .. Len(p) : r[j] = p[j] /\ r[j] # NewLine
        /\ \A j \in 1 .. Len(r) : j > Len(p) => r[j] = NewLine
    BY DEF Gives
  <1>4. \A j \in 1 .. Len(p) : r[j] \in Trimmed => p[j] = Blank
    BY <1>3 DEF Trimmed
  <1>5. sp <= ep => ep <= Len(p)
    <2> SUFFICES ASSUME sp <= ep, ep > Len(p) PROVE FALSE
      OBVIOUS
    <2>1. ep \in 1 .. Len(r)
      OBVIOUS
    <2> QED BY <2>1, <1>1, <1>3 DEF Trimmed
  <1>6. CASE sp <= ep
    <2>1. sp - 1 \in Nat /\ Len(t) + (sp - 1) <= Len(p)
      BY <1>2, <1>5, <1>6
    <2>2. ASSUME NEW j \in 1 .. Len(t)
          PROVE  t[j] = p[j + (sp - 1)] /\ t[j] # NewLine
      <3>1. j \in 1 .. ep - sp + 1 /\ j + (sp - 1) \in 1 .. Len(p)
        BY <1>2, <1>5, <1>6
      <3> QED BY <3>1, <1>2, <1>3
    <2>3. ASSUME NEW j \in 1 .. Len(p), j <= sp - 1 \/ j > Len(t) + (sp - 1)
          PROVE  p[j] = Blank
      <3>1. j \in 1 .. Len(r) /\ (j < sp \/ j > ep)
        BY <2>3, <1>2, <1>3, <1>6
      <3> QED BY <3>1, <1>1, <1>4
    <2>4. WordsOf(t) = WordsOf(p)
      <3> DEFINE d == sp - 1
      <3>1. /\ d \in Nat /\ Len(t) + d <= Len(p)
            /\ \A j \in 1 .. Len(t) : t[j] = p[j + d]
            /\ \A j \in 1 .. Len(p) : j <= d \/ j > Len(t) + d => p[j] = Blank
        BY <2>1, <2>2, <2>3
      <3> HIDE DEF d
      <3> QED BY <3>1, <1>2, WordsShifted
    <2>5. t[1] # Blank
      <3>1. 1 \in 1 .. ep - sp + 1 /\ 1 + (sp - 1) = sp
        BY <1>6
      <3>2. t[1] = r[sp]
        BY <3>1, <1>2
      <3> QED BY <3>2, <1>1, <1>6 DEF Trimmed
    <2> QED BY <1>2, <2>2, <2>4, <2>5 DEF t
  <1>7. CASE sp > ep
    <2>1. Len(t) = 0
      BY <1>2, <1>7
    <2>2. ASSUME NEW j \in 1 .. Len(p)
          PROVE  p[j] = Blank
      <3>1. j \in 1 .. Len(r) /\ (j < sp \/ j > ep)
        BY <1>3, <1>7
      <3> QED BY <3>1, <1>1, <1>4
    <2>3. WordsOf(t) = WordsOf(p)
      <3>1. 0 \in Nat /\ Len(t) + 0 <= Len(p) /\ \A j \in 1 .. Len(t) : t[j] = p[j + 0]
        BY <2>1
      <3> QED BY <3>1, <2>2, <1>2, WordsShifted
    <2>4. t = << >>
      BY <2>1, <1>2, EmptySeq
    <2> QED BY <1>2, <2>1, <2>3, <2>4 DEF t
  <1> QED BY <1>6, <1>7

(* A line that begins with a word has it as its first, of its characters   *)
(* but blanks; one that is empty has no words.                             *)
LEMMA WordsBegin ==
  ASSUME NEW t \in Seq(Char), t # << >>, t[1] # Blank
  PROVE  /\ WordsOf(t) \in Seq(Seq(Char)) /\ WordsOf(t) # << >>
         /\ WordsOf(t)[1] = WordAt(t, 1) /\ Len(WordAt(t, 1)) > 0 /\ WordAt(t, 1)[1] = t[1]
         /\ \A j \in 1 .. Len(WordAt(t, 1)) :
              /\ WordAt(t, 1)[j] \in Char /\ WordAt(t, 1)[j] # Blank
              /\ \E k \in 1 .. Len(t) : WordAt(t, 1)[j] = t[k]
  <1>1. 1 \in 1 .. Len(t)
    <2>1. Len(t) # 0
      BY EmptySeq
    <2> QED BY <2>1
  <1> DEFINE S == Begins(t, 1)
             B == S \ {1}
             w == WordAt(t, 1)
             u == WordsAt(t, B)
  <1>2. S \in SUBSET (1 .. Len(t)) /\ 1 \in S /\ \A b \in S : t[b] # Blank
    BY <1>1 DEF Begins
  <1>3. /\ B \in SUBSET (1 .. Len(t)) /\ S = B \cup {1} /\ (\A b \in B : 1 < b)
        /\ (\A b \in B \cup {1} : t[b] # Blank)
    <2>1. \A b \in 1 .. Len(t) : b # 1 => 1 < b
      OBVIOUS
    <2> HIDE DEF S
    <2> QED BY <1>2, <2>1
  <1>4. WordsOf(t) = WordsAt(t, S)
    BY WordsOfIs
  <1> HIDE DEF S, B
  <1>5. WordsAt(t, B \cup {1}) = <<w>> \o u /\ u \in Seq(Seq(Char))
    <2>1. \A b \in B : t[b] # Blank
      BY <1>3
    <2> QED BY <1>1, <1>3, <2>1, WordsFirst, WordsType
  <1>6. /\ w \in Seq(Char) /\ Len(w) > 0 /\ w[1] = t[1]
        /\ \A j \in 1 .. Len(w) : w[j] = t[1 + j - 1] /\ 1 + j - 1 \in 1 .. Len(t) /\ t[1 + j - 1] # Blank
    BY <1>1, WordType
  <1>7. WordsAt(t, S) \in Seq(Seq(Char)) /\ Len(WordsAt(t, S)) > 0 /\ WordsAt(t, S)[1] = w
    <2>1. WordsAt(t, S) = <<w>> \o u
      BY <1>3, <1>5
    <2> HIDE DEF w, u
    <2>2. <<w>> \in Seq(Seq(Char)) /\ Len(<<w>>) = 1 /\ <<w>>[1] = w
      BY <1>6
    <2> DEFINE one == <<w>>
    <2>3. one \in Seq(Seq(Char)) /\ Len(one) = 1 /\ one[1] = w
      BY <2>2
    <2> HIDE DEF one
    <2>4. Len(u) \in Nat /\ 1 \in 1 .. Len(one) + Len(u) /\ 1 <= Len(one) /\ Len(one) + Len(u) > 0
      BY <1>5, <2>3
    <2>5. one \o u \in Seq(Seq(Char)) /\ Len(one \o u) = Len(one) + Len(u) /\ (one \o u)[1] = one[1]
      BY <1>5, <2>3, <2>4, ConcatProperties
    <2>6. one \o u \in Seq(Seq(Char)) /\ Len(one \o u) > 0 /\ (one \o u)[1] = w
      BY <2>3, <2>4, <2>5
    <2>7. WordsAt(t, S) = one \o u
      BY <2>1 DEF one
    <2> QED BY <2>6, <2>7
  <1>8. WordsOf(t) # << >>
    <2> DEFINE v == WordsAt(t, S)
    <2>1. Len(v) > 0 
      BY <1>7
    <2>2. Len(<< >>) = 0
      OBVIOUS
    <2> HIDE DEF v
    <2>3. v # << >>
      BY <2>1, <2>2
    <2> QED BY <2>3, <1>4 DEF v
  <1> QED BY <1>4, <1>6, <1>7, <1>8

LEMMA WordsOfNothing == WordsOf(<< >>) = << >>
  <1>1. << >> \in Seq(Char) /\ Begins(<< >>, 1) = {}
    BY DEF Begins
  <1> QED BY <1>1, WordsOfIs, NoWords

-----------------------------------------------------------------------------
(* The pieces of the lines *)

LEMMA SubSeqIs ==
  ASSUME NEW f \in Seq(Char), NEW a \in 1 .. Len(f) + 1, NEW b \in a - 1 .. Len(f)
  PROVE  /\ SubSeq(f, a, b) \in Seq(Char) /\ Len(SubSeq(f, a, b)) = b - a + 1
         /\ \A j \in 1 .. b - a + 1 : SubSeq(f, a, b)[j] = f[a + j - 1]
  <1>1. a \in Int /\ b \in Int /\ \A j \in a .. b : f[j] \in Char
    OBVIOUS
  <1>2. (IF a <= b THEN b - a + 1 ELSE 0) = b - a + 1
    OBVIOUS
  <1> QED BY <1>1, <1>2, SubSeqProperties

(* Where the line of a character begins. *)
IsLine(f, i, first) ==
  /\ first \in 1 .. i
  /\ first = 1 \/ f[first - 1] = NewLine
  /\ \A j \in first .. i - 1 : f[j] # NewLine

LEMMA LineStartIs ==
  ASSUME NEW f \in Seq(Char), NEW i \in 1 .. Len(f)
  PROVE  IsLine(f, i, LineStart(f, i))
  <1> DEFINE E == {1} \cup {j + 1 : j \in {j \in 1 .. i - 1 : f[j] = NewLine}}
             first == Max(E)
  <1>1. i \in Nat /\ E \in SUBSET (0 .. i) /\ E # {}
    OBVIOUS
  <1>2. first \in E /\ \A y \in E : first >= y
    <2> HIDE DEF E
    <2> QED BY <1>1, MaxIs
  <1>3. LineStart(f, i) = first
    BY DEF LineStart
  <1> HIDE DEF first
  <1>4. first \in 1 .. i /\ (first = 1 \/ f[first - 1] = NewLine)
    BY <1>2
  <1>5. ASSUME NEW j \in first .. i - 1, f[j] = NewLine
        PROVE  FALSE
    <2>1. j \in 1 .. i - 1
      BY <1>4
    <2>2. j + 1 \in E
      BY <2>1, <1>5
    <2>3. first >= j + 1
      BY <2>2, <1>2
    <2> QED BY <2>3, <1>4
  <1> QED BY <1>3, <1>4, <1>5 DEF IsLine

LEMMA LineIsUnique ==
  ASSUME NEW f \in Seq(Char), NEW i \in 1 .. Len(f), NEW a, NEW b,
         IsLine(f, i, a), IsLine(f, i, b)
  PROVE  a = b
  <1>1. a \in 1 .. i /\ b \in 1 .. i
    BY DEF IsLine
  <1>2. ~ a < b
    <2> SUFFICES ASSUME a < b PROVE FALSE
      OBVIOUS
    <2>1. b # 1 /\ b - 1 \in a .. i - 1
      BY <1>1
    <2> QED BY <2>1 DEF IsLine
  <1>3. ~ b < a
    <2> SUFFICES ASSUME b < a PROVE FALSE
      OBVIOUS
    <2>1. a # 1 /\ a - 1 \in b .. i - 1
      BY <1>1
    <2> QED BY <2>1 DEF IsLine
  <1> QED BY <1>1, <1>2, <1>3

LEMMA SameLine ==
  ASSUME NEW f \in Seq(Char), NEW i \in 1 .. Len(f), NEW j \in i .. Len(f),
         \A k \in i .. j - 1 : f[k] # NewLine
  PROVE  LineStart(f, j) = LineStart(f, i)
  <1> DEFINE first == LineStart(f, i)
             last == LineStart(f, j)
  <1>1. IsLine(f, i, first) /\ IsLine(f, j, last)
    BY LineStartIs
  <1> HIDE DEF first, last
  <1>2. IsLine(f, j, first)
    <2>1. first \in 1 .. i /\ (first = 1 \/ f[first - 1] = NewLine)
      BY <1>1 DEF IsLine
    <2>2. \A k \in first .. j - 1 : f[k] # NewLine
      <3> SUFFICES ASSUME NEW k \in first .. j - 1 PROVE f[k] # NewLine
        OBVIOUS
      <3>1. k \in first .. i - 1 \/ k \in i .. j - 1
        BY <2>1
      <3> QED BY <3>1, <1>1 DEF IsLine
    <2>3. first \in 1 .. j
      BY <2>1
    <2> QED BY <2>1, <2>2, <2>3 DEF IsLine
  <1>3. last = first
    BY <1>1, <1>2, LineIsUnique
  <1> QED BY <1>3 DEF first, last

(* Two multiples of a number are that number apart at least. *)
LEMMA Apart ==
  ASSUME NEW m \in Nat \ {0}, NEW k \in Nat, NEW l \in Nat, k * m < l * m
  PROVE  l * m - k * m >= m /\ l >= k + 1
  <1>1. k * m \in Nat /\ l * m \in Nat
    OBVIOUS
  <1>2. l >= k + 1
    <2> SUFFICES ASSUME l <= k PROVE FALSE
      OBVIOUS
    <2>1. k - l \in Nat /\ (k - l) * m \in Nat
      OBVIOUS
    <2>2. k * m = (k - l) * m + l * m
      OBVIOUS
    <2> QED BY <2>1, <2>2, <1>1
  <1>3. l - k - 1 \in Nat /\ (l - k - 1) * m \in Nat
    BY <1>2
  <1>4. l * m = (l - k - 1) * m + k * m + m
    BY <1>3
  <1> QED BY <1>1, <1>2, <1>3, <1>4

LEMMA Multiple ==
  ASSUME NEW m \in Nat \ {0}, NEW k \in Nat
  PROVE  k * m \in Nat /\ k * m >= k /\ (k + 1) * m = k * m + m
  <1>1. m - 1 \in Nat /\ k * (m - 1) \in Nat
    OBVIOUS
  <1>2. k * m = k * (m - 1) + k
    BY <1>1
  <1> QED BY <1>1, <1>2

LEMMA PieceStartsAre ==
  ASSUME NEW f \in Seq(Char), NEW i
  PROVE  i \in PieceStarts(f) <=>
           i \in 1 .. Len(f) /\ \E k \in Nat : i = LineStart(f, i) + k * MAX_LINE_SIZE
  <1>1. MAX_LINE_SIZE \in Nat \ {0}
    BY ConfigAssumption
  <1>2. ASSUME i \in 1 .. Len(f), NEW k \in Nat, i = LineStart(f, i) + k * MAX_LINE_SIZE
        PROVE  k \in 0 .. Len(f)
    <2>1. LineStart(f, i) \in 1 .. i
      BY <1>2, LineStartIs DEF IsLine
    <2>2. k * MAX_LINE_SIZE \in Nat /\ k * MAX_LINE_SIZE >= k
      BY <1>1, Multiple
    <2> QED BY <1>2, <2>1, <2>2
  <1>3. DOMAIN f = 1 .. Len(f) /\ 0 .. Len(f) \subseteq Nat
    OBVIOUS
  <1> QED BY <1>2, <1>3 DEF PieceStarts

LEMMA FirstPiece ==
  ASSUME NEW f \in Seq(Char), f # << >>
  PROVE  1 \in PieceStarts(f)
  <1>1. 1 \in 1 .. Len(f)
    <2>1. Len(f) # 0
      BY EmptySeq
    <2> QED BY <2>1
  <1>2. LineStart(f, 1) \in 1 .. 1
    BY <1>1, LineStartIs DEF IsLine
  <1>3. 0 * MAX_LINE_SIZE = 0
    BY ConfigAssumption
  <1>4. 1 = LineStart(f, 1) + 0 * MAX_LINE_SIZE
    BY <1>2, <1>3
  <1> QED BY <1>1, <1>4, PieceStartsAre

(* How long fgets finds the piece that begins at i. *)
ChunkLen(f, i) == Len(Fgets(SubSeq(f, i, Len(f))))

(* What fgets gives at the beginning of a piece is that piece, with its    *)
(* end if it fits in.                                                      *)
LEMMA FgetsIs ==
  ASSUME NEW f \in Seq(Char), NEW i \in 1 .. Len(f)
  PROVE  LET n == ChunkLen(f, i)
             e == FindFirst(f, i, {NewLine})
             r == Fgets(SubSeq(f, i, Len(f)))
         IN  /\ n \in 1 .. Len(f) - i + 1 /\ n <= MAX_LINE_SIZE /\ n <= e - i + 1
             /\ n = MAX_LINE_SIZE \/ n = e - i + 1 \/ n = Len(f) - i + 1
             /\ r \in Seq(Char) /\ Piece(f, i) \in Seq(Char) /\ Gives(r, Piece(f, i))
  <1> DEFINE rest == SubSeq(f, i, Len(f))
             r == Fgets(rest)
             e == FindFirst(f, i, {NewLine})
             p == Piece(f, i)
             M == MAX_LINE_SIZE
  <1>0. M \in Nat \ {0}
    BY ConfigAssumption
  <1>1. /\ rest \in Seq(Char) /\ Len(rest) = Len(f) - i + 1
        /\ \A j \in 1 .. Len(f) - i + 1 : rest[j] = f[i + j - 1]
    <2>1. i \in 1 .. Len(f) + 1 /\ Len(f) \in i - 1 .. Len(f)
      OBVIOUS
    <2> QED BY <2>1, SubSeqIs
  <1>2. IsFirst(f, i, e, {NewLine})
    BY FindFirstIs
  <1>3. r = SubSeq(rest, 1, Min({FindFirst(rest, 1, {NewLine}), M, Len(rest)}))
    BY DEF Fgets
  <1>4. p = SubSeq(f, i, Min({e - 1, i + M - 1}))
    BY DEF Piece
  <1> HIDE DEF rest, r, e, p, M
  <1>5. /\ e \in i .. Len(f) + 1
        /\ e <= Len(f) => f[e] = NewLine
        /\ \A j \in i .. e - 1 : f[j] # NewLine
    BY <1>2 DEF IsFirst
  <1>6. FindFirst(rest, 1, {NewLine}) = e - i + 1
    <2> DEFINE q == e - i + 1
    <2>1. q \in 1 .. Len(rest) + 1
      BY <1>1, <1>5
    <2>2. ASSUME q <= Len(rest) PROVE rest[q] = NewLine
      <3>1. q \in 1 .. Len(f) - i + 1 /\ i + q - 1 = e /\ e <= Len(f)
        BY <2>2, <1>1, <1>5
      <3> QED BY <3>1, <1>1, <1>5
    <2>3. ASSUME NEW j \in 1 .. q - 1 PROVE rest[j] # NewLine
      <3>1. j \in 1 .. Len(f) - i + 1 /\ i + j - 1 \in i .. e - 1
        BY <1>5
      <3> QED BY <3>1, <1>1, <1>5
    <2> HIDE DEF q
    <2>4. IsFirst(rest, 1, q, {NewLine})
      BY <2>1, <2>2, <2>3 DEF IsFirst
    <2>5. FindFirst(rest, 1, {NewLine}) = q
      <3>1. 1 \in 1 .. Len(rest) + 1
        BY <1>1
      <3> QED BY <3>1, <2>4, <1>1, FirstIsUnique
    <2> QED BY <2>5 DEF q
  <1> DEFINE ends == {e - i + 1, M, Len(f) - i + 1}
             n == Min(ends)
             stops == {e - 1, i + M - 1}
             l == Min(stops)
  <1>7. n \in ends /\ n <= e - i + 1 /\ n <= M /\ n <= Len(f) - i + 1 /\ n \in Nat
    <2>1. ends \in SUBSET Nat /\ ends # {}
      BY <1>0, <1>5
    <2>2. Min(ends) \in ends /\ \A y \in ends : Min(ends) <= y
      <3> HIDE DEF ends
      <3> QED BY <2>1, MinIs
    <2> QED BY <2>1, <2>2
  <1>8. l \in stops /\ l <= e - 1 /\ l <= i + M - 1 /\ l \in Nat
    <2>1. stops \in SUBSET Nat /\ stops # {}
      BY <1>0, <1>5
    <2>2. Min(stops) \in stops /\ \A y \in stops : Min(stops) <= y
      <3> HIDE DEF stops
      <3> QED BY <2>1, MinIs
    <2> QED BY <2>1, <2>2
  <1>9. r = SubSeq(rest, 1, n)
    BY <1>1, <1>3, <1>6
  <1>10. p = SubSeq(f, i, l)
    BY <1>4
  <1>11. (n = e - i + 1 \/ n = M \/ n = Len(f) - i + 1) /\ (l = e - 1 \/ l = i + M - 1)
    BY <1>7, <1>8
  <1> HIDE DEF n, l
  <1>12. n \in 1 .. Len(f) - i + 1
    BY <1>0, <1>5, <1>7, <1>11
  <1>13. r \in Seq(Char) /\ Len(r) = n /\ \A j \in 1 .. n : r[j] = f[i + j - 1]
    <2>1. 1 \in 1 .. Len(rest) + 1 /\ n \in 1 - 1 .. Len(rest) /\ n - 1 + 1 = n
      BY <1>1, <1>12
    <2>2. /\ SubSeq(rest, 1, n) \in Seq(Char) /\ Len(SubSeq(rest, 1, n)) = n
          /\ \A j \in 1 .. n : SubSeq(rest, 1, n)[j] = rest[1 + j - 1]
      BY <2>1, <1>1, SubSeqIs
    <2>3. \A j \in 1 .. n : 1 + j - 1 = j /\ j \in 1 .. Len(f) - i + 1
      BY <1>12
    <2> QED BY <2>2, <2>3, <1>1, <1>9
  <1>14. l \in i - 1 .. Len(f)
    BY <1>0, <1>5, <1>8, <1>11
  <1>15. /\ p \in Seq(Char) /\ Len(p) = l - i + 1
         /\ \A j \in 1 .. l - i + 1 : p[j] = f[i + j - 1]
    <2>1. i \in 1 .. Len(f) + 1
      OBVIOUS
    <2> QED BY <2>1, <1>10, <1>14, SubSeqIs
  <1>16. Gives(r, p)
    <2>1. Len(p) <= Len(r)
      BY <1>0, <1>5, <1>7, <1>8, <1>11, <1>13, <1>15
    <2>2. ASSUME NEW j \in 1 .. Len(p)
          PROVE  r[j] = p[j] /\ r[j] # NewLine
      <3>1. j \in 1 .. n /\ j \in 1 .. l - i + 1 /\ i + j - 1 \in i .. e - 1
        BY <2>1, <1>5, <1>8, <1>13, <1>15
      <3> QED BY <3>1, <1>5, <1>13, <1>15
    <2>3. ASSUME NEW j \in 1 .. Len(r), j > Len(p)
          PROVE  r[j] = NewLine
      <3>1. n = e - i + 1 /\ j = n /\ e <= Len(f)
        BY <2>3, <1>0, <1>5, <1>7, <1>8, <1>11, <1>13, <1>15
      <3>2. j \in 1 .. n /\ i + j - 1 = e
        BY <3>1, <1>5, <1>13
      <3> QED BY <3>1, <3>2, <1>5, <1>13
    <2> QED BY <2>1, <2>2, <2>3 DEF Gives
  <1>17. ChunkLen(f, i) = n
    BY <1>13 DEF ChunkLen, r, rest
  <1> QED BY <1>7, <1>11, <1>12, <1>13, <1>15, <1>16, <1>17 DEF r, p, e, M, rest

(* Behind it the next piece begins, and none on the way there. *)
LEMMA NextPiece ==
  ASSUME NEW f \in Seq(Char), NEW i \in PieceStarts(f)
  PROVE  /\ i \in 1 .. Len(f) /\ ChunkLen(f, i) \in 1 .. Len(f) - i + 1
         /\ \A j \in PieceStarts(f) : j < i + ChunkLen(f, i) => j <= i
         /\ i + ChunkLen(f, i) <= Len(f) => i + ChunkLen(f, i) \in PieceStarts(f)
  <1> DEFINE M == MAX_LINE_SIZE
             n == ChunkLen(f, i)
             e == FindFirst(f, i, {NewLine})
             first == LineStart(f, i)
  <1>0. M \in Nat \ {0}
    BY ConfigAssumption
  <1>1. i \in 1 .. Len(f)
    BY PieceStartsAre
  <1>2. PICK k \in Nat : i = first + k * M
    BY PieceStartsAre
  <1>3. /\ n \in 1 .. Len(f) - i + 1 /\ n <= M /\ n <= e - i + 1
        /\ n = M \/ n = e - i + 1 \/ n = Len(f) - i + 1
    BY <1>1, FgetsIs
  <1>4. IsFirst(f, i, e, {NewLine})
    BY <1>1, FindFirstIs
  <1>5. first \in 1 .. i
    BY <1>1, LineStartIs DEF IsLine
  <1>6. \A j \in i .. Len(f) : j <= e => LineStart(f, j) = first
    <2> SUFFICES ASSUME NEW j \in i .. Len(f), j <= e
                 PROVE  LineStart(f, j) = first
      OBVIOUS
    <2>1. \A c \in i .. j - 1 : f[c] # NewLine
      <3> HIDE DEF e
      <3>1. e \in i .. Len(f) + 1 /\ \A c \in i .. e - 1 : f[c] # NewLine
        BY <1>4 DEF IsFirst
      <3>2. \A c \in i .. j - 1 : c \in i .. e - 1
        BY <1>1, <3>1
      <3> QED BY <3>1, <3>2
    <2> QED BY <2>1, <1>1, SameLine
  <1> HIDE DEF M, n, e, first
  <1>7. e \in i .. Len(f) + 1 /\ (e <= Len(f) => f[e] = NewLine)
    BY <1>4 DEF IsFirst
  <1>8. ASSUME NEW j \in PieceStarts(f), j < i + n, ~ j <= i
        PROVE  FALSE
    <2>1. j \in 1 .. Len(f)
      BY PieceStartsAre
    <2>2. LineStart(f, j) = first
      <3>1. j \in i .. Len(f) /\ j <= e
        BY <2>1, <1>1, <1>3, <1>7, <1>8
      <3> QED BY <3>1, <1>6
    <2>3. PICK l \in Nat : j = first + l * M
      BY <2>2, PieceStartsAre DEF M
    <2>4. k * M \in Nat /\ l * M \in Nat
      BY <1>0, Multiple
    <2>5. k * M < l * M /\ l * M - k * M < M
      <3> DEFINE a == k * M
                 b == l * M
      <3>1. i = first + a /\ j = first + b /\ a \in Nat /\ b \in Nat
        BY <1>2, <2>3, <2>4
      <3> HIDE DEF a, b
      <3>2. a < b /\ b - a < M
        BY <3>1, <1>0, <1>1, <1>3, <1>5, <1>8, <2>1
      <3> QED BY <3>2 DEF a, b
    <2>6. l * M - k * M >= M
      BY <2>5, <1>0, Apart
    <2> QED BY <2>4, <2>5, <2>6, <1>0
  <1>9. ASSUME i + n <= Len(f)
        PROVE  i + n \in PieceStarts(f)
    <2>1. i + n \in 1 .. Len(f) /\ (n = M \/ n = e - i + 1)
      BY <1>1, <1>3, <1>9
    <2>2. CASE n = e - i + 1
      <3>1. i + n = e + 1 /\ e <= Len(f) /\ (i + n) - 1 = e
        BY <2>2, <1>1, <1>7, <1>9
      <3>2. IsLine(f, i + n, i + n)
        <4> DEFINE next == i + n
        <4>1. next \in 1 .. Len(f) /\ next - 1 = e /\ f[e] = NewLine
          BY <2>1, <3>1, <1>7
        <4> HIDE DEF next
        <4>2. IsLine(f, next, next)
          BY <4>1 DEF IsLine
        <4> QED BY <4>2 DEF next
      <3>3. LineStart(f, i + n) = i + n
        BY <2>1, <3>2, LineStartIs, LineIsUnique
      <3>4. 0 * M = 0
        BY <1>0
      <3>5. i + n = LineStart(f, i + n) + 0 * M
        BY <2>1, <3>3, <3>4
      <3> QED BY <2>1, <3>5, PieceStartsAre DEF M
    <2>3. CASE n = M /\ n # e - i + 1
      <3>1. i + n \in i .. Len(f) /\ i + n <= e
        BY <2>1, <2>3, <1>1, <1>3, <1>7
      <3>2. LineStart(f, i + n) = first
        BY <3>1, <1>6
      <3>3. i + n = first + (k + 1) * M
        <4>1. k * M \in Nat /\ (k + 1) * M = k * M + M
          BY <1>0, Multiple
        <4> DEFINE a == k * M
                   b == (k + 1) * M
        <4>2. a \in Nat /\ b = a + M /\ i = first + a
          BY <4>1, <1>2
        <4> HIDE DEF a, b
        <4>3. i + n = first + b
          BY <4>2, <2>3, <1>0, <1>1, <1>5
        <4> QED BY <4>3 DEF b
      <3>4. k + 1 \in Nat
        OBVIOUS
      <3> QED BY <2>1, <3>2, <3>3, <3>4, PieceStartsAre DEF M
    <2> QED BY <2>1, <2>2, <2>3
  <1> QED BY <1>1, <1>3, <1>8, <1>9 DEF n

-----------------------------------------------------------------------------
(* The invariant *)

(* A name, if a file says something of it, is said first at i, which is    *)
(* among the first n characters.                                           *)
FirstSays(f, n, i, w) ==
  /\ i \in PieceStarts(f) /\ i <= n /\ Says(f, i, w)
  /\ \A j \in PieceStarts(f) : j < i => ~ Says(f, j, w)

(* What the first n characters of a file say is in a dictionary: of each   *)
(* name the words of the first piece that begins with it.                  *)
Kept(f, n, d) ==
  /\ \A w \in DOMAIN d :
       /\ d[w] \in Seq(Char)
       /\ \E i \in DOMAIN f : FirstSays(f, n, i, w) /\ WordsOf(d[w]) = WordsOf(Piece(f, i))
  /\ \A i \in PieceStarts(f) : i <= n =>
       LET words == WordsOf(Piece(f, i))
       IN  words # << >> /\ words[1][1] # Hash => words[1] \in DOMAIN d

(* Each line is by its first word. *)
ByFirstWord(d) ==
  \A w \in DOMAIN d : /\ Range(w) \subseteq Char \ {Blank, NewLine}
                      /\ d[w] # << >> /\ StrSplit(d[w])[1] = w

(* fgets stands at the beginning of a piece, or at the end of the file.    *)
ReadsByPieces ==
  /\ exists => fp = Len(file) \/ fp + 1 \in PieceStarts(file)
  /\ ~ exists => fp = 0 /\ DOMAIN dict = {}

FirstLineKept == Kept(file, fp, dict)

AllIsRead == exists /\ ~ reading => fp = Len(file)

ConfInv == ConfTypeOK /\ ReadsByPieces /\ FirstLineKept /\ AllIsRead

(* The line that fgets and StrTrim make of a piece has its words. *)
LineAt(f, i) == StrTrim(Fgets(SubSeq(f, i, Len(f))))

LEMMA LineIs ==
  ASSUME NEW f \in Seq(Char), NEW i \in 1 .. Len(f)
  PROVE  LET line == LineAt(f, i)
             words == WordsOf(Piece(f, i))
         IN  /\ line \in Seq(Char) /\ WordsOf(line) = words /\ StrSplit(line) = words
             /\ line = << >> => words = << >>
             /\ line # << >> =>
                  /\ words # << >> /\ words[1][1] = line[1]
                  /\ Range(words[1]) \subseteq Char \ {Blank, NewLine}
  <1> DEFINE r == Fgets(SubSeq(f, i, Len(f)))
             p == Piece(f, i)
             t == StrTrim(r)
  <1>1. r \in Seq(Char) /\ p \in Seq(Char) /\ Gives(r, p)
    BY FgetsIs
  <1> HIDE DEF r, p
  <1>2. /\ t \in Seq(Char) /\ WordsOf(t) = WordsOf(p)
        /\ \A j \in 1 .. Len(t) : t[j] # NewLine
        /\ t # << >> => t[1] # Blank
    BY <1>1, TrimWords
  <1>3. LineAt(f, i) = t
    BY DEF LineAt, r
  <1> HIDE DEF t
  <1>4. StrSplit(t) = WordsOf(p)
    BY <1>2, SplitIs
  <1>5. t = << >> => WordsOf(p) = << >>
    BY <1>2, WordsOfNothing
  <1>6. ASSUME t # << >>
        PROVE  /\ WordsOf(p) # << >> /\ WordsOf(p)[1][1] = t[1]
               /\ Range(WordsOf(p)[1]) \subseteq Char \ {Blank, NewLine}
    <2> DEFINE w == WordAt(t, 1)
    <2>1. /\ WordsOf(t) # << >> /\ WordsOf(t)[1] = w /\ w[1] = t[1]
          /\ \A j \in 1 .. Len(w) :
               w[j] \in Char /\ w[j] # Blank /\ \E k \in 1 .. Len(t) : w[j] = t[k]
      BY <1>2, <1>6, WordsBegin
    <2>2. w \in Seq(Char)
      <3>1. 1 \in 1 .. Len(t)
        <4>1. Len(t) # 0
          BY <1>2, <1>6, EmptySeq
        <4> QED BY <4>1, <1>2
      <3>2. t[1] # Blank
        BY <1>2, <1>6
      <3> QED BY <3>1, <3>2, <1>2, WordType
    <2> HIDE DEF w
    <2>3. \A j \in 1 .. Len(w) : w[j] \in Char \ {Blank, NewLine}
      BY <2>1, <1>2
    <2>4. DOMAIN w = 1 .. Len(w)
      BY <2>2
    <2>5. Range(w) \subseteq Char \ {Blank, NewLine}
      BY <2>3, <2>4 DEF Range
    <2> QED BY <2>1, <2>5, <1>2
  <1> QED BY <1>2, <1>3, <1>4, <1>5, <1>6 DEF p

(* The pieces that begin among the characters read now are the last one    *)
(* and those before.                                                       *)
LEMMA InsertKeeps ==
  ASSUME NEW f \in Seq(Char), NEW n \in Nat, n + 1 \in PieceStarts(f), NEW d,
         Kept(f, n, d), ByFirstWord(d)
  PROVE  LET next == n + ChunkLen(f, n + 1)
             e == Insert(d, LineAt(f, n + 1))
         IN  /\ next \in n + 1 .. Len(f) /\ (next = Len(f) \/ next + 1 \in PieceStarts(f))
             /\ Kept(f, next, e) /\ ByFirstWord(e)
  <1> DEFINE i == n + 1
             c == ChunkLen(f, i)
             next == n + c
             line == LineAt(f, i)
             words == WordsOf(Piece(f, i))
             e == Insert(d, line)
  <1>1. /\ i \in 1 .. Len(f) /\ c \in 1 .. Len(f) - i + 1
        /\ \A j \in PieceStarts(f) : j < i + c => j <= i
        /\ i + c <= Len(f) => i + c \in PieceStarts(f)
    BY NextPiece
  <1>2. /\ line \in Seq(Char) /\ WordsOf(line) = words /\ StrSplit(line) = words
        /\ line = << >> => words = << >>
        /\ line # << >> =>
             /\ words # << >> /\ words[1][1] = line[1]
             /\ Range(words[1]) \subseteq Char \ {Blank, NewLine}
    BY <1>1, LineIs
  <1>3. /\ line = << >> \/ line[1] = Hash \/ words[1] \in DOMAIN d => e = d
        /\ ~ (line = << >> \/ line[1] = Hash \/ words[1] \in DOMAIN d) =>
             e = [w \in DOMAIN d \cup {words[1]} |-> IF w = words[1] THEN line ELSE d[w]]
    BY <1>2 DEF Insert
  <1>4. \A w : Says(f, i, w) <=> line # << >> /\ line[1] # Hash /\ w = words[1]
    BY <1>2 DEF Says
  <1> HIDE DEF c, line, words, e
  <1>5. next \in n + 1 .. Len(f) /\ i + c = next + 1
    BY <1>1
  <1>6. next = Len(f) \/ next + 1 \in PieceStarts(f)
    <2>1. CASE i + c <= Len(f)
      BY <2>1, <1>1, <1>5
    <2>2. CASE i + c > Len(f)
      BY <2>2, <1>1, <1>5
    <2> QED BY <2>1, <2>2, <1>1
  <1> HIDE DEF next
  <1>7. \A j \in PieceStarts(f) : j <= next => j <= n \/ j = i
    <2> SUFFICES ASSUME NEW j \in PieceStarts(f), j <= next
                 PROVE  j <= n \/ j = i
      OBVIOUS
    <2>1. j \in 1 .. Len(f)
      BY PieceStartsAre
    <2>2. j < i + c
      BY <2>1, <1>1, <1>5
    <2>3. j <= i
      BY <2>2, <1>1
    <2> QED BY <2>1, <2>3
  <1>8. ASSUME NEW w, NEW j, FirstSays(f, n, j, w)
        PROVE  FirstSays(f, next, j, w)
    <2>1. j \in 1 .. Len(f) /\ j <= n
      BY <1>8, PieceStartsAre DEF FirstSays
    <2>2. j <= next
      BY <2>1, <1>5
    <2> QED BY <2>2, <1>8 DEF FirstSays
  <1>9. CASE line = << >> \/ line[1] = Hash \/ words[1] \in DOMAIN d
    <2>1. e = d
      BY <1>3, <1>9
    <2>2. \A w \in DOMAIN d :
            /\ d[w] \in Seq(Char)
            /\ \E j \in DOMAIN f : FirstSays(f, next, j, w) /\ WordsOf(d[w]) = WordsOf(Piece(f, j))
      BY <1>8 DEF Kept
    <2>3. ASSUME NEW j \in PieceStarts(f), j <= next,
                 WordsOf(Piece(f, j)) # << >>, WordsOf(Piece(f, j))[1][1] # Hash
          PROVE  WordsOf(Piece(f, j))[1] \in DOMAIN d
      <3>1. CASE j <= n
        BY <3>1, <2>3 DEF Kept
      <3>2. CASE j = i
        <4>1. words # << >> /\ words[1][1] # Hash /\ words = WordsOf(Piece(f, j))
          BY <3>2, <2>3 DEF words
        <4>2. words[1] \in DOMAIN d
          BY <4>1, <1>2, <1>9
        <4> QED BY <4>1, <4>2
      <3> QED BY <3>1, <3>2, <2>3, <1>7
    <2>4. Kept(f, next, d)
      BY <2>2, <2>3 DEF Kept
    <2> QED BY <2>1, <2>4, <1>5, <1>6 DEF e, next, line, c
  <1>10. CASE ~ (line = << >> \/ line[1] = Hash \/ words[1] \in DOMAIN d)
    <2> DEFINE w1 == words[1]
    <2>1. e = [w \in DOMAIN d \cup {w1} |-> IF w = w1 THEN line ELSE d[w]]
      BY <1>3, <1>10
    <2>2. /\ w1 \notin DOMAIN d /\ line # << >> /\ words # << >> /\ words[1][1] # Hash
          /\ Range(w1) \subseteq Char \ {Blank, NewLine}
      BY <1>2, <1>10
    <2>3. Says(f, i, w1)
      BY <1>4, <1>10
    <2>4. \A w : Says(f, i, w) => w = w1
      BY <1>4
    <2> HIDE DEF w1
    <2>5. /\ DOMAIN e = DOMAIN d \cup {w1} /\ e[w1] = line
          /\ \A w \in DOMAIN d : e[w] = d[w]
      BY <2>1, <2>2
    <2>6. \A j \in PieceStarts(f) : j <= n => ~ Says(f, j, w1)
      <3> SUFFICES ASSUME NEW j \in PieceStarts(f), j <= n, Says(f, j, w1)
                   PROVE  FALSE
        OBVIOUS
      <3>1. w1 \in DOMAIN d
        BY DEF Kept, Says
      <3> QED BY <3>1, <2>2
    <2>7. FirstSays(f, next, i, w1)
      <3>1. i \in PieceStarts(f) /\ i <= next
        BY <1>5
      <3>2. \A j \in PieceStarts(f) : j < i => ~ Says(f, j, w1)
        <4> SUFFICES ASSUME NEW j \in PieceStarts(f), j < i
                     PROVE  ~ Says(f, j, w1)
          OBVIOUS
        <4>1. j \in 1 .. Len(f)
          BY PieceStartsAre
        <4>2. j <= n
          BY <4>1
        <4> QED BY <4>2, <2>6
      <3> QED BY <3>1, <3>2, <2>3 DEF FirstSays
    <2>8. ASSUME NEW w \in DOMAIN e
          PROVE  /\ e[w] \in Seq(Char)
                 /\ \E j \in DOMAIN f :
                      FirstSays(f, next, j, w) /\ WordsOf(e[w]) = WordsOf(Piece(f, j))
      <3>1. CASE w = w1
        <4>1. i \in DOMAIN f
          BY <1>1
        <4>2. WordsOf(line) = WordsOf(Piece(f, i))
          BY <1>2 DEF words
        <4> QED BY <3>1, <4>1, <4>2, <2>5, <2>7, <1>2
      <3>2. CASE w \in DOMAIN d
        <4>1. /\ d[w] \in Seq(Char)
              /\ \E j \in DOMAIN f :
                   FirstSays(f, n, j, w) /\ WordsOf(d[w]) = WordsOf(Piece(f, j))
          BY <3>2 DEF Kept
        <4>2. e[w] = d[w]
          BY <3>2, <2>5
        <4> QED BY <4>1, <4>2, <1>8
      <3> QED BY <3>1, <3>2, <2>5
    <2>9. ASSUME NEW j \in PieceStarts(f), j <= next,
                 WordsOf(Piece(f, j)) # << >>, WordsOf(Piece(f, j))[1][1] # Hash
          PROVE  WordsOf(Piece(f, j))[1] \in DOMAIN e
      <3>1. CASE j <= n
        <4>1. WordsOf(Piece(f, j))[1] \in DOMAIN d
          BY <3>1, <2>9 DEF Kept
        <4> QED BY <4>1, <2>5
      <3>2. CASE j = i
        BY <3>2, <2>5 DEF words, w1
      <3> QED BY <3>1, <3>2, <2>9, <1>7
    <2>10. Kept(f, next, e)
      BY <2>8, <2>9 DEF Kept
    <2>11. ByFirstWord(e)
      <3> SUFFICES ASSUME NEW w \in DOMAIN e
                   PROVE  /\ Range(w) \subseteq Char \ {Blank, NewLine}
                          /\ e[w] # << >> /\ StrSplit(e[w])[1] = w
        BY DEF ByFirstWord
      <3>1. CASE w = w1
        BY <3>1, <2>2, <2>5, <1>2 DEF w1
      <3>2. CASE w \in DOMAIN d
        BY <3>2, <2>5 DEF ByFirstWord
      <3> QED BY <3>1, <3>2, <2>5
    <2> QED BY <2>10, <2>11, <1>5, <1>6 DEF e, next, line, c
  <1> QED BY <1>9, <1>10

-----------------------------------------------------------------------------
(* The steps *)

LEMMA ConfInitInv ==
  ASSUME ConfInit
  PROVE  ConfInv
  <1>1. file \in Seq(Char) /\ exists \in BOOLEAN /\ fp = 0 /\ dict = << >> /\ reading = TRUE
    BY ConfigAssumption DEF ConfInit
  <1>2. DOMAIN dict = {}
    BY <1>1
  <1>3. ConfTypeOK
    BY <1>1, <1>2 DEF ConfTypeOK
  <1>4. ReadsByPieces
    <2>1. CASE file = << >>
      BY <2>1, <1>1, <1>2 DEF ReadsByPieces
    <2>2. CASE file # << >>
      BY <2>2, <1>1, <1>2, FirstPiece DEF ReadsByPieces
    <2> QED BY <2>1, <2>2
  <1>5. FirstLineKept
    <2>1. \A i \in PieceStarts(file) : i \in 1 .. Len(file)
      BY <1>1, PieceStartsAre
    <2>2. \A i \in PieceStarts(file) : ~ i <= fp
      BY <2>1, <1>1
    <2> QED BY <1>2, <2>2 DEF FirstLineKept, Kept
  <1>6. AllIsRead
    BY <1>1 DEF AllIsRead
  <1> QED BY <1>3, <1>4, <1>5, <1>6 DEF ConfInv

LEMMA ConfStep ==
  ASSUME ConfInv, [ConfNext]_confVars
  PROVE  ConfInv'
  <1>1. ConfTypeOK /\ ReadsByPieces /\ FirstLineKept /\ AllIsRead
    BY DEF ConfInv
  <1>2. CASE ReadLine
    <2>1. /\ reading /\ exists /\ fp < Len(file)
          /\ fp' = fp + ChunkLen(file, fp + 1)
          /\ dict' = Insert(dict, LineAt(file, fp + 1))
          /\ file' = file /\ exists' = exists /\ reading' = reading
      BY <1>2 DEF ReadLine, Rest, ChunkLen, LineAt
    <2>2. file \in Seq(Char) /\ fp \in Nat /\ fp + 1 \in PieceStarts(file)
      BY <1>1, <2>1 DEF ConfTypeOK, ReadsByPieces
    <2>3. Kept(file, fp, dict) /\ ByFirstWord(dict)
      BY <1>1 DEF FirstLineKept, ConfTypeOK, ByFirstWord
    <2>4. /\ fp' \in fp + 1 .. Len(file)
          /\ fp' = Len(file) \/ fp' + 1 \in PieceStarts(file)
          /\ Kept(file, fp', dict') /\ ByFirstWord(dict')
      BY <2>1, <2>2, <2>3, InsertKeeps
    <2>5. ConfTypeOK'
      <3>1. fp' \in 0 .. Len(file')
        BY <2>1, <2>2, <2>4
      <3>2. file' \in Seq(Char) /\ exists' \in BOOLEAN /\ reading' \in BOOLEAN
        BY <1>1, <2>1 DEF ConfTypeOK
      <3> QED BY <3>1, <3>2, <2>4 DEF ConfTypeOK, ByFirstWord
    <2>6. ReadsByPieces'
      BY <2>1, <2>4 DEF ReadsByPieces
    <2>7. FirstLineKept'
      BY <2>1, <2>4 DEF FirstLineKept
    <2>8. AllIsRead'
      BY <2>1 DEF AllIsRead
    <2> QED BY <2>5, <2>6, <2>7, <2>8 DEF ConfInv
  <1>3. CASE Loaded
    <2>1. /\ exists => fp = Len(file)
          /\ reading' = FALSE
          /\ file' = file /\ exists' = exists /\ fp' = fp /\ dict' = dict
      BY <1>3 DEF Loaded
    <2>2. ConfTypeOK'
      BY <1>1, <2>1 DEF ConfTypeOK
    <2>3. ReadsByPieces' /\ FirstLineKept' /\ AllIsRead'
      BY <1>1, <2>1 DEF ReadsByPieces, FirstLineKept, AllIsRead
    <2> QED BY <2>2, <2>3 DEF ConfInv
  <1>4. CASE UNCHANGED confVars
    <2>1. /\ file' = file /\ exists' = exists /\ fp' = fp /\ dict' = dict
          /\ reading' = reading
      BY <1>4 DEF confVars
    <2>2. ConfTypeOK'
      BY <1>1, <2>1 DEF ConfTypeOK
    <2>3. ReadsByPieces' /\ FirstLineKept' /\ AllIsRead'
      BY <1>1, <2>1 DEF ReadsByPieces, FirstLineKept, AllIsRead
    <2> QED BY <2>2, <2>3 DEF ConfInv
  <1> QED BY <1>2, <1>3, <1>4 DEF ConfNext

-----------------------------------------------------------------------------
(* What the server gets *)

(* The words of a line are none of them empty. *)
LEMMA WordsAre ==
  ASSUME NEW t \in Seq(Char)
  PROVE  WordsOf(t) \in Seq(Seq(Char)) /\ \A k \in 1 .. Len(WordsOf(t)) : WordsOf(t)[k] # << >>
  <1> DEFINE B == Begins(t, 1)
  <1>1. B \in SUBSET (1 .. Len(t)) /\ \A b \in B : t[b] # Blank
    BY DEF Begins
  <1>2. WordsOf(t) = WordsAt(t, B)
    BY WordsOfIs
  <1> HIDE DEF B
  <1>3. /\ WordsAt(t, B) \in Seq(Seq(Char)) /\ Len(WordsAt(t, B)) = Cardinality(B)
        /\ \A k \in 1 .. Cardinality(B) :
             InOrder(B)[k] \in B /\ WordsAt(t, B)[k] = WordAt(t, InOrder(B)[k])
    BY <1>1, WordsType
  <1>4. \A b \in B : WordAt(t, b) # << >>
    <2> SUFFICES ASSUME NEW b \in B PROVE WordAt(t, b) # << >>
      OBVIOUS
    <2>1. Len(WordAt(t, b)) > 0
      BY <1>1, WordType
    <2>2. Len(<< >>) = 0
      OBVIOUS
    <2> DEFINE w == WordAt(t, b)
    <2>3. Len(w) > 0
      BY <2>1
    <2> HIDE DEF w
    <2>4. w # << >>
      BY <2>2, <2>3
    <2> QED BY <2>4 DEF w
  <1> QED BY <1>2, <1>3, <1>4

(* When all of a file is in the dictionary, every name gets what the file  *)
(* means by it.                                                            *)
LEMMA KeptMeans ==
  ASSUME NEW f \in Seq(Char), Kept(f, Len(f), dict), ByFirstWord(dict), NEW name
  PROVE  Means(f, name)
  <1> DEFINE at == {i \in PieceStarts(f) : Says(f, i, name)}
             words == Meaning(f, name)
             said == StrSplit(dict[name])
  <1>1. CASE name \notin DOMAIN dict
    <2>1. at = {}
      <3> SUFFICES ASSUME NEW i \in PieceStarts(f), Says(f, i, name)
                   PROVE  FALSE
        OBVIOUS
      <3>1. i <= Len(f)
        BY PieceStartsAre
      <3>2. name \in DOMAIN dict
        BY <3>1 DEF Kept, Says
      <3> QED BY <3>2, <1>1
    <2>2. words = << >>
      BY <2>1 DEF Meaning
    <2>3. GetStringArray(name) = << >> /\ GetString(name, << >>) = << >>
      BY <1>1 DEF GetStringArray, GetString
    <2> HIDE DEF words
    <2> QED BY <2>2, <2>3 DEF Means, GetInt, GetIntArray, words
  <1>2. CASE name \in DOMAIN dict
    <2>1. dict[name] \in Seq(Char) /\ dict[name] # << >> /\ said[1] = name
      BY <1>2 DEF Kept, ByFirstWord
    <2>2. PICK i \in DOMAIN f :
            /\ FirstSays(f, Len(f), i, name)
            /\ WordsOf(dict[name]) = WordsOf(Piece(f, i))
      BY <1>2 DEF Kept
    <2>3. said = WordsOf(Piece(f, i)) /\ said = WordsOf(dict[name])
      BY <2>1, <2>2, SplitIs
    <2>4. i \in at /\ \A j \in at : i <= j
      <3>1. i \in PieceStarts(f) /\ Says(f, i, name)
        BY <2>2 DEF FirstSays
      <3>2. \A j \in at : ~ j < i
        BY <2>2 DEF FirstSays
      <3>3. \A j \in at : j \in 1 .. Len(f)
        BY PieceStartsAre
      <3> QED BY <3>1, <3>2, <3>3
    <2>5. Min(at) = i
      <3>1. at \in SUBSET Nat /\ at # {}
        <4>1. \A j \in at : j \in 1 .. Len(f)
          BY PieceStartsAre
        <4> QED BY <4>1, <2>4
      <3> HIDE DEF at
      <3> DEFINE least == Min(at)
      <3>2. least \in at /\ least <= i /\ i <= least
        BY <3>1, <2>4, MinIs
      <3>3. least \in Nat /\ i \in Nat
        BY <3>1, <3>2, <2>4
      <3> HIDE DEF least
      <3>4. least = i
        BY <3>2, <3>3
      <3> QED BY <3>4 DEF least
    <2>6. words = Tail(said)
      <3>1. words = Tail(WordsOf(Piece(f, Min(at))))
        BY <2>4 DEF Meaning
      <3> QED BY <3>1, <2>3, <2>5
    <2>7. /\ said \in Seq(Seq(Char)) /\ said # << >>
          /\ \A k \in 1 .. Len(said) : said[k] # << >>
      <3>1. said # << >>
        BY <2>2, <2>3 DEF FirstSays, Says
      <3> QED BY <3>1, <2>1, <2>3, WordsAre
    <2>8. GetStringArray(name) = Tail(said)
      BY <1>2 DEF GetStringArray
    <2>9. GetString(name, << >>) = IF Len(said) < 2 THEN << >> ELSE said[2]
      BY <1>2 DEF GetString
    <2> HIDE DEF said, words
    <2>10. Len(said) > 0
      <3>1. Len(said) # 0
        BY <2>7, EmptySeq
      <3> QED BY <3>1, <2>7
    <2>11. /\ Tail(said) \in Seq(Seq(Char)) /\ Len(Tail(said)) = Len(said) - 1
           /\ \A k \in 1 .. Len(said) - 1 : Tail(said)[k] = said[k + 1]
      BY <2>7, HeadTailProperties
    <2>12. GetString(name, << >>) = IF words = << >> THEN << >> ELSE words[1]
      <3>1. CASE Len(said) < 2
        <4>1. Len(Tail(said)) = 0
          BY <3>1, <2>10, <2>11
        <4>2. Tail(said) = << >>
          BY <4>1, <2>11, EmptySeq
        <4> QED BY <3>1, <4>2, <2>6, <2>9
      <3>2. CASE Len(said) >= 2
        <4>1. 1 \in 1 .. Len(said) - 1 /\ Len(Tail(said)) # 0
          BY <3>2, <2>11
        <4> DEFINE rest == Tail(said)
        <4>2. /\ Len(rest) # 0
              /\ \A k \in 1 .. Len(said) - 1 : rest[k] = said[k + 1]
          BY <4>1, <2>11
        <4> HIDE DEF rest
        <4>3. Len(<< >>) = 0 /\ 1 + 1 = 2
          OBVIOUS
        <4>4. rest[1] = said[2] /\ rest # << >>
          BY <4>1, <4>2, <4>3
        <4>5. Tail(said)[1] = said[2] /\ Tail(said) # << >>
          BY <4>4 DEF rest
        <4> QED BY <3>2, <4>5, <2>6, <2>9
      <3> QED BY <3>1, <3>2, <2>7
    <2>13. words # << >> => words[1] # << >>
      <3> SUFFICES ASSUME Tail(said) # << >> PROVE Tail(said)[1] # << >>
        BY <2>6
      <3>1. Len(Tail(said)) # 0
        BY <2>11, EmptySeq
      <3>2. 1 \in 1 .. Len(said) - 1 /\ 1 + 1 \in 1 .. Len(said)
        BY <3>1, <2>10, <2>11
      <3> QED BY <3>2, <2>7, <2>11
    <2>14. GetInt(name) = IF words = << >> THEN Default[name] ELSE Atoi(words[1])
      BY <2>12, <2>13 DEF GetInt
    <2>15. GetIntArray(name) = [k \in DOMAIN words |-> Atoi(words[k])]
      BY <2>6, <2>8 DEF GetIntArray
    <2> QED BY <2>6, <2>8, <2>12, <2>14, <2>15 DEF Means, words
  <1> QED BY <1>1, <1>2

LEMMA ConfSettings ==
  ASSUME ConfInv
  PROVE  SettingsAreRead
  <1> SUFFICES ASSUME ~ reading, NEW name \in DOMAIN Default
               PROVE  Means(IF exists THEN file ELSE << >>, name)
    BY DEF SettingsAreRead
  <1>1. ConfTypeOK /\ ReadsByPieces /\ FirstLineKept /\ AllIsRead
    BY DEF ConfInv
  <1>2. ByFirstWord(dict)
    BY <1>1 DEF ConfTypeOK, ByFirstWord
  <1>3. CASE exists
    <2>1. file \in Seq(Char) /\ fp = Len(file) /\ Kept(file, fp, dict)
      BY <1>1, <1>3 DEF ConfTypeOK, AllIsRead, FirstLineKept
    <2>2. Means(file, name)
      BY <2>1, <1>2, KeptMeans
    <2> QED BY <2>2, <1>3
  <1>4. CASE ~ exists
    <2>1. DOMAIN dict = {}
      BY <1>1, <1>4 DEF ReadsByPieces
    <2>2. PieceStarts(<< >>) = {}
      BY DEF PieceStarts
    <2>3. << >> \in Seq(Char) /\ Kept(<< >>, Len(<< >>), dict)
      BY <2>1, <2>2 DEF Kept
    <2>4. Means(<< >>, name)
      BY <2>3, <1>2, KeptMeans
    <2> QED BY <2>4, <1>4
  <1> QED BY <1>3, <1>4

-----------------------------------------------------------------------------
(* The theorems *)

LEMMA ConfInvHolds == ConfSpec => []ConfInv
  <1>1. ConfInit => ConfInv
    BY ConfInitInv
  <1>2. ConfInv /\ [ConfNext]_confVars => ConfInv'
    BY ConfStep
  <1> QED BY <1>1, <1>2, PTL DEF ConfSpec

(* The characters read are those of the file, and every line that          *)
(* CConfig::Insert puts into dict_ is there by its first word.             *)
THEOREM ConfTypeCorrect == ConfSpec => []ConfTypeOK
  <1>1. ConfInv => ConfTypeOK
    BY DEF ConfInv
  <1> QED BY <1>1, ConfInvHolds, PTL

(* Whatever the file holds and however long its lines are, what the server *)
(* asks CConfig for after ServerConfig::Init is what the first line, or    *)
(* piece of MAX_LINE_SIZE characters of one, that begins with the name     *)
(* says, and the default if there is none.                                 *)
THEOREM SettingsAreReadHolds == ConfSpec => []SettingsAreRead
  <1>1. ConfInv => SettingsAreRead
    BY ConfSettings
  <1> QED BY <1>1, ConfInvHolds, PTL

=============================================================================
