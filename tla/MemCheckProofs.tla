--------------------------- MODULE MemCheckProofs ---------------------------
(***************************************************************************)
(* The list of the memory checker is whole wherever a signal interrupts    *)
(* the program, for every set of nodes, addresses and signals: the walk of *)
(* the handler stays on it, a report no other signal disturbs is complete, *)
(* and the pointers keep the list AllocLog promises.                       *)
(*                                                                         *)
(* The invariant says which sequence of nodes the next pointers run        *)
(* through, what the prev pointers are while a node is half linked, and    *)
(* how far a handler has come along that sequence.                         *)
(***************************************************************************)
EXTENDS MemCheck, TLAPS, FiniteSetTheorems, SequenceTheorems, WellFoundedInduction

-----------------------------------------------------------------------------
(* The invariant *)

(* The cells a walk along c comes by: head_, the nodes of c, head_ again. *)
Spot(c, i) == IF i \in 1 .. Len(c) THEN c[i] ELSE head_

(* The next pointers run through c. *)
Ahead(map, c) == \A i \in 0 .. Len(c) : map[Spot(c, i)] = Spot(c, i + 1)

(* The prev pointers run through c the other way; or they do but for one,  *)
(* which leads to a node that is half linked in front of it.               *)
Back(map, c) == \A i \in 1 .. Len(c) + 1 : map[Spot(c, i)] = Spot(c, i - 1)
HalfBack(map, c, k, n) ==
  \A i \in 1 .. Len(c) + 1 : map[Spot(c, i)] = IF i = k THEN n ELSE Spot(c, i - 1)

(* Node n is in front of the k-th cell, which it leads on to, and it to n, *)
(* but it cannot be reached yet, or no longer.                             *)
HalfLinked(n, c, k) ==
  /\ next[n] = Spot(c, k) /\ prev[n] = Spot(c, k - 1)
  /\ HalfBack(prev, c, k, n)

Adding == pc \in {"add_prev", "add_next", "add_back", "add_head"}

ChainIsList ==
  /\ Chain \in Seq(Node) /\ IsInjective(Chain)
  /\ Ahead(next, Chain)

PrevFollows ==
  /\ ~ pc \in {"add_head", "del_prev"} => Back(prev, Chain)
  /\ pc \in {"add_next", "add_back"} => prev[node] = head_
  /\ pc = "add_back" => next[node] = Spot(Chain, 1)
  /\ pc = "add_head" => HalfLinked(node, Chain, 1)
  /\ pc = "del_prev" => \E k \in 1 .. Len(Chain) + 1 : HalfLinked(node, Chain, k)

(* The nodes allocated are those on the list, and the one on its way. *)
NodesAreKnown ==
  /\ Adding \/ pc \in {"del_prev", "del_free"} =>
       node \in Node \ Range(Chain) /\ allocated = Range(Chain) \cup {node}
  /\ ~ (Adding \/ pc \in {"del_prev", "del_free"}) => allocated = Range(Chain)
  /\ pc = "add_size" => Chain # << >> /\ node = Chain[1]

(* A node that is taken out is the newest with its address. *)
NewestGoesFirst ==
  pc = "del_next" =>
    \E k \in 1 .. Len(Chain) :
      /\ Chain[k] = node
      /\ \A j \in 1 .. k - 1 : info[Chain[j]] # info[node]

SizeFollows ==
  size = CASE pc = "add_size" -> Len(Chain) - 1
           [] pc \in {"del_prev", "del_free", "del_size"} -> Len(Chain) + 1
           [] OTHER -> Len(Chain)

(* Of the handlers that are interrupted each has been disturbed, or will   *)
(* begin its walk when it goes on.                                         *)
HandlersAreInOrder ==
  /\ handlers # << >> => sent > 0
  /\ \A i \in 2 .. Len(handlers) : handlers[i].disturbed \/ handlers[i].does = "reset"
  /\ \A i \in DOMAIN handlers : handlers[i].does = "reset" => handlers[i].printed = << >>
  /\ (\E i \in DOMAIN handlers : handlers[i].does # "reset") =>
       pos \in Range(Chain) \cup {head_}

(* The first k of the addresses recorded. *)
FirstOf(k) == SubSeq(Recorded, 1, k)

ReportFollowsWalk ==
  handlers # << >> /\ ~ handlers[1].disturbed =>
    /\ handlers[1].does = "look" =>
         \E k \in 0 .. Len(Chain) :
           pos = Spot(Chain, k + 1) /\ handlers[1].printed = FirstOf(k)
    /\ handlers[1].does = "next" =>
         \E k \in 1 .. Len(Chain) :
           pos = Chain[k] /\ handlers[1].printed = FirstOf(k)

ListInv ==
  ChainIsList /\ PrevFollows /\ NodesAreKnown /\ NewestGoesFirst /\ SizeFollows

WalkInv == HandlersAreInOrder /\ ReportFollowsWalk

MemInv == MemTypeOK /\ ListInv /\ WalkInv

(* What UNCHANGED speaks of, and the places in the code, are always opened. *)
USE DEF list, links, user, walk, At, Goto

-----------------------------------------------------------------------------
(* Lemmas about sequences of nodes *)

(* A set of numbers has a least one. *)
LEMMA LeastIndex ==
  ASSUME NEW S \in SUBSET Nat, S # {}
  PROVE  \E x \in S : \A y \in S : x <= y
  <1> DEFINE Less == {ss \in Nat \X Nat : ss[1] < ss[2]}
  <1>1. IsWellFoundedOn(Less, Nat)
    BY NatLessThanWellFounded DEF OpToRel
  <1>2. \A x, y \in Nat : x < y => <<x, y>> \in Less
    OBVIOUS
  <1>3. PICK x \in S : \A y \in S : ~ (<<y, x>> \in Less)
    <2> HIDE DEF Less
    <2> QED BY <1>1, WFMin
  <1>4. \A y \in S : ~ (y < x)
    <2> HIDE DEF Less
    <2> QED BY <1>2, <1>3
  <1> QED BY <1>3, <1>4

(* What is on the way along c. *)
LEMMA SpotFacts ==
  ASSUME NEW c \in Seq(Node)
  PROVE  /\ Spot(c, 0) = head_ /\ Spot(c, Len(c) + 1) = head_
         /\ \A i \in 1 .. Len(c) :
              Spot(c, i) = c[i] /\ c[i] \in Node /\ c[i] # head_ /\ c[i] \in Range(c)
         /\ \A i \in Int : Spot(c, i) \in Cell /\ Spot(c, i) \in Range(c) \cup {head_}
         /\ Range(c) \subseteq Node
         /\ \A n \in Range(c) : \E i \in 1 .. Len(c) : n = c[i] /\ Spot(c, i) = n
  BY MemCheckAssumption DEF Spot, Cell, Range

(* No two spots of a way are the same, but head_ is at both ends. *)
LEMMA SpotsDiffer ==
  ASSUME NEW c \in Seq(Node), IsInjective(c)
  PROVE  /\ \A i, j \in 0 .. Len(c) : Spot(c, i) = Spot(c, j) => i = j
         /\ \A i, j \in 1 .. Len(c) + 1 : Spot(c, i) = Spot(c, j) => i = j
  BY MemCheckAssumption DEF Spot, IsInjective

(* There are no more nodes on a list than there are nodes. *)
LEMMA ChainFits ==
  ASSUME NEW c \in Seq(Node), IsInjective(c)
  PROVE  Cardinality(Node) \in Nat /\ Len(c) <= Cardinality(Node)
  <1>1. c \in Injection(1 .. Len(c), Node)
    BY DEF Injection
  <1>2. Cardinality(1 .. Len(c)) = Len(c)
    <2>1. 1 \in Int /\ Len(c) \in Int /\ Len(c) >= 0
      OBVIOUS
    <2>2. Cardinality(1 .. Len(c)) = IF 1 > Len(c) THEN 0 ELSE Len(c) - 1 + 1
      BY <2>1, FS_Interval
    <2> QED BY <2>1, <2>2
  <1>3. Cardinality(1 .. Len(c)) <= Cardinality(Node)
    BY <1>1, FS_Injection, MemCheckAssumption
  <1> QED BY <1>2, <1>3, FS_CardinalityType, MemCheckAssumption

(* A walk along pointers that run through c comes by the spots of c. *)
LEMMA FollowIs ==
  ASSUME NEW map \in [Cell -> Cell], NEW c \in Seq(Node), IsInjective(c), Ahead(map, c)
  PROVE  Follow(map) = [k \in 0 .. Cardinality(Node) |-> Spot(c, k + 1)]
  <1> DEFINE N == Cardinality(Node)
             Step(at) == [k \in 0 .. N |->
               IF k = 0 THEN map[head_]
               ELSE IF at[k - 1] = head_ THEN head_ ELSE map[at[k - 1]]]
             way == [k \in 0 .. N |-> Spot(c, k + 1)]
  <1>0. N \in Nat /\ Len(c) <= N
    BY ChainFits
  <1>1. way = Step(way)
    <2> SUFFICES ASSUME NEW k \in 0 .. N
                 PROVE  Spot(c, k + 1) = Step(way)[k]
      OBVIOUS
    <2> HIDE DEF N
    <2>1. CASE k = 0
      BY <2>1, SpotFacts DEF Ahead
    <2>2. CASE k # 0
      <3>1. k - 1 \in 0 .. N /\ way[k - 1] = Spot(c, k)
        BY <2>2, <1>0
      <3>2. CASE k <= Len(c)
        <4>1. k \in 1 .. Len(c)
          BY <2>2, <3>2, <1>0
        <4>2. Spot(c, k) # head_
          BY <4>1, SpotFacts
        <4>3. map[Spot(c, k)] = Spot(c, k + 1)
          BY <4>1 DEF Ahead
        <4> HIDE DEF way
        <4> QED BY <2>2, <3>1, <4>2, <4>3
      <3>3. CASE k > Len(c)
        BY <2>2, <3>1, <3>3 DEF Spot
      <3> QED BY <3>2, <3>3
    <2> QED BY <2>1, <2>2
  <1>2. Follow(map) = CHOOSE at : at = Step(at)
    BY DEF Follow
  <1>3. Follow(map) = Step(Follow(map))
    <2> HIDE DEF Step, way
    <2> QED BY <1>1, <1>2
  <1> DEFINE odd == {k \in 0 .. N : Follow(map)[k] # way[k]}
  <1>4. odd = {}
    <2> SUFFICES ASSUME odd # {} PROVE FALSE
      OBVIOUS
    <2>1. PICK k \in odd : \A j \in odd : k <= j
      <3> HIDE DEF odd
      <3>1. odd \in SUBSET Nat
        BY DEF odd
      <3> QED BY <3>1, LeastIndex
    <2>2. k \in 0 .. N /\ Follow(map)[k] # way[k]
      BY <2>1
    <2>3. \A j \in 0 .. N : j < k => Follow(map)[j] = way[j]
      BY <2>1, <2>2
    <2> HIDE DEF way, odd, N
    <2>4. Step(Follow(map))[k] = Step(way)[k]
      <3>1. CASE k = 0
        BY <3>1, <2>2
      <3>2. CASE k # 0
        BY <3>2, <2>2, <2>3, <1>0
      <3> QED BY <3>1, <3>2
    <2> QED BY <2>2, <2>4, <1>1, <1>3
  <1>5. Follow(map) = [k \in 0 .. N |-> Follow(map)[k]]
    <2>1. Step(Follow(map)) = [k \in 0 .. N |-> Step(Follow(map))[k]]
      OBVIOUS
    <2> HIDE DEF Step
    <2> QED BY <2>1, <1>3
  <1> QED BY <1>4, <1>5

(* The nodes reached are those of c. *)
LEMMA ChainIs ==
  ASSUME NEW map \in [Cell -> Cell], NEW c \in Seq(Node), IsInjective(c), Ahead(map, c)
  PROVE  /\ ChainOf(map) = c
         /\ Follow(map)[Cardinality(Node)] = head_
  <1> DEFINE N == Cardinality(Node)
             Reached == {i \in 1 .. N : Follow(map)[i - 1] # head_}
  <1>0. N \in Nat /\ Len(c) <= N
    BY ChainFits
  <1>1. \A k \in 1 .. N : Follow(map)[k - 1] = Spot(c, k)
    BY FollowIs, <1>0
  <1>2. Reached = 1 .. Len(c)
    BY <1>0, <1>1, SpotFacts, MemCheckAssumption DEF Spot
  <1>3. ChainOf(map) = [k \in Reached |-> Follow(map)[k - 1]]
    BY DEF ChainOf
  <1>4. ChainOf(map) = [k \in 1 .. Len(c) |-> c[k]]
    BY <1>0, <1>1, <1>2, <1>3, SpotFacts
  <1>5. Follow(map)[N] = head_
    BY <1>0, FollowIs DEF Spot
  <1> QED BY <1>4, <1>5

(* What is in a sequence stands somewhere in it. *)
LEMMA RangeFacts ==
  ASSUME NEW S, NEW s \in Seq(S)
  PROVE  \A x : x \in Range(s) <=> \E i \in 1 .. Len(s) : s[i] = x
  BY DEF Range

(* What is left of a sequence without its k-th. *)
LEMMA RemoveAtFacts ==
  ASSUME NEW S, NEW s \in Seq(S), NEW k \in 1 .. Len(s)
  PROVE  /\ RemoveAt(s, k) \in Seq(S) /\ Len(RemoveAt(s, k)) = Len(s) - 1
         /\ \A i \in 1 .. Len(s) - 1 : RemoveAt(s, k)[i] = IF i < k THEN s[i] ELSE s[i + 1]
  <1> DEFINE lo == SubSeq(s, 1, k - 1)
             hi == SubSeq(s, k + 1, Len(s))
  <1>1. /\ lo \in Seq(S) /\ Len(lo) = k - 1
        /\ \A i \in 1 .. k - 1 : lo[i] = s[i]
    <2>1. \A i \in 1 .. k - 1 : s[i] \in S
      OBVIOUS
    <2> QED BY <2>1, SubSeqProperties
  <1>2. /\ hi \in Seq(S) /\ Len(hi) = Len(s) - k
        /\ \A i \in 1 .. Len(s) - k : hi[i] = s[k + i]
    <2>1. \A i \in k + 1 .. Len(s) : s[i] \in S
      OBVIOUS
    <2> QED BY <2>1, SubSeqProperties
  <1>3. RemoveAt(s, k) = lo \o hi
    BY DEF RemoveAt
  <1> HIDE DEF lo, hi
  <1>4. /\ lo \o hi \in Seq(S) /\ Len(lo \o hi) = Len(lo) + Len(hi)
        /\ \A i \in 1 .. Len(lo) + Len(hi) :
             (lo \o hi)[i] = IF i <= Len(lo) THEN lo[i] ELSE hi[i - Len(lo)]
    BY <1>1, <1>2, ConcatProperties
  <1>5. ASSUME NEW i \in 1 .. Len(s) - 1
        PROVE  (lo \o hi)[i] = IF i < k THEN s[i] ELSE s[i + 1]
    <2>0. i < k \/ i >= k
      OBVIOUS
    <2>1. CASE i < k
      BY <2>1, <1>1, <1>2, <1>4
    <2>2. CASE i >= k
      <3>1. i - (k - 1) \in 1 .. Len(s) - k /\ ~ i <= Len(lo)
        BY <2>2, <1>1
      <3>2. (lo \o hi)[i] = hi[i - (k - 1)]
        BY <3>1, <1>1, <1>2, <1>4
      <3>3. hi[i - (k - 1)] = s[k + (i - (k - 1))]
        BY <3>1, <1>2
      <3> QED BY <2>2, <3>2, <3>3
    <2> QED BY <2>0, <2>1, <2>2, Zenon
  <1> QED BY <1>1, <1>2, <1>3, <1>4, <1>5

(* The way along a list from which the k-th node is taken. *)
LEMMA Without ==
  ASSUME NEW c \in Seq(Node), IsInjective(c), NEW k \in 1 .. Len(c), NEW d,
         d = RemoveAt(c, k)
  PROVE  /\ d \in Seq(Node) /\ IsInjective(d) /\ Len(d) = Len(c) - 1
         /\ Range(d) = Range(c) \ {c[k]}
         /\ \A i \in 0 .. Len(c) : Spot(d, i) = IF i < k THEN Spot(c, i) ELSE Spot(c, i + 1)
  <1>1. /\ d \in Seq(Node) /\ Len(d) = Len(c) - 1
        /\ \A i \in 1 .. Len(c) - 1 : d[i] = IF i < k THEN c[i] ELSE c[i + 1]
    BY RemoveAtFacts
  <1>2. \A a, b \in 1 .. Len(c) : c[a] = c[b] => a = b
    BY DEF IsInjective
  <1>3. \A a, b \in 1 .. Len(d) : d[a] = d[b] => a = b
    BY <1>1, <1>2
  <1>4. IsInjective(d)
    BY <1>1, <1>3 DEF IsInjective
  <1>5. Range(d) = Range(c) \ {c[k]}
    <2>1. \A x : x \in Range(d) <=> \E i \in 1 .. Len(d) : d[i] = x
      BY <1>1, RangeFacts
    <2>2. \A x : x \in Range(c) <=> \E i \in 1 .. Len(c) : c[i] = x
      BY RangeFacts
    <2>3. ASSUME NEW i \in 1 .. Len(d)
          PROVE  d[i] \in Range(c) \ {c[k]}
      BY <1>1, <1>2, <2>2
    <2>4. ASSUME NEW i \in 1 .. Len(c), c[i] # c[k]
          PROVE  c[i] \in Range(d)
      <3>1. CASE i < k
        BY <3>1, <1>1, <2>1
      <3>2. CASE i > k
        <4>1. i - 1 \in 1 .. Len(d) /\ d[i - 1] = c[i]
          BY <3>2, <1>1
        <4> QED BY <4>1, <2>1
      <3> QED BY <2>4, <3>1, <3>2
    <2> QED BY <2>1, <2>2, <2>3, <2>4
  <1>6. \A i \in 0 .. Len(c) : Spot(d, i) = IF i < k THEN Spot(c, i) ELSE Spot(c, i + 1)
    BY <1>1 DEF Spot
  <1> QED BY <1>1, <1>4, <1>5, <1>6

(* The way along a list with a node put in front. *)
Put(n, s) == <<n>> \o s

LEMMA PutFacts ==
  ASSUME NEW S, NEW s \in Seq(S), NEW n \in S
  PROVE  /\ Put(n, s) \in Seq(S) /\ Len(Put(n, s)) = Len(s) + 1 /\ Put(n, s)[1] = n
         /\ \A i \in 2 .. Len(s) + 1 : Put(n, s)[i] = s[i - 1]
  BY ConcatProperties DEF Put

LEMMA InFront ==
  ASSUME NEW c \in Seq(Node), IsInjective(c), NEW n \in Node \ Range(c)
  PROVE  LET d == Put(n, c)
         IN  /\ d \in Seq(Node) /\ IsInjective(d) /\ Len(d) = Len(c) + 1
             /\ Range(d) = Range(c) \cup {n} /\ d[1] = n
             /\ Spot(d, 0) = head_ /\ Spot(d, 1) = n
             /\ \A i \in 2 .. Len(c) + 2 : Spot(d, i) = Spot(c, i - 1)
  <1> DEFINE d == Put(n, c)
  <1>1. /\ d \in Seq(Node) /\ Len(d) = Len(c) + 1 /\ d[1] = n
        /\ \A i \in 2 .. Len(c) + 1 : d[i] = c[i - 1]
    BY PutFacts
  <1> HIDE DEF d
  <1>2. \A a, b \in 1 .. Len(c) : c[a] = c[b] => a = b
    BY DEF IsInjective
  <1>3. \A a \in 1 .. Len(c) : c[a] # n
    BY DEF Range
  <1>4. IsInjective(d)
    <2>1. \A a \in 2 .. Len(d) : d[a] = c[a - 1] /\ a - 1 \in 1 .. Len(c)
      BY <1>1
    <2>2. ASSUME NEW a \in 1 .. Len(d), NEW b \in 1 .. Len(d), d[a] = d[b]
          PROVE  a = b
      <3>1. CASE a = 1 \/ b = 1
        BY <3>1, <2>1, <2>2, <1>1, <1>3
      <3>2. CASE a # 1 /\ b # 1
        <4>1. a \in 2 .. Len(d) /\ b \in 2 .. Len(d)
          BY <3>2, <1>1
        <4>2. a - 1 = b - 1
          BY <4>1, <2>1, <2>2, <1>2
        <4> QED BY <4>1, <4>2
      <3> QED BY <3>1, <3>2
    <2> QED BY <2>2, <1>1 DEF IsInjective
  <1>5. Range(d) = Range(c) \cup {n}
    <2>1. \A x : x \in Range(d) <=> \E i \in 1 .. Len(d) : d[i] = x
      BY <1>1, RangeFacts
    <2>2. \A x : x \in Range(c) <=> \E i \in 1 .. Len(c) : c[i] = x
      BY RangeFacts
    <2>3. ASSUME NEW i \in 1 .. Len(d)
          PROVE  d[i] \in Range(c) \cup {n}
      <3>1. CASE i = 1
        BY <3>1, <1>1
      <3>2. CASE i > 1
        <4>1. d[i] = c[i - 1] /\ i - 1 \in 1 .. Len(c)
          BY <3>2, <1>1
        <4> QED BY <4>1, <2>2
      <3> QED BY <3>1, <3>2
    <2>4. ASSUME NEW i \in 1 .. Len(c)
          PROVE  c[i] \in Range(d)
      <3>1. i + 1 \in 1 .. Len(d) /\ d[i + 1] = c[i]
        BY <1>1
      <3> QED BY <3>1, <2>1
    <2>5. n \in Range(d)
      BY <1>1, <2>1
    <2> QED BY <2>1, <2>2, <2>3, <2>4, <2>5
  <1>6. /\ Spot(d, 0) = head_ /\ Spot(d, 1) = n
        /\ \A i \in 2 .. Len(c) + 2 : Spot(d, i) = Spot(c, i - 1)
    BY <1>1 DEF Spot
  <1> QED BY <1>1, <1>4, <1>5, <1>6 DEF d

(* The four assignments of pointers that change a list: head_ or another   *)
(* cell is made to lead on to, or past, a node; the cell behind is made to *)
(* lead back to it, or past it.                                            *)
LEMMA AheadOfFront ==
  ASSUME NEW map \in [Cell -> Cell], NEW c \in Seq(Node), IsInjective(c), Ahead(map, c),
         NEW n \in Node \ Range(c), map[n] = Spot(c, 1)
  PROVE  Ahead([map EXCEPT ![head_] = n], Put(n, c))
  <1> DEFINE d == Put(n, c)
             m == [map EXCEPT ![head_] = n]
  <1>1. /\ d \in Seq(Node) /\ Len(d) = Len(c) + 1
        /\ Spot(d, 0) = head_ /\ Spot(d, 1) = n
        /\ \A i \in 2 .. Len(c) + 2 : Spot(d, i) = Spot(c, i - 1)
    BY InFront
  <1> HIDE DEF d
  <1> SUFFICES ASSUME NEW i \in 0 .. Len(d) PROVE m[Spot(d, i)] = Spot(d, i + 1)
    BY DEF Ahead, d
  <1>2. CASE i = 0
    BY <1>1, <1>2 DEF Cell
  <1>3. CASE i = 1
    BY <1>1, <1>3, MemCheckAssumption DEF Cell
  <1>4. CASE i > 1
    <2>1. i - 1 \in 1 .. Len(c) /\ Spot(d, i) = Spot(c, i - 1) /\ Spot(d, i + 1) = Spot(c, i)
      BY <1>1, <1>4
    <2>2. map[Spot(c, i - 1)] = Spot(c, i)
      BY <2>1 DEF Ahead
    <2>3. Spot(c, i - 1) # head_
      <3>1. Spot(c, i - 1) = c[i - 1] /\ c[i - 1] \in Node
        BY <2>1 DEF Spot
      <3> QED BY <3>1, MemCheckAssumption
    <2> QED BY <2>1, <2>2, <2>3
  <1> QED BY <1>1, <1>2, <1>3, <1>4

LEMMA AheadPast ==
  ASSUME NEW map \in [Cell -> Cell], NEW c \in Seq(Node), IsInjective(c), Ahead(map, c),
         NEW k \in 1 .. Len(c)
  PROVE  Ahead([map EXCEPT ![Spot(c, k - 1)] = Spot(c, k + 1)], RemoveAt(c, k))
  <1> DEFINE d == RemoveAt(c, k)
             m == [map EXCEPT ![Spot(c, k - 1)] = Spot(c, k + 1)]
  <1>1. /\ d \in Seq(Node) /\ Len(d) = Len(c) - 1
        /\ \A i \in 0 .. Len(c) : Spot(d, i) = IF i < k THEN Spot(c, i) ELSE Spot(c, i + 1)
    BY Without
  <1> HIDE DEF d
  <1> SUFFICES ASSUME NEW i \in 0 .. Len(d) PROVE m[Spot(d, i)] = Spot(d, i + 1)
    BY DEF Ahead, d
  <1>2. \A j \in 0 .. Len(c) : map[Spot(c, j)] = Spot(c, j + 1) /\ Spot(c, j) \in Cell
    BY SpotFacts DEF Ahead
  <1>3. \A j \in 0 .. Len(c) : j # k - 1 => Spot(c, j) # Spot(c, k - 1)
    BY SpotsDiffer
  <1>4. CASE i < k - 1
    BY <1>1, <1>2, <1>3, <1>4
  <1>5. CASE i = k - 1
    <2>1. Spot(d, i) = Spot(c, k - 1) /\ Spot(d, i + 1) = Spot(c, k + 1)
      BY <1>1, <1>5
    <2> QED BY <2>1, <1>2, <1>5
  <1>6. CASE i >= k
    <2>1. Spot(d, i) = Spot(c, i + 1) /\ Spot(d, i + 1) = Spot(c, i + 2)
      BY <1>1, <1>6
    <2>2. i + 1 \in 0 .. Len(c) /\ i + 1 # k - 1
      BY <1>1, <1>6
    <2> QED BY <2>1, <2>2, <1>2, <1>3
  <1> QED BY <1>4, <1>5, <1>6

LEMMA BackToNode ==
  ASSUME NEW map \in [Cell -> Cell], NEW c \in Seq(Node), IsInjective(c), Back(map, c),
         NEW k \in 1 .. Len(c) + 1, NEW n \in Node
  PROVE  HalfBack([map EXCEPT ![Spot(c, k)] = n], c, k, n)
  <1>1. \A i \in 1 .. Len(c) + 1 : Spot(c, i) \in Cell /\ (Spot(c, i) = Spot(c, k) => i = k)
    BY SpotFacts, SpotsDiffer
  <1> QED BY <1>1 DEF Back, HalfBack

LEMMA BackPast ==
  ASSUME NEW map \in [Cell -> Cell], NEW c \in Seq(Node), IsInjective(c),
         NEW k \in 1 .. Len(c) + 1, NEW n \in Node, HalfBack(map, c, k, n)
  PROVE  Back([map EXCEPT ![Spot(c, k)] = Spot(c, k - 1)], c)
  <1>1. \A i \in 1 .. Len(c) + 1 : Spot(c, i) \in Cell /\ (Spot(c, i) = Spot(c, k) => i = k)
    BY SpotFacts, SpotsDiffer
  <1> QED BY <1>1 DEF Back, HalfBack

(* What the prev pointers are of the list with the node, and without it. *)
LEMMA BackOfFront ==
  ASSUME NEW map \in [Cell -> Cell], NEW c \in Seq(Node), IsInjective(c),
         NEW n \in Node \ Range(c), HalfBack(map, c, 1, n), map[n] = head_
  PROVE  Back(map, Put(n, c))
  <1> DEFINE d == Put(n, c)
  <1>1. /\ d \in Seq(Node) /\ Len(d) = Len(c) + 1
        /\ Spot(d, 0) = head_ /\ Spot(d, 1) = n
        /\ \A i \in 2 .. Len(c) + 2 : Spot(d, i) = Spot(c, i - 1)
    BY InFront
  <1> HIDE DEF d
  <1> SUFFICES ASSUME NEW i \in 1 .. Len(d) + 1 PROVE map[Spot(d, i)] = Spot(d, i - 1)
    BY DEF Back, d
  <1>2. CASE i = 1
    BY <1>1, <1>2
  <1>3. CASE i = 2
    BY <1>1, <1>3 DEF HalfBack
  <1>4. CASE i > 2
    <2>1. i - 1 \in 2 .. Len(c) + 1 /\ Spot(d, i) = Spot(c, i - 1)
          /\ Spot(d, i - 1) = Spot(c, i - 2)
      BY <1>1, <1>4
    <2>2. map[Spot(c, i - 1)] = Spot(c, i - 2)
      BY <2>1 DEF HalfBack
    <2> QED BY <2>1, <2>2
  <1> QED BY <1>1, <1>2, <1>3, <1>4

LEMMA BackWithout ==
  ASSUME NEW map \in [Cell -> Cell], NEW c \in Seq(Node), IsInjective(c), Back(map, c),
         NEW k \in 1 .. Len(c)
  PROVE  HalfBack(map, RemoveAt(c, k), k, c[k])
  <1> DEFINE d == RemoveAt(c, k)
  <1>1. /\ d \in Seq(Node) /\ Len(d) = Len(c) - 1
        /\ \A i \in 0 .. Len(c) : Spot(d, i) = IF i < k THEN Spot(c, i) ELSE Spot(c, i + 1)
    BY Without
  <1> HIDE DEF d
  <1> SUFFICES ASSUME NEW i \in 1 .. Len(d) + 1
               PROVE  map[Spot(d, i)] = IF i = k THEN c[k] ELSE Spot(d, i - 1)
    BY DEF HalfBack, d
  <1>2. \A j \in 1 .. Len(c) + 1 : map[Spot(c, j)] = Spot(c, j - 1)
    BY DEF Back
  <1>3. Spot(c, k) = c[k]
    BY SpotFacts
  <1>4. CASE i < k
    <2>1. Spot(d, i) = Spot(c, i) /\ Spot(d, i - 1) = Spot(c, i - 1)
      BY <1>1, <1>4
    <2> QED BY <2>1, <1>2, <1>4
  <1>5. CASE i >= k
    <2>1. Spot(d, i) = Spot(c, i + 1) /\ i + 1 \in 1 .. Len(c) + 1
      BY <1>1, <1>5
    <2>2. map[Spot(d, i)] = Spot(c, i)
      BY <2>1, <1>2
    <2>3. i # k => Spot(d, i - 1) = Spot(c, i)
      BY <1>1, <1>5
    <2> QED BY <2>2, <2>3, <1>3
  <1> QED BY <1>4, <1>5

(* A node that is not on the list may be changed without it. *)
LEMMA Elsewhere ==
  ASSUME NEW map \in [Cell -> Cell], NEW c \in Seq(Node), NEW n \in Node \ Range(c), NEW v
  PROVE  /\ Ahead(map, c) => Ahead([map EXCEPT ![n] = v], c)
         /\ Back(map, c) => Back([map EXCEPT ![n] = v], c)
         /\ \A k \in Int, m \in Node :
              HalfBack(map, c, k, m) => HalfBack([map EXCEPT ![n] = v], c, k, m)
  <1>1. \A i \in Int : [map EXCEPT ![n] = v][Spot(c, i)] = map[Spot(c, i)]
    BY SpotFacts, MemCheckAssumption DEF Cell
  <1> QED BY <1>1 DEF Ahead, Back, HalfBack

-----------------------------------------------------------------------------
(* The list *)

(* While the pointers along it stay, so does the list. *)
LEMMA SameChain ==
  ASSUME ChainIsList, next' \in [Cell -> Cell], Ahead(next', Chain)
  PROVE  Chain' = Chain /\ ChainIsList'
  <1>1. Chain' = Chain
    BY ChainIs DEF ChainIsList, Chain
  <1> QED BY <1>1 DEF ChainIsList

LEMMA ListSame ==
  ASSUME UNCHANGED <<next, info>>
  PROVE  Chain' = Chain /\ Recorded' = Recorded
  BY DEF Chain, Recorded

LEMMA ListInvSame ==
  ASSUME ListInv, UNCHANGED <<list, pc, node>>
  PROVE  ListInv'
  BY ListSame DEF ListInv, ChainIsList, PrevFollows, NodesAreKnown, NewestGoesFirst,
     SizeFollows, Adding, HalfLinked

LEMMA NewStep ==
  ASSUME MemTypeOK, ListInv, NEW p \in Ptr, New(p)
  PROVE  ListInv'
  <1>1. CASE UNCHANGED <<list, pc, node>>
    BY <1>1, ListInvSame
  <1>2. ASSUME NEW n \in Node \ allocated,
               allocated' = allocated \cup {n},
               next' = [next EXCEPT ![n] = n], prev' = [prev EXCEPT ![n] = n],
               node' = n, pc' = "add_prev", size' = size, pc = "idle"
        PROVE  ListInv'
    <2>1. /\ Chain \in Seq(Node) /\ Ahead(next, Chain) /\ Back(prev, Chain)
          /\ allocated = Range(Chain) /\ size = Len(Chain)
      BY <1>2 DEF ListInv, ChainIsList, PrevFollows, NodesAreKnown, Adding, SizeFollows
    <2>2. n \in Node \ Range(Chain) /\ n \in Cell
      BY <1>2, <2>1 DEF Cell
    <2>3. next \in [Cell -> Cell] /\ prev \in [Cell -> Cell] /\ next' \in [Cell -> Cell]
      BY <1>2, <2>2 DEF MemTypeOK
    <2>4. Ahead(next', Chain) /\ Back(prev', Chain)
      BY <1>2, <2>1, <2>2, <2>3, Elsewhere
    <2>5. Chain' = Chain /\ ChainIsList'
      BY <2>3, <2>4, SameChain DEF ListInv
    <2>6. PrevFollows'
      BY <1>2, <2>4, <2>5 DEF PrevFollows
    <2>7. NodesAreKnown'
      BY <1>2, <2>1, <2>2, <2>5 DEF NodesAreKnown, Adding
    <2>8. NewestGoesFirst' /\ SizeFollows'
      BY <1>2, <2>1, <2>5 DEF NewestGoesFirst, SizeFollows
    <2> QED BY <2>5, <2>6, <2>7, <2>8 DEF ListInv
  <1> QED BY <1>1, <1>2 DEF New

(* What holds while a node is on its way to the list or from it. *)
LEMMA OnItsWay ==
  ASSUME MemTypeOK, ListInv, Adding \/ pc \in {"del_prev", "del_free"}
  PROVE  /\ next \in [Cell -> Cell] /\ prev \in [Cell -> Cell]
         /\ Chain \in Seq(Node) /\ IsInjective(Chain) /\ Ahead(next, Chain)
         /\ node \in Node \ Range(Chain) /\ node \in Cell
         /\ allocated = Range(Chain) \cup {node}
         /\ next[head_] = Spot(Chain, 1) /\ Len(Chain) \in Nat
         /\ \A i \in Int : Spot(Chain, i) \in Cell /\ Spot(Chain, i) # node
  <1>1. /\ next \in [Cell -> Cell] /\ prev \in [Cell -> Cell]
        /\ Chain \in Seq(Node) /\ IsInjective(Chain) /\ Ahead(next, Chain)
        /\ node \in Node \ Range(Chain) /\ allocated = Range(Chain) \cup {node}
    BY DEF MemTypeOK, ListInv, ChainIsList, NodesAreKnown
  <1>2. next[head_] = Spot(Chain, 1)
    BY <1>1, SpotFacts DEF Ahead
  <1>3. \A i \in Int : Spot(Chain, i) \in Cell /\ Spot(Chain, i) # node
    BY <1>1, SpotFacts, MemCheckAssumption
  <1> QED BY <1>1, <1>2, <1>3 DEF Cell

(* The node is made to lead to its neighbours, the first of which is made  *)
(* to lead back to it: the list is as it was.                              *)
LEMMA AddPrevStep ==
  ASSUME MemTypeOK, ListInv, UNCHANGED <<info, allocated, size, node>>,
         pc = "add_prev", pc' = "add_next",
         prev' = [prev EXCEPT ![node] = head_], UNCHANGED next
  PROVE  ListInv'
  <1>1. Adding /\ Back(prev, Chain) /\ size = Len(Chain)
    BY DEF ListInv, PrevFollows, SizeFollows, Adding
  <1>2. /\ next \in [Cell -> Cell] /\ prev \in [Cell -> Cell] /\ Chain \in Seq(Node)
        /\ node \in Node \ Range(Chain) /\ node \in Cell
        /\ allocated = Range(Chain) \cup {node}
    BY <1>1, OnItsWay
  <1>3. Chain' = Chain /\ ChainIsList'
    BY SameChain, <1>2 DEF ListInv, ChainIsList
  <1>4. Back(prev', Chain) /\ prev'[node] = head_
    BY <1>1, <1>2, Elsewhere
  <1> QED BY <1>1, <1>2, <1>3, <1>4
          DEF ListInv, PrevFollows, NodesAreKnown, NewestGoesFirst, SizeFollows, Adding

LEMMA AddNextStep ==
  ASSUME MemTypeOK, ListInv, UNCHANGED <<info, allocated, size, node>>,
         pc = "add_next", pc' = "add_back",
         next' = [next EXCEPT ![node] = next[head_]], UNCHANGED prev
  PROVE  ListInv'
  <1>1. Adding /\ Back(prev, Chain) /\ size = Len(Chain) /\ prev[node] = head_
    BY DEF ListInv, PrevFollows, SizeFollows, Adding
  <1>2. /\ next \in [Cell -> Cell] /\ Chain \in Seq(Node) /\ Ahead(next, Chain)
        /\ node \in Node \ Range(Chain) /\ node \in Cell
        /\ allocated = Range(Chain) \cup {node}
        /\ next[head_] = Spot(Chain, 1) /\ head_ \in Cell
    BY <1>1, OnItsWay DEF Cell
  <1>3. next' \in [Cell -> Cell] /\ next'[node] = Spot(Chain, 1)
    BY <1>2
  <1>4. Ahead(next', Chain)
    BY <1>2, Elsewhere
  <1>5. Chain' = Chain /\ ChainIsList'
    BY SameChain, <1>3, <1>4 DEF ListInv
  <1> QED BY <1>1, <1>2, <1>3, <1>5
          DEF ListInv, PrevFollows, NodesAreKnown, NewestGoesFirst, SizeFollows, Adding

LEMMA AddBackStep ==
  ASSUME MemTypeOK, ListInv, UNCHANGED <<info, allocated, size, node>>,
         pc = "add_back", pc' = "add_head",
         prev' = [prev EXCEPT ![next[node]] = node], UNCHANGED next
  PROVE  ListInv'
  <1>1. /\ Adding /\ Back(prev, Chain) /\ size = Len(Chain)
        /\ prev[node] = head_ /\ next[node] = Spot(Chain, 1)
    BY DEF ListInv, PrevFollows, SizeFollows, Adding
  <1>2. /\ next \in [Cell -> Cell] /\ prev \in [Cell -> Cell]
        /\ Chain \in Seq(Node) /\ IsInjective(Chain) /\ Len(Chain) \in Nat
        /\ node \in Node \ Range(Chain) /\ node \in Cell
        /\ allocated = Range(Chain) \cup {node}
        /\ Spot(Chain, 1) # node
    BY <1>1, OnItsWay
  <1>3. Chain' = Chain /\ ChainIsList'
    BY SameChain, <1>2 DEF ListInv, ChainIsList
  <1>4. HalfBack(prev', Chain, 1, node)
    <2>1. 1 \in 1 .. Len(Chain) + 1
      BY <1>2
    <2> QED BY <1>1, <1>2, <2>1, BackToNode
  <1>5. prev'[node] = Spot(Chain, 0)
    BY <1>1, <1>2, SpotFacts
  <1>6. HalfLinked(node, Chain, 1)'
    BY <1>1, <1>3, <1>4, <1>5 DEF HalfLinked
  <1> QED BY <1>1, <1>2, <1>3, <1>6
          DEF ListInv, PrevFollows, NodesAreKnown, NewestGoesFirst, SizeFollows, Adding

(* head_ is made to lead on to the node, which is on the list with that. *)
LEMMA AddHeadChain ==
  ASSUME MemTypeOK, ListInv, pc = "add_head",
         next' = [next EXCEPT ![head_] = node]
  PROVE  /\ Chain' = Put(node, Chain) /\ ChainIsList'
         /\ Len(Chain') = Len(Chain) + 1 /\ Len(Chain) \in Nat
         /\ Range(Chain') = Range(Chain) \cup {node} /\ Chain'[1] = node
  <1>1. Adding /\ next[node] = Spot(Chain, 1)
    BY DEF ListInv, PrevFollows, HalfLinked, Adding
  <1>2. /\ next \in [Cell -> Cell]
        /\ Chain \in Seq(Node) /\ IsInjective(Chain) /\ Ahead(next, Chain)
        /\ node \in Node \ Range(Chain) /\ node \in Cell /\ Len(Chain) \in Nat
    BY <1>1, OnItsWay
  <1>3. next' \in [Cell -> Cell]
    BY <1>2
  <1>4. /\ Put(node, Chain) \in Seq(Node) /\ IsInjective(Put(node, Chain))
        /\ Len(Put(node, Chain)) = Len(Chain) + 1 /\ Put(node, Chain)[1] = node
        /\ Range(Put(node, Chain)) = Range(Chain) \cup {node}
    BY <1>2, InFront
  <1>5. Ahead(next', Put(node, Chain))
    BY <1>1, <1>2, AheadOfFront
  <1>6. Chain' = Put(node, Chain)
    BY <1>3, <1>4, <1>5, ChainIs DEF Chain
  <1> QED BY <1>2, <1>4, <1>5, <1>6 DEF ChainIsList

LEMMA AddHeadStep ==
  ASSUME MemTypeOK, ListInv, UNCHANGED <<info, allocated, size, node>>,
         pc = "add_head", pc' = "add_size",
         next' = [next EXCEPT ![head_] = node], UNCHANGED prev
  PROVE  ListInv'
  <1>1. /\ Adding /\ size = Len(Chain) /\ prev[node] = Spot(Chain, 0)
        /\ HalfBack(prev, Chain, 1, node)
    BY DEF ListInv, PrevFollows, SizeFollows, Adding, HalfLinked
  <1>2. /\ prev \in [Cell -> Cell] /\ Chain \in Seq(Node) /\ IsInjective(Chain)
        /\ node \in Node \ Range(Chain) /\ allocated = Range(Chain) \cup {node}
    BY <1>1, OnItsWay
  <1>3. /\ Chain' = Put(node, Chain) /\ ChainIsList'
        /\ Len(Chain') = Len(Chain) + 1 /\ Len(Chain) \in Nat
        /\ Range(Chain') = Range(Chain) \cup {node} /\ Chain'[1] = node
    BY AddHeadChain
  <1>4. Back(prev', Chain')
    BY <1>1, <1>2, <1>3, BackOfFront, SpotFacts
  <1>5. Chain' # << >>
    BY <1>3
  <1> QED BY <1>1, <1>2, <1>3, <1>4, <1>5
          DEF ListInv, PrevFollows, NodesAreKnown, NewestGoesFirst, SizeFollows, Adding

LEMMA AddStep ==
  ASSUME MemTypeOK, ListInv, Add
  PROVE  ListInv'
  <1>1. CASE ListAdd /\ UNCHANGED <<info, allocated, size, node, user, walk>>
    BY <1>1, AddPrevStep, AddNextStep, AddBackStep, AddHeadStep DEF ListAdd
  <1>2. CASE /\ At("add_size") /\ Goto("idle")
             /\ size' = size + 1 /\ UNCHANGED <<links, info, allocated>>
    <2>1. /\ Back(prev, Chain) /\ size = Len(Chain) - 1 /\ allocated = Range(Chain)
          /\ ChainIsList /\ Len(Chain) \in Nat
      BY <1>2 DEF ListInv, PrevFollows, SizeFollows, NodesAreKnown, Adding, ChainIsList
    <2>2. Chain' = Chain
      BY <1>2, ListSame
    <2> QED BY <1>2, <2>1, <2>2 DEF ListInv, ChainIsList, PrevFollows, NodesAreKnown,
            NewestGoesFirst, SizeFollows, Adding
  <1> QED BY <1>1, <1>2 DEF Add

(* The first of the nodes found is the newest with the address. *)
LEMMA DeleteStep ==
  ASSUME MemTypeOK, ListInv, NEW p \in Ptr, Delete(p)
  PROVE  ListInv'
  <1>1. CASE UNCHANGED <<list, pc, node>>
    BY <1>1, ListInvSame
  <1>2. ASSUME NEW first \in DOMAIN Chain, Recorded[first] = p,
               \A k \in DOMAIN Chain : Recorded[k] = p => first <= k,
               UNCHANGED list, node' = Chain[first], pc' = "del_next", pc = "idle"
        PROVE  ListInv'
    <2>1. Chain' = Chain
      BY <1>2, ListSame
    <2>2. /\ ChainIsList /\ Back(prev, Chain) /\ allocated = Range(Chain)
          /\ size = Len(Chain) /\ Chain \in Seq(Node)
      BY <1>2 DEF ListInv, ChainIsList, PrevFollows, NodesAreKnown, SizeFollows, Adding
    <2>3. first \in 1 .. Len(Chain) /\ first \in Nat
      BY <2>2
    <2>4. \A j \in 1 .. first - 1 : info[Chain[j]] # info[Chain[first]]
      <3> SUFFICES ASSUME NEW j \in 1 .. first - 1 PROVE info[Chain[j]] # p
        BY <1>2, <2>2 DEF Recorded
      <3>1. j \in DOMAIN Chain /\ ~ first <= j
        BY <2>2, <2>3
      <3> QED BY <1>2, <3>1 DEF Recorded
    <2> QED BY <1>2, <2>1, <2>2, <2>3, <2>4 DEF ListInv, ChainIsList, PrevFollows,
            NodesAreKnown, NewestGoesFirst, SizeFollows, Adding
  <1> QED BY <1>1, <1>2 DEF Delete

(* The node head_ leads on to is the first, unless there is none. *)
LEMMA FirstNode ==
  ASSUME ChainIsList, next[head_] # head_
  PROVE  1 \in 1 .. Len(Chain) /\ next[head_] = Chain[1] /\ Chain[1] \in Node
  <1>1. Chain \in Seq(Node) /\ next[head_] = Spot(Chain, 1)
    BY SpotFacts DEF ChainIsList, Ahead
  <1>2. 1 \in 1 .. Len(Chain)
    BY <1>1 DEF Spot
  <1> QED BY <1>1, <1>2, SpotFacts

LEMMA ClearStep ==
  ASSUME MemTypeOK, ListInv, Clear
  PROVE  ListInv'
  <1>1. CASE UNCHANGED <<list, pc, node>>
    BY <1>1, ListInvSame
  <1>2. CASE /\ pc = "idle" /\ next[head_] # head_ /\ UNCHANGED list
             /\ node' = next[head_] /\ pc' = "del_next"
    <2>1. Chain' = Chain
      BY <1>2, ListSame
    <2>2. /\ ChainIsList /\ Back(prev, Chain) /\ allocated = Range(Chain)
          /\ size = Len(Chain)
      BY <1>2 DEF ListInv, PrevFollows, NodesAreKnown, SizeFollows, Adding
    <2>3. 1 \in 1 .. Len(Chain) /\ node' = Chain[1]
      BY <1>2, <2>2, FirstNode
    <2>4. NewestGoesFirst'
      BY <1>2, <2>1, <2>3 DEF NewestGoesFirst
    <2> QED BY <1>2, <2>1, <2>2, <2>4 DEF ListInv, ChainIsList, PrevFollows,
            NodesAreKnown, SizeFollows, Adding
  <1> QED BY <1>1, <1>2 DEF Clear

(* The cell in front of the node is made to lead past it: that takes the   *)
(* node from the list.                                                     *)
LEMMA DelNextChain ==
  ASSUME MemTypeOK, ListInv, pc = "del_next",
         next' = [next EXCEPT ![prev[node]] = next[node]],
         NEW k \in 1 .. Len(Chain), Chain[k] = node
  PROVE  /\ Chain' = RemoveAt(Chain, k) /\ ChainIsList'
         /\ Len(Chain') = Len(Chain) - 1 /\ Len(Chain) \in Nat
         /\ Range(Chain') = Range(Chain) \ {node} /\ node \in Range(Chain)
         /\ next'[node] = Spot(Chain', k) /\ prev[node] = Spot(Chain', k - 1)
         /\ next' \in [Cell -> Cell]
  <1>1. /\ next \in [Cell -> Cell]
        /\ Chain \in Seq(Node) /\ IsInjective(Chain) /\ Ahead(next, Chain)
        /\ Back(prev, Chain)
    BY DEF MemTypeOK, ListInv, ChainIsList, PrevFollows
  <1>2. /\ Spot(Chain, k) = node /\ node \in Node /\ node \in Range(Chain)
        /\ Spot(Chain, k + 1) \in Cell
        /\ Spot(Chain, k - 1) \in Cell
    BY <1>1, SpotFacts
  <1>3. next[node] = Spot(Chain, k + 1) /\ prev[node] = Spot(Chain, k - 1)
    BY <1>1, <1>2 DEF Ahead, Back
  <1>4. next' = [next EXCEPT ![Spot(Chain, k - 1)] = Spot(Chain, k + 1)]
    BY <1>3
  <1> DEFINE d == RemoveAt(Chain, k)
  <1>5. /\ d \in Seq(Node) /\ IsInjective(d) /\ Len(d) = Len(Chain) - 1
        /\ Range(d) = Range(Chain) \ {node}
        /\ \A i \in 0 .. Len(Chain) :
             Spot(d, i) = IF i < k THEN Spot(Chain, i) ELSE Spot(Chain, i + 1)
    BY <1>1, Without
  <1>6. Ahead(next', d)
    <2>1. Ahead([next EXCEPT ![Spot(Chain, k - 1)] = Spot(Chain, k + 1)], RemoveAt(Chain, k))
      BY <1>1, AheadPast
    <2> QED BY <2>1, <1>4, Zenon
  <1>7. next' \in [Cell -> Cell]
    BY <1>1, <1>2, <1>4
  <1> HIDE DEF d
  <1>8. Chain' = d
    BY <1>5, <1>6, <1>7, ChainIs DEF Chain
  <1>9. next'[node] = Spot(d, k)
    <2>1. Spot(Chain, k - 1) # node
      <3>1. k \in 0 .. Len(Chain) /\ k - 1 \in 0 .. Len(Chain) /\ k # k - 1
        OBVIOUS
      <3> QED BY <3>1, <1>1, <1>2, SpotsDiffer
    <2>2. next'[node] = Spot(Chain, k + 1)
      BY <2>1, <1>1, <1>2, <1>3, <1>4 DEF Cell
    <2> QED BY <2>2, <1>1, <1>5
  <1>10. prev[node] = Spot(d, k - 1)
    <2>1. k - 1 \in 0 .. Len(Chain) /\ k - 1 < k
      OBVIOUS
    <2> QED BY <2>1, <1>3, <1>5
  <1> QED BY <1>1, <1>2, <1>5, <1>6, <1>7, <1>8, <1>9, <1>10 DEF ChainIsList, d

LEMMA DelNextStep ==
  ASSUME MemTypeOK, ListInv, UNCHANGED <<info, allocated, size, node>>,
         pc = "del_next", pc' = "del_prev",
         next' = [next EXCEPT ![prev[node]] = next[node]], UNCHANGED prev
  PROVE  ListInv'
  <1>1. /\ ChainIsList /\ Back(prev, Chain) /\ prev \in [Cell -> Cell]
        /\ Chain \in Seq(Node) /\ IsInjective(Chain)
        /\ allocated = Range(Chain) /\ size = Len(Chain)
    BY DEF MemTypeOK, ListInv, ChainIsList, PrevFollows, NodesAreKnown, SizeFollows, Adding
  <1>2. PICK k \in 1 .. Len(Chain) : Chain[k] = node
    BY DEF ListInv, NewestGoesFirst
  <1>3. /\ Chain' = RemoveAt(Chain, k) /\ ChainIsList'
        /\ Len(Chain') = Len(Chain) - 1 /\ Len(Chain) \in Nat
        /\ Range(Chain') = Range(Chain) \ {node} /\ node \in Range(Chain)
        /\ next'[node] = Spot(Chain', k) /\ prev[node] = Spot(Chain', k - 1)
    BY <1>2, DelNextChain
  <1>4. HalfBack(prev, Chain', k, node)
    BY <1>1, <1>2, <1>3, BackWithout
  <1>5. HalfLinked(node, Chain, k)' /\ k \in 1 .. Len(Chain') + 1
    BY <1>3, <1>4 DEF HalfLinked
  <1>6. PrevFollows'
    BY <1>5 DEF PrevFollows
  <1>7. NodesAreKnown'
    BY <1>1, <1>3, SpotFacts DEF NodesAreKnown, Adding
  <1>8. NewestGoesFirst' /\ SizeFollows'
    BY <1>1, <1>3 DEF NewestGoesFirst, SizeFollows
  <1> QED BY <1>3, <1>6, <1>7, <1>8 DEF ListInv

LEMMA DelPrevStep ==
  ASSUME MemTypeOK, ListInv, UNCHANGED <<info, allocated, size, node>>,
         pc = "del_prev", pc' = "del_free",
         prev' = [prev EXCEPT ![next[node]] = prev[node]], UNCHANGED next
  PROVE  ListInv'
  <1>1. PICK k \in 1 .. Len(Chain) + 1 : HalfLinked(node, Chain, k)
    BY DEF ListInv, PrevFollows
  <1>2. /\ next \in [Cell -> Cell] /\ prev \in [Cell -> Cell]
        /\ Chain \in Seq(Node) /\ IsInjective(Chain)
        /\ node \in Node \ Range(Chain) /\ allocated = Range(Chain) \cup {node}
    BY OnItsWay
  <1>3. Chain' = Chain /\ ChainIsList'
    BY SameChain, <1>2 DEF ListInv, ChainIsList
  <1>4. Back(prev', Chain)
    BY <1>1, <1>2, BackPast DEF HalfLinked
  <1>5. size = Len(Chain) + 1
    BY DEF ListInv, SizeFollows
  <1> QED BY <1>2, <1>3, <1>4, <1>5
          DEF ListInv, PrevFollows, NodesAreKnown, NewestGoesFirst, SizeFollows, Adding

LEMMA FreeStep ==
  ASSUME MemTypeOK, ListInv, Free
  PROVE  ListInv'
  <1>1. /\ Back(prev, Chain) /\ size = Len(Chain) + 1 /\ pc = "del_free"
    BY DEF Free, ListInv, PrevFollows, SizeFollows
  <1>2. /\ next \in [Cell -> Cell] /\ prev \in [Cell -> Cell]
        /\ Chain \in Seq(Node) /\ Ahead(next, Chain)
        /\ node \in Node \ Range(Chain) /\ node \in Cell
        /\ allocated = Range(Chain) \cup {node}
    BY <1>1, OnItsWay
  <1>3. /\ next' = [next EXCEPT ![node] = node] /\ prev' = [prev EXCEPT ![node] = node]
        /\ allocated' = allocated \ {node} /\ size' = size /\ pc' = "del_size"
    BY DEF Free
  <1>4. next' \in [Cell -> Cell]
    BY <1>2, <1>3
  <1>5. Ahead(next', Chain) /\ Back(prev', Chain)
    BY <1>1, <1>2, <1>3, Elsewhere
  <1>6. Chain' = Chain /\ ChainIsList'
    BY <1>4, <1>5, SameChain DEF ListInv
  <1> QED BY <1>1, <1>2, <1>3, <1>5, <1>6
          DEF ListInv, PrevFollows, NodesAreKnown, NewestGoesFirst, SizeFollows, Adding

LEMMA DelSizeStep ==
  ASSUME MemTypeOK, ListInv, DelSize
  PROVE  ListInv'
  <1>1. /\ ChainIsList /\ Back(prev, Chain) /\ allocated = Range(Chain)
        /\ size = Len(Chain) + 1 /\ Len(Chain) \in Nat
    BY DEF DelSize, ListInv, ChainIsList, PrevFollows, NodesAreKnown, SizeFollows, Adding
  <1>2. UNCHANGED <<links, info, allocated>> /\ size' = size - 1
    BY DEF DelSize
  <1>3. Chain' = Chain
    BY <1>2, ListSame
  <1>4. NewestGoesFirst' /\ pc' \in {"idle", "del_next"}
    <2>1. CASE next[head_] # head_ /\ pc' = "del_next" /\ node' = next[head_]
      <3>1. 1 \in 1 .. Len(Chain) /\ node' = Chain[1]
        BY <2>1, <1>1, FirstNode
      <3> QED BY <2>1, <3>1, <1>3 DEF NewestGoesFirst
    <2>2. CASE pc' = "idle"
      BY <2>2 DEF NewestGoesFirst
    <2> QED BY <2>1, <2>2 DEF DelSize
  <1> QED BY <1>1, <1>2, <1>3, <1>4 DEF ListInv, ChainIsList, PrevFollows, NodesAreKnown,
          SizeFollows, Adding

LEMMA DelStep ==
  ASSUME MemTypeOK, ListInv, Del
  PROVE  ListInv'
  BY DelNextStep, DelPrevStep, FreeStep, DelSizeStep DEF Del, ListDel

-----------------------------------------------------------------------------
(* The handlers *)

Handlers == [sig : Signal, does : {"reset", "look", "next"},
             printed : Seq(Ptr), disturbed : BOOLEAN]

LEMMA PutHandler ==
  ASSUME NEW h \in Handlers, NEW r \in Seq(Handlers)
  PROVE  /\ Put(h, r) \in Seq(Handlers) /\ Len(Put(h, r)) = Len(r) + 1 /\ Put(h, r)[1] = h
         /\ \A i \in 2 .. Len(r) + 1 : Put(h, r)[i] = r[i - 1]
  BY ConcatProperties DEF Put

(* A handler that comes goes before the others, which it disturbs. *)
LEMMA Interrupted ==
  ASSUME handlers \in Seq(Handlers), NEW s \in Signal, Interrupt(s)
  PROVE  /\ handlers' \in Seq(Handlers) /\ Len(handlers') = Len(handlers) + 1
         /\ handlers'[1] = Handler(s)
         /\ \A i \in 2 .. Len(handlers) + 1 :
              /\ handlers'[i].does = handlers[i - 1].does
              /\ handlers'[i].printed = handlers[i - 1].printed
              /\ handlers'[i].disturbed = (handlers[i - 1].disturbed
                                             \/ handlers[i - 1].does # "reset")
  <1> DEFINE others == [i \in 1 .. Len(handlers) |-> Disturbed(handlers[i])]
  <1>1. Handler(s) \in Handlers
    BY DEF Handler, Handlers
  <1>2. ASSUME NEW h \in Handlers
        PROVE  /\ Disturbed(h) \in Handlers
               /\ Disturbed(h).does = h.does /\ Disturbed(h).printed = h.printed
               /\ Disturbed(h).disturbed = (h.disturbed \/ h.does # "reset")
    BY <1>2 DEF Disturbed, Handlers
  <1>3. others \in Seq(Handlers) /\ Len(others) = Len(handlers)
    BY <1>2
  <1>4. handlers' = Put(Handler(s), others)
    BY DEF Interrupt, Put
  <1>5. \A i \in 1 .. Len(handlers) : others[i] = Disturbed(handlers[i]) /\ handlers[i] \in Handlers
    OBVIOUS
  <1> HIDE DEF others
  <1>6. /\ handlers' \in Seq(Handlers) /\ Len(handlers') = Len(handlers) + 1
        /\ handlers'[1] = Handler(s)
        /\ \A i \in 2 .. Len(handlers) + 1 : handlers'[i] = others[i - 1]
    <2>1. /\ Put(Handler(s), others) \in Seq(Handlers)
          /\ Len(Put(Handler(s), others)) = Len(others) + 1
          /\ Put(Handler(s), others)[1] = Handler(s)
          /\ \A i \in 2 .. Len(others) + 1 : Put(Handler(s), others)[i] = others[i - 1]
      BY <1>1, <1>3, PutHandler
    <2> QED BY <2>1, <1>3, <1>4
  <1>7. \A i \in 2 .. Len(handlers) + 1 :
          handlers'[i] = Disturbed(handlers[i - 1]) /\ handlers[i - 1] \in Handlers
    <2> SUFFICES ASSUME NEW i \in 2 .. Len(handlers) + 1
                 PROVE  handlers'[i] = Disturbed(handlers[i - 1]) /\ handlers[i - 1] \in Handlers
      OBVIOUS
    <2>1. i - 1 \in 1 .. Len(handlers)
      OBVIOUS
    <2> QED BY <2>1, <1>5, <1>6
  <1> QED BY <1>2, <1>6, <1>7

(* A step of the walk changes the innermost handler alone, or ends it. *)
Steps(d, printed) ==
  /\ handlers' \in Seq(Handlers) /\ Len(handlers') = Len(handlers)
  /\ handlers'[1].does = d /\ handlers'[1].printed = printed
  /\ handlers'[1].disturbed = handlers[1].disturbed
  /\ \A i \in 2 .. Len(handlers) : handlers'[i] = handlers[i]

LEMMA Changed ==
  ASSUME handlers \in Seq(Handlers), handlers # << >>,
         NEW d \in {"reset", "look", "next"}, NEW t \in Seq(Ptr),
         NEW h, h = [handlers[1] EXCEPT !.does = d, !.printed = t],
         handlers' = [handlers EXCEPT ![1] = h]
  PROVE  Steps(d, t)
  <1>1. 1 \in 1 .. Len(handlers) /\ handlers[1] \in Handlers
    BY EmptySeq
  <1>2. /\ h \in Handlers /\ h.does = d /\ h.printed = t
        /\ h.disturbed = handlers[1].disturbed
    BY <1>1 DEF Handlers
  <1>3. /\ handlers' \in Seq(Handlers) /\ Len(handlers') = Len(handlers)
        /\ \A j \in 1 .. Len(handlers) : handlers'[j] = IF j = 1 THEN h ELSE handlers[j]
    BY <1>1, <1>2, ExceptSeq
  <1> QED BY <1>1, <1>2, <1>3 DEF Steps

LEMMA HandlersType ==
  MemTypeOK => handlers \in Seq(Handlers)
  BY DEF MemTypeOK, Handlers

LEMMA GetNextResetChange ==
  ASSUME MemTypeOK, GetNextReset
  PROVE  Steps("look", handlers[1].printed) /\ handlers # << >> /\ handlers[1].does = "reset"
  <1>1. handlers \in Seq(Handlers) /\ handlers # << >> /\ handlers[1].does = "reset"
    BY HandlersType DEF GetNextReset, Does
  <1>2. 1 \in 1 .. Len(handlers) /\ handlers[1] \in Handlers
    BY <1>1
  <1> DEFINE h == [handlers[1] EXCEPT !.does = "look", !.printed = handlers[1].printed]
  <1>3. handlers' = [handlers EXCEPT ![1] = h]
    <2>1. h = [handlers[1] EXCEPT !.does = "look"]
      BY <1>2 DEF Handlers
    <2> QED BY <1>1, <2>1 DEF GetNextReset
  <1>4. handlers[1].printed \in Seq(Ptr)
    BY <1>2 DEF Handlers
  <1> HIDE DEF h
  <1>5. Steps("look", handlers[1].printed)
    BY <1>1, <1>3, <1>4, Changed DEF h
  <1> QED BY <1>1, <1>5

LEMMA GetNextOnChange ==
  ASSUME MemTypeOK, GetNextOn
  PROVE  Steps("look", handlers[1].printed) /\ handlers # << >> /\ handlers[1].does = "next"
  <1>1. handlers \in Seq(Handlers) /\ handlers # << >> /\ handlers[1].does = "next"
    BY HandlersType DEF GetNextOn, Does
  <1>2. 1 \in 1 .. Len(handlers) /\ handlers[1] \in Handlers
    BY <1>1
  <1> DEFINE h == [handlers[1] EXCEPT !.does = "look", !.printed = handlers[1].printed]
  <1>3. handlers' = [handlers EXCEPT ![1] = h]
    <2>1. h = [handlers[1] EXCEPT !.does = "look"]
      BY <1>2 DEF Handlers
    <2> QED BY <1>1, <2>1 DEF GetNextOn
  <1>4. handlers[1].printed \in Seq(Ptr)
    BY <1>2 DEF Handlers
  <1> HIDE DEF h
  <1>5. Steps("look", handlers[1].printed)
    BY <1>1, <1>3, <1>4, Changed DEF h
  <1> QED BY <1>1, <1>5

(* What a handler has printed after the next address. *)
PrintedOn ==
  IF Len(handlers[1].printed) < MaxPrinted THEN Append(handlers[1].printed, info[pos])
  ELSE handlers[1].printed

LEMMA ReportChange ==
  ASSUME MemTypeOK, Report
  PROVE  Steps("next", PrintedOn) /\ handlers # << >> /\ handlers[1].does = "look"
  <1>1. handlers \in Seq(Handlers) /\ handlers # << >> /\ handlers[1].does = "look"
    BY HandlersType DEF Report, Does
  <1>2. 1 \in 1 .. Len(handlers) /\ handlers[1] \in Handlers
    BY <1>1
  <1>3. pos \in Node /\ info[pos] \in Ptr
    BY DEF Report, MemTypeOK, Cell
  <1>4. PrintedOn \in Seq(Ptr)
    BY <1>2, <1>3 DEF PrintedOn, Handlers
  <1> DEFINE h == [handlers[1] EXCEPT !.does = "next", !.printed = PrintedOn]
  <1>5. handlers' = [handlers EXCEPT ![1] = h]
    BY <1>1, <1>2 DEF Report, PrintedOn, Handlers
  <1> HIDE DEF h
  <1>6. Steps("next", PrintedOn)
    BY <1>1, <1>4, <1>5, Changed DEF h
  <1> QED BY <1>1, <1>6

(* While no handler runs there is nothing to say of them. *)
LEMMA NoHandler ==
  ASSUME handlers' = << >>
  PROVE  WalkInv'
  BY DEF WalkInv, HandlersAreInOrder, ReportFollowsWalk

LEMMA InterruptStep ==
  ASSUME MemInv, NEW s \in Signal, Interrupt(s)
  PROVE  WalkInv'
  <1>1. /\ handlers \in Seq(Handlers) /\ handlers' \in Seq(Handlers)
        /\ Len(handlers') = Len(handlers) + 1
        /\ handlers'[1] = Handler(s)
        /\ \A i \in 2 .. Len(handlers) + 1 :
              /\ handlers'[i].does = handlers[i - 1].does
              /\ handlers'[i].printed = handlers[i - 1].printed
              /\ handlers'[i].disturbed = (handlers[i - 1].disturbed
                                             \/ handlers[i - 1].does # "reset")
    BY HandlersType, Interrupted DEF MemInv
  <1>2. handlers'[1].does = "reset" /\ handlers'[1].printed = << >>
    BY <1>1 DEF Handler
  <1>3. pos' = pos /\ Chain' = Chain /\ sent' = sent + 1 /\ sent \in Nat
    BY ListSame DEF Interrupt, MemInv, MemTypeOK
  <1>4. \A i \in 2 .. Len(handlers') : i - 1 \in DOMAIN handlers /\ i \in 2 .. Len(handlers) + 1
    BY <1>1
  <1>5. \A i \in 2 .. Len(handlers') : handlers'[i].disturbed \/ handlers'[i].does = "reset"
    BY <1>1, <1>4
  <1>6. ASSUME NEW i \in DOMAIN handlers', handlers'[i].does = "reset"
        PROVE  handlers'[i].printed = << >>
    <2>1. CASE i = 1
      BY <2>1, <1>2
    <2>2. CASE i # 1
      <3>1. i \in 2 .. Len(handlers')
        BY <2>2, <1>1
      <3>2. i - 1 \in DOMAIN handlers /\ handlers[i - 1].does = "reset"
        BY <3>1, <1>1, <1>4, <1>6
      <3>3. handlers[i - 1].printed = << >>
        BY <3>2 DEF MemInv, WalkInv, HandlersAreInOrder
      <3> QED BY <3>1, <3>3, <1>1, <1>4
    <2> QED BY <2>1, <2>2
  <1>7. ASSUME NEW i \in DOMAIN handlers', handlers'[i].does # "reset"
        PROVE  pos \in Range(Chain) \cup {head_}
    <2>1. i \in 2 .. Len(handlers')
      BY <1>1, <1>2, <1>7
    <2>2. i - 1 \in DOMAIN handlers /\ handlers[i - 1].does # "reset"
      BY <2>1, <1>1, <1>4, <1>7
    <2> QED BY <2>2 DEF MemInv, WalkInv, HandlersAreInOrder
  <1>8. HandlersAreInOrder'
    BY <1>3, <1>5, <1>6, <1>7 DEF HandlersAreInOrder
  <1>9. ReportFollowsWalk'
    BY <1>2 DEF ReportFollowsWalk
  <1> QED BY <1>8, <1>9 DEF WalkInv

(* What is known while a handler walks: its position is a spot of the      *)
(* list, from which the next pointer leads to the spot after.              *)
LEMMA OnTheWalk ==
  ASSUME MemInv, handlers # << >>
  PROVE  /\ handlers \in Seq(Handlers) /\ 1 \in DOMAIN handlers
         /\ Chain \in Seq(Node) /\ Len(Chain) \in Nat
         /\ next[head_] = Spot(Chain, 1)
         /\ \A n \in Range(Chain) \cup {head_} : next[n] \in Range(Chain) \cup {head_}
         /\ \A k \in 1 .. Len(Chain) : next[Chain[k]] = Spot(Chain, k + 1)
         /\ handlers[1].does # "reset" => pos \in Range(Chain) \cup {head_}
  <1>1. handlers \in Seq(Handlers) /\ 1 \in DOMAIN handlers
    BY HandlersType, EmptySeq DEF MemInv
  <1>2. Chain \in Seq(Node) /\ Ahead(next, Chain) /\ Len(Chain) \in Nat
    BY DEF MemInv, ListInv, ChainIsList
  <1>3. \A i \in 0 .. Len(Chain) : next[Spot(Chain, i)] = Spot(Chain, i + 1)
    BY <1>2 DEF Ahead
  <1>4. next[head_] = Spot(Chain, 1)
    BY <1>2, <1>3, SpotFacts
  <1>5. \A k \in 1 .. Len(Chain) : next[Chain[k]] = Spot(Chain, k + 1)
    BY <1>2, <1>3, SpotFacts
  <1>6. ASSUME NEW n \in Range(Chain) \cup {head_}
        PROVE  next[n] \in Range(Chain) \cup {head_}
    <2>1. CASE n = head_
      BY <2>1, <1>2, <1>4, SpotFacts
    <2>2. CASE n \in Range(Chain)
      <3>1. PICK k \in 1 .. Len(Chain) : n = Chain[k]
        BY <2>2, <1>2, SpotFacts
      <3> QED BY <3>1, <1>2, <1>5, SpotFacts
    <2> QED BY <2>1, <2>2
  <1>7. handlers[1].does # "reset" => pos \in Range(Chain) \cup {head_}
    BY <1>1 DEF MemInv, WalkInv, HandlersAreInOrder
  <1> QED BY <1>1, <1>2, <1>4, <1>5, <1>6, <1>7

(* After a step of the walk that leaves the innermost handler with its     *)
(* walk under way the handlers are in order.                               *)
LEMMA OrderAfterStep ==
  ASSUME MemInv, handlers # << >>, UNCHANGED <<list, sent>>,
         NEW d \in {"look", "next"}, NEW t, Steps(d, t),
         pos' \in Range(Chain) \cup {head_}
  PROVE  /\ HandlersAreInOrder' /\ Chain' = Chain /\ Recorded' = Recorded
         /\ handlers'[1].does = d /\ handlers'[1].printed = t
         /\ handlers'[1].disturbed = handlers[1].disturbed
  <1>1. Chain' = Chain /\ Recorded' = Recorded
    BY ListSame
  <1>2. /\ handlers \in Seq(Handlers) /\ handlers' \in Seq(Handlers)
        /\ Len(handlers') = Len(handlers)
        /\ handlers'[1].does = d /\ handlers'[1].printed = t
        /\ handlers'[1].disturbed = handlers[1].disturbed
        /\ \A i \in 2 .. Len(handlers) : handlers'[i] = handlers[i]
    BY HandlersType DEF Steps, MemInv
  <1>3. /\ sent > 0
        /\ \A i \in 2 .. Len(handlers) : handlers[i].disturbed \/ handlers[i].does = "reset"
        /\ \A i \in DOMAIN handlers : handlers[i].does = "reset" => handlers[i].printed = << >>
    BY DEF MemInv, WalkInv, HandlersAreInOrder
  <1>4. \A i \in DOMAIN handlers' : i = 1 \/ i \in 2 .. Len(handlers)
    BY <1>2
  <1>5. \A i \in DOMAIN handlers' : handlers'[i].does = "reset" => handlers'[i].printed = << >>
    BY <1>2, <1>3, <1>4
  <1>6. \A i \in 2 .. Len(handlers') : handlers'[i].disturbed \/ handlers'[i].does = "reset"
    BY <1>2, <1>3
  <1>7. HandlersAreInOrder'
    BY <1>1, <1>3, <1>5, <1>6 DEF HandlersAreInOrder
  <1> QED BY <1>1, <1>2, <1>7

LEMMA GetNextResetStep ==
  ASSUME MemInv, GetNextReset, UNCHANGED <<list, sent>>
  PROVE  WalkInv'
  <1>1. Steps("look", handlers[1].printed) /\ handlers # << >> /\ handlers[1].does = "reset"
    BY GetNextResetChange DEF MemInv
  <1>2. pos' = Spot(Chain, 1) /\ Len(Chain) \in Nat /\ Chain \in Seq(Node) /\ 1 \in DOMAIN handlers
    BY <1>1, OnTheWalk DEF GetNextReset
  <1>3. pos' \in Range(Chain) \cup {head_}
    BY <1>2, SpotFacts
  <1>4. /\ HandlersAreInOrder' /\ Chain' = Chain /\ Recorded' = Recorded
        /\ handlers'[1].does = "look" /\ handlers'[1].printed = handlers[1].printed
    BY <1>1, <1>3, OrderAfterStep
  <1>5. handlers[1].printed = FirstOf(0)
    <2>1. handlers[1].printed = << >>
      BY <1>1, <1>2 DEF MemInv, WalkInv, HandlersAreInOrder
    <2>2. FirstOf(0) = << >>
      BY SubSeqEmpty DEF FirstOf
    <2> QED BY <2>1, <2>2
  <1>6. FirstOf(0)' = FirstOf(0)
    BY <1>4 DEF FirstOf
  <1>7. 0 \in 0 .. Len(Chain) /\ pos' = Spot(Chain, 0 + 1)
    BY <1>2
  <1> QED BY <1>4, <1>5, <1>6, <1>7 DEF WalkInv, ReportFollowsWalk

LEMMA GetNextOnStep ==
  ASSUME MemInv, GetNextOn, UNCHANGED <<list, sent>>
  PROVE  WalkInv'
  <1>1. Steps("look", handlers[1].printed) /\ handlers # << >> /\ handlers[1].does = "next"
    BY GetNextOnChange DEF MemInv
  <1>2. /\ Len(Chain) \in Nat /\ Chain \in Seq(Node) /\ pos' = next[pos]
        /\ pos' \in Range(Chain) \cup {head_}
        /\ \A k \in 1 .. Len(Chain) : next[Chain[k]] = Spot(Chain, k + 1)
    BY <1>1, OnTheWalk DEF GetNextOn
  <1>3. /\ HandlersAreInOrder' /\ Chain' = Chain /\ Recorded' = Recorded
        /\ handlers'[1].does = "look" /\ handlers'[1].printed = handlers[1].printed
        /\ handlers'[1].disturbed = handlers[1].disturbed
    BY <1>1, <1>2, OrderAfterStep
  <1>4. ASSUME ~ handlers[1].disturbed
        PROVE  \E k \in 0 .. Len(Chain) :
                 pos' = Spot(Chain, k + 1) /\ handlers'[1].printed = FirstOf(k)'
    <2>1. PICK k \in 1 .. Len(Chain) : pos = Chain[k] /\ handlers[1].printed = FirstOf(k)
      BY <1>1, <1>4 DEF MemInv, WalkInv, ReportFollowsWalk
    <2>2. FirstOf(k)' = FirstOf(k)
      BY <1>3 DEF FirstOf
    <2>3. k \in 0 .. Len(Chain)
      OBVIOUS
    <2> QED BY <2>1, <2>2, <2>3, <1>2, <1>3
  <1> QED BY <1>3, <1>4 DEF WalkInv, ReportFollowsWalk

(* The first k addresses and the next one are the first k + 1. *)
LEMMA OneMore ==
  ASSUME NEW S, NEW s \in Seq(S), NEW k \in 0 .. Len(s) - 1
  PROVE  /\ Append(SubSeq(s, 1, k), s[k + 1]) = SubSeq(s, 1, k + 1)
         /\ Len(SubSeq(s, 1, k)) = k
  <1>1. /\ SubSeq(s, 1, k) \in Seq(S) /\ Len(SubSeq(s, 1, k)) = k
        /\ \A i \in 1 .. k : SubSeq(s, 1, k)[i] = s[i]
    <2>1. \A i \in 1 .. k : s[i] \in S
      OBVIOUS
    <2> QED BY <2>1, SubSeqProperties
  <1>2. /\ SubSeq(s, 1, k + 1) \in Seq(S) /\ Len(SubSeq(s, 1, k + 1)) = k + 1
        /\ \A i \in 1 .. k + 1 : SubSeq(s, 1, k + 1)[i] = s[i]
    <2>1. \A i \in 1 .. k + 1 : s[i] \in S
      OBVIOUS
    <2> QED BY <2>1, SubSeqProperties
  <1> DEFINE a == SubSeq(s, 1, k)
             b == SubSeq(s, 1, k + 1)
  <1>3. s[k + 1] \in S
    OBVIOUS
  <1> HIDE DEF a, b
  <1>4. Append(a, s[k + 1]) \in Seq(S) /\ Len(Append(a, s[k + 1])) = k + 1
    BY <1>1, <1>3 DEF a
  <1>5. \A i \in 1 .. k + 1 : Append(a, s[k + 1])[i] = b[i]
    BY <1>1, <1>2, <1>3 DEF a, b
  <1>6. Append(a, s[k + 1]) = b
    BY <1>2, <1>4, <1>5, SeqEqual DEF b
  <1> QED BY <1>1, <1>6 DEF a, b

(* The addresses recorded are those of the nodes of the list. *)
LEMMA RecordedType ==
  ASSUME MemTypeOK, ChainIsList
  PROVE  /\ Recorded \in Seq(Ptr) /\ Len(Recorded) = Len(Chain)
         /\ DOMAIN Recorded = 1 .. Len(Chain)
         /\ \A k \in 1 .. Len(Chain) : Recorded[k] = info[Chain[k]]
  <1>1. /\ Chain \in Seq(Node) /\ DOMAIN Chain = 1 .. Len(Chain) /\ Len(Chain) \in Nat
        /\ info \in [Node -> Ptr]
    BY DEF MemTypeOK, ChainIsList
  <1>2. \A k \in 1 .. Len(Chain) : info[Chain[k]] \in Ptr
    BY <1>1
  <1>3. Recorded = [k \in 1 .. Len(Chain) |-> info[Chain[k]]]
    BY <1>1 DEF Recorded
  <1> QED BY <1>1, <1>2, <1>3

(* No report that only one handler writes reaches the bound. *)
LEMMA BoundIsEnough ==
  ASSUME MemInv, handlers # << >>, NEW k \in 0 .. Len(Chain) - 1
  PROVE  k < MaxPrinted
  <1>1. /\ Cardinality(Node) \in Nat /\ Len(Chain) <= Cardinality(Node)
        /\ Len(Chain) \in Nat
    BY ChainFits DEF MemInv, ListInv, ChainIsList
  <1>2. MaxSignals \in Nat /\ MaxSignals >= 1
    BY MemCheckAssumption DEF MemInv, MemTypeOK, WalkInv, HandlersAreInOrder
  <1>3. \A m, n \in Nat : m >= 1 => m * n >= n
    <2> SUFFICES ASSUME NEW m \in Nat, NEW n \in Nat, m >= 1 PROVE m * n >= n
      OBVIOUS
    <2>1. m * n = (m - 1) * n + n /\ (m - 1) * n >= 0
      OBVIOUS
    <2> QED BY <2>1
  <1>4. MaxPrinted >= Cardinality(Node)
    BY <1>1, <1>2, <1>3 DEF MaxPrinted
  <1>5. MaxPrinted \in Nat
    BY <1>1, <1>2 DEF MaxPrinted
  <1> QED BY <1>1, <1>4, <1>5

LEMMA ReportStep ==
  ASSUME MemInv, Report, UNCHANGED <<list, sent>>
  PROVE  WalkInv'
  <1>1. Steps("next", PrintedOn) /\ handlers # << >> /\ handlers[1].does = "look"
    BY ReportChange DEF MemInv
  <1>2. /\ Len(Chain) \in Nat /\ Chain \in Seq(Node) /\ pos' = pos /\ pos # head_
        /\ pos \in Range(Chain) \cup {head_}
    BY <1>1, OnTheWalk DEF Report
  <1>3. /\ HandlersAreInOrder' /\ Chain' = Chain /\ Recorded' = Recorded
        /\ handlers'[1].does = "next" /\ handlers'[1].printed = PrintedOn
        /\ handlers'[1].disturbed = handlers[1].disturbed
    BY <1>1, <1>2, OrderAfterStep
  <1>4. ASSUME ~ handlers[1].disturbed
        PROVE  \E k \in 1 .. Len(Chain) : pos' = Chain[k] /\ handlers'[1].printed = FirstOf(k)'
    <2>1. PICK k \in 0 .. Len(Chain) :
            pos = Spot(Chain, k + 1) /\ handlers[1].printed = FirstOf(k)
      BY <1>1, <1>4 DEF MemInv, WalkInv, ReportFollowsWalk
    <2>2. k + 1 \in 1 .. Len(Chain) /\ k \in 0 .. Len(Chain) - 1
      BY <2>1, <1>2 DEF Spot
    <2>3. pos = Chain[k + 1]
      BY <2>1, <2>2 DEF Spot
    <2>4. Recorded \in Seq(Ptr) /\ Len(Recorded) = Len(Chain) /\ Recorded[k + 1] = info[pos]
      BY <2>2, <2>3, RecordedType DEF MemInv, ListInv
    <2>5. Len(FirstOf(k)) = k /\ Append(FirstOf(k), info[pos]) = FirstOf(k + 1)
      BY <2>2, <2>4, OneMore DEF FirstOf
    <2>6. k < MaxPrinted
      BY <1>1, <2>2, BoundIsEnough
    <2>7. PrintedOn = FirstOf(k + 1)
      BY <2>1, <2>5, <2>6 DEF PrintedOn
    <2>8. FirstOf(k + 1)' = FirstOf(k + 1)
      BY <1>3 DEF FirstOf
    <2> QED BY <2>2, <2>3, <2>7, <2>8, <1>2, <1>3
  <1> QED BY <1>3, <1>4 DEF WalkInv, ReportFollowsWalk

LEMMA ReturnStep ==
  ASSUME MemInv, Return, UNCHANGED <<list, sent>>
  PROVE  WalkInv' /\ handlers' \in Seq(Handlers)
  <1>1. /\ handlers \in Seq(Handlers) /\ handlers # << >> /\ handlers' = Tail(handlers)
        /\ pos' = pos /\ sent' = sent
    BY HandlersType DEF MemInv, Return, Does
  <1>2. /\ handlers' \in Seq(Handlers) /\ Len(handlers') = Len(handlers) - 1
        /\ \A i \in 1 .. Len(handlers') : handlers'[i] = handlers[i + 1]
    BY <1>1, HeadTailProperties
  <1>3. Chain' = Chain
    BY ListSame
  <1>4. \A i \in DOMAIN handlers' :
          i + 1 \in DOMAIN handlers /\ i + 1 \in 2 .. Len(handlers) /\ handlers'[i] = handlers[i + 1]
    BY <1>1, <1>2
  <1>5. /\ sent > 0
        /\ \A i \in 2 .. Len(handlers) : handlers[i].disturbed \/ handlers[i].does = "reset"
        /\ \A i \in DOMAIN handlers : handlers[i].does = "reset" => handlers[i].printed = << >>
        /\ (\E i \in DOMAIN handlers : handlers[i].does # "reset") =>
              pos \in Range(Chain) \cup {head_}
    BY <1>1 DEF MemInv, WalkInv, HandlersAreInOrder
  <1>6. \A i \in DOMAIN handlers' : handlers'[i].disturbed \/ handlers'[i].does = "reset"
    BY <1>4, <1>5
  <1>7. \A i \in DOMAIN handlers' : handlers'[i].does = "reset" => handlers'[i].printed = << >>
    BY <1>4, <1>5
  <1>8. (\E i \in DOMAIN handlers' : handlers'[i].does # "reset") => pos' \in Range(Chain) \cup {head_}
    BY <1>1, <1>4, <1>5
  <1>9. \A i \in 2 .. Len(handlers') : i \in DOMAIN handlers'
    BY <1>2
  <1>10. HandlersAreInOrder'
    BY <1>1, <1>3, <1>5, <1>6, <1>7, <1>8, <1>9 DEF HandlersAreInOrder
  <1>11. ReportFollowsWalk'
    <2>1. handlers' # << >> => 1 \in DOMAIN handlers'
      BY <1>2, EmptySeq
    <2> QED BY <2>1, <1>6 DEF ReportFollowsWalk
  <1> QED BY <1>2, <1>10, <1>11 DEF WalkInv

-----------------------------------------------------------------------------
(* The theorems *)

(* The number of nodes is a number; and the type of what the program       *)
(* itself changes, while no handler runs.                                  *)
LEMMA NodesCounted == Cardinality(Node) \in Nat
  BY FS_CardinalityType, MemCheckAssumption

LEMMA GarbageType == Garbage \in Ptr
  BY MemCheckAssumption DEF Garbage

LEMMA ProgramType ==
  ASSUME MemInv,
         \/ \E p \in Ptr : New(p) \/ Delete(p)
         \/ Add \/ Del \/ Clear
  PROVE  MemTypeOK' /\ handlers' = << >>
  <1>1. /\ next \in [Cell -> Cell] /\ prev \in [Cell -> Cell]
        /\ info \in [Node -> Ptr] /\ allocated \subseteq Node
        /\ size \in 0 .. Cardinality(Node) /\ node \in Cell /\ pos \in Cell
        /\ untracked \subseteq held /\ held \subseteq Ptr
        /\ Node \subseteq Cell /\ head_ \in Cell
    BY DEF MemInv, MemTypeOK, Cell
  <1>2. ChainIsList /\ Chain \in Seq(Node) /\ Len(Chain) \in Nat /\ Len(Chain) <= Cardinality(Node)
    BY ChainFits DEF MemInv, ListInv, ChainIsList
  <1>3. ASSUME NEW p \in Ptr, New(p)
        PROVE  MemTypeOK' /\ handlers' = << >>
    BY <1>1, <1>3 DEF New, MemInv, MemTypeOK
  <1>4. ASSUME NEW p \in Ptr, Delete(p)
        PROVE  MemTypeOK' /\ handlers' = << >>
    <2>1. \A k \in DOMAIN Chain : Chain[k] \in Cell
      BY <1>1, <1>2
    <2> QED BY <1>1, <1>4, <2>1 DEF Delete, MemInv, MemTypeOK
  <1>5. CASE Add
    <2>1. CASE ListAdd /\ UNCHANGED <<info, allocated, size, node, user, walk>>
      BY <1>1, <2>1 DEF ListAdd, MemInv, MemTypeOK
    <2>2. CASE /\ At("add_size") /\ Goto("idle") /\ size' = size + 1 /\ node' = head_
               /\ UNCHANGED <<links, info, allocated, user, walk>>
      <3>1. size = Len(Chain) - 1
        BY <2>2 DEF MemInv, ListInv, SizeFollows
      <3>2. size' \in 0 .. Cardinality(Node)
        BY <1>1, <1>2, <2>2, <3>1, NodesCounted
      <3> QED BY <1>1, <2>2, <3>2 DEF MemInv, MemTypeOK
    <2> QED BY <1>5, <2>1, <2>2 DEF Add
  <1>6. CASE Del
    <2>1. CASE ListDel /\ UNCHANGED <<info, allocated, size, node, user, walk>>
      BY <1>1, <2>1 DEF ListDel, MemInv, MemTypeOK
    <2>2. CASE Free
      BY <1>1, <2>2, GarbageType DEF Free, MemInv, MemTypeOK
    <2>3. CASE DelSize
      <3>1. size = Len(Chain) + 1
        BY <2>3 DEF DelSize, MemInv, ListInv, SizeFollows
      <3>2. size' \in 0 .. Cardinality(Node)
        BY <1>1, <1>2, <2>3, <3>1, NodesCounted DEF DelSize
      <3> QED BY <1>1, <2>3, <3>2 DEF DelSize, MemInv, MemTypeOK
    <2> QED BY <1>6, <2>1, <2>2, <2>3 DEF Del
  <1>7. CASE Clear
    BY <1>1, <1>7 DEF Clear, MemInv, MemTypeOK
  <1> QED BY <1>3, <1>4, <1>5, <1>6, <1>7

(* What the handlers change keeps its type. *)
LEMMA HandlerType ==
  ASSUME MemInv, handlers' \in Seq(Handlers), pos' \in Cell, sent' \in 0 .. MaxSignals,
         UNCHANGED <<list, pc, node, user>>
  PROVE  MemTypeOK'
  BY DEF MemInv, MemTypeOK, Handlers

(* Every step keeps the invariant. *)
LEMMA MemStep ==
  ASSUME MemInv, [MemNext]_memVars
  PROVE  MemInv'
  <1>1. CASE \/ \E p \in Ptr : New(p) \/ Delete(p)
             \/ Add \/ Del \/ Clear
    <2>1. MemTypeOK' /\ handlers' = << >>
      BY <1>1, ProgramType
    <2>2. ListInv'
      BY <1>1, NewStep, DeleteStep, AddStep, DelStep, ClearStep DEF MemInv
    <2> QED BY <2>1, <2>2, NoHandler DEF MemInv
  <1>2. ASSUME NEW s \in Signal, Interrupt(s)
        PROVE  MemInv'
    <2>1. handlers' \in Seq(Handlers)
      BY <1>2, HandlersType, Interrupted DEF MemInv
    <2>2. pos' \in Cell /\ sent' \in 0 .. MaxSignals /\ UNCHANGED <<list, pc, node, user>>
      BY <1>2, MemCheckAssumption DEF Interrupt, MemInv, MemTypeOK
    <2>3. MemTypeOK'
      BY <2>1, <2>2, HandlerType
    <2>4. ListInv'
      BY <2>2, ListInvSame DEF MemInv
    <2> QED BY <1>2, <2>3, <2>4, InterruptStep DEF MemInv
  <1>3. CASE Handle
    <2>1. UNCHANGED <<list, pc, node, user, sent>>
      BY <1>3 DEF Handle
    <2>2. handlers' \in Seq(Handlers) /\ WalkInv'
      <3>1. CASE GetNextReset
        BY <3>1, <2>1, GetNextResetChange, GetNextResetStep DEF Steps, MemInv
      <3>2. CASE GetNextOn
        BY <3>2, <2>1, GetNextOnChange, GetNextOnStep DEF Steps, MemInv
      <3>3. CASE Report
        BY <3>3, <2>1, ReportChange, ReportStep DEF Steps, MemInv
      <3>4. CASE Return
        BY <3>4, <2>1, ReturnStep
      <3> QED BY <1>3, <3>1, <3>2, <3>3, <3>4 DEF Handle
    <2>3. pos' \in Cell
      BY <1>3 DEF Handle, GetNextReset, GetNextOn, Report, Return, MemInv, MemTypeOK, Cell
    <2>4. sent' \in 0 .. MaxSignals
      BY <2>1 DEF MemInv, MemTypeOK
    <2>5. MemTypeOK'
      BY <2>1, <2>2, <2>3, <2>4, HandlerType
    <2>6. ListInv'
      BY <2>1, ListInvSame DEF MemInv
    <2> QED BY <2>2, <2>5, <2>6 DEF MemInv
  <1>4. CASE UNCHANGED memVars
    <2>1. Chain' = Chain /\ Recorded' = Recorded
      BY <1>4, ListSame DEF memVars
    <2>2. ListInv'
      BY <1>4, ListInvSame DEF memVars, MemInv
    <2>3. WalkInv'
      BY <1>4, <2>1 DEF memVars, MemInv, WalkInv, HandlersAreInOrder, ReportFollowsWalk, FirstOf
    <2>4. MemTypeOK'
      BY <1>4 DEF memVars, MemInv, MemTypeOK
    <2> QED BY <2>2, <2>3, <2>4 DEF MemInv
  <1> QED BY <1>1, <1>2, <1>3, <1>4 DEF MemNext

(* The empty list. *)
LEMMA MemInitChain ==
  ASSUME MemInit
  PROVE  Chain = << >> /\ ChainIsList /\ Recorded = << >>
  <1>1. next \in [Cell -> Cell]
    BY DEF MemInit
  <1>2. << >> \in Seq(Node) /\ IsInjective(<< >>) /\ Len(<< >>) = 0
    BY DEF IsInjective
  <1>3. Ahead(next, << >>)
    BY <1>2 DEF MemInit, Ahead, Spot, Cell
  <1>4. Chain = << >>
    BY <1>1, <1>2, <1>3, ChainIs DEF Chain
  <1>5. Recorded = << >>
    BY <1>4 DEF Recorded
  <1> QED BY <1>2, <1>3, <1>4, <1>5 DEF ChainIsList

LEMMA MemInitInv ==
  ASSUME MemInit
  PROVE  MemInv
  <1>1. Chain = << >> /\ ChainIsList /\ Len(<< >>) = 0 /\ Range(<< >>) = {}
    BY MemInitChain DEF Range
  <1>2. MemTypeOK
    BY GarbageType, NodesCounted, MemCheckAssumption DEF MemInit, MemTypeOK, Cell
  <1>3. Back(prev, Chain)
    BY <1>1 DEF MemInit, Back, Spot, Cell
  <1>4. PrevFollows
    BY <1>3 DEF MemInit, PrevFollows
  <1>5. NodesAreKnown /\ NewestGoesFirst /\ SizeFollows
    BY <1>1 DEF MemInit, NodesAreKnown, NewestGoesFirst, SizeFollows, Adding
  <1>6. WalkInv
    BY DEF MemInit, WalkInv, HandlersAreInOrder, ReportFollowsWalk
  <1> QED BY <1>1, <1>2, <1>4, <1>5, <1>6 DEF MemInv, ListInv

LEMMA MemInvHolds == MemSpec => []MemInv
  BY MemInitInv, MemStep, PTL DEF MemSpec

(* Every variable keeps its type, the count of the nodes its bounds.       *)
THEOREM MemTypeCorrect == MemSpec => []MemTypeOK
  BY MemInvHolds, PTL DEF MemInv

(* Between any two assignments of Add, Del and Clear the list leads from   *)
(* head_ through allocated nodes back to head_, and the position GetNext   *)
(* keeps is on it while a handler uses it.                                 *)
THEOREM WalkStaysOnListHolds == MemSpec => []WalkStaysOnList
  <1>1. MemInv => WalkStaysOnList
    <2> SUFFICES ASSUME MemInv PROVE WalkStaysOnList
      OBVIOUS
    <2>1. /\ next \in [Cell -> Cell] /\ Chain \in Seq(Node) /\ IsInjective(Chain)
          /\ Ahead(next, Chain)
      BY DEF MemInv, MemTypeOK, ListInv, ChainIsList
    <2>2. Follow(next)[Cardinality(Node)] = head_
      BY <2>1, ChainIs
    <2>3. Range(Chain) \subseteq allocated
      BY DEF MemInv, ListInv, NodesAreKnown
    <2> QED BY <2>2, <2>3 DEF WalkStaysOnList, MemInv, WalkInv, HandlersAreInOrder
  <1> QED BY <1>1, MemInvHolds, PTL

(* A handler that ends undisturbed has come by the whole list. *)
LEMMA WalkIsWhole ==
  ASSUME MemInv, Return, ~ handlers[1].disturbed
  PROVE  handlers[1].printed = Recorded
  <1>1. handlers # << >> /\ handlers[1].does = "look" /\ pos = head_
    BY DEF Return, Does
  <1>2. /\ Chain \in Seq(Node) /\ Len(Chain) \in Nat
        /\ Recorded \in Seq(Ptr) /\ Len(Recorded) = Len(Chain)
    BY RecordedType DEF MemInv, ListInv, ChainIsList
  <1>3. PICK k \in 0 .. Len(Chain) : pos = Spot(Chain, k + 1) /\ handlers[1].printed = FirstOf(k)
    BY <1>1 DEF MemInv, WalkInv, ReportFollowsWalk
  <1>4. k = Len(Chain)
    <2> SUFFICES ASSUME k # Len(Chain) PROVE FALSE
      OBVIOUS
    <2>1. k + 1 \in 1 .. Len(Chain)
      BY <1>2
    <2> QED BY <2>1, <1>1, <1>2, <1>3, SpotFacts
  <1> QED BY <1>2, <1>3, <1>4, SubSeqFull DEF FirstOf

(* A handler no other interrupts has, when it returns, printed each        *)
(* allocation on record, once, the newest first, for every number of nodes *)
(* and of signals.                                                         *)
THEOREM ReportIsWholeHolds == MemSpec => ReportIsWhole
  <1> DEFINE Whole == Len(handlers') < Len(handlers) /\ ~ handlers[1].disturbed
                        => handlers[1].printed = Recorded
  <1>1. MemInv /\ [MemNext]_memVars => [Whole]_handlers
    <2> SUFFICES ASSUME MemInv, [MemNext]_memVars, handlers' # handlers,
                        Len(handlers') < Len(handlers), ~ handlers[1].disturbed
                 PROVE  handlers[1].printed = Recorded
      OBVIOUS
    <2>1. handlers \in Seq(Handlers) /\ Len(handlers) \in Nat
      BY HandlersType DEF MemInv
    <2>2. ~ UNCHANGED memVars
      BY DEF memVars
    <2>3. CASE \/ \E p \in Ptr : New(p) \/ Delete(p)
               \/ Add \/ Del \/ Clear
      BY <2>3, ProgramType, EmptySeq, <2>1 DEF New, Delete, Add, ListAdd, Del, ListDel, Free,
         DelSize, Clear
    <2>4. ASSUME NEW s \in Signal, Interrupt(s)
          PROVE  FALSE
      BY <2>1, <2>4, Interrupted
    <2>5. CASE Handle
      <3>1. ~ GetNextReset
        BY <2>1, GetNextResetChange DEF Steps, MemInv
      <3>2. ~ GetNextOn
        BY <2>1, GetNextOnChange DEF Steps, MemInv
      <3>3. ~ Report
        BY <2>1, ReportChange DEF Steps, MemInv
      <3> QED BY <2>5, <3>1, <3>2, <3>3, WalkIsWhole DEF Handle
    <2> QED BY <2>2, <2>3, <2>4, <2>5 DEF MemNext
  <1>2. MemSpec => [][Whole]_handlers
    BY <1>1, MemInvHolds, PTL DEF MemSpec
  <1> QED BY <1>2 DEF ReportIsWhole

(* Whenever the program is in none of Add, Del and Clear, size_ is the     *)
(* number of the nodes a walk comes by, and they are all that is allocated *)
(* for nodes.                                                              *)
THEOREM SizeIsNodes ==
  MemSpec => [](pc = "idle" => size = Len(Chain) /\ allocated = Range(Chain))
  <1>1. MemInv => (pc = "idle" => size = Len(Chain) /\ allocated = Range(Chain))
    BY DEF MemInv, ListInv, SizeFollows, NodesAreKnown, Adding
  <1> QED BY <1>1, MemInvHolds, PTL

-----------------------------------------------------------------------------
(* The refinement *)

(* Off the two assignments that link and unlink, the list stays. *)
LEMMA ListStays ==
  ASSUME MemTypeOK, ListInv, Chain' = Chain,
         \A n \in Range(Chain) : info'[n] = info[n]
  PROVE  Recorded' = Recorded
  <1>1. Chain \in Seq(Node) /\ DOMAIN Chain = 1 .. Len(Chain)
    BY DEF ListInv, ChainIsList
  <1>2. \A k \in 1 .. Len(Chain) : info'[Chain[k]] = info[Chain[k]]
    BY <1>1, SpotFacts
  <1>3. Recorded = [k \in 1 .. Len(Chain) |-> info[Chain[k]]]
    BY <1>1 DEF Recorded
  <1>4. Recorded' = [k \in 1 .. Len(Chain) |-> info'[Chain[k]]]
    BY <1>1 DEF Recorded
  <1> QED BY <1>2, <1>3, <1>4

(* The last assignment of ListAdd records the address. *)
LEMMA Records ==
  ASSUME MemTypeOK, ListInv, pc = "add_head", UNCHANGED info,
         next' = [next EXCEPT ![head_] = node]
  PROVE  info[node] \in Ptr /\ Log!Record(info[node])
  <1>1. /\ Chain' = Put(node, Chain) /\ ChainIsList' /\ Chain \in Seq(Node)
        /\ Len(Chain') = Len(Chain) + 1 /\ Len(Chain) \in Nat
    BY AddHeadChain DEF ListInv, ChainIsList
  <1>2. node \in Node /\ info[node] \in Ptr /\ info \in [Node -> Ptr]
    BY DEF MemTypeOK, ListInv, NodesAreKnown, Adding
  <1>3. /\ Chain'[1] = node
        /\ \A k \in 2 .. Len(Chain) + 1 : Chain'[k] = Chain[k - 1]
    <2>1. Chain \in Seq(Node) /\ node \in Node
      BY <1>1, <1>2
    <2>2. /\ Put(node, Chain)[1] = node
          /\ \A k \in 2 .. Len(Chain) + 1 : Put(node, Chain)[k] = Chain[k - 1]
      BY <2>1, PutFacts
    <2> QED BY <2>2, <1>1
  <1>4. /\ Recorded \in Seq(Ptr) /\ Len(Recorded) = Len(Chain)
        /\ \A k \in 1 .. Len(Chain) : Recorded[k] = info[Chain[k]]
    BY RecordedType DEF ListInv
  <1>5. Chain' \in Seq(Node)
    BY <1>1 DEF ChainIsList
  <1>6. Recorded' = [k \in 1 .. Len(Chain) + 1 |-> info[Chain'[k]]]
    BY <1>1, <1>5 DEF Recorded
  <1>7. /\ Put(info[node], Recorded) \in Seq(Ptr)
        /\ Len(Put(info[node], Recorded)) = Len(Chain) + 1
        /\ Put(info[node], Recorded)[1] = info[node]
        /\ \A k \in 2 .. Len(Chain) + 1 : Put(info[node], Recorded)[k] = Recorded[k - 1]
    <2> DEFINE p == info[node]
    <2>1. p \in Ptr /\ Recorded \in Seq(Ptr)
      BY <1>2, <1>4
    <2> HIDE DEF p
    <2>2. /\ Put(p, Recorded) \in Seq(Ptr) /\ Len(Put(p, Recorded)) = Len(Recorded) + 1
          /\ Put(p, Recorded)[1] = p
          /\ \A k \in 2 .. Len(Recorded) + 1 : Put(p, Recorded)[k] = Recorded[k - 1]
      BY <2>1, PutFacts
    <2> QED BY <2>2, <1>4 DEF p
  <1>8. ASSUME NEW k \in 1 .. Len(Chain) + 1
        PROVE  info[Chain'[k]] = Put(info[node], Recorded)[k]
    <2>1. CASE k = 1
      BY <2>1, <1>3, <1>7
    <2>2. CASE k # 1
      <3>1. k \in 2 .. Len(Chain) + 1 /\ k - 1 \in 1 .. Len(Chain)
        BY <2>2, <1>1
      <3> QED BY <3>1, <1>3, <1>4, <1>7
    <2> QED BY <2>1, <2>2
  <1>9. Recorded' = Put(info[node], Recorded)
    <2> DEFINE b == Put(info[node], Recorded)
    <2>1. b = [k \in 1 .. Len(Chain) + 1 |-> b[k]]
      BY <1>7
    <2> HIDE DEF b
    <2> QED BY <2>1, <1>6, <1>8 DEF b
  <1> QED BY <1>2, <1>9 DEF Log!Record, Put

(* The first assignment of ListDel forgets it, and of an address recorded  *)
(* twice the newest.                                                       *)
LEMMA Forgets ==
  ASSUME MemTypeOK, ListInv, pc = "del_next", UNCHANGED info,
         next' = [next EXCEPT ![prev[node]] = next[node]]
  PROVE  info[node] \in Ptr /\ Log!Forget(info[node])
  <1>1. PICK i \in 1 .. Len(Chain) :
          Chain[i] = node /\ \A j \in 1 .. i - 1 : info[Chain[j]] # info[node]
    BY DEF ListInv, NewestGoesFirst
  <1>2. /\ Chain' = RemoveAt(Chain, i) /\ ChainIsList'
        /\ Len(Chain') = Len(Chain) - 1 /\ Len(Chain) \in Nat
    BY <1>1, DelNextChain
  <1>3. Chain \in Seq(Node) /\ Chain' \in Seq(Node) /\ info \in [Node -> Ptr] /\ node \in Node
    BY <1>1, <1>2 DEF MemTypeOK, ListInv, ChainIsList
  <1>4. /\ Recorded \in Seq(Ptr) /\ Len(Recorded) = Len(Chain)
        /\ \A k \in 1 .. Len(Chain) : Recorded[k] = info[Chain[k]]
    BY RecordedType DEF ListInv
  <1>5. \A k \in 1 .. Len(Chain) - 1 : Chain'[k] = IF k < i THEN Chain[k] ELSE Chain[k + 1]
    BY <1>2, <1>3, RemoveAtFacts
  <1>6. /\ RemoveAt(Recorded, i) \in Seq(Ptr)
        /\ Len(RemoveAt(Recorded, i)) = Len(Chain) - 1
        /\ \A k \in 1 .. Len(Chain) - 1 :
             RemoveAt(Recorded, i)[k] = IF k < i THEN Recorded[k] ELSE Recorded[k + 1]
    BY <1>4, RemoveAtFacts
  <1>7. Recorded' = [k \in 1 .. Len(Chain) - 1 |-> info[Chain'[k]]]
    BY <1>2, <1>3 DEF Recorded
  <1>8. ASSUME NEW k \in 1 .. Len(Chain) - 1
        PROVE  info[Chain'[k]] = RemoveAt(Recorded, i)[k]
    <2>1. k \in 1 .. Len(Chain) /\ k + 1 \in 1 .. Len(Chain)
      BY <1>2
    <2> QED BY <2>1, <1>4, <1>5, <1>6
  <1>9. Recorded' = RemoveAt(Recorded, i)
    <2> DEFINE b == RemoveAt(Recorded, i)
    <2>1. b = [k \in 1 .. Len(Chain) - 1 |-> b[k]]
      BY <1>6
    <2> HIDE DEF b
    <2> QED BY <2>1, <1>7, <1>8 DEF b
  <1>10. /\ i \in 1 .. Len(Recorded) /\ Recorded[i] = info[node]
         /\ \A j \in 1 .. i - 1 : Recorded[j] # info[node]
    <2>1. \A j \in 1 .. i - 1 : j \in 1 .. Len(Chain)
      BY <1>2
    <2> QED BY <2>1, <1>1, <1>4
  <1>11. Log!RemoveAt(Recorded, i) = RemoveAt(Recorded, i)
    BY DEF Log!RemoveAt, RemoveAt
  <1> QED BY <1>3, <1>9, <1>10, <1>11 DEF Log!Forget

(* In every step the pointers record an allocation, forget one, or leave   *)
(* the list as it is.                                                      *)
LEMMA LogStep ==
  ASSUME MemInv, [MemNext]_memVars
  PROVE  [Log!LogNext]_Recorded
  <1>0. /\ MemTypeOK /\ ListInv /\ ChainIsList
        /\ next \in [Cell -> Cell] /\ info \in [Node -> Ptr]
        /\ Chain \in Seq(Node) /\ Ahead(next, Chain)
    BY DEF MemInv, MemTypeOK, ListInv, ChainIsList
  <1>1. ASSUME NEW p \in Ptr, New(p)
        PROVE  Recorded' = Recorded
    <2>1. CASE UNCHANGED list
      BY <2>1, ListSame
    <2>2. ASSUME NEW n \in Node \ allocated, pc = "idle",
                 next' = [next EXCEPT ![n] = n], info' = [info EXCEPT ![n] = p]
          PROVE  Recorded' = Recorded
      <3>1. n \in Node \ Range(Chain) /\ n \in Cell
        BY <1>0, <2>2 DEF ListInv, NodesAreKnown, Adding, Cell
      <3>2. next' \in [Cell -> Cell] /\ Ahead(next', Chain)
        BY <1>0, <2>2, <3>1, Elsewhere
      <3>3. Chain' = Chain
        BY <1>0, <3>2, SameChain
      <3>4. \A m \in Range(Chain) : info'[m] = info[m]
        BY <1>0, <2>2, <3>1, SpotFacts
      <3> QED BY <1>0, <3>3, <3>4, ListStays
    <2> QED BY <1>1, <2>1, <2>2 DEF New
  <1>2. ASSUME NEW p \in Ptr, Delete(p)
        PROVE  Recorded' = Recorded
    BY <1>2, ListSame DEF Delete
  <1>3. CASE Add
    <2>1. CASE UNCHANGED <<next, info>>
      BY <2>1, ListSame
    <2>2. CASE pc = "add_next" /\ next' = [next EXCEPT ![node] = next[head_]] /\ UNCHANGED info
      <3>1. Adding
        BY <2>2 DEF Adding
      <3>2. node \in Node \ Range(Chain) /\ node \in Cell /\ head_ \in Cell
        BY <1>0, <3>1, OnItsWay DEF Cell
      <3>3. next' \in [Cell -> Cell] /\ Ahead(next', Chain)
        BY <1>0, <2>2, <3>2, Elsewhere
      <3>4. Chain' = Chain
        BY <1>0, <3>3, SameChain
      <3> QED BY <1>0, <2>2, <3>4, ListStays
    <2>3. CASE pc = "add_head" /\ next' = [next EXCEPT ![head_] = node] /\ UNCHANGED info
      BY <1>0, <2>3, Records DEF Log!LogNext
    <2> QED BY <1>3, <2>1, <2>2, <2>3 DEF Add, ListAdd
  <1>4. CASE Del
    <2>1. CASE UNCHANGED <<next, info>>
      BY <2>1, ListSame
    <2>2. CASE pc = "del_next" /\ next' = [next EXCEPT ![prev[node]] = next[node]] /\ UNCHANGED info
      BY <1>0, <2>2, Forgets DEF Log!LogNext
    <2>3. CASE Free
      <3>1. node \in Node \ Range(Chain) /\ node \in Cell
        BY <1>0, <2>3, OnItsWay DEF Free
      <3>2. next' = [next EXCEPT ![node] = node] /\ info' = [info EXCEPT ![node] = Garbage]
        BY <2>3 DEF Free
      <3>3. next' \in [Cell -> Cell] /\ Ahead(next', Chain)
        BY <1>0, <3>1, <3>2, Elsewhere
      <3>4. Chain' = Chain
        BY <1>0, <3>3, SameChain
      <3>5. \A m \in Range(Chain) : info'[m] = info[m]
        BY <1>0, <3>1, <3>2, SpotFacts
      <3> QED BY <1>0, <3>4, <3>5, ListStays
    <2> QED BY <1>4, <2>1, <2>2, <2>3 DEF Del, ListDel, DelSize
  <1>5. CASE Clear
    BY <1>5, ListSame DEF Clear
  <1>6. ASSUME NEW s \in Signal, Interrupt(s)
        PROVE  Recorded' = Recorded
    BY <1>6, ListSame DEF Interrupt
  <1>7. CASE Handle
    BY <1>7, ListSame DEF Handle
  <1>8. CASE UNCHANGED memVars
    BY <1>8, ListSame DEF memVars
  <1> QED BY <1>1, <1>2, <1>3, <1>4, <1>5, <1>6, <1>7, <1>8 DEF MemNext

(* The pointers keep the list that is promised: an allocation is put in by *)
(* one assignment of ListAdd and taken out by one of ListDel, in front of  *)
(* the older ones, and whatever a signal interrupts sees it whole.         *)
THEOREM LogIsKept == MemSpec => KeepsLog
  <1>1. MemInit => Log!LogInit
    BY MemInitChain DEF Log!LogInit
  <1>2. MemInv /\ [MemNext]_memVars => [Log!LogNext]_Recorded
    BY LogStep
  <1>3. MemSpec => Log!LogSpec
    BY <1>1, <1>2, MemInvHolds, PTL DEF MemSpec, Log!LogSpec
  <1> QED BY <1>3 DEF KeepsLog

=============================================================================
