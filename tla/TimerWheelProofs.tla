-------------------------- MODULE TimerWheelProofs --------------------------
(* What holds of TimerWheel for every number of slots, precision and bound. *)
EXTENDS TimerWheel, FiniteSetTheorems, TLAPS

-----------------------------------------------------------------------------
(* Arithmetic of slots and rounds *)

(* Division with remainder, in the form the steps below use it. *)
LEMMA DivisionWithRemainder ==
  ASSUME NEW a \in Nat, NEW b \in Nat \ {0}
  PROVE  /\ a \div b \in Nat
         /\ a % b \in 0 .. b - 1
         /\ a = b * (a \div b) + (a % b)
  BY Z3

(* The quotient and the remainder are the only ones. *)
LEMMA QuotientUnique ==
  ASSUME NEW b \in Nat \ {0}, NEW q \in Nat, NEW r \in 0 .. b - 1
  PROVE  /\ (b * q + r) \div b = q
         /\ (b * q + r) % b = r
  BY Z3

(* Less than a round ahead there is no second visit of the same slot. *)
LEMMA NoSecondVisit ==
  ASSUME NEW b \in Nat \ {0}, NEW q \in Nat, NEW k \in Nat,
         q < k, k < q + b
  PROVE  k % b # q % b
  <1>1. /\ q \div b \in Nat /\ q % b \in 0 .. b - 1 /\ q = b * (q \div b) + (q % b)
        /\ k \div b \in Nat /\ k % b \in 0 .. b - 1 /\ k = b * (k \div b) + (k % b)
    BY DivisionWithRemainder
  <1> DEFINE d == (k \div b) - (q \div b)
  <1>2. SUFFICES ASSUME k % b = q % b PROVE FALSE
    OBVIOUS
  <1>3. k - q = b * (k \div b) - b * (q \div b)
    BY <1>1, <1>2
  <1>4. d \in Int /\ k - q = b * d
    BY <1>1, <1>3
  <1>5. d <= 0 \/ d >= 1
    BY <1>4
  <1>6. d <= 0 => b * d <= 0
    BY <1>4, Z3
  <1>7. d >= 1 => b * d >= b
    BY <1>4, Z3
  <1> QED
    BY <1>4, <1>5, <1>6, <1>7

(* A multiple of a slot width that is divisible by the number of slots is  *)
(* the start of a round, and the start of a round is slot 0.               *)
LEMMA RoundStart ==
  ASSUME NEW a \in Nat, NEW b \in Nat \ {0}, NEW c \in Nat \ {0}
  PROVE  /\ a % b = 0 /\ (a \div b) % c = 0 => a % (b * c) = 0
         /\ \A m \in Nat : a = b * c * m => a % b = 0 /\ (a \div b) % c = 0
  <1> DEFINE q == a \div b
             p == q \div c
  <1>1. q \in Nat /\ a = b * q + (a % b) /\ p \in Nat /\ q = c * p + (q % c)
    BY DivisionWithRemainder
  <1>2. ASSUME a % b = 0, q % c = 0 PROVE a % (b * c) = 0
    <2>1. a = (b * c) * p + 0
      BY <1>1, <1>2, Z3
    <2>2. b * c \in Nat \ {0} /\ 0 \in 0 .. (b * c) - 1
      BY Z3
    <2> QED
      BY <1>1, <2>1, <2>2, QuotientUnique
  <1>3. ASSUME NEW m \in Nat, a = b * c * m PROVE a % b = 0 /\ (a \div b) % c = 0
    <2>1. c * m \in Nat /\ a = b * (c * m) + 0
      BY <1>3, Z3
    <2>2. a % b = 0 /\ a \div b = c * m
      BY <2>1, QuotientUnique
    <2>3. c * m = c * m + 0
      BY <2>1
    <2> QED
      BY <2>2, <2>3, QuotientUnique
  <1> QED
    BY <1>2, <1>3

-----------------------------------------------------------------------------
(* Widths *)

LEMMA SpanType ==
  \A n \in 0 .. 4 : LvSpan(n) \in Nat \ {0}
  <1>1. LvSpan(0) \in Nat \ {0}
    BY WheelAssumption DEF LvSpan
  <1> DEFINE R == NFTVR_SIZE  N == NFTVN_SIZE
  <1>2. \A a \in Nat \ {0} : a * N \in Nat \ {0}
    BY WheelAssumption, Z3
  <1>3. LvSpan(1) = R * N /\ LvSpan(2) = R * N * N /\ LvSpan(3) = R * N * N * N
          /\ LvSpan(4) = R * N * N * N * N /\ R \in Nat \ {0}
    BY WheelAssumption DEF LvSpan
  <1> HIDE DEF R, N
  <1>4. R * N \in Nat \ {0} /\ R * N * N \in Nat \ {0}
    BY <1>2, <1>3
  <1>5. R * N * N * N \in Nat \ {0}
    BY <1>2, <1>4
  <1>6. R * N * N * N * N \in Nat \ {0}
    BY <1>2, <1>5
  <1>7. \A n \in 0 .. 4 : n = 0 \/ n = 1 \/ n = 2 \/ n = 3 \/ n = 4
    OBVIOUS
  <1> QED
    BY <1>1, <1>3, <1>4, <1>5, <1>6, <1>7

(* A whole wheel is NFTVN_SIZE slots wide, and one slot of the next. *)
LEMMA SpanNext ==
  \A n \in 1 .. 4 : LvSpan(n) = LvSpan(n - 1) * NFTVN_SIZE
  <1> SUFFICES ASSUME NEW n \in 1 .. 4 PROVE LvSpan(n) = LvSpan(n - 1) * NFTVN_SIZE
    OBVIOUS
  <1>1. n = 1 \/ n = 2 \/ n = 3 \/ n = 4
    OBVIOUS
  <1>2. CASE n = 1
    BY <1>2 DEF LvSpan
  <1>3. CASE n = 2
    BY <1>3 DEF LvSpan
  <1>4. CASE n = 3
    BY <1>4 DEF LvSpan
  <1>5. CASE n = 4
    BY <1>5 DEF LvSpan
  <1> QED
    BY <1>1, <1>2, <1>3, <1>4, <1>5

(* A wheel's slots are whole rounds of every wheel inside it. *)
LEMMA SpanMultiple ==
  ASSUME NEW m \in 0 .. 3, NEW n \in m .. 3
  PROVE  \E c \in Nat : LvSpan(n) = LvSpan(m) * c
  <1> DEFINE N == NFTVN_SIZE
  <1>1. N \in Nat /\ LvSpan(m) \in Nat
    BY SpanType, WheelAssumption
  <1>2. CASE n = m
    <2>1. LvSpan(n) = LvSpan(m) * 1
      BY <1>1, <1>2
    <2> QED
      BY <2>1
  <1>3. CASE n = m + 1
    <2>1. LvSpan(n) = LvSpan(m) * N
      BY <1>3, SpanNext
    <2> QED
      BY <1>1, <2>1
  <1>4. CASE n = m + 2
    <2>1. LvSpan(m + 1) = LvSpan(m) * N /\ LvSpan(n) = LvSpan(m + 1) * N
      BY <1>4, SpanNext
    <2>2. LvSpan(n) = LvSpan(m) * (N * N) /\ N * N \in Nat
      BY <1>1, <2>1, Z3
    <2> QED
      BY <2>2
  <1>5. CASE n = m + 3
    <2>1. /\ LvSpan(m + 1) = LvSpan(m) * N
          /\ LvSpan(m + 2) = LvSpan(m + 1) * N
          /\ LvSpan(n) = LvSpan(m + 2) * N
      BY <1>5, SpanNext
    <2>2. LvSpan(n) = LvSpan(m) * (N * N * N) /\ N * N * N \in Nat
      BY <1>1, <2>1, Z3
    <2> QED
      BY <2>2
  <1> QED
    BY <1>2, <1>3, <1>4, <1>5

-----------------------------------------------------------------------------
(* Where a timer is put *)

(* Every distance belongs to exactly the wheel LevelOf names. *)
LEMMA LevelOfDistance ==
  ASSUME NEW delta \in Nat
  PROVE  /\ LevelOf(delta) \in 0 .. 4
         /\ LevelOf(delta) > 0 => LvSpan(LevelOf(delta) - 1) <= delta
         /\ LevelOf(delta) < 4 => delta < LvSpan(LevelOf(delta))
  <1> DEFINE Fits(n) == /\ n > 0 => LvSpan(n - 1) <= delta
                        /\ n < 4 => delta < LvSpan(n)
  <1>1. \E n \in 0 .. 4 : Fits(n)
    <2>1. \A n \in 0 .. 4 : LvSpan(n) \in Nat
      BY SpanType
    <2>2. CASE delta < LvSpan(0)
      <3>1. Fits(0)
        BY <2>2
      <3> QED
        BY <3>1
    <2>3. CASE LvSpan(0) <= delta /\ delta < LvSpan(1)
      <3>1. Fits(1)
        BY <2>3
      <3> QED
        BY <3>1
    <2>4. CASE LvSpan(1) <= delta /\ delta < LvSpan(2)
      <3>1. Fits(2)
        BY <2>4
      <3> QED
        BY <3>1
    <2>5. CASE LvSpan(2) <= delta /\ delta < LvSpan(3)
      <3>1. Fits(3)
        BY <2>5
      <3> QED
        BY <3>1
    <2>6. CASE LvSpan(3) <= delta
      <3>1. Fits(4)
        BY <2>6
      <3> QED
        BY <3>1
    <2> QED
      BY <2>1, <2>2, <2>3, <2>4, <2>5, <2>6
  <1>2. LevelOf(delta) = CHOOSE n \in 0 .. 4 : Fits(n)
    BY DEF LevelOf
  <1> HIDE DEF Fits
  <1>3. LevelOf(delta) \in 0 .. 4 /\ Fits(LevelOf(delta))
    BY <1>1, <1>2
  <1> QED
    BY <1>3 DEF Fits

LEMMA IndexType ==
  ASSUME NEW c \in Nat
  PROVE  /\ IndexOfTvn(c, 0) \in 0 .. NFTVR_SIZE - 1
         /\ \A n \in 1 .. 4 : IndexOfTvn(c, n) \in 0 .. NFTVN_SIZE - 1
  <1>1. IndexOfTvn(c, 0) \in 0 .. NFTVR_SIZE - 1
    BY DivisionWithRemainder, WheelAssumption DEF IndexOfTvn
  <1>2. ASSUME NEW n \in 1 .. 4 PROVE IndexOfTvn(c, n) \in 0 .. NFTVN_SIZE - 1
    <2>1. LvSpan(n - 1) \in Nat \ {0}
      BY SpanType
    <2>2. c \div LvSpan(n - 1) \in Nat
      BY <2>1, DivisionWithRemainder
    <2>3. (c \div LvSpan(n - 1)) % NFTVN_SIZE \in 0 .. NFTVN_SIZE - 1
      BY <2>2, DivisionWithRemainder, WheelAssumption
    <2> QED
      BY <2>3 DEF IndexOfTvn
  <1> QED
    BY <1>1, <1>2

LEMMA CurrentSlot ==
  ASSUME NEW c \in Nat
  PROVE  /\ <<0, IndexOfTvn(c, 0)>> \in Slot
         /\ \A n \in 1 .. 4 : <<n, IndexOfTvn(c, n)>> \in Slot
  BY IndexType DEF Slot

(* A timer put in wheel n goes to a slot that starts after the present     *)
(* tick, within one round, and not after its own tick.                     *)
Placed(n, i, e) ==
  IF n = 0
  THEN \/ clk <= e /\ e < clk + NFTVR_SIZE /\ i = e % NFTVR_SIZE
       \/ e < clk /\ i = clk % NFTVR_SIZE
  ELSE \E k \in 0 .. e : /\ k % NFTVN_SIZE = i
                         /\ k * LvSpan(n - 1) <= e
                         /\ k * LvSpan(n - 1) < clk + LvSpan(n)
                         /\ clk < k * LvSpan(n - 1)

LEMMA InsertPlaces ==
  ASSUME clk \in Nat, NEW e \in Nat
  PROVE  \E n \in 0 .. 4 : \E i \in Nat :
           /\ GetTimerListVec(e) = <<n, i>>
           /\ <<n, i>> \in Slot
           /\ Placed(n, i, e)
  <1> DEFINE delta == e - clk
             ec == IF delta > MaxTval THEN clk + MaxTval ELSE e
             n == LevelOf(delta)
             i == IndexOfTvn(ec, n)
  <1>1. CASE delta < 0
    <2>1. GetTimerListVec(e) = <<0, clk % NFTVR_SIZE>>
      BY <1>1 DEF GetTimerListVec, IndexOfTvn
    <2>2. clk % NFTVR_SIZE \in 0 .. NFTVR_SIZE - 1
      BY DivisionWithRemainder, WheelAssumption
    <2>3. <<0, clk % NFTVR_SIZE>> \in Slot
      BY <2>2 DEF Slot
    <2>4. Placed(0, clk % NFTVR_SIZE, e)
      BY <1>1 DEF Placed
    <2> QED
      BY <2>1, <2>2, <2>3, <2>4, WheelAssumption
  <1>2. CASE delta >= 0
    <2>1. delta \in Nat /\ e = clk + delta
      BY <1>2
    <2>2. /\ n \in 0 .. 4
          /\ n > 0 => LvSpan(n - 1) <= delta
          /\ n < 4 => delta < LvSpan(n)
      BY <2>1, LevelOfDistance
    <2>3. GetTimerListVec(e) = <<n, i>>
      BY <2>1 DEF GetTimerListVec
    <2>4. MaxTval \in Nat /\ ec \in Nat /\ ec <= e
      BY <2>1, SpanType DEF MaxTval
    <2> HIDE DEF ec
    <2>5. i \in Nat /\ <<n, i>> \in Slot
      <3>1. <<n, i>> \in Slot
        <4>1. \A c \in Nat, m \in 0 .. 4 : <<m, IndexOfTvn(c, m)>> \in Slot
          <5> TAKE c \in Nat, m \in 0 .. 4
          <5>1. m = 0 \/ m \in 1 .. 4
            OBVIOUS
          <5> QED
            BY <5>1, CurrentSlot
        <4> QED
          BY <2>2, <2>4, <4>1
      <3>2. i \in 0 .. NFTVR_SIZE - 1 \/ i \in 0 .. NFTVN_SIZE - 1
        BY <2>2, <2>4, IndexType
      <3> QED
        BY <3>1, <3>2, WheelAssumption
    <2>6. CASE n = 0
      <3>1. NFTVR_SIZE = LvSpan(0)
        BY DEF LvSpan
      <3>2. delta < NFTVR_SIZE
        BY <2>2, <2>6, <3>1
      <3>3. ec = e
        <4>1. LvSpan(0) <= MaxTval
          <5>1. PICK c \in Nat : LvSpan(3) = LvSpan(0) * c
            BY SpanMultiple
          <5>2. LvSpan(4) = LvSpan(3) * NFTVN_SIZE
            BY SpanNext
          <5>3. LvSpan(0) \in Nat \ {0} /\ LvSpan(3) \in Nat \ {0}
            BY SpanType
          <5>4. c >= 1
            BY <5>1, <5>3
          <5>5. LvSpan(0) <= LvSpan(3)
            BY <5>1, <5>3, <5>4, Z3
          <5>6. LvSpan(3) + 1 <= LvSpan(3) * NFTVN_SIZE
            BY <5>3, WheelAssumption, Z3
          <5> QED
            BY <5>2, <5>3, <5>5, <5>6, SpanType DEF MaxTval
        <4> QED
          BY <2>1, <2>2, <2>4, <2>6, <4>1, SpanType DEF ec
      <3>4. i = e % NFTVR_SIZE
        BY <2>6, <3>3 DEF IndexOfTvn
      <3>5. Placed(0, i, e)
        BY <2>1, <3>2, <3>4, WheelAssumption DEF Placed
      <3> QED
        BY <2>3, <2>5, <2>6, <3>5
    <2>7. CASE n # 0
      <3> DEFINE w == LvSpan(n - 1)  k == ec \div w
      <3>1. w \in Nat \ {0} /\ LvSpan(n) \in Nat \ {0} /\ w <= delta
        BY <2>2, <2>7, SpanType
      <3>2. w + 1 <= LvSpan(n)
        <4>1. LvSpan(n) = w * NFTVN_SIZE
          BY <2>2, <2>7, SpanNext
        <4>2. w + 1 <= w * NFTVN_SIZE
          BY <3>1, WheelAssumption, Z3
        <4> QED
          BY <4>1, <4>2
      <3>3. clk + w <= ec /\ ec < clk + LvSpan(n)
        <4>1. CASE delta > MaxTval
          <5>1. ec = clk + MaxTval
            BY <4>1 DEF ec
          <5>2. n = 4
            <6>1. SUFFICES ASSUME n < 4 PROVE FALSE
              BY <2>2
            <6>2. delta < LvSpan(n)
              BY <2>2, <6>1
            <6>3. LvSpan(n) <= LvSpan(3)
              <7>1. PICK c \in Nat : LvSpan(3) = LvSpan(n) * c
                BY <2>2, <6>1, SpanMultiple
              <7>2. LvSpan(3) \in Nat \ {0}
                BY SpanType
              <7>3. c >= 1
                BY <3>1, <7>1, <7>2
              <7> QED
                BY <3>1, <7>1, <7>3, Z3
            <6>4. LvSpan(3) + 1 <= LvSpan(4)
              <7>1. LvSpan(4) = LvSpan(3) * NFTVN_SIZE /\ LvSpan(3) \in Nat \ {0}
                BY SpanNext, SpanType
              <7> QED
                BY <7>1, WheelAssumption, Z3
            <6> QED
              BY <2>1, <3>1, <4>1, <6>2, <6>3, <6>4, SpanType DEF MaxTval
          <5> QED
            BY <3>1, <3>2, <5>1, <5>2 DEF MaxTval
        <4>2. CASE ~ (delta > MaxTval)
          <5>1. ec = e
            BY <4>2 DEF ec
          <5>2. delta < LvSpan(n)
            BY <2>1, <2>2, <2>4, <3>1, <4>2 DEF MaxTval
          <5> QED
            BY <2>1, <3>1, <5>1, <5>2
        <4> QED
          BY <4>1, <4>2
      <3>4. k \in Nat /\ ec % w \in 0 .. w - 1 /\ ec = w * k + (ec % w)
        BY <2>4, <3>1, DivisionWithRemainder
      <3> HIDE DEF w, k
      <3>5. w * k = k * w /\ k * w \in Nat /\ k <= k * w
        BY <3>1, <3>4, Z3
      <3>6. k * w <= e /\ k * w < clk + LvSpan(n) /\ clk < k * w
        <4>1. ec = k * w + (ec % w)
          BY <3>4, <3>5
        <4> QED
          BY <2>4, <3>1, <3>3, <3>4, <3>5, <4>1
      <3>8. k \in 0 .. e
        BY <3>4, <3>5, <3>6
      <3>9. k % NFTVN_SIZE = i
        BY <2>7 DEF IndexOfTvn, k, w
      <3>10. Placed(n, i, e)
        BY <2>7, <3>6, <3>8, <3>9 DEF Placed, w
      <3> QED
        BY <2>2, <2>3, <2>5, <3>10
    <2> QED
      BY <2>6, <2>7
  <1> QED
    BY <1>1, <1>2

-----------------------------------------------------------------------------
(* Types *)

LEMMA JiffersType ==
  ASSUME NEW t \in Nat
  PROVE  GetJiffersFromTime(t) \in Nat
  BY DivisionWithRemainder, WheelAssumption DEF GetJiffersFromTime

(* No operation brings in a timer other than the one AddTimer is given. *)
LEMMA NodesOfAddTimer ==
  ASSUME vec \in [Slot -> SUBSET TimerNode], NEW expire, NEW d, AddTimer(expire, d)
  PROVE  Nodes' \subseteq Nodes \cup
           {[expires |-> GetJiffersFromTime(expire), timer_data |-> d]}
  <1> DEFINE t == [expires |-> GetJiffersFromTime(expire), timer_data |-> d]
  <1>1. vec' = [vec EXCEPT ![GetTimerListVec(t.expires)] = @ \cup {t}]
    BY DEF AddTimer
  <1> HIDE DEF t
  <1>2. \A s \in Slot : vec'[s] \subseteq vec[s] \cup {t}
    BY <1>1
  <1> QED
    BY <1>2 DEF Nodes, t

LEMMA NodesOfCascade ==
  ASSUME vec \in [Slot -> SUBSET TimerNode], Cascade, level \in 1 .. 4, clk \in Nat
  PROVE  Nodes' \subseteq Nodes
  <1>1. <<level, IndexOfTvn(clk, level)>> \in Slot
    BY CurrentSlot
  <1>2. \A s \in Slot :
          vec'[s] \subseteq vec[s] \cup vec[<<level, IndexOfTvn(clk, level)>>]
    BY DEF Cascade
  <1> QED
    BY <1>1, <1>2 DEF Nodes

LEMMA NodesOfSplice ==
  ASSUME vec \in [Slot -> SUBSET TimerNode], Splice
  PROVE  Nodes' \subseteq Nodes
  <1>1. \A s \in Slot : vec'[s] \subseteq vec[s]
    BY DEF Splice
  <1> QED
    BY <1>1 DEF Nodes

LEMMA TypeInit ==
  Init => TypeOK
  <1> SUFFICES ASSUME Init PROVE TypeOK
    OBVIOUS
  <1>1. now \in Nat /\ clk \in Nat
    BY JiffersType, WheelAssumption DEF Init
  <1>2. Nodes = {}
    BY DEF Init, Nodes
  <1>3. IsFiniteSet(Nodes)
    BY <1>2, FS_EmptySet
  <1> QED
    BY <1>1, <1>3 DEF Init, TypeOK

LEMMA TypeStep ==
  TypeOK /\ [Next]_vars => TypeOK'
  <1> SUFFICES ASSUME TypeOK, [Next]_vars PROVE TypeOK'
    OBVIOUS
  <1> USE DEF TypeOK
  <1>1. ASSUME NEW expire \in Expires, NEW d \in Unused, AddTimer(expire, d)
        PROVE  TypeOK'
    <2> DEFINE t == [expires |-> GetJiffersFromTime(expire), timer_data |-> d]
    <2>1. t \in TimerNode
      BY JiffersType, WheelAssumption DEF TimerNode, Unused
    <2>2. vec' \in [Slot -> SUBSET TimerNode]
      BY <1>1, <2>1 DEF AddTimer
    <2>3. IsFiniteSet(Nodes \cup {t})
      BY FS_AddElement
    <2>4. IsFiniteSet(Nodes')
      BY <1>1, <2>3, NodesOfAddTimer, FS_Subset
    <2> QED
      BY <1>1, <2>2, <2>4 DEF AddTimer, call
  <1>2. CASE GetTimer
    <2>1. GetJiffersFromTime(now) \in Nat
      BY JiffersType, WheelAssumption
    <2>2. Nodes' = Nodes
      BY <1>2 DEF GetTimer, base, Nodes
    <2> QED
      BY <1>2, <2>1, <2>2 DEF GetTimer, base
  <1>3. CASE TimerRun
    <2>1. Nodes' = Nodes
      BY <1>3 DEF TimerRun, base, Nodes
    <2> QED
      BY <1>3, <2>1 DEF TimerRun, base
  <1>4. CASE Cascade
    <2>1. <<level, IndexOfTvn(clk, level)>> \in Slot
      BY CurrentSlot
    <2>2. Cardinality(vec[<<level, IndexOfTvn(clk, level)>>]) \in Nat
      <3>1. vec[<<level, IndexOfTvn(clk, level)>>] \subseteq Nodes
        BY <2>1 DEF Nodes
      <3> QED
        BY <3>1, FS_Subset, FS_CardinalityType
    <2>3. IsFiniteSet(Nodes')
      BY <1>4, NodesOfCascade, FS_Subset
    <2>4. vec' \in [Slot -> SUBSET TimerNode]
      BY <1>4, <2>1 DEF Cascade
    <2>5. size' \in Int /\ clk' = clk /\ jiffers' = jiffers /\ all_timer' = all_timer
            /\ now' = now /\ pc' \in {"cascade", "splice"} /\ level' \in 1 .. 4
      BY <1>4, <2>2 DEF Cascade
    <2> QED
      BY <2>3, <2>4, <2>5
  <1>5. CASE Splice
    <2> DEFINE work_list == vec[<<0, IndexOfTvn(clk, 0)>>]
    <2>1. <<0, IndexOfTvn(clk, 0)>> \in Slot
      BY CurrentSlot
    <2>2. work_list \subseteq TimerNode /\ work_list \subseteq Nodes
      BY <2>1 DEF Nodes
    <2>3. Cardinality(work_list) \in Nat
      BY <2>2, FS_Subset, FS_CardinalityType
    <2>4. {x.timer_data : x \in work_list} \in SUBSET TimerData
      BY <2>2 DEF TimerNode
    <2>5. IsFiniteSet(Nodes')
      BY <1>5, NodesOfSplice, FS_Subset
    <2>6. vec' \in [Slot -> SUBSET TimerNode]
      BY <1>5 DEF Splice
    <2>7. all_timer' \in Seq(SUBSET TimerData)
      <3>1. Append(all_timer, {x.timer_data : x \in work_list}) \in Seq(SUBSET TimerData)
        BY <2>4
      <3>2. all_timer' \in {all_timer, Append(all_timer, {x.timer_data : x \in work_list})}
        BY <1>5 DEF Splice
      <3> QED
        BY <3>1, <3>2
    <2>8. size' \in Int /\ clk' \in Nat /\ pc' = "tick"
            /\ level' = level /\ jiffers' = jiffers /\ now' = now
      BY <1>5, <2>3 DEF Splice
    <2> QED
      BY <2>5, <2>6, <2>7, <2>8
  <1>6. CASE TimerRunReturn
    <2>1. Nodes' = Nodes
      BY <1>6 DEF TimerRunReturn, base, Nodes
    <2> QED
      BY <1>6, <2>1 DEF TimerRunReturn, base
  <1>7. CASE ClockAdvance \/ ClockSetBack
    <2>1. Nodes' = Nodes
      BY <1>7 DEF ClockAdvance, ClockSetBack, base, Nodes
    <2> QED
      BY <1>7, <2>1, WheelAssumption DEF ClockAdvance, ClockSetBack, base, call
  <1>8. CASE UNCHANGED vars
    <2>1. Nodes' = Nodes
      BY <1>8 DEF vars, base, Nodes
    <2> QED
      BY <1>8, <2>1 DEF vars, base, call
  <1> QED
    BY <1>1, <1>2, <1>3, <1>4, <1>5, <1>6, <1>7, <1>8 DEF Next, WheelStep

(* Type correctness of the wheel, for every size of the wheels: the slots  *)
(* hold timers, the clock is a tick number and a call of GetTimer is at a  *)
(* place of TimerRun's loop.                                               *)
THEOREM TypeCorrect ==
  Spec => []TypeOK
  <1> QED
    BY TypeInit, TypeStep, PTL DEF Spec

-----------------------------------------------------------------------------
(* Placement *)

(* A slot of a timer just put in meets the invariant, whatever outer       *)
(* wheels are still to be cascaded at this tick.                           *)
LEMMA PlacedMeetsInvariant ==
  ASSUME NEW x \in TimerNode, NEW n \in 0 .. 4, NEW i,
         Placed(n, i, x.expires), clk \in Nat, clk' = clk
  PROVE  /\ n = 0 => PlacedInRoot(x, i)'
         /\ n > 0 => PlacedInOuter(x, n, i)'
  <1>1. CASE n = 0
    BY <1>1 DEF Placed, PlacedInRoot
  <1>2. CASE n > 0
    <2>1. PICK k \in 0 .. x.expires :
            /\ k % NFTVN_SIZE = i
            /\ k * LvSpan(n - 1) <= x.expires
            /\ k * LvSpan(n - 1) < clk + LvSpan(n)
            /\ clk < k * LvSpan(n - 1)
      BY <1>2 DEF Placed
    <2>2. x.expires \in Nat /\ LvSpan(n - 1) \in Nat
      BY <1>2, SpanType DEF TimerNode
    <2>3. k * LvSpan(n - 1) \in Int
      BY <2>2
    <2>4. clk <= k * LvSpan(n - 1) /\ clk # k * LvSpan(n - 1)
      BY <2>1, <2>3
    <2> QED
      BY <1>2, <2>1, <2>4 DEF PlacedInOuter
  <1> QED
    BY <1>1, <1>2

(* A timer that stays where it is keeps its place while the clock stands,  *)
(* as long as no further wheel counts as cascaded.                         *)
LEMMA PlaceKept ==
  ASSUME NEW x, NEW n, NEW i, clk' = clk
  PROVE  /\ PlacedInRoot(x, i) => PlacedInRoot(x, i)'
         /\ PlacedInOuter(x, n, i) /\ (Cascaded(n)' => Cascaded(n))
              => PlacedInOuter(x, n, i)'
  BY DEF PlacedInRoot, PlacedInOuter

(* Within a round of wheel m the clock is at no slot of the wheels outside. *)
LEMMA NotAtOuterSlot ==
  ASSUME clk \in Nat, NEW m \in 0 .. 3, clk % LvSpan(m) # 0,
         NEW n \in m + 1 .. 4, NEW k \in Nat
  PROVE  clk # k * LvSpan(n - 1)
  <1>1. PICK c \in Nat : LvSpan(n - 1) = LvSpan(m) * c
    BY SpanMultiple
  <1>2. LvSpan(m) \in Nat \ {0}
    BY SpanType
  <1>3. SUFFICES ASSUME clk = k * LvSpan(n - 1) PROVE FALSE
    OBVIOUS
  <1>4. clk = LvSpan(m) * (c * k) + 0 /\ c * k \in Nat /\ 0 \in 0 .. LvSpan(m) - 1
    BY <1>1, <1>2, <1>3, Z3
  <1> QED
    BY <1>2, <1>4, QuotientUnique

LEMMA PlacementInit ==
  Init => PlacementInv
  <1> SUFFICES ASSUME Init PROVE PlacementInv
    OBVIOUS
  <1>1. \A s \in Slot : vec[s] = {}
    BY DEF Init
  <1>2. \A i \in 0 .. NFTVR_SIZE - 1 : vec[<<0, i>>] = {}
    BY <1>1 DEF Slot
  <1>3. \A n \in 1 .. 4, i \in 0 .. NFTVN_SIZE - 1 : vec[<<n, i>>] = {}
    BY <1>1 DEF Slot
  <1> QED
    BY <1>2, <1>3 DEF Init, PlacementInv, LoopAtTick, RootPlaced, OuterPlaced

LEMMA PlacementAddTimer ==
  ASSUME TypeOK, PlacementInv, NEW expire \in Expires, NEW d \in Unused,
         AddTimer(expire, d)
  PROVE  PlacementInv'
  <1> DEFINE t == [expires |-> GetJiffersFromTime(expire), timer_data |-> d]
  <1>1. clk \in Nat /\ clk' = clk /\ pc = "idle" /\ pc' = pc /\ level' = level
          /\ jiffers' = jiffers
    BY DEF TypeOK, AddTimer, call
  <1>2. t \in TimerNode
    BY JiffersType, WheelAssumption DEF TimerNode, Unused
  <1>3. PICK m \in 0 .. 4, j \in Nat :
          GetTimerListVec(t.expires) = <<m, j>> /\ Placed(m, j, t.expires)
    BY <1>1, <1>2, InsertPlaces DEF TimerNode
  <1>4. vec' = [vec EXCEPT ![<<m, j>>] = @ \cup {t}]
    BY <1>3 DEF AddTimer
  <1> HIDE DEF t
  <1>5. LoopAtTick'
    BY <1>1 DEF LoopAtTick
  <1>6. RootPlaced'
    <2> SUFFICES ASSUME NEW i \in 0 .. NFTVR_SIZE - 1, NEW x \in vec'[<<0, i>>]
                 PROVE  PlacedInRoot(x, i)'
      BY DEF RootPlaced
    <2>1. <<0, i>> \in Slot
      BY DEF Slot
    <2>2. x \in vec[<<0, i>>] \/ (x = t /\ m = 0 /\ j = i)
      BY <1>4, <2>1 DEF TypeOK
    <2>3. CASE x \in vec[<<0, i>>]
      BY <1>1, <2>3, PlaceKept DEF PlacementInv, RootPlaced
    <2>4. CASE x = t /\ m = 0 /\ j = i
      BY <1>1, <1>2, <1>3, <2>4, PlacedMeetsInvariant
    <2> QED
      BY <2>2, <2>3, <2>4
  <1>7. OuterPlaced'
    <2> SUFFICES ASSUME NEW n \in 1 .. 4, NEW i \in 0 .. NFTVN_SIZE - 1,
                        NEW x \in vec'[<<n, i>>]
                 PROVE  PlacedInOuter(x, n, i)'
      BY DEF OuterPlaced
    <2>1. <<n, i>> \in Slot
      BY DEF Slot
    <2>2. x \in vec[<<n, i>>] \/ (x = t /\ m = n /\ j = i)
      BY <1>4, <2>1 DEF TypeOK
    <2>3. CASE x \in vec[<<n, i>>]
      BY <1>1, <2>3, PlaceKept DEF PlacementInv, OuterPlaced, Cascaded
    <2>4. CASE x = t /\ m = n /\ j = i
      BY <1>1, <1>2, <1>3, <2>4, PlacedMeetsInvariant
    <2> QED
      BY <2>2, <2>3, <2>4
  <1> QED
    BY <1>5, <1>6, <1>7 DEF PlacementInv

LEMMA PlacementTimerRun ==
  ASSUME TypeOK, PlacementInv, TimerRun
  PROVE  PlacementInv'
  <1>1. /\ clk \in Nat /\ clk' = clk /\ vec' = vec /\ jiffers' = jiffers
        /\ clk <= jiffers /\ level' = 1 /\ LvSpan(0) = NFTVR_SIZE
        /\ pc' = IF clk % NFTVR_SIZE = 0 THEN "cascade" ELSE "splice"
    BY DEF TypeOK, TimerRun, base, IndexOfTvn, LvSpan
  <1>2. LoopAtTick'
    BY <1>1 DEF LoopAtTick
  <1>3. RootPlaced'
    BY <1>1, PlaceKept DEF PlacementInv, RootPlaced
  <1>4. OuterPlaced'
    <2> SUFFICES ASSUME NEW n \in 1 .. 4, NEW i \in 0 .. NFTVN_SIZE - 1,
                        NEW x \in vec[<<n, i>>]
                 PROVE  PlacedInOuter(x, n, i)'
      BY <1>1 DEF OuterPlaced
    <2>1. PlacedInOuter(x, n, i)
      BY DEF PlacementInv, OuterPlaced
    <2>2. CASE clk % NFTVR_SIZE = 0
      <3>1. ~ Cascaded(n)'
        BY <1>1, <2>2 DEF Cascaded
      <3> QED
        BY <1>1, <2>1, <3>1, PlaceKept
    <2>3. CASE clk % NFTVR_SIZE # 0
      <3>1. x.expires \in Nat
        <4>1. <<n, i>> \in Slot
          BY DEF Slot
        <4> QED
          BY <4>1 DEF TypeOK, TimerNode
      <3>2. \A k \in 0 .. x.expires : clk # k * LvSpan(n - 1)
        BY <1>1, <2>3, <3>1, NotAtOuterSlot
      <3> QED
        BY <1>1, <2>1, <3>2 DEF PlacedInOuter
    <2> QED
      BY <2>2, <2>3
  <1> QED
    BY <1>2, <1>3, <1>4 DEF PlacementInv

(* The timers Cascade moves land in slots it does not clear, and the slots *)
(* it leaves alone are not those of the present tick.                      *)
LEMMA CascadeSlots ==
  ASSUME clk \in Nat, NEW l \in 1 .. 4, clk % LvSpan(l - 1) = 0
  PROVE  /\ \A i \in 0 .. NFTVN_SIZE - 1 : i # IndexOfTvn(clk, l) =>
              \A k \in Nat : k % NFTVN_SIZE = i => clk # k * LvSpan(l - 1)
         /\ \A e \in Nat : GetTimerListVec(e) # <<l, IndexOfTvn(clk, l)>>
  <1> DEFINE w == LvSpan(l - 1)  q == clk \div w  N == NFTVN_SIZE
  <1>1. w \in Nat \ {0} /\ N \in Nat \ {0} /\ LvSpan(l) = w * N
    BY SpanType, SpanNext, WheelAssumption
  <1>2. q \in Nat /\ clk = w * q + (clk % w) /\ clk % w = 0
    BY <1>1, DivisionWithRemainder
  <1>3. IndexOfTvn(clk, l) = q % N
    BY DEF IndexOfTvn
  <1> HIDE DEF w, q, N
  <1>4. clk = w * q
    BY <1>1, <1>2
  <1>5. ASSUME NEW i \in 0 .. N - 1, i # IndexOfTvn(clk, l),
               NEW k \in Nat, k % N = i
        PROVE  clk # k * w
    <2>1. SUFFICES ASSUME clk = k * w PROVE FALSE
      OBVIOUS
    <2>2. k = q
      BY <1>1, <1>2, <1>4, <2>1, Z3
    <2> QED
      BY <1>3, <1>5, <2>2
  <1>6. ASSUME NEW e \in Nat, GetTimerListVec(e) = <<l, IndexOfTvn(clk, l)>>
        PROVE  FALSE
    <2>1. PICK n \in 0 .. 4, j \in Nat :
            GetTimerListVec(e) = <<n, j>> /\ Placed(n, j, e)
      BY <1>6, InsertPlaces
    <2>2. n = l /\ j = IndexOfTvn(clk, l)
      BY <1>6, <2>1
    <2>3. PICK k \in 0 .. e : k % N = q % N /\ k * w < clk + w * N /\ clk < k * w
      BY <1>1, <1>3, <2>1, <2>2 DEF Placed, w, N
    <2>4. q < k
      BY <1>1, <1>2, <1>4, <2>3, Z3
    <2>5. k < q + N
      <3>1. k * w < (q + N) * w
        BY <1>1, <1>2, <1>4, <2>3, Z3
      <3> QED
        BY <1>1, <1>2, <3>1, Z3
    <2>6. k \in Nat /\ q \in Nat /\ N \in Nat \ {0}
      BY <1>1, <1>2
    <2>7. k % N # q % N
      BY <2>4, <2>5, <2>6, NoSecondVisit
    <2> QED
      BY <2>3, <2>7
  <1> QED
    BY <1>5, <1>6 DEF w, N

LEMMA PlacementCascade ==
  ASSUME TypeOK, PlacementInv, Cascade
  PROVE  PlacementInv'
  <1> DEFINE l == level  index == IndexOfTvn(clk, l)  moved == vec[<<l, index>>]
  <1>1. /\ clk \in Nat /\ clk' = clk /\ l \in 1 .. 4 /\ pc = "cascade"
        /\ jiffers' = jiffers /\ clk <= jiffers /\ clk % LvSpan(l - 1) = 0
    BY DEF TypeOK, Cascade, PlacementInv, LoopAtTick
  <1>2. /\ index = 0 /\ l < 4 => level' = l + 1 /\ pc' = "cascade"
        /\ ~ (index = 0 /\ l < 4) => pc' = "splice"
    BY <1>1 DEF Cascade
  <1>3. /\ vec'[<<l, index>>] = {}
        /\ \A s \in Slot : s # <<l, index>> =>
             \A x \in vec'[s] : x \in vec[s] \/ (x \in moved /\ GetTimerListVec(x.expires) = s)
    BY <1>1, CurrentSlot DEF Cascade
  <1>4. moved \subseteq TimerNode /\ \A s \in Slot : vec[s] \subseteq TimerNode
    BY <1>1, CurrentSlot DEF TypeOK
  <1> HIDE DEF moved
  <1>5. LoopAtTick'
    <2>1. CASE index = 0 /\ l < 4
      <3> DEFINE w == LvSpan(l - 1)
      <3>1. w \in Nat \ {0} /\ LvSpan(l) = w * NFTVN_SIZE
        BY <1>1, SpanType, SpanNext
      <3>2. (clk \div w) % NFTVN_SIZE = 0
        BY <1>1, <2>1 DEF IndexOfTvn
      <3>3. clk % LvSpan(l) = 0
        BY <1>1, <3>1, <3>2, RoundStart, WheelAssumption
      <3> QED
        BY <1>1, <1>2, <2>1, <3>3 DEF LoopAtTick
    <2>2. CASE ~ (index = 0 /\ l < 4)
      BY <1>1, <1>2, <2>2 DEF LoopAtTick
    <2> QED
      BY <2>1, <2>2
  <1>6. RootPlaced'
    <2> SUFFICES ASSUME NEW i \in 0 .. NFTVR_SIZE - 1, NEW x \in vec'[<<0, i>>]
                 PROVE  PlacedInRoot(x, i)'
      BY DEF RootPlaced
    <2>1. <<0, i>> \in Slot /\ <<0, i>> # <<l, index>>
      BY <1>1 DEF Slot
    <2>2. CASE x \in vec[<<0, i>>]
      BY <1>1, <2>2, PlaceKept DEF PlacementInv, RootPlaced
    <2>3. CASE x \in moved /\ GetTimerListVec(x.expires) = <<0, i>>
      <3>1. x.expires \in Nat /\ x \in TimerNode
        BY <1>4, <2>3 DEF TimerNode
      <3>2. Placed(0, i, x.expires)
        <4>1. PICK m \in 0 .. 4, j \in Nat :
                GetTimerListVec(x.expires) = <<m, j>> /\ Placed(m, j, x.expires)
          BY <1>1, <3>1, InsertPlaces
        <4>2. m = 0 /\ j = i
          BY <2>3, <4>1
        <4> QED
          BY <4>1, <4>2
      <3> QED
        BY <1>1, <3>1, <3>2, PlacedMeetsInvariant
    <2> QED
      BY <1>3, <2>1, <2>2, <2>3
  <1>7. OuterPlaced'
    <2> SUFFICES ASSUME NEW n \in 1 .. 4, NEW i \in 0 .. NFTVN_SIZE - 1,
                        NEW x \in vec'[<<n, i>>]
                 PROVE  PlacedInOuter(x, n, i)'
      BY DEF OuterPlaced
    <2>1. <<n, i>> \in Slot /\ <<n, i>> # <<l, index>>
      BY <1>3 DEF Slot
    <2>2. CASE x \in vec[<<n, i>>]
      <3>1. PlacedInOuter(x, n, i) /\ x.expires \in Nat
        BY <1>4, <2>1, <2>2 DEF PlacementInv, OuterPlaced, TimerNode
      <3>2. CASE Cascaded(n)' => Cascaded(n)
        BY <1>1, <3>1, <3>2, PlaceKept
      <3>3. CASE Cascaded(n)' /\ ~ Cascaded(n)
        <4>1. n >= l
          BY <1>1, <3>3 DEF Cascaded
        <4>2. \A k \in 0 .. x.expires : k % NFTVN_SIZE = i => clk # k * LvSpan(n - 1)
          <5>1. CASE n = l
            <6>1. i # IndexOfTvn(clk, l)
              BY <2>1, <5>1
            <6> QED
              BY <1>1, <3>1, <5>1, <6>1, CascadeSlots
          <5>2. CASE n > l
            <6>1. index # 0 /\ l < 4
              BY <1>1, <1>2, <3>3, <5>2 DEF Cascaded
            <6>2. clk % LvSpan(l) # 0
              <7> DEFINE w == LvSpan(l - 1)  m == clk \div LvSpan(l)
              <7>1. w \in Nat \ {0} /\ LvSpan(l) = w * NFTVN_SIZE /\ LvSpan(l) \in Nat \ {0}
                BY <1>1, SpanType, SpanNext
              <7>2. m \in Nat /\ clk = LvSpan(l) * m + (clk % LvSpan(l))
                BY <1>1, <7>1, DivisionWithRemainder
              <7>3. SUFFICES ASSUME clk % LvSpan(l) = 0 PROVE FALSE
                OBVIOUS
              <7> HIDE DEF m
              <7>4. clk = w * NFTVN_SIZE * m
                BY <1>1, <7>1, <7>2, <7>3
              <7> HIDE DEF w
              <7>5. \A c \in Nat : clk = w * NFTVN_SIZE * c => (clk \div w) % NFTVN_SIZE = 0
                <8>1. clk \in Nat /\ w \in Nat \ {0} /\ NFTVN_SIZE \in Nat \ {0}
                  BY <1>1, <7>1, WheelAssumption
                <8> QED
                  BY <8>1, RoundStart
              <7>6. (clk \div w) % NFTVN_SIZE = 0
                BY <7>2, <7>4, <7>5
              <7> QED
                BY <1>1, <6>1, <7>6 DEF IndexOfTvn, w
            <6> QED
              BY <1>1, <3>1, <5>2, <6>1, <6>2, NotAtOuterSlot
          <5> QED
            BY <1>1, <4>1, <5>1, <5>2
        <4> QED
          BY <1>1, <3>1, <4>2 DEF PlacedInOuter
      <3> QED
        BY <3>2, <3>3 DEF Cascaded
    <2>3. CASE x \in moved /\ GetTimerListVec(x.expires) = <<n, i>>
      <3>1. x.expires \in Nat /\ x \in TimerNode
        BY <1>4, <2>3 DEF TimerNode
      <3>2. Placed(n, i, x.expires)
        <4>1. PICK m \in 0 .. 4, j \in Nat :
                GetTimerListVec(x.expires) = <<m, j>> /\ Placed(m, j, x.expires)
          BY <1>1, <3>1, InsertPlaces
        <4>2. m = n /\ j = i
          BY <2>3, <4>1
        <4> QED
          BY <4>1, <4>2
      <3> QED
        BY <1>1, <3>1, <3>2, PlacedMeetsInvariant
    <2> QED
      BY <1>3, <2>1, <2>2, <2>3
  <1> QED
    BY <1>5, <1>6, <1>7 DEF PlacementInv

LEMMA PlacementSplice ==
  ASSUME TypeOK, PlacementInv, Splice
  PROVE  PlacementInv'
  <1> DEFINE r == clk % NFTVR_SIZE
  <1>1. clk \in Nat /\ clk' = clk + 1 /\ pc = "splice" /\ pc' = "tick"
    BY DEF TypeOK, Splice
  <1>2. vec' = [vec EXCEPT ![<<0, r>>] = {}] /\ <<0, r>> \in Slot
    BY <1>1, CurrentSlot DEF Splice, IndexOfTvn
  <1>3. LoopAtTick'
    BY <1>1 DEF LoopAtTick
  <1>4. RootPlaced'
    <2> SUFFICES ASSUME NEW i \in 0 .. NFTVR_SIZE - 1, NEW x \in vec'[<<0, i>>]
                 PROVE  PlacedInRoot(x, i)'
      BY DEF RootPlaced
    <2>1. <<0, i>> \in Slot
      BY DEF Slot
    <2>2. i # r /\ x \in vec[<<0, i>>]
      BY <1>2, <2>1 DEF TypeOK
    <2>3. PlacedInRoot(x, i) /\ x.expires \in Nat
      BY <2>1, <2>2 DEF PlacementInv, RootPlaced, TypeOK, TimerNode
    <2>4. clk <= x.expires /\ x.expires < clk + NFTVR_SIZE /\ i = x.expires % NFTVR_SIZE
      BY <2>2, <2>3 DEF PlacedInRoot
    <2>5. x.expires # clk
      BY <2>2, <2>4
    <2> QED
      BY <1>1, <2>3, <2>4, <2>5, WheelAssumption DEF PlacedInRoot
  <1>5. OuterPlaced'
    <2> SUFFICES ASSUME NEW n \in 1 .. 4, NEW i \in 0 .. NFTVN_SIZE - 1,
                        NEW x \in vec'[<<n, i>>]
                 PROVE  PlacedInOuter(x, n, i)'
      BY DEF OuterPlaced
    <2>1. <<n, i>> \in Slot /\ <<n, i>> # <<0, r>>
      BY DEF Slot
    <2>2. x \in vec[<<n, i>>]
      BY <1>2, <2>1 DEF TypeOK
    <2>3. x.expires \in Nat
      BY <2>1, <2>2 DEF TypeOK, TimerNode
    <2>4. PICK k \in 0 .. x.expires :
            /\ k % NFTVN_SIZE = i
            /\ k * LvSpan(n - 1) <= x.expires
            /\ k * LvSpan(n - 1) < clk + LvSpan(n)
            /\ clk <= k * LvSpan(n - 1)
            /\ clk # k * LvSpan(n - 1)
      BY <1>1, <2>2 DEF PlacementInv, OuterPlaced, PlacedInOuter, Cascaded
    <2>5. LvSpan(n - 1) \in Nat /\ LvSpan(n) \in Nat
      BY SpanType
    <2>6. k * LvSpan(n - 1) \in Int
      BY <2>3, <2>5
    <2>7. k * LvSpan(n - 1) < clk' + LvSpan(n) /\ clk' <= k * LvSpan(n - 1)
      BY <1>1, <2>4, <2>5, <2>6
    <2>8. ~ Cascaded(n)'
      BY <1>1 DEF Cascaded
    <2> QED
      BY <2>4, <2>7, <2>8 DEF PlacedInOuter
  <1> QED
    BY <1>3, <1>4, <1>5 DEF PlacementInv

LEMMA PlacementStep ==
  TypeOK /\ PlacementInv /\ [Next]_vars => PlacementInv'
  <1> SUFFICES ASSUME TypeOK, PlacementInv, [Next]_vars PROVE PlacementInv'
    OBVIOUS
  <1>1. ASSUME vec' = vec, clk' = clk, pc' \notin {"cascade", "splice"}
        PROVE  PlacementInv'
    BY <1>1, PlaceKept
       DEF PlacementInv, LoopAtTick, RootPlaced, OuterPlaced, Cascaded
  <1>2. ASSUME vec' = vec, clk' = clk, pc' = pc, level' = level, jiffers' = jiffers
        PROVE  PlacementInv'
    BY <1>2, PlaceKept
       DEF PlacementInv, LoopAtTick, RootPlaced, OuterPlaced, Cascaded
  <1>3. ASSUME NEW expire \in Expires, NEW d \in Unused, AddTimer(expire, d)
        PROVE  PlacementInv'
    BY <1>3, PlacementAddTimer
  <1>4. CASE GetTimer
    BY <1>1, <1>4 DEF GetTimer, base
  <1>5. CASE TimerRun
    BY <1>5, PlacementTimerRun
  <1>6. CASE Cascade
    BY <1>6, PlacementCascade
  <1>7. CASE Splice
    BY <1>7, PlacementSplice
  <1>8. CASE TimerRunReturn
    BY <1>1, <1>8 DEF TimerRunReturn, base
  <1>9. CASE ClockAdvance \/ ClockSetBack
    BY <1>2, <1>9 DEF ClockAdvance, ClockSetBack, base, call
  <1>10. CASE UNCHANGED vars
    BY <1>2, <1>10 DEF vars, base, call
  <1> QED
    BY <1>3, <1>4, <1>5, <1>6, <1>7, <1>8, <1>9, <1>10 DEF Next, WheelStep

(* Every timer in the wheels stays where the clock will find it in time.   *)
THEOREM Placement ==
  Spec => []PlacementInv
  <1> QED
    BY PlacementInit, PlacementStep, TypeCorrect, PTL DEF Spec

-----------------------------------------------------------------------------
(* The wheels as one set of timers *)

(* The tick a timer in the wheels is handed out in. *)
Due(x) == IF x.expires < clk THEN clk ELSE x.expires

LEMMA AddTimerAdds ==
  ASSUME TypeOK, NEW expire \in Expires, NEW d, AddTimer(expire, d)
  PROVE  Nodes' = Nodes \cup
           {[expires |-> GetJiffersFromTime(expire), timer_data |-> d]}
  <1> DEFINE t == [expires |-> GetJiffersFromTime(expire), timer_data |-> d]
             s == GetTimerListVec(t.expires)
  <1>1. t.expires \in Nat /\ clk \in Nat
    BY JiffersType, WheelAssumption DEF TypeOK
  <1>2. s \in Slot
    BY <1>1, InsertPlaces
  <1>3. vec' = [vec EXCEPT ![s] = @ \cup {t}] /\ vec \in [Slot -> SUBSET TimerNode]
    BY DEF AddTimer, TypeOK
  <1>4. Nodes' \subseteq Nodes \cup {t}
    BY <1>3, NodesOfAddTimer
  <1> HIDE DEF s, t
  <1>5. /\ vec'[s] = vec[s] \cup {t}
        /\ \A c \in Slot : vec[c] \subseteq vec'[c]
    BY <1>2, <1>3
  <1>6. Nodes \cup {t} \subseteq Nodes'
    BY <1>2, <1>5 DEF Nodes
  <1> QED
    BY <1>4, <1>6 DEF t

(* Cascade loses no timer and brings none in. *)
LEMMA CascadeKeeps ==
  ASSUME TypeOK, PlacementInv, Cascade
  PROVE  Nodes' = Nodes
  <1> DEFINE from == <<level, IndexOfTvn(clk, level)>>
  <1>1. clk \in Nat /\ level \in 1 .. 4 /\ clk % LvSpan(level - 1) = 0
          /\ vec \in [Slot -> SUBSET TimerNode]
    BY DEF TypeOK, PlacementInv, LoopAtTick, Cascade
  <1>2. from \in Slot
    BY <1>1, CurrentSlot
  <1>3. \A s \in Slot : vec'[s] = IF s = from THEN {}
               ELSE vec[s] \cup {x \in vec[from] : GetTimerListVec(x.expires) = s}
    BY DEF Cascade
  <1>4. Nodes' \subseteq Nodes
    BY <1>1, NodesOfCascade
  <1>5. ASSUME NEW s \in Slot, NEW x \in vec[s] PROVE x \in Nodes'
    <2>1. CASE s # from
      <3>1. x \in vec'[s]
        BY <1>3, <1>5, <2>1
      <3> QED
        BY <3>1 DEF Nodes
    <2>2. CASE s = from
      <3> DEFINE to == GetTimerListVec(x.expires)
      <3>1. x.expires \in Nat
        BY <1>1, <1>5 DEF TimerNode
      <3>2. to \in Slot
        BY <1>1, <3>1, InsertPlaces
      <3>3. to # from
        BY <1>1, <3>1, CascadeSlots
      <3>4. x \in vec'[to]
        BY <1>3, <1>5, <2>2, <3>2, <3>3
      <3> QED
        BY <3>2, <3>4 DEF Nodes
    <2> QED
      BY <2>1, <2>2
  <1> QED
    BY <1>4, <1>5 DEF Nodes

(* The slot handed out at a tick holds the timers due then and no others,  *)
(* and no copy of them is left elsewhere.                                  *)
LEMMA SpliceRemovesDue ==
  ASSUME TypeOK, PlacementInv, Splice
  PROVE  LET work_list == vec[<<0, IndexOfTvn(clk, 0)>>]
         IN  /\ work_list = {x \in Nodes : Due(x) = clk}
             /\ Nodes' = Nodes \ work_list
             /\ \A x \in Nodes' : Due(x)' = Due(x)
  <1> DEFINE r == <<0, IndexOfTvn(clk, 0)>>  work_list == vec[r]
  <1>1. clk \in Nat /\ clk' = clk + 1 /\ pc = "splice" /\ r \in Slot
          /\ vec \in [Slot -> SUBSET TimerNode]
    BY CurrentSlot DEF TypeOK, Splice
  <1>2. \A x \in Nodes : x.expires \in Nat
    BY <1>1 DEF Nodes, TimerNode
  <1>3. ASSUME NEW x \in work_list PROVE Due(x) = clk
    <2>1. IndexOfTvn(clk, 0) = clk % NFTVR_SIZE
            /\ clk % NFTVR_SIZE \in 0 .. NFTVR_SIZE - 1
      BY <1>1, DivisionWithRemainder, WheelAssumption DEF IndexOfTvn
    <2>2. PlacedInRoot(x, clk % NFTVR_SIZE) /\ x.expires \in Nat
      BY <1>1, <1>2, <1>3, <2>1 DEF PlacementInv, RootPlaced, Nodes
    <2>3. CASE x.expires < clk
      BY <2>3 DEF Due
    <2>4. CASE x.expires >= clk
      <3>1. x.expires < clk + NFTVR_SIZE /\ x.expires % NFTVR_SIZE = clk % NFTVR_SIZE
        BY <1>1, <2>2, <2>4 DEF PlacedInRoot
      <3>2. x.expires = clk
        <4>1. NFTVR_SIZE \in Nat \ {0}
          BY WheelAssumption
        <4>2. clk < x.expires => x.expires % NFTVR_SIZE # clk % NFTVR_SIZE
          BY <1>1, <2>2, <3>1, <4>1, NoSecondVisit
        <4> QED
          BY <1>1, <2>2, <2>4, <3>1, <4>2
      <3> QED
        BY <1>1, <3>2 DEF Due
    <2> QED
      BY <1>1, <2>2, <2>3, <2>4
  <1>4. ASSUME NEW s \in Slot, s # r, NEW x \in vec[s]
        PROVE  x.expires > clk
    <2>1. x.expires \in Nat
      BY <1>1, <1>4 DEF TimerNode
    <2>2. CASE \E i \in 0 .. NFTVR_SIZE - 1 : s = <<0, i>>
      <3>1. PICK i \in 0 .. NFTVR_SIZE - 1 : s = <<0, i>>
        BY <2>2
      <3>2. i # clk % NFTVR_SIZE /\ PlacedInRoot(x, i)
        BY <1>4, <3>1 DEF PlacementInv, RootPlaced, IndexOfTvn
      <3>3. clk <= x.expires /\ x.expires # clk
        BY <3>2 DEF PlacedInRoot
      <3> QED
        BY <1>1, <2>1, <3>3
    <2>3. CASE \E n \in 1 .. 4, i \in 0 .. NFTVN_SIZE - 1 : s = <<n, i>>
      <3>1. PICK n \in 1 .. 4, i \in 0 .. NFTVN_SIZE - 1 : s = <<n, i>>
        BY <2>3
      <3>2. PlacedInOuter(x, n, i) /\ Cascaded(n)
        BY <1>1, <1>4, <3>1 DEF PlacementInv, OuterPlaced, Cascaded
      <3>3. PICK k \in 0 .. x.expires :
              k * LvSpan(n - 1) <= x.expires /\ clk <= k * LvSpan(n - 1)
                /\ clk # k * LvSpan(n - 1)
        BY <3>2 DEF PlacedInOuter
      <3>4. k * LvSpan(n - 1) \in Int
        BY <2>1, SpanType
      <3> QED
        BY <1>1, <2>1, <3>3, <3>4
    <2> QED
      BY <2>2, <2>3 DEF Slot
  <1>5. work_list = {x \in Nodes : Due(x) = clk}
    <2>1. ASSUME NEW x \in Nodes, x \notin work_list PROVE Due(x) # clk
      <3>1. PICK s \in Slot : x \in vec[s]
        BY DEF Nodes
      <3>2. x.expires > clk
        BY <1>4, <2>1, <3>1
      <3> QED
        BY <1>1, <1>2, <2>1, <3>2 DEF Due
    <2> QED
      BY <1>1, <1>3, <2>1 DEF Nodes
  <1>6. Nodes' = Nodes \ work_list
    <2>1. vec'[r] = {} /\ \A s \in Slot : s # r => vec'[s] = vec[s]
      BY <1>1 DEF Splice
    <2>2. \A s \in Slot : s # r => vec[s] \cap work_list = {}
      BY <1>1, <1>2, <1>3, <1>4 DEF Due, Nodes
    <2> QED
      BY <1>1, <2>1, <2>2 DEF Nodes
  <1>7. ASSUME NEW x \in Nodes' PROVE Due(x)' = Due(x)
    <2>1. PICK s \in Slot : s # r /\ x \in vec[s]
      BY <1>1, <1>6, <1>7 DEF Nodes
    <2>2. x.expires > clk /\ x.expires \in Nat
      BY <1>2, <1>4, <2>1 DEF Nodes
    <2> QED
      BY <1>1, <2>2 DEF Due
  <1> QED
    BY <1>5, <1>6, <1>7

-----------------------------------------------------------------------------
(* The timer count *)

LEMMA SizeInit ==
  Init => SizeCoversTimers
  <1> SUFFICES ASSUME Init PROVE SizeCoversTimers
    OBVIOUS
  <1>1. Nodes = {}
    BY DEF Init, Nodes
  <1> QED
    BY <1>1, FS_EmptySet DEF Init, SizeCoversTimers

LEMMA SizeStep ==
  TypeOK /\ PlacementInv /\ SizeCoversTimers /\ [Next]_vars => SizeCoversTimers'
  <1> SUFFICES ASSUME TypeOK, PlacementInv, SizeCoversTimers, [Next]_vars
               PROVE  SizeCoversTimers'
    OBVIOUS
  <1>1. IsFiniteSet(Nodes) /\ Cardinality(Nodes) \in Nat /\ size \in Int
          /\ Cardinality(Nodes) <= size
    BY FS_CardinalityType DEF TypeOK, SizeCoversTimers
  <1>2. ASSUME vec' = vec, size' = size PROVE SizeCoversTimers'
    <2>1. Nodes' = Nodes
      BY <1>2 DEF Nodes
    <2> QED
      BY <1>1, <1>2, <2>1 DEF SizeCoversTimers
  <1>3. ASSUME NEW expire \in Expires, NEW d \in Unused, AddTimer(expire, d)
        PROVE  SizeCoversTimers'
    <2> DEFINE t == [expires |-> GetJiffersFromTime(expire), timer_data |-> d]
    <2>1. Nodes' = Nodes \cup {t}
      BY <1>3, AddTimerAdds
    <2>2. Cardinality(Nodes \cup {t}) <= Cardinality(Nodes) + 1
      <3>1. Cardinality(Nodes \cup {t}) =
              IF t \in Nodes THEN Cardinality(Nodes) ELSE Cardinality(Nodes) + 1
        BY <1>1, FS_AddElement
      <3> QED
        BY <1>1, <3>1
    <2>3. size' = size + 1
      BY <1>3 DEF AddTimer
    <2>4. Cardinality(Nodes \cup {t}) \in Nat
      BY <1>1, FS_AddElement, FS_CardinalityType
    <2> QED
      BY <1>1, <2>1, <2>2, <2>3, <2>4 DEF SizeCoversTimers
  <1>4. CASE Cascade
    <2> DEFINE moved == vec[<<level, IndexOfTvn(clk, level)>>]
    <2>1. Nodes' = Nodes
      BY <1>4, CascadeKeeps
    <2>2. moved \subseteq Nodes
      <3>1. <<level, IndexOfTvn(clk, level)>> \in Slot
        BY CurrentSlot DEF TypeOK
      <3> QED
        BY <3>1 DEF Nodes
    <2>3. Cardinality(moved) \in Nat
      BY <1>1, <2>2, FS_Subset, FS_CardinalityType
    <2>4. size' = size + Cardinality(moved)
      BY <1>4 DEF Cascade
    <2> QED
      BY <1>1, <2>1, <2>3, <2>4 DEF SizeCoversTimers
  <1>5. CASE Splice
    <2> DEFINE work_list == vec[<<0, IndexOfTvn(clk, 0)>>]
    <2>1. work_list \subseteq Nodes /\ Nodes' = Nodes \ work_list
      BY <1>5, SpliceRemovesDue
    <2>2. IsFiniteSet(work_list) /\ Cardinality(work_list) \in Nat
      BY <1>1, <2>1, FS_Subset, FS_CardinalityType
    <2> HIDE DEF work_list
    <2>3. Cardinality(Nodes \ work_list) = Cardinality(Nodes) - Cardinality(work_list)
      <3>1. Nodes \cap work_list = work_list
        BY <2>1
      <3> QED
        BY <1>1, <2>2, <3>1, FS_Difference
    <2>4. size' = size - Cardinality(work_list)
      BY <1>5 DEF Splice, work_list
    <2> QED
      BY <1>1, <2>1, <2>2, <2>3, <2>4 DEF SizeCoversTimers
  <1>6. CASE GetTimer \/ TimerRun \/ TimerRunReturn \/ ClockAdvance \/ ClockSetBack
             \/ UNCHANGED vars
    BY <1>2, <1>6
       DEF GetTimer, TimerRun, TimerRunReturn, ClockAdvance, ClockSetBack, vars, base
  <1> QED
    BY <1>3, <1>4, <1>5, <1>6 DEF Next, WheelStep

(* The count of timers never falls below the number of timers in the       *)
(* wheels, so its unsigned subtraction never wraps and a wheel that still  *)
(* holds a timer never reports that it is empty.                           *)
THEOREM SizeCovers ==
  Spec => []SizeCoversTimers
  <1> QED
    BY SizeInit, SizeStep, TypeCorrect, Placement, PTL DEF Spec

-----------------------------------------------------------------------------
(* The wheels implement the timer queue *)

LEMMA RefineInit ==
  Init => Queue!Init
  <1> SUFFICES ASSUME Init PROVE Queue!Init
    OBVIOUS
  <1>1. Nodes = {}
    BY DEF Init, Nodes
  <1>2. clk \in Nat
    BY JiffersType, WheelAssumption DEF Init
  <1> QED
    BY <1>1, <1>2 DEF Init, Queue!Init

LEMMA RefineStep ==
  TypeOK /\ PlacementInv /\ [Next]_vars => [Queue!Next]_(Queue!vars)
  <1> DEFINE pending == {[timer_data |-> x.timer_data,
                          due |-> IF x.expires < clk THEN clk ELSE x.expires] : x \in Nodes}
  <1> SUFFICES ASSUME TypeOK, PlacementInv, [Next]_vars
               PROVE  [Queue!Next]_(Queue!vars)
    OBVIOUS
  <1>1. ASSUME vec' = vec, clk' = clk PROVE pending' = pending
    BY <1>1 DEF Nodes
  <1>2. ASSUME NEW expire \in Expires, NEW d \in Unused, AddTimer(expire, d)
        PROVE  Queue!Next
    <2> DEFINE e == GetJiffersFromTime(expire)
               t == [expires |-> e, timer_data |-> d]
    <2>1. Nodes' = Nodes \cup {t} /\ clk' = clk
      BY <1>2, AddTimerAdds DEF AddTimer
    <2>2. pending' = pending \cup {[timer_data |-> d, due |-> Queue!DueTick(e)]}
      <3> DEFINE mapped(x) == [timer_data |-> x.timer_data,
                               due |-> IF x.expires < clk THEN clk ELSE x.expires]
      <3>1. pending' = {mapped(x) : x \in Nodes'}
        BY <2>1
      <3>2. mapped(t) = [timer_data |-> d, due |-> Queue!DueTick(e)]
        BY DEF Queue!DueTick
      <3> HIDE DEF mapped, t
      <3>3. {mapped(x) : x \in Nodes \cup {t}} = {mapped(x) : x \in Nodes} \cup {mapped(t)}
        OBVIOUS
      <3>4. pending = {mapped(x) : x \in Nodes}
        BY DEF mapped
      <3> QED
        BY <2>1, <3>1, <3>2, <3>3, <3>4 DEF t
    <2>3. Queue!AddTimer(e, d)
      BY <1>2, <2>2 DEF AddTimer, call, Queue!AddTimer
    <2>4. d \in TimerData
      BY DEF Unused
    <2> QED
      BY <2>3, <2>4 DEF Queue!Next
  <1>3. CASE GetTimer
    <2>1. GetJiffersFromTime(now) \in Nat
      BY JiffersType, WheelAssumption DEF TypeOK
    <2>2. pending' = pending
      BY <1>1, <1>3 DEF GetTimer, base
    <2>3. Queue!GetTimer
      BY <1>3, <2>1, <2>2 DEF GetTimer, base, Queue!GetTimer
    <2> QED
      BY <2>3 DEF Queue!Next
  <1>4. CASE TimerRun
    <2>1. pending' = pending
      BY <1>1, <1>4 DEF TimerRun, base
    <2> QED
      BY <1>4, <2>1 DEF TimerRun, base, Queue!vars
  <1>5. CASE Cascade
    <2>1. Nodes' = Nodes
      BY <1>5, CascadeKeeps
    <2>2. pending' = pending
      BY <1>5, <2>1 DEF Cascade
    <2> QED
      BY <1>5, <2>2 DEF Cascade, Queue!vars
  <1>6. CASE Splice
    <2> DEFINE work_list == vec[<<0, IndexOfTvn(clk, 0)>>]
               dueNow == {p \in pending : p.due = clk}
    <2>1. /\ work_list = {x \in Nodes : Due(x) = clk}
          /\ Nodes' = Nodes \ work_list
          /\ \A x \in Nodes' : Due(x)' = Due(x)
      BY <1>6, SpliceRemovesDue
    <2>2. pending = {[timer_data |-> x.timer_data, due |-> Due(x)] : x \in Nodes}
      BY DEF Due
    <2>3. pending' = {[timer_data |-> x.timer_data, due |-> Due(x)'] : x \in Nodes'}
      BY DEF Due
    <2> HIDE DEF work_list, pending
    <2>4. pending' = {[timer_data |-> x.timer_data, due |-> Due(x)] : x \in Nodes'}
      BY <2>1, <2>3
    <2>5. {p.timer_data : p \in dueNow} = {x.timer_data : x \in work_list}
      <3>1. ASSUME NEW p \in dueNow
            PROVE  p.timer_data \in {x.timer_data : x \in work_list}
        <4>1. PICK x \in Nodes : p = [timer_data |-> x.timer_data, due |-> Due(x)]
          BY <2>2
        <4>2. x \in work_list /\ p.timer_data = x.timer_data
          BY <2>1, <4>1
        <4> QED
          BY <4>2
      <3>2. ASSUME NEW x \in work_list
            PROVE  x.timer_data \in {p.timer_data : p \in dueNow}
        <4> DEFINE p == [timer_data |-> x.timer_data, due |-> Due(x)]
        <4>1. p \in pending /\ p.due = clk /\ p.timer_data = x.timer_data
          BY <2>1, <2>2
        <4> QED
          BY <4>1
      <3> QED
        BY <3>1, <3>2
    <2>6. pending' = pending \ dueNow
      BY <2>1, <2>2, <2>4
    <2>7. /\ pc = "splice" /\ pc' = "tick" /\ clk <= jiffers /\ clk' = clk + 1
          /\ jiffers' = jiffers
          /\ all_timer' = IF work_list = {} THEN all_timer
                          ELSE Append(all_timer, {x.timer_data : x \in work_list})
      BY <1>6 DEF Splice, PlacementInv, LoopAtTick, work_list
    <2>8. {x.timer_data : x \in work_list} = {} <=> work_list = {}
      OBVIOUS
    <2>9. Queue!Tick
      BY <2>5, <2>6, <2>7, <2>8 DEF Queue!Tick, Queue!HandOut, pending
    <2> QED
      BY <2>9 DEF Queue!Next
  <1>7. CASE TimerRunReturn
    <2>1. pending' = pending
      BY <1>1, <1>7 DEF TimerRunReturn, base
    <2>2. Queue!Return
      BY <1>7, <2>1 DEF TimerRunReturn, base, Queue!Return
    <2> QED
      BY <2>2 DEF Queue!Next
  <1>8. CASE ClockAdvance \/ ClockSetBack \/ UNCHANGED vars
    <2>1. vec' = vec /\ clk' = clk /\ pc' = pc /\ jiffers' = jiffers
            /\ all_timer' = all_timer
      BY <1>8 DEF ClockAdvance, ClockSetBack, vars, base, call
    <2>2. pending' = pending
      BY <1>1, <2>1
    <2> QED
      BY <2>1, <2>2 DEF Queue!vars
  <1> QED
    BY <1>2, <1>3, <1>4, <1>5, <1>6, <1>7, <1>8 DEF Next, WheelStep

(* The hierarchical wheel is a timer queue, whatever the number of slots:  *)
(* each timer comes out once, in the tick it is due, and the ticks come    *)
(* out in order.                                                           *)
THEOREM Implementation ==
  Spec => ImplementsTimerQueue
  <1> QED
    BY RefineInit, RefineStep, TypeCorrect, Placement, PTL
       DEF Spec, ImplementsTimerQueue, Queue!Spec

=============================================================================
