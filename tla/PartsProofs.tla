----------------------------- MODULE PartsProofs -----------------------------
(***************************************************************************)
(* A Buffer of any size is a queue of bytes; and the memory checker, a     *)
(* buffer and the configuration keep side by side, as they are checked,    *)
(* what each of them has been proved to keep alone.                        *)
(***************************************************************************)
EXTENDS MCParts, MemCheckProofs, ConfigProofs

-----------------------------------------------------------------------------
(* The buffer *)

(* Contents is a sequence of what is in use. *)
LEMMA ContentsIsSequence ==
  ASSUME BufTypeOK
  PROVE  /\ Contents \in Seq(Byte)
         /\ Len(Contents) = UsedSize
         /\ \A i \in 1 .. UsedSize : Contents[i] = base[fpos + i - 1]
  <1>1. UsedSize \in Nat /\ \A i \in 1 .. UsedSize : fpos + i - 1 \in 0 .. lenth - 1
    BY BufferAssumption DEF BufTypeOK, UsedSize
  <1>2. \A i \in 1 .. UsedSize : base[fpos + i - 1] \in Byte
    BY <1>1 DEF BufTypeOK, Arrays
  <1>3. Contents \in [1 .. UsedSize -> Byte]
    BY <1>2 DEF Contents
  <1> QED BY <1>1, <1>3 DEF Contents

(* The positions stay in the array, in order. *)
LEMMA BufTypeStep == BufTypeOK /\ [BufNext]_bufVars => BufTypeOK'
  <1> SUFFICES ASSUME BufTypeOK, [BufNext]_bufVars PROVE BufTypeOK'
    OBVIOUS
  <1> USE BufferAssumption DEF BufTypeOK
  <1>1. ASSUME NEW n \in 0 .. MaxSize, Resize(n) PROVE BufTypeOK'
    BY <1>1 DEF Resize, Arrays
  <1>2. ASSUME NEW n \in 0 .. MaxSize + 1, FrontAdvancing(n) PROVE BufTypeOK'
    BY <1>2 DEF FrontAdvancing
  <1>3. ASSUME NEW n \in 0 .. MaxSize, NEW s \in [1 .. n -> Byte], Fill(s) PROVE BufTypeOK'
    <2>1. Len(s) = n
      OBVIOUS
    <2>2. base' \in Arrays(lenth)
      BY <1>3, <2>1 DEF Fill, Arrays
    <2> QED BY <1>3, <2>1, <2>2 DEF Fill, RemainSize
  <1>4. CASE MemoryMove2Left
    <2>1. base' \in Arrays(lenth)
      BY <1>4 DEF MemoryMove2Left, Arrays, UsedSize
    <2> QED BY <1>4, <2>1 DEF MemoryMove2Left
  <1>5. CASE UNCHANGED bufVars
    BY <1>5 DEF bufVars
  <1> QED BY <1>1, <1>2, <1>3, <1>4, <1>5 DEF BufNext

(* Filling puts the bytes at the end of the queue. *)
LEMMA FillPuts ==
  ASSUME BufTypeOK, BufTypeOK', NEW n \in 0 .. MaxSize, NEW s \in [1 .. n -> Byte], Fill(s)
  PROVE  Queue!Put(s)
  <1>1. s \in Seq(Byte) /\ Len(s) = n
    OBVIOUS
  <1>2. /\ fpos \in Nat /\ tpos \in Nat /\ lenth \in Nat /\ UsedSize \in Nat
        /\ tpos + n <= lenth /\ tpos' = tpos + n /\ fpos' = fpos /\ lenth' = lenth
        /\ fpos <= tpos
    BY <1>1, BufferAssumption DEF BufTypeOK, Fill, RemainSize, UsedSize
  <1>3. UsedSize' = UsedSize + n
    BY <1>2 DEF UsedSize
  <1>4. \A i \in 1 .. UsedSize' :
          Contents'[i] = IF i <= UsedSize THEN Contents[i] ELSE s[i - UsedSize]
    <2> TAKE i \in 1 .. UsedSize'
    <2>1. Contents'[i] = base'[fpos + i - 1] /\ fpos + i - 1 \in DOMAIN base
      BY <1>2, <1>3 DEF Contents, BufTypeOK, Arrays, UsedSize
    <2>2. \A k \in DOMAIN base : base'[k] = IF k \in tpos .. tpos + n - 1
                                           THEN s[k - tpos + 1] ELSE base[k]
      BY <1>1 DEF Fill
    <2>3. CASE i <= UsedSize
      BY <1>2, <2>1, <2>2, <2>3 DEF Contents, UsedSize
    <2>4. CASE i > UsedSize
      <3> DEFINE k == fpos + i - 1
      <3>1. k \in tpos .. tpos + n - 1 /\ k - tpos + 1 = i - UsedSize
        BY <1>2, <1>3, <2>4 DEF UsedSize
      <3>2. Contents'[i] = base'[k] /\ k \in DOMAIN base
        BY <2>1
      <3> HIDE DEF k
      <3>3. Contents'[i] = s[i - UsedSize]
        BY <2>2, <3>1, <3>2
      <3>4. ~ i <= UsedSize
        BY <1>2, <2>4
      <3> QED BY <3>3, <3>4
    <2> QED BY <2>3, <2>4, <1>2
  <1>5. Contents \in Seq(Byte) /\ Len(Contents) = UsedSize
    BY ContentsIsSequence
  <1>6. /\ Contents \o s \in Seq(Byte) /\ Len(Contents \o s) = UsedSize + n
        /\ \A i \in 1 .. UsedSize + n :
             (Contents \o s)[i] = IF i <= UsedSize THEN Contents[i] ELSE s[i - UsedSize]
    BY <1>1, <1>5, ConcatProperties
  <1>7. Contents' = Contents \o s
    <2>1. (Contents \in Seq(Byte) /\ Len(Contents) = UsedSize)'
      BY ContentsIsSequence, PTL
    <2> QED BY <1>1, <1>2, <1>3, <1>4, <1>6, <2>1, SeqEqual
  <1> QED BY <1>1, <1>2, <1>5, <1>7 DEF Queue!Put, UsedSize

(* Advancing the front takes bytes off it, or is ignored if it is too far. *)
LEMMA AdvanceTakes ==
  ASSUME BufTypeOK, BufTypeOK', NEW n \in 0 .. MaxSize + 1, FrontAdvancing(n)
  PROVE  IF n <= UsedSize THEN n \in 0 .. MaxSize /\ Queue!Take(n)
         ELSE UNCHANGED <<Contents, lenth>>
  <1>1. /\ fpos \in Nat /\ tpos \in Nat /\ lenth \in Nat /\ lenth <= MaxSize /\ tpos <= lenth
        /\ UsedSize \in Nat /\ n \in Nat /\ lenth' = lenth /\ base' = base /\ MaxSize \in Nat
    BY BufferAssumption DEF BufTypeOK, FrontAdvancing, UsedSize
  <1>2. CASE fpos + n > tpos
    <2>1. UNCHANGED <<fpos, tpos>>
      BY <1>2 DEF FrontAdvancing
    <2>2. ~ n <= UsedSize
      BY <1>1, <1>2 DEF UsedSize
    <2> QED BY <1>1, <2>1, <2>2 DEF Contents, UsedSize
  <1>3. CASE fpos + n <= tpos
    <2>1. n <= UsedSize /\ n \in 0 .. MaxSize
      BY <1>1, <1>3 DEF UsedSize
    <2>2. Contents \in Seq(Byte) /\ Len(Contents) = UsedSize
      BY ContentsIsSequence
    <2>3. SubSeq(Contents, n + 1, UsedSize) = [i \in 1 .. UsedSize - n |-> Contents[i + n]]
      BY <1>1, <2>1, <2>2
    <2>4. UsedSize' = UsedSize - n
      BY <1>1, <1>3 DEF FrontAdvancing, UsedSize
    <2>5. \A i \in 1 .. UsedSize - n : Contents'[i] = Contents[i + n]
      <3> TAKE i \in 1 .. UsedSize - n
      <3>1. fpos + n < tpos /\ fpos' = fpos + n
        BY <1>1, <1>3 DEF FrontAdvancing, UsedSize
      <3>2. Contents'[i] = base[fpos + n + i - 1] /\ Contents[i + n] = base[fpos + (i + n) - 1]
        BY <1>1, <2>1, <2>4, <3>1 DEF Contents
      <3>3. fpos + n + i - 1 = fpos + (i + n) - 1
        BY <1>1
      <3> QED BY <3>2, <3>3
    <2>6. Contents' = [i \in 1 .. UsedSize - n |-> Contents'[i]]
      BY <2>4 DEF Contents
    <2>7. Contents' = SubSeq(Contents, n + 1, UsedSize)
      BY <2>3, <2>5, <2>6
    <2> QED BY <1>1, <2>1, <2>2, <2>7 DEF Queue!Take
  <1> QED BY <1>1, <1>2, <1>3

(* Moving what is in use to the left leaves the queue as it is. *)
LEMMA MoveKeepsContents ==
  ASSUME BufTypeOK, MemoryMove2Left
  PROVE  UNCHANGED <<Contents, lenth>>
  <1>1. /\ fpos \in Nat /\ tpos \in Nat /\ lenth \in Nat /\ tpos <= lenth /\ fpos <= tpos
        /\ fpos' = 0 /\ tpos' = tpos - fpos /\ UsedSize' = UsedSize
    BY BufferAssumption DEF BufTypeOK, MemoryMove2Left, UsedSize
  <1>2. \A i \in 1 .. UsedSize : base'[0 + i - 1] = base[fpos + i - 1]
    <2> TAKE i \in 1 .. UsedSize
    <2>1. i - 1 \in DOMAIN base /\ i - 1 < UsedSize /\ 0 + i - 1 = i - 1
          /\ fpos + (i - 1) = fpos + i - 1
      BY <1>1 DEF BufTypeOK, Arrays, UsedSize
    <2> QED BY <2>1 DEF MemoryMove2Left
  <1>3. Contents' = Contents
    BY <1>1, <1>2 DEF Contents
  <1> QED BY <1>3 DEF MemoryMove2Left

(* Resizing empties it. *)
LEMMA ResizeRenews ==
  ASSUME NEW n \in 0 .. MaxSize, Resize(n)
  PROVE  Queue!Renew
  <1>1. Contents' = << >>
    BY BufferAssumption DEF Resize, Contents, UsedSize
  <1> QED BY <1>1 DEF Resize, Queue!Renew

-----------------------------------------------------------------------------
(* The positions never leave the array, nor pass each other, whatever is   *)
(* filled, taken or moved.                                                 *)
THEOREM BufTypeHolds == BufSpec => []BufTypeOK
  <1>1. BufInit => BufTypeOK
    BY BufferAssumption DEF BufInit, BufTypeOK
  <1> QED BY <1>1, BufTypeStep, PTL DEF BufSpec

(* The buffer of src/echo_svr/connector.h is a queue: filling puts bytes   *)
(* in at the back, advancing the front takes them, a new size empties it,  *)
(* and moving to the left leaves it as it is.                              *)
THEOREM BufferIsAQueue == BufSpec => KeepsQueue
  <1>1. BufInit => Queue!QueueInit
    BY BufferAssumption DEF BufInit, Queue!QueueInit, Contents, UsedSize
  <1>2. BufTypeOK /\ BufTypeOK' => OperationsAgree
    <2> SUFFICES ASSUME BufTypeOK, BufTypeOK' PROVE OperationsAgree
      OBVIOUS
    <2>1. \A n \in 0 .. MaxSize : Resize(n) => Queue!Renew
      BY ResizeRenews
    <2>2. \A n \in 0 .. MaxSize + 1 : FrontAdvancing(n) =>
            IF n <= UsedSize THEN Queue!Take(n) ELSE UNCHANGED <<Contents, lenth>>
      BY AdvanceTakes
    <2>3. \A n \in 0 .. MaxSize : \A s \in [1 .. n -> Byte] : Fill(s) => Queue!Put(s)
      BY FillPuts
    <2>4. MemoryMove2Left => UNCHANGED <<Contents, lenth>>
      BY MoveKeepsContents
    <2> QED BY <2>1, <2>2, <2>3, <2>4 DEF OperationsAgree
  <1>3. BufTypeOK /\ BufTypeOK' /\ [BufNext]_bufVars => [Queue!QueueNext]_<<Contents, lenth>>
    <2> SUFFICES ASSUME BufTypeOK, BufTypeOK', [BufNext]_bufVars
                 PROVE  Queue!QueueNext \/ UNCHANGED <<Contents, lenth>>
      OBVIOUS
    <2>1. ASSUME NEW n \in 0 .. MaxSize, Resize(n) PROVE Queue!QueueNext
      BY <2>1, ResizeRenews DEF Queue!QueueNext
    <2>2. ASSUME NEW n \in 0 .. MaxSize + 1, FrontAdvancing(n)
          PROVE  Queue!QueueNext \/ UNCHANGED <<Contents, lenth>>
      BY <2>2, AdvanceTakes DEF Queue!QueueNext
    <2>3. ASSUME NEW n \in 0 .. MaxSize, NEW s \in [1 .. n -> Byte], Fill(s)
          PROVE  Queue!QueueNext
      BY <2>3, FillPuts DEF Queue!QueueNext
    <2>4. CASE MemoryMove2Left
      BY <2>4, MoveKeepsContents
    <2>5. CASE UNCHANGED bufVars
      BY <2>5 DEF bufVars, Contents, UsedSize
    <2> QED BY <2>1, <2>2, <2>3, <2>4, <2>5 DEF BufNext
  <1> QED
    BY <1>1, <1>2, <1>3, BufTypeHolds, PTL
    DEF BufSpec, KeepsQueue, Queue!QueueSpec, Queue!queueVars

-----------------------------------------------------------------------------
(* The parts together *)

(* A step of one is a step of each or leaves it alone. *)
LEMMA PartsStep ==
  [PartsNext]_<<part, memVars, bufVars, confVars>> =>
    [MemNext]_memVars /\ [BufNext]_bufVars /\ [ConfNext]_confVars
  BY DEF PartsNext

(* One that has not been chosen stands where it could begin. *)
LEMMA PartsBegin ==
  PartsInit => MemInit /\ BufInit /\ ConfInv
  <1> SUFFICES ASSUME PartsInit
               PROVE  MemInit /\ BufInit /\ ConfInv
    OBVIOUS
  <1>1. BufInit
    BY BufferAssumption DEF PartsInit, BufInit
  <1>2. CASE part = "config"
    BY <1>1, <1>2, ConfInitInv DEF PartsInit
  <1>3. CASE part # "config"
    <2>1. file = << >> /\ exists = FALSE /\ fp = 0 /\ dict = << >> /\ reading = FALSE
      BY <1>3 DEF PartsInit
    <2>2. DOMAIN dict = {} /\ Len(file) = 0 /\ file \in Seq(Char)
      BY <2>1
    <2>3. ConfTypeOK /\ ReadsByPieces /\ AllIsRead
      <3>1. fp \in 0 .. Len(file) /\ exists \in BOOLEAN /\ reading \in BOOLEAN
        <4>1. fp = 0 /\ Len(file) = 0
          BY <2>1, <2>2
        <4>2. fp \in 0 .. Len(file)
          BY <4>1
        <4>3. exists \in BOOLEAN /\ reading \in BOOLEAN
          BY <2>1, Zenon
        <4> QED BY <4>2, <4>3
      <3>2. ConfTypeOK
        BY <2>2, <3>1 DEF ConfTypeOK
      <3>3. ~ exists /\ fp = 0
        BY <2>1
      <3>4. ReadsByPieces
        BY <2>2, <3>3 DEF ReadsByPieces
      <3>5. AllIsRead
        BY <3>3 DEF AllIsRead
      <3> QED BY <3>2, <3>4, <3>5
    <2>4. FirstLineKept
      <3>1. PieceStarts(file) = {}
        BY <2>1 DEF PieceStarts
      <3> QED BY <3>1, <2>2 DEF FirstLineKept, Kept
    <2> QED BY <1>1, <2>3, <2>4 DEF PartsInit, ConfInv
  <1> QED BY <1>2, <1>3

LEMMA PartsAlone ==
  PartsSpec => MemSpec /\ BufSpec /\ []ConfInv
  <1>1. ConfInv /\ [ConfNext]_confVars => ConfInv'
    BY ConfStep
  <1> QED BY <1>1, PartsBegin, PartsStep, PTL DEF PartsSpec, MemSpec, BufSpec

(* Every variable of the memory checker, of a Buffer and of CConfig keeps  *)
(* to what the code takes it for.                                          *)
THEOREM PartsTypeCorrect == PartsSpec => []PartsTypeOK
  <1>1. ConfInv => ConfTypeOK
    BY DEF ConfInv
  <1>2. MemTypeOK /\ BufTypeOK /\ ConfTypeOK => PartsTypeOK
    BY DEF PartsTypeOK
  <1> QED BY <1>1, <1>2, PartsAlone, MemTypeCorrect, BufTypeHolds, PTL

(* Side by side they are what they are alone: the walk over the list of    *)
(* nodes, the report and the log of the memory checker, the queue that a   *)
(* buffer is, and the settings.                                            *)
THEOREM PartsKeep ==
  PartsSpec => /\ [](WalkStaysOnList /\ SettingsAreRead)
               /\ ReportIsWhole /\ KeepsLog /\ KeepsQueue
  <1>1. ConfInv => SettingsAreRead
    BY ConfSettings
  <1> QED
    BY <1>1, PartsAlone, WalkStaysOnListHolds, ReportIsWholeHolds, LogIsKept,
       BufferIsAQueue, PTL

=============================================================================
