---------------------------- MODULE CirBufProofs ----------------------------
(***************************************************************************)
(* Proofs about CirBuf for every buffer size, chunk size and output.       *)
(*                                                                         *)
(* The argument: position p of the stream, while it is in the window, is   *)
(* in slot p % BufSize.  Two positions less than BufSize apart never share *)
(* a slot, so a write never touches a byte that stays in the window.       *)
(***************************************************************************)
EXTENDS CirBuf, RingArithmetic

\* Where the bytes of the window are.
RingHolds ==
    /\ readPos = HeadPos % BufSize
    /\ writePos = totalSize % BufSize
    /\ \A p \in HeadPos .. totalSize - 1 : buf[p % BufSize] = p

\* How the numbers are related.
WindowHolds ==
    /\ count <= totalSize
    /\ totalSize + left <= MaxOutput
    /\ ~syncMode => count <= windowSize

\* What the writer's two flags say.
WriterHolds ==
    /\ waiterChan = waiting
    /\ waiting => left > 0
    /\ WakesWriter

RingInv == TypeOK /\ RingHolds /\ WindowHolds /\ WriterHolds

-----------------------------------------------------------------------------
(* What a write does to the slots: the new bytes are found where they      *)
(* belong, and a byte that stays in the window is not touched.             *)

\* The n bytes just written are in the slots of their positions.
LEMMA WrittenNew ==
    ASSUME RingInv, NEW n \in 1 .. BufSize, NEW p \in totalSize .. totalSize + n - 1
    PROVE  Written(n)[p % BufSize] = p
<1> USE RingAssumption
<1>1. totalSize \in Nat /\ BufSize \in Nat \ {0} /\ writePos = totalSize % BufSize
  BY DEF RingInv, TypeOK, RingHolds
<1>2. PICK d \in 0 .. BufSize - 1 : p = totalSize + d /\ d < n
  BY <1>1
<1>3. ((p % BufSize) + BufSize - writePos) % BufSize = d
  BY <1>1, <1>2, SlotDistance
<1>4. p % BufSize \in Slots
  <2>1. p \in Nat
    BY <1>1
  <2> QED BY <1>1, <2>1, ModDivision DEF Slots
<1> QED BY <1>2, <1>3, <1>4 DEF Written

\* A position of the last BufSize that is not written keeps its byte.
LEMMA WrittenOld ==
    ASSUME RingInv, NEW n \in 1 .. BufSize,
           NEW p \in Nat, p < totalSize, totalSize + n <= p + BufSize
    PROVE  Written(n)[p % BufSize] = buf[p % BufSize]
<1> USE RingAssumption
<1>1. totalSize \in Nat /\ BufSize \in Nat \ {0} /\ writePos = totalSize % BufSize
  BY DEF RingInv, TypeOK, RingHolds
<1>2. PICK d \in 0 .. BufSize - 1 : p + BufSize = totalSize + d /\ d >= n
  BY <1>1
<1>3. (((totalSize + d) % BufSize) + BufSize - writePos) % BufSize = d
  BY <1>1, SlotDistance
<1>4. (totalSize + d) % BufSize = p % BufSize
  BY <1>1, <1>2, ModLap
<1>5. p % BufSize \in Slots
  BY <1>1, ModDivision DEF Slots
<1>6. ((p % BufSize) + BufSize - writePos) % BufSize = d
  BY <1>3, <1>4
<1>7. ~(d < n)
  BY <1>2
<1> QED BY <1>5, <1>6, <1>7 DEF Written

\* The ring after a write still maps every slot to a byte.
LEMMA WrittenType ==
    ASSUME RingInv, NEW n \in 0 .. BufSize, totalSize + n <= MaxOutput
    PROVE  Written(n) \in [Slots -> 0 .. MaxOutput]
<1> USE RingAssumption
<1> DEFINE d(s) == (s + BufSize - writePos) % BufSize
<1>1. TypeOK
  BY DEF RingInv
<1>2. ASSUME NEW s \in Slots
      PROVE  (IF d(s) < n THEN totalSize + d(s) ELSE buf[s]) \in 0 .. MaxOutput
  <2>1. s + BufSize - writePos \in Nat
    BY <1>1 DEF TypeOK, Slots
  <2>2. d(s) \in Nat
    BY <2>1, ModDivision
  <2> HIDE DEF d
  <2>3. buf[s] \in 0 .. MaxOutput /\ totalSize \in Nat
    BY <1>1 DEF TypeOK
  <2> QED BY <2>2, <2>3
<1> QED BY <1>2 DEF Written

\* A position in the window moved by k is again the remainder of a position.
LEMMA SlotMoves ==
    ASSUME RingInv, NEW k \in Nat
    PROVE  /\ (readPos + k) % BufSize = (HeadPos + k) % BufSize
           /\ (writePos + k) % BufSize = (totalSize + k) % BufSize
           /\ (readPos + k) % BufSize \in Slots
           /\ (writePos + k) % BufSize \in Slots
<1> USE RingAssumption
<1>1. HeadPos \in Nat /\ totalSize \in Nat /\ BufSize \in Nat \ {0}
  BY DEF RingInv, TypeOK, WindowHolds, HeadPos
<1>2. readPos = HeadPos % BufSize /\ writePos = totalSize % BufSize
  BY DEF RingInv, RingHolds
<1>3. ((HeadPos % BufSize) + k) % BufSize = (HeadPos + k) % BufSize
  BY <1>1, ModAdd
<1>4. ((totalSize % BufSize) + k) % BufSize = (totalSize + k) % BufSize
  BY <1>1, ModAdd
<1>5. HeadPos + k \in Nat /\ totalSize + k \in Nat
  BY <1>1
<1>6. (HeadPos + k) % BufSize \in Slots /\ (totalSize + k) % BufSize \in Slots
  BY <1>1, <1>5, ModDivision DEF Slots
<1> QED BY <1>2, <1>3, <1>4, <1>6

-----------------------------------------------------------------------------
(* RingInv is an inductive invariant. *)

\* A new ring satisfies the invariant.
LEMMA RingInit == Init => RingInv
<1> SUFFICES ASSUME Init PROVE RingInv
  OBVIOUS
<1> USE RingAssumption
<1>1. 0 % BufSize = 0
  BY ModSmall
<1>2. TypeOK
  <2>1. waiterChan \in BOOLEAN /\ waiting \in BOOLEAN /\ syncMode \in BOOLEAN
    BY Zenon DEF Init
  <2>2. buf \in [Slots -> 0 .. MaxOutput]
    BY DEF Init, NoByte
  <2>3. /\ readPos \in Slots /\ writePos \in Slots /\ left \in 0 .. MaxChunk
        /\ count \in 0 .. BufSize /\ totalSize \in 0 .. MaxOutput
        /\ windowSize \in 0 .. BufSize
    BY DEF Init, Slots
  <2> QED BY <2>1, <2>2, <2>3 DEF TypeOK
<1>3. RingHolds
  BY <1>1 DEF Init, RingHolds, HeadPos
<1>4. WindowHolds
  BY DEF Init, WindowHolds
<1>5. WriterHolds
  BY Zenon DEF Init, WriterHolds, WakesWriter
<1> QED BY <1>2, <1>3, <1>4, <1>5 DEF RingInv

\* A chunk that arrives changes nothing the ring invariant speaks of.
LEMMA OfferKeeps ==
    ASSUME RingInv, NEW n \in 1 .. MaxChunk, Offer(n)
    PROVE  RingInv'
<1> USE RingAssumption
<1>1. TypeOK' /\ WindowHolds' /\ WriterHolds'
  BY DEF RingInv, TypeOK, WindowHolds, WriterHolds, WakesWriter, WindowFull, Offer, ringVars, Slots
<1>2. RingHolds'
  BY DEF RingInv, RingHolds, HeadPos, Offer, ringVars
<1> QED BY <1>1, <1>2 DEF RingInv

\* A writer that parks parks on a full window.
LEMMA WriteBlockedKeeps ==
    ASSUME RingInv, WriteBlocked
    PROVE  RingInv'
<1> USE RingAssumption
<1>1. TypeOK' /\ WindowHolds' /\ WriterHolds'
  BY DEF RingInv, TypeOK, WindowHolds, WriterHolds, WakesWriter, WindowFull, WriteBlocked,
         ringVars, Slots
<1>2. RingHolds'
  BY DEF RingInv, RingHolds, HeadPos, WriteBlocked, ringVars
<1> QED BY <1>1, <1>2 DEF RingInv

\* A write keeps every byte of the window in its slot, and the window within its limit.
LEMMA WriteSomeKeeps ==
    ASSUME RingInv, WriteSome
    PROVE  RingInv'
<1> USE RingAssumption
<1> DEFINE n    == IF syncMode THEN AtMost(left, windowSize - count) ELSE left
           kept == AtMost(count + n, windowSize)
<1>1. TypeOK /\ WindowHolds
  BY DEF RingInv
<1>2. n \in 1 .. BufSize /\ n <= left
  BY <1>1 DEF TypeOK, WindowHolds, WriteSome, WindowFull, AtMost
<1>3. kept \in 0 .. BufSize /\ kept <= count + n /\ kept <= windowSize
  BY <1>1, <1>2 DEF TypeOK, AtMost
<1>4. /\ buf' = Written(n) /\ totalSize' = totalSize + n /\ count' = kept
      /\ writePos' = (writePos + n) % BufSize
      /\ readPos' = (readPos + (count + n - kept)) % BufSize
      /\ left' = left - n
      /\ UNCHANGED <<syncMode, windowSize, waiterChan, waiting>>
  BY DEF WriteSome
<1> HIDE DEF n, kept
<1>5. totalSize + n <= MaxOutput
  BY <1>1, <1>2 DEF WindowHolds, TypeOK
<1>6. count + n - kept \in Nat /\ n \in Nat
  BY <1>1, <1>2, <1>3 DEF TypeOK
<1>7. TypeOK'
  <2>1. buf' \in [Slots -> 0 .. MaxOutput]
    BY <1>2, <1>4, <1>5, WrittenType
  <2>2. readPos' \in Slots /\ writePos' \in Slots
    BY <1>4, <1>6, SlotMoves
  <2>3. count' \in 0 .. BufSize /\ totalSize' \in 0 .. MaxOutput /\ left' \in 0 .. MaxChunk
    BY <1>1, <1>2, <1>3, <1>4, <1>5 DEF TypeOK
  <2> QED BY <1>1, <1>4, <2>1, <2>2, <2>3 DEF TypeOK
<1>8. RingHolds'
  <2>1. HeadPos' = HeadPos + (count + n - kept) /\ HeadPos' \in Nat
    BY <1>1, <1>2, <1>3, <1>4, <1>6 DEF HeadPos, TypeOK, WindowHolds
  <2>2. readPos' = HeadPos' % BufSize
    BY <1>4, <1>6, <2>1, SlotMoves
  <2>3. writePos' = totalSize' % BufSize
    BY <1>4, <1>6, SlotMoves
  <2>4. ASSUME NEW p \in HeadPos' .. totalSize' - 1
        PROVE  buf'[p % BufSize] = p
    <3>1. p \in Nat /\ p < totalSize + n /\ totalSize + n - kept <= p
      BY <1>1, <1>2, <1>3, <1>4, <2>1 DEF HeadPos, TypeOK
    <3>2. CASE p >= totalSize
      BY <1>1, <1>2, <1>4, <3>1, <3>2, WrittenNew DEF TypeOK
    <3>3. CASE p < totalSize
      <4>1. totalSize + n <= p + BufSize
        BY <1>1, <1>2, <1>3, <3>1 DEF TypeOK
      <4>2. Written(n)[p % BufSize] = buf[p % BufSize]
        BY <1>2, <3>1, <3>3, <4>1, WrittenOld
      <4>3. p \in HeadPos .. totalSize - 1
        BY <1>1, <1>6, <2>1, <3>1, <3>3 DEF HeadPos, TypeOK
      <4>4. buf[p % BufSize] = p
        BY <4>3 DEF RingInv, RingHolds
      <4> QED BY <1>4, <4>2, <4>4
    <3> QED BY <1>1, <3>1, <3>2, <3>3 DEF TypeOK
  <2> QED BY <2>2, <2>3, <2>4 DEF RingHolds
<1>9. WindowHolds'
  BY <1>1, <1>2, <1>3, <1>4, <1>5 DEF WindowHolds, TypeOK
<1>10. WriterHolds'
  BY <1>4 DEF RingInv, WriterHolds, WakesWriter, WriteSome
<1> QED BY <1>7, <1>8, <1>9, <1>10 DEF RingInv

\* Consume moves the head over bytes that were there and leaves no writer parked.
LEMMA ConsumeKeeps ==
    ASSUME RingInv, NEW n \in 0 .. BufSize, Consume(n)
    PROVE  RingInv'
<1> USE RingAssumption
<1>1. TypeOK /\ RingHolds /\ WindowHolds /\ WriterHolds
  BY DEF RingInv
<1>2. /\ n <= count /\ readPos' = (readPos + n) % BufSize /\ count' = count - n
      /\ UNCHANGED <<buf, writePos, totalSize, syncMode, windowSize, left>>
      /\ WakeWriter
  BY DEF Consume
<1>3. ~waiterChan' /\ waiterChan' \in BOOLEAN /\ ~waiting' /\ waiting' \in BOOLEAN
  BY <1>1, <1>2, Zenon DEF WakeWriter, WriterHolds, TypeOK
<1>4. TypeOK'
  <2>1. readPos' \in Slots
    BY <1>2, SlotMoves
  <2>2. count' \in 0 .. BufSize
    BY <1>1, <1>2 DEF TypeOK
  <2> QED BY <1>1, <1>2, <1>3, <2>1, <2>2 DEF TypeOK
<1>5. RingHolds'
  <2>1. HeadPos' = HeadPos + n
    BY <1>1, <1>2 DEF HeadPos, TypeOK
  <2>2. readPos' = HeadPos' % BufSize
    BY <1>2, <2>1, SlotMoves
  <2>3. \A p \in HeadPos' .. totalSize' - 1 : p \in HeadPos .. totalSize - 1
    BY <1>1, <1>2, <2>1 DEF HeadPos, TypeOK
  <2> QED BY <1>1, <1>2, <2>2, <2>3 DEF RingHolds
<1>6. WindowHolds'
  BY <1>1, <1>2 DEF WindowHolds, TypeOK
<1>7. WriterHolds'
  BY <1>3, Zenon DEF WriterHolds, WakesWriter
<1> QED BY <1>4, <1>5, <1>6, <1>7 DEF RingInv

\* A new window drops only the oldest bytes and wakes the writer when it made room.
LEMMA SetEffectiveWindowKeeps ==
    ASSUME RingInv, NEW sync \in BOOLEAN, NEW size \in 0 .. BufSize + 1,
           SetEffectiveWindow(sync, size)
    PROVE  RingInv'
<1> USE RingAssumption
<1> DEFINE limit  == AtMost(size, BufSize)
           excess == IF ~sync /\ count > limit THEN count - limit ELSE 0
<1>1. TypeOK /\ RingHolds /\ WindowHolds /\ WriterHolds
  BY DEF RingInv
<1>2. limit \in 0 .. BufSize
  BY DEF AtMost
<1>3. excess \in Nat /\ excess <= count /\ (~sync => count - excess <= limit)
  BY <1>1, <1>2 DEF TypeOK
<1>4. /\ windowSize' = limit /\ syncMode' = sync
      /\ readPos' = (readPos + excess) % BufSize /\ count' = count - excess
      /\ UNCHANGED <<buf, writePos, totalSize, left>>
      /\ IF syncMode /\ (limit > windowSize \/ ~sync) THEN WakeWriter ELSE KeepWriter
      /\ sync => excess = 0
  BY DEF SetEffectiveWindow
<1> HIDE DEF limit, excess
<1>5. waiterChan' \in BOOLEAN /\ waiting' \in BOOLEAN /\ waiterChan' = waiting'
  BY <1>1, <1>4, Zenon DEF WakeWriter, KeepWriter, WriterHolds, TypeOK
<1>6. TypeOK'
  <2>1. readPos' \in Slots
    BY <1>3, <1>4, SlotMoves
  <2>2. count' \in 0 .. BufSize /\ windowSize' \in 0 .. BufSize
    BY <1>1, <1>2, <1>3, <1>4 DEF TypeOK
  <2> QED BY <1>1, <1>4, <1>5, <2>1, <2>2 DEF TypeOK
<1>7. RingHolds'
  <2>1. HeadPos' = HeadPos + excess
    BY <1>1, <1>3, <1>4 DEF HeadPos, TypeOK
  <2>2. readPos' = HeadPos' % BufSize
    BY <1>3, <1>4, <2>1, SlotMoves
  <2>3. \A p \in HeadPos' .. totalSize' - 1 : p \in HeadPos .. totalSize - 1
    BY <1>1, <1>3, <1>4, <2>1 DEF HeadPos, TypeOK
  <2> QED BY <1>1, <1>4, <2>2, <2>3 DEF RingHolds
<1>8. WindowHolds'
  BY <1>1, <1>3, <1>4 DEF WindowHolds, TypeOK
<1>9. WriterHolds'
  <2>1. waiting' => waiting
    BY <1>1, <1>4, Zenon DEF WakeWriter, KeepWriter, TypeOK, WriterHolds
  <2>2. waiting' => sync /\ ~(limit > windowSize)
    <3>1. syncMode /\ (limit > windowSize \/ ~sync) => ~waiting'
      BY <1>1, <1>4, Zenon DEF WakeWriter, WriterHolds
    <3>2. waiting' => syncMode
      BY <1>1, <2>1 DEF WriterHolds, WakesWriter, WindowFull
    <3> QED BY <3>1, <3>2
  <2>3. waiting' => WindowFull'
    BY <1>1, <1>2, <1>3, <1>4, <2>1, <2>2 DEF WriterHolds, WakesWriter, WindowFull, TypeOK
  <2>4. waiting' => left' > 0
    BY <1>1, <1>4, <2>1 DEF WriterHolds
  <2> QED BY <1>5, <2>3, <2>4 DEF WriterHolds, WakesWriter
<1> QED BY <1>6, <1>7, <1>8, <1>9 DEF RingInv

\* Every step of the ring keeps the invariant.
LEMMA RingStep == RingInv /\ [Next]_vars => RingInv'
<1> SUFFICES ASSUME RingInv, [Next]_vars PROVE RingInv'
  OBVIOUS
<1>1. CASE \E n \in 1 .. MaxChunk : Offer(n)
  BY <1>1, OfferKeeps
<1>2. CASE WriteBlocked
  BY <1>2, WriteBlockedKeeps
<1>3. CASE WriteSome
  BY <1>3, WriteSomeKeeps
<1>4. CASE \E n \in 0 .. BufSize : Consume(n)
  BY <1>4, ConsumeKeeps
<1>5. CASE \E sync \in BOOLEAN, size \in 0 .. BufSize + 1 : SetEffectiveWindow(sync, size)
  BY <1>5, SetEffectiveWindowKeeps
<1>6. CASE UNCHANGED vars
  <2>1. TypeOK' /\ WindowHolds' /\ WriterHolds'
    BY <1>6 DEF RingInv, TypeOK, WindowHolds, WriterHolds, WakesWriter, WindowFull, vars,
           ringVars, Slots
  <2>2. RingHolds'
    BY <1>6 DEF RingInv, RingHolds, HeadPos, vars, ringVars
  <2> QED BY <2>1, <2>2 DEF RingInv
<1> QED BY <1>1, <1>2, <1>3, <1>4, <1>5, <1>6 DEF Next

\* RingInv holds in every reachable state of the ring, whatever its size.
THEOREM RingInvariant == Spec => []RingInv
<1>1. Init => RingInv
  BY RingInit
<1>2. RingInv /\ [Next]_vars => RingInv'
  BY RingStep
<1> QED BY <1>1, <1>2, PTL DEF Spec

-----------------------------------------------------------------------------
(* What follows for the ring's users. *)

\* Type correctness of the ring: the positions stay inside the buffer and the count
\* inside the window (cirbuf.go never indexes out of cb.buf).
THEOREM TypeCorrect == Spec => []TypeOK
<1>1. RingInv => TypeOK
  BY DEF RingInv
<1> QED BY <1>1, RingInvariant, PTL

\* PeekDataAt always returns the bytes of the stream from HeadPos + offset on.
THEOREM PeekReturnsStream == Spec => []PeekIsStream
<1>1. RingInv => PeekIsStream
  <2> SUFFICES ASSUME RingInv, NEW offset \in 0 .. BufSize, NEW n \in 0 .. BufSize,
                      NEW i \in 1 .. Len(PeekDataAt(offset, n))
               PROVE  PeekDataAt(offset, n)[i] = HeadPos + offset + i - 1
    BY DEF PeekIsStream
  <2> USE RingAssumption
  <2> DEFINE read == IF offset >= count THEN 0 ELSE AtMost(n, count - offset)
  <2>1. TypeOK /\ WindowHolds /\ RingHolds
    BY DEF RingInv
  <2>2. read \in Nat /\ (read > 0 => offset + read <= count)
    BY <2>1 DEF TypeOK, AtMost
  <2>3. PeekDataAt(offset, n) = [j \in 1 .. read |-> buf[(readPos + offset + j - 1) % BufSize]]
    BY DEF PeekDataAt
  <2> HIDE DEF read
  <2>4. i \in 1 .. read
    BY <2>2, <2>3
  <2>5. PICK k \in Nat : k = offset + i - 1
    BY <2>2, <2>4
  <2>6. (readPos + k) % BufSize = (HeadPos + k) % BufSize
    BY SlotMoves
  <2>7. HeadPos + k \in HeadPos .. totalSize - 1
    BY <2>1, <2>2, <2>4, <2>5 DEF TypeOK, WindowHolds, HeadPos
  <2>8. buf[(HeadPos + k) % BufSize] = HeadPos + k
    BY <2>1, <2>7 DEF RingHolds
  <2>9. readPos + offset + i - 1 = readPos + k /\ HeadPos + offset + i - 1 = HeadPos + k
    BY <2>1, <2>2, <2>4, <2>5 DEF TypeOK, HeadPos, Slots
  <2> QED BY <2>3, <2>4, <2>6, <2>8, <2>9
<1> QED BY <1>1, RingInvariant, PTL

\* A parked writer is parked on a full window: no wakeup is lost, and no second channel
\* is ever offered to waiterChan.
THEOREM WriterWoken == Spec => [](WakesWriter /\ OneWaiter)
<1>1. RingInv => WakesWriter /\ OneWaiter
  BY DEF RingInv, WriterHolds, OneWaiter
<1> QED BY <1>1, RingInvariant, PTL

-----------------------------------------------------------------------------
(* The ring implements the window, step for step. *)

\* The window and the writer the ring stands for.
Win == [head |-> HeadPos, tail |-> totalSize, sync |-> syncMode, limit |-> windowSize]
Wri == [left |-> left, waiting |-> waiting]

\* A new ring is a new window.
LEMMA ImplementsInit == Init => Abstract!WindowInit
<1> SUFFICES ASSUME Init PROVE Abstract!WindowInit
  OBVIOUS
<1>1. syncMode \in BOOLEAN /\ left = 0 /\ waiting = FALSE
  BY Zenon DEF Init
<1>2. HeadPos = 0 /\ totalSize = 0 /\ windowSize = BufSize
  BY DEF Init, HeadPos
<1> QED BY <1>1, <1>2 DEF Abstract!WindowInit, Abstract!EmptyWindow, Abstract!IdleWriter

\* A chunk arriving at the ring is one arriving at the window.
LEMMA ImplementsOffer ==
    ASSUME RingInv, NEW n \in 1 .. MaxChunk, Offer(n)
    PROVE  Abstract!Offer(n)
<1>1. left = 0 /\ waiting = FALSE
  BY Zenon DEF Offer, RingInv, TypeOK
<1>2. left' = n /\ waiting' = FALSE /\ UNCHANGED <<HeadPos, totalSize, syncMode, windowSize>>
  BY <1>1 DEF Offer, ringVars, HeadPos
<1>3. totalSize + n <= MaxOutput
  BY DEF Offer
<1> QED BY <1>1, <1>2, <1>3 DEF Abstract!Offer, Abstract!IdleWriter

\* WriteAvailable on the ring, parking or writing, is WriteAvailable on the window.
LEMMA ImplementsWrite ==
    ASSUME RingInv, WriteBlocked \/ WriteSome
    PROVE  Abstract!WriteAvailable
<1>1. TypeOK /\ WindowHolds
  BY DEF RingInv
<1>2. HeadPos \in Nat /\ totalSize - HeadPos = count
  BY <1>1 DEF TypeOK, WindowHolds, HeadPos
<1>3. left > 0 /\ ~waiting
  BY DEF WriteBlocked, WriteSome
<1>4. Abstract!Full(Win) <=> WindowFull
  BY <1>2 DEF Abstract!Full, Abstract!Count, WindowFull, Win
<1>5. CASE WriteBlocked
  <2>1. WindowFull /\ waiting' = TRUE /\ left' = left
    BY <1>5, Zenon DEF WriteBlocked
  <2>2. Win' = Win
    BY <1>5 DEF WriteBlocked, ringVars, HeadPos, Win
  <2>3. Wri' = Abstract!Parked(Wri)
    BY <2>1 DEF Wri, Abstract!Parked
  <2> QED BY <1>3, <1>4, <2>1, <2>2, <2>3 DEF Abstract!WriteAvailable, Win, Wri
<1>6. CASE WriteSome
  <2> DEFINE n    == IF syncMode THEN AtMost(left, windowSize - count) ELSE left
             kept == AtMost(count + n, windowSize)
  <2>1. ~WindowFull /\ totalSize' = totalSize + n /\ count' = kept /\ left' = left - n
        /\ waiting' = waiting /\ UNCHANGED <<syncMode, windowSize>>
    BY <1>6 DEF WriteSome
  <2>2. n \in Nat
    BY <1>1, <2>1 DEF TypeOK, AtMost, WindowFull
  <2>3. HeadPos' = IF totalSize + n > HeadPos + windowSize
                   THEN totalSize + n - windowSize ELSE HeadPos
    BY <1>1, <2>1, <2>2 DEF TypeOK, AtMost, HeadPos
  <2>4. n = Abstract!Accepted(Win, Wri.left)
    BY <1>2 DEF AtMost, Abstract!AtMost, Abstract!Accepted, Abstract!Count, Win, Wri
  <2> HIDE DEF n, kept
  <2>5. Win' = Abstract!AfterWrite(Win, n)
    <3>1. Abstract!AfterWrite(Win, n)
          = [head |-> IF totalSize + n > HeadPos + windowSize
                      THEN totalSize + n - windowSize ELSE HeadPos,
             tail |-> totalSize + n, sync |-> syncMode, limit |-> windowSize]
      <4>1. HeadPos \in Int /\ totalSize \in Int /\ windowSize \in Int /\ n \in Int
        BY <1>1, <1>2, <2>2 DEF TypeOK
      <4> QED BY <4>1 DEF Abstract!AfterWrite, Win
    <3>2. Win' = [head |-> HeadPos', tail |-> totalSize', sync |-> syncMode',
                  limit |-> windowSize']
      BY DEF Win
    <3>3. syncMode' = syncMode /\ windowSize' = windowSize /\ totalSize' = totalSize + n
      BY <2>1
    <3> QED BY <2>3, <3>1, <3>2, <3>3, Zenon
  <2>6. Wri' = [Wri EXCEPT !.left = @ - n]
    BY <2>1 DEF Wri
  <2> QED BY <1>3, <1>4, <2>1, <2>4, <2>5, <2>6 DEF Abstract!WriteAvailable, Win, Wri
<1> QED BY <1>5, <1>6

\* Consume on the ring is Consume on the window.
LEMMA ImplementsConsume ==
    ASSUME RingInv, NEW n \in 0 .. BufSize, Consume(n)
    PROVE  Abstract!Consume(n)
<1>1. TypeOK /\ WindowHolds /\ WriterHolds
  BY DEF RingInv
<1>2. HeadPos \in Nat /\ totalSize - HeadPos = count
  BY <1>1 DEF TypeOK, WindowHolds, HeadPos
<1>3. n <= count /\ HeadPos' = HeadPos + n
      /\ UNCHANGED <<totalSize, syncMode, windowSize, left>>
  BY <1>1 DEF Consume, HeadPos, TypeOK
<1>4. waiting' = FALSE
  BY <1>1, Zenon DEF Consume, WakeWriter, WriterHolds, TypeOK
<1>5. n <= Abstract!Count(Win)
  BY <1>2, <1>3 DEF Abstract!Count, Win
<1>6. Win' = Abstract!AfterConsume(Win, n)
  BY <1>3 DEF Abstract!AfterConsume, Win
<1>7. Wri' = Abstract!Woken(Wri)
  BY <1>3, <1>4 DEF Abstract!Woken, Wri
<1> QED BY <1>5, <1>6, <1>7 DEF Abstract!Consume, Win, Wri

\* SetEffectiveWindow on the ring is SetEffectiveWindow on the window.
LEMMA ImplementsSetEffectiveWindow ==
    ASSUME RingInv, NEW sync \in BOOLEAN, NEW size \in 0 .. BufSize + 1,
           SetEffectiveWindow(sync, size)
    PROVE  Abstract!SetEffectiveWindow(sync, size)
<1> USE RingAssumption
<1> DEFINE limit == AtMost(size, BufSize)
<1>1. TypeOK /\ WindowHolds /\ WriterHolds
  BY DEF RingInv
<1>2. HeadPos \in Nat /\ totalSize - HeadPos = count /\ limit \in Nat
  BY <1>1 DEF TypeOK, WindowHolds, HeadPos, AtMost
<1>3. limit = Abstract!AtMost(size, BufSize)
  BY DEF AtMost, Abstract!AtMost
<1>4. /\ HeadPos' = IF ~sync /\ count > limit THEN totalSize - limit ELSE HeadPos
      /\ windowSize' = limit /\ syncMode' = sync /\ UNCHANGED <<totalSize, left>>
  BY <1>1, <1>2 DEF SetEffectiveWindow, HeadPos, TypeOK
<1>5. waiting' = IF syncMode /\ (limit > windowSize \/ ~sync) THEN FALSE ELSE waiting
  BY <1>1, Zenon DEF SetEffectiveWindow, WakeWriter, KeepWriter, WriterHolds, TypeOK
<1> HIDE DEF limit
<1> QED BY <1>2, <1>3, <1>4, <1>5
        DEF Abstract!SetEffectiveWindow, Abstract!AfterSetEffectiveWindow, Abstract!Count,
            Abstract!WindowWakes, Abstract!Woken

\* Every behaviour of the ring is one of the window: what StreamManager assumes of its
\* buffer, the ring does.
THEOREM RingImplementsWindow == Spec => ImplementsWindow
<1>1. Init => Abstract!WindowInit
  BY ImplementsInit
<1>2. RingInv /\ [Next]_vars => [Abstract!WindowNext]_(Abstract!windowVars)
  <2> SUFFICES ASSUME RingInv, [Next]_vars
               PROVE  [Abstract!WindowNext]_(Abstract!windowVars)
    OBVIOUS
  <2>1. CASE \E n \in 1 .. MaxChunk : Offer(n)
    BY <2>1, ImplementsOffer DEF Abstract!WindowNext
  <2>2. CASE WriteBlocked \/ WriteSome
    BY <2>2, ImplementsWrite DEF Abstract!WindowNext
  <2>3. CASE \E n \in 0 .. BufSize : Consume(n)
    BY <2>3, ImplementsConsume DEF Abstract!WindowNext
  <2>4. CASE \E sync \in BOOLEAN, size \in 0 .. BufSize + 1 : SetEffectiveWindow(sync, size)
    BY <2>4, ImplementsSetEffectiveWindow DEF Abstract!WindowNext
  <2>5. CASE UNCHANGED vars
    BY <2>5 DEF vars, ringVars, Abstract!windowVars, HeadPos
  <2> QED BY <2>1, <2>2, <2>3, <2>4, <2>5 DEF Next
<1> QED BY <1>1, <1>2, RingInvariant, PTL DEF Spec, ImplementsWindow, Abstract!WindowSpec
=============================================================================
