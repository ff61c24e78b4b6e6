------------------------------- MODULE CirBuf -------------------------------
(***************************************************************************)
(* pkg/jobmanager/cirbuf.go: the ring the job's output waits in, with the  *)
(* goroutine of StreamManager.handleReadData that writes into it.          *)
(*                                                                         *)
(* Every method holds cb.lock from start to end, so each is one step.  A   *)
(* byte of output is represented by its position in the stream, so reading *)
(* the ring back shows which bytes it holds and in which order.            *)
(***************************************************************************)
EXTENDS Integers, Sequences

CONSTANTS
    BufSize,    \* maxSize, the length of cb.buf
    MaxChunk,   \* the most bytes one handleReadData call brings
    MaxOutput   \* bound: the bytes the job prints in a whole run

ASSUME RingAssumption ==
    /\ BufSize \in Nat \ {0}
    /\ MaxChunk \in 1 .. BufSize    \* MaxPacketSize reads, a CirBufSize ring
    /\ MaxOutput \in Nat

VARIABLES
    buf, readPos, writePos, count, totalSize, syncMode, windowSize,
    waiterChan,   \* TRUE when the channel of a parked writer is in cb.waiterChan
    left,         \* handleReadData: bytes of data[offset:] still to be written
    waiting       \* handleReadData: parked on the channel it was given

ringVars == <<buf, readPos, writePos, count, totalSize, syncMode, windowSize>>
vars == <<ringVars, waiterChan, left, waiting>>

Slots == 0 .. BufSize - 1
NoByte == MaxOutput    \* the content of a slot no byte of the stream was written to

\* Every field keeps its range: positions inside the ring, no more bytes than it holds.
TypeOK ==
    /\ buf \in [Slots -> 0 .. MaxOutput]
    /\ readPos \in Slots /\ writePos \in Slots
    /\ count \in 0 .. BufSize /\ totalSize \in 0 .. MaxOutput
    /\ syncMode \in BOOLEAN /\ windowSize \in 0 .. BufSize
    /\ waiterChan \in BOOLEAN /\ waiting \in BOOLEAN
    /\ left \in 0 .. MaxChunk

\* MakeCirBuf(maxSize, initSyncMode).
Init ==
    /\ buf = [s \in Slots |-> NoByte]
    /\ readPos = 0 /\ writePos = 0 /\ count = 0 /\ totalSize = 0
    /\ syncMode \in BOOLEAN /\ windowSize = BufSize
    /\ waiterChan = FALSE /\ left = 0 /\ waiting = FALSE

-----------------------------------------------------------------------------

\* Mutant: nothing is clamped.
Unclamped(n, bound) == n

AtMost(n, bound) == IF n > bound THEN bound ELSE n

HeadPos == totalSize - count

\* PeekDataAt(offset, data) with len(data) = n: the bytes it copies out.
PeekDataAt(offset, n) ==
    LET read == IF offset >= count THEN 0 ELSE AtMost(n, count - offset) IN
    [i \in 1 .. read |-> buf[(readPos + offset + i - 1) % BufSize]]

\* tryWakeWriter closes the channel it finds, which releases the goroutine parked on it.
WakeWriter ==
    /\ waiterChan' = FALSE
    /\ waiting' = IF waiterChan THEN FALSE ELSE waiting

KeepWriter == UNCHANGED <<waiterChan, waiting>>

\* Mutant: bytes go where the reader stands.
WrittenAtReadPos(n) ==
    [s \in Slots |->
        LET d == (s + BufSize - readPos) % BufSize
        IN  IF d < n THEN totalSize + d ELSE buf[s]]

\* The ring after n more bytes: slot s takes byte d of them when it is d past writePos.
Written(n) ==
    [s \in Slots |->
        LET d == (s + BufSize - writePos) % BufSize
        IN  IF d < n THEN totalSize + d ELSE buf[s]]

Offer(n) ==
    /\ left = 0 /\ ~waiting
    /\ totalSize + n <= MaxOutput
    /\ left' = n
    /\ UNCHANGED <<ringVars, waiterChan, waiting>>

WindowFull == syncMode /\ count >= windowSize

\* WriteAvailable, nothing fits: the caller gets a channel and parks on it.
WriteBlocked ==
    /\ left > 0 /\ ~waiting
    /\ WindowFull
    /\ waiterChan' = TRUE /\ waiting' = TRUE
    /\ UNCHANGED <<ringVars, left>>

\* WriteAvailable, n bytes fit: count grows to windowSize, then readPos gives way.
WriteSome ==
    /\ left > 0 /\ ~waiting
    /\ ~WindowFull
    /\ LET n     == IF syncMode THEN AtMost(left, windowSize - count) ELSE left
           kept  == AtMost(count + n, windowSize)
       IN  /\ buf' = Written(n)
           /\ writePos' = (writePos + n) % BufSize
           /\ readPos' = (readPos + (count + n - kept)) % BufSize
           /\ count' = kept
           /\ totalSize' = totalSize + n
           /\ left' = left - n
    /\ UNCHANGED <<syncMode, windowSize, waiterChan, waiting>>

\* Mutant: Consume forgets the parked writer.
ConsumeSilently(n) ==
    /\ n <= count
    /\ readPos' = (readPos + n) % BufSize
    /\ count' = count - n
    /\ UNCHANGED <<buf, writePos, totalSize, syncMode, windowSize, left>>
    /\ KeepWriter

Consume(n) ==
    /\ n <= count    \* more is refused with an error
    /\ readPos' = (readPos + n) % BufSize
    /\ count' = count - n
    /\ UNCHANGED <<buf, writePos, totalSize, syncMode, windowSize, left>>
    /\ WakeWriter

SetEffectiveWindow(sync, size) ==
    LET limit  == AtMost(size, BufSize)
        excess == IF ~sync /\ count > limit THEN count - limit ELSE 0
    IN  /\ windowSize' = limit
        /\ syncMode' = sync
        /\ readPos' = (readPos + excess) % BufSize
        /\ count' = count - excess
        /\ UNCHANGED <<buf, writePos, totalSize, left>>
        /\ IF syncMode /\ (limit > windowSize \/ ~sync) THEN WakeWriter ELSE KeepWriter

Next ==
    \/ \E n \in 1 .. MaxChunk : Offer(n)
    \/ WriteBlocked
    \/ WriteSome
    \/ \E n \in 0 .. BufSize : Consume(n)
    \/ \E sync \in BOOLEAN, size \in 0 .. BufSize + 1 : SetEffectiveWindow(sync, size)

Spec == Init /\ [][Next]_vars

-----------------------------------------------------------------------------

\* Reading the ring gives the bytes of the stream from HeadPos on, in order and without
\* holes, wherever the two positions have wrapped to (PeekDataAt after any mix of
\* WriteAvailable, Consume and SetEffectiveWindow).
PeekIsStream ==
    \A offset, n \in 0 .. BufSize :
        \A i \in 1 .. Len(PeekDataAt(offset, n)) :
            PeekDataAt(offset, n)[i] = HeadPos + offset + i - 1

\* No write ever finds the channel of another parked writer, so WriteAvailable's panic
\* "multiple concurrent blocked writes not allowed" is unreachable.
OneWaiter == left > 0 /\ ~waiting => ~waiterChan

Abstract == INSTANCE ByteWindow WITH
    window <- [head |-> HeadPos,  tail  |-> totalSize,
               sync |-> syncMode, limit |-> windowSize],
    writer <- [left |-> left, waiting |-> waiting]

\* The ring implements the window ByteWindow promises: every method of CirBuf is a step
\* of ByteWindow on the positions the ring holds.
ImplementsWindow == Abstract!WindowSpec

\* No lost wakeup: a writer parked by WriteAvailable is parked on a window that is still
\* full, so Consume and SetEffectiveWindow have woken it whenever they made room.
WakesWriter == waiting => WindowFull
=============================================================================
