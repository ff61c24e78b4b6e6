------------------------ MODULE DurableStreamProofs ------------------------
(***************************************************************************)
(* A durable session's output from end to end: the proofs, for any number  *)
(* of streams, losses and crashes, every size of buffer, window and chunk, *)
(* connections that deliver in order or not.                               *)
(*                                                                         *)
(* The argument: whatever is in flight, held by a reader or on its way to  *)
(* the file is a piece of the output at its own place in it, and what the  *)
(* job manager gives up lies before the end of what was received.          *)
(***************************************************************************)
EXTENDS DurableStream, StreamManagerProofs, FiniteSetTheorems, SequenceTheorems

\* What the two ends' sequences, readers and loops consist of.
Packets == [id : Streams, seq : Nat, n : Nat, end : {"none", "eof", "error"}, first : Nat]
AckRecords == [id : Streams, seq : Nat, rwnd : Nat, fin : BOOLEAN, cancel : BOOLEAN]
Readers == [nextSeq : Nat, buffer : Seq(Nat), eof : BOOLEAN, err : {"none", "error", "closed"},
            closed : BOOLEAN, lastRwndSent : Int, ooo : SUBSET Packets]
Loops == [at : {"none", "reading", "read", "append", "ended"}, from : Nat, bytes : Seq(Nat),
          err : {"none", "eof", "error"}]

PacketEnd(p) == p.seq + p.n
DataOf(packets) == {p \in packets : p.n > 0}
Apart(p, q) == PacketEnd(p) <= q.seq \/ PacketEnd(q) <= p.seq

\* The position of the first byte a reader has not handed out.
Consumed(r) == r.nextSeq - Len(r.buffer)

-----------------------------------------------------------------------------
(* Packets and readers, given how much the job has printed (tail), how its *)
(* output ended (event) and where (end).                                   *)

\* A packet carries the bytes it says; the end of the stream is at the end of the output.
PacketOK(p, tail, event, end) ==
    /\ p \in Packets
    /\ p.first = p.seq /\ PacketEnd(p) <= tail
    /\ p.end # "none" => p.n = 0 /\ p.end = event /\ p.seq = end

\* A reader's buffer is a piece of the output.
ReaderOK(r, tail, event, end) ==
    /\ r \in Readers /\ IsFiniteSet(r.ooo)
    /\ \A p \in r.ooo : PacketOK(p, tail, event, end)
    /\ 0 <= Consumed(r) /\ Len(r.buffer) <= ReadWindow
    /\ \A i \in DOMAIN r.buffer : r.buffer[i] = Consumed(r) + i - 1
    /\ r.eof => event = "eof" /\ r.nextSeq = end
    /\ r.err = "error" => event = "error"
    /\ r.err = "closed" => r.closed

\* Packets that are on their way to a reader, those it holds and those it has taken have no
\* byte in common.
Clear(packets, r) ==
    /\ \A p \in DataOf(packets \cup r.ooo) : r.nextSeq <= p.seq
    /\ \A p \in r.ooo, q \in packets : Apart(p, q)
    /\ \A p, q \in r.ooo : p # q => Apart(p, q)

\* They lie in one window, from position base on.
Bound(packets, r, base) ==
    /\ r.buffer = <<>> \/ base <= Consumed(r)
    /\ \A p \in DataOf(packets \cup r.ooo) : base <= p.seq /\ PacketEnd(p) <= base + ReadWindow

\* A sender whose next byte is at pos, and who may send up to limit, stays in that window.
Sender(packets, r, base, pos, limit) ==
    /\ r.nextSeq <= pos /\ base <= pos /\ limit <= base + ReadWindow
    /\ \A p \in packets \cup r.ooo : PacketEnd(p) <= pos

\* No byte of the stream has been sent.
NoData(packets, r) == DataOf(packets \cup r.ooo) = {} /\ r.buffer = <<>>

\* Packets on a connection keep the order they were sent in.
Ordered(w) == \A i, j \in DOMAIN w : i < j => PacketEnd(w[i]) <= w[j].seq

\* No ack is ahead of its reader, or promises more than it can take.
AcksOK(acks, r) ==
    \A a \in acks : a.seq <= r.nextSeq /\ a.seq + a.rwnd <= Consumed(r) + ReadWindow

\* What a reader's method may do with the packets it is given and those it has: it takes some
\* of them, whole.
Grows(packets, r0, r) ==
    /\ r.ooo \subseteq packets \cup r0.ooo
    /\ r.closed = r0.closed /\ Consumed(r) = Consumed(r0)
    /\ r0.nextSeq <= r.nextSeq
    /\ r.nextSeq = r0.nextSeq \/ \E p \in DataOf(packets \cup r0.ooo) : r.nextSeq = PacketEnd(p)

-----------------------------------------------------------------------------
(* Induction over the naturals, without an operator for what is proved:    *)
(* the least number for which it does not hold.                            *)

\* A set of naturals has a least element.
LEMMA LeastNumber ==
    ASSUME NEW S \in SUBSET Nat, S # {}
    PROVE  \E n \in S : \A m \in S : n <= m
<1> DEFINE T == {0 .. n - 1 : n \in S}
           F == FiniteSubsetsOf(Nat)
<1>1. T \subseteq F
  <2>1. \A n \in S : 0 .. n - 1 \in SUBSET Nat /\ IsFiniteSet(0 .. n - 1)
    BY FS_Interval
  <2> QED BY <2>1 DEF FiniteSubsetsOf
<1>2. PICK x \in T : \A y \in T : ~ (<<y, x>> \in StrictSubsetOrdering(Nat))
  <2>1. IsWellFoundedOn(StrictSubsetOrdering(Nat), F)
    BY FS_StrictSubsetOrderingWellFounded
  <2>2. T # {}
    OBVIOUS
  <2> HIDE DEF T, F
  <2> QED BY <1>1, <2>1, <2>2, WFMin
<1>3. PICK n \in S : x = 0 .. n - 1
  OBVIOUS
<1>4. ASSUME NEW m \in S, m < n PROVE FALSE
  <2>1. 0 .. m - 1 \in T
    OBVIOUS
  <2>2. <<0 .. m - 1, x>> \in StrictSubsetOrdering(Nat)
    BY <1>3, <1>4 DEF StrictSubsetOrdering
  <2> QED BY <1>2, <2>1, <2>2
<1> QED BY <1>4

\* The readers after up to n rounds of processOOOPacketsLocked.
Rounds(f, r0, n) == f = [k \in 0 .. n |-> IF k = 0 THEN r0 ELSE ReleaseOne(f[k - 1])]

\* Released is one of them, its recursion has a solution.
LEMMA RoundsExist ==
    ASSUME NEW r0, NEW n \in Nat
    PROVE  \E f : Rounds(f, r0, n)
<1> DEFINE S == {m \in Nat : ~ \E f : Rounds(f, r0, m)}
<1>1. SUFFICES ASSUME S # {} PROVE FALSE
  OBVIOUS
<1>2. PICK m \in S : \A l \in S : m <= l
  <2>1. S \subseteq Nat
    OBVIOUS
  <2> HIDE DEF S
  <2> QED BY <1>1, <2>1, LeastNumber
<1>3. m # 0
  <2>1. Rounds([k \in 0 .. 0 |-> r0], r0, 0)
    BY DEF Rounds
  <2> QED BY <2>1
<1>4. m - 1 \in Nat /\ m - 1 \notin S
  BY <1>2, <1>3
<1>5. PICK f : Rounds(f, r0, m - 1)
  BY <1>4
<1> DEFINE g == [k \in 0 .. m |-> IF k < m THEN f[k] ELSE ReleaseOne(f[m - 1])]
<1>6. Rounds(g, r0, m)
  <2>1. \A k \in 0 .. m : g[k] = IF k = 0 THEN r0 ELSE ReleaseOne(g[k - 1])
    <3>1. f = [k \in 0 .. m - 1 |-> IF k = 0 THEN r0 ELSE ReleaseOne(f[k - 1])]
      BY <1>5 DEF Rounds
    <3>2. \A k \in 0 .. m - 1 : f[k] = IF k = 0 THEN r0 ELSE ReleaseOne(f[k - 1])
      BY <3>1, Zenon
    <3>3. \A k \in 0 .. m : g[k] = IF k < m THEN f[k] ELSE ReleaseOne(f[m - 1])
      OBVIOUS
    <3> HIDE DEF g
    <3>4. TAKE k \in 0 .. m
    <3>5. CASE k = m
      BY <3>3, <3>5, <1>3, <1>4
    <3>6. CASE k # m
      BY <3>2, <3>3, <3>6, <1>3, <1>4
    <3> QED BY <3>5, <3>6
  <2>2. g = [k \in 0 .. m |-> g[k]]
    OBVIOUS
  <2> HIDE DEF g
  <2> QED BY <2>1, <2>2 DEF Rounds
<1> QED BY <1>2, <1>6

\* What Released computes is the last of n rounds of ReleaseOne, each from the one before.
LEMMA ReleasedIsLast ==
    ASSUME NEW r0, NEW n \in Nat
    PROVE  \E f : /\ Released(r0, n) = f[n] /\ f[0] = r0
                  /\ \A k \in 1 .. n : f[k] = ReleaseOne(f[k - 1])
<1> DEFINE f == CHOOSE h : Rounds(h, r0, n)
<1>1. Rounds(f, r0, n)
  BY RoundsExist
<1>2. Released(r0, n) = f[n]
  BY DEF Released, Rounds
<1> HIDE DEF f
<1>3. f = [k \in 0 .. n |-> IF k = 0 THEN r0 ELSE ReleaseOne(f[k - 1])]
  BY <1>1 DEF Rounds
<1>4. \A k \in 0 .. n : f[k] = IF k = 0 THEN r0 ELSE ReleaseOne(f[k - 1])
  BY <1>3, Zenon
<1>5. f[0] = r0 /\ \A k \in 1 .. n : f[k] = ReleaseOne(f[k - 1])
  BY <1>4
<1> QED BY <1>2, <1>5

-----------------------------------------------------------------------------
(* Readers. *)

\* The fields of a reader.
LEMMA ReaderFields ==
    ASSUME NEW r \in Readers
    PROVE  /\ r.nextSeq \in Nat /\ r.buffer \in Seq(Nat) /\ Len(r.buffer) \in Nat
           /\ r.eof \in BOOLEAN /\ r.err \in {"none", "error", "closed"} /\ r.closed \in BOOLEAN
           /\ r.lastRwndSent \in Int /\ r.ooo \in SUBSET Packets
           /\ DOMAIN r.buffer = 1 .. Len(r.buffer)
           /\ Consumed(r) \in Int
BY DEF Readers, Consumed

\* A new reader waits for its first byte.
LEMMA NewReaderFields ==
    ASSUME NEW seq \in Nat
    PROVE  LET r == NewReader(seq) IN
           /\ r \in Readers /\ r.nextSeq = seq /\ r.buffer = <<>> /\ r.ooo = {} /\ ~r.closed
           /\ ~r.eof /\ r.err = "none"
<1>1. <<>> \in Seq(Nat) /\ ReadWindow \in Int
  BY ReaderAssumption
<1> QED BY <1>1 DEF NewReader, Readers

\* A client that has no reader has a closed and empty one.
LEMMA NoReaderFields ==
    /\ NoReader \in Readers /\ NoReader.nextSeq = 0 /\ NoReader.buffer = <<>>
    /\ NoReader.ooo = {} /\ NoReader.closed /\ ~NoReader.eof /\ NoReader.err = "none"
<1>1. <<>> \in Seq(Nat) /\ ReadWindow \in Int
  BY ReaderAssumption
<1> QED BY <1>1 DEF NoReader, NewReader, Readers

\* The bytes of a packet, in place.
LEMMA BytesOfPacket ==
    ASSUME NEW p \in Packets
    PROVE  /\ Bytes(p) \in Seq(Nat) /\ Len(Bytes(p)) = p.n
           /\ \A i \in 1 .. p.n : Bytes(p)[i] = p.first + i - 1
<1>1. p.n \in Nat /\ p.first \in Nat
  BY DEF Packets
<1>2. Bytes(p) \in [1 .. p.n -> Nat]
  BY <1>1 DEF Bytes
<1>3. Bytes(p) \in Seq(Nat)
  BY <1>1, <1>2
<1> QED BY <1>1, <1>2, <1>3 DEF Bytes

\* recvDataOrderedLocked: the buffer grows by the packet.
LEMMA TakenFields ==
    ASSUME NEW r \in Readers, NEW p \in Packets
    PROVE  LET new == TakeInOrder(r, p) IN
           /\ new \in Readers
           /\ new.nextSeq = r.nextSeq + p.n /\ new.buffer = r.buffer \o Bytes(p)
           /\ Len(new.buffer) = Len(r.buffer) + p.n /\ Consumed(new) = Consumed(r)
           /\ \A i \in 1 .. Len(r.buffer) : new.buffer[i] = r.buffer[i]
           /\ \A i \in 1 .. p.n : new.buffer[Len(r.buffer) + i] = p.first + i - 1
           /\ new.eof = (r.eof \/ p.end = "eof")
           /\ new.err = r.err /\ new.closed = r.closed /\ new.ooo = r.ooo
           /\ new.lastRwndSent = r.lastRwndSent
<1> DEFINE buf == r.buffer \o Bytes(p)
           next == r.nextSeq + p.n
           eof == r.eof \/ p.end = "eof"
           new == TakeInOrder(r, p)
<1>1. p.n \in Nat /\ p.first \in Nat
  BY DEF Packets
<1>2. /\ r.nextSeq \in Nat /\ r.buffer \in Seq(Nat) /\ Len(r.buffer) \in Nat
  BY ReaderFields
<1>3. /\ buf \in Seq(Nat) /\ Len(buf) = Len(r.buffer) + p.n
      /\ \A i \in 1 .. Len(r.buffer) : buf[i] = r.buffer[i]
      /\ \A i \in 1 .. p.n : buf[Len(r.buffer) + i] = p.first + i - 1
  <2> DEFINE b == Bytes(p)
  <2>1. b \in Seq(Nat) /\ Len(b) = p.n /\ \A i \in 1 .. p.n : b[i] = p.first + i - 1
    BY BytesOfPacket, Zenon
  <2> HIDE DEF b
  <2>2. /\ r.buffer \o b \in Seq(Nat) /\ Len(r.buffer \o b) = Len(r.buffer) + p.n
        /\ \A i \in 1 .. Len(r.buffer) + p.n :
             (r.buffer \o b)[i] = IF i <= Len(r.buffer) THEN r.buffer[i] ELSE b[i - Len(r.buffer)]
    <3>1. /\ r.buffer \o b \in Seq(Nat) /\ Len(r.buffer \o b) = Len(r.buffer) + Len(b)
          /\ \A i \in 1 .. Len(r.buffer) + Len(b) :
             (r.buffer \o b)[i] = IF i <= Len(r.buffer) THEN r.buffer[i] ELSE b[i - Len(r.buffer)]
      BY <1>2, <2>1, ConcatProperties
    <3> QED BY <2>1, <3>1
  <2>3. ASSUME NEW i \in 1 .. Len(r.buffer) PROVE (r.buffer \o b)[i] = r.buffer[i]
    BY <1>1, <1>2, <2>2
  <2>4. ASSUME NEW i \in 1 .. p.n
        PROVE  (r.buffer \o b)[Len(r.buffer) + i] = p.first + i - 1
    <3>1. /\ Len(r.buffer) + i \in 1 .. Len(r.buffer) + p.n
          /\ ~(Len(r.buffer) + i <= Len(r.buffer)) /\ (Len(r.buffer) + i) - Len(r.buffer) = i
      BY <1>1, <1>2
    <3> QED BY <2>1, <2>2, <3>1
  <2> QED BY <2>2, <2>3, <2>4 DEF b
<1>4. next \in Nat /\ eof \in BOOLEAN
  BY <1>1, <1>2
<1>5. new = [[[r EXCEPT !.buffer = buf] EXCEPT !.nextSeq = next] EXCEPT !.eof = eof]
  BY DEF TakeInOrder, Readers
<1> HIDE DEF buf, next, eof, new
<1>6. /\ new \in Readers /\ new.nextSeq = next /\ new.buffer = buf /\ new.eof = eof
      /\ new.err = r.err /\ new.closed = r.closed /\ new.ooo = r.ooo
      /\ new.lastRwndSent = r.lastRwndSent
  BY <1>3, <1>4, <1>5 DEF Readers
<1>7. Consumed(new) = Consumed(r)
  BY <1>1, <1>2, <1>3, <1>6 DEF Consumed, next
<1> QED BY <1>3, <1>6, <1>7 DEF next, buf, eof, new


\* A reader, what is on its way to it, and the window both lie in.
Flow(packets, r, base, tail, event, end) ==
    ReaderOK(r, tail, event, end) /\ Clear(packets, r) /\ Bound(packets, r, base)

\* recvDataOrderedLocked, of the packet the reader waits for.
LEMMA TakeKeeps ==
    ASSUME NEW tail, NEW event, NEW end, NEW base \in Nat, NEW packets, NEW r, NEW p,
           \A q \in packets : q \in Packets,
           PacketOK(p, tail, event, end),
           Flow(packets \cup {p}, r, base, tail, event, end), ~r.eof,
           p.seq = r.nextSeq, \A q \in packets \cup r.ooo : Apart(p, q)
    PROVE  /\ Flow(packets, TakeInOrder(r, p), base, tail, event, end)
           /\ Grows(packets \cup {p}, r, TakeInOrder(r, p))
           /\ TakeInOrder(r, p).err = r.err
           /\ TakeInOrder(r, p).ooo = r.ooo
<1> DEFINE new == TakeInOrder(r, p)
<1>1. /\ p \in Packets /\ p.n \in Nat /\ p.seq \in Nat /\ p.first = p.seq
      /\ p.end \in {"none", "eof", "error"}
      /\ p.end # "none" => p.n = 0 /\ p.end = event /\ p.seq = end
  BY DEF PacketOK, Packets
<1>2. /\ r \in Readers /\ r.nextSeq \in Nat /\ Len(r.buffer) \in Nat /\ r.buffer \in Seq(Nat)
      /\ r.eof \in BOOLEAN /\ r.err \in {"none", "error", "closed"} /\ Consumed(r) \in Int
      /\ DOMAIN r.buffer = 1 .. Len(r.buffer)
  BY ReaderFields DEF Flow, ReaderOK
<1>3. /\ IsFiniteSet(r.ooo) /\ \A q \in r.ooo : PacketOK(q, tail, event, end) /\ q \in Packets
      /\ 0 <= Consumed(r) /\ Len(r.buffer) <= ReadWindow
      /\ \A i \in 1 .. Len(r.buffer) : r.buffer[i] = Consumed(r) + i - 1
      /\ r.err = "error" => event = "error"
      /\ r.err = "closed" => r.closed
  BY <1>2 DEF Flow, ReaderOK, PacketOK
<1>4. /\ new \in Readers /\ new.nextSeq = r.nextSeq + p.n
      /\ Len(new.buffer) = Len(r.buffer) + p.n /\ Consumed(new) = Consumed(r)
      /\ \A i \in 1 .. Len(r.buffer) : new.buffer[i] = r.buffer[i]
      /\ \A i \in 1 .. p.n : new.buffer[Len(r.buffer) + i] = p.first + i - 1
      /\ new.eof = (r.eof \/ p.end = "eof")
      /\ new.err = r.err /\ new.closed = r.closed /\ new.ooo = r.ooo
  BY <1>1, <1>2, TakenFields
<1>5. DOMAIN new.buffer = 1 .. Len(new.buffer) /\ new.buffer \in Seq(Nat)
  BY <1>4, ReaderFields
<1> HIDE DEF new
<1>6. r.nextSeq = Consumed(r) + Len(r.buffer)
  BY <1>2 DEF Consumed
<1>7. new.nextSeq = PacketEnd(p)
  BY <1>4 DEF PacketEnd
<1>8. ReadWindow \in Nat
  BY ReaderAssumption
<1>9. p.n > 0 => /\ base <= p.seq /\ p.seq + p.n <= base + ReadWindow
                 /\ r.buffer = <<>> \/ base <= Consumed(r)
  BY DEF Flow, Bound, DataOf, PacketEnd
<1>10. Len(new.buffer) <= ReadWindow
  <2>1. CASE p.n = 0
    BY <1>1, <1>2, <1>3, <1>4, <2>1
  <2>2. CASE p.n > 0
    <3>1. r.buffer = <<>> => Len(r.buffer) = 0
      OBVIOUS
    <3> QED BY <1>1, <1>2, <1>4, <1>6, <1>8, <1>9, <2>2, <3>1
  <2> QED BY <1>1, <2>1, <2>2
<1>11. ASSUME NEW i \in DOMAIN new.buffer PROVE new.buffer[i] = Consumed(new) + i - 1
  <2>1. CASE i <= Len(r.buffer)
    <3>1. i \in 1 .. Len(r.buffer)
      BY <1>1, <1>2, <1>4, <1>5, <2>1
    <3> QED BY <1>3, <1>4, <3>1
  <2>2. CASE ~(i <= Len(r.buffer))
    <3>1. PICK k \in 1 .. p.n : i = Len(r.buffer) + k
      <4>1. i \in Nat /\ i <= Len(r.buffer) + p.n
        BY <1>1, <1>2, <1>4, <1>5
      <4>2. i - Len(r.buffer) \in 1 .. p.n
        BY <1>1, <1>2, <2>2, <4>1
      <4> QED BY <1>2, <4>1, <4>2
    <3>2. new.buffer[i] = p.first + k - 1
      BY <1>4, <3>1
    <3> QED BY <1>1, <1>2, <1>4, <1>6, <3>1, <3>2
  <2> QED BY <2>1, <2>2
<1>12. new.eof => event = "eof" /\ new.nextSeq = end
  BY <1>1, <1>2, <1>4
<1>13. ReaderOK(new, tail, event, end)
  <2>1. /\ new \in Readers /\ IsFiniteSet(new.ooo)
        /\ \A q \in new.ooo : PacketOK(q, tail, event, end)
        /\ 0 <= Consumed(new)
        /\ new.err = "error" => event = "error"
        /\ new.err = "closed" => new.closed
    BY <1>3, <1>4
  <2> QED BY <1>10, <1>11, <1>12, <2>1 DEF ReaderOK
<1>14. Clear(packets, new)
  <2>1. ASSUME NEW q \in DataOf(packets \cup new.ooo) PROVE new.nextSeq <= q.seq
    <3>1. q \in DataOf((packets \cup {p}) \cup r.ooo) /\ q \in packets \cup r.ooo /\ q.n > 0
      BY <1>4 DEF DataOf
    <3>2. r.nextSeq <= q.seq /\ Apart(p, q)
      BY <3>1 DEF Flow, Clear
    <3>3. q.seq \in Nat /\ q.n \in Nat
      BY <1>3, <3>1 DEF Packets
    <3> QED BY <1>1, <1>2, <1>7, <3>1, <3>2, <3>3 DEF Apart, PacketEnd
  <2>2. \A x \in new.ooo, y \in packets : Apart(x, y)
    BY <1>4 DEF Flow, Clear
  <2>3. \A x, y \in new.ooo : x # y => Apart(x, y)
    BY <1>4 DEF Flow, Clear
  <2> QED BY <2>1, <2>2, <2>3 DEF Clear
<1>15. Bound(packets, new, base)
  <2>1. \A q \in DataOf(packets \cup new.ooo) :
          base <= q.seq /\ PacketEnd(q) <= base + ReadWindow
    BY <1>4 DEF Flow, Bound, DataOf
  <2>2. new.buffer = <<>> \/ base <= Consumed(new)
    <3>1. CASE p.n = 0
      <4>1. r.buffer = <<>> => Len(new.buffer) = 0
        BY <1>4, <3>1
      <4>2. Len(new.buffer) = 0 => new.buffer = <<>>
        BY <1>5
      <4>3. r.buffer = <<>> \/ base <= Consumed(r)
        BY DEF Flow, Bound
      <4> QED BY <1>4, <4>1, <4>2, <4>3
    <3>2. CASE p.n > 0
      <4>1. r.buffer = <<>> => Consumed(r) = p.seq
        BY <1>2, <1>6
      <4> QED BY <1>4, <1>9, <3>2, <4>1
    <3> QED BY <1>1, <3>1, <3>2
  <2> QED BY <2>1, <2>2 DEF Bound
<1>16. Grows(packets \cup {p}, r, new)
  <2>1. new.ooo \subseteq (packets \cup {p}) \cup r.ooo /\ r.nextSeq <= new.nextSeq
    BY <1>1, <1>2, <1>4
  <2>2. new.nextSeq = r.nextSeq
          \/ \E q \in DataOf((packets \cup {p}) \cup r.ooo) : new.nextSeq = PacketEnd(q)
    <3>1. CASE p.n = 0
      BY <1>2, <1>4, <3>1
    <3>2. CASE p.n > 0
      BY <1>7, <3>2 DEF DataOf
    <3> QED BY <1>1, <3>1, <3>2
  <2> QED BY <1>4, <2>1, <2>2 DEF Grows
<1> QED BY <1>4, <1>13, <1>14, <1>15, <1>16 DEF Flow, new


\* What a reader takes it has for good, whoever looks.
LEMMA GrowsOn ==
    ASSUME NEW packets, NEW r0 \in Readers, NEW r1 \in Readers, NEW r2 \in Readers,
           Grows(packets, r0, r1), Grows(packets, r1, r2)
    PROVE  Grows(packets, r0, r2)
<1>1. r0.nextSeq \in Nat /\ r1.nextSeq \in Nat /\ r2.nextSeq \in Nat
  BY ReaderFields
<1>2. r2.ooo \subseteq packets \cup r0.ooo
  BY DEF Grows
<1>3. r0.nextSeq <= r2.nextSeq /\ r2.closed = r0.closed /\ Consumed(r2) = Consumed(r0)
  BY <1>1 DEF Grows
<1>4. DataOf(packets \cup r1.ooo) \subseteq DataOf(packets \cup r0.ooo)
  BY DEF Grows, DataOf
<1>5. r2.nextSeq = r0.nextSeq \/ \E p \in DataOf(packets \cup r0.ooo) : r2.nextSeq = PacketEnd(p)
  BY <1>4 DEF Grows
<1> QED BY <1>2, <1>3, <1>5 DEF Grows

\* A reader that takes nothing.
LEMMA GrowsNot ==
    ASSUME NEW packets, NEW r0 \in Readers, NEW r,
           r.nextSeq = r0.nextSeq, r.buffer = r0.buffer, r.closed = r0.closed,
           r.ooo \subseteq packets \cup r0.ooo
    PROVE  Grows(packets, r0, r)
BY ReaderFields DEF Grows, Consumed

\* Fewer packets, held or on their way, do no harm.
LEMMA FlowShrinks ==
    ASSUME NEW tail, NEW event, NEW end, NEW base, NEW packets, NEW fewer, NEW r0, NEW r,
           Flow(packets, r0, base, tail, event, end), fewer \subseteq packets,
           r \in Readers, r.ooo \subseteq r0.ooo,
           r.nextSeq = r0.nextSeq, r.buffer = r0.buffer, r.eof = r0.eof,
           r.err = r0.err, r.closed = r0.closed
    PROVE  Flow(fewer, r, base, tail, event, end)
<1>1. Consumed(r) = Consumed(r0)
  BY DEF Consumed
<1>2. IsFiniteSet(r.ooo)
  BY FS_Subset DEF Flow, ReaderOK
<1>3. ReaderOK(r, tail, event, end)
  BY <1>1, <1>2 DEF Flow, ReaderOK
<1>4. DataOf(fewer \cup r.ooo) \subseteq DataOf(packets \cup r0.ooo)
  BY DEF DataOf
<1>5. Clear(fewer, r)
  BY <1>4 DEF Flow, Clear
<1>6. Bound(fewer, r, base)
  BY <1>1, <1>4 DEF Flow, Bound
<1> QED BY <1>3, <1>5, <1>6 DEF Flow

\* One round of processOOOPacketsLocked.
LEMMA ReleaseOneKeeps ==
    ASSUME NEW tail, NEW event, NEW end, NEW base \in Nat, NEW packets, NEW r,
           \A q \in packets : q \in Packets,
           Flow(packets, r, base, tail, event, end)
    PROVE  /\ Flow(packets, ReleaseOne(r), base, tail, event, end)
           /\ Grows(packets, r, ReleaseOne(r))
           /\ ReleaseOne(r).err = r.err /\ ReleaseOne(r).ooo \subseteq r.ooo
<1>1. r \in Readers /\ r.ooo \in SUBSET Packets /\ r.eof \in BOOLEAN
  BY ReaderFields DEF Flow, ReaderOK
<1>2. CASE ReleaseOne(r) = r
  BY <1>1, <1>2, GrowsNot
<1>3. CASE ReleaseOne(r) = [r EXCEPT !.ooo = {}]
  <2>1. [r EXCEPT !.ooo = {}] \in Readers
    BY <1>1 DEF Readers
  <2> DEFINE new == [r EXCEPT !.ooo = {}]
  <2>2. /\ new.nextSeq = r.nextSeq /\ new.buffer = r.buffer /\ new.eof = r.eof
        /\ new.err = r.err /\ new.closed = r.closed /\ new.ooo = {}
    BY <1>1 DEF Readers
  <2> HIDE DEF new
  <2>3. Flow(packets, new, base, tail, event, end)
    BY <2>1, <2>2, FlowShrinks DEF new
  <2> QED BY <1>1, <1>3, <2>2, <2>3, GrowsNot DEF new
<1>4. CASE ReleaseOne(r) # r /\ ReleaseOne(r) # [r EXCEPT !.ooo = {}]
  <2> DEFINE pkt == CHOOSE p \in r.ooo : \A q \in r.ooo : p.seq <= q.seq
             r0 == [r EXCEPT !.ooo = @ \ {pkt}]
  <2>1. /\ r.ooo # {} /\ ~r.eof /\ pkt.seq = r.nextSeq
        /\ ReleaseOne(r) = TakeInOrder(r0, pkt)
    BY <1>4 DEF ReleaseOne
  <2>2. pkt \in r.ooo
    <3>1. \E p \in r.ooo : \A q \in r.ooo : p.seq <= q.seq
      <4> DEFINE S == {q.seq : q \in r.ooo}
      <4>1. S \in SUBSET Nat /\ S # {}
        BY <1>1, <2>1 DEF Packets
      <4>2. PICK n \in S : \A m \in S : n <= m
        BY <4>1, LeastNumber
      <4> QED BY <4>2
    <3> QED BY <3>1
  <2> HIDE DEF pkt
  <2>3. /\ r0.ooo = r.ooo \ {pkt} /\ r0.nextSeq = r.nextSeq /\ r0.buffer = r.buffer
        /\ r0.eof = r.eof /\ r0.err = r.err /\ r0.closed = r.closed /\ r0 \in Readers
    BY <1>1 DEF Readers
  <2> HIDE DEF r0
  <2>4. PacketOK(pkt, tail, event, end) /\ pkt \in Packets
    BY <1>1, <2>2 DEF Flow, ReaderOK
  <2>5. \A q \in packets \cup r0.ooo : Apart(pkt, q)
    BY <2>2, <2>3 DEF Flow, Clear
  <2>6. Flow(packets, r0, base, tail, event, end)
    BY <2>3, FlowShrinks
  <2>7. (packets \cup {pkt}) \cup r0.ooo = packets \cup r.ooo
    BY <2>2, <2>3
  <2>8. Flow(packets \cup {pkt}, r0, base, tail, event, end)
    <3>1. Clear(packets \cup {pkt}, r0)
      <4>1. \A q \in DataOf((packets \cup {pkt}) \cup r0.ooo) : r0.nextSeq <= q.seq
        BY <2>3, <2>7 DEF Flow, Clear
      <4>2. \A p \in r0.ooo, q \in packets \cup {pkt} : Apart(p, q)
        BY <2>2, <2>3 DEF Flow, Clear
      <4>3. \A p, q \in r0.ooo : p # q => Apart(p, q)
        BY <2>3 DEF Flow, Clear
      <4> QED BY <4>1, <4>2, <4>3 DEF Clear
    <3>2. Bound(packets \cup {pkt}, r0, base)
      <4>1. Consumed(r0) = Consumed(r)
        BY <2>3 DEF Consumed
      <4> QED BY <2>3, <2>7, <4>1 DEF Flow, Bound
    <3> QED BY <2>6, <3>1, <3>2 DEF Flow
  <2>9. \A q \in packets \cup {pkt} : q \in Packets
    BY <2>4
  <2> DEFINE new == TakeInOrder(r0, pkt)
  <2>10. /\ Flow(packets, new, base, tail, event, end)
         /\ Grows(packets \cup {pkt}, r0, new) /\ new.err = r0.err /\ new.ooo = r0.ooo
    BY <2>1, <2>2, <2>3, <2>4, <2>5, <2>8, <2>9, TakeKeeps
  <2> HIDE DEF new
  <2>11. Grows(packets, r, new)
    <3>1. Consumed(r0) = Consumed(r)
      BY <2>3 DEF Consumed
    <3> QED BY <2>3, <2>7, <2>10, <3>1 DEF Grows
  <2> QED BY <2>1, <2>3, <2>10, <2>11 DEF new
<1> QED BY <1>2, <1>3, <1>4

\* processOOOPacketsLocked.
LEMMA ReleaseHeldKeeps ==
    ASSUME NEW tail, NEW event, NEW end, NEW base \in Nat, NEW packets, NEW r,
           \A q \in packets : q \in Packets,
           Flow(packets, r, base, tail, event, end)
    PROVE  /\ Flow(packets, ReleaseHeld(r), base, tail, event, end)
           /\ Grows(packets, r, ReleaseHeld(r))
           /\ ReleaseHeld(r).err = r.err
<1> DEFINE n == Cardinality(r.ooo) + 1
<1>1. n \in Nat /\ r \in Readers
  BY FS_CardinalityType DEF Flow, ReaderOK
<1> HIDE DEF n
<1>2. PICK f : /\ Released(r, n) = f[n] /\ f[0] = r
               /\ \A k \in 1 .. n : f[k] = ReleaseOne(f[k - 1])
  BY <1>1, ReleasedIsLast
<1> DEFINE Good(k) == /\ Flow(packets, f[k], base, tail, event, end)
                      /\ Grows(packets, r, f[k])
                      /\ f[k].err = r.err /\ f[k].ooo \subseteq r.ooo
           S == {k \in 0 .. n : ~Good(k)}
<1>3. Good(0)
  BY <1>1, <1>2, GrowsNot
<1>4. ASSUME NEW k \in 1 .. n, Good(k - 1) PROVE Good(k)
  <2> DEFINE r1 == f[k - 1]
  <2>1. /\ Flow(packets, r1, base, tail, event, end) /\ Grows(packets, r, r1)
        /\ r1.err = r.err /\ r1.ooo \subseteq r.ooo
    BY <1>4
  <2>2. f[k] = ReleaseOne(r1)
    BY <1>2
  <2> HIDE DEF r1
  <2>3. /\ Flow(packets, ReleaseOne(r1), base, tail, event, end)
        /\ Grows(packets, r1, ReleaseOne(r1))
        /\ ReleaseOne(r1).err = r1.err /\ ReleaseOne(r1).ooo \subseteq r1.ooo
    BY <2>1, ReleaseOneKeeps
  <2>4. r1 \in Readers /\ ReleaseOne(r1) \in Readers
    BY <2>1, <2>3 DEF Flow, ReaderOK
  <2>5. Grows(packets, r, ReleaseOne(r1))
    BY <1>1, <2>1, <2>3, <2>4, GrowsOn
  <2> QED BY <2>1, <2>2, <2>3, <2>5
<1> HIDE DEF Good
<1>5. S = {}
  <2> SUFFICES ASSUME S # {} PROVE FALSE
    OBVIOUS
  <2>1. S \in SUBSET Nat
    OBVIOUS
  <2>2. PICK k \in S : \A m \in S : k <= m
    BY <2>1, LeastNumber
  <2>3. k \in 1 .. n /\ k - 1 \in 0 .. n
    BY <1>1, <1>3, <2>2
  <2>4. k - 1 \notin S
    BY <2>1, <2>2
  <2>5. Good(k - 1)
    BY <2>3, <2>4
  <2> QED BY <1>4, <2>2, <2>3, <2>5
<1>6. Good(n)
  <2>1. n \in 0 .. n
    BY <1>1
  <2> QED BY <1>5, <2>1
<1> QED BY <1>2, <1>6 DEF Good, ReleaseHeld, n


\* What a reader buffers and holds fits into the window it announced.
LEMMA WindowFits ==
    ASSUME NEW tail, NEW event, NEW end, NEW base \in Nat, NEW packets, NEW r,
           Flow(packets, r, base, tail, event, end)
    PROVE  Buffered(r) <= ReadWindow
<1> DEFINE held == UNION {{pkt} \X (1 .. pkt.n) : pkt \in r.ooo}
           h == [x \in held |-> x[1].seq + x[2]]
<1>1. /\ r \in Readers /\ r.nextSeq \in Nat /\ Len(r.buffer) \in Nat /\ r.ooo \in SUBSET Packets
      /\ Len(r.buffer) <= ReadWindow /\ ReadWindow \in Nat
      /\ r.nextSeq = Consumed(r) + Len(r.buffer) /\ Consumed(r) \in Int
  BY ReaderFields, ReaderAssumption DEF Flow, ReaderOK, Consumed
<1>2. ASSUME NEW x \in held
      PROVE  /\ x[1] \in r.ooo /\ x[2] \in Nat /\ 1 <= x[2] /\ x[2] <= x[1].n
             /\ x = <<x[1], x[2]>> /\ x[1].seq \in Nat /\ x[1].n \in Nat
             /\ r.nextSeq <= x[1].seq /\ base <= x[1].seq
             /\ x[1].seq + x[1].n <= base + ReadWindow
  <2>1. PICK p \in r.ooo : x \in {p} \X (1 .. p.n)
    OBVIOUS
  <2>2. p.n \in Nat /\ p.seq \in Nat
    BY <1>1, <2>1 DEF Packets
  <2>3. x[1] = p /\ x[2] \in 1 .. p.n /\ x = <<x[1], x[2]>>
    BY <2>1
  <2>4. p \in DataOf(packets \cup r.ooo)
    BY <2>1, <2>2, <2>3 DEF DataOf
  <2>5. r.nextSeq <= p.seq /\ base <= p.seq /\ p.seq + p.n <= base + ReadWindow
    BY <2>4 DEF Flow, Clear, Bound, PacketEnd
  <2> QED BY <2>1, <2>2, <2>3, <2>5
<1> HIDE DEF held
<1>3. CASE held = {}
  <2>1. Cardinality(held) = 0
    BY <1>3, FS_EmptySet
  <2> QED BY <1>1, <2>1 DEF Buffered, held
<1>4. CASE held # {}
  <2> DEFINE lo == IF r.buffer = <<>> THEN base ELSE r.nextSeq
             places == lo + 1 .. base + ReadWindow
  <2>1. /\ lo \in Nat /\ (r.buffer = <<>> => Len(r.buffer) = 0)
        /\ \A x \in held : lo <= x[1].seq
        /\ r.buffer = <<>> => lo = base
        /\ r.buffer # <<>> => lo = r.nextSeq
    BY <1>1, <1>2
  <2> HIDE DEF lo
  <2>2. lo < base + ReadWindow
    <3>1. PICK x \in held : TRUE
      BY <1>4
    <3> DEFINE p == x[1]
    <3>2. lo <= p.seq /\ p.seq \in Nat /\ p.n \in Nat /\ p.n >= 1
      BY <1>2, <2>1
    <3>3. p.seq + p.n <= base + ReadWindow
      BY <1>2
    <3> HIDE DEF p
    <3>4. lo \in Nat /\ ReadWindow \in Nat
      BY <1>1, <2>1
    <3> QED BY <3>2, <3>3, <3>4
  <2>11. \A x \in held : h[x] = x[1].seq + x[2]
    OBVIOUS
  <2>12. h = [x \in held |-> h[x]]
    OBVIOUS
  <2> HIDE DEF h
  <2>3. \A x \in held : h[x] \in places
    BY <1>1, <1>2, <2>1, <2>11
  <2>4. ASSUME NEW x \in held, NEW y \in held, h[x] = h[y] PROVE x = y
    <3>1. CASE x[1] = y[1]
      BY <1>2, <2>4, <2>11, <3>1
    <3>2. CASE x[1] # y[1]
      <4>1. Apart(x[1], y[1])
        BY <1>2, <3>2 DEF Flow, Clear
      <4> QED BY <1>2, <2>4, <2>11, <4>1 DEF Apart, PacketEnd
    <3> QED BY <3>1, <3>2
  <2>5. h \in Injection(held, places)
    BY <2>3, <2>4, <2>12 DEF Injection, IsInjective
  <2>6. IsFiniteSet(places) /\ Cardinality(places) = base + ReadWindow - lo
    <3> DEFINE a == lo + 1
               b == base + ReadWindow
    <3>1. a \in Int /\ b \in Int /\ ~(a > b) /\ b - a + 1 = base + ReadWindow - lo
      BY <1>1, <2>1, <2>2
    <3> HIDE DEF a, b
    <3>2. IsFiniteSet(a .. b) /\ Cardinality(a .. b) = b - a + 1
      BY <3>1, FS_Interval
    <3> QED BY <3>1, <3>2 DEF a, b
  <2> HIDE DEF places
  <2>7. IsFiniteSet(held) /\ Cardinality(held) <= base + ReadWindow - lo
    BY <2>5, <2>6, FS_Injection
  <2>8. Cardinality(held) \in Nat
    BY <2>7, FS_CardinalityType
  <2>9. r.buffer # <<>> => base <= Consumed(r)
    BY DEF Flow, Bound
  <2>10. Len(r.buffer) + Cardinality(held) <= ReadWindow
    <3>1. CASE r.buffer = <<>>
      BY <1>1, <2>1, <2>7, <2>8, <3>1
    <3>2. CASE r.buffer # <<>>
      <4>1. base <= Consumed(r) /\ lo = r.nextSeq
        BY <2>1, <2>9, <3>2
      <4> DEFINE c == Consumed(r)
                 k == Cardinality(held)
                 l == Len(r.buffer)
      <4>2. /\ c \in Int /\ l \in Nat /\ k \in Nat /\ ReadWindow \in Nat
            /\ base <= c /\ lo = c + l /\ k <= base + ReadWindow - lo
        BY <1>1, <2>7, <2>8, <4>1
      <4> HIDE DEF c, k, l
      <4>3. l + k <= ReadWindow
        BY <4>2
      <4> QED BY <4>3 DEF k, l
    <3> QED BY <3>1, <3>2
  <2> QED BY <2>10 DEF Buffered, held
<1> QED BY <1>3, <1>4


\* A method leaves one ack of the reader as it is then, or none.
Acked(out, id) ==
    \/ out.acks = <<>>
    \/ \E fin, cancel \in BOOLEAN : out.acks = <<AckOf(out.reader, id, fin, cancel)>>

\* Sending an ack changes nothing else.
LEMMA WithAckKeeps ==
    ASSUME NEW r \in Readers, NEW id, NEW fin \in BOOLEAN, NEW cancel \in BOOLEAN,
           Len(r.buffer) <= ReadWindow
    PROVE  LET out == WithAck(r, id, fin, cancel) IN
           /\ out.reader \in Readers /\ out.reader.ooo = r.ooo
           /\ out.reader.nextSeq = r.nextSeq /\ out.reader.buffer = r.buffer
           /\ out.reader.eof = r.eof /\ out.reader.err = r.err /\ out.reader.closed = r.closed
           /\ Consumed(out.reader) = Consumed(r)
           /\ Acked(out, id)
<1> DEFINE rwnd == Rwnd(r)
           new == [r EXCEPT !.lastRwndSent = rwnd]
           out == WithAck(r, id, fin, cancel)
<1>1. rwnd \in Nat
  BY ReaderFields, ReaderAssumption DEF Rwnd
<1>2. out = [reader |-> new, acks |-> <<AckOf(r, id, fin, cancel)>>]
  BY DEF WithAck
<1> HIDE DEF rwnd, out
<1>3. /\ new \in Readers /\ new.ooo = r.ooo
      /\ new.nextSeq = r.nextSeq /\ new.buffer = r.buffer
      /\ new.eof = r.eof /\ new.err = r.err /\ new.closed = r.closed
  BY <1>1 DEF Readers
<1> HIDE DEF new
<1>4. out.reader = new /\ out.acks = <<AckOf(r, id, fin, cancel)>>
  BY <1>2
<1>5. AckOf(new, id, fin, cancel) = AckOf(r, id, fin, cancel) /\ Consumed(new) = Consumed(r)
  BY <1>3 DEF AckOf, Rwnd, Consumed
<1> QED BY <1>3, <1>4, <1>5 DEF Acked, out

\* An ack promises what is left of the window behind the bytes handed out.
LEMMA AckPromises ==
    ASSUME NEW r \in Readers, NEW id \in Streams, NEW fin \in BOOLEAN, NEW cancel \in BOOLEAN,
           Len(r.buffer) <= ReadWindow
    PROVE  LET ack == AckOf(r, id, fin, cancel) IN
           /\ ack \in AckRecords /\ ack.id = id
           /\ ack.seq = r.nextSeq /\ ack.seq + ack.rwnd = Consumed(r) + ReadWindow
<1>1. /\ r.nextSeq \in Nat /\ Len(r.buffer) \in Nat /\ ReadWindow \in Nat
  BY ReaderFields, ReaderAssumption
<1>2. Rwnd(r) = ReadWindow - Len(r.buffer) /\ Rwnd(r) \in Nat
  <2> DEFINE n == Len(r.buffer)
  <2>1. n \in Nat /\ ReadWindow \in Nat /\ n <= ReadWindow
    BY <1>1
  <2>2. Rwnd(r) = IF n > ReadWindow THEN 0 ELSE ReadWindow - n
    BY DEF Rwnd
  <2> HIDE DEF n
  <2>3. Rwnd(r) = ReadWindow - n /\ Rwnd(r) \in Nat
    BY <2>1, <2>2
  <2> QED BY <2>3 DEF n
<1> QED BY <1>1, <1>2 DEF AckOf, AckRecords, Consumed

\* RecvData.
LEMMA RecvDataKeeps ==
    ASSUME NEW tail, NEW event, NEW end, NEW base \in Nat, NEW packets, NEW r, NEW p, NEW id,
           \A q \in packets : q \in Packets /\ Apart(p, q), PacketOK(p, tail, event, end),
           Flow(packets \cup {p}, r, base, tail, event, end)
    PROVE  LET out == RecvData(r, id, p) IN
           /\ Flow(packets, out.reader, base, tail, event, end)
           /\ Grows(packets \cup {p}, r, out.reader)
           /\ Acked(out, id)
<1> DEFINE all == packets \cup {p}
<1>1. /\ r \in Readers /\ p \in Packets /\ p.seq \in Nat /\ p.n \in Nat /\ r.ooo \in SUBSET Packets
      /\ r.nextSeq \in Nat /\ r.eof \in BOOLEAN /\ Len(r.buffer) <= ReadWindow
  BY ReaderFields DEF Flow, ReaderOK, PacketOK, Packets
<1>2. packets \subseteq all /\ p \in all /\ \A q \in all : q \in Packets
  BY <1>1
<1>3. Flow(packets, r, base, tail, event, end)
  BY <1>1, <1>2, FlowShrinks
<1>4. Grows(all, r, r)
  BY <1>1, GrowsNot
<1>5. ASSUME RecvData(r, id, p) = Quiet(r)
      PROVE  LET out == RecvData(r, id, p) IN
             /\ Flow(packets, out.reader, base, tail, event, end)
             /\ Grows(packets \cup {p}, r, out.reader)
             /\ Acked(out, id)
  <2>1. Quiet(r).reader = r /\ Quiet(r).acks = <<>>
    BY DEF Quiet
  <2> QED BY <1>3, <1>4, <1>5, <2>1 DEF Acked
<1>6. CASE Ended(r) \/ (p.end # "error" /\ p.seq < r.nextSeq)
  <2>1. RecvData(r, id, p) = Quiet(r)
    BY <1>6 DEF RecvData
  <2> QED BY <1>5, <2>1
<1>7. CASE ~Ended(r) /\ p.end = "error"
  <2> DEFINE r1 == [r EXCEPT !.err = "error"]
             out == WithAck(r1, id, TRUE, FALSE)
  <2>1. RecvData(r, id, p) = out
    BY <1>7 DEF RecvData
  <2>2. /\ r1 \in Readers /\ r1.ooo = r.ooo /\ r1.nextSeq = r.nextSeq /\ r1.buffer = r.buffer
        /\ r1.eof = r.eof /\ r1.err = "error" /\ r1.closed = r.closed
    BY <1>1 DEF Readers
  <2>3. event = "error"
    BY <1>7 DEF PacketOK
  <2> HIDE DEF r1
  <2>4. /\ out.reader \in Readers /\ out.reader.ooo = r1.ooo
        /\ out.reader.nextSeq = r1.nextSeq /\ out.reader.buffer = r1.buffer
        /\ out.reader.eof = r1.eof /\ out.reader.err = r1.err /\ out.reader.closed = r1.closed
        /\ Acked(out, id) /\ Consumed(out.reader) = Consumed(r1)
    BY <1>1, <2>2, WithAckKeeps, Zenon
  <2> HIDE DEF out
  <2>5. Consumed(out.reader) = Consumed(r)
    BY <2>2, <2>4 DEF Consumed
  <2>6. ReaderOK(out.reader, tail, event, end)
    BY <1>3, <2>2, <2>3, <2>4, <2>5 DEF Flow, ReaderOK
  <2>7. Clear(packets, out.reader) /\ Bound(packets, out.reader, base)
    BY <1>3, <2>2, <2>4, <2>5 DEF Flow, Clear, Bound
  <2>8. Grows(all, r, out.reader)
    BY <1>1, <2>2, <2>4, GrowsNot
  <2> QED BY <2>1, <2>4, <2>6, <2>7, <2>8 DEF Flow
<1>8. CASE ~Ended(r) /\ p.end # "error" /\ p.seq > r.nextSeq
  <2>1. RecvData(r, id, p) = Quiet(Hold(r, p))
    BY <1>1, <1>8 DEF RecvData
  <2>2. CASE Hold(r, p) = r
    BY <1>5, <2>1, <2>2
  <2>3. CASE Hold(r, p) # r
    <3> DEFINE new == [r EXCEPT !.ooo = @ \cup {p}]
    <3>1. Hold(r, p) = new
      BY <2>3 DEF Hold
    <3>2. /\ new.nextSeq = r.nextSeq /\ new.buffer = r.buffer /\ new.eof = r.eof
          /\ new.err = r.err /\ new.closed = r.closed /\ new.ooo = r.ooo \cup {p}
          /\ new \in Readers
      BY <1>1 DEF Readers
    <3> HIDE DEF new
    <3>3. Consumed(new) = Consumed(r)
      BY <3>2 DEF Consumed
    <3>4. IsFiniteSet(new.ooo)
      BY <1>3, <3>2, FS_AddElement DEF Flow, ReaderOK
    <3>5. ReaderOK(new, tail, event, end)
      BY <1>3, <3>2, <3>3, <3>4 DEF Flow, ReaderOK
    <3>6. packets \cup new.ooo = all \cup r.ooo
      BY <3>2
    <3>7. Clear(packets, new)
      <4>1. \A q \in DataOf(packets \cup new.ooo) : new.nextSeq <= q.seq
        BY <3>2, <3>6 DEF Flow, Clear
      <4>2. \A x \in new.ooo, y \in packets : Apart(x, y)
        BY <3>2 DEF Flow, Clear
      <4>3. \A x, y \in new.ooo : x # y => Apart(x, y)
        BY <3>2 DEF Flow, Clear, Apart
      <4> QED BY <4>1, <4>2, <4>3 DEF Clear
    <3>8. Bound(packets, new, base)
      BY <3>2, <3>3, <3>6 DEF Flow, Bound
    <3>9. Grows(all, r, new)
      BY <1>1, <3>2, GrowsNot
    <3>10. Quiet(new).reader = new /\ Quiet(new).acks = <<>>
      BY DEF Quiet
    <3> QED BY <2>1, <3>1, <3>5, <3>7, <3>8, <3>9, <3>10 DEF Flow, Acked
  <2> QED BY <2>2, <2>3
<1>9. CASE ~Ended(r) /\ p.end # "error" /\ p.seq = r.nextSeq
  <2> DEFINE r1 == TakeInOrder(r, p)
             r2 == ReleaseHeld(r1)
             fin == r2.eof
             out == WithAck(r2, id, fin, FALSE)
  <2>1. RecvData(r, id, p) = out
    <3>1. ~(p.seq < r.nextSeq) /\ ~(p.seq > r.nextSeq)
      BY <1>1, <1>9
    <3> QED BY <1>9, <3>1, Zenon DEF RecvData
  <2>2. \A q \in packets \cup r.ooo : Apart(p, q)
    BY <1>2 DEF Flow, Clear, Apart
  <2>3. ~r.eof
    BY <1>9 DEF Ended
  <2>4. Flow(packets, r1, base, tail, event, end) /\ Grows(all, r, r1)
    BY <1>9, <2>2, <2>3, TakeKeeps
  <2> HIDE DEF r1
  <2>5. Flow(packets, r2, base, tail, event, end) /\ Grows(packets, r1, r2)
    BY <2>4, ReleaseHeldKeeps
  <2> HIDE DEF r2
  <2>6. r1 \in Readers /\ r2 \in Readers /\ Len(r2.buffer) <= ReadWindow
    BY <2>4, <2>5 DEF Flow, ReaderOK
  <2>7. Grows(all, r1, r2)
    BY <2>5 DEF Grows, DataOf
  <2>8. Grows(all, r, r2)
    BY <1>1, <2>4, <2>6, <2>7, GrowsOn
  <2>9. fin \in BOOLEAN
    BY <2>6, ReaderFields
  <2> HIDE DEF fin
  <2>10. /\ out.reader \in Readers /\ out.reader.ooo = r2.ooo
         /\ out.reader.nextSeq = r2.nextSeq /\ out.reader.buffer = r2.buffer
         /\ out.reader.eof = r2.eof /\ out.reader.err = r2.err /\ out.reader.closed = r2.closed
         /\ Consumed(out.reader) = Consumed(r2)
         /\ Acked(out, id)
    BY <2>6, <2>9, WithAckKeeps, Zenon
  <2> HIDE DEF out
  <2>11. Flow(packets, out.reader, base, tail, event, end)
    BY <2>5, <2>10, FlowShrinks
  <2>12. Grows(all, r, out.reader)
    BY <2>8, <2>10 DEF Grows
  <2> QED BY <2>1, <2>10, <2>11, <2>12
<1> QED BY <1>1, <1>6, <1>7, <1>8, <1>9


\* What a Read returns is the next piece of the output.
LEMMA ReadReturns ==
    ASSUME NEW tail, NEW event, NEW end, NEW r, ReaderOK(r, tail, event, end)
    PROVE  /\ ReadCount(r) \in Nat /\ ReadCount(r) <= Len(r.buffer)
           /\ ReadBytesOf(r) \in Seq(Nat) /\ Len(ReadBytesOf(r)) = ReadCount(r)
           /\ \A i \in 1 .. ReadCount(r) : ReadBytesOf(r)[i] = Consumed(r) + i - 1
           /\ ReadError(r) # "none" => ReadCount(r) = 0 /\ ReadBytesOf(r) = <<>>
           /\ ~r.closed => ReadError(r) \in {"none", "eof", "error"}
           /\ ReadError(r) \in {"eof", "error"} => event = ReadError(r)
           /\ ReadError(r) = "eof" => Consumed(r) = end
<1> DEFINE n == ReadCount(r)
           b == r.buffer
<1>1. /\ r \in Readers /\ b \in Seq(Nat) /\ Len(b) \in Nat /\ DOMAIN b = 1 .. Len(b)
      /\ r.err \in {"none", "error", "closed"} /\ Consumed(r) \in Int
      /\ \A i \in 1 .. Len(b) : b[i] = Consumed(r) + i - 1 /\ b[i] \in Nat
      /\ r.err = "closed" => r.closed
      /\ r.err = "error" => event = "error"
      /\ r.eof => event = "eof" /\ r.nextSeq = end
      /\ r.nextSeq \in Nat
  BY ReaderFields DEF ReaderOK
<1>2. n \in Nat /\ n <= Len(b) /\ (ReadError(r) # "none" => n = 0)
  BY <1>1, ReaderAssumption DEF ReadCount
<1>3. ReadBytesOf(r) = SubSeq(b, 1, n)
  BY DEF ReadBytesOf
<1>4. /\ ~r.closed => ReadError(r) \in {"none", "eof", "error"}
      /\ ReadError(r) \in {"eof", "error"} => event = ReadError(r)
      /\ ReadError(r) = "eof" => r.eof /\ Len(b) = 0
  <2>1. CASE r.closed
    <3>1. ReadError(r) = "closed"
      BY <2>1 DEF ReadError
    <3> QED BY <2>1, <3>1
  <2>2. CASE ~r.closed /\ r.err # "none"
    <3>1. ReadError(r) = r.err
      BY <2>2 DEF ReadError
    <3>2. r.err = "error" /\ event = "error"
      BY <1>1, <2>2
    <3> QED BY <3>1, <3>2
  <2>3. CASE ~r.closed /\ r.err = "none" /\ r.eof /\ Len(r.buffer) = 0
    <3>1. ReadError(r) = "eof"
      BY <2>3 DEF ReadError
    <3> QED BY <1>1, <2>3, <3>1
  <2>4. CASE ~r.closed /\ r.err = "none" /\ ~(r.eof /\ Len(r.buffer) = 0)
    <3>1. ReadError(r) = "none"
      BY <2>4 DEF ReadError
    <3> QED BY <3>1
  <2> QED BY <2>1, <2>2, <2>3, <2>4
<1>5. ReadError(r) = "eof" => Consumed(r) = end
  BY <1>1, <1>4 DEF Consumed
<1> HIDE DEF n, b
<1>6. /\ SubSeq(b, 1, n) \in Seq(Nat) /\ Len(SubSeq(b, 1, n)) = n
      /\ \A i \in 1 .. n : SubSeq(b, 1, n)[i] = b[i]
  <2>1. \A i \in 1 .. n : b[i] \in Nat
    BY <1>1, <1>2
  <2>2. /\ SubSeq(b, 1, n) \in Seq(Nat)
        /\ Len(SubSeq(b, 1, n)) = IF 1 <= n THEN n - 1 + 1 ELSE 0
        /\ \A i \in 1 .. n - 1 + 1 : SubSeq(b, 1, n)[i] = b[1 + i - 1]
    BY <1>2, <2>1, SubSeqProperties
  <2> QED BY <1>2, <2>2
<1>7. n = 0 => SubSeq(b, 1, n) = <<>>
  BY <1>6
<1>8. \A i \in 1 .. n : SubSeq(b, 1, n)[i] = Consumed(r) + i - 1
  BY <1>1, <1>2, <1>6
<1> QED BY <1>2, <1>3, <1>4, <1>5, <1>6, <1>7, <1>8 DEF n, b

\* Read takes it out of the buffer.
LEMMA ReadKeeps ==
    ASSUME NEW tail, NEW event, NEW end, NEW r, NEW id, ReaderOK(r, tail, event, end)
    PROVE  LET out == Read(r, id) IN
           /\ ReaderOK(out.reader, tail, event, end) /\ Acked(out, id)
           /\ out.reader.nextSeq = r.nextSeq /\ out.reader.ooo = r.ooo
           /\ out.reader.closed = r.closed
           /\ Consumed(out.reader) = Consumed(r) + ReadCount(r)
           /\ Len(out.reader.buffer) = Len(r.buffer) - ReadCount(r)
           /\ r.buffer = <<>> => out.reader.buffer = <<>>
<1> DEFINE n == ReadCount(r)
           b == r.buffer
           rest == SubSeq(b, n + 1, Len(b))
           r1 == [r EXCEPT !.buffer = rest]
           out == Read(r, id)
<1>1. /\ r \in Readers /\ b \in Seq(Nat) /\ Len(b) \in Nat /\ DOMAIN b = 1 .. Len(b)
      /\ Consumed(r) \in Int /\ r.nextSeq \in Nat
      /\ \A i \in 1 .. Len(b) : b[i] = Consumed(r) + i - 1 /\ b[i] \in Nat
      /\ Len(b) <= ReadWindow /\ ReadWindow \in Nat
  BY ReaderFields, ReaderAssumption DEF ReaderOK
<1>2. n \in Nat /\ n <= Len(b)
  BY ReadReturns
<1>3. out = Quiet(r1) \/ out = WithAck(r1, id, FALSE, FALSE)
  BY DEF Read
<1> HIDE DEF n, b, out
<1>4. /\ rest \in Seq(Nat) /\ Len(rest) = Len(b) - n
      /\ \A i \in 1 .. Len(b) - n : rest[i] = b[n + i]
  <2>1. \A i \in n + 1 .. Len(b) : b[i] \in Nat
    BY <1>1, <1>2
  <2>2. n + 1 \in Int /\ Len(b) \in Int
    BY <1>1, <1>2
  <2>3. /\ rest \in Seq(Nat)
        /\ Len(rest) = IF n + 1 <= Len(b) THEN Len(b) - (n + 1) + 1 ELSE 0
        /\ \A i \in 1 .. Len(b) - (n + 1) + 1 : rest[i] = b[(n + 1) + i - 1]
    BY <2>1, <2>2, SubSeqProperties
  <2>4. Len(rest) = Len(b) - n
    <3> DEFINE k == Len(rest)
               l == Len(b)
    <3>1. /\ n \in Nat /\ l \in Nat /\ n <= l
          /\ k = IF n + 1 <= l THEN l - (n + 1) + 1 ELSE 0
      BY <1>1, <1>2, <2>3
    <3> HIDE DEF k, l
    <3>2. k = l - n
      BY <3>1
    <3> QED BY <3>2 DEF k, l
  <2>5. ASSUME NEW i \in 1 .. Len(b) - n PROVE rest[i] = b[n + i]
    <3>1. i \in 1 .. Len(b) - (n + 1) + 1 /\ (n + 1) + i - 1 = n + i
      BY <1>1, <1>2
    <3> QED BY <2>3, <3>1
  <2> QED BY <2>3, <2>4, <2>5
<1> HIDE DEF rest
<1>5. /\ r1 \in Readers /\ r1.buffer = rest /\ r1.nextSeq = r.nextSeq /\ r1.ooo = r.ooo
      /\ r1.eof = r.eof /\ r1.err = r.err /\ r1.closed = r.closed
  BY <1>1, <1>4 DEF Readers
<1> HIDE DEF r1
<1>6. Len(r1.buffer) \in Nat /\ Len(r1.buffer) <= ReadWindow
  BY <1>1, <1>2, <1>4, <1>5
<1>7. /\ out.reader \in Readers /\ out.reader.ooo = r1.ooo
      /\ out.reader.nextSeq = r1.nextSeq /\ out.reader.buffer = r1.buffer
      /\ out.reader.eof = r1.eof /\ out.reader.err = r1.err /\ out.reader.closed = r1.closed
      /\ Acked(out, id)
  <2>1. CASE out = Quiet(r1)
    <3>1. out.reader = r1 /\ out.acks = <<>>
      BY <2>1 DEF Quiet
    <3> QED BY <1>5, <3>1 DEF Acked
  <2>2. CASE out = WithAck(r1, id, FALSE, FALSE)
    BY <1>5, <1>6, <2>2, WithAckKeeps, Zenon
  <2> QED BY <1>3, <2>1, <2>2
<1>8. Consumed(out.reader) = Consumed(r) + n
  BY <1>1, <1>2, <1>4, <1>5, <1>7 DEF Consumed, b
<1>9. \A i \in DOMAIN out.reader.buffer : out.reader.buffer[i] = Consumed(out.reader) + i - 1
  <2>1. DOMAIN out.reader.buffer = 1 .. Len(b) - n
    BY <1>4, <1>5, <1>7
  <2>2. TAKE i \in DOMAIN out.reader.buffer
  <2>3. i \in 1 .. Len(b) - n /\ i \in Int /\ n + i \in 1 .. Len(b)
    <3> DEFINE l == Len(b)
    <3>1. i \in 1 .. l - n /\ n \in Nat /\ l \in Nat /\ n <= l
      BY <1>1, <1>2, <2>1
    <3> HIDE DEF l
    <3>2. i \in 1 .. l - n /\ i \in Int /\ n + i \in 1 .. l
      BY <3>1
    <3> QED BY <3>2 DEF l
  <2>4. out.reader.buffer[i] = b[n + i]
    BY <1>4, <1>5, <1>7, <2>3
  <2>5. b[n + i] = Consumed(r) + (n + i) - 1
    BY <1>1, <2>3
  <2> DEFINE c == Consumed(r)
             x == out.reader.buffer[i]
  <2>6. c \in Int /\ n \in Int /\ i \in Int /\ x = c + (n + i) - 1
    BY <1>1, <1>2, <2>3, <2>4, <2>5
  <2> HIDE DEF c, x
  <2>7. x = (c + n) + i - 1
    BY <2>6
  <2> QED BY <1>8, <2>7 DEF c, x
<1>10. ReaderOK(out.reader, tail, event, end)
  <2>1. 0 <= Consumed(out.reader)
    BY <1>1, <1>2, <1>8 DEF ReaderOK
  <2> QED BY <1>5, <1>6, <1>7, <1>9, <2>1 DEF ReaderOK
<1>11. r.buffer = <<>> => out.reader.buffer = <<>>
  <2> SUFFICES ASSUME b = <<>> PROVE rest = <<>>
    BY <1>5, <1>7 DEF b
  <2>1. Len(rest) = 0
    BY <1>2, <1>4
  <2> QED BY <1>4, <2>1
<1> QED BY <1>4, <1>5, <1>7, <1>8, <1>10, <1>11 DEF n, b, out

\* Close.
LEMMA ReaderCloseKeeps ==
    ASSUME NEW tail, NEW event, NEW end, NEW r, NEW id, ReaderOK(r, tail, event, end)
    PROVE  LET out == CloseReader(r, id) IN
           /\ ReaderOK(out.reader, tail, event, end) /\ Acked(out, id)
           /\ out.reader.nextSeq = r.nextSeq /\ out.reader.ooo = r.ooo
           /\ out.reader.buffer = r.buffer /\ Consumed(out.reader) = Consumed(r)
           /\ out.reader.closed
<1> DEFINE out == CloseReader(r, id)
<1>1. r \in Readers /\ Len(r.buffer) <= ReadWindow
      /\ r.err \in {"none", "error", "closed"}
  BY ReaderFields DEF ReaderOK
<1>2. CASE r.closed
  <2>1. out = Quiet(r)
    BY <1>2 DEF CloseReader
  <2>2. out.reader = r /\ out.acks = <<>>
    BY <2>1 DEF Quiet
  <2> QED BY <1>2, <2>2 DEF Acked
<1>3. CASE ~r.closed
  <2> DEFINE err == IF r.err = "none" THEN "closed" ELSE r.err
             r1 == [r EXCEPT !.closed = TRUE, !.err = err]
  <2>1. out = WithAck([r EXCEPT !.closed = TRUE, !.err = IF @ = "none" THEN "closed" ELSE @],
                      id, FALSE, TRUE)
    BY <1>3 DEF CloseReader
  <2>2. [r EXCEPT !.closed = TRUE, !.err = IF @ = "none" THEN "closed" ELSE @] = r1
    BY <1>1 DEF Readers
  <2>3. err \in {"none", "error", "closed"} /\ (err = "error" => r.err = "error")
    BY <1>1
  <2> HIDE DEF err
  <2>4. /\ r1 \in Readers /\ r1.ooo = r.ooo /\ r1.nextSeq = r.nextSeq /\ r1.buffer = r.buffer
        /\ r1.eof = r.eof /\ r1.err = err /\ r1.closed /\ Len(r1.buffer) <= ReadWindow
    BY <1>1, <2>3 DEF Readers
  <2>7. out = WithAck(r1, id, FALSE, TRUE)
    BY <2>1, <2>2
  <2> HIDE DEF r1, out
  <2>5. /\ out.reader \in Readers /\ out.reader.ooo = r1.ooo
        /\ out.reader.nextSeq = r1.nextSeq /\ out.reader.buffer = r1.buffer
        /\ out.reader.eof = r1.eof /\ out.reader.err = r1.err /\ out.reader.closed = r1.closed
        /\ Acked(out, id)
    BY <1>1, <2>4, <2>7, WithAckKeeps, Zenon
  <2>6. Consumed(out.reader) = Consumed(r)
    BY <2>4, <2>5 DEF Consumed
  <2> QED BY <2>3, <2>4, <2>5, <2>6 DEF ReaderOK, out
<1> QED BY <1>2, <1>3

\* Close and Read leave a reader's flow as it is.
LEMMA FlowStays ==
    ASSUME NEW packets, NEW base \in Nat, NEW r0 \in Readers, NEW r \in Readers,
           Clear(packets, r0), Bound(packets, r0, base),
           r.nextSeq = r0.nextSeq, r.ooo = r0.ooo, Consumed(r0) <= Consumed(r),
           r0.buffer = <<>> => r.buffer = <<>>
    PROVE  Clear(packets, r) /\ Bound(packets, r, base)
<1>1. Clear(packets, r)
  BY DEF Clear
<1>2. Consumed(r0) \in Int /\ Consumed(r) \in Int
  BY ReaderFields
<1>3. Bound(packets, r, base)
  <2>1. r.buffer = <<>> \/ base <= Consumed(r)
    <3>1. r0.buffer = <<>> \/ base <= Consumed(r0)
      BY DEF Bound
    <3> QED BY <1>2, <3>1
  <2>2. \A p \in DataOf(packets \cup r.ooo) : base <= p.seq /\ PacketEnd(p) <= base + ReadWindow
    BY DEF Bound
  <2> QED BY <2>1, <2>2 DEF Bound
<1> QED BY <1>1, <1>3


-----------------------------------------------------------------------------
(* Queues: what is on its way is added at the end, taken from anywhere,    *)
(* or cut off.                                                             *)

\* A queue with its i-th element taken out.
LEMMA RemovedFrom ==
    ASSUME NEW S, NEW w \in Seq(S), NEW i \in DOMAIN w
    PROVE  /\ RemoveAt(w, i) \in Seq(S) /\ Len(RemoveAt(w, i)) = Len(w) - 1
           /\ Len(w) \in Nat /\ i \in 1 .. Len(w)
           /\ \A k \in 1 .. Len(w) - 1 : RemoveAt(w, i)[k] = w[IF k < i THEN k ELSE k + 1]
<1> DEFINE n == Len(w)
           x == SubSeq(w, 1, i - 1)
           y == SubSeq(w, i + 1, n)
<1>1. n \in Nat /\ i \in 1 .. n /\ \A k \in 1 .. n : w[k] \in S
  OBVIOUS
<1> HIDE DEF n
<1>2. x \in Seq(S) /\ Len(x) = i - 1 /\ \A k \in 1 .. i - 1 : x[k] = w[k]
  <2>1. \A k \in 1 .. i - 1 : w[k] \in S
    BY <1>1
  <2> DEFINE m == i - 1
  <2>2. m \in Nat
    BY <1>1
  <2> HIDE DEF m
  <2>3. /\ SubSeq(w, 1, m) \in Seq(S)
        /\ Len(SubSeq(w, 1, m)) = IF 1 <= m THEN m - 1 + 1 ELSE 0
        /\ \A k \in 1 .. m - 1 + 1 : SubSeq(w, 1, m)[k] = w[1 + k - 1]
    BY <2>1, <2>2, SubSeqProperties DEF m
  <2>4. /\ SubSeq(w, 1, m) \in Seq(S)
        /\ Len(SubSeq(w, 1, m)) = m
        /\ \A k \in 1 .. m : SubSeq(w, 1, m)[k] = w[k]
    BY <2>2, <2>3
  <2> QED BY <2>4 DEF m
<1>3. y \in Seq(S) /\ Len(y) = n - i /\ \A k \in 1 .. n - i : y[k] = w[i + k]
  <2>1. \A k \in i + 1 .. n : w[k] \in S
    BY <1>1
  <2> DEFINE m == i + 1
  <2>2. m \in Nat /\ n - m + 1 = n - i /\ (m <= n \/ n - i = 0)
    BY <1>1
  <2>5. \A k \in 1 .. n - i : m + k - 1 = i + k
    BY <1>1
  <2> HIDE DEF m
  <2>3. /\ SubSeq(w, m, n) \in Seq(S)
        /\ Len(SubSeq(w, m, n)) = IF m <= n THEN n - m + 1 ELSE 0
        /\ \A k \in 1 .. n - m + 1 : SubSeq(w, m, n)[k] = w[m + k - 1]
    BY <1>1, <2>1, <2>2, SubSeqProperties DEF m
  <2>4. /\ SubSeq(w, m, n) \in Seq(S)
        /\ Len(SubSeq(w, m, n)) = n - i
        /\ \A k \in 1 .. n - i : SubSeq(w, m, n)[k] = w[i + k]
    BY <1>1, <2>2, <2>3, <2>5
  <2> QED BY <2>4 DEF m
<1>4. RemoveAt(w, i) = x \o y
  BY DEF RemoveAt, n
<1> HIDE DEF x, y
<1>5. /\ x \o y \in Seq(S) /\ Len(x \o y) = Len(x) + Len(y)
      /\ \A k \in 1 .. Len(x) + Len(y) :
           (x \o y)[k] = IF k <= Len(x) THEN x[k] ELSE y[k - Len(x)]
  BY <1>2, <1>3, ConcatProperties
<1>6. Len(x) + Len(y) = n - 1
  BY <1>1, <1>2, <1>3
<1>7. ASSUME NEW k \in 1 .. n - 1 PROVE (x \o y)[k] = w[IF k < i THEN k ELSE k + 1]
  <2>1. k \in Int /\ n \in Int /\ i \in Int /\ k >= 1 /\ k <= n - 1
    BY <1>1
  <2>2. (x \o y)[k] = IF k <= i - 1 THEN x[k] ELSE y[k - (i - 1)]
    BY <1>2, <1>5, <1>6
  <2>3. CASE k < i
    <3>1. k <= i - 1 /\ k \in 1 .. i - 1
      BY <2>1, <2>3
    <3> QED BY <1>2, <2>2, <2>3, <3>1
  <2>4. CASE ~(k < i)
    <3>1. ~(k <= i - 1) /\ k - (i - 1) \in 1 .. n - i /\ i + (k - (i - 1)) = k + 1
      BY <2>1, <2>4, <1>1
    <3> QED BY <1>3, <2>2, <2>4, <3>1
  <2> QED BY <2>3, <2>4
<1> QED BY <1>1, <1>4, <1>5, <1>6, <1>7 DEF n

\* It has the other elements.
LEMMA RestOf ==
    ASSUME NEW S, NEW w \in Seq(S), NEW i \in DOMAIN w
    PROVE  /\ RemoveAt(w, i) \in Seq(S) /\ w[i] \in S
           /\ Range(w) = Range(RemoveAt(w, i)) \cup {w[i]}
           /\ \A k \in DOMAIN RemoveAt(w, i) : \E j \in DOMAIN w : j # i /\ RemoveAt(w, i)[k] = w[j]
<1> DEFINE n == Len(w)
           v == RemoveAt(w, i)
<1>1. /\ v \in Seq(S) /\ Len(v) = n - 1 /\ n \in Nat /\ i \in 1 .. n
      /\ \A k \in 1 .. n - 1 : v[k] = w[IF k < i THEN k ELSE k + 1]
  BY RemovedFrom
<1>2. DOMAIN w = 1 .. n /\ w[i] \in S
  OBVIOUS
<1> HIDE DEF n, v
<1>3. DOMAIN v = 1 .. n - 1
  BY <1>1
<1>4. ASSUME NEW k \in DOMAIN v PROVE \E j \in DOMAIN w : j # i /\ v[k] = w[j]
  <2>1. CASE k < i
    <3>1. k \in 1 .. n /\ k # i
      BY <1>1, <1>3, <2>1
    <3> QED BY <1>1, <1>2, <1>3, <2>1, <3>1
  <2>2. CASE ~(k < i)
    <3>1. k + 1 \in 1 .. n /\ k + 1 # i
      BY <1>1, <1>3, <2>2
    <3> QED BY <1>1, <1>2, <1>3, <2>2, <3>1
  <2> QED BY <2>1, <2>2
<1>5. ASSUME NEW j \in DOMAIN w, j # i PROVE \E k \in DOMAIN v : v[k] = w[j]
  <2>1. CASE j < i
    <3>1. j \in 1 .. n - 1
      BY <1>1, <1>2, <2>1
    <3> QED BY <1>1, <1>3, <2>1, <3>1
  <2>2. CASE ~(j < i)
    <3>1. j - 1 \in 1 .. n - 1 /\ ~(j - 1 < i) /\ (j - 1) + 1 = j
      BY <1>1, <1>2, <1>5, <2>2
    <3> QED BY <1>1, <1>3, <3>1
  <2> QED BY <2>1, <2>2
<1>6. Range(w) = Range(v) \cup {w[i]}
  <2>1. ASSUME NEW q \in Range(v) PROVE q \in Range(w)
    BY <1>4 DEF Range
  <2>2. ASSUME NEW q \in Range(w), q # w[i] PROVE q \in Range(v)
    <3>1. PICK j \in DOMAIN w : q = w[j]
      BY DEF Range
    <3> QED BY <1>5, <2>2, <3>1 DEF Range
  <2>3. w[i] \in Range(w)
    BY DEF Range
  <2> QED BY <2>1, <2>2, <2>3
<1> QED BY <1>1, <1>2, <1>4, <1>6 DEF v

\* Packets stay in order; the one taken out is apart from the others.
LEMMA RestInOrder ==
    ASSUME NEW w \in Seq(Packets), NEW i \in DOMAIN w, Ordered(w)
    PROVE  /\ Ordered(RemoveAt(w, i))
           /\ \A q \in Range(RemoveAt(w, i)) : q \in Packets /\ Apart(w[i], q)
<1> DEFINE n == Len(w)
           v == RemoveAt(w, i)
<1>1. /\ v \in Seq(Packets) /\ Len(v) = n - 1 /\ n \in Nat /\ i \in 1 .. n
      /\ \A k \in 1 .. n - 1 : v[k] = w[IF k < i THEN k ELSE k + 1]
  BY RemovedFrom
<1>2. DOMAIN w = 1 .. n
  OBVIOUS
<1>3. \A k \in DOMAIN v : \E j \in DOMAIN w : j # i /\ v[k] = w[j]
  BY RestOf
<1> HIDE DEF n, v
<1>4. DOMAIN v = 1 .. n - 1
  BY <1>1
<1>5. ASSUME NEW k \in DOMAIN v, NEW l \in DOMAIN v, k < l PROVE PacketEnd(v[k]) <= v[l].seq
  <2> DEFINE k1 == IF k < i THEN k ELSE k + 1
             l1 == IF l < i THEN l ELSE l + 1
  <2>1. k1 \in 1 .. n /\ l1 \in 1 .. n /\ k1 < l1
    <3>1. k \in 1 .. n - 1 /\ l \in 1 .. n - 1 /\ i \in 1 .. n /\ n \in Nat /\ k < l
      BY <1>1, <1>4, <1>5
    <3>2. CASE k < i
      BY <3>1, <3>2
    <3>3. CASE ~(k < i)
      BY <3>1, <3>3
    <3> QED BY <3>2, <3>3
  <2>2. v[k] = w[k1] /\ v[l] = w[l1]
    BY <1>1, <1>4
  <2> HIDE DEF k1, l1
  <2> QED BY <1>2, <2>1, <2>2 DEF Ordered
<1>6. ASSUME NEW q \in Range(v) PROVE q \in Packets /\ Apart(w[i], q)
  <2>1. PICK k \in DOMAIN v : q = v[k]
    BY DEF Range
  <2>2. PICK j \in DOMAIN w : j # i /\ q = w[j]
    BY <1>3, <2>1
  <2>3. q \in Packets
    BY <2>2
  <2>4. CASE j < i
    BY <2>2, <2>4 DEF Ordered, Apart
  <2>5. CASE i < j
    BY <2>2, <2>5 DEF Ordered, Apart
  <2>6. j < i \/ i < j
    BY <1>1, <1>2, <2>2
  <2> QED BY <2>3, <2>4, <2>5, <2>6
<1> QED BY <1>5, <1>6 DEF Ordered, v

\* A queue that is cut off.
LEMMA CutOff ==
    ASSUME NEW S, NEW w \in Seq(S), NEW k \in 0 .. Len(w)
    PROVE  /\ SubSeq(w, 1, k) \in Seq(S) /\ Len(SubSeq(w, 1, k)) = k
           /\ \A i \in 1 .. k : SubSeq(w, 1, k)[i] = w[i]
           /\ Range(SubSeq(w, 1, k)) \subseteq Range(w)
           /\ k = 0 => SubSeq(w, 1, k) = <<>>
<1> DEFINE v == SubSeq(w, 1, k)
<1>1. \A i \in 1 .. k : i \in DOMAIN w /\ w[i] \in S
  OBVIOUS
<1>2. v \in Seq(S) /\ Len(v) = k /\ \A i \in 1 .. k : v[i] = w[i]
  <2>1. /\ SubSeq(w, 1, k) \in Seq(S)
        /\ Len(SubSeq(w, 1, k)) = IF 1 <= k THEN k - 1 + 1 ELSE 0
        /\ \A i \in 1 .. k - 1 + 1 : SubSeq(w, 1, k)[i] = w[1 + i - 1]
    BY <1>1, SubSeqProperties
  <2> HIDE DEF v
  <2> QED BY <2>1 DEF v
<1> HIDE DEF v
<1>3. DOMAIN v = 1 .. k
  BY <1>2
<1>4. Range(v) \subseteq Range(w)
  BY <1>1, <1>2, <1>3 DEF Range
<1>5. k = 0 => v = <<>>
  BY <1>2
<1> QED BY <1>2, <1>4, <1>5 DEF v

\* A queue that grows by one.
LEMMA GrownBy ==
    ASSUME NEW S, NEW w \in Seq(S), NEW x \in S
    PROVE  /\ w \o <<x>> \in Seq(S) /\ Len(w \o <<x>>) = Len(w) + 1 /\ Len(w) \in Nat
           /\ \A i \in 1 .. Len(w) : (w \o <<x>>)[i] = w[i]
           /\ (w \o <<x>>)[Len(w) + 1] = x
           /\ Range(w \o <<x>>) = Range(w) \cup {x}
<1> DEFINE n == Len(w)
           v == w \o <<x>>
<1>1. n \in Nat /\ DOMAIN w = 1 .. n
  OBVIOUS
<1>2. v \in Seq(S) /\ Len(v) = n + 1 /\ DOMAIN v = 1 .. n + 1
  OBVIOUS
<1>3. \A i \in 1 .. n : v[i] = w[i]
  OBVIOUS
<1>4. v[n + 1] = x
  OBVIOUS
<1> HIDE DEF n, v
<1>5. Range(v) = Range(w) \cup {x}
  <2>1. ASSUME NEW q \in Range(v) PROVE q \in Range(w) \cup {x}
    <3>1. PICK i \in 1 .. n + 1 : q = v[i]
      BY <1>2 DEF Range
    <3>2. CASE i = n + 1
      BY <1>4, <3>1, <3>2
    <3>3. CASE i # n + 1
      <4>1. i \in 1 .. n
        BY <1>1, <3>3
      <4> QED BY <1>1, <1>3, <3>1, <4>1 DEF Range
    <3> QED BY <3>2, <3>3
  <2>2. ASSUME NEW q \in Range(w) PROVE q \in Range(v)
    <3>1. PICK i \in 1 .. n : q = w[i]
      BY <1>1 DEF Range
    <3>2. i \in DOMAIN v
      BY <1>1, <1>2
    <3> QED BY <1>3, <3>1, <3>2 DEF Range
  <2>3. x \in Range(v)
    <3>1. n + 1 \in DOMAIN v
      BY <1>1, <1>2
    <3> QED BY <1>4, <3>1 DEF Range
  <2> QED BY <2>1, <2>2, <2>3
<1> QED BY <1>1, <1>2, <1>3, <1>4, <1>5 DEF n, v


-----------------------------------------------------------------------------
(* The inductive invariant: the job manager's protocol. *)

Requests == {NoRequest} \cup [kind : {"prepare"}, id : Streams, seq : Nat]
                        \cup [kind : {"start"}, id : Streams]
CallRecords == {NoRequest} \cup [kind : {"prepare"}, id : Streams, seq : Nat,
                                 at : {"disconnect", "connect", "connecting"}]
Replies == {NoReply} \cup [kind : {"prepare", "start"}, ok : BOOLEAN]
                     \cup [kind : {"prepare"}, ok : {TRUE}, done : BOOLEAN, seq : Nat]

LinkTypes == link \in [Streams -> {"none", "up", "down"}] /\ wire \in [Streams -> Seq(Packets)]

AckTypes ==
    /\ ackWire \in [Streams -> Seq(AckRecords)]
    /\ \A g \in Streams : \A a \in Range(ackWire[g]) : a.id = g

JobTypes ==
    /\ writers \subseteq Streams
    /\ jm \in [client : 0 .. MaxStreams, pending : 0 .. MaxStreams]
    /\ call \in CallRecords /\ request \in Requests /\ reply \in Replies

MainTypes ==
    /\ known \subseteq Streams
    /\ readers \in [Streams -> Readers]
    /\ loops \in [Streams -> Loops] /\ taken \in [Streams -> Seq(Nat)]
    /\ current \in Streams /\ lastStream \in Streams
    /\ attempt \in [at : {"idle", "stat", "create", "prepare", "start", "starting"}, seq : Nat, gap : Nat]

FileTypes == file \in Seq(Nat) /\ gap \in Nat /\ disk \in [file : Seq(Nat), gap : Nat]

TypesOK == LinkTypes /\ AckTypes /\ JobTypes /\ MainTypes /\ FileTypes

InCall(at) == call # NoRequest /\ call.at = at

\* The stream of id g has not reached the stream manager.
Behind(g) == streamId < g /\ (call # NoRequest => call.id < g)

\* The stream that is connected waits for StartStream.
Corked == connected /\ (jm.pending = streamId \/ InCall("connecting"))

\* Only the newest connection is up.
LinksOK ==
    \A g \in Streams : /\ link[g] = "up" => g = lastStream
                       /\ g > lastStream => link[g] = "none"

\* Streams reach the stream manager in order.
StreamAt ==
    /\ 1 <= streamId /\ streamId <= lastStream
    /\ jm.pending <= streamId /\ \A g \in writers : g <= streamId
    /\ startSeq <= window.head

\* The call that holds jm.lock.
CallHeld ==
    call # NoRequest =>
        /\ call.id <= lastStream
        /\ call.at # "connecting" \/ ~Unlocked => streamId < call.id
        /\ call.at = "connecting" /\ Unlocked /\ connected => streamId = call.id
        /\ call.id = lastStream /\ attempt.at = "prepare" => call.seq = attempt.seq

\* ClientConnected runs for that call, and what it has read is not ahead of the buffer.
ConnectHeld ==
    ~Unlocked =>
        /\ InCall("connecting")
        /\ connecting.id = call.id /\ connecting.clientSeq = call.seq /\ connecting.rwnd = 0
        /\ connecting.headPos <= window.head
        /\ connecting.at \in {"consumed", "ready"} => connecting.clientSeq <= window.head

CallOK == StreamAt /\ CallHeld /\ ConnectHeld

\* A corked stream's window is closed, and no ack reaches it.
CorkedOK == Corked => rwndSize = 0 /\ sentNotAcked = 0 /\ streamId \notin writers

\* A request, and an answer, belong to the attempt under way or are ignored.
RequestOK ==
    /\ request # NoRequest => request.id <= lastStream
    /\ request.kind = "prepare" /\ request.id = lastStream =>
        /\ Behind(lastStream) /\ attempt.at \in {"prepare", "idle"}
        /\ attempt.at = "prepare" => request.seq = attempt.seq
    /\ request.kind = "start" /\ request.id = lastStream =>
        /\ call = NoRequest /\ jm.pending = lastStream /\ streamId = lastStream
        /\ attempt.at \in {"start", "idle"}

ReplyOK ==
    /\ reply.kind = "start" => attempt.at \in {"start", "starting"}
    /\ reply.kind = "prepare" => attempt.at = "prepare"
    /\ reply.kind = "prepare" /\ reply.ok =>
        /\ "done" \in DOMAIN reply
        /\ ~reply.done => /\ call = NoRequest /\ connected
                          /\ jm.pending = lastStream /\ streamId = lastStream
                          /\ reply.seq = startSeq

RpcOK == RequestOK /\ ReplyOK

\* The attempt under way has the newest stream to itself.
AttemptOK ==
    /\ attempt.at \in {"stat", "create"} => Behind(lastStream) /\ lastStream \notin known
    /\ attempt.at = "prepare" => /\ streamId < lastStream \/ (streamId = lastStream /\ Corked)
                                 /\ streamId = lastStream => attempt.seq <= startSeq
    /\ attempt.at \in {"prepare", "start", "starting"} => current = lastStream
    /\ attempt.at \in {"start", "starting"} => streamId = lastStream
    /\ attempt.at # "idle" => loops[lastStream].at = "none"
    /\ \A g \in Streams : g > lastStream => loops[g].at = "none"
    /\ \A g \in known : g <= streamId \/ (g = lastStream /\ attempt.at = "prepare")
    /\ current <= lastStream

ProtocolOK == LinksOK /\ CallOK /\ CorkedOK /\ RpcOK /\ AttemptOK

-----------------------------------------------------------------------------
(* ... and the streams. *)

PacketsOK ==
    \A g \in Streams : \A p \in Range(wire[g]) : PacketOK(p, window.tail, terminalEvent, eofPos)

ReadersOK == \A g \in Streams : ReaderOK(readers[g], window.tail, terminalEvent, eofPos)

\* An output loop l and its history t, at reader r.
LoopOK(l, t, r, tail, event, end) ==
    /\ l.at = "none" => l = NoLoop /\ t = <<>>
    /\ l.at # "none" => l.from + Len(t) = Consumed(r) /\ r.nextSeq <= tail
    /\ \A i \in DOMAIN t : t[i] = l.from + i - 1
    /\ Len(l.bytes) <= Len(t)
    /\ \A i \in DOMAIN l.bytes : l.bytes[i] = l.from + Len(t) - Len(l.bytes) + i - 1
    /\ l.at \notin {"read", "append"} => l.bytes = <<>>
    /\ l.at = "reading" => l.err = "none"
    /\ l.at \in {"reading", "read", "append"} => ~r.closed
    /\ l.err # "none" => l.bytes = <<>> /\ event = l.err
    /\ l.err = "eof" => l.from + Len(t) = end

LoopsOK ==
    \A g \in Streams : LoopOK(loops[g], taken[g], readers[g], window.tail, terminalEvent, eofPos)

\* A stream whose reader is registered, and what is on its way either way.
FlowOK(g) ==
    /\ Ordered(wire[g])
    /\ AcksOK(Range(ackWire[g]), readers[g])
    /\ Clear(Range(wire[g]), readers[g])
    /\ \E base \in Nat :
         /\ Bound(Range(wire[g]), readers[g], base)
         /\ connected /\ streamId = g =>
              Sender(Range(wire[g]), readers[g], base, SendPos, window.head + rwndSize)

FlowsOK == \A g \in known : FlowOK(g)

\* A stream the stream manager has not come to carries nothing; one that is corked no data.
\* The reader of the attempt under way waits where the attempt says.
QuietOK ==
    /\ \A g \in Streams : g > streamId =>
         wire[g] = <<>> /\ readers[g].ooo = {} /\ readers[g].buffer = <<>>
    /\ \A g \in Streams :
         g > lastStream \/ (g = lastStream /\ attempt.at \in {"stat", "create"}) => ackWire[g] = <<>>
    /\ Corked => NoData(Range(wire[streamId]), readers[streamId])
    /\ attempt.at = "prepare" => readers[lastStream].nextSeq = attempt.seq
    /\ attempt.at \in {"prepare", "start", "starting"} => ~readers[lastStream].closed
    /\ attempt.at \in {"start", "starting"} => readers[lastStream].nextSeq <= window.tail

StreamsOK == PacketsOK /\ ReadersOK /\ WindowRespected /\ LoopsOK /\ FlowsOK /\ QuietOK

DurableInv == SmInv /\ TypesOK /\ ProtocolOK /\ StreamsOK


-----------------------------------------------------------------------------
(* What the stream manager's steps do to the output and to the sender.     *)

\* The output only grows, and not after its end.
Grown ==
    /\ window.tail <= window'.tail
    /\ terminalEvent # "none" => /\ window'.tail = window.tail
                                 /\ terminalEvent' = terminalEvent /\ eofPos' = eofPos

\* The sender stands where it stood.
SenderStays ==
    /\ UNCHANGED <<connected, streamId, rwndSize, sentNotAcked, startSeq, connecting>>
    /\ window.head <= window'.head
    /\ connected => window'.head = window.head

\* A write of the process moves the buffer's two ends forward only.
LEMMA WriteMoves ==
    ASSUME SmInv, WriteBytes
    PROVE  window.head <= window'.head /\ window.tail <= window'.tail
<1>1. /\ window \in Windows /\ window.head \in Nat /\ window.tail \in Nat
      /\ window.limit \in 0 .. BufSize /\ window.head <= window.tail /\ BufSize \in Nat
      /\ writer.left \in Nat
  BY WindowFacts, SizesAssumption DEF Writers
<1>2. CASE Full(window)
  BY <1>1, <1>2 DEF WriteBytes, WriteAvailable
<1>3. CASE ~Full(window)
  <2> DEFINE n == Accepted(window, writer.left)
  <2>1. window' = AfterWrite(window, n) /\ writer.left > 0
    BY <1>3 DEF WriteBytes, WriteAvailable
  <2>2. n \in Nat
    BY <1>1, <1>3, <2>1 DEF Accepted, AtMost, Full, Count
  <2> HIDE DEF n
  <2> DEFINE tail == window.tail + n
             head == IF tail > window.head + window.limit THEN tail - window.limit ELSE window.head
  <2>3. window' = [head |-> head, tail |-> tail, sync |-> window.sync, limit |-> window.limit]
    BY <2>1 DEF AfterWrite
  <2>4. head >= window.head /\ tail >= window.tail
    BY <1>1, <2>2
  <2> HIDE DEF head, tail
  <2> QED BY <2>3, <2>4
<1> QED BY <1>2, <1>3

\* The terminal's side only adds to the output.
LEMMA PtyTurnMoves ==
    ASSUME SmInv, PtyTurn
    PROVE  SmInv' /\ Grown /\ SenderStays /\ UNCHANGED <<closed, terminalEventAcked>>
<1>1. /\ window.head \in Nat /\ window.tail \in Nat
      /\ terminalEvent # "none" => readLoop = "done"
  BY WindowFacts DEF SmInv, OutputEnds
<1>2. CASE WriteBytes
  <2>1. SmInv'
    BY <1>2, WriteBytesKeeps
  <2>2. window.head <= window'.head /\ window.tail <= window'.tail
    BY <1>2, WriteMoves
  <2>3. connected => window'.head = window.head
    BY <1>2, WriteKeepsHead DEF SmInv, SentStaysBuffered
  <2>4. readLoop = "writing"
        /\ UNCHANGED <<connected, streamId, rwndSize, sentNotAcked, startSeq, connecting,
                       closed, terminalEventAcked, terminalEvent, eofPos>>
    BY <1>2 DEF WriteBytes, clientVars, sentVars, endVars
  <2> QED BY <1>1, <2>1, <2>2, <2>3, <2>4 DEF Grown, SenderStays
<1>3. ASSUME NEW event \in Ends, ReadEnds(event)
      PROVE  SmInv' /\ Grown /\ SenderStays /\ UNCHANGED <<closed, terminalEventAcked>>
  <2>1. event \in {"eof", "error"}
    BY DurableAssumption
  <2>2. SmInv'
    BY <1>3, <2>1, ReadEndsKeeps
  <2>3. readLoop = "reading" /\ window' = window
        /\ UNCHANGED <<connected, streamId, rwndSize, sentNotAcked, startSeq, connecting,
                       closed, terminalEventAcked>>
    BY <1>3 DEF ReadEnds, windowVars, clientVars, sentVars, endVars
  <2> QED BY <1>1, <2>2, <2>3 DEF Grown, SenderStays
<1>4. ASSUME NEW n \in 1 .. MaxChunk, ReadBytes(n)
      PROVE  SmInv' /\ Grown /\ SenderStays /\ UNCHANGED <<closed, terminalEventAcked>>
  <2>1. SmInv'
    BY <1>4, ReadBytesKeeps
  <2>2. window' = window
        /\ UNCHANGED <<connected, streamId, rwndSize, sentNotAcked, startSeq, connecting,
                       closed, terminalEventAcked, terminalEvent, eofPos>>
    BY <1>4 DEF ReadBytes, Offer, clientVars, sentVars, endVars
  <2> QED BY <1>1, <2>1, <2>2 DEF Grown, SenderStays
<1>5. CASE ReadLoopTop \/ SignalData \/ ChunkWritten \/ SenderWaits \/ SenderExits
  <2>1. SmInv'
    BY <1>5, ReadLoopTopKeeps, SignalDataKeeps, ChunkWrittenKeeps, SenderWaitsKeeps, SenderExitsKeeps
  <2>2. window' = window
        /\ UNCHANGED <<connected, streamId, rwndSize, sentNotAcked, startSeq, connecting,
                       closed, terminalEventAcked, terminalEvent, eofPos>>
    BY <1>5 DEF ReadLoopTop, SignalData, ChunkWritten, SenderWaits, SenderExits,
                windowVars, ptyVars, clientVars, sentVars, endVars
  <2> QED BY <1>1, <2>1, <2>2 DEF Grown, SenderStays
<1> QED BY <1>2, <1>3, <1>4, <1>5 DEF PtyTurn

\* The other steps leave the output as it is.
LEMMA SameOutput ==
    ASSUME SmInv, window'.tail = window.tail, UNCHANGED <<terminalEvent, eofPos>>
    PROVE  Grown
BY WindowFacts DEF Grown

\* What stays true as the output grows.
LEMMA PacketsStay ==
    ASSUME SmInv, Grown, NEW p, PacketOK(p, window.tail, terminalEvent, eofPos), window'.tail \in Nat
    PROVE  PacketOK(p, window'.tail, terminalEvent', eofPos')
<1>1. p \in Packets /\ p.seq \in Nat /\ p.n \in Nat /\ p.end \in {"none", "eof", "error"}
  BY DEF PacketOK, Packets
<1>2. PacketEnd(p) <= window'.tail
  BY <1>1, WindowFacts DEF PacketOK, PacketEnd, Grown
<1> QED BY <1>1, <1>2 DEF PacketOK, Grown

\* More output leaves a reader as well placed as it was.
LEMMA ReadersStay ==
    ASSUME SmInv, Grown, NEW r, ReaderOK(r, window.tail, terminalEvent, eofPos), window'.tail \in Nat
    PROVE  ReaderOK(r, window'.tail, terminalEvent', eofPos')
<1>1. \A p \in r.ooo : PacketOK(p, window'.tail, terminalEvent', eofPos')
  BY PacketsStay DEF ReaderOK
<1>2. r.eof => terminalEvent' = "eof" /\ r.nextSeq = eofPos'
  BY DEF ReaderOK, Grown
<1>3. r.err = "error" => terminalEvent' = "error"
  BY DEF ReaderOK, Grown
<1> QED BY <1>1, <1>2, <1>3 DEF ReaderOK

\* More output leaves an output loop as well placed as it was.
LEMMA LoopsStay ==
    ASSUME SmInv, Grown, NEW l, NEW t, NEW r, r.nextSeq \in Nat, l.err \in {"none", "eof", "error"},
           LoopOK(l, t, r, window.tail, terminalEvent, eofPos), window'.tail \in Nat
    PROVE  LoopOK(l, t, r, window'.tail, terminalEvent', eofPos')
<1>1. l.at # "none" => r.nextSeq <= window'.tail
  BY WindowFacts DEF LoopOK, Grown
<1>2. l.err # "none" => terminalEvent' = l.err
  BY DEF LoopOK, Grown
<1>3. l.err = "eof" => l.from + Len(t) = eofPos'
  BY DEF LoopOK, Grown
<1> QED BY <1>1, <1>2, <1>3 DEF LoopOK


-----------------------------------------------------------------------------
(* Types. *)

\* What is delivered was on its way.
LEMMA DeliveredWasSent ==
    ASSUME NEW S, NEW q \in Seq(S), NEW i \in Deliverable(q)
    PROVE  i \in DOMAIN q /\ q[i] \in S /\ q[i] \in Range(q)
<1>1. i \in DOMAIN q
  <2>1. CASE Reordering \/ q = <<>>
    BY <2>1 DEF Deliverable
  <2>2. CASE ~(Reordering \/ q = <<>>)
    <3>1. i = 1 /\ Len(q) \in Nat /\ Len(q) # 0
      BY <2>2 DEF Deliverable
    <3> QED BY <3>1
  <2> QED BY <2>1, <2>2
<1> QED BY <1>1 DEF Range

\* What a method of a reader does to the acks on their way, and to the readers.
LEMMA ReaderBecomesWhat ==
    ASSUME AckTypes, readers \in [Streams -> Readers], NEW g \in Streams, NEW out,
           out.reader \in Readers, Len(out.reader.buffer) <= ReadWindow, Acked(out, g),
           ReaderBecomes(g, out)
    PROVE  /\ AckTypes' /\ readers' \in [Streams -> Readers] /\ readers'[g] = out.reader
           /\ known' \subseteq known
           /\ \A h \in Streams : h # g => readers'[h] = readers[h] /\ ackWire'[h] = ackWire[h]
           /\ ackWire'[g] = ackWire[g] \/ link[g] = "up"
           /\ \A a \in Range(ackWire'[g]) :
                \/ a \in Range(ackWire[g])
                \/ /\ a.seq = out.reader.nextSeq
                   /\ a.seq + a.rwnd = Consumed(out.reader) + ReadWindow
<1>1. /\ readers' = [readers EXCEPT ![g] = out.reader]
      /\ ackWire' = Sent(ackWire, g, out.acks)
      /\ known' \subseteq known
  BY DEF ReaderBecomes
<1>2. /\ readers' \in [Streams -> Readers] /\ readers'[g] = out.reader
      /\ \A h \in Streams : h # g => readers'[h] = readers[h]
  BY <1>1
<1>3. /\ ackWire \in [Streams -> Seq(AckRecords)] /\ ackWire[g] \in Seq(AckRecords)
      /\ \A h \in Streams : \A a \in Range(ackWire[h]) : a.id = h
  BY DEF AckTypes
<1>4. CASE ackWire' = ackWire
  BY <1>1, <1>2, <1>3, <1>4 DEF AckTypes
<1>5. CASE ackWire' # ackWire
  <2>1. link[g] = "up" /\ ackWire' = [ackWire EXCEPT ![g] = @ \o out.acks]
    BY <1>1, <1>5 DEF Sent
  <2>2. out.acks # <<>>
    <3>1. SUFFICES ASSUME out.acks = <<>> PROVE FALSE
      OBVIOUS
    <3>2. ackWire[g] \o <<>> = ackWire[g]
      BY <1>3, ConcatEmptySeq
    <3>3. ackWire' = ackWire
      BY <1>3, <2>1, <3>1, <3>2
    <3> QED BY <1>5, <3>3
  <2>3. PICK fin \in BOOLEAN, cancel \in BOOLEAN : out.acks = <<AckOf(out.reader, g, fin, cancel)>>
    BY <2>2 DEF Acked
  <2> DEFINE a == AckOf(out.reader, g, fin, cancel)
  <2>4. /\ a \in AckRecords /\ a.id = g
        /\ a.seq = out.reader.nextSeq /\ a.seq + a.rwnd = Consumed(out.reader) + ReadWindow
    BY AckPromises
  <2>5. ackWire' = [ackWire EXCEPT ![g] = @ \o <<a>>]
    BY <2>1, <2>3
  <2> HIDE DEF a
  <2> DEFINE q == ackWire[g] \o <<a>>
  <2>6. q \in Seq(AckRecords) /\ Range(q) = Range(ackWire[g]) \cup {a}
    BY <1>3, <2>4, GrownBy
  <2>7. ackWire' = [ackWire EXCEPT ![g] = q]
    BY <2>5
  <2> HIDE DEF q
  <2>8. /\ ackWire' \in [Streams -> Seq(AckRecords)] /\ ackWire'[g] = q
        /\ \A h \in Streams : h # g => ackWire'[h] = ackWire[h]
    BY <1>3, <2>6, <2>7
  <2>9. \A h \in Streams : \A x \in Range(ackWire'[h]) : x.id = h
    BY <1>3, <2>4, <2>6, <2>8
  <2>10. AckTypes'
    BY <2>8, <2>9 DEF AckTypes
  <2>11. \A x \in Range(ackWire'[g]) :
           \/ x \in Range(ackWire[g])
           \/ /\ x.seq = out.reader.nextSeq
              /\ x.seq + x.rwnd = Consumed(out.reader) + ReadWindow
    BY <2>4, <2>6, <2>8
  <2> QED BY <1>1, <1>2, <2>1, <2>8, <2>10, <2>11
<1> QED BY <1>4, <1>5

\* Taking an ack from its queue, or cutting queues off, leaves the rest.
LEMMA AcksRemain ==
    ASSUME AckTypes, ackWire' \in [Streams -> Seq(AckRecords)],
           \A g \in Streams : Range(ackWire'[g]) \subseteq Range(ackWire[g])
    PROVE  AckTypes'
BY DEF AckTypes

\* What a loop may find.
LEMMA ReaderFacts ==
    ASSUME ReadersOK, NEW g \in Streams
    PROVE  /\ ReaderOK(readers[g], window.tail, terminalEvent, eofPos)
           /\ readers[g] \in Readers /\ Len(readers[g].buffer) <= ReadWindow
BY DEF ReadersOK, ReaderOK

\* What GiveUp and the loop's end do.
LEMMA CloseBecomes ==
    ASSUME AckTypes, readers \in [Streams -> Readers], ReadersOK, NEW g \in Streams,
           ReaderBecomes(g, CloseReader(readers[g], g))
    PROVE  /\ AckTypes' /\ readers' \in [Streams -> Readers]
           /\ ReaderOK(readers'[g], window.tail, terminalEvent, eofPos)
           /\ readers'[g].nextSeq = readers[g].nextSeq /\ readers'[g].ooo = readers[g].ooo
           /\ readers'[g].buffer = readers[g].buffer
           /\ Consumed(readers'[g]) = Consumed(readers[g])
           /\ known' \subseteq known
           /\ \A h \in Streams : h # g => readers'[h] = readers[h] /\ ackWire'[h] = ackWire[h]
           /\ ackWire'[g] = ackWire[g] \/ link[g] = "up"
           /\ \A a \in Range(ackWire'[g]) :
                \/ a \in Range(ackWire[g])
                \/ /\ a.seq = readers'[g].nextSeq
                   /\ a.seq + a.rwnd = Consumed(readers'[g]) + ReadWindow
<1> DEFINE out == CloseReader(readers[g], g)
<1>1. /\ ReaderOK(out.reader, window.tail, terminalEvent, eofPos) /\ Acked(out, g)
      /\ out.reader.nextSeq = readers[g].nextSeq /\ out.reader.ooo = readers[g].ooo
      /\ out.reader.buffer = readers[g].buffer /\ Consumed(out.reader) = Consumed(readers[g])
  BY ReaderFacts, ReaderCloseKeeps
<1>2. ReaderBecomes(g, out)
  OBVIOUS
<1> HIDE DEF out
<1>3. out.reader \in Readers /\ Len(out.reader.buffer) <= ReadWindow
  BY <1>1 DEF ReaderOK
<1> QED BY <1>1, <1>2, <1>3, ReaderBecomesWhat


-----------------------------------------------------------------------------
(* What keeps the parts of the invariant as they are.                      *)

\* The ends of the buffer, before a step and after it.
LEMMA Tails ==
    ASSUME SmInv, SmInv', Grown
    PROVE  /\ window.tail \in Nat /\ window'.tail \in Nat /\ window.tail <= window'.tail
           /\ window.head \in Nat /\ window'.head \in Nat
           /\ window.head <= window.tail /\ window'.head <= window'.tail
BY DEF SmInv, SmTypeOK, Windows, BufferHolds, WindowBounded, Grown

\* A step in which the streams' ends and what is between them stay.
LEMMA StreamsKept ==
    ASSUME SmInv, SmInv', Grown, TypesOK, StreamsOK, UNCHANGED <<wire, readers, loops, taken>>
    PROVE  PacketsOK' /\ ReadersOK' /\ WindowRespected' /\ LoopsOK'
<1>1. window'.tail \in Nat
  BY Tails
<1>2. PacketsOK'
  <2>1. SUFFICES ASSUME NEW g \in Streams, NEW p \in Range(wire'[g])
                 PROVE  PacketOK(p, window'.tail, terminalEvent', eofPos')
    BY DEF PacketsOK
  <2>2. PacketOK(p, window.tail, terminalEvent, eofPos)
    BY DEF StreamsOK, PacketsOK
  <2> QED BY <1>1, <2>2, PacketsStay
<1>3. ReadersOK'
  <2>1. SUFFICES ASSUME NEW g \in Streams
                 PROVE  ReaderOK(readers'[g], window'.tail, terminalEvent', eofPos')
    BY DEF ReadersOK
  <2>2. ReaderOK(readers[g], window.tail, terminalEvent, eofPos)
    BY DEF StreamsOK, ReadersOK
  <2> QED BY <1>1, <2>2, ReadersStay
<1>4. WindowRespected'
  BY DEF StreamsOK, WindowRespected
<1>5. LoopsOK'
  <2>1. SUFFICES ASSUME NEW g \in Streams
                 PROVE  LoopOK(loops'[g], taken'[g], readers'[g], window'.tail, terminalEvent', eofPos')
    BY DEF LoopsOK
  <2>2. LoopOK(loops[g], taken[g], readers[g], window.tail, terminalEvent, eofPos)
    BY DEF StreamsOK, LoopsOK
  <2>3. readers[g].nextSeq \in Nat /\ loops[g].err \in {"none", "eof", "error"}
    BY DEF TypesOK, MainTypes, Readers, Loops
  <2> QED BY <1>1, <2>2, <2>3, LoopsStay
<1> QED BY <1>2, <1>3, <1>4, <1>5

\* ... and the sender stands where it stood, or serves nobody.
LEMMA FlowsKept ==
    ASSUME FlowsOK, UNCHANGED <<wire, ackWire, readers, known>>,
           connected' => /\ connected /\ streamId' = streamId /\ SendPos' = SendPos
                         /\ window'.head + rwndSize' = window.head + rwndSize
    PROVE  FlowsOK'
<1>1. SUFFICES ASSUME NEW g \in known PROVE FlowOK(g)'
  BY DEF FlowsOK
<1>2. FlowOK(g)
  BY DEF FlowsOK
<1>3. PICK base \in Nat :
         /\ Bound(Range(wire[g]), readers[g], base)
         /\ connected /\ streamId = g =>
              Sender(Range(wire[g]), readers[g], base, SendPos, window.head + rwndSize)
  BY <1>2 DEF FlowOK
<1>4. /\ Bound(Range(wire'[g]), readers'[g], base)
      /\ connected' /\ streamId' = g =>
           Sender(Range(wire'[g]), readers'[g], base, SendPos', window'.head + rwndSize')
  BY <1>3
<1> QED BY <1>2, <1>4 DEF FlowOK

\* A step that is none of the protocol's.
LEMMA ProtocolKept ==
    ASSUME SmInv, TypesOK, ProtocolOK,
           UNCHANGED <<link, jm, call, request, reply, lastStream, current, attempt,
                       connecting, connected, streamId, startSeq>>,
           writers' \subseteq writers,
           window.head <= window'.head, window'.head \in Nat,
           Corked => rwndSize' = rwndSize /\ sentNotAcked' = sentNotAcked,
           known' \subseteq known,
           \A g \in Streams : loops[g].at = "none" => loops'[g].at = "none"
    PROVE  ProtocolOK'
<1>1. LinksOK'
  BY DEF ProtocolOK, LinksOK
<1>2. CallOK'
  <2>1. window.head \in Nat /\ startSeq \in Nat /\ connecting \in Calls
    BY WindowFacts DEF SmInv, SmTypeOK
  <2>2. startSeq <= window'.head
    BY <2>1 DEF ProtocolOK, CallOK, StreamAt, CallHeld, ConnectHeld
  <2>3. ~Unlocked => /\ connecting.headPos <= window'.head
                     /\ connecting.at \in {"consumed", "ready"} => connecting.clientSeq <= window'.head
    <3>1. ~Unlocked => connecting.headPos \in Nat /\ connecting.clientSeq \in Nat
      BY <2>1 DEF Unlocked, Calls
    <3> QED BY <2>1, <3>1 DEF ProtocolOK, CallOK, StreamAt, CallHeld, ConnectHeld
  <2> QED BY <2>2, <2>3 DEF ProtocolOK, CallOK, StreamAt, CallHeld, ConnectHeld, InCall, Unlocked
<1>3. CorkedOK'
  BY DEF ProtocolOK, CorkedOK, Corked, InCall
<1>4. RpcOK'
  BY DEF ProtocolOK, RpcOK, RequestOK, ReplyOK, Behind
<1>5. AttemptOK'
  BY DEF ProtocolOK, AttemptOK, Behind, Corked, InCall, TypesOK, MainTypes
<1> QED BY <1>1, <1>2, <1>3, <1>4, <1>5 DEF ProtocolOK

\* The same for the attempt, and what it waits for.
LEMMA QuietKept ==
    ASSUME SmInv, SmInv', Grown, TypesOK, ProtocolOK, StreamsOK,
           UNCHANGED <<jm, call, lastStream, attempt, connected, streamId>>,
           UNCHANGED <<wire, readers>>, \A g \in Streams : ackWire[g] = <<>> => ackWire'[g] = <<>>
    PROVE  QuietOK'
<1>1. attempt.at \in {"start", "starting"} => readers[lastStream].nextSeq <= window'.tail
  <2>1. readers[lastStream].nextSeq \in Nat
    BY DEF TypesOK, MainTypes, Readers
  <2> QED BY <2>1, Tails DEF StreamsOK, QuietOK
<1> QED BY <1>1 DEF StreamsOK, QuietOK, Corked, InCall

-----------------------------------------------------------------------------
(* The job's side, step by step.                                           *)

\* The job prints, or the sender waits.
LEMMA PtyTurnKeeps ==
    ASSUME DurableInv, PtyTurn
    PROVE  DurableInv' /\ Grown
<1>1. SmInv' /\ Grown /\ SenderStays
  BY PtyTurnMoves DEF DurableInv
<1>2. UNCHANGED <<link, wire, ackWire, writers, jm, call, request, reply, readers, known, loops, taken,
                  file, gap, disk, current, attempt, lastStream>>
  BY DEF PtyTurn, dsVars, connVars, jmVars, rpcVars, readerVars, loopVars, fileVars, mainVars
<1>3. TypesOK'
  BY <1>2 DEF DurableInv, TypesOK, LinkTypes, AckTypes, JobTypes, MainTypes, FileTypes
<1>4. UNCHANGED <<connecting, connected, streamId, startSeq, rwndSize, sentNotAcked>>
      /\ window.head <= window'.head /\ (connected => window'.head = window.head)
  BY <1>1 DEF SenderStays
<1>5. ProtocolOK'
  BY <1>1, <1>2, <1>4, Tails, ProtocolKept DEF DurableInv
<1>6. PacketsOK' /\ ReadersOK' /\ WindowRespected' /\ LoopsOK'
  BY <1>1, <1>2, StreamsKept DEF DurableInv
<1>7. FlowsOK'
  BY <1>2, <1>4, FlowsKept DEF DurableInv, StreamsOK, SendPos
<1>8. QuietOK'
  BY <1>1, <1>2, <1>4, QuietKept DEF DurableInv
<1> QED BY <1>1, <1>3, <1>5, <1>6, <1>7, <1>8 DEF DurableInv, StreamsOK


\* The stream of the stream manager is one of the streams.
LEMMA StreamNumbers ==
    ASSUME SmInv, TypesOK, ProtocolOK
    PROVE  /\ MaxStreams \in Nat /\ streamId \in Streams /\ lastStream \in Streams
           /\ streamId <= lastStream
BY StreamAssumption DEF SmInv, SmTypeOK, TypesOK, MainTypes, ProtocolOK, CallOK, StreamAt, CallHeld, ConnectHeld, Streams

\* A queue to which a connection adds one item, or loses it.
LEMMA PacketSent ==
    ASSUME wire \in [Streams -> Seq(Packets)], NEW g \in Streams, NEW p \in Packets,
           wire' = Sent(wire, g, <<p>>)
    PROVE  /\ wire' \in [Streams -> Seq(Packets)]
           /\ \A h \in Streams : h # g => wire'[h] = wire[h]
           /\ wire'[g] = wire[g] \/ wire'[g] = wire[g] \o <<p>>
           /\ Range(wire'[g]) \subseteq Range(wire[g]) \cup {p}
<1> DEFINE q == wire[g] \o <<p>>
<1>1. q \in Seq(Packets) /\ Range(q) = Range(wire[g]) \cup {p}
  BY GrownBy
<1>2. wire' = IF link[g] = "up" THEN [wire EXCEPT ![g] = q] ELSE wire
  BY DEF Sent
<1> HIDE DEF q
<1>3. /\ wire' \in [Streams -> Seq(Packets)]
      /\ \A h \in Streams : h # g => wire'[h] = wire[h]
      /\ wire'[g] = wire[g] \/ wire'[g] = q
      /\ Range(wire'[g]) \subseteq Range(wire[g]) \cup {p}
  BY <1>1, <1>2
<1> QED BY <1>3 DEF q

\* The same on the way back.
LEMMA AckSent ==
    ASSUME ackWire \in [Streams -> Seq(AckRecords)], NEW g \in Streams, NEW a \in AckRecords,
           ackWire' = Sent(ackWire, g, <<a>>)
    PROVE  /\ ackWire' \in [Streams -> Seq(AckRecords)]
           /\ \A h \in Streams : h # g => ackWire'[h] = ackWire[h]
           /\ Range(ackWire'[g]) \subseteq Range(ackWire[g]) \cup {a}
<1> DEFINE q == ackWire[g] \o <<a>>
<1>1. q \in Seq(AckRecords) /\ Range(q) = Range(ackWire[g]) \cup {a}
  BY GrownBy
<1>2. ackWire' = IF link[g] = "up" THEN [ackWire EXCEPT ![g] = q] ELSE ackWire
  BY DEF Sent
<1> HIDE DEF q
<1> QED BY <1>1, <1>2

\* A packet that starts where the sender stands joins those on their way.
LEMMA PacketJoins ==
    ASSUME NEW w \in Seq(Packets), NEW r \in Readers, NEW base \in Nat, NEW pos \in Nat,
           NEW limit \in Nat, NEW pkt \in Packets,
           Ordered(w), Clear(Range(w), r), Bound(Range(w), r, base),
           Sender(Range(w), r, base, pos, limit),
           pkt.seq = pos, pkt.n > 0 => PacketEnd(pkt) <= limit
    PROVE  LET v == w \o <<pkt>> IN
           /\ Ordered(v) /\ Clear(Range(v), r) /\ Bound(Range(v), r, base)
           /\ Sender(Range(v), r, base, PacketEnd(pkt), limit)
<1> DEFINE v == w \o <<pkt>>
           n == Len(w)
<1>1. /\ n \in Nat /\ Len(v) = n + 1 /\ v \in Seq(Packets)
      /\ \A i \in 1 .. n : v[i] = w[i]
      /\ v[n + 1] = pkt /\ Range(v) = Range(w) \cup {pkt}
  BY GrownBy
<1>2. /\ pkt.n \in Nat /\ pkt.seq \in Nat /\ PacketEnd(pkt) = pos + pkt.n /\ PacketEnd(pkt) \in Nat
      /\ r.nextSeq \in Nat /\ ReadWindow \in Nat /\ r.ooo \in SUBSET Packets
  BY ReaderFields, ReaderAssumption DEF Packets, PacketEnd
<1>3. \A p \in Packets : p.seq \in Nat /\ p.n \in Nat /\ PacketEnd(p) \in Nat
  BY DEF Packets, PacketEnd
<1>4. Range(w) \subseteq Packets
  BY DEF Range
<1>5. /\ \A p \in Range(w) \cup r.ooo : PacketEnd(p) <= pos
      /\ r.nextSeq <= pos /\ base <= pos /\ limit <= base + ReadWindow
  BY DEF Sender
<1> HIDE DEF v
<1>6. Ordered(v)
  <2>1. SUFFICES ASSUME NEW i \in DOMAIN v, NEW j \in DOMAIN v, i < j
                 PROVE  PacketEnd(v[i]) <= v[j].seq
    BY DEF Ordered
  <2>2. i \in 1 .. n /\ j \in 1 .. n + 1 /\ v[i] = w[i] /\ DOMAIN w = 1 .. n
    BY <1>1, <2>1
  <2>3. CASE j \in 1 .. n
    BY <1>1, <2>1, <2>2, <2>3 DEF Ordered
  <2>4. CASE j = n + 1
    <3>1. w[i] \in Range(w)
      BY <2>2 DEF Range
    <3> QED BY <1>1, <1>5, <2>2, <2>4, <3>1
  <2> QED BY <1>1, <2>2, <2>3, <2>4
<1>7. Clear(Range(v), r)
  <2>1. \A p \in DataOf(Range(v) \cup r.ooo) : r.nextSeq <= p.seq
    BY <1>1, <1>5 DEF Clear, DataOf
  <2>2. \A p \in r.ooo, q \in Range(v) : Apart(p, q)
    BY <1>1, <1>5 DEF Clear, Apart
  <2> QED BY <2>1, <2>2 DEF Clear
<1>8. Bound(Range(v), r, base)
  <2>1. SUFFICES ASSUME NEW p \in DataOf(Range(v) \cup r.ooo)
                 PROVE  base <= p.seq /\ PacketEnd(p) <= base + ReadWindow
    BY DEF Bound
  <2>2. CASE p \in DataOf(Range(w) \cup r.ooo)
    BY <2>2 DEF Bound
  <2>3. CASE p = pkt
    <3>1. pkt.n > 0
      BY <2>1, <2>3 DEF DataOf
    <3> QED BY <1>2, <1>5, <2>3, <3>1
  <2> QED BY <1>1, <2>1, <2>2, <2>3 DEF DataOf
<1>9. Sender(Range(v), r, base, PacketEnd(pkt), limit)
  <2>1. \A p \in Range(v) \cup r.ooo : PacketEnd(p) <= PacketEnd(pkt)
    <3>1. SUFFICES ASSUME NEW p \in Range(w) \cup r.ooo PROVE PacketEnd(p) <= PacketEnd(pkt)
      BY <1>1, <1>2
    <3>2. p \in Packets
      BY <1>2, <1>4
    <3>3. PacketEnd(p) <= pos /\ PacketEnd(p) \in Nat
      BY <1>3, <1>5, <3>2
    <3> QED BY <1>2, <3>3
  <2> QED BY <1>2, <1>5, <2>1 DEF Sender
<1> QED BY <1>6, <1>7, <1>8, <1>9 DEF v


\* The sender's next packet goes on its way.
LEMMA TransmitKeeps ==
    ASSUME DurableInv, SmInv', NEW pkt, Transmit(pkt), connected,
           UNCHANGED <<window, terminalEvent, eofPos, connected, streamId, rwndSize, startSeq, connecting>>,
           PacketOK(pkt, window.tail, terminalEvent, eofPos),
           pkt.seq = SendPos, SendPos' = PacketEnd(pkt),
           pkt.n > 0 => ~Corked /\ PacketEnd(pkt) <= window.head + rwndSize,
           Corked => sentNotAcked' = sentNotAcked
    PROVE  DurableInv' /\ Grown
<1>1. /\ UNCHANGED <<link, ackWire, writers, jm, call, request, reply, readers, known, loops, taken,
                     file, gap, disk, current, attempt, lastStream>>
      /\ wire' = Sent(wire, streamId, <<pkt>>)
  BY DEF Transmit, jmVars, rpcVars, readerVars, loopVars, fileVars, mainVars
<1>2. /\ SmInv /\ TypesOK /\ ProtocolOK /\ PacketsOK /\ ReadersOK /\ WindowRespected
      /\ LoopsOK /\ FlowsOK /\ QuietOK
  BY DEF DurableInv, StreamsOK
<1>3. /\ streamId \in Streams /\ pkt \in Packets /\ wire \in [Streams -> Seq(Packets)]
      /\ window.head \in Nat /\ rwndSize \in Nat /\ SendPos \in Nat
  <2>1. rwndSize \in Nat /\ sentNotAcked \in Nat /\ window.head \in Nat
    BY <1>2, WindowFacts DEF SmInv, SmTypeOK
  <2>2. streamId \in Streams /\ pkt \in Packets /\ wire \in [Streams -> Seq(Packets)]
    BY <1>2, StreamNumbers DEF PacketOK, TypesOK, LinkTypes
  <2> QED BY <2>1, <2>2 DEF SendPos
<1>4. /\ wire' \in [Streams -> Seq(Packets)]
      /\ \A h \in Streams : h # streamId => wire'[h] = wire[h]
      /\ wire'[streamId] = wire[streamId] \/ wire'[streamId] = wire[streamId] \o <<pkt>>
  BY <1>1, <1>3, PacketSent
<1>5. \A g \in Streams : Range(wire'[g]) \subseteq Range(wire[g]) \cup {pkt}
  <2>1. Range(wire[streamId] \o <<pkt>>) = Range(wire[streamId]) \cup {pkt}
    BY <1>3, GrownBy
  <2> QED BY <1>4, <2>1
<1>6. Grown
  BY <1>2, SameOutput
<1>7. TypesOK'
  BY <1>1, <1>2, <1>4 DEF TypesOK, LinkTypes, AckTypes, JobTypes, MainTypes, FileTypes
<1>8. ProtocolOK'
  BY <1>1, <1>2, <1>3, ProtocolKept
<1>9. PacketsOK' /\ ReadersOK' /\ WindowRespected' /\ LoopsOK'
  <2>1. PacketsOK'
    BY <1>2, <1>5 DEF PacketsOK
  <2>2. ReadersOK'
    BY <1>1, <1>2 DEF ReadersOK
  <2>3. WindowRespected'
    BY <1>1, <1>2 DEF WindowRespected
  <2>4. LoopsOK'
    BY <1>1, <1>2 DEF LoopsOK
  <2> QED BY <2>1, <2>2, <2>3, <2>4
<1>10. ASSUME NEW g \in known PROVE FlowOK(g)'
  <2>1. FlowOK(g) /\ g \in Streams
    BY <1>2 DEF FlowsOK, TypesOK, MainTypes
  <2>2. PICK base \in Nat :
         /\ Bound(Range(wire[g]), readers[g], base)
         /\ connected /\ streamId = g =>
              Sender(Range(wire[g]), readers[g], base, SendPos, window.head + rwndSize)
    BY <2>1 DEF FlowOK
  <2>3. /\ Ordered(wire[g]) /\ Clear(Range(wire[g]), readers[g])
        /\ wire[g] \in Seq(Packets) /\ readers[g] \in Readers
    BY <1>2, <1>3, <2>1 DEF FlowOK, TypesOK, MainTypes
  <2>4. CASE g # streamId
    <3>1. wire'[g] = wire[g] /\ readers'[g] = readers[g]
      BY <1>1, <1>4, <2>1, <2>4
    <3>2. AcksOK(Range(ackWire'[g]), readers'[g])
      BY <1>1, <2>1 DEF FlowOK
    <3> QED BY <2>2, <2>3, <2>4, <3>1, <3>2 DEF FlowOK
  <2>5. CASE g = streamId
    <3> DEFINE limit == window.head + rwndSize
               v == wire[g] \o <<pkt>>
    <3>1. Sender(Range(wire[g]), readers[g], base, SendPos, limit)
      BY <2>2, <2>5
    <3>2. limit \in Nat
      BY <1>3
    <3>3. pkt.n > 0 => PacketEnd(pkt) <= limit
      OBVIOUS
    <3>4. /\ Ordered(v) /\ Clear(Range(v), readers[g]) /\ Bound(Range(v), readers[g], base)
          /\ Sender(Range(v), readers[g], base, PacketEnd(pkt), limit)
      <4> HIDE DEF limit
      <4> QED BY <1>3, <2>2, <2>3, <3>1, <3>2, <3>3, PacketJoins
    <3>5. Sender(Range(wire[g]), readers[g], base, PacketEnd(pkt), limit)
      <4>1. Range(v) = Range(wire[g]) \cup {pkt}
        BY <1>3, <2>3, GrownBy
      <4> QED BY <3>4, <4>1 DEF Sender
    <3>6. limit' = limit /\ readers'[g] = readers[g] /\ ackWire'[g] = ackWire[g]
      BY <1>1
    <3>7. wire'[g] = wire[g] \/ wire'[g] = v
      BY <1>4, <2>5
    <3>8. AcksOK(Range(ackWire'[g]), readers'[g])
      BY <1>1, <2>1 DEF FlowOK
    <3> HIDE DEF limit, v
    <3>9. /\ Ordered(wire'[g]) /\ Clear(Range(wire'[g]), readers'[g])
          /\ Bound(Range(wire'[g]), readers'[g], base)
          /\ Sender(Range(wire'[g]), readers'[g], base, SendPos', limit')
      BY <2>2, <2>3, <3>4, <3>5, <3>6, <3>7
    <3> QED BY <3>8, <3>9 DEF FlowOK, limit
  <2> QED BY <2>4, <2>5
<1>11. QuietOK'
  <2>1. \A g \in Streams : g > streamId' =>
         wire'[g] = <<>> /\ readers'[g].ooo = {} /\ readers'[g].buffer = <<>>
    <3>1. SUFFICES ASSUME NEW g \in Streams, g > streamId
                   PROVE  wire'[g] = <<>> /\ readers'[g].ooo = {} /\ readers'[g].buffer = <<>>
      BY <1>1
    <3>2. g # streamId
      BY <1>3, <3>1 DEF Streams
    <3> QED BY <1>1, <1>2, <1>4, <3>1, <3>2 DEF QuietOK
  <2>2. Corked' => NoData(Range(wire'[streamId']), readers'[streamId'])
    <3>1. SUFFICES ASSUME Corked PROVE NoData(Range(wire'[streamId]), readers[streamId])
      BY <1>1 DEF Corked, InCall
    <3>2. ~(pkt.n > 0)
      BY <3>1
    <3>3. NoData(Range(wire[streamId]), readers[streamId])
      BY <1>2, <3>1 DEF QuietOK
    <3> QED BY <1>3, <1>5, <3>2, <3>3 DEF NoData, DataOf
  <2> QED BY <1>1, <1>2, <2>1, <2>2 DEF QuietOK
<1>12. FlowsOK'
  BY <1>1, <1>10 DEF FlowsOK
<1> QED BY <1>6, <1>7, <1>8, <1>9, <1>11, <1>12 DEF DurableInv, StreamsOK


\* What prepareNextPacket may take: bytes that are there, and that the client has room for.
LEMMA SendableFits ==
    ASSUME SmInv, connected
    PROVE  /\ Sendable \in Nat /\ SendPos \in Nat
           /\ Sendable > 0 => /\ SendPos + Sendable <= window.tail
                              /\ SendPos + Sendable <= window.head + rwndSize
<1>1. /\ window.head \in Nat /\ window.tail \in Nat /\ sentNotAcked \in Nat /\ rwndSize \in Nat
      /\ MaxChunk \in Nat /\ MaxChunk > 0 /\ CwndSize \in Nat
  BY WindowFacts, SizesAssumption, StreamAssumption DEF SmInv, SmTypeOK
<1>2. /\ Effective(rwndSize) \in Nat /\ Effective(rwndSize) <= rwndSize
  BY <1>1 DEF Effective, AtMost
<1> DEFINE eff == Effective(rwndSize)
<1> HIDE DEF eff
<1>3. Sendable = LET room == eff - sentNotAcked
                     unsent == (window.tail - window.head) - sentNotAcked
                 IN  IF room <= 0 \/ unsent <= 0 THEN 0
                     ELSE AtMost(AtMost(room, MaxChunk), unsent)
  BY DEF Sendable, eff, Count
<1>4. eff \in Nat /\ eff <= rwndSize
  BY <1>2 DEF eff
<1> QED BY <1>1, <1>3, <1>4 DEF AtMost, SendPos

\* prepareNextPacket sends data.
LEMMA SendDataStep ==
    ASSUME DurableInv, SendData, Transmit(DataPacket)
    PROVE  DurableInv' /\ Grown
<1>1. /\ SmInv /\ TypesOK /\ ProtocolOK /\ SmInv' /\ connected /\ Sendable > 0
      /\ sentNotAcked' = sentNotAcked + Sendable
      /\ UNCHANGED <<window, terminalEvent, eofPos, connected, streamId, rwndSize, startSeq, connecting>>
  BY SendDataKeeps DEF DurableInv, SendData, windowVars, ptyVars, clientVars
<1> DEFINE pkt == DataPacket
<1>2. /\ Sendable \in Nat /\ SendPos \in Nat /\ SendPos + Sendable <= window.tail
      /\ SendPos + Sendable <= window.head + rwndSize
      /\ sentNotAcked \in Nat /\ window.head \in Nat /\ streamId \in Streams
  BY <1>1, SendableFits, StreamNumbers, WindowFacts DEF SmInv, SmTypeOK
<1>3. pkt = [id |-> streamId, seq |-> SendPos, n |-> Sendable, end |-> "none", first |-> SendPos]
  BY DEF DataPacket, SendPos
<1>4. Transmit(pkt)
  OBVIOUS
<1> HIDE DEF pkt
<1>5. pkt.seq = SendPos /\ PacketEnd(pkt) = SendPos + Sendable
  BY <1>3 DEF PacketEnd
<1>6. PacketOK(pkt, window.tail, terminalEvent, eofPos)
  BY <1>2, <1>3 DEF PacketOK, PacketEnd, Packets
<1>7. SendPos' = PacketEnd(pkt)
  BY <1>1, <1>2, <1>5 DEF SendPos
<1>8. ~Corked
  <2>1. SUFFICES ASSUME Corked PROVE FALSE
    OBVIOUS
  <2>2. rwndSize = 0 /\ sentNotAcked = 0
    BY <1>1, <2>1 DEF ProtocolOK, CorkedOK
  <2> QED BY <1>1, <1>2, <2>2 DEF SendPos
<1>9. pkt.n > 0 => ~Corked /\ PacketEnd(pkt) <= window.head + rwndSize
  BY <1>2, <1>5, <1>8
<1> QED BY <1>1, <1>4, <1>5, <1>6, <1>7, <1>8, <1>9, TransmitKeeps

\* prepareNextPacket sends the end of the stream.
LEMMA SendTerminalStep ==
    ASSUME DurableInv, SendTerminal, Transmit(TerminalPacket)
    PROVE  DurableInv' /\ Grown
<1>1. /\ SmInv /\ TypesOK /\ ProtocolOK /\ SmInv' /\ connected /\ TerminalDue
      /\ UNCHANGED <<window, terminalEvent, eofPos, connected, streamId, rwndSize, startSeq, connecting,
                     sentNotAcked>>
  BY SendTerminalKeeps DEF DurableInv, SendTerminal, windowVars, ptyVars, clientVars
<1> DEFINE pkt == TerminalPacket
<1>2. /\ sentNotAcked \in Nat /\ window.head \in Nat /\ window.tail \in Nat /\ streamId \in Streams
      /\ terminalEvent \in {"eof", "error"}
  BY <1>1, StreamNumbers, WindowFacts DEF SmInv, SmTypeOK, TerminalDue
<1>3. eofPos = SendPos /\ SendPos \in Nat /\ SendPos = window.tail
  <2>1. eofPos = window.tail /\ window.tail - window.head = 0 /\ sentNotAcked <= window.tail - window.head
    BY <1>1 DEF TerminalDue, Count, SmInv, OutputEnds, SentStaysBuffered
  <2> QED BY <1>2, <2>1 DEF SendPos
<1>4. pkt = [id |-> streamId, seq |-> SendPos, n |-> 0, end |-> terminalEvent, first |-> SendPos]
  BY <1>3 DEF TerminalPacket
<1>5. Transmit(pkt)
  OBVIOUS
<1> HIDE DEF pkt
<1>6. pkt.seq = SendPos /\ pkt.n = 0 /\ PacketEnd(pkt) = SendPos
  BY <1>3, <1>4 DEF PacketEnd
<1>7. PacketOK(pkt, window.tail, terminalEvent, eofPos)
  BY <1>2, <1>3, <1>4, <1>6 DEF PacketOK, Packets
<1>8. SendPos' = PacketEnd(pkt)
  BY <1>1, <1>6 DEF SendPos
<1>9. ~(pkt.n > 0)
  BY <1>6
<1> QED BY <1>1, <1>5, <1>6, <1>7, <1>8, <1>9, TransmitKeeps


\* What RecvAck may do: the window's start moves to what the ack names, and its end to what
\* the ack allows.
LEMMA AckMoves ==
    ASSUME SmInv, NEW ack \in AckRecords, RecvAck(ack)
    PROVE  /\ SmInv' /\ Grown
           /\ UNCHANGED <<connected, streamId, startSeq, connecting>>
           /\ \/ UNCHANGED <<window, rwndSize, sentNotAcked>>
              \/ /\ connected /\ ack.id = streamId /\ SendPos' = SendPos
                 /\ window.head <= ack.seq /\ ack.seq <= SendPos
                 /\ window'.head = ack.seq /\ rwndSize' = ack.rwnd
<1>1. ack.seq \in Nat /\ ack.rwnd \in Nat /\ Unlocked
  BY DEF AckRecords, RecvAck
<1>2. CASE RecvFin(ack)
  <2>1. SmInv' /\ UNCHANGED <<window, terminalEvent, eofPos, rwndSize, sentNotAcked,
                              connected, streamId, startSeq, connecting>>
    BY <1>1, <1>2, RecvFinKeeps DEF RecvFin, windowVars, ptyVars, clientVars, sentVars
  <2> QED BY <2>1, SameOutput
<1>3. CASE IgnoreAck(ack)
  <2>1. UNCHANGED smVars
    BY <1>3 DEF IgnoreAck
  <2>2. SmInv' /\ UNCHANGED <<window, terminalEvent, eofPos, rwndSize, sentNotAcked,
                              connected, streamId, startSeq, connecting>>
    BY <2>1, StutterKeeps DEF smVars, windowVars, ptyVars, clientVars, sentVars
  <2> QED BY <2>2, SameOutput
<1>4. CASE RecvFreshAck(ack)
  <2>1. /\ SmInv' /\ UNCHANGED <<terminalEvent, eofPos, connected, streamId, startSeq, connecting>>
        /\ connected /\ ack.id = streamId
    BY <1>1, <1>4, RecvFreshAckKeeps DEF RecvFreshAck, AckIsForUs, ptyVars
  <2>2. CASE ~AckInWindow(ack)
    <3>1. UNCHANGED <<window, rwndSize, sentNotAcked>>
      BY <1>4, <2>2 DEF RecvFreshAck, windowVars
    <3> QED BY <2>1, <3>1, SameOutput
  <2>3. CASE AckInWindow(ack)
    <3> DEFINE acked == ack.seq - window.head
               after == AfterConsume(window, acked)
    <3>1. /\ window' = AfterSetEffectiveWindow(after, TRUE, Effective(ack.rwnd))
          /\ sentNotAcked' = sentNotAcked - acked /\ rwndSize' = ack.rwnd
      BY <1>4, <2>3 DEF RecvFreshAck
    <3>2. /\ window \in Windows /\ window.head \in Nat /\ window.tail \in Nat
          /\ sentNotAcked \in Nat /\ window.head <= ack.seq /\ acked <= sentNotAcked
      BY <2>3, WindowFacts DEF SmInv, SmTypeOK, AckInWindow
    <3>3. window.head + acked = ack.seq /\ acked \in Nat
      BY <1>1, <3>2
    <3> HIDE DEF acked
    <3>4. after.head = ack.seq /\ after.tail = window.tail
      BY <3>2, <3>3 DEF AfterConsume, Windows
    <3> HIDE DEF after
    <3>5. window'.head = ack.seq /\ window'.tail = window.tail
      BY <3>1, <3>4 DEF AfterSetEffectiveWindow
    <3>6. Grown
      BY <2>1, <3>5, SameOutput
    <3>7. SendPos' = SendPos /\ ack.seq <= SendPos
      <4>1. window'.head = window.head + acked /\ sentNotAcked' = sentNotAcked - acked
            /\ window.head \in Nat /\ sentNotAcked \in Nat /\ acked \in Nat /\ acked <= sentNotAcked
        BY <3>1, <3>2, <3>3, <3>5
      <4>2. window'.head + sentNotAcked' = window.head + sentNotAcked
            /\ window.head + acked <= window.head + sentNotAcked
        BY <4>1
      <4> QED BY <3>3, <4>2 DEF SendPos
    <3> QED BY <2>1, <3>1, <3>2, <3>5, <3>6, <3>7
  <2> QED BY <2>2, <2>3
<1> QED BY <1>2, <1>3, <1>4 DEF RecvAck

\* The window moves on to where the reader is.
LEMMA WindowMoves ==
    ASSUME NEW packets, NEW r \in Readers, NEW base \in Nat, NEW pos \in Nat, NEW limit, NEW new \in Nat,
           packets \subseteq Packets, 0 <= Consumed(r),
           Clear(packets, r), Bound(packets, r, base), Sender(packets, r, base, pos, limit),
           new <= Consumed(r) + ReadWindow
    PROVE  \E b \in Nat : Bound(packets, r, b) /\ Sender(packets, r, b, pos, new)
<1> DEFINE c == Consumed(r)
           b == IF c > base THEN c ELSE base
<1>1. /\ c \in Nat /\ r.nextSeq \in Nat /\ c <= r.nextSeq /\ ReadWindow \in Nat
      /\ r.ooo \subseteq Packets
  <2> DEFINE n == Len(r.buffer)
  <2>1. n \in Nat /\ r.nextSeq \in Nat /\ r.ooo \subseteq Packets /\ ReadWindow \in Nat
    BY ReaderFields, ReaderAssumption
  <2>2. c = r.nextSeq - n
    BY DEF Consumed
  <2> HIDE DEF n
  <2> QED BY <2>1, <2>2
<1>2. r.nextSeq <= pos /\ base <= pos
  BY DEF Sender
<1> HIDE DEF c
<1>3. b \in Nat /\ base <= b /\ b <= pos /\ c <= b
  BY <1>1, <1>2
<1>4. r.buffer = <<>> \/ b <= c
  BY <1>1 DEF Bound, c
<1> HIDE DEF b
<1>5. Bound(packets, r, b)
  <2>1. SUFFICES ASSUME NEW p \in DataOf(packets \cup r.ooo)
                 PROVE  b <= p.seq /\ PacketEnd(p) <= b + ReadWindow
    BY <1>4 DEF Bound, c
  <2>2. p.seq \in Nat /\ p.n \in Nat
    BY <1>1 DEF DataOf, Packets
  <2>3. base <= p.seq /\ p.seq + p.n <= base + ReadWindow /\ r.nextSeq <= p.seq
    BY DEF Bound, Clear, PacketEnd
  <2>4. b <= p.seq
    BY <1>1, <1>3, <2>2, <2>3 DEF b
  <2> QED BY <1>1, <1>3, <2>2, <2>3, <2>4 DEF PacketEnd
<1>6. Sender(packets, r, b, pos, new)
  <2>1. new <= b + ReadWindow
    BY <1>1, <1>3 DEF c
  <2> QED BY <1>2, <1>3, <2>1 DEF Sender
<1> QED BY <1>3, <1>5, <1>6


\* processRecvAck.
LEMMA JobReceivesAckStep ==
    ASSUME DurableInv, JobReceivesAck
    PROVE  DurableInv' /\ Grown
<1>1. /\ SmInv /\ TypesOK /\ ProtocolOK /\ PacketsOK /\ ReadersOK /\ WindowRespected
      /\ LoopsOK /\ FlowsOK /\ QuietOK /\ StreamsOK
  BY DEF DurableInv, StreamsOK
<1> PICK h \in Streams : \E i \in Deliverable(ackWire[h]) :
        /\ IF h \in writers THEN RecvAck(ackWire[h][i]) ELSE UNCHANGED smVars
        /\ ackWire' = [ackWire EXCEPT ![h] = RemoveAt(@, i)]
        /\ writers' = IF ackWire[h][i].fin \/ ackWire[h][i].cancel THEN writers \ {h} ELSE writers
  BY DEF JobReceivesAck
<1>2. PICK i \in Deliverable(ackWire[h]) :
        /\ IF h \in writers THEN RecvAck(ackWire[h][i]) ELSE UNCHANGED smVars
        /\ ackWire' = [ackWire EXCEPT ![h] = RemoveAt(@, i)]
        /\ writers' = IF ackWire[h][i].fin \/ ackWire[h][i].cancel THEN writers \ {h} ELSE writers
  OBVIOUS
<1>3. /\ UNCHANGED <<link, wire, jm, call, request, reply, readers, known, loops, taken,
                     file, gap, disk, current, attempt, lastStream>>
      /\ writers' \subseteq writers
  BY <1>2 DEF JobReceivesAck, rpcVars, readerVars, loopVars, fileVars, mainVars
<1> DEFINE ack == ackWire[h][i]
<1>4. /\ ackWire \in [Streams -> Seq(AckRecords)] /\ ackWire[h] \in Seq(AckRecords)
      /\ \A g \in Streams : \A a \in Range(ackWire[g]) : a.id = g
  BY <1>1 DEF TypesOK, AckTypes
<1>5. i \in DOMAIN ackWire[h] /\ ack \in AckRecords /\ ack \in Range(ackWire[h]) /\ ack.id = h
  BY <1>4, DeliveredWasSent
<1>6. /\ RemoveAt(ackWire[h], i) \in Seq(AckRecords)
      /\ Range(RemoveAt(ackWire[h], i)) \subseteq Range(ackWire[h])
  BY <1>4, <1>5, RestOf
<1>7. /\ ackWire' \in [Streams -> Seq(AckRecords)]
      /\ \A g \in Streams : Range(ackWire'[g]) \subseteq Range(ackWire[g])
      /\ \A g \in Streams : ackWire[g] = <<>> => ackWire'[g] = <<>>
  <2> DEFINE rest == RemoveAt(ackWire[h], i)
  <2>1. ackWire' = [ackWire EXCEPT ![h] = rest] /\ rest \in Seq(AckRecords)
        /\ Range(rest) \subseteq Range(ackWire[h])
    BY <1>2, <1>6
  <2>2. ackWire[h] # <<>>
    BY <1>5
  <2> HIDE DEF rest
  <2> QED BY <1>4, <2>1, <2>2
<1>8. /\ SmInv' /\ Grown
      /\ UNCHANGED <<connected, streamId, startSeq, connecting>>
      /\ \/ UNCHANGED <<window, rwndSize, sentNotAcked>>
         \/ /\ connected /\ h = streamId /\ h \in writers /\ SendPos' = SendPos
            /\ window.head <= ack.seq /\ ack.seq <= SendPos
            /\ window'.head = ack.seq /\ rwndSize' = ack.rwnd
  <2>1. CASE h \in writers
    <3>1. RecvAck(ack)
      BY <1>2, <2>1
    <3> HIDE DEF ack
    <3> QED BY <1>1, <1>5, <2>1, <3>1, AckMoves
  <2>2. CASE h \notin writers
    <3>1. UNCHANGED smVars
      BY <1>2, <2>2
    <3>2. SmInv' /\ UNCHANGED <<window, terminalEvent, eofPos, rwndSize, sentNotAcked,
                                connected, streamId, startSeq, connecting>>
      BY <1>1, <3>1, StutterKeeps DEF smVars, windowVars, ptyVars, clientVars, sentVars
    <3> QED BY <1>1, <3>2, SameOutput
  <2> QED BY <2>1, <2>2
<1> HIDE DEF ack
<1>9. TypesOK'
  <2>1. AckTypes'
    BY <1>1, <1>7, AcksRemain DEF TypesOK
  <2> QED BY <1>1, <1>3, <2>1 DEF TypesOK, LinkTypes, JobTypes, MainTypes, FileTypes
<1>10. window.head <= window'.head /\ window'.head \in Nat
  BY <1>1, <1>8, Tails
<1>11. Corked => UNCHANGED <<window, rwndSize, sentNotAcked>>
  BY <1>1, <1>8 DEF ProtocolOK, CorkedOK
<1>12. ProtocolOK'
  BY <1>1, <1>3, <1>8, <1>10, <1>11, ProtocolKept
<1>13. PacketsOK' /\ ReadersOK' /\ WindowRespected' /\ LoopsOK'
  BY <1>1, <1>3, <1>8, StreamsKept
<1>14. ASSUME NEW g \in known PROVE FlowOK(g)'
  <2>1. FlowOK(g) /\ g \in Streams
    BY <1>1 DEF FlowsOK, TypesOK, MainTypes
  <2>2. PICK base \in Nat :
         /\ Bound(Range(wire[g]), readers[g], base)
         /\ connected /\ streamId = g =>
              Sender(Range(wire[g]), readers[g], base, SendPos, window.head + rwndSize)
    BY <2>1 DEF FlowOK
  <2>3. /\ Ordered(wire[g]) /\ Clear(Range(wire[g]), readers[g])
        /\ AcksOK(Range(ackWire[g]), readers[g])
        /\ Range(wire[g]) \subseteq Packets /\ readers[g] \in Readers
        /\ 0 <= Consumed(readers[g])
    BY <1>1, <2>1 DEF FlowOK, TypesOK, LinkTypes, MainTypes, ReadersOK, ReaderOK, Range
  <2>4. AcksOK(Range(ackWire'[g]), readers[g])
    BY <1>7, <2>1, <2>3 DEF AcksOK
  <2>5. CASE UNCHANGED <<window, rwndSize, sentNotAcked>> \/ g # streamId
    <3>1. connected' /\ streamId' = g =>
              Sender(Range(wire[g]), readers[g], base, SendPos', window'.head + rwndSize')
      BY <1>8, <2>2, <2>5 DEF SendPos
    <3> QED BY <1>3, <2>2, <2>3, <2>4, <3>1 DEF FlowOK
  <2>6. CASE ~UNCHANGED <<window, rwndSize, sentNotAcked>> /\ g = streamId
    <3>1. /\ connected /\ h = g /\ SendPos' = SendPos
          /\ window'.head = ack.seq /\ rwndSize' = ack.rwnd
      BY <1>8, <2>6
    <3>2. /\ Sender(Range(wire[g]), readers[g], base, SendPos, window.head + rwndSize)
          /\ ack.seq + ack.rwnd <= Consumed(readers[g]) + ReadWindow
          /\ ack.seq + ack.rwnd \in Nat /\ SendPos \in Nat
      <4>1. ack.seq + ack.rwnd <= Consumed(readers[g]) + ReadWindow
        BY <1>5, <2>3, <3>1 DEF AcksOK
      <4>2. ack.seq + ack.rwnd \in Nat
        BY <1>5 DEF AckRecords
      <4>3. SendPos \in Nat
        BY <1>1, <3>1, SendableFits
      <4> QED BY <2>2, <2>6, <3>1, <4>1, <4>2, <4>3
    <3>3. PICK b \in Nat : /\ Bound(Range(wire[g]), readers[g], b)
                           /\ Sender(Range(wire[g]), readers[g], b, SendPos, ack.seq + ack.rwnd)
      BY <2>2, <2>3, <3>2, WindowMoves
    <3>4. Sender(Range(wire'[g]), readers'[g], b, SendPos', window'.head + rwndSize')
      BY <1>3, <3>1, <3>3
    <3> QED BY <1>3, <2>3, <2>4, <3>3, <3>4 DEF FlowOK
  <2> QED BY <2>5, <2>6
<1>15. FlowsOK'
  BY <1>3, <1>14 DEF FlowsOK
<1>16. QuietOK'
  BY <1>1, <1>3, <1>7, <1>8, QuietKept
<1> QED BY <1>8, <1>9, <1>12, <1>13, <1>15, <1>16 DEF DurableInv, StreamsOK


\* Another window size leaves the output, and in sync mode what is buffered.
LEMMA WindowSizeMoves ==
    ASSUME SmInv, NEW sync \in BOOLEAN, NEW size \in Nat, SetEffectiveWindow(sync, size)
    PROVE  /\ window'.tail = window.tail /\ window.head <= window'.head
           /\ sync => window'.head = window.head
<1>1. /\ window.head \in Nat /\ window.tail \in Nat /\ BufSize \in Nat
  BY WindowFacts, SizesAssumption
<1> DEFINE limit == AtMost(size, BufSize)
<1>2. limit \in Nat
  BY <1>1 DEF AtMost
<1> HIDE DEF limit
<1>3. window' = [head  |-> IF ~sync /\ Count(window) > limit THEN window.tail - limit ELSE window.head,
                 tail  |-> window.tail, sync |-> sync, limit |-> limit]
  BY DEF SetEffectiveWindow, AfterSetEffectiveWindow, limit
<1> QED BY <1>1, <1>2, <1>3 DEF Count

\* An answer reaches the attempt that waits for it, or nobody.
LEMMA AnswerWhat ==
    ASSUME NEW c, NEW answer, Answer(c, answer)
    PROVE  reply' = reply \/ (reply' = answer /\ attempt.at = c.kind /\ lastStream = c.id)
BY DEF Answer

\* A request that has arrived is the newest stream's.
LEMMA RequestArrives ==
    ASSUME TypesOK, ProtocolOK, JmWaits
    PROVE  /\ call = NoRequest /\ request.id = lastStream /\ request.id \in Streams
           /\ request.kind \in {"prepare", "start"}
           /\ request.kind = "prepare" => request.seq \in Nat
<1>1. request \in Requests /\ request # NoRequest /\ call = NoRequest
  BY DEF TypesOK, JobTypes, JmWaits
<1>2. /\ request.id \in Streams /\ request.kind \in {"prepare", "start"}
      /\ request.kind = "prepare" => request.seq \in Nat
  BY <1>1 DEF Requests
<1> QED BY <1>1, <1>2 DEF JmWaits, ProtocolOK, LinksOK

\* The handlers of the job manager leave the main server alone.
LEMMA HandlersKeep ==
    ASSUME DurableInv, SmInv', Grown, JmUnchanged, JobTypes'
    PROVE  /\ TypesOK' /\ PacketsOK' /\ ReadersOK' /\ WindowRespected' /\ LoopsOK' /\ LinksOK'
           /\ UNCHANGED <<link, wire, ackWire, readers, known, loops, current, attempt, lastStream>>
<1>1. UNCHANGED <<link, wire, ackWire, readers, known, loops, taken, file, gap, disk, current,
                  attempt, lastStream>>
  BY DEF JmUnchanged, connVars, readerVars, loopVars, fileVars, mainVars
<1>2. TypesOK'
  BY <1>1 DEF DurableInv, TypesOK, LinkTypes, AckTypes, MainTypes, FileTypes
<1>3. PacketsOK' /\ ReadersOK' /\ WindowRespected' /\ LoopsOK'
  BY <1>1, StreamsKept DEF DurableInv
<1>4. LinksOK'
  BY <1>1 DEF DurableInv, ProtocolOK, LinksOK
<1> QED BY <1>1, <1>2, <1>3, <1>4


\* The parts of the protocol's invariant.
LEMMA ProtocolParts ==
    ASSUME ProtocolOK
    PROVE  /\ LinksOK /\ StreamAt /\ CallHeld /\ ConnectHeld /\ CorkedOK /\ RequestOK /\ ReplyOK
           /\ AttemptOK
BY DEF ProtocolOK, CallOK, RpcOK

\* PrepareConnect.
LEMMA PrepareConnectStep ==
    ASSUME DurableInv, PrepareConnect
    PROVE  DurableInv' /\ Grown
<1>1. SmInv /\ TypesOK /\ ProtocolOK /\ StreamsOK /\ JmUnchanged
  BY DEF DurableInv, PrepareConnect
<1>2. /\ call = NoRequest /\ request.id = lastStream /\ request.id \in Streams
      /\ request.kind = "prepare" /\ request.seq \in Nat
  BY <1>1, RequestArrives DEF PrepareConnect
<1> DEFINE new == [kind |-> "prepare", id |-> lastStream, seq |-> request.seq, at |-> "disconnect"]
           done == [kind |-> "prepare", ok |-> TRUE, done |-> TRUE, seq |-> request.seq]
<1>3. /\ UNCHANGED smVars /\ UNCHANGED <<writers, jm>> /\ request' = NoRequest
      /\ call' = call \/ (call' = new /\ reply' = reply)
      /\ reply' = reply \/ (reply' = done /\ attempt.at = "prepare")
  BY <1>2, AnswerWhat DEF PrepareConnect
<1>4. /\ UNCHANGED <<window, terminalEvent, eofPos, connected, streamId, rwndSize, sentNotAcked,
                     startSeq, connecting>>
      /\ SmInv' /\ Unlocked
  BY <1>1, <1>3, StutterKeeps DEF smVars, windowVars, ptyVars, clientVars, sentVars, PrepareConnect
<1>5. Grown
  BY <1>1, <1>4, SameOutput
<1>6. JobTypes'
  <2>1. new \in CallRecords /\ done \in Replies
    BY <1>2 DEF CallRecords, Replies
  <2> HIDE DEF new, done
  <2>2. call' \in CallRecords /\ reply' \in Replies /\ request' \in Requests
    BY <1>1, <1>3, <2>1 DEF TypesOK, JobTypes, Requests
  <2> QED BY <1>1, <1>3, <2>2 DEF TypesOK, JobTypes
<1>7. /\ TypesOK' /\ PacketsOK' /\ ReadersOK' /\ WindowRespected' /\ LoopsOK' /\ LinksOK'
      /\ UNCHANGED <<link, wire, ackWire, readers, known, loops, current, attempt, lastStream>>
  BY <1>1, <1>4, <1>5, <1>6, HandlersKeep
<1>8. StreamAt /\ CallHeld /\ ConnectHeld /\ CorkedOK /\ RequestOK /\ ReplyOK /\ AttemptOK
  BY <1>1, ProtocolParts
<1>9. streamId < lastStream /\ attempt.at \in {"prepare", "idle"}
      /\ (attempt.at = "prepare" => request.seq = attempt.seq)
  BY <1>2, <1>8 DEF RequestOK, Behind
<1>10. Corked' => Corked
  BY <1>2, <1>3, <1>4 DEF Corked, InCall
<1>11. StreamAt'
  BY <1>3, <1>4, <1>7, <1>8 DEF StreamAt
<1>12. CallHeld'
  <2>1. CASE call' = call
    BY <1>2, <2>1 DEF CallHeld
  <2>2. CASE call' = new
    <3>1. /\ new.id = lastStream /\ new.at = "disconnect" /\ new.seq = request.seq
          /\ lastStream' = lastStream /\ streamId' = streamId /\ attempt' = attempt
          /\ lastStream <= lastStream
      BY <1>1, <1>4, <1>7, StreamNumbers DEF Streams
    <3> HIDE DEF new
    <3> QED BY <1>9, <2>2, <3>1 DEF CallHeld
  <2> QED BY <1>3, <2>1, <2>2
<1>13. ConnectHeld'
  BY <1>4 DEF ConnectHeld, Unlocked
<1>14. CorkedOK'
  BY <1>3, <1>4, <1>8, <1>10 DEF CorkedOK
<1>15. RequestOK'
  BY <1>3 DEF RequestOK, NoRequest
<1>16. ReplyOK'
  <2>1. CASE reply' = done /\ attempt.at = "prepare"
    <3>1. done.kind = "prepare" /\ done.done = TRUE /\ "done" \in DOMAIN done
      OBVIOUS
    <3> HIDE DEF done
    <3>2. attempt'.at = "prepare"
      BY <1>3, <1>7, <1>9, <2>1
    <3> QED BY <2>1, <3>1, <3>2 DEF ReplyOK
  <2>2. CASE reply' = reply
    <3>1. ~(reply.kind = "prepare" /\ reply.ok /\ ~reply.done)
      BY <1>1, <1>8, <1>9, StreamNumbers DEF ReplyOK, Streams
    <3> QED BY <1>7, <1>8, <2>2, <3>1 DEF ReplyOK
  <2> QED BY <1>3, <2>1, <2>2
<1>17. AttemptOK'
  BY <1>4, <1>7, <1>8, <1>9 DEF AttemptOK
<1>18. FlowsOK'
  BY <1>1, <1>4, <1>7, FlowsKept DEF StreamsOK, SendPos
<1>19. QuietOK'
  BY <1>1, <1>4, <1>7, <1>10 DEF StreamsOK, QuietOK
<1> QED BY <1>4, <1>5, <1>7, <1>11, <1>12, <1>13, <1>14, <1>15, <1>16, <1>17, <1>18, <1>19
        DEF DurableInv, StreamsOK, ProtocolOK, CallOK, RpcOK


\* connectToStreamHelper takes the previous client off.
LEMMA TakeOverStep ==
    ASSUME DurableInv, TakeOver
    PROVE  DurableInv' /\ Grown
<1>1. /\ SmInv /\ TypesOK /\ ProtocolOK /\ StreamsOK /\ JmUnchanged
      /\ call # NoRequest /\ call.at = "disconnect"
      /\ call' = [call EXCEPT !.at = "connect"] /\ jm' = [jm EXCEPT !.client = NoStream]
      /\ UNCHANGED <<writers, request, reply>>
  BY DEF DurableInv, TakeOver, rpcVars
<1>2. /\ StreamAt /\ CallHeld /\ ConnectHeld /\ CorkedOK /\ RequestOK /\ ReplyOK /\ AttemptOK
  BY <1>1, ProtocolParts
<1>3. /\ call \in CallRecords /\ jm \in [client : 0 .. MaxStreams, pending : 0 .. MaxStreams]
      /\ MaxStreams \in Nat
  BY <1>1, StreamNumbers DEF TypesOK, JobTypes
<1>4. /\ call' \in CallRecords /\ call' # NoRequest /\ call'.at = "connect"
      /\ call'.id = call.id /\ call'.seq = call.seq
  BY <1>1, <1>3 DEF CallRecords, NoRequest
<1>5. /\ jm' \in [client : 0 .. MaxStreams, pending : 0 .. MaxStreams] /\ jm'.pending = jm.pending
  BY <1>1, <1>3 DEF NoStream
<1>6. Unlocked
  BY <1>1, <1>2 DEF ConnectHeld, InCall
<1>7. /\ SmInv' /\ Grown /\ window.head <= window'.head /\ window'.head \in Nat
      /\ UNCHANGED <<streamId, rwndSize, startSeq, connecting>>
      /\ connected' => UNCHANGED <<connected, window, sentNotAcked>>
  <2>1. CASE ClientDisconnected
    <3>1. SmInv'
      BY <1>1, <2>1, ClientDisconnectedKeeps
    <3>2. /\ UNCHANGED <<streamId, rwndSize, startSeq, connecting, terminalEvent, eofPos>>
          /\ connected' = FALSE /\ SetEffectiveWindow(FALSE, BufSize)
      BY <2>1 DEF ClientDisconnected, ptyVars
    <3>3. window'.tail = window.tail /\ window.head <= window'.head
      BY <1>1, <3>2, SizesAssumption, WindowSizeMoves
    <3>4. Grown
      BY <1>1, <3>2, <3>3, SameOutput
    <3> QED BY <1>1, <3>1, <3>2, <3>3, <3>4, Tails
  <2>2. CASE UNCHANGED smVars
    <3>1. SmInv' /\ UNCHANGED <<window, terminalEvent, eofPos, rwndSize, sentNotAcked,
                                connected, streamId, startSeq, connecting>>
      BY <1>1, <2>2, StutterKeeps DEF smVars, windowVars, ptyVars, clientVars, sentVars
    <3>2. Grown
      BY <1>1, <3>1, SameOutput
    <3> QED BY <1>1, <3>1, <3>2, Tails
  <2> QED BY <2>1, <2>2 DEF TakeOver
<1>8. JobTypes'
  BY <1>1, <1>4, <1>5 DEF TypesOK, JobTypes
<1>9. /\ TypesOK' /\ PacketsOK' /\ ReadersOK' /\ WindowRespected' /\ LoopsOK' /\ LinksOK'
      /\ UNCHANGED <<link, wire, ackWire, readers, known, loops, current, attempt, lastStream>>
  BY <1>1, <1>7, <1>8, HandlersKeep
<1>10. Corked' => Corked /\ UNCHANGED <<rwndSize, sentNotAcked>>
  BY <1>4, <1>5, <1>7 DEF Corked, InCall
<1>11. StreamAt'
  BY <1>1, <1>2, <1>5, <1>7, <1>9, WindowFacts DEF StreamAt, SmInv, SmTypeOK
<1>12. CallHeld'
  BY <1>1, <1>2, <1>4, <1>6, <1>7, <1>9 DEF CallHeld, Unlocked
<1>13. ConnectHeld'
  BY <1>6, <1>7 DEF ConnectHeld, Unlocked
<1>14. CorkedOK'
  BY <1>1, <1>2, <1>7, <1>10 DEF CorkedOK
<1>15. RequestOK'
  <2>1. ~(request.kind = "start" /\ request.id = lastStream)
    BY <1>1, <1>2 DEF RequestOK
  <2>2. Behind(lastStream) => Behind(lastStream)'
    BY <1>1, <1>4, <1>7, <1>9 DEF Behind
  <2>3. request' = request /\ lastStream' = lastStream /\ attempt' = attempt
    BY <1>1, <1>9
  <2> QED BY <1>2, <2>1, <2>2, <2>3 DEF RequestOK
<1>16. ReplyOK'
  BY <1>1, <1>2, <1>9 DEF ReplyOK
<1>17. AttemptOK'
  <2>1. Behind(lastStream) => Behind(lastStream)'
    BY <1>1, <1>4, <1>7, <1>9 DEF Behind
  <2>2. Corked /\ streamId = lastStream => FALSE
    <3>1. SUFFICES ASSUME Corked, streamId = lastStream PROVE FALSE
      OBVIOUS
    <3>2. streamId < call.id /\ call.id <= lastStream
      BY <1>1, <1>2 DEF CallHeld
    <3> QED BY <1>1, <1>3, <3>1, <3>2, StreamNumbers DEF CallRecords, Streams
  <2> QED BY <1>2, <1>7, <1>9, <2>1, <2>2 DEF AttemptOK
<1>18. FlowsOK'
  BY <1>1, <1>7, <1>9, FlowsKept DEF StreamsOK, SendPos
<1>19. QuietOK'
  <2>1. attempt.at \in {"start", "starting"} => readers[lastStream].nextSeq <= window'.tail
    <3>1. readers[lastStream].nextSeq \in Nat
      BY <1>1 DEF TypesOK, MainTypes, Readers
    <3> QED BY <1>1, <1>7, <3>1, Tails DEF StreamsOK, QuietOK
  <2> QED BY <1>1, <1>7, <1>9, <1>10, <2>1 DEF StreamsOK, QuietOK
<1> QED BY <1>7, <1>9, <1>11, <1>12, <1>13, <1>14, <1>15, <1>16, <1>17, <1>18, <1>19
        DEF DurableInv, StreamsOK, ProtocolOK, CallOK, RpcOK


\* The new client is about to be connected, or is refused.
LEMMA ConnectBegins ==
    ASSUME DurableInv, Connect
    PROVE  DurableInv' /\ Grown
<1>1. /\ SmInv /\ TypesOK /\ ProtocolOK /\ StreamsOK /\ JmUnchanged
      /\ call # NoRequest /\ call.at = "connect" /\ UNCHANGED <<writers, jm, request>>
  BY DEF DurableInv, Connect
<1>2. /\ StreamAt /\ CallHeld /\ ConnectHeld /\ CorkedOK /\ RequestOK /\ ReplyOK /\ AttemptOK
  BY <1>1, ProtocolParts
<1>3. call \in CallRecords /\ MaxStreams \in Nat /\ lastStream \in Streams
  BY <1>1, StreamNumbers DEF TypesOK, JobTypes
<1>4. call.id \in Streams /\ call.seq \in Nat /\ call.kind = "prepare"
  BY <1>1, <1>3 DEF CallRecords
<1>5. /\ streamId < call.id /\ call.id <= lastStream /\ Unlocked
      /\ (call.id = lastStream /\ attempt.at = "prepare" => call.seq = attempt.seq)
  BY <1>1, <1>2 DEF CallHeld, ConnectHeld, InCall
<1> DEFINE refused == [kind |-> "prepare", ok |-> FALSE]
<1>6. \/ /\ call' = NoRequest /\ UNCHANGED smVars
         /\ reply' = reply \/ (reply' = refused /\ attempt.at = "prepare")
      \/ /\ call' = [call EXCEPT !.at = "connecting"] /\ reply' = reply
         /\ ClientConnected(call.id, 0, call.seq)
  BY <1>4, AnswerWhat DEF Connect
<1>7. call' \in CallRecords /\ reply' \in Replies
  <2>1. refused \in Replies /\ NoRequest \in CallRecords /\ reply \in Replies
        /\ [call EXCEPT !.at = "connecting"] \in CallRecords
    BY <1>1, <1>3 DEF Replies, CallRecords, TypesOK, JobTypes
  <2> QED BY <1>6, <2>1
<1>8. /\ SmInv' /\ UNCHANGED <<window, terminalEvent, eofPos, connected, streamId, rwndSize,
                               sentNotAcked, startSeq>>
      /\ \/ call' = NoRequest /\ connecting' = connecting
         \/ /\ call' # NoRequest /\ call'.at = "connecting" /\ call'.id = call.id
            /\ call'.seq = call.seq /\ reply' = reply /\ ~connected
            /\ connecting' = [at |-> "head", id |-> call.id, rwnd |-> 0, clientSeq |-> call.seq,
                              headPos |-> window.head]
  <2>1. CASE call' = NoRequest /\ UNCHANGED smVars
    BY <1>1, <2>1, StutterKeeps DEF smVars, windowVars, ptyVars, clientVars, sentVars
  <2>2. CASE ClientConnected(call.id, 0, call.seq) /\ call' = [call EXCEPT !.at = "connecting"] /\ reply' = reply
    <3>1. SmInv'
      BY <1>1, <1>4, <2>2, StreamAssumption, ClientConnectedKeeps DEF Streams
    <3>2. call' # NoRequest /\ call'.at = "connecting" /\ call'.id = call.id /\ call'.seq = call.seq
      BY <1>1, <1>3, <2>2 DEF CallRecords, NoRequest
    <3> QED BY <2>2, <3>1, <3>2 DEF ClientConnected, windowVars, ptyVars, clientVars, sentVars
  <2> QED BY <1>6, <2>1, <2>2
<1>9. Grown
  BY <1>1, <1>8, SameOutput
<1>10. JobTypes'
  BY <1>1, <1>7 DEF TypesOK, JobTypes
<1>11. /\ TypesOK' /\ PacketsOK' /\ ReadersOK' /\ WindowRespected' /\ LoopsOK' /\ LinksOK'
       /\ UNCHANGED <<link, wire, ackWire, readers, known, loops, current, attempt, lastStream>>
  BY <1>1, <1>8, <1>9, <1>10, HandlersKeep
<1>12. Corked' => Corked
  BY <1>1, <1>8 DEF Corked, InCall
<1>13. StreamAt'
  BY <1>1, <1>2, <1>8, <1>11 DEF StreamAt
<1>14. CallHeld'
  <2>1. SUFFICES ASSUME call' # NoRequest
                 PROVE  /\ call'.id <= lastStream' /\ streamId' < call'.id /\ ~connected'
                        /\ (call'.id = lastStream' /\ attempt'.at = "prepare" => call'.seq = attempt'.seq)
    BY DEF CallHeld
  <2> QED BY <1>5, <1>8, <1>11, <2>1
<1>15. ConnectHeld'
  <2>1. CASE call' = NoRequest /\ connecting' = connecting
    BY <1>5, <2>1 DEF ConnectHeld, Unlocked
  <2>2. CASE /\ call' # NoRequest /\ call'.at = "connecting" /\ call'.id = call.id
             /\ call'.seq = call.seq
             /\ connecting' = [at |-> "head", id |-> call.id, rwnd |-> 0, clientSeq |-> call.seq,
                               headPos |-> window.head]
    BY <1>1, <1>8, <2>2, WindowFacts DEF ConnectHeld, InCall
  <2> QED BY <1>8, <2>1, <2>2
<1>16. CorkedOK'
  BY <1>1, <1>2, <1>8, <1>12 DEF CorkedOK
<1>17. Behind(lastStream) => Behind(lastStream)'
  BY <1>1, <1>8, <1>11 DEF Behind
<1>18. RequestOK'
  <2>1. ~(request.kind = "start" /\ request.id = lastStream)
    BY <1>1, <1>2 DEF RequestOK
  <2>2. request' = request /\ lastStream' = lastStream /\ attempt' = attempt
    BY <1>1, <1>11
  <2> QED BY <1>2, <1>17, <2>1, <2>2 DEF RequestOK
<1>19. ReplyOK'
  <2>1. CASE reply' = reply
    <3>1. ~(reply.kind = "prepare" /\ reply.ok /\ ~reply.done)
      BY <1>1, <1>2 DEF ReplyOK
    <3> QED BY <1>2, <1>11, <2>1, <3>1 DEF ReplyOK
  <2>2. CASE reply' = refused /\ attempt.at = "prepare"
    BY <1>11, <2>2 DEF ReplyOK
  <2> QED BY <1>6, <2>1, <2>2
<1>20. AttemptOK'
  <2>1. Corked /\ streamId = lastStream => FALSE
    BY <1>3, <1>4, <1>5 DEF Streams
  <2> QED BY <1>2, <1>8, <1>11, <1>17, <2>1 DEF AttemptOK
<1>21. FlowsOK'
  BY <1>1, <1>8, <1>11, FlowsKept DEF StreamsOK, SendPos
<1>22. QuietOK'
  BY <1>1, <1>8, <1>11, <1>12 DEF StreamsOK, QuietOK
<1> QED BY <1>8, <1>9, <1>11, <1>13, <1>14, <1>15, <1>16, <1>18, <1>19, <1>20, <1>21, <1>22
        DEF DurableInv, StreamsOK, ProtocolOK, CallOK, RpcOK


\* ClientConnected up to its last step.
LEMMA ConnectGoesOn ==
    ASSUME DurableInv, ConnectConsume \/ ConnectHeadAgain, UNCHANGED <<jmVars, rpcVars>>, JmUnchanged
    PROVE  DurableInv' /\ Grown
<1>1. /\ SmInv /\ TypesOK /\ ProtocolOK /\ StreamsOK
      /\ UNCHANGED <<writers, jm, call, request, reply>>
  BY DEF DurableInv, jmVars, rpcVars
<1>2. /\ StreamAt /\ CallHeld /\ ConnectHeld /\ CorkedOK /\ RequestOK /\ ReplyOK /\ AttemptOK
  BY <1>1, ProtocolParts
<1>3. /\ connecting \in Calls /\ connecting.at \in {"head", "consumed"}
      /\ window.head \in Nat /\ window.tail \in Nat /\ window \in Windows
  BY <1>1, WindowFacts DEF SmInv, SmTypeOK, ConnectConsume, ConnectHeadAgain
<1>4. ~Unlocked /\ ~connected
  BY <1>1, <1>3, CallFacts
<1>5. /\ connecting.id \in Nat /\ connecting.clientSeq \in Nat /\ connecting.headPos \in Nat
      /\ connecting.rwnd = 0 /\ connecting.id = call.id /\ connecting.clientSeq = call.seq
      /\ connecting.headPos <= window.head /\ call # NoRequest /\ call.at = "connecting"
      /\ connecting.at = "consumed" => connecting.clientSeq <= window.head
  BY <1>2, <1>3, <1>4 DEF Calls, ConnectHeld, InCall, NoCall
<1>6. /\ SmInv' /\ window'.tail = window.tail /\ window.head <= window'.head
      /\ UNCHANGED <<connected, streamId, rwndSize, sentNotAcked, startSeq, terminalEvent, eofPos>>
      /\ \/ connecting' = NoCall
         \/ /\ connecting' # NoCall /\ connecting'.id = connecting.id
            /\ connecting'.clientSeq = connecting.clientSeq /\ connecting'.rwnd = connecting.rwnd
            /\ connecting'.headPos <= window'.head /\ connecting.clientSeq <= window'.head
  <2>1. CASE ConnectHeadAgain
    <3>1. SmInv'
      BY <1>1, <2>1, ConnectHeadAgainKeeps
    <3>2. /\ window' = window /\ connecting.at = "consumed"
          /\ connecting' = [connecting EXCEPT !.at = "ready", !.headPos = window.head]
          /\ UNCHANGED <<connected, streamId, rwndSize, sentNotAcked, startSeq, terminalEvent, eofPos>>
      BY <2>1 DEF ConnectHeadAgain, windowVars, ptyVars, clientVars, sentVars
    <3>3. /\ connecting'.id = connecting.id /\ connecting'.at = "ready"
          /\ connecting'.clientSeq = connecting.clientSeq /\ connecting'.rwnd = connecting.rwnd
          /\ connecting'.headPos = window.head
      BY <1>3, <3>2 DEF Calls, NoCall
    <3>4. connecting' # NoCall
      BY <3>3 DEF NoCall
    <3> QED BY <1>3, <1>5, <3>1, <3>2, <3>3, <3>4
  <2>2. CASE ConnectConsume
    <3> DEFINE n == connecting.clientSeq - connecting.headPos
    <3>1. /\ SmInv' /\ connecting.at = "head"
          /\ UNCHANGED <<connected, streamId, rwndSize, sentNotAcked, startSeq, terminalEvent, eofPos>>
      BY <1>1, <2>2, ConnectConsumeKeeps DEF ConnectConsume, ptyVars, clientVars, sentVars
    <3>2. \/ n <= 0 /\ connecting' = [connecting EXCEPT !.at = "ready"] /\ window' = window
          \/ n > 0 /\ Consume(n) /\ connecting' = [connecting EXCEPT !.at = "consumed"]
          \/ connecting' = NoCall /\ window' = window
      BY <2>2 DEF ConnectConsume, windowVars
    <3>3. n \in Int /\ connecting.clientSeq = connecting.headPos + n
      BY <1>5
    <3>4. ASSUME NEW at, connecting' = [connecting EXCEPT !.at = at], at \in {"ready", "consumed"}
          PROVE  /\ connecting'.id = connecting.id /\ connecting'.at = at /\ connecting' # NoCall
                 /\ connecting'.clientSeq = connecting.clientSeq /\ connecting'.rwnd = connecting.rwnd
                 /\ connecting'.headPos = connecting.headPos
      <4>1. /\ connecting'.id = connecting.id /\ connecting'.at = at
            /\ connecting'.clientSeq = connecting.clientSeq /\ connecting'.rwnd = connecting.rwnd
            /\ connecting'.headPos = connecting.headPos
        BY <1>3, <3>4 DEF Calls, NoCall
      <4> QED BY <3>4, <4>1 DEF NoCall
    <3> HIDE DEF n
    <3>5. CASE n <= 0 /\ connecting' = [connecting EXCEPT !.at = "ready"] /\ window' = window
      <4>1. connecting.clientSeq <= window.head
        BY <1>3, <1>5, <3>3, <3>5
      <4> QED BY <1>3, <1>5, <3>1, <3>4, <3>5, <4>1
    <3>6. CASE n > 0 /\ Consume(n) /\ connecting' = [connecting EXCEPT !.at = "consumed"]
      <4>1. window' = [window EXCEPT !.head = window.head + n]
        BY <3>6 DEF Consume, AfterConsume
      <4>2. window'.head = window.head + n /\ window'.tail = window.tail
        BY <1>3, <4>1 DEF Windows
      <4>3. /\ window.head <= window'.head /\ connecting.headPos <= window'.head
            /\ connecting.clientSeq <= window'.head
        BY <1>3, <1>5, <3>3, <3>6, <4>2
      <4> QED BY <3>1, <3>4, <3>6, <4>2, <4>3
    <3>7. CASE connecting' = NoCall /\ window' = window
      BY <1>3, <3>1, <3>7
    <3> QED BY <3>2, <3>5, <3>6, <3>7
  <2> QED BY <2>1, <2>2
<1>7. Grown
  BY <1>1, <1>6, SameOutput
<1>8. JobTypes'
  BY <1>1 DEF TypesOK, JobTypes
<1>9. /\ TypesOK' /\ PacketsOK' /\ ReadersOK' /\ WindowRespected' /\ LoopsOK' /\ LinksOK'
       /\ UNCHANGED <<link, wire, ackWire, readers, known, loops, current, attempt, lastStream>>
  BY <1>1, <1>6, <1>7, <1>8, HandlersKeep
<1>10. ~connected' /\ ~Corked'
  BY <1>4, <1>6 DEF Corked
<1>11. StreamAt'
  BY <1>1, <1>2, <1>6, <1>9, Tails, <1>7, WindowFacts DEF StreamAt, SmInv, SmTypeOK
<1>12. CallHeld'
  BY <1>1, <1>2, <1>4, <1>6, <1>9 DEF CallHeld
<1>13. ConnectHeld'
  BY <1>1, <1>5, <1>6 DEF ConnectHeld, Unlocked, InCall
<1>14. CorkedOK'
  BY <1>10 DEF CorkedOK
<1>15. RequestOK'
  BY <1>1, <1>2, <1>6, <1>9 DEF RequestOK, Behind
<1>16. ReplyOK'
  BY <1>1, <1>2, <1>4, <1>6, <1>9 DEF ReplyOK
<1>17. AttemptOK'
  <2>1. ~Corked
    BY <1>4 DEF Corked
  <2>2. Behind(lastStream) => Behind(lastStream)'
    BY <1>1, <1>6, <1>9 DEF Behind
  <2> QED BY <1>2, <1>6, <1>9, <2>1, <2>2 DEF AttemptOK
<1>18. FlowsOK'
  BY <1>1, <1>6, <1>9, <1>10, FlowsKept DEF StreamsOK
<1>19. QuietOK'
  BY <1>1, <1>6, <1>9, <1>10 DEF StreamsOK, QuietOK
<1> QED BY <1>6, <1>7, <1>9, <1>11, <1>12, <1>13, <1>14, <1>15, <1>16, <1>17, <1>18, <1>19
        DEF DurableInv, StreamsOK, ProtocolOK, CallOK, RpcOK


\* A stream begins: the sender stands at the window's start, and nothing is on the way.
LEMMA FlowBegins ==
    ASSUME NEW w \in Seq(Packets), NEW r \in Readers, NEW pos \in Nat, NEW limit \in Nat,
           Ordered(w), Clear(Range(w), r), NoData(Range(w), r),
           r.nextSeq <= pos, \A p \in Range(w) \cup r.ooo : PacketEnd(p) <= pos,
           limit <= pos + ReadWindow
    PROVE  \E base \in Nat : Bound(Range(w), r, base) /\ Sender(Range(w), r, base, pos, limit)
<1>1. Bound(Range(w), r, pos)
  BY DEF Bound, NoData
<1>2. Sender(Range(w), r, pos, pos, limit)
  BY DEF Sender
<1> QED BY <1>1, <1>2

\* ClientConnected ends: the stream is connected, corked.
LEMMA ConnectEnds ==
    ASSUME DurableInv, ConnectReady, UNCHANGED <<jmVars, rpcVars>>, JmUnchanged
    PROVE  DurableInv' /\ Grown
<1>1. /\ SmInv /\ TypesOK /\ ProtocolOK /\ StreamsOK
      /\ UNCHANGED <<writers, jm, call, request, reply>>
  BY DEF DurableInv, jmVars, rpcVars
<1>2. /\ StreamAt /\ CallHeld /\ ConnectHeld /\ CorkedOK /\ RequestOK /\ ReplyOK /\ AttemptOK
  BY <1>1, ProtocolParts
<1>3. /\ connecting \in Calls /\ connecting.at = "ready" /\ call \in CallRecords
      /\ window.head \in Nat /\ window.tail \in Nat /\ MaxStreams \in Nat
      /\ streamId \in Streams /\ lastStream \in Streams
  BY <1>1, StreamNumbers, WindowFacts DEF SmInv, SmTypeOK, ConnectReady, TypesOK, JobTypes
<1>4. ~Unlocked /\ ~connected
  BY <1>1, <1>3, CallFacts
<1>5. /\ connecting.clientSeq \in Nat /\ connecting.headPos \in Nat
      /\ connecting.rwnd = 0 /\ connecting.id = call.id /\ connecting.clientSeq = call.seq
      /\ connecting.headPos <= window.head /\ connecting.clientSeq <= window.head
      /\ call # NoRequest /\ call.at = "connecting"
  BY <1>2, <1>3, <1>4 DEF Calls, ConnectHeld, InCall, NoCall
<1>6. /\ call.id \in Streams /\ streamId < call.id /\ call.id <= lastStream
      /\ (call.id = lastStream /\ attempt.at = "prepare" => call.seq = attempt.seq)
  BY <1>2, <1>3, <1>4, <1>5 DEF CallHeld, CallRecords
<1>7. /\ streamId' = call.id /\ connected' = TRUE /\ rwndSize' = 0 /\ sentNotAcked' = 0
      /\ connecting' = NoCall /\ UNCHANGED <<terminalEvent, eofPos>>
      /\ startSeq' = IF connecting.clientSeq > connecting.headPos
                     THEN connecting.clientSeq ELSE connecting.headPos
      /\ SetEffectiveWindow(TRUE, Effective(0))
  BY <1>5 DEF ConnectReady, ptyVars
<1>8. window'.tail = window.tail /\ window'.head = window.head
  BY <1>1, <1>7, EffectiveIsNat, WindowSizeMoves
<1>9. /\ startSeq' \in Nat /\ startSeq' <= window'.head /\ call.seq <= startSeq'
  <2> HIDE DEF JmUnchanged
  <2> QED BY <1>3, <1>5, <1>7, <1>8
<1>10. SmInv' /\ Grown
  <2>1. SmInv'
    BY <1>1, ConnectReadyKeeps
  <2> QED BY <1>1, <1>7, <1>8, <2>1, SameOutput
<1>11. JobTypes'
  BY <1>1 DEF TypesOK, JobTypes
<1>12. /\ TypesOK' /\ PacketsOK' /\ ReadersOK' /\ WindowRespected' /\ LoopsOK' /\ LinksOK'
       /\ UNCHANGED <<link, wire, ackWire, readers, known, loops, current, attempt, lastStream>>
  BY <1>1, <1>10, <1>11, HandlersKeep
<1>13. /\ \A g \in Streams : g > streamId =>
            wire[g] = <<>> /\ readers[g].ooo = {} /\ readers[g].buffer = <<>>
       /\ wire[call.id] = <<>> /\ readers[call.id].ooo = {} /\ readers[call.id].buffer = <<>>
  <2>1. \A g \in Streams : g > streamId =>
            wire[g] = <<>> /\ readers[g].ooo = {} /\ readers[g].buffer = <<>>
    BY <1>1 DEF StreamsOK, QuietOK
  <2>2. call.id > streamId
    BY <1>3, <1>6 DEF Streams
  <2> QED BY <1>6, <2>1, <2>2
<1>14. NoData(Range(wire[call.id]), readers[call.id])
  BY <1>13 DEF NoData, DataOf, Range
<1>15. StreamAt'
  <2>1. jm.pending <= streamId /\ \A g \in writers : g <= streamId
    BY <1>2 DEF StreamAt
  <2>2. jm.pending \in Nat /\ writers \subseteq Streams
    BY <1>1, <1>3 DEF TypesOK, JobTypes
  <2>3. jm.pending <= call.id /\ \A g \in writers : g <= call.id
    BY <1>3, <1>6, <2>1, <2>2 DEF Streams
  <2> QED BY <1>1, <1>6, <1>7, <1>9, <1>12, <2>3 DEF StreamAt, Streams
<1>16. CallHeld'
  BY <1>1, <1>5, <1>6, <1>7, <1>12 DEF CallHeld, Unlocked
<1>17. ConnectHeld'
  BY <1>7 DEF ConnectHeld, Unlocked
<1>18. CorkedOK'
  <2>1. call.id \notin writers
    <3>1. \A g \in writers : g <= streamId
      BY <1>2 DEF StreamAt
    <3> QED BY <1>3, <1>6, <3>1 DEF Streams
  <2> QED BY <1>1, <1>7, <2>1 DEF CorkedOK
<1>19. Behind(lastStream) => Behind(lastStream)'
  BY <1>1, <1>5, <1>7, <1>12 DEF Behind
<1>20. RequestOK'
  <2>1. ~(request.kind = "start" /\ request.id = lastStream)
    BY <1>2, <1>5 DEF RequestOK
  <2>2. request' = request /\ lastStream' = lastStream /\ attempt' = attempt
    BY <1>1, <1>12
  <2> QED BY <1>2, <1>19, <2>1, <2>2 DEF RequestOK
<1>21. ReplyOK'
  <2>1. ~(reply.kind = "prepare" /\ reply.ok /\ ~reply.done)
    BY <1>2, <1>5 DEF ReplyOK
  <2> QED BY <1>1, <1>2, <1>12, <2>1 DEF ReplyOK
<1>22. AttemptOK'
  <2>1. ~(attempt.at \in {"start", "starting"})
    BY <1>2, <1>3, <1>6 DEF AttemptOK, Streams
  <2>2. attempt.at \in {"stat", "create"} => Behind(lastStream)' /\ lastStream \notin known
    BY <1>2, <1>19 DEF AttemptOK
  <2>3. Corked' /\ streamId' <= lastStream
    BY <1>1, <1>5, <1>6, <1>7 DEF Corked, InCall
  <2>4. attempt.at = "prepare" =>
          /\ streamId' < lastStream \/ (streamId' = lastStream /\ Corked')
          /\ streamId' = lastStream => attempt.seq <= startSeq'
    <3>1. streamId' \in Streams
      BY <1>6, <1>7
    <3>2. streamId' < lastStream \/ streamId' = lastStream
      BY <1>3, <2>3, <3>1 DEF Streams
    <3> QED BY <1>6, <1>7, <1>9, <2>3, <3>2
  <2>5. \A g \in known : g <= streamId' \/ (g = lastStream /\ attempt.at = "prepare")
    <3>1. \A g \in known : g <= streamId \/ (g = lastStream /\ attempt.at = "prepare")
      BY <1>2 DEF AttemptOK
    <3>2. known \subseteq Streams
      BY <1>1 DEF TypesOK, MainTypes
    <3> QED BY <1>3, <1>6, <1>7, <3>1, <3>2 DEF Streams
  <2> QED BY <1>2, <1>12, <2>1, <2>2, <2>3, <2>4, <2>5 DEF AttemptOK
<1>23. ASSUME NEW g \in known PROVE FlowOK(g)'
  <2>1. FlowOK(g) /\ g \in Streams
    BY <1>1 DEF StreamsOK, FlowsOK, TypesOK, MainTypes
  <2>2. PICK base \in Nat : Bound(Range(wire[g]), readers[g], base)
    BY <2>1 DEF FlowOK
  <2>3. CASE g # call.id
    BY <1>7, <1>12, <2>1, <2>2, <2>3 DEF FlowOK
  <2>4. CASE g = call.id
    <3>1. g = lastStream /\ attempt.at = "prepare"
      <4>1. ~(g <= streamId)
        BY <1>3, <1>6, <2>1, <2>4 DEF Streams
      <4> QED BY <1>2, <4>1 DEF AttemptOK
    <3>2. readers[g].nextSeq = call.seq
      BY <1>1, <1>6, <2>4, <3>1 DEF StreamsOK, QuietOK
    <3>3. /\ readers[g].nextSeq <= window.head
          /\ \A p \in Range(wire[g]) \cup readers[g].ooo : PacketEnd(p) <= window.head
      <4>1. Range(wire[g]) = {}
        BY <1>13, <2>4 DEF Range
      <4> QED BY <1>5, <1>13, <2>4, <3>2, <4>1
    <3>4. /\ wire[g] \in Seq(Packets) /\ readers[g] \in Readers /\ Ordered(wire[g])
          /\ Clear(Range(wire[g]), readers[g]) /\ NoData(Range(wire[g]), readers[g])
      BY <1>1, <1>14, <2>1, <2>4 DEF TypesOK, LinkTypes, MainTypes, FlowOK
    <3>5. window.head <= window.head + ReadWindow
      BY <1>3, ReaderAssumption
    <3>6. PICK b \in Nat : /\ Bound(Range(wire[g]), readers[g], b)
                           /\ Sender(Range(wire[g]), readers[g], b, window.head, window.head)
      BY <1>3, <3>3, <3>4, <3>5, FlowBegins
    <3>7. SendPos' = window.head /\ window'.head + rwndSize' = window.head
      BY <1>3, <1>7, <1>8 DEF SendPos
    <3> QED BY <1>12, <2>1, <3>6, <3>7 DEF FlowOK
  <2> QED BY <2>3, <2>4
<1>24. FlowsOK'
  BY <1>12, <1>23 DEF FlowsOK
<1>25. QuietOK'
  <2>1. \A g \in Streams : g > streamId' =>
            wire[g] = <<>> /\ readers[g].ooo = {} /\ readers[g].buffer = <<>>
    <3>1. \A g \in Streams : g > call.id => g > streamId
      BY <1>3, <1>6 DEF Streams
    <3> QED BY <1>7, <1>13, <3>1
  <2>2. Corked' => NoData(Range(wire[streamId']), readers[streamId'])
    BY <1>7, <1>14
  <2> QED BY <1>1, <1>8, <1>12, <2>1, <2>2 DEF StreamsOK, QuietOK
<1> QED BY <1>10, <1>12, <1>15, <1>16, <1>17, <1>18, <1>20, <1>21, <1>22, <1>24, <1>25
        DEF DurableInv, StreamsOK, ProtocolOK, CallOK, RpcOK


\* The RPC method answers.
LEMMA ConnectedStep ==
    ASSUME DurableInv, Connected
    PROVE  DurableInv' /\ Grown
<1>1. /\ SmInv /\ TypesOK /\ ProtocolOK /\ StreamsOK /\ JmUnchanged
      /\ call # NoRequest /\ call.at = "connecting" /\ Unlocked /\ call' = NoRequest
      /\ UNCHANGED <<smVars, writers, request>>
  BY DEF DurableInv, Connected
<1>2. /\ StreamAt /\ CallHeld /\ ConnectHeld /\ CorkedOK /\ RequestOK /\ ReplyOK /\ AttemptOK
  BY <1>1, ProtocolParts
<1>3. /\ call \in CallRecords /\ MaxStreams \in Nat /\ lastStream \in Streams
      /\ startSeq \in Nat
  BY <1>1, StreamNumbers DEF TypesOK, JobTypes, SmInv, SmTypeOK
<1>4. call.id \in Streams /\ call.kind = "prepare"
  BY <1>1, <1>3 DEF CallRecords
<1>5. connected => streamId = call.id
  BY <1>1, <1>2 DEF CallHeld
<1>6. /\ SmInv' /\ UNCHANGED <<window, terminalEvent, eofPos, connected, streamId, rwndSize,
                               sentNotAcked, startSeq, connecting>>
  BY <1>1, StutterKeeps DEF smVars, windowVars, ptyVars, clientVars, sentVars
<1>7. Grown
  BY <1>1, <1>6, SameOutput
<1> DEFINE accepted == [kind |-> "prepare", ok |-> TRUE, done |-> FALSE, seq |-> startSeq]
           refused == [kind |-> "prepare", ok |-> FALSE]
<1>8. \/ /\ connected /\ jm' = [client |-> call.id, pending |-> call.id]
         /\ reply' = reply \/ (reply' = accepted /\ attempt.at = "prepare" /\ lastStream = call.id)
      \/ /\ ~connected /\ jm' = jm
         /\ reply' = reply \/ (reply' = refused /\ attempt.at = "prepare")
  BY <1>4, AnswerWhat DEF Connected
<1>9. /\ accepted \in Replies /\ accepted.kind = "prepare" /\ accepted.seq = startSeq
      /\ "done" \in DOMAIN accepted
  BY <1>3 DEF Replies
<1>10. refused \in Replies /\ refused.kind = "prepare" /\ refused.ok = FALSE
  BY DEF Replies
<1> HIDE DEF accepted, refused
<1>11. JobTypes'
  <2>1. /\ reply \in Replies /\ jm \in [client : 0 .. MaxStreams, pending : 0 .. MaxStreams]
        /\ NoRequest \in CallRecords
    BY <1>1 DEF TypesOK, JobTypes, CallRecords
  <2>2. jm' \in [client : 0 .. MaxStreams, pending : 0 .. MaxStreams]
    BY <1>3, <1>4, <1>8, <2>1 DEF Streams
  <2>3. reply' \in Replies
    BY <1>8, <1>9, <1>10, <2>1
  <2> QED BY <1>1, <2>1, <2>2, <2>3 DEF TypesOK, JobTypes
<1>12. /\ TypesOK' /\ PacketsOK' /\ ReadersOK' /\ WindowRespected' /\ LoopsOK' /\ LinksOK'
       /\ UNCHANGED <<link, wire, ackWire, readers, known, loops, current, attempt, lastStream>>
  BY <1>1, <1>6, <1>7, <1>11, HandlersKeep
<1>13. Corked' => Corked
  BY <1>1, <1>6 DEF Corked, InCall
<1>14. connected => Corked /\ Corked'
  BY <1>1, <1>5, <1>6, <1>8 DEF Corked, InCall
<1>15. StreamAt'
  <2>1. jm'.pending <= streamId
    <3>1. streamId \in Streams
      BY <1>1, StreamNumbers
    <3> QED BY <1>2, <1>3, <1>5, <1>8, <3>1 DEF StreamAt, Streams
  <2> QED BY <1>1, <1>2, <1>6, <1>12, <2>1 DEF StreamAt
<1>16. CallHeld'
  BY <1>1 DEF CallHeld
<1>17. ConnectHeld'
  BY <1>1, <1>6 DEF ConnectHeld, Unlocked
<1>18. CorkedOK'
  BY <1>1, <1>2, <1>6, <1>13 DEF CorkedOK
<1>19. Behind(lastStream) => Behind(lastStream)'
  BY <1>1, <1>6, <1>12 DEF Behind
<1>20. RequestOK'
  <2>1. ~(request.kind = "start" /\ request.id = lastStream)
    BY <1>1, <1>2 DEF RequestOK
  <2>2. request' = request /\ lastStream' = lastStream /\ attempt' = attempt
    BY <1>1, <1>12
  <2> QED BY <1>2, <1>19, <2>1, <2>2 DEF RequestOK
<1>21. ReplyOK'
  <2>1. CASE reply' = reply
    <3>1. ~(reply.kind = "prepare" /\ reply.ok /\ ~reply.done)
      BY <1>1, <1>2 DEF ReplyOK
    <3> QED BY <1>2, <1>12, <2>1, <3>1 DEF ReplyOK
  <2>2. CASE reply' = accepted /\ attempt.at = "prepare" /\ lastStream = call.id /\ connected
    <3>1. jm'.pending = lastStream /\ streamId = lastStream
      BY <1>5, <1>8, <2>2
    <3> QED BY <1>1, <1>6, <1>9, <1>12, <2>2, <3>1 DEF ReplyOK
  <2>3. CASE reply' = refused /\ attempt.at = "prepare"
    BY <1>10, <1>12, <2>3 DEF ReplyOK
  <2> QED BY <1>8, <2>1, <2>2, <2>3
<1>22. AttemptOK'
  <2>1. Corked => Corked'
    BY <1>14 DEF Corked
  <2> QED BY <1>2, <1>6, <1>12, <1>19, <2>1 DEF AttemptOK
<1>23. FlowsOK'
  BY <1>1, <1>6, <1>12, FlowsKept DEF StreamsOK, SendPos
<1>24. QuietOK'
  BY <1>1, <1>6, <1>12, <1>13 DEF StreamsOK, QuietOK
<1> QED BY <1>6, <1>7, <1>12, <1>15, <1>16, <1>17, <1>18, <1>20, <1>21, <1>22, <1>23, <1>24
        DEF DurableInv, StreamsOK, ProtocolOK, CallOK, RpcOK

\* StartStream.
LEMMA StartStreamStep ==
    ASSUME DurableInv, StartStream
    PROVE  DurableInv' /\ Grown
<1>1. /\ SmInv /\ TypesOK /\ ProtocolOK /\ StreamsOK /\ JmUnchanged
      /\ request.kind = "start" /\ request' = NoRequest /\ call' = call
  BY DEF DurableInv, StartStream
<1>2. /\ StreamAt /\ CallHeld /\ ConnectHeld /\ CorkedOK /\ RequestOK /\ ReplyOK /\ AttemptOK
  BY <1>1, ProtocolParts
<1>3. call = NoRequest /\ request.id = lastStream
  BY <1>1, RequestArrives DEF StartStream
<1>4. /\ jm.pending = lastStream /\ streamId = lastStream /\ attempt.at \in {"start", "idle"}
      /\ Unlocked
  BY <1>1, <1>2, <1>3 DEF RequestOK, ConnectHeld, InCall
<1>5. /\ streamId \in Streams /\ lastStream \in Streams /\ MaxStreams \in Nat
      /\ window.head \in Nat /\ window.tail \in Nat /\ jm.pending # NoStream
  BY <1>1, <1>4, StreamNumbers, WindowFacts DEF Streams, NoStream
<1> DEFINE answer(b) == [kind |-> "start", ok |-> b]
<1>6. /\ \/ UNCHANGED <<smVars, jm, writers>>
         \/ writers' = writers \cup {jm.pending} /\ ~connected /\ UNCHANGED <<smVars, jm>>
         \/ /\ writers' = writers \cup {jm.pending} /\ connected
            /\ SetRwndSize(ReadWindow) /\ jm' = [jm EXCEPT !.pending = NoStream]
      /\ reply' = reply \/ (attempt.at = "start" /\ \E b \in BOOLEAN : reply' = answer(b))
  BY <1>1, AnswerWhat DEF StartStream
<1>7. /\ SmInv' /\ window'.head = window.head /\ window'.tail = window.tail
      /\ UNCHANGED <<terminalEvent, eofPos, connected, streamId, sentNotAcked, startSeq, connecting>>
      /\ \/ rwndSize' = rwndSize /\ (jm' = jm \/ ~connected)
         \/ rwndSize' = ReadWindow /\ connected /\ jm'.pending = NoStream
      /\ jm' \in [client : 0 .. MaxStreams, pending : 0 .. MaxStreams]
      /\ jm'.pending \in {jm.pending, NoStream}
  <2>0. jm \in [client : 0 .. MaxStreams, pending : 0 .. MaxStreams]
    BY <1>1 DEF TypesOK, JobTypes
  <2>1. CASE UNCHANGED <<smVars, jm>>
    BY <1>1, <2>0, <2>1, StutterKeeps DEF smVars, windowVars, ptyVars, clientVars, sentVars
  <2>2. CASE connected /\ SetRwndSize(ReadWindow) /\ jm' = [jm EXCEPT !.pending = NoStream]
    <3>1. ReadWindow \in Nat /\ Effective(ReadWindow) \in Nat
      BY ReaderAssumption, EffectiveIsNat
    <3>2. SmInv'
      BY <1>1, <2>2, <3>1, SetRwndSizeKeeps
    <3>3. /\ SetEffectiveWindow(TRUE, Effective(ReadWindow)) /\ rwndSize' = ReadWindow
          /\ UNCHANGED <<terminalEvent, eofPos, connected, streamId, sentNotAcked, startSeq, connecting>>
      BY <2>2 DEF SetRwndSize, ptyVars, sentVars
    <3>4. window'.head = window.head /\ window'.tail = window.tail
      BY <1>1, <3>1, <3>3, WindowSizeMoves
    <3>5. /\ jm' \in [client : 0 .. MaxStreams, pending : 0 .. MaxStreams]
          /\ jm'.pending = NoStream
      BY <1>5, <2>0, <2>2 DEF NoStream
    <3> QED BY <2>2, <3>2, <3>3, <3>4, <3>5
  <2> QED BY <1>6, <2>1, <2>2
<1>8. Grown
  BY <1>1, <1>7, SameOutput
<1>9. writers' \subseteq writers \cup {lastStream}
  BY <1>4, <1>6
<1>10. \/ reply' = reply
       \/ /\ attempt.at = "start" /\ reply' \in Replies /\ reply'.kind = "start"
  <2>1. \A b \in BOOLEAN : answer(b) \in Replies /\ answer(b).kind = "start"
    BY DEF Replies
  <2> HIDE DEF answer
  <2> QED BY <1>6, <2>1
<1>11. JobTypes'
  <2>1. reply' \in Replies /\ NoRequest \in Requests
    BY <1>1, <1>10 DEF TypesOK, JobTypes, Requests
  <2> QED BY <1>1, <1>5, <1>7, <1>9, <2>1 DEF TypesOK, JobTypes
<1>12. /\ TypesOK' /\ PacketsOK' /\ ReadersOK' /\ WindowRespected' /\ LoopsOK' /\ LinksOK'
       /\ UNCHANGED <<link, wire, ackWire, readers, known, loops, current, attempt, lastStream>>
  BY <1>1, <1>7, <1>8, <1>11, HandlersKeep
<1>13. Corked' => connected /\ jm' = jm /\ rwndSize' = rwndSize /\ UNCHANGED <<smVars, jm, writers>>
  <2>1. ~InCall("connecting")'
    BY <1>1, <1>3 DEF InCall
  <2>2. Corked' => connected /\ jm'.pending # NoStream
    BY <1>5, <1>7, <2>1 DEF Corked, Streams, NoStream
  <2>3. CASE connected /\ SetRwndSize(ReadWindow) /\ jm' = [jm EXCEPT !.pending = NoStream]
    <3>1. jm'.pending = NoStream
      BY <1>1, <2>3 DEF TypesOK, JobTypes
    <3> QED BY <2>2, <3>1
  <2>4. UNCHANGED smVars => rwndSize' = rwndSize
    BY DEF smVars, clientVars
  <2> QED BY <1>6, <2>2, <2>3, <2>4
<1>14. Corked' => Corked /\ UNCHANGED <<rwndSize, writers>>
  BY <1>1, <1>7, <1>13 DEF Corked, InCall
<1>15. StreamAt'
  <2>1. jm'.pending <= streamId
    BY <1>4, <1>5, <1>7 DEF NoStream, Streams
  <2>2. \A g \in writers' : g <= streamId
    BY <1>2, <1>4, <1>5, <1>9 DEF StreamAt, Streams
  <2> QED BY <1>2, <1>7, <1>12, <2>1, <2>2 DEF StreamAt
<1>16. CallHeld'
  BY <1>1, <1>3 DEF CallHeld
<1>17. ConnectHeld'
  BY <1>4, <1>7 DEF ConnectHeld, Unlocked
<1>18. CorkedOK'
  BY <1>2, <1>7, <1>14 DEF CorkedOK
<1>19. RequestOK'
  BY <1>1 DEF RequestOK, NoRequest
<1>20. ReplyOK'
  <2>1. ~(reply.kind = "prepare")
    BY <1>2, <1>4 DEF ReplyOK
  <2> QED BY <1>2, <1>10, <1>12, <2>1 DEF ReplyOK
<1>21. AttemptOK'
  BY <1>2, <1>4, <1>7, <1>12 DEF AttemptOK
<1>22. ASSUME NEW g \in known PROVE FlowOK(g)'
  <2>1. FlowOK(g) /\ g \in Streams
    BY <1>1 DEF StreamsOK, FlowsOK, TypesOK, MainTypes
  <2>2. PICK base \in Nat :
         /\ Bound(Range(wire[g]), readers[g], base)
         /\ connected /\ streamId = g =>
              Sender(Range(wire[g]), readers[g], base, SendPos, window.head + rwndSize)
    BY <2>1 DEF FlowOK
  <2>3. CASE rwndSize' = rwndSize \/ ~connected \/ g # streamId
    <3>1. connected' /\ streamId' = g =>
              Sender(Range(wire[g]), readers[g], base, SendPos', window'.head + rwndSize')
      BY <1>7, <2>2, <2>3 DEF SendPos
    <3> QED BY <1>12, <2>1, <2>2, <3>1 DEF FlowOK
  <2>4. CASE rwndSize' = ReadWindow /\ connected /\ g = streamId
    <3>1. Corked
      BY <1>4, <2>4 DEF Corked
    <3>2. rwndSize = 0 /\ sentNotAcked = 0 /\ NoData(Range(wire[g]), readers[g])
      BY <1>1, <1>2, <2>4, <3>1 DEF CorkedOK, StreamsOK, QuietOK
    <3>3. /\ wire[g] \in Seq(Packets) /\ readers[g] \in Readers /\ Ordered(wire[g])
          /\ Clear(Range(wire[g]), readers[g])
      BY <1>1, <2>1 DEF TypesOK, LinkTypes, MainTypes, FlowOK
    <3>4. SendPos = window.head /\ SendPos' = window.head /\ window'.head + rwndSize' = window.head + ReadWindow
      BY <1>5, <1>7, <2>4, <3>2 DEF SendPos
    <3>5. /\ readers[g].nextSeq <= window.head
          /\ \A p \in Range(wire[g]) \cup readers[g].ooo : PacketEnd(p) <= window.head
      BY <2>2, <2>4, <3>4 DEF Sender
    <3>6. window.head + ReadWindow \in Nat /\ window.head + ReadWindow <= window.head + ReadWindow
      BY <1>5, ReaderAssumption
    <3>7. PICK b \in Nat : /\ Bound(Range(wire[g]), readers[g], b)
                           /\ Sender(Range(wire[g]), readers[g], b, window.head, window.head + ReadWindow)
      BY <1>5, <3>2, <3>3, <3>5, <3>6, FlowBegins
    <3> QED BY <1>12, <2>1, <3>4, <3>7 DEF FlowOK
  <2> QED BY <1>7, <2>3, <2>4
<1>23. FlowsOK'
  BY <1>12, <1>22 DEF FlowsOK
<1>24. QuietOK'
  BY <1>1, <1>7, <1>12, <1>14 DEF StreamsOK, QuietOK
<1> QED BY <1>7, <1>8, <1>12, <1>15, <1>16, <1>17, <1>18, <1>19, <1>20, <1>21, <1>23, <1>24
        DEF DurableInv, StreamsOK, ProtocolOK, CallOK, RpcOK


-----------------------------------------------------------------------------
(* The main server's side, step by step.                                   *)

\* Whatever leaves the stream manager alone.
LEMMA SenderRests ==
    ASSUME SmInv, UNCHANGED smVars
    PROVE  /\ SmInv' /\ Grown /\ SendPos' = SendPos
           /\ UNCHANGED <<window, terminalEvent, eofPos, connected, streamId, rwndSize,
                          sentNotAcked, startSeq, connecting>>
<1>1. UNCHANGED <<window, terminalEvent, eofPos, connected, streamId, rwndSize,
                  sentNotAcked, startSeq, connecting>>
  BY DEF smVars, windowVars, ptyVars, clientVars, sentVars
<1> QED BY <1>1, StutterKeeps, SameOutput DEF SendPos

\* A step of the broker, or of an output loop, at one stream.
LEMMA OneStream ==
    ASSUME DurableInv, UNCHANGED smVars,
           UNCHANGED <<link, writers, jm, call, request, reply, lastStream, current, attempt>>,
           TypesOK', known' \subseteq known, NEW g \in Streams,
           \A h \in Streams : h # g => /\ wire'[h] = wire[h] /\ ackWire'[h] = ackWire[h]
                                       /\ readers'[h] = readers[h]
                                       /\ loops'[h] = loops[h] /\ taken'[h] = taken[h],
           Range(wire'[g]) \subseteq Range(wire[g]),
           ReaderOK(readers'[g], window.tail, terminalEvent, eofPos),
           Buffered(readers'[g]) <= ReadWindow,
           LoopOK(loops'[g], taken'[g], readers'[g], window.tail, terminalEvent, eofPos),
           loops[g].at = "none" => loops'[g].at = "none",
           g \in known' => FlowOK(g)',
           wire[g] = <<>> /\ readers[g].ooo = {} /\ readers[g].buffer = <<>> =>
               wire'[g] = <<>> /\ readers'[g].ooo = {} /\ readers'[g].buffer = <<>>,
           (ackWire[g] = <<>> => ackWire'[g] = <<>>)
               \/ (g <= lastStream /\ ~(g = lastStream /\ attempt.at \in {"stat", "create"})),
           g = streamId /\ Corked => NoData(Range(wire'[g]), readers'[g]),
           g = lastStream /\ attempt.at = "prepare" => readers'[g].nextSeq = readers[g].nextSeq,
           g = lastStream /\ attempt.at \in {"prepare", "start", "starting"} => ~readers'[g].closed,
           g = lastStream /\ attempt.at \in {"start", "starting"} => readers'[g].nextSeq <= window.tail
    PROVE  DurableInv' /\ Grown
<1>1. /\ SmInv /\ TypesOK /\ ProtocolOK /\ PacketsOK /\ ReadersOK /\ WindowRespected
      /\ LoopsOK /\ FlowsOK /\ QuietOK
  BY DEF DurableInv, StreamsOK
<1>2. /\ SmInv' /\ Grown /\ SendPos' = SendPos
      /\ UNCHANGED <<window, terminalEvent, eofPos, connected, streamId, rwndSize,
                     sentNotAcked, startSeq, connecting>>
  BY <1>1, SenderRests
<1>3. ProtocolOK'
  <2>1. \A h \in Streams : loops[h].at = "none" => loops'[h].at = "none"
    OBVIOUS
  <2>2. window.head <= window'.head /\ window'.head \in Nat
    BY <1>1, <1>2, WindowFacts
  <2> QED BY <1>1, <1>2, <2>1, <2>2, ProtocolKept
<1>4. PacketsOK'
  <2>1. SUFFICES ASSUME NEW h \in Streams, NEW p \in Range(wire'[h])
                 PROVE  PacketOK(p, window.tail, terminalEvent, eofPos)
    BY <1>2 DEF PacketsOK
  <2>2. p \in Range(wire[h])
    OBVIOUS
  <2> QED BY <1>1, <2>2 DEF PacketsOK
<1>5. ReadersOK'
  <2>1. SUFFICES ASSUME NEW h \in Streams
                 PROVE  ReaderOK(readers'[h], window.tail, terminalEvent, eofPos)
    BY <1>2 DEF ReadersOK
  <2> QED BY <1>1 DEF ReadersOK
<1>6. WindowRespected'
  BY <1>1 DEF WindowRespected
<1>7. LoopsOK'
  <2>1. SUFFICES ASSUME NEW h \in Streams
                 PROVE  LoopOK(loops'[h], taken'[h], readers'[h], window.tail, terminalEvent, eofPos)
    BY <1>2 DEF LoopsOK
  <2> QED BY <1>1 DEF LoopsOK
<1>8. FlowsOK'
  <2>1. SUFFICES ASSUME NEW h \in known' PROVE FlowOK(h)'
    BY DEF FlowsOK
  <2>2. CASE h = g
    BY <2>2
  <2>3. CASE h # g
    <3>1. h \in Streams /\ h \in known
      BY <1>1 DEF TypesOK, MainTypes
    <3>2. FlowOK(h)
      BY <1>1, <3>1 DEF FlowsOK
    <3>3. wire'[h] = wire[h] /\ ackWire'[h] = ackWire[h] /\ readers'[h] = readers[h]
      BY <2>3, <3>1
    <3> QED BY <1>2, <3>2, <3>3 DEF FlowOK
  <2> QED BY <2>2, <2>3
<1>9. QuietOK'
  <2>1. Corked' = Corked
    BY <1>2 DEF Corked, InCall
  <2>2. ASSUME NEW h \in Streams, h > streamId
        PROVE  wire'[h] = <<>> /\ readers'[h].ooo = {} /\ readers'[h].buffer = <<>>
    BY <1>1, <2>2 DEF QuietOK
  <2>3. ASSUME NEW h \in Streams, h > lastStream \/ (h = lastStream /\ attempt.at \in {"stat", "create"})
        PROVE  ackWire'[h] = <<>>
    <3>1. ackWire[h] = <<>>
      BY <1>1, <2>3 DEF QuietOK
    <3>2. CASE h # g
      BY <3>1, <3>2
    <3>3. CASE h = g
      <4>1. lastStream \in Streams
        BY <1>1, StreamNumbers
      <4>2. ~(g <= lastStream /\ ~(g = lastStream /\ attempt.at \in {"stat", "create"}))
        BY <2>3, <3>3, <4>1 DEF Streams
      <4> QED BY <3>1, <3>3, <4>2
    <3> QED BY <3>2, <3>3
  <2>4. ASSUME Corked PROVE NoData(Range(wire'[streamId]), readers'[streamId])
    <3>1. streamId \in Streams /\ NoData(Range(wire[streamId]), readers[streamId])
      BY <1>1, <2>4, StreamNumbers DEF QuietOK
    <3> QED BY <2>4, <3>1
  <2>5. lastStream \in Streams
    BY <1>1, StreamNumbers
  <2>6. attempt.at = "prepare" => readers'[lastStream].nextSeq = attempt.seq
    BY <1>1, <2>5 DEF QuietOK
  <2>7. attempt.at \in {"prepare", "start", "starting"} => ~readers'[lastStream].closed
    BY <1>1, <2>5 DEF QuietOK
  <2>8. attempt.at \in {"start", "starting"} => readers'[lastStream].nextSeq <= window.tail
    BY <1>1, <2>5 DEF QuietOK
  <2> QED BY <1>2, <2>1, <2>2, <2>3, <2>4, <2>6, <2>7, <2>8 DEF QuietOK
<1> QED BY <1>2, <1>3, <1>4, <1>5, <1>6, <1>7, <1>8, <1>9 DEF DurableInv, StreamsOK


\* Acks that were no promise too much stay so as the reader goes on.
LEMMA AcksStay ==
    ASSUME NEW acks \in SUBSET AckRecords, NEW new, NEW r0 \in Readers, NEW r \in Readers,
           AcksOK(acks, r0), r0.nextSeq <= r.nextSeq, Consumed(r0) <= Consumed(r),
           \A a \in new : \/ a \in acks
                          \/ a.seq = r.nextSeq /\ a.seq + a.rwnd = Consumed(r) + ReadWindow
    PROVE  AcksOK(new, r)
<1>1. SUFFICES ASSUME NEW a \in new
               PROVE  a.seq <= r.nextSeq /\ a.seq + a.rwnd <= Consumed(r) + ReadWindow
  BY DEF AcksOK
<1>2. /\ r0.nextSeq \in Nat /\ r.nextSeq \in Nat /\ Consumed(r0) \in Int /\ Consumed(r) \in Int
      /\ ReadWindow \in Nat
  BY ReaderFields, ReaderAssumption
<1>3. CASE a \in acks
  <2>1. a.seq \in Nat /\ a.rwnd \in Nat
    BY <1>3 DEF AckRecords
  <2>2. a.seq <= r0.nextSeq /\ a.seq + a.rwnd <= Consumed(r0) + ReadWindow
    BY <1>3 DEF AcksOK
  <2> DEFINE c0 == Consumed(r0)
             c == Consumed(r)
  <2>3. c0 \in Int /\ c \in Int /\ c0 <= c /\ a.seq + a.rwnd <= c0 + ReadWindow
    BY <1>2, <2>2
  <2> HIDE DEF c0, c
  <2>4. a.seq <= r.nextSeq /\ a.seq + a.rwnd <= c + ReadWindow
    BY <1>2, <2>1, <2>2, <2>3
  <2> QED BY <2>4 DEF c
<1>4. CASE a.seq = r.nextSeq /\ a.seq + a.rwnd = Consumed(r) + ReadWindow
  BY <1>2, <1>4
<1> QED BY <1>3, <1>4

\* processRecvData, for a reader that is registered.
LEMMA ReaderReceives ==
    ASSUME DurableInv, UNCHANGED smVars, NEW g \in known, NEW i \in DOMAIN wire[g],
           UNCHANGED <<link, writers, jm, call, request, reply, lastStream, current, attempt,
                       loops, taken, file, gap, disk>>,
           wire' = [wire EXCEPT ![g] = RemoveAt(@, i)],
           ReaderBecomes(g, RecvData(readers[g], g, wire[g][i]))
    PROVE  /\ DurableInv' /\ Grown
           /\ \A h \in Streams : Consumed(readers'[h]) = Consumed(readers[h])
<1>1. /\ SmInv /\ TypesOK /\ ProtocolOK /\ PacketsOK /\ ReadersOK /\ WindowRespected
      /\ LoopsOK /\ FlowsOK /\ QuietOK
  BY DEF DurableInv, StreamsOK
<1> DEFINE w == wire[g]
           p == w[i]
           rest == RemoveAt(w, i)
           packets == Range(rest)
           r == readers[g]
           out == RecvData(r, g, p)
<1>2. /\ g \in Streams /\ w \in Seq(Packets) /\ r \in Readers /\ wire \in [Streams -> Seq(Packets)]
      /\ AckTypes /\ readers \in [Streams -> Readers]
  BY <1>1 DEF TypesOK, MainTypes, LinkTypes
<1>3. FlowOK(g)
  BY <1>1 DEF FlowsOK
<1>4. PICK base \in Nat :
         /\ Bound(Range(w), r, base)
         /\ connected /\ streamId = g =>
              Sender(Range(w), r, base, SendPos, window.head + rwndSize)
  BY <1>3 DEF FlowOK
<1>5. /\ rest \in Seq(Packets) /\ p \in Packets /\ Range(w) = packets \cup {p} /\ p \in Range(w)
  BY <1>2, RestOf
<1>6. Ordered(rest) /\ \A q \in packets : q \in Packets /\ Apart(p, q)
  BY <1>2, <1>3, RestInOrder DEF FlowOK
<1>7. /\ PacketOK(p, window.tail, terminalEvent, eofPos)
      /\ Flow(packets \cup {p}, r, base, window.tail, terminalEvent, eofPos)
  BY <1>1, <1>2, <1>3, <1>4, <1>5 DEF PacketsOK, ReadersOK, FlowOK, Flow
<1>8. /\ Flow(packets, out.reader, base, window.tail, terminalEvent, eofPos)
      /\ Grows(packets \cup {p}, r, out.reader) /\ Acked(out, g)
  <2> HIDE DEF w, rest, packets, r, p
  <2> QED BY <1>6, <1>7, RecvDataKeeps
<1>9. /\ wire' = [wire EXCEPT ![g] = rest] /\ ReaderBecomes(g, out)
  OBVIOUS
<1> HIDE DEF out
<1>10. /\ out.reader \in Readers /\ Len(out.reader.buffer) <= ReadWindow
       /\ ReaderOK(out.reader, window.tail, terminalEvent, eofPos)
       /\ Clear(packets, out.reader) /\ Bound(packets, out.reader, base)
  BY <1>8 DEF Flow, ReaderOK
<1>11. /\ AckTypes' /\ readers' \in [Streams -> Readers] /\ readers'[g] = out.reader
       /\ known' \subseteq known
       /\ \A h \in Streams : h # g => readers'[h] = readers[h] /\ ackWire'[h] = ackWire[h]
       /\ \A a \in Range(ackWire'[g]) :
            \/ a \in Range(ackWire[g])
            \/ /\ a.seq = out.reader.nextSeq
               /\ a.seq + a.rwnd = Consumed(out.reader) + ReadWindow
  BY <1>2, <1>8, <1>9, <1>10, ReaderBecomesWhat
<1>12. /\ wire' \in [Streams -> Seq(Packets)] /\ wire'[g] = rest
       /\ \A h \in Streams : h # g => wire'[h] = wire[h]
  <2> HIDE DEF rest
  <2> QED BY <1>2, <1>5, <1>9
<1>13. TypesOK'
  BY <1>1, <1>11, <1>12 DEF TypesOK, LinkTypes, JobTypes, MainTypes, FileTypes
<1>14. /\ r.nextSeq \in Nat /\ out.reader.nextSeq \in Nat /\ window.tail \in Nat
       /\ r.ooo \subseteq Packets
       /\ out.reader.ooo \subseteq packets \cup {p} \cup r.ooo
       /\ out.reader.closed = r.closed /\ Consumed(out.reader) = Consumed(r)
       /\ r.nextSeq <= out.reader.nextSeq
       /\ \/ out.reader.nextSeq = r.nextSeq
          \/ \E q \in DataOf(packets \cup {p} \cup r.ooo) : out.reader.nextSeq = PacketEnd(q)
  BY <1>1, <1>2, <1>8, <1>10, ReaderFields, WindowFacts DEF Grows
<1>15. r.nextSeq <= window.tail => out.reader.nextSeq <= window.tail
  <2>1. \A q \in packets \cup {p} \cup r.ooo : PacketEnd(q) <= window.tail
    BY <1>1, <1>2, <1>5 DEF PacketsOK, ReadersOK, ReaderOK, PacketOK
  <2> QED BY <1>14, <2>1 DEF DataOf
<1>16. LoopOK(loops'[g], taken'[g], readers'[g], window.tail, terminalEvent, eofPos)
  <2>1. LoopOK(loops[g], taken[g], r, window.tail, terminalEvent, eofPos)
    BY <1>1, <1>2 DEF LoopsOK
  <2>2. loops'[g] = loops[g] /\ taken'[g] = taken[g]
    OBVIOUS
  <2> HIDE DEF r
  <2> QED BY <1>11, <1>14, <1>15, <2>1, <2>2 DEF LoopOK
<1>17. Buffered(readers'[g]) <= ReadWindow
  BY <1>8, <1>11, WindowFits
<1>18. FlowOK(g)'
  <2>1. AcksOK(Range(ackWire'[g]), out.reader)
    <3>1. Range(ackWire[g]) \in SUBSET AckRecords /\ AcksOK(Range(ackWire[g]), r)
      BY <1>2, <1>3 DEF AckTypes, FlowOK, Range
    <3>2. Consumed(r) <= Consumed(out.reader)
      <4>1. Consumed(r) \in Int
        BY <1>2, ReaderFields
      <4> HIDE DEF r
      <4> QED BY <1>14, <4>1
    <3> HIDE DEF r
    <3> QED BY <1>2, <1>10, <1>11, <1>14, <3>1, <3>2, AcksStay
  <2>2. ASSUME connected, streamId = g
        PROVE  Sender(packets, out.reader, base, SendPos, window.head + rwndSize)
    <3>1. Sender(packets \cup {p}, r, base, SendPos, window.head + rwndSize)
      BY <1>4, <1>5, <2>2
    <3>2. \A q \in packets \cup {p} \cup r.ooo : PacketEnd(q) <= SendPos
      BY <3>1 DEF Sender
    <3>3. r.nextSeq <= SendPos
      BY <3>1 DEF Sender
    <3>4. out.reader.nextSeq <= SendPos
      BY <1>14, <3>2, <3>3 DEF DataOf
    <3>5. \A q \in packets \cup out.reader.ooo : PacketEnd(q) <= SendPos
      BY <1>14, <3>2
    <3> QED BY <3>1, <3>4, <3>5 DEF Sender
  <2>3. UNCHANGED <<window, connected, streamId, rwndSize>> /\ SendPos' = SendPos
    BY <1>1, SenderRests
  <2> QED BY <1>6, <1>10, <1>11, <1>12, <2>1, <2>2, <2>3 DEF FlowOK
<1>19. wire[g] # <<>>
  BY <1>2
<1>20. g <= streamId
  <2>1. streamId \in Streams
    BY <1>1, StreamNumbers
  <2> QED BY <1>1, <1>2, <1>19, <2>1 DEF QuietOK, Streams
<1>21. g <= lastStream /\ ~(g = lastStream /\ attempt.at \in {"stat", "create"})
  <2>1. streamId <= lastStream /\ streamId \in Streams /\ lastStream \in Streams
    BY <1>1, StreamNumbers
  <2>2. attempt.at \in {"stat", "create"} => streamId < lastStream
    BY <1>1, ProtocolParts DEF AttemptOK, Behind
  <2> QED BY <1>2, <1>20, <2>1, <2>2 DEF Streams
<1>22. NoData(Range(w), r) => /\ NoData(Range(wire'[g]), readers'[g])
                              /\ readers'[g].nextSeq = r.nextSeq
  <2>1. SUFFICES ASSUME NoData(packets \cup {p}, r)
                 PROVE  NoData(packets, out.reader) /\ out.reader.nextSeq = r.nextSeq
    BY <1>5, <1>11, <1>12
  <2>2. DataOf(packets \cup {p} \cup r.ooo) = {} /\ r.buffer = <<>>
    BY <2>1 DEF NoData
  <2>3. out.reader.nextSeq = r.nextSeq
    BY <1>14, <2>2
  <2>4. DataOf(packets \cup out.reader.ooo) = {}
    BY <1>14, <2>2 DEF DataOf
  <2>5. out.reader.buffer = <<>>
    <3>1. Len(out.reader.buffer) = Len(r.buffer)
      <4> DEFINE m == Len(out.reader.buffer)
                 n == Len(r.buffer)
      <4>1. m \in Nat /\ n \in Nat /\ out.reader.nextSeq - m = r.nextSeq - n
        BY <1>2, <1>10, <1>14, ReaderFields DEF Consumed
      <4> HIDE DEF m, n
      <4>2. m = n
        BY <1>14, <2>3, <4>1
      <4> QED BY <4>2 DEF m, n
    <3>2. out.reader.buffer \in Seq(Nat)
      BY <1>10, ReaderFields
    <3> QED BY <2>2, <3>1, <3>2
  <2> QED BY <2>3, <2>4, <2>5 DEF NoData
<1>23. g = streamId /\ Corked => NoData(Range(wire'[g]), readers'[g])
  BY <1>1, <1>22 DEF QuietOK
<1>24. g = lastStream /\ attempt.at = "prepare" => readers'[g].nextSeq = readers[g].nextSeq
  <2>1. SUFFICES ASSUME g = lastStream, attempt.at = "prepare" PROVE NoData(Range(w), r)
    BY <1>22
  <2>2. streamId < lastStream \/ (streamId = lastStream /\ Corked)
    BY <1>1, <2>1, ProtocolParts DEF AttemptOK
  <2>3. streamId = lastStream /\ Corked
    <3>1. streamId \in Streams
      BY <1>1, StreamNumbers
    <3> QED BY <1>2, <1>20, <2>1, <2>2, <3>1 DEF Streams
  <2> QED BY <1>1, <2>1, <2>3 DEF QuietOK
<1>25. /\ g = lastStream /\ attempt.at \in {"prepare", "start", "starting"} => ~readers'[g].closed
       /\ g = lastStream /\ attempt.at \in {"start", "starting"} => readers'[g].nextSeq <= window.tail
  BY <1>1, <1>11, <1>14, <1>15 DEF QuietOK
<1>26. \A h \in Streams : h # g => /\ wire'[h] = wire[h] /\ ackWire'[h] = ackWire[h]
                                   /\ readers'[h] = readers[h]
                                   /\ loops'[h] = loops[h] /\ taken'[h] = taken[h]
  BY <1>11, <1>12
<1>27. Range(wire'[g]) \subseteq Range(wire[g]) /\ loops' = loops /\ wire[g] = w
  BY <1>5, <1>12
<1>28. ReaderOK(readers'[g], window.tail, terminalEvent, eofPos)
  BY <1>10, <1>11
<1>29. \A h \in Streams : Consumed(readers'[h]) = Consumed(readers[h])
  <2>1. Consumed(readers'[g]) = Consumed(readers[g])
    BY <1>11, <1>14
  <2> HIDE DEF w, p, rest, packets, r
  <2> QED BY <1>26, <2>1
<1> HIDE DEF w, p, rest, packets, r
<1>30. DurableInv' /\ Grown
  BY <1>2, <1>11, <1>13, <1>16, <1>17, <1>18, <1>19, <1>21, <1>23, <1>24, <1>25, <1>26, <1>27, <1>28, OneStream
<1> QED BY <1>29, <1>30


\* processRecvData, without a reader.
LEMMA PacketRefused ==
    ASSUME DurableInv, UNCHANGED smVars, NEW g \in Streams, g \notin known, NEW i \in DOMAIN wire[g],
           UNCHANGED <<link, writers, jm, call, request, reply, lastStream, current, attempt,
                       loops, taken, file, gap, disk>>,
           wire' = [wire EXCEPT ![g] = RemoveAt(@, i)],
           RefusePacket(g, wire[g][i])
    PROVE  DurableInv' /\ Grown
<1>1. /\ SmInv /\ TypesOK /\ ProtocolOK /\ PacketsOK /\ ReadersOK /\ WindowRespected
      /\ LoopsOK /\ FlowsOK /\ QuietOK
  BY DEF DurableInv, StreamsOK
<1> DEFINE w == wire[g]
           p == w[i]
           rest == RemoveAt(w, i)
           ack == [id |-> g, seq |-> p.seq, rwnd |-> 0, fin |-> FALSE, cancel |-> TRUE]
<1>2. /\ w \in Seq(Packets) /\ wire \in [Streams -> Seq(Packets)]
      /\ AckTypes /\ ackWire \in [Streams -> Seq(AckRecords)] /\ readers \in [Streams -> Readers]
  BY <1>1 DEF TypesOK, MainTypes, LinkTypes, AckTypes
<1>3. rest \in Seq(Packets) /\ p \in Packets /\ Range(rest) \subseteq Range(w)
  BY <1>2, RestOf
<1>4. /\ wire' \in [Streams -> Seq(Packets)] /\ wire'[g] = rest
      /\ \A h \in Streams : h # g => wire'[h] = wire[h]
  <2>1. wire' = [wire EXCEPT ![g] = rest]
    OBVIOUS
  <2> HIDE DEF rest
  <2> QED BY <1>2, <1>3, <2>1
<1>5. ack \in AckRecords /\ ack.id = g
  BY <1>3 DEF AckRecords, Packets
<1>6. /\ readers' = readers /\ known' = known
      /\ ackWire' = ackWire \/ ackWire' = Sent(ackWire, g, <<ack>>)
  BY DEF RefusePacket, readerVars
<1> HIDE DEF ack
<1>7. AckTypes' /\ \A h \in Streams : h # g => ackWire'[h] = ackWire[h]
  <2>1. CASE ackWire' = ackWire
    BY <1>2, <2>1 DEF AckTypes
  <2>2. CASE ackWire' = Sent(ackWire, g, <<ack>>)
    <3>1. /\ ackWire' \in [Streams -> Seq(AckRecords)]
          /\ \A h \in Streams : h # g => ackWire'[h] = ackWire[h]
          /\ Range(ackWire'[g]) \subseteq Range(ackWire[g]) \cup {ack}
      BY <1>2, <1>5, <2>2, AckSent
    <3>2. \A h \in Streams : \A a \in Range(ackWire[h]) : a.id = h
      BY <1>2 DEF AckTypes
    <3>3. \A h \in Streams : \A a \in Range(ackWire'[h]) : a.id = h
      BY <1>2, <1>5, <3>1, <3>2 DEF AckTypes
    <3> QED BY <3>1, <3>3 DEF AckTypes
  <2> QED BY <1>6, <2>1, <2>2
<1>8. TypesOK'
  BY <1>1, <1>4, <1>6, <1>7 DEF TypesOK, LinkTypes, JobTypes, MainTypes, FileTypes
<1>9. w # <<>>
  BY <1>2
<1>10. g <= lastStream /\ ~(g = lastStream /\ attempt.at \in {"stat", "create"})
  <2>1. streamId <= lastStream /\ streamId \in Streams /\ lastStream \in Streams
    BY <1>1, StreamNumbers
  <2>2. attempt.at \in {"stat", "create"} => streamId < lastStream
    BY <1>1, ProtocolParts DEF AttemptOK, Behind
  <2>3. g <= streamId
    BY <1>1, <1>9, <2>1 DEF QuietOK, Streams
  <2> QED BY <2>1, <2>2, <2>3 DEF Streams
<1>11. g = streamId /\ Corked => NoData(Range(wire'[g]), readers'[g])
  <2>1. NoData(Range(w), readers[g]) => NoData(Range(rest), readers[g])
    BY <1>3 DEF NoData, DataOf
  <2> QED BY <1>1, <1>4, <1>6, <2>1 DEF QuietOK
<1>12. /\ ReaderOK(readers'[g], window.tail, terminalEvent, eofPos)
       /\ Buffered(readers'[g]) <= ReadWindow
       /\ LoopOK(loops'[g], taken'[g], readers'[g], window.tail, terminalEvent, eofPos)
       /\ g = lastStream /\ attempt.at \in {"prepare", "start", "starting"} => ~readers'[g].closed
       /\ g = lastStream /\ attempt.at \in {"start", "starting"} => readers'[g].nextSeq <= window.tail
  BY <1>1, <1>6 DEF ReadersOK, WindowRespected, LoopsOK, QuietOK
<1>13. /\ \A h \in Streams : h # g => /\ wire'[h] = wire[h] /\ ackWire'[h] = ackWire[h]
                                      /\ readers'[h] = readers[h]
                                      /\ loops'[h] = loops[h] /\ taken'[h] = taken[h]
       /\ Range(wire'[g]) \subseteq Range(wire[g]) /\ wire[g] # <<>> /\ loops' = loops
       /\ g \notin known' /\ known' \subseteq known /\ readers'[g] = readers[g]
  BY <1>3, <1>4, <1>6, <1>7, <1>9
<1> HIDE DEF w, p, rest
<1> QED BY <1>8, <1>10, <1>11, <1>12, <1>13, OneStream

\* What a connection delivers to the main server.
LEMMA MainReceivesStep ==
    ASSUME DurableInv, MainReceives
    PROVE  /\ DurableInv' /\ Grown
           /\ \A h \in Streams : Consumed(readers'[h]) = Consumed(readers[h])
<1> PICK g \in Streams : \E i \in Deliverable(wire[g]) :
        /\ wire' = [wire EXCEPT ![g] = RemoveAt(@, i)]
        /\ IF g \in known
           THEN ReaderBecomes(g, RecvData(readers[g], g, wire[g][i]))
           ELSE RefusePacket(g, wire[g][i])
  BY DEF MainReceives
<1>1. PICK i \in Deliverable(wire[g]) :
        /\ wire' = [wire EXCEPT ![g] = RemoveAt(@, i)]
        /\ IF g \in known
           THEN ReaderBecomes(g, RecvData(readers[g], g, wire[g][i]))
           ELSE RefusePacket(g, wire[g][i])
  OBVIOUS
<1>2. /\ UNCHANGED smVars
      /\ UNCHANGED <<link, writers, jm, call, request, reply, lastStream, current, attempt,
                     loops, taken, file, gap, disk>>
  BY DEF MainReceives, MainUnchanged, jmVars, rpcVars, mainVars, loopVars, fileVars
<1>3. i \in DOMAIN wire[g]
  <2>1. wire[g] \in Seq(Packets)
    BY DEF DurableInv, TypesOK, LinkTypes
  <2> QED BY <2>1, DeliveredWasSent
<1>4. CASE g \in known
  BY <1>1, <1>2, <1>3, <1>4, ReaderReceives
<1>5. CASE g \notin known
  <2>1. readers' = readers
    BY <1>1, <1>5 DEF RefusePacket, readerVars
  <2> QED BY <1>1, <1>2, <1>3, <1>5, <2>1, PacketRefused
<1> QED BY <1>4, <1>5


-----------------------------------------------------------------------------
(* The output loops. *)

\* What a reader holds is finitely much.
LEMMA HeldIsFinite ==
    ASSUME NEW tail \in Nat, NEW event, NEW end, NEW r, ReaderOK(r, tail, event, end)
    PROVE  Cardinality(UNION {{pkt} \X (1 .. pkt.n) : pkt \in r.ooo}) \in Nat
<1> DEFINE held == UNION {{pkt} \X (1 .. pkt.n) : pkt \in r.ooo}
           all == r.ooo \X (1 .. tail)
<1>1. IsFiniteSet(r.ooo) /\ IsFiniteSet(1 .. tail)
  BY FS_Interval DEF ReaderOK
<1>2. IsFiniteSet(all)
  BY <1>1, FS_Product
<1>3. held \subseteq all
  <2>1. SUFFICES ASSUME NEW p \in r.ooo, NEW x \in {p} \X (1 .. p.n) PROVE x \in all
    OBVIOUS
  <2>2. p.seq \in Nat /\ p.n \in Nat /\ p.seq + p.n <= tail
    BY DEF ReaderOK, PacketOK, PacketEnd, Packets
  <2>3. 1 .. p.n \subseteq 1 .. tail
    BY <2>2
  <2> QED BY <2>3
<1> HIDE DEF held, all
<1>4. IsFiniteSet(held)
  BY <1>2, <1>3, FS_Subset
<1>5. Cardinality(held) \in Nat
  BY <1>4, FS_CardinalityType
<1> QED BY <1>5 DEF held

\* A loop is at work on a stream that no attempt is under way for.
LEMMA LoopAtWork ==
    ASSUME TypesOK, SmInv, ProtocolOK, NEW g \in Streams, loops[g].at # "none"
    PROVE  g <= lastStream /\ (g = lastStream => attempt.at = "idle")
<1>1. /\ attempt.at # "idle" => loops[lastStream].at = "none"
      /\ \A h \in Streams : h > lastStream => loops[h].at = "none"
  BY ProtocolParts DEF AttemptOK
<1>2. lastStream \in Streams
  BY StreamNumbers
<1> QED BY <1>1, <1>2 DEF Streams

\* A step of an output loop, which may take bytes from its reader, or close it.
LEMMA LoopActs ==
    ASSUME DurableInv, UNCHANGED smVars, NEW g \in Streams, loops[g].at # "none",
           UNCHANGED <<link, wire, writers, jm, call, request, reply, lastStream, current, attempt>>,
           FileTypes', AckTypes', readers' \in [Streams -> Readers], known' \subseteq known,
           loops' \in [Streams -> Loops], taken' \in [Streams -> Seq(Nat)],
           \A h \in Streams : h # g => /\ ackWire'[h] = ackWire[h] /\ readers'[h] = readers[h]
                                       /\ loops'[h] = loops[h] /\ taken'[h] = taken[h],
           ReaderOK(readers'[g], window.tail, terminalEvent, eofPos),
           readers'[g].nextSeq = readers[g].nextSeq, readers'[g].ooo = readers[g].ooo,
           Consumed(readers[g]) <= Consumed(readers'[g]),
           readers[g].buffer = <<>> => readers'[g].buffer = <<>>,
           \A a \in Range(ackWire'[g]) :
                \/ a \in Range(ackWire[g])
                \/ /\ a.seq = readers'[g].nextSeq
                   /\ a.seq + a.rwnd = Consumed(readers'[g]) + ReadWindow,
           LoopOK(loops'[g], taken'[g], readers'[g], window.tail, terminalEvent, eofPos)
    PROVE  DurableInv' /\ Grown
<1>1. /\ SmInv /\ TypesOK /\ ProtocolOK /\ PacketsOK /\ ReadersOK /\ WindowRespected
      /\ LoopsOK /\ FlowsOK /\ QuietOK
  BY DEF DurableInv, StreamsOK
<1> DEFINE r0 == readers[g]
           r == readers'[g]
<1>2. r0 \in Readers /\ r \in Readers /\ wire[g] \in Seq(Packets)
  BY <1>1 DEF TypesOK, MainTypes, LinkTypes
<1>3. TypesOK'
  BY <1>1 DEF TypesOK, LinkTypes, JobTypes, MainTypes
<1>4. g <= lastStream /\ (g = lastStream => attempt.at = "idle")
  BY <1>1, LoopAtWork
<1>5. Buffered(r) <= ReadWindow
  <2> DEFINE c == Cardinality(UNION {{pkt} \X (1 .. pkt.n) : pkt \in r0.ooo})
             m == Len(r0.buffer)
             n == Len(r.buffer)
  <2>1. c \in Nat
    BY <1>1, WindowFacts, HeldIsFinite DEF ReadersOK
  <2>2. /\ m \in Nat /\ n \in Nat /\ r0.nextSeq \in Nat /\ r.nextSeq = r0.nextSeq
        /\ r0.nextSeq - m <= r.nextSeq - n
    BY <1>2, ReaderFields DEF Consumed
  <2>3. Buffered(r0) = m + c /\ Buffered(r0) <= ReadWindow
    BY <1>1 DEF WindowRespected, Buffered
  <2>4. Buffered(r) = n + c
    BY DEF Buffered
  <2> HIDE DEF c, m, n
  <2>5. n <= m
    BY <2>2
  <2> QED BY <2>1, <2>2, <2>3, <2>4, <2>5, ReaderAssumption
<1>6. g \in known' => FlowOK(g)'
  <2>1. SUFFICES ASSUME g \in known PROVE FlowOK(g)'
    OBVIOUS
  <2>2. FlowOK(g)
    BY <1>1, <2>1 DEF FlowsOK
  <2>3. PICK base \in Nat :
         /\ Bound(Range(wire[g]), r0, base)
         /\ connected /\ streamId = g =>
              Sender(Range(wire[g]), r0, base, SendPos, window.head + rwndSize)
    BY <2>2 DEF FlowOK
  <2>4. Clear(Range(wire[g]), r) /\ Bound(Range(wire[g]), r, base)
    <3>1. Clear(Range(wire[g]), r0)
      BY <2>2 DEF FlowOK
    <3>2. /\ r.nextSeq = r0.nextSeq /\ r.ooo = r0.ooo /\ Consumed(r0) <= Consumed(r)
          /\ (r0.buffer = <<>> => r.buffer = <<>>)
      OBVIOUS
    <3> HIDE DEF r, r0
    <3> QED BY <1>2, <2>3, <3>1, <3>2, FlowStays
  <2>5. AcksOK(Range(ackWire'[g]), r)
    <3>1. Range(ackWire[g]) \in SUBSET AckRecords /\ AcksOK(Range(ackWire[g]), r0)
      BY <1>1, <2>2 DEF TypesOK, AckTypes, FlowOK, Range
    <3>2. r0.nextSeq <= r.nextSeq /\ Consumed(r0) <= Consumed(r)
      BY <1>2, ReaderFields
    <3>3. \A a \in Range(ackWire'[g]) :
                \/ a \in Range(ackWire[g])
                \/ a.seq = r.nextSeq /\ a.seq + a.rwnd = Consumed(r) + ReadWindow
      OBVIOUS
    <3> HIDE DEF r, r0
    <3> QED BY <1>2, <3>1, <3>2, <3>3, AcksStay
  <2>6. connected /\ streamId = g =>
              Sender(Range(wire[g]), r, base, SendPos, window.head + rwndSize)
    BY <2>3 DEF Sender
  <2>7. UNCHANGED <<window, connected, streamId, rwndSize>> /\ SendPos' = SendPos
    BY <1>1, SenderRests
  <2> QED BY <2>2, <2>4, <2>5, <2>6, <2>7 DEF FlowOK
<1>7. g = streamId /\ Corked => NoData(Range(wire'[g]), readers'[g])
  BY <1>1 DEF QuietOK, NoData
<1>8. /\ ~(g = lastStream /\ attempt.at \in {"stat", "create"})
      /\ ~(g = lastStream /\ attempt.at = "prepare")
      /\ ~(g = lastStream /\ attempt.at \in {"prepare", "start", "starting"})
      /\ ~(g = lastStream /\ attempt.at \in {"start", "starting"})
  BY <1>4
<1>9. Range(wire'[g]) \subseteq Range(wire[g])
      /\ \A h \in Streams : h # g => /\ wire'[h] = wire[h] /\ ackWire'[h] = ackWire[h]
                                     /\ readers'[h] = readers[h]
                                     /\ loops'[h] = loops[h] /\ taken'[h] = taken[h]
  OBVIOUS
<1>10. wire[g] = <<>> /\ readers[g].ooo = {} /\ readers[g].buffer = <<>> =>
               wire'[g] = <<>> /\ readers'[g].ooo = {} /\ readers'[g].buffer = <<>>
  OBVIOUS
<1>11. Buffered(readers'[g]) <= ReadWindow
  BY <1>5
<1> HIDE DEF r, r0
<1> QED BY <1>3, <1>4, <1>6, <1>7, <1>8, <1>9, <1>10, <1>11, OneStream


\* Two pieces of the output in a row.
LEMMA PiecesJoin ==
    ASSUME NEW t \in Seq(Nat), NEW b \in Seq(Nat)
    PROVE  /\ t \o b \in Seq(Nat) /\ Len(t) \in Nat /\ Len(b) \in Nat /\ Len(t \o b) = Len(t) + Len(b)
           /\ DOMAIN (t \o b) = 1 .. Len(t) + Len(b)
           /\ \A i \in 1 .. Len(t) : (t \o b)[i] = t[i]
           /\ \A i \in Len(t) + 1 .. Len(t) + Len(b) : (t \o b)[i] = b[i - Len(t)]
OBVIOUS

\* A loop that has read.
LEMMA LoopTakes ==
    ASSUME NEW tail \in Nat, NEW event, NEW end, NEW r0 \in Readers, NEW r \in Readers,
           NEW l0 \in Loops, NEW t \in Seq(Nat), NEW l \in Loops, NEW u, u = t \o l.bytes,
           LoopOK(l0, t, r0, tail, event, end), l0.at = "reading", l.at = "read", l.from = l0.from,
           r.nextSeq = r0.nextSeq, ~r.closed, Consumed(r) = Consumed(r0) + Len(l.bytes),
           \A i \in 1 .. Len(l.bytes) : l.bytes[i] = Consumed(r0) + i - 1,
           l.err # "none" => l.bytes = <<>> /\ event = l.err,
           l.err = "eof" => Consumed(r0) = end
    PROVE  LoopOK(l, u, r, tail, event, end)
<1> DEFINE b == l.bytes
           err == l.err
           c0 == Consumed(r0)
           c == Consumed(r)
           m == Len(t)
           n == Len(b)
           from == l0.from
<1>1. /\ l \in Loops /\ l.at = "read" /\ l.from = from /\ l.bytes = b /\ l.err = err
      /\ b \in Seq(Nat)
  BY DEF Loops
<1>2. /\ from \in Nat /\ from + m = c0 /\ r0.nextSeq <= tail /\ ~r0.closed
      /\ \A i \in DOMAIN t : t[i] = from + i - 1
      /\ m \in Nat /\ DOMAIN t = 1 .. m
  BY DEF LoopOK, Loops
<1>3. /\ u \in Seq(Nat) /\ n \in Nat /\ Len(u) = m + n /\ DOMAIN u = 1 .. m + n
      /\ \A i \in 1 .. m : u[i] = t[i]
      /\ \A i \in m + 1 .. m + n : u[i] = b[i - m]
      /\ DOMAIN b = 1 .. n
  <2>1. u = t \o b
    OBVIOUS
  <2> HIDE DEF m, n, b
  <2> QED BY <1>1, <2>1, PiecesJoin DEF m, n
<1>4. \A i \in 1 .. n : b[i] = c0 + i - 1
  OBVIOUS
<1>5. c = c0 + n /\ c \in Int /\ c0 \in Int
  BY ReaderFields
<1>6. /\ err # "none" => b = <<>> /\ event = err
      /\ err = "eof" => c0 = end /\ n = 0
      /\ r.nextSeq = r0.nextSeq /\ ~r.closed
  OBVIOUS
<1> HIDE DEF c0, c, m, n, from, b, err
<1>7. \A i \in 1 .. m + n : u[i] = from + i - 1
  <2>1. SUFFICES ASSUME NEW i \in 1 .. m + n PROVE u[i] = from + i - 1
    OBVIOUS
  <2>2. CASE i \in 1 .. m
    BY <1>2, <1>3, <2>2
  <2>3. CASE i \in m + 1 .. m + n
    <3>1. i - m \in 1 .. n /\ u[i] = b[i - m]
      BY <1>2, <1>3, <2>3
    <3>2. b[i - m] = c0 + (i - m) - 1
      BY <1>4, <3>1
    <3> QED BY <1>2, <1>5, <3>1, <3>2
  <2> QED BY <1>2, <1>3, <2>2, <2>3
<1>8. \A i \in 1 .. n : b[i] = from + (m + n) - n + i - 1
  <2>1. SUFFICES ASSUME NEW i \in 1 .. n PROVE b[i] = from + (m + n) - n + i - 1
    OBVIOUS
  <2>2. b[i] = c0 + i - 1
    BY <1>4
  <2> QED BY <1>2, <1>3, <2>2
<1>9. from + (m + n) = c /\ n <= m + n
  BY <1>2, <1>3, <1>5
<1>10. err = "eof" => from + (m + n) = end
  BY <1>2, <1>3, <1>6
<1>11. LoopOK(l, u, r, tail, event, end)
  <2>1. l.from + Len(u) = Consumed(r) /\ r.nextSeq <= tail
    BY <1>1, <1>2, <1>3, <1>6, <1>9 DEF c
  <2>2. \A i \in DOMAIN u : u[i] = l.from + i - 1
    BY <1>1, <1>3, <1>7
  <2>3. Len(l.bytes) = n
    BY <1>1 DEF n
  <2>4. \A i \in DOMAIN l.bytes : l.bytes[i] = l.from + Len(u) - Len(l.bytes) + i - 1
    BY <1>1, <1>3, <1>8, <2>3
  <2>5. l.err = "eof" => l.from + Len(u) = end
    BY <1>1, <1>3, <1>10
  <2> QED BY <1>1, <1>2, <1>3, <1>6, <1>9, <2>1, <2>2, <2>3, <2>4, <2>5 DEF LoopOK
<1> QED BY <1>11

\* reader.Read, in runOutputLoop.
LEMMA LoopReadsStep ==
    ASSUME DurableInv, NEW g \in Streams, LoopReads(g)
    PROVE  DurableInv' /\ Grown
<1>1. /\ SmInv /\ TypesOK /\ ReadersOK /\ LoopsOK
  BY DEF DurableInv, StreamsOK
<1>2. /\ UNCHANGED smVars
      /\ UNCHANGED <<link, wire, writers, jm, call, request, reply, lastStream, current, attempt>>
      /\ UNCHANGED <<file, gap, disk>>
      /\ loops[g].at = "reading"
  BY DEF LoopReads, MainUnchanged, jmVars, rpcVars, mainVars, fileVars
<1> DEFINE r == readers[g]
           out == Read(r, g)
           b == ReadBytesOf(r)
           err == ReadError(r)
           l == [at |-> "read", from |-> loops[g].from, bytes |-> b, err |-> err]
           t == taken[g] \o b
<1>3. /\ r \in Readers /\ loops \in [Streams -> Loops] /\ taken \in [Streams -> Seq(Nat)]
      /\ loops[g] \in Loops /\ taken[g] \in Seq(Nat) /\ AckTypes /\ readers \in [Streams -> Readers]
      /\ window.tail \in Nat
  BY <1>1, WindowFacts DEF TypesOK, MainTypes
<1>4. /\ ReaderOK(r, window.tail, terminalEvent, eofPos)
      /\ LoopOK(loops[g], taken[g], r, window.tail, terminalEvent, eofPos)
  BY <1>1 DEF ReadersOK, LoopsOK
<1>5. ~r.closed
  BY <1>2, <1>4 DEF LoopOK
<1>6. /\ b \in Seq(Nat) /\ Len(b) = ReadCount(r) /\ Len(b) \in Nat
      /\ \A i \in 1 .. Len(b) : b[i] = Consumed(r) + i - 1
      /\ err \in {"none", "eof", "error"}
      /\ err # "none" => b = <<>> /\ terminalEvent = err
      /\ err = "eof" => Consumed(r) = eofPos
  <2> HIDE DEF r
  <2>1. ReaderOK(r, window.tail, terminalEvent, eofPos)
    BY <1>4
  <2>2. /\ ReadCount(r) \in Nat /\ b \in Seq(Nat) /\ Len(b) = ReadCount(r)
        /\ \A i \in 1 .. ReadCount(r) : b[i] = Consumed(r) + i - 1
        /\ err # "none" => b = <<>>
        /\ ~r.closed => err \in {"none", "eof", "error"}
        /\ err \in {"eof", "error"} => terminalEvent = err
        /\ err = "eof" => Consumed(r) = eofPos
    BY <2>1, ReadReturns
  <2> HIDE DEF b, err
  <2> QED BY <1>5, <2>2
<1>7. /\ ReaderOK(out.reader, window.tail, terminalEvent, eofPos) /\ Acked(out, g)
      /\ out.reader.nextSeq = r.nextSeq /\ out.reader.ooo = r.ooo
      /\ out.reader.closed = r.closed /\ Consumed(out.reader) = Consumed(r) + Len(b)
      /\ (r.buffer = <<>> => out.reader.buffer = <<>>)
  <2>1. Len(b) = ReadCount(r)
    BY <1>6
  <2>2. ReaderOK(r, window.tail, terminalEvent, eofPos)
    BY <1>4
  <2> HIDE DEF r, b
  <2>3. /\ ReaderOK(out.reader, window.tail, terminalEvent, eofPos) /\ Acked(out, g)
        /\ out.reader.nextSeq = r.nextSeq /\ out.reader.ooo = r.ooo
        /\ out.reader.closed = r.closed /\ Consumed(out.reader) = Consumed(r) + ReadCount(r)
        /\ r.buffer = <<>> => out.reader.buffer = <<>>
    BY <2>2, ReadKeeps
  <2> QED BY <2>1, <2>3
<1>8. /\ ReaderBecomes(g, out)
      /\ loops' = [loops EXCEPT ![g] = l] /\ taken' = [taken EXCEPT ![g] = t]
  BY DEF LoopReads
<1> HIDE DEF out, b, err, r, l, t
<1>9. out.reader \in Readers /\ Len(out.reader.buffer) <= ReadWindow
  BY <1>7 DEF ReaderOK
<1>10. LoopOK(l, t, out.reader, window.tail, terminalEvent, eofPos) /\ l \in Loops
  <2>1. l \in Loops /\ l.at = "read" /\ l.from = loops[g].from /\ l.bytes = b /\ l.err = err
    BY <1>3, <1>6 DEF l, Loops
  <2>2. t = taken[g] \o l.bytes
    BY <2>1 DEF t
  <2>3. ~out.reader.closed
    BY <1>5, <1>7 DEF r
  <2>4. /\ \A i \in 1 .. Len(l.bytes) : l.bytes[i] = Consumed(r) + i - 1
        /\ l.err # "none" => l.bytes = <<>> /\ terminalEvent = l.err
        /\ l.err = "eof" => Consumed(r) = eofPos
        /\ Consumed(out.reader) = Consumed(r) + Len(l.bytes)
        /\ out.reader.nextSeq = r.nextSeq
    BY <1>6, <1>7, <2>1
  <2> DEFINE r1 == out.reader
             l0 == loops[g]
             t0 == taken[g]
  <2>5. r1 \in Readers /\ l0 \in Loops /\ t0 \in Seq(Nat) /\ l0.at = "reading"
    BY <1>2, <1>3, <1>9
  <2>6. LoopOK(l0, t0, r, window.tail, terminalEvent, eofPos)
    BY <1>4
  <2>8. /\ r1.nextSeq = r.nextSeq /\ ~r1.closed /\ Consumed(r1) = Consumed(r) + Len(l.bytes)
        /\ t = t0 \o l.bytes /\ l.from = l0.from
    BY <2>1, <2>2, <2>3, <2>4
  <2> HIDE DEF r1, l0, t0
  <2>7. LoopOK(l, t, r1, window.tail, terminalEvent, eofPos)
    BY <1>3, <2>1, <2>4, <2>5, <2>6, <2>8, LoopTakes
  <2> QED BY <2>1, <2>7 DEF r1
<1>11. t \in Seq(Nat)
  BY <1>3, <1>6, PiecesJoin DEF t
<1>12. /\ AckTypes' /\ readers' \in [Streams -> Readers] /\ readers'[g] = out.reader
       /\ known' \subseteq known
       /\ \A h \in Streams : h # g => readers'[h] = readers[h] /\ ackWire'[h] = ackWire[h]
       /\ \A a \in Range(ackWire'[g]) :
            \/ a \in Range(ackWire[g])
            \/ /\ a.seq = out.reader.nextSeq
               /\ a.seq + a.rwnd = Consumed(out.reader) + ReadWindow
  BY <1>3, <1>7, <1>8, <1>9, ReaderBecomesWhat
<1>13. /\ loops' \in [Streams -> Loops] /\ taken' \in [Streams -> Seq(Nat)]
       /\ loops'[g] = l /\ taken'[g] = t
       /\ \A h \in Streams : h # g => loops'[h] = loops[h] /\ taken'[h] = taken[h]
  BY <1>3, <1>8, <1>10, <1>11
<1>14. FileTypes'
  BY <1>1, <1>2 DEF TypesOK, FileTypes
<1>15. Consumed(r) <= Consumed(out.reader)
  <2>1. Consumed(r) \in Int
    BY <1>3, ReaderFields DEF r
  <2> QED BY <1>6, <1>7, <2>1
<1>16. r = readers[g]
  BY DEF r
<1> QED BY <1>2, <1>7, <1>10, <1>12, <1>13, <1>14, <1>15, <1>16, LoopActs


\* A loop that has read goes on, or ends.
LEMMA LoopMoves ==
    ASSUME NEW tail \in Nat, NEW event, NEW end, NEW r0 \in Readers, NEW r \in Readers,
           NEW l0 \in Loops, NEW l \in Loops, NEW t \in Seq(Nat), LoopOK(l0, t, r0, tail, event, end),
           l0.at \in {"read", "append"}, l.from = l0.from, l.err = l0.err,
           \/ l.at = "append" /\ l.bytes = l0.bytes /\ ~r.closed
           \/ l.at = "reading" /\ l.bytes = <<>> /\ l.err = "none" /\ ~r.closed
           \/ l.at = "ended" /\ l.bytes = <<>>,
           r.nextSeq = r0.nextSeq, Consumed(r) = Consumed(r0)
    PROVE  LoopOK(l, t, r, tail, event, end)
<1>1. /\ l.from + Len(t) = Consumed(r) /\ r.nextSeq <= tail
      /\ \A i \in DOMAIN t : t[i] = l.from + i - 1
      /\ l.err # "none" => event = l.err
      /\ l.err = "eof" => l.from + Len(t) = end
      /\ Len(t) \in Nat
  BY DEF LoopOK
<1>2. CASE l.bytes = <<>>
  BY <1>1, <1>2 DEF LoopOK
<1>3. CASE l.at = "append" /\ l.bytes = l0.bytes /\ ~r.closed
  BY <1>1, <1>3 DEF LoopOK
<1> QED BY <1>2, <1>3

\* What does not touch its reader.
LEMMA LoopActsAlone ==
    ASSUME DurableInv, UNCHANGED smVars, NEW g \in Streams, loops[g].at \in {"read", "append"},
           UNCHANGED <<link, wire, ackWire, writers, jm, call, request, reply, readers, known,
                       lastStream, current, attempt, taken>>,
           FileTypes', NEW l \in Loops, loops' = [loops EXCEPT ![g] = l],
           l.from = loops[g].from, l.err = loops[g].err,
           \/ l.at = "append" /\ l.bytes = loops[g].bytes
           \/ l.at = "reading" /\ l.bytes = <<>> /\ l.err = "none"
    PROVE  DurableInv' /\ Grown
<1>1. /\ SmInv /\ TypesOK /\ ReadersOK /\ LoopsOK
  BY DEF DurableInv, StreamsOK
<1>2. /\ readers[g] \in Readers /\ loops[g] \in Loops /\ taken[g] \in Seq(Nat)
      /\ AckTypes /\ readers \in [Streams -> Readers] /\ loops \in [Streams -> Loops]
      /\ taken \in [Streams -> Seq(Nat)] /\ window.tail \in Nat
  BY <1>1, WindowFacts DEF TypesOK, MainTypes
<1>3. /\ ReaderOK(readers[g], window.tail, terminalEvent, eofPos)
      /\ LoopOK(loops[g], taken[g], readers[g], window.tail, terminalEvent, eofPos)
  BY <1>1 DEF ReadersOK, LoopsOK
<1>4. ~readers[g].closed
  BY <1>3 DEF LoopOK
<1>5. LoopOK(l, taken[g], readers[g], window.tail, terminalEvent, eofPos)
  BY <1>2, <1>3, <1>4, LoopMoves
<1>6. loops'[g] = l /\ loops' \in [Streams -> Loops] /\ \A h \in Streams : h # g => loops'[h] = loops[h]
  BY <1>2
<1>7. AckTypes'
  BY <1>2 DEF AckTypes
<1>8. Consumed(readers[g]) <= Consumed(readers'[g])
  BY <1>2, ReaderFields
<1> QED BY <1>2, <1>3, <1>5, <1>6, <1>7, <1>8, LoopActs

\* The end of a loop.
LEMMA LoopEndsStep ==
    ASSUME DurableInv, UNCHANGED smVars, NEW g \in Streams, loops[g].at \in {"read", "append"},
           UNCHANGED <<link, wire, writers, jm, call, request, reply,
                       lastStream, current, attempt, taken>>,
           FileTypes', LoopEnds(g)
    PROVE  DurableInv' /\ Grown
<1>1. /\ SmInv /\ TypesOK /\ ReadersOK /\ LoopsOK
  BY DEF DurableInv, StreamsOK
<1>2. /\ readers[g] \in Readers /\ loops[g] \in Loops /\ taken[g] \in Seq(Nat)
      /\ AckTypes /\ readers \in [Streams -> Readers] /\ loops \in [Streams -> Loops]
      /\ taken \in [Streams -> Seq(Nat)] /\ window.tail \in Nat
  BY <1>1, WindowFacts DEF TypesOK, MainTypes
<1>3. LoopOK(loops[g], taken[g], readers[g], window.tail, terminalEvent, eofPos)
  BY <1>1 DEF LoopsOK
<1> DEFINE l == [loops[g] EXCEPT !.at = "ended", !.bytes = <<>>]
<1>4. /\ AckTypes' /\ readers' \in [Streams -> Readers]
      /\ ReaderOK(readers'[g], window.tail, terminalEvent, eofPos)
      /\ readers'[g].nextSeq = readers[g].nextSeq /\ readers'[g].ooo = readers[g].ooo
      /\ readers'[g].buffer = readers[g].buffer
      /\ Consumed(readers'[g]) = Consumed(readers[g])
      /\ known' \subseteq known
      /\ \A h \in Streams : h # g => readers'[h] = readers[h] /\ ackWire'[h] = ackWire[h]
      /\ \A a \in Range(ackWire'[g]) :
           \/ a \in Range(ackWire[g])
           \/ /\ a.seq = readers'[g].nextSeq
              /\ a.seq + a.rwnd = Consumed(readers'[g]) + ReadWindow
  BY <1>1, <1>2, CloseBecomes DEF LoopEnds
<1>5. /\ l \in Loops /\ l.at = "ended" /\ l.bytes = <<>>
      /\ l.from = loops[g].from /\ l.err = loops[g].err
  <2>1. <<>> \in Seq(Nat)
    OBVIOUS
  <2> QED BY <1>2, <2>1 DEF Loops
<1>6. loops' = [loops EXCEPT ![g] = l]
  BY <1>2 DEF LoopEnds
<1> HIDE DEF l
<1>7. loops'[g] = l /\ loops' \in [Streams -> Loops] /\ \A h \in Streams : h # g => loops'[h] = loops[h]
  BY <1>2, <1>5, <1>6
<1>8. readers'[g] \in Readers
  BY <1>4
<1>9. LoopOK(l, taken[g], readers'[g], window.tail, terminalEvent, eofPos)
  BY <1>2, <1>3, <1>4, <1>5, <1>8, LoopMoves
<1>10. Consumed(readers[g]) <= Consumed(readers'[g])
  BY <1>2, <1>4, ReaderFields
<1> QED BY <1>2, <1>4, <1>7, <1>9, <1>10, LoopActs

\* A turn of an output loop.
LEMMA LoopTurnStep ==
    ASSUME DurableInv, NEW g \in Streams, LoopTurn(g)
    PROVE  DurableInv' /\ Grown
<1>1. /\ FileTypes /\ loops \in [Streams -> Loops] /\ loops[g] \in Loops
  BY DEF DurableInv, TypesOK, MainTypes
<1>2. CASE LoopReads(g)
  BY <1>2, LoopReadsStep
<1>3. CASE LoopSuperseded(g)
  <2>1. /\ UNCHANGED smVars /\ loops[g].at \in {"read", "append"} /\ LoopEnds(g)
        /\ UNCHANGED <<link, wire, writers, jm, call, request, reply,
                       lastStream, current, attempt, taken>>
        /\ UNCHANGED <<file, gap, disk>>
    BY <1>3 DEF LoopSuperseded, MainUnchanged, jmVars, rpcVars, mainVars, fileVars
  <2>2. FileTypes'
    BY <1>1, <2>1 DEF FileTypes
  <2> QED BY <2>1, <2>2, LoopEndsStep
<1>4. CASE LoopCurrent(g)
  <2> DEFINE l == [loops[g] EXCEPT !.at = "append"]
  <2>1. /\ UNCHANGED smVars /\ loops[g].at \in {"read", "append"}
        /\ UNCHANGED <<link, wire, ackWire, writers, jm, call, request, reply, readers, known,
                       lastStream, current, attempt, taken>>
        /\ UNCHANGED <<file, gap, disk>>
        /\ loops' = [loops EXCEPT ![g].at = "append"]
    BY <1>4 DEF LoopCurrent, MainUnchanged, jmVars, rpcVars, readerVars, mainVars, fileVars
  <2>2. FileTypes'
    BY <1>1, <2>1 DEF FileTypes
  <2>3. /\ l \in Loops /\ l.at = "append" /\ l.bytes = loops[g].bytes
        /\ l.from = loops[g].from /\ l.err = loops[g].err
    BY <1>1 DEF Loops
  <2>4. loops' = [loops EXCEPT ![g] = l]
    BY <1>1, <2>1
  <2> HIDE DEF l
  <2> QED BY <2>1, <2>2, <2>3, <2>4, LoopActsAlone
<1>5. CASE LoopAppends(g)
  <2>1. /\ UNCHANGED smVars /\ loops[g].at \in {"read", "append"}
        /\ UNCHANGED <<link, wire, writers, jm, call, request, reply,
                       lastStream, current, attempt, taken>>
        /\ UNCHANGED <<gap, disk>> /\ file' = file \o loops[g].bytes
    BY <1>5 DEF LoopAppends, MainUnchanged, jmVars, rpcVars, mainVars
  <2>2. FileTypes'
    <3>1. loops[g].bytes \in Seq(Nat)
      BY <1>1 DEF Loops
    <3> QED BY <1>1, <2>1, <3>1, PiecesJoin DEF FileTypes
  <2>3. CASE loops[g].err = "none"
    <3> DEFINE l == [loops[g] EXCEPT !.at = "reading", !.bytes = <<>>]
    <3>1. /\ loops' = [loops EXCEPT ![g].at = "reading", ![g].bytes = <<>>]
          /\ UNCHANGED <<ackWire, readers, known>>
      BY <1>5, <2>3 DEF LoopAppends, readerVars
    <3>2. /\ l \in Loops /\ l.at = "reading" /\ l.bytes = <<>>
          /\ l.from = loops[g].from /\ l.err = loops[g].err
      <4>1. <<>> \in Seq(Nat)
        OBVIOUS
      <4> QED BY <1>1, <4>1 DEF Loops
    <3>3. loops' = [loops EXCEPT ![g] = l]
      BY <1>1, <3>1
    <3> HIDE DEF l
    <3> QED BY <2>1, <2>2, <2>3, <3>1, <3>2, <3>3, LoopActsAlone
  <2>4. CASE loops[g].err # "none"
    <3>1. LoopEnds(g)
      BY <1>5, <2>4 DEF LoopAppends
    <3> QED BY <2>1, <2>2, <3>1, LoopEndsStep
  <2> QED BY <2>3, <2>4
<1> QED BY <1>2, <1>3, <1>4, <1>5 DEF LoopTurn


-----------------------------------------------------------------------------
(* The attempts to reach the job again.                                    *)

\* A reader that is closed is registered no longer.
LEMMA CloseUnregisters ==
    ASSUME NEW g, NEW r, ~r.closed, ReaderBecomes(g, CloseReader(r, g))
    PROVE  known' = known \ {g}
<1> DEFINE out == CloseReader(r, g)
           a == AckOf([r EXCEPT !.closed = TRUE, !.err = IF @ = "none" THEN "closed" ELSE @], g, FALSE, TRUE)
<1>1. out.acks = <<a>>
  BY DEF CloseReader, WithAck
<1>2. a.cancel = TRUE
  BY DEF AckOf
<1> HIDE DEF a
<1>3. 1 \in DOMAIN out.acks /\ out.acks[1].cancel
  <2> HIDE DEF out
  <2> QED BY <1>1, <1>2
<1>4. known' = IF \E i \in DOMAIN out.acks : out.acks[i].fin \/ out.acks[i].cancel
               THEN known \ {g} ELSE known
  BY DEF ReaderBecomes
<1> HIDE DEF out
<1> QED BY <1>3, <1>4

\* No attempt.
LEMMA IdleTypes == IdleAttempt.at = "idle" /\ IdleAttempt \in
    [at : {"idle", "stat", "create", "prepare", "start", "starting"}, seq : Nat, gap : Nat]
BY DEF IdleAttempt

\* No answer, no request.
LEMMA NoReplyTypes == NoReply \in Replies /\ NoReply.kind = "none" /\ NoRequest \in Requests
BY DEF Replies, NoReply, Requests

\* An attempt that fails.
LEMMA GiveUpStep ==
    ASSUME DurableInv, UNCHANGED smVars, attempt.at \in {"prepare", "start", "starting"},
           UNCHANGED <<link, wire, writers, jm, call, request, loops, taken, file, gap, disk,
                       current, lastStream>>,
           reply' = NoReply, GiveUp
    PROVE  DurableInv' /\ Grown
<1>1. /\ SmInv /\ TypesOK /\ ProtocolOK /\ PacketsOK /\ ReadersOK /\ WindowRespected
      /\ LoopsOK /\ FlowsOK /\ QuietOK
  BY DEF DurableInv, StreamsOK
<1>2. /\ LinksOK /\ StreamAt /\ CallHeld /\ ConnectHeld /\ CorkedOK /\ RequestOK /\ ReplyOK /\ AttemptOK
  BY <1>1, ProtocolParts
<1>3. /\ SmInv' /\ Grown /\ SendPos' = SendPos
      /\ UNCHANGED <<window, terminalEvent, eofPos, connected, streamId, rwndSize,
                     sentNotAcked, startSeq, connecting>>
  BY <1>1, SenderRests
<1> DEFINE g == lastStream
<1>4. /\ g \in Streams /\ streamId \in Streams /\ AckTypes /\ readers \in [Streams -> Readers]
      /\ known \subseteq Streams
  BY <1>1, StreamNumbers DEF TypesOK, MainTypes
<1>5. ~readers[g].closed
  BY <1>1 DEF QuietOK
<1>6. attempt' = IdleAttempt /\ ReaderBecomes(g, CloseReader(readers[g], g))
  BY DEF GiveUp
<1> HIDE DEF g
<1>7. known' = known \ {g}
  BY <1>5, <1>6, CloseUnregisters
<1>8. /\ AckTypes' /\ readers' \in [Streams -> Readers]
      /\ ReaderOK(readers'[g], window.tail, terminalEvent, eofPos)
      /\ readers'[g].ooo = readers[g].ooo /\ readers'[g].buffer = readers[g].buffer
      /\ \A h \in Streams : h # g => readers'[h] = readers[h] /\ ackWire'[h] = ackWire[h]
  BY <1>1, <1>4, <1>6, CloseBecomes
<1>9. TypesOK'
  <2>1. JobTypes'
    BY <1>1, NoReplyTypes DEF TypesOK, JobTypes
  <2>2. MainTypes'
    BY <1>1, <1>4, <1>6, <1>7, <1>8, IdleTypes DEF TypesOK, MainTypes
  <2> QED BY <1>1, <1>8, <2>1, <2>2 DEF TypesOK, LinkTypes, FileTypes
<1>10. LinksOK' /\ StreamAt'
  BY <1>2, <1>3 DEF LinksOK, StreamAt
<1>11. CallHeld' /\ ConnectHeld' /\ CorkedOK'
  BY <1>2, <1>3, <1>6, IdleTypes DEF CallHeld, ConnectHeld, CorkedOK, Corked, InCall, Unlocked
<1>12. RequestOK' /\ ReplyOK'
  BY <1>2, <1>3, <1>6, IdleTypes, NoReplyTypes DEF RequestOK, ReplyOK, Behind
<1>13. AttemptOK'
  <2>1. \A h \in known' : h <= streamId
    BY <1>2, <1>7 DEF AttemptOK, g
  <2> QED BY <1>2, <1>3, <1>6, <2>1, IdleTypes DEF AttemptOK
<1>14. PacketsOK'
  BY <1>1, <1>3 DEF PacketsOK
<1>15. ReadersOK'
  <2>1. SUFFICES ASSUME NEW h \in Streams
                 PROVE  ReaderOK(readers'[h], window.tail, terminalEvent, eofPos)
    BY <1>3 DEF ReadersOK
  <2> QED BY <1>1, <1>8 DEF ReadersOK
<1>16. WindowRespected'
  BY <1>1, <1>4, <1>8 DEF WindowRespected, Buffered
<1>17. LoopsOK'
  <2>1. SUFFICES ASSUME NEW h \in Streams
                 PROVE  LoopOK(loops[h], taken[h], readers'[h], window.tail, terminalEvent, eofPos)
    BY <1>3 DEF LoopsOK
  <2>2. LoopOK(loops[h], taken[h], readers[h], window.tail, terminalEvent, eofPos)
    BY <1>1 DEF LoopsOK
  <2>3. CASE h # g
    BY <1>8, <2>2, <2>3
  <2>4. CASE h = g
    <3>1. loops[h].at = "none"
      BY <1>2, <2>4 DEF AttemptOK, g
    <3> QED BY <2>2, <3>1 DEF LoopOK
  <2> QED BY <2>3, <2>4
<1>18. FlowsOK'
  <2>1. SUFFICES ASSUME NEW h \in known' PROVE FlowOK(h)'
    BY DEF FlowsOK
  <2>2. h \in known /\ h \in Streams /\ h # g
    BY <1>4, <1>7
  <2>3. FlowOK(h)
    BY <1>1, <2>2 DEF FlowsOK
  <2>4. wire'[h] = wire[h] /\ ackWire'[h] = ackWire[h] /\ readers'[h] = readers[h]
    BY <1>8, <2>2
  <2> QED BY <1>3, <2>3, <2>4 DEF FlowOK
<1>19. QuietOK'
  <2>1. ASSUME NEW h \in Streams, h > streamId
        PROVE  wire'[h] = <<>> /\ readers'[h].ooo = {} /\ readers'[h].buffer = <<>>
    <3>1. wire[h] = <<>> /\ readers[h].ooo = {} /\ readers[h].buffer = <<>>
      BY <1>1, <2>1 DEF QuietOK
    <3> QED BY <1>8, <3>1
  <2>2. ASSUME NEW h \in Streams, h > g PROVE ackWire'[h] = <<>>
    <3>1. ackWire[h] = <<>>
      BY <1>1, <2>2 DEF QuietOK, g
    <3>2. h # g
      BY <1>4, <2>2 DEF Streams
    <3> QED BY <1>8, <3>1, <3>2
  <2>3. Corked' => NoData(Range(wire'[streamId]), readers'[streamId])
    <3>1. Corked' = Corked
      BY <1>3 DEF Corked, InCall
    <3>2. readers'[streamId].ooo = readers[streamId].ooo /\ readers'[streamId].buffer = readers[streamId].buffer
      BY <1>4, <1>8
    <3> QED BY <1>1, <3>1, <3>2 DEF QuietOK, NoData
  <2> QED BY <1>3, <1>6, <2>1, <2>2, <2>3, IdleTypes DEF QuietOK, g
<1> QED BY <1>3, <1>9, <1>10, <1>11, <1>12, <1>13, <1>14, <1>15, <1>16, <1>17, <1>18, <1>19
        DEF DurableInv, StreamsOK, ProtocolOK, CallOK, RpcOK

\* A new connection, and with it a new stream.
LEMMA ReconnectStep ==
    ASSUME DurableInv, Reconnect
    PROVE  DurableInv' /\ Grown
<1>1. /\ SmInv /\ TypesOK /\ ProtocolOK /\ StreamsOK /\ QuietOK
  BY DEF DurableInv, StreamsOK
<1>2. /\ LinksOK /\ StreamAt /\ CallHeld /\ ConnectHeld /\ CorkedOK /\ RequestOK /\ ReplyOK /\ AttemptOK
  BY <1>1, ProtocolParts
<1>3. /\ UNCHANGED smVars
      /\ UNCHANGED <<wire, ackWire, writers, jm, call, request, reply, readers, known, loops, taken,
                     file, gap, disk, current>>
      /\ attempt.at = "idle" /\ link[lastStream] = "down" /\ lastStream < MaxStreams
      /\ lastStream' = lastStream + 1 /\ link' = [link EXCEPT ![lastStream'] = "up"]
      /\ attempt' = [attempt EXCEPT !.at = "stat"]
  BY DEF Reconnect, AttemptUnchanged, jmVars, rpcVars, readerVars
<1>4. /\ SmInv' /\ Grown /\ SendPos' = SendPos
      /\ UNCHANGED <<window, terminalEvent, eofPos, connected, streamId, rwndSize,
                     sentNotAcked, startSeq, connecting>>
  BY <1>1, <1>3, SenderRests
<1>5. /\ lastStream \in Streams /\ streamId \in Streams /\ MaxStreams \in Nat
      /\ lastStream' \in Streams
  BY <1>1, <1>3, StreamNumbers DEF Streams
<1>6. /\ attempt'.at = "stat"
      /\ attempt' \in [at : {"idle", "stat", "create", "prepare", "start", "starting"}, seq : Nat, gap : Nat]
  BY <1>1, <1>3 DEF TypesOK, MainTypes
<1>7. /\ link' \in [Streams -> {"none", "up", "down"}] /\ link'[lastStream'] = "up"
      /\ \A g \in Streams : g # lastStream' => link'[g] = link[g]
  BY <1>1, <1>3, <1>5 DEF TypesOK, LinkTypes
<1>8. TypesOK'
  BY <1>1, <1>3, <1>5, <1>6, <1>7 DEF TypesOK, LinkTypes, AckTypes, JobTypes, MainTypes, FileTypes
<1>9. LinksOK'
  BY <1>2, <1>3, <1>5, <1>7 DEF LinksOK, Streams
<1>10. StreamAt' /\ CorkedOK'
  BY <1>2, <1>3, <1>4, <1>5 DEF StreamAt, CorkedOK, Corked, InCall, Streams
<1>11. call # NoRequest => call.id \in Streams
  BY <1>1 DEF TypesOK, JobTypes, CallRecords
<1>12. CallHeld' /\ ConnectHeld'
  BY <1>2, <1>3, <1>4, <1>5, <1>6, <1>11 DEF CallHeld, ConnectHeld, InCall, Unlocked, Streams
<1>13. request # NoRequest => request.id \in Streams
  BY <1>1 DEF TypesOK, JobTypes, Requests
<1>14. RequestOK'
  <2>1. request # NoRequest => request.id # lastStream' /\ request.id <= lastStream'
    BY <1>2, <1>3, <1>5, <1>13 DEF RequestOK, Streams
  <2>2. request.kind \in {"prepare", "start"} => request # NoRequest
    BY DEF NoRequest
  <2> QED BY <1>3, <2>1, <2>2 DEF RequestOK
<1>15. ReplyOK'
  BY <1>2, <1>3 DEF ReplyOK
<1>16. AttemptOK'
  <2>2. streamId < lastStream' /\ (call # NoRequest => call.id < lastStream')
    BY <1>2, <1>3, <1>5, <1>11 DEF StreamAt, CallHeld, Streams
  <2>3. \A g \in known : g <= streamId
    BY <1>2, <1>3 DEF AttemptOK
  <2>4. lastStream' \notin known /\ loops[lastStream'].at = "none"
    BY <1>2, <1>3, <1>5, <2>2, <2>3 DEF AttemptOK, Streams
  <2>5. \A g \in Streams : g > lastStream' => loops[g].at = "none"
    BY <1>2, <1>3, <1>5 DEF AttemptOK, Streams
  <2>6. current <= lastStream'
    <3>1. current \in Streams /\ current <= lastStream
      BY <1>1, <1>2 DEF TypesOK, MainTypes, AttemptOK
    <3> QED BY <1>3, <1>5, <3>1 DEF Streams
  <2> QED BY <1>3, <1>4, <1>6, <2>2, <2>3, <2>4, <2>5, <2>6 DEF AttemptOK, Behind
<1>17. PacketsOK' /\ ReadersOK' /\ WindowRespected' /\ LoopsOK'
  BY <1>1, <1>3, <1>4, StreamsKept
<1>18. FlowsOK'
  BY <1>1, <1>3, <1>4, FlowsKept DEF StreamsOK
<1>19. QuietOK'
  <2>1. \A g \in Streams : g > lastStream' \/ g = lastStream' => ackWire[g] = <<>>
    BY <1>1, <1>3, <1>5 DEF QuietOK, Streams
  <2>2. Corked' = Corked
    BY <1>3, <1>4 DEF Corked, InCall
  <2> QED BY <1>1, <1>3, <1>4, <1>6, <2>1, <2>2 DEF QuietOK
<1> QED BY <1>4, <1>8, <1>9, <1>10, <1>12, <1>14, <1>15, <1>16, <1>17, <1>18, <1>19
        DEF DurableInv, StreamsOK, ProtocolOK, CallOK, RpcOK


\* restartStreaming reads the size of the file.
LEMMA StatFileStep ==
    ASSUME DurableInv, StatFile
    PROVE  DurableInv' /\ Grown
<1>1. /\ SmInv /\ TypesOK /\ ProtocolOK /\ StreamsOK /\ QuietOK
  BY DEF DurableInv, StreamsOK
<1>2. /\ LinksOK /\ StreamAt /\ CallHeld /\ ConnectHeld /\ CorkedOK /\ RequestOK /\ ReplyOK /\ AttemptOK
  BY <1>1, ProtocolParts
<1>3. /\ UNCHANGED smVars
      /\ UNCHANGED <<link, wire, ackWire, writers, jm, call, request, reply, readers, known, loops, taken,
                     file, gap, disk, current, lastStream>>
      /\ attempt.at = "stat" /\ attempt' = [at |-> "create", seq |-> Position, gap |-> gap]
  BY DEF StatFile, AttemptUnchanged, jmVars, rpcVars, readerVars
<1>4. /\ SmInv' /\ Grown /\ SendPos' = SendPos
      /\ UNCHANGED <<window, terminalEvent, eofPos, connected, streamId, rwndSize,
                     sentNotAcked, startSeq, connecting>>
  BY <1>1, <1>3, SenderRests
<1>5. Position \in Nat /\ gap \in Nat
  BY <1>1 DEF TypesOK, FileTypes, Position
<1>6. /\ attempt'.at = "create"
      /\ attempt' \in [at : {"idle", "stat", "create", "prepare", "start", "starting"}, seq : Nat, gap : Nat]
  BY <1>3, <1>5
<1>7. TypesOK'
  BY <1>1, <1>3, <1>6 DEF TypesOK, LinkTypes, AckTypes, JobTypes, MainTypes, FileTypes
<1>8. LinksOK' /\ StreamAt' /\ CorkedOK' /\ ConnectHeld'
  BY <1>2, <1>3, <1>4 DEF LinksOK, StreamAt, CorkedOK, Corked, ConnectHeld, InCall, Unlocked
<1>9. CallHeld' /\ RequestOK' /\ ReplyOK'
  BY <1>2, <1>3, <1>4, <1>6 DEF CallHeld, RequestOK, ReplyOK, InCall, Unlocked, Behind
<1>10. AttemptOK'
  BY <1>2, <1>3, <1>4, <1>6 DEF AttemptOK, Behind
<1>11. PacketsOK' /\ ReadersOK' /\ WindowRespected' /\ LoopsOK'
  BY <1>1, <1>3, <1>4, StreamsKept
<1>12. FlowsOK'
  BY <1>1, <1>3, <1>4, FlowsKept DEF StreamsOK
<1>13. QuietOK'
  <2>1. Corked' = Corked
    BY <1>3, <1>4 DEF Corked, InCall
  <2> QED BY <1>1, <1>3, <1>4, <1>6, <2>1 DEF QuietOK
<1> QED BY <1>4, <1>7, <1>8, <1>9, <1>10, <1>11, <1>12, <1>13
        DEF DurableInv, StreamsOK, ProtocolOK, CallOK, RpcOK

\* A reader that has just been made is in order.
LEMMA NewReaderStarts ==
    ASSUME NEW seq \in Nat, NEW tail, NEW event, NEW end
    PROVE  LET r == NewReader(seq) IN
           /\ ReaderOK(r, tail, event, end) /\ Buffered(r) <= ReadWindow /\ Consumed(r) = seq
<1> DEFINE r == NewReader(seq)
<1>1. /\ r \in Readers /\ r.nextSeq = seq /\ r.buffer = <<>> /\ r.ooo = {} /\ ~r.closed
      /\ ~r.eof /\ r.err = "none"
  BY NewReaderFields
<1> HIDE DEF r
<1>2. Consumed(r) = seq /\ Len(r.buffer) = 0 /\ ReadWindow \in Nat
  BY <1>1, ReaderAssumption DEF Consumed
<1>3. IsFiniteSet(r.ooo)
  BY <1>1, FS_EmptySet
<1>4. ReaderOK(r, tail, event, end)
  BY <1>1, <1>2, <1>3 DEF ReaderOK
<1>5. UNION {{pkt} \X (1 .. pkt.n) : pkt \in r.ooo} = {}
  BY <1>1
<1>6. Buffered(r) = 0
  <2> DEFINE held == UNION {{pkt} \X (1 .. pkt.n) : pkt \in r.ooo}
  <2>1. Buffered(r) = Len(r.buffer) + Cardinality(held) /\ held = {}
    BY <1>5 DEF Buffered
  <2> HIDE DEF held
  <2>2. Cardinality(held) = 0
    BY <2>1, FS_EmptySet
  <2> QED BY <1>2, <2>1, <2>2
<1> QED BY <1>2, <1>4, <1>6 DEF r

\* The reader of the new stream, and the request to the job manager.
LEMMA CreateReaderStep ==
    ASSUME DurableInv, CreateReader
    PROVE  DurableInv' /\ Grown
<1>1. /\ SmInv /\ TypesOK /\ ProtocolOK /\ PacketsOK /\ ReadersOK /\ WindowRespected
      /\ LoopsOK /\ FlowsOK /\ QuietOK
  BY DEF DurableInv, StreamsOK
<1>2. /\ LinksOK /\ StreamAt /\ CallHeld /\ ConnectHeld /\ CorkedOK /\ RequestOK /\ ReplyOK /\ AttemptOK
  BY <1>1, ProtocolParts
<1> DEFINE g == lastStream
           r == NewReader(attempt.seq)
           asked == [kind |-> "prepare", id |-> lastStream, seq |-> attempt.seq]
<1>3. /\ UNCHANGED smVars
      /\ UNCHANGED <<link, wire, ackWire, writers, jm, call, reply, loops, taken,
                     file, gap, disk, lastStream>>
      /\ attempt.at = "create" /\ attempt' = [attempt EXCEPT !.at = "prepare"]
      /\ readers' = [readers EXCEPT ![g] = r] /\ known' = known \cup {g} /\ current' = g
      /\ request' = asked
  BY DEF CreateReader, AttemptUnchanged, jmVars
<1>4. /\ SmInv' /\ Grown /\ SendPos' = SendPos
      /\ UNCHANGED <<window, terminalEvent, eofPos, connected, streamId, rwndSize,
                     sentNotAcked, startSeq, connecting>>
  BY <1>1, <1>3, SenderRests
<1>5. /\ g \in Streams /\ streamId \in Streams /\ attempt.seq \in Nat
      /\ readers \in [Streams -> Readers] /\ known \subseteq Streams
  BY <1>1, StreamNumbers DEF TypesOK, MainTypes
<1>6. /\ r \in Readers /\ r.nextSeq = attempt.seq /\ r.buffer = <<>> /\ r.ooo = {} /\ ~r.closed
  BY <1>5, NewReaderFields
<1>7. /\ ReaderOK(r, window.tail, terminalEvent, eofPos) /\ Buffered(r) <= ReadWindow
  BY <1>5, NewReaderStarts
<1>8. /\ attempt'.at = "prepare" /\ attempt'.seq = attempt.seq
      /\ attempt' \in [at : {"idle", "stat", "create", "prepare", "start", "starting"}, seq : Nat, gap : Nat]
  BY <1>1, <1>3 DEF TypesOK, MainTypes
<1>9. asked \in Requests /\ asked # NoRequest /\ asked.kind = "prepare" /\ asked.id = g /\ asked.seq = attempt.seq
  BY <1>5 DEF Requests, NoRequest
<1> HIDE DEF r, asked
<1>10. /\ readers' \in [Streams -> Readers] /\ readers'[g] = r
       /\ \A h \in Streams : h # g => readers'[h] = readers[h]
  BY <1>3, <1>5, <1>6
<1>11. TypesOK'
  <2>1. JobTypes'
    BY <1>1, <1>3, <1>9 DEF TypesOK, JobTypes
  <2>2. MainTypes'
    BY <1>1, <1>3, <1>5, <1>8, <1>10 DEF TypesOK, MainTypes
  <2> QED BY <1>1, <1>3, <2>1, <2>2 DEF TypesOK, LinkTypes, AckTypes, FileTypes
<1>12. Behind(g) /\ g \notin known
  BY <1>2, <1>3 DEF AttemptOK
<1>13. LinksOK' /\ StreamAt' /\ CorkedOK' /\ ConnectHeld'
  BY <1>2, <1>3, <1>4 DEF LinksOK, StreamAt, CorkedOK, Corked, ConnectHeld, InCall, Unlocked
<1>14. call # NoRequest => call.id \in Streams
  BY <1>1 DEF TypesOK, JobTypes, CallRecords
<1>15. CallHeld'
  <2>1. call # NoRequest => call.id # g
    BY <1>5, <1>12, <1>14 DEF Behind, Streams
  <2> QED BY <1>2, <1>3, <1>4, <2>1 DEF CallHeld, InCall, Unlocked
<1>16. RequestOK'
  <2>1. Behind(g)'
    BY <1>3, <1>4, <1>12 DEF Behind
  <2> QED BY <1>3, <1>5, <1>8, <1>9, <2>1 DEF RequestOK, Streams
<1>17. ReplyOK'
  <2>1. reply.kind \notin {"start", "prepare"}
    BY <1>2, <1>3 DEF ReplyOK
  <2> QED BY <1>3, <2>1 DEF ReplyOK
<1>18. AttemptOK'
  <2>1. streamId < g
    BY <1>12 DEF Behind
  <2>2. \A h \in known : h <= streamId
    BY <1>2, <1>3 DEF AttemptOK
  <2>3. g <= g
    BY <1>5 DEF Streams
  <2>4. streamId # g
    BY <1>5, <2>1 DEF Streams
  <2> HIDE DEF g
  <2>5. \A h \in known' : h <= streamId \/ h = g
    BY <1>3, <2>2
  <2> QED BY <1>2, <1>3, <1>4, <1>8, <2>1, <2>3, <2>4, <2>5 DEF AttemptOK, g
<1>19. PacketsOK'
  BY <1>1, <1>3, <1>4 DEF PacketsOK
<1>20. ReadersOK'
  <2>1. SUFFICES ASSUME NEW h \in Streams
                 PROVE  ReaderOK(readers'[h], window.tail, terminalEvent, eofPos)
    BY <1>4 DEF ReadersOK
  <2> QED BY <1>1, <1>7, <1>10 DEF ReadersOK
<1>21. WindowRespected'
  BY <1>1, <1>7, <1>10 DEF WindowRespected
<1>22. LoopsOK'
  <2>1. SUFFICES ASSUME NEW h \in Streams
                 PROVE  LoopOK(loops[h], taken[h], readers'[h], window.tail, terminalEvent, eofPos)
    BY <1>3, <1>4 DEF LoopsOK
  <2>2. LoopOK(loops[h], taken[h], readers[h], window.tail, terminalEvent, eofPos)
    BY <1>1 DEF LoopsOK
  <2>3. CASE h # g
    BY <1>10, <2>2, <2>3
  <2>4. CASE h = g
    <3>1. loops[h].at = "none"
      BY <1>2, <1>3, <2>4 DEF AttemptOK
    <3> QED BY <2>2, <3>1 DEF LoopOK
  <2> QED BY <2>3, <2>4
<1>23. wire[g] = <<>> /\ ackWire[g] = <<>>
  BY <1>1, <1>3, <1>5, <1>12 DEF QuietOK, Behind, Streams
<1>24. ASSUME NEW h \in Streams, h = g PROVE FlowOK(h)'
  <2>1. Range(wire[g]) = {} /\ Range(ackWire[g]) = {}
    BY <1>23 DEF Range
  <2>2. Ordered(wire[g])
    BY <1>23 DEF Ordered
  <2>3. AcksOK(Range(ackWire[g]), r)
    BY <2>1 DEF AcksOK
  <2>4. Clear(Range(wire[g]), r)
    BY <1>6, <2>1 DEF Clear, DataOf
  <2>5. Bound(Range(wire[g]), r, 0)
    BY <1>6, <2>1 DEF Bound, DataOf
  <2>6. streamId # g
    BY <1>5, <1>12 DEF Behind, Streams
  <2>7. wire'[h] = wire[g] /\ ackWire'[h] = ackWire[g] /\ readers'[h] = r /\ streamId' # h
    BY <1>3, <1>4, <1>10, <1>24, <2>6
  <2> HIDE DEF g
  <2> QED BY <2>7, <2>2, <2>3, <2>4, <2>5, <2>6 DEF FlowOK
<1>25. FlowsOK'
  <2>1. SUFFICES ASSUME NEW h \in known' PROVE FlowOK(h)'
    BY DEF FlowsOK
  <2>2. CASE h = g
    BY <1>5, <1>24, <2>2
  <2>3. CASE h # g
    <3>1. h \in Streams /\ h \in known
      BY <1>3, <1>5, <2>3
    <3>2. FlowOK(h)
      BY <1>1, <3>1 DEF FlowsOK
    <3>3. readers'[h] = readers[h]
      BY <1>10, <2>3, <3>1
    <3> QED BY <1>3, <1>4, <3>2, <3>3 DEF FlowOK
  <2> QED BY <2>2, <2>3
<1>26. QuietOK'
  <2>1. ASSUME NEW h \in Streams, h > streamId
        PROVE  wire'[h] = <<>> /\ readers'[h].ooo = {} /\ readers'[h].buffer = <<>>
    BY <1>1, <1>3, <1>6, <1>10, <2>1 DEF QuietOK
  <2>2. \A h \in Streams : h > g => ackWire'[h] = <<>>
    BY <1>1, <1>3 DEF QuietOK
  <2>3. Corked' => NoData(Range(wire'[streamId]), readers'[streamId])
    <3>1. Corked' = Corked
      BY <1>3, <1>4 DEF Corked, InCall
    <3>2. streamId # g
      BY <1>5, <1>12 DEF Behind, Streams
    <3>3. readers'[streamId] = readers[streamId]
      BY <1>5, <1>10, <3>2
    <3> QED BY <1>1, <1>3, <3>1, <3>3 DEF QuietOK
  <2> QED BY <1>3, <1>4, <1>6, <1>8, <1>10, <2>1, <2>2, <2>3 DEF QuietOK
<1> QED BY <1>4, <1>11, <1>13, <1>15, <1>16, <1>17, <1>18, <1>19, <1>20, <1>21, <1>22, <1>25, <1>26
        DEF DurableInv, StreamsOK, ProtocolOK, CallOK, RpcOK


\* UpdateNextSeq, on a reader that has nothing and waits for nothing on its way.
LEMMA ReaderSkips ==
    ASSUME NEW tail \in Nat, NEW event, NEW end, NEW packets, NEW r0, NEW seq \in Nat,
           ReaderOK(r0, tail, event, end), NoData(packets, r0), r0.nextSeq < seq, ~r0.eof,
           NEW r, r = UpdateNextSeq(r0, seq)
    PROVE  /\ ReaderOK(r, tail, event, end) /\ NoData(packets, r)
           /\ Clear(packets, r0) => Clear(packets, r)
           /\ Consumed(r0) <= Consumed(r)
<1>1. r0 \in Readers /\ r0.nextSeq \in Nat /\ r0.buffer = <<>> /\ DataOf(packets \cup r0.ooo) = {}
  BY ReaderFields DEF ReaderOK, NoData
<1>2. /\ r \in Readers /\ r.nextSeq = seq /\ r.buffer = r0.buffer /\ r.ooo = r0.ooo
      /\ r.closed = r0.closed /\ r.eof = r0.eof /\ r.err = r0.err
  BY <1>1 DEF UpdateNextSeq, Readers
<1>3. Consumed(r) = seq /\ Consumed(r0) = r0.nextSeq
  BY <1>1, <1>2 DEF Consumed
<1>4. ReaderOK(r, tail, event, end)
  BY <1>1, <1>2, <1>3 DEF ReaderOK
<1>5. /\ NoData(packets, r)
      /\ Clear(packets, r0) => Clear(packets, r)
  BY <1>1, <1>2 DEF NoData, Clear
<1> QED BY <1>1, <1>2, <1>3, <1>4, <1>5

\* The job manager has connected the new stream.
LEMMA PreparedGoesOn ==
    ASSUME DurableInv, UNCHANGED smVars, attempt.at = "prepare",
           reply.kind = "prepare", reply.ok, ~reply.done,
           UNCHANGED <<link, wire, ackWire, writers, jm, call, known, loops, taken, file, disk,
                       current, lastStream>>,
           reply' = NoReply, request' = [kind |-> "start", id |-> lastStream],
           attempt' = [attempt EXCEPT !.at = "start"], gap' \in Nat,
           \/ readers' = readers /\ reply.seq <= attempt.seq
           \/ /\ reply.seq > attempt.seq
              /\ readers' = [readers EXCEPT ![lastStream] = UpdateNextSeq(@, reply.seq)]
    PROVE  DurableInv' /\ Grown
<1>1. /\ SmInv /\ TypesOK /\ ProtocolOK /\ PacketsOK /\ ReadersOK /\ WindowRespected
      /\ LoopsOK /\ FlowsOK /\ QuietOK
  BY DEF DurableInv, StreamsOK
<1>2. /\ LinksOK /\ StreamAt /\ CallHeld /\ ConnectHeld /\ CorkedOK /\ RequestOK /\ ReplyOK /\ AttemptOK
  BY <1>1, ProtocolParts
<1> DEFINE asked == [kind |-> "start", id |-> lastStream]
<1>3. /\ SmInv' /\ Grown /\ SendPos' = SendPos
      /\ UNCHANGED <<window, terminalEvent, eofPos, connected, streamId, rwndSize,
                     sentNotAcked, startSeq, connecting>>
  BY <1>1, SenderRests
<1>4. /\ call = NoRequest /\ connected /\ jm.pending = lastStream /\ streamId = lastStream
      /\ reply.seq = startSeq
  BY <1>2 DEF ReplyOK
<1>5. Corked /\ startSeq <= window.head /\ attempt.seq <= startSeq
  BY <1>2, <1>4 DEF Corked, StreamAt, AttemptOK
<1> DEFINE g == lastStream
           r == readers'[g]
<1>6. /\ g \in Streams /\ readers \in [Streams -> Readers] /\ known \subseteq Streams
      /\ wire \in [Streams -> Seq(Packets)] /\ AckTypes
      /\ startSeq \in Nat /\ attempt.seq \in Nat
      /\ window.head \in Nat /\ window.tail \in Nat /\ window.head <= window.tail
  BY <1>1, StreamNumbers, WindowFacts DEF TypesOK, MainTypes, LinkTypes, SmInv, SmTypeOK
<1>7. /\ NoData(Range(wire[g]), readers[g]) /\ ~readers[g].closed
      /\ readers[g].nextSeq = attempt.seq
      /\ ReaderOK(readers[g], window.tail, terminalEvent, eofPos)
  BY <1>1, <1>4, <1>5, <1>6 DEF QuietOK, ReadersOK
<1>8. /\ attempt'.at = "start"
      /\ attempt' \in [at : {"idle", "stat", "create", "prepare", "start", "starting"}, seq : Nat, gap : Nat]
  BY <1>1 DEF TypesOK, MainTypes
<1>9. asked \in Requests /\ asked # NoRequest /\ asked.kind = "start" /\ asked.id = g
  BY <1>6 DEF Requests, NoRequest
<1>10. g \in known => Ordered(wire[g]) /\ Clear(Range(wire[g]), readers[g]) /\ AcksOK(Range(ackWire[g]), readers[g])
  BY <1>1 DEF FlowsOK, FlowOK
<1>11. /\ readers' \in [Streams -> Readers] /\ ReaderOK(r, window.tail, terminalEvent, eofPos)
       /\ NoData(Range(wire[g]), r) /\ r.buffer = readers[g].buffer /\ r.ooo = readers[g].ooo
       /\ ~r.closed /\ r.nextSeq <= startSeq /\ readers[g].nextSeq <= r.nextSeq
       /\ Consumed(readers[g]) <= Consumed(r)
       /\ g \in known => Clear(Range(wire[g]), r)
       /\ \A h \in Streams : h # g => readers'[h] = readers[h]
  <2>1. CASE readers' = readers
    <3>1. readers[g] \in Readers
      BY <1>6
    <3>2. Consumed(readers[g]) \in Int /\ Consumed(readers[g]) <= Consumed(readers[g])
      BY <3>1, ReaderFields
    <3> QED BY <1>5, <1>6, <1>7, <1>10, <2>1, <3>2
  <2>2. CASE /\ reply.seq > attempt.seq
             /\ readers' = [readers EXCEPT ![g] = UpdateNextSeq(@, reply.seq)]
    <3> DEFINE r1 == UpdateNextSeq(readers[g], startSeq)
    <3>1. readers' = [readers EXCEPT ![g] = r1] /\ readers[g].nextSeq < startSeq
      BY <1>4, <1>6, <1>7, <2>2
    <3>2. ~readers[g].eof
      <4>1. readers[g].eof => terminalEvent = "eof" /\ readers[g].nextSeq = eofPos
        BY <1>7 DEF ReaderOK
      <4>2. terminalEvent # "none" => eofPos = window.tail
        BY <1>1 DEF SmInv, OutputEnds
      <4> QED BY <1>5, <1>6, <3>1, <4>1, <4>2
    <3>4. /\ ReaderOK(r1, window.tail, terminalEvent, eofPos) /\ NoData(Range(wire[g]), r1)
          /\ r1.nextSeq = startSeq /\ r1.buffer = readers[g].buffer /\ r1.ooo = readers[g].ooo
          /\ r1.closed = readers[g].closed /\ Consumed(readers[g]) <= Consumed(r1)
          /\ Clear(Range(wire[g]), readers[g]) => Clear(Range(wire[g]), r1)
      <4> DEFINE r0 == readers[g]
                 w == Range(wire[g])
      <4>1. /\ ReaderOK(r0, window.tail, terminalEvent, eofPos) /\ NoData(w, r0)
            /\ r0.nextSeq < startSeq /\ ~r0.eof
        BY <1>7, <3>1, <3>2
      <4> DEFINE r2 == UpdateNextSeq(r0, startSeq)
      <4>2. r2 = r1
        OBVIOUS
      <4>4. r2 = UpdateNextSeq(r0, startSeq)
        OBVIOUS
      <4> HIDE DEF r0, w, r1, r2
      <4>3. /\ ReaderOK(r2, window.tail, terminalEvent, eofPos) /\ NoData(w, r2)
            /\ r2.nextSeq = startSeq /\ r2.buffer = r0.buffer /\ r2.ooo = r0.ooo
            /\ r2.closed = r0.closed /\ Consumed(r0) <= Consumed(r2)
            /\ Clear(w, r0) => Clear(w, r2)
        <5>1. ReaderOK(r2, window.tail, terminalEvent, eofPos) /\ NoData(w, r2)
          BY <1>6, <4>1, <4>4, ReaderSkips
        <5>2. Consumed(r0) <= Consumed(r2)
          BY <1>6, <4>1, <4>4, ReaderSkips
        <5>3. Clear(w, r0) => Clear(w, r2)
          BY <1>6, <4>1, <4>4, ReaderSkips
        <5>4. r2.nextSeq = startSeq /\ r2.buffer = r0.buffer /\ r2.ooo = r0.ooo /\ r2.closed = r0.closed
          BY <4>1, <4>4 DEF UpdateNextSeq, ReaderOK, Readers
        <5> QED BY <5>1, <5>2, <5>3, <5>4
      <4> QED BY <4>2, <4>3 DEF r0, w
    <3>5. g \in known => Clear(Range(wire[g]), r1)
      BY <1>10, <3>4
    <3> HIDE DEF r1
    <3>6. r1 \in Readers
      BY <3>4 DEF ReaderOK
    <3>7. readers' \in [Streams -> Readers] /\ r = r1 /\ \A h \in Streams : h # g => readers'[h] = readers[h]
      BY <1>6, <3>1, <3>6
    <3>8. startSeq <= startSeq /\ readers[g].nextSeq <= startSeq
      BY <1>6, <1>7, <3>1
    <3> QED BY <1>7, <3>4, <3>5, <3>7, <3>8
  <2> QED BY <2>1, <2>2
<1> HIDE DEF asked
<1>12. TypesOK'
  <2>1. JobTypes'
    BY <1>1, <1>9, NoReplyTypes DEF TypesOK, JobTypes, asked
  <2>2. MainTypes'
    BY <1>1, <1>8, <1>11 DEF TypesOK, MainTypes
  <2>3. FileTypes' /\ AckTypes' /\ LinkTypes'
    BY <1>1 DEF TypesOK, FileTypes, AckTypes, LinkTypes
  <2> QED BY <2>1, <2>2, <2>3 DEF TypesOK
<1>13. LinksOK' /\ StreamAt' /\ CorkedOK' /\ ConnectHeld' /\ CallHeld'
  BY <1>2, <1>3, <1>4
     DEF LinksOK, StreamAt, CorkedOK, Corked, CallHeld, ConnectHeld, InCall, Unlocked
<1>14. RequestOK' /\ ReplyOK'
  <2>1. /\ request'.id = lastStream /\ request'.kind = "start" /\ reply'.kind = "none"
        /\ lastStream <= lastStream
    BY <1>6, <1>9, NoReplyTypes DEF asked, Streams
  <2> QED BY <1>3, <1>4, <1>8, <2>1 DEF RequestOK, ReplyOK
<1>15. AttemptOK'
  <2>1. lastStream <= streamId
    BY <1>4, <1>6 DEF Streams
  <2> QED BY <1>2, <1>3, <1>4, <1>8, <2>1 DEF AttemptOK
<1>16. PacketsOK'
  BY <1>1, <1>3 DEF PacketsOK
<1>17. ReadersOK'
  <2>1. SUFFICES ASSUME NEW h \in Streams
                 PROVE  ReaderOK(readers'[h], window.tail, terminalEvent, eofPos)
    BY <1>3 DEF ReadersOK
  <2> QED BY <1>1, <1>11 DEF ReadersOK
<1>18. WindowRespected'
  BY <1>1, <1>11 DEF WindowRespected, Buffered
<1>19. LoopsOK'
  <2>1. SUFFICES ASSUME NEW h \in Streams
                 PROVE  LoopOK(loops[h], taken[h], readers'[h], window.tail, terminalEvent, eofPos)
    BY <1>3 DEF LoopsOK
  <2>2. LoopOK(loops[h], taken[h], readers[h], window.tail, terminalEvent, eofPos)
    BY <1>1 DEF LoopsOK
  <2>3. CASE h # g
    BY <1>11, <2>2, <2>3
  <2>4. CASE h = g
    <3>1. loops[h].at = "none"
      BY <1>2, <2>4 DEF AttemptOK
    <3> QED BY <2>2, <3>1 DEF LoopOK
  <2> QED BY <2>3, <2>4
<1>20. ASSUME NEW h \in known, h = g PROVE FlowOK(h)'
  <2>1. FlowOK(h)
    BY <1>1 DEF FlowsOK
  <2>2. PICK base \in Nat :
         Sender(Range(wire[h]), readers[h], base, SendPos, window.head + rwndSize)
    BY <1>4, <1>20, <2>1 DEF FlowOK
  <2>3. /\ r \in Readers /\ readers[g] \in Readers
    BY <1>6, <1>11
  <2>4. SendPos = window.head
    BY <1>2, <1>5, <1>6 DEF SendPos, CorkedOK
  <2>5. Sender(Range(wire[h]), r, base, SendPos, window.head + rwndSize)
    <3>1. r.nextSeq \in Nat
      BY <2>3, ReaderFields
    <3>2. r.nextSeq <= SendPos
      BY <1>5, <1>6, <1>11, <2>4, <3>1
    <3> QED BY <1>11, <1>20, <2>2, <3>2 DEF Sender
  <2>6. Bound(Range(wire[h]), r, base) /\ Clear(Range(wire[h]), r)
    <3>1. r.buffer = <<>> /\ DataOf(Range(wire[h]) \cup r.ooo) = {}
      BY <1>11, <1>20 DEF NoData
    <3> QED BY <1>11, <1>20, <3>1 DEF Bound
  <2>7. AcksOK(Range(ackWire[h]), r)
    <3>1. Range(ackWire[h]) \in SUBSET AckRecords /\ AcksOK(Range(ackWire[h]), readers[g])
      BY <1>6, <1>10, <1>20 DEF AckTypes, Range
    <3>2. readers[g].nextSeq <= r.nextSeq /\ Consumed(readers[g]) <= Consumed(r)
      BY <1>11
    <3> HIDE DEF r
    <3> QED BY <2>3, <3>1, <3>2, AcksStay
  <2>8. wire' = wire /\ ackWire' = ackWire /\ readers'[h] = r
    BY <1>20
  <2> HIDE DEF r
  <2> QED BY <1>3, <2>1, <2>5, <2>6, <2>7, <2>8 DEF FlowOK
<1>21. FlowsOK'
  <2>1. SUFFICES ASSUME NEW h \in known' PROVE FlowOK(h)'
    BY DEF FlowsOK
  <2>2. CASE h = g
    BY <1>20, <2>2
  <2>3. CASE h # g
    <3>1. h \in Streams /\ h \in known
      BY <1>6
    <3>2. FlowOK(h)
      BY <1>1, <3>1 DEF FlowsOK
    <3>3. readers'[h] = readers[h]
      BY <1>11, <2>3, <3>1
    <3> QED BY <1>3, <3>2, <3>3 DEF FlowOK
  <2> QED BY <2>2, <2>3
<1>22. QuietOK'
  <2>1. ASSUME NEW h \in Streams, h > streamId
        PROVE  wire'[h] = <<>> /\ readers'[h].ooo = {} /\ readers'[h].buffer = <<>>
    BY <1>1, <1>11, <2>1 DEF QuietOK
  <2>2. \A h \in Streams : h > g => ackWire'[h] = <<>>
    BY <1>1 DEF QuietOK
  <2>3. NoData(Range(wire'[streamId]), readers'[streamId])
    BY <1>4, <1>11
  <2>4. readers'[g].nextSeq <= window.tail
    <3>1. r.nextSeq \in Nat
      BY <1>6, <1>11, ReaderFields
    <3> QED BY <1>5, <1>6, <1>11, <3>1
  <2> QED BY <1>3, <1>8, <1>11, <2>1, <2>2, <2>3, <2>4 DEF QuietOK
<1> QED BY <1>3, <1>12, <1>13, <1>14, <1>15, <1>16, <1>17, <1>18, <1>19, <1>21, <1>22
        DEF DurableInv, StreamsOK, ProtocolOK, CallOK, RpcOK


\* The answer to PrepareConnect.
LEMMA PreparedStep ==
    ASSUME DurableInv, Prepared
    PROVE  DurableInv' /\ Grown
<1>1. /\ attempt.at = "prepare" /\ reply.kind = "prepare" /\ reply' = NoReply
      /\ UNCHANGED smVars
      /\ UNCHANGED <<link, wire, writers, jm, call, loops, taken, file, disk, current, lastStream>>
  BY DEF Prepared, AttemptUnchanged, jmVars
<1>2. CASE ~reply.ok
  <2>1. GiveUp /\ UNCHANGED <<request, gap>>
    BY <1>2 DEF Prepared
  <2> QED BY <1>1, <2>1, GiveUpStep
<1>3. CASE reply.ok /\ reply.done
  <2>1. GiveUp /\ UNCHANGED <<request, gap>>
    BY <1>3 DEF Prepared
  <2> QED BY <1>1, <2>1, GiveUpStep
<1>4. CASE reply.ok /\ ~reply.done
  <2>1. /\ request' = [kind |-> "start", id |-> lastStream]
        /\ attempt' = [attempt EXCEPT !.at = "start"] /\ UNCHANGED <<ackWire, known>>
        /\ IF reply.seq > attempt.seq
           THEN /\ gap' = attempt.gap + (reply.seq - attempt.seq)
                /\ readers' = [readers EXCEPT ![lastStream] = UpdateNextSeq(@, reply.seq)]
           ELSE UNCHANGED <<gap, readers>>
    BY <1>4 DEF Prepared
  <2>2. reply.seq = startSeq /\ startSeq \in Nat /\ gap \in Nat /\ attempt.gap \in Nat /\ attempt.seq \in Nat
    <3>1. ReplyOK /\ SmTypeOK /\ TypesOK
      BY ProtocolParts DEF DurableInv, SmInv
    <3>2. reply.seq = startSeq
      BY <1>1, <1>4, <3>1 DEF ReplyOK
    <3> QED BY <3>1, <3>2 DEF SmTypeOK, TypesOK, FileTypes, MainTypes
  <2>3. gap' \in Nat
    <3>1. CASE reply.seq > attempt.seq
      <4>1. reply.seq - attempt.seq \in Nat
        BY <2>2, <3>1
      <4> QED BY <2>1, <2>2, <3>1, <4>1
    <3>2. CASE ~(reply.seq > attempt.seq)
      BY <2>1, <2>2, <3>2
    <3> QED BY <3>1, <3>2
  <2>4. \/ readers' = readers /\ reply.seq <= attempt.seq
        \/ /\ reply.seq > attempt.seq
           /\ readers' = [readers EXCEPT ![lastStream] = UpdateNextSeq(@, reply.seq)]
    BY <2>1, <2>2
  <2> QED BY <1>1, <1>4, <2>1, <2>3, <2>4, PreparedGoesOn
<1> QED BY <1>2, <1>3, <1>4

\* No answer in time.
LEMMA AttemptTimesOutStep ==
    ASSUME DurableInv, AttemptTimesOut
    PROVE  DurableInv' /\ Grown
<1>1. /\ attempt.at \in {"prepare", "start", "starting"} /\ reply' = NoReply /\ GiveUp
      /\ UNCHANGED smVars
      /\ UNCHANGED <<link, wire, writers, jm, call, request, loops, taken, file, gap, disk,
                     current, lastStream>>
  BY DEF AttemptTimesOut, AttemptUnchanged, jmVars
<1> QED BY <1>1, GiveUpStep

\* The output loop of the new stream starts.
LEMMA LoopStarts ==
    ASSUME DurableInv, attempt.at \in {"start", "starting"}, UNCHANGED smVars,
           UNCHANGED <<link, wire, ackWire, writers, jm, call, request, readers, known, taken,
                       file, gap, disk, current, lastStream>>,
           reply' = NoReply, attempt' = IdleAttempt,
           loops' = [loops EXCEPT ![lastStream] =
                      [at |-> "reading", from |-> Consumed(readers[lastStream]),
                       bytes |-> <<>>, err |-> "none"]]
    PROVE  DurableInv' /\ Grown
<1>1. /\ SmInv /\ TypesOK /\ ProtocolOK /\ PacketsOK /\ ReadersOK /\ WindowRespected
      /\ LoopsOK /\ FlowsOK /\ QuietOK /\ StreamsOK
  BY DEF DurableInv, StreamsOK
<1>2. /\ LinksOK /\ StreamAt /\ CallHeld /\ ConnectHeld /\ CorkedOK /\ RequestOK /\ ReplyOK /\ AttemptOK
  BY <1>1, ProtocolParts
<1>3. /\ SmInv' /\ Grown /\ SendPos' = SendPos
      /\ UNCHANGED <<window, terminalEvent, eofPos, connected, streamId, rwndSize,
                     sentNotAcked, startSeq, connecting>>
  BY <1>1, SenderRests
<1> DEFINE g == lastStream
           r == readers[g]
           c == Consumed(r)
           l == [at |-> "reading", from |-> c, bytes |-> <<>>, err |-> "none"]
<1>4. /\ g \in Streams /\ r \in Readers /\ loops \in [Streams -> Loops]
      /\ streamId = g /\ ~r.closed /\ r.nextSeq <= window.tail
  BY <1>1, <1>2, StreamNumbers DEF TypesOK, MainTypes, AttemptOK, QuietOK
<1>5. c \in Nat
  <2>1. c \in Int /\ 0 <= c
    BY <1>1, <1>4, ReaderFields DEF ReadersOK, ReaderOK
  <2> HIDE DEF c
  <2> QED BY <2>1
<1>6. loops[g].at = "none" /\ taken[g] = <<>>
  BY <1>1, <1>2, <1>4 DEF AttemptOK, LoopsOK, LoopOK
<1>7. loops' = [loops EXCEPT ![g] = l]
  OBVIOUS
<1> HIDE DEF r, c
<1>8. l \in Loops /\ l.at = "reading" /\ l.from = c /\ l.bytes = <<>> /\ l.err = "none"
  <2>1. <<>> \in Seq(Nat)
    OBVIOUS
  <2> QED BY <1>5, <2>1 DEF Loops
<1> HIDE DEF l
<1>9. loops'[g] = l /\ loops' \in [Streams -> Loops] /\ \A h \in Streams : h # g => loops'[h] = loops[h]
  BY <1>4, <1>7, <1>8
<1>10. LoopOK(l, <<>>, r, window.tail, terminalEvent, eofPos)
  <2>1. l.from + Len(<<>>) = Consumed(r)
    BY <1>5, <1>8 DEF c
  <2> QED BY <1>4, <1>8, <2>1 DEF LoopOK
<1>11. TypesOK'
  <2>1. JobTypes'
    BY <1>1, NoReplyTypes DEF TypesOK, JobTypes
  <2>2. MainTypes'
    BY <1>1, <1>9, IdleTypes DEF TypesOK, MainTypes
  <2> QED BY <1>1, <2>1, <2>2 DEF TypesOK, LinkTypes, FileTypes, AckTypes
<1>12. LinksOK' /\ StreamAt' /\ CorkedOK' /\ ConnectHeld'
  BY <1>2, <1>3 DEF LinksOK, StreamAt, CorkedOK, Corked, ConnectHeld, InCall, Unlocked
<1>13. CallHeld'
  BY <1>2, <1>3, IdleTypes DEF CallHeld, Unlocked
<1>14. RequestOK' /\ ReplyOK'
  BY <1>2, <1>3, IdleTypes, NoReplyTypes DEF RequestOK, ReplyOK, Behind
<1>15. AttemptOK'
  <2>1. \A h \in Streams : h > g => loops'[h].at = "none"
    <3>1. SUFFICES ASSUME NEW h \in Streams, h > g PROVE loops'[h].at = "none"
      OBVIOUS
    <3>2. h # g /\ loops[h].at = "none"
      BY <1>2, <1>4, <3>1 DEF AttemptOK, Streams
    <3> QED BY <1>9, <3>2
  <2>2. \A h \in known : h <= streamId
    BY <1>2, <1>4 DEF AttemptOK
  <2> QED BY <1>2, <1>3, <2>1, <2>2, IdleTypes DEF AttemptOK
<1>16. PacketsOK' /\ ReadersOK' /\ WindowRespected'
  BY <1>1, <1>3 DEF PacketsOK, ReadersOK, WindowRespected
<1>17. LoopsOK'
  <2>1. SUFFICES ASSUME NEW h \in Streams
                 PROVE  LoopOK(loops'[h], taken[h], readers[h], window.tail, terminalEvent, eofPos)
    BY <1>3 DEF LoopsOK
  <2>2. CASE h = g
    BY <1>6, <1>9, <1>10, <2>2 DEF r
  <2>3. CASE h # g
    BY <1>1, <1>9, <2>3 DEF LoopsOK
  <2> QED BY <2>2, <2>3
<1>18. FlowsOK'
  BY <1>1, <1>3, FlowsKept
<1>19. QuietOK'
  <2>1. Corked' = Corked
    BY <1>3 DEF Corked, InCall
  <2> QED BY <1>1, <1>3, <2>1, IdleTypes DEF QuietOK
<1> QED BY <1>3, <1>11, <1>12, <1>13, <1>14, <1>15, <1>16, <1>17, <1>18, <1>19
        DEF DurableInv, StreamsOK, ProtocolOK, CallOK, RpcOK

\* The answer to StartStream.
LEMMA StartedStep ==
    ASSUME DurableInv, Started
    PROVE  DurableInv' /\ Grown
<1>1. /\ attempt.at \in {"start", "starting"} /\ reply' = NoReply
      /\ UNCHANGED smVars
      /\ UNCHANGED <<link, wire, writers, jm, call, request, taken, file, gap, disk, current, lastStream>>
  BY DEF Started, AttemptUnchanged, jmVars
<1>2. CASE reply.ok
  <2>1. /\ attempt' = IdleAttempt /\ UNCHANGED <<ackWire, readers, known>>
        /\ loops' = [loops EXCEPT ![lastStream] =
                      [at |-> "reading", from |-> Consumed(readers[lastStream]),
                       bytes |-> <<>>, err |-> "none"]]
    BY <1>2 DEF Started, readerVars, Consumed
  <2> QED BY <1>1, <2>1, LoopStarts
<1>3. CASE ~reply.ok
  <2>1. GiveUp /\ UNCHANGED loops
    BY <1>3 DEF Started
  <2> QED BY <1>1, <2>1, GiveUpStep
<1> QED BY <1>2, <1>3


-----------------------------------------------------------------------------
(* Faults, and what is written to disk.                                    *)

\* A stream's flow when some of what was on its way is lost.
LEMMA FlowLoses ==
    ASSUME NEW w \in Seq(Packets), NEW k \in 0 .. Len(w), Ordered(w)
    PROVE  Ordered(SubSeq(w, 1, k))
<1> DEFINE v == SubSeq(w, 1, k)
<1>1. v \in Seq(Packets) /\ Len(v) = k /\ \A i \in 1 .. k : v[i] = w[i]
  BY CutOff
<1> HIDE DEF v
<1>2. SUFFICES ASSUME NEW i \in 1 .. k, NEW j \in 1 .. k, i < j
               PROVE  PacketEnd(v[i]) <= v[j].seq
  BY <1>1 DEF Ordered, v
<1>3. i \in DOMAIN w /\ j \in DOMAIN w /\ v[i] = w[i] /\ v[j] = w[j]
  BY <1>1
<1> QED BY <1>2, <1>3 DEF Ordered

\* A connection is lost, with some of what was on its way.
LEMMA DropStep ==
    ASSUME DurableInv, Drop
    PROVE  DurableInv' /\ Grown
<1>1. /\ SmInv /\ TypesOK /\ ProtocolOK /\ PacketsOK /\ ReadersOK /\ WindowRespected
      /\ LoopsOK /\ FlowsOK /\ QuietOK
  BY DEF DurableInv, StreamsOK
<1>2. /\ LinksOK /\ StreamAt /\ CallHeld /\ ConnectHeld /\ CorkedOK /\ RequestOK /\ ReplyOK /\ AttemptOK
  BY <1>1, ProtocolParts
<1>3. /\ UNCHANGED smVars
      /\ UNCHANGED <<writers, jm, call, readers, known, loops, taken, file, gap, disk,
                     current, attempt, lastStream>>
      /\ request' = NoRequest /\ reply' = NoReply
  BY DEF Drop, jmVars, readerVars, loopVars, fileVars, mainVars
<1>4. /\ SmInv' /\ Grown /\ SendPos' = SendPos
      /\ UNCHANGED <<window, terminalEvent, eofPos, connected, streamId, rwndSize,
                     sentNotAcked, startSeq, connecting>>
  BY <1>1, <1>3, SenderRests
<1>5. PICK g \in Streams :
         /\ link[g] = "up" /\ link' = [link EXCEPT ![g] = "down"]
         /\ \E k \in 0 .. Len(wire[g]) : wire' = [wire EXCEPT ![g] = SubSeq(@, 1, k)]
         /\ \E k \in 0 .. Len(ackWire[g]) : ackWire' = [ackWire EXCEPT ![g] = SubSeq(@, 1, k)]
  BY DEF Drop
<1>6. PICK k \in 0 .. Len(wire[g]) : wire' = [wire EXCEPT ![g] = SubSeq(@, 1, k)]
  BY <1>5
<1>7. PICK m \in 0 .. Len(ackWire[g]) : ackWire' = [ackWire EXCEPT ![g] = SubSeq(@, 1, m)]
  BY <1>5
<1>8. /\ wire \in [Streams -> Seq(Packets)] /\ wire[g] \in Seq(Packets) /\ AckTypes
      /\ ackWire \in [Streams -> Seq(AckRecords)] /\ ackWire[g] \in Seq(AckRecords)
      /\ link \in [Streams -> {"none", "up", "down"}] /\ known \subseteq Streams
  BY <1>1 DEF TypesOK, LinkTypes, MainTypes, AckTypes
<1>9. /\ wire' \in [Streams -> Seq(Packets)]
      /\ \A h \in Streams : /\ Range(wire'[h]) \subseteq Range(wire[h])
                            /\ Ordered(wire[h]) => Ordered(wire'[h])
                            /\ wire[h] = <<>> => wire'[h] = <<>>
  <2> DEFINE v == SubSeq(wire[g], 1, k)
  <2>1. /\ v \in Seq(Packets) /\ Range(v) \subseteq Range(wire[g])
        /\ k = 0 => v = <<>>
    BY <1>8, CutOff
  <2>2. Ordered(wire[g]) => Ordered(v)
    BY <1>8, FlowLoses
  <2>3. wire[g] = <<>> => k = 0
    OBVIOUS
  <2>4. wire' = [wire EXCEPT ![g] = v]
    BY <1>6
  <2> HIDE DEF v
  <2> QED BY <1>8, <2>1, <2>2, <2>3, <2>4
<1>10. /\ ackWire' \in [Streams -> Seq(AckRecords)]
       /\ \A h \in Streams : /\ Range(ackWire'[h]) \subseteq Range(ackWire[h])
                             /\ ackWire[h] = <<>> => ackWire'[h] = <<>>
  <2> DEFINE v == SubSeq(ackWire[g], 1, m)
  <2>1. /\ v \in Seq(AckRecords) /\ Range(v) \subseteq Range(ackWire[g])
        /\ m = 0 => v = <<>>
    BY <1>8, CutOff
  <2>2. ackWire[g] = <<>> => m = 0
    OBVIOUS
  <2>3. ackWire' = [ackWire EXCEPT ![g] = v]
    BY <1>7
  <2> HIDE DEF v
  <2> QED BY <1>8, <2>1, <2>2, <2>3
<1>11. /\ link' \in [Streams -> {"none", "up", "down"}]
       /\ \A h \in Streams : link'[h] = link[h] \/ (link'[h] = "down" /\ link[h] = "up")
  BY <1>5, <1>8
<1>12. TypesOK'
  <2>1. AckTypes'
    BY <1>8, <1>10, AcksRemain
  <2>2. JobTypes' /\ MainTypes' /\ FileTypes'
    BY <1>1, <1>3, NoReplyTypes DEF TypesOK, JobTypes, MainTypes, FileTypes
  <2> QED BY <1>9, <1>11, <2>1, <2>2 DEF TypesOK, LinkTypes
<1>13. LinksOK'
  BY <1>2, <1>3, <1>11 DEF LinksOK
<1>14. StreamAt' /\ CallHeld' /\ ConnectHeld' /\ CorkedOK' /\ AttemptOK'
  BY <1>2, <1>3, <1>4
     DEF StreamAt, CallHeld, ConnectHeld, CorkedOK, AttemptOK, Behind, Corked, InCall, Unlocked
<1>15. RequestOK' /\ ReplyOK'
  BY <1>3 DEF RequestOK, ReplyOK, NoRequest, NoReply
<1>16. PacketsOK'
  <2>1. SUFFICES ASSUME NEW h \in Streams, NEW p \in Range(wire'[h])
                 PROVE  PacketOK(p, window.tail, terminalEvent, eofPos)
    BY <1>4 DEF PacketsOK
  <2>2. p \in Range(wire[h])
    BY <1>9
  <2> QED BY <1>1, <2>2 DEF PacketsOK
<1>17. ReadersOK' /\ WindowRespected' /\ LoopsOK'
  BY <1>1, <1>3, <1>4 DEF ReadersOK, WindowRespected, LoopsOK
<1>18. FlowsOK'
  <2>1. SUFFICES ASSUME NEW h \in known PROVE FlowOK(h)'
    BY <1>3 DEF FlowsOK
  <2>2. FlowOK(h) /\ h \in Streams
    BY <1>1, <1>8 DEF FlowsOK
  <2>3. /\ Range(wire'[h]) \subseteq Range(wire[h]) /\ Ordered(wire'[h])
        /\ Range(ackWire'[h]) \subseteq Range(ackWire[h]) /\ readers'[h] = readers[h]
    BY <1>3, <1>9, <1>10, <2>2 DEF FlowOK
  <2>4. PICK base \in Nat :
         /\ Bound(Range(wire[h]), readers[h], base)
         /\ connected /\ streamId = h =>
              Sender(Range(wire[h]), readers[h], base, SendPos, window.head + rwndSize)
    BY <2>2 DEF FlowOK
  <2>5. AcksOK(Range(ackWire'[h]), readers[h])
    BY <2>2, <2>3 DEF FlowOK, AcksOK
  <2>6. DataOf(Range(wire'[h]) \cup readers[h].ooo) \subseteq DataOf(Range(wire[h]) \cup readers[h].ooo)
    BY <2>3 DEF DataOf
  <2>7. Clear(Range(wire'[h]), readers[h])
    BY <2>2, <2>3, <2>6 DEF FlowOK, Clear
  <2>8. Bound(Range(wire'[h]), readers[h], base)
    BY <2>4, <2>6 DEF Bound
  <2>9. connected /\ streamId = h =>
              Sender(Range(wire'[h]), readers[h], base, SendPos, window.head + rwndSize)
    BY <2>3, <2>4 DEF Sender
  <2> QED BY <1>4, <2>3, <2>5, <2>7, <2>8, <2>9 DEF FlowOK
<1>19. QuietOK'
  <2>1. Corked' = Corked
    BY <1>3, <1>4 DEF Corked, InCall
  <2>2. streamId \in Streams
    BY <1>1, StreamNumbers
  <2>3. Corked => NoData(Range(wire'[streamId]), readers[streamId])
    <3>1. NoData(Range(wire[streamId]), readers[streamId]) => NoData(Range(wire'[streamId]), readers[streamId])
      BY <1>9, <2>2 DEF NoData, DataOf
    <3> QED BY <1>1, <3>1 DEF QuietOK
  <2> QED BY <1>1, <1>3, <1>4, <1>9, <1>10, <2>1, <2>3 DEF QuietOK
<1> QED BY <1>4, <1>12, <1>13, <1>14, <1>15, <1>16, <1>17, <1>18, <1>19
        DEF DurableInv, StreamsOK, ProtocolOK, CallOK, RpcOK

\* A stream without a reader.
LEMMA NoReaderHolds ==
    ASSUME NEW tail, NEW event, NEW end
    PROVE  ReaderOK(NoReader, tail, event, end) /\ Buffered(NoReader) <= ReadWindow
<1> DEFINE r == NoReader
           held == UNION {{pkt} \X (1 .. pkt.n) : pkt \in r.ooo}
<1>1. /\ r \in Readers /\ r.nextSeq = 0 /\ r.buffer = <<>> /\ r.ooo = {} /\ ~r.eof /\ r.err = "none"
  BY NoReaderFields DEF r
<1>2. IsFiniteSet(r.ooo) /\ ReadWindow \in Nat
  BY <1>1, FS_EmptySet, ReaderAssumption
<1>3. Buffered(r) = Len(r.buffer) + Cardinality(held) /\ held = {}
  BY <1>1 DEF Buffered
<1> HIDE DEF r, held
<1>4. r.nextSeq = 0 /\ Len(r.buffer) = 0
  BY <1>1
<1>5. Consumed(r) = 0
  BY <1>4 DEF Consumed
<1>6. Cardinality(held) = 0
  BY <1>3, FS_EmptySet
<1>7. ReaderOK(r, tail, event, end)
  BY <1>1, <1>2, <1>4, <1>5 DEF ReaderOK
<1>8. Buffered(r) <= ReadWindow
  BY <1>2, <1>3, <1>4, <1>6
<1> QED BY <1>7, <1>8 DEF r

\* The main server is killed.
LEMMA CrashStep ==
    ASSUME DurableInv, Crash
    PROVE  DurableInv' /\ Grown
<1>1. /\ SmInv /\ TypesOK /\ ProtocolOK /\ PacketsOK /\ ReadersOK /\ WindowRespected
      /\ LoopsOK /\ FlowsOK /\ QuietOK
  BY DEF DurableInv, StreamsOK
<1>2. /\ LinksOK /\ StreamAt /\ CallHeld /\ ConnectHeld /\ CorkedOK /\ RequestOK /\ ReplyOK /\ AttemptOK
  BY <1>1, ProtocolParts
<1>3. /\ UNCHANGED smVars
      /\ UNCHANGED <<ackWire, writers, jm, call, disk, current, lastStream>>
      /\ link' = [g \in Streams |-> IF link[g] = "up" THEN "down" ELSE link[g]]
      /\ wire' = [g \in Streams |-> <<>>]
      /\ request' = NoRequest /\ reply' = NoReply
      /\ readers' = [g \in Streams |-> NoReader] /\ known' = {}
      /\ loops' = [g \in Streams |-> NoLoop] /\ taken' = [g \in Streams |-> <<>>]
      /\ file' = disk.file /\ gap' = disk.gap /\ attempt' = IdleAttempt
  BY DEF Crash, jmVars
<1>4. /\ SmInv' /\ Grown /\ SendPos' = SendPos
      /\ UNCHANGED <<window, terminalEvent, eofPos, connected, streamId, rwndSize,
                     sentNotAcked, startSeq, connecting>>
  BY <1>1, <1>3, SenderRests
<1>5. NoLoop \in Loops /\ NoLoop.at = "none"
  <2>1. <<>> \in Seq(Nat)
    OBVIOUS
  <2> QED BY <2>1 DEF NoLoop, Loops
<1>6. TypesOK'
  <2>1. LinkTypes'
    <3>1. <<>> \in Seq(Packets)
      OBVIOUS
    <3> QED BY <1>1, <1>3, <3>1 DEF TypesOK, LinkTypes
  <2>2. JobTypes'
    BY <1>1, <1>3, NoReplyTypes DEF TypesOK, JobTypes
  <2>3. MainTypes'
    <3>1. <<>> \in Seq(Nat)
      OBVIOUS
    <3>2. readers' \in [Streams -> Readers]
      BY <1>3, NoReaderFields
    <3> QED BY <1>1, <1>3, <1>5, <3>1, <3>2, IdleTypes DEF TypesOK, MainTypes
  <2>4. FileTypes' /\ AckTypes'
    BY <1>1, <1>3 DEF TypesOK, FileTypes, AckTypes
  <2> QED BY <2>1, <2>2, <2>3, <2>4 DEF TypesOK
<1>7. LinksOK' /\ StreamAt'
  BY <1>2, <1>3, <1>4 DEF LinksOK, StreamAt
<1>8. CallHeld' /\ ConnectHeld' /\ CorkedOK'
  BY <1>2, <1>3, <1>4, IdleTypes DEF CallHeld, ConnectHeld, CorkedOK, Corked, InCall, Unlocked
<1>9. RequestOK' /\ ReplyOK'
  BY <1>3 DEF RequestOK, ReplyOK, NoRequest, NoReply
<1>10. AttemptOK'
  BY <1>2, <1>3, <1>5, IdleTypes DEF AttemptOK
<1>11. PacketsOK'
  BY <1>3 DEF PacketsOK, Range
<1>12. \A g \in Streams : readers'[g] = NoReader /\ loops'[g] = NoLoop /\ taken'[g] = <<>>
  BY <1>3
<1>13. ReaderOK(NoReader, window.tail, terminalEvent, eofPos) /\ Buffered(NoReader) <= ReadWindow
  BY NoReaderHolds
<1>14. ReadersOK' /\ WindowRespected'
  BY <1>4, <1>12, <1>13 DEF ReadersOK, WindowRespected
<1>15. LoopsOK'
  <2>1. LoopOK(NoLoop, <<>>, NoReader, window.tail, terminalEvent, eofPos)
    BY DEF LoopOK, NoLoop
  <2> QED BY <1>4, <1>12, <2>1 DEF LoopsOK
<1>16. FlowsOK'
  BY <1>3 DEF FlowsOK
<1>17. QuietOK'
  <2>1. \A g \in Streams : wire'[g] = <<>> /\ readers'[g].ooo = {} /\ readers'[g].buffer = <<>>
    BY <1>3, <1>12, NoReaderFields
  <2>2. streamId \in Streams
    BY <1>1, StreamNumbers
  <2>3. NoData(Range(wire'[streamId]), readers'[streamId])
    <3>1. Range(wire'[streamId]) = {}
      BY <2>1, <2>2 DEF Range
    <3> QED BY <2>1, <2>2, <3>1 DEF NoData, DataOf
  <2>4. \A g \in Streams : g > lastStream => ackWire[g] = <<>>
    BY <1>1 DEF QuietOK
  <2> QED BY <1>3, <1>4, <2>1, <2>3, <2>4, IdleTypes DEF QuietOK
<1> QED BY <1>4, <1>6, <1>7, <1>8, <1>9, <1>10, <1>11, <1>14, <1>15, <1>16, <1>17
        DEF DurableInv, StreamsOK, ProtocolOK, CallOK, RpcOK

\* Whatever only the file and the database see.
LEMMA FileStep ==
    ASSUME DurableInv, UNCHANGED smVars,
           UNCHANGED <<link, wire, ackWire, writers, jm, call, request, reply, readers, known, loops, taken,
                       current, attempt, lastStream>>, FileTypes'
    PROVE  DurableInv' /\ Grown
<1>1. /\ SmInv /\ TypesOK /\ ProtocolOK /\ StreamsOK
  BY DEF DurableInv
<1>2. /\ SmInv' /\ Grown /\ SendPos' = SendPos
      /\ UNCHANGED <<window, terminalEvent, eofPos, connected, streamId, rwndSize,
                     sentNotAcked, startSeq, connecting>>
  BY <1>1, SenderRests
<1>3. TypesOK'
  BY <1>1 DEF TypesOK, LinkTypes, AckTypes, JobTypes, MainTypes
<1>4. ProtocolOK'
  <2>1. window.head <= window'.head /\ window'.head \in Nat
    BY <1>1, <1>2, WindowFacts
  <2> QED BY <1>1, <1>2, <2>1, ProtocolKept
<1>5. PacketsOK' /\ ReadersOK' /\ WindowRespected' /\ LoopsOK'
  BY <1>1, <1>2, StreamsKept
<1>6. FlowsOK'
  BY <1>1, <1>2, FlowsKept DEF StreamsOK
<1>7. QuietOK'
  BY <1>1, <1>2, QuietKept
<1> QED BY <1>2, <1>3, <1>4, <1>5, <1>6, <1>7 DEF DurableInv, StreamsOK

\* The flusher.
LEMMA FlushStep ==
    ASSUME DurableInv, Flush
    PROVE  DurableInv' /\ Grown
<1>1. /\ UNCHANGED smVars
      /\ UNCHANGED <<link, wire, ackWire, writers, jm, call, request, reply, readers, known, loops, taken,
                     current, attempt, lastStream, file, gap>>
      /\ disk' = [file |-> file, gap |-> gap]
  BY DEF Flush, connVars, jmVars, rpcVars, readerVars, loopVars, mainVars
<1>2. FileTypes'
  BY <1>1 DEF FileTypes, DurableInv, TypesOK
<1> QED BY <1>1, <1>2, FileStep


-----------------------------------------------------------------------------
(* The theorems.                                                           *)

\* StartJob's answer finds everything in order.
LEMMA DurableStartHolds == DurableInit => DurableInv
<1> SUFFICES ASSUME DurableInit PROVE DurableInv
  OBVIOUS
<1>1. /\ window = AfterSetEffectiveWindow(EmptyWindow(TRUE), TRUE, Effective(ReadWindow))
      /\ writer = IdleWriter
      /\ readLoop = "top" /\ signalDue = FALSE /\ terminalEvent = "none" /\ eofPos = NoEof
      /\ sender = "running"
      /\ connected = TRUE /\ streamId = 1 /\ rwndSize = ReadWindow
      /\ sentNotAcked = 0 /\ terminalEventSent = FALSE
      /\ maxAckedSeq = 0 /\ maxAckedRwnd = 0 /\ terminalEventAcked = FALSE /\ closed = FALSE
      /\ connecting = NoCall /\ startSeq = 0
  BY DEF DurableInit
<1>2. /\ link = [g \in Streams |-> IF g = 1 THEN "up" ELSE "none"]
      /\ wire = [g \in Streams |-> <<>>] /\ ackWire = [g \in Streams |-> <<>>]
      /\ writers = {1} /\ jm = [client |-> 1, pending |-> NoStream] /\ call = NoRequest
      /\ request = NoRequest /\ reply = [kind |-> "start", ok |-> TRUE]
      /\ readers = [g \in Streams |-> IF g = 1 THEN NewReader(0) ELSE NoReader]
      /\ known = {1}
      /\ loops = [g \in Streams |-> NoLoop] /\ taken = [g \in Streams |-> <<>>]
      /\ file = <<>> /\ gap = 0 /\ disk = [file |-> <<>>, gap |-> 0]
      /\ attempt = [at |-> "starting", seq |-> 0, gap |-> 0]
      /\ current = 1 /\ lastStream = 1
  BY DEF DurableInit
<1>3. MaxStreams \in Nat /\ 1 \in Streams /\ ReadWindow \in Nat /\ BufSize \in Nat
  BY StreamAssumption, DurableAssumption, ReaderAssumption, SizesAssumption DEF Streams
<1>4. window \in Windows /\ window.head = 0 /\ window.tail = 0 /\ window.sync
  <2> DEFINE limit == AtMost(Effective(ReadWindow), BufSize)
  <2>1. Effective(ReadWindow) \in Nat
    BY <1>3, EffectiveIsNat
  <2>2. limit \in 0 .. BufSize
    BY <1>3, <2>1 DEF AtMost
  <2>3. window = [head |-> 0, tail |-> 0, sync |-> TRUE, limit |-> limit]
    BY <1>1 DEF AfterSetEffectiveWindow, EmptyWindow
  <2> HIDE DEF limit
  <2> QED BY <2>2, <2>3 DEF Windows
<1>5. SmInv
  <2>1. writer \in Writers /\ ~writer.waiting
    BY <1>1, SizesAssumption DEF IdleWriter, Writers
  <2>2. connecting \in Calls /\ Unlocked
    BY <1>1 DEF Calls, Unlocked
  <2>3. signalDue \in BOOLEAN /\ connected \in BOOLEAN /\ terminalEventSent \in BOOLEAN
        /\ terminalEventAcked \in BOOLEAN /\ closed \in BOOLEAN
    BY <1>1, Zenon
  <2>4. streamId \in 0 .. MaxStreams
    BY <1>1, <1>3 DEF Streams
  <2>5. SmTypeOK
    BY <1>1, <1>3, <1>4, <2>1, <2>2, <2>3, <2>4 DEF SmTypeOK
  <2>6. BufferHolds
    BY <1>3, <1>4, <2>1 DEF BufferHolds, WindowBounded, NoLostWakeup, Count
  <2>7. SentStaysBuffered
    <3>1. sentNotAcked = 0 /\ window.sync /\ window.head = 0 /\ window.tail = 0
      BY <1>1, <1>4
    <3> QED BY <3>1 DEF SentStaysBuffered, Count
  <2> QED BY <1>1, <2>2, <2>5, <2>6, <2>7
          DEF SmInv, OutputEnds, EndIsLast, EndNotKept, ConnectingAlone, SenderNotStuck
<1>6. NoLoop \in Loops /\ NoLoop.at = "none"
  <2>1. <<>> \in Seq(Nat)
    OBVIOUS
  <2> QED BY <2>1 DEF NoLoop, Loops
<1>7. /\ NewReader(0) \in Readers /\ NewReader(0).nextSeq = 0 /\ NewReader(0).buffer = <<>>
      /\ NewReader(0).ooo = {} /\ ~NewReader(0).closed
      /\ ReaderOK(NewReader(0), window.tail, terminalEvent, eofPos)
      /\ Buffered(NewReader(0)) <= ReadWindow
  BY NewReaderFields, NewReaderStarts
<1>8. \A g \in Streams : /\ wire[g] = <<>> /\ ackWire[g] = <<>> /\ loops[g] = NoLoop /\ taken[g] = <<>>
                         /\ readers[g] = IF g = 1 THEN NewReader(0) ELSE NoReader
                         /\ link[g] = IF g = 1 THEN "up" ELSE "none"
  BY <1>2
<1>9. TypesOK
  <2>1. <<>> \in Seq(Packets) /\ <<>> \in Seq(AckRecords) /\ <<>> \in Seq(Nat) /\ Range(<<>>) = {}
    BY DEF Range
  <2>2. LinkTypes
    BY <1>2, <2>1 DEF LinkTypes
  <2>3. AckTypes
    BY <1>2, <1>8, <2>1 DEF AckTypes
  <2>4. JobTypes
    <3>1. reply \in Replies
      BY <1>2 DEF Replies
    <3>2. jm \in [client : 0 .. MaxStreams, pending : 0 .. MaxStreams]
      BY <1>2, <1>3 DEF NoStream, Streams
    <3> QED BY <1>2, <1>3, <3>1, <3>2 DEF JobTypes, CallRecords, Requests
  <2>5. MainTypes
    <3>1. readers \in [Streams -> Readers]
      <4> QED BY <1>2, <1>7, NoReaderFields
    <3>2. attempt \in [at : {"idle", "stat", "create", "prepare", "start", "starting"}, seq : Nat, gap : Nat]
      BY <1>2
    <3> QED BY <1>2, <1>3, <1>6, <2>1, <3>1, <3>2 DEF MainTypes
  <2>6. FileTypes
    BY <1>2, <2>1 DEF FileTypes
  <2> QED BY <2>2, <2>3, <2>4, <2>5, <2>6 DEF TypesOK
<1>10. LinksOK
  BY <1>2, <1>8 DEF LinksOK, Streams
<1>11. StreamAt /\ CallHeld /\ ConnectHeld /\ CorkedOK
  <2>1. connected /\ streamId = 1 /\ sentNotAcked = 0 /\ startSeq = 0 /\ window.head = 0
        /\ ~terminalEventSent /\ connecting.at = "none"
    BY <1>1, <1>4 DEF NoCall
  <2>2. jm.client = 1 /\ jm.pending = NoStream /\ writers = {1} /\ lastStream = 1 /\ call = NoRequest
    BY <1>2
  <2>3. ~Corked
    <3>1. ~InCall("connecting")
      BY <2>2 DEF InCall
    <3> QED BY <2>1, <2>2, <3>1 DEF Corked, NoStream
  <2>4. StreamAt
    <3>1. \A g \in writers : g = 1
      BY <2>2
    <3>2. startSeq <= window.head /\ jm.pending <= streamId
      BY <2>1, <2>2 DEF NoStream
    <3> QED BY <2>1, <2>2, <3>1, <3>2 DEF StreamAt
  <2>5. CallHeld /\ ConnectHeld
    BY <1>1, <2>2 DEF CallHeld, ConnectHeld, Unlocked
  <2> QED BY <2>1, <2>2, <2>3, <2>4, <2>5 DEF CorkedOK, NoStream
<1>12. RequestOK /\ ReplyOK
  BY <1>2 DEF RequestOK, ReplyOK, NoRequest
<1>13. AttemptOK
  BY <1>1, <1>2, <1>3, <1>6, <1>8 DEF AttemptOK
<1>14. PacketsOK
  BY <1>8 DEF PacketsOK, Range
<1>15. ReadersOK /\ WindowRespected
  BY <1>7, <1>8, NoReaderHolds DEF ReadersOK, WindowRespected
<1>16. LoopsOK
  <2>1. \A r : LoopOK(NoLoop, <<>>, r, window.tail, terminalEvent, eofPos)
    BY DEF LoopOK, NoLoop
  <2> QED BY <1>8, <2>1 DEF LoopsOK
<1>17. FlowsOK
  <2>1. SUFFICES FlowOK(1)
    BY <1>2 DEF FlowsOK
  <2> DEFINE r == NewReader(0)
  <2>2. readers[1] = r /\ wire[1] = <<>> /\ ackWire[1] = <<>>
    BY <1>3, <1>8
  <2>3. r.nextSeq = 0 /\ r.buffer = <<>> /\ r.ooo = {}
    BY <1>7
  <2> HIDE DEF r
  <2>4. Range(wire[1]) = {} /\ Range(ackWire[1]) = {} /\ Ordered(wire[1])
    BY <2>2 DEF Range, Ordered
  <2>5. Clear(Range(wire[1]), r) /\ Bound(Range(wire[1]), r, 0) /\ AcksOK(Range(ackWire[1]), r)
    BY <2>3, <2>4 DEF Clear, Bound, AcksOK, DataOf
  <2>6. Sender(Range(wire[1]), r, 0, SendPos, window.head + rwndSize)
    <3>1. window.head = 0 /\ sentNotAcked = 0 /\ rwndSize = ReadWindow
      BY <1>1, <1>4
    <3>2. SendPos = 0 /\ window.head + rwndSize = ReadWindow
      BY <1>3, <3>1 DEF SendPos
    <3> QED BY <1>3, <2>3, <2>4, <3>2 DEF Sender
  <2> QED BY <2>2, <2>4, <2>5, <2>6 DEF FlowOK
<1>18. QuietOK
  <2>1. \A g \in Streams : g > streamId => readers[g].ooo = {} /\ readers[g].buffer = <<>>
    BY <1>1, <1>8, NoReaderFields
  <2>2. ~Corked
    BY <1>1, <1>2 DEF Corked, InCall, NoStream
  <2>3. readers[lastStream].nextSeq = 0 /\ ~readers[lastStream].closed
    BY <1>2, <1>3, <1>7, <1>8
  <2> QED BY <1>2, <1>4, <1>8, <2>1, <2>2, <2>3 DEF QuietOK
<1> QED BY <1>5, <1>9, <1>10, <1>11, <1>12, <1>13, <1>14, <1>15, <1>16, <1>17, <1>18
        DEF DurableInv, StreamsOK, ProtocolOK, CallOK, RpcOK

\* Every step of the system.
LEMMA DurableStep ==
    ASSUME DurableInv, [DurableNext]_allVars
    PROVE  DurableInv' /\ Grown
<1>1. CASE JobTurn
  <2>1. CASE SenderTransmits
    BY <2>1, SendDataStep, SendTerminalStep DEF SenderTransmits
  <2>2. CASE Connecting
    <3>1. UNCHANGED <<jmVars, rpcVars>> /\ JmUnchanged
      BY <2>2 DEF Connecting
    <3> QED BY <2>2, <3>1, ConnectGoesOn, ConnectEnds DEF Connecting, ConnectStep
  <2> QED BY <1>1, <2>1, <2>2, PtyTurnKeeps, JobReceivesAckStep, PrepareConnectStep, TakeOverStep,
             ConnectBegins, ConnectedStep, StartStreamStep DEF JobTurn
<1>2. CASE MainTurn
  BY <1>2, MainReceivesStep, LoopTurnStep, ReconnectStep, StatFileStep, CreateReaderStep,
     PreparedStep, StartedStep, AttemptTimesOutStep, FlushStep DEF MainTurn, AttemptTurn
<1>3. CASE Drop
  BY <1>3, DropStep
<1>4. CASE Crash
  BY <1>4, CrashStep
<1>5. CASE UNCHANGED allVars
  <2>1. /\ UNCHANGED smVars
        /\ UNCHANGED <<link, wire, ackWire, writers, jm, call, request, reply, readers, known, loops,
                       taken, current, attempt, lastStream, file, gap, disk>>
    BY <1>5 DEF allVars, dsVars, connVars, jmVars, rpcVars, readerVars, loopVars, fileVars, mainVars
  <2>2. FileTypes'
    BY <2>1 DEF FileTypes, DurableInv, TypesOK
  <2> QED BY <2>1, <2>2, FileStep
<1> QED BY <1>1, <1>2, <1>3, <1>4, <1>5 DEF DurableNext

\* The inductive invariant of a durable session: the stream manager's own, the protocol that
\* connects it to one stream after another, and for every stream what is held and on its way.
THEOREM DurableInvariant == DurableSpec => []DurableInv
<1>1. DurableInit => DurableInv
  BY DurableStartHolds
<1>2. DurableInv /\ [DurableNext]_allVars => DurableInv'
  BY DurableStep
<1> QED BY <1>1, <1>2, PTL DEF DurableSpec

\* Flow control holds end to end: no reader ever keeps more than the window it announced,
\* over any number of lost connections, reconnections, crashes, late acks and reorderings.
THEOREM WindowIsRespected == DurableSpec => []WindowRespected
<1>1. DurableInv => WindowRespected
  BY DEF DurableInv, StreamsOK
<1> QED BY <1>1, DurableInvariant, PTL


-----------------------------------------------------------------------------
(* What the job manager frees. *)

\* The main server's steps do not touch the stream manager.
LEMMA MainLeavesTheJob == MainTurn => UNCHANGED smVars
<1>1. ASSUME NEW g \in Streams, LoopTurn(g) PROVE UNCHANGED smVars
  BY <1>1 DEF LoopTurn, LoopReads, LoopSuperseded, LoopCurrent, LoopAppends, MainUnchanged
<1>2. CASE Reconnect \/ AttemptTurn \/ AttemptTimesOut
  BY <1>2 DEF Reconnect, AttemptTurn, StatFile, CreateReader, Prepared, Started, AttemptTimesOut,
              AttemptUnchanged
<1>3. CASE MainReceives \/ Flush
  BY <1>3 DEF MainReceives, Flush, MainUnchanged
<1> QED BY <1>1, <1>2, <1>3 DEF MainTurn

\* While a client is connected nothing but an ack moves the start of the buffer.
LEMMA OnlyAcksFree ==
    ASSUME DurableInv, [DurableNext]_allVars, connected, connected'
    PROVE  JobReceivesAck \/ window'.head = window.head
<1>1. SmInv /\ Unlocked
  BY DEF DurableInv, SmInv, ConnectingAlone
<1>2. CASE UNCHANGED window
  BY <1>2
<1>3. CASE PtyTurn
  BY <1>1, <1>3, PtyTurnMoves DEF SenderStays
<1>4. CASE TakeOver
  <2>1. ~ClientDisconnected
    BY DEF ClientDisconnected
  <2> QED BY <1>2, <1>4, <2>1 DEF TakeOver, smVars, windowVars
<1>5. CASE Connect
  <2>1. ~ClientConnected(call.id, 0, call.seq)
    BY DEF ClientConnected
  <2> QED BY <1>2, <1>5, <2>1 DEF Connect, smVars, windowVars
<1>6. CASE Connecting
  <2>1. connecting.at = "none"
    BY <1>1 DEF Unlocked, NoCall
  <2> QED BY <1>6, <2>1 DEF Connecting, ConnectStep, ConnectConsume, ConnectHeadAgain, ConnectReady
<1>7. CASE StartStream
  <2>1. CASE SetRwndSize(ReadWindow)
    <3>1. ReadWindow \in Nat /\ Effective(ReadWindow) \in Nat /\ SetEffectiveWindow(TRUE, Effective(ReadWindow))
      BY <2>1, ReaderAssumption, EffectiveIsNat DEF SetRwndSize
    <3> QED BY <1>1, <3>1, WindowSizeMoves
  <2> QED BY <1>2, <1>7, <2>1 DEF StartStream, smVars, windowVars
<1>8. CASE SenderTransmits \/ PrepareConnect \/ Connected
  BY <1>2, <1>8 DEF SenderTransmits, SendData, SendTerminal, PrepareConnect, Connected, smVars, windowVars
<1>9. CASE MainTurn
  BY <1>2, <1>9, MainLeavesTheJob DEF smVars, windowVars
<1>10. CASE Drop \/ Crash \/ UNCHANGED allVars
  BY <1>2, <1>10 DEF Drop, Crash, allVars, smVars, windowVars
<1> QED BY <1>3, <1>4, <1>5, <1>6, <1>7, <1>8, <1>9, <1>10 DEF DurableNext, JobTurn

\* An ack that frees anything names a position its reader has reached.
LEMMA FreesWhatArrived ==
    ASSUME DurableInv, JobReceivesAck, streamId \in known, window'.head # window.head
    PROVE  window'.head <= readers[streamId].nextSeq
<1>1. /\ SmInv /\ TypesOK /\ FlowsOK /\ ackWire \in [Streams -> Seq(AckRecords)]
      /\ \A g \in Streams : \A a \in Range(ackWire[g]) : a.id = g
  BY DEF DurableInv, StreamsOK, TypesOK, AckTypes
<1> PICK h \in Streams : \E i \in Deliverable(ackWire[h]) :
        IF h \in writers THEN RecvAck(ackWire[h][i]) ELSE UNCHANGED smVars
  BY DEF JobReceivesAck
<1>2. PICK i \in Deliverable(ackWire[h]) :
        IF h \in writers THEN RecvAck(ackWire[h][i]) ELSE UNCHANGED smVars
  OBVIOUS
<1> DEFINE ack == ackWire[h][i]
<1>3. ack \in AckRecords /\ ack \in Range(ackWire[h]) /\ ack.id = h
  BY <1>1, DeliveredWasSent
<1>4. h \in writers => RecvAck(ack)
  BY <1>2
<1>5. h \notin writers => window' = window
  BY <1>2 DEF smVars, windowVars
<1> HIDE DEF ack
<1>6. ack.id = streamId /\ window'.head = ack.seq
  BY <1>1, <1>3, <1>4, <1>5, AckMoves
<1>7. ack \in Range(ackWire[streamId])
  BY <1>3, <1>6
<1>8. AcksOK(Range(ackWire[streamId]), readers[streamId])
  BY <1>1 DEF FlowsOK, FlowOK
<1> QED BY <1>6, <1>7, <1>8 DEF AcksOK

\* The job manager frees, while a stream lasts and its reader is registered, only bytes that
\* reader has received: no late ack of an earlier stream, none that a retry left behind or
\* that overtook another, frees anything else.
THEOREM OnlyReceivedIsFreed == DurableSpec => KnownReaderFrees
<1>1. DurableInv /\ [DurableNext]_allVars
        => [connected /\ connected' /\ window'.head # window.head /\ streamId \in known
              => window'.head <= readers[streamId].nextSeq]_allVars
  BY OnlyAcksFree, FreesWhatArrived
<1> QED BY <1>1, DurableInvariant, PTL DEF DurableSpec, KnownReaderFrees


-----------------------------------------------------------------------------
(* What a stream promises its output loop: the steps of the contract. *)

\* Nothing but the terminal's side adds to the output or ends it.
LEMMA OnlyJobWrites ==
    ASSUME SmInv, [DurableNext]_allVars, ~PtyTurn
    PROVE  window'.tail = window.tail /\ terminalEvent' = terminalEvent
<1>1. window \in Windows /\ BufSize \in Nat /\ window.head \in Nat /\ window.tail \in Nat
  BY WindowFacts, SizesAssumption
<1>2. CASE UNCHANGED <<window, terminalEvent>>
  BY <1>2
<1>3. ASSUME NEW sync \in BOOLEAN, NEW size \in Nat, SetEffectiveWindow(sync, size)
      PROVE  window'.tail = window.tail
  BY <1>3, WindowSizeMoves
<1>4. ASSUME NEW n \in Nat, Consume(n) PROVE window'.tail = window.tail
  BY <1>1, <1>4 DEF Consume, AfterConsume, Windows
<1>5. ReadWindow \in Nat /\ Effective(ReadWindow) \in Nat
  BY ReaderAssumption, EffectiveIsNat
<1>6. CASE JobReceivesAck
  <2>1. CASE UNCHANGED smVars
    BY <1>2, <2>1 DEF smVars, windowVars, ptyVars
  <2>2. ASSUME NEW ack, RecvAck(ack)
        PROVE  window'.tail = window.tail /\ terminalEvent' = terminalEvent
    <3>1. CASE RecvFin(ack) \/ IgnoreAck(ack)
      BY <1>2, <3>1 DEF RecvFin, IgnoreAck, smVars, windowVars, ptyVars
    <3>2. CASE RecvFreshAck(ack)
      <4> DEFINE after == AfterConsume(window, ack.seq - window.head)
      <4>1. /\ terminalEvent' = terminalEvent
            /\ window' = window \/ window' = AfterSetEffectiveWindow(after, TRUE, Effective(ack.rwnd))
        BY <3>2 DEF RecvFreshAck, windowVars, ptyVars
      <4>2. after.tail = window.tail
        BY <1>1 DEF AfterConsume, Windows
      <4> HIDE DEF after
      <4> QED BY <4>1, <4>2 DEF AfterSetEffectiveWindow
    <3> QED BY <2>2, <3>1, <3>2 DEF RecvAck
  <2> QED BY <1>6, <2>1, <2>2 DEF JobReceivesAck
<1>7. CASE TakeOver
  <2>1. CASE ClientDisconnected
    BY <1>1, <1>3, <2>1 DEF ClientDisconnected, ptyVars
  <2> QED BY <1>2, <1>7, <2>1 DEF TakeOver, smVars, windowVars, ptyVars
<1>8. CASE Connecting
  <2>1. connecting \in Calls
    BY DEF SmInv, SmTypeOK
  <2>2. CASE ConnectConsume
    <3>1. connecting.clientSeq \in Nat /\ connecting.headPos \in Nat
      BY <2>2, CallFacts DEF ConnectConsume
    <3> DEFINE n == connecting.clientSeq - connecting.headPos
    <3>2. terminalEvent' = terminalEvent /\ (window' = window \/ (n > 0 /\ Consume(n)))
      BY <2>2 DEF ConnectConsume, windowVars, ptyVars
    <3>3. n > 0 => n \in Nat
      BY <3>1
    <3> HIDE DEF n
    <3> QED BY <1>4, <3>2, <3>3
  <2>3. CASE ConnectHeadAgain
    BY <1>2, <2>3 DEF ConnectHeadAgain, windowVars, ptyVars
  <2>4. CASE ConnectReady
    <3>1. connecting.rwnd \in Nat
      BY <2>4, CallFacts DEF ConnectReady
    <3>2. Effective(connecting.rwnd) \in Nat
      BY <3>1, EffectiveIsNat
    <3> QED BY <1>3, <2>4, <3>2 DEF ConnectReady, ptyVars
  <2> QED BY <1>8, <2>2, <2>3, <2>4 DEF Connecting, ConnectStep
<1>9. CASE StartStream
  <2>1. CASE SetRwndSize(ReadWindow)
    BY <1>3, <1>5, <2>1 DEF SetRwndSize, ptyVars
  <2> QED BY <1>2, <1>9, <2>1 DEF StartStream, smVars, windowVars, ptyVars
<1>10. CASE SenderTransmits \/ PrepareConnect \/ Connect \/ Connected
  BY <1>2, <1>10 DEF SenderTransmits, SendData, SendTerminal, PrepareConnect, Connect, ClientConnected,
                     Connected, smVars, windowVars, ptyVars
<1>11. CASE MainTurn
  <2>1. UNCHANGED smVars
    BY <1>11, MainLeavesTheJob
  <2> QED BY <1>2, <2>1 DEF smVars, windowVars, ptyVars
<1>12. CASE Drop \/ Crash \/ UNCHANGED allVars
  BY <1>2, <1>12 DEF Drop, Crash, allVars, smVars, windowVars, ptyVars
<1> QED BY <1>6, <1>7, <1>8, <1>9, <1>10, <1>11, <1>12 DEF DurableNext, JobTurn


\* What Read returns is the next bytes, or the end in its place.
LEMMA LoopHands ==
    ASSUME DurableInv, NEW g \in Streams, g = current, LoopReads(g)
    PROVE  [Contract!RsNext]_(Contract!rsVars)
<1>1. /\ SmInv /\ LoopsOK
      /\ terminalEvent # "none" => eofPos = window.tail
      /\ loops \in [Streams -> Loops] /\ taken \in [Streams -> Seq(Nat)]
  BY DEF DurableInv, StreamsOK, TypesOK, MainTypes, SmInv, OutputEnds
<1>2. DurableInv'
  BY LoopReadsStep
<1>3. LoopsOK' /\ loops' \in [Streams -> Loops] /\ taken' \in [Streams -> Seq(Nat)]
      /\ readers' \in [Streams -> Readers]
  BY <1>2 DEF DurableInv, StreamsOK, TypesOK, MainTypes
<1> DEFINE l == loops[g]
           t == taken[g]
           b == ReadBytesOf(readers[g])
           l1 == loops'[g]
           t1 == taken'[g]
           r1 == readers'[g]
<1>4. /\ UNCHANGED smVars /\ current' = g
      /\ l.at = "reading" /\ l1.at = "read" /\ l1.from = l.from /\ l1.bytes = b /\ t1 = t \o b
  <2>1. UNCHANGED smVars /\ current' = g /\ loops[g].at = "reading"
    BY DEF LoopReads, MainUnchanged, mainVars
  <2> DEFINE next == [at |-> "read", from |-> l.from, bytes |-> b, err |-> ReadError(readers[g])]
             more == t \o b
  <2>2. loops' = [loops EXCEPT ![g] = next] /\ taken' = [taken EXCEPT ![g] = more]
    BY DEF LoopReads
  <2>3. next.at = "read" /\ next.from = l.from /\ next.bytes = b
    OBVIOUS
  <2> HIDE DEF next, more, b
  <2>4. loops'[g] = next /\ taken'[g] = more
    BY <1>1, <2>2
  <2> QED BY <2>1, <2>3, <2>4 DEF more
<1>5. window' = window /\ terminalEvent' = terminalEvent /\ eofPos' = eofPos
  BY <1>4 DEF smVars, windowVars, ptyVars
<1>6. /\ LoopOK(l, t, readers[g], window.tail, terminalEvent, eofPos)
      /\ LoopOK(l1, t1, r1, window.tail, terminalEvent, eofPos)
  BY <1>1, <1>3, <1>5 DEF LoopsOK
<1>7. l \in Loops /\ l1 \in Loops /\ t \in Seq(Nat) /\ t1 \in Seq(Nat) /\ r1 \in Readers
      /\ window.tail \in Nat
  BY <1>1, <1>3, WindowFacts
<1>8. /\ loops'[current'] = l1 /\ taken'[current'] = t1
  BY <1>4
<1> HIDE DEF l, t, b, l1, t1, r1
<1>9. /\ l.err = "none" /\ l1.err \in {"none", "eof", "error"} /\ l.from \in Nat
      /\ l1.err # "none" => b = <<>> /\ terminalEvent = l1.err
      /\ l1.err = "eof" => l1.from + Len(t1) = eofPos
      /\ l1.from + Len(t1) = Consumed(r1) /\ r1.nextSeq <= window.tail
      /\ \A i \in DOMAIN t1 : t1[i] = l1.from + i - 1
  BY <1>4, <1>6, <1>7 DEF LoopOK, Loops
<1>10. /\ Len(t) \in Nat /\ Len(t1) \in Nat /\ Len(t1) >= Len(t) /\ (Len(t1) = Len(t) => t1 = t)
       /\ (b = <<>> => t1 = t)
  <2>1. b \in Seq(Nat)
    BY <1>4, <1>7 DEF Loops
  <2> QED BY <1>4, <1>7, <2>1
<1>11. l.from + Len(t1) <= window.tail
  <2>1. Len(r1.buffer) \in Nat /\ r1.nextSeq \in Nat
    BY <1>7, ReaderFields
  <2>2. Consumed(r1) <= r1.nextSeq
    BY <2>1 DEF Consumed
  <2> QED BY <1>4, <1>7, <1>9, <1>10, <2>1, <2>2 DEF Consumed
<1>12. t1 = [i \in 1 .. Len(t1) |-> l.from + i - 1]
  <2>1. DOMAIN t1 = 1 .. Len(t1) /\ t1 = [i \in DOMAIN t1 |-> t1[i]]
    BY <1>7
  <2>2. \A i \in DOMAIN t1 : t1[i] = l.from + i - 1
    BY <1>4, <1>9
  <2> QED BY <2>1, <2>2, Zenon
<1>13. CASE l1.err = "none" /\ Len(t1) > Len(t)
  <2>1. l.from + Len(t) + (Len(t1) - Len(t)) <= window.tail
    BY <1>9, <1>10, <1>11
  <2>2. Contract!Hand
    BY <1>4, <1>5, <1>8, <1>9, <1>12, <1>13, <2>1 DEF Contract!Hand, Contract!NextByte, l, t
  <2> QED BY <2>2 DEF Contract!RsNext
<1>14. CASE l1.err = "none" /\ ~(Len(t1) > Len(t))
  <2>1. t1 = t
    BY <1>10, <1>14
  <2> QED BY <1>4, <1>5, <1>8, <1>9, <1>14, <2>1 DEF Contract!rsVars, l, t
<1>15. CASE l1.err = "eof"
  <2>1. t1 = t /\ terminalEvent = "eof" /\ l.from + Len(t) = window.tail
    <3>1. t1 = t /\ terminalEvent = "eof"
      BY <1>9, <1>10, <1>15
    <3>2. l1.from + Len(t1) = eofPos /\ eofPos = window.tail
      BY <1>1, <1>9, <1>15, <3>1
    <3> QED BY <1>4, <3>1, <3>2
  <2>2. Contract!TellEof
    BY <1>4, <1>5, <1>8, <1>9, <1>15, <2>1 DEF Contract!TellEof, Contract!NextByte, l, t
  <2> QED BY <2>2 DEF Contract!RsNext
<1>16. CASE l1.err = "error"
  <2>1. t1 = t /\ terminalEvent = "error"
    BY <1>9, <1>10, <1>16
  <2>2. Contract!TellError
    BY <1>4, <1>5, <1>8, <1>9, <1>16, <2>1 DEF Contract!TellError, l, t
  <2> QED BY <2>2 DEF Contract!RsNext
<1> QED BY <1>9, <1>13, <1>14, <1>15, <1>16


\* The contract sees neither packets nor acks nor attempts: what leaves the output, its end
\* and the current stream's loop alone is nothing to it.
LEMMA NotSeen ==
    ASSUME UNCHANGED <<window, terminalEvent, current>>,
           UNCHANGED <<loops[current].from, loops[current].err, taken[current]>>
    PROVE  [Contract!RsNext]_(Contract!rsVars)
BY DEF Contract!rsVars

\* Another stream, or none, has taken the place of the last.
LEMMA StartsOver ==
    ASSUME UNCHANGED <<window, terminalEvent>>, DurableInv, DurableInv', NEW g \in Streams, current' = g,
           loops'[g].at \in {"none", "reading"}, taken'[g] = <<>>
    PROVE  [Contract!RsNext]_(Contract!rsVars)
<1>1. /\ SmInv /\ LoopsOK' /\ loops' \in [Streams -> Loops] /\ readers' \in [Streams -> Readers]
      /\ window.tail \in Nat
  BY WindowFacts DEF DurableInv, StreamsOK, TypesOK, MainTypes
<1> DEFINE l == loops'[g]
           r == readers'[g]
<1>2. LoopOK(l, <<>>, r, window.tail, terminalEvent', eofPos') /\ l \in Loops /\ r \in Readers
  BY <1>1 DEF LoopsOK
<1>3. loops'[current'] = l /\ taken'[current'] = <<>> /\ l.at \in {"none", "reading"}
  OBVIOUS
<1> HIDE DEF l, r
<1>4. l.err = "none" /\ l.from \in 0 .. window.tail
  <2>1. CASE l.at = "none"
    BY <1>1, <1>2, <2>1 DEF LoopOK, NoLoop
  <2>2. CASE l.at = "reading"
    <3>1. l.from + Len(<<>>) = Consumed(r) /\ r.nextSeq <= window.tail /\ l.err = "none" /\ l.from \in Nat
      BY <1>2, <2>2 DEF LoopOK, Loops
    <3>2. Len(r.buffer) \in Nat /\ r.nextSeq \in Nat
      BY <1>2, ReaderFields
    <3> QED BY <1>1, <3>1, <3>2 DEF Consumed
  <2> QED BY <1>3, <2>1, <2>2
<1>5. Contract!Restart
  BY <1>3, <1>4 DEF Contract!Restart
<1> QED BY <1>5 DEF Contract!RsNext

\* The other steps of a loop.
LEMMA LoopGoesOn ==
    ASSUME DurableInv, NEW g \in Streams, LoopTurn(g)
    PROVE  [Contract!RsNext]_(Contract!rsVars)
<1>1. /\ loops \in [Streams -> Loops] /\ taken \in [Streams -> Seq(Nat)] /\ current \in Streams
  BY DEF DurableInv, TypesOK, MainTypes
<1>2. UNCHANGED <<window, terminalEvent, current>>
  BY DEF LoopTurn, LoopReads, LoopSuperseded, LoopCurrent, LoopAppends, MainUnchanged, mainVars,
         smVars, windowVars, ptyVars
<1>3. CASE LoopReads(g) /\ g = current
  BY <1>3, LoopHands
<1>4. CASE LoopReads(g) /\ g # current
  <2>1. loops'[current] = loops[current] /\ taken'[current] = taken[current]
    BY <1>1, <1>4 DEF LoopReads
  <2> QED BY <1>2, <2>1, NotSeen
<1>5. CASE LoopSuperseded(g) \/ LoopCurrent(g) \/ LoopAppends(g)
  <2>1. taken' = taken
    BY <1>5 DEF LoopSuperseded, LoopCurrent, LoopAppends
  <2>2. \/ loops' = [loops EXCEPT ![g].at = "ended", ![g].bytes = <<>>]
        \/ loops' = [loops EXCEPT ![g].at = "append"]
        \/ loops' = [loops EXCEPT ![g].at = "reading", ![g].bytes = <<>>]
    BY <1>5 DEF LoopSuperseded, LoopCurrent, LoopAppends, LoopEnds
  <2>3. /\ loops'[g].from = loops[g].from /\ loops'[g].err = loops[g].err
        /\ \A h \in Streams : h # g => loops'[h] = loops[h]
    BY <1>1, <2>2 DEF Loops
  <2>4. loops'[current].from = loops[current].from /\ loops'[current].err = loops[current].err
    BY <1>1, <2>3
  <2> QED BY <1>2, <2>1, <2>4, NotSeen
<1> QED BY <1>3, <1>4, <1>5 DEF LoopTurn


\* A reconnect, and the answer to it.
LEMMA AttemptsStartOver ==
    ASSUME DurableInv, DurableInv', CreateReader \/ Started
    PROVE  [Contract!RsNext]_(Contract!rsVars)
<1>1. /\ loops \in [Streams -> Loops] /\ lastStream \in Streams /\ LoopsOK
      /\ attempt.at # "idle" => loops[lastStream].at = "none"
      /\ attempt.at \in {"start", "starting"} => current = lastStream
  BY DEF DurableInv, StreamsOK, TypesOK, MainTypes, ProtocolOK, AttemptOK
<1>2. UNCHANGED <<window, terminalEvent, taken>>
  BY DEF CreateReader, Started, AttemptUnchanged, smVars, windowVars, ptyVars
<1>3. loops[lastStream].at = "none" => taken[lastStream] = <<>>
  BY <1>1 DEF LoopsOK, LoopOK
<1>4. CASE CreateReader
  <2>1. current' = lastStream /\ loops' = loops /\ attempt.at = "create"
    BY <1>4 DEF CreateReader
  <2> QED BY <1>1, <1>2, <1>3, <2>1, StartsOver
<1>5. CASE Started /\ reply.ok
  <2> DEFINE from == readers[lastStream].nextSeq - Len(readers[lastStream].buffer)
             l == [at |-> "reading", from |-> from, bytes |-> <<>>, err |-> "none"]
  <2>1. /\ attempt.at \in {"start", "starting"} /\ current' = current
        /\ loops' = [loops EXCEPT ![lastStream] = l]
    BY <1>5 DEF Started
  <2>2. l.at = "reading"
    OBVIOUS
  <2> HIDE DEF l
  <2>3. loops'[lastStream] = l
    BY <1>1, <2>1
  <2> QED BY <1>1, <1>2, <1>3, <2>1, <2>2, <2>3, StartsOver
<1>6. CASE Started /\ ~reply.ok
  BY <1>2, <1>6, NotSeen DEF Started
<1> QED BY <1>4, <1>5, <1>6

\* Every step is one of the contract's, or none.
LEMMA ContractStep ==
    ASSUME DurableInv, DurableInv', [DurableNext]_allVars
    PROVE  [Contract!RsNext]_(Contract!rsVars)
<1>1. SmInv /\ current \in Streams
  BY DEF DurableInv, TypesOK, MainTypes
<1>2. CASE PtyTurn
  <2>1. UNCHANGED <<loops, taken, current>>
    BY <1>2 DEF PtyTurn, dsVars, loopVars, mainVars
  <2>2. CASE UNCHANGED <<window, terminalEvent>>
    BY <2>1, <2>2, NotSeen
  <2>3. CASE WriteBytes
    <3>1. window'.tail >= window.tail /\ terminalEvent = "none" /\ terminalEvent' = "none"
          /\ window.tail \in Nat /\ window'.tail \in Nat
      BY <1>1, <2>3, WriteMoves, WindowFacts, WriteBytesKeeps DEF DurableInv, SmInv, SmTypeOK, Windows, OutputEnds, WriteBytes
    <3>2. CASE window'.tail > window.tail
      BY <2>1, <3>1, <3>2 DEF Contract!RsNext, Contract!JobWrites
    <3>3. CASE window'.tail = window.tail
      BY <2>1, <3>1, <3>3 DEF Contract!rsVars
    <3> QED BY <3>1, <3>2, <3>3
  <2>4. ASSUME NEW event \in Ends, ReadEnds(event) PROVE [Contract!RsNext]_(Contract!rsVars)
    <3>1. window' = window /\ terminalEvent = "none" /\ terminalEvent' = event /\ event \in {"eof", "error"}
      BY <1>1, <2>4, DurableAssumption DEF SmInv, OutputEnds, ReadEnds, windowVars
    <3> QED BY <2>1, <3>1 DEF Contract!RsNext, Contract!End
  <2>5. ASSUME ~WriteBytes, \A event \in Ends : ~ReadEnds(event)
        PROVE  UNCHANGED <<window, terminalEvent>>
    BY <1>2, <2>5 DEF PtyTurn, ReadLoopTop, SignalData, ChunkWritten, ReadBytes, Offer, SenderWaits, SenderExits,
                      windowVars, ptyVars
  <2> QED BY <2>2, <2>3, <2>4, <2>5
<1>3. CASE ~PtyTurn
  <2>1. window'.tail = window.tail /\ terminalEvent' = terminalEvent
    BY <1>1, <1>3, OnlyJobWrites
  <2>2. ASSUME UNCHANGED <<loops, taken, current>> PROVE [Contract!RsNext]_(Contract!rsVars)
    BY <2>1, <2>2 DEF Contract!rsVars
  <2>3. CASE JobTurn
    BY <1>3, <2>2, <2>3 DEF JobTurn, SenderTransmits, Transmit, JobReceivesAck, PrepareConnect, TakeOver,
                            Connect, Connecting, Connected, StartStream, JmUnchanged, loopVars, mainVars
  <2>4. CASE MainReceives \/ Reconnect \/ StatFile \/ Prepared \/ AttemptTimesOut \/ Flush
    BY <2>2, <2>4 DEF MainReceives, Reconnect, StatFile, Prepared, AttemptTimesOut, Flush, MainUnchanged,
                      AttemptUnchanged, loopVars, mainVars
  <2>5. ASSUME NEW g \in Streams, LoopTurn(g) PROVE [Contract!RsNext]_(Contract!rsVars)
    BY <2>5, LoopGoesOn
  <2>6. CASE CreateReader \/ Started
    BY <2>6, AttemptsStartOver
  <2>7. CASE Drop \/ UNCHANGED allVars
    BY <2>2, <2>7 DEF Drop, allVars, dsVars, loopVars, mainVars
  <2>8. CASE Crash
    <3>1. UNCHANGED <<window, terminalEvent, current>>
      BY <2>8 DEF Crash, smVars, windowVars, ptyVars
    <3>2. loops'[current] = NoLoop /\ taken'[current] = <<>> /\ NoLoop.at = "none"
      BY <1>1, <2>8 DEF Crash, NoLoop
    <3> QED BY <1>1, <3>1, <3>2, StartsOver
  <2> QED BY <2>3, <2>4, <2>5, <2>6, <2>7, <2>8 DEF DurableNext, MainTurn, AttemptTurn
<1> QED BY <1>2, <1>3

\* Every stream keeps its contract: over lost connections, late and reordered packets, retries
\* and crashes its loop is handed the job's bytes from where it was started, each once and in
\* order, and its end only at the end.
THEOREM StreamsKeepTheContract == DurableSpec => ImplementsReliableStream
<1>1. DurableInit => Contract!RsInit
  <2> SUFFICES ASSUME DurableInit PROVE Contract!RsInit
    OBVIOUS
  <2>1. 1 \in Streams
    BY DurableAssumption DEF Streams
  <2>2. window.tail = 0
    BY DEF DurableInit, AfterSetEffectiveWindow, EmptyWindow
  <2>3. terminalEvent = "none" /\ loops[current] = NoLoop /\ taken[current] = <<>>
    BY <2>1 DEF DurableInit
  <2> QED BY <2>2, <2>3 DEF Contract!RsInit, NoLoop
<1>2. DurableInv /\ DurableInv' /\ [DurableNext]_allVars => [Contract!RsNext]_(Contract!rsVars)
  BY ContractStep
<1> QED BY <1>1, <1>2, DurableInvariant, PTL DEF DurableSpec, ImplementsReliableStream, Contract!RsSpec


-----------------------------------------------------------------------------
(* What reaches the terminal file. *)

\* Of what a loop has been handed, t, everything but the bytes it still has in hand is in
\* file f.
Written(l, t, f) ==
    l.at \in {"reading", "read", "append"} =>
        \A i \in 1 .. Len(t) - Len(l.bytes) : \E k \in DOMAIN f : f[k] = t[i]

AppendedOK == \A g \in Streams : Written(loops[g], taken[g], file)

DeliveryInv == DurableInv /\ AppendedOK

\* An append takes nothing away from the file.
LEMMA WrittenStays ==
    ASSUME NEW l, NEW t, NEW f \in Seq(Nat), NEW b \in Seq(Nat), Written(l, t, f)
    PROVE  Written(l, t, f \o b)
<1> DEFINE u == f \o b
<1>1. \A k \in DOMAIN f : k \in DOMAIN u /\ u[k] = f[k]
  <2>1. DOMAIN f = 1 .. Len(f)
    OBVIOUS
  <2> QED BY <2>1, PiecesJoin
<1> HIDE DEF u
<1>2. Written(l, t, u)
  BY <1>1 DEF Written
<1> QED BY <1>2 DEF u

\* The bytes in hand are the last the loop was handed.
LEMMA WrittenGrows ==
    ASSUME NEW tail, NEW event, NEW end, NEW r, NEW l \in Loops, NEW t \in Seq(Nat),
           LoopOK(l, t, r, tail, event, end), l.at \in {"reading", "read", "append"},
           NEW f \in Seq(Nat), Written(l, t, f)
    PROVE  \A i \in 1 .. Len(t) : \E k \in DOMAIN (f \o l.bytes) : (f \o l.bytes)[k] = t[i]
<1> DEFINE b == l.bytes
           u == f \o b
           m == Len(t)
           n == Len(b)
           c == Len(f)
           from == l.from
<1>1. b \in Seq(Nat) /\ from \in Nat
  BY DEF Loops
<1>2. /\ m \in Nat /\ n \in Nat /\ n <= m /\ DOMAIN t = 1 .. m /\ DOMAIN b = 1 .. n
      /\ \A i \in 1 .. m : t[i] = from + i - 1
      /\ \A i \in 1 .. n : b[i] = from + m - n + i - 1
      /\ \A i \in 1 .. m - n : \E k \in DOMAIN f : f[k] = t[i]
  BY <1>1 DEF LoopOK, Written
<1>3. /\ c \in Nat /\ DOMAIN f = 1 .. c /\ DOMAIN u = 1 .. c + n
      /\ \A i \in 1 .. c : u[i] = f[i]
      /\ \A i \in c + 1 .. c + n : u[i] = b[i - c]
  BY <1>1, PiecesJoin
<1> HIDE DEF b, u, m, n, c, from
<1> SUFFICES ASSUME NEW i \in 1 .. m PROVE \E k \in DOMAIN u : u[k] = t[i]
  BY DEF b, u, m
<1>4. CASE i <= m - n
  <2>1. i \in 1 .. m - n
    BY <1>2, <1>4
  <2>2. PICK k \in DOMAIN f : f[k] = t[i]
    BY <1>2, <2>1
  <2>3. k \in DOMAIN u /\ u[k] = f[k]
    BY <1>2, <1>3, <2>2
  <2> QED BY <2>2, <2>3
<1>5. CASE i > m - n
  <2> DEFINE j == i - (m - n)
             k == c + j
  <2>1. j \in 1 .. n /\ k \in c + 1 .. c + n /\ k \in 1 .. c + n /\ k - c = j
    BY <1>2, <1>3, <1>5
  <2>2. m - n + j = i
    BY <1>2
  <2> HIDE DEF j, k
  <2>3. u[k] = b[j]
    BY <1>3, <2>1
  <2>4. b[j] = from + m - n + j - 1 /\ t[i] = from + i - 1
    BY <1>2, <2>1
  <2>5. b[j] = from + (m - n + j) - 1
    <3>1. from \in Nat /\ m \in Nat /\ n \in Nat /\ j \in Int
      BY <1>1, <1>2, <2>1
    <3>2. from + m - n + j - 1 = from + (m - n + j) - 1
      BY <3>1
    <3> QED BY <2>4, <3>2
  <2>6. b[j] = t[i] /\ k \in DOMAIN u
    BY <1>3, <2>1, <2>2, <2>4, <2>5
  <2> QED BY <2>3, <2>6
<1> QED BY <1>2, <1>4, <1>5

\* When the append is done, all of it is there.
LEMMA LoopsWritten ==
    ASSUME DurableInv, AppendedOK, NEW g \in Streams, LoopAppends(g)
    PROVE  \A i \in 1 .. Len(taken[g]) : \E k \in DOMAIN (file \o loops[g].bytes) :
               (file \o loops[g].bytes)[k] = taken[g][i]
<1> DEFINE l == loops[g]
           t == taken[g]
           r == readers[g]
<1>1. /\ l \in Loops /\ t \in Seq(Nat) /\ file \in Seq(Nat) /\ Written(l, t, file)
      /\ LoopOK(l, t, r, window.tail, terminalEvent, eofPos) /\ l.at = "append"
  BY DEF DurableInv, StreamsOK, TypesOK, MainTypes, FileTypes, LoopsOK, AppendedOK, LoopAppends
<1> HIDE DEF l, t, r
<1>2. \A i \in 1 .. Len(t) : \E k \in DOMAIN (file \o l.bytes) : (file \o l.bytes)[k] = t[i]
  BY <1>1, WrittenGrows
<1> QED BY <1>2 DEF l, t

\* The steps of a loop.
LEMMA LoopsWrite ==
    ASSUME DurableInv, AppendedOK, NEW g \in Streams, LoopTurn(g)
    PROVE  AppendedOK'
<1>1. /\ loops \in [Streams -> Loops] /\ taken \in [Streams -> Seq(Nat)] /\ file \in Seq(Nat)
      /\ loops[g] \in Loops /\ taken[g] \in Seq(Nat) /\ loops[g].bytes \in Seq(Nat) /\ LoopsOK
      /\ Written(loops[g], taken[g], file)
      /\ LoopOK(loops[g], taken[g], readers[g], window.tail, terminalEvent, eofPos)
  BY DEF DurableInv, StreamsOK, TypesOK, MainTypes, FileTypes, Loops, LoopsOK, AppendedOK
<1> DEFINE l == loops[g]
           t == taken[g]
           l1 == loops'[g]
           t1 == taken'[g]
<1>2. \A h \in Streams : h # g => loops'[h] = loops[h] /\ taken'[h] = taken[h]
  BY <1>1 DEF LoopTurn, LoopReads, LoopSuperseded, LoopCurrent, LoopAppends, LoopEnds
<1>3. CASE LoopReads(g)
  <2> DEFINE b == ReadBytesOf(readers[g])
  <2>1. l.at = "reading" /\ l1.bytes = b /\ t1 = t \o b /\ file' = file
    BY <1>1, <1>3 DEF LoopReads, fileVars
  <2>2. DurableInv'
    BY <1>3, LoopReadsStep
  <2>3. b \in Seq(Nat)
    BY <2>1, <2>2 DEF DurableInv, TypesOK, MainTypes, Loops
  <2>4. l.bytes = <<>> /\ Written(l, t, file) /\ t \in Seq(Nat)
    BY <1>1, <2>1 DEF LoopOK
  <2> HIDE DEF l, t, l1, t1, b
  <2>5. Written(l1, t1, file)
    <3>1. /\ Len(t) \in Nat /\ Len(b) \in Nat /\ Len(t1) - Len(b) = Len(t)
          /\ \A i \in 1 .. Len(t) : t1[i] = t[i]
      BY <2>1, <2>3, <2>4, PiecesJoin
    <3>2. \A i \in 1 .. Len(t) : \E k \in DOMAIN file : file[k] = t[i]
      BY <2>1, <2>4, <3>1 DEF Written
    <3> QED BY <2>1, <3>1, <3>2 DEF Written
  <2> QED BY <1>2, <2>1, <2>5 DEF AppendedOK, l1, t1
<1>4. CASE LoopSuperseded(g)
  <2>1. l1.at = "ended" /\ file' = file
    BY <1>1, <1>4 DEF LoopSuperseded, LoopEnds, fileVars
  <2> QED BY <1>2, <2>1 DEF AppendedOK, Written
<1>5. CASE LoopCurrent(g)
  <2>1. l.at = "read" /\ l1.bytes = l.bytes /\ t1 = t /\ file' = file
    BY <1>1, <1>5 DEF LoopCurrent, fileVars, Loops
  <2>2. Written(l1, t1, file)
    BY <1>1, <2>1 DEF Written
  <2> QED BY <1>2, <2>1, <2>2 DEF AppendedOK
<1>6. CASE LoopAppends(g)
  <2> DEFINE f1 == file \o l.bytes
  <2>1. l.at = "append" /\ t1 = t /\ file' = f1
        /\ \/ l1.at = "reading" /\ l1.bytes = <<>>
           \/ l1.at = "ended"
    BY <1>1, <1>6 DEF LoopAppends, LoopEnds, Loops
  <2>2. \A h \in Streams : Written(loops[h], taken[h], f1)
    BY <1>1, WrittenStays DEF AppendedOK
  <2>3. \A i \in 1 .. Len(t) : \E k \in DOMAIN f1 : f1[k] = t[i]
    BY <1>1, <1>6, LoopsWritten
  <2>4. Written(l1, t1, f1)
    <3> HIDE DEF l, l1, t1, f1
    <3> QED BY <2>1, <2>3 DEF Written
  <2>5. ASSUME NEW h \in Streams PROVE Written(loops'[h], taken'[h], f1)
    <3> HIDE DEF f1
    <3>1. CASE h = g
      BY <2>4, <3>1
    <3>2. CASE h # g
      BY <1>2, <2>2, <3>2
    <3> QED BY <3>1, <3>2
  <2> QED BY <2>1, <2>5 DEF AppendedOK
<1> QED BY <1>3, <1>4, <1>5, <1>6 DEF LoopTurn


\* Every step.
LEMMA AppendedStep ==
    ASSUME DurableInv, AppendedOK, [DurableNext]_allVars
    PROVE  AppendedOK'
<1>1. loops \in [Streams -> Loops] /\ lastStream \in Streams /\ LoopsOK
      /\ (attempt.at # "idle" => loops[lastStream].at = "none")
  BY DEF DurableInv, StreamsOK, TypesOK, MainTypes, ProtocolOK, AttemptOK
<1>2. CASE UNCHANGED <<loops, taken, file>>
  BY <1>2 DEF AppendedOK
<1>3. CASE JobTurn
  BY <1>2, <1>3 DEF JobTurn, PtyTurn, SenderTransmits, Transmit, JobReceivesAck, PrepareConnect, TakeOver,
                    Connect, Connecting, Connected, StartStream, JmUnchanged, dsVars, loopVars, fileVars
<1>4. CASE MainReceives \/ Reconnect \/ StatFile \/ CreateReader \/ Prepared \/ AttemptTimesOut \/ Flush
  BY <1>2, <1>4 DEF MainReceives, Reconnect, StatFile, CreateReader, Prepared, AttemptTimesOut, Flush,
                    MainUnchanged, AttemptUnchanged, loopVars, fileVars
<1>5. ASSUME NEW g \in Streams, LoopTurn(g) PROVE AppendedOK'
  BY <1>5, LoopsWrite
<1>6. CASE Started
  <2>1. taken' = taken /\ file' = file /\ attempt.at # "idle"
    BY <1>6 DEF Started, AttemptUnchanged
  <2>2. taken[lastStream] = <<>>
    BY <1>1, <2>1 DEF LoopsOK, LoopOK
  <2>3. loops' = loops \/ \E l : loops' = [loops EXCEPT ![lastStream] = l] /\ l.bytes = <<>>
    <3> DEFINE from == readers[lastStream].nextSeq - Len(readers[lastStream].buffer)
               l == [at |-> "reading", from |-> from, bytes |-> <<>>, err |-> "none"]
    <3>1. loops' = loops \/ loops' = [loops EXCEPT ![lastStream] = l]
      BY <1>6 DEF Started
    <3>2. l.bytes = <<>>
      OBVIOUS
    <3> HIDE DEF l
    <3> QED BY <3>1, <3>2
  <2>4. \A g \in Streams : g # lastStream => loops'[g] = loops[g]
    BY <1>1, <2>3
  <2>5. CASE loops' = loops
    BY <1>2, <2>1, <2>5
  <2>6. CASE loops' # loops
    <3>1. loops'[lastStream].bytes = <<>>
      BY <1>1, <2>3, <2>6
    <3>2. 1 .. Len(taken[lastStream]) - Len(loops'[lastStream].bytes) = {}
      BY <2>2, <3>1
    <3>3. Written(loops'[lastStream], taken[lastStream], file)
      BY <3>2 DEF Written
    <3> QED BY <1>1, <2>1, <2>4, <3>3 DEF AppendedOK
  <2> QED BY <2>5, <2>6
<1>7. CASE Crash
  <2>1. \A g \in Streams : loops'[g] = NoLoop
    BY <1>7 DEF Crash
  <2> QED BY <2>1 DEF AppendedOK, Written, NoLoop
<1>8. CASE Drop \/ UNCHANGED allVars
  BY <1>2, <1>8 DEF Drop, allVars, dsVars, loopVars, fileVars
<1> QED BY <1>3, <1>4, <1>5, <1>6, <1>7, <1>8 DEF DurableNext, MainTurn, AttemptTurn

\* What the output loops have appended is in the terminal file.
LEMMA DeliveryInvariant == DurableSpec => []DeliveryInv
<1>1. DurableInit => AppendedOK
  BY DEF DurableInit, AppendedOK, Written, NoLoop
<1>2. AppendedOK /\ DurableInv /\ [DurableNext]_allVars => AppendedOK'
  BY AppendedStep
<1> QED BY <1>1, <1>2, DurableInvariant, PTL DEF DurableSpec, DeliveryInv

\* The job is marked done by an end of the output that a loop has been told.
LEMMA OnlyLoopsEnd ==
    ASSUME [DurableNext]_allVars, streamDone' \notin {streamDone, "reported"}
    PROVE  \E g \in Streams : LoopAppends(g) /\ loops[g].err = streamDone'
<1>1. CASE JobTurn
  BY <1>1 DEF JobTurn, PtyTurn, SenderTransmits, Transmit, JobReceivesAck, PrepareConnect, TakeOver,
              Connect, Connecting, Connected, StartStream, JmUnchanged, dsVars, fileVars
<1>2. CASE MainReceives \/ Reconnect \/ StatFile \/ CreateReader \/ Started \/ AttemptTimesOut \/ Flush
  BY <1>2 DEF MainReceives, Reconnect, StatFile, CreateReader, Started, AttemptTimesOut, Flush,
              MainUnchanged, AttemptUnchanged, fileVars
<1>3. CASE Prepared
  BY <1>3 DEF Prepared
<1>4. ASSUME NEW g \in Streams, LoopTurn(g)
      PROVE  LoopAppends(g) /\ loops[g].err = streamDone'
  BY <1>4 DEF LoopTurn, LoopReads, LoopSuperseded, LoopCurrent, LoopAppends, fileVars
<1>5. CASE Drop \/ Crash \/ UNCHANGED allVars
  BY <1>5 DEF Drop, Crash, allVars, dsVars, fileVars
<1> QED BY <1>1, <1>2, <1>3, <1>4, <1>5 DEF DurableNext, MainTurn, AttemptTurn

\* A loop that has been told of the end of the output has put all of it into the file.
LEMMA EndIsComplete ==
    ASSUME DurableInv, AppendedOK, NEW g \in Streams, LoopAppends(g), loops[g].err = "eof"
    PROVE  EndsComplete(g, "eof")
<1> DEFINE l == loops[g]
           t == taken[g]
           from == l.from
<1>1. /\ l \in Loops /\ l.at = "append" /\ l.err = "eof" /\ t \in Seq(Nat) /\ file \in Seq(Nat)
      /\ loops \in [Streams -> Loops] /\ Written(l, t, file)
      /\ LoopOK(l, t, readers[g], window.tail, terminalEvent, eofPos)
  BY DEF DurableInv, StreamsOK, TypesOK, MainTypes, FileTypes, LoopsOK, AppendedOK, LoopAppends
<1>2. loops'[g].at = "ended" /\ file' = file \o l.bytes
  <2>1. /\ loops' = [loops EXCEPT ![g].at = "ended", ![g].bytes = <<>>]
        /\ file' = file \o l.bytes
    BY <1>1 DEF LoopAppends, LoopEnds
  <2>2. loops'[g].at = "ended"
    BY <1>1, <2>1 DEF Loops
  <2> QED BY <2>1, <2>2
<1>3. l.bytes = <<>> /\ from + Len(t) = eofPos /\ \A i \in DOMAIN t : t[i] = from + i - 1
  BY <1>1 DEF LoopOK
<1>4. file' = file
  BY <1>1, <1>2, <1>3
<1>5. \A i \in 1 .. Len(t) : \E k \in DOMAIN file : file[k] = t[i]
  BY <1>1, <1>3 DEF Written
<1>6. from \in Nat /\ Len(t) \in Nat /\ DOMAIN t = 1 .. Len(t)
  BY <1>1 DEF Loops
<1> HIDE DEF t, from
<1>7. ASSUME NEW p \in from .. eofPos - 1 PROVE \E i \in DOMAIN file' : file'[i] = p
  <2> DEFINE i == p - from + 1
  <2>1. i \in 1 .. Len(t) /\ from + i - 1 = p
    BY <1>3, <1>6
  <2> HIDE DEF i
  <2>2. t[i] = p
    BY <1>3, <1>6, <2>1
  <2> QED BY <1>4, <1>5, <2>1, <2>2
<1> QED BY <1>1, <1>2, <1>7 DEF EndsComplete, from

\* The job's stream is marked done by an EOF only when all the output from the loop's start
\* on is in the terminal file, whatever happened to the connections before.
THEOREM DoneIsComplete == DurableSpec => DoneMeansComplete
<1>1. DeliveryInv /\ [DurableNext]_allVars
        => [streamDone' = "eof" /\ streamDone # "eof"
              => \E g \in Streams : EndsComplete(g, "eof")]_allVars
  BY OnlyLoopsEnd, EndIsComplete DEF DeliveryInv
<1> QED BY <1>1, DeliveryInvariant, PTL DEF DurableSpec, DoneMeansComplete


-----------------------------------------------------------------------------
(* What the terminal file leaves out: with ~SlowAppend. *)

\* The bytes of a file are in order and without repetition, and come before position next.
Ascending(f, next) ==
    /\ \A i, j \in DOMAIN f : i < j => f[i] < f[j]
    /\ \A i \in DOMAIN f : f[i] < next

\* A loop l at work, which has been handed t, is at place p with what it appends next.
LoopIsAt(l, t, p) ==
    l.at \in {"reading", "read", "append"} => l.from + Len(t) - Len(l.bytes) = p

\* Only the current stream's loop appends, and not while an attempt knows the file's size.
AppendsAlone ==
    \A g \in Streams : loops[g].at = "append" => g = current /\ attempt.at # "create"

\* Whoever has a place in the output written down, an attempt, its reader or a loop, has the
\* file's.
PlaceKept ==
    /\ attempt.at \in {"create", "prepare"} => attempt.seq = Position /\ attempt.gap = gap
    /\ attempt.at \in {"start", "starting"} => Consumed(readers[lastStream]) = Position
    /\ LoopIsAt(loops[current], taken[current], Position)

FilesOK == Ascending(file, Position) /\ Ascending(disk.file, Len(disk.file) + disk.gap)

PlaceInv == FilesOK /\ AppendsAlone /\ PlaceKept

\* The next bytes go to the end.
LEMMA AppendAscends ==
    ASSUME NEW f \in Seq(Nat), NEW b \in Seq(Nat), NEW next \in Nat, Ascending(f, next),
           \A i \in DOMAIN b : b[i] = next + i - 1
    PROVE  Ascending(f \o b, next + Len(b))
<1> DEFINE u == f \o b
           c == Len(f)
           n == Len(b)
<1>1. /\ c \in Nat /\ n \in Nat /\ DOMAIN u = 1 .. c + n /\ DOMAIN f = 1 .. c /\ DOMAIN b = 1 .. n
      /\ \A i \in 1 .. c : u[i] = f[i] /\ f[i] \in Nat
      /\ \A i \in c + 1 .. c + n : u[i] = b[i - c]
  BY PiecesJoin
<1> HIDE DEF u, c, n
<1>2. \A i \in c + 1 .. c + n : u[i] = next + (i - c) - 1 /\ next <= u[i] /\ u[i] < next + n
  <2> SUFFICES ASSUME NEW i \in c + 1 .. c + n
               PROVE  u[i] = next + (i - c) - 1 /\ next <= u[i] /\ u[i] < next + n
    OBVIOUS
  <2>1. i - c \in 1 .. n /\ u[i] = b[i - c]
    BY <1>1
  <2>2. u[i] = next + (i - c) - 1
    BY <1>1, <2>1
  <2>3. i - c >= 1 /\ i - c <= n /\ i \in Int /\ c \in Nat /\ n \in Nat
    BY <1>1
  <2> QED BY <2>2, <2>3
<1>3. \A i \in 1 .. c : u[i] \in Nat /\ u[i] < next
  BY <1>1 DEF Ascending
<1>4. ASSUME NEW i \in DOMAIN u, NEW j \in DOMAIN u, i < j PROVE u[i] < u[j]
  <2>1. i \in 1 .. c + n /\ j \in 1 .. c + n /\ c \in Nat /\ n \in Nat
    BY <1>1
  <2>2. CASE j <= c
    <3>1. i \in 1 .. c /\ j \in 1 .. c
      BY <1>4, <2>1, <2>2
    <3>2. f[i] < f[j] /\ u[i] = f[i] /\ u[j] = f[j]
      BY <1>1, <1>4, <3>1 DEF Ascending
    <3> QED BY <3>2
  <2>3. CASE i <= c /\ j > c
    <3>1. i \in 1 .. c /\ j \in c + 1 .. c + n
      BY <2>1, <2>3
    <3>2. u[i] \in Nat /\ u[i] < next /\ next <= u[j] /\ u[j] = next + (j - c) - 1
      BY <1>2, <1>3, <3>1
    <3>3. u[j] \in Int
      BY <2>1, <3>2
    <3> DEFINE a == u[i]
               d == u[j]
    <3>4. a \in Nat /\ d \in Int /\ a < next /\ next <= d
      BY <3>2, <3>3
    <3> HIDE DEF a, d
    <3>5. a < d
      BY <3>4
    <3> QED BY <3>5 DEF a, d
  <2>4. CASE i > c
    <3>1. i \in c + 1 .. c + n /\ j \in c + 1 .. c + n
      BY <1>4, <2>1, <2>4
    <3>2. u[i] = next + (i - c) - 1 /\ u[j] = next + (j - c) - 1
      BY <1>2, <3>1
    <3> QED BY <1>4, <2>1, <3>2
  <2> QED BY <1>4, <2>1, <2>2, <2>3, <2>4
<1>5. ASSUME NEW i \in DOMAIN u PROVE u[i] < next + n
  <2>1. CASE i <= c
    <3>1. i \in 1 .. c
      BY <1>1, <2>1
    <3> QED BY <1>1, <1>3, <3>1
  <2>2. CASE i > c
    <3>1. i \in c + 1 .. c + n
      BY <1>1, <2>2
    <3> QED BY <1>2, <3>1
  <2> QED BY <1>1, <2>1, <2>2
<1>6. Ascending(u, next + n)
  BY <1>4, <1>5 DEF Ascending
<1> QED BY <1>6 DEF u, n

\* Most steps are about neither the file nor a place in it.
LEMMA PlaceStays ==
    ASSUME DurableInv, PlaceInv,
           UNCHANGED <<file, gap, disk, loops, taken, current, attempt, lastStream>>,
           \A h \in Streams : Consumed(readers'[h]) = Consumed(readers[h])
    PROVE  PlaceInv'
<1>1. lastStream \in Streams
  BY DEF DurableInv, TypesOK, MainTypes
<1>2. Position' = Position /\ FilesOK' /\ AppendsAlone'
  BY DEF PlaceInv, FilesOK, AppendsAlone, Position
<1>3. Consumed(readers'[lastStream]) = Consumed(readers[lastStream])
  BY <1>1
<1>4. PlaceKept'
  BY <1>2, <1>3 DEF PlaceInv, PlaceKept
<1> QED BY <1>2, <1>4 DEF PlaceInv


\* The steps of a loop: what the current one appends goes on where the file ends.
LEMMA LoopsKeepPlace ==
    ASSUME DurableInv, PlaceInv, ~SlowAppend, NEW g \in Streams, LoopTurn(g)
    PROVE  PlaceInv'
<1>1. /\ SmInv /\ TypesOK /\ ProtocolOK /\ LoopsOK /\ AttemptOK
      /\ loops \in [Streams -> Loops] /\ taken \in [Streams -> Seq(Nat)] /\ file \in Seq(Nat) /\ gap \in Nat
      /\ readers \in [Streams -> Readers] /\ current \in Streams /\ lastStream \in Streams
      /\ FilesOK /\ AppendsAlone /\ PlaceKept
  BY ProtocolParts DEF DurableInv, StreamsOK, TypesOK, MainTypes, FileTypes, PlaceInv
<1>2. /\ UNCHANGED <<current, attempt, lastStream, gap, disk>> /\ loops[g].at # "none"
      /\ \A h \in Streams : h # g => /\ loops'[h] = loops[h] /\ taken'[h] = taken[h]
                                     /\ readers'[h] = readers[h]
  BY <1>1 DEF LoopTurn, LoopReads, LoopSuperseded, LoopCurrent, LoopAppends, LoopEnds, ReaderBecomes,
              MainUnchanged, mainVars, fileVars, readerVars
<1>3. attempt.at # "idle" => g # lastStream
  BY <1>1, <1>2, LoopAtWork
<1> DEFINE l == loops[g]
           t == taken[g]
           l1 == loops'[g]
           t1 == taken'[g]
<1>4. /\ l \in Loops /\ t \in Seq(Nat) /\ l.bytes \in Seq(Nat) /\ l.from \in Nat
      /\ LoopOK(l, t, readers[g], window.tail, terminalEvent, eofPos)
      /\ g = current => LoopIsAt(l, t, Position)
  BY <1>1 DEF Loops, LoopsOK, PlaceKept
<1>5. ASSUME file' = file, g = current => LoopIsAt(l1, t1, Position),
             l1.at = "append" => g = current /\ attempt.at # "create"
      PROVE  PlaceInv'
  <2>1. Position' = Position
    BY <1>2, <1>5 DEF Position
  <2>2. FilesOK'
    BY <1>1, <1>2, <1>5, <2>1 DEF FilesOK
  <2>3. AppendsAlone'
    <3>1. \A h \in Streams : loops'[h].at = "append" => h = current /\ attempt.at # "create"
      BY <1>1, <1>2, <1>5 DEF AppendsAlone
    <3> QED BY <1>2, <3>1 DEF AppendsAlone
  <2>4. LoopIsAt(loops'[current], taken'[current], Position)
    <3>1. CASE g = current
      BY <1>5, <3>1
    <3>2. CASE g # current
      BY <1>1, <1>2, <3>2 DEF PlaceKept
    <3> QED BY <3>1, <3>2
  <2>5. attempt.at \in {"start", "starting"} => Consumed(readers'[lastStream]) = Position
    BY <1>1, <1>2, <1>3 DEF PlaceKept
  <2>6. PlaceKept'
    BY <1>1, <1>2, <2>1, <2>4, <2>5 DEF PlaceKept
  <2> QED BY <2>2, <2>3, <2>6 DEF PlaceInv
<1>6. CASE LoopReads(g)
  <2> DEFINE b == ReadBytesOf(readers[g])
  <2>1. l.at = "reading" /\ l1.at = "read" /\ l1.bytes = b /\ l1.from = l.from /\ t1 = t \o b
    BY <1>1, <1>6 DEF LoopReads
  <2>2. file' = file
    BY <1>6 DEF LoopReads, fileVars
  <2>3. DurableInv'
    BY <1>6, LoopReadsStep
  <2>4. b \in Seq(Nat)
    BY <2>1, <2>3 DEF DurableInv, TypesOK, MainTypes, Loops
  <2>5. l.bytes = <<>>
    BY <1>4, <2>1 DEF LoopOK
  <2> HIDE DEF l, t, l1, t1, b
  <2>6. Len(t1) - Len(b) = Len(t) - Len(l.bytes)
    <3>1. Len(t) \in Nat /\ Len(b) \in Nat /\ Len(t1) = Len(t) + Len(b) /\ Len(l.bytes) = 0
      BY <1>4, <2>1, <2>4, <2>5, PiecesJoin
    <3> QED BY <3>1
  <2>7. LoopIsAt(l, t, Position) => LoopIsAt(l1, t1, Position)
    <3>1. Len(t) \in Nat /\ Len(t1) \in Nat /\ Len(b) \in Nat /\ Len(l.bytes) \in Nat
      BY <1>4, <2>1, <2>4, PiecesJoin
    <3>2. l.from + Len(t) - Len(l.bytes) = l.from + (Len(t) - Len(l.bytes))
          /\ l1.from + Len(t1) - Len(b) = l1.from + (Len(t1) - Len(b))
      BY <1>4, <2>1, <3>1
    <3> QED BY <2>1, <2>6, <3>2 DEF LoopIsAt
  <2> QED BY <1>4, <1>5, <2>1, <2>2, <2>7
<1>7. CASE LoopSuperseded(g)
  <2>1. l1.at = "ended" /\ file' = file
    BY <1>1, <1>7 DEF LoopSuperseded, LoopEnds, fileVars
  <2> QED BY <1>5, <2>1 DEF LoopIsAt
<1>8. CASE LoopCurrent(g)
  <2>1. /\ l.at = "read" /\ l1.at = "append" /\ l1.bytes = l.bytes /\ l1.from = l.from /\ t1 = t
        /\ file' = file /\ current = g /\ attempt.at # "create"
    BY <1>1, <1>8 DEF LoopCurrent, fileVars, Loops
  <2>2. LoopIsAt(l1, t1, Position)
    BY <1>4, <2>1 DEF LoopIsAt
  <2> QED BY <1>5, <2>1, <2>2
<1>9. CASE LoopAppends(g)
  <2> DEFINE b == l.bytes
             f1 == file \o b
             n == Len(b)
             m == Len(t)
             from == l.from
  <2>1. /\ l.at = "append" /\ file' = f1 /\ t1 = t
        /\ \/ l1.at = "reading" /\ l1.bytes = <<>> /\ l1.from = from
           \/ l1.at = "ended"
    BY <1>1, <1>9 DEF LoopAppends, LoopEnds, Loops
  <2>2. g = current /\ attempt.at # "create"
    BY <1>1, <2>1 DEF AppendsAlone
  <2>3. attempt.at \notin {"create", "prepare", "start", "starting"}
    BY <1>1, <1>3, <2>2 DEF AttemptOK
  <2>4. /\ b \in Seq(Nat) /\ n \in Nat /\ m \in Nat /\ from \in Nat /\ n <= m /\ DOMAIN b = 1 .. n
        /\ Position \in Nat /\ from + m - n = Position
        /\ \A i \in DOMAIN b : b[i] = from + m - n + i - 1
    <3>1. /\ b \in Seq(Nat) /\ n \in Nat /\ m \in Nat /\ from \in Nat /\ DOMAIN b = 1 .. n
      BY <1>4
    <3>2. Position \in Nat
      BY <1>1 DEF Position
    <3>3. n <= m /\ \A i \in DOMAIN b : b[i] = from + m - n + i - 1
      BY <1>4 DEF LoopOK
    <3>4. LoopIsAt(l, t, Position)
      BY <1>4, <2>2
    <3>5. from + m - n = Position
      BY <2>1, <3>4 DEF LoopIsAt
    <3> QED BY <3>1, <3>2, <3>3, <3>5
  <2>5. Len(f1) = Len(file) + n /\ f1 \in Seq(Nat) /\ Len(file) \in Nat
    BY <1>1, <2>4, PiecesJoin
  <2> HIDE DEF l, t, l1, t1, b, f1, n, m, from
  <2>6. Position' = Position + n
    BY <1>1, <1>2, <2>1, <2>4, <2>5 DEF Position
  <2>7. Ascending(f1, Position + n)
    <3>1. \A i \in DOMAIN b : b[i] = Position + i - 1
      BY <2>4
    <3>2. Ascending(file, Position)
      BY <1>1 DEF FilesOK
    <3> QED BY <1>1, <2>4, <3>1, <3>2, AppendAscends DEF f1, n
  <2>8. FilesOK'
    BY <1>1, <1>2, <2>1, <2>6, <2>7 DEF FilesOK
  <2>9. AppendsAlone'
    <3>1. loops'[g].at # "append"
      BY <2>1 DEF l1
    <3> QED BY <1>1, <1>2, <3>1 DEF AppendsAlone
  <2>10. LoopIsAt(l1, t1, Position + n)
    <3>1. CASE l1.at = "ended"
      BY <3>1 DEF LoopIsAt
    <3>2. CASE l1.at = "reading" /\ l1.bytes = <<>> /\ l1.from = from
      <4>1. Len(l1.bytes) = 0 /\ Len(t1) = m
        BY <2>1, <3>2 DEF m
      <4>2. from + m - 0 = Position + n
        BY <2>4
      <4> QED BY <3>2, <4>1, <4>2 DEF LoopIsAt
    <3> QED BY <2>1, <3>1, <3>2
  <2>11. LoopIsAt(loops'[current], taken'[current], Position + n)
    BY <2>2, <2>10 DEF l1, t1
  <2>12. PlaceKept'
    BY <1>2, <2>3, <2>6, <2>11 DEF PlaceKept
  <2> QED BY <2>8, <2>9, <2>12 DEF PlaceInv
<1> QED BY <1>6, <1>7, <1>8, <1>9 DEF LoopTurn


\* GiveUp closes a reader nobody reads from.
LEMMA GivenUp ==
    ASSUME DurableInv, PlaceInv, GiveUp, UNCHANGED <<file, gap, disk, loops, taken, current, lastStream>>
    PROVE  PlaceInv'
<1>1. attempt'.at = "idle"
  BY DEF GiveUp, IdleAttempt
<1>2. Position' = Position
  BY DEF Position
<1>3. FilesOK' /\ AppendsAlone'
  BY <1>1, <1>2 DEF PlaceInv, FilesOK, AppendsAlone
<1>4. PlaceKept'
  BY <1>1, <1>2 DEF PlaceInv, PlaceKept
<1> QED BY <1>3, <1>4 DEF PlaceInv

\* The job manager starts the stream at the place the attempt read from the file, or beyond
\* it, and what is between the two goes into the gap.
LEMMA PreparedKeepsPlace ==
    ASSUME DurableInv, PlaceInv, Prepared
    PROVE  PlaceInv'
<1>1. /\ SmInv /\ TypesOK /\ ProtocolOK /\ QuietOK /\ FilesOK /\ AppendsAlone /\ PlaceKept
      /\ readers \in [Streams -> Readers] /\ lastStream \in Streams /\ gap \in Nat /\ file \in Seq(Nat)
      /\ attempt \in [at : {"idle", "stat", "create", "prepare", "start", "starting"}, seq : Nat, gap : Nat]
  BY DEF DurableInv, StreamsOK, TypesOK, MainTypes, FileTypes, PlaceInv
<1>2. /\ UNCHANGED <<file, disk, loops, taken, current, lastStream>> /\ attempt.at = "prepare"
      /\ reply.kind = "prepare"
  BY DEF Prepared, AttemptUnchanged
<1>3. CASE ~reply.ok \/ reply.done
  <2>1. GiveUp /\ gap' = gap
    BY <1>3 DEF Prepared
  <2> QED BY <1>2, <2>1, GivenUp
<1>4. CASE reply.ok /\ ~reply.done
  <2> DEFINE r == readers[lastStream]
  <2>1. /\ call = NoRequest /\ connected /\ jm.pending = lastStream /\ streamId = lastStream
        /\ reply.seq = startSeq /\ startSeq \in Nat
    BY <1>1, <1>2, <1>4, ProtocolParts DEF ReplyOK, SmInv, SmTypeOK
  <2>2. r.buffer = <<>> /\ r.nextSeq = attempt.seq
    <3>1. Corked
      BY <2>1 DEF Corked
    <3> QED BY <1>1, <1>2, <2>1, <3>1 DEF QuietOK, NoData
  <2>3. attempt.seq = Position /\ attempt.gap = gap /\ LoopIsAt(loops[current], taken[current], Position)
        /\ attempt.seq \in Nat
    BY <1>1, <1>2 DEF PlaceKept
  <2>4. attempt'.at = "start" /\ loops[lastStream].at = "none" /\ current = lastStream
    BY <1>1, <1>2, <1>4, ProtocolParts DEF Prepared, AttemptOK
  <2>5. \/ gap' = gap /\ readers' = readers
        \/ /\ reply.seq > attempt.seq /\ gap' = gap + (reply.seq - attempt.seq)
           /\ readers' = [readers EXCEPT ![lastStream] = UpdateNextSeq(@, reply.seq)]
    BY <1>4, <2>3 DEF Prepared
  <2>6. Position' = readers'[lastStream].nextSeq /\ readers'[lastStream].buffer = <<>>
        /\ Position <= Position' /\ Position' \in Nat
    <3>1. CASE gap' = gap /\ readers' = readers
      BY <1>1, <1>2, <2>2, <2>3, <3>1 DEF Position
    <3>2. CASE /\ reply.seq > attempt.seq /\ gap' = gap + (reply.seq - attempt.seq)
               /\ readers' = [readers EXCEPT ![lastStream] = UpdateNextSeq(@, reply.seq)]
      <4> DEFINE r1 == UpdateNextSeq(r, reply.seq)
      <4>1. r1.nextSeq = reply.seq /\ r1.buffer = <<>>
        BY <1>1, <2>2 DEF UpdateNextSeq, Readers
      <4>2. readers' = [readers EXCEPT ![lastStream] = r1]
        BY <3>2
      <4> HIDE DEF r1
      <4>3. readers'[lastStream] = r1
        BY <1>1, <4>2
      <4>4. Len(file) \in Nat /\ Position = Len(file) + gap /\ Position' = Len(file) + gap'
        BY <1>1, <1>2 DEF Position
      <4>5. Position' = reply.seq /\ Position <= Position' /\ Position' \in Nat
        <5> DEFINE n == Len(file)
                   k == reply.seq
        <5>1. n \in Nat /\ gap \in Nat /\ k \in Nat /\ k > n + gap /\ gap' = gap + (k - (n + gap))
          BY <1>1, <2>1, <2>3, <3>2, <4>4
        <5> HIDE DEF n, k
        <5>2. n + gap' = k /\ n + gap <= k
          BY <5>1
        <5> QED BY <4>4, <5>1, <5>2 DEF n, k
      <4> QED BY <4>1, <4>3, <4>5
    <3> QED BY <2>5, <3>1, <3>2
  <2>7. Consumed(readers'[lastStream]) = Position'
    <3> DEFINE r1 == readers'[lastStream]
               p == Position'
    <3>1. r1.nextSeq = p /\ Len(r1.buffer) = 0 /\ p \in Nat
      BY <2>6
    <3> HIDE DEF r1, p
    <3>2. Consumed(r1) = p
      BY <3>1 DEF Consumed
    <3> QED BY <3>2 DEF r1, p
  <2>8. FilesOK'
    <3>1. Position \in Nat /\ \A i \in DOMAIN file : file[i] \in Nat
      BY <1>1 DEF Position
    <3> DEFINE p == Position'
               q == Position
    <3>2. q \in Nat /\ p \in Nat /\ q <= p
      BY <2>6, <3>1
    <3>3. Ascending(file, q)
      BY <1>1 DEF FilesOK
    <3> HIDE DEF p, q
    <3>4. Ascending(file, p)
      BY <3>1, <3>2, <3>3 DEF Ascending
    <3> QED BY <1>1, <1>2, <3>4 DEF FilesOK, p
  <2>9. AppendsAlone'
    BY <1>1, <1>2, <2>4 DEF AppendsAlone
  <2>10. LoopIsAt(loops'[current'], taken'[current'], Position')
    BY <1>2, <2>4 DEF LoopIsAt
  <2>11. PlaceKept'
    BY <1>2, <2>4, <2>7, <2>10 DEF PlaceKept
  <2> QED BY <2>8, <2>9, <2>11 DEF PlaceInv
<1> QED BY <1>3, <1>4


\* The answer to StartStream: the loop begins where its reader is.
LEMMA StartedKeepsPlace ==
    ASSUME DurableInv, PlaceInv, Started
    PROVE  PlaceInv'
<1>1. /\ SmInv /\ TypesOK /\ ProtocolOK /\ LoopsOK /\ FilesOK /\ AppendsAlone /\ PlaceKept
      /\ loops \in [Streams -> Loops] /\ lastStream \in Streams
      /\ file \in Seq(Nat) /\ gap \in Nat
  BY DEF DurableInv, StreamsOK, TypesOK, MainTypes, FileTypes, PlaceInv
<1>2. /\ UNCHANGED <<file, gap, disk, taken, current, lastStream>> /\ attempt.at \in {"start", "starting"}
  BY DEF Started, AttemptUnchanged
<1>3. CASE ~reply.ok
  <2>1. GiveUp /\ loops' = loops
    BY <1>3 DEF Started
  <2> QED BY <1>2, <2>1, GivenUp
<1>4. CASE reply.ok
  <2> DEFINE from == readers[lastStream].nextSeq - Len(readers[lastStream].buffer)
             l == [at |-> "reading", from |-> from, bytes |-> <<>>, err |-> "none"]
  <2>1. loops' = [loops EXCEPT ![lastStream] = l] /\ attempt'.at = "idle"
    BY <1>4 DEF Started, IdleAttempt
  <2>2. current = lastStream /\ taken[lastStream] = <<>> /\ loops[lastStream].at = "none"
    BY <1>1, <1>2, ProtocolParts DEF AttemptOK, LoopsOK, LoopOK
  <2>3. Consumed(readers[lastStream]) = Position
    BY <1>1, <1>2 DEF PlaceKept
  <2>4. from = Position
    BY <2>3 DEF Consumed
  <2>5. l.from = from /\ l.bytes = <<>> /\ l.at = "reading"
    OBVIOUS
  <2> HIDE DEF from, l
  <2>6. loops'[lastStream] = l
    BY <1>1, <2>1
  <2>7. Position' = Position /\ Position \in Nat
    BY <1>1, <1>2 DEF Position
  <2>8. LoopIsAt(l, <<>>, Position)
    BY <2>4, <2>5, <2>7 DEF LoopIsAt
  <2>9. FilesOK'
    BY <1>1, <1>2, <2>7 DEF FilesOK
  <2>10. AppendsAlone'
    <3>1. \A g \in Streams : loops'[g].at = "append" => loops[g].at = "append"
      BY <1>1, <2>1, <2>5
    <3> QED BY <1>1, <1>2, <2>1, <3>1 DEF AppendsAlone
  <2>11. PlaceKept'
    BY <1>2, <2>1, <2>2, <2>6, <2>7, <2>8 DEF PlaceKept
  <2> QED BY <2>9, <2>10, <2>11 DEF PlaceInv
<1> QED BY <1>3, <1>4

\* The other steps of an attempt.
LEMMA AttemptsKeepPlace ==
    ASSUME DurableInv, PlaceInv, ~SlowAppend, Reconnect \/ StatFile \/ CreateReader \/ AttemptTimesOut
    PROVE  PlaceInv'
<1>1. /\ LoopsOK /\ FilesOK /\ AppendsAlone /\ PlaceKept /\ lastStream \in Streams
      /\ attempt.at # "idle" => loops[lastStream].at = "none"
      /\ attempt \in [at : {"idle", "stat", "create", "prepare", "start", "starting"}, seq : Nat, gap : Nat]
  BY ProtocolParts DEF DurableInv, StreamsOK, TypesOK, MainTypes, AttemptOK, PlaceInv
<1>2. /\ UNCHANGED <<file, gap, disk, taken, loops>>
  BY DEF Reconnect, StatFile, CreateReader, AttemptTimesOut, AttemptUnchanged
<1>3. Position' = Position /\ FilesOK'
  BY <1>1, <1>2 DEF Position, FilesOK
<1>4. CASE Reconnect
  <2>1. attempt'.at = "stat" /\ current' = current
    BY <1>1, <1>4 DEF Reconnect
  <2> QED BY <1>1, <1>2, <1>3, <2>1 DEF PlaceInv, AppendsAlone, PlaceKept
<1>5. CASE StatFile
  <2>1. /\ attempt'.at = "create" /\ attempt'.seq = Position /\ attempt'.gap = gap /\ current' = current
        /\ \A g \in Streams : loops[g].at # "append"
    BY <1>5 DEF StatFile
  <2>2. AppendsAlone'
    BY <1>2, <2>1 DEF AppendsAlone
  <2>3. PlaceKept'
    BY <1>1, <1>2, <1>3, <2>1 DEF PlaceKept
  <2> QED BY <1>3, <2>2, <2>3 DEF PlaceInv
<1>6. CASE CreateReader
  <2>1. /\ attempt.at = "create" /\ attempt'.at = "prepare" /\ attempt'.seq = attempt.seq
        /\ attempt'.gap = attempt.gap /\ current' = lastStream
    BY <1>1, <1>6 DEF CreateReader
  <2>2. AppendsAlone'
    BY <1>1, <1>2, <2>1 DEF AppendsAlone
  <2>3. LoopIsAt(loops[lastStream], taken[lastStream], Position)
    BY <1>1, <2>1 DEF LoopIsAt
  <2>4. PlaceKept'
    BY <1>1, <1>2, <1>3, <2>1, <2>3 DEF PlaceKept
  <2> QED BY <1>3, <2>2, <2>4 DEF PlaceInv
<1>7. CASE AttemptTimesOut
  <2>1. GiveUp /\ UNCHANGED <<current, lastStream>>
    BY <1>7 DEF AttemptTimesOut
  <2> QED BY <1>2, <2>1, GivenUp
<1> QED BY <1>4, <1>5, <1>6, <1>7

\* What a crash leaves is what was flushed.
LEMMA CrashKeepsPlace ==
    ASSUME DurableInv, PlaceInv, Crash
    PROVE  PlaceInv'
<1>1. FilesOK /\ current \in Streams
  BY DEF PlaceInv, DurableInv, TypesOK, MainTypes
<1>2. /\ file' = disk.file /\ gap' = disk.gap /\ disk' = disk /\ attempt'.at = "idle" /\ current' = current
      /\ \A g \in Streams : loops'[g].at = "none"
  BY DEF Crash, IdleAttempt, NoLoop
<1>3. FilesOK'
  BY <1>1, <1>2 DEF FilesOK, Position
<1>4. AppendsAlone' /\ PlaceKept'
  BY <1>1, <1>2 DEF AppendsAlone, PlaceKept, LoopIsAt
<1> QED BY <1>3, <1>4 DEF PlaceInv

\* Every step.
LEMMA PlaceStep ==
    ASSUME DurableInv, PlaceInv, ~SlowAppend, [DurableNext]_allVars
    PROVE  PlaceInv'
<1>1. CASE JobTurn \/ Drop \/ UNCHANGED allVars
  <2>1. UNCHANGED <<file, gap, disk, loops, taken, readers, current, attempt, lastStream>>
    BY <1>1 DEF JobTurn, PtyTurn, SenderTransmits, Transmit, JobReceivesAck, PrepareConnect, TakeOver,
                Connect, Connecting, Connected, StartStream, JmUnchanged, Drop, allVars, dsVars, loopVars,
                fileVars, readerVars, mainVars
  <2> QED BY <2>1, PlaceStays
<1>2. CASE MainReceives
  <2>1. UNCHANGED <<file, gap, disk, loops, taken, current, attempt, lastStream>>
    BY <1>2 DEF MainReceives, MainUnchanged, loopVars, fileVars, mainVars
  <2>2. \A h \in Streams : Consumed(readers'[h]) = Consumed(readers[h])
    BY <1>2, MainReceivesStep
  <2> QED BY <2>1, <2>2, PlaceStays
<1>3. CASE Flush
  <2>1. UNCHANGED <<file, gap, loops, taken, readers, current, attempt, lastStream>>
        /\ disk' = [file |-> file, gap |-> gap]
    BY <1>3 DEF Flush, loopVars, readerVars, mainVars
  <2>2. FilesOK'
    BY <2>1 DEF PlaceInv, FilesOK, Position
  <2>3. AppendsAlone' /\ PlaceKept'
    BY <2>1 DEF PlaceInv, AppendsAlone, PlaceKept, Position
  <2> QED BY <2>2, <2>3 DEF PlaceInv
<1>4. ASSUME NEW g \in Streams, LoopTurn(g) PROVE PlaceInv'
  BY <1>4, LoopsKeepPlace
<1>5. CASE Reconnect \/ StatFile \/ CreateReader \/ AttemptTimesOut
  BY <1>5, AttemptsKeepPlace
<1> QED BY <1>1, <1>2, <1>3, <1>4, <1>5, PreparedKeepsPlace, StartedKeepsPlace, CrashKeepsPlace
        DEF DurableNext, MainTurn, AttemptTurn

\* StartJob's stream and the empty file both are at 0.
LEMMA PlaceAtStart == DurableInit => PlaceInv
<1> SUFFICES ASSUME DurableInit PROVE PlaceInv
  OBVIOUS
<1>1. /\ file = <<>> /\ gap = 0 /\ disk = [file |-> <<>>, gap |-> 0] /\ current = 1 /\ lastStream = 1
      /\ attempt.at = "starting" /\ 1 \in Streams
      /\ \A g \in Streams : loops[g] = NoLoop
      /\ readers[1] = NewReader(0)
  <2>1. 1 \in Streams
    BY DurableAssumption DEF Streams
  <2> QED BY <2>1 DEF DurableInit
<1>2. Position = 0 /\ FilesOK
  BY <1>1 DEF Position, FilesOK, Ascending
<1>3. NoLoop.at = "none"
  BY DEF NoLoop
<1>4. Consumed(readers[1]) = 0
  BY <1>1, NewReaderStarts
<1> QED BY <1>1, <1>2, <1>3, <1>4 DEF PlaceInv, AppendsAlone, PlaceKept, LoopIsAt

\* As long as an append is over when a reconnect reads the file's size: the terminal file is
\* the job's output with holes, in order and without repetition, and every hole is accounted
\* for in the recorded gap, over lost connections, timeouts and crashes.
THEOREM NothingIsLostSilently == ~SlowAppend => (DurableSpec => []NoSilentLoss)
<1> SUFFICES ASSUME ~SlowAppend PROVE DurableSpec => []NoSilentLoss
  OBVIOUS
<1>1. DurableInit => PlaceInv
  BY PlaceAtStart
<1>2. DurableInv /\ PlaceInv /\ [DurableNext]_allVars => PlaceInv'
  BY PlaceStep
<1>3. DurableInv /\ PlaceInv => NoSilentLoss
  <2> SUFFICES ASSUME DurableInv, PlaceInv PROVE NoSilentLoss
    OBVIOUS
  <2>1. file \in Seq(Nat) /\ gap \in Nat /\ Ascending(file, Position)
    BY DEF DurableInv, TypesOK, FileTypes, PlaceInv, FilesOK
  <2>2. Position \in Nat /\ \A i \in DOMAIN file : file[i] \in Nat
    BY <2>1 DEF Position
  <2>3. file # <<>> => file[Len(file)] + 1 <= Position
    <3>1. file # <<>> => Len(file) \in DOMAIN file
      BY <2>1
    <3> QED BY <2>1, <2>2, <3>1 DEF Ascending
  <2> QED BY <2>1, <2>3 DEF NoSilentLoss, Ascending
<1> QED BY <1>1, <1>2, <1>3, DurableInvariant, PTL DEF DurableSpec
=============================================================================
