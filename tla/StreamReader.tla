---------------------------- MODULE StreamReader ----------------------------
(***************************************************************************)
(* pkg/streamclient/streamreader.go: the receiving end of a stream, as     *)
(* operators on a reader's state.  Every method holds r.lock throughout,   *)
(* so a method is one step of whoever calls it.                            *)
(*                                                                         *)
(* A data byte is its position in the job's output.  A method that sends   *)
(* an ack returns it in "acks"; the other methods return <<>>.             *)
(***************************************************************************)
EXTENDS Integers, Sequences, FiniteSetsExt, Functions

CONSTANTS
    ReadWindow,   \* rwnd of the stream's meta data: most bytes the reader buffers
    ReadSize,     \* the size of the slice its caller reads into
    AckThreshold  \* a Read acks when the window has grown this much: readWindow / 5

ASSUME ReaderAssumption ==
    /\ ReadWindow \in Nat \ {0}
    /\ ReadSize \in Nat \ {0}
    /\ AckThreshold \in 0 .. ReadWindow

\* NewReaderWithSeq.
NewReader(startSeq) ==
    [nextSeq |-> startSeq, buffer |-> <<>>, eof |-> FALSE, err |-> "none", closed |-> FALSE,
     lastRwndSent |-> ReadWindow, ooo |-> {}]

\* Mutant: the whole window is announced, whatever is buffered.
RwndWhole(r) == ReadWindow

Rwnd(r) == IF Len(r.buffer) > ReadWindow THEN 0 ELSE ReadWindow - Len(r.buffer)

AckOf(r, id, fin, cancel) ==
    [id |-> id, seq |-> r.nextSeq, rwnd |-> Rwnd(r), fin |-> fin, cancel |-> cancel]

Quiet(r) == [reader |-> r, acks |-> <<>>]

\* sendAckLocked.
WithAck(r, id, fin, cancel) ==
    [reader |-> [r EXCEPT !.lastRwndSent = Rwnd(r)],
     acks   |-> <<AckOf(r, id, fin, cancel)>>]

Ended(r) == r.closed \/ r.eof \/ r.err # "none"

\* The bytes a packet carries.
Bytes(pkt) == [i \in 1 .. pkt.n |-> pkt.first + i - 1]

\* recvDataOrderedLocked.
TakeInOrder(r, pkt) ==
    [r EXCEPT !.buffer = @ \o Bytes(pkt),
              !.nextSeq = @ + pkt.n,
              !.eof = @ \/ pkt.end = "eof"]

\* addOOOPacketLocked: the first packet of a position wins.
Hold(r, pkt) ==
    IF \E p \in r.ooo : p.seq = pkt.seq THEN r ELSE [r EXCEPT !.ooo = @ \cup {pkt}]

\* One round of processOOOPacketsLocked: of the held packets the first in order of Seq, if
\* it is the one awaited.  The end of the stream drops the rest.
ReleaseOne(r) ==
    IF r.ooo = {} THEN r
    ELSE IF r.eof \/ r.err # "none" THEN [r EXCEPT !.ooo = {}]
    ELSE LET pkt == CHOOSE p \in r.ooo : \A q \in r.ooo : p.seq <= q.seq
         IN  IF pkt.seq # r.nextSeq THEN r
             ELSE TakeInOrder([r EXCEPT !.ooo = @ \ {pkt}], pkt)

\* The reader after so many rounds.
Released(r0, rounds) ==
    LET after[k \in 0 .. rounds] == IF k = 0 THEN r0 ELSE ReleaseOne(after[k - 1])
    IN  after[rounds]

ReleaseHeld(r) == Released(r, Cardinality(r.ooo) + 1)

\* RecvData.  An error packet counts at once, whatever its Seq.
RecvData(r, id, pkt) ==
    IF Ended(r) THEN Quiet(r)
    ELSE IF pkt.end = "error"
         THEN WithAck([r EXCEPT !.err = "error"], id, TRUE, FALSE)
    ELSE IF pkt.seq < r.nextSeq THEN Quiet(r)
    ELSE IF pkt.seq > r.nextSeq THEN Quiet(Hold(r, pkt))
    ELSE LET taken == ReleaseHeld(TakeInOrder(r, pkt))
         IN  WithAck(taken, id, taken.eof, FALSE)

\* Read waits until one of these holds.
Readable(r) == Ended(r) \/ Len(r.buffer) > 0

\* Mutant: the end of the stream is reported before the buffer is empty.
ReadErrorEarly(r) ==
    IF r.closed THEN "closed" ELSE IF r.err # "none" THEN r.err ELSE IF r.eof THEN "eof" ELSE "none"

\* What Read returns as its error; no bytes come with one.
ReadError(r) ==
    IF r.closed THEN "closed"
    ELSE IF r.err # "none" THEN r.err
    ELSE IF r.eof /\ Len(r.buffer) = 0 THEN "eof"
    ELSE "none"

ReadCount(r) ==
    IF ReadError(r) # "none" THEN 0
    ELSE IF Len(r.buffer) > ReadSize THEN ReadSize ELSE Len(r.buffer)

ReadBytesOf(r) == SubSeq(r.buffer, 1, ReadCount(r))

\* Mutant: only RecvData acks.
ReadWithoutAck(r, id) == Quiet([r EXCEPT !.buffer = SubSeq(@, ReadCount(r) + 1, Len(@))])

\* The reader after Read: an ack goes out when the buffer is empty or the window has
\* grown enough since the last one.
Read(r, id) ==
    LET rest == [r EXCEPT !.buffer = SubSeq(@, ReadCount(r) + 1, Len(@))] IN
    IF ReadCount(r) > 0 /\ (rest.buffer = <<>> \/ Rwnd(rest) - r.lastRwndSent >= AckThreshold)
    THEN WithAck(rest, id, FALSE, FALSE)
    ELSE Quiet(rest)

\* Held packets are not looked at again.
UpdateNextSeq(r, newSeq) == [r EXCEPT !.nextSeq = newSeq]

CloseReader(r, id) ==
    IF r.closed THEN Quiet(r)
    ELSE WithAck([r EXCEPT !.closed = TRUE, !.err = IF @ = "none" THEN "closed" ELSE @],
                 id, FALSE, TRUE)
=============================================================================
