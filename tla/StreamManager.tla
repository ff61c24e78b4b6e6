--------------------------- MODULE StreamManager ----------------------------
(***************************************************************************)
(* pkg/jobmanager/streammanager.go: the sending end of a durable session.  *)
(* Three goroutines share it: readLoop copies the job's terminal output    *)
(* into the buffer, senderLoop cuts the buffer into packets, and the RPC   *)
(* handlers connect clients and apply their acks.                          *)
(*                                                                         *)
(* sm.lock covers every method except the buffer writes of handleReadData, *)
(* which take only the buffer's own lock.  A method during which such a    *)
(* write could matter is several steps (ClientConnected, "connecting");    *)
(* in the others the buffer is in sync mode, where a write moves nothing   *)
(* the method has read, or the method reads the buffer once.               *)
(***************************************************************************)
EXTENDS ByteWindow

CONSTANTS
    CwndSize,     \* congestion window: most bytes in flight
    MaxRwnd,      \* bound: the largest receive window a client names
    MaxStreams    \* bound: how many clients connect, one after the other

ASSUME StreamAssumption ==
    /\ CwndSize \in Nat
    /\ MaxRwnd \in Nat
    /\ MaxStreams \in Nat

VARIABLES
    readLoop,      \* "unattached", "top" of the loop, "reading", "writing", "done"
    signalDue,     \* handleReadData wrote bytes and has not yet signalled drainCond
    terminalEvent, \* "none", "eof" or "error"
    eofPos,        \* NoEof until the terminal event
    sender,        \* senderLoop: "running", "waiting" on drainCond, "done"
    connected, streamId, rwndSize, sentNotAcked, terminalEventSent,
    maxAckedSeq, maxAckedRwnd,
    terminalEventAcked, closed,
    connecting,    \* the ClientConnected call that holds sm.lock, or NoCall
    startSeq       \* what the last successful ClientConnected returned

ptyVars   == <<readLoop, signalDue, terminalEvent, eofPos>>
clientVars == <<connected, streamId, rwndSize, maxAckedSeq, maxAckedRwnd, startSeq>>
sentVars  == <<sentNotAcked, terminalEventSent>>
endVars   == <<terminalEventAcked, closed>>
smVars    == <<windowVars, ptyVars, sender, clientVars, sentVars, endVars, connecting>>

NoEof == -1
NoStream == 0      \* streams are numbered in the order their clients connect
Effective(rwnd) == AtMost(rwnd, CwndSize)

\* Where a ClientConnected call stands: it has read headPos ("head"), has consumed what
\* the client already holds ("consumed"), or is about to connect ("ready").
NoCall == [at |-> "none"]
Calls == {NoCall} \cup
         [at : {"head", "consumed", "ready"}, id : 1 .. MaxStreams,
          rwnd : 0 .. MaxRwnd, clientSeq : Nat, headPos : Nat]

Unlocked == connecting = NoCall

\* Every field keeps its range; in particular no counter of bytes ever goes below zero.
SmTypeOK ==
    /\ window \in Windows /\ writer \in Writers
    /\ readLoop \in {"unattached", "top", "reading", "writing", "done"}
    /\ signalDue \in BOOLEAN
    /\ terminalEvent \in {"none", "eof", "error"} /\ eofPos \in Nat \cup {NoEof}
    /\ sender \in {"running", "waiting", "done"}
    /\ connected \in BOOLEAN /\ streamId \in 0 .. MaxStreams /\ rwndSize \in Nat
    /\ sentNotAcked \in Nat /\ terminalEventSent \in BOOLEAN
    /\ maxAckedSeq \in Nat /\ maxAckedRwnd \in Nat
    /\ terminalEventAcked \in BOOLEAN /\ closed \in BOOLEAN
    /\ connecting \in Calls /\ startSeq \in Nat

\* MakeStreamManagerWithSizes: the buffer starts in sync mode, with no client.
SmInit ==
    /\ window = EmptyWindow(TRUE) /\ writer = IdleWriter
    /\ readLoop = "unattached" /\ signalDue = FALSE
    /\ terminalEvent = "none" /\ eofPos = NoEof
    /\ sender = "running"
    /\ connected = FALSE /\ streamId = NoStream /\ rwndSize = CwndSize
    /\ sentNotAcked = 0 /\ terminalEventSent = FALSE
    /\ maxAckedSeq = 0 /\ maxAckedRwnd = 0
    /\ terminalEventAcked = FALSE /\ closed = FALSE
    /\ connecting = NoCall /\ startSeq = 0

\* Mutant: nobody signals.
NeverSignals == UNCHANGED sender

\* drainCond.Signal.
SignalSender == sender' = IF sender = "waiting" THEN "running" ELSE sender

-----------------------------------------------------------------------------
(* readLoop and handleReadData. *)

AttachReader ==
    /\ Unlocked
    /\ readLoop = "unattached"    \* a second reader is refused
    /\ readLoop' = "top"
    /\ UNCHANGED <<windowVars, signalDue, terminalEvent, eofPos, sender, clientVars, sentVars,
                   endVars, connecting>>

\* The check of sm.closed, then the blocking Read.
ReadLoopTop ==
    /\ Unlocked
    /\ readLoop = "top"
    /\ readLoop' = IF closed THEN "done" ELSE "reading"
    /\ UNCHANGED <<windowVars, signalDue, terminalEvent, eofPos, sender, clientVars, sentVars,
                   endVars, connecting>>

ReadBytes(n) ==
    /\ readLoop = "reading"
    /\ Offer(n)
    /\ readLoop' = "writing"
    /\ UNCHANGED <<signalDue, terminalEvent, eofPos, sender, clientVars, sentVars, endVars,
                   connecting>>

\* sm.buf.WriteAvailable, without sm.lock; bytes written call for a signal.
WriteBytes ==
    /\ readLoop = "writing" /\ ~signalDue
    /\ WriteAvailable
    /\ signalDue' = (window'.tail # window.tail)
    /\ UNCHANGED <<readLoop, terminalEvent, eofPos, sender, clientVars, sentVars, endVars,
                   connecting>>

SignalData ==
    /\ Unlocked
    /\ signalDue
    /\ signalDue' = FALSE
    /\ SignalSender
    /\ UNCHANGED <<windowVars, readLoop, terminalEvent, eofPos, clientVars, sentVars, endVars,
                   connecting>>

ChunkWritten ==
    /\ readLoop = "writing" /\ writer.left = 0 /\ ~signalDue
    /\ readLoop' = "top"
    /\ UNCHANGED <<windowVars, signalDue, terminalEvent, eofPos, sender, clientVars, sentVars,
                   endVars, connecting>>

\* handleEOF (the terminal was closed) and handleError (any other error of the Read).
ReadEnds(event) ==
    /\ Unlocked
    /\ readLoop = "reading"
    /\ readLoop' = "done"
    /\ terminalEvent' = event /\ eofPos' = window.tail
    /\ SignalSender
    /\ UNCHANGED <<windowVars, signalDue, clientVars, sentVars, endVars, connecting>>

-----------------------------------------------------------------------------
(* senderLoop: prepareNextPacket either sends, ends the loop or waits.     *)

SenderTurn == Unlocked /\ sender = "running"

SenderEnded == closed \/ terminalEventAcked

\* How many bytes the next data packet carries; PeekDataAt starts after the unacked ones.
Sendable ==
    LET room   == Effective(rwndSize) - sentNotAcked
        unsent == Count(window) - sentNotAcked
    IN  IF room <= 0 \/ unsent <= 0 THEN 0 ELSE AtMost(AtMost(room, MaxChunk), unsent)

\* Mutant: the end is announced as soon as everything was sent, acked or not.
TerminalDueEarly ==
    Count(window) = sentNotAcked /\ terminalEvent # "none" /\ ~terminalEventSent

TerminalDue == Count(window) = 0 /\ terminalEvent # "none" /\ ~terminalEventSent

\* Mutant: the bytes are always peeked at the start of the buffer.
DataPacketFromHead ==
    [id |-> streamId, seq |-> window.head + sentNotAcked, n |-> Sendable, end |-> "none",
     first |-> window.head]

\* The packets: n bytes, from position "first" of the output on, said to be those from seq
\* on; or the end of the stream.
DataPacket ==
    [id |-> streamId, seq |-> window.head + sentNotAcked, n |-> Sendable, end |-> "none",
     first |-> window.head + sentNotAcked]

TerminalPacket ==
    [id |-> streamId, seq |-> eofPos, n |-> 0, end |-> terminalEvent, first |-> eofPos]

SendData ==
    /\ SenderTurn /\ ~SenderEnded /\ connected
    /\ Sendable > 0
    /\ sentNotAcked' = sentNotAcked + Sendable
    /\ UNCHANGED <<windowVars, ptyVars, sender, clientVars, terminalEventSent, endVars, connecting>>

SendTerminal ==
    /\ SenderTurn /\ ~SenderEnded /\ connected
    /\ TerminalDue
    /\ terminalEventSent' = TRUE
    /\ UNCHANGED <<windowVars, ptyVars, sender, clientVars, sentNotAcked, endVars, connecting>>

NothingToSend == ~connected \/ (Sendable = 0 /\ ~TerminalDue)

SenderWaits ==
    /\ SenderTurn /\ ~SenderEnded
    /\ NothingToSend
    /\ sender' = "waiting"
    /\ UNCHANGED <<windowVars, ptyVars, clientVars, sentVars, endVars, connecting>>

SenderExits ==
    /\ SenderTurn /\ SenderEnded
    /\ sender' = "done"
    /\ UNCHANGED <<windowVars, ptyVars, clientVars, sentVars, endVars, connecting>>

-----------------------------------------------------------------------------
(* ClientConnected, step by step: another goroutine's write may fall       *)
(* between its reads of the buffer.                                        *)

\* sm.lock is taken, the refusals are passed, headPos is read.
ClientConnected(id, rwnd, clientSeq) ==
    /\ Unlocked
    /\ ~closed /\ ~terminalEventAcked /\ ~connected
    /\ connecting' = [at |-> "head", id |-> id, rwnd |-> rwnd, clientSeq |-> clientSeq,
                      headPos |-> window.head]
    /\ UNCHANGED <<windowVars, ptyVars, sender, clientVars, sentVars, endVars>>

\* What the client already holds is consumed; a client beyond the end is refused.
ConnectConsume ==
    /\ connecting.at = "head"
    /\ LET n == connecting.clientSeq - connecting.headPos IN
       \/ /\ n <= 0
          /\ connecting' = [connecting EXCEPT !.at = "ready"]
          /\ UNCHANGED windowVars
       \/ /\ n > 0 /\ n <= Count(window)
          /\ Consume(n)
          /\ connecting' = [connecting EXCEPT !.at = "consumed"]
       \/ /\ n > Count(window)
          /\ connecting' = NoCall
          /\ UNCHANGED windowVars
    /\ UNCHANGED <<ptyVars, sender, clientVars, sentVars, endVars>>

ConnectHeadAgain ==
    /\ connecting.at = "consumed"
    /\ connecting' = [connecting EXCEPT !.at = "ready", !.headPos = window.head]
    /\ UNCHANGED <<windowVars, ptyVars, sender, clientVars, sentVars, endVars>>

\* From here on the buffer is in sync mode: nothing is given up any more.
ConnectReady ==
    /\ connecting.at = "ready"
    /\ streamId' = connecting.id /\ connected' = TRUE /\ rwndSize' = connecting.rwnd
    /\ sentNotAcked' = 0
    /\ SetEffectiveWindow(TRUE, Effective(connecting.rwnd))
    /\ SignalSender
    /\ startSeq' = IF connecting.clientSeq > connecting.headPos
                   THEN connecting.clientSeq ELSE connecting.headPos
    /\ connecting' = NoCall
    /\ UNCHANGED <<ptyVars, maxAckedSeq, maxAckedRwnd, terminalEventSent, endVars>>

ClientDisconnected ==
    /\ Unlocked
    /\ connected    \* nothing happens otherwise
    /\ connected' = FALSE
    /\ sentNotAcked' = 0 /\ maxAckedSeq' = 0 /\ maxAckedRwnd' = 0
    /\ terminalEventSent' = (terminalEventSent /\ terminalEventAcked)
    /\ SetEffectiveWindow(FALSE, BufSize)
    /\ SignalSender
    /\ UNCHANGED <<ptyVars, streamId, rwndSize, startSeq, endVars, connecting>>

SetRwndSize(rwnd) ==
    /\ Unlocked
    /\ connected    \* an error otherwise
    /\ rwndSize' = rwnd
    /\ SetEffectiveWindow(TRUE, Effective(rwnd))
    /\ SignalSender
    /\ UNCHANGED <<ptyVars, connected, streamId, maxAckedSeq, maxAckedRwnd, startSeq, sentVars,
                   endVars, connecting>>

Close ==
    /\ Unlocked
    /\ closed' = TRUE
    /\ SignalSender
    /\ UNCHANGED <<windowVars, ptyVars, clientVars, sentVars, terminalEventAcked, connecting>>

-----------------------------------------------------------------------------
(* RecvAck.  Cancel and Error are not looked at: such an ack is an         *)
(* ordinary one.                                                           *)

\* Mutant: acks of earlier streams count.
AckIsForAnyone(ack) == connected

AckIsForUs(ack) == connected /\ ack.id = streamId

\* Tuple comparison with the largest (seq, rwnd) seen on this stream.
StaleAck(ack) ==
    \/ ack.seq < maxAckedSeq
    \/ ack.seq = maxAckedSeq /\ ack.rwnd <= maxAckedRwnd

\* Mutant: what was sent is not consulted, only what is buffered.
AckInBuffer(ack) == window.head <= ack.seq /\ ack.seq - window.head <= Count(window)

\* The ack names a position between the head and what was sent.
AckInWindow(ack) == window.head <= ack.seq /\ ack.seq - window.head <= sentNotAcked

RecvFin(ack) ==
    /\ AckIsForUs(ack) /\ ack.fin
    /\ terminalEventAcked' = TRUE
    /\ SignalSender
    /\ UNCHANGED <<windowVars, ptyVars, clientVars, sentVars, closed, connecting>>

RecvFreshAck(ack) ==
    /\ AckIsForUs(ack) /\ ~ack.fin /\ ~StaleAck(ack)
    /\ maxAckedSeq' = ack.seq /\ maxAckedRwnd' = ack.rwnd
    /\ IF AckInWindow(ack)
       THEN LET acked == ack.seq - window.head
                after == AfterConsume(window, acked)
            IN  /\ window' = AfterSetEffectiveWindow(after, TRUE, Effective(ack.rwnd))
                /\ writer' = IF acked > 0 \/ WindowWakes(after, TRUE, Effective(ack.rwnd))
                             THEN Woken(writer) ELSE writer
                /\ sentNotAcked' = sentNotAcked - acked
                /\ rwndSize' = ack.rwnd
                /\ IF ack.rwnd > rwndSize \/ acked > 0 THEN SignalSender ELSE UNCHANGED sender
       ELSE UNCHANGED <<windowVars, sentNotAcked, rwndSize, sender>>
    /\ UNCHANGED <<ptyVars, connected, streamId, startSeq, terminalEventSent, endVars, connecting>>

IgnoreAck(ack) ==
    /\ ~AckIsForUs(ack) \/ (~ack.fin /\ StaleAck(ack))
    /\ UNCHANGED smVars

RecvAck(ack) ==
    /\ Unlocked
    /\ RecvFin(ack) \/ RecvFreshAck(ack) \/ IgnoreAck(ack)

-----------------------------------------------------------------------------
(* The stream manager on its own: clients come and go, each with a stream  *)
(* id of its own, and say whatever they like.                              *)

Acks == [id : 1 .. MaxStreams, seq : 0 .. MaxOutput, rwnd : 0 .. MaxRwnd, fin : BOOLEAN]

PtyStep ==
    \/ AttachReader \/ ReadLoopTop \/ WriteBytes \/ SignalData \/ ChunkWritten
    \/ \E n \in 1 .. MaxChunk : ReadBytes(n)
    \/ \E event \in {"eof", "error"} : ReadEnds(event)

SenderStep == SendData \/ SendTerminal \/ SenderWaits \/ SenderExits

ConnectStep == ConnectConsume \/ ConnectHeadAgain \/ ConnectReady

ClientStep ==
    \/ /\ streamId < MaxStreams
       /\ \E rwnd \in 0 .. MaxRwnd, clientSeq \in 0 .. MaxOutput :
            ClientConnected(streamId + 1, rwnd, clientSeq)
    \/ ConnectStep
    \/ ClientDisconnected
    \/ \E rwnd \in 0 .. MaxRwnd : SetRwndSize(rwnd)
    \/ Close
    \/ \E ack \in Acks : RecvAck(ack)

SmNext == PtyStep \/ SenderStep \/ ClientStep

SmSpec == SmInit /\ [][SmNext]_smVars

-----------------------------------------------------------------------------

SendPos == window.head + sentNotAcked

\* What was sent and not acked is still in the buffer, and nothing is given up while a
\* client is connected: prepareNextPacket never peeks past the buffer, and Consume in
\* RecvAck never fails.
SentStaysBuffered ==
    connected => /\ window.sync
                 /\ 0 <= sentNotAcked /\ sentNotAcked <= Count(window)

\* The sender never sleeps on drainCond while there is something to send: every change
\* that gives it work signals, or a signal is on its way (handleReadData).
SenderNotStuck ==
    sender = "waiting" /\ Unlocked => NothingToSend \/ signalDue

\* The end of the stream is announced only when the reader of the terminal has stopped
\* and every byte it read was acked; the packet's Seq is the end of the output.
EndIsLast ==
    connected /\ terminalEventSent =>
        /\ readLoop = "done" /\ terminalEvent # "none"
        /\ window.head = window.tail /\ eofPos = window.tail

\* While a stream lasts, a byte leaves the buffer only because an ack named it after it
\* was sent; an ack that is stale, or ahead of what was sent, frees nothing.
OnlyAckedBytesLeave ==
    [][connected /\ connected' /\ window'.head # window.head =>
          /\ window'.head = maxAckedSeq'
          /\ window'.head <= SendPos]_smVars

\* On one stream the send position only moves by sending the next bytes: no ack, window
\* change or signal makes the sender skip a byte or send one twice.
SendsAreContiguous ==
    [][connected /\ connected' /\ SendPos' # SendPos =>
          /\ window' = window
          /\ SendPos' = SendPos + Sendable]_smVars
=============================================================================
