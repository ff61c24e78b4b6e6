------------------------ MODULE StreamManagerProofs ------------------------
(***************************************************************************)
(* The stream manager's safety, for every buffer, window and chunk size,   *)
(* any number of clients, and acks that say whatever they like.            *)
(***************************************************************************)
EXTENDS StreamManager, TLAPS

\* The writer is only parked where the window is full, and the window within its bounds.
BufferHolds == WindowBounded /\ NoLostWakeup

\* Once the terminal has ended nothing is written any more.
OutputEnds == terminalEvent # "none" => readLoop = "done" /\ eofPos = window.tail

\* Between two clients the announcement of the end is kept only if it was acked.
EndNotKept == ~connected /\ terminalEventSent => terminalEventAcked

\* While ClientConnected runs there is no client, and the stream is not over.
ConnectingAlone == ~Unlocked => ~connected /\ ~terminalEventAcked

\* The inductive invariant.
SmInv ==
    /\ SmTypeOK
    /\ BufferHolds
    /\ SentStaysBuffered
    /\ OutputEnds
    /\ EndIsLast /\ EndNotKept
    /\ ConnectingAlone
    /\ SenderNotStuck

-----------------------------------------------------------------------------
(* The operators on the window. *)

\* AtMost is the smaller of its arguments.
LEMMA AtMostIsLess ==
    ASSUME NEW n \in Int, NEW bound \in Int
    PROVE  /\ AtMost(n, bound) \in Int
           /\ AtMost(n, bound) <= n /\ AtMost(n, bound) <= bound
           /\ AtMost(n, bound) = n \/ AtMost(n, bound) = bound
BY DEF AtMost

\* The congestion window leaves a size in bytes.
LEMMA EffectiveIsNat == ASSUME NEW rwnd \in Nat PROVE Effective(rwnd) \in Nat
BY StreamAssumption DEF Effective, AtMost

\* Writing moves the tail; the head only to stay within the limit.
LEMMA WrittenWindow ==
    ASSUME NEW w \in Windows, w.head <= w.tail, NEW n \in Nat
    PROVE  /\ AfterWrite(w, n) \in Windows
           /\ AfterWrite(w, n).tail = w.tail + n
           /\ AfterWrite(w, n).sync = w.sync /\ AfterWrite(w, n).limit = w.limit
           /\ AfterWrite(w, n).head <= w.tail + n
           /\ w.tail + n - AfterWrite(w, n).head <= w.limit
           /\ w.tail + n <= w.head + w.limit => AfterWrite(w, n).head = w.head
<1>1. w.head \in Nat /\ w.tail \in Nat /\ w.sync \in BOOLEAN /\ w.limit \in 0 .. BufSize
  BY DEF Windows
<1>2. BufSize \in Nat
  BY SizesAssumption
<1> DEFINE head == IF w.tail + n > w.head + w.limit THEN w.tail + n - w.limit ELSE w.head
<1>3. AfterWrite(w, n) = [head |-> head, tail |-> w.tail + n, sync |-> w.sync, limit |-> w.limit]
  BY <1>1, <1>2 DEF AfterWrite
<1>4. /\ head \in Nat /\ head <= w.tail + n /\ w.tail + n - head <= w.limit
      /\ w.tail + n <= w.head + w.limit => head = w.head
  BY <1>1, <1>2
<1> HIDE DEF head
<1>5. w.tail + n \in Nat
  BY <1>1
<1>6. AfterWrite(w, n) \in Windows
  BY <1>1, <1>3, <1>4, <1>5 DEF Windows
<1> QED BY <1>3, <1>4, <1>6

\* Consuming moves the head and nothing else.
LEMMA ConsumedWindow ==
    ASSUME NEW w \in Windows, NEW n \in Int, 0 <= n
    PROVE  /\ AfterConsume(w, n) \in Windows
           /\ AfterConsume(w, n).head = w.head + n /\ AfterConsume(w, n).tail = w.tail
           /\ AfterConsume(w, n).sync = w.sync /\ AfterConsume(w, n).limit = w.limit
<1>1. w.head + n \in Nat
  BY DEF Windows
<1> QED BY <1>1 DEF AfterConsume, Windows

\* A new limit moves the head only in async mode, and then to the limit.
LEMMA LimitedWindow ==
    ASSUME NEW w \in Windows, w.head <= w.tail, NEW sync \in BOOLEAN, NEW size \in Nat
    PROVE  /\ AfterSetEffectiveWindow(w, sync, size) \in Windows
           /\ AfterSetEffectiveWindow(w, sync, size).tail = w.tail
           /\ AfterSetEffectiveWindow(w, sync, size).sync = sync
           /\ AfterSetEffectiveWindow(w, sync, size).limit = AtMost(size, BufSize)
           /\ w.head <= AfterSetEffectiveWindow(w, sync, size).head
           /\ AfterSetEffectiveWindow(w, sync, size).head <= w.tail
           /\ ~sync => w.tail - AfterSetEffectiveWindow(w, sync, size).head <= AtMost(size, BufSize)
           /\ sync => AfterSetEffectiveWindow(w, sync, size).head = w.head
<1>1. w.head \in Nat /\ w.tail \in Nat
  BY DEF Windows
<1>2. BufSize \in Nat
  BY SizesAssumption
<1> DEFINE limit == AtMost(size, BufSize)
           head  == IF ~sync /\ Count(w) > limit THEN w.tail - limit ELSE w.head
<1>3. limit \in 0 .. BufSize
  BY <1>2 DEF AtMost
<1>4. AfterSetEffectiveWindow(w, sync, size)
        = [head |-> head, tail |-> w.tail, sync |-> sync, limit |-> limit]
  BY <1>1, <1>2, <1>3 DEF AfterSetEffectiveWindow
<1> HIDE DEF limit
<1>5. /\ head \in Nat /\ w.head <= head /\ head <= w.tail
      /\ ~sync => w.tail - head <= limit
      /\ sync => head = w.head
  BY <1>1, <1>2, <1>3 DEF Count
<1> HIDE DEF head
<1>6. AfterSetEffectiveWindow(w, sync, size) \in Windows
  BY <1>1, <1>3, <1>4, <1>5 DEF Windows
<1> QED BY <1>4, <1>5, <1>6 DEF limit

-----------------------------------------------------------------------------
(* Init, and the steps that do not touch the buffer. *)

\* It holds at the start.
LEMMA StartHolds == SmInit => SmInv
<1> SUFFICES ASSUME SmInit PROVE SmInv
  OBVIOUS
<1>1. window \in Windows /\ window.head = 0 /\ window.tail = 0 /\ window.sync
  BY SizesAssumption DEF SmInit, EmptyWindow, Windows
<1>2. writer \in Writers /\ ~writer.waiting
  BY SizesAssumption DEF SmInit, IdleWriter, Writers
<1>3. connecting \in Calls
  BY DEF SmInit, Calls
<1>4. signalDue \in BOOLEAN /\ connected \in BOOLEAN /\ terminalEventSent \in BOOLEAN
      /\ terminalEventAcked \in BOOLEAN /\ closed \in BOOLEAN
  BY Zenon DEF SmInit
<1>5. SmTypeOK
  <2>1. /\ readLoop = "unattached" /\ terminalEvent = "none" /\ eofPos = NoEof /\ sender = "running"
        /\ streamId = 0 /\ rwndSize = CwndSize /\ sentNotAcked = 0
        /\ maxAckedSeq = 0 /\ maxAckedRwnd = 0 /\ startSeq = 0
    BY DEF SmInit, NoStream
  <2> QED BY <1>1, <1>2, <1>3, <1>4, <2>1, StreamAssumption DEF SmTypeOK
<1>6. BufferHolds
  BY <1>1, <1>2, SizesAssumption DEF BufferHolds, WindowBounded, NoLostWakeup, Count
<1> QED BY <1>5, <1>6 DEF SmInit, SmInv, SentStaysBuffered, OutputEnds, EndIsLast, EndNotKept,
             ConnectingAlone, SenderNotStuck, Unlocked

\* The terminal's reader is attached.
LEMMA AttachReaderKeeps ==
    ASSUME SmInv, AttachReader
    PROVE  SmInv'
<1>1. SmTypeOK'
  BY DEF SmInv, SmTypeOK, AttachReader, windowVars, ptyVars, clientVars, sentVars, endVars
<1>2. BufferHolds'
  BY DEF SmInv, BufferHolds, WindowBounded, NoLostWakeup, Full, Count, AttachReader, windowVars, ptyVars, clientVars, sentVars, endVars
<1>3. SentStaysBuffered' /\ ConnectingAlone'
  BY DEF SmInv, SentStaysBuffered, ConnectingAlone, Unlocked, Count, AttachReader, windowVars, ptyVars, clientVars, sentVars, endVars
<1>4. OutputEnds' /\ EndIsLast' /\ EndNotKept'
  BY DEF SmInv, OutputEnds, EndIsLast, EndNotKept, AttachReader, windowVars, ptyVars, clientVars, sentVars, endVars
<1>5. SenderNotStuck'
  BY DEF SmInv, SenderNotStuck, NothingToSend, Sendable, TerminalDue, Unlocked, Count, AttachReader, windowVars, ptyVars, clientVars, sentVars, endVars
<1> QED BY <1>1, <1>2, <1>3, <1>4, <1>5 DEF SmInv

\* readLoop looks at closed.
LEMMA ReadLoopTopKeeps ==
    ASSUME SmInv, ReadLoopTop
    PROVE  SmInv'
<1>1. SmTypeOK'
  BY DEF SmInv, SmTypeOK, ReadLoopTop, windowVars, ptyVars, clientVars, sentVars, endVars
<1>2. BufferHolds'
  BY DEF SmInv, BufferHolds, WindowBounded, NoLostWakeup, Full, Count, ReadLoopTop, windowVars, ptyVars, clientVars, sentVars, endVars
<1>3. SentStaysBuffered' /\ ConnectingAlone'
  BY DEF SmInv, SentStaysBuffered, ConnectingAlone, Unlocked, Count, ReadLoopTop, windowVars, ptyVars, clientVars, sentVars, endVars
<1>4. OutputEnds' /\ EndIsLast' /\ EndNotKept'
  BY DEF SmInv, OutputEnds, EndIsLast, EndNotKept, ReadLoopTop, windowVars, ptyVars, clientVars, sentVars, endVars
<1>5. SenderNotStuck'
  BY DEF SmInv, SenderNotStuck, NothingToSend, Sendable, TerminalDue, Unlocked, Count, ReadLoopTop, windowVars, ptyVars, clientVars, sentVars, endVars
<1> QED BY <1>1, <1>2, <1>3, <1>4, <1>5 DEF SmInv

\* handleReadData signals what it wrote.
LEMMA SignalDataKeeps ==
    ASSUME SmInv, SignalData
    PROVE  SmInv'
<1>1. SmTypeOK'
  BY DEF SmInv, SmTypeOK, SignalData, SignalSender, windowVars, ptyVars, clientVars, sentVars, endVars
<1>2. BufferHolds'
  BY DEF SmInv, BufferHolds, WindowBounded, NoLostWakeup, Full, Count, SignalData, SignalSender, windowVars, ptyVars, clientVars, sentVars, endVars
<1>3. SentStaysBuffered' /\ ConnectingAlone'
  BY DEF SmInv, SentStaysBuffered, ConnectingAlone, Unlocked, Count, SignalData, SignalSender, windowVars, ptyVars, clientVars, sentVars, endVars
<1>4. OutputEnds' /\ EndIsLast' /\ EndNotKept'
  BY DEF SmInv, OutputEnds, EndIsLast, EndNotKept, SignalData, SignalSender, windowVars, ptyVars, clientVars, sentVars, endVars
<1>5. SenderNotStuck'
  BY DEF SmInv, SenderNotStuck, NothingToSend, Sendable, TerminalDue, Unlocked, Count, SignalData, SignalSender, windowVars, ptyVars, clientVars, sentVars, endVars
<1> QED BY <1>1, <1>2, <1>3, <1>4, <1>5 DEF SmInv

\* The chunk is in the buffer.
LEMMA ChunkWrittenKeeps ==
    ASSUME SmInv, ChunkWritten
    PROVE  SmInv'
<1>1. SmTypeOK'
  BY DEF SmInv, SmTypeOK, ChunkWritten, windowVars, ptyVars, clientVars, sentVars, endVars
<1>2. BufferHolds'
  BY DEF SmInv, BufferHolds, WindowBounded, NoLostWakeup, Full, Count, ChunkWritten, windowVars, ptyVars, clientVars, sentVars, endVars
<1>3. SentStaysBuffered' /\ ConnectingAlone'
  BY DEF SmInv, SentStaysBuffered, ConnectingAlone, Unlocked, Count, ChunkWritten, windowVars, ptyVars, clientVars, sentVars, endVars
<1>4. OutputEnds' /\ EndIsLast' /\ EndNotKept'
  BY DEF SmInv, OutputEnds, EndIsLast, EndNotKept, ChunkWritten, windowVars, ptyVars, clientVars, sentVars, endVars
<1>5. SenderNotStuck'
  BY DEF SmInv, SenderNotStuck, NothingToSend, Sendable, TerminalDue, Unlocked, Count, ChunkWritten, windowVars, ptyVars, clientVars, sentVars, endVars
<1> QED BY <1>1, <1>2, <1>3, <1>4, <1>5 DEF SmInv

\* The sender waits only when there is nothing to send.
LEMMA SenderWaitsKeeps ==
    ASSUME SmInv, SenderWaits
    PROVE  SmInv'
<1>1. SmTypeOK'
  BY DEF SmInv, SmTypeOK, SenderWaits, SenderTurn, windowVars, ptyVars, clientVars, sentVars, endVars
<1>2. BufferHolds'
  BY DEF SmInv, BufferHolds, WindowBounded, NoLostWakeup, Full, Count, SenderWaits, SenderTurn, windowVars, ptyVars, clientVars, sentVars, endVars
<1>3. SentStaysBuffered' /\ ConnectingAlone'
  BY DEF SmInv, SentStaysBuffered, ConnectingAlone, Unlocked, Count, SenderWaits, SenderTurn, windowVars, ptyVars, clientVars, sentVars, endVars
<1>4. OutputEnds' /\ EndIsLast' /\ EndNotKept'
  BY DEF SmInv, OutputEnds, EndIsLast, EndNotKept, SenderWaits, SenderTurn, windowVars, ptyVars, clientVars, sentVars, endVars
<1>5. SenderNotStuck'
  BY DEF SmInv, SenderNotStuck, NothingToSend, Sendable, TerminalDue, Unlocked, Count, SenderWaits, SenderTurn, windowVars, ptyVars, clientVars, sentVars, endVars
<1> QED BY <1>1, <1>2, <1>3, <1>4, <1>5 DEF SmInv

\* The sender leaves its loop.
LEMMA SenderExitsKeeps ==
    ASSUME SmInv, SenderExits
    PROVE  SmInv'
<1>1. SmTypeOK'
  BY DEF SmInv, SmTypeOK, SenderExits, SenderTurn, windowVars, ptyVars, clientVars, sentVars, endVars
<1>2. BufferHolds'
  BY DEF SmInv, BufferHolds, WindowBounded, NoLostWakeup, Full, Count, SenderExits, SenderTurn, windowVars, ptyVars, clientVars, sentVars, endVars
<1>3. SentStaysBuffered' /\ ConnectingAlone'
  BY DEF SmInv, SentStaysBuffered, ConnectingAlone, Unlocked, Count, SenderExits, SenderTurn, windowVars, ptyVars, clientVars, sentVars, endVars
<1>4. OutputEnds' /\ EndIsLast' /\ EndNotKept'
  BY DEF SmInv, OutputEnds, EndIsLast, EndNotKept, SenderExits, SenderTurn, windowVars, ptyVars, clientVars, sentVars, endVars
<1>5. SenderNotStuck'
  BY DEF SmInv, SenderNotStuck, NothingToSend, Sendable, TerminalDue, Unlocked, Count, SenderExits, SenderTurn, windowVars, ptyVars, clientVars, sentVars, endVars
<1> QED BY <1>1, <1>2, <1>3, <1>4, <1>5 DEF SmInv

\* Close signals the sender.
LEMMA CloseKeeps ==
    ASSUME SmInv, Close
    PROVE  SmInv'
<1>1. SmTypeOK'
  BY DEF SmInv, SmTypeOK, Close, SignalSender, windowVars, ptyVars, clientVars, sentVars, endVars
<1>2. BufferHolds'
  BY DEF SmInv, BufferHolds, WindowBounded, NoLostWakeup, Full, Count, Close, SignalSender, windowVars, ptyVars, clientVars, sentVars, endVars
<1>3. SentStaysBuffered' /\ ConnectingAlone'
  BY DEF SmInv, SentStaysBuffered, ConnectingAlone, Unlocked, Count, Close, SignalSender, windowVars, ptyVars, clientVars, sentVars, endVars
<1>4. OutputEnds' /\ EndIsLast' /\ EndNotKept'
  BY DEF SmInv, OutputEnds, EndIsLast, EndNotKept, Close, SignalSender, windowVars, ptyVars, clientVars, sentVars, endVars
<1>5. SenderNotStuck'
  BY DEF SmInv, SenderNotStuck, NothingToSend, Sendable, TerminalDue, Unlocked, Count, Close, SignalSender, windowVars, ptyVars, clientVars, sentVars, endVars
<1> QED BY <1>1, <1>2, <1>3, <1>4, <1>5 DEF SmInv

\* The terminal's end is where the window's tail is.
LEMMA ReadEndsKeeps ==
    ASSUME SmInv, NEW event \in {"eof", "error"}, ReadEnds(event)
    PROVE  SmInv'
<1>1. SmTypeOK'
  BY DEF SmInv, SmTypeOK, ReadEnds, SignalSender, Windows, windowVars, clientVars, sentVars, endVars
<1>2. BufferHolds'
  BY DEF SmInv, BufferHolds, WindowBounded, NoLostWakeup, Full, Count, ReadEnds, windowVars
<1>3. SentStaysBuffered' /\ ConnectingAlone'
  BY DEF SmInv, SentStaysBuffered, ConnectingAlone, Unlocked, Count, ReadEnds,
         windowVars, clientVars, sentVars, endVars
<1>4. OutputEnds' /\ EndIsLast' /\ EndNotKept'
  BY DEF SmInv, OutputEnds, EndIsLast, EndNotKept, ReadEnds, windowVars, clientVars, sentVars, endVars
<1>5. SenderNotStuck'
  BY DEF SmInv, SenderNotStuck, SmTypeOK, ReadEnds, SignalSender
<1> QED BY <1>1, <1>2, <1>3, <1>4, <1>5 DEF SmInv

\* Bytes are sent only as far as they are buffered.
LEMMA SendDataKeeps ==
    ASSUME SmInv, SendData
    PROVE  SmInv'
<1>1. sentNotAcked \in Nat /\ window.head \in Nat /\ window.tail \in Nat /\ rwndSize \in Nat
  BY DEF SmInv, SmTypeOK, Windows
<1>2. Sendable \in Nat /\ sentNotAcked + Sendable <= Count(window)
  BY <1>1, SizesAssumption, EffectiveIsNat DEF SendData, Sendable, AtMost, Count
<1>3. /\ sentNotAcked' = sentNotAcked + Sendable /\ sender = "running" /\ sender' = sender
      /\ UNCHANGED <<windowVars, ptyVars, clientVars, terminalEventSent, endVars, connecting>>
  BY DEF SendData, SenderTurn
<1> HIDE DEF Sendable
<1>4. SmTypeOK'
  BY <1>1, <1>2, <1>3 DEF SmInv, SmTypeOK, windowVars, ptyVars, clientVars, endVars
<1>5. BufferHolds'
  BY <1>3 DEF SmInv, BufferHolds, WindowBounded, NoLostWakeup, Full, Count, windowVars
<1>6. SentStaysBuffered' /\ ConnectingAlone'
  BY <1>1, <1>2, <1>3 DEF SmInv, SentStaysBuffered, ConnectingAlone, Unlocked, Count,
         windowVars, clientVars, endVars
<1>7. OutputEnds' /\ EndIsLast' /\ EndNotKept'
  BY <1>3 DEF SmInv, OutputEnds, EndIsLast, EndNotKept, windowVars, ptyVars, clientVars, endVars
<1>8. SenderNotStuck'
  BY <1>3 DEF SenderNotStuck
<1> QED BY <1>4, <1>5, <1>6, <1>7, <1>8 DEF SmInv

\* The end is announced at the end.
LEMMA SendTerminalKeeps ==
    ASSUME SmInv, SendTerminal
    PROVE  SmInv'
<1>1. sender = "running" /\ sender' = sender /\ connected /\ TerminalDue
  BY DEF SendTerminal, SenderTurn
<1>2. SmTypeOK'
  BY DEF SmInv, SmTypeOK, SendTerminal, windowVars, ptyVars, clientVars, endVars
<1>3. BufferHolds'
  BY DEF SmInv, BufferHolds, WindowBounded, NoLostWakeup, Full, Count, SendTerminal, windowVars
<1>4. SentStaysBuffered' /\ ConnectingAlone'
  BY DEF SmInv, SentStaysBuffered, ConnectingAlone, Unlocked, Count, SendTerminal,
         windowVars, clientVars, endVars
<1>5. window.head = window.tail
  BY <1>1 DEF TerminalDue, Count, SmInv, SmTypeOK, Windows
<1>6. OutputEnds' /\ EndIsLast' /\ EndNotKept'
  BY <1>1, <1>5 DEF SmInv, OutputEnds, EndIsLast, EndNotKept, SendTerminal, TerminalDue,
         windowVars, ptyVars, clientVars, endVars
<1>7. SenderNotStuck'
  BY <1>1 DEF SenderNotStuck
<1> QED BY <1>2, <1>3, <1>4, <1>6, <1>7 DEF SmInv

-----------------------------------------------------------------------------
(* The writer's steps. *)

\* A chunk is read; the buffer does not change yet.
LEMMA ReadBytesKeeps ==
    ASSUME SmInv, NEW n \in 1 .. MaxChunk, ReadBytes(n)
    PROVE  SmInv'
<1>1. /\ readLoop = "reading" /\ readLoop' = "writing" /\ window' = window
      /\ writer' = [left |-> n, waiting |-> FALSE]
      /\ UNCHANGED <<signalDue, terminalEvent, eofPos, sender, clientVars, sentVars, endVars,
                      connecting>>
  BY DEF ReadBytes, Offer
<1>2. writer' \in Writers /\ ~writer'.waiting
  BY <1>1, SizesAssumption DEF Writers
<1>3. SmTypeOK'
  BY <1>1, <1>2 DEF SmInv, SmTypeOK, clientVars, sentVars, endVars
<1>4. BufferHolds'
  BY <1>1, <1>2 DEF SmInv, BufferHolds, WindowBounded, NoLostWakeup, Count
<1>5. SentStaysBuffered' /\ ConnectingAlone'
  BY <1>1 DEF SmInv, SentStaysBuffered, ConnectingAlone, Unlocked, Count, clientVars, sentVars, endVars
<1>6. OutputEnds' /\ EndIsLast' /\ EndNotKept'
  BY <1>1 DEF SmInv, OutputEnds, EndIsLast, EndNotKept, clientVars, sentVars, endVars
<1>7. SenderNotStuck'
  BY <1>1 DEF SmInv, SenderNotStuck, NothingToSend, Sendable, TerminalDue, Unlocked, Count,
              clientVars, sentVars
<1> QED BY <1>3, <1>4, <1>5, <1>6, <1>7 DEF SmInv

\* In sync mode a write leaves the head alone; bytes written are signalled later.
LEMMA WriteBytesKeeps ==
    ASSUME SmInv, WriteBytes
    PROVE  SmInv'
<1> DEFINE n == Accepted(window, writer.left)
<1>1. /\ window \in Windows /\ window.head \in Nat /\ window.tail \in Nat
      /\ window.limit \in 0 .. BufSize /\ window.head <= window.tail
      /\ writer \in Writers /\ writer.left \in 0 .. MaxChunk
      /\ BufSize \in Nat /\ MaxChunk \in Nat
  BY SizesAssumption DEF SmInv, SmTypeOK, BufferHolds, WindowBounded, Windows, Writers
<1>2. /\ readLoop = "writing" /\ ~signalDue /\ writer.left > 0 /\ ~writer.waiting
      /\ UNCHANGED <<readLoop, terminalEvent, eofPos, sender, clientVars, sentVars, endVars,
                      connecting>>
  BY DEF WriteBytes, WriteAvailable
<1>3. terminalEvent = "none" /\ ~(connected /\ terminalEventSent)
  BY <1>2 DEF SmInv, OutputEnds, EndIsLast
<1>4. signalDue' \in BOOLEAN
  BY DEF WriteBytes
<1>5. CASE Full(window)
  <2>1. window' = window /\ writer' = [left |-> writer.left, waiting |-> TRUE]
    BY <1>5 DEF WriteBytes, WriteAvailable, Parked
  <2>2. writer' \in Writers
    BY <1>1, <2>1 DEF Writers
  <2>3. SmTypeOK'
    BY <1>2, <1>4, <2>1, <2>2 DEF SmInv, SmTypeOK, clientVars, sentVars, endVars
  <2>4. BufferHolds'
    BY <1>5, <2>1 DEF SmInv, BufferHolds, WindowBounded, NoLostWakeup, Count, Full
  <2>5. SentStaysBuffered' /\ ConnectingAlone'
    BY <1>2, <2>1 DEF SmInv, SentStaysBuffered, ConnectingAlone, Unlocked, Count,
                      clientVars, sentVars, endVars
  <2>6. OutputEnds' /\ EndIsLast' /\ EndNotKept'
    BY <1>2, <1>3, <2>1 DEF SmInv, OutputEnds, EndIsLast, EndNotKept, clientVars, sentVars, endVars
  <2>7. SenderNotStuck'
    BY <1>2, <2>1 DEF SmInv, SenderNotStuck, NothingToSend, Sendable, TerminalDue, Unlocked, Count,
                      clientVars, sentVars
  <2> QED BY <2>3, <2>4, <2>5, <2>6, <2>7 DEF SmInv
<1>6. CASE ~Full(window)
  <2>1. /\ window' = AfterWrite(window, n) /\ writer' = [writer EXCEPT !.left = @ - n]
        /\ signalDue' = (window'.tail # window.tail)
    BY <1>6 DEF WriteBytes, WriteAvailable
  <2>2. n \in 1 .. writer.left /\ (window.sync => window.tail + n <= window.head + window.limit)
    BY <1>1, <1>2, <1>6 DEF Accepted, AtMost, Full, Count
  <2> HIDE DEF n
  <2>3. n \in Nat
    BY <1>1, <2>2
  <2>4. /\ window' \in Windows /\ window'.head \in Nat /\ window'.tail = window.tail + n
        /\ window'.sync = window.sync /\ window'.limit = window.limit
        /\ window'.head <= window'.tail /\ window'.tail - window'.head <= window'.limit
        /\ window.sync => window'.head = window.head
    BY <1>1, <2>1, <2>2, <2>3, WrittenWindow DEF Windows
  <2>5. writer' \in Writers /\ ~writer'.waiting
    BY <1>1, <1>2, <2>1, <2>2 DEF Writers
  <2>6. signalDue'
    <3>1. window'.tail # window.tail
      BY <1>1, <2>2, <2>4
    <3> QED BY <2>1, <3>1, Zenon
  <2>7. SmTypeOK'
    BY <1>2, <1>4, <2>4, <2>5 DEF SmInv, SmTypeOK, clientVars, sentVars, endVars
  <2>8. BufferHolds'
    <3>1. window'.tail \in Nat
      BY <2>4 DEF Windows
    <3>2. WindowBounded'
      BY <1>1, <2>4, <3>1 DEF WindowBounded, Count
    <3> QED BY <2>5, <3>2 DEF BufferHolds, NoLostWakeup
  <2>9. SentStaysBuffered' /\ ConnectingAlone'
    <3>1. connected => window.sync /\ 0 <= sentNotAcked /\ sentNotAcked <= window.tail - window.head
      BY DEF SmInv, SentStaysBuffered, Count
    <3>2. sentNotAcked \in Nat /\ connected' = connected /\ sentNotAcked' = sentNotAcked
      BY <1>2 DEF SmInv, SmTypeOK, clientVars, sentVars
    <3>3. SentStaysBuffered'
      BY <1>1, <2>2, <2>4, <3>1, <3>2 DEF SentStaysBuffered, Count
    <3> QED BY <1>2, <3>3 DEF SmInv, ConnectingAlone, Unlocked, clientVars, endVars
  <2>10. OutputEnds' /\ EndIsLast' /\ EndNotKept'
    BY <1>2, <1>3 DEF SmInv, OutputEnds, EndIsLast, EndNotKept, clientVars, sentVars, endVars
  <2> QED BY <2>6, <2>7, <2>8, <2>9, <2>10 DEF SmInv, SenderNotStuck
<1> QED BY <1>5, <1>6

-----------------------------------------------------------------------------
(* The clients' steps. *)

\* What the parts of the invariant say of the window and its writer.
LEMMA WindowFacts ==
    ASSUME SmInv
    PROVE  /\ window \in Windows /\ window.head \in Nat /\ window.tail \in Nat
           /\ window.head <= window.tail /\ window.tail - window.head <= BufSize
           /\ window.limit \in 0 .. BufSize /\ BufSize \in Nat
           /\ writer \in Writers /\ Woken(writer) \in Writers /\ ~Woken(writer).waiting
           /\ writer.waiting => window.sync /\ window.limit <= window.tail - window.head
BY SizesAssumption
   DEF SmInv, SmTypeOK, BufferHolds, WindowBounded, NoLostWakeup, Full, Count, Windows, Writers, Woken

\* SetEffectiveWindow keeps the buffer's part of the invariant.
LEMMA LimitKeepsBuffer ==
    ASSUME SmInv, NEW sync \in BOOLEAN, NEW size \in Nat, SetEffectiveWindow(sync, size)
    PROVE  /\ BufferHolds'
           /\ window' \in Windows /\ writer' \in Writers
           /\ window'.tail = window.tail /\ window'.sync = sync
           /\ window.head <= window'.head /\ window'.head <= window.tail
           /\ sync => window'.head = window.head
<1> DEFINE limit == AtMost(size, BufSize)
<1>1. /\ window \in Windows /\ window.head \in Nat /\ window.tail \in Nat
      /\ window.head <= window.tail /\ window.tail - window.head <= BufSize
      /\ window.limit \in 0 .. BufSize /\ BufSize \in Nat
      /\ writer \in Writers /\ Woken(writer) \in Writers /\ ~Woken(writer).waiting
      /\ writer.waiting => window.sync /\ window.limit <= window.tail - window.head
  BY WindowFacts
<1>2. /\ window' \in Windows /\ window'.tail = window.tail /\ window'.sync = sync
      /\ window'.limit = limit
      /\ window.head <= window'.head /\ window'.head <= window.tail
      /\ ~sync => window.tail - window'.head <= limit
      /\ sync => window'.head = window.head
  BY <1>1, LimitedWindow DEF SetEffectiveWindow
<1>3. writer' = IF window.sync /\ (limit > window.limit \/ ~sync) THEN Woken(writer) ELSE writer
  BY DEF SetEffectiveWindow, WindowWakes
<1>4. limit \in Nat
  BY <1>1 DEF AtMost
<1> HIDE DEF limit
<1>5. writer' \in Writers
  BY <1>1, <1>3
<1>6. window'.head \in Nat
  BY <1>2 DEF Windows
<1>7. WindowBounded'
  BY <1>1, <1>2, <1>4, <1>6 DEF WindowBounded, Count
<1>8. NoLostWakeup'
  <2> SUFFICES ASSUME writer'.waiting PROVE Full(window')
    BY DEF NoLostWakeup
  <2>1. writer' = writer /\ writer.waiting /\ ~(window.sync /\ (limit > window.limit \/ ~sync))
    BY <1>1, <1>3
  <2>2. window.sync /\ sync /\ limit <= window.limit /\ window.limit <= window.tail - window.head
    BY <1>1, <1>4, <2>1
  <2>3. window'.tail - window'.head >= window'.limit
    BY <1>1, <1>2, <1>4, <2>2
  <2> QED BY <1>2, <2>2, <2>3 DEF Full, Count
<1> QED BY <1>2, <1>5, <1>7, <1>8 DEF BufferHolds

\* A client asks; nothing but "connecting" changes.
LEMMA ClientConnectedKeeps ==
    ASSUME SmInv, NEW id \in 1 .. MaxStreams, NEW rwnd \in 0 .. MaxRwnd, NEW clientSeq \in Nat,
           ClientConnected(id, rwnd, clientSeq)
    PROVE  SmInv'
<1>1. /\ Unlocked /\ ~closed /\ ~terminalEventAcked /\ ~connected
      /\ connecting' = [at |-> "head", id |-> id, rwnd |-> rwnd, clientSeq |-> clientSeq,
                         headPos |-> window.head]
      /\ UNCHANGED <<windowVars, ptyVars, sender, clientVars, sentVars, endVars>>
  BY DEF ClientConnected
<1>2. window.head \in Nat
  BY WindowFacts
<1>3. connecting' \in Calls
  BY <1>1, <1>2 DEF Calls
<1>4. SmTypeOK'
  BY <1>1, <1>3 DEF SmInv, SmTypeOK, windowVars, ptyVars, clientVars, sentVars, endVars
<1>5. BufferHolds'
  BY <1>1 DEF SmInv, BufferHolds, WindowBounded, NoLostWakeup, Full, Count, windowVars
<1>6. SentStaysBuffered' /\ ConnectingAlone'
  BY <1>1 DEF SmInv, SentStaysBuffered, ConnectingAlone, Unlocked, Count, clientVars, endVars
<1>7. OutputEnds' /\ EndIsLast' /\ EndNotKept'
  BY <1>1 DEF SmInv, OutputEnds, EndIsLast, EndNotKept, windowVars, ptyVars, clientVars, sentVars,
              endVars
<1>8. SenderNotStuck'
  BY <1>1 DEF SenderNotStuck, NothingToSend, clientVars
<1> QED BY <1>4, <1>5, <1>6, <1>7, <1>8 DEF SmInv

\* A call under way names a client, and positions.
LEMMA CallFacts ==
    ASSUME SmInv, connecting.at \in {"head", "consumed", "ready"}
    PROVE  /\ ~Unlocked /\ ~connected /\ ~terminalEventAcked /\ ~terminalEventSent
           /\ connecting.id \in 1 .. MaxStreams /\ connecting.rwnd \in Nat
           /\ connecting.clientSeq \in Nat /\ connecting.headPos \in Nat
           /\ connecting \in Calls
<1>1. connecting \in Calls /\ terminalEventSent \in BOOLEAN
  BY DEF SmInv, SmTypeOK
<1>2. connecting # NoCall
  BY DEF NoCall
<1>3. ~Unlocked
  BY <1>2 DEF Unlocked
<1>4. ~connected /\ ~terminalEventAcked /\ ~terminalEventSent
  BY <1>3 DEF SmInv, ConnectingAlone, EndNotKept
<1> QED BY <1>1, <1>2, <1>3, <1>4, StreamAssumption DEF Calls

\* What the client already holds is consumed, without a client to notice.
LEMMA ConnectConsumeKeeps ==
    ASSUME SmInv, ConnectConsume
    PROVE  SmInv'
<1> DEFINE n == connecting.clientSeq - connecting.headPos
<1>1. /\ connecting.at = "head"
      /\ UNCHANGED <<ptyVars, sender, clientVars, sentVars, endVars>>
  BY DEF ConnectConsume
<1>2. /\ ~Unlocked /\ ~connected /\ ~terminalEventAcked /\ ~terminalEventSent
      /\ connecting.clientSeq \in Nat /\ connecting.headPos \in Nat /\ connecting \in Calls
  BY <1>1, CallFacts
<1>3. /\ ~connected' /\ ~terminalEventSent' /\ ~terminalEventAcked'
      /\ UNCHANGED <<terminalEvent, readLoop, eofPos>>
  BY <1>1, <1>2 DEF ptyVars, clientVars, sentVars, endVars
<1>4. BufferHolds' /\ window' \in Windows /\ writer' \in Writers /\ window'.tail = window.tail
  <2>1. CASE UNCHANGED windowVars
    BY <2>1 DEF SmInv, SmTypeOK, BufferHolds, WindowBounded, NoLostWakeup, Full, Count, windowVars
  <2>2. CASE n > 0 /\ Consume(n)
    <3>1. /\ window \in Windows /\ window.head \in Nat /\ window.tail \in Nat
          /\ window.tail - window.head <= BufSize /\ BufSize \in Nat
          /\ Woken(writer) \in Writers /\ ~Woken(writer).waiting
      BY WindowFacts
    <3>2. n \in Nat /\ n > 0 /\ n <= window.tail - window.head
      BY <1>2, <2>2 DEF Consume, Count
    <3>3. window' = AfterConsume(window, n) /\ writer' = Woken(writer)
      BY <2>2 DEF Consume
    <3> HIDE DEF n
    <3>4. /\ window' \in Windows /\ window'.head = window.head + n /\ window'.tail = window.tail
          /\ window'.sync = window.sync /\ window'.limit = window.limit
      <4>1. n \in Int /\ 0 <= n
        BY <3>2
      <4> QED BY <3>1, <3>3, <4>1, ConsumedWindow
    <3>5. ~window.sync => window.tail - window.head <= window.limit
      BY DEF SmInv, BufferHolds, WindowBounded, Count
    <3>6. window.limit \in Nat
      BY <3>1, WindowFacts
    <3>7. WindowBounded'
      BY <3>1, <3>2, <3>4, <3>5, <3>6 DEF WindowBounded, Count
    <3> QED BY <3>1, <3>3, <3>4, <3>7 DEF BufferHolds, NoLostWakeup
  <2> QED BY <2>1, <2>2 DEF ConnectConsume
<1>5. connecting' \in Calls
  <2>1. \/ connecting' = NoCall
        \/ connecting' = [connecting EXCEPT !.at = "ready"]
        \/ connecting' = [connecting EXCEPT !.at = "consumed"]
    BY DEF ConnectConsume
  <2>2. connecting \in [at : {"head", "consumed", "ready"}, id : 1 .. MaxStreams,
                        rwnd : 0 .. MaxRwnd, clientSeq : Nat, headPos : Nat]
    BY <1>1, <1>2 DEF Calls, NoCall
  <2>3. ASSUME NEW a \in {"ready", "consumed"}
        PROVE  [connecting EXCEPT !.at = a] \in Calls
    BY <2>2 DEF Calls
  <2>4. NoCall \in Calls
    BY DEF Calls
  <2> QED BY <2>1, <2>3, <2>4
<1>6. SmTypeOK'
  BY <1>1, <1>4, <1>5 DEF SmInv, SmTypeOK, ptyVars, clientVars, sentVars, endVars
<1>7. OutputEnds'
  BY <1>3, <1>4 DEF SmInv, OutputEnds
<1> QED BY <1>3, <1>4, <1>6, <1>7
        DEF SmInv, SentStaysBuffered, EndIsLast, EndNotKept, ConnectingAlone, SenderNotStuck,
            NothingToSend

\* headPos is read again.
LEMMA ConnectHeadAgainKeeps ==
    ASSUME SmInv, ConnectHeadAgain
    PROVE  SmInv'
<1>1. /\ connecting.at = "consumed"
      /\ connecting' = [connecting EXCEPT !.at = "ready", !.headPos = window.head]
      /\ UNCHANGED <<windowVars, ptyVars, sender, clientVars, sentVars, endVars>>
  BY DEF ConnectHeadAgain
<1>2. ~connected /\ ~terminalEventAcked /\ ~terminalEventSent /\ connecting \in Calls
      /\ window.head \in Nat
  BY <1>1, CallFacts, WindowFacts
<1>3. connecting' \in Calls
  <2>1. connecting \in [at : {"head", "consumed", "ready"}, id : 1 .. MaxStreams,
                        rwnd : 0 .. MaxRwnd, clientSeq : Nat, headPos : Nat]
    BY <1>1, <1>2 DEF Calls, NoCall
  <2> QED BY <1>1, <1>2, <2>1 DEF Calls
<1>4. SmTypeOK'
  BY <1>1, <1>3 DEF SmInv, SmTypeOK, windowVars, ptyVars, clientVars, sentVars, endVars
<1>5. BufferHolds'
  BY <1>1 DEF SmInv, BufferHolds, WindowBounded, NoLostWakeup, Full, Count, windowVars
<1>6. OutputEnds'
  BY <1>1 DEF SmInv, OutputEnds, windowVars, ptyVars
<1>7. ~connected' /\ ~terminalEventAcked' /\ ~terminalEventSent'
  BY <1>1, <1>2 DEF clientVars, sentVars, endVars
<1> QED BY <1>4, <1>5, <1>6, <1>7
        DEF SmInv, SentStaysBuffered, EndIsLast, EndNotKept, ConnectingAlone, SenderNotStuck,
            NothingToSend

\* The new client starts in sync mode with nothing sent.
LEMMA ConnectReadyKeeps ==
    ASSUME SmInv, ConnectReady
    PROVE  SmInv'
<1>1. /\ connecting.at = "ready"
      /\ streamId' = connecting.id /\ rwndSize' = connecting.rwnd /\ sentNotAcked' = 0
      /\ SetEffectiveWindow(TRUE, Effective(connecting.rwnd))
      /\ SignalSender /\ connecting' = NoCall
      /\ startSeq' = IF connecting.clientSeq > connecting.headPos
                      THEN connecting.clientSeq ELSE connecting.headPos
      /\ UNCHANGED <<ptyVars, maxAckedSeq, maxAckedRwnd, terminalEventSent, endVars>>
  BY DEF ConnectReady
<1>2. connected' = TRUE
  BY Zenon DEF ConnectReady
<1>3. /\ ~terminalEventAcked /\ ~terminalEventSent
      /\ connecting.id \in 1 .. MaxStreams /\ connecting.rwnd \in Nat
      /\ connecting.clientSeq \in Nat /\ connecting.headPos \in Nat
  BY <1>1, CallFacts
<1>4. Effective(connecting.rwnd) \in Nat
  BY <1>3, EffectiveIsNat
<1>5. /\ BufferHolds' /\ window' \in Windows /\ writer' \in Writers
      /\ window'.tail = window.tail /\ window'.sync /\ window'.head = window.head
  BY <1>1, <1>4, LimitKeepsBuffer
<1>6. sender' \in {"running", "done"}
  BY <1>1 DEF SignalSender, SmInv, SmTypeOK
<1>7. SmTypeOK'
  <2>1. connecting' \in Calls
    BY <1>1 DEF Calls
  <2>2. startSeq' \in Nat /\ streamId' \in 0 .. MaxStreams /\ rwndSize' \in Nat
    BY <1>1, <1>3, StreamAssumption
  <2> QED BY <1>1, <1>2, <1>5, <1>6, <2>1, <2>2 DEF SmInv, SmTypeOK, ptyVars, endVars
<1>8. SentStaysBuffered'
  BY <1>1, <1>5, WindowFacts DEF SentStaysBuffered, Count
<1>9. ConnectingAlone' /\ EndIsLast' /\ EndNotKept'
  BY <1>1, <1>2, <1>3 DEF ConnectingAlone, Unlocked, EndIsLast, EndNotKept, endVars
<1>10. OutputEnds'
  BY <1>1, <1>5 DEF SmInv, OutputEnds, ptyVars
<1>11. SenderNotStuck'
  BY <1>6 DEF SenderNotStuck
<1> QED BY <1>5, <1>7, <1>8, <1>9, <1>10, <1>11 DEF SmInv

\* Without a client nothing is in flight, and an unacked end will be announced again.
LEMMA ClientDisconnectedKeeps ==
    ASSUME SmInv, ClientDisconnected
    PROVE  SmInv'
<1>1. /\ sentNotAcked' = 0 /\ maxAckedSeq' = 0 /\ maxAckedRwnd' = 0
      /\ SetEffectiveWindow(FALSE, BufSize) /\ SignalSender
      /\ UNCHANGED <<ptyVars, streamId, rwndSize, startSeq, endVars, connecting>>
      /\ Unlocked
  BY DEF ClientDisconnected
<1>2. connected' = FALSE /\ terminalEventSent' = (terminalEventSent /\ terminalEventAcked)
  BY Zenon DEF ClientDisconnected
<1>3. BufSize \in Nat
  BY SizesAssumption
<1>4. /\ BufferHolds' /\ window' \in Windows /\ writer' \in Writers
      /\ window'.tail = window.tail
  BY <1>1, <1>3, LimitKeepsBuffer
<1>5. sender' \in {"running", "done"}
  BY <1>1 DEF SignalSender, SmInv, SmTypeOK
<1>6. SmTypeOK'
  <2>1. terminalEventSent' \in BOOLEAN /\ connected' \in BOOLEAN
    BY <1>2, Zenon
  <2> QED BY <1>1, <1>4, <1>5, <2>1 DEF SmInv, SmTypeOK, ptyVars, endVars
<1>7. SentStaysBuffered' /\ EndIsLast'
  BY <1>2 DEF SentStaysBuffered, EndIsLast
<1>8. EndNotKept'
  BY <1>1, <1>2 DEF EndNotKept, endVars
<1>9. ConnectingAlone'
  BY <1>1 DEF ConnectingAlone, Unlocked
<1>10. OutputEnds'
  BY <1>1, <1>4 DEF SmInv, OutputEnds, ptyVars
<1>11. SenderNotStuck'
  BY <1>5 DEF SenderNotStuck
<1> QED BY <1>4, <1>6, <1>7, <1>8, <1>9, <1>10, <1>11 DEF SmInv

\* A new window moves no byte.
LEMMA SetRwndSizeKeeps ==
    ASSUME SmInv, NEW rwnd \in Nat, SetRwndSize(rwnd)
    PROVE  SmInv'
<1>1. /\ connected /\ Unlocked /\ rwndSize' = rwnd
      /\ SetEffectiveWindow(TRUE, Effective(rwnd)) /\ SignalSender
      /\ UNCHANGED <<ptyVars, connected, streamId, maxAckedSeq, maxAckedRwnd, startSeq, sentVars,
                      endVars, connecting>>
  BY DEF SetRwndSize
<1>2. Effective(rwnd) \in Nat
  BY EffectiveIsNat
<1>3. /\ BufferHolds' /\ window' \in Windows /\ writer' \in Writers
      /\ window'.tail = window.tail /\ window'.sync /\ window'.head = window.head
  BY <1>1, <1>2, LimitKeepsBuffer
<1>4. sender' \in {"running", "done"}
  BY <1>1 DEF SignalSender, SmInv, SmTypeOK
<1>5. SmTypeOK'
  BY <1>1, <1>3, <1>4 DEF SmInv, SmTypeOK, ptyVars, sentVars, endVars
<1>6. SentStaysBuffered'
  BY <1>1, <1>3 DEF SmInv, SentStaysBuffered, Count, sentVars
<1>7. ConnectingAlone'
  BY <1>1 DEF ConnectingAlone, Unlocked
<1>8. OutputEnds' /\ EndIsLast' /\ EndNotKept'
  BY <1>1, <1>3 DEF SmInv, OutputEnds, EndIsLast, EndNotKept, ptyVars, sentVars, endVars
<1>9. SenderNotStuck'
  BY <1>4 DEF SenderNotStuck
<1> QED BY <1>3, <1>5, <1>6, <1>7, <1>8, <1>9 DEF SmInv

\* The final ack only records that the stream is over.
LEMMA RecvFinKeeps ==
    ASSUME SmInv, NEW ack, Unlocked, RecvFin(ack)
    PROVE  SmInv'
<1>1. /\ SignalSender /\ connected
      /\ UNCHANGED <<windowVars, ptyVars, clientVars, sentVars, closed, connecting>>
  BY DEF RecvFin, AckIsForUs
<1>2. terminalEventAcked' = TRUE
  BY Zenon DEF RecvFin
<1>3. sender' \in {"running", "done"}
  BY <1>1 DEF SignalSender, SmInv, SmTypeOK
<1>4. SmTypeOK'
  BY <1>1, <1>2, <1>3 DEF SmInv, SmTypeOK, windowVars, ptyVars, clientVars, sentVars
<1>5. BufferHolds'
  BY <1>1 DEF SmInv, BufferHolds, WindowBounded, NoLostWakeup, Full, Count, windowVars
<1>6. SentStaysBuffered' /\ ConnectingAlone'
  BY <1>1 DEF SmInv, SentStaysBuffered, ConnectingAlone, Unlocked, Count, windowVars, clientVars,
              sentVars
<1>7. OutputEnds' /\ EndIsLast' /\ EndNotKept'
  BY <1>1, <1>2 DEF SmInv, OutputEnds, EndIsLast, EndNotKept, windowVars, ptyVars, clientVars, sentVars
<1>8. SenderNotStuck'
  BY <1>3 DEF SenderNotStuck
<1> QED BY <1>4, <1>5, <1>6, <1>7, <1>8 DEF SmInv

\* What a fresh ack does to the window: the acked bytes leave, the limit follows rwnd.
LEMMA AckedWindow ==
    ASSUME SmInv, NEW ack, ack.seq \in Nat, ack.rwnd \in Nat, RecvFreshAck(ack), AckInWindow(ack)
    PROVE  /\ BufferHolds'
           /\ window' \in Windows /\ writer' \in Writers
           /\ window'.head = ack.seq /\ window'.tail = window.tail /\ window'.sync
           /\ window.head <= ack.seq /\ ack.seq <= window.head + sentNotAcked
           /\ sentNotAcked' = sentNotAcked - (ack.seq - window.head)
<1> DEFINE acked == ack.seq - window.head
           after == AfterConsume(window, acked)
           size  == Effective(ack.rwnd)
           limit == AtMost(size, BufSize)
<1>1. /\ window \in Windows /\ window.head \in Nat /\ window.tail \in Nat
      /\ window.head <= window.tail /\ window.tail - window.head <= BufSize
      /\ window.limit \in 0 .. BufSize /\ BufSize \in Nat
      /\ writer \in Writers /\ Woken(writer) \in Writers /\ ~Woken(writer).waiting
      /\ writer.waiting => window.sync /\ window.limit <= window.tail - window.head
  BY WindowFacts
<1>2. /\ connected /\ window.head <= ack.seq /\ acked <= sentNotAcked
      /\ window' = AfterSetEffectiveWindow(after, TRUE, size)
      /\ writer' = IF acked > 0 \/ WindowWakes(after, TRUE, size) THEN Woken(writer) ELSE writer
      /\ sentNotAcked' = sentNotAcked - acked
  BY DEF RecvFreshAck, AckIsForUs, AckInWindow
<1>3. sentNotAcked \in Nat /\ sentNotAcked <= window.tail - window.head
  BY <1>2 DEF SmInv, SmTypeOK, SentStaysBuffered, Count
<1>4. acked \in Nat /\ window.head + acked = ack.seq /\ ack.seq <= window.tail
  BY <1>1, <1>2, <1>3
<1>5. size \in Nat /\ limit \in Nat /\ limit <= BufSize
  BY <1>1, EffectiveIsNat DEF AtMost
<1> HIDE DEF acked, size, limit
<1>6. /\ after \in Windows /\ after.head = ack.seq /\ after.tail = window.tail
      /\ after.sync = window.sync /\ after.limit = window.limit
  <2>1. acked \in Int /\ 0 <= acked
    BY <1>4
  <2> QED BY <1>1, <1>4, <2>1, ConsumedWindow
<1> HIDE DEF after
<1>7. /\ window' \in Windows /\ window'.head = ack.seq /\ window'.tail = window.tail
      /\ window'.sync /\ window'.limit = limit
  BY <1>2, <1>4, <1>5, <1>6, LimitedWindow DEF limit
<1>8. WindowBounded'
  BY <1>1, <1>4, <1>7 DEF WindowBounded, Count
<1>9. writer' \in Writers
  BY <1>1, <1>2
<1>10. NoLostWakeup'
  <2> SUFFICES ASSUME writer'.waiting PROVE Full(window')
    BY DEF NoLostWakeup
  <2>1. writer' = writer /\ writer.waiting /\ ~(acked > 0) /\ ~WindowWakes(after, TRUE, size)
    BY <1>1, <1>2
  <2>2. ~(limit > window.limit)
    BY <1>1, <1>6, <2>1 DEF WindowWakes, limit
  <2>3. window'.limit <= window'.tail - window'.head
    BY <1>1, <1>4, <1>5, <1>7, <2>1, <2>2
  <2> QED BY <1>4, <1>7, <2>3, <1>1, <1>5 DEF Full, Count
<1>11. window.head <= ack.seq /\ ack.seq <= window.head + sentNotAcked
  BY <1>1, <1>2, <1>3, <1>4
<1>12. sentNotAcked' = sentNotAcked - (ack.seq - window.head)
  BY <1>2 DEF acked
<1> QED BY <1>7, <1>8, <1>9, <1>10, <1>11, <1>12 DEF BufferHolds

\* A fresh ack frees what it names, or nothing.
LEMMA RecvFreshAckKeeps ==
    ASSUME SmInv, NEW ack, ack.seq \in Nat, ack.rwnd \in Nat, Unlocked, RecvFreshAck(ack)
    PROVE  SmInv'
<1>1. /\ connected /\ maxAckedSeq' = ack.seq /\ maxAckedRwnd' = ack.rwnd
      /\ UNCHANGED <<ptyVars, connected, streamId, startSeq, terminalEventSent, endVars, connecting>>
  BY DEF RecvFreshAck, AckIsForUs
<1>2. ConnectingAlone'
  BY <1>1 DEF ConnectingAlone, Unlocked
<1>3. CASE AckInWindow(ack)
  <2>1. /\ BufferHolds' /\ window' \in Windows /\ writer' \in Writers
        /\ window'.head = ack.seq /\ window'.tail = window.tail /\ window'.sync
        /\ window.head <= ack.seq /\ ack.seq <= window.head + sentNotAcked
        /\ sentNotAcked' = sentNotAcked - (ack.seq - window.head)
    BY <1>3, AckedWindow
  <2>2. /\ rwndSize' = ack.rwnd
        /\ IF ack.rwnd > rwndSize \/ ack.seq - window.head > 0
           THEN SignalSender ELSE sender' = sender
    BY <1>3 DEF RecvFreshAck
  <2>3. /\ window.head \in Nat /\ window.tail \in Nat /\ sentNotAcked \in Nat
        /\ sentNotAcked <= window.tail - window.head
    BY <1>1, WindowFacts DEF SmInv, SmTypeOK, SentStaysBuffered, Count
  <2>4. sender' \in {"running", "waiting", "done"}
    BY <2>2 DEF SignalSender, SmInv, SmTypeOK
  <2>5. sentNotAcked' \in Nat /\ sentNotAcked' <= window'.tail - window'.head
    BY <2>1, <2>3
  <2>6. SmTypeOK'
    BY <1>1, <2>1, <2>2, <2>4, <2>5 DEF SmInv, SmTypeOK, ptyVars, endVars
  <2>7. SentStaysBuffered'
    BY <2>1, <2>5 DEF SentStaysBuffered, Count
  <2>8. OutputEnds' /\ EndNotKept'
    BY <1>1, <2>1 DEF SmInv, OutputEnds, EndNotKept, ptyVars, endVars
  <2>9. EndIsLast'
    <3> SUFFICES ASSUME connected', terminalEventSent' PROVE EndIsLast'
      BY DEF EndIsLast
    <3>1. /\ readLoop = "done" /\ terminalEvent # "none"
          /\ window.head = window.tail /\ eofPos = window.tail
      BY <1>1 DEF SmInv, EndIsLast
    <3>2. window'.head = window'.tail
      BY <2>1, <2>3, <3>1
    <3> QED BY <1>1, <2>1, <3>1, <3>2 DEF EndIsLast, ptyVars
  <2>10. SenderNotStuck'
    <3> SUFFICES ASSUME sender' = "waiting" PROVE SenderNotStuck'
      BY DEF SenderNotStuck
    <3>1. ~(ack.rwnd > rwndSize \/ ack.seq - window.head > 0) /\ sender = "waiting"
      BY <2>2 DEF SignalSender
    <3>2. rwndSize \in Nat /\ CwndSize \in Nat /\ MaxChunk \in Nat \ {0}
      BY SizesAssumption, StreamAssumption DEF SmInv, SmTypeOK
    <3>3. /\ rwndSize' <= rwndSize /\ rwndSize' \in Nat
          /\ window'.head = window.head /\ window'.tail = window.tail
          /\ sentNotAcked' = sentNotAcked
      BY <2>1, <2>2, <2>3, <3>1, <3>2
    <3>4. NothingToSend \/ signalDue
      BY <3>1 DEF SmInv, SenderNotStuck
    <3>5. CASE signalDue
      BY <1>1, <3>5 DEF SenderNotStuck, ptyVars
    <3>6. CASE NothingToSend
      <4>1. Sendable = 0 /\ ~TerminalDue
        BY <1>1, <3>6 DEF NothingToSend
      <4>2. \/ Effective(rwndSize) - sentNotAcked <= 0
            \/ window.tail - window.head - sentNotAcked <= 0
        <5>1. Effective(rwndSize) \in Nat
          BY <3>2, EffectiveIsNat
        <5> QED BY <2>3, <3>2, <4>1, <5>1 DEF Sendable, AtMost, Count
      <4>3. Effective(rwndSize') <= Effective(rwndSize) /\ Effective(rwndSize') \in Nat
            /\ Effective(rwndSize) \in Nat
        BY <3>2, <3>3 DEF Effective, AtMost
      <4>4. Sendable' = 0
        BY <2>3, <3>3, <4>2, <4>3 DEF Sendable, Count
      <4>5. ~TerminalDue'
        BY <1>1, <3>3, <4>1 DEF TerminalDue, Count, ptyVars
      <4> QED BY <4>4, <4>5 DEF SenderNotStuck, NothingToSend
    <3> QED BY <3>4, <3>5, <3>6
  <2> QED BY <1>2, <2>1, <2>6, <2>7, <2>8, <2>9, <2>10 DEF SmInv
<1>4. CASE ~AckInWindow(ack)
  <2>1. UNCHANGED <<windowVars, sentNotAcked, rwndSize, sender>>
    BY <1>4 DEF RecvFreshAck
  <2>2. SmTypeOK'
    BY <1>1, <2>1 DEF SmInv, SmTypeOK, windowVars, ptyVars, endVars
  <2>3. BufferHolds'
    BY <2>1 DEF SmInv, BufferHolds, WindowBounded, NoLostWakeup, Full, Count, windowVars
  <2>4. SentStaysBuffered'
    BY <1>1, <2>1 DEF SmInv, SentStaysBuffered, Count, windowVars
  <2>5. OutputEnds' /\ EndIsLast' /\ EndNotKept'
    BY <1>1, <2>1 DEF SmInv, OutputEnds, EndIsLast, EndNotKept, windowVars, ptyVars, endVars
  <2>6. SenderNotStuck'
    BY <1>1, <2>1 DEF SmInv, SenderNotStuck, NothingToSend, Sendable, TerminalDue, Unlocked, Count,
                      windowVars, ptyVars
  <2> QED BY <1>2, <2>2, <2>3, <2>4, <2>5, <2>6 DEF SmInv
<1> QED BY <1>3, <1>4

\* A step that changes nothing, an ignored ack included.
LEMMA StutterKeeps ==
    ASSUME SmInv, UNCHANGED smVars
    PROVE  SmInv'
BY DEF SmInv, SmTypeOK, BufferHolds, WindowBounded, NoLostWakeup, Full, Count, SentStaysBuffered,
       OutputEnds, EndIsLast, EndNotKept, ConnectingAlone, Unlocked, SenderNotStuck, NothingToSend,
       Sendable, TerminalDue, smVars, windowVars, ptyVars, clientVars, sentVars, endVars

-----------------------------------------------------------------------------
(* The theorems. *)

\* Every step keeps the invariant.
LEMMA StreamStep == SmInv /\ [SmNext]_smVars => SmInv'
<1> SUFFICES ASSUME SmInv, [SmNext]_smVars PROVE SmInv'
  OBVIOUS
<1>1. CASE PtyStep
  BY <1>1, AttachReaderKeeps, ReadLoopTopKeeps, WriteBytesKeeps, SignalDataKeeps, ChunkWrittenKeeps,
     ReadBytesKeeps, ReadEndsKeeps DEF PtyStep
<1>2. CASE SenderStep
  BY <1>2, SendDataKeeps, SendTerminalKeeps, SenderWaitsKeeps, SenderExitsKeeps DEF SenderStep
<1>3. CASE ClientStep
  <2>1. streamId \in 0 .. MaxStreams /\ MaxStreams \in Nat /\ MaxRwnd \in Nat /\ MaxOutput \in Nat
    BY SizesAssumption, StreamAssumption DEF SmInv, SmTypeOK
  <2>2. CASE streamId < MaxStreams
             /\ \E rwnd \in 0 .. MaxRwnd, clientSeq \in 0 .. MaxOutput :
                   ClientConnected(streamId + 1, rwnd, clientSeq)
    <3>1. PICK rwnd \in 0 .. MaxRwnd, clientSeq \in 0 .. MaxOutput :
                 ClientConnected(streamId + 1, rwnd, clientSeq)
      BY <2>2
    <3>2. streamId + 1 \in 1 .. MaxStreams /\ clientSeq \in Nat
      BY <2>1, <2>2
    <3> QED BY <3>1, <3>2, ClientConnectedKeeps
  <2>3. CASE ConnectStep
    BY <2>3, ConnectConsumeKeeps, ConnectHeadAgainKeeps, ConnectReadyKeeps DEF ConnectStep
  <2>4. CASE ClientDisconnected
    BY <2>4, ClientDisconnectedKeeps
  <2>5. CASE \E rwnd \in 0 .. MaxRwnd : SetRwndSize(rwnd)
    <3>1. PICK rwnd \in 0 .. MaxRwnd : SetRwndSize(rwnd)
      BY <2>5
    <3>2. rwnd \in Nat
      BY <2>1
    <3> QED BY <3>1, <3>2, SetRwndSizeKeeps
  <2>6. CASE Close
    BY <2>6, CloseKeeps
  <2>7. CASE \E ack \in Acks : RecvAck(ack)
    <3>1. PICK ack \in Acks : RecvAck(ack)
      BY <2>7
    <3>2. ack.seq \in Nat /\ ack.rwnd \in Nat
      BY <2>1 DEF Acks
    <3>3. Unlocked /\ (RecvFin(ack) \/ RecvFreshAck(ack) \/ UNCHANGED smVars)
      BY <3>1 DEF RecvAck, IgnoreAck
    <3> QED BY <3>2, <3>3, RecvFinKeeps, RecvFreshAckKeeps, StutterKeeps
  <2> QED BY <1>3, <2>2, <2>3, <2>4, <2>5, <2>6, <2>7 DEF ClientStep
<1>4. CASE UNCHANGED smVars
  BY <1>4, StutterKeeps
<1> QED BY <1>1, <1>2, <1>3, <1>4 DEF SmNext

\* The inductive invariant holds throughout.
THEOREM StreamInvariant == SmSpec => []SmInv
<1>1. SmInit => SmInv
  BY StartHolds
<1>2. SmInv /\ [SmNext]_smVars => SmInv'
  BY StreamStep
<1> QED BY <1>1, <1>2, PTL DEF SmSpec

\* Every field of the stream manager keeps its range; no counter of bytes goes below zero.
THEOREM StreamTypeCorrect == SmSpec => []SmTypeOK
<1>1. SmInv => SmTypeOK
  BY DEF SmInv
<1> QED BY <1>1, StreamInvariant, PTL

\* What was sent and not acked is still buffered: prepareNextPacket never peeks past the
\* buffer's end and RecvAck never consumes more than it holds, whatever the acks say.
THEOREM SentIsBuffered == SmSpec => []SentStaysBuffered
<1>1. SmInv => SentStaysBuffered
  BY DEF SmInv
<1> QED BY <1>1, StreamInvariant, PTL

\* No wakeup of the writer is lost: whenever handleReadData is parked on the channel that
\* WriteAvailable gave it, the buffer is still full, whatever clients, acks and window
\* changes came in between.
THEOREM WriterWakes == SmSpec => []NoLostWakeup
<1>1. SmInv => NoLostWakeup
  BY DEF SmInv, BufferHolds
<1> QED BY <1>1, StreamInvariant, PTL

\* No wakeup of the sender is lost: senderLoop waits on drainCond only with nothing to
\* send, or with a signal on its way.
THEOREM SenderWakes == SmSpec => []SenderNotStuck
<1>1. SmInv => SenderNotStuck
  BY DEF SmInv
<1> QED BY <1>1, StreamInvariant, PTL

\* The terminal packet goes out only after every byte of the output was acked, across any
\* number of clients.
THEOREM EndComesLast == SmSpec => []EndIsLast
<1>1. SmInv => EndIsLast
  BY DEF SmInv
<1> QED BY <1>1, StreamInvariant, PTL

-----------------------------------------------------------------------------
(* What a step may do to a stream that stays connected. *)

\* A write with a client connected gives up nothing.
LEMMA WriteKeepsHead ==
    ASSUME SmInv, WriteBytes, window.sync
    PROVE  window'.head = window.head
<1>1. /\ window \in Windows /\ window.head \in Nat /\ window.tail \in Nat
      /\ window.limit \in 0 .. BufSize /\ window.head <= window.tail
      /\ BufSize \in Nat
  BY WindowFacts
<1>2. writer.left \in Nat /\ writer.left > 0
  BY SizesAssumption DEF SmInv, SmTypeOK, Writers, WriteBytes, WriteAvailable
<1>3. CASE Full(window)
  BY <1>3 DEF WriteBytes, WriteAvailable
<1>4. CASE ~Full(window)
  <2> DEFINE n == Accepted(window, writer.left)
  <2>1. window' = AfterWrite(window, n)
    BY <1>4 DEF WriteBytes, WriteAvailable
  <2>2. n \in Nat /\ window.tail + n <= window.head + window.limit
    BY <1>1, <1>2, <1>4 DEF Accepted, AtMost, Full, Count
  <2> HIDE DEF n
  <2> QED BY <1>1, <2>1, <2>2, WrittenWindow
<1> QED BY <1>3, <1>4

\* The head and the bytes in flight change only by sending, or by an ack that names sent bytes.
LEMMA StreamMoves ==
    ASSUME SmInv, SmNext, connected, connected'
    PROVE  \/ window'.head = window.head /\ sentNotAcked' = sentNotAcked
           \/ SendData
           \/ \E ack \in Acks : RecvFreshAck(ack) /\ AckInWindow(ack)
<1>1. CASE PtyStep
  <2>1. CASE WriteBytes
    BY <2>1, WriteKeepsHead DEF SmInv, SentStaysBuffered, WriteBytes, sentVars
  <2>2. CASE ~WriteBytes
    BY <1>1, <2>2 DEF PtyStep, AttachReader, ReadLoopTop, SignalData, ChunkWritten, ReadBytes, Offer,
                      ReadEnds, windowVars, sentVars
  <2> QED BY <2>1, <2>2
<1>2. CASE SenderStep
  BY <1>2 DEF SenderStep, SendTerminal, SenderWaits, SenderExits, windowVars, sentVars
<1>3. CASE ClientStep
  <2>1. CASE \E rwnd \in 0 .. MaxRwnd : SetRwndSize(rwnd)
    <3>1. PICK rwnd \in 0 .. MaxRwnd : SetRwndSize(rwnd)
      BY <2>1
    <3>2. SetEffectiveWindow(TRUE, Effective(rwnd)) /\ sentNotAcked' = sentNotAcked
      BY <3>1 DEF SetRwndSize, sentVars
    <3>3. rwnd \in Nat
      BY StreamAssumption
    <3>4. Effective(rwnd) \in Nat
      BY <3>3, EffectiveIsNat
    <3> QED BY <3>2, <3>4, LimitKeepsBuffer
  <2>2. CASE \E ack \in Acks : RecvAck(ack)
    BY <2>2 DEF RecvAck, RecvFin, RecvFreshAck, IgnoreAck, smVars, windowVars, sentVars
  <2>3. CASE ClientDisconnected
    BY <2>3, Zenon DEF ClientDisconnected
  <2>4. CASE ConnectStep
    BY <2>4, CallFacts DEF ConnectStep, ConnectConsume, ConnectHeadAgain, ConnectReady
  <2>5. CASE Close
    BY <2>5 DEF Close, windowVars, sentVars
  <2>6. CASE \E rwnd \in 0 .. MaxRwnd, clientSeq \in 0 .. MaxOutput :
               ClientConnected(streamId + 1, rwnd, clientSeq)
    BY <2>6 DEF ClientConnected
  <2> QED BY <1>3, <2>1, <2>2, <2>3, <2>4, <2>5, <2>6 DEF ClientStep
<1> QED BY <1>1, <1>2, <1>3 DEF SmNext

\* While a stream lasts a byte leaves the buffer only because an ack named it after it was sent.
THEOREM OnlyAckedLeave == SmSpec => OnlyAckedBytesLeave
<1>1. SmInv /\ [SmNext]_smVars =>
        [connected /\ connected' /\ window'.head # window.head =>
            /\ window'.head = maxAckedSeq'
            /\ window'.head <= SendPos]_smVars
  <2> SUFFICES ASSUME SmInv, SmNext, connected, connected', window'.head # window.head
               PROVE  window'.head = maxAckedSeq' /\ window'.head <= SendPos
    OBVIOUS
  <2>1. ~SendData
    BY DEF SendData, windowVars
  <2>2. PICK ack \in Acks : RecvFreshAck(ack) /\ AckInWindow(ack)
    BY <2>1, StreamMoves
  <2>3. ack.seq \in Nat /\ ack.rwnd \in Nat
    BY SizesAssumption, StreamAssumption DEF Acks
  <2>4. window'.head = ack.seq /\ ack.seq <= window.head + sentNotAcked
    BY <2>2, <2>3, AckedWindow
  <2>5. maxAckedSeq' = ack.seq
    BY <2>2 DEF RecvFreshAck
  <2> QED BY <2>4, <2>5 DEF SendPos
<1> QED BY <1>1, StreamInvariant, PTL DEF SmSpec, OnlyAckedBytesLeave

\* On one stream the send position moves only by sending the next bytes.
THEOREM SendsContiguous == SmSpec => SendsAreContiguous
<1>1. SmInv /\ [SmNext]_smVars =>
        [connected /\ connected' /\ SendPos' # SendPos =>
            /\ window' = window
            /\ SendPos' = SendPos + Sendable]_smVars
  <2> SUFFICES ASSUME SmInv, SmNext, connected, connected', SendPos' # SendPos
               PROVE  window' = window /\ SendPos' = SendPos + Sendable
    OBVIOUS
  <2>1. window.head \in Nat /\ sentNotAcked \in Nat
    BY WindowFacts DEF SmInv, SmTypeOK
  <2>2. ASSUME NEW ack \in Acks, RecvFreshAck(ack), AckInWindow(ack)
        PROVE  FALSE
    <3>1. ack.seq \in Nat /\ ack.rwnd \in Nat
      BY SizesAssumption, StreamAssumption DEF Acks
    <3>2. window'.head = ack.seq /\ sentNotAcked' = sentNotAcked - (ack.seq - window.head)
      BY <2>2, <3>1, AckedWindow
    <3> QED BY <2>1, <3>1, <3>2 DEF SendPos
  <2>3. SendData
    BY <2>2, StreamMoves DEF SendPos
  <2>4. window' = window /\ sentNotAcked' = sentNotAcked + Sendable
    BY <2>3 DEF SendData, windowVars
  <2>5. Sendable \in Nat
    BY <2>1, <2>3, WindowFacts, SizesAssumption, EffectiveIsNat
       DEF SendData, Sendable, AtMost, Count, SmInv, SmTypeOK
  <2> QED BY <2>1, <2>4, <2>5 DEF SendPos
<1> QED BY <1>1, StreamInvariant, PTL DEF SmSpec, SendsAreContiguous
=============================================================================
