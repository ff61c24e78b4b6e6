---------------------------- MODULE DurableStream ----------------------------
(***************************************************************************)
(* A durable session's output from end to end: the stream manager beside   *)
(* the job, the JobManager that connects it to one client after another,   *)
(* the connections, the stream broker and readers of the main server, its  *)
(* output loops and the terminal file they append to.                      *)
(*                                                                         *)
(* Every attempt to reach the job opens a connection and a stream of its   *)
(* own (RemoteReconnectToJobManagerCommand closes the previous socket, and *)
(* restartStreaming makes a new stream id), so connection and stream bear  *)
(* one number, and streams are numbered in order.                          *)
(***************************************************************************)
EXTENDS StreamManager, StreamReader, SequencesExt

CONSTANTS
    Ends,         \* how the job's terminal may end: a subset of {"eof", "error"}
    MaxDrops,     \* bound: how many connections are lost
    MaxCrashes,   \* bound: how often the main server is killed
    Reordering,   \* TRUE: a connection may deliver out of order
    SlowAppend    \* TRUE: an append may still be under way when a reconnect reads the size

ASSUME DurableAssumption ==
    /\ Ends \subseteq {"eof", "error"}
    /\ MaxDrops \in Nat /\ MaxCrashes \in Nat
    /\ MaxStreams >= 1    \* StartJob makes the first
    /\ Reordering \in BOOLEAN /\ SlowAppend \in BOOLEAN

VARIABLES
    link,        \* per connection: "none" yet, "up" or "down"
    wire,        \* per connection: stream packets on their way to the main server
    ackWire,     \* per connection: acks on their way to the job manager
    writers,     \* the streams a job-side broker has a writer registered for
    jm,          \* JobManager: connectedStreamClient, pendingStreamMeta
    call,        \* the JobManager method that holds jm.lock, or NoRequest
    request,     \* the RPC on its way to the job manager, or NoRequest
    reply,       \* its answer, on its way back, or NoReply
    readers,     \* the main server's readers, per stream
    known,       \* the streams its broker has a reader registered for
    loops,       \* runOutputLoop, per stream
    current,     \* jobStreamIds[jobId]
    file,        \* the job's terminal file: the positions of its bytes
    gap,         \* its "totalgap" meta value
    disk,        \* file and gap as of the last flush
    streamDone,  \* the job's StreamDone: "no", or what set it
    attempt,     \* the doReconnectJob under way
    lastStream,  \* the newest stream
    faults,      \* connections lost and crashes, so far
    taken        \* history: what Read has returned to the loop of each stream

Streams == 1 .. MaxStreams

connVars   == <<link, wire, ackWire>>
jmVars     == <<writers, jm, call>>
rpcVars    == <<request, reply>>
readerVars == <<readers, known>>
loopVars   == <<loops, taken>>
fileVars   == <<file, gap, disk, streamDone>>
mainVars   == <<current, attempt, lastStream>>
dsVars     == <<connVars, jmVars, rpcVars, readerVars, loopVars, fileVars, mainVars, faults>>
allVars    == <<smVars, dsVars>>

NoRequest == [kind |-> "none"]
NoReply == [kind |-> "none"]
NoReader == [NewReader(0) EXCEPT !.closed = TRUE]
NoLoop == [at |-> "none", from |-> 0, bytes |-> <<>>, err |-> "none"]
IdleAttempt == [at |-> "idle", seq |-> 0, gap |-> 0]

\* Mutant: the gap is forgotten.
PositionWithoutGap == Len(file)

\* What restartStreaming takes for its place in the stream.
Position == Len(file) + gap

\* StartJob has returned: stream 1 is connected from 0 on with its writer and the reader
\* of the terminal attached, and the answer that starts its output loop is on its way.
DurableInit ==
    /\ window = AfterSetEffectiveWindow(EmptyWindow(TRUE), TRUE, Effective(ReadWindow))
    /\ writer = IdleWriter
    /\ readLoop = "top" /\ signalDue = FALSE /\ terminalEvent = "none" /\ eofPos = NoEof
    /\ sender = "running"
    /\ connected = TRUE /\ streamId = 1 /\ rwndSize = ReadWindow
    /\ sentNotAcked = 0 /\ terminalEventSent = FALSE
    /\ maxAckedSeq = 0 /\ maxAckedRwnd = 0 /\ terminalEventAcked = FALSE /\ closed = FALSE
    /\ connecting = NoCall /\ startSeq = 0
    /\ link = [g \in Streams |-> IF g = 1 THEN "up" ELSE "none"]
    /\ wire = [g \in Streams |-> <<>>] /\ ackWire = [g \in Streams |-> <<>>]
    /\ writers = {1} /\ jm = [client |-> 1, pending |-> NoStream] /\ call = NoRequest
    /\ request = NoRequest /\ reply = [kind |-> "start", ok |-> TRUE]
    /\ readers = [g \in Streams |-> IF g = 1 THEN NewReader(0) ELSE NoReader]
    /\ known = {1}
    /\ loops = [g \in Streams |-> NoLoop] /\ taken = [g \in Streams |-> <<>>]
    /\ file = <<>> /\ gap = 0 /\ disk = [file |-> <<>>, gap |-> 0] /\ streamDone = "no"
    /\ attempt = [at |-> "starting", seq |-> 0, gap |-> 0]
    /\ current = 1 /\ lastStream = 1
    /\ faults = [drops |-> 0, crashes |-> 0]

-----------------------------------------------------------------------------
(* Connections.                                                            *)

\* What is sent into a lost connection is lost.
Sent(queues, g, items) == IF link[g] = "up" THEN [queues EXCEPT ![g] = @ \o items] ELSE queues

Deliverable(queue) == IF Reordering \/ queue = <<>> THEN DOMAIN queue ELSE {1}

\* A connection is lost: what is still delivered is what had already left it.
Drop ==
    /\ faults.drops < MaxDrops
    /\ attempt.at # "starting"    \* a job whose start fails is given up (JobManagerStatus done)
    /\ faults' = [faults EXCEPT !.drops = @ + 1]
    /\ \E g \in Streams :
         /\ link[g] = "up"
         /\ link' = [link EXCEPT ![g] = "down"]
         /\ \E k \in 0 .. Len(wire[g]) : wire' = [wire EXCEPT ![g] = SubSeq(@, 1, k)]
         /\ \E k \in 0 .. Len(ackWire[g]) : ackWire' = [ackWire EXCEPT ![g] = SubSeq(@, 1, k)]
    /\ request' = NoRequest /\ reply' = NoReply
    /\ UNCHANGED <<smVars, jmVars, readerVars, loopVars, fileVars, mainVars>>

-----------------------------------------------------------------------------
(* The job's side.                                                         *)

PtyTurn ==
    /\ \/ ReadLoopTop \/ WriteBytes \/ SignalData \/ ChunkWritten
       \/ \E n \in 1 .. MaxChunk : ReadBytes(n)
       \/ \E event \in Ends : ReadEnds(event)
       \/ SenderWaits \/ SenderExits
    /\ UNCHANGED dsVars

\* routedDataSender sends on the connection its stream was connected for.
Transmit(pkt) ==
    /\ wire' = Sent(wire, streamId, <<pkt>>)
    /\ UNCHANGED <<link, ackWire, jmVars, rpcVars, readerVars, loopVars, fileVars, mainVars, faults>>

SenderTransmits ==
    \/ SendData /\ Transmit(DataPacket)
    \/ SendTerminal /\ Transmit(TerminalPacket)

\* processRecvAck: an ack without a registered writer is dropped; the last ack of a
\* stream unregisters it.
JobReceivesAck ==
    \E g \in Streams : \E i \in Deliverable(ackWire[g]) :
        LET ack == ackWire[g][i] IN
        /\ IF g \in writers THEN RecvAck(ack) ELSE UNCHANGED smVars
        /\ ackWire' = [ackWire EXCEPT ![g] = RemoveAt(@, i)]
        /\ writers' = IF ack.fin \/ ack.cancel THEN writers \ {g} ELSE writers
        /\ UNCHANGED <<link, wire, jm, call, rpcVars, readerVars, loopVars, fileVars, mainVars, faults>>

(* JobManager's RPC methods hold jm.lock; those that use the stream manager *)
(* more than once take its lock anew each time.                            *)

JmWaits == call = NoRequest /\ request # NoRequest /\ link[request.id] = "up"

\* The answer goes back over its connection; one nobody waits for any more is dropped.
Answer(c, answer) ==
    reply' = IF link[c.id] = "up" /\ attempt.at = c.kind /\ lastStream = c.id THEN answer ELSE reply

JmUnchanged == UNCHANGED <<connVars, readerVars, loopVars, fileVars, mainVars, faults>>

\* PrepareConnect, GetStreamDoneInfo: a stream that is done is not connected again.
PrepareConnect ==
    /\ JmWaits /\ request.kind = "prepare"
    /\ Unlocked
    /\ request' = NoRequest
    /\ IF terminalEventAcked
       THEN /\ Answer(request, [kind |-> "prepare", ok |-> TRUE, done |-> TRUE, seq |-> request.seq])
            /\ UNCHANGED call
       ELSE /\ call' = [kind |-> "prepare", id |-> request.id, seq |-> request.seq, at |-> "disconnect"]
            /\ UNCHANGED reply
    /\ UNCHANGED <<smVars, writers, jm>>
    /\ JmUnchanged

\* connectToStreamHelper takes the previous client off.  The broker it detaches the old
\* stream from is the new connection's, where that stream was never attached.
TakeOver ==
    /\ call # NoRequest /\ call.at = "disconnect"
    /\ call' = [call EXCEPT !.at = "connect"]
    /\ IF jm.client # NoStream /\ connected
       THEN ClientDisconnected
       ELSE UNCHANGED smVars
    /\ jm' = [jm EXCEPT !.client = NoStream]
    /\ UNCHANGED <<writers, rpcVars>>
    /\ JmUnchanged

\* The new client is connected with a window of 0 ("corked") until StartStream.
Connect ==
    /\ call # NoRequest /\ call.at = "connect"
    /\ IF closed \/ terminalEventAcked \/ connected
       THEN /\ Unlocked
            /\ call' = NoRequest
            /\ Answer(call, [kind |-> "prepare", ok |-> FALSE])
            /\ UNCHANGED smVars
       ELSE /\ ClientConnected(call.id, 0, call.seq)
            /\ call' = [call EXCEPT !.at = "connecting"]
            /\ UNCHANGED reply
    /\ UNCHANGED <<writers, jm, request>>
    /\ JmUnchanged

Connecting ==
    /\ ConnectStep
    /\ UNCHANGED <<jmVars, rpcVars>>
    /\ JmUnchanged

Connected ==
    /\ call # NoRequest /\ call.at = "connecting"
    /\ Unlocked
    /\ call' = NoRequest
    /\ IF connected
       THEN /\ jm' = [client |-> call.id, pending |-> call.id]
            /\ Answer(call, [kind |-> "prepare", ok |-> TRUE, done |-> FALSE, seq |-> startSeq])
       ELSE /\ Answer(call, [kind |-> "prepare", ok |-> FALSE])
            /\ UNCHANGED jm
    /\ UNCHANGED <<smVars, writers, request>>
    /\ JmUnchanged

\* StartStream: the writer of the pending stream is registered, then its window opens.
StartStream ==
    /\ JmWaits /\ request.kind = "start"
    /\ request' = NoRequest
    /\ IF jm.pending = NoStream \/ jm.pending \in writers
       THEN /\ Answer(request, [kind |-> "start", ok |-> FALSE])
            /\ UNCHANGED <<smVars, writers, jm>>
       ELSE /\ writers' = writers \cup {jm.pending}
            /\ IF connected
               THEN /\ SetRwndSize(ReadWindow)
                    /\ jm' = [jm EXCEPT !.pending = NoStream]
                    /\ Answer(request, [kind |-> "start", ok |-> TRUE])
               ELSE /\ Answer(request, [kind |-> "start", ok |-> FALSE])
                    /\ UNCHANGED <<smVars, jm>>
    /\ UNCHANGED call
    /\ JmUnchanged

JobTurn ==
    \/ PtyTurn \/ SenderTransmits \/ JobReceivesAck
    \/ PrepareConnect \/ TakeOver \/ Connect \/ Connecting \/ Connected \/ StartStream

-----------------------------------------------------------------------------
(* The main server's broker and output loops.                              *)

MainUnchanged == UNCHANGED <<smVars, link, jmVars, mainVars, faults>>

\* A reader's method leaves it and the acks it sent; the broker forgets the reader of a
\* stream whose last ack is out.
ReaderBecomes(g, out) ==
    /\ readers' = [readers EXCEPT ![g] = out.reader]
    /\ ackWire' = Sent(ackWire, g, out.acks)
    /\ known' = IF \E i \in DOMAIN out.acks : out.acks[i].fin \/ out.acks[i].cancel
                THEN known \ {g} ELSE known

\* processRecvData for a stream without a reader: the sender is told to stop, at most once
\* a second.
RefusePacket(g, pkt) ==
    LET ack == [id |-> g, seq |-> pkt.seq, rwnd |-> 0, fin |-> FALSE, cancel |-> TRUE] IN
    /\ ackWire' \in {ackWire, Sent(ackWire, g, <<ack>>)}
    /\ UNCHANGED readerVars

MainReceives ==
    \E g \in Streams : \E i \in Deliverable(wire[g]) :
        /\ wire' = [wire EXCEPT ![g] = RemoveAt(@, i)]
        /\ IF g \in known
           THEN ReaderBecomes(g, RecvData(readers[g], g, wire[g][i]))
           ELSE RefusePacket(g, wire[g][i])
        /\ UNCHANGED <<rpcVars, loopVars, fileVars>>
        /\ MainUnchanged

LoopReads(g) ==
    /\ loops[g].at = "reading"
    /\ Readable(readers[g])
    /\ ReaderBecomes(g, Read(readers[g], g))
    /\ loops' = [loops EXCEPT ![g] = [at |-> "read", from |-> @.from,
                                      bytes |-> ReadBytesOf(readers[g]), err |-> ReadError(readers[g])]]
    /\ taken' = [taken EXCEPT ![g] = @ \o ReadBytesOf(readers[g])]
    /\ UNCHANGED <<wire, rpcVars, fileVars>>
    /\ MainUnchanged

\* The deferred reader.Close.
LoopEnds(g) ==
    /\ loops' = [loops EXCEPT ![g].at = "ended", ![g].bytes = <<>>]
    /\ ReaderBecomes(g, CloseReader(readers[g], g))

\* A loop whose stream is no longer the job's drops what it has just read.
LoopSuperseded(g) ==
    /\ loops[g].at = "read" /\ current # g
    /\ LoopEnds(g)
    /\ UNCHANGED <<wire, rpcVars, taken, fileVars>>
    /\ MainUnchanged

LoopCurrent(g) ==
    /\ loops[g].at = "read" /\ current = g
    /\ SlowAppend \/ attempt.at # "create"
    /\ loops' = [loops EXCEPT ![g].at = "append"]
    /\ UNCHANGED <<wire, ackWire, rpcVars, readerVars, taken, fileVars>>
    /\ MainUnchanged

\* handleAppendJobFile; an error or the end of the stream goes into the job instead.
LoopAppends(g) ==
    /\ loops[g].at = "append"
    /\ file' = file \o loops[g].bytes
    /\ IF loops[g].err = "none"
       THEN /\ loops' = [loops EXCEPT ![g].at = "reading", ![g].bytes = <<>>]
            /\ UNCHANGED <<streamDone, ackWire, readerVars>>
       ELSE /\ streamDone' = loops[g].err
            /\ LoopEnds(g)
    /\ UNCHANGED <<wire, rpcVars, taken, gap, disk>>
    /\ MainUnchanged

LoopTurn(g) == LoopReads(g) \/ LoopSuperseded(g) \/ LoopCurrent(g) \/ LoopAppends(g)

-----------------------------------------------------------------------------
(* doReconnectJob and restartStreaming, one at a time (reconnectGroup).    *)

AttemptUnchanged == UNCHANGED <<smVars, wire, jmVars, taken, disk, faults>>

\* The last connection is gone: a new one is made, and JobConnStatus becomes connected.
Reconnect ==
    /\ attempt.at = "idle"
    /\ link[lastStream] = "down"
    /\ lastStream < MaxStreams
    /\ lastStream' = lastStream + 1
    /\ link' = [link EXCEPT ![lastStream'] = "up"]
    /\ attempt' = [attempt EXCEPT !.at = "stat"]
    /\ UNCHANGED <<ackWire, rpcVars, readerVars, loops, file, gap, streamDone, current>>
    /\ AttemptUnchanged

StatFile ==
    /\ attempt.at = "stat"
    /\ SlowAppend \/ \A g \in Streams : loops[g].at # "append"
    /\ attempt' = [at |-> "create", seq |-> Position, gap |-> gap]
    /\ UNCHANGED <<link, ackWire, rpcVars, readerVars, loops, file, gap, streamDone, current, lastStream>>
    /\ AttemptUnchanged

CreateReader ==
    /\ attempt.at = "create"
    /\ readers' = [readers EXCEPT ![lastStream] = NewReader(attempt.seq)]
    /\ known' = known \cup {lastStream}
    /\ current' = lastStream
    /\ request' = [kind |-> "prepare", id |-> lastStream, seq |-> attempt.seq]
    /\ attempt' = [attempt EXCEPT !.at = "prepare"]
    /\ UNCHANGED <<link, ackWire, reply, loops, file, gap, streamDone, lastStream>>
    /\ AttemptUnchanged

\* The attempt gives up and closes its reader.
GiveUp ==
    /\ attempt' = IdleAttempt
    /\ ReaderBecomes(lastStream, CloseReader(readers[lastStream], lastStream))

\* The answer to PrepareConnect; what the job manager no longer has is written down as a gap.
Prepared ==
    /\ attempt.at = "prepare" /\ reply.kind = "prepare"
    /\ reply' = NoReply
    /\ IF ~reply.ok
       THEN GiveUp /\ UNCHANGED <<request, gap, streamDone>>
       ELSE IF reply.done
       THEN /\ streamDone' = IF streamDone = "no" THEN "reported" ELSE streamDone
            /\ GiveUp
            /\ UNCHANGED <<request, gap>>
       ELSE /\ IF reply.seq > attempt.seq
               THEN /\ gap' = attempt.gap + (reply.seq - attempt.seq)
                    /\ readers' = [readers EXCEPT ![lastStream] = UpdateNextSeq(@, reply.seq)]
               ELSE UNCHANGED <<gap, readers>>
            /\ request' = [kind |-> "start", id |-> lastStream]
            /\ attempt' = [attempt EXCEPT !.at = "start"]
            /\ UNCHANGED <<ackWire, known, streamDone>>
    /\ UNCHANGED <<link, loops, file, current, lastStream>>
    /\ AttemptUnchanged

\* The answer to StartStream (or, for the first stream, to StartJob): the output loop starts.
Started ==
    /\ attempt.at \in {"start", "starting"} /\ reply.kind = "start"
    /\ reply' = NoReply
    /\ IF reply.ok
       THEN /\ attempt' = IdleAttempt
            /\ loops' = [loops EXCEPT ![lastStream] =
                 [at |-> "reading", from |-> readers[lastStream].nextSeq - Len(readers[lastStream].buffer),
                  bytes |-> <<>>, err |-> "none"]]
            /\ UNCHANGED <<ackWire, readerVars>>
       ELSE GiveUp /\ UNCHANGED loops
    /\ UNCHANGED <<link, request, file, gap, streamDone, current, lastStream>>
    /\ AttemptUnchanged

\* No answer in time, whether or not the request was or will be carried out.
AttemptTimesOut ==
    /\ attempt.at \in {"prepare", "start"}
    /\ GiveUp
    /\ reply' = NoReply
    /\ UNCHANGED <<link, request, loops, file, gap, streamDone, current, lastStream>>
    /\ AttemptUnchanged

AttemptTurn == StatFile \/ CreateReader \/ Prepared \/ Started

-----------------------------------------------------------------------------
(* The terminal file's flusher, and the main server's death.               *)

Flush ==
    /\ MaxCrashes > 0
    /\ disk # [file |-> file, gap |-> gap]
    /\ disk' = [file |-> file, gap |-> gap]
    /\ UNCHANGED <<smVars, connVars, jmVars, rpcVars, readerVars, loopVars, file, gap, streamDone,
                   mainVars, faults>>

\* Only the database and the flushed part of the file survive.
Crash ==
    /\ faults.crashes < MaxCrashes
    /\ attempt.at # "starting"
    /\ faults' = [faults EXCEPT !.crashes = @ + 1]
    /\ link' = [g \in Streams |-> IF link[g] = "up" THEN "down" ELSE link[g]]
    /\ wire' = [g \in Streams |-> <<>>]
    /\ UNCHANGED ackWire
    /\ request' = NoRequest /\ reply' = NoReply
    /\ readers' = [g \in Streams |-> NoReader] /\ known' = {}
    /\ loops' = [g \in Streams |-> NoLoop] /\ taken' = [g \in Streams |-> <<>>]
    /\ file' = disk.file /\ gap' = disk.gap
    /\ attempt' = IdleAttempt
    /\ UNCHANGED <<smVars, jmVars, disk, streamDone, current, lastStream>>

MainTurn ==
    \/ MainReceives \/ (\E g \in Streams : LoopTurn(g))
    \/ Reconnect \/ AttemptTurn \/ AttemptTimesOut \/ Flush

DurableNext == JobTurn \/ MainTurn \/ Drop \/ Crash

DurableSpec == DurableInit /\ [][DurableNext]_allVars

\* Fairness: every goroutine that can take a step eventually does, and a connection that
\* stays up delivers.  Nothing is assumed of the job, of faults or of timeouts.
DurableFairness ==
    /\ WF_allVars(PtyTurn /\ readLoop' # readLoop /\ readLoop # "reading")
    /\ WF_allVars(WriteBytes /\ UNCHANGED dsVars)
    /\ WF_allVars(SignalData /\ UNCHANGED dsVars)
    /\ WF_allVars(SenderTransmits \/ ((SenderWaits \/ SenderExits) /\ UNCHANGED dsVars))
    /\ WF_allVars(JobReceivesAck)
    /\ WF_allVars(PrepareConnect \/ TakeOver \/ Connect \/ Connecting \/ Connected \/ StartStream)
    /\ WF_allVars(MainReceives)
    /\ \A g \in Streams : WF_allVars(LoopTurn(g))
    /\ WF_allVars(Reconnect)
    /\ WF_allVars(AttemptTurn)

FairDurableSpec == DurableSpec /\ DurableFairness

-----------------------------------------------------------------------------

\* Bytes a reader keeps: those to be read and those that came too early.
Buffered(r) == Len(r.buffer) + Cardinality(UNION {{pkt} \X (1 .. pkt.n) : pkt \in r.ooo})

\* Flow control: the sender never makes a reader hold more than the window it announced,
\* whatever acks, reorderings and reconnections did to the two ends' ideas of it.
WindowRespected == \A g \in Streams : Buffered(readers[g]) <= ReadWindow

\* While a stream lasts and its reader is registered the job manager frees only bytes the
\* reader has received: no late ack of an earlier stream frees anything. (An ack that refuses
\* a packet of a stream without a reader does: processRecvData answers with the packet's Seq.)
KnownReaderFrees ==
    [][connected /\ connected' /\ window'.head # window.head /\ streamId \in known
          => window'.head <= readers[streamId].nextSeq]_allVars

\* The terminal file is the job's output with holes, in order and without repetition, and
\* every hole is accounted for in the recorded gap.
NoSilentLoss ==
    /\ \A i, j \in DOMAIN file : i < j => file[i] < file[j]
    /\ file # <<>> => file[Len(file)] + 1 <= Position

Contract == INSTANCE ReliableStream WITH
    printed <- window.tail, ended <- terminalEvent,
    start <- loops[current].from, got <- taken[current], told <- loops[current].err

\* Every stream hands its output loop the job's bytes from where it was started, each once
\* and in order, and its end only at the end.
ImplementsReliableStream == Contract!RsSpec

\* In this step the loop of stream g, told of the end, stops; every byte of the output from
\* the loop's start on is in the terminal file.
EndsComplete(g, end) ==
    /\ loops[g].at = "append" /\ loops'[g].at = "ended" /\ loops[g].err = end
    /\ \A p \in loops[g].from .. eofPos - 1 : \E i \in DOMAIN file' : file'[i] = p

\* The job's stream is marked done by an EOF only by a loop that has read up to the end of
\* the output, when all of that is in the terminal file.
DoneMeansComplete ==
    [][streamDone' = "eof" /\ streamDone # "eof" => \E g \in Streams : EndsComplete(g, "eof")]_allVars

\* The same for a stream that ends with an error: the error comes after the output.
ErrorIsLast ==
    [][streamDone' = "error" /\ streamDone # "error" => \E g \in Streams : EndsComplete(g, "error")]_allVars

\* Over a connection that stays up, whatever the job prints, the bytes readLoop still holds
\* included, reaches the terminal file, unless its output ends with an error.
OutputArrives ==
    \A n \in 1 .. MaxOutput : window.tail + writer.left >= n ~> Len(file) >= n \/ terminalEvent = "error"

\* ... and the end of the job's output reaches the job's record.
EndArrives == terminalEvent # "none" ~> streamDone # "no" /\ terminalEventAcked

\* A job whose connection is lost keeps running: its output is buffered, not held up.
DetachedJobRuns ==
    writer.waiting /\ link[lastStream] = "down" ~> ~writer.waiting \/ link[lastStream] = "up"
=============================================================================
