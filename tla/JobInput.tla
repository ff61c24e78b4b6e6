------------------------------ MODULE JobInput ------------------------------
(***************************************************************************)
(* The keys typed into a durable session, on their way to its terminal:    *)
(* the block's controller numbers them, each is an RPC of its own, the job *)
(* manager puts them back in order.  A new controller (a restart of the    *)
(* main server, say) starts a new input session from 1.                    *)
(***************************************************************************)
EXTENDS ReorderQueue

VARIABLES
    sent,      \* inputs numbered so far, per session
    flying,    \* the RPCs on their way
    applied    \* history: what HandleInput was given

inputVars == <<queueVars, sent, flying, applied>>

InputInit ==
    /\ QueueInit
    /\ sent = [s \in Sessions |-> 0] /\ flying = {} /\ applied = <<>>

\* A number is taken before it is known whether the job can be reached: an input that
\* cannot be sent leaves a hole.  Only the newest controller is typed into.
SendInput(s) ==
    /\ sent[s] < MaxSeq
    /\ \A later \in Sessions : later > s => sent[later] = 0
    /\ sent' = [sent EXCEPT ![s] = @ + 1]
    /\ flying' \in {flying, flying \cup {[session |-> s, seq |-> sent'[s]]}}
    /\ UNCHANGED <<queueVars, applied>>

\* Requests are handled in goroutines of their own, so in any order.  Whether the queue
\* took the input is not looked at.
JobInputCommand ==
    \E item \in flying :
        /\ QueueItem(item)
        /\ flying' = flying \ {item}
        /\ UNCHANGED <<sent, applied>>

ProcessInputQueue ==
    /\ Receive
    /\ applied' = Append(applied, Head(outCh))
    /\ UNCHANGED <<sent, flying>>

QueueTurn ==
    /\ Tick \/ \E t \in 1 .. MaxTimers : TimerFires(t) \/ OnTimeout(t)
    /\ UNCHANGED <<sent, flying, applied>>

InputNext == (\E s \in Sessions : SendInput(s)) \/ JobInputCommand \/ ProcessInputQueue \/ QueueTurn

\* Fairness: time passes, a timer fires, its callback gets the lock, and the goroutine that
\* reads the queue runs.  Nothing is assumed of typing or of the network.
InputFairness ==
    /\ WF_inputVars(Tick /\ UNCHANGED <<sent, flying, applied>>)
    /\ \A t \in 1 .. MaxTimers :
          /\ WF_inputVars(TimerFires(t) /\ UNCHANGED <<sent, flying, applied>>)
          /\ WF_inputVars(OnTimeout(t) /\ UNCHANGED <<sent, flying, applied>>)
    /\ WF_inputVars(ProcessInputQueue)

InputSpec == InputInit /\ [][InputNext]_inputVars /\ InputFairness

-----------------------------------------------------------------------------

\* What has left the queue, whether or not it was received yet.
Emitted == applied \o outCh

\* Inputs of a session never overtake each other inside the queue: what goes out leaves
\* nothing of the same session behind that comes before it, and itself is in order.
NothingOvertaken ==
    [][\A i \in Len(Emitted) + 1 .. Len(Emitted') :
          LET item == Emitted'[i] IN
          /\ \A held \in buffer' : held.session = item.session => held.seq > item.seq
          /\ \A j \in Len(Emitted) + 1 .. i - 1 :
                Emitted'[j].session = item.session => Emitted'[j].seq < item.seq]_inputVars

\* An input not yet seen is given up only for one behind it that was held for the timeout,
\* or for a new session.
SkipOnlyAfterTimeout ==
    [][\A n \in nextSeqNum .. nextSeqNum' - 1 :
          \/ currentSessionId' # currentSessionId
          \/ \E i \in Len(Emitted) + 1 .. Len(Emitted') :
                Emitted'[i] = [session |-> currentSessionId, seq |-> n]
          \/ \E held \in buffer : held.age >= Timeout /\ held.seq > n]_inputVars

\* An input the queue holds reaches the terminal, whatever became of those before it.
HeldIsApplied ==
    \A s \in Sessions, n \in 1 .. MaxSeq :
        (\E held \in buffer : held.session = s /\ held.seq = n)
            ~> (\E i \in DOMAIN applied : applied[i] = [session |-> s, seq |-> n])
=============================================================================
