---------------------------- MODULE ReorderQueue ----------------------------
(***************************************************************************)
(* pkg/utilds/quickreorderqueue.go: items of a session come in with        *)
(* numbers and go out in order; a missing number is waited for until an    *)
(* item behind it has been held for the timeout.                           *)
(*                                                                         *)
(* q.lock covers every method and the timer's callback, so each is one     *)
(* step.  Time is counted in ticks.  A timer that has fired is a callback  *)
(* waiting for the lock: Stop no longer reaches it.                        *)
(*                                                                         *)
(* SetNextSeqNum, Close and items without a number are used by tests only. *)
(* Two sessions are never first seen in the same millisecond: the queue    *)
(* expects them more than a timeout apart.                                 *)
(***************************************************************************)
EXTENDS Integers, Sequences, FiniteSets

CONSTANTS
    MaxSessions,   \* bound: how many sessions use the queue
    MaxSeq,        \* bound: the items of a session
    Capacity,      \* cap(outCh)
    Timeout,       \* in ticks
    MaxTimers      \* bound: timers that run or wait for the lock at once

ASSUME QueueAssumption ==
    /\ MaxSessions \in Nat \ {0} /\ MaxSeq \in Nat \ {0}
    /\ Capacity \in Nat \ {0} /\ Timeout \in Nat \ {0} /\ MaxTimers \in Nat \ {0}

VARIABLES
    sessionOrder,      \* per session: when it was first seen, or 0
    currentSessionId, nextSeqNum,
    buffer,            \* the items held, each with its age, at most Timeout
    outCh,             \* the items nobody has received yet
    timer,             \* q.timer: the number of a timer, or NoTimer
    timers             \* per timer: the ticks it has left, Free or Fired

queueVars == <<sessionOrder, currentSessionId, nextSeqNum, buffer, outCh, timer, timers>>

Sessions == 1 .. MaxSessions
Items == [session : Sessions, seq : 1 .. MaxSeq]
NoSession == 0
NoTimer == 0
Free == -2
Fired == -1

QueueInit ==
    /\ sessionOrder = [s \in Sessions |-> 0]
    /\ currentSessionId = NoSession /\ nextSeqNum = 1
    /\ buffer = {} /\ outCh = <<>>
    /\ timer = NoTimer /\ timers = [t \in 1 .. MaxTimers |-> Free]

-----------------------------------------------------------------------------
(* Held items.  They are all of one session (HeldIsAhead), so their        *)
(* numbers alone order them.                                               *)

\* The items of a set as they go out: in order of their numbers.
Sorted(items) ==
    [k \in 1 .. Cardinality(items) |->
        LET item == CHOOSE i \in items : Cardinality({j \in items : j.seq < i.seq}) = k - 1
        IN  [session |-> item.session, seq |-> item.seq]]

\* From number n on, next is the first that is not held.
FirstMissing(items, n, next) ==
    /\ \A k \in n .. next - 1 : \E i \in items : i.seq = k
    /\ \A i \in items : i.seq # next

\* Mutant: a time-out lets everything go.
AllHeld == buffer

\* Mutant: a time-out lets go only what has been held for long enough.
TimedOutAlone == {i \in buffer : i.age >= Timeout}

\* Those a time-out lets go: what has been held for long enough, and what is before that.
TimedOut == {i \in buffer : \E j \in buffer : j.age >= Timeout /\ i.seq <= j.seq}

-----------------------------------------------------------------------------
(* QueueItem. *)

\* A session seen for the first time flushes the buffer and starts from 1.
Fresh(item) == sessionOrder[item.session] = 0

\* Mutant: a new session takes over without a flush.
FlushedNever(item) == {}

Flushed(item) == IF Fresh(item) THEN buffer ELSE {}
Kept(item) == buffer \ Flushed(item)
Expected(item) == IF Fresh(item) THEN 1 ELSE nextSeqNum

EnsureSession(item) ==
    /\ currentSessionId' = IF Fresh(item) THEN item.session ELSE currentSessionId
    /\ sessionOrder' = IF Fresh(item)
         THEN [sessionOrder EXCEPT ![item.session] =
                 1 + Cardinality({s \in Sessions : sessionOrder[s] # 0})]
         ELSE sessionOrder

\* flushBuffer stops the timer, if it had something to flush.
TimersAfterFlush(item) ==
    IF Flushed(item) # {} /\ timer # NoTimer /\ timers[timer] # Fired
    THEN [timers EXCEPT ![timer] = Free] ELSE timers

TimerAfterFlush(item) == IF Flushed(item) # {} THEN NoTimer ELSE timer

\* Mutant: items that are held are not counted.
HasRoomOut == Len(outCh) < Capacity

HasRoom == Cardinality(buffer) + Len(outCh) < Capacity

\* An item of an earlier session, or one whose number has passed, goes straight out.
PassLate(item) ==
    /\ HasRoom
    /\ ~Fresh(item)
    /\ \/ sessionOrder[item.session] < sessionOrder[currentSessionId]
       \/ item.session = currentSessionId /\ item.seq < nextSeqNum
    /\ outCh' = Append(outCh, item)
    /\ UNCHANGED <<sessionOrder, currentSessionId, nextSeqNum, buffer, timer, timers>>

\* The item awaited goes out with those held behind it.
PassInOrder(item) ==
    /\ HasRoom
    /\ EnsureSession(item)
    /\ item.session = currentSessionId' /\ item.seq = Expected(item)
    /\ nextSeqNum' \in item.seq + 1 .. MaxSeq + 1
    /\ FirstMissing(Kept(item), item.seq + 1, nextSeqNum')
    /\ LET behind == {i \in Kept(item) : item.seq < i.seq /\ i.seq < nextSeqNum'} IN
       /\ outCh' = outCh \o Sorted(Flushed(item)) \o <<item>> \o Sorted(behind)
       /\ buffer' = Kept(item) \ behind
    /\ timer' = TimerAfterFlush(item) /\ timers' = TimersAfterFlush(item)

\* Mutant: no timer is started for a held item.
EnsureNoTimer(item) ==
    timer' = TimerAfterFlush(item) /\ timers' = TimersAfterFlush(item)

EnsureTimer(item) ==
    IF TimerAfterFlush(item) # NoTimer
    THEN timer' = TimerAfterFlush(item) /\ timers' = TimersAfterFlush(item)
    ELSE LET t == CHOOSE u \in 1 .. MaxTimers : TimersAfterFlush(item)[u] = Free IN
         /\ timer' = t
         /\ timers' = [TimersAfterFlush(item) EXCEPT ![t] = Timeout]

\* An item ahead of the one awaited is held.
Hold(item) ==
    /\ HasRoom
    /\ EnsureSession(item)
    /\ item.session = currentSessionId' /\ item.seq > Expected(item)
    /\ \E t \in 1 .. MaxTimers : timers[t] = Free    \* bound
    /\ outCh' = outCh \o Sorted(Flushed(item))
    /\ buffer' = Kept(item) \cup {[session |-> item.session, seq |-> item.seq, age |-> 0]}
    /\ nextSeqNum' = Expected(item)
    /\ EnsureTimer(item)

\* A full queue refuses the item.
Refuse(item) == ~HasRoom /\ UNCHANGED queueVars

QueueItem(item) == PassLate(item) \/ PassInOrder(item) \/ Hold(item) \/ Refuse(item)

-----------------------------------------------------------------------------
(* Time. *)

Tick ==
    /\ \/ \E i \in buffer : i.age < Timeout
       \/ \E t \in DOMAIN timers : timers[t] > 0
    /\ buffer' = {[i EXCEPT !.age = IF @ < Timeout THEN @ + 1 ELSE @] : i \in buffer}
    /\ timers' = [t \in DOMAIN timers |-> IF timers[t] > 0 THEN timers[t] - 1 ELSE timers[t]]
    /\ UNCHANGED <<sessionOrder, currentSessionId, nextSeqNum, outCh, timer>>

TimerFires(t) ==
    /\ timers[t] = 0
    /\ timers' = [timers EXCEPT ![t] = Fired]
    /\ UNCHANGED <<sessionOrder, currentSessionId, nextSeqNum, buffer, outCh, timer>>

\* Mutant: the items that stay get no timer.
RearmNever(t, held) == timer' = NoTimer /\ timers' = [timers EXCEPT ![t] = Free]

\* The timer for the items that stay is the callback's own; q.timer forgets any other.
Rearm(t, held) ==
    IF held = {}
    THEN timer' = NoTimer /\ timers' = [timers EXCEPT ![t] = Free]
    ELSE /\ timer' = t
         /\ \E oldest \in held :
              /\ \A i \in held : i.age <= oldest.age
              /\ timers' = [timers EXCEPT ![t] = Timeout - oldest.age]

\* The callback of timer t has the lock.
OnTimeout(t) ==
    /\ timers[t] = Fired
    /\ outCh' = outCh \o Sorted(TimedOut)
    /\ \/ TimedOut = {} /\ nextSeqNum' = nextSeqNum
       \/ \E last \in TimedOut :
            /\ \A i \in TimedOut : i.seq <= last.seq
            /\ nextSeqNum' = IF last.seq >= nextSeqNum THEN last.seq + 1 ELSE nextSeqNum
    /\ buffer' = buffer \ TimedOut
    /\ Rearm(t, buffer \ TimedOut)
    /\ UNCHANGED <<sessionOrder, currentSessionId>>

\* The reader of C().
Receive ==
    /\ outCh # <<>>
    /\ outCh' = Tail(outCh)
    /\ UNCHANGED <<sessionOrder, currentSessionId, nextSeqNum, buffer, timer, timers>>

-----------------------------------------------------------------------------

\* The sends on outCh, all made with q.lock held, never block: there is always room for
\* what is held, so neither a flush nor a time-out waits for the reader.
SendsNeverBlock == Len(outCh) + Cardinality(buffer) <= Capacity

\* What is held is of the current session and not yet passed: no item is stranded when
\* the awaited number moves by an arrival, a time-out or a new session.
HeldIsAhead ==
    \A i \in buffer : i.session = currentSessionId /\ i.seq >= nextSeqNum

\* Nothing is held without a timer that will look at it, whatever stops, stale callbacks
\* and rearming did to q.timer.
HeldIsTimed == buffer # {} => \E t \in DOMAIN timers : timers[t] # Free
=============================================================================
