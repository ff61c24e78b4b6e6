------------------------- MODULE ReorderQueueProofs -------------------------
(***************************************************************************)
(* The input queue's safety, for any number of sessions and inputs, every  *)
(* capacity and every timeout.                                             *)
(*                                                                         *)
(* The order in which inputs leave is that of their sessions and numbers,  *)
(* except for one that came late or whose time was up: what is held is     *)
(* ahead of what was awaited, and leaves sorted.                           *)
(***************************************************************************)
EXTENDS JobInput, FiniteSetTheorems, SequenceTheorems, TLAPS

\* The fields keep their types, so far as the invariant needs them.
FieldsTyped ==
    /\ sessionOrder \in [Sessions -> Nat]
    /\ currentSessionId \in Sessions \cup {NoSession} /\ nextSeqNum \in Nat
    /\ buffer \subseteq [session : Sessions, seq : 1 .. MaxSeq, age : 0 .. Timeout]
    /\ timers \in [1 .. MaxTimers -> {Free, Fired} \cup 0 .. Timeout]
    /\ timer \in 0 .. MaxTimers /\ (timer # NoTimer => timers[timer] # Free)

\* A sequence, whatever its elements.
IsSeq(s) == \E S : s \in Seq(S)

\* What the queue holds can be counted.
QueueCounted == IsFiniteSet(buffer) /\ IsSeq(outCh)

\* A number is given out once: what is on its way is not held as well.
InputsNumbered ==
    /\ sent \in [Sessions -> Nat] /\ flying \subseteq Items
    /\ \A f \in flying : f.seq <= sent[f.session]
    /\ \A i \in buffer : i.seq <= sent[i.session]
    /\ \A f \in flying, i \in buffer : f.session = i.session => f.seq # i.seq

\* The inductive invariant.
QueueInv ==
    /\ FieldsTyped
    /\ QueueCounted
    /\ InputsNumbered
    /\ SendsNeverBlock
    /\ HeldIsAhead
    /\ HeldIsTimed

-----------------------------------------------------------------------------
(* Counting. *)

\* Two sequences in a row are as long as both.
LEMMA ConcatCounted ==
    ASSUME NEW s, NEW t, IsSeq(s), IsSeq(t)
    PROVE  IsSeq(s \o t) /\ Len(s \o t) = Len(s) + Len(t)
<1>1. PICK S : s \in Seq(S)
  BY DEF IsSeq
<1>2. PICK T : t \in Seq(T)
  BY DEF IsSeq
<1>3. s \in Seq(S \cup T)
  BY <1>1, SeqMonotonic
<1>4. t \in Seq(S \cup T)
  BY <1>2, SeqMonotonic
<1>5. s \o t \in Seq(S \cup T) /\ Len(s \o t) = Len(s) + Len(t)
  BY <1>3, <1>4, ConcatProperties
<1> QED BY <1>5 DEF IsSeq

\* An item more is one more.
LEMMA SingleCounted ==
    ASSUME NEW x
    PROVE  IsSeq(<<x>>) /\ Len(<<x>>) = 1
<1>1. <<x>> \in Seq({x})
  OBVIOUS
<1> QED BY <1>1 DEF IsSeq

\* A length is a number.
LEMMA LenIsNat == ASSUME NEW s, IsSeq(s) PROVE Len(s) \in Nat
BY DEF IsSeq

\* What goes out of a set of items is as much as there is in it.
LEMMA SortedCounted ==
    ASSUME NEW items, IsFiniteSet(items)
    PROVE  IsSeq(Sorted(items)) /\ Len(Sorted(items)) = Cardinality(items)
<1>1. Cardinality(items) \in Nat
  BY FS_CardinalityType
<1> DEFINE S == {Sorted(items)[k] : k \in 1 .. Cardinality(items)}
<1>2. Sorted(items) \in [1 .. Cardinality(items) -> S]
  BY DEF Sorted
<1>3. Sorted(items) \in Seq(S)
  BY <1>1, <1>2, SeqDef
<1>4. DOMAIN Sorted(items) = 1 .. Cardinality(items)
  BY DEF Sorted
<1>5. Len(Sorted(items)) = Cardinality(items)
  BY <1>1, <1>3, <1>4, LenProperties
<1> QED BY <1>3, <1>5 DEF IsSeq

\* What goes and what stays add up.
LEMMA SplitCounted ==
    ASSUME NEW S, NEW T, IsFiniteSet(S), T \subseteq S
    PROVE  /\ IsFiniteSet(T) /\ IsFiniteSet(S \ T)
           /\ Cardinality(S) \in Nat /\ Cardinality(T) \in Nat /\ Cardinality(S \ T) \in Nat
           /\ Cardinality(S \ T) = Cardinality(S) - Cardinality(T)
<1>1. IsFiniteSet(T)
  BY FS_Subset
<1>2. IsFiniteSet(S \ T) /\ Cardinality(S \ T) = Cardinality(S) - Cardinality(S \cap T)
  BY FS_Difference
<1>3. S \cap T = T
  OBVIOUS
<1> QED BY <1>1, <1>2, <1>3, FS_CardinalityType

\* Sessions and inputs are what the invariant says they are.
LEMMA ItemFacts ==
    ASSUME FieldsTyped, NEW i \in buffer
    PROVE  /\ i = [session |-> i.session, seq |-> i.seq, age |-> i.age]
           /\ i.session \in Sessions /\ i.seq \in Nat /\ i.seq \in 1 .. MaxSeq
           /\ i.age \in Nat /\ i.age \in 0 .. Timeout
BY QueueAssumption DEF FieldsTyped

\* A flush takes everything or nothing.
LEMMA FlushIsWhole ==
    ASSUME NEW item
    PROVE  \/ Fresh(item) /\ Flushed(item) = buffer /\ Kept(item) = {}
           \/ ~Fresh(item) /\ Flushed(item) = {} /\ Kept(item) = buffer
BY DEF Flushed, Kept

-----------------------------------------------------------------------------
(* QueueItem, one lemma per outcome. *)

\* A step of the queue that may follow QueueInv, with the input taken off the wire.
Taken(item) ==
    /\ item \in flying /\ flying' = flying \ {item}
    /\ UNCHANGED sent

\* Inputs that stay where they are keep their numbers.
LEMMA NumbersKept ==
    ASSUME InputsNumbered, flying' \subseteq flying, UNCHANGED sent, buffer' \subseteq buffer
    PROVE  InputsNumbered'
BY DEF InputsNumbered

\* An input that comes late is passed on at once.
LEMMA PassLateStep ==
    ASSUME QueueInv, NEW item, Taken(item), PassLate(item)
    PROVE  QueueInv'
<1> USE DEF QueueInv
<1>1. Cardinality(buffer) \in Nat /\ Len(outCh) \in Nat
  BY FS_CardinalityType, LenIsNat DEF QueueCounted
<1>2. PICK S : outCh \in Seq(S)
  BY DEF QueueCounted, IsSeq
<1>3. outCh \in Seq(S \cup {item})
  BY <1>2, SeqMonotonic
<1>4. outCh' \in Seq(S \cup {item}) /\ Len(outCh') = Len(outCh) + 1
  BY <1>3, AppendProperties DEF PassLate
<1>5. QueueCounted'
  BY <1>4 DEF QueueCounted, IsSeq, PassLate
<1>6. SendsNeverBlock'
  BY <1>1, <1>4, QueueAssumption DEF SendsNeverBlock, PassLate, HasRoom
<1>7. InputsNumbered'
  BY NumbersKept DEF Taken, PassLate
<1>8. FieldsTyped' /\ HeldIsAhead' /\ HeldIsTimed'
  BY DEF PassLate, FieldsTyped, HeldIsAhead, HeldIsTimed
<1> QED BY <1>5, <1>6, <1>7, <1>8

\* A session keeps its rank, and the newest becomes the current one.
LEMMA SessionTyped ==
    ASSUME FieldsTyped, NEW item \in Items, EnsureSession(item)
    PROVE  /\ sessionOrder' \in [Sessions -> Nat]
           /\ currentSessionId' \in Sessions \cup {NoSession}
           /\ Expected(item) \in Nat
<1>1. item.session \in Sessions
  BY DEF Items
<1>2. IsFiniteSet({s \in Sessions : sessionOrder[s] # 0})
  <2>1. IsFiniteSet(Sessions)
    BY FS_Interval, QueueAssumption DEF Sessions
  <2> QED BY <2>1, FS_Subset
<1>3. Cardinality({s \in Sessions : sessionOrder[s] # 0}) \in Nat
  BY <1>2, FS_CardinalityType
<1>4. sessionOrder' \in [Sessions -> Nat]
  BY <1>1, <1>3 DEF EnsureSession, FieldsTyped
<1> QED BY <1>1, <1>4 DEF EnsureSession, FieldsTyped, Expected

\* A flush may stop the timer it had; the others go on.
LEMMA FlushedTimers ==
    ASSUME FieldsTyped, NEW item
    PROVE  /\ TimersAfterFlush(item) \in [1 .. MaxTimers -> {Free, Fired} \cup 0 .. Timeout]
           /\ TimerAfterFlush(item) \in 0 .. MaxTimers
           /\ TimerAfterFlush(item) # NoTimer =>
                 /\ TimersAfterFlush(item) = timers
                 /\ timers[TimerAfterFlush(item)] # Free
           /\ ~Fresh(item) => TimersAfterFlush(item) = timers
           /\ \A t \in 1 .. MaxTimers : timers[t] = Free => TimersAfterFlush(item)[t] = Free
<1>1. MaxTimers \in Nat /\ Timeout \in Nat
  BY QueueAssumption
<1> USE <1>1 DEF FieldsTyped, NoTimer, Free, Fired
<1>2. TimersAfterFlush(item) \in [1 .. MaxTimers -> {Free, Fired} \cup 0 .. Timeout]
  BY DEF TimersAfterFlush
<1>3. TimerAfterFlush(item) \in 0 .. MaxTimers
  BY DEF TimerAfterFlush
<1>4. TimerAfterFlush(item) # NoTimer =>
        TimersAfterFlush(item) = timers /\ timers[TimerAfterFlush(item)] # Free
  BY DEF TimersAfterFlush, TimerAfterFlush
<1>5. ~Fresh(item) => TimersAfterFlush(item) = timers
  BY DEF TimersAfterFlush, Flushed
<1>6. \A t \in 1 .. MaxTimers : timers[t] = Free => TimersAfterFlush(item)[t] = Free
  BY DEF TimersAfterFlush
<1> QED BY <1>2, <1>3, <1>4, <1>5, <1>6

\* The awaited input is passed on, with those held behind it.
LEMMA PassInOrderStep ==
    ASSUME QueueInv, NEW item, Taken(item), PassInOrder(item)
    PROVE  QueueInv'
<1> USE DEF QueueInv
<1>1. item \in Items /\ item.seq \in Nat /\ item.session \in Sessions
  BY QueueAssumption DEF Taken, InputsNumbered, Items
<1> DEFINE behind == {i \in Kept(item) : item.seq < i.seq /\ i.seq < nextSeqNum'}
<1>2. /\ EnsureSession(item) /\ HasRoom
      /\ item.session = currentSessionId' /\ item.seq = Expected(item)
      /\ nextSeqNum' \in item.seq + 1 .. MaxSeq + 1
      /\ outCh' = outCh \o Sorted(Flushed(item)) \o <<item>> \o Sorted(behind)
      /\ buffer' = Kept(item) \ behind
      /\ timer' = TimerAfterFlush(item) /\ timers' = TimersAfterFlush(item)
  BY DEF PassInOrder
<1>3. nextSeqNum' \in Nat
  BY <1>1, <1>2, QueueAssumption
<1>4. buffer' \subseteq buffer /\ behind \subseteq buffer
  BY <1>2 DEF Kept
<1>5. FieldsTyped'
  BY <1>1, <1>2, <1>3, <1>4, SessionTyped, FlushedTimers, QueueAssumption
     DEF FieldsTyped, NoTimer, Free, Fired
<1>6. InputsNumbered'
  BY <1>4, NumbersKept DEF Taken
<1>7. Len(outCh) \in Nat /\ Cardinality(buffer) \in Nat /\ Cardinality({}) = 0
  BY FS_CardinalityType, FS_EmptySet, LenIsNat DEF QueueCounted
<1>8. /\ IsFiniteSet(Flushed(item)) /\ IsFiniteSet(behind) /\ IsFiniteSet(buffer')
      /\ Cardinality(Flushed(item)) \in Nat /\ Cardinality(behind) \in Nat
      /\ Cardinality(Flushed(item)) + Cardinality(behind) + Cardinality(buffer')
           = Cardinality(buffer)
  <2> HIDE DEF behind
  <2>1. CASE Fresh(item)
    <3>1. Flushed(item) = buffer /\ behind = {} /\ buffer' = {}
      BY <2>1, <1>2, FlushIsWhole DEF behind
    <3> QED BY <3>1, <1>7, FS_EmptySet DEF QueueCounted
  <2>2. CASE ~Fresh(item)
    <3>1. Flushed(item) = {} /\ buffer' = buffer \ behind
      BY <2>2, <1>2, FlushIsWhole
    <3>2. /\ IsFiniteSet(behind) /\ IsFiniteSet(buffer \ behind)
          /\ Cardinality(behind) \in Nat
          /\ Cardinality(buffer \ behind) = Cardinality(buffer) - Cardinality(behind)
      BY <1>4, SplitCounted DEF QueueCounted
    <3> QED BY <3>1, <3>2, <1>7, FS_EmptySet
  <2> QED BY <2>1, <2>2
<1>9. /\ IsSeq(outCh')
      /\ Len(outCh') = Len(outCh) + Cardinality(Flushed(item)) + 1 + Cardinality(behind)
  <2> HIDE DEF behind
  <2>1. /\ IsSeq(outCh \o Sorted(Flushed(item)))
        /\ Len(outCh \o Sorted(Flushed(item))) = Len(outCh) + Cardinality(Flushed(item))
    BY <1>8, SortedCounted, ConcatCounted DEF QueueCounted
  <2>2. /\ IsSeq(outCh \o Sorted(Flushed(item)) \o <<item>>)
        /\ Len(outCh \o Sorted(Flushed(item)) \o <<item>>)
             = Len(outCh) + Cardinality(Flushed(item)) + 1
    BY <2>1, SingleCounted, ConcatCounted
  <2> QED BY <1>2, <1>8, <2>2, SortedCounted, ConcatCounted
<1>10. QueueCounted' /\ SendsNeverBlock'
  <2> HIDE DEF behind
  <2>1. Cardinality(buffer') \in Nat
    BY <1>8, FS_CardinalityType
  <2> QED BY <1>2, <1>7, <1>8, <1>9, <2>1, QueueAssumption, SMTT(30)
          DEF QueueCounted, SendsNeverBlock, HasRoom
<1>11. HeldIsAhead'
  <2> SUFFICES ASSUME NEW i \in buffer'
               PROVE  i.session = currentSessionId' /\ i.seq >= nextSeqNum'
    BY DEF HeldIsAhead
  <2>1. i \in buffer /\ i \in Kept(item) /\ i \notin behind
    BY <1>2, <1>4
  <2>2. ~Fresh(item) /\ currentSessionId' = currentSessionId /\ item.seq = nextSeqNum
    BY <2>1, <1>2, FlushIsWhole DEF EnsureSession, Expected
  <2>3. i.session = currentSessionId /\ i.seq >= nextSeqNum /\ i.seq \in Nat
    BY <2>1, ItemFacts DEF HeldIsAhead
  <2>4. i.seq # item.seq
    BY <2>1, <2>2, <2>3, <1>2 DEF InputsNumbered, Taken
  <2> QED BY <2>1, <2>2, <2>3, <2>4, <1>1, <1>2, <1>3
<1>12. HeldIsTimed'
  BY <1>2, <1>4, FlushIsWhole, FlushedTimers DEF HeldIsTimed
<1> QED BY <1>5, <1>6, <1>10, <1>11, <1>12

\* A held item finds a timer that runs, or starts one.
LEMMA EnsuredTimer ==
    ASSUME FieldsTyped, NEW item, EnsureTimer(item), \E t \in 1 .. MaxTimers : timers[t] = Free
    PROVE  /\ timers' \in [1 .. MaxTimers -> {Free, Fired} \cup 0 .. Timeout]
           /\ timer' \in 1 .. MaxTimers /\ timers'[timer'] # Free
<1>1. MaxTimers \in Nat /\ Timeout \in Nat
  BY QueueAssumption
<1>2. CASE TimerAfterFlush(item) # NoTimer
  BY <1>1, <1>2, FlushedTimers DEF EnsureTimer, NoTimer
<1>3. CASE TimerAfterFlush(item) = NoTimer
  <2> DEFINE t == CHOOSE u \in 1 .. MaxTimers : TimersAfterFlush(item)[u] = Free
  <2>1. t \in 1 .. MaxTimers
    BY FlushedTimers
  <2>2. timer' = t /\ timers' = [TimersAfterFlush(item) EXCEPT ![t] = Timeout]
    BY <1>3 DEF EnsureTimer
  <2> HIDE DEF t
  <2> QED BY <1>1, <2>1, <2>2, FlushedTimers DEF Free, Fired
<1> QED BY <1>2, <1>3

\* An input that comes early is held, and a timer runs.
LEMMA HoldStep ==
    ASSUME QueueInv, NEW item, Taken(item), Hold(item)
    PROVE  QueueInv'
<1> USE DEF QueueInv
<1> DEFINE new == [session |-> item.session, seq |-> item.seq, age |-> 0]
<1>1. item \in Items /\ item.seq \in 1 .. MaxSeq /\ item.seq \in Nat /\ item.session \in Sessions
  BY QueueAssumption DEF Taken, InputsNumbered, Items
<1>2. /\ EnsureSession(item) /\ HasRoom
      /\ item.session = currentSessionId' /\ item.seq > Expected(item)
      /\ outCh' = outCh \o Sorted(Flushed(item))
      /\ buffer' = Kept(item) \cup {new}
      /\ nextSeqNum' = Expected(item)
  BY DEF Hold
<1>3. /\ timers' \in [1 .. MaxTimers -> {Free, Fired} \cup 0 .. Timeout]
      /\ timer' \in 1 .. MaxTimers /\ timers'[timer'] # Free
  BY EnsuredTimer DEF Hold
<1>4. Kept(item) \subseteq buffer
  BY DEF Kept
<1>5. FieldsTyped'
  <2>1. new \in [session : Sessions, seq : 1 .. MaxSeq, age : 0 .. Timeout]
    BY <1>1, QueueAssumption
  <2>2. buffer' \subseteq [session : Sessions, seq : 1 .. MaxSeq, age : 0 .. Timeout]
    BY <1>2, <1>4, <2>1 DEF FieldsTyped
  <2>3. timer' \in 0 .. MaxTimers
    BY <1>3, QueueAssumption
  <2> QED BY <1>1, <1>2, <1>3, <2>2, <2>3, SessionTyped DEF FieldsTyped
<1>6. InputsNumbered'
  <2>1. sent' = sent /\ flying' \subseteq flying /\ item \in flying /\ item \notin flying'
    BY DEF Taken
  <2>2. \A f \in flying' : f.session = new.session => f.seq # new.seq
    <3>1. \A f \in flying : f = [session |-> f.session, seq |-> f.seq]
      BY DEF InputsNumbered, Items
    <3> QED BY <2>1, <3>1
  <2>3. \A f \in flying', i \in Kept(item) : f.session = i.session => f.seq # i.seq
    BY <1>4, <2>1 DEF InputsNumbered
  <2>4. \A i \in buffer' : i.seq <= sent'[i.session]
    BY <1>2, <1>4, <2>1 DEF InputsNumbered
  <2> QED BY <1>2, <2>1, <2>2, <2>3, <2>4 DEF InputsNumbered
<1>7. /\ IsFiniteSet(Flushed(item)) /\ IsFiniteSet(Kept(item))
      /\ Cardinality(Flushed(item)) \in Nat /\ Cardinality(Kept(item)) \in Nat
      /\ Cardinality(Flushed(item)) + Cardinality(Kept(item)) = Cardinality(buffer)
  <2>1. Cardinality(buffer) \in Nat /\ Cardinality({}) = 0 /\ IsFiniteSet({})
    BY FS_CardinalityType, FS_EmptySet DEF QueueCounted
  <2>2. CASE Flushed(item) = buffer /\ Kept(item) = {}
    BY <2>1, <2>2 DEF QueueCounted
  <2>3. CASE Flushed(item) = {} /\ Kept(item) = buffer
    BY <2>1, <2>3 DEF QueueCounted
  <2> QED BY <2>2, <2>3, FlushIsWhole
<1>8. IsFiniteSet(buffer') /\ Cardinality(buffer') <= Cardinality(Kept(item)) + 1
  <2> HIDE DEF new
  <2>1. /\ IsFiniteSet(Kept(item) \cup {new})
        /\ Cardinality(Kept(item) \cup {new})
             = IF new \in Kept(item) THEN Cardinality(Kept(item)) ELSE Cardinality(Kept(item)) + 1
    BY <1>7, FS_AddElement
  <2> QED BY <1>2, <1>7, <2>1
<1>9. IsSeq(outCh') /\ Len(outCh') = Len(outCh) + Cardinality(Flushed(item))
  BY <1>2, <1>7, SortedCounted, ConcatCounted DEF QueueCounted
<1>10. QueueCounted' /\ SendsNeverBlock'
  <2>1. Cardinality(buffer') \in Nat /\ Len(outCh) \in Nat
    BY <1>8, FS_CardinalityType, LenIsNat DEF QueueCounted
  <2> QED BY <1>2, <1>7, <1>8, <1>9, <2>1, QueueAssumption
          DEF QueueCounted, SendsNeverBlock, HasRoom
<1>11. HeldIsAhead'
  <2> SUFFICES ASSUME NEW i \in buffer'
               PROVE  i.session = currentSessionId' /\ i.seq >= nextSeqNum'
    BY DEF HeldIsAhead
  <2>1. Expected(item) \in Nat
    BY <1>1, <1>2, SessionTyped
  <2>2. CASE i = new
    BY <1>1, <1>2, <2>1, <2>2
  <2>3. CASE i \in Kept(item)
    <3>1. ~Fresh(item) /\ currentSessionId' = currentSessionId /\ Expected(item) = nextSeqNum
      BY <2>3, <1>2, FlushIsWhole DEF EnsureSession, Expected
    <3> QED BY <1>2, <1>4, <2>3, <3>1 DEF HeldIsAhead
  <2> QED BY <1>2, <2>2, <2>3
<1>12. HeldIsTimed'
  BY <1>3 DEF HeldIsTimed, FieldsTyped
<1> QED BY <1>5, <1>6, <1>10, <1>11, <1>12

\* Whatever the queue does with an input, the invariant stays.
LEMMA QueueItemStep == ASSUME QueueInv, JobInputCommand PROVE QueueInv'
<1>1. PICK item \in flying : QueueItem(item) /\ flying' = flying \ {item} /\ UNCHANGED <<sent, applied>>
  BY DEF JobInputCommand
<1>2. Taken(item)
  BY <1>1 DEF Taken
<1>3. CASE Refuse(item)
  BY <1>2, <1>3, NumbersKept
     DEF Refuse, queueVars, Taken, QueueInv, FieldsTyped, QueueCounted, SendsNeverBlock,
         HeldIsAhead, HeldIsTimed
<1> QED BY <1>1, <1>2, <1>3, PassLateStep, PassInOrderStep, HoldStep DEF QueueItem

-----------------------------------------------------------------------------
(* Time, the receiver, and the one who types. *)

\* What goes out before time passes is not held any more after it.
LEMMA AgedBuffer ==
    ASSUME FieldsTyped, IsFiniteSet(buffer), Tick
    PROVE  /\ IsFiniteSet(buffer') /\ Cardinality(buffer') <= Cardinality(buffer)
           /\ buffer' \subseteq [session : Sessions, seq : 1 .. MaxSeq, age : 0 .. Timeout]
           /\ \A i \in buffer' : \E j \in buffer : i.session = j.session /\ i.seq = j.seq
<1> DEFINE Aged == [i \in buffer |-> [i EXCEPT !.age = IF @ < Timeout THEN @ + 1 ELSE @]]
<1>1. buffer' = {Aged[i] : i \in buffer}
  BY DEF Tick
<1>2. Aged \in Surjection(buffer, buffer')
  BY <1>1 DEF Surjection
<1>3. IsFiniteSet(buffer') /\ Cardinality(buffer') <= Cardinality(buffer)
  BY <1>2, FS_Surjection
<1>4. \A j \in buffer :
        /\ Aged[j] \in [session : Sessions, seq : 1 .. MaxSeq, age : 0 .. Timeout]
        /\ Aged[j].session = j.session /\ Aged[j].seq = j.seq
  <2> SUFFICES ASSUME NEW j \in buffer
               PROVE  /\ Aged[j] \in [session : Sessions, seq : 1 .. MaxSeq, age : 0 .. Timeout]
                      /\ Aged[j].session = j.session /\ Aged[j].seq = j.seq
    OBVIOUS
  <2>1. j \in [session : Sessions, seq : 1 .. MaxSeq, age : 0 .. Timeout]
    BY DEF FieldsTyped
  <2>2. Aged[j] = [session |-> j.session, seq |-> j.seq,
                   age |-> IF j.age < Timeout THEN j.age + 1 ELSE j.age]
    BY <2>1
  <2>3. (IF j.age < Timeout THEN j.age + 1 ELSE j.age) \in 0 .. Timeout
    BY <2>1, QueueAssumption
  <2> QED BY <2>1, <2>2, <2>3
<1> HIDE DEF Aged
<1> QED BY <1>1, <1>3, <1>4

\* Time passes: held inputs grow older.
LEMMA TickStep ==
    ASSUME QueueInv, Tick, UNCHANGED <<sent, flying, applied>>
    PROVE  QueueInv'
<1> USE DEF QueueInv
<1>1. /\ IsFiniteSet(buffer') /\ Cardinality(buffer') <= Cardinality(buffer)
      /\ buffer' \subseteq [session : Sessions, seq : 1 .. MaxSeq, age : 0 .. Timeout]
      /\ \A i \in buffer' : \E j \in buffer : i.session = j.session /\ i.seq = j.seq
  BY AgedBuffer DEF QueueCounted
<1>2. MaxTimers \in Nat /\ Timeout \in Nat
  BY QueueAssumption
<1>3. /\ timers' \in [1 .. MaxTimers -> {Free, Fired} \cup 0 .. Timeout]
      /\ \A t \in 1 .. MaxTimers : timers'[t] = Free <=> timers[t] = Free
  BY <1>2 DEF Tick, FieldsTyped, Free, Fired
<1>4. FieldsTyped'
  BY <1>1, <1>2, <1>3 DEF Tick, FieldsTyped, NoTimer
<1>5. QueueCounted' /\ SendsNeverBlock'
  <2>1. Cardinality(buffer') \in Nat /\ Cardinality(buffer) \in Nat /\ Len(outCh) \in Nat
    BY <1>1, FS_CardinalityType, LenIsNat DEF QueueCounted
  <2> QED BY <1>1, <2>1, QueueAssumption DEF Tick, QueueCounted, SendsNeverBlock
<1>6. InputsNumbered'
  BY <1>1 DEF InputsNumbered
<1>7. HeldIsAhead'
  BY <1>1 DEF Tick, HeldIsAhead
<1>8. HeldIsTimed'
  BY <1>1, <1>3 DEF HeldIsTimed, FieldsTyped
<1> QED BY <1>4, <1>5, <1>6, <1>7, <1>8

\* The callback of a timer, perhaps a stale one, runs.
LEMMA TimerFiresStep ==
    ASSUME QueueInv, NEW t \in 1 .. MaxTimers, TimerFires(t), UNCHANGED <<sent, flying, applied>>
    PROVE  QueueInv'
<1> USE DEF QueueInv
<1>1. MaxTimers \in Nat /\ Timeout \in Nat
  BY QueueAssumption
<1>2. /\ timers' \in [1 .. MaxTimers -> {Free, Fired} \cup 0 .. Timeout]
      /\ \A u \in 1 .. MaxTimers : timers[u] # Free => timers'[u] # Free
  BY <1>1 DEF TimerFires, FieldsTyped, Free, Fired
<1>3. FieldsTyped' /\ HeldIsTimed'
  BY <1>1, <1>2 DEF TimerFires, FieldsTyped, HeldIsTimed, NoTimer
<1> QED BY <1>3 DEF TimerFires, QueueCounted, InputsNumbered, SendsNeverBlock, HeldIsAhead

\* Once it has fired a timer is free, or waits for the oldest of what stays.
LEMMA RearmedTimers ==
    ASSUME FieldsTyped, NEW t \in 1 .. MaxTimers, NEW held \in SUBSET buffer, Rearm(t, held)
    PROVE  /\ timers' \in [1 .. MaxTimers -> {Free, Fired} \cup 0 .. Timeout]
           /\ timer' \in 0 .. MaxTimers /\ (timer' # NoTimer => timers'[timer'] # Free)
           /\ held # {} => timers'[t] # Free
<1>1. MaxTimers \in Nat /\ Timeout \in Nat
  BY QueueAssumption
<1>2. CASE held = {}
  BY <1>1, <1>2 DEF Rearm, FieldsTyped, NoTimer, Free, Fired
<1>3. CASE held # {}
  <2>1. PICK oldest \in held : timers' = [timers EXCEPT ![t] = Timeout - oldest.age]
    BY <1>3 DEF Rearm
  <2>2. oldest.age \in 0 .. Timeout
    BY <2>1, ItemFacts
  <2>3. Timeout - oldest.age \in 0 .. Timeout
    BY <1>1, <2>2
  <2>4. timer' = t
    BY <1>3 DEF Rearm
  <2> QED BY <1>1, <2>1, <2>3, <2>4 DEF FieldsTyped, NoTimer, Free, Fired
<1> QED BY <1>2, <1>3

\* A time-out lets a front of the buffer go and moves the awaited number to its end.
LEMMA OnTimeoutStep ==
    ASSUME QueueInv, NEW t \in 1 .. MaxTimers, OnTimeout(t), UNCHANGED <<sent, flying, applied>>
    PROVE  QueueInv'
<1> USE DEF QueueInv
<1>1. TimedOut \subseteq buffer
  BY DEF TimedOut
<1>2. /\ outCh' = outCh \o Sorted(TimedOut) /\ buffer' = buffer \ TimedOut
      /\ Rearm(t, buffer') /\ sessionOrder' = sessionOrder /\ currentSessionId' = currentSessionId
  BY DEF OnTimeout
<1>3. \/ TimedOut = {} /\ nextSeqNum' = nextSeqNum
      \/ \E last \in TimedOut :
           /\ \A i \in TimedOut : i.seq <= last.seq
           /\ nextSeqNum' = IF last.seq >= nextSeqNum THEN last.seq + 1 ELSE nextSeqNum
  BY DEF OnTimeout
<1>4. nextSeqNum \in Nat /\ nextSeqNum' \in Nat
  BY <1>1, <1>3, ItemFacts DEF FieldsTyped
<1>5. FieldsTyped' /\ HeldIsTimed'
  <2>1. /\ timers' \in [1 .. MaxTimers -> {Free, Fired} \cup 0 .. Timeout]
        /\ timer' \in 0 .. MaxTimers /\ (timer' # NoTimer => timers'[timer'] # Free)
        /\ buffer' # {} => timers'[t] # Free
    BY <1>2, RearmedTimers
  <2> QED BY <1>2, <1>4, <2>1 DEF FieldsTyped, HeldIsTimed
<1>6. QueueCounted' /\ SendsNeverBlock'
  <2>1. /\ IsFiniteSet(TimedOut) /\ IsFiniteSet(buffer')
        /\ Cardinality(buffer) \in Nat /\ Cardinality(TimedOut) \in Nat
        /\ Cardinality(buffer') \in Nat
        /\ Cardinality(buffer') = Cardinality(buffer) - Cardinality(TimedOut)
    BY <1>1, <1>2, SplitCounted DEF QueueCounted
  <2>2. IsSeq(outCh') /\ Len(outCh') = Len(outCh) + Cardinality(TimedOut)
    BY <1>2, <2>1, SortedCounted, ConcatCounted DEF QueueCounted
  <2>3. Len(outCh) \in Nat
    BY LenIsNat DEF QueueCounted
  <2> QED BY <2>1, <2>2, <2>3, QueueAssumption DEF QueueCounted, SendsNeverBlock
<1>7. InputsNumbered'
  BY <1>2, NumbersKept
<1>8. HeldIsAhead'
  <2> SUFFICES ASSUME NEW i \in buffer'
               PROVE  i.session = currentSessionId' /\ i.seq >= nextSeqNum'
    BY DEF HeldIsAhead
  <2>1. i \in buffer /\ i \notin TimedOut
    BY <1>2
  <2>2. i.session = currentSessionId /\ i.seq >= nextSeqNum /\ i.seq \in Nat
    BY <2>1, ItemFacts DEF HeldIsAhead
  <2>3. \A last \in TimedOut : last.seq \in Nat /\ i.seq > last.seq
    <3> SUFFICES ASSUME NEW last \in TimedOut
                 PROVE  last.seq \in Nat /\ i.seq > last.seq
      OBVIOUS
    <3>1. PICK j \in buffer : j.age >= Timeout /\ last.seq <= j.seq
      BY DEF TimedOut
    <3>2. last.seq \in Nat /\ j.seq \in Nat
      BY <1>1, ItemFacts
    <3>3. ~(i.seq <= j.seq)
      BY <2>1, <3>1 DEF TimedOut
    <3> QED BY <2>2, <3>1, <3>2, <3>3
  <2> QED BY <1>2, <1>3, <1>4, <2>2, <2>3
<1> QED BY <1>5, <1>6, <1>7, <1>8

\* The reader of the channel takes an input.
LEMMA ReceiveStep == ASSUME QueueInv, ProcessInputQueue PROVE QueueInv'
<1> USE DEF QueueInv
<1>1. PICK S : outCh \in Seq(S)
  BY DEF QueueCounted, IsSeq
<1>2. outCh' \in Seq(S) /\ Len(outCh') = Len(outCh) - 1
  BY <1>1, HeadTailProperties DEF ProcessInputQueue, Receive
<1>3. Len(outCh) \in Nat /\ Cardinality(buffer) \in Nat
  BY LenIsNat, FS_CardinalityType DEF QueueCounted
<1>4. QueueCounted' /\ SendsNeverBlock'
  BY <1>2, <1>3, QueueAssumption
     DEF QueueCounted, IsSeq, SendsNeverBlock, ProcessInputQueue, Receive
<1>5. InputsNumbered'
  BY NumbersKept DEF ProcessInputQueue, Receive
<1> QED BY <1>4, <1>5 DEF ProcessInputQueue, Receive, FieldsTyped, HeldIsAhead, HeldIsTimed

\* A number that is given out is larger than every number given out before.
LEMMA SendInputStep == ASSUME QueueInv, NEW s \in Sessions, SendInput(s) PROVE QueueInv'
<1> USE DEF QueueInv
<1>1. /\ sent[s] \in Nat /\ sent[s] < MaxSeq /\ sent' = [sent EXCEPT ![s] = @ + 1]
      /\ flying' \in {flying, flying \cup {[session |-> s, seq |-> sent'[s]]}}
      /\ UNCHANGED queueVars
  BY DEF SendInput, InputsNumbered
<1> DEFINE new == [session |-> s, seq |-> sent[s] + 1]
<1>2. sent' \in [Sessions -> Nat] /\ sent'[s] = sent[s] + 1
  BY <1>1 DEF InputsNumbered
<1>3. \A u \in Sessions : sent[u] \in Nat /\ sent'[u] \in Nat /\ sent[u] <= sent'[u]
  BY <1>1, <1>2 DEF InputsNumbered
<1>4. new \in Items /\ flying' \subseteq flying \cup {new}
  BY <1>1, <1>2, QueueAssumption DEF Items
<1>5. \A f \in flying : f.session \in Sessions /\ f.seq \in Nat
  BY QueueAssumption DEF InputsNumbered, Items
<1>6. \A i \in buffer : i.session \in Sessions /\ i.seq \in Nat
  BY ItemFacts
<1>7. flying' \subseteq Items
  BY <1>4 DEF InputsNumbered
<1>8. \A f \in flying' : f.seq <= sent'[f.session]
  BY <1>2, <1>3, <1>4, <1>5 DEF InputsNumbered
<1>9. buffer' = buffer
  BY <1>1 DEF queueVars
<1>10. \A i \in buffer' : i.seq <= sent'[i.session]
  BY <1>3, <1>6, <1>9 DEF InputsNumbered
<1>11. \A f \in flying', i \in buffer' : f.session = i.session => f.seq # i.seq
  <2> SUFFICES ASSUME NEW f \in flying', NEW i \in buffer, f.session = i.session
               PROVE  f.seq # i.seq
    BY <1>9
  <2>1. CASE f \in flying
    BY <2>1 DEF InputsNumbered
  <2>2. CASE f = new
    BY <2>2, <1>1, <1>6 DEF InputsNumbered
  <2> QED BY <1>4, <2>1, <2>2
<1>12. InputsNumbered'
  BY <1>2, <1>7, <1>8, <1>10, <1>11 DEF InputsNumbered
<1> QED BY <1>1, <1>12
        DEF queueVars, FieldsTyped, QueueCounted, SendsNeverBlock, HeldIsAhead, HeldIsTimed

-----------------------------------------------------------------------------
(* The invariant, and the properties it is for. *)

\* At the start nothing is held, and no timer runs.
LEMMA InitHolds == InputInit => QueueInv
<1> SUFFICES ASSUME InputInit PROVE QueueInv
  OBVIOUS
<1> USE DEF InputInit, QueueInit
<1>1. MaxTimers \in Nat /\ Timeout \in Nat /\ Capacity \in Nat
  BY QueueAssumption
<1>2. Cardinality(buffer) = 0 /\ Len(outCh) = 0 /\ outCh \in Seq(Items)
  BY FS_EmptySet
<1>3. FieldsTyped
  BY <1>1 DEF FieldsTyped, NoTimer, Free, Fired
<1>4. QueueCounted /\ SendsNeverBlock
  BY <1>1, <1>2, FS_EmptySet DEF QueueCounted, IsSeq, SendsNeverBlock
<1>5. InputsNumbered /\ HeldIsAhead /\ HeldIsTimed
  BY DEF InputsNumbered, HeldIsAhead, HeldIsTimed
<1> QED BY <1>3, <1>4, <1>5 DEF QueueInv

\* No step leaves the invariant.
LEMMA StepHolds == QueueInv /\ [InputNext]_inputVars => QueueInv'
<1> SUFFICES ASSUME QueueInv, [InputNext]_inputVars PROVE QueueInv'
  OBVIOUS
<1>1. CASE \E s \in Sessions : SendInput(s)
  BY <1>1, SendInputStep
<1>2. CASE JobInputCommand
  BY <1>2, QueueItemStep
<1>3. CASE ProcessInputQueue
  BY <1>3, ReceiveStep
<1>4. CASE QueueTurn
  BY <1>4, TickStep, TimerFiresStep, OnTimeoutStep DEF QueueTurn
<1>5. CASE UNCHANGED inputVars
  BY <1>5 DEF inputVars, queueVars, QueueInv, FieldsTyped, QueueCounted, InputsNumbered,
              SendsNeverBlock, HeldIsAhead, HeldIsTimed
<1> QED BY <1>1, <1>2, <1>3, <1>4, <1>5 DEF InputNext

\* The invariant of typed input holds always, whatever is lost, reordered or late.
THEOREM QueueInvariant == InputSpec => []QueueInv
<1> QED BY InitHolds, StepHolds, PTL DEF InputSpec

\* QueueItem, a flush and a time-out never block on outCh while they hold the queue's lock.
THEOREM NeverBlocks == InputSpec => []SendsNeverBlock
<1>1. QueueInv => SendsNeverBlock
  BY DEF QueueInv
<1> QED BY <1>1, QueueInvariant, PTL

\* No held input is stranded behind the awaited number or in an old session.
THEOREM HeldStaysAhead == InputSpec => []HeldIsAhead
<1>1. QueueInv => HeldIsAhead
  BY DEF QueueInv
<1> QED BY <1>1, QueueInvariant, PTL

\* No input is held without a timer that will come back for it.
THEOREM HeldStaysTimed == InputSpec => []HeldIsTimed
<1>1. QueueInv => HeldIsTimed
  BY DEF QueueInv
<1> QED BY <1>1, QueueInvariant, PTL

-----------------------------------------------------------------------------
(* The order in which inputs leave the queue. *)

\* Of the items held no two have the same number, and the session they are of has been
\* seen, so that another one that is new cannot be it.
HeldDistinct == \A i, j \in buffer : i.seq = j.seq => i = j
CurrentSeen == currentSessionId # NoSession => sessionOrder[currentSessionId] # 0

\* What the order of the inputs rests on.
OrderInv == QueueInv /\ IsSeq(applied) /\ HeldDistinct /\ CurrentSeen

\* The items of a sequence, and that those of a session are in the order of their numbers.
Elems(u) == {u[k] : k \in 1 .. Len(u)}
InOrder(u) ==
    \A k \in 1 .. Len(u) : \A l \in 1 .. k - 1 :
        u[l].session = u[k].session => u[l].seq < u[k].seq

\* An item as it goes out.
Plain(i) == [session |-> i.session, seq |-> i.seq]

\* The number of the items before an item is its place among them: no two have the same,
\* and every place is taken.
LEMMA Places ==
    ASSUME NEW items, IsFiniteSet(items),
           \A i \in items : i.seq \in Nat,
           \A i, j \in items : i.seq = j.seq => i = j
    PROVE  /\ Cardinality(items) \in Nat
           /\ \A i \in items : Cardinality({j \in items : j.seq < i.seq})
                                 \in 0 .. Cardinality(items) - 1
           /\ \A i, j \in items : i.seq < j.seq =>
                 Cardinality({k \in items : k.seq < i.seq})
                   < Cardinality({k \in items : k.seq < j.seq})
           /\ \A k \in 1 .. Cardinality(items) : \E i \in items :
                 Cardinality({j \in items : j.seq < i.seq}) = k - 1
<1> DEFINE Lower(i) == {j \in items : j.seq < i.seq}
           n == Cardinality(items)
           Place == [i \in items |-> Cardinality(Lower(i))]
<1>1. n \in Nat
  BY FS_CardinalityType
<1>2. \A i \in items : IsFiniteSet(Lower(i)) /\ Cardinality(Lower(i)) \in Nat
  <2> TAKE i \in items
  <2>1. Lower(i) \in SUBSET items
    OBVIOUS
  <2>2. IsFiniteSet(Lower(i))
    BY <2>1, FS_Subset
  <2> QED BY <2>2, FS_CardinalityType
<1>3. \A i \in items : Cardinality(Lower(i)) \in 0 .. n - 1
  <2> TAKE i \in items
  <2>1. Lower(i) \in SUBSET items /\ i \notin Lower(i)
    OBVIOUS
  <2> HIDE DEF Lower
  <2>2. Cardinality(Lower(i)) <= n /\ Cardinality(Lower(i)) # n
    BY <2>1, FS_Subset
  <2> HIDE DEF n
  <2> QED BY <1>1, <1>2, <2>2
<1>4. \A i, j \in items : i.seq < j.seq => Cardinality(Lower(i)) < Cardinality(Lower(j))
  <2> TAKE i, j \in items
  <2> HAVE i.seq < j.seq
  <2>1. Lower(i) \in SUBSET Lower(j) /\ i \in Lower(j) /\ i \notin Lower(i)
    OBVIOUS
  <2> HIDE DEF Lower
  <2>2. IsFiniteSet(Lower(j)) /\ Cardinality(Lower(i)) \in Nat /\ Cardinality(Lower(j)) \in Nat
    BY <1>2
  <2>3. /\ Cardinality(Lower(i)) <= Cardinality(Lower(j))
        /\ Cardinality(Lower(i)) # Cardinality(Lower(j))
    BY <2>1, <2>2, FS_Subset
  <2> QED BY <2>2, <2>3
<1>5. Place \in Injection(items, 0 .. n - 1)
  <2>1. Place \in [items -> 0 .. n - 1]
    <3> HIDE DEF Lower, n
    <3> QED BY <1>3
  <2>2. \A a, b \in items : Place[a] = Place[b] => a = b
    <3> TAKE a, b \in items
    <3> HAVE Place[a] = Place[b]
    <3>1. Cardinality(Lower(a)) = Cardinality(Lower(b))
      OBVIOUS
    <3> HIDE DEF Place, Lower, n
    <3>2. ~(a.seq < b.seq) /\ ~(b.seq < a.seq)
      BY <1>2, <1>4, <3>1
    <3> QED BY <3>2
  <2> HIDE DEF Place
  <2> QED BY <2>1, <2>2 DEF Injection, IsInjective
<1>6. Cardinality(0 .. n - 1) = n /\ IsFiniteSet(0 .. n - 1)
  <2> HIDE DEF n
  <2>1. 0 \in Int /\ n - 1 \in Int
    BY <1>1
  <2>2. /\ IsFiniteSet(0 .. n - 1)
        /\ Cardinality(0 .. n - 1) = IF 0 > n - 1 THEN 0 ELSE (n - 1) - 0 + 1
    BY <2>1, FS_Interval
  <2> QED BY <1>1, <2>2
<1>7. Place \in Surjection(items, 0 .. n - 1)
  <2> HIDE DEF Place
  <2> QED BY <1>5, <1>6, FS_Injection
<1>8. \A k \in 1 .. n : \E i \in items : Cardinality(Lower(i)) = k - 1
  <2> TAKE k \in 1 .. n
  <2>1. k - 1 \in 0 .. n - 1
    <3> HIDE DEF n
    <3> QED BY <1>1
  <2>2. \E i \in items : Place[i] = k - 1
    <3> HIDE DEF Place
    <3> QED BY <1>7, <2>1 DEF Surjection
  <2> QED BY <2>2
<1> QED BY <1>1, <1>3, <1>4, <1>8

\* What goes out of a set of items is each of them once, in the order of their numbers.
LEMMA SortedItems ==
    ASSUME NEW items, IsFiniteSet(items),
           \A i \in items : i.seq \in Nat,
           \A i, j \in items : i.seq = j.seq => i = j
    PROVE  /\ IsSeq(Sorted(items)) /\ InOrder(Sorted(items))
           /\ Elems(Sorted(items)) = {Plain(i) : i \in items}
<1> DEFINE n == Cardinality(items)
           Lower(i) == {j \in items : j.seq < i.seq}
           At(k) == CHOOSE i \in items : Cardinality(Lower(i)) = k - 1
           t == Sorted(items)
<1>1. /\ n \in Nat
      /\ \A i \in items : Cardinality(Lower(i)) \in 0 .. n - 1
      /\ \A i, j \in items : i.seq < j.seq => Cardinality(Lower(i)) < Cardinality(Lower(j))
      /\ \A k \in 1 .. n : \E i \in items : Cardinality(Lower(i)) = k - 1
  BY Places
<1>2. IsSeq(t) /\ Len(t) = n
  BY SortedCounted
<1>3. \A k \in 1 .. n : t[k] = Plain(At(k))
  BY DEF Sorted, Plain
<1>4. \A k \in 1 .. n : At(k) \in items /\ Cardinality(Lower(At(k))) = k - 1
  <2> TAKE k \in 1 .. n
  <2>1. \E i \in items : Cardinality(Lower(i)) = k - 1
    BY <1>1
  <2> HIDE DEF Lower
  <2> QED BY <2>1
<1> HIDE DEF n, Lower, At, t
<1>5. InOrder(t)
  <2> SUFFICES ASSUME NEW k \in 1 .. n, NEW l \in 1 .. k - 1
               PROVE  t[l].seq < t[k].seq
    BY <1>2 DEF InOrder
  <2>1. l \in 1 .. n /\ l < k /\ l \in Int /\ k \in Int
    BY <1>1
  <2>2. /\ At(l) \in items /\ Cardinality(Lower(At(l))) = l - 1
        /\ At(k) \in items /\ Cardinality(Lower(At(k))) = k - 1
    BY <1>4, <2>1
  <2>3. At(l).seq \in Nat /\ At(k).seq \in Nat
    BY <2>2
  <2>4. At(l).seq # At(k).seq
    BY <2>1, <2>2
  <2>5. ~(At(k).seq < At(l).seq)
    <3>1. SUFFICES ASSUME At(k).seq < At(l).seq PROVE FALSE
      OBVIOUS
    <3>2. Cardinality(Lower(At(k))) < Cardinality(Lower(At(l)))
      BY <1>1, <2>2, <3>1
    <3> QED BY <2>1, <2>2, <3>2
  <2>6. At(l).seq < At(k).seq
    BY <2>3, <2>4, <2>5
  <2>7. t[l] = Plain(At(l)) /\ t[k] = Plain(At(k))
    BY <1>3, <2>1
  <2> QED BY <2>6, <2>7 DEF Plain
<1>6. Elems(t) = {Plain(i) : i \in items}
  <2>1. \A k \in 1 .. n : t[k] \in {Plain(i) : i \in items}
    BY <1>3, <1>4
  <2>2. \A i \in items : \E k \in 1 .. n : t[k] = Plain(i)
    <3> TAKE i \in items
    <3> DEFINE k == Cardinality(Lower(i)) + 1
    <3>1. Cardinality(Lower(i)) \in 0 .. n - 1
      BY <1>1
    <3>2. k \in 1 .. n /\ Cardinality(Lower(i)) = k - 1
      BY <1>1, <3>1
    <3> HIDE DEF k
    <3>3. At(k) \in items /\ Cardinality(Lower(At(k))) = Cardinality(Lower(i))
      BY <1>4, <3>2
    <3>4. ~(At(k).seq < i.seq) /\ ~(i.seq < At(k).seq)
      <4>1. ASSUME At(k).seq < i.seq PROVE FALSE
        <5>1. Cardinality(Lower(At(k))) < Cardinality(Lower(i))
          BY <1>1, <3>3, <4>1
        <5> QED BY <3>1, <3>3, <5>1
      <4>2. ASSUME i.seq < At(k).seq PROVE FALSE
        <5>1. Cardinality(Lower(i)) < Cardinality(Lower(At(k)))
          BY <1>1, <3>3, <4>2
        <5> QED BY <3>1, <3>3, <5>1
      <4> QED BY <4>1, <4>2
    <3>5. At(k).seq = i.seq
      BY <3>3, <3>4
    <3>6. At(k) = i
      BY <3>3, <3>5
    <3> QED BY <1>3, <3>2, <3>6
  <2> QED BY <1>2, <2>1, <2>2 DEF Elems
<1> QED BY <1>2, <1>5, <1>6 DEF t

\* One item is in order.
LEMMA SingleOrder ==
    ASSUME NEW x
    PROVE  IsSeq(<<x>>) /\ InOrder(<<x>>) /\ Elems(<<x>>) = {x}
<1>1. Len(<<x>>) = 1 /\ <<x>>[1] = x
  OBVIOUS
<1>2. InOrder(<<x>>)
  BY <1>1 DEF InOrder
<1> QED BY <1>1, <1>2, SingleCounted DEF Elems

\* Two sequences in a row are in order, if what the second has of a session comes after
\* what the first has of it.
LEMMA ConcatOrder ==
    ASSUME NEW a, NEW b, IsSeq(a), IsSeq(b), InOrder(a), InOrder(b),
           \A x \in Elems(a) : \A y \in Elems(b) : x.session = y.session => x.seq < y.seq,
           NEW u, u = a \o b
    PROVE  /\ IsSeq(u) /\ Len(u) = Len(a) + Len(b)
           /\ InOrder(u) /\ Elems(u) = Elems(a) \cup Elems(b)
           /\ \A k \in 1 .. Len(a) : u[k] = a[k]
           /\ \A k \in 1 .. Len(b) : u[Len(a) + k] = b[k]
<1>1. PICK S : a \in Seq(S)
  BY DEF IsSeq
<1>2. PICK T : b \in Seq(T)
  BY DEF IsSeq
<1>3. a \in Seq(S \cup T) /\ b \in Seq(S \cup T)
  BY <1>1, <1>2, SeqMonotonic
<1>4. /\ IsSeq(u) /\ Len(u) = Len(a) + Len(b) /\ Len(a) \in Nat /\ Len(b) \in Nat
      /\ \A i \in 1 .. Len(a) + Len(b) : u[i] = IF i <= Len(a) THEN a[i] ELSE b[i - Len(a)]
  <2>1. /\ a \o b \in Seq(S \cup T) /\ Len(a \o b) = Len(a) + Len(b)
        /\ \A i \in 1 .. Len(a) + Len(b) :
              (a \o b)[i] = IF i <= Len(a) THEN a[i] ELSE b[i - Len(a)]
    BY <1>3, ConcatProperties
  <2> QED BY <1>3, <2>1, LenProperties DEF IsSeq
<1> DEFINE m == Len(a)
           n == Len(b)
<1>5. m \in Nat /\ n \in Nat /\ Len(u) = m + n
  BY <1>4
<1>6. \A i \in 1 .. m + n : u[i] = IF i <= m THEN a[i] ELSE b[i - m]
  BY <1>4
<1>7. /\ \A i \in 1 .. m : a[i] \in Elems(a)
      /\ \A i \in 1 .. n : b[i] \in Elems(b)
  BY DEF Elems
<1> HIDE DEF m, n
<1>8. \A i \in 1 .. m : u[i] = a[i]
  BY <1>5, <1>6
<1>9. \A i \in 1 .. n : u[m + i] = b[i]
  <2> TAKE i \in 1 .. n
  <2> DEFINE w == m + i
  <2>1. w \in 1 .. m + n /\ ~(w <= m) /\ w - m = i
    BY <1>5
  <2> HIDE DEF w
  <2>2. u[w] = b[i]
    BY <1>6, <2>1
  <2> QED BY <2>2 DEF w
<1>10. InOrder(u)
  <2> SUFFICES ASSUME NEW k \in 1 .. m + n, NEW l \in 1 .. k - 1, u[l].session = u[k].session
               PROVE  u[l].seq < u[k].seq
    BY <1>5 DEF InOrder
  <2>1. l \in 1 .. m + n /\ k \in Int /\ l \in Int
    BY <1>5
  <2>2. CASE k <= m
    <3>1. k \in 1 .. m /\ l \in 1 .. m
      BY <1>5, <2>1, <2>2
    <3> QED BY <1>8, <3>1 DEF InOrder, m
  <2>3. CASE l > m
    <3> DEFINE v == k - m
               w == l - m
    <3>1. v \in 1 .. n /\ w \in 1 .. v - 1 /\ ~(k <= m) /\ ~(l <= m)
      BY <1>5, <2>1, <2>3
    <3>2. u[k] = b[v] /\ u[l] = b[w]
      BY <1>6, <2>1, <3>1
    <3> HIDE DEF v, w
    <3> QED BY <3>1, <3>2 DEF InOrder, n
  <2>4. CASE ~(k <= m) /\ l <= m
    <3> DEFINE v == k - m
    <3>1. v \in 1 .. n /\ l \in 1 .. m
      BY <1>5, <2>1, <2>4
    <3>2. u[k] = b[v] /\ u[l] = a[l]
      BY <1>6, <2>1, <2>4
    <3> HIDE DEF v
    <3> QED BY <1>7, <3>1, <3>2
  <2> QED BY <1>5, <2>1, <2>2, <2>3, <2>4
<1>11. Elems(u) = Elems(a) \cup Elems(b)
  <2>1. \A k \in 1 .. m + n : u[k] \in Elems(a) \cup Elems(b)
    <3> TAKE k \in 1 .. m + n
    <3>1. CASE k <= m
      BY <1>5, <1>7, <1>8, <3>1
    <3>2. CASE ~(k <= m)
      <4> DEFINE v == k - m
      <4>1. v \in 1 .. n /\ u[k] = b[v]
        BY <1>5, <1>6, <3>2
      <4> HIDE DEF v
      <4> QED BY <1>7, <4>1
    <3> QED BY <3>1, <3>2
  <2>2. \A i \in 1 .. m : i \in 1 .. m + n
    BY <1>5
  <2>3. \A i \in 1 .. n : m + i \in 1 .. m + n
    BY <1>5
  <2>4. \A x \in Elems(a) : x \in Elems(u)
    BY <1>5, <1>8, <2>2 DEF Elems, m
  <2>5. \A x \in Elems(b) : x \in Elems(u)
    <3> TAKE x \in Elems(b)
    <3>1. PICK i \in 1 .. n : x = b[i]
      BY DEF Elems, n
    <3> DEFINE w == m + i
    <3>2. w \in 1 .. m + n /\ u[w] = x
      BY <1>9, <2>3, <3>1
    <3> HIDE DEF w
    <3> QED BY <1>5, <3>2 DEF Elems
  <2> QED BY <1>5, <2>1, <2>4, <2>5 DEF Elems
<1> QED BY <1>4, <1>8, <1>9, <1>10, <1>11 DEF m, n


\* Nothing of a session is left behind that comes before one of its items that goes out.
LeavesLater(u, held) ==
    \A x \in Elems(u) : \A h \in held : h.session = x.session => h.seq > x.seq

\* What goes out, in which order, and what is left behind.
GoesOut(u) ==
    /\ IsSeq(u) /\ InOrder(u) /\ LeavesLater(u, buffer')
    /\ outCh' = outCh \o u /\ UNCHANGED applied

\* The sequence that goes out is the end of what has left the queue.
LEMMA EmittedGrows ==
    ASSUME IsSeq(applied), IsSeq(outCh), NEW u, IsSeq(u), outCh' = outCh \o u, UNCHANGED applied
    PROVE  /\ Len(Emitted) \in Nat /\ Len(u) \in Nat
           /\ Len(Emitted') = Len(Emitted) + Len(u)
           /\ \A k \in 1 .. Len(u) : Emitted'[Len(Emitted) + k] = u[k]
<1>1. PICK A : applied \in Seq(A)
  BY DEF IsSeq
<1>2. PICK B : outCh \in Seq(B)
  BY DEF IsSeq
<1>3. PICK C : u \in Seq(C)
  BY DEF IsSeq
<1> DEFINE S == A \cup B \cup C
<1>4. applied \in Seq(S) /\ outCh \in Seq(S) /\ u \in Seq(S)
  BY <1>1, <1>2, <1>3, SeqMonotonic
<1> HIDE DEF S
<1>5. applied \o outCh \in Seq(S) /\ Len(applied \o outCh) = Len(applied) + Len(outCh)
  BY <1>4, ConcatProperties
<1>6. Emitted' = applied \o (outCh \o u)
  BY DEF Emitted
<1>7. Emitted' = (applied \o outCh) \o u
  BY <1>4, <1>6, ConcatAssociative
<1> DEFINE e == applied \o outCh
           m == Len(e)
           n == Len(u)
<1>8. /\ m \in Nat /\ n \in Nat /\ Len(e \o u) = m + n
      /\ \A i \in 1 .. m + n : (e \o u)[i] = IF i <= m THEN e[i] ELSE u[i - m]
  BY <1>4, <1>5, ConcatProperties, LenProperties
<1> HIDE DEF e, m, n
<1>9. \A k \in 1 .. n : (e \o u)[m + k] = u[k]
  <2> TAKE k \in 1 .. n
  <2> DEFINE w == m + k
  <2>1. w \in 1 .. m + n /\ ~(w <= m) /\ w - m = k
    BY <1>8
  <2> HIDE DEF w
  <2>2. (e \o u)[w] = u[k]
    BY <1>8, <2>1
  <2> QED BY <2>2 DEF w
<1>10. Emitted = e /\ Emitted' = e \o u /\ Len(Emitted) = m
  BY <1>7 DEF e, m, Emitted
<1> QED BY <1>8, <1>9, <1>10 DEF n

\* What goes out in order, and leaves nothing behind that comes before it, overtakes nothing.
LEMMA OutInOrder ==
    ASSUME IsSeq(applied), IsSeq(outCh), NEW u, GoesOut(u)
    PROVE  /\ \A i \in Len(Emitted) + 1 .. Len(Emitted') :
                 LET item == Emitted'[i] IN
                 /\ \A held \in buffer' : held.session = item.session => held.seq > item.seq
                 /\ \A j \in Len(Emitted) + 1 .. i - 1 :
                       Emitted'[j].session = item.session => Emitted'[j].seq < item.seq
           /\ \A x \in Elems(u) : \E i \in Len(Emitted) + 1 .. Len(Emitted') : Emitted'[i] = x
<1> DEFINE m == Len(Emitted)
           n == Len(u)
           e == Emitted'
           M == Len(e)
<1>1. /\ m \in Nat /\ n \in Nat /\ M = m + n
      /\ \A k \in 1 .. n : e[m + k] = u[k]
  BY EmittedGrows DEF GoesOut
<1> HIDE DEF m, n, e, M
<1>2. ASSUME NEW i \in m + 1 .. M
      PROVE  i - m \in 1 .. n /\ e[i] = u[i - m]
  <2> DEFINE k == i - m
  <2>1. k \in 1 .. n /\ m + k = i
    BY <1>1
  <2> HIDE DEF k
  <2>2. e[i] = u[k]
    BY <1>1, <2>1
  <2> QED BY <2>1, <2>2 DEF k
<1>3. ASSUME NEW i \in m + 1 .. M, NEW held \in buffer', held.session = e[i].session
      PROVE  held.seq > e[i].seq
  <2>1. e[i] \in Elems(u)
    BY <1>2 DEF Elems, n
  <2> QED BY <1>3, <2>1 DEF GoesOut, LeavesLater
<1>4. ASSUME NEW i \in m + 1 .. M, NEW j \in m + 1 .. i - 1, e[j].session = e[i].session
      PROVE  e[j].seq < e[i].seq
  <2> DEFINE k == i - m
             l == j - m
  <2>1. j \in m + 1 .. M
    BY <1>1
  <2>2. k \in 1 .. n /\ e[i] = u[k] /\ e[j] = u[l]
    BY <1>2, <2>1
  <2>3. l \in 1 .. k - 1
    BY <1>1
  <2> HIDE DEF k, l
  <2> QED BY <1>4, <2>2, <2>3 DEF GoesOut, InOrder, n
<1>5. ASSUME NEW x \in Elems(u)
      PROVE  \E i \in m + 1 .. M : e[i] = x
  <2>1. PICK k \in 1 .. n : x = u[k]
    BY DEF Elems, n
  <2> DEFINE i == m + k
  <2>2. i \in m + 1 .. M /\ e[i] = x
    BY <1>1, <2>1
  <2> HIDE DEF i
  <2> QED BY <2>2
<1> QED BY <1>3, <1>4, <1>5 DEF m, M, e

\* An input that is taken off the wire.
LEMMA TakenFacts ==
    ASSUME QueueInv, NEW item \in flying
    PROVE  /\ item = Plain(item) /\ item \in Items /\ item.session \in Sessions
           /\ item.seq \in Nat /\ item.session # NoSession
BY QueueAssumption DEF QueueInv, InputsNumbered, Items, Plain, NoSession, Sessions

\* The buffer, or a part of it, as it goes out.
LEMMA PartSorted ==
    ASSUME OrderInv, NEW part, part \subseteq buffer
    PROVE  /\ IsSeq(Sorted(part)) /\ InOrder(Sorted(part))
           /\ Elems(Sorted(part)) = {Plain(i) : i \in part}
           /\ \A x \in Elems(Sorted(part)) : \E i \in part :
                 /\ x = Plain(i) /\ x.session = currentSessionId
                 /\ x.seq = i.seq /\ x.seq \in Nat /\ x.seq >= nextSeqNum
<1>1. IsFiniteSet(part)
  BY FS_Subset DEF OrderInv, QueueInv, QueueCounted
<1>2. \A i \in part : i.seq \in Nat /\ i.session = currentSessionId /\ i.seq >= nextSeqNum
  BY ItemFacts DEF OrderInv, QueueInv, HeldIsAhead
<1>3. \A i, j \in part : i.seq = j.seq => i = j
  BY DEF OrderInv, HeldDistinct
<1>4. /\ IsSeq(Sorted(part)) /\ InOrder(Sorted(part))
      /\ Elems(Sorted(part)) = {Plain(i) : i \in part}
  BY <1>1, <1>2, <1>3, SortedItems
<1> QED BY <1>2, <1>4 DEF Plain

\* A late input goes out alone: what is held is of a later session, or comes after it.
LEMMA PassLateOrder ==
    ASSUME OrderInv, NEW item \in flying, PassLate(item), UNCHANGED applied
    PROVE  GoesOut(<<item>>)
<1>1. PICK S : outCh \in Seq(S)
  BY DEF OrderInv, QueueInv, QueueCounted, IsSeq
<1>2. outCh' = outCh \o <<item>>
  <2>1. outCh \in Seq(S \cup {item})
    BY <1>1, SeqMonotonic
  <2> QED BY <2>1, AppendIsConcat DEF PassLate
<1>3. LeavesLater(<<item>>, buffer')
  <2> SUFFICES ASSUME NEW h \in buffer, h.session = item.session
               PROVE  h.seq > item.seq
    BY SingleOrder DEF LeavesLater, PassLate
  <2>1. h.session = currentSessionId /\ h.seq >= nextSeqNum /\ h.seq \in Nat
    BY ItemFacts DEF OrderInv, QueueInv, HeldIsAhead
  <2>2. nextSeqNum \in Nat /\ item.seq \in Nat /\ item.session \in Sessions
        /\ sessionOrder[item.session] \in Nat
    BY TakenFacts DEF OrderInv, QueueInv, FieldsTyped
  <2>3. item.seq < nextSeqNum
    BY <2>1, <2>2 DEF PassLate
  <2> QED BY <2>1, <2>2, <2>3
<1> QED BY <1>2, <1>3, SingleOrder DEF GoesOut

\* What a new session flushes is not its own.
LEMMA FlushIsForeign ==
    ASSUME OrderInv, NEW item \in flying, Fresh(item)
    PROVE  currentSessionId # item.session
BY TakenFacts DEF OrderInv, CurrentSeen, Fresh

\* A number of a range is its first or one of the rest.
LEMMA RangeParts ==
    ASSUME NEW a \in Int, NEW b \in Int, NEW n \in a .. b - 1
    PROVE  /\ n \in Int /\ n >= a /\ n < b
           /\ n # a => n \in a + 1 .. b - 1 /\ n > a
OBVIOUS

\* The awaited input goes out after what a new session flushes and before those held behind it.
LEMMA PassInOrderOrder ==
    ASSUME OrderInv, NEW item \in flying, PassInOrder(item), UNCHANGED applied
    PROVE  \E u : /\ GoesOut(u)
                  /\ \A n \in nextSeqNum .. nextSeqNum' - 1 :
                        \/ currentSessionId' # currentSessionId
                        \/ [session |-> currentSessionId, seq |-> n] \in Elems(u)
<1> DEFINE behind == {i \in Kept(item) : item.seq < i.seq /\ i.seq < nextSeqNum'}
           F == Flushed(item)
<1>1. /\ EnsureSession(item)
      /\ item.session = currentSessionId' /\ item.seq = Expected(item)
      /\ nextSeqNum' \in item.seq + 1 .. MaxSeq + 1
      /\ FirstMissing(Kept(item), item.seq + 1, nextSeqNum')
      /\ outCh' = outCh \o Sorted(F) \o <<item>> \o Sorted(behind)
      /\ buffer' = Kept(item) \ behind
  BY DEF PassInOrder
<1>2. behind \subseteq buffer /\ F \subseteq buffer
  BY DEF Kept, Flushed
<1>3. /\ item = Plain(item) /\ item.session \in Sessions /\ item.seq \in Nat
      /\ nextSeqNum \in Nat /\ nextSeqNum' \in Int
  BY <1>1, TakenFacts, QueueAssumption DEF OrderInv, QueueInv, FieldsTyped
<1>4. \A x \in Elems(Sorted(behind)) :
        /\ x.session = currentSessionId /\ x.seq \in Nat
        /\ item.seq < x.seq /\ x.seq < nextSeqNum'
  BY <1>2, PartSorted
<1>5. \A x \in Elems(Sorted(F)) : x.session = currentSessionId /\ x.session # item.session
  <2>1. CASE Fresh(item)
    BY <1>2, <2>1, PartSorted, FlushIsForeign
  <2>2. CASE ~Fresh(item)
    BY <1>2, <2>2, PartSorted, FlushIsWhole
  <2> QED BY <2>1, <2>2
<1>6. \A h \in buffer' : /\ h \in buffer /\ currentSessionId' = currentSessionId
                         /\ h.session = item.session /\ h.seq \in Nat
                         /\ h.seq > item.seq /\ h.seq >= nextSeqNum'
  <2> TAKE h \in buffer'
  <2>1. h \in buffer /\ h \in Kept(item) /\ h \notin behind
    BY <1>1 DEF Kept
  <2>2. ~Fresh(item) /\ currentSessionId' = currentSessionId /\ item.seq = nextSeqNum
    BY <1>1, <2>1, FlushIsWhole DEF EnsureSession, Expected
  <2>3. h.session = currentSessionId /\ h.seq >= nextSeqNum /\ h.seq \in Nat
    BY <2>1, ItemFacts DEF OrderInv, QueueInv, HeldIsAhead
  <2>4. h.seq # item.seq
    BY <1>1, <2>1, <2>2, <2>3 DEF OrderInv, QueueInv, InputsNumbered
  <2> QED BY <1>1, <1>3, <2>1, <2>2, <2>3, <2>4
<1> DEFINE a == Sorted(F) \o <<item>>
           u == a \o Sorted(behind)
<1>7. /\ IsSeq(Sorted(F)) /\ InOrder(Sorted(F))
      /\ IsSeq(Sorted(behind)) /\ InOrder(Sorted(behind))
  BY <1>2, PartSorted
<1>8. IsSeq(<<item>>) /\ InOrder(<<item>>) /\ Elems(<<item>>) = {item}
  BY SingleOrder
<1> HIDE DEF behind, F
<1>9. IsSeq(a) /\ InOrder(a) /\ Elems(a) = Elems(Sorted(F)) \cup {item}
  <2>1. \A x \in Elems(Sorted(F)) : \A y \in Elems(<<item>>) :
          x.session = y.session => x.seq < y.seq
    BY <1>5, <1>8
  <2> DEFINE front == Sorted(F)
             one == <<item>>
  <2>2. /\ IsSeq(front) /\ InOrder(front) /\ IsSeq(one) /\ InOrder(one) /\ a = front \o one
        /\ \A x \in Elems(front) : \A y \in Elems(one) : x.session = y.session => x.seq < y.seq
    BY <1>7, <1>8, <2>1
  <2> HIDE DEF a, front, one
  <2>3. IsSeq(a) /\ InOrder(a) /\ Elems(a) = Elems(front) \cup Elems(one)
    BY <2>2, ConcatOrder
  <2> QED BY <1>8, <2>3 DEF front, one
<1>10. ~Fresh(item) \/ behind = {}
  BY FlushIsWhole DEF behind
<1>11. Elems(Sorted({})) = {}
  BY PartSorted
<1>12. /\ IsSeq(u) /\ InOrder(u)
       /\ Elems(u) = Elems(Sorted(F)) \cup {item} \cup Elems(Sorted(behind))
  <2>1. \A x \in Elems(a) : \A y \in Elems(Sorted(behind)) :
          x.session = y.session => x.seq < y.seq
    <3>1. CASE Fresh(item)
      BY <1>10, <1>11, <3>1
    <3>2. CASE ~Fresh(item)
      <4>1. Elems(Sorted(F)) = {}
        BY <1>11, <3>2, FlushIsWhole DEF F
      <4> QED BY <1>4, <1>9, <4>1
    <3> QED BY <3>1, <3>2
  <2> HIDE DEF a
  <2>2. IsSeq(u) /\ InOrder(u) /\ Elems(u) = Elems(a) \cup Elems(Sorted(behind))
    BY <1>7, <1>9, <2>1, ConcatOrder
  <2> QED BY <1>9, <2>2
<1>13. outCh' = outCh \o u
  <2>1. PICK S : outCh \in Seq(S)
    BY DEF OrderInv, QueueInv, QueueCounted, IsSeq
  <2>2. PICK T : Sorted(F) \in Seq(T)
    BY <1>7 DEF IsSeq
  <2>3. PICK V : Sorted(behind) \in Seq(V)
    BY <1>7 DEF IsSeq
  <2> DEFINE W == S \cup T \cup V \cup {item}
  <2>4. outCh \in Seq(W) /\ Sorted(F) \in Seq(W) /\ Sorted(behind) \in Seq(W) /\ <<item>> \in Seq(W)
    BY <2>1, <2>2, <2>3, SeqMonotonic
  <2> HIDE DEF W
  <2>5. outCh \o Sorted(F) \in Seq(W) /\ a \in Seq(W)
    BY <2>4, ConcatProperties
  <2>6. (outCh \o Sorted(F)) \o <<item>> = outCh \o a
    BY <2>4, ConcatAssociative
  <2>7. (outCh \o a) \o Sorted(behind) = outCh \o u
    BY <2>4, <2>5, ConcatAssociative
  <2> QED BY <1>1, <2>6, <2>7 DEF F, behind
<1>14. LeavesLater(u, buffer')
  <2> SUFFICES ASSUME NEW x \in Elems(u), NEW h \in buffer', h.session = x.session
               PROVE  h.seq > x.seq
    BY DEF LeavesLater
  <2>1. x = item \/ x \in Elems(Sorted(behind))
    BY <1>5, <1>6, <1>12
  <2> QED BY <1>3, <1>4, <1>6, <2>1
<1>15. ASSUME NEW n \in nextSeqNum .. nextSeqNum' - 1, currentSessionId' = currentSessionId
       PROVE  [session |-> currentSessionId, seq |-> n] \in Elems(u)
  <2>1. ~Fresh(item)
    BY <1>1, <1>15, FlushIsForeign
  <2>2. item.seq = nextSeqNum /\ Kept(item) = buffer
    BY <1>1, <2>1, FlushIsWhole DEF Expected
  <2> DEFINE first == item.seq
             last == nextSeqNum'
  <2>5. /\ first \in Nat /\ last \in Int /\ first = nextSeqNum /\ first = item.seq
        /\ last = nextSeqNum'
    BY <1>3, <2>2
  <2> HIDE DEF first, last
  <2>6. n \in first .. last - 1
    BY <2>5
  <2>7. /\ n \in Int /\ n >= first /\ n < last
        /\ n # first => n \in first + 1 .. last - 1 /\ n > first
    <3>1. first \in Int /\ last \in Int
      BY <2>5
    <3> QED BY <2>6, <3>1, RangeParts
  <2>3. CASE n = item.seq
    BY <1>1, <1>3, <1>12, <1>15, <2>3 DEF Plain
  <2>4. CASE n # item.seq
    <3>1. n \in first + 1 .. last - 1 /\ n > first /\ n < last
      <4>1. n # first
        BY <2>4, <2>5
      <4> QED BY <2>7, <4>1
    <3>2. PICK i \in buffer : i.seq = n
      BY <1>1, <2>2, <2>5, <3>1 DEF FirstMissing
    <3>3. i \in behind
      <4>1. item.seq < i.seq /\ i.seq < nextSeqNum' /\ i \in Kept(item)
        BY <2>2, <2>5, <3>1, <3>2
      <4> QED BY <4>1 DEF behind
    <3>4. Plain(i) = [session |-> currentSessionId, seq |-> n]
      BY <3>2 DEF Plain, OrderInv, QueueInv, HeldIsAhead
    <3>5. Plain(i) \in Elems(Sorted(behind))
      BY <1>2, <3>3, PartSorted
    <3> QED BY <1>12, <3>4, <3>5
  <2> QED BY <2>3, <2>4
<1>16. GoesOut(u)
  BY <1>12, <1>13, <1>14 DEF GoesOut
<1> HIDE DEF u
<1> QED BY <1>15, <1>16

\* An input that is held lets only a flush out, of an earlier session.
LEMMA HoldOrder ==
    ASSUME OrderInv, NEW item \in flying, Hold(item), UNCHANGED applied
    PROVE  /\ GoesOut(Sorted(Flushed(item)))
           /\ currentSessionId' # currentSessionId \/ nextSeqNum' = nextSeqNum
<1>1. /\ EnsureSession(item) /\ item.session = currentSessionId'
      /\ outCh' = outCh \o Sorted(Flushed(item))
      /\ buffer' = Kept(item) \cup {[session |-> item.session, seq |-> item.seq, age |-> 0]}
      /\ nextSeqNum' = Expected(item)
  BY DEF Hold
<1>2. CASE Fresh(item)
  <2>1. Flushed(item) = buffer /\ Kept(item) = {} /\ currentSessionId # item.session
    BY <1>2, FlushIsWhole, FlushIsForeign
  <2>2. \A h \in buffer' : h.session = item.session
    BY <1>1, <2>1
  <2>3. LeavesLater(Sorted(buffer), buffer')
    BY <2>1, <2>2, PartSorted DEF LeavesLater
  <2> QED BY <1>1, <2>1, <2>3, PartSorted DEF GoesOut
<1>3. CASE ~Fresh(item)
  <2>1. Flushed(item) = {} /\ nextSeqNum' = nextSeqNum
    BY <1>1, <1>3, FlushIsWhole DEF Expected
  <2>2. LeavesLater(Sorted({}), buffer')
    BY PartSorted DEF LeavesLater
  <2> QED BY <1>1, <2>1, <2>2, PartSorted DEF GoesOut
<1> QED BY <1>2, <1>3

\* A time-out lets the front of the buffer go, up to one that was held for the timeout.
LEMMA OnTimeoutOrder ==
    ASSUME OrderInv, NEW t \in 1 .. MaxTimers, OnTimeout(t), UNCHANGED applied
    PROVE  /\ GoesOut(Sorted(TimedOut))
           /\ \A n \in nextSeqNum .. nextSeqNum' - 1 :
                 \/ [session |-> currentSessionId, seq |-> n] \in Elems(Sorted(TimedOut))
                 \/ \E held \in buffer : held.age >= Timeout /\ held.seq > n
<1>1. TimedOut \subseteq buffer
  BY DEF TimedOut
<1>2. outCh' = outCh \o Sorted(TimedOut) /\ buffer' = buffer \ TimedOut
  BY DEF OnTimeout
<1>3. \A i \in buffer : i.seq \in Nat /\ i.session = currentSessionId
  BY ItemFacts DEF OrderInv, QueueInv, HeldIsAhead
<1>4. ASSUME NEW i \in TimedOut, NEW h \in buffer'
      PROVE  h.seq > i.seq
  <2>1. PICK j \in buffer : j.age >= Timeout /\ i.seq <= j.seq
    BY DEF TimedOut
  <2>2. ~(h.seq <= j.seq)
    BY <1>2, <2>1 DEF TimedOut
  <2> QED BY <1>1, <1>2, <1>3, <2>1, <2>2
<1>5. LeavesLater(Sorted(TimedOut), buffer')
  BY <1>1, <1>4, PartSorted DEF LeavesLater
<1>6. GoesOut(Sorted(TimedOut))
  BY <1>1, <1>2, <1>5, PartSorted DEF GoesOut
<1>7. ASSUME NEW n \in nextSeqNum .. nextSeqNum' - 1
      PROVE  \/ [session |-> currentSessionId, seq |-> n] \in Elems(Sorted(TimedOut))
             \/ \E held \in buffer : held.age >= Timeout /\ held.seq > n
  <2>1. nextSeqNum \in Nat
    BY DEF OrderInv, QueueInv, FieldsTyped
  <2>2. PICK last \in TimedOut :
          nextSeqNum' = IF last.seq >= nextSeqNum THEN last.seq + 1 ELSE nextSeqNum
    BY <2>1 DEF OnTimeout
  <2>3. PICK j \in buffer : j.age >= Timeout /\ last.seq <= j.seq
    BY DEF TimedOut
  <2>4. last.seq \in Nat /\ j.seq \in Nat /\ j.session = currentSessionId
    BY <1>1, <1>3
  <2>5. n \in Int /\ n <= last.seq
    BY <2>1, <2>2, <2>4
  <2>6. CASE n < j.seq
    BY <2>3, <2>6
  <2>7. CASE ~(n < j.seq)
    <3>1. n = j.seq
      BY <2>3, <2>4, <2>5, <2>7
    <3>2. j \in TimedOut
      BY <2>3, <2>4 DEF TimedOut
    <3>3. Plain(j) = [session |-> currentSessionId, seq |-> n]
      BY <2>4, <3>1 DEF Plain
    <3>4. Plain(j) \in Elems(Sorted(TimedOut))
      BY <1>1, <3>2, PartSorted
    <3> QED BY <3>3, <3>4
  <2> QED BY <2>6, <2>7
<1> QED BY <1>6, <1>7


\* What has been handled stays a sequence, whatever was received.
LEMMA AppliedGrows ==
    ASSUME IsSeq(applied), ProcessInputQueue
    PROVE  IsSeq(applied')
<1>1. PICK A : applied \in Seq(A)
  BY DEF IsSeq
<1> DEFINE x == Head(outCh)
<1>2. applied \in Seq(A \cup {x})
  BY <1>1, SeqMonotonic
<1>3. applied' \in Seq(A \cup {x})
  BY <1>2, AppendProperties DEF ProcessInputQueue
<1> QED BY <1>3 DEF IsSeq

\* An input that is held has another number than those held already.
LEMMA HoldDistinct ==
    ASSUME OrderInv, NEW item \in flying, Hold(item)
    PROVE  HeldDistinct'
<1> DEFINE new == [session |-> item.session, seq |-> item.seq, age |-> 0]
<1>1. /\ EnsureSession(item) /\ item.session = currentSessionId'
      /\ buffer' = Kept(item) \cup {new}
  BY DEF Hold
<1>2. ASSUME NEW i \in Kept(item) PROVE i \in buffer /\ i.seq # item.seq
  <2>1. ~Fresh(item) /\ i \in buffer
    BY <1>2, FlushIsWhole DEF Kept
  <2>2. i.session = item.session
    BY <1>1, <2>1 DEF EnsureSession, OrderInv, QueueInv, HeldIsAhead
  <2> QED BY <2>1, <2>2 DEF OrderInv, QueueInv, InputsNumbered
<1>3. new.seq = item.seq
  OBVIOUS
<1> HIDE DEF new
<1> QED BY <1>1, <1>2, <1>3 DEF OrderInv, HeldDistinct

\* The order's invariant stays, whatever the queue does with an input.
LEMMA OrderItemStep ==
    ASSUME OrderInv, NEW item \in flying, QueueItem(item), UNCHANGED applied
    PROVE  HeldDistinct' /\ CurrentSeen'
<1>1. CASE PassLate(item)
  BY <1>1 DEF PassLate, OrderInv, HeldDistinct, CurrentSeen
<1>2. CASE Refuse(item)
  BY <1>2 DEF Refuse, queueVars, OrderInv, HeldDistinct, CurrentSeen
<1>3. ASSUME EnsureSession(item), item.session = currentSessionId' PROVE CurrentSeen'
  <2>1. item.session \in Sessions /\ sessionOrder \in [Sessions -> Nat]
    BY TakenFacts DEF OrderInv, QueueInv, FieldsTyped
  <2> DEFINE seen == Cardinality({s \in Sessions : sessionOrder[s] # 0})
  <2>2. seen \in Nat
    <3>1. IsFiniteSet(Sessions)
      BY FS_Interval, QueueAssumption DEF Sessions
    <3>2. IsFiniteSet({s \in Sessions : sessionOrder[s] # 0})
      BY <3>1, FS_Subset
    <3> QED BY <3>2, FS_CardinalityType
  <2>3. sessionOrder'[item.session] = IF Fresh(item) THEN 1 + seen ELSE sessionOrder[item.session]
    BY <1>3, <2>1 DEF EnsureSession
  <2> HIDE DEF seen
  <2>4. sessionOrder'[item.session] # 0
    BY <2>2, <2>3 DEF Fresh
  <2> QED BY <1>3, <2>4 DEF CurrentSeen
<1>4. CASE PassInOrder(item)
  <2>1. buffer' \subseteq buffer
    BY <1>4 DEF PassInOrder, Kept
  <2>2. HeldDistinct'
    BY <2>1 DEF OrderInv, HeldDistinct
  <2> QED BY <1>3, <1>4, <2>2 DEF PassInOrder
<1>5. CASE Hold(item)
  BY <1>3, <1>5, HoldDistinct DEF Hold
<1> QED BY <1>1, <1>2, <1>4, <1>5 DEF QueueItem

\* Items keep their numbers as they age.
LEMMA AgedDistinct ==
    ASSUME OrderInv, Tick
    PROVE  HeldDistinct'
<1> DEFINE Aged(i) == [i EXCEPT !.age = IF @ < Timeout THEN @ + 1 ELSE @]
<1>1. buffer' = {Aged(i) : i \in buffer}
  BY DEF Tick
<1>2. \A i \in buffer : Aged(i).seq = i.seq
  <2> TAKE i \in buffer
  <2>1. i = [session |-> i.session, seq |-> i.seq, age |-> i.age]
    BY ItemFacts DEF OrderInv, QueueInv
  <2> QED BY <2>1
<1> HIDE DEF Aged
<1> QED BY <1>1, <1>2 DEF OrderInv, HeldDistinct

\* At the start nothing has gone out.
LEMMA OrderInit == InputInit => OrderInv
<1> SUFFICES ASSUME InputInit PROVE OrderInv
  OBVIOUS
<1>1. QueueInv
  BY InitHolds
<1>2. applied = <<>> /\ buffer = {} /\ currentSessionId = NoSession
  BY DEF InputInit, QueueInit
<1>3. <<>> \in Seq(Items)
  OBVIOUS
<1> QED BY <1>1, <1>2, <1>3 DEF OrderInv, IsSeq, HeldDistinct, CurrentSeen

\* No step leaves the order.
LEMMA OrderStep == OrderInv /\ [InputNext]_inputVars => OrderInv'
<1> SUFFICES ASSUME OrderInv, [InputNext]_inputVars PROVE OrderInv'
  OBVIOUS
<1>1. QueueInv'
  BY StepHolds DEF OrderInv
<1>2. ASSUME UNCHANGED <<buffer, currentSessionId, sessionOrder>>
      PROVE  HeldDistinct' /\ CurrentSeen'
  BY <1>2 DEF OrderInv, HeldDistinct, CurrentSeen
<1>3. CASE \E s \in Sessions : SendInput(s)
  BY <1>1, <1>2, <1>3 DEF OrderInv, SendInput, queueVars
<1>4. CASE JobInputCommand
  BY <1>1, <1>4, OrderItemStep DEF JobInputCommand, OrderInv
<1>5. CASE ProcessInputQueue
  BY <1>1, <1>2, <1>5, AppliedGrows DEF OrderInv, ProcessInputQueue, Receive
<1>6. CASE QueueTurn
  <2>1. applied' = applied
    BY <1>6 DEF QueueTurn
  <2>2. CASE Tick
    BY <1>1, <2>1, <2>2, AgedDistinct DEF OrderInv, Tick, CurrentSeen
  <2>3. ASSUME NEW t \in 1 .. MaxTimers, TimerFires(t) PROVE OrderInv'
    BY <1>1, <1>2, <2>1, <2>3 DEF OrderInv, TimerFires
  <2>4. ASSUME NEW t \in 1 .. MaxTimers, OnTimeout(t) PROVE OrderInv'
    BY <1>1, <2>1, <2>4 DEF OrderInv, OnTimeout, HeldDistinct, CurrentSeen
  <2> QED BY <1>6, <2>2, <2>3, <2>4 DEF QueueTurn
<1>7. CASE UNCHANGED inputVars
  BY <1>1, <1>2, <1>7 DEF OrderInv, inputVars, queueVars
<1> QED BY <1>3, <1>4, <1>5, <1>6, <1>7 DEF InputNext

\* A step by which nothing goes out.
LEMMA NothingOut ==
    ASSUME Emitted' = Emitted, IsSeq(Emitted)
    PROVE  Len(Emitted) + 1 .. Len(Emitted') = {}
<1> DEFINE m == Len(Emitted)
<1>1. m \in Nat
  BY LenIsNat
<1>2. Len(Emitted') = m
  OBVIOUS
<1> HIDE DEF m
<1>3. m + 1 .. m = {}
  BY <1>1
<1> QED BY <1>2, <1>3 DEF m

\* What the receiver takes was out already.
LEMMA ReceivedWasOut ==
    ASSUME OrderInv, ProcessInputQueue
    PROVE  Emitted' = Emitted
<1>1. PICK A : applied \in Seq(A)
  BY DEF OrderInv, IsSeq
<1>2. PICK B : outCh \in Seq(B)
  BY DEF OrderInv, QueueInv, QueueCounted, IsSeq
<1> DEFINE S == A \cup B
           h == Head(outCh)
           t == Tail(outCh)
<1>3. applied \in Seq(S) /\ outCh \in Seq(S) /\ outCh # <<>>
  BY <1>1, <1>2, SeqMonotonic DEF ProcessInputQueue, Receive
<1> HIDE DEF S
<1>4. h \in S /\ t \in Seq(S) /\ outCh = <<h>> \o t
  BY <1>3, HeadTailProperties, HeadTailAppend
<1>5. applied' = Append(applied, h) /\ outCh' = t
  BY DEF ProcessInputQueue, Receive
<1> HIDE DEF h, t
<1>6. Append(applied, h) = applied \o <<h>> /\ <<h>> \in Seq(S)
  BY <1>3, <1>4, AppendIsConcat
<1>7. (applied \o <<h>>) \o t = applied \o (<<h>> \o t)
  BY <1>3, <1>4, <1>6, ConcatAssociative
<1> QED BY <1>4, <1>5, <1>6, <1>7 DEF Emitted

\* What the order says of a step, in both its halves: the body of NothingOvertaken and that
\* of SkipOnlyAfterTimeout.
InTurn ==
    \A i \in Len(Emitted) + 1 .. Len(Emitted') :
        LET item == Emitted'[i] IN
        /\ \A held \in buffer' : held.session = item.session => held.seq > item.seq
        /\ \A j \in Len(Emitted) + 1 .. i - 1 :
              Emitted'[j].session = item.session => Emitted'[j].seq < item.seq

Accounted(n) ==
    \/ currentSessionId' # currentSessionId
    \/ \E i \in Len(Emitted) + 1 .. Len(Emitted') :
          Emitted'[i] = [session |-> currentSessionId, seq |-> n]
    \/ \E held \in buffer : held.age >= Timeout /\ held.seq > n

AllAccounted == \A n \in nextSeqNum .. nextSeqNum' - 1 : Accounted(n)

\* When the awaited number stays nothing is given up.
LEMMA NothingSkipped ==
    ASSUME OrderInv, nextSeqNum' = nextSeqNum
    PROVE  AllAccounted
<1> DEFINE m == nextSeqNum
<1>1. m \in Nat /\ nextSeqNum' = m
  BY DEF OrderInv, QueueInv, FieldsTyped
<1> HIDE DEF m
<1>2. m .. m - 1 = {}
  BY <1>1
<1> QED BY <1>1, <1>2 DEF AllAccounted, m

\* Every step of the queue lets inputs go in turn and accounts for those it gives up.
LEMMA InTurnStep == OrderInv /\ [InputNext]_inputVars => InTurn /\ AllAccounted
<1> SUFFICES ASSUME OrderInv, [InputNext]_inputVars PROVE InTurn /\ AllAccounted
  OBVIOUS
<1>1. ASSUME NEW u, GoesOut(u)
      PROVE  /\ InTurn
             /\ \A x \in Elems(u) : \E i \in Len(Emitted) + 1 .. Len(Emitted') : Emitted'[i] = x
  BY <1>1, OutInOrder DEF OrderInv, QueueInv, QueueCounted, InTurn
<1>2. IsSeq(Emitted)
  BY ConcatCounted DEF OrderInv, QueueInv, QueueCounted, Emitted
<1>3. ASSUME Emitted' = Emitted, nextSeqNum' = nextSeqNum PROVE InTurn /\ AllAccounted
  BY <1>2, <1>3, NothingOut, NothingSkipped DEF InTurn
<1>4. CASE \E s \in Sessions : SendInput(s)
  BY <1>3, <1>4 DEF SendInput, queueVars, Emitted
<1>5. ASSUME NEW item \in flying, QueueItem(item), UNCHANGED applied
      PROVE  InTurn /\ AllAccounted
  <2>1. CASE PassLate(item)
    <3>1. GoesOut(<<item>>)
      BY <1>5, <2>1, PassLateOrder
    <3> QED BY <1>1, <2>1, <3>1, NothingSkipped DEF PassLate
  <2>2. CASE PassInOrder(item)
    <3>1. PICK u : /\ GoesOut(u)
                   /\ \A n \in nextSeqNum .. nextSeqNum' - 1 :
                         \/ currentSessionId' # currentSessionId
                         \/ [session |-> currentSessionId, seq |-> n] \in Elems(u)
      BY <1>5, <2>2, PassInOrderOrder
    <3> QED BY <1>1, <3>1 DEF AllAccounted, Accounted
  <2>3. CASE Hold(item)
    <3>1. /\ GoesOut(Sorted(Flushed(item)))
          /\ currentSessionId' # currentSessionId \/ nextSeqNum' = nextSeqNum
      BY <1>5, <2>3, HoldOrder
    <3>2. ASSUME currentSessionId' # currentSessionId PROVE AllAccounted
      BY <3>2 DEF AllAccounted, Accounted
    <3> QED BY <1>1, <3>1, <3>2, NothingSkipped
  <2>4. CASE Refuse(item)
    BY <1>3, <1>5, <2>4 DEF Refuse, queueVars, Emitted
  <2> QED BY <1>5, <2>1, <2>2, <2>3, <2>4 DEF QueueItem
<1>6. CASE JobInputCommand
  BY <1>5, <1>6 DEF JobInputCommand
<1>7. CASE ProcessInputQueue
  BY <1>3, <1>7, ReceivedWasOut DEF ProcessInputQueue, Receive
<1>8. CASE QueueTurn
  <2>1. applied' = applied
    BY <1>8 DEF QueueTurn
  <2>2. CASE Tick
    BY <1>3, <2>1, <2>2 DEF Tick, Emitted
  <2>3. ASSUME NEW t \in 1 .. MaxTimers, TimerFires(t) PROVE InTurn /\ AllAccounted
    BY <1>3, <2>1, <2>3 DEF TimerFires, Emitted
  <2>4. ASSUME NEW t \in 1 .. MaxTimers, OnTimeout(t) PROVE InTurn /\ AllAccounted
    <3>1. /\ GoesOut(Sorted(TimedOut))
          /\ \A n \in nextSeqNum .. nextSeqNum' - 1 :
                \/ [session |-> currentSessionId, seq |-> n] \in Elems(Sorted(TimedOut))
                \/ \E held \in buffer : held.age >= Timeout /\ held.seq > n
      BY <2>1, <2>4, OnTimeoutOrder
    <3> QED BY <1>1, <3>1 DEF AllAccounted, Accounted
  <2> QED BY <1>8, <2>2, <2>3, <2>4 DEF QueueTurn
<1>9. CASE UNCHANGED inputVars
  BY <1>3, <1>9 DEF inputVars, queueVars, Emitted
<1> QED BY <1>4, <1>6, <1>7, <1>8, <1>9 DEF InputNext

\* What the order rests on holds always.
THEOREM OrderInvariant == InputSpec => []OrderInv
<1> QED BY OrderInit, OrderStep, PTL DEF InputSpec

\* Inputs of a session never overtake each other inside the queue, whichever of arrival,
\* time-out and new session lets them go: what goes out is in order and leaves nothing behind
\* that comes before it.
THEOREM InputsKeepTheirOrder == InputSpec => NothingOvertaken
<1>1. OrderInv /\ [InputNext]_inputVars => [InTurn]_inputVars
  BY InTurnStep
<1>2. InputSpec => [][InTurn]_inputVars
  BY <1>1, OrderInvariant, PTL DEF InputSpec
<1> QED BY <1>2 DEF NothingOvertaken, InTurn

\* The queue gives an input up only for one behind it that was held for the timeout, or for
\* a new session.
THEOREM NoInputIsSkippedEarly == InputSpec => SkipOnlyAfterTimeout
<1>1. OrderInv /\ [InputNext]_inputVars => [AllAccounted]_inputVars
  BY InTurnStep
<1>2. InputSpec => [][AllAccounted]_inputVars
  BY <1>1, OrderInvariant, PTL DEF InputSpec
<1> QED BY <1>2 DEF SkipOnlyAfterTimeout, AllAccounted, Accounted
=============================================================================
