----------------------------- MODULE ByteWindow -----------------------------
(***************************************************************************)
(* What the job manager's output buffer promises, without its ring: a      *)
(* window [head, tail) over the positions of the bytes the job has ever    *)
(* printed, a limit on its length, and the one goroutine that fills it.    *)
(*                                                                         *)
(* In sync mode (a client is connected) a full window makes the writer     *)
(* wait; in async mode (no client) the oldest bytes are given up instead.  *)
(* CirBuf implements this window; StreamManager is built on its operators. *)
(***************************************************************************)
EXTENDS Integers

CONSTANTS
    BufSize,    \* len(buf): the most bytes the buffer holds
    MaxChunk,   \* the most bytes one handleReadData call brings
    MaxOutput   \* bound: the bytes the job prints in a whole run

ASSUME SizesAssumption ==
    /\ BufSize \in Nat \ {0}
    /\ MaxChunk \in 1 .. BufSize    \* 4 KB reads into a 2 MB buffer
    /\ MaxOutput \in Nat

-----------------------------------------------------------------------------
(* The window. *)

Windows == [head : Nat, tail : Nat, sync : BOOLEAN, limit : 0 .. BufSize]

EmptyWindow(sync) == [head |-> 0, tail |-> 0, sync |-> sync, limit |-> BufSize]

Count(w) == w.tail - w.head

AtMost(n, bound) == IF n > bound THEN bound ELSE n

Full(w) == w.sync /\ Count(w) >= w.limit

\* Mutant: a full window overwrites its oldest byte in sync mode too.
AcceptedAnyMode(w, n) == n

\* How many of n bytes WriteAvailable takes; the head moves only if the limit is passed.
Accepted(w, n) == IF w.sync THEN AtMost(n, w.limit - Count(w)) ELSE n

AfterWrite(w, n) ==
    LET tail == w.tail + n IN
    [head  |-> IF tail > w.head + w.limit THEN tail - w.limit ELSE w.head,
     tail  |-> tail,
     sync  |-> w.sync,
     limit |-> w.limit]

AfterConsume(w, n) == [w EXCEPT !.head = @ + n]

\* Async mode gives up the oldest bytes beyond a smaller limit; sync mode keeps them.
AfterSetEffectiveWindow(w, sync, size) ==
    LET limit == AtMost(size, BufSize) IN
    [head  |-> IF ~sync /\ Count(w) > limit THEN w.tail - limit ELSE w.head,
     tail  |-> w.tail,
     sync  |-> sync,
     limit |-> limit]

\* Mutant: a larger limit does not wake the writer.
WindowWakesOnAsync(w, sync, size) == w.sync /\ ~sync

WindowWakes(w, sync, size) == w.sync /\ (AtMost(size, BufSize) > w.limit \/ ~sync)

-----------------------------------------------------------------------------
(* The writer: bytes of the current chunk still to be written, and whether *)
(* the goroutine is parked on the channel WriteAvailable gave it.          *)

Writers == [left : 0 .. MaxChunk, waiting : BOOLEAN]

IdleWriter == [left |-> 0, waiting |-> FALSE]

Woken(wr) == [left |-> wr.left, waiting |-> FALSE]
Parked(wr) == [left |-> wr.left, waiting |-> TRUE]

VARIABLES window, writer

windowVars == <<window, writer>>

Offer(n) ==
    /\ writer = IdleWriter
    /\ window.tail + n <= MaxOutput
    /\ writer' = [left |-> n, waiting |-> FALSE]
    /\ UNCHANGED window

\* One turn of handleReadData's loop: some bytes go in, or the writer parks.
WriteAvailable ==
    /\ writer.left > 0
    /\ ~writer.waiting
    /\ IF Full(window)
       THEN /\ writer' = Parked(writer)
            /\ UNCHANGED window
       ELSE LET n == Accepted(window, writer.left) IN
            /\ window' = AfterWrite(window, n)
            /\ writer' = [writer EXCEPT !.left = @ - n]

Consume(n) ==
    /\ n <= Count(window)
    /\ window' = AfterConsume(window, n)
    /\ writer' = Woken(writer)

SetEffectiveWindow(sync, size) ==
    /\ window' = AfterSetEffectiveWindow(window, sync, size)
    /\ writer' = IF WindowWakes(window, sync, size) THEN Woken(writer) ELSE writer

WindowInit == window \in {EmptyWindow(s) : s \in BOOLEAN} /\ writer = IdleWriter

WindowNext ==
    \/ \E n \in 1 .. MaxChunk : Offer(n)
    \/ WriteAvailable
    \/ \E n \in 0 .. BufSize : Consume(n)
    \/ \E sync \in BOOLEAN, size \in 0 .. BufSize + 1 : SetEffectiveWindow(sync, size)

WindowSpec == WindowInit /\ [][WindowNext]_windowVars

-----------------------------------------------------------------------------

\* The buffer never holds more than its memory, and a window in async mode never more
\* than its limit (SetEffectiveWindow truncates, WriteAvailable gives up the oldest).
WindowBounded ==
    /\ window.head <= window.tail
    /\ Count(window) <= BufSize
    /\ ~window.sync => Count(window) <= window.limit

\* No lost wakeup: whoever is parked is parked on a window that is still full, so every
\* change that makes room (Consume, a larger limit, async mode) has woken the writer.
NoLostWakeup == writer.waiting => Full(window)
=============================================================================
