--------------------------- MODULE ReliableStream ---------------------------
(***************************************************************************)
(* What a stream promises the loop that reads it: the bytes the job has    *)
(* printed, from some start on, each once and in order, then the end.      *)
(*                                                                         *)
(* A byte is its position in the job's output.  Nothing is said of buffers,*)
(* windows, packets or acks.  A new connection starts over anywhere.  An   *)
(* error, unlike EOF, may cut the output short.                            *)
(***************************************************************************)
EXTENDS Integers, Sequences

VARIABLES
    printed,  \* how many bytes the job has printed
    ended,    \* how its output ended: "none" yet, "eof" or "error"
    start,    \* where the present stream starts
    got,      \* the bytes its reader was handed
    told      \* the end its reader was told of, or "none"

rsVars == <<printed, ended, start, got, told>>

RsInit == printed = 0 /\ ended = "none" /\ start = 0 /\ got = <<>> /\ told = "none"

JobWrites ==
    /\ ended = "none"
    /\ printed' > printed
    /\ UNCHANGED <<ended, start, got, told>>

End ==
    /\ ended = "none"
    /\ ended' \in {"eof", "error"}
    /\ UNCHANGED <<printed, start, got, told>>

NextByte == start + Len(got)

Hand ==
    /\ told = "none"
    /\ Len(got') > Len(got)
    /\ NextByte + (Len(got') - Len(got)) <= printed
    /\ got' = [i \in 1 .. Len(got') |-> start + i - 1]
    /\ UNCHANGED <<printed, ended, start, told>>

TellEof ==
    /\ told = "none"
    /\ ended = "eof" /\ NextByte = printed
    /\ told' = "eof"
    /\ UNCHANGED <<printed, ended, start, got>>

TellError ==
    /\ told = "none"
    /\ ended = "error"
    /\ told' = "error"
    /\ UNCHANGED <<printed, ended, start, got>>

Restart ==
    /\ start' \in 0 .. printed
    /\ got' = <<>> /\ told' = "none"
    /\ UNCHANGED <<printed, ended>>

RsNext == JobWrites \/ End \/ Hand \/ TellEof \/ TellError \/ Restart

RsSpec == RsInit /\ [][RsNext]_rsVars
=============================================================================
