----------------------------- MODULE StoredFile -----------------------------
(***************************************************************************)
(* What the file store promises of one file: a write is seen by every read *)
(* that follows it, whole and at its place; what is kept is the file as it *)
(* was between two writes; a crash, or giving up a file that could not be  *)
(* saved, goes back to what is kept and never to a mixture.                *)
(*                                                                         *)
(* The byte a write of kind k puts at offset o is <<k, o>>: a byte that    *)
(* turns up where it was not written, or of a write that has been          *)
(* overwritten, differs from the one expected.                             *)
(***************************************************************************)
EXTENDS Integers

CONSTANTS
    Kinds,      \* of writes
    MaxSize,    \* how much a circular file shows
    Lengths     \* of writes

VARIABLES
    now,        \* the file as it is read
    kept        \* the file as it is after a crash

\* A file shows its bytes up to its size, a circular one the last MaxSize of them.
Shown(size, circular) == (IF circular /\ size > MaxSize THEN size - MaxSize ELSE 0) .. size - 1

NoBytes == [o \in {} |-> 0]
Absent == [size |-> -1, circular |-> FALSE, bytes |-> NoBytes]
Made(circular) == [size |-> 0, circular |-> circular, bytes |-> NoBytes]

\* The file "new" is the file "old" with n bytes of kind k written at the offset; those
\* that fall before the start of a circular file are ignored.
IsWritten(old, new, offset, n, k) ==
    /\ new.size = IF offset + n > old.size THEN offset + n ELSE old.size
    /\ new.circular = old.circular
    /\ new.bytes = [o \in Shown(new.size, new.circular) |->
                        IF o \in offset .. offset + n - 1 THEN <<k, o>> ELSE old.bytes[o]]

Overwrites(old, new) ==
    \E offset \in 0 .. old.size, n \in Lengths, k \in Kinds :
        IsWritten(old, new, offset, n, k)

Replaces(old, new) ==
    \E n \in Lengths \cup {0}, k \in Kinds : IsWritten(Made(old.circular), new, 0, n, k)
-----------------------------------------------------------------------------
Init == now = Absent /\ kept = Absent

Make ==
    /\ now = Absent
    /\ \E circular \in BOOLEAN : now' = Made(circular)
    /\ kept' = now'

Delete == now' = Absent /\ kept' = Absent

Write ==
    /\ now # Absent
    /\ now' # now /\ \E old \in {now}, new \in {now'} : Overwrites(old, new)
    /\ kept' = kept

\* The whole file replaced, and possibly kept at once.
Replace ==
    /\ now # Absent
    /\ now' # now /\ \E old \in {now}, new \in {now'} : Replaces(old, new)
    /\ kept' \in {kept, now'}

Keep == now' = now /\ kept' = now
GoBack == now' = kept /\ kept' = kept

Next == Write \/ Replace \/ Keep \/ GoBack \/ Delete \/ Make

Spec == Init /\ [][Next]_<<now, kept>>
=============================================================================
