-------------------------- MODULE FileStoreProofs ---------------------------
(***************************************************************************)
(* The file store's cache, for any number of callers and flushers, every   *)
(* size of parts and files: everybody who works on a file has the same     *)
(* entry, a write that is not stored stays cached, and what is read is     *)
(* what was written.                                                       *)
(*                                                                         *)
(* The argument for the last: a file is read as its cached parts over      *)
(* those of the rows (View).  A write loads the parts it does not cover,   *)
(* and a byte of a part that is written is either one of the bytes written *)
(* or the one that was there, however the offsets wrap; a flush moves      *)
(* parts from one layer to the other, which nobody who reads can see.      *)
(***************************************************************************)
EXTENDS FileStore, RingArithmetic, FiniteSetTheorems, TLAPS

Sizes == {NoFile} \cup Nat

\* An entry of the cache, and the rows of the file; what their parts are does not matter here.
IsEntry(e) ==
    \E p : e \in [pins : Int, size : Sizes, circular : BOOLEAN, parts : {p}, errors : 0 .. MaxFlushErrors]

IsRows(d) == \E p : d \in [size : Sizes, circular : BOOLEAN, parts : {p}]

\* A dirty entry is of a file that has a row, and of its kind.
Fits(e, d) ==
    /\ IsEntry(e) /\ IsRows(d)
    /\ Dirty(e) => d.size # NoFile /\ e.circular = d.circular

Holders == {t \in Threads : holds[t] # NoEntry}

FieldsTyped ==
    /\ cache \in Entries \cup {NoEntry}
    /\ entries = [e \in Entries |-> entries[e]]
    /\ pc \in [Threads -> {"idle", "flushing", "pinned", "done"}]
    /\ holds \in [Threads -> Entries \cup {NoEntry}]

\* Who is at work on the file has an entry, and an entry nobody can find is as good as new.
PinsHeld ==
    /\ \A t \in Threads : pc[t] \in {"pinned", "done"} <=> holds[t] # NoEntry
    /\ \A e \in Entries : e # cache => entries[e].pins = 0 /\ ~Dirty(entries[e])

\* The inductive invariant.
StoreInv ==
    /\ FieldsTyped
    /\ \A e \in Entries : Fits(entries[e], db)
    /\ PinsHeld
    /\ PinsAreCounted

-----------------------------------------------------------------------------
(* Counting. *)

\* There are finitely many threads, and so finitely many pins.
LEMMA ThreadsFinite == IsFiniteSet(Threads) /\ Cardinality(Threads) \in Nat
<1>1. IsFiniteSet(Callers) /\ IsFiniteSet(Flushers)
  BY FileStoreAssumption
<1>2. IsFiniteSet(Threads)
  BY <1>1, FS_Union DEF Threads
<1> QED BY <1>2, FS_CardinalityType

\* There is at least one entry, the first, and none is mistaken for no entry.
LEMMA FirstEntry == 1 \in Entries /\ Entries \subseteq Int /\ NoEntry \notin Entries
<1>1. Entries \subseteq Int /\ 1 \in Entries
  BY ThreadsFinite DEF Entries
<1> QED BY <1>1, FileStoreAssumption

\* The threads that hold the entry can be counted.
LEMMA HoldersFinite == IsFiniteSet(Holders)
BY ThreadsFinite, FS_Subset DEF Holders

\* The larger of two is one of them.
LEMMA LargerOfTwo ==
    ASSUME NEW a \in Int, NEW b \in Int
    PROVE  Max({a, b}) \in {a, b}
<1>1. \E x \in {a, b} : \A y \in {a, b} : x >= y
  OBVIOUS
<1> QED BY <1>1, Zenon DEF Max

\* The least entry that is not in use.
LEMMA LeastOfAll == Min(Entries) \in Entries
<1>1. \A y \in Entries : 1 =< y
  BY DEF Entries
<1>2. \E x \in Entries : \A y \in Entries : x =< y
  BY <1>1, FirstEntry
<1> QED BY <1>2, Zenon DEF Min

-----------------------------------------------------------------------------
(* Entries.  Nothing done to an entry under its lock changes its pins.     *)

\* The fields of an entry, one changed at a time.
LEMMA EntryFields ==
    ASSUME NEW e, IsEntry(e)
    PROVE  /\ e.pins \in Int /\ e.size \in Sizes /\ e.circular \in BOOLEAN
           /\ e.errors \in 0 .. MaxFlushErrors
           /\ \A n \in Int : /\ IsEntry([e EXCEPT !.pins = n])
                             /\ [e EXCEPT !.pins = n].pins = n
                             /\ [e EXCEPT !.pins = n].size = e.size
                             /\ [e EXCEPT !.pins = n].circular = e.circular
           /\ \A n \in Sizes : /\ IsEntry([e EXCEPT !.size = n])
                               /\ [e EXCEPT !.size = n].size = n
                               /\ [e EXCEPT !.size = n].pins = e.pins
                               /\ [e EXCEPT !.size = n].circular = e.circular
           /\ \A p : /\ IsEntry([e EXCEPT !.parts = p])
                     /\ [e EXCEPT !.parts = p].pins = e.pins
                     /\ [e EXCEPT !.parts = p].size = e.size
                     /\ [e EXCEPT !.parts = p].circular = e.circular
<1>1. PICK q : e \in [pins : Int, size : Sizes, circular : BOOLEAN, parts : {q},
                      errors : 0 .. MaxFlushErrors]
  BY DEF IsEntry
<1>2. \A n \in Int : [e EXCEPT !.pins = n] \in
        [pins : Int, size : Sizes, circular : BOOLEAN, parts : {q}, errors : 0 .. MaxFlushErrors]
  BY <1>1
<1>3. \A n \in Sizes : [e EXCEPT !.size = n] \in
        [pins : Int, size : Sizes, circular : BOOLEAN, parts : {q}, errors : 0 .. MaxFlushErrors]
  BY <1>1
<1>4. \A p : [e EXCEPT !.parts = p] \in
        [pins : Int, size : Sizes, circular : BOOLEAN, parts : {p}, errors : 0 .. MaxFlushErrors]
  BY <1>1
<1>5. \A n \in Int : IsEntry([e EXCEPT !.pins = n])
  BY <1>2 DEF IsEntry
<1>6. \A n \in Sizes : IsEntry([e EXCEPT !.size = n])
  BY <1>3 DEF IsEntry
<1>7. \A p : IsEntry([e EXCEPT !.parts = p])
  BY <1>4 DEF IsEntry
<1> QED BY <1>1, <1>5, <1>6, <1>7

\* Pinned or unpinned, an entry is still of its file.
LEMMA Repinned ==
    ASSUME NEW e, NEW d, Fits(e, d), NEW n \in Int
    PROVE  LET new == [e EXCEPT !.pins = n] IN
             new.pins = n /\ Fits(new, d) /\ (Dirty(new) <=> Dirty(e))
<1> DEFINE new == [e EXCEPT !.pins = n]
<1>1. IsEntry(new) /\ new.pins = n /\ new.size = e.size /\ new.circular = e.circular
  <2>1. IsEntry(e)
    BY DEF Fits
  <2>2. \A m \in Int : /\ IsEntry([e EXCEPT !.pins = m]) /\ [e EXCEPT !.pins = m].pins = m
                       /\ [e EXCEPT !.pins = m].size = e.size
                       /\ [e EXCEPT !.pins = m].circular = e.circular
    BY <2>1, EntryFields
  <2> QED BY <2>2, Zenon
<1> HIDE DEF new
<1>2. new.pins = n /\ Fits(new, d) /\ (Dirty(new) <=> Dirty(e))
  BY <1>1, Zenon DEF Fits, Dirty
<1> QED BY <1>2, Zenon DEF new

\* An entry that is cleared keeps its pins and is clean.
LEMMA ClearedEntry ==
    ASSUME NEW e, IsEntry(e)
    PROVE  IsEntry(Cleared(e)) /\ Cleared(e).pins = e.pins /\ ~Dirty(Cleared(e))
<1>1. e.pins \in Int /\ 0 \in 0 .. MaxFlushErrors
  BY EntryFields, FileStoreAssumption
<1>2. Clean \in [pins : Int, size : Sizes, circular : BOOLEAN, parts : {NoParts},
                 errors : 0 .. MaxFlushErrors] /\ Clean.size = NoFile
  BY <1>1 DEF Clean, Sizes
<1>3. /\ [Clean EXCEPT !.pins = e.pins] \in
           [pins : Int, size : Sizes, circular : BOOLEAN, parts : {NoParts}, errors : 0 .. MaxFlushErrors]
      /\ [Clean EXCEPT !.pins = e.pins].pins = e.pins
      /\ [Clean EXCEPT !.pins = e.pins].size = NoFile
  BY <1>1, <1>2
<1> QED BY <1>3 DEF IsEntry, Dirty, Cleared

\* Bytes are written: the entry stays dirty.
LEMMA WrittenEntry ==
    ASSUME NEW e, IsEntry(e), Dirty(e), NEW offset \in Nat, NEW n \in Nat, NEW k
    PROVE  LET new == WriteInto(e, offset, n, k) IN
             IsEntry(new) /\ new.pins = e.pins /\ Dirty(new) /\ new.circular = e.circular
<1> DEFINE parts == PartsWritten(e, FirstStored(e, offset, offset + n), offset + n, k)
           larger == Max({e.size, offset + n})
<1> HIDE DEF parts
<1>1. e.size \in Nat
  BY EntryFields DEF Dirty, Sizes
<1>2. larger \in Nat
  BY <1>1, LargerOfTwo
<1>3. [e EXCEPT !.parts = parts, !.size = larger] = [[e EXCEPT !.parts = parts] EXCEPT !.size = larger]
  OBVIOUS
<1> DEFINE mid == [e EXCEPT !.parts = parts]
<1>4. IsEntry(mid) /\ mid.pins = e.pins /\ mid.circular = e.circular
  BY EntryFields
<1> HIDE DEF larger
<1>5. larger \in Sizes /\ larger # NoFile
  BY <1>2 DEF Sizes, NoFile
<1> HIDE DEF mid
<1> DEFINE new == [mid EXCEPT !.size = larger]
<1>6. IsEntry(new) /\ new.size = larger /\ new.pins = mid.pins /\ new.circular = mid.circular
  BY <1>4, <1>5, EntryFields
<1>7. new = [e EXCEPT !.parts = parts, !.size = larger]
  BY <1>3 DEF mid
<1> HIDE DEF new
<1>8. IsEntry(new) /\ new.pins = e.pins /\ Dirty(new) /\ new.circular = e.circular
  BY <1>4, <1>5, <1>6 DEF Dirty
<1> QED BY <1>7, <1>8 DEF WriteInto, parts, larger

\* Parts are loaded.
LEMMA EntryWithParts ==
    ASSUME NEW e, IsEntry(e), NEW wanted
    PROVE  /\ IsEntry(WithParts(e, wanted)) /\ WithParts(e, wanted).pins = e.pins
           /\ WithParts(e, wanted).size = e.size /\ WithParts(e, wanted).circular = e.circular
BY EntryFields DEF WithParts

\* The file is loaded: the entry is dirty, and fits.
LEMMA EntryWithFile ==
    ASSUME NEW e, Fits(e, db), Dirty(e) \/ db.size # NoFile
    PROVE  LET new == WithFile(e) IN
             Fits(new, db) /\ new.pins = e.pins /\ Dirty(new) /\ new.circular = db.circular
<1>1. CASE Dirty(e)
  BY <1>1 DEF WithFile, Fits
<1>2. CASE ~Dirty(e)
  <2>1. db.size \in Sizes /\ db.circular \in BOOLEAN /\ db.size # NoFile
    BY <1>2 DEF Fits, IsRows
  <2>2. PICK q : e \in [pins : Int, size : Sizes, circular : BOOLEAN, parts : {q},
                        errors : 0 .. MaxFlushErrors]
    BY DEF Fits, IsEntry
  <2>3. [e EXCEPT !.size = db.size, !.circular = db.circular] \in
          [pins : Int, size : Sizes, circular : BOOLEAN, parts : {q}, errors : 0 .. MaxFlushErrors]
    BY <2>1, <2>2
  <2>4. LET new == [e EXCEPT !.size = db.size, !.circular = db.circular] IN
          IsEntry(new) /\ new.pins = e.pins /\ Dirty(new) /\ new.circular = db.circular
    BY <2>1, <2>2, <2>3 DEF IsEntry, Dirty
  <2> QED BY <1>2, <2>1, <2>4 DEF WithFile, Fits
<1> QED BY <1>1, <1>2

\* A refused flush is counted, or the entry is given up.
LEMMA RefusedEntry ==
    ASSUME NEW e, IsEntry(e)
    PROVE  /\ IsEntry(AfterError(e)) /\ AfterError(e).pins = e.pins
           /\ e.errors < MaxFlushErrors => AfterError(e).size = e.size
           /\ Dirty(AfterError(e)) => Dirty(e) /\ AfterError(e).circular = e.circular
<1>1. CASE e.errors < MaxFlushErrors
  <2>1. PICK q : e \in [pins : Int, size : Sizes, circular : BOOLEAN, parts : {q},
                        errors : 0 .. MaxFlushErrors]
    BY DEF IsEntry
  <2>2. e.errors + 1 \in 0 .. MaxFlushErrors
    BY <1>1, <2>1, FileStoreAssumption
  <2> DEFINE new == [e EXCEPT !.errors = e.errors + 1]
  <2>3. new \in [pins : Int, size : Sizes, circular : BOOLEAN, parts : {q}, errors : 0 .. MaxFlushErrors]
    BY <2>1, <2>2
  <2>4. new.pins = e.pins /\ new.size = e.size /\ new.circular = e.circular
    BY <2>1
  <2>5. AfterError(e) = new
    BY <1>1 DEF AfterError
  <2> HIDE DEF new
  <2> QED BY <2>3, <2>4, <2>5, Zenon DEF IsEntry, Dirty
<1>2. CASE ~(e.errors < MaxFlushErrors)
  <2>1. AfterError(e) = Cleared(e)
    BY <1>2 DEF AfterError
  <2> QED BY <1>2, <2>1, ClearedEntry, Zenon
<1> QED BY <1>1, <1>2

\* A transaction writes the rows of a file that has some.
LEMMA SavedRows ==
    ASSUME NEW e, Fits(e, db), Dirty(e), NEW replace
    PROVE  /\ IsRows(Saved(e, replace)) /\ Saved(e, replace).size = e.size
           /\ Saved(e, replace).circular = db.circular
<1>1. e.size \in Sizes
  BY EntryFields DEF Fits
<1>2. PICK p : db \in [size : Sizes, circular : BOOLEAN, parts : {p}]
  BY DEF Fits, IsRows
<1> DEFINE parts == IF replace THEN e.parts ELSE Over(e.parts, db.parts)
           new == [db EXCEPT !.size = e.size, !.parts = parts]
<1>3. Saved(e, replace) = new
  BY <1>2 DEF Saved
<1> HIDE DEF parts
<1>4. new \in [size : Sizes, circular : BOOLEAN, parts : {parts}]
  BY <1>1, <1>2
<1>5. new.size = e.size /\ new.circular = db.circular
  BY <1>1, <1>2
<1> HIDE DEF new
<1> QED BY <1>3, <1>4, <1>5, Zenon DEF IsRows

\* A flush, however it ends, leaves rows and an entry that fit.
LEMMA FlushedEntry ==
    ASSUME NEW e, Fits(e, db), NEW replace, NEW outcome \in FlushOutcomes(e, replace)
    PROVE  /\ Fits(outcome[2], outcome[1]) /\ outcome[2].pins = e.pins
           /\ db.size # NoFile => outcome[1].size # NoFile
           /\ outcome[1].circular = db.circular
<1>1. CASE outcome = <<db, e>>
  BY <1>1
<1>2. CASE Dirty(e) /\ outcome = <<db, AfterError(e)>>
  <2>1. Fits(AfterError(e), db) /\ AfterError(e).pins = e.pins
    BY <1>2, RefusedEntry, Zenon DEF Fits
  <2> QED BY <1>2, <2>1
<1>3. CASE Dirty(e) /\ outcome = <<Saved(e, replace), Cleared(e)>>
  <2>1. Fits(Cleared(e), Saved(e, replace)) /\ Cleared(e).pins = e.pins
    BY <1>3, SavedRows, ClearedEntry, Zenon DEF Fits
  <2>2. Saved(e, replace).size # NoFile /\ Saved(e, replace).circular = db.circular
    BY <1>3, SavedRows, Zenon DEF Dirty
  <2> QED BY <1>3, <2>1, <2>2
<1>4. CASE Dirty(e) /\ outcome = <<Saved(e, replace), e>>
  <2>1. Saved(e, replace).size # NoFile /\ Saved(e, replace).circular = db.circular
    BY <1>4, SavedRows, Zenon DEF Dirty
  <2>2. Fits(e, Saved(e, replace))
    BY <1>4, <2>1, SavedRows, Zenon DEF Fits
  <2> QED BY <1>4, <2>1, <2>2
<1> QED BY <1>1, <1>2, <1>3, <1>4, Zenon DEF FlushOutcomes

-----------------------------------------------------------------------------
(* Steps. *)

\* At the start there is nothing in the cache.
LEMMA InitHolds == Init => StoreInv
<1> SUFFICES ASSUME Init PROVE StoreInv
  OBVIOUS
<1>1. FieldsTyped
  BY DEF Init, FieldsTyped
<1>2. IsRows(db) /\ db.size = NoFile
  <2>1. NoRows \in [size : Sizes, circular : BOOLEAN, parts : {NoParts}]
    BY DEF NoRows, Sizes
  <2> QED BY <2>1 DEF IsRows, Init, NoRows
<1>3. IsEntry(Clean) /\ ~Dirty(Clean) /\ Clean.pins = 0
  <2>1. 0 \in 0 .. MaxFlushErrors
    BY FileStoreAssumption
  <2>2. Clean \in [pins : Int, size : Sizes, circular : BOOLEAN, parts : {NoParts},
                   errors : 0 .. MaxFlushErrors]
    BY <2>1 DEF Clean, Sizes
  <2> QED BY <2>2 DEF IsEntry, Dirty, Clean
<1>4. \A e \in Entries : entries[e] = Clean
  BY DEF Init
<1>5. \A e \in Entries : Fits(entries[e], db)
  BY <1>2, <1>3, <1>4, Zenon DEF Fits
<1>6. PinsHeld
  BY <1>3, <1>4, FirstEntry DEF Init, PinsHeld
<1>7. PinsAreCounted
  BY DEF Init, PinsAreCounted
<1> QED BY <1>1, <1>5, <1>6, <1>7 DEF StoreInv

\* What a thread that holds the lock knows.
LEMMA HeldEntry ==
    ASSUME StoreInv, NEW t \in Threads, pc[t] \in {"pinned", "done"}
    PROVE  /\ holds[t] = cache /\ cache \in Entries /\ Entry(t) = entries[cache]
           /\ Fits(entries[cache], db)
<1>1. holds[t] # NoEntry
  BY DEF StoreInv, PinsHeld
<1>2. holds[t] = cache /\ cache \in Entries
  BY <1>1 DEF StoreInv, PinsAreCounted, FieldsTyped
<1> QED BY <1>2 DEF StoreInv, Entry

\* An operation ends: its entry has the pins it had, and fits the rows it leaves.
LEMMA LeavesStep ==
    ASSUME StoreInv, NEW t \in Threads, Locks(t), NEW e, Leaves(t, e),
           e.pins = Entry(t).pins, Fits(e, db')
    PROVE  StoreInv'
<1>1. pc[t] = "pinned" /\ holds[t] = cache /\ cache \in Entries
  BY HeldEntry DEF Locks
<1>2. /\ entries' = [entries EXCEPT ![cache] = e] /\ pc' = [pc EXCEPT ![t] = "done"]
      /\ cache' = cache /\ holds' = holds
  BY <1>1 DEF Leaves
<1>3. FieldsTyped'
  BY <1>1, <1>2 DEF StoreInv, FieldsTyped
<1>4. entries'[cache] = e /\ \A f \in Entries : f # cache => entries'[f] = entries[f]
  BY <1>1, <1>2 DEF StoreInv, FieldsTyped
<1>5. \A f \in Entries : Fits(entries'[f], db')
  <2>1. IsRows(db')
    BY DEF Fits
  <2>2. ASSUME NEW f \in Entries, f # cache PROVE Fits(entries[f], db')
    <3>1. IsEntry(entries[f]) /\ ~Dirty(entries[f])
      BY <2>2 DEF StoreInv, PinsHeld, Fits
    <3> QED BY <2>1, <3>1, Zenon DEF Fits
  <2> QED BY <1>4, <2>2, Zenon
<1>6. PinsHeld'
  <2>1. \A s \in Threads : pc'[s] \in {"pinned", "done"} <=> holds'[s] # NoEntry
    BY <1>1, <1>2 DEF StoreInv, PinsHeld, FieldsTyped
  <2> QED BY <1>2, <1>4, <2>1 DEF StoreInv, PinsHeld
<1>7. PinsAreCounted'
  <2>1. e.pins = entries[cache].pins
    BY <1>1 DEF Entry
  <2> QED BY <1>1, <1>2, <1>4, <2>1 DEF StoreInv, PinsAreCounted
<1> QED BY <1>3, <1>5, <1>6, <1>7 DEF StoreInv

\* The entry that is pinned is the one there is, or a new one that is as good as untouched.
LEMMA PinStep ==
    ASSUME StoreInv, NEW t \in Threads, Pin(t)
    PROVE  StoreInv'
<1>1. pc[t] \in {"idle", "flushing"} /\ holds[t] = NoEntry
  BY DEF Pin, StoreInv, PinsHeld
<1>2. /\ cache' \in Entries
      /\ cache # NoEntry => cache' = cache
      /\ cache = NoEntry => \A s \in Threads : holds[s] = NoEntry
      /\ entries[cache'].pins = Cardinality(Holders)
  <2>1. CASE cache = NoEntry
    <3>1. \A s \in Threads : holds[s] = NoEntry
      BY <2>1 DEF StoreInv, PinsAreCounted
    <3>2. {e \in Entries : Unused(e)} = Entries
      BY <2>1, <3>1, FirstEntry DEF Unused
    <3>3. cache' = Min(Entries)
      BY <2>1, <3>2, Zenon DEF Pin
    <3>4. cache' \in Entries /\ cache' # cache
      BY <2>1, <3>3, LeastOfAll, FirstEntry
    <3>5. Holders = {}
      BY <3>1 DEF Holders
    <3> QED BY <2>1, <3>1, <3>4, <3>5, FS_EmptySet DEF StoreInv, PinsHeld
  <2>2. CASE cache # NoEntry
    BY <2>2 DEF Pin, StoreInv, FieldsTyped, PinsAreCounted, Holders
  <2> QED BY <2>1, <2>2
<1> DEFINE old == entries[cache']
           new == [old EXCEPT !.pins = old.pins + 1]
<1>3. Fits(old, db)
  BY <1>2 DEF StoreInv
<1>4. new.pins = old.pins + 1 /\ Fits(new, db) /\ (Dirty(new) <=> Dirty(old))
  <2>1. old.pins + 1 \in Int
    BY <1>3, EntryFields DEF Fits
  <2> DEFINE n == old.pins + 1
  <2> HIDE DEF n, old
  <2> QED BY <1>3, <2>1, Repinned, Zenon DEF n
<1>5. /\ entries' = [entries EXCEPT ![cache'] = new]
      /\ holds' = [holds EXCEPT ![t] = cache'] /\ pc' = [pc EXCEPT ![t] = "pinned"] /\ db' = db
  BY DEF Pin
<1> HIDE DEF new
<1>6. entries'[cache'] = new /\ \A e \in Entries : e # cache' => entries'[e] = entries[e]
  BY <1>2, <1>5 DEF StoreInv, FieldsTyped
<1>7. FieldsTyped'
  BY <1>2, <1>5 DEF StoreInv, FieldsTyped
<1>8. \A e \in Entries : Fits(entries'[e], db')
  BY <1>4, <1>5, <1>6, Zenon DEF StoreInv
<1>9. PinsHeld'
  <2>1. \A s \in Threads : pc'[s] \in {"pinned", "done"} <=> holds'[s] # NoEntry
    BY <1>2, <1>5, FirstEntry DEF StoreInv, PinsHeld, FieldsTyped
  <2>2. \A e \in Entries : e # cache' => e # cache
    BY <1>2, FirstEntry
  <2> QED BY <1>6, <2>1, <2>2 DEF StoreInv, PinsHeld
<1>10. PinsAreCounted'
  <2>1. {s \in Threads : holds'[s] # NoEntry} = Holders \cup {t}
    BY <1>2, <1>5, FirstEntry DEF StoreInv, FieldsTyped, Holders
  <2>2. t \notin Holders
    BY <1>1 DEF Holders
  <2>3. Cardinality(Holders \cup {t}) = Cardinality(Holders) + 1
    BY <2>2, HoldersFinite, FS_AddElement
  <2>4. entries'[cache'].pins = Cardinality(Holders) + 1
    BY <1>2, <1>4, <1>6
  <2>5. \A s \in Threads : holds'[s] # NoEntry => holds'[s] = cache'
    BY <1>2, <1>5 DEF StoreInv, FieldsTyped, PinsAreCounted
  <2> QED BY <2>1, <2>3, <2>4, <2>5 DEF PinsAreCounted
<1> QED BY <1>7, <1>8, <1>9, <1>10 DEF StoreInv

\* Of the others' pins none goes; the entry goes with the last, and then it is clean.
LEMMA UnpinStep ==
    ASSUME StoreInv, NEW t \in Threads, Unpin(t)
    PROVE  StoreInv'
<1>1. /\ pc[t] = "done" /\ holds[t] = cache /\ cache \in Entries /\ cache # NoEntry
      /\ Fits(entries[cache], db)
  BY HeldEntry, FirstEntry DEF Unpin
<1> DEFINE old == entries[cache]
           new == Unpinned(old)
<1>2. new.pins = old.pins - 1 /\ Fits(new, db) /\ (Dirty(new) <=> Dirty(old))
  <2>1. old.pins - 1 \in Int
    BY <1>1, EntryFields DEF Fits
  <2> DEFINE n == old.pins - 1
  <2> HIDE DEF n
  <2>2. Fits(old, db)
    BY <1>1
  <2>3. new = [old EXCEPT !.pins = n]
    BY DEF Unpinned, n
  <2> HIDE DEF old, new
  <2> QED BY <2>1, <2>2, <2>3, Repinned, Zenon DEF n
<1>3. /\ entries' = [entries EXCEPT ![cache] = new]
      /\ cache' = IF MayGo(new) THEN NoEntry ELSE cache
      /\ holds' = [holds EXCEPT ![t] = NoEntry] /\ pc' = [pc EXCEPT ![t] = "idle"] /\ db' = db
  BY <1>1 DEF Unpin
<1> HIDE DEF new
<1>4. entries'[cache] = new /\ \A e \in Entries : e # cache => entries'[e] = entries[e]
  BY <1>1, <1>3 DEF StoreInv, FieldsTyped
<1>5. Cardinality(Holders \ {t}) = Cardinality(Holders) - 1 /\ Cardinality(Holders \ {t}) \in Nat
  <2>1. t \in Holders
    BY <1>1 DEF Holders
  <2>2. IsFiniteSet(Holders \ {t}) /\ Cardinality(Holders \ {t}) = Cardinality(Holders) - 1
    BY <2>1, HoldersFinite, FS_RemoveElement
  <2> QED BY <2>2, FS_CardinalityType
<1>6. {s \in Threads : holds'[s] # NoEntry} = Holders \ {t}
  BY <1>3 DEF StoreInv, FieldsTyped, Holders
<1>7. new.pins = Cardinality(Holders \ {t})
  BY <1>1, <1>2, <1>5 DEF StoreInv, PinsAreCounted, Holders
<1>8. MayGo(new) => new.pins = 0 /\ ~Dirty(new)
  <2>1. MayGo(new) => new.pins <= 0 /\ ~Dirty(new)
    BY Zenon DEF MayGo
  <2>2. new.pins \in Nat
    BY <1>5, <1>7
  <2> QED BY <2>1, <2>2
<1>9. MayGo(new) => Holders \ {t} = {}
  <2>1. IsFiniteSet(Holders \ {t})
    BY HoldersFinite, FS_Subset
  <2> QED BY <1>7, <1>8, <2>1, FS_EmptySet
<1>10. FieldsTyped'
  BY <1>1, <1>3 DEF StoreInv, FieldsTyped
<1>11. \A e \in Entries : Fits(entries'[e], db')
  BY <1>2, <1>3, <1>4, Zenon DEF StoreInv
<1>12. PinsHeld'
  <2>1. \A s \in Threads : pc'[s] \in {"pinned", "done"} <=> holds'[s] # NoEntry
    BY <1>1, <1>3 DEF StoreInv, PinsHeld, FieldsTyped
  <2>2. ASSUME NEW e \in Entries, e # cache' PROVE entries'[e].pins = 0 /\ ~Dirty(entries'[e])
    <3>1. CASE e = cache
      BY <1>3, <1>4, <1>8, <2>2, <3>1
    <3>2. CASE e # cache
      BY <1>4, <3>2 DEF StoreInv, PinsHeld
    <3> QED BY <3>1, <3>2
  <2> QED BY <2>1, <2>2 DEF PinsHeld
<1>13. PinsAreCounted'
  <2>1. \A s \in Threads : holds'[s] # NoEntry => s \in Holders \ {t} /\ holds'[s] = cache
    BY <1>3, <1>6 DEF StoreInv, FieldsTyped, PinsAreCounted
  <2>2. \A s \in Threads : holds'[s] # NoEntry => holds'[s] = cache'
    BY <1>3, <1>9, <2>1
  <2>3. cache' # NoEntry => entries'[cache'].pins = Cardinality(Holders \ {t})
    BY <1>3, <1>4, <1>7
  <2> QED BY <1>6, <2>2, <2>3 DEF PinsAreCounted
<1> QED BY <1>10, <1>11, <1>12, <1>13 DEF StoreInv

\* The flusher finds something to do; nobody's entry changes.
LEMMA FlushCacheStep ==
    ASSUME StoreInv, NEW t \in Threads, FlushCache(t)
    PROVE  StoreInv'
<1>1. /\ pc[t] = "idle" /\ pc' = [pc EXCEPT ![t] = "flushing"]
      /\ db' = db /\ cache' = cache /\ entries' = entries /\ holds' = holds
  BY DEF FlushCache
<1>2. FieldsTyped'
  BY <1>1 DEF StoreInv, FieldsTyped
<1>3. PinsHeld'
  BY <1>1 DEF StoreInv, PinsHeld, FieldsTyped
<1>4. PinsAreCounted'
  BY <1>1 DEF StoreInv, PinsAreCounted
<1> QED BY <1>1, <1>2, <1>3, <1>4 DEF StoreInv

\* After a crash there are only the rows.
LEMMA CrashStep == ASSUME StoreInv, Crash PROVE StoreInv'
<1>1. IsRows(db')
  BY FirstEntry DEF Crash, StoreInv, Fits
<1>2. IsEntry(Clean) /\ ~Dirty(Clean) /\ Clean.pins = 0
  <2>1. 0 \in 0 .. MaxFlushErrors
    BY FileStoreAssumption
  <2>2. Clean \in [pins : Int, size : Sizes, circular : BOOLEAN, parts : {NoParts},
                   errors : 0 .. MaxFlushErrors]
    BY <2>1 DEF Clean, Sizes
  <2> QED BY <2>2 DEF IsEntry, Dirty, Clean
<1>3. \A e \in Entries : entries'[e] = Clean
  BY DEF Crash
<1>4. \A e \in Entries : Fits(entries'[e], db')
  BY <1>1, <1>2, <1>3, Zenon DEF Fits
<1>5. FieldsTyped'
  BY DEF Crash, FieldsTyped
<1>6. PinsHeld'
  BY <1>2, <1>3 DEF Crash, PinsHeld
<1>7. PinsAreCounted'
  BY DEF Crash, PinsAreCounted
<1> QED BY <1>4, <1>5, <1>6, <1>7 DEF StoreInv

\* What a write leaves, with the parts loaded that it does not cover.
LEMMA WrittenAtEntry ==
    ASSUME NEW e, Fits(e, db), Dirty(e), NEW offset \in Nat, NEW n \in Nat, NEW k
    PROVE  LET new == WrittenAt(e, offset, n, k) IN
             Fits(new, db) /\ new.pins = e.pins /\ Dirty(new)
<1> DEFINE wanted == IncompleteParts(e, offset, n)
           mid == WithParts(e, wanted)
           new == WriteInto(mid, offset, n, k)
<1> HIDE DEF wanted
<1>1. IsEntry(mid) /\ mid.pins = e.pins /\ mid.size = e.size /\ mid.circular = e.circular
  BY EntryWithParts, Zenon DEF Fits
<1> HIDE DEF mid
<1>2. Dirty(mid)
  BY <1>1, Zenon DEF Dirty
<1>3. IsEntry(new) /\ new.pins = mid.pins /\ Dirty(new) /\ new.circular = mid.circular
  BY <1>1, <1>2, WrittenEntry
<1> HIDE DEF new
<1>4. Fits(new, db) /\ new.pins = e.pins /\ Dirty(new)
  BY <1>1, <1>3, Zenon DEF Fits
<1> QED BY <1>4, Zenon DEF new, mid, wanted, WrittenAt

\* What is left of a file that another text replaces.
LEMMA ReplacedEntry ==
    ASSUME NEW e, Fits(e, db), Dirty(e), NEW n \in Nat, NEW k
    PROVE  LET new == ReplaceAll(e, n, k) IN
             Fits(new, db) /\ new.pins = e.pins /\ Dirty(new)
<1> DEFINE mid == [e EXCEPT !.size = 0, !.parts = NoParts]
           start == 0
           new == WriteInto(mid, start, n, k)
<1>1. IsEntry(mid) /\ mid.pins = e.pins /\ mid.size = 0 /\ mid.circular = e.circular
  <2>1. PICK q : e \in [pins : Int, size : Sizes, circular : BOOLEAN, parts : {q},
                        errors : 0 .. MaxFlushErrors]
    BY DEF Fits, IsEntry
  <2>2. mid \in [pins : Int, size : Sizes, circular : BOOLEAN, parts : {NoParts},
                 errors : 0 .. MaxFlushErrors]
    BY <2>1 DEF Sizes
  <2>3. mid.pins = e.pins /\ mid.size = 0 /\ mid.circular = e.circular
    BY <2>1
  <2> QED BY <2>2, <2>3 DEF IsEntry
<1> HIDE DEF mid
<1>2. Dirty(mid)
  BY <1>1 DEF Dirty, NoFile
<1>3. start \in Nat
  OBVIOUS
<1> HIDE DEF start
<1>4. IsEntry(new) /\ new.pins = mid.pins /\ Dirty(new) /\ new.circular = mid.circular
  <2>1. IsEntry(mid)
    BY <1>1
  <2>2. mid.circular = e.circular /\ mid.pins = e.pins
    BY <1>1
  <2>3. /\ IsEntry(WriteInto(mid, start, n, k)) /\ WriteInto(mid, start, n, k).pins = mid.pins
        /\ Dirty(WriteInto(mid, start, n, k)) /\ WriteInto(mid, start, n, k).circular = mid.circular
    BY <1>2, <1>3, <2>1, WrittenEntry, SMT
  <2> QED BY <2>3
<1> HIDE DEF new
<1>5. Fits(new, db) /\ new.pins = e.pins /\ Dirty(new)
  BY <1>1, <1>4, Zenon DEF Fits
<1> QED BY <1>5, Zenon DEF new, start, mid, ReplaceAll

\* The texts that replace a file, and the lengths of writes.
LEMMA TextsAreNat == Lengths \subseteq Nat /\ \A e : Texts(e) \subseteq Nat
<1>1. Lengths \subseteq Nat /\ 0 \in Nat
  BY FileStoreAssumption
<1> QED BY <1>1 DEF Texts

\* One step for every operation: what it leaves of its entry, and of the rows.
LEMMA OperationStep ==
    ASSUME StoreInv, NEW t \in Threads, Operation(t)
    PROVE  StoreInv'
<1> DEFINE e == Entry(t)
<1>1. Locks(t)
  BY DEF Operation, ReadFile, MakeFile, DeleteFile, WriteMeta, WriteAt, WriteFile, CompactIJson, Finds
<1>2. Fits(e, db)
  BY <1>1, HeldEntry DEF Locks
<1>3. CASE ReadFile(t)
  BY <1>1, <1>2, <1>3, LeavesStep DEF ReadFile
<1>4. CASE MakeFile(t)
  <2>1. IsRows(db')
    <3>1. PICK c \in BOOLEAN : db' = [NoRows EXCEPT !.size = 0, !.circular = c]
      BY <1>4 DEF MakeFile
    <3>2. db' \in [size : Sizes, circular : BOOLEAN, parts : {NoParts}]
      BY <3>1 DEF NoRows, Sizes
    <3> QED BY <3>2 DEF IsRows
  <2>2. ~Dirty(e) /\ Leaves(t, e)
    BY <1>4 DEF MakeFile
  <2>3. Fits(e, db')
    BY <1>2, <2>1, <2>2, Zenon DEF Fits
  <2> QED BY <1>1, <2>2, <2>3, LeavesStep
<1>5. CASE DeleteFile(t)
  <2>1. IsRows(db')
    <3>1. db' \in [size : Sizes, circular : BOOLEAN, parts : {NoParts}]
      BY <1>5 DEF DeleteFile, NoRows, Sizes
    <3> QED BY <3>1 DEF IsRows
  <2>2. IsEntry(Cleared(e)) /\ Cleared(e).pins = e.pins /\ ~Dirty(Cleared(e))
    BY <1>2, ClearedEntry, Zenon DEF Fits
  <2>3. Fits(Cleared(e), db')
    BY <2>1, <2>2, Zenon DEF Fits
  <2> QED BY <1>1, <1>5, <2>2, <2>3, LeavesStep DEF DeleteFile
<1>6. ASSUME Finds(t)
      PROVE  /\ Fits(WithFile(e), db) /\ WithFile(e).pins = e.pins /\ Dirty(WithFile(e))
             /\ WithFile(e).size \in Nat
  <2>1. Dirty(e) \/ db.size # NoFile
    BY <1>6 DEF Finds
  <2>2. Fits(WithFile(e), db) /\ WithFile(e).pins = e.pins /\ Dirty(WithFile(e))
    BY <1>2, <2>1, EntryWithFile, Zenon
  <2>3. WithFile(e).size \in Sizes
    BY <2>2, EntryFields DEF Fits
  <2> QED BY <2>2, <2>3 DEF Dirty, Sizes
<1>7. CASE WriteMeta(t)
  <2>1. Finds(t) /\ Leaves(t, WithFile(e)) /\ db' = db
    BY <1>7 DEF WriteMeta
  <2> QED BY <1>1, <1>6, <2>1, LeavesStep
<1>8. CASE WriteAt(t)
  <2>1. Finds(t) /\ db' = db
    BY <1>8 DEF WriteAt
  <2>2. PICK offset \in 0 .. WithFile(e).size, n \in Lengths, k \in Kinds :
          Leaves(t, WrittenAt(WithFile(e), offset, n, k))
    BY <1>8 DEF WriteAt
  <2>3. offset \in Nat /\ n \in Nat
    BY <1>6, <2>1, TextsAreNat
  <2> DEFINE file == WithFile(e)
           new == WrittenAt(WithFile(e), offset, n, k)
  <2>4. Fits(new, db) /\ new.pins = WithFile(e).pins
    <3>1. Fits(file, db) /\ Dirty(file)
      BY <1>6, <2>1
    <3> HIDE DEF file
    <3>2. LET w == WrittenAt(file, offset, n, k) IN Fits(w, db) /\ w.pins = file.pins /\ Dirty(w)
      BY <2>3, <3>1, WrittenAtEntry, Zenon
    <3> QED BY <3>2, Zenon DEF file
  <2> HIDE DEF new
  <2>5. Fits(new, db') /\ new.pins = Entry(t).pins /\ Leaves(t, new)
    BY <1>6, <2>1, <2>2, <2>4, Zenon DEF new
  <2> QED BY <1>1, <2>5, LeavesStep
<1>9. CASE WriteFile(t)
  <2>1. Finds(t)
    BY <1>9 DEF WriteFile
  <2>2. PICK n \in Texts(e), k \in Kinds :
          \E outcome \in FlushOutcomes(ReplaceAll(WithFile(e), n, k), TRUE) :
              db' = outcome[1] /\ Leaves(t, outcome[2])
    BY <1>9 DEF WriteFile
  <2>3. n \in Nat
    BY TextsAreNat
  <2> DEFINE mid == ReplaceAll(WithFile(e), n, k)
  <2>4. Fits(mid, db) /\ mid.pins = e.pins
    BY <1>6, <2>1, <2>3, ReplacedEntry, Zenon
  <2> HIDE DEF mid
  <2>5. PICK outcome \in FlushOutcomes(mid, TRUE) : db' = outcome[1] /\ Leaves(t, outcome[2])
    BY <2>2 DEF mid
  <2>6. Fits(outcome[2], db') /\ outcome[2].pins = Entry(t).pins
    BY <2>4, <2>5, FlushedEntry, Zenon
  <2> QED BY <1>1, <2>5, <2>6, LeavesStep
<1>10. CASE CompactIJson(t)
  <2>1. Finds(t) /\ db' = db
    BY <1>10 DEF CompactIJson
  <2>2. PICK n \in Texts(e), k \in Kinds : Leaves(t, ReplaceAll(WithFile(e), n, k))
    BY <1>10 DEF CompactIJson
  <2>3. n \in Nat
    BY TextsAreNat
  <2> DEFINE new == ReplaceAll(WithFile(e), n, k)
  <2>4. Fits(new, db) /\ new.pins = e.pins
    BY <1>6, <2>1, <2>3, ReplacedEntry, Zenon
  <2> HIDE DEF new
  <2>5. Fits(new, db') /\ new.pins = Entry(t).pins /\ Leaves(t, new)
    BY <2>1, <2>2, <2>4, Zenon DEF new
  <2> QED BY <1>1, <2>5, LeavesStep
<1> QED BY <1>3, <1>4, <1>5, <1>7, <1>8, <1>9, <1>10 DEF Operation

\* The flusher's own.
LEMMA FlushEntryStep ==
    ASSUME StoreInv, NEW t \in Threads, FlushEntry(t)
    PROVE  StoreInv'
<1>1. PICK outcome \in FlushOutcomes(Entry(t), FALSE) : db' = outcome[1] /\ Leaves(t, outcome[2])
  BY DEF FlushEntry
<1>2. Locks(t)
  BY DEF FlushEntry
<1>3. Fits(Entry(t), db)
  BY <1>2, HeldEntry DEF Locks
<1>4. Fits(outcome[2], db') /\ outcome[2].pins = Entry(t).pins
  BY <1>1, <1>3, FlushedEntry, Zenon
<1> QED BY <1>1, <1>2, <1>4, LeavesStep

\* No step leaves the invariant.
LEMMA StepHolds == StoreInv /\ [Next]_vars => StoreInv'
<1> SUFFICES ASSUME StoreInv, [Next]_vars PROVE StoreInv'
  OBVIOUS
<1>1. CASE UNCHANGED vars
  BY <1>1 DEF vars, StoreInv, FieldsTyped, PinsHeld, PinsAreCounted
<1>2. CASE Crash
  BY <1>2, CrashStep
<1>3. ASSUME NEW t \in Threads, Pin(t) \/ Unpin(t) PROVE StoreInv'
  BY <1>3, PinStep, UnpinStep
<1>4. ASSUME NEW t \in Callers, Operation(t) PROVE StoreInv'
  BY <1>4, OperationStep DEF Threads
<1>5. ASSUME NEW t \in Flushers, FlushCache(t) \/ FlushEntry(t) PROVE StoreInv'
  BY <1>5, FlushCacheStep, FlushEntryStep DEF Threads
<1> QED BY <1>1, <1>2, <1>3, <1>4, <1>5 DEF Next

-----------------------------------------------------------------------------
(* Theorems. *)

\* Every entry is of a file that has a row, or clean; and what nobody can find is clean.
THEOREM StoreInvariant == Spec => []StoreInv
BY InitHolds, StepHolds, PTL DEF Spec

\* Callers that work on the file at the same time have the same entry, and so the same
\* lock, however they come, go and overtake the flusher (unpinEntryAndTryDelete).
THEOREM EntriesShared == Spec => []PinsAreCounted
<1>1. StoreInv => PinsAreCounted
  BY DEF StoreInv
<1> QED BY <1>1, StoreInvariant, PTL

\* An entry that equals its rows reads as they do.
LEMMA SavedIsStored ==
    ASSUME NEW e, Fits(e, db), Dirty(e), Saved(e, FALSE) = db
    PROVE  Contents(e, e.parts) = Contents(db, NoParts)
<1>1. PICK p : db \in [size : Sizes, circular : BOOLEAN, parts : {p}]
  BY DEF Fits, IsRows
<1>2. db.size = e.size /\ db.parts = Over(e.parts, db.parts)
  BY <1>1, Zenon DEF Saved
<1>3. e.circular = db.circular
  BY DEF Fits
<1>4. \A i \in DOMAIN e.parts : i \in DOMAIN db.parts /\ db.parts[i] = e.parts[i]
  BY <1>2 DEF Over
<1>5. DOMAIN NoParts = {}
  BY DEF NoParts
<1>6. DataStartIdx(e) = DataStartIdx(db)
  BY <1>2, <1>3, Zenon DEF DataStartIdx
<1>7. \A o : PartIdxAtOffset(e, o) = PartIdxAtOffset(db, o)
  BY <1>3, Zenon DEF PartIdxAtOffset
<1> QED BY <1>2, <1>3, <1>4, <1>5, <1>6, <1>7 DEF Contents

\* A step that makes a caller's write disappear from the cache, without storing it.
LEMMA UnsavedStep ==
    ASSUME StoreInv, Next, Current # Stored, db' = db,
           cache' # cache \/ ~Dirty(entries'[cache])
    PROVE  \/ Crash
           \/ entries[cache].errors = MaxFlushErrors
           \/ \E t \in Callers : WriteFile(t)
<1> DEFINE e == entries[cache]
<1>1. cache \in Entries /\ cache # NoEntry /\ Dirty(e) /\ Fits(e, db)
  BY DEF Current, StoreInv, FieldsTyped
<1>2. ASSUME NEW t \in Threads, Pin(t) PROVE FALSE
  <2>1. cache' = cache /\ entries'[cache].size = e.size
    <3>1. PICK p : e \in [pins : Int, size : Sizes, circular : BOOLEAN, parts : {p},
                          errors : 0 .. MaxFlushErrors]
      BY <1>1 DEF Fits, IsEntry
    <3>2. cache' = cache /\ entries' = [entries EXCEPT ![cache].pins = @ + 1]
      BY <1>1, <1>2 DEF Pin
    <3> QED BY <1>1, <3>1, <3>2 DEF StoreInv, FieldsTyped
  <2> QED BY <1>1, <2>1 DEF Dirty
<1>3. ASSUME NEW t \in Threads, Unpin(t) PROVE FALSE
  <2>1. Unpinned(e).size = e.size
    BY <1>1 DEF Fits, IsEntry, Unpinned
  <2>2. entries'[cache] = Unpinned(e)
    BY <1>1, <1>3 DEF Unpin, StoreInv, FieldsTyped
  <2>3. cache' = cache
    BY <1>1, <1>3, <2>1 DEF Unpin, MayGo, Dirty
  <2> QED BY <1>1, <2>1, <2>2, <2>3 DEF Dirty
<1>4. ASSUME NEW t \in Threads, FlushCache(t) PROVE FALSE
  BY <1>1, <1>4 DEF FlushCache
<1>5. ASSUME NEW t \in Threads, Locks(t)
      PROVE  /\ Entry(t) = e
             /\ \A new : Leaves(t, new) => cache' = cache /\ entries'[cache] = new
  <2>1. holds[t] = cache /\ Entry(t) = e
    BY <1>5, HeldEntry DEF Locks
  <2> QED BY <1>1, <2>1 DEF Leaves, StoreInv, FieldsTyped
<1>6. ASSUME NEW t \in Callers, Operation(t), ~WriteFile(t) PROVE FALSE
  <2>1. t \in Threads /\ Locks(t)
    BY <1>6 DEF Threads, Operation, ReadFile, MakeFile, DeleteFile, WriteMeta, WriteAt, CompactIJson,
                Finds
  <2>2. Entry(t) = e /\ WithFile(e) = e
    BY <1>1, <1>5, <2>1 DEF WithFile
  <2>3. ASSUME NEW new, Leaves(t, new), Dirty(new) PROVE FALSE
    BY <1>5, <2>1, <2>3
  <2>4. CASE ReadFile(t)
    BY <1>1, <2>2, <2>3, <2>4 DEF ReadFile
  <2>5. CASE MakeFile(t)
    BY <1>1, <2>2, <2>5 DEF MakeFile
  <2>6. CASE DeleteFile(t)
    BY <1>1, <2>6 DEF DeleteFile, NoRows, Fits
  <2>7. CASE WriteMeta(t)
    BY <1>1, <2>2, <2>3, <2>7 DEF WriteMeta
  <2>8. CASE WriteAt(t)
    <3>1. PICK offset \in 0 .. e.size, n \in Lengths, k \in Kinds :
            Leaves(t, WrittenAt(e, offset, n, k))
      BY <2>2, <2>8 DEF WriteAt
    <3>2. offset \in Nat /\ n \in Nat
      BY <3>1, TextsAreNat
    <3>3. Dirty(WrittenAt(e, offset, n, k))
      BY <1>1, <3>2, WrittenAtEntry, Zenon
    <3> QED BY <2>3, <3>1, <3>3
  <2>9. CASE CompactIJson(t)
    <3>1. PICK n \in Texts(e), k \in Kinds : Leaves(t, ReplaceAll(e, n, k))
      BY <2>2, <2>9 DEF CompactIJson
    <3>2. Dirty(ReplaceAll(e, n, k))
      BY <1>1, TextsAreNat, ReplacedEntry, Zenon
    <3> QED BY <2>3, <3>1, <3>2
  <2> QED BY <1>6, <2>4, <2>5, <2>6, <2>7, <2>8, <2>9 DEF Operation
<1>7. ASSUME NEW t \in Flushers, FlushEntry(t) PROVE e.errors = MaxFlushErrors
  <2>1. t \in Threads /\ Locks(t)
    BY <1>7 DEF Threads, FlushEntry
  <2>2. PICK outcome \in FlushOutcomes(e, FALSE) : db' = outcome[1] /\ Leaves(t, outcome[2])
    BY <1>5, <1>7, <2>1 DEF FlushEntry
  <2>3. ~Dirty(outcome[2])
    BY <1>5, <2>1, <2>2
  <2>4. CASE outcome = <<db, AfterError(e)>>
    <3>1. ~Dirty(AfterError(e))
      BY <2>3, <2>4
    <3>2. ~(e.errors < MaxFlushErrors)
      BY <1>1, <3>1, RefusedEntry, Zenon DEF Fits, Dirty
    <3>3. e.errors \in 0 .. MaxFlushErrors
      BY <1>1, EntryFields DEF Fits
    <3> QED BY <3>2, <3>3, FileStoreAssumption
  <2>5. CASE outcome = <<Saved(e, FALSE), Cleared(e)>>
    <3>1. Saved(e, FALSE) = db
      BY <2>2, <2>5
    <3> QED BY <1>1, <3>1, SavedIsStored DEF Current, Stored
  <2>6. CASE outcome \in {<<db, e>>, <<Saved(e, FALSE), e>>}
    <3>1. \A a, b : <<a, b>>[2] = b
      OBVIOUS
    <3>2. outcome[2] = e
      BY <2>6, <3>1, Zenon
    <3>3. Dirty(outcome[2])
      BY <1>1, <3>2, Zenon
    <3> QED BY <2>3, <3>3
  <2>7. \/ outcome = <<db, AfterError(e)>> \/ outcome = <<Saved(e, FALSE), Cleared(e)>>
        \/ outcome \in {<<db, e>>, <<Saved(e, FALSE), e>>}
    <3>1. Dirty(e)
      BY <1>1
    <3> HIDE DEF e
    <3> QED BY <2>2, <3>1, Zenon DEF FlushOutcomes
  <2> QED BY <2>4, <2>5, <2>6, <2>7
<1> QED BY <1>2, <1>3, <1>4, <1>6, <1>7 DEF Next, Threads

\* A write that the rows do not have leaves the cache in a crash, with a file that another
\* text replaces, or after MaxFlushErrors refusals and one more.
THEOREM UnsavedKept == Spec => UnsavedStays
<1>1. StoreInv /\ [Next]_vars =>
        [Current # Stored /\ db' = db /\ (cache' # cache \/ ~Dirty(entries'[cache]))
            => \/ Crash
               \/ entries[cache].errors = MaxFlushErrors
               \/ \E t \in Callers : WriteFile(t)]_vars
  BY UnsavedStep
<1> QED BY <1>1, StoreInvariant, PTL DEF Spec, UnsavedStays


-----------------------------------------------------------------------------
(* Offsets and parts, for every size of both. *)

\* The largest of a set of numbers, when there is one.
LEMMA MaxOf ==
    ASSUME NEW S, S \subseteq Int, NEW m \in S, \A y \in S : m >= y
    PROVE  Max(S) = m
<1>1. Max(S) \in S /\ \A y \in S : Max(S) >= y
  BY Zenon DEF Max
<1> DEFINE x == Max(S)
<1>2. x \in S /\ x >= m
  BY <1>1
<1> HIDE DEF x
<1>3. x \in Int /\ m \in Int /\ m >= x
  BY <1>2
<1>4. x = m
  BY <1>2, <1>3
<1> QED BY <1>4 DEF x

\* The larger of two numbers, and the largest of three.
LEMMA MaxOfTwo ==
    ASSUME NEW a \in Int, NEW b \in Int
    PROVE  Max({a, b}) = IF a >= b THEN a ELSE b
<1> DEFINE S == {a, b}
           m == IF a >= b THEN a ELSE b
<1>1. S \subseteq Int /\ m \in S /\ \A y \in S : m >= y
  OBVIOUS
<1> HIDE DEF S, m
<1>2. Max(S) = m
  BY <1>1, MaxOf
<1> QED BY <1>2 DEF S, m

\* The largest of three, as FirstStored needs it.
LEMMA MaxOfThree ==
    ASSUME NEW a \in Int, NEW b \in Int, NEW c \in Int
    PROVE  LET m == Max({a, b, c}) IN
             m \in {a, b, c} /\ m \in Int /\ m >= a /\ m >= b /\ m >= c
<1> DEFINE S == {a, b, c}
           n == IF a >= b /\ a >= c THEN a ELSE IF b >= c THEN b ELSE c
<1>1. S \subseteq Int /\ n \in S /\ \A y \in S : n >= y
  OBVIOUS
<1>2. n >= a /\ n >= b /\ n >= c /\ n \in Int
  OBVIOUS
<1> HIDE DEF S, n
<1>3. Max(S) = n
  BY <1>1, MaxOf
<1> QED BY <1>1, <1>2, <1>3 DEF S

\* A set of finitely many numbers has a largest.
LEMMA FiniteHasLargest ==
    ASSUME NEW S, S \subseteq Int, IsFiniteSet(S), S # {}
    PROVE  \E n \in S : \A m \in S : n >= m
<1> DEFINE Above(n) == {m \in S : m > n}
           T == {Above(n) : n \in S}
           F == FiniteSubsetsOf(S)
<1>1. T \subseteq F
  <2>1. ASSUME NEW n \in S PROVE Above(n) \in F
    <3>1. Above(n) \in SUBSET S
      OBVIOUS
    <3>2. IsFiniteSet(Above(n))
      BY <3>1, FS_Subset
    <3> QED BY <3>1, <3>2 DEF FiniteSubsetsOf
  <2> QED BY <2>1
<1>2. PICK x \in T : \A y \in T : ~ (<<y, x>> \in StrictSubsetOrdering(S))
  <2>1. IsWellFoundedOn(StrictSubsetOrdering(S), F)
    BY FS_StrictSubsetOrderingWellFounded
  <2>2. T # {}
    OBVIOUS
  <2> HIDE DEF T, F
  <2> QED BY <1>1, <2>1, <2>2, WFMin
<1>3. PICK n \in S : x = Above(n)
  OBVIOUS
<1>4. ASSUME NEW m \in S, m > n PROVE FALSE
  <2>1. Above(m) \in T
    OBVIOUS
  <2>2. Above(m) \subseteq Above(n) /\ m \in Above(n) /\ m \notin Above(m)
    <3>1. m \in Int /\ n \in Int /\ ~ (m > m)
      OBVIOUS
    <3>2. \A k \in S : k > m => k > n
      BY <1>4, <3>1
    <3> QED BY <1>4, <3>1, <3>2, Zenon
  <2>3. <<Above(m), x>> \in StrictSubsetOrdering(S)
    BY <1>3, <2>2 DEF StrictSubsetOrdering
  <2> QED BY <1>2, <2>1, <2>3
<1> QED BY <1>4

\* The sizes are what the code takes them for.
LEMMA SizeFacts ==
    /\ PartSize \in Nat \ {0} /\ MaxSize \in Nat \ {0} /\ MaxSize % PartSize = 0
    /\ MaxSize \in Nat /\ MaxSize > 0 /\ PartSize \in Nat /\ PartSize > 0
BY FileStoreAssumption

\* Where an offset falls: the place of its byte among the parts, put end to end.
LEMMA PlaceOf ==
    ASSUME NEW file, NEW o \in Nat
    PROVE  /\ PartIdxAtOffset(file, o) \in Nat /\ o % PartSize \in 0 .. PartSize - 1
           /\ (PartIdxAtOffset(file, o) * PartSize) + (o % PartSize)
                = IF file.circular THEN o % MaxSize ELSE o
<1>1. /\ o \div PartSize \in Nat /\ o % PartSize \in 0 .. PartSize - 1
      /\ o = (PartSize * (o \div PartSize)) + (o % PartSize)
  BY SizeFacts, ModDivision
<1>2. CASE file.circular
  <2>1. /\ (o \div PartSize) % (MaxSize \div PartSize) \in Nat
        /\ (((o \div PartSize) % (MaxSize \div PartSize)) * PartSize) + (o % PartSize) = o % MaxSize
    BY SizeFacts, PartOfRing, Zenon
  <2> QED BY <1>1, <1>2, <2>1, Zenon DEF PartIdxAtOffset
<1>3. CASE ~ file.circular
  <2>1. PartIdxAtOffset(file, o) = o \div PartSize
    BY <1>3 DEF PartIdxAtOffset
  <2> DEFINE q == o \div PartSize
             r == o % PartSize
  <2>2. q \in Nat /\ o = (PartSize * q) + r
    BY <1>1
  <2> HIDE DEF q, r
  <2>3. PartSize * q = q * PartSize
    BY <2>2, SizeFacts
  <2>4. (q * PartSize) + r = o
    BY <2>2, <2>3
  <2> QED BY <1>1, <1>3, <2>1, <2>4 DEF q, r
<1> QED BY <1>2, <1>3

\* A part and a byte of it stand for the one offset not below from, and less than a lap behind
\* it, that falls there.
LEMMA OffsetFound ==
    ASSUME NEW file, NEW from \in Nat, NEW o \in Nat,
           file.circular => from <= o /\ o < from + MaxSize
    PROVE  OffsetAt(file, from, PartIdxAtOffset(file, o), o % PartSize) = o
<1> DEFINE i == PartIdxAtOffset(file, o)
           b == o % PartSize
           place == (i * PartSize) + b
<1>1. place = IF file.circular THEN o % MaxSize ELSE o
  BY PlaceOf
<1>2. OffsetAt(file, from, i, b)
        = IF file.circular THEN from + ((place - from) % MaxSize) ELSE place
  BY DEF OffsetAt
<1> HIDE DEF place, i, b
<1>3. CASE file.circular
  <2>1. from + (((o % MaxSize) - from) % MaxSize) = o
    BY <1>3, SizeFacts, ModFound
  <2> QED BY <1>1, <1>2, <1>3, <2>1 DEF i, b
<1>4. CASE ~ file.circular
  BY <1>1, <1>2, <1>4 DEF i, b
<1> QED BY <1>3, <1>4

\* An offset that lies before from is found a lap further.
LEMMA OffsetAhead ==
    ASSUME NEW file, NEW from \in Nat, NEW o \in Nat, file.circular,
           o < from, from <= o + MaxSize
    PROVE  OffsetAt(file, from, PartIdxAtOffset(file, o), o % PartSize) = o + MaxSize
<1> DEFINE p == o + MaxSize
<1>1. p \in Nat /\ from <= p /\ p < from + MaxSize
  BY SizeFacts
<1>2. p % PartSize = o % PartSize /\ PartIdxAtOffset(file, p) = PartIdxAtOffset(file, o)
  <2>1. /\ (o + MaxSize) % PartSize = o % PartSize
        /\ ((o + MaxSize) \div PartSize) % (MaxSize \div PartSize)
             = (o \div PartSize) % (MaxSize \div PartSize)
    BY SizeFacts, LapOfParts, Zenon
  <2> QED BY <2>1, Zenon DEF PartIdxAtOffset
<1>3. OffsetAt(file, from, PartIdxAtOffset(file, p), p % PartSize) = p
  <2> HIDE DEF p
  <2> QED BY <1>1, OffsetFound
<1> QED BY <1>2, <1>3

\* The bytes of the part that begins at p fall on that part.
LEMMA BytesOfPart ==
    ASSUME NEW file, NEW p \in Nat, p % PartSize = 0, NEW b \in 0 .. PartSize - 1
    PROVE  PartIdxAtOffset(file, p + b) = PartIdxAtOffset(file, p) /\ (p + b) % PartSize = b
BY SizeFacts, PartBytes DEF PartIdxAtOffset

-----------------------------------------------------------------------------
(* The file that is read: cached parts over those of the rows. *)

\* A byte of a part: from the cache, else from the rows, else one nobody wrote.
Shows(parts, rows, i, b) ==
    IF i \in DOMAIN parts THEN parts[i][b] ELSE IF i \in DOMAIN rows THEN rows[i][b] ELSE Zero

ShowsAt(file, parts, rows, o) == Shows(parts, rows, PartIdxAtOffset(file, o), o % PartSize)

View(file, parts, rows) ==
    [size |-> file.size, circular |-> file.circular,
     bytes |-> [o \in Abstract!Shown(file.size, file.circular) |-> ShowsAt(file, parts, rows, o)]]

\* Where a file that is read begins.
LEMMA StartOfFile ==
    ASSUME NEW file, file.size \in Int
    PROVE  DataStartIdx(file) .. file.size - 1 = Abstract!Shown(file.size, file.circular)
<1>1. Max({0, file.size - MaxSize}) = IF file.size > MaxSize THEN file.size - MaxSize ELSE 0
  <2> DEFINE d == file.size - MaxSize
  <2>1. d \in Int /\ (0 >= d <=> ~ (file.size > MaxSize))
    BY SizeFacts
  <2> HIDE DEF d
  <2>2. Max({0, d}) = IF 0 >= d THEN 0 ELSE d
    BY <2>1, MaxOfTwo
  <2> QED BY <2>1, <2>2 DEF d
<1> QED BY <1>1, Zenon DEF DataStartIdx, Abstract!Shown

\* readAt of the whole file shows that.
LEMMA ContentsView ==
    ASSUME NEW file, file.size \in Int, NEW cached
    PROVE  Contents(file, cached) = View(file, cached, db.parts)
<1>1. \A i, b : (CASE i \in DOMAIN cached -> cached[i][b]
                   [] i \notin DOMAIN cached /\ i \in DOMAIN db.parts -> db.parts[i][b]
                   [] OTHER -> Zero)
                = Shows(cached, db.parts, i, b)
  BY DEF Shows
<1> QED BY <1>1, StartOfFile DEF Contents, View, ShowsAt


-----------------------------------------------------------------------------
(* writeAt, byte by byte. *)

\* The bytes from .. end - 1 have one in part i.
Touches(file, from, end, i) == \E p \in from .. end - 1 : PartIdxAtOffset(file, p) = i

\* What is in the parts once from .. end - 1 has been written.
LEMMA PartsAfterWrite ==
    ASSUME NEW file, NEW from, NEW end, NEW k, NEW i, NEW b \in 0 .. PartSize - 1
    PROVE  LET parts == PartsWritten(file, from, end, k)
               x == OffsetAt(file, from, i, b) IN
           /\ i \in DOMAIN parts <=> i \in DOMAIN file.parts \/ Touches(file, from, end, i)
           /\ i \in DOMAIN parts =>
                 parts[i][b] = IF x \in from .. end - 1 THEN <<k, x>>
                               ELSE IF i \in DOMAIN file.parts THEN file.parts[i][b] ELSE Zero
<1> DEFINE D == DOMAIN file.parts \cup {PartIdxAtOffset(file, o) : o \in from .. end - 1}
           Byte(j, c) == IF OffsetAt(file, from, j, c) \in from .. end - 1
                         THEN <<k, OffsetAt(file, from, j, c)>>
                         ELSE IF j \in DOMAIN file.parts THEN file.parts[j][c] ELSE Zero
<1>1. PartsWritten(file, from, end, k) = [j \in D |-> [c \in 0 .. PartSize - 1 |-> Byte(j, c)]]
  BY DEF PartsWritten
<1>2. i \in D <=> i \in DOMAIN file.parts \/ Touches(file, from, end, i)
  BY DEF Touches
<1> DEFINE parts == PartsWritten(file, from, end, k)
<1> HIDE DEF D
<1>3. DOMAIN parts = D /\ (i \in D => parts[i][b] = Byte(i, b))
  BY <1>1
<1> QED BY <1>2, <1>3

\* A byte that is written is the one that is read, whatever the rows hold.
LEMMA StoredByte ==
    ASSUME NEW file, NEW from \in Nat, NEW end \in Nat, NEW k, NEW rows,
           NEW o \in from .. end - 1, file.circular => end <= from + MaxSize
    PROVE  ShowsAt(file, PartsWritten(file, from, end, k), rows, o) = <<k, o>>
<1> DEFINE i == PartIdxAtOffset(file, o)
           b == o % PartSize
           parts == PartsWritten(file, from, end, k)
<1>1. o \in Nat /\ from <= o /\ (file.circular => o < from + MaxSize)
  BY SizeFacts
<1>2. OffsetAt(file, from, i, b) = o
  BY <1>1, OffsetFound
<1>3. b \in 0 .. PartSize - 1
  BY <1>1, PlaceOf
<1>4. Touches(file, from, end, i)
  BY DEF Touches
<1> HIDE DEF i, b, parts
<1>5. i \in DOMAIN parts /\ parts[i][b] = <<k, o>>
  BY <1>2, <1>3, <1>4, PartsAfterWrite DEF parts
<1> QED BY <1>5 DEF ShowsAt, Shows, i, b, parts

\* A byte that is not written is read as before, when its part was loaded or is left alone.
LEMMA KeptByte ==
    ASSUME NEW file, NEW from \in Nat, NEW end \in Nat, NEW k, NEW rows, NEW o \in Nat,
           OffsetAt(file, from, PartIdxAtOffset(file, o), o % PartSize) \notin from .. end - 1,
           \/ PartIdxAtOffset(file, o) \in DOMAIN file.parts
           \/ PartIdxAtOffset(file, o) \notin DOMAIN rows
           \/ ~ Touches(file, from, end, PartIdxAtOffset(file, o))
    PROVE  ShowsAt(file, PartsWritten(file, from, end, k), rows, o)
             = ShowsAt(file, file.parts, rows, o)
<1> DEFINE i == PartIdxAtOffset(file, o)
           b == o % PartSize
           parts == PartsWritten(file, from, end, k)
           touched == Touches(file, from, end, i)
<1>1. b \in 0 .. PartSize - 1
  BY PlaceOf
<1>2. /\ i \in DOMAIN parts <=> i \in DOMAIN file.parts \/ touched
      /\ i \in DOMAIN parts =>
            parts[i][b] = IF i \in DOMAIN file.parts THEN file.parts[i][b] ELSE Zero
  <2>1. OffsetAt(file, from, i, b) \notin from .. end - 1
    OBVIOUS
  <2> DEFINE x == OffsetAt(file, from, i, b)
  <2> HIDE DEF i, b
  <2>2. /\ i \in DOMAIN parts <=> i \in DOMAIN file.parts \/ touched
        /\ i \in DOMAIN parts =>
              parts[i][b] = IF x \in from .. end - 1 THEN <<k, x>>
                            ELSE IF i \in DOMAIN file.parts THEN file.parts[i][b] ELSE Zero
    BY <1>1, PartsAfterWrite
  <2> HIDE DEF parts, x
  <2>3. x \notin from .. end - 1
    BY <2>1 DEF x
  <2> QED BY <2>2, <2>3
<1>3. i \in DOMAIN file.parts \/ i \notin DOMAIN rows \/ ~ touched
  OBVIOUS
<1> HIDE DEF i, b, parts, touched
<1>4. Shows(parts, rows, i, b) = Shows(file.parts, rows, i, b)
  BY <1>2, <1>3 DEF Shows
<1> QED BY <1>4 DEF ShowsAt, i, b, parts

\* What is known of the first byte of a write that is stored.
LEMMA FirstStoredFacts ==
    ASSUME NEW file, file.size \in Nat, NEW offset \in Nat, NEW end \in Nat, offset <= end
    PROVE  LET from == FirstStored(file, offset, end) IN
           /\ from \in Nat /\ offset <= from
           /\ ~ file.circular => from = offset
           /\ file.circular =>
                 /\ file.size - MaxSize <= from /\ end - MaxSize <= from
                 /\ from \in {offset, file.size - MaxSize, end - MaxSize}
<1>1. CASE file.circular
  <2> DEFINE s == file.size - MaxSize
             t == end - MaxSize
             from == Max({offset, s, t})
  <2>1. s \in Int /\ t \in Int /\ offset \in Int
    BY SizeFacts
  <2> HIDE DEF s, t
  <2>2. from \in {offset, s, t} /\ from \in Int /\ from >= offset /\ from >= s /\ from >= t
    BY <2>1, MaxOfThree
  <2> HIDE DEF from
  <2>3. from \in Nat /\ offset <= from /\ s <= from /\ t <= from
    BY <2>1, <2>2
  <2>4. FirstStored(file, offset, end) = from
    BY <1>1 DEF FirstStored, from, s, t
  <2> QED BY <1>1, <2>2, <2>3, <2>4 DEF s, t
<1>2. CASE ~ file.circular
  BY <1>2 DEF FirstStored
<1> QED BY <1>1, <1>2

\* A part that a write touches and that is not loaded for it is written whole: every byte of it
\* stands for an offset that is written.
LEMMA CoveredPart ==
    ASSUME NEW file, file.size \in Nat, NEW offset \in Nat, NEW n \in Nat,
           ~ AcrossStart(file, offset, n), ~ (file.circular /\ offset + n <= file.size - MaxSize),
           NEW from, from = FirstStored(file, offset, offset + n),
           NEW p \in from .. offset + n - 1,
           PartIdxAtOffset(file, p) \notin IncompleteParts(file, offset, n),
           NEW b \in 0 .. PartSize - 1
    PROVE  OffsetAt(file, from, PartIdxAtOffset(file, p), b) \in from .. offset + n - 1
<1> DEFINE end == offset + n
           i == PartIdxAtOffset(file, p)
           starts == PartStarts(offset, end)
           V == {s \in starts : PartIdxAtOffset(file, s) = i}
<1>1. end \in Nat /\ offset <= end
  OBVIOUS
<1>2. /\ from \in Nat /\ offset <= from
      /\ ~ file.circular => from = offset
      /\ file.circular =>
            /\ file.size - MaxSize <= from /\ end - MaxSize <= from
            /\ from \in {offset, file.size - MaxSize, end - MaxSize}
  BY <1>1, FirstStoredFacts
<1>3. \E s \in starts : PartIdxAtOffset(file, s) = i
  <2> DEFINE r == p % PartSize
             q == p \div PartSize
             s == PartSize * q
  <2>1. p \in Nat
    BY <1>2
  <2>2. q \in Nat /\ r \in 0 .. PartSize - 1 /\ p = s + r
    BY <2>1, SizeFacts, ModDivision
  <2>3. s \in Nat /\ s % PartSize = 0
    <3>1. s \in Nat
      BY <2>2, SizeFacts
    <3>2. s = (PartSize * q) + 0 /\ 0 \in 0 .. PartSize - 1
      BY <3>1, SizeFacts
    <3> HIDE DEF s, q
    <3> QED BY <2>2, <3>1, <3>2, SizeFacts, ModUnique
  <2> HIDE DEF s, q, r
  <2>4. PartIdxAtOffset(file, s) = i
    <3>1. PartIdxAtOffset(file, s + r) = PartIdxAtOffset(file, s)
      BY <2>2, <2>3, BytesOfPart
    <3> QED BY <2>2, <3>1
  <2>5. s \in 0 .. end /\ s < end /\ s + PartSize > offset
    BY <1>1, <1>2, <2>1, <2>2, <2>3, SizeFacts
  <2>6. s \in starts
    BY <2>3, <2>5 DEF PartStarts
  <2> QED BY <2>4, <2>6
<1>4. PICK L \in V : \A s \in V : L >= s
  <2>1. V \subseteq 0 .. end /\ V # {}
    BY <1>3 DEF PartStarts
  <2>2. IsFiniteSet(0 .. end)
    BY <1>1, FS_Interval
  <2>3. V \subseteq Int /\ IsFiniteSet(V)
    BY <1>1, <2>1, <2>2, FS_Subset
  <2> HIDE DEF V
  <2> QED BY <2>1, <2>3, FiniteHasLargest
<1>5. L \in Nat /\ L % PartSize = 0 /\ L < end /\ L + PartSize > offset
      /\ PartIdxAtOffset(file, L) = i
  BY <1>1 DEF PartStarts
<1>6. offset <= L /\ L + PartSize <= end
  <2>1. V \subseteq Int
    BY DEF PartStarts
  <2>2. Max(V) = L
    <3> HIDE DEF V
    <3> QED BY <1>4, <2>1, MaxOf
  <2>3. i \in {PartIdxAtOffset(file, s) : s \in starts}
    BY <1>3
  <2>4. offset <= Max(V) /\ Max(V) + PartSize <= end
    BY <2>3, Zenon DEF IncompleteParts
  <2> HIDE DEF V
  <2> QED BY <2>2, <2>4
<1>7. file.circular => end - MaxSize <= L
  <2> SUFFICES ASSUME file.circular, L + MaxSize < end PROVE FALSE
    BY <1>1, <1>5, SizeFacts
  <2> DEFINE m == L + MaxSize
  <2>1. m % PartSize = L % PartSize /\ PartIdxAtOffset(file, m) = PartIdxAtOffset(file, L)
    <3>1. /\ (L + MaxSize) % PartSize = L % PartSize
          /\ ((L + MaxSize) \div PartSize) % (MaxSize \div PartSize)
               = (L \div PartSize) % (MaxSize \div PartSize)
      BY <1>5, SizeFacts, LapOfParts, Zenon
    <3> QED BY <3>1, Zenon DEF PartIdxAtOffset
  <2>2. m \in 0 .. end /\ m < end /\ m + PartSize > offset /\ m > L
    BY <1>1, <1>5, SizeFacts
  <2> HIDE DEF m
  <2>3. m \in V
    BY <1>5, <2>1, <2>2 DEF PartStarts
  <2>4. L >= m
    BY <1>4, <2>3
  <2> QED BY <1>5, <2>2, <2>4
<1>8. from <= L
  <2>1. CASE file.circular
    <3> DEFINE t == file.size - MaxSize
    <3>1. t \in Int /\ ~ (offset < t /\ t < end) /\ ~ (end <= t)
      BY <2>1, SizeFacts DEF AcrossStart
    <3> HIDE DEF t
    <3>2. t <= offset
      BY <1>1, <3>1
    <3> QED BY <1>2, <1>5, <1>6, <1>7, <2>1, <3>1, <3>2, SizeFacts DEF t
  <2>2. CASE ~ file.circular
    BY <1>2, <1>6, <2>2
  <2> QED BY <2>1, <2>2
<1> DEFINE y == L + b
<1>9. y \in Nat /\ from <= y /\ y < end /\ (file.circular => y < from + MaxSize)
  BY <1>1, <1>2, <1>5, <1>6, <1>8, SizeFacts
<1>10. PartIdxAtOffset(file, y) = i /\ y % PartSize = b
  BY <1>5, BytesOfPart
<1> HIDE DEF y, i, end
<1>11. OffsetAt(file, from, PartIdxAtOffset(file, y), y % PartSize) = y
  BY <1>2, <1>9, OffsetFound
<1>12. y \in from .. end - 1
  BY <1>1, <1>2, <1>9
<1> QED BY <1>10, <1>11, <1>12 DEF i, end


\* A write that is not dropped changes the parts and the size.
LEMMA WriteFields ==
    ASSUME NEW e, IsEntry(e), e.size \in Nat, NEW offset \in Nat, NEW n \in Nat, NEW k,
           ~ (e.circular /\ offset + n <= e.size - MaxSize)
    PROVE  LET new == WriteInto(e, offset, n, k)
               end == offset + n IN
           /\ new.parts = PartsWritten(e, FirstStored(e, offset, end), end, k)
           /\ new.size = IF end > e.size THEN end ELSE e.size
           /\ new.circular = e.circular
<1> DEFINE end == offset + n
           parts == PartsWritten(e, FirstStored(e, offset, end), end, k)
           larger == Max({e.size, end})
           new == [e EXCEPT !.parts = parts, !.size = larger]
<1>1. WriteInto(e, offset, n, k) = new
  BY DEF WriteInto
<1>2. larger = IF e.size >= end THEN e.size ELSE end
  <2>1. e.size \in Int /\ end \in Int
    OBVIOUS
  <2> HIDE DEF end
  <2> QED BY <2>1, MaxOfTwo
<1>3. PICK q : e \in [pins : Int, size : Sizes, circular : BOOLEAN, parts : {q},
                      errors : 0 .. MaxFlushErrors]
  BY DEF IsEntry
<1> HIDE DEF parts, larger
<1>4. new.parts = parts /\ new.size = larger /\ new.circular = e.circular
  BY <1>3
<1> HIDE DEF new
<1>5. end \in Nat
  OBVIOUS
<1> HIDE DEF end
<1>6. new.size = IF end > e.size THEN end ELSE e.size
  BY <1>2, <1>4, <1>5
<1> QED BY <1>1, <1>4, <1>6, Zenon DEF parts, end

\* Where the offset of a byte that is read and not written is found, it is not written.
LEMMA OutsideWrite ==
    ASSUME NEW file, file.size \in Nat, NEW offset \in 0 .. file.size, NEW end \in Nat,
           offset <= end, NEW from, from = FirstStored(file, offset, end),
           NEW size, size = IF end > file.size THEN end ELSE file.size,
           NEW o \in Nat, o < size, file.circular => size - MaxSize <= o,
           o \notin offset .. end - 1
    PROVE  OffsetAt(file, from, PartIdxAtOffset(file, o), o % PartSize) \notin from .. end - 1
<1>1. /\ from \in Nat /\ offset <= from
      /\ ~ file.circular => from = offset
      /\ file.circular =>
            /\ file.size - MaxSize <= from /\ end - MaxSize <= from
            /\ from \in {offset, file.size - MaxSize, end - MaxSize}
  BY FirstStoredFacts
<1>2. o < offset \/ o >= end
  OBVIOUS
<1>3. CASE ~ file.circular
  <2>1. OffsetAt(file, from, PartIdxAtOffset(file, o), o % PartSize) = o
    BY <1>1, <1>3, OffsetFound
  <2> QED BY <1>1, <1>3, <2>1
<1>4. CASE file.circular /\ o < from
  <2>1. from <= o + MaxSize
    BY <1>1, <1>4, SizeFacts
  <2>2. OffsetAt(file, from, PartIdxAtOffset(file, o), o % PartSize) = o + MaxSize
    BY <1>1, <1>4, <2>1, OffsetAhead
  <2>3. o + MaxSize >= end
    BY <1>4, SizeFacts
  <2> QED BY <2>2, <2>3, SizeFacts
<1>5. CASE file.circular /\ from <= o
  <2>1. o >= end /\ o < from + MaxSize
    BY <1>1, <1>2, <1>5, SizeFacts
  <2>2. OffsetAt(file, from, PartIdxAtOffset(file, o), o % PartSize) = o
    BY <1>1, <1>5, <2>1, OffsetFound
  <2> QED BY <2>1, <2>2
<1> QED BY <1>1, <1>3, <1>4, <1>5

\* The offsets a file shows.
LEMMA ShownFacts ==
    ASSUME NEW size \in Nat, NEW circular
    PROVE  /\ Abstract!Shown(size, circular) \subseteq Nat
           /\ \A o \in Nat : o \in Abstract!Shown(size, circular)
                 <=> o < size /\ (circular => size - MaxSize <= o)
BY SizeFacts DEF Abstract!Shown

\* With the parts loaded that it does not cover, a write is seen as the promise says: whole, at
\* its place, and nothing else changes.
LEMMA WriteView ==
    ASSUME NEW e, IsEntry(e), e.size \in Nat, NEW offset \in 0 .. e.size, NEW n \in Nat, NEW k,
           NEW rows, ~ AcrossStart(e, offset, n),
           ~ (e.circular /\ offset + n <= e.size - MaxSize),
           \A i \in IncompleteParts(e, offset, n) : i \in DOMAIN e.parts \/ i \notin DOMAIN rows,
           NEW new, new = WriteInto(e, offset, n, k)
    PROVE  Abstract!IsWritten(View(e, e.parts, rows), View(new, new.parts, rows), offset, n, k)
<1> DEFINE end == offset + n
           from == FirstStored(e, offset, end)
           size == IF end > e.size THEN end ELSE e.size
<1>1. offset \in Nat /\ end \in Nat /\ offset <= end /\ size \in Nat
  OBVIOUS
<1>2. new.parts = PartsWritten(e, from, end, k) /\ new.size = size /\ new.circular = e.circular
  BY <1>1, WriteFields
<1>3. /\ from \in Nat /\ offset <= from
      /\ ~ e.circular => from = offset
      /\ e.circular =>
            /\ e.size - MaxSize <= from /\ end - MaxSize <= from
            /\ from \in {offset, e.size - MaxSize, end - MaxSize}
  BY <1>1, FirstStoredFacts
<1>4. \A o : PartIdxAtOffset(new, o) = PartIdxAtOffset(e, o)
  BY <1>2, Zenon DEF PartIdxAtOffset
<1>5. ASSUME NEW o \in Nat, o < size, e.circular => size - MaxSize <= o
      PROVE  ShowsAt(new, new.parts, rows, o)
               = IF o \in offset .. end - 1 THEN <<k, o>> ELSE ShowsAt(e, e.parts, rows, o)
  <2> DEFINE parts == PartsWritten(e, from, end, k)
  <2>1. ShowsAt(new, new.parts, rows, o) = ShowsAt(e, parts, rows, o)
    BY <1>2, <1>4, Zenon DEF ShowsAt
  <2>2. CASE o \in offset .. end - 1
    <3>1. o \in from .. end - 1 /\ (e.circular => end <= from + MaxSize)
      <4> HIDE DEF end, from
      <4> QED BY <1>1, <1>3, <1>5, <2>2, SizeFacts
    <3> HIDE DEF end, from
    <3>2. ShowsAt(e, parts, rows, o) = <<k, o>>
      BY <1>1, <1>3, <3>1, StoredByte
    <3> QED BY <2>1, <2>2, <3>2
  <2>3. CASE o \notin offset .. end - 1
    <3> DEFINE i == PartIdxAtOffset(e, o)
               b == o % PartSize
    <3>1. OffsetAt(e, from, i, b) \notin from .. end - 1
      <4> HIDE DEF end, from, size
      <4>1. from = FirstStored(e, offset, end) /\ size = IF end > e.size THEN end ELSE e.size
        BY DEF from, size
      <4> QED BY <1>1, <1>5, <2>3, <4>1, OutsideWrite
    <3>2. \/ i \in DOMAIN e.parts \/ i \notin DOMAIN rows
          \/ ~ Touches(e, from, end, i)
      <4>1. SUFFICES ASSUME Touches(e, from, end, i) PROVE i \in IncompleteParts(e, offset, n)
        OBVIOUS
      <4>2. PICK p \in from .. end - 1 : PartIdxAtOffset(e, p) = i
        BY <4>1 DEF Touches
      <4>3. b \in 0 .. PartSize - 1
        BY PlaceOf
      <4>4. OffsetAt(e, from, PartIdxAtOffset(e, p), b) \notin from .. end - 1
        BY <3>1, <4>2
      <4> HIDE DEF i, b, from
      <4>5. from = FirstStored(e, offset, offset + n)
        BY DEF from
      <4>6. PartIdxAtOffset(e, p) \in IncompleteParts(e, offset, n)
        BY <1>1, <4>3, <4>4, <4>5, CoveredPart
      <4> QED BY <4>2, <4>6
    <3> HIDE DEF end, from
    <3>3. ShowsAt(e, parts, rows, o) = ShowsAt(e, e.parts, rows, o)
      BY <1>1, <1>3, <3>1, <3>2, KeptByte
    <3> QED BY <2>1, <2>3, <3>3
  <2> QED BY <2>2, <2>3
<1> DEFINE old == View(e, e.parts, rows)
           now == View(new, new.parts, rows)
<1>6. /\ old.size = e.size /\ old.circular = e.circular
      /\ now.size = size /\ now.circular = e.circular
      /\ \A o \in Abstract!Shown(e.size, e.circular) : old.bytes[o] = ShowsAt(e, e.parts, rows, o)
      /\ now.bytes = [o \in Abstract!Shown(size, e.circular) |-> ShowsAt(new, new.parts, rows, o)]
  <2> HIDE DEF size
  <2> QED BY <1>2 DEF View
<1>7. ASSUME NEW o \in Abstract!Shown(size, e.circular)
      PROVE  ShowsAt(new, new.parts, rows, o)
               = IF o \in offset .. end - 1 THEN <<k, o>> ELSE old.bytes[o]
  <2>1. o \in Nat /\ o < size /\ (e.circular => size - MaxSize <= o)
    <3> HIDE DEF size
    <3> QED BY <1>1, ShownFacts
  <2>2. ShowsAt(new, new.parts, rows, o)
          = IF o \in offset .. end - 1 THEN <<k, o>> ELSE ShowsAt(e, e.parts, rows, o)
    <3> HIDE DEF size, end
    <3> QED BY <1>5, <2>1
  <2>3. o \notin offset .. end - 1 => o \in Abstract!Shown(e.size, e.circular)
    <3>1. ASSUME o \notin offset .. end - 1
          PROVE  o < e.size /\ (e.circular => e.size - MaxSize <= o)
      BY <1>1, <2>1, <3>1, SizeFacts
    <3> HIDE DEF size, end
    <3> QED BY <2>1, <3>1, ShownFacts
  <2> HIDE DEF old, size, end
  <2> QED BY <1>6, <2>2, <2>3
<1>8. now.bytes = [o \in Abstract!Shown(now.size, now.circular) |->
                      IF o \in offset .. end - 1 THEN <<k, o>> ELSE old.bytes[o]]
  <2> HIDE DEF old, now, size, end
  <2> QED BY <1>6, <1>7
<1>9. now.size = IF offset + n > old.size THEN offset + n ELSE old.size
  <2> HIDE DEF old, now
  <2> QED BY <1>6
<1> HIDE DEF old, now
<1>10. now.circular = old.circular
  BY <1>6
<1>11. Abstract!IsWritten(old, now, offset, n, k)
  BY <1>8, <1>9, <1>10 DEF Abstract!IsWritten
<1> QED BY <1>11 DEF old, now

\* A text that replaces the file is all that is read, whatever the rows hold.
LEMMA ReplaceView ==
    ASSUME NEW e, IsEntry(e), NEW n \in Nat, NEW k, NEW rows,
           NEW new, new = ReplaceAll(e, n, k)
    PROVE  Abstract!IsWritten(Abstract!Made(e.circular), View(new, new.parts, rows), 0, n, k)
<1> DEFINE mid == [e EXCEPT !.size = 0, !.parts = NoParts]
<1>1. IsEntry(mid) /\ mid.size = 0 /\ mid.circular = e.circular
  <2>1. PICK q : e \in [pins : Int, size : Sizes, circular : BOOLEAN, parts : {q},
                        errors : 0 .. MaxFlushErrors]
    BY DEF IsEntry
  <2>2. mid \in [pins : Int, size : Sizes, circular : BOOLEAN, parts : {NoParts},
                 errors : 0 .. MaxFlushErrors]
    BY <2>1 DEF Sizes
  <2>3. mid.size = 0 /\ mid.circular = e.circular
    BY <2>1
  <2> QED BY <2>2, <2>3 DEF IsEntry
<1>2. new = WriteInto(mid, 0, n, k)
  BY DEF ReplaceAll
<1> HIDE DEF mid
<1> DEFINE start == 0
           end == start + n
           from == FirstStored(mid, start, end)
<1>3. start \in Nat /\ end \in Nat /\ start <= end /\ mid.size \in Nat /\ end = n
  BY <1>1
<1>4. ~ (mid.circular /\ end <= mid.size - MaxSize)
  BY <1>1, SizeFacts
<1>5. /\ new.parts = PartsWritten(mid, from, end, k)
      /\ new.size = (IF end > mid.size THEN end ELSE mid.size) /\ new.circular = mid.circular
  <2> HIDE DEF start
  <2> QED BY <1>1, <1>2, <1>3, <1>4, WriteFields DEF start
<1>6. /\ from \in Nat /\ start <= from
      /\ ~ mid.circular => from = start
      /\ mid.circular =>
            /\ mid.size - MaxSize <= from /\ end - MaxSize <= from
            /\ from \in {start, mid.size - MaxSize, end - MaxSize}
  <2> HIDE DEF start, end
  <2> QED BY <1>3, FirstStoredFacts
<1> HIDE DEF start, end, from
<1>7. start = 0
  BY DEF start
<1>8. new.size = n /\ new.circular = e.circular
  BY <1>1, <1>3, <1>5
<1>9. ASSUME NEW o \in Abstract!Shown(n, e.circular)
      PROVE  ShowsAt(new, new.parts, rows, o) = <<k, o>> /\ o \in 0 .. n - 1
  <2>1. o \in Nat /\ o < n /\ (e.circular => n - MaxSize <= o)
    BY ShownFacts
  <2>2. o \in from .. end - 1 /\ (mid.circular => end <= from + MaxSize)
    BY <1>1, <1>3, <1>6, <1>7, <2>1, SizeFacts
  <2>3. ShowsAt(mid, PartsWritten(mid, from, end, k), rows, o) = <<k, o>>
    BY <1>3, <1>6, <2>2, StoredByte
  <2>4. PartIdxAtOffset(new, o) = PartIdxAtOffset(mid, o)
    BY <1>5, Zenon DEF PartIdxAtOffset
  <2> QED BY <1>5, <2>1, <2>3, <2>4 DEF ShowsAt
<1> DEFINE now == View(new, new.parts, rows)
<1>10. /\ now.size = n /\ now.circular = e.circular
       /\ now.bytes = [o \in Abstract!Shown(n, e.circular) |-> ShowsAt(new, new.parts, rows, o)]
  BY <1>8 DEF View
<1> HIDE DEF now
<1> DEFINE made == Abstract!Made(e.circular)
<1>11. now.bytes = [o \in Abstract!Shown(now.size, now.circular) |->
                       IF o \in 0 .. 0 + n - 1 THEN <<k, o>> ELSE made.bytes[o]]
  <2> HIDE DEF made
  <2> QED BY <1>9, <1>10
<1>12. made.size = 0 /\ made.circular = e.circular
  BY DEF Abstract!Made
<1> HIDE DEF made
<1>13. Abstract!IsWritten(made, now, 0, n, k)
  BY <1>10, <1>11, <1>12 DEF Abstract!IsWritten
<1> QED BY <1>13 DEF made, now


-----------------------------------------------------------------------------
(* The file as it is read, and as it is kept. *)

Kept(rows) == View(rows, NoParts, rows.parts)

Seen(entry, rows) == IF Dirty(entry) THEN View(entry, entry.parts, rows.parts) ELSE Kept(rows)

\* A clean entry has no parts, and rows that are not there are of no circular file.
Emptied(entry) == ~ Dirty(entry) => entry.parts = NoParts

Blank(rows) == rows.size = NoFile => ~ rows.circular

\* The inductive invariant of the refinement.
ViewInv ==
    /\ StoreInv
    /\ \A e \in Entries : Emptied(entries[e])
    /\ Blank(db)

\* The file that is read, and the one that is kept, before a step.
LEMMA ReadBefore ==
    ASSUME StoreInv
    PROVE  /\ Stored = Kept(db)
           /\ cache = NoEntry => Current = Kept(db)
           /\ cache # NoEntry => Current = Seen(entries[cache], db)
<1>1. db.size \in Int
  <2>1. IsRows(db)
    BY FirstEntry DEF StoreInv, Fits
  <2> QED BY <2>1 DEF IsRows, Sizes, NoFile
<1>2. Stored = Kept(db)
  BY <1>1, ContentsView DEF Stored, Kept
<1>3. ASSUME cache # NoEntry, Dirty(entries[cache])
      PROVE  Contents(entries[cache], entries[cache].parts)
               = View(entries[cache], entries[cache].parts, db.parts)
  <2>1. entries[cache].size \in Int
    BY <1>3, EntryFields DEF StoreInv, FieldsTyped, Fits, Sizes, NoFile
  <2> QED BY <2>1, ContentsView
<1> QED BY <1>2, <1>3, Zenon DEF Current, Seen

\* The same of the files after the step.
LEMMA ReadAfter ==
    ASSUME StoreInv'
    PROVE  /\ Stored' = Kept(db')
           /\ cache' = NoEntry => Current' = Kept(db')
           /\ cache' # NoEntry => Current' = Seen(entries'[cache'], db')
<1> DEFINE Byte(cached, i, b) ==
             CASE i \in DOMAIN cached -> cached[i][b]
               [] i \notin DOMAIN cached /\ i \in DOMAIN db'.parts -> db'.parts[i][b]
               [] OTHER -> Zero
           Reading(file, cached) ==
             [size |-> file.size, circular |-> file.circular,
              bytes |-> [o \in DataStartIdx(file) .. file.size - 1 |->
                            Byte(cached, PartIdxAtOffset(file, o), o % PartSize)]]
<1>1. ASSUME NEW file, file.size \in Int, NEW cached
      PROVE  Reading(file, cached) = View(file, cached, db'.parts)
  <2>1. \A i, b : Byte(cached, i, b) = Shows(cached, db'.parts, i, b)
    BY DEF Shows
  <2> QED BY <1>1, <2>1, StartOfFile DEF View, ShowsAt
<1>2. /\ Stored' = Reading(db', NoParts)
      /\ Current' = IF cache' # NoEntry /\ Dirty(entries'[cache'])
                    THEN Reading(entries'[cache'], entries'[cache'].parts) ELSE Stored'
  BY DEF Stored, Current, Contents
<1> HIDE DEF Reading
<1>3. db'.size \in Int
  <2>1. IsRows(db')
    BY FirstEntry DEF StoreInv, Fits
  <2> QED BY <2>1 DEF IsRows, Sizes, NoFile
<1>4. Stored' = Kept(db')
  BY <1>1, <1>2, <1>3 DEF Kept
<1>5. ASSUME cache' # NoEntry
      PROVE  entries'[cache'].size \in Int
  <2>1. IsEntry(entries'[cache'])
    BY <1>5 DEF StoreInv, FieldsTyped, Fits
  <2> QED BY <2>1, EntryFields DEF Sizes, NoFile
<1>6. ASSUME cache' # NoEntry
      PROVE  Reading(entries'[cache'], entries'[cache'].parts)
               = View(entries'[cache'], entries'[cache'].parts, db'.parts)
  BY <1>1, <1>5, <1>6
<1> QED BY <1>2, <1>4, <1>6, Zenon DEF Seen

\* What is read depends on an entry's file and parts, and on no other field.
LEMMA SameSeen ==
    ASSUME NEW e, NEW f, f.size = e.size, f.circular = e.circular, f.parts = e.parts, NEW rows
    PROVE  Seen(f, rows) = Seen(e, rows) /\ (Emptied(e) => Emptied(f))
<1>1. \A o : PartIdxAtOffset(f, o) = PartIdxAtOffset(e, o)
  BY Zenon DEF PartIdxAtOffset
<1>2. View(f, f.parts, rows.parts) = View(e, e.parts, rows.parts)
  BY <1>1, Zenon DEF View, ShowsAt
<1> QED BY <1>2, Zenon DEF Seen, Emptied, Dirty

\* A file that is not there, and one just made, show nothing.
LEMMA NothingShown ==
    ASSUME NEW rows, rows.size \in {NoFile, 0}, rows.circular \in BOOLEAN
    PROVE  /\ rows.size = NoFile /\ ~ rows.circular => Kept(rows) = Abstract!Absent
           /\ rows.size = 0 => Kept(rows) = Abstract!Made(rows.circular)
<1>1. Abstract!Shown(rows.size, rows.circular) = {}
  BY SizeFacts DEF Abstract!Shown, NoFile
<1>2. Kept(rows) = [size |-> rows.size, circular |-> rows.circular, bytes |-> Abstract!NoBytes]
  BY <1>1 DEF Kept, View, Abstract!NoBytes
<1> QED BY <1>2 DEF Abstract!Absent, Abstract!Made, NoFile


\* From a file a of which b is kept to a file c of which d is kept: a step of the promise.
Promised(a, b, c, d) ==
    \/ c = a /\ d = b
    \/ a # Abstract!Absent /\ c # a /\ Abstract!Overwrites(a, c) /\ d = b
    \/ a # Abstract!Absent /\ c # a /\ Abstract!Replaces(a, c) /\ d \in {b, c}
    \/ c = a /\ d = a
    \/ c = b /\ d = b
    \/ c = Abstract!Absent /\ d = Abstract!Absent
    \/ a = Abstract!Absent /\ (\E circular \in BOOLEAN : c = Abstract!Made(circular)) /\ d = c

\* A step that keeps the promise.
Keeps == Promised(Current, Stored, Current', Stored')

\* A step that keeps the promise is one of StoredFile, or changes neither file.
LEMMA PromisedStep == Keeps => [Abstract!Next]_<<Current, Stored>>
BY Zenon DEF Keeps, Promised, Abstract!Next, Abstract!Write, Abstract!Replace, Abstract!Keep,
             Abstract!GoBack, Abstract!Delete, Abstract!Make

\* A write and a replacement, that may also leave the file as it was.
LEMMA Rewritten ==
    ASSUME NEW a, a # Abstract!Absent, NEW b, NEW c
    PROVE  /\ Abstract!Overwrites(a, c) => Promised(a, b, c, b)
           /\ Abstract!Replaces(a, c) => Promised(a, b, c, b) /\ Promised(a, b, c, c)
BY Zenon DEF Promised

\* An operation leaves its entry and the rows: what the two show is all that counts.
LEMMA LeavesKeeps ==
    ASSUME ViewInv, NEW t \in Threads, Locks(t), NEW f, Leaves(t, f), StoreInv',
           Emptied(f), Blank(db'),
           Promised(Seen(Entry(t), db), Kept(db), Seen(f, db'), Kept(db'))
    PROVE  ViewInv' /\ Keeps
<1>1. holds[t] = cache /\ cache \in Entries /\ Entry(t) = entries[cache] /\ cache # NoEntry
  BY HeldEntry, FirstEntry DEF Locks, ViewInv
<1>2. cache' = cache /\ entries' = [entries EXCEPT ![cache] = f]
  BY <1>1 DEF Leaves
<1>3. entries'[cache] = f /\ \A e \in Entries : e # cache => entries'[e] = entries[e]
  BY <1>1, <1>2 DEF ViewInv, StoreInv, FieldsTyped
<1>4. \A e \in Entries : Emptied(entries'[e])
  BY <1>3, Zenon DEF ViewInv
<1>5. Current = Seen(Entry(t), db) /\ Stored = Kept(db)
  BY <1>1, ReadBefore DEF ViewInv
<1>6. Current' = Seen(f, db') /\ Stored' = Kept(db')
  BY <1>1, <1>2, <1>3, ReadAfter
<1> QED BY <1>4, <1>5, <1>6 DEF ViewInv, Keeps

\* Pinned entries show what they did; a new one is clean.
LEMMA PinKeeps ==
    ASSUME ViewInv, NEW t \in Threads, Pin(t), StoreInv'
    PROVE  ViewInv' /\ Keeps
<1>1. cache' \in Entries /\ cache' # NoEntry /\ db' = db
  <2>1. cache' # NoEntry => cache' \in Entries
    BY DEF FieldsTyped, StoreInv
  <2>2. holds'[t] = cache' /\ pc'[t] = "pinned"
    BY DEF Pin, ViewInv, StoreInv, FieldsTyped
  <2>3. holds'[t] # NoEntry
    BY <2>2 DEF StoreInv, PinsHeld
  <2> QED BY <2>1, <2>2, <2>3 DEF Pin
<1> DEFINE e == entries[cache']
           pins == e.pins + 1
           f == [e EXCEPT !.pins = pins]
<1>2. entries' = [entries EXCEPT ![cache'] = f]
  BY DEF Pin
<1>3. entries'[cache'] = f /\ \A d \in Entries : d # cache' => entries'[d] = entries[d]
  BY <1>1, <1>2 DEF ViewInv, StoreInv, FieldsTyped
<1>4. f.size = e.size /\ f.circular = e.circular /\ f.parts = e.parts
  <2>1. PICK q : e \in [pins : Int, size : Sizes, circular : BOOLEAN, parts : {q},
                        errors : 0 .. MaxFlushErrors]
    BY <1>1 DEF ViewInv, StoreInv, Fits, IsEntry
  <2> HIDE DEF e, pins
  <2> QED BY <2>1
<1> HIDE DEF f
<1>5. Seen(f, db) = Seen(e, db) /\ Emptied(f)
  BY <1>1, <1>4, SameSeen DEF ViewInv
<1>6. \A d \in Entries : Emptied(entries'[d])
  BY <1>3, <1>5, Zenon DEF ViewInv
<1>7. Current = Seen(e, db) /\ Stored = Kept(db)
  <2>1. CASE cache # NoEntry
    <3>1. cache' = cache
      BY <2>1 DEF Pin
    <3> QED BY <2>1, <3>1, ReadBefore DEF ViewInv
  <2>2. CASE cache = NoEntry
    <3>1. ~ Dirty(e)
      BY <1>1, <2>2 DEF ViewInv, StoreInv, PinsHeld
    <3> QED BY <2>2, <3>1, ReadBefore DEF ViewInv, Seen
  <2> QED BY <2>1, <2>2
<1>8. Current' = Seen(f, db) /\ Stored' = Kept(db)
  BY <1>1, <1>3, ReadAfter
<1>9. Keeps
  BY <1>5, <1>7, <1>8 DEF Keeps, Promised
<1> QED BY <1>1, <1>6, <1>9 DEF ViewInv

\* An entry that goes is clean.
LEMMA UnpinKeeps ==
    ASSUME ViewInv, NEW t \in Threads, Unpin(t), StoreInv'
    PROVE  ViewInv' /\ Keeps
<1>1. db' = db /\ cache # NoEntry /\ cache \in Entries
  BY HeldEntry, FirstEntry DEF Unpin, ViewInv
<1> DEFINE e == entries[cache]
           f == Unpinned(e)
<1>2. /\ entries' = [entries EXCEPT ![cache] = f]
      /\ cache' = IF MayGo(f) THEN NoEntry ELSE cache
  BY <1>1 DEF Unpin
<1>3. entries'[cache] = f /\ \A d \in Entries : d # cache => entries'[d] = entries[d]
  BY <1>1, <1>2 DEF ViewInv, StoreInv, FieldsTyped
<1>4. f.size = e.size /\ f.circular = e.circular /\ f.parts = e.parts
  <2>1. PICK q : e \in [pins : Int, size : Sizes, circular : BOOLEAN, parts : {q},
                        errors : 0 .. MaxFlushErrors]
    BY <1>1 DEF ViewInv, StoreInv, Fits, IsEntry
  <2> HIDE DEF e
  <2> QED BY <2>1 DEF Unpinned
<1> HIDE DEF f
<1>5. Seen(f, db) = Seen(e, db) /\ Emptied(f)
  BY <1>1, <1>4, SameSeen DEF ViewInv
<1>6. \A d \in Entries : Emptied(entries'[d])
  BY <1>3, <1>5, Zenon DEF ViewInv
<1>7. Current = Seen(e, db) /\ Stored = Kept(db)
  BY <1>1, ReadBefore DEF ViewInv
<1>8. Current' = Seen(f, db) /\ Stored' = Kept(db)
  <2>1. CASE MayGo(f)
    <3>1. cache' = NoEntry /\ ~ Dirty(f)
      BY <1>2, <2>1 DEF MayGo
    <3> QED BY <1>1, <3>1, ReadAfter DEF Seen
  <2>2. CASE ~ MayGo(f)
    <3>1. cache' = cache
      BY <1>2, <2>2
    <3> QED BY <1>1, <1>3, <3>1, ReadAfter
  <2> QED BY <2>1, <2>2
<1>9. Keeps
  BY <1>5, <1>7, <1>8 DEF Keeps, Promised
<1> QED BY <1>1, <1>6, <1>9 DEF ViewInv

\* Finding something to flush changes nothing that is read or kept.
LEMMA FlushCacheKeeps ==
    ASSUME ViewInv, NEW t \in Threads, FlushCache(t), StoreInv'
    PROVE  ViewInv' /\ Keeps
<1>1. db' = db /\ cache' = cache /\ entries' = entries
  BY DEF FlushCache
<1>2. Current' = Current /\ Stored' = Stored
  BY <1>1 DEF Current, Stored, Contents
<1> QED BY <1>1, <1>2 DEF ViewInv, Keeps, Promised

\* A crash goes back to what is kept.
LEMMA CrashKeeps ==
    ASSUME ViewInv, Crash, StoreInv'
    PROVE  ViewInv' /\ Keeps
<1>1. db' = db /\ cache' = NoEntry /\ \A e \in Entries : entries'[e] = Clean
  BY DEF Crash
<1>2. Stored = Kept(db) /\ Stored' = Kept(db) /\ Current' = Kept(db)
  BY <1>1, ReadBefore, ReadAfter DEF ViewInv
<1>3. Emptied(Clean)
  BY DEF Emptied, Clean
<1>4. Keeps
  BY <1>2 DEF Keeps, Promised
<1> QED BY <1>1, <1>3, <1>4 DEF ViewInv


\* The file that is loaded shows what the rows do.
LEMMA FileLoaded ==
    ASSUME ViewInv, NEW t \in Threads, Finds(t), NEW f, f = WithFile(Entry(t))
    PROVE  /\ Fits(f, db) /\ Dirty(f) /\ f.pins = Entry(t).pins /\ f.size \in Nat /\ IsEntry(f)
           /\ Seen(Entry(t), db) = View(f, f.parts, db.parts)
           /\ Seen(Entry(t), db) # Abstract!Absent
           /\ Seen(Entry(t), db).size = f.size /\ Seen(Entry(t), db).circular = f.circular
<1> DEFINE e == Entry(t)
<1>1. Locks(t) /\ (Dirty(e) \/ db.size # NoFile)
  BY DEF Finds
<1>2. Fits(e, db) /\ Emptied(e)
  BY <1>1, HeldEntry DEF Locks, ViewInv
<1> HIDE DEF e
<1>3. Fits(f, db) /\ f.pins = e.pins /\ Dirty(f) /\ f.circular = db.circular
  BY <1>1, <1>2, EntryWithFile, Zenon DEF e
<1>4. IsEntry(f) /\ f.size \in Nat
  BY <1>3, EntryFields DEF Fits, Dirty, Sizes
<1>5. Seen(e, db) = View(f, f.parts, db.parts)
  <2>1. CASE Dirty(e)
    <3>1. f = e
      BY <2>1 DEF WithFile, e
    <3> QED BY <2>1, <3>1, Zenon DEF Seen
  <2>2. CASE ~ Dirty(e)
    <3>1. f = [e EXCEPT !.size = db.size, !.circular = db.circular]
      BY <2>2 DEF WithFile, e
    <3>2. PICK q : e \in [pins : Int, size : Sizes, circular : BOOLEAN, parts : {q},
                          errors : 0 .. MaxFlushErrors]
      BY <1>2 DEF Fits, IsEntry
    <3>3. f.size = db.size /\ f.circular = db.circular /\ f.parts = e.parts
      BY <3>1, <3>2
    <3>4. f.parts = NoParts
      BY <1>2, <2>2, <3>3 DEF Emptied
    <3>5. \A o : PartIdxAtOffset(f, o) = PartIdxAtOffset(db, o)
      BY <3>3, Zenon DEF PartIdxAtOffset
    <3>6. View(f, NoParts, db.parts) = View(db, NoParts, db.parts)
      BY <3>3, <3>5, Zenon DEF View, ShowsAt
    <3> QED BY <2>2, <3>4, <3>6, Zenon DEF Seen, Kept
  <2> QED BY <2>1, <2>2
<1>6. View(f, f.parts, db.parts).size = f.size /\ View(f, f.parts, db.parts).circular = f.circular
  BY DEF View
<1>7. Abstract!Absent.size = -1
  BY DEF Abstract!Absent
<1>8. Seen(e, db) # Abstract!Absent
  BY <1>4, <1>5, <1>6, <1>7
<1> QED BY <1>3, <1>4, <1>5, <1>6, <1>8 DEF e

\* Loading parts does not change what is read, and then the ones that are wanted are there.
LEMMA PartsLoaded ==
    ASSUME NEW e, IsEntry(e), NEW wanted, NEW mid, mid = WithParts(e, wanted)
    PROVE  /\ IsEntry(mid) /\ mid.size = e.size /\ mid.circular = e.circular
           /\ View(mid, mid.parts, db.parts) = View(e, e.parts, db.parts)
           /\ \A i \in wanted : i \in DOMAIN mid.parts \/ i \notin DOMAIN db.parts
<1> DEFINE loaded == Restrict(db.parts, wanted \cap DOMAIN db.parts)
           parts == Over(e.parts, loaded)
<1>1. IsEntry(mid) /\ mid.size = e.size /\ mid.circular = e.circular
  BY EntryWithParts
<1>2. mid.parts = parts
  <2>1. PICK q : e \in [pins : Int, size : Sizes, circular : BOOLEAN, parts : {q},
                        errors : 0 .. MaxFlushErrors]
    BY DEF IsEntry
  <2> HIDE DEF parts
  <2>2. [e EXCEPT !.parts = parts].parts = parts
    BY <2>1
  <2> QED BY <2>2 DEF WithParts, parts
<1>3. /\ DOMAIN loaded = wanted \cap DOMAIN db.parts
      /\ \A i \in DOMAIN loaded : loaded[i] = db.parts[i]
  BY DEF Restrict
<1> HIDE DEF loaded
<1>4. /\ DOMAIN parts = DOMAIN e.parts \cup DOMAIN loaded
      /\ \A i \in DOMAIN parts : parts[i] = IF i \in DOMAIN e.parts THEN e.parts[i] ELSE loaded[i]
  BY DEF Over
<1> HIDE DEF parts
<1>5. \A i, b : Shows(parts, db.parts, i, b) = Shows(e.parts, db.parts, i, b)
  BY <1>3, <1>4 DEF Shows
<1>6. \A o : PartIdxAtOffset(mid, o) = PartIdxAtOffset(e, o)
  BY <1>1, Zenon DEF PartIdxAtOffset
<1>7. View(mid, mid.parts, db.parts) = View(e, e.parts, db.parts)
  BY <1>1, <1>2, <1>5, <1>6, Zenon DEF View, ShowsAt
<1>8. \A i \in wanted : i \in DOMAIN mid.parts \/ i \notin DOMAIN db.parts
  BY <1>2, <1>3, <1>4
<1> QED BY <1>1, <1>7, <1>8

\* A write: the parts are loaded, and the bytes put into them.
LEMMA WriteAtKeeps ==
    ASSUME ViewInv, NEW t \in Threads, Finds(t), NEW f, f = WithFile(Entry(t)),
           NEW offset \in 0 .. f.size, NEW n \in Lengths, NEW k \in Kinds,
           ~ AcrossStart(f, offset, n), NEW new, new = WrittenAt(f, offset, n, k)
    PROVE  /\ Emptied(new)
           /\ Promised(Seen(Entry(t), db), Kept(db), Seen(new, db), Kept(db))
<1> DEFINE a == Seen(Entry(t), db)
           wanted == IncompleteParts(f, offset, n)
           mid == WithParts(f, wanted)
<1>1. /\ Fits(f, db) /\ Dirty(f) /\ f.size \in Nat /\ IsEntry(f)
      /\ a = View(f, f.parts, db.parts) /\ a # Abstract!Absent /\ a.size = f.size
  BY FileLoaded
<1>2. n \in Nat /\ offset \in Nat
  BY <1>1, TextsAreNat
<1>3. Dirty(new)
  BY <1>1, <1>2, WrittenAtEntry, Zenon
<1>4. new = WriteInto(mid, offset, n, k)
  BY DEF WrittenAt
<1> HIDE DEF wanted
<1>5. /\ IsEntry(mid) /\ mid.size = f.size /\ mid.circular = f.circular
      /\ View(mid, mid.parts, db.parts) = View(f, f.parts, db.parts)
      /\ \A i \in wanted : i \in DOMAIN mid.parts \/ i \notin DOMAIN db.parts
  BY <1>1, PartsLoaded
<1> HIDE DEF mid
<1>6. IncompleteParts(mid, offset, n) = wanted
  <2>1. \A o : PartIdxAtOffset(mid, o) = PartIdxAtOffset(f, o)
    BY <1>5, Zenon DEF PartIdxAtOffset
  <2> QED BY <2>1, Zenon DEF IncompleteParts, wanted
<1>7. ~ AcrossStart(mid, offset, n)
  BY <1>5, Zenon DEF AcrossStart
<1>8. Seen(new, db) = View(new, new.parts, db.parts) /\ Emptied(new)
  BY <1>3, Zenon DEF Seen, Emptied
<1> HIDE DEF a
<1>9. CASE mid.circular /\ offset + n <= mid.size - MaxSize
  <2>1. new = mid
    BY <1>4, <1>9 DEF WriteInto
  <2>2. Seen(new, db) = a
    BY <1>1, <1>5, <1>8, <2>1, Zenon
  <2> QED BY <1>8, <2>2, Zenon DEF Promised, a
<1>10. CASE ~ (mid.circular /\ offset + n <= mid.size - MaxSize)
  <2>1. mid.size \in Nat /\ offset \in 0 .. mid.size
    BY <1>1, <1>5
  <2>2. \A i \in IncompleteParts(mid, offset, n) : i \in DOMAIN mid.parts \/ i \notin DOMAIN db.parts
    BY <1>5, <1>6
  <2>3. Abstract!IsWritten(View(mid, mid.parts, db.parts), View(new, new.parts, db.parts), offset, n, k)
    BY <1>2, <1>4, <1>5, <1>7, <1>10, <2>1, <2>2, WriteView
  <2>4. Abstract!IsWritten(a, Seen(new, db), offset, n, k) /\ offset \in 0 .. a.size
    BY <1>1, <1>5, <1>8, <2>3
  <2>5. Abstract!Overwrites(a, Seen(new, db))
    BY <2>4, Zenon DEF Abstract!Overwrites
  <2>6. Promised(a, Kept(db), Seen(new, db), Kept(db))
    BY <1>1, <2>5, Rewritten, Zenon
  <2> QED BY <1>8, <2>6 DEF a
<1> QED BY <1>9, <1>10

\* Another text in place of the file's, whatever the rows hold.
LEMMA ReplaceShown ==
    ASSUME ViewInv, NEW t \in Threads, Finds(t), NEW f, f = WithFile(Entry(t)),
           NEW n \in Texts(Entry(t)), NEW k \in Kinds, NEW new, new = ReplaceAll(f, n, k),
           NEW rows
    PROVE  /\ Fits(new, db) /\ Dirty(new) /\ Emptied(new) /\ new.circular = f.circular
           /\ Abstract!Replaces(Seen(Entry(t), db), View(new, new.parts, rows))
<1> DEFINE a == Seen(Entry(t), db)
<1>1. /\ Fits(f, db) /\ Dirty(f) /\ IsEntry(f) /\ f.size \in Nat
      /\ a # Abstract!Absent /\ a.circular = f.circular
  BY FileLoaded
<1>2. n \in Nat /\ n \in Lengths \cup {0}
  BY TextsAreNat DEF Texts
<1>3. Fits(new, db) /\ Dirty(new)
  BY <1>1, <1>2, ReplacedEntry, Zenon
<1>4. new.circular = f.circular
  BY <1>1, <1>3, Zenon DEF Fits
<1> HIDE DEF a
<1>5. Abstract!IsWritten(Abstract!Made(f.circular), View(new, new.parts, rows), 0, n, k)
  BY <1>1, <1>2, ReplaceView
<1>6. Abstract!Replaces(a, View(new, new.parts, rows))
  BY <1>1, <1>2, <1>5, Zenon DEF Abstract!Replaces
<1> QED BY <1>3, <1>4, <1>6, Zenon DEF Emptied, a


\* A transaction keeps what is read.
LEMMA SavedShown ==
    ASSUME NEW e, Fits(e, db), Dirty(e), NEW replace \in BOOLEAN, NEW rows, rows = Saved(e, replace)
    PROVE  LET kept == View(e, e.parts, IF replace THEN NoParts ELSE db.parts) IN
             Kept(rows) = kept /\ Seen(e, rows) = kept /\ Blank(rows)
<1> DEFINE under == IF replace THEN NoParts ELSE db.parts
           parts == IF replace THEN e.parts ELSE Over(e.parts, db.parts)
<1>1. rows.size = e.size /\ rows.circular = e.circular /\ rows.size # NoFile
  BY SavedRows, Zenon DEF Fits, Dirty
<1>2. rows.parts = parts
  <2>1. PICK p : db \in [size : Sizes, circular : BOOLEAN, parts : {p}]
    BY DEF Fits, IsRows
  <2>2. rows = [db EXCEPT !.size = e.size, !.parts = parts]
    BY <2>1 DEF Saved
  <2> HIDE DEF parts
  <2> QED BY <2>1, <2>2
<1>3. DOMAIN NoParts = {}
  BY DEF NoParts
<1>4. \A i, b : /\ Shows(NoParts, parts, i, b) = Shows(e.parts, under, i, b)
                /\ Shows(e.parts, parts, i, b) = Shows(e.parts, under, i, b)
  <2>1. CASE replace
    BY <1>3, <2>1 DEF Shows
  <2>2. CASE ~ replace
    <3>1. parts = Over(e.parts, db.parts) /\ under = db.parts
      BY <2>2
    <3>2. /\ DOMAIN parts = DOMAIN e.parts \cup DOMAIN db.parts
          /\ \A i \in DOMAIN parts : parts[i] = IF i \in DOMAIN e.parts THEN e.parts[i] ELSE db.parts[i]
      BY <3>1 DEF Over
    <3> HIDE DEF parts, under
    <3> QED BY <1>3, <3>1, <3>2 DEF Shows
  <2> QED BY <2>1, <2>2
<1> HIDE DEF parts, under
<1>5. \A o : PartIdxAtOffset(rows, o) = PartIdxAtOffset(e, o)
  BY <1>1, Zenon DEF PartIdxAtOffset
<1>6. View(rows, NoParts, rows.parts) = View(e, e.parts, under)
  <2>1. \A o : ShowsAt(rows, NoParts, rows.parts, o) = ShowsAt(e, e.parts, under, o)
    BY <1>2, <1>4, <1>5, Zenon DEF ShowsAt
  <2> QED BY <1>1, <2>1, Zenon DEF View
<1>7. View(e, e.parts, rows.parts) = View(e, e.parts, under)
  BY <1>2, <1>4, Zenon DEF View, ShowsAt
<1> QED BY <1>1, <1>6, <1>7, Zenon DEF Kept, Seen, Blank, under

\* A refused flush changes nothing that is read, or goes back to the rows.
LEMMA RefusedShown ==
    ASSUME NEW e, IsEntry(e), Emptied(e), NEW rows, NEW f, f = AfterError(e)
    PROVE  Emptied(f) /\ (Seen(f, rows) = Seen(e, rows) \/ Seen(f, rows) = Kept(rows))
<1>1. CASE e.errors < MaxFlushErrors
  <2>1. PICK q : e \in [pins : Int, size : Sizes, circular : BOOLEAN, parts : {q},
                        errors : 0 .. MaxFlushErrors]
    BY DEF IsEntry
  <2>2. f = [e EXCEPT !.errors = e.errors + 1]
    BY <1>1 DEF AfterError
  <2>3. f.size = e.size /\ f.circular = e.circular /\ f.parts = e.parts
    BY <2>1, <2>2
  <2> QED BY <2>3, SameSeen
<1>2. CASE ~ (e.errors < MaxFlushErrors)
  <2>1. f = Cleared(e) /\ ~ Dirty(f)
    BY <1>2, ClearedEntry DEF AfterError
  <2>2. f.parts = NoParts
    BY <2>1 DEF Cleared, Clean
  <2> QED BY <2>1, <2>2 DEF Seen, Emptied
<1> QED BY <1>1, <1>2

\* A cleared entry shows what the rows hold.
LEMMA ClearedShown ==
    ASSUME NEW e, IsEntry(e), NEW rows
    PROVE  Emptied(Cleared(e)) /\ Seen(Cleared(e), rows) = Kept(rows)
<1>1. ~ Dirty(Cleared(e))
  BY ClearedEntry
<1>2. Cleared(e).parts = NoParts
  BY DEF Cleared, Clean
<1> QED BY <1>1, <1>2, Zenon DEF Seen, Emptied

\* The flusher's step: what is read is kept, or the cache gives it up for what is kept.
LEMMA FlushedKeeps ==
    ASSUME NEW e, Fits(e, db), Emptied(e), Blank(db), NEW outcome \in FlushOutcomes(e, FALSE)
    PROVE  /\ Emptied(outcome[2]) /\ Blank(outcome[1])
           /\ Promised(Seen(e, db), Kept(db), Seen(outcome[2], outcome[1]), Kept(outcome[1]))
<1> DEFINE rows == Saved(e, FALSE)
<1>0. IsEntry(e)
  BY DEF Fits
<1>1. CASE outcome = <<db, e>>
  BY <1>1 DEF Promised
<1>2. CASE Dirty(e) /\ outcome = <<db, AfterError(e)>>
  <2> DEFINE f == AfterError(e)
  <2>1. Emptied(f) /\ (Seen(f, db) = Seen(e, db) \/ Seen(f, db) = Kept(db))
    BY <1>0, RefusedShown
  <2> HIDE DEF f
  <2>2. Promised(Seen(e, db), Kept(db), Seen(f, db), Kept(db))
    BY <2>1, Zenon DEF Promised
  <2>3. outcome[1] = db /\ outcome[2] = f
    BY <1>2 DEF f
  <2> QED BY <2>1, <2>2, <2>3
<1>3. ASSUME Dirty(e)
      PROVE  Kept(rows) = Seen(e, db) /\ Seen(e, rows) = Seen(e, db) /\ Blank(rows)
  <2>1. Seen(e, db) = View(e, e.parts, db.parts)
    BY <1>3 DEF Seen
  <2>2. Kept(rows) = View(e, e.parts, db.parts) /\ Seen(e, rows) = View(e, e.parts, db.parts)
        /\ Blank(rows)
    <3> DEFINE no == FALSE
    <3>1. no \in BOOLEAN /\ rows = Saved(e, no)
      OBVIOUS
    <3> HIDE DEF no, rows
    <3>2. LET kept == View(e, e.parts, IF no THEN NoParts ELSE db.parts) IN
            Kept(rows) = kept /\ Seen(e, rows) = kept /\ Blank(rows)
      BY <1>3, <3>1, SavedShown, Zenon
    <3> QED BY <3>2 DEF no
  <2> QED BY <2>1, <2>2
<1> HIDE DEF rows
<1>4. CASE Dirty(e) /\ outcome = <<rows, Cleared(e)>>
  <2>1. Emptied(Cleared(e)) /\ Seen(Cleared(e), rows) = Kept(rows)
    BY <1>0, ClearedShown
  <2>2. Promised(Seen(e, db), Kept(db), Seen(Cleared(e), rows), Kept(rows))
    BY <1>3, <1>4, <2>1, Zenon DEF Promised
  <2>3. outcome[1] = rows /\ outcome[2] = Cleared(e)
    BY <1>4
  <2> QED BY <1>3, <1>4, <2>1, <2>2, <2>3
<1>5. CASE Dirty(e) /\ outcome = <<rows, e>>
  <2>1. Promised(Seen(e, db), Kept(db), Seen(e, rows), Kept(rows))
    BY <1>3, <1>5, Zenon DEF Promised
  <2>2. outcome[1] = rows /\ outcome[2] = e
    BY <1>5
  <2> QED BY <1>3, <1>5, <2>1, <2>2
<1> QED BY <1>1, <1>2, <1>4, <1>5, Zenon DEF FlushOutcomes, rows

\* A truncating write, flushed at once.
LEMMA WriteFileKeeps ==
    ASSUME ViewInv, NEW t \in Threads, Finds(t), NEW n \in Texts(Entry(t)), NEW k \in Kinds,
           NEW outcome \in FlushOutcomes(ReplaceAll(WithFile(Entry(t)), n, k), TRUE)
    PROVE  /\ Emptied(outcome[2]) /\ Blank(outcome[1])
           /\ Promised(Seen(Entry(t), db), Kept(db), Seen(outcome[2], outcome[1]), Kept(outcome[1]))
<1> DEFINE a == Seen(Entry(t), db)
           f == WithFile(Entry(t))
           new == ReplaceAll(f, n, k)
           rows == Saved(new, TRUE)
<1>1. a # Abstract!Absent
  BY FileLoaded
<1> HIDE DEF a
<1>2. Fits(new, db) /\ Dirty(new) /\ Emptied(new) /\ IsEntry(new)
  BY ReplaceShown, Zenon DEF Fits
<1>3. \A under : Abstract!Replaces(a, View(new, new.parts, under))
  BY ReplaceShown, Zenon DEF a
<1> HIDE DEF new
<1>4. Seen(new, db) = View(new, new.parts, db.parts)
  BY <1>2 DEF Seen
<1>5. \A under : LET c == View(new, new.parts, under) IN
        Promised(a, Kept(db), c, Kept(db)) /\ Promised(a, Kept(db), c, c)
  <2> SUFFICES ASSUME NEW under
               PROVE  LET c == View(new, new.parts, under) IN
                        Promised(a, Kept(db), c, Kept(db)) /\ Promised(a, Kept(db), c, c)
    OBVIOUS
  <2> DEFINE c == View(new, new.parts, under)
             b == Kept(db)
  <2>1. Abstract!Replaces(a, c)
    BY <1>3
  <2> HIDE DEF c, b
  <2>2. Promised(a, b, c, b) /\ Promised(a, b, c, c)
    BY <1>1, <2>1, Rewritten
  <2> QED BY <2>2 DEF c, b
<1>6. Kept(rows) = View(new, new.parts, NoParts) /\ Seen(new, rows) = View(new, new.parts, NoParts)
      /\ Blank(rows)
  <2> DEFINE yes == TRUE
  <2>1. yes \in BOOLEAN /\ rows = Saved(new, yes)
    OBVIOUS
  <2> HIDE DEF yes, rows
  <2>2. LET kept == View(new, new.parts, IF yes THEN NoParts ELSE db.parts) IN
          Kept(rows) = kept /\ Seen(new, rows) = kept /\ Blank(rows)
    BY <1>2, <2>1, SavedShown, Zenon
  <2> QED BY <2>2 DEF yes
<1> HIDE DEF rows
<1>7. outcome \in {<<db, AfterError(new)>>, <<db, new>>, <<rows, Cleared(new)>>, <<rows, new>>}
  BY <1>2, Zenon DEF FlushOutcomes, new, rows
<1>8. CASE outcome = <<db, AfterError(new)>>
  <2> DEFINE g == AfterError(new)
  <2>1. Emptied(g) /\ (Seen(g, db) = Seen(new, db) \/ Seen(g, db) = Kept(db))
    BY <1>2, RefusedShown
  <2> HIDE DEF g
  <2>2. Promised(a, Kept(db), Seen(new, db), Kept(db))
    BY <1>4, <1>5
  <2>3. Promised(a, Kept(db), Kept(db), Kept(db))
    BY Zenon DEF Promised
  <2>4. Promised(a, Kept(db), Seen(g, db), Kept(db))
    BY <2>1, <2>2, <2>3, Zenon
  <2>5. outcome[1] = db /\ outcome[2] = g
    BY <1>8 DEF g
  <2> QED BY <2>1, <2>4, <2>5 DEF a, ViewInv
<1>9. CASE outcome = <<db, new>>
  <2>1. Promised(a, Kept(db), Seen(new, db), Kept(db))
    BY <1>4, <1>5
  <2>2. outcome[1] = db /\ outcome[2] = new
    BY <1>9
  <2> QED BY <1>2, <2>1, <2>2 DEF a, ViewInv
<1>10. CASE outcome = <<rows, Cleared(new)>>
  <2>1. Emptied(Cleared(new)) /\ Seen(Cleared(new), rows) = Kept(rows)
    BY <1>2, ClearedShown
  <2>2. Promised(a, Kept(db), Seen(Cleared(new), rows), Kept(rows))
    BY <1>5, <1>6, <2>1
  <2>3. outcome[1] = rows /\ outcome[2] = Cleared(new)
    BY <1>10
  <2> QED BY <1>6, <2>1, <2>2, <2>3 DEF a
<1>11. CASE outcome = <<rows, new>>
  <2>1. Promised(a, Kept(db), Seen(new, rows), Kept(rows))
    BY <1>5, <1>6
  <2>2. outcome[1] = rows /\ outcome[2] = new
    BY <1>11
  <2> QED BY <1>2, <1>6, <2>1, <2>2 DEF a
<1> QED BY <1>7, <1>8, <1>9, <1>10, <1>11

-----------------------------------------------------------------------------
(* The promise. *)

\* Every operation of a caller is one of the promise.
LEMMA OperationKeeps ==
    ASSUME ViewInv, ~ WritesAcrossStart, NEW t \in Threads, Operation(t), StoreInv'
    PROVE  ViewInv' /\ Keeps
<1> DEFINE e == Entry(t)
           f == WithFile(e)
<1>1. Locks(t)
  BY Zenon DEF Operation, ReadFile, MakeFile, DeleteFile, WriteMeta, WriteAt, WriteFile, CompactIJson,
               Finds
<1>2. Fits(e, db) /\ IsEntry(e) /\ Emptied(e) /\ Blank(db)
  BY <1>1, HeldEntry DEF Locks, ViewInv, Fits
<1>3. CASE ReadFile(t)
  <2>1. Leaves(t, e) /\ db' = db
    BY <1>3 DEF ReadFile
  <2>2. Promised(Seen(e, db), Kept(db), Seen(e, db), Kept(db))
    BY Zenon DEF Promised
  <2> QED BY <1>1, <1>2, <2>1, <2>2, LeavesKeeps
<1>4. CASE MakeFile(t)
  <2>1. PICK c \in BOOLEAN : db' = [NoRows EXCEPT !.size = 0, !.circular = c]
    BY <1>4, Zenon DEF MakeFile
  <2>2. ~ Dirty(e) /\ db.size = NoFile /\ Leaves(t, e)
    BY <1>4 DEF MakeFile
  <2>3. db'.size = 0 /\ db'.circular = c
    BY <2>1 DEF NoRows
  <2>4. Kept(db') = Abstract!Made(c)
    BY <2>3, NothingShown
  <2>5. Kept(db) = Abstract!Absent
    BY <1>2, <2>2, NothingShown DEF Blank, Fits, IsRows
  <2>6. Seen(e, db) = Abstract!Absent /\ Seen(e, db') = Kept(db')
    BY <2>2, <2>5 DEF Seen
  <2>7. Blank(db')
    BY <2>3 DEF Blank, NoFile
  <2>8. Promised(Seen(e, db), Kept(db), Seen(e, db'), Kept(db'))
    BY <2>4, <2>6, Zenon DEF Promised
  <2> QED BY <1>1, <1>2, <2>2, <2>7, <2>8, LeavesKeeps
<1>5. CASE DeleteFile(t)
  <2>1. db' = NoRows /\ Leaves(t, Cleared(e))
    BY <1>5 DEF DeleteFile
  <2>2. db'.size = NoFile /\ db'.circular = FALSE
    BY <2>1 DEF NoRows
  <2>3. Kept(db') = Abstract!Absent
    <3>1. db'.size \in {NoFile, 0} /\ db'.circular \in BOOLEAN /\ ~ db'.circular
      BY <2>2
    <3> QED BY <2>2, <3>1, NothingShown
  <2>4. Emptied(Cleared(e)) /\ Seen(Cleared(e), db') = Kept(db')
    BY <1>2, ClearedShown
  <2>5. Blank(db')
    BY <2>2 DEF Blank
  <2>6. Promised(Seen(e, db), Kept(db), Seen(Cleared(e), db'), Kept(db'))
    BY <2>3, <2>4, Zenon DEF Promised
  <2> QED BY <1>1, <2>1, <2>4, <2>5, <2>6, LeavesKeeps
<1>6. CASE WriteMeta(t)
  <2>1. Finds(t) /\ Leaves(t, f) /\ db' = db
    BY <1>6 DEF WriteMeta
  <2>2. Dirty(f) /\ Seen(e, db) = View(f, f.parts, db.parts)
    BY <2>1, FileLoaded
  <2> HIDE DEF f
  <2>3. Emptied(f) /\ Seen(f, db) = Seen(e, db)
    BY <2>2, Zenon DEF Emptied, Seen
  <2>4. Promised(Seen(e, db), Kept(db), Seen(f, db), Kept(db))
    BY <2>3, Zenon DEF Promised
  <2> QED BY <1>1, <1>2, <2>1, <2>3, <2>4, LeavesKeeps
<1>7. CASE WriteAt(t)
  <2>1. Finds(t) /\ db' = db
    BY <1>7 DEF WriteAt
  <2>2. PICK offset \in 0 .. f.size, n \in Lengths, k \in Kinds :
          ~ AcrossStart(f, offset, n) /\ Leaves(t, WrittenAt(f, offset, n, k))
    BY <1>7 DEF WriteAt
  <2> DEFINE new == WrittenAt(f, offset, n, k)
  <2>3. f = WithFile(Entry(t))
    OBVIOUS
  <2>4. Emptied(new) /\ Promised(Seen(Entry(t), db), Kept(db), Seen(new, db), Kept(db))
    <3> HIDE DEF f
    <3> QED BY <2>1, <2>2, <2>3, WriteAtKeeps
  <2> HIDE DEF f, new
  <2>5. Leaves(t, new)
    BY <2>2 DEF new
  <2> QED BY <1>1, <1>2, <2>1, <2>4, <2>5, LeavesKeeps
<1>8. CASE WriteFile(t)
  <2>1. Finds(t)
    BY <1>8 DEF WriteFile
  <2>2. PICK n \in Texts(e), k \in Kinds :
          \E outcome \in FlushOutcomes(ReplaceAll(f, n, k), TRUE) :
              db' = outcome[1] /\ Leaves(t, outcome[2])
    BY <1>8 DEF WriteFile
  <2>3. PICK outcome \in FlushOutcomes(ReplaceAll(f, n, k), TRUE) :
          db' = outcome[1] /\ Leaves(t, outcome[2])
    BY <2>2
  <2>4. /\ Emptied(outcome[2]) /\ Blank(outcome[1])
        /\ Promised(Seen(Entry(t), db), Kept(db), Seen(outcome[2], outcome[1]), Kept(outcome[1]))
    BY <2>1, <2>3, WriteFileKeeps
  <2> QED BY <1>1, <2>3, <2>4, LeavesKeeps
<1>9. CASE CompactIJson(t)
  <2>1. Finds(t) /\ db' = db
    BY <1>9 DEF CompactIJson
  <2>2. PICK n \in Texts(e), k \in Kinds : Leaves(t, ReplaceAll(f, n, k))
    BY <1>9 DEF CompactIJson
  <2> DEFINE new == ReplaceAll(f, n, k)
  <2>3. Dirty(new) /\ Emptied(new) /\ Abstract!Replaces(Seen(e, db), View(new, new.parts, db.parts))
    BY <2>1, ReplaceShown
  <2>4. Seen(e, db) # Abstract!Absent
    BY <2>1, FileLoaded
  <2>5. Leaves(t, new)
    BY <2>2
  <2> HIDE DEF e, new
  <2>6. Seen(new, db) = View(new, new.parts, db.parts)
    BY <2>3 DEF Seen
  <2>7. Promised(Seen(e, db), Kept(db), Seen(new, db), Kept(db))
    BY <2>3, <2>4, <2>6, Rewritten
  <2> QED BY <1>1, <1>2, <2>1, <2>3, <2>5, <2>7, LeavesKeeps DEF e
<1> QED BY <1>3, <1>4, <1>5, <1>6, <1>7, <1>8, <1>9 DEF Operation

\* A flush, whichever way it ends, keeps what is read or goes back to what is kept.
LEMMA FlushEntryKeeps ==
    ASSUME ViewInv, NEW t \in Threads, FlushEntry(t), StoreInv'
    PROVE  ViewInv' /\ Keeps
<1>1. PICK outcome \in FlushOutcomes(Entry(t), FALSE) : db' = outcome[1] /\ Leaves(t, outcome[2])
  BY DEF FlushEntry
<1>2. Locks(t)
  BY DEF FlushEntry
<1>3. Fits(Entry(t), db) /\ Emptied(Entry(t)) /\ Blank(db)
  BY <1>2, HeldEntry DEF Locks, ViewInv
<1>4. /\ Emptied(outcome[2]) /\ Blank(outcome[1])
      /\ Promised(Seen(Entry(t), db), Kept(db), Seen(outcome[2], outcome[1]), Kept(outcome[1]))
  BY <1>1, <1>3, FlushedKeeps
<1> QED BY <1>1, <1>2, <1>4, LeavesKeeps

\* No step leaves the invariant, and every step keeps the promise.
LEMMA ViewStep == ~ WritesAcrossStart => (ViewInv /\ [Next]_vars => ViewInv' /\ Keeps)
<1> SUFFICES ASSUME ~ WritesAcrossStart, ViewInv, [Next]_vars PROVE ViewInv' /\ Keeps
  OBVIOUS
<1>1. StoreInv'
  BY StepHolds DEF ViewInv
<1>2. CASE UNCHANGED vars
  <2>1. db' = db /\ cache' = cache /\ entries' = entries
    BY <1>2 DEF vars
  <2>2. Current' = Current /\ Stored' = Stored
    BY <2>1 DEF Current, Stored, Contents
  <2> QED BY <1>1, <2>1, <2>2 DEF ViewInv, Keeps, Promised
<1>3. CASE Crash
  BY <1>1, <1>3, CrashKeeps
<1>4. ASSUME NEW t \in Threads, Pin(t) \/ Unpin(t) PROVE ViewInv' /\ Keeps
  BY <1>1, <1>4, PinKeeps, UnpinKeeps
<1>5. ASSUME NEW t \in Callers, Operation(t) PROVE ViewInv' /\ Keeps
  BY <1>1, <1>5, OperationKeeps DEF Threads
<1>6. ASSUME NEW t \in Flushers, FlushCache(t) \/ FlushEntry(t) PROVE ViewInv' /\ Keeps
  BY <1>1, <1>6, FlushCacheKeeps, FlushEntryKeeps DEF Threads
<1> QED BY <1>2, <1>3, <1>4, <1>5, <1>6 DEF Next

\* At the start there is no file.
LEMMA ViewInit == Init => ViewInv /\ Abstract!Init
<1> SUFFICES ASSUME Init PROVE ViewInv /\ Abstract!Init
  OBVIOUS
<1>1. db = NoRows /\ cache = NoEntry /\ \A e \in Entries : entries[e] = Clean
  BY DEF Init
<1>2. StoreInv
  BY InitHolds
<1>3. db.size = NoFile /\ db.circular = FALSE
  BY <1>1 DEF NoRows
<1>4. Kept(db) = Abstract!Absent
  <2>1. db.size \in {NoFile, 0} /\ db.circular \in BOOLEAN /\ ~ db.circular
    BY <1>3
  <2> QED BY <1>3, <2>1, NothingShown
<1>5. Emptied(Clean)
  BY DEF Emptied, Clean
<1>6. Stored = Abstract!Absent /\ Current = Abstract!Absent
  BY <1>1, <1>2, <1>4, ReadBefore
<1> QED BY <1>1, <1>2, <1>3, <1>5, <1>6 DEF ViewInv, Blank, Abstract!Init

\* What is read is the file that was written, and what a crash leaves is the file as it was
\* at one moment, through every partial load, write, flush and refusal (readAt, writeAt,
\* flushToDB), as long as no write begins before the start of a circular file and ends behind it.
THEOREM StoreKeepsItsPromise == ~ WritesAcrossStart => (Spec => StoreImplementsFile)
<1> SUFFICES ASSUME ~ WritesAcrossStart PROVE Spec => StoreImplementsFile
  OBVIOUS
<1>1. ViewInv /\ [Next]_vars
        => ViewInv' /\ [Abstract!Next]_<<Current, Stored>>
  BY ViewStep, PromisedStep
<1> QED BY <1>1, ViewInit, PTL DEF Spec, StoreImplementsFile, Abstract!Spec
=============================================================================
