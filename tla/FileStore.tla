----------------------------- MODULE FileStore ------------------------------
(***************************************************************************)
(* pkg/filestore: the write-back cache in front of the database, for one   *)
(* file (the entries of different files share only the map's lock and the  *)
(* flusher's loop). Callers and the flusher are threads: each pins the     *)
(* entry under the store's lock, does its operation under the entry's lock *)
(* and unpins, and the entry goes when nobody holds it and it is clean.    *)
(*                                                                         *)
(* A file is cut into parts of PartSize bytes. A circular file has as many *)
(* parts as MaxSize holds and wraps around them; its offsets do not wrap.  *)
(* The bytes are those of StoredFile, and a byte nobody wrote is Zero.     *)
(***************************************************************************)
EXTENDS Integers, FiniteSets, FiniteSetsExt, Functions, TLC

CONSTANTS
    Callers,            \* of the store's operations
    Flushers,           \* the flusher's loop, and the flush at shutdown
    NoEntry,            \* no cache entry for the file
    Kinds,              \* of writes, see StoredFile
    PartSize,           \* partDataSize
    MaxSize,            \* of a circular file, as MakeFile has rounded it up
    MaxRegular,         \* bounds: no file grows larger, without a
    MaxCircular,        \* limit of its own or with one
    Lengths,            \* of writes
    MaxFlushErrors,     \* refusals of the database that are survived (3 in the code)
    WritesAcrossStart   \* WriteAt may begin before the start of a circular file and end behind it

ASSUME FileStoreAssumption ==
    /\ IsFiniteSet(Callers) /\ IsFiniteSet(Flushers) /\ NoEntry \notin Int
    /\ PartSize \in Nat \ {0} /\ MaxSize \in Nat \ {0} /\ MaxSize % PartSize = 0
    /\ MaxRegular \in Nat /\ MaxCircular \in Nat
    /\ Lengths \subseteq Nat /\ MaxFlushErrors \in Nat
    /\ WritesAcrossStart \in BOOLEAN

VARIABLES
    db,         \* the file's rows: size (-1 without a row), Opts.Circular and the parts
    cache,      \* the entry FileStore.Cache has for the file, or NoEntry
    entries,    \* PinCount, File and DataEntries, FlushErrors of every entry there is
    isFlushing,
    pc,         \* "idle", "flushing" (has the dirty keys), "pinned", "done" (still pinned)
    holds       \* the entry a thread has pinned

vars == <<db, cache, entries, isFlushing, pc, holds>>

Threads == Callers \cup Flushers

\* As many entries as may be in use at once.
Entries == 1 .. Cardinality(Threads) + 1
Zero == <<>>
NoFile == -1
NoParts == [i \in {} |-> 0]
NoRows == [size |-> NoFile, circular |-> FALSE, parts |-> NoParts]

Symmetry == Permutations(Kinds) \cup Permutations(Callers)

\* A clean entry: neither File nor DataEntries.
Clean == [pins |-> 0, size |-> NoFile, circular |-> FALSE, parts |-> NoParts, errors |-> 0]

Dirty(entry) == entry.size # NoFile
-----------------------------------------------------------------------------
(* Offsets and parts.                                                      *)

PartIdxAtOffset(file, offset) ==
    IF file.circular THEN (offset \div PartSize) % (MaxSize \div PartSize) ELSE offset \div PartSize

\* Where the parts that hold a byte of offset .. end - 1 begin.
PartStarts(offset, end) ==
    {from \in 0 .. end : from % PartSize = 0 /\ from < end /\ from + PartSize > offset}

\* Mutant: only a write shorter than a part leaves bytes of a part alone.
IncompleteWhenShort(file, offset, n) ==
    IF n < PartSize THEN {PartIdxAtOffset(file, s) : s \in PartStarts(offset, offset + n)} ELSE {}

\* computePartMap and incompletePartsFromMap: the parts a write of n bytes does not cover.
\* When it goes round a circular file, the last visit of a part is the one in the map.
IncompleteParts(file, offset, n) ==
    LET starts == PartStarts(offset, offset + n)
        LastVisit(i) == Max({s \in starts : PartIdxAtOffset(file, s) = i})
    IN  {i \in {PartIdxAtOffset(file, s) : s \in starts} :
            ~ (offset <= LastVisit(i) /\ LastVisit(i) + PartSize <= offset + n)}

Limit(file) == IF file.circular THEN MaxCircular ELSE MaxRegular

\* Parts in place of the ones that have their index.
Over(parts, others) ==
    [i \in DOMAIN parts \cup DOMAIN others |-> IF i \in DOMAIN parts THEN parts[i] ELSE others[i]]

DataStartIdx(file) == IF file.circular THEN Max({0, file.size - MaxSize}) ELSE 0

\* readAt of the whole file: parts not in the cache come from the database, a part in
\* neither is zeros.
Contents(file, cached) ==
    LET Byte(i, b) ==
            CASE i \in DOMAIN cached -> cached[i][b]
              [] i \notin DOMAIN cached /\ i \in DOMAIN db.parts -> db.parts[i][b]
              [] OTHER -> Zero
    IN  [size |-> file.size, circular |-> file.circular,
         bytes |-> [o \in DataStartIdx(file) .. file.size - 1 |->
                       Byte(PartIdxAtOffset(file, o), o % PartSize)]]
-----------------------------------------------------------------------------
(* What is done to an entry while its lock is held.                        *)

\* loadFileIntoCache, when there is a row.
WithFile(entry) ==
    IF Dirty(entry) THEN entry ELSE [entry EXCEPT !.size = db.size, !.circular = db.circular]

\* loadDataPartsIntoCache: parts that are cached already are left alone.
WithParts(entry, wanted) ==
    [entry EXCEPT !.parts = Over(@, Restrict(db.parts, wanted \cap DOMAIN db.parts))]

\* The first byte of a write that is stored: a circular file drops what lies before its
\* start and all but the last MaxSize bytes.
FirstStored(file, offset, end) ==
    IF file.circular THEN Max({offset, file.size - MaxSize, end - MaxSize}) ELSE offset

\* The offset not below "from" that byte b of part i stands for.
OffsetAt(file, from, i, b) ==
    LET place == i * PartSize + b IN
        IF file.circular THEN from + ((place - from) % MaxSize) ELSE place

\* The parts with the bytes from .. end - 1 written into them.
PartsWritten(file, from, end, k) ==
    LET Old(i, b) == IF i \in DOMAIN file.parts THEN file.parts[i][b] ELSE Zero
        New(i, b, o) == IF o \in from .. end - 1 THEN <<k, o>> ELSE Old(i, b)
    IN  [i \in DOMAIN file.parts \cup {PartIdxAtOffset(file, o) : o \in from .. end - 1} |->
            [b \in 0 .. PartSize - 1 |-> New(i, b, OffsetAt(file, from, i, b))]]

\* writeAt, n bytes of kind k; one that lies before the start of a circular file is dropped.
WriteInto(entry, offset, n, k) ==
    LET end == offset + n IN
        IF entry.circular /\ end <= entry.size - MaxSize THEN entry
        ELSE [entry EXCEPT !.parts = PartsWritten(entry, FirstStored(entry, offset, end), end, k),
                           !.size = Max({@, end})]

\* writeAt with replace: size and DataEntries start from nothing.
ReplaceAll(entry, n, k) == WriteInto([entry EXCEPT !.size = 0, !.parts = NoParts], 0, n, k)

\* clear.
Cleared(entry) == [Clean EXCEPT !.pins = entry.pins]

\* dbWriteCacheEntry: one transaction.
Saved(entry, replace) ==
    [db EXCEPT !.size = entry.size,
               !.parts = IF replace THEN entry.parts ELSE Over(entry.parts, @)]

\* Mutant: one refusal fewer is survived.
AfterErrorEarly(entry) ==
    IF entry.errors + 1 < MaxFlushErrors THEN [entry EXCEPT !.errors = @ + 1] ELSE Cleared(entry)

\* A failed flush is counted; one too many gives the entry up.
AfterError(entry) ==
    IF entry.errors < MaxFlushErrors THEN [entry EXCEPT !.errors = @ + 1] ELSE Cleared(entry)

\* flushToDB leaves <<rows, entry>>: it is done; or the context has expired, before the
\* transaction or after it, and the entry is kept; or the database refuses.
FlushOutcomes(entry, replace) ==
    IF ~Dirty(entry) THEN {<<db, entry>>}
    ELSE {<<db, AfterError(entry)>>, <<db, entry>>} \cup
         IF db.size = NoFile THEN {}
         ELSE {<<Saved(entry, replace), Cleared(entry)>>, <<Saved(entry, replace), entry>>}
-----------------------------------------------------------------------------
(* The pin and the entry's lock around every operation (withLock).         *)

Init ==
    /\ db = NoRows
    /\ cache = NoEntry
    /\ entries = [e \in Entries |-> Clean]
    /\ isFlushing = FALSE
    /\ pc = [t \in Threads |-> "idle"]
    /\ holds = [t \in Threads |-> NoEntry]

Unused(e) == e # cache /\ \A t \in Threads : holds[t] # e

\* getEntryAndPin.
Pin(t) ==
    /\ pc[t] = IF t \in Flushers THEN "flushing" ELSE "idle"
    /\ cache' = IF cache = NoEntry THEN Min({e \in Entries : Unused(e)}) ELSE cache
    /\ entries' = [entries EXCEPT ![cache'].pins = @ + 1]
    /\ holds' = [holds EXCEPT ![t] = cache']
    /\ pc' = [pc EXCEPT ![t] = "pinned"]
    /\ UNCHANGED <<db, isFlushing>>

\* unpinEntryAndTryDelete looks the entry up again; FlushCache also ends.
Unpinned(entry) == [entry EXCEPT !.pins = @ - 1]

\* Mutant: the pins of others are not looked at.
MayGoWhenClean(entry) == ~Dirty(entry)

MayGo(entry) == entry.pins <= 0 /\ ~Dirty(entry)

Unpin(t) ==
    /\ pc[t] = "done"
    /\ IF cache = NoEntry THEN UNCHANGED <<cache, entries>>
       ELSE /\ entries' = [entries EXCEPT ![cache] = Unpinned(@)]
            /\ cache' = IF MayGo(Unpinned(entries[cache])) THEN NoEntry ELSE cache
    /\ holds' = [holds EXCEPT ![t] = NoEntry]
    /\ pc' = [pc EXCEPT ![t] = "idle"]
    /\ isFlushing' = (isFlushing /\ t \notin Flushers)
    /\ UNCHANGED <<db>>

\* The operation has left its entry like this; the lock is released.
Leaves(t, entry) ==
    /\ entries' = [entries EXCEPT ![holds[t]] = entry]
    /\ pc' = [pc EXCEPT ![t] = "done"]
    /\ UNCHANGED <<cache, holds, isFlushing>>

Entry(t) == entries[holds[t]]
Locks(t) == pc[t] = "pinned"
Finds(t) == Locks(t) /\ (Dirty(Entry(t)) \/ db.size # NoFile)
-----------------------------------------------------------------------------
(* The operations.                                                         *)

\* A read, or one that fails before it has changed anything.
ReadFile(t) == Locks(t) /\ Leaves(t, Entry(t)) /\ UNCHANGED db

MakeFile(t) ==
    /\ Locks(t)
    /\ ~Dirty(Entry(t)) /\ db.size = NoFile
    /\ \E circular \in BOOLEAN : db' = [NoRows EXCEPT !.size = 0, !.circular = circular]
    /\ Leaves(t, Entry(t))

DeleteFile(t) ==
    /\ Locks(t)
    /\ db' = NoRows
    /\ Leaves(t, Cleared(Entry(t)))

\* Also a write whose parts cannot be loaded: only the file is in the cache.
WriteMeta(t) ==
    /\ Finds(t)
    /\ Leaves(t, WithFile(Entry(t)))
    /\ UNCHANGED db

\* WriteAt's work once the file is loaded; AppendData is a write at the end.
WrittenAt(entry, offset, n, k) ==
    WriteInto(WithParts(entry, IncompleteParts(entry, offset, n)), offset, n, k)

AcrossStart(file, offset, n) ==
    file.circular /\ offset < file.size - MaxSize /\ file.size - MaxSize < offset + n

WriteAt(t) ==
    /\ Finds(t)
    /\ LET entry == WithFile(Entry(t)) IN
        \E offset \in 0 .. entry.size, n \in Lengths, k \in Kinds :
            /\ offset + n <= Limit(entry)
            /\ WritesAcrossStart \/ ~AcrossStart(entry, offset, n)
            /\ Leaves(t, WrittenAt(entry, offset, n, k))
    /\ UNCHANGED db

Texts(entry) == {n \in Lengths \cup {0} : n <= Limit(WithFile(entry))}

\* WriteFile truncates, so it flushes at once.
WriteFile(t) ==
    /\ Finds(t)
    /\ \E n \in Texts(Entry(t)), k \in Kinds :
        \E outcome \in FlushOutcomes(ReplaceAll(WithFile(Entry(t)), n, k), TRUE) :
            /\ db' = outcome[1]
            /\ Leaves(t, outcome[2])

\* compactIJson, by itself or after AppendIJson's append: another text in place of the
\* whole file, which the flusher saves later.
CompactIJson(t) ==
    /\ Finds(t)
    /\ ~WithFile(Entry(t)).circular
    /\ \E n \in Texts(Entry(t)), k \in Kinds :
           Leaves(t, ReplaceAll(WithFile(Entry(t)), n, k))
    /\ UNCHANGED db
-----------------------------------------------------------------------------
(* The flusher, and the end of the program.                                *)

\* FlushCache: setUnlessFlushing and getDirtyCacheKeys.
FlushCache(t) ==
    /\ pc[t] = "idle" /\ ~isFlushing
    /\ cache # NoEntry /\ Dirty(entries[cache])
    /\ isFlushing' = TRUE
    /\ pc' = [pc EXCEPT ![t] = "flushing"]
    /\ UNCHANGED <<db, cache, entries, holds>>

FlushEntry(t) ==
    /\ Locks(t)
    /\ \E outcome \in FlushOutcomes(Entry(t), FALSE) :
           db' = outcome[1] /\ Leaves(t, outcome[2])

Crash ==
    /\ cache' = NoEntry
    /\ entries' = [e \in Entries |-> Clean]
    /\ isFlushing' = FALSE
    /\ pc' = [t \in Threads |-> "idle"]
    /\ holds' = [t \in Threads |-> NoEntry]
    /\ UNCHANGED db

Operation(t) ==
    \/ ReadFile(t) \/ MakeFile(t) \/ DeleteFile(t) \/ WriteMeta(t)
    \/ WriteAt(t) \/ WriteFile(t) \/ CompactIJson(t)

Next ==
    \/ \E t \in Threads : Pin(t) \/ Unpin(t)
    \/ \E t \in Callers : Operation(t)
    \/ \E t \in Flushers : FlushCache(t) \/ FlushEntry(t)
    \/ Crash

Spec == Init /\ [][Next]_vars
-----------------------------------------------------------------------------
(* Properties.                                                             *)

\* The file as it is read now, and as the rows alone would give it.
Stored == Contents(db, NoParts)

Current ==
    IF cache # NoEntry /\ Dirty(entries[cache])
    THEN Contents(entries[cache], entries[cache].parts) ELSE Stored

Abstract == INSTANCE StoredFile WITH now <- Current, kept <- Stored

\* Through parts that are loaded, half written, wrapped, flushed without what lies behind
\* the end, cleared and loaded again, the file that is read is the one that was written,
\* and the rows are the file as it was at one moment.
StoreImplementsFile == Abstract!Spec

\* Everybody who works on the file has the same entry, so its lock excludes them: an entry
\* leaves the map only when nobody has it pinned.
PinsAreCounted ==
    /\ \A t \in Threads : holds[t] # NoEntry => holds[t] = cache
    /\ cache # NoEntry =>
        entries[cache].pins = Cardinality({t \in Threads : holds[t] # NoEntry})

\* A write that is not in the rows stays in the cache until it is, or the file is deleted:
\* it is given up only in a crash or after one refusal too many in a row. (Or
\* WriteFile has just replaced it by what the rows hold.)
UnsavedStays ==
    [][Current # Stored /\ db' = db /\ (cache' # cache \/ ~Dirty(entries'[cache]))
        => \/ Crash
           \/ entries[cache].errors = MaxFlushErrors
           \/ \E t \in Callers : WriteFile(t)]_vars
=============================================================================
