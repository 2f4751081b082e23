---------------------------- MODULE JournalFile ----------------------------
(***************************************************************************)
(* Journal files (pkg/journalfile): writers append entries to a file that     *)
(* readers read at the same time.  The file is a header and a sequence of      *)
(* objects; an object's offset is its index here.  Objects are written where   *)
(* the file ends and later only their links are changed.  The writer's         *)
(* header lives in memory and reaches the file at Sync.                      *)
(*                                                                         *)
(* Every entry has an entry array of its own; the arrays are chained.  A data   *)
(* object (field=value) is written once, while a writer remembers it, and       *)
(* lists the entries that have it: the first one itself, the others in arrays  *)
(* of ArrayCap slots.  It is found through a hash table; all data are taken to  *)
(* be in one bucket.  A crash is that of the writing process: what it wrote     *)
(* stays.                                                                  *)
(***************************************************************************)
EXTENDS Integers, Sequences, FiniteSets

CONSTANTS Writers, Readers,
          Data,           \* field=value pairs
          FieldOf,        \* [Data -> names]
          ArrayCap,       \* slots of a data object's entry arrays (16 in the code)
          OffsetMod,      \* TailEntryArrayOffset is narrower than an offset (2^32)
          MaxEntries,     \* bound: entries appended
          MaxOpens,       \* bound: Create and OpenAppend
          NoWriter

ASSUME JournalAssumption ==
    /\ ArrayCap \in Nat \ {0} /\ OffsetMod \in Nat \ {0}
    /\ MaxEntries \in Nat /\ MaxOpens \in Nat
    /\ FieldOf \in [Data -> STRING] /\ NoWriter \notin Writers

VARIABLES
    exists, objs,      \* the file: its objects,
    disk,              \* its header,
    hash, fields,      \* its hash tables: head and tail of the bucket of the data,
                       \* and the tail of the bucket of the fields
    flock,
    wpc, hdr,          \* each writer: step of AppendEntry, header in memory,
    cache, fcache,     \* caches of data and of fields,
    todo, items, cur,  \* data still to write or link, data of the entry, object written
    dirty,
    appended, opens,   \* counters
    rd,                \* readers
    synced, torn, reopened   \* history: entries at the last Sync; a writer died with
                             \* entries linked that no header knows; OpenAppend happened

fileVars == <<exists, objs, disk, hash, fields>>
memVars == <<hdr, cache, fcache, todo, items, cur, dirty>>
pastVars == <<appended, opens, synced, torn, reopened>>
jfVars == <<fileVars, flock, wpc, memVars, rd, pastVars>>

EmptyHeader == [head |-> 0, tail |-> 0, seq |-> 0, online |-> FALSE]
NoReader == [open |-> FALSE, head |-> 0, seq |-> 0, cur |-> 0, arr |-> 0, entry |-> 0,
             idx |-> 0, next |-> 0, init |-> FALSE, got |-> 0, eof |-> FALSE]

DataObj(d, nextField) == [type |-> "data", data |-> d, first |-> 0, array |-> 0, n |-> 0,
                          nextHash |-> 0, nextField |-> nextField]
FieldObj(name) == [type |-> "field", name |-> name, headData |-> 0]
EntryObj(seq, I) == [type |-> "entry", seq |-> seq, items |-> I]
ArrayObj(s) == [type |-> "array", slots |-> s, next |-> 0]

JInit ==
    /\ exists = FALSE /\ objs = <<>> /\ disk = EmptyHeader
    /\ hash = [head |-> 0, tail |-> 0] /\ fields = 0 /\ flock = NoWriter
    /\ wpc = [w \in Writers |-> "closed"] /\ hdr = [w \in Writers |-> EmptyHeader]
    /\ cache = [w \in Writers |-> <<>>] /\ fcache = [w \in Writers |-> <<>>]
    /\ todo = [w \in Writers |-> {}] /\ items = [w \in Writers |-> {}]
    /\ cur = [w \in Writers |-> 0] /\ dirty = [w \in Writers |-> FALSE]
    /\ appended = 0 /\ opens = 0
    /\ rd = [r \in Readers |-> NoReader]
    /\ synced = <<>> /\ torn = FALSE /\ reopened = FALSE

Put(f, k, v) == [x \in DOMAIN f \cup {k} |-> IF x = k THEN v ELSE f[x]]
Goto(w, where) == wpc' = [wpc EXCEPT ![w] = where]
End == Len(objs) + 1

-----------------------------------------------------------------------------
(* Create and initialize, OpenAppend.  The caches begin empty.               *)
OpenWriter(w, h) ==
    /\ wpc[w] = "closed" /\ opens < MaxOpens /\ opens' = opens + 1
    /\ Goto(w, "idle") /\ hdr' = [hdr EXCEPT ![w] = h]
    /\ cache' = [cache EXCEPT ![w] = <<>>] /\ fcache' = [fcache EXCEPT ![w] = <<>>]
    /\ dirty' = [dirty EXCEPT ![w] = FALSE]
    /\ UNCHANGED <<objs, disk, hash, fields, flock, todo, items, cur, rd, appended, synced,
                   torn>>

Create(w) ==
    /\ ~exists /\ exists' = TRUE /\ OpenWriter(w, EmptyHeader) /\ UNCHANGED reopened

OpenAppend(w) ==
    /\ exists /\ OpenWriter(w, disk) /\ reopened' = TRUE /\ UNCHANGED exists

(* AppendEntry: flock, then beginWrite flips the state in the file.  A write that     *)
(* fails is the end of the writer (its Crash), as it is in the only program that    *)
(* calls AppendEntry; one that went on after an error is not modelled.          *)
AppendEntry(w, D) ==
    /\ wpc[w] = "idle" /\ flock = NoWriter /\ appended < MaxEntries
    /\ flock' = w /\ appended' = appended + 1 /\ Goto(w, "data")
    /\ hdr' = [hdr EXCEPT ![w].online = TRUE] /\ disk' = [disk EXCEPT !.online = TRUE]
    /\ todo' = [todo EXCEPT ![w] = D] /\ items' = [items EXCEPT ![w] = {}]
    /\ dirty' = [dirty EXCEPT ![w] = TRUE]
    /\ UNCHANGED <<exists, objs, hash, fields, cache, fcache, cur, rd, opens, synced, torn,
                   reopened>>

appendOnly == UNCHANGED <<exists, disk, flock, rd, pastVars>>

(* The next field of the entry (in no order) is remembered ...               *)
CachedData(w, d) ==
    /\ wpc[w] = "data" /\ d \in todo[w] /\ d \in DOMAIN cache[w]
    /\ items' = [items EXCEPT ![w] = @ \cup {cache[w][d]}]
    /\ todo' = [todo EXCEPT ![w] = @ \ {d}]
    /\ UNCHANGED <<objs, hash, fields, wpc, hdr, cache, fcache, cur, dirty>> /\ appendOnly

(* ... or not: ensureField writes the field object that is not remembered,     *)
(* which becomes the tail of its bucket.                                   *)
EnsureField(w, d) ==
    /\ wpc[w] = "data" /\ d \in todo[w] /\ d \notin DOMAIN cache[w]
    /\ FieldOf[d] \notin DOMAIN fcache[w]
    /\ objs' = Append(objs, FieldObj(FieldOf[d]))
    /\ fcache' = [fcache EXCEPT ![w] = Put(@, FieldOf[d], End)] /\ fields' = End
    /\ UNCHANGED <<hash, wpc, hdr, cache, todo, items, cur, dirty>> /\ appendOnly

(* appendData writes the data object, the field's new head and the link of     *)
(* the hash chain: several writes of the code, one step here, as no reader      *)
(* and no walk of entries comes to a data object before its entry is linked.    *)
AppendData(w, d) ==
    /\ wpc[w] = "data" /\ d \in todo[w] /\ d \notin DOMAIN cache[w]
    /\ FieldOf[d] \in DOMAIN fcache[w]
    /\ LET f == fcache[w][FieldOf[d]]
           o1 == Append(objs, DataObj(d, objs[f].headData))
           o2 == [o1 EXCEPT ![f].headData = End]
       IN  objs' = IF hash.tail = 0 THEN o2 ELSE [o2 EXCEPT ![hash.tail].nextHash = End]
    /\ hash' = [head |-> IF hash.head = 0 THEN End ELSE hash.head, tail |-> End]
    /\ cache' = [cache EXCEPT ![w] = Put(@, d, End)]
    /\ items' = [items EXCEPT ![w] = @ \cup {End}]
    /\ todo' = [todo EXCEPT ![w] = @ \ {d}]
    /\ UNCHANGED <<fields, wpc, hdr, fcache, cur, dirty>> /\ appendOnly

(* appendEntryObject: the entry, with the next sequence number.               *)
WriteEntry(w) ==
    /\ wpc[w] = "data" /\ todo[w] = {} /\ Goto(w, "link")
    /\ hdr' = [hdr EXCEPT ![w].seq = @ + 1]
    /\ objs' = Append(objs, EntryObj(hdr[w].seq + 1, items[w]))
    /\ cur' = [cur EXCEPT ![w] = End]
    /\ UNCHANGED <<hash, fields, cache, fcache, todo, items, dirty>> /\ appendOnly

(* The object at o is an entry array: a walk ends where there is none.         *)
IsArray(o) == objs[o].type = "array"

(* The last array of a chain.                                               *)
LastArray(a) ==
    LET L[o \in 1..Len(objs)] ==
          IF ~IsArray(o) \/ objs[o].next = 0 THEN o ELSE L[objs[o].next] IN L[a]

Slots(e) == [i \in 1..ArrayCap |-> IF i = 1 THEN e ELSE 0]
FreeSlot(a) == {i \in 1..ArrayCap : objs[a].slots[i] = 0}

(* Mutant of ListEntry: a new array is not linked to the full one.            *)
ListEntry_Unlinked(d, e) ==
    LET o == objs[d]
        a == IF o.array = 0 THEN 0 ELSE LastArray(o.array)
        filled == IF o.first = 0 THEN [objs EXCEPT ![d].first = e]
                  ELSE IF a # 0 /\ FreeSlot(a) # {}
                  THEN [objs EXCEPT ![a].slots[CHOOSE i \in FreeSlot(a) :
                                                \A k \in FreeSlot(a) : i <= k] = e]
                  ELSE LET more == Append(objs, ArrayObj(Slots(e))) IN
                       IF a = 0 THEN [more EXCEPT ![d].array = End] ELSE more
    IN  [filled EXCEPT ![d].n = @ + 1]

(* linkDataToEntry: entry e is the data object's first, or takes the first     *)
(* free slot of its last array, or a new array is chained.  The array, its link  *)
(* and the count are writes of their own in the code, and one step here: they     *)
(* are only read by lookups, and those are of a file between two appends.       *)
ListEntry(d, e) ==
    LET o == objs[d]
        a == IF o.array = 0 THEN 0 ELSE LastArray(o.array)
        filled == IF o.first = 0 THEN [objs EXCEPT ![d].first = e]
                  ELSE IF a # 0 /\ FreeSlot(a) # {}
                  THEN [objs EXCEPT ![a].slots[CHOOSE i \in FreeSlot(a) :
                                                \A k \in FreeSlot(a) : i <= k] = e]
                  ELSE LET more == Append(objs, ArrayObj(Slots(e))) IN
                       IF a = 0 THEN [more EXCEPT ![d].array = End]
                       ELSE [more EXCEPT ![a].next = End]
    IN  [filled EXCEPT ![d].n = @ + 1]

LinkDataToEntry(w, d) ==
    /\ wpc[w] = "link" /\ d \in items[w]
    /\ objs' = ListEntry(d, cur[w])
    /\ items' = [items EXCEPT ![w] = @ \ {d}]
    /\ UNCHANGED <<hash, fields, wpc, hdr, cache, fcache, todo, cur, dirty>> /\ appendOnly

(* appendEntryArray: the entry's own array ...                              *)
WriteArray(w) ==
    /\ wpc[w] = "link" /\ items[w] = {} /\ Goto(w, "chain")
    /\ objs' = Append(objs, ArrayObj(<<cur[w]>>))
    /\ cur' = [cur EXCEPT ![w] = End]
    /\ UNCHANGED <<hash, fields, hdr, cache, fcache, todo, items, dirty>> /\ appendOnly

(* ... linked from the tail that the header in memory names.                 *)
ChainArray(w) ==
    /\ wpc[w] = "chain" /\ Goto(w, "header")
    /\ objs' = IF hdr[w].tail = 0 \/ hdr[w].tail \notin DOMAIN objs
                  \/ objs[hdr[w].tail].type # "array" THEN objs
               ELSE [objs EXCEPT ![hdr[w].tail].next = cur[w]]
    /\ UNCHANGED <<hash, fields, memVars>> /\ appendOnly

(* Mutant of UpdateHeader: the tail stays where it was.                      *)
UpdateHeader_KeepsTail(w) ==
    /\ wpc[w] = "header" /\ Goto(w, "idle") /\ flock' = NoWriter
    /\ hdr' = [hdr EXCEPT ![w].head = IF @ = 0 THEN cur[w] ELSE @,
                          ![w].tail = IF @ = 0 THEN cur[w] ELSE @]
    /\ cur' = [cur EXCEPT ![w] = 0]
    /\ UNCHANGED <<fileVars, cache, fcache, todo, items, dirty, rd, pastVars>>

(* The header in memory, the tail as a uint32; flock is released.             *)
UpdateHeader(w) ==
    /\ wpc[w] = "header" /\ Goto(w, "idle") /\ flock' = NoWriter
    /\ hdr' = [hdr EXCEPT ![w].head = IF @ = 0 THEN cur[w] ELSE @,
                          ![w].tail = cur[w] % OffsetMod]
    /\ cur' = [cur EXCEPT ![w] = 0]
    /\ UNCHANGED <<fileVars, cache, fcache, todo, items, dirty, rd, pastVars>>

(* The entries that a walk along the arrays from a finds.                    *)
Walk(a) ==
    LET W[o \in 0..Len(objs)] ==
          IF o = 0 \/ ~IsArray(o) THEN <<>> ELSE objs[o].slots \o W[objs[o].next] IN W[a]

(* syncLocked: the whole header in one write, OFFLINE, then fsync.            *)
Sync(w) ==
    /\ wpc[w] = "idle" /\ dirty[w]
    /\ hdr' = [hdr EXCEPT ![w].online = FALSE]
    /\ disk' = [hdr[w] EXCEPT !.online = FALSE]
    /\ dirty' = [dirty EXCEPT ![w] = FALSE]
    /\ synced' = Walk(hdr[w].head)
    /\ UNCHANGED <<exists, objs, hash, fields, flock, wpc, cache, fcache, todo, items, cur,
                   rd, appended, opens, torn, reopened>>

CloseWriter(w) ==
    /\ wpc[w] = "idle" /\ ~dirty[w] /\ Goto(w, "closed")
    /\ UNCHANGED <<fileVars, flock, memVars, rd, pastVars>>

(* The writing process dies; the header in memory and flock go with it.       *)
Crash(w) ==
    /\ wpc[w] # "closed" /\ Goto(w, "closed")
    /\ flock' = IF flock = w THEN NoWriter ELSE flock
    /\ torn' = (torn \/ (disk.tail # 0 /\ objs[disk.tail].next # 0))
    /\ todo' = [todo EXCEPT ![w] = {}] /\ items' = [items EXCEPT ![w] = {}]
    /\ cur' = [cur EXCEPT ![w] = 0]
    /\ UNCHANGED <<fileVars, hdr, cache, fcache, dirty, rd, appended, opens, synced,
                   reopened>>

Writer(w) ==
    \/ Create(w) \/ OpenAppend(w) \/ Sync(w) \/ CloseWriter(w) \/ Crash(w)
    \/ \E D \in SUBSET Data \ {{}} : AppendEntry(w, D)
    \/ \E d \in Data : CachedData(w, d) \/ EnsureField(w, d) \/ AppendData(w, d)
    \/ \E d \in items[w] : LinkDataToEntry(w, d)
    \/ WriteEntry(w) \/ WriteArray(w) \/ ChainArray(w) \/ UpdateHeader(w)

-----------------------------------------------------------------------------
(* Readers.                                                                *)
ReaderStep(r, s) ==
    /\ rd' = [rd EXCEPT ![r] = s]
    /\ UNCHANGED <<fileVars, flock, wpc, memVars, pastVars>>

(* OpenRead, or SeekHead of a reader that is open.                           *)
OpenRead(r) ==
    /\ exists /\ ~rd[r].open
    /\ ReaderStep(r, [NoReader EXCEPT !.open = TRUE, !.head = disk.head, !.seq = disk.seq])

(* Refresh reads the header again.                                          *)
Refresh(r) ==
    /\ rd[r].open /\ (rd[r].head # disk.head \/ rd[r].seq # disk.seq)
    /\ ReaderStep(r, [rd[r] EXCEPT !.head = disk.head, !.seq = disk.seq, !.eof = FALSE])

(* loadEntryArray: the entry of the array and the next array, as they are now. *)
Load(s, a) == [s EXCEPT !.arr = a, !.entry = objs[a].slots[1], !.idx = 0,
                        !.next = objs[a].next]

AtEOF(s) == [s EXCEPT !.eof = TRUE]

(* The entry of the loaded array is next; it is passed over if it was seen.    *)
TakeEntry(s) ==
    LET e == objs[s.entry] IN
    IF e.seq <= s.cur THEN [s EXCEPT !.idx = 1]
    ELSE [s EXCEPT !.idx = 1, !.cur = e.seq, !.got = @ + 1]

(* Mutant of NextEntry: the tail array is not loaded again.                  *)
NextEntry_NoReload(r) ==
    /\ rd[r].open /\ ~rd[r].eof
    /\ LET s == rd[r] IN ReaderStep(r,
        IF ~s.init THEN IF s.head = 0 THEN AtEOF([s EXCEPT !.init = TRUE])
                        ELSE Load([s EXCEPT !.init = TRUE], s.head)
        ELSE IF s.arr = 0 THEN AtEOF(s)
        ELSE IF s.idx = 0 THEN TakeEntry(s)
        ELSE IF s.next # 0 THEN Load(s, s.next)
        ELSE AtEOF(s))

(* One turn of nextEntry's loop: the head array, the entry of the array, the    *)
(* next array, or the tail array again if the header says that there is more.  *)
NextEntry(r) ==
    /\ rd[r].open /\ ~rd[r].eof
    /\ LET s == rd[r] IN ReaderStep(r,
        IF ~s.init THEN IF s.head = 0 THEN AtEOF([s EXCEPT !.init = TRUE])
                        ELSE Load([s EXCEPT !.init = TRUE], s.head)
        ELSE IF s.arr = 0 THEN AtEOF(s)
        ELSE IF s.idx = 0 THEN TakeEntry(s)
        ELSE IF s.next # 0 THEN Load(s, s.next)
        ELSE IF s.cur < s.seq /\ objs[s.arr].next # 0
             THEN [Load(s, s.arr) EXCEPT !.idx = 1]
        ELSE AtEOF(s))

(* SeekHead and SeekCursor: the position is a sequence number, and the next     *)
(* call begins at the head array again.                                     *)
Seek(r) ==
    /\ rd[r].open /\ rd[r].init
    /\ \E k \in {0, rd[r].cur} :
        ReaderStep(r, [rd[r] EXCEPT !.cur = k, !.got = k, !.arr = 0, !.entry = 0, !.idx = 0,
                                    !.next = 0, !.init = FALSE, !.eof = FALSE])

JNext ==
    \/ \E w \in Writers : Writer(w)
    \/ \E r \in Readers : OpenRead(r) \/ Refresh(r) \/ NextEntry(r) \/ Seek(r)

JSpec == JInit /\ [][JNext]_jfVars

-----------------------------------------------------------------------------
(* Properties.                                                             *)

(* Entries that were in the file at a Sync stay readable, in their order, from    *)
(* the header in the file, whatever a writer was doing when it died and whatever  *)
(* the next one appends after it.                                             *)
SyncedEntriesSurvive ==
    LET now == Walk(disk.head) IN
    /\ Len(now) >= Len(synced)
    /\ SubSeq(now, 1, Len(synced)) = synced
    /\ disk.seq = Len(synced)

(* The data object that the hash table finds for d.                             *)
Lookup(d) ==
    LET L[o \in 0..Len(objs)] ==
          IF o = 0 \/ objs[o].type # "data" THEN 0
          ELSE IF objs[o].data = d THEN o ELSE L[objs[o].nextHash]
    IN  L[hash.head]

EntriesWith(d) == {e \in DOMAIN objs : objs[e].type = "entry"
                     /\ \E x \in objs[e].items : objs[x].data = d}
Listed(o) ==
    LET W == Walk(objs[o].array) IN
    ({objs[o].first} \cup {W[i] : i \in DOMAIN W}) \ {0}

(* In a file that one writer wrote, and between its appends, the index is exact:   *)
(* a data object that the hash table finds lists the entries that have the data,   *)
(* and counts them.  (A writer that opens the file again remembers no data and     *)
(* writes them a second time.)                                                *)
IndexIsExact ==
    ~reopened /\ (\A w \in Writers : wpc[w] = "idle") =>
        \A d \in Data : LET o == Lookup(d) IN
            IF EntriesWith(d) = {} THEN o = 0
            ELSE o # 0 /\ Listed(o) = EntriesWith(d) /\ objs[o].n = Cardinality(Listed(o))

(* A reader gets the entries one after the other, without a gap, while a writer     *)
(* appends, and when it says EOF it has every entry its header knows of: unless it  *)
(* began on an empty file (nextEntry remembers that), or a writer died after        *)
(* linking entries that its successor does not know.                             *)
ReaderMissesNothing ==
    ~torn => \A r \in Readers :
        /\ rd[r].got = rd[r].cur
        /\ rd[r].eof /\ rd[r].arr # 0 => rd[r].cur >= rd[r].seq
=============================================================================
