--------------------------- MODULE JournalProofs ---------------------------
(* Proofs about journal files: what was synced survives, a reader misses nothing  *)
(* and the index of a file that is not reopened is exact, for every number of     *)
(* entries, data, reopens and readers.  There is one writer (OneWriter), and      *)
(* the theorems are about files so small that the offset of an array fits its     *)
(* field of the header (Fits).                                                *)
EXTENDS JournalFile, NumberLemmas, FiniteSetTheorems

OneWriter == \E w \in Writers : Writers = {w}
Fits == Len(objs) < OffsetMod

-----------------------------------------------------------------------------
(* The inductive invariant.                                                   *)

Headers == [head : Nat, tail : Nat, seq : Nat, online : BOOLEAN]
WriterPCs == {"closed", "idle", "data", "link", "chain", "header"}
DataRecs == [type : {"data"}, data : Data, first : Nat, array : Nat, n : Nat,
             nextHash : Nat, nextField : Nat]
FieldRecs == [type : {"field"}, name : STRING, headData : Nat]
EntryRecs == [type : {"entry"}, seq : Nat, items : SUBSET Nat]
ArrayRecs == [type : {"array"}, slots : Seq(Nat), next : Nat]
Objects == DataRecs \cup FieldRecs \cup EntryRecs \cup ArrayRecs
ReaderRecs == [open : BOOLEAN, head : Nat, seq : Nat, cur : Nat, arr : Nat, entry : Nat,
               idx : Nat, next : Nat, init : BOOLEAN, got : Nat, eof : BOOLEAN]

Of(type) == {o \in DOMAIN objs : objs[o].type = type}

FileTypes == objs \in Seq(Objects)
HeadTypes ==
    /\ exists \in BOOLEAN /\ torn \in BOOLEAN
    /\ disk \in Headers /\ hash \in [head : Nat, tail : Nat] /\ synced \in Seq(Nat)
MemTypes ==
    /\ wpc \in [Writers -> WriterPCs] /\ hdr \in [Writers -> Headers]
    /\ DOMAIN cache = Writers /\ DOMAIN fcache = Writers
    /\ items \in [Writers -> SUBSET Nat]
    /\ cur \in [Writers -> Nat] /\ dirty \in [Writers -> BOOLEAN]
    /\ DOMAIN rd = Readers

(* What the writer remembers is what its names say.                              *)
RefInv ==
    /\ hash.tail = 0 \/ hash.tail \in Of("data")
    /\ \A w \in Writers :
        /\ \A d \in DOMAIN cache[w] : cache[w][d] \in Of("data")
        /\ \A f \in DOMAIN fcache[w] : fcache[w][f] \in Of("field")
        /\ items[w] \subseteq Of("data")

(* Links lead forward in the file, so that every walk ends.                      *)
ForwardInv ==
    \A o \in Of("array") : objs[o].next = 0 \/ (objs[o].next \in DOMAIN objs /\ o < objs[o].next)

(* The arrays of the data objects, L, are a world of their own.                   *)
DataInv(L) ==
    /\ \A o \in L : o \in Of("array") /\ (objs[o].next = 0 \/ objs[o].next \in L)
    /\ \A o \in Of("data") : objs[o].array = 0 \/ objs[o].array \in L

(* An array of an entry, the s-th of the file.                                 *)
ArrayOfEntry(o, s) ==
    /\ o \in Of("array") /\ Len(objs[o].slots) = 1
    /\ objs[o].slots[1] \in Of("entry") /\ objs[objs[o].slots[1]].seq = s

(* The chain of the entries' arrays that begins at a.                            *)
IsChain(c, a) ==
    /\ Len(c) = 0 <=> a = 0
    /\ a # 0 => c[1] = a
    /\ \A i \in 1..Len(c) :
        /\ ArrayOfEntry(c[i], i)
        /\ objs[c[i]].next = IF i = Len(c) THEN 0 ELSE c[i + 1]

(* Where the file begins for whoever knows most of it.                           *)
Begin(w) == IF wpc[w] = "closed" THEN disk.head ELSE hdr[w].head

(* The chain begins with the entries that were synced.  What follows them may be   *)
(* left over from a writer that died.                                         *)
SyncInv(w, c) ==
    /\ disk.seq = Len(synced) /\ Len(synced) <= Len(c)
    /\ \A i \in 1..Len(synced) : synced[i] = objs[c[i]].slots[1]
    /\ Len(synced) = 0 => disk.head = 0 /\ disk.tail = 0
    /\ Len(synced) > 0 => disk.head = Begin(w) /\ disk.head # 0 /\ disk.tail = c[Len(synced)]
    /\ ~exists => disk.head = 0 /\ wpc[w] = "closed"

(* The entries that the header in memory knows: not the one being appended.        *)
Known(w) == IF wpc[w] \in {"link", "chain", "header"} THEN hdr[w].seq - 1 ELSE hdr[w].seq

(* The writer's tail is the last entry it knows, and what it is writing hangs on    *)
(* nothing yet, or on that tail.                                              *)
WriterInv(w, L, c) ==
    wpc[w] # "closed" =>
        /\ Len(synced) <= Known(w) /\ Known(w) <= Len(c)
        /\ hdr[w].tail = IF Known(w) = 0 THEN 0 ELSE c[Known(w)]
        /\ Known(w) = 0 => hdr[w].head = 0
        /\ wpc[w] # "idle" => dirty[w]
        /\ wpc[w] = "idle" /\ dirty[w] => Len(c) = Known(w)
        /\ wpc[w] = "idle" /\ ~dirty[w] => hdr[w].head = disk.head /\ hdr[w].seq = Len(synced)
        /\ wpc[w] = "link" => cur[w] \in Of("entry") /\ objs[cur[w]].seq = hdr[w].seq
        /\ wpc[w] \in {"chain", "header"} =>
             ArrayOfEntry(cur[w], hdr[w].seq) /\ objs[cur[w]].next = 0 /\ cur[w] \notin L
        /\ wpc[w] = "chain" => \A i \in 1..Len(c) : c[i] < cur[w]
        /\ wpc[w] = "header" =>
             IF hdr[w].head = 0 THEN Len(c) = 0
             ELSE Len(c) = hdr[w].seq /\ c[Len(c)] = cur[w]

(* As long as nothing is left over, the chain has no more than the writer knows,    *)
(* and each reader is at a place of it and has got what lies before.             *)
AtPlace(s, c) ==
    \E i \in 1..Len(c) :
        /\ s.arr = c[i] /\ s.entry = objs[c[i]].slots[1]
        /\ s.next = 0 \/ (i < Len(c) /\ s.next = c[i + 1])
        /\ s.cur >= IF s.idx = 0 THEN i - 1 ELSE i
ReaderInv(s, c) ==
    /\ s \in ReaderRecs /\ s.got = s.cur /\ s.seq <= disk.seq /\ s.head \in {0, disk.head}
    /\ ~s.init => s.arr = 0
    /\ s.arr # 0 => disk.head # 0 /\ AtPlace(s, c)
    /\ s.eof /\ s.arr # 0 => s.cur >= s.seq
LengthInv(w, c) ==
    /\ wpc[w] = "closed" => Len(c) = Len(synced)
    /\ wpc[w] \in {"idle", "data", "link", "chain"} => Len(c) = Known(w)
NothingLeft(w, c) ==
    ~torn => LengthInv(w, c) /\ \A r \in Readers : ReaderInv(rd[r], c)

ChainInv(w, L, c) ==
    /\ DataInv(L) /\ IsChain(c, Begin(w)) /\ \A i \in 1..Len(c) : c[i] \notin L
    /\ SyncInv(w, c) /\ WriterInv(w, L, c) /\ NothingLeft(w, c)

JInv(w, L, c) ==
    FileTypes /\ HeadTypes /\ MemTypes /\ RefInv /\ ForwardInv /\ ChainInv(w, L, c)
JournalInv == \A w \in Writers : \E L \in SUBSET Nat, c \in Seq(Nat) : JInv(w, L, c)

-----------------------------------------------------------------------------
(* Objects and walks.                                                         *)

(* An object has the fields of its type.                                        *)
LEMMA ObjectsByType ==
    ASSUME NEW r \in Objects
    PROVE  /\ r.type = "data" => r \in DataRecs
           /\ r.type = "field" => r \in FieldRecs
           /\ r.type = "entry" => r \in EntryRecs
           /\ r.type = "array" => r \in ArrayRecs
BY DEF Objects, DataRecs, FieldRecs, EntryRecs, ArrayRecs

(* The object at an offset, likewise.                                          *)
LEMMA ObjectAt ==
    ASSUME FileTypes
    PROVE  /\ \A o \in Of("data") : o \in 1..Len(objs) /\ objs[o] \in DataRecs
           /\ \A o \in Of("field") : o \in 1..Len(objs) /\ objs[o] \in FieldRecs
           /\ \A o \in Of("entry") : o \in 1..Len(objs) /\ objs[o] \in EntryRecs
           /\ \A o \in Of("array") : o \in 1..Len(objs) /\ objs[o] \in ArrayRecs
<1>1. \A o \in 1..Len(objs) : objs[o] \in Objects
  BY DEF FileTypes
<1>2. DOMAIN objs = 1..Len(objs) /\ Len(objs) \in Nat
  BY DEF FileTypes
<1> QED
  BY <1>1, <1>2, ObjectsByType DEF Of

(* A walk from an array finds what the array has and then what the next one      *)
(* finds, because links lead forward: the walk of readEntryArray ends.           *)
LEMMA WalkStep ==
    ASSUME FileTypes, ForwardInv
    PROVE  /\ Walk(0) = <<>>
           /\ \A a \in Of("array") : Walk(a) = objs[a].slots \o Walk(objs[a].next)
           /\ \A a \in DOMAIN objs \ Of("array") : Walk(a) = <<>>
<1> DEFINE n == Len(objs)
           Arr(o) == objs[o].type = "array"
           nx(o) == objs[o].next
           sl(o) == objs[o].slots
           Sol(F, k) == F = [o \in {0} \cup k..n |->
                             IF o = 0 \/ ~Arr(o) THEN <<>> ELSE sl(o) \o F[nx(o)]]
           Solved(k) == \E F : Sol(F, k)
           K == {k \in 1..(n + 1) : Solved(k)}
<1>1. n \in Nat /\ DOMAIN objs = 1..n
  BY DEF FileTypes
<1>2. \A o \in 1..n : Arr(o) => nx(o) = 0 \/ (nx(o) \in 1..n /\ o < nx(o))
  BY <1>1 DEF ForwardInv, Of
<1>3. Solved(n + 1)
  <2>1. Sol([o \in {0} \cup (n + 1)..n |-> <<>>], n + 1)
    <3> HIDE DEF Arr, nx, sl
    <3>1. {0} \cup (n + 1)..n = {0}
      BY <1>1
    <3> QED
      BY <3>1
  <2> QED
    BY <2>1
<1>4. ASSUME NEW k \in 2..(n + 1), Solved(k)
      PROVE  Solved(k - 1)
  <2> HIDE DEF Arr, nx, sl, n
  <2>1. PICK F : Sol(F, k)
    BY <1>4
  <2> DEFINE j == k - 1
             G == [o \in {0} \cup j..n |->
                    IF o = j THEN IF ~Arr(j) THEN <<>> ELSE sl(j) \o F[nx(j)] ELSE F[o]]
  <2>2. j \in 1..n /\ {0} \cup j..n = ({0} \cup k..n) \cup {j} /\ j \notin {0} \cup k..n
    BY <1>1
  <2>3. \A o \in {0} \cup k..n : G[o] = F[o]
    BY <2>2
  <2>4. \A o \in 1..n : Arr(o) /\ (o = j \/ o \in k..n) => nx(o) \in {0} \cup k..n
    BY <1>1, <1>2, <2>2
  <2>5. \A o \in {0} \cup k..n : F[o] = IF o = 0 \/ ~Arr(o) THEN <<>> ELSE sl(o) \o F[nx(o)]
    BY <2>1, Zenon
  <2>6. ASSUME NEW o \in {0} \cup j..n
        PROVE  G[o] = IF o = 0 \/ ~Arr(o) THEN <<>> ELSE sl(o) \o G[nx(o)]
    <3>1. CASE o = j
      <4>1. G[o] = IF ~Arr(j) THEN <<>> ELSE sl(j) \o F[nx(j)]
        BY <3>1, <2>2
      <4>2. Arr(j) => G[nx(j)] = F[nx(j)]
        BY <2>2, <2>3, <2>4
      <4>3. j # 0
        BY <2>2
      <4> QED
        BY <3>1, <4>1, <4>2, <4>3
    <3>2. CASE o \in {0} \cup k..n
      <4>1. G[o] = F[o]
        BY <3>2, <2>3
      <4>2. o # 0 /\ Arr(o) => o \in 1..n /\ o \in k..n
        BY <3>2, <2>2
      <4>3. o # 0 /\ Arr(o) => G[nx(o)] = F[nx(o)]
        BY <4>2, <2>3, <2>4
      <4> QED
        BY <3>2, <4>1, <4>3, <2>5
    <3> QED
      BY <2>2, <3>1, <3>2
  <2>7. Sol(G, j)
    <3>1. G = [o \in {0} \cup j..n |-> G[o]]
      OBVIOUS
    <3> HIDE DEF G
    <3> QED
      BY <3>1, <2>6
  <2> QED
    BY <2>7
<1>5. Solved(1)
  <2> HIDE DEF Solved
  <2>1. n + 1 \in K
    BY <1>1, <1>3
  <2>2. PICK k \in K : \A m \in K : k <= m
    <3>1. K \in SUBSET Nat
      BY <1>1
    <3> HIDE DEF K
    <3> QED
      BY <2>1, <3>1, LeastExists, Zenon
  <2>3. k # 1 => k - 1 \in K
    <3>1. k \in 1..(n + 1) /\ Solved(k)
      OBVIOUS
    <3>2. k # 1 => k \in 2..(n + 1) /\ k - 1 \in 1..(n + 1)
      BY <3>1, <1>1
    <3> QED
      BY <3>1, <3>2, <1>4
  <2> QED
    BY <1>1, <2>2, <2>3
<1>6. \E F : F = [o \in 0..n |-> IF o = 0 \/ ~Arr(o) THEN <<>> ELSE sl(o) \o F[nx(o)]]
  <2>1. {0} \cup 1..n = 0..n
    BY <1>1
  <2> HIDE DEF Arr, nx, sl, n
  <2>2. PICK F : Sol(F, 1)
    BY <1>5
  <2> QED
    BY <2>1, <2>2
<1> DEFINE W == CHOOSE F : F = [o \in 0..n |-> IF o = 0 \/ ~Arr(o) THEN <<>>
                                              ELSE sl(o) \o F[nx(o)]]
<1>7. \A a : Walk(a) = W[a]
  BY DEF Walk, IsArray
<1>8. W = [o \in 0..n |-> IF o = 0 \/ ~Arr(o) THEN <<>> ELSE sl(o) \o W[nx(o)]]
  <2> HIDE DEF Arr, nx, sl, n
  <2> QED
    BY <1>6, Zenon
<1> HIDE DEF W
<1>9. W[0] = <<>> /\ \A a \in 1..n : W[a] = IF Arr(a) THEN sl(a) \o W[nx(a)] ELSE <<>>
  <2> HIDE DEF Arr, nx, sl, n
  <2>1. \A o \in 0..n : W[o] = IF o = 0 \/ ~Arr(o) THEN <<>> ELSE sl(o) \o W[nx(o)]
    BY <1>8, Zenon
  <2>2. 0 \in 0..n /\ \A a \in 1..n : a \in 0..n /\ a # 0
    BY <1>1
  <2> QED
    BY <2>1, <2>2, Zenon
<1> QED
  BY <1>1, <1>7, <1>9 DEF Of

(* The last array of a chain is a thing: appendToEntryArray's loop ends.           *)
LEMMA LastStep ==
    ASSUME FileTypes, ForwardInv
    PROVE  \A a \in Of("array") :
              LastArray(a) = IF objs[a].next = 0 THEN a ELSE LastArray(objs[a].next)
<1> DEFINE n == Len(objs)
           Arr(o) == objs[o].type = "array"
           nx(o) == objs[o].next
           End0(o) == ~Arr(o) \/ nx(o) = 0
           Sol(F, k) == F = [o \in k..n |-> IF End0(o) THEN o ELSE F[nx(o)]]
           Solved(k) == \E F : Sol(F, k)
           K == {k \in 1..(n + 1) : Solved(k)}
<1>1. n \in Nat /\ DOMAIN objs = 1..n
  BY DEF FileTypes
<1>2. \A o \in 1..n : ~End0(o) => nx(o) \in 1..n /\ o < nx(o)
  BY <1>1 DEF ForwardInv, Of
<1>3. Solved(n + 1)
  <2>1. Sol([o \in (n + 1)..n |-> o], n + 1)
    <3> HIDE DEF End0, nx
    <3>1. (n + 1)..n = {}
      BY <1>1
    <3> QED
      BY <3>1
  <2> QED
    BY <2>1
<1>4. ASSUME NEW k \in 2..(n + 1), Solved(k)
      PROVE  Solved(k - 1)
  <2> HIDE DEF End0, nx, n
  <2>1. PICK F : Sol(F, k)
    BY <1>4
  <2> DEFINE j == k - 1
             G == [o \in j..n |-> IF o = j THEN IF End0(j) THEN j ELSE F[nx(j)] ELSE F[o]]
  <2>2. j \in 1..n /\ j..n = (k..n) \cup {j} /\ j \notin k..n
    BY <1>1
  <2>3. \A o \in k..n : G[o] = F[o]
    BY <2>2
  <2>4. \A o \in 1..n : ~End0(o) /\ (o = j \/ o \in k..n) => nx(o) \in k..n
    BY <1>1, <1>2, <2>2
  <2>5. \A o \in k..n : F[o] = IF End0(o) THEN o ELSE F[nx(o)]
    BY <2>1, Zenon
  <2>6. ASSUME NEW o \in j..n
        PROVE  G[o] = IF End0(o) THEN o ELSE G[nx(o)]
    <3>1. CASE o = j
      <4>1. G[o] = IF End0(j) THEN j ELSE F[nx(j)]
        BY <3>1, <2>2
      <4>2. ~End0(j) => G[nx(j)] = F[nx(j)]
        BY <2>2, <2>3, <2>4
      <4> QED
        BY <3>1, <4>1, <4>2
    <3>2. CASE o \in k..n
      <4>1. G[o] = F[o]
        BY <3>2, <2>3
      <4>2. o \in 1..n
        BY <3>2, <2>2
      <4>3. ~End0(o) => G[nx(o)] = F[nx(o)]
        BY <3>2, <4>2, <2>3, <2>4
      <4> QED
        BY <3>2, <4>1, <4>3, <2>5
    <3> QED
      BY <2>2, <3>1, <3>2
  <2>7. Sol(G, j)
    <3>1. G = [o \in j..n |-> G[o]]
      OBVIOUS
    <3> HIDE DEF G
    <3> QED
      BY <3>1, <2>6
  <2> QED
    BY <2>7
<1>5. Solved(1)
  <2> HIDE DEF Solved
  <2>1. n + 1 \in K
    BY <1>1, <1>3
  <2>2. PICK k \in K : \A m \in K : k <= m
    <3>1. K \in SUBSET Nat
      BY <1>1
    <3> HIDE DEF K
    <3> QED
      BY <2>1, <3>1, LeastExists, Zenon
  <2>3. k # 1 => k - 1 \in K
    <3>1. k \in 1..(n + 1) /\ Solved(k)
      OBVIOUS
    <3>2. k # 1 => k \in 2..(n + 1) /\ k - 1 \in 1..(n + 1)
      BY <3>1, <1>1
    <3> QED
      BY <3>1, <3>2, <1>4
  <2> QED
    BY <1>1, <2>2, <2>3
<1> DEFINE L == CHOOSE F : F = [o \in 1..n |-> IF End0(o) THEN o ELSE F[nx(o)]]
<1>6. \A a : LastArray(a) = L[a]
  BY DEF LastArray, IsArray
<1>7. L = [o \in 1..n |-> IF End0(o) THEN o ELSE L[nx(o)]]
  <2> HIDE DEF End0, nx, n
  <2> QED
    BY <1>5, Zenon
<1> HIDE DEF L
<1>8. \A a \in 1..n : L[a] = IF End0(a) THEN a ELSE L[nx(a)]
  <2> HIDE DEF End0, nx, n
  <2> QED
    BY <1>7, Zenon
<1> QED
  BY <1>1, <1>6, <1>8 DEF Of

(* The last array of a chain of L is in L, and nothing follows it.                *)
LEMMA LastIsLast ==
    ASSUME FileTypes, ForwardInv, NEW L \in SUBSET Of("array"),
           \A o \in L : objs[o].next = 0 \/ objs[o].next \in L, NEW a \in L
    PROVE  LastArray(a) \in L /\ objs[LastArray(a)].next = 0
<1> DEFINE n == Len(objs)
           T == {o \in L : ~(LastArray(o) \in L /\ objs[LastArray(o)].next = 0)}
<1>1. \A o \in L : o \in 1..n /\ (objs[o].next # 0 => objs[o].next \in L /\ o < objs[o].next)
  BY DEF FileTypes, ForwardInv, Of
<1>2. \A o \in L : LastArray(o) = IF objs[o].next = 0 THEN o ELSE LastArray(objs[o].next)
  BY LastStep
<1>3. T = {}
  <2> SUFFICES ASSUME T # {} PROVE FALSE
    OBVIOUS
  <2>1. n \in Nat /\ T \in SUBSET (0..n)
    <3>1. n \in Nat
      BY DEF FileTypes
    <3>2. \A o \in L : o \in 0..n
      BY <1>1, <3>1
    <3> QED
      BY <3>1, <3>2
  <2>2. PICK o \in T : \A x \in T : o >= x
    <3> HIDE DEF T, n
    <3> QED
      BY <2>1, GreatestExists, Zenon
  <2>3. objs[o].next # 0
    BY <1>2
  <2>4. objs[o].next \in T
    BY <2>3, <1>1, <1>2
  <2> QED
    BY <2>1, <2>2, <2>3, <2>4, <1>1
<1> QED
  BY <1>3

(* What a walk along a chain finds: the entries of its arrays, in their order.      *)
LEMMA WalkOfChain ==
    ASSUME FileTypes, ForwardInv, NEW c \in Seq(Nat), NEW a, IsChain(c, a)
    PROVE  Walk(a) = [i \in 1..Len(c) |-> objs[c[i]].slots[1]]
<1> DEFINE n == Len(c)
           e(i) == objs[c[i]].slots[1]
           From(i) == [j \in 1..(n - i + 1) |-> e(i + j - 1)]
           Bad == {i \in 1..n : Walk(c[i]) # From(i)}
<1>1. n \in Nat /\ Walk(0) = <<>>
  BY WalkStep
<1>2. ASSUME NEW i \in 1..n
      PROVE  Walk(c[i]) = <<e(i)>> \o Walk(IF i = n THEN 0 ELSE c[i + 1]) /\ e(i) \in Nat
  <2>1. c[i] \in Of("array") /\ Len(objs[c[i]].slots) = 1
    BY <1>2 DEF IsChain, ArrayOfEntry
  <2>2. objs[c[i]].slots \in Seq(Nat)
    BY <2>1, ObjectAt DEF ArrayRecs
  <2>3. objs[c[i]].slots = <<e(i)>>
    BY <2>1, <2>2
  <2>4. objs[c[i]].next = IF i = n THEN 0 ELSE c[i + 1]
    BY <1>2 DEF IsChain
  <2>5. Walk(c[i]) = objs[c[i]].slots \o Walk(objs[c[i]].next)
    BY <2>1, WalkStep
  <2>6. e(i) \in Nat
    BY <2>1, <2>2
  <2> QED
    BY <2>3, <2>4, <2>5, <2>6
<1> HIDE DEF e
<1>3. Bad = {}
  <2> SUFFICES ASSUME Bad # {} PROVE FALSE
    OBVIOUS
  <2>1. Bad \in SUBSET (0..n)
    BY <1>1
  <2>2. PICK i \in Bad : \A x \in Bad : i >= x
    <3> HIDE DEF Bad, n
    <3> QED
      BY <1>1, <2>1, GreatestExists, Zenon
  <2>3. CASE i = n
    <3>1. Walk(c[i]) = <<e(n)>> \o <<>>
      BY <2>3, <1>1, <1>2
    <3>2. From(n) = <<e(n)>>
      <4>1. 1..(n - n + 1) = {1} /\ n + 1 - 1 = n
        BY <1>1
      <4>2. From(n) = [j \in {1} |-> e(n)]
        BY <4>1
      <4> QED
        BY <4>2
    <3>3. <<e(n)>> \o <<>> = <<e(n)>>
      OBVIOUS
    <3> QED
      BY <2>3, <3>1, <3>2, <3>3
  <2>4. CASE i # n
    <3>1. i + 1 \in 1..n /\ i + 1 \notin Bad
      BY <1>1, <2>2, <2>4
    <3>2. Walk(c[i + 1]) = From(i + 1)
      BY <3>1
    <3>3. Walk(c[i]) = <<e(i)>> \o From(i + 1)
      BY <2>4, <3>2, <1>2
    <3>4. <<e(i)>> \o From(i + 1) = From(i)
      <4>1. i \in 1..n /\ n - (i + 1) + 1 = n - i /\ n - i \in Nat
        BY <1>1
      <4>2. \A j \in 1..(n - i) : e((i + 1) + j - 1) \in Nat
        <5>1. \A j \in 1..(n - i) : (i + 1) + j - 1 \in 1..n
          BY <1>1, <4>1
        <5>2. \A k \in 1..n : e(k) \in Nat
          BY <1>2
        <5> QED
          BY <5>1, <5>2
      <4>3. From(i + 1) \in Seq(Nat) /\ Len(From(i + 1)) = n - i
        BY <4>1, <4>2
      <4>4. e(i) \in Nat
        BY <4>1, <1>2
      <4> DEFINE s == <<e(i)>> \o From(i + 1)
      <4>5. s \in Seq(Nat) /\ Len(s) = n - i + 1
        <5>1. \A x \in Nat, F \in Seq(Nat) :
                <<x>> \o F \in Seq(Nat) /\ Len(<<x>> \o F) = Len(F) + 1
          OBVIOUS
        <5> HIDE DEF From, e
        <5>2. s \in Seq(Nat) /\ Len(s) = Len(From(i + 1)) + 1
          BY <4>3, <4>4, <5>1, Zenon
        <5> QED
          BY <5>2, <4>3
      <4>6. \A j \in 1..(n - i + 1) : s[j] = e(i + j - 1)
        <5>1. SUFFICES ASSUME NEW j \in 1..(n - i + 1) PROVE s[j] = e(i + j - 1)
          OBVIOUS
        <5>2. CASE j = 1
          BY <4>1, <4>3, <4>4, <5>2
        <5>3. CASE j # 1
          <6>1. s[j] = From(i + 1)[j - 1]
            <7> HIDE DEF From
            <7> QED
              BY <4>1, <4>3, <4>4, <5>3
          <6>2. From(i + 1)[j - 1] = e((i + 1) + (j - 1) - 1)
            BY <4>1, <5>3
          <6>3. (i + 1) + (j - 1) - 1 = i + j - 1
            BY <4>1
          <6> QED
            BY <6>1, <6>2, <6>3
        <5> QED
          BY <5>2, <5>3
      <4> HIDE DEF s
      <4>7. s = [j \in 1..(n - i + 1) |-> s[j]]
        BY <4>5
      <4>8. s = From(i)
        BY <4>6, <4>7
      <4> QED
        BY <4>8 DEF s
    <3> QED
      BY <3>3, <3>4
  <2> QED
    BY <2>3, <2>4
<1>4. CASE n = 0
  <2>1. a = 0 /\ 1..n = {}
    BY <1>4 DEF IsChain
  <2>2. [i \in 1..n |-> e(i)] = <<>>
    BY <2>1
  <2> QED
    BY <1>1, <2>1, <2>2 DEF e
<1>5. CASE n # 0
  <2>1. a = c[1] /\ 1 \in 1..n
    BY <1>1, <1>5 DEF IsChain
  <2>2. Walk(a) = From(1)
    BY <1>3, <2>1
  <2>3. n - 1 + 1 = n /\ \A j \in 1..n : 1 + j - 1 = j
    BY <1>1
  <2>4. From(1) = [j \in 1..n |-> e(j)]
    BY <2>3
  <2> QED
    BY <2>2, <2>4 DEF e
<1> QED
  BY <1>4, <1>5

-----------------------------------------------------------------------------
(* What a step of a writer leaves alone.                                       *)

(* Objects keep their types, entries never change, nor do arrays outside L.       *)
Frame(L) ==
    /\ Len(objs) <= Len(objs')
    /\ \A o \in DOMAIN objs : objs'[o].type = objs[o].type
    /\ \A o \in Of("entry") : objs'[o] = objs[o]
    /\ \A o \in Of("array") \ L : objs'[o] = objs[o]

LEMMA FrameKeepsTypes ==
    ASSUME FileTypes, FileTypes', NEW L, Frame(L), NEW t
    PROVE  Of(t) \subseteq Of(t)' /\ DOMAIN objs \subseteq DOMAIN objs'
BY DEF FileTypes, Frame, Of

(* An array of an entry outside L stays what it is.                              *)
LEMMA FrameKeepsArray ==
    ASSUME FileTypes, FileTypes', NEW L, Frame(L), NEW o, o \notin L, NEW s,
           ArrayOfEntry(o, s)
    PROVE  ArrayOfEntry(o, s)' /\ objs'[o] = objs[o]
<1>1. o \in Of("array") /\ objs'[o] = objs[o] /\ o \in Of("array")'
  BY FrameKeepsTypes DEF Frame, ArrayOfEntry
<1>2. objs[o].slots[1] \in Of("entry") /\ objs[o].slots[1] \in Of("entry")'
  BY FrameKeepsTypes DEF ArrayOfEntry
<1>3. objs'[objs[o].slots[1]] = objs[objs[o].slots[1]]
  BY <1>2 DEF Frame
<1> QED
  BY <1>1, <1>2, <1>3 DEF ArrayOfEntry

(* A chain outside L stays a chain.                                            *)
LEMMA FrameKeepsChain ==
    ASSUME FileTypes, FileTypes', NEW L, Frame(L), NEW c \in Seq(Nat), NEW a,
           IsChain(c, a), \A i \in 1..Len(c) : c[i] \notin L
    PROVE  IsChain(c, a)' /\ \A i \in 1..Len(c) : objs'[c[i]] = objs[c[i]]
<1>1. \A i \in 1..Len(c) : ArrayOfEntry(c[i], i)' /\ objs'[c[i]] = objs[c[i]]
  BY FrameKeepsArray DEF IsChain
<1> QED
  BY <1>1 DEF IsChain

(* What was synced stays synced.                                              *)
LEMMA FrameKeepsSync ==
    ASSUME NEW w, NEW c \in Seq(Nat), SyncInv(w, c),
           \A i \in 1..Len(c) : objs'[c[i]] = objs[c[i]],
           UNCHANGED <<exists, disk, synced>>, Begin(w)' = Begin(w),
           ~exists => wpc'[w] = wpc[w], Len(synced) \in Nat
    PROVE  SyncInv(w, c)'
BY DEF SyncInv

(* Readers stay at their places while the chain grows, too.                       *)
LEMMA FrameKeepsReaders ==
    ASSUME NEW c \in Seq(Nat), NEW b \in Seq(Nat), Len(c) <= Len(b),
           \A i \in 1..Len(c) : b[i] = c[i] /\ objs'[c[i]].slots = objs[c[i]].slots,
           UNCHANGED <<disk, rd>>,
           \A r \in Readers : ReaderInv(rd[r], c)
    PROVE  \A r \in Readers : ReaderInv(rd[r], b)'
<1> SUFFICES ASSUME NEW r \in Readers PROVE ReaderInv(rd[r], b)'
  OBVIOUS
<1>1. ReaderInv(rd[r], c)
  OBVIOUS
<1>2. AtPlace(rd[r], c) => AtPlace(rd[r], b)'
  <2> SUFFICES ASSUME NEW i \in 1..Len(c),
                      rd[r].arr = c[i] /\ rd[r].entry = objs[c[i]].slots[1],
                      rd[r].next = 0 \/ (i < Len(c) /\ rd[r].next = c[i + 1]),
                      rd[r].cur >= IF rd[r].idx = 0 THEN i - 1 ELSE i
               PROVE  AtPlace(rd[r], b)'
    BY DEF AtPlace
  <2>1. i \in 1..Len(b) /\ (i < Len(c) => i < Len(b) /\ i + 1 \in 1..Len(c))
    OBVIOUS
  <2>2. b[i] = c[i] /\ objs'[b[i]].slots[1] = objs[c[i]].slots[1]
    OBVIOUS
  <2>3. rd'[r] = rd[r] /\ (i < Len(c) => b[i + 1] = c[i + 1])
    BY <2>1
  <2> QED
    BY <2>1, <2>2, <2>3 DEF AtPlace
<1> QED
  BY <1>1, <1>2 DEF ReaderInv

(* The arrays of data are left alone.                                          *)
LEMMA FrameKeepsData ==
    ASSUME FileTypes, FileTypes', Frame({}), NEW L \in SUBSET Nat, DataInv(L),
           \A o \in Of("data")' : \/ objs'[o].array = 0
                                  \/ o \in Of("data") /\ objs'[o].array = objs[o].array
    PROVE  DataInv(L)'
<1>1. \A o \in L : o \in Of("array")' /\ objs'[o] = objs[o]
  BY FrameKeepsTypes DEF DataInv, Frame
<1>2. \A o \in L : o \in Of("array")' /\ (objs'[o].next = 0 \/ objs'[o].next \in L)
  BY <1>1 DEF DataInv
<1>3. \A o \in Of("data")' : objs'[o].array = 0 \/ objs'[o].array \in L
  BY DEF DataInv
<1> QED
  BY <1>2, <1>3 DEF DataInv

(* Links go on leading forward where no array changes and no new one has a link.    *)
LEMMA FrameKeepsForward ==
    ASSUME FileTypes, FileTypes', Frame({}), ForwardInv,
           \A o \in Of("array")' : o \in Of("array") \/ objs'[o].next = 0
    PROVE  ForwardInv'
<1>1. \A o \in Of("array") : objs'[o] = objs[o]
  BY DEF Frame
<1>2. DOMAIN objs \subseteq DOMAIN objs'
  BY FrameKeepsTypes
<1> QED
  BY <1>1, <1>2 DEF ForwardInv

(* A new object where the file ends.                                           *)
LEMMA Appended ==
    ASSUME FileTypes, NEW r \in Objects, objs' = Append(objs, r)
    PROVE  /\ FileTypes' /\ Frame({}) /\ End \in Nat /\ objs'[End] = r
           /\ DOMAIN objs' = 1..End /\ DOMAIN objs = 1..(End - 1)
           /\ \A o \in DOMAIN objs : objs'[o] = objs[o] /\ o # End
           /\ \A t : Of(t)' = Of(t) \cup (IF r.type = t THEN {End} ELSE {})
<1>1. FileTypes' /\ Len(objs) \in Nat /\ Len(objs') = Len(objs) + 1
  BY DEF FileTypes
<1>2. DOMAIN objs' = 1..End /\ DOMAIN objs = 1..(End - 1) /\ End \in Nat
  BY <1>1 DEF FileTypes, End
<1>3. \A o \in DOMAIN objs : objs'[o] = objs[o] /\ o # End
  BY <1>1 DEF FileTypes, End
<1>4. objs'[End] = r
  BY <1>1 DEF FileTypes, End
<1>5. Frame({})
  BY <1>1, <1>3 DEF Frame, Of
<1>6. \A t : Of(t)' = Of(t) \cup (IF r.type = t THEN {End} ELSE {})
  BY <1>2, <1>3, <1>4 DEF Of
<1> QED
  BY <1>1, <1>2, <1>3, <1>4, <1>5, <1>6

-----------------------------------------------------------------------------
(* Steps that write no object: each keeps the invariant.                         *)

(* If no object changes, what is said of objects alone stays true.                *)
LEMMA SameObjects ==
    ASSUME UNCHANGED objs
    PROVE  /\ FileTypes => FileTypes'
           /\ ForwardInv => ForwardInv'
           /\ \A L : DataInv(L) => DataInv(L)'
           /\ \A c, a : IsChain(c, a) => IsChain(c, a)'
           /\ \A o, s : ArrayOfEntry(o, s)' <=> ArrayOfEntry(o, s)
           /\ \A t : Of(t)' = Of(t)
BY DEF FileTypes, ForwardInv, DataInv, IsChain, ArrayOfEntry, Of

(* Readers that do not move, and a header that says the same of the entries.        *)
LEMMA SameReaders ==
    ASSUME NEW c, UNCHANGED <<objs, rd>>, disk'.head = disk.head, disk'.seq = disk.seq,
           \A r \in Readers : ReaderInv(rd[r], c)
    PROVE  \A r \in Readers : ReaderInv(rd[r], c)'
BY DEF ReaderInv, AtPlace

(* Create: an empty header for an empty file.                                      *)
LEMMA CreateKeeps ==
    ASSUME NEW w \in Writers, Writers = {w}, NEW L \in SUBSET Nat, NEW c \in Seq(Nat),
           JInv(w, L, c), Create(w)
    PROVE  JInv(w, L, c)'
<1>1. /\ FileTypes /\ HeadTypes /\ MemTypes /\ RefInv /\ ForwardInv
      /\ DataInv(L) /\ IsChain(c, Begin(w)) /\ \A i \in 1..Len(c) : c[i] \notin L
      /\ SyncInv(w, c) /\ WriterInv(w, L, c) /\ NothingLeft(w, c)
  BY DEF JInv, ChainInv
<1>2. UNCHANGED <<objs, hash, rd>>
  BY DEF Create, OpenWriter, Goto
<1>3. FileTypes' /\ ForwardInv' /\ DataInv(L)' /\ \A t : Of(t)' = Of(t)
  BY <1>1, <1>2, SameObjects
<1>4. HeadTypes' /\ MemTypes'
  BY <1>1 DEF Create, OpenWriter, Goto, HeadTypes, MemTypes, Headers, WriterPCs, EmptyHeader
<1>5. RefInv'
  <2>1. \A v \in Writers : v = w
    OBVIOUS
  <2> QED
    BY <1>1, <1>3, <2>1 DEF Create, OpenWriter, Goto, RefInv, MemTypes
<1>6. Begin(w)' = Begin(w)
  BY <1>1 DEF Create, OpenWriter, Goto, Begin, SyncInv, MemTypes, EmptyHeader, WriterPCs
<1>7. IsChain(c, Begin(w))'
  BY <1>1, <1>2, <1>6 DEF IsChain, ArrayOfEntry, Of
<1>8. SyncInv(w, c)'
  BY <1>1, <1>2, <1>6 DEF Create, OpenWriter, Goto, SyncInv, Begin, HeadTypes, Headers, MemTypes
<1>9. WriterInv(w, L, c)'
  BY <1>1, <1>2, <1>3, SameObjects DEF Create, OpenWriter, Goto, WriterInv, SyncInv, Known, MemTypes, Headers, WriterPCs, EmptyHeader, IsChain, Begin, HeadTypes
<1>10. NothingLeft(w, c)'
  <2>1. ~torn => \A r \in Readers : ReaderInv(rd[r], c)'
    <3>2. disk'.head = disk.head /\ disk'.seq = disk.seq
      BY <1>1 DEF Create, OpenWriter, Goto, HeadTypes, Headers
    <3> QED
      BY <1>1, <1>2, <3>2, SameReaders DEF NothingLeft
  <2>2. ~torn => LengthInv(w, c)'
    BY <1>1 DEF Create, OpenWriter, Goto, LengthInv, NothingLeft, Known, SyncInv, MemTypes, HeadTypes, WriterPCs, EmptyHeader, IsChain, Begin
  <2>3. torn' = torn
    BY DEF Create, OpenWriter, Goto
  <2> QED
    BY <2>1, <2>2, <2>3 DEF NothingLeft
<1> QED
  BY <1>1, <1>3, <1>4, <1>5, <1>7, <1>8, <1>9, <1>10 DEF JInv, ChainInv

(* OpenAppend: the header of the file.                                            *)
LEMMA OpenAppendKeeps ==
    ASSUME NEW w \in Writers, Writers = {w}, NEW L \in SUBSET Nat, NEW c \in Seq(Nat),
           JInv(w, L, c), OpenAppend(w)
    PROVE  JInv(w, L, c)'
<1>1. /\ FileTypes /\ HeadTypes /\ MemTypes /\ RefInv /\ ForwardInv
      /\ DataInv(L) /\ IsChain(c, Begin(w)) /\ \A i \in 1..Len(c) : c[i] \notin L
      /\ SyncInv(w, c) /\ WriterInv(w, L, c) /\ NothingLeft(w, c)
  BY DEF JInv, ChainInv
<1>2. UNCHANGED <<objs, hash, rd>>
  BY DEF OpenAppend, OpenWriter, Goto
<1>3. FileTypes' /\ ForwardInv' /\ DataInv(L)' /\ \A t : Of(t)' = Of(t)
  BY <1>1, <1>2, SameObjects
<1>4. HeadTypes' /\ MemTypes'
  BY <1>1 DEF OpenAppend, OpenWriter, Goto, HeadTypes, MemTypes, Headers, WriterPCs, EmptyHeader
<1>5. RefInv'
  <2>1. \A v \in Writers : v = w
    OBVIOUS
  <2> QED
    BY <1>1, <1>3, <2>1 DEF OpenAppend, OpenWriter, Goto, RefInv, MemTypes
<1>6. Begin(w)' = Begin(w)
  BY <1>1 DEF OpenAppend, OpenWriter, Goto, Begin, SyncInv, MemTypes, WriterPCs
<1>7. IsChain(c, Begin(w))'
  BY <1>1, <1>2, <1>6 DEF IsChain, ArrayOfEntry, Of
<1>8. SyncInv(w, c)'
  BY <1>1, <1>2, <1>6 DEF OpenAppend, OpenWriter, Goto, SyncInv, Begin, HeadTypes, Headers, MemTypes
<1>9. WriterInv(w, L, c)'
  BY <1>1, <1>2, <1>3, SameObjects, SMTT(20) DEF OpenAppend, OpenWriter, Goto, WriterInv, SyncInv, Known, MemTypes, Headers, WriterPCs, HeadTypes
<1>10. NothingLeft(w, c)'
  <2>1. ~torn => \A r \in Readers : ReaderInv(rd[r], c)'
    <3>2. disk'.head = disk.head /\ disk'.seq = disk.seq
      BY <1>1 DEF OpenAppend, OpenWriter, Goto, HeadTypes, Headers
    <3> QED
      BY <1>1, <1>2, <3>2, SameReaders DEF NothingLeft
  <2>2. ~torn => LengthInv(w, c)'
    BY <1>1 DEF OpenAppend, OpenWriter, Goto, LengthInv, NothingLeft, Known, SyncInv, MemTypes, HeadTypes, WriterPCs
  <2>3. torn' = torn
    BY DEF OpenAppend, OpenWriter, Goto
  <2> QED
    BY <2>1, <2>2, <2>3 DEF NothingLeft
<1> QED
  BY <1>1, <1>3, <1>4, <1>5, <1>7, <1>8, <1>9, <1>10 DEF JInv, ChainInv

(* AppendEntry: the state in the header flips; no link does.                        *)
LEMMA AppendEntryKeeps ==
    ASSUME NEW w \in Writers, Writers = {w}, NEW L \in SUBSET Nat, NEW c \in Seq(Nat),
           JInv(w, L, c), NEW D, AppendEntry(w, D)
    PROVE  JInv(w, L, c)'
<1>1. /\ FileTypes /\ HeadTypes /\ MemTypes /\ RefInv /\ ForwardInv
      /\ DataInv(L) /\ IsChain(c, Begin(w)) /\ \A i \in 1..Len(c) : c[i] \notin L
      /\ SyncInv(w, c) /\ WriterInv(w, L, c) /\ NothingLeft(w, c)
  BY DEF JInv, ChainInv
<1>2. UNCHANGED <<objs, hash, rd>>
  BY DEF AppendEntry, Goto
<1>3. FileTypes' /\ ForwardInv' /\ DataInv(L)' /\ \A t : Of(t)' = Of(t)
  BY <1>1, <1>2, SameObjects
<1>4. HeadTypes' /\ MemTypes'
  BY <1>1 DEF AppendEntry, Goto, HeadTypes, MemTypes, Headers, WriterPCs, EmptyHeader
<1>5. RefInv'
  <2>1. \A v \in Writers : v = w
    OBVIOUS
  <2> QED
    BY <1>1, <1>3, <2>1 DEF AppendEntry, Goto, RefInv, MemTypes
<1>6. Begin(w)' = Begin(w)
  BY <1>1 DEF AppendEntry, Goto, Begin, SyncInv, MemTypes, WriterPCs, Headers
<1>7. IsChain(c, Begin(w))'
  BY <1>1, <1>2, <1>6 DEF IsChain, ArrayOfEntry, Of
<1>8. SyncInv(w, c)'
  BY <1>1, <1>2, <1>6 DEF AppendEntry, Goto, SyncInv, Begin, HeadTypes, Headers, MemTypes, WriterPCs
<1>9. WriterInv(w, L, c)'
  BY <1>1, <1>2, <1>3, SameObjects DEF AppendEntry, Goto, WriterInv, SyncInv, Known, MemTypes, Headers, WriterPCs, HeadTypes
<1>10. NothingLeft(w, c)'
  <2>1. ~torn => \A r \in Readers : ReaderInv(rd[r], c)'
    <3>2. disk'.head = disk.head /\ disk'.seq = disk.seq
      BY <1>1 DEF AppendEntry, Goto, HeadTypes, Headers
    <3> QED
      BY <1>1, <1>2, <3>2, SameReaders DEF NothingLeft
  <2>2. ~torn => LengthInv(w, c)'
    BY <1>1 DEF AppendEntry, Goto, LengthInv, NothingLeft, Known, SyncInv, MemTypes, HeadTypes, WriterPCs, Headers
  <2>3. torn' = torn
    BY DEF AppendEntry, Goto
  <2> QED
    BY <2>1, <2>2, <2>3 DEF NothingLeft
<1> QED
  BY <1>1, <1>3, <1>4, <1>5, <1>7, <1>8, <1>9, <1>10 DEF JInv, ChainInv

(* Data that the writer remembers.                                                *)
LEMMA CachedDataKeeps ==
    ASSUME NEW w \in Writers, Writers = {w}, NEW L \in SUBSET Nat, NEW c \in Seq(Nat),
           JInv(w, L, c), NEW d, CachedData(w, d)
    PROVE  JInv(w, L, c)'
<1>1. /\ FileTypes /\ HeadTypes /\ MemTypes /\ RefInv /\ ForwardInv
      /\ DataInv(L) /\ IsChain(c, Begin(w)) /\ \A i \in 1..Len(c) : c[i] \notin L
      /\ SyncInv(w, c) /\ WriterInv(w, L, c) /\ NothingLeft(w, c)
  BY DEF JInv, ChainInv
<1>2. UNCHANGED <<objs, hash, rd>>
  BY DEF CachedData, appendOnly, pastVars
<1>3. FileTypes' /\ ForwardInv' /\ DataInv(L)' /\ \A t : Of(t)' = Of(t)
  BY <1>1, <1>2, SameObjects
<1>4. HeadTypes' /\ MemTypes'
  <2>1. cache[w][d] \in Nat
    BY <1>1, ObjectAt DEF CachedData, RefInv
  <2>2. items' \in [Writers -> SUBSET Nat]
    BY <1>1, <2>1 DEF CachedData, MemTypes
  <2> QED
    BY <1>1, <2>2 DEF CachedData, appendOnly, pastVars, HeadTypes, MemTypes, Headers, WriterPCs, EmptyHeader
<1>5. RefInv'
  <2>1. \A v \in Writers : v = w
    OBVIOUS
  <2> QED
    BY <1>1, <1>3, <2>1 DEF CachedData, appendOnly, pastVars, RefInv, MemTypes
<1>6. Begin(w)' = Begin(w)
  BY <1>1 DEF CachedData, appendOnly, pastVars, Begin, MemTypes
<1>7. IsChain(c, Begin(w))'
  BY <1>1, <1>2, <1>6 DEF IsChain, ArrayOfEntry, Of
<1>8. SyncInv(w, c)'
  BY <1>1, <1>2, <1>6 DEF CachedData, appendOnly, pastVars, SyncInv, Begin, HeadTypes, Headers, MemTypes
<1>9. WriterInv(w, L, c)'
  BY <1>1, <1>2, <1>3, SameObjects DEF CachedData, appendOnly, pastVars, WriterInv, SyncInv, Known, MemTypes, Headers, WriterPCs
<1>10. NothingLeft(w, c)'
  <2>1. ~torn => \A r \in Readers : ReaderInv(rd[r], c)'
    <3>2. disk'.head = disk.head /\ disk'.seq = disk.seq
      BY <1>1 DEF CachedData, appendOnly, pastVars, HeadTypes, Headers
    <3> QED
      BY <1>1, <1>2, <3>2, SameReaders DEF NothingLeft
  <2>2. ~torn => LengthInv(w, c)'
    BY <1>1 DEF CachedData, appendOnly, pastVars, LengthInv, NothingLeft, Known, SyncInv, MemTypes, HeadTypes, WriterPCs
  <2>3. torn' = torn
    BY DEF CachedData, appendOnly, pastVars
  <2> QED
    BY <2>1, <2>2, <2>3 DEF NothingLeft
<1> QED
  BY <1>1, <1>3, <1>4, <1>5, <1>7, <1>8, <1>9, <1>10 DEF JInv, ChainInv

(* Close of a writer with nothing to write back.                                    *)
LEMMA CloseWriterKeeps ==
    ASSUME NEW w \in Writers, Writers = {w}, NEW L \in SUBSET Nat, NEW c \in Seq(Nat),
           JInv(w, L, c), CloseWriter(w)
    PROVE  JInv(w, L, c)'
<1>1. /\ FileTypes /\ HeadTypes /\ MemTypes /\ RefInv /\ ForwardInv
      /\ DataInv(L) /\ IsChain(c, Begin(w)) /\ \A i \in 1..Len(c) : c[i] \notin L
      /\ SyncInv(w, c) /\ WriterInv(w, L, c) /\ NothingLeft(w, c)
  BY DEF JInv, ChainInv
<1>2. UNCHANGED <<objs, hash, rd>>
  BY DEF CloseWriter, Goto, fileVars, memVars, pastVars
<1>3. FileTypes' /\ ForwardInv' /\ DataInv(L)' /\ \A t : Of(t)' = Of(t)
  BY <1>1, <1>2, SameObjects
<1>4. HeadTypes' /\ MemTypes'
  BY <1>1 DEF CloseWriter, Goto, fileVars, memVars, pastVars, HeadTypes, MemTypes, Headers, WriterPCs, EmptyHeader
<1>5. RefInv'
  <2>1. \A v \in Writers : v = w
    OBVIOUS
  <2> QED
    BY <1>1, <1>3, <2>1 DEF CloseWriter, Goto, fileVars, memVars, pastVars, RefInv, MemTypes
<1>6. Begin(w)' = Begin(w)
  BY <1>1 DEF CloseWriter, Goto, fileVars, memVars, pastVars, Begin, MemTypes, WriterInv
<1>7. IsChain(c, Begin(w))'
  BY <1>1, <1>2, <1>6 DEF IsChain, ArrayOfEntry, Of
<1>8. SyncInv(w, c)'
  BY <1>1, <1>2, <1>6 DEF CloseWriter, Goto, fileVars, memVars, pastVars, SyncInv, Begin, HeadTypes, Headers, MemTypes
<1>9. WriterInv(w, L, c)'
  BY <1>1, <1>2, <1>3, SameObjects DEF CloseWriter, Goto, fileVars, memVars, pastVars, WriterInv, SyncInv, Known, MemTypes, Headers, WriterPCs
<1>10. NothingLeft(w, c)'
  <2>1. ~torn => \A r \in Readers : ReaderInv(rd[r], c)'
    <3>2. disk'.head = disk.head /\ disk'.seq = disk.seq
      BY <1>1 DEF CloseWriter, Goto, fileVars, memVars, pastVars, HeadTypes, Headers
    <3> QED
      BY <1>1, <1>2, <3>2, SameReaders DEF NothingLeft
  <2>2. ~torn => LengthInv(w, c)'
    BY <1>1 DEF CloseWriter, Goto, fileVars, memVars, pastVars, LengthInv, NothingLeft, Known, SyncInv, MemTypes, HeadTypes, WriterPCs, WriterInv
  <2>3. torn' = torn
    BY DEF CloseWriter, Goto, fileVars, memVars, pastVars
  <2> QED
    BY <2>1, <2>2, <2>3 DEF NothingLeft
<1> QED
  BY <1>1, <1>3, <1>4, <1>5, <1>7, <1>8, <1>9, <1>10 DEF JInv, ChainInv

(* Sync: the header in memory reaches the file, and all it leads to is synced.      *)
LEMMA SyncKeeps ==
    ASSUME NEW w \in Writers, Writers = {w}, NEW L \in SUBSET Nat, NEW c \in Seq(Nat),
           JInv(w, L, c), Sync(w)
    PROVE  JInv(w, L, c)'
<1>1. /\ FileTypes /\ HeadTypes /\ MemTypes /\ RefInv /\ ForwardInv
      /\ DataInv(L) /\ IsChain(c, Begin(w)) /\ \A i \in 1..Len(c) : c[i] \notin L
      /\ SyncInv(w, c) /\ WriterInv(w, L, c) /\ NothingLeft(w, c)
  BY DEF JInv, ChainInv
<1>2. UNCHANGED <<objs, hash, rd, wpc, torn>> /\ wpc[w] = "idle" /\ dirty[w]
  BY DEF Sync
<1>3. FileTypes' /\ ForwardInv' /\ DataInv(L)' /\ \A t : Of(t)' = Of(t)
  BY <1>1, <1>2, SameObjects
<1>4. Begin(w) = hdr[w].head /\ Begin(w)' = Begin(w)
  BY <1>1, <1>2 DEF Sync, Begin, MemTypes, Headers
<1>5. synced' = [i \in 1..Len(c) |-> objs[c[i]].slots[1]]
  BY <1>1, <1>4, WalkOfChain DEF Sync
<1>6. \A i \in 1..Len(c) : objs[c[i]].slots[1] \in Nat
  <2> SUFFICES ASSUME NEW i \in 1..Len(c) PROVE objs[c[i]].slots[1] \in Nat
    OBVIOUS
  <2>1. objs[c[i]].slots[1] \in Of("entry")
    BY <1>1 DEF IsChain, ArrayOfEntry
  <2> QED
    BY <1>1, <2>1, ObjectAt
<1>7. synced' \in Seq(Nat) /\ Len(synced') = Len(c)
  BY <1>5, <1>6
<1>8. /\ disk' \in Headers /\ disk'.head = hdr[w].head /\ disk'.tail = hdr[w].tail
      /\ disk'.seq = hdr[w].seq
  <2>1. hdr[w] \in Headers
    BY <1>1 DEF MemTypes
  <2> QED
    BY <2>1 DEF Sync, Headers
<1>9. Len(c) = hdr[w].seq
  BY <1>1, <1>2 DEF WriterInv, Known
<1>10. /\ hdr'[w].head = hdr[w].head /\ hdr'[w].tail = hdr[w].tail
       /\ hdr'[w].seq = hdr[w].seq /\ dirty'[w] = FALSE
  BY <1>1 DEF Sync, MemTypes, Headers
<1>11. HeadTypes' /\ MemTypes'
  BY <1>1, <1>7, <1>8 DEF Sync, HeadTypes, MemTypes, Headers
<1>12. RefInv'
  BY <1>1, <1>3 DEF Sync, RefInv
<1>13. IsChain(c, Begin(w))'
  BY <1>1, <1>2, <1>4 DEF IsChain, ArrayOfEntry, Of
<1>14. hdr[w].tail = IF Len(c) = 0 THEN 0 ELSE c[Len(c)]
  BY <1>1, <1>2, <1>9 DEF WriterInv, Known
<1>15. Len(c) = 0 <=> hdr[w].head = 0
  BY <1>1, <1>4 DEF IsChain
<1>16. SyncInv(w, c)'
  <2>1. \A i \in 1..Len(synced') : synced'[i] = objs'[c[i]].slots[1]
    BY <1>2, <1>5, <1>7
  <2>2. exists' /\ Len(c) \in Nat
    BY <1>1, <1>2 DEF Sync, SyncInv
  <2> QED
    BY <1>4, <1>7, <1>8, <1>9, <1>14, <1>15, <2>1, <2>2 DEF SyncInv
<1>17. WriterInv(w, L, c)'
  BY <1>2, <1>7, <1>8, <1>9, <1>10, <1>14, <1>15 DEF WriterInv, Known
<1>18. NothingLeft(w, c)'
  <2>1. LengthInv(w, c)'
    BY <1>2, <1>7, <1>9, <1>10 DEF LengthInv, Known
  <2>2. disk.head # 0 => disk'.head = disk.head
    BY <1>1, <1>4, <1>8 DEF SyncInv, HeadTypes
  <2>3. disk.seq <= disk'.seq /\ disk.seq \in Nat /\ disk'.seq \in Nat
    BY <1>1, <1>2, <1>8 DEF SyncInv, WriterInv, Known, HeadTypes, Headers
  <2>4. ASSUME ~torn, NEW r \in Readers
        PROVE  ReaderInv(rd[r], c)'
    <3>1. ReaderInv(rd[r], c) /\ rd'[r] = rd[r] /\ rd[r] \in ReaderRecs
      BY <1>1, <1>2, <2>4 DEF NothingLeft, ReaderInv
    <3>2. AtPlace(rd[r], c)' <=> AtPlace(rd[r], c)
      BY <1>2 DEF AtPlace
    <3>3. rd[r].seq <= disk'.seq
      BY <3>1, <2>3 DEF ReaderInv, ReaderRecs
    <3> QED
      BY <3>1, <3>2, <3>3, <2>2 DEF ReaderInv
  <2> QED
    BY <1>2, <2>1, <2>4 DEF NothingLeft
<1> QED
  BY <1>1, <1>3, <1>11, <1>12, <1>13, <1>16, <1>17, <1>18 DEF JInv, ChainInv

(* A writer dies.  If nothing was ever synced, the file begins anew; if the header   *)
(* of the file knew all that was linked, nothing is left over.                     *)
LEMMA CrashKeeps ==
    ASSUME NEW w \in Writers, Writers = {w}, NEW L \in SUBSET Nat, NEW c \in Seq(Nat),
           JInv(w, L, c), Crash(w)
    PROVE  \E b \in Seq(Nat) : JInv(w, L, b)'
<1>1. /\ FileTypes /\ HeadTypes /\ MemTypes /\ RefInv /\ ForwardInv
      /\ DataInv(L) /\ IsChain(c, Begin(w)) /\ \A i \in 1..Len(c) : c[i] \notin L
      /\ SyncInv(w, c) /\ WriterInv(w, L, c) /\ NothingLeft(w, c)
  BY DEF JInv, ChainInv
<1>2. UNCHANGED <<objs, hash, rd, disk, exists, hdr, dirty, synced>> /\ wpc'[w] = "closed"
  BY <1>1 DEF Crash, Goto, fileVars, MemTypes
<1>3. FileTypes' /\ ForwardInv' /\ DataInv(L)' /\ \A t : Of(t)' = Of(t)
  BY <1>1, <1>2, SameObjects
<1>4. HeadTypes'
  BY <1>1 DEF Crash, HeadTypes, fileVars
<1>5. MemTypes' /\ RefInv'
  <2>1. MemTypes'
    BY <1>1 DEF Crash, Goto, MemTypes, WriterPCs
  <2>2. \A v \in Writers : items'[v] = {}
    BY <1>1 DEF Crash, MemTypes
  <2> QED
    BY <1>1, <1>2, <1>3, <2>1, <2>2 DEF Crash, RefInv
<1>6. Begin(w)' = disk.head
  BY <1>2 DEF Begin
<1>7. WriterInv(w, L, c)' /\ \A b : WriterInv(w, L, b)'
  BY <1>2 DEF WriterInv
<1>8. Len(synced) \in Nat /\ Len(c) \in Nat
  BY <1>1 DEF HeadTypes
<1>9. CASE Len(synced) = 0
  <2> DEFINE b == <<>>
  <2>1. disk.head = 0 /\ disk.tail = 0 /\ disk.seq = 0
    BY <1>1, <1>9 DEF SyncInv
  <2>2. b \in Seq(Nat) /\ Len(b) = 0
    OBVIOUS
  <2> HIDE DEF b
  <2>3. IsChain(b, Begin(w))'
    BY <1>6, <2>1, <2>2 DEF IsChain
  <2>4. SyncInv(w, b)'
    BY <1>2, <1>9, <2>1, <2>2 DEF SyncInv
  <2>5. NothingLeft(w, b)'
    <3>1. LengthInv(w, b)'
      BY <1>2, <1>9, <2>2 DEF LengthInv
    <3>2. ASSUME ~torn, NEW r \in Readers
          PROVE  ReaderInv(rd[r], b)'
      <4>1. ReaderInv(rd[r], c)
        BY <1>1, <3>2 DEF NothingLeft
      <4> QED
        BY <4>1, <1>2, <2>1 DEF ReaderInv
    <3>3. torn => torn'
      BY DEF Crash
    <3> QED
      BY <3>1, <3>2, <3>3 DEF NothingLeft
  <2>6. \A i \in 1..Len(b) : b[i] \notin L
    BY <2>2
  <2>7. JInv(w, L, b)'
    BY <1>3, <1>4, <1>5, <1>7, <2>3, <2>4, <2>5, <2>6 DEF JInv, ChainInv
  <2> QED
    BY <2>2, <2>7
<1>10. CASE Len(synced) > 0
  <2>1. disk.head = Begin(w) /\ disk.head # 0 /\ disk.tail = c[Len(synced)]
    BY <1>1, <1>10 DEF SyncInv
  <2>2. IsChain(c, Begin(w))'
    BY <1>1, <1>2, <1>6, <2>1 DEF IsChain, ArrayOfEntry, Of
  <2>3. SyncInv(w, c)'
    BY <1>1, <1>2, <1>6, <2>1 DEF SyncInv
  <2>4. ASSUME ~torn'
        PROVE  Len(c) = Len(synced)
    <3>1. disk.tail = 0 \/ objs[disk.tail].next = 0
      BY <2>4 DEF Crash
    <3>2. Len(synced) \in 1..Len(c) /\ \A i \in 1..Len(c) : c[i] \in Of("array")
      <4>1. Len(synced) \in 1..Len(c)
        BY <1>1, <1>8, <1>10 DEF SyncInv
      <4>2. \A i \in 1..Len(c) : c[i] \in Of("array")
        BY <1>1 DEF IsChain, ArrayOfEntry
      <4> QED
        BY <4>1, <4>2
    <3>3. \A i \in 1..Len(c) : c[i] # 0
      BY <1>1, <3>2, ObjectAt
    <3>4. objs[disk.tail].next = 0
      BY <3>1, <3>2, <3>3, <2>1
    <3>5. Len(synced) # Len(c) => objs[disk.tail].next = c[Len(synced) + 1]
                                  /\ Len(synced) + 1 \in 1..Len(c)
      BY <1>1, <1>8, <3>2, <2>1 DEF IsChain
    <3> QED
      BY <3>3, <3>4, <3>5
  <2>5. NothingLeft(w, c)'
    <3>1. ~torn' => LengthInv(w, c)'
      BY <1>2, <2>4 DEF LengthInv
    <3>2. ~torn' => \A r \in Readers : ReaderInv(rd[r], c)
      BY <1>1 DEF Crash, NothingLeft
    <3>3. ~torn' => \A r \in Readers : ReaderInv(rd[r], c)'
      BY <3>2, <1>2, SameReaders
    <3> QED
      BY <3>1, <3>3 DEF NothingLeft
  <2>6. JInv(w, L, c)'
    BY <1>1, <1>3, <1>4, <1>5, <1>7, <2>2, <2>3, <2>5 DEF JInv, ChainInv
  <2> QED
    BY <2>6
<1> QED
  BY <1>8, <1>9, <1>10

(* A number below the modulus is its own remainder.                              *)
LEMMA SmallRemainder ==
    ASSUME NEW m \in Nat, NEW k \in Nat, k < m
    PROVE  k % m = k
OBVIOUS

(* The header in memory takes up the entry.  The offset fits its field.             *)
LEMMA UpdateHeaderKeeps ==
    ASSUME NEW w \in Writers, Writers = {w}, NEW L \in SUBSET Nat, NEW c \in Seq(Nat),
           JInv(w, L, c), Fits, UpdateHeader(w)
    PROVE  \E b \in Seq(Nat) : JInv(w, L, b)'
<1>1. /\ FileTypes /\ HeadTypes /\ MemTypes /\ RefInv /\ ForwardInv
      /\ DataInv(L) /\ IsChain(c, Begin(w)) /\ \A i \in 1..Len(c) : c[i] \notin L
      /\ SyncInv(w, c) /\ WriterInv(w, L, c) /\ NothingLeft(w, c)
  BY DEF JInv, ChainInv
<1>2. UNCHANGED <<objs, hash, rd, disk, exists, synced, torn, cache, fcache, items, dirty>>
      /\ wpc[w] = "header" /\ wpc'[w] = "idle"
  BY <1>1 DEF UpdateHeader, Goto, fileVars, pastVars, MemTypes
<1>3. FileTypes' /\ ForwardInv' /\ DataInv(L)' /\ \A t : Of(t)' = Of(t)
  BY <1>1, <1>2, SameObjects
<1>4. ArrayOfEntry(cur[w], hdr[w].seq) /\ objs[cur[w]].next = 0 /\ cur[w] \notin L
  BY <1>1, <1>2 DEF WriterInv
<1>5. cur[w] \in 1..Len(objs) /\ Len(objs) \in Nat
  <2>1. Len(objs) \in Nat
    BY <1>1 DEF FileTypes
  <2> QED
    BY <1>1, <1>4, <2>1, ObjectAt DEF ArrayOfEntry
<1>6. cur[w] % OffsetMod = cur[w]
  <2>1. OffsetMod \in Nat /\ cur[w] \in Nat /\ cur[w] < OffsetMod
    BY <1>5, JournalAssumption DEF Fits
  <2> QED
    BY <2>1, SmallRemainder
<1>7. /\ hdr'[w].head = IF hdr[w].head = 0 THEN cur[w] ELSE hdr[w].head
      /\ hdr'[w].tail = cur[w] /\ hdr'[w].seq = hdr[w].seq
      /\ hdr[w].seq \in Nat /\ hdr[w].head \in Nat
  BY <1>1, <1>6 DEF UpdateHeader, MemTypes, Headers
<1>8. HeadTypes' /\ MemTypes'
  <2>1. HeadTypes'
    BY <1>1, <1>2 DEF HeadTypes
  <2>2. cur[w] % OffsetMod \in Nat /\ cur[w] \in Nat
    BY <1>5, <1>6
  <2>3. hdr' \in [Writers -> Headers]
    <3>1. hdr' = [hdr EXCEPT ![w].head = IF @ = 0 THEN cur[w] ELSE @, ![w].tail = cur[w]]
      BY <1>6 DEF UpdateHeader
    <3>2. hdr[w] \in Headers /\ hdr \in [Writers -> Headers]
      BY <1>1 DEF MemTypes
    <3>3. [hdr[w] EXCEPT !.head = IF @ = 0 THEN cur[w] ELSE @, !.tail = cur[w]] \in Headers
      BY <2>2, <3>2 DEF Headers
    <3>4. hdr' = [hdr EXCEPT ![w] = [hdr[w] EXCEPT !.head = IF @ = 0 THEN cur[w] ELSE @,
                                                   !.tail = cur[w]]]
      BY <3>1, <3>2
    <3> QED
      BY <3>2, <3>3, <3>4
  <2> QED
    BY <1>1, <1>2, <2>1, <2>3 DEF UpdateHeader, Goto, MemTypes, WriterPCs
<1>9. RefInv'
  BY <1>1, <1>2, <1>3 DEF RefInv
<1>10. Begin(w) = hdr[w].head /\ Begin(w)' = hdr'[w].head
  BY <1>2 DEF Begin
<1>11. /\ Len(synced) <= hdr[w].seq - 1 /\ hdr[w].seq - 1 <= Len(c)
       /\ Len(c) \in Nat /\ Len(synced) \in Nat
  BY <1>1, <1>2 DEF WriterInv, Known, HeadTypes
<1>12. CASE hdr[w].head = 0
  <2>0. PICK b \in Seq(Nat) : b = <<cur[w]>>
    <3>1. <<cur[w]>> \in Seq(Nat)
      BY <1>5
    <3> QED
      BY <3>1
  <2>1. Len(c) = 0 /\ hdr[w].seq = 1 /\ Len(synced) = 0 /\ disk.head = 0 /\ disk.tail = 0
    <3>1. Len(c) = 0
      BY <1>1, <1>2, <1>12 DEF WriterInv
    <3> QED
      BY <1>1, <1>7, <1>11, <3>1 DEF SyncInv
  <2>2. Len(b) = 1 /\ b[1] = cur[w]
    BY <2>0
  <2>3. hdr'[w].head = cur[w]
    BY <1>7, <1>12
  <2>4. IsChain(b, Begin(w))'
    <3>1. Begin(w)' = cur[w] /\ cur[w] # 0
      BY <1>5, <1>10, <2>3
    <3>2. \A i \in 1..Len(b) : i = 1
      BY <2>2
    <3>3. ArrayOfEntry(b[1], 1)' /\ objs'[b[1]].next = 0
      BY <1>2, <1>4, <2>1, <2>2, SameObjects
    <3> QED
      BY <2>2, <3>1, <3>2, <3>3 DEF IsChain
  <2>5. SyncInv(w, b)'
    <3>1. disk.seq = 0 /\ exists
      BY <1>1, <1>2, <2>1 DEF SyncInv
    <3> QED
      BY <1>2, <2>1, <2>2, <3>1 DEF SyncInv
  <2>6. WriterInv(w, L, b)'
    <3>1. dirty[w] /\ dirty'[w] = dirty[w]
      BY <1>1, <1>2 DEF WriterInv
    <3> QED
      BY <1>2, <1>7, <2>1, <2>2, <3>1 DEF WriterInv, Known
  <2>7. NothingLeft(w, b)'
    <3>1. LengthInv(w, b)'
      BY <1>2, <1>7, <2>1, <2>2 DEF LengthInv, Known
    <3>2. ASSUME ~torn, NEW r \in Readers
          PROVE  ReaderInv(rd[r], b)'
      <4>1. ReaderInv(rd[r], c)
        BY <1>1, <3>2 DEF NothingLeft
      <4> QED
        BY <4>1, <1>2, <2>1 DEF ReaderInv
    <3> QED
      BY <1>2, <3>1, <3>2 DEF NothingLeft
  <2>8. \A i \in 1..Len(b) : b[i] \notin L
    BY <1>4, <2>2
  <2>9. JInv(w, L, b)'
    BY <1>3, <1>8, <1>9, <2>4, <2>5, <2>6, <2>7, <2>8 DEF JInv, ChainInv
  <2> QED
    BY <2>9
<1>13. CASE hdr[w].head # 0
  <2>1. Len(c) = hdr[w].seq /\ c[Len(c)] = cur[w]
    BY <1>1, <1>2, <1>13 DEF WriterInv
  <2>2. Begin(w)' = Begin(w) /\ hdr'[w].head = hdr[w].head
    BY <1>7, <1>10, <1>13
  <2>3. IsChain(c, Begin(w))'
    BY <1>1, <1>2, <2>2 DEF IsChain, ArrayOfEntry, Of
  <2>4. SyncInv(w, c)'
    BY <1>1, <1>2, <2>2 DEF SyncInv
  <2>5. Len(c) # 0
    BY <1>1, <1>10, <1>13 DEF IsChain
  <2>6. WriterInv(w, L, c)'
    <3>1. dirty[w] /\ dirty'[w] = dirty[w]
      BY <1>1, <1>2 DEF WriterInv
    <3> QED
      BY <1>1, <1>2, <1>7, <1>11, <2>1, <2>2, <2>5, <3>1 DEF WriterInv, Known
  <2>7. NothingLeft(w, c)'
    <3>1. LengthInv(w, c)'
      BY <1>2, <1>7, <2>1 DEF LengthInv, Known
    <3>2. torn \/ \A r \in Readers : ReaderInv(rd[r], c)'
      BY <1>1, <1>2, SameReaders DEF NothingLeft
    <3> QED
      BY <1>2, <3>1, <3>2 DEF NothingLeft
  <2>8. JInv(w, L, c)'
    BY <1>1, <1>3, <1>8, <1>9, <2>3, <2>4, <2>6, <2>7 DEF JInv, ChainInv
  <2> QED
    BY <2>8
<1> QED
  BY <1>12, <1>13

-----------------------------------------------------------------------------
(* Steps that write an object or a link.                                       *)

(* The objects that a writer writes.                                           *)
LEMMA NewObjects ==
    /\ \A name \in STRING : FieldObj(name) \in Objects
    /\ \A d \in Data, k \in Nat : DataObj(d, k) \in Objects
    /\ \A k \in Nat, I \in SUBSET Nat : EntryObj(k, I) \in Objects
    /\ \A s \in Seq(Nat) : ArrayObj(s) \in Objects
BY DEF FieldObj, DataObj, EntryObj, ArrayObj, Objects, FieldRecs, DataRecs, EntryRecs, ArrayRecs

(* An object written over another one.                                         *)
LEMMA Replaced ==
    ASSUME NEW o \in Seq(Objects), NEW x \in 1..Len(o), NEW r \in Objects
    PROVE  /\ [o EXCEPT ![x] = r] \in Seq(Objects) /\ Len([o EXCEPT ![x] = r]) = Len(o)
           /\ [o EXCEPT ![x] = r][x] = r
           /\ \A y \in 1..Len(o) : y # x => [o EXCEPT ![x] = r][y] = o[y]
OBVIOUS

(* Objects that no entry hangs on may be written while an entry is made.           *)
LEMMA ChainKept ==
    ASSUME NEW w \in Writers, Writers = {w}, NEW L \in SUBSET Nat, NEW c \in Seq(Nat),
           JInv(w, L, c), FileTypes', Frame(L), NEW M, wpc[w] \in {"data", "link"},
           UNCHANGED <<exists, disk, wpc, hdr, cur, dirty, rd, synced, torn>>
    PROVE  IsChain(c, Begin(w))' /\ SyncInv(w, c)' /\ WriterInv(w, M, c)' /\ NothingLeft(w, c)'
<1>1. /\ FileTypes /\ HeadTypes /\ MemTypes /\ RefInv /\ ForwardInv
      /\ DataInv(L) /\ IsChain(c, Begin(w)) /\ \A i \in 1..Len(c) : c[i] \notin L
      /\ SyncInv(w, c) /\ WriterInv(w, L, c) /\ NothingLeft(w, c)
  BY DEF JInv, ChainInv
<1>2. Begin(w)' = Begin(w) /\ Known(w)' = Known(w)
  BY DEF Begin, Known
<1>3. \A i \in 1..Len(c) : objs'[c[i]] = objs[c[i]]
  BY <1>1, FrameKeepsChain
<1>4. IsChain(c, Begin(w))'
  <2>1. PICK a : a = Begin(w)
    OBVIOUS
  <2>2. IsChain(c, a)'
    BY <1>1, <2>1, FrameKeepsChain
  <2> QED
    BY <1>2, <2>1, <2>2 DEF IsChain
<1>5. SyncInv(w, c)'
  <2>1. Len(synced) \in Nat
    BY <1>1 DEF HeadTypes
  <2> QED
    BY <1>1, <1>2, <1>3, <2>1, FrameKeepsSync
<1>6. WriterInv(w, M, c)'
  <2>1. wpc[w] = "link" => cur[w] \in Of("entry")' /\ objs'[cur[w]] = objs[cur[w]]
    BY <1>1, FrameKeepsTypes DEF WriterInv, Frame
  <2> QED
    BY <1>1, <1>2, <2>1 DEF WriterInv
<1>7. NothingLeft(w, c)'
  <2>1. ~torn => \A r \in Readers : ReaderInv(rd[r], c)'
    <3>1. Len(c) <= Len(c)
      OBVIOUS
    <3> QED
      BY <1>1, <1>3, <3>1, FrameKeepsReaders DEF NothingLeft
  <2> QED
    BY <1>1, <1>2, <2>1 DEF NothingLeft, LengthInv
<1> QED
  BY <1>4, <1>5, <1>6, <1>7

(* ensureField.                                                              *)
LEMMA EnsureFieldKeeps ==
    ASSUME NEW w \in Writers, Writers = {w}, NEW L \in SUBSET Nat, NEW c \in Seq(Nat),
           JInv(w, L, c), NEW d \in Data, EnsureField(w, d)
    PROVE  JInv(w, L, c)'
<1>1. /\ FileTypes /\ HeadTypes /\ MemTypes /\ RefInv /\ ForwardInv
      /\ DataInv(L) /\ IsChain(c, Begin(w)) /\ \A i \in 1..Len(c) : c[i] \notin L
      /\ SyncInv(w, c) /\ WriterInv(w, L, c) /\ NothingLeft(w, c)
  BY DEF JInv, ChainInv
<1> DEFINE r == FieldObj(FieldOf[d])
<1>2. r \in Objects /\ r.type = "field" /\ objs' = Append(objs, r)
  BY JournalAssumption, NewObjects DEF EnsureField, FieldObj
<1>3. /\ UNCHANGED <<exists, disk, hash, wpc, hdr, cache, items, cur, dirty, rd, synced, torn>>
      /\ wpc[w] = "data" /\ fcache' = [fcache EXCEPT ![w] = Put(@, FieldOf[d], End)]
  BY DEF EnsureField, appendOnly, pastVars
<1> HIDE DEF r
<1>4. /\ FileTypes' /\ Frame({}) /\ End \in Nat
      /\ \A o \in DOMAIN objs : objs'[o] = objs[o] /\ o # End
      /\ \A t : Of(t)' = Of(t) \cup (IF r.type = t THEN {End} ELSE {})
  BY <1>1, <1>2, Appended
<1>5. Of("field")' = Of("field") \cup {End} /\ \A t : t # "field" => Of(t)' = Of(t)
  BY <1>2, <1>4
<1>6. HeadTypes' /\ MemTypes'
  BY <1>1, <1>3 DEF HeadTypes, MemTypes
<1>7. RefInv'
  <2>1. \A f \in DOMAIN fcache'[w] : fcache'[w][f] \in Of("field")'
    BY <1>1, <1>3, <1>5 DEF RefInv, MemTypes, Put
  <2> QED
    BY <1>1, <1>3, <1>5, <2>1 DEF RefInv
<1>8. ForwardInv' /\ DataInv(L)' /\ Frame(L)
  <2>1. \A o \in Of("data")' : o \in Of("data") /\ objs'[o].array = objs[o].array
    BY <1>4, <1>5 DEF Of
  <2>2. Frame(L)
    BY <1>4 DEF Frame
  <2> QED
    BY <1>1, <1>4, <1>5, <2>1, <2>2, FrameKeepsData, FrameKeepsForward
<1>9. IsChain(c, Begin(w))' /\ SyncInv(w, c)' /\ WriterInv(w, L, c)' /\ NothingLeft(w, c)'
  BY <1>3, <1>4, <1>8, ChainKept
<1> QED
  BY <1>1, <1>4, <1>6, <1>7, <1>8, <1>9 DEF JInv, ChainInv

(* appendData: besides the object, the head of its field and the link of the hash    *)
(* chain change.                                                            *)
LEMMA AppendDataKeeps ==
    ASSUME NEW w \in Writers, Writers = {w}, NEW L \in SUBSET Nat, NEW c \in Seq(Nat),
           JInv(w, L, c), NEW d \in Data, AppendData(w, d)
    PROVE  JInv(w, L, c)'
<1>1. /\ FileTypes /\ HeadTypes /\ MemTypes /\ RefInv /\ ForwardInv
      /\ DataInv(L) /\ IsChain(c, Begin(w)) /\ \A i \in 1..Len(c) : c[i] \notin L
      /\ SyncInv(w, c) /\ WriterInv(w, L, c) /\ NothingLeft(w, c)
  BY DEF JInv, ChainInv
<1>2. /\ UNCHANGED <<exists, disk, wpc, hdr, fcache, cur, dirty, rd, synced, torn>>
      /\ wpc[w] = "data" /\ cache' = [cache EXCEPT ![w] = Put(@, d, End)]
      /\ items' = [items EXCEPT ![w] = @ \cup {End}] /\ hash'.tail = End
      /\ hash' = [head |-> IF hash.head = 0 THEN End ELSE hash.head, tail |-> End]
  BY DEF AppendData, appendOnly, pastVars
<1>3. PICK f : f = fcache[w][FieldOf[d]]
  OBVIOUS
<1>4. f \in Of("field") /\ f \in 1..Len(objs) /\ objs[f] \in FieldRecs
  BY <1>1, <1>3, ObjectAt DEF AppendData, RefInv
<1>5. PICK r : r = DataObj(d, objs[f].headData)
  OBVIOUS
<1>6. r \in Objects /\ r.type = "data" /\ r.array = 0
  <2>1. objs[f].headData \in Nat
    BY <1>4 DEF FieldRecs
  <2> QED
    BY <1>5, <2>1, NewObjects DEF DataObj
<1>7. PICK p : p = Append(objs, r)
  OBVIOUS
<1>8. /\ p \in Seq(Objects) /\ Len(p) = End /\ End \in Nat /\ p[End] = r
      /\ \A o \in 1..Len(objs) : p[o] = objs[o] /\ o \in 1..Len(p) /\ o # End
  BY <1>1, <1>6, <1>7 DEF FileTypes, End
<1>9. PICK q : q = [p EXCEPT ![f] = [objs[f] EXCEPT !.headData = End]]
  OBVIOUS
<1>10. [objs[f] EXCEPT !.headData = End] \in FieldRecs
  BY <1>4, <1>8 DEF FieldRecs
<1>11. /\ q \in Seq(Objects) /\ Len(q) = End /\ q[f] \in FieldRecs /\ q[End] = r
       /\ \A o \in 1..Len(objs) : o # f => q[o] = objs[o]
  <2>1. [objs[f] EXCEPT !.headData = End] \in Objects
    BY <1>10 DEF Objects
  <2>2. f \in 1..Len(p) /\ f # End /\ End \in 1..Len(p)
    BY <1>4, <1>8 DEF End
  <2> QED
    BY <1>8, <1>9, <1>10, <2>1, <2>2, Replaced
<1>12. objs' = IF hash.tail = 0 THEN q ELSE [q EXCEPT ![hash.tail].nextHash = End]
  <2>1. q = [p EXCEPT ![f].headData = End]
    BY <1>4, <1>8, <1>9
  <2> QED
    BY <1>3, <1>5, <1>7, <2>1 DEF AppendData
<1>13. /\ FileTypes' /\ Len(objs') = End /\ objs'[End].type = "data" /\ objs'[End].array = 0
       /\ \A o \in 1..Len(objs) : objs'[o].type = objs[o].type
       /\ \A o \in Of("data") : objs'[o].array = objs[o].array
       /\ \A o \in Of("entry") \cup Of("array") : objs'[o] = objs[o]
  <2>1. /\ q[f].type = "field" /\ objs[f].type = "field"
    BY <1>4, <1>11 DEF FieldRecs
  <2>2. \A o \in 1..Len(objs) : q[o].type = objs[o].type /\ (objs[o].type # "field" => q[o] = objs[o])
    BY <1>11, <2>1
  <2>0. \A t : \A o \in Of(t) : o \in 1..Len(objs) /\ objs[o].type = t
    BY <1>1 DEF FileTypes, Of
  <2>3. CASE hash.tail = 0
    <3>1. objs' = q
      BY <1>12, <2>3
    <3>2. FileTypes' /\ Len(objs') = End /\ objs'[End] = r
      BY <1>11, <3>1 DEF FileTypes
    <3>3. \A o \in 1..Len(objs) : objs'[o].type = objs[o].type
                                 /\ (objs[o].type # "field" => objs'[o] = objs[o])
      BY <2>2, <3>1
    <3> QED
      BY <1>6, <2>0, <3>2, <3>3
  <2>4. CASE hash.tail # 0
    <3>1. hash.tail \in Of("data") /\ hash.tail \in 1..Len(objs) /\ objs[hash.tail] \in DataRecs
      BY <1>1, <2>4, ObjectAt DEF RefInv
    <3>2. q[hash.tail] = objs[hash.tail]
      BY <2>2, <3>1 DEF Of
    <3>3. PICK s : s = [objs[hash.tail] EXCEPT !.nextHash = End]
      OBVIOUS
    <3>4. s \in DataRecs /\ s.type = "data" /\ s.array = objs[hash.tail].array
      BY <1>8, <3>1, <3>3 DEF DataRecs
    <3>5. s \in Objects /\ hash.tail \in 1..Len(q) /\ hash.tail # End /\ End \in 1..Len(q)
      BY <1>8, <1>11, <3>1, <3>4 DEF Objects, End
    <3>6. objs' = [q EXCEPT ![hash.tail] = s]
      BY <1>11, <1>12, <2>4, <3>2, <3>3, <3>5
    <3>7. /\ objs' \in Seq(Objects) /\ Len(objs') = End /\ objs'[hash.tail] = s
          /\ \A o \in 1..Len(q) : o # hash.tail => objs'[o] = q[o]
      BY <1>11, <3>5, <3>6, Replaced
    <3>8. objs'[End] = r
      BY <1>11, <3>5, <3>7
    <3>9. \A o \in 1..Len(objs) : o # hash.tail => objs'[o] = q[o]
      BY <1>8, <1>11, <3>7
    <3>10. FileTypes' /\ Len(objs') = End
      BY <3>7 DEF FileTypes
    <3>11. objs[hash.tail].type = "data"
      BY <3>1 DEF DataRecs
    <3>12. \A o \in 1..Len(objs) : objs'[o].type = objs[o].type
      BY <2>2, <3>4, <3>7, <3>9, <3>11
    <3>13. \A o \in Of("data") : objs'[o].array = objs[o].array
      BY <2>0, <2>2, <3>4, <3>7, <3>9
    <3>14. \A o \in Of("entry") \cup Of("array") : objs'[o] = objs[o]
      <4> SUFFICES ASSUME NEW o \in Of("entry") \cup Of("array") PROVE objs'[o] = objs[o]
        OBVIOUS
      <4>1. o \in 1..Len(objs) /\ objs[o].type \in {"entry", "array"}
        BY <2>0
      <4>2. o # hash.tail /\ q[o] = objs[o]
        BY <2>2, <3>11, <4>1
      <4> QED
        BY <3>9, <4>1, <4>2
    <3> QED
      BY <1>6, <3>8, <3>10, <3>12, <3>13, <3>14
  <2> QED
    BY <2>3, <2>4
<1>14. /\ Of("data")' = Of("data") \cup {End}
       /\ \A t : t # "data" => Of(t)' = Of(t)
  <2>1. DOMAIN objs' = 1..End /\ DOMAIN objs = 1..Len(objs) /\ 1..End = 1..Len(objs) \cup {End}
    BY <1>1, <1>8, <1>13 DEF FileTypes, End
  <2> QED
    BY <1>13, <2>1 DEF Of
<1>15. Frame({}) /\ Frame(L)
  <2>1. Len(objs) <= Len(objs') /\ DOMAIN objs = 1..Len(objs)
    BY <1>1, <1>13 DEF FileTypes, End
  <2> QED
    BY <1>13, <2>1 DEF Frame
<1>16. HeadTypes' /\ MemTypes'
  BY <1>1, <1>2, <1>8 DEF HeadTypes, MemTypes
<1>17. RefInv'
  <2>1. \A x \in DOMAIN cache'[w] : cache'[w][x] \in Of("data")'
    BY <1>1, <1>2, <1>14 DEF RefInv, MemTypes, Put
  <2>2. items'[w] \subseteq Of("data")'
    BY <1>1, <1>2, <1>14 DEF RefInv, MemTypes
  <2>3. \A x \in DOMAIN fcache'[w] : fcache'[w][x] \in Of("field")'
    BY <1>1, <1>2, <1>14 DEF RefInv
  <2> QED
    BY <1>2, <1>14, <2>1, <2>2, <2>3 DEF RefInv
<1>18. ForwardInv' /\ DataInv(L)'
  <2>1. \A o \in Of("data")' : \/ objs'[o].array = 0
                               \/ o \in Of("data") /\ objs'[o].array = objs[o].array
    BY <1>13, <1>14
  <2>2. \A o \in Of("array")' : o \in Of("array") \/ objs'[o].next = 0
    BY <1>14
  <2> QED
    BY <1>1, <1>13, <1>15, <2>1, <2>2, FrameKeepsData, FrameKeepsForward
<1>19. IsChain(c, Begin(w))' /\ SyncInv(w, c)' /\ WriterInv(w, L, c)' /\ NothingLeft(w, c)'
  <2>1. UNCHANGED <<exists, disk, wpc, hdr, cur, dirty, rd, synced, torn>>
        /\ wpc[w] \in {"data", "link"}
    BY <1>2
  <2>2. FileTypes' /\ Frame(L)
    BY <1>13, <1>15
  <2>3. JInv(w, L, c) /\ w \in Writers /\ Writers = {w}
    OBVIOUS
  <2>5. IsChain(c, Begin(w))'
    BY <2>1, <2>2, <2>3, ChainKept
  <2>6. SyncInv(w, c)'
    BY <2>1, <2>2, <2>3, ChainKept
  <2>7. WriterInv(w, L, c)'
    BY <2>1, <2>2, <2>3, ChainKept
  <2>8. NothingLeft(w, c)'
    BY <2>1, <2>2, <2>3, ChainKept
  <2> QED
    BY <2>5, <2>6, <2>7, <2>8
<1> QED
  BY <1>1, <1>13, <1>16, <1>17, <1>18, <1>19 DEF JInv, ChainInv

(* appendEntryObject writes the entry, with the next sequence number.               *)
LEMMA WriteEntryKeeps ==
    ASSUME NEW w \in Writers, Writers = {w}, NEW L \in SUBSET Nat, NEW c \in Seq(Nat),
           JInv(w, L, c), WriteEntry(w)
    PROVE  JInv(w, L, c)'
<1>1. /\ FileTypes /\ HeadTypes /\ MemTypes /\ RefInv /\ ForwardInv
      /\ DataInv(L) /\ IsChain(c, Begin(w)) /\ \A i \in 1..Len(c) : c[i] \notin L
      /\ SyncInv(w, c) /\ WriterInv(w, L, c) /\ NothingLeft(w, c)
  BY DEF JInv, ChainInv
<1>2. PICK r : r = EntryObj(hdr[w].seq + 1, items[w])
  OBVIOUS
<1>3. hdr[w] \in Headers /\ hdr[w].seq \in Nat /\ items[w] \in SUBSET Nat
  BY <1>1 DEF MemTypes, Headers
<1>4. r \in Objects /\ r.type = "entry" /\ r.seq = hdr[w].seq + 1 /\ objs' = Append(objs, r)
  <2>1. hdr[w].seq + 1 \in Nat
    BY <1>3
  <2>2. r \in Objects
    BY <1>2, <1>3, <2>1, NewObjects
  <2> QED
    BY <1>2, <2>2 DEF WriteEntry, EntryObj
<1>5. /\ UNCHANGED <<exists, disk, hash, cache, fcache, items, dirty, rd, synced, torn>>
      /\ wpc[w] = "data" /\ wpc' = [wpc EXCEPT ![w] = "link"]
      /\ cur' = [cur EXCEPT ![w] = End] /\ hdr' = [hdr EXCEPT ![w].seq = @ + 1]
  BY DEF WriteEntry, Goto, appendOnly, pastVars
<1>6. /\ FileTypes' /\ Frame({}) /\ End \in Nat /\ objs'[End] = r
      /\ \A o \in DOMAIN objs : objs'[o] = objs[o] /\ o # End
      /\ \A t : Of(t)' = Of(t) \cup (IF r.type = t THEN {End} ELSE {})
  BY <1>1, <1>4, Appended
<1>7. Of("entry")' = Of("entry") \cup {End} /\ \A t : t # "entry" => Of(t)' = Of(t)
  BY <1>4, <1>6
<1>8. /\ hdr' \in [Writers -> Headers] /\ hdr'[w].seq = hdr[w].seq + 1
      /\ hdr'[w].head = hdr[w].head /\ hdr'[w].tail = hdr[w].tail
      /\ wpc'[w] = "link" /\ cur'[w] = End
  <2>1. PICK h : h = [hdr[w] EXCEPT !.seq = hdr[w].seq + 1]
    OBVIOUS
  <2>2. h \in Headers /\ h.seq = hdr[w].seq + 1 /\ h.head = hdr[w].head /\ h.tail = hdr[w].tail
    BY <1>3, <2>1 DEF Headers
  <2>3. hdr' = [hdr EXCEPT ![w] = h] /\ hdr \in [Writers -> Headers]
    BY <1>1, <1>5, <2>1 DEF MemTypes
  <2>4. hdr' \in [Writers -> Headers] /\ hdr'[w] = h
    BY <2>2, <2>3
  <2>5. wpc'[w] = "link" /\ cur'[w] = End
    BY <1>1, <1>5 DEF MemTypes
  <2> QED
    BY <2>2, <2>4, <2>5
<1>9. HeadTypes' /\ MemTypes'
  BY <1>1, <1>5, <1>6, <1>8 DEF HeadTypes, MemTypes, WriterPCs
<1>10. RefInv'
  BY <1>1, <1>5, <1>7 DEF RefInv
<1>11. Frame(L) /\ ForwardInv' /\ DataInv(L)'
  <2>1. \A o \in Of("data")' : o \in Of("data") /\ objs'[o].array = objs[o].array
    BY <1>6, <1>7 DEF Of
  <2>2. Frame(L)
    BY <1>6 DEF Frame
  <2> QED
    BY <1>1, <1>6, <1>7, <2>1, <2>2, FrameKeepsData, FrameKeepsForward
<1>12. Begin(w)' = Begin(w) /\ Known(w)' = Known(w) /\ Known(w) = hdr[w].seq
  BY <1>3, <1>5, <1>8 DEF Begin, Known
<1>13. \A i \in 1..Len(c) : objs'[c[i]] = objs[c[i]]
  BY <1>1, <1>6, <1>11, FrameKeepsChain
<1>14. IsChain(c, Begin(w))'
  <2>1. PICK a : a = Begin(w)
    OBVIOUS
  <2>2. IsChain(c, a)'
    BY <1>1, <1>6, <1>11, <2>1, FrameKeepsChain
  <2> QED
    BY <1>12, <2>1, <2>2 DEF IsChain
<1>15. SyncInv(w, c)'
  <2>1. exists /\ Len(synced) \in Nat
    BY <1>1, <1>5 DEF SyncInv, HeadTypes
  <2> QED
    BY <1>1, <1>5, <1>12, <1>13, <2>1, FrameKeepsSync
<1>16. WriterInv(w, L, c)'
  <2>1. cur'[w] \in Of("entry")' /\ objs'[cur'[w]].seq = hdr'[w].seq
    BY <1>4, <1>6, <1>7, <1>8
  <2> QED
    BY <1>1, <1>5, <1>8, <1>12, <2>1 DEF WriterInv
<1>17. NothingLeft(w, c)'
  <2>1. torn \/ LengthInv(w, c)'
    BY <1>1, <1>5, <1>8, <1>12 DEF NothingLeft, LengthInv
  <2>2. torn \/ \A r0 \in Readers : ReaderInv(rd[r0], c)'
    <3>1. Len(c) <= Len(c)
      OBVIOUS
    <3> QED
      BY <1>1, <1>5, <1>13, <3>1, FrameKeepsReaders DEF NothingLeft
  <2> QED
    BY <1>5, <2>1, <2>2 DEF NothingLeft
<1> QED
  BY <1>1, <1>6, <1>9, <1>10, <1>11, <1>14, <1>15, <1>16, <1>17 DEF JInv, ChainInv

(* appendEntryArray writes the entry's array, not linked yet.                       *)
LEMMA WriteArrayKeeps ==
    ASSUME NEW w \in Writers, Writers = {w}, NEW L \in SUBSET Nat, NEW c \in Seq(Nat),
           JInv(w, L, c), WriteArray(w)
    PROVE  JInv(w, L, c)'
<1>1. /\ FileTypes /\ HeadTypes /\ MemTypes /\ RefInv /\ ForwardInv
      /\ DataInv(L) /\ IsChain(c, Begin(w)) /\ \A i \in 1..Len(c) : c[i] \notin L
      /\ SyncInv(w, c) /\ WriterInv(w, L, c) /\ NothingLeft(w, c)
  BY DEF JInv, ChainInv
<1>2. PICK r : r = ArrayObj(<<cur[w]>>)
  OBVIOUS
<1>3. wpc[w] = "link" /\ cur[w] \in Of("entry") /\ objs[cur[w]].seq = hdr[w].seq
  BY <1>1 DEF WriteArray, WriterInv
<1>4. /\ r \in Objects /\ r.type = "array" /\ r.slots = <<cur[w]>> /\ r.next = 0
      /\ objs' = Append(objs, r)
  <2>1. cur[w] \in Nat /\ <<cur[w]>> \in Seq(Nat)
    BY <1>1 DEF MemTypes
  <2> QED
    BY <1>2, <2>1, NewObjects DEF WriteArray, ArrayObj
<1>5. /\ UNCHANGED <<exists, disk, hash, hdr, cache, fcache, items, dirty, rd, synced, torn>>
      /\ wpc' = [wpc EXCEPT ![w] = "chain"] /\ cur' = [cur EXCEPT ![w] = End]
  BY DEF WriteArray, Goto, appendOnly, pastVars
<1>6. /\ FileTypes' /\ Frame({}) /\ End \in Nat /\ objs'[End] = r
      /\ DOMAIN objs = 1..(End - 1)
      /\ \A o \in DOMAIN objs : objs'[o] = objs[o] /\ o # End
      /\ \A t : Of(t)' = Of(t) \cup (IF r.type = t THEN {End} ELSE {})
  BY <1>1, <1>4, Appended
<1>7. Of("array")' = Of("array") \cup {End} /\ \A t : t # "array" => Of(t)' = Of(t)
  BY <1>4, <1>6
<1>8. wpc'[w] = "chain" /\ cur'[w] = End
  BY <1>1, <1>5 DEF MemTypes
<1>9. HeadTypes' /\ MemTypes'
  BY <1>1, <1>5, <1>6 DEF HeadTypes, MemTypes, WriterPCs
<1>10. RefInv'
  BY <1>1, <1>5, <1>7 DEF RefInv
<1>11. Frame(L) /\ ForwardInv' /\ DataInv(L)'
  <2>1. \A o \in Of("data")' : o \in Of("data") /\ objs'[o].array = objs[o].array
    BY <1>6, <1>7 DEF Of
  <2>2. Frame(L)
    BY <1>6 DEF Frame
  <2>3. \A o \in Of("array")' : o \in Of("array") \/ objs'[o].next = 0
    BY <1>4, <1>6, <1>7
  <2> QED
    BY <1>1, <1>6, <2>1, <2>2, <2>3, FrameKeepsData, FrameKeepsForward
<1>12. Begin(w)' = Begin(w) /\ Known(w)' = Known(w)
  BY <1>3, <1>5, <1>8 DEF Begin, Known
<1>13. \A i \in 1..Len(c) : objs'[c[i]] = objs[c[i]]
  BY <1>1, <1>6, <1>11, FrameKeepsChain
<1>14. IsChain(c, Begin(w))'
  <2>1. PICK a : a = Begin(w)
    OBVIOUS
  <2>2. IsChain(c, a)'
    BY <1>1, <1>6, <1>11, <2>1, FrameKeepsChain
  <2> QED
    BY <1>12, <2>1, <2>2 DEF IsChain
<1>15. SyncInv(w, c)'
  <2>1. exists /\ Len(synced) \in Nat
    BY <1>1, <1>3 DEF SyncInv, HeadTypes
  <2> QED
    BY <1>1, <1>5, <1>12, <1>13, <2>1, FrameKeepsSync
<1>16. WriterInv(w, L, c)'
  <2>0. PICK e : e = End
    OBVIOUS
  <2>1. ArrayOfEntry(e, hdr[w].seq)' /\ objs'[e].next = 0 /\ e \notin L
    <3>1. cur[w] \in Of("entry")' /\ objs'[cur[w]] = objs[cur[w]]
      BY <1>3, <1>6, <1>7 DEF Of
    <3>2. End \in Of("array")' /\ Len(objs'[End].slots) = 1 /\ objs'[End].slots[1] = cur[w]
      <4>1. End \in Of("array")' /\ objs'[End].slots = <<cur[w]>>
        BY <1>4, <1>6, <1>7
      <4> QED
        BY <4>1
    <3>3. End \notin L
      BY <1>1, <1>6 DEF DataInv, Of
    <3> QED
      BY <1>3, <1>4, <1>5, <1>6, <2>0, <3>1, <3>2, <3>3 DEF ArrayOfEntry
  <2>2. \A i \in 1..Len(c) : c[i] < End
    <3>1. \A i \in 1..Len(c) : c[i] \in DOMAIN objs
      BY <1>1 DEF IsChain, ArrayOfEntry, Of
    <3> QED
      BY <1>6, <3>1
  <2>3. ArrayOfEntry(cur[w], hdr[w].seq)'
    BY <1>5, <1>8, <2>0, <2>1 DEF ArrayOfEntry
  <2> QED
    BY <1>1, <1>3, <1>5, <1>8, <1>12, <2>0, <2>1, <2>2, <2>3 DEF WriterInv
<1>17. NothingLeft(w, c)'
  <2>1. torn \/ LengthInv(w, c)'
    BY <1>1, <1>3, <1>5, <1>8, <1>12 DEF NothingLeft, LengthInv
  <2>2. torn \/ \A r0 \in Readers : ReaderInv(rd[r0], c)'
    <3>1. Len(c) <= Len(c)
      OBVIOUS
    <3> QED
      BY <1>1, <1>5, <1>13, <3>1, FrameKeepsReaders DEF NothingLeft
  <2> QED
    BY <1>5, <2>1, <2>2 DEF NothingLeft
<1> QED
  BY <1>1, <1>6, <1>9, <1>10, <1>11, <1>14, <1>15, <1>16, <1>17 DEF JInv, ChainInv

(* The arrays of a chain are different: each is that of another entry.              *)
LEMMA ChainIsInjective ==
    ASSUME NEW c \in Seq(Nat), NEW a, IsChain(c, a),
           NEW i \in 1..Len(c), NEW j \in 1..Len(c), c[i] = c[j]
    PROVE  i = j
BY DEF IsChain, ArrayOfEntry

(* appendEntryArray links the array from the tail that the writer knows.  What a     *)
(* writer that died had linked there is cut off.                                 *)
LEMMA ChainArrayKeeps ==
    ASSUME NEW w \in Writers, Writers = {w}, NEW L \in SUBSET Nat, NEW c \in Seq(Nat),
           JInv(w, L, c), ChainArray(w)
    PROVE  \E b \in Seq(Nat) : JInv(w, L, b)'
<1>1. /\ FileTypes /\ HeadTypes /\ MemTypes /\ RefInv /\ ForwardInv
      /\ DataInv(L) /\ IsChain(c, Begin(w)) /\ \A i \in 1..Len(c) : c[i] \notin L
      /\ SyncInv(w, c) /\ WriterInv(w, L, c) /\ NothingLeft(w, c)
  BY DEF JInv, ChainInv
<1>2. /\ UNCHANGED <<exists, disk, hash, hdr, cache, fcache, items, cur, dirty, rd, synced, torn>>
      /\ wpc[w] = "chain" /\ wpc' = [wpc EXCEPT ![w] = "header"]
  BY DEF ChainArray, Goto, appendOnly, pastVars, memVars
<1>3. wpc'[w] = "header"
  BY <1>1, <1>2 DEF MemTypes
<1>4. /\ ArrayOfEntry(cur[w], hdr[w].seq) /\ objs[cur[w]].next = 0 /\ cur[w] \notin L
      /\ \A i \in 1..Len(c) : c[i] < cur[w]
  BY <1>1, <1>2 DEF WriterInv
<1>5. PICK e : e = cur[w]
  OBVIOUS
<1>6. e \in Of("array") /\ e \in 1..Len(objs) /\ Len(objs) \in Nat /\ DOMAIN objs = 1..Len(objs)
  BY <1>1, <1>4, <1>5, ObjectAt DEF ArrayOfEntry, FileTypes
<1>7. PICK k : k = Known(w)
  OBVIOUS
<1>8. /\ k = hdr[w].seq - 1 /\ k \in Nat /\ Len(c) \in Nat /\ k <= Len(c) /\ Len(synced) <= k
      /\ Len(synced) \in Nat /\ hdr[w].head \in Nat /\ hdr[w].tail \in Nat /\ hdr[w].seq \in Nat
  <2>1. hdr[w] \in Headers
    BY <1>1 DEF MemTypes
  <2>2. Len(synced) \in Nat /\ Len(c) \in Nat
    BY <1>1 DEF HeadTypes
  <2>3. k = hdr[w].seq - 1 /\ k <= Len(c) /\ Len(synced) <= k
    BY <1>1, <1>2, <1>7 DEF WriterInv, Known
  <2> QED
    BY <2>1, <2>2, <2>3 DEF Headers
<1>9. HeadTypes' /\ MemTypes'
  BY <1>1, <1>2 DEF HeadTypes, MemTypes, WriterPCs
<1>10. Begin(w) = hdr[w].head /\ Begin(w)' = hdr[w].head
  BY <1>2, <1>3 DEF Begin
<1>11. Known(w)' = k /\ exists /\ dirty[w]
  BY <1>1, <1>2, <1>3, <1>7 DEF Known, SyncInv, WriterInv
<1>12. CASE k = 0
  <2>1. hdr[w].tail = 0 /\ hdr[w].head = 0 /\ hdr[w].seq = 1
    BY <1>1, <1>2, <1>7, <1>8, <1>12 DEF WriterInv
  <2>2. UNCHANGED objs
    BY <2>1 DEF ChainArray
  <2>3. FileTypes' /\ ForwardInv' /\ DataInv(L)' /\ \A t : Of(t)' = Of(t)
    BY <1>1, <2>2, SameObjects
  <2>4. RefInv'
    BY <1>1, <1>2, <2>3 DEF RefInv
  <2>5. Len(c) = 0
    BY <1>1, <1>10, <2>1 DEF IsChain
  <2>6. IsChain(c, Begin(w))'
    BY <1>10, <2>1, <2>5 DEF IsChain
  <2>7. SyncInv(w, c)'
    BY <1>1, <1>2, <1>8, <1>11, <1>12, <2>5 DEF SyncInv
  <2>8. ArrayOfEntry(cur[w], hdr[w].seq)'
    BY <1>2, <1>4, <2>2 DEF ArrayOfEntry, Of
  <2>9. WriterInv(w, L, c)'
    BY <1>2, <1>3, <1>4, <1>8, <1>11, <1>12, <2>1, <2>2, <2>5, <2>8 DEF WriterInv
  <2>10. NothingLeft(w, c)'
    <3>1. LengthInv(w, c)'
      BY <1>3 DEF LengthInv
    <3>2. torn \/ \A r \in Readers : ReaderInv(rd[r], c)'
      BY <1>1, <1>2, <2>2, SameReaders DEF NothingLeft
    <3> QED
      BY <1>2, <3>1, <3>2 DEF NothingLeft
  <2>11. JInv(w, L, c)'
    BY <1>1, <1>9, <2>3, <2>4, <2>6, <2>7, <2>9, <2>10 DEF JInv, ChainInv
  <2> QED
    BY <2>11
<1>13. CASE k # 0
  <2>0. k \in Nat /\ Len(c) \in Nat /\ k <= Len(c) /\ Len(synced) \in Nat /\ Len(synced) <= k
    BY <1>8
  <2>1. k \in 1..Len(c) /\ hdr[w].tail = c[k] /\ hdr[w].head = c[1] /\ hdr[w].head # 0
    <3>1. k \in 1..Len(c) /\ hdr[w].tail = c[k]
      BY <1>1, <1>2, <1>7, <1>8, <1>13 DEF WriterInv
    <3>2. Len(c) # 0
      BY <1>8, <1>13
    <3> QED
      BY <1>1, <1>10, <3>1, <3>2 DEF IsChain
  <2>2. PICK t : t = c[k]
    OBVIOUS
  <2>3. /\ t \in Of("array") /\ t \in 1..Len(objs) /\ t # 0 /\ t \notin L
        /\ objs[t] \in ArrayRecs /\ t < e
    <3>1. t \in Of("array") /\ t \notin L
      BY <1>1, <2>1, <2>2 DEF IsChain, ArrayOfEntry
    <3>2. t \in 1..Len(objs) /\ objs[t] \in ArrayRecs
      BY <1>1, <3>1, ObjectAt
    <3>3. t # 0
      BY <3>2
    <3>4. t < e
      BY <1>4, <1>5, <2>1, <2>2
    <3> QED
      BY <3>1, <3>2, <3>3, <3>4
  <2>4. PICK r : r = [objs[t] EXCEPT !.next = e]
    OBVIOUS
  <2>5. r \in Objects /\ r.type = "array" /\ r.next = e /\ r.slots = objs[t].slots
    <3>1. e \in Nat
      BY <1>6
    <3>2. r \in ArrayRecs /\ r.next = e /\ r.slots = objs[t].slots /\ r.type = "array"
      BY <2>3, <2>4, <3>1 DEF ArrayRecs
    <3> QED
      BY <3>2 DEF Objects
  <2>6. objs' = [objs EXCEPT ![t] = r]
    <3>1. hdr[w].tail \in DOMAIN objs /\ objs[hdr[w].tail].type = "array" /\ hdr[w].tail # 0
      BY <1>6, <2>1, <2>2, <2>3 DEF ArrayRecs
    <3>2. objs' = [objs EXCEPT ![hdr[w].tail].next = cur[w]]
      BY <3>1 DEF ChainArray
    <3> QED
      BY <1>5, <2>1, <2>2, <2>4, <3>2
  <2>7. /\ FileTypes' /\ Len(objs') = Len(objs) /\ objs'[t] = r /\ DOMAIN objs' = 1..Len(objs)
        /\ \A o \in 1..Len(objs) : o # t => objs'[o] = objs[o]
    BY <1>1, <2>3, <2>5, <2>6, Replaced DEF FileTypes
  <2>8. \A o \in 1..Len(objs) : objs'[o].type = objs[o].type
    BY <2>3, <2>5, <2>7 DEF ArrayRecs
  <2>9. \A y : Of(y)' = Of(y)
    BY <1>6, <2>7, <2>8 DEF Of
  <2>10. Of("array") \subseteq 1..Len(objs) /\ Of("data") \subseteq 1..Len(objs)
         /\ Of("entry") \subseteq 1..Len(objs) /\ \A o \in Of("data") \cup Of("entry") : o # t
    BY <1>6, <2>3 DEF Of
  <2>11. RefInv'
    BY <1>1, <1>2, <2>9 DEF RefInv
  <2>12. ForwardInv'
    <3> SUFFICES ASSUME NEW o \in Of("array")
                 PROVE  objs'[o].next = 0 \/ (objs'[o].next \in 1..Len(objs) /\ o < objs'[o].next)
      BY <2>7, <2>9 DEF ForwardInv
    <3>1. CASE o = t
      BY <1>6, <2>3, <2>5, <2>7, <3>1
    <3>2. CASE o # t
      BY <1>1, <1>6, <2>7, <2>10, <3>2 DEF ForwardInv
    <3> QED
      BY <3>1, <3>2
  <2>13. DataInv(L)'
    <3>1. \A o \in L : o \in Of("array") /\ objs'[o] = objs[o]
      BY <1>1, <2>3, <2>7, <2>10 DEF DataInv
    <3>2. \A o \in Of("data") : objs'[o] = objs[o]
      BY <2>7, <2>10
    <3> QED
      BY <1>1, <2>9, <3>1, <3>2 DEF DataInv
  <2>14. \A o, s : ArrayOfEntry(o, s) => ArrayOfEntry(o, s)'
    <3> SUFFICES ASSUME NEW o, NEW s, ArrayOfEntry(o, s) PROVE ArrayOfEntry(o, s)'
      OBVIOUS
    <3>1. objs'[o].slots = objs[o].slots
      BY <2>5, <2>7, <2>10 DEF ArrayOfEntry
    <3>2. objs'[objs[o].slots[1]] = objs[objs[o].slots[1]]
      BY <2>7, <2>10 DEF ArrayOfEntry
    <3> QED
      BY <2>9, <3>1, <3>2 DEF ArrayOfEntry
  <2>15. \A i \in 1..Len(c) : objs'[c[i]].slots = objs[c[i]].slots
    BY <1>1, <2>5, <2>7, <2>10 DEF IsChain, ArrayOfEntry
  <2>16. PICK b \in Seq(Nat) : Len(b) = k + 1 /\ b[k + 1] = e /\ \A i \in 1..k : b[i] = c[i]
    <3> DEFINE b0 == [i \in 1..(k + 1) |-> IF i <= k THEN c[i] ELSE e]
    <3>1. b0 \in Seq(Nat)
      <4>1. \A i \in 1..k : c[i] \in Nat
        BY <2>0
      <4>2. e \in Nat /\ k + 1 \in Nat
        BY <1>6, <2>0
      <4>3. \A i \in 1..(k + 1) : b0[i] \in Nat
        BY <2>0, <4>1, <4>2
      <4> QED
        BY <4>2, <4>3
    <3>2. Len(b0) = k + 1 /\ b0[k + 1] = e /\ \A i \in 1..k : b0[i] = c[i]
      BY <1>8
    <3> QED
      BY <3>1, <3>2
  <2>17. \A i \in 1..k : i \in 1..Len(c) /\ i \in 1..Len(b) /\ (i # k => c[i] # t)
    <3>1. \A i \in 1..k : i \in 1..Len(c) /\ i \in 1..Len(b)
      BY <2>0, <2>16
    <3>2. \A i \in 1..k : c[i] = c[k] => i = k
      BY <1>1, <2>1, <3>1, ChainIsInjective
    <3> QED
      BY <2>2, <3>1, <3>2
  <2>18. IsChain(b, Begin(w))'
    <3>1. Len(b) # 0 /\ b[1] = hdr[w].head /\ Begin(w)' # 0
      BY <1>8, <1>10, <1>13, <2>1, <2>16
    <3>2. ASSUME NEW i \in 1..Len(b)
          PROVE  /\ ArrayOfEntry(b[i], i)'
                 /\ objs'[b[i]].next = IF i = Len(b) THEN 0 ELSE b[i + 1]
      <4>0. i \in Nat /\ Len(b) = k + 1 /\ hdr[w].seq = k + 1
        <5>1. hdr[w].seq = k + 1
          BY <1>8
        <5> QED
          BY <2>0, <2>16, <5>1
      <4>1. CASE i = k + 1
        <5>1. b[i] = e /\ ArrayOfEntry(e, i)
          BY <1>4, <1>5, <2>16, <4>0, <4>1
        <5>2. objs'[e] = objs[e]
          BY <1>6, <2>3, <2>7
        <5> QED
          BY <1>4, <1>5, <2>14, <2>16, <4>1, <5>1, <5>2
      <4>2. CASE i = k
        <5>1. b[i] = t /\ ArrayOfEntry(t, i) /\ i # Len(b) /\ b[i + 1] = e
          <6>1. b[i] = t /\ ArrayOfEntry(t, i)
            BY <1>1, <2>1, <2>2, <2>16, <2>17, <4>2 DEF IsChain
          <6>2. i # Len(b) /\ i + 1 = k + 1
            BY <2>0, <4>0, <4>2
          <6> QED
            BY <2>16, <6>1, <6>2
        <5> QED
          BY <2>5, <2>7, <2>14, <5>1
      <4>3. CASE i \in 1..(k - 1)
        <5>1. i \in 1..k /\ i + 1 \in 1..k /\ i # Len(c) /\ i # Len(b)
          <6>1. i \in 1..k /\ i + 1 \in 1..k
            BY <2>0, <4>3
          <6>2. i # Len(c)
            BY <2>0, <4>3
          <6>3. i # Len(b)
            BY <2>0, <4>0, <4>3
          <6> QED
            BY <6>1, <6>2, <6>3
        <5>2. b[i] = c[i] /\ b[i + 1] = c[i + 1] /\ c[i] # t /\ i \in 1..Len(c)
          <6>1. b[i] = c[i] /\ b[i + 1] = c[i + 1]
            BY <2>16, <5>1
          <6>2. i # k
            BY <2>0, <4>3
          <6> QED
            BY <2>17, <5>1, <6>1, <6>2
        <5>3. ArrayOfEntry(c[i], i) /\ objs[c[i]].next = c[i + 1]
          BY <1>1, <5>1, <5>2 DEF IsChain
        <5>4. objs'[c[i]] = objs[c[i]]
          BY <2>7, <2>10, <5>2, <5>3 DEF ArrayOfEntry
        <5> QED
          BY <2>14, <5>1, <5>2, <5>3, <5>4
      <4> QED
        BY <2>0, <2>16, <4>1, <4>2, <4>3
    <3> QED
      BY <1>10, <3>1, <3>2 DEF IsChain
  <2>19. SyncInv(w, b)'
    <3>1. \A i \in 1..Len(synced) : b[i] = c[i] /\ i \in 1..Len(c)
      <4>1. \A i \in 1..Len(synced) : i \in 1..k
        BY <2>0
      <4> QED
        BY <2>16, <2>17, <4>1
    <3>0. SyncInv(w, c)
      BY <1>1
    <3>2. \A i \in 1..Len(synced) : synced[i] = objs'[b[i]].slots[1]
      <4>1. \A i \in 1..Len(synced) : synced[i] = objs[c[i]].slots[1]
        BY <3>0 DEF SyncInv
      <4> QED
        BY <2>15, <3>1, <4>1
    <3>3. Len(synced) > 0 => disk.tail = b[Len(synced)]
      <4>1. Len(synced) > 0 => disk.tail = c[Len(synced)] /\ Len(synced) \in 1..Len(synced)
        BY <2>0, <3>0 DEF SyncInv
      <4> QED
        BY <3>1, <4>1
    <3>4. Len(synced) <= Len(b)
      BY <2>0, <2>16
    <3>5. disk.seq = Len(synced) /\ (Len(synced) = 0 => disk.head = 0 /\ disk.tail = 0)
      BY <3>0 DEF SyncInv
    <3>6. Len(synced) > 0 => disk.head = hdr[w].head /\ disk.head # 0
      BY <1>10, <3>0 DEF SyncInv
    <3> QED
      BY <1>2, <1>10, <1>11, <3>2, <3>3, <3>4, <3>5, <3>6 DEF SyncInv
  <2>20. WriterInv(w, L, b)'
    <3>1. ArrayOfEntry(cur[w], hdr[w].seq)'
      BY <1>2, <1>4, <2>14 DEF ArrayOfEntry
    <3>2. objs'[cur[w]].next = 0
      <4>1. e # t
        BY <1>6, <2>3
      <4>2. objs'[e] = objs[e]
        BY <1>6, <2>7, <4>1
      <4> QED
        BY <1>4, <1>5, <4>2
    <3>3. b[k] = c[k]
      BY <2>0, <1>13, <2>16
    <3> QED
      <4>1. Len(b) = hdr[w].seq /\ b[Len(b)] = cur[w] /\ k <= Len(b)
        <5>1. hdr[w].seq = k + 1
          BY <1>8
        <5> QED
          BY <1>5, <2>0, <2>16, <5>1
      <4> QED
        BY <1>2, <1>3, <1>4, <1>11, <1>13, <2>0, <2>1, <3>1, <3>2, <3>3, <4>1 DEF WriterInv
  <2>21. NothingLeft(w, b)'
    <3>1. LengthInv(w, b)'
      BY <1>3 DEF LengthInv
    <3>2. ASSUME ~torn
          PROVE  \A r0 \in Readers : ReaderInv(rd[r0], b)'
      <4>1. Len(c) = k /\ \A r0 \in Readers : ReaderInv(rd[r0], c)
        BY <1>1, <1>2, <1>7, <3>2 DEF NothingLeft, LengthInv
      <4>2. Len(c) <= Len(b) /\ \A i \in 1..Len(c) : b[i] = c[i]
        BY <2>0, <2>16, <4>1
      <4> QED
        BY <1>2, <2>15, <4>1, <4>2, FrameKeepsReaders
    <3> QED
      BY <1>2, <3>1, <3>2 DEF NothingLeft
  <2>22. \A i \in 1..Len(b) : b[i] \notin L
    <3>1. \A i \in 1..Len(b) : i = k + 1 \/ i \in 1..k
      BY <2>0, <2>16
    <3> QED
      BY <1>1, <1>4, <1>5, <2>16, <2>17, <3>1
  <2>23. JInv(w, L, b)'
    BY <1>9, <2>7, <2>11, <2>12, <2>13, <2>18, <2>19, <2>20, <2>21, <2>22 DEF JInv, ChainInv
  <2> QED
    BY <2>23
<1> QED
  BY <1>12, <1>13

(* A file F that listing an entry may lead to.  An array at the end of it, if there  *)
(* is one, joins the arrays of data, which are M then.                             *)
Linked(F, L, M) ==
    /\ F \in Seq(Objects)
    /\ \A o \in 1..Len(objs) : F[o].type = objs[o].type
    /\ \A o \in Of("entry") \cup (Of("array") \ L) : F[o] = objs[o]
    /\ \A o \in Of("data") : F[o].array = objs[o].array \/ F[o].array \in M
    /\ \A o \in L : F[o].next = objs[o].next \/ (F[o].next = End /\ End \in M)
    /\ \/ M = L /\ Len(F) = Len(objs)
       \/ M = L \cup {End} /\ Len(F) = End /\ F[End].type = "array" /\ F[End].next = 0

(* Data of the file are written over by data with the same arrays, or one of M ...    *)
LEMMA LinkedData ==
    ASSUME FileTypes, NEW L \in SUBSET Nat, NEW M, NEW F, Linked(F, L, M),
           L \subseteq Of("array"), NEW d \in Of("data"), NEW r \in DataRecs,
           r.array = F[d].array \/ r.array \in M
    PROVE  Linked([F EXCEPT ![d] = r], L, M)
<1> DEFINE G == [F EXCEPT ![d] = r]
<1>1. Len(objs) \in Nat /\ \A t : \A o \in Of(t) : o \in 1..Len(objs) /\ objs[o].type = t
  BY DEF FileTypes, Of
<1>2. /\ F \in Seq(Objects) /\ Len(F) \in Nat /\ (Len(F) = Len(objs) \/ Len(F) = End)
      /\ End = Len(objs) + 1
  BY DEF Linked, End
<1>3. d \in 1..Len(F) /\ d # End /\ r \in Objects /\ r.type = "data"
  <2>1. d \in 1..Len(objs)
    BY <1>1
  <2>2. d \in 1..Len(F) /\ d # End
    BY <1>1, <1>2, <2>1
  <2>3. r \in Objects /\ r.type = "data"
    BY DEF Objects, DataRecs
  <2> QED
    BY <2>2, <2>3
<1>4. /\ G \in Seq(Objects) /\ Len(G) = Len(F) /\ G[d] = r
      /\ \A o \in 1..Len(F) : o # d => G[o] = F[o]
  BY <1>2, <1>3, Replaced
<1> HIDE DEF G
<1>5. \A o \in 1..Len(objs) : o \in 1..Len(F)
  BY <1>1, <1>2
<1>6. \A o \in 1..Len(objs) : G[o].type = objs[o].type
  BY <1>1, <1>3, <1>4, <1>5 DEF Linked
<1>7. \A o \in Of("entry") \cup (Of("array") \ L) : G[o] = objs[o]
  BY <1>1, <1>4, <1>5 DEF Linked
<1>8. \A o \in Of("data") : G[o].array = objs[o].array \/ G[o].array \in M
  BY <1>1, <1>4, <1>5 DEF Linked
<1>9. \A o \in L : G[o].next = objs[o].next \/ (G[o].next = End /\ End \in M)
  BY <1>1, <1>4, <1>5 DEF Linked
<1>10. Len(F) = End => G[End] = F[End]
  BY <1>1, <1>2, <1>3, <1>4
<1>11. Linked(G, L, M)
  BY <1>4, <1>6, <1>7, <1>8, <1>9, <1>10 DEF Linked
<1> QED
  BY <1>11 DEF G

(* ... and an array of L by one with the same link, or a link to the new array.      *)
LEMMA LinkedArray ==
    ASSUME FileTypes, NEW L \in SUBSET Nat, NEW M, NEW F, Linked(F, L, M),
           L \subseteq Of("array"), NEW a \in L, NEW r \in ArrayRecs,
           r.next = objs[a].next \/ (r.next = End /\ End \in M)
    PROVE  Linked([F EXCEPT ![a] = r], L, M)
<1> DEFINE G == [F EXCEPT ![a] = r]
<1>1. Len(objs) \in Nat /\ \A t : \A o \in Of(t) : o \in 1..Len(objs) /\ objs[o].type = t
  BY DEF FileTypes, Of
<1>2. /\ F \in Seq(Objects) /\ Len(F) \in Nat /\ (Len(F) = Len(objs) \/ Len(F) = End)
      /\ End = Len(objs) + 1
  BY DEF Linked, End
<1>3. a \in 1..Len(objs) /\ objs[a].type = "array"
  BY <1>1
<1>4. a \in 1..Len(F) /\ a # End
  BY <1>1, <1>2, <1>3
<1>5. r \in Objects /\ r.type = "array"
  BY DEF Objects, ArrayRecs
<1>6. /\ G \in Seq(Objects) /\ Len(G) = Len(F) /\ G[a] = r
      /\ \A o \in 1..Len(F) : o # a => G[o] = F[o]
  BY <1>2, <1>4, <1>5, Replaced
<1> HIDE DEF G
<1>7. \A o \in 1..Len(objs) : o \in 1..Len(F)
  BY <1>1, <1>2
<1>8. \A o \in 1..Len(objs) : G[o].type = objs[o].type
  BY <1>3, <1>5, <1>6, <1>7 DEF Linked
<1>9. \A o \in Of("entry") \cup (Of("array") \ L) : G[o] = objs[o]
  BY <1>1, <1>3, <1>6, <1>7 DEF Linked
<1>10. \A o \in Of("data") : G[o].array = objs[o].array \/ G[o].array \in M
  BY <1>1, <1>3, <1>6, <1>7 DEF Linked
<1>11. \A o \in L : G[o].next = objs[o].next \/ (G[o].next = End /\ End \in M)
  BY <1>1, <1>6, <1>7 DEF Linked
<1>12. Len(F) = End => G[End] = F[End]
  BY <1>1, <1>2, <1>4, <1>6
<1>13. Linked(G, L, M)
  BY <1>6, <1>8, <1>9, <1>10, <1>11, <1>12 DEF Linked
<1> QED
  BY <1>13 DEF G

(* linkDataToEntry leads to such a file: the data's first entry, a free slot of its   *)
(* last array, or a new array.                                                *)
LEMMA ListEntryLinks ==
    ASSUME FileTypes, ForwardInv, NEW L \in SUBSET Nat, DataInv(L),
           NEW d \in Of("data"), NEW e \in Nat
    PROVE  \E M \in SUBSET Nat : Linked(ListEntry(d, e), L, M)
<1> DEFINE a == IF objs[d].array = 0 THEN 0 ELSE LastArray(objs[d].array)
           x == CHOOSE i \in FreeSlot(a) : \A k \in FreeSlot(a) : i <= k
           more == Append(objs, ArrayObj(Slots(e)))
           filled == IF objs[d].first = 0 THEN [objs EXCEPT ![d].first = e]
                     ELSE IF a # 0 /\ FreeSlot(a) # {} THEN [objs EXCEPT ![a].slots[x] = e]
                     ELSE IF a = 0 THEN [more EXCEPT ![d].array = End]
                     ELSE [more EXCEPT ![a].next = End]
<1>1. ListEntry(d, e) = [filled EXCEPT ![d].n = @ + 1]
  BY DEF ListEntry
<1>2. /\ Len(objs) \in Nat /\ End = Len(objs) + 1 /\ DOMAIN objs = 1..Len(objs)
      /\ \A t : \A o \in Of(t) : o \in 1..Len(objs) /\ objs[o].type = t
  BY DEF FileTypes, Of, End
<1>3. d \in 1..Len(objs) /\ objs[d] \in DataRecs /\ objs[d].array \in Nat
  BY ObjectAt DEF DataRecs
<1>4. L \subseteq Of("array")
  BY DEF DataInv
<1>5. a # 0 => a \in L
  <2>1. CASE objs[d].array = 0
    BY <2>1
  <2>2. CASE objs[d].array # 0
    <3>1. objs[d].array \in L /\ \A o \in L : objs[o].next = 0 \/ objs[o].next \in L
      BY <2>2 DEF DataInv
    <3> QED
      BY <1>4, <2>2, <3>1, LastIsLast
  <2> QED
    BY <2>1, <2>2
<1>6. \A o \in L : o # 0 /\ o \in 1..Len(objs) /\ objs[o] \in ArrayRecs
  BY <1>4, ObjectAt
<1> HIDE DEF a, x
<1>7. Linked(objs, L, L)
  BY DEF Linked, FileTypes
<1>8. Linked(more, L, L \cup {End}) /\ \A o \in 1..Len(objs) : more[o] = objs[o]
  <2>1. PICK r : r = ArrayObj(Slots(e))
    OBVIOUS
  <2>2. r \in Objects /\ r.type = "array" /\ r.next = 0
    <3>1. Slots(e) \in Seq(Nat)
      BY JournalAssumption DEF Slots
    <3> QED
      BY <2>1, <3>1, NewObjects DEF ArrayObj
  <2>3. /\ Append(objs, r) \in Seq(Objects) /\ Len(Append(objs, r)) = End
        /\ Append(objs, r)[End] = r
        /\ \A o \in 1..Len(objs) : Append(objs, r)[o] = objs[o]
    BY <1>2, <2>2 DEF FileTypes
  <2>4. more = Append(objs, r)
    BY <2>1
  <2> HIDE DEF more
  <2> QED
    BY <1>2, <1>4, <2>2, <2>3, <2>4 DEF Linked
<1> HIDE DEF more
<1>9. \E M \in SUBSET Nat : Linked(filled, L, M)
  <2>1. L \in SUBSET Nat /\ L \cup {End} \in SUBSET Nat /\ End \in Nat
    BY <1>2
  <2>2. CASE objs[d].first = 0
    <3>1. PICK r : r = [objs[d] EXCEPT !.first = e]
      OBVIOUS
    <3>2. r \in DataRecs /\ r.array = objs[d].array
      BY <1>3, <3>1 DEF DataRecs
    <3>3. filled = [objs EXCEPT ![d] = r]
      BY <2>2, <3>1
    <3>4. Linked([objs EXCEPT ![d] = r], L, L)
      BY <1>4, <1>7, <3>2, LinkedData
    <3> QED
      BY <3>3, <3>4
  <2>3. CASE objs[d].first # 0 /\ a # 0 /\ FreeSlot(a) # {}
    <3>1. PICK r : r = [objs[a] EXCEPT !.slots = [objs[a].slots EXCEPT ![x] = e]]
      OBVIOUS
    <3>2. r \in ArrayRecs /\ r.next = objs[a].next
      <4>1. objs[a] \in ArrayRecs
        BY <1>5, <1>6, <2>3
      <4>2. [objs[a].slots EXCEPT ![x] = e] \in Seq(Nat)
        <5>1. \A s \in Seq(Nat) : [s EXCEPT ![x] = e] \in Seq(Nat)
          <6> SUFFICES ASSUME NEW s \in Seq(Nat) PROVE [s EXCEPT ![x] = e] \in Seq(Nat)
            OBVIOUS
          <6>1. s \in [1..Len(s) -> Nat] /\ Len(s) \in Nat
            OBVIOUS
          <6>2. [s EXCEPT ![x] = e] \in [1..Len(s) -> Nat]
            BY <6>1
          <6> QED
            BY <6>1, <6>2
        <5> QED
          BY <4>1, <5>1 DEF ArrayRecs
      <4> QED
        BY <3>1, <4>1, <4>2 DEF ArrayRecs
    <3>3. filled = [objs EXCEPT ![a] = r]
      BY <2>3, <3>1
    <3>4. Linked([objs EXCEPT ![a] = r], L, L)
      BY <1>4, <1>5, <1>7, <2>3, <3>2, LinkedArray
    <3> QED
      BY <3>3, <3>4
  <2>4. CASE objs[d].first # 0 /\ a = 0
    <3>1. PICK r : r = [objs[d] EXCEPT !.array = End]
      OBVIOUS
    <3>2. r \in DataRecs /\ r.array \in L \cup {End}
      BY <1>3, <2>1, <3>1 DEF DataRecs
    <3>3. filled = [more EXCEPT ![d] = r]
      BY <1>3, <1>8, <2>4, <3>1
    <3>4. Linked([more EXCEPT ![d] = r], L, L \cup {End})
      BY <1>4, <1>8, <3>2, LinkedData
    <3> QED
      BY <2>1, <3>3, <3>4
  <2>5. CASE objs[d].first # 0 /\ a # 0 /\ FreeSlot(a) = {}
    <3>1. PICK r : r = [objs[a] EXCEPT !.next = End]
      OBVIOUS
    <3>2. r \in ArrayRecs /\ r.next = End /\ End \in L \cup {End}
      BY <1>5, <1>6, <2>1, <2>5, <3>1 DEF ArrayRecs
    <3>3. filled = [more EXCEPT ![a] = r]
      BY <1>5, <1>6, <1>8, <2>5, <3>1
    <3>4. Linked([more EXCEPT ![a] = r], L, L \cup {End})
      BY <1>4, <1>5, <1>8, <2>5, <3>2, LinkedArray
    <3> QED
      BY <2>1, <3>3, <3>4
  <2> QED
    BY <2>2, <2>3, <2>4, <2>5
<1> HIDE DEF filled
<1>10. PICK M \in SUBSET Nat : Linked(filled, L, M)
  BY <1>9
<1>11. filled[d] \in DataRecs
  <2>1. filled \in Seq(Objects) /\ filled[d].type = "data" /\ d \in 1..Len(filled)
    BY <1>2, <1>3, <1>10 DEF Linked
  <2>2. filled[d] \in Objects
    BY <2>1
  <2> QED
    BY <2>1, <2>2, ObjectsByType
<1>12. PICK r : r = [filled[d] EXCEPT !.n = @ + 1]
  OBVIOUS
<1>13. r \in DataRecs /\ r.array = filled[d].array
  BY <1>11, <1>12 DEF DataRecs
<1>14. Linked([filled EXCEPT ![d] = r], L, M)
  BY <1>4, <1>10, <1>13, LinkedData
<1> QED
  BY <1>1, <1>12, <1>14

(* Listing the entry keeps the invariant, with the arrays of data that there are now. *)
LEMMA LinkDataKeeps ==
    ASSUME NEW w \in Writers, Writers = {w}, NEW L \in SUBSET Nat, NEW c \in Seq(Nat),
           JInv(w, L, c), NEW d \in items[w], LinkDataToEntry(w, d)
    PROVE  \E M \in SUBSET Nat : JInv(w, M, c)'
<1>1. /\ FileTypes /\ HeadTypes /\ MemTypes /\ RefInv /\ ForwardInv
      /\ DataInv(L) /\ IsChain(c, Begin(w)) /\ \A i \in 1..Len(c) : c[i] \notin L
      /\ SyncInv(w, c) /\ WriterInv(w, L, c) /\ NothingLeft(w, c)
  BY DEF JInv, ChainInv
<1>2. /\ UNCHANGED <<exists, disk, hash, wpc, hdr, cache, fcache, cur, dirty, rd, synced, torn>>
      /\ wpc[w] = "link" /\ objs' = ListEntry(d, cur[w])
      /\ items' = [items EXCEPT ![w] = @ \ {d}]
  BY DEF LinkDataToEntry, appendOnly, pastVars
<1>3. d \in Of("data") /\ cur[w] \in Nat
  BY <1>1 DEF RefInv, MemTypes
<1>4. PICK M \in SUBSET Nat : Linked(objs', L, M)
  BY <1>1, <1>2, <1>3, ListEntryLinks
<1>5. /\ FileTypes' /\ Len(objs) \in Nat /\ End = Len(objs) + 1 /\ DOMAIN objs = 1..Len(objs)
      /\ DOMAIN objs' = 1..Len(objs') /\ Len(objs) <= Len(objs')
      /\ \A t : \A o \in Of(t) : o \in 1..Len(objs) /\ objs[o].type = t
  BY <1>1, <1>4 DEF FileTypes, Linked, Of, End
<1>6. Frame(L)
  BY <1>4, <1>5 DEF Linked, Frame
<1>7. /\ \A t : t # "array" => Of(t)' = Of(t)
      /\ Of("array")' = Of("array") \cup (M \ L) /\ L \subseteq M
      /\ \A o \in M \ L : o = End /\ objs'[o].next = 0 /\ o \in 1..Len(objs')
  <2>1. \A o \in 1..Len(objs) : objs'[o].type = objs[o].type
    BY <1>4 DEF Linked
  <2>2. CASE M = L /\ Len(objs') = Len(objs)
    BY <1>5, <2>1, <2>2 DEF Of
  <2>3. CASE M = L \cup {End} /\ Len(objs') = End /\ objs'[End].type = "array" /\ objs'[End].next = 0
    <3>1. End \notin L /\ 1..Len(objs') = 1..Len(objs) \cup {End}
      BY <1>1, <1>5, <2>3 DEF DataInv
    <3>2. Of("array")' = Of("array") \cup {End} /\ \A t : t # "array" => Of(t)' = Of(t)
      BY <1>5, <2>1, <2>3, <3>1 DEF Of
    <3> QED
      BY <2>3, <3>1, <3>2
  <2> QED
    BY <1>4, <2>2, <2>3 DEF Linked
<1>8. HeadTypes' /\ MemTypes'
  BY <1>1, <1>2 DEF HeadTypes, MemTypes
<1>9. RefInv'
  BY <1>1, <1>2, <1>7 DEF RefInv, MemTypes
<1>10. DataInv(M)'
  <2>1. \A o \in M : o \in Of("array")'
    BY <1>1, <1>7 DEF DataInv
  <2>2. \A o \in M : objs'[o].next = 0 \/ objs'[o].next \in M
    BY <1>1, <1>4, <1>7 DEF DataInv, Linked
  <2>3. \A o \in Of("data")' : objs'[o].array = 0 \/ objs'[o].array \in M
    <3>1. Of("data")' = Of("data") /\ L \subseteq M
      BY <1>7
    <3>2. \A o \in Of("data") : objs'[o].array = objs[o].array \/ objs'[o].array \in M
      BY <1>4 DEF Linked
    <3>3. \A o \in Of("data") : objs[o].array = 0 \/ objs[o].array \in L
      BY <1>1 DEF DataInv
    <3> QED
      BY <3>1, <3>2, <3>3
  <2> QED
    BY <2>1, <2>2, <2>3 DEF DataInv
<1>11. ForwardInv'
  <2> SUFFICES ASSUME NEW o \in Of("array")'
               PROVE  objs'[o].next = 0 \/ (objs'[o].next \in DOMAIN objs' /\ o < objs'[o].next)
    BY DEF ForwardInv
  <2>1. CASE o \in M \ L
    BY <1>7, <2>1
  <2>2. CASE o \in L
    <3>1. o \in Of("array") /\ o \in 1..Len(objs)
      BY <1>1, <1>5, <2>2 DEF DataInv
    <3>2. objs'[o].next = objs[o].next \/ (objs'[o].next = End /\ End \in M)
      BY <1>4, <2>2 DEF Linked
    <3>3. End \in M => End \in DOMAIN objs'
      <4>1. End \notin L
        BY <1>1, <1>5 DEF DataInv
      <4> QED
        BY <1>5, <1>7, <4>1
    <3> QED
      BY <1>1, <1>5, <3>1, <3>2, <3>3 DEF ForwardInv
  <2>3. CASE o \in Of("array") \ L
    <3>1. objs'[o] = objs[o]
      BY <1>6, <2>3 DEF Frame
    <3> QED
      BY <1>1, <1>5, <2>3, <3>1 DEF ForwardInv
  <2> QED
    BY <1>7, <2>1, <2>2, <2>3
<1>12. UNCHANGED <<exists, disk, wpc, hdr, cur, dirty, rd, synced, torn>>
       /\ wpc[w] \in {"data", "link"}
  BY <1>2
<1>13. IsChain(c, Begin(w))'
  BY <1>5, <1>6, <1>12, ChainKept
<1>14. SyncInv(w, c)'
  BY <1>5, <1>6, <1>12, ChainKept
<1>15. WriterInv(w, M, c)'
  BY <1>5, <1>6, <1>12, ChainKept
<1>16. NothingLeft(w, c)'
  BY <1>5, <1>6, <1>12, ChainKept
<1>17. \A i \in 1..Len(c) : c[i] \notin M
  <2>1. \A i \in 1..Len(c) : c[i] \in 1..Len(objs)
    BY <1>1, <1>5 DEF IsChain, ArrayOfEntry
  <2> QED
    BY <1>1, <1>5, <1>7, <2>1
<1>18. JInv(w, M, c)'
  BY <1>5, <1>8, <1>9, <1>10, <1>11, <1>13, <1>14, <1>15, <1>16, <1>17 DEF JInv, ChainInv
<1> QED
  BY <1>18

-----------------------------------------------------------------------------
(* Readers.                                                                  *)

(* A step of a reader keeps the invariant if its new state does.                    *)
LEMMA ReaderStepKeeps ==
    ASSUME NEW w \in Writers, Writers = {w}, NEW L \in SUBSET Nat, NEW c \in Seq(Nat),
           JInv(w, L, c), NEW r \in Readers, NEW s, ReaderStep(r, s),
           ~torn => ReaderInv(s, c)
    PROVE  JInv(w, L, c)'
<1>1. /\ FileTypes /\ HeadTypes /\ MemTypes /\ RefInv /\ ForwardInv
      /\ DataInv(L) /\ IsChain(c, Begin(w)) /\ \A i \in 1..Len(c) : c[i] \notin L
      /\ SyncInv(w, c) /\ WriterInv(w, L, c) /\ NothingLeft(w, c)
  BY DEF JInv, ChainInv
<1>2. /\ rd' = [rd EXCEPT ![r] = s]
      /\ UNCHANGED <<exists, objs, disk, hash, wpc, hdr, cache, fcache, items, cur, dirty, synced, torn>>
  BY DEF ReaderStep, fileVars, memVars, pastVars
<1>3. FileTypes' /\ ForwardInv' /\ DataInv(L)' /\ \A t : Of(t)' = Of(t)
  BY <1>1, <1>2, SameObjects
<1>4. HeadTypes' /\ MemTypes'
  BY <1>1, <1>2 DEF HeadTypes, MemTypes
<1>5. RefInv'
  BY <1>1, <1>2, <1>3 DEF RefInv
<1>6. Begin(w)' = Begin(w) /\ Known(w)' = Known(w)
  BY <1>2 DEF Begin, Known
<1>7. IsChain(c, Begin(w))'
  BY <1>1, <1>2, <1>6 DEF IsChain, ArrayOfEntry, Of
<1>8. SyncInv(w, c)'
  BY <1>1, <1>2, <1>6 DEF SyncInv
<1>9. WriterInv(w, L, c)'
  BY <1>1, <1>2, <1>3, <1>6, SameObjects DEF WriterInv
<1>10. NothingLeft(w, c)'
  <2>1. ASSUME ~torn, NEW q \in Readers
        PROVE  ReaderInv(rd[q], c)'
    <3>1. rd'[q] = IF q = r THEN s ELSE rd[q]
      BY <1>1, <1>2 DEF MemTypes
    <3>2. ReaderInv(rd'[q], c)
      BY <1>1, <2>1, <3>1 DEF NothingLeft
    <3> QED
      BY <1>2, <3>2 DEF ReaderInv, AtPlace
  <2>2. torn \/ LengthInv(w, c)'
    BY <1>1, <1>2, <1>6 DEF NothingLeft, LengthInv
  <2> QED
    BY <1>2, <2>1, <2>2 DEF NothingLeft
<1> QED
  BY <1>1, <1>3, <1>4, <1>5, <1>7, <1>8, <1>9, <1>10 DEF JInv, ChainInv

(* OpenRead, Refresh and the seeks: the reader stays where it is, or goes to the      *)
(* beginning.                                                                *)
LEMMA OpenReadKeeps ==
    ASSUME NEW w \in Writers, Writers = {w}, NEW L \in SUBSET Nat, NEW c \in Seq(Nat),
           JInv(w, L, c), NEW r \in Readers, OpenRead(r)
    PROVE  JInv(w, L, c)'
<1>1. /\ FileTypes /\ HeadTypes /\ MemTypes /\ RefInv /\ ForwardInv
      /\ DataInv(L) /\ IsChain(c, Begin(w)) /\ \A i \in 1..Len(c) : c[i] \notin L
      /\ SyncInv(w, c) /\ WriterInv(w, L, c) /\ NothingLeft(w, c)
  BY DEF JInv, ChainInv
<1>2. PICK s : s = [NoReader EXCEPT !.open = TRUE, !.head = disk.head, !.seq = disk.seq]
  OBVIOUS
<1>3. disk \in Headers
  BY <1>1 DEF HeadTypes
<1>4. s \in ReaderRecs
  BY <1>2, <1>3 DEF NoReader, ReaderRecs, Headers
<1>5. ReaderInv(s, c)
  BY <1>2, <1>3, <1>4 DEF ReaderInv, NoReader, Headers
<1>6. ReaderStep(r, s)
  BY <1>2 DEF OpenRead
<1> QED
  BY <1>5, <1>6, ReaderStepKeeps

LEMMA RefreshKeeps ==
    ASSUME NEW w \in Writers, Writers = {w}, NEW L \in SUBSET Nat, NEW c \in Seq(Nat),
           JInv(w, L, c), NEW r \in Readers, Refresh(r)
    PROVE  JInv(w, L, c)'
<1>1. /\ FileTypes /\ HeadTypes /\ MemTypes /\ RefInv /\ ForwardInv
      /\ DataInv(L) /\ IsChain(c, Begin(w)) /\ \A i \in 1..Len(c) : c[i] \notin L
      /\ SyncInv(w, c) /\ WriterInv(w, L, c) /\ NothingLeft(w, c)
  BY DEF JInv, ChainInv
<1>2. PICK s : s = [rd[r] EXCEPT !.head = disk.head, !.seq = disk.seq, !.eof = FALSE]
  OBVIOUS
<1>3. ASSUME ~torn PROVE ReaderInv(rd[r], c) /\ disk \in Headers /\ rd[r] \in ReaderRecs
  BY <1>1, <1>3 DEF HeadTypes, NothingLeft, ReaderInv
<1>4. ~torn => s \in ReaderRecs
  BY <1>2, <1>3 DEF ReaderRecs, Headers
<1>5. ~torn =>
      /\ s.got = rd[r].got /\ s.cur = rd[r].cur /\ s.init = rd[r].init /\ s.arr = rd[r].arr
      /\ s.entry = rd[r].entry /\ s.next = rd[r].next /\ s.idx = rd[r].idx
      /\ s.seq = disk.seq /\ s.head = disk.head /\ ~s.eof /\ disk.seq \in Nat
  BY <1>2, <1>3 DEF ReaderRecs, Headers
<1>6. ASSUME ~torn PROVE ReaderInv(s, c)
  <2>1. ReaderInv(rd[r], c)
    BY <1>3, <1>6
  <2>2. AtPlace(rd[r], c) => AtPlace(s, c)
    BY <1>5, <1>6 DEF AtPlace
  <2> QED
    BY <1>4, <1>5, <1>6, <2>1, <2>2 DEF ReaderInv
<1>7. ReaderStep(r, s)
  BY <1>2 DEF Refresh
<1> QED
  BY <1>6, <1>7, ReaderStepKeeps

LEMMA SeekKeeps ==
    ASSUME NEW w \in Writers, Writers = {w}, NEW L \in SUBSET Nat, NEW c \in Seq(Nat),
           JInv(w, L, c), NEW r \in Readers, Seek(r)
    PROVE  JInv(w, L, c)'
<1>1. /\ FileTypes /\ HeadTypes /\ MemTypes /\ RefInv /\ ForwardInv
      /\ DataInv(L) /\ IsChain(c, Begin(w)) /\ \A i \in 1..Len(c) : c[i] \notin L
      /\ SyncInv(w, c) /\ WriterInv(w, L, c) /\ NothingLeft(w, c)
  BY DEF JInv, ChainInv
<1>2. PICK k \in {0, rd[r].cur} :
        ReaderStep(r, [rd[r] EXCEPT !.cur = k, !.got = k, !.arr = 0, !.entry = 0, !.idx = 0,
                                    !.next = 0, !.init = FALSE, !.eof = FALSE])
  BY DEF Seek
<1>3. PICK s : s = [rd[r] EXCEPT !.cur = k, !.got = k, !.arr = 0, !.entry = 0, !.idx = 0,
                                 !.next = 0, !.init = FALSE, !.eof = FALSE]
  OBVIOUS
<1>4. ~torn => ReaderInv(rd[r], c) /\ rd[r] \in ReaderRecs
  BY <1>1 DEF NothingLeft, ReaderInv
<1>5. ~torn => k \in Nat
  BY <1>2, <1>4 DEF ReaderRecs
<1>6. ~torn =>
      s \in ReaderRecs /\ s.arr = 0 /\ s.got = k /\ s.cur = k /\ s.seq = rd[r].seq
      /\ s.head = rd[r].head
  BY <1>3, <1>4, <1>5 DEF ReaderRecs
<1>7. ~torn => ReaderInv(s, c)
  BY <1>4, <1>6 DEF ReaderInv
<1>8. ReaderStep(r, s)
  BY <1>2, <1>3
<1> QED
  BY <1>7, <1>8, ReaderStepKeeps

(* A reader that loads the array of the i-th entry, with what comes before it read.   *)
LEMMA LoadAtPlace ==
    ASSUME FileTypes, NEW c \in Seq(Nat), NEW a, IsChain(c, a), NEW i \in 1..Len(c),
           NEW s \in ReaderRecs, NEW k \in {0, 1}, s.cur >= i - 1 + k
    PROVE  /\ [Load(s, c[i]) EXCEPT !.idx = k] \in ReaderRecs
           /\ AtPlace([Load(s, c[i]) EXCEPT !.idx = k], c)
<1>1. c[i] \in Of("array") /\ Len(objs[c[i]].slots) = 1 /\ objs[c[i]].slots[1] \in Of("entry")
  BY DEF IsChain, ArrayOfEntry
<1>2. /\ c[i] \in Nat /\ objs[c[i]] \in ArrayRecs
      /\ objs[c[i]].slots[1] \in Nat
  BY <1>1, ObjectAt
<1>3. objs[c[i]].next \in Nat
  BY <1>2 DEF ArrayRecs
<1>4. objs[c[i]].next = IF i = Len(c) THEN 0 ELSE c[i + 1]
  BY DEF IsChain
<1>5. PICK t : t = [Load(s, c[i]) EXCEPT !.idx = k]
  OBVIOUS
<1>6. /\ t \in ReaderRecs /\ t.arr = c[i] /\ t.entry = objs[c[i]].slots[1] /\ t.idx = k
      /\ t.next = objs[c[i]].next /\ t.cur = s.cur
  <2>1. PICK e : e = objs[c[i]].slots[1]
    OBVIOUS
  <2>2. PICK n : n = objs[c[i]].next
    OBVIOUS
  <2>3. e \in Nat /\ n \in Nat /\ k \in Nat
    BY <1>2, <1>3, <2>1, <2>2
  <2>4. t = [s EXCEPT !.arr = c[i], !.entry = e, !.next = n, !.idx = k]
    BY <1>5, <2>1, <2>2 DEF Load, ReaderRecs
  <2>5. /\ t \in ReaderRecs /\ t.arr = c[i] /\ t.entry = e /\ t.idx = k /\ t.next = n
        /\ t.cur = s.cur
    BY <1>2, <2>3, <2>4 DEF ReaderRecs
  <2> QED
    BY <2>1, <2>2, <2>5
<1>7. t.cur \in Nat /\ t.cur >= IF t.idx = 0 THEN i - 1 ELSE i
  <2>1. s.cur \in Nat
    BY DEF ReaderRecs
  <2>2. s.cur >= IF k = 0 THEN i - 1 ELSE i
    BY <2>1
  <2> QED
    BY <1>6, <2>1, <2>2
<1>8. i # Len(c) => i < Len(c)
  OBVIOUS
<1>9. AtPlace(t, c)
  BY <1>4, <1>6, <1>7, <1>8 DEF AtPlace
<1> QED
  BY <1>5, <1>6, <1>9

(* One turn of nextEntry.                                                       *)
LEMMA NextEntryKeeps ==
    ASSUME NEW w \in Writers, Writers = {w}, NEW L \in SUBSET Nat, NEW c \in Seq(Nat),
           JInv(w, L, c), NEW r \in Readers, NextEntry(r)
    PROVE  JInv(w, L, c)'
<1>1. /\ FileTypes /\ HeadTypes /\ MemTypes /\ RefInv /\ ForwardInv
      /\ DataInv(L) /\ IsChain(c, Begin(w)) /\ \A i \in 1..Len(c) : c[i] \notin L
      /\ SyncInv(w, c) /\ WriterInv(w, L, c) /\ NothingLeft(w, c)
  BY DEF JInv, ChainInv
<1> DEFINE s == rd[r]
           t == IF ~s.init THEN IF s.head = 0 THEN AtEOF([s EXCEPT !.init = TRUE])
                                ELSE Load([s EXCEPT !.init = TRUE], s.head)
                ELSE IF s.arr = 0 THEN AtEOF(s)
                ELSE IF s.idx = 0 THEN TakeEntry(s)
                ELSE IF s.next # 0 THEN Load(s, s.next)
                ELSE IF s.cur < s.seq /\ objs[s.arr].next # 0
                     THEN [Load(s, s.arr) EXCEPT !.idx = 1]
                ELSE AtEOF(s)
<1>2. ReaderStep(r, t) /\ ~s.eof
  BY DEF NextEntry
<1>3. ASSUME ~torn
      PROVE  ReaderInv(t, c)
  <2>1. ReaderInv(s, c) /\ s \in ReaderRecs
    BY <1>1, <1>3 DEF NothingLeft, ReaderInv
  <2>2. /\ s.cur \in Nat /\ s.seq \in Nat /\ s.idx \in Nat /\ s.next \in Nat /\ s.arr \in Nat
        /\ s.head \in Nat /\ Len(c) \in Nat /\ disk.seq \in Nat
    <3>1. disk.seq \in Nat
      BY <1>1 DEF HeadTypes, Headers
    <3>2. Len(c) \in Nat
      OBVIOUS
    <3> QED
      BY <2>1, <3>1, <3>2 DEF ReaderRecs
  <2>3. PICK a : a = Begin(w)
    OBVIOUS
  <2>4. IsChain(c, a)
    BY <1>1, <2>3
  <2> HIDE DEF s
  <2>5. \A i \in 1..Len(c), k \in {0, 1} : \A x \in ReaderRecs :
           /\ x.cur \in Nat /\ x.cur >= i - 1 + k /\ disk.head # 0 /\ x.init /\ ~x.eof
           /\ x.got = x.cur /\ x.seq <= disk.seq /\ x.head \in {0, disk.head}
           => ReaderInv([Load(x, c[i]) EXCEPT !.idx = k], c)
    <3> SUFFICES ASSUME NEW i \in 1..Len(c), NEW k \in {0, 1}, NEW x \in ReaderRecs,
                        x.cur \in Nat, x.cur >= i - 1 + k, disk.head # 0, x.init, ~x.eof,
                        x.got = x.cur, x.seq <= disk.seq, x.head \in {0, disk.head}
                 PROVE  ReaderInv([Load(x, c[i]) EXCEPT !.idx = k], c)
      OBVIOUS
    <3>1. PICK y : y = [Load(x, c[i]) EXCEPT !.idx = k]
      OBVIOUS
    <3>2. y \in ReaderRecs /\ AtPlace(y, c)
      BY <1>1, <2>4, <3>1, LoadAtPlace
    <3>3. y.got = x.got /\ y.cur = x.cur /\ y.seq = x.seq /\ y.head = x.head /\ y.init /\ ~y.eof
      BY <3>1 DEF Load, ReaderRecs
    <3>4. ReaderInv(y, c)
      BY <3>2, <3>3 DEF ReaderInv
    <3> QED
      BY <3>1, <3>4
  <2>6. \A x \in ReaderRecs : x = [x EXCEPT !.idx = x.idx]
    BY DEF ReaderRecs
  <2>7. CASE ~s.init
    <3>1. PICK x : x = [s EXCEPT !.init = TRUE]
      OBVIOUS
    <3>2. /\ x \in ReaderRecs /\ x.init /\ x.eof = s.eof /\ x.arr = s.arr /\ x.head = s.head
          /\ x.cur = s.cur /\ x.got = s.got /\ x.seq = s.seq
      BY <2>1, <3>1 DEF ReaderRecs
    <3>3. s.arr = 0
      BY <2>1, <2>7 DEF ReaderInv
    <3>4. CASE s.head = 0
      <4>1. t = AtEOF(x)
        BY <2>7, <3>1, <3>4
      <4>2. PICK y : y = AtEOF(x)
        OBVIOUS
      <4>3. /\ y \in ReaderRecs /\ y.arr = x.arr /\ y.head = x.head /\ y.cur = x.cur
            /\ y.got = x.got /\ y.seq = x.seq
        BY <3>2, <4>2 DEF AtEOF, ReaderRecs
      <4>4. ReaderInv(y, c)
        BY <2>1, <3>2, <3>3, <4>3 DEF ReaderInv
      <4> QED
        BY <4>1, <4>2, <4>4
    <3>5. CASE s.head # 0
      <4>1. s.head = disk.head /\ disk.head # 0
        BY <2>1, <3>5 DEF ReaderInv
      <4>2. Len(synced) # 0 /\ Len(synced) \in Nat
        BY <1>1, <4>1 DEF SyncInv, HeadTypes
      <4>3. disk.head = a
        BY <1>1, <2>3, <4>2 DEF SyncInv
      <4>4. 1 \in 1..Len(c) /\ c[1] = s.head
        BY <2>2, <2>4, <4>1, <4>3 DEF IsChain
      <4>5. t = Load(x, c[1])
        BY <2>7, <3>1, <3>5, <4>4
      <4>6. PICK y : y = Load(x, c[1])
        OBVIOUS
      <4>7. y = [y EXCEPT !.idx = 0]
        BY <3>2, <4>6 DEF Load, ReaderRecs
      <4>8. ReaderInv([Load(x, c[1]) EXCEPT !.idx = 0], c)
        <5>1. x.cur \in Nat /\ x.cur >= 1 - 1 + 0 /\ ~x.eof
          BY <1>2, <2>2, <3>2 DEF s
        <5>2. x.got = x.cur /\ x.seq <= disk.seq /\ x.head \in {0, disk.head}
          BY <2>1, <3>2 DEF ReaderInv
        <5> QED
          BY <2>5, <3>2, <4>1, <4>4, <5>1, <5>2
      <4> QED
        BY <4>5, <4>6, <4>7, <4>8
    <3> QED
      BY <3>4, <3>5
  <2>8. CASE s.init /\ s.arr = 0
    <3>1. t = AtEOF(s)
      BY <2>8
    <3>2. PICK y : y = AtEOF(s)
      OBVIOUS
    <3>3. /\ y \in ReaderRecs /\ y.arr = 0 /\ y.head = s.head /\ y.cur = s.cur
          /\ y.got = s.got /\ y.seq = s.seq
      BY <2>1, <2>8, <3>2 DEF AtEOF, ReaderRecs
    <3>4. ReaderInv(y, c)
      BY <2>1, <3>3 DEF ReaderInv
    <3> QED
      BY <3>1, <3>2, <3>4
  <2>9. CASE s.init /\ s.arr # 0
    <3>1. disk.head # 0 /\ AtPlace(s, c)
      BY <2>1, <2>9 DEF ReaderInv
    <3>2. PICK i \in 1..Len(c) :
             /\ s.arr = c[i] /\ s.entry = objs[c[i]].slots[1]
             /\ s.next = 0 \/ (i < Len(c) /\ s.next = c[i + 1])
             /\ s.cur >= IF s.idx = 0 THEN i - 1 ELSE i
      BY <3>1 DEF AtPlace
    <3>3. ~s.eof /\ s.got = s.cur /\ s.seq <= disk.seq /\ s.head \in {0, disk.head}
      BY <1>2, <2>1 DEF ReaderInv, s
    <3>4. CASE s.idx = 0
      <4>1. t = TakeEntry(s)
        BY <2>9, <3>4
      <4>2. objs[s.entry].seq = i
        BY <2>4, <3>2 DEF IsChain, ArrayOfEntry
      <4>3. PICK y : y = IF i <= s.cur THEN [s EXCEPT !.idx = 1]
                         ELSE [s EXCEPT !.idx = 1, !.cur = i, !.got = s.got + 1]
        OBVIOUS
      <4>4. t = y
        BY <4>1, <4>2, <4>3 DEF TakeEntry
      <4>5. i \in Nat /\ s.cur >= i - 1
        BY <3>2, <3>4
      <4>6. CASE i <= s.cur
        <5>1. /\ y \in ReaderRecs /\ y.arr = s.arr /\ y.head = s.head /\ y.cur = s.cur
              /\ y.got = s.got /\ y.seq = s.seq /\ y.idx = 1 /\ y.init = s.init
              /\ y.entry = s.entry /\ y.next = s.next /\ y.eof = s.eof
          BY <2>1, <4>3, <4>6 DEF ReaderRecs
        <5>2. AtPlace(y, c)
          BY <3>2, <4>5, <4>6, <5>1 DEF AtPlace
        <5> QED
          BY <2>9, <3>1, <3>3, <4>4, <5>1, <5>2 DEF ReaderInv
      <4>7. CASE ~(i <= s.cur)
        <5>1. s.cur = i - 1 /\ s.got + 1 = i
          <6>1. s.cur = i - 1
            <7>1. s.cur \in Nat
              BY <2>2
            <7> QED
              BY <4>5, <4>7, <7>1
          <6>2. s.got = i - 1
            BY <3>3, <6>1
          <6> QED
            BY <4>5, <6>1, <6>2
        <5>2. /\ y \in ReaderRecs /\ y.arr = s.arr /\ y.head = s.head /\ y.cur = i
              /\ y.got = i /\ y.seq = s.seq /\ y.idx = 1 /\ y.init = s.init
              /\ y.entry = s.entry /\ y.next = s.next /\ y.eof = s.eof
          BY <2>1, <4>3, <4>5, <4>7, <5>1 DEF ReaderRecs
        <5>3. AtPlace(y, c)
          BY <3>2, <4>5, <5>2 DEF AtPlace
        <5> QED
          BY <2>9, <3>1, <3>3, <4>4, <5>2, <5>3 DEF ReaderInv
      <4> QED
        BY <4>6, <4>7
    <3>5. CASE s.idx # 0 /\ s.next # 0
      <4>1. t = Load(s, s.next)
        BY <2>9, <3>5
      <4>2. i + 1 \in 1..Len(c) /\ s.next = c[i + 1] /\ s.cur >= (i + 1) - 1 + 0
        BY <2>2, <3>2, <3>5
      <4>3. PICK y : y = Load(s, c[i + 1])
        OBVIOUS
      <4>4. y = [y EXCEPT !.idx = 0]
        BY <2>1, <4>3 DEF Load, ReaderRecs
      <4>5. ReaderInv([Load(s, c[i + 1]) EXCEPT !.idx = 0], c)
        BY <2>1, <2>2, <2>5, <2>9, <3>1, <3>3, <4>2
      <4> QED
        BY <4>1, <4>2, <4>3, <4>4, <4>5
    <3>6. CASE s.idx # 0 /\ s.next = 0 /\ s.cur < s.seq /\ objs[s.arr].next # 0
      <4>1. t = [Load(s, c[i]) EXCEPT !.idx = 1]
        BY <2>9, <3>2, <3>6
      <4>2. s.cur >= i - 1 + 1
        BY <2>2, <3>2, <3>6
      <4> QED
        <5>1. s.cur \in Nat /\ 1 \in {0, 1} /\ s.init
          BY <2>2, <2>9
        <5>2. ReaderInv([Load(s, c[i]) EXCEPT !.idx = 1], c)
          BY <2>1, <2>5, <3>1, <3>3, <4>2, <5>1
        <5> QED
          BY <4>1, <5>2
    <3>7. CASE s.idx # 0 /\ s.next = 0 /\ ~(s.cur < s.seq /\ objs[s.arr].next # 0)
      <4>1. t = AtEOF(s)
        BY <2>9, <3>7
      <4>2. PICK y : y = AtEOF(s)
        OBVIOUS
      <4>3. /\ y \in ReaderRecs /\ y.arr = s.arr /\ y.head = s.head /\ y.cur = s.cur
            /\ y.got = s.got /\ y.seq = s.seq /\ y.idx = s.idx /\ y.init = s.init
            /\ y.entry = s.entry /\ y.next = s.next
        BY <2>1, <4>2 DEF AtEOF, ReaderRecs
      <4>4. AtPlace(y, c)
        BY <3>1, <4>3 DEF AtPlace
      <4>5. s.cur >= s.seq
        <5> SUFFICES ASSUME s.cur < s.seq PROVE FALSE
          BY <2>2
        <5>1. objs[c[i]].next = 0
          BY <3>2, <3>7
        <5>2. disk.seq <= Len(c)
          BY <1>1 DEF SyncInv
        <5>3. i < Len(c) /\ i + 1 \in 1..Len(c)
          <6>1. i \in Nat /\ s.cur \in Nat /\ s.seq \in Nat /\ Len(c) \in Nat /\ disk.seq \in Nat
            BY <2>2
          <6>2. s.cur >= i /\ s.seq <= disk.seq
            BY <3>2, <3>3, <3>7
          <6>3. i < Len(c)
            BY <5>2, <6>1, <6>2
          <6> QED
            BY <6>1, <6>3
        <5>4. objs[c[i]].next = c[i + 1]
          BY <2>4, <5>3 DEF IsChain
        <5>5. c[i + 1] \in Of("array")
          BY <2>4, <5>3 DEF IsChain, ArrayOfEntry
        <5>6. c[i + 1] # 0
          BY <1>1, <5>5, ObjectAt
        <5> QED
          BY <5>1, <5>4, <5>6
      <4>6. ReaderInv(y, c)
        BY <2>9, <3>1, <3>3, <4>3, <4>4, <4>5 DEF ReaderInv
      <4> QED
        BY <4>1, <4>2, <4>6
    <3> QED
      BY <3>4, <3>5, <3>6, <3>7
  <2> QED
    BY <2>7, <2>8, <2>9
<1> QED
  BY <1>2, <1>3, ReaderStepKeeps

-----------------------------------------------------------------------------
(* Theorems.                                                                 *)

(* The empty file has the invariant.                                           *)
LEMMA JInitHolds ==
    ASSUME JInit
    PROVE  JournalInv
<1> SUFFICES ASSUME NEW w \in Writers
             PROVE  \E L \in SUBSET Nat, c \in Seq(Nat) : JInv(w, L, c)
  BY DEF JournalInv
<1>0. <<>> \in Seq(Nat) /\ <<>> \in Seq(Objects)
  OBVIOUS
<1>1. PICK c \in Seq(Nat) : c = <<>>
  BY <1>0
<1>2. Len(c) = 0 /\ Len(synced) = 0 /\ \A t : Of(t) = {}
  BY <1>1 DEF JInit, Of
<1>3. FileTypes /\ HeadTypes /\ MemTypes
  <2>1. EmptyHeader \in Headers
    BY DEF EmptyHeader, Headers
  <2>2. FileTypes /\ HeadTypes
    BY <1>0, <2>1 DEF JInit, FileTypes, HeadTypes
  <2>3. MemTypes
    BY <2>1 DEF JInit, MemTypes, WriterPCs
  <2> QED
    BY <2>2, <2>3
<1>4. RefInv /\ ForwardInv /\ DataInv({})
  BY <1>2 DEF JInit, RefInv, ForwardInv, DataInv
<1>5. Begin(w) = 0 /\ wpc[w] = "closed" /\ disk.head = 0 /\ disk.tail = 0 /\ disk.seq = 0
  BY DEF JInit, Begin, EmptyHeader
<1>6. IsChain(c, Begin(w)) /\ SyncInv(w, c) /\ WriterInv(w, {}, c)
  BY <1>2, <1>5 DEF IsChain, SyncInv, WriterInv
<1>7. NothingLeft(w, c)
  <2>1. LengthInv(w, c)
    BY <1>2, <1>5 DEF LengthInv
  <2>2. \A r \in Readers : ReaderInv(rd[r], c)
    BY <1>5 DEF JInit, NoReader, ReaderInv, ReaderRecs
  <2> QED
    BY <2>1, <2>2 DEF NothingLeft
<1>8. JInv(w, {}, c)
  BY <1>2, <1>3, <1>4, <1>6, <1>7 DEF JInv, ChainInv
<1> QED
  BY <1>8

(* A step that changes nothing keeps it.                                        *)
LEMMA StutterKeeps ==
    ASSUME NEW w \in Writers, NEW L \in SUBSET Nat, NEW c \in Seq(Nat), JInv(w, L, c),
           UNCHANGED jfVars
    PROVE  JInv(w, L, c)'
<1>1. UNCHANGED <<exists, objs, disk, hash, wpc, hdr, cache, fcache, items, cur, dirty, rd,
                  synced, torn>>
  BY DEF jfVars, fileVars, memVars, pastVars
<1>2. FileTypes' = FileTypes /\ HeadTypes' = HeadTypes /\ MemTypes' = MemTypes
      /\ RefInv' = RefInv /\ ForwardInv' = ForwardInv
  BY <1>1 DEF FileTypes, HeadTypes, MemTypes, RefInv, ForwardInv, Of
<1>3. DataInv(L)' = DataInv(L) /\ IsChain(c, Begin(w))' = IsChain(c, Begin(w))
  BY <1>1 DEF DataInv, IsChain, ArrayOfEntry, Of, Begin
<1>4. SyncInv(w, c)' = SyncInv(w, c)
  BY <1>1 DEF SyncInv, Begin
<1>5. WriterInv(w, L, c)' = WriterInv(w, L, c)
  BY <1>1 DEF WriterInv, Known, ArrayOfEntry, Of
<1>6. NothingLeft(w, c)' = NothingLeft(w, c)
  BY <1>1 DEF NothingLeft, LengthInv, Known, ReaderInv, AtPlace
<1> QED
  BY <1>2, <1>3, <1>4, <1>5, <1>6 DEF JInv, ChainInv

(* Every step of a file that one writer writes keeps the invariant.                 *)
LEMMA StepKeeps ==
    ASSUME OneWriter, Fits, JournalInv, [JNext]_jfVars
    PROVE  JournalInv'
<1>1. PICK w \in Writers : Writers = {w}
  BY DEF OneWriter
<1>2. PICK L \in SUBSET Nat, c \in Seq(Nat) : JInv(w, L, c)
  BY <1>1 DEF JournalInv
<1>3. \E M \in SUBSET Nat, b \in Seq(Nat) : JInv(w, M, b)'
  <2>1. CASE UNCHANGED jfVars
    BY <1>2, <2>1, StutterKeeps
  <2>2. CASE Create(w)
    BY <1>1, <1>2, <2>2, CreateKeeps
  <2>3. CASE OpenAppend(w)
    BY <1>1, <1>2, <2>3, OpenAppendKeeps
  <2>4. CASE Sync(w)
    BY <1>1, <1>2, <2>4, SyncKeeps
  <2>5. CASE CloseWriter(w)
    BY <1>1, <1>2, <2>5, CloseWriterKeeps
  <2>6. CASE Crash(w)
    BY <1>1, <1>2, <2>6, CrashKeeps
  <2>7. ASSUME NEW D \in SUBSET Data, AppendEntry(w, D)
        PROVE  \E M \in SUBSET Nat, b \in Seq(Nat) : JInv(w, M, b)'
    BY <1>1, <1>2, <2>7, AppendEntryKeeps
  <2>8. ASSUME NEW d \in Data, CachedData(w, d)
        PROVE  \E M \in SUBSET Nat, b \in Seq(Nat) : JInv(w, M, b)'
    BY <1>1, <1>2, <2>8, CachedDataKeeps
  <2>9. ASSUME NEW d \in Data, EnsureField(w, d)
        PROVE  \E M \in SUBSET Nat, b \in Seq(Nat) : JInv(w, M, b)'
    BY <1>1, <1>2, <2>9, EnsureFieldKeeps
  <2>10. ASSUME NEW d \in Data, AppendData(w, d)
         PROVE  \E M \in SUBSET Nat, b \in Seq(Nat) : JInv(w, M, b)'
    BY <1>1, <1>2, <2>10, AppendDataKeeps
  <2>11. ASSUME NEW d \in items[w], LinkDataToEntry(w, d)
         PROVE  \E M \in SUBSET Nat, b \in Seq(Nat) : JInv(w, M, b)'
    BY <1>1, <1>2, <2>11, LinkDataKeeps
  <2>12. CASE WriteEntry(w)
    BY <1>1, <1>2, <2>12, WriteEntryKeeps
  <2>13. CASE WriteArray(w)
    BY <1>1, <1>2, <2>13, WriteArrayKeeps
  <2>14. CASE ChainArray(w)
    BY <1>1, <1>2, <2>14, ChainArrayKeeps
  <2>15. CASE UpdateHeader(w)
    BY <1>1, <1>2, <2>15, UpdateHeaderKeeps
  <2>16. ASSUME NEW r \in Readers, OpenRead(r) \/ Refresh(r) \/ NextEntry(r) \/ Seek(r)
         PROVE  \E M \in SUBSET Nat, b \in Seq(Nat) : JInv(w, M, b)'
    <3>1. CASE OpenRead(r)
      BY <1>1, <1>2, <3>1, OpenReadKeeps
    <3>2. CASE Refresh(r)
      BY <1>1, <1>2, <3>2, RefreshKeeps
    <3>3. CASE NextEntry(r)
      BY <1>1, <1>2, <3>3, NextEntryKeeps
    <3>4. CASE Seek(r)
      BY <1>1, <1>2, <3>4, SeekKeeps
    <3> QED
      BY <2>16, <3>1, <3>2, <3>3, <3>4
  <2>17. JNext => \/ Writer(w)
                  \/ \E r \in Readers : OpenRead(r) \/ Refresh(r) \/ NextEntry(r) \/ Seek(r)
    BY <1>1 DEF JNext
  <2> QED
    BY <2>1, <2>2, <2>3, <2>4, <2>5, <2>6, <2>7, <2>8, <2>9, <2>10, <2>11, <2>12, <2>13, <2>14,
       <2>15, <2>16, <2>17 DEF Writer
<1> QED
  BY <1>1, <1>3 DEF JournalInv

-----------------------------------------------------------------------------
(* The file never gets shorter.                                               *)

IsSeq(s) == \E S : s \in Seq(S)

LEMMA WrittenOver ==
    ASSUME NEW o, IsSeq(o), NEW x, NEW r
    PROVE  IsSeq([o EXCEPT ![x] = r]) /\ Len([o EXCEPT ![x] = r]) = Len(o)
<1>1. PICK S : o \in Seq(S)
  BY DEF IsSeq
<1>2. o \in [1..Len(o) -> S] /\ Len(o) \in Nat
  BY <1>1
<1>3. [o EXCEPT ![x] = r] \in [1..Len(o) -> S \cup {r}]
  BY <1>2
<1>4. [o EXCEPT ![x] = r] \in Seq(S \cup {r}) /\ Len([o EXCEPT ![x] = r]) = Len(o)
  BY <1>2, <1>3
<1> QED
  BY <1>4 DEF IsSeq

LEMMA WrittenAfter ==
    ASSUME NEW o, IsSeq(o), NEW r
    PROVE  IsSeq(Append(o, r)) /\ Len(o) <= Len(Append(o, r))
<1>1. PICK S : o \in Seq(S)
  BY DEF IsSeq
<1>2. o \in Seq(S \cup {r}) /\ Len(o) \in Nat
  BY <1>1
<1>3. Append(o, r) \in Seq(S \cup {r}) /\ Len(Append(o, r)) = Len(o) + 1
  BY <1>2
<1> QED
  BY <1>2, <1>3 DEF IsSeq

LEMMA ListEntryGrows ==
    ASSUME IsSeq(objs), NEW d, NEW e
    PROVE  IsSeq(ListEntry(d, e)) /\ Len(objs) <= Len(ListEntry(d, e))
<1> DEFINE a == IF objs[d].array = 0 THEN 0 ELSE LastArray(objs[d].array)
           x == CHOOSE i \in FreeSlot(a) : \A k \in FreeSlot(a) : i <= k
           more == Append(objs, ArrayObj(Slots(e)))
           r1 == [objs[d] EXCEPT !.first = e]
           r2 == [objs[a] EXCEPT !.slots = [objs[a].slots EXCEPT ![x] = e]]
           r3 == [more[d] EXCEPT !.array = End]
           r4 == [more[a] EXCEPT !.next = End]
           filled == IF objs[d].first = 0 THEN [objs EXCEPT ![d] = r1]
                     ELSE IF a # 0 /\ FreeSlot(a) # {} THEN [objs EXCEPT ![a] = r2]
                     ELSE IF a = 0 THEN [more EXCEPT ![d] = r3]
                     ELSE [more EXCEPT ![a] = r4]
           r5 == [filled[d] EXCEPT !.n = filled[d].n + 1]
<1>1. ListEntry(d, e) = [filled EXCEPT ![d] = r5]
  BY DEF ListEntry
<1> HIDE DEF a, x, r1, r2, r3, r4, r5
<1>2. IsSeq(more) /\ Len(objs) <= Len(more) /\ Len(objs) <= Len(objs)
  <2>1. Len(objs) \in Nat
    BY DEF IsSeq
  <2> QED
    BY <2>1, WrittenAfter
<1> HIDE DEF more
<1>3. IsSeq(filled) /\ Len(objs) <= Len(filled)
  BY <1>2, WrittenOver
<1> HIDE DEF filled
<1>4. IsSeq([filled EXCEPT ![d] = r5]) /\ Len([filled EXCEPT ![d] = r5]) = Len(filled)
  BY <1>3, WrittenOver
<1> QED
  BY <1>1, <1>3, <1>4

LEMMA StepGrows ==
    ASSUME IsSeq(objs), [JNext]_jfVars
    PROVE  IsSeq(objs)' /\ Len(objs) <= Len(objs)'
<1> USE DEF appendOnly, fileVars, memVars, pastVars
<1>1. Len(objs) \in Nat
  BY DEF IsSeq
<1>2. CASE UNCHANGED objs
  <2>1. IsSeq(objs)'
    BY <1>2
  <2> QED
    BY <1>1, <1>2, <2>1
<1>3. ASSUME NEW r, objs' = Append(objs, r) PROVE IsSeq(objs)' /\ Len(objs) <= Len(objs)'
  <2>1. IsSeq(Append(objs, r)) /\ Len(objs) <= Len(Append(objs, r))
    BY WrittenAfter
  <2> QED
    BY <1>3, <2>1
<1>4. ASSUME NEW w, NEW d, EnsureField(w, d) PROVE IsSeq(objs)' /\ Len(objs) <= Len(objs)'
  BY <1>3, <1>4 DEF EnsureField
<1>5. ASSUME NEW w, NEW d, AppendData(w, d) PROVE IsSeq(objs)' /\ Len(objs) <= Len(objs)'
  <2>1. PICK f : f = fcache[w][FieldOf[d]]
    OBVIOUS
  <2>2. PICK o1 : o1 = Append(objs, DataObj(d, objs[f].headData))
    OBVIOUS
  <2>3. PICK o2 : o2 = [o1 EXCEPT ![f].headData = End]
    OBVIOUS
  <2>4. objs' = IF hash.tail = 0 THEN o2 ELSE [o2 EXCEPT ![hash.tail].nextHash = End]
    BY <1>5, <2>1, <2>2, <2>3 DEF AppendData
  <2>5. IsSeq(o1) /\ Len(objs) <= Len(o1)
    BY <2>2, WrittenAfter
  <2>6. PICK r : r = [o1[f] EXCEPT !.headData = End]
    OBVIOUS
  <2>7. IsSeq(o2) /\ Len(o2) = Len(o1)
    <3>1. o2 = [o1 EXCEPT ![f] = r]
      BY <2>3, <2>6
    <3> QED
      BY <2>5, <3>1, WrittenOver
  <2>8. PICK s : s = [o2[hash.tail] EXCEPT !.nextHash = End]
    OBVIOUS
  <2>9. PICK o3 : o3 = [o2 EXCEPT ![hash.tail] = s]
    OBVIOUS
  <2>10. IsSeq(o3) /\ Len(o3) = Len(o2)
    BY <2>7, <2>9, WrittenOver
  <2>11. objs' = o2 \/ objs' = o3
    BY <2>4, <2>8, <2>9
  <2>12. IsSeq(objs')
    BY <2>7, <2>10, <2>11
  <2> QED
    BY <2>5, <2>7, <2>10, <2>11, <2>12
<1>6. ASSUME NEW w, WriteEntry(w) \/ WriteArray(w)
      PROVE  IsSeq(objs)' /\ Len(objs) <= Len(objs)'
  BY <1>3, <1>6 DEF WriteEntry, WriteArray
<1>7. ASSUME NEW w, NEW d, LinkDataToEntry(w, d) PROVE IsSeq(objs)' /\ Len(objs) <= Len(objs)'
  <2>1. PICK F : F = ListEntry(d, cur[w])
    OBVIOUS
  <2>2. IsSeq(F) /\ Len(objs) <= Len(F)
    BY <2>1, ListEntryGrows
  <2>3. objs' = F
    BY <1>7, <2>1 DEF LinkDataToEntry
  <2> QED
    BY <2>2, <2>3
<1>8. ASSUME NEW w, ChainArray(w) PROVE IsSeq(objs)' /\ Len(objs) <= Len(objs)'
  <2>1. PICK r : r = [objs[hdr[w].tail] EXCEPT !.next = cur[w]]
    OBVIOUS
  <2>2. PICK F : F = [objs EXCEPT ![hdr[w].tail] = r]
    OBVIOUS
  <2>3. IsSeq(F) /\ Len(F) = Len(objs)
    BY <2>2, WrittenOver
  <2>4. UNCHANGED objs \/ objs' = F
    BY <1>8, <2>1, <2>2 DEF ChainArray
  <2>5. CASE objs' = F
    BY <1>1, <2>3, <2>5
  <2> QED
    BY <1>2, <2>4, <2>5
<1>9. ASSUME NEW w, \/ Create(w) \/ OpenAppend(w) \/ Sync(w) \/ CloseWriter(w) \/ Crash(w)
                     \/ UpdateHeader(w) \/ \E D : AppendEntry(w, D) \/ \E d : CachedData(w, d)
      PROVE  UNCHANGED objs
  BY <1>9 DEF Create, OpenAppend, OpenWriter, Sync, CloseWriter, Crash, UpdateHeader,
              AppendEntry, CachedData
<1>10. ASSUME NEW r, OpenRead(r) \/ Refresh(r) \/ NextEntry(r) \/ Seek(r) PROVE UNCHANGED objs
  BY <1>10 DEF OpenRead, Refresh, NextEntry, Seek, ReaderStep
<1>11. UNCHANGED jfVars => UNCHANGED objs
  BY DEF jfVars
<1> QED
  BY <1>2, <1>4, <1>5, <1>6, <1>7, <1>8, <1>9, <1>10, <1>11 DEF JNext, Writer

(* A file that fits did fit.                                                  *)
LEMMA FitsBefore ==
    ASSUME IsSeq(objs), [JNext]_jfVars
    PROVE  IsSeq(objs)' /\ (Fits' => Fits)
<1>1. IsSeq(objs)' /\ Len(objs) <= Len(objs)'
  BY StepGrows
<1>2. Len(objs) \in Nat /\ Len(objs)' \in Nat /\ OffsetMod \in Nat
  BY <1>1, JournalAssumption DEF IsSeq
<1> QED
  BY <1>1, <1>2 DEF Fits

(* The inductive invariant of a file that one writer writes and that stays within the  *)
(* range of TailEntryArrayOffset.                                               *)
THEOREM JournalInvariant ==
    ASSUME OneWriter
    PROVE  JSpec => [](Fits => JournalInv)
<1>1. JInit => IsSeq(objs) /\ JournalInv
  <2>1. JInit => IsSeq(objs)
    <3>1. <<>> \in Seq({})
      OBVIOUS
    <3> QED
      BY <3>1 DEF JInit, IsSeq
  <2> QED
    BY <2>1, JInitHolds
<1>2. IsSeq(objs) /\ (Fits => JournalInv) /\ [JNext]_jfVars
        => IsSeq(objs)' /\ (Fits => JournalInv)'
  <2> SUFFICES ASSUME IsSeq(objs), Fits => JournalInv, [JNext]_jfVars
               PROVE  IsSeq(objs)' /\ (Fits' => JournalInv')
    OBVIOUS
  <2> QED
    BY FitsBefore, StepKeeps
<1> QED
  BY <1>1, <1>2, PTL DEF JSpec

(* Entries that a Sync brought to the file stay readable from the file's header, in     *)
(* their order: AppendEntry, a crash between any two of its writes and OpenAppend's       *)
(* overwriting of what was left over do not touch them.                            *)
THEOREM SyncedEntriesSurviveHolds ==
    ASSUME OneWriter
    PROVE  JSpec => [](Fits => SyncedEntriesSurvive)
<1>1. JournalInv => SyncedEntriesSurvive
  <2> SUFFICES ASSUME JournalInv PROVE SyncedEntriesSurvive
    OBVIOUS
  <2>1. PICK w \in Writers, L \in SUBSET Nat, c \in Seq(Nat) : JInv(w, L, c)
    BY DEF OneWriter, JournalInv
  <2>2. FileTypes /\ ForwardInv /\ HeadTypes /\ IsChain(c, Begin(w)) /\ SyncInv(w, c)
    BY <2>1 DEF JInv, ChainInv
  <2>3. Len(synced) \in Nat /\ Len(c) \in Nat /\ synced = [i \in 1..Len(synced) |-> synced[i]]
    BY <2>2 DEF HeadTypes
  <2>4. CASE Len(synced) = 0
    <3>1. disk.head = 0 /\ disk.seq = 0
      BY <2>2, <2>4 DEF SyncInv
    <3>2. Walk(disk.head) = <<>>
      BY <2>2, <3>1, WalkStep
    <3>3. synced = <<>>
      BY <2>2, <2>4 DEF HeadTypes
    <3>4. SubSeq(<<>>, 1, 0) = <<>> /\ Len(<<>>) = 0
      OBVIOUS
    <3> QED
      BY <2>4, <3>1, <3>2, <3>3, <3>4 DEF SyncedEntriesSurvive
  <2>5. CASE Len(synced) > 0
    <3>1. disk.head = Begin(w) /\ disk.seq = Len(synced) /\ Len(synced) <= Len(c)
      BY <2>2, <2>5 DEF SyncInv
    <3>2. Walk(disk.head) = [i \in 1..Len(c) |-> objs[c[i]].slots[1]]
      BY <2>2, <3>1, WalkOfChain
    <3>3. PICK now : now = Walk(disk.head)
      OBVIOUS
    <3>4. \A i \in 1..Len(c) : objs[c[i]].slots[1] \in Nat
      <4>1. \A i \in 1..Len(c) : objs[c[i]].slots[1] \in Of("entry")
        BY <2>2 DEF IsChain, ArrayOfEntry
      <4> QED
        BY <2>2, <4>1, ObjectAt
    <3>5. now \in Seq(Nat) /\ Len(now) = Len(c)
      BY <2>3, <3>2, <3>3, <3>4
    <3>6. \A i \in 1..Len(synced) : now[i] = synced[i]
      BY <2>2, <2>3, <3>1, <3>2, <3>3 DEF SyncInv
    <3>7. SubSeq(now, 1, Len(synced)) = [i \in 1..Len(synced) |-> now[i]]
      BY <2>3, <3>1, <3>5
    <3>8. SubSeq(now, 1, Len(synced)) = synced
      BY <2>3, <3>6, <3>7
    <3> QED
      BY <3>1, <3>3, <3>5, <3>8 DEF SyncedEntriesSurvive
  <2> QED
    BY <2>3, <2>4, <2>5
<1> QED
  BY <1>1, JournalInvariant, PTL

(* A reader gets the entries one after the other, and when Next says EOF it has all       *)
(* that the header it read knows of, as long as no writer died and left entries over.     *)
THEOREM ReaderMissesNothingHolds ==
    ASSUME OneWriter
    PROVE  JSpec => [](Fits => ReaderMissesNothing)
<1>1. JournalInv => ReaderMissesNothing
  <2> SUFFICES ASSUME JournalInv PROVE ReaderMissesNothing
    OBVIOUS
  <2>1. PICK w \in Writers, L \in SUBSET Nat, c \in Seq(Nat) : JInv(w, L, c)
    BY DEF OneWriter, JournalInv
  <2>2. ~torn => \A r \in Readers : ReaderInv(rd[r], c)
    BY <2>1 DEF JInv, ChainInv, NothingLeft
  <2> QED
    BY <2>2 DEF ReaderInv, ReaderMissesNothing
<1> QED
  BY <1>1, JournalInvariant, PTL

-----------------------------------------------------------------------------
(* The index: in a file that its first writer still writes, the hash table finds     *)
(* every data object, and each lists its entries.                                *)

Entries(s) == {s[i] : i \in DOMAIN s} \ {0}

(* The entries that a walk from a finds.                                       *)
Found(a) == Entries(Walk(a))

(* The hash chain goes through all data objects, in the order of the file.          *)
HashInv ==
    /\ Of("data") = {} => hash.head = 0 /\ hash.tail = 0
    /\ Of("data") # {} => hash.head \in Of("data") /\ hash.tail \in Of("data")
                          /\ objs[hash.tail].nextHash = 0
    /\ \A o \in Of("data") : hash.head <= o /\ o <= hash.tail
    /\ \A o \in Of("data") : o # hash.tail =>
        /\ objs[o].nextHash \in Of("data") /\ o < objs[o].nextHash
        /\ \A p \in Of("data") : p <= o \/ objs[o].nextHash <= p

(* The writer remembers every data object, so it writes none a second time.         *)
CacheInv(w) ==
    /\ \A d \in DOMAIN cache[w] : objs[cache[w][d]].data = d
    /\ \A o \in Of("data") :
        objs[o].data \in DOMAIN cache[w] /\ cache[w][objs[o].data] = o

(* Every array of a data object has one owner: own[a], or 0.                       *)
OwnInv(own) ==
    /\ own \in [Nat -> Nat]
    /\ \A o \in Of("data") : objs[o].array = 0 \/ own[objs[o].array] = o
    /\ \A a \in Nat : own[a] # 0 =>
        /\ a \in Of("array") /\ Len(objs[a].slots) = ArrayCap
        /\ objs[a].next = 0 \/ own[objs[a].next] = own[a]

(* The arrays that ChainArray links belong to no data object.                      *)
TailInv(w, own) ==
    /\ own[hdr[w].tail] = 0
    /\ wpc[w] \in {"chain", "header"} => own[cur[w]] = 0

(* The data of entries are in the file, and each is in an entry or will be in the      *)
(* one being written.                                                        *)
ItemInv(w) ==
    /\ \A e \in Of("entry") : objs[e].items \subseteq Of("data")
    /\ wpc[w] = "link" => items[w] \subseteq objs[cur[w]].items
    /\ \A o \in Of("data") : \/ \E e \in Of("entry") : o \in objs[e].items
                             \/ wpc[w] = "data" /\ o \in items[w]

(* The entries that have data object o, but for the one still to be linked to it.     *)
Having(w, o) ==
    {e \in Of("entry") : o \in objs[e].items
                           /\ ~(wpc[w] = "link" /\ e = cur[w] /\ o \in items[w])}
ListInv(w) ==
    \A o \in Of("data") : Listed(o) = Having(w, o) /\ objs[o].n = Cardinality(Having(w, o))

Index(w, own) ==
    HashInv /\ CacheInv(w) /\ OwnInv(own) /\ TailInv(w, own) /\ ItemInv(w) /\ ListInv(w)
IndexInv ==
    \A w \in Writers :
        /\ ~exists => objs = <<>> /\ hash.head = 0 /\ hash.tail = 0
        /\ ~reopened /\ wpc[w] # "closed" => \E own : Index(w, own)

(* What JournalInv says of the writer, without the chain of the entries.            *)
Facts(w) ==
    /\ FileTypes /\ HeadTypes /\ MemTypes /\ RefInv /\ ForwardInv
    /\ ~exists => wpc[w] = "closed"
    /\ wpc[w] = "link" => cur[w] \in Of("entry")
    /\ wpc[w] \in {"chain", "header"} => cur[w] \in Of("array")
    /\ wpc[w] # "closed" => hdr[w].tail = 0 \/ hdr[w].tail \in Of("array")

LEMMA FactsHold == JournalInv => \A w \in Writers : Facts(w)
<1> SUFFICES ASSUME JournalInv, NEW w \in Writers PROVE Facts(w)
  OBVIOUS
<1>1. PICK L \in SUBSET Nat, c \in Seq(Nat) : JInv(w, L, c)
  BY DEF JournalInv
<1>2. /\ FileTypes /\ HeadTypes /\ MemTypes /\ RefInv /\ ForwardInv
      /\ IsChain(c, Begin(w)) /\ SyncInv(w, c) /\ WriterInv(w, L, c)
  BY <1>1 DEF JInv, ChainInv
<1>3. wpc[w] # "closed" => hdr[w].tail = 0 \/ hdr[w].tail \in Of("array")
  <2> SUFFICES ASSUME wpc[w] # "closed", Known(w) # 0 PROVE c[Known(w)] \in Of("array")
    BY <1>2 DEF WriterInv
  <2>1. Known(w) \in 1..Len(c)
    <3>1. hdr[w].seq \in Nat /\ Len(synced) \in Nat
      BY <1>2 DEF MemTypes, Headers, HeadTypes
    <3>2. Known(w) \in Int /\ Len(synced) <= Known(w) /\ Known(w) <= Len(c)
      BY <1>2, <3>1 DEF WriterInv, Known
    <3> QED
      BY <3>1, <3>2
  <2> QED
    BY <1>2, <2>1 DEF IsChain, ArrayOfEntry
<1>4. wpc[w] \in {"chain", "header"} => cur[w] \in Of("array")
  BY <1>2 DEF WriterInv, ArrayOfEntry
<1>5. wpc[w] = "link" => cur[w] \in Of("entry")
  BY <1>2 DEF WriterInv
<1>6. ~exists => wpc[w] = "closed"
  BY <1>2 DEF SyncInv
<1> QED
  BY <1>2, <1>3, <1>4, <1>5, <1>6 DEF Facts

-----------------------------------------------------------------------------
(* Walks and lists.                                                          *)

LEMMA EntriesOfJoin ==
    ASSUME NEW s \in Seq(Nat), NEW t \in Seq(Nat)
    PROVE  Entries(s \o t) = Entries(s) \cup Entries(t)
<1>1. /\ Len(s \o t) = Len(s) + Len(t) /\ s \o t \in Seq(Nat)
      /\ Len(s) \in Nat /\ Len(t) \in Nat
      /\ \A i \in 1..(Len(s) + Len(t)) :
            (s \o t)[i] = IF i <= Len(s) THEN s[i] ELSE t[i - Len(s)]
  OBVIOUS
<1>2. PICK u : u = s \o t
  OBVIOUS
<1>3. DOMAIN u = 1..(Len(s) + Len(t)) /\ DOMAIN s = 1..Len(s) /\ DOMAIN t = 1..Len(t)
  BY <1>1, <1>2
<1>4. \A i \in DOMAIN u : u[i] \in {s[k] : k \in DOMAIN s} \cup {t[k] : k \in DOMAIN t}
  <2> SUFFICES ASSUME NEW i \in DOMAIN u
               PROVE  u[i] \in {s[k] : k \in DOMAIN s} \cup {t[k] : k \in DOMAIN t}
    OBVIOUS
  <2>1. CASE i <= Len(s)
    BY <1>1, <1>2, <1>3, <2>1
  <2>2. CASE i > Len(s)
    <3>1. i - Len(s) \in DOMAIN t /\ u[i] = t[i - Len(s)]
      BY <1>1, <1>2, <1>3, <2>2
    <3> QED
      BY <3>1
  <2> QED
    BY <1>1, <1>3, <2>1, <2>2
<1>5. \A k \in DOMAIN s : k \in DOMAIN u /\ u[k] = s[k]
  BY <1>1, <1>2, <1>3
<1>6. \A k \in DOMAIN t : k + Len(s) \in DOMAIN u /\ u[k + Len(s)] = t[k]
  BY <1>1, <1>2, <1>3
<1>7. {u[i] : i \in DOMAIN u} = {s[k] : k \in DOMAIN s} \cup {t[k] : k \in DOMAIN t}
  BY <1>4, <1>5, <1>6
<1>8. Entries(u) = Entries(s) \cup Entries(t)
  <2>1. \A A, B, C : A = B \cup C => A \ {0} = (B \ {0}) \cup (C \ {0})
    OBVIOUS
  <2> QED
    BY <1>7, <2>1, Zenon DEF Entries
<1> QED
  BY <1>2, <1>8

(* A walk finds the entries of its array and what the walk from the next one finds.    *)
FoundEq ==
    /\ Found(0) = {}
    /\ \A a \in Of("array"), b \in Nat :
        objs[a].next = b => Found(a) = Entries(objs[a].slots) \cup Found(b)

LEMMA FoundStep == FileTypes /\ ForwardInv => FoundEq
<1> SUFFICES ASSUME FileTypes, ForwardInv PROVE FoundEq
  OBVIOUS
<1> DEFINE n == Len(objs)
           T == {a \in Of("array") : Walk(a) \notin Seq(Nat)}
<1>1. n \in Nat /\ DOMAIN objs = 1..n /\ Of("array") \subseteq 1..n
  BY DEF FileTypes, Of
<1>2. \A a \in Of("array") :
        /\ objs[a].slots \in Seq(Nat) /\ Walk(a) = objs[a].slots \o Walk(objs[a].next)
        /\ objs[a].next = 0 \/ (objs[a].next \in 1..n /\ a < objs[a].next)
  BY <1>1, ObjectAt, WalkStep DEF ForwardInv, ArrayRecs
<1>3. Walk(0) = <<>> /\ \A a \in 1..n : a \notin Of("array") => Walk(a) = <<>>
  BY <1>1, WalkStep
<1>4. T = {}
  <2> SUFFICES ASSUME T # {} PROVE FALSE
    OBVIOUS
  <2>1. PICK a \in T : \A x \in T : a >= x
    <3>1. T \in SUBSET (0..n)
      BY <1>1
    <3> HIDE DEF T, n
    <3> QED
      BY <1>1, <3>1, GreatestExists, Zenon
  <2>2. a \in Of("array") /\ Walk(a) \notin Seq(Nat)
    OBVIOUS
  <2>3. Walk(objs[a].next) \in Seq(Nat)
    <3>1. CASE objs[a].next \in Of("array")
      <4>1. objs[a].next \in 1..n /\ a \in 1..n /\ a < objs[a].next
        <5>1. 0 \notin Of("array")
          BY <1>1
        <5> QED
          BY <1>1, <1>2, <2>2, <3>1, <5>1
      <4>2. objs[a].next \notin T
        <5> HIDE DEF T
        <5> QED
          BY <1>1, <2>1, <4>1
      <4> QED
        BY <3>1, <4>2
    <3>2. CASE objs[a].next \notin Of("array")
      <4>1. <<>> \in Seq(Nat)
        OBVIOUS
      <4> QED
        BY <1>2, <1>3, <2>2, <3>2, <4>1
    <3> QED
      BY <3>1, <3>2
  <2>4. \A s, t \in Seq(Nat) : s \o t \in Seq(Nat)
    OBVIOUS
  <2> HIDE DEF T
  <2> QED
    BY <1>2, <2>2, <2>3, <2>4
<1>5. \A a \in Of("array") : Walk(objs[a].next) \in Seq(Nat)
  <2>1. <<>> \in Seq(Nat)
    OBVIOUS
  <2> QED
    BY <1>2, <1>3, <1>4, <2>1
<1>6. \A a \in Of("array") : Found(a) = Entries(objs[a].slots) \cup Found(objs[a].next)
  BY <1>2, <1>5, EntriesOfJoin DEF Found
<1>7. Found(0) = {}
  BY <1>3 DEF Found, Entries
<1> QED
  BY <1>6, <1>7 DEF FoundEq

(* Arrays that link only among themselves and do not change find what they found.      *)
LEMMA FoundKept ==
    ASSUME FoundEq, FoundEq', Len(objs) \in Nat, ForwardInv, FileTypes,
           NEW K \in SUBSET Of("array"), K \subseteq Of("array")',
           \A a \in K : objs[a].next = 0 \/ objs[a].next \in K,
           \A a \in K : objs'[a].slots = objs[a].slots /\ objs'[a].next = objs[a].next
    PROVE  \A a \in K : Found(a)' = Found(a)
<1> DEFINE T == {a \in K : Found(a)' # Found(a)}
<1>1. DOMAIN objs = 1..Len(objs) /\ K \subseteq 1..Len(objs) /\ Len(objs) \in Nat
  BY DEF FileTypes, Of
<1> SUFFICES ASSUME T # {} PROVE FALSE
  OBVIOUS
<1>2. PICK a \in T : \A x \in T : a >= x
  <2>1. T \in SUBSET (0..Len(objs))
    <3>1. \A k \in K : k \in 0..Len(objs)
      BY <1>1
    <3> QED
      BY <3>1, Zenon
  <2> HIDE DEF T
  <2> QED
    BY <2>1, GreatestExists, Zenon
<1>3. a \in K /\ a \in Of("array") /\ a \in Of("array")' /\ Found(a)' # Found(a)
  OBVIOUS
<1>4. PICK b : b = objs[a].next
  OBVIOUS
<1>5. b \in Nat /\ (b # 0 => b \in K /\ a < b)
  BY <1>3, <1>4, ObjectAt DEF ForwardInv, ArrayRecs
<1>6. Found(b)' = Found(b)
  <2>1. CASE b = 0
    BY <2>1 DEF FoundEq
  <2>2. CASE b # 0
    <3>1. b \notin T
      <4>1. b > a /\ a \in Nat
        BY <1>1, <1>3, <1>5, <2>2
      <4> HIDE DEF T
      <4> QED
        BY <1>2, <1>5, <4>1
    <3> QED
      BY <1>5, <2>2, <3>1
  <2> QED
    BY <2>1, <2>2
<1>7. objs'[a].slots = objs[a].slots /\ objs'[a].next = b
  BY <1>3, <1>4
<1>8. Found(a) = Entries(objs[a].slots) \cup Found(b)
  BY <1>3, <1>4, <1>5 DEF FoundEq
<1>9. Found(a)' = Entries(objs'[a].slots) \cup Found(b)'
  BY <1>3, <1>5, <1>7 DEF FoundEq
<1> QED
  BY <1>3, <1>6, <1>7, <1>8, <1>9

(* If the last array of a chain finds e in addition, the arrays before it do.         *)
LEMMA FoundMore ==
    ASSUME FoundEq, FoundEq', ForwardInv, FileTypes,
           NEW K, K \subseteq Of("array"), K \subseteq Of("array")',
           \A a \in K : objs[a].next = 0 \/ objs[a].next \in K,
           NEW l \in K, NEW e, Found(l)' = Found(l) \cup {e},
           \A a \in K \ {l} : objs'[a].slots = objs[a].slots /\ objs'[a].next = objs[a].next
    PROVE  \A a \in K : LastArray(a) = l => Found(a)' = Found(a) \cup {e}
<1> DEFINE T == {a \in K : LastArray(a) = l /\ Found(a)' # Found(a) \cup {e}}
<1>1. DOMAIN objs = 1..Len(objs) /\ K \subseteq 1..Len(objs) /\ Len(objs) \in Nat
  BY DEF FileTypes, Of
<1> SUFFICES ASSUME T # {} PROVE FALSE
  OBVIOUS
<1>2. PICK a \in T : \A x \in T : a >= x
  <2>1. T \in SUBSET (0..Len(objs))
    <3>1. \A k \in K : k \in 0..Len(objs)
      BY <1>1
    <3> QED
      BY <3>1, Zenon
  <2> HIDE DEF T
  <2> QED
    BY <1>1, <2>1, GreatestExists, Zenon
<1>3. /\ a \in K /\ a \in Of("array") /\ a \in Of("array")' /\ LastArray(a) = l
      /\ Found(a)' # Found(a) \cup {e}
  OBVIOUS
<1>4. a # l
  BY <1>3
<1>5. LastArray(a) = IF objs[a].next = 0 THEN a ELSE LastArray(objs[a].next)
  BY <1>3, LastStep
<1>6. PICK b : b = objs[a].next
  OBVIOUS
<1>7. b \in Nat /\ b \in K /\ a < b /\ LastArray(b) = l
  BY <1>3, <1>4, <1>5, <1>6, ObjectAt DEF ForwardInv, ArrayRecs
<1>8. Found(b)' = Found(b) \cup {e}
  <2>1. b \notin T
    <3>1. b > a /\ a \in Nat
      BY <1>1, <1>3, <1>7
    <3> HIDE DEF T
    <3> QED
      BY <1>2, <1>7, <3>1
  <2> QED
    BY <1>7, <2>1
<1>9. objs'[a].slots = objs[a].slots /\ objs'[a].next = b
  BY <1>3, <1>4, <1>6
<1>10. Found(a) = Entries(objs[a].slots) \cup Found(b)
  BY <1>3, <1>6, <1>7 DEF FoundEq
<1>11. Found(a)' = Entries(objs'[a].slots) \cup Found(b)'
  BY <1>3, <1>7, <1>9 DEF FoundEq
<1> QED
  BY <1>3, <1>8, <1>9, <1>10, <1>11

(* What a data object lists is its first entry and what its arrays have.             *)
ListedEq ==
    \A o, b : objs[o].array = b => Listed(o) = ({objs[o].first} \ {0}) \cup Found(b)

LEMMA ListedIsFound == ListedEq
<1> SUFFICES ASSUME NEW o, NEW b, objs[o].array = b
             PROVE  Listed(o) = ({objs[o].first} \ {0}) \cup Found(b)
  BY DEF ListedEq
<1>1. PICK W : W = Walk(objs[o].array)
  OBVIOUS
<1>2. Listed(o) = ({objs[o].first} \cup {W[i] : i \in DOMAIN W}) \ {0}
  BY <1>1 DEF Listed
<1>3. Found(b) = {W[i] : i \in DOMAIN W} \ {0}
  BY <1>1 DEF Found, Entries
<1> QED
  BY <1>2, <1>3

LEMMA ListedIsFoundNext == ListedEq'
BY ListedIsFound, PTL

(* The arrays that an object owns, and that they stay its own.                        *)
Owned(own, o) == {a \in Nat : own[a] = o}

LEMMA OwnedChain ==
    ASSUME FileTypes, NEW own, OwnInv(own), NEW o, o # 0
    PROVE  /\ Owned(own, o) \in SUBSET Of("array")
           /\ \A a \in Owned(own, o) : objs[a].next = 0 \/ objs[a].next \in Owned(own, o)
<1>1. \A a \in Of("array") : objs[a].next \in Nat
  BY ObjectAt DEF ArrayRecs
<1> QED
  BY <1>1 DEF Owned, OwnInv

(* A data object whose arrays stay what they are lists what it listed.               *)
LEMMA ListedKept ==
    ASSUME FoundEq, FoundEq', FileTypes, ForwardInv, NEW own, OwnInv(own), NEW o \in Of("data"),
           \A a \in Owned(own, o) : /\ a \in Of("array")'
                                    /\ objs'[a].slots = objs[a].slots
                                    /\ objs'[a].next = objs[a].next,
           objs'[o].first = objs[o].first, objs'[o].array = objs[o].array
    PROVE  Listed(o)' = Listed(o)
<1>1. o # 0 /\ objs[o].array \in Nat /\ Len(objs) \in Nat
  BY ObjectAt DEF FileTypes, DataRecs
<1>2. objs[o].array = 0 \/ objs[o].array \in Owned(own, o)
  BY <1>1 DEF OwnInv, Owned
<1>3. \A a \in Owned(own, o) : Found(a)' = Found(a)
  <2>1. Owned(own, o) \subseteq Of("array")'
    OBVIOUS
  <2> QED
    BY <1>1, <2>1, OwnedChain, FoundKept
<1>4. PICK b : b = objs[o].array
  OBVIOUS
<1>5. Found(b)' = Found(b)
  BY <1>2, <1>3, <1>4 DEF FoundEq
<1>6. Listed(o) = ({objs[o].first} \ {0}) \cup Found(b)
  BY <1>4, ListedIsFound DEF ListedEq
<1>7. Listed(o)' = ({objs'[o].first} \ {0}) \cup Found(b)'
  BY <1>4, ListedIsFoundNext DEF ListedEq
<1> QED
  BY <1>5, <1>6, <1>7

(* Links of the hash chain lead forward, so a lookup ends, with the first object of     *)
(* the chain that has the data.                                                *)
LEMMA LookupStep ==
    ASSUME FileTypes, HashInv, NEW d
    PROVE  \E L : /\ Lookup(d) = L[hash.head] /\ L[0] = 0
                  /\ \A o \in Of("data") : L[o] = IF objs[o].data = d THEN o ELSE L[objs[o].nextHash]
<1> DEFINE n == Len(objs)
           Miss(o) == o = 0 \/ objs[o].type # "data"
           Hit(o) == objs[o].data = d
           nx(o) == objs[o].nextHash
           Sol(F, k) == F = [o \in {0} \cup k..n |->
                             IF Miss(o) THEN 0 ELSE IF Hit(o) THEN o ELSE F[nx(o)]]
           Solved(k) == \E F : Sol(F, k)
           K == {k \in 1..(n + 1) : Solved(k)}
<1>1. n \in Nat /\ DOMAIN objs = 1..n
  BY DEF FileTypes
<1>2. \A o \in 1..n : ~Miss(o) => nx(o) = 0 \/ (nx(o) \in 1..n /\ o < nx(o))
  BY <1>1 DEF HashInv, Of
<1>3. Solved(n + 1)
  <2>1. Sol([o \in {0} \cup (n + 1)..n |-> 0], n + 1)
    <3>1. Miss(0)
      OBVIOUS
    <3>2. {0} \cup (n + 1)..n = {0}
      BY <1>1
    <3> HIDE DEF Miss, Hit, nx
    <3> QED
      BY <3>1, <3>2
  <2> QED
    BY <2>1
<1>4. ASSUME NEW k \in 2..(n + 1), Solved(k)
      PROVE  Solved(k - 1)
  <2>0. \A o \in 1..n : o # 0
    BY <1>1
  <2> HIDE DEF Miss, Hit, nx, n
  <2>1. PICK F : Sol(F, k)
    BY <1>4
  <2> DEFINE j == k - 1
             G == [o \in {0} \cup j..n |->
                    IF o = j THEN IF Miss(j) THEN 0 ELSE IF Hit(j) THEN j ELSE F[nx(j)]
                    ELSE F[o]]
  <2>2. j \in 1..n /\ {0} \cup j..n = ({0} \cup k..n) \cup {j} /\ j \notin {0} \cup k..n
    BY <1>1
  <2>3. \A o \in {0} \cup k..n : G[o] = F[o]
    BY <2>2
  <2>4. \A o \in 1..n : ~Miss(o) /\ (o = j \/ o \in k..n) => nx(o) \in {0} \cup k..n
    BY <1>1, <1>2, <2>2
  <2>5. \A o \in {0} \cup k..n :
          F[o] = IF Miss(o) THEN 0 ELSE IF Hit(o) THEN o ELSE F[nx(o)]
    BY <2>1, Zenon
  <2>6. ASSUME NEW o \in {0} \cup j..n
        PROVE  G[o] = IF Miss(o) THEN 0 ELSE IF Hit(o) THEN o ELSE G[nx(o)]
    <3>1. CASE o = j
      <4>1. G[o] = IF Miss(j) THEN 0 ELSE IF Hit(j) THEN j ELSE F[nx(j)]
        BY <3>1, <2>2
      <4>2. ~Miss(j) => G[nx(j)] = F[nx(j)]
        BY <2>2, <2>3, <2>4
      <4> QED
        BY <3>1, <4>1, <4>2
    <3>2. CASE o \in {0} \cup k..n
      <4>1. G[o] = F[o]
        BY <3>2, <2>3
      <4>2. Miss(0)
        BY DEF Miss
      <4>3. ~Miss(o) => o \in 1..n /\ o \in k..n
        BY <3>2, <2>2, <4>2
      <4>4. ~Miss(o) => G[nx(o)] = F[nx(o)]
        BY <4>3, <2>3, <2>4
      <4> QED
        BY <3>2, <4>1, <4>4, <2>5
    <3> QED
      BY <2>2, <3>1, <3>2
  <2>7. Sol(G, j)
    <3>1. G = [o \in {0} \cup j..n |-> G[o]]
      OBVIOUS
    <3> HIDE DEF G
    <3> QED
      BY <3>1, <2>6
  <2> QED
    BY <2>7
<1>5. Solved(1)
  <2> HIDE DEF Solved
  <2>1. n + 1 \in K
    BY <1>1, <1>3
  <2>2. PICK k \in K : \A m \in K : k <= m
    <3>1. K \in SUBSET Nat
      BY <1>1
    <3> HIDE DEF K
    <3> QED
      BY <2>1, <3>1, LeastExists, Zenon
  <2>3. k # 1 => k - 1 \in K
    <3>1. k \in 1..(n + 1) /\ Solved(k)
      OBVIOUS
    <3>2. k # 1 => k \in 2..(n + 1) /\ k - 1 \in 1..(n + 1)
      BY <3>1, <1>1
    <3> QED
      BY <3>1, <3>2, <1>4
  <2> QED
    BY <1>1, <2>2, <2>3
<1>6. \E F : F = [o \in 0..n |-> IF Miss(o) THEN 0 ELSE IF Hit(o) THEN o ELSE F[nx(o)]]
  <2>1. {0} \cup 1..n = 0..n
    BY <1>1
  <2> HIDE DEF Miss, Hit, nx, n
  <2>2. PICK F : Sol(F, 1)
    BY <1>5
  <2> QED
    BY <2>1, <2>2
<1> DEFINE L == CHOOSE F : F = [o \in 0..n |-> IF Miss(o) THEN 0
                                              ELSE IF Hit(o) THEN o ELSE F[nx(o)]]
<1>7. Lookup(d) = L[hash.head]
  BY DEF Lookup
<1>8. L = [o \in 0..n |-> IF Miss(o) THEN 0 ELSE IF Hit(o) THEN o ELSE L[nx(o)]]
  <2> HIDE DEF Miss, Hit, nx, n
  <2> QED
    BY <1>6, Zenon
<1> HIDE DEF L
<1>9. L[0] = 0 /\ \A o \in 1..n : ~Miss(o) => L[o] = IF Hit(o) THEN o ELSE L[nx(o)]
  <2>1. Miss(0) /\ 0 \in 0..n /\ \A o \in 1..n : o \in 0..n
    BY <1>1
  <2> HIDE DEF Miss, Hit, nx, n
  <2>2. \A o \in 0..n : L[o] = IF Miss(o) THEN 0 ELSE IF Hit(o) THEN o ELSE L[nx(o)]
    BY <1>8, Zenon
  <2> QED
    BY <2>1, <2>2, Zenon
<1>10. \A o \in Of("data") : o \in 1..n /\ ~Miss(o)
  BY <1>1 DEF Of
<1> QED
  BY <1>7, <1>9, <1>10

LEMMA LookupFinds ==
    ASSUME FileTypes, HashInv, NEW d
    PROVE  IF \E p \in Of("data") : objs[p].data = d
           THEN Lookup(d) \in Of("data") /\ objs[Lookup(d)].data = d
           ELSE Lookup(d) = 0
<1> DEFINE n == Len(objs)
           D == Of("data")
           Has(o) == objs[o].data = d
<1>1. PICK L : /\ Lookup(d) = L[hash.head] /\ L[0] = 0
               /\ \A o \in D : L[o] = IF Has(o) THEN o ELSE L[objs[o].nextHash]
  BY LookupStep
<1>2. n \in Nat /\ \A o \in D : o \in 1..n
  BY DEF FileTypes, Of
<1> DEFINE Right(o) == IF \E p \in D : o <= p /\ Has(p) THEN L[o] \in D /\ Has(L[o]) ELSE L[o] = 0
           T == {o \in D : ~Right(o)}
<1>3. T = {}
  <2> SUFFICES ASSUME T # {} PROVE FALSE
    OBVIOUS
  <2>1. PICK o \in T : \A x \in T : o >= x
    <3>1. T \in SUBSET (0..n)
      BY <1>2
    <3> HIDE DEF T, n
    <3> QED
      BY <1>2, <3>1, GreatestExists, Zenon
  <2>2. o \in D /\ ~Right(o)
    OBVIOUS
  <2>3. L[o] = IF Has(o) THEN o ELSE L[objs[o].nextHash]
    BY <1>1, <2>2
  <2>4. CASE Has(o)
    BY <1>2, <2>2, <2>3, <2>4
  <2>5. CASE ~Has(o) /\ o = hash.tail
    <3>1. objs[o].nextHash = 0 /\ \A p \in D : p <= o
      BY <2>2, <2>5 DEF HashInv
    <3>2. L[o] = 0
      BY <1>1, <2>3, <2>5, <3>1
    <3>3. \A p \in D : o <= p => p = o
      BY <1>2, <2>2, <3>1
    <3> QED
      BY <2>2, <2>5, <3>2, <3>3
  <2>6. CASE ~Has(o) /\ o # hash.tail
    <3>1. PICK b : b = objs[o].nextHash
      OBVIOUS
    <3>2. b \in D /\ o < b /\ \A p \in D : p <= o \/ b <= p
      BY <2>2, <2>6, <3>1 DEF HashInv
    <3>3. Right(b)
      <4>1. b \notin T
        <5> HIDE DEF T
        <5> QED
          BY <1>2, <2>1, <2>2, <3>2
      <4> QED
        BY <3>2, <4>1
    <3>4. L[o] = L[b]
      BY <2>3, <2>6, <3>1
    <3>5. (\E p \in D : o <= p /\ Has(p)) <=> (\E p \in D : b <= p /\ Has(p))
      <4>1. ASSUME NEW p \in D, o <= p, Has(p) PROVE b <= p
        <5>1. p # o
          BY <2>6, <4>1
        <5> QED
          BY <1>2, <2>2, <3>2, <4>1, <5>1
      <4>2. ASSUME NEW p \in D, b <= p PROVE o <= p
        BY <1>2, <2>2, <3>2, <4>2
      <4> QED
        BY <4>1, <4>2, Zenon
    <3> HIDE DEF Has, D
    <3> QED
      BY <2>2, <3>3, <3>4, <3>5
  <2> QED
    BY <2>4, <2>5, <2>6
<1>4. CASE D = {}
  BY <1>1, <1>4 DEF HashInv
<1>5. CASE D # {}
  <2>1. hash.head \in D /\ \A p \in D : hash.head <= p
    BY <1>5 DEF HashInv
  <2>2. Right(hash.head)
    BY <1>3, <2>1
  <2> QED
    BY <1>1, <2>1, <2>2
<1> QED
  BY <1>4, <1>5

(* The index of a file between two appends.                                       *)
LEMMA IndexOfIdle ==
    ASSUME FileTypes, NEW w, NEW own, Index(w, own), wpc[w] = "idle", NEW d
    PROVE  LET o == Lookup(d) IN
            IF EntriesWith(d) = {} THEN o = 0
            ELSE o # 0 /\ Listed(o) = EntriesWith(d) /\ objs[o].n = Cardinality(Listed(o))
<1>1. \A o \in Of("data") : o # 0
  BY DEF FileTypes, Of
<1>2. \A e \in Of("entry") : objs[e].items \subseteq Of("data")
  BY DEF Index, ItemInv
<1>3. CASE \E p \in Of("data") : objs[p].data = d
  <2>1. PICK o : o = Lookup(d)
    OBVIOUS
  <2>2. o \in Of("data") /\ objs[o].data = d
    BY <1>3, <2>1, LookupFinds DEF Index
  <2>3. \A p \in Of("data") : objs[p].data = d <=> p = o
    BY <2>2 DEF Index, CacheInv
  <2>4. EntriesWith(d) = {e \in Of("entry") : o \in objs[e].items}
    BY <1>2, <2>2, <2>3 DEF EntriesWith, Of
  <2>5. Having(w, o) = {e \in Of("entry") : o \in objs[e].items}
    BY DEF Having
  <2>6. Listed(o) = EntriesWith(d) /\ objs[o].n = Cardinality(Listed(o))
    BY <2>2, <2>4, <2>5 DEF Index, ListInv
  <2>7. EntriesWith(d) # {}
    BY <2>2, <2>4 DEF Index, ItemInv
  <2> QED
    BY <1>1, <2>1, <2>2, <2>6, <2>7
<1>4. CASE ~\E p \in Of("data") : objs[p].data = d
  <2>1. Lookup(d) = 0
    BY <1>4, LookupFinds DEF Index
  <2>2. EntriesWith(d) = {}
    BY <1>2, <1>4 DEF EntriesWith, Of
  <2> QED
    BY <2>1, <2>2
<1> QED
  BY <1>3, <1>4

-----------------------------------------------------------------------------
(* Steps that leave the data objects and their arrays alone.                      *)

(* Data, entries and the arrays that data own are what they were.                 *)
Still(own) ==
    /\ hash' = hash
    /\ Of("data")' = Of("data") /\ \A o \in Of("data") : objs'[o] = objs[o]
    /\ Of("entry") \subseteq Of("entry")' /\ \A e \in Of("entry") : objs'[e] = objs[e]
    /\ \A a \in Nat : own[a] # 0 => a \in Of("array")' /\ objs'[a] = objs[a]

LEMMA StillKeeps ==
    ASSUME NEW w \in Writers, FileTypes, ForwardInv, RefInv, FoundEq, FoundEq', NEW own, Index(w, own), Still(own),
           cache'[w] = cache[w]
    PROVE  /\ HashInv' /\ CacheInv(w)' /\ OwnInv(own)'
           /\ \A o \in Of("data")' : Listed(o)' = Listed(o)
<1>1. HashInv'
  BY DEF Index, HashInv, Still
<1>2. CacheInv(w)'
  <2>1. \A d \in DOMAIN cache[w] : cache[w][d] \in Of("data") /\ objs[cache[w][d]].data = d
    BY DEF Index, CacheInv, RefInv
  <2>2. \A d \in DOMAIN cache[w] : objs'[cache[w][d]].data = d
    BY <2>1 DEF Still
  <2>3. \A o \in Of("data")' : objs'[o].data \in DOMAIN cache[w] /\ cache[w][objs'[o].data] = o
    BY DEF Index, CacheInv, Still
  <2> QED
    BY <2>2, <2>3 DEF CacheInv
<1>3. OwnInv(own)'
  BY DEF Index, OwnInv, Still
<1>4. \A o \in Of("data") : Listed(o)' = Listed(o)
  <2> SUFFICES ASSUME NEW o \in Of("data") PROVE Listed(o)' = Listed(o)
    OBVIOUS
  <2>1. OwnInv(own) /\ o # 0
    BY DEF Index, FileTypes, Of
  <2>2. \A a \in Owned(own, o) : /\ a \in Of("array")'
                                 /\ objs'[a].slots = objs[a].slots
                                 /\ objs'[a].next = objs[a].next
    BY <2>1 DEF Owned, Still
  <2>3. objs'[o].first = objs[o].first /\ objs'[o].array = objs[o].array
    BY DEF Still
  <2> QED
    BY <2>1, <2>2, <2>3, ListedKept
<1> QED
  BY <1>1, <1>2, <1>3, <1>4 DEF Still

(* Such a step keeps the index, if each data object still has the entries it had, but  *)
(* for the one to be linked, and the arrays to be linked are no data object's.         *)
LEMMA StillIndex ==
    ASSUME NEW w \in Writers, FileTypes, ForwardInv, RefInv, FoundEq, FoundEq', NEW own, Index(w, own), Still(own),
           cache'[w] = cache[w], TailInv(w, own)', ItemInv(w)',
           \A o \in Of("data") : Having(w, o)' = Having(w, o)
    PROVE  \E o : Index(w, o)'
<1>1. /\ HashInv' /\ CacheInv(w)' /\ OwnInv(own)'
      /\ \A o \in Of("data")' : Listed(o)' = Listed(o)
  BY StillKeeps
<1>2. ListInv(w)'
  <2> SUFFICES ASSUME NEW o \in Of("data")'
               PROVE  Listed(o)' = Having(w, o)' /\ objs'[o].n = Cardinality(Having(w, o)')
    BY DEF ListInv
  <2>1. o \in Of("data") /\ objs'[o] = objs[o]
    BY DEF Still
  <2>2. Listed(o) = Having(w, o) /\ objs[o].n = Cardinality(Having(w, o))
    BY <2>1 DEF Index, ListInv
  <2> QED
    BY <1>1, <2>1, <2>2
<1>3. Index(w, own)'
  BY <1>1, <1>2 DEF Index
<1> QED
  BY <1>3

(* If no object changes, data objects have the entries they had.                    *)
LEMMA StillObjects ==
    ASSUME NEW w, UNCHANGED <<objs, hash>>, NEW own, Index(w, own),
           \/ wpc[w] # "link" /\ wpc'[w] # "link"
           \/ UNCHANGED <<wpc, cur, items>>
    PROVE  /\ Still(own) /\ \A o \in Of("data") : Having(w, o)' = Having(w, o)
           /\ \A t : Of(t)' = Of(t)
<1>1. \A t : Of(t)' = Of(t)
  BY DEF Of
<1>2. Still(own)
  BY <1>1 DEF Still, Index, OwnInv
<1>3. \A o : Having(w, o)' = Having(w, o)
  BY <1>1 DEF Having
<1> QED
  BY <1>1, <1>2, <1>3

(* Steps that write no object.                                                 *)
LEMMA QuietKeepsIndex ==
    ASSUME NEW w \in Writers, FileTypes, ForwardInv, RefInv, FoundEq, FoundEq', NEW own, Index(w, own),
           UNCHANGED <<objs, hash>>, cache'[w] = cache[w],
           \/ wpc[w] # "link" /\ wpc'[w] # "link"
           \/ UNCHANGED <<wpc, cur, items>>,
           wpc[w] = "data" => wpc'[w] = "data" /\ items[w] \subseteq items'[w],
           TailInv(w, own)'
    PROVE  \E o : Index(w, o)'
<1>1. /\ Still(own) /\ \A o \in Of("data") : Having(w, o)' = Having(w, o)
      /\ \A t : Of(t)' = Of(t)
  BY StillObjects
<1>2. ItemInv(w)'
  <2>1. ItemInv(w)
    BY DEF Index
  <2>2. \A e \in Of("entry")' : objs'[e].items \subseteq Of("data")'
    BY <1>1, <2>1 DEF ItemInv
  <2>3. wpc'[w] = "link" => items'[w] \subseteq objs'[cur'[w]].items
    BY <2>1 DEF ItemInv
  <2>4. \A o \in Of("data")' : \/ \E e \in Of("entry")' : o \in objs'[e].items
                               \/ wpc'[w] = "data" /\ o \in items'[w]
    BY <1>1, <2>1 DEF ItemInv
  <2> QED
    BY <2>2, <2>3, <2>4 DEF ItemInv
<1> QED
  BY <1>1, <1>2, StillIndex

LEMMA CreateKeepsIndex ==
    ASSUME NEW w \in Writers, MemTypes, objs = <<>>, hash.head = 0, hash.tail = 0, Create(w)
    PROVE  \E own : Index(w, own)'
<1> DEFINE own == [n \in Nat |-> 0]
<1>1. /\ objs' = <<>> /\ hash' = hash /\ cache'[w] = <<>> /\ wpc'[w] = "idle"
      /\ hdr'[w].tail = 0
  BY DEF Create, OpenWriter, Goto, MemTypes, EmptyHeader
<1>2. \A t : Of(t)' = {}
  BY <1>1 DEF Of
<1>3. own \in [Nat -> Nat] /\ \A a \in Nat : own[a] = 0
  OBVIOUS
<1> HIDE DEF own
<1>4. HashInv'
  BY <1>1, <1>2 DEF HashInv
<1>5. CacheInv(w)'
  BY <1>1, <1>2 DEF CacheInv
<1>6. OwnInv(own)'
  BY <1>2, <1>3 DEF OwnInv
<1>7. TailInv(w, own)'
  BY <1>1, <1>3 DEF TailInv
<1>8. ItemInv(w)' /\ ListInv(w)'
  BY <1>1, <1>2 DEF ItemInv, ListInv
<1> QED
  BY <1>4, <1>5, <1>6, <1>7, <1>8 DEF Index

LEMMA AppendEntryKeepsIndex ==
    ASSUME NEW w \in Writers, Facts(w), FoundEq, FoundEq', NEW own, Index(w, own),
           NEW D, AppendEntry(w, D)
    PROVE  \E o : Index(w, o)'
<1>1. /\ UNCHANGED <<objs, hash, cache>> /\ hdr'[w].tail = hdr[w].tail
      /\ wpc[w] = "idle" /\ wpc'[w] = "data"
  BY DEF AppendEntry, Goto, Facts, MemTypes, Headers
<1>2. TailInv(w, own)'
  BY <1>1 DEF Index, TailInv
<1> QED
  BY <1>1, <1>2, QuietKeepsIndex DEF Facts

LEMMA CachedDataKeepsIndex ==
    ASSUME NEW w \in Writers, Facts(w), FoundEq, FoundEq', NEW own, Index(w, own),
           NEW d, CachedData(w, d)
    PROVE  \E o : Index(w, o)'
<1>1. /\ UNCHANGED <<objs, hash, cache, hdr, wpc>> /\ wpc[w] = "data"
      /\ items[w] \subseteq items'[w]
  BY DEF CachedData, Facts, MemTypes
<1>2. TailInv(w, own)'
  BY <1>1 DEF Index, TailInv
<1> QED
  BY <1>1, <1>2, QuietKeepsIndex DEF Facts

LEMMA SyncKeepsIndex ==
    ASSUME NEW w \in Writers, Facts(w), FoundEq, FoundEq', NEW own, Index(w, own), Sync(w)
    PROVE  \E o : Index(w, o)'
<1>1. /\ UNCHANGED <<objs, hash, cache, wpc, cur, items>> /\ wpc[w] = "idle"
      /\ hdr'[w].tail = hdr[w].tail
  BY DEF Sync, Facts, MemTypes, Headers
<1>2. TailInv(w, own)'
  BY <1>1 DEF Index, TailInv
<1> QED
  BY <1>1, <1>2, QuietKeepsIndex DEF Facts

(* The tail in memory becomes the entry's array, which no data object owns: its       *)
(* offset fits the header's field.                                            *)
LEMMA UpdateHeaderKeepsIndex ==
    ASSUME NEW w \in Writers, Facts(w), FoundEq, FoundEq', NEW own, Index(w, own),
           Fits, UpdateHeader(w)
    PROVE  \E o : Index(w, o)'
<1>1. /\ UNCHANGED <<objs, hash, cache, items>> /\ wpc[w] = "header" /\ wpc'[w] = "idle"
      /\ hdr'[w].tail = cur[w] % OffsetMod
  BY DEF UpdateHeader, Goto, Facts, MemTypes, Headers, fileVars
<1>2. cur[w] % OffsetMod = cur[w]
  <2>1. cur[w] \in 1..Len(objs) /\ Len(objs) \in Nat
    BY <1>1, ObjectAt DEF Facts, FileTypes
  <2>2. OffsetMod \in Nat /\ cur[w] \in Nat /\ cur[w] < OffsetMod
    BY <2>1, JournalAssumption DEF Fits
  <2> QED
    BY <2>2, SmallRemainder
<1>3. TailInv(w, own)'
  BY <1>1, <1>2 DEF Index, TailInv
<1> QED
  BY <1>1, <1>3, QuietKeepsIndex DEF Facts

(* A step of a reader, or none.                                               *)
LEMMA ReaderKeepsIndex ==
    ASSUME NEW w \in Writers, Facts(w), FoundEq, FoundEq', NEW own, Index(w, own),
           UNCHANGED <<fileVars, wpc, memVars>>
    PROVE  \E o : Index(w, o)'
<1>1. UNCHANGED <<objs, hash, cache, hdr, wpc, cur, items>>
  BY DEF fileVars, memVars
<1>2. TailInv(w, own)'
  BY <1>1 DEF Index, TailInv
<1> QED
  BY <1>1, <1>2, QuietKeepsIndex DEF Facts

(* ensureField: a new object that is no data, no entry and no array.               *)
LEMMA EnsureFieldKeepsIndex ==
    ASSUME NEW w \in Writers, Facts(w), FoundEq, FoundEq', NEW own, Index(w, own),
           NEW d \in Data, EnsureField(w, d)
    PROVE  \E o : Index(w, o)'
<1> DEFINE r == FieldObj(FieldOf[d])
<1>1. r \in Objects /\ r.type = "field" /\ objs' = Append(objs, r)
  BY JournalAssumption, NewObjects DEF EnsureField, FieldObj
<1>2. UNCHANGED <<hash, wpc, hdr, cache, items, cur>> /\ wpc[w] = "data"
  BY DEF EnsureField
<1> HIDE DEF r
<1>3. /\ \A o \in DOMAIN objs : objs'[o] = objs[o] /\ o # End
      /\ \A t : Of(t)' = Of(t) \cup (IF r.type = t THEN {End} ELSE {})
  BY <1>1, Appended DEF Facts
<1>4. \A t : t # "field" => Of(t)' = Of(t)
  BY <1>1, <1>3
<1>5. \A t : \A o \in Of(t) : objs'[o] = objs[o]
  BY <1>3 DEF Of
<1>6. Still(own)
  BY <1>2, <1>4, <1>5 DEF Still, Index, OwnInv
<1>7. TailInv(w, own)'
  BY <1>2 DEF Index, TailInv
<1>8. ItemInv(w)'
  BY <1>2, <1>4, <1>5 DEF Index, ItemInv
<1>9. \A o \in Of("data") : Having(w, o)' = Having(w, o)
  BY <1>2, <1>4, <1>5 DEF Having
<1> QED
  BY <1>2, <1>6, <1>7, <1>8, <1>9, StillIndex DEF Facts

(* appendEntryObject: the new entry has data that are all still to be linked to it.    *)
LEMMA WriteEntryKeepsIndex ==
    ASSUME NEW w \in Writers, Facts(w), FoundEq, FoundEq', NEW own, Index(w, own),
           WriteEntry(w)
    PROVE  \E o : Index(w, o)'
<1> DEFINE r == EntryObj(hdr[w].seq + 1, items[w])
<1>1. r \in Objects /\ r.type = "entry" /\ r.items = items[w] /\ objs' = Append(objs, r)
  <2>1. hdr[w].seq + 1 \in Nat /\ items[w] \in SUBSET Nat
    BY DEF Facts, MemTypes, Headers
  <2> QED
    BY <2>1, NewObjects DEF WriteEntry, EntryObj
<1>2. /\ UNCHANGED <<hash, cache, items>> /\ wpc[w] = "data" /\ wpc'[w] = "link"
      /\ cur'[w] = End /\ hdr'[w].tail = hdr[w].tail
  BY DEF WriteEntry, Goto, Facts, MemTypes, Headers
<1> HIDE DEF r
<1>3. /\ \A o \in DOMAIN objs : objs'[o] = objs[o] /\ o # End
      /\ objs'[End] = r
      /\ \A t : Of(t)' = Of(t) \cup (IF r.type = t THEN {End} ELSE {})
  BY <1>1, Appended DEF Facts
<1>4. Of("entry")' = Of("entry") \cup {End} /\ \A t : t # "entry" => Of(t)' = Of(t)
  BY <1>1, <1>3
<1>5. \A t : \A o \in Of(t) : objs'[o] = objs[o] /\ o # End
  BY <1>3 DEF Of
<1>6. Still(own)
  BY <1>2, <1>4, <1>5 DEF Still, Index, OwnInv
<1>7. TailInv(w, own)'
  BY <1>2 DEF Index, TailInv
<1>8. ItemInv(w)'
  <2>1. items[w] \subseteq Of("data")
    BY DEF Facts, RefInv
  <2>2. \A e \in Of("entry")' : objs'[e].items \subseteq Of("data")'
    <3>1. \A e \in Of("entry") : objs'[e].items \subseteq Of("data")'
      BY <1>4, <1>5 DEF Index, ItemInv
    <3>2. objs'[End].items \subseteq Of("data")'
      BY <1>1, <1>3, <1>4, <2>1
    <3> QED
      BY <1>4, <3>1, <3>2
  <2>3. \A o \in Of("data")' : \E e \in Of("entry")' : o \in objs'[e].items
    <3> SUFFICES ASSUME NEW o \in Of("data") PROVE \E e \in Of("entry")' : o \in objs'[e].items
      BY <1>4
    <3>1. CASE o \in items[w]
      BY <1>1, <1>3, <1>4, <3>1
    <3>2. CASE \E e \in Of("entry") : o \in objs[e].items
      BY <1>4, <1>5, <3>2
    <3> QED
      BY <3>1, <3>2 DEF Index, ItemInv
  <2>4. items'[w] \subseteq objs'[cur'[w]].items
    BY <1>1, <1>2, <1>3
  <2> QED
    BY <2>2, <2>3, <2>4 DEF ItemInv
<1>9. \A o \in Of("data") : Having(w, o)' = Having(w, o)
  <2> SUFFICES ASSUME NEW o PROVE Having(w, o)' = Having(w, o)
    OBVIOUS
  <2>1. Having(w, o) = {e \in Of("entry") : o \in objs[e].items}
    BY <1>2 DEF Having
  <2>2. Having(w, o)' = {e \in Of("entry")' : o \in objs'[e].items /\ ~(e = End /\ o \in items[w])}
    BY <1>2 DEF Having
  <2>3. objs'[End].items = items[w]
    BY <1>1, <1>3
  <2> QED
    BY <1>4, <1>5, <2>1, <2>2, <2>3
<1> QED
  BY <1>2, <1>6, <1>7, <1>8, <1>9, StillIndex DEF Facts

(* appendEntryArray, when all data of the entry are linked: a new array of no data.     *)
LEMMA WriteArrayKeepsIndex ==
    ASSUME NEW w \in Writers, Facts(w), FoundEq, FoundEq', NEW own, Index(w, own),
           WriteArray(w)
    PROVE  \E o : Index(w, o)'
<1> DEFINE r == ArrayObj(<<cur[w]>>)
<1>1. r \in Objects /\ r.type = "array" /\ objs' = Append(objs, r)
  <2>1. <<cur[w]>> \in Seq(Nat)
    BY DEF Facts, MemTypes
  <2> QED
    BY <2>1, NewObjects DEF WriteArray, ArrayObj
<1>2. /\ UNCHANGED <<hash, cache, items, hdr>> /\ wpc[w] = "link" /\ wpc'[w] = "chain"
      /\ cur'[w] = End /\ items[w] = {}
  BY DEF WriteArray, Goto, Facts, MemTypes
<1> HIDE DEF r
<1>3. /\ \A o \in DOMAIN objs : objs'[o] = objs[o] /\ o # End
      /\ \A t : Of(t)' = Of(t) \cup (IF r.type = t THEN {End} ELSE {}) /\ End \in Nat
  BY <1>1, Appended DEF Facts
<1>4. Of("array")' = Of("array") \cup {End} /\ \A t : t # "array" => Of(t)' = Of(t)
  BY <1>1, <1>3
<1>5. \A t : \A o \in Of(t) : objs'[o] = objs[o] /\ o # End
  BY <1>3 DEF Of
<1>6. Still(own)
  BY <1>2, <1>4, <1>5 DEF Still, Index, OwnInv
<1>7. TailInv(w, own)'
  <2>1. own[End] = 0
    BY <1>3, <1>5 DEF Index, OwnInv
  <2> QED
    BY <1>2, <2>1 DEF Index, TailInv
<1>8. ItemInv(w)'
  BY <1>2, <1>4, <1>5 DEF Index, ItemInv
<1>9. \A o \in Of("data") : Having(w, o)' = Having(w, o)
  BY <1>2, <1>4, <1>5 DEF Having
<1> QED
  BY <1>2, <1>6, <1>7, <1>8, <1>9, StillIndex DEF Facts

(* ... and its link from the tail, which is no data object's either.                *)
LEMMA ChainArrayKeepsIndex ==
    ASSUME NEW w \in Writers, Facts(w), Facts(w)', FoundEq, FoundEq', NEW own, Index(w, own),
           ChainArray(w)
    PROVE  \E o : Index(w, o)'
<1>1. /\ UNCHANGED <<hash, cache, items, hdr, cur>> /\ wpc[w] = "chain" /\ wpc'[w] = "header"
  BY DEF ChainArray, Goto, memVars, Facts, MemTypes
<1>2. /\ DOMAIN objs' = DOMAIN objs
      /\ \A o \in DOMAIN objs : objs'[o] = objs[o]
                                 \/ (o = hdr[w].tail /\ o \in Of("array") /\ objs'[o].type = "array")
  <2>1. PICK t : t = hdr[w].tail
    OBVIOUS
  <2>2. CASE t \in Of("array")
    <3>1. objs[t] \in ArrayRecs /\ t \in DOMAIN objs
      BY <2>2, ObjectAt DEF Facts, Of
    <3>2. objs' = objs \/ objs' = [objs EXCEPT ![t] = [objs[t] EXCEPT !.next = cur[w]]]
      BY <2>1 DEF ChainArray
    <3>3. [objs[t] EXCEPT !.next = cur[w]].type = "array"
      BY <3>1 DEF ArrayRecs
    <3> QED
      BY <2>1, <2>2, <3>1, <3>2, <3>3
  <2>3. CASE t \notin Of("array")
    BY <2>1, <2>3 DEF ChainArray, Of
  <2> QED
    BY <2>2, <2>3
<1>3. \A t : Of(t)' = Of(t)
  BY <1>2 DEF Of
<1>4. \A o \in Of("data") \cup Of("entry") : objs'[o] = objs[o]
  BY <1>2 DEF Of
<1>5. \A a \in Nat : own[a] # 0 => a \in Of("array")' /\ objs'[a] = objs[a]
  <2>1. own[hdr[w].tail] = 0
    BY DEF Index, TailInv
  <2>2. \A a \in Nat : own[a] # 0 => a \in Of("array") /\ a # hdr[w].tail
    BY <2>1 DEF Index, OwnInv
  <2> QED
    BY <1>2, <1>3, <2>2 DEF Of
<1>6. Still(own)
  BY <1>1, <1>3, <1>4, <1>5 DEF Still
<1>7. TailInv(w, own)'
  BY <1>1 DEF Index, TailInv
<1>8. ItemInv(w)'
  BY <1>1, <1>3, <1>4 DEF Index, ItemInv
<1>9. \A o \in Of("data") : Having(w, o)' = Having(w, o)
  BY <1>1, <1>3, <1>4 DEF Having
<1> QED
  BY <1>1, <1>6, <1>7, <1>8, <1>9, StillIndex DEF Facts

-----------------------------------------------------------------------------
(* appendData: a new data object at the end of the file and of the hash chain.       *)
LEMMA DataAppended ==
    ASSUME NEW w \in Writers, Facts(w), NEW d \in Data, AppendData(w, d)
    PROVE  /\ End \in Nat /\ \A t : \A o \in Of(t) : o < End
           /\ Of("data")' = Of("data") \cup {End} /\ \A t : t # "data" => Of(t)' = Of(t)
           /\ \A o \in Of("entry") \cup Of("array") : objs'[o] = objs[o]
           /\ \A o \in Of("data") :
                /\ objs'[o].data = objs[o].data /\ objs'[o].first = objs[o].first
                /\ objs'[o].array = objs[o].array /\ objs'[o].n = objs[o].n
                /\ objs'[o].nextHash = IF o = hash.tail THEN End ELSE objs[o].nextHash
           /\ objs'[End].data = d /\ objs'[End].first = 0 /\ objs'[End].array = 0
           /\ objs'[End].n = 0 /\ objs'[End].nextHash = 0
<1>1. PICK f : f = fcache[w][FieldOf[d]]
  OBVIOUS
<1>2. /\ Len(objs) \in Nat /\ End = Len(objs) + 1 /\ DOMAIN objs = 1..Len(objs)
      /\ \A t : \A o \in Of(t) : o \in 1..Len(objs) /\ objs[o].type = t
  BY DEF Facts, FileTypes, Of, End
<1>3. f \in 1..Len(objs) /\ objs[f] \in FieldRecs
  BY <1>1, ObjectAt DEF AppendData, Facts, RefInv
<1>4. PICK r : r = DataObj(d, objs[f].headData)
  OBVIOUS
<1>5. r \in Objects /\ r \in DataRecs /\ r.type = "data"
      /\ r.data = d /\ r.first = 0 /\ r.array = 0 /\ r.n = 0 /\ r.nextHash = 0
  <2>1. objs[f].headData \in Nat
    BY <1>3 DEF FieldRecs
  <2> QED
    BY <1>4, <2>1 DEF DataObj, DataRecs, Objects
<1>6. PICK p : p = Append(objs, r)
  OBVIOUS
<1>7. /\ p \in Seq(Objects) /\ Len(p) = End /\ p[End] = r
      /\ \A o \in 1..Len(objs) : p[o] = objs[o]
  BY <1>2, <1>5, <1>6 DEF Facts, FileTypes
<1>8. PICK g : g = [objs[f] EXCEPT !.headData = End]
  OBVIOUS
<1>9. g \in Objects /\ g.type = "field" /\ objs[f].type = "field"
  BY <1>2, <1>3, <1>8 DEF FieldRecs, Objects
<1>10. PICK q : q = [p EXCEPT ![f] = g]
  OBVIOUS
<1>11. /\ q \in Seq(Objects) /\ Len(q) = End /\ q[End] = r /\ q[f] = g
       /\ \A o \in 1..Len(objs) : o # f => q[o] = objs[o]
  <2>1. f \in 1..Len(p) /\ f # End /\ End \in 1..Len(p)
    BY <1>2, <1>3, <1>7
  <2>2. \A o \in 1..Len(objs) : o \in 1..Len(p)
    BY <1>2, <1>7
  <2> QED
    BY <1>7, <1>9, <1>10, <2>1, <2>2, Replaced
<1>12. objs' = IF hash.tail = 0 THEN q ELSE [q EXCEPT ![hash.tail].nextHash = End]
  <2>1. q = [p EXCEPT ![f].headData = End]
    BY <1>3, <1>2, <1>7, <1>8, <1>10
  <2> QED
    BY <1>1, <1>4, <1>6, <2>1 DEF AppendData
<1>13. /\ Len(objs') = End /\ DOMAIN objs' = 1..End /\ objs'[End] = r
       /\ \A o \in 1..Len(objs) :
            /\ objs'[o].type = objs[o].type
            /\ objs[o].type \in {"entry", "array"} => objs'[o] = objs[o]
            /\ objs[o].type = "data" =>
                 /\ o # hash.tail => objs'[o] = objs[o]
                 /\ o = hash.tail => objs'[o] = [objs[o] EXCEPT !.nextHash = End]
  <2>1. CASE hash.tail = 0
    <3>1. objs' = q
      BY <1>12, <2>1
    <3>2. \A o \in 1..Len(objs) : o # hash.tail
      BY <2>1
    <3>3. DOMAIN q = 1..End
      BY <1>11
    <3> QED
      BY <1>9, <1>11, <3>1, <3>2, <3>3
  <2>2. CASE hash.tail # 0
    <3>1. hash.tail \in Of("data") /\ hash.tail \in 1..Len(objs) /\ objs[hash.tail] \in DataRecs
      BY <2>2, ObjectAt DEF Facts, RefInv
    <3>2. objs[hash.tail].type = "data" /\ hash.tail # f /\ q[hash.tail] = objs[hash.tail]
      BY <1>2, <1>9, <1>11, <3>1
    <3>3. PICK s : s = [objs[hash.tail] EXCEPT !.nextHash = End]
      OBVIOUS
    <3>4. s \in Objects /\ s.type = "data"
      <4>1. End \in Nat
        BY <1>2
      <4>2. s \in DataRecs
        BY <3>1, <3>3, <4>1 DEF DataRecs
      <4> QED
        BY <4>2 DEF DataRecs, Objects
    <3>5. hash.tail \in 1..Len(q) /\ hash.tail # End /\ End \in 1..Len(q)
      BY <1>2, <1>11, <3>1
    <3>6. objs' = [q EXCEPT ![hash.tail] = s]
      BY <1>11, <1>12, <2>2, <3>2, <3>3, <3>5
    <3>7. /\ objs' \in Seq(Objects) /\ Len(objs') = End /\ objs'[hash.tail] = s
          /\ \A o \in 1..Len(q) : o # hash.tail => objs'[o] = q[o]
      BY <1>11, <3>4, <3>5, <3>6, Replaced
    <3>8. objs'[End] = r /\ DOMAIN objs' = 1..End
      BY <1>11, <3>5, <3>7
    <3>9. \A o \in 1..Len(objs) : o # hash.tail => objs'[o] = q[o]
      BY <1>2, <1>11, <3>7
    <3>10. \A o \in 1..Len(objs) : objs[o].type # "field" /\ o # hash.tail => objs'[o] = objs[o]
      BY <1>9, <1>11, <3>9
    <3>11. \A o \in 1..Len(objs) : objs'[o].type = objs[o].type
      BY <1>9, <1>11, <3>2, <3>4, <3>7, <3>9, <3>10
    <3> QED
      BY <3>2, <3>3, <3>7, <3>8, <3>10, <3>11
  <2> QED
    BY <2>1, <2>2
<1>14. /\ Of("data")' = Of("data") \cup {End} /\ \A t : t # "data" => Of(t)' = Of(t)
  <2>1. 1..End = 1..Len(objs) \cup {End} /\ End \notin 1..Len(objs)
    BY <1>2
  <2>2. objs'[End].type = "data" /\ \A o \in 1..Len(objs) : objs'[o].type = objs[o].type
    BY <1>5, <1>13
  <2>3. DOMAIN objs' = DOMAIN objs \cup {End} /\ End \notin DOMAIN objs
    BY <1>2, <1>13, <2>1
  <2> QED
    BY <1>2, <2>2, <2>3 DEF Of
<1>15. \A o \in Of("entry") \cup Of("array") : objs'[o] = objs[o]
  BY <1>2, <1>13
<1>16. ASSUME NEW o \in Of("data")
       PROVE  /\ objs'[o].data = objs[o].data /\ objs'[o].first = objs[o].first
              /\ objs'[o].array = objs[o].array /\ objs'[o].n = objs[o].n
              /\ objs'[o].nextHash = IF o = hash.tail THEN End ELSE objs[o].nextHash
  <2>1. objs[o] \in DataRecs /\ o \in 1..Len(objs) /\ objs[o].type = "data"
    BY <1>2, ObjectAt DEF Facts
  <2>2. CASE o = hash.tail
    <3>1. objs'[o] = [objs[o] EXCEPT !.nextHash = End]
      BY <1>13, <2>1, <2>2
    <3> QED
      BY <2>1, <2>2, <3>1 DEF DataRecs
  <2>3. CASE o # hash.tail
    BY <1>13, <2>1, <2>3
  <2> QED
    BY <2>2, <2>3
<1>17. End \in Nat /\ \A t : \A o \in Of(t) : o < End
  BY <1>2
<1> QED
  BY <1>5, <1>13, <1>14, <1>15, <1>16, <1>17

LEMMA AppendDataKeepsIndex ==
    ASSUME NEW w \in Writers, Facts(w), Facts(w)', FoundEq, FoundEq', NEW own, Index(w, own),
           NEW d \in Data, AppendData(w, d)
    PROVE  \E o : Index(w, o)'
<1>1. /\ End \in Nat /\ \A t : \A o \in Of(t) : o < End
      /\ Of("data")' = Of("data") \cup {End} /\ \A t : t # "data" => Of(t)' = Of(t)
      /\ \A o \in Of("entry") \cup Of("array") : objs'[o] = objs[o]
      /\ \A o \in Of("data") :
           /\ objs'[o].data = objs[o].data /\ objs'[o].first = objs[o].first
           /\ objs'[o].array = objs[o].array /\ objs'[o].n = objs[o].n
           /\ objs'[o].nextHash = IF o = hash.tail THEN End ELSE objs[o].nextHash
      /\ objs'[End].data = d /\ objs'[End].first = 0 /\ objs'[End].array = 0
      /\ objs'[End].n = 0 /\ objs'[End].nextHash = 0
  BY DataAppended
<1>2. /\ hash'.head = (IF hash.head = 0 THEN End ELSE hash.head) /\ hash'.tail = End
      /\ cache'[w] = Put(cache[w], d, End) /\ items'[w] = items[w] \cup {End}
      /\ UNCHANGED <<wpc, hdr, cur>> /\ wpc[w] = "data" /\ d \notin DOMAIN cache[w]
  BY DEF AppendData, Facts, MemTypes
<1>3. \A o \in Of("data") : o \in Nat /\ o # 0 /\ o # End
  BY <1>1 DEF Facts, FileTypes, Of
<1>4. HashInv'
  <2>1. HashInv
    BY DEF Index
  <2>2. CASE Of("data") = {}
    <3>1. hash.head = 0 /\ hash.tail = 0
      BY <2>1, <2>2 DEF HashInv
    <3>2. Of("data")' = {End} /\ hash'.head = End /\ hash'.tail = End
      BY <1>1, <1>2, <2>2, <3>1
    <3> QED
      BY <1>1, <3>2 DEF HashInv
  <2>3. CASE Of("data") # {}
    <3>1. /\ hash.head \in Of("data") /\ hash.tail \in Of("data")
          /\ \A o \in Of("data") : hash.head <= o /\ o <= hash.tail
          /\ \A o \in Of("data") : o # hash.tail =>
               /\ objs[o].nextHash \in Of("data") /\ o < objs[o].nextHash
               /\ \A p \in Of("data") : p <= o \/ objs[o].nextHash <= p
      BY <2>1, <2>3 DEF HashInv
    <3>2. hash'.head = hash.head /\ hash'.tail = End /\ hash'.head \in Of("data")'
      BY <1>1, <1>2, <1>3, <3>1
    <3>3. \A o \in Of("data")' : hash'.head <= o /\ o <= hash'.tail
      BY <1>1, <1>3, <3>1, <3>2
    <3>4. ASSUME NEW o \in Of("data")', o # End
          PROVE  /\ objs'[o].nextHash \in Of("data")' /\ o < objs'[o].nextHash
                 /\ \A p \in Of("data")' : p <= o \/ objs'[o].nextHash <= p
      <4>1. o \in Of("data")
        BY <1>1, <3>4
      <4>2. CASE o = hash.tail
        <5>1. objs'[o].nextHash = End
          BY <1>1, <4>1, <4>2
        <5> QED
          BY <1>1, <1>3, <3>1, <4>1, <4>2, <5>1
      <4>3. CASE o # hash.tail
        <5>1. objs'[o].nextHash = objs[o].nextHash
          BY <1>1, <4>1, <4>3
        <5> QED
          BY <1>1, <1>3, <3>1, <4>1, <4>3, <5>1
      <4> QED
        BY <4>2, <4>3
    <3>5. End \in Of("data")'
      BY <1>1
    <3> QED
      BY <1>1, <3>2, <3>3, <3>4, <3>5 DEF HashInv
  <2> QED
    BY <2>2, <2>3
<1>5. CacheInv(w)'
  <2>1. CacheInv(w) /\ \A x \in DOMAIN cache[w] : cache[w][x] \in Of("data")
    BY DEF Index, Facts, RefInv
  <2>2. DOMAIN cache'[w] = DOMAIN cache[w] \cup {d} /\ cache'[w][d] = End
        /\ \A x \in DOMAIN cache[w] : cache'[w][x] = cache[w][x]
    BY <1>2 DEF Put
  <2>3. \A x \in DOMAIN cache'[w] : objs'[cache'[w][x]].data = x
    BY <1>1, <2>1, <2>2 DEF CacheInv
  <2>4. \A o \in Of("data")' :
          objs'[o].data \in DOMAIN cache'[w] /\ cache'[w][objs'[o].data] = o
    BY <1>1, <2>1, <2>2 DEF CacheInv
  <2> QED
    BY <2>3, <2>4 DEF CacheInv
<1>6. OwnInv(own)'
  <2>1. \A a \in Nat : own[a] # 0 => a \in Of("array")' /\ objs'[a] = objs[a]
    <3>1. Of("array")' = Of("array") /\ \A a \in Of("array") : objs'[a] = objs[a]
      BY <1>1
    <3> QED
      BY <3>1 DEF Index, OwnInv
  <2>2. \A o \in Of("data")' : objs'[o].array = 0 \/ own[objs'[o].array] = o
    BY <1>1 DEF Index, OwnInv
  <2>3. OwnInv(own)
    BY DEF Index
  <2> QED
    BY <2>1, <2>2, <2>3 DEF OwnInv
<1>7. TailInv(w, own)'
  BY <1>2 DEF Index, TailInv
<1>8. Of("entry")' = Of("entry") /\ \A e \in Of("entry") : objs'[e] = objs[e]
  BY <1>1
<1>9. ItemInv(w)'
  BY <1>1, <1>2, <1>8 DEF Index, ItemInv
<1>10. ListInv(w)'
  <2>1. \A o \in Of("data")' : Having(w, o)' = {e \in Of("entry") : o \in objs[e].items}
    BY <1>2, <1>8 DEF Having
  <2>2. ASSUME NEW o \in Of("data")
        PROVE  Listed(o)' = Having(w, o)' /\ objs'[o].n = Cardinality(Having(w, o)')
    <3>1. Having(w, o) = {e \in Of("entry") : o \in objs[e].items}
      BY <1>2 DEF Having
    <3>2. Having(w, o)' = Having(w, o)
      BY <1>1, <2>1, <3>1
    <3>3. Listed(o)' = Listed(o)
      <4>1. \A a \in Owned(own, o) : /\ a \in Of("array")'
                                     /\ objs'[a].slots = objs[a].slots
                                     /\ objs'[a].next = objs[a].next
        <5>1. Of("array")' = Of("array") /\ \A a \in Of("array") : objs'[a] = objs[a]
          BY <1>1
        <5> QED
          BY <1>3, <5>1 DEF Index, OwnInv, Owned
      <4>2. objs'[o].first = objs[o].first /\ objs'[o].array = objs[o].array
        BY <1>1
      <4>3. FileTypes /\ ForwardInv /\ OwnInv(own)
        BY DEF Facts, Index
      <4> QED
        BY <4>1, <4>2, <4>3, ListedKept
    <3>4. Listed(o) = Having(w, o) /\ objs[o].n = Cardinality(Having(w, o))
      BY DEF Index, ListInv
    <3> QED
      BY <1>1, <3>2, <3>3, <3>4
  <2>3. ASSUME NEW o, o = End
        PROVE  Listed(o)' = Having(w, o)' /\ objs'[o].n = Cardinality(Having(w, o)')
    <3>1. objs'[o].array = 0 /\ objs'[o].first = 0 /\ objs'[o].n = 0
      BY <1>1, <2>3
    <3>2. Listed(o)' = {}
      BY <3>1, ListedIsFoundNext DEF ListedEq, FoundEq
    <3>3. o \notin Of("data") /\ \A e \in Of("entry") : objs[e].items \subseteq Of("data")
      BY <1>1, <2>3 DEF Index, ItemInv
    <3>4. Having(w, o)' = {}
      BY <1>1, <2>1, <2>3, <3>3
    <3> QED
      BY <3>1, <3>2, <3>4, FS_EmptySet
  <2>4. \A o \in Of("data")' : o \in Of("data") \/ o = End
    BY <1>1
  <2> QED
    BY <2>2, <2>3, <2>4 DEF ListInv
<1> QED
  BY <1>4, <1>5, <1>6, <1>7, <1>9, <1>10 DEF Index

-----------------------------------------------------------------------------
(* linkDataToEntry.                                                           *)

LEMMA Rewritten ==
    ASSUME NEW f, NEW x \in DOMAIN f, NEW r, NEW g, g = [f EXCEPT ![x] = r]
    PROVE  /\ DOMAIN g = DOMAIN f /\ g[x] = r
           /\ \A y \in DOMAIN f : y # x => g[y] = f[y]
OBVIOUS

LastOf(d) == IF objs[d].array = 0 THEN 0 ELSE LastArray(objs[d].array)

(* What a file F is after entry e got its place at data object d, whose last array     *)
(* is a: the first entry, a free slot of a, a first array, or an array after a.        *)
Placed(F, d, a, e) ==
    \/ /\ DOMAIN F = DOMAIN objs /\ (a # 0 => F[a] = objs[a])
       /\ objs[d].first = 0 /\ F[d].first = e /\ F[d].array = objs[d].array
    \/ /\ DOMAIN F = DOMAIN objs /\ a # 0
       /\ F[d].first = objs[d].first /\ F[d].array = objs[d].array
       /\ \E x \in 1..ArrayCap :
            /\ objs[a].slots[x] = 0
            /\ F[a] = [objs[a] EXCEPT !.slots = [objs[a].slots EXCEPT ![x] = e]]
    \/ /\ DOMAIN F = DOMAIN objs \cup {End} /\ F[End] = ArrayObj(Slots(e)) /\ a = 0
       /\ F[d].first = objs[d].first /\ F[d].array = End
    \/ /\ DOMAIN F = DOMAIN objs \cup {End} /\ F[End] = ArrayObj(Slots(e)) /\ a # 0
       /\ F[d].first = objs[d].first /\ F[d].array = objs[d].array
       /\ F[a] = [objs[a] EXCEPT !.next = End]
Around(F, d, a) ==
    /\ \A o \in DOMAIN objs : o # d /\ o # a => F[o] = objs[o]
    /\ F[d] \in DataRecs /\ F[d].data = objs[d].data /\ F[d].nextHash = objs[d].nextHash

LEMMA ListEntryPlaces ==
    ASSUME FileTypes, NEW d \in Of("data"), NEW e \in Nat,
           LastOf(d) # 0 => LastOf(d) \in Of("array"), NEW F, F = ListEntry(d, e)
    PROVE  Placed(F, d, LastOf(d), e) /\ Around(F, d, LastOf(d)) /\ F[d].n = objs[d].n + 1
<1> DEFINE a == IF objs[d].array = 0 THEN 0 ELSE LastArray(objs[d].array)
           x == CHOOSE i \in FreeSlot(a) : \A k \in FreeSlot(a) : i <= k
           more == Append(objs, ArrayObj(Slots(e)))
           filled == IF objs[d].first = 0 THEN [objs EXCEPT ![d].first = e]
                     ELSE IF a # 0 /\ FreeSlot(a) # {} THEN [objs EXCEPT ![a].slots[x] = e]
                     ELSE IF a = 0 THEN [more EXCEPT ![d].array = End]
                     ELSE [more EXCEPT ![a].next = End]
<1>1. F = [filled EXCEPT ![d].n = @ + 1]
  BY DEF ListEntry
<1>2. a = LastOf(d)
  BY DEF LastOf
<1>3. FreeSlot(a) # {} => x \in FreeSlot(a)
  <2>1. FreeSlot(a) \in SUBSET Nat
    BY JournalAssumption DEF FreeSlot
  <2>2. FreeSlot(a) # {} => \E i \in FreeSlot(a) : \A k \in FreeSlot(a) : i <= k
    BY <2>1, LeastExists, Zenon
  <2> HIDE DEF a
  <2> QED
    BY <2>2, Zenon
<1> HIDE DEF a, x
<1>4. /\ Len(objs) \in Nat /\ End = Len(objs) + 1 /\ DOMAIN objs = 1..Len(objs)
      /\ \A t : \A o \in Of(t) : o \in DOMAIN objs /\ objs[o].type = t
  BY DEF FileTypes, Of, End
<1>5. d \in DOMAIN objs /\ objs[d] \in DataRecs /\ objs[d].type = "data"
  BY <1>4, ObjectAt
<1>6. a # 0 => a \in DOMAIN objs /\ a # d /\ objs[a] \in ArrayRecs
  BY <1>2, <1>4, <1>5, ObjectAt
<1>7. End \notin DOMAIN objs /\ End \in Nat
  BY <1>4
<1>8. /\ DOMAIN more = DOMAIN objs \cup {End} /\ more[End] = ArrayObj(Slots(e))
      /\ \A o \in DOMAIN objs : more[o] = objs[o]
  BY <1>4 DEF FileTypes
<1> HIDE DEF more
<1>9. Placed(filled, d, a, e) /\ Around(filled, d, a) /\ filled[d].n = objs[d].n
  <2>1. CASE objs[d].first = 0
    <3>1. PICK r : r = [objs[d] EXCEPT !.first = e]
      OBVIOUS
    <3>2. /\ r \in DataRecs /\ r.data = objs[d].data /\ r.nextHash = objs[d].nextHash
          /\ r.n = objs[d].n /\ r.first = e /\ r.array = objs[d].array
      BY <1>5, <3>1 DEF DataRecs
    <3>3. filled = [objs EXCEPT ![d] = r]
      BY <2>1, <3>1
    <3>4. DOMAIN filled = DOMAIN objs /\ filled[d] = r
          /\ \A y \in DOMAIN objs : y # d => filled[y] = objs[y]
      BY <1>5, <3>3, Rewritten
    <3>5. Placed(filled, d, a, e)
      BY <1>6, <2>1, <3>2, <3>4 DEF Placed
    <3> QED
      BY <3>2, <3>4, <3>5 DEF Around
  <2>2. CASE objs[d].first # 0 /\ a # 0 /\ FreeSlot(a) # {}
    <3>2. x \in FreeSlot(a)
      BY <1>3, <2>2
    <3>3. PICK r : r = [objs[a] EXCEPT !.slots = [objs[a].slots EXCEPT ![x] = e]]
      OBVIOUS
    <3>4. filled = [objs EXCEPT ![a] = r]
      BY <2>2, <3>3
    <3>5. DOMAIN filled = DOMAIN objs /\ filled[a] = r
          /\ \A y \in DOMAIN objs : y # a => filled[y] = objs[y]
      BY <1>6, <2>2, <3>4, Rewritten
    <3>6. filled[d] = objs[d]
      BY <1>5, <1>6, <2>2, <3>5
    <3>7. Placed(filled, d, a, e)
      BY <2>2, <3>2, <3>3, <3>5, <3>6 DEF Placed, FreeSlot
    <3> QED
      BY <1>5, <3>5, <3>6, <3>7 DEF Around
  <2>3. CASE objs[d].first # 0 /\ a = 0
    <3>1. PICK r : r = [objs[d] EXCEPT !.array = End]
      OBVIOUS
    <3>2. /\ r \in DataRecs /\ r.data = objs[d].data /\ r.nextHash = objs[d].nextHash
          /\ r.n = objs[d].n /\ r.first = objs[d].first /\ r.array = End
      BY <1>5, <1>7, <3>1 DEF DataRecs
    <3>3. filled = [more EXCEPT ![d] = r] /\ d \in DOMAIN more
      BY <1>5, <1>8, <2>3, <3>1
    <3>4. DOMAIN filled = DOMAIN more /\ filled[d] = r
          /\ \A y \in DOMAIN more : y # d => filled[y] = more[y]
      BY <3>3, Rewritten
    <3>5. DOMAIN filled = DOMAIN objs \cup {End} /\ filled[End] = ArrayObj(Slots(e))
          /\ \A y \in DOMAIN objs : y # d => filled[y] = objs[y]
      BY <1>5, <1>7, <1>8, <3>4
    <3>6. Placed(filled, d, a, e)
      BY <2>3, <3>2, <3>4, <3>5 DEF Placed
    <3> QED
      BY <3>2, <3>4, <3>5, <3>6 DEF Around
  <2>4. CASE objs[d].first # 0 /\ a # 0 /\ FreeSlot(a) = {}
    <3>1. PICK r : r = [objs[a] EXCEPT !.next = End]
      OBVIOUS
    <3>2. filled = [more EXCEPT ![a] = r] /\ a \in DOMAIN more
      BY <1>6, <1>8, <2>4, <3>1
    <3>3. DOMAIN filled = DOMAIN more /\ filled[a] = r
          /\ \A y \in DOMAIN more : y # a => filled[y] = more[y]
      BY <3>2, Rewritten
    <3>4. DOMAIN filled = DOMAIN objs \cup {End} /\ filled[End] = ArrayObj(Slots(e))
          /\ \A y \in DOMAIN objs : y # a => filled[y] = objs[y]
      BY <1>6, <1>7, <1>8, <2>4, <3>3
    <3>5. filled[d] = objs[d]
      BY <1>5, <1>6, <2>4, <3>4
    <3>6. Placed(filled, d, a, e)
      BY <2>4, <3>1, <3>3, <3>4, <3>5 DEF Placed
    <3> QED
      BY <1>5, <3>4, <3>5, <3>6 DEF Around
  <2> QED
    BY <2>1, <2>2, <2>3, <2>4
<1> HIDE DEF filled
<1>10. PICK r : r = [filled[d] EXCEPT !.n = @ + 1]
  OBVIOUS
<1>11. /\ r \in DataRecs /\ r.data = objs[d].data /\ r.nextHash = objs[d].nextHash
       /\ r.n = objs[d].n + 1 /\ r.first = filled[d].first /\ r.array = filled[d].array
  BY <1>9, <1>10 DEF Around, DataRecs
<1>12. d \in DOMAIN filled
  BY <1>5, <1>9 DEF Placed
<1>13. DOMAIN F = DOMAIN filled /\ F[d] = r /\ \A y \in DOMAIN filled : y # d => F[y] = filled[y]
  <2>1. F = [filled EXCEPT ![d] = r]
    BY <1>1, <1>10, <1>12
  <2> QED
    BY <1>12, <2>1, Rewritten
<1>14. \A y \in DOMAIN objs : y # d => F[y] = filled[y]
  BY <1>9, <1>13 DEF Placed
<1>15. Around(F, d, a)
  BY <1>9, <1>11, <1>13, <1>14 DEF Around
<1>16. /\ F[d].first = filled[d].first /\ F[d].array = filled[d].array
       /\ a # 0 => F[a] = filled[a]
       /\ End \in DOMAIN filled => F[End] = filled[End]
  BY <1>5, <1>6, <1>7, <1>11, <1>13, <1>14
<1>17. Placed(F, d, a, e)
  BY <1>7, <1>9, <1>13, <1>16 DEF Placed
<1> QED
  BY <1>2, <1>11, <1>13, <1>15, <1>17

(* The last array of a data object is its own, and has room to have or no link.       *)
LEMMA LastOwned ==
    ASSUME FileTypes, ForwardInv, NEW own, OwnInv(own), NEW d \in Of("data")
    PROVE  /\ d # 0 /\ Owned(own, d) \in SUBSET Of("array")
           /\ \A o \in Owned(own, d) : objs[o].next = 0 \/ objs[o].next \in Owned(own, d)
           /\ objs[d].array \in Nat /\ (objs[d].array # 0 => objs[d].array \in Owned(own, d))
           /\ LastOf(d) = 0 => objs[d].array = 0
           /\ LastOf(d) # 0 =>
                /\ objs[d].array # 0 /\ LastArray(objs[d].array) = LastOf(d)
                /\ LastOf(d) \in Owned(own, d) /\ objs[LastOf(d)].next = 0
                /\ LastOf(d) \in Of("array") /\ objs[LastOf(d)] \in ArrayRecs
                /\ Len(objs[LastOf(d)].slots) = ArrayCap
<1>1. d # 0 /\ d \in DOMAIN objs /\ objs[d].array \in Nat
  BY ObjectAt DEF DataRecs, FileTypes, Of
<1>2. PICK K : K = Owned(own, d)
  OBVIOUS
<1>3. K \in SUBSET Of("array") /\ \A o \in K : objs[o].next = 0 \/ objs[o].next \in K
  BY <1>1, <1>2, OwnedChain
<1>4. \A a \in K : a # 0 /\ objs[a] \in ArrayRecs /\ Len(objs[a].slots) = ArrayCap
  <2>1. \A a \in K : a \in Nat /\ own[a] = d
    BY <1>2 DEF Owned
  <2>2. \A a \in K : a # 0 /\ objs[a] \in ArrayRecs
    BY <1>3, ObjectAt
  <2> QED
    BY <1>1, <2>1, <2>2 DEF OwnInv
<1>5. objs[d].array # 0 => objs[d].array \in K
  BY <1>1, <1>2 DEF OwnInv, Owned
<1>6. objs[d].array # 0 => /\ LastArray(objs[d].array) \in K
                           /\ objs[LastArray(objs[d].array)].next = 0
  BY <1>3, <1>5, LastIsLast
<1> QED
  BY <1>1, <1>2, <1>3, <1>4, <1>5, <1>6 DEF LastOf

(* The slots of a new array, and of one with a slot filled.                         *)
LEMMA SlotsHave ==
    ASSUME NEW e \in Nat \ {0}
    PROVE  /\ Slots(e) \in Seq(Nat) /\ Len(Slots(e)) = ArrayCap /\ Entries(Slots(e)) = {e}
           /\ \A s \in Seq(Nat) : \A t : \A x \in 1..Len(s) :
                s[x] = 0 /\ t = [s EXCEPT ![x] = e] =>
                    Len(t) = Len(s) /\ Entries(t) = Entries(s) \cup {e}
<1>1. ArrayCap \in Nat \ {0}
  BY JournalAssumption
<1>2. Slots(e) \in Seq(Nat) /\ Len(Slots(e)) = ArrayCap
  BY <1>1 DEF Slots
<1>3. Entries(Slots(e)) = {e}
  <2>1. DOMAIN Slots(e) = 1..ArrayCap /\ 1 \in 1..ArrayCap
    BY <1>1 DEF Slots
  <2>2. \A i \in 1..ArrayCap : Slots(e)[i] = IF i = 1 THEN e ELSE 0
    BY DEF Slots
  <2>3. e # 0
    OBVIOUS
  <2> QED
    BY <2>1, <2>2, <2>3 DEF Entries
<1>4. ASSUME NEW s \in Seq(Nat), NEW x \in 1..Len(s), s[x] = 0, NEW t, t = [s EXCEPT ![x] = e]
      PROVE  Len(t) = Len(s) /\ Entries(t) = Entries(s) \cup {e}
  <2>1. Len(s) \in Nat /\ DOMAIN s = 1..Len(s)
    OBVIOUS
  <2>2. DOMAIN t = DOMAIN s /\ t[x] = e /\ \A y \in DOMAIN s : y # x => t[y] = s[y]
    BY <1>4, <2>1, Rewritten
  <2>3. Len(t) = Len(s)
    <3>1. t \in [1..Len(s) -> Nat]
      BY <1>4, <2>1
    <3> QED
      BY <2>1, <3>1
  <2>4. e # 0 /\ x \in DOMAIN s
    BY <2>1
  <2>5. Entries(t) = Entries(s) \cup {e}
    BY <1>4, <2>2, <2>4 DEF Entries
  <2> QED
    BY <2>3, <2>5
<1> QED
  BY <1>2, <1>3, <1>4

(* Objects keep their types when an entry is listed, and a new one is an array.        *)
LEMMA PlacedTypes ==
    ASSUME FileTypes, ForwardInv, NEW own, OwnInv(own), NEW d \in Of("data"),
           NEW e \in Nat, objs' = ListEntry(d, e)
    PROVE  /\ Placed(objs', d, LastOf(d), e) /\ Around(objs', d, LastOf(d))
           /\ objs'[d].n = objs[d].n + 1
           /\ End \in Nat \ {0} /\ \A t : \A o \in Of(t) : o # End /\ o \in Nat
           /\ \A t : t # "array" => Of(t)' = Of(t)
           /\ Of("array")' = Of("array") \cup (IF End \in DOMAIN objs' THEN {End} ELSE {})
           /\ \A o \in Of("entry") : objs'[o] = objs[o]
           /\ \A o \in Of("data") : o # d => objs'[o] = objs[o]
           /\ \A o \in Of("array") : o # LastOf(d) => objs'[o] = objs[o]
<1>1. PICK a : a = LastOf(d)
  OBVIOUS
<1>2. a # 0 => a \in Of("array") /\ objs[a] \in ArrayRecs
  BY <1>1, LastOwned
<1>3. Placed(objs', d, a, e) /\ Around(objs', d, a) /\ objs'[d].n = objs[d].n + 1
  BY <1>1, <1>2, ListEntryPlaces
<1>4. /\ Len(objs) \in Nat /\ End = Len(objs) + 1 /\ DOMAIN objs = 1..Len(objs)
      /\ \A t : \A o \in Of(t) : o \in DOMAIN objs /\ objs[o].type = t
  BY DEF FileTypes, Of, End
<1>5. End \notin DOMAIN objs /\ End \in Nat \ {0} /\ \A o \in DOMAIN objs : o \in Nat
  BY <1>4
<1>6. objs'[d].type = "data" /\ objs[d].type = "data" /\ d \in DOMAIN objs
  BY <1>3, <1>4 DEF Around, DataRecs
<1>7. a # 0 => objs'[a].type = "array" /\ objs[a].type = "array" /\ a \in DOMAIN objs /\ a # d
  <2> SUFFICES ASSUME a # 0 PROVE objs'[a].type = "array" /\ objs[a].type = "array" /\ a \in DOMAIN objs /\ a # d
    OBVIOUS
  <2>1. objs[a] \in ArrayRecs /\ objs[a].type = "array" /\ a \in DOMAIN objs /\ a # d
    BY <1>2, <1>4, <1>6
  <2>2. \A s : [objs[a] EXCEPT !.slots = s].type = "array"
    BY <2>1 DEF ArrayRecs
  <2>3. [objs[a] EXCEPT !.next = End].type = "array"
    BY <2>1 DEF ArrayRecs
  <2>4. \/ objs'[a] = objs[a] \/ objs'[a] = [objs[a] EXCEPT !.next = End]
        \/ \E s : objs'[a] = [objs[a] EXCEPT !.slots = s]
    BY <1>3 DEF Placed
  <2> QED
    BY <2>1, <2>2, <2>3, <2>4
<1>8. \A o \in DOMAIN objs : objs'[o].type = objs[o].type
  <2>1. \A o \in DOMAIN objs : o # 0
    BY <1>4
  <2> QED
    BY <1>3, <1>6, <1>7, <2>1 DEF Around
<1>9. \/ DOMAIN objs' = DOMAIN objs
      \/ DOMAIN objs' = DOMAIN objs \cup {End} /\ objs'[End].type = "array"
  BY <1>3 DEF Placed, ArrayObj
<1>10. /\ \A t : t # "array" => Of(t)' = Of(t)
       /\ Of("array")' = Of("array") \cup (IF End \in DOMAIN objs' THEN {End} ELSE {})
  BY <1>5, <1>8, <1>9 DEF Of
<1>11. /\ \A o \in Of("entry") : objs'[o] = objs[o]
       /\ \A o \in Of("data") : o # d => objs'[o] = objs[o]
       /\ \A o \in Of("array") : o # a => objs'[o] = objs[o]
  <2>1. \A t : \A o \in Of(t) : o # 0
    BY <1>4
  <2> QED
    BY <1>3, <1>4, <1>6, <1>7, <2>1 DEF Around
<1>12. \A t : \A o \in Of(t) : o # End /\ o \in Nat
  BY <1>4, <1>5
<1> QED
  BY <1>1, <1>3, <1>5, <1>10, <1>11, <1>12

(* A new array is the data object's own; the owners of the others stay.              *)
LEMMA PlacedOwned ==
    ASSUME FileTypes, ForwardInv, NEW own, OwnInv(own), NEW d \in Of("data"),
           NEW e \in Nat \ {0}, objs' = ListEntry(d, e)
    PROVE  \E o2 : OwnInv(o2)' /\ \A x \in Nat : x # End => o2[x] = own[x]
<1>1. PICK a : a = LastOf(d)
  OBVIOUS
<1>2. /\ Placed(objs', d, a, e) /\ Around(objs', d, a)
      /\ End \in Nat \ {0} /\ \A t : \A o \in Of(t) : o # End /\ o \in Nat
      /\ Of("data")' = Of("data")
      /\ Of("array")' = Of("array") \cup (IF End \in DOMAIN objs' THEN {End} ELSE {})
      /\ \A o \in Of("data") : o # d => objs'[o] = objs[o]
      /\ \A o \in Of("array") : o # a => objs'[o] = objs[o]
  BY <1>1, PlacedTypes
<1>3. /\ d # 0 /\ d \in Nat /\ objs[d].array \in Nat
      /\ a = 0 => objs[d].array = 0
      /\ a # 0 => /\ a \in Of("array") /\ own[a] = d /\ objs[a].next = 0
                  /\ objs[a] \in ArrayRecs /\ Len(objs[a].slots) = ArrayCap
  BY <1>1, <1>2, LastOwned DEF Owned
<1>4. /\ own \in [Nat -> Nat]
      /\ \A o \in Of("data") : objs[o].array = 0 \/ own[objs[o].array] = o
      /\ \A x \in Nat : own[x] # 0 =>
           /\ x \in Of("array") /\ Len(objs[x].slots) = ArrayCap
           /\ objs[x].next = 0 \/ own[objs[x].next] = own[x]
  BY DEF OwnInv
<1>5. own[0] = 0 /\ own[End] = 0
  <2>1. 0 \notin Of("array") /\ End \notin Of("array")
    BY <1>2, ObjectAt
  <2> QED
    BY <1>2, <1>4, <2>1
<1>6. \A o \in Of("data") : objs[o].array \in Nat
  BY ObjectAt DEF DataRecs
<1>7. \A x \in Of("array") : objs[x].next \in Nat
  BY ObjectAt DEF ArrayRecs
<1>8. CASE DOMAIN objs' = DOMAIN objs
  <2>1. objs'[d].array = objs[d].array /\ Of("array")' = Of("array")
    <3>1. End \notin DOMAIN objs
      BY DEF FileTypes, End
    <3> QED
      BY <1>2, <1>8, <3>1 DEF Placed
  <2>2. a # 0 => objs'[a].next = 0 /\ Len(objs'[a].slots) = ArrayCap
    <3> SUFFICES ASSUME a # 0 PROVE objs'[a].next = 0 /\ Len(objs'[a].slots) = ArrayCap
      OBVIOUS
    <3>1. CASE objs'[a] = objs[a]
      BY <1>3, <3>1
    <3>2. CASE \E x \in 1..ArrayCap :
                 /\ objs[a].slots[x] = 0
                 /\ objs'[a] = [objs[a] EXCEPT !.slots = [objs[a].slots EXCEPT ![x] = e]]
      <4>1. PICK x \in 1..ArrayCap :
                 /\ objs[a].slots[x] = 0
                 /\ objs'[a] = [objs[a] EXCEPT !.slots = [objs[a].slots EXCEPT ![x] = e]]
        BY <3>2
      <4>2. objs[a].slots \in Seq(Nat)
        BY <1>3 DEF ArrayRecs
      <4>3. Len([objs[a].slots EXCEPT ![x] = e]) = ArrayCap
        BY <1>3, <4>1, <4>2, SlotsHave
      <4> QED
        BY <1>3, <4>1, <4>3 DEF ArrayRecs
    <3> QED
      <4>1. DOMAIN objs' # DOMAIN objs \cup {End}
        <5>1. End \notin DOMAIN objs
          BY DEF FileTypes, End
        <5> QED
          BY <1>8, <5>1
      <4> QED
        BY <1>2, <3>1, <3>2, <4>1 DEF Placed
  <2>3. \A x \in Nat : own[x] # 0 =>
           /\ x \in Of("array")' /\ Len(objs'[x].slots) = ArrayCap
           /\ objs'[x].next = 0 \/ own[objs'[x].next] = own[x]
    BY <1>2, <1>4, <2>1, <2>2, <1>5
  <2>4. \A o \in Of("data")' : objs'[o].array = 0 \/ own[objs'[o].array] = o
    <3> SUFFICES ASSUME NEW o \in Of("data") PROVE objs'[o].array = 0 \/ own[objs'[o].array] = o
      BY <1>2
    <3>1. objs'[o].array = objs[o].array
      BY <1>2, <2>1
    <3> QED
      BY <1>4, <3>1
  <2>5. OwnInv(own)'
    BY <1>4, <2>3, <2>4 DEF OwnInv
  <2> QED
    BY <2>5
<1>9. CASE DOMAIN objs' = DOMAIN objs \cup {End} /\ objs'[End] = ArrayObj(Slots(e))
  <2>0. PICK o2 : o2 = [own EXCEPT ![End] = d]
    OBVIOUS
  <2>1. /\ o2 \in [Nat -> Nat] /\ o2[End] = d /\ \A x \in Nat : x # End => o2[x] = own[x]
    BY <1>2, <1>3, <1>4, <2>0
  <2>2. Of("array")' = Of("array") \cup {End} /\ objs'[End].next = 0
        /\ Len(objs'[End].slots) = ArrayCap
    BY <1>2, <1>9, SlotsHave DEF ArrayObj
  <2>3. End \notin DOMAIN objs
    BY DEF FileTypes, End
  <2>4. objs'[d].array = objs[d].array \/ objs'[d].array = End
    BY <1>2, <1>9, <2>3 DEF Placed
  <2>5. a # 0 => objs'[a].next = End /\ Len(objs'[a].slots) = ArrayCap
    <3>1. a # 0 => objs'[a] = [objs[a] EXCEPT !.next = End]
      BY <1>2, <1>9, <2>3 DEF Placed
    <3> QED
      BY <1>3, <3>1 DEF ArrayRecs
  <2>6. \A x \in Nat : x # 0 /\ own[x] # 0 => o2[x] = own[x]
    BY <1>5, <2>1
  <2>7. ASSUME NEW x \in Nat, o2[x] # 0
        PROVE  /\ x \in Of("array")' /\ Len(objs'[x].slots) = ArrayCap
               /\ objs'[x].next = 0 \/ o2[objs'[x].next] = o2[x]
    <3>1. CASE x = End
      BY <2>2, <3>1
    <3>2. CASE x # End /\ x = a
      <4>1. a # 0
        BY <1>5, <2>1, <2>7, <3>2
      <4> QED
        BY <1>3, <2>1, <2>2, <2>5, <3>2, <4>1
    <3>3. CASE x # End /\ x # a
      <4>1. own[x] # 0 /\ o2[x] = own[x]
        BY <2>1, <2>7, <3>3
      <4>2. x \in Of("array") /\ objs'[x] = objs[x]
        BY <1>2, <1>4, <3>3, <4>1
      <4>3. objs[x].next = 0 \/ (objs[x].next \in Nat /\ own[objs[x].next] = own[x])
        BY <1>4, <1>7, <4>1, <4>2
      <4>4. objs[x].next = 0 \/ o2[objs[x].next] = o2[x]
        BY <1>5, <2>6, <4>1, <4>3
      <4> QED
        BY <1>4, <2>2, <4>1, <4>2, <4>4
    <3> QED
      BY <3>1, <3>2, <3>3
  <2>8. ASSUME NEW o \in Of("data")'
        PROVE  objs'[o].array = 0 \/ o2[objs'[o].array] = o
    <3>1. o \in Of("data") /\ o # 0
      BY <1>2, ObjectAt
    <3>2. objs[o].array = 0 \/ o2[objs[o].array] = o
      BY <1>4, <1>5, <1>6, <2>6, <3>1
    <3> QED
      BY <1>2, <2>1, <2>4, <3>1, <3>2
  <2>9. OwnInv(o2)'
    BY <2>1, <2>7, <2>8 DEF OwnInv
  <2> QED
    BY <2>1, <2>9
<1> QED
  BY <1>2, <1>8, <1>9 DEF Placed

(* The data object lists the entry in addition, and the others what they listed.       *)
LEMMA ListedMore ==
    ASSUME FileTypes, ForwardInv, FoundEq, FoundEq', NEW own, OwnInv(own),
           NEW d \in Of("data"), NEW e \in Nat \ {0}, objs' = ListEntry(d, e)
    PROVE  /\ Listed(d)' = Listed(d) \cup {e}
           /\ \A o \in Of("data") \ {d} : Listed(o)' = Listed(o)
<1>1. PICK a : a = LastOf(d)
  OBVIOUS
<1>2. /\ Placed(objs', d, a, e)
      /\ End \in Nat \ {0} /\ \A t : \A o \in Of(t) : o # End /\ o \in Nat
      /\ Of("array")' = Of("array") \cup (IF End \in DOMAIN objs' THEN {End} ELSE {})
      /\ \A o \in Of("data") : o # d => objs'[o] = objs[o]
      /\ \A o \in Of("array") : o # a => objs'[o] = objs[o]
  BY <1>1, PlacedTypes
<1>3. PICK K : K = Owned(own, d)
  OBVIOUS
<1>4. PICK b : b = objs[d].array
  OBVIOUS
<1>5. /\ d # 0 /\ K \in SUBSET Of("array")
      /\ \A o \in K : objs[o].next = 0 \/ objs[o].next \in K
      /\ b \in Nat /\ (b # 0 => b \in K)
      /\ a = 0 => b = 0
      /\ a # 0 => /\ b # 0 /\ LastArray(b) = a /\ a \in K /\ objs[a].next = 0
                  /\ a \in Of("array") /\ objs[a] \in ArrayRecs
                  /\ Len(objs[a].slots) = ArrayCap
  BY <1>1, <1>3, <1>4, LastOwned
<1>6. K \subseteq Of("array")' /\ Len(objs) \in Nat
  BY <1>2, <1>5 DEF FileTypes
<1>7. \A x \in K \ {a} : objs'[x].slots = objs[x].slots /\ objs'[x].next = objs[x].next
  BY <1>2, <1>5
<1>8. Listed(d) = ({objs[d].first} \ {0}) \cup Found(b)
  BY <1>4, ListedIsFound DEF ListedEq
<1>9. \A x : objs'[d].array = x => Listed(d)' = ({objs'[d].first} \ {0}) \cup Found(x)'
  BY ListedIsFoundNext DEF ListedEq
<1>10. e # 0 /\ e \in Nat
  OBVIOUS
<1>11. a # 0 => Found(a) = Entries(objs[a].slots)
  <2> SUFFICES ASSUME a # 0 PROVE Found(a) = Entries(objs[a].slots)
    OBVIOUS
  <2>1. Found(a) = Entries(objs[a].slots) \cup Found(0) /\ Found(0) = {}
    BY <1>5 DEF FoundEq
  <2> QED
    BY <2>1
<1>12. End \notin DOMAIN objs
  BY DEF FileTypes, End
(* If the last array finds the entry, the first one does, too.                      *)
<1>13. ASSUME a # 0, Found(a)' = Found(a) \cup {e}
       PROVE  Found(b)' = Found(b) \cup {e}
  <2>1. a \in K /\ b \in K /\ LastArray(b) = a
    BY <1>5, <1>13
  <2>2. \A x \in K : LastArray(x) = a => Found(x)' = Found(x) \cup {e}
    <3>1. K \subseteq Of("array") /\ K \subseteq Of("array")'
      BY <1>5, <1>6
    <3>2. \A x \in K : objs[x].next = 0 \/ objs[x].next \in K
      BY <1>5
    <3>3. Found(a)' = Found(a) \cup {e} /\ a \in K
      BY <1>13, <2>1
    <3> QED
      BY <1>7, <3>1, <3>2, <3>3, FoundMore
  <2> QED
    BY <2>1, <2>2
<1>14. ASSUME /\ DOMAIN objs' = DOMAIN objs /\ (a # 0 => objs'[a] = objs[a])
              /\ objs[d].first = 0 /\ objs'[d].first = e /\ objs'[d].array = objs[d].array
       PROVE  Listed(d)' = Listed(d) \cup {e}
  <2>1. \A x \in K : objs'[x].slots = objs[x].slots /\ objs'[x].next = objs[x].next
    <3>1. \A x \in K : x # 0
      BY <1>5, ObjectAt
    <3> QED
      BY <1>7, <1>14, <3>1
  <2>2. \A x \in K : Found(x)' = Found(x)
    BY <1>5, <1>6, <2>1, FoundKept
  <2>3. Found(b)' = Found(b)
    BY <1>5, <2>2 DEF FoundEq
  <2>4. Listed(d)' = {e} \cup Found(b)'
    BY <1>4, <1>9, <1>10, <1>14
  <2> QED
    <3>1. Listed(d) = Found(b)
      BY <1>8, <1>14
    <3> QED
      BY <2>3, <2>4, <3>1
<1>15. ASSUME DOMAIN objs' = DOMAIN objs, a # 0, objs'[d].first = objs[d].first,
              objs'[d].array = objs[d].array, NEW x \in 1..ArrayCap, objs[a].slots[x] = 0,
              objs'[a] = [objs[a] EXCEPT !.slots = [objs[a].slots EXCEPT ![x] = e]]
       PROVE  Listed(d)' = Listed(d) \cup {e}
  <2>1. PICK s : s = [objs[a].slots EXCEPT ![x] = e]
    OBVIOUS
  <2>2. objs'[a].slots = s /\ objs'[a].next = 0 /\ objs[a].slots \in Seq(Nat)
    BY <1>5, <1>15, <2>1 DEF ArrayRecs
  <2>3. Entries(s) = Entries(objs[a].slots) \cup {e}
    <3>1. PICK u : u = objs[a].slots
      OBVIOUS
    <3>2. u \in Seq(Nat) /\ x \in 1..Len(u) /\ u[x] = 0 /\ s = [u EXCEPT ![x] = e]
      BY <1>5, <1>15, <2>1, <2>2, <3>1
    <3>3. Entries(s) = Entries(u) \cup {e}
      BY <3>2, SlotsHave
    <3> QED
      BY <3>1, <3>3
  <2>4. Found(a)' = Entries(s)
    <3>1. a \in Of("array")'
      BY <1>5, <1>6, <1>15
    <3>2. Found(a)' = Entries(objs'[a].slots) \cup Found(0)'
      BY <2>2, <3>1 DEF FoundEq
    <3>3. Found(0)' = {}
      BY DEF FoundEq
    <3> QED
      BY <2>2, <3>2, <3>3
  <2>5. Found(b)' = Found(b) \cup {e}
    BY <1>11, <1>13, <1>15, <2>3, <2>4
  <2>6. Listed(d)' = ({objs[d].first} \ {0}) \cup Found(b)'
    BY <1>4, <1>9, <1>15
  <2> QED
    BY <1>8, <2>5, <2>6
<1>16. ASSUME DOMAIN objs' = DOMAIN objs \cup {End}, objs'[End] = ArrayObj(Slots(e)), NEW z, z = End
       PROVE  z \in Of("array")' /\ Found(z)' = {e}
  <2>1. z \in Of("array")'
    BY <1>2, <1>16
  <2>2. objs'[z].next = 0 /\ objs'[z].slots = Slots(e)
    BY <1>16 DEF ArrayObj
  <2>3. Found(z)' = Entries(Slots(e)) \cup Found(0)'
    BY <2>1, <2>2 DEF FoundEq
  <2>4. Found(0)' = {}
    BY DEF FoundEq
  <2> QED
    BY <2>1, <2>3, <2>4, SlotsHave
<1>17. ASSUME /\ DOMAIN objs' = DOMAIN objs \cup {End} /\ objs'[End] = ArrayObj(Slots(e)) /\ a = 0
              /\ objs'[d].first = objs[d].first /\ objs'[d].array = End
       PROVE  Listed(d)' = Listed(d) \cup {e}
  <2>1. PICK z : z = End
    OBVIOUS
  <2>2. Found(z)' = {e}
    BY <1>16, <1>17, <2>1
  <2>3. Listed(d)' = ({objs[d].first} \ {0}) \cup Found(z)'
    BY <1>9, <1>17, <2>1
  <2>4. Found(b) = {}
    BY <1>5, <1>17 DEF FoundEq
  <2> QED
    <3>1. Listed(d) = {objs[d].first} \ {0}
      BY <1>8, <2>4
    <3> QED
      BY <2>2, <2>3, <3>1
<1>18. ASSUME /\ DOMAIN objs' = DOMAIN objs \cup {End} /\ objs'[End] = ArrayObj(Slots(e)) /\ a # 0
              /\ objs'[d].first = objs[d].first /\ objs'[d].array = objs[d].array
              /\ objs'[a] = [objs[a] EXCEPT !.next = End]
       PROVE  Listed(d)' = Listed(d) \cup {e}
  <2>1. PICK z : z = End
    OBVIOUS
  <2>2. Found(z)' = {e}
    BY <1>16, <1>18, <2>1
  <2>3. objs'[a].slots = objs[a].slots /\ objs'[a].next = z
    BY <1>5, <1>18, <2>1 DEF ArrayRecs
  <2>4. a \in Of("array")' /\ z \in Nat
    BY <1>2, <1>5, <1>6, <1>18, <2>1
  <2>5. Found(a)' = Entries(objs[a].slots) \cup Found(z)'
    BY <2>3, <2>4 DEF FoundEq
  <2>6. Found(b)' = Found(b) \cup {e}
    BY <1>11, <1>13, <1>18, <2>2, <2>5
  <2>7. Listed(d)' = ({objs[d].first} \ {0}) \cup Found(b)'
    BY <1>4, <1>9, <1>18
  <2> QED
    <3>1. \A X, Y, Z : Z = Y \cup {e} => X \cup Z = (X \cup Y) \cup {e}
      OBVIOUS
    <3> QED
      BY <1>8, <2>6, <2>7, <3>1
<1>19. Listed(d)' = Listed(d) \cup {e}
  BY <1>2, <1>14, <1>15, <1>17, <1>18 DEF Placed
<1>20. \A o \in Of("data") \ {d} : Listed(o)' = Listed(o)
  <2> SUFFICES ASSUME NEW o \in Of("data"), o # d PROVE Listed(o)' = Listed(o)
    OBVIOUS
  <2>1. o # 0
    BY ObjectAt
  <2>2. \A x \in Owned(own, o) : x \in Of("array") /\ x # a
    BY <1>3, <1>5, <2>1, ObjectAt DEF OwnInv, Owned
  <2>3. \A x \in Owned(own, o) : /\ x \in Of("array")'
                                 /\ objs'[x].slots = objs[x].slots
                                 /\ objs'[x].next = objs[x].next
    BY <1>2, <2>2
  <2>4. objs'[o].first = objs[o].first /\ objs'[o].array = objs[o].array
    BY <1>2
  <2> QED
    BY <2>3, <2>4, ListedKept
<1> QED
  BY <1>19, <1>20

LEMMA LinkDataKeepsIndex ==
    ASSUME NEW w \in Writers, Facts(w), FoundEq, FoundEq', NEW own, Index(w, own),
           NEW d \in items[w], LinkDataToEntry(w, d)
    PROVE  \E o : Index(w, o)'
<1>1. PICK e : e = cur[w]
  OBVIOUS
<1>2. /\ UNCHANGED <<hash, wpc, hdr, cache, cur>> /\ wpc[w] = "link" /\ objs' = ListEntry(d, e)
      /\ items'[w] = items[w] \ {d}
  BY <1>1 DEF LinkDataToEntry, Facts, MemTypes
<1>3. /\ FileTypes /\ ForwardInv /\ OwnInv(own) /\ d \in Of("data") /\ items[w] \subseteq Of("data")
      /\ \A x \in DOMAIN cache[w] : cache[w][x] \in Of("data")
  BY DEF Facts, RefInv, Index
<1>4. e \in Of("entry") /\ e \in Nat \ {0} /\ d \in objs[e].items
  <2>1. e \in Of("entry")
    BY <1>1, <1>2 DEF Facts
  <2>2. e \in Nat \ {0}
    BY <1>3, <2>1, ObjectAt
  <2> QED
    BY <1>1, <1>2, <2>1, <2>2 DEF Index, ItemInv
<1>5. /\ Around(objs', d, LastOf(d)) /\ objs'[d].n = objs[d].n + 1
      /\ End \in Nat \ {0} /\ \A t : \A o \in Of(t) : o # End /\ o \in Nat
      /\ Of("data")' = Of("data") /\ Of("entry")' = Of("entry")
      /\ \A o \in Of("entry") : objs'[o] = objs[o]
      /\ \A o \in Of("data") : o # d => objs'[o] = objs[o]
  BY <1>2, <1>3, <1>4, PlacedTypes
<1>6. PICK o2 : OwnInv(o2)' /\ \A x \in Nat : x # End => o2[x] = own[x]
  BY <1>2, <1>3, <1>4, PlacedOwned
<1>7. Listed(d)' = Listed(d) \cup {e} /\ \A o \in Of("data") \ {d} : Listed(o)' = Listed(o)
  BY <1>2, <1>3, <1>4, ListedMore
<1>8. \A o \in Of("data") : objs'[o].data = objs[o].data /\ objs'[o].nextHash = objs[o].nextHash
  BY <1>5 DEF Around
<1>9. HashInv'
  <2>1. hash' = hash /\ Of("data")' = Of("data") /\ HashInv
    BY <1>2, <1>5 DEF Index
  <2> QED
    BY <1>8, <2>1 DEF HashInv
<1>10. CacheInv(w)'
  BY <1>2, <1>3, <1>5, <1>8 DEF Index, CacheInv
<1>11. TailInv(w, o2)'
  <2>1. hdr[w].tail \in Nat /\ hdr[w].tail # End
    BY <1>2, <1>5 DEF Facts
  <2> QED
    BY <1>2, <1>6, <2>1 DEF Index, TailInv
<1>12. ItemInv(w)'
  <2>1. ItemInv(w)
    BY DEF Index
  <2>2. items'[w] \subseteq objs'[cur'[w]].items
    BY <1>1, <1>2, <1>4, <1>5, <2>1 DEF ItemInv
  <2>3. \A x \in Of("entry")' : objs'[x].items \subseteq Of("data")'
    BY <1>5, <2>1 DEF ItemInv
  <2>4. \A o \in Of("data")' : \E x \in Of("entry")' : o \in objs'[x].items
    BY <1>2, <1>5, <2>1 DEF ItemInv
  <2> QED
    BY <2>2, <2>3, <2>4 DEF ItemInv
<1>13. ASSUME NEW o \in Of("data"), o # d
       PROVE  Listed(o)' = Having(w, o)' /\ objs'[o].n = Cardinality(Having(w, o)')
  <2>1. Having(w, o)' = Having(w, o)
    <3>1. o \in items'[w] <=> o \in items[w]
      BY <1>2, <1>13
    <3> QED
      BY <1>2, <1>5, <3>1 DEF Having
  <2>2. Listed(o) = Having(w, o) /\ objs[o].n = Cardinality(Having(w, o))
    BY DEF Index, ListInv
  <2> QED
    BY <1>5, <1>7, <1>13, <2>1, <2>2
<1>14. Listed(d)' = Having(w, d)' /\ objs'[d].n = Cardinality(Having(w, d)')
  <2>1. Having(w, d)' = Having(w, d) \cup {e} /\ e \notin Having(w, d)
    <3>1. Having(w, d) = {x \in Of("entry") : d \in objs[x].items /\ x # e}
      BY <1>1, <1>2 DEF Having
    <3>2. Having(w, d)' = {x \in Of("entry") : d \in objs[x].items}
      <4>1. d \notin items'[w]
        BY <1>2
      <4> QED
        BY <1>5, <4>1 DEF Having
    <3> QED
      BY <1>4, <3>1, <3>2
  <2>2. IsFiniteSet(Having(w, d))
    <3>1. Len(objs) \in Nat /\ Having(w, d) \subseteq 1..Len(objs)
      BY <1>3, ObjectAt DEF Having, FileTypes
    <3>2. IsFiniteSet(1..Len(objs))
      BY <3>1, FS_Interval
    <3> QED
      BY <3>1, <3>2, FS_Subset
  <2>3. Cardinality(Having(w, d) \cup {e}) = Cardinality(Having(w, d)) + 1
    BY <2>1, <2>2, FS_AddElement
  <2>4. Listed(d) = Having(w, d) /\ objs[d].n = Cardinality(Having(w, d))
    BY <1>3 DEF Index, ListInv
  <2> QED
    BY <1>5, <1>7, <2>1, <2>3, <2>4
<1>15. ListInv(w)'
  BY <1>5, <1>13, <1>14 DEF ListInv
<1>16. Index(w, o2)'
  BY <1>6, <1>9, <1>10, <1>11, <1>12, <1>15 DEF Index
<1> QED
  BY <1>16

-----------------------------------------------------------------------------
LEMMA FactsHoldNext == JournalInv' => (\A w \in Writers : Facts(w))'
BY FactsHold, PTL

LEMMA FoundStepNext == (FileTypes /\ ForwardInv)' => FoundEq'
BY FoundStep, PTL

LEMMA JInitIndex == JInit => IndexInv
<1> SUFFICES ASSUME JInit PROVE IndexInv
  OBVIOUS
<1>1. objs = <<>> /\ hash.head = 0 /\ hash.tail = 0 /\ \A w \in Writers : wpc[w] = "closed"
  BY DEF JInit
<1> QED
  BY <1>1 DEF IndexInv

(* Every step keeps the index of a file that is not opened a second time.            *)
LEMMA StepKeepsIndex ==
    ASSUME OneWriter, Fits, JournalInv, JournalInv', IndexInv, [JNext]_jfVars
    PROVE  IndexInv'
<1>1. PICK w \in Writers : Writers = {w}
  BY DEF OneWriter
<1>2. Facts(w) /\ Facts(w)' /\ FoundEq /\ FoundEq'
  <2>1. Facts(w) /\ Facts(w)'
    BY FactsHold, FactsHoldNext
  <2> QED
    BY <2>1, FoundStep, FoundStepNext DEF Facts
<1>3. /\ ~exists => objs = <<>> /\ hash.head = 0 /\ hash.tail = 0
      /\ ~reopened /\ wpc[w] # "closed" => \E own : Index(w, own)
  BY DEF IndexInv
<1> DEFINE Kept == /\ exists' \/ (~exists /\ UNCHANGED <<objs, hash>>)
                   /\ ~reopened' /\ wpc'[w] # "closed" => \E own : Index(w, own)'
<1>4. ASSUME wpc[w] # "closed", UNCHANGED <<exists, reopened>>,
             \A own : Index(w, own) => \E o : Index(w, o)'
      PROVE  Kept
  <2>1. exists
    BY <1>2, <1>4 DEF Facts
  <2> QED
    BY <1>3, <1>4, <2>1
<1> SUFFICES Kept
  BY <1>1, <1>3 DEF IndexInv
<1>5. MemTypes
  BY <1>2 DEF Facts
<1>6. CASE Create(w)
  <2>1. exists'
    BY <1>6 DEF Create
  <2>2. objs = <<>> /\ hash.head = 0 /\ hash.tail = 0
    BY <1>3, <1>6 DEF Create
  <2> QED
    BY <1>5, <1>6, <2>1, <2>2, CreateKeepsIndex
<1>7. CASE OpenAppend(w)
  BY <1>7 DEF OpenAppend
<1>8. CASE Sync(w)
  <2>1. wpc[w] # "closed" /\ UNCHANGED <<exists, reopened>>
    BY <1>8 DEF Sync
  <2> QED
    BY <1>2, <1>4, <1>8, <2>1, SyncKeepsIndex
<1>9. CASE CloseWriter(w) \/ Crash(w)
  <2>1. wpc'[w] = "closed" /\ exists' = exists /\ wpc[w] # "closed"
    BY <1>5, <1>9 DEF CloseWriter, Crash, Goto, fileVars, MemTypes
  <2> QED
    BY <1>2, <2>1 DEF Facts
<1>10. ASSUME NEW D \in SUBSET Data, AppendEntry(w, D) PROVE Kept
  <2>1. wpc[w] # "closed" /\ UNCHANGED <<exists, reopened>>
    BY <1>10 DEF AppendEntry
  <2> QED
    BY <1>2, <1>4, <1>10, <2>1, AppendEntryKeepsIndex
<1>11. ASSUME NEW d \in Data, CachedData(w, d) PROVE Kept
  <2>1. wpc[w] # "closed" /\ UNCHANGED <<exists, reopened>>
    BY <1>11 DEF CachedData, appendOnly, pastVars
  <2> QED
    BY <1>2, <1>4, <1>11, <2>1, CachedDataKeepsIndex
<1>12. ASSUME NEW d \in Data, EnsureField(w, d) PROVE Kept
  <2>1. wpc[w] # "closed" /\ UNCHANGED <<exists, reopened>>
    BY <1>12 DEF EnsureField, appendOnly, pastVars
  <2> QED
    BY <1>2, <1>4, <1>12, <2>1, EnsureFieldKeepsIndex
<1>13. ASSUME NEW d \in Data, AppendData(w, d) PROVE Kept
  <2>1. wpc[w] # "closed" /\ UNCHANGED <<exists, reopened>>
    BY <1>13 DEF AppendData, appendOnly, pastVars
  <2> QED
    BY <1>2, <1>4, <1>13, <2>1, AppendDataKeepsIndex
<1>14. ASSUME NEW d \in items[w], LinkDataToEntry(w, d) PROVE Kept
  <2>1. wpc[w] # "closed" /\ UNCHANGED <<exists, reopened>>
    BY <1>14 DEF LinkDataToEntry, appendOnly, pastVars
  <2> QED
    BY <1>2, <1>4, <1>14, <2>1, LinkDataKeepsIndex
<1>15. CASE WriteEntry(w)
  <2>1. wpc[w] # "closed" /\ UNCHANGED <<exists, reopened>>
    BY <1>15 DEF WriteEntry, appendOnly, pastVars
  <2> QED
    BY <1>2, <1>4, <1>15, <2>1, WriteEntryKeepsIndex
<1>16. CASE WriteArray(w)
  <2>1. wpc[w] # "closed" /\ UNCHANGED <<exists, reopened>>
    BY <1>16 DEF WriteArray, appendOnly, pastVars
  <2> QED
    BY <1>2, <1>4, <1>16, <2>1, WriteArrayKeepsIndex
<1>17. CASE ChainArray(w)
  <2>1. wpc[w] # "closed" /\ UNCHANGED <<exists, reopened>>
    BY <1>17 DEF ChainArray, appendOnly, pastVars
  <2> QED
    BY <1>2, <1>4, <1>17, <2>1, ChainArrayKeepsIndex
<1>18. CASE UpdateHeader(w)
  <2>1. wpc[w] # "closed" /\ UNCHANGED <<exists, reopened>>
    BY <1>18 DEF UpdateHeader, fileVars, pastVars
  <2> QED
    BY <1>2, <1>4, <1>18, <2>1, UpdateHeaderKeepsIndex
<1>19. CASE UNCHANGED <<fileVars, wpc, memVars, pastVars>>
  <2>1. UNCHANGED <<exists, objs, hash, reopened, wpc, fileVars, memVars>>
    BY <1>19 DEF fileVars, pastVars
  <2>2. CASE wpc[w] # "closed"
    BY <1>2, <1>4, <2>1, <2>2, ReaderKeepsIndex
  <2>3. CASE wpc[w] = "closed"
    BY <2>1, <2>3
  <2> QED
    BY <2>2, <2>3
<1>20. \A r \in Readers : OpenRead(r) \/ Refresh(r) \/ NextEntry(r) \/ Seek(r)
          => UNCHANGED <<fileVars, wpc, memVars, pastVars>>
  BY DEF OpenRead, Refresh, NextEntry, Seek, ReaderStep
<1>21. UNCHANGED jfVars => UNCHANGED <<fileVars, wpc, memVars, pastVars>>
  BY DEF jfVars
<1>22. JNext => Writer(w) \/ \E r \in Readers : OpenRead(r) \/ Refresh(r) \/ NextEntry(r) \/ Seek(r)
  BY <1>1 DEF JNext
<1> HIDE DEF Kept
<1> QED
  BY <1>6, <1>7, <1>8, <1>9, <1>10, <1>11, <1>12, <1>13, <1>14, <1>15, <1>16, <1>17, <1>18,
     <1>19, <1>20, <1>21, <1>22 DEF Writer

(* Between the appends of the writer that made the file, the hash table finds every     *)
(* data object that there is, once, and the object lists exactly the entries that have   *)
(* the data, and counts them: linkDataToEntry puts each at the end of the object's own    *)
(* arrays, and no link of the entries' arrays or of the hash chain touches those.        *)
THEOREM IndexIsExactHolds ==
    ASSUME OneWriter
    PROVE  JSpec => [](Fits => IndexIsExact)
<1>1. JInit => JournalInv /\ IndexInv /\ IsSeq(objs)
  <2>1. <<>> \in Seq({})
    OBVIOUS
  <2> QED
    BY <2>1, JInitHolds, JInitIndex DEF JInit, IsSeq
<1>2. IsSeq(objs) /\ (Fits => JournalInv) /\ (Fits => JournalInv)' /\ (Fits => IndexInv)
        /\ [JNext]_jfVars => IsSeq(objs)' /\ (Fits => IndexInv)'
  <2> SUFFICES ASSUME IsSeq(objs), Fits => JournalInv, Fits' => JournalInv', Fits => IndexInv,
                      [JNext]_jfVars
               PROVE  IsSeq(objs)' /\ (Fits' => IndexInv')
    OBVIOUS
  <2> QED
    BY FitsBefore, StepKeepsIndex
<1>3. JournalInv /\ IndexInv => IndexIsExact
  <2> SUFFICES ASSUME JournalInv, IndexInv, ~reopened, \A w \in Writers : wpc[w] = "idle",
                      NEW d \in Data
               PROVE  LET o == Lookup(d) IN
                       IF EntriesWith(d) = {} THEN o = 0
                       ELSE /\ o # 0 /\ Listed(o) = EntriesWith(d)
                            /\ objs[o].n = Cardinality(Listed(o))
    BY DEF IndexIsExact
  <2>1. PICK w \in Writers : wpc[w] = "idle"
    BY DEF OneWriter
  <2>2. PICK own : Index(w, own)
    BY <2>1 DEF IndexInv
  <2>3. FileTypes
    BY FactsHold DEF Facts
  <2> QED
    BY <2>1, <2>2, <2>3, IndexOfIdle
<1> QED
  BY <1>1, <1>2, <1>3, JournalInvariant, PTL DEF JSpec
=============================================================================
