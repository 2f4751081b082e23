--------------------------- MODULE EventLogProofs ---------------------------
(* Proofs about the event log in SQLite, for every number of processes,        *)
(* writers, followers and writes: the ownership of the connections and of the  *)
(* write lock, and that the log implements the append-only log of AppendLog.   *)
EXTENDS EventLog, NumberLemmas, TLAPS

-----------------------------------------------------------------------------
(* The inductive invariant.                                                *)

(* EventTypeOK in two parts: the types, and who holds what.                  *)
TypeInv ==
    /\ pc \in [Threads -> {"idle", "begin", "insert", "fields", "commit", "written",
                           "failed", "poll", "rows", "yield", "ended", "dead"}]
    /\ open \subseteq Procs
    /\ conn \in [Procs -> Threads \cup {NoOne}] /\ lock \in Writers \cup {NoOne}
    /\ writes \in [Writers -> 0..MaxWrites]

OwnerInv ==
    /\ \A w \in Writers : lock = w <=> pc[w] \in {"fields", "commit"}
    /\ \A t \in Threads :
        conn[ProcOf[t]] = t <=> pc[t] \in {"insert", "fields", "commit", "rows"}

(* What EventTypeOK leaves open of the types.                               *)
ShapeInv ==
    /\ events \in Seq([id : Nat, rec : Records])
    /\ tx \in [Writers -> [rec : Records \cup {<<>>}, id : Nat]]
    /\ cursor \in [Followers -> Nat] /\ last \in [Followers -> Nat]
    /\ batch \in [Followers -> SUBSET Nat]

(* A row's id is its place in the order of commits, and every row is indexed.  *)
IdInv ==
    /\ \A i \in 1..Len(events) : events[i].id = i
    /\ indexed = 1..Len(events)

(* A Write in progress has a record; the transaction with the write lock has   *)
(* the id that comes after the last committed one.                           *)
TxInv ==
    \A w \in Writers :
        /\ pc[w] \notin {"idle", "dead"} => tx[w].rec \in Records
        /\ pc[w] \in {"fields", "commit"} => tx[w].id = Len(events) + 1

(* The rows after id m, up to id n, that f's filters select.                   *)
Matching(f, m, n) == {i \in (m + 1)..n : Selects(f, events[i].rec)}

(* Follow is caught up with its cursor except for the rows it has in hand, and *)
(* these are all rows that match up to some committed id.                     *)
CaughtUp(f) ==
    /\ last[f] <= cursor[f] /\ cursor[f] <= Len(events)
    /\ pc[f] \in {"idle", "poll", "rows"} => last[f] = cursor[f]
    /\ pc[f] = "rows" =>
          \E n \in cursor[f]..Len(events) : batch[f] = Matching(f, cursor[f], n)
    /\ pc[f] = "yield" =>
          /\ batch[f] = Matching(f, last[f], cursor[f])
          /\ cursor[f] \in batch[f] \cup {last[f]}

FollowInv == \A f \in Followers : CaughtUp(f)

EventInv == EventTypeOK /\ ShapeInv /\ IdInv /\ TxInv /\ FollowInv

-----------------------------------------------------------------------------
(* Lemmas about the operators.                                             *)

(* ORDER BY e.id: the row that Follow yields next.                            *)
LEMMA MinIsLeast ==
    ASSUME NEW T \in SUBSET Nat, T # {}
    PROVE  Min(T) \in T /\ \A y \in T : Min(T) <= y
<1>1. PICK x \in T : \A y \in T : x <= y
  BY LeastExists, Zenon
<1> QED
  BY <1>1, Zenon DEF Min

(* The id of the last row that a Poll returned.                              *)
LEMMA MaxIsGreatest ==
    ASSUME NEW n \in Nat, NEW T \in SUBSET (0..n), T # {}
    PROVE  Max(T) \in T /\ \A y \in T : Max(T) >= y
<1>1. PICK x \in T : \A y \in T : x >= y
  BY GreatestExists, Zenon
<1> QED
  BY <1>1, Zenon DEF Max

(* AUTOINCREMENT: the highest id in the table is the number of its rows.       *)
LEMMA LastIdIsLen == ASSUME ShapeInv, IdInv PROVE LastId = Len(events)
<1> DEFINE S == {0} \cup {events[i].id : i \in DOMAIN events}
<1>1. Len(events) \in Nat /\ DOMAIN events = 1..Len(events)
  BY DEF ShapeInv
<1>2. \A y \in S : y \in Nat /\ y <= Len(events)
  BY <1>1 DEF IdInv
<1>3. Len(events) \in S
  <2>1. CASE Len(events) = 0
    BY <2>1
  <2>2. CASE Len(events) # 0
    <3>1. Len(events) \in DOMAIN events
      BY <2>2, <1>1
    <3>2. events[Len(events)].id = Len(events)
      BY <3>1, <1>1 DEF IdInv
    <3> QED
      BY <3>1, <3>2
  <2> QED
    BY <2>1, <2>2
<1> HIDE DEF S
<1>4. \A x \in S : (\A y \in S : x >= y) => x = Len(events)
  BY <1>1, <1>2, <1>3
<1>5. Len(events) >= Len(events) /\ \A y \in S : Len(events) >= y
  BY <1>1, <1>2
<1>6. Max(S) = Len(events)
  BY <1>3, <1>4, <1>5, Zenon DEF Max
<1> QED
  BY <1>6, Zenon DEF LastId, S

(* The rows a Poll finds are those after the cursor that the filters select.   *)
LEMMA FoundIsMatching ==
    ASSUME ShapeInv, IdInv, NEW f \in Followers
    PROVE  Found(f) = Matching(f, cursor[f], Len(events))
<1>1. /\ Len(events) \in Nat /\ DOMAIN events = 1..Len(events) /\ cursor[f] \in Nat
  BY DEF ShapeInv
<1>2. Filters[f] = {} => \A rec : Selects(f, rec)
  BY DEF Selects
<1>3. \A k \in DOMAIN events :
         (Filters[f] = {} \/ (events[k].id \in indexed /\ Selects(f, events[k].rec)))
           <=> Selects(f, events[k].rec)
  BY <1>1, <1>2 DEF IdInv
<1>4. {k \in DOMAIN events :
        /\ events[k].id > cursor[f]
        /\ Filters[f] = {} \/ (events[k].id \in indexed /\ Selects(f, events[k].rec))}
      = Matching(f, cursor[f], Len(events))
  BY <1>1, <1>3 DEF IdInv, Matching
<1>5. \A k \in Matching(f, cursor[f], Len(events)) : events[k].id = k
  BY <1>1 DEF IdInv, Matching
<1> QED
  BY <1>4, <1>5, ZenonT(40) DEF Found

(* EventTypeOK is the conjunction of its parts.                              *)
LEMMA TypeParts ==
    tables \in BOOLEAN /\ TypeInv /\ OwnerInv /\ ShapeInv => EventTypeOK
<1> SUFFICES ASSUME tables \in BOOLEAN, TypeInv, OwnerInv, ShapeInv PROVE EventTypeOK
  OBVIOUS
<1>1. ASSUME NEW i \in DOMAIN events
      PROVE  events[i].id \in Nat /\ events[i].rec \in Records
  <2> DEFINE R == [id : Nat, rec : Records]
  <2>1. events \in Seq(R)
    BY DEF ShapeInv
  <2>2. events[i] \in R
    <3> HIDE DEF R
    <3> QED
      BY <2>1
  <2> QED
    BY <2>2
<1>2. \A w \in Writers : tx[w].id \in Nat /\ tx[w].rec \in Records \cup {<<>>}
  BY DEF ShapeInv
<1>3. \A f \in Followers : cursor[f] \in Nat /\ last[f] \in Nat
  BY DEF ShapeInv
<1> QED
  BY <1>1, <1>2, <1>3, Zenon DEF TypeInv, OwnerInv, EventTypeOK

(* Poll moves the cursor to the last row it returns, or leaves it: the rows in *)
(* hand are then exactly those between the old and the new cursor.            *)
LEMMA CursorMoves ==
    ASSUME ShapeInv, FollowInv, NEW f \in Followers, pc[f] = "rows"
    PROVE  LET c == Max(batch[f] \cup {cursor[f]}) IN
           /\ c \in Nat /\ cursor[f] <= c /\ c <= Len(events)
           /\ batch[f] = Matching(f, cursor[f], c)
           /\ c \in batch[f] \cup {cursor[f]}
<1> DEFINE T == batch[f] \cup {cursor[f]}
           c == Max(T)
<1>1. Len(events) \in Nat /\ cursor[f] \in Nat /\ cursor[f] <= Len(events)
  BY DEF ShapeInv, FollowInv, CaughtUp
<1>2. PICK n \in cursor[f]..Len(events) : batch[f] = Matching(f, cursor[f], n)
  BY DEF FollowInv, CaughtUp
<1>3. T \in SUBSET (0..Len(events)) /\ T # {}
  BY <1>1, <1>2 DEF Matching
<1>4. c \in T /\ \A y \in T : c >= y
  <2> HIDE DEF T
  <2> QED
    BY <1>1, <1>3, MaxIsGreatest, Zenon
<1> HIDE DEF c
<1>5. c \in Nat /\ cursor[f] <= c /\ c <= n
  BY <1>1, <1>2, <1>4 DEF Matching
<1>6. batch[f] = Matching(f, cursor[f], c)
  BY <1>1, <1>2, <1>4, <1>5 DEF Matching
<1> QED
  BY <1>1, <1>2, <1>4, <1>5, <1>6 DEF c

(* Follow yields the first row in hand: no row that matches is before it, and   *)
(* the others are still in hand.                                           *)
LEMMA YieldMoves ==
    ASSUME ShapeInv, FollowInv, NEW f \in Followers, pc[f] = "yield", batch[f] # {}
    PROVE  LET m == Min(batch[f]) IN
           /\ m \in Nat /\ last[f] < m /\ m <= cursor[f]
           /\ Selects(f, events[m].rec)
           /\ \A j \in (last[f] + 1)..(m - 1) : ~Selects(f, events[j].rec)
           /\ batch[f] \ {m} = Matching(f, m, cursor[f])
           /\ cursor[f] \in (batch[f] \ {m}) \cup {m}
<1> DEFINE m == Min(batch[f])
<1>1. /\ cursor[f] \in Nat /\ last[f] \in Nat /\ batch[f] \in SUBSET Nat
      /\ last[f] <= cursor[f]
      /\ batch[f] = Matching(f, last[f], cursor[f])
      /\ cursor[f] \in batch[f] \cup {last[f]}
  BY DEF ShapeInv, FollowInv, CaughtUp
<1>2. m \in batch[f] /\ \A y \in batch[f] : m <= y
  BY <1>1, MinIsLeast, Zenon
<1> HIDE DEF m
<1>3. m \in Nat /\ last[f] < m /\ m <= cursor[f] /\ Selects(f, events[m].rec)
  BY <1>1, <1>2 DEF Matching
<1>4. \A j \in (last[f] + 1)..(m - 1) : ~Selects(f, events[j].rec)
  BY <1>1, <1>2, <1>3 DEF Matching
<1>5. batch[f] \ {m} = Matching(f, m, cursor[f])
  BY <1>1, <1>2, <1>3 DEF Matching
<1>6. cursor[f] \in (batch[f] \ {m}) \cup {m}
  BY <1>1, <1>2, <1>3
<1> QED
  BY <1>3, <1>4, <1>5, <1>6 DEF m

-----------------------------------------------------------------------------
(* The invariant is inductive.                                             *)

(* Nothing is open, in progress or committed when the first process starts.   *)
LEMMA EventInitInv == EventInit => EventInv
<1> SUFFICES ASSUME EventInit PROVE EventInv
  OBVIOUS
<1> USE EventLogAssumption DEF EventLogAssumption, EventInit, NoTx, Threads
<1>1. tables \in BOOLEAN /\ TypeInv
  <2>1. tables \in BOOLEAN
    BY Zenon
  <2> QED
    BY <2>1 DEF TypeInv
<1>2. OwnerInv
  BY DEF OwnerInv
<1>3. ShapeInv
  BY DEF ShapeInv
<1>4. IdInv /\ TxInv
  BY DEF IdInv, TxInv
<1>5. FollowInv
  BY DEF FollowInv, CaughtUp
<1> QED
  BY <1>1, <1>2, <1>3, <1>4, <1>5, TypeParts, Zenon DEF EventInv

(* CREATE TABLE IF NOT EXISTS.                                             *)
LEMMA TablesStep == EventInv /\ [EventNext]_eventVars => (tables \in BOOLEAN)'
<1> SUFFICES ASSUME EventInv, [EventNext]_eventVars PROVE (tables \in BOOLEAN)'
  OBVIOUS
<1> USE DEF EventInv, EventTypeOK, eventVars, dbVars, writeVars, followVars, Go, Take, Release
<1>1. ASSUME NEW w \in Writers, BeginTx(w) PROVE (tables \in BOOLEAN)'
  BY <1>1, Zenon DEF BeginTx
<1>2. ASSUME NEW w \in Writers, BeginFails(w) PROVE (tables \in BOOLEAN)'
  BY <1>2, Zenon DEF BeginFails
<1>3. ASSUME NEW w \in Writers, InsertEvent(w) PROVE (tables \in BOOLEAN)'
  BY <1>3, Zenon DEF InsertEvent
<1>4. ASSUME NEW w \in Writers, Busy(w) PROVE (tables \in BOOLEAN)'
  BY <1>4, Zenon DEF Busy
<1>5. ASSUME NEW w \in Writers, InsertFields(w) PROVE (tables \in BOOLEAN)'
  BY <1>5, Zenon DEF InsertFields
<1>6. ASSUME NEW w \in Writers, Commit(w) PROVE (tables \in BOOLEAN)'
  BY <1>6, Zenon DEF Commit
<1>7. ASSUME NEW w \in Writers, Rollback(w) PROVE (tables \in BOOLEAN)'
  BY <1>7, Zenon DEF Rollback
<1>8. ASSUME NEW w \in Writers, WriteReturn(w) PROVE (tables \in BOOLEAN)'
  BY <1>8, Zenon DEF WriteReturn
<1>9. ASSUME NEW f \in Followers, Query(f) PROVE (tables \in BOOLEAN)'
  BY <1>9, Zenon DEF Query
<1>10. ASSUME NEW f \in Followers, CloseRows(f) PROVE (tables \in BOOLEAN)'
  BY <1>10, Zenon DEF CloseRows
<1>11. ASSUME NEW f \in Followers, PollFails(f) PROVE (tables \in BOOLEAN)'
  BY <1>11, Zenon DEF PollFails
<1>12. ASSUME NEW f \in Followers, Yield(f) PROVE (tables \in BOOLEAN)'
  BY <1>12, Zenon DEF Yield
<1>13. ASSUME NEW f \in Followers, Sleep(f) PROVE (tables \in BOOLEAN)'
  BY <1>13, Zenon DEF Sleep
<1>14. ASSUME NEW f \in Followers, StartFollow(f) PROVE (tables \in BOOLEAN)'
  BY <1>14, Zenon DEF StartFollow
<1>15. ASSUME NEW f \in Followers, StopFollow(f) PROVE (tables \in BOOLEAN)'
  BY <1>15, Zenon DEF StopFollow
<1>16. ASSUME NEW p \in Procs, OpenSQLite(p) PROVE (tables \in BOOLEAN)'
  BY <1>16, Zenon DEF OpenSQLite
<1>17. ASSUME NEW p \in Procs, Killed(p) PROVE (tables \in BOOLEAN)'
  BY <1>17, Zenon DEF Killed
<1>18. ASSUME NEW w \in Writers, NEW r \in Records, Write(w, r) PROVE (tables \in BOOLEAN)'
  BY <1>18, Zenon DEF Write
<1>19. CASE UNCHANGED eventVars
  BY <1>19, Zenon DEF eventVars
<1> QED
  BY <1>1, <1>2, <1>3, <1>4, <1>5, <1>6, <1>7, <1>8, <1>9,
     <1>10, <1>11, <1>12, <1>13, <1>14, <1>15, <1>16, <1>17, <1>18, <1>19
  DEF EventNext, WriterStep, FollowerStep

(* The types that EventTypeOK leaves open.                                  *)
LEMMA ShapeStep == EventInv /\ [EventNext]_eventVars => ShapeInv'
<1> SUFFICES ASSUME EventInv, [EventNext]_eventVars PROVE ShapeInv'
  OBVIOUS
<1> USE EventLogAssumption DEF EventLogAssumption, EventInv, ShapeInv, eventVars, dbVars, writeVars, followVars, Go, Take, Release, NoTx
<1>1. ASSUME NEW w \in Writers, BeginTx(w) PROVE ShapeInv'
  BY <1>1 DEF BeginTx
<1>2. ASSUME NEW w \in Writers, BeginFails(w) PROVE ShapeInv'
  BY <1>2 DEF BeginFails
<1>3. ASSUME NEW w \in Writers, InsertEvent(w) PROVE ShapeInv'
  <2>1. LastId + 1 \in Nat
    BY LastIdIsLen
  <2>2. tx' = [tx EXCEPT ![w].id = LastId + 1] /\ UNCHANGED <<events, cursor, last, batch>>
    BY <1>3, Zenon DEF InsertEvent
  <2> QED
    BY <2>1, <2>2
<1>4. ASSUME NEW w \in Writers, Busy(w) PROVE ShapeInv'
  BY <1>4 DEF Busy
<1>5. ASSUME NEW w \in Writers, InsertFields(w) PROVE ShapeInv'
  BY <1>5 DEF InsertFields
<1>6. ASSUME NEW w \in Writers, Commit(w) PROVE ShapeInv'
  <2>1. tx[w].rec \in Records /\ tx[w].id \in Nat
    BY <1>6 DEF Commit, TxInv
  <2>2. [id |-> tx[w].id, rec |-> tx[w].rec] \in [id : Nat, rec : Records]
    BY <2>1
  <2>3. events' \in Seq([id : Nat, rec : Records])
    BY <1>6, <2>2 DEF Commit
  <2> QED
    BY <1>6, <2>3 DEF Commit
<1>7. ASSUME NEW w \in Writers, Rollback(w) PROVE ShapeInv'
  BY <1>7 DEF Rollback
<1>8. ASSUME NEW w \in Writers, WriteReturn(w) PROVE ShapeInv'
  BY <1>8 DEF WriteReturn
<1>9. ASSUME NEW f \in Followers, Query(f) PROVE ShapeInv'
  <2>1. Found(f) \in SUBSET Nat
    BY FoundIsMatching DEF Matching
  <2> QED
    BY <1>9, <2>1 DEF Query
<1>10. ASSUME NEW f \in Followers, CloseRows(f) PROVE ShapeInv'
  BY <1>10, CursorMoves DEF CloseRows
<1>11. ASSUME NEW f \in Followers, PollFails(f) PROVE ShapeInv'
  BY <1>11 DEF PollFails
<1>12. ASSUME NEW f \in Followers, Yield(f) PROVE ShapeInv'
  <2>1. Min(batch[f]) \in Nat
    BY <1>12, YieldMoves DEF Yield
  <2> QED
    BY <1>12, <2>1 DEF Yield
<1>13. ASSUME NEW f \in Followers, Sleep(f) PROVE ShapeInv'
  BY <1>13 DEF Sleep
<1>14. ASSUME NEW f \in Followers, StartFollow(f) PROVE ShapeInv'
  BY <1>14 DEF StartFollow
<1>15. ASSUME NEW f \in Followers, StopFollow(f) PROVE ShapeInv'
  BY <1>15 DEF StopFollow
<1>16. ASSUME NEW p \in Procs, OpenSQLite(p) PROVE ShapeInv'
  BY <1>16 DEF OpenSQLite
<1>17. ASSUME NEW p \in Procs, Killed(p) PROVE ShapeInv'
  BY <1>17 DEF Killed
<1>18. ASSUME NEW w \in Writers, NEW r \in Records, Write(w, r) PROVE ShapeInv'
  BY <1>18 DEF Write
<1>19. CASE UNCHANGED eventVars
  BY <1>19 DEF eventVars
<1> QED
  BY <1>1, <1>2, <1>3, <1>4, <1>5, <1>6, <1>7, <1>8, <1>9,
     <1>10, <1>11, <1>12, <1>13, <1>14, <1>15, <1>16, <1>17, <1>18, <1>19
  DEF EventNext, WriterStep, FollowerStep

(* Each step keeps the types of the program counters, the locks and counters. *)
LEMMA TypeStep == EventInv /\ [EventNext]_eventVars => TypeInv'
<1> SUFFICES ASSUME EventInv, [EventNext]_eventVars PROVE TypeInv'
  OBVIOUS
<1> USE EventLogAssumption DEF EventLogAssumption, EventInv, EventTypeOK, TypeInv, Threads, eventVars, dbVars, writeVars, followVars, Go, Take, Release
<1>1. ASSUME NEW w \in Writers, BeginTx(w) PROVE TypeInv'
  BY <1>1 DEF BeginTx
<1>2. ASSUME NEW w \in Writers, BeginFails(w) PROVE TypeInv'
  BY <1>2 DEF BeginFails
<1>3. ASSUME NEW w \in Writers, InsertEvent(w) PROVE TypeInv'
  BY <1>3 DEF InsertEvent
<1>4. ASSUME NEW w \in Writers, Busy(w) PROVE TypeInv'
  BY <1>4 DEF Busy
<1>5. ASSUME NEW w \in Writers, InsertFields(w) PROVE TypeInv'
  BY <1>5 DEF InsertFields
<1>6. ASSUME NEW w \in Writers, Commit(w) PROVE TypeInv'
  BY <1>6 DEF Commit
<1>7. ASSUME NEW w \in Writers, Rollback(w) PROVE TypeInv'
  BY <1>7 DEF Rollback
<1>8. ASSUME NEW w \in Writers, WriteReturn(w) PROVE TypeInv'
  BY <1>8 DEF WriteReturn
<1>9. ASSUME NEW f \in Followers, Query(f) PROVE TypeInv'
  BY <1>9 DEF Query
<1>10. ASSUME NEW f \in Followers, CloseRows(f) PROVE TypeInv'
  BY <1>10 DEF CloseRows
<1>11. ASSUME NEW f \in Followers, PollFails(f) PROVE TypeInv'
  BY <1>11 DEF PollFails
<1>12. ASSUME NEW f \in Followers, Yield(f) PROVE TypeInv'
  BY <1>12 DEF Yield
<1>13. ASSUME NEW f \in Followers, Sleep(f) PROVE TypeInv'
  BY <1>13 DEF Sleep
<1>14. ASSUME NEW f \in Followers, StartFollow(f) PROVE TypeInv'
  BY <1>14 DEF StartFollow
<1>15. ASSUME NEW f \in Followers, StopFollow(f) PROVE TypeInv'
  BY <1>15 DEF StopFollow
<1>16. ASSUME NEW p \in Procs, OpenSQLite(p) PROVE TypeInv'
  BY <1>16 DEF OpenSQLite
<1>17. ASSUME NEW p \in Procs, Killed(p) PROVE TypeInv'
  BY <1>17 DEF Killed
<1>18. ASSUME NEW w \in Writers, NEW r \in Records, Write(w, r) PROVE TypeInv'
  BY <1>18 DEF Write
<1>19. CASE UNCHANGED eventVars
  BY <1>19 DEF eventVars
<1> QED
  BY <1>1, <1>2, <1>3, <1>4, <1>5, <1>6, <1>7, <1>8, <1>9,
     <1>10, <1>11, <1>12, <1>13, <1>14, <1>15, <1>16, <1>17, <1>18, <1>19
  DEF EventNext, WriterStep, FollowerStep

(* The connection and the write lock are taken and given back together with   *)
(* the steps that need them, and a killed process gives back what it had.     *)
LEMMA OwnerStep == EventInv /\ [EventNext]_eventVars => OwnerInv'
<1> SUFFICES ASSUME EventInv, [EventNext]_eventVars PROVE OwnerInv'
  OBVIOUS
<1> USE EventLogAssumption DEF EventLogAssumption, EventInv, EventTypeOK, OwnerInv, Threads, eventVars, dbVars, writeVars, followVars, Go, Take, Release
<1>1. ASSUME NEW w \in Writers, BeginTx(w) PROVE OwnerInv'
  BY <1>1 DEF BeginTx
<1>2. ASSUME NEW w \in Writers, BeginFails(w) PROVE OwnerInv'
  BY <1>2 DEF BeginFails
<1>3. ASSUME NEW w \in Writers, InsertEvent(w) PROVE OwnerInv'
  BY <1>3 DEF InsertEvent
<1>4. ASSUME NEW w \in Writers, Busy(w) PROVE OwnerInv'
  BY <1>4 DEF Busy
<1>5. ASSUME NEW w \in Writers, InsertFields(w) PROVE OwnerInv'
  BY <1>5 DEF InsertFields
<1>6. ASSUME NEW w \in Writers, Commit(w) PROVE OwnerInv'
  BY <1>6 DEF Commit
<1>7. ASSUME NEW w \in Writers, Rollback(w) PROVE OwnerInv'
  BY <1>7 DEF Rollback
<1>8. ASSUME NEW w \in Writers, WriteReturn(w) PROVE OwnerInv'
  BY <1>8 DEF WriteReturn
<1>9. ASSUME NEW f \in Followers, Query(f) PROVE OwnerInv'
  BY <1>9 DEF Query
<1>10. ASSUME NEW f \in Followers, CloseRows(f) PROVE OwnerInv'
  BY <1>10 DEF CloseRows
<1>11. ASSUME NEW f \in Followers, PollFails(f) PROVE OwnerInv'
  BY <1>11 DEF PollFails
<1>12. ASSUME NEW f \in Followers, Yield(f) PROVE OwnerInv'
  BY <1>12 DEF Yield
<1>13. ASSUME NEW f \in Followers, Sleep(f) PROVE OwnerInv'
  BY <1>13 DEF Sleep
<1>14. ASSUME NEW f \in Followers, StartFollow(f) PROVE OwnerInv'
  BY <1>14 DEF StartFollow
<1>15. ASSUME NEW f \in Followers, StopFollow(f) PROVE OwnerInv'
  BY <1>15 DEF StopFollow
<1>16. ASSUME NEW p \in Procs, OpenSQLite(p) PROVE OwnerInv'
  BY <1>16 DEF OpenSQLite
<1>17. ASSUME NEW p \in Procs, Killed(p) PROVE OwnerInv'
  BY <1>17 DEF Killed
<1>18. ASSUME NEW w \in Writers, NEW r \in Records, Write(w, r) PROVE OwnerInv'
  BY <1>18 DEF Write
<1>19. CASE UNCHANGED eventVars
  BY <1>19 DEF eventVars
<1> QED
  BY <1>1, <1>2, <1>3, <1>4, <1>5, <1>6, <1>7, <1>8, <1>9,
     <1>10, <1>11, <1>12, <1>13, <1>14, <1>15, <1>16, <1>17, <1>18, <1>19
  DEF EventNext, WriterStep, FollowerStep

(* A row is committed by the holder of the write lock, with the next id.      *)
LEMMA IdStep == EventInv /\ [EventNext]_eventVars => IdInv'
<1> SUFFICES ASSUME EventInv, [EventNext]_eventVars PROVE IdInv'
  OBVIOUS
<1> USE DEF EventInv, ShapeInv, IdInv, eventVars, dbVars, writeVars, followVars, Go, Take, Release
<1>1. ASSUME NEW w \in Writers, BeginTx(w) PROVE IdInv'
  BY <1>1 DEF BeginTx
<1>2. ASSUME NEW w \in Writers, BeginFails(w) PROVE IdInv'
  BY <1>2 DEF BeginFails
<1>3. ASSUME NEW w \in Writers, InsertEvent(w) PROVE IdInv'
  BY <1>3 DEF InsertEvent
<1>4. ASSUME NEW w \in Writers, Busy(w) PROVE IdInv'
  BY <1>4 DEF Busy
<1>5. ASSUME NEW w \in Writers, InsertFields(w) PROVE IdInv'
  BY <1>5 DEF InsertFields
<1>6. ASSUME NEW w \in Writers, Commit(w) PROVE IdInv'
  <2>1. tx[w].id = Len(events) + 1 /\ Len(events) \in Nat
    BY <1>6 DEF Commit, TxInv
  <2>2. events' = Append(events, [id |-> Len(events) + 1, rec |-> tx[w].rec])
    BY <1>6, <2>1 DEF Commit
  <2>3. /\ Len(events') = Len(events) + 1
        /\ \A i \in 1..Len(events) : events'[i] = events[i]
        /\ events'[Len(events) + 1].id = Len(events) + 1
    BY <2>1, <2>2
  <2>4. indexed' = 1..Len(events')
    BY <1>6, <2>1, <2>3 DEF Commit
  <2>5. ASSUME NEW i \in 1..Len(events') PROVE events'[i].id = i
    <3>1. CASE i \in 1..Len(events)
      <4>1. events'[i] = events[i]
        BY <3>1, <2>3
      <4>2. events[i].id = i
        BY <3>1
      <4> QED
        BY <4>1, <4>2, Zenon
    <3>2. CASE i = Len(events) + 1
      BY <3>2, <2>3, Zenon
    <3> QED
      BY <2>1, <2>3, <3>1, <3>2
  <2> QED
    BY <2>4, <2>5
<1>7. ASSUME NEW w \in Writers, Rollback(w) PROVE IdInv'
  BY <1>7 DEF Rollback
<1>8. ASSUME NEW w \in Writers, WriteReturn(w) PROVE IdInv'
  BY <1>8 DEF WriteReturn
<1>9. ASSUME NEW f \in Followers, Query(f) PROVE IdInv'
  BY <1>9 DEF Query
<1>10. ASSUME NEW f \in Followers, CloseRows(f) PROVE IdInv'
  BY <1>10 DEF CloseRows
<1>11. ASSUME NEW f \in Followers, PollFails(f) PROVE IdInv'
  BY <1>11 DEF PollFails
<1>12. ASSUME NEW f \in Followers, Yield(f) PROVE IdInv'
  BY <1>12 DEF Yield
<1>13. ASSUME NEW f \in Followers, Sleep(f) PROVE IdInv'
  BY <1>13 DEF Sleep
<1>14. ASSUME NEW f \in Followers, StartFollow(f) PROVE IdInv'
  BY <1>14 DEF StartFollow
<1>15. ASSUME NEW f \in Followers, StopFollow(f) PROVE IdInv'
  BY <1>15 DEF StopFollow
<1>16. ASSUME NEW p \in Procs, OpenSQLite(p) PROVE IdInv'
  BY <1>16 DEF OpenSQLite
<1>17. ASSUME NEW p \in Procs, Killed(p) PROVE IdInv'
  BY <1>17 DEF Killed
<1>18. ASSUME NEW w \in Writers, NEW r \in Records, Write(w, r) PROVE IdInv'
  BY <1>18 DEF Write
<1>19. CASE UNCHANGED eventVars
  BY <1>19 DEF eventVars
<1> QED
  BY <1>1, <1>2, <1>3, <1>4, <1>5, <1>6, <1>7, <1>8, <1>9,
     <1>10, <1>11, <1>12, <1>13, <1>14, <1>15, <1>16, <1>17, <1>18, <1>19
  DEF EventNext, WriterStep, FollowerStep

(* The rows do not grow while a transaction holds the write lock.             *)
LEMMA TxStep == EventInv /\ [EventNext]_eventVars => TxInv'
<1> SUFFICES ASSUME EventInv, [EventNext]_eventVars PROVE TxInv'
  OBVIOUS
<1> USE EventLogAssumption DEF EventLogAssumption, EventInv, ShapeInv, EventTypeOK, TxInv, Threads, NoTx, eventVars, dbVars, writeVars, followVars, Go, Take, Release
<1>1. ASSUME NEW w \in Writers, BeginTx(w) PROVE TxInv'
  BY <1>1 DEF BeginTx
<1>2. ASSUME NEW w \in Writers, BeginFails(w) PROVE TxInv'
  BY <1>2 DEF BeginFails
<1>3. ASSUME NEW w \in Writers, InsertEvent(w) PROVE TxInv'
  BY <1>3, LastIdIsLen DEF InsertEvent
<1>4. ASSUME NEW w \in Writers, Busy(w) PROVE TxInv'
  BY <1>4 DEF Busy
<1>5. ASSUME NEW w \in Writers, InsertFields(w) PROVE TxInv'
  BY <1>5 DEF InsertFields
<1>6. ASSUME NEW w \in Writers, Commit(w) PROVE TxInv'
  BY <1>6 DEF Commit
<1>7. ASSUME NEW w \in Writers, Rollback(w) PROVE TxInv'
  BY <1>7 DEF Rollback
<1>8. ASSUME NEW w \in Writers, WriteReturn(w) PROVE TxInv'
  BY <1>8 DEF WriteReturn
<1>9. ASSUME NEW f \in Followers, Query(f) PROVE TxInv'
  BY <1>9 DEF Query
<1>10. ASSUME NEW f \in Followers, CloseRows(f) PROVE TxInv'
  BY <1>10 DEF CloseRows
<1>11. ASSUME NEW f \in Followers, PollFails(f) PROVE TxInv'
  BY <1>11 DEF PollFails
<1>12. ASSUME NEW f \in Followers, Yield(f) PROVE TxInv'
  BY <1>12 DEF Yield
<1>13. ASSUME NEW f \in Followers, Sleep(f) PROVE TxInv'
  BY <1>13 DEF Sleep
<1>14. ASSUME NEW f \in Followers, StartFollow(f) PROVE TxInv'
  BY <1>14 DEF StartFollow
<1>15. ASSUME NEW f \in Followers, StopFollow(f) PROVE TxInv'
  BY <1>15 DEF StopFollow
<1>16. ASSUME NEW p \in Procs, OpenSQLite(p) PROVE TxInv'
  BY <1>16 DEF OpenSQLite
<1>17. ASSUME NEW p \in Procs, Killed(p) PROVE TxInv'
  BY <1>17 DEF Killed
<1>18. ASSUME NEW w \in Writers, NEW r \in Records, Write(w, r) PROVE TxInv'
  BY <1>18 DEF Write
<1>19. CASE UNCHANGED eventVars
  BY <1>19 DEF eventVars
<1> QED
  BY <1>1, <1>2, <1>3, <1>4, <1>5, <1>6, <1>7, <1>8, <1>9,
     <1>10, <1>11, <1>12, <1>13, <1>14, <1>15, <1>16, <1>17, <1>18, <1>19
  DEF EventNext, WriterStep, FollowerStep

(* A step of a follower keeps it caught up; no other step disturbs it, because *)
(* rows are only added behind its cursor.                                   *)
LEMMA FollowStep == EventInv /\ [EventNext]_eventVars => FollowInv'
<1> SUFFICES ASSUME EventInv, [EventNext]_eventVars PROVE FollowInv'
  OBVIOUS
<1> USE EventLogAssumption DEF EventLogAssumption, EventInv, ShapeInv, EventTypeOK, FollowInv, Threads,
        eventVars, dbVars, writeVars, followVars, Go, Take, Release
<1>1. ASSUME NEW w \in Writers, BeginTx(w) PROVE FollowInv'
  BY <1>1 DEF BeginTx, CaughtUp, Matching
<1>2. ASSUME NEW w \in Writers, BeginFails(w) PROVE FollowInv'
  BY <1>2 DEF BeginFails, CaughtUp, Matching
<1>3. ASSUME NEW w \in Writers, InsertEvent(w) PROVE FollowInv'
  BY <1>3 DEF InsertEvent, CaughtUp, Matching
<1>4. ASSUME NEW w \in Writers, Busy(w) PROVE FollowInv'
  BY <1>4 DEF Busy, CaughtUp, Matching
<1>5. ASSUME NEW w \in Writers, InsertFields(w) PROVE FollowInv'
  BY <1>5 DEF InsertFields, CaughtUp, Matching
<1>6. ASSUME NEW w \in Writers, Commit(w) PROVE FollowInv'
  <2> SUFFICES ASSUME NEW f \in Followers PROVE CaughtUp(f)'
    OBVIOUS
  <2>1. Len(events) \in Nat /\ cursor[f] \in Nat /\ last[f] \in Nat
    OBVIOUS
  <2>2. /\ Len(events') = Len(events) + 1
        /\ \A i \in 1..Len(events) : events'[i] = events[i]
    BY <1>6 DEF Commit
  <2>3. ASSUME NEW m \in Nat, NEW n \in Nat, n <= Len(events)
        PROVE  {i \in (m + 1)..n : Selects(f, events'[i].rec)} = Matching(f, m, n)
    <3>1. ASSUME NEW i \in (m + 1)..n PROVE events'[i] = events[i]
      <4>1. i \in 1..Len(events)
        BY <2>1, <2>3
      <4> QED
        BY <2>2, <4>1, Zenon
    <3> QED
      BY <3>1, ZenonT(40) DEF Matching
  <2>4. CaughtUp(f) /\ pc'[f] = pc[f] /\ UNCHANGED <<cursor, last, batch>>
    BY <1>6 DEF Commit
  <2>5. pc[f] = "rows" =>
          \E n \in cursor[f]..Len(events') :
             batch[f] = {i \in (cursor[f] + 1)..n : Selects(f, events'[i].rec)}
    <3> SUFFICES ASSUME pc[f] = "rows"
                 PROVE  \E n \in cursor[f]..Len(events') :
             batch[f] = {i \in (cursor[f] + 1)..n : Selects(f, events'[i].rec)}
      OBVIOUS
    <3>1. PICK n \in cursor[f]..Len(events) : batch[f] = Matching(f, cursor[f], n)
      BY <2>4 DEF CaughtUp
    <3>2. n \in Nat /\ n <= Len(events) /\ n \in cursor[f]..Len(events')
      BY <2>1, <2>2
    <3>3. batch[f] = {i \in (cursor[f] + 1)..n : Selects(f, events'[i].rec)}
      BY <2>1, <2>3, <3>1, <3>2
    <3> QED
      BY <3>2, <3>3
  <2>6. cursor[f] <= Len(events)
    BY <2>4 DEF CaughtUp
  <2>7. {i \in (last[f] + 1)..cursor[f] : Selects(f, events'[i].rec)}
          = Matching(f, last[f], cursor[f])
    BY <2>1, <2>3, <2>6, Zenon
  <2> QED
    BY <2>1, <2>2, <2>4, <2>5, <2>7 DEF CaughtUp, Matching
<1>7. ASSUME NEW w \in Writers, Rollback(w) PROVE FollowInv'
  BY <1>7 DEF Rollback, CaughtUp, Matching
<1>8. ASSUME NEW w \in Writers, WriteReturn(w) PROVE FollowInv'
  BY <1>8 DEF WriteReturn, CaughtUp, Matching
<1>9. ASSUME NEW f \in Followers, Query(f) PROVE FollowInv'
  <2>1. ASSUME NEW g \in Followers, g # f PROVE CaughtUp(g)'
    BY <1>9, <2>1 DEF Query, CaughtUp, Matching
  <2>2. batch'[f] = Matching(f, cursor[f], Len(events))'
    BY <1>9, FoundIsMatching DEF Query, Matching
  <2>3. CaughtUp(f)'
    BY <1>9, <2>2 DEF Query, CaughtUp
  <2> QED
    BY <2>1, <2>3
<1>10. ASSUME NEW f \in Followers, CloseRows(f) PROVE FollowInv'
  <2>1. ASSUME NEW g \in Followers, g # f PROVE CaughtUp(g)'
    BY <1>10, <2>1 DEF CloseRows, CaughtUp, Matching
  <2> DEFINE c == Max(batch[f] \cup {cursor[f]})
  <2>2. /\ c \in Nat /\ cursor[f] <= c /\ c <= Len(events)
        /\ batch[f] = Matching(f, cursor[f], c)
        /\ c \in batch[f] \cup {cursor[f]}
    BY <1>10, CursorMoves DEF CloseRows
  <2>3. last[f] = cursor[f]
    BY <1>10 DEF CloseRows, CaughtUp
  <2>4. pc'[f] = "yield" /\ cursor'[f] = c /\ UNCHANGED <<events, last, batch>>
    BY <1>10 DEF CloseRows
  <2> HIDE DEF c
  <2>5. CaughtUp(f)'
    BY <2>2, <2>3, <2>4, SMTT(20) DEF CaughtUp, Matching
  <2> QED
    BY <2>1, <2>5
<1>11. ASSUME NEW f \in Followers, PollFails(f) PROVE FollowInv'
  BY <1>11 DEF PollFails, CaughtUp, Matching
<1>12. ASSUME NEW f \in Followers, Yield(f) PROVE FollowInv'
  <2>1. ASSUME NEW g \in Followers, g # f PROVE CaughtUp(g)'
    BY <1>12, <2>1 DEF Yield, CaughtUp, Matching
  <2> DEFINE m == Min(batch[f])
  <2>2. /\ m \in Nat /\ last[f] < m /\ m <= cursor[f]
        /\ batch[f] \ {m} = Matching(f, m, cursor[f])
        /\ cursor[f] \in (batch[f] \ {m}) \cup {m}
    BY <1>12, YieldMoves DEF Yield
  <2>3. /\ pc'[f] = "yield" /\ last'[f] = m /\ batch'[f] = batch[f] \ {m}
        /\ UNCHANGED <<events, cursor>>
    BY <1>12 DEF Yield
  <2>4. cursor[f] <= Len(events)
    BY DEF CaughtUp
  <2> HIDE DEF m
  <2>5. CaughtUp(f)'
    BY <2>2, <2>3, <2>4 DEF CaughtUp, Matching
  <2> QED
    BY <2>1, <2>5
<1>13. ASSUME NEW f \in Followers, Sleep(f) PROVE FollowInv'
  BY <1>13 DEF Sleep, CaughtUp, Matching
<1>14. ASSUME NEW f \in Followers, StartFollow(f) PROVE FollowInv'
  BY <1>14 DEF StartFollow, CaughtUp, Matching
<1>15. ASSUME NEW f \in Followers, StopFollow(f) PROVE FollowInv'
  BY <1>15 DEF StopFollow, CaughtUp, Matching
<1>16. ASSUME NEW p \in Procs, OpenSQLite(p) PROVE FollowInv'
  BY <1>16 DEF OpenSQLite, CaughtUp, Matching
<1>17. ASSUME NEW p \in Procs, Killed(p) PROVE FollowInv'
  BY <1>17 DEF Killed, CaughtUp, Matching
<1>18. ASSUME NEW w \in Writers, NEW r \in Records, Write(w, r) PROVE FollowInv'
  BY <1>18 DEF Write, CaughtUp, Matching
<1>19. CASE UNCHANGED eventVars
  BY <1>19 DEF eventVars, CaughtUp, Matching
<1> QED
  BY <1>1, <1>2, <1>3, <1>4, <1>5, <1>6, <1>7, <1>8, <1>9,
     <1>10, <1>11, <1>12, <1>13, <1>14, <1>15, <1>16, <1>17, <1>18, <1>19
  DEF EventNext, WriterStep, FollowerStep

(* Every step keeps the invariant.                                          *)
LEMMA EventStepInv == EventInv /\ [EventNext]_eventVars => EventInv'
<1> SUFFICES ASSUME EventInv, [EventNext]_eventVars PROVE EventInv'
  OBVIOUS
<1>1. (tables \in BOOLEAN)' /\ TypeInv' /\ OwnerInv' /\ ShapeInv'
  BY TablesStep, TypeStep, OwnerStep, ShapeStep
<1>2. EventTypeOK'
  BY <1>1, TypeParts, PTL
<1> QED
  BY <1>1, <1>2, IdStep, TxStep, FollowStep DEF EventInv

(* The invariant holds in every reachable state.                            *)
THEOREM EventInvariant == EventSpec => []EventInv
<1>1. EventInit => EventInv
  BY EventInitInv
<1>2. EventInv /\ [EventNext]_eventVars => EventInv'
  BY EventStepInv
<1> QED
  BY <1>1, <1>2, PTL DEF EventSpec

(* Types, and mutual exclusion: the connection of a process and the write lock  *)
(* of the database are held exactly by the goroutines in the middle of a query  *)
(* or of a transaction, whatever is busy, fails or is killed.                  *)
THEOREM EventTypeCorrect == EventSpec => []EventTypeOK
<1>1. EventInv => EventTypeOK
  BY DEF EventInv
<1> QED
  BY <1>1, EventInvariant, PTL

-----------------------------------------------------------------------------
(* The refinement.                                                         *)

(* An empty table is an empty log.                                          *)
LEMMA RefineInit == EventInit => Log!LogInit
<1> SUFFICES ASSUME EventInit PROVE Log!LogInit
  OBVIOUS
<1> USE DEF EventInit, Threads
<1>1. [i \in DOMAIN events |-> events[i].rec] = <<>>
  OBVIOUS
<1> QED
  BY <1>1 DEF Log!LogInit, Log!NoCall

(* A row that is committed is a record appended.                              *)
LEMMA RefineRows ==
    ASSUME ShapeInv, NEW x \in [id : Nat, rec : Records], events' = Append(events, x)
    PROVE  [i \in DOMAIN events' |-> events'[i].rec]
             = Append([i \in DOMAIN events |-> events[i].rec], x.rec)
<1> DEFINE R == [id : Nat, rec : Records]
           s == [i \in DOMAIN events |-> events[i].rec]
           n == Len(events)
<1>1. events \in Seq(R) /\ n \in Nat /\ DOMAIN events = 1..n
  BY DEF ShapeInv
<1>2. \A i \in 1..n : events[i] \in R
  <2> HIDE DEF R
  <2> QED
    BY <1>1
<1>3. \A i \in 1..n : events[i].rec \in Records
  BY <1>2
<1>4. s \in Seq(Records) /\ Len(s) = n /\ \A i \in 1..n : s[i] = events[i].rec
  BY <1>1, <1>3
<1>5. /\ DOMAIN events' = 1..(n + 1) /\ events'[n + 1] = x
      /\ \A i \in 1..n : events'[i] = events[i]
  BY <1>1
<1> HIDE DEF s
<1>6. /\ DOMAIN Append(s, x.rec) = 1..(n + 1) /\ Append(s, x.rec)[n + 1] = x.rec
      /\ \A i \in 1..n : Append(s, x.rec)[i] = s[i]
  BY <1>1, <1>4
<1> QED
  BY <1>1, <1>4, <1>5, <1>6 DEF s

(* The abstract state: the refinement mapping of EventLog.                     *)
AbsLog == [i \in DOMAIN events |-> events[i].rec]
AbsCall ==
    [w \in Writers |->
        IF pc[w] \in {"idle", "dead"} THEN [rec |-> <<>>, done |-> FALSE]
        ELSE [rec |-> tx[w].rec, done |-> pc[w] = "written"]]

(* A step that leaves the rows, the calls as a caller sees them and what was    *)
(* yielded as they are is a stutter of the append-only log.                   *)
LEMMA RefineStutter ==
    ASSUME UNCHANGED <<events, last>>, AbsCall' = AbsCall
    PROVE  UNCHANGED Log!logVars
BY Zenon DEF AbsCall, Log!logVars

(* The steps of a writer before the commit, and those that roll back.          *)
LEMMA RefineWriter ==
    ASSUME EventInv, NEW w \in Writers,
           BeginTx(w) \/ BeginFails(w) \/ InsertEvent(w) \/ Busy(w) \/ InsertFields(w)
             \/ Rollback(w)
    PROVE  UNCHANGED Log!logVars
<1> USE EventLogAssumption
    DEF EventLogAssumption, EventInv, EventTypeOK, ShapeInv, Threads, dbVars, writeVars,
        followVars, Go
<1>1. UNCHANGED <<events, last>>
  BY Zenon DEF BeginTx, BeginFails, InsertEvent, Busy, InsertFields, Rollback
<1>2. /\ pc[w] \notin {"idle", "dead", "written"}
      /\ \E x \in {"begin", "insert", "fields", "commit", "failed"} :
            pc' = [pc EXCEPT ![w] = x]
  BY DEF BeginTx, BeginFails, InsertEvent, Busy, InsertFields, Rollback
<1>3. \A v \in Writers : tx'[v].rec = tx[v].rec
  <2>1. tx' = tx \/ tx' = [tx EXCEPT ![w].id = LastId + 1]
    BY Zenon DEF BeginTx, BeginFails, InsertEvent, Busy, InsertFields, Rollback
  <2>2. tx \in [Writers -> [rec : Records \cup {<<>>}, id : Nat]]
    BY DEF EventInv, ShapeInv
  <2>3. SUFFICES ASSUME NEW v \in Writers
                 PROVE  tx'[v].rec = tx[v].rec
    OBVIOUS
  <2>4. CASE tx' = tx
    BY <2>4, Zenon
  <2>5. CASE tx' = [tx EXCEPT ![w].id = LastId + 1]
    <3> HIDE DEF LastId
    <3> QED
      BY <2>2, <2>5
  <2> QED
    BY <2>1, <2>4, <2>5
<1>4. AbsCall' = AbsCall
  BY <1>2, <1>3 DEF AbsCall
<1> QED
  BY <1>1, <1>4, RefineStutter

(* A Write begins: a call.                                                  *)
LEMMA RefineCall ==
    ASSUME EventInv, NEW w \in Writers, NEW r \in Records, Write(w, r)
    PROVE  Log!Call(w, r)
<1> USE EventLogAssumption
    DEF EventLogAssumption, EventInv, EventTypeOK, ShapeInv, Threads, dbVars, writeVars,
        followVars, Go
<1>1. UNCHANGED <<events, last>>
  BY Zenon DEF Write
<1>2. pc[w] = "idle" /\ AbsCall[w] = [rec |-> <<>>, done |-> FALSE]
  BY DEF Write, AbsCall
<1>3. AbsCall' = [AbsCall EXCEPT ![w] = [rec |-> r, done |-> FALSE]]
  BY DEF Write, AbsCall
<1> QED
  BY <1>1, <1>2, <1>3 DEF AbsCall, Log!Call, Log!NoCall

(* Commit: the record is appended, once.                                     *)
LEMMA RefineAppend ==
    ASSUME EventInv, NEW w \in Writers, Commit(w)
    PROVE  Log!LogAppend(w)
<1> USE EventLogAssumption
    DEF EventLogAssumption, EventInv, EventTypeOK, Threads, dbVars, writeVars,
        followVars, Go
<1>1. UNCHANGED <<tx, last>> /\ pc[w] = "commit" /\ pc' = [pc EXCEPT ![w] = "written"]
  BY Zenon DEF Commit
<1>2. tx[w].rec \in Records /\ tx[w].id \in Nat
  BY <1>1 DEF TxInv
<1>3. AbsCall[w] = [rec |-> tx[w].rec, done |-> FALSE]
  BY <1>1 DEF AbsCall
<1>4. AbsCall' = [AbsCall EXCEPT ![w].done = TRUE]
  BY <1>1 DEF AbsCall
<1>5. AbsLog' = Append(AbsLog, AbsCall[w].rec)
  <2> DEFINE x == [id |-> tx[w].id, rec |-> tx[w].rec]
  <2>1. x \in [id : Nat, rec : Records] /\ x.rec = AbsCall[w].rec
    BY <1>2, <1>3
  <2>2. events' = Append(events, x)
    BY DEF Commit
  <2> HIDE DEF x
  <2> QED
    BY <2>1, <2>2, RefineRows DEF AbsLog
<1>6. AbsCall[w] # [rec |-> <<>>, done |-> FALSE] /\ ~AbsCall[w].done
  BY <1>2, <1>3
<1> QED
  BY <1>1, <1>4, <1>5, <1>6 DEF AbsCall, AbsLog, Log!LogAppend, Log!NoCall

(* Write returns: nil after the append, an error without it.                 *)
LEMMA RefineReturn ==
    ASSUME EventInv, NEW w \in Writers, WriteReturn(w)
    PROVE  Log!Return(w)
<1> USE EventLogAssumption
    DEF EventLogAssumption, EventInv, EventTypeOK, ShapeInv, Threads, dbVars, writeVars,
        followVars, Go
<1>1. UNCHANGED <<events, last>>
  BY Zenon DEF WriteReturn
<1>2. pc[w] \in {"written", "failed"} /\ tx[w].rec \in Records
  BY DEF WriteReturn, TxInv
<1>3. AbsCall[w] # [rec |-> <<>>, done |-> FALSE]
  BY <1>2 DEF AbsCall
<1>4. AbsCall' = [AbsCall EXCEPT ![w] = [rec |-> <<>>, done |-> FALSE]]
  BY DEF WriteReturn, AbsCall
<1> QED
  BY <1>1, <1>3, <1>4 DEF AbsCall, Log!Return, Log!NoCall

(* A killed process: its calls are gone, what they committed is not.          *)
LEMMA RefineDie ==
    ASSUME EventInv, NEW p \in Procs, Killed(p)
    PROVE  \E D \in SUBSET Writers : Log!Die(D)
<1> USE EventLogAssumption
    DEF EventLogAssumption, EventInv, EventTypeOK, ShapeInv, Threads, dbVars, writeVars,
        followVars, Go
<1> DEFINE D == {w \in Writers : ProcOf[w] = p}
<1>1. UNCHANGED <<events, last>>
  BY Zenon DEF Killed
<1>2. AbsCall' = [w \in Writers |->
                   IF w \in D THEN [rec |-> <<>>, done |-> FALSE] ELSE AbsCall[w]]
  BY DEF Killed, AbsCall
<1>3. Log!Die(D)
  BY <1>1, <1>2 DEF AbsCall, Log!Die, Log!NoCall
<1> QED
  BY <1>3

(* Follow yields the next record that matches, and passes none over.          *)
LEMMA RefineDeliver ==
    ASSUME EventInv, NEW f \in Followers, Yield(f)
    PROVE  \E i \in 1..Len(AbsLog) : Log!Deliver(f, i)
<1> DEFINE m == Min(batch[f])
<1>1. /\ m \in Nat /\ last[f] < m /\ m <= cursor[f]
      /\ Selects(f, events[m].rec)
      /\ \A j \in (last[f] + 1)..(m - 1) : ~Selects(f, events[j].rec)
  BY YieldMoves DEF Yield, EventInv
<1>2. /\ UNCHANGED <<pc, tx, events>> /\ last' = [last EXCEPT ![f] = m]
  BY Zenon DEF Yield, dbVars, writeVars
<1> HIDE DEF m
<1>3. /\ cursor[f] <= Len(events) /\ cursor[f] \in Nat
      /\ Len(events) \in Nat /\ last[f] \in Nat
  BY DEF EventInv, ShapeInv, FollowInv, CaughtUp
<1>4. /\ DOMAIN AbsLog = 1..Len(events) /\ Len(AbsLog) = Len(events)
      /\ \A i \in 1..Len(events) : AbsLog[i] = events[i].rec
  BY DEF EventInv, ShapeInv, AbsLog
<1>5. /\ m \in (last[f] + 1)..Len(AbsLog) /\ Selects(f, AbsLog[m])
      /\ \A j \in (last[f] + 1)..(m - 1) : ~Selects(f, AbsLog[j])
  <2>1. m \in (last[f] + 1)..Len(AbsLog) /\ m \in 1..Len(events)
    BY <1>1, <1>3, <1>4
  <2>2. \A j \in (last[f] + 1)..(m - 1) : j \in 1..Len(events)
    BY <1>1, <1>3
  <2> QED
    BY <1>1, <1>4, <2>1, <2>2, Zenon
<1>6. AbsLog' = AbsLog /\ AbsCall' = AbsCall
  BY <1>2, Zenon DEF AbsLog, AbsCall
<1>7. Log!Deliver(f, m)
  BY <1>2, <1>5, <1>6, Zenon DEF AbsLog, AbsCall, Log!Deliver
<1>8. m \in 1..Len(AbsLog)
  BY <1>3, <1>4, <1>5
<1> QED
  BY <1>7, <1>8

(* The other steps of a follower, and of a process that opens the database.    *)
LEMMA RefineOther ==
    ASSUME EventInv,
           \/ \E f \in Followers : \/ Query(f) \/ CloseRows(f) \/ PollFails(f) \/ Sleep(f)
                                   \/ StartFollow(f) \/ StopFollow(f)
           \/ \E p \in Procs : OpenSQLite(p)
           \/ UNCHANGED eventVars
    PROVE  UNCHANGED Log!logVars
<1> USE EventLogAssumption
    DEF EventLogAssumption, EventInv, EventTypeOK, Threads, eventVars, dbVars, writeVars,
        followVars, Go
<1>1. UNCHANGED <<events, last, tx>>
  BY Zenon DEF Query, CloseRows, PollFails, Sleep, StartFollow, StopFollow, OpenSQLite
<1>2. \A w \in Writers : pc'[w] = pc[w]
  <2>1. ASSUME NEW f \in Followers, NEW x, pc' = [pc EXCEPT ![f] = x], NEW w \in Writers
        PROVE  pc'[w] = pc[w]
    BY <2>1
  <2>2. pc' = pc \/ \E f \in Followers : \E x : pc' = [pc EXCEPT ![f] = x]
    BY ZenonT(40) DEF Query, CloseRows, PollFails, Sleep, StartFollow, StopFollow, OpenSQLite
  <2> QED
    BY <2>1, <2>2, ZenonT(40)
<1>3. AbsCall' = AbsCall
  BY <1>1, <1>2 DEF AbsCall
<1> QED
  BY <1>1, <1>3, RefineStutter

(* Every step of the event log is a step of the append-only log or a stutter.   *)
LEMMA RefineStep == EventInv /\ [EventNext]_eventVars => [Log!LogNext]_(Log!logVars)
<1> SUFFICES ASSUME EventInv, [EventNext]_eventVars PROVE [Log!LogNext]_(Log!logVars)
  OBVIOUS
<1>1. ASSUME NEW w \in Writers, WriterStep(w) PROVE [Log!LogNext]_(Log!logVars)
  BY <1>1, RefineWriter, RefineAppend, RefineReturn, Zenon DEF WriterStep, Log!LogNext
<1>2. ASSUME NEW w \in Writers, NEW r \in Records, Write(w, r)
      PROVE  [Log!LogNext]_(Log!logVars)
  BY <1>2, RefineCall, Zenon DEF Log!LogNext
<1>3. ASSUME NEW f \in Followers, Yield(f) PROVE [Log!LogNext]_(Log!logVars)
  BY <1>3, RefineDeliver, Zenon DEF AbsLog, Log!LogNext
<1>4. ASSUME NEW f \in Followers,
             \/ Query(f) \/ CloseRows(f) \/ PollFails(f) \/ Sleep(f)
             \/ StartFollow(f) \/ StopFollow(f)
      PROVE  [Log!LogNext]_(Log!logVars)
  BY <1>4, RefineOther, Zenon
<1>5. ASSUME NEW p \in Procs, OpenSQLite(p) PROVE [Log!LogNext]_(Log!logVars)
  BY <1>5, RefineOther, Zenon
<1>6. ASSUME NEW p \in Procs, Killed(p) PROVE [Log!LogNext]_(Log!logVars)
  BY <1>6, RefineDie, Zenon DEF Log!LogNext
<1>7. CASE UNCHANGED eventVars
  BY <1>7, RefineOther, Zenon
<1> QED
  BY <1>1, <1>2, <1>3, <1>4, <1>5, <1>6, <1>7, Zenon DEF EventNext, FollowerStep

(* The SQLite log is an append-only log: a Write appends its record once if it   *)
(* returns nil and not at all if it fails, and Follow yields every record that   *)
(* matches once, in order, although it remembers only an id.                    *)
THEOREM EventLogRefines == EventSpec => ImplementsAppendLog
<1>1. EventInit => Log!LogInit
  BY RefineInit
<1>2. EventInv /\ [EventNext]_eventVars => [Log!LogNext]_(Log!logVars)
  BY RefineStep
<1> QED
  BY <1>1, <1>2, EventInvariant, PTL DEF EventSpec, ImplementsAppendLog, Log!LogSpec
=============================================================================
