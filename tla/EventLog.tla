------------------------------ MODULE EventLog ------------------------------
(***************************************************************************)
(* The event log in SQLite (internal/journal/sqlite.go), shared by the        *)
(* processes of the portable backend without a daemon: session hosts write,   *)
(* commands write and follow.  Each process has one connection               *)
(* (SetMaxOpenConns(1)) that its goroutines take in turn; SQLite in WAL mode  *)
(* has one writer at a time, and a statement reads the last committed state.  *)
(*                                                                         *)
(* A record is a function from field names to values.  AUTOINCREMENT gives    *)
(* an insert the id after the last one in the table, within its transaction,  *)
(* so a rolled-back id is used again.                                      *)
(***************************************************************************)
EXTENDS Integers, Sequences, FiniteSets, FiniteSetsExt

CONSTANTS Procs, Writers, Followers,
          ProcOf,             \* [Writers \cup Followers -> Procs]
          Records,            \* records that may be written
          Filters,            \* [Followers -> set of <<field, value>>]
          MaxWrites,          \* bound: writes of each writer
          WriteMayFail,       \* a statement may fail for another reason than busy
          Mortal,             \* processes that may be killed
          NoOne               \* no goroutine

Threads == Writers \cup Followers

ASSUME EventLogAssumption ==
    /\ ProcOf \in [Threads -> Procs] /\ Writers \cap Followers = {}
    /\ NoOne \notin Threads /\ Mortal \subseteq Procs
    /\ MaxWrites \in Nat /\ WriteMayFail \in BOOLEAN
    /\ <<>> \notin Records     \* Write adds MESSAGE and PRIORITY to every record

VARIABLES
    pc,         \* where each goroutine is
    open,       \* processes whose OpenSQLite has returned
    tables,     \* the tables exist
    conn,       \* [Procs -> the goroutine that has the connection]
    lock,       \* the goroutine whose transaction has the database's write lock
    tx,         \* each writer's record, and the id its transaction gave it
    writes,     \* writes each writer has begun
    events,     \* committed rows, in the order of their commits
    indexed,    \* ids that have their rows in event_fields
    cursor,     \* Follow's current
    batch,      \* ids a Poll returned and Follow has not yielded
    last        \* id of the record yielded last

dbVars == <<tables, lock, events, indexed>>
writeVars == <<tx, writes>>
followVars == <<cursor, batch, last>>
eventVars == <<pc, open, conn, dbVars, writeVars, followVars>>

NoTx == [rec |-> <<>>, id |-> 0]
Go(t, where) == pc' = [pc EXCEPT ![t] = where]
Take(t) == conn' = [conn EXCEPT ![ProcOf[t]] = t]
Release(t) == conn' = [conn EXCEPT ![ProcOf[t]] = NoOne]
LastId == Max({0} \cup {events[i].id : i \in DOMAIN events})

EventInit ==
    /\ pc = [t \in Threads |-> "idle"]
    /\ open = {} /\ tables = FALSE
    /\ conn = [p \in Procs |-> NoOne] /\ lock = NoOne
    /\ tx = [w \in Writers |-> NoTx] /\ writes = [w \in Writers |-> 0]
    /\ events = <<>> /\ indexed = {}
    /\ cursor = [f \in Followers |-> 0] /\ batch = [f \in Followers |-> {}]
    /\ last = [f \in Followers |-> 0]

(* OpenSQLite: the schema needs the write lock if it is not there yet, and a  *)
(* busy database is tried again.                                           *)
OpenSQLite(p) ==
    /\ p \notin open /\ (tables \/ lock = NoOne)
    /\ \E t \in Threads : ProcOf[t] = p /\ pc[t] # "dead"
    /\ open' = open \cup {p} /\ tables' = TRUE
    /\ UNCHANGED <<pc, conn, lock, events, indexed, writeVars, followVars>>

-----------------------------------------------------------------------------
(* Write, of a host's readers and waiter, or of swash emit.                 *)
Write(w, r) ==
    /\ pc[w] = "idle" /\ ProcOf[w] \in open /\ writes[w] < MaxWrites
    /\ Go(w, "begin") /\ writes' = [writes EXCEPT ![w] = @ + 1]
    /\ tx' = [tx EXCEPT ![w] = [rec |-> r, id |-> 0]]
    /\ UNCHANGED <<open, conn, dbVars, followVars>>

(* BeginTx waits for the connection; the transaction has no lock yet.        *)
BeginTx(w) ==
    /\ pc[w] = "begin" /\ conn[ProcOf[w]] = NoOne
    /\ Take(w) /\ Go(w, "insert")
    /\ UNCHANGED <<open, dbVars, writeVars, followVars>>

(* The connection cannot be opened: an error without a transaction.          *)
BeginFails(w) ==
    /\ WriteMayFail /\ pc[w] = "begin" /\ Go(w, "failed")
    /\ UNCHANGED <<open, conn, dbVars, writeVars, followVars>>

(* Mutant of InsertEvent: the id is drawn before the lock is there.          *)
InsertEvent_EarlyId(w) ==
    /\ pc[w] = "insert" /\ Go(w, "fields")
    /\ lock' = w
    /\ tx' = [tx EXCEPT ![w].id = 1 + Max({LastId} \cup {tx[v].id : v \in Writers})]
    /\ UNCHANGED <<open, conn, tables, events, indexed, writes, followVars>>

(* The INSERT into events takes the write lock and gets the next id.         *)
InsertEvent(w) ==
    /\ pc[w] = "insert" /\ lock = NoOne
    /\ lock' = w /\ Go(w, "fields")
    /\ tx' = [tx EXCEPT ![w].id = LastId + 1]
    /\ UNCHANGED <<open, conn, tables, events, indexed, writes, followVars>>

(* After busy_timeout: SQLITE_BUSY, rollback, and retrySQLiteBusy begins a     *)
(* new transaction.                                                        *)
Busy(w) ==
    /\ pc[w] = "insert" /\ lock # NoOne
    /\ Release(w) /\ Go(w, "begin")
    /\ UNCHANGED <<open, dbVars, writeVars, followVars>>

(* One row of event_fields for each field, in the same transaction.          *)
InsertFields(w) ==
    /\ pc[w] = "fields" /\ Go(w, "commit")
    /\ UNCHANGED <<open, conn, dbVars, writeVars, followVars>>

(* Commit: the event and its fields become visible at once.                 *)
Commit(w) ==
    /\ pc[w] = "commit"
    /\ events' = Append(events, [id |-> tx[w].id, rec |-> tx[w].rec])
    /\ indexed' = indexed \cup {tx[w].id}
    /\ lock' = NoOne /\ Release(w) /\ Go(w, "written")
    /\ UNCHANGED <<open, tables, writeVars, followVars>>

(* Mutant of Rollback: the transaction is left open.                         *)
Rollback_LeftOpen(w) ==
    /\ WriteMayFail /\ pc[w] \in {"insert", "fields", "commit"}
    /\ Release(w) /\ Go(w, "failed")
    /\ UNCHANGED <<open, dbVars, writeVars, followVars>>

(* A statement or the commit fails: the deferred Rollback.                   *)
Rollback(w) ==
    /\ WriteMayFail /\ pc[w] \in {"insert", "fields", "commit"}
    /\ lock' = IF lock = w THEN NoOne ELSE lock
    /\ Release(w) /\ Go(w, "failed")
    /\ UNCHANGED <<open, tables, events, indexed, writeVars, followVars>>

WriteReturn(w) ==
    /\ pc[w] \in {"written", "failed"} /\ Go(w, "idle")
    /\ tx' = [tx EXCEPT ![w] = NoTx]
    /\ UNCHANGED <<open, conn, dbVars, writes, followVars>>

-----------------------------------------------------------------------------
(* Poll and Follow.                                                        *)

(* Filters on one field are alternatives, filters on several are combined;    *)
(* a row is found through event_fields.                                     *)
Selects(f, rec) ==
    \A field \in {x[1] : x \in Filters[f]} :
        \E x \in Filters[f] : x[1] = field /\ field \in DOMAIN rec /\ rec[field] = x[2]

Found(f) ==
    {events[i].id : i \in {k \in DOMAIN events :
        /\ events[k].id > cursor[f]
        /\ Filters[f] = {} \/ (events[k].id \in indexed /\ Selects(f, events[k].rec))}}

(* Follow, from the head of the log.                                        *)
StartFollow(f) ==
    /\ pc[f] = "idle" /\ ProcOf[f] \in open
    /\ Go(f, "poll")
    /\ UNCHANGED <<open, conn, dbVars, writeVars, followVars>>

(* The query of Poll reads one committed state ...                          *)
Query(f) ==
    /\ pc[f] = "poll" /\ conn[ProcOf[f]] = NoOne
    /\ Take(f) /\ Go(f, "rows") /\ batch' = [batch EXCEPT ![f] = Found(f)]
    /\ UNCHANGED <<open, dbVars, writeVars, cursor, last>>

(* Mutant of CloseRows: the cursor goes to the end of the log.               *)
CloseRows_ToEnd(f) ==
    /\ pc[f] = "rows" /\ Release(f) /\ Go(f, "yield")
    /\ cursor' = [cursor EXCEPT ![f] = LastId]
    /\ UNCHANGED <<open, dbVars, writeVars, batch, last>>

(* ... and Poll returns the rows, with the id of the last as the cursor.      *)
CloseRows(f) ==
    /\ pc[f] = "rows" /\ Release(f) /\ Go(f, "yield")
    /\ cursor' = [cursor EXCEPT ![f] = Max(batch[f] \cup {@})]
    /\ UNCHANGED <<open, dbVars, writeVars, batch, last>>

(* An error of Poll ends Follow without a word.                              *)
PollFails(f) ==
    /\ WriteMayFail /\ pc[f] = "rows"
    /\ Release(f) /\ Go(f, "ended") /\ batch' = [batch EXCEPT ![f] = {}]
    /\ UNCHANGED <<open, dbVars, writeVars, cursor, last>>

(* The records are yielded in the order of their ids (ORDER BY e.id).         *)
Yield(f) ==
    /\ pc[f] = "yield" /\ batch[f] # {}
    /\ last' = [last EXCEPT ![f] = Min(batch[f])]
    /\ batch' = [batch EXCEPT ![f] = @ \ {Min(@)}]
    /\ UNCHANGED <<pc, open, conn, dbVars, writeVars, cursor>>

(* The timer of 50 ms.                                                     *)
Sleep(f) ==
    /\ pc[f] = "yield" /\ batch[f] = {} /\ Go(f, "poll")
    /\ UNCHANGED <<open, conn, dbVars, writeVars, followVars>>

(* yield returned false, or the context is done.                            *)
StopFollow(f) ==
    /\ pc[f] = "yield" /\ Go(f, "ended") /\ batch' = [batch EXCEPT ![f] = {}]
    /\ UNCHANGED <<open, conn, dbVars, writeVars, cursor, last>>

-----------------------------------------------------------------------------
(* A process is killed: the system drops its locks, the next connection       *)
(* ignores what was not committed.                                         *)
Killed(p) ==
    /\ p \in Mortal /\ \E t \in Threads : ProcOf[t] = p /\ pc[t] # "dead"
    /\ pc' = [t \in Threads |-> IF ProcOf[t] = p THEN "dead" ELSE pc[t]]
    /\ open' = open \ {p} /\ conn' = [conn EXCEPT ![p] = NoOne]
    /\ lock' = IF lock # NoOne /\ ProcOf[lock] = p THEN NoOne ELSE lock
    /\ tx' = [w \in Writers |-> IF ProcOf[w] = p THEN NoTx ELSE tx[w]]
    /\ UNCHANGED <<tables, events, indexed, writes, followVars>>

WriterStep(w) ==
    \/ BeginTx(w) \/ BeginFails(w) \/ InsertEvent(w) \/ Busy(w) \/ InsertFields(w)
    \/ Commit(w) \/ Rollback(w) \/ WriteReturn(w)

FollowerStep(f) ==
    \/ Query(f) \/ CloseRows(f) \/ PollFails(f) \/ Yield(f) \/ Sleep(f)

EventNext ==
    \/ \E p \in Procs : OpenSQLite(p) \/ Killed(p)
    \/ \E w \in Writers : WriterStep(w) \/ \E r \in Records : Write(w, r)
    \/ \E f \in Followers : FollowerStep(f) \/ StartFollow(f) \/ StopFollow(f)

(* Goroutines run.  The connection is handed out in the order of the requests  *)
(* (database/sql queues them): strong fairness.  SQLite's busy handler queues  *)
(* nobody, so the write lock is only weakly fair.                            *)
EventFairness ==
    /\ \A w \in Writers : WF_eventVars(WriterStep(w)) /\ SF_eventVars(BeginTx(w))
    /\ \A f \in Followers : WF_eventVars(FollowerStep(f)) /\ SF_eventVars(Query(f))

EventSpec == EventInit /\ [][EventNext]_eventVars
EventFairSpec == EventSpec /\ EventFairness

-----------------------------------------------------------------------------
(* Properties.                                                             *)

(* Types, and who holds the connection and the write lock: exactly the goroutines *)
(* in the middle of a transaction or a query.                                *)
EventTypeOK ==
    /\ pc \in [Threads -> {"idle", "begin", "insert", "fields", "commit", "written",
                           "failed", "poll", "rows", "yield", "ended", "dead"}]
    /\ open \subseteq Procs /\ tables \in BOOLEAN
    /\ conn \in [Procs -> Threads \cup {NoOne}] /\ lock \in Writers \cup {NoOne}
    /\ writes \in [Writers -> 0..MaxWrites]
    /\ \A i \in DOMAIN events : events[i].id \in Nat /\ events[i].rec \in Records
    /\ \A w \in Writers : tx[w].id \in Nat /\ tx[w].rec \in Records \cup {<<>>}
    /\ \A f \in Followers : cursor[f] \in Nat /\ last[f] \in Nat
    /\ \A w \in Writers : lock = w <=> pc[w] \in {"fields", "commit"}
    /\ \A t \in Threads :
        conn[ProcOf[t]] = t <=> pc[t] \in {"insert", "fields", "commit", "rows"}

(* The log in SQLite is an append-only log: a Write that returns nil has         *)
(* appended its record once, whatever was busy, rolled back or killed in         *)
(* between, one that fails has not, and Follow passes no matching record over    *)
(* and repeats none although it remembers nothing but an id.                    *)
Log == INSTANCE AppendLog WITH
    log <- [i \in DOMAIN events |-> events[i].rec],
    call <- [w \in Writers |->
              IF pc[w] \in {"idle", "dead"} THEN [rec |-> <<>>, done |-> FALSE]
              ELSE [rec |-> tx[w].rec, done |-> pc[w] = "written"]],
    pos <- last,
    Matches <- Selects

ImplementsAppendLog == Log!LogSpec

(* A Write returns, however often the database is busy, unless its process dies. *)
WriteReturns == \A w \in Writers : pc[w] = "begin" ~> pc[w] \in {"idle", "dead"}

(* A follower that goes on catches up with the log from wherever it is: there is  *)
(* a moment when it has every matching record that is committed.                *)
FollowerCatchesUp ==
    \A f \in Followers :
        pc[f] = "poll" ~> \/ pc[f] \in {"ended", "dead"}
                         \/ \A i \in DOMAIN events : Selects(f, events[i].rec) => i <= last[f]
=============================================================================
