# Verification of swash

swash keeps a command running as a *session* that clients can leave and come
back to. This directory holds a TLA+ model of how it does that: the modules, the
TLC configurations that check them on small instances, and proofs for TLAPS that
hold for every instance. Line numbers refer to `src/` as it is in the repository.

## 1. The system

A session is three processes and a log:

    swash run/stop/kill/follow/history  --(control socket, signals)-->  host process
                    \                                                      |  pipes or PTY
                     \--(reads)--> event log <--(appends)------------------+--> task

| Component | State it keeps | Operations | Talks to |
|---|---|---|---|
| Pipe host, `internal/host/host.go` | `proc`, `running`, `exitCode`, restart channel; per incarnation of the task: `doneChan`, `eventErrors`, pipes | RunTask loop, two readers, waiter, Kill, GracefulKill, Restart, Gist | task (signals, pipes), event log, control plane |
| Process control, `executor.go`, `process_tree*.go` | session id of the task | Start with setsid, Wait, signal the session in two sweeps | kernel |
| TTY host, `internal/host/tty.go`, `vterm/wasm.go` | as the pipe host, plus emulator, scrollback, attached clients, sizes | Attach, Detach, Resize, broadcast, screen record at exit | PTY, clients, event log |
| Control plane, `unix_server.go`, D-Bus | socket | /gist /kill /restart /input, /tty/* | host |
| Host process, `RunHost` | phase of start-up, signal handler | boot, bind, `failedStartResult`, exit | all of the above |
| Posix backend, `backend/posix/stub.go` | meta.json (PID), socket path | StartSession/waitReady, StopSession, KillSession, FollowSession, ListHistory | host process, event log |
| Systemd backend, `backend/systemd/*.go` | units | the same through systemd and D-Bus | systemd, journald |
| Event log, `internal/journal` | SQLite table or systemd journal | Write, WriteSync, Poll, Follow | every process |
| Output protocols, `internal/protocol` | buffered partial line or event | processLines, processSSE | readers |
| Journal file, `pkg/journalfile` | header, objects, caches | AppendEntry, Sync, Reader.Next/Refresh | files |
| Attach client, `internal/attach` | local screen, size, channels of its goroutines | attach, resize, WaitExited, detach | TTY host |

What is hard here: goroutines that share `h.mu` but act after the unlock; channels
of capacity one; a task whose descendants outlive it; an event log that may fail at
each write; a host process that can be killed between any two steps; commands of
other processes that see only a socket, a PID and the log. `PROJECT.json` lists the
hazards line by line.

What makes each component correct:

* **Pipe host**: output is in the log before the exited record, and none is lost in
  silence; no exit path leaves the task behind; incarnations do not overlap; a stop
  is graceful first and always ends; success is reported only for a recorded task.
* **Posix session**: a follower that completes has printed everything; a host that
  ends by itself leaves the exit code in history; a stop ends the host, a kill does
  unless an escaped descendant holds the task's pipes.
* **TTY host**: no exit leaves the task or the reader behind; a client's stream
  follows on its snapshot; the recorded screen is complete; a stop always ends the host.
* **Attach client**: when nothing is in progress, all copies of the terminal's size
  agree; the exit code a client reports is of a task it saw.
* **Event log**: an append-only log. A write that returns nil has appended once, one that
  fails not at all; a follower skips and repeats nothing; writes return.
* **Systemd session**: a follower that completes has printed everything; one listing
  that leaves a session out does not make follow report it as killed; history agrees with
  the records; followers end.
* **Journal file**: what was synced is read back after a crash and a reopen; the index
  lists exactly the entries that have a field; a reader misses nothing.
* **Protocols** (not modelled): the result does not depend on how reads cut the stream.

## 2. Modules

| Module | What it is |
|---|---|
| `Host` | the pipe host and the environment it lives in: specification and properties |
| `HostInv`, `HostProofs` | the inductive invariant of `Host`, and the theorems about it |
| `PosixSession` | `Host` inside its process, with the commands of the posix backend (composition) |
| `TTYHost` | the TTY host: two locks, PTY reader, clients and their pipes |
| `AttachClient` | attach clients, the resize protocol and the terminal's five sizes |
| `AppendLog` | what an event log promises: the abstract specification |
| `EventLog` | the SQLite event log; implements `AppendLog` |
| `SystemdSession` | unit, host, journald and the commands of the systemd backend |
| `JournalFile` | writers and readers of a journal file |
| `PosixProofs`, `TTYHostProofs`, `AttachProofs`, `EventLogProofs`, `SystemdProofs`, `JournalProofs` | the inductive invariants of these modules, and the theorems about them |
| `NumberLemmas` | a set of numbers has a least one, and a greatest if it is bounded |
| `MC*` with `MC*.cfg` | TLC instances; they define only symmetry sets and constants |

`PosixSession` extends `Host` and takes its actions as they are. `Host`, `PosixSession`
and `TTYHost` use the event log at the level of `AppendLog` (an append that happens
once or fails), which `EventLog` is shown to implement.

### Host

`pc` is the run loop of `RunTask`; `reader[f]` and `waiter` are the goroutines of
`startTaskProcess`; `call[c]` is the handler of one control request. `running`,
`proc`, `exitCode` are the fields under `h.mu`. One spawn of the task is an
*incarnation*, numbered by `inc`; `proc` is the number of the incarnation it belongs
to, 0 for nil. `alive`, `holding`, `status` are the task's processes, which of them
have the output pipes open, and the leader's wait status. A line of output is counted
in `written`, `pipe` (until its record is written), `lost` (its write failed), and
appears as a record in `log`.

Atomicity follows the locks: what is done under one `h.mu` section is one action,
what is done after the unlock is another (`KillLookup`/`KillSend`,
`RestartCheck`/`RestartSend`, `Spawn`/`Publish`, `WaiterPublish`/`WaiterEmitExited`/
`WaiterClose`). The `select` of the loop is four actions that compete when several
are ready, as Go chooses at random. A failed write is an alternative of the action
that writes. `terminateTask` is `Terminate` (SIGTERM), `GraceTimeout` (SIGKILL),
`CloseIO` (`closePipes`), `TerminateDone`; a restart is `SelectRestart` (SIGKILL),
`CloseIO`, `RestartDone`.

Abstractions: lines have no content; `signalProcessSession` is one step that reaches
all processes still in the session; process and session ids are not reused within a
run; the records of the resource sampler are left out, as they carry no lifecycle
meaning; `SendInput` only writes to the task.

### PosixSession

`host` is the phase of `RunHost`: `booting` (SIGTERM still kills), `binding` (signals
caught, no socket), `up` (the goroutines of `Host` run), the three writes of
`failedStartResult`, `gone`. `killer[c]` is the `KillSession` that sent request `c`;
`follow`/`cursor`/`printed` are the command that started the session: `waitReady`, then
`FollowSession`. Every action of `Host` is taken as it is, guarded by the
process being there; `KillFallback` is the SIGKILL that stops all of them and leaves
the task's processes running with broken pipes. `pidAlive` is left out of `ReadyOK`
because the host is an unreaped child of the waiting process. Empty lines, which
FollowSession does not print, are not among the lines of the model.

### TTYHost

`mu` is `h.mu`, `vmu` the lock inside the emulator (`vterm/wasm.go`); each is free or
owned by the reader goroutine or a client's request. A section that neither blocks nor
takes the other lock is one step that needs the lock free. Three sections do hold a lock
over several steps: Attach (`mu` over `SetSize` and the snapshot), the broadcast (`mu`
over writes to client pipes, which block when the pipe is full) and `vt.Write` and
`vt.SetSize` (`vmu` over callbacks that take `mu`). `rd` is the reader goroutine,
`handler[c]` the request of client `c`. A chunk is what one `Read` returns; `screen`
counts the chunks the emulator has, `snap[c]` says which were in the client's snapshot,
`stream[c]` which it was sent. A signal to the host is `Cancel`: the context is cancelled
from then on, wherever the loop is, and `SelectCancel` finds it so. Between `Spawn` and
`Publish` the task runs while the fields still say that there is none. The error channel is made once per host (`NewTTYHost`),
not once per incarnation as in `Host`. Left out: title, alternate screen, scrollback and
cursor, which are only read by requests, and input to the task.

### AttachClient

The size of the terminal lives in the host's fields (`rows`), its emulator (`vtRows`),
the PTY (`ptyRows`), and each client's window and emulator (`window`, `emu`). `cli[c]`
is the event loop of `attach.Session`: it asks how many clients there are (`AskClients`),
resizes if it is the only one (`ResizeFields`, `ResizeVt`, `ResizePTY`: three steps of the
host without a common lock), and tells the goroutine that owns its emulator through
`vtermCh`. Of the host only the life of the task and what Gist answers is kept.
`WaitExited` polls Gist. One dimension stands for rows and columns. `raced` and `stale`
record that a named exception happened; `PTYFollowsFields` and `ClientFollowsHost` are
about what is left. A client is not killed in the middle of one of its requests.

### AppendLog and EventLog

`AppendLog`: a sequence of records; a call appends its record at most once and returns;
a follower is delivered the next record that matches its filter, and none is passed
over. `EventLog`: each process has one connection (`SetMaxOpenConns(1)`) that its
goroutines take in turn (`conn`); a transaction gets the database's write lock with its
first INSERT (`lock`), its id with it, and shows its rows at the commit; SQLITE_BUSY rolls
back and begins again (`retrySQLiteBusy`); a statement may fail, a process may be killed
in any state. `Poll` reads one committed state and `Follow` remembers only the last id.
The refinement maps the committed rows to the log, a goroutine between Write and
return to the call, and the id yielded last to the follower's position. SQLite itself is
modelled from how the code uses it: WAL mode, AUTOINCREMENT, one writer.

### SystemdSession

`unit` is the state of the transient unit as the properties in `unit.go` configure it
(notify, KillMode=mixed, collected when inactive); `main` and `task` keep of the host
what its unit and its records show. A record goes through `socket` (journald's datagram
socket, in order, some time later) to `journal`. `FollowSession` is `FollowNext` (the
goroutine that offers a record on an unbuffered channel), `ReceiveEvent`, `CheckUnit`
(the tick: `missing` is the grace period that has begun, a second tick may find it over)
and `CheckUnitFails`. `List` is the listing both commands ask for: a unit whose properties
cannot be read is left out without an error (`dbus.go:82`), and so is one of another root
slice (`process_backend.go:70`), so a live session may be missing from it; `busErrors`
counts the listings that were wrong or failed. `ListHistory` is three readings at three
moments; `WriteSync` writes
a nonce and waits until it is read. systemd and journald are modelled from how the code
uses them.

### JournalFile

The file is a header (`disk`) and a sequence of objects (`objs`; an offset is an index).
`AppendEntry` is `EnsureField`, `AppendData`, `WriteEntry`, `LinkDataToEntry`, `WriteArray`,
`ChainArray` and `UpdateHeader`, and a crash falls between any two of them. What a reader
of entries can see is thus written one step at a time: the entry, the array, the link
to it. `AppendData` (object, field head, hash chain: `journal.go:344-491`) and
`LinkDataToEntry` (array, its link, the count: `506-634`) are several writes in the code and one step
each here. Only lookups read what they write, and `IndexIsExact` is about lookups between two
appends to a file that was not reopened; a crash inside such a step leaves an object that is
not linked or not counted, of which the entries' chain knows nothing. The header is kept in memory
(`hdr`) and reaches the file at `Sync`. A crash is that of the writing process; what it
wrote stays in the file. `rd[r]` is a reader: the loaded array, the position, the header
it saw. A walk along arrays (`Walk`, `LastArray`) is a recursive function of the offset and
ends where there is no array. All data fall in one hash bucket, the worst case for the chain. `TailEntryArrayOffset`
is taken modulo `OffsetMod`. Left out: hash functions, encodings, alignment, file-system
notification.

## 3. Runs

| Run | Shows |
|---|---|
| `host_safety` | with two requests, an escaped descendant and a failing log, spawn and notification: the order of the log, output accounted for, no orphan, success means recorded, kills hit what they looked up, incarnations do not overlap, SIGTERM before SIGKILL |
| `host_live` | stop ends RunTask, requests to end an incarnation are served, an answered Kill ends the task |
| `posix_session` | with a failing log and a host process killed at any point: what a follower that completes has printed, the history of a host that ended by itself, StopSession ends the host from every phase, KillSession does unless an escaped descendant holds the task's pipes, the follower of a stopped session ends |
| `tty_clients` | two clients attach, stall, resize, detach and close while the task prints and restarts: each stream follows on its snapshot in order and without a gap |
| `tty_live` | with an escaped descendant and a failing log: no orphan, final screen complete and recorded before the exit, success means recorded in every incarnation; a stop signal, whenever it comes, ends the host and a closed client leaves the map, unless the locks are deadlocked or a client stalls the broadcast |
| `attach` | two clients, window changes and a restart: sizes agree when no request is in progress; the exit code is of a task that was seen |
| `systemd_session` | journal that lags, restart, stop, kill, failing writes, listings that fail or leave the session out: a completed follow has printed everything, follow reports a live session as killed only if two listings left it out (ListHistory: one), history tells the truth about exits but for a fast task's, and the follower ends |
| `event_log` | three writers and a filtering follower in two processes, one of which may be killed: the SQLite log implements `AppendLog`, writes return, followers catch up |
| `journal_file` | a writer that dies anywhere and reopens, and a reader that refreshes and seeks: synced entries survive, the index is exact, no entry is missed |

Three runs are expected to find a violation; each states a sentence of the
repository that the code does not keep (`findings` in `PROJECT.json`):

* `posix_orphan`: KillSession's fallback kills the host and orphans a fresh task.
* `tty_stop`: one client that attaches while the task prints deadlocks the host (the
  reader holds the emulator's lock and wants `h.mu`, Attach the reverse; or `SetSize`
  calls back into its own goroutine), and the stop signal is never served.
* `systemd_killed`: FollowSession reports FollowKilled of a session whose exit is in the
  journal, because its tick may win over records that wait to be read.

The models also have behaviours that surprise, without a run of their own:

* Two listings 500 ms apart that leave a live session out (six, if no tick is dropped),
  because its properties cannot be read or its root slice is another, make FollowSession
  report it as killed; for ListHistory one is enough. `KilledMeansOver` says how many it takes.
* A task so fast that its exited record precedes its started record is reported as
  killed by ListHistory (`backend.go:414`); `HistoryIsTruthful` names it (`ExitedEarly`).
* ListHistory reports a session as exited that was restarted and then killed, if the
  restart fell between its first and its last reading.

* Gist shows the previous incarnation's exit code for a restarted, running task
  (`host.go:379`; `host_test.go:424` expects nil while running).
* A command that resolves but cannot be executed leaves no record (`host.go:282`), and
  the follower of the session waits for ever.
* KillSession's fallback between the end of the task and its exited record loses the
  record (`stub.go:462`), hence the premises of `GoneMeansInHistory`.
* A cancelled host whose exited record could not be written reports success (`RunTask`
  does not read `eventErrors` on `ctx.Done`); a restart that wins the `select` over a
  pending event error drops it.
* A killed task with an escaped descendant that holds its pipes stays running: a Kill
  does not close them, a stop does. `KillEndsTask` and `KillEndsHost` except exactly
  this case, and both runs reach it.
* After a restart, the posix ListHistory lists the running session and FollowSession
  ends at the first exited record.
* A client that attaches between two incarnations leaves at once with the old exit
  code (`client.go:262`); `ExitCodeIsOfSeenTask` is about clients that saw a task run.
* The error of an old incarnation's write ends the next incarnation of a TTY host.
* WriteSync may fail on its nonce's timeout although the record arrives (`combined.go:51`).
* Two writers of one journal file overwrite each other's links: the file lock
  (`journal.go:252`) does not make a writer read the header again. The module takes a set
  of writers; the run has one, as only one process writes a file in the repository.
* After OpenAppend the caches are empty, data are written a second time and a lookup
  by hash finds the first object only (the premise of `IndexIsExact`).
* A reader that met an empty file stays at EOF after Refresh (`reader.go:184`), and one
  that is ahead of a synced header misses entries after a crash and a reopen (`torn`).

**Bounds.** All bounds are constants; no state constraint is used. In `Host` and
`PosixSession`, `Calls` is the number of control requests; each restart makes one more
incarnation, so two requests give three incarnations, or a kill that races a restart.
`MaxLines = 1` line per pipe and incarnation is enough for a line to be in the pipe,
lost, or recorded before, after and between all other steps; lines of one pipe are
taken in order by one reader. One `ExitCodes` value besides the codes of the two
signals is enough to tell a natural exit from a forced one. One descendant of each
kind: the first keeps a signal busy, the second cannot be signalled; more of a kind
differ in nothing the host can see. One pipe: the two readers are alike and share only
the channel for errors, and the theorems below cover both. Liveness is checked without
symmetry, hence one request or client there.

`TTYHost`: two chunks are needed for a snapshot to fall between one chunk and the next,
with the second still to be broadcast; a pipe of one chunk fills at once; two clients, so
that one can stall the other's broadcast; one restart, so that the error channel
outlives an incarnation. `AttachClient`: two clients and two sizes make a refused
attachment, a client left behind and a race between question and resize; one restart
puts a resize around the publication of a PTY. `EventLog`: two writers share a connection
and two processes share the database, so both queues occur; the killed process is the one
with two writers. `SystemdSession`: one line and one restart give two incarnations whose
records can be confused; two wrong or failed listings make follow believe that a live session
is gone, or reset the grace period twice.
`JournalFile`: arrays of one slot chain after the second entry, so three entries make a
chain of two arrays behind the first entry; two opens are one crash or close and one reopen;
`OffsetMod` is larger than any offset of the run.

**Fairness.** Weak fairness of each goroutine of the host (the Go scheduler runs what
can run, and the grace period's timer fires), of handlers that have begun, of the
host process's start-up and exit, and of commands that are waiting for an answer. In
`SystemdSession` only the follower's tick is fair: whatever host, journald and systemd do,
it ends the follow of a unit that is gone. In `EventLog`, the connection pool queues its waiters, which is strong
fairness of getting the connection; SQLite's busy handler queues nobody, so the write
lock is only weakly fair, and `WriteReturns` holds because every writer makes finitely
many writes. `TTYHost` states the absence of the deadlock and of a client that stalls for
ever as premises of its liveness properties, since the code guarantees neither
(`tty_stop` shows the deadlock). Nothing
is assumed of the task's processes, which may ignore SIGTERM and keep pipes or the PTY
open for ever, of the arrival of requests, of clients that read, or of a follower's
patience. `AttachClient` and `JournalFile` have safety properties only.

## 4. Proofs

Every safety property that a run checks is proved for all values of the constants that
satisfy the module's named assumption.

| Module | Theorem | Property |
|---|---|---|
| `HostProofs` | `TypeCorrect` | `TypeOK` |
| | `NoOrphanedTaskHolds` | `NoOrphanedTask` |
| | `RestartIsExclusiveHolds` | `RestartIsExclusive` (action) |
| | `ForceOnlyAfterTermHolds` | `ForceOnlyAfterTerm` (action) |
| | `IncarnationsInOrderHolds` | `IncarnationsInOrder` |
| | `KillIsEffectiveHolds` | `KillIsEffective` |
| | `SuccessMeansRecordedHolds` | `SuccessMeansRecorded` |
| | `OutputCompleteHolds` | `OutputComplete` |
| `PosixProofs` | `SessionInvariant` | the inductive invariant |
| | `SessionTypeCorrect` | `SessionTypeOK` |
| | `FollowPrintsAllHolds` | `FollowPrintsAll` |
| | `GoneMeansInHistoryHolds` | `GoneMeansInHistory` |
| `TTYHostProofs` | `TTYInvariant` | the inductive invariant |
| | `TTYTypeCorrect` | `TTYTypeOK` |
| | `TTYLeavesNoOrphan` | `TTYNoOrphan` |
| | `TTYStreamIsContinuous` | `StreamContinuesSnapshot` |
| | `TTYScreenIsComplete` | `FinalScreenIsComplete` |
| | `TTYSuccessIsRecorded` | `TTYSuccessMeansRecorded` |
| `AttachProofs` | `AttachInvariant` | the inductive invariant |
| | `AttachTypeCorrect` | `AttachTypeOK` |
| | `EmulatorIsInStep` | `EmulatorFollowsFields` |
| | `PTYIsInStep` | `PTYFollowsFields` |
| | `ClientIsInStep` | `ClientFollowsHost` |
| | `ExitCodeIsNotStale` | `ExitCodeIsOfSeenTask` |
| `EventLogProofs` | `EventInvariant` | the inductive invariant |
| | `EventTypeCorrect` | `EventTypeOK` |
| | `EventLogRefines` | `ImplementsAppendLog` (refinement) |
| `SystemdProofs` | `SystemdInvariant` | the inductive invariant |
| | `SystemdFollowIsComplete` | `SystemdFollowPrintsAll` |
| | `KilledIsOver` | `KilledMeansOver` |
| | `HistoryTellsTheTruth` | `HistoryIsTruthful` |
| `JournalProofs` | `JournalInvariant` | the inductive invariant |
| | `SyncedEntriesSurviveHolds` | `SyncedEntriesSurvive` |
| | `ReaderMissesNothingHolds` | `ReaderMissesNothing` |
| | `IndexIsExactHolds` | `IndexIsExact` |

Hardly any of the properties is inductive. What each module's invariant adds:

**Host** (`HostInv`).

* `ControlInv`: the loop, the waiter and the fields agree. `proc` is set exactly
  while the waiter has not published; the loop is at `start` or `returned` only over
  a waiter that ended (or none); an ended waiter means a dead leader and ended
  readers. This is what `<-doneChan` buys, and `NoOrphanedTask`,
  `RestartIsExclusive` and `ForceOnlyAfterTerm` follow from it alone.
* `LogInv`: the log holds no record of an incarnation still to come, an exited record
  of the current one only if the waiter wrote it, a started record only if the loop
  did. With `ControlInv`, each writer finds only records that may precede its own,
  which is `IncarnationsInOrder` (`WriteKeepsOrder`).
* `TargetInv`: no request has looked up a future incarnation, so a signal sent late
  cannot count for a new task.
* `RecordInv`: as long as the error channel is empty and nobody has taken an error
  out of it, everything that should be in the log is there.
* `CountInv` and `DrainInv`: each line is logged, lost or in the pipe; a reader that
  saw EOF left an empty pipe and no writer. Counting uses the cardinality theorems
  of the library (`LoggedAppend`).

`IInv`, their conjunction, holds on the instance of `host_safety`.

**PosixSession.** The parts of `HostInv` that still hold when the process may fail to
start or be killed under its goroutines are carried over: `StepOfHost` says that every
step of the session is a step of `Host`, leaves the host alone, breaks its pipes, or is a
record of `failedStartResult`, so the step lemmas of `HostProofs` are used again. New
are `FailedInv` (a failed start's three records are all there is), `StoryInv` (otherwise the
log is the goroutines'), `ExitInv` (the waiter's exited record is in the log or its error
was reported) and `FollowInv` (what was printed is what was read). `FollowPrintsAll` then
rests on `IncarnationsInOrder`: no output follows an exited record.

**TTYHost.** `LifeInv` is the reader beside the loop, `LockInv` says from the steps of reader
and requests who owns `mu` and `vmu` and who is in the map. `StreamInv` (`FollowsOn`)
is the property from the snapshot on, before the client is registered: Attach holds `mu` from
the one to the other, so the broadcast that comes first repeats at most the snapshot's
last chunk. `RecordInv` is what the reader has recorded at each step if no write failed,
`ResultInv` that a failed write is in the error channel or has decided the result.

**AttachClient.** `RequestInv` says who may change the size: one Attach, and only of the
first client; at most one client found itself alone. `SizeInv` says what a request in
progress still owes to emulator and PTY, `EmuInv` (`Shows`) what the messages queued in
`vtermCh` will make of a client's emulator, `TaskInv` and `ExitInv` why an exit code is never
older than the task a client attached to.

**EventLog.** `OwnerInv` (in `EventTypeOK`) says who holds connections and the write lock.
`IdInv`: a row's id is its place. `TxInv`: the transaction with the lock has the next id;
this is where SQLite's single writer matters, as ids are given at the INSERT and rows
show at the commit. `FollowInv` (`CaughtUp`): the rows in hand are all that match between
two ids. With it `EventLogRefines` shows that the initial state is `AppendLog`'s and each step
is a step of `AppendLog` or a stutter. It assumes that no record is the value `<<>>` that
stands for no transaction; the code's records are never empty, as Write adds MESSAGE and
PRIORITY (`sqlite.go:94`).

**SystemdSession.** The invariant is about all records sent, in the socket or in the
journal (`Sent`): journald's own step changes none. `OrderInv`: they are in the order of
the incarnations. `NowInv`: until an exit is recorded, lines printed are outputs recorded and
those in the pipe. `PastInv`: the first exit follows on all lines of its incarnation.
`AfterInv`: that incarnation prints no more. `FollowInv` and `HistInv` say what the commands
have read. The follower stops at the first exit, so what it printed is the count of `PastInv`.
`UnitInv` counts the listings that left out a unit which is not gone: at least one when the grace
period has begun or history has read its list, two when follow gives up.

**JournalFile.** Two hypotheses: one process writes the file (`OneWriter`; two overwrite
each other's links, see above), and each statement is about a file below the range of
`TailEntryArrayOffset` (`Fits`). Both hold in the run. A file never gets shorter
(`StepGrows`), so one that fits always did (`FitsBefore`), and the theorems read
`JSpec => [](Fits => ...)`. `JInv(w, L, c)` has two
witnesses: `c`, the chain of the entries' arrays from where the file begins for whoever knows
most of it, and `L`, the arrays of the data objects, closed under links and disjoint from
`c`. Links lead forward (`ForwardInv`), hence every walk ends: `WalkStep` and `LastStep`
show that the recursive functions are defined, by descent from the last offset (the least
offset from which they are, `LeastExists`, is 1). `SyncInv`: the synced entries are a prefix of
`c`. `WriterInv`: the writer's tail is the last entry it knows, and what it is writing
hangs on that tail or on nothing; so the link that cuts off what a dead writer left over cuts
behind the synced prefix. `NothingLeft`: while nothing is left over, `c` has no more than the
writer knows, and a reader stands on `c` and has got what lies before. There is one lemma
for each action (`...Keeps`).

`IndexIsExact` has an inductive invariant of its own on top of it, `IndexInv`, for a file that
was not reopened. `HashInv`: the hash chain goes through all data objects in the order of the
file, so a lookup ends (`LookupStep`) with the object that has the data, if there is one
(`LookupFinds`). `CacheInv`: the writer remembers each data object, so no data have two. `OwnInv`:
every array of a data object has one owner (`own`, the witness, which grows with each
new array), its links stay with that owner, and it has `ArrayCap` slots. `TailInv`: the arrays that
`ChainArray` links have no owner, so the entries' chain and the data's cannot get
entangled; here `Fits` is needed once more. `ItemInv`: each data object is in an entry, or will be in the one being
written. `ListInv`: an object lists the entries that have it, less the one still to be linked, and
`n` is their number. What an object lists is a walk, that is a recursive function of the
file; `FoundStep` gives its equation, `FoundKept` says that arrays which link only among
themselves and do not change find what they found, and `FoundMore` that an entry found in the last
array of a chain is found from its first. Both descend from the last offset at which
the claim could fail. With `OwnInv` they say that linking an entry to one data object (`ListEntryPlaces`:
its four cases) adds that entry to this object's list and to no other's (`ListedMore`).

Only model-checked:

* all liveness properties: fairness and ENABLED are beyond the prover;
* that the three violations happen.

## 5. Not modelled

* Output protocols (`internal/protocol`): functions of the bytes read. What they compute
  for every way of cutting the stream is an induction over data; `Host` models when a line
  is written and what ends a reader.
* Command line, charts, flags, profiles: no state besides the backends' calls.
* Resource sampling and limits: reads of `/proc` and cgroups and arithmetic.
* Error returns of `AppendEntry` (`journal.go:253-303`, `655-689`: the sequence number is
  advanced and objects are written before a write that may fail). Its only caller outside the
  tests, `cmd/devtools/test-journal`, ends at its first error, which is the writer's crash;
  a caller that appends again after an error is not modelled.
* The C terminal emulator and its WASM build: third party; its lock and its callbacks
  are in `TTYHost`.
* The two sweeps of `signalProcessSession` against forks: one step here; what a sweep of
  `/proc` misses is up to the kernel.
* The D-Bus client of the systemd backend's TTY sessions makes the requests that `TTYHost`
  and `AttachClient` model; its transport is left out.

## 6. What is left

The safety properties are proved; liveness stays with the runs. Of the hazards in
`PROJECT.json`, those without a property say why: the code has no state to state it about (the
cursor read after a snapshot, processes forked between two sweeps), the loss is reported nowhere
(errors of the cancelled branch, a unit whose properties cannot be read), or a bound of the code's
format is left (`TailEntryArrayOffset`, the case `Fits` excludes).
