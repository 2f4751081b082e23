--------------------------- MODULE SystemdSession ---------------------------
(***************************************************************************)
(* A session on systemd and journald: the transient unit, the host in it,     *)
(* the way of a record from the host to a reader, and the commands that       *)
(* start, stop, kill, follow and list the session                          *)
(* (internal/backend/systemd, internal/journal).                           *)
(*                                                                         *)
(* Of the host only what its unit and its records show is kept: the main      *)
(* goroutine (main), the task with its readers and its waiter (task), and      *)
(* the records they send, in one order, through one socket.  Module Host has   *)
(* the rest.  journald moves records from the socket to the journal in order,  *)
(* some time later.                                                        *)
(***************************************************************************)
EXTENDS Integers, Sequences

CONSTANTS MaxLines,      \* bound: lines an incarnation prints
          MaxRestarts,   \* bound: restarts
          SinkMayFail,   \* a write to journald's socket may fail
          MaxBusErrors   \* bound: listings of the units that fail or leave a live one out

ASSUME SystemdAssumption ==
    /\ MaxLines \in Nat /\ MaxRestarts \in Nat /\ MaxBusErrors \in Nat
    /\ SinkMayFail \in BOOLEAN

VARIABLES
    unit,      \* state of the unit; "gone" when it is collected
    signalled, \* systemd has sent SIGTERM to the host
    main,      \* the host's main goroutine
    task,      \* none, running, ended, recorded (its exit record is sent), done
    inc,       \* incarnation of the task
    lines,     \* lines the task has printed that the readers have not written
    made,      \* lines each incarnation has printed, less those closed pipes dropped
    lost,      \* a write to the socket has failed
    socket,    \* records sent and not in the journal
    journal,   \* records a reader can see
    start, stop,       \* the commands that change the session
    reader,            \* the command that reads in this behaviour
    follow, offered, got, missing, printed, busErrors, \* FollowSession
    hist               \* ListHistory

hostVars == <<signalled, main, task, inc, lines, made, lost>>
cmdVars == <<start, stop>>
followVars == <<follow, offered, got, missing, printed, busErrors>>
sysVars == <<unit, hostVars, socket, journal, cmdVars, reader, followVars, hist>>

Rec(kind, n) == [kind |-> kind, inc |-> n]
NoHistory == [pc |-> "idle", begun |-> 0, known |-> 0, status |-> "none", inc |-> 0,
              started |-> 0]

SysInit ==
    /\ unit = "none" /\ signalled = FALSE /\ main = "none" /\ task = "none"
    /\ inc = 0 /\ lines = 0 /\ made = [n \in 1..(MaxRestarts + 1) |-> 0] /\ lost = FALSE
    /\ socket = <<>> /\ journal = <<>>
    /\ start = "idle" /\ stop = "idle"
    /\ reader \in {"follow", "history", "emit"}
    /\ follow = "idle" /\ offered = 0 /\ got = 0 /\ missing = FALSE /\ printed = 0
    /\ busErrors = 0
    /\ hist = NoHistory

-----------------------------------------------------------------------------
(* Records.                                                                *)

(* SocketSink.Write hands one datagram to journald's socket, or fails.        *)
SocketWrite(rec, ok) ==
    \/ ok /\ socket' = Append(socket, rec)
    \/ ~ok /\ SinkMayFail /\ UNCHANGED socket

(* journald takes the next datagram.                                        *)
Ingest ==
    /\ socket # <<>>
    /\ journal' = Append(journal, Head(socket)) /\ socket' = Tail(socket)
    /\ UNCHANGED <<unit, hostVars, cmdVars, reader, followVars, hist>>

-----------------------------------------------------------------------------
(* The host.                                                               *)
hostOnly == UNCHANGED <<unit, signalled, journal, cmdVars, reader, followVars, hist>>

(* RunHost: the command resolves and Run installs the signal handler, or       *)
(* failedStartResult writes three records, or the host cannot run at all.     *)
Boot ==
    /\ main = "boot" /\ main' \in {"spawn", "failStart", "exit"}
    /\ UNCHANGED <<task, inc, lines, made, lost, socket>> /\ hostOnly

FailStart ==
    /\ \/ main = "failStart" /\ main' = "failOutput" /\ SocketWrite(Rec("started", 1), TRUE)
          /\ UNCHANGED made
       \/ /\ main = "failOutput" /\ main' = "failExited" /\ SocketWrite(Rec("output", 1), TRUE)
          /\ made' = [made EXCEPT ![1] = 1]
       \/ main = "failExited" /\ main' = "failReady" /\ SocketWrite(Rec("exited", 1), TRUE)
          /\ UNCHANGED made
    /\ UNCHANGED <<task, inc, lines, lost>> /\ hostOnly

FailStartWrite ==
    /\ SinkMayFail /\ main \in {"failStart", "failOutput", "failExited"} /\ main' = "exit"
    /\ lost' = TRUE
    /\ UNCHANGED <<task, inc, lines, made, socket>> /\ hostOnly

(* RunTask starts the task, or it cannot be executed.                        *)
Spawn ==
    /\ main = "spawn"
    /\ \/ main' = "emit" /\ task' = "running" /\ inc' = inc + 1 /\ lines' = 0
       \/ main' = "exit" /\ UNCHANGED <<task, inc, lines>>
    /\ UNCHANGED <<made, lost, socket>> /\ hostOnly

EmitStarted ==
    /\ main = "emit"
    /\ \/ SocketWrite(Rec("started", inc), TRUE) /\ main' = "notify" /\ UNCHANGED lost
       \/ SocketWrite(Rec("started", inc), FALSE) /\ main' = "terminate" /\ lost' = TRUE
    /\ UNCHANGED <<task, inc, lines, made>> /\ hostOnly

(* READY=1: the start job is done.                                          *)
Notify ==
    /\ main \in {"notify", "failReady"}
    /\ main' = IF main = "notify" THEN "select" ELSE "exit"
    /\ unit' = IF unit = "activating" THEN "active" ELSE unit
    /\ UNCHANGED <<signalled, task, inc, lines, made, lost, socket, journal, cmdVars,
                   reader, followVars, hist>>

(* The service manager cannot be told: the task is terminated.               *)
NotifyFail ==
    /\ main \in {"notify", "failReady"}
    /\ main' = IF main = "notify" THEN "terminate" ELSE "exit"
    /\ UNCHANGED <<task, inc, lines, made, lost, socket>> /\ hostOnly

(* The select of RunTask: the task is done, a write failed, SIGTERM, or a restart, *)
(* which may have been asked for when the task had ended already.            *)
Select ==
    /\ main = "select"
    /\ \/ task = "done" /\ main' = "exit"
       \/ (lost \/ signalled) /\ main' = "terminate"
       \/ inc <= MaxRestarts /\ main' = "restart"
    /\ UNCHANGED <<task, inc, lines, made, lost, socket>> /\ hostOnly

(* terminateTask and the end of a restart both wait for doneChan.            *)
TaskDone ==
    /\ task = "done"
    /\ \/ main = "terminate" /\ main' = "exit"
       \/ main = "restart" /\ main' = "spawn"
    /\ UNCHANGED <<task, inc, lines, made, lost, socket>> /\ hostOnly

Main == Boot \/ FailStart \/ FailStartWrite \/ Spawn \/ EmitStarted \/ Notify
        \/ NotifyFail \/ Select \/ TaskDone

-----------------------------------------------------------------------------
(* The task, its readers and its waiter.                                   *)
TaskPrint ==
    /\ task = "running" /\ made[inc] < MaxLines
    /\ lines' = lines + 1 /\ made' = [made EXCEPT ![inc] = @ + 1]
    /\ UNCHANGED <<main, task, inc, lost, socket>> /\ hostOnly

TaskExit ==
    /\ task = "running" /\ task' = "ended"
    /\ UNCHANGED <<main, inc, lines, made, lost, socket>> /\ hostOnly

WriteOutput ==
    /\ lines > 0 /\ main # "dead" /\ lines' = lines - 1
    /\ \/ SocketWrite(Rec("output", inc), TRUE) /\ UNCHANGED lost
       \/ SocketWrite(Rec("output", inc), FALSE) /\ lost' = TRUE
    /\ UNCHANGED <<main, task, inc, made>> /\ hostOnly

(* Mutant of EmitExited: the waiter does not wait for the readers.           *)
EmitExited_NotDrained ==
    /\ task = "ended" /\ main # "dead" /\ task' = "recorded"
    /\ \/ SocketWrite(Rec("exited", inc), TRUE) /\ UNCHANGED lost
       \/ SocketWrite(Rec("exited", inc), FALSE) /\ lost' = TRUE
    /\ UNCHANGED <<main, inc, lines, made>> /\ hostOnly

(* The waiter writes the exit when the output is drained.  A restart or a stop *)
(* closes the pipes, and what is in them is not read.                       *)
EmitExited ==
    /\ task = "ended" /\ main # "dead" /\ task' = "recorded"
    /\ lines = 0 \/ main \in {"terminate", "restart"}
    /\ lines' = 0 /\ made' = [made EXCEPT ![inc] = @ - lines]
    /\ \/ SocketWrite(Rec("exited", inc), TRUE) /\ UNCHANGED lost
       \/ SocketWrite(Rec("exited", inc), FALSE) /\ lost' = TRUE
    /\ UNCHANGED <<main, inc>> /\ hostOnly

CloseDone ==
    /\ task = "recorded" /\ main # "dead" /\ task' = "done"
    /\ UNCHANGED <<main, inc, lines, made, lost, socket>> /\ hostOnly

TaskStep == WriteOutput \/ EmitExited \/ CloseDone

-----------------------------------------------------------------------------
Live == unit \in {"activating", "active", "deactivating"}

(* systemd, as the properties that Start gives the unit configure it: a        *)
(* notify service, KillMode=mixed, TimeoutStop, collected when it is inactive. *)
sysOnly == UNCHANGED <<inc, made, lost, socket, journal, reader, followVars, hist>>

(* Every process of the cgroup gets SIGKILL.                                *)
KillCgroup ==
    /\ main' = IF main = "gone" THEN "gone" ELSE "dead"
    /\ task' = IF task = "none" THEN "none" ELSE "done"
    /\ lines' = 0

(* The main process is over: what is left in the cgroup is killed, and the     *)
(* unit is collected.  The start job of a unit that was not ready has failed.  *)
MainExited ==
    /\ main \in {"exit", "dead"} /\ unit # "gone"
    /\ main' = "gone" /\ unit' = "gone"
    /\ task' = IF task = "none" THEN "none" ELSE "done"
    /\ lines' = 0
    /\ start' = IF unit = "activating" THEN "failed" ELSE start
    /\ stop' = IF stop = "wait" THEN "done" ELSE stop
    /\ UNCHANGED signalled /\ sysOnly

(* TimeoutStopUSec: the unit that does not stop is killed.                   *)
StopTimeout ==
    /\ unit = "deactivating" /\ main \notin {"gone", "dead", "exit"}
    /\ KillCgroup
    /\ UNCHANGED <<unit, signalled, cmdVars>> /\ sysOnly

(* StartTransient: the job ends when the host is ready, gone or stopped.       *)
StartTransient ==
    /\ start = "idle" /\ start' = "wait"
    /\ unit' = "activating" /\ main' = "boot"
    /\ UNCHANGED <<signalled, task, lines, stop>> /\ sysOnly

StartReturns ==
    /\ start = "wait" /\ unit # "activating" /\ start' = "done"
    /\ UNCHANGED <<unit, signalled, main, task, lines, stop>> /\ sysOnly

(* StopUnit: SIGTERM to the host, which ends at once if its handler is not      *)
(* installed yet; the job is done when the unit is inactive.  It takes the place  *)
(* of a start job that has not ended, which is canceled.                     *)
StopUnit ==
    /\ stop = "idle" /\ unit \in {"activating", "active"}
    /\ stop' = "wait" /\ unit' = "deactivating"
    /\ \/ main \in {"boot", "failStart", "failOutput", "failExited", "failReady"}
          /\ main' = "dead" /\ UNCHANGED signalled
       \/ main \notin {"boot", "failStart", "failOutput", "failExited", "failReady"}
          /\ signalled' = TRUE /\ UNCHANGED main
    /\ start' = IF unit = "activating" THEN "failed" ELSE start
    /\ UNCHANGED <<task, lines>> /\ sysOnly

(* KillUnit: SIGKILL to all processes of the unit.                           *)
KillUnit ==
    /\ stop = "idle" /\ Live
    /\ stop' = "killed" /\ KillCgroup
    /\ UNCHANGED <<unit, signalled, start>> /\ sysOnly

-----------------------------------------------------------------------------
(* FollowSession: a goroutine iterates over the journal (SDJournalSource.Follow) *)
(* and offers each record of the session on an unbuffered channel.           *)
readOnly == UNCHANGED <<unit, hostVars, socket, journal, cmdVars, reader, hist>>

FollowSession ==
    /\ reader = "follow" /\ follow = "idle" /\ start = "done"
    /\ follow' = "select"
    /\ UNCHANGED <<offered, got, missing, printed, busErrors>> /\ readOnly

FollowNext ==
    /\ follow = "select" /\ offered = 0 /\ got < Len(journal)
    /\ offered' = got + 1
    /\ UNCHANGED <<follow, got, missing, printed, busErrors>> /\ readOnly

(* The loop takes the record: an exit ends it, a line of output is printed.   *)
ReceiveEvent ==
    /\ follow = "select" /\ offered # 0
    /\ got' = offered /\ offered' = 0
    /\ follow' = IF journal[offered].kind = "exited" THEN "completed" ELSE "select"
    /\ printed' = IF journal[offered].kind = "output" THEN printed + 1 ELSE printed
    /\ UNCHANGED <<missing, busErrors>> /\ readOnly

(* ListSessions: is the unit among the live ones?  One whose properties cannot be  *)
(* read is left out without an error, and so is one of another root slice.     *)
List(listed) ==
    \/ listed = Live /\ UNCHANGED busErrors
    \/ Live /\ ~listed /\ busErrors < MaxBusErrors /\ busErrors' = busErrors + 1

(* Mutant of CheckUnit: the first listing without the session is believed.     *)
CheckUnit_NoGrace ==
    /\ follow = "select"
    /\ \/ List(TRUE) /\ UNCHANGED follow
       \/ List(FALSE) /\ follow' = "killed"
    /\ UNCHANGED <<offered, got, missing, printed>> /\ readOnly

(* Mutant of CheckUnit: every tick begins the grace period anew.              *)
CheckUnit_Restarts ==
    /\ follow = "select"
    /\ \E listed \in BOOLEAN : List(listed) /\ missing' = ~listed
    /\ UNCHANGED <<follow, offered, got, printed>> /\ readOnly

(* checkUnit: the session is not listed, and 500 ms later it is still not, although  *)
(* the select may have chosen the ticker over the channel.                   *)
CheckUnit ==
    /\ follow = "select"
    /\ \/ List(TRUE) /\ missing' = FALSE /\ UNCHANGED follow
       \/ List(FALSE) /\ ~missing /\ missing' = TRUE /\ UNCHANGED follow
       \/ List(FALSE) /\ missing /\ missing' = FALSE /\ follow' = "killed"
    /\ UNCHANGED <<offered, got, printed>> /\ readOnly

(* The units cannot be listed: a grace period that was running is over.        *)
CheckUnitFails ==
    /\ follow = "select" /\ missing /\ busErrors < MaxBusErrors
    /\ busErrors' = busErrors + 1 /\ missing' = FALSE
    /\ UNCHANGED <<follow, offered, got, printed>> /\ readOnly

(* The timeout, the output limit, Ctrl+C, or the end of the iteration; nothing is     *)
(* reported of the session, and what was read of it is forgotten.              *)
FollowDetaches ==
    /\ follow = "select" /\ follow' = "detached"
    /\ offered' = 0 /\ got' = 0 /\ missing' = FALSE /\ printed' = 0 /\ busErrors' = 0
    /\ readOnly

-----------------------------------------------------------------------------
(* ListHistory: the started records, the live units, the exited records.     *)
histOnly == UNCHANGED <<unit, hostVars, socket, journal, cmdVars, reader, follow, offered,
                        got, missing, printed>>

Kinds(kind, n) == {i \in 1..n : journal[i].kind = kind}
LastOf(S) == IF S = {} THEN 0 ELSE CHOOSE i \in S : \A k \in S : k <= i

HistoryStarted ==
    /\ reader = "history" /\ hist.pc = "idle"
    /\ hist' = [hist EXCEPT !.pc = "live", !.begun = Len(journal),
                            !.started = LastOf(Kinds("started", Len(journal)))]
    /\ UNCHANGED busErrors /\ histOnly

(* A session that is listed as live is left out.                            *)
HistoryLive ==
    /\ hist.pc = "live"
    /\ \/ List(TRUE) /\ hist' = [NoHistory EXCEPT !.pc = "done"]
       \/ List(FALSE) /\ hist' = [hist EXCEPT !.pc = "exited", !.known = Len(journal)]
    /\ histOnly

(* What the last started and the last exited record make of a session.       *)
Status(started, exited) ==
    IF exited # 0 /\ (started = 0 \/ exited >= started)
    THEN [status |-> "exited", inc |-> journal[exited].inc]
    ELSE [status |-> IF started = 0 THEN "none" ELSE "killed",
          inc |-> IF started = 0 THEN 0 ELSE journal[started].inc]

Verdict(s) ==
    hist' = [hist EXCEPT !.pc = "done", !.begun = 0, !.status = s.status, !.inc = s.inc]

(* Mutant of HistoryExited: the exits were read together with the starts.     *)
HistoryExited_ReadEarly ==
    /\ hist.pc = "exited"
    /\ Verdict(Status(hist.started, LastOf(Kinds("exited", hist.begun))))
    /\ UNCHANGED busErrors /\ histOnly

HistoryExited ==
    /\ hist.pc = "exited"
    /\ Verdict(Status(hist.started, LastOf(Kinds("exited", Len(journal)))))
    /\ UNCHANGED busErrors /\ histOnly

-----------------------------------------------------------------------------
(* WriteSync of swash emit: the record, then polling for its nonce; after 5 s   *)
(* the command fails although the record may come.                          *)
WriteSync ==
    /\ reader = "emit" /\ follow = "idle" /\ start = "done"
    /\ \/ SocketWrite(Rec("event", 0), TRUE) /\ follow' = "nonce"
       \/ SocketWrite(Rec("event", 0), FALSE) /\ follow' = "failed"
    /\ UNCHANGED <<unit, hostVars, journal, cmdVars, reader, offered, got, missing, printed,
                   busErrors, hist>>

WaitForNonce ==
    /\ follow = "nonce"
    /\ \/ Kinds("event", Len(journal)) # {} /\ follow' = "completed"
       \/ follow' = "failed"
    /\ UNCHANGED <<offered, got, missing, printed, busErrors>> /\ readOnly

Commands ==
    \/ StartTransient \/ StartReturns \/ StopUnit \/ KillUnit \/ FollowSession
    \/ FollowDetaches \/ HistoryStarted \/ HistoryLive \/ HistoryExited
    \/ WriteSync \/ WaitForNonce

SysNext ==
    \/ Ingest \/ Main \/ TaskPrint \/ TaskExit \/ TaskStep
    \/ MainExited \/ StopTimeout \/ Commands
    \/ FollowNext \/ ReceiveEvent \/ CheckUnit \/ CheckUnitFails

(* The follower's ticker goes on, and its loop takes it some time; nothing is asked    *)
(* of the host, of journald and of systemd.                                   *)
SysFairness == WF_sysVars(CheckUnit)

SysSpec == SysInit /\ [][SysNext]_sysVars
SysFairSpec == SysSpec /\ SysFairness

-----------------------------------------------------------------------------
(* Properties.                                                             *)

(* FollowCompleted: everything that the incarnation whose exit ended the follow    *)
(* (and those before it) printed and the host read has been printed, unless a     *)
(* write to the journal failed.                                              *)
SystemdFollowPrintsAll ==
    reader = "follow" /\ follow = "completed" /\ ~lost => printed = made[journal[got].inc]

(* A listing may leave out a session that is live, and the grace period is there so   *)
(* that follow does not believe a single one: a session that it reports as killed    *)
(* is over, with nothing left of the task, unless two listings left it out.        *)
(* ListHistory has no grace: one such listing is enough for it.                   *)
KilledMeansOver ==
    /\ follow = "killed" /\ busErrors < 2 => unit = "gone" /\ task \in {"none", "done"}
    /\ hist.status = "killed" /\ busErrors = 0 => unit = "gone" /\ task \in {"none", "done"}

(* The exit of a task that ended before its start was recorded (host.go waits for   *)
(* neither): ListHistory takes it for the exit of the start before.               *)
ExitedEarly(i) ==
    \E k \in Kinds("started", Len(journal)) : i < k /\ journal[k].inc = journal[i].inc

(* ListHistory takes its three readings at different moments.  Of the incarnation     *)
(* that it reports as killed, and of later ones, no exit was readable when the        *)
(* session was found not to be live, but for one recorded before its own start; and    *)
(* what it reports as exited has exited since the start that it read.                *)
HistoryIsTruthful ==
    hist.pc = "done" =>
        /\ hist.status = "killed" =>
              \A i \in Kinds("exited", hist.known) :
                  journal[i].inc < hist.inc \/ ExitedEarly(i)
        /\ hist.status = "exited" /\ hist.started # 0 =>
              hist.inc >= journal[hist.started].inc

(* The follower of a session that ends does not wait for ever: the exit record     *)
(* or the missing unit ends it.                                               *)
FollowEndsWithUnit == []<>(unit = "gone" => follow # "select")

(* types.go: FollowKilled means that the host disappeared without recording an      *)
(* exit.                                                                     *)
KilledMeansNoExit ==
    follow = "killed" => Kinds("exited", Len(journal)) = {}
=============================================================================
