---------------------------- MODULE PosixSession ----------------------------
(***************************************************************************)
(* A session of the posix backend (internal/backend/posix/stub.go): the     *)
(* pipe host of module Host inside its process, and the commands that other *)
(* processes run against it.                                               *)
(*                                                                         *)
(*   swash run     StartSession, waitReady, then FollowSession              *)
(*   swash stop    StopSession: SIGTERM to the host process                 *)
(*   swash kill    KillSession: POST /kill, on any error SIGKILL to the host *)
(*   restart       POST /restart of the control socket                      *)
(*   swash history ListHistory                                              *)
(*                                                                         *)
(* The commands and the host share only the control socket, the host's      *)
(* process ID and the event log.  The host process can be killed between     *)
(* any two steps of its goroutines; the task is then left on its own.       *)
(***************************************************************************)
EXTENDS Host, FiniteSetsExt

VARIABLES
    host,       \* life of the host process (RunHost)
    sigkilled,  \* the host process was sent SIGKILL
    stopped,    \* StopSession was called (bound: once)
    killer,     \* the KillSession that each control request may belong to
    follow,     \* swash run: StartSession, its waitReady, then FollowSession
    cursor,     \* position of the follower in the event log
    printed     \* lines of output the follower has printed

sessionVars == <<host, sigkilled, stopped, killer, follow, cursor, printed>>
allVars == <<vars, sessionVars>>

FailedSteps == {"failStarted", "failOutput", "failExited"}
HostStates == {"none", "booting", "binding", "up", "gone"} \cup FailedSteps

(* Types: a follower is never ahead of the log, and prints only what it has read.  *)
SessionTypeOK ==
    /\ TypeOK
    /\ host \in HostStates
    /\ {sigkilled, stopped} \subseteq BOOLEAN
    /\ killer \in [Calls -> {"idle", "connected", "fallback", "done"}]
    /\ follow \in {"none", "waiting", "reading", "completed", "over"}
    /\ cursor \in 0..Len(log) /\ printed \in 0..cursor

SessionInit ==
    /\ Init
    /\ host = "none" /\ sigkilled = FALSE /\ stopped = FALSE
    /\ killer = [c \in Calls |-> "idle"]
    /\ follow = "none" /\ cursor = 0 /\ printed = 0

-----------------------------------------------------------------------------
(* The host process: RunHost in unix-socket mode.                           *)

clientsUnchanged == UNCHANGED <<sigkilled, stopped, killer, follow, cursor,
                               printed>>

(* StartSession: the process is started and its PID put in meta.json.       *)
StartSession ==
    /\ host = "none"
    /\ host' = "booting" /\ follow' = "waiting"
    /\ UNCHANGED <<vars, sigkilled, stopped, killer, cursor, printed>>

(* Flags, event database and command are in order; signals are now caught.  *)
Boot ==
    /\ host = "booting" /\ host' = "binding"
    /\ UNCHANGED vars /\ clientsUnchanged

(* The database cannot be opened, or the socket cannot be bound.            *)
BootFail ==
    /\ host \in {"booting", "binding"} /\ host' = "gone"
    /\ UNCHANGED vars /\ clientsUnchanged

(* ServeUnix: from here on the control socket answers, while RunTask runs.  *)
Bind ==
    /\ host = "binding" /\ host' = "up"
    /\ UNCHANGED vars /\ clientsUnchanged

(* resolveCommand failed: failedStartResult records a session that printed   *)
(* an error and exited with 127, and the host ends.                        *)
ResolveFail ==
    /\ host = "booting" /\ host' = "failStarted"
    /\ UNCHANGED vars /\ clientsUnchanged

FailedStart(step, ev, val, next) ==
    /\ host = step
    /\ \/ WriteOK(ev, val) /\ host' = next
       \/ LogMayFail /\ host' = "gone" /\ UNCHANGED <<log, eventErrors>>
    /\ UNCHANGED <<loopVars, cancelled, callVars, inc, fieldVars, done, taskVars,
                   pipeVars, waiter>>
    /\ clientsUnchanged

failedStartResult ==
    \/ FailedStart("failStarted", "started", 0, "failOutput")
    \/ FailedStart("failOutput", "output", 2, "failExited")
    \/ FailedStart("failExited", "exited", 127, "gone")

(* RunTask returned: the socket is removed and the process exits.           *)
HostExit ==
    /\ host = "up" /\ pc = "returned" /\ host' = "gone"
    /\ UNCHANGED vars /\ clientsUnchanged

HostProcess ==
    Boot \/ BootFail \/ Bind \/ ResolveFail \/ failedStartResult \/ HostExit

(* The goroutines of module Host run while the process does.                *)
HostLoop == host = "up" /\ RunLoop /\ UNCHANGED sessionVars
HostReader(f) == host = "up" /\ (ReadLine(f) \/ ReadEnd(f)) /\ UNCHANGED sessionVars
HostWaiter == host = "up" /\ Waiter /\ UNCHANGED sessionVars

(* The task's processes need no host.                                      *)
HostTask == Task /\ UNCHANGED sessionVars

-----------------------------------------------------------------------------
(* The commands.                                                           *)

(* StopSession: SIGTERM kills a host that does not catch it yet, and cancels  *)
(* the context of one that does.                                           *)
StopSession ==
    /\ ~stopped /\ stopped' = TRUE
    /\ \/ /\ host \in {"booting"} \cup FailedSteps
          /\ host' = "gone" /\ UNCHANGED vars
       \/ /\ host \in {"binding", "up"}
          /\ Cancel /\ UNCHANGED host
    /\ UNCHANGED <<sigkilled, killer, follow, cursor, printed>>

Dead(h) == h \in {"none", "gone"}

SetKiller(c, s) == killer' = [killer EXCEPT ![c] = s]
killerFrame == UNCHANGED <<stopped, follow, cursor, printed>>

(* KillSession dials the control socket.                                   *)
KillConnect(c) ==
    /\ killer[c] = "idle" /\ call[c] = "new" /\ host # "none"
    /\ SetKiller(c, IF host = "up" THEN "connected" ELSE "fallback")
    /\ UNCHANGED <<vars, host, sigkilled>> /\ killerFrame

(* The handlers of the socket, for a Kill and for a Restart request.        *)
ServeKill(c) ==
    /\ host = "up" /\ killer[c] = "connected"
    /\ KillLookup(c) \/ KillSend(c)
    /\ UNCHANGED sessionVars

ServeRestart(c) ==
    /\ host = "up" /\ killer[c] = "idle"
    /\ RestartCheck(c) \/ RestartSend(c)
    /\ UNCHANGED sessionVars

(* The answer of the host, or a broken connection when it is gone.          *)
KillAnswered(c) ==
    /\ killer[c] = "connected"
    /\ \/ call[c] = "sent" /\ SetKiller(c, "done")
       \/ call[c] = "refused" /\ SetKiller(c, "fallback")
       \/ call[c] \in {"new", "killing"} /\ host = "gone" /\ SetKiller(c, "fallback")
    /\ UNCHANGED <<vars, host, sigkilled>> /\ killerFrame

(* Mutant of KillFallback: the host is not killed.                          *)
KillFallback_NoSignal(c) ==
    /\ killer[c] = "fallback" /\ SetKiller(c, "done")
    /\ UNCHANGED <<vars, host, sigkilled>> /\ killerFrame

(* Any error of the control plane: SIGKILL to the host process.  Its ends of *)
(* the task's pipes are closed with it.                                    *)
KillFallback(c) ==
    /\ killer[c] = "fallback" /\ SetKiller(c, "done")
    /\ host' = "gone"
    /\ sigkilled' = (sigkilled \/ ~Dead(host))
    /\ readEnd' = (readEnd /\ Dead(host))
    /\ UNCHANGED <<loopVars, cancelled, callVars, inc, fieldVars, done, eventErrors,
                   taskVars, pipe, written, lost, reader, waiter, log>>
    /\ killerFrame

KillSession(c) == KillConnect(c) \/ KillAnswered(c) \/ KillFallback(c)

(* The command that started the session.  Its StartSession returns with       *)
(* waitReady; its FollowSession then reads from the start of the log, one     *)
(* record after the other.  (Empty lines of output are recorded but not       *)
(* printed; the lines of the model are the others.)                         *)
followFrame == UNCHANGED <<vars, host, sigkilled, stopped, killer>>

(* Mutant of FollowStart: the records already in the log are skipped.        *)
FollowStart_PastEnd ==
    follow' = "reading" /\ cursor' = Len(log) + 1 /\ UNCHANGED printed

FollowStart == follow' = "reading" /\ UNCHANGED <<cursor, printed>>

(* One pass of waitReady's loop: the socket answers, or the log has the       *)
(* started record.  (The host is an unreaped child of the waiting process,  *)
(* so pidAlive holds to the end.)                                           *)
ReadyOK ==
    /\ follow = "waiting"
    /\ host = "up" \/ \E i \in DOMAIN log : log[i].ev = "started"
    /\ FollowStart /\ followFrame

(* The deadline of waitReady.  The host is left as it is.                   *)
ReadyTimeout ==
    /\ follow = "waiting" /\ follow' = "over"
    /\ UNCHANGED <<cursor, printed>> /\ followFrame

FollowRecord ==
    /\ follow = "reading" /\ cursor < Len(log)
    /\ cursor' = cursor + 1
    /\ printed' = printed + IF log[cursor + 1].ev = "output" THEN 1 ELSE 0
    /\ follow' = IF log[cursor + 1].ev = "exited" THEN "completed" ELSE follow
    /\ followFrame

(* The wait limit or the output limit is reached, or Ctrl+C: FollowSession     *)
(* returns, and where it stood no longer matters.                           *)
FollowDetach ==
    /\ follow = "reading" /\ follow' = "over"
    /\ cursor' = 0 /\ printed' = 0 /\ followFrame

SessionDone == host = "gone" /\ UNCHANGED allVars

SessionNext ==
    \/ StartSession \/ HostProcess
    \/ HostLoop \/ HostWaiter \/ HostTask
    \/ \E f \in Fds : HostReader(f)
    \/ StopSession
    \/ \E c \in Calls : KillSession(c) \/ ServeKill(c) \/ ServeRestart(c)
    \/ ReadyOK \/ ReadyTimeout \/ FollowRecord \/ FollowDetach
    \/ SessionDone

(* The host's goroutines and a running command take their next step; nobody   *)
(* is obliged to run a command, and a follower need not give up.  RunTask is  *)
(* called by the goroutine of RunHost.                                      *)
SessionFairness ==
    /\ WF_allVars(HostProcess \/ HostLoop)
    /\ WF_allVars(HostWaiter)
    /\ \A f \in Fds : WF_allVars(HostReader(f))
    /\ \A c \in Calls : WF_allVars(KillAnswered(c) \/ KillFallback(c) \/ ServeKill(c))
    /\ WF_allVars(ReadyOK \/ ReadyTimeout \/ FollowRecord)

SessionSpec == SessionInit /\ [][SessionNext]_allVars
FairSessionSpec == SessionSpec /\ SessionFairness

-----------------------------------------------------------------------------
(* What the other commands read.                                           *)

Exits == {i \in DOMAIN log : log[i].ev = "exited"}

(* ListHistory: the last exited record of the session, if there is one.     *)
InHistory == Exits # {}
HistoryCode == log[Max(Exits)].val

(* ListSessions: meta.json names a process that lives.                     *)
Listed == ~Dead(host)

-----------------------------------------------------------------------------
(* Properties.                                                             *)

(* A follower that ends with the session's exit code has printed every line   *)
(* that is, or ever will be, in the log of the incarnation that exited and   *)
(* of those before it: FollowSession returns at the first exited record, so  *)
(* this is the host's promise that no output follows that record.           *)
FollowPrintsAll ==
    follow = "completed" =>
        printed = Cardinality({i \in DOMAIN log :
                      log[i].ev = "output" /\ log[i].inc <= log[cursor].inc})

(* A host process that ended by itself, stopped or not, that had spawned its  *)
(* task and met no failing write since, left the exit code of the last       *)
(* incarnation where ListHistory finds it.                                  *)
GoneMeansInHistory ==
    host = "gone" /\ ~sigkilled /\ inc > 0 /\ ~eventErrors /\ result # "eventErr" =>
        InHistory /\ HistoryCode = exitCode /\ log[Max(Exits)].inc = inc

(* The premises of the next three properties stay true until their             *)
(* conclusions hold, so []<>(P => Q) says P ~> Q; TLC checks it faster.       *)

(* StopSession ends the host process, in whatever phase its signal finds it.  *)
StopEndsHost == []<>(stopped => host = "gone")

(* KillSession ends the host process when nobody restarts the task: the task  *)
(* dies and RunTask returns, or the fallback kills the host.  Unless a         *)
(* descendant that left the task's session holds the output pipes: a kill      *)
(* signals the session and closes no pipe (Host.Kill), the readers go on, the   *)
(* command has its answer and the host stays.                               *)
KillEndsHost ==
    \A c \in Calls :
        []<>(killer[c] # "idle" => host = "gone" \/ "escaped" \in holding)

(* The follower of a stopped session that has run does not wait for ever,     *)
(* unless the host was killed with SIGKILL or ended with a log that had       *)
(* refused its exited record.                                              *)
FollowEnds ==
    []<>(follow = "reading" /\ stopped /\ inc > 0 =>
             sigkilled \/ (LogMayFail /\ host = "gone" /\ ~InHistory))

-----------------------------------------------------------------------------
(* A claim of the repository that the code does not keep.                   *)

(* README: "swash kill KXO284 # terminate immediately".                     *)
KillLeavesNoTask ==
    (\A c \in Calls : killer[c] = "done") /\ host = "gone" => "leader" \notin alive
=============================================================================
