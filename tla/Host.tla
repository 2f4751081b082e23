-------------------------------- MODULE Host --------------------------------
(***************************************************************************)
(* The pipe host: one process that owns one task (internal/host/host.go).   *)
(*                                                                         *)
(* Goroutines of the host, all interleaved:                                *)
(*   - the run loop RunTask (pc), which spawns the task, records "started"  *)
(*     and then selects over done / eventErrors / restartCh / ctx.Done;    *)
(*   - one reader per output pipe (reader[fd]), which records the lines;    *)
(*   - the waiter (waiter), which reaps the task, waits for the readers,    *)
(*     publishes the exit code and records "exited";                       *)
(*   - one handler per control request (call[c]): Kill or Restart.         *)
(* Environment: the processes of the task, SIGTERM to the host (Cancel),    *)
(* and an event log whose writes may fail (LogMayFail).                    *)
(*                                                                         *)
(* A spawn of the task is an "incarnation", numbered 1, 2, ...; a restart   *)
(* makes a new one.  The goroutines of an incarnation have all ended when   *)
(* the next one is spawned, so their state is kept for the current          *)
(* incarnation only.                                                       *)
(***************************************************************************)
EXTENDS Naturals, Sequences, FiniteSets

CONSTANTS Calls,       \* control requests made in the life of the host
          Fds,         \* the output pipes: 1 (stdout) and 2 (stderr)
          Descendants, \* which kinds of descendants the task may fork: "child"
                       \* (in its session), "escaped" (left it with setsid)
          ExitCodes,   \* codes the task's leader may exit with by itself
          MaxLines,    \* bound: lines written to one pipe by one incarnation
          LogMayFail   \* whether a write to the event log may fail

ASSUME HostAssumption ==
    /\ Fds \subseteq {1, 2}
    /\ Descendants \subseteq {"child", "escaped"}
    /\ ExitCodes \subseteq Nat
    /\ MaxLines \in Nat
    /\ LogMayFail \in BOOLEAN

Procs == {"leader"} \cup Descendants       \* the processes of the task
NoCode == 256                              \* exitCode is nil
TermCode == 128 + 15                       \* the leader died of SIGTERM
KillCode == 128 + 9                        \* the leader died of SIGKILL
Codes == ExitCodes \cup {TermCode, KillCode}

VARIABLES
    pc,          \* where the run loop is
    result,      \* what RunTask returns (set when the outcome is decided)
    cancelled,   \* ctx is done: the host got SIGTERM or SIGINT
    restartCh,   \* number of tokens in the restart channel (capacity 1)
    call,        \* state of each control request
    target,      \* incarnation whose process a Kill request looked up
    inc,         \* number of incarnations spawned
    running, proc, exitCode,   \* Host fields under h.mu; proc = 0 is nil
    done,        \* doneChan of the current incarnation is closed
    eventErrors, \* eventErrors of the current incarnation holds an error
    alive,       \* processes of the current incarnation that live
    holding,     \* those that hold the write ends of the output pipes
    status,      \* wait status of the leader, NoCode until it dies
    termed,      \* SIGTERM was sent to the session of the incarnation
    pipe,        \* lines in each output pipe, unread
    written,     \* lines the incarnation has written to each pipe
    lost,        \* lines whose write to the event log failed
    readEnd,     \* the host's read ends are open (not closed by closePipes)
    reader,      \* state of the reader goroutine of each pipe
    waiter,      \* state of the waiter goroutine
    log          \* the session's records in the event log

loopVars == <<pc, result, restartCh>>
callVars == <<call, target>>
fieldVars == <<running, proc, exitCode>>
taskVars == <<alive, holding, status, termed>>
pipeVars == <<pipe, written, lost, readEnd, reader>>
vars == <<loopVars, cancelled, callVars, inc, fieldVars, done, eventErrors,
          taskVars, pipeVars, waiter, log>>

PCs == {"start", "spawned", "emitStarted", "notify", "select", "grace",
        "forceClose", "forced", "restartClose", "restartWait", "returned"}
Results == {"none", "nil", "startErr", "startedErr", "notifyErr", "eventErr",
            "canceled"}
CallStates == {"new", "restartChecked", "killing", "accepted", "sent", "refused"}
Events == [ev : {"started", "output", "exited"}, inc : Nat, val : Nat]

FlagsOK ==
    {cancelled, running, done, eventErrors, termed, readEnd} \subseteq BOOLEAN

(* Types, and the channels' capacity: restartCh never holds two tokens, however   *)
(* Restart's check and its send interleave with the loop.                        *)
TypeOK ==
    /\ FlagsOK
    /\ pc \in PCs
    /\ result \in Results
    /\ restartCh \in {0, 1}
    /\ call \in [Calls -> CallStates]
    /\ target \in [Calls -> Nat]
    /\ inc \in Nat
    /\ proc \in Nat
    /\ exitCode \in Codes \cup {NoCode}
    /\ status \in Codes \cup {NoCode}
    /\ alive \subseteq Procs
    /\ holding \subseteq Procs
    /\ pipe \in [Fds -> Nat]
    /\ written \in [Fds -> Nat]
    /\ lost \in [Fds -> Nat]
    /\ reader \in [Fds -> {"none", "reading", "done"}]
    /\ waiter \in {"none", "wait", "drain", "emit", "close", "done"}
    /\ log \in Seq(Events)

Record(ev, val) == [ev |-> ev, inc |-> inc, val |-> val]

-----------------------------------------------------------------------------
(* NewHost and the top of RunTask: nothing runs, the restart channel is made. *)
Init ==
    /\ pc = "start" /\ result = "none" /\ cancelled = FALSE /\ restartCh = 0
    /\ call = [c \in Calls |-> "new"] /\ target = [c \in Calls |-> 0]
    /\ inc = 0 /\ running = FALSE /\ proc = 0 /\ exitCode = NoCode
    /\ done = FALSE /\ eventErrors = FALSE
    /\ alive = {} /\ holding = {} /\ status = NoCode /\ termed = FALSE
    /\ pipe = [f \in Fds |-> 0] /\ written = [f \in Fds |-> 0]
    /\ lost = [f \in Fds |-> 0] /\ readEnd = FALSE
    /\ reader = [f \in Fds |-> "none"] /\ waiter = "none"
    /\ log = <<>>

-----------------------------------------------------------------------------
(* Signals to the session of the task.                                     *)

(* Mutant of SigKill: the leader is left out of the sweep.                  *)
SigKill_SkipsLeader ==
    /\ alive' = alive \cap {"leader", "escaped"}
    /\ holding' = holding \cap {"leader", "escaped"}
    /\ UNCHANGED status

(* execProcess.Kill: SIGKILL to every process still in the session.  The    *)
(* leader's wait status becomes 137 unless it is already dead.              *)
SigKill ==
    /\ alive' = alive \cap {"escaped"}
    /\ holding' = holding \cap {"escaped"}
    /\ status' = IF "leader" \in alive THEN KillCode ELSE status

(* Host.Kill as the run loop calls it: an error, ignored, when proc is nil. *)
KillTask ==
    /\ \/ proc # 0 /\ SigKill
       \/ proc = 0 /\ UNCHANGED <<alive, holding, status>>
    /\ UNCHANGED termed

(* Mutant of GracefulKill: the signal is not sent.                          *)
GracefulKill_NotSent == UNCHANGED <<termed, alive, holding, status>>

(* Host.GracefulKill: SIGTERM to the session; nothing when proc is nil.     *)
(* What the processes do about it is up to them (LeaderExit, ProcessExit).  *)
GracefulKill ==
    /\ termed' = (termed \/ proc # 0)
    /\ UNCHANGED <<alive, holding, status>>

(* Mutant of closePipes: the read ends stay open.                           *)
closePipes_LeavesOpen == UNCHANGED <<readEnd, pipe, written, lost, reader>>

(* Host.closePipes: close the read ends so that no reader stays blocked.    *)
closePipes ==
    /\ readEnd' = FALSE
    /\ UNCHANGED <<pipe, written, lost, reader>>

(* One write to the event log that succeeds / fails.  A failure is put in   *)
(* the channel of the incarnation without blocking: a second one is dropped. *)
WriteOK(ev, val) == log' = Append(log, Record(ev, val)) /\ UNCHANGED eventErrors
ReportEventError == LogMayFail /\ eventErrors' = TRUE /\ UNCHANGED log

-----------------------------------------------------------------------------
(* The run loop.                                                           *)

(* startTaskProcess up to executor.Start: the task lives, but the fields    *)
(* Kill and Restart look at are not set yet.                               *)
Spawn ==
    /\ pc = "start"
    /\ pc' = "spawned"
    /\ inc' = inc + 1
    /\ alive' = {"leader"} /\ holding' = {"leader"}
    /\ status' = NoCode /\ termed' = FALSE
    /\ pipe' = [f \in Fds |-> 0] /\ written' = [f \in Fds |-> 0]
    /\ lost' = [f \in Fds |-> 0] /\ readEnd' = TRUE
    /\ reader' = [f \in Fds |-> "none"]
    /\ waiter' = "none" /\ done' = FALSE /\ eventErrors' = FALSE
    /\ UNCHANGED <<result, restartCh, cancelled, callVars, fieldVars, log>>

(* A pipe or the process cannot be made: every end is closed, RunTask fails. *)
SpawnFail ==
    /\ pc = "start"
    /\ pc' = "returned" /\ result' = "startErr"
    /\ UNCHANGED <<restartCh, cancelled, callVars, inc, fieldVars, done,
                   eventErrors, taskVars, pipeVars, waiter, log>>

(* The rest of startTaskProcess: fields set under h.mu (exitCode is left as  *)
(* the previous incarnation set it), readers and waiter started.            *)
Publish ==
    /\ pc = "spawned"
    /\ pc' = "emitStarted"
    /\ proc' = inc /\ running' = TRUE
    /\ reader' = [f \in Fds |-> "reading"]
    /\ waiter' = "wait"
    /\ UNCHANGED <<result, restartCh, cancelled, callVars, inc, exitCode, done,
                   eventErrors, taskVars, pipe, written, lost, readEnd, log>>

(* terminateTask begins: SIGTERM now, then at most the grace period.        *)
Terminate(why) ==
    /\ GracefulKill
    /\ pc' = "grace" /\ result' = why
    /\ UNCHANGED <<restartCh, cancelled, callVars, inc, fieldVars, done,
                   pipeVars, waiter>>

EmitStarted ==
    /\ pc = "emitStarted"
    /\ WriteOK("started", 0)
    /\ pc' = "notify"
    /\ UNCHANGED <<result, restartCh, cancelled, callVars, inc, fieldVars, done,
                   taskVars, pipeVars, waiter>>

EmitStartedFail ==
    /\ pc = "emitStarted"
    /\ LogMayFail
    /\ Terminate("startedErr")
    /\ UNCHANGED <<log, eventErrors>>

(* daemon.SdNotify(READY): no effect on the host, or an error.  It clears     *)
(* NOTIFY_SOCKET, so only the first incarnation's call can fail.            *)
Notify ==
    /\ pc = "notify"
    /\ pc' = "select"
    /\ UNCHANGED <<result, restartCh, cancelled, callVars, inc, fieldVars, done,
                   eventErrors, taskVars, pipeVars, waiter, log>>

NotifyFail ==
    /\ pc = "notify" /\ inc = 1
    /\ Terminate("notifyErr")
    /\ UNCHANGED <<log, eventErrors>>

(* Mutant of SelectDone: a pending error is not looked at.                  *)
SelectDone_IgnoresError ==
    /\ pc = "select"
    /\ done
    /\ pc' = "returned" /\ result' = "nil"
    /\ UNCHANGED <<restartCh, cancelled, callVars, inc, fieldVars, done,
                   eventErrors, taskVars, pipeVars, waiter, log>>

(* select: the ready cases compete.  The task has ended; a pending error is  *)
(* still looked at.                                                        *)
SelectDone ==
    /\ pc = "select"
    /\ done
    /\ pc' = "returned"
    /\ result' = IF eventErrors THEN "eventErr" ELSE "nil"
    /\ eventErrors' = FALSE
    /\ UNCHANGED <<restartCh, cancelled, callVars, inc, fieldVars, done,
                   taskVars, pipeVars, waiter, log>>

(* Mutant of SelectEventError: the error is dropped and the loop waits on.   *)
SelectEventError_GoesOn ==
    /\ pc = "select"
    /\ eventErrors
    /\ eventErrors' = FALSE
    /\ UNCHANGED <<loopVars, cancelled, callVars, inc, fieldVars, done,
                   taskVars, pipeVars, waiter, log>>

SelectEventError ==
    /\ pc = "select"
    /\ eventErrors
    /\ eventErrors' = FALSE
    /\ Terminate("eventErr")
    /\ UNCHANGED log

(* A restart kills the task; then the pipes are closed (CloseIO).           *)
SelectRestart ==
    /\ pc = "select"
    /\ restartCh = 1
    /\ restartCh' = 0
    /\ KillTask
    /\ pc' = "restartClose"
    /\ UNCHANGED <<result, cancelled, callVars, inc, fieldVars, done,
                   eventErrors, pipeVars, waiter, log>>

SelectCancel ==
    /\ pc = "select"
    /\ cancelled
    /\ Terminate("canceled")
    /\ UNCHANGED <<log, eventErrors>>

(* Mutant of RestartDone: the loop goes on without waiting for doneChan.     *)
RestartDone_NoWait ==
    /\ pc = "restartWait"
    /\ pc' = "start"
    /\ UNCHANGED <<result, restartCh, cancelled, callVars, inc, fieldVars, done,
                   eventErrors, taskVars, pipeVars, waiter, log>>

(* <-doneChan after a restart's kill: loop and spawn again.                 *)
RestartDone ==
    /\ pc = "restartWait"
    /\ done
    /\ pc' = "start"
    /\ UNCHANGED <<result, restartCh, cancelled, callVars, inc, fieldVars, done,
                   eventErrors, taskVars, pipeVars, waiter, log>>

(* Mutant of TerminateDone: return right after the forced kill.              *)
TerminateDone_NoWait ==
    /\ pc = "forced" \/ (pc = "grace" /\ done)
    /\ pc' = "returned"
    /\ UNCHANGED <<result, restartCh, cancelled, callVars, inc, fieldVars, done,
                   eventErrors, taskVars, pipeVars, waiter, log>>

(* terminateTask's select, and its last <-doneChan: RunTask returns.        *)
TerminateDone ==
    /\ pc \in {"grace", "forced"}
    /\ done
    /\ pc' = "returned"
    /\ UNCHANGED <<result, restartCh, cancelled, callVars, inc, fieldVars, done,
                   eventErrors, taskVars, pipeVars, waiter, log>>

(* The grace period is over: SIGKILL ...                                   *)
GraceTimeout ==
    /\ pc = "grace"
    /\ KillTask
    /\ pc' = "forceClose"
    /\ UNCHANGED <<result, restartCh, cancelled, callVars, inc, fieldVars, done,
                   eventErrors, pipeVars, waiter, log>>

(* ... and, as after the kill of a restart, the pipes are closed that an     *)
(* escaped descendant may still hold.                                      *)
CloseIO ==
    /\ \/ pc = "forceClose" /\ pc' = "forced"
       \/ pc = "restartClose" /\ pc' = "restartWait"
    /\ closePipes
    /\ UNCHANGED <<result, restartCh, cancelled, callVars, inc, fieldVars, done,
                   eventErrors, taskVars, waiter, log>>

RunLoop ==
    \/ Spawn \/ SpawnFail \/ Publish \/ EmitStarted \/ EmitStartedFail
    \/ Notify \/ NotifyFail
    \/ SelectDone \/ SelectEventError \/ SelectRestart \/ SelectCancel
    \/ RestartDone \/ TerminateDone \/ GraceTimeout \/ CloseIO

-----------------------------------------------------------------------------
(* The reader goroutines: a line is read and written to the event log.  One  *)
(* Read may take many lines, so that some are still to be written when the   *)
(* read end is closed: lines count as in the pipe until they are written.   *)
ReadLine(f) ==
    /\ reader[f] = "reading" /\ pipe[f] > 0
    /\ pipe' = [pipe EXCEPT ![f] = @ - 1]
    /\ \/ WriteOK("output", f) /\ UNCHANGED lost
       \/ ReportEventError /\ lost' = [lost EXCEPT ![f] = @ + 1]
    /\ UNCHANGED <<loopVars, cancelled, callVars, inc, fieldVars, done,
                   taskVars, written, readEnd, reader, waiter>>

(* Read returns EOF (every write end closed, the pipe drained) or an error   *)
(* (the read end was closed under it): the goroutine ends.                  *)
ReadEnd(f) ==
    /\ reader[f] = "reading"
    /\ ~readEnd \/ (pipe[f] = 0 /\ holding = {})
    /\ reader' = [reader EXCEPT ![f] = "done"]
    /\ UNCHANGED <<loopVars, cancelled, callVars, inc, fieldVars, done,
                   eventErrors, taskVars, pipe, written, lost, readEnd, waiter,
                   log>>

-----------------------------------------------------------------------------
(* The waiter goroutine.                                                   *)

(* proc.Wait returns: the leader is dead and reaped.                        *)
WaiterReap ==
    /\ waiter = "wait" /\ "leader" \notin alive
    /\ waiter' = "drain"
    /\ UNCHANGED <<loopVars, cancelled, callVars, inc, fieldVars, done,
                   eventErrors, taskVars, pipeVars, log>>

(* Mutant of OutputDrained: the waiter does not wait for the readers.        *)
OutputDrained_NoWait == TRUE

(* wg.Wait: both readers have ended.                                        *)
OutputDrained == \A f \in Fds : reader[f] = "done"

(* wg.Wait returns, then the result is published under h.mu.                *)
WaiterPublish ==
    /\ waiter = "drain" /\ OutputDrained
    /\ waiter' = "emit"
    /\ exitCode' = status /\ running' = FALSE /\ proc' = 0
    /\ UNCHANGED <<loopVars, cancelled, callVars, inc, done, eventErrors,
                   taskVars, pipeVars, log>>

WaiterEmitExited ==
    /\ waiter = "emit"
    /\ waiter' = "close"
    /\ WriteOK("exited", status) \/ ReportEventError
    /\ UNCHANGED <<loopVars, cancelled, callVars, inc, fieldVars, done,
                   taskVars, pipeVars>>

WaiterClose ==
    /\ waiter = "close"
    /\ waiter' = "done" /\ done' = TRUE
    /\ UNCHANGED <<loopVars, cancelled, callVars, inc, fieldVars, eventErrors,
                   taskVars, pipeVars, log>>

Waiter == WaiterReap \/ WaiterPublish \/ WaiterEmitExited \/ WaiterClose

-----------------------------------------------------------------------------
(* Control requests.  Each looks at the fields under h.mu and acts after     *)
(* the unlock, on what it saw.                                             *)
Reply(c, s) == call' = [call EXCEPT ![c] = s]

KillLookup(c) ==
    /\ call[c] = "new"
    /\ \/ proc = 0 /\ Reply(c, "refused") /\ UNCHANGED target
       \/ proc # 0 /\ Reply(c, "killing") /\ target' = [target EXCEPT ![c] = proc]
    /\ UNCHANGED <<loopVars, cancelled, inc, fieldVars, done, eventErrors,
                   taskVars, pipeVars, waiter, log>>

(* The SIGKILL goes to the session that was looked up; nothing of an earlier *)
(* incarnation's session is left to receive it.                             *)
KillSend(c) ==
    /\ call[c] = "killing"
    /\ Reply(c, "sent") /\ UNCHANGED target
    /\ \/ target[c] = inc /\ SigKill
       \/ target[c] # inc /\ UNCHANGED <<alive, holding, status>>
    /\ UNCHANGED <<loopVars, cancelled, inc, fieldVars, done, eventErrors,
                   termed, pipeVars, waiter, log>>

RestartCheck(c) ==
    /\ call[c] = "new"
    /\ Reply(c, IF running THEN "restartChecked" ELSE "refused")
    /\ UNCHANGED <<loopVars, cancelled, target, inc, fieldVars, done,
                   eventErrors, taskVars, pipeVars, waiter, log>>

(* Mutant of RestartSend: the send does not look at the capacity.           *)
RestartSend_Unbounded(c) ==
    /\ call[c] = "restartChecked"
    /\ Reply(c, "accepted")
    /\ restartCh' = restartCh + 1
    /\ UNCHANGED <<pc, result, cancelled, target, inc, fieldVars, done,
                   eventErrors, taskVars, pipeVars, waiter, log>>

(* A non-blocking send: refused ("restart already in progress") when full.  *)
RestartSend(c) ==
    /\ call[c] = "restartChecked"
    /\ Reply(c, IF restartCh = 0 THEN "accepted" ELSE "refused")
    /\ restartCh' = 1
    /\ UNCHANGED <<pc, result, cancelled, target, inc, fieldVars, done,
                   eventErrors, taskVars, pipeVars, waiter, log>>

Handler(c) == KillLookup(c) \/ KillSend(c) \/ RestartCheck(c) \/ RestartSend(c)

-----------------------------------------------------------------------------
(* Environment: the task's processes and the signal to the host.  What they  *)
(* do once RunTask has returned is no longer the host's business.           *)
taskEnvUnchanged == UNCHANGED <<loopVars, cancelled, callVars, inc, fieldVars,
                               done, eventErrors, waiter, log>>

(* A line goes into a pipe whose read end is open.                         *)
TaskWrite(p, f) ==
    /\ p \in holding /\ readEnd /\ written[f] < MaxLines
    /\ pipe' = [pipe EXCEPT ![f] = @ + 1]
    /\ written' = [written EXCEPT ![f] = @ + 1]
    /\ UNCHANGED <<taskVars, lost, readEnd, reader>> /\ taskEnvUnchanged

(* The leader forks; the descendant inherits the pipes the leader holds.    *)
Fork(p) ==
    /\ "leader" \in alive /\ p \in Procs \ alive
    /\ alive' = alive \cup {p}
    /\ holding' = IF "leader" \in holding THEN holding \cup {p} ELSE holding
    /\ UNCHANGED <<status, termed, pipeVars>> /\ taskEnvUnchanged

(* A process closes its stdout and stderr and lives on.                     *)
Detach(p) ==
    /\ p \in holding
    /\ holding' = holding \ {p}
    /\ UNCHANGED <<alive, status, termed, pipeVars>> /\ taskEnvUnchanged

ProcessExit(p) ==
    /\ p \in alive \ {"leader"}
    /\ alive' = alive \ {p} /\ holding' = holding \ {p}
    /\ UNCHANGED <<status, termed, pipeVars>> /\ taskEnvUnchanged

LeaderExit(code) ==
    /\ "leader" \in alive
    /\ code = TermCode => termed
    /\ alive' = alive \ {"leader"} /\ holding' = holding \ {"leader"}
    /\ status' = code
    /\ UNCHANGED <<termed, pipeVars>> /\ taskEnvUnchanged

(* SIGTERM or SIGINT to the host cancels the context.                       *)
Cancel ==
    /\ pc # "returned" /\ ~cancelled
    /\ cancelled' = TRUE
    /\ UNCHANGED <<loopVars, callVars, inc, fieldVars, done, eventErrors,
                   taskVars, pipeVars, waiter, log>>

Task ==
  /\ pc # "returned"
  /\ \/ \E p \in Procs : \/ \E f \in Fds : TaskWrite(p, f)
                           \/ Fork(p) \/ Detach(p) \/ ProcessExit(p)
     \/ \E code \in ExitCodes \cup {TermCode} : LeaderExit(code)

(* RunTask has returned and the host process ends.                          *)
Terminated == pc = "returned" /\ UNCHANGED vars

Next ==
    \/ RunLoop
    \/ \E f \in Fds : ReadLine(f) \/ ReadEnd(f)
    \/ Waiter
    \/ \E c \in Calls : Handler(c)
    \/ Task
    \/ Cancel
    \/ Terminated

(* The Go scheduler runs every goroutine that can run, and time passes for   *)
(* the grace period.  Nothing is assumed of the task's processes, of the     *)
(* clients that make requests, or of the signal.                           *)
Fairness ==
    /\ WF_vars(RunLoop)
    /\ \A f \in Fds : WF_vars(ReadLine(f) \/ ReadEnd(f))
    /\ WF_vars(Waiter)
    /\ \A c \in Calls : WF_vars(KillSend(c)) /\ WF_vars(RestartSend(c))

Spec == Init /\ [][Next]_vars
FairSpec == Spec /\ Fairness

-----------------------------------------------------------------------------
(* Properties.                                                             *)

(* Lines of pipe f the current incarnation has in the event log.            *)
Logged(f) == Cardinality({i \in DOMAIN log : log[i] = Record("output", f)})

(* The records of two incarnations never interleave, and within one the      *)
(* exited record comes after every line of output and is written once       *)
(* (waiter goroutine after wg.Wait, run loop after <-doneChan).  Only the    *)
(* started record, which the run loop writes while the task is already      *)
(* running, may follow it.                                                 *)
IncarnationsInOrder ==
    \A i, j \in DOMAIN log : i < j =>
        /\ log[i].inc <= log[j].inc
        /\ log[i].inc = log[j].inc =>
             /\ log[i].ev = "exited" => log[j].ev = "started"
             /\ log[i].ev = log[j].ev => log[i].ev = "output"

(* When the waiter publishes an exit code and nobody closed the pipes under  *)
(* the readers, every line any process of the task ever wrote is in the log *)
(* or was reported as not persisted: none is still in a pipe.              *)
OutputComplete ==
    waiter \in {"emit", "close", "done"} /\ readEnd =>
        \A f \in Fds : Logged(f) + lost[f] = written[f]

(* RunTask returns, and so the host process ends, only when the task's       *)
(* leader is dead and reaped and the host's fields say so, on every error    *)
(* path (terminateTask waits for doneChan).                                 *)
NoOrphanedTask ==
    pc = "returned" => "leader" \notin alive /\ ~running /\ proc = 0

(* RunTask returns nil only for a task whose whole story is in the log: the  *)
(* started record, the exited record with the code Gist reports, and no line *)
(* of output that failed to be written.                                     *)
SuccessMeansRecorded ==
    result = "nil" =>
        /\ \E i \in DOMAIN log : log[i] = Record("started", 0)
        /\ \E i \in DOMAIN log : log[i] = Record("exited", exitCode)
        /\ \A f \in Fds : lost[f] = 0

(* A Kill request that was answered without error has killed the leader of   *)
(* the incarnation it looked up, however late its signal was sent.          *)
KillIsEffective ==
    \A c \in Calls : call[c] = "sent" /\ target[c] = inc => "leader" \notin alive

(* A new incarnation is spawned only over a finished one: the old leader is  *)
(* dead, its readers and its waiter have ended.                             *)
RestartIsExclusive ==
    [][inc' # inc => /\ "leader" \notin alive /\ ~running
                     /\ \A f \in Fds : reader[f] # "reading"
                     /\ waiter \in {"none", "done"}]_vars

(* A stop never takes the task by surprise: its session was sent SIGTERM     *)
(* before terminateTask sends SIGKILL to a leader that is still alive.      *)
ForceOnlyAfterTerm ==
    [][pc = "grace" /\ pc' = "forceClose" /\ "leader" \in alive => termed]_vars

(* SIGTERM to the host always ends it, whatever the task ignores and whatever *)
(* an escaped descendant keeps open.                                        *)
StopTerminates == cancelled ~> pc = "returned"

(* Whatever asks the waiting run loop to end the incarnation -- a restart, an *)
(* event-log error, a signal to the host -- does end it, and the loop spawns  *)
(* again or returns.                                                        *)
EndRequestsAreServed ==
    (pc = "select" /\ (restartCh = 1 \/ eventErrors \/ cancelled))
        ~> pc \in {"start", "returned"}

(* A Kill request that was answered ends the incarnation it killed, unless a  *)
(* descendant that left the session holds the task's output pipes.          *)
KillEndsTask ==
    \A c \in Calls :
        (call[c] = "sent" /\ target[c] = inc /\ "escaped" \notin holding)
            ~> proc # target[c]
=============================================================================
