---------------------------- MODULE PosixProofs ----------------------------
(* Proofs of the safety properties of a session of the posix backend, for      *)
(* every set of requests, every number of restarts and every amount of output.  *)
(* The host's goroutines keep the invariant of module HostInv here too; what    *)
(* is new is that the process around them can fail before they start and be     *)
(* killed under them.                                                      *)
EXTENDS PosixSession, HostProofs, NumberLemmas

BootStates == {"none", "booting", "binding"}

(* Types, apart from those that are only true or false.                        *)
CommandTypes ==
    /\ host \in HostStates
    /\ killer \in [Calls -> {"idle", "connected", "fallback", "done"}]
    /\ follow \in {"none", "waiting", "reading", "completed", "over"}
    /\ cursor \in 0..Len(log) /\ printed \in 0..cursor
CommandFlags == {sigkilled, stopped} \subseteq BOOLEAN

(* Nothing of RunTask has happened before the control socket is up, and a host  *)
(* that was not killed goes only when RunTask has returned.                    *)
LifeInv ==
    /\ host \in BootStates \cup FailedSteps => pc = "start" /\ inc = 0
    /\ host = "gone" /\ inc > 0 /\ ~sigkilled => pc = "returned"

(* failedStartResult writes its three records one after the other, into a log   *)
(* that holds nothing else.                                                 *)
FailedInv ==
    /\ host \in BootStates \cup {"failStarted"} => log = <<>>
    /\ host = "failOutput" =>
         Len(log) = 1 /\ log[1].inc = 0 /\ log[1].ev = "started"
    /\ host = "failExited" =>
         /\ Len(log) = 2 /\ log[1].inc = 0 /\ log[1].ev = "started"
         /\ log[2].inc = 0 /\ log[2].ev = "output"

(* Unless it is the story of a failed start, the log is behind the goroutines.  *)
StoryInv == host \notin FailedSteps \cup {"gone"} \/ inc > 0 => LogInv

(* The waiter's exited record is in the log, or its error was reported.         *)
ExitInv ==
    waiter \in {"close", "done"} =>
        InLog(Record("exited", status)) \/ eventErrors \/ result = "eventErr"

(* What the follower has printed is what it has read.                          *)
OutsRead == {i \in 1..cursor : log[i].ev = "output"}
FollowInv ==
    /\ printed = Cardinality(OutsRead)
    /\ follow = "completed" => cursor > 0 /\ log[cursor].ev = "exited"

SessionInv ==
    /\ TypeOK /\ CommandTypes /\ ControlInv /\ RecordInv
    /\ LifeInv /\ FailedInv /\ StoryInv /\ ExitInv /\ FollowInv
    /\ IncarnationsInOrder

-----------------------------------------------------------------------------
(* How a step of the session moves the host.                                   *)

(* The read ends of a killed host's pipes are closed with it.                   *)
Severed ==
    /\ readEnd' \in BOOLEAN
    /\ UNCHANGED <<loopVars, cancelled, callVars, inc, fieldVars, done, eventErrors,
                   taskVars, pipe, written, lost, reader, waiter, log>>

(* A record of failedStartResult.                                             *)
FailedWrite ==
    /\ host \in FailedSteps
    /\ \E ev \in {"started", "output", "exited"}, val \in {0, 2, 127} : WriteOK(ev, val)
    /\ UNCHANGED <<loopVars, cancelled, callVars, inc, fieldVars, done, taskVars,
                   pipeVars, waiter>>

(* Every step of the session is a step of module Host, or leaves the host as it  *)
(* is, or is one of the two above: what RunHost adds around RunTask, and what    *)
(* the other commands do to the process.                                       *)
LEMMA StepOfHost ==
    ASSUME [SessionNext]_allVars
    PROVE  [Next]_vars \/ Severed \/ FailedWrite
<1>1. CASE StartSession \/ Boot \/ BootFail \/ Bind \/ ResolveFail \/ HostExit \/ ReadyOK
           \/ ReadyTimeout \/ FollowRecord \/ FollowDetach \/ SessionDone
           \/ UNCHANGED allVars
  BY <1>1, Zenon DEF StartSession, Boot, BootFail, Bind, ResolveFail, HostExit, ReadyOK,
            ReadyTimeout, FollowRecord, FollowDetach, followFrame, SessionDone,
            allVars
<1>2. ASSUME NEW step \in FailedSteps, NEW ev \in {"started", "output", "exited"},
             NEW val \in {0, 2, 127}, NEW next, FailedStart(step, ev, val, next)
      PROVE  UNCHANGED vars \/ FailedWrite
  BY <1>2, ZenonT(40) DEF FailedStart, FailedWrite, vars
<1>3. CASE failedStartResult
  <2>1. /\ "failStarted" \in FailedSteps /\ "failOutput" \in FailedSteps
        /\ "failExited" \in FailedSteps
    BY DEF FailedSteps
  <2> QED
    BY <1>2, <1>3, <2>1, Zenon DEF failedStartResult
<1>4. CASE HostLoop \/ HostWaiter \/ HostTask
  BY <1>4, Zenon DEF HostLoop, HostWaiter, HostTask, Next
<1>5. ASSUME NEW f \in Fds, HostReader(f) PROVE Next
  BY <1>5, Zenon DEF HostReader, Next
<1>6. CASE StopSession
  BY <1>6, Zenon DEF StopSession, Next
<1>7. ASSUME NEW c \in Calls, KillConnect(c) \/ KillAnswered(c) PROVE UNCHANGED vars
  BY <1>7, Zenon DEF KillConnect, KillAnswered
<1>8. ASSUME NEW c \in Calls, KillFallback(c) PROVE Severed
  <2>1. readEnd' \in BOOLEAN
    BY <1>8, Zenon DEF KillFallback
  <2> QED
    BY <1>8, <2>1, Zenon DEF KillFallback, Severed
<1>9. ASSUME NEW c \in Calls, ServeKill(c) \/ ServeRestart(c) PROVE Next
  BY <1>9, Zenon DEF ServeKill, ServeRestart, Handler, Next
<1> QED
  BY <1>1, <1>3, <1>4, <1>5, <1>6, <1>7, <1>8, <1>9, Zenon
  DEF SessionNext, HostProcess, KillSession

(* The goroutines of the host run only while the process does: otherwise the     *)
(* run loop, the waiter and the log stay as they are, but for the records of a   *)
(* failed start.                                                             *)
LEMMA OnlyWhileUp ==
    ASSUME [SessionNext]_allVars, host # "up"
    PROVE  UNCHANGED <<pc, result, inc, waiter>>
           /\ (UNCHANGED <<log, eventErrors>> \/ failedStartResult)
<1> USE DEF loopVars
<1>1. CASE StartSession \/ Boot \/ BootFail \/ Bind \/ ResolveFail \/ HostExit \/ ReadyOK
           \/ ReadyTimeout \/ FollowRecord \/ FollowDetach \/ SessionDone
           \/ UNCHANGED allVars
  <2>1. UNCHANGED vars
    BY <1>1, Zenon DEF StartSession, Boot, BootFail, Bind, ResolveFail, HostExit, ReadyOK,
            ReadyTimeout, FollowRecord, FollowDetach, followFrame, SessionDone,
            allVars
  <2> QED
    BY <2>1, Zenon DEF vars
<1>2. CASE failedStartResult
  BY <1>2, Zenon DEF failedStartResult, FailedStart
<1>3. CASE HostTask \/ HostLoop \/ HostWaiter
  BY <1>3, Zenon DEF HostLoop, HostWaiter, HostTask, Task, TaskWrite, Fork, Detach,
            ProcessExit, LeaderExit, taskEnvUnchanged
<1>4. ASSUME NEW f \in Fds, HostReader(f) PROVE FALSE
  BY <1>4, Zenon DEF HostReader
<1>5. CASE StopSession
  BY <1>5, Zenon DEF StopSession, Cancel, vars
<1>6. ASSUME NEW c \in Calls, KillConnect(c) \/ KillAnswered(c) \/ KillFallback(c)
      PROVE  UNCHANGED <<pc, result, inc, waiter, log, eventErrors>>
  BY <1>6, Zenon DEF KillConnect, KillAnswered, KillFallback, vars
<1>7. ASSUME NEW c \in Calls, ServeKill(c) \/ ServeRestart(c) PROVE FALSE
  BY <1>7, Zenon DEF ServeKill, ServeRestart
<1> QED
  BY <1>1, <1>2, <1>3, <1>4, <1>5, <1>6, <1>7, Zenon
  DEF SessionNext, HostProcess, KillSession

-----------------------------------------------------------------------------
(* The host's own invariants, under the two steps that module Host lacks.        *)
LEMMA SeveredStep ==
    ASSUME TypeOK, ControlInv, RecordInv, Severed
    PROVE  TypeOK' /\ ControlInv' /\ RecordInv'
<1> USE DEF Severed, loopVars, callVars, fieldVars, taskVars
<1>1. FlagsOK'
  BY Zenon DEF TypeOK, FlagsOK
<1>2. TypeOK'
  BY <1>1, Zenon DEF TypeOK
<1>3. ControlInv'
  BY Zenon DEF ControlInv
<1>4. RecordInv'
  BY Zenon DEF RecordInv, InLog, Record
<1> QED
  BY <1>2, <1>3, <1>4

(* A failed start writes while RunTask has not begun.                           *)
LEMMA FailedWriteStep ==
    ASSUME TypeOK, ControlInv, RecordInv, LifeInv, FailedWrite
    PROVE  TypeOK' /\ ControlInv' /\ RecordInv'
<1> USE DEF FailedWrite, loopVars, callVars, fieldVars, taskVars, pipeVars
<1>1. FlagsOK'
  BY Zenon DEF TypeOK, FlagsOK, WriteOK
<1>2. log' \in Seq(Events)
  BY WriteType
<1>3. TypeOK'
  BY <1>1, <1>2, Zenon DEF TypeOK
<1>4. ControlInv'
  BY Zenon DEF ControlInv
<1>5. pc' = "start" /\ result' = result
  BY Zenon DEF LifeInv
<1>6. RecordInv'
  BY <1>5 DEF RecordInv, Waiting
<1> QED
  BY <1>3, <1>4, <1>6

(* So they hold in a session.                                                *)
LEMMA HostInvStep ==
    ASSUME TypeOK, ControlInv, RecordInv, LifeInv, [SessionNext]_allVars
    PROVE  TypeOK' /\ ControlInv' /\ RecordInv'
BY StepOfHost, SeveredStep, FailedWriteStep, TypeStep, ControlStep, RecordStep, Zenon

-----------------------------------------------------------------------------
(* The life of the host process.                                              *)

(* The steps that move it: one way, and out of "up" only when RunTask has        *)
(* returned or by SIGKILL.                                                   *)
LEMMA HostMoves ==
    ASSUME [SessionNext]_allVars
    PROVE  /\ sigkilled => sigkilled'
           /\ \/ host' = host
              \/ host = "none" /\ host' = "booting" /\ UNCHANGED log
              \/ host = "booting" /\ host' \in {"binding", "failStarted"} /\ UNCHANGED log
              \/ host = "binding" /\ host' = "up" /\ UNCHANGED log
              \/ host = "up" /\ host' = "gone" /\ pc = "returned" /\ pc' = pc
              \/ host = "up" /\ host' = "gone" /\ sigkilled'
              \/ host # "up" /\ host' = "gone"
              \/ failedStartResult
<1> USE DEF vars, sessionVars
<1>1. CASE StartSession \/ Boot \/ Bind \/ ResolveFail
  <2>1. sigkilled' = sigkilled /\ log' = log
    BY <1>1, Zenon DEF StartSession, Boot, Bind, ResolveFail, clientsUnchanged
  <2>2. \/ host = "none" /\ host' = "booting"
        \/ host = "booting" /\ host' \in {"binding", "failStarted"}
        \/ host = "binding" /\ host' = "up"
    BY <1>1, SMT DEF StartSession, Boot, Bind, ResolveFail
  <2> QED
    BY <2>1, <2>2, Zenon
<1>2. CASE BootFail \/ HostExit \/ StopSession
  BY <1>2 DEF BootFail, HostExit, clientsUnchanged, StopSession, FailedSteps, loopVars
<1>3. CASE failedStartResult
  <2>1. sigkilled' = sigkilled
    BY <1>3, Zenon DEF failedStartResult, FailedStart, clientsUnchanged
  <2> QED
    BY <1>3, <2>1, Zenon
<1>4. ASSUME HostLoop \/ HostWaiter \/ HostTask PROVE UNCHANGED <<host, sigkilled>>
  BY <1>4, Zenon DEF HostLoop, HostWaiter, HostTask
<1>5. ASSUME NEW f \in Fds, HostReader(f) PROVE UNCHANGED <<host, sigkilled>>
  BY <1>5, Zenon DEF HostReader
<1>6. ASSUME \/ ReadyOK \/ ReadyTimeout \/ FollowRecord \/ FollowDetach
             \/ SessionDone \/ UNCHANGED allVars
      PROVE  UNCHANGED <<host, sigkilled>>
  BY <1>6, Zenon DEF ReadyOK, ReadyTimeout, FollowRecord, FollowDetach,
            followFrame, SessionDone, allVars
<1>7. ASSUME NEW c \in Calls, KillConnect(c) \/ KillAnswered(c) \/ ServeKill(c)
                              \/ ServeRestart(c)
      PROVE  UNCHANGED <<host, sigkilled>>
  BY <1>7, Zenon DEF KillConnect, KillAnswered, ServeKill, ServeRestart
<1>8. ASSUME NEW c \in Calls, KillFallback(c)
      PROVE  /\ sigkilled => sigkilled'
             /\ host' = "gone" /\ (host = "up" => sigkilled')
  BY <1>8, Zenon DEF KillFallback, Dead
<1>9. \/ StartSession \/ Boot \/ Bind \/ ResolveFail \/ BootFail \/ HostExit \/ StopSession
      \/ failedStartResult
      \/ UNCHANGED <<host, sigkilled>>
      \/ /\ sigkilled => sigkilled'
         /\ host' = "gone" /\ (host = "up" => sigkilled')
  BY <1>4, <1>5, <1>6, <1>7, <1>8, Zenon DEF SessionNext, HostProcess, KillSession
<1> QED
  BY <1>1, <1>2, <1>3, <1>9

(* What each record of a failed start does.                                    *)
LEMMA FailedStartMoves ==
    ASSUME failedStartResult
    PROVE  /\ host \in FailedSteps /\ pc' = pc /\ inc' = inc
           /\ \/ host' = "gone" /\ UNCHANGED log
              \/ host = "failStarted" /\ host' = "failOutput" /\ WriteOK("started", 0)
              \/ host = "failOutput" /\ host' = "failExited" /\ WriteOK("output", 2)
              \/ host = "failExited" /\ host' = "gone" /\ WriteOK("exited", 127)
<1>1. /\ \/ host' = "gone" /\ UNCHANGED log
         \/ host = "failStarted" /\ host' = "failOutput" /\ WriteOK("started", 0)
         \/ host = "failOutput" /\ host' = "failExited" /\ WriteOK("output", 2)
         \/ host = "failExited" /\ host' = "gone" /\ WriteOK("exited", 127)
      /\ pc' = pc /\ inc' = inc /\ host \in {"failStarted", "failOutput", "failExited"}
  BY DEF failedStartResult, FailedStart, loopVars
<1> QED
  BY <1>1, Zenon DEF FailedSteps

(* A host that was not killed is gone only after RunTask returned, unless it      *)
(* never started the task.                                                   *)
LEMMA LifeStep ==
    ASSUME CommandTypes, LifeInv, [SessionNext]_allVars
    PROVE  LifeInv'
<1> USE DEF LifeInv, BootStates, FailedSteps
<1>1. CASE host = "up"
  <2>1. \/ host' = "up"
        \/ host' = "gone" /\ (pc' = "returned" \/ sigkilled')
    BY <1>1, HostMoves, FailedStartMoves
  <2> QED
    BY <2>1
<1>2. CASE host # "up"
  <2>1. UNCHANGED <<pc, inc>>
    BY <1>2, OnlyWhileUp
  <2>2. host \in HostStates
    BY DEF CommandTypes
  <2> QED
    BY <1>2, <2>1, <2>2, HostMoves, FailedStartMoves DEF HostStates
<1> QED
  BY <1>1, <1>2

-----------------------------------------------------------------------------
(* The log.                                                                 *)

(* The log of a failed start holds its records and no other.                    *)
LEMMA FailedStep ==
    ASSUME TypeOK, CommandTypes, FailedInv, LifeInv, [SessionNext]_allVars
    PROVE  FailedInv'
<1> USE DEF FailedInv, BootStates
<1>1. CASE failedStartResult
  <2>1. inc = 0
    BY <1>1, FailedStartMoves DEF LifeInv
  <2>2. CASE host = "failStarted" /\ host' = "failOutput" /\ WriteOK("started", 0)
    <3>1. /\ Len(log) = 0 /\ DOMAIN log' = 1..(Len(log) + 1)
          /\ log'[Len(log) + 1] = [ev |-> "started", inc |-> inc, val |-> 0]
      BY <2>2, WriteAppends
    <3>2. Len(log') = 1
      BY <2>2 DEF WriteOK, TypeOK, Record
    <3> QED
      BY <2>1, <2>2, <3>1, <3>2
  <2>3. CASE host = "failOutput" /\ host' = "failExited" /\ WriteOK("output", 2)
    <3>1. /\ Len(log) = 1 /\ DOMAIN log' = 1..(Len(log) + 1)
          /\ DOMAIN log = 1..Len(log)
          /\ \A i \in DOMAIN log : log'[i] = log[i]
          /\ log'[Len(log) + 1] = [ev |-> "output", inc |-> inc, val |-> 2]
      BY <2>3, WriteAppends
    <3>2. Len(log') = 2
      <4>1. log' = Append(log, Record("output", 2))
        BY <2>3, Zenon DEF WriteOK
      <4>2. log \in Seq(Events)
        BY DEF TypeOK
      <4> QED
        BY <3>1, <4>1, <4>2
    <3>3. log'[1] = log[1]
      BY <3>1
    <3> QED
      BY <2>1, <2>3, <3>1, <3>2, <3>3
  <2>4. CASE host' = "gone"
    BY <2>4 DEF FailedSteps
  <2> QED
    BY <1>1, <2>2, <2>3, <2>4, FailedStartMoves
<1>2. CASE ~failedStartResult
  <2>1. host' \in BootStates \cup FailedSteps => UNCHANGED log
    <3>1. host \in HostStates
      BY DEF CommandTypes
    <3> QED
      BY <1>2, <3>1, HostMoves, OnlyWhileUp DEF FailedSteps
  <2> QED
    BY <1>2, <2>1, HostMoves DEF FailedSteps
<1> QED
  BY <1>1, <1>2

(* The log of a session that ran is behind the goroutines that write it.         *)
LEMMA StoryStep ==
    ASSUME TypeOK, CommandTypes, ControlInv, LifeInv, FailedInv, StoryInv,
           [SessionNext]_allVars, FailedInv'
    PROVE  StoryInv'
<1> SUFFICES ASSUME host' \notin FailedSteps \cup {"gone"} \/ inc' > 0
             PROVE  LogInv'
  BY Zenon DEF StoryInv
<1>1. CASE host' \in BootStates
  BY <1>1 DEF FailedInv, LogInv
<1>2. CASE host' \notin BootStates
  <2>1. LogInv
    <3>1. CASE host = "up"
      BY <3>1 DEF StoryInv, FailedSteps
    <3>2. CASE host \in BootStates
      BY <3>2 DEF FailedInv, LogInv
    <3>3. CASE inc > 0
      BY <3>3, Zenon DEF StoryInv
    <3>4. CASE host # "up" /\ ~(inc > 0)
      <4>1. inc' = inc
        BY <3>4, OnlyWhileUp
      <4>2. host' = "up"
        BY <1>2, <3>4, <4>1, HostMoves, FailedStartMoves DEF CommandTypes, HostStates,
           BootStates, FailedSteps
      <4>3. host \in BootStates
        BY <3>4, <4>2, HostMoves, FailedStartMoves DEF BootStates
      <4> QED
        BY <3>2, <4>3
    <3> QED
      BY <3>1, <3>2, <3>3, <3>4, Zenon
  <2>2. CASE FailedWrite
    <3>1. inc' = 0 /\ host \in FailedSteps
      BY <2>2, Zenon DEF FailedWrite, LifeInv
    <3>2. host' \in FailedSteps \cup {"gone"}
      BY <3>1, HostMoves, FailedStartMoves DEF FailedSteps
    <3> QED
      BY <3>1, <3>2
  <2>3. CASE Severed
    BY <2>1, <2>3, Zenon DEF Severed, LogInv, loopVars
  <2> QED
    BY <2>1, <2>2, <2>3, StepOfHost, LogStep, Zenon
<1> QED
  BY <1>1, <1>2

(* Its records are in order, those of a failed start too.                        *)
LEMMA SessionOrderStep ==
    ASSUME TypeOK, CommandTypes, ControlInv, LifeInv, FailedInv, StoryInv,
           IncarnationsInOrder, [SessionNext]_allVars
    PROVE  IncarnationsInOrder'
<1>1. CASE log' = log
  BY <1>1, ZenonT(40) DEF IncarnationsInOrder
<1>2. CASE log' # log /\ host = "up"
  <2>1. LogInv
    BY <1>2 DEF StoryInv, FailedSteps
  <2>2. [Next]_vars
    BY <1>2, StepOfHost DEF Severed, FailedWrite, FailedSteps
  <2> QED
    BY <2>1, <2>2, OrderStep, Zenon
<1>3. CASE log' # log /\ host # "up"
  <2>1. failedStartResult /\ inc = 0
    BY <1>3, OnlyWhileUp, FailedStartMoves DEF LifeInv
  <2>2. \/ host = "failStarted" /\ WriteOK("started", 0)
        \/ host = "failOutput" /\ WriteOK("output", 2)
        \/ host = "failExited" /\ WriteOK("exited", 127)
    BY <1>3, <2>1, FailedStartMoves
  <2>3. CASE host = "failStarted" /\ WriteOK("started", 0)
    <3>1. Len(log) = 0 /\ DOMAIN log' = 1..(Len(log) + 1)
      BY <2>3, WriteAppends DEF FailedInv
    <3> QED
      BY <3>1 DEF IncarnationsInOrder
  <2>4. CASE host = "failOutput" /\ WriteOK("output", 2)
    <3>0. /\ DOMAIN log = 1..Len(log) /\ DOMAIN log' = 1..(Len(log) + 1)
          /\ \A i \in DOMAIN log : log'[i] = log[i]
          /\ log'[Len(log) + 1] = [ev |-> "output", inc |-> inc, val |-> 2]
      BY <2>4, WriteAppends
    <3>1. /\ DOMAIN log' = 1..2 /\ log'[1] = log[1]
          /\ log'[2] = [ev |-> "output", inc |-> 0, val |-> 2]
      BY <2>1, <2>4, <3>0, SMTT(20) DEF FailedInv
    <3> QED
      BY <2>4, <3>1 DEF IncarnationsInOrder, FailedInv
  <2>5. CASE host = "failExited" /\ WriteOK("exited", 127)
    <3>0. /\ DOMAIN log = 1..Len(log) /\ DOMAIN log' = 1..(Len(log) + 1)
          /\ \A i \in DOMAIN log : log'[i] = log[i]
          /\ log'[Len(log) + 1] = [ev |-> "exited", inc |-> inc, val |-> 127]
      BY <2>5, WriteAppends
    <3>1. /\ DOMAIN log' = 1..3 /\ log'[1] = log[1] /\ log'[2] = log[2]
          /\ log'[3] = [ev |-> "exited", inc |-> 0, val |-> 127]
      BY <2>1, <2>5, <3>0 DEF FailedInv
    <3> QED
      BY <2>5, <3>1 DEF IncarnationsInOrder, FailedInv
  <2> QED
    BY <2>2, <2>3, <2>4, <2>5
<1> QED
  BY <1>1, <1>2, <1>3

(* A log only grows, at its end.                                              *)
LEMMA SessionLogGrows ==
    ASSUME TypeOK, [SessionNext]_allVars
    PROVE  /\ Len(log) \in Nat /\ Len(log') \in Nat /\ Len(log) <= Len(log')
           /\ \A i \in 1..Len(log) : log'[i] = log[i]
<1>t. log \in Seq(Events) /\ Len(log) \in Nat
  BY DEF TypeOK
<1>1. ASSUME NEW ev \in {"started", "output", "exited"}, NEW val \in Nat,
             WriteOK(ev, val)
      PROVE  /\ Len(log') = Len(log) + 1
             /\ \A i \in 1..Len(log) : log'[i] = log[i]
  <2>1. log' = Append(log, Record(ev, val))
    BY <1>1, Zenon DEF WriteOK
  <2> QED
    BY <1>t, <2>1
<1>2. \/ log' = log
      \/ \E ev \in {"started", "output", "exited"}, val \in Nat : WriteOK(ev, val)
  <2>1. status \in Nat /\ \A f \in Fds : f \in Nat
    BY CodesAreNat, HostAssumption DEF TypeOK, HostAssumption
  <2>2. CASE [Next]_vars
    BY <2>1, <2>2, LogWriters
  <2>3. CASE FailedWrite
    BY <2>3 DEF FailedWrite
  <2>4. CASE Severed
    BY <2>4, Zenon DEF Severed
  <2> QED
    BY <2>2, <2>3, <2>4, StepOfHost, Zenon
<1> QED
  BY <1>t, <1>1, <1>2

-----------------------------------------------------------------------------
(* The exit code.                                                             *)

(* Once the waiter has written, only a spawn forgets the incarnation's exit, and  *)
(* an error leaves the channel only to become the result of RunTask.             *)
LEMMA ExitFrame ==
    ASSUME TypeOK, ControlInv, RecordInv, [Next]_vars, waiter \in {"close", "done"}
    PROVE  \/ Spawn
           \/ /\ inc' = inc /\ status' = status
              /\ eventErrors => eventErrors' \/ result' = "eventErr"
              /\ result = "eventErr" => result' = "eventErr"
<1> USE DEF loopVars, callVars, fieldVars, taskVars, pipeVars
<1>a. "leader" \notin alive
  BY DEF ControlInv, Ended
<1>r. result = "eventErr" => pc \notin {"start", "spawned", "emitStarted", "notify", "select"}
  BY DEF RecordInv, Waiting
<1>1. CASE SpawnFail \/ Publish \/ EmitStarted \/ Notify \/ RestartDone \/ TerminateDone
  <2>1. UNCHANGED <<inc, status, eventErrors>> /\ (SpawnFail \/ result' = result)
    BY <1>1, Zenon DEF SpawnFail, Publish, EmitStarted, WriteOK, Notify, RestartDone,
              TerminateDone
  <2>2. SpawnFail => pc = "start"
    BY DEF SpawnFail
  <2> QED
    BY <1>r, <2>1, <2>2, Zenon
<1>2. CASE EmitStartedFail \/ NotifyFail \/ SelectEventError \/ SelectCancel
  <2>1. /\ UNCHANGED <<inc, status>> /\ (eventErrors' = eventErrors \/ result' = "eventErr")
        /\ pc \in {"emitStarted", "notify", "select"}
    BY <1>2, SMT DEF EmitStartedFail, NotifyFail, SelectEventError, SelectCancel, Terminate,
              GracefulKill
  <2> QED
    BY <1>r, <2>1, SMT
<1>3. CASE SelectDone
  <2>1. UNCHANGED <<inc, status>> /\ pc = "select" /\ (eventErrors => result' = "eventErr")
    BY <1>3, SMT DEF SelectDone
  <2> QED
    BY <1>r, <2>1, SMT
<1>4. CASE SelectRestart \/ GraceTimeout \/ CloseIO
  <2>1. UNCHANGED <<inc, eventErrors, result>>
    BY <1>4, Zenon DEF SelectRestart, GraceTimeout, CloseIO
  <2>2. status' = status
    BY <1>a, <1>4, SMT DEF SelectRestart, GraceTimeout, KillTask, SigKill, CloseIO
  <2> QED
    BY <2>1, <2>2, Zenon
<1>5. ASSUME NEW f \in Fds, ReadLine(f) \/ ReadEnd(f)
      PROVE  UNCHANGED <<inc, status, result>> /\ eventErrors' \in {eventErrors, TRUE}
  BY <1>5, Zenon DEF ReadLine, ReadEnd, WriteOK, ReportEventError
<1>6. ASSUME Waiter
      PROVE  UNCHANGED <<inc, status, result>> /\ eventErrors' \in {eventErrors, TRUE}
  BY <1>6, Zenon DEF Waiter, WaiterReap, WaiterPublish, WaiterEmitExited, WaiterClose,
            WriteOK, ReportEventError
<1>7. ASSUME NEW c \in Calls, Handler(c)
      PROVE  UNCHANGED <<inc, status, result, eventErrors>>
  <2>1. UNCHANGED <<inc, result, eventErrors>>
    BY <1>7, Zenon DEF Handler, KillLookup, KillSend, RestartCheck, RestartSend
  <2>2. status' = status
    BY <1>7, <1>a, SMT DEF Handler, KillLookup, KillSend, RestartCheck, RestartSend, SigKill
  <2> QED
    BY <2>1, <2>2
<1>8. ASSUME Task
      PROVE  UNCHANGED <<inc, status, result, eventErrors>>
  <2>1. UNCHANGED <<inc, result, eventErrors>>
    BY <1>8, Zenon DEF Task, TaskWrite, Fork, Detach, ProcessExit, LeaderExit,
              taskEnvUnchanged
  <2>2. status' = status
    BY <1>8, <1>a, Zenon DEF Task, TaskWrite, Fork, Detach, ProcessExit, LeaderExit
  <2> QED
    BY <2>1, <2>2
<1>9. ASSUME Cancel \/ Terminated \/ UNCHANGED vars
      PROVE  UNCHANGED <<inc, status, result, eventErrors>>
  BY <1>9, Zenon DEF Cancel, Terminated, vars
<1> QED
  <2>1. CASE RunLoop
    BY <1>1, <1>2, <1>3, <1>4, <2>1, Zenon DEF RunLoop
  <2>2. CASE UNCHANGED <<inc, status, result>> /\ eventErrors' \in {eventErrors, TRUE}
    <3>1. eventErrors => eventErrors'
      BY <2>2
    <3> QED
      BY <2>2, <3>1, Zenon
  <2> QED
    BY <1>5, <1>6, <1>7, <1>8, <1>9, <2>1, <2>2, Zenon DEF Next

(* How the waiter comes to have written.                                        *)
LEMMA WaiterWrites ==
    ASSUME [Next]_vars, waiter' \in {"close", "done"}
    PROVE  (waiter \in {"close", "done"} /\ ~Spawn) \/ WaiterEmitExited
<1> USE DEF loopVars, callVars, fieldVars, taskVars, pipeVars
<1>1. CASE RunLoop
  <2>1. waiter' = waiter \/ waiter' \in {"none", "wait"}
    BY <1>1, Zenon DEF RunLoop, Spawn, SpawnFail, Publish, EmitStarted, EmitStartedFail,
              Notify, NotifyFail, Terminate, SelectDone, SelectEventError, SelectRestart,
              SelectCancel, RestartDone, TerminateDone, GraceTimeout, CloseIO
  <2>2. Spawn => waiter' = "none"
    BY Zenon DEF Spawn
  <2> QED
    BY <2>1, <2>2
<1>2. ASSUME ~RunLoop PROVE ~Spawn
  BY <1>2, Zenon DEF RunLoop
<1>3. CASE Waiter
  <2>1. ~Spawn
    BY <1>3 DEF Spawn, Waiter, WaiterReap, WaiterPublish, WaiterEmitExited, WaiterClose
  <2> QED
    BY <1>3, <2>1 DEF Waiter, WaiterReap, WaiterPublish, WaiterClose
<1>4. ASSUME NEW f \in Fds, ReadLine(f) \/ ReadEnd(f) PROVE waiter' = waiter
  BY <1>4, Zenon DEF ReadLine, ReadEnd
<1>5. ASSUME NEW c \in Calls, Handler(c) PROVE waiter' = waiter
  BY <1>5, Zenon DEF Handler, KillLookup, KillSend, RestartCheck, RestartSend
<1>6. ASSUME Task \/ Cancel \/ Terminated \/ UNCHANGED vars PROVE waiter' = waiter
  BY <1>6, Zenon DEF Task, TaskWrite, Fork, Detach, ProcessExit, LeaderExit,
            taskEnvUnchanged, Cancel, Terminated, vars
<1> QED
  BY <1>1, <1>2, <1>3, <1>4, <1>5, <1>6, Zenon DEF Next

(* The exited record is in the log, or its error is on its way out.              *)
LEMMA ExitStep ==
    ASSUME TypeOK, ControlInv, RecordInv, LifeInv, ExitInv, [SessionNext]_allVars
    PROVE  ExitInv'
<1> SUFFICES ASSUME waiter' \in {"close", "done"}
             PROVE  InLog(Record("exited", status))' \/ eventErrors' \/ result' = "eventErr"
  BY Zenon DEF ExitInv
<1>1. CASE Severed
  <2>1. UNCHANGED <<waiter, log, inc, status, eventErrors, result>>
    BY <1>1, Zenon DEF Severed, taskVars, loopVars
  <2> QED
    BY <2>1, Zenon DEF ExitInv, InLog, Record
<1>2. CASE FailedWrite
  <2>1. waiter' = waiter /\ pc = "start" /\ inc = 0
    BY <1>2, Zenon DEF FailedWrite, LifeInv
  <2> QED
    BY <2>1 DEF ControlInv
<1>3. CASE [Next]_vars /\ WaiterEmitExited
  <2>1. inc' = inc /\ status' = status
    BY <1>3, Zenon DEF WaiterEmitExited, taskVars
  <2>2. status \in Nat
    BY CodesAreNat DEF TypeOK
  <2>3. WriteOK("exited", status) => InLog(Record("exited", status))'
    BY <2>1, <2>2, WriteIsInLog DEF InLog, Record
  <2> QED
    BY <1>3, <2>3, Zenon DEF WaiterEmitExited, ReportEventError
<1>4. CASE [Next]_vars /\ waiter \in {"close", "done"} /\ ~Spawn
  <2>1. /\ inc' = inc /\ status' = status
        /\ eventErrors => eventErrors' \/ result' = "eventErr"
        /\ result = "eventErr" => result' = "eventErr"
    BY <1>4, ExitFrame, Zenon
  <2>2. InLog(Record("exited", status)) => InLog(Record("exited", status))'
    BY <1>4, <2>1, LogGrows DEF InLog, Record
  <2> QED
    BY <1>4, <2>1, <2>2, Zenon DEF ExitInv
<1> QED
  BY <1>1, <1>2, <1>3, <1>4, StepOfHost, WaiterWrites, Zenon

-----------------------------------------------------------------------------
(* The follower.                                                             *)

(* Only FollowRecord moves the follower, and only it completes.                  *)
LEMMA FollowMoves ==
    ASSUME [SessionNext]_allVars
    PROVE  \/ FollowRecord
           \/ FollowDetach
           \/ /\ UNCHANGED <<cursor, printed>>
              /\ follow' \in {follow, "waiting", "reading", "over"}
<1>1. CASE Boot \/ BootFail \/ Bind \/ ResolveFail \/ HostExit \/ HostLoop \/ HostWaiter
           \/ HostTask \/ StopSession \/ SessionDone \/ UNCHANGED allVars
  <2>1. UNCHANGED <<follow, cursor, printed>>
    BY <1>1, Zenon DEF Boot, BootFail, Bind, ResolveFail, HostExit, HostLoop, HostWaiter,
              HostTask, StopSession, SessionDone, clientsUnchanged, allVars, sessionVars
  <2> QED
    BY <2>1
<1>2. CASE failedStartResult
  <2>1. UNCHANGED <<follow, cursor, printed>>
    BY <1>2, Zenon DEF failedStartResult, FailedStart, clientsUnchanged
  <2> QED
    BY <2>1
<1>3. CASE StartSession \/ ReadyOK \/ ReadyTimeout
  BY <1>3 DEF StartSession, ReadyOK, ReadyTimeout, FollowStart
<1>4. ASSUME NEW f \in Fds, HostReader(f) PROVE UNCHANGED <<follow, cursor, printed>>
  BY <1>4, Zenon DEF HostReader, sessionVars
<1>5. ASSUME NEW c \in Calls, KillSession(c) \/ ServeKill(c) \/ ServeRestart(c)
      PROVE  UNCHANGED <<follow, cursor, printed>>
  BY <1>5, Zenon DEF KillSession, KillConnect, KillAnswered, KillFallback, killerFrame,
            ServeKill, ServeRestart, sessionVars
<1>6. CASE UNCHANGED <<follow, cursor, printed>>
  BY <1>6
<1> QED
  BY <1>1, <1>2, <1>3, <1>4, <1>5, <1>6, Zenon DEF SessionNext, HostProcess

(* The records before the cursor are finitely many numbers.                      *)
LEMMA OutsReadFinite ==
    ASSUME CommandTypes
    PROVE  /\ IsFiniteSet(OutsRead) /\ Cardinality(OutsRead) \in Nat
           /\ Cardinality(OutsRead) <= cursor
<1>1. cursor \in Nat
  BY DEF CommandTypes
<1>2. OutsRead \subseteq 1..cursor /\ IsFiniteSet(1..cursor) /\ Cardinality(1..cursor) = cursor
  <2>1. /\ IsFiniteSet(1..cursor)
        /\ Cardinality(1..cursor) = IF 1 > cursor THEN 0 ELSE cursor - 1 + 1
    BY <1>1, FS_Interval
  <2>2. OutsRead \subseteq 1..cursor
    BY Zenon DEF OutsRead
  <2> QED
    BY <1>1, <2>1, <2>2
<1> QED
  BY <1>2, FS_Subset, FS_CardinalityType, Zenon

(* Records that were read stay what they were, and are counted once.             *)
LEMMA FollowStep ==
    ASSUME TypeOK, CommandTypes, FollowInv, [SessionNext]_allVars
    PROVE  /\ FollowInv'
           /\ cursor' \in 0..Len(log') /\ printed' \in 0..cursor'
           /\ follow' \in {"none", "waiting", "reading", "completed", "over"}
<1>t. /\ cursor \in Nat /\ printed \in Nat /\ cursor <= Len(log) /\ printed <= cursor
      /\ Len(log) \in Nat /\ Len(log') \in Nat /\ Len(log) <= Len(log')
      /\ \A i \in 1..Len(log) : log'[i] = log[i]
      /\ follow \in {"none", "waiting", "reading", "completed", "over"}
  BY SessionLogGrows DEF CommandTypes
<1>1. CASE FollowRecord
  <2>1. /\ log' = log /\ cursor' = cursor + 1 /\ cursor' <= Len(log)
        /\ log[cursor'].ev = "output" => printed' = printed + 1
        /\ log[cursor'].ev # "output" => printed' = printed
        /\ follow' = "completed" => log[cursor'].ev = "exited"
        /\ follow' \in {"reading", "completed"}
    BY <1>1, <1>t DEF FollowRecord, followFrame, vars
  <2>2. 1..cursor' = (1..cursor) \cup {cursor'} /\ cursor' \notin 1..cursor
    BY <1>t, <2>1
  <2>3. OutsRead' = IF log[cursor'].ev = "output" THEN OutsRead \cup {cursor'} ELSE OutsRead
    BY <2>1, <2>2 DEF OutsRead
  <2>4. Cardinality(OutsRead \cup {cursor'}) = Cardinality(OutsRead) + 1
    <3>1. cursor' \notin OutsRead
      BY <2>2, Zenon DEF OutsRead
    <3> QED
      BY <3>1, OutsReadFinite, FS_AddElement
  <2>5. printed' = Cardinality(OutsRead')
    BY <2>1, <2>3, <2>4 DEF FollowInv
  <2> QED
    BY <1>t, <2>1, <2>5 DEF FollowInv
<1>2. CASE UNCHANGED <<cursor, printed>> /\ follow' \in {follow, "waiting", "reading", "over"}
  <2>1. \A i \in 1..cursor : log'[i] = log[i]
    BY <1>t
  <2>2. OutsRead' = OutsRead
    BY <1>2, <2>1 DEF OutsRead
  <2>3. printed' = Cardinality(OutsRead')
    BY <1>2, <2>2, Zenon DEF FollowInv
  <2>4. follow' = "completed" => cursor' > 0 /\ log'[cursor'].ev = "exited"
    BY <1>2, <1>t, <2>1 DEF FollowInv
  <2> QED
    BY <1>2, <1>t, <2>3, <2>4 DEF FollowInv
<1>3. CASE FollowDetach
  <2>1. cursor' = 0 /\ printed' = 0 /\ follow' = "over"
    BY <1>3 DEF FollowDetach
  <2>2. OutsRead' = {}
    BY <2>1 DEF OutsRead
  <2> QED
    BY <1>t, <2>1, <2>2, FS_EmptySet DEF FollowInv
<1> QED
  BY <1>1, <1>2, <1>3, FollowMoves, Zenon

-----------------------------------------------------------------------------
(* The commands keep their types.                                              *)
LEMMA CommandStep ==
    ASSUME TypeOK, CommandTypes, FollowInv, [SessionNext]_allVars
    PROVE  CommandTypes'
<1> USE DEF vars, sessionVars
<1>1. host' \in HostStates
  BY HostMoves, FailedStartMoves DEF CommandTypes, HostStates, FailedSteps
<1>2. killer' \in [Calls -> {"idle", "connected", "fallback", "done"}]
  <2>1. CASE killer' = killer
    BY <2>1, Zenon DEF CommandTypes
  <2>2. ASSUME NEW c \in Calls, KillSession(c)
        PROVE  \E s \in {"connected", "fallback", "done"} :
                   killer' = [killer EXCEPT ![c] = s]
    BY <2>2 DEF KillSession, KillConnect, KillAnswered, KillFallback, SetKiller
  <2>3. killer' = killer \/ \E c \in Calls : KillSession(c)
    BY Zenon DEF SessionNext, HostProcess, StartSession, Boot, BootFail, Bind, ResolveFail,
       HostExit, clientsUnchanged, failedStartResult, FailedStart, HostLoop, HostWaiter,
       HostTask, HostReader, ReadyOK, ReadyTimeout, StopSession, ServeKill, ServeRestart,
       FollowRecord, FollowDetach, followFrame, SessionDone, allVars
  <2> QED
    BY <2>1, <2>2, <2>3 DEF CommandTypes
<1> QED
  BY <1>1, <1>2, FollowStep, Zenon DEF CommandTypes

(* And their flags.                                                           *)
LEMMA FlagsStep ==
    ASSUME CommandFlags, [SessionNext]_allVars
    PROVE  CommandFlags'
BY Zenon DEF CommandFlags, SessionNext, HostProcess, StartSession, Boot, BootFail, Bind,
   ResolveFail, HostExit, clientsUnchanged, failedStartResult, FailedStart, HostLoop,
   HostWaiter, HostTask, HostReader, ReadyOK, ReadyTimeout, StopSession, KillSession,
   KillConnect, KillAnswered, KillFallback, killerFrame, ServeKill, ServeRestart,
   FollowRecord, FollowDetach, followFrame, SessionDone, allVars, sessionVars

-----------------------------------------------------------------------------
(* The theorems.                                                             *)

(* The invariant of a session: the host's goroutines, the process around them,   *)
(* and the commands of the others.                                            *)
THEOREM SessionInvariant == SessionSpec => [](SessionInv /\ CommandFlags)
<1>1. SessionInit => SessionInv /\ CommandFlags
  <2> SUFFICES ASSUME SessionInit PROVE SessionInv /\ CommandFlags
    OBVIOUS
  <2>1. TypeOK /\ ControlInv /\ RecordInv /\ IncarnationsInOrder
    BY TypeInit, ControlInit DEF SessionInit, Init, RecordInv, Waiting, IncarnationsInOrder
  <2>2. CommandTypes
    BY DEF SessionInit, Init, CommandTypes, HostStates
  <2>3. LifeInv /\ FailedInv /\ StoryInv /\ ExitInv
    BY DEF SessionInit, Init, LifeInv, FailedInv, BootStates, FailedSteps, StoryInv, LogInv,
       ExitInv
  <2>4. FollowInv
    <3>1. OutsRead = {}
      BY DEF SessionInit, OutsRead
    <3> QED
      BY <3>1, FS_EmptySet DEF SessionInit, FollowInv
  <2>5. CommandFlags
    BY Zenon DEF SessionInit, CommandFlags
  <2> QED
    BY <2>1, <2>2, <2>3, <2>4, <2>5, Zenon DEF SessionInv
<1>2. SessionInv /\ CommandFlags /\ [SessionNext]_allVars => (SessionInv /\ CommandFlags)'
  <2> SUFFICES ASSUME SessionInv, CommandFlags, [SessionNext]_allVars
               PROVE  SessionInv' /\ CommandFlags'
    BY Zenon
  <2>0. /\ TypeOK /\ CommandTypes /\ ControlInv /\ RecordInv /\ LifeInv /\ FailedInv
        /\ StoryInv /\ ExitInv /\ FollowInv /\ IncarnationsInOrder
    BY Zenon DEF SessionInv
  <2>1. TypeOK' /\ ControlInv' /\ RecordInv'
    BY <2>0, HostInvStep, Zenon
  <2>2. CommandTypes' /\ FollowInv'
    BY <2>0, CommandStep, FollowStep, Zenon
  <2>3. LifeInv' /\ FailedInv'
    BY <2>0, LifeStep, FailedStep, Zenon
  <2>4. StoryInv' /\ IncarnationsInOrder' /\ ExitInv'
    BY <2>0, <2>3, StoryStep, SessionOrderStep, ExitStep, Zenon
  <2>5. CommandFlags'
    BY FlagsStep, Zenon
  <2> QED
    BY <2>1, <2>2, <2>3, <2>4, <2>5, Zenon DEF SessionInv
<1> QED
  BY <1>1, <1>2, PTL DEF SessionSpec

(* Types, and the follower's place in the log: never ahead of it, and never more  *)
(* printed than read.                                                        *)
THEOREM SessionTypeCorrect == SessionSpec => []SessionTypeOK
<1>1. SessionInv /\ CommandFlags => SessionTypeOK
  BY Zenon DEF SessionInv, CommandTypes, CommandFlags, SessionTypeOK
<1> QED
  BY <1>1, SessionInvariant, PTL

(* A follower that ends with the session's exit code has printed every line that  *)
(* is in the log of the incarnation that exited and of those before it.          *)
THEOREM FollowPrintsAllHolds == SessionSpec => []FollowPrintsAll
<1>1. SessionInv => FollowPrintsAll
  <2> SUFFICES ASSUME SessionInv, follow = "completed"
               PROVE  printed = Cardinality({i \in DOMAIN log :
                          log[i].ev = "output" /\ log[i].inc <= log[cursor].inc})
    BY Zenon DEF FollowPrintsAll
  <2>1. /\ log \in Seq(Events) /\ Len(log) \in Nat /\ DOMAIN log = 1..Len(log)
        /\ cursor \in 1..Len(log) /\ log[cursor].ev = "exited"
        /\ printed = Cardinality(OutsRead)
    BY DEF SessionInv, TypeOK, CommandTypes, FollowInv
  <2>2. \A i \in DOMAIN log : log[i].inc \in Nat
    <3>1. \A i \in DOMAIN log : log[i] \in Events
      BY <2>1
    <3> QED
      BY <3>1 DEF Events
  <2>3. ASSUME NEW i \in DOMAIN log, i < cursor
        PROVE  log[i].inc <= log[cursor].inc
    BY <2>1, <2>3, Zenon DEF SessionInv, IncarnationsInOrder
  <2>4. ASSUME NEW i \in DOMAIN log, cursor < i, log[i].inc <= log[cursor].inc
        PROVE  log[i].ev # "output"
    <3>1. log[cursor].inc <= log[i].inc
          /\ (log[cursor].inc = log[i].inc => log[i].ev = "started")
      BY <2>1, <2>4 DEF SessionInv, IncarnationsInOrder
    <3> QED
      BY <2>1, <2>2, <2>4, <3>1
  <2>5. OutsRead = {i \in DOMAIN log :
                       log[i].ev = "output" /\ log[i].inc <= log[cursor].inc}
    <3>1. ASSUME NEW i \in DOMAIN log
          PROVE  i \in OutsRead <=> log[i].ev = "output" /\ log[i].inc <= log[cursor].inc
      BY <2>1, <2>3, <2>4, <3>1 DEF OutsRead
    <3>2. OutsRead \subseteq DOMAIN log
      BY <2>1 DEF OutsRead
    <3> QED
      BY <3>1, <3>2, Zenon
  <2> QED
    BY <2>1, <2>5, Zenon
<1> QED
  BY <1>1, SessionInvariant, PTL

(* A host that ended by itself, and met no failing write, left the exit code of   *)
(* its last incarnation as the last exited record of the log, where ListHistory   *)
(* looks.                                                                   *)
THEOREM GoneMeansInHistoryHolds == SessionSpec => []GoneMeansInHistory
<1>1. SessionInv => GoneMeansInHistory
  <2> SUFFICES ASSUME SessionInv, host = "gone", ~sigkilled, inc > 0, ~eventErrors,
                      result # "eventErr"
               PROVE  InHistory /\ HistoryCode = exitCode /\ log[Max(Exits)].inc = inc
    BY Zenon DEF GoneMeansInHistory
  <2>1. /\ log \in Seq(Events) /\ Len(log) \in Nat /\ DOMAIN log = 1..Len(log)
        /\ inc \in Nat
    BY DEF SessionInv, TypeOK
  <2>2. waiter = "done" /\ exitCode = status
    BY DEF SessionInv, LifeInv, ControlInv, Ended
  <2>3. PICK i \in DOMAIN log : log[i] = Record("exited", status)
    BY <2>2 DEF SessionInv, ExitInv, InLog
  <2>4. log[i].ev = "exited" /\ log[i].inc = inc /\ log[i].val = exitCode /\ i \in Exits
    BY <2>2, <2>3 DEF Record, Exits
  <2>5. \A j \in DOMAIN log : log[j].inc <= inc /\ log[j].inc \in Nat
    <3>1. \A j \in DOMAIN log : log[j] \in Events
      BY <2>1
    <3>2. LogInv
      BY Zenon DEF SessionInv, StoryInv
    <3> QED
      BY <3>1, <3>2 DEF Events, LogInv
  <2>6. Exits \subseteq 0..Len(log) /\ Exits # {}
    BY <2>1, <2>4 DEF Exits
  <2>7. PICK m \in Exits : \A y \in Exits : m >= y
    BY <2>1, <2>6, GreatestExists, Zenon
  <2>8. Max(Exits) \in Exits /\ \A y \in Exits : Max(Exits) >= y
    BY <2>7, Zenon DEF Max
  <2>9. Max(Exits) = i
    <3>1. Max(Exits) \in DOMAIN log /\ log[Max(Exits)].ev = "exited" /\ Max(Exits) >= i
      BY <2>4, <2>8 DEF Exits
    <3>2. CASE i < Max(Exits)
      <4>1. /\ log[i].inc <= log[Max(Exits)].inc
            /\ log[i].inc = log[Max(Exits)].inc => log[Max(Exits)].ev = "started"
        BY <2>4, <3>1, <3>2 DEF SessionInv, IncarnationsInOrder
      <4> QED
        BY <2>1, <2>4, <2>5, <3>1, <4>1
    <3> QED
      BY <2>1, <3>1, <3>2
  <2> QED
    BY <2>4, <2>9, Zenon DEF InHistory, HistoryCode
<1> QED
  BY <1>1, SessionInvariant, PTL
=============================================================================
