----------------------------- MODULE HostProofs -----------------------------
(* Proofs of the safety properties of the pipe host, for every set of         *)
(* requests, every number of restarts and every amount of output.            *)
EXTENDS HostInv, TLAPS, FiniteSetTheorems

(* Every variable keeps its type: one step of any goroutine or process of     *)
(* host.go, at a time.                                                      *)
LEMMA TypeInit == Init => TypeOK
<1> SUFFICES ASSUME Init PROVE TypeOK
  OBVIOUS
<1>1. FlagsOK
  BY Zenon DEF Init, FlagsOK
<1> QED
  BY <1>1, SMT DEF Init, TypeOK, PCs, Results, CallStates

(* An exit code is a number that a record of the log can hold.               *)
LEMMA CodesAreNat == Codes \cup {NoCode} \subseteq Nat
BY HostAssumption DEF HostAssumption, Codes, NoCode, TermCode, KillCode

(* SIGKILL to the session leaves only processes that were there.              *)
LEMMA SigKillType ==
    ASSUME TypeOK, SigKill
    PROVE  alive' \subseteq Procs /\ holding' \subseteq Procs
           /\ status' \in Codes \cup {NoCode}
BY DEF TypeOK, SigKill, Codes

(* The same for Host.Kill, which does nothing when proc is nil.              *)
LEMMA KillTaskType ==
    ASSUME TypeOK, KillTask
    PROVE  alive' \subseteq Procs /\ holding' \subseteq Procs
           /\ status' \in Codes \cup {NoCode}
BY SigKillType DEF KillTask, TypeOK

(* A record appended to the log is a well-formed event.                       *)
LEMMA WriteType ==
    ASSUME TypeOK, NEW ev \in {"started", "output", "exited"}, NEW val \in Nat,
           WriteOK(ev, val)
    PROVE  log' \in Seq(Events)
<1>1. Record(ev, val) \in Events
  BY DEF TypeOK, Record, Events
<1>2. log \in Seq(Events) /\ log' = Append(log, Record(ev, val))
  BY Zenon DEF TypeOK, WriteOK
<1> HIDE DEF Events
<1> QED
  BY <1>1, <1>2, SMT

(* What a Kill request looks up under h.mu is an incarnation number.         *)
LEMMA KillLookupType ==
    ASSUME TypeOK, NEW c \in Calls, KillLookup(c)
    PROVE  call' \in [Calls -> CallStates] /\ target' \in [Calls -> Nat]
<1>1. \/ call' = [call EXCEPT ![c] = "refused"] /\ target' = target
      \/ /\ call' = [call EXCEPT ![c] = "killing"]
         /\ target' = [target EXCEPT ![c] = proc]
  BY Zenon DEF KillLookup, Reply
<1>2. call \in [Calls -> CallStates] /\ target \in [Calls -> Nat] /\ proc \in Nat
  BY DEF TypeOK
<1>3. "refused" \in CallStates /\ "killing" \in CallStates
  BY DEF CallStates
<1> QED
  BY <1>1, <1>2, <1>3, SMT

(* The SIGKILL of a request, to the incarnation it looked up or to nothing.   *)
LEMMA KillSendType ==
    ASSUME TypeOK, NEW c \in Calls, KillSend(c)
    PROVE  alive' \subseteq Procs /\ holding' \subseteq Procs
           /\ status' \in Codes \cup {NoCode}
<1>1. SigKill \/ (alive' = alive /\ holding' = holding /\ status' = status)
  BY Zenon DEF KillSend
<1> QED
  BY <1>1, SigKillType, Zenon DEF TypeOK

(* Each step keeps the types.                                               *)
LEMMA TypeStep == TypeOK /\ [Next]_vars => TypeOK'
<1> SUFFICES ASSUME TypeOK, [Next]_vars PROVE TypeOK'
  OBVIOUS
<1> USE HostAssumption
    DEF HostAssumption, TypeOK, PCs, Results, CallStates, Codes, Events, Record, Procs, KillCode,
        TermCode, NoCode, loopVars, callVars, fieldVars, taskVars, pipeVars
<1>1. CASE Spawn
  <2>1. FlagsOK'
    BY <1>1, Zenon DEF FlagsOK, Spawn
  <2> QED
    BY <1>1, <2>1, SMT DEF Spawn
<1>2. CASE SpawnFail
  <2>1. FlagsOK'
    BY <1>2, Zenon DEF FlagsOK, SpawnFail
  <2> QED
    BY <1>2, <2>1, SMT DEF SpawnFail
<1>3. CASE Publish
  <2>1. FlagsOK'
    BY <1>3, Zenon DEF FlagsOK, Publish
  <2> QED
    BY <1>3, <2>1, SMT DEF Publish
<1>4. CASE EmitStarted
  <2>1. FlagsOK'
    BY <1>4, Zenon DEF FlagsOK, EmitStarted, WriteOK
  <2> QED
    BY <1>4, <2>1, SMT DEF EmitStarted, WriteOK
<1>5. CASE EmitStartedFail
  <2>1. FlagsOK'
    BY <1>5, Zenon DEF FlagsOK, EmitStartedFail, Terminate, GracefulKill
  <2> QED
    BY <1>5, <2>1, SMT DEF EmitStartedFail, Terminate, GracefulKill
<1>6. CASE Notify
  <2>1. FlagsOK'
    BY <1>6, Zenon DEF FlagsOK, Notify
  <2> QED
    BY <1>6, <2>1, SMT DEF Notify
<1>7. CASE NotifyFail
  <2>1. FlagsOK'
    BY <1>7, Zenon DEF FlagsOK, NotifyFail, Terminate, GracefulKill
  <2> QED
    BY <1>7, <2>1, SMT DEF NotifyFail, Terminate, GracefulKill
<1>8. CASE SelectDone
  <2>1. FlagsOK'
    BY <1>8, Zenon DEF FlagsOK, SelectDone
  <2> QED
    BY <1>8, <2>1, SMT DEF SelectDone
<1>9. CASE SelectEventError
  <2>1. FlagsOK'
    BY <1>9, Zenon DEF FlagsOK, SelectEventError, Terminate, GracefulKill
  <2> QED
    BY <1>9, <2>1, SMT DEF SelectEventError, Terminate, GracefulKill
<1>10. CASE SelectRestart
  <2>1. FlagsOK'
    BY <1>10, Zenon DEF FlagsOK, SelectRestart, KillTask, SigKill
  <2> QED
    BY <1>10, <2>1, KillTaskType, SMT DEF SelectRestart
<1>11. CASE SelectCancel
  <2>1. FlagsOK'
    BY <1>11, Zenon DEF FlagsOK, SelectCancel, Terminate, GracefulKill
  <2> QED
    BY <1>11, <2>1, SMT DEF SelectCancel, Terminate, GracefulKill
<1>12. CASE RestartDone
  <2>1. FlagsOK'
    BY <1>12, Zenon DEF FlagsOK, RestartDone
  <2> QED
    BY <1>12, <2>1, SMT DEF RestartDone
<1>13. CASE TerminateDone
  <2>1. FlagsOK'
    BY <1>13, Zenon DEF FlagsOK, TerminateDone
  <2> QED
    BY <1>13, <2>1, SMT DEF TerminateDone
<1>14. CASE GraceTimeout
  <2>1. FlagsOK'
    BY <1>14, Zenon DEF FlagsOK, GraceTimeout, KillTask, SigKill
  <2> QED
    BY <1>14, <2>1, KillTaskType, SMT DEF GraceTimeout
<1>14a. CASE CloseIO
  <2>1. FlagsOK'
    BY <1>14a, Zenon DEF FlagsOK, CloseIO, closePipes
  <2> QED
    BY <1>14a, <2>1, SMT DEF CloseIO, closePipes
<1>15. ASSUME NEW f \in Fds, ReadLine(f) PROVE TypeOK'
  <2>1. FlagsOK'
    <3>1. eventErrors' = eventErrors \/ eventErrors' = TRUE
      BY <1>15, Zenon DEF ReadLine, WriteOK, ReportEventError
    <3>2. UNCHANGED <<cancelled, running, done, termed, readEnd>>
      BY <1>15, Zenon DEF ReadLine, fieldVars, taskVars
    <3> QED
      BY <3>1, <3>2, Zenon DEF FlagsOK
  <2>2. pipe' \in [Fds -> Nat]
    BY <1>15, SMT DEF ReadLine
  <2>3. lost' \in [Fds -> Nat]
    BY <1>15, SMT DEF ReadLine
  <2>4. log' \in Seq(Events)
    <3>1. "output" \in {"started", "output", "exited"} /\ f \in Nat
      BY SMT
    <3>2. WriteOK("output", f) \/ log' = log
      BY <1>15, Zenon DEF ReadLine, ReportEventError
    <3> QED
      BY <3>1, <3>2, WriteType, Zenon
  <2> QED
    BY <1>15, <2>1, <2>2, <2>3, <2>4, SMT DEF ReadLine
<1>16. ASSUME NEW f \in Fds, ReadEnd(f) PROVE TypeOK'
  <2>1. FlagsOK'
    BY <1>16, Zenon DEF FlagsOK, ReadEnd
  <2> QED
    BY <1>16, <2>1, SMT DEF ReadEnd
<1>17. CASE WaiterReap
  <2>1. FlagsOK'
    BY <1>17, Zenon DEF FlagsOK, WaiterReap
  <2> QED
    BY <1>17, <2>1, SMT DEF WaiterReap
<1>18. CASE WaiterPublish
  <2>1. FlagsOK'
    BY <1>18, Zenon DEF FlagsOK, WaiterPublish
  <2> QED
    BY <1>18, <2>1, SMT DEF WaiterPublish
<1>19. CASE WaiterEmitExited
  <2>1. FlagsOK'
    BY <1>19, Zenon DEF FlagsOK, WaiterEmitExited, WriteOK, ReportEventError
  <2>2. log' \in Seq(Events)
    <3>1. "exited" \in {"started", "output", "exited"} /\ status \in Nat
      BY CodesAreNat, Zenon
    <3>2. WriteOK("exited", status) \/ log' = log
      BY <1>19, Zenon DEF WaiterEmitExited, ReportEventError
    <3> QED
      BY <3>1, <3>2, WriteType, Zenon
  <2> QED
    BY <1>19, <2>1, <2>2, SMT DEF WaiterEmitExited
<1>20. CASE WaiterClose
  <2>1. FlagsOK'
    BY <1>20, Zenon DEF FlagsOK, WaiterClose
  <2> QED
    BY <1>20, <2>1, SMT DEF WaiterClose
<1>21. ASSUME NEW c \in Calls, KillLookup(c) PROVE TypeOK'
  <2>1. FlagsOK'
    BY <1>21, Zenon DEF FlagsOK, KillLookup, Reply
  <2>2. call' \in [Calls -> CallStates] /\ target' \in [Calls -> Nat]
    BY <1>21, KillLookupType
  <2> QED
    BY <1>21, <2>1, <2>2, SMT DEF KillLookup
<1>22. ASSUME NEW c \in Calls, KillSend(c) PROVE TypeOK'
  <2>1. FlagsOK'
    BY <1>22, Zenon DEF FlagsOK, KillSend, Reply, SigKill
  <2>2. call' \in [Calls -> CallStates]
    BY <1>22, SMT DEF KillSend, Reply
  <2>3. alive' \subseteq Procs /\ holding' \subseteq Procs
        /\ status' \in Codes \cup {NoCode}
    BY <1>22, KillSendType
  <2> QED
    BY <1>22, <2>1, <2>2, <2>3, SMT DEF KillSend
<1>23. ASSUME NEW c \in Calls, RestartCheck(c) PROVE TypeOK'
  <2>1. FlagsOK'
    BY <1>23, Zenon DEF FlagsOK, RestartCheck, Reply
  <2> QED
    BY <1>23, <2>1, SMT DEF RestartCheck, Reply
<1>24. ASSUME NEW c \in Calls, RestartSend(c) PROVE TypeOK'
  <2>1. FlagsOK'
    BY <1>24, Zenon DEF FlagsOK, RestartSend, Reply
  <2> QED
    BY <1>24, <2>1, SMT DEF RestartSend, Reply
<1>25. CASE Task
  <2>1. ASSUME NEW p \in Procs, NEW f \in Fds, TaskWrite(p, f) PROVE TypeOK'
    <3>1. FlagsOK'
      BY <2>1, Zenon DEF FlagsOK, TaskWrite, taskEnvUnchanged
    <3>2. pipe' \in [Fds -> Nat] /\ written' \in [Fds -> Nat]
      BY <2>1, SMT DEF TaskWrite
    <3> QED
      BY <2>1, <3>1, <3>2, SMT DEF TaskWrite, taskEnvUnchanged
  <2>2. ASSUME NEW p \in Procs, Fork(p) PROVE TypeOK'
    <3>1. FlagsOK'
      BY <2>2, Zenon DEF FlagsOK, Fork, taskEnvUnchanged
    <3> QED
      BY <2>2, <3>1, SMT DEF Fork, taskEnvUnchanged
  <2>3. ASSUME NEW p \in Procs, Detach(p) PROVE TypeOK'
    <3>1. FlagsOK'
      BY <2>3, Zenon DEF FlagsOK, Detach, taskEnvUnchanged
    <3> QED
      BY <2>3, <3>1, SMT DEF Detach, taskEnvUnchanged
  <2>4. ASSUME NEW p \in Procs, ProcessExit(p) PROVE TypeOK'
    <3>1. FlagsOK'
      BY <2>4, Zenon DEF FlagsOK, ProcessExit, taskEnvUnchanged
    <3> QED
      BY <2>4, <3>1, SMT DEF ProcessExit, taskEnvUnchanged
  <2>5. ASSUME NEW code \in ExitCodes \cup {TermCode}, LeaderExit(code) PROVE TypeOK'
    <3>1. FlagsOK'
      BY <2>5, Zenon DEF FlagsOK, LeaderExit, taskEnvUnchanged
    <3> QED
      BY <2>5, <3>1, SMT DEF LeaderExit, taskEnvUnchanged
  <2> QED
    BY <1>25, <2>1, <2>2, <2>3, <2>4, <2>5 DEF Task
<1>26. CASE Cancel
  <2>1. FlagsOK'
    BY <1>26, Zenon DEF FlagsOK, Cancel
  <2> QED
    BY <1>26, <2>1, SMT DEF Cancel
<1>27. CASE UNCHANGED vars
  <2>1. FlagsOK'
    BY <1>27, Zenon DEF FlagsOK, vars
  <2> QED
    BY <1>27, <2>1, SMT DEF vars
<1> QED
  BY <1>1, <1>2, <1>3, <1>4, <1>5, <1>6, <1>7, <1>8, <1>9, <1>10, <1>11, <1>12,
     <1>13, <1>14, <1>14a, <1>15, <1>16, <1>17, <1>18, <1>19, <1>20, <1>21, <1>22, <1>23,
     <1>24, <1>25, <1>26, <1>27
     DEF Next, RunLoop, Waiter, Handler, Terminated

(* Type correctness of the host, for every value of the constants.            *)
THEOREM TypeCorrect == Spec => []TypeOK
BY TypeInit, TypeStep, PTL DEF Spec

-----------------------------------------------------------------------------
(* The goroutines agree about the state of the incarnation.                   *)
LEMMA ControlInit == Init => ControlInv
BY DEF Init, ControlInv, Ended, Waiting

(* terminateTask begins with SIGTERM to a leader that is still alive.         *)
LEMMA ControlTerminate ==
    ASSUME TypeOK, ControlInv, NEW why, Terminate(why),
           pc \in {"emitStarted", "notify", "select"}
    PROVE  ControlInv'
<1>t. inc \in Nat /\ waiter \in {"none", "wait", "drain", "emit", "close", "done"}
  BY DEF TypeOK
<1>1. "leader" \in alive => proc # 0
  BY <1>t DEF ControlInv, Ended, Waiting
<1>2. "leader" \in alive' => termed'
  BY <1>1, Zenon DEF Terminate, GracefulKill
<1> QED
  BY <1>t, <1>2 DEF ControlInv, Ended, Waiting, Terminate, GracefulKill, fieldVars,
              pipeVars

(* Each step keeps the loop, the waiter and the fields in agreement.         *)
LEMMA ControlStep == TypeOK /\ ControlInv /\ [Next]_vars => ControlInv'
<1>0. SUFFICES ASSUME TypeOK, ControlInv, [Next]_vars PROVE ControlInv'
  OBVIOUS
<1>t. inc \in Nat /\ reader \in [Fds -> {"none", "reading", "done"}]
  BY <1>0 DEF TypeOK
<1> USE DEF ControlInv, Ended, Waiting, loopVars, callVars, fieldVars, taskVars,
        pipeVars
<1>1. CASE Spawn
  BY <1>1, <1>0, <1>t DEF Spawn
<1>2. CASE SpawnFail
  BY <1>2, <1>0, <1>t DEF SpawnFail
<1>3. CASE Publish
  BY <1>3, <1>0, <1>t DEF Publish
<1>4. CASE EmitStarted
  BY <1>4, <1>0, <1>t DEF EmitStarted, WriteOK
<1>5. CASE EmitStartedFail
  BY <1>5, <1>0, <1>t, ControlTerminate DEF EmitStartedFail
<1>6. CASE Notify
  BY <1>6, <1>0, <1>t DEF Notify
<1>7. CASE NotifyFail
  BY <1>7, <1>0, <1>t, ControlTerminate DEF NotifyFail
<1>8. CASE SelectDone
  BY <1>8, <1>0, <1>t DEF SelectDone
<1>9. CASE SelectEventError
  BY <1>9, <1>0, <1>t, ControlTerminate DEF SelectEventError
<1>10. CASE SelectRestart
  BY <1>10, <1>0, <1>t DEF SelectRestart, KillTask, SigKill
<1>11. CASE SelectCancel
  BY <1>11, <1>0, <1>t, ControlTerminate DEF SelectCancel
<1>12. CASE RestartDone
  BY <1>12, <1>0, <1>t DEF RestartDone
<1>13. CASE TerminateDone
  BY <1>13, <1>0, <1>t DEF TerminateDone
<1>14. CASE GraceTimeout
  BY <1>14, <1>0, <1>t DEF GraceTimeout, KillTask, SigKill
<1>14a. CASE CloseIO
  BY <1>14a, <1>0, <1>t DEF CloseIO, closePipes
<1>15. ASSUME NEW f \in Fds, ReadLine(f) PROVE ControlInv'
  BY <1>15, <1>0, <1>t DEF ReadLine, WriteOK, ReportEventError
<1>16. ASSUME NEW f \in Fds, ReadEnd(f) PROVE ControlInv'
  BY <1>16, <1>0, <1>t DEF ReadEnd
<1>17. CASE WaiterReap
  BY <1>17, <1>0, <1>t DEF WaiterReap
<1>18. CASE WaiterPublish
  BY <1>18, <1>0, <1>t DEF WaiterPublish, OutputDrained
<1>19. CASE WaiterEmitExited
  BY <1>19, <1>0, <1>t DEF WaiterEmitExited, WriteOK, ReportEventError
<1>20. CASE WaiterClose
  BY <1>20, <1>0, <1>t DEF WaiterClose
<1>21. ASSUME NEW c \in Calls, KillLookup(c) PROVE ControlInv'
  BY <1>21, <1>0, <1>t DEF KillLookup, Reply
<1>22. ASSUME NEW c \in Calls, KillSend(c) PROVE ControlInv'
  BY <1>22, <1>0, <1>t DEF KillSend, Reply, SigKill
<1>23. ASSUME NEW c \in Calls, RestartCheck(c) PROVE ControlInv'
  BY <1>23, <1>0, <1>t DEF RestartCheck, Reply
<1>24. ASSUME NEW c \in Calls, RestartSend(c) PROVE ControlInv'
  BY <1>24, <1>0, <1>t DEF RestartSend, Reply
<1>25. ASSUME NEW p \in Procs, NEW f \in Fds, TaskWrite(p, f) PROVE ControlInv'
  BY <1>25, <1>0, <1>t DEF TaskWrite, taskEnvUnchanged
<1>26. ASSUME NEW p \in Procs, Fork(p) PROVE ControlInv'
  BY <1>26, <1>0, <1>t DEF Fork, taskEnvUnchanged
<1>27. ASSUME NEW p \in Procs, Detach(p) PROVE ControlInv'
  BY <1>27, <1>0, <1>t DEF Detach, taskEnvUnchanged
<1>28. ASSUME NEW p \in Procs, ProcessExit(p) PROVE ControlInv'
  BY <1>28, <1>0, <1>t DEF ProcessExit, taskEnvUnchanged
<1>29. ASSUME NEW code \in ExitCodes \cup {TermCode}, LeaderExit(code) PROVE ControlInv'
  BY <1>29, <1>0, <1>t DEF LeaderExit, taskEnvUnchanged
<1>30. CASE Cancel
  BY <1>30, <1>0, <1>t DEF Cancel
<1>31. CASE UNCHANGED vars
  BY <1>31, <1>0, <1>t DEF vars
<1> QED
  BY <1>0, <1>1, <1>2, <1>3, <1>4, <1>5, <1>6, <1>7, <1>8, <1>9, <1>10,
     <1>11, <1>12, <1>13, <1>14, <1>14a, <1>15, <1>16, <1>17, <1>18, <1>19, <1>20,
     <1>21, <1>22, <1>23, <1>24, <1>25, <1>26, <1>27, <1>28, <1>29, <1>30,
     <1>31
     DEF Next, RunLoop, Waiter, Handler, Task, Terminated

(* Only the loop that saw the waiter end returns or spawns again.             *)
LEMMA ControlCorrect == Spec => []ControlInv
BY TypeCorrect, ControlInit, ControlStep, PTL DEF Spec

(* RunTask returns only once the task's leader is dead and reaped.            *)
THEOREM NoOrphanedTaskHolds == Spec => []NoOrphanedTask
<1>1. TypeOK /\ ControlInv => NoOrphanedTask
  BY DEF ControlInv, Ended, NoOrphanedTask
<1> QED
  BY <1>1, TypeCorrect, ControlCorrect, PTL

(* No incarnation is spawned over one that has not ended.                     *)
THEOREM RestartIsExclusiveHolds == Spec => RestartIsExclusive
<1>1. TypeOK /\ ControlInv /\ [Next]_vars =>
        [inc' # inc => /\ "leader" \notin alive /\ ~running
                       /\ \A f \in Fds : reader[f] # "reading"
                       /\ waiter \in {"none", "done"}]_vars
  <2>1. SUFFICES ASSUME TypeOK, ControlInv, [Next]_vars, inc' # inc
                 PROVE  /\ "leader" \notin alive /\ ~running
                        /\ \A f \in Fds : reader[f] # "reading"
                        /\ waiter \in {"none", "done"}
    BY Zenon
  <2>2. Spawn
    BY <2>1 DEF Next, RunLoop, Waiter, Handler, Task, Terminated, vars,
      SpawnFail, Publish, EmitStarted, EmitStartedFail, Notify, NotifyFail,
      SelectDone, SelectEventError, SelectRestart, SelectCancel, RestartDone,
      TerminateDone, GraceTimeout, CloseIO, Terminate, ReadLine, ReadEnd, WaiterReap,
      WaiterPublish, WaiterEmitExited, WaiterClose, KillLookup, KillSend,
      RestartCheck, RestartSend, TaskWrite, Fork, Detach, ProcessExit,
      LeaderExit, taskEnvUnchanged, Cancel
  <2> QED
    BY <2>1, <2>2 DEF Spawn, ControlInv, Ended
<1> QED
  BY <1>1, TypeCorrect, ControlCorrect, PTL DEF Spec, RestartIsExclusive

(* terminateTask sends SIGKILL only to a task that was sent SIGTERM.          *)
THEOREM ForceOnlyAfterTermHolds == Spec => ForceOnlyAfterTerm
<1>1. ControlInv =>
        [pc = "grace" /\ pc' = "forceClose" /\ "leader" \in alive => termed]_vars
  BY DEF ControlInv
<1> QED
  BY <1>1, ControlCorrect, PTL DEF ForceOnlyAfterTerm

-----------------------------------------------------------------------------
(* What a successful write does to the log.                                   *)
LEMMA WriteAppends ==
    ASSUME TypeOK, NEW ev \in {"started", "output", "exited"}, NEW val \in Nat,
           WriteOK(ev, val)
    PROVE  /\ Len(log) \in Nat /\ DOMAIN log = 1..Len(log)
           /\ DOMAIN log' = 1..(Len(log) + 1)
           /\ \A i \in DOMAIN log : log'[i] = log[i]
           /\ log'[Len(log) + 1] = [ev |-> ev, inc |-> inc, val |-> val]
<1>1. [ev |-> ev, inc |-> inc, val |-> val] \in Events
  BY DEF TypeOK, Events
<1>2. log \in Seq(Events)
      /\ log' = Append(log, [ev |-> ev, inc |-> inc, val |-> val])
  BY Zenon DEF TypeOK, WriteOK, Record
<1> QED
  BY <1>1, <1>2, SMT

(* Appending a record of the current incarnation keeps the log in order, if    *)
(* what it already holds of the incarnation may come before the record.        *)
LEMMA WriteKeepsOrder ==
    ASSUME TypeOK, LogInv, IncarnationsInOrder,
           NEW ev \in {"started", "output", "exited"}, NEW val \in Nat,
           WriteOK(ev, val),
           \A i \in DOMAIN log : log[i].inc = inc =>
                /\ log[i].ev = "exited" => ev = "started"
                /\ log[i].ev = ev => ev = "output"
    PROVE  IncarnationsInOrder'
<1> DEFINE n == Len(log) + 1
<1>a. /\ Len(log) \in Nat /\ DOMAIN log = 1..Len(log)
      /\ DOMAIN log' = 1..n
      /\ \A i \in DOMAIN log : log'[i] = log[i]
      /\ log'[n] = [ev |-> ev, inc |-> inc, val |-> val]
  BY WriteAppends, Zenon
<1>1. /\ Len(log) \in Nat /\ DOMAIN log = 1..Len(log)
      /\ DOMAIN log' = 1..n
      /\ \A i \in DOMAIN log : log'[i] = log[i]
      /\ log'[n].ev = ev /\ log'[n].inc = inc
  BY <1>a
<1>2. \A i \in DOMAIN log : log[i].inc <= inc
  BY DEF LogInv
<1> SUFFICES ASSUME NEW i \in DOMAIN log', NEW j \in DOMAIN log', i < j
             PROVE  /\ log'[i].inc <= log'[j].inc
                    /\ log'[i].inc = log'[j].inc =>
                         /\ log'[i].ev = "exited" => log'[j].ev = "started"
                         /\ log'[i].ev = log'[j].ev => log'[i].ev = "output"
  BY Zenon DEF IncarnationsInOrder
<1>3. i \in DOMAIN log
  BY <1>1
<1>4. CASE j \in DOMAIN log
  BY <1>1, <1>3, <1>4 DEF IncarnationsInOrder
<1>5. CASE j = n
  BY <1>1, <1>2, <1>3, <1>5
<1> QED
  BY <1>1, <1>4, <1>5

(* The same record keeps LogInv when the writer's own state already tells of   *)
(* it.                                                                       *)
LEMMA WriteKeepsLogInv ==
    ASSUME TypeOK, LogInv,
           NEW ev \in {"started", "output", "exited"}, NEW val \in Nat,
           WriteOK(ev, val), inc' = inc,
           ev = "exited" => waiter' \in {"close", "done"},
           ev = "started" => pc' \notin {"spawned", "emitStarted"},
           waiter \in {"close", "done"} => waiter' \in {"close", "done"},
           pc \notin {"spawned", "emitStarted"} => pc' \notin {"spawned", "emitStarted"}
    PROVE  LogInv'
<1> DEFINE n == Len(log) + 1
<1>a. /\ Len(log) \in Nat /\ DOMAIN log = 1..Len(log)
      /\ DOMAIN log' = 1..n
      /\ \A i \in DOMAIN log : log'[i] = log[i]
      /\ log'[n] = [ev |-> ev, inc |-> inc, val |-> val]
  BY WriteAppends, Zenon
<1>1. /\ Len(log) \in Nat /\ DOMAIN log = 1..Len(log)
      /\ DOMAIN log' = 1..n
      /\ \A i \in DOMAIN log : log'[i] = log[i]
      /\ log'[n].ev = ev /\ log'[n].inc = inc
  BY <1>a
<1> SUFFICES ASSUME NEW i \in DOMAIN log'
             PROVE  /\ log'[i].inc <= inc'
                    /\ log'[i].inc = inc' /\ log'[i].ev = "exited"
                         => waiter' \in {"close", "done"}
                    /\ log'[i].inc = inc' /\ log'[i].ev = "started"
                         => pc' \notin {"spawned", "emitStarted"}
  BY Zenon DEF LogInv
<1>2. CASE i \in DOMAIN log
  BY <1>1, <1>2 DEF LogInv
<1>3. CASE i = n
  BY <1>1, <1>3 DEF TypeOK
<1> QED
  BY <1>1, <1>2, <1>3

(* The only writers of the log: the run loop, the readers, the waiter.         *)
LEMMA LogWriters ==
    ASSUME [Next]_vars
    PROVE  \/ log' = log
           \/ EmitStarted /\ WriteOK("started", 0)
           \/ \E f \in Fds : ReadLine(f) /\ WriteOK("output", f)
           \/ WaiterEmitExited /\ WriteOK("exited", status)
<1> USE DEF loopVars, callVars, fieldVars, taskVars, pipeVars
<1>1. CASE RunLoop
  BY <1>1, Zenon DEF RunLoop, Spawn, SpawnFail, Publish, EmitStarted,
    EmitStartedFail, Notify, NotifyFail, SelectDone, SelectEventError,
    SelectRestart, SelectCancel, RestartDone, TerminateDone, GraceTimeout, CloseIO
<1>2. ASSUME NEW f \in Fds, ReadLine(f) \/ ReadEnd(f)
      PROVE  log' = log \/ (ReadLine(f) /\ WriteOK("output", f))
  BY <1>2, Zenon DEF ReadLine, ReadEnd, ReportEventError
<1>3. CASE Waiter
  BY <1>3, Zenon DEF Waiter, WaiterReap, WaiterPublish, WaiterEmitExited,
    WaiterClose, ReportEventError
<1>4. ASSUME NEW c \in Calls, Handler(c) PROVE log' = log
  BY <1>4, Zenon DEF Handler, KillLookup, KillSend, RestartCheck, RestartSend
<1>5. CASE Task
  BY <1>5, Zenon DEF Task, TaskWrite, Fork, Detach, ProcessExit, LeaderExit,
    taskEnvUnchanged
<1>6. CASE Cancel \/ Terminated \/ UNCHANGED vars
  BY <1>6, Zenon DEF Cancel, Terminated, vars
<1> QED
  BY <1>1, <1>2, <1>3, <1>4, <1>5, <1>6, Zenon DEF Next

(* Each step keeps the log behind the goroutines that write it.              *)
LEMMA LogStep == TypeOK /\ ControlInv /\ LogInv /\ [Next]_vars => LogInv'
<1>0. SUFFICES ASSUME TypeOK, ControlInv, LogInv, [Next]_vars PROVE LogInv'
  OBVIOUS
<1>t. inc \in Nat /\ status \in Nat /\ (\A f \in Fds : f \in Nat)
      /\ \A i \in DOMAIN log : log[i].inc \in Nat
  <2>1. inc \in Nat /\ log \in Seq(Events)
    BY <1>0 DEF TypeOK
  <2>a. \A i \in DOMAIN log : log[i] \in Events
    BY <2>1
  <2>2. \A i \in DOMAIN log : log[i].inc \in Nat
    BY <2>a DEF Events
  <2>3. status \in Nat
    BY <1>0, CodesAreNat DEF TypeOK
  <2> QED
    BY <2>1, <2>2, <2>3, HostAssumption DEF HostAssumption
<1> USE DEF LogInv, loopVars, callVars, fieldVars, taskVars, pipeVars
<1>1. CASE Spawn
  BY <1>1, <1>0, <1>t DEF Spawn
<1>2. CASE SpawnFail
  BY <1>2, <1>0, <1>t DEF SpawnFail
<1>3. CASE Publish
  BY <1>3, <1>0, <1>t DEF Publish, ControlInv
<1>4. CASE EmitStarted
  <2>1. WriteOK("started", 0) /\ inc' = inc /\ waiter' = waiter /\ pc' = "notify"
    BY <1>4, Zenon DEF EmitStarted
  <2> HIDE DEF LogInv
  <2> QED
    BY <1>0, <2>1, WriteKeepsLogInv
<1>5. CASE EmitStartedFail
  BY <1>5, <1>0, <1>t DEF EmitStartedFail, Terminate, GracefulKill
<1>6. CASE Notify
  BY <1>6, <1>0, <1>t DEF Notify
<1>7. CASE NotifyFail
  BY <1>7, <1>0, <1>t DEF NotifyFail, Terminate, GracefulKill
<1>8. CASE SelectDone
  BY <1>8, <1>0, <1>t DEF SelectDone
<1>9. CASE SelectEventError
  BY <1>9, <1>0, <1>t DEF SelectEventError, Terminate, GracefulKill
<1>10. CASE SelectRestart
  BY <1>10, <1>0, <1>t DEF SelectRestart, KillTask, SigKill
<1>11. CASE SelectCancel
  BY <1>11, <1>0, <1>t DEF SelectCancel, Terminate, GracefulKill
<1>12. CASE RestartDone
  BY <1>12, <1>0, <1>t DEF RestartDone
<1>13. CASE TerminateDone
  BY <1>13, <1>0, <1>t DEF TerminateDone
<1>14. CASE GraceTimeout
  BY <1>14, <1>0, <1>t DEF GraceTimeout, KillTask, SigKill
<1>14a. CASE CloseIO
  BY <1>14a, <1>0, <1>t DEF CloseIO, closePipes
<1>15. ASSUME NEW f \in Fds, ReadLine(f) PROVE LogInv'
  <2>1. inc' = inc /\ waiter' = waiter /\ pc' = pc
        /\ (WriteOK("output", f) \/ log' = log)
    BY <1>15, Zenon DEF ReadLine, ReportEventError
  <2>2. CASE log' = log
    BY <1>0, <2>1, <2>2
  <2>3. CASE WriteOK("output", f)
    <3> HIDE DEF LogInv
    <3> QED
      BY <1>0, <1>t, <2>1, <2>3, WriteKeepsLogInv
  <2> QED
    BY <2>1, <2>2, <2>3
<1>16. ASSUME NEW f \in Fds, ReadEnd(f) PROVE LogInv'
  BY <1>16, <1>0, <1>t DEF ReadEnd
<1>17. CASE WaiterReap
  BY <1>17, <1>0, <1>t DEF WaiterReap
<1>18. CASE WaiterPublish
  BY <1>18, <1>0, <1>t DEF WaiterPublish, OutputDrained
<1>19. CASE WaiterEmitExited
  <2>1. inc' = inc /\ waiter = "emit" /\ waiter' = "close" /\ pc' = pc
        /\ (WriteOK("exited", status) \/ log' = log)
    BY <1>19, Zenon DEF WaiterEmitExited, ReportEventError
  <2>2. CASE log' = log
    BY <1>0, <2>1, <2>2
  <2>3. CASE WriteOK("exited", status)
    <3> HIDE DEF LogInv
    <3> QED
      BY <1>0, <1>t, <2>1, <2>3, WriteKeepsLogInv
  <2> QED
    BY <2>1, <2>2, <2>3
<1>20. CASE WaiterClose
  BY <1>20, <1>0, <1>t DEF WaiterClose
<1>21. ASSUME NEW c \in Calls, KillLookup(c) PROVE LogInv'
  BY <1>21, <1>0, <1>t DEF KillLookup, Reply
<1>22. ASSUME NEW c \in Calls, KillSend(c) PROVE LogInv'
  BY <1>22, <1>0, <1>t DEF KillSend, Reply, SigKill
<1>23. ASSUME NEW c \in Calls, RestartCheck(c) PROVE LogInv'
  BY <1>23, <1>0, <1>t DEF RestartCheck, Reply
<1>24. ASSUME NEW c \in Calls, RestartSend(c) PROVE LogInv'
  BY <1>24, <1>0, <1>t DEF RestartSend, Reply
<1>25. ASSUME NEW p \in Procs, NEW f \in Fds, TaskWrite(p, f) PROVE LogInv'
  BY <1>25, <1>0, <1>t DEF TaskWrite, taskEnvUnchanged
<1>26. ASSUME NEW p \in Procs, Fork(p) PROVE LogInv'
  BY <1>26, <1>0, <1>t DEF Fork, taskEnvUnchanged
<1>27. ASSUME NEW p \in Procs, Detach(p) PROVE LogInv'
  BY <1>27, <1>0, <1>t DEF Detach, taskEnvUnchanged
<1>28. ASSUME NEW p \in Procs, ProcessExit(p) PROVE LogInv'
  BY <1>28, <1>0, <1>t DEF ProcessExit, taskEnvUnchanged
<1>29. ASSUME NEW code \in ExitCodes \cup {TermCode}, LeaderExit(code) PROVE LogInv'
  BY <1>29, <1>0, <1>t DEF LeaderExit, taskEnvUnchanged
<1>30. CASE Cancel
  BY <1>30, <1>0, <1>t DEF Cancel
<1>31. CASE UNCHANGED vars
  BY <1>31, <1>0, <1>t DEF vars
<1> QED
  BY <1>0, <1>1, <1>2, <1>3, <1>4, <1>5, <1>6, <1>7, <1>8, <1>9, <1>10,
     <1>11, <1>12, <1>13, <1>14, <1>14a, <1>15, <1>16, <1>17, <1>18, <1>19, <1>20,
     <1>21, <1>22, <1>23, <1>24, <1>25, <1>26, <1>27, <1>28, <1>29, <1>30,
     <1>31
     DEF Next, RunLoop, Waiter, Handler, Task, Terminated

(* The log never runs ahead of the goroutines that write it.                 *)
LEMMA LogCorrect == Spec => []LogInv
<1>1. Init => LogInv
  BY DEF Init, LogInv
<1> QED
  BY <1>1, LogStep, TypeCorrect, ControlCorrect, PTL DEF Spec

(* Each writer appends where the order of the log allows its record.         *)
LEMMA OrderStep ==
    TypeOK /\ ControlInv /\ LogInv /\ IncarnationsInOrder /\ [Next]_vars
        => IncarnationsInOrder'
<1>0. SUFFICES ASSUME TypeOK, ControlInv, LogInv, IncarnationsInOrder, [Next]_vars
               PROVE  IncarnationsInOrder'
  OBVIOUS
<1>t. status \in Nat /\ \A f \in Fds : f \in Nat
  BY <1>0, CodesAreNat, HostAssumption DEF TypeOK, HostAssumption
<1>1. CASE log' = log
  BY <1>0, <1>1 DEF IncarnationsInOrder
<1>2. CASE EmitStarted /\ WriteOK("started", 0)
  <2>1. pc = "emitStarted"
    BY <1>2 DEF EmitStarted
  <2>2. \A i \in DOMAIN log : log[i].inc = inc => log[i].ev # "started"
    BY <1>0, <2>1 DEF LogInv
  <2> QED
    BY <1>0, <1>2, <2>2, WriteKeepsOrder
<1>3. ASSUME NEW f \in Fds, ReadLine(f), WriteOK("output", f)
      PROVE  IncarnationsInOrder'
  <2>1. waiter \notin {"close", "done"}
    BY <1>0, <1>3 DEF ControlInv, Ended, ReadLine
  <2>2. \A i \in DOMAIN log : log[i].inc = inc => log[i].ev # "exited"
    BY <1>0, <2>1 DEF LogInv
  <2> QED
    BY <1>0, <1>t, <1>3, <2>2, WriteKeepsOrder
<1>4. CASE WaiterEmitExited /\ WriteOK("exited", status)
  <2>1. waiter = "emit"
    BY <1>4 DEF WaiterEmitExited
  <2>2. \A i \in DOMAIN log : log[i].inc = inc => log[i].ev # "exited"
    BY <1>0, <2>1 DEF LogInv
  <2> QED
    BY <1>0, <1>t, <1>4, <2>2, WriteKeepsOrder
<1> QED
  BY <1>0, <1>1, <1>2, <1>3, <1>4, LogWriters

(* The records of two incarnations never interleave, and an exited record     *)
(* comes after all output of its incarnation.                                *)
THEOREM IncarnationsInOrderHolds == Spec => []IncarnationsInOrder
<1>1. Init => IncarnationsInOrder
  BY DEF Init, IncarnationsInOrder
<1> QED
  BY <1>1, OrderStep, TypeCorrect, ControlCorrect, LogCorrect, PTL DEF Spec

-----------------------------------------------------------------------------
(* A step that is neither a spawn nor a step of a Kill request neither revives *)
(* a leader nor touches what a Kill request looked up.                       *)
LEMMA KillFrame ==
    ASSUME TypeOK, [Next]_vars
    PROVE  \/ Spawn
           \/ \E c \in Calls : KillLookup(c) \/ KillSend(c)
           \/ /\ inc' = inc /\ target' = target
              /\ "leader" \in alive' => "leader" \in alive
              /\ \A c \in Calls : call'[c] = "sent" => call[c] = "sent"
<1> USE DEF loopVars, callVars, fieldVars, taskVars, pipeVars
<1>1. CASE RunLoop
  BY <1>1 DEF RunLoop, SpawnFail, Publish, EmitStarted,
    EmitStartedFail, Notify, NotifyFail, SelectDone, SelectEventError,
    SelectRestart, SelectCancel, RestartDone, TerminateDone, GraceTimeout, CloseIO,
    Terminate, GracefulKill, KillTask, SigKill
<1>2. ASSUME NEW f \in Fds, ReadLine(f) \/ ReadEnd(f)
      PROVE  UNCHANGED <<inc, target, alive, call>>
  BY <1>2, Zenon DEF ReadLine, ReadEnd
<1>3. CASE Waiter
  BY <1>3 DEF Waiter, WaiterReap, WaiterPublish, WaiterEmitExited, WaiterClose
<1>4. ASSUME NEW c \in Calls, RestartCheck(c) \/ RestartSend(c)
      PROVE  /\ UNCHANGED <<inc, target, alive>>
             /\ \A d \in Calls : call'[d] = "sent" => call[d] = "sent"
  BY <1>4 DEF RestartCheck, RestartSend, Reply, TypeOK
<1>5. CASE Task
  BY <1>5 DEF Task, TaskWrite, Fork, Detach, ProcessExit, LeaderExit,
    taskEnvUnchanged
<1>6. CASE Cancel \/ Terminated \/ UNCHANGED vars
  BY <1>6, Zenon DEF Cancel, Terminated, vars
<1> QED
  BY <1>1, <1>2, <1>3, <1>4, <1>5, <1>6, Zenon DEF Next, Handler

(* A request that was answered saw its incarnation's leader die, and an       *)
(* incarnation spawned later has a number no request has looked up.           *)
LEMMA KillStep ==
    TypeOK /\ ControlInv /\ TargetInv /\ KillIsEffective /\ [Next]_vars
        => TargetInv' /\ KillIsEffective'
<1>0. SUFFICES ASSUME TypeOK, ControlInv, TargetInv, KillIsEffective, [Next]_vars
               PROVE  TargetInv' /\ KillIsEffective'
  OBVIOUS
<1>t. inc \in Nat /\ target \in [Calls -> Nat] /\ call \in [Calls -> CallStates]
  BY <1>0 DEF TypeOK
<1>1. CASE Spawn
  BY <1>0, <1>1, <1>t DEF Spawn, callVars, TargetInv, KillIsEffective
<1>2. ASSUME NEW c \in Calls, KillLookup(c)
      PROVE  TargetInv' /\ KillIsEffective'
  <2>1. inc' = inc /\ alive' = alive /\ proc \in {0, inc}
    BY <1>0, <1>2 DEF KillLookup, taskVars, ControlInv
  <2>2. \/ target' = target /\ call' = [call EXCEPT ![c] = "refused"]
        \/ /\ call' = [call EXCEPT ![c] = "killing"]
           /\ target' = [target EXCEPT ![c] = proc]
    BY <1>2, Zenon DEF KillLookup, Reply
  <2> QED
    BY <1>0, <1>t, <2>1, <2>2 DEF TargetInv, KillIsEffective
<1>3. ASSUME NEW c \in Calls, KillSend(c)
      PROVE  TargetInv' /\ KillIsEffective'
  <2>1. inc' = inc /\ target' = target /\ call' = [call EXCEPT ![c] = "sent"]
    BY <1>3, Zenon DEF KillSend, Reply
  <2>2. \/ target[c] = inc /\ "leader" \notin alive'
        \/ target[c] # inc /\ alive' = alive
    BY <1>3 DEF KillSend, SigKill
  <2>3. "leader" \in alive' => "leader" \in alive
    BY <2>2
  <2> QED
    BY <1>0, <1>t, <2>1, <2>2, <2>3 DEF TargetInv, KillIsEffective
<1>4. CASE /\ inc' = inc /\ target' = target
           /\ "leader" \in alive' => "leader" \in alive
           /\ \A c \in Calls : call'[c] = "sent" => call[c] = "sent"
  BY <1>0, <1>4, Zenon DEF TargetInv, KillIsEffective
<1> QED
  BY <1>0, <1>1, <1>2, <1>3, <1>4, KillFrame, Zenon

(* A Kill request answered without error has killed the leader it looked up,   *)
(* however the request's two steps interleave with a restart.                *)
THEOREM KillIsEffectiveHolds == Spec => []KillIsEffective
<1>1. Init => TargetInv /\ KillIsEffective
  BY DEF Init, TargetInv, KillIsEffective
<1> QED
  BY <1>1, KillStep, TypeCorrect, ControlCorrect, PTL DEF Spec
-----------------------------------------------------------------------------
(* A record that is in the log stays there.                                  *)
LEMMA LogGrows ==
    ASSUME TypeOK, [Next]_vars
    PROVE  \A r : InLog(r) => InLog(r)'
<1>1. ASSUME NEW ev \in {"started", "output", "exited"}, NEW val \in Nat,
             WriteOK(ev, val)
      PROVE  \A r : InLog(r) => InLog(r)'
  <2>1. /\ Len(log) \in Nat /\ DOMAIN log = 1..Len(log)
        /\ DOMAIN log' = 1..(Len(log) + 1)
        /\ \A i \in DOMAIN log : log'[i] = log[i]
    BY <1>1, WriteAppends
  <2> QED
    BY <2>1 DEF InLog
<1>2. status \in Nat /\ \A f \in Fds : f \in Nat
  BY CodesAreNat, HostAssumption DEF TypeOK, HostAssumption
<1>3. CASE log' = log
  BY <1>3, Zenon DEF InLog
<1> QED
  BY <1>1, <1>2, <1>3, LogWriters, SMT

(* A written record is in the log.                                           *)
LEMMA WriteIsInLog ==
    ASSUME TypeOK, NEW ev \in {"started", "output", "exited"}, NEW val \in Nat,
           WriteOK(ev, val), inc' = inc
    PROVE  InLog(Record(ev, val))'
<1>1. /\ Len(log) \in Nat /\ DOMAIN log' = 1..(Len(log) + 1)
      /\ log'[Len(log) + 1] = [ev |-> ev, inc |-> inc, val |-> val]
  BY WriteAppends
<1> QED
  BY <1>1 DEF InLog, Record

(* Each step keeps account of what was written and what failed.              *)
LEMMA RecordStep ==
    TypeOK /\ ControlInv /\ RecordInv /\ [Next]_vars => RecordInv'
<1>0. SUFFICES ASSUME TypeOK, ControlInv, RecordInv, [Next]_vars PROVE RecordInv'
  OBVIOUS
<1>s. inc' = inc /\ InLog(Record("started", 0)) => InLog(Record("started", 0))'
  BY <1>0, LogGrows DEF InLog, Record
<1>e. inc' = inc /\ status' = status /\ InLog(Record("exited", status))
        => InLog(Record("exited", status))'
  BY <1>0, LogGrows DEF InLog, Record
<1>d. waiter \in {"close", "done"} => "leader" \notin alive
  BY <1>0 DEF ControlInv, Ended
<1> USE DEF RecordInv, Waiting, loopVars, callVars, fieldVars, taskVars, pipeVars
<1>1. CASE Spawn
  BY <1>1, <1>0, <1>s, <1>e, <1>d DEF Spawn
<1>2. CASE SpawnFail
  BY <1>2, <1>0, <1>s, <1>e, <1>d DEF SpawnFail
<1>3. CASE Publish
  BY <1>3, <1>0, <1>s, <1>e, <1>d DEF Publish, ControlInv
<1>4. CASE EmitStarted
  <2>1. WriteOK("started", 0) /\ inc' = inc
    BY <1>4, Zenon DEF EmitStarted
  <2>2. InLog(Record("started", 0))'
    BY <1>0, <2>1, WriteIsInLog
  <2> QED
    BY <1>0, <1>s, <1>e, <1>4, <2>2 DEF EmitStarted, WriteOK
<1>5. CASE EmitStartedFail
  BY <1>5, <1>0, <1>s, <1>e, <1>d DEF EmitStartedFail, Terminate, GracefulKill
<1>6. CASE Notify
  BY <1>6, <1>0, <1>s, <1>e, <1>d DEF Notify
<1>7. CASE NotifyFail
  BY <1>7, <1>0, <1>s, <1>e, <1>d DEF NotifyFail, Terminate, GracefulKill
<1>8. CASE SelectDone
  BY <1>8, <1>0, <1>s, <1>e, <1>d DEF SelectDone, ControlInv
<1>9. CASE SelectEventError
  BY <1>9, <1>0, <1>s, <1>e, <1>d DEF SelectEventError, Terminate, GracefulKill
<1>10. CASE SelectRestart
  BY <1>10, <1>0, <1>s, <1>e, <1>d DEF SelectRestart, KillTask, SigKill
<1>11. CASE SelectCancel
  BY <1>11, <1>0, <1>s, <1>e, <1>d DEF SelectCancel, Terminate, GracefulKill
<1>12. CASE RestartDone
  BY <1>12, <1>0, <1>s, <1>e, <1>d DEF RestartDone
<1>13. CASE TerminateDone
  BY <1>13, <1>0, <1>s, <1>e, <1>d DEF TerminateDone
<1>14. CASE GraceTimeout
  BY <1>14, <1>0, <1>s, <1>e, <1>d DEF GraceTimeout, KillTask, SigKill
<1>14a. CASE CloseIO
  BY <1>14a, <1>0, <1>s, <1>e, <1>d DEF CloseIO, closePipes
<1>15. ASSUME NEW f \in Fds, ReadLine(f) PROVE RecordInv'
  <2>1. UNCHANGED <<inc, status, waiter, pc, result>>
    BY <1>15, Zenon DEF ReadLine
  <2>2. CASE UNCHANGED <<lost, eventErrors>>
    BY <1>0, <1>s, <1>e, <2>1, <2>2
  <2>3. CASE eventErrors' = TRUE
    <3>1. result # "nil" /\ pc # "spawned"
      BY <1>0, <1>15 DEF ReadLine, ControlInv, Ended
    <3> QED
      BY <1>0, <1>s, <1>e, <2>1, <2>3, <3>1
  <2> QED
    BY <1>15, <2>2, <2>3, Zenon DEF ReadLine, WriteOK, ReportEventError
<1>16. ASSUME NEW f \in Fds, ReadEnd(f) PROVE RecordInv'
  BY <1>16, <1>0, <1>s, <1>e, <1>d DEF ReadEnd
<1>17. CASE WaiterReap
  BY <1>17, <1>0, <1>s, <1>e, <1>d DEF WaiterReap
<1>18. CASE WaiterPublish
  BY <1>18, <1>0, <1>s, <1>e, <1>d DEF WaiterPublish, OutputDrained
<1>19. CASE WaiterEmitExited
  <2>1. inc' = inc /\ status' = status /\ waiter = "emit" /\ waiter' = "close"
        /\ UNCHANGED <<pc, result, lost>>
    BY <1>19, Zenon DEF WaiterEmitExited
  <2>2. CASE WriteOK("exited", status)
    <3>1. status \in Nat /\ eventErrors' = eventErrors
      BY <1>0, <2>2, CodesAreNat DEF TypeOK, WriteOK
    <3>2. InLog(Record("exited", status))'
      BY <1>0, <2>1, <2>2, <3>1, WriteIsInLog DEF InLog, Record
    <3> QED
      BY <1>0, <1>s, <1>e, <2>1, <3>1, <3>2
  <2>3. CASE ReportEventError
    <3>1. pc # "spawned"
      BY <1>0, <2>1 DEF ControlInv
    <3> QED
      BY <1>0, <1>s, <1>e, <2>1, <2>3, <3>1 DEF ReportEventError
  <2> QED
    BY <1>19, <2>2, <2>3, Zenon DEF WaiterEmitExited
<1>20. CASE WaiterClose
  BY <1>20, <1>0, <1>s, <1>e, <1>d DEF WaiterClose, ControlInv
<1>21. ASSUME NEW c \in Calls, KillLookup(c) PROVE RecordInv'
  BY <1>21, <1>0, <1>s, <1>e, <1>d DEF KillLookup, Reply
<1>22. ASSUME NEW c \in Calls, KillSend(c) PROVE RecordInv'
  BY <1>22, <1>0, <1>s, <1>e, <1>d DEF KillSend, Reply, SigKill
<1>23. ASSUME NEW c \in Calls, RestartCheck(c) PROVE RecordInv'
  BY <1>23, <1>0, <1>s, <1>e, <1>d DEF RestartCheck, Reply
<1>24. ASSUME NEW c \in Calls, RestartSend(c) PROVE RecordInv'
  BY <1>24, <1>0, <1>s, <1>e, <1>d DEF RestartSend, Reply
<1>25. ASSUME NEW p \in Procs, NEW f \in Fds, TaskWrite(p, f) PROVE RecordInv'
  BY <1>25, <1>0, <1>s, <1>e, <1>d DEF TaskWrite, taskEnvUnchanged
<1>26. ASSUME NEW p \in Procs, Fork(p) PROVE RecordInv'
  BY <1>26, <1>0, <1>s, <1>e, <1>d DEF Fork, taskEnvUnchanged
<1>27. ASSUME NEW p \in Procs, Detach(p) PROVE RecordInv'
  BY <1>27, <1>0, <1>s, <1>e, <1>d DEF Detach, taskEnvUnchanged
<1>28. ASSUME NEW p \in Procs, ProcessExit(p) PROVE RecordInv'
  BY <1>28, <1>0, <1>s, <1>e, <1>d DEF ProcessExit, taskEnvUnchanged
<1>29. ASSUME NEW code \in ExitCodes \cup {TermCode}, LeaderExit(code)
       PROVE RecordInv'
  BY <1>29, <1>0, <1>s, <1>e, <1>d DEF LeaderExit, taskEnvUnchanged
<1>30. CASE Cancel
  BY <1>30, <1>0, <1>s, <1>e, <1>d DEF Cancel
<1>31. CASE UNCHANGED vars
  BY <1>31, <1>0, <1>s, <1>e, <1>d DEF vars
<1> QED
  BY <1>0, <1>1, <1>2, <1>3, <1>4, <1>5, <1>6, <1>7, <1>8, <1>9, <1>10,
     <1>11, <1>12, <1>13, <1>14, <1>14a, <1>15, <1>16, <1>17, <1>18, <1>19, <1>20,
     <1>21, <1>22, <1>23, <1>24, <1>25, <1>26, <1>27, <1>28, <1>29, <1>30,
     <1>31
     DEF Next, RunLoop, Waiter, Handler, Task, Terminated

(* RunTask returns nil only for an incarnation whose started record, exited    *)
(* record and every line of output are in the log.                          *)
THEOREM SuccessMeansRecordedHolds == Spec => []SuccessMeansRecorded
<1>1. Init => RecordInv
  BY DEF Init, RecordInv, Waiting
<1>2. ControlInv /\ RecordInv => SuccessMeansRecorded
  BY DEF ControlInv, Ended, RecordInv, InLog, SuccessMeansRecorded
<1> QED
  BY <1>1, <1>2, RecordStep, TypeCorrect, ControlCorrect, PTL DEF Spec
-----------------------------------------------------------------------------
(* The records counted by Logged are finitely many.                          *)
LEMMA LoggedType ==
    ASSUME TypeOK, NEW f \in Fds
    PROVE  /\ IsFiniteSet({i \in DOMAIN log : log[i] = Record("output", f)})
           /\ Logged(f) \in Nat
<1>1. Len(log) \in Nat /\ DOMAIN log = 1..Len(log)
  BY DEF TypeOK
<1>2. IsFiniteSet(1..Len(log))
  BY <1>1, FS_Interval
<1>3. IsFiniteSet({i \in DOMAIN log : log[i] = Record("output", f)})
  BY <1>1, <1>2, FS_Subset, Zenon
<1> QED
  BY <1>3, FS_CardinalityType DEF Logged

(* One record more is one line more of the pipe it came from, and of no other. *)
LEMMA LoggedAppend ==
    ASSUME TypeOK, NEW ev \in {"started", "output", "exited"}, NEW val \in Nat,
           WriteOK(ev, val), inc' = inc, NEW f \in Fds
    PROVE  Logged(f)' = IF ev = "output" /\ val = f THEN Logged(f) + 1
                                                    ELSE Logged(f)
<1> DEFINE S == {i \in DOMAIN log : log[i] = Record("output", f)}
           T == {i \in DOMAIN log' : log'[i] = Record("output", f)}
<1>1. /\ Len(log) \in Nat /\ DOMAIN log = 1..Len(log)
      /\ DOMAIN log' = 1..(Len(log) + 1)
      /\ \A i \in DOMAIN log : log'[i] = log[i]
      /\ log'[Len(log) + 1] = [ev |-> ev, inc |-> inc, val |-> val]
  BY WriteAppends
<1>2. Logged(f) = Cardinality(S) /\ Logged(f)' = Cardinality(T)
  BY DEF Logged, Record
<1>3. CASE ev = "output" /\ val = f
  <2>1. T = S \cup {Len(log) + 1}
    BY <1>1, <1>3 DEF Record
  <2>2. Len(log) + 1 \notin S
    BY <1>1
  <2>3. IsFiniteSet(S)
    BY LoggedType
  <2>4. Cardinality(T) = Cardinality(S) + 1
    BY <2>1, <2>2, <2>3, FS_AddElement
  <2> QED
    BY <1>2, <1>3, <2>4
<1>4. CASE ~(ev = "output" /\ val = f)
  <2>1. T = S
    BY <1>1, <1>4 DEF Record
  <2> QED
    BY <1>2, <1>4, <2>1
<1> QED
  BY <1>3, <1>4

(* Lines are counted once, wherever they are.                                *)
LEMMA CountStep ==
    TypeOK /\ LogInv /\ CountInv /\ [Next]_vars => CountInv'
<1>0. SUFFICES ASSUME TypeOK, LogInv, CountInv, [Next]_vars, NEW f \in Fds
               PROVE  (Logged(f) + lost[f] + pipe[f] = written[f])'
  BY DEF CountInv
<1>t. /\ Logged(f) \in Nat /\ status \in Nat /\ \A g \in Fds : g \in Nat
      /\ pipe \in [Fds -> Nat] /\ written \in [Fds -> Nat] /\ lost \in [Fds -> Nat]
      /\ Logged(f) + lost[f] + pipe[f] = written[f]
  <2>1. Logged(f) \in Nat
    BY <1>0, LoggedType
  <2>2. Logged(f) + lost[f] + pipe[f] = written[f]
    BY <1>0, Zenon DEF CountInv
  <2> QED
    BY <1>0, <2>1, <2>2, CodesAreNat, HostAssumption DEF TypeOK, HostAssumption
<1> USE DEF loopVars, callVars, fieldVars, taskVars, pipeVars
<1>1. CASE Spawn
  <2>1. lost'[f] = 0 /\ pipe'[f] = 0 /\ written'[f] = 0 /\ log' = log
        /\ inc' = inc + 1
    BY <1>1 DEF Spawn
  <2>2. \A i \in DOMAIN log : log[i].inc # inc + 1
    <3>1. inc \in Nat /\ \A i \in DOMAIN log : log[i] \in Events /\ log[i].inc <= inc
      BY <1>0 DEF TypeOK, LogInv
    <3> QED
      BY <3>1 DEF Events
  <2>3. {i \in DOMAIN log' : log'[i] = Record("output", f)'} = {}
    BY <2>1, <2>2 DEF Record
  <2>4. Logged(f)' = 0
    BY <2>3, FS_EmptySet DEF Logged
  <2> QED
    BY <2>1, <2>4
<1>2. ASSUME NEW g \in Fds, ReadLine(g)
      PROVE  (Logged(f) + lost[f] + pipe[f] = written[f])'
  <2>1. pipe[g] > 0 /\ pipe' = [pipe EXCEPT ![g] = @ - 1]
        /\ written' = written /\ inc' = inc
    BY <1>2, Zenon DEF ReadLine
  <2>2. CASE WriteOK("output", g) /\ lost' = lost
    <3>1. Logged(f)' = IF g = f THEN Logged(f) + 1 ELSE Logged(f)
      BY <1>0, <1>t, <2>1, <2>2, LoggedAppend
    <3> QED
      BY <1>t, <2>1, <2>2, <3>1
  <2>3. CASE log' = log /\ lost' = [lost EXCEPT ![g] = @ + 1]
    <3>1. Logged(f)' = Logged(f)
      BY <2>1, <2>3, Zenon DEF Logged, Record
    <3> QED
      BY <1>t, <2>1, <2>3, <3>1
  <2> QED
    BY <1>2, <2>2, <2>3, Zenon DEF ReadLine, ReportEventError
<1>3. ASSUME NEW p \in Procs, NEW g \in Fds, TaskWrite(p, g)
      PROVE  (Logged(f) + lost[f] + pipe[f] = written[f])'
  <2>1. Logged(f)' = Logged(f)
    BY <1>3, Zenon DEF TaskWrite, taskEnvUnchanged, Logged, Record
  <2> QED
    BY <1>t, <1>3, <2>1 DEF TaskWrite
<1>4. ASSUME UNCHANGED <<pipe, written, lost>>, Logged(f)' = Logged(f)
      PROVE  (Logged(f) + lost[f] + pipe[f] = written[f])'
  BY <1>t, <1>4
<1>5. CASE EmitStarted \/ WaiterEmitExited
  <2>1. UNCHANGED <<pipe, written, lost, inc>>
        /\ (log' = log \/ WriteOK("started", 0) \/ WriteOK("exited", status))
    BY <1>5, Zenon DEF EmitStarted, WaiterEmitExited, ReportEventError
  <2>2. CASE log' = log
    BY <1>4, <2>1, <2>2, Zenon DEF Logged, Record
  <2>3. CASE WriteOK("started", 0) \/ WriteOK("exited", status)
    <3>1. Logged(f)' = Logged(f)
      BY <1>0, <1>t, <2>1, <2>3, LoggedAppend
    <3> QED
      BY <1>4, <2>1, <3>1, Zenon
  <2> QED
    BY <2>1, <2>2, <2>3
<1>6. ASSUME UNCHANGED <<pipe, written, lost, log, inc>>
      PROVE  (Logged(f) + lost[f] + pipe[f] = written[f])'
  BY <1>4, <1>6, Zenon DEF Logged, Record
<1>7. CASE RunLoop
  <2>1. Spawn \/ EmitStarted \/ UNCHANGED <<pipe, written, lost, log, inc>>
    BY <1>7, Zenon DEF RunLoop, SpawnFail, Publish, EmitStartedFail,
      Notify, NotifyFail, SelectDone, SelectEventError, SelectRestart,
      SelectCancel, RestartDone, TerminateDone, GraceTimeout, CloseIO, Terminate,
      closePipes
  <2> QED
    BY <1>1, <1>5, <1>6, <2>1, Zenon
<1>8. ASSUME NEW g \in Fds, ReadEnd(g)
      PROVE  UNCHANGED <<pipe, written, lost, log, inc>>
  BY <1>8, Zenon DEF ReadEnd
<1>9. CASE Waiter
  <2>1. WaiterEmitExited \/ UNCHANGED <<pipe, written, lost, log, inc>>
    BY <1>9, Zenon DEF Waiter, WaiterReap, WaiterPublish, WaiterClose
  <2> QED
    BY <1>5, <1>6, <2>1, Zenon
<1>10. ASSUME NEW c \in Calls, Handler(c)
       PROVE  UNCHANGED <<pipe, written, lost, log, inc>>
  BY <1>10, Zenon DEF Handler, KillLookup, KillSend, RestartCheck, RestartSend
<1>11. CASE Task
  <2>1. \/ \E p \in Procs, g \in Fds : TaskWrite(p, g)
        \/ UNCHANGED <<pipe, written, lost, log, inc>>
    BY <1>11, Zenon DEF Task, Fork, Detach, ProcessExit, LeaderExit,
      taskEnvUnchanged
  <2> QED
    BY <1>3, <1>6, <2>1, Zenon
<1>12. CASE Cancel \/ Terminated \/ UNCHANGED vars
  BY <1>6, <1>12, Zenon DEF Cancel, Terminated, vars
<1> QED
  BY <1>0, <1>2, <1>6, <1>7, <1>8, <1>9, <1>10, <1>11, <1>12, Zenon DEF Next

(* A drained pipe stays drained as long as its read end is open.             *)
LEMMA DrainStep ==
    TypeOK /\ ControlInv /\ DrainInv /\ [Next]_vars => DrainInv'
<1>0. SUFFICES ASSUME TypeOK, ControlInv, DrainInv, [Next]_vars PROVE DrainInv'
  OBVIOUS
<1>t. pipe \in [Fds -> Nat] /\ reader \in [Fds -> {"none", "reading", "done"}]
  BY <1>0 DEF TypeOK
<1> USE DEF DrainInv, loopVars, callVars, fieldVars, taskVars, pipeVars
<1>1. CASE Spawn \/ Publish
  BY <1>1, <1>t DEF Spawn, Publish
<1>2. CASE SelectRestart \/ GraceTimeout \/ CloseIO
  BY <1>0, <1>2 DEF SelectRestart, GraceTimeout, KillTask, SigKill, CloseIO, closePipes
<1>3. ASSUME UNCHANGED <<reader, readEnd, pipe, holding>> PROVE DrainInv'
  BY <1>0, <1>3
<1>4. CASE RunLoop
  <2>1. \/ Spawn \/ Publish \/ SelectRestart \/ GraceTimeout \/ CloseIO
        \/ UNCHANGED <<reader, readEnd, pipe, holding>>
    BY <1>4, Zenon DEF RunLoop, SpawnFail, EmitStarted, EmitStartedFail,
      Notify, NotifyFail, SelectDone, SelectEventError, SelectCancel,
      RestartDone, TerminateDone, Terminate, GracefulKill
  <2> QED
    BY <1>1, <1>2, <1>3, <2>1, Zenon
<1>5. ASSUME NEW f \in Fds, ReadLine(f) PROVE DrainInv'
  BY <1>0, <1>t, <1>5 DEF ReadLine
<1>6. ASSUME NEW f \in Fds, ReadEnd(f) PROVE DrainInv'
  BY <1>0, <1>t, <1>6 DEF ReadEnd
<1>7. CASE Waiter
  BY <1>3, <1>7, Zenon DEF Waiter, WaiterReap, WaiterPublish,
    WaiterEmitExited, WaiterClose
<1>8. ASSUME NEW c \in Calls, KillSend(c) PROVE DrainInv'
  BY <1>0, <1>8 DEF KillSend, SigKill
<1>9. ASSUME NEW c \in Calls, Handler(c) PROVE DrainInv'
  BY <1>3, <1>8, <1>9, Zenon DEF Handler, KillLookup, RestartCheck, RestartSend
<1>10. ASSUME NEW p \in Procs, NEW f \in Fds, TaskWrite(p, f) PROVE DrainInv'
  BY <1>0, <1>t, <1>10 DEF TaskWrite
<1>11. ASSUME NEW p \in Procs, Fork(p) \/ Detach(p) \/ ProcessExit(p)
       PROVE  DrainInv'
  BY <1>0, <1>11 DEF Fork, Detach, ProcessExit
<1>12. ASSUME NEW code \in ExitCodes \cup {TermCode}, LeaderExit(code)
       PROVE  DrainInv'
  BY <1>0, <1>12 DEF LeaderExit
<1>13. CASE Task
  BY <1>10, <1>11, <1>12, <1>13, Zenon DEF Task
<1>14. CASE Cancel \/ Terminated \/ UNCHANGED vars
  BY <1>3, <1>14, Zenon DEF Cancel, Terminated, vars
<1> QED
  BY <1>0, <1>4, <1>5, <1>6, <1>7, <1>9, <1>13, <1>14, Zenon DEF Next

(* The exit code is published only after all output of the task is accounted   *)
(* for, unless a stop or a restart closed the pipes.                         *)
THEOREM OutputCompleteHolds == Spec => []OutputComplete
<1>1. Init => CountInv /\ DrainInv
  <2>1. ASSUME Init, NEW f \in Fds PROVE Logged(f) = 0
    <3>1. {i \in DOMAIN log : log[i] = Record("output", f)} = {}
      BY <2>1 DEF Init
    <3> QED
      BY <3>1, FS_EmptySet DEF Logged
  <2>2. ASSUME Init PROVE CountInv
    <3>1. SUFFICES ASSUME NEW f \in Fds
                   PROVE  Logged(f) + lost[f] + pipe[f] = written[f]
      BY Zenon DEF CountInv
    <3>2. Logged(f) = 0 /\ lost[f] = 0 /\ pipe[f] = 0 /\ written[f] = 0
      BY <2>1, <2>2 DEF Init
    <3> QED
      BY <3>2
  <2> QED
    BY <2>2 DEF Init, DrainInv
<1>2. TypeOK /\ ControlInv /\ CountInv /\ DrainInv => OutputComplete
  <2>1. SUFFICES ASSUME TypeOK, ControlInv, CountInv, DrainInv, NEW f \in Fds,
                        waiter \in Ended, readEnd
                 PROVE  Logged(f) + lost[f] = written[f]
    BY DEF OutputComplete, Ended
  <2>2. pipe[f] = 0
    BY <2>1 DEF ControlInv, DrainInv
  <2>3. Logged(f) \in Nat /\ lost[f] \in Nat
    BY <2>1, LoggedType DEF TypeOK
  <2> QED
    BY <2>1, <2>2, <2>3 DEF CountInv
<1> QED
  BY <1>1, <1>2, CountStep, DrainStep, TypeCorrect, ControlCorrect, LogCorrect,
     PTL DEF Spec
=============================================================================
