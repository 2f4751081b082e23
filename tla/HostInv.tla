------------------------------- MODULE HostInv -------------------------------
(* The inductive invariant behind the safety properties of the pipe host.    *)
EXTENDS Host

Ended == {"emit", "close", "done"}     \* waiter states after its publication
Waiting == {"emitStarted", "notify", "select", "grace", "forceClose", "forced",
            "restartClose", "restartWait"}

(* The run loop, the waiter and the fields under h.mu agree: proc is set      *)
(* exactly while the waiter has not published, and the loop leaves an         *)
(* incarnation only after its waiter ended.                                 *)
ControlInv ==
    /\ proc = IF waiter \in {"wait", "drain"} THEN inc ELSE 0
    /\ running <=> waiter \in {"wait", "drain"}
    /\ waiter # "none" => inc > 0
    /\ done <=> waiter = "done"
    /\ pc \in {"start", "returned"} => waiter \in {"none", "done"}
    /\ pc = "spawned" => waiter = "none" /\ inc > 0
    /\ pc \in Waiting => waiter # "none"
    /\ waiter = "none" /\ pc # "spawned" => inc = 0 /\ alive = {}
    /\ waiter \in {"drain"} \cup Ended => "leader" \notin alive
    /\ waiter = "none" => \A f \in Fds : reader[f] = "none"
    /\ waiter \in Ended => \A f \in Fds : reader[f] = "done"
    /\ waiter \in Ended => exitCode = status
    /\ pc = "grace" /\ "leader" \in alive => termed

(* Every line of the incarnation is in the log, was reported lost, or is      *)
(* still in its pipe.                                                      *)
CountInv == \A f \in Fds : Logged(f) + lost[f] + pipe[f] = written[f]

(* A reader that saw EOF on an open read end left nothing behind, and nobody   *)
(* is left to write more.                                                   *)
DrainInv ==
    \A f \in Fds : reader[f] = "done" /\ readEnd => pipe[f] = 0 /\ holding = {}

(* The log only holds incarnations up to the current one, and of the current  *)
(* one an exited (started) record only once the waiter (the loop) wrote it.  *)
LogInv ==
    \A i \in DOMAIN log :
        /\ log[i].inc <= inc
        /\ log[i].inc = inc /\ log[i].ev = "exited" => waiter \in {"close", "done"}
        /\ log[i].inc = inc /\ log[i].ev = "started"
             => pc \notin {"spawned", "emitStarted"}

InLog(r) == \E i \in DOMAIN log : log[i] = r

(* Until an error is taken out of the channel, an empty channel means that    *)
(* nothing failed: what should be in the log is there.                      *)
RecordInv ==
    /\ pc \in {"start", "spawned"} \cup (Waiting \ {"grace", "forceClose", "forced"})
         => result = "none"
    /\ pc = "spawned" => ~eventErrors /\ \A f \in Fds : lost[f] = 0
    /\ pc \in {"notify", "select"} => InLog(Record("started", 0))
    /\ pc \in {"emitStarted", "notify", "select"} /\ ~eventErrors =>
         /\ \A f \in Fds : lost[f] = 0
         /\ waiter \in {"close", "done"} => InLog(Record("exited", status))
    /\ result = "nil" =>
         /\ pc = "returned" /\ waiter = "done"
         /\ InLog(Record("started", 0)) /\ InLog(Record("exited", status))
         /\ \A f \in Fds : lost[f] = 0

(* No request has looked up an incarnation that is still to come.             *)
TargetInv == \A c \in Calls : target[c] <= inc

IInv == /\ TypeOK /\ ControlInv /\ CountInv /\ DrainInv /\ LogInv /\ RecordInv /\ TargetInv
        /\ IncarnationsInOrder /\ SuccessMeansRecorded /\ KillIsEffective
=============================================================================
