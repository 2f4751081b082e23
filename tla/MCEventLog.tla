----------------------------- MODULE MCEventLog -----------------------------
(* A host with two goroutines that write, and a command that writes and       *)
(* follows one session in two kinds of event.                              *)
EXTENDS EventLog, TLC

CONSTANTS host, cmd, out, waiter, emit, fol

MCProcOf == out :> host @@ waiter :> host @@ emit :> cmd @@ fol :> cmd
Rec(session, event) == "session" :> session @@ "event" :> event
MCRecords == {Rec("s", "exited"), Rec("t", "exited")}
MCFilters == fol :> {<<"session", "s">>, <<"event", "exited">>, <<"event", "started">>}
=============================================================================
