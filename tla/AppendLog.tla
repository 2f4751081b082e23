------------------------------ MODULE AppendLog ------------------------------
(***************************************************************************)
(* What internal/journal promises of an event log (EventLog in types.go):    *)
(* a Write appends its record once, at some moment between the call and a    *)
(* successful return, and not at all if it returns an error; Follow yields    *)
(* every record that matches its filters once, in the order of the log.      *)
(***************************************************************************)
EXTENDS Integers, Sequences

CONSTANTS Writers, Followers,
          Records,            \* the records that may be written
          Matches(_, _)       \* whether a follower's filters select a record

VARIABLES log,                \* sequence of records
          call,               \* each writer's Write in progress, or NoCall
          pos                 \* index of the last record each follower got

logVars == <<log, call, pos>>

NoCall == [rec |-> <<>>, done |-> FALSE]

LogInit ==
    /\ log = <<>>
    /\ call = [w \in Writers |-> NoCall]
    /\ pos = [f \in Followers |-> 0]

Call(w, r) ==
    /\ call[w] = NoCall
    /\ call' = [call EXCEPT ![w] = [rec |-> r, done |-> FALSE]]
    /\ UNCHANGED <<log, pos>>

LogAppend(w) ==
    /\ call[w] # NoCall /\ ~call[w].done
    /\ log' = Append(log, call[w].rec)
    /\ call' = [call EXCEPT ![w].done = TRUE]
    /\ UNCHANGED pos

(* The call returns: nil if the record is in the log, an error if it is not.  *)
Return(w) ==
    /\ call[w] # NoCall
    /\ call' = [call EXCEPT ![w] = NoCall]
    /\ UNCHANGED <<log, pos>>

(* A process dies in the middle of its calls.                               *)
Die(D) ==
    /\ call' = [w \in Writers |-> IF w \in D THEN NoCall ELSE call[w]]
    /\ UNCHANGED <<log, pos>>

(* The next matching record, and none is passed over.                       *)
Deliver(f, i) ==
    /\ i \in (pos[f] + 1)..Len(log) /\ Matches(f, log[i])
    /\ \A j \in (pos[f] + 1)..(i - 1) : ~Matches(f, log[j])
    /\ pos' = [pos EXCEPT ![f] = i]
    /\ UNCHANGED <<log, call>>

LogNext ==
    \/ \E w \in Writers : LogAppend(w) \/ Return(w) \/ \E r \in Records : Call(w, r)
    \/ \E D \in SUBSET Writers : Die(D)
    \/ \E f \in Followers : \E i \in 1..Len(log) : Deliver(f, i)

LogSpec == LogInit /\ [][LogNext]_logVars
=============================================================================
