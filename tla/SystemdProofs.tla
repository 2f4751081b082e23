---------------------------- MODULE SystemdProofs ----------------------------
(***************************************************************************)
(* Proofs about SystemdSession, for any number of lines and of restarts, and   *)
(* whether or not journald's socket may fail.                               *)
(*                                                                         *)
(* The properties compare what a reader has made of the journal with what the  *)
(* host did.  In between are the records on their way, so the invariant is     *)
(* about all records sent, in the journal or not: record number k is Sent(k),   *)
(* and Ingest changes none of them.  As long as no exit was recorded, the       *)
(* lines printed are the outputs recorded and those still unread (NowInv);       *)
(* when the first one is, its count is final (PastInv, AfterInv).             *)
(***************************************************************************)
EXTENDS SystemdSession, NumberLemmas, FiniteSets, FiniteSetTheorems, TLAPS

Fails == {"failStart", "failOutput", "failExited", "failReady"}
Records == [kind : {"started", "output", "exited", "event"}, inc : Nat]

(* The records sent so far, in their order.                                  *)
AllSent == Len(journal) + Len(socket)
Sent(k) == IF k <= Len(journal) THEN journal[k] ELSE socket[k - Len(journal)]
Outs(n) == {k \in 1..n : Sent(k).kind = "output"}
Exits(n) == {k \in 1..n : Sent(k).kind = "exited"}
AllOuts == {k \in 1..AllSent : Sent(k).kind = "output"}
AllExits == {k \in 1..AllSent : Sent(k).kind = "exited"}

(* The records the follower has received.                                    *)
GotOuts == {k \in 1..got : journal[k].kind = "output"}
GotExits == {k \in 1..got : journal[k].kind = "exited"}

TypeInv ==
    /\ unit \in {"none", "activating", "active", "deactivating", "gone"}
    /\ main \in {"none", "boot", "spawn", "emit", "notify", "select", "terminate",
                 "restart", "exit", "dead", "gone"} \cup Fails
    /\ task \in {"none", "running", "ended", "recorded", "done"}
    /\ inc \in 0..(MaxRestarts + 1) /\ lines \in Nat
    /\ made \in [1..(MaxRestarts + 1) -> Nat]
    /\ start \in {"idle", "wait", "done", "failed"}
    /\ printed \in Nat /\ busErrors \in Nat

LogInv == socket \in Seq(Records) /\ journal \in Seq(Records)

(* The lives of the unit, of the host and of its task.                          *)
LifeInv ==
    /\ start = "idle" <=> unit = "none"
    /\ start = "idle" => main = "none"
    /\ unit = "gone" => main = "gone"
    /\ main \in {"dead", "gone"} => task \in {"none", "done"} /\ lines = 0
    /\ main \in {"none", "boot"} \cup Fails => inc = 0
    /\ main \in {"emit", "notify", "select", "terminate", "restart"} => inc > 0
    /\ main \in {"spawn", "restart"} => inc <= MaxRestarts
    /\ main = "spawn" => task \in {"none", "done"}
    /\ inc = 0 <=> task = "none"
    /\ inc = 0 => lines = 0
    /\ inc > 0 => lines <= made[inc]
    /\ main \in {"none", "boot", "failStart", "failOutput"} => made[1] = 0

(* Records of the host are in the order of its incarnations.                    *)
OrderInv ==
    /\ \A i, j \in 1..AllSent :
        i < j /\ Sent(i).kind # "event" /\ Sent(j).kind # "event"
            => Sent(i).inc <= Sent(j).inc
    /\ \A i \in 1..AllSent :
        Sent(i).kind # "event" => Sent(i).inc <= inc \/ (Sent(i).inc = 1 /\ inc = 0)

(* Before the first exit is recorded.                                        *)
NowInv ==
    ~lost /\ AllExits = {} /\ main \notin {"dead", "gone"} =>
        /\ inc <= 1 /\ task \notin {"recorded", "done"}
        /\ made[1] = Cardinality(AllOuts) + lines

(* The first exit recorded is the first incarnation's, and follows on all the      *)
(* lines it printed.                                                         *)
PastInv ==
    ~lost => \A e \in 1..AllSent :
        Exits(e) = {e} => Sent(e).inc = 1 /\ made[1] = Cardinality(Outs(e))

(* After an exit is recorded, the first incarnation prints no more.               *)
AfterInv ==
    AllExits # {} => /\ inc = 1 => task \notin {"running", "ended"}
                     /\ inc = 0 => main \in {"failReady", "exit", "dead", "gone"}

(* The follower has printed every output it received, and went on to the first      *)
(* exit.                                                                    *)
FollowInv ==
    /\ got \in Nat /\ offered \in {0, got + 1}
    /\ got <= Len(journal) /\ offered <= Len(journal)
    /\ reader = "follow" => printed = Cardinality(GotOuts)
    /\ follow \in {"select", "killed", "detached"} => reader = "follow"
    /\ follow = "nonce" => reader = "emit"
    /\ follow \in {"idle", "select"} => GotExits = {}
    /\ reader = "follow" /\ follow = "completed" => got > 0 /\ GotExits = {got}

(* Who follows, follows a session that was started; and a unit that a reader takes for   *)
(* gone is gone, unless listings left it out.                                  *)
UnitInv ==
    /\ follow # "idle" => start # "idle"
    /\ unit = "none" => journal = <<>> /\ socket = <<>>
    /\ missing /\ unit # "gone" => busErrors >= 1
    /\ follow = "killed" /\ unit # "gone" => busErrors >= 2
    /\ hist.pc # "idle" => reader = "history"
    /\ hist.status # "none" => hist.pc = "done"
    /\ hist.started # 0 => unit # "none"
    /\ hist.pc = "exited" /\ hist.started # 0 /\ unit # "gone" => busErrors >= 1
    /\ hist.status = "killed" /\ unit # "gone" => busErrors >= 1

(* The history's readings, and what it has made of them.                          *)
HistInv ==
    /\ hist \in [pc : {"idle", "live", "exited", "done"}, begun : Nat, known : Nat,
                 status : {"none", "killed", "exited"}, inc : Nat, started : Nat]
    /\ hist.known <= Len(journal) /\ hist.started <= Len(journal)
    /\ hist.started # 0 => journal[hist.started].kind = "started"

SysInv ==
    /\ TypeInv /\ LogInv /\ LifeInv /\ OrderInv /\ NowInv /\ PastInv /\ AfterInv
    /\ FollowInv /\ UnitInv /\ HistInv /\ HistoryIsTruthful

-----------------------------------------------------------------------------
(* The records sent.                                                       *)

(* What a step that sends nothing leaves as it is; journald's own step is one.    *)
LEMMA NothingSent ==
    ASSUME LogInv, UNCHANGED <<socket, journal>>
           \/ (socket # <<>> /\ journal' = Append(journal, Head(socket))
                             /\ socket' = Tail(socket))
    PROVE  /\ AllSent \in Nat /\ AllSent' = AllSent
           /\ \A k \in 1..AllSent : Sent(k)' = Sent(k)
<1>1. CASE UNCHANGED <<socket, journal>>
  BY <1>1 DEF AllSent, Sent, LogInv
<1>2. CASE socket # <<>> /\ journal' = Append(journal, Head(socket)) /\ socket' = Tail(socket)
  <2>1. /\ Len(socket) \in Nat /\ Len(journal) \in Nat /\ Len(socket) > 0
        /\ Len(journal') = Len(journal) + 1 /\ Len(socket') = Len(socket) - 1
        /\ \A k \in 1..Len(journal) : journal'[k] = journal[k]
        /\ journal'[Len(journal) + 1] = socket[1]
        /\ \A k \in 1..Len(socket') : socket'[k] = socket[k + 1]
    <3> HIDE DEF Records
    <3> QED
      BY <1>2 DEF LogInv
  <2>2. ASSUME NEW k \in 1..AllSent
        PROVE  Sent(k)' = Sent(k)
    <3>1. CASE k <= Len(journal)
      BY <2>1, <3>1 DEF AllSent, Sent
    <3>2. CASE k = Len(journal) + 1
      BY <2>1, <3>2 DEF AllSent, Sent
    <3>3. CASE k > Len(journal) + 1
      <4>1. /\ k - Len(journal') \in 1..Len(socket')
            /\ (k - Len(journal')) + 1 = k - Len(journal)
            /\ ~(k <= Len(journal')) /\ ~(k <= Len(journal))
        BY <2>1, <3>3 DEF AllSent
      <4> QED
        BY <2>1, <4>1 DEF Sent
    <3> QED
      BY <2>1, <3>1, <3>2, <3>3 DEF AllSent
  <2> QED
    BY <2>1, <2>2 DEF AllSent
<1> QED
  BY <1>1, <1>2

(* One more record.                                                        *)
LEMMA OneSent ==
    ASSUME LogInv, NEW r \in Records, socket' = Append(socket, r), journal' = journal
    PROVE  /\ AllSent \in Nat /\ AllSent' = AllSent + 1
           /\ \A k \in 1..AllSent : Sent(k)' = Sent(k)
           /\ \A k : k = AllSent + 1 => Sent(k)' = r
<1>1. /\ Len(socket) \in Nat /\ Len(journal) \in Nat /\ Len(socket') = Len(socket) + 1
      /\ \A k \in 1..Len(socket) : socket'[k] = socket[k]
      /\ socket'[Len(socket) + 1] = r /\ journal' = journal
  <2> HIDE DEF Records
  <2> QED
    BY DEF LogInv
<1>2. ASSUME NEW k \in 1..AllSent
      PROVE  Sent(k)' = Sent(k)
  <2>1. CASE k <= Len(journal)
    BY <1>1, <2>1 DEF Sent
  <2>2. CASE ~(k <= Len(journal))
    <3>1. k - Len(journal) \in 1..Len(socket)
      BY <1>1, <2>2 DEF AllSent
    <3> QED
      BY <1>1, <2>2, <3>1 DEF Sent
  <2> QED
    BY <2>1, <2>2
<1>3. ASSUME NEW k, k = AllSent + 1
      PROVE  Sent(k)' = r
  <2>1. ~(k <= Len(journal')) /\ k - Len(journal') = Len(socket) + 1
    BY <1>1, <1>3 DEF AllSent
  <2> QED
    BY <1>1, <2>1 DEF Sent
<1> QED
  BY <1>1, <1>2, <1>3 DEF AllSent

(* What is sent is a record.                                                 *)
LEMMA RecordsSent == ASSUME LogInv PROVE \A i \in 1..AllSent : Sent(i) \in Records
<1> SUFFICES ASSUME NEW i \in 1..AllSent PROVE Sent(i) \in Records
  OBVIOUS
<1>1. /\ Len(journal) \in Nat /\ Len(socket) \in Nat
      /\ \A k \in 1..Len(journal) : journal[k] \in Records
      /\ \A k \in 1..Len(socket) : socket[k] \in Records
  <2> HIDE DEF Records
  <2> QED
    BY DEF LogInv
<1>2. i <= Len(journal) \/ i - Len(journal) \in 1..Len(socket)
  BY <1>1 DEF AllSent
<1>3. i <= Len(journal) => i \in 1..Len(journal)
  BY <1>1
<1> QED
  BY <1>1, <1>2, <1>3, Zenon DEF Sent

(* The records up to one that is sent do not change.                            *)
LEMMA PastIsFixed ==
    ASSUME AllSent \in Nat, \A k \in 1..AllSent : Sent(k)' = Sent(k), NEW n \in 0..AllSent
    PROVE  Outs(n)' = Outs(n) /\ Exits(n)' = Exits(n)
<1>1. \A k \in 1..n : Sent(k)' = Sent(k)
  BY SMT
<1> QED
  BY <1>1, Zenon DEF Outs, Exits

LEMMA OutsAreFinite ==
    ASSUME LogInv
    PROVE  IsFiniteSet(AllOuts) /\ Cardinality(AllOuts) \in Nat
<1>1. AllSent \in Int
  BY DEF LogInv, AllSent
<1>2. IsFiniteSet(1..AllSent) /\ AllOuts \in SUBSET (1..AllSent)
  BY <1>1, FS_Interval DEF AllOuts
<1> QED
  BY <1>2, FS_Subset, FS_CardinalityType, Zenon

LEMMA CountsKept ==
    ASSUME AllSent \in Nat, AllSent' = AllSent, \A k \in 1..AllSent : Sent(k)' = Sent(k)
    PROVE  AllOuts' = AllOuts /\ AllExits' = AllExits
BY Zenon DEF AllOuts, AllExits

LEMMA CountsSent ==
    ASSUME LogInv, NEW r, AllSent \in Nat, AllSent' = AllSent + 1,
           \A k \in 1..AllSent : Sent(k)' = Sent(k),
           \A k : k = AllSent + 1 => Sent(k)' = r
    PROVE  /\ r.kind # "output" => AllOuts' = AllOuts
           /\ r.kind = "output" => Cardinality(AllOuts') = Cardinality(AllOuts) + 1
           /\ r.kind # "exited" => AllExits' = AllExits
           /\ r.kind = "exited" => AllExits' # {}
<1>1. 1..AllSent' = (1..AllSent) \cup {AllSent + 1}
  BY SMT
<1>2. /\ AllOuts' = IF r.kind = "output" THEN AllOuts \cup {AllSent + 1} ELSE AllOuts
      /\ AllExits' = IF r.kind = "exited" THEN AllExits \cup {AllSent + 1} ELSE AllExits
  BY <1>1, Zenon DEF AllOuts, AllExits
<1>3. AllSent + 1 \notin AllOuts
  BY SMT DEF AllOuts
<1>4. Cardinality(AllOuts \cup {AllSent + 1}) = Cardinality(AllOuts) + 1
  BY <1>3, OutsAreFinite, FS_AddElement, Zenon
<1> QED
  BY <1>2, <1>4

(* The last place in a set of places in the journal.                             *)
LEMMA LastOfIsLast ==
    ASSUME NEW n \in Nat, NEW S \in SUBSET (1..n)
    PROVE  /\ (LastOf(S) = 0 /\ S = {}) \/ LastOf(S) \in S
           /\ \A k \in S : k <= LastOf(S)
<1>1. CASE S = {}
  BY <1>1 DEF LastOf
<1>2. CASE S # {}
  <2>1. S \in SUBSET (0..n)
    BY SMT
  <2>2. PICK x \in S : \A k \in S : x >= k
    BY <1>2, <2>1, GreatestExists, Zenon
  <2>3. \A k \in S : k <= x
    BY <2>1, <2>2, SMT
  <2> QED
    BY <1>2, <2>3, Zenon DEF LastOf
<1> QED
  BY <1>1, <1>2

-----------------------------------------------------------------------------
(* The invariant holds at first and is inductive.                           *)

LEMMA SysInitInv == SysInit => SysInv
<1> SUFFICES ASSUME SysInit PROVE SysInv
  OBVIOUS
<1> USE SystemdAssumption DEF SystemdAssumption, SysInit, NoHistory
<1>1. TypeInv /\ LogInv /\ LifeInv
  BY DEF TypeInv, LogInv, LifeInv, Fails
<1>2. AllSent = 0
  BY DEF AllSent
<1>3. 1..AllSent = {} /\ AllOuts = {} /\ AllExits = {} /\ Cardinality(AllOuts) = 0
  BY <1>2, FS_EmptySet DEF AllOuts, AllExits
<1>4. OrderInv /\ PastInv /\ AfterInv
  BY <1>3, Zenon DEF OrderInv, PastInv, AfterInv
<1>5. NowInv
  BY <1>3 DEF NowInv
<1>6. GotOuts = {} /\ GotExits = {} /\ Cardinality(GotOuts) = 0
  BY FS_EmptySet DEF GotOuts, GotExits
<1>7. FollowInv /\ UnitInv
  BY <1>6 DEF FollowInv, UnitInv
<1>8. HistInv /\ HistoryIsTruthful
  BY DEF HistInv, HistoryIsTruthful
<1> QED
  BY <1>1, <1>4, <1>5, <1>7, <1>8, Zenon DEF SysInv

(* Types.                                                                    *)
LEMMA TypeStep == SysInv /\ [SysNext]_sysVars => TypeInv'
<1> SUFFICES ASSUME SysInv, [SysNext]_sysVars PROVE TypeInv'
  OBVIOUS
<1> USE SystemdAssumption DEF SystemdAssumption, SysInv, TypeInv, LifeInv, Fails, Rec,
      sysVars, hostVars, cmdVars, followVars, hostOnly, sysOnly, readOnly, histOnly,
      SocketWrite, KillCgroup
<1>1. CASE Ingest
  BY <1>1 DEF Ingest
<1>2. CASE Boot
  BY <1>2 DEF Boot
<1>3. CASE FailStart
  BY <1>3 DEF FailStart
<1>4. CASE FailStartWrite
  BY <1>4 DEF FailStartWrite
<1>5. CASE Spawn
  BY <1>5 DEF Spawn
<1>6. CASE EmitStarted
  BY <1>6 DEF EmitStarted
<1>7. CASE Notify
  BY <1>7 DEF Notify
<1>8. CASE NotifyFail
  BY <1>8 DEF NotifyFail
<1>9. CASE Select
  BY <1>9 DEF Select
<1>10. CASE TaskDone
  BY <1>10 DEF TaskDone
<1>11. CASE TaskPrint
  BY <1>11 DEF TaskPrint
<1>12. CASE TaskExit
  BY <1>12 DEF TaskExit
<1>13. CASE WriteOutput
  BY <1>13 DEF WriteOutput
<1>14. CASE EmitExited
  BY <1>14 DEF EmitExited
<1>15. CASE CloseDone
  BY <1>15 DEF CloseDone
<1>16. CASE MainExited
  BY <1>16 DEF MainExited
<1>17. CASE StopTimeout
  BY <1>17 DEF StopTimeout
<1>18. CASE StartTransient
  BY <1>18 DEF StartTransient
<1>19. CASE StartReturns
  BY <1>19 DEF StartReturns
<1>20. CASE StopUnit
  BY <1>20 DEF StopUnit
<1>21. CASE KillUnit
  BY <1>21 DEF KillUnit
<1>22. CASE FollowSession
  BY <1>22 DEF FollowSession
<1>23. CASE FollowDetaches
  BY <1>23 DEF FollowDetaches
<1>24. CASE HistoryStarted
  BY <1>24 DEF HistoryStarted
<1>25. CASE HistoryLive
  BY <1>25 DEF HistoryLive, List
<1>26. CASE HistoryExited
  BY <1>26 DEF HistoryExited
<1>27. CASE WriteSync
  BY <1>27 DEF WriteSync
<1>28. CASE WaitForNonce
  BY <1>28 DEF WaitForNonce
<1>29. CASE FollowNext
  BY <1>29 DEF FollowNext
<1>30. CASE ReceiveEvent
  BY <1>30 DEF ReceiveEvent
<1>31. CASE CheckUnit
  BY <1>31 DEF CheckUnit, List
<1>32. CASE CheckUnitFails
  BY <1>32 DEF CheckUnitFails
<1>33. CASE UNCHANGED sysVars
  BY <1>33 DEF sysVars
<1> QED
  BY <1>1, <1>2, <1>3, <1>4, <1>5, <1>6, <1>7, <1>8, <1>9, <1>10,
     <1>11, <1>12, <1>13, <1>14, <1>15, <1>16, <1>17, <1>18, <1>19, <1>20,
     <1>21, <1>22, <1>23, <1>24, <1>25, <1>26, <1>27, <1>28, <1>29, <1>30,
     <1>31, <1>32, <1>33
  DEF SysNext, Main, TaskStep, Commands

(* Records.                                                                  *)
LEMMA LogStep == SysInv /\ [SysNext]_sysVars => LogInv'
<1> SUFFICES ASSUME SysInv, [SysNext]_sysVars PROVE LogInv'
  OBVIOUS
<1> USE DEF SysInv, TypeInv, LogInv, sysVars, hostVars, cmdVars, followVars, hostOnly,
      sysOnly, readOnly, histOnly, SocketWrite, KillCgroup
<1>1. CASE Boot \/ FailStartWrite \/ Spawn \/ Notify \/ NotifyFail \/ Select
           \/ TaskDone \/ TaskPrint \/ TaskExit \/ CloseDone \/ MainExited
           \/ StopTimeout \/ StartTransient \/ StartReturns \/ StopUnit
           \/ KillUnit \/ FollowSession \/ FollowDetaches \/ HistoryStarted
           \/ HistoryLive \/ HistoryExited \/ WaitForNonce \/ FollowNext
           \/ ReceiveEvent \/ CheckUnit \/ CheckUnitFails \/ UNCHANGED sysVars
  <2>1. UNCHANGED <<socket, journal>>
    BY <1>1, Zenon DEF Boot, FailStartWrite, Spawn, Notify, NotifyFail, Select, TaskDone,
            TaskPrint, TaskExit, CloseDone, MainExited, StopTimeout,
            StartTransient, StartReturns, StopUnit, KillUnit, FollowSession,
            FollowDetaches, HistoryStarted, HistoryLive, HistoryExited,
            WaitForNonce, FollowNext, ReceiveEvent, CheckUnit,
            CheckUnitFails, sysVars
  <2> QED
    BY <2>1
<1>2. CASE Ingest
  <2> HIDE DEF Records
  <2> QED
    BY <1>2 DEF Ingest
<1>3. CASE FailStart
  <2>1. PICK x \in {"started", "output", "exited"} : socket' = Append(socket, Rec(x, 1))
    BY <1>3, Zenon DEF FailStart
  <2>2. Rec(x, 1) \in Records
    BY <2>1 DEF Rec, Records
  <2>3. journal' = journal
    BY <1>3, Zenon DEF FailStart
  <2> HIDE DEF Rec, Records
  <2> QED
    BY <2>1, <2>2, <2>3
<1>4. CASE EmitStarted
  <2>1. Rec("started", inc) \in Records
    BY DEF Rec, Records
  <2>2. \/ socket' = socket \/ socket' = Append(socket, Rec("started", inc))
    BY <1>4, Zenon DEF EmitStarted
  <2>3. journal' = journal
    BY <1>4, Zenon DEF EmitStarted
  <2> HIDE DEF Rec, Records
  <2> QED
    BY <2>1, <2>2, <2>3
<1>5. CASE WriteOutput
  <2>1. Rec("output", inc) \in Records
    BY DEF Rec, Records
  <2>2. \/ socket' = socket \/ socket' = Append(socket, Rec("output", inc))
    BY <1>5, Zenon DEF WriteOutput
  <2>3. journal' = journal
    BY <1>5, Zenon DEF WriteOutput
  <2> HIDE DEF Rec, Records
  <2> QED
    BY <2>1, <2>2, <2>3
<1>6. CASE EmitExited
  <2>1. Rec("exited", inc) \in Records
    BY DEF Rec, Records
  <2>2. \/ socket' = socket \/ socket' = Append(socket, Rec("exited", inc))
    BY <1>6, Zenon DEF EmitExited
  <2>3. journal' = journal
    BY <1>6, Zenon DEF EmitExited
  <2> HIDE DEF Rec, Records
  <2> QED
    BY <2>1, <2>2, <2>3
<1>7. CASE WriteSync
  <2>1. Rec("event", 0) \in Records
    BY DEF Rec, Records
  <2>2. \/ socket' = socket \/ socket' = Append(socket, Rec("event", 0))
    BY <1>7, Zenon DEF WriteSync
  <2>3. journal' = journal
    BY <1>7, Zenon DEF WriteSync
  <2> HIDE DEF Rec, Records
  <2> QED
    BY <2>1, <2>2, <2>3, SMTT(20)
<1> QED
  BY <1>1, <1>2, <1>3, <1>4, <1>5, <1>6, <1>7
  DEF SysNext, Main, TaskStep, Commands

(* Lives.                                                                    *)
LEMMA LifeStep == SysInv /\ [SysNext]_sysVars => LifeInv'
<1> SUFFICES ASSUME SysInv, [SysNext]_sysVars PROVE LifeInv'
  OBVIOUS
<1> USE SystemdAssumption DEF SystemdAssumption, SysInv, TypeInv, LifeInv, Fails, Live,
      sysVars, hostVars, cmdVars, followVars, hostOnly, sysOnly, readOnly, histOnly,
      SocketWrite, KillCgroup
<1>1. CASE Ingest
  BY <1>1 DEF Ingest
<1>2. CASE Boot
  BY <1>2 DEF Boot
<1>3. CASE FailStart
  BY <1>3 DEF FailStart
<1>4. CASE FailStartWrite
  BY <1>4 DEF FailStartWrite
<1>5. CASE Spawn
  BY <1>5 DEF Spawn
<1>6. CASE EmitStarted
  BY <1>6 DEF EmitStarted
<1>7. CASE Notify
  BY <1>7 DEF Notify
<1>8. CASE NotifyFail
  BY <1>8 DEF NotifyFail
<1>9. CASE Select
  BY <1>9 DEF Select
<1>10. CASE TaskDone
  BY <1>10 DEF TaskDone
<1>11. CASE TaskPrint
  BY <1>11 DEF TaskPrint
<1>12. CASE TaskExit
  BY <1>12 DEF TaskExit
<1>13. CASE WriteOutput
  BY <1>13 DEF WriteOutput
<1>14. CASE EmitExited
  BY <1>14 DEF EmitExited
<1>15. CASE CloseDone
  BY <1>15 DEF CloseDone
<1>16. CASE MainExited
  BY <1>16 DEF MainExited
<1>17. CASE StopTimeout
  BY <1>17 DEF StopTimeout
<1>18. CASE StartTransient
  BY <1>18 DEF StartTransient
<1>19. CASE StartReturns
  BY <1>19 DEF StartReturns
<1>20. CASE StopUnit
  BY <1>20 DEF StopUnit
<1>21. CASE KillUnit
  BY <1>21 DEF KillUnit
<1>22. CASE FollowSession
  BY <1>22 DEF FollowSession
<1>23. CASE FollowDetaches
  BY <1>23 DEF FollowDetaches
<1>24. CASE HistoryStarted
  BY <1>24 DEF HistoryStarted
<1>25. CASE HistoryLive
  BY <1>25 DEF HistoryLive
<1>26. CASE HistoryExited
  BY <1>26 DEF HistoryExited
<1>27. CASE WriteSync
  BY <1>27 DEF WriteSync
<1>28. CASE WaitForNonce
  BY <1>28 DEF WaitForNonce
<1>29. CASE FollowNext
  BY <1>29 DEF FollowNext
<1>30. CASE ReceiveEvent
  BY <1>30 DEF ReceiveEvent
<1>31. CASE CheckUnit
  BY <1>31 DEF CheckUnit
<1>32. CASE CheckUnitFails
  BY <1>32 DEF CheckUnitFails
<1>33. CASE UNCHANGED sysVars
  BY <1>33 DEF sysVars
<1> QED
  BY <1>1, <1>2, <1>3, <1>4, <1>5, <1>6, <1>7, <1>8, <1>9, <1>10,
     <1>11, <1>12, <1>13, <1>14, <1>15, <1>16, <1>17, <1>18, <1>19, <1>20,
     <1>21, <1>22, <1>23, <1>24, <1>25, <1>26, <1>27, <1>28, <1>29, <1>30,
     <1>31, <1>32, <1>33
  DEF SysNext, Main, TaskStep, Commands

(* A step that sends no record, and one that sends one, keep the order.             *)
LEMMA OrderKept ==
    ASSUME OrderInv, AllSent \in Nat, AllSent' = AllSent, inc' = inc,
           \A k \in 1..AllSent : Sent(k)' = Sent(k)
    PROVE  OrderInv'
BY DEF OrderInv

LEMMA OrderSent ==
    ASSUME OrderInv, LogInv, LogInv', inc \in Nat, inc' = inc,
           NEW r \in Records, socket' = Append(socket, r), journal' = journal,
           r.kind = "event" \/ (r.inc = IF inc = 0 THEN 1 ELSE inc)
    PROVE  OrderInv'
<1>1. /\ AllSent \in Nat /\ AllSent' = AllSent + 1
      /\ \A k \in 1..AllSent : Sent(k)' = Sent(k)
      /\ \A k : k = AllSent + 1 => Sent(k)' = r
  BY OneSent
<1>2. r.inc \in Nat
  BY DEF Records
<1>3. \A i \in 1..AllSent : Sent(i) \in Records
  BY RecordsSent
<1>4. \A i \in 1..AllSent : Sent(i).kind # "event" =>
        /\ Sent(i).inc \in Nat
        /\ Sent(i).inc <= inc \/ (Sent(i).inc = 1 /\ inc = 0)
        /\ r.kind # "event" => Sent(i).inc <= r.inc
  BY <1>3 DEF OrderInv, Records
<1>5. ASSUME NEW i \in 1..AllSent', NEW j \in 1..AllSent', i < j,
             Sent(i)'.kind # "event", Sent(j)'.kind # "event"
      PROVE  Sent(i)'.inc <= Sent(j)'.inc
  <2>1. i \in 1..AllSent /\ Sent(i)' = Sent(i)
    BY <1>1, <1>5
  <2>2. CASE j \in 1..AllSent
    BY <1>1, <1>5, <2>1, <2>2 DEF OrderInv
  <2>3. CASE j = AllSent + 1
    <3>1. Sent(j)' = r
      BY <1>1, <2>3, Zenon
    <3> QED
      BY <1>4, <1>5, <2>1, <3>1
  <2> QED
    BY <1>1, <2>2, <2>3
<1>6. ASSUME NEW i \in 1..AllSent', Sent(i)'.kind # "event"
      PROVE  Sent(i)'.inc <= inc' \/ (Sent(i)'.inc = 1 /\ inc' = 0)
  <2>1. CASE i \in 1..AllSent
    BY <1>1, <1>4, <1>6, <2>1
  <2>2. CASE i = AllSent + 1
    <3>1. Sent(i)' = r
      BY <1>1, <2>2, Zenon
    <3> QED
      BY <1>2, <1>6, <3>1
  <2> QED
    BY <1>1, <2>1, <2>2
<1> QED
  BY <1>5, <1>6 DEF OrderInv

(* The order of records: a later one is not of an earlier incarnation.       *)
LEMMA OrderStep == SysInv /\ [SysNext]_sysVars => OrderInv'
<1> SUFFICES ASSUME SysInv, [SysNext]_sysVars PROVE OrderInv'
  OBVIOUS
<1>0. LogInv'
  BY LogStep
<1> USE DEF sysVars, hostVars, cmdVars, followVars, hostOnly, sysOnly, readOnly, histOnly,
      SocketWrite, KillCgroup
<1>1. CASE Boot \/ FailStartWrite \/ Notify \/ NotifyFail \/ Select \/ TaskDone
           \/ TaskPrint \/ TaskExit \/ CloseDone \/ MainExited \/ StopTimeout
           \/ StartTransient \/ StartReturns \/ StopUnit \/ KillUnit
           \/ FollowSession \/ FollowDetaches \/ HistoryStarted \/ HistoryLive
           \/ HistoryExited \/ WaitForNonce \/ FollowNext \/ ReceiveEvent
           \/ CheckUnit \/ CheckUnitFails \/ UNCHANGED sysVars
  <2>1. UNCHANGED <<socket, journal, inc>>
    BY <1>1, Zenon DEF Boot, FailStartWrite, Notify, NotifyFail, Select, TaskDone, TaskPrint,
            TaskExit, CloseDone, MainExited, StopTimeout, StartTransient,
            StartReturns, StopUnit, KillUnit, FollowSession, FollowDetaches,
            HistoryStarted, HistoryLive, HistoryExited, WaitForNonce,
            FollowNext, ReceiveEvent, CheckUnit, CheckUnitFails, sysVars
  <2> QED
    BY <2>1, NothingSent, OrderKept DEF SysInv
<1>2. CASE Ingest
  <2>1. socket # <<>> /\ journal' = Append(journal, Head(socket)) /\ socket' = Tail(socket)
        /\ inc' = inc
    BY <1>2, Zenon DEF Ingest
  <2> QED
    BY <2>1, NothingSent, OrderKept DEF SysInv
<1>3. CASE FailStart
  <2>1. PICK x \in {"started", "output", "exited"} : socket' = Append(socket, Rec(x, 1))
    BY <1>3, Zenon DEF FailStart
  <2>2. Rec(x, 1) \in Records
    BY <2>1 DEF Rec, Records
  <2>3. journal' = journal
    BY <1>3, Zenon DEF FailStart
  <2>4. /\ Rec(x, 1).kind = x /\ Rec(x, 1).inc = 1 /\ inc = 0 /\ inc' = inc
    BY <1>3 DEF FailStart, Rec, SysInv, TypeInv, LifeInv, Fails
  <2> QED
    BY <1>0, <2>1, <2>2, <2>3, <2>4, OrderSent DEF SysInv
<1>4. CASE Spawn
  <2>1. UNCHANGED <<socket, journal>> /\ inc \in Nat /\ (inc' = inc \/ inc' = inc + 1)
    BY <1>4 DEF Spawn, SysInv, TypeInv
  <2>2. \A k : Sent(k)' = Sent(k)
    BY <2>1, Zenon DEF Sent
  <2>3. AllSent' = AllSent
    BY <2>1, Zenon DEF AllSent
  <2>4. \A i \in 1..AllSent : Sent(i) \in Records
    BY RecordsSent DEF SysInv
  <2>5. \A i \in 1..AllSent : Sent(i).inc \in Nat
    BY <2>4 DEF Records
  <2>6. \A i \in 1..AllSent :
            Sent(i).kind # "event" => Sent(i).inc <= inc' \/ (Sent(i).inc = 1 /\ inc' = 0)
    BY <2>1, <2>5 DEF SysInv, OrderInv
  <2> QED
    BY <2>2, <2>3, <2>6 DEF SysInv, OrderInv
<1>5. CASE EmitStarted
  <2>1. Rec("started", inc) \in Records /\ Rec("started", inc).kind = "started"
        /\ Rec("started", inc).inc = inc
    BY DEF Rec, Records, SysInv, TypeInv
  <2>2. inc \in Nat /\ inc' = inc /\ journal' = journal
    BY <1>5 DEF EmitStarted, SysInv, TypeInv
  <2>3. "started" = "event" \/ inc = IF inc = 0 THEN 1 ELSE inc
    BY <1>5 DEF EmitStarted, SysInv, TypeInv, LifeInv, Fails
  <2>4. \/ socket' = socket \/ socket' = Append(socket, Rec("started", inc))
    BY <1>5, Zenon DEF EmitStarted
  <2>5. CASE socket' = socket
    BY <2>2, <2>5, NothingSent, OrderKept DEF SysInv
  <2>6. CASE socket' = Append(socket, Rec("started", inc))
    BY <1>0, <2>1, <2>2, <2>3, <2>6, OrderSent DEF SysInv
  <2> QED
    BY <2>4, <2>5, <2>6
<1>6. CASE WriteOutput
  <2>1. Rec("output", inc) \in Records /\ Rec("output", inc).kind = "output"
        /\ Rec("output", inc).inc = inc
    BY DEF Rec, Records, SysInv, TypeInv
  <2>2. inc \in Nat /\ inc' = inc /\ journal' = journal
    BY <1>6 DEF WriteOutput, SysInv, TypeInv
  <2>3. "output" = "event" \/ inc = IF inc = 0 THEN 1 ELSE inc
    BY <1>6 DEF WriteOutput, SysInv, TypeInv, LifeInv, Fails
  <2>4. \/ socket' = socket \/ socket' = Append(socket, Rec("output", inc))
    BY <1>6, Zenon DEF WriteOutput
  <2>5. CASE socket' = socket
    BY <2>2, <2>5, NothingSent, OrderKept DEF SysInv
  <2>6. CASE socket' = Append(socket, Rec("output", inc))
    BY <1>0, <2>1, <2>2, <2>3, <2>6, OrderSent DEF SysInv
  <2> QED
    BY <2>4, <2>5, <2>6
<1>7. CASE EmitExited
  <2>1. Rec("exited", inc) \in Records /\ Rec("exited", inc).kind = "exited"
        /\ Rec("exited", inc).inc = inc
    BY DEF Rec, Records, SysInv, TypeInv
  <2>2. inc \in Nat /\ inc' = inc /\ journal' = journal
    BY <1>7 DEF EmitExited, SysInv, TypeInv
  <2>3. "exited" = "event" \/ inc = IF inc = 0 THEN 1 ELSE inc
    BY <1>7 DEF EmitExited, SysInv, TypeInv, LifeInv, Fails
  <2>4. \/ socket' = socket \/ socket' = Append(socket, Rec("exited", inc))
    BY <1>7, Zenon DEF EmitExited
  <2>5. CASE socket' = socket
    BY <2>2, <2>5, NothingSent, OrderKept DEF SysInv
  <2>6. CASE socket' = Append(socket, Rec("exited", inc))
    BY <1>0, <2>1, <2>2, <2>3, <2>6, OrderSent DEF SysInv
  <2> QED
    BY <2>4, <2>5, <2>6
<1>8. CASE WriteSync
  <2>1. Rec("event", 0) \in Records /\ Rec("event", 0).kind = "event"
        /\ Rec("event", 0).inc = 0
    BY DEF Rec, Records, SysInv, TypeInv
  <2>2. inc \in Nat /\ inc' = inc /\ journal' = journal
    BY <1>8 DEF WriteSync, SysInv, TypeInv
  <2>3. "event" = "event" \/ 0 = IF inc = 0 THEN 1 ELSE inc
    BY <1>8 DEF WriteSync, SysInv, TypeInv, LifeInv, Fails
  <2>4. \/ socket' = socket \/ socket' = Append(socket, Rec("event", 0))
    BY <1>8, Zenon DEF WriteSync
  <2>5. CASE socket' = socket
    BY <2>2, <2>5, NothingSent, OrderKept DEF SysInv
  <2>6. CASE socket' = Append(socket, Rec("event", 0))
    BY <1>0, <2>1, <2>2, <2>3, <2>6, OrderSent DEF SysInv
  <2> QED
    BY <2>4, <2>5, <2>6
<1> QED
  BY <1>1, <1>2, <1>3, <1>4, <1>5, <1>6, <1>7, <1>8
  DEF SysNext, Main, TaskStep, Commands

(* The lines printed are those recorded and those still in the pipes.        *)
LEMMA CountStep == SysInv /\ [SysNext]_sysVars => (NowInv /\ AfterInv)'
<1> SUFFICES ASSUME SysInv, [SysNext]_sysVars PROVE (NowInv /\ AfterInv)'
  OBVIOUS
<1>0. IsFiniteSet(AllOuts) /\ Cardinality(AllOuts) \in Nat
  BY OutsAreFinite DEF SysInv
<1> USE SystemdAssumption DEF SystemdAssumption, SysInv, TypeInv, LifeInv, Fails, Live,
      sysVars, hostVars, cmdVars, followVars, hostOnly, sysOnly, readOnly, histOnly,
      SocketWrite, KillCgroup
<1>1. CASE StartReturns \/ FollowSession \/ FollowDetaches \/ HistoryStarted
           \/ HistoryLive \/ HistoryExited \/ WaitForNonce \/ FollowNext
           \/ ReceiveEvent \/ CheckUnit \/ CheckUnitFails \/ UNCHANGED sysVars
  <2>0. UNCHANGED <<socket, journal>>
    BY <1>1, Zenon DEF StartReturns, FollowSession, FollowDetaches, HistoryStarted,
            HistoryLive, HistoryExited, WaitForNonce, FollowNext,
            ReceiveEvent, CheckUnit, CheckUnitFails, sysVars
  <2>1. AllOuts' = AllOuts /\ AllExits' = AllExits
    BY <2>0, NothingSent, CountsKept DEF SysInv
  <2>2. UNCHANGED <<inc, task, main, made, lines, lost>>
    BY <1>1, Zenon DEF StartReturns, FollowSession, FollowDetaches, HistoryStarted,
            HistoryLive, HistoryExited, WaitForNonce, FollowNext,
            ReceiveEvent, CheckUnit, CheckUnitFails, sysVars
  <2> QED
    BY <2>1, <2>2, Zenon DEF SysInv, NowInv, AfterInv
<1>2. CASE Ingest
  <2>0. socket # <<>> /\ journal' = Append(journal, Head(socket)) /\ socket' = Tail(socket)
    BY <1>2, Zenon DEF Ingest
  <2>1. AllOuts' = AllOuts /\ AllExits' = AllExits
    BY <2>0, NothingSent, CountsKept DEF SysInv
  <2> QED
    BY <1>2, <2>1 DEF Ingest, NowInv, AfterInv
<1>3. CASE Boot
  <2>0. UNCHANGED <<socket, journal>>
    BY <1>3, Zenon DEF Boot
  <2>1. AllOuts' = AllOuts /\ AllExits' = AllExits
    BY <2>0, NothingSent, CountsKept DEF SysInv
  <2> QED
    BY <1>0, <1>3, <2>1 DEF Boot, NowInv, AfterInv
<1>4. CASE FailStart
  <2>1. CASE main = "failStart"
    <3>1. Rec("started", 1) \in Records /\ Rec("started", 1).kind = "started" /\ Rec("started", 1).inc = 1
      BY DEF Rec, Records
    <3>2. socket' = Append(socket, Rec("started", 1)) /\ journal' = journal
      BY <1>4, <2>1 DEF FailStart
    <3>3. /\ AllSent \in Nat /\ AllSent' = AllSent + 1
          /\ \A k \in 1..AllSent : Sent(k)' = Sent(k)
          /\ \A k : k = AllSent + 1 => Sent(k)' = Rec("started", 1)
      BY <3>1, <3>2, OneSent, Zenon DEF SysInv
    <3>4. /\ "started" # "output" => AllOuts' = AllOuts
          /\ "started" = "output" => Cardinality(AllOuts') = Cardinality(AllOuts) + 1
          /\ "started" # "exited" => AllExits' = AllExits
          /\ "started" = "exited" => AllExits' # {}
      BY <3>1, <3>3, CountsSent, Zenon DEF SysInv
    <3> QED
      BY <1>0, <1>4, <2>1, <3>4 DEF FailStart, NowInv, AfterInv
  <2>2. CASE main = "failOutput"
    <3>1. Rec("output", 1) \in Records /\ Rec("output", 1).kind = "output" /\ Rec("output", 1).inc = 1
      BY DEF Rec, Records
    <3>2. socket' = Append(socket, Rec("output", 1)) /\ journal' = journal
      BY <1>4, <2>2 DEF FailStart
    <3>3. /\ AllSent \in Nat /\ AllSent' = AllSent + 1
          /\ \A k \in 1..AllSent : Sent(k)' = Sent(k)
          /\ \A k : k = AllSent + 1 => Sent(k)' = Rec("output", 1)
      BY <3>1, <3>2, OneSent, Zenon DEF SysInv
    <3>4. /\ "output" # "output" => AllOuts' = AllOuts
          /\ "output" = "output" => Cardinality(AllOuts') = Cardinality(AllOuts) + 1
          /\ "output" # "exited" => AllExits' = AllExits
          /\ "output" = "exited" => AllExits' # {}
      BY <3>1, <3>3, CountsSent, Zenon DEF SysInv
    <3> QED
      BY <1>0, <1>4, <2>2, <3>4 DEF FailStart, NowInv, AfterInv
  <2>3. CASE main = "failExited"
    <3>1. Rec("exited", 1) \in Records /\ Rec("exited", 1).kind = "exited" /\ Rec("exited", 1).inc = 1
      BY DEF Rec, Records
    <3>2. socket' = Append(socket, Rec("exited", 1)) /\ journal' = journal
      BY <1>4, <2>3 DEF FailStart
    <3>3. /\ AllSent \in Nat /\ AllSent' = AllSent + 1
          /\ \A k \in 1..AllSent : Sent(k)' = Sent(k)
          /\ \A k : k = AllSent + 1 => Sent(k)' = Rec("exited", 1)
      BY <3>1, <3>2, OneSent, Zenon DEF SysInv
    <3>4. /\ "exited" # "output" => AllOuts' = AllOuts
          /\ "exited" = "output" => Cardinality(AllOuts') = Cardinality(AllOuts) + 1
          /\ "exited" # "exited" => AllExits' = AllExits
          /\ "exited" = "exited" => AllExits' # {}
      BY <3>1, <3>3, CountsSent, Zenon DEF SysInv
    <3> QED
      BY <1>0, <1>4, <2>3, <3>4 DEF FailStart, NowInv, AfterInv
  <2> QED
    BY <1>4, <2>1, <2>2, <2>3 DEF FailStart
<1>5. CASE FailStartWrite
  <2>0. UNCHANGED <<socket, journal>>
    BY <1>5, Zenon DEF FailStartWrite
  <2>1. AllOuts' = AllOuts /\ AllExits' = AllExits
    BY <2>0, NothingSent, CountsKept DEF SysInv
  <2> QED
    BY <1>0, <1>5, <2>1 DEF FailStartWrite, NowInv, AfterInv
<1>6. CASE Spawn
  <2>0. UNCHANGED <<socket, journal>>
    BY <1>6, Zenon DEF Spawn
  <2>1. AllOuts' = AllOuts /\ AllExits' = AllExits
    BY <2>0, NothingSent, CountsKept DEF SysInv
  <2> QED
    BY <1>0, <1>6, <2>1 DEF Spawn, NowInv, AfterInv
<1>7. CASE EmitStarted
  <2>0. Rec("started", inc) \in Records /\ Rec("started", inc).kind = "started"
    BY DEF Rec, Records, SysInv, TypeInv
  <2>1. journal' = journal
    BY <1>7, Zenon DEF EmitStarted
  <2>2. CASE socket' = Append(socket, Rec("started", inc)) /\ lost' = lost
    <3>1. /\ AllSent \in Nat /\ AllSent' = AllSent + 1
          /\ \A k \in 1..AllSent : Sent(k)' = Sent(k)
          /\ \A k : k = AllSent + 1 => Sent(k)' = Rec("started", inc)
      BY <2>0, <2>1, <2>2, OneSent, Zenon DEF SysInv
    <3>2. /\ "started" # "output" => AllOuts' = AllOuts
          /\ "started" = "output" => Cardinality(AllOuts') = Cardinality(AllOuts) + 1
          /\ "started" # "exited" => AllExits' = AllExits
          /\ "started" = "exited" => AllExits' # {}
      BY <2>0, <3>1, CountsSent, Zenon DEF SysInv
    <3> QED
      <4>2. NowInv'
        BY <1>0, <1>7, <2>2, <3>2 DEF EmitStarted, NowInv
      <4>3. AfterInv'
        BY <1>7, <2>2, <3>2 DEF EmitStarted, AfterInv
      <4> QED
        BY <4>2, <4>3
  <2>3. CASE socket' = socket /\ lost'
    <3>1. AllOuts' = AllOuts /\ AllExits' = AllExits
      BY <2>1, <2>3, NothingSent, CountsKept DEF SysInv
    <3> QED
      BY <1>7, <2>3, <3>1 DEF EmitStarted, NowInv, AfterInv
  <2> QED
    BY <1>7, <2>2, <2>3, Zenon DEF EmitStarted
<1>8. CASE Notify
  <2>0. UNCHANGED <<socket, journal>>
    BY <1>8, Zenon DEF Notify
  <2>1. AllOuts' = AllOuts /\ AllExits' = AllExits
    BY <2>0, NothingSent, CountsKept DEF SysInv
  <2> QED
    BY <1>0, <1>8, <2>1 DEF Notify, NowInv, AfterInv
<1>9. CASE NotifyFail
  <2>0. UNCHANGED <<socket, journal>>
    BY <1>9, Zenon DEF NotifyFail
  <2>1. AllOuts' = AllOuts /\ AllExits' = AllExits
    BY <2>0, NothingSent, CountsKept DEF SysInv
  <2> QED
    BY <1>0, <1>9, <2>1 DEF NotifyFail, NowInv, AfterInv
<1>10. CASE Select
  <2>0. UNCHANGED <<socket, journal>>
    BY <1>10, Zenon DEF Select
  <2>1. AllOuts' = AllOuts /\ AllExits' = AllExits
    BY <2>0, NothingSent, CountsKept DEF SysInv
  <2> QED
    BY <1>0, <1>10, <2>1 DEF Select, NowInv, AfterInv
<1>11. CASE TaskDone
  <2>0. UNCHANGED <<socket, journal>>
    BY <1>11, Zenon DEF TaskDone
  <2>1. AllOuts' = AllOuts /\ AllExits' = AllExits
    BY <2>0, NothingSent, CountsKept DEF SysInv
  <2> QED
    BY <1>0, <1>11, <2>1 DEF TaskDone, NowInv, AfterInv
<1>12. CASE TaskPrint
  <2>0. UNCHANGED <<socket, journal>>
    BY <1>12, Zenon DEF TaskPrint
  <2>1. AllOuts' = AllOuts /\ AllExits' = AllExits
    BY <2>0, NothingSent, CountsKept DEF SysInv
  <2> QED
    BY <1>0, <1>12, <2>1 DEF TaskPrint, NowInv, AfterInv
<1>13. CASE TaskExit
  <2>0. UNCHANGED <<socket, journal>>
    BY <1>13, Zenon DEF TaskExit
  <2>1. AllOuts' = AllOuts /\ AllExits' = AllExits
    BY <2>0, NothingSent, CountsKept DEF SysInv
  <2> QED
    BY <1>0, <1>13, <2>1 DEF TaskExit, NowInv, AfterInv
<1>14. CASE WriteOutput
  <2>0. Rec("output", inc) \in Records /\ Rec("output", inc).kind = "output"
    BY DEF Rec, Records, SysInv, TypeInv
  <2>1. journal' = journal
    BY <1>14, Zenon DEF WriteOutput
  <2>2. CASE socket' = Append(socket, Rec("output", inc)) /\ lost' = lost
    <3>1. /\ AllSent \in Nat /\ AllSent' = AllSent + 1
          /\ \A k \in 1..AllSent : Sent(k)' = Sent(k)
          /\ \A k : k = AllSent + 1 => Sent(k)' = Rec("output", inc)
      BY <2>0, <2>1, <2>2, OneSent, Zenon DEF SysInv
    <3>2. /\ "output" # "output" => AllOuts' = AllOuts
          /\ "output" = "output" => Cardinality(AllOuts') = Cardinality(AllOuts) + 1
          /\ "output" # "exited" => AllExits' = AllExits
          /\ "output" = "exited" => AllExits' # {}
      BY <2>0, <3>1, CountsSent, Zenon DEF SysInv
    <3> QED
      <4>2. NowInv'
        BY <1>0, <1>14, <2>2, <3>2 DEF WriteOutput, NowInv
      <4>3. AfterInv'
        BY <1>14, <2>2, <3>2 DEF WriteOutput, AfterInv
      <4> QED
        BY <4>2, <4>3
  <2>3. CASE socket' = socket /\ lost'
    <3>1. AllOuts' = AllOuts /\ AllExits' = AllExits
      BY <2>1, <2>3, NothingSent, CountsKept DEF SysInv
    <3> QED
      BY <1>14, <2>3, <3>1 DEF WriteOutput, NowInv, AfterInv
  <2> QED
    BY <1>14, <2>2, <2>3, Zenon DEF WriteOutput
<1>15. CASE EmitExited
  <2>0. Rec("exited", inc) \in Records /\ Rec("exited", inc).kind = "exited"
    BY DEF Rec, Records, SysInv, TypeInv
  <2>1. journal' = journal
    BY <1>15, Zenon DEF EmitExited
  <2>2. CASE socket' = Append(socket, Rec("exited", inc)) /\ lost' = lost
    <3>1. /\ AllSent \in Nat /\ AllSent' = AllSent + 1
          /\ \A k \in 1..AllSent : Sent(k)' = Sent(k)
          /\ \A k : k = AllSent + 1 => Sent(k)' = Rec("exited", inc)
      BY <2>0, <2>1, <2>2, OneSent, Zenon DEF SysInv
    <3>2. /\ "exited" # "output" => AllOuts' = AllOuts
          /\ "exited" = "output" => Cardinality(AllOuts') = Cardinality(AllOuts) + 1
          /\ "exited" # "exited" => AllExits' = AllExits
          /\ "exited" = "exited" => AllExits' # {}
      BY <2>0, <3>1, CountsSent, Zenon DEF SysInv
    <3> QED
      <4>2. NowInv'
        BY <1>0, <1>15, <2>2, <3>2 DEF EmitExited, NowInv
      <4>3. AfterInv'
        BY <1>15, <2>2, <3>2 DEF EmitExited, AfterInv
      <4> QED
        BY <4>2, <4>3
  <2>3. CASE socket' = socket /\ lost'
    <3>1. AllOuts' = AllOuts /\ AllExits' = AllExits
      BY <2>1, <2>3, NothingSent, CountsKept DEF SysInv
    <3> QED
      BY <1>15, <2>3, <3>1 DEF EmitExited, NowInv, AfterInv
  <2> QED
    BY <1>15, <2>2, <2>3, Zenon DEF EmitExited
<1>16. CASE CloseDone
  <2>0. UNCHANGED <<socket, journal>>
    BY <1>16, Zenon DEF CloseDone
  <2>1. AllOuts' = AllOuts /\ AllExits' = AllExits
    BY <2>0, NothingSent, CountsKept DEF SysInv
  <2> QED
    BY <1>0, <1>16, <2>1 DEF CloseDone, NowInv, AfterInv
<1>17. CASE MainExited
  <2>0. UNCHANGED <<socket, journal>>
    BY <1>17, Zenon DEF MainExited
  <2>1. AllOuts' = AllOuts /\ AllExits' = AllExits
    BY <2>0, NothingSent, CountsKept DEF SysInv
  <2> QED
    BY <1>0, <1>17, <2>1 DEF MainExited, NowInv, AfterInv
<1>18. CASE StopTimeout
  <2>0. UNCHANGED <<socket, journal>>
    BY <1>18, Zenon DEF StopTimeout
  <2>1. AllOuts' = AllOuts /\ AllExits' = AllExits
    BY <2>0, NothingSent, CountsKept DEF SysInv
  <2> QED
    BY <1>0, <1>18, <2>1 DEF StopTimeout, NowInv, AfterInv
<1>19. CASE StartTransient
  <2>0. UNCHANGED <<socket, journal>>
    BY <1>19, Zenon DEF StartTransient
  <2>1. AllOuts' = AllOuts /\ AllExits' = AllExits
    BY <2>0, NothingSent, CountsKept DEF SysInv
  <2> QED
    BY <1>0, <1>19, <2>1 DEF StartTransient, NowInv, AfterInv
<1>20. CASE StopUnit
  <2>0. UNCHANGED <<socket, journal>>
    BY <1>20, Zenon DEF StopUnit
  <2>1. AllOuts' = AllOuts /\ AllExits' = AllExits
    BY <2>0, NothingSent, CountsKept DEF SysInv
  <2> QED
    BY <1>0, <1>20, <2>1 DEF StopUnit, NowInv, AfterInv
<1>21. CASE KillUnit
  <2>0. UNCHANGED <<socket, journal>>
    BY <1>21, Zenon DEF KillUnit
  <2>1. AllOuts' = AllOuts /\ AllExits' = AllExits
    BY <2>0, NothingSent, CountsKept DEF SysInv
  <2> QED
    BY <1>0, <1>21, <2>1 DEF KillUnit, NowInv, AfterInv
<1>22. CASE WriteSync
  <2>0. Rec("event", 0) \in Records /\ Rec("event", 0).kind = "event"
    BY DEF Rec, Records, SysInv, TypeInv
  <2>1. journal' = journal
    BY <1>22, Zenon DEF WriteSync
  <2>2. CASE socket' = Append(socket, Rec("event", 0)) /\ lost' = lost
    <3>1. /\ AllSent \in Nat /\ AllSent' = AllSent + 1
          /\ \A k \in 1..AllSent : Sent(k)' = Sent(k)
          /\ \A k : k = AllSent + 1 => Sent(k)' = Rec("event", 0)
      BY <2>0, <2>1, <2>2, OneSent, Zenon DEF SysInv
    <3>2. /\ "event" # "output" => AllOuts' = AllOuts
          /\ "event" = "output" => Cardinality(AllOuts') = Cardinality(AllOuts) + 1
          /\ "event" # "exited" => AllExits' = AllExits
          /\ "event" = "exited" => AllExits' # {}
      BY <2>0, <3>1, CountsSent, Zenon DEF SysInv
    <3> QED
      <4>2. NowInv'
        BY <1>0, <1>22, <2>2, <3>2 DEF WriteSync, NowInv
      <4>3. AfterInv'
        BY <1>22, <2>2, <3>2 DEF WriteSync, AfterInv
      <4> QED
        BY <4>2, <4>3
  <2>3. CASE socket' = socket /\ UNCHANGED <<made, lost, inc, task, main, lines>>
    <3>1. AllOuts' = AllOuts /\ AllExits' = AllExits
      BY <2>1, <2>3, NothingSent, CountsKept DEF SysInv
    <3> QED
      BY <1>22, <2>3, <3>1 DEF WriteSync, NowInv, AfterInv
  <2> QED
    BY <1>22, <2>2, <2>3, Zenon DEF WriteSync
<1> QED
  BY <1>1, <1>2, <1>3, <1>4, <1>5, <1>6, <1>7, <1>8, <1>9, <1>10,
     <1>11, <1>12, <1>13, <1>14, <1>15, <1>16, <1>17, <1>18, <1>19, <1>20,
     <1>21, <1>22
  DEF SysNext, Main, TaskStep, Commands

(* A step that sends nothing, and one that sends a record, keep the count of the      *)
(* first exit.                                                               *)
LEMMA PastKept ==
    ASSUME PastInv, AllSent \in Nat, AllSent' = AllSent, lost => lost',
           \A k \in 1..AllSent : Sent(k)' = Sent(k),
           AllExits # {} => made'[1] = made[1]
    PROVE  PastInv'
<1> SUFFICES ASSUME ~lost', NEW e \in 1..AllSent', Exits(e)' = {e}
             PROVE  Sent(e)'.inc = 1 /\ made'[1] = Cardinality(Outs(e)')
  BY Zenon DEF PastInv
<1>1. e \in 1..AllSent /\ e \in 0..AllSent
  BY SMT
<1>2. Outs(e)' = Outs(e) /\ Exits(e)' = Exits(e) /\ Sent(e)' = Sent(e)
  BY <1>1, PastIsFixed, Zenon
<1>3. e \in AllExits
  <2>1. e \in Exits(e)
    BY <1>2
  <2> QED
    BY <1>1, <2>1 DEF Exits, AllExits
<1> QED
  BY <1>1, <1>2, <1>3, Zenon DEF PastInv

LEMMA PastSent ==
    ASSUME PastInv, NEW r, AllSent \in Nat, AllSent' = AllSent + 1, lost => lost',
           \A k \in 1..AllSent : Sent(k)' = Sent(k),
           \A k : k = AllSent + 1 => Sent(k)' = r,
           AllExits # {} => made'[1] = made[1],
           ~lost' /\ AllExits = {} /\ r.kind = "exited"
               => r.inc = 1 /\ made'[1] = Cardinality(AllOuts)
    PROVE  PastInv'
<1> SUFFICES ASSUME ~lost', NEW e \in 1..AllSent', Exits(e)' = {e}
             PROVE  Sent(e)'.inc = 1 /\ made'[1] = Cardinality(Outs(e)')
  BY Zenon DEF PastInv
<1>1. CASE e \in 1..AllSent
  <2>1. e \in 0..AllSent
    BY <1>1, SMT
  <2>2. Outs(e)' = Outs(e) /\ Exits(e)' = Exits(e) /\ Sent(e)' = Sent(e)
    BY <1>1, <2>1, PastIsFixed, Zenon
  <2>3. e \in AllExits
    <3>1. e \in Exits(e)
      BY <2>2
    <3> QED
      BY <1>1, <3>1 DEF Exits, AllExits
  <2> QED
    BY <1>1, <2>2, <2>3, Zenon DEF PastInv
<1>2. CASE e = AllSent + 1
  <2>1. Sent(e)' = r /\ 1..e = (1..AllSent) \cup {e} /\ e \notin 1..AllSent
    BY <1>2, SMT
  <2>2. r.kind = "exited"
    <3>1. e \in Exits(e)'
      OBVIOUS
    <3> QED
      BY <2>1, <3>1, Zenon DEF Exits
  <2>3. AllExits = {}
    <3>1. ASSUME NEW k \in AllExits
          PROVE  FALSE
      <4>1. k \in 1..AllSent /\ Sent(k)'.kind = "exited"
        BY <3>1, Zenon DEF AllExits
      <4>2. k \in Exits(e)'
        BY <2>1, <4>1, Zenon DEF Exits
      <4> QED
        BY <2>1, <4>1, <4>2, Zenon
    <3> QED
      BY <3>1, Zenon
  <2>4. Outs(e)' = AllOuts
    <3>1. \A k \in 1..e : Sent(k)'.kind = "output" <=> k \in 1..AllSent /\ Sent(k).kind = "output"
      BY <2>1, <2>2
    <3> QED
      BY <2>1, <3>1 DEF Outs, AllOuts
  <2> QED
    BY <2>1, <2>2, <2>3, <2>4, Zenon
<1> QED
  BY <1>1, <1>2, SMT

(* The count of the first exit is final.                                     *)
LEMMA PastStep == SysInv /\ [SysNext]_sysVars => PastInv'
<1> SUFFICES ASSUME SysInv, [SysNext]_sysVars PROVE PastInv'
  OBVIOUS
<1>0. IsFiniteSet(AllOuts) /\ Cardinality(AllOuts) \in Nat
  BY OutsAreFinite DEF SysInv
<1> USE DEF sysVars, hostVars, cmdVars, followVars, hostOnly, sysOnly, readOnly, histOnly,
      SocketWrite, KillCgroup
<1>1. CASE Boot \/ Spawn \/ Notify \/ NotifyFail \/ Select \/ TaskDone \/ TaskExit
           \/ CloseDone \/ MainExited \/ StopTimeout \/ StartTransient
           \/ StartReturns \/ StopUnit \/ KillUnit \/ FollowSession
           \/ FollowDetaches \/ HistoryStarted \/ HistoryLive \/ HistoryExited
           \/ WaitForNonce \/ FollowNext \/ ReceiveEvent \/ CheckUnit
           \/ CheckUnitFails \/ UNCHANGED sysVars
  <2>0. UNCHANGED <<socket, journal, made, lost>>
    BY <1>1, Zenon DEF Boot, Spawn, Notify, NotifyFail, Select, TaskDone, TaskExit,
            CloseDone, MainExited, StopTimeout, StartTransient,
            StartReturns, StopUnit, KillUnit, FollowSession, FollowDetaches,
            HistoryStarted, HistoryLive, HistoryExited, WaitForNonce,
            FollowNext, ReceiveEvent, CheckUnit, CheckUnitFails, sysVars
  <2>1. AllSent \in Nat /\ AllSent' = AllSent /\ \A k \in 1..AllSent : Sent(k)' = Sent(k)
    BY <2>0, NothingSent, Zenon DEF SysInv
  <2> QED
    BY <2>0, <2>1, PastKept, Zenon DEF SysInv
<1>2. CASE Ingest
  <2>0. socket # <<>> /\ journal' = Append(journal, Head(socket)) /\ socket' = Tail(socket)
    BY <1>2, Zenon DEF Ingest
  <2>1. lost => lost'
    BY <1>2, Zenon DEF Ingest
  <2>2. AllExits # {} => made'[1] = made[1]
    BY <1>2 DEF Ingest, SysInv, TypeInv, LifeInv, AfterInv, Fails
  <2>3. AllSent \in Nat /\ AllSent' = AllSent /\ \A k \in 1..AllSent : Sent(k)' = Sent(k)
    BY <2>0, NothingSent, Zenon DEF SysInv
  <2> QED
    BY <2>1, <2>2, <2>3, PastKept, Zenon DEF SysInv
<1>3. CASE FailStart
  <2>1. CASE main = "failStart"
    <3>1. Rec("started", 1) \in Records /\ Rec("started", 1).kind = "started" /\ Rec("started", 1).inc = 1
      BY DEF Rec, Records
    <3>2. socket' = Append(socket, Rec("started", 1)) /\ journal' = journal
      BY <1>3, <2>1 DEF FailStart
    <3>3. /\ AllSent \in Nat /\ AllSent' = AllSent + 1
          /\ \A k \in 1..AllSent : Sent(k)' = Sent(k)
          /\ \A k : k = AllSent + 1 => Sent(k)' = Rec("started", 1)
      BY <3>1, <3>2, OneSent, Zenon DEF SysInv
    <3>4. lost' = lost
      BY <1>3, Zenon DEF FailStart
    <3>5. AllExits # {} => made'[1] = made[1]
      BY <1>3, <2>1 DEF FailStart, SysInv, TypeInv, LifeInv, AfterInv, Fails
    <3>6. ~lost' /\ AllExits = {} /\ "started" = "exited" => made'[1] = Cardinality(AllOuts)
      BY <1>0, <1>3, <2>1, <3>4 DEF FailStart, SysInv, TypeInv, LifeInv, NowInv, Fails
    <3> QED
      BY <3>1, <3>3, <3>4, <3>5, <3>6, PastSent, Zenon DEF SysInv
  <2>2. CASE main = "failOutput"
    <3>1. Rec("output", 1) \in Records /\ Rec("output", 1).kind = "output" /\ Rec("output", 1).inc = 1
      BY DEF Rec, Records
    <3>2. socket' = Append(socket, Rec("output", 1)) /\ journal' = journal
      BY <1>3, <2>2 DEF FailStart
    <3>3. /\ AllSent \in Nat /\ AllSent' = AllSent + 1
          /\ \A k \in 1..AllSent : Sent(k)' = Sent(k)
          /\ \A k : k = AllSent + 1 => Sent(k)' = Rec("output", 1)
      BY <3>1, <3>2, OneSent, Zenon DEF SysInv
    <3>4. lost' = lost
      BY <1>3, Zenon DEF FailStart
    <3>5. AllExits # {} => made'[1] = made[1]
      BY <1>3, <2>2 DEF FailStart, SysInv, TypeInv, LifeInv, AfterInv, Fails
    <3>6. ~lost' /\ AllExits = {} /\ "output" = "exited" => made'[1] = Cardinality(AllOuts)
      BY <1>0, <1>3, <2>2, <3>4 DEF FailStart, SysInv, TypeInv, LifeInv, NowInv, Fails
    <3> QED
      BY <3>1, <3>3, <3>4, <3>5, <3>6, PastSent, Zenon DEF SysInv
  <2>3. CASE main = "failExited"
    <3>1. Rec("exited", 1) \in Records /\ Rec("exited", 1).kind = "exited" /\ Rec("exited", 1).inc = 1
      BY DEF Rec, Records
    <3>2. socket' = Append(socket, Rec("exited", 1)) /\ journal' = journal
      BY <1>3, <2>3 DEF FailStart
    <3>3. /\ AllSent \in Nat /\ AllSent' = AllSent + 1
          /\ \A k \in 1..AllSent : Sent(k)' = Sent(k)
          /\ \A k : k = AllSent + 1 => Sent(k)' = Rec("exited", 1)
      BY <3>1, <3>2, OneSent, Zenon DEF SysInv
    <3>4. lost' = lost
      BY <1>3, Zenon DEF FailStart
    <3>5. AllExits # {} => made'[1] = made[1]
      BY <1>3, <2>3 DEF FailStart, SysInv, TypeInv, LifeInv, AfterInv, Fails
    <3>6. ~lost' /\ AllExits = {} /\ "exited" = "exited" => made'[1] = Cardinality(AllOuts)
      BY <1>0, <1>3, <2>3, <3>4 DEF FailStart, SysInv, TypeInv, LifeInv, NowInv, Fails
    <3> QED
      BY <3>1, <3>3, <3>4, <3>5, <3>6, PastSent, Zenon DEF SysInv
  <2> QED
    BY <1>3, <2>1, <2>2, <2>3 DEF FailStart
<1>4. CASE FailStartWrite
  <2>0. UNCHANGED <<socket, journal>>
    BY <1>4, Zenon DEF FailStartWrite
  <2>1. lost => lost'
    BY <1>4, Zenon DEF FailStartWrite
  <2>2. AllExits # {} => made'[1] = made[1]
    BY <1>4 DEF FailStartWrite, SysInv, TypeInv, LifeInv, AfterInv, Fails
  <2>3. AllSent \in Nat /\ AllSent' = AllSent /\ \A k \in 1..AllSent : Sent(k)' = Sent(k)
    BY <2>0, NothingSent, Zenon DEF SysInv
  <2> QED
    BY <2>1, <2>2, <2>3, PastKept, Zenon DEF SysInv
<1>5. CASE EmitStarted
  <2>0. Rec("started", inc) \in Records /\ Rec("started", inc).kind = "started"
        /\ Rec("started", inc).inc = inc
    BY DEF Rec, Records, SysInv, TypeInv
  <2>1. journal' = journal
    BY <1>5, Zenon DEF EmitStarted
  <2>2. CASE socket' = Append(socket, Rec("started", inc)) /\ lost' = lost
    <3>1. /\ AllSent \in Nat /\ AllSent' = AllSent + 1
          /\ \A k \in 1..AllSent : Sent(k)' = Sent(k)
          /\ \A k : k = AllSent + 1 => Sent(k)' = Rec("started", inc)
      BY <2>0, <2>1, <2>2, OneSent, Zenon DEF SysInv
    <3>2. AllExits # {} => made'[1] = made[1]
      BY <1>5 DEF EmitStarted, SysInv, TypeInv, LifeInv, AfterInv, Fails
    <3>3. ~lost' /\ AllExits = {} /\ "started" = "exited"
              => inc = 1 /\ made'[1] = Cardinality(AllOuts)
      BY <1>0, <1>5, <2>2 DEF EmitStarted, SysInv, TypeInv, LifeInv, NowInv, Fails
    <3> QED
      BY <2>0, <2>2, <3>1, <3>2, <3>3, PastSent, Zenon DEF SysInv
  <2>3. CASE socket' = socket /\ lost'
    <3>1. lost' \/ UNCHANGED <<made, lost>>
      BY <2>3, Zenon
    <3>2. AllSent \in Nat /\ AllSent' = AllSent /\ \A k \in 1..AllSent : Sent(k)' = Sent(k)
      BY <2>1, <2>3, NothingSent, Zenon DEF SysInv
    <3>3. CASE lost'
      BY <3>3, Zenon DEF PastInv
    <3>4. CASE UNCHANGED <<made, lost>>
      BY <3>2, <3>4, PastKept, Zenon DEF SysInv
    <3> QED
      BY <3>1, <3>3, <3>4
  <2> QED
    BY <1>5, <2>2, <2>3, Zenon DEF EmitStarted
<1>6. CASE TaskPrint
  <2>0. UNCHANGED <<socket, journal>>
    BY <1>6, Zenon DEF TaskPrint
  <2>1. lost => lost'
    BY <1>6, Zenon DEF TaskPrint
  <2>2. AllExits # {} => made'[1] = made[1]
    BY <1>6 DEF TaskPrint, SysInv, TypeInv, LifeInv, AfterInv, Fails
  <2>3. AllSent \in Nat /\ AllSent' = AllSent /\ \A k \in 1..AllSent : Sent(k)' = Sent(k)
    BY <2>0, NothingSent, Zenon DEF SysInv
  <2> QED
    BY <2>1, <2>2, <2>3, PastKept, Zenon DEF SysInv
<1>7. CASE WriteOutput
  <2>0. Rec("output", inc) \in Records /\ Rec("output", inc).kind = "output"
        /\ Rec("output", inc).inc = inc
    BY DEF Rec, Records, SysInv, TypeInv
  <2>1. journal' = journal
    BY <1>7, Zenon DEF WriteOutput
  <2>2. CASE socket' = Append(socket, Rec("output", inc)) /\ lost' = lost
    <3>1. /\ AllSent \in Nat /\ AllSent' = AllSent + 1
          /\ \A k \in 1..AllSent : Sent(k)' = Sent(k)
          /\ \A k : k = AllSent + 1 => Sent(k)' = Rec("output", inc)
      BY <2>0, <2>1, <2>2, OneSent, Zenon DEF SysInv
    <3>2. AllExits # {} => made'[1] = made[1]
      BY <1>7 DEF WriteOutput, SysInv, TypeInv, LifeInv, AfterInv, Fails
    <3>3. ~lost' /\ AllExits = {} /\ "output" = "exited"
              => inc = 1 /\ made'[1] = Cardinality(AllOuts)
      BY <1>0, <1>7, <2>2 DEF WriteOutput, SysInv, TypeInv, LifeInv, NowInv, Fails
    <3> QED
      BY <2>0, <2>2, <3>1, <3>2, <3>3, PastSent, Zenon DEF SysInv
  <2>3. CASE socket' = socket /\ lost'
    <3>1. lost' \/ UNCHANGED <<made, lost>>
      BY <2>3, Zenon
    <3>2. AllSent \in Nat /\ AllSent' = AllSent /\ \A k \in 1..AllSent : Sent(k)' = Sent(k)
      BY <2>1, <2>3, NothingSent, Zenon DEF SysInv
    <3>3. CASE lost'
      BY <3>3, Zenon DEF PastInv
    <3>4. CASE UNCHANGED <<made, lost>>
      BY <3>2, <3>4, PastKept, Zenon DEF SysInv
    <3> QED
      BY <3>1, <3>3, <3>4
  <2> QED
    BY <1>7, <2>2, <2>3, Zenon DEF WriteOutput
<1>8. CASE EmitExited
  <2>0. Rec("exited", inc) \in Records /\ Rec("exited", inc).kind = "exited"
        /\ Rec("exited", inc).inc = inc
    BY DEF Rec, Records, SysInv, TypeInv
  <2>1. journal' = journal
    BY <1>8, Zenon DEF EmitExited
  <2>2. CASE socket' = Append(socket, Rec("exited", inc)) /\ lost' = lost
    <3>1. /\ AllSent \in Nat /\ AllSent' = AllSent + 1
          /\ \A k \in 1..AllSent : Sent(k)' = Sent(k)
          /\ \A k : k = AllSent + 1 => Sent(k)' = Rec("exited", inc)
      BY <2>0, <2>1, <2>2, OneSent, Zenon DEF SysInv
    <3>2. AllExits # {} => made'[1] = made[1]
      BY <1>8 DEF EmitExited, SysInv, TypeInv, LifeInv, AfterInv, Fails
    <3>3. ~lost' /\ AllExits = {} /\ "exited" = "exited"
              => inc = 1 /\ made'[1] = Cardinality(AllOuts)
      BY <1>0, <1>8, <2>2 DEF EmitExited, SysInv, TypeInv, LifeInv, NowInv, Fails
    <3> QED
      BY <2>0, <2>2, <3>1, <3>2, <3>3, PastSent, Zenon DEF SysInv
  <2>3. CASE socket' = socket /\ lost'
    <3>1. lost' \/ UNCHANGED <<made, lost>>
      BY <2>3, Zenon
    <3>2. AllSent \in Nat /\ AllSent' = AllSent /\ \A k \in 1..AllSent : Sent(k)' = Sent(k)
      BY <2>1, <2>3, NothingSent, Zenon DEF SysInv
    <3>3. CASE lost'
      BY <3>3, Zenon DEF PastInv
    <3>4. CASE UNCHANGED <<made, lost>>
      BY <3>2, <3>4, PastKept, Zenon DEF SysInv
    <3> QED
      BY <3>1, <3>3, <3>4
  <2> QED
    BY <1>8, <2>2, <2>3, Zenon DEF EmitExited
<1>9. CASE WriteSync
  <2>0. Rec("event", 0) \in Records /\ Rec("event", 0).kind = "event"
        /\ Rec("event", 0).inc = 0
    BY DEF Rec, Records, SysInv, TypeInv
  <2>1. journal' = journal
    BY <1>9, Zenon DEF WriteSync
  <2>2. CASE socket' = Append(socket, Rec("event", 0)) /\ lost' = lost
    <3>1. /\ AllSent \in Nat /\ AllSent' = AllSent + 1
          /\ \A k \in 1..AllSent : Sent(k)' = Sent(k)
          /\ \A k : k = AllSent + 1 => Sent(k)' = Rec("event", 0)
      BY <2>0, <2>1, <2>2, OneSent, Zenon DEF SysInv
    <3>2. AllExits # {} => made'[1] = made[1]
      BY <1>9 DEF WriteSync, SysInv, TypeInv, LifeInv, AfterInv, Fails
    <3>3. ~lost' /\ AllExits = {} /\ "event" = "exited"
              => 0 = 1 /\ made'[1] = Cardinality(AllOuts)
      BY <1>0, <1>9, <2>2 DEF WriteSync, SysInv, TypeInv, LifeInv, NowInv, Fails
    <3> QED
      BY <2>0, <2>2, <3>1, <3>2, <3>3, PastSent, Zenon DEF SysInv
  <2>3. CASE socket' = socket /\ UNCHANGED <<made, lost>>
    <3>1. lost' \/ UNCHANGED <<made, lost>>
      BY <2>3, Zenon
    <3>2. AllSent \in Nat /\ AllSent' = AllSent /\ \A k \in 1..AllSent : Sent(k)' = Sent(k)
      BY <2>1, <2>3, NothingSent, Zenon DEF SysInv
    <3>3. CASE lost'
      BY <3>3, Zenon DEF PastInv
    <3>4. CASE UNCHANGED <<made, lost>>
      BY <3>2, <3>4, PastKept, Zenon DEF SysInv
    <3> QED
      BY <3>1, <3>3, <3>4
  <2> QED
    BY <1>9, <2>2, <2>3, Zenon DEF WriteSync
<1> QED
  BY <1>1, <1>2, <1>3, <1>4, <1>5, <1>6, <1>7, <1>8, <1>9
  DEF SysNext, Main, TaskStep, Commands

Grows ==
    /\ Len(journal) \in Nat /\ Len(journal') \in Nat /\ Len(journal) <= Len(journal')
    /\ \A k \in 1..Len(journal) : journal'[k] = journal[k]

(* The journal only grows, at its end.                                       *)
LEMMA JournalStep == SysInv /\ [SysNext]_sysVars => Grows
<1> SUFFICES ASSUME SysInv, [SysNext]_sysVars PROVE Grows
  OBVIOUS
<1> USE DEF Grows, SysInv, LogInv, sysVars, hostVars, cmdVars, followVars, hostOnly, sysOnly,
      readOnly, histOnly, SocketWrite, KillCgroup
<1>1. CASE Boot \/ FailStart \/ FailStartWrite \/ Spawn \/ EmitStarted \/ Notify
           \/ NotifyFail \/ Select \/ TaskDone \/ TaskPrint \/ TaskExit
           \/ WriteOutput \/ EmitExited \/ CloseDone \/ MainExited \/ StopTimeout
           \/ StartTransient \/ StartReturns \/ StopUnit \/ KillUnit
           \/ FollowSession \/ FollowDetaches \/ HistoryStarted \/ HistoryLive
           \/ HistoryExited \/ WriteSync \/ WaitForNonce \/ FollowNext
           \/ ReceiveEvent \/ CheckUnit \/ CheckUnitFails \/ UNCHANGED sysVars
  <2>1. journal' = journal
    BY <1>1, Zenon DEF Boot, FailStart, FailStartWrite, Spawn, EmitStarted, Notify,
            NotifyFail, Select, TaskDone, TaskPrint, TaskExit, WriteOutput,
            EmitExited, CloseDone, MainExited, StopTimeout, StartTransient,
            StartReturns, StopUnit, KillUnit, FollowSession, FollowDetaches,
            HistoryStarted, HistoryLive, HistoryExited, WriteSync,
            WaitForNonce, FollowNext, ReceiveEvent, CheckUnit,
            CheckUnitFails, sysVars
  <2> QED
    BY <2>1
<1>2. CASE Ingest
  <2> HIDE DEF Records
  <2> QED
    BY <1>2 DEF Ingest
<1> QED
  BY <1>1, <1>2
  DEF SysNext, Main, TaskStep, Commands

(* What was received stays what it is.                                        *)
LEMMA GotIsFixed ==
    ASSUME got \in Nat, got <= Len(journal), got' = got, Grows
    PROVE  GotOuts' = GotOuts /\ GotExits' = GotExits
<1>1. \A k \in 1..got : journal'[k] = journal[k]
  BY DEF Grows
<1> QED
  BY <1>1, Zenon DEF GotOuts, GotExits

(* The follower receives the next record.                                     *)
LEMMA GotOne ==
    ASSUME got \in Nat, got' = got + 1, got' <= Len(journal), journal' = journal
    PROVE  /\ GotOuts' = IF journal[got'].kind = "output" THEN GotOuts \cup {got'} ELSE GotOuts
           /\ GotExits' = IF journal[got'].kind = "exited" THEN GotExits \cup {got'}
                                                          ELSE GotExits
           /\ IsFiniteSet(GotOuts) /\ Cardinality(GotOuts) \in Nat
           /\ Cardinality(GotOuts \cup {got'}) = Cardinality(GotOuts) + 1
<1>1. 1..got' = (1..got) \cup {got'} /\ got' \notin 1..got
  BY SMT
<1>2. /\ GotOuts' = IF journal[got'].kind = "output" THEN GotOuts \cup {got'} ELSE GotOuts
      /\ GotExits' = IF journal[got'].kind = "exited" THEN GotExits \cup {got'} ELSE GotExits
  BY <1>1, Zenon DEF GotOuts, GotExits
<1>3. IsFiniteSet(1..got) /\ GotOuts \in SUBSET (1..got)
  BY FS_Interval DEF GotOuts
<1>4. IsFiniteSet(GotOuts) /\ Cardinality(GotOuts) \in Nat
  BY <1>3, FS_Subset, FS_CardinalityType, Zenon
<1>5. got' \notin GotOuts
  BY <1>1, <1>3, Zenon
<1>6. Cardinality(GotOuts \cup {got'}) = Cardinality(GotOuts) + 1
  BY <1>4, <1>5, FS_AddElement, Zenon
<1> QED
  BY <1>2, <1>4, <1>6

(* The follower prints what it receives.                                     *)
LEMMA FollowStep == SysInv /\ [SysNext]_sysVars => FollowInv'
<1> SUFFICES ASSUME SysInv, [SysNext]_sysVars PROVE FollowInv'
  OBVIOUS
<1>0. Grows
  BY JournalStep
<1> USE DEF sysVars, hostVars, cmdVars, followVars, hostOnly, sysOnly, readOnly, histOnly,
      SocketWrite, KillCgroup
<1>1. CASE Ingest \/ Boot \/ FailStart \/ FailStartWrite \/ Spawn \/ EmitStarted
           \/ Notify \/ NotifyFail \/ Select \/ TaskDone \/ TaskPrint \/ TaskExit
           \/ WriteOutput \/ EmitExited \/ CloseDone \/ MainExited \/ StopTimeout
           \/ StartTransient \/ StartReturns \/ StopUnit \/ KillUnit
           \/ HistoryStarted \/ HistoryLive \/ HistoryExited \/ UNCHANGED sysVars
  <2>1. UNCHANGED <<follow, offered, got, printed, reader>>
    BY <1>1, Zenon DEF Ingest, Boot, FailStart, FailStartWrite, Spawn, EmitStarted, Notify,
            NotifyFail, Select, TaskDone, TaskPrint, TaskExit, WriteOutput,
            EmitExited, CloseDone, MainExited, StopTimeout, StartTransient,
            StartReturns, StopUnit, KillUnit, HistoryStarted, HistoryLive,
            HistoryExited, sysVars
  <2>2. GotOuts' = GotOuts /\ GotExits' = GotExits
    BY <1>0, <2>1, GotIsFixed DEF SysInv, FollowInv
  <2> QED
    BY <1>0, <2>1, <2>2 DEF SysInv, FollowInv, Grows
<1>2. CASE FollowSession
  <2>1. UNCHANGED <<got, reader, printed>>
    BY <1>2, Zenon DEF FollowSession
  <2>2. GotOuts' = GotOuts /\ GotExits' = GotExits
    BY <1>0, <2>1, GotIsFixed DEF SysInv, FollowInv
  <2> QED
    BY <1>0, <1>2, <2>1, <2>2 DEF FollowSession, SysInv, FollowInv, Grows
<1>3. CASE FollowDetaches
  <2>1. got' = 0 /\ offered' = 0 /\ printed' = 0 /\ follow' = "detached"
        /\ reader' = reader /\ reader = "follow"
    BY <1>3 DEF FollowDetaches, SysInv, FollowInv
  <2>2. 1..got' = {}
    BY <2>1
  <2>3. GotOuts' = {} /\ Cardinality(GotOuts') = 0
    BY <2>2, FS_EmptySet, Zenon DEF GotOuts
  <2> QED
    BY <1>0, <2>1, <2>3 DEF FollowInv, Grows
<1>4. CASE WriteSync
  <2>1. UNCHANGED <<got, reader, printed>>
    BY <1>4, Zenon DEF WriteSync
  <2>2. GotOuts' = GotOuts /\ GotExits' = GotExits
    BY <1>0, <2>1, GotIsFixed DEF SysInv, FollowInv
  <2> QED
    BY <1>0, <1>4, <2>1, <2>2 DEF WriteSync, SysInv, FollowInv, Grows
<1>5. CASE WaitForNonce
  <2>1. UNCHANGED <<got, reader, printed>>
    BY <1>5, Zenon DEF WaitForNonce
  <2>2. GotOuts' = GotOuts /\ GotExits' = GotExits
    BY <1>0, <2>1, GotIsFixed DEF SysInv, FollowInv
  <2> QED
    BY <1>0, <1>5, <2>1, <2>2 DEF WaitForNonce, SysInv, FollowInv, Grows
<1>6. CASE FollowNext
  <2>1. UNCHANGED <<got, reader, printed>>
    BY <1>6, Zenon DEF FollowNext
  <2>2. GotOuts' = GotOuts /\ GotExits' = GotExits
    BY <1>0, <2>1, GotIsFixed DEF SysInv, FollowInv
  <2> QED
    BY <1>0, <1>6, <2>1, <2>2 DEF FollowNext, SysInv, FollowInv, Grows
<1>7. CASE ReceiveEvent
  <2>1. /\ follow = "select" /\ got' = got + 1 /\ offered = got' /\ offered' = 0
        /\ reader' = reader /\ reader = "follow" /\ journal' = journal
        /\ got \in Nat /\ got' <= Len(journal)
    BY <1>7 DEF ReceiveEvent, SysInv, FollowInv
  <2>2. /\ follow' = IF journal[got'].kind = "exited" THEN "completed" ELSE "select"
        /\ printed' = IF journal[got'].kind = "output" THEN printed + 1 ELSE printed
    BY <1>7, <2>1 DEF ReceiveEvent
  <2>3. /\ GotOuts' = IF journal[got'].kind = "output" THEN GotOuts \cup {got'} ELSE GotOuts
        /\ GotExits' = IF journal[got'].kind = "exited" THEN GotExits \cup {got'} ELSE GotExits
        /\ Cardinality(GotOuts \cup {got'}) = Cardinality(GotOuts) + 1
    BY <2>1, GotOne
  <2>4. GotExits = {} /\ printed = Cardinality(GotOuts)
    BY <2>1 DEF SysInv, FollowInv
  <2>5. printed' = Cardinality(GotOuts')
    BY <2>2, <2>3, <2>4
  <2>6. GotExits' = IF journal[got'].kind = "exited" THEN {got'} ELSE {}
    BY <2>3, <2>4
  <2> QED
    BY <2>1, <2>2, <2>5, <2>6 DEF FollowInv
<1>8. CASE CheckUnit
  <2>1. UNCHANGED <<got, reader, printed>>
    BY <1>8, Zenon DEF CheckUnit
  <2>2. GotOuts' = GotOuts /\ GotExits' = GotExits
    BY <1>0, <2>1, GotIsFixed DEF SysInv, FollowInv
  <2> QED
    BY <1>0, <1>8, <2>1, <2>2 DEF CheckUnit, SysInv, FollowInv, Grows
<1>9. CASE CheckUnitFails
  <2>1. UNCHANGED <<got, reader, printed>>
    BY <1>9, Zenon DEF CheckUnitFails
  <2>2. GotOuts' = GotOuts /\ GotExits' = GotExits
    BY <1>0, <2>1, GotIsFixed DEF SysInv, FollowInv
  <2> QED
    BY <1>0, <1>9, <2>1, <2>2 DEF CheckUnitFails, SysInv, FollowInv, Grows
<1> QED
  BY <1>1, <1>2, <1>3, <1>4, <1>5, <1>6, <1>7, <1>8, <1>9
  DEF SysNext, Main, TaskStep, Commands

LEMMA HistType ==
    SysInv => hist \in [pc : {"idle", "live", "exited", "done"}, begun : Nat, known : Nat,
                        status : {"none", "killed", "exited"}, inc : Nat, started : Nat]
BY DEF SysInv, HistInv

(* Who takes a session for gone was given a listing without it.               *)
LEMMA UnitStep == SysInv /\ [SysNext]_sysVars => UnitInv'
<1> SUFFICES ASSUME SysInv, [SysNext]_sysVars PROVE UnitInv'
  OBVIOUS
<1> USE DEF SysInv, TypeInv, LifeInv, Fails, UnitInv, FollowInv, Live, sysVars, hostVars, cmdVars,
      followVars, hostOnly, sysOnly, readOnly, histOnly, SocketWrite, KillCgroup
<1>1. CASE Ingest
  BY <1>1 DEF Ingest
<1>2. CASE Boot
  BY <1>2 DEF Boot
<1>3. CASE FailStart
  BY <1>3 DEF FailStart
<1>4. CASE FailStartWrite
  BY <1>4 DEF FailStartWrite
<1>5. CASE Spawn
  BY <1>5 DEF Spawn
<1>6. CASE EmitStarted
  BY <1>6 DEF EmitStarted
<1>7. CASE Notify
  BY <1>7 DEF Notify
<1>8. CASE NotifyFail
  BY <1>8 DEF NotifyFail
<1>9. CASE Select
  BY <1>9 DEF Select
<1>10. CASE TaskDone
  BY <1>10 DEF TaskDone
<1>11. CASE TaskPrint
  BY <1>11 DEF TaskPrint
<1>12. CASE TaskExit
  BY <1>12 DEF TaskExit
<1>13. CASE WriteOutput
  BY <1>13 DEF WriteOutput
<1>14. CASE EmitExited
  BY <1>14 DEF EmitExited
<1>15. CASE CloseDone
  BY <1>15 DEF CloseDone
<1>16. CASE MainExited
  BY <1>16 DEF MainExited
<1>17. CASE StopTimeout
  BY <1>17 DEF StopTimeout
<1>18. CASE StartTransient
  BY <1>18 DEF StartTransient
<1>19. CASE StartReturns
  BY <1>19 DEF StartReturns
<1>20. CASE StopUnit
  BY <1>20 DEF StopUnit
<1>21. CASE KillUnit
  BY <1>21 DEF KillUnit
<1>22. CASE FollowSession
  BY <1>22 DEF FollowSession
<1>23. CASE FollowDetaches
  BY <1>23 DEF FollowDetaches
<1>24. CASE HistoryStarted
  <2>1. /\ hist.pc = "idle" /\ reader = "history"
        /\ hist' = [hist EXCEPT !.pc = "live", !.begun = Len(journal),
                                !.started = LastOf(Kinds("started", Len(journal)))]
        /\ UNCHANGED <<unit, socket, journal, start, reader, follow, missing, busErrors>>
    BY <1>24 DEF HistoryStarted
  <2>2. LastOf(Kinds("started", Len(journal))) # 0 => unit # "none"
    <3> SUFFICES ASSUME unit = "none"
                 PROVE  LastOf(Kinds("started", Len(journal))) = 0
      OBVIOUS
    <3>1. Len(journal) = 0
      OBVIOUS
    <3>2. Kinds("started", Len(journal)) = {}
      BY <3>1 DEF Kinds
    <3> QED
      BY <3>2 DEF LastOf
  <2>3. /\ hist'.pc = "live" /\ hist'.status = hist.status
        /\ hist'.started = LastOf(Kinds("started", Len(journal)))
    BY <2>1, HistType
  <2> QED
    BY <2>1, <2>2, <2>3
<1>25. CASE HistoryLive
  <2>1. /\ hist.pc = "live"
        /\ UNCHANGED <<unit, socket, journal, start, reader, follow, missing>>
    BY <1>25 DEF HistoryLive
  <2>2. CASE List(TRUE) /\ hist' = [NoHistory EXCEPT !.pc = "done"]
    <3>1. hist'.pc = "done" /\ hist'.status = "none" /\ hist'.started = 0
      BY <2>2 DEF NoHistory
    <3>2. busErrors' = busErrors
      BY <2>2 DEF List
    <3> QED
      BY <2>1, <3>1, <3>2
  <2>3. CASE List(FALSE) /\ hist' = [hist EXCEPT !.pc = "exited", !.known = Len(journal)]
    <3>1. hist'.pc = "exited" /\ hist'.status = hist.status /\ hist'.started = hist.started
      BY <2>3, HistType
    <3>2. /\ busErrors' \in Nat /\ busErrors' >= busErrors
          /\ Live => busErrors' >= 1
      BY <2>3 DEF List
    <3>3. hist.status = "none"
      BY <2>1
    <3>4. hist.started # 0 /\ unit # "gone" => busErrors' >= 1
      BY <3>2
    <3> QED
      BY <2>1, <3>1, <3>2, <3>3, <3>4
  <2> QED
    BY <1>25, <2>2, <2>3, Zenon DEF HistoryLive
<1>26. CASE HistoryExited
  <2> DEFINE v == Status(hist.started, LastOf(Kinds("exited", Len(journal))))
  <2>1. /\ hist.pc = "exited"
        /\ hist' = [hist EXCEPT !.pc = "done", !.begun = 0, !.status = v.status, !.inc = v.inc]
        /\ UNCHANGED <<unit, socket, journal, start, reader, follow, missing, busErrors>>
    BY <1>26, Zenon DEF HistoryExited, Verdict
  <2>2. v.status = "killed" => hist.started # 0
    BY DEF Status
  <2> HIDE DEF v
  <2>3. hist'.pc = "done" /\ hist'.status = v.status /\ hist'.started = hist.started
    BY <2>1, HistType
  <2> QED
    BY <2>1, <2>2, <2>3
<1>27. CASE WriteSync
  BY <1>27 DEF WriteSync
<1>28. CASE WaitForNonce
  BY <1>28 DEF WaitForNonce
<1>29. CASE FollowNext
  BY <1>29 DEF FollowNext
<1>30. CASE ReceiveEvent
  BY <1>30 DEF ReceiveEvent
<1>31. CASE CheckUnit
  BY <1>31 DEF CheckUnit, List
<1>32. CASE CheckUnitFails
  BY <1>32 DEF CheckUnitFails
<1>33. CASE UNCHANGED sysVars
  BY <1>33 DEF sysVars
<1> QED
  BY <1>1, <1>2, <1>3, <1>4, <1>5, <1>6, <1>7, <1>8, <1>9, <1>10,
     <1>11, <1>12, <1>13, <1>14, <1>15, <1>16, <1>17, <1>18, <1>19, <1>20,
     <1>21, <1>22, <1>23, <1>24, <1>25, <1>26, <1>27, <1>28, <1>29, <1>30,
     <1>31, <1>32, <1>33
  DEF SysNext, Main, TaskStep, Commands

(* What the history has read does not change.                                    *)
LEMMA HistKept ==
    ASSUME HistInv, HistoryIsTruthful, hist' = hist, Grows
    PROVE  (HistInv /\ HistoryIsTruthful)'
<1>1. /\ hist.known \in Nat /\ hist.started \in Nat
      /\ \A k \in 1..hist.known : journal'[k] = journal[k]
      /\ hist.started # 0 => journal'[hist.started] = journal[hist.started]
  BY DEF HistInv, Grows
<1>2. HistInv'
  BY <1>1 DEF HistInv, Grows
<1>3. Kinds("exited", hist.known)' = Kinds("exited", hist.known)
  BY <1>1, Zenon DEF Kinds
<1>4. ASSUME NEW i \in Kinds("exited", hist.known)
      PROVE  /\ journal'[i] = journal[i]
             /\ ExitedEarly(i) => ExitedEarly(i)'
  <2>1. i \in 1..hist.known /\ i \in 1..Len(journal)
    BY <1>1 DEF Kinds, HistInv, Grows
  <2>2. \A k \in Kinds("started", Len(journal)) :
            k \in Kinds("started", Len(journal))' /\ journal'[k] = journal[k]
    BY DEF Kinds, Grows
  <2> QED
    BY <1>1, <2>1, <2>2, Zenon DEF ExitedEarly
<1>5. HistoryIsTruthful'
  BY <1>1, <1>3, <1>4, Zenon DEF HistoryIsTruthful
<1> QED
  BY <1>2, <1>5

(* The verdict: the last exit read is not before the last exit that was there when     *)
(* the session was found not to be live, and one that comes before the last start is    *)
(* of an earlier incarnation, or early.                                       *)
LEMMA VerdictIsTruthful ==
    ASSUME SysInv, HistoryExited
    PROVE  (HistInv /\ HistoryIsTruthful)'
<1> DEFINE exits == Kinds("exited", Len(journal))
           e == LastOf(exits)
           b == hist.started
<1>1. /\ Len(journal) \in Nat /\ b \in Nat /\ b <= Len(journal) /\ hist.known \in Nat
      /\ hist.known <= Len(journal) /\ (b # 0 => journal[b].kind = "started")
  BY DEF SysInv, LogInv, HistInv
<1>2. exits \in SUBSET (1..Len(journal))
  BY DEF Kinds
<1>3. (e = 0 /\ exits = {}) \/ e \in exits
  BY <1>1, <1>2, LastOfIsLast, Zenon
<1>4. \A k \in exits : k <= e
  BY <1>1, <1>2, LastOfIsLast, Zenon
<1>5. /\ hist' = [hist EXCEPT !.pc = "done", !.begun = 0, !.status = Status(b, e).status,
                              !.inc = Status(b, e).inc]
      /\ journal' = journal
  BY Zenon DEF HistoryExited, Verdict, histOnly
<1>6. \A k \in Kinds("exited", hist.known) : k \in exits
  BY <1>1 DEF Kinds
<1>7. e \in Nat /\ (e # 0 => e \in 1..Len(journal) /\ journal[e].kind = "exited")
  BY <1>1, <1>3 DEF Kinds
<1>8. \A k \in 1..Len(journal) : journal[k] \in Records
  <2> HIDE DEF Records
  <2> QED
    BY DEF SysInv, LogInv
<1>0. hist \in [pc : {"idle", "live", "exited", "done"}, begun : Nat, known : Nat,
               status : {"none", "killed", "exited"}, inc : Nat, started : Nat]
  BY DEF SysInv, HistInv
<1> HIDE DEF e, exits
<1>9. CASE e # 0 /\ (b = 0 \/ e >= b)
  <2>1. Status(b, e) = [status |-> "exited", inc |-> journal[e].inc]
    BY <1>9, Zenon DEF Status
  <2>2. journal[e].inc \in Nat
    BY <1>7, <1>8, <1>9 DEF Records
  <2>3. b # 0 => journal[e].inc >= journal[b].inc
    <3> SUFFICES ASSUME b # 0 PROVE journal[e].inc >= journal[b].inc
      OBVIOUS
    <3>1. /\ b \in 1..AllSent /\ e \in 1..AllSent /\ b < e
          /\ Sent(b) = journal[b] /\ Sent(e) = journal[e]
      BY <1>1, <1>7, <1>9 DEF AllSent, Sent, SysInv, LogInv
    <3>2. journal[b].inc <= journal[e].inc
      <4>1. journal[b].kind = "started" /\ journal[e].kind = "exited"
        BY <1>1, <1>7, <1>9
      <4> QED
        BY <3>1, <4>1 DEF SysInv, OrderInv
    <3>3. journal[b].inc \in Nat
      BY <1>1, <1>8 DEF Records
    <3> QED
      BY <2>2, <3>2, <3>3
  <2>4. hist' = [hist EXCEPT !.pc = "done", !.begun = 0, !.status = "exited", !.inc = journal[e].inc]
    BY <1>5, <2>1
  <2>5. /\ hist'.pc = "done" /\ hist'.status = "exited" /\ hist'.inc = journal[e].inc
        /\ hist'.started = b /\ hist'.known = hist.known
    BY <1>0, <2>4
  <2>6. HistInv'
    <3>1. hist' \in [pc : {"idle", "live", "exited", "done"}, begun : Nat, known : Nat,
                     status : {"none", "killed", "exited"}, inc : Nat, started : Nat]
      BY <1>0, <2>2, <2>4
    <3> QED
      BY <1>1, <1>5, <2>5, <3>1 DEF HistInv
  <2> QED
    BY <1>5, <2>3, <2>5, <2>6 DEF HistoryIsTruthful
<1>10. CASE e = 0 \/ (b # 0 /\ e < b)
  <2>1. Status(b, e) = [status |-> IF b = 0 THEN "none" ELSE "killed",
                        inc |-> IF b = 0 THEN 0 ELSE journal[b].inc]
    BY <1>1, <1>7, <1>10, SMT DEF Status
  <2>2. (IF b = 0 THEN 0 ELSE journal[b].inc) \in Nat
    BY <1>1, <1>8 DEF Records
  <2> DEFINE i == IF b = 0 THEN 0 ELSE journal[b].inc
             st == IF b = 0 THEN "none" ELSE "killed"
  <2>6. hist' = [hist EXCEPT !.pc = "done", !.begun = 0, !.status = st, !.inc = i]
    BY <1>5, <2>1
  <2>7. st \in {"none", "killed", "exited"} /\ i \in Nat
    BY <2>2
  <2>8. HistInv'
    <3> HIDE DEF i, st
    <3>1. hist' \in [pc : {"idle", "live", "exited", "done"}, begun : Nat, known : Nat,
                     status : {"none", "killed", "exited"}, inc : Nat, started : Nat]
      BY <1>0, <2>6, <2>7
    <3>2. hist'.known = hist.known /\ hist'.started = b
      BY <1>0, <2>6
    <3> QED
      BY <1>1, <1>5, <3>1, <3>2 DEF HistInv
  <2>3. /\ hist'.pc = "done" /\ hist'.status = IF b = 0 THEN "none" ELSE "killed"
        /\ hist'.started = b /\ hist'.known = hist.known /\ HistInv'
    BY <1>0, <2>6, <2>8
  <2>4. b # 0 => \A k \in Kinds("exited", hist.known) :
                     journal[k].inc < journal[b].inc \/ ExitedEarly(k)
    <3> SUFFICES ASSUME b # 0, NEW k \in Kinds("exited", hist.known)
                 PROVE  journal[k].inc < journal[b].inc \/ ExitedEarly(k)
      OBVIOUS
    <3>1. k \in exits /\ k \in 1..Len(journal) /\ journal[k].kind = "exited"
      BY <1>1, <1>6 DEF Kinds
    <3>2. k < b /\ b \in Kinds("started", Len(journal)) /\ b \in 1..Len(journal)
      BY <1>1, <1>4, <1>7, <1>10, <3>1 DEF Kinds
    <3>3. /\ b \in 1..AllSent /\ k \in 1..AllSent
          /\ Sent(b) = journal[b] /\ Sent(k) = journal[k]
      BY <1>1, <3>1, <3>2 DEF AllSent, Sent, SysInv, LogInv
    <3>4. journal[k].inc <= journal[b].inc
      BY <1>1, <3>1, <3>2, <3>3 DEF SysInv, OrderInv
    <3>5. journal[k].inc \in Nat /\ journal[b].inc \in Nat
      BY <1>8, <3>1, <3>2 DEF Records
    <3>6. journal[k].inc = journal[b].inc => ExitedEarly(k)
      BY <3>2, Zenon DEF ExitedEarly
    <3> QED
      BY <3>4, <3>5, <3>6
  <2>5. /\ Kinds("exited", hist.known)' = Kinds("exited", hist.known)
        /\ \A k : ExitedEarly(k)' <=> ExitedEarly(k)
    BY <1>5, <2>3, Zenon DEF Kinds, ExitedEarly
  <2>9. b # 0 => hist'.inc = journal[b].inc
    BY <1>0, <2>6
  <2>10. journal' = journal /\ hist'.status # "exited" /\ (hist'.status = "killed" => b # 0)
    BY <1>5, <2>3
  <2> HIDE DEF b
  <2> QED
    BY <2>3, <2>4, <2>5, <2>9, <2>10, Zenon DEF HistoryIsTruthful
<1> QED
  BY <1>1, <1>7, <1>9, <1>10

(* The history's readings.                                                   *)
LEMMA HistStep == SysInv /\ [SysNext]_sysVars => (HistInv /\ HistoryIsTruthful)'
<1> SUFFICES ASSUME SysInv, [SysNext]_sysVars PROVE (HistInv /\ HistoryIsTruthful)'
  OBVIOUS
<1>0. Grows
  BY JournalStep
<1> USE DEF sysVars, hostVars, cmdVars, followVars, hostOnly, sysOnly, readOnly, histOnly,
      SocketWrite, KillCgroup
<1>1. CASE Ingest \/ Boot \/ FailStart \/ FailStartWrite \/ Spawn \/ EmitStarted
           \/ Notify \/ NotifyFail \/ Select \/ TaskDone \/ TaskPrint \/ TaskExit
           \/ WriteOutput \/ EmitExited \/ CloseDone \/ MainExited \/ StopTimeout
           \/ StartTransient \/ StartReturns \/ StopUnit \/ KillUnit
           \/ FollowSession \/ FollowDetaches \/ WriteSync \/ WaitForNonce
           \/ FollowNext \/ ReceiveEvent \/ CheckUnit \/ CheckUnitFails
           \/ UNCHANGED sysVars
  <2>1. UNCHANGED hist
    BY <1>1, Zenon DEF Ingest, Boot, FailStart, FailStartWrite, Spawn, EmitStarted, Notify,
            NotifyFail, Select, TaskDone, TaskPrint, TaskExit, WriteOutput,
            EmitExited, CloseDone, MainExited, StopTimeout, StartTransient,
            StartReturns, StopUnit, KillUnit, FollowSession, FollowDetaches,
            WriteSync, WaitForNonce, FollowNext, ReceiveEvent, CheckUnit,
            CheckUnitFails, sysVars
  <2> QED
    BY <1>0, <2>1, HistKept DEF SysInv
<1>2. CASE HistoryStarted
  <2>1. /\ Len(journal) \in Nat /\ journal' = journal
        /\ Kinds("started", Len(journal)) \in SUBSET (1..Len(journal))
    BY <1>2 DEF HistoryStarted, SysInv, LogInv, Kinds
  <2> DEFINE b == LastOf(Kinds("started", Len(journal)))
  <2>2. b \in Nat /\ b <= Len(journal) /\ (b # 0 => journal[b].kind = "started")
    <3>1. b = 0 \/ b \in Kinds("started", Len(journal))
      BY <2>1, LastOfIsLast, Zenon
    <3> QED
      BY <2>1, <3>1 DEF Kinds
  <2>3. hist' = [hist EXCEPT !.pc = "live", !.begun = Len(journal), !.started = b]
    BY <1>2, Zenon DEF HistoryStarted
  <2> HIDE DEF b
  <2> QED
    BY <2>1, <2>2, <2>3 DEF SysInv, HistInv, HistoryIsTruthful
<1>3. CASE HistoryLive
  <2>1. Len(journal) \in Nat /\ journal' = journal
    BY <1>3 DEF HistoryLive, SysInv, LogInv
  <2>2. CASE List(TRUE) /\ hist' = [NoHistory EXCEPT !.pc = "done"]
    <3>1. hist' = [NoHistory EXCEPT !.pc = "done"]
      BY <2>2
    <3> QED
      BY <2>1, <3>1 DEF HistInv, HistoryIsTruthful, NoHistory
  <2>3. CASE List(FALSE) /\ hist' = [hist EXCEPT !.pc = "exited", !.known = Len(journal)]
    <3>1. hist' = [hist EXCEPT !.pc = "exited", !.known = Len(journal)]
      BY <2>3
    <3>a. hist \in [pc : {"idle", "live", "exited", "done"}, begun : Nat, known : Nat,
                    status : {"none", "killed", "exited"}, inc : Nat, started : Nat]
      BY DEF SysInv, HistInv
    <3>b. /\ hist'.known = Len(journal) /\ hist'.started = hist.started
          /\ hist' \in [pc : {"idle", "live", "exited", "done"}, begun : Nat, known : Nat,
                      status : {"none", "killed", "exited"}, inc : Nat, started : Nat]
      BY <2>1, <3>1, <3>a
    <3>2. HistInv'
      <4>1. hist.started <= Len(journal) /\ (hist.started # 0 => journal[hist.started].kind = "started")
        BY DEF SysInv, HistInv
      <4> QED
        BY <2>1, <3>b, <4>1 DEF HistInv
    <3>3. hist'.pc = "exited"
      BY <3>1 DEF SysInv, HistInv
    <3> QED
      BY <3>2, <3>3 DEF HistoryIsTruthful
  <2> QED
    BY <1>3, <2>2, <2>3, Zenon DEF HistoryLive
<1>4. CASE HistoryExited
  BY <1>4, VerdictIsTruthful
<1> QED
  BY <1>1, <1>2, <1>3, <1>4
  DEF SysNext, Main, TaskStep, Commands

LEMMA SysStepInv == SysInv /\ [SysNext]_sysVars => SysInv'
BY TypeStep, LogStep, LifeStep, OrderStep, CountStep, PastStep, FollowStep, UnitStep,
   HistStep, Zenon
   DEF SysInv

(* The invariant holds in every behaviour of a session on systemd.                  *)
THEOREM SystemdInvariant == SysSpec => []SysInv
<1>1. SysInit => SysInv
  BY SysInitInv
<1>2. SysInv /\ [SysNext]_sysVars => SysInv'
  BY SysStepInv
<1> QED
  BY <1>1, <1>2, PTL DEF SysSpec

-----------------------------------------------------------------------------
(* The properties that the runs check.                                      *)

(* A follow that completes has printed everything that the incarnation whose exit      *)
(* ended it printed and the host read, unless a write to the journal failed.       *)
THEOREM SystemdFollowIsComplete == SysSpec => []SystemdFollowPrintsAll
<1>1. SysInv => SystemdFollowPrintsAll
  <2> SUFFICES ASSUME SysInv, reader = "follow", follow = "completed", ~lost
               PROVE  printed = made[journal[got].inc]
    BY DEF SystemdFollowPrintsAll
  <2>1. /\ got \in Nat /\ got > 0 /\ GotExits = {got} /\ got <= Len(journal)
        /\ printed = Cardinality(GotOuts)
    BY DEF SysInv, FollowInv
  <2>2. Len(journal) \in Nat /\ Len(socket) \in Nat
    BY DEF SysInv, LogInv
  <2>3. got \in 1..AllSent /\ \A k \in 1..got : Sent(k) = journal[k]
    BY <2>1, <2>2 DEF AllSent, Sent
  <2>4. Outs(got) = GotOuts /\ Exits(got) = GotExits
    BY <2>3, Zenon DEF Outs, Exits, GotOuts, GotExits
  <2>5. Sent(got).inc = 1 /\ made[1] = Cardinality(Outs(got))
    BY <2>1, <2>3, <2>4, Zenon DEF SysInv, PastInv
  <2>6. Sent(got) = journal[got]
    BY <2>1, <2>3
  <2> QED
    BY <2>1, <2>4, <2>5, <2>6, Zenon
<1> QED
  BY <1>1, SystemdInvariant, PTL

(* A session that is reported as killed is over, unless follow was given two listings    *)
(* that left it out, or ListHistory one.                                      *)
THEOREM KilledIsOver == SysSpec => []KilledMeansOver
<1>1. SysInv => KilledMeansOver
  <2> SUFFICES ASSUME SysInv PROVE KilledMeansOver
    OBVIOUS
  <2>1. busErrors \in Nat
    BY DEF SysInv, TypeInv
  <2>2. follow = "killed" /\ busErrors < 2 => unit = "gone"
    BY <2>1 DEF SysInv, UnitInv
  <2>3. hist.status = "killed" /\ busErrors = 0 => unit = "gone"
    BY <2>1 DEF SysInv, UnitInv
  <2>4. unit = "gone" => task \in {"none", "done"}
    BY DEF SysInv, LifeInv
  <2> QED
    BY <2>2, <2>3, <2>4, Zenon DEF KilledMeansOver
<1> QED
  BY <1>1, SystemdInvariant, PTL

(* Of the incarnation that the history reports as killed, and of later ones, no exit      *)
(* could be read when the session was found not to be live, but for one recorded before   *)
(* its own start; what it reports as exited is not older than the start that it read.     *)
THEOREM HistoryTellsTheTruth == SysSpec => []HistoryIsTruthful
<1>1. SysInv => HistoryIsTruthful
  BY DEF SysInv
<1> QED
  BY <1>1, SystemdInvariant, PTL
=============================================================================
