---------------------------- MODULE TTYHostProofs ----------------------------
(***************************************************************************)
(* Proofs about TTYHost, for every set of clients, every bound and whether    *)
(* or not the event log may fail.                                           *)
(*                                                                         *)
(* The properties speak of the end of RunTask, of the record of the screen    *)
(* and of what clients are sent.  To be inductive they need the life of the    *)
(* reader beside the loop (LifeInv), who holds which lock (LockInv), what the  *)
(* reader has recorded so far (RecordInv) and where an error of the event log  *)
(* is on its way to the result (ResultInv).                                 *)
(***************************************************************************)
EXTENDS TTYHost, SequenceTheorems, TLAPS

Holds == {"setSize", "pushHeld", "pipes", "cursor"}     \* Attach has mu
Pushes == {"pushHeld", "pushFree"}                      \* vt.SetSize has vmu
InMap == {"attached", "resizeVt", "pushFree", "closed"}
Ended == {"shoot", "emitScreen", "emitExited", "publish", "done"}

(* TTYTypeOK without its Boolean variables, the streams and the log.          *)
TypeInv ==
    /\ pc \in {"start", "opened", "spawned", "emitStarted", "notify", "select", "term", "grace",
               "kill", "closePTY", "waitDone", "returned"}
    /\ result \in {"none", "nil", "startErr", "startedErr", "notifyErr", "eventErr",
                   "canceled"}
    /\ restartCh \in {0, 1} /\ restarts \in 0..MaxRestarts /\ resizes \in 0..MaxResizes
    /\ inc \in Nat /\ proc \in Nat /\ ptyBuf \in Nat /\ screen \in Nat /\ shot \in Nat
    /\ proc \in {0, inc} /\ exitCode \in 0..inc
    /\ holding \subseteq Descendants \cup {"leader"}
    /\ mu \in Clients \cup {"free", "reader"} /\ vmu \in Clients \cup {"free", "reader"}
    /\ rd \in {"none", "read", "write", "callback", "cast", "send", "wait", "shoot",
               "emitScreen", "emitExited", "publish", "done"}
    /\ clients \subseteq Clients /\ todo \subseteq clients
    /\ handler \in [Clients -> {"new", "setSize", "pushHeld", "pipes", "cursor",
                               "attached", "resizeVt", "pushFree",
                               "closed", "gone"}]
    /\ snap \in [Clients -> 0..screen] /\ unread \in [Clients -> 0..PipeCap]

BoolInv ==
    /\ cancelled \in BOOLEAN /\ eventErr \in BOOLEAN /\ lost \in BOOLEAN
    /\ alive \in BOOLEAN /\ master \in BOOLEAN

LogInv == log \in Seq([ev : {"started", "screen", "exited"}, val : Nat])

(* Streams are of chunks that the emulator has.                              *)
ChunkInv ==
    /\ stream \in [Clients -> Seq(Nat)]
    /\ \A c \in Clients : \A i \in 1..Len(stream[c]) : stream[c][i] \in 1..screen

(* The reader lives from Publish to the close of doneChan, and the loop          *)
(* waits for its end; the leader is dead and the exit code set before it has     *)
(* ended.  A reader that stopped reading an open PTY left nothing in it.         *)
LifeInv ==
    /\ pc \in {"start", "returned"} => rd \in {"none", "done"}
    /\ pc \in {"opened", "spawned"} => rd = "none"
    /\ pc \notin {"start", "opened", "spawned", "returned"} => rd # "none"
    /\ rd \in {"none", "done"} => proc = 0
    /\ rd \notin {"none", "done"} => proc = inc
    /\ rd \in Ended => ~alive
    /\ rd = "none" /\ pc # "spawned" => ~alive
    /\ rd \in Ended => exitCode = inc
    /\ rd \in {"cast", "send"} => screen > 0
    /\ rd \in {"wait", "shoot", "emitScreen", "emitExited", "publish"} /\ master
           => ptyBuf = 0 /\ holding = {}

(* Who holds which lock, and who is in the map.                              *)
LockInv ==
    /\ mu = "reader" <=> rd = "send"
    /\ rd # "send" => todo = {}
    /\ vmu = "reader" <=> rd = "callback"
    /\ \A c \in Clients :
        /\ mu = c <=> handler[c] \in Holds
        /\ vmu = c <=> handler[c] \in Pushes
        /\ c \in clients <=> handler[c] \in InMap

(* The stream s is the chunks after the snapshot sn up to the chunk last, or      *)
(* begins with the snapshot's last chunk once more.                           *)
FollowsOn(s, sn, last) ==
    \E k \in {sn, sn + 1} :
        /\ k <= last + 1 /\ Len(s) = last + 1 - k
        /\ \A i \in 1..Len(s) : s[i] = k + i - 1

(* From the snapshot on, and not only once the client is registered.             *)
StreamInv ==
    \A c \in Clients :
        /\ handler[c] \in {"cursor", "attached", "resizeVt", "pushFree"}
               => FollowsOn(stream[c], snap[c], Cast(c))
        /\ handler[c] \in {"new", "setSize", "pushHeld", "pipes"} => stream[c] = <<>>

(* What the reader that has reached a step has recorded, if no write failed.       *)
RecordInv ==
    /\ rd = "emitScreen" => shot = screen
    /\ rd = "emitExited" /\ ~lost => InLog(Record("screen", screen))
    /\ rd = "publish" /\ ~lost =>
        \E i, j \in DOMAIN log :
            i < j /\ log[i] = Record("screen", screen) /\ log[j] = Record("exited", inc)
    /\ rd = "done" /\ ~lost => InLog(Record("exited", inc))

(* A failed write is in the error channel or has decided the result.              *)
ResultInv ==
    /\ lost => eventErr \/ result \notin {"none", "nil"}
    /\ pc \in {"start", "opened", "spawned", "emitStarted", "notify", "select"} => result = "none"
    /\ pc \in {"notify", "select"} => InLog(Record("started", 0))
    /\ result = "nil" => /\ pc = "returned" /\ rd = "done" /\ ~lost
                         /\ InLog(Record("started", 0))

TTYInv ==
    /\ TypeInv /\ BoolInv /\ LogInv /\ ChunkInv /\ LifeInv /\ LockInv
    /\ StreamInv /\ RecordInv /\ ResultInv

-----------------------------------------------------------------------------
(* Streams.                                                                *)

(* At the snapshot, the chunk broadcast last is the snapshot's last or the one     *)
(* before it.                                                               *)
LEMMA FollowsNew ==
    ASSUME NEW sn \in Nat, NEW last \in Int, last + 1 \in {sn, sn + 1}
    PROVE  FollowsOn(<<>>, sn, last)
BY DEF FollowsOn

(* The broadcast of the next chunk.                                          *)
LEMMA FollowsSend ==
    ASSUME NEW s \in Seq(Nat), NEW sn \in Nat, NEW last \in Nat, last > 0,
           FollowsOn(s, sn, last - 1)
    PROVE  FollowsOn(Append(s, last), sn, last)
<1> DEFINE new == Append(s, last)
<1>1. /\ Len(s) \in Nat /\ Len(new) = Len(s) + 1 /\ new[Len(s) + 1] = last
      /\ \A i \in 1..Len(s) : new[i] = s[i]
  OBVIOUS
<1> HIDE DEF new
<1>2. PICK k \in {sn, sn + 1} :
        /\ k <= (last - 1) + 1 /\ Len(s) = (last - 1) + 1 - k
        /\ \A i \in 1..Len(s) : s[i] = k + i - 1
  BY Zenon DEF FollowsOn
<1>3. \A i \in 1..Len(new) : new[i] = k + i - 1
  BY <1>1, <1>2
<1>4. k <= last + 1 /\ Len(new) = last + 1 - k
  BY <1>1, <1>2
<1>5. FollowsOn(new, sn, last)
  BY <1>2, <1>3, <1>4 DEF FollowsOn
<1> QED
  BY <1>5 DEF new

-----------------------------------------------------------------------------
(* The log.                                                                *)
Events == [ev : {"started", "screen", "exited"}, val : Nat]

(* A record is appended: those before it stay where they are.                     *)
LEMMA LogAppended ==
    ASSUME LogInv, NEW r \in Events, log' = Append(log, r)
    PROVE  /\ log' \in Seq(Events) /\ Len(log) \in Nat /\ log' # <<>>
           /\ DOMAIN log = 1..Len(log) /\ DOMAIN log' = 1..(Len(log) + 1)
           /\ \A i \in 1..Len(log) : log'[i] = log[i]
           /\ log'[Len(log) + 1] = r
<1>1. log \in Seq(Events)
  BY DEF LogInv, Events
<1> HIDE DEF Events
<1> QED
  BY <1>1

(* Every write of the loop and of the reader is of a record.                     *)
LEMMA Recorded ==
    ASSUME TTYInv
    PROVE  /\ Record("started", 0) \in Events /\ Record("exited", inc) \in Events
           /\ Record("screen", shot) \in Events
BY DEF TTYInv, TypeInv, Record, Events

(* What was in the log stays in it.                                          *)
LEMMA LogKeeps ==
    ASSUME LogInv, NEW r \in Events, log' = Append(log, r)
    PROVE  /\ \A x : (\E i \in DOMAIN log : log[i] = x) => \E i \in DOMAIN log' : log'[i] = x
           /\ \E i \in DOMAIN log' : log'[i] = r
<1>1. /\ DOMAIN log = 1..Len(log) /\ DOMAIN log' = 1..(Len(log) + 1) /\ Len(log) \in Nat
      /\ \A i \in 1..Len(log) : log'[i] = log[i]
      /\ log'[Len(log) + 1] = r
  BY LogAppended
<1>2. \A i \in DOMAIN log : i \in DOMAIN log'
  BY <1>1
<1>3. Len(log) + 1 \in DOMAIN log'
  BY <1>1
<1> QED
  BY <1>1, <1>2, <1>3, Zenon

-----------------------------------------------------------------------------
(* The invariant holds at first and is inductive.                           *)

(* NewTTYHost.                                                             *)
LEMMA TTYInitInv == TTYInit => TTYInv
<1> SUFFICES ASSUME TTYInit PROVE TTYInv
  OBVIOUS
<1> USE TTYAssumption DEF TTYAssumption, TTYInit, Holds, Pushes, InMap, Ended
<1>1. TypeInv
  BY DEF TypeInv
<1>2. BoolInv
  BY Zenon DEF BoolInv
<1>3. LogInv /\ ChunkInv
  BY DEF LogInv, ChunkInv
<1>4. LifeInv /\ LockInv
  BY DEF LifeInv, LockInv
<1>5. StreamInv /\ RecordInv /\ ResultInv
  BY DEF StreamInv, RecordInv, ResultInv
<1> QED
  BY <1>1, <1>2, <1>3, <1>4, <1>5, Zenon DEF TTYInv

(* The Boolean fields.                                                       *)
LEMMA BoolStep == TTYInv /\ [TTYNext]_ttyVars => BoolInv'
<1> SUFFICES ASSUME TTYInv, [TTYNext]_ttyVars PROVE BoolInv'
  OBVIOUS
<1> USE DEF TTYInv, BoolInv, ttyVars, loopVars, reqVars, fieldVars, taskVars, ptyVars,
      rdVars, clientVars, logVars, loopUnchanged, rdUnchanged, hUnchanged,
      envUnchanged, Step, Forget, VtSetSize, Emit, OnPushLine, SigKill
<1>1. CASE OpenPTY
  BY <1>1, Zenon DEF OpenPTY
<1>2. CASE StartFail
  BY <1>2, Zenon DEF StartFail
<1>3. CASE Spawn \/ Publish
  BY <1>3, Zenon DEF Spawn, Publish
<1>4. CASE EmitStarted
  BY <1>4, Zenon DEF EmitStarted
<1>5. CASE Notify
  BY <1>5, Zenon DEF Notify
<1>6. CASE SelectDone
  BY <1>6, Zenon DEF SelectDone
<1>7. CASE SelectEventErr
  BY <1>7, Zenon DEF SelectEventErr
<1>8. CASE SelectRestart
  BY <1>8, Zenon DEF SelectRestart
<1>9. CASE SelectCancel
  BY <1>9, Zenon DEF SelectCancel
<1>10. CASE GracefulKill
  BY <1>10, Zenon DEF GracefulKill
<1>11. CASE GraceTimeout
  BY <1>11, Zenon DEF GraceTimeout
<1>12. CASE LoopKill
  BY <1>12, Zenon DEF LoopKill
<1>13. CASE closePTYMaster
  BY <1>13, Zenon DEF closePTYMaster
<1>14. CASE LoopDone
  BY <1>14, Zenon DEF LoopDone
<1>15. ASSUME pc # "returned", Read PROVE BoolInv'
  BY <1>15, Zenon DEF Read
<1>16. ASSUME pc # "returned", ReadEnd PROVE BoolInv'
  BY <1>16, Zenon DEF ReadEnd
<1>17. ASSUME pc # "returned", VtWrite PROVE BoolInv'
  BY <1>17, Zenon DEF VtWrite
<1>18. ASSUME pc # "returned", VtCallback PROVE BoolInv'
  BY <1>18, Zenon DEF VtCallback
<1>19. ASSUME pc # "returned", CastBegin PROVE BoolInv'
  BY <1>19, Zenon DEF CastBegin
<1>20. ASSUME pc # "returned", WaitExit PROVE BoolInv'
  BY <1>20, Zenon DEF WaitExit
<1>21. ASSUME pc # "returned", ShootScreen PROVE BoolInv'
  BY <1>21, Zenon DEF ShootScreen
<1>22. ASSUME pc # "returned", EmitScreen PROVE BoolInv'
  BY <1>22, Zenon DEF EmitScreen
<1>23. ASSUME pc # "returned", EmitExited PROVE BoolInv'
  BY <1>23, Zenon DEF EmitExited
<1>24. ASSUME pc # "returned", PublishExit PROVE BoolInv'
  BY <1>24, Zenon DEF PublishExit
<1>25. ASSUME pc # "returned", KillRequest PROVE BoolInv'
  BY <1>25, Zenon DEF KillRequest
<1>26. ASSUME pc # "returned", RestartRequest PROVE BoolInv'
  BY <1>26, Zenon DEF RestartRequest
<1>27. ASSUME pc # "returned", TaskPrint PROVE BoolInv'
  BY <1>27, Zenon DEF TaskPrint
<1>28. ASSUME pc # "returned", LeaderExit PROVE BoolInv'
  BY <1>28, Zenon DEF LeaderExit
<1>29. ASSUME NEW c \in Clients, pc # "returned", CastSend(c) PROVE BoolInv'
  BY <1>29, Zenon DEF CastSend
<1>30. ASSUME NEW c \in Clients, pc # "returned", AttachSetSize(c) PROVE BoolInv'
  BY <1>30, Zenon DEF AttachSetSize
<1>31. ASSUME NEW c \in Clients, pc # "returned", AttachPipeFail(c) PROVE BoolInv'
  BY <1>31, Zenon DEF AttachPipeFail
<1>32. ASSUME NEW c \in Clients, pc # "returned", AttachSnapshot(c) PROVE BoolInv'
  BY <1>32, Zenon DEF AttachSnapshot
<1>33. ASSUME NEW c \in Clients, pc # "returned", AttachRegister(c) PROVE BoolInv'
  BY <1>33, Zenon DEF AttachRegister
<1>34. ASSUME NEW c \in Clients, pc # "returned", ResizeVt(c) PROVE BoolInv'
  BY <1>34, Zenon DEF ResizeVt
<1>35. ASSUME NEW c \in Clients, pc # "returned", ResizePushLine(c) PROVE BoolInv'
  BY <1>35, Zenon DEF ResizePushLine
<1>36. ASSUME NEW c \in Clients, pc # "returned", InputEOF(c) PROVE BoolInv'
  BY <1>36, Zenon DEF InputEOF
<1>37. ASSUME NEW c \in Clients, pc # "returned", AttachBegin(c) PROVE BoolInv'
  BY <1>37, Zenon DEF AttachBegin
<1>38. ASSUME NEW c \in Clients, pc # "returned", ResizeFields(c) PROVE BoolInv'
  BY <1>38, Zenon DEF ResizeFields
<1>39. ASSUME NEW c \in Clients, pc # "returned", ClientRead(c) PROVE BoolInv'
  BY <1>39, Zenon DEF ClientRead
<1>40. ASSUME NEW c \in Clients, pc # "returned", ClientClose(c) PROVE BoolInv'
  BY <1>40, Zenon DEF ClientClose
<1>41. ASSUME NEW c \in Clients, pc # "returned", Detach(c) PROVE BoolInv'
  BY <1>41, Zenon DEF Detach
<1>42. ASSUME NEW p \in Descendants, pc # "returned", Fork(p) PROVE BoolInv'
  BY <1>42, Zenon DEF Fork
<1>43. ASSUME NEW p \in Descendants \cup {"leader"}, pc # "returned", CloseSlave(p)
      PROVE  BoolInv'
  BY <1>43, Zenon DEF CloseSlave
<1>44. CASE UNCHANGED ttyVars
  BY <1>44, Zenon DEF ttyVars
<1>45. ASSUME pc # "returned", Cancel PROVE BoolInv'
  BY <1>45, Zenon DEF Cancel
<1> QED
  BY <1>1, <1>2, <1>3, <1>4, <1>5, <1>6, <1>7, <1>8, <1>9, <1>10,
     <1>11, <1>12, <1>13, <1>14, <1>15, <1>16, <1>17, <1>18, <1>19, <1>20,
     <1>21, <1>22, <1>23, <1>24, <1>25, <1>26, <1>27, <1>28, <1>29, <1>30,
     <1>31, <1>32, <1>33, <1>34, <1>35, <1>36, <1>37, <1>38, <1>39, <1>40,
     <1>41, <1>42, <1>43, <1>44, <1>45
  DEF TTYNext, RunTask, HostStep, Reader, HandlerStep, ClientRequest

(* Types.  A client leaves the map only while no broadcast is in progress.   *)
LEMMA TypeStep == TTYInv /\ [TTYNext]_ttyVars => TypeInv'
<1> SUFFICES ASSUME TTYInv, [TTYNext]_ttyVars PROVE TypeInv'
  OBVIOUS
<1> USE TTYAssumption DEF TTYAssumption, TTYInv, TypeInv, LifeInv, LockInv, ttyVars,
      loopVars, reqVars, fieldVars, taskVars, ptyVars, rdVars, clientVars, logVars,
      loopUnchanged, rdUnchanged, hUnchanged, envUnchanged, Step, Forget, VtSetSize,
      Emit, OnPushLine, SigKill
<1>1. CASE OpenPTY
  BY <1>1 DEF OpenPTY
<1>2. CASE StartFail
  BY <1>2 DEF StartFail
<1>3. CASE Spawn \/ Publish
  BY <1>3 DEF Spawn, Publish
<1>4. CASE EmitStarted
  BY <1>4 DEF EmitStarted
<1>5. CASE Notify
  BY <1>5 DEF Notify
<1>6. CASE SelectDone
  BY <1>6 DEF SelectDone
<1>7. CASE SelectEventErr
  BY <1>7 DEF SelectEventErr
<1>8. CASE SelectRestart
  BY <1>8 DEF SelectRestart
<1>9. CASE SelectCancel
  BY <1>9 DEF SelectCancel
<1>10. CASE GracefulKill
  BY <1>10 DEF GracefulKill
<1>11. CASE GraceTimeout
  BY <1>11 DEF GraceTimeout
<1>12. CASE LoopKill
  BY <1>12, ZenonT(30) DEF LoopKill
<1>13. CASE closePTYMaster
  BY <1>13 DEF closePTYMaster
<1>14. CASE LoopDone
  BY <1>14 DEF LoopDone
<1>15. ASSUME pc # "returned", Read PROVE TypeInv'
  BY <1>15 DEF Read
<1>16. ASSUME pc # "returned", ReadEnd PROVE TypeInv'
  BY <1>16 DEF ReadEnd
<1>17. ASSUME pc # "returned", VtWrite PROVE TypeInv'
  BY <1>17 DEF VtWrite
<1>18. ASSUME pc # "returned", VtCallback PROVE TypeInv'
  BY <1>18 DEF VtCallback
<1>19. ASSUME pc # "returned", CastBegin PROVE TypeInv'
  BY <1>19, ZenonT(30) DEF CastBegin
<1>20. ASSUME pc # "returned", WaitExit PROVE TypeInv'
  BY <1>20 DEF WaitExit
<1>21. ASSUME pc # "returned", ShootScreen PROVE TypeInv'
  BY <1>21 DEF ShootScreen
<1>22. ASSUME pc # "returned", EmitScreen PROVE TypeInv'
  BY <1>22 DEF EmitScreen
<1>23. ASSUME pc # "returned", EmitExited PROVE TypeInv'
  BY <1>23 DEF EmitExited
<1>24. ASSUME pc # "returned", PublishExit PROVE TypeInv'
  BY <1>24 DEF PublishExit
<1>25. ASSUME pc # "returned", KillRequest PROVE TypeInv'
  BY <1>25 DEF KillRequest
<1>26. ASSUME pc # "returned", RestartRequest PROVE TypeInv'
  BY <1>26 DEF RestartRequest
<1>27. ASSUME pc # "returned", TaskPrint PROVE TypeInv'
  BY <1>27 DEF TaskPrint
<1>28. ASSUME pc # "returned", LeaderExit PROVE TypeInv'
  BY <1>28 DEF LeaderExit
<1>29. ASSUME NEW c \in Clients, pc # "returned", CastSend(c) PROVE TypeInv'
  <2>1. /\ UNCHANGED <<loopVars, reqVars, inc, fieldVars, taskVars, ptyVars, vmu, screen, shot,
                      clients, handler, snap>>
        /\ todo' \subseteq clients
    BY <1>29 DEF CastSend
  <2>2. mu' \in {mu, "free"} /\ rd' \in {rd, "read"}
    BY <1>29 DEF CastSend
  <2>3. unread' \in [Clients -> 0..PipeCap]
    <3>1. \/ unread' = unread
          \/ unread' = [unread EXCEPT ![c] = @ + 1] /\ unread[c] < PipeCap
      BY <1>29, Zenon DEF CastSend
    <3>2. unread \in [Clients -> 0..PipeCap] /\ PipeCap \in Nat
      OBVIOUS
    <3> HIDE DEF TTYInv
    <3> QED
      BY <3>1, <3>2
  <2> QED
    BY <2>1, <2>2, <2>3
<1>30. ASSUME NEW c \in Clients, pc # "returned", AttachSetSize(c) PROVE TypeInv'
  BY <1>30 DEF AttachSetSize
<1>31. ASSUME NEW c \in Clients, pc # "returned", AttachPipeFail(c) PROVE TypeInv'
  BY <1>31 DEF AttachPipeFail
<1>32. ASSUME NEW c \in Clients, pc # "returned", AttachSnapshot(c) PROVE TypeInv'
  BY <1>32 DEF AttachSnapshot
<1>33. ASSUME NEW c \in Clients, pc # "returned", AttachRegister(c) PROVE TypeInv'
  BY <1>33 DEF AttachRegister
<1>34. ASSUME NEW c \in Clients, pc # "returned", ResizeVt(c) PROVE TypeInv'
  BY <1>34 DEF ResizeVt
<1>35. ASSUME NEW c \in Clients, pc # "returned", ResizePushLine(c) PROVE TypeInv'
  BY <1>35 DEF ResizePushLine
<1>36. ASSUME NEW c \in Clients, pc # "returned", InputEOF(c) PROVE TypeInv'
  BY <1>36 DEF InputEOF
<1>37. ASSUME NEW c \in Clients, pc # "returned", AttachBegin(c) PROVE TypeInv'
  BY <1>37 DEF AttachBegin
<1>38. ASSUME NEW c \in Clients, pc # "returned", ResizeFields(c) PROVE TypeInv'
  BY <1>38 DEF ResizeFields
<1>39. ASSUME NEW c \in Clients, pc # "returned", ClientRead(c) PROVE TypeInv'
  BY <1>39 DEF ClientRead
<1>40. ASSUME NEW c \in Clients, pc # "returned", ClientClose(c) PROVE TypeInv'
  BY <1>40 DEF ClientClose
<1>41. ASSUME NEW c \in Clients, pc # "returned", Detach(c) PROVE TypeInv'
  BY <1>41 DEF Detach
<1>42. ASSUME NEW p \in Descendants, pc # "returned", Fork(p) PROVE TypeInv'
  BY <1>42 DEF Fork
<1>43. ASSUME NEW p \in Descendants \cup {"leader"}, pc # "returned", CloseSlave(p)
      PROVE  TypeInv'
  BY <1>43 DEF CloseSlave
<1>44. CASE UNCHANGED ttyVars
  BY <1>44 DEF ttyVars
<1>45. ASSUME pc # "returned", Cancel PROVE TypeInv'
  BY <1>45 DEF Cancel
<1> QED
  BY <1>1, <1>2, <1>3, <1>4, <1>5, <1>6, <1>7, <1>8, <1>9, <1>10,
     <1>11, <1>12, <1>13, <1>14, <1>15, <1>16, <1>17, <1>18, <1>19, <1>20,
     <1>21, <1>22, <1>23, <1>24, <1>25, <1>26, <1>27, <1>28, <1>29, <1>30,
     <1>31, <1>32, <1>33, <1>34, <1>35, <1>36, <1>37, <1>38, <1>39, <1>40,
     <1>41, <1>42, <1>43, <1>44, <1>45
  DEF TTYNext, RunTask, HostStep, Reader, HandlerStep, ClientRequest

(* Records.                                                                  *)
LEMMA LogStep == TTYInv /\ [TTYNext]_ttyVars => LogInv'
<1> SUFFICES ASSUME TTYInv, [TTYNext]_ttyVars PROVE LogInv'
  OBVIOUS
<1> USE TTYAssumption DEF TTYAssumption, TTYInv, TypeInv, LogInv, ttyVars, loopVars,
      reqVars, fieldVars, taskVars, ptyVars, rdVars, clientVars, logVars,
      loopUnchanged, rdUnchanged, hUnchanged, envUnchanged, Step, Forget, VtSetSize,
      Emit, OnPushLine, SigKill
<1>1. CASE OpenPTY
  BY <1>1 DEF OpenPTY
<1>2. CASE StartFail
  BY <1>2 DEF StartFail
<1>3. CASE Spawn \/ Publish
  BY <1>3 DEF Spawn, Publish
<1>4. CASE EmitStarted
  <2>1. Record("started", 0) \in Events
    BY Recorded
  <2>2. \/ log' = Append(log, Record("started", 0)) \/ log' = log
    BY <1>4, Zenon DEF EmitStarted
  <2> HIDE DEF Record
  <2> QED
    BY <2>1, <2>2, LogAppended DEF Events
<1>5. CASE Notify
  BY <1>5 DEF Notify
<1>6. CASE SelectDone
  BY <1>6 DEF SelectDone
<1>7. CASE SelectEventErr
  BY <1>7 DEF SelectEventErr
<1>8. CASE SelectRestart
  BY <1>8 DEF SelectRestart
<1>9. CASE SelectCancel
  BY <1>9 DEF SelectCancel
<1>10. CASE GracefulKill
  BY <1>10 DEF GracefulKill
<1>11. CASE GraceTimeout
  BY <1>11 DEF GraceTimeout
<1>12. CASE LoopKill
  BY <1>12 DEF LoopKill
<1>13. CASE closePTYMaster
  BY <1>13 DEF closePTYMaster
<1>14. CASE LoopDone
  BY <1>14 DEF LoopDone
<1>15. ASSUME pc # "returned", Read PROVE LogInv'
  BY <1>15 DEF Read
<1>16. ASSUME pc # "returned", ReadEnd PROVE LogInv'
  BY <1>16 DEF ReadEnd
<1>17. ASSUME pc # "returned", VtWrite PROVE LogInv'
  BY <1>17 DEF VtWrite
<1>18. ASSUME pc # "returned", VtCallback PROVE LogInv'
  BY <1>18 DEF VtCallback
<1>19. ASSUME pc # "returned", CastBegin PROVE LogInv'
  BY <1>19 DEF CastBegin
<1>20. ASSUME pc # "returned", WaitExit PROVE LogInv'
  BY <1>20 DEF WaitExit
<1>21. ASSUME pc # "returned", ShootScreen PROVE LogInv'
  BY <1>21 DEF ShootScreen
<1>22. ASSUME pc # "returned", EmitScreen PROVE LogInv'
  <2>1. Record("screen", shot) \in Events
    BY Recorded
  <2>2. \/ log' = Append(log, Record("screen", shot)) \/ log' = log
    BY <1>22, Zenon DEF EmitScreen
  <2> HIDE DEF Record
  <2> QED
    BY <2>1, <2>2, LogAppended DEF Events
<1>23. ASSUME pc # "returned", EmitExited PROVE LogInv'
  <2>1. Record("exited", inc) \in Events
    BY Recorded
  <2>2. \/ log' = Append(log, Record("exited", inc)) \/ log' = log
    BY <1>23, Zenon DEF EmitExited
  <2> HIDE DEF Record
  <2> QED
    BY <2>1, <2>2, LogAppended DEF Events
<1>24. ASSUME pc # "returned", PublishExit PROVE LogInv'
  BY <1>24 DEF PublishExit
<1>25. ASSUME pc # "returned", KillRequest PROVE LogInv'
  BY <1>25 DEF KillRequest
<1>26. ASSUME pc # "returned", RestartRequest PROVE LogInv'
  BY <1>26 DEF RestartRequest
<1>27. ASSUME pc # "returned", TaskPrint PROVE LogInv'
  BY <1>27 DEF TaskPrint
<1>28. ASSUME pc # "returned", LeaderExit PROVE LogInv'
  BY <1>28 DEF LeaderExit
<1>29. ASSUME NEW c \in Clients, pc # "returned", CastSend(c) PROVE LogInv'
  BY <1>29 DEF CastSend
<1>30. ASSUME NEW c \in Clients, pc # "returned", AttachSetSize(c) PROVE LogInv'
  BY <1>30 DEF AttachSetSize
<1>31. ASSUME NEW c \in Clients, pc # "returned", AttachPipeFail(c) PROVE LogInv'
  BY <1>31 DEF AttachPipeFail
<1>32. ASSUME NEW c \in Clients, pc # "returned", AttachSnapshot(c) PROVE LogInv'
  BY <1>32 DEF AttachSnapshot
<1>33. ASSUME NEW c \in Clients, pc # "returned", AttachRegister(c) PROVE LogInv'
  BY <1>33 DEF AttachRegister
<1>34. ASSUME NEW c \in Clients, pc # "returned", ResizeVt(c) PROVE LogInv'
  BY <1>34 DEF ResizeVt
<1>35. ASSUME NEW c \in Clients, pc # "returned", ResizePushLine(c) PROVE LogInv'
  BY <1>35 DEF ResizePushLine
<1>36. ASSUME NEW c \in Clients, pc # "returned", InputEOF(c) PROVE LogInv'
  BY <1>36 DEF InputEOF
<1>37. ASSUME NEW c \in Clients, pc # "returned", AttachBegin(c) PROVE LogInv'
  BY <1>37 DEF AttachBegin
<1>38. ASSUME NEW c \in Clients, pc # "returned", ResizeFields(c) PROVE LogInv'
  BY <1>38 DEF ResizeFields
<1>39. ASSUME NEW c \in Clients, pc # "returned", ClientRead(c) PROVE LogInv'
  BY <1>39 DEF ClientRead
<1>40. ASSUME NEW c \in Clients, pc # "returned", ClientClose(c) PROVE LogInv'
  BY <1>40 DEF ClientClose
<1>41. ASSUME NEW c \in Clients, pc # "returned", Detach(c) PROVE LogInv'
  BY <1>41 DEF Detach
<1>42. ASSUME NEW p \in Descendants, pc # "returned", Fork(p) PROVE LogInv'
  BY <1>42 DEF Fork
<1>43. ASSUME NEW p \in Descendants \cup {"leader"}, pc # "returned", CloseSlave(p)
      PROVE  LogInv'
  BY <1>43 DEF CloseSlave
<1>44. CASE UNCHANGED ttyVars
  BY <1>44 DEF ttyVars
<1>45. ASSUME pc # "returned", Cancel PROVE LogInv'
  BY <1>45 DEF Cancel
<1> QED
  BY <1>1, <1>2, <1>3, <1>4, <1>5, <1>6, <1>7, <1>8, <1>9, <1>10,
     <1>11, <1>12, <1>13, <1>14, <1>15, <1>16, <1>17, <1>18, <1>19, <1>20,
     <1>21, <1>22, <1>23, <1>24, <1>25, <1>26, <1>27, <1>28, <1>29, <1>30,
     <1>31, <1>32, <1>33, <1>34, <1>35, <1>36, <1>37, <1>38, <1>39, <1>40,
     <1>41, <1>42, <1>43, <1>44, <1>45
  DEF TTYNext, RunTask, HostStep, Reader, HandlerStep, ClientRequest

(* Chunks: the broadcast sends the chunk the emulator took last.             *)
LEMMA ChunkStep == TTYInv /\ [TTYNext]_ttyVars => ChunkInv'
<1> SUFFICES ASSUME TTYInv, [TTYNext]_ttyVars PROVE ChunkInv'
  OBVIOUS
<1> USE TTYAssumption DEF TTYAssumption, TTYInv, TypeInv, ChunkInv, LifeInv, ttyVars,
      loopVars, reqVars, fieldVars, taskVars, ptyVars, rdVars, clientVars, logVars,
      loopUnchanged, rdUnchanged, hUnchanged, envUnchanged, Step, Forget, VtSetSize,
      Emit, OnPushLine, SigKill
<1>1. CASE OpenPTY
  BY <1>1 DEF OpenPTY
<1>2. CASE StartFail
  BY <1>2 DEF StartFail
<1>3. CASE Spawn \/ Publish
  BY <1>3 DEF Spawn, Publish
<1>4. CASE EmitStarted
  BY <1>4 DEF EmitStarted
<1>5. CASE Notify
  BY <1>5 DEF Notify
<1>6. CASE SelectDone
  BY <1>6 DEF SelectDone
<1>7. CASE SelectEventErr
  BY <1>7 DEF SelectEventErr
<1>8. CASE SelectRestart
  BY <1>8 DEF SelectRestart
<1>9. CASE SelectCancel
  BY <1>9 DEF SelectCancel
<1>10. CASE GracefulKill
  BY <1>10 DEF GracefulKill
<1>11. CASE GraceTimeout
  BY <1>11 DEF GraceTimeout
<1>12. CASE LoopKill
  BY <1>12 DEF LoopKill
<1>13. CASE closePTYMaster
  BY <1>13 DEF closePTYMaster
<1>14. CASE LoopDone
  BY <1>14 DEF LoopDone
<1>15. ASSUME pc # "returned", Read PROVE ChunkInv'
  BY <1>15 DEF Read
<1>16. ASSUME pc # "returned", ReadEnd PROVE ChunkInv'
  BY <1>16 DEF ReadEnd
<1>17. ASSUME pc # "returned", VtWrite PROVE ChunkInv'
  BY <1>17 DEF VtWrite
<1>18. ASSUME pc # "returned", VtCallback PROVE ChunkInv'
  BY <1>18 DEF VtCallback
<1>19. ASSUME pc # "returned", CastBegin PROVE ChunkInv'
  BY <1>19 DEF CastBegin
<1>20. ASSUME pc # "returned", WaitExit PROVE ChunkInv'
  BY <1>20 DEF WaitExit
<1>21. ASSUME pc # "returned", ShootScreen PROVE ChunkInv'
  BY <1>21 DEF ShootScreen
<1>22. ASSUME pc # "returned", EmitScreen PROVE ChunkInv'
  BY <1>22 DEF EmitScreen
<1>23. ASSUME pc # "returned", EmitExited PROVE ChunkInv'
  BY <1>23 DEF EmitExited
<1>24. ASSUME pc # "returned", PublishExit PROVE ChunkInv'
  BY <1>24 DEF PublishExit
<1>25. ASSUME pc # "returned", KillRequest PROVE ChunkInv'
  BY <1>25 DEF KillRequest
<1>26. ASSUME pc # "returned", RestartRequest PROVE ChunkInv'
  BY <1>26 DEF RestartRequest
<1>27. ASSUME pc # "returned", TaskPrint PROVE ChunkInv'
  BY <1>27 DEF TaskPrint
<1>28. ASSUME pc # "returned", LeaderExit PROVE ChunkInv'
  BY <1>28 DEF LeaderExit
<1>29. ASSUME NEW c \in Clients, pc # "returned", CastSend(c) PROVE ChunkInv'
  <2>1. screen \in Nat /\ screen > 0 /\ screen' = screen
    BY <1>29 DEF CastSend
  <2>2. CASE stream' = stream
    BY <2>1, <2>2
  <2>3. CASE stream' = [stream EXCEPT ![c] = Append(@, screen)]
    <3>1. stream[c] \in Seq(Nat) /\ \A i \in 1..Len(stream[c]) : stream[c][i] \in 1..screen
      OBVIOUS
    <3>2. /\ Append(stream[c], screen) \in Seq(Nat)
          /\ \A i \in 1..Len(Append(stream[c], screen)) :
                Append(stream[c], screen)[i] \in 1..screen
      <4> HIDE DEF TTYInv
      <4> QED
        BY <2>1, <3>1, SMTT(20)
    <3>3. stream'[c] = Append(stream[c], screen) /\ stream' \in [Clients -> Seq(Nat)]
      BY <2>3, <3>2
    <3>4. \A d \in Clients : d # c => stream'[d] = stream[d]
      BY <2>3
    <3> QED
      BY <2>1, <3>2, <3>3, <3>4
  <2> QED
    BY <1>29, <2>2, <2>3 DEF CastSend
<1>30. ASSUME NEW c \in Clients, pc # "returned", AttachSetSize(c) PROVE ChunkInv'
  BY <1>30 DEF AttachSetSize
<1>31. ASSUME NEW c \in Clients, pc # "returned", AttachPipeFail(c) PROVE ChunkInv'
  BY <1>31 DEF AttachPipeFail
<1>32. ASSUME NEW c \in Clients, pc # "returned", AttachSnapshot(c) PROVE ChunkInv'
  BY <1>32 DEF AttachSnapshot
<1>33. ASSUME NEW c \in Clients, pc # "returned", AttachRegister(c) PROVE ChunkInv'
  BY <1>33 DEF AttachRegister
<1>34. ASSUME NEW c \in Clients, pc # "returned", ResizeVt(c) PROVE ChunkInv'
  BY <1>34 DEF ResizeVt
<1>35. ASSUME NEW c \in Clients, pc # "returned", ResizePushLine(c) PROVE ChunkInv'
  BY <1>35 DEF ResizePushLine
<1>36. ASSUME NEW c \in Clients, pc # "returned", InputEOF(c) PROVE ChunkInv'
  BY <1>36 DEF InputEOF
<1>37. ASSUME NEW c \in Clients, pc # "returned", AttachBegin(c) PROVE ChunkInv'
  BY <1>37 DEF AttachBegin
<1>38. ASSUME NEW c \in Clients, pc # "returned", ResizeFields(c) PROVE ChunkInv'
  BY <1>38 DEF ResizeFields
<1>39. ASSUME NEW c \in Clients, pc # "returned", ClientRead(c) PROVE ChunkInv'
  BY <1>39 DEF ClientRead
<1>40. ASSUME NEW c \in Clients, pc # "returned", ClientClose(c) PROVE ChunkInv'
  BY <1>40 DEF ClientClose
<1>41. ASSUME NEW c \in Clients, pc # "returned", Detach(c) PROVE ChunkInv'
  BY <1>41 DEF Detach
<1>42. ASSUME NEW p \in Descendants, pc # "returned", Fork(p) PROVE ChunkInv'
  BY <1>42 DEF Fork
<1>43. ASSUME NEW p \in Descendants \cup {"leader"}, pc # "returned", CloseSlave(p)
      PROVE  ChunkInv'
  BY <1>43 DEF CloseSlave
<1>44. CASE UNCHANGED ttyVars
  BY <1>44 DEF ttyVars
<1>45. ASSUME pc # "returned", Cancel PROVE ChunkInv'
  BY <1>45 DEF Cancel
<1> QED
  BY <1>1, <1>2, <1>3, <1>4, <1>5, <1>6, <1>7, <1>8, <1>9, <1>10,
     <1>11, <1>12, <1>13, <1>14, <1>15, <1>16, <1>17, <1>18, <1>19, <1>20,
     <1>21, <1>22, <1>23, <1>24, <1>25, <1>26, <1>27, <1>28, <1>29, <1>30,
     <1>31, <1>32, <1>33, <1>34, <1>35, <1>36, <1>37, <1>38, <1>39, <1>40,
     <1>41, <1>42, <1>43, <1>44, <1>45
  DEF TTYNext, RunTask, HostStep, Reader, HandlerStep, ClientRequest

(* The reader and the loop.                                                  *)
LEMMA LifeStep == TTYInv /\ [TTYNext]_ttyVars => LifeInv'
<1> SUFFICES ASSUME TTYInv, [TTYNext]_ttyVars PROVE LifeInv'
  OBVIOUS
<1> USE TTYAssumption DEF TTYAssumption, TTYInv, TypeInv, LifeInv, Ended, Done, ttyVars,
      loopVars, reqVars, fieldVars, taskVars, ptyVars, rdVars, clientVars, logVars,
      loopUnchanged, rdUnchanged, hUnchanged, envUnchanged, Step, Forget, VtSetSize,
      Emit, OnPushLine, SigKill
<1>1. CASE OpenPTY
  BY <1>1 DEF OpenPTY
<1>2. CASE StartFail
  BY <1>2 DEF StartFail
<1>3. CASE Spawn \/ Publish
  BY <1>3 DEF Spawn, Publish
<1>4. CASE EmitStarted
  BY <1>4 DEF EmitStarted
<1>5. CASE Notify
  BY <1>5 DEF Notify
<1>6. CASE SelectDone
  BY <1>6 DEF SelectDone
<1>7. CASE SelectEventErr
  BY <1>7 DEF SelectEventErr
<1>8. CASE SelectRestart
  BY <1>8 DEF SelectRestart
<1>9. CASE SelectCancel
  BY <1>9 DEF SelectCancel
<1>10. CASE GracefulKill
  BY <1>10 DEF GracefulKill
<1>11. CASE GraceTimeout
  BY <1>11 DEF GraceTimeout
<1>12. CASE LoopKill
  <2>1. (holding = {} => holding' = {}) /\ (~alive => ~alive')
    <3>1. holding' = holding \/ holding' = holding \cap {"escaped"}
      BY <1>12, Zenon DEF LoopKill
    <3>2. ~alive => ~alive'
      BY <1>12, Zenon DEF LoopKill
    <3> HIDE DEF TTYInv
    <3> QED
      BY <3>1, <3>2
  <2>2. pc = "kill" /\ pc' = "closePTY" /\ UNCHANGED <<rd, proc, inc, exitCode, screen, ptyVars>>
    BY <1>12 DEF LoopKill
  <2> QED
    BY <2>1, <2>2
<1>13. CASE closePTYMaster
  BY <1>13 DEF closePTYMaster
<1>14. CASE LoopDone
  BY <1>14 DEF LoopDone
<1>15. ASSUME pc # "returned", Read PROVE LifeInv'
  BY <1>15 DEF Read
<1>16. ASSUME pc # "returned", ReadEnd PROVE LifeInv'
  BY <1>16 DEF ReadEnd
<1>17. ASSUME pc # "returned", VtWrite PROVE LifeInv'
  BY <1>17 DEF VtWrite
<1>18. ASSUME pc # "returned", VtCallback PROVE LifeInv'
  BY <1>18 DEF VtCallback
<1>19. ASSUME pc # "returned", CastBegin PROVE LifeInv'
  BY <1>19 DEF CastBegin
<1>20. ASSUME pc # "returned", WaitExit PROVE LifeInv'
  BY <1>20 DEF WaitExit
<1>21. ASSUME pc # "returned", ShootScreen PROVE LifeInv'
  BY <1>21 DEF ShootScreen
<1>22. ASSUME pc # "returned", EmitScreen PROVE LifeInv'
  BY <1>22 DEF EmitScreen
<1>23. ASSUME pc # "returned", EmitExited PROVE LifeInv'
  BY <1>23 DEF EmitExited
<1>24. ASSUME pc # "returned", PublishExit PROVE LifeInv'
  BY <1>24 DEF PublishExit
<1>25. ASSUME pc # "returned", KillRequest PROVE LifeInv'
  BY <1>25 DEF KillRequest
<1>26. ASSUME pc # "returned", RestartRequest PROVE LifeInv'
  BY <1>26 DEF RestartRequest
<1>27. ASSUME pc # "returned", TaskPrint PROVE LifeInv'
  BY <1>27 DEF TaskPrint
<1>28. ASSUME pc # "returned", LeaderExit PROVE LifeInv'
  BY <1>28 DEF LeaderExit
<1>29. ASSUME NEW c \in Clients, pc # "returned", CastSend(c) PROVE LifeInv'
  BY <1>29 DEF CastSend
<1>30. ASSUME NEW c \in Clients, pc # "returned", AttachSetSize(c) PROVE LifeInv'
  BY <1>30 DEF AttachSetSize
<1>31. ASSUME NEW c \in Clients, pc # "returned", AttachPipeFail(c) PROVE LifeInv'
  BY <1>31 DEF AttachPipeFail
<1>32. ASSUME NEW c \in Clients, pc # "returned", AttachSnapshot(c) PROVE LifeInv'
  BY <1>32 DEF AttachSnapshot
<1>33. ASSUME NEW c \in Clients, pc # "returned", AttachRegister(c) PROVE LifeInv'
  BY <1>33 DEF AttachRegister
<1>34. ASSUME NEW c \in Clients, pc # "returned", ResizeVt(c) PROVE LifeInv'
  BY <1>34 DEF ResizeVt
<1>35. ASSUME NEW c \in Clients, pc # "returned", ResizePushLine(c) PROVE LifeInv'
  BY <1>35 DEF ResizePushLine
<1>36. ASSUME NEW c \in Clients, pc # "returned", InputEOF(c) PROVE LifeInv'
  BY <1>36 DEF InputEOF
<1>37. ASSUME NEW c \in Clients, pc # "returned", AttachBegin(c) PROVE LifeInv'
  BY <1>37 DEF AttachBegin
<1>38. ASSUME NEW c \in Clients, pc # "returned", ResizeFields(c) PROVE LifeInv'
  BY <1>38 DEF ResizeFields
<1>39. ASSUME NEW c \in Clients, pc # "returned", ClientRead(c) PROVE LifeInv'
  BY <1>39 DEF ClientRead
<1>40. ASSUME NEW c \in Clients, pc # "returned", ClientClose(c) PROVE LifeInv'
  BY <1>40 DEF ClientClose
<1>41. ASSUME NEW c \in Clients, pc # "returned", Detach(c) PROVE LifeInv'
  BY <1>41 DEF Detach
<1>42. ASSUME NEW p \in Descendants, pc # "returned", Fork(p) PROVE LifeInv'
  BY <1>42 DEF Fork
<1>43. ASSUME NEW p \in Descendants \cup {"leader"}, pc # "returned", CloseSlave(p)
      PROVE  LifeInv'
  BY <1>43 DEF CloseSlave
<1>44. CASE UNCHANGED ttyVars
  BY <1>44 DEF ttyVars
<1>45. ASSUME pc # "returned", Cancel PROVE LifeInv'
  BY <1>45 DEF Cancel
<1> QED
  BY <1>1, <1>2, <1>3, <1>4, <1>5, <1>6, <1>7, <1>8, <1>9, <1>10,
     <1>11, <1>12, <1>13, <1>14, <1>15, <1>16, <1>17, <1>18, <1>19, <1>20,
     <1>21, <1>22, <1>23, <1>24, <1>25, <1>26, <1>27, <1>28, <1>29, <1>30,
     <1>31, <1>32, <1>33, <1>34, <1>35, <1>36, <1>37, <1>38, <1>39, <1>40,
     <1>41, <1>42, <1>43, <1>44, <1>45
  DEF TTYNext, RunTask, HostStep, Reader, HandlerStep, ClientRequest

(* Locks.                                                                    *)
LEMMA LockStep == TTYInv /\ [TTYNext]_ttyVars => LockInv'
<1> SUFFICES ASSUME TTYInv, [TTYNext]_ttyVars PROVE LockInv'
  OBVIOUS
<1> USE TTYAssumption DEF TTYAssumption, TTYInv, TypeInv, LockInv, Holds, Pushes, InMap,
      LifeInv, Done, ttyVars, loopVars, reqVars, fieldVars, taskVars, ptyVars,
      rdVars, clientVars, logVars, loopUnchanged, rdUnchanged, hUnchanged,
      envUnchanged, Step, Forget, VtSetSize, Emit, OnPushLine, SigKill
<1>1. CASE OpenPTY
  BY <1>1 DEF OpenPTY
<1>2. CASE StartFail
  BY <1>2 DEF StartFail
<1>3. CASE Spawn \/ Publish
  BY <1>3 DEF Spawn, Publish
<1>4. CASE EmitStarted
  BY <1>4 DEF EmitStarted
<1>5. CASE Notify
  BY <1>5 DEF Notify
<1>6. CASE SelectDone
  BY <1>6 DEF SelectDone
<1>7. CASE SelectEventErr
  BY <1>7 DEF SelectEventErr
<1>8. CASE SelectRestart
  BY <1>8 DEF SelectRestart
<1>9. CASE SelectCancel
  BY <1>9 DEF SelectCancel
<1>10. CASE GracefulKill
  BY <1>10 DEF GracefulKill
<1>11. CASE GraceTimeout
  BY <1>11 DEF GraceTimeout
<1>12. CASE LoopKill
  BY <1>12 DEF LoopKill
<1>13. CASE closePTYMaster
  BY <1>13 DEF closePTYMaster
<1>14. CASE LoopDone
  BY <1>14 DEF LoopDone
<1>15. ASSUME pc # "returned", Read PROVE LockInv'
  BY <1>15 DEF Read
<1>16. ASSUME pc # "returned", ReadEnd PROVE LockInv'
  BY <1>16 DEF ReadEnd
<1>17. ASSUME pc # "returned", VtWrite PROVE LockInv'
  BY <1>17 DEF VtWrite
<1>18. ASSUME pc # "returned", VtCallback PROVE LockInv'
  BY <1>18 DEF VtCallback
<1>19. ASSUME pc # "returned", CastBegin PROVE LockInv'
  <2>1. UNCHANGED <<vmu, handler, clients>> /\ rd = "cast" /\ mu = "free"
    BY <1>19 DEF CastBegin
  <2>2. \A c \in Clients : c # "free" /\ c # "reader" /\ handler[c] \notin Holds
    BY <2>1
  <2>3. CASE rd' = "read" /\ mu' = mu /\ todo' = todo
    BY <2>1, <2>3
  <2>4. CASE rd' = "send" /\ mu' = "reader"
    BY <2>1, <2>2, <2>4
  <2> QED
    BY <1>19, <2>3, <2>4 DEF CastBegin
<1>20. ASSUME pc # "returned", WaitExit PROVE LockInv'
  BY <1>20 DEF WaitExit
<1>21. ASSUME pc # "returned", ShootScreen PROVE LockInv'
  BY <1>21 DEF ShootScreen
<1>22. ASSUME pc # "returned", EmitScreen PROVE LockInv'
  BY <1>22 DEF EmitScreen
<1>23. ASSUME pc # "returned", EmitExited PROVE LockInv'
  BY <1>23 DEF EmitExited
<1>24. ASSUME pc # "returned", PublishExit PROVE LockInv'
  BY <1>24 DEF PublishExit
<1>25. ASSUME pc # "returned", KillRequest PROVE LockInv'
  BY <1>25 DEF KillRequest
<1>26. ASSUME pc # "returned", RestartRequest PROVE LockInv'
  BY <1>26 DEF RestartRequest
<1>27. ASSUME pc # "returned", TaskPrint PROVE LockInv'
  BY <1>27 DEF TaskPrint
<1>28. ASSUME pc # "returned", LeaderExit PROVE LockInv'
  BY <1>28 DEF LeaderExit
<1>29. ASSUME NEW c \in Clients, pc # "returned", CastSend(c) PROVE LockInv'
  BY <1>29 DEF CastSend
<1>30. ASSUME NEW c \in Clients, pc # "returned", AttachSetSize(c) PROVE LockInv'
  BY <1>30 DEF AttachSetSize
<1>31. ASSUME NEW c \in Clients, pc # "returned", AttachPipeFail(c) PROVE LockInv'
  BY <1>31 DEF AttachPipeFail
<1>32. ASSUME NEW c \in Clients, pc # "returned", AttachSnapshot(c) PROVE LockInv'
  BY <1>32 DEF AttachSnapshot
<1>33. ASSUME NEW c \in Clients, pc # "returned", AttachRegister(c) PROVE LockInv'
  BY <1>33 DEF AttachRegister
<1>34. ASSUME NEW c \in Clients, pc # "returned", ResizeVt(c) PROVE LockInv'
  BY <1>34 DEF ResizeVt
<1>35. ASSUME NEW c \in Clients, pc # "returned", ResizePushLine(c) PROVE LockInv'
  BY <1>35 DEF ResizePushLine
<1>36. ASSUME NEW c \in Clients, pc # "returned", InputEOF(c) PROVE LockInv'
  BY <1>36 DEF InputEOF
<1>37. ASSUME NEW c \in Clients, pc # "returned", AttachBegin(c) PROVE LockInv'
  BY <1>37 DEF AttachBegin
<1>38. ASSUME NEW c \in Clients, pc # "returned", ResizeFields(c) PROVE LockInv'
  BY <1>38 DEF ResizeFields
<1>39. ASSUME NEW c \in Clients, pc # "returned", ClientRead(c) PROVE LockInv'
  BY <1>39 DEF ClientRead
<1>40. ASSUME NEW c \in Clients, pc # "returned", ClientClose(c) PROVE LockInv'
  BY <1>40 DEF ClientClose
<1>41. ASSUME NEW c \in Clients, pc # "returned", Detach(c) PROVE LockInv'
  BY <1>41 DEF Detach
<1>42. ASSUME NEW p \in Descendants, pc # "returned", Fork(p) PROVE LockInv'
  BY <1>42 DEF Fork
<1>43. ASSUME NEW p \in Descendants \cup {"leader"}, pc # "returned", CloseSlave(p)
      PROVE  LockInv'
  BY <1>43 DEF CloseSlave
<1>44. CASE UNCHANGED ttyVars
  BY <1>44 DEF ttyVars
<1>45. ASSUME pc # "returned", Cancel PROVE LockInv'
  BY <1>45 DEF Cancel
<1> QED
  BY <1>1, <1>2, <1>3, <1>4, <1>5, <1>6, <1>7, <1>8, <1>9, <1>10,
     <1>11, <1>12, <1>13, <1>14, <1>15, <1>16, <1>17, <1>18, <1>19, <1>20,
     <1>21, <1>22, <1>23, <1>24, <1>25, <1>26, <1>27, <1>28, <1>29, <1>30,
     <1>31, <1>32, <1>33, <1>34, <1>35, <1>36, <1>37, <1>38, <1>39, <1>40,
     <1>41, <1>42, <1>43, <1>44, <1>45
  DEF TTYNext, RunTask, HostStep, Reader, HandlerStep, ClientRequest

(* Streams.                                                                  *)
LEMMA StreamStep == TTYInv /\ [TTYNext]_ttyVars => StreamInv'
<1> SUFFICES ASSUME TTYInv, [TTYNext]_ttyVars PROVE StreamInv'
  OBVIOUS
<1> USE TTYAssumption DEF TTYAssumption, TTYInv, TypeInv, LockInv, Holds, Pushes, InMap,
      LifeInv, Done, StreamInv, Cast, ttyVars, loopVars, reqVars, fieldVars,
      taskVars, ptyVars, rdVars, clientVars, logVars, loopUnchanged, rdUnchanged,
      hUnchanged, envUnchanged, Step, Forget, VtSetSize, Emit, OnPushLine, SigKill
<1>1. CASE OpenPTY
  BY <1>1 DEF OpenPTY
<1>2. CASE StartFail
  BY <1>2 DEF StartFail
<1>3. CASE Spawn \/ Publish
  BY <1>3 DEF Spawn, Publish
<1>4. CASE EmitStarted
  BY <1>4 DEF EmitStarted
<1>5. CASE Notify
  BY <1>5 DEF Notify
<1>6. CASE SelectDone
  BY <1>6 DEF SelectDone
<1>7. CASE SelectEventErr
  BY <1>7 DEF SelectEventErr
<1>8. CASE SelectRestart
  BY <1>8 DEF SelectRestart
<1>9. CASE SelectCancel
  BY <1>9 DEF SelectCancel
<1>10. CASE GracefulKill
  BY <1>10 DEF GracefulKill
<1>11. CASE GraceTimeout
  BY <1>11 DEF GraceTimeout
<1>12. CASE LoopKill
  BY <1>12 DEF LoopKill
<1>13. CASE closePTYMaster
  BY <1>13 DEF closePTYMaster
<1>14. CASE LoopDone
  BY <1>14 DEF LoopDone
<1>15. ASSUME pc # "returned", Read PROVE StreamInv'
  BY <1>15 DEF Read
<1>16. ASSUME pc # "returned", ReadEnd PROVE StreamInv'
  BY <1>16 DEF ReadEnd
<1>17. ASSUME pc # "returned", VtWrite PROVE StreamInv'
  BY <1>17 DEF VtWrite
<1>18. ASSUME pc # "returned", VtCallback PROVE StreamInv'
  BY <1>18 DEF VtCallback
<1>19. ASSUME pc # "returned", CastBegin PROVE StreamInv'
  BY <1>19 DEF CastBegin
<1>20. ASSUME pc # "returned", WaitExit PROVE StreamInv'
  BY <1>20 DEF WaitExit
<1>21. ASSUME pc # "returned", ShootScreen PROVE StreamInv'
  BY <1>21 DEF ShootScreen
<1>22. ASSUME pc # "returned", EmitScreen PROVE StreamInv'
  BY <1>22 DEF EmitScreen
<1>23. ASSUME pc # "returned", EmitExited PROVE StreamInv'
  BY <1>23 DEF EmitExited
<1>24. ASSUME pc # "returned", PublishExit PROVE StreamInv'
  BY <1>24 DEF PublishExit
<1>25. ASSUME pc # "returned", KillRequest PROVE StreamInv'
  BY <1>25 DEF KillRequest
<1>26. ASSUME pc # "returned", RestartRequest PROVE StreamInv'
  BY <1>26 DEF RestartRequest
<1>27. ASSUME pc # "returned", TaskPrint PROVE StreamInv'
  BY <1>27 DEF TaskPrint
<1>28. ASSUME pc # "returned", LeaderExit PROVE StreamInv'
  BY <1>28 DEF LeaderExit
<1>29. ASSUME NEW c \in Clients, pc # "returned", CastSend(c) PROVE StreamInv'
  <2>1. /\ UNCHANGED <<handler, snap, screen, clients>> /\ rd = "send" /\ c \in todo
        /\ todo' = todo \ {c} /\ (rd' = "send" \/ (rd' = "read" /\ todo' = {}))
    BY <1>29 DEF CastSend
  <2>2. handler[c] = "closed" \/ stream' = [stream EXCEPT ![c] = Append(@, screen)]
    BY <1>29 DEF CastSend
  <2>3. \A d \in Clients : d # c => stream'[d] = stream[d] /\ Cast(d)' = Cast(d)
    <3>1. \A d \in Clients : d # c => stream'[d] = stream[d]
      BY <1>29 DEF CastSend, ChunkInv
    <3>2. \A d \in Clients : d # c => (d \in todo <=> d \in todo')
      BY <2>1
    <3> QED
      BY <2>1, <3>1, <3>2
  <2>4. Cast(c) = screen - 1 /\ Cast(c)' = screen
    BY <2>1
  <2>5. ASSUME handler[c] \in {"attached", "resizeVt", "pushFree"}
        PROVE  FollowsOn(stream'[c], snap[c], Cast(c)')
    <3>1. stream'[c] = Append(stream[c], screen) /\ stream[c] \in Seq(Nat)
      BY <2>2, <2>5 DEF ChunkInv
    <3>2. FollowsOn(stream[c], snap[c], screen - 1)
      BY <2>4, <2>5
    <3>3. snap[c] \in Nat /\ screen \in Nat /\ screen > 0
      BY <2>1
    <3> HIDE DEF TTYInv, Cast
    <3> QED
      BY <2>4, <3>1, <3>2, <3>3, FollowsSend
  <2>6. handler[c] \in InMap
    BY <2>1
  <2> QED
    BY <2>1, <2>3, <2>5, <2>6, SMTT(20) DEF Cast
<1>30. ASSUME NEW c \in Clients, pc # "returned", AttachSetSize(c) PROVE StreamInv'
  BY <1>30 DEF AttachSetSize
<1>31. ASSUME NEW c \in Clients, pc # "returned", AttachPipeFail(c) PROVE StreamInv'
  BY <1>31 DEF AttachPipeFail
<1>32. ASSUME NEW c \in Clients, pc # "returned", AttachSnapshot(c) PROVE StreamInv'
  <2>1. /\ UNCHANGED <<rd, screen, todo, stream>> /\ rd # "send" /\ handler[c] = "pipes"
        /\ handler' = [handler EXCEPT ![c] = "cursor"] /\ snap' = [snap EXCEPT ![c] = screen]
    BY <1>32 DEF AttachSnapshot
  <2>2. stream[c] = <<>> /\ screen \in Nat /\ Cast(c) \in Int /\ Cast(c) + 1 \in {screen, screen + 1}
    BY <2>1
  <2>3. FollowsOn(stream[c], screen, Cast(c))
    <3> HIDE DEF TTYInv, Cast
    <3> QED
      BY <2>2, FollowsNew
  <2>4. \A d \in Clients : Cast(d)' = Cast(d)
    BY <2>1
  <2> HIDE DEF Cast
  <2> QED
    BY <2>1, <2>3, <2>4
<1>33. ASSUME NEW c \in Clients, pc # "returned", AttachRegister(c) PROVE StreamInv'
  BY <1>33 DEF AttachRegister
<1>34. ASSUME NEW c \in Clients, pc # "returned", ResizeVt(c) PROVE StreamInv'
  BY <1>34 DEF ResizeVt
<1>35. ASSUME NEW c \in Clients, pc # "returned", ResizePushLine(c) PROVE StreamInv'
  BY <1>35 DEF ResizePushLine
<1>36. ASSUME NEW c \in Clients, pc # "returned", InputEOF(c) PROVE StreamInv'
  BY <1>36 DEF InputEOF
<1>37. ASSUME NEW c \in Clients, pc # "returned", AttachBegin(c) PROVE StreamInv'
  BY <1>37 DEF AttachBegin
<1>38. ASSUME NEW c \in Clients, pc # "returned", ResizeFields(c) PROVE StreamInv'
  BY <1>38 DEF ResizeFields
<1>39. ASSUME NEW c \in Clients, pc # "returned", ClientRead(c) PROVE StreamInv'
  BY <1>39 DEF ClientRead
<1>40. ASSUME NEW c \in Clients, pc # "returned", ClientClose(c) PROVE StreamInv'
  BY <1>40 DEF ClientClose
<1>41. ASSUME NEW c \in Clients, pc # "returned", Detach(c) PROVE StreamInv'
  BY <1>41 DEF Detach
<1>42. ASSUME NEW p \in Descendants, pc # "returned", Fork(p) PROVE StreamInv'
  BY <1>42 DEF Fork
<1>43. ASSUME NEW p \in Descendants \cup {"leader"}, pc # "returned", CloseSlave(p)
      PROVE  StreamInv'
  BY <1>43 DEF CloseSlave
<1>44. CASE UNCHANGED ttyVars
  BY <1>44 DEF ttyVars
<1>45. ASSUME pc # "returned", Cancel PROVE StreamInv'
  BY <1>45 DEF Cancel
<1> QED
  BY <1>1, <1>2, <1>3, <1>4, <1>5, <1>6, <1>7, <1>8, <1>9, <1>10,
     <1>11, <1>12, <1>13, <1>14, <1>15, <1>16, <1>17, <1>18, <1>19, <1>20,
     <1>21, <1>22, <1>23, <1>24, <1>25, <1>26, <1>27, <1>28, <1>29, <1>30,
     <1>31, <1>32, <1>33, <1>34, <1>35, <1>36, <1>37, <1>38, <1>39, <1>40,
     <1>41, <1>42, <1>43, <1>44, <1>45
  DEF TTYNext, RunTask, HostStep, Reader, HandlerStep, ClientRequest

(* The records of the end of the task.                                       *)
LEMMA RecordStep == TTYInv /\ [TTYNext]_ttyVars => RecordInv'
<1> SUFFICES ASSUME TTYInv, [TTYNext]_ttyVars PROVE RecordInv'
  OBVIOUS
<1> USE TTYAssumption DEF TTYAssumption, TTYInv, TypeInv, LogInv, LifeInv, Done, RecordInv,
      ttyVars, loopVars, reqVars, fieldVars, taskVars, ptyVars, rdVars, clientVars,
      logVars, loopUnchanged, rdUnchanged, hUnchanged, envUnchanged, Step, Forget,
      VtSetSize, Emit, OnPushLine, SigKill
<1>1. CASE OpenPTY
  BY <1>1 DEF OpenPTY, InLog, Record
<1>2. CASE StartFail
  BY <1>2 DEF StartFail, InLog, Record
<1>3. CASE Spawn \/ Publish
  BY <1>3 DEF Spawn, Publish, InLog, Record
<1>4. CASE EmitStarted
  <2>1. \/ log' = Append(log, Record("started", 0)) /\ lost' = lost
        \/ log' = log /\ lost' = TRUE
    BY <1>4 DEF EmitStarted
  <2>2. UNCHANGED <<rd, screen, shot, inc>>
    BY <1>4 DEF EmitStarted
  <2>3. CASE log' = Append(log, Record("started", 0)) /\ lost' = lost
    <3>1. \A x : (\E i \in DOMAIN log : log[i] = x) => \E i \in DOMAIN log' : log'[i] = x
      BY <2>3, LogKeeps, Recorded, Zenon
    <3>2. DOMAIN log \subseteq DOMAIN log' /\ \A i \in DOMAIN log : log'[i] = log[i]
      <4>1. /\ DOMAIN log = 1..Len(log) /\ DOMAIN log' = 1..(Len(log) + 1)
            /\ Len(log) \in Nat /\ \A i \in 1..Len(log) : log'[i] = log[i]
        BY <2>3, LogAppended, Recorded, Zenon
      <4> HIDE DEF TTYInv
      <4> QED
        BY <4>1
    <3> QED
      <4>1. /\ rd' = "emitScreen" => shot' = screen'
            /\ rd' = "emitExited" /\ ~lost' => InLog(Record("screen", screen))'
            /\ rd' = "done" /\ ~lost' => InLog(Record("exited", inc))'
        BY <2>2, <2>3, <3>1, Zenon DEF InLog, Record
      <4>2. ASSUME rd' = "publish", ~lost'
            PROVE  \E i, j \in DOMAIN log' :
                      /\ i < j /\ log'[i] = Record("screen", screen)
                      /\ log'[j] = Record("exited", inc)
        <5>1. PICK i, j \in DOMAIN log :
                /\ i < j /\ log[i] = Record("screen", screen) /\ log[j] = Record("exited", inc)
          BY <2>2, <2>3, <4>2, Zenon
        <5> QED
          BY <3>2, <5>1, Zenon
      <4> QED
        BY <2>2, <4>1, <4>2, Zenon DEF Record
  <2>4. CASE log' = log /\ lost' = TRUE
    BY <2>2, <2>4
  <2> QED
    BY <2>1, <2>3, <2>4
<1>5. CASE Notify
  BY <1>5 DEF Notify, InLog, Record
<1>6. CASE SelectDone
  BY <1>6 DEF SelectDone, InLog, Record
<1>7. CASE SelectEventErr
  BY <1>7 DEF SelectEventErr, InLog, Record
<1>8. CASE SelectRestart
  BY <1>8 DEF SelectRestart, InLog, Record
<1>9. CASE SelectCancel
  BY <1>9 DEF SelectCancel, InLog, Record
<1>10. CASE GracefulKill
  BY <1>10 DEF GracefulKill, InLog, Record
<1>11. CASE GraceTimeout
  BY <1>11 DEF GraceTimeout, InLog, Record
<1>12. CASE LoopKill
  BY <1>12 DEF LoopKill, InLog, Record
<1>13. CASE closePTYMaster
  BY <1>13 DEF closePTYMaster, InLog, Record
<1>14. CASE LoopDone
  BY <1>14 DEF LoopDone, InLog, Record
<1>15. ASSUME pc # "returned", Read PROVE RecordInv'
  BY <1>15 DEF Read, InLog, Record
<1>16. ASSUME pc # "returned", ReadEnd PROVE RecordInv'
  BY <1>16 DEF ReadEnd, InLog, Record
<1>17. ASSUME pc # "returned", VtWrite PROVE RecordInv'
  BY <1>17 DEF VtWrite, InLog, Record
<1>18. ASSUME pc # "returned", VtCallback PROVE RecordInv'
  BY <1>18 DEF VtCallback, InLog, Record
<1>19. ASSUME pc # "returned", CastBegin PROVE RecordInv'
  BY <1>19 DEF CastBegin, InLog, Record
<1>20. ASSUME pc # "returned", WaitExit PROVE RecordInv'
  BY <1>20 DEF WaitExit, InLog, Record
<1>21. ASSUME pc # "returned", ShootScreen PROVE RecordInv'
  BY <1>21 DEF ShootScreen, InLog, Record
<1>22. ASSUME pc # "returned", EmitScreen PROVE RecordInv'
  <2>1. rd' = "emitExited" /\ UNCHANGED screen /\ shot = screen
    BY <1>22 DEF EmitScreen
  <2>2. CASE log' = Append(log, Record("screen", shot))
    <3>1. \E i \in DOMAIN log' : log'[i] = Record("screen", shot)
      BY <2>2, LogKeeps, Recorded, Zenon
    <3> QED
      BY <2>1, <3>1, Zenon DEF InLog, Record
  <2>3. CASE lost'
    BY <2>1, <2>3
  <2> QED
    BY <1>22, <2>2, <2>3 DEF EmitScreen
<1>23. ASSUME pc # "returned", EmitExited PROVE RecordInv'
  <2>1. rd = "emitExited" /\ rd' = "publish" /\ UNCHANGED <<screen, inc>>
    BY <1>23 DEF EmitExited
  <2>2. CASE log' = Append(log, Record("exited", inc)) /\ lost' = lost
    <3>1. /\ Len(log) \in Nat /\ DOMAIN log = 1..Len(log) /\ DOMAIN log' = 1..(Len(log) + 1)
          /\ \A i \in 1..Len(log) : log'[i] = log[i]
          /\ log'[Len(log) + 1] = Record("exited", inc)
      BY <2>2, LogAppended, Recorded, Zenon
    <3>2. ASSUME ~lost'
          PROVE  \E i, j \in DOMAIN log' :
                    /\ i < j /\ log'[i] = Record("screen", screen)
                    /\ log'[j] = Record("exited", inc)
      <4>1. PICK i \in DOMAIN log : log[i] = Record("screen", screen)
        BY <2>1, <2>2, <3>2, Zenon DEF InLog
      <4>2. /\ i \in DOMAIN log' /\ Len(log) + 1 \in DOMAIN log' /\ i < Len(log) + 1
            /\ log'[i] = log[i]
        BY <3>1
      <4> QED
        BY <3>1, <4>1, <4>2, ZenonT(40)
    <3> QED
      BY <2>1, <3>2, Zenon DEF Record
  <2>3. CASE lost'
    BY <2>1, <2>3
  <2> QED
    BY <1>23, <2>2, <2>3 DEF EmitExited
<1>24. ASSUME pc # "returned", PublishExit PROVE RecordInv'
  BY <1>24 DEF PublishExit, InLog, Record
<1>25. ASSUME pc # "returned", KillRequest PROVE RecordInv'
  BY <1>25 DEF KillRequest, InLog, Record
<1>26. ASSUME pc # "returned", RestartRequest PROVE RecordInv'
  BY <1>26 DEF RestartRequest, InLog, Record
<1>27. ASSUME pc # "returned", TaskPrint PROVE RecordInv'
  BY <1>27 DEF TaskPrint, InLog, Record
<1>28. ASSUME pc # "returned", LeaderExit PROVE RecordInv'
  BY <1>28 DEF LeaderExit, InLog, Record
<1>29. ASSUME NEW c \in Clients, pc # "returned", CastSend(c) PROVE RecordInv'
  BY <1>29 DEF CastSend, InLog, Record
<1>30. ASSUME NEW c \in Clients, pc # "returned", AttachSetSize(c) PROVE RecordInv'
  BY <1>30 DEF AttachSetSize, InLog, Record
<1>31. ASSUME NEW c \in Clients, pc # "returned", AttachPipeFail(c) PROVE RecordInv'
  BY <1>31 DEF AttachPipeFail, InLog, Record
<1>32. ASSUME NEW c \in Clients, pc # "returned", AttachSnapshot(c) PROVE RecordInv'
  BY <1>32 DEF AttachSnapshot, InLog, Record
<1>33. ASSUME NEW c \in Clients, pc # "returned", AttachRegister(c) PROVE RecordInv'
  BY <1>33 DEF AttachRegister, InLog, Record
<1>34. ASSUME NEW c \in Clients, pc # "returned", ResizeVt(c) PROVE RecordInv'
  BY <1>34 DEF ResizeVt, InLog, Record
<1>35. ASSUME NEW c \in Clients, pc # "returned", ResizePushLine(c) PROVE RecordInv'
  BY <1>35 DEF ResizePushLine, InLog, Record
<1>36. ASSUME NEW c \in Clients, pc # "returned", InputEOF(c) PROVE RecordInv'
  BY <1>36 DEF InputEOF, InLog, Record
<1>37. ASSUME NEW c \in Clients, pc # "returned", AttachBegin(c) PROVE RecordInv'
  BY <1>37 DEF AttachBegin, InLog, Record
<1>38. ASSUME NEW c \in Clients, pc # "returned", ResizeFields(c) PROVE RecordInv'
  BY <1>38 DEF ResizeFields, InLog, Record
<1>39. ASSUME NEW c \in Clients, pc # "returned", ClientRead(c) PROVE RecordInv'
  BY <1>39 DEF ClientRead, InLog, Record
<1>40. ASSUME NEW c \in Clients, pc # "returned", ClientClose(c) PROVE RecordInv'
  BY <1>40 DEF ClientClose, InLog, Record
<1>41. ASSUME NEW c \in Clients, pc # "returned", Detach(c) PROVE RecordInv'
  BY <1>41 DEF Detach, InLog, Record
<1>42. ASSUME NEW p \in Descendants, pc # "returned", Fork(p) PROVE RecordInv'
  BY <1>42 DEF Fork, InLog, Record
<1>43. ASSUME NEW p \in Descendants \cup {"leader"}, pc # "returned", CloseSlave(p)
      PROVE  RecordInv'
  BY <1>43 DEF CloseSlave, InLog, Record
<1>44. CASE UNCHANGED ttyVars
  BY <1>44 DEF ttyVars, InLog, Record
<1>45. ASSUME pc # "returned", Cancel PROVE RecordInv'
  BY <1>45 DEF Cancel, InLog, Record
<1> QED
  BY <1>1, <1>2, <1>3, <1>4, <1>5, <1>6, <1>7, <1>8, <1>9, <1>10,
     <1>11, <1>12, <1>13, <1>14, <1>15, <1>16, <1>17, <1>18, <1>19, <1>20,
     <1>21, <1>22, <1>23, <1>24, <1>25, <1>26, <1>27, <1>28, <1>29, <1>30,
     <1>31, <1>32, <1>33, <1>34, <1>35, <1>36, <1>37, <1>38, <1>39, <1>40,
     <1>41, <1>42, <1>43, <1>44, <1>45
  DEF TTYNext, RunTask, HostStep, Reader, HandlerStep, ClientRequest

(* An error reaches the result.                                              *)
LEMMA ResultStep == TTYInv /\ [TTYNext]_ttyVars => ResultInv'
<1> SUFFICES ASSUME TTYInv, [TTYNext]_ttyVars PROVE ResultInv'
  OBVIOUS
<1> USE TTYAssumption DEF TTYAssumption, TTYInv, TypeInv, LogInv, LifeInv, Done, ResultInv,
      ttyVars, loopVars, reqVars, fieldVars, taskVars, ptyVars, rdVars, clientVars,
      logVars, loopUnchanged, rdUnchanged, hUnchanged, envUnchanged, Step, Forget,
      VtSetSize, Emit, OnPushLine, SigKill
<1>1. CASE OpenPTY
  BY <1>1 DEF OpenPTY, InLog, Record
<1>2. CASE StartFail
  BY <1>2 DEF StartFail, InLog, Record
<1>3. CASE Spawn \/ Publish
  BY <1>3 DEF Spawn, Publish, InLog, Record
<1>4. CASE EmitStarted
  BY <1>4 DEF EmitStarted, InLog, Record
<1>5. CASE Notify
  BY <1>5 DEF Notify, InLog, Record
<1>6. CASE SelectDone
  <2>1. /\ pc = "select" /\ rd = "done" /\ pc' = "returned" /\ UNCHANGED <<rd, lost, log>>
        /\ result' = IF eventErr THEN "eventErr" ELSE "nil"
    BY <1>6 DEF SelectDone
  <2>2. CASE eventErr
    BY <2>1, <2>2 DEF InLog, Record
  <2>3. CASE ~eventErr
    <3>1. ~lost
      BY <2>1, <2>3, Zenon
    <3> QED
      BY <2>1, <2>3, <3>1 DEF InLog, Record
  <2> QED
    BY <2>2, <2>3
<1>7. CASE SelectEventErr
  BY <1>7 DEF SelectEventErr, InLog, Record
<1>8. CASE SelectRestart
  BY <1>8 DEF SelectRestart, InLog, Record
<1>9. CASE SelectCancel
  BY <1>9 DEF SelectCancel, InLog, Record
<1>10. CASE GracefulKill
  BY <1>10 DEF GracefulKill, InLog, Record
<1>11. CASE GraceTimeout
  BY <1>11 DEF GraceTimeout, InLog, Record
<1>12. CASE LoopKill
  BY <1>12 DEF LoopKill, InLog, Record
<1>13. CASE closePTYMaster
  BY <1>13 DEF closePTYMaster, InLog, Record
<1>14. CASE LoopDone
  BY <1>14 DEF LoopDone, InLog, Record
<1>15. ASSUME pc # "returned", Read PROVE ResultInv'
  BY <1>15 DEF Read, InLog, Record
<1>16. ASSUME pc # "returned", ReadEnd PROVE ResultInv'
  BY <1>16 DEF ReadEnd, InLog, Record
<1>17. ASSUME pc # "returned", VtWrite PROVE ResultInv'
  BY <1>17 DEF VtWrite, InLog, Record
<1>18. ASSUME pc # "returned", VtCallback PROVE ResultInv'
  BY <1>18 DEF VtCallback, InLog, Record
<1>19. ASSUME pc # "returned", CastBegin PROVE ResultInv'
  BY <1>19 DEF CastBegin, InLog, Record
<1>20. ASSUME pc # "returned", WaitExit PROVE ResultInv'
  BY <1>20 DEF WaitExit, InLog, Record
<1>21. ASSUME pc # "returned", ShootScreen PROVE ResultInv'
  BY <1>21 DEF ShootScreen, InLog, Record
<1>22. ASSUME pc # "returned", EmitScreen PROVE ResultInv'
  <2>1. UNCHANGED <<pc, result>> /\ result # "nil" /\ pc # "returned"
    BY <1>22 DEF EmitScreen
  <2>2. \/ log' = Append(log, Record("screen", shot)) /\ UNCHANGED <<eventErr, lost>>
        \/ eventErr' = TRUE /\ UNCHANGED log
    BY <1>22 DEF EmitScreen
  <2>3. CASE log' = Append(log, Record("screen", shot)) /\ UNCHANGED <<eventErr, lost>>
    <3>1. \A x : (\E i \in DOMAIN log : log[i] = x) => \E i \in DOMAIN log' : log'[i] = x
      BY <2>3, LogKeeps, Recorded, Zenon
    <3>2. /\ lost' => eventErr' \/ result' \notin {"none", "nil"}
          /\ pc' \in {"start", "opened", "spawned", "emitStarted", "notify", "select"}
                 => result' = "none"
      BY <2>1, <2>3, Zenon
    <3>3. pc' \in {"notify", "select"} => InLog(Record("started", 0))'
      BY <2>1, <3>1, Zenon DEF InLog, Record
    <3> QED
      BY <2>1, <3>2, <3>3, Zenon
  <2>4. CASE eventErr' = TRUE /\ UNCHANGED log
    BY <2>1, <2>4 DEF InLog, Record
  <2> QED
    BY <2>2, <2>3, <2>4
<1>23. ASSUME pc # "returned", EmitExited PROVE ResultInv'
  <2>1. UNCHANGED <<pc, result>> /\ result # "nil" /\ pc # "returned"
    BY <1>23 DEF EmitExited
  <2>2. \/ log' = Append(log, Record("exited", inc)) /\ UNCHANGED <<eventErr, lost>>
        \/ eventErr' = TRUE /\ UNCHANGED log
    BY <1>23 DEF EmitExited
  <2>3. CASE log' = Append(log, Record("exited", inc)) /\ UNCHANGED <<eventErr, lost>>
    <3>1. \A x : (\E i \in DOMAIN log : log[i] = x) => \E i \in DOMAIN log' : log'[i] = x
      BY <2>3, LogKeeps, Recorded, Zenon
    <3>2. /\ lost' => eventErr' \/ result' \notin {"none", "nil"}
          /\ pc' \in {"start", "opened", "spawned", "emitStarted", "notify", "select"}
                 => result' = "none"
      BY <2>1, <2>3, Zenon
    <3>3. pc' \in {"notify", "select"} => InLog(Record("started", 0))'
      BY <2>1, <3>1, Zenon DEF InLog, Record
    <3> QED
      BY <2>1, <3>2, <3>3, Zenon
  <2>4. CASE eventErr' = TRUE /\ UNCHANGED log
    BY <2>1, <2>4 DEF InLog, Record
  <2> QED
    BY <2>2, <2>3, <2>4
<1>24. ASSUME pc # "returned", PublishExit PROVE ResultInv'
  BY <1>24 DEF PublishExit, InLog, Record
<1>25. ASSUME pc # "returned", KillRequest PROVE ResultInv'
  BY <1>25 DEF KillRequest, InLog, Record
<1>26. ASSUME pc # "returned", RestartRequest PROVE ResultInv'
  BY <1>26 DEF RestartRequest, InLog, Record
<1>27. ASSUME pc # "returned", TaskPrint PROVE ResultInv'
  BY <1>27 DEF TaskPrint, InLog, Record
<1>28. ASSUME pc # "returned", LeaderExit PROVE ResultInv'
  BY <1>28 DEF LeaderExit, InLog, Record
<1>29. ASSUME NEW c \in Clients, pc # "returned", CastSend(c) PROVE ResultInv'
  BY <1>29 DEF CastSend, InLog, Record
<1>30. ASSUME NEW c \in Clients, pc # "returned", AttachSetSize(c) PROVE ResultInv'
  BY <1>30 DEF AttachSetSize, InLog, Record
<1>31. ASSUME NEW c \in Clients, pc # "returned", AttachPipeFail(c) PROVE ResultInv'
  BY <1>31 DEF AttachPipeFail, InLog, Record
<1>32. ASSUME NEW c \in Clients, pc # "returned", AttachSnapshot(c) PROVE ResultInv'
  BY <1>32 DEF AttachSnapshot, InLog, Record
<1>33. ASSUME NEW c \in Clients, pc # "returned", AttachRegister(c) PROVE ResultInv'
  BY <1>33 DEF AttachRegister, InLog, Record
<1>34. ASSUME NEW c \in Clients, pc # "returned", ResizeVt(c) PROVE ResultInv'
  BY <1>34 DEF ResizeVt, InLog, Record
<1>35. ASSUME NEW c \in Clients, pc # "returned", ResizePushLine(c) PROVE ResultInv'
  BY <1>35 DEF ResizePushLine, InLog, Record
<1>36. ASSUME NEW c \in Clients, pc # "returned", InputEOF(c) PROVE ResultInv'
  BY <1>36 DEF InputEOF, InLog, Record
<1>37. ASSUME NEW c \in Clients, pc # "returned", AttachBegin(c) PROVE ResultInv'
  BY <1>37 DEF AttachBegin, InLog, Record
<1>38. ASSUME NEW c \in Clients, pc # "returned", ResizeFields(c) PROVE ResultInv'
  BY <1>38 DEF ResizeFields, InLog, Record
<1>39. ASSUME NEW c \in Clients, pc # "returned", ClientRead(c) PROVE ResultInv'
  BY <1>39 DEF ClientRead, InLog, Record
<1>40. ASSUME NEW c \in Clients, pc # "returned", ClientClose(c) PROVE ResultInv'
  BY <1>40 DEF ClientClose, InLog, Record
<1>41. ASSUME NEW c \in Clients, pc # "returned", Detach(c) PROVE ResultInv'
  BY <1>41 DEF Detach, InLog, Record
<1>42. ASSUME NEW p \in Descendants, pc # "returned", Fork(p) PROVE ResultInv'
  BY <1>42 DEF Fork, InLog, Record
<1>43. ASSUME NEW p \in Descendants \cup {"leader"}, pc # "returned", CloseSlave(p)
      PROVE  ResultInv'
  BY <1>43 DEF CloseSlave, InLog, Record
<1>44. CASE UNCHANGED ttyVars
  BY <1>44 DEF ttyVars, InLog, Record
<1>45. ASSUME pc # "returned", Cancel PROVE ResultInv'
  BY <1>45 DEF Cancel, InLog, Record
<1> QED
  BY <1>1, <1>2, <1>3, <1>4, <1>5, <1>6, <1>7, <1>8, <1>9, <1>10,
     <1>11, <1>12, <1>13, <1>14, <1>15, <1>16, <1>17, <1>18, <1>19, <1>20,
     <1>21, <1>22, <1>23, <1>24, <1>25, <1>26, <1>27, <1>28, <1>29, <1>30,
     <1>31, <1>32, <1>33, <1>34, <1>35, <1>36, <1>37, <1>38, <1>39, <1>40,
     <1>41, <1>42, <1>43, <1>44, <1>45
  DEF TTYNext, RunTask, HostStep, Reader, HandlerStep, ClientRequest

LEMMA TTYStepInv == TTYInv /\ [TTYNext]_ttyVars => TTYInv'
BY BoolStep, TypeStep, LogStep, ChunkStep, LifeStep, LockStep, StreamStep, RecordStep,
   ResultStep, Zenon
   DEF TTYInv

(* The invariant holds in every behaviour of a TTY host.                       *)
THEOREM TTYInvariant == TTYSpec => []TTYInv
<1>1. TTYInit => TTYInv
  BY TTYInitInv
<1>2. TTYInv /\ [TTYNext]_ttyVars => TTYInv'
  BY TTYStepInv
<1> QED
  BY <1>1, <1>2, PTL DEF TTYSpec

-----------------------------------------------------------------------------
(* The properties that the runs check.                                      *)

(* Every variable has its type; the broadcast goes to clients in the map only,    *)
(* no pipe holds more than it can, no client has a chunk the emulator has not.     *)
THEOREM TTYTypeCorrect == TTYSpec => []TTYTypeOK
<1>1. TTYInv => TTYTypeOK
  <2> SUFFICES ASSUME TTYInv PROVE TTYTypeOK
    OBVIOUS
  <2>1. {cancelled, eventErr, alive, master, lost} \subseteq BOOLEAN
    BY Zenon DEF TTYInv, BoolInv
  <2>2. {inc, proc, ptyBuf, screen, shot} \subseteq Nat
    BY Zenon DEF TTYInv, TypeInv
  <2>3. stream \in [Clients -> Seq(1..screen)]
    <3>1. ASSUME NEW c \in Clients
          PROVE  stream[c] \in Seq(1..screen)
      <4>1. /\ stream[c] \in Seq(Nat)
            /\ \A i \in 1..Len(stream[c]) : stream[c][i] \in 1..screen
        BY DEF TTYInv, ChunkInv
      <4>2. stream[c] \in [1..Len(stream[c]) -> 1..screen] /\ Len(stream[c]) \in Nat
        BY <4>1
      <4> QED
        BY <4>2, SeqDef, Zenon
    <3> QED
      BY <3>1, Zenon DEF TTYInv, ChunkInv
  <2> QED
    BY <2>1, <2>2, <2>3, Zenon DEF TTYTypeOK, TTYInv, TypeInv, LogInv
<1> QED
  BY <1>1, TTYInvariant, PTL

(* RunTask returns, on every path, only when the leader is dead, the fields say     *)
(* so and no reader is left.                                                *)
THEOREM TTYLeavesNoOrphan == TTYSpec => []TTYNoOrphan
<1>1. TTYInv => TTYNoOrphan
  BY DEF TTYInv, LifeInv, TTYNoOrphan, Ended
<1> QED
  BY <1>1, TTYInvariant, PTL

(* What a client is sent follows on its snapshot in order and without a gap.        *)
THEOREM TTYStreamIsContinuous == TTYSpec => []StreamContinuesSnapshot
<1>1. TTYInv => StreamContinuesSnapshot
  <2> SUFFICES ASSUME TTYInv, NEW c \in clients, handler[c] # "closed"
               PROVE  \E k \in {snap[c], snap[c] + 1} :
                        stream[c] = [i \in 1..(Cast(c) + 1 - k) |-> k + i - 1]
    BY DEF StreamContinuesSnapshot
  <2>1. FollowsOn(stream[c], snap[c], Cast(c)) /\ stream[c] \in Seq(Nat)
    BY DEF TTYInv, TypeInv, LockInv, StreamInv, ChunkInv, InMap
  <2>2. PICK k \in {snap[c], snap[c] + 1} :
            /\ Len(stream[c]) = Cast(c) + 1 - k
            /\ \A i \in 1..Len(stream[c]) : stream[c][i] = k + i - 1
    BY <2>1 DEF FollowsOn
  <2>3. stream[c] = [i \in 1..Len(stream[c]) |-> k + i - 1]
    <3>1. stream[c] = [i \in 1..Len(stream[c]) |-> stream[c][i]]
      BY <2>1
    <3> QED
      BY <2>2, <3>1, Zenon
  <2> QED
    BY <2>2, <2>3, Zenon
<1> QED
  BY <1>1, TTYInvariant, PTL

(* The exited record follows a record of the screen that shows everything the task   *)
(* and its descendants printed.                                             *)
THEOREM TTYScreenIsComplete == TTYSpec => []FinalScreenIsComplete
<1>1. TTYInv => FinalScreenIsComplete
  <2> SUFFICES ASSUME TTYInv, rd = "publish", master, ~lost
               PROVE  \E i, j \in DOMAIN log :
                        /\ i < j /\ log[i] = Record("screen", Made)
                        /\ log[j] = Record("exited", inc)
    BY DEF FinalScreenIsComplete
  <2>1. Made = screen
    BY DEF TTYInv, TypeInv, LifeInv, Made
  <2> QED
    BY <2>1, Zenon DEF TTYInv, RecordInv
<1> QED
  BY <1>1, TTYInvariant, PTL

(* RunTask returns nil only if every write to the event log succeeded, in every       *)
(* incarnation, and the last one's records are there.                          *)
THEOREM TTYSuccessIsRecorded == TTYSpec => []TTYSuccessMeansRecorded
<1>1. TTYInv => TTYSuccessMeansRecorded
  BY DEF TTYInv, LifeInv, RecordInv, ResultInv, TTYSuccessMeansRecorded, Ended
<1> QED
  BY <1>1, TTYInvariant, PTL
=============================================================================
