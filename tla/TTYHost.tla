------------------------------ MODULE TTYHost ------------------------------
(***************************************************************************)
(* The TTY host (internal/host/tty.go): the task runs on a PTY, a reader    *)
(* goroutine feeds what it prints to the terminal emulator and to every     *)
(* attached client, and the screen is recorded when the task ends.          *)
(*                                                                         *)
(* Two locks: h.mu (mu) and the emulator's own lock (vmu, vterm/wasm.go).   *)
(* A section that takes one of them and neither blocks nor takes the other  *)
(* is one step that needs the lock free.  The sections that do hold a lock   *)
(* over several steps are                                                  *)
(*   - Attach, which holds mu while it resizes and reads the emulator;      *)
(*   - the reader's broadcast, which holds mu while it writes to pipes;      *)
(*   - vt.Write and vt.SetSize, which hold vmu while the emulator calls      *)
(*     back (a line is pushed to the scrollback, a property changes) and     *)
(*     the callback takes mu.                                              *)
(*                                                                         *)
(* A chunk is what one Read of the PTY returns.  Chunks are numbered in the *)
(* order in which the emulator takes them (screen is the last number).      *)
(* The fields running, proc and ptyPair are set and cleared together: proc    *)
(* stands for them.  An exit code is named by the incarnation whose code it   *)
(* is.                                                                     *)
(* Left out: the title, the alternate-screen flag and the scrollback kept   *)
(* in memory, which are only read by requests; input to the task (SendInput,  *)
(* forwardAttachedInput), which changes no state of the host.  The sizes of  *)
(* the terminal are in AttachClient.                                        *)
(***************************************************************************)
EXTENDS Naturals, Sequences, FiniteSets

CONSTANTS Clients,      \* attachments made in the life of the host
          Descendants,  \* descendants the task may fork ("escaped": left the session)
          MaxChunks,    \* bound: chunks the task prints
          MaxRestarts,  \* bound: restart requests
          MaxResizes,   \* bound: resize requests
          PipeCap,      \* chunks a client's output pipe holds
          LogMayFail    \* whether a write to the event log may fail

ASSUME TTYAssumption ==
    /\ Descendants \subseteq {"child", "escaped"}
    /\ MaxChunks \in Nat /\ MaxRestarts \in Nat /\ MaxResizes \in Nat /\ PipeCap \in Nat \ {0}
    /\ LogMayFail \in BOOLEAN
    /\ Clients \cap {"free", "reader"} = {}

VARIABLES
    pc, result,                \* RunTask and what it returns
    restartCh,                 \* tokens in restartCh
    restarts, resizes,         \* Restart and Resize requests made so far
    cancelled,                 \* ctx is done: the host got SIGTERM or SIGINT
    inc,                       \* incarnations of the task started so far
    proc, exitCode,            \* fields: 0 is nil, else the incarnation they are of
    eventErr,                  \* the error channel (made once) holds an error
    alive, holding,            \* the task: its leader lives, who holds the slave
    master, ptyBuf,            \* PTY: master open, number of unread chunks
    mu, vmu,                   \* owner of each lock
    rd, todo,                  \* reader goroutine, clients it has still to send to
    screen, shot,              \* chunks in the emulator, screen taken for the record
    clients, handler,          \* attachedClients; the request of each client
    snap, stream, unread,      \* per client: the screen of its snapshot, the chunks
                               \* sent to it, how many of them it has not read
    lost, log                  \* a write to the event log failed; the records of the
                               \* current incarnation

loopVars == <<pc, result, restartCh>>
reqVars == <<restarts, resizes, cancelled>>
fieldVars == <<proc, exitCode>>
taskVars == <<alive, holding>>
ptyVars == <<master, ptyBuf>>
rdVars == <<rd, todo>>
clientVars == <<clients, handler, snap, stream, unread>>
logVars == <<eventErr, lost, log>>
ttyVars == <<loopVars, reqVars, inc, fieldVars, taskVars, ptyVars,
             mu, vmu, rdVars, screen, shot, clientVars, logVars>>

Record(ev, val) == [ev |-> ev, val |-> val]
Done == rd = "done"           \* doneChan is closed
InLog(r) == \E i \in DOMAIN log : log[i] = r

(* NewTTYHost: the emulator has the configured size and nothing on it.      *)
TTYInit ==
    /\ pc = "start" /\ result = "none"
    /\ restartCh = 0 /\ restarts = 0 /\ resizes = 0 /\ cancelled = FALSE
    /\ inc = 0 /\ proc = 0 /\ exitCode = 0
    /\ eventErr = FALSE
    /\ alive = FALSE /\ holding = {}
    /\ master = FALSE /\ ptyBuf = 0
    /\ mu = "free" /\ vmu = "free"
    /\ rd = "none" /\ todo = {}
    /\ screen = 0 /\ shot = 0
    /\ clients = {} /\ handler = [c \in Clients |-> "new"]
    /\ snap = [c \in Clients |-> 0]
    /\ stream = [c \in Clients |-> <<>>] /\ unread = [c \in Clients |-> 0]
    /\ lost = FALSE /\ log = <<>>

-----------------------------------------------------------------------------
(* The event log and the emulator's callbacks.                             *)

(* A write of the reader: a failure goes into the error channel, which holds  *)
(* one and drops the next.                                                  *)
Emit(ev, val) ==
    \/ log' = Append(log, Record(ev, val)) /\ UNCHANGED <<eventErr, lost>>
    \/ LogMayFail /\ eventErr' = TRUE /\ lost' = TRUE /\ UNCHANGED log

(* OnPushLine and OnTermProp, under mu: a line that leaves the screen is      *)
(* recorded, unless the alternate screen is on; the title and the kind of    *)
(* screen are noted.  Only that the record of a line failed is kept here.    *)
OnPushLine ==
    \/ UNCHANGED logVars
    \/ LogMayFail /\ eventErr' = TRUE /\ lost' = TRUE /\ UNCHANGED log

-----------------------------------------------------------------------------
(* RunTask.                                                                *)

(* Mutant of OpenPTY: a new error channel for every incarnation.             *)
OpenPTY_NewChannel ==
    /\ pc = "start"
    /\ pc' = "opened"
    /\ inc' = inc + 1
    /\ master' = TRUE /\ ptyBuf' = 0 /\ holding' = {}
    /\ rd' = "none" /\ log' = <<>> /\ eventErr' = FALSE
    /\ UNCHANGED <<result, restartCh, reqVars, fieldVars, alive,
                   mu, vmu, todo, screen, shot, clientVars, lost>>

(* startTTYProcess opens a PTY.  A descendant that survived a restart holds   *)
(* the slave of the old one.                                                *)
OpenPTY ==
    /\ pc = "start"
    /\ pc' = "opened"
    /\ inc' = inc + 1
    /\ master' = TRUE /\ ptyBuf' = 0 /\ holding' = {}
    /\ rd' = "none" /\ log' = <<>>
    /\ UNCHANGED <<result, restartCh, reqVars, fieldVars, alive,
                   mu, vmu, todo, screen, shot, clientVars, eventErr, lost>>

(* The PTY or the process cannot be made: RunTask fails, the pair is closed.  *)
StartFail ==
    /\ pc \in {"start", "opened"}
    /\ pc' = "returned" /\ result' = "startErr"
    /\ master' = FALSE /\ ptyBuf' = 0
    /\ UNCHANGED <<restartCh, reqVars, inc, fieldVars, taskVars,
                   mu, vmu, rdVars, screen, shot, clientVars, logVars>>

(* The process is started and its slave closed on our side.  Until the fields  *)
(* are set, a Kill or Restart request does not see it.                       *)
Spawn ==
    /\ pc = "opened"
    /\ pc' = "spawned"
    /\ alive' = TRUE /\ holding' = {"leader"}
    /\ UNCHANGED <<result, restartCh, reqVars, inc, fieldVars, ptyVars, mu, vmu, rdVars,
                   screen, shot, clientVars, logVars>>

(* The fields are set under mu, and the reader is started.                  *)
Publish ==
    /\ pc = "spawned" /\ mu = "free"
    /\ pc' = "emitStarted"
    /\ proc' = inc
    /\ rd' = "read"
    /\ UNCHANGED <<result, restartCh, reqVars, inc, exitCode, taskVars, ptyVars, mu, vmu, todo,
                   screen, shot, clientVars, logVars>>

loopUnchanged == UNCHANGED <<reqVars, inc, fieldVars,
                             mu, vmu, rdVars, screen, shot, clientVars>>

EmitStarted ==
    /\ pc = "emitStarted"
    /\ \/ /\ log' = Append(log, Record("started", 0)) /\ UNCHANGED lost
          /\ pc' = "notify" /\ UNCHANGED result
       \/ /\ LogMayFail /\ lost' = TRUE /\ UNCHANGED log
          /\ pc' = "kill" /\ result' = "startedErr"
    /\ UNCHANGED <<restartCh, eventErr, taskVars, ptyVars>> /\ loopUnchanged

(* SdNotify: only the first call can fail, it unsets NOTIFY_SOCKET.          *)
Notify ==
    /\ pc = "notify"
    /\ \/ pc' = "select" /\ UNCHANGED result
       \/ inc = 1 /\ pc' = "kill" /\ result' = "notifyErr"
    /\ UNCHANGED <<restartCh, taskVars, ptyVars, logVars>> /\ loopUnchanged

SelectDone ==
    /\ pc = "select" /\ Done
    /\ pc' = "returned" /\ result' = IF eventErr THEN "eventErr" ELSE "nil"
    /\ eventErr' = FALSE
    /\ UNCHANGED <<restartCh, taskVars, ptyVars, lost, log>> /\ loopUnchanged

SelectEventErr ==
    /\ pc = "select" /\ eventErr
    /\ eventErr' = FALSE
    /\ pc' = "kill" /\ result' = "eventErr"
    /\ UNCHANGED <<restartCh, taskVars, ptyVars, lost, log>> /\ loopUnchanged

SelectRestart ==
    /\ pc = "select" /\ restartCh = 1
    /\ restartCh' = 0 /\ pc' = "kill"
    /\ UNCHANGED <<result, taskVars, ptyVars, logVars>> /\ loopUnchanged

(* Mutant of SelectCancel: the context is looked at after the task's end only.  *)
SelectCancel_AfterDone ==
    /\ pc = "select" /\ cancelled /\ Done
    /\ pc' = "term" /\ result' = "canceled"
    /\ UNCHANGED <<restartCh, taskVars, ptyVars, logVars>> /\ loopUnchanged

(* ctx.Done, which is ready from the signal on.                             *)
SelectCancel ==
    /\ pc = "select" /\ cancelled
    /\ pc' = "term" /\ result' = "canceled"
    /\ UNCHANGED <<restartCh, taskVars, ptyVars, logVars>> /\ loopUnchanged

(* terminateTask: SIGTERM to the session, looked up under mu (what the task  *)
(* does about it is up to the task: LeaderExit) ...                          *)
GracefulKill ==
    /\ pc = "term" /\ mu = "free"
    /\ pc' = "grace"
    /\ UNCHANGED <<result, restartCh, taskVars, ptyVars, logVars>> /\ loopUnchanged

(* ... and when the grace period is over, the forced end.                   *)
GraceTimeout ==
    /\ pc = "grace"
    /\ pc' = "kill"
    /\ UNCHANGED <<result, restartCh, taskVars, ptyVars, logVars>> /\ loopUnchanged

(* SIGKILL to every process of the session that proc names.                 *)
SigKill ==
    /\ alive' = FALSE /\ holding' = holding \cap {"escaped"}

(* h.Kill() of the loop; its error is ignored.                              *)
LoopKill ==
    /\ pc = "kill" /\ mu = "free"
    /\ pc' = "closePTY"
    /\ \/ proc # 0 /\ SigKill
       \/ proc = 0 /\ UNCHANGED taskVars
    /\ UNCHANGED <<result, restartCh, ptyVars, logVars>> /\ loopUnchanged

closePTYMaster ==
    /\ pc = "closePTY" /\ mu = "free"
    /\ pc' = "waitDone"
    /\ master' = FALSE
    /\ UNCHANGED <<result, restartCh, taskVars, ptyBuf, logVars>> /\ loopUnchanged

(* Mutant of LoopDone: the loop does not wait for the reader.               *)
LoopDone_NoWait ==
    /\ pc = "waitDone"
    /\ pc' = IF result = "none" THEN "start" ELSE "returned"
    /\ UNCHANGED <<result, restartCh, taskVars, ptyVars, logVars>> /\ loopUnchanged

(* <-doneChan: loop again after a restart, else return.                     *)
LoopDone ==
    /\ pc = "waitDone" \/ pc = "grace"
    /\ Done
    /\ pc' = IF result = "none" THEN "start" ELSE "returned"
    /\ UNCHANGED <<result, restartCh, taskVars, ptyVars, logVars>> /\ loopUnchanged

RunTask ==
    \/ OpenPTY \/ StartFail \/ Spawn \/ Publish \/ EmitStarted \/ Notify
    \/ SelectDone \/ SelectEventErr \/ SelectRestart \/ SelectCancel
    \/ GracefulKill \/ GraceTimeout \/ LoopKill \/ closePTYMaster \/ LoopDone

-----------------------------------------------------------------------------
(* The reader goroutine of startTTYProcess.                                *)
rdUnchanged == UNCHANGED <<loopVars, reqVars, inc, taskVars>>

Read ==
    /\ rd = "read" /\ master /\ ptyBuf > 0
    /\ ptyBuf' = ptyBuf - 1
    /\ rd' = "write"
    /\ UNCHANGED <<fieldVars, master, mu, vmu, todo, screen, shot,
                   clientVars, logVars>> /\ rdUnchanged

(* Mutant of ReadEnd: what is still in the PTY is not read.                 *)
ReadEnd_Undrained ==
    /\ rd = "read"
    /\ ~master \/ holding = {}
    /\ rd' = "wait"
    /\ UNCHANGED <<fieldVars, ptyVars, mu, vmu, todo, screen, shot,
                   clientVars, logVars>> /\ rdUnchanged

(* Read fails: nobody holds the slave and nothing is left, or the master was  *)
(* closed.  A PTY is not hung up when the leader exits, so a descendant that  *)
(* holds the slave keeps the reader reading.                                *)
ReadEnd ==
    /\ rd = "read"
    /\ ~master \/ (ptyBuf = 0 /\ holding = {})
    /\ rd' = "wait"
    /\ UNCHANGED <<fieldVars, ptyVars, mu, vmu, todo, screen, shot,
                   clientVars, logVars>> /\ rdUnchanged

(* vt.Write takes the emulator's lock.  Text needs nothing more; a line that  *)
(* scrolls off or a property is handed to a callback with the lock held.     *)
VtWrite ==
    /\ rd = "write" /\ vmu = "free"
    /\ \/ rd' = "cast" /\ screen' = screen + 1 /\ UNCHANGED vmu
       \/ rd' = "callback" /\ vmu' = "reader" /\ UNCHANGED screen
    /\ UNCHANGED <<fieldVars, ptyVars, mu, todo, shot, clientVars, logVars>>
    /\ rdUnchanged

(* The callback, then vt.Write returns.                                     *)
VtCallback ==
    /\ rd = "callback" /\ mu = "free"
    /\ OnPushLine
    /\ vmu' = "free" /\ rd' = "cast" /\ screen' = screen + 1
    /\ UNCHANGED <<fieldVars, ptyVars, mu, todo, shot, clientVars>> /\ rdUnchanged

(* The broadcast takes mu and keeps it until every client has its chunk.     *)
CastBegin ==
    /\ rd = "cast" /\ mu = "free"
    /\ \/ clients = {} /\ rd' = "read" /\ UNCHANGED <<mu, todo>>
       \/ clients # {} /\ rd' = "send" /\ mu' = "reader" /\ todo' = clients
    /\ UNCHANGED <<fieldVars, ptyVars, vmu, screen, shot, clientVars,
                   logVars>> /\ rdUnchanged

(* Mutant of CastSend: the write does not wait for room in the pipe.         *)
CastSend_NeverBlocks(c) ==
    /\ rd = "send" /\ c \in todo
    /\ stream' = [stream EXCEPT ![c] = Append(@, screen)]
    /\ unread' = [unread EXCEPT ![c] = @ + 1]
    /\ todo' = todo \ {c}
    /\ \/ todo' = {} /\ mu' = "free" /\ rd' = "read"
       \/ todo' # {} /\ UNCHANGED <<mu, rd>>
    /\ UNCHANGED <<fieldVars, ptyVars, vmu, screen, shot, clients, handler, snap, logVars>>
    /\ rdUnchanged

(* One Write to a client's pipe: it blocks while the pipe is full; the error  *)
(* of a closed pipe is ignored.                                             *)
CastSend(c) ==
    /\ rd = "send" /\ c \in todo
    /\ \/ handler[c] # "closed" /\ unread[c] < PipeCap
          /\ stream' = [stream EXCEPT ![c] = Append(@, screen)]
          /\ unread' = [unread EXCEPT ![c] = @ + 1]
       \/ handler[c] = "closed" /\ UNCHANGED <<stream, unread>>
    /\ todo' = todo \ {c}
    /\ \/ todo' = {} /\ mu' = "free" /\ rd' = "read"
       \/ todo' # {} /\ UNCHANGED <<mu, rd>>
    /\ UNCHANGED <<fieldVars, ptyVars, vmu, screen, shot, clients, handler,
                   snap, logVars>> /\ rdUnchanged

(* proc.Wait, then exitCode is set: the task still counts as running.       *)
WaitExit ==
    /\ rd = "wait" /\ ~alive /\ mu = "free"
    /\ exitCode' = inc /\ rd' = "shoot"
    /\ UNCHANGED <<proc, ptyVars, mu, vmu, todo, screen,
                   shot, clientVars, logVars>> /\ rdUnchanged

(* GetScreenANSI, then EmitScreen with the size of the fields.              *)
ShootScreen ==
    /\ rd = "shoot" /\ vmu = "free"
    /\ shot' = screen /\ rd' = "emitScreen"
    /\ UNCHANGED <<fieldVars, ptyVars, mu, vmu, todo, screen, clientVars,
                   logVars>> /\ rdUnchanged

EmitScreen ==
    /\ rd = "emitScreen" /\ mu = "free"
    /\ Emit("screen", shot) /\ rd' = "emitExited" /\ shot' = 0
    /\ UNCHANGED <<fieldVars, ptyVars, mu, vmu, todo, screen,
                   clientVars>> /\ rdUnchanged

EmitExited ==
    /\ rd = "emitExited"
    /\ Emit("exited", inc) /\ rd' = "publish"
    /\ UNCHANGED <<fieldVars, ptyVars, mu, vmu, todo, screen, shot,
                   clientVars>> /\ rdUnchanged

(* The fields are cleared under mu and doneChan is closed.                  *)
PublishExit ==
    /\ rd = "publish" /\ mu = "free"
    /\ proc' = 0 /\ master' = FALSE /\ rd' = "done"
    /\ UNCHANGED <<exitCode, ptyBuf, mu, vmu, todo, screen, shot,
                   clientVars, logVars>> /\ rdUnchanged

Reader ==
    \/ Read \/ ReadEnd \/ VtWrite \/ VtCallback \/ CastBegin
    \/ \E c \in Clients : CastSend(c)
    \/ WaitExit \/ ShootScreen \/ EmitScreen \/ EmitExited \/ PublishExit

-----------------------------------------------------------------------------
(* Requests of the clients.                                                *)
hUnchanged == UNCHANGED <<loopVars, restarts, cancelled, inc, fieldVars,
                          taskVars, ptyVars, rdVars, screen, shot>>
Step(c, s) == handler' = [handler EXCEPT ![c] = s]

(* attachFilesLocked: the first client resizes the terminal, a later one is    *)
(* refused if it is too small (AttachClient has the sizes).                 *)
AttachBegin(c) ==
    /\ handler[c] = "new" /\ mu = "free"
    /\ \/ clients = {} /\ Step(c, "setSize") /\ mu' = c
       \/ clients # {} /\ Step(c, "pipes") /\ mu' = c
       \/ clients # {} /\ Step(c, "gone") /\ UNCHANGED mu
    /\ UNCHANGED <<resizes, vmu, clients, snap, stream, unread, logVars>> /\ hUnchanged

(* vt.SetSize: a screen that shrinks under its content pushes lines to the   *)
(* scrollback before the call returns (libvterm, screen.c resize_buffer).    *)
VtSetSize(c, next, push) ==
    /\ vmu = "free"
    /\ \/ Step(c, next) /\ UNCHANGED vmu
       \/ screen > 0 /\ Step(c, push) /\ vmu' = c

AttachSetSize(c) ==
    /\ handler[c] = "setSize"
    /\ VtSetSize(c, "pipes", "pushHeld")
    /\ UNCHANGED <<resizes, mu, clients, snap, stream, unread, logVars>> /\ hUnchanged

(* A pipe cannot be made: the request fails, the new size stays.            *)
AttachPipeFail(c) ==
    /\ handler[c] = "pipes"
    /\ Step(c, "gone") /\ mu' = "free"
    /\ UNCHANGED <<resizes, vmu, clients, snap, stream, unread,
                   logVars>> /\ hUnchanged

(* Mutant of AttachSnapshot: mu is given up before the client is registered.  *)
AttachSnapshot_Unlocks(c) ==
    /\ handler[c] = "pipes" /\ vmu = "free"
    /\ snap' = [snap EXCEPT ![c] = screen]
    /\ Step(c, "cursor") /\ mu' = "free"
    /\ UNCHANGED <<resizes, vmu, clients, stream, unread,
                   logVars>> /\ hUnchanged

(* The screen as the client will first see it (GetScreenANSI).               *)
AttachSnapshot(c) ==
    /\ handler[c] = "pipes" /\ vmu = "free"
    /\ snap' = [snap EXCEPT ![c] = screen]
    /\ Step(c, "cursor")
    /\ UNCHANGED <<resizes, mu, vmu, clients, stream, unread,
                   logVars>> /\ hUnchanged

(* GetCursor is another call to the emulator; then the client is registered.  *)
AttachRegister(c) ==
    /\ handler[c] = "cursor" /\ vmu = "free"
    /\ clients' = clients \cup {c}
    /\ Step(c, "attached") /\ mu' = "free"
    /\ UNCHANGED <<resizes, vmu, snap, stream, unread, logVars>> /\ hUnchanged

(* Resize sets the fields under mu, then the size of the emulator ...        *)
ResizeFields(c) ==
    /\ handler[c] = "attached" /\ mu = "free" /\ resizes < MaxResizes
    /\ resizes' = resizes + 1 /\ Step(c, "resizeVt")
    /\ UNCHANGED <<mu, vmu, clients, snap, stream, unread, logVars>> /\ hUnchanged

ResizeVt(c) ==
    /\ handler[c] = "resizeVt"
    /\ VtSetSize(c, "attached", "pushFree")
    /\ UNCHANGED <<resizes, mu, clients, snap, stream, unread, logVars>> /\ hUnchanged

(* ... whose callback needs mu.  The callback of an Attach ("pushHeld") needs  *)
(* it too, and its own goroutine holds it: it never returns.                 *)
ResizePushLine(c) ==
    /\ handler[c] = "pushFree" /\ mu = "free"
    /\ OnPushLine
    /\ vmu' = "free" /\ Step(c, "attached")
    /\ UNCHANGED <<resizes, mu, clients, snap, stream, unread>> /\ hUnchanged

(* The client reads its pipe; closes its connection; and the goroutine that  *)
(* forwards its input sees the end and removes it.                          *)
ClientRead(c) ==
    /\ handler[c] \notin {"closed", "gone"} /\ unread[c] > 0
    /\ unread' = [unread EXCEPT ![c] = @ - 1]
    /\ UNCHANGED <<resizes, mu, vmu, clients, handler, snap, stream,
                   logVars>> /\ hUnchanged

ClientClose(c) ==
    /\ handler[c] = "attached"
    /\ Step(c, "closed")
    /\ UNCHANGED <<resizes, mu, vmu, clients, snap, stream, unread,
                   logVars>> /\ hUnchanged

(* The pipes of a client that is gone.                                      *)
Forget(c) ==
    /\ snap' = [snap EXCEPT ![c] = 0] /\ stream' = [stream EXCEPT ![c] = <<>>]
    /\ unread' = [unread EXCEPT ![c] = 0]

(* Mutant of InputEOF: the entry stays in the map.                          *)
InputEOF_KeepsClient(c) ==
    /\ handler[c] = "closed" /\ mu = "free"
    /\ Step(c, "gone")
    /\ UNCHANGED <<resizes, mu, vmu, clients, snap, stream, unread,
                   logVars>> /\ hUnchanged

InputEOF(c) ==
    /\ handler[c] = "closed" /\ mu = "free"
    /\ clients' = clients \ {c} /\ Step(c, "gone") /\ Forget(c)
    /\ UNCHANGED <<resizes, mu, vmu, logVars>> /\ hUnchanged

(* Detach by id: both pipes are closed and the entry is deleted.            *)
Detach(c) ==
    /\ handler[c] = "attached" /\ mu = "free"
    /\ clients' = clients \ {c} /\ Step(c, "gone") /\ Forget(c)
    /\ UNCHANGED <<resizes, mu, vmu, logVars>> /\ hUnchanged

(* The steps of a request that has begun.                                   *)
HandlerStep(c) ==
    \/ AttachSetSize(c) \/ AttachPipeFail(c) \/ AttachSnapshot(c)
    \/ AttachRegister(c) \/ ResizeVt(c) \/ ResizePushLine(c) \/ InputEOF(c)

-----------------------------------------------------------------------------
(* Kill and Restart requests, the task, the signal.                        *)
envUnchanged == UNCHANGED <<pc, result, inc, fieldVars, mu, vmu, rdVars, screen,
                            shot, clientVars, logVars>>

(* Kill looks proc up and signals after the unlock.  A late signal finds the  *)
(* session it looked up dead or still the current one, so one step will do.  *)
KillRequest ==
    /\ proc # 0 /\ mu = "free" /\ alive
    /\ SigKill
    /\ UNCHANGED <<restartCh, reqVars, ptyVars>> /\ envUnchanged

(* Restart checks running under mu and sends without it; a token that comes   *)
(* late is in the channel as one sent at once and not yet taken.  A second    *)
(* token is refused.                                                        *)
RestartRequest ==
    /\ mu = "free" /\ proc # 0 /\ restartCh = 0 /\ restarts < MaxRestarts
    /\ restartCh' = 1 /\ restarts' = restarts + 1
    /\ UNCHANGED <<resizes, cancelled, taskVars, ptyVars>> /\ envUnchanged

(* Chunks printed so far that were not dropped with a closed PTY.           *)
Made == screen + ptyBuf + IF rd \in {"write", "callback"} THEN 1 ELSE 0

TaskPrint ==
    /\ holding # {} /\ master /\ Made < MaxChunks
    /\ ptyBuf' = ptyBuf + 1
    /\ UNCHANGED <<restartCh, reqVars, taskVars, master>> /\ envUnchanged

Fork(p) ==
    /\ alive /\ "leader" \in holding /\ p \in Descendants \ holding
    /\ holding' = holding \cup {p}
    /\ UNCHANGED <<restartCh, reqVars, alive, ptyVars>>
    /\ envUnchanged

(* A process closes the slave: a descendant ends, the leader may live on.    *)
CloseSlave(p) ==
    /\ p \in holding
    /\ holding' = holding \ {p}
    /\ UNCHANGED <<restartCh, reqVars, alive, ptyVars>>
    /\ envUnchanged

LeaderExit ==
    /\ alive
    /\ alive' = FALSE /\ holding' = holding \ {"leader"}
    /\ UNCHANGED <<restartCh, reqVars, ptyVars>> /\ envUnchanged

(* SIGTERM or SIGINT to the host cancels the context, wherever the loop is.   *)
Cancel ==
    /\ ~cancelled /\ cancelled' = TRUE
    /\ UNCHANGED <<restartCh, restarts, resizes, taskVars, ptyVars>> /\ envUnchanged

(* What the host does by itself, and what its surroundings do to it, until    *)
(* RunTask has returned and the process ends.                               *)
HostStep ==
    /\ pc # "returned"
    /\ \/ Reader \/ KillRequest \/ RestartRequest
       \/ TaskPrint \/ LeaderExit \/ Cancel
       \/ \E p \in Descendants : Fork(p)
       \/ \E p \in Descendants \cup {"leader"} : CloseSlave(p)

ClientRequest(c) ==
    \/ AttachBegin(c) \/ ResizeFields(c) \/ ClientRead(c) \/ ClientClose(c) \/ Detach(c)

TTYNext ==
    \/ RunTask
    \/ HostStep
    \/ \E c \in Clients : pc # "returned" /\ (HandlerStep(c) \/ ClientRequest(c))

(* Goroutines run; nothing is assumed of the task or of the clients.  An      *)
(* Attach may fail to make its pipes, but does not have to.                  *)
TTYFairness ==
    /\ WF_ttyVars(RunTask) /\ WF_ttyVars(pc # "returned" /\ Reader)
    /\ \A c \in Clients : WF_ttyVars(pc # "returned" /\ HandlerStep(c))

TTYSpec == TTYInit /\ [][TTYNext]_ttyVars
TTYFairSpec == TTYSpec /\ TTYFairness

-----------------------------------------------------------------------------
(* Properties.                                                             *)

(* Types, and the limits of the code: the reader sends only to clients in the  *)
(* map, no client's pipe holds more than it can, snapshots and streams are of   *)
(* chunks the emulator has.                                                 *)
TTYTypeOK ==
    /\ pc \in {"start", "opened", "spawned", "emitStarted", "notify", "select", "term", "grace",
               "kill", "closePTY", "waitDone", "returned"}
    /\ result \in {"none", "nil", "startErr", "startedErr", "notifyErr", "eventErr",
                   "canceled"}
    /\ {cancelled, eventErr, alive, master, lost} \subseteq BOOLEAN
    /\ restartCh \in {0, 1} /\ restarts \in 0..MaxRestarts /\ resizes \in 0..MaxResizes
    /\ {inc, proc, ptyBuf, screen, shot} \subseteq Nat
    /\ proc \in {0, inc} /\ exitCode \in 0..inc
    /\ holding \subseteq Descendants \cup {"leader"}
    /\ mu \in Clients \cup {"free", "reader"} /\ vmu \in Clients \cup {"free", "reader"}
    /\ rd \in {"none", "read", "write", "callback", "cast", "send", "wait", "shoot",
               "emitScreen", "emitExited", "publish", "done"}
    /\ clients \subseteq Clients /\ todo \subseteq clients
    /\ handler \in [Clients -> {"new", "setSize", "pushHeld", "pipes", "cursor",
                               "attached", "resizeVt", "pushFree",
                               "closed", "gone"}]
    /\ snap \in [Clients -> 0..screen]
    /\ stream \in [Clients -> Seq(1..screen)] /\ unread \in [Clients -> 0..PipeCap]
    /\ log \in Seq([ev : {"started", "screen", "exited"}, val : Nat])

(* The last chunk that client c should have been sent.                      *)
Cast(c) == IF rd = "cast" \/ (rd = "send" /\ c \in todo) THEN screen - 1 ELSE screen

(* tty.go Attach, "no bytes are lost between them": what an attached client   *)
(* is sent follows on its snapshot in order and without a gap, however the   *)
(* snapshot falls between the reader's write to the emulator and its         *)
(* broadcast.  At most the last chunk of the snapshot is sent again.        *)
StreamContinuesSnapshot ==
    \A c \in clients : handler[c] # "closed" =>
        \E k \in {snap[c], snap[c] + 1} :
            stream[c] = [i \in 1..(Cast(c) + 1 - k) |-> k + i - 1]

(* RunTask returns, on every path, only when the leader is dead, the fields   *)
(* say so and no reader of this host is left.                               *)
TTYNoOrphan ==
    pc = "returned" => ~alive /\ proc = 0 /\ rd \in {"none", "done"}

(* The record of the final screen comes before the exited record and shows    *)
(* everything the task printed, what its descendants printed after its exit   *)
(* and what was still in the PTY then included, unless the host itself closed *)
(* the PTY.                                                                *)
FinalScreenIsComplete ==
    rd = "publish" /\ master /\ ~lost =>
        \E i, j \in DOMAIN log :
            i < j /\ log[i] = Record("screen", Made) /\ log[j] = Record("exited", inc)

(* RunTask returns nil only if no write to the event log failed in any        *)
(* incarnation: the error channel outlives a restart, unlike the pipe        *)
(* host's, so an error of a killed task ends the session later.             *)
TTYSuccessMeansRecorded ==
    result = "nil" => /\ ~lost /\ InLog(Record("started", 0))
                      /\ exitCode = inc /\ InLog(Record("exited", inc))

(* Attach holds mu and cannot get, or give back, the emulator's lock.        *)
Deadlocked == mu \in Clients /\ vmu # "free"

(* The reader is in the broadcast, and a client it must write to does not     *)
(* read its full pipe.                                                      *)
Stalled == rd = "send" /\ \E c \in todo : handler[c] # "closed" /\ unread[c] = PipeCap

(* A signal to the host, whenever it comes -- during a start, a restart's     *)
(* wait, a broadcast -- ends RunTask, whatever the task ignores and whoever    *)
(* holds the PTY, unless Attach has locked the host up for good or a client    *)
(* that does not read keeps the reader in its broadcast.  (The context stays  *)
(* cancelled and RunTask returned: []<>(P => Q) says P ~> Q.)               *)
TTYStopTerminates ==
    ([]<>~Stalled /\ []<>~Deadlocked) => []<>(cancelled => pc = "returned")

(* A client that closes its connection leaves the host's map, so that "when   *)
(* all clients disconnect, next attach can resize again" (Attach's comment),  *)
(* unless the host is locked up, stalled by another client or ends first.    *)
ClosedClientIsRemoved ==
    ([]<>~Stalled /\ []<>~Deadlocked) =>
        \A c \in Clients :
            []<>(handler[c] \in {"closed", "gone"} => c \notin clients \/ pc = "returned")

(* README.md, "swash stop: request a graceful stop": of a session whose        *)
(* clients keep reading, a signal to the host always ends it.  Attach breaks   *)
(* it: it waits for the emulator's lock, or for a callback that wants mu,    *)
(* while it holds mu.                                                       *)
StopIsServed == []<>~Stalled => []<>(cancelled => pc = "returned")
=============================================================================
