---------------------------- MODULE AttachClient ----------------------------
(***************************************************************************)
(* Attach clients (internal/attach/attach.go) of one TTY host, and the size  *)
(* of the terminal they share.  The size is kept in five places: the host's  *)
(* fields (rows), the host's emulator (vtRows), the PTY (ptyRows), and each   *)
(* client's window (window) and emulator (emu).  Sizes are content sizes,     *)
(* the window without its border; columns behave as rows do.                *)
(*                                                                         *)
(* Of the host (TTYHost) only the life of its task is kept: hostPc, the       *)
(* incarnation, what Gist answers, the PTY in the fields.  Attach holds h.mu  *)
(* from its first step to its last; the steps of a Resize do not.           *)
(* A client makes no other request while one of its requests is served, and   *)
(* it is not killed in the middle of a resize.                              *)
(***************************************************************************)
EXTENDS Integers, Sequences, FiniteSets

CONSTANTS Clients,      \* attach commands run in the life of the host
          Sizes,        \* content sizes a window may have
          InitSize,     \* the size the session was started with
          MaxRestarts,  \* bound: restarts of the task
          MaxWinch,     \* bound: window changes (SIGWINCH)
          ChanCap       \* capacity of vtermCh (64 in the code)

ASSUME AttachAssumption ==
    /\ Sizes \subseteq Nat \ {0} /\ InitSize \in Sizes
    /\ MaxRestarts \in Nat /\ MaxWinch \in Nat /\ ChanCap \in Nat \ {0}

VARIABLES
    hostPc, inc, running, exitCode,  \* exitCode: 0 (nil) or the incarnation it is of
    pty,                   \* h.ptyPair: 0 (nil) or an incarnation
    rows, vtRows, ptyRows,
    clients,               \* attachedClients
    handler, size, cpty,   \* each client's request in the host: step, size, pair taken
    cli,                   \* where each client's event loop is
    window, emu,           \* its window and its emulator; 0: not attached
    vtermCh,               \* messages to the owner of the emulator
    exitedCh,              \* what WaitExited delivered: 0 nothing, -1 lost, else a code
    joined,                \* incarnation that ran when the client attached, or 0
    winches,               \* window changes so far
    raced,                 \* the size changed between openPTY and the publication
    stale                  \* clients whose emulator was left behind by a resize

hostVars == <<hostPc, inc, running, exitCode, pty>>
sizeVars == <<rows, vtRows, ptyRows>>
reqVars == <<clients, handler, size, cpty>>
cliVars == <<cli, window, emu, vtermCh, exitedCh, joined, winches>>
attachVars == <<hostVars, sizeVars, reqVars, cliVars, raced, stale>>

Set(f, c, v) == [f EXCEPT ![c] = v]

AttachInit ==
    /\ hostPc = "start" /\ inc = 0 /\ running = FALSE /\ exitCode = 0 /\ pty = 0
    /\ rows = InitSize /\ vtRows = InitSize /\ ptyRows = 0
    /\ clients = {} /\ handler = [c \in Clients |-> "none"]
    /\ size = [c \in Clients |-> 0] /\ cpty = [c \in Clients |-> 0]
    /\ cli = [c \in Clients |-> "new"]
    /\ window = [c \in Clients |-> 0] /\ emu = [c \in Clients |-> 0]
    /\ vtermCh = [c \in Clients |-> <<>>] /\ exitedCh = [c \in Clients |-> 0]
    /\ joined = [c \in Clients |-> 0]
    /\ winches = 0 /\ raced = FALSE /\ stale = {}

Serving == hostPc # "returned"
MuFree == \A c \in Clients : handler[c] \notin {"setSize", "register"}

-----------------------------------------------------------------------------
(* The host's task.                                                        *)
hostUnchanged == UNCHANGED <<rows, vtRows, reqVars, cliVars, stale>>

(* startTTYProcess gives the new PTY the size it reads without the lock ...   *)
OpenPTY ==
    /\ hostPc = "start" /\ hostPc' = "opened"
    /\ inc' = inc + 1 /\ ptyRows' = rows /\ raced' = FALSE
    /\ UNCHANGED <<running, exitCode, pty>> /\ hostUnchanged

(* ... and publishes the pair under it when the process runs.               *)
PublishPTY ==
    /\ hostPc = "opened" /\ MuFree /\ hostPc' = "running"
    /\ running' = TRUE /\ pty' = inc
    /\ UNCHANGED <<inc, exitCode, ptyRows, raced>> /\ hostUnchanged

(* A restart or a stop closes the PTY; the fields drop it.                   *)
ClosePTY ==
    /\ hostPc = "running" /\ MuFree /\ hostPc' = "closing"
    /\ pty' = 0
    /\ UNCHANGED <<inc, running, exitCode, ptyRows, raced>> /\ hostUnchanged

(* The reader has the exit code ...                                         *)
SetExitCode ==
    /\ hostPc \in {"running", "closing"} /\ MuFree /\ hostPc' = "coded"
    /\ exitCode' = inc
    /\ UNCHANGED <<inc, running, pty, ptyRows, raced>> /\ hostUnchanged

(* ... and only when the records are written is the task no longer running.  *)
PublishExit ==
    /\ hostPc = "coded" /\ MuFree /\ hostPc' = "ended"
    /\ running' = FALSE /\ pty' = 0
    /\ UNCHANGED <<inc, exitCode, ptyRows, raced>> /\ hostUnchanged

NextTask ==
    /\ hostPc = "ended"
    /\ \/ inc <= MaxRestarts /\ hostPc' = "start"
       \/ hostPc' = "returned"
    /\ UNCHANGED <<inc, running, exitCode, pty, ptyRows, raced>> /\ hostUnchanged

HostTask == OpenPTY \/ PublishPTY \/ ClosePTY \/ SetExitCode \/ PublishExit \/ NextTask

-----------------------------------------------------------------------------
(* Attach: New, the request, attachFilesLocked, the reply.                  *)

(* The client takes its window's size and asks; the first client's size       *)
(* becomes the terminal's, a later client must be as large as the terminal.   *)
Attach(c, s) ==
    /\ cli[c] = "new" /\ Serving /\ MuFree
    /\ window' = Set(window, c, s)
    /\ \/ /\ clients = {} /\ rows' = s
          /\ handler' = Set(handler, c, "setSize") /\ size' = Set(size, c, s)
          /\ cli' = Set(cli, c, "attaching")
       \/ /\ clients # {} /\ s >= rows
          /\ handler' = Set(handler, c, "register") /\ size' = Set(size, c, s)
          /\ cli' = Set(cli, c, "attaching") /\ UNCHANGED rows
       \/ /\ clients # {} /\ s < rows
          /\ cli' = Set(cli, c, "gone") /\ UNCHANGED <<rows, handler, size>>
    /\ raced' = (raced \/ (hostPc = "opened" /\ rows' # rows))
    /\ UNCHANGED <<hostVars, vtRows, ptyRows, clients, cpty, emu, vtermCh, exitedCh,
                   joined, winches, stale>>

(* vt.SetSize of the first client's Attach.                                 *)
AttachSetSize(c) ==
    /\ handler[c] = "setSize"
    /\ vtRows' = size[c]
    /\ ptyRows' = IF pty # 0 THEN size[c] ELSE ptyRows
    /\ handler' = Set(handler, c, "register")
    /\ UNCHANGED <<hostVars, rows, clients, size, cpty, cliVars, raced, stale>>

(* Mutant of AttachRegister: the emulator gets the client's own size.          *)
AttachRegister_OwnSize(c) ==
    /\ handler[c] = "register"
    /\ clients' = clients \cup {c}
    /\ handler' = Set(handler, c, "none") /\ size' = Set(size, c, 0)
    /\ cli' = Set(cli, c, "idle") /\ emu' = Set(emu, c, size[c])
    /\ joined' = Set(joined, c, IF running THEN inc ELSE 0)
    /\ UNCHANGED <<hostVars, sizeVars, cpty, window, vtermCh, exitedCh, winches,
                   raced, stale>>

(* The client is registered; the reply carries the size, with which the       *)
(* client makes its emulator, and Run starts its goroutines.                *)
AttachRegister(c) ==
    /\ handler[c] = "register"
    /\ clients' = clients \cup {c}
    /\ handler' = Set(handler, c, "none") /\ size' = Set(size, c, 0)
    /\ cli' = Set(cli, c, "idle") /\ emu' = Set(emu, c, rows)
    /\ joined' = Set(joined, c, IF running THEN inc ELSE 0)
    /\ UNCHANGED <<hostVars, sizeVars, cpty, window, vtermCh, exitedCh, winches,
                   raced, stale>>

-----------------------------------------------------------------------------
(* handleResize.                                                           *)

(* Mutant of AskClients: the answer is not looked at.                       *)
AskClients_Always(c, s) ==
    /\ cli[c] = "idle" /\ winches < MaxWinch
    /\ winches' = winches + 1 /\ window' = Set(window, c, s)
    /\ MuFree /\ Serving /\ cli' = Set(cli, c, "alone")
    /\ UNCHANGED <<hostVars, sizeVars, reqVars, emu, vtermCh, exitedCh, joined,
                   raced, stale>>

(* SIGWINCH: the client asks how many clients there are.                     *)
AskClients(c, s) ==
    /\ cli[c] = "idle" /\ winches < MaxWinch
    /\ winches' = winches + 1 /\ window' = Set(window, c, s)
    /\ \/ MuFree /\ Serving /\ clients = {c} /\ cli' = Set(cli, c, "alone")
       \/ MuFree /\ Serving /\ clients # {c} /\ cli' = Set(cli, c, "render")
       \/ ~Serving /\ cli' = Set(cli, c, "render")
    /\ UNCHANGED <<hostVars, sizeVars, reqVars, emu, vtermCh, exitedCh, joined,
                   raced, stale>>

(* It was alone: Resize.  The host sets its fields and takes ptyPair ...      *)
ResizeFields(c) ==
    /\ cli[c] = "alone" /\ Serving /\ MuFree
    /\ rows' = window[c] /\ size' = Set(size, c, window[c])
    /\ cpty' = Set(cpty, c, pty)
    /\ handler' = Set(handler, c, "resizeVt") /\ cli' = Set(cli, c, "resizing")
    /\ raced' = (raced \/ (hostPc = "opened" /\ rows' # rows))
    /\ stale' = stale \cup {d \in clients \cup {x \in Clients : cli[x] = "attaching"} :
                              d # c}
    /\ UNCHANGED <<hostVars, vtRows, ptyRows, clients, window, emu, vtermCh, exitedCh,
                   joined, winches>>

(* ... the emulator is resized ...                                          *)
ResizeVt(c) ==
    /\ handler[c] = "resizeVt"
    /\ vtRows' = size[c] /\ handler' = Set(handler, c, "resizePTY")
    /\ UNCHANGED <<hostVars, rows, ptyRows, clients, size, cpty, cliVars, raced, stale>>

(* Mutant of ResizePTY: the PTY is not told.                                *)
ResizePTY_Skipped(c) ==
    /\ handler[c] = "resizePTY"
    /\ cli' = Set(cli, c, "resized")
    /\ handler' = Set(handler, c, "none") /\ size' = Set(size, c, 0)
    /\ cpty' = Set(cpty, c, 0)
    /\ UNCHANGED <<hostVars, sizeVars, clients, window, emu, vtermCh, exitedCh, joined, winches, raced, stale>>

(* ... and the PTY that was taken, if it is still open.  A client whose        *)
(* Resize failed leaves its emulator as it is.                              *)
ResizePTY(c) ==
    /\ handler[c] = "resizePTY"
    /\ \/ cpty[c] = 0 /\ cli' = Set(cli, c, "resized") /\ UNCHANGED <<ptyRows, stale>>
       \/ /\ cpty[c] # 0 /\ cpty[c] = pty
          /\ ptyRows' = size[c] /\ cli' = Set(cli, c, "resized") /\ UNCHANGED stale
       \/ /\ cpty[c] # 0 /\ cpty[c] # pty
          /\ cli' = Set(cli, c, "idle") /\ stale' = stale \cup {c} /\ UNCHANGED ptyRows
    /\ handler' = Set(handler, c, "none") /\ size' = Set(size, c, 0)
    /\ cpty' = Set(cpty, c, 0)
    /\ UNCHANGED <<hostVars, rows, vtRows, clients, window, emu, vtermCh, exitedCh, joined, winches, raced>>

(* The host is gone: a request of the client fails.                         *)
RequestFails(c) ==
    /\ ~Serving /\ cli[c] \in {"attaching", "alone", "resizing"}
    /\ cli' = Set(cli, c, IF cli[c] = "attaching" THEN "gone" ELSE "idle")
    /\ handler' = Set(handler, c, "none") /\ stale' = stale \cup {c}
    /\ UNCHANGED <<hostVars, sizeVars, clients, size, cpty, window, emu, vtermCh, exitedCh,
                   joined, winches, raced>>

(* Mutant of TellOwner: the send does not wait for room.                      *)
TellOwner_NeverBlocks(c) ==
    /\ \/ /\ cli[c] = "resized"
          /\ vtermCh' = Set(vtermCh, c, Append(vtermCh[c], window[c]))
       \/ /\ cli[c] = "render"
          /\ vtermCh' = Set(vtermCh, c, Append(vtermCh[c], 0))
    /\ cli' = Set(cli, c, "idle")
    /\ UNCHANGED <<hostVars, sizeVars, reqVars, window, emu, exitedCh, joined, winches,
                   raced, stale>>

(* The owner of the emulator is told: vtermResize or vtermRender.            *)
TellOwner(c) ==
    /\ Len(vtermCh[c]) < ChanCap
    /\ \/ /\ cli[c] = "resized"
          /\ vtermCh' = Set(vtermCh, c, Append(vtermCh[c], window[c]))
       \/ /\ cli[c] = "render"
          /\ vtermCh' = Set(vtermCh, c, Append(vtermCh[c], 0))
    /\ cli' = Set(cli, c, "idle")
    /\ UNCHANGED <<hostVars, sizeVars, reqVars, window, emu, exitedCh, joined,
                   winches, raced, stale>>

-----------------------------------------------------------------------------
(* The other goroutines of the client.                                     *)
Attached(c) == cli[c] \in {"idle", "alone", "render", "resizing", "resized"}

(* readOutput: a chunk from the host becomes a vtermWrite (0, as a render).   *)
ReadOutput(c) ==
    /\ Attached(c) /\ c \in clients /\ Serving /\ Len(vtermCh[c]) < ChanCap
    /\ vtermCh' = Set(vtermCh, c, Append(vtermCh[c], 0))
    /\ UNCHANGED <<hostVars, sizeVars, reqVars, cli, window, emu, exitedCh, joined,
                   winches, raced, stale>>

(* runVtermOwner: one message after the other, writes in batches.            *)
VtermOwner(c) ==
    /\ Attached(c) /\ vtermCh[c] # <<>>
    /\ vtermCh' = Set(vtermCh, c, Tail(vtermCh[c]))
    /\ emu' = Set(emu, c, IF Head(vtermCh[c]) = 0 THEN emu[c] ELSE Head(vtermCh[c]))
    /\ UNCHANGED <<hostVars, sizeVars, reqVars, cli, window, exitedCh, joined,
                   winches, raced, stale>>

(* Mutant of WaitExited: an exit code is enough.                             *)
WaitExited_IgnoresRunning(c) ==
    /\ Attached(c) /\ exitedCh[c] = 0
    /\ \/ Serving /\ MuFree /\ exitCode # 0 /\ exitedCh' = Set(exitedCh, c, exitCode)
       \/ ~Serving /\ exitedCh' = Set(exitedCh, c, -1)
    /\ UNCHANGED <<hostVars, sizeVars, reqVars, cli, window, emu, vtermCh, joined,
                   winches, raced, stale>>

(* WaitExited polls Gist: not running with an exit code, or no answer.       *)
WaitExited(c) ==
    /\ Attached(c) /\ exitedCh[c] = 0
    /\ \/ /\ Serving /\ MuFree /\ ~running /\ exitCode # 0
          /\ exitedCh' = Set(exitedCh, c, exitCode)
       \/ ~Serving /\ exitedCh' = Set(exitedCh, c, -1)
    /\ UNCHANGED <<hostVars, sizeVars, reqVars, cli, window, emu, vtermCh, joined,
                   winches, raced, stale>>

(* The event loop ends, and Close stops the owner and closes the connection.  *)
Leave(c) ==
    /\ cli' = Set(cli, c, "closed")
    /\ vtermCh' = Set(vtermCh, c, <<>>) /\ window' = Set(window, c, 0)
    /\ emu' = Set(emu, c, 0) /\ exitedCh' = Set(exitedCh, c, 0)
    /\ joined' = Set(joined, c, 0) /\ stale' = stale \ {c}
    /\ UNCHANGED <<hostVars, sizeVars, reqVars, winches, raced>>

SelectExited(c) == cli[c] = "idle" /\ exitedCh[c] # 0 /\ Leave(c)

(* Ctrl+\ closes detachCh; SIGINT and SIGTERM come through sigCh.            *)
SelectLeave(c) == cli[c] = "idle" /\ Leave(c)

(* The bridge of /tty/attach closes the pipes, and the host forgets the client. *)
RemoveClient(c) ==
    /\ cli[c] = "closed"
    /\ \/ Serving /\ MuFree /\ clients' = clients \ {c}
       \/ ~Serving /\ UNCHANGED clients
    /\ cli' = Set(cli, c, "gone")
    /\ UNCHANGED <<hostVars, sizeVars, handler, size, cpty, window, emu, vtermCh, exitedCh,
                   joined, winches, raced, stale>>

ClientStep(c) ==
    \/ Serving /\ (AttachSetSize(c) \/ AttachRegister(c) \/ ResizeVt(c) \/ ResizePTY(c))
    \/ ResizeFields(c) \/ RequestFails(c) \/ RemoveClient(c) \/ SelectExited(c)

AttachNext ==
    \/ HostTask
    \/ \E c \in Clients :
        \/ \E s \in Sizes : Attach(c, s) \/ AskClients(c, s)
        \/ ClientStep(c) \/ TellOwner(c) \/ ReadOutput(c) \/ VtermOwner(c)
        \/ WaitExited(c) \/ SelectLeave(c)
    \/ hostPc = "returned" /\ UNCHANGED attachVars

AttachSpec == AttachInit /\ [][AttachNext]_attachVars

-----------------------------------------------------------------------------
(* Properties.                                                             *)

(* Types, and the limits of the code: exit codes and the PTY in the fields are    *)
(* of incarnations that were started, vtermCh never holds more than it can.      *)
AttachTypeOK ==
    /\ hostPc \in {"start", "opened", "running", "closing", "coded", "ended", "returned"}
    /\ inc \in 0..(MaxRestarts + 1) /\ running \in BOOLEAN
    /\ exitCode \in 0..inc /\ pty \in {0, inc}
    /\ {rows, vtRows} \subseteq Sizes /\ ptyRows \in Sizes \cup {0}
    /\ clients \subseteq Clients /\ stale \subseteq Clients
    /\ handler \in [Clients -> {"none", "setSize", "register", "resizeVt", "resizePTY"}]
    /\ {size, window, emu} \subseteq [Clients -> Sizes \cup {0}]
    /\ cpty \in [Clients -> 0..inc] /\ joined \in [Clients -> 0..inc]
    /\ cli \in [Clients -> {"new", "attaching", "idle", "alone", "render", "resizing",
                            "resized", "closed", "gone"}]
    /\ exitedCh \in [Clients -> -1..inc] /\ winches \in 0..MaxWinch /\ raced \in BOOLEAN
    /\ \A c \in Clients :
        /\ Len(vtermCh[c]) <= ChanCap
        /\ \A i \in DOMAIN vtermCh[c] : vtermCh[c][i] \in Sizes \cup {0}

Quiet == \A c \in Clients : handler[c] = "none"

(* A serving host's emulator has the size of its fields whenever no request is in *)
(* progress: the steps of two resizes never interleave, because a client asks    *)
(* before it resizes whether it is the only one.                              *)
EmulatorFollowsFields == Serving /\ Quiet => vtRows = rows

(* So has the PTY of the running task, unless the size was changed after the     *)
(* PTY got its size and before the pair was published (startTTYProcess reads     *)
(* the fields without the lock).                                              *)
PTYFollowsFields == Quiet /\ hostPc = "running" /\ ~raced => ptyRows = rows

(* A client at rest shows the terminal at its size, unless another client,       *)
(* which had been alone when it asked, resized it, or its own Resize failed.     *)
ClientFollowsHost ==
    \A c \in clients :
        cli[c] = "idle" /\ vtermCh[c] = <<>> /\ c \notin stale => emu[c] = rows

(* A client that attached to a running task reports that task's exit code or a   *)
(* later one's, never the code that an earlier incarnation left in the fields:   *)
(* exitCode is not reset at a restart, and WaitExited goes by running.          *)
ExitCodeIsOfSeenTask ==
    \A c \in Clients : exitedCh[c] > 0 => exitedCh[c] >= joined[c]
=============================================================================
