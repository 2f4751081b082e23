---------------------------- MODULE AttachProofs ----------------------------
(***************************************************************************)
(* Proofs about AttachClient, for every set of clients and of sizes and      *)
(* every bound: the five places that keep the terminal's size agree when     *)
(* the code says they should, and a client reports no stale exit code.       *)
(*                                                                         *)
(* None of the properties is inductive: each needs to know which request may  *)
(* change a size now, and that there is at most one.  RequestInv has that,    *)
(* SizeInv what a request in progress still owes to the other places, and    *)
(* EmuInv what a client's queued messages will make of its emulator.         *)
(***************************************************************************)
EXTENDS AttachClient, SequenceTheorems, TLAPS

Attaches == {"setSize", "register"}
Resizes == {"resizeVt", "resizePTY"}

(* AttachTypeOK without its Boolean variables.                              *)
TypeInv ==
    /\ hostPc \in {"start", "opened", "running", "closing", "coded", "ended", "returned"}
    /\ inc \in 0..(MaxRestarts + 1)
    /\ exitCode \in 0..inc /\ pty \in {0, inc}
    /\ rows \in Sizes /\ vtRows \in Sizes /\ ptyRows \in Sizes \cup {0}
    /\ clients \subseteq Clients /\ stale \subseteq Clients
    /\ handler \in [Clients -> {"none", "setSize", "register", "resizeVt", "resizePTY"}]
    /\ size \in [Clients -> Sizes \cup {0}] /\ window \in [Clients -> Sizes \cup {0}]
    /\ emu \in [Clients -> Sizes \cup {0}]
    /\ cpty \in [Clients -> 0..inc] /\ joined \in [Clients -> 0..inc]
    /\ cli \in [Clients -> {"new", "attaching", "idle", "alone", "render", "resizing",
                            "resized", "closed", "gone"}]
    /\ exitedCh \in [Clients -> -1..inc] /\ winches \in 0..MaxWinch

BoolInv == running \in BOOLEAN /\ raced \in BOOLEAN

(* vtermCh holds sizes, or 0 for a write or a render, and no more than it can.  *)
ChanInv ==
    /\ vtermCh \in [Clients -> Seq(Sizes \cup {0})]
    /\ \A c \in Clients : Len(vtermCh[c]) <= ChanCap

(* The life of the task: the fields have a PTY only while it runs, and          *)
(* `running' falls only after the exit code of the incarnation was set.        *)
TaskInv ==
    /\ pty # 0 => hostPc \in {"running", "coded"}
    /\ hostPc = "running" => pty = inc
    /\ hostPc # "start" => inc > 0
    /\ hostPc \in {"coded", "ended", "returned"} => exitCode = inc
    /\ hostPc = "start" => inc <= MaxRestarts
    /\ running <=> hostPc \in {"running", "closing", "coded"}

(* Who may change a size: one Attach holds h.mu, and only the first client's    *)
(* changes the size; a client that found itself alone stays in the map until   *)
(* its Resize is done, so that no other one can find itself alone.            *)
RequestInv ==
    /\ \A c \in Clients :
        /\ handler[c] \in Attaches <=> cli[c] = "attaching"
        /\ handler[c] \in Resizes <=> cli[c] = "resizing"
        /\ cli[c] \in {"idle", "alone", "render", "resizing", "resized", "closed"}
               => c \in clients
        /\ cli[c] \in {"new", "attaching"} => c \notin clients
        /\ handler[c] = "setSize" => clients = {}
        /\ cli[c] \notin {"new", "closed", "gone"} => window[c] # 0
    /\ \A c, d \in Clients :
        /\ handler[c] \in Attaches /\ handler[d] \in Attaches => c = d
        /\ cli[c] \in {"alone", "resizing"} /\ cli[d] \in {"alone", "resizing"} => c = d

(* What the emulator and the PTY lack, a request in progress will give them.    *)
SizeInv ==
    /\ \A c \in Clients :
        handler[c] \in {"setSize", "resizeVt", "resizePTY"} => size[c] = rows
    /\ Serving =>
        vtRows = rows \/ \E c \in Clients : handler[c] \in {"setSize", "resizeVt"}
    /\ hostPc = "opened" /\ ~raced => ptyRows = rows
    /\ hostPc = "running" /\ ~raced =>
        \/ ptyRows = rows
        \/ \E c \in Clients : \/ handler[c] = "setSize"
                              \/ handler[c] \in Resizes /\ cpty[c] = pty

(* When the owner has worked off the channel ch, an emulator of size e has size   *)
(* r: the last resize in the channel is to r, or there is none and e is r.       *)
Shows(ch, e, r) ==
    /\ (\A i \in 1..Len(ch) : ch[i] = 0) => e = r
    /\ \A i \in 1..Len(ch) :
        ch[i] # 0 /\ (\A j \in 1..Len(ch) : i < j => ch[j] = 0) => ch[i] = r

EmuInv ==
    \A c \in Clients :
        /\ cli[c] \in {"new", "attaching"} => vtermCh[c] = <<>>
        /\ cli[c] \in {"idle", "alone", "render"} /\ c \notin stale
               => Shows(vtermCh[c], emu[c], rows)
        /\ cli[c] \in {"resizing", "resized"} /\ c \notin stale => window[c] = rows

(* An exit code in the fields of a task that no longer runs is not older than    *)
(* the task any client attached to, nor is one that a client was given.         *)
ExitInv ==
    \A c \in Clients :
        /\ ~running => joined[c] <= exitCode
        /\ cli[c] \in {"new", "attaching"} => exitedCh[c] = 0
        /\ exitedCh[c] > 0 => exitedCh[c] >= joined[c]

AttachInv ==
    /\ TypeInv /\ BoolInv /\ ChanInv /\ TaskInv /\ RequestInv /\ SizeInv /\ EmuInv /\ ExitInv

-----------------------------------------------------------------------------
(* What the client's goroutines do to Shows.                                *)

(* A new emulator is made with the size of the reply.                        *)
LEMMA ShowsNew == \A r : Shows(<<>>, r, r)
BY DEF Shows

(* A write or a render changes no size ...                                  *)
LEMMA ShowsWrite ==
    ASSUME NEW ch \in Seq(Sizes \cup {0}), NEW e, NEW r, Shows(ch, e, r)
    PROVE  Shows(Append(ch, 0), e, r)
<1> DEFINE new == Append(ch, 0)
<1>1. /\ Len(new) = Len(ch) + 1 /\ new[Len(ch) + 1] = 0 /\ Len(ch) \in Nat
      /\ \A i \in 1..Len(ch) : new[i] = ch[i]
  OBVIOUS
<1> HIDE DEF new
<1>2. (\A i \in 1..Len(new) : new[i] = 0) => e = r
  BY <1>1 DEF Shows
<1>3. ASSUME NEW i \in 1..Len(new), new[i] # 0,
             \A j \in 1..Len(new) : i < j => new[j] = 0
      PROVE  new[i] = r
  <2>1. i \in 1..Len(ch) /\ ch[i] # 0
    BY <1>1, <1>3
  <2>2. \A j \in 1..Len(ch) : i < j => ch[j] = 0
    BY <1>1, <1>3
  <2> QED
    BY <1>1, <2>1, <2>2 DEF Shows
<1>4. Shows(new, e, r)
  BY <1>2, <1>3 DEF Shows
<1> QED
  BY <1>4 DEF new

(* ... a resize decides the size ...                                        *)
LEMMA ShowsResize ==
    ASSUME NEW ch \in Seq(Sizes \cup {0}), NEW e, NEW r \in Sizes, r # 0
    PROVE  Shows(Append(ch, r), e, r)
<1> DEFINE new == Append(ch, r)
<1>1. Len(new) = Len(ch) + 1 /\ new[Len(ch) + 1] = r /\ Len(ch) \in Nat
  OBVIOUS
<1> HIDE DEF new
<1>2. ~ \A i \in 1..Len(new) : new[i] = 0
  BY <1>1
<1>3. ASSUME NEW i \in 1..Len(new), \A j \in 1..Len(new) : i < j => new[j] = 0
      PROVE  new[i] = r
  BY <1>1, <1>3
<1>4. Shows(new, e, r)
  BY <1>2, <1>3 DEF Shows
<1> QED
  BY <1>4 DEF new

(* ... and the owner takes the messages in their order.                      *)
LEMMA ShowsOwner ==
    ASSUME NEW ch \in Seq(Sizes \cup {0}), ch # <<>>, NEW e, NEW r, Shows(ch, e, r)
    PROVE  Shows(Tail(ch), IF Head(ch) = 0 THEN e ELSE Head(ch), r)
<1> DEFINE new == Tail(ch)
           f == IF Head(ch) = 0 THEN e ELSE Head(ch)
<1>1. /\ Len(ch) \in Nat /\ Len(ch) > 0 /\ Len(new) = Len(ch) - 1 /\ Head(ch) = ch[1]
      /\ \A i \in 1..Len(new) : new[i] = ch[i + 1]
  OBVIOUS
<1>2. f = IF ch[1] = 0 THEN e ELSE ch[1]
  BY <1>1
<1> HIDE DEF new, f
<1>3. ASSUME \A i \in 1..Len(new) : new[i] = 0
      PROVE  f = r
  <2>1. \A i \in 1..Len(ch) : 1 < i => ch[i] = 0
    <3> SUFFICES ASSUME NEW i \in 1..Len(ch), 1 < i PROVE ch[i] = 0
      OBVIOUS
    <3>1. (i - 1) \in 1..Len(new) /\ (i - 1) + 1 = i
      BY <1>1
    <3> QED
      BY <1>1, <1>3, <3>1
  <2>2. CASE ch[1] = 0
    <3>1. \A i \in 1..Len(ch) : ch[i] = 0
      BY <2>1, <2>2
    <3> QED
      BY <1>2, <2>2, <3>1 DEF Shows
  <2>3. CASE ch[1] # 0
    BY <1>1, <1>2, <2>1, <2>3 DEF Shows
  <2> QED
    BY <2>2, <2>3
<1>4. ASSUME NEW i \in 1..Len(new), new[i] # 0,
             \A j \in 1..Len(new) : i < j => new[j] = 0
      PROVE  new[i] = r
  <2>1. (i + 1) \in 1..Len(ch) /\ ch[i + 1] = new[i]
    BY <1>1
  <2>2. ASSUME NEW j \in 1..Len(ch), i + 1 < j
        PROVE  ch[j] = 0
    <3>1. (j - 1) \in 1..Len(new) /\ (j - 1) + 1 = j /\ i < j - 1
      BY <1>1, <2>2
    <3> QED
      BY <1>1, <1>4, <3>1
  <2> QED
    BY <1>4, <2>1, <2>2 DEF Shows
<1>5. Shows(new, f, r)
  BY <1>3, <1>4 DEF Shows
<1> QED
  BY <1>5 DEF new, f

-----------------------------------------------------------------------------
(* The invariant holds at first and is inductive.                           *)

(* Nobody is attached and no task runs when the host starts.                 *)
LEMMA AttachInitInv == AttachInit => AttachInv
<1> SUFFICES ASSUME AttachInit PROVE AttachInv
  OBVIOUS
<1> USE AttachAssumption DEF AttachAssumption, AttachInit
<1>1. TypeInv
  BY DEF TypeInv
<1>2. BoolInv
  BY Zenon DEF BoolInv
<1>3. ChanInv /\ TaskInv
  BY DEF ChanInv, TaskInv
<1>4. RequestInv /\ SizeInv
  BY DEF RequestInv, SizeInv, Attaches, Resizes, Serving
<1>5. EmuInv /\ ExitInv
  BY DEF EmuInv, ExitInv
<1> QED
  BY <1>1, <1>2, <1>3, <1>4, <1>5, Zenon DEF AttachInv

(* The Boolean fields.                                                     *)
LEMMA BoolStep == AttachInv /\ [AttachNext]_attachVars => BoolInv'
<1> SUFFICES ASSUME AttachInv, [AttachNext]_attachVars PROVE BoolInv'
  OBVIOUS
<1> USE DEF AttachInv, BoolInv, attachVars, hostVars, sizeVars, reqVars, cliVars, hostUnchanged, Set, Leave
<1>1. CASE OpenPTY
  BY <1>1, Zenon DEF OpenPTY
<1>2. CASE PublishPTY
  BY <1>2, Zenon DEF PublishPTY
<1>3. CASE ClosePTY
  BY <1>3, Zenon DEF ClosePTY
<1>4. CASE SetExitCode
  BY <1>4, Zenon DEF SetExitCode
<1>5. CASE PublishExit
  BY <1>5, Zenon DEF PublishExit
<1>6. CASE NextTask
  BY <1>6, Zenon DEF NextTask
<1>7. ASSUME NEW c \in Clients, AttachSetSize(c) PROVE BoolInv'
  BY <1>7, Zenon DEF AttachSetSize
<1>8. ASSUME NEW c \in Clients, AttachRegister(c) PROVE BoolInv'
  BY <1>8, Zenon DEF AttachRegister
<1>9. ASSUME NEW c \in Clients, ResizeVt(c) PROVE BoolInv'
  BY <1>9, Zenon DEF ResizeVt
<1>10. ASSUME NEW c \in Clients, ResizePTY(c) PROVE BoolInv'
  BY <1>10, Zenon DEF ResizePTY
<1>11. ASSUME NEW c \in Clients, ResizeFields(c) PROVE BoolInv'
  BY <1>11, Zenon DEF ResizeFields
<1>12. ASSUME NEW c \in Clients, RequestFails(c) PROVE BoolInv'
  BY <1>12, Zenon DEF RequestFails
<1>13. ASSUME NEW c \in Clients, RemoveClient(c) PROVE BoolInv'
  BY <1>13, Zenon DEF RemoveClient
<1>14. ASSUME NEW c \in Clients, SelectExited(c) PROVE BoolInv'
  BY <1>14, Zenon DEF SelectExited
<1>15. ASSUME NEW c \in Clients, TellOwner(c) PROVE BoolInv'
  BY <1>15, Zenon DEF TellOwner
<1>16. ASSUME NEW c \in Clients, ReadOutput(c) PROVE BoolInv'
  BY <1>16, Zenon DEF ReadOutput
<1>17. ASSUME NEW c \in Clients, VtermOwner(c) PROVE BoolInv'
  BY <1>17, Zenon DEF VtermOwner
<1>18. ASSUME NEW c \in Clients, WaitExited(c) PROVE BoolInv'
  BY <1>18, Zenon DEF WaitExited
<1>19. ASSUME NEW c \in Clients, SelectLeave(c) PROVE BoolInv'
  BY <1>19, Zenon DEF SelectLeave
<1>20. ASSUME NEW c \in Clients, NEW s \in Sizes, Attach(c, s) PROVE BoolInv'
  BY <1>20, Zenon DEF Attach
<1>21. ASSUME NEW c \in Clients, NEW s \in Sizes, AskClients(c, s) PROVE BoolInv'
  BY <1>21, Zenon DEF AskClients
<1>22. CASE UNCHANGED attachVars
  BY <1>22, Zenon DEF attachVars
<1> QED
  BY <1>1, <1>2, <1>3, <1>4, <1>5, <1>6, <1>7, <1>8, <1>9,
     <1>10, <1>11, <1>12, <1>13, <1>14, <1>15, <1>16, <1>17, <1>18,
     <1>19, <1>20, <1>21, <1>22
  DEF AttachNext, HostTask, ClientStep

(* Types: an incarnation is started only while the bound allows it.            *)
LEMMA TypeStep == AttachInv /\ [AttachNext]_attachVars => TypeInv'
<1> SUFFICES ASSUME AttachInv, [AttachNext]_attachVars PROVE TypeInv'
  OBVIOUS
<1> USE AttachAssumption DEF AttachAssumption, AttachInv, TypeInv, TaskInv, attachVars, hostVars, sizeVars, reqVars, cliVars, hostUnchanged, Set, Leave
<1>1. CASE OpenPTY
  BY <1>1 DEF OpenPTY
<1>2. CASE PublishPTY
  BY <1>2 DEF PublishPTY
<1>3. CASE ClosePTY
  BY <1>3 DEF ClosePTY
<1>4. CASE SetExitCode
  BY <1>4 DEF SetExitCode
<1>5. CASE PublishExit
  BY <1>5 DEF PublishExit
<1>6. CASE NextTask
  BY <1>6 DEF NextTask
<1>7. ASSUME NEW c \in Clients, AttachSetSize(c) PROVE TypeInv'
  BY <1>7 DEF AttachSetSize, SizeInv
<1>8. ASSUME NEW c \in Clients, AttachRegister(c) PROVE TypeInv'
  BY <1>8 DEF AttachRegister
<1>9. ASSUME NEW c \in Clients, ResizeVt(c) PROVE TypeInv'
  BY <1>9 DEF ResizeVt, SizeInv
<1>10. ASSUME NEW c \in Clients, ResizePTY(c) PROVE TypeInv'
  BY <1>10 DEF ResizePTY
<1>11. ASSUME NEW c \in Clients, ResizeFields(c) PROVE TypeInv'
  BY <1>11 DEF ResizeFields, RequestInv
<1>12. ASSUME NEW c \in Clients, RequestFails(c) PROVE TypeInv'
  BY <1>12 DEF RequestFails
<1>13. ASSUME NEW c \in Clients, RemoveClient(c) PROVE TypeInv'
  BY <1>13 DEF RemoveClient
<1>14. ASSUME NEW c \in Clients, SelectExited(c) PROVE TypeInv'
  BY <1>14 DEF SelectExited
<1>15. ASSUME NEW c \in Clients, TellOwner(c) PROVE TypeInv'
  BY <1>15 DEF TellOwner
<1>16. ASSUME NEW c \in Clients, ReadOutput(c) PROVE TypeInv'
  BY <1>16 DEF ReadOutput
<1>17. ASSUME NEW c \in Clients, VtermOwner(c) PROVE TypeInv'
  <2>1. vtermCh[c] \in Seq(Sizes \cup {0}) /\ vtermCh[c] # <<>>
    BY <1>17 DEF VtermOwner, ChanInv
  <2>2. Head(vtermCh[c]) \in Sizes \cup {0}
    BY <2>1
  <2> QED
    BY <1>17, <2>2 DEF VtermOwner
<1>18. ASSUME NEW c \in Clients, WaitExited(c) PROVE TypeInv'
  BY <1>18 DEF WaitExited
<1>19. ASSUME NEW c \in Clients, SelectLeave(c) PROVE TypeInv'
  BY <1>19 DEF SelectLeave
<1>20. ASSUME NEW c \in Clients, NEW s \in Sizes, Attach(c, s) PROVE TypeInv'
  BY <1>20 DEF Attach
<1>21. ASSUME NEW c \in Clients, NEW s \in Sizes, AskClients(c, s) PROVE TypeInv'
  BY <1>21 DEF AskClients
<1>22. CASE UNCHANGED attachVars
  BY <1>22 DEF attachVars
<1> QED
  BY <1>1, <1>2, <1>3, <1>4, <1>5, <1>6, <1>7, <1>8, <1>9,
     <1>10, <1>11, <1>12, <1>13, <1>14, <1>15, <1>16, <1>17, <1>18,
     <1>19, <1>20, <1>21, <1>22
  DEF AttachNext, HostTask, ClientStep

(* A message is sent only when there is room.                                *)
LEMMA ChanStep == AttachInv /\ [AttachNext]_attachVars => ChanInv'
<1> SUFFICES ASSUME AttachInv, [AttachNext]_attachVars PROVE ChanInv'
  OBVIOUS
<1> USE AttachAssumption DEF AttachAssumption, AttachInv, TypeInv, ChanInv, attachVars, hostVars, sizeVars, reqVars, cliVars, hostUnchanged, Set, Leave
<1>1. CASE OpenPTY
  BY <1>1 DEF OpenPTY
<1>2. CASE PublishPTY
  BY <1>2 DEF PublishPTY
<1>3. CASE ClosePTY
  BY <1>3 DEF ClosePTY
<1>4. CASE SetExitCode
  BY <1>4 DEF SetExitCode
<1>5. CASE PublishExit
  BY <1>5 DEF PublishExit
<1>6. CASE NextTask
  BY <1>6 DEF NextTask
<1>7. ASSUME NEW c \in Clients, AttachSetSize(c) PROVE ChanInv'
  BY <1>7 DEF AttachSetSize
<1>8. ASSUME NEW c \in Clients, AttachRegister(c) PROVE ChanInv'
  BY <1>8 DEF AttachRegister
<1>9. ASSUME NEW c \in Clients, ResizeVt(c) PROVE ChanInv'
  BY <1>9 DEF ResizeVt
<1>10. ASSUME NEW c \in Clients, ResizePTY(c) PROVE ChanInv'
  BY <1>10 DEF ResizePTY
<1>11. ASSUME NEW c \in Clients, ResizeFields(c) PROVE ChanInv'
  BY <1>11 DEF ResizeFields
<1>12. ASSUME NEW c \in Clients, RequestFails(c) PROVE ChanInv'
  BY <1>12 DEF RequestFails
<1>13. ASSUME NEW c \in Clients, RemoveClient(c) PROVE ChanInv'
  BY <1>13 DEF RemoveClient
<1>14. ASSUME NEW c \in Clients, SelectExited(c) PROVE ChanInv'
  <2>1. vtermCh' = [vtermCh EXCEPT ![c] = <<>>]
    BY <1>14 DEF SelectExited
  <2>2. <<>> \in Seq(Sizes \cup {0}) /\ Len(<<>>) <= ChanCap
    OBVIOUS
  <2> QED
    BY <2>1, <2>2
<1>15. ASSUME NEW c \in Clients, TellOwner(c) PROVE ChanInv'
  <2>1. PICK m \in Sizes \cup {0} : vtermCh' = [vtermCh EXCEPT ![c] = Append(vtermCh[c], m)]
    BY <1>15 DEF TellOwner
  <2>2. vtermCh[c] \in Seq(Sizes \cup {0}) /\ Len(vtermCh[c]) < ChanCap
    BY <1>15 DEF TellOwner
  <2>3. Append(vtermCh[c], m) \in Seq(Sizes \cup {0}) /\ Len(Append(vtermCh[c], m)) <= ChanCap
    BY <2>2
  <2> QED
    BY <2>1, <2>3
<1>16. ASSUME NEW c \in Clients, ReadOutput(c) PROVE ChanInv'
  BY <1>16, SMTT(20) DEF ReadOutput
<1>17. ASSUME NEW c \in Clients, VtermOwner(c) PROVE ChanInv'
  BY <1>17, SMTT(20) DEF VtermOwner
<1>18. ASSUME NEW c \in Clients, WaitExited(c) PROVE ChanInv'
  BY <1>18 DEF WaitExited
<1>19. ASSUME NEW c \in Clients, SelectLeave(c) PROVE ChanInv'
  <2>1. vtermCh' = [vtermCh EXCEPT ![c] = <<>>]
    BY <1>19 DEF SelectLeave
  <2>2. <<>> \in Seq(Sizes \cup {0}) /\ Len(<<>>) <= ChanCap
    OBVIOUS
  <2> QED
    BY <2>1, <2>2
<1>20. ASSUME NEW c \in Clients, NEW s \in Sizes, Attach(c, s) PROVE ChanInv'
  BY <1>20 DEF Attach
<1>21. ASSUME NEW c \in Clients, NEW s \in Sizes, AskClients(c, s) PROVE ChanInv'
  BY <1>21 DEF AskClients
<1>22. CASE UNCHANGED attachVars
  BY <1>22 DEF attachVars
<1> QED
  BY <1>1, <1>2, <1>3, <1>4, <1>5, <1>6, <1>7, <1>8, <1>9,
     <1>10, <1>11, <1>12, <1>13, <1>14, <1>15, <1>16, <1>17, <1>18,
     <1>19, <1>20, <1>21, <1>22
  DEF AttachNext, HostTask, ClientStep

(* The task's life.                                                        *)
LEMMA TaskStep == AttachInv /\ [AttachNext]_attachVars => TaskInv'
<1> SUFFICES ASSUME AttachInv, [AttachNext]_attachVars PROVE TaskInv'
  OBVIOUS
<1> USE AttachAssumption DEF AttachAssumption, AttachInv, TypeInv, TaskInv, attachVars, hostVars, sizeVars, reqVars, cliVars, hostUnchanged, Set, Leave
<1>1. CASE OpenPTY
  BY <1>1 DEF OpenPTY
<1>2. CASE PublishPTY
  BY <1>2 DEF PublishPTY
<1>3. CASE ClosePTY
  BY <1>3 DEF ClosePTY
<1>4. CASE SetExitCode
  BY <1>4 DEF SetExitCode
<1>5. CASE PublishExit
  BY <1>5 DEF PublishExit
<1>6. CASE NextTask
  BY <1>6 DEF NextTask
<1>7. ASSUME NEW c \in Clients, AttachSetSize(c) PROVE TaskInv'
  BY <1>7 DEF AttachSetSize
<1>8. ASSUME NEW c \in Clients, AttachRegister(c) PROVE TaskInv'
  BY <1>8 DEF AttachRegister
<1>9. ASSUME NEW c \in Clients, ResizeVt(c) PROVE TaskInv'
  BY <1>9 DEF ResizeVt
<1>10. ASSUME NEW c \in Clients, ResizePTY(c) PROVE TaskInv'
  BY <1>10 DEF ResizePTY
<1>11. ASSUME NEW c \in Clients, ResizeFields(c) PROVE TaskInv'
  BY <1>11 DEF ResizeFields
<1>12. ASSUME NEW c \in Clients, RequestFails(c) PROVE TaskInv'
  BY <1>12 DEF RequestFails
<1>13. ASSUME NEW c \in Clients, RemoveClient(c) PROVE TaskInv'
  BY <1>13 DEF RemoveClient
<1>14. ASSUME NEW c \in Clients, SelectExited(c) PROVE TaskInv'
  BY <1>14 DEF SelectExited
<1>15. ASSUME NEW c \in Clients, TellOwner(c) PROVE TaskInv'
  BY <1>15 DEF TellOwner
<1>16. ASSUME NEW c \in Clients, ReadOutput(c) PROVE TaskInv'
  BY <1>16 DEF ReadOutput
<1>17. ASSUME NEW c \in Clients, VtermOwner(c) PROVE TaskInv'
  BY <1>17 DEF VtermOwner
<1>18. ASSUME NEW c \in Clients, WaitExited(c) PROVE TaskInv'
  BY <1>18 DEF WaitExited
<1>19. ASSUME NEW c \in Clients, SelectLeave(c) PROVE TaskInv'
  BY <1>19 DEF SelectLeave
<1>20. ASSUME NEW c \in Clients, NEW s \in Sizes, Attach(c, s) PROVE TaskInv'
  BY <1>20 DEF Attach
<1>21. ASSUME NEW c \in Clients, NEW s \in Sizes, AskClients(c, s) PROVE TaskInv'
  BY <1>21 DEF AskClients
<1>22. CASE UNCHANGED attachVars
  BY <1>22 DEF attachVars
<1> QED
  BY <1>1, <1>2, <1>3, <1>4, <1>5, <1>6, <1>7, <1>8, <1>9,
     <1>10, <1>11, <1>12, <1>13, <1>14, <1>15, <1>16, <1>17, <1>18,
     <1>19, <1>20, <1>21, <1>22
  DEF AttachNext, HostTask, ClientStep

(* At most one request may change a size.                                    *)
LEMMA RequestStep == AttachInv /\ [AttachNext]_attachVars => RequestInv'
<1> SUFFICES ASSUME AttachInv, [AttachNext]_attachVars PROVE RequestInv'
  OBVIOUS
<1> USE AttachAssumption DEF AttachAssumption, AttachInv, TypeInv, RequestInv, Serving, MuFree, Attaches, Resizes, attachVars, hostVars, sizeVars, reqVars, cliVars, hostUnchanged, Set, Leave
<1>1. CASE OpenPTY
  BY <1>1 DEF OpenPTY
<1>2. CASE PublishPTY
  BY <1>2 DEF PublishPTY
<1>3. CASE ClosePTY
  BY <1>3 DEF ClosePTY
<1>4. CASE SetExitCode
  BY <1>4 DEF SetExitCode
<1>5. CASE PublishExit
  BY <1>5 DEF PublishExit
<1>6. CASE NextTask
  BY <1>6 DEF NextTask
<1>7. ASSUME NEW c \in Clients, AttachSetSize(c) PROVE RequestInv'
  BY <1>7 DEF AttachSetSize
<1>8. ASSUME NEW c \in Clients, AttachRegister(c) PROVE RequestInv'
  BY <1>8 DEF AttachRegister
<1>9. ASSUME NEW c \in Clients, ResizeVt(c) PROVE RequestInv'
  BY <1>9 DEF ResizeVt
<1>10. ASSUME NEW c \in Clients, ResizePTY(c) PROVE RequestInv'
  BY <1>10 DEF ResizePTY
<1>11. ASSUME NEW c \in Clients, ResizeFields(c) PROVE RequestInv'
  BY <1>11 DEF ResizeFields
<1>12. ASSUME NEW c \in Clients, RequestFails(c) PROVE RequestInv'
  BY <1>12 DEF RequestFails
<1>13. ASSUME NEW c \in Clients, RemoveClient(c) PROVE RequestInv'
  BY <1>13 DEF RemoveClient
<1>14. ASSUME NEW c \in Clients, SelectExited(c) PROVE RequestInv'
  BY <1>14 DEF SelectExited
<1>15. ASSUME NEW c \in Clients, TellOwner(c) PROVE RequestInv'
  BY <1>15, SMTT(20) DEF TellOwner
<1>16. ASSUME NEW c \in Clients, ReadOutput(c) PROVE RequestInv'
  BY <1>16 DEF ReadOutput
<1>17. ASSUME NEW c \in Clients, VtermOwner(c) PROVE RequestInv'
  BY <1>17 DEF VtermOwner
<1>18. ASSUME NEW c \in Clients, WaitExited(c) PROVE RequestInv'
  BY <1>18 DEF WaitExited
<1>19. ASSUME NEW c \in Clients, SelectLeave(c) PROVE RequestInv'
  BY <1>19 DEF SelectLeave
<1>20. ASSUME NEW c \in Clients, NEW s \in Sizes, Attach(c, s) PROVE RequestInv'
  BY <1>20 DEF Attach
<1>21. ASSUME NEW c \in Clients, NEW s \in Sizes, AskClients(c, s) PROVE RequestInv'
  BY <1>21 DEF AskClients
<1>22. CASE UNCHANGED attachVars
  BY <1>22 DEF attachVars
<1> QED
  BY <1>1, <1>2, <1>3, <1>4, <1>5, <1>6, <1>7, <1>8, <1>9,
     <1>10, <1>11, <1>12, <1>13, <1>14, <1>15, <1>16, <1>17, <1>18,
     <1>19, <1>20, <1>21, <1>22
  DEF AttachNext, HostTask, ClientStep

(* What the emulator and the PTY lack is on its way.                           *)
LEMMA SizeStep == AttachInv /\ [AttachNext]_attachVars => SizeInv'
<1> SUFFICES ASSUME AttachInv, [AttachNext]_attachVars PROVE SizeInv'
  OBVIOUS
<1> USE AttachAssumption DEF AttachAssumption, AttachInv, TypeInv, RequestInv, TaskInv, SizeInv, Serving, MuFree, Attaches, Resizes, attachVars, hostVars, sizeVars, reqVars, cliVars, hostUnchanged, Set, Leave
<1>1. CASE OpenPTY
  BY <1>1 DEF OpenPTY
<1>2. CASE PublishPTY
  BY <1>2 DEF PublishPTY
<1>3. CASE ClosePTY
  BY <1>3 DEF ClosePTY
<1>4. CASE SetExitCode
  BY <1>4 DEF SetExitCode
<1>5. CASE PublishExit
  BY <1>5 DEF PublishExit
<1>6. CASE NextTask
  BY <1>6 DEF NextTask
<1>7. ASSUME NEW c \in Clients, AttachSetSize(c) PROVE SizeInv'
  BY <1>7 DEF AttachSetSize
<1>8. ASSUME NEW c \in Clients, AttachRegister(c) PROVE SizeInv'
  BY <1>8 DEF AttachRegister
<1>9. ASSUME NEW c \in Clients, ResizeVt(c) PROVE SizeInv'
  BY <1>9 DEF ResizeVt
<1>10. ASSUME NEW c \in Clients, ResizePTY(c) PROVE SizeInv'
  BY <1>10 DEF ResizePTY
<1>11. ASSUME NEW c \in Clients, ResizeFields(c) PROVE SizeInv'
  <2>1. ~raced' => ~raced /\ (hostPc = "opened" => rows' = rows)
    BY <1>11, Zenon DEF ResizeFields
  <2>2. /\ UNCHANGED <<hostPc, pty, vtRows, ptyRows>>
        /\ handler' = [handler EXCEPT ![c] = "resizeVt"] /\ rows' = window[c]
        /\ size' = [size EXCEPT ![c] = window[c]] /\ cpty' = [cpty EXCEPT ![c] = pty]
    BY <1>11, Zenon DEF ResizeFields
  <2>3. \A d \in Clients : d # c => handler[d] \in {"none", "register"}
    BY <1>11 DEF ResizeFields
  <2>4. \A d \in Clients :
            handler'[d] \in {"setSize", "resizeVt", "resizePTY"} => size'[d] = rows'
    BY <2>2, <2>3
  <2>5. handler'[c] = "resizeVt" /\ cpty'[c] = pty'
    BY <2>2
  <2> QED
    BY <2>1, <2>2, <2>4, <2>5
<1>12. ASSUME NEW c \in Clients, RequestFails(c) PROVE SizeInv'
  BY <1>12 DEF RequestFails
<1>13. ASSUME NEW c \in Clients, RemoveClient(c) PROVE SizeInv'
  BY <1>13 DEF RemoveClient
<1>14. ASSUME NEW c \in Clients, SelectExited(c) PROVE SizeInv'
  BY <1>14 DEF SelectExited
<1>15. ASSUME NEW c \in Clients, TellOwner(c) PROVE SizeInv'
  BY <1>15 DEF TellOwner
<1>16. ASSUME NEW c \in Clients, ReadOutput(c) PROVE SizeInv'
  BY <1>16 DEF ReadOutput
<1>17. ASSUME NEW c \in Clients, VtermOwner(c) PROVE SizeInv'
  BY <1>17 DEF VtermOwner
<1>18. ASSUME NEW c \in Clients, WaitExited(c) PROVE SizeInv'
  BY <1>18 DEF WaitExited
<1>19. ASSUME NEW c \in Clients, SelectLeave(c) PROVE SizeInv'
  BY <1>19 DEF SelectLeave
<1>20. ASSUME NEW c \in Clients, NEW s \in Sizes, Attach(c, s) PROVE SizeInv'
  <2>1. ~raced' => ~raced /\ (hostPc = "opened" => rows' = rows)
    BY <1>20, Zenon DEF Attach
  <2>2. UNCHANGED <<hostPc, pty, vtRows, ptyRows, cpty>>
    BY <1>20, Zenon DEF Attach
  <2>3. \A d \in Clients : handler[d] \notin {"setSize", "register"}
    BY <1>20 DEF Attach
  <2>4. CASE clients = {}
    <3>1. /\ rows' = s /\ handler' = [handler EXCEPT ![c] = "setSize"]
          /\ size' = [size EXCEPT ![c] = s]
      BY <1>20, <2>4 DEF Attach
    <3>2. \A d \in Clients : handler[d] \notin Resizes
      BY <2>4
    <3> QED
      BY <2>1, <2>2, <2>3, <3>1, <3>2
  <2>5. CASE clients # {}
    <3>1. /\ rows' = rows
          /\ \/ /\ handler' = [handler EXCEPT ![c] = "register"]
                /\ size' = [size EXCEPT ![c] = s]
             \/ UNCHANGED <<handler, size>>
      BY <1>20, <2>5 DEF Attach
    <3>2. handler[c] = "none"
      BY <1>20, <2>3 DEF Attach
    <3> QED
      BY <2>1, <2>2, <3>1, <3>2
  <2> QED
    BY <2>4, <2>5
<1>21. ASSUME NEW c \in Clients, NEW s \in Sizes, AskClients(c, s) PROVE SizeInv'
  BY <1>21 DEF AskClients
<1>22. CASE UNCHANGED attachVars
  BY <1>22 DEF attachVars
<1> QED
  BY <1>1, <1>2, <1>3, <1>4, <1>5, <1>6, <1>7, <1>8, <1>9,
     <1>10, <1>11, <1>12, <1>13, <1>14, <1>15, <1>16, <1>17, <1>18,
     <1>19, <1>20, <1>21, <1>22
  DEF AttachNext, HostTask, ClientStep

(* What a client's emulator lacks is in its channel.                          *)
LEMMA EmuStep == AttachInv /\ [AttachNext]_attachVars => EmuInv'
<1> SUFFICES ASSUME AttachInv, [AttachNext]_attachVars PROVE EmuInv'
  OBVIOUS
<1>0. /\ \A c \in Clients : vtermCh[c] \in Seq(Sizes \cup {0})
      /\ rows \in Sizes /\ 0 \notin Sizes
  BY AttachAssumption DEF AttachAssumption, AttachInv, ChanInv, TypeInv
<1>a. \A c \in Clients : Shows(Append(vtermCh[c], rows), emu[c], rows)
  BY <1>0, ShowsResize, Zenon
<1>b. \A c \in Clients : Shows(vtermCh[c], emu[c], rows)
                          => Shows(Append(vtermCh[c], 0), emu[c], rows)
  BY <1>0, ShowsWrite, Zenon
<1>c. \A c \in Clients :
        vtermCh[c] # <<>> /\ Shows(vtermCh[c], emu[c], rows)
            => Shows(Tail(vtermCh[c]),
                     IF Head(vtermCh[c]) = 0 THEN emu[c] ELSE Head(vtermCh[c]), rows)
  BY <1>0, ShowsOwner, Zenon
<1>d. \A c \in Clients : c \notin stale =>
        /\ cli[c] = "resized" => window[c] = rows
        /\ cli[c] = "render" => Shows(vtermCh[c], emu[c], rows)
  BY DEF AttachInv, EmuInv
<1> USE AttachAssumption DEF AttachAssumption, AttachInv, TypeInv, ChanInv, RequestInv, EmuInv, Serving, MuFree, Attaches, Resizes, attachVars, hostVars, sizeVars, reqVars, cliVars, hostUnchanged, Set, Leave
<1>1. CASE OpenPTY
  BY <1>1 DEF OpenPTY
<1>2. CASE PublishPTY
  BY <1>2 DEF PublishPTY
<1>3. CASE ClosePTY
  BY <1>3 DEF ClosePTY
<1>4. CASE SetExitCode
  BY <1>4 DEF SetExitCode
<1>5. CASE PublishExit
  BY <1>5 DEF PublishExit
<1>6. CASE NextTask
  BY <1>6 DEF NextTask
<1>7. ASSUME NEW c \in Clients, AttachSetSize(c) PROVE EmuInv'
  BY <1>7 DEF AttachSetSize
<1>8. ASSUME NEW c \in Clients, AttachRegister(c) PROVE EmuInv'
  <2>1. vtermCh[c] = <<>> /\ Shows(vtermCh[c], rows, rows)
    BY <1>8, ShowsNew DEF AttachRegister
  <2> QED
    BY <1>8, <2>1 DEF AttachRegister
<1>9. ASSUME NEW c \in Clients, ResizeVt(c) PROVE EmuInv'
  BY <1>9 DEF ResizeVt
<1>10. ASSUME NEW c \in Clients, ResizePTY(c) PROVE EmuInv'
  BY <1>10, SMTT(20) DEF ResizePTY
<1>11. ASSUME NEW c \in Clients, ResizeFields(c) PROVE EmuInv'
  BY <1>11, SMTT(20) DEF ResizeFields
<1>12. ASSUME NEW c \in Clients, RequestFails(c) PROVE EmuInv'
  BY <1>12 DEF RequestFails
<1>13. ASSUME NEW c \in Clients, RemoveClient(c) PROVE EmuInv'
  BY <1>13 DEF RemoveClient
<1>14. ASSUME NEW c \in Clients, SelectExited(c) PROVE EmuInv'
  BY <1>14, SMTT(20) DEF SelectExited
<1>15. ASSUME NEW c \in Clients, TellOwner(c) PROVE EmuInv'
  <2>1. \/ cli[c] = "resized" /\ vtermCh'[c] = Append(vtermCh[c], window[c])
        \/ cli[c] = "render" /\ vtermCh'[c] = Append(vtermCh[c], 0)
    BY <1>15 DEF TellOwner
  <2>2. c \notin stale => Shows(vtermCh'[c], emu[c], rows)
    <3> HIDE DEF AttachInv
    <3> QED
      BY <1>a, <1>b, <1>d, <2>1
  <2>3. \A d \in Clients : d # c => vtermCh'[d] = vtermCh[d] /\ cli'[d] = cli[d]
    BY <1>15 DEF TellOwner
  <2>4. cli'[c] = "idle" /\ UNCHANGED <<stale, emu, rows, window>>
    BY <1>15 DEF TellOwner
  <2> QED
    BY <2>2, <2>3, <2>4
<1>16. ASSUME NEW c \in Clients, ReadOutput(c) PROVE EmuInv'
  <2>1. Shows(vtermCh[c], emu[c], rows) => Shows(vtermCh'[c], emu[c], rows)
    <3>1. vtermCh'[c] = Append(vtermCh[c], 0)
      BY <1>16 DEF ReadOutput
    <3> HIDE DEF AttachInv
    <3> QED
      BY <1>b, <3>1
  <2>2. \A d \in Clients : d # c => vtermCh'[d] = vtermCh[d]
    BY <1>16 DEF ReadOutput
  <2>3. cli[c] \notin {"new", "attaching"} /\ UNCHANGED <<cli, stale, emu, rows, window>>
    BY <1>16 DEF ReadOutput, Attached
  <2> QED
    BY <2>1, <2>2, <2>3
<1>17. ASSUME NEW c \in Clients, VtermOwner(c) PROVE EmuInv'
  <2>1. Shows(vtermCh[c], emu[c], rows) => Shows(vtermCh'[c], emu'[c], rows)
    <3>1. /\ vtermCh[c] # <<>> /\ vtermCh'[c] = Tail(vtermCh[c])
          /\ emu'[c] = IF Head(vtermCh[c]) = 0 THEN emu[c] ELSE Head(vtermCh[c])
      BY <1>17 DEF VtermOwner
    <3> HIDE DEF AttachInv
    <3> QED
      BY <1>c, <3>1
  <2>2. \A d \in Clients : d # c => vtermCh'[d] = vtermCh[d] /\ emu'[d] = emu[d]
    BY <1>17 DEF VtermOwner
  <2>3. cli[c] \notin {"new", "attaching"} /\ UNCHANGED <<cli, stale, rows, window>>
    BY <1>17 DEF VtermOwner, Attached
  <2> QED
    BY <2>1, <2>2, <2>3
<1>18. ASSUME NEW c \in Clients, WaitExited(c) PROVE EmuInv'
  BY <1>18 DEF WaitExited
<1>19. ASSUME NEW c \in Clients, SelectLeave(c) PROVE EmuInv'
  BY <1>19, SMTT(20) DEF SelectLeave
<1>20. ASSUME NEW c \in Clients, NEW s \in Sizes, Attach(c, s) PROVE EmuInv'
  <2>1. /\ UNCHANGED <<stale, emu, vtermCh, clients>> /\ window' = [window EXCEPT ![c] = s]
        /\ clients = {} \/ rows' = rows
        /\ \E x \in {"attaching", "gone"} : cli' = [cli EXCEPT ![c] = x]
        /\ cli[c] = "new"
    BY <1>20 DEF Attach
  <2>2. clients = {} => \A d \in Clients : cli[d] \in {"new", "attaching", "gone"}
    OBVIOUS
  <2>3. \A d \in Clients : d # c => cli'[d] = cli[d] /\ window'[d] = window[d]
    BY <2>1
  <2>4. cli'[c] \in {"attaching", "gone"}
    BY <2>1
  <2>5. CASE clients = {}
    BY <2>1, <2>2, <2>3, <2>4, <2>5
  <2>6. CASE rows' = rows
    BY <2>1, <2>3, <2>4, <2>6
  <2> QED
    BY <2>1, <2>5, <2>6
<1>21. ASSUME NEW c \in Clients, NEW s \in Sizes, AskClients(c, s) PROVE EmuInv'
  <2>1. /\ UNCHANGED <<stale, emu, vtermCh, clients, rows>> /\ window' = [window EXCEPT ![c] = s]
        /\ \E x \in {"alone", "render"} : cli' = [cli EXCEPT ![c] = x]
        /\ cli[c] = "idle"
    BY <1>21 DEF AskClients
  <2> QED
    BY <2>1, SMTT(20)
<1>22. CASE UNCHANGED attachVars
  BY <1>22 DEF attachVars
<1> QED
  BY <1>1, <1>2, <1>3, <1>4, <1>5, <1>6, <1>7, <1>8, <1>9,
     <1>10, <1>11, <1>12, <1>13, <1>14, <1>15, <1>16, <1>17, <1>18,
     <1>19, <1>20, <1>21, <1>22
  DEF AttachNext, HostTask, ClientStep

(* Exit codes are as new as the tasks that clients saw.                       *)
LEMMA ExitStep == AttachInv /\ [AttachNext]_attachVars => ExitInv'
<1> SUFFICES ASSUME AttachInv, [AttachNext]_attachVars PROVE ExitInv'
  OBVIOUS
<1> USE AttachAssumption DEF AttachAssumption, AttachInv, TypeInv, TaskInv, RequestInv, ExitInv, Serving, MuFree, Attaches, Resizes, Attached, attachVars, hostVars, sizeVars, reqVars, cliVars, hostUnchanged, Set, Leave
<1>1. CASE OpenPTY
  BY <1>1 DEF OpenPTY
<1>2. CASE PublishPTY
  BY <1>2 DEF PublishPTY
<1>3. CASE ClosePTY
  BY <1>3 DEF ClosePTY
<1>4. CASE SetExitCode
  BY <1>4 DEF SetExitCode
<1>5. CASE PublishExit
  BY <1>5 DEF PublishExit
<1>6. CASE NextTask
  BY <1>6 DEF NextTask
<1>7. ASSUME NEW c \in Clients, AttachSetSize(c) PROVE ExitInv'
  BY <1>7 DEF AttachSetSize
<1>8. ASSUME NEW c \in Clients, AttachRegister(c) PROVE ExitInv'
  BY <1>8 DEF AttachRegister
<1>9. ASSUME NEW c \in Clients, ResizeVt(c) PROVE ExitInv'
  BY <1>9 DEF ResizeVt
<1>10. ASSUME NEW c \in Clients, ResizePTY(c) PROVE ExitInv'
  BY <1>10 DEF ResizePTY
<1>11. ASSUME NEW c \in Clients, ResizeFields(c) PROVE ExitInv'
  BY <1>11 DEF ResizeFields
<1>12. ASSUME NEW c \in Clients, RequestFails(c) PROVE ExitInv'
  BY <1>12 DEF RequestFails
<1>13. ASSUME NEW c \in Clients, RemoveClient(c) PROVE ExitInv'
  BY <1>13 DEF RemoveClient
<1>14. ASSUME NEW c \in Clients, SelectExited(c) PROVE ExitInv'
  BY <1>14 DEF SelectExited
<1>15. ASSUME NEW c \in Clients, TellOwner(c) PROVE ExitInv'
  BY <1>15 DEF TellOwner
<1>16. ASSUME NEW c \in Clients, ReadOutput(c) PROVE ExitInv'
  BY <1>16 DEF ReadOutput
<1>17. ASSUME NEW c \in Clients, VtermOwner(c) PROVE ExitInv'
  BY <1>17 DEF VtermOwner
<1>18. ASSUME NEW c \in Clients, WaitExited(c) PROVE ExitInv'
  BY <1>18 DEF WaitExited
<1>19. ASSUME NEW c \in Clients, SelectLeave(c) PROVE ExitInv'
  BY <1>19 DEF SelectLeave
<1>20. ASSUME NEW c \in Clients, NEW s \in Sizes, Attach(c, s) PROVE ExitInv'
  BY <1>20 DEF Attach
<1>21. ASSUME NEW c \in Clients, NEW s \in Sizes, AskClients(c, s) PROVE ExitInv'
  BY <1>21 DEF AskClients
<1>22. CASE UNCHANGED attachVars
  BY <1>22 DEF attachVars
<1> QED
  BY <1>1, <1>2, <1>3, <1>4, <1>5, <1>6, <1>7, <1>8, <1>9,
     <1>10, <1>11, <1>12, <1>13, <1>14, <1>15, <1>16, <1>17, <1>18,
     <1>19, <1>20, <1>21, <1>22
  DEF AttachNext, HostTask, ClientStep

LEMMA AttachStepInv == AttachInv /\ [AttachNext]_attachVars => AttachInv'
BY BoolStep, TypeStep, ChanStep, TaskStep, RequestStep, SizeStep, EmuStep, ExitStep, Zenon
   DEF AttachInv

(* The invariant holds in every behaviour of a host and its clients.            *)
THEOREM AttachInvariant == AttachSpec => []AttachInv
<1>1. AttachInit => AttachInv
  BY AttachInitInv
<1>2. AttachInv /\ [AttachNext]_attachVars => AttachInv'
  BY AttachStepInv
<1> QED
  BY <1>1, <1>2, PTL DEF AttachSpec

-----------------------------------------------------------------------------
(* The properties that the run checks.                                      *)

(* Every variable has its type, and vtermCh never holds more than it can.       *)
THEOREM AttachTypeCorrect == AttachSpec => []AttachTypeOK
<1>1. AttachInv => AttachTypeOK
  <2> SUFFICES ASSUME AttachInv PROVE AttachTypeOK
    OBVIOUS
  <2>1. running \in BOOLEAN /\ raced \in BOOLEAN
    BY Zenon DEF AttachInv, BoolInv
  <2>2. \A c \in Clients :
            /\ Len(vtermCh[c]) <= ChanCap
            /\ \A i \in DOMAIN vtermCh[c] : vtermCh[c][i] \in Sizes \cup {0}
    BY DEF AttachInv, ChanInv
  <2>3. /\ {rows, vtRows} \subseteq Sizes
        /\ {size, window, emu} \subseteq [Clients -> Sizes \cup {0}]
    BY Zenon DEF AttachInv, TypeInv
  <2> QED
    BY <2>1, <2>2, <2>3, Zenon DEF AttachTypeOK, AttachInv, TypeInv
<1> QED
  BY <1>1, AttachInvariant, PTL

(* The host's emulator has the size of the host's fields whenever no request is  *)
(* in progress, however the clients' resizes and attaches fall.                *)
THEOREM EmulatorIsInStep == AttachSpec => []EmulatorFollowsFields
<1>1. AttachInv => EmulatorFollowsFields
  BY DEF AttachInv, SizeInv, EmulatorFollowsFields, Quiet
<1> QED
  BY <1>1, AttachInvariant, PTL

(* So has the PTY of a running task, but for a size that changed while the        *)
(* task was being started.                                                   *)
THEOREM PTYIsInStep == AttachSpec => []PTYFollowsFields
<1>1. AttachInv => PTYFollowsFields
  BY DEF AttachInv, SizeInv, PTYFollowsFields, Quiet, Resizes
<1> QED
  BY <1>1, AttachInvariant, PTL

(* A client at rest that no resize left behind shows the terminal at its size.     *)
THEOREM ClientIsInStep == AttachSpec => []ClientFollowsHost
<1>1. AttachInv => ClientFollowsHost
  BY DEF AttachInv, TypeInv, EmuInv, Shows, ClientFollowsHost
<1> QED
  BY <1>1, AttachInvariant, PTL

(* A client reports the exit code of the task it attached to or of a later one.    *)
THEOREM ExitCodeIsNotStale == AttachSpec => []ExitCodeIsOfSeenTask
<1>1. AttachInv => ExitCodeIsOfSeenTask
  BY DEF AttachInv, ExitInv, ExitCodeIsOfSeenTask
<1> QED
  BY <1>1, AttachInvariant, PTL
=============================================================================
