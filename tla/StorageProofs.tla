---------------------------- MODULE StorageProofs ----------------------------
(***************************************************************************)
(* The transfers of the storage stack, for every number of drives, every   *)
(* content of them, every size of the window and every number of polls.    *)
(*                                                                         *)
(* Data may move long after the call that asked for it has given up, so    *)
(* the inductive invariant IInv speaks of the command in every slot, not   *)
(* only of the call in progress.                                           *)
(*   Inv       a write that sits in a slot was checked against the         *)
(*             partition, which no longer changes once it is mounted;      *)
(*   Typed     the slot of a call that waits holds that call's command;    *)
(*   Faithful  no other drive has a command while a call that began alone  *)
(*             is under way, so what it moved so far is right;             *)
(*   Booted    until the first request a command is one sector, and the    *)
(*             window holds what was asked for or late IDENTIFY data.      *)
(* So a command in flight is not replaced, a transfer that began alone is  *)
(* faithful, late data passes neither for a table nor for a superblock,    *)
(* and nothing outside the mounted partition is written.                   *)
(***************************************************************************)
EXTENDS Storage, WellFoundedInduction, TLAPS

XShape == DOMAIN x = {"at", "port", "op", "lba", "n", "data", "polls", "ok", "clean"}

PortShape ==
  /\ DOMAIN port = Port
  /\ \A p \in Port : DOMAIN port[p] = {"ci", "busy", "tfes", "slot", "moved"}

MediaShape ==
  /\ DOMAIN media = Port
  /\ \A p \in Port : DOMAIN media[p] = Offsets(Capacity[p])

\* n sectors from lba on of port p lie in the partition that is mounted.
Confined(p, lba, n) ==
  /\ mounted
  /\ p = disks[1].port
  /\ lba \in Int /\ n \in Int
  /\ part.start <= lba
  /\ lba + n <= part.last + 1

CallConfined == x.at # "out" /\ x.op = "write" => Confined(x.port, x.lba, x.n)

SlotsConfined ==
  \A p \in Port : port[p].slot.op = "write" => Confined(p, port[p].slot.lba, port[p].slot.n)

Settled == mounted => pc = "idle"

\* What PartitionConfined needs: the shape of the state, and every write confined.
Inv == XShape /\ PortShape /\ MediaShape /\ Settled /\ CallConfined /\ SlotsConfined

-----------------------------------------------------------------------------
(* Types, and the tie between a call that waits and the slot it waits for. *)

CallTyped ==
  /\ x.at \in {"out", "ready", "slot", "wait", "status"}
  /\ x.polls \in 0 .. XFER_SPINS - 1
  /\ x.at # "out" => x.port \in Port /\ x.lba \in Nat /\ x.n \in 1 .. WindowSectors

SlotsTyped ==
  \A p \in Port :
    /\ port[p].ci \in BOOLEAN /\ port[p].busy \in BOOLEAN /\ port[p].tfes \in BOOLEAN
    /\ port[p].busy => port[p].ci
    /\ port[p].slot.lba \in Nat /\ port[p].slot.n \in Nat
    /\ port[p].moved \in 0 .. port[p].slot.n

WindowShape == DOMAIN window = Offsets(WindowSectors)

\* Once issued, the slot holds the call's command, and a command that is over and has
\* not failed has moved all its sectors.
SlotIsCall ==
  x.at \in {"wait", "status"} =>
    /\ port[x.port].slot = [op |-> x.op, lba |-> x.lba, n |-> x.n]
    /\ ~port[x.port].ci /\ ~port[x.port].tfes /\ Moves(port[x.port].slot)
         => port[x.port].moved = x.n
    /\ x.at = "status" => ~port[x.port].ci

Typed == CallTyped /\ SlotsTyped /\ WindowShape /\ SlotIsCall

-----------------------------------------------------------------------------
(* A call that began with no command in flight stays alone with the window. *)

Alone ==
  x.clean =>
    /\ x.at \in {"ready", "slot"} => \A q \in Port : ~port[q].ci
    /\ x.at \in {"wait", "status"} => \A q \in Port : port[q].ci => q = x.port
    /\ x.at = "out" /\ x.ok => \A q \in Port : ~port[q].ci

\* The sectors that the drive has moved so far are the right ones.
MovedRight ==
  x.clean /\ x.at # "out" =>
    /\ x.op = "write" => \A i \in Offsets(x.n) : window[i] = x.data[i + 1]
    /\ x.at \in {"wait", "status"} =>
         \A i \in Offsets(port[x.port].moved) :
           /\ x.op = "read" => window[i] = media[x.port][x.lba + i]
           /\ x.op = "write" => media[x.port][x.lba + i] = x.data[i + 1]

Faithful == Alone /\ MovedRight /\ TransfersFaithful

-----------------------------------------------------------------------------
(* The boot sequence: what it reads, and what it believes. *)

FirstPort == disks[1].port

\* A value that a transfer of the boot sequence may find in the window: the sector it
\* asked for, or the IDENTIFY data of a command that another call gave up on.
Found(v) ==
  \/ \E q \in Port : v = IdentifyData(q)
  \/ x.op = "read" /\ x.lba < Capacity[x.port] /\ v = media[x.port][x.lba]

\* Until the file system's first request nothing is written and a command is one sector.
BootData ==
  requests = 0 =>
    /\ media \in Layouts
    /\ x.op # "write"
    /\ x.at # "out" => x.n = 1
    /\ \A q \in Port : port[q].slot.op # "write" /\ port[q].slot.n <= 1
    /\ x.at \in {"wait", "status"} /\ port[x.port].moved = 1 => Found(window[0])
    /\ x.at = "out" /\ x.ok /\ x.op \in {"read", "identify"} => Found(x.data[1])

\* Sectors move only to and from the first disk, and not before the disks are known.
OneDisk ==
  /\ x.at # "out" /\ x.op \in {"read", "write"} => disks # <<>> /\ x.port = FirstPort
  /\ \A q \in Port :
       port[q].slot.op \in {"read", "write"} => disks # <<>> /\ q = FirstPort
  /\ pc \in {"enumerate", "identify"} =>
       \A q \in Port : port[q].slot.op \notin {"read", "write"}

\* The call in progress, or its result, is a read of sector lba of the first disk.
Reading(lba) ==
  x.at # "out" \/ x.ok => x.op = "read" /\ x.port = FirstPort /\ x.lba = lba

\* Where a call may be in progress, and which.
Stage ==
  /\ pc \in {"enumerate", "identify", "header", "detect", "entries", "mount", "read_super",
             "super", "idle", "panic"}
  /\ pc \in {"enumerate", "detect", "mount", "read_super", "panic"} => x.at = "out"
  /\ pc = "idle" /\ requests = 0 => x.at = "out"
  /\ requests \in Nat /\ (requests # 0 => mounted)
  /\ mounted \in BOOLEAN
  /\ ports \subseteq Port
  /\ disks \in Seq([port : Port, sectors : Nat])
  /\ pc = "identify" => x.port \in Port /\ (x.at # "out" \/ x.ok => x.op = "identify")
  /\ pc \in {"header", "detect", "entries"} => disks # <<>>
  /\ pc = "header" => Reading(1)
  /\ pc = "entries" => Reading(scan.header[4] + scan.next)
  /\ pc = "super" => Reading(part.start)

\* What gpt::detect has collected: the header, and sectors of the array, right or IDENTIFY
\* data that arrived late.
Collected ==
  /\ DOMAIN scan = {"header", "next", "sectors"}
  /\ pc \in {"detect", "entries"} =>
       LET h == scan.header IN
       /\ 1 < Capacity[FirstPort] /\ h = media[FirstPort][1] /\ HeaderOk(h)
       /\ scan.next \in Nat
       /\ scan.next <= Len(h[5])
       /\ pc = "entries" => scan.next < Len(h[5])
       /\ scan.sectors \in Seq(UNION {{media[FirstPort][s] : s \in Offsets(Capacity[FirstPort])},
                                      {IdentifyData(q) : q \in Port}})
       /\ Len(scan.sectors) = scan.next
       /\ \A k \in 1 .. scan.next :
            \/ /\ h[4] + k - 1 < Capacity[FirstPort]
               /\ scan.sectors[k] = media[FirstPort][h[4] + k - 1]
            \/ \E q \in Port : scan.sectors[k] = IdentifyData(q)
  /\ pc \in {"mount", "read_super", "super"} => scan.next \in Nat

PartRecord == [linux : BOOLEAN, start : Nat, last : Nat]

\* No partition of a table covers the table itself, as the partitioning tools see to.
TablesApart ==
  \A m \in Layouts : \A p \in Port :
    LET h == m[p][1] IN
    1 < Capacity[p] /\ HeaderOk(h) =>
      \A i \in DOMAIN Partitions(h[5]) :
        LET e == Partitions(h[5])[i] IN
        /\ 1 \notin e.start .. e.last
        /\ \A k \in 1 .. Len(h[5]) : h[4] + k - 1 \notin e.start .. e.last

\* The table on the first disk is the one it was laid out with, and it is what was published.
TableRight ==
  /\ 1 < Capacity[FirstPort]
  /\ \E m \in Layouts : media[FirstPort][1] = m[FirstPort][1]
  /\ HeaderOk(media[FirstPort][1])
  /\ \A k \in 1 .. Len(media[FirstPort][1][5]) : media[FirstPort][1][4] + k - 1 < Capacity[FirstPort]
  /\ TableOn(FirstPort) = media[FirstPort][1][5]
  /\ gpt.parts = Partitions(TableOn(FirstPort))

\* What is published and mounted.
Published ==
  /\ pc \in {"mount", "read_super", "super"} \/ mounted => gpt.parsed
  /\ gpt.parsed => disks # <<>> /\ gpt.parts \in Seq(PartRecord)
                    /\ pc \in {"mount", "read_super", "super", "idle"}
  /\ gpt.parsed /\ (requests = 0 \/ TablesApart) => TableRight
  /\ pc \in {"read_super", "super"} \/ mounted =>
       part.linux /\ \E i \in DOMAIN gpt.parts : gpt.parts[i] = part
  /\ PartTyped
  /\ mounted /\ requests = 0 => media[FirstPort][part.start] = <<"ext4", TRUE>>

Booted == BootData /\ OneDisk /\ Stage /\ Collected /\ Published

IInv == Inv /\ Typed /\ Faithful /\ Booted

-----------------------------------------------------------------------------
\* The invariant holds when the kernel starts: no drive has a command.
LEMMA InitInv == Init => Inv
BY LayoutAssumption
   DEF Init, Inv, XShape, PortShape, MediaShape, Settled, CallConfined,
       SlotsConfined, NoXfer, QuietPort, NoCommand
-----------------------------------------------------------------------------
(* Steps *)

Frame == UNCHANGED <<mounted, disks, part>>

\* What is confined stays so as long as the partition and the disks do.
LEMMA ConfinedKept ==
  ASSUME Frame, NEW p, NEW lba, NEW n, Confined(p, lba, n)
  PROVE  Confined(p, lba, n)'
BY Zenon DEF Frame, Confined

\* Entering xfer keeps the invariant if a write is confined.
LEMMA EnterInv ==
  ASSUME Inv, Frame, Settled', NEW p, NEW op, NEW lba, NEW n, NEW data,
         XferEnter(p, op, lba, n, data), op = "write" => Confined(p, lba, n)
  PROVE  Inv'
<1>1. XShape' BY Zenon DEF XferEnter, XShape
<1>2. PortShape' /\ MediaShape'
  BY Zenon DEF Inv, XferEnter, PortShape, MediaShape
<1>3. CallConfined'
  BY Zenon DEF Inv, XferEnter, CallConfined, Confined, Frame
<1>4. SlotsConfined'
  BY Zenon DEF Inv, XferEnter, SlotsConfined, Confined, Frame
<1> QED BY <1>1, <1>2, <1>3, <1>4, Zenon DEF Inv

\* A call that is refused before xfer keeps it too.
LEMMA RefusedInv ==
  ASSUME Inv, Frame, Settled', NEW op, x' = [NoXfer EXCEPT !.op = op],
         UNCHANGED <<media, window, port>>
  PROVE  Inv'
<1>1. XShape' /\ x'.at = "out" BY Zenon DEF XShape, NoXfer
<1>2. PortShape' /\ MediaShape'
  BY Zenon DEF Inv, PortShape, MediaShape
<1>3. CallConfined' BY <1>1, Zenon DEF CallConfined
<1>4. SlotsConfined' BY Zenon DEF Inv, SlotsConfined, Confined, Frame
<1> QED BY <1>1, <1>2, <1>3, <1>4, Zenon DEF Inv

\* ahci::read, write and flush keep it if a write is confined.
LEMMA AhciCallInv ==
  ASSUME Inv, Frame, Settled', NEW op, NEW d, NEW lba, NEW n, NEW data,
         AhciCall(op, d, lba, n, data),
         op = "write" /\ d \in DOMAIN disks => Confined(disks[d].port, lba, n)
  PROVE  Inv'
BY EnterInv, RefusedInv, Zenon DEF AhciCall

\* As long as nothing is mounted no command is a write.
LEMMA BootHasNoWrites ==
  ASSUME Inv, pc # "idle"
  PROVE  /\ ~mounted
         /\ x.at # "out" => x.op # "write"
         /\ \A p \in Port : port[p].slot.op # "write"
BY Zenon DEF Inv, Settled, CallConfined, SlotsConfined, Confined

\* A step of the boot sequence that makes no call keeps it.
LEMMA BootInv ==
  ASSUME Inv, pc # "idle", UNCHANGED ahciVars, Settled'
  PROVE  Inv'
<1>1. /\ x.at # "out" => x.op # "write"
      /\ \A p \in Port : port[p].slot.op # "write"
  BY BootHasNoWrites, Zenon
<1>2. XShape' /\ PortShape' /\ MediaShape'
  BY Zenon DEF Inv, XShape, PortShape, MediaShape, ahciVars
<1>3. CallConfined' /\ SlotsConfined'
  BY <1>1, Zenon DEF CallConfined, SlotsConfined, ahciVars
<1> QED BY <1>2, <1>3, Zenon DEF Inv

\* The steps of xfer after its entry keep it: a slot gets what the call was checked for.
LEMMA XferInv ==
  ASSUME Inv, XferStep, UNCHANGED <<bootVars, pc>>
  PROVE  Inv'
<1> USE DEF Inv
<1>0. Frame /\ Settled' /\ MediaShape'
  BY Zenon DEF Frame, bootVars, Settled, MediaShape, XferStep, XferReady, XferIssue, XferWait, XferStatus
<1>1. CASE UNCHANGED port /\ (x'.at # "out" => x.at # "out") /\ XShape'
           /\ x'.op = x.op /\ x'.port = x.port /\ x'.lba = x.lba /\ x'.n = x.n
  <2>1. PortShape' BY <1>1, Zenon DEF PortShape
  <2>2. CallConfined' BY <1>0, <1>1, Zenon DEF CallConfined, Confined, Frame
  <2>3. SlotsConfined' BY <1>0, <1>1, Zenon DEF SlotsConfined, Confined, Frame
  <2> QED BY <1>0, <1>1, <2>1, <2>2, <2>3, Zenon
<1>2. ASSUME NEW clear, NEW label, Poll(clear, label), UNCHANGED port, x.at # "out"
      PROVE  Inv'
  BY <1>2, <1>1, Zenon DEF Poll, XferFails, XShape
<1>3. CASE XferReady BY <1>3, <1>2, Zenon DEF XferReady
<1>4. CASE XferWait BY <1>4, <1>2, Zenon DEF XferWait, PollCompletion
<1>5. CASE XferStatus BY <1>5, <1>1, Zenon DEF XferStatus, XferFails, XShape
<1>6. CASE XferIssue
  <2>1. CASE ~SlotFree(x.port) BY <1>6, <2>1, <1>1, Zenon DEF XferIssue, XferFails, XShape
  <2>2. CASE SlotFree(x.port)
    <3>1. /\ x.at = "slot"
          /\ x' = [x EXCEPT !.at = "wait"]
          /\ port' = [port EXCEPT ![x.port] =
                        [@ EXCEPT !.ci = TRUE, !.tfes = FALSE, !.moved = 0,
                                  !.slot = [op |-> x.op, lba |-> x.lba, n |-> x.n]]]
      BY <1>6, <2>2, Zenon DEF XferIssue
    <3>2. XShape' /\ x'.op = x.op /\ x'.port = x.port /\ x'.lba = x.lba /\ x'.n = x.n
      BY <3>1, Zenon DEF XShape
    <3>3. PortShape' BY <3>1, Zenon DEF PortShape
    <3>4. CallConfined' BY <3>1, <3>2, <1>0, Zenon DEF CallConfined, Confined, Frame
    <3>5. ASSUME NEW p \in Port, port'[p].slot.op = "write"
          PROVE  Confined(p, port'[p].slot.lba, port'[p].slot.n)
      <4>1. CASE p = x.port
        <5>1. port'[p].slot = [op |-> x.op, lba |-> x.lba, n |-> x.n]
          BY <3>1, <4>1, Zenon DEF PortShape
        <5> QED BY <3>1, <3>5, <4>1, <5>1 DEF CallConfined
      <4>2. CASE p # x.port
        BY <3>1, <3>5, <4>2, Zenon DEF PortShape, SlotsConfined
      <4> QED BY <4>1, <4>2, Zenon
    <3>6. SlotsConfined' BY <3>5, <1>0, Zenon DEF SlotsConfined, Confined, Frame
    <3> QED BY <1>0, <3>2, <3>3, <3>4, <3>6, Zenon
  <2> QED BY <2>1, <2>2, Zenon
<1> QED BY <1>3, <1>4, <1>5, <1>6, Zenon DEF XferStep

\* The steps of a drive leave its slot alone.
LEMMA DeviceInv ==
  ASSUME Inv, NEW p \in Port, Device(p), UNCHANGED <<bootVars, pc>>
  PROVE  Inv'
<1> USE DEF Inv
<1>1. Frame /\ Settled' /\ x' = x
  BY Zenon DEF Frame, bootVars, Settled, Device, DevAccept, DevMove, DevComplete, DevFail
<1>2. XShape' /\ CallConfined' BY <1>1, Zenon DEF XShape, CallConfined, Confined, Frame
<1>3. /\ PortShape'
      /\ \A q \in Port : port'[q].slot = port[q].slot
  <2>1. CASE DevAccept(p) BY <2>1, Zenon DEF DevAccept, PortShape
  <2>2. CASE DevMove(p) BY <2>2, Zenon DEF DevMove, PortShape
  <2>3. CASE DevComplete(p) BY <2>3, Zenon DEF DevComplete, PortShape
  <2>4. CASE DevFail(p) BY <2>4 DEF DevFail, PortShape
  <2> QED BY <2>1, <2>2, <2>3, <2>4, Zenon DEF Device
<1>4. SlotsConfined' BY <1>1, <1>3, Zenon DEF SlotsConfined, Confined, Frame
<1>5. MediaShape'
  <2>1. CASE UNCHANGED media BY <2>1, Zenon DEF MediaShape
  <2>2. CASE \E i, v : media' = [media EXCEPT ![p][i] = v] BY <2>2, Zenon DEF MediaShape
  <2> QED BY <2>1, <2>2, Zenon DEF Device, DevAccept, DevMove, DevComplete, DevFail
<1> QED BY <1>1, <1>2, <1>3, <1>4, <1>5, Zenon

\* A range that GptPartition accepts is confined.
LEMMA InPartitionConfined ==
  ASSUME mounted, PartTyped, NEW lba \in Nat, NEW n \in Nat, InPartition(lba, n)
  PROVE  Confined(disks[1].port, part.start + lba, n)
BY DEF PartTyped, InPartition, BlockCount, Confined

\* A request of the file system keeps the invariant: its writes are checked.
LEMMA RequestInv ==
  ASSUME Inv, PartTyped, Request
  PROVE  Inv'
<1>1. Frame /\ Settled' /\ mounted BY Zenon DEF Request, Frame, Inv, Settled
<1>2. PICK lba \in 0 .. BlockCount, n \in 1 .. WindowSectors :
        \/ BlockCall("read", lba, n, <<>>)
        \/ \E v \in Payload : BlockCall("write", lba, n, [i \in 1 .. n |-> <<"data", v, i>>])
        \/ AhciCall("flush", 1, 0, 1, <<>>)
  BY Zenon DEF Request
<1>3. lba \in Nat /\ n \in Nat
  BY AhciAssumption DEF PartTyped, BlockCount, AhciAssumption
<1>4. ASSUME NEW op, NEW data, BlockCall(op, lba, n, data)
      PROVE  Inv'
  <2>1. CASE InPartition(lba, n) /\ AhciCall(op, 1, part.start + lba, n, data)
    <3>1. Confined(disks[1].port, part.start + lba, n)
      BY <1>1, <1>3, <2>1, InPartitionConfined, Zenon
    <3> QED BY <1>1, <2>1, <3>1, AhciCallInv, Zenon
  <2>2. CASE x' = [NoXfer EXCEPT !.op = op] /\ UNCHANGED <<media, window, port>>
    BY <1>1, <2>2, RefusedInv, Zenon
  <2> QED BY <1>4, <2>1, <2>2, Zenon DEF BlockCall
<1>5. CASE AhciCall("flush", 1, 0, 1, <<>>)
  <2>1. "flush" # "write" BY Zenon
  <2> QED BY <1>1, <1>5, <2>1, AhciCallInv, Zenon
<1> QED BY <1>2, <1>4, <1>5, Zenon

\* A call of the boot sequence is never a write.
LEMMA BootCallInv ==
  ASSUME Inv, Frame, pc # "idle", NEW op, op # "write", NEW lba, NEW n,
         \/ AhciCall(op, 1, lba, n, <<>>)
         \/ BlockCall(op, lba, n, <<>>)
         \/ \E p : XferEnter(p, op, lba, n, <<>>)
  PROVE  Inv'
<1>1. Settled' BY BootHasNoWrites, Zenon DEF Frame, Settled
<1>2. CASE AhciCall(op, 1, lba, n, <<>>) BY <1>1, <1>2, AhciCallInv, Zenon
<1>3. CASE BlockCall(op, lba, n, <<>>)
  <2>1. CASE AhciCall(op, 1, part.start + lba, n, <<>>) BY <1>1, <2>1, AhciCallInv, Zenon
  <2>2. CASE x' = [NoXfer EXCEPT !.op = op] /\ UNCHANGED <<media, window, port>>
    BY <1>1, <2>2, RefusedInv, Zenon
  <2> QED BY <1>3, <2>1, <2>2, Zenon DEF BlockCall
<1>4. CASE \E p : XferEnter(p, op, lba, n, <<>>) BY <1>1, <1>4, EnterInv, Zenon
<1> QED BY <1>2, <1>3, <1>4, Zenon

\* The steps of the boot sequence keep the invariant.
LEMMA BootStepInv ==
  ASSUME Inv,
         \/ PortInit \/ Identified
         \/ FsInit \/ DetectHeader \/ DetectRead \/ DetectEntries \/ DetectPublish
         \/ TryPartition \/ ReadSuper \/ Mount \/ NothingMounted
  PROVE  Inv'
<1>0. pc # "idle"
  BY Zenon DEF PortInit, Identified, FsInit, DetectHeader, DetectRead, DetectEntries, DetectPublish,
         TryPartition, ReadSuper, Mount, NothingMounted, Running
<1>1. ~mounted BY <1>0, BootHasNoWrites, Zenon
<1>2. ASSUME UNCHANGED ahciVars, mounted' => pc' = "idle" PROVE Inv'
  BY <1>0, <1>2, BootInv, Zenon DEF Settled
<1>3. CASE PortInit
  <2>1. Frame BY <1>3, Zenon DEF PortInit, Frame
  <2>2. CASE UNCHANGED ahciVars BY <1>1, <1>2, <2>1, <2>2, Zenon DEF Frame
  <2>3. CASE XferEnter(NextPort, "identify", 0, 1, <<>>) BY <1>0, <2>1, <2>3, BootCallInv, Zenon
  <2> QED BY <1>3, <2>2, <2>3, Zenon DEF PortInit
<1>4. CASE Identified BY <1>1, <1>2, <1>4, Zenon DEF Identified
<1>5. CASE FsInit
  <2>1. Frame BY <1>5, Zenon DEF FsInit, Frame, bootVars
  <2>2. CASE UNCHANGED ahciVars BY <1>1, <1>2, <2>1, <2>2, Zenon DEF Frame
  <2>3. CASE AhciCall("read", 1, 1, 1, <<>>) BY <1>0, <2>1, <2>3, BootCallInv, Zenon
  <2> QED BY <1>5, <2>2, <2>3, Zenon DEF FsInit
<1>6. CASE DetectHeader BY <1>1, <1>2, <1>6, Zenon DEF DetectHeader
<1>7. CASE DetectRead
  <2>1. Frame BY <1>7, Zenon DEF DetectRead, Frame, bootVars
  <2> QED BY <1>0, <1>7, <2>1, BootCallInv, Zenon DEF DetectRead
<1>8. CASE DetectEntries BY <1>1, <1>2, <1>8, Zenon DEF DetectEntries
<1>9. CASE DetectPublish BY <1>1, <1>2, <1>9, Zenon DEF DetectPublish
<1>10. CASE TryPartition BY <1>1, <1>2, <1>10, Zenon DEF TryPartition
<1>11. CASE ReadSuper
  <2>1. Frame BY <1>11, Zenon DEF ReadSuper, Frame, bootVars
  <2> QED BY <1>0, <1>11, <2>1, BootCallInv, Zenon DEF ReadSuper
<1>12. CASE Mount BY <1>2, <1>12, Zenon DEF Mount, Goto
<1>13. CASE NothingMounted BY <1>1, <1>2, <1>13, Zenon DEF NothingMounted, bootVars
<1> QED
  BY <1>3, <1>4, <1>5, <1>6, <1>7, <1>8, <1>9, <1>10, <1>11, <1>12, <1>13, Zenon

\* Every step keeps the invariant.
LEMMA NextInv ==
  ASSUME Inv, PartTyped, [Next]_vars
  PROVE  Inv'
<1>1. CASE XferStep /\ UNCHANGED <<bootVars, pc>> BY <1>1, XferInv, Zenon
<1>2. CASE Request BY <1>2, RequestInv, Zenon
<1>3. CASE \E p \in Port : Device(p) /\ UNCHANGED <<bootVars, pc>> BY <1>3, DeviceInv, Zenon
<1>4. CASE UNCHANGED vars
  BY <1>4, Zenon DEF vars, ahciVars, bootVars, Inv, XShape, PortShape, MediaShape, Settled,
              CallConfined, SlotsConfined, Confined
<1> QED BY <1>1, <1>2, <1>3, <1>4, BootStepInv, Zenon DEF Next, Kernel

-----------------------------------------------------------------------------
(* What the steps of a call and of a drive do *)

\* xfer waits, fails, or goes one step on; it writes a slot only when it issues its command.
LEMMA XferSteps ==
  ASSUME XShape, PortShape, CallTyped, XferStep
  PROVE  /\ x.at # "out" /\ XShape' /\ PortShape' /\ CallTyped'
         /\ UNCHANGED <<media, window>>
         /\ x'.op = x.op /\ x'.port = x.port /\ x'.lba = x.lba /\ x'.n = x.n
         /\ x'.clean = x.clean
         /\ \/ UNCHANGED port /\ x'.at = x.at /\ x'.data = x.data
            \/ UNCHANGED port /\ x'.at = "out" /\ ~x'.ok
            \/ UNCHANGED port /\ x.at = "ready" /\ x'.at = "slot" /\ x'.data = x.data
            \/ /\ x.at = "slot" /\ x'.at = "wait" /\ x'.data = x.data /\ ~port[x.port].ci
               /\ port' = [port EXCEPT ![x.port] =
                             [@ EXCEPT !.ci = TRUE, !.tfes = FALSE, !.moved = 0,
                                       !.slot = [op |-> x.op, lba |-> x.lba, n |-> x.n]]]
            \/ /\ UNCHANGED port /\ x.at = "wait" /\ x'.at = "status" /\ x'.data = x.data
               /\ ~port[x.port].ci
            \/ /\ UNCHANGED port /\ x.at = "status" /\ x'.at = "out" /\ ~port[x.port].tfes
               /\ x'.data = IF x.op = "write" THEN x.data
                            ELSE [i \in 1 .. x.n |-> window[i - 1]]
<1> USE AhciAssumption DEF AhciAssumption, XShape, CallTyped
<1>1. ASSUME NEW clear, NEW label \in {"slot", "status"}, Poll(clear, label), x.at # "out"
      PROVE  /\ XShape' /\ CallTyped'
             /\ x'.op = x.op /\ x'.port = x.port /\ x'.lba = x.lba /\ x'.n = x.n
             /\ x'.clean = x.clean /\ x'.data = x.data
             /\ \/ x'.at = x.at
                \/ x'.at = "out" /\ ~x'.ok
                \/ clear /\ x'.at = label
  <2>1. CASE clear /\ x' = [x EXCEPT !.at = label, !.polls = 0] BY <1>1, <2>1
  <2>2. CASE x.polls + 1 < XFER_SPINS /\ x' = [x EXCEPT !.polls = @ + 1] BY <1>1, <2>2
  <2>3. CASE x' = [x EXCEPT !.at = "out", !.ok = FALSE] BY <1>1, <2>3, Zenon
  <2> QED BY <1>1, <2>1, <2>2, <2>3, Zenon DEF Poll, XferFails
<1>2. CASE XferReady BY <1>1, <1>2, Zenon DEF XferReady, PortShape
<1>3. CASE XferWait BY <1>1, <1>3, Zenon DEF XferWait, PollCompletion, PortShape
<1>4. CASE XferStatus BY <1>4, Zenon DEF XferStatus, XferFails, Error, PortShape
<1>5. CASE XferIssue
  <2>1. CASE ~SlotFree(x.port) BY <1>5, <2>1, Zenon DEF XferIssue, XferFails, PortShape
  <2>2. CASE SlotFree(x.port) BY <1>5, <2>2, Zenon DEF XferIssue, SlotFree, PortShape
  <2> QED BY <2>1, <2>2, Zenon
<1> QED BY <1>2, <1>3, <1>4, <1>5, Zenon DEF XferStep

\* A drive moves a sector of the command in its slot, or changes only its own flags: it
\* never sets CI, and it clears it only when all sectors are moved or when it has failed.
LEMMA DeviceSteps ==
  ASSUME PortShape, MediaShape, SlotsTyped, WindowShape, NEW p \in Port, Device(p)
  PROVE  /\ x' = x /\ PortShape' /\ MediaShape' /\ SlotsTyped' /\ WindowShape'
         /\ \A q \in Port : port'[q].slot = port[q].slot /\ (port'[q].ci => port[q].ci)
         /\ \A q \in Port : q # p => port'[q] = port[q]
         /\ port[p].ci
         /\ ~port'[p].ci /\ ~port'[p].tfes /\ Moves(port[p].slot)
              => port'[p].moved = port[p].slot.n
         /\ \/ UNCHANGED <<media, window>> /\ port'[p].moved = port[p].moved
            \/ DevMove(p) /\ port'[p].ci /\ port'[p].moved = port[p].moved + 1
<1> USE DEF PortShape, SlotsTyped
<1>1. CASE DevAccept(p) BY <1>1, Zenon DEF DevAccept, MediaShape, WindowShape
<1>2. CASE DevMove(p)
  <2>1. port' = [port EXCEPT ![p].moved = @ + 1] /\ port[p].busy /\ port[p].moved < port[p].slot.n
        /\ x' = x
    BY <1>2, Zenon DEF DevMove
  <2>2. PortShape' /\ SlotsTyped' BY <2>1
  <2>3. MediaShape' /\ WindowShape' BY <1>2, Zenon DEF DevMove, MediaShape, WindowShape
  <2> QED BY <1>2, <2>1, <2>2, <2>3, Zenon
<1>3. CASE DevComplete(p) BY <1>3, Zenon DEF DevComplete, MediaShape, WindowShape
<1>4. CASE DevFail(p)
  <2>1. PICK ci \in BOOLEAN :
          port' = [port EXCEPT ![p].ci = ci, ![p].busy = FALSE, ![p].tfes = TRUE]
    BY <1>4, Zenon DEF DevFail
  <2> QED BY <1>4, <2>1 DEF DevFail, MediaShape, WindowShape
<1> QED BY <1>1, <1>2, <1>3, <1>4, Zenon DEF Device

\* Every nonempty set of naturals has a least element, which Min picks.
LEMMA MinInSet ==
  ASSUME NEW S, S \subseteq Nat, S # {}
  PROVE  Min(S) \in S
<1>1. PICK m \in S : \A y \in S : ~(<<y, m>> \in OpToRel(<, Nat))
  BY NatLessThanWellFounded, WFMin, Zenon
<1>2. OpToRel(<, Nat) = {ss \in Nat \X Nat : ss[1] < ss[2]} BY Zenon DEF OpToRel
<1>3. ASSUME NEW y \in S PROVE m <= y
  <2>1. <<y, m>> \notin {ss \in Nat \X Nat : ss[1] < ss[2]} BY <1>1, <1>2, Zenon
  <2>2. <<y, m>> \in Nat \X Nat /\ y \in Nat /\ m \in Nat BY Zenon
  <2> QED BY <2>1, <2>2
<1> QED BY <1>3, Zenon DEF Min

\* The kernel enters xfer for sector lba or later of a port with a drive.
Entered == \E p \in Port : \E lba \in Nat : \E o, n, data : XferEnter(p, o, lba, n, data)

\* A call is refused before xfer.
Refused ==
  /\ x.at = "out"
  /\ \E o : x' = [NoXfer EXCEPT !.op = o]
  /\ UNCHANGED <<media, window, port>>

\* The first disk is on a port with a drive.
LEMMA FirstDisk ==
  ASSUME Stage
  PROVE  /\ disks # <<>> => 1 \in DOMAIN disks
         /\ 1 \in DOMAIN disks => disks # <<>> /\ FirstPort \in Port
<1> DEFINE D == [port : Port, sectors : Nat]
<1>1. disks \in Seq(D) BY Zenon DEF Stage
<1>2. \A d \in D : d.port \in Port BY Zenon
<1> HIDE DEF D
<1>3. disks # <<>> <=> 1 \in DOMAIN disks BY <1>1
<1>4. 1 \in DOMAIN disks => disks[1] \in D BY <1>1
<1> QED BY <1>2, <1>3, <1>4, Zenon DEF FirstPort

\* A call of read, write or flush on the first disk enters xfer there or is refused.
LEMMA AhciCallKinds ==
  ASSUME Stage, x.at = "out", NEW o, NEW lba \in Nat, NEW n, NEW data,
         AhciCall(o, 1, lba, n, data)
  PROVE  Entered \/ Refused
<1>1. 1 \in DOMAIN disks => disks[1].port \in Port BY FirstDisk, Zenon DEF FirstPort
<1> QED BY <1>1, Zenon DEF AhciCall, Entered, Refused

\* The same for a call through the partition.
LEMMA BlockCallKinds ==
  ASSUME Stage, PartTyped, x.at = "out", NEW o, NEW lba \in Nat, NEW n, NEW data,
         BlockCall(o, lba, n, data)
  PROVE  Entered \/ Refused
<1>1. part.start + lba \in Nat BY DEF PartTyped
<1> QED BY <1>1, AhciCallKinds, Zenon DEF BlockCall, Refused

\* The header that gpt::detect works with is well formed.
LEMMA HeaderTyped ==
  ASSUME Booted, pc \in {"detect", "entries"}
  PROVE  /\ requests = 0 /\ media \in Layouts /\ FirstPort \in Port
         /\ 1 \in Offsets(Capacity[FirstPort])
         /\ scan.header = media[FirstPort][1]
         /\ scan.header[4] \in Nat /\ scan.next \in Nat
         /\ Len(EntryArray) \in Nat /\ DOMAIN EntryArray = 1 .. Len(EntryArray)
         /\ \A k \in DOMAIN EntryArray : EntryArray[k][1] = "entries"
         /\ Partitions(EntryArray) \in Seq(PartRecord)
<1>1. requests = 0
  BY Zenon DEF Booted, Stage, Published
<1>2. media \in Layouts BY <1>1, Zenon DEF Booted, BootData
<1>3. FirstPort \in Port BY FirstDisk, Zenon DEF Booted, Stage
<1>4. Capacity[FirstPort] \in Nat BY <1>3, AhciAssumption, Zenon DEF AhciAssumption
<1>5. 1 \in Offsets(Capacity[FirstPort]) BY <1>4 DEF Booted, Collected, Offsets
<1>6. scan.header = media[FirstPort][1] /\ HeaderOk(scan.header) /\ scan.next \in Nat
  BY Zenon DEF Booted, Collected
<1> QED BY <1>1, <1>2, <1>3, <1>5, <1>6, TableAssumption DEF TableAssumption, EntryArray, PartRecord

\* The kinds of steps that the call, the window and the drives can see.
LEMMA StepKinds ==
  ASSUME Booted, [Next]_vars
  PROVE  \/ UNCHANGED ahciVars
         \/ Refused
         \/ Entered
         \/ XferStep /\ UNCHANGED <<bootVars, pc>>
         \/ \E p \in Port : Device(p) /\ UNCHANGED <<bootVars, pc>>
<1> USE DEF Running
<1>0. Stage /\ PartTyped BY Zenon DEF Booted, Published
<1>1. CASE PortInit
  <2>1. CASE UNCHANGED ahciVars BY <2>1, Zenon
  <2>2. CASE XferEnter(NextPort, "identify", 0, 1, <<>>)
    <3>1. ports # {} /\ ports \subseteq Port BY <1>0, <1>1, Zenon DEF PortInit, Stage
    <3>2. NextPort \in Port BY <3>1, MinInSet, AhciAssumption, Zenon DEF NextPort, AhciAssumption
    <3> QED BY <2>2, <3>2, Zenon DEF Entered
  <2> QED BY <1>1, <2>1, <2>2, Zenon DEF PortInit, ahciVars
<1>2. CASE FsInit BY <1>0, <1>2, AhciCallKinds, Zenon DEF FsInit
<1>3. CASE DetectRead
  <2>1. scan.header[4] + scan.next \in Nat BY <1>3, HeaderTyped DEF DetectRead
  <2> QED BY <1>0, <1>3, <2>1, AhciCallKinds, Zenon DEF DetectRead
<1>4. CASE ReadSuper BY <1>0, <1>4, BlockCallKinds, Zenon DEF ReadSuper
<1>5. CASE Request
  <2>1. PICK lba \in 0 .. BlockCount, n \in 1 .. WindowSectors :
          \/ BlockCall("read", lba, n, <<>>)
          \/ \E v \in Payload : BlockCall("write", lba, n, [i \in 1 .. n |-> <<"data", v, i>>])
          \/ AhciCall("flush", 1, 0, 1, <<>>)
    BY <1>5, Zenon DEF Request
  <2>2. lba \in Nat BY <1>0 DEF PartTyped, BlockCount
  <2>3. x.at = "out" BY <1>5, Zenon DEF Request
  <2> QED BY <1>0, <2>1, <2>2, <2>3, AhciCallKinds, BlockCallKinds, Zenon
<1>6. CASE Identified \/ DetectHeader \/ DetectEntries \/ DetectPublish \/ TryPartition \/ Mount
           \/ NothingMounted \/ UNCHANGED vars
  BY <1>6, Zenon DEF Identified, DetectHeader, DetectEntries, DetectPublish, TryPartition, Mount,
              NothingMounted, vars, ahciVars
<1> QED BY <1>1, <1>2, <1>3, <1>4, <1>5, <1>6, Zenon DEF Next, Kernel

-----------------------------------------------------------------------------
(* Types, and the tie between a call and its slot *)

\* Every step keeps the types, and the slot of a call that waits its own.
LEMMA TypedKept ==
  ASSUME Inv, Typed, Booted, [Next]_vars
  PROVE  Typed'
<1>0. XShape /\ PortShape /\ MediaShape /\ CallTyped /\ SlotsTyped /\ WindowShape /\ SlotIsCall
  BY Zenon DEF Inv, Typed
<1>1. CASE UNCHANGED ahciVars
  BY <1>0, <1>1, Zenon DEF Typed, CallTyped, SlotsTyped, WindowShape, SlotIsCall, ahciVars
<1>2. CASE Refused
  <2>1. x'.at = "out" /\ x'.polls = 0 BY <1>2, Zenon DEF Refused, NoXfer
  <2>2. CallTyped' /\ SlotIsCall'
    BY <2>1, AhciAssumption DEF CallTyped, SlotIsCall, AhciAssumption
  <2> QED BY <1>0, <1>2, <2>2, Zenon DEF Refused, Typed, SlotsTyped, WindowShape
<1>3. CASE Entered
  <2>1. PICK p \in Port, lba \in Nat : \E o, n, data : XferEnter(p, o, lba, n, data)
    BY <1>3, Zenon DEF Entered
  <2>2. /\ x'.at = "ready" /\ x'.polls = 0 /\ x'.port = p /\ x'.lba = lba
        /\ x'.n \in 1 .. WindowSectors
        /\ DOMAIN window' = Offsets(WindowSectors) /\ UNCHANGED <<media, port>>
    BY <2>1 DEF XferEnter, Staged
  <2>3. CallTyped' /\ SlotIsCall'
    BY <2>2, AhciAssumption DEF CallTyped, SlotIsCall, AhciAssumption
  <2> QED BY <1>0, <2>2, <2>3, Zenon DEF Typed, SlotsTyped, WindowShape
<1>4. CASE XferStep
  <2>1. CallTyped' /\ WindowShape' BY <1>0, <1>4, XferSteps, Zenon DEF WindowShape
  <2>2. CASE UNCHANGED port /\ ~(x.at = "slot" /\ x'.at = "wait")
    <3>1. SlotsTyped' BY <1>0, <2>2, Zenon DEF SlotsTyped
    <3>2. /\ x'.op = x.op /\ x'.port = x.port /\ x'.lba = x.lba /\ x'.n = x.n
          /\ x'.at \in {"wait", "status"} => x.at \in {"wait", "status"}
          /\ x.at = "wait" /\ x'.at = "status" => ~port[x.port].ci
      BY <1>0, <1>4, <2>2, XferSteps, Zenon
    <3>3. SlotIsCall' BY <1>0, <2>1, <2>2, <3>2, Zenon DEF SlotIsCall, CallTyped
    <3> QED BY <2>1, <3>1, <3>3, Zenon DEF Typed
  <2>3. CASE x.at = "slot" /\ x'.at = "wait"
    <3>1. /\ x.at = "slot" /\ x'.at = "wait" /\ x'.port = x.port /\ x'.op = x.op
          /\ x'.lba = x.lba /\ x'.n = x.n /\ ~port[x.port].ci
          /\ port' = [port EXCEPT ![x.port] =
                        [@ EXCEPT !.ci = TRUE, !.tfes = FALSE, !.moved = 0,
                                  !.slot = [op |-> x.op, lba |-> x.lba, n |-> x.n]]]
      BY <1>0, <1>4, <2>3, XferSteps, Zenon
    <3>2. x.port \in Port /\ x.lba \in Nat /\ x.n \in Nat BY <1>0, <3>1 DEF CallTyped
    <3>3. ASSUME NEW q \in Port
          PROVE  /\ port'[q].ci \in BOOLEAN /\ port'[q].busy \in BOOLEAN
                 /\ port'[q].tfes \in BOOLEAN
                 /\ port'[q].busy => port'[q].ci
                 /\ port'[q].slot.lba \in Nat /\ port'[q].slot.n \in Nat
                 /\ port'[q].moved \in 0 .. port'[q].slot.n
      <4>1. CASE q = x.port
        <5>1. /\ port'[q].ci = TRUE /\ port'[q].tfes = FALSE /\ port'[q].busy = port[q].busy
              /\ port'[q].moved = 0 /\ port'[q].slot = [op |-> x.op, lba |-> x.lba, n |-> x.n]
          BY <1>0, <3>1, <4>1, Zenon DEF PortShape
        <5>2. port'[q].slot.lba \in Nat /\ port'[q].slot.n \in Nat BY <3>2, <5>1
        <5>3. port'[q].moved \in 0 .. port'[q].slot.n BY <5>1, <5>2
        <5>4. port[q].busy \in BOOLEAN BY <1>0, Zenon DEF SlotsTyped
        <5> QED BY <5>1, <5>2, <5>3, <5>4, Zenon
      <4>2. CASE q # x.port
        <5>1. port'[q] = port[q] BY <1>0, <3>1, <4>2, Zenon DEF PortShape
        <5> QED BY <1>0, <5>1, Zenon DEF SlotsTyped
      <4> QED BY <4>1, <4>2, Zenon
    <3>4. SlotIsCall' BY <1>0, <3>1, <3>2, Zenon DEF SlotIsCall, PortShape
    <3> QED BY <2>1, <3>3, <3>4, Zenon DEF Typed, SlotsTyped
  <2> QED BY <1>0, <1>4, <2>2, <2>3, XferSteps, Zenon
<1>5. ASSUME NEW p \in Port, Device(p) PROVE Typed'
  <2>1. /\ x' = x /\ SlotsTyped' /\ WindowShape'
        /\ \A q \in Port : port'[q].slot = port[q].slot /\ (port'[q].ci => port[q].ci)
        /\ \A q \in Port : q # p => port'[q] = port[q]
        /\ ~port'[p].ci /\ ~port'[p].tfes /\ Moves(port[p].slot)
             => port'[p].moved = port[p].slot.n
    BY <1>0, <1>5, DeviceSteps, Zenon
  <2>2. CallTyped' BY <1>0, <2>1, Zenon DEF CallTyped
  <2>3. SlotIsCall'
    <3>1. CASE x.at \in {"wait", "status"}
      <4>1. x.port \in Port BY <1>0, <3>1, Zenon DEF CallTyped
      <4> QED BY <1>0, <2>1, <3>1, <4>1 DEF SlotIsCall
    <3> QED BY <2>1, <3>1, Zenon DEF SlotIsCall
  <2> QED BY <2>1, <2>2, <2>3, Zenon DEF Typed
<1> QED BY <1>1, <1>2, <1>3, <1>4, <1>5, StepKinds, Zenon

-----------------------------------------------------------------------------
(* Faithful transfers *)

\* While a call that began alone is under way no other drive has a command, so nothing but
\* its own command touches the window or the sectors it moves.
LEMMA FaithfulKept ==
  ASSUME Inv, Typed, Faithful, Booted, [Next]_vars
  PROVE  Faithful'
<1>0. /\ XShape /\ PortShape /\ MediaShape /\ CallTyped /\ SlotsTyped /\ WindowShape /\ SlotIsCall
      /\ Alone /\ MovedRight /\ TransfersFaithful
  BY Zenon DEF Inv, Typed, Faithful
<1>1. CASE UNCHANGED ahciVars
  BY <1>0, <1>1, Zenon DEF Faithful, Alone, MovedRight, TransfersFaithful, ahciVars
<1>2. CASE Refused
  <2>1. x'.at = "out" /\ x'.ok = FALSE BY <1>2, Zenon DEF Refused, NoXfer
  <2> QED BY <2>1, Zenon DEF Faithful, Alone, MovedRight, TransfersFaithful
<1>3. CASE Entered
  <2>1. PICK p \in Port, lba \in Nat : \E o, n, data : XferEnter(p, o, lba, n, data)
    BY <1>3, Zenon DEF Entered
  <2>2. PICK o, n, data : XferEnter(p, o, lba, n, data) BY <2>1, Zenon
  <2>3. /\ x'.at = "ready" /\ x'.op = o /\ x'.n = n /\ x'.data = data /\ n \in 1 .. WindowSectors
        /\ x'.clean = (\A q \in Port : ~port[q].ci)
        /\ window' = Staged(o, n, data) /\ UNCHANGED <<media, port>>
    BY <2>2, Zenon DEF XferEnter
  <2>4. Alone' /\ TransfersFaithful' BY <2>3, Zenon DEF Alone, TransfersFaithful
  <2>5. o = "write" => \A i \in Offsets(n) : window'[i] = data[i + 1]
    BY <2>3, AhciAssumption DEF Staged, Offsets, AhciAssumption
  <2>6. MovedRight' BY <2>3, <2>5, Zenon DEF MovedRight
  <2> QED BY <2>4, <2>6, Zenon DEF Faithful
<1>4. CASE XferStep
  <2>1. /\ x.at # "out" /\ UNCHANGED <<media, window>>
        /\ x'.op = x.op /\ x'.port = x.port /\ x'.lba = x.lba /\ x'.n = x.n
        /\ x'.clean = x.clean /\ x.port \in Port /\ x.lba \in Nat /\ x.n \in Nat
    BY <1>0, <1>4, XferSteps DEF CallTyped
  <2>2. CASE UNCHANGED port /\ x'.at = x.at /\ x'.data = x.data
    BY <1>0, <2>1, <2>2 DEF Faithful, Alone, MovedRight, TransfersFaithful
  <2>3. CASE UNCHANGED port /\ x'.at = "out" /\ ~x'.ok
    BY <2>1, <2>3, Zenon DEF Faithful, Alone, MovedRight, TransfersFaithful
  <2>4. CASE UNCHANGED port /\ x.at = "ready" /\ x'.at = "slot" /\ x'.data = x.data
    <3>1. Alone' /\ TransfersFaithful' BY <1>0, <2>1, <2>4, Zenon DEF Alone, TransfersFaithful
    <3>2. MovedRight' BY <1>0, <2>1, <2>4 DEF MovedRight
    <3> QED BY <3>1, <3>2, Zenon DEF Faithful
  <2>5. CASE /\ x.at = "slot" /\ x'.at = "wait" /\ x'.data = x.data
             /\ port' = [port EXCEPT ![x.port] =
                           [@ EXCEPT !.ci = TRUE, !.tfes = FALSE, !.moved = 0,
                                     !.slot = [op |-> x.op, lba |-> x.lba, n |-> x.n]]]
    <3>1. port'[x.port].moved = 0 /\ \A q \in Port : q # x.port => port'[q] = port[q]
      BY <1>0, <2>1, <2>5, Zenon DEF PortShape
    <3>2. Offsets(port'[x.port].moved) = {} BY <3>1 DEF Offsets
    <3>3. Alone' /\ TransfersFaithful' BY <1>0, <2>1, <2>5, <3>1, Zenon DEF Alone, TransfersFaithful
    <3>4. MovedRight' BY <1>0, <2>1, <2>5, <3>2 DEF MovedRight
    <3> QED BY <3>3, <3>4, Zenon DEF Faithful
  <2>6. CASE UNCHANGED port /\ x.at = "wait" /\ x'.at = "status" /\ x'.data = x.data
    BY <1>0, <2>1, <2>6 DEF Faithful, Alone, MovedRight, TransfersFaithful
  <2>7. CASE /\ UNCHANGED port /\ x.at = "status" /\ x'.at = "out" /\ ~port[x.port].tfes
             /\ x'.data = IF x.op = "write" THEN x.data ELSE [i \in 1 .. x.n |-> window[i - 1]]
    <3>1. ~port[x.port].ci BY <1>0, <2>7, Zenon DEF SlotIsCall
    <3>2. Alone' BY <1>0, <2>1, <2>7, <3>1, Zenon DEF Alone
    <3>3. x.op \in {"read", "write"} => port[x.port].moved = x.n
      BY <1>0, <2>7, <3>1 DEF SlotIsCall, Moves
    <3>4. ASSUME x.clean, x.op \in {"read", "write"}, NEW i \in 1 .. x.n
          PROVE  x'.data[i] = media[x.port][x.lba + i - 1]
      <4>1. i - 1 \in Offsets(port[x.port].moved) /\ (i - 1) + 1 = i
            /\ x.lba + (i - 1) = x.lba + i - 1
        BY <2>1, <3>3, <3>4 DEF Offsets
      <4>2. /\ x.op = "read" => window[i - 1] = media[x.port][x.lba + (i - 1)]
            /\ x.op = "write" => media[x.port][x.lba + (i - 1)] = x.data[(i - 1) + 1]
        BY <1>0, <2>7, <3>4, <4>1, Zenon DEF MovedRight
      <4> QED BY <2>7, <3>4, <4>1, <4>2, Zenon
    <3>5. TransfersFaithful' BY <2>1, <2>7, <3>4, Zenon DEF TransfersFaithful
    <3> QED BY <2>7, <3>2, <3>5, Zenon DEF Faithful, MovedRight
  <2> QED BY <1>0, <1>4, <2>2, <2>3, <2>4, <2>5, <2>6, <2>7, XferSteps, Zenon
<1>5. ASSUME NEW p \in Port, Device(p) PROVE Faithful'
  <2>1. /\ x' = x /\ port[p].ci
        /\ \A q \in Port : port'[q].slot = port[q].slot /\ (port'[q].ci => port[q].ci)
        /\ \/ UNCHANGED <<media, window>> /\ port'[p].moved = port[p].moved
           \/ DevMove(p) /\ port'[p].moved = port[p].moved + 1
    BY <1>0, <1>5, DeviceSteps, Zenon
  <2>2. Alone' BY <1>0, <2>1, Zenon DEF Alone
  <2>3. CASE ~x.clean \/ (x.at = "out" /\ ~x.ok)
    BY <2>1, <2>2, <2>3, Zenon DEF Faithful, MovedRight, TransfersFaithful
  <2>4. CASE x.clean /\ ~(x.at = "out" /\ ~x.ok)
    <3>1. x.at \in {"wait", "status"} /\ p = x.port BY <1>0, <2>1, <2>4, Zenon DEF Alone, CallTyped
    <3>2. TransfersFaithful' BY <2>1, <3>1, Zenon DEF TransfersFaithful
    <3>3. CASE UNCHANGED <<media, window>> /\ port'[p].moved = port[p].moved
      BY <1>0, <2>1, <2>2, <3>1, <3>2, <3>3, Zenon DEF Faithful, MovedRight
    <3>4. CASE DevMove(p) /\ port'[p].moved = port[p].moved + 1
      <4> DEFINE i == port[p].moved
                 lba == x.lba
      <4>1. /\ port[p].slot = [op |-> x.op, lba |-> x.lba, n |-> x.n]
            /\ x.lba \in Nat /\ x.n \in 1 .. WindowSectors /\ i \in Nat
        BY <1>0, <3>1 DEF SlotIsCall, CallTyped, SlotsTyped
      <4>2. /\ i < x.n /\ lba + i < Capacity[p]
            /\ x.op = "write" => media' = [media EXCEPT ![p][lba + i] = window[i]] /\ window' = window
            /\ x.op = "read" => window' = [window EXCEPT ![i] = media[p][lba + i]] /\ media' = media
        BY <3>4, <4>1 DEF DevMove
      <4>3. Capacity[p] \in Nat /\ WindowSectors \in Nat BY AhciAssumption, Zenon DEF AhciAssumption
      <4>4. port'[p].moved = i + 1 BY <3>4, Zenon
      <4>5. /\ x.op = "write" => \A j \in Offsets(x.n) : window[j] = x.data[j + 1]
            /\ \A j \in Offsets(i) :
                 /\ x.op = "read" => window[j] = media[p][lba + j]
                 /\ x.op = "write" => media[p][lba + j] = x.data[j + 1]
        BY <1>0, <2>4, <3>1, Zenon DEF MovedRight
      <4>6. i \in Offsets(WindowSectors) /\ lba + i \in Offsets(Capacity[p]) /\ i \in Offsets(x.n)
        BY <4>1, <4>2, <4>3 DEF Offsets
      <4>7. \A j \in Offsets(i + 1) : j = i \/ (j \in Offsets(i) /\ j # i /\ lba + j # lba + i)
        BY <4>1 DEF Offsets
      <4> HIDE DEF i, lba
      <4>8. CASE x.op = "read"
        <5>1. ASSUME NEW j \in Offsets(i + 1) PROVE window'[j] = media'[p][lba + j]
          <6>1. /\ DOMAIN window = Offsets(WindowSectors)
                /\ window' = [window EXCEPT ![i] = media[p][lba + i]] /\ media' = media
            BY <1>0, <4>2, <4>8, Zenon DEF WindowShape
          <6>2. CASE j = i BY <4>6, <6>1, <6>2, Zenon
          <6>3. CASE j # i BY <4>5, <4>7, <4>8, <6>1, <6>3
          <6> QED BY <6>2, <6>3, Zenon
        <5> QED BY <2>1, <2>2, <3>1, <3>2, <4>4, <4>8, <5>1, Zenon DEF Faithful, MovedRight, lba
      <4>9. CASE x.op = "write"
        <5>1. ASSUME NEW j \in Offsets(i + 1) PROVE media'[p][lba + j] = x.data[j + 1]
          <6>1. /\ DOMAIN media = Port /\ DOMAIN media[p] = Offsets(Capacity[p])
                /\ media' = [media EXCEPT ![p][lba + i] = window[i]]
            BY <1>0, <4>2, <4>9, Zenon DEF MediaShape
          <6>2. CASE j = i BY <4>5, <4>6, <4>9, <6>1, <6>2, Zenon
          <6>3. CASE j # i BY <4>5, <4>7, <4>9, <6>1, <6>3
          <6> QED BY <6>2, <6>3, Zenon
        <5> QED BY <2>1, <2>2, <3>1, <3>2, <4>2, <4>4, <4>5, <4>9, <5>1
                DEF Faithful, MovedRight, lba
      <4>10. CASE x.op \notin {"read", "write"}
        BY <2>1, <2>2, <3>1, <3>2, <4>10, Zenon DEF Faithful, MovedRight
      <4> QED BY <4>8, <4>9, <4>10, Zenon
    <3> QED BY <2>1, <3>3, <3>4, Zenon
  <2> QED BY <2>3, <2>4, Zenon
<1> QED BY <1>1, <1>2, <1>3, <1>4, <1>5, StepKinds, Zenon

-----------------------------------------------------------------------------
(* Writes *)

\* A step of the call in progress or of another part of the kernel moves no data to a drive.
LEMMA OnlyDrivesWrite ==
  ASSUME [Next]_vars, ~\E p \in Port : Device(p)
  PROVE  media' = media
<1>1. ASSUME NEW op, NEW d, NEW lba, NEW n, NEW data, AhciCall(op, d, lba, n, data)
      PROVE  media' = media
  BY <1>1, Zenon DEF AhciCall, XferEnter
<1>2. ASSUME NEW op, NEW lba, NEW n, NEW data, BlockCall(op, lba, n, data)
      PROVE  media' = media
  BY <1>1, <1>2, Zenon DEF BlockCall
<1>3. CASE XferStep BY <1>3, Zenon DEF XferStep, XferReady, XferIssue, XferWait, XferStatus
<1>4. CASE Request BY <1>4, <1>1, <1>2, Zenon DEF Request
<1>5. CASE PortInit BY <1>5, Zenon DEF PortInit, ahciVars, XferEnter
<1>6. CASE FsInit BY <1>6, <1>1, Zenon DEF FsInit, ahciVars
<1>7. CASE DetectRead BY <1>7, <1>1, Zenon DEF DetectRead
<1>8. CASE ReadSuper BY <1>8, <1>2, Zenon DEF ReadSuper
<1>9. CASE Identified \/ DetectHeader \/ DetectEntries \/ DetectPublish \/ TryPartition \/ Mount
           \/ NothingMounted \/ UNCHANGED vars
  BY <1>9, Zenon DEF Identified, DetectHeader, DetectEntries, DetectPublish, TryPartition, Mount,
              NothingMounted, vars, ahciVars
<1> QED BY <1>3, <1>4, <1>5, <1>6, <1>7, <1>8, <1>9, Zenon DEF Next, Kernel

\* What a drive writes lies where the command in its slot was checked to lie.
LEMMA DriveWritesConfined ==
  ASSUME Inv, SlotsTyped, PartTyped, NEW q \in Port, Device(q),
         NEW p \in Port, NEW s \in Offsets(Capacity[p]), media'[p][s] # media[p][s]
  PROVE  mounted /\ p = disks[1].port /\ s \in part.start .. part.last
<1>1. DevMove(q) BY Zenon DEF Device, DevAccept, DevComplete, DevFail
<1> DEFINE c == port[q].slot
           i == port[q].moved
<1>2. /\ i < c.n
      /\ c.op = "write"
      /\ media' = [media EXCEPT ![q][c.lba + i] = window[i]]
  BY <1>1, Zenon DEF DevMove
<1>3. p = q /\ s = c.lba + i BY <1>2, Zenon DEF Inv, MediaShape
<1>4. Confined(q, c.lba, c.n) /\ i \in Nat BY <1>2 DEF Inv, SlotsConfined, SlotsTyped
<1>5. s \in part.start .. part.last
  <2>1. /\ c.lba \in Int /\ c.n \in Int /\ part.start \in Int /\ part.last \in Int
        /\ part.start <= c.lba /\ c.lba + c.n <= part.last + 1
    BY <1>4 DEF Confined, PartTyped
  <2> HIDE DEF c, i
  <2> QED BY <1>2, <1>3, <1>4, <2>1
<1> QED BY <1>3, <1>4, <1>5, Zenon DEF Confined


-----------------------------------------------------------------------------
(* The boot sequence *)

\* Before the file system is mounted there is no request, no write and no other medium.
LEMMA BootFacts ==
  ASSUME Inv, Booted, pc # "idle"
  PROVE  /\ requests = 0 /\ ~mounted /\ media \in Layouts
         /\ x.at # "out" => x.op \in {"read", "identify"} /\ x.n = 1
         /\ \A q \in Port : port[q].slot.op # "write" /\ port[q].slot.n <= 1
<1>1. ~mounted BY Zenon DEF Inv, Settled
<1>2. requests = 0 BY <1>1, Zenon DEF Booted, Stage
<1>3. x.at # "out" => x.op \in {"read", "identify"} BY Zenon DEF Booted, Stage, Reading
<1> QED BY <1>1, <1>2, <1>3, Zenon DEF Booted, BootData

\* The steps of xfer keep what the boot sequence relies on.
LEMMA XferBooted ==
  ASSUME Inv, Typed, Booted, XferStep, UNCHANGED <<bootVars, pc>>
  PROVE  Booted'
<1>0. /\ XShape /\ PortShape /\ CallTyped /\ SlotIsCall
      /\ BootData /\ OneDisk /\ Stage /\ Collected /\ Published
  BY Zenon DEF Inv, Typed, Booted
<1>1. /\ x.at # "out" /\ UNCHANGED <<media, window>>
      /\ x'.op = x.op /\ x'.port = x.port /\ x'.lba = x.lba /\ x'.n = x.n
      /\ UNCHANGED <<ports, disks, gpt, scan, part, mounted, requests, pc>>
      /\ x.port \in Port
  BY <1>0, XferSteps, Zenon DEF bootVars, CallTyped
<1>2. Stage' BY <1>0, <1>1, Zenon DEF Stage, Reading, FirstPort
<1>3. Collected' BY <1>0, <1>1, Zenon DEF Collected, FirstPort
<1>4. Published' BY <1>0, <1>1, Zenon DEF Published, FirstPort, TableRight, TableOn, PartTyped
<1>5. \A v : Found(v)' <=> Found(v) BY <1>1, Zenon DEF Found
<1>6. \/ UNCHANGED port /\ ~(x'.at = "wait" /\ x.at = "slot")
      \/ /\ x.at = "slot" /\ x'.at = "wait"
         /\ \A q \in Port : q # x.port => port'[q] = port[q]
         /\ port'[x.port].slot = [op |-> x.op, lba |-> x.lba, n |-> x.n]
         /\ port'[x.port].moved = 0
  BY <1>0, <1>1, XferSteps, Zenon DEF PortShape
<1>7. OneDisk'
  <2>1. CASE UNCHANGED port BY <1>0, <1>1, <2>1, Zenon DEF OneDisk, FirstPort
  <2>2. CASE /\ x.at = "slot"
             /\ \A q \in Port : q # x.port => port'[q] = port[q]
             /\ port'[x.port].slot = [op |-> x.op, lba |-> x.lba, n |-> x.n]
    <3>1. port'[x.port].slot.op = x.op BY <2>2
    <3>2. pc \in {"enumerate", "identify"} => x.op = "identify" BY <1>0, <1>1, Zenon DEF Stage
    <3> QED BY <1>0, <1>1, <2>2, <3>1, <3>2, Zenon DEF OneDisk, FirstPort
  <2> QED BY <1>6, <2>1, <2>2, Zenon
<1>8. BootData'
  <2> SUFFICES ASSUME requests = 0 PROVE BootData'
    BY <1>1, Zenon DEF BootData
  <2>1. /\ media' \in Layouts /\ x'.op # "write" /\ x'.n = 1
        /\ \A q \in Port : port[q].slot.op # "write" /\ port[q].slot.n <= 1
    BY <1>0, <1>1, Zenon DEF BootData
  <2>2. \A q \in Port : port'[q].slot.op # "write" /\ port'[q].slot.n <= 1
    <3>1. CASE UNCHANGED port BY <2>1, <3>1, Zenon
    <3>2. CASE /\ \A q \in Port : q # x.port => port'[q] = port[q]
               /\ port'[x.port].slot = [op |-> x.op, lba |-> x.lba, n |-> x.n]
      BY <1>1, <2>1, <3>2
    <3> QED BY <1>6, <3>1, <3>2, Zenon
  <2>3. x'.at \in {"wait", "status"} /\ port'[x.port].moved = 1 => Found(window[0])
    <3>1. CASE x.at = "slot" /\ x'.at = "wait" BY <1>6, <3>1
    <3>2. CASE ~(x.at = "slot" /\ x'.at = "wait")
      <4>1. UNCHANGED port /\ (x'.at \in {"wait", "status"} => x.at \in {"wait", "status"})
        BY <1>0, <1>6, <3>2, XferSteps, Zenon
      <4> QED BY <1>0, <4>1, Zenon DEF BootData
    <3> QED BY <3>1, <3>2, Zenon
  <2>4. x'.at = "out" /\ x'.ok /\ x.op \in {"read", "identify"} => Found(x'.data[1])
    <3> SUFFICES ASSUME x'.at = "out", x'.ok, x.op \in {"read", "identify"}
                 PROVE  Found(x'.data[1])
      BY Zenon
    <3>1. /\ x.at = "status" /\ ~port[x.port].tfes
          /\ x'.data = [i \in 1 .. x.n |-> window[i - 1]]
      BY <1>0, <1>1, XferSteps, Zenon
    <3>2. x'.data[1] = window[0]
      <4>1. x.n = 1 /\ 1 \in 1 .. 1 /\ 1 - 1 = 0 BY <1>1, <2>1
      <4> QED BY <3>1, <4>1, Zenon
    <3>3. port[x.port].moved = 1 BY <1>0, <1>1, <2>1, <3>1 DEF SlotIsCall, Moves
    <3> QED BY <1>0, <3>1, <3>2, <3>3, Zenon DEF BootData
  <2> QED BY <1>1, <1>5, <2>1, <2>2, <2>3, <2>4, Zenon DEF BootData
<1> QED BY <1>2, <1>3, <1>4, <1>7, <1>8, Zenon DEF Booted

\* A write of the file system leaves the table alone, if no partition covers it.
LEMMA TableKept ==
  ASSUME Inv, SlotsTyped, Booted, NEW p \in Port, Device(p), UNCHANGED <<bootVars, pc>>,
         TablesApart, gpt.parsed, TableRight
  PROVE  TableRight'
<1> DEFINE D == FirstPort
           h == media[D][1]
<1>0. D \in Port /\ D' = D /\ UNCHANGED gpt /\ PartTyped
  BY FirstDisk, Zenon DEF Booted, Published, Stage, FirstPort, bootVars
<1>1. PICK m \in Layouts : h = m[D][1] BY Zenon DEF TableRight
<1>2. /\ 1 < Capacity[D] /\ HeaderOk(h) /\ Capacity[D] \in Nat
      /\ TableOn(D) = h[5] /\ gpt.parts = Partitions(h[5])
      /\ \A k \in 1 .. Len(h[5]) : h[4] + k - 1 < Capacity[D]
  BY <1>0, AhciAssumption, Zenon DEF TableRight, AhciAssumption
<1>3. 1 \in Offsets(Capacity[D]) BY <1>2 DEF Offsets
<1>4. h[4] \in Nat /\ Len(h[5]) \in Nat
  BY <1>0, <1>1, <1>2, <1>3, TableAssumption DEF TableAssumption
<1>5. \A k \in 1 .. Len(h[5]) : h[4] + k - 1 \in Offsets(Capacity[D])
  <2> HIDE DEF h, D
  <2> QED BY <1>2, <1>4 DEF Offsets
<1>6. ASSUME NEW s \in Offsets(Capacity[D]), s \notin part.start .. part.last \/ ~mounted
      PROVE  media'[D][s] = media[D][s]
  BY <1>0, <1>6, DriveWritesConfined, Zenon DEF FirstPort
<1>7. mounted => /\ 1 \notin part.start .. part.last
                 /\ \A k \in 1 .. Len(h[5]) : h[4] + k - 1 \notin part.start .. part.last
  <2> SUFFICES ASSUME mounted
               PROVE  /\ 1 \notin part.start .. part.last
                      /\ \A k \in 1 .. Len(h[5]) : h[4] + k - 1 \notin part.start .. part.last
    BY Zenon
  <2>1. PICK i \in DOMAIN gpt.parts : gpt.parts[i] = part BY Zenon DEF Booted, Published
  <2> QED BY <1>0, <1>1, <1>2, <2>1, Zenon DEF TablesApart
<1>8. media'[D][1] = h BY <1>3, <1>6, <1>7, Zenon
<1>9. \A k \in 1 .. Len(h[5]) : media'[D][h[4] + k - 1] = media[D][h[4] + k - 1]
  BY <1>5, <1>6, <1>7, Zenon
<1>10. TableOn(D)' = TableOn(D)
  <2>1. TableOn(D)' = [k \in 1 .. Len(media'[D][1][5]) |-> media'[D][media'[D][1][4] + k - 1]]
    BY <1>0, Zenon DEF TableOn
  <2>2. TableOn(D) = [k \in 1 .. Len(h[5]) |-> media[D][h[4] + k - 1]] BY Zenon DEF TableOn
  <2> HIDE DEF h, D
  <2> QED BY <1>8, <1>9, <2>1, <2>2
<1>11. /\ 1 < Capacity[D] /\ media'[D][1] = m[D][1] /\ HeaderOk(media'[D][1])
       /\ \A k \in 1 .. Len(media'[D][1][5]) : media'[D][1][4] + k - 1 < Capacity[D]
       /\ TableOn(D)' = media'[D][1][5] /\ gpt'.parts = Partitions(TableOn(D)')
  BY <1>0, <1>1, <1>2, <1>8, <1>10, Zenon
<1> QED BY <1>0, <1>11, Zenon DEF TableRight

\* The steps of a drive keep what the boot sequence relies on: a late command can only bring
\* IDENTIFY data into the window.
LEMMA DeviceBooted ==
  ASSUME Inv, Typed, Booted, NEW p \in Port, Device(p), UNCHANGED <<bootVars, pc>>
  PROVE  Booted'
<1>0. /\ PortShape /\ MediaShape /\ CallTyped /\ SlotsTyped /\ WindowShape /\ SlotIsCall
      /\ BootData /\ OneDisk /\ Stage /\ Collected /\ Published
  BY Zenon DEF Inv, Typed, Booted
<1>1. /\ UNCHANGED <<ports, disks, gpt, scan, part, mounted, requests, pc, x>>
      /\ \A q \in Port : port'[q].slot = port[q].slot
      /\ \A q \in Port : q # p => port'[q] = port[q]
      /\ \/ UNCHANGED <<media, window>> /\ port'[p].moved = port[p].moved
         \/ DevMove(p) /\ port'[p].moved = port[p].moved + 1
  BY <1>0, DeviceSteps, Zenon DEF bootVars
<1>2. requests = 0 => media' = media
  BY <1>0, <1>1, Zenon DEF BootData, DevMove
<1>3. Stage' BY <1>0, <1>1, Zenon DEF Stage, Reading, FirstPort
<1>4. OneDisk' BY <1>0, <1>1, Zenon DEF OneDisk, FirstPort
<1>5. Collected'
  <2>1. pc \in {"detect", "entries"} => media' = media BY <1>2, BootFacts, Zenon
  <2> QED BY <1>0, <1>1, <2>1, Zenon DEF Collected, FirstPort
<1>6. Published'
  <2>1. gpt.parsed /\ (requests = 0 \/ TablesApart) => TableRight'
    <3>1. CASE requests = 0
      BY <1>0, <1>1, <1>2, <3>1, Zenon DEF Published, TableRight, TableOn, FirstPort
    <3>2. CASE requests # 0 BY <1>0, <3>2, TableKept, Zenon DEF Published
    <3> QED BY <3>1, <3>2, Zenon
  <2> QED BY <1>0, <1>1, <1>2, <2>1, Zenon DEF Published, FirstPort, PartTyped
<1>7. BootData'
  <2> SUFFICES ASSUME requests = 0 PROVE BootData'
    BY <1>1, Zenon DEF BootData
  <2>1. \A v : Found(v)' <=> Found(v) BY <1>1, <1>2, Zenon DEF Found
  <2>2. ASSUME x.at \in {"wait", "status"}, port'[x.port].moved = 1 PROVE Found(window'[0])
    <3>1. /\ x.port \in Port /\ x.lba \in Nat
          /\ port[x.port].slot = [op |-> x.op, lba |-> x.lba, n |-> x.n]
          /\ port[x.port].moved = 1 => Found(window[0])
      BY <1>0, <2>2, Zenon DEF CallTyped, SlotIsCall, BootData
    <3>2. x.op \in {"read", "identify"} /\ (x.op = "identify" => pc = "identify")
      BY <1>0, <2>2, Zenon DEF Stage, Reading, Published
    <3>3. CASE UNCHANGED <<media, window>> /\ port'[p].moved = port[p].moved
      BY <1>1, <2>2, <3>1, <3>3, Zenon
    <3>4. CASE DevMove(p) /\ port'[p].moved = port[p].moved + 1
      <4>1. /\ port[p].moved \in Nat /\ port[p].moved < port[p].slot.n
            /\ port[p].slot.n \in Nat /\ port[p].slot.n <= 1 /\ port[p].slot.op # "write"
        BY <1>0, <3>4 DEF DevMove, SlotsTyped, BootData
      <4>2. port[p].moved = 0 BY <4>1
      <4>3. 0 \in Offsets(WindowSectors) BY AhciAssumption DEF AhciAssumption, Offsets
      <4>4. CASE port[p].slot.op = "identify"
        BY <1>0, <3>4, <4>2, <4>3, <4>4, Zenon DEF DevMove, WindowShape, Found
      <4>5. CASE port[p].slot.op = "read"
        <5>1. x.op = "read" /\ p = x.port BY <1>0, <2>2, <3>2, <4>5, Zenon DEF OneDisk
        <5>2. x.lba + 0 = x.lba BY <3>1
        <5> QED BY <1>0, <3>1, <3>4, <4>2, <4>3, <4>5, <5>1, <5>2 DEF DevMove, WindowShape, Found
      <4> QED BY <3>4, <4>1, <4>4, <4>5, Zenon DEF DevMove, Moves
    <3> QED BY <1>1, <3>3, <3>4, Zenon
  <2> QED BY <1>0, <1>1, <1>2, <2>1, <2>2, Zenon DEF BootData
<1> QED BY <1>3, <1>4, <1>5, <1>6, <1>7, Zenon DEF Booted

\* A step of the boot sequence that makes no call leaves the transfers alone.
LEMMA QuietBoot ==
  ASSUME Booted, UNCHANGED ahciVars, UNCHANGED <<requests, disks>>,
         pc' \in {"enumerate", "identify"} => pc \in {"enumerate", "identify"}
  PROVE  BootData' /\ OneDisk'
<1>1. \A v : Found(v)' <=> Found(v) BY Zenon DEF Found, ahciVars
<1>2. BootData' BY <1>1, Zenon DEF Booted, BootData, ahciVars
<1>3. OneDisk' BY Zenon DEF Booted, OneDisk, FirstPort, ahciVars
<1> QED BY <1>2, <1>3, Zenon

\* ahci::init: a disk is registered on the port that answered IDENTIFY.
LEMMA IdentifiedBooted ==
  ASSUME Inv, Booted, Identified
  PROVE  Booted'
<1>0. pc = "identify" /\ pc' = "enumerate" /\ x.at = "out" /\ UNCHANGED ahciVars
      /\ UNCHANGED <<ports, gpt, scan, part, mounted, requests>>
  BY Zenon DEF Identified, Running, Goto
<1>1. BootData /\ OneDisk /\ Stage /\ Collected /\ Published /\ requests = 0 /\ ~mounted
  BY <1>0, BootFacts, Zenon DEF Booted
<1>2. \A q \in Port : port[q].slot.op \notin {"read", "write"} BY <1>0, <1>1, Zenon DEF OneDisk
<1>3. disks' \in Seq([port : Port, sectors : Nat])
  <2> DEFINE R == [port : Port, sectors : Nat]
             d == [port |-> x.port, sectors |-> x.data[1][2]]
  <2>1. disks \in Seq(R) BY <1>1, Zenon DEF Stage
  <2>2. CASE x.ok /\ x.data[1][1] = "ident"
    <3>1. x.port \in Port /\ x.op = "identify" BY <1>0, <1>1, <2>2, Zenon DEF Stage
    <3>2. Found(x.data[1]) BY <1>0, <1>1, <2>2, <3>1, Zenon DEF BootData
    <3>3. PICK q \in Port : x.data[1] = IdentifyData(q) BY <3>1, <3>2, Zenon DEF Found
    <3>4. x.data[1][2] \in Nat BY <3>3, AhciAssumption DEF IdentifyData, AhciAssumption
    <3>5. d \in R BY <3>1, <3>4, Zenon
    <3>6. disks' = Append(disks, d) BY <2>2, Zenon DEF Identified
    <3> HIDE DEF R, d
    <3> QED BY <2>1, <3>5, <3>6 DEF R
  <2>3. CASE ~(x.ok /\ x.data[1][1] = "ident") BY <2>1, <2>3, Zenon DEF Identified
  <2> QED BY <2>2, <2>3, Zenon
<1>4. Stage' BY <1>0, <1>1, <1>3, Zenon DEF Stage, ahciVars
<1>5. BootData'
  <2>1. \A v : Found(v)' <=> Found(v) BY <1>0, Zenon DEF Found, ahciVars
  <2> QED BY <1>0, <1>1, <2>1, Zenon DEF BootData, ahciVars
<1>6. OneDisk' BY <1>0, <1>2, Zenon DEF OneDisk, ahciVars
<1>7. Collected' BY <1>0, <1>1, Zenon DEF Collected
<1>8. Published' BY <1>0, <1>1, Zenon DEF Published, PartTyped
<1> QED BY <1>4, <1>5, <1>6, <1>7, <1>8, Zenon DEF Booted

\* gpt::detect, the header: late data is no header.
LEMMA DetectHeaderBooted ==
  ASSUME Inv, Booted, DetectHeader
  PROVE  Booted'
<1>0. pc = "header" /\ x.at = "out" /\ UNCHANGED ahciVars
      /\ UNCHANGED <<ports, disks, gpt, part, mounted, requests>>
  BY Zenon DEF DetectHeader, Running
<1>1. BootData /\ OneDisk /\ Stage /\ Collected /\ Published /\ requests = 0 /\ ~mounted
      /\ media \in Layouts /\ ~gpt.parsed /\ disks # <<>>
  BY <1>0, BootFacts, Zenon DEF Booted, Stage, Published
<1>2. pc' \in {"detect", "idle"} BY Zenon DEF DetectHeader, Goto
<1>3. BootData' /\ OneDisk' BY <1>0, <1>2, QuietBoot, Zenon
<1>4. Stage' BY <1>0, <1>1, <1>2, Zenon DEF Stage, ahciVars
<1>5. Published' BY <1>0, <1>1, <1>2, Zenon DEF Published, PartTyped
<1>6. CASE pc' = "idle"
  <2>1. UNCHANGED scan BY <1>6, Zenon DEF DetectHeader, Goto
  <2>2. Collected' BY <1>1, <1>6, <2>1, Zenon DEF Collected
  <2> QED BY <1>3, <1>4, <1>5, <2>2, Zenon DEF Booted
<1>7. CASE pc' = "detect"
  <2>1. x.ok /\ HeaderOk(x.data[1]) /\ scan' = [NoScan EXCEPT !.header = x.data[1]]
    BY <1>7, Zenon DEF DetectHeader, Goto
  <2>2. x.op = "read" /\ x.port = FirstPort /\ x.lba = 1 BY <1>0, <1>1, <2>1, Zenon DEF Stage, Reading
  <2>3. Found(x.data[1]) BY <1>0, <1>1, <2>1, <2>2, Zenon DEF BootData
  <2>4. x.data[1] = media[FirstPort][1] /\ 1 < Capacity[FirstPort]
    BY <2>1, <2>2, <2>3 DEF Found, HeaderOk, IdentifyData
  <2>5. FirstPort \in Port /\ Capacity[FirstPort] \in Nat
    BY <1>1, FirstDisk, AhciAssumption, Zenon DEF AhciAssumption
  <2>6. 1 \in Offsets(Capacity[FirstPort]) BY <2>4, <2>5 DEF Offsets
  <2>7. Len(x.data[1][5]) \in Nat
    BY <1>1, <2>1, <2>4, <2>5, <2>6, TableAssumption DEF TableAssumption
  <2>8. /\ scan'.header = x.data[1] /\ scan'.next = 0 /\ scan'.sectors = <<>>
        /\ DOMAIN scan' = {"header", "next", "sectors"}
    BY <2>1, Zenon DEF NoScan
  <2>9. FirstPort' = FirstPort /\ media' = media BY <1>0, Zenon DEF FirstPort, ahciVars
  <2>10. /\ scan'.next \in Nat /\ scan'.next <= Len(scan'.header[5])
         /\ \A S : scan'.sectors \in Seq(S)
         /\ Len(scan'.sectors) = scan'.next /\ 1 .. scan'.next = {}
    BY <2>7, <2>8
  <2>11. Collected' BY <1>7, <2>1, <2>4, <2>8, <2>9, <2>10, Zenon DEF Collected
  <2> QED BY <1>3, <1>4, <1>5, <2>11, Zenon DEF Booted
<1> QED BY <1>2, <1>6, <1>7, Zenon

\* gpt::detect, a sector of the array: it is added to what the checksum covers.
LEMMA DetectEntriesBooted ==
  ASSUME Inv, Booted, DetectEntries
  PROVE  Booted'
<1>0. pc = "entries" /\ x.at = "out" /\ UNCHANGED ahciVars
      /\ UNCHANGED <<ports, disks, gpt, part, mounted, requests>>
  BY Zenon DEF DetectEntries, Running
<1>1. BootData /\ OneDisk /\ Stage /\ Collected /\ Published /\ requests = 0 /\ ~mounted
      /\ ~gpt.parsed /\ disks # <<>>
  BY <1>0, BootFacts, Zenon DEF Booted, Stage, Published
<1>2. pc' \in {"detect", "idle"} BY Zenon DEF DetectEntries, Goto
<1>3. BootData' /\ OneDisk' BY <1>0, <1>2, QuietBoot, Zenon
<1>4. Stage' BY <1>0, <1>1, <1>2, Zenon DEF Stage, ahciVars
<1>5. Published' BY <1>0, <1>1, <1>2, Zenon DEF Published, PartTyped
<1>6. CASE pc' = "idle"
  <2>1. UNCHANGED scan BY <1>6, Zenon DEF DetectEntries, Goto
  <2>2. Collected' BY <1>1, <1>6, <2>1, Zenon DEF Collected
  <2> QED BY <1>3, <1>4, <1>5, <2>2, Zenon DEF Booted
<1>7. CASE pc' = "detect"
  <2> DEFINE h == scan.header
             n == scan.next
             D == FirstPort
             S == UNION {{media[D][s] : s \in Offsets(Capacity[D])}, {IdentifyData(q) : q \in Port}}
  <2>1. x.ok /\ scan' = [scan EXCEPT !.next = @ + 1, !.sectors = Append(@, x.data[1])]
    BY <1>7, Zenon DEF DetectEntries, Goto
  <2>2. x.op = "read" /\ x.port = D /\ x.lba = h[4] + n BY <1>0, <1>1, <2>1, Zenon DEF Stage, Reading
  <2>3. Found(x.data[1]) BY <1>0, <1>1, <2>1, <2>2, Zenon DEF BootData
  <2>4. /\ DOMAIN scan = {"header", "next", "sectors"}
        /\ 1 < Capacity[D] /\ h = media[D][1] /\ HeaderOk(h)
        /\ n < Len(h[5]) /\ scan.sectors \in Seq(S) /\ Len(scan.sectors) = n
        /\ \A k \in 1 .. n :
             \/ h[4] + k - 1 < Capacity[D] /\ scan.sectors[k] = media[D][h[4] + k - 1]
             \/ \E q \in Port : scan.sectors[k] = IdentifyData(q)
    BY <1>0, <1>1, Zenon DEF Collected
  <2>5. h[4] \in Nat /\ n \in Nat /\ D \in Port /\ Len(h[5]) \in Nat /\ Capacity[D] \in Nat
    BY <1>0, HeaderTyped, AhciAssumption, Zenon DEF EntryArray, AhciAssumption
  <2>6. x.data[1] \in S
    <3>1. h[4] + n < Capacity[D] => h[4] + n \in Offsets(Capacity[D]) BY <2>5 DEF Offsets
    <3> QED BY <2>2, <2>3, <3>1, Zenon DEF Found
  <2>7. /\ h[4] + (n + 1) - 1 = h[4] + n
        /\ \/ h[4] + n < Capacity[D] /\ x.data[1] = media[D][h[4] + n]
           \/ \E q \in Port : x.data[1] = IdentifyData(q)
    BY <2>2, <2>3, <2>5 DEF Found
  <2>8. /\ scan'.header = h /\ scan'.next = n + 1 /\ scan'.sectors = Append(scan.sectors, x.data[1])
        /\ DOMAIN scan' = {"header", "next", "sectors"}
    BY <2>1, <2>4, Zenon
  <2>9. D' = D /\ media' = media BY <1>0, Zenon DEF FirstPort, ahciVars
  <2> HIDE DEF h, n, D, S
  <2>10. /\ scan'.sectors \in Seq(S) /\ Len(scan'.sectors) = n + 1
         /\ scan'.sectors[n + 1] = x.data[1]
         /\ \A k \in 1 .. n : scan'.sectors[k] = scan.sectors[k]
    BY <2>4, <2>5, <2>6, <2>8
  <2>11. n + 1 \in Nat /\ n + 1 <= Len(h[5]) /\ \A k \in 1 .. n + 1 : k \in 1 .. n \/ k = n + 1
    BY <2>4, <2>5
  <2>12. ASSUME NEW k \in 1 .. n + 1
         PROVE  \/ h[4] + k - 1 < Capacity[D] /\ scan'.sectors[k] = media[D][h[4] + k - 1]
                \/ \E q \in Port : scan'.sectors[k] = IdentifyData(q)
    <3>1. CASE k \in 1 .. n BY <2>4, <2>10, <3>1, Zenon
    <3>2. CASE k = n + 1 BY <2>7, <2>10, <3>2, Zenon
    <3> QED BY <2>11, <3>1, <3>2, Zenon
  <2>13. Collected'
    BY <1>7, <2>4, <2>8, <2>9, <2>10, <2>11, <2>12, Zenon DEF Collected, D, S
  <2> QED BY <1>3, <1>4, <1>5, <2>13, Zenon DEF Booted
<1> QED BY <1>2, <1>6, <1>7, Zenon

\* gpt::detect, the end: what the checksum covers is the table on the drive, since late data
\* is no sector with entries.
LEMMA DetectPublishBooted ==
  ASSUME Inv, Booted, DetectPublish
  PROVE  Booted'
<1>0. pc = "detect" /\ x.at = "out" /\ UNCHANGED ahciVars /\ scan' = NoScan
      /\ UNCHANGED <<ports, disks, part, mounted, requests>>
  BY Zenon DEF DetectPublish, Running
<1>1. BootData /\ OneDisk /\ Stage /\ Collected /\ Published /\ requests = 0 /\ ~mounted
      /\ media \in Layouts /\ ~gpt.parsed /\ disks # <<>>
  BY <1>0, BootFacts, Zenon DEF Booted, Stage, Published
<1>2. pc' \in {"mount", "idle"} BY Zenon DEF DetectPublish, Goto
<1>3. BootData' /\ OneDisk' BY <1>0, <1>2, QuietBoot, Zenon
<1>4. Stage' BY <1>0, <1>1, <1>2, Zenon DEF Stage, ahciVars
<1>5. Collected' BY <1>0, <1>2, Zenon DEF Collected, NoScan
<1>6. CASE pc' = "idle"
  <2>1. UNCHANGED gpt BY <1>6, Zenon DEF DetectPublish, Goto
  <2>2. Published' BY <1>0, <1>1, <1>6, <2>1, Zenon DEF Published, PartTyped
  <2> QED BY <1>3, <1>4, <1>5, <2>2, Zenon DEF Booted
<1>7. CASE pc' = "mount"
  <2> DEFINE D == FirstPort
             h == media[D][1]
  <2>1. scan.next = Len(EntryArray) /\ scan.sectors = EntryArray
        /\ gpt' = [parsed |-> TRUE, parts |-> Partitions(scan.sectors)]
    BY <1>7, Zenon DEF DetectPublish, Goto, ArrayOk
  <2>2. /\ scan.header = h /\ h[4] \in Nat /\ Len(h[5]) \in Nat /\ DOMAIN h[5] = 1 .. Len(h[5])
        /\ \A k \in DOMAIN h[5] : h[5][k][1] = "entries"
        /\ Partitions(h[5]) \in Seq(PartRecord)
    BY <1>0, HeaderTyped, Zenon DEF EntryArray
  <2>3. 1 < Capacity[D] /\ HeaderOk(h)
        /\ \A k \in 1 .. scan.next :
             \/ h[4] + k - 1 < Capacity[D] /\ scan.sectors[k] = media[D][h[4] + k - 1]
             \/ \E q \in Port : scan.sectors[k] = IdentifyData(q)
    BY <1>0, <1>1, <2>2, Zenon DEF Collected
  <2>4. scan.sectors = h[5] /\ scan.next = Len(h[5]) BY <2>1, <2>2, Zenon DEF EntryArray
  <2>5. \A k \in 1 .. Len(h[5]) : h[4] + k - 1 < Capacity[D] /\ h[5][k] = media[D][h[4] + k - 1]
    <3> SUFFICES ASSUME NEW k \in 1 .. Len(h[5])
                 PROVE  h[4] + k - 1 < Capacity[D] /\ h[5][k] = media[D][h[4] + k - 1]
      BY Zenon
    <3>1. h[5][k][1] = "entries" BY <2>2, Zenon
    <3>2. \A q \in Port : h[5][k] # IdentifyData(q) BY <3>1 DEF IdentifyData
    <3> QED BY <2>3, <2>4, <3>2, Zenon
  <2>6. TableOn(D) = h[5]
    <3>1. TableOn(D) = [k \in 1 .. Len(h[5]) |-> media[D][h[4] + k - 1]] BY Zenon DEF TableOn
    <3>2. h[5] = [k \in 1 .. Len(h[5]) |-> h[5][k]]
      BY <1>0, <1>1, <2>2, <2>4 DEF Collected
    <3> HIDE DEF h, D
    <3> QED BY <2>5, <3>1, <3>2, Zenon
  <2>7. /\ gpt'.parsed /\ gpt'.parts = Partitions(h[5]) /\ gpt'.parts \in Seq(PartRecord)
    BY <2>1, <2>2, <2>4, Zenon
  <2>8. D' = D /\ media' = media BY <1>0, Zenon DEF FirstPort, ahciVars
  <2>9. TableRight'
    BY <1>1, <2>3, <2>5, <2>6, <2>7, <2>8, Zenon DEF TableRight, TableOn
  <2>10. Published' BY <1>0, <1>1, <1>7, <2>7, <2>9, Zenon DEF Published, PartTyped
  <2> QED BY <1>3, <1>4, <1>5, <2>10, Zenon DEF Booted
<1> QED BY <1>2, <1>6, <1>7, Zenon

\* fs::init, the next partition: PART becomes a partition of the published table.
LEMMA TryPartitionBooted ==
  ASSUME Inv, Booted, TryPartition
  PROVE  Booted'
<1> DEFINE i == scan.next + 1
<1>0. pc = "mount" /\ x.at = "out" /\ UNCHANGED ahciVars
      /\ UNCHANGED <<ports, disks, gpt, mounted, requests>>
      /\ i <= Len(gpt.parts) /\ scan' = [scan EXCEPT !.next = i]
  BY Zenon DEF TryPartition, Running
<1>1. BootData /\ OneDisk /\ Stage /\ Collected /\ Published /\ requests = 0 /\ ~mounted
      /\ gpt.parsed /\ scan.next \in Nat
  BY <1>0, BootFacts, Zenon DEF Booted, Stage, Published, Collected
<1>2. pc' \in {"mount", "read_super"} BY <1>0, Zenon DEF TryPartition, Goto
<1>3. BootData' /\ OneDisk' BY <1>0, <1>2, QuietBoot, Zenon
<1>4. Stage' BY <1>0, <1>1, <1>2, Zenon DEF Stage, ahciVars
<1>5. scan'.next \in Nat /\ DOMAIN scan' = {"header", "next", "sectors"}
  BY <1>0, <1>1 DEF Collected
<1>6. Collected' BY <1>2, <1>5, Zenon DEF Collected
<1>7. i \in DOMAIN gpt.parts /\ gpt.parts[i] \in PartRecord
  <2>1. gpt.parts \in Seq(PartRecord) BY <1>1, Zenon DEF Published
  <2> QED BY <1>0, <1>1, <2>1
<1>8. Published'
  <2>1. TableRight' BY <1>0, <1>1, Zenon DEF Published, TableRight, TableOn, FirstPort, ahciVars
  <2>2. CASE UNCHANGED <<part, pc>>
    BY <1>0, <1>1, <2>1, <2>2, Zenon DEF Published, PartTyped
  <2>3. CASE pc' = "read_super" /\ part' = gpt.parts[i] /\ gpt.parts[i].linux
    <3>1. PartTyped' BY <1>7, <2>3, Zenon DEF PartTyped, PartRecord
    <3> QED BY <1>0, <1>1, <1>7, <2>1, <2>3, <3>1, Zenon DEF Published
  <2> QED BY <2>2, <2>3, Zenon DEF TryPartition, Goto
<1> QED BY <1>3, <1>4, <1>6, <1>8, Zenon DEF Booted

\* fs::init, the superblock: late data is no superblock.
LEMMA MountBooted ==
  ASSUME Inv, Booted, Mount
  PROVE  Booted'
<1>0. pc = "super" /\ x.at = "out" /\ UNCHANGED ahciVars
      /\ UNCHANGED <<ports, disks, gpt, scan, part, requests>>
      /\ mounted' = (x.ok /\ Mountable(x.data))
      /\ pc' = IF mounted' THEN "idle" ELSE "mount"
  BY Zenon DEF Mount, Running, Goto
<1>1. BootData /\ OneDisk /\ Stage /\ Collected /\ Published /\ requests = 0 /\ ~mounted
      /\ gpt.parsed
  BY <1>0, BootFacts, Zenon DEF Booted, Stage, Published
<1>2. pc' \in {"mount", "idle"} BY <1>0, Zenon
<1>3. BootData' /\ OneDisk' BY <1>0, <1>2, QuietBoot, Zenon
<1>4. mounted' \in BOOLEAN BY <1>0, Zenon
<1>5. Stage' BY <1>0, <1>1, <1>2, <1>4, Zenon DEF Stage, ahciVars
<1>6. Collected' BY <1>0, <1>1, <1>2, Zenon DEF Collected
<1>7. mounted' => media[FirstPort][part.start] = <<"ext4", TRUE>>
  <2> SUFFICES ASSUME mounted' PROVE media[FirstPort][part.start] = <<"ext4", TRUE>>
    BY Zenon
  <2>1. x.ok /\ x.data[1] = <<"ext4", TRUE>> BY <1>0, Zenon DEF Mountable
  <2>2. x.op = "read" /\ x.port = FirstPort /\ x.lba = part.start
    BY <1>0, <1>1, <2>1, Zenon DEF Stage, Reading
  <2>3. Found(x.data[1]) BY <1>0, <1>1, <2>1, <2>2, Zenon DEF BootData
  <2>4. x.data[1][1] = "ext4" BY <2>1
  <2>5. \A q \in Port : x.data[1] # IdentifyData(q) BY <2>4 DEF IdentifyData
  <2> QED BY <2>1, <2>2, <2>3, <2>5, Zenon DEF Found
<1>8. Published'
  <2>1. TableRight' BY <1>0, <1>1, Zenon DEF Published, TableRight, TableOn, FirstPort, ahciVars
  <2> QED BY <1>0, <1>1, <1>2, <1>7, <2>1, Zenon DEF Published, PartTyped, FirstPort, ahciVars
<1> QED BY <1>3, <1>5, <1>6, <1>8, Zenon DEF Booted

\* fs::init, no partition left: nothing is mounted.
LEMMA NothingMountedBooted ==
  ASSUME Inv, Booted, NothingMounted
  PROVE  Booted'
<1>0. pc = "mount" /\ pc' = "idle" /\ x.at = "out" /\ UNCHANGED ahciVars
      /\ UNCHANGED <<ports, disks, gpt, scan, part, mounted, requests>>
  BY Zenon DEF NothingMounted, Running, Goto, bootVars
<1>1. BootData /\ OneDisk /\ Stage /\ Collected /\ Published /\ requests = 0 /\ ~mounted
      /\ gpt.parsed
  BY <1>0, BootFacts, Zenon DEF Booted, Stage, Published
<1>2. BootData' /\ OneDisk' BY <1>0, QuietBoot, Zenon
<1>3. Stage' BY <1>0, <1>1, Zenon DEF Stage, ahciVars
<1>4. Collected' BY <1>0, <1>1, Zenon DEF Collected
<1>5. TableRight' BY <1>0, <1>1, Zenon DEF Published, TableRight, TableOn, FirstPort, ahciVars
<1>6. Published' BY <1>0, <1>1, <1>5, Zenon DEF Published, PartTyped
<1> QED BY <1>2, <1>3, <1>4, <1>6, Zenon DEF Booted

\* A call of the boot sequence: IDENTIFY, or one sector read from the first disk.
LEMMA BootCall ==
  ASSUME Booted, requests = 0, UNCHANGED <<requests, disks>>,
         pc' \in {"enumerate", "identify"} => pc \in {"enumerate", "identify"},
         NEW p, NEW op \in {"read", "identify"}, NEW lba,
         \/ /\ XferEnter(p, op, lba, 1, <<>>)
            /\ op = "read" => disks # <<>> /\ p = FirstPort
         \/ x' = [NoXfer EXCEPT !.op = op] /\ UNCHANGED <<media, window, port>>
  PROVE  /\ BootData' /\ OneDisk' /\ UNCHANGED <<media, port>>
         /\ x'.at # "out" \/ x'.ok => x'.op = op /\ x'.port = p /\ x'.lba = lba
<1>1. CASE XferEnter(p, op, lba, 1, <<>>) /\ (op = "read" => disks # <<>> /\ p = FirstPort)
  <2>1. /\ x'.at = "ready" /\ x'.op = op /\ x'.port = p /\ x'.lba = lba /\ x'.n = 1
        /\ UNCHANGED <<media, port>>
    BY <1>1, Zenon DEF XferEnter
  <2>2. BootData' BY <2>1, Zenon DEF Booted, BootData
  <2>3. OneDisk' BY <1>1, <2>1, Zenon DEF Booted, OneDisk, FirstPort
  <2> QED BY <2>1, <2>2, <2>3, Zenon
<1>2. CASE x' = [NoXfer EXCEPT !.op = op] /\ UNCHANGED <<media, window, port>>
  <2>1. x'.at = "out" /\ x'.ok = FALSE /\ x'.op = op BY <1>2, Zenon DEF NoXfer
  <2>2. BootData' BY <1>2, <2>1, Zenon DEF Booted, BootData
  <2>3. OneDisk' BY <1>2, <2>1, Zenon DEF Booted, OneDisk, FirstPort
  <2> QED BY <1>2, <2>1, <2>2, <2>3, Zenon
<1> QED BY <1>1, <1>2, Zenon

\* pci::enumerate: the next port panics, is left out or is sent IDENTIFY.
LEMMA PortInitBooted ==
  ASSUME Inv, Booted, PortInit
  PROVE  Booted'
<1>0. pc = "enumerate" /\ x.at = "out" /\ ports' \subseteq ports /\ ports # {}
      /\ UNCHANGED <<disks, gpt, scan, part, mounted, requests>>
  BY Zenon DEF PortInit, Running
<1>1. BootData /\ OneDisk /\ Stage /\ Collected /\ Published /\ requests = 0 /\ ~mounted
      /\ ~gpt.parsed
  BY <1>0, BootFacts, Zenon DEF Booted, Stage, Published
<1>2. CASE UNCHANGED ahciVars /\ pc' \in {"enumerate", "panic"}
  <2>1. BootData' /\ OneDisk' BY <1>0, <1>2, QuietBoot, Zenon
  <2>2. Stage' BY <1>0, <1>1, <1>2, Zenon DEF Stage, ahciVars
  <2>3. Collected' BY <1>0, <1>1, <1>2, Zenon DEF Collected
  <2>4. Published' BY <1>0, <1>1, <1>2, Zenon DEF Published, PartTyped
  <2> QED BY <2>1, <2>2, <2>3, <2>4, Zenon DEF Booted
<1>3. CASE XferEnter(NextPort, "identify", 0, 1, <<>>) /\ pc' = "identify"
  <2>1. NextPort \in Port
    BY <1>0, <1>1, MinInSet, AhciAssumption, Zenon DEF Stage, NextPort, AhciAssumption
  <2>2. BootData' /\ OneDisk' BY <1>0, <1>1, <1>3, BootCall, Zenon
  <2>3. x'.port = NextPort /\ x'.op = "identify" BY <1>3, Zenon DEF XferEnter
  <2>4. Stage' BY <1>0, <1>1, <1>3, <2>1, <2>3, Zenon DEF Stage
  <2>5. Collected' BY <1>0, <1>1, <1>3, Zenon DEF Collected
  <2>6. Published' BY <1>0, <1>1, <1>3, Zenon DEF Published, PartTyped
  <2> QED BY <2>2, <2>4, <2>5, <2>6, Zenon DEF Booted
<1> QED BY <1>0, <1>2, <1>3, Zenon DEF PortInit, Goto

\* A read of one sector of the first disk, made or refused.
LEMMA FirstDiskRead ==
  ASSUME Booted, requests = 0, UNCHANGED <<requests, disks>>, disks # <<>>,
         pc' \notin {"enumerate", "identify"}, NEW lba,
         \/ AhciCall("read", 1, lba, 1, <<>>)
         \/ x' = [NoXfer EXCEPT !.op = "read"] /\ UNCHANGED <<media, window, port>>
  PROVE  /\ BootData' /\ OneDisk' /\ UNCHANGED <<media, port>>
         /\ x'.at # "out" \/ x'.ok => x'.op = "read" /\ x'.port = FirstPort /\ x'.lba = lba
<1>1. \/ XferEnter(FirstPort, "read", lba, 1, <<>>)
      \/ x' = [NoXfer EXCEPT !.op = "read"] /\ UNCHANGED <<media, window, port>>
  BY Zenon DEF AhciCall, FirstPort
<1> QED BY <1>1, BootCall, Zenon

\* fs::init: without a disk it is done, else it reads the header.
LEMMA FsInitBooted ==
  ASSUME Inv, Booted, FsInit
  PROVE  Booted'
<1>0. pc = "enumerate" /\ x.at = "out"
      /\ UNCHANGED <<ports, disks, gpt, scan, part, mounted, requests>>
  BY Zenon DEF FsInit, Running, bootVars
<1>1. BootData /\ OneDisk /\ Stage /\ Collected /\ Published /\ requests = 0 /\ ~mounted
      /\ ~gpt.parsed
  BY <1>0, BootFacts, Zenon DEF Booted, Stage, Published
<1>2. CASE UNCHANGED ahciVars /\ pc' = "idle"
  <2>1. BootData' /\ OneDisk' BY <1>0, <1>2, QuietBoot, Zenon
  <2>2. Stage' BY <1>0, <1>1, <1>2, Zenon DEF Stage, ahciVars
  <2>3. Collected' BY <1>0, <1>1, <1>2, Zenon DEF Collected
  <2>4. Published' BY <1>0, <1>1, <1>2, Zenon DEF Published, PartTyped
  <2> QED BY <2>1, <2>2, <2>3, <2>4, Zenon DEF Booted
<1>3. CASE disks # <<>> /\ AhciCall("read", 1, 1, 1, <<>>) /\ pc' = "header"
  <2>1. /\ BootData' /\ OneDisk' /\ UNCHANGED <<media, port>>
        /\ x'.at # "out" \/ x'.ok => x'.op = "read" /\ x'.port = FirstPort /\ x'.lba = 1
    BY <1>0, <1>1, <1>3, FirstDiskRead, Zenon
  <2>2. Reading(1)' BY <1>0, <2>1, Zenon DEF Reading, FirstPort
  <2>3. Stage' BY <1>0, <1>1, <1>3, <2>2, Zenon DEF Stage
  <2>4. Collected' BY <1>0, <1>1, <1>3, Zenon DEF Collected
  <2>5. Published' BY <1>0, <1>1, <1>3, Zenon DEF Published, PartTyped
  <2> QED BY <2>1, <2>3, <2>4, <2>5, Zenon DEF Booted
<1> QED BY <1>2, <1>3, Zenon DEF FsInit, Goto

\* gpt::detect: the next sector of the array is read.
LEMMA DetectReadBooted ==
  ASSUME Inv, Booted, DetectRead
  PROVE  Booted'
<1>0. pc = "detect" /\ pc' = "entries" /\ x.at = "out" /\ scan.next < Len(EntryArray)
      /\ UNCHANGED <<ports, disks, gpt, scan, part, mounted, requests>>
  BY Zenon DEF DetectRead, Running, Goto, bootVars
<1>1. BootData /\ OneDisk /\ Stage /\ Collected /\ Published /\ requests = 0 /\ ~mounted
      /\ ~gpt.parsed /\ disks # <<>>
  BY <1>0, BootFacts, Zenon DEF Booted, Stage, Published
<1>2. /\ BootData' /\ OneDisk' /\ UNCHANGED <<media, port>>
      /\ x'.at # "out" \/ x'.ok =>
           x'.op = "read" /\ x'.port = FirstPort /\ x'.lba = scan.header[4] + scan.next
  BY <1>0, <1>1, FirstDiskRead, Zenon DEF DetectRead
<1>3. Reading(scan.header[4] + scan.next)' BY <1>0, <1>2, Zenon DEF Reading, FirstPort
<1>4. Stage' BY <1>0, <1>1, <1>3, Zenon DEF Stage
<1>5. Collected' BY <1>0, <1>1, <1>2, Zenon DEF Collected, EntryArray, FirstPort
<1>6. Published' BY <1>0, <1>1, Zenon DEF Published, PartTyped
<1> QED BY <1>2, <1>4, <1>5, <1>6, Zenon DEF Booted

\* ext4::mount: the superblock of the partition is read, unless the partition is too small.
LEMMA ReadSuperBooted ==
  ASSUME Inv, Booted, ReadSuper
  PROVE  Booted'
<1>0. pc = "read_super" /\ pc' = "super" /\ x.at = "out"
      /\ UNCHANGED <<ports, disks, gpt, scan, part, mounted, requests>>
  BY Zenon DEF ReadSuper, Running, Goto, bootVars
<1>1. BootData /\ OneDisk /\ Stage /\ Collected /\ Published /\ requests = 0 /\ ~mounted
      /\ gpt.parsed /\ disks # <<>>
  BY <1>0, BootFacts, Zenon DEF Booted, Stage, Published
<1>2. part.start + 0 = part.start BY <1>1 DEF Published, PartTyped
<1>3. /\ BootData' /\ OneDisk' /\ UNCHANGED <<media, port>>
      /\ x'.at # "out" \/ x'.ok => x'.op = "read" /\ x'.port = FirstPort /\ x'.lba = part.start
  BY <1>0, <1>1, <1>2, FirstDiskRead, Zenon DEF ReadSuper, BlockCall
<1>4. Reading(part.start)' BY <1>0, <1>3, Zenon DEF Reading, FirstPort
<1>5. Stage' BY <1>0, <1>1, <1>4, Zenon DEF Stage
<1>6. Collected' BY <1>0, <1>1, Zenon DEF Collected
<1>7. TableRight' BY <1>0, <1>1, <1>3, Zenon DEF Published, TableRight, TableOn, FirstPort
<1>8. Published' BY <1>0, <1>1, <1>7, Zenon DEF Published, PartTyped
<1> QED BY <1>3, <1>5, <1>6, <1>8, Zenon DEF Booted

\* A request of the file system goes to the first disk.
LEMMA RequestBooted ==
  ASSUME Inv, Booted, Request
  PROVE  Booted'
<1>0. pc = "idle" /\ x.at = "out" /\ mounted /\ requests' = requests + 1
      /\ UNCHANGED <<ports, disks, gpt, scan, part, mounted, pc>>
  BY Zenon DEF Request, Running
<1>1. OneDisk /\ Stage /\ Collected /\ Published /\ gpt.parsed /\ disks # <<>>
      /\ requests \in Nat
  BY <1>0, Zenon DEF Booted, Published, Stage
<1>2. requests' # 0 /\ requests' \in Nat BY <1>0, <1>1
<1>3. BootData' BY <1>2, Zenon DEF BootData
<1>4. UNCHANGED <<media, port>>
      /\ (x'.at # "out" /\ x'.op \in {"read", "write"} => x'.port = FirstPort)
  <2>1. ASSUME NEW op, NEW lba, NEW n, NEW data, AhciCall(op, 1, lba, n, data)
        PROVE  UNCHANGED <<media, port>> /\ (x'.at # "out" => x'.port = FirstPort)
    BY <2>1 DEF AhciCall, XferEnter, NoXfer, FirstPort
  <2>2. ASSUME NEW op, NEW lba, NEW n, NEW data, BlockCall(op, lba, n, data)
        PROVE  UNCHANGED <<media, port>> /\ (x'.at # "out" => x'.port = FirstPort)
    BY <2>1, <2>2, Zenon DEF BlockCall, NoXfer
  <2> QED BY <2>1, <2>2, Zenon DEF Request
<1>5. OneDisk' BY <1>0, <1>1, <1>4, Zenon DEF OneDisk, FirstPort
<1>6. Stage' BY <1>0, <1>1, <1>2, Zenon DEF Stage
<1>7. Collected' BY <1>0, <1>1, Zenon DEF Collected
<1>8. Published'
  <2>1. TablesApart => TableRight'
    BY <1>0, <1>1, <1>4, Zenon DEF Published, TableRight, TableOn, FirstPort
  <2> QED BY <1>0, <1>1, <1>2, <2>1, Zenon DEF Published, PartTyped
<1> QED BY <1>3, <1>5, <1>6, <1>7, <1>8, Zenon DEF Booted

-----------------------------------------------------------------------------
(* The whole invariant *)

\* The kernel starts with it.
LEMMA InitIInv == Init => IInv
<1> SUFFICES ASSUME Init PROVE IInv BY Zenon
<1>1. /\ x = NoXfer /\ port = [p \in Port |-> QuietPort] /\ media \in Layouts
      /\ DOMAIN window = Offsets(WindowSectors)
      /\ pc = "enumerate" /\ ports = Port /\ disks = <<>> /\ scan = NoScan /\ part = NoPart
      /\ gpt.parsed = FALSE /\ mounted = FALSE /\ requests = 0
  BY Zenon DEF Init
<1>2. /\ x.at = "out" /\ x.polls = 0 /\ ~x.ok /\ x.op # "write"
      /\ \A p \in Port : /\ ~port[p].ci /\ ~port[p].busy /\ ~port[p].tfes /\ port[p].moved = 0
                         /\ port[p].slot = NoCommand
                         /\ port[p].ci \in BOOLEAN /\ port[p].busy \in BOOLEAN
                         /\ port[p].tfes \in BOOLEAN
  BY <1>1, Zenon DEF NoXfer, QuietPort
<1>3. NoCommand.op \notin {"read", "write"} /\ NoCommand.lba = 0 /\ NoCommand.n = 0
  BY Zenon DEF NoCommand
<1>4. Typed
  BY <1>1, <1>2, <1>3, AhciAssumption
     DEF Typed, CallTyped, SlotsTyped, WindowShape, SlotIsCall, AhciAssumption
<1>5. Faithful BY <1>2, Zenon DEF Faithful, Alone, MovedRight, TransfersFaithful
<1>6. BootData /\ OneDisk BY <1>1, <1>2, <1>3 DEF BootData, OneDisk
<1>7. Stage
  <2>1. <<>> \in Seq([port : Port, sectors : Nat]) OBVIOUS
  <2> QED BY <1>1, <1>2, <2>1, Zenon DEF Stage
<1>8. Collected BY <1>1, Zenon DEF Collected, NoScan
<1>9. Published BY <1>1, Zenon DEF Published, PartTyped, NoPart
<1> QED BY <1>4, <1>5, <1>6, <1>7, <1>8, <1>9, InitInv, Zenon DEF IInv, Booted

\* Every step keeps it.
LEMMA NextIInv ==
  ASSUME IInv, [Next]_vars
  PROVE  IInv'
<1>0. Inv /\ Typed /\ Faithful /\ Booted /\ PartTyped BY Zenon DEF IInv, Booted, Published
<1>1. Inv' BY <1>0, NextInv, Zenon
<1>2. Typed' BY <1>0, TypedKept, Zenon
<1>3. Faithful' BY <1>0, FaithfulKept, Zenon
<1>4. Booted'
  <2>1. CASE XferStep /\ UNCHANGED <<bootVars, pc>> BY <1>0, <2>1, XferBooted, Zenon
  <2>2. CASE PortInit BY <1>0, <2>2, PortInitBooted, Zenon
  <2>3. CASE Identified BY <1>0, <2>3, IdentifiedBooted
  <2>4. CASE FsInit BY <1>0, <2>4, FsInitBooted, Zenon
  <2>5. CASE DetectHeader BY <1>0, <2>5, DetectHeaderBooted, Zenon
  <2>6. CASE DetectRead BY <1>0, <2>6, DetectReadBooted, Zenon
  <2>7. CASE DetectEntries BY <1>0, <2>7, DetectEntriesBooted, Zenon
  <2>8. CASE DetectPublish BY <1>0, <2>8, DetectPublishBooted, Zenon
  <2>9. CASE TryPartition BY <1>0, <2>9, TryPartitionBooted, Zenon
  <2>10. CASE ReadSuper BY <1>0, <2>10, ReadSuperBooted, Zenon
  <2>11. CASE Mount BY <1>0, <2>11, MountBooted, Zenon
  <2>12. CASE NothingMounted BY <1>0, <2>12, NothingMountedBooted, Zenon
  <2>13. CASE Request BY <1>0, <2>13, RequestBooted, Zenon
  <2>14. ASSUME NEW p \in Port, Device(p), UNCHANGED <<bootVars, pc>> PROVE Booted'
    BY <1>0, <2>14, DeviceBooted, Zenon
  <2>15. CASE UNCHANGED vars
    <3>1. UNCHANGED ahciVars /\ UNCHANGED <<ports, disks, gpt, scan, part, mounted, requests, pc>>
      BY <2>15, Zenon DEF vars, bootVars
    <3>2. BootData' /\ OneDisk' BY <1>0, <3>1, QuietBoot, Zenon
    <3>3. Stage' BY <1>0, <3>1 DEF Booted, Stage, Reading, FirstPort, ahciVars
    <3>4. Collected' BY <1>0, <3>1, Zenon DEF Booted, Collected, FirstPort, ahciVars
    <3>5. TableRight => TableRight' BY <3>1, Zenon DEF TableRight, TableOn, FirstPort, ahciVars
    <3>6. Published' BY <1>0, <3>1, <3>5, Zenon DEF Booted, Published, FirstPort, PartTyped, ahciVars
    <3> QED BY <3>2, <3>3, <3>4, <3>6, Zenon DEF Booted
  <2> QED BY <2>1, <2>2, <2>3, <2>4, <2>5, <2>6, <2>7, <2>8, <2>9, <2>10, <2>11, <2>12, <2>13,
             <2>14, <2>15, Zenon DEF Next, Kernel
<1> QED BY <1>1, <1>2, <1>3, <1>4, Zenon DEF IInv

-----------------------------------------------------------------------------
(* The theorems *)

\* The strengthened invariant holds in every state: the shape of the state, the tie between a
\* call of ahci::xfer and the slot it waits for, and what the boot sequence has read.
THEOREM Invariance == Spec => []IInv
<1>1. Init => IInv BY InitIInv, Zenon
<1>2. IInv /\ [Next]_vars => IInv' BY NextIInv, Zenon
<1> QED BY <1>1, <1>2, PTL DEF Spec

\* The drives keep their sectors, a poll stays below XFER_SPINS, a drive moves no more than
\* it was asked for, and the bounds of PART are numbers.
THEOREM Typing == Spec => []TypeOK
<1>1. IInv => TypeOK
  <2> SUFFICES ASSUME IInv PROVE TypeOK BY Zenon
  <2>1. \A d \in DOMAIN disks : disks[d].port \in Port
    <3> DEFINE R == [port : Port, sectors : Nat]
    <3>1. disks \in Seq(R) BY Zenon DEF IInv, Booted, Stage
    <3>2. \A r \in R : r.port \in Port BY Zenon
    <3> HIDE DEF R
    <3>3. \A d \in DOMAIN disks : disks[d] \in R BY <3>1
    <3> QED BY <3>2, <3>3, Zenon
  <2> QED BY <2>1, Zenon DEF IInv, Inv, MediaShape, Typed, WindowShape, CallTyped, SlotsTyped, Booted,
                      Stage, Published, TypeOK
<1> QED BY <1>1, Invariance, PTL

\* A call of ahci::xfer that began with no command in flight and succeeded is faithful: a read
\* returned the sectors on the drive, a write left its data there.
THEOREM CleanTransfersAreFaithful == Spec => []TransfersFaithful
<1>1. IInv => TransfersFaithful BY Zenon DEF IInv, Faithful
<1> QED BY <1>1, Invariance, PTL

\* What the published table and the mount stand for, read off the invariant.
LEMMA InvMountSound ==
  ASSUME IInv, requests = 0 \/ TablesApart
  PROVE  MountSound
<1>0. Published BY Zenon DEF IInv, Booted
<1>1. gpt.parsed => TableRight BY <1>0, Zenon DEF Published
<1> QED BY <1>0, <1>1, Zenon DEF Published, TableRight, FirstPort, MountSound

\* Until the file system makes its first request, what gpt::detect published is the table on the
\* first disk, and what fs::init mounted is a Linux partition of it with an ext4 superblock:
\* data that arrives late never passes for either.
THEOREM BootMountsSoundly == Spec => [](requests = 0 => MountSound)
<1>1. IInv => (requests = 0 => MountSound) BY InvMountSound, Zenon
<1> QED BY <1>1, Invariance, PTL

\* On drives where no partition covers the table this stays so for ever: the writes of the file
\* system stay in its partition.
THEOREM MountStaysSound == TablesApart => (Spec => []MountSound)
<1>1. TablesApart /\ IInv => MountSound BY InvMountSound, Zenon
<1> SUFFICES ASSUME TablesApart PROVE Spec => []MountSound BY Zenon
<1>2. IInv => MountSound BY <1>1, Zenon
<1> QED BY <1>2, Invariance, PTL

\* No step writes a sector outside the partition that the file system was mounted from,
\* also when a command that xfer gave up on finishes late (ahci::xfer, GptPartition).
THEOREM WritesStayInPartition == Spec => PartitionConfined
<1> DEFINE A == \A p \in Port : \A s \in Offsets(Capacity[p]) :
                  media'[p][s] # media[p][s] =>
                    mounted /\ p = disks[1].port /\ s \in part.start .. part.last
<1>1. IInv => Inv /\ SlotsTyped /\ PartTyped BY Zenon DEF IInv, Typed, Booted, Published
<1>2. IInv /\ [Next]_vars => [A]_vars
  BY <1>1, OnlyDrivesWrite, DriveWritesConfined, Zenon
<1> QED BY <1>2, Invariance, PTL DEF Spec, PartitionConfined

\* A command that the drive has not finished keeps its operation and its sectors: xfer
\* takes the slot only when it is free, whatever happened to earlier calls.
THEOREM SlotsStayQuiet == Spec => SlotQuiet
<1> DEFINE A == \A p \in Port : port[p].ci /\ port'[p].ci => port'[p].slot = port[p].slot
<1>1. IInv => Inv BY Zenon DEF IInv
<1>2. ASSUME Inv, [Next]_vars PROVE A
  <2>1. CASE UNCHANGED port BY <2>1, Zenon
  <2>2. CASE XferIssue
    BY <1>2, <2>2, Zenon DEF Inv, PortShape, XferIssue, SlotFree
  <2>3. ASSUME NEW p \in Port, Device(p) PROVE A
    <3>1. CASE DevAccept(p) BY <1>2, <3>1, Zenon DEF Inv, PortShape, DevAccept
    <3>2. CASE DevMove(p) BY <1>2, <3>2, Zenon DEF Inv, PortShape, DevMove
    <3>3. CASE DevComplete(p) BY <1>2, <3>3, Zenon DEF Inv, PortShape, DevComplete
    <3>4. CASE DevFail(p) BY <1>2, <3>4 DEF Inv, PortShape, DevFail
    <3> QED BY <2>3, <3>1, <3>2, <3>3, <3>4, Zenon DEF Device
  <2>4. ASSUME NEW op, NEW d, NEW lba, NEW n, NEW data, AhciCall(op, d, lba, n, data)
        PROVE  UNCHANGED port
    BY <2>4, Zenon DEF AhciCall, XferEnter
  <2>5. ASSUME NEW op, NEW lba, NEW n, NEW data, BlockCall(op, lba, n, data)
        PROVE  UNCHANGED port
    BY <2>4, <2>5, Zenon DEF BlockCall
  <2>6. CASE XferReady \/ XferWait \/ XferStatus
    BY <2>1, <2>6, Zenon DEF XferReady, XferWait, XferStatus
  <2>7. CASE Request BY <2>1, <2>4, <2>5, <2>7, Zenon DEF Request
  <2>8. CASE PortInit BY <2>1, <2>8, Zenon DEF PortInit, ahciVars, XferEnter
  <2>9. CASE FsInit BY <2>1, <2>4, <2>9, Zenon DEF FsInit, ahciVars
  <2>10. CASE DetectRead BY <2>1, <2>4, <2>10, Zenon DEF DetectRead
  <2>11. CASE ReadSuper BY <2>1, <2>5, <2>11, Zenon DEF ReadSuper
  <2>12. CASE Identified \/ DetectHeader \/ DetectEntries \/ DetectPublish \/ TryPartition
              \/ Mount \/ NothingMounted \/ UNCHANGED vars
    BY <2>1, <2>12, Zenon DEF Identified, DetectHeader, DetectEntries, DetectPublish, TryPartition,
                       Mount, NothingMounted, vars, ahciVars
  <2> QED BY <1>2, <2>2, <2>3, <2>6, <2>7, <2>8, <2>9, <2>10, <2>11, <2>12, Zenon
          DEF Next, Kernel, XferStep
<1>3. IInv /\ [Next]_vars => [A]_vars BY <1>1, <1>2, Zenon
<1> QED BY <1>3, Invariance, PTL DEF Spec, SlotQuiet

=============================================================================
