------------------------------ MODULE Storage -------------------------------
(***************************************************************************)
(* The storage stack above the driver: pci::enumerate and ahci::init bring *)
(* the ports up, fs::init reads the partition table (gpt.rs) and mounts    *)
(* the first Linux partition that ext4 accepts, and the file system then   *)
(* reads and writes blocks of that partition.                              *)
(*                                                                         *)
(* One processor runs all of this.  Every read and write is a call of      *)
(* xfer, during which the drives run.                                      *)
(***************************************************************************)
EXTENDS Ahci

CONSTANTS
  Layouts,         \* what the drives may hold: one is chosen
  MAX_PARTITIONS,  \* 16
  Payload,         \* the sectors that the file system writes
  MaxRequests      \* bound: requests of the file system

ASSUME LayoutAssumption ==
  \A m \in Layouts : DOMAIN m = Port /\ \A p \in Port : DOMAIN m[p] = Offsets(Capacity[p])

VARIABLES
  pc,        \* where the boot processor is
  ports,     \* the ports pci::enumerate has still to bring up
  disks,     \* AHCI_DEVICES: [port, sectors] in order of registration
  gpt,       \* GPT_DISKS[0]: the partitions, and parsed
  scan,      \* the locals of gpt::detect and of the loop in fs::init
  part,      \* PART
  mounted,   \* MOUNT.is_some()
  requests   \* bound: requests made

bootVars == <<ports, disks, gpt, scan, part, mounted, requests>>
vars == <<ahciVars, bootVars, pc>>

NoPart == [linux |-> FALSE, start |-> 0, last |-> 0]
NoScan == [header |-> <<>>, next |-> 0, sectors |-> <<>>]

Init ==
  /\ media \in Layouts
  /\ window = [i \in Offsets(WindowSectors) |-> Blank]
  /\ port = [p \in Port |-> QuietPort]
  /\ x = NoXfer
  /\ pc = "enumerate"
  /\ ports = Port
  /\ disks = <<>>
  /\ gpt = [parsed |-> FALSE, parts |-> <<>>]
  /\ scan = NoScan
  /\ part = NoPart
  /\ mounted = FALSE
  /\ requests = 0

Goto(label) == pc' = label

\* xfer has returned and the processor is at label.
Running(label) == pc = label /\ x.at = "out"

\* ahci::read, write and flush: the disk must exist and hold the range.
AhciCall(op, d, lba, n, data) ==
  \/ /\ d \in DOMAIN disks
     /\ op # "flush" => lba + n <= disks[d].sectors
     /\ XferEnter(disks[d].port, op, lba, n, data)
  \/ /\ ~(d \in DOMAIN disks /\ (op # "flush" => lba + n <= disks[d].sectors))
     /\ x' = [NoXfer EXCEPT !.op = op]
     /\ UNCHANGED <<media, window, port>>

-----------------------------------------------------------------------------
(* pci::enumerate and ahci::init *)

\* pci::enumerate brings up the ports with a drive one after the other.
NextPort == Min(ports)

\* The port's engines stop, or the kernel panics; its pages are there, or it is
\* left out; then IDENTIFY is issued.
PortInit ==
  LET p == NextPort IN
  /\ Running("enumerate")
  /\ ports # {}
  /\ ports' = ports \ {p}
  /\ \/ Goto("panic") /\ UNCHANGED ahciVars
     \/ UNCHANGED <<ahciVars, pc>>
     \/ XferEnter(p, "identify", 0, 1, <<>>) /\ Goto("identify")
  /\ UNCHANGED <<disks, gpt, scan, part, mounted, requests>>

\* The drive is registered with the size found in the window.
Identified ==
  /\ Running("identify")
  /\ Goto("enumerate")
  /\ disks' = IF x.ok /\ x.data[1][1] = "ident"
              THEN Append(disks, [port |-> x.port, sectors |-> x.data[1][2]])
              ELSE disks
  /\ UNCHANGED <<ahciVars, ports, gpt, scan, part, mounted, requests>>

-----------------------------------------------------------------------------
(* gpt::detect.  A header is <<"gpt", sane, crc, entries_lba, entries>>:    *)
(* whether its sizes make sense, whether its own checksum is right, where   *)
(* the entry array starts, and the array whose checksum it carries.         *)

\* fs::init: without a disk there is nothing to mount.
FsInit ==
  /\ Running("enumerate")
  /\ ports = {}
  /\ \/ disks = <<>> /\ Goto("idle") /\ UNCHANGED ahciVars
     \/ disks # <<>> /\ AhciCall("read", 1, 1, 1, <<>>) /\ Goto("header")
  /\ UNCHANGED bootVars

\* Signature, sizes and checksum.  A header size that exceeds the sector, on which the code
\* panics, counts as wrong.
HeaderOk(h) == h[1] = "gpt" /\ h[2] /\ h[3]

DetectHeader ==
  /\ Running("header")
  /\ \/ /\ x.ok /\ HeaderOk(x.data[1])
        /\ scan' = [NoScan EXCEPT !.header = x.data[1]]
        /\ Goto("detect")
     \/ /\ ~(x.ok /\ HeaderOk(x.data[1]))
        /\ Goto("idle")
        /\ UNCHANGED scan
  /\ UNCHANGED <<ahciVars, ports, disks, gpt, part, mounted, requests>>

EntryArray == scan.header[5]

DetectRead ==
  /\ Running("detect")
  /\ scan.next < Len(EntryArray)
  /\ AhciCall("read", 1, scan.header[4] + scan.next, 1, <<>>)
  /\ Goto("entries")
  /\ UNCHANGED bootVars

\* The sector is added to what the checksum covers.
DetectEntries ==
  /\ Running("entries")
  /\ \/ ~x.ok /\ Goto("idle") /\ UNCHANGED scan
     \/ x.ok /\ Goto("detect") /\ scan' = [scan EXCEPT !.next = @ + 1,
                                                       !.sectors = Append(@, x.data[1])]
  /\ UNCHANGED <<ahciVars, ports, disks, gpt, part, mounted, requests>>

\* The entries of an array of sectors <<"entries", e1, e2 ...>>, in order.
EntriesOf(sectors) ==
  LET from[k \in 0 .. Len(sectors)] ==
        IF k = 0 THEN <<>> ELSE from[k - 1] \o Tail(sectors[k])
  IN from[Len(sectors)]

\* An entry that is in use and not senseless.
ValidEntry(e) == e.used /\ e.start # 0 /\ e.last >= e.start

\* The first MAX_PARTITIONS valid entries.
Partitions(sectors) ==
  LET valid == SelectSeq(EntriesOf(sectors), ValidEntry)
      count == Min({Len(valid), MAX_PARTITIONS})
  IN [i \in 1 .. count |-> [linux |-> valid[i].linux, start |-> valid[i].start,
                            last |-> valid[i].last]]

\* The fields of a header and of its entries are u64, and an entry array is made of
\* sectors with entries.
ASSUME TableAssumption ==
  \A m \in Layouts : \A p \in Port : \A s \in Offsets(Capacity[p]) :
    LET h == m[p][s] IN
    HeaderOk(h) =>
      /\ h[4] \in Nat
      /\ Len(h[5]) \in Nat /\ DOMAIN h[5] = 1 .. Len(h[5])
      /\ \A k \in DOMAIN h[5] : h[5][k][1] = "entries"
      /\ Partitions(h[5]) \in Seq([linux : BOOLEAN, start : Nat, last : Nat])

\* Mutant: the table is believed without its checksum.
ArrayOkAssumed(sectors) == \A k \in DOMAIN sectors : sectors[k][1] = "entries"

ArrayOk(sectors) == sectors = EntryArray

\* All sectors are read: the table is published only if the checksum is right.
DetectPublish ==
  /\ Running("detect")
  /\ scan.next = Len(EntryArray)
  /\ \/ /\ ArrayOk(scan.sectors)
        /\ gpt' = [parsed |-> TRUE, parts |-> Partitions(scan.sectors)]
        /\ Goto("mount")
     \/ /\ ~ArrayOk(scan.sectors)
        /\ Goto("idle")
        /\ UNCHANGED gpt
  /\ scan' = NoScan
  /\ UNCHANGED <<ahciVars, ports, disks, part, mounted, requests>>

-----------------------------------------------------------------------------
(* fs::init, the loop over partitions, and GptPartition as a block device *)

BlockCount == part.last - part.start + 1

\* Mutant: a range may end one block behind the partition.
InPartitionLoose(lba, n) == lba + n <= BlockCount + 1

InPartition(lba, n) == lba + n <= BlockCount

\* read_blocks, write_blocks: relative to the partition, and inside it.
BlockCall(op, lba, n, data) ==
  \/ InPartition(lba, n) /\ AhciCall(op, 1, part.start + lba, n, data)
  \/ /\ ~InPartition(lba, n)
     /\ x' = [NoXfer EXCEPT !.op = op]
     /\ UNCHANGED <<media, window, port>>

\* The next partition: PART is set for a Linux one and ext4 reads its superblock,
\* here the first sector.
TryPartition ==
  LET i == scan.next + 1 IN
  /\ Running("mount")
  /\ i <= Len(gpt.parts)
  /\ scan' = [scan EXCEPT !.next = i]
  /\ \/ /\ gpt.parts[i].linux
        /\ part' = gpt.parts[i]
        /\ Goto("read_super")
     \/ /\ ~gpt.parts[i].linux
        /\ UNCHANGED <<part, pc>>
  /\ UNCHANGED <<ahciVars, ports, disks, gpt, mounted, requests>>

ReadSuper ==
  /\ Running("read_super")
  /\ BlockCall("read", 0, 1, <<>>)
  /\ Goto("super")
  /\ UNCHANGED bootVars

Mountable(data) == data[1] = <<"ext4", TRUE>>

Mount ==
  /\ Running("super")
  /\ mounted' = (x.ok /\ Mountable(x.data))
  /\ Goto(IF mounted' THEN "idle" ELSE "mount")
  /\ UNCHANGED <<ahciVars, ports, disks, gpt, scan, part, requests>>

NothingMounted ==
  /\ Running("mount")
  /\ scan.next = Len(gpt.parts)
  /\ Goto("idle")
  /\ UNCHANGED <<ahciVars, bootVars>>

-----------------------------------------------------------------------------
\* A request of the mounted file system: any range, inside the partition or not.
Request ==
  /\ Running("idle")
  /\ mounted
  /\ requests < MaxRequests
  /\ requests' = requests + 1
  /\ \E lba \in 0 .. BlockCount : \E n \in 1 .. WindowSectors :
       \/ BlockCall("read", lba, n, <<>>)
       \/ \E v \in Payload : BlockCall("write", lba, n, [i \in 1 .. n |-> <<"data", v, i>>])
       \/ AhciCall("flush", 1, 0, 1, <<>>)
  /\ UNCHANGED <<ports, disks, gpt, scan, part, mounted, pc>>

Kernel ==
  \/ XferStep /\ UNCHANGED <<bootVars, pc>>
  \/ PortInit \/ Identified
  \/ FsInit \/ DetectHeader \/ DetectRead \/ DetectEntries \/ DetectPublish
  \/ TryPartition \/ ReadSuper \/ Mount \/ NothingMounted

Next ==
  \/ Kernel
  \/ Request
  \/ \E p \in Port : Device(p) /\ UNCHANGED <<bootVars, pc>>

\* The processor goes on; nothing is assumed of the drives.
Spec == Init /\ [][Next]_vars /\ WF_vars(Kernel)

-----------------------------------------------------------------------------
(* Properties *)

\* The bounds of PART are u64, as are the fields of the partition table they come from.
PartTyped == part.start \in Nat /\ part.last \in Nat

\* The drives keep their sectors, a poll never outlasts XFER_SPINS, a drive moves no more
\* than it was asked for, and the kernel is at one of the places of its boot sequence.
TypeOK ==
  /\ \A p \in Port : DOMAIN media[p] = Offsets(Capacity[p])
  /\ DOMAIN window = Offsets(WindowSectors)
  /\ x.at \in {"out", "ready", "slot", "wait", "status"}
  /\ x.polls \in 0 .. XFER_SPINS - 1
  /\ \A p \in Port : port[p].moved \in 0 .. port[p].slot.n
  /\ pc \in {"enumerate", "identify", "header", "detect", "entries", "mount", "read_super",
             "super", "idle", "panic"}
  /\ \A d \in DOMAIN disks : disks[d].port \in Port
  /\ mounted \in BOOLEAN
  /\ PartTyped

\* A command that has been issued keeps its operation and its sectors until the
\* drive is done with it, also after xfer has given up on it.
SlotQuiet ==
  [][\A p \in Port : port[p].ci /\ port'[p].ci => port'[p].slot = port[p].slot]_vars

\* A call that began with no command in flight and succeeded is faithful: a read
\* returned the sectors on the drive, a write left its data there.
TransfersFaithful ==
  x.at = "out" /\ x.ok /\ x.clean /\ x.op \in {"read", "write"} =>
    \A i \in 1 .. x.n : x.data[i] = media[x.port][x.lba + i - 1]

\* Nothing outside the partition the file system was mounted from is ever
\* written, also by commands that finish late.
PartitionConfined ==
  [][\A p \in Port : \A s \in Offsets(Capacity[p]) :
       media'[p][s] # media[p][s] =>
         mounted /\ p = disks[1].port /\ s \in part.start .. part.last]_vars

\* What the drive on port p really holds as a partition table.
TableOn(p) == LET h == media[p][1] IN
              [k \in 1 .. Len(h[5]) |-> media[p][h[4] + k - 1]]

\* Late data never passes for a table or a superblock: what is published are the
\* partitions of a table that its checksum covers, and what is mounted is a Linux
\* partition of it with an ext4 superblock.
MountSound ==
  /\ gpt.parsed =>
       LET p == disks[1].port IN
       /\ HeaderOk(media[p][1])
       /\ TableOn(p) = media[p][1][5]
       /\ gpt.parts = Partitions(TableOn(p))
  /\ mounted /\ requests = 0 =>
       /\ \E i \in DOMAIN gpt.parts : gpt.parts[i] = part
       /\ part.linux
       /\ media[disks[1].port][part.start] = <<"ext4", TRUE>>

\* Every call of xfer returns, whatever the drive does.
XferReturns == (x.at # "out") ~> (x.at = "out")
=============================================================================
