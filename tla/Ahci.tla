-------------------------------- MODULE Ahci --------------------------------
(***************************************************************************)
(* ahci.rs: one command at a time goes through slot 0 of a port, and all   *)
(* data through one staging window that every port shares.                 *)
(*                                                                         *)
(* xfer polls and gives up after a number of reads of a register.  Giving  *)
(* up does not stop the command: CI stays set and the device may still     *)
(* move data to or from the window later.  A sector is the unit of data.   *)
(***************************************************************************)
EXTENDS Integers, Sequences, FiniteSetsExt

CONSTANTS
  Port,          \* the ports with a drive
  Capacity,      \* Capacity[p]: sectors of the drive on port p
  WindowSectors, \* sectors of the staging window: AHCI_MAX_TRANSFER
  XFER_SPINS     \* how often a register is polled: 20 000 000

ASSUME AhciAssumption ==
  /\ Port \subseteq Nat
  /\ \A p \in Port : Capacity[p] \in Nat \ {0}
  /\ WindowSectors \in Nat \ {0}
  /\ XFER_SPINS \in Nat \ {0}

VARIABLES
  media,   \* the sectors of every drive
  window,  \* the DMA staging window
  port,    \* the registers and slot 0 of every port
  x        \* the call of xfer in progress, or the last one

ahciVars == <<media, window, port, x>>

Blank == <<"zero">>
NoCommand == [op |-> "none", lba |-> 0, n |-> 0]
QuietPort == [ci |-> FALSE, busy |-> FALSE, tfes |-> FALSE, slot |-> NoCommand, moved |-> 0]
NoXfer == [at |-> "out", port |-> 0, op |-> "none", lba |-> 0, n |-> 0, data |-> <<>>,
           polls |-> 0, ok |-> FALSE, clean |-> TRUE]

Offsets(n) == 0 .. n - 1
IdentifyData(p) == <<"ident", Capacity[p]>>

-----------------------------------------------------------------------------
(* xfer *)

\* reset_page: the first page of the window, here its first sector, is cleared.
Cleared == [window EXCEPT ![0] = Blank]

\* The cleared window, with the data of a write staged in it.
Staged(op, n, data) ==
  [i \in Offsets(WindowSectors) |->
     IF op = "write" /\ i < n THEN data[i + 1] ELSE Cleared[i]]

\* The call, up to the wait for the port: staging comes before any check.
\* clean is history: no command was in flight when the call began.
XferEnter(p, op, lba, n, data) ==
  /\ x.at = "out"
  /\ n \in 1 .. WindowSectors
  /\ window' = Staged(op, n, data)
  /\ x' = [at |-> "ready", port |-> p, op |-> op, lba |-> lba, n |-> n, data |-> data,
           polls |-> 0, ok |-> FALSE, clean |-> \A q \in Port : ~port[q].ci]
  /\ UNCHANGED <<media, port>>

XferFails == x' = [x EXCEPT !.at = "out", !.ok = FALSE]

\* Mutant: one poll too many.
PollOnceMore(clear, label) ==
  \/ clear /\ x' = [x EXCEPT !.at = label, !.polls = 0]
  \/ ~clear /\ x.polls < XFER_SPINS /\ x' = [x EXCEPT !.polls = @ + 1]
  \/ ~clear /\ x.polls = XFER_SPINS /\ XferFails

\* One poll of a register: go to label when it is clear, else count or give up.
Poll(clear, label) ==
  \/ clear /\ x' = [x EXCEPT !.at = label, !.polls = 0]
  \/ ~clear /\ x.polls + 1 < XFER_SPINS /\ x' = [x EXCEPT !.polls = @ + 1]
  \/ ~clear /\ x.polls + 1 = XFER_SPINS /\ XferFails

XferReady ==
  /\ x.at = "ready"
  /\ Poll(~port[x.port].busy, "slot")
  /\ UNCHANGED <<media, window, port>>

\* Mutant: the slot is taken for free once the port is not busy.
SlotFreeAssumed(p) == TRUE

SlotFree(p) == ~port[p].ci

\* Slot 0 is written and issued if it is free.
XferIssue ==
  /\ x.at = "slot"
  /\ \/ ~SlotFree(x.port) /\ XferFails /\ UNCHANGED port
     \/ /\ SlotFree(x.port)
        /\ port' = [port EXCEPT ![x.port] =
                      [@ EXCEPT !.ci = TRUE, !.tfes = FALSE, !.moved = 0,
                                !.slot = [op |-> x.op, lba |-> x.lba, n |-> x.n]]]
        /\ x' = [x EXCEPT !.at = "wait"]
  /\ UNCHANGED <<media, window>>

\* Mutant: the wait for completion never gives up.
PollForever(clear, label) ==
  \/ clear /\ x' = [x EXCEPT !.at = label, !.polls = 0]
  \/ ~clear /\ UNCHANGED x

PollCompletion(clear, label) == Poll(clear, label)

XferWait ==
  /\ x.at = "wait"
  /\ PollCompletion(~port[x.port].ci, "status")
  /\ UNCHANGED <<media, window, port>>

\* Mutant: completion is taken for success.
ErrorIgnored(p) == FALSE

Error(p) == port[p].tfes

\* The error bits; then a read is copied out of the window.
XferStatus ==
  /\ x.at = "status"
  /\ \/ Error(x.port) /\ XferFails
     \/ /\ ~Error(x.port)
        /\ x' = [x EXCEPT !.at = "out", !.ok = TRUE,
                   !.data = IF x.op = "write" THEN @ ELSE [i \in 1 .. x.n |-> window[i - 1]]]
  /\ UNCHANGED <<media, window, port>>

XferStep == XferReady \/ XferIssue \/ XferWait \/ XferStatus

-----------------------------------------------------------------------------
(* The drive: takes its time, moves a sector per step, may fail or hang. *)

DevAccept(p) ==
  /\ port[p].ci
  /\ ~port[p].busy
  /\ ~port[p].tfes
  /\ port' = [port EXCEPT ![p].busy = TRUE]
  /\ UNCHANGED <<media, window, x>>

Moves(slot) == slot.op \in {"read", "write", "identify"}

\* The next sector of an accepted command that lies on the drive.
DevMove(p) ==
  LET s == port[p].slot
      i == port[p].moved IN
  /\ port[p].busy
  /\ Moves(s)
  /\ i < s.n
  /\ s.lba + i < Capacity[p]
  /\ \/ s.op = "write" /\ media' = [media EXCEPT ![p][s.lba + i] = window[i]] /\ UNCHANGED window
     \/ s.op = "read" /\ window' = [window EXCEPT ![i] = media[p][s.lba + i]] /\ UNCHANGED media
     \/ s.op = "identify" /\ window' = [window EXCEPT ![i] = IdentifyData(p)] /\ UNCHANGED media
  /\ port' = [port EXCEPT ![p].moved = @ + 1]
  /\ UNCHANGED x

DevComplete(p) ==
  /\ port[p].busy
  /\ Moves(port[p].slot) => port[p].moved = port[p].slot.n
  /\ port' = [port EXCEPT ![p].ci = FALSE, ![p].busy = FALSE]
  /\ UNCHANGED <<media, window, x>>

\* A failed command is withdrawn, or keeps the slot until the port is reset.
DevFail(p) ==
  /\ port[p].busy
  /\ \E ci \in BOOLEAN :
       port' = [port EXCEPT ![p].ci = ci, ![p].busy = FALSE, ![p].tfes = TRUE]
  /\ UNCHANGED <<media, window, x>>

Device(p) == DevAccept(p) \/ DevMove(p) \/ DevComplete(p) \/ DevFail(p)
=============================================================================
