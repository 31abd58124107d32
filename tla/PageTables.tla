----------------------------- MODULE PageTables -----------------------------
(***************************************************************************)
(* The page tables of mm.rs: vmm_map_page_flags, vmm_unmap_page and        *)
(* vmm_virt_to_phys over the one tree that all tasks share.                *)
(*                                                                         *)
(* vmm_map_page_flags takes no lock.  Each level of its walk is a step of  *)
(* its own; a missing table is allocated with pmm_alloc_page and linked    *)
(* when that returns.  None of the modelled ranges lies under one of the   *)
(* boot loader's large pages.                                              *)
(***************************************************************************)
EXTENDS FrameAllocator

CONSTANTS
  Levels,  \* levels of the tree: 4
  Radix    \* entries of a table: 512

PML4 == 0             \* the root is a frame that the boot loader keeps

ASSUME TableAssumption ==
  /\ Levels \in Nat \ {0}
  /\ Radix \in Nat \ {0}
  /\ \A n \in 0 .. Levels : Radix ^ n \in Nat \ {0}
  /\ \A m \in MemMaps : PML4 \notin UsablePages(m)

VARIABLES
  table,  \* the entries of every frame that is a table
  walk    \* each processor's progress in vmm_map_page_flags

tableVars == <<table, walk>>

VMM_NO_PHYS == -2
Absent == [frame |-> VMM_NO_PHYS, user |-> FALSE]
EmptyTable == [i \in 0 .. Radix - 1 |-> Absent]
NoWalk == [at |-> "out", va |-> 0, frame |-> 0, user |-> FALSE, level |-> 1, tab |-> PML4]

\* The index that virtual page va selects at a level; level 1 is the PML4.
Slot(va, level) == (va \div Radix ^ (Levels - level)) % Radix

\* The tables a walk to va passes through, VMM_NO_PHYS from where one is missing.
Tables(va) ==
  LET tab[l \in 1 .. Levels] ==
        IF l = 1 THEN PML4
        ELSE IF tab[l - 1] = VMM_NO_PHYS THEN VMM_NO_PHYS
        ELSE table[tab[l - 1]][Slot(va, l - 1)].frame
  IN tab

LeafTable(va) == Tables(va)[Levels]

vmm_virt_to_phys(va) ==
  IF LeafTable(va) = VMM_NO_PHYS
  THEN VMM_NO_PHYS
  ELSE table[LeafTable(va)][Slot(va, Levels)].frame

\* Whether ring 3 reaches va: every level of the walk says so.
UserCanReach(va) ==
  /\ vmm_virt_to_phys(va) # VMM_NO_PHYS
  /\ \A l \in 1 .. Levels : table[Tables(va)[l]][Slot(va, l)].user

-----------------------------------------------------------------------------
(* vmm_map_page_flags *)

InWalk(c) == walk[c].at # "out"
Here(c) == table[walk[c].tab][Slot(walk[c].va, walk[c].level)]

\* The entry the walk is at becomes e.
SetHere(c, e) == [table EXCEPT ![walk[c].tab][Slot(walk[c].va, walk[c].level)] = e]

\* The call: va is to lead to frame.
MapEnter(c, va, frame, user) ==
  /\ walk[c].at = "out"
  /\ walk' = [walk EXCEPT ![c] = [at |-> "down", va |-> va, frame |-> frame, user |-> user,
                                  level |-> 1, tab |-> PML4]]
  /\ UNCHANGED table

Descend(c, tab) ==
  walk' = [walk EXCEPT ![c].at = "down", ![c].tab = tab, ![c].level = @ + 1]

\* The permission of an existing table widens for a user page below it.
UpperFlags(e, user) == [e EXCEPT !.user = @ \/ user]

\* A level whose table exists.
MapDown(c) ==
  /\ walk[c].at = "down"
  /\ walk[c].level < Levels
  /\ Here(c) # Absent
  /\ table' = SetHere(c, UpperFlags(Here(c), walk[c].user))
  /\ Descend(c, Here(c).frame)
  /\ UNCHANGED frameVars

\* A level whose table is missing asks for a frame ...
MapNeedsTable(c) ==
  /\ walk[c].at = "down"
  /\ walk[c].level < Levels
  /\ Here(c) = Absent
  /\ walk' = [walk EXCEPT ![c].at = "grow"]
  /\ PmmEnter(c)
  /\ UNCHANGED table

\* ... and links it, then clears it; without a frame the kernel panics.
MapPanics(c) == walk[c].at = "grow" /\ ~InPmm(c) /\ page[c] = PMM_NO_PAGE

MapGrow(c) ==
  /\ walk[c].at = "grow"
  /\ ~InPmm(c)
  /\ page[c] # PMM_NO_PAGE
  /\ LET linked == SetHere(c, [frame |-> page[c], user |-> walk[c].user]) IN
     table' = [f \in DOMAIN linked \cup {page[c]} |->
                 IF f = page[c] THEN EmptyTable ELSE linked[f]]
  /\ Descend(c, page[c])
  /\ UNCHANGED frameVars

\* The leaf is written whatever it held.
MapLeaf(c) ==
  /\ walk[c].at = "down"
  /\ walk[c].level = Levels
  /\ table' = SetHere(c, [frame |-> walk[c].frame, user |-> walk[c].user])
  /\ walk' = [walk EXCEPT ![c].at = "out"]
  /\ UNCHANGED frameVars

MapStep(c) == MapDown(c) \/ MapNeedsTable(c) \/ MapGrow(c) \/ MapLeaf(c)

(* vmm_unmap_page: neither the frame nor the tables are given back. *)
vmm_unmap_page(va) ==
  table' = IF vmm_virt_to_phys(va) = VMM_NO_PHYS
           THEN table
           ELSE [table EXCEPT ![LeafTable(va)][Slot(va, Levels)] = Absent]

TableInit ==
  /\ table = [f \in {PML4} |-> EmptyTable]
  /\ walk = [c \in CPU |-> NoWalk]
=============================================================================
