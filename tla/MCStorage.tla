----------------------------- MODULE MCStorage ------------------------------
(* An instance of Storage: two drives, of which the first holds partitions. *)
EXTENDS Storage

TwoDrives == [p \in Port |-> IF p = 1 THEN 8 ELSE 2]

Entry(u, l, s, e) == [used |-> u, linux |-> l, start |-> s, last |-> e]
Other == Entry(TRUE, FALSE, 4, 4)
Broken == Entry(TRUE, TRUE, 7, 7)
Linux == Entry(TRUE, TRUE, 5, 6)
Unused == Entry(FALSE, FALSE, 0, 0)
Backwards == Entry(TRUE, TRUE, 7, 6)
\* An entry that reaches beyond the drive.
Long == Entry(TRUE, TRUE, 5, 9)

\* A drive whose header announces array, while sectors 2 and 3 hold table.
Drive(sane, crc, array, table) ==
  [s \in Offsets(8) |->
     CASE s = 1 -> <<"gpt", sane, crc, 2, array>>
       [] s = 2 -> table[1]
       [] s = 3 -> table[2]
       [] s = 5 -> <<"ext4", TRUE>>
       [] s = 7 -> <<"ext4", FALSE>>
       [] OTHER -> Blank]

Array(a, b, c, d) == <<<<"entries", a, b>>, <<"entries", c, d>>>>
Good == Array(Unused, Other, Broken, Linux)
Crowded == Array(Backwards, Linux, Other, Broken)
TooLong == Array(Unused, Long, Unused, Unused)

Empty == [s \in Offsets(2) |-> Blank]
With(d) == [p \in Port |-> IF p = 1 THEN d ELSE Empty]

DriveLayouts ==
  {With(Drive(TRUE, TRUE, Good, Good)), With(Drive(TRUE, TRUE, Crowded, Crowded)),
   With(Drive(TRUE, TRUE, Good, Crowded)), With(Drive(TRUE, FALSE, Good, Good)),
   With(Drive(TRUE, TRUE, TooLong, TooLong))}
=============================================================================
