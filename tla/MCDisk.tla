------------------------------- MODULE MCDisk -------------------------------
(* An instance of Disk for TLC. *)
EXTENDS Disk

\* The smallest disks, one that is not a number of sectors, and larger ones.
MCDiskSizes == {512 * n : n \in {2113, 2114, 4095, 4096, 4097, 4128, 4129, 4130, 4131, 6144, 6177, 6178, 8192, 12288}} \cup {4194400, 512 * 2048 * 131}

\* A sector, a part of the alignment, the alignment, more, and less than nothing.
PartSizes == {0, 1, 1000, 1048576, 1049000, -524288}
MCSpecLists == UNION {[1 .. n -> PartSizes] : n \in 0 .. 2}
                 \cup {<<1, a, b>> : a, b \in {0, 512, 1048576}} \cup {<<1, 1, 1, 1, 1>>, <<1, 1, 1, 0>>}
                 \cup {[i \in 1 .. 129 |-> 1]}   \* one more than a GPT has slots for

\* The first and the last sector of a section, and the ones next to them.
MCNear == {-1, 0}
=============================================================================
