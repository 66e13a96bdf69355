----------------------------- MODULE ExtGeometry -----------------------------
(***************************************************************************)
(* pkg/ext/geometry.go: how a device of d blocks is cut into block groups. *)
(* Every group starts with its metadata: a copy of the superblock and of   *)
(* the descriptor table (sparse_super), two bitmaps, an inode table.  A    *)
(* final group too short for its own metadata and a few data blocks is     *)
(* dropped.  Sizes are in blocks, the block size does not appear.          *)
(***************************************************************************)
EXTENDS Integers

CONSTANTS BlocksPerGroup,
          DescsPerBlock,      \* blockSize / descSize
          InodesPerBlock,
          BlocksPerInode,     \* bytesPerInode / blockSize
          MinInodesPerGroup,  \* 16 in the code
          InodeRound,         \* 8
          runtMinDataBlocks,
          MinFree,            \* blocks group 0 has to leave beyond its overhead: 8
          firstIno

ASSUME GeometryAssumption ==
    /\ BlocksPerGroup \in Nat \ {0}
    /\ DescsPerBlock \in Nat \ {0}
    /\ InodesPerBlock \in Nat \ {0}
    /\ BlocksPerInode \in Nat \ {0}
    /\ MinInodesPerGroup \in Nat
    /\ InodeRound \in Nat \ {0}
    /\ runtMinDataBlocks \in Nat
    /\ MinFree \in Nat
    /\ firstIno \in Nat

Smaller(a, b) == IF a <= b THEN a ELSE b
Larger(a, b) == IF a >= b THEN a ELSE b

ceilDiv(a, b) == (a + b - 1) \div b

roundUp(a, mult) == ceilDiv(a, mult) * mult

\* What is left of n once every factor base is divided out is one.
isPowerOf(n, base) == \E k \in 0 .. n : n = base ^ k

hasSuperblock(gr) == gr = 0 \/ \E base \in {3, 5, 7} : isPowerOf(gr, base)

groupStart(g, gr) == g.first + gr * BlocksPerGroup

\* Blocks that the superblock and the descriptor table take in a group.
copies(g, gr) == IF hasSuperblock(gr) THEN 1 + g.gdtBlocks ELSE 0

overhead(g, gr) == 2 + g.inodeTableBlocks + copies(g, gr)

groupLayout(g, gr) ==
    LET b == groupStart(g, gr) + copies(g, gr)
    IN  [blockBitmap |-> b, inodeBitmap |-> b + 1, inodeTable |-> b + 2,
         firstData |-> b + 2 + g.inodeTableBlocks]

blocksInGroup(g, gr) ==
    Smaller(groupStart(g, gr) + BlocksPerGroup, g.total) - groupStart(g, gr)

inodesPerGroup(d, k) ==
    Smaller(roundUp(Larger(ceilDiv(d \div BlocksPerInode, k), MinInodesPerGroup), InodeRound),
            BlocksPerGroup)

\* One turn of the loop, for k groups: all of them on the device when no group
\* has been dropped yet, k whole ones otherwise.
turn(d, first, k) ==
    LET ipg == inodesPerGroup(d, k)
    IN  [first |-> first,
         total |-> IF k = ceilDiv(d - first, BlocksPerGroup) THEN d
                   ELSE first + k * BlocksPerGroup,
         groups |-> k,
         inodesPerGroup |-> ipg,
         inodesCount |-> ipg * k,
         gdtBlocks |-> ceilDiv(k, DescsPerBlock),
         inodeTableBlocks |-> ceilDiv(ipg, InodesPerBlock)]

\* Mutant: a short final group is always kept.
settled_runtKept(g) == TRUE

\* The loop ends: the final group holds its metadata and some data.
settled(g) ==
    \/ g.groups <= 1
    \/ blocksInGroup(g, g.groups - 1) >= overhead(g, g.groups - 1) + runtMinDataBlocks

\* The loop counts the groups down until the final one is no runt.
computeGeometry(d, first) ==
    LET counts == {k \in 1 .. ceilDiv(d - first, BlocksPerGroup) : settled(turn(d, first, k))}
    IN  turn(d, first, CHOOSE k \in counts : \A j \in counts : j <= k)

\* A device no longer than its boot block has no group at all, and the first turn of
\* the loop divides the inodes by the number of groups: computeGeometry panics.  (The
\* difference is unsigned; the rounding up takes the one below zero back to none.)
panics(d, first) == ceilDiv(d - first, BlocksPerGroup) = 0

errTooSmall(g) ==
    \/ g.inodesPerGroup < firstIno
    \/ g.total < overhead(g, 0) + MinFree
=============================================================================
