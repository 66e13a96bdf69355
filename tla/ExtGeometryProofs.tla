------------------------- MODULE ExtGeometryProofs -------------------------
(***************************************************************************)
(* computeGeometry, for every device, block and inode size: the groups cut *)
(* the device without a gap, each holds its own metadata, and every inode  *)
(* has its place in a table.                                               *)
(***************************************************************************)
EXTENDS ExtGeometry, TLAPS

\* The blocks of a group, as far as the file system goes.
blocksOf(g, gr) == groupStart(g, gr) .. groupStart(g, gr) + blocksInGroup(g, gr) - 1

groupsOf(g) == 0 .. g.groups - 1

\* The groups share out the blocks behind the boot block, and the file system ends
\* on the device.
GroupsCut(g, d) ==
    /\ g.total <= d
    /\ \A gr \in groupsOf(g) : blocksOf(g, gr) \subseteq g.first .. g.total - 1
    /\ \A b \in g.first .. g.total - 1 : \E gr \in groupsOf(g) : b \in blocksOf(g, gr)
    /\ \A gr, h \in groupsOf(g) : gr # h => blocksOf(g, gr) \cap blocksOf(g, h) = {}

\* Superblock, descriptors, bitmaps and inode table lie in their own group, in that
\* order.
MetadataInside(g) ==
    \A gr \in groupsOf(g) :
        LET l == groupLayout(g, gr)
        IN  /\ groupStart(g, gr) + copies(g, gr) = l.blockBitmap
            /\ l.blockBitmap < l.inodeBitmap /\ l.inodeBitmap < l.inodeTable
            /\ l.inodeTable <= l.firstData
            /\ groupStart(g, gr) .. l.firstData - 1 \subseteq blocksOf(g, gr)

\* The block of an inode table in which the reader looks for inode ino.
tableBlock(g, ino) ==
    groupLayout(g, (ino - 1) \div g.inodesPerGroup).inodeTable
        + ((ino - 1) % g.inodesPerGroup) \div InodesPerBlock

\* Every inode number has a place in the table of a group, and the bitmap of a
\* group has a bit for it.
InodesHavePlaces(g) ==
    /\ g.inodesPerGroup <= BlocksPerGroup
    /\ \A ino \in 1 .. g.inodesCount :
          LET gr == (ino - 1) \div g.inodesPerGroup
          IN  /\ gr \in groupsOf(g)
              /\ tableBlock(g, ino) \in groupLayout(g, gr).inodeTable .. groupLayout(g, gr).firstData - 1

\* A whole group has room for its own metadata and a few data blocks, copies of the
\* superblock and of the descriptors included, for as many groups as d blocks make.
WholeGroupsFit(d, first) ==
    \A k \in 1 .. ceilDiv(d - first, BlocksPerGroup) :
        overhead(turn(d, first, k), 0) + runtMinDataBlocks <= BlocksPerGroup

-----------------------------------------------------------------------------
(* Arithmetic. *)

\* Quotient and remainder.
LEMMA Quotient ==
    ASSUME NEW a \in Nat, NEW b \in Nat \ {0}
    PROVE  /\ a \div b \in Nat /\ a % b \in 0 .. b - 1
           /\ a = (a \div b) * b + (a % b)
  OBVIOUS

\* Products keep the order, and one more factor is one more summand.
LEMMA Product ==
    ASSUME NEW x \in Nat, NEW y \in Nat, NEW b \in Nat
    PROVE  /\ x * b \in Nat
           /\ (x + 1) * b = x * b + b
           /\ x <= y => x * b <= y * b
  OBVIOUS

\* Among x * b and y * b the order is that of x and y.
LEMMA ProductOrders ==
    ASSUME NEW x \in Nat, NEW y \in Nat, NEW b \in Nat, x * b < y * b
    PROVE  x < y
<1> SUFFICES ASSUME y <= x PROVE FALSE
  OBVIOUS
<1>1. y * b <= x * b /\ x * b \in Nat /\ y * b \in Nat
  BY Product
<1> QED BY <1>1

\* ceilDiv(a, b) pieces of b are enough for a, and one fewer is not.
LEMMA CeilDivHolds ==
    ASSUME NEW a \in Nat, NEW b \in Nat \ {0}
    PROVE  /\ ceilDiv(a, b) \in Nat
           /\ a <= ceilDiv(a, b) * b
           /\ ceilDiv(a, b) * b < a + b
<1>1. a + b - 1 \in Nat
  OBVIOUS
<1>2. PICK q \in Nat, r \in 0 .. b - 1 : q = (a + b - 1) \div b /\ a + b - 1 = q * b + r
  BY <1>1, Quotient
<1>3. q * b \in Nat
  BY <1>2, Product
<1>4. ceilDiv(a, b) = q
  BY <1>2 DEF ceilDiv
<1> QED BY <1>2, <1>3, <1>4

-----------------------------------------------------------------------------
(* One turn of the loop. *)

\* The sizes a turn works with.
LEMMA TurnIsTyped ==
    ASSUME NEW d \in Nat, NEW first \in Nat, NEW k \in Nat \ {0}
    PROVE  LET g == turn(d, first, k)
           IN  /\ g.first = first /\ g.groups = k
               /\ g.inodesPerGroup \in 0 .. BlocksPerGroup
               /\ g.inodesCount = g.inodesPerGroup * k
               /\ g.gdtBlocks \in Nat
               /\ g.inodeTableBlocks = ceilDiv(g.inodesPerGroup, InodesPerBlock)
               /\ g.inodeTableBlocks \in Nat
<1> DEFINE ipg == inodesPerGroup(d, k)
<1>1. ipg \in 0 .. BlocksPerGroup
  <2>1. d \div BlocksPerInode \in Nat
    BY GeometryAssumption, Quotient
  <2>2. ceilDiv(d \div BlocksPerInode, k) \in Nat
    BY <2>1, CeilDivHolds
  <2>3. PICK m \in Nat : m = Larger(ceilDiv(d \div BlocksPerInode, k), MinInodesPerGroup)
    BY <2>2, GeometryAssumption DEF Larger
  <2>4. ceilDiv(m, InodeRound) \in Nat /\ InodeRound \in Nat
    BY GeometryAssumption, CeilDivHolds
  <2>5. roundUp(m, InodeRound) \in Nat
    BY <2>4, Product DEF roundUp
  <2> QED BY <2>3, <2>5, GeometryAssumption DEF inodesPerGroup, Smaller
<1> HIDE DEF ipg
<1>2. ceilDiv(k, DescsPerBlock) \in Nat /\ ceilDiv(ipg, InodesPerBlock) \in Nat
  <2>1. ipg \in Nat /\ InodesPerBlock \in Nat \ {0} /\ DescsPerBlock \in Nat \ {0}
    BY <1>1, GeometryAssumption
  <2> QED BY <2>1, CeilDivHolds
<1>3. /\ turn(d, first, k).first = first /\ turn(d, first, k).groups = k
      /\ turn(d, first, k).inodesPerGroup = ipg
      /\ turn(d, first, k).inodesCount = ipg * k
      /\ turn(d, first, k).gdtBlocks = ceilDiv(k, DescsPerBlock)
      /\ turn(d, first, k).inodeTableBlocks = ceilDiv(ipg, InodesPerBlock)
  BY DEF turn, ipg
<1> QED BY <1>1, <1>2, <1>3

\* A group without copies needs no more than one with them.
LEMMA OverheadBound ==
    ASSUME NEW g, NEW gr, g.gdtBlocks \in Nat, g.inodeTableBlocks \in Nat
    PROVE  /\ copies(g, gr) \in Nat /\ overhead(g, gr) \in Nat
           /\ overhead(g, gr) = 2 + g.inodeTableBlocks + copies(g, gr)
           /\ overhead(g, gr) <= overhead(g, 0)
  BY DEF overhead, copies, hasSuperblock

\* Where the blocks of k groups end: k - 1 whole groups lie on the device, the k-th
\* begins on it.
LEMMA TurnEnds ==
    ASSUME NEW d \in Nat, NEW first \in Nat, first < d,
           NEW k \in 1 .. ceilDiv(d - first, BlocksPerGroup)
    PROVE  LET g == turn(d, first, k)
           IN  /\ g.total \in Nat /\ g.total <= d
               /\ first + (k - 1) * BlocksPerGroup < g.total
               /\ g.total <= first + k * BlocksPerGroup
               /\ k < ceilDiv(d - first, BlocksPerGroup) => g.total = first + k * BlocksPerGroup
<1>1. BlocksPerGroup \in Nat \ {0} /\ d - first \in Nat
  BY GeometryAssumption
<1>2. PICK N \in Nat : /\ N = ceilDiv(d - first, BlocksPerGroup)
                       /\ d - first <= N * BlocksPerGroup
                       /\ N * BlocksPerGroup < d - first + BlocksPerGroup
  BY <1>1, CeilDivHolds
<1>3. k \in Nat /\ k - 1 \in Nat /\ k <= N
  BY <1>2
<1>4. /\ (k - 1) * BlocksPerGroup \in Nat /\ k * BlocksPerGroup \in Nat /\ N * BlocksPerGroup \in Nat
      /\ k * BlocksPerGroup = (k - 1) * BlocksPerGroup + BlocksPerGroup
  <2>1. ((k - 1) + 1) * BlocksPerGroup = (k - 1) * BlocksPerGroup + BlocksPerGroup
    BY <1>1, <1>3, Product
  <2>2. (k - 1) + 1 = k
    BY <1>3
  <2> QED BY <1>1, <1>2, <1>3, <2>1, <2>2, Product
<1>5. turn(d, first, k).total = IF k = N THEN d ELSE first + k * BlocksPerGroup
  BY <1>2 DEF turn
<1>6. CASE k = N
  BY <1>1, <1>2, <1>4, <1>5, <1>6
<1>7. CASE k < N
  <2>1. (k + 1) * BlocksPerGroup <= N * BlocksPerGroup
    BY <1>1, <1>2, <1>3, <1>7, Product
  <2>2. (k + 1) * BlocksPerGroup = k * BlocksPerGroup + BlocksPerGroup
    BY <1>1, <1>3, Product
  <2>3. k * BlocksPerGroup < d - first
    BY <1>1, <1>2, <1>4, <2>1, <2>2
  <2> QED BY <1>1, <1>2, <1>4, <1>5, <1>7, <2>3
<1> QED BY <1>2, <1>3, <1>6, <1>7

\* A whole final group is no runt.
LEMMA WholeGroupSettles ==
    ASSUME NEW d \in Nat, NEW first \in Nat, first < d, WholeGroupsFit(d, first),
           NEW k \in 1 .. ceilDiv(d - first, BlocksPerGroup) - 1
    PROVE  settled(turn(d, first, k))
<1> DEFINE g == turn(d, first, k)
<1>1. BlocksPerGroup \in Nat /\ d - first \in Nat /\ ceilDiv(d - first, BlocksPerGroup) \in Nat
  BY GeometryAssumption, CeilDivHolds
<1>2. k \in 1 .. ceilDiv(d - first, BlocksPerGroup) /\ k \in Nat \ {0} /\ k - 1 \in Nat
  BY <1>1
<1>3. g.total = first + k * BlocksPerGroup /\ g.first = first /\ g.groups = k
  BY <1>1, <1>2, TurnEnds, TurnIsTyped
<1>4. overhead(g, k - 1) \in Nat /\ overhead(g, k - 1) <= overhead(g, 0) /\ overhead(g, 0) \in Nat
  BY <1>2, TurnIsTyped, OverheadBound
<1>5. overhead(g, 0) + runtMinDataBlocks <= BlocksPerGroup
  BY <1>2 DEF WholeGroupsFit
<1> HIDE DEF g
<1>6. (k - 1) * BlocksPerGroup \in Nat /\ k * BlocksPerGroup = (k - 1) * BlocksPerGroup + BlocksPerGroup
  <2>1. ((k - 1) + 1) * BlocksPerGroup = (k - 1) * BlocksPerGroup + BlocksPerGroup
    BY <1>1, <1>2, Product
  <2>2. (k - 1) + 1 = k
    BY <1>2
  <2> QED BY <1>1, <1>2, <2>1, <2>2, Product
<1>7. blocksInGroup(g, k - 1) = BlocksPerGroup
  BY <1>1, <1>3, <1>6 DEF blocksInGroup, groupStart, Smaller
<1>8. settled(g)
  BY <1>1, <1>3, <1>4, <1>5, <1>7, GeometryAssumption DEF settled
<1> QED BY <1>8 DEF g

\* The loop ends with all the groups or with one fewer, and with a final group that
\* is no runt.
LEMMA GeometryIsTurn ==
    ASSUME NEW d \in Nat, NEW first \in Nat, first < d, WholeGroupsFit(d, first)
    PROVE  \E k \in 1 .. ceilDiv(d - first, BlocksPerGroup) :
              /\ computeGeometry(d, first) = turn(d, first, k)
              /\ settled(turn(d, first, k))
              /\ k >= ceilDiv(d - first, BlocksPerGroup) - 1
<1>1. BlocksPerGroup \in Nat \ {0} /\ d - first \in Nat
  BY GeometryAssumption
<1>2. PICK N \in Nat : N = ceilDiv(d - first, BlocksPerGroup) /\ d - first <= N * BlocksPerGroup
  BY <1>1, CeilDivHolds
<1>3. N # 0
  <2> SUFFICES ASSUME N = 0 PROVE FALSE
    OBVIOUS
  <2>1. N * BlocksPerGroup = 0
    BY <1>1
  <2> QED BY <1>1, <1>2, <2>1
<1> DEFINE counts == {k \in 1 .. N : settled(turn(d, first, k))}
<1>4. computeGeometry(d, first) = turn(d, first, CHOOSE k \in counts : \A j \in counts : j <= k)
  BY <1>2 DEF computeGeometry
<1>5. \A k \in 1 .. N - 1 : k \in counts
  BY <1>2, WholeGroupSettles
<1>6. 1 \in counts
  <2>1. turn(d, first, 1).groups = 1
    BY TurnIsTyped
  <2> QED BY <1>2, <1>3, <2>1 DEF settled
<1>7. \E k \in counts : (\A j \in counts : j <= k) /\ k >= N - 1
  <2>1. CASE N \in counts
    BY <1>2, <2>1
  <2>2. CASE N \notin counts
    <3>1. N - 1 \in 1 .. N - 1
      BY <1>2, <1>3, <1>6, <2>2
    <3>2. N - 1 \in counts
      BY <1>5, <3>1
    <3> QED BY <1>2, <2>2, <3>2
  <2> QED BY <2>1, <2>2
<1>8. PICK m \in counts : m = (CHOOSE k \in counts : \A j \in counts : j <= k)
                          /\ \A j \in counts : j <= m
  BY <1>7
<1>9. m >= N - 1
  <2>1. PICK k \in counts : k >= N - 1
    BY <1>7
  <2>2. k \in Nat /\ m \in Nat /\ k <= m
    BY <1>8
  <2> QED BY <1>2, <2>1, <2>2
<1> QED BY <1>2, <1>4, <1>8, <1>9

\* What the loop has found out when it ends.
LEMMA GeometryFacts ==
    ASSUME NEW d \in Nat, NEW first \in Nat, first < d, WholeGroupsFit(d, first)
    PROVE  LET g == computeGeometry(d, first)
           IN  /\ g.groups \in Nat \ {0} /\ g.first = first
               /\ g.groups >= ceilDiv(d - first, BlocksPerGroup) - 1
               /\ g.total \in Nat /\ g.total <= d
               /\ first + (g.groups - 1) * BlocksPerGroup < g.total
               /\ g.total <= first + g.groups * BlocksPerGroup
               /\ g.inodesPerGroup \in 0 .. BlocksPerGroup
               /\ g.inodesCount = g.inodesPerGroup * g.groups
               /\ g.gdtBlocks \in Nat
               /\ g.inodeTableBlocks = ceilDiv(g.inodesPerGroup, InodesPerBlock)
               /\ g.inodeTableBlocks \in Nat
               /\ overhead(g, 0) + runtMinDataBlocks <= BlocksPerGroup
               /\ settled(g)
<1>1. PICK k \in 1 .. ceilDiv(d - first, BlocksPerGroup) :
              /\ computeGeometry(d, first) = turn(d, first, k)
              /\ settled(turn(d, first, k))
              /\ k >= ceilDiv(d - first, BlocksPerGroup) - 1
  BY GeometryIsTurn
<1>2. k \in Nat \ {0}
  <2>1. BlocksPerGroup \in Nat \ {0} /\ d - first \in Nat
    BY GeometryAssumption
  <2>2. ceilDiv(d - first, BlocksPerGroup) \in Nat
    BY <2>1, CeilDivHolds
  <2> QED BY <2>2
<1>3. overhead(turn(d, first, k), 0) + runtMinDataBlocks <= BlocksPerGroup
  BY DEF WholeGroupsFit
<1>4. LET g == turn(d, first, k)
      IN  /\ g.first = first /\ g.groups = k
          /\ g.inodesPerGroup \in 0 .. BlocksPerGroup
          /\ g.inodesCount = g.inodesPerGroup * k
          /\ g.gdtBlocks \in Nat
          /\ g.inodeTableBlocks = ceilDiv(g.inodesPerGroup, InodesPerBlock)
          /\ g.inodeTableBlocks \in Nat
  BY <1>2, TurnIsTyped
<1>5. LET g == turn(d, first, k)
      IN  /\ g.total \in Nat /\ g.total <= d
          /\ first + (k - 1) * BlocksPerGroup < g.total
          /\ g.total <= first + k * BlocksPerGroup
  BY TurnEnds
<1> QED BY <1>1, <1>2, <1>3, <1>4, <1>5

-----------------------------------------------------------------------------
(* The groups, their metadata and the inodes. *)

\* What the loop leaves, without how it came about.
Computed(g, first) ==
    /\ first \in Nat /\ g.first = first
    /\ g.groups \in Nat \ {0}
    /\ g.total \in Nat
    /\ first + (g.groups - 1) * BlocksPerGroup < g.total
    /\ g.total <= first + g.groups * BlocksPerGroup
    /\ g.inodesPerGroup \in 0 .. BlocksPerGroup
    /\ g.inodesCount = g.inodesPerGroup * g.groups
    /\ g.gdtBlocks \in Nat
    /\ g.inodeTableBlocks = ceilDiv(g.inodesPerGroup, InodesPerBlock)
    /\ g.inodeTableBlocks \in Nat
    /\ overhead(g, 0) + runtMinDataBlocks <= BlocksPerGroup
    /\ settled(g)

\* Where a group lies.
LEMMA GroupLies ==
    ASSUME NEW g, NEW first, Computed(g, first), NEW gr \in groupsOf(g)
    PROVE  /\ gr \in Nat /\ gr * BlocksPerGroup \in Nat
           /\ groupStart(g, gr) = first + gr * BlocksPerGroup
           /\ groupStart(g, gr) < g.total
           /\ blocksInGroup(g, gr) \in Nat
           /\ groupStart(g, gr) + blocksInGroup(g, gr) <= g.total
           /\ blocksInGroup(g, gr) <= BlocksPerGroup
           /\ gr < g.groups - 1 => blocksInGroup(g, gr) = BlocksPerGroup
           /\ \A b \in Nat : /\ first + gr * BlocksPerGroup <= b /\ b < g.total
                             /\ b < first + gr * BlocksPerGroup + BlocksPerGroup
                             => b \in blocksOf(g, gr)
<1>1. /\ gr \in Nat /\ BlocksPerGroup \in Nat \ {0} /\ g.groups - 1 \in Nat /\ gr <= g.groups - 1
      /\ first \in Nat /\ g.total \in Nat
  BY GeometryAssumption DEF groupsOf, Computed
<1>2. PICK s \in Nat : s = gr * BlocksPerGroup
  BY <1>1, Product
<1>3. PICK e \in Nat : e = (g.groups - 1) * BlocksPerGroup
  BY <1>1, Product
<1>4. s <= e
  BY <1>1, <1>2, <1>3, Product
<1>5. gr < g.groups - 1 => s + BlocksPerGroup <= e
  <2> SUFFICES ASSUME gr < g.groups - 1
               PROVE  s + BlocksPerGroup <= e
    OBVIOUS
  <2>1. (gr + 1) * BlocksPerGroup <= (g.groups - 1) * BlocksPerGroup
    BY <1>1, Product
  <2>2. (gr + 1) * BlocksPerGroup = s + BlocksPerGroup
    BY <1>1, <1>2, Product
  <2> QED BY <1>3, <2>1, <2>2
<1>6. first + e < g.total
  BY <1>3 DEF Computed
<1>7. groupStart(g, gr) = first + s
  BY <1>2 DEF groupStart, Computed
<1>8. blocksInGroup(g, gr) =
        IF first + s + BlocksPerGroup <= g.total THEN BlocksPerGroup ELSE g.total - (first + s)
  BY <1>1, <1>7 DEF blocksInGroup, Smaller
<1>9. \A b \in Nat : first + s <= b /\ b < g.total /\ b < first + s + BlocksPerGroup
                        => b \in blocksOf(g, gr)
  BY <1>1, <1>7, <1>8 DEF blocksOf
<1> QED BY <1>1, <1>2, <1>4, <1>5, <1>6, <1>7, <1>8, <1>9

\* The groups share out the blocks.
LEMMA GroupsShareOut ==
    ASSUME NEW g, NEW first, NEW d, Computed(g, first), g.total <= d
    PROVE  GroupsCut(g, d)
<1>1. /\ BlocksPerGroup \in Nat \ {0} /\ first \in Nat /\ g.first = first
      /\ g.total \in Nat /\ g.groups \in Nat
  BY GeometryAssumption DEF Computed
<1>2. ASSUME NEW gr \in groupsOf(g)
      PROVE  blocksOf(g, gr) \subseteq g.first .. g.total - 1
  BY <1>1, <1>2, GroupLies DEF blocksOf
<1>3. ASSUME NEW b \in g.first .. g.total - 1
      PROVE  \E gr \in groupsOf(g) : b \in blocksOf(g, gr)
  <2>1. b - first \in Nat /\ b \in Nat /\ b < g.total
    BY <1>1, <1>3
  <2>2. PICK q \in Nat, r \in 0 .. BlocksPerGroup - 1 : b - first = q * BlocksPerGroup + r
    BY <1>1, <2>1, Quotient
  <2>3. q * BlocksPerGroup \in Nat /\ g.groups * BlocksPerGroup \in Nat
    BY <1>1, Product
  <2>4. q * BlocksPerGroup < g.groups * BlocksPerGroup
    BY <1>1, <2>1, <2>2, <2>3 DEF Computed
  <2>5. q < g.groups
    BY <1>1, <2>4, ProductOrders
  <2>6. q \in groupsOf(g)
    BY <1>1, <2>5 DEF groupsOf
  <2>7. /\ first + q * BlocksPerGroup <= b
        /\ b < first + q * BlocksPerGroup + BlocksPerGroup
    BY <1>1, <2>1, <2>2, <2>3
  <2>8. b \in blocksOf(g, q)
    BY <2>1, <2>6, <2>7, GroupLies
  <2> QED BY <2>6, <2>8
<1>4. ASSUME NEW gr \in groupsOf(g), NEW h \in groupsOf(g), gr < h
      PROVE  blocksOf(g, gr) \cap blocksOf(g, h) = {}
  <2>1. gr \in Nat /\ h \in Nat
    BY GroupLies
  <2>2. (gr + 1) * BlocksPerGroup <= h * BlocksPerGroup
    BY <1>1, <1>4, <2>1, Product
  <2>3. (gr + 1) * BlocksPerGroup = gr * BlocksPerGroup + BlocksPerGroup
    BY <1>1, <2>1, Product
  <2>4. groupStart(g, gr) + BlocksPerGroup <= groupStart(g, h) /\ groupStart(g, gr) \in Nat
        /\ groupStart(g, h) \in Nat /\ blocksInGroup(g, gr) \in Nat
        /\ blocksInGroup(g, h) \in Nat /\ blocksInGroup(g, gr) <= BlocksPerGroup
    <3>1. /\ gr * BlocksPerGroup \in Nat /\ groupStart(g, gr) = first + gr * BlocksPerGroup
          /\ blocksInGroup(g, gr) \in Nat /\ blocksInGroup(g, gr) <= BlocksPerGroup
      BY GroupLies
    <3>2. /\ h * BlocksPerGroup \in Nat /\ groupStart(g, h) = first + h * BlocksPerGroup
          /\ blocksInGroup(g, h) \in Nat
      BY GroupLies
    <3> QED BY <1>1, <2>2, <2>3, <3>1, <3>2
  <2> QED BY <1>1, <2>4 DEF blocksOf
<1>5. ASSUME NEW gr \in groupsOf(g), NEW h \in groupsOf(g), gr # h
      PROVE  blocksOf(g, gr) \cap blocksOf(g, h) = {}
  <2>1. gr \in Nat /\ h \in Nat
    BY GroupLies
  <2>2. CASE gr < h
    BY <1>4, <2>2
  <2>3. CASE h < gr
    BY <1>4, <2>3
  <2> QED BY <1>5, <2>1, <2>2, <2>3
<1> QED BY <1>2, <1>3, <1>5 DEF GroupsCut

\* Every group has the blocks its metadata needs: a whole one by assumption, a short
\* final one because it settled, a single one because it was not too small.
LEMMA GroupsHaveRoom ==
    ASSUME NEW g, NEW first, Computed(g, first), first <= MinFree, ~errTooSmall(g),
           NEW gr \in groupsOf(g)
    PROVE  overhead(g, gr) <= blocksInGroup(g, gr)
<1>1. /\ overhead(g, gr) \in Nat /\ overhead(g, 0) \in Nat /\ overhead(g, gr) <= overhead(g, 0)
      /\ BlocksPerGroup \in Nat /\ runtMinDataBlocks \in Nat /\ MinFree \in Nat
      /\ overhead(g, 0) + runtMinDataBlocks <= BlocksPerGroup
      /\ first \in Nat /\ g.total \in Nat /\ g.groups \in Nat \ {0} /\ gr \in 0 .. g.groups - 1
      /\ g.first = first
  BY OverheadBound, GeometryAssumption DEF Computed, groupsOf
<1>2. blocksInGroup(g, gr) \in Nat /\ (gr < g.groups - 1 => blocksInGroup(g, gr) = BlocksPerGroup)
  BY GroupLies
<1>3. CASE gr < g.groups - 1
  BY <1>1, <1>2, <1>3
<1>4. CASE gr = g.groups - 1 /\ g.groups > 1
  <2>1. blocksInGroup(g, gr) >= overhead(g, gr) + runtMinDataBlocks
    BY <1>1, <1>4 DEF Computed, settled
  <2> QED BY <1>1, <1>2, <2>1
<1>5. CASE gr = 0 /\ g.groups = 1
  <2>1. g.total >= overhead(g, 0) + MinFree
    BY <1>1 DEF errTooSmall
  <2>2. groupStart(g, 0) = first
    BY <1>1 DEF groupStart
  <2>3. blocksInGroup(g, 0) = IF first + BlocksPerGroup <= g.total THEN BlocksPerGroup ELSE g.total - first
    BY <1>1, <2>2 DEF blocksInGroup, Smaller
  <2> QED BY <1>1, <1>5, <2>1, <2>3
<1> QED BY <1>1, <1>3, <1>4, <1>5

\* Hence the metadata lies inside.
LEMMA MetadataLiesInside ==
    ASSUME NEW g, NEW first, Computed(g, first), first <= MinFree, ~errTooSmall(g)
    PROVE  MetadataInside(g)
<1> SUFFICES ASSUME NEW gr \in groupsOf(g)
             PROVE  LET l == groupLayout(g, gr)
                    IN  /\ groupStart(g, gr) + copies(g, gr) = l.blockBitmap
                        /\ l.blockBitmap < l.inodeBitmap /\ l.inodeBitmap < l.inodeTable
                        /\ l.inodeTable <= l.firstData
                        /\ groupStart(g, gr) .. l.firstData - 1 \subseteq blocksOf(g, gr)
  BY DEF MetadataInside
<1>1. /\ copies(g, gr) \in Nat /\ g.inodeTableBlocks \in Nat
      /\ overhead(g, gr) = 2 + g.inodeTableBlocks + copies(g, gr)
  BY OverheadBound DEF Computed
<1>2. PICK s \in Nat, n \in Nat : s = groupStart(g, gr) /\ n = blocksInGroup(g, gr)
  BY GroupLies DEF Computed
<1>3. overhead(g, gr) <= n
  BY <1>2, GroupsHaveRoom
<1>4. LET l == groupLayout(g, gr)
      IN  /\ l.blockBitmap = s + copies(g, gr) /\ l.inodeBitmap = s + copies(g, gr) + 1
          /\ l.inodeTable = s + copies(g, gr) + 2
          /\ l.firstData = s + copies(g, gr) + 2 + g.inodeTableBlocks
  BY <1>2 DEF groupLayout
<1>5. groupLayout(g, gr).firstData <= s + n
  BY <1>1, <1>3, <1>4
<1>6. s .. groupLayout(g, gr).firstData - 1 \subseteq blocksOf(g, gr)
  <2>1. PICK fd \in Nat : fd = groupLayout(g, gr).firstData /\ fd <= s + n
    BY <1>1, <1>4, <1>5
  <2>2. s .. fd - 1 \subseteq s .. s + n - 1
    BY <2>1
  <2> QED BY <1>2, <2>1, <2>2 DEF blocksOf
<1>7. LET l == groupLayout(g, gr)
      IN  /\ l.blockBitmap < l.inodeBitmap /\ l.inodeBitmap < l.inodeTable
          /\ l.inodeTable <= l.firstData
  BY <1>1, <1>4
<1> QED BY <1>2, <1>4, <1>6, <1>7

\* Every inode has a place.
LEMMA InodesArePlaced ==
    ASSUME NEW g, NEW first, Computed(g, first)
    PROVE  InodesHavePlaces(g)
<1>1. PICK ipg \in Nat, k \in Nat, tb \in Nat :
          /\ ipg = g.inodesPerGroup /\ k = g.groups /\ tb = g.inodeTableBlocks
          /\ g.inodesCount = ipg * k /\ ipg <= BlocksPerGroup /\ tb = ceilDiv(ipg, InodesPerBlock)
  BY GeometryAssumption DEF Computed
<1>2. InodesPerBlock \in Nat \ {0} /\ BlocksPerGroup \in Nat
  BY GeometryAssumption
<1>3. ASSUME NEW ino \in 1 .. ipg * k
      PROVE  /\ (ino - 1) \div ipg \in groupsOf(g)
             /\ tableBlock(g, ino) \in groupLayout(g, (ino - 1) \div ipg).inodeTable ..
                                       groupLayout(g, (ino - 1) \div ipg).firstData - 1
  <2>1. ipg # 0 /\ ipg * k \in Nat /\ ino - 1 \in Nat
    <3>1. ipg * k \in Nat
      BY Product
    <3>2. ipg = 0 => ipg * k = 0
      OBVIOUS
    <3> QED BY <1>3, <3>1, <3>2
  <2>2. PICK q \in Nat, r \in 0 .. ipg - 1 :
            q = (ino - 1) \div ipg /\ r = (ino - 1) % ipg /\ ino - 1 = q * ipg + r
    BY <2>1, Quotient
  <2>3. q * ipg \in Nat /\ k * ipg \in Nat /\ k * ipg = ipg * k
    BY Product
  <2>4. q < k
    <3>1. q * ipg < k * ipg
      BY <2>1, <2>2, <2>3
    <3> QED BY <3>1, ProductOrders
  <2>5. q \in groupsOf(g)
    BY <1>1, <2>4 DEF groupsOf
  <2>6. PICK t \in Nat, u \in 0 .. InodesPerBlock - 1 : t = r \div InodesPerBlock /\ r = t * InodesPerBlock + u
    <3>1. r \in Nat
      BY <2>2
    <3> QED BY <1>2, <3>1, Quotient
  <2>7. t < tb
    <3>1. t * InodesPerBlock \in Nat /\ tb * InodesPerBlock \in Nat
      BY <1>2, Product
    <3>2. ipg <= tb * InodesPerBlock
      BY <1>1, <1>2, CeilDivHolds
    <3>3. t * InodesPerBlock < tb * InodesPerBlock
      BY <1>2, <2>2, <2>6, <3>1, <3>2
    <3> QED BY <1>2, <3>3, ProductOrders
  <2>8. PICK s \in Nat : s = groupStart(g, q)
    BY <2>5, GroupLies DEF Computed
  <2>9. copies(g, q) \in Nat
    BY OverheadBound DEF Computed
  <2>10. PICK it \in Nat : /\ it = groupLayout(g, q).inodeTable
                           /\ groupLayout(g, q).firstData = it + tb
    BY <1>1, <2>8, <2>9 DEF groupLayout
  <2>11. tableBlock(g, ino) = it + t
    BY <1>1, <2>2, <2>6, <2>10 DEF tableBlock
  <2> QED BY <2>2, <2>5, <2>7, <2>10, <2>11
<1> QED BY <1>1, <1>2, <1>3 DEF InodesHavePlaces

-----------------------------------------------------------------------------
\* computeGeometry, for a device of any size whose whole groups hold their own
\* metadata: a geometry that is not refused cuts the device into groups, none of
\* whose metadata leaves it ("The kernel's ext4_check_descriptors rejects exactly
\* that"), and has a place for every inode.  A boot block, at most MinFree, may come
\* first.
THEOREM GeometryIsSound ==
    ASSUME NEW d \in Nat, NEW first \in Nat, first < d, first <= MinFree,
           WholeGroupsFit(d, first), ~errTooSmall(computeGeometry(d, first))
    PROVE  LET g == computeGeometry(d, first)
           IN  GroupsCut(g, d) /\ MetadataInside(g) /\ InodesHavePlaces(g)
<1> DEFINE g == computeGeometry(d, first)
<1>1. Computed(g, first) /\ g.total <= d
  BY GeometryFacts DEF Computed
<1> HIDE DEF g
<1>2. ~errTooSmall(g)
  BY DEF g
<1>3. GroupsCut(g, d) /\ MetadataInside(g) /\ InodesHavePlaces(g)
  BY <1>1, <1>2, GroupsShareOut, MetadataLiesInside, InodesArePlaced
<1> QED BY <1>3 DEF g

\* "the new final group is a full group, so this settles immediately": the loop of
\* computeGeometry drops one group at most.
THEOREM OneRuntAtMost ==
    ASSUME NEW d \in Nat, NEW first \in Nat, first < d, WholeGroupsFit(d, first)
    PROVE  computeGeometry(d, first).groups >= ceilDiv(d - first, BlocksPerGroup) - 1
  BY GeometryFacts
=============================================================================
