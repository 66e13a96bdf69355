--------------------------------- MODULE Fat ---------------------------------
(***************************************************************************)
(* pkg/fat: the width of the table, the size of a cluster and the size of  *)
(* the table are solved from the size of the device.  Clusters are handed  *)
(* out in order: a directory takes its own when it is entered, sized from  *)
(* the number of entries its names need, then its children take theirs,    *)
(* and its entries are written when they have.  The tables and the boot    *)
(* sector come last.                                                       *)
(***************************************************************************)
EXTENDS Target

CONSTANT Short83   \* for a name: whether it is an 8.3 name, which, and the base of its aliases

sectorSize == 512
numFATs == 2
rootCluster == 2
fsInfoSector == 1
backupBootSec == 6
maxFAT12Clusters == 4084
maxFAT16Clusters == 65524
rootEntries1216 == 512
dirEntrySize == 32
-----------------------------------------------------------------------------
(* The geometry. *)

fatBits(total) == IF total < 8400 THEN 12 ELSE IF total < 1048576 THEN 16 ELSE 32

pickSecPerClus16(total) ==
    CASE total <= 32680 -> 2 [] total <= 262144 -> 4 [] total <= 524288 -> 8 [] OTHER -> 16

fat32SecPerClus(total) ==
    CASE total <= 532480 -> 1 [] total <= 16777216 -> 8 [] OTHER -> 32

secPerClus(total) ==
    CASE fatBits(total) = 12 -> 1
      [] fatBits(total) = 16 -> pickSecPerClus16(total)
      [] OTHER -> fat32SecPerClus(total)

reservedSecs(bits) == IF bits = 32 THEN 32 ELSE 1
rootDirSectors(bits) == IF bits = 32 THEN 0 ELSE (rootEntries1216 * dirEntrySize) \div sectorSize

clustersWith(total, fatSize) ==
    (total - reservedSecs(fatBits(total)) - rootDirSectors(fatBits(total)) - numFATs * fatSize) \div secPerClus(total)

\* Mutant: the two reserved entries are not counted.
needSecs_noReserved(total, fatSize) ==
    ceilTo((clustersWith(total, fatSize) * fatBits(total) + 7) \div 8, sectorSize) \div sectorSize

\* The sectors of a table for the clusters that a table of so many sectors leaves.
needSecs(total, fatSize) ==
    ceilTo(((clustersWith(total, fatSize) + 2) * fatBits(total) + 7) \div 8, sectorSize) \div sectorSize

\* The loop that grows the table until it can address every cluster.
RECURSIVE solved(_, _)
solved(total, fatSize) ==
    IF needSecs(total, fatSize) <= fatSize THEN fatSize ELSE solved(total, needSecs(total, fatSize))

\* validate
valid(bits, clusters) ==
    CASE bits = 12 -> clusters >= 1 /\ clusters <= maxFAT12Clusters
      [] bits = 16 -> clusters > maxFAT12Clusters /\ clusters <= maxFAT16Clusters
      [] OTHER -> clusters > maxFAT16Clusters

computeGeometry(bytes) ==
    LET total == bytes \div sectorSize
        bits == fatBits(total)
        fatSize == solved(total, 1)
        clusters == clustersWith(total, fatSize)
    IN  CASE bytes <= 0 \/ bytes % sectorSize # 0 -> [err |-> "bad size"]
          [] total < reservedSecs(bits) + rootDirSectors(bits) + numFATs + 8 -> [err |-> "too small"]
          [] ~valid(bits, clusters) -> [err |-> "too small"]
          [] OTHER -> [err |-> "nil", bits |-> bits, total |-> total, spc |-> secPerClus(total),
                       fatSize |-> fatSize, clusters |-> clusters,
                       rootRegion |-> reservedSecs(bits) + numFATs * fatSize,
                       dataStart |-> reservedSecs(bits) + numFATs * fatSize + rootDirSectors(bits)]

clusterSize(g) == g.spc * sectorSize
clusterOffset(g, c) == (g.dataStart + (c - 2) * g.spc) * sectorSize
EOC == -1                         \* the end of a chain

Format ==
    /\ fs = "fat" /\ stage = "layout"
    /\ \E g \in {computeGeometry(size)} :
        IF g.err # "nil" THEN err' = g.err /\ stage' = "done" /\ UNCHANGED <<w, todo>>
        ELSE /\ w' = [geo |-> g, fat |-> (0 :> EOC) @@ (1 :> EOC), nextFree |-> rootCluster, used |-> 0,
                      dirClus |-> (Root :> 0), first |-> NoFn]
             /\ todo' = <<[op |-> "enter", node |-> Root, up |-> 0]>>
             /\ stage' = "write"
             /\ err' = err
    /\ UNCHANGED <<fs, tree, label, size, dev>>
-----------------------------------------------------------------------------
(* Names. *)

\* Mutant: a long name is given its first alias.
generate_first(used, x) ==
    IF Short83[x].fits /\ Short83[x].short \notin used THEN Short83[x].short ELSE <<Short83[x].base, 1>>

\* shortNamer.generate: an 8.3 name stands for itself when it is free, otherwise
\* the base is tried with one number after the other.
generate(used, x) ==
    IF Short83[x].fits /\ Short83[x].short \notin used THEN Short83[x].short
    ELSE LET k == CHOOSE k \in 1 .. Cardinality(used) + 1 :
                      /\ <<Short83[x].base, k>> \notin used
                      /\ \A j \in 1 .. k - 1 : <<Short83[x].base, j>> \in used
         IN  <<Short83[x].base, k>>

aliases(d) == FoldLeft(LAMBDA a, e : Append(a, generate(Range(a), e.name)), <<>>, sortedChildren(d))

\* The entries a long name is counted for, and those that are written.
lfnCount(x) == IF Short83[x].fits THEN 0 ELSE (NameLen[x] + 12) \div 13
lfnEntries(x) == NameLen[x] \div 13 + 1

representable(d) == \A e \in Range(sortedChildren(d)) : tree[e.node].kind \in {"dir", "reg"}

\* buildInfos, with the entries of the directory itself.
entryCount(d) ==
    FoldLeft(LAMBDA a, e : a + lfnCount(e.name) + 1, IF d = Root THEN 1 ELSE 2, sortedChildren(d))
-----------------------------------------------------------------------------
(* Clusters. *)

fits(n) == w.nextFree - 2 + n <= w.geo.clusters

\* Mutant: the last cluster is linked as the others are.
chained_noEnd(n) ==
    [w EXCEPT !.nextFree = @ + n, !.used = @ + n,
              !.fat = [c \in w.nextFree .. w.nextFree + n - 1 |-> c + 1] @@ @]

\* allocChain: clusters in order, each leading to the next.
chained(n) ==
    [w EXCEPT !.nextFree = @ + n, !.used = @ + n,
              !.fat = [c \in w.nextFree .. w.nextFree + n - 1 |->
                          IF c < w.nextFree + n - 1 THEN c + 1 ELSE EOC] @@ @]

firstOf(n) == IF n = 0 THEN 0 ELSE w.nextFree

entriesPerClus == clusterSize(w.geo) \div dirEntrySize
dirClusters(d) == Max({1, (entryCount(d) + entriesPerClus - 1) \div entriesPerClus})

\* Mutant: a cluster that is not full is not counted.
fileClusters_floor(n) == tree[n].len \div clusterSize(w.geo)

fileClusters(n) == (tree[n].len + clusterSize(w.geo) - 1) \div clusterSize(w.geo)

\* The root of FAT12 and FAT16 lies in a region of its own.
Fixed(d) == d = Root /\ w.geo.bits # 32

\* The cluster a child's ".." names: 0 for the root.
dotdot(d, own) == IF d = Root THEN 0 ELSE own

children(d, own) ==
    [i \in DOMAIN sortedChildren(d) |->
        LET e == sortedChildren(d)[i]
        IN  [op |-> IF IsDir(e.node) THEN "enter" ELSE "file", node |-> e.node,
             in |-> <<d, e.name>>, up |-> dotdot(d, own)]]

Ends(why) == err' = why /\ stage' = "done" /\ UNCHANGED <<w, todo, dev>>

\* layoutDir and layoutRootFixed, up to the layout of the children.
EnterDir ==
    /\ fs = "fat" /\ stage = "write" /\ todo # <<>> /\ Head(todo).op = "enter"
    /\ LET d == Head(todo).node
           n == IF Fixed(d) THEN 0 ELSE dirClusters(d)
       IN  IF ~representable(d) THEN Ends("not representable")
           ELSE IF ~fits(n) THEN Ends("out of clusters")
           ELSE /\ w' = [chained(n) EXCEPT !.dirClus = (d :> firstOf(n)) @@ @]
                /\ todo' = children(d, firstOf(n))
                             \o <<[op |-> "leave", node |-> d, up |-> Head(todo).up]>> \o Tail(todo)
                /\ UNCHANGED <<dev, stage, err>>
    /\ UNCHANGED <<fs, tree, label, size>>

\* layoutFile, once for every name.  A source that fails ends the build.
LayoutFile ==
    /\ fs = "fat" /\ stage = "write" /\ todo # <<>> /\ Head(todo).op = "file"
    /\ LET n == Head(todo).node
           k == fileClusters(n)
       IN  IF ~fits(k) THEN Ends("out of clusters")
           ELSE /\ w' = [chained(k) EXCEPT !.first = (Head(todo).in :> firstOf(k)) @@ @]
                /\ Commit([i \in 1 .. k |-> Request(clusterOffset(w.geo, w.nextFree + i - 1),
                                                     clusterSize(w.geo), Data(n, i))])
                /\ todo' = Tail(todo)
                /\ stage' = IF err' = "nil" THEN stage ELSE "done"
    /\ UNCHANGED <<fs, tree, label, size>>

\* putChildEntries: the pieces of the long name, the last one first, and the short
\* entry, whose checksum the pieces carry.
childSlots(d, e, short) ==
    LET k == lfnEntries(e.name)
    IN  [i \in 1 .. k |-> [t |-> "lfn", ord |-> k - i + 1, sum |-> short, name |-> e.name]]
        \o <<[t |-> "short", short |-> short, dir |-> IsDir(e.node), size |-> IF IsDir(e.node) THEN 0 ELSE tree[e.node].len,
              first |-> IF IsDir(e.node) THEN w.dirClus[e.node] ELSE w.first[<<d, e.name>>]]>>

\* putVolumeLabel or putDotEntries, and the children.
slots(d, up) ==
    (IF d = Root THEN <<[t |-> "label"]>>
     ELSE <<[t |-> "dot", first |-> w.dirClus[d]], [t |-> "dotdot", first |-> up]>>)
    \o FlattenSeq([i \in DOMAIN sortedChildren(d) |-> childSlots(d, sortedChildren(d)[i], aliases(d)[i])])

\* layoutRootFixed finds the region full by what the next name is counted for,
\* behind what the names before it have taken.
slotsBefore(i) == FoldLeft(LAMBDA a, e : a + lfnEntries(e.name) + 1, 1, SubSeq(sortedChildren(Root), 1, i - 1))
rootFull ==
    \E i \in DOMAIN sortedChildren(Root) :
        /\ slotsBefore(i) <= rootEntries1216
        /\ slotsBefore(i) + lfnCount(sortedChildren(Root)[i].name) + 1 > rootEntries1216

writeClusters(d, ss) ==
    [i \in 1 .. dirClusters(d) |->
        Request(clusterOffset(w.geo, w.dirClus[d] + i - 1), clusterSize(w.geo),
                [t |-> "dir", slots |-> SubSeq(ss, (i - 1) * entriesPerClus + 1, Min({i * entriesPerClus, Len(ss)}))])]

\* The entries are written behind each other into a buffer of the size that was
\* counted: beyond its end the program stops.
LeaveDir ==
    /\ fs = "fat" /\ stage = "write" /\ todo # <<>> /\ Head(todo).op = "leave"
    /\ LET d == Head(todo).node
       IN  \E ss \in {slots(d, Head(todo).up)} :
             IF Fixed(d) /\ rootFull THEN Ends("root directory full")
             ELSE IF Len(ss) > (IF Fixed(d) THEN rootEntries1216 ELSE dirClusters(d) * entriesPerClus)
                  THEN Ends("panic")
             ELSE /\ Commit(IF Fixed(d) THEN <<Request(w.geo.rootRegion * sectorSize, rootDirSectors(w.geo.bits) * sectorSize,
                                                       [t |-> "dir", slots |-> ss])>>
                            ELSE writeClusters(d, ss))
                  /\ todo' = Tail(todo)
                  /\ UNCHANGED <<w, stage>>
    /\ UNCHANGED <<fs, tree, label, size>>

\* The entries that have room in the table: packFAT12 and the loops of writeFATs.
fatSlot(g, c) == (c + 1) * g.bits <= g.fatSize * sectorSize * 8

writeFATs ==
    /\ fs = "fat" /\ stage = "write" /\ todo = <<>>
    /\ LET g == w.geo
           raw == [t |-> "fat", of |-> [c \in {c \in DOMAIN w.fat : fatSlot(g, c)} |-> w.fat[c]]]
       IN  Commit([i \in 1 .. numFATs |-> Request((reservedSecs(g.bits) + (i - 1) * g.fatSize) * sectorSize,
                                                  g.fatSize * sectorSize, raw)])
    /\ stage' = "boot"
    /\ UNCHANGED <<fs, tree, label, size, todo, w>>

bootSector == [t |-> "boot"] @@ w.geo
fsInfo == [t |-> "info", free |-> w.geo.clusters - w.used, next |-> w.nextFree]

writeBootAndInfo ==
    /\ fs = "fat" /\ stage = "boot"
    /\ Commit(<<Request(0, sectorSize, bootSector)>>
              \o IF w.geo.bits # 32 THEN <<>>
                 ELSE <<Request(backupBootSec * sectorSize, sectorSize, bootSector),
                        Request(fsInfoSector * sectorSize, sectorSize, fsInfo),
                        Request((backupBootSec + fsInfoSector) * sectorSize, sectorSize, fsInfo)>>)
    /\ stage' = "done"
    /\ UNCHANGED <<fs, tree, label, size, todo, w>>

Next == Format \/ EnterDir \/ LayoutFile \/ LeaveDir \/ writeFATs \/ writeBootAndInfo
-----------------------------------------------------------------------------
(* How a driver reads the volume: the engine itself cannot open one. *)

Written == fs = "fat" /\ stage = "done" /\ err = "nil"
table == At(reservedSecs(At(0).bits) * sectorSize).of

RECURSIVE chain(_, _)
chain(c, seen) == IF c \notin DOMAIN table \/ c < 2 \/ c \in seen THEN <<>>
                  ELSE <<c>> \o chain(table[c], seen \cup {c})

clustersAt(c) == [i \in DOMAIN chain(c, {}) |-> At(clusterOffset(At(0), chain(c, {})[i]))]

dirSlots(isRoot, c) ==
    LET b == At(0)
        parts == IF isRoot /\ b.bits # 32 THEN <<At(b.rootRegion * sectorSize)>>
                 ELSE clustersAt(IF isRoot THEN rootCluster ELSE c)
    IN  FlattenSeq([i \in DOMAIN parts |-> IF parts[i].t = "dir" THEN parts[i].slots ELSE <<>>])

\* The entries before a short one, when they are the pieces of one name.
longName(ss, i) ==
    LET k == IF i > 1 /\ ss[i - 1].t = "lfn" THEN lfnEntries(ss[i - 1].name) ELSE 0
    IN  IF k > 0 /\ k < i /\ \A j \in 1 .. k : ss[i - j] = [t |-> "lfn", ord |-> j, sum |-> ss[i].short, name |-> ss[i - 1].name]
        THEN ss[i - 1].name ELSE -1

RECURSIVE readDir(_, _, _)
readDir(path, isRoot, c) ==
    LET ss == dirSlots(isRoot, c)
    IN  UNION {LET p == Append(path, longName(ss, i))
               IN  {Item(p, IF ss[i].dir THEN "dir" ELSE "reg", ss[i].size,
                         IF ss[i].dir \/ ss[i].first = 0 THEN <<>> ELSE clustersAt(ss[i].first), 0, FALSE)}
                     \cup IF ss[i].dir THEN readDir(p, FALSE, ss[i].first) ELSE {} :
               i \in {j \in DOMAIN ss : ss[j].t = "short"}}

clustersOf(n) == (tree[n].len + clusterSize(At(0)) - 1) \div clusterSize(At(0))

\* No two entries of a directory have the same short name, whatever the others are.
FatAliasesUnique ==
    fs = "fat" => \A o \in DOMAIN dev : dev[o].what.t = "dir" =>
        \A i, j \in DOMAIN dev[o].what.slots :
            /\ i # j
            /\ dev[o].what.slots[i].t = "short" /\ dev[o].what.slots[j].t = "short"
            => dev[o].what.slots[i].short # dev[o].what.slots[j].short

\* A driver that follows the table finds the tree: every name in full, every file
\* with its contents, which executable bits are not part of.  A driver that only
\* knows short names can tell all of them apart.
FatReadBack ==
    /\ Written => readDir(<<>>, TRUE, 0) = {[i EXCEPT !.exec = FALSE] : i \in Wanted(clustersOf)}
    /\ FatAliasesUnique

\* What the table, the directories and the boot sector say agrees: the chains of the
\* directories and files take every used cluster once and no other, both tables are
\* the same, and the free count is what is left.
FatChainsExact ==
    Written =>
        LET b == At(0)
            heads == {w.first[k] : k \in DOMAIN w.first} \cup {w.dirClus[d] : d \in DOMAIN w.dirClus}
            taken == FlattenSeq([i \in 1 .. Cardinality(heads) |-> chain(increasing(heads)[i], {})])
        IN  /\ Len(taken) = Cardinality(Range(taken))
            /\ Range(taken) = DOMAIN table \ {0, 1}
            /\ \A c \in Range(taken) : clusterOffset(b, c) + clusterSize(b) <= size
            /\ At((reservedSecs(b.bits) + b.fatSize) * sectorSize) = At(reservedSecs(b.bits) * sectorSize)
            /\ b.bits = 32 => At(fsInfoSector * sectorSize).free = b.clusters - Cardinality(Range(taken))

\* Every cluster of the heap has an entry in the table and lies on the device, and
\* the number of clusters a driver works out is one for the width that was written.
FatGeometrySound ==
    fs = "fat" /\ stage \notin {"layout", "done"} =>
        LET g == w.geo
            derived == (g.total - g.dataStart) \div g.spc
        IN  /\ fatSlot(g, g.clusters + 1)
            /\ g.dataStart + g.clusters * g.spc <= g.total
            /\ derived = g.clusters
            /\ g.bits = IF derived <= maxFAT12Clusters THEN 12 ELSE IF derived <= maxFAT16Clusters THEN 16 ELSE 32
=============================================================================
