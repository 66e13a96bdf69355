-------------------------------- MODULE Exfat --------------------------------
(***************************************************************************)
(* pkg/exfat: clusters are handed out in order and marked in a bitmap that *)
(* is itself stored in clusters, the first ones, and written when all the  *)
(* others are taken.  Files and directories lie in one piece; the bitmap,  *)
(* the up-case table and the root are chained in the table as well.        *)
(***************************************************************************)
EXTENDS Target

bytesPerSector == 512
bootRegionSectors == 24
dirEntrySize == 32
upcaseBytes == 256
-----------------------------------------------------------------------------
(* The geometry. *)

secPerClus(total) == IF total <= 1048576 THEN 8 ELSE IF total <= 16777216 THEN 64 ELSE 256

heapWith(total, fatLength) == ceilTo(bootRegionSectors + fatLength, secPerClus(total))
clustersWith(total, fatLength) == (total - heapWith(total, fatLength)) \div secPerClus(total)
needSecs(total, fatLength) ==
    ceilTo((clustersWith(total, fatLength) + 2) * 4, bytesPerSector) \div bytesPerSector

\* The loop that grows the table until it can address every cluster; 0 when the
\* heap would start behind the end.
RECURSIVE solved(_, _)
solved(total, fatLength) ==
    IF heapWith(total, fatLength) >= total THEN 0
    ELSE IF needSecs(total, fatLength) <= fatLength THEN fatLength
    ELSE solved(total, needSecs(total, fatLength))

computeGeometry(bytes) ==
    LET total == bytes \div bytesPerSector
        fatLength == solved(total, 1)
        clusters == clustersWith(total, fatLength)
    IN  CASE bytes <= 0 \/ bytes % bytesPerSector # 0 -> [err |-> "bad size"]
          [] fatLength = 0 \/ clusters < 1 -> [err |-> "too small"]
          [] OTHER -> [err |-> "nil", total |-> total, spc |-> secPerClus(total), fatLength |-> fatLength,
                       heap |-> heapWith(total, fatLength), clusters |-> clusters]

clusterBytes(g) == g.spc * bytesPerSector
clusterOffset(g, c) == (g.heap + (c - 2) * g.spc) * bytesPerSector
bitmapBytes(g) == (g.clusters + 7) \div 8
EOC == -1                         \* the end of a chain

Ends(why) == err' = why /\ stage' = "done" /\ UNCHANGED <<w, todo, dev>>

Format ==
    /\ fs = "exfat" /\ stage = "layout"
    /\ \E g \in {computeGeometry(size)} :
        IF g.err # "nil" THEN Ends(g.err)
        ELSE /\ w' = [geo |-> g, bitmap |-> {}, fat |-> (0 :> EOC) @@ (1 :> EOC), nextCluster |-> 2,
                      bitmapFirst |-> 0, upcaseFirst |-> 0, at |-> NoFn]
             /\ stage' = "reserve"
             /\ UNCHANGED <<todo, dev, err>>
    /\ UNCHANGED <<fs, tree, label, size>>
-----------------------------------------------------------------------------
(* Clusters. *)

\* Mutant: the last cluster of an object is not counted when it is not full.
alignClusters_floor(g, bytes) == Max({1, bytes \div clusterBytes(g)})

\* The clusters of so many bytes, at least one.
alignClusters(g, bytes) == Max({1, ceilTo(bytes, clusterBytes(g)) \div clusterBytes(g)})

\* alloc marks the clusters in the bitmap without a look at its end: the program
\* stops when it runs off the last byte, not when it runs off the heap.
offBitmap(x, n) == x.nextCluster - 2 + n - 1 >= bitmapBytes(x.geo) * 8
alloc(x, n) ==
    [x EXCEPT !.bitmap = @ \cup x.nextCluster .. x.nextCluster + n - 1, !.nextCluster = @ + n]

\* chain, for what was allocated last: the program stops at the end of the table.
offTable(x, n) == x.nextCluster + n - 1 >= x.geo.clusters + 2
chain(x, n) ==
    LET first == x.nextCluster - n
    IN  [x EXCEPT !.fat = [c \in first .. first + n - 1 |-> IF c < first + n - 1 THEN c + 1 ELSE EOC] @@ @]

\* The start of Finalize: the bitmap and the up-case table come first.
Reserve ==
    /\ fs = "exfat" /\ stage = "reserve"
    /\ LET b == alignClusters(w.geo, bitmapBytes(w.geo))
           u == alignClusters(w.geo, upcaseBytes)
           x == chain(alloc([w EXCEPT !.bitmapFirst = w.nextCluster], b), b)
       IN  IF offBitmap(w, b + u) \/ offTable(w, b + u) THEN Ends("panic")
           ELSE /\ w' = chain(alloc([x EXCEPT !.upcaseFirst = x.nextCluster], u), u)
                /\ todo' = <<[op |-> "enter", node |-> Root, in |-> <<>>]>>
                /\ stage' = "write"
                /\ UNCHANGED <<dev, err>>
    /\ UNCHANGED <<fs, tree, label, size>>
-----------------------------------------------------------------------------
(* Directories and files.  w.at tells, for a name, its first cluster and length. *)

nameEntries(x) == (NameLen[x] + 14) \div 15

dirEntries(d) ==
    FoldLeft(LAMBDA a, e : a + 2 + nameEntries(e.name), IF d = Root THEN 3 ELSE 0, sortedChildren(d))
dirClusters(d) == alignClusters(w.geo, (dirEntries(d) + 1) * dirEntrySize)

representable(d) == \A e \in Range(sortedChildren(d)) : tree[e.node].kind \in {"dir", "reg"}

\* layoutDir, up to the layout of the children.
EnterDir ==
    /\ fs = "exfat" /\ stage = "write" /\ todo # <<>> /\ Head(todo).op = "enter"
    /\ LET d == Head(todo).node
           n == dirClusters(d)
           x == [alloc(w, n) EXCEPT !.at = (Head(todo).in :> <<w.nextCluster, n * clusterBytes(w.geo)>>) @@ @]
       IN  IF ~representable(d) THEN Ends("not representable")
           ELSE IF offBitmap(w, n) \/ (d = Root /\ offTable(w, n)) THEN Ends("panic")
           ELSE /\ w' = IF d = Root THEN chain(x, n) ELSE x
                /\ todo' = [i \in DOMAIN sortedChildren(d) |->
                               LET e == sortedChildren(d)[i]
                               IN  [op |-> IF IsDir(e.node) THEN "enter" ELSE "file", node |-> e.node,
                                    in |-> Append(Head(todo).in, e.name)]]
                             \o <<[Head(todo) EXCEPT !.op = "leave"]>> \o Tail(todo)
                /\ UNCHANGED <<dev, stage, err>>
    /\ UNCHANGED <<fs, tree, label, size>>

\* writeClusterRaw: one write, whose error is dropped.  A partition or an image in
\* memory refuses it as a whole when it reaches over the end.
writeClusterRaw(first, what) ==
    LET g == w.geo
    IN  IF clusterOffset(g, first + Len(what)) > size THEN <<>>
        ELSE [i \in DOMAIN what |-> Request(clusterOffset(g, first + i - 1), clusterBytes(g), what[i])]

\* layoutFile, once for every name.
LayoutFile ==
    /\ fs = "exfat" /\ stage = "write" /\ todo # <<>> /\ Head(todo).op = "file"
    /\ LET f == Head(todo)
           len == tree[f.node].len
           n == alignClusters(w.geo, len)
       IN  IF len = 0
           THEN /\ w' = [w EXCEPT !.at = (f.in :> <<0, 0>>) @@ @]
                /\ todo' = Tail(todo)
                /\ UNCHANGED <<dev, stage, err>>
           ELSE IF offBitmap(w, n) THEN Ends("panic")
           ELSE IF tree[f.node].src = "fails" THEN Ends("read")
           ELSE /\ w' = [alloc(w, n) EXCEPT !.at = (f.in :> <<w.nextCluster, len>>) @@ @]
                /\ Commit(writeClusterRaw(w.nextCluster, [i \in 1 .. n |-> Data(f.node, i)]))
                /\ todo' = Tail(todo)
                /\ UNCHANGED stage
    /\ UNCHANGED <<fs, tree, label, size>>

\* putFileSet: the file, its stream and the pieces of its name.
fileSet(path, e) ==
    LET p == Append(path, e.name)
        k == nameEntries(e.name)
    IN  <<[t |-> "file", secondary |-> 1 + k, dir |-> IsDir(e.node)],
          [t |-> "stream", noFatChain |-> w.at[p][2] > 0, nameLen |-> NameLen[e.name] % 256,
           first |-> w.at[p][1], len |-> w.at[p][2]]>>
        \o [i \in 1 .. k |-> [t |-> "name", of |-> e.name, piece |-> i]]

\* putVolumeLabel, putBitmapEntry, putUpcaseEntry in the root, and the children.
entries(d, path) ==
    (IF d # Root THEN <<>>
     ELSE <<[t |-> "label"], [t |-> "bitmap", first |-> w.bitmapFirst, len |-> bitmapBytes(w.geo)],
            [t |-> "upcase", first |-> w.upcaseFirst, len |-> upcaseBytes]>>)
    \o FlattenSeq([i \in DOMAIN sortedChildren(d) |-> fileSet(path, sortedChildren(d)[i])])

LeaveDir ==
    /\ fs = "exfat" /\ stage = "write" /\ todo # <<>> /\ Head(todo).op = "leave"
    /\ LET d == Head(todo).node
           per == clusterBytes(w.geo) \div dirEntrySize
       IN  \E es \in {entries(d, Head(todo).in)} :
             Commit(writeClusterRaw(w.at[Head(todo).in][1],
                 [i \in 1 .. dirClusters(d) |->
                     [t |-> "dir", slots |-> SubSeq(es, (i - 1) * per + 1, Min({i * per, Len(es)}))]]))
    /\ todo' = Tail(todo)
    /\ UNCHANGED <<fs, tree, label, size, stage, w>>

\* Mutant: the bitmap is written as it is when its own clusters are reserved.
payload_early == [t |-> "bitmap", used |-> w.bitmapFirst .. w.upcaseFirst]

payload == [t |-> "bitmap", used |-> w.bitmap]

\* The end of Finalize: the bitmap and the up-case table, then writeFAT.
WriteTables ==
    /\ fs = "exfat" /\ stage = "write" /\ todo = <<>>
    /\ Commit(writeClusterRaw(w.bitmapFirst, [i \in 1 .. alignClusters(w.geo, bitmapBytes(w.geo)) |-> payload])
              \o writeClusterRaw(w.upcaseFirst, <<[t |-> "upcase"]>>)
              \o <<Request(bootRegionSectors * bytesPerSector, w.geo.fatLength * bytesPerSector,
                           [t |-> "fat", of |-> [c \in {c \in DOMAIN w.fat : c * 4 + 4 <= w.geo.fatLength * bytesPerSector}
                                                   |-> w.fat[c]]])>>)
    /\ stage' = "boot"
    /\ UNCHANGED <<fs, tree, label, size, todo, w>>

\* The main region and its backup, each with its checksum.
writeBoot ==
    /\ fs = "exfat" /\ stage = "boot"
    /\ LET region == [t |-> "boot", heap |-> w.geo.heap, spc |-> w.geo.spc, clusters |-> w.geo.clusters,
                      fatLength |-> w.geo.fatLength, root |-> w.at[<<>>][1],
                      percent |-> ((Cardinality(w.bitmap) * 100) \div w.geo.clusters) % 256]
       IN  Commit(<<Request(0, 12 * bytesPerSector, region), Request(12 * bytesPerSector, 12 * bytesPerSector, region)>>)
    /\ stage' = "done"
    /\ UNCHANGED <<fs, tree, label, size, todo, w>>

Next == Format \/ Reserve \/ EnterDir \/ LayoutFile \/ LeaveDir \/ WriteTables \/ writeBoot
-----------------------------------------------------------------------------
(* Opening a volume. *)

table == At(bootRegionSectors * bytesPerSector).of
fatNext(c) == IF c \in DOMAIN table THEN table[c] ELSE 0

\* The loop of readDirBytes over a chain, which ends when it is longer than the heap.
RECURSIVE chained(_, _)
chained(c, n) == IF c < 2 \/ n > At(0).clusters THEN <<>> ELSE <<c>> \o chained(fatNext(c), n + 1)

clusterAt(first, i, noFatChain) ==
    IF noFatChain THEN first + i ELSE FoldLeft(LAMBDA c, j : fatNext(c), first, [j \in 1 .. i |-> j])

\* readDirBytes: a directory whose length is known lies in one piece.
readDirBytes(first, len, noFatChain) ==
    LET cs == IF noFatChain THEN [i \in 1 .. ceilTo(len, clusterBytes(At(0))) \div clusterBytes(At(0)) |-> first + i - 1]
              ELSE chained(first, 1)
        at(c) == At(clusterOffset(At(0), c))
    IN  FlattenSeq([i \in DOMAIN cs |-> IF at(cs[i]).t = "dir" THEN at(cs[i]).slots ELSE <<>>])

\* parseFileSet: the name is put together from as many pieces as its length needs.
fileSetName(set) ==
    LET pieces == SubSeq(set, 3, Len(set))
    IN  IF /\ pieces # <<>> /\ set[2].nameLen <= 15 * Len(pieces)
           /\ \A k \in DOMAIN pieces : pieces[k] = [t |-> "name", of |-> pieces[1].of, piece |-> k]
        THEN pieces[1].of ELSE -1

\* The entry sets of a directory: the loop of readDir.
RECURSIVE fileSets(_)
fileSets(es) ==
    IF es = <<>> THEN <<>>
    ELSE IF Head(es).t # "file" \/ 1 + Head(es).secondary > Len(es) THEN fileSets(Tail(es))
    ELSE LET n == 1 + Head(es).secondary
         IN  (IF es[2].t = "stream" THEN <<SubSeq(es, 1, n)>> ELSE <<>>) \o fileSets(SubSeq(es, n + 1, Len(es)))

\* exfatFile.ReadAt over the whole file.
readFile(s) ==
    [i \in 1 .. ceilTo(s.len, clusterBytes(At(0))) \div clusterBytes(At(0)) |->
        At(clusterOffset(At(0), clusterAt(s.first, i - 1, s.noFatChain)))]

RECURSIVE readDir(_, _, _, _)
readDir(path, first, len, noFatChain) ==
    UNION {LET s == set[2]
               p == Append(path, fileSetName(set))
           IN  {Item(p, IF set[1].dir THEN "dir" ELSE "reg", IF set[1].dir THEN 0 ELSE s.len,
                     IF set[1].dir \/ s.len = 0 THEN <<>> ELSE readFile(s), 0, FALSE)}
                 \cup IF set[1].dir /\ s.len > 0 THEN readDir(p, s.first, s.len, s.noFatChain) ELSE {} :
           set \in Range(fileSets(readDirBytes(first, len, noFatChain)))}

Open == readDir(<<>>, At(0).root, 0, FALSE)
-----------------------------------------------------------------------------
Written == fs = "exfat" /\ stage = "done" /\ err = "nil"

\* The clusters that were handed out are clusters of the heap.
InHeap == w.nextCluster - 2 <= w.geo.clusters

partsOf(n) == alignClusters(w.geo, tree[n].len)

\* The names whose clusters, and those of the directories they are in, are clusters
\* of the heap: all of them when the tree has room on the volume.
Placed ==
    LET inHeap(p) == w.at[p][1] + alignClusters(w.geo, w.at[p][2]) <= w.geo.clusters + 2
    IN  {p \in DOMAIN w.at : \A k \in 0 .. Len(p) : inHeap(SubSeq(p, 1, k))}

\* A tree that has room on the volume is read back from it, every name and every
\* file; exFAT has no executable bit.  A tree that has not may lose what alloc put
\* behind the heap without an error, and only that.
ExfatReadBack ==
    Written =>
        LET all == {[i EXCEPT !.exec = FALSE] : i \in Wanted(partsOf)}
        IN  /\ InHeap => Open = all
            /\ {i \in all : i.path \in Placed} \subseteq Open

\* The bitmap on the volume marks what the bitmap itself, the up-case table and the
\* entries of the directories take, each cluster once, and nothing else; what has
\* no length is chained in the table.
ExfatBitmapExact ==
    Written /\ InHeap =>
        LET g == w.geo
            run(first, bytes) == first .. first + alignClusters(g, bytes) - 1
            objects == {run(w.bitmapFirst, bitmapBytes(g)), run(w.upcaseFirst, upcaseBytes)}
                         \cup {run(w.at[p][1], w.at[p][2]) : p \in {q \in DOMAIN w.at : w.at[q][2] > 0}}
        IN  /\ At(clusterOffset(g, w.bitmapFirst)) = [t |-> "bitmap", used |-> UNION objects]
            /\ \A a, b \in objects : a # b => a \cap b = {}
            /\ UNION objects \subseteq 2 .. g.clusters + 1
            /\ clusterOffset(g, g.clusters + 2) <= size
            /\ Range(chained(w.at[<<>>][1], 1)) = run(w.at[<<>>][1], w.at[<<>>][2])
            /\ At(12 * bytesPerSector) = At(0)
=============================================================================
