-------------------------------- MODULE Erofs --------------------------------
(***************************************************************************)
(* pkg/erofs: every node is numbered by the place of its inode, in one     *)
(* walk, and a second walk writes its data, its inode and the attributes   *)
(* that follow the inode.  The data area starts at the block after the     *)
(* last inode.                                                             *)
(***************************************************************************)
EXTENDS Target

superOffset == 1024
superSize == 128
blockSize == 4096
inodeExtendedSize == 64
nidSlot == 32
direntSize == 12
xattrHeaderSize == 12
xattrEntrySize == 4
maxValue == 65535
Dot == -2
DotDot == -1
LenOf(x) == CASE x = Dot -> 1 [] x = DotDot -> 2 [] OTHER -> NameLen[x]

xattrSize(n) ==
    IF tree[n].xattrs = <<>> THEN 0
    ELSE FoldLeft(LAMBDA a, x : a + ceilTo(xattrEntrySize + x.bytes, 4), xattrHeaderSize, tree[n].xattrs)

\* The count is sixteen bits wide.
xattrICount(k) == IF k = 0 THEN 0 ELSE ((k - xattrHeaderSize) \div 4 + 1) % 65536
xattrIbodySize(icount) == IF icount = 0 THEN 0 ELSE xattrHeaderSize + (icount - 1) * 4

\* Mutant: an inode may start in the last bytes of a block.
inodeStart_straddles(off) == off

\* The core of an inode does not cross the end of a block.
inodeStart(off) ==
    IF off % blockSize > blockSize - inodeExtendedSize THEN ceilTo(off, blockSize) ELSE off

\* assignNids, for the nodes in the order of the walk: a node is numbered once.
numbered(a, n) ==
    IF n \in DOMAIN a.nids THEN a
    ELSE LET off == inodeStart(a.nextOff)
         IN  [nids |-> (n :> off \div nidSlot) @@ a.nids,
              nextOff |-> off + ceilTo(inodeExtendedSize + xattrSize(n), nidSlot)]

assignNids ==
    FoldLeft(numbered, [nids |-> NoFn, nextOff |-> ceilTo(superOffset + superSize, inodeExtendedSize)],
             <<Root>> \o [i \in DOMAIN walk(Root, <<>>) |-> walk(Root, <<>>)[i].node])

dentry(x, nid) == [name |-> x, nid |-> nid]

dirEntries(d, parentNid) ==
    <<dentry(Dot, w.nids[d]), dentry(DotDot, parentNid)>>
      \o [i \in DOMAIN Names(d) |-> dentry(Names(d)[i], w.nids[tree[d].kids[Names(d)[i]]])]

\* packDir: as many entries as fit one block, then the next.
RECURSIVE packDir(_)
packDir(es) ==
    IF es = <<>> THEN <<>>
    ELSE LET used(k) == FoldLeft(+, k * direntSize, [i \in 1 .. k |-> LenOf(es[i].name)])
             k == Max({k \in DOMAIN es : used(k) <= blockSize})
         IN  <<SubSeq(es, 1, k)>> \o packDir(SubSeq(es, k + 1, Len(es)))

dirBlocks(d, parentNid) ==
    LET bs == packDir(dirEntries(d, parentNid))
    IN  [i \in DOMAIN bs |-> [t |-> "dirents", es |-> bs[i]]]

blockCount(len) == (len + blockSize - 1) \div blockSize

\* The kernel's packing of a device number, minor numbers being below 256.
newEncodeDev(rdev) == (rdev \div 256) * 256 + (rdev % 256)
newDecodeDev(dv) == ((dv \div 256) % 4096) * 256 + (dv % 256)

inode(n, len, union) ==
    [t |-> "inode", kind |-> tree[n].kind, exec |-> tree[n].exec, owner |-> tree[n].owner, size |-> len, union |-> union,
     nlink |-> tree[n].nlink, icount |-> xattrICount(xattrSize(n))]

writeInode(n, len, union) ==
    LET base == w.nids[n] * nidSlot
    IN  <<Request(base, inodeExtendedSize, inode(n, len, union))>>
        \o (IF tree[n].xattrs = <<>> THEN <<>>
            ELSE IF \E i \in DOMAIN tree[n].xattrs : tree[n].xattrs[i].bytes > maxValue THEN <<Refuse("attribute too long")>>
            ELSE <<Request(base + inodeExtendedSize, xattrSize(n), [t |-> "xattrs", of |-> tree[n].xattrs])>>)

writeBlocks(blocks) ==
    [i \in DOMAIN blocks |-> Request((w.dataCursor + i - 1) * blockSize, blockSize, blocks[i])]

\* The data blocks of a node.
dataBlocks(n, parentNid) ==
    CASE IsDir(n) -> dirBlocks(n, parentNid)
      [] HasData(n) -> [i \in 1 .. blockCount(tree[n].len) |-> Data(n, i)]
      [] OTHER -> <<>>
-----------------------------------------------------------------------------
Assign ==
    /\ fs = "erofs" /\ stage = "layout"
    /\ \E a \in {assignNids} :
        w' = [nids |-> a.nids, laid |-> {}, dataCursor |-> blockCount(a.nextOff)]
    /\ stage' = "write"
    /\ todo' = <<[node |-> Root, parent |-> Root]>>
    /\ UNCHANGED <<fs, tree, label, size, dev, err>>

\* layout of a node that has been written under another name.
Laid ==
    /\ fs = "erofs" /\ stage = "write" /\ todo # <<>>
    /\ Head(todo).node \in w.laid
    /\ todo' = Tail(todo)
    /\ UNCHANGED <<fs, tree, label, size, dev, stage, w, err>>

\* layout: the data, then the inode, then the entries of a directory.
LayoutNode ==
    /\ fs = "erofs" /\ stage = "write" /\ todo # <<>>
    /\ LET n == Head(todo).node
       IN  /\ n \notin w.laid
           /\ \E bs \in {dataBlocks(n, w.nids[Head(todo).parent])} :
                /\ Commit(writeBlocks(bs)
                          \o writeInode(n, IF IsDir(n) THEN Len(bs) * blockSize ELSE tree[n].len,
                                        IF bs # <<>> THEN w.dataCursor
                                        ELSE IF tree[n].kind = "device" THEN newEncodeDev(tree[n].rdev) ELSE 0))
                /\ w' = [w EXCEPT !.laid = @ \cup {n}, !.dataCursor = @ + Len(bs)]
           /\ todo' = [i \in DOMAIN Names(n) |-> [node |-> sortedChildren(n)[i].node, parent |-> n]]
                        \o Tail(todo)
    /\ UNCHANGED <<fs, tree, label, size, stage>>

\* Mutant: the image is said to end where the data began to be placed.
blocks_short == w.dataCursor - 1

blocks == w.dataCursor

superblock == [t |-> "super", rootNid |-> w.nids[Root], blocks |-> blocks]

WriteSuper ==
    /\ fs = "erofs" /\ stage = "write" /\ todo = <<>>
    /\ Commit(<<Request(superOffset, superSize, superblock)>>)
    /\ stage' = IF err' = "nil" /\ size = Grows THEN "trim" ELSE "done"
    /\ UNCHANGED <<fs, tree, label, size, todo, w>>

\* trimErofs in engine.go.
trimErofs ==
    /\ fs = "erofs" /\ stage = "trim"
    /\ dev' = truncated(At(superOffset).blocks * blockSize)
    /\ stage' = "done"
    /\ UNCHANGED <<fs, tree, label, size, todo, w, err>>

Next == Assign \/ Laid \/ LayoutNode \/ WriteSuper \/ trimErofs
-----------------------------------------------------------------------------
(* The reader. *)

readInode(nid) == At(nid * nidSlot)
readBlock(in, i) == At((in.union + i - 1) * blockSize)

\* readDir and readNode: the entries of a directory and of those below it.
RECURSIVE readDir(_, _)
readDir(path, nid) ==
    LET in == readInode(nid)
    IN  IF in.t # "inode" THEN {[path |-> path, nid |-> -1]}
        ELSE IF in.kind # "dir" THEN {}
        ELSE UNION {LET b == readBlock(in, i)
                    IN  IF b.t # "dirents" THEN {[path |-> path, nid |-> -1]}
                        ELSE UNION {{[path |-> Append(path, e.name), nid |-> e.nid]}
                                      \cup readDir(Append(path, e.name), e.nid) :
                                    e \in {x \in Range(b.es) : x.name \notin {Dot, DotDot}}} :
                    i \in 1 .. blockCount(in.size)}

readXattrs(nid) ==
    LET k == xattrIbodySize(readInode(nid).icount)
        a == Exactly(nid * nidSlot + inodeExtendedSize, k)
    IN  IF k = 0 THEN <<>> ELSE IF a.t = "xattrs" THEN a.of ELSE <<Garbage>>

readNode(e, es) ==
    LET in == readInode(e.nid)
        file == in.kind \in {"reg", "symlink"}
    IN  Inode(Item(e.path, in.kind, IF file THEN in.size ELSE 0,
                   IF file THEN [i \in 1 .. blockCount(in.size) |-> readBlock(in, i)] ELSE <<>>,
                   IF in.kind = "device" THEN newDecodeDev(in.union) ELSE 0, in.exec),
              in.owner, readXattrs(e.nid), in.nlink, {f.path : f \in {g \in es : g.nid = e.nid}})

Open ==
    LET es == readDir(<<>>, At(superOffset).rootNid)
    IN  IF \E e \in es : e.nid = -1 THEN {Corrupt} ELSE {readNode(e, es) : e \in es}

parts(n) == blockCount(tree[n].len)

\* The attributes of n take fewer units of four bytes than sixteen bits can count.
Countable(n) == xattrSize(n) < xattrHeaderSize + 4 * 65535
nodeAt(path) == (CHOOSE e \in Range(walk(Root, <<>>)) : e.path = path).node

\* What Finalize accepts reads back as the tree it was given: contents,
\* attributes, link counts, and one inode for the names of a file.  Only the
\* attributes of an inode whose count overflows are lost, with everything else kept.
ErofsReadBack ==
    fs = "erofs" /\ stage = "done" /\ err = "nil" =>
        LET countable(I) ==
                {IF Countable(nodeAt(i.item.path)) THEN i ELSE [i EXCEPT !.xattrs = <<>>] : i \in I}
        IN  /\ At(superOffset).t = "super"
            /\ Corrupt \notin Open
            /\ countable(Open) = countable(WantedInodes(parts, LAMBDA n : tree[n].nlink))

\* The core of an inode lies in one block, where the kernel reads it, and the
\* data area begins after the last inode's attributes.
ErofsInodesInBlocks ==
    fs = "erofs" /\ stage # "layout" =>
        \A n \in DOMAIN w.nids :
            LET off == w.nids[n] * nidSlot
            IN  /\ off \div blockSize = (off + inodeExtendedSize - 1) \div blockSize
                /\ off + inodeExtendedSize + xattrSize(n) <= w.dataCursor * blockSize
=============================================================================
