------------------------------ MODULE ExtLayout ------------------------------
(***************************************************************************)
(* pkg/ext: Format, Open and Finalize of an ext2 or ext4 image.  Finalize  *)
(* numbers the inodes, then lays out one node per step (data blocks,       *)
(* extent tree or indirect blocks, attribute block), then writes inode     *)
(* tables, bitmaps, descriptors.  The allocator is pkg/alloc's, by what    *)
(* module BlockPool says of it.  An image that was opened reads the files  *)
(* it kept from its own device while Finalize lays them out on a scratch   *)
(* device, which is then copied over.                                      *)
(*                                                                         *)
(* A block holds a record whose field t tells what was written there.      *)
(* Sizes are in blocks; a name is a number, in the order of the names.     *)
(***************************************************************************)
EXTENDS ExtGeometry, Sequences, FiniteSets, SequencesExt, FiniteSetsExt, TLC

CONSTANTS DeviceSizes,     \* sizes of the devices, in blocks
          Trees,           \* trees accumulated before Finalize: [node, ents]
          NewSizes,        \* sizes of the files that edits create
          MaxEdits,        \* bound on the edits of an opened image
          LostWrites,      \* sets of blocks that a device may fail to write
          EntriesPerBlock, \* directory entries that fit one block
          directBlocks, PointersPerBlock,
          inlineExtents, EntriesPerNode, extentMaxLen, maxExtentDepth,
          rootIno, reservedInos, lostFoundIno,
          ChunkBlocks      \* copyDevice copies so many blocks at a time

VARIABLES pc,       \* "new", "open", a stage of Finalize, "done" when it has returned
          size,     \* device.Size()
          first,    \* firstDataBlock: 1 with blocks of 1024 bytes
          geo,      \* ext2Image.geo
          dev,      \* the image's device
          node,     \* image.Node, by node; the domain is the nodes there are
          ents,     \* the Children of every directory
          extents,  \* variant.useExtents (then inodes have room for attributes)
          mutate,   \* ext2Image.mutate
          lay,      \* the layouter, with the device it writes to
          todo,     \* calls of buildNode that are pending, next first
          copied,   \* blocks copyDevice has copied
          edits,    \* edits made so far
          err,      \* error of the last Finalize, "nil" for none
          want,     \* history: what the contents of every node should be
          opened    \* history: the device as Open found it

vars == <<pc, size, first, geo, dev, node, ents, extents, mutate, lay, todo, copied,
          edits, err, want, opened>>

LostFound == 2                  \* the name lost+found
Dot == -2
DotDot == -1
Zero == [t |-> "zero"]
Blank(d) == [b \in 0 .. d - 1 |-> Zero]
Entry(d, x, m) == [dir |-> d, name |-> x, node |-> m]
Idle == [ok |-> TRUE]           \* no layouter yet

\* The elements of a set of numbers in increasing order.
increasing(S) == [i \in 1 .. Cardinality(S) |->
                    CHOOSE x \in S : Cardinality({y \in S : y < x}) = i - 1]

sortedChildren(m) ==
    LET names == increasing({e.name : e \in {c \in ents : c.dir = m}})
    IN  [i \in DOMAIN names |-> CHOOSE e \in ents : e.dir = m /\ e.name = names[i]]
-----------------------------------------------------------------------------
(* The layouter's helpers: each takes the layouter and returns it.  ok goes *)
(* false when one fails and the rest of the pass is skipped; got is a       *)
(* result that is handed back.                                              *)

free(l) == 0 .. geo.total - 1 \ l.bits

mark(l, S) == [l EXCEPT !.used = @ \cup {b \in S : b < geo.total}]

reserve(l, S) == [mark(l, S) EXCEPT !.bits = @ \cup S]

\* Writes the contents f gives for some blocks.  A failing write is ignored; missed,
\* a history, keeps what it carried.
writeBlocks(l, f) ==
    [l EXCEPT !.dev = [b \in (DOMAIN f \cap DOMAIN @) \ l.lost |-> f[b]] @@ @,
              !.missed = [b \in DOMAIN f \cap DOMAIN l.dev \cap l.lost |-> f[b]] @@ @]

writeBlock(l, b, c) == writeBlocks(l, b :> c)

\* The blocks of AllocRuns in logical order, F having at least n of them.
RECURSIVE AllocRuns(_, _, _)
AllocRuns(F, n, maxRun) ==
    IF n = 0 THEN <<>>
    ELSE LET k == IF maxRun > 0 /\ n > maxRun THEN maxRun ELSE n
             fits == {i \in F : i .. i + k - 1 \subseteq F}
             s == IF fits # {} THEN Min(fits) ELSE Min(F)
             len == Min({j \in 1 .. k : j = k \/ s + j \notin F})
         IN  [i \in 1 .. len |-> s + i - 1]
                \o AllocRuns(F \ (s .. s + len - 1), n - len, maxRun)

maxRun == IF extents THEN extentMaxLen ELSE 0

allocBlocks(l, n) ==
    IF ~l.ok \/ Cardinality(free(l)) < n THEN [l EXCEPT !.ok = FALSE, !.got = <<>>]
    ELSE LET bs == AllocRuns(free(l), n, maxRun)
         IN  [reserve(l, Range(bs)) EXCEPT !.got = bs]

allocMetaBlock(l) ==
    IF ~l.ok \/ free(l) = {} THEN [l EXCEPT !.ok = FALSE]
    ELSE [reserve(l, {Min(free(l))}) EXCEPT !.got = <<Min(free(l))>>, !.curMeta = @ + 1]

writeAll(l, bs, cs) ==
    IF ~l.ok THEN l
    ELSE writeBlocks(l, [b \in Range(bs) |-> cs[CHOOSE i \in DOMAIN bs : bs[i] = b]])

-----------------------------------------------------------------------------
(* Extent trees. *)

runStart(data, i) ==
    Max({j \in 1 .. i : j = 1 \/ data[j] # data[j - 1] + 1})

contiguousRuns(data) ==
    LET S == increasing({i \in DOMAIN data : (i - runStart(data, i)) % extentMaxLen = 0})
        next(k) == IF k = Len(S) THEN Len(data) + 1 ELSE S[k + 1]
    IN  [k \in 1 .. Len(S) |->
            [logical |-> S[k] - 1, length |-> next(k) - S[k], start |-> data[S[k]]]]

ExtentNode(depth, entries) == [t |-> "extents", depth |-> depth, entries |-> entries]

\* emitLeafNodes and emitIndexNodes: a node per group of entries, each in the
\* lowest block that is free; idx becomes the level above.
emitNodes(l, depth, entries) ==
    LET n == ceilDiv(Len(entries), EntriesPerNode)
        group(g) == SubSeq(entries, (g - 1) * EntriesPerNode + 1,
                           Smaller(g * EntriesPerNode, Len(entries)))
        blks == SubSeq(increasing(free(l)), 1, n)
    IN  IF ~l.ok \/ Cardinality(free(l)) < n THEN [l EXCEPT !.ok = FALSE]
        ELSE [writeAll(reserve(l, Range(blks)), blks, [g \in 1 .. n |-> ExtentNode(depth, group(g))])
                EXCEPT !.idx = [g \in 1 .. n |-> [logical |-> group(g)[1].logical, child |-> blks[g]]],
                       !.curMeta = @ + n]

RECURSIVE growTree(_, _)
growTree(l, depth) ==
    IF ~l.ok \/ depth > maxExtentDepth THEN [l EXCEPT !.ok = FALSE]
    ELSE IF Len(l.idx) <= inlineExtents THEN [l EXCEPT !.iblock = ExtentNode(depth, l.idx)]
    ELSE growTree(emitNodes(l, depth, l.idx), depth + 1)

buildExtentTree(l, data) ==
    LET leaves == contiguousRuns(data)
    IN  IF Len(leaves) <= inlineExtents THEN [l EXCEPT !.iblock = ExtentNode(0, leaves)]
        ELSE growTree(emitNodes(l, 0, leaves), 1)

-----------------------------------------------------------------------------
(* Indirect blocks: pos is the next data block to point at. *)

RECURSIVE buildIndirect(_, _, _), fill(_, _, _, _)

\* The loop of buildIndirect from its i-th pointer on.
fill(l, level, data, i) ==
    IF ~l.ok \/ i > PointersPerBlock \/ l.pos > Len(data) THEN l
    ELSE IF level = 1 THEN fill([l EXCEPT !.idx = Append(@, data[l.pos]), !.pos = @ + 1], level, data, i + 1)
    ELSE LET b == buildIndirect(l, level - 1, data)
         IN  fill([b EXCEPT !.idx = Append(l.idx, b.got[1])], level, data, i + 1)

buildIndirect(l, level, data) ==
    LET blk == allocMetaBlock(l)
        a == fill([blk EXCEPT !.idx = <<>>], level, data, 1)
    IN  IF ~a.ok THEN a
        ELSE [writeBlock(a, blk.got[1], [t |-> "pointers", ptrs |-> a.idx]) EXCEPT !.got = blk.got]

RECURSIVE levels(_, _, _)
levels(l, k, data) ==
    IF ~l.ok \/ l.pos > Len(data) THEN l
    ELSE IF k > 3 THEN [l EXCEPT !.ok = FALSE]
    ELSE LET b == buildIndirect(l, k, data)
         IN  levels([b EXCEPT !.iblock.ind = Append(@, b.got[1])], k + 1, data)

Pointers(l, data) ==
    levels([l EXCEPT !.pos = Smaller(directBlocks, Len(data)) + 1,
                     !.iblock = [t |-> "pointers", ind |-> <<>>,
                                 direct |-> SubSeq(data, 1, Smaller(directBlocks, Len(data)))]],
           1, data)

-----------------------------------------------------------------------------
(* Inodes. *)

\* Mutant: the attribute block is not counted.
sectors_eaForgotten(l, data) == Len(data) + l.curMeta

\* i_blocks, with the attribute block, in units of a block.
sectors(l, data) == Len(data) + l.curMeta + l.in.eaBlocks

mapBlocks(l, data) ==
    LET a == IF extents THEN buildExtentTree(l, data) ELSE Pointers(l, data)
    IN  IF ~l.ok \/ ~a.ok THEN [l EXCEPT !.ok = FALSE]
        ELSE [a EXCEPT !.in.iblock = a.iblock, !.in.extentsFL = extents,
                       !.in.blocks = sectors(a, data)]

\* Attributes go into the inode when it is large and they fit, into a block of
\* their own otherwise; the ones that fit neither make Finalize fail.
placeXattrs(l, attr) ==
    LET a == allocBlocks([l EXCEPT !.usesXattrs = TRUE], 1)
    IN  IF attr = "none" THEN l
        ELSE IF extents /\ attr = "small"
             THEN [l EXCEPT !.usesXattrs = TRUE, !.in.ibody = attr]
        ELSE IF attr = "huge" \/ ~a.ok THEN [l EXCEPT !.ok = FALSE]
        ELSE [writeBlock(a, a.got[1], [t |-> "xattrs", attr |-> attr])
                EXCEPT !.in.fileACL = a.got[1], !.in.eaBlocks = 1, !.in.blocks = 1]

newInode(l, m, sz) ==
    IF ~l.ok THEN l
    ELSE placeXattrs([l EXCEPT !.curMeta = 0,
            !.in = [kind |-> node[m].kind, size |-> sz, links |-> node[m].nlink,
                    blocks |-> 0, iblock |-> Zero, extentsFL |-> FALSE,
                    fileACL |-> 0, eaBlocks |-> 0, ibody |-> "none"]], node[m].attr)

\* The dentries of a directory, cut into blocks.
dirBlocks(l, m, parent) ==
    LET kids == sortedChildren(m)
        dentries == <<[name |-> Dot, ino |-> l.inoOf[m]], [name |-> DotDot, ino |-> parent]>>
                      \o [i \in 1 .. Len(kids) |->
                             [name |-> kids[i].name, ino |-> l.inoOf[kids[i].node]]]
    IN  [b \in 1 .. ceilDiv(Len(dentries), EntriesPerBlock) |->
            [t |-> "dir", dentries |-> SubSeq(dentries, (b - 1) * EntriesPerBlock + 1,
                                              Smaller(b * EntriesPerBlock, Len(dentries)))]]

buildDir(l, m, parent) ==
    LET blocks == dirBlocks(l, m, parent)
        a == allocBlocks(l, Len(blocks))
    IN  mapBlocks(newInode(writeAll(a, a.got, blocks), m, Len(blocks)), a.got)

\* What reading a node's source yields: an opened image's files are read from
\* its device, through the block list that Open built.
readSource(m) ==
    IF node[m].lazy THEN [i \in DOMAIN node[m].src |-> dev[node[m].src[i]]] ELSE node[m].src

buildFile(l, m) ==
    LET a == allocBlocks(l, Len(node[m].src))
    IN  mapBlocks(newInode(writeAll(a, a.got, readSource(m)), m, Len(node[m].src)), a.got)

buildSymlink(l, m) ==
    LET in == newInode(l, m, Len(node[m].src))
        a == allocBlocks(in, Len(node[m].src))
    IN  IF in.ok /\ node[m].short
        THEN [in EXCEPT !.in.iblock = [t |-> "target", link |-> node[m].src]]
        ELSE mapBlocks(writeAll(a, a.got, node[m].src), a.got)

buildSpecial(l, m) == newInode(l, m, 0)

-----------------------------------------------------------------------------
(* The reader. *)

Super(d) == d[first]

descs(d) ==
    FlattenSeq([i \in 1 .. ceilDiv(Super(d).groups, DescsPerBlock) |-> d[first + i].descs])

readInode(d, ino) ==
    LET i == (ino - 1) % Super(d).inodesPerGroup
        desc == descs(d)[(ino - 1) \div Super(d).inodesPerGroup + 1]
    IN  d[desc.inodeTable + i \div InodesPerBlock].slots[i % InodesPerBlock]

\* A tree of blocks: the data blocks it leads to in order, and its own nodes.
Found(data, meta) == [data |-> data, meta |-> meta]
Joined(fs) == Found(FlattenSeq([i \in DOMAIN fs |-> fs[i].data]),
                    FlattenSeq([i \in DOMAIN fs |-> fs[i].meta]))

RECURSIVE parseExtents(_, _)
parseExtents(d, n) ==
    IF n.t # "extents" THEN Found(<<>>, <<>>)
    ELSE Joined([i \in DOMAIN n.entries |->
            LET e == n.entries[i]
            IN  IF n.depth = 0 THEN Found([k \in 1 .. e.length |-> e.start + k - 1], <<>>)
                ELSE LET sub == parseExtents(d, d[e.child])
                     IN  Found(sub.data, <<e.child>> \o sub.meta)])

RECURSIVE readIndirect(_, _, _)
readIndirect(d, blk, level) ==
    IF d[blk].t # "pointers" THEN Found(<<>>, <<blk>>)
    ELSE IF level = 1 THEN Found(d[blk].ptrs, <<blk>>)
    ELSE LET sub == Joined([i \in DOMAIN d[blk].ptrs |-> readIndirect(d, d[blk].ptrs[i], level - 1)])
         IN  Found(sub.data, <<blk>> \o sub.meta)

walk(d, in) ==
    IF in.extentsFL THEN parseExtents(d, in.iblock)
    ELSE IF in.iblock.t # "pointers" THEN Found(<<>>, <<>>)
    ELSE Joined(<<Found(SubSeq(in.iblock.direct, 1, Smaller(in.size, directBlocks)), <<>>)>>
                  \o [k \in DOMAIN in.iblock.ind |-> readIndirect(d, in.iblock.ind[k], k)])

blockList(d, in) ==
    LET data == walk(d, in).data
    IN  SubSeq(data, 1, Smaller(Len(data), in.size))

readXattrs(d, in) ==
    IF in.fileACL # 0 /\ d[in.fileACL].t = "xattrs" THEN d[in.fileACL].attr ELSE in.ibody

readDir(d, in) ==
    LET bs == blockList(d, in)
        ds == FlattenSeq([i \in DOMAIN bs |-> IF d[bs[i]].t = "dir" THEN d[bs[i]].dentries ELSE <<>>])
    IN  {ds[i] : i \in DOMAIN ds}

Listed(d, in) == {e \in readDir(d, in) : e.name \notin {Dot, DotDot}}

\* Mutant: an attribute block is taken for a data block.
isFastSymlink_noEA(in) == in.blocks = 0

\* Whether the target of a symbolic link sits in its inode.
isFastSymlink(in) == in.blocks <= (IF in.fileACL # 0 THEN 1 ELSE 0)

readNode(d, ino) ==
    LET in == readInode(d, ino)
        fast == in.kind = "symlink" /\ isFastSymlink(in)
        bs == blockList(d, in)
    IN  [kind |-> in.kind, attr |-> readXattrs(d, in), nlink |-> in.links,
         short |-> fast,
         lazy |-> in.kind = "file",
         src |-> CASE in.kind = "file" -> bs
                   [] fast -> IF in.iblock.t = "target" THEN in.iblock.link ELSE <<>>
                   [] in.kind = "symlink" /\ ~fast -> [i \in DOMAIN bs |-> d[bs[i]]]
                   [] OTHER -> <<>>]

RECURSIVE reach(_, _)
reach(d, S) ==
    LET T == S \cup UNION {{e.ino : e \in Listed(d, readInode(d, i))} :
                              i \in {j \in S : readInode(d, j).kind = "dir"}}
    IN  IF T = S THEN S ELSE reach(d, T)

\* What Open builds: the nodes by inode number, and the entries.
readTree(d) ==
    LET inos == reach(d, {rootIno})
    IN  [node |-> [i \in inos |-> readNode(d, i)],
         ents |-> UNION {{Entry(i, e.name, e.ino) : e \in Listed(d, readInode(d, i))} :
                            i \in {j \in inos : readInode(d, j).kind = "dir"}}]

-----------------------------------------------------------------------------
(* Finalize. *)

Init ==
    /\ pc = "new"
    /\ size \in DeviceSizes /\ first \in {0, 1}
    /\ geo = IF panics(size, first) THEN Zero ELSE computeGeometry(size, first)
    /\ dev = Blank(size)
    /\ \E tr \in Trees : node = tr.node /\ ents = tr.ents
    /\ want = [m \in DOMAIN node |-> node[m].src]
    /\ extents \in BOOLEAN
    /\ mutate = FALSE
    /\ lay = Idle /\ todo = <<>> /\ copied = 0 /\ edits = 0
    /\ err = "nil"
    /\ opened = <<>>

still == <<size, first, geo, extents>>

\* Finalize, or the Format before it, returns an error.  What a failing step
\* already wrote to a fresh device is not kept: no one reads it.
Fail(e) ==
    /\ pc' = "done" /\ err' = e
    /\ UNCHANGED <<still, dev, node, ents, mutate, lay, todo, copied, edits, want, opened>>

\* Mutant: an opened image is laid out over itself.
staged_never(m) == FALSE

\* Whether the layouter writes to a scratch device.
staged(m) == m

\* The layouter has made a step: its device is the image's unless staged.
Continue(l, stage) ==
    /\ pc' = stage
    /\ lay' = l
    /\ dev' = IF staged(mutate) THEN dev ELSE l.dev
    /\ UNCHANGED <<still, mutate, copied, edits, err, opened>>

\* The layouter writes to the image's device or to the scratch device; either may
\* fail to write some blocks, of which the layouter hears nothing.
newLayouter(lost) ==
    [dev |-> IF staged(mutate) THEN Blank(size) ELSE dev,
     lost |-> lost, missed |-> <<>>,
     bits |-> {}, used |-> {}, inoOf |-> <<>>, inodes |-> <<>>, built |-> {}, usedInos |-> {},
     usesXattrs |-> FALSE, curMeta |-> 0, ok |-> TRUE, got |-> <<>>, idx |-> <<>>, pos |-> 1,
     iblock |-> Zero, in |-> Zero]

LostFoundNode == 100
hasLostFound == \E e \in ents : e.dir = rootIno /\ e.name = LostFound

ensureLostFound ==
    IF hasLostFound THEN [node |-> node, ents |-> ents]
    ELSE [node |-> [node EXCEPT ![rootIno].nlink = @ + 1]
                     @@ (LostFoundNode :> [kind |-> "dir", attr |-> "none", nlink |-> 2, short |-> FALSE,
                                           lazy |-> FALSE, src |-> <<>>]),
          ents |-> ents \cup {Entry(rootIno, LostFound, LostFoundNode)}]

\* Finalize starts: lost+found is there from now on.
Finalize ==
    /\ pc \in {"new", "open"}
    /\ ~panics(size, first) /\ ~errTooSmall(geo)
    /\ pc' = "assign"
    /\ node' = ensureLostFound.node
    /\ ents' = ensureLostFound.ents
    /\ want' = [m \in DOMAIN node' |-> IF m \in DOMAIN want THEN want[m] ELSE <<>>]
    /\ \E lost \in LostWrites : lay' = newLayouter(lost)
    /\ UNCHANGED <<still, dev, mutate, todo, copied, edits, err, opened>>

FormatRefused ==
    /\ pc = "new"
    /\ ~panics(size, first) /\ errTooSmall(geo)
    /\ Fail("tooSmall")

FormatPanics ==
    /\ pc = "new"
    /\ panics(size, first)
    /\ Fail("panic")

RECURSIVE preorder(_)
preorder(m) ==
    LET kids == sortedChildren(m)
    IN  FlattenSeq([i \in 1 .. Len(kids) |->
            <<kids[i].node>> \o IF node[kids[i].node].kind = "dir" THEN preorder(kids[i].node) ELSE <<>>])

\* The inode numbers: the root and lost+found have theirs, the others get the
\* next one where the walk meets them first.
assignInodes ==
    LET lf == (CHOOSE e \in ents : e.dir = rootIno /\ e.name = LostFound).node
        met == SelectSeq(preorder(rootIno), LAMBDA m : m # lf)
        firsts == increasing({i \in DOMAIN met : \A j \in 1 .. i - 1 : met[j] # met[i]})
    IN  (rootIno :> rootIno) @@ (lf :> lostFoundIno)
          @@ [m \in Range(met) |-> firstIno + CHOOSE i \in DOMAIN firsts : met[firsts[i]] = m]

metadata(gr) == groupStart(geo, gr) .. groupLayout(geo, gr).firstData - 1
Groups == 0 .. geo.groups - 1

\* Pass A, and the reservation of the metadata.
Assign ==
    LET a == assignInodes
        l == [lay EXCEPT !.inoOf = a, !.usedInos = (1 .. reservedInos) \cup Range(a)]
    IN  /\ pc = "assign"
        /\ IF \E m \in DOMAIN a : a[m] > geo.inodesCount THEN Fail("tooManyInodes")
           ELSE /\ \E r \in {reserve(l, (0 .. first - 1) \cup UNION {metadata(gr) : gr \in Groups})} :
                      Continue(r, "build")
                /\ todo' = <<[node |-> rootIno, parent |-> rootIno]>>
                /\ UNCHANGED <<node, ents, want>>

\* A node laid out: its inode is recorded, the calls for its children come next.
Built(l, m) ==
    LET kids == IF node[m].kind = "dir" THEN sortedChildren(m) ELSE <<>>
        calls == [i \in 1 .. Len(kids) |-> [node |-> kids[i].node, parent |-> l.inoOf[m]]]
    IN  IF ~l.ok THEN Fail("build")
        ELSE /\ Continue([l EXCEPT !.built = @ \cup {m}, !.inodes = @ @@ (l.inoOf[m] :> l.in)], "build")
             /\ todo' = calls \o Tail(todo)
             /\ UNCHANGED <<node, ents, want>>

\* Mutant: a node with several names is laid out once for each.
pending_again(m) == todo # <<>> /\ m = Head(todo).node

\* The node whose buildNode is next and that no earlier name led to.
pending(m) == todo # <<>> /\ m = Head(todo).node /\ m \notin lay.built

SkipBuilt ==
    /\ pc = "build" /\ todo # <<>> /\ ~pending(Head(todo).node)
    /\ Continue(lay, "build")
    /\ todo' = Tail(todo)
    /\ UNCHANGED <<node, ents, want>>

BuildDir(m) ==
    /\ pc = "build" /\ pending(m) /\ node[m].kind = "dir"
    /\ \E l \in {buildDir(lay, m, Head(todo).parent)} : Built(l, m)

BuildFile(m) ==
    /\ pc = "build" /\ pending(m) /\ node[m].kind = "file"
    /\ \E l \in {buildFile(lay, m)} : Built(l, m)

\* The source of a file cannot be read.
ReadFails(m) ==
    /\ pc = "build" /\ pending(m) /\ node[m].kind = "file" /\ node[m].src # <<>>
    /\ allocBlocks(lay, Len(node[m].src)).ok
    /\ Fail("read")

BuildSymlink(m) ==
    /\ pc = "build" /\ pending(m) /\ node[m].kind = "symlink"
    /\ \E l \in {buildSymlink(lay, m)} : Built(l, m)

BuildSpecial(m) ==
    /\ pc = "build" /\ pending(m) /\ node[m].kind = "special"
    /\ \E l \in {buildSpecial(lay, m)} : Built(l, m)

tableOf(gr) ==
    LET start == groupLayout(geo, gr).inodeTable
        ino(b, i) == gr * geo.inodesPerGroup + (b - start) * InodesPerBlock + i + 1
    IN  [b \in start .. start + geo.inodeTableBlocks - 1 |->
            [t |-> "inodes",
             slots |-> [i \in 0 .. InodesPerBlock - 1 |->
                IF ino(b, i) \in DOMAIN lay.inodes THEN lay.inodes[ino(b, i)] ELSE Zero]]]

\* What f gives for each of the groups, in the order of the groups.
RECURSIVE writeGroups(_, _, _)
writeGroups(l, f, gr) ==
    IF gr = geo.groups THEN l ELSE writeGroups(writeBlocks(l, f[gr]), f, gr + 1)

WriteInodeTables ==
    /\ pc = "build" /\ todo = <<>>
    /\ \E l \in {writeGroups(lay, [gr \in Groups |-> tableOf(gr)], 0)} : Continue(l, "bitmaps")
    /\ UNCHANGED <<node, ents, want, todo>>

blockBits(l, gr) ==
    {n \in 0 .. BlocksPerGroup - 1 : n >= blocksInGroup(geo, gr) \/ groupStart(geo, gr) + n \in l.used}

inodeBits(l, gr) ==
    {n \in 0 .. BlocksPerGroup - 1 : n >= geo.inodesPerGroup \/ gr * geo.inodesPerGroup + n + 1 \in l.usedInos}

WriteBitmaps ==
    LET maps(gr) == (groupLayout(geo, gr).blockBitmap :> [t |-> "bits", set |-> blockBits(lay, gr)])
                 @@ (groupLayout(geo, gr).inodeBitmap :> [t |-> "bits", set |-> inodeBits(lay, gr)])
    IN  /\ pc = "bitmaps"
        /\ \E l \in {writeGroups(lay, [gr \in Groups |-> maps(gr)], 0)} : Continue(l, "descs")
        /\ UNCHANGED <<node, ents, want, todo>>

\* The free blocks of a group, from the usage the layouter recorded.
freeBlocks(l, gr) == blocksInGroup(geo, gr)
    - Cardinality({n \in 0 .. blocksInGroup(geo, gr) - 1 : groupStart(geo, gr) + n \in l.used})
freeInodes(l, gr) == geo.inodesPerGroup
    - Cardinality({n \in 1 .. geo.inodesPerGroup : gr * geo.inodesPerGroup + n \in l.usedInos})
dirsInGroup(l, gr) == Cardinality({i \in DOMAIN l.inodes :
    l.inodes[i].kind = "dir" /\ (i - 1) \div geo.inodesPerGroup = gr})

groupDesc(l, gr) ==
    [blockBitmap |-> groupLayout(geo, gr).blockBitmap, inodeBitmap |-> groupLayout(geo, gr).inodeBitmap,
     inodeTable |-> groupLayout(geo, gr).inodeTable, freeBlocks |-> freeBlocks(l, gr),
     freeInodes |-> freeInodes(l, gr), usedDirs |-> dirsInGroup(l, gr)]

RECURSIVE totalFree(_, _)
totalFree(f, gr) == IF gr = geo.groups THEN 0 ELSE f[gr] + totalFree(f, gr + 1)

superblock(l) ==
    [t |-> "super", total |-> geo.total, groups |-> geo.groups, inodesPerGroup |-> geo.inodesPerGroup,
     freeBlocks |-> totalFree([gr \in Groups |-> freeBlocks(l, gr)], 0),
     freeInodes |-> totalFree([gr \in Groups |-> freeInodes(l, gr)], 0),
     extents |-> extents, xattrs |-> l.usesXattrs]

WriteDescriptors ==
    LET n(i) == Smaller(DescsPerBlock, geo.groups - i * DescsPerBlock)
        gdt(i) == [t |-> "gdt",
                   descs |-> [k \in 1 .. n(i) |-> groupDesc(lay, i * DescsPerBlock + k - 1)]]
        start(gr) == groupStart(geo, gr)
        copy(gr) == (start(gr) :> superblock(lay))
                      @@ [b \in start(gr) + 1 .. start(gr) + geo.gdtBlocks |-> gdt(b - start(gr) - 1)]
    IN  /\ pc = "descs"
        /\ \E l \in {writeGroups(lay, [gr \in Groups |-> IF hasSuperblock(gr) THEN copy(gr) ELSE <<>>], 0)} :
              Continue(l, IF staged(mutate) THEN "copy" ELSE "done")
        /\ UNCHANGED <<node, ents, want, todo>>

\* copyDevice: a chunk of the scratch device goes over the image's.
CopyChunk ==
    LET to == Smaller(copied + ChunkBlocks, size)
    IN  /\ pc = "copy"
        /\ dev' = [b \in DOMAIN dev |-> IF b \in copied .. to - 1 THEN lay.dev[b] ELSE dev[b]]
        /\ copied' = to
        /\ pc' = IF to = size THEN "done" ELSE "copy"
        /\ UNCHANGED <<still, node, ents, mutate, lay, todo, edits, err, want, opened>>

CopyFails ==
    /\ pc = "copy"
    /\ Fail("write")

\* Creating the scratch file fails.
ScratchFails ==
    /\ pc = "open"
    /\ staged(mutate)
    /\ Fail("scratch")

-----------------------------------------------------------------------------
(* Open, and the edits of an opened image that module ImageTree models. *)

\* An image that misses a block is not opened: what the reader makes of it is left out.
Open ==
    /\ pc = "done" /\ err = "nil" /\ ~mutate
    /\ DOMAIN lay.missed = {}
    /\ IF Super(dev).t # "super" THEN Fail("badMagic")
       ELSE \E tr \in {readTree(dev)} :
              LET was(i) == CHOOSE m \in DOMAIN lay.inoOf : lay.inoOf[m] = i
              IN  /\ pc' = "open"
                  /\ mutate' = TRUE
                  /\ node' = tr.node /\ ents' = tr.ents
                  /\ want' = [i \in DOMAIN tr.node |-> want[was(i)]]
                  /\ opened' = dev
                  /\ extents' = Super(dev).extents
                  /\ lay' = Idle
                  /\ geo' = computeGeometry(size, first)
                  /\ UNCHANGED <<size, first, dev, todo, copied, edits, err>>

Edited == pc = "open" /\ edits < MaxEdits /\ edits' = edits + 1
          /\ UNCHANGED <<still, pc, dev, mutate, lay, todo, copied, err, opened>>

RemoveEntry(e) ==
    LET m == e.node
        gone == {x \in DOMAIN node : x = m /\ node[m].nlink = 1}
    IN  /\ Edited
        /\ node[m].kind # "dir"
        /\ ents' = ents \ {e}
        /\ node' = [x \in DOMAIN node \ gone |->
                      IF x = m THEN [node[x] EXCEPT !.nlink = @ - 1] ELSE node[x]]
        /\ want' = [x \in DOMAIN node \ gone |-> want[x]]

NewNode == 101 + edits
NewName == 5 + edits

CreateFile(d, sz) ==
    LET data == [i \in 1 .. sz |-> [t |-> "data", of |-> NewNode, i |-> i]]
    IN  /\ Edited
        /\ node[d].kind = "dir"
        /\ ents' = ents \cup {Entry(d, NewName, NewNode)}
        /\ node' = node @@ (NewNode :> [kind |-> "file", attr |-> "none", nlink |-> 1, short |-> FALSE,
                                        lazy |-> FALSE, src |-> data])
        /\ want' = want @@ (NewNode :> data)

-----------------------------------------------------------------------------
Step ==
    \/ Assign \/ SkipBuilt
    \/ \E m \in DOMAIN node :
         BuildDir(m) \/ BuildFile(m) \/ BuildSymlink(m) \/ BuildSpecial(m) \/ ReadFails(m)
    \/ WriteInodeTables \/ WriteBitmaps \/ WriteDescriptors
    \/ CopyChunk \/ CopyFails

Done == pc = "done" /\ UNCHANGED vars

Next ==
    \/ Step
    \/ Finalize \/ FormatRefused \/ FormatPanics \/ ScratchFails \/ Open
    \/ \E e \in ents : RemoveEntry(e)
    \/ \E d \in DOMAIN node, sz \in NewSizes : CreateFile(d, sz)
    \/ Done

Spec == Init /\ [][Next]_vars

-----------------------------------------------------------------------------
(* Properties. *)

Finalized == pc = "done" /\ err = "nil"

\* The device as it would be if no write had been lost.
whole == lay.missed @@ dev

\* Finalize that returns nil has stored the tree: Open finds every node once,
\* under every name it has, with its kind, attributes, link count and contents,
\* whether they came from memory or from the image being rewritten.  What is wrong
\* when writes failed unnoticed is the blocks they were for, and nothing else.
ReadBack ==
    Finalized =>
        /\ Super(whole).t = "super"
        /\ \E tr \in {readTree(whole)} :
             LET ino(m) == lay.inoOf[m]
             IN  /\ DOMAIN tr.node = {ino(m) : m \in DOMAIN node}
                 /\ tr.ents = {Entry(ino(e.dir), e.name, ino(e.node)) : e \in ents}
                 /\ \A m \in DOMAIN node :
                      LET r == tr.node[ino(m)]
                      IN  /\ r.kind = node[m].kind /\ r.attr = node[m].attr
                          /\ r.nlink = node[m].nlink /\ r.short = node[m].short
                          /\ want[m] = IF r.lazy THEN [i \in DOMAIN r.src |-> whole[r.src[i]]] ELSE r.src

\* The blocks an inode leads to: data, tree nodes, attributes.
Owned(in) ==
    LET w == walk(whole, in)
    IN  (IF in.kind = "symlink" /\ isFastSymlink(in) THEN <<>> ELSE w.data \o w.meta)
          \o (IF in.fileACL # 0 THEN <<in.fileACL>> ELSE <<>>)

Inos == reach(whole, {rootIno})
Directories == {i \in Inos : readInode(whole, i).kind = "dir"}
OwnedBy(i) == Range(Owned(readInode(whole, i)))
OwnedBlocks == UNION {OwnedBy(i) : i \in Inos}
FixedBlocks == (0 .. first - 1) \cup UNION {metadata(gr) : gr \in Groups}

\* No block of a finalized image has two owners, not even within one inode, and
\* the bitmaps on the device say exactly what is in use: the metadata and the
\* blocks that some inode leads to, the reserved inodes and those with a name.
\* The bitmaps come from the layouter's own record, not from the allocator.
BitmapsExact ==
    Finalized =>
        /\ \A i \in Inos : IsInjective(Owned(readInode(whole, i)))
        /\ \A i, j \in Inos : i # j => OwnedBy(i) \cap OwnedBy(j) = {}
        /\ OwnedBlocks \cap FixedBlocks = {}
        /\ \A gr \in Groups :
             LET at(n) == groupStart(geo, gr) + n
                 ino(n) == gr * geo.inodesPerGroup + n + 1
             IN  /\ whole[descs(whole)[gr + 1].blockBitmap].set =
                      {n \in 0 .. BlocksPerGroup - 1 :
                         at(n) \in OwnedBlocks \cup FixedBlocks \/ at(n) >= geo.total}
                 /\ whole[descs(whole)[gr + 1].inodeBitmap].set =
                      {n \in 0 .. BlocksPerGroup - 1 :
                         ino(n) \in (1 .. reservedInos) \cup Inos \/ n >= geo.inodesPerGroup}

\* The counts agree with what they count: i_blocks with the blocks the inode
\* owns, the attribute block included; the link count with the directory
\* entries on the device, "." and ".." included; the free counts and the
\* directory counts of the descriptors and the superblock with the bitmaps.
CountsExact ==
    Finalized =>
        LET naming(i) == {<<d, x>> \in Directories \X (-2 .. 9) :
                            [name |-> x, ino |-> i] \in readDir(whole, readInode(whole, d))}
            desc(gr) == descs(whole)[gr + 1]
            clear(b) == BlocksPerGroup - Cardinality(whole[b].set)
        IN  /\ \A i \in Inos :
                 /\ readInode(whole, i).blocks = Cardinality(OwnedBy(i))
                 /\ readInode(whole, i).links = Cardinality(naming(i))
            /\ \A gr \in Groups :
                 /\ desc(gr).freeBlocks = clear(desc(gr).blockBitmap)
                 /\ desc(gr).freeInodes = clear(desc(gr).inodeBitmap)
                 /\ desc(gr).usedDirs = Cardinality({i \in Directories : (i - 1) \div geo.inodesPerGroup = gr})
            /\ Super(whole).freeBlocks = geo.total - Cardinality(OwnedBlocks \cup FixedBlocks)
            /\ Super(whole).freeInodes = geo.inodesCount - Cardinality((1 .. reservedInos) \cup Inos)

\* Bitmaps, descriptors, inodes and the superblock tell one story, the one fsck
\* works out from the directories and the blocks the inodes lead to.
AccountsExact == BitmapsExact /\ CountsExact

\* Whatever the device's size, every group's metadata lies within the group and
\* the device, and each group that sparse_super gives a copy of the superblock
\* has one (what the comment in computeGeometry says of ext4_check_descriptors).
MetadataInRange ==
    Finalized =>
        /\ geo.total <= size
        /\ \A gr \in Groups :
             /\ metadata(gr) \subseteq groupStart(geo, gr) ..
                   Smaller(groupStart(geo, gr) + BlocksPerGroup, geo.total) - 1
             /\ hasSuperblock(gr) => whole[groupStart(geo, gr)] = Super(whole)

\* An opened image whose Finalize fails before the new image is complete has not
\* been touched: the layout goes to a scratch device first.
OriginalKept == (mutate /\ pc # "copy" /\ err # "nil" /\ copied = 0) => dev = opened
=============================================================================
