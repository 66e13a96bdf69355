------------------------------ MODULE Squashfs ------------------------------
(***************************************************************************)
(* pkg/squashfs: the sets of attributes and the inodes are numbered first. *)
(* Contents go to the archive as the tree is walked, children before their *)
(* directory; inodes and listings gather in two metadata streams, which    *)
(* are cut into blocks of 8 KiB, compressed, and referred to by the place  *)
(* of the compressed block and the offset in the block once decompressed.  *)
(***************************************************************************)
EXTENDS Target

superblockSize == 96
metaBlockSize == 8192
blockSize == 4096                 \* WithBlockSize
maxListing == 65535
None == -1                        \* xattrIDNone
noTable == -1

\* What a codec makes of so many bytes: short blocks grow.
Compress(n) == IF n < 40 THEN n + 11 ELSE n \div 2 + 11
stored(n) == Min({n, Compress(n)})
-----------------------------------------------------------------------------
(* metaWriter: buf is the number of bytes pending, emitted the length of   *)
(* the compressed stream; blocks are the blocks emitted, items what has    *)
(* been written, by its offset in the decompressed stream.                 *)

NewMeta == [buf |-> 0, emitted |-> 0, blocks |-> <<>>, items |-> NoFn]

total(m) == metaBlockSize * Len(m.blocks) + m.buf

\* ref
ref(m) == [block |-> m.emitted, offset |-> m.buf]

flush(m, n) == [m EXCEPT !.buf = @ - n, !.emitted = @ + 2 + stored(n),
                         !.blocks = Append(@, [start |-> m.emitted, len |-> n])]

write(m, len, what) ==
    LET x == [m EXCEPT !.buf = @ + len, !.items = (total(m) :> [len |-> len, what |-> what]) @@ @]
    IN  FoldLeft(LAMBDA y, i : flush(y, metaBlockSize), x, [i \in 1 .. x.buf \div metaBlockSize |-> i])

finish(m) == IF m.buf > 0 THEN flush(m, m.buf) ELSE m
table(m) == [t |-> "meta", blocks |-> m.blocks, items |-> m.items]
-----------------------------------------------------------------------------
(* Attributes. *)

xattrPrefixes == [user |-> 0, trusted |-> 1, security |-> 2]

\* splitXattrName has no code for the other namespaces.
encodable(n) == \A i \in DOMAIN tree[n].xattrs : tree[n].xattrs[i].space \in DOMAIN xattrPrefixes

\* A namespace in a key: its number as a digit, which is no NUL.
digit(space) == 48 + xattrPrefixes[space]

\* Mutant: the values are left out of the key.
setKey_names(xs) == FlattenSeq([i \in DOMAIN xs |-> <<digit(xs[i].space), 0, xs[i].name, 0>>])

\* newXattrSet: the pairs written one after the other, each field ended by a NUL,
\* which a value may hold as well.
setKey(xs) ==
    FlattenSeq([i \in DOMAIN xs |-> <<digit(xs[i].space), 0, xs[i].name, 0>> \o xs[i].value \o <<0>>])

\* encode
encodedLen(xs) == FoldLeft(LAMBDA a, x : a + 8 + x.bytes, 0, xs)

\* collectXattrs, for one node: a set that has been met is not numbered again.
collected(sets, n) ==
    IF tree[n].xattrs = <<>> \/ \E i \in DOMAIN sets : setKey(sets[i]) = setKey(tree[n].xattrs)
    THEN sets ELSE Append(sets, tree[n].xattrs)

\* xattrIndexOf
xattrIndexOf(n) ==
    IF tree[n].xattrs = <<>> THEN None
    ELSE (CHOOSE i \in DOMAIN w.sets : setKey(w.sets[i]) = setKey(tree[n].xattrs)) - 1

Extended(n) == tree[n].xattrs # <<>>
-----------------------------------------------------------------------------
(* The tree is numbered in pre-order and written in post-order. *)

preorder == <<Root>> \o [i \in DOMAIN walk(Root, <<>>) |-> walk(Root, <<>>)[i].node]

\* assignInos: a node that has a number keeps it.
numbered(a, n) == IF n \in DOMAIN a THEN a ELSE (n :> Cardinality(DOMAIN a) + 1) @@ a

RECURSIVE postorder(_, _)
postorder(n, parent) ==
    FlattenSeq([i \in DOMAIN Names(n) |-> postorder(tree[n].kids[Names(n)[i]], n)])
      \o <<[node |-> n, parent |-> parent]>>

Start ==
    /\ fs = "squashfs" /\ stage = "layout"
    /\ \E pre \in {preorder} :
        /\ \A i \in DOMAIN pre : encodable(pre[i])
        /\ w' = [pos |-> superblockSize, inodes |-> NewMeta, dirs |-> NewMeta, ids |-> <<>>,
                 written |-> NoFn, sets |-> FoldLeft(collected, <<>>, pre),
                 ino |-> FoldLeft(numbered, NoFn, pre)]
    /\ stage' = "write"
    /\ todo' = postorder(Root, 0)
    /\ UNCHANGED <<fs, tree, label, size, dev, err>>

\* collectXattrs meets an attribute that has no code.
Unencodable ==
    /\ fs = "squashfs" /\ stage = "layout"
    /\ \E i \in DOMAIN preorder : ~encodable(preorder[i])
    /\ err' = "attribute namespace"
    /\ stage' = "done"
    /\ UNCHANGED <<fs, tree, label, size, dev, todo, w>>

\* idOf: the owner's place in the table of ids.
withId(ids, v) == IF \E i \in DOMAIN ids : ids[i] = v THEN ids ELSE Append(ids, v)
idOf(ids, v) == CHOOSE i \in DOMAIN ids : ids[i] = v

blockCount(n) == (tree[n].len + blockSize - 1) \div blockSize
blockLen(n, i) == stored(Min({blockSize, tree[n].len - (i - 1) * blockSize}))
sizes(n) == IF tree[n].kind = "reg" THEN [i \in 1 .. blockCount(n) |-> blockLen(n, i)] ELSE <<>>
sumTo(lens, k) == FoldLeft(+, 0, SubSeq(lens, 1, k))

\* writeFile: its blocks, from the current position on.
fileBlocks(n) ==
    [i \in DOMAIN sizes(n) |-> Request(w.pos + sumTo(sizes(n), i - 1), sizes(n)[i], Data(n, i))]

header(n) ==
    [t |-> "inode", kind |-> tree[n].kind, ext |-> Extended(n), exec |-> tree[n].exec,
     owner |-> idOf(withId(w.ids, tree[n].owner), tree[n].owner), ino |-> w.ino[n],
     xattr |-> xattrIndexOf(n)]

\* The basic inode of a file has no link count.
fileInode(n) ==
    [nlink |-> IF Extended(n) THEN tree[n].nlink ELSE 1, start |-> w.pos, size |-> tree[n].len,
     sizes |-> sizes(n)]

symlinkInode(n) == [nlink |-> tree[n].nlink, target |-> Contents(n, 1), size |-> tree[n].len]
deviceInode(n) == [nlink |-> tree[n].nlink, rdev |-> tree[n].rdev]
ipcInode(n) == [nlink |-> tree[n].nlink]

inodeLen(n) ==
    LET x == IF Extended(n) THEN 4 ELSE 0
    IN  16 + CASE tree[n].kind = "reg" -> (IF Extended(n) THEN 40 ELSE 16) + 4 * blockCount(n)
               [] tree[n].kind = "symlink" -> 8 + tree[n].len + x
               [] tree[n].kind = "device" -> 8 + x
               [] tree[n].kind = "fifo" -> 4 + x
               [] OTHER -> IF Extended(n) THEN 24 ELSE 16

\* Mutant: entries are grouped whatever block their inode is in.
sameGroup_anyBlock(a, b) == TRUE

sameGroup(a, b) == w.written[a].block = w.written[b].block

\* buildListing: a header for every run of entries whose inodes share a block,
\* the limits of 256 entries and of the inode delta being out of reach here.
groupHead(es, i) == CHOOSE j \in 1 .. i : /\ \A k \in j .. i : sameGroup(es[j].node, es[k].node)
                                          /\ j = 1 \/ ~sameGroup(es[j - 1].node, es[j].node)

buildListing(n) ==
    LET es == sortedChildren(n)
    IN  [i \in DOMAIN es |-> [name |-> es[i].name, block |-> w.written[es[groupHead(es, i)].node].block,
                              offset |-> w.written[es[i].node].offset]]

listingLen(n) ==
    LET es == sortedChildren(n)
    IN  FoldLeft(LAMBDA a, i : a + 8 + NameLen[es[i].name] + IF groupHead(es, i) = i THEN 12 ELSE 0,
                 0, [i \in DOMAIN es |-> i])

dirInode(n, parent) ==
    [nlink |-> 2 + Len(SubDirs(n)), listing |-> ref(w.dirs), size |-> listingLen(n) + 3,
     parent |-> IF parent = 0 THEN w.ino[n] + 1 ELSE w.ino[parent]]

inode(n, parent) ==
    header(n) @@ CASE tree[n].kind = "reg" -> fileInode(n)
                   [] tree[n].kind = "symlink" -> symlinkInode(n)
                   [] tree[n].kind = "device" -> deviceInode(n)
                   [] tree[n].kind = "fifo" -> ipcInode(n)
                   [] OTHER -> dirInode(n, parent)

\* emitInode
emitInode(x, n, parent) ==
    [x EXCEPT !.ids = withId(@, tree[n].owner),
              !.written = (n :> ref(x.inodes)) @@ @,
              !.inodes = write(@, inodeLen(n), inode(n, parent))]

\* writeNode of a node that was written under another name.
Written ==
    /\ fs = "squashfs" /\ stage = "write" /\ todo # <<>>
    /\ Head(todo).node \in DOMAIN w.written
    /\ todo' = Tail(todo)
    /\ UNCHANGED <<fs, tree, label, size, dev, stage, w, err>>

WriteNode ==
    /\ fs = "squashfs" /\ stage = "write" /\ todo # <<>>
    /\ LET n == Head(todo).node
       IN  /\ n \notin DOMAIN w.written
           /\ ~IsDir(n)
           /\ Commit(fileBlocks(n))
           /\ w' = [emitInode(w, n, 0) EXCEPT !.pos = @ + sumTo(sizes(n), Len(sizes(n)))]
    /\ todo' = Tail(todo)
    /\ UNCHANGED <<fs, tree, label, size, stage>>

\* writeDir, once the children have been written.
WriteDir ==
    /\ fs = "squashfs" /\ stage = "write" /\ todo # <<>>
    /\ LET n == Head(todo).node
           tooLarge == listingLen(n) + 3 > maxListing
       IN  /\ IsDir(n)
           /\ w' = IF tooLarge THEN w
                   ELSE [emitInode(w, n, Head(todo).parent) EXCEPT
                            !.dirs = IF listingLen(n) = 0 THEN @ ELSE write(@, listingLen(n), [t |-> "listing", es |-> buildListing(n)])]
           /\ err' = IF tooLarge /\ err = "nil" THEN "directory too large" ELSE err
           /\ stage' = IF tooLarge THEN "done" ELSE stage
    /\ todo' = Tail(todo)
    /\ UNCHANGED <<fs, tree, label, size, dev>>
-----------------------------------------------------------------------------
(* The tables behind the data, and the superblock. *)

\* writeXattrTables: the stream of pairs, with the place of every set in it.
pairs == FoldLeft(LAMBDA a, xs : [m |-> write(a.m, encodedLen(xs), [t |-> "pairs", of |-> xs]), refs |-> Append(a.refs, ref(a.m))],
                  [m |-> NewMeta, refs |-> <<>>], w.sets)

\* The layout of the end of the archive.
ends ==
    LET inodeTable == w.pos
        dirTable == inodeTable + finish(w.inodes).emitted
        idBlock == dirTable + finish(w.dirs).emitted
        idTable == idBlock + 2 + stored(4 * Len(w.ids))
        kv == idTable + 8
        xattrIds == kv + finish(pairs.m).emitted
        xattrTable == xattrIds + 2 + stored(16 * Len(w.sets))
    IN  [inodeTable |-> inodeTable, dirTable |-> dirTable, idBlock |-> idBlock, idTable |-> idTable,
         kv |-> kv, xattrIds |-> xattrIds, xattrTable |-> IF w.sets = <<>> THEN noTable ELSE xattrTable,
         bytesUsed |-> IF w.sets = <<>> THEN kv ELSE xattrTable + 16 + 8]

\* writeIDTable and writeXattrTables.
tables(e) ==
    <<Request(e.inodeTable, e.dirTable - e.inodeTable, table(finish(w.inodes))),
      Request(e.dirTable, e.idBlock - e.dirTable, table(finish(w.dirs))),
      Request(e.idBlock, e.idTable - e.idBlock, [t |-> "ids", ids |-> w.ids]),
      Request(e.idTable, 8, [t |-> "index", block |-> e.idBlock])>>
    \o IF w.sets = <<>> THEN <<>>
       ELSE <<Request(e.kv, e.xattrIds - e.kv, table(finish(pairs.m))),
              Request(e.xattrIds, e.xattrTable - e.xattrIds, [t |-> "xattr ids", refs |-> pairs.refs]),
              Request(e.xattrTable, e.bytesUsed - e.xattrTable,
                      [t |-> "xattr index", kv |-> e.kv, count |-> Len(w.sets), ids |-> e.xattrIds])>>

WriteTables ==
    /\ fs = "squashfs" /\ stage = "write" /\ todo = <<>>
    /\ \E e \in {ends} :
        /\ Commit(tables(e))
        /\ w' = e @@ w
    /\ stage' = IF err' = "nil" THEN "super" ELSE "done"
    /\ UNCHANGED <<fs, tree, label, size, todo>>

superblock ==
    [t |-> "super", rootInode |-> w.written[Root], inodeTable |-> w.inodeTable, dirTable |-> w.dirTable,
     idTable |-> w.idTable, xattrTable |-> w.xattrTable, inodes |-> Cardinality(DOMAIN w.ino),
     bytesUsed |-> w.bytesUsed, noXattrs |-> w.sets = <<>>]

WriteSuper ==
    /\ fs = "squashfs" /\ stage = "super"
    /\ Commit(<<Request(0, superblockSize, superblock)>>)
    /\ stage' = IF err' = "nil" /\ size = Grows THEN "trim" ELSE "done"
    /\ UNCHANGED <<fs, tree, label, size, todo, w>>

\* trimSquashfs in engine.go.
trimSquashfs ==
    /\ fs = "squashfs" /\ stage = "trim"
    /\ dev' = truncated(At(0).bytesUsed)
    /\ stage' = "done"
    /\ UNCHANGED <<fs, tree, label, size, todo, w, err>>

Next == Start \/ Unencodable \/ Written \/ WriteNode \/ WriteDir \/ WriteTables \/ WriteSuper \/ trimSquashfs
-----------------------------------------------------------------------------
(* The reader. *)

badRef == [block |-> -1, offset |-> -1]

\* readMetaTable and inodeAt: the item at a place of a decompressed stream.
itemAt(meta, r) ==
    LET at == {i \in DOMAIN meta.blocks : meta.blocks[i].start = r.block}
        base(i) == FoldLeft(LAMBDA a, b : a + b.len, 0, SubSeq(meta.blocks, 1, i - 1))
        pos == base(CHOOSE i \in at : TRUE) + r.offset
    IN  IF at = {} \/ pos \notin DOMAIN meta.items THEN Garbage ELSE meta.items[pos].what

\* A record that fills the range of a table.
tableAt(from, to) ==
    LET m == Exactly(from, to - from) IN IF m.t = "meta" THEN m ELSE [t |-> "meta", blocks |-> <<>>, items |-> NoFn]

readIDTable(s) == LET x == At(s.idTable) IN IF x.t = "index" /\ At(x.block).t = "ids" THEN At(x.block).ids ELSE <<>>

\* xattrsAt, over what readXattrTables has decoded.
xattrsAt(s, i) ==
    LET x == At(s.xattrTable)
        set == itemAt(tableAt(x.kv, x.ids), At(x.ids).refs[i + 1])
    IN  IF i = None \/ s.xattrTable = noTable THEN <<>>
        ELSE IF x.t # "xattr index" \/ i >= x.count \/ set.t # "pairs" THEN <<Garbage>>
        ELSE set.of

\* readDir, and readInode of what it lists: an entry for every name.  The table of
\* the listings is read up to the index of the ids, the block of ids included.
RECURSIVE readDir(_, _, _, _)
readDir(path, r, inodes, dirs) ==
    LET in == itemAt(inodes, r)
        list == itemAt(dirs, in.listing)
    IN  IF in.t # "inode" THEN {[path |-> path, ref |-> badRef]}
        ELSE IF in.kind # "dir" \/ in.size <= 3 THEN {}
        ELSE IF list.t # "listing" THEN {[path |-> path, ref |-> badRef]}
        ELSE UNION {LET p == Append(path, x.name)
                        c == [block |-> x.block, offset |-> x.offset]
                    IN  {[path |-> p, ref |-> c]} \cup readDir(p, c, inodes, dirs) : x \in Range(list.es)}

\* sqFile.ReadAt, by blocks.
readFile(in) ==
    [i \in DOMAIN in.sizes |-> Exactly(in.start + sumTo(in.sizes, i - 1), in.sizes[i])]

readInode(s, e, es, inodes) ==
    LET in == itemAt(inodes, e.ref)
    IN  Inode(Item(e.path, in.kind, IF in.kind \in {"reg", "symlink"} THEN in.size ELSE 0,
                   IF in.kind = "reg" THEN readFile(in) ELSE IF in.kind = "symlink" THEN in.target ELSE <<>>,
                   IF in.kind = "device" THEN in.rdev ELSE 0, in.exec),
              readIDTable(s)[in.owner], IF in.ext THEN xattrsAt(s, in.xattr) ELSE <<>>, in.nlink,
              {f.path : f \in {g \in es : g.ref = e.ref}})

Open ==
    LET s == At(0)
        inodes == tableAt(s.inodeTable, s.dirTable)
        es == readDir(<<>>, s.rootInode, inodes, tableAt(s.dirTable, At(s.idTable).block))
    IN  IF \E e \in es : e.ref = badRef THEN {Corrupt} ELSE {readInode(s, e, es, inodes) : e \in es}

parts(n) == IF tree[n].kind = "symlink" THEN 1 ELSE blockCount(n)
nlinkRead(n) == IF IsDir(n) THEN 2 + Len(SubDirs(n))
                ELSE IF tree[n].kind = "reg" /\ ~Extended(n) THEN 1 ELSE tree[n].nlink

\* What Finalize accepts reads back as the tree it was given, through streams whose
\* blocks moved when they were compressed; only a file without attributes has no
\* link count to read, and only a NUL in a value can give a file the attributes of
\* another.
SquashReadBack ==
    fs = "squashfs" /\ stage = "done" /\ err = "nil" =>
        LET nul == \E n \in DOMAIN tree : \E i \in DOMAIN tree[n].xattrs : 0 \in Range(tree[n].xattrs[i].value)
            kept(I) == IF nul THEN {[i EXCEPT !.xattrs = <<>>] : i \in I} ELSE I
        IN  /\ At(0).t = "super"
            /\ Corrupt \notin Open
            /\ kept(Open) = kept(WantedInodes(parts, nlinkRead))
=============================================================================
