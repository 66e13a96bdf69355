------------------------------- MODULE Cramfs -------------------------------
(***************************************************************************)
(* pkg/cramfs: contents are compressed first, then every node is given a   *)
(* place, then directories and contents are written, the superblock with   *)
(* the root's inode, and a CRC over the whole image.  An inode lies in its *)
(* parent's entries; a file is an array of pointers to the ends of its     *)
(* compressed blocks, followed by the blocks.                              *)
(***************************************************************************)
EXTENDS Target

superblockSize == 76
rootInodeOffset == 64
crcOffset == 32
inodeSize == 12
blockSize == 4096
maxNameUnits == 63
align4(n) == ceilTo(n, 4)
NoName == 0

blockCount(len) == (len + blockSize - 1) \div blockSize

\* The zlib stream of a block of so many bytes: neither its length nor aligned.
zlibLen(n) == n \div 2 + 11

\* prepare, for the nodes in the order of the walk: blocks are appended to the
\* list of their node, once for each of its names.
compressed(l, n) ==
    IF ~HasData(n) THEN [l EXCEPT !.files = @ + 1]
    ELSE LET k == blockCount(tree[n].len)
             lens == [i \in 1 .. k |-> zlibLen(Min({blockSize, tree[n].len - (i - 1) * blockSize}))]
         IN  [l EXCEPT !.files = @ + 1,
                       !.blocks[n] = @ \o [i \in 1 .. k |-> [part |-> i, len |-> lens[i]]],
                       !.err = IF tree[n].src = "fails" THEN "read" ELSE @]

prepare == FoldLeft(LAMBDA l, e : compressed(l, e.node),
                    [blocks |-> [n \in DOMAIN tree |-> <<>>], files |-> 1, err |-> "nil"],
                    walk(Root, <<>>))

lens(blocks) == [i \in DOMAIN blocks |-> blocks[i].len]
total(s) == FoldLeft(+, 0, s)
dataSize(blocks) == 4 * Len(blocks) + total(lens(blocks))

paddedName(x) == align4(NameLen[x])

entriesSize(d) == total([i \in DOMAIN Names(d) |-> inodeSize + paddedName(Names(d)[i])])

regionSize(blocks, n) == IF IsDir(n) THEN entriesSize(n) ELSE dataSize(blocks[n])

\* assign: a region for every node that has something to store, in the order of
\* the walk; a node met again is given another.
assign(blocks) ==
    FoldLeft(LAMBDA a, n : LET c == align4(a.cursor)
                               k == regionSize(blocks, n)
                           IN  IF k = 0 THEN [a EXCEPT !.cursor = c]
                               ELSE [off |-> (n :> c) @@ a.off, cursor |-> c + k],
             [off |-> [n \in DOMAIN tree |-> 0], cursor |-> superblockSize],
             <<Root>> \o [i \in DOMAIN walk(Root, <<>>) |-> walk(Root, <<>>)[i].node])

sizeField(n) ==
    CASE IsDir(n) -> entriesSize(n)
      [] tree[n].kind = "device" -> tree[n].rdev % 2^24
      [] OTHER -> tree[n].len % 2^24

childInode(units, n) ==
    [t |-> "inode", kind |-> tree[n].kind, exec |-> tree[n].exec, size |-> sizeField(n),
     namelen |-> units, offset |-> w.off[n] \div 4]

\* Mutant: a name one unit longer than the field is let through.
tooLong_wraps(x) == FALSE

tooLong(x) == paddedName(x) \div 4 > maxNameUnits

dirEntries(d) ==
    LET kids == sortedChildren(d)
        at[i \in 0 .. Len(kids)] ==
            IF i = 0 THEN w.off[d] ELSE at[i - 1] + inodeSize + paddedName(kids[i].name)
    IN  FlattenSeq([i \in DOMAIN kids |->
            <<IF tooLong(kids[i].name) THEN Refuse("name too long")
              ELSE Request(at[i - 1], inodeSize,
                           childInode((paddedName(kids[i].name) \div 4) % 64, kids[i].node)),
              Request(at[i - 1] + inodeSize, paddedName(kids[i].name), [t |-> "name", name |-> kids[i].name])>>])

\* dataRegion: the pointer array, each entry the end of its block, and the blocks.
dataRegion(n) ==
    LET b == w.blocks[n]
        start == w.off[n] + 4 * Len(b)
        end(i) == start + total(SubSeq(lens(b), 1, i))
    IN  FlattenSeq([i \in DOMAIN b |->
            <<Request(w.off[n] + 4 * (i - 1), 4, [t |-> "ptr", end |-> end(i)]),
              Request(end(i) - b[i].len, b[i].len, Data(n, b[i].part))>>])
-----------------------------------------------------------------------------
Prepare ==
    /\ fs = "cramfs" /\ stage = "layout"
    /\ \E l \in {prepare} : \E a \in {assign(l.blocks)} :
        /\ w' = [blocks |-> l.blocks, files |-> l.files, off |-> a.off, total |-> align4(a.cursor)]
        /\ err' = l.err
    /\ stage' = "write"
    /\ todo' = <<Root>>
    /\ UNCHANGED <<fs, tree, label, size, dev>>

\* writeNode.  A name that does not fit its field makes the whole image fail.
WriteDirectory ==
    /\ fs = "cramfs" /\ stage = "write" /\ todo # <<>>
    /\ IsDir(Head(todo))
    /\ Commit(dirEntries(Head(todo)))
    /\ todo' = [i \in DOMAIN Names(Head(todo)) |-> sortedChildren(Head(todo))[i].node] \o Tail(todo)
    /\ UNCHANGED <<fs, tree, label, size, stage, w>>

WriteContents ==
    /\ fs = "cramfs" /\ stage = "write" /\ todo # <<>>
    /\ ~IsDir(Head(todo))
    /\ Commit(dataRegion(Head(todo)))
    /\ todo' = Tail(todo)
    /\ UNCHANGED <<fs, tree, label, size, stage, w>>

superblock ==
    <<Request(0, 4, [t |-> "magic"]), Request(4, 4, [t |-> "size", n |-> w.total]),
      Request(8, crcOffset - 8, [t |-> "features"]), Request(crcOffset, 4, [t |-> "crc", of |-> NoFn]),
      Request(36, 28, [t |-> "counts", files |-> w.files]),
      Request(rootInodeOffset, inodeSize, childInode(0, Root))>>

WriteSuperblock ==
    /\ fs = "cramfs" /\ stage = "write" /\ todo = <<>>
    /\ Commit(superblock)
    /\ stage' = IF err' = "nil" THEN "crc" ELSE "done"
    /\ UNCHANGED <<fs, tree, label, size, todo, w>>

writeCRC ==
    /\ fs = "cramfs" /\ stage = "crc"
    /\ Commit(<<Request(crcOffset, 4, [t |-> "crc", of |-> within(dev, 0, w.total)])>>)
    /\ stage' = IF size = Grows THEN "trim" ELSE "done"
    /\ UNCHANGED <<fs, tree, label, size, todo, w>>

\* trimCramfs in engine.go.
trimCramfs ==
    /\ fs = "cramfs" /\ stage = "trim"
    /\ dev' = truncated(At(4).n)
    /\ stage' = "done"
    /\ UNCHANGED <<fs, tree, label, size, todo, w, err>>

Next == Prepare \/ WriteDirectory \/ WriteContents \/ WriteSuperblock \/ writeCRC \/ trimCramfs
-----------------------------------------------------------------------------
(* The reader. *)

\* block: between the end of the block before it, or the array, and its own end.
readBlock(dataOff, n, i) ==
    LET ptr(k) == At(dataOff + 4 * (k - 1))
        start == IF i = 1 THEN dataOff + 4 * n ELSE ptr(i - 1).end
    IN  IF ptr(i).t # "ptr" \/ (i > 1 /\ ptr(i - 1).t # "ptr") THEN Garbage
        ELSE Exactly(start, ptr(i).end - start)

readData(dataOff, len) ==
    [i \in 1 .. blockCount(len) |-> readBlock(dataOff, blockCount(len), i)]

readItem(path, in) ==
    Item(path, in.kind, IF in.kind \in {"reg", "symlink"} THEN in.size ELSE 0,
         IF in.kind \in {"reg", "symlink"} THEN readData(in.offset * 4, in.size) ELSE <<>>,
         IF in.kind = "device" THEN in.size ELSE 0, in.exec)

\* readDir: inodes and names, from one to the next by the length of the name.
RECURSIVE readDir(_, _, _)
readDir(path, off, left) ==
    IF left < inodeSize THEN {}
    ELSE LET in == At(off)
             nm == At(off + inodeSize)
         IN  IF in.t # "inode" \/ nm.t # "name" THEN {Corrupt}
             ELSE LET p == Append(path, nm.name)
                      step == inodeSize + 4 * in.namelen
                  IN  {readItem(p, in)}
                      \cup (IF in.kind = "dir" THEN readDir(p, in.offset * 4, in.size) ELSE {})
                      \cup readDir(path, off + step, left - step)

Open == IF At(0).t # "magic" \/ At(rootInodeOffset).t # "inode" THEN {Corrupt}
        ELSE readDir(<<>>, At(rootInodeOffset).offset * 4, At(rootInodeOffset).size)

parts(n) == blockCount(tree[n].len)

\* What Finalize accepts reads back as the tree it was given, block by block.
CramfsReadBack ==
    fs = "cramfs" /\ stage = "done" /\ err = "nil" => Open = Wanted(parts)

\* The CRC covers everything that is finally in the image.
CramfsSealed ==
    fs = "cramfs" /\ stage = "done" /\ err = "nil" => At(crcOffset).of = [dev EXCEPT ![crcOffset].what.of = NoFn]
=============================================================================
