-------------------------------- MODULE Romfs --------------------------------
(***************************************************************************)
(* pkg/romfs: headers are placed in a first walk and written in a second.  *)
(* A directory is a chain of headers, ".", ".." and the sorted children,   *)
(* each followed by its name and its data, all on 16-byte boundaries.      *)
(***************************************************************************)
EXTENDS Target

headerSize == 16
alignUp(n) == ceilTo(n, 16)
paddedName(len) == alignUp(len + 1)
Dot == -2                         \* the names "." and ".."
DotDot == -1

dataLen(n) == IF HasData(n) THEN tree[n].len ELSE 0

\* Mutant: the padding behind the data is forgotten.
entrySize_unpadded(e) == headerSize + paddedName(NameLen[e.name]) + dataLen(e.node)

\* A header with its name and its data.
entrySize(e) == headerSize + paddedName(NameLen[e.name]) + alignUp(dataLen(e.node))

\* layoutDir: the tables of one directory, then of the directories below it.  A
\* node with several names keeps the offset of the last.
RECURSIVE layoutDir(_, _, _, _)
layoutDir(l, d, start, parent) ==
    LET kids == sortedChildren(d)
        dotdot == start + headerSize + paddedName(1)
        at[i \in 0 .. Len(kids)] ==
            IF i = 0 THEN dotdot + headerSize + paddedName(2) ELSE at[i - 1] + entrySize(kids[i])
        placed == FoldLeft(LAMBDA f, i : (kids[i].node :> at[i - 1]) @@ f, l.hdrOff,
                           [i \in DOMAIN kids |-> i])
        here == [l EXCEPT !.hdrOff = placed,
                          !.dotOff = (d :> start) @@ @,
                          !.dotdotOff = (d :> dotdot) @@ @,
                          !.parentHdr = (d :> parent) @@ @,
                          !.next = at[Len(kids)]]
    IN  FoldLeft(LAMBDA a, e : layoutDir(a, e.node, a.next, l.hdrOff[d]), here, SubDirs(d))

rootHdr == headerSize + paddedName(label)

layout == layoutDir([hdrOff |-> (Root :> rootHdr), dotOff |-> NoFn, dotdotOff |-> NoFn,
                     parentHdr |-> NoFn, next |-> 0],
                    Root, rootHdr + headerSize + paddedName(1), rootHdr)

\* typeOf: romfs keeps the kind of a node and whether it is executable.
typeOf(n) == [type |-> tree[n].kind, exec |-> tree[n].kind = "dir" \/ tree[n].exec]

header(off, type, exec, next, spec, len) ==
    Request(off, headerSize,
            [t |-> "hdr", type |-> type, exec |-> exec, next |-> next, spec |-> spec, size |-> len])
name(off, x, len) == Request(off + headerSize, paddedName(len), [t |-> "name", name |-> x])

\* The spec field of a header: where a directory starts, or the device number
\* with its major part shifted up.
payload(n) ==
    CASE tree[n].kind = "dir" -> w.dotOff[n]
      [] tree[n].kind = "device" -> (tree[n].rdev \div 256) * 65536 + (tree[n].rdev % 256)
      [] OTHER -> 0

writeSuperblock(l) ==
    <<Request(0, 8, [t |-> "magic"]), Request(8, 4, [t |-> "size", n |-> l.next]),
      Request(12, 4, [t |-> "sum", of |-> NoFn]),
      Request(headerSize, paddedName(label), [t |-> "label"])>>

writeRootHeader(l) ==
    <<header(rootHdr, "dir", TRUE, 0, l.dotOff[Root], 0), name(rootHdr, Dot, 1)>>

\* The position of the next sibling: by its node, as the code has it.
siblingOff(kids, i) == IF i < Len(kids) THEN w.hdrOff[kids[i + 1].node] ELSE 0

writeEntry(kids, i) ==
    LET n == kids[i].node
        off == w.hdrOff[n]
        ty == typeOf(n)
        dataOff == off + headerSize + paddedName(NameLen[kids[i].name])
    IN  <<header(off, ty.type, ty.exec, siblingOff(kids, i), payload(n), dataLen(n)),
          name(off, kids[i].name, NameLen[kids[i].name])>>
          \o IF HasData(n) THEN <<Request(dataOff, alignUp(dataLen(n)), Data(n, 1))>> ELSE <<>>

writeDir(d) ==
    LET kids == sortedChildren(d)
    IN  <<header(w.dotOff[d], "hardlink", FALSE, w.dotdotOff[d], w.hdrOff[d], 0),
          name(w.dotOff[d], Dot, 1),
          header(w.dotdotOff[d], "hardlink", FALSE, siblingOff(kids, 0), w.parentHdr[d], 0),
          name(w.dotdotOff[d], DotDot, 2)>>
        \o FlattenSeq([i \in DOMAIN kids |-> writeEntry(kids, i)])
-----------------------------------------------------------------------------
Layout ==
    /\ fs = "romfs" /\ stage = "layout"
    /\ \E l \in {layout} :
        /\ w' = l
        /\ Commit(writeSuperblock(l) \o writeRootHeader(l))
    /\ stage' = "write"
    /\ todo' = <<Root>>
    /\ UNCHANGED <<fs, tree, label, size>>

WriteDir ==
    /\ fs = "romfs" /\ stage = "write" /\ todo # <<>>
    /\ Commit(writeDir(Head(todo)))
    /\ todo' = [i \in DOMAIN SubDirs(Head(todo)) |-> SubDirs(Head(todo))[i].node] \o Tail(todo)
    /\ UNCHANGED <<fs, tree, label, size, stage, w>>

\* Mutant: the checksum covers the superblock only.
summed_superblock == 32

\* The bytes finishChecksum adds up.
summed == Min({512, w.next})

finishChecksum ==
    /\ fs = "romfs" /\ stage = "write" /\ todo = <<>> /\ err = "nil"
    /\ Commit(<<Request(12, 4, [t |-> "sum", of |-> within([dev EXCEPT ![12].what.of = NoFn], 0, summed)])>>)
    /\ stage' = IF size = Grows THEN "trim" ELSE "done"
    /\ UNCHANGED <<fs, tree, label, size, todo, w>>

writeFails ==
    /\ fs = "romfs" /\ stage = "write" /\ todo = <<>> /\ err # "nil"
    /\ stage' = "done"
    /\ UNCHANGED <<fs, tree, label, size, dev, todo, w, err>>

\* trimRomfs in engine.go: the length the superblock records.
trimRomfs ==
    /\ fs = "romfs" /\ stage = "trim"
    /\ dev' = truncated(At(8).n)
    /\ stage' = "done"
    /\ UNCHANGED <<fs, tree, label, size, todo, w, err>>

Next == Layout \/ WriteDir \/ finishChecksum \/ writeFails \/ trimRomfs
-----------------------------------------------------------------------------
(* The reader. *)

\* A header at an offset, with the name behind it.
readName(off) == At(off + headerSize)

\* node: what a header stands for, its data where its name ends.
readNode(path, off) ==
    LET h == At(off)
        dataOff == off + headerSize + paddedName(NameLen[readName(off).name])
    IN  Item(path, h.type, h.size,
             IF h.size = 0 THEN <<>> ELSE <<Exactly(dataOff, alignUp(h.size))>>,
             IF h.type = "device" THEN (h.spec \div 65536) * 256 + (h.spec % 65536) ELSE 0,
             h.type # "dir" /\ h.exec)

\* readDir: follows the chain from off, and the chains of the directories on it.
RECURSIVE readDir(_, _, _)
readDir(path, off, seen) ==
    IF off = 0 \/ off \in seen THEN {}
    ELSE IF At(off).t # "hdr" \/ readName(off).t # "name" THEN {Corrupt}
    ELSE LET x == readName(off).name
             p == Append(path, x)
         IN  (IF x \in {Dot, DotDot} THEN {}
              ELSE {readNode(p, off)}
                   \cup IF At(off).type = "dir" THEN readDir(p, At(off).spec, {}) ELSE {})
             \cup readDir(path, At(off).next, seen \cup {off})

\* Open: the root's header follows the label.
Open == IF At(0).t # "magic" \/ At(rootHdr).t # "hdr" THEN {Corrupt}
        ELSE readDir(<<>>, At(rootHdr).spec, {})

parts(n) == 1

\* What Finalize accepts reads back as the tree it was given, after the file has
\* been cut to the length in the superblock.
RomfsReadBack ==
    fs = "romfs" /\ stage = "done" /\ err = "nil" => Open = Wanted(parts)

\* The checksum in the superblock covers what the start of the image finally
\* holds, and every header and name in it.
RomfsSealed ==
    fs = "romfs" /\ stage = "done" /\ err = "nil" =>
        At(12).of = within([dev EXCEPT ![12].what.of = NoFn], 0, 512)
=============================================================================
