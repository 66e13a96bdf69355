-------------------------------- MODULE Udf --------------------------------
(***************************************************************************)
(* pkg/udf: the first pass gives every node a block for its file entry,    *)
(* the second one places the data behind the file entries.  The volume     *)
(* structures are written before the partition, and an anchor after it.    *)
(***************************************************************************)
EXTENDS Target

blockSize == 2048
vrsBlock == 16
mvdsBlock == 20
mvdsLen == 16
rvdsBlock == 36
lvidBlock == 52
avdpBlock == 256
partBlock == 257
feHeaderLen == 176
fidHeader == 38
NoName == 0                       \* the entry of the parent

\* assignFE: a node has one file entry under all its names.
firstParent(n) == CHOOSE d \in DOMAIN tree : n \in Range(tree[d].kids)
assigned(a, n) == IF n \in Range(a) THEN a ELSE Append(a, n)
assignFE == FoldLeft(assigned, <<Root>>, [i \in DOMAIN walk(Root, <<>>) |-> walk(Root, <<>>)[i].node])

\* cs0Bytes: a byte for the compression, and one for every character.
cs0Len(x) == IF x = NoName THEN 0 ELSE 1 + NameLen[x]

\* buildFID, whose length is a byte.
fidLen(ident) == ceilTo(fidHeader + ident, 4)

fids(n) == <<[name |-> NoName, node |-> IF n = Root THEN Root ELSE firstParent(n)]>> \o sortedChildren(n)
fidOffset(n, i) == FoldLeft(LAMBDA a, e : a + fidLen(cs0Len(e.name)), 0, SubSeq(fids(n), 1, i - 1))

\* buildSymlink, of a target that is one component.
symlinkLen(n) == 4 + 1 + tree[n].len

dataBytes(n) ==
    CASE IsDir(n) -> fidOffset(n, Len(fids(n)) + 1)
      [] tree[n].kind = "symlink" -> symlinkLen(n)
      [] tree[n].kind = "reg" -> tree[n].len
      [] OTHER -> 0

blocksFor(bytes) == (bytes + blockSize - 1) \div blockSize
dataBlocks(n) == blocksFor(dataBytes(n))

\* Mutant: the file set descriptor is forgotten.
firstData_noFSD(order) == Len(order)

\* The data comes behind the file set descriptor and the file entries.
firstData(order) == 1 + Len(order)

placed(order) ==
    FoldLeft(LAMBDA a, n : [cursor |-> a.cursor + dataBlocks(n), at |-> (n :> a.cursor) @@ a.at],
             [cursor |-> firstData(order), at |-> NoFn], order)

feLbn(n) == CHOOSE i \in DOMAIN w.order : w.order[i] = n

\* write, up to the volume structures.
Assign ==
    /\ fs = "udf" /\ stage = "layout"
    /\ \E order \in {assignFE} :
        \E p \in {placed(order)} :
            w' = [order |-> order, dataLbn |-> p.at, partitionLen |-> p.cursor]
    /\ todo' = w'.order
    /\ stage' = "volume"
    /\ UNCHANGED <<fs, tree, label, size, dev, err>>

total == partBlock + w.partitionLen + 1
put(block, what) == Request(block * blockSize, 512, what)
avdp == [t |-> "avdp", main |-> mvdsBlock, reserve |-> rvdsBlock, len |-> mvdsLen]
pd == [t |-> "pd", start |-> partBlock, len |-> w.partitionLen]
numFiles == Cardinality({n \in Range(w.order) : ~IsDir(n)})

\* The volume descriptors, of which the logical volume, the partition and the
\* terminator are read again.
sequence(base) ==
    <<put(base, [t |-> "pvd"]), put(base + 1, [t |-> "lvd", fsd |-> 0]), put(base + 2, pd),
      put(base + 3, [t |-> "usd"]), put(base + 4, [t |-> "iuvd"]), put(base + 5, [t |-> "td"])>>

writeVolumeStructures ==
    [i \in 1 .. 3 |-> Request((vrsBlock + i - 1) * blockSize, blockSize, [t |-> "vsd", part |-> i])]
      \o sequence(mvdsBlock) \o sequence(rvdsBlock)
      \o <<put(lvidBlock, [t |-> "lvid", files |-> numFiles, dirs |-> Len(w.order) - numFiles, size |-> w.partitionLen]),
           put(avdpBlock, avdp), put(total - 1, avdp)>>

WriteVolume ==
    /\ fs = "udf" /\ stage = "volume"
    /\ Commit(writeVolumeStructures \o <<put(partBlock, [t |-> "fsd", root |-> 1])>>)
    /\ stage' = "write"
    /\ UNCHANGED <<fs, tree, label, size, todo, w>>

\* fileEntry, buildFE, shortADs: the data of a node is one extent.
fileEntry(n) ==
    [t |-> "fe", kind |-> tree[n].kind, exec |-> tree[n].exec, owner |-> tree[n].owner, nlink |-> tree[n].nlink,
     infoLen |-> dataBytes(n), lbn |-> IF dataBlocks(n) > 0 THEN w.dataLbn[n] ELSE 0,
     ea |-> IF tree[n].kind = "device" THEN <<tree[n].rdev \div 256, tree[n].rdev % 256>> ELSE <<0, 0>>]

feLen(n) == feHeaderLen + (IF tree[n].kind = "device" THEN 48 ELSE 0) + (IF dataBlocks(n) > 0 THEN 8 ELSE 0)

\* The length of an identifier is stored in a byte.
lenFI(x) == cs0Len(x) % 256

buildDir(n, base) ==
    LET es == fids(n)
    IN  [i \in DOMAIN es |-> Request(base + fidOffset(n, i), fidLen(cs0Len(es[i].name)),
            [t |-> "fid", name |-> es[i].name, lenFI |-> lenFI(es[i].name), fe |-> feLbn(es[i].node)])]

writeNodeData(n) ==
    LET base == (partBlock + w.dataLbn[n]) * blockSize
    IN  CASE IsDir(n) -> buildDir(n, base)
          [] tree[n].kind = "symlink" -> <<Request(base, symlinkLen(n), [t |-> "path", to |-> Contents(n, 1), len |-> tree[n].len])>>
          [] OTHER -> [i \in 1 .. dataBlocks(n) |-> Request(base + (i - 1) * blockSize, blockSize, Data(n, i))]

\* writePartition, one node.
WriteNode ==
    /\ fs = "udf" /\ stage = "write" /\ todo # <<>>
    /\ LET n == Head(todo)
       IN  Commit(<<Request((partBlock + feLbn(n)) * blockSize, feLen(n), fileEntry(n))>> \o writeNodeData(n))
    /\ todo' = Tail(todo)
    /\ UNCHANGED <<fs, tree, label, size, stage, w>>

Finish ==
    /\ fs = "udf" /\ stage = "write" /\ todo = <<>>
    /\ stage' = IF err = "nil" /\ size = Grows THEN "trim" ELSE "done"
    /\ UNCHANGED <<fs, tree, label, size, dev, todo, w, err>>

\* Mutant: the image ends with the partition.
imageEnd_noAnchor(d) == d.start + d.len

imageEnd(d) == d.start + d.len + 1

\* trimUDF in engine.go.
trimUDF ==
    /\ fs = "udf" /\ stage = "trim"
    /\ dev' = truncated(imageEnd(At((mvdsBlock + 2) * blockSize)) * blockSize)
    /\ stage' = "done"
    /\ UNCHANGED <<fs, tree, label, size, todo, w, err>>

Next == Assign \/ WriteVolume \/ WriteNode \/ Finish \/ trimUDF
-----------------------------------------------------------------------------
(* The reader. *)

\* readVolume: the first partition and logical volume descriptors before the
\* terminator of the main sequence.
descriptor(kind) ==
    LET a == At(avdpBlock * blockSize)
        seq == {i \in 0 .. a.len - 1 : At((a.main + i) * blockSize).t = kind}
    IN  IF a.t # "avdp" \/ seq = {} THEN Garbage ELSE At((a.main + Min(seq)) * blockSize)

part(start, lbn) == At((start + lbn) * blockSize)

\* readDir along the descriptors of a directory: Corrupt where none starts.
RECURSIVE readDir(_, _, _, _)
RECURSIVE readFrom(_, _, _, _, _)
readDir(path, start, lbn, seen) ==
    LET in == part(start, lbn)
    IN  IF in.t # "fe" THEN {[path |-> path, fe |-> -1]}
        ELSE IF in.kind # "dir" \/ lbn \in seen THEN {}
        ELSE readFrom(path, start, in, 0, seen \cup {lbn})
readFrom(path, start, in, off, seen) ==
    LET f == At((start + in.lbn) * blockSize + off)
        p == Append(path, f.name)
    IN  IF off + fidHeader > in.infoLen THEN {}
        ELSE IF f.t # "fid" THEN {[path |-> path, fe |-> -1]}
        ELSE (IF f.name = NoName \/ f.lenFI = 0 THEN {}
              ELSE {[path |-> p, fe |-> f.fe]} \cup readDir(p, start, f.fe, seen))
             \cup readFrom(path, start, in, off + fidLen(f.lenFI), seen)

\* udfFile.ReadAt, by blocks of the one extent.
readData(start, in) == [i \in 1 .. blocksFor(in.infoLen) |-> At((start + in.lbn + i - 1) * blockSize)]

\* decodeSymlink, of what the data of a link holds.
decodeSymlink(start, in) ==
    IF in.kind = "symlink" /\ in.infoLen > 0 /\ part(start, in.lbn).t = "path" THEN part(start, in.lbn)
    ELSE [len |-> 0, to |-> <<>>]

deviceFromEA(in) == in.ea[1] * 256 + in.ea[2]

\* readFE
readFE(start, e, es) ==
    LET in == part(start, e.fe)
        link == decodeSymlink(start, in)
    IN  Inode(Item(e.path, in.kind, IF in.kind = "reg" THEN in.infoLen ELSE link.len,
                   IF in.kind = "reg" THEN readData(start, in) ELSE link.to, deviceFromEA(in), in.exec),
              in.owner, <<>>, in.nlink, {f.path : f \in {g \in es : g.fe = e.fe}})

Open ==
    LET start == descriptor("pd").start
        es == readDir(<<>>, start, part(start, descriptor("lvd").fsd).root, {})
    IN  IF descriptor("pd") = Garbage \/ descriptor("lvd") = Garbage THEN {Corrupt}
        ELSE IF \E e \in es : e.fe = -1 THEN {Corrupt} ELSE {readFE(start, e, es) : e \in es}

parts(n) == IF tree[n].kind = "symlink" THEN 1 ELSE blocksFor(tree[n].len)

\* What Finalize accepts reads back as the tree it was given, but for extended
\* attributes, which are not stored.
UdfReadBack ==
    fs = "udf" /\ stage = "done" /\ err = "nil" =>
        Open = {[i EXCEPT !.xattrs = <<>>] : i \in WantedInodes(parts, LAMBDA n : tree[n].nlink)}

\* A trimmed image still has its second anchor, in its last block, and everything
\* between the first and the second lies in the partition the volume declares.
UdfAnchored ==
    fs = "udf" /\ stage = "done" /\ err = "nil" =>
        LET d == descriptor("pd")
            last == (d.start + d.len) * blockSize
        IN  /\ At(last) = At(avdpBlock * blockSize)
            /\ At((rvdsBlock + 2) * blockSize) = d
            /\ \A o \in DOMAIN dev : o > avdpBlock * blockSize /\ o # last =>
                   d.start * blockSize <= o /\ o + dev[o].len <= last
=============================================================================
