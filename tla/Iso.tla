-------------------------------- MODULE Iso --------------------------------
(***************************************************************************)
(* pkg/iso: the directories are listed breadth first, sized, and given     *)
(* their extents, then the files theirs.  Directories are written as       *)
(* records that do not cross a sector, then the files, then the path       *)
(* tables and the volume descriptors, whose write errors are dropped.      *)
(***************************************************************************)
EXTENDS Target

sectorSize == 2048
pvdSector == 16
maxDepth == 8
maxRecordLen == 255
pxLen == 36
tfLen == 12
spLen == 7
erLen == 18
Dot == -2
DotDot == -1

sectors(n) == (n + sectorSize - 1) \div sectorSize

\* The directories, breadth first.
RECURSIVE breadthFirst(_)
breadthFirst(level) ==
    LET below(d) == [i \in DOMAIN SubDirs(d.node) |->
                       [node |-> SubDirs(d.node)[i].node, name |-> SubDirs(d.node)[i].name,
                        parent |-> d.node, depth |-> d.depth + 1]]
    IN  IF level = <<>> THEN <<>>
        ELSE level \o breadthFirst(FlattenSeq([i \in DOMAIN level |-> below(level[i])]))

dirs == breadthFirst(<<[node |-> Root, name |-> Dot, parent |-> Root, depth |-> 1]>>)

\* The length of an identifier, of names that have no extension.
isoIdentifier(n, x) ==
    CASE x \in {Dot, DotDot} -> 1
      [] IsDir(n) -> Min({NameLen[x], 31})
      [] OTHER -> Min({NameLen[x], 30}) + 2

recordBase(n, x) == ceilTo(33 + isoIdentifier(n, x), 2)

\* Rock Ridge: the target of a symbolic link is one component.
slLen(n) == 5 + 2 + tree[n].len

suaLen(n, x, isRootDot) ==
    pxLen + tfLen + (IF isRootDot THEN spLen + erLen ELSE 0)
      + IF x \in {Dot, DotDot} THEN 0
        ELSE 5 + NameLen[x] + (IF tree[n].kind = "symlink" THEN slLen(n) ELSE 0)
               + (IF tree[n].kind = "device" THEN 20 ELSE 0)

recordLen(n, x, isRootDot) == recordBase(n, x) + suaLen(n, x, isRootDot)

\* The records of a directory, with the length of each.
records(d, parent) ==
    LET rec(n, x, root) == [node |-> n, name |-> x, len |-> recordLen(n, x, root)]
    IN  <<rec(d, Dot, d = Root), rec(parent, DotDot, FALSE)>>
        \o [i \in DOMAIN sortedChildren(d) |-> rec(sortedChildren(d)[i].node, sortedChildren(d)[i].name, FALSE)]

\* Mutant: a record follows the one before it.
place_across(used, len) == used

\* The emit of writeDir and the add of dirSectors: where a record goes when so many
\* bytes are taken.
place(used, len) == IF (used % sectorSize) + len > sectorSize THEN ceilTo(used, sectorSize) ELSE used

packed(rs) == FoldLeft(LAMBDA a, r : [used |-> place(a.used, r.len) + r.len,
                                      at |-> Append(a.at, place(a.used, r.len))],
                       [used |-> 0, at |-> <<>>], rs)

dirSectors(d, parent) == sectors(packed(records(d, parent)).used)

idLen(d) == IF d.node = Root THEN 1 ELSE isoIdentifier(d.node, d.name)
pathTableSize == FoldLeft(LAMBDA a, d : a + ceilTo(8 + idLen(d), 2), 0, dirs)

\* run: extents for the directories in their order, then for the files.
extents(ds, first) ==
    FoldLeft(LAMBDA a, d : [next |-> a.next + dirSectors(d.node, d.parent), at |-> (d.node :> a.next) @@ a.at],
             [next |-> first, at |-> NoFn], ds)

\* Mutant: a part of a sector is not counted.
fileSecs_floor(n) == IF tree[n].kind = "reg" THEN tree[n].len \div sectorSize ELSE 0

fileSecs(n) == IF tree[n].kind = "reg" THEN sectors(tree[n].len) ELSE 0

\* assignFile: a file has one extent under all its names.
assignFile(a, n) ==
    IF n \in DOMAIN a.at THEN a ELSE [next |-> a.next + fileSecs(n), at |-> (n :> a.next) @@ a.at]

\* The files, in the order of the directories.
files == FlattenSeq([i \in DOMAIN dirs |-> SelectSeq(sortedChildren(dirs[i].node), LAMBDA e : ~IsDir(e.node))])
-----------------------------------------------------------------------------
fits == /\ \A i \in DOMAIN dirs : dirs[i].depth <= maxDepth
        /\ \A i \in DOMAIN dirs : \A r \in Range(records(dirs[i].node, dirs[i].parent)) : r.len <= maxRecordLen

Layout ==
    /\ fs = "iso" /\ stage = "layout" /\ fits
    /\ \E ds \in {dirs}, pt \in {sectors(pathTableSize)} :
        \E a \in {FoldLeft(LAMBDA x, e : assignFile(x, e.node), extents(ds, pvdSector + 2 + 2 * pt), files)} :
            w' = [dirs |-> ds, at |-> a.at, total |-> a.next, lPath |-> pvdSector + 2, mPath |-> pvdSector + 2 + pt]
    /\ todo' = w'.dirs
    /\ stage' = "write"
    /\ UNCHANGED <<fs, tree, label, size, dev, err>>

\* A directory too deep, or a record too long.
LayoutRefused ==
    /\ fs = "iso" /\ stage = "layout" /\ ~fits
    /\ err' = "cannot be recorded"
    /\ stage' = "done"
    /\ UNCHANGED <<fs, tree, label, size, dev, todo, w>>

dirLen(n) == sectorSize * dirSectors(n, IF n = Root THEN Root
                                        ELSE w.dirs[CHOOSE i \in DOMAIN w.dirs : w.dirs[i].node = n].parent)

\* The Rock Ridge entries behind a record: PX, SL and PN.
writeSUA(n) ==
    [kind |-> tree[n].kind, exec |-> tree[n].exec, owner |-> tree[n].owner,
     link |-> IF tree[n].kind = "symlink" THEN Contents(n, 1) ELSE <<>>,
     linkLen |-> IF tree[n].kind = "symlink" THEN tree[n].len ELSE 0,
     rdev |-> tree[n].rdev]

dirRecord(r) ==
    [t |-> "record", name |-> r.name, extent |-> w.at[r.node], isDir |-> IsDir(r.node),
     dataLen |-> IF IsDir(r.node) THEN dirLen(r.node) ELSE IF tree[r.node].kind = "reg" THEN tree[r.node].len ELSE 0,
     sua |-> writeSUA(r.node)]

writeDir(d) ==
    LET rs == records(d.node, d.parent)
        at == packed(rs).at
    IN  [i \in DOMAIN rs |-> Request(w.at[d.node] * sectorSize + at[i], rs[i].len, dirRecord(rs[i]))]

WriteDir ==
    /\ fs = "iso" /\ stage = "write" /\ todo # <<>>
    /\ Commit(writeDir(Head(todo)))
    /\ todo' = IF err' = "nil" THEN Tail(todo) ELSE <<>>
    /\ stage' = IF err' = "nil" THEN "write" ELSE "done"
    /\ UNCHANGED <<fs, tree, label, size, w>>

StartFiles ==
    /\ fs = "iso" /\ stage = "write" /\ todo = <<>>
    /\ todo' = SelectSeq(files, LAMBDA e : tree[e.node].kind = "reg")
    /\ stage' = "files"
    /\ UNCHANGED <<fs, tree, label, size, dev, w, err>>

\* writeFiles: once for every name.
WriteFile ==
    /\ fs = "iso" /\ stage = "files" /\ todo # <<>>
    /\ LET n == Head(todo).node
       IN  Commit(<<Request(w.at[n] * sectorSize, fileSecs(n) * sectorSize, Data(n, 1))>>)
    /\ todo' = IF err' = "nil" THEN Tail(todo) ELSE <<>>
    /\ stage' = IF err' = "nil" THEN "files" ELSE "done"
    /\ UNCHANGED <<fs, tree, label, size, w>>

\* Mutant: a directory is its own parent in the tables.
parentNumber_own(d) == CHOOSE i \in DOMAIN w.dirs : w.dirs[i].node = d.node

parentNumber(d) == CHOOSE i \in DOMAIN w.dirs : w.dirs[i].node = d.parent

pathTable == [i \in DOMAIN w.dirs |-> [extent |-> w.at[w.dirs[i].node], parent |-> parentNumber(w.dirs[i])]]

\* writePathTable, writePVD and writeTerminator.
volume ==
    LET pt == w.mPath - w.lPath
    IN  <<Request(w.lPath * sectorSize, pt * sectorSize, [t |-> "paths", of |-> pathTable]),
          Request(w.mPath * sectorSize, pt * sectorSize, [t |-> "paths", of |-> pathTable]),
          Request(pvdSector * sectorSize, sectorSize,
                  [t |-> "pvd", total |-> w.total, root |-> w.at[Root], rootLen |-> dirLen(Root),
                   lPath |-> w.lPath, mPath |-> w.mPath]),
          Request((pvdSector + 1) * sectorSize, sectorSize, [t |-> "end"])>>

\* What the device refuses is not noticed.
WriteVolume ==
    /\ fs = "iso" /\ stage = "files" /\ todo = <<>>
    /\ dev' = FoldLeft(writeAt, [dev |-> dev, err |-> "nil"], volume).dev
    /\ stage' = IF size = Grows THEN "trim" ELSE "done"
    /\ UNCHANGED <<fs, tree, label, size, todo, w, err>>

\* trimISO in engine.go.
trimISO ==
    /\ fs = "iso" /\ stage = "trim"
    /\ dev' = truncated(At(pvdSector * sectorSize).total * sectorSize)
    /\ stage' = "done"
    /\ UNCHANGED <<fs, tree, label, size, todo, w, err>>

Next == Layout \/ LayoutRefused \/ WriteDir \/ StartFiles \/ WriteFile \/ WriteVolume \/ trimISO
-----------------------------------------------------------------------------
(* The reader. *)

\* isoFile: the extent of a file.
readExtent(r) == IF r.dataLen = 0 THEN <<>> ELSE <<Exactly(r.extent * sectorSize, sectors(r.dataLen) * sectorSize)>>

\* A record with what parseSUSP finds behind it.
readFile(path, r) ==
    LET rr == r.sua
    IN  Item(path, rr.kind, IF rr.kind = "symlink" THEN rr.linkLen ELSE IF rr.kind = "reg" THEN r.dataLen ELSE 0,
             IF rr.kind = "symlink" THEN rr.link ELSE IF rr.kind = "reg" THEN readExtent(r) ELSE <<>>,
             IF rr.kind = "device" THEN rr.rdev ELSE 0, rr.exec)

\* readDir from an offset of a directory on: where no record starts the rest of the
\* sector is skipped.
RECURSIVE readDir(_, _, _, _)
readDir(path, extent, off, dataLen) ==
    LET at == extent * sectorSize + off
        r == At(at)
        p == Append(path, r.name)
    IN  IF off >= dataLen THEN {}
        ELSE IF r.t # "record" THEN readDir(path, extent, ceilTo(off + 1, sectorSize), dataLen)
        ELSE (IF r.name \in {Dot, DotDot} THEN {}
              ELSE {readFile(p, r)}
                     \cup (IF r.isDir THEN readDir(p, r.extent, 0, r.dataLen) ELSE {}))
             \cup readDir(path, extent, off + dev[at].len, dataLen)

Open == LET v == At(pvdSector * sectorSize)
        IN  IF v.t # "pvd" THEN {Corrupt} ELSE readDir(<<>>, v.root, 0, v.rootLen)

parts(n) == 1

\* What Finalize accepts reads back as the tree it was given, the contents of a
\* file under each of its names.
IsoReadBack ==
    fs = "iso" /\ stage = "done" /\ err = "nil" => Open = Wanted(parts)

\* No directory record crosses the end of a sector, where ISO 9660 readers do not
\* look for the rest of it.
IsoRecordsInSectors ==
    fs = "iso" => \A o \in DOMAIN dev : dev[o].what.t = "record" =>
        o \div sectorSize = (o + dev[o].len - 1) \div sectorSize

\* The path tables lead to the directories the records lead to: every directory is
\* listed once, after its parent, and its parent's listing has its extent.
IsoPathTables ==
    fs = "iso" /\ stage = "done" /\ err = "nil" =>
        LET v == At(pvdSector * sectorSize)
            pt == At(v.lPath * sectorSize).of
            inDir(x, o) == x * sectorSize <= o /\ o < x * sectorSize + At(x * sectorSize).dataLen
        IN  /\ At(v.mPath * sectorSize) = At(v.lPath * sectorSize)
            /\ {pt[i].extent : i \in DOMAIN pt} = {w.at[n] : n \in {m \in DOMAIN w.at : IsDir(m)}}
            /\ \A i \in DOMAIN pt : i > 1 =>
                 /\ pt[i].parent < i
                 /\ \E o \in DOMAIN dev : /\ dev[o].what.t = "record" /\ dev[o].what.name \notin {Dot, DotDot}
                                          /\ dev[o].what.isDir /\ dev[o].what.extent = pt[i].extent
                                          /\ inDir(pt[pt[i].parent].extent, o)
=============================================================================
