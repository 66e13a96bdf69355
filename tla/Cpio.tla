-------------------------------- MODULE Cpio --------------------------------
(***************************************************************************)
(* pkg/cpio: a newc archive, written as one stream of members.  The names  *)
(* of a file share an inode number, and its body rides the last of them.   *)
(***************************************************************************)
EXTENDS Target

headerSize == 110
padTo == 512
trailerName == 0                  \* the name that ends an archive
trailerLen == 10
nAlign(n) == ((n + 1) \div 4) * 4 + 2
align4(n) == ceilTo(n, 4)

entries == walk(Root, <<>>)

\* writeArchive numbers nodes by their first entry and counts their entries.
ino(n) == Cardinality({entries[i].node : i \in 1 .. Min({i \in DOMAIN entries : entries[i].node = n})})

\* Mutant: every entry says that it has one name.
occ_one(n) == 1

occ(n) == Cardinality({i \in DOMAIN entries : entries[i].node = n})

last(i) == \A j \in DOMAIN entries : entries[j].node = entries[i].node => j <= i

\* Mutant: the body rides every name but the last.
withBody_early(i) == tree[entries[i].node].kind = "symlink" \/ (tree[entries[i].node].kind = "reg" /\ ~last(i))

withBody(i) == tree[entries[i].node].kind = "symlink" \/ (tree[entries[i].node].kind = "reg" /\ last(i))

\* A path's length: its names and what separates them.
pathLen(p) == FoldLeft(+, Len(p) - 1, [i \in DOMAIN p |-> NameLen[p[i]]])

header(i) ==
    LET n == entries[i].node
    IN  [t |-> "hdr", ino |-> ino(n), kind |-> tree[n].kind, exec |-> tree[n].exec,
         nlink |-> IF IsDir(n) THEN tree[n].nlink ELSE occ(n),
         filesize |-> IF withBody(i) THEN tree[n].len ELSE 0,
         namesize |-> pathLen(entries[i].path) + 1,
         rdev |-> <<tree[n].rdev \div 256, tree[n].rdev % 256>>]

trailer == [t |-> "hdr", ino |-> 0, kind |-> "reg", exec |-> FALSE, nlink |-> 1, filesize |-> 0,
            namesize |-> trailerLen + 1, rdev |-> <<0, 0>>]

\* The stream moves on by what was written: a source that ends early is not
\* made up for.
bodyLen(i) == LET n == entries[i].node
              IN  IF ~withBody(i) THEN 0
                  ELSE IF tree[n].src = "short" THEN tree[n].len \div 2 ELSE tree[n].len

member(off, h, path, body, k) ==
    <<Request(off, headerSize, h),
      Request(off + headerSize, h.namesize, [t |-> "name", path |-> path]),
      Request(off + headerSize + nAlign(h.namesize), k, body)>>
-----------------------------------------------------------------------------
collect ==
    /\ fs = "cpio" /\ stage = "layout"
    /\ stage' = "write"
    /\ todo' = [i \in DOMAIN entries |-> i]
    /\ w' = [pos |-> 0]
    /\ UNCHANGED <<fs, tree, label, size, dev, err>>

writeEntry ==
    /\ fs = "cpio" /\ stage = "write" /\ todo # <<>>
    /\ LET i == Head(todo)
           h == header(i)
       IN  /\ Commit(member(w.pos, h, entries[i].path, Data(entries[i].node, 1), bodyLen(i)))
           /\ w' = [pos |-> align4(w.pos + headerSize + nAlign(h.namesize) + bodyLen(i))]
    /\ todo' = Tail(todo)
    /\ UNCHANGED <<fs, tree, label, size, stage>>

\* writeTrailer and padArchive.
writeTrailer ==
    /\ fs = "cpio" /\ stage = "write" /\ todo = <<>>
    /\ LET end == w.pos + headerSize + nAlign(trailerLen + 1)
       IN  /\ Commit(member(w.pos, trailer, <<trailerName>>, Garbage, 0)
                     \o <<Request(end, ceilTo(end, padTo) - end, [t |-> "pad"])>>)
           /\ w' = [pos |-> ceilTo(end, padTo)]
    /\ stage' = IF err' = "nil" /\ size = Grows THEN "trim" ELSE "done"
    /\ UNCHANGED <<fs, tree, label, size, todo>>

-----------------------------------------------------------------------------
(* The reader, which trimCpio walks along as well. *)

next(off) == align4(off + headerSize + nAlign(At(off).namesize) + At(off).filesize)

\* The offsets of the members, the trailer's last; Garbage ends a broken archive.
RECURSIVE members(_)
members(off) ==
    IF At(off).t # "hdr" \/ At(off + headerSize).t # "name" THEN <<-1>>
    ELSE IF At(off + headerSize).path = <<trailerName>> THEN <<off>>
    ELSE <<off>> \o members(next(off))

broken(ms) == Last(ms) = -1

\* trimCpio in engine.go: up to the trailer, in whole blocks.
trimCpio ==
    /\ fs = "cpio" /\ stage = "trim"
    /\ \E ms \in {members(0)} :
        IF broken(ms) THEN err' = "bad magic" /\ dev' = dev
        ELSE err' = err /\ dev' = truncated(ceilTo(next(Last(ms)), padTo))
    /\ stage' = "done"
    /\ UNCHANGED <<fs, tree, label, size, todo, w>>

Next == collect \/ writeEntry \/ writeTrailer \/ trimCpio

\* addEntry: the members that make one file, the one with a body last.  A regular
\* file with several links is one node, by its inode number.
sharers(ms, off) ==
    IF At(off).kind = "reg" /\ At(off).nlink >= 2
    THEN {o \in Range(ms) : At(o).kind = "reg" /\ At(o).nlink >= 2 /\ At(o).ino = At(off).ino}
    ELSE {off}

bodyOf(ms, off) ==
    LET full == {o \in sharers(ms, off) : At(o).filesize > 0}
    IN  IF full = {} THEN off ELSE Max(full)

readEntry(ms, off) ==
    LET b == bodyOf(ms, off)
    IN  Item(At(off + headerSize).path, At(off).kind, At(b).filesize,
             IF At(b).filesize = 0 THEN <<>>
             ELSE <<Exactly(b + headerSize + nAlign(At(b).namesize), At(b).filesize)>>,
             At(off).rdev[1] * 256 + At(off).rdev[2], At(off).exec)

Open ==
    LET ms == members(0)
    IN  IF broken(ms) THEN {Corrupt} ELSE {readEntry(ms, o) : o \in Range(Front(ms))}

parts(n) == 1

\* What Finalize accepts reads back as the tree it was given, the contents of a
\* file under each of its names.
CpioReadBack ==
    fs = "cpio" /\ stage = "done" /\ err = "nil" => Open = Wanted(parts)

\* The names that shared a node share one again, with a link count that is the
\* number of names.
CpioSharing ==
    fs = "cpio" /\ stage = "done" /\ err = "nil" =>
        LET ms == Front(members(0))
        IN  \A i \in DOMAIN entries : tree[entries[i].node].kind = "reg" =>
                /\ At(ms[i]).nlink = Cardinality(sharers(ms, ms[i]))
                /\ {At(o + headerSize).path : o \in sharers(ms, ms[i])}
                      = {e.path : e \in {f \in Range(entries) : f.node = entries[i].node}}
=============================================================================
