------------------------------- MODULE Target -------------------------------
(***************************************************************************)
(* One build of a write-once image (build in fsforge.go): the tree that    *)
(* has been accumulated, the device the engine writes it to, and where the *)
(* engine's Finalize has got to.  The engines that lay a tree out in a     *)
(* single pass extend this module.                                         *)
(*                                                                         *)
(* A name is a number, in the order of the names; NameLen gives its length *)
(* in bytes.                                                               *)
(***************************************************************************)
EXTENDS Extents, FiniteSets, SequencesExt, FiniteSetsExt

CONSTANTS Trees,      \* for an engine, the trees to lay out: node -> node record, the root is 1
          NameLen,    \* length of every name
          Sizes,      \* for an engine, the sizes of its device
          LabelLens   \* lengths of the volume label

VARIABLES fs,       \* Builder.fstype
          tree,     \* image.Mem's nodes
          label,    \* length of Params.Label
          size,     \* Device.Size(), or Grows for a file
          dev,      \* what has been written
          stage,    \* where Finalize is
          todo,     \* what its current pass has still to do
          w,        \* the writer's tables
          err       \* the writer's sticky error

vars == <<fs, tree, label, size, dev, stage, todo, w, err>>

Root == 1
Grows == -1

Init ==
    /\ fs \in DOMAIN Trees
    /\ tree \in Trees[fs]
    /\ label \in LabelLens
    /\ size \in Sizes[fs]
    /\ dev = NoFn
    /\ stage = "layout"
    /\ todo = <<>>
    /\ w = NoFn
    /\ err = "nil"
-----------------------------------------------------------------------------
(* The tree. *)

\* The elements of a set of numbers in increasing order.
increasing(S) == [i \in 1 .. Cardinality(S) |->
                    CHOOSE x \in S : Cardinality({y \in S : y < x}) = i - 1]

Names(d) == increasing(DOMAIN tree[d].kids)

sortedChildren(d) ==
    LET ns == Names(d)
    IN  [i \in DOMAIN ns |-> [name |-> ns[i], node |-> tree[d].kids[ns[i]]]]

IsDir(n) == tree[n].kind = "dir"
SubDirs(d) == SelectSeq(sortedChildren(d), LAMBDA e : IsDir(e.node))

\* An attribute of a node: the length of its name and value, the namespace, and
\* the words of the value, the byte NUL being 0.
Attribute(bytes, space) == [bytes |-> bytes, space |-> space, name |-> 1, value |-> <<bytes>>]

\* A pre-order walk: an entry for every name.
RECURSIVE walk(_, _)
walk(d, prefix) ==
    FlattenSeq([i \in DOMAIN Names(d) |->
        LET e == sortedChildren(d)[i]
            p == Append(prefix, e.name)
        IN  <<[path |-> p, node |-> e.node]>>
              \o IF IsDir(e.node) THEN walk(e.node, p) ELSE <<>>])

-----------------------------------------------------------------------------
(* The device. *)

\* A part of a file's contents, as its Source hands them over: "short" is a
\* file that has become shorter since it was stat'ed, "fails" one that cannot be
\* read any more.
Data(n, i) == [t |-> "data", of |-> n, part |-> i, src |-> tree[n].src]

\* Stands in the writes of an engine where it finds that it cannot go on.
Refuse(why) == Request(0, 1, [t |-> "refused", why |-> why])

\* writeAt of an engine: nothing happens any more after the first error.  A
\* source that fails is noticed when its contents are to be written.
writeAt(x, r) ==
    IF x.err # "nil" \/ r.len = 0 THEN x
    ELSE IF r.what.t = "refused" THEN [x EXCEPT !.err = r.what.why]
    ELSE IF r.what.t = "data" /\ r.what.src = "fails" THEN [x EXCEPT !.err = "read"]
    ELSE IF size # Grows /\ r.off + r.len > size THEN [x EXCEPT !.err = "short write"]
    ELSE [x EXCEPT !.dev = overwrite(@, r)]

Commit(requests) ==
    \E x \in {FoldLeft(writeAt, [dev |-> dev, err |-> err], requests)} :
        /\ dev' = x.dev
        /\ err' = x.err

At(off) == IF off \in DOMAIN dev THEN dev[off].what ELSE Garbage
Exactly(off, len) == IF off \in DOMAIN dev /\ dev[off].len = len THEN dev[off].what ELSE Garbage

\* Truncate of the output file.
truncated(n) == [o \in {o \in DOMAIN dev : o + dev[o].len <= n} |-> dev[o]]

\* What lies in a range of the device, for a checksum.
within(d, from, to) == [o \in {o \in DOMAIN d : from <= o /\ o < to} |-> d[o]]
-----------------------------------------------------------------------------
(* What an image should read back as: an entry for every name.             *)

\* The kinds of nodes that have contents.
HasData(n) == tree[n].kind \in {"reg", "symlink"} /\ tree[n].len > 0

Corrupt == [path |-> <<>>, kind |-> "corrupt"]

Item(path, kind, len, data, rdev, exec) ==
    [path |-> path, kind |-> kind, len |-> len, data |-> data, rdev |-> rdev, exec |-> exec]

Contents(n, parts) ==
    IF tree[n].len = 0 \/ tree[n].kind \notin {"reg", "symlink"} THEN <<>>
    ELSE [i \in 1 .. parts |-> Data(n, i)]

\* parts(n) is the number of records the engine cuts the contents of n into.
Wanted(parts(_)) ==
    {Item(e.path, tree[e.node].kind, tree[e.node].len, Contents(e.node, parts(e.node)),
          tree[e.node].rdev, tree[e.node].exec) : e \in Range(walk(Root, <<>>))}

\* For the engines that store inodes: with the owner, the attributes, the link
\* count and the names of the same node.
Inode(item, owner, xattrs, nlink, names) ==
    [item |-> item, owner |-> owner, xattrs |-> xattrs, nlink |-> nlink, names |-> names]

\* nlink(n) is the link count the engine stores.
WantedInodes(parts(_), nlink(_)) ==
    LET es == Range(walk(Root, <<>>))
    IN  {Inode(Item(e.path, tree[e.node].kind, tree[e.node].len, Contents(e.node, parts(e.node)),
                    tree[e.node].rdev, tree[e.node].exec),
               tree[e.node].owner, tree[e.node].xattrs, nlink(e.node),
               {f.path : f \in {g \in es : g.node = e.node}}) : e \in es}
=============================================================================
