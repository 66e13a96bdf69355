----------------------------- MODULE OciLayers -----------------------------
(***************************************************************************)
(* pkg/oci: an image tree written as a tar layer (layer.go), a later state *)
(* of it as a delta layer with whiteouts (diff.go, addlayer.go), and the   *)
(* layers applied in order to rebuild the tree (flatten.go).  An image is  *)
(* what each path holds: nothing, a directory, or an inode, two paths with *)
(* one inode being hard links.  What a file carries (contents, ownership,  *)
(* mode) is one value; layers cannot carry the values in Special.          *)
(***************************************************************************)
EXTENDS Integers, Sequences, FiniteSets

CONSTANTS Path,       \* the paths in use, as sequences of names
          PathSeq,    \* all of them, in the order of a sorted depth-first walk
          Ino,        \* inodes an image may have
          Data,       \* what a regular file carries
          Special,    \* the values whose setuid, setgid or sticky bit is set
          Plain,      \* what is left of those values without the bit
          MaxLayers   \* bound on the layers of an image

\* The place of p in the walk.
pos(p) == CHOOSE i \in 1 .. Len(PathSeq) : PathSeq[i] = p

\* The directory of a path of two names.
parentOf(p) == <<p[1]>>
base(p) == p[Len(p)]

\* A walk meets every path, a directory before what is in it.
ASSUME LayerAssumption ==
    /\ PathSeq \in Seq(Path)
    /\ {PathSeq[i] : i \in 1 .. Len(PathSeq)} = Path
    /\ \A p \in Path :
          \/ p = <<p[1]>>
          \/ p = <<p[1], p[2]>> /\ parentOf(p) \in Path /\ pos(parentOf(p)) < pos(p)
    /\ {"none", "dir"} \cap Ino = {}
    /\ Special \subseteq Data /\ Plain \in Data \ Special
    /\ MaxLayers \in Nat

VARIABLES image,    \* the image being recorded: what it holds and its files' data
          nlayers,  \* layers written so far
          queue,    \* entries of the newest layer that Flatten has still to apply:
                    \* at most one for a path, taken in the order of the walk
          child,    \* the flattened tree: node -> name -> node
          fkind, fdata, fnlink,  \* Mode's type, contents and Nlink of its nodes
          fresh     \* next node to allocate

treeVars == <<child, fkind, fdata, fnlink, fresh>>
vars == <<image, nlayers, queue, treeVars>>

Name == {p[1] : p \in Path} \cup {p[2] : p \in {q \in Path : Len(q) = 2}}

\* The images a caller can build: what lies under a path needs a directory
\* there.
Images ==
    {im \in [at : [Path -> {"none", "dir"} \cup Ino], data : [Ino -> Data]] :
        /\ \A p \in Path : Len(p) > 1 /\ im.at[p] # "none" => im.at[parentOf(p)] = "dir"
        /\ \A p \in Path : Len(p) > 1 => im.at[p] # "dir"}

NlinkOf(im, i) == Cardinality({p \in Path : im.at[p] = i})

-----------------------------------------------------------------------------
(* The flattened tree.  Node 1 is the root, 0 stands for nil. *)

MaxNode == MaxLayers * (Len(PathSeq) + 1) + 1
Node == 1 .. MaxNode

\* Node.IsDir is decided by Mode alone; a node keeps its Children either way.
findChild(d, x) == child[d][x]

\* The node at p, as lookup finds it.
lookup(p) ==
    LET first == findChild(1, p[1])
    IN  IF Len(p) = 1 \/ first = 0 THEN first ELSE findChild(first, p[2])

\* What a walk of the flattened tree sees at p, nil or a node.
seenAt(p) ==
    IF Len(p) > 1 /\ (lookup(parentOf(p)) = 0 \/ fkind[lookup(parentOf(p))] # "dir")
    THEN 0 ELSE lookup(p)

oldKind(p) == IF seenAt(p) = 0 THEN "none" ELSE fkind[seenAt(p)]

-----------------------------------------------------------------------------
(* Writing a layer. *)

newKind(im, p) == IF im.at[p] \in Ino THEN "file" ELSE im.at[p]

\* Mutant: only the sizes are compared, and those are equal.
changed_sizeOnly(im, p) == oldKind(p) # newKind(im, p)

\* changed: the node of the new tree differs from the one below.
changed(im, p) ==
    \/ oldKind(p) # newKind(im, p)
    \/ oldKind(p) = "file" /\ fdata[seenAt(p)] # im.data[im.at[p]]

\* diffDir descends into p: p is a directory before and after.
bothDirs(im, p) == oldKind(p) = "dir" /\ newKind(im, p) = "dir"

\* diffDir masks p: it reached p's directory and p is gone.
whitedOut(im, p) ==
    /\ oldKind(p) # "none"
    /\ newKind(im, p) = "none"
    /\ Len(p) > 1 => bothDirs(im, parentOf(p))

\* diffDir, or writeSubtree below a path that is new or changed, emits p.
emitted(im, p) ==
    /\ newKind(im, p) # "none"
    /\ \/ oldKind(p) = "none"
       \/ Len(p) > 1 /\ ~bothDirs(im, parentOf(p))
       \/ ~bothDirs(im, p) /\ changed(im, p)

\* Mutant: a link names the last path of its inode.
firstName_last(im, p) ==
    LET same == {q \in Path : im.at[q] = im.at[p]}
        last == CHOOSE q \in same : \A r \in same : pos(q) >= pos(r)
    IN  IF last = p THEN <<>> ELSE last

\* The name under which writeEntry has already written the inode of p, if any.
firstName(im, p) ==
    LET before == {q \in Path : /\ emitted(im, q) /\ im.at[q] = im.at[p]
                                /\ pos(q) < pos(p)}
    IN  IF before = {} THEN <<>> ELSE CHOOSE q \in before : \A r \in before : pos(q) <= pos(r)

\* writeEntry keeps the permission bits only.
tarred(d) == IF d \in Special THEN Plain ELSE d

writeEntry(im, p) ==
    IF im.at[p] = "dir" THEN [type |-> "dir", path |-> p]
    ELSE IF NlinkOf(im, im.at[p]) > 1 /\ firstName(im, p) # <<>>
    THEN [type |-> "link", path |-> p, target |-> firstName(im, p)]
    ELSE [type |-> "reg", path |-> p, data |-> tarred(im.data[im.at[p]])]

\* The layer that turns the flattened tree into the image im; over the empty
\* tree it is the full layer that tarTree writes.
writeDiffLayer(im) ==
    {[type |-> "whiteout", path |-> p] : p \in {q \in Path : whitedOut(im, q)}}
        \cup {writeEntry(im, p) : p \in {q \in Path : emitted(im, q)}}

\* BuildOCI for the first layer, AddLayerDiff for the later ones.
AddLayer(im) ==
    /\ queue = {}
    /\ nlayers < MaxLayers
    /\ image' = im
    /\ nlayers' = nlayers + 1
    /\ queue' = writeDiffLayer(im)
    /\ UNCHANGED treeVars

\* A layer another tool wrote, on top of what there is: one regular file whose
\* directory it does not mention.
ForeignLayer(p, i, d) ==
    /\ queue = {}
    /\ 0 < nlayers /\ nlayers < MaxLayers
    /\ NlinkOf(image, i) = 0
    /\ image' = [at   |-> [q \in Path |-> CASE q = p -> i
                                          [] Len(p) = 2 /\ q = parentOf(p) -> "dir"
                                          [] Len(q) = 2 /\ parentOf(q) = p -> "none"
                                          [] OTHER -> image.at[q]],
                 data |-> [image.data EXCEPT ![i] = d]]
    /\ nlayers' = nlayers + 1
    /\ queue' = {[type |-> "reg", path |-> p, data |-> d]}
    /\ UNCHANGED treeVars

-----------------------------------------------------------------------------
(* applyEntry. *)

\* The entry applyLayer reads next.
isHead(e) == \A f \in queue : pos(e.path) <= pos(f.path)

ensureDir(p) == IF Len(p) = 1 THEN 1 ELSE lookup(parentOf(p))

\* Whether ensureDir finds the directory of p.
dirPresent(p) == ensureDir(p) # 0 /\ fkind[ensureDir(p)] = "dir"

\* ensureDir creates the directory that the next entry needs, in place of
\* whatever had its name.
CreateParent ==
    \E e \in queue :
        /\ isHead(e)
        /\ ~dirPresent(e.path)
        /\ child' = [child EXCEPT ![1][e.path[1]] = fresh]
        /\ fkind' = [fkind EXCEPT ![fresh] = "dir"]
        /\ fnlink' = [fnlink EXCEPT ![fresh] = 2]
        /\ fresh' = fresh + 1
        /\ UNCHANGED <<image, nlayers, queue, fdata>>

\* upsert: the node already at the path is overwritten in place, or a fresh one
\* is put there; the entry then sets the kind k, the data d and the link count.
upsert(p, k, d) ==
    LET parent == ensureDir(p)
        old    == findChild(parent, base(p))
        m      == IF old = 0 THEN fresh ELSE old
    IN  /\ child' = [child EXCEPT ![parent][base(p)] = m]
        /\ fresh' = IF old = 0 THEN fresh + 1 ELSE fresh
        /\ fkind' = [fkind EXCEPT ![m] = k]
        /\ fdata' = [fdata EXCEPT ![m] = d]
        /\ fnlink' = [fnlink EXCEPT ![m] = IF k # "dir" THEN 1 ELSE IF old = 0 \/ @ < 2 THEN 2 ELSE @]

applyDir(e) ==
    /\ e.type = "dir"
    /\ upsert(e.path, "dir", Plain)

applyReg(e) ==
    /\ e.type = "reg"
    /\ upsert(e.path, "file", e.data)

\* Mutant: the target's link count is left alone.
applyLink_notCounted(e) ==
    /\ e.type = "link"
    /\ child' = [child EXCEPT ![ensureDir(e.path)][base(e.path)] = lookup(e.target)]
    /\ UNCHANGED <<fkind, fdata, fnlink, fresh>>

applyLink(e) ==
    /\ e.type = "link"
    /\ fnlink' = [fnlink EXCEPT ![lookup(e.target)] = @ + 1]
    /\ child' = [child EXCEPT ![ensureDir(e.path)][base(e.path)] = lookup(e.target)]
    /\ UNCHANGED <<fkind, fdata, fresh>>

applyWhiteout(e) ==
    /\ e.type = "whiteout"
    /\ child' = [child EXCEPT ![ensureDir(e.path)][base(e.path)] = 0]
    /\ UNCHANGED <<fkind, fdata, fnlink, fresh>>

ApplyEntry ==
    \E e \in queue :
        /\ isHead(e)
        /\ dirPresent(e.path)
        /\ applyDir(e) \/ applyReg(e) \/ applyLink(e) \/ applyWhiteout(e)
        /\ queue' = queue \ {e}
        /\ UNCHANGED <<image, nlayers>>

-----------------------------------------------------------------------------
Empty == [at |-> [p \in Path |-> "none"], data |-> [i \in Ino |-> Plain]]

Init ==
    /\ image = Empty
    /\ nlayers = 0
    /\ queue = {}
    /\ child = [m \in Node |-> [x \in Name |-> 0]]
    /\ fkind = [m \in Node |-> "dir"]
    /\ fdata = [m \in Node |-> Plain]
    /\ fnlink = [m \in Node |-> 2]
    /\ fresh = 2

Next ==
    \/ queue = {} /\ nlayers < MaxLayers /\ \E im \in Images : AddLayer(im)
    \/ \E p \in Path, i \in Ino, d \in Data : ForeignLayer(p, i, d)
    \/ CreateParent
    \/ ApplyEntry

Spec == Init /\ [][Next]_vars

-----------------------------------------------------------------------------
(* Two things a layer may do that Flatten does not undo; a careful caller    *)
(* does neither.                                                             *)

hardLinked(im) == \E i \in Ino : NlinkOf(im, i) > 1

\* A layer over an image with hard links, or for one: an entry overwrites in place
\* the node that other names share.
DeltaOverLinks ==
    /\ nlayers > 0 /\ nlayers' # nlayers
    /\ hardLinked(image) \/ hardLinked(image')

\* A layer that puts a file where a directory with something in it was: the node
\* keeps its children, and a later layer that makes it a directory shows them again.
BuriesTree ==
    \E p \in Path : /\ Len(p) = 2 /\ image.at[p] # "none"
                    /\ image'.at[parentOf(p)] \in Ino

CarefulNext == Next /\ ~DeltaOverLinks /\ ~BuriesTree

CarefulSpec == Init /\ [][CarefulNext]_vars

-----------------------------------------------------------------------------
(* Properties. *)

\* The comments on writeDiffLayer and AddLayerDiff: applied on top of the base,
\* the layer reproduces the image exactly, "so a round-trip Flatten of the
\* result equals img": every path has its kind and its data again.
RoundTrip ==
    queue = {} =>
        \A p \in Path :
            /\ oldKind(p) = newKind(image, p)
            /\ oldKind(p) = "file" => fdata[seenAt(p)] = image.data[image.at[p]]

\* A walk finds at p what the image has there, up to the bits a layer drops.
Match(p) ==
    /\ oldKind(p) = newKind(image, p)
    /\ oldKind(p) = "file" => tarred(fdata[seenAt(p)]) = tarred(image.data[image.at[p]])

\* tarTree: "Shared regular-file nodes (hard links) are emitted once as data and
\* again as tar hard links": a full layer gives back the sharing and the link
\* counts that Graft and the engines rely on.
SharingKept ==
    queue = {} /\ nlayers = 1 =>
        \A p, q \in Path :
            image.at[p] \in Ino /\ image.at[q] \in Ino =>
                /\ image.at[p] = image.at[q] <=> seenAt(p) = seenAt(q)
                /\ fnlink[seenAt(p)] = NlinkOf(image, image.at[p])

\* Flattening what a careful caller has written restores the image: kinds and
\* contents through every layer, but for the special bits, and hard links and their
\* counts through a full one.
FlattenRestores == (queue = {} => \A p \in Path : Match(p)) /\ SharingKept

\* A hard link entry always finds its target: the entry that carries the data
\* comes before it in the same layer and nothing in between removes it.
LinkTargetPresent ==
    \A e \in queue :
        isHead(e) /\ e.type = "link" =>
            lookup(e.target) # 0 /\ fkind[lookup(e.target)] = "file"
=============================================================================
