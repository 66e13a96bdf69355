-------------------------- MODULE OciLayersProofs --------------------------
(***************************************************************************)
(* Flattening the layers of OciLayers gives the image back.                *)
(***************************************************************************)
EXTENDS OciLayers, FiniteSetTheorems, WellFoundedInduction, TLAPS

Room == Len(PathSeq) + 1

\* The paths that still have an entry to apply.
Pending == {e.path : e \in queue}

TypeOK ==
    /\ image \in Images
    /\ nlayers \in 0 .. MaxLayers
    /\ child \in [Node -> [Name -> 0 .. MaxNode]]
    /\ fkind \in [Node -> {"dir", "file"}]
    /\ fdata \in [Node -> Data]
    /\ fnlink \in [Node -> Nat]
    /\ fresh \in 2 .. MaxNode + 1

\* What an entry says is what the image has at its path.
EntryOK(e) ==
    /\ e.path \in Path
    /\ e.type \in {"dir", "reg", "link", "whiteout"}
    /\ e.type = "dir" => image.at[e.path] = "dir"
    /\ e.type = "reg" =>
          /\ image.at[e.path] \in Ino
          /\ e.data \in Data /\ tarred(e.data) = tarred(image.data[image.at[e.path]])
    /\ e.type = "link" =>
          /\ nlayers = 1 /\ image.at[e.path] \in Ino
          /\ e.target \in Path /\ image.at[e.target] = image.at[e.path]
          /\ pos(e.target) < pos(e.path)
    /\ e.type = "whiteout" =>
          /\ nlayers > 1 /\ image.at[e.path] = "none"
          /\ Len(e.path) = 2 => image.at[parentOf(e.path)] = "dir"

QueueOK ==
    /\ \A e \in queue : EntryOK(e)
    /\ \A e, f \in queue : e.path = f.path => e = f

\* Nodes that are not allocated have no children and are nobody's child; the
\* root is nobody's child either.
NodesOK ==
    /\ fkind[1] = "dir"
    /\ \A m \in Node, x \in Name :
          /\ child[m][x] = 0 \/ child[m][x] \in 2 .. fresh - 1
          /\ m >= fresh => child[m][x] = 0

\* Two paths share a node only as hard links of a full layer.
Unshared ==
    \A p, q \in Path :
        lookup(p) = lookup(q) /\ lookup(p) # 0 =>
            p = q \/ (nlayers = 1 /\ image.at[p] = image.at[q] /\ image.at[p] \in Ino)

\* The entry of a foreign layer waits for its directory.
AwaitsDir(e) == parentOf(e.path) \notin Pending /\ ~dirPresent(e.path)

AwaitsOK ==
    \A e \in queue : AwaitsDir(e) =>
        /\ queue = {e} /\ e.type = "reg" /\ Len(e.path) = 2 /\ nlayers > 1
        /\ image.at[parentOf(e.path)] = "dir"
        /\ \A r \in Path : Len(r) = 2 /\ parentOf(r) = parentOf(e.path) /\ r # e.path
                              => image.at[r] = "none"

\* Paths with nothing left to apply to them or to their directory.
Settled ==
    \A p \in Path :
        /\ p \notin Pending /\ parentOf(p) \notin Pending
        /\ \A e \in queue : AwaitsDir(e) => parentOf(p) # parentOf(e.path)
        => Match(p)

\* Nothing is hidden under a path that is about to become a directory.
NothingHidden ==
    \A p \in Path :
        /\ Len(p) = 2 /\ p \notin Pending
        /\ parentOf(p) \in Pending /\ image.at[parentOf(p)] = "dir"
        => image.at[p] = "none" /\ lookup(p) = 0

\* There is a node for every entry of this layer and of the layers to come.
NodesLeft ==
    LET used == fresh + Cardinality(Pending) + (MaxLayers - nlayers) * Room
    IN  /\ used <= MaxNode + 1
        /\ (\E e \in queue : AwaitsDir(e)) => used <= MaxNode

\* The full layer is applied to an empty tree, in the order of the walk.
FullLayer ==
    nlayers = 1 =>
        /\ \A p \in Path : p \in Pending \/ image.at[p] = "none" => lookup(p) = 0
        /\ \A p \in Path, e \in queue :
              p \notin Pending /\ image.at[p] # "none" => pos(p) < pos(e.path)
        /\ \A e \in queue : e.type = "reg" =>
              \A p \in Path : image.at[p] = image.at[e.path] => pos(e.path) <= pos(p)
        /\ \A p, q \in Path \ Pending : image.at[p] \in Ino /\ image.at[q] = image.at[p] =>
              lookup(p) = lookup(q)
        /\ \A p \in Path \ Pending : image.at[p] \in Ino =>
              /\ lookup(p) # 0
              /\ fnlink[lookup(p)] = Cardinality({q \in Path \ Pending : image.at[q] = image.at[p]})
        /\ \A m \in Node, x \in Name : fkind[m] = "file" => child[m][x] = 0

NoLayer ==
    nlayers = 0 =>
        /\ queue = {}
        /\ \A m \in Node, x \in Name : child[m][x] = 0

LayersInv ==
    /\ TypeOK /\ QueueOK /\ NodesOK /\ Unshared /\ AwaitsOK
    /\ Settled /\ NothingHidden /\ NodesLeft /\ FullLayer /\ NoLayer

\* What is not a directory has nothing under it.
Clean ==
    \A p \in Path : Len(p) = 2 /\ lookup(p) # 0 => fkind[lookup(parentOf(p))] = "dir"

\* No entry is about to turn a directory with children into a file.
KeepsClean ==
    \A p \in Path, e \in queue :
        Len(p) = 2 /\ lookup(p) # 0 /\ parentOf(p) = e.path => e.type # "reg"

-----------------------------------------------------------------------------
(* Paths and their order. *)

\* The place of a path in the walk is one where the walk has it.
LEMMA PosPlace ==
    ASSUME NEW p \in Path
    PROVE  pos(p) \in 1 .. Len(PathSeq) /\ PathSeq[pos(p)] = p
<1>1. \E i \in 1 .. Len(PathSeq) : PathSeq[i] = p
  BY LayerAssumption
<1> QED BY <1>1 DEF pos

\* Different paths have different places.
LEMMA PosOrders ==
    ASSUME NEW p \in Path, NEW q \in Path
    PROVE  /\ pos(p) \in Nat /\ pos(q) \in Nat
           /\ pos(p) = pos(q) => p = q
<1>0. Len(PathSeq) \in Nat
  BY LayerAssumption
<1>1. pos(p) \in 1 .. Len(PathSeq) /\ PathSeq[pos(p)] = p
  BY PosPlace
<1>2. pos(q) \in 1 .. Len(PathSeq) /\ PathSeq[pos(q)] = q
  BY PosPlace
<1> QED BY <1>0, <1>1, <1>2

\* A path is a name or a name in a directory that the walk meets before it.
LEMMA PathShape ==
    ASSUME NEW p \in Path
    PROVE  /\ p[1] \in Name
           /\ \/ /\ Len(p) = 1 /\ p = <<p[1]>> /\ base(p) = p[1] /\ parentOf(p) = p
              \/ /\ Len(p) = 2 /\ p = <<p[1], p[2]>> /\ base(p) = p[2] /\ p[2] \in Name
                 /\ parentOf(p) \in Path /\ Len(parentOf(p)) = 1 /\ parentOf(p)[1] = p[1]
                 /\ parentOf(parentOf(p)) = parentOf(p)
                 /\ pos(parentOf(p)) < pos(p) /\ parentOf(p) # p
<1>1. CASE p = <<p[1]>>
  <2>1. Len(p) = 1
    BY <1>1
  <2> QED BY <1>1, <2>1 DEF Name, base, parentOf
<1>2. CASE p = <<p[1], p[2]>> /\ parentOf(p) \in Path /\ pos(parentOf(p)) < pos(p)
  <2>1. Len(p) = 2
    BY <1>2
  <2>2. p[2] \in Name /\ p[1] \in Name
    BY <2>1 DEF Name
  <2>3. parentOf(p)[1] = p[1] /\ Len(parentOf(p)) = 1
    BY DEF parentOf
  <2>4. parentOf(p) # p
    BY <2>1, <2>3
  <2>5. base(p) = p[2] /\ parentOf(parentOf(p)) = parentOf(p)
    BY <2>1, <2>3 DEF base, parentOf
  <2> QED BY <1>2, <2>1, <2>2, <2>3, <2>4, <2>5
<1> QED BY <1>1, <1>2, LayerAssumption

\* A path is made of its names.
LEMMA PathNames ==
    ASSUME NEW p \in Path
    PROVE  /\ Len(p) = 1 => p = <<p[1]>>
           /\ Len(p) = 2 => p = <<p[1], p[2]>>
BY PathShape

\* Paths of one length with the same names are one path.
LEMMA SamePath ==
    ASSUME NEW p \in Path, NEW q \in Path, p[1] = q[1], Len(p) = Len(q),
           Len(p) = 2 => p[2] = q[2]
    PROVE  p = q
<1>1. Len(p) = 1 \/ Len(p) = 2
  BY PathShape
<1>2. /\ Len(p) = 1 => p = <<p[1]>>
      /\ Len(p) = 2 => p = <<p[1], p[2]>>
  BY PathNames
<1>3. /\ Len(q) = 1 => q = <<q[1]>>
      /\ Len(q) = 2 => q = <<q[1], q[2]>>
  BY PathNames
<1>4. CASE Len(p) = 1
  <2>1. p = <<p[1]>> /\ q = <<q[1]>>
    BY <1>2, <1>3, <1>4
  <2> QED BY <2>1, Zenon
<1>5. CASE Len(p) = 2
  <2>1. p = <<p[1], p[2]>> /\ q = <<q[1], q[2]>> /\ p[2] = q[2]
    BY <1>2, <1>3, <1>5
  <2> QED BY <2>1, Zenon
<1> QED BY <1>1, <1>4, <1>5

\* The directory of a path is that path itself or one of one name.
LEMMA SameDir ==
    ASSUME NEW p \in Path, NEW q \in Path
    PROVE  /\ parentOf(p) = parentOf(q) <=> p[1] = q[1]
           /\ Len(q) = 1 => (parentOf(p) = q <=> p[1] = q[1])
           /\ Len(q) = 2 => parentOf(p) # q
<1>1. parentOf(p) = parentOf(q) <=> p[1] = q[1]
  <2>1. parentOf(p)[1] = p[1] /\ parentOf(q)[1] = q[1]
    BY DEF parentOf
  <2> QED BY <2>1 DEF parentOf
<1>2. Len(q) = 1 => (parentOf(p) = q <=> p[1] = q[1])
  BY <1>1, PathShape
<1>3. Len(parentOf(p)) = 1
  BY DEF parentOf
<1> QED BY <1>1, <1>2, <1>3

-----------------------------------------------------------------------------
(* What lookups find in the flattened tree, and what putting a child changes. *)

\* A lookup goes from the root to the directory of the path and on from there.
LEMMA LookupForm ==
    ASSUME NEW p \in Path
    PROVE  /\ Len(p) = 1 => lookup(p) = child[1][p[1]]
           /\ Len(p) = 2 => /\ lookup(parentOf(p)) = child[1][p[1]]
                            /\ lookup(p) = IF lookup(parentOf(p)) = 0 THEN 0
                                           ELSE child[lookup(parentOf(p))][p[2]]
           /\ seenAt(p) = IF Len(p) = 2 /\ (lookup(parentOf(p)) = 0 \/ fkind[lookup(parentOf(p))] # "dir")
                          THEN 0 ELSE lookup(p)
<1>1. CASE Len(p) = 1
  BY <1>1 DEF lookup, findChild, seenAt
<1>2. CASE Len(p) = 2
  <2>1. Len(parentOf(p)) = 1 /\ parentOf(p)[1] = p[1]
    BY <1>2, PathShape
  <2>2. lookup(parentOf(p)) = child[1][p[1]]
    BY <2>1 DEF lookup, findChild
  <2> QED BY <1>2, <2>2 DEF lookup, findChild, seenAt
<1> QED BY <1>1, <1>2, PathShape

\* A lookup finds nothing or an allocated node other than the root.
LEMMA LookupType ==
    ASSUME TypeOK, NodesOK, NEW p \in Path
    PROVE  /\ 1 \in Node /\ MaxNode \in Nat /\ fresh \in Nat
           /\ lookup(p) = 0 \/ (lookup(p) \in Node /\ lookup(p) \in 2 .. fresh - 1)
           /\ lookup(parentOf(p)) = 0 \/ lookup(parentOf(p)) \in 2 .. fresh - 1
           /\ lookup(parentOf(p)) = 0 \/ lookup(parentOf(p)) \in Node
<1>1. MaxNode \in Nat /\ fresh \in 2 .. MaxNode + 1
  <2>1. Len(PathSeq) \in Nat /\ MaxLayers \in Nat
    BY LayerAssumption
  <2> QED BY <2>1 DEF TypeOK, MaxNode
<1>2. 1 \in Node
  BY <1>1 DEF Node
<1>3. 2 .. fresh - 1 \subseteq Node
  BY <1>1 DEF Node
<1>4. ASSUME NEW q \in Path, Len(q) = 1
      PROVE  lookup(q) = 0 \/ lookup(q) \in 2 .. fresh - 1
  <2>1. q[1] \in Name /\ lookup(q) = child[1][q[1]]
    BY <1>4, PathShape, LookupForm
  <2> QED BY <1>2, <2>1 DEF NodesOK
<1>5. CASE Len(p) = 1
  <2>1. parentOf(p) = p
    BY <1>5, PathShape
  <2> QED BY <1>1, <1>2, <1>3, <1>4, <1>5, <2>1
<1>6. CASE Len(p) = 2
  <2>1. parentOf(p) \in Path /\ Len(parentOf(p)) = 1 /\ p[2] \in Name
    BY <1>6, PathShape
  <2>2. lookup(parentOf(p)) = 0 \/ lookup(parentOf(p)) \in 2 .. fresh - 1
    BY <2>1, <1>4
  <2>3. lookup(p) = 0 \/ (lookup(p) = child[lookup(parentOf(p))][p[2]] /\ lookup(parentOf(p)) # 0)
    BY <1>6, LookupForm
  <2>4. lookup(p) = 0 \/ lookup(p) \in 2 .. fresh - 1
    BY <2>1, <2>2, <2>3, <1>3 DEF NodesOK
  <2> QED BY <1>1, <1>2, <1>3, <2>2, <2>4
<1> QED BY <1>5, <1>6, PathShape

\* Only the directory of p is the node that ensureDir finds.
OnlyDirOf(p) ==
    Len(p) = 2 => \A r \in Path : Len(r) = 1 /\ lookup(r) = ensureDir(p) => r = parentOf(p)

\* Putting m at p changes the lookups of p and of what is under it.
LEMMA TreePut ==
    ASSUME TypeOK, NodesOK, NEW p \in Path, NEW m \in 0 .. MaxNode,
           m # 1, ensureDir(p) # 0, OnlyDirOf(p),
           child' = [child EXCEPT ![ensureDir(p)][base(p)] = m]
    PROVE  /\ lookup(p)' = m
           /\ \A r \in Path : r # p /\ parentOf(r) # p =>
                 lookup(r)' = lookup(r) /\ lookup(parentOf(r))' = lookup(parentOf(r))
           /\ \A r \in Path : Len(r) = 2 /\ parentOf(r) = p =>
                 lookup(r)' = IF m = 0 THEN 0 ELSE child[m][r[2]]
           /\ child' \in [Node -> [Name -> 0 .. MaxNode]]
           /\ ensureDir(p) \in Node /\ base(p) \in Name
           /\ ensureDir(p) < fresh
<1>0. /\ 1 \in Node /\ MaxNode \in Nat
      /\ child \in [Node -> [Name -> 0 .. MaxNode]]
      /\ fresh \in Nat /\ fresh >= 2
  BY LookupType DEF TypeOK
<1> DEFINE d == ensureDir(p)
<1>1. /\ d \in Node /\ base(p) \in Name /\ d < fresh
      /\ Len(p) = 1 => d = 1 /\ base(p) = p[1]
      /\ Len(p) = 2 => d # 1 /\ d = lookup(parentOf(p)) /\ base(p) = p[2]
  <2>1. CASE Len(p) = 1
    BY <2>1, <1>0, PathShape DEF ensureDir
  <2>2. CASE Len(p) = 2
    <3>1. d = lookup(parentOf(p))
      BY <2>2 DEF ensureDir
    <3>2. d \in Node /\ d \in 2 .. fresh - 1
      BY <3>1, LookupType
    <3>3. base(p) = p[2] /\ p[2] \in Name
      BY <2>2, PathShape
    <3> QED BY <2>2, <3>1, <3>2, <3>3, <1>0
  <2> QED BY <2>1, <2>2, PathShape
<1>2. /\ child' \in [Node -> [Name -> 0 .. MaxNode]]
      /\ child'[d][base(p)] = m
      /\ \A n \in Node, x \in Name : n # d \/ x # base(p) => child'[n][x] = child[n][x]
  <2>1. child' = [child EXCEPT ![d] = [child[d] EXCEPT ![base(p)] = m]]
    OBVIOUS
  <2> HIDE DEF d
  <2>2. /\ child \in [Node -> [Name -> 0 .. MaxNode]]
        /\ d \in Node /\ base(p) \in Name /\ m \in 0 .. MaxNode
    BY <1>0, <1>1
  <2>3. [child[d] EXCEPT ![base(p)] = m] \in [Name -> 0 .. MaxNode]
    BY <2>2
  <2>4. child'[d] = [child[d] EXCEPT ![base(p)] = m] /\ \A n \in Node : n # d => child'[n] = child[n]
    BY <2>1, <2>2
  <2>5. child' \in [Node -> [Name -> 0 .. MaxNode]]
    BY <2>1, <2>2, <2>3
  <2>6. child'[d][base(p)] = m /\ \A y \in Name : y # base(p) => child'[d][y] = child[d][y]
    BY <2>2, <2>4
  <2> QED BY <2>4, <2>5, <2>6
<1> HIDE DEF d
<1>3. ASSUME NEW r \in Path, Len(r) = 1
      PROVE  lookup(r)' = IF r = p THEN m ELSE lookup(r)
  <2>1. lookup(r) = child[1][r[1]] /\ lookup(r)' = child'[1][r[1]] /\ r[1] \in Name
    BY <1>3, PathShape DEF lookup, findChild
  <2>2. CASE r = p
    BY <2>1, <2>2, <1>1, <1>2, <1>3
  <2>3. CASE r # p
    <3>1. 1 # d \/ r[1] # base(p)
      BY <2>3, <1>1, <1>3, SamePath, PathShape
    <3> QED BY <3>1, <2>1, <2>3, <1>0, <1>2
  <2> QED BY <2>2, <2>3
<1>4. ASSUME NEW r \in Path, Len(r) = 2
      PROVE  /\ parentOf(r) \in Path /\ Len(parentOf(r)) = 1 /\ r[2] \in Name
             /\ lookup(r) = IF lookup(parentOf(r)) = 0 THEN 0
                            ELSE child[lookup(parentOf(r))][r[2]]
             /\ lookup(r)' = IF lookup(parentOf(r))' = 0 THEN 0
                             ELSE child'[lookup(parentOf(r))'][r[2]]
  <2>1. parentOf(r) \in Path /\ Len(parentOf(r)) = 1 /\ r[2] \in Name
    BY <1>4, PathShape
  <2>2. parentOf(r)[1] = r[1]
    BY <1>4, PathShape
  <2>3. lookup(parentOf(r))' = child'[1][r[1]]
    BY <2>1, <2>2 DEF lookup, findChild
  <2>4. lookup(r)' = IF child'[1][r[1]] = 0 THEN 0 ELSE child'[child'[1][r[1]]][r[2]]
    BY <1>4 DEF lookup, findChild
  <2> QED BY <2>1, <2>3, <2>4, <1>4, LookupForm
<1>5. lookup(p)' = m
  <2>1. CASE Len(p) = 1
    BY <1>3, <2>1
  <2>2. CASE Len(p) = 2
    <3>1. parentOf(p) # p
      BY <2>2, PathShape
    <3>2. lookup(parentOf(p))' = lookup(parentOf(p))
      BY <2>2, <3>1, <1>4, <1>3
    <3> QED BY <2>2, <3>2, <1>1, <1>2, <1>4 DEF d
  <2> QED BY <2>1, <2>2, PathShape
<1>6. ASSUME NEW r \in Path, r # p, parentOf(r) # p
      PROVE  lookup(r)' = lookup(r) /\ lookup(parentOf(r))' = lookup(parentOf(r))
  <2>1. CASE Len(r) = 1
    BY <2>1, <1>3, <1>6, PathShape
  <2>2. CASE Len(r) = 2
    <3>1. lookup(parentOf(r))' = lookup(parentOf(r))
      BY <2>2, <1>3, <1>4, <1>6
    <3>2. CASE lookup(parentOf(r)) = 0
      BY <2>2, <3>1, <3>2, <1>4
    <3>3. CASE lookup(parentOf(r)) # 0
      <4>1. lookup(parentOf(r)) \in Node /\ lookup(parentOf(r)) # 1
        BY <3>3, LookupType
      <4>2. lookup(parentOf(r)) # d \/ r[2] # base(p)
        <5>1. CASE Len(p) = 1
          BY <5>1, <4>1, <1>1
        <5>2. CASE Len(p) = 2
          <6> SUFFICES ASSUME lookup(parentOf(r)) = d, r[2] = p[2]
                       PROVE  FALSE
            BY <5>2, <1>1
          <6>1. parentOf(r) = parentOf(p)
            BY <5>2, <2>2, <1>4 DEF OnlyDirOf, d
          <6>2. r[1] = p[1]
            BY <6>1, SameDir
          <6> QED BY <6>2, <5>2, <2>2, <1>6, SamePath
        <5> QED BY <5>1, <5>2, PathShape
      <4>3. child'[lookup(parentOf(r))][r[2]] = child[lookup(parentOf(r))][r[2]]
        BY <4>1, <4>2, <1>2, <1>4, <2>2
      <4> QED BY <2>2, <3>1, <3>3, <4>3, <1>4
    <3> QED BY <3>2, <3>3
  <2> QED BY <2>1, <2>2, PathShape
<1>7. ASSUME NEW r \in Path, Len(r) = 2, parentOf(r) = p
      PROVE  lookup(r)' = IF m = 0 THEN 0 ELSE child[m][r[2]]
  <2>1. Len(p) = 1
    BY <1>7, <1>4
  <2>2. lookup(r)' = IF m = 0 THEN 0 ELSE child'[m][r[2]]
    BY <1>7, <1>4, <1>5
  <2>3. m # 0 => m \in Node
    BY <1>0 DEF Node
  <2>4. m # 0 => child'[m][r[2]] = child[m][r[2]]
    BY <2>1, <2>3, <1>1, <1>2, <1>4, <1>7
  <2> QED BY <2>2, <2>4
<1> QED BY <1>1, <1>2, <1>5, <1>6, <1>7 DEF d

-----------------------------------------------------------------------------
(* Between two entries: no entry waits for its directory. *)

\* As Settled, when no entry waits for its directory.
SettledAll ==
    \A p \in Path : p \notin Pending /\ parentOf(p) \notin Pending => Match(p)

Fits == fresh + Cardinality(Pending) + (MaxLayers - nlayers) * Room <= MaxNode + 1

CoreInv ==
    /\ TypeOK /\ QueueOK /\ NodesOK /\ Unshared
    /\ SettledAll /\ NothingHidden /\ Fits /\ FullLayer /\ NoLayer

\* An image has its directories.
LEMMA ImageShape ==
    ASSUME NEW im \in Images, NEW p \in Path
    PROVE  /\ im.at \in [Path -> {"none", "dir"} \cup Ino] /\ im.data \in [Ino -> Data]
           /\ Len(p) = 2 /\ im.at[p] # "none" => im.at[parentOf(p)] = "dir"
           /\ Len(p) = 2 => im.at[p] # "dir"
           /\ im.at[p] = "none" \/ im.at[p] = "dir" \/ im.at[p] \in Ino
           /\ "none" \notin Ino /\ "dir" \notin Ino
           /\ newKind(im, p) = "none" <=> im.at[p] = "none"
           /\ newKind(im, p) = "dir" <=> im.at[p] = "dir"
           /\ newKind(im, p) = "file" <=> im.at[p] \in Ino
<1>1. "none" \notin Ino /\ "dir" \notin Ino
  BY LayerAssumption
<1>2. /\ im.at \in [Path -> {"none", "dir"} \cup Ino] /\ im.data \in [Ino -> Data]
      /\ Len(p) > 1 /\ im.at[p] # "none" => im.at[parentOf(p)] = "dir"
      /\ Len(p) > 1 => im.at[p] # "dir"
  BY DEF Images
<1>3. im.at[p] = "none" \/ im.at[p] = "dir" \/ im.at[p] \in Ino
  BY <1>2
<1>4. /\ newKind(im, p) = "none" <=> im.at[p] = "none"
      /\ newKind(im, p) = "dir" <=> im.at[p] = "dir"
      /\ newKind(im, p) = "file" <=> im.at[p] \in Ino
  BY <1>1, <1>3 DEF newKind
<1>5. Len(p) = 2 => Len(p) > 1
  OBVIOUS
<1> QED BY <1>1, <1>2, <1>3, <1>4, <1>5

\* What Match says, for each of the things an image may have at p.
LEMMA MatchForm ==
    ASSUME TypeOK, NodesOK, NEW p \in Path
    PROVE  /\ image.at[p] = "none" => (Match(p) <=> seenAt(p) = 0)
           /\ image.at[p] = "dir" => (Match(p) <=> seenAt(p) # 0 /\ fkind[seenAt(p)] = "dir")
           /\ image.at[p] \in Ino =>
                 (Match(p) <=> /\ seenAt(p) # 0 /\ fkind[seenAt(p)] = "file"
                               /\ tarred(fdata[seenAt(p)]) = tarred(image.data[image.at[p]]))
<1>1. image \in Images
  BY DEF TypeOK
<1>2. seenAt(p) = 0 \/ seenAt(p) \in Node
  BY LookupForm, LookupType
<1>3. seenAt(p) # 0 => fkind[seenAt(p)] = "dir" \/ fkind[seenAt(p)] = "file"
  BY <1>2 DEF TypeOK
<1>4. /\ newKind(image, p) = "none" <=> image.at[p] = "none"
      /\ newKind(image, p) = "dir" <=> image.at[p] = "dir"
      /\ newKind(image, p) = "file" <=> image.at[p] \in Ino
  BY <1>1, ImageShape
<1>5. /\ oldKind(p) = "none" <=> seenAt(p) = 0
      /\ oldKind(p) = "dir" <=> seenAt(p) # 0 /\ fkind[seenAt(p)] = "dir"
      /\ oldKind(p) = "file" <=> seenAt(p) # 0 /\ fkind[seenAt(p)] = "file"
      /\ oldKind(p) = "none" \/ oldKind(p) = "dir" \/ oldKind(p) = "file"
  BY <1>3 DEF oldKind
<1>6. newKind(image, p) = "none" \/ newKind(image, p) = "dir" \/ newKind(image, p) = "file"
  BY <1>1, <1>4, ImageShape
<1>7. oldKind(p) = newKind(image, p) <=>
         \/ oldKind(p) = "none" /\ image.at[p] = "none"
         \/ oldKind(p) = "dir" /\ image.at[p] = "dir"
         \/ oldKind(p) = "file" /\ image.at[p] \in Ino
  BY <1>4, <1>5, <1>6
<1>8. "none" \notin Ino /\ "dir" \notin Ino
  BY LayerAssumption
<1> QED BY <1>5, <1>7, <1>8 DEF Match

\* The same two facts about every path, to be used of the next state too.
SeenForms ==
    \A p \in Path :
        seenAt(p) = IF Len(p) = 2 /\ (lookup(parentOf(p)) = 0 \/ fkind[lookup(parentOf(p))] # "dir")
                    THEN 0 ELSE lookup(p)

MatchForms ==
    \A p \in Path :
        /\ image.at[p] = "none" => (Match(p) <=> seenAt(p) = 0)
        /\ image.at[p] = "dir" => (Match(p) <=> seenAt(p) # 0 /\ fkind[seenAt(p)] = "dir")
        /\ image.at[p] \in Ino =>
              (Match(p) <=> /\ seenAt(p) # 0 /\ fkind[seenAt(p)] = "file"
                            /\ tarred(fdata[seenAt(p)]) = tarred(image.data[image.at[p]]))

\* What a walk sees, of every path.
LEMMA SeenFormsHold == SeenForms
BY LookupForm DEF SeenForms

\* What Match says, of every path.
LEMMA MatchFormsHold ==
    ASSUME TypeOK, NodesOK
    PROVE  MatchForms
BY MatchForm DEF MatchForms

\* The directory of an entry below a settled path is there.
LEMMA SettledDir ==
    ASSUME TypeOK, NodesOK, QueueOK, NEW e \in queue, Len(e.path) = 2,
           Match(parentOf(e.path))
    PROVE  dirPresent(e.path)
<1>1. EntryOK(e) /\ image \in Images
  BY DEF QueueOK, TypeOK
<1> DEFINE p == e.path
<1>2. p \in Path /\ parentOf(p) \in Path /\ Len(parentOf(p)) = 1
  BY <1>1, PathShape DEF EntryOK
<1>3. image.at[parentOf(p)] = "dir"
  <2>1. CASE e.type = "whiteout"
    BY <1>1, <2>1 DEF EntryOK
  <2>2. CASE e.type # "whiteout"
    <3>1. image.at[p] # "none"
      <4>1. "none" \notin Ino
        BY LayerAssumption
      <4> QED BY <1>1, <2>2, <4>1 DEF EntryOK
    <3> QED BY <1>1, <1>2, <3>1, ImageShape
  <2> QED BY <2>1, <2>2
<1>4. seenAt(parentOf(p)) # 0 /\ fkind[seenAt(parentOf(p))] = "dir"
  BY <1>2, <1>3, MatchForm
<1>5. seenAt(parentOf(p)) = lookup(parentOf(p))
  BY <1>2, LookupForm
<1> QED BY <1>4, <1>5 DEF dirPresent, ensureDir

\* Entries are for paths, and the root is a directory.
LEMMA RootPresent ==
    ASSUME NodesOK, NEW p \in Path, Len(p) = 1
    PROVE  dirPresent(p)
BY DEF dirPresent, ensureDir, NodesOK

\* When everything is settled no entry waits for its directory.
LEMMA QuietOut ==
    ASSUME CoreInv
    PROVE  LayersInv
<1>1. ASSUME NEW e \in queue, AwaitsDir(e)
      PROVE  FALSE
  <2>1. e.path \in Path
    BY DEF CoreInv, QueueOK, EntryOK
  <2>2. CASE Len(e.path) = 1
    BY <1>1, <2>1, <2>2, RootPresent DEF CoreInv, AwaitsDir
  <2>3. CASE Len(e.path) = 2
    <3>1. parentOf(e.path) \in Path /\ parentOf(parentOf(e.path)) = parentOf(e.path)
      BY <2>1, <2>3, PathShape
    <3>2. Match(parentOf(e.path))
      BY <1>1, <3>1 DEF AwaitsDir, CoreInv, SettledAll
    <3> QED BY <1>1, <2>3, <3>2, SettledDir DEF CoreInv, AwaitsDir
  <2> QED BY <2>1, <2>2, <2>3, PathShape
<1>2. AwaitsOK /\ NodesLeft
  BY <1>1 DEF AwaitsOK, NodesLeft, CoreInv, Fits
<1>3. Settled
  BY <1>1 DEF CoreInv, SettledAll, Settled
<1> QED BY <1>2, <1>3 DEF CoreInv, LayersInv

\* An entry that finds its directory waits for nothing, and nothing else does.
LEMMA QuietIn ==
    ASSUME LayersInv, \A e \in queue : isHead(e) => dirPresent(e.path)
    PROVE  CoreInv
<1>1. ASSUME NEW e \in queue, AwaitsDir(e)
      PROVE  FALSE
  <2>1. queue = {e}
    BY <1>1 DEF LayersInv, AwaitsOK
  <2>2. e.path \in Path
    BY DEF LayersInv, QueueOK, EntryOK
  <2>3. isHead(e)
    BY <2>1, <2>2, PosOrders DEF isHead
  <2> QED BY <1>1, <2>3 DEF AwaitsDir
<1>2. SettledAll
  BY <1>1 DEF LayersInv, Settled, SettledAll
<1>3. Fits
  BY DEF LayersInv, NodesLeft, Fits
<1> QED BY <1>2, <1>3 DEF CoreInv, LayersInv

\* The entry at the head: its directory is settled and only its own.
LEMMA HeadFacts ==
    ASSUME CoreInv, NEW e \in queue, isHead(e), dirPresent(e.path),
           queue' = queue \ {e}
    PROVE  /\ e.path \in Path /\ EntryOK(e)
           /\ Len(e.path) = 2 => parentOf(e.path) \notin Pending
           /\ e.path \in Pending /\ Pending' = Pending \ {e.path}
           /\ ensureDir(e.path) # 0 /\ fkind[ensureDir(e.path)] = "dir"
           /\ OnlyDirOf(e.path)
           /\ Len(e.path) = 2 => image.at[parentOf(e.path)] = "dir"
<1>1. e.path \in Path /\ EntryOK(e)
  BY DEF CoreInv, QueueOK, EntryOK
<1>2. Len(e.path) = 2 => parentOf(e.path) \notin Pending
  <2> SUFFICES ASSUME Len(e.path) = 2, NEW f \in queue, f.path = parentOf(e.path)
               PROVE  FALSE
    BY DEF Pending
  <2>1. pos(parentOf(e.path)) < pos(e.path) /\ parentOf(e.path) \in Path
    BY <1>1, PathShape
  <2>2. pos(e.path) <= pos(parentOf(e.path))
    BY DEF isHead
  <2>3. pos(e.path) \in Nat /\ pos(parentOf(e.path)) \in Nat
    BY <1>1, <2>1, PosOrders
  <2> QED BY <2>1, <2>2, <2>3
<1>3. e.path \in Pending /\ Pending' = Pending \ {e.path}
  <2>1. \A f \in queue : f.path = e.path => f = e
    BY DEF CoreInv, QueueOK
  <2>2. Pending' = {f.path : f \in queue \ {e}}
    BY DEF Pending
  <2> QED BY <2>1, <2>2 DEF Pending
<1>4. ensureDir(e.path) # 0 /\ fkind[ensureDir(e.path)] = "dir"
  BY DEF dirPresent
<1>5. Len(e.path) = 2 => image.at[parentOf(e.path)] = "dir"
  <2> SUFFICES ASSUME Len(e.path) = 2
               PROVE  image.at[parentOf(e.path)] = "dir"
    OBVIOUS
  <2>1. CASE e.type = "whiteout"
    BY <1>1, <2>1 DEF EntryOK
  <2>2. CASE e.type # "whiteout"
    <3>1. image.at[e.path] # "none"
      <4>1. "none" \notin Ino
        BY LayerAssumption
      <4> QED BY <1>1, <2>2, <4>1 DEF EntryOK
    <3>2. image \in Images
      BY DEF CoreInv, TypeOK
    <3> QED BY <1>1, <3>1, <3>2, ImageShape
  <2> QED BY <2>1, <2>2
<1>6. OnlyDirOf(e.path)
  <2> SUFFICES ASSUME Len(e.path) = 2, NEW r \in Path, lookup(r) = lookup(parentOf(e.path))
               PROVE  r = parentOf(e.path)
    BY DEF OnlyDirOf, ensureDir
  <2>1. parentOf(e.path) \in Path
    BY <1>1, PathShape
  <2>2. lookup(parentOf(e.path)) # 0
    BY <1>4 DEF ensureDir
  <2>3. "dir" \notin Ino
    BY LayerAssumption
  <2> QED BY <1>5, <2>1, <2>2, <2>3 DEF CoreInv, Unshared
<1> QED BY <1>1, <1>2, <1>3, <1>4, <1>5, <1>6

-----------------------------------------------------------------------------
(* Applying one entry. *)

\* A path keeps what it has when its node and its directory's are left alone.
LEMMA MatchKept ==
    ASSUME TypeOK, NodesOK, NEW r \in Path, Match(r), image' = image,
           lookup(r)' = lookup(r), lookup(parentOf(r))' = lookup(parentOf(r)),
           lookup(r) # 0 => /\ fkind'[lookup(r)] = fkind[lookup(r)]
                            /\ fdata'[lookup(r)] = fdata[lookup(r)],
           lookup(parentOf(r)) # 0 =>
               fkind'[lookup(parentOf(r))] = fkind[lookup(parentOf(r))]
    PROVE  Match(r)'
<1>1. seenAt(r)' = seenAt(r) /\ (seenAt(r) # 0 => seenAt(r) = lookup(r))
  <2>1. seenAt(r) = IF Len(r) = 2 /\ (lookup(parentOf(r)) = 0 \/ fkind[lookup(parentOf(r))] # "dir")
                    THEN 0 ELSE lookup(r)
    BY LookupForm
  <2>2. seenAt(r)' = IF Len(r) = 2 /\ (lookup(parentOf(r))' = 0 \/ fkind'[lookup(parentOf(r))'] # "dir")
                     THEN 0 ELSE lookup(r)'
    <3>1. SeenForms'
      BY SeenFormsHold, PTL
    <3> QED BY <3>1 DEF SeenForms
  <2> QED BY <2>1, <2>2
<1>2. oldKind(r)' = oldKind(r)
  BY <1>1 DEF oldKind
<1>3. seenAt(r) # 0 => fdata'[seenAt(r)'] = fdata[seenAt(r)]
  BY <1>1
<1>4. oldKind(r) = "file" => seenAt(r) # 0
  BY DEF oldKind
<1>5. Match(r)' <=> /\ oldKind(r)' = newKind(image', r)
                    /\ oldKind(r)' = "file" =>
                          tarred(fdata'[seenAt(r)']) = tarred(image'.data[image'.at[r]])
  BY DEF Match, newKind
<1> QED BY <1>2, <1>3, <1>4, <1>5 DEF Match

\* What the four kinds of entries have in common: the entry e puts node m at its
\* path, no other path sees the difference, and what is under a directory stays.
Puts(e, m) ==
    /\ queue' = queue \ {e}
    /\ image' = image /\ nlayers' = nlayers
    /\ child' = [child EXCEPT ![ensureDir(e.path)][base(e.path)] = m]
    /\ fkind' \in [Node -> {"dir", "file"}]
    /\ fdata' \in [Node -> Data]
    /\ fnlink' \in [Node -> Nat]
    /\ fresh' \in fresh .. MaxNode + 1 /\ m < fresh' /\ m # 1
    /\ \A n \in Node : n # m => fkind'[n] = fkind[n] /\ fdata'[n] = fdata[n]
    /\ \A r \in Path : r # e.path /\ lookup(r) = m /\ m # 0 =>
          fkind'[m] = fkind[m] /\ fdata'[m] = fdata[m]
    /\ image.at[e.path] = "none" => m = 0
    /\ image.at[e.path] = "dir" =>
          m # 0 /\ fkind'[m] = "dir" /\ e.type # "link"
    /\ e.type # "link" /\ m # 0 =>
          \A r \in Path : Len(r) = 2 /\ parentOf(r) = e.path => child[m][r[2]] = lookup(r)
    /\ image.at[e.path] \in Ino =>
          /\ m # 0 /\ fkind'[m] = "file"
          /\ tarred(fdata'[m]) = tarred(image.data[image.at[e.path]])

\* The state keeps its types.
LEMMA PutsTypes ==
    ASSUME CoreInv, NEW e \in queue, isHead(e), dirPresent(e.path),
           NEW m \in 0 .. MaxNode, Puts(e, m)
    PROVE  /\ TypeOK' /\ QueueOK' /\ NodesOK'
           /\ lookup(e.path)' = m
           /\ \A r \in Path : r # e.path /\ parentOf(r) # e.path =>
                 lookup(r)' = lookup(r) /\ lookup(parentOf(r))' = lookup(parentOf(r))
           /\ \A r \in Path : Len(r) = 2 /\ parentOf(r) = e.path =>
                 lookup(r)' = IF m = 0 THEN 0 ELSE child[m][r[2]]
<1> DEFINE p == e.path
<1>1. /\ p \in Path /\ ensureDir(p) # 0 /\ OnlyDirOf(p)
      /\ fkind[ensureDir(p)] = "dir"
  BY HeadFacts DEF Puts
<1>2. /\ TypeOK /\ NodesOK /\ QueueOK
      /\ m # 1 /\ child' = [child EXCEPT ![ensureDir(p)][base(p)] = m]
  BY DEF CoreInv, Puts
<1>3. /\ lookup(p)' = m
      /\ \A r \in Path : r # p /\ parentOf(r) # p =>
            lookup(r)' = lookup(r) /\ lookup(parentOf(r))' = lookup(parentOf(r))
      /\ \A r \in Path : Len(r) = 2 /\ parentOf(r) = p =>
            lookup(r)' = IF m = 0 THEN 0 ELSE child[m][r[2]]
      /\ child' \in [Node -> [Name -> 0 .. MaxNode]]
      /\ ensureDir(p) \in Node /\ base(p) \in Name
      /\ ensureDir(p) < fresh
  BY <1>1, <1>2, TreePut
<1>4. TypeOK'
  BY <1>2, <1>3 DEF TypeOK, Puts
<1>5. QueueOK'
  <2>1. ASSUME NEW f \in queue'
        PROVE  EntryOK(f)'
    <3>1. EntryOK(f)
      BY <1>2 DEF QueueOK, Puts
    <3> QED BY <3>1 DEF EntryOK, Puts
  <2>2. \A f, g \in queue' : f.path = g.path => f = g
    BY <1>2 DEF QueueOK, Puts
  <2> QED BY <2>1, <2>2 DEF QueueOK
<1>6. NodesOK'
  <2>0. fresh \in Nat /\ fresh' \in Nat /\ fresh <= fresh' /\ 1 \in Node /\ m \in Nat
    BY <1>1, <1>2, <1>4, LookupType DEF Puts, TypeOK
  <2>1. fkind'[1] = "dir"
    BY <1>2, <2>0 DEF Puts, NodesOK
  <2>2. ASSUME NEW n \in Node, NEW x \in Name
        PROVE  /\ child'[n][x] = 0 \/ child'[n][x] \in 2 .. fresh' - 1
               /\ n >= fresh' => child'[n][x] = 0
    <3>1. CASE n = ensureDir(p) /\ x = base(p)
      <4>1. child'[n][x] = m
        BY <1>2, <1>3, <3>1 DEF TypeOK
      <4>2. n < fresh'
        BY <1>3, <2>0, <3>1 DEF Node
      <4>3. m = 0 \/ m \in 2 .. fresh' - 1
        BY <1>2, <2>0 DEF Puts
      <4>4. n \in Int
        BY DEF Node
      <4> QED BY <4>1, <4>2, <4>3, <4>4, <2>0
    <3>2. CASE ~(n = ensureDir(p) /\ x = base(p))
      <4>1. child'[n][x] = child[n][x]
        BY <1>2, <1>3, <3>2 DEF TypeOK
      <4>2. n \in Int
        BY DEF Node
      <4> QED BY <4>1, <4>2, <1>2, <2>0 DEF NodesOK
    <3> QED BY <3>1, <3>2
  <2> QED BY <2>1, <2>2 DEF NodesOK
<1> QED BY <1>3, <1>4, <1>5, <1>6

\* The entry settles its path and unsettles no other.
LEMMA PutsSettles ==
    ASSUME CoreInv, NEW e \in queue, isHead(e), dirPresent(e.path),
           NEW m \in 0 .. MaxNode, Puts(e, m)
    PROVE  SettledAll' /\ NothingHidden'
<1> DEFINE p == e.path
<1>1. /\ p \in Path /\ p \in Pending /\ Pending' = Pending \ {p}
      /\ Len(p) = 2 => parentOf(p) \notin Pending
      /\ ensureDir(p) # 0 /\ fkind[ensureDir(p)] = "dir"
  BY HeadFacts DEF Puts
<1>2. /\ TypeOK' /\ NodesOK' /\ lookup(p)' = m
      /\ \A r \in Path : r # p /\ parentOf(r) # p =>
            lookup(r)' = lookup(r) /\ lookup(parentOf(r))' = lookup(parentOf(r))
      /\ \A r \in Path : Len(r) = 2 /\ parentOf(r) = p =>
            lookup(r)' = IF m = 0 THEN 0 ELSE child[m][r[2]]
  BY PutsTypes
<1>3. TypeOK /\ NodesOK /\ image' = image /\ image \in Images
  BY DEF CoreInv, Puts, TypeOK
<1>4. ASSUME NEW r \in Path, r # p, lookup(r) # 0
      PROVE  fkind'[lookup(r)] = fkind[lookup(r)] /\ fdata'[lookup(r)] = fdata[lookup(r)]
  <2>1. lookup(r) \in Node
    BY <1>3, <1>4, LookupType
  <2> QED BY <1>4, <2>1 DEF Puts
<1>5. ASSUME NEW r \in Path
      PROVE  seenAt(r)' = IF Len(r) = 2 /\ (lookup(parentOf(r))' = 0 \/ fkind'[lookup(parentOf(r))'] # "dir")
                          THEN 0 ELSE lookup(r)'
  <2>1. SeenForms'
    BY SeenFormsHold, PTL
  <2> QED BY <2>1 DEF SeenForms
<1>6. ASSUME NEW r \in Path
      PROVE  /\ image.at[r] = "none" => (Match(r)' <=> seenAt(r)' = 0)
             /\ image.at[r] = "dir" => (Match(r)' <=> seenAt(r)' # 0 /\ fkind'[seenAt(r)'] = "dir")
             /\ image.at[r] \in Ino =>
                 (Match(r)' <=> /\ seenAt(r)' # 0 /\ fkind'[seenAt(r)'] = "file"
                                /\ tarred(fdata'[seenAt(r)']) = tarred(image.data[image.at[r]]))
  <2>1. /\ image'.at[r] = "none" => (Match(r)' <=> seenAt(r)' = 0)
        /\ image'.at[r] = "dir" => (Match(r)' <=> seenAt(r)' # 0 /\ fkind'[seenAt(r)'] = "dir")
        /\ image'.at[r] \in Ino =>
            (Match(r)' <=> /\ seenAt(r)' # 0 /\ fkind'[seenAt(r)'] = "file"
                           /\ tarred(fdata'[seenAt(r)']) = tarred(image'.data[image'.at[r]]))
    <3>1. MatchForms'
      BY <1>2, MatchFormsHold, PTL
    <3> QED BY <3>1 DEF MatchForms
  <2> QED BY <2>1, <1>3
<1>7. image.at[p] = "none" \/ image.at[p] = "dir" \/ image.at[p] \in Ino
  BY <1>1, <1>3, ImageShape
<1>8. Match(p)'
  <2>1. seenAt(p)' = m
    <3>1. CASE Len(p) = 1
      BY <1>1, <1>2, <1>5, <3>1
    <3>2. CASE Len(p) = 2
      <4>1. /\ parentOf(p) \in Path /\ parentOf(p) # p /\ ensureDir(p) = lookup(parentOf(p))
            /\ parentOf(parentOf(p)) # p
        BY <1>1, <3>2, PathShape DEF ensureDir
      <4>2. lookup(parentOf(p))' = lookup(parentOf(p))
        BY <1>2, <4>1
      <4>3. fkind'[lookup(parentOf(p))] = "dir"
        BY <1>1, <1>4, <4>1
      <4> QED BY <1>1, <1>2, <1>5, <4>1, <4>2, <4>3
    <3> QED BY <1>1, <3>1, <3>2, PathShape
  <2> QED BY <1>1, <1>6, <1>7, <2>1 DEF Puts
<1>9. SettledAll'
  <2> SUFFICES ASSUME NEW r \in Path, r \notin Pending', parentOf(r) \notin Pending'
               PROVE  Match(r)'
    BY DEF SettledAll
  <2>1. CASE r = p
    BY <1>8, <2>1
  <2>2. CASE r # p /\ parentOf(r) = p
    <3>1. Len(r) = 2
      BY <2>2, PathShape
    <3>2. CASE image.at[p] = "dir"
      <4>1. image.at[r] = "none" /\ lookup(r) = 0
        BY <1>1, <2>2, <3>1, <3>2 DEF CoreInv, NothingHidden
      <4>2. lookup(r)' = 0
        BY <1>2, <2>2, <3>1, <3>2, <4>1 DEF Puts
      <4> QED BY <1>5, <1>6, <4>1, <4>2
    <3>3. CASE image.at[p] # "dir"
      <4>1. image.at[r] = "none"
        BY <1>3, <2>2, <3>1, <3>3, ImageShape
      <4>2. m = 0 \/ fkind'[m] # "dir"
        BY <1>7, <3>3 DEF Puts
      <4>3. seenAt(r)' = 0
        BY <1>2, <1>5, <2>2, <3>1, <4>2
      <4> QED BY <1>6, <4>1, <4>3
    <3> QED BY <3>2, <3>3
  <2>3. CASE r # p /\ parentOf(r) # p
    <3>1. r \notin Pending /\ parentOf(r) \notin Pending
      BY <1>1, <2>3
    <3>2. Match(r)
      BY <3>1 DEF CoreInv, SettledAll
    <3>3. parentOf(r) \in Path
      BY PathShape
    <3>4. lookup(r)' = lookup(r) /\ lookup(parentOf(r))' = lookup(parentOf(r))
      BY <1>2, <2>3
    <3>5. lookup(r) # 0 => fkind'[lookup(r)] = fkind[lookup(r)] /\ fdata'[lookup(r)] = fdata[lookup(r)]
      BY <1>4, <2>3
    <3>6. lookup(parentOf(r)) # 0 => fkind'[lookup(parentOf(r))] = fkind[lookup(parentOf(r))]
      BY <1>4, <2>3, <3>3
    <3> QED BY <1>3, <3>2, <3>4, <3>5, <3>6, MatchKept
  <2> QED BY <2>1, <2>2, <2>3
<1>10. NothingHidden'
  <2> SUFFICES ASSUME NEW r \in Path, Len(r) = 2, r \notin Pending',
                      parentOf(r) \in Pending', image.at[parentOf(r)] = "dir"
               PROVE  image.at[r] = "none" /\ lookup(r)' = 0
    BY <1>3 DEF NothingHidden
  <2>1. r # p /\ parentOf(r) # p
    BY <1>1
  <2>2. image.at[r] = "none" /\ lookup(r) = 0
    BY <1>1, <2>1 DEF CoreInv, NothingHidden
  <2> QED BY <1>2, <2>1, <2>2
<1> QED BY <1>9, <1>10

\* There are no more paths than places in the walk.
LEMMA PathsFinite ==
    /\ IsFiniteSet(Path) /\ Cardinality(Path) <= Len(PathSeq)
    /\ Len(PathSeq) \in Nat /\ Cardinality(Path) \in Nat
<1>1. Len(PathSeq) \in Nat
  BY LayerAssumption
<1>2. IsFiniteSet(1 .. Len(PathSeq)) /\ Cardinality(1 .. Len(PathSeq)) = Len(PathSeq)
  <2>1. PICK a \in Int, b \in Int : a = 1 /\ b = Len(PathSeq)
    BY <1>1
  <2>2. IsFiniteSet(a .. b) /\ Cardinality(a .. b) = IF a > b THEN 0 ELSE b - a + 1
    BY FS_Interval
  <2>3. (IF a > b THEN 0 ELSE b - a + 1) = b
    BY <1>1, <2>1
  <2> QED BY <2>1, <2>2, <2>3
<1> DEFINE f == [i \in 1 .. Len(PathSeq) |-> PathSeq[i]]
<1>3. f \in Surjection(1 .. Len(PathSeq), Path)
  <2>1. \A i \in 1 .. Len(PathSeq) : PathSeq[i] \in Path
    BY LayerAssumption
  <2>2. \A p \in Path : \E i \in 1 .. Len(PathSeq) : f[i] = p
    BY LayerAssumption
  <2> QED BY <2>1, <2>2 DEF Surjection
<1>4. IsFiniteSet(Path) /\ Cardinality(Path) <= Cardinality(1 .. Len(PathSeq))
  BY <1>2, <1>3, FS_Surjection
<1> QED BY <1>1, <1>2, <1>4, FS_CardinalityType

\* The entry applied leaves one path less to settle and needed one node at most.
LEMMA PendingCounts ==
    ASSUME TypeOK, QueueOK
    PROVE  /\ Pending \subseteq Path /\ IsFiniteSet(Pending)
           /\ Cardinality(Pending) \in Nat
           /\ (MaxLayers - nlayers) * Room \in Nat
           /\ \A p \in Pending : Cardinality(Pending \ {p}) = Cardinality(Pending) - 1
<1>1. Pending \subseteq Path
  BY DEF Pending, QueueOK, EntryOK
<1>2. IsFiniteSet(Pending) /\ Cardinality(Pending) \in Nat
  BY <1>1, PathsFinite, FS_Subset, FS_CardinalityType
<1>3. (MaxLayers - nlayers) * Room \in Nat
  <2>1. MaxLayers - nlayers \in Nat /\ Room \in Nat
    BY PathsFinite, LayerAssumption DEF TypeOK, Room
  <2> HIDE DEF Room
  <2>2. \A a, b \in Nat : a * b \in Nat
    OBVIOUS
  <2> QED BY <2>1, <2>2
<1> QED BY <1>1, <1>2, <1>3, FS_RemoveElement

\* Room for the node an entry may need.
LEMMA FreshLeft ==
    ASSUME CoreInv, NEW e \in queue
    PROVE  fresh \in Node /\ fresh \in Nat /\ fresh + 1 <= MaxNode + 1 /\ fresh >= 2
<1>1. e.path \in Pending
  BY DEF Pending
<1>2. Cardinality(Pending \ {e.path}) \in Nat /\ Cardinality(Pending \ {e.path}) = Cardinality(Pending) - 1
  <2>1. IsFiniteSet(Pending \ {e.path})
    BY PendingCounts, FS_RemoveElement DEF CoreInv
  <2> QED BY <1>1, <2>1, PendingCounts, FS_CardinalityType DEF CoreInv
<1>3. Cardinality(Pending) \in Nat /\ (MaxLayers - nlayers) * Room \in Nat
  BY PendingCounts DEF CoreInv
<1>4. fresh \in Nat /\ MaxNode \in Nat /\ fresh >= 2
  <2>1. e.path \in Path
    BY DEF CoreInv, QueueOK, EntryOK
  <2> QED BY <2>1, LookupType DEF CoreInv, TypeOK
<1>5. fresh + Cardinality(Pending) + (MaxLayers - nlayers) * Room <= MaxNode + 1
  BY DEF CoreInv, Fits
<1>6. fresh + 1 <= MaxNode + 1
  BY <1>2, <1>3, <1>4, <1>5
<1> QED BY <1>4, <1>6 DEF Node

\* The nodes left are still enough.
LEMMA FitsKept ==
    ASSUME CoreInv, NEW e \in queue, isHead(e), dirPresent(e.path),
           queue' = queue \ {e}, nlayers' = nlayers, fresh' = fresh \/ fresh' = fresh + 1
    PROVE  Fits'
<1>1. e.path \in Pending /\ Pending' = Pending \ {e.path}
  BY HeadFacts
<1>2. Cardinality(Pending') = Cardinality(Pending) - 1
  BY <1>1, PendingCounts DEF CoreInv
<1>3. Cardinality(Pending) \in Nat /\ (MaxLayers - nlayers) * Room \in Nat
  BY PendingCounts DEF CoreInv
<1>4. fresh \in Nat /\ MaxNode \in Nat
  BY <1>1, LookupType, HeadFacts DEF CoreInv
<1>5. fresh + Cardinality(Pending) + (MaxLayers - nlayers) * Room <= MaxNode + 1
  BY DEF CoreInv, Fits
<1>6. Fits' <=> fresh' + Cardinality(Pending') + (MaxLayers - nlayers) * Room <= MaxNode + 1
  BY DEF Fits, MaxNode, Room
<1> HIDE DEF Room
<1> QED BY <1>2, <1>3, <1>4, <1>5, <1>6

\* A whiteout makes its path and what is under it disappear.
LEMMA WhiteoutStep ==
    ASSUME CoreInv, NEW e \in queue, isHead(e), dirPresent(e.path),
           applyWhiteout(e), queue' = queue \ {e}, image' = image, nlayers' = nlayers
    PROVE  CoreInv' /\ \E m \in 0 .. MaxNode : Puts(e, m)
<1> DEFINE p == e.path
<1>1. p \in Path /\ EntryOK(e)
  BY HeadFacts
<1>2. image.at[p] = "none" /\ nlayers > 1
  BY <1>1 DEF EntryOK, applyWhiteout
<1>3. 0 \in 0 .. MaxNode /\ fresh \in Nat /\ fresh >= 2 /\ fresh <= MaxNode + 1
  BY <1>1, LookupType DEF CoreInv, TypeOK
<1>4. Puts(e, 0)
  <2>1. "none" \notin Ino
    BY LayerAssumption
  <2> QED BY <1>2, <1>3, <2>1 DEF Puts, applyWhiteout, CoreInv, TypeOK
<1>5. /\ TypeOK' /\ QueueOK' /\ NodesOK' /\ SettledAll' /\ NothingHidden'
      /\ lookup(p)' = 0
      /\ \A r \in Path : r # p /\ parentOf(r) # p => lookup(r)' = lookup(r)
      /\ \A r \in Path : Len(r) = 2 /\ parentOf(r) = p => lookup(r)' = 0
  BY <1>3, <1>4, PutsTypes, PutsSettles
<1>6. Unshared'
  <2>1. \A r \in Path : lookup(r)' # 0 => lookup(r)' = lookup(r)
    BY <1>5, PathShape
  <2> QED BY <2>1 DEF Unshared, CoreInv
<1>7. Fits'
  BY FitsKept DEF applyWhiteout
<1>8. FullLayer' /\ NoLayer'
  BY <1>2, <1>3 DEF FullLayer, NoLayer, CoreInv, TypeOK
<1> QED BY <1>3, <1>4, <1>5, <1>6, <1>7, <1>8 DEF CoreInv

\* Nothing applied so far shares its inode with the first entry of an inode.
LEMMA FirstOfInode ==
    ASSUME CoreInv, nlayers = 1, NEW e \in queue, e.type = "reg" \/ e.type = "dir",
           NEW q \in Path, q \notin Pending, image.at[q] \in Ino
    PROVE  image.at[q] # image.at[e.path]
<1>0. "none" \notin Ino /\ "dir" \notin Ino
  BY LayerAssumption
<1>1. EntryOK(e) /\ e.path \in Path
  BY DEF CoreInv, QueueOK, EntryOK
<1>2. pos(q) < pos(e.path)
  BY <1>0 DEF CoreInv, FullLayer
<1>3. pos(q) \in Nat /\ pos(e.path) \in Nat
  BY <1>1, PosOrders
<1>4. CASE e.type = "dir"
  BY <1>0, <1>1, <1>4 DEF EntryOK
<1>5. CASE e.type = "reg"
  <2>1. image.at[q] = image.at[e.path] => pos(e.path) <= pos(q)
    BY <1>5 DEF CoreInv, FullLayer
  <2> QED BY <1>2, <1>3, <2>1
<1> QED BY <1>4, <1>5

\* The applied entry comes before those left.
LEMMA HeadBefore ==
    ASSUME CoreInv, nlayers = 1, NEW e \in queue, isHead(e), dirPresent(e.path),
           queue' = queue \ {e}, NEW r \in Path, r \notin Pending', image.at[r] # "none",
           NEW f \in queue'
    PROVE  pos(r) < pos(f.path)
<1>1. e.path \in Path /\ Pending' = Pending \ {e.path}
  BY HeadFacts
<1>2. f \in queue /\ f # e /\ f.path \in Path
  BY DEF CoreInv, QueueOK, EntryOK
<1>3. CASE r = e.path
  <2>1. pos(e.path) <= pos(f.path)
    BY <1>2 DEF isHead
  <2>2. f.path # e.path
    BY <1>2 DEF CoreInv, QueueOK
  <2> QED BY <1>1, <1>2, <1>3, <2>1, <2>2, PosOrders
<1>4. CASE r # e.path
  BY <1>1, <1>2, <1>4 DEF CoreInv, FullLayer
<1> QED BY <1>3, <1>4

\* A directory or a regular file overwrites the node at its path, or gets a new
\* one; no other path has that node.
LEMMA UpsertStep ==
    ASSUME CoreInv, NEW e \in queue, isHead(e), dirPresent(e.path),
           applyDir(e) \/ applyReg(e),
           queue' = queue \ {e}, image' = image, nlayers' = nlayers
    PROVE  CoreInv' /\ \E m \in 0 .. MaxNode : Puts(e, m)
<1> DEFINE p == e.path
           old == lookup(p)
           node == IF old = 0 THEN fresh ELSE old
<1>0. "none" \notin Ino /\ "dir" \notin Ino
  BY LayerAssumption
<1>1. /\ p \in Path /\ EntryOK(e) /\ p \in Pending /\ Pending' = Pending \ {p}
      /\ Len(p) = 2 => parentOf(p) \notin Pending
      /\ ensureDir(p) # 0 /\ OnlyDirOf(p) /\ fkind[ensureDir(p)] = "dir"
  BY HeadFacts
<1>2. TypeOK /\ NodesOK
  BY DEF CoreInv
<1>3. /\ old = 0 \/ (old \in Node /\ old \in 2 .. fresh - 1)
      /\ fresh \in Node /\ fresh \in Nat /\ fresh + 1 <= MaxNode + 1 /\ fresh >= 2
      /\ MaxNode \in Nat
  BY <1>1, <1>2, LookupType, FreshLeft
<1>4. findChild(ensureDir(p), base(p)) = old
  <2>1. CASE Len(p) = 1
    BY <1>1, <2>1, PathShape, LookupForm DEF findChild, ensureDir
  <2>2. CASE Len(p) = 2
    BY <1>1, <2>2, PathShape, LookupForm DEF findChild, ensureDir
  <2> QED BY <1>1, <2>1, <2>2, PathShape
<1>5. node \in Node /\ node \in 0 .. MaxNode /\ node # 1 /\ node # 0
  BY <1>3
<1>6. PICK k, d :
         /\ upsert(p, k, d)
         /\ \/ k = "dir" /\ d = Plain /\ e.type = "dir"
            \/ k = "file" /\ d = e.data /\ e.type = "reg"
  BY DEF applyDir, applyReg
<1>7. /\ child' = [child EXCEPT ![ensureDir(p)][base(p)] = node]
      /\ fresh' = IF old = 0 THEN fresh + 1 ELSE fresh
      /\ fkind' = [fkind EXCEPT ![node] = k]
      /\ fdata' = [fdata EXCEPT ![node] = d]
      /\ fnlink' = [fnlink EXCEPT ![node] =
             IF k # "dir" THEN 1 ELSE IF old = 0 \/ fnlink[node] < 2 THEN 2 ELSE fnlink[node]]
  BY <1>4, <1>6 DEF upsert
<1> HIDE DEF node
<1>8. /\ k \in {"dir", "file"} /\ d \in Data
      /\ k = "dir" => image.at[p] = "dir"
      /\ k = "file" => /\ image.at[p] \in Ino
                       /\ tarred(d) = tarred(image.data[image.at[p]])
  BY <1>1, <1>6, LayerAssumption DEF EntryOK
<1>9. nlayers = 1 => old = 0 /\ node = fresh
  BY <1>1 DEF CoreInv, FullLayer, node
<1>10. /\ fkind \in [Node -> {"dir", "file"}] /\ fdata \in [Node -> Data]
       /\ fnlink \in [Node -> Nat]
  BY <1>2 DEF TypeOK
<1>11. /\ fkind' \in [Node -> {"dir", "file"}] /\ fdata' \in [Node -> Data]
       /\ fkind'[node] = k /\ fdata'[node] = d
       /\ \A n \in Node : n # node => fkind'[n] = fkind[n] /\ fdata'[n] = fdata[n]
  BY <1>5, <1>7, <1>8, <1>10
<1>12. fnlink' \in [Node -> Nat] /\ (k = "file" => fnlink'[node] = 1)
       /\ \A n \in Node : n # node => fnlink'[n] = fnlink[n]
  <2>1. fnlink[node] \in Nat
    BY <1>5, <1>10
  <2> QED BY <1>5, <1>7, <1>8, <1>10, <2>1
<1>13. ASSUME NEW r \in Path, Len(r) = 2, parentOf(r) = p
       PROVE  child[node][r[2]] = lookup(r)
  <2>1. lookup(r) = IF old = 0 THEN 0 ELSE child[old][r[2]]
    BY <1>13, LookupForm
  <2>2. r[2] \in Name
    BY <1>13, PathShape
  <2>3. child[fresh][r[2]] = 0
    BY <1>2, <1>3, <2>2 DEF NodesOK
  <2> QED BY <2>1, <2>3 DEF node
<1>14. ASSUME NEW r \in Path, r # p
       PROVE  lookup(r) # node
  <2>1. lookup(r) # fresh
    BY <1>2, <1>3, LookupType
  <2>2. CASE old = 0
    BY <2>1, <2>2 DEF node
  <2>3. CASE old # 0
    <3>1. nlayers # 1
      BY <1>9, <2>3
    <3>2. lookup(r) # old
      BY <1>1, <1>14, <2>3, <3>1 DEF CoreInv, Unshared
    <3> QED BY <3>2, <2>3 DEF node
  <2> QED BY <2>2, <2>3
<1>15. fresh' \in fresh .. MaxNode + 1 /\ node < fresh'
  BY <1>3, <1>7 DEF node
<1>16. Puts(e, node)
  <2>1. image.at[p] # "none"
    BY <1>0, <1>8
  <2>2. image.at[p] = "dir" => k = "dir"
    BY <1>0, <1>8
  <2>3. image.at[p] \in Ino => k = "file"
    BY <1>0, <1>8
  <2>4. e.type # "link"
    BY <1>6
  <2> QED BY <1>5, <1>7, <1>8, <1>11, <1>12, <1>13, <1>14, <1>15, <2>1, <2>2, <2>3, <2>4 DEF Puts
<1>17. /\ TypeOK' /\ QueueOK' /\ NodesOK' /\ SettledAll' /\ NothingHidden'
       /\ lookup(p)' = node
       /\ \A r \in Path : r # p /\ parentOf(r) # p => lookup(r)' = lookup(r)
       /\ \A r \in Path : Len(r) = 2 /\ parentOf(r) = p => lookup(r)' = IF node = 0 THEN 0 ELSE child[node][r[2]]
  BY <1>5, <1>16, PutsTypes, PutsSettles
<1>18. \A r \in Path : r # p => lookup(r)' = lookup(r)
  <2> SUFFICES ASSUME NEW r \in Path, r # p
               PROVE  lookup(r)' = lookup(r)
    OBVIOUS
  <2>1. CASE parentOf(r) # p
    BY <1>17, <2>1
  <2>2. CASE parentOf(r) = p
    <3>1. Len(r) = 2
      BY <2>2, PathShape
    <3> QED BY <1>5, <1>13, <1>17, <2>2, <3>1
  <2> QED BY <2>1, <2>2
<1>19. Unshared'
  BY <1>14, <1>17, <1>18 DEF Unshared, CoreInv
<1>20. Fits'
  BY <1>7, FitsKept
<1>21. NoLayer'
  BY DEF NoLayer, CoreInv
<1>22. ASSUME nlayers = 1
       PROVE  FullLayer'
  <2>1. \A r \in Path : r \in Pending' \/ image.at[r] = "none" => lookup(r)' = 0
    BY <1>0, <1>1, <1>8, <1>18, <1>22 DEF CoreInv, FullLayer
  <2>2. \A r \in Path, f \in queue' :
           r \notin Pending' /\ image.at[r] # "none" => pos(r) < pos(f.path)
    BY <1>22, HeadBefore
  <2>3. \A f \in queue' : f.type = "reg" =>
           \A r \in Path : image.at[r] = image.at[f.path] => pos(f.path) <= pos(r)
    BY <1>22 DEF CoreInv, FullLayer
  <2>4. \A q \in Path : q \notin Pending /\ image.at[q] \in Ino => image.at[q] # image.at[p]
    BY <1>6, <1>22, FirstOfInode
  <2>5. \A q, r \in Path \ Pending' : image.at[q] \in Ino /\ image.at[r] = image.at[q] =>
           lookup(q)' = lookup(r)'
    <3> SUFFICES ASSUME NEW q \in Path \ Pending', NEW r \in Path \ Pending',
                        image.at[q] \in Ino, image.at[r] = image.at[q]
                 PROVE  lookup(q)' = lookup(r)'
      OBVIOUS
    <3>1. CASE q = p \/ r = p
      BY <1>1, <2>4, <3>1
    <3>2. CASE q # p /\ r # p
      <4>1. q \notin Pending /\ r \notin Pending
        BY <1>1, <3>2
      <4> QED BY <1>18, <1>22, <3>2, <4>1 DEF CoreInv, FullLayer
    <3> QED BY <3>1, <3>2
  <2>6. ASSUME NEW q \in Path \ Pending', image.at[q] \in Ino
        PROVE  /\ lookup(q)' # 0
               /\ fnlink'[lookup(q)'] = Cardinality({r \in Path \ Pending' : image.at[r] = image.at[q]})
    <3>1. CASE q = p
      <4>1. {r \in Path \ Pending' : image.at[r] = image.at[q]} = {p}
        BY <1>1, <2>4, <2>6, <3>1
      <4>2. k = "file"
        BY <1>0, <1>8, <2>6, <3>1
      <4> QED BY <1>5, <1>12, <1>17, <3>1, <4>1, <4>2, FS_Singleton
    <3>2. CASE q # p
      <4>1. q \notin Pending
        BY <1>1, <3>2
      <4>2. image.at[q] # image.at[p]
        BY <2>4, <2>6, <4>1
      <4>3. {r \in Path \ Pending' : image.at[r] = image.at[q]} = {r \in Path \ Pending : image.at[r] = image.at[q]}
        BY <1>1, <4>2
      <4>4. lookup(q) # 0 /\ fnlink[lookup(q)] = Cardinality({r \in Path \ Pending : image.at[r] = image.at[q]})
        BY <1>22, <2>6, <4>1 DEF CoreInv, FullLayer
      <4>5. lookup(q) \in Node /\ lookup(q) # node
        BY <1>2, <1>14, <3>2, <4>4, LookupType
      <4> QED BY <1>12, <1>18, <3>2, <4>3, <4>4, <4>5
    <3> QED BY <3>1, <3>2
  <2>7. ASSUME NEW n \in Node, NEW x \in Name, fkind'[n] = "file"
        PROVE  child'[n][x] = 0
    <3>1. n # ensureDir(p)
      <4>1. ensureDir(p) # node
        <5>1. ensureDir(p) < fresh /\ ensureDir(p) \in Node
          BY <1>1, <1>2, <1>5, <1>7, TreePut
        <5> QED BY <1>9, <1>3, <1>22, <5>1
      <4> QED BY <1>1, <1>2, <1>11, <2>7, <4>1
    <3>2. child'[n] = child[n]
      BY <1>2, <1>7, <3>1 DEF TypeOK
    <3>3. CASE n = node
      BY <1>2, <1>3, <1>9, <1>22, <3>2, <3>3 DEF NodesOK
    <3>4. CASE n # node
      BY <1>11, <1>22, <2>7, <3>2, <3>4 DEF CoreInv, FullLayer
    <3> QED BY <3>3, <3>4
  <2> QED BY <2>1, <2>2, <2>3, <2>5, <2>6, <2>7 DEF FullLayer
<1>23. FullLayer'
  BY <1>22 DEF FullLayer
<1>24. \E m \in 0 .. MaxNode : Puts(e, m)
  BY <1>5, <1>16
<1> QED BY <1>17, <1>19, <1>20, <1>21, <1>23, <1>24 DEF CoreInv

\* The target of a link at the head has been applied: it is a file with the data
\* of the link's inode.
LEMMA TargetFound ==
    ASSUME CoreInv, NEW e \in queue, isHead(e), e.type = "link"
    PROVE  /\ nlayers = 1 /\ e.target \in Path /\ e.target \notin Pending
           /\ image.at[e.path] \in Ino /\ image.at[e.target] = image.at[e.path]
           /\ lookup(e.target) # 0 /\ fkind[lookup(e.target)] = "file"
           /\ tarred(fdata[lookup(e.target)]) = tarred(image.data[image.at[e.path]])
<1> DEFINE t == e.target
<1>1. EntryOK(e) /\ e.path \in Path
  BY DEF CoreInv, QueueOK, EntryOK
<1>2. /\ nlayers = 1 /\ t \in Path /\ pos(t) < pos(e.path)
      /\ image.at[e.path] \in Ino /\ image.at[t] = image.at[e.path]
  BY <1>1 DEF EntryOK
<1>3. ASSUME NEW r \in Path, pos(r) < pos(e.path)
      PROVE  r \notin Pending
  <2> SUFFICES ASSUME NEW f \in queue, f.path = r
               PROVE  FALSE
    BY DEF Pending
  <2>1. pos(e.path) <= pos(r)
    BY DEF isHead
  <2> QED BY <1>1, <1>3, <2>1, PosOrders
<1>4. t \notin Pending
  BY <1>2, <1>3
<1>5. parentOf(t) \notin Pending
  <2>1. CASE Len(t) = 1
    BY <1>2, <1>4, <2>1, PathShape
  <2>2. CASE Len(t) = 2
    <3>1. parentOf(t) \in Path /\ pos(parentOf(t)) < pos(t)
      BY <1>2, <2>2, PathShape
    <3>2. pos(parentOf(t)) < pos(e.path)
      BY <1>1, <1>2, <3>1, PosOrders
    <3> QED BY <1>3, <3>1, <3>2
  <2> QED BY <1>2, <2>1, <2>2, PathShape
<1>6. Match(t)
  BY <1>2, <1>4, <1>5 DEF CoreInv, SettledAll
<1>7. /\ seenAt(t) # 0 /\ fkind[seenAt(t)] = "file"
      /\ tarred(fdata[seenAt(t)]) = tarred(image.data[image.at[t]])
  BY <1>2, <1>6, MatchForm DEF CoreInv
<1>8. seenAt(t) = lookup(t)
  BY <1>2, <1>7, LookupForm
<1> QED BY <1>2, <1>4, <1>7, <1>8

\* A hard link gives the node of its target one more name.
LEMMA LinkStep ==
    ASSUME CoreInv, NEW e \in queue, isHead(e), dirPresent(e.path),
           applyLink(e), queue' = queue \ {e}, image' = image, nlayers' = nlayers
    PROVE  CoreInv' /\ \E m \in 0 .. MaxNode : Puts(e, m)
<1> DEFINE p == e.path
           node == lookup(e.target)
<1>0. "none" \notin Ino /\ "dir" \notin Ino
  BY LayerAssumption
<1>1. /\ p \in Path /\ EntryOK(e) /\ p \in Pending /\ Pending' = Pending \ {p}
      /\ ensureDir(p) # 0 /\ OnlyDirOf(p) /\ fkind[ensureDir(p)] = "dir"
  BY HeadFacts
<1>2. TypeOK /\ NodesOK /\ image \in Images
  BY DEF CoreInv, TypeOK
<1>3. /\ nlayers = 1 /\ e.target \in Path /\ e.target \notin Pending
      /\ image.at[p] \in Ino /\ image.at[e.target] = image.at[p]
      /\ node # 0 /\ fkind[node] = "file"
      /\ tarred(fdata[node]) = tarred(image.data[image.at[p]])
  BY TargetFound DEF applyLink
<1>4. /\ node \in Node /\ node \in 2 .. fresh - 1 /\ node \in 0 .. MaxNode /\ node # 1
      /\ fresh \in Nat /\ fresh <= MaxNode + 1
  BY <1>2, <1>3, LookupType DEF TypeOK
<1>5. /\ fnlink' = [fnlink EXCEPT ![node] = fnlink[node] + 1]
      /\ child' = [child EXCEPT ![ensureDir(p)][base(p)] = node]
      /\ fkind' = fkind /\ fdata' = fdata /\ fresh' = fresh
  BY DEF applyLink
<1> HIDE DEF node
<1>6. fnlink \in [Node -> Nat] /\ fnlink[node] \in Nat
  BY <1>2, <1>4 DEF TypeOK
<1>7. /\ fnlink' \in [Node -> Nat] /\ fnlink'[node] = fnlink[node] + 1
      /\ \A n \in Node : n # node => fnlink'[n] = fnlink[n]
  BY <1>4, <1>5, <1>6
<1>8. Puts(e, node)
  <2>1. /\ fkind' \in [Node -> {"dir", "file"}] /\ fdata' \in [Node -> Data]
        /\ fresh' \in fresh .. MaxNode + 1 /\ node < fresh'
    BY <1>2, <1>4, <1>5 DEF TypeOK
  <2>2. image.at[p] # "none" /\ image.at[p] # "dir"
    BY <1>0, <1>3
  <2>3. e.type = "link"
    BY DEF applyLink
  <2> QED BY <1>3, <1>4, <1>5, <1>7, <2>1, <2>2, <2>3 DEF Puts
<1>9. /\ TypeOK' /\ QueueOK' /\ NodesOK' /\ SettledAll' /\ NothingHidden'
      /\ lookup(p)' = node
      /\ \A r \in Path : r # p /\ parentOf(r) # p => lookup(r)' = lookup(r)
      /\ \A r \in Path : Len(r) = 2 /\ parentOf(r) = p => lookup(r)' = IF node = 0 THEN 0 ELSE child[node][r[2]]
  BY <1>4, <1>8, PutsTypes, PutsSettles
<1>10. ASSUME NEW r \in Path, r # p, parentOf(r) = p
       PROVE  lookup(r)' = 0 /\ image.at[r] = "none"
  <2>1. Len(r) = 2 /\ r[2] \in Name
    BY <1>10, PathShape
  <2>2. child[node][r[2]] = 0
    BY <1>3, <1>4, <2>1 DEF CoreInv, FullLayer
  <2>3. image.at[r] = "none"
    BY <1>0, <1>2, <1>3, <1>10, <2>1, ImageShape
  <2> QED BY <1>9, <1>10, <2>1, <2>2, <2>3
<1>11. \A r \in Path : r # p => lookup(r)' = 0 \/ lookup(r)' = lookup(r)
  BY <1>9, <1>10
<1>12. \A r \in Path : r # p /\ image.at[r] # "none" => lookup(r)' = lookup(r)
  BY <1>9, <1>10
<1>13. \A r \in Path : lookup(r) = node => image.at[r] = image.at[p]
  BY <1>3 DEF CoreInv, Unshared, node
<1>14. Unshared'
  <2> SUFFICES ASSUME NEW q \in Path, NEW r \in Path, q # r, lookup(q)' = lookup(r)', lookup(q)' # 0
               PROVE  image.at[q] = image.at[r] /\ image.at[q] \in Ino
    BY <1>3 DEF Unshared
  <2>1. CASE q = p
    BY <1>3, <1>9, <1>11, <1>13, <2>1
  <2>2. CASE r = p
    BY <1>3, <1>9, <1>11, <1>13, <2>2
  <2>3. CASE q # p /\ r # p
    BY <1>11, <2>3 DEF CoreInv, Unshared
  <2> QED BY <2>1, <2>2, <2>3
<1>15. Fits' /\ NoLayer'
  BY <1>3, <1>5, FitsKept DEF NoLayer
<1>16. FullLayer'
  <2>1. \A r \in Path : r \in Pending' \/ image.at[r] = "none" => lookup(r)' = 0
    BY <1>0, <1>1, <1>3, <1>11 DEF CoreInv, FullLayer
  <2>2. \A r \in Path, f \in queue' :
           r \notin Pending' /\ image.at[r] # "none" => pos(r) < pos(f.path)
    BY <1>3, HeadBefore
  <2>3. \A f \in queue' : f.type = "reg" =>
           \A r \in Path : image.at[r] = image.at[f.path] => pos(f.path) <= pos(r)
    BY <1>3 DEF CoreInv, FullLayer
  <2>4. \A q \in Path \ Pending' : image.at[q] = image.at[p] => lookup(q)' = node
    <3> SUFFICES ASSUME NEW q \in Path \ Pending', image.at[q] = image.at[p], q # p
                 PROVE  lookup(q)' = node
      BY <1>9
    <3>1. q \notin Pending
      BY <1>1
    <3>2. lookup(q) = node
      BY <1>3, <3>1 DEF CoreInv, FullLayer, node
    <3> QED BY <1>0, <1>3, <1>12, <3>2
  <2>5. \A q, r \in Path \ Pending' : image.at[q] \in Ino /\ image.at[r] = image.at[q] =>
           lookup(q)' = lookup(r)'
    <3> SUFFICES ASSUME NEW q \in Path \ Pending', NEW r \in Path \ Pending',
                        image.at[q] \in Ino, image.at[r] = image.at[q]
                 PROVE  lookup(q)' = lookup(r)'
      OBVIOUS
    <3>1. CASE image.at[q] = image.at[p]
      BY <2>4, <3>1
    <3>2. CASE image.at[q] # image.at[p]
      <4>1. q \notin Pending /\ r \notin Pending /\ q # p /\ r # p
        BY <1>1, <3>2
      <4>2. lookup(q) = lookup(r)
        BY <1>3, <4>1 DEF CoreInv, FullLayer
      <4> QED BY <1>0, <1>12, <4>1, <4>2
    <3> QED BY <3>1, <3>2
  <2>6. ASSUME NEW q \in Path \ Pending', image.at[q] \in Ino
        PROVE  /\ lookup(q)' # 0
               /\ fnlink'[lookup(q)'] = Cardinality({r \in Path \ Pending' : image.at[r] = image.at[q]})
    <3> DEFINE S == {r \in Path \ Pending : image.at[r] = image.at[q]}
               T == {r \in Path \ Pending' : image.at[r] = image.at[q]}
    <3>1. CASE image.at[q] = image.at[p]
      <4>1. T = S \cup {p} /\ p \notin S
        BY <1>1, <3>1
      <4>2. IsFiniteSet(S)
        BY PathsFinite, FS_Subset
      <4>3. Cardinality(T) = Cardinality(S) + 1
        BY <4>1, <4>2, FS_AddElement
      <4>4. fnlink[node] = Cardinality(S)
        <5>1. S = {r \in Path \ Pending : image.at[r] = image.at[e.target]}
          BY <1>3, <3>1
        <5> QED BY <1>3, <5>1 DEF CoreInv, FullLayer, node
      <4> QED BY <1>3, <1>7, <2>4, <3>1, <4>3, <4>4
    <3>2. CASE image.at[q] # image.at[p]
      <4>1. q \notin Pending /\ q # p
        BY <1>1, <3>2
      <4>2. T = S
        BY <1>1, <3>2
      <4>3. lookup(q) # 0 /\ fnlink[lookup(q)] = Cardinality(S)
        BY <1>3, <2>6, <4>1 DEF CoreInv, FullLayer
      <4>4. lookup(q) \in Node /\ lookup(q) # node
        BY <1>2, <1>13, <3>2, <4>3, LookupType
      <4>5. lookup(q)' = lookup(q)
        BY <1>0, <1>12, <2>6, <4>1
      <4> QED BY <1>7, <4>2, <4>3, <4>4, <4>5
    <3> QED BY <3>1, <3>2
  <2>7. ASSUME NEW n \in Node, NEW x \in Name, fkind'[n] = "file"
        PROVE  child'[n][x] = 0
    <3>1. n # ensureDir(p)
      BY <1>1, <1>5, <2>7
    <3>2. child'[n] = child[n]
      BY <1>2, <1>5, <3>1 DEF TypeOK
    <3> QED BY <1>3, <1>5, <2>7, <3>2 DEF CoreInv, FullLayer
  <2> QED BY <2>1, <2>2, <2>3, <2>5, <2>6, <2>7 DEF FullLayer
<1>17. \E m \in 0 .. MaxNode : Puts(e, m)
  BY <1>4, <1>8
<1> QED BY <1>9, <1>14, <1>15, <1>16, <1>17 DEF CoreInv

\* The entry applied is the one at the head, and it has its directory.
LEMMA ApplyPuts ==
    ASSUME LayersInv, ApplyEntry
    PROVE  /\ CoreInv /\ CoreInv'
           /\ \E e \in queue : /\ isHead(e) /\ dirPresent(e.path)
                               /\ \E m \in 0 .. MaxNode : Puts(e, m)
<1>1. PICK e \in queue :
         /\ isHead(e) /\ dirPresent(e.path)
         /\ applyDir(e) \/ applyReg(e) \/ applyLink(e) \/ applyWhiteout(e)
         /\ queue' = queue \ {e} /\ image' = image /\ nlayers' = nlayers
  BY DEF ApplyEntry
<1>2. \A f \in queue : isHead(f) => dirPresent(f.path)
  <2> SUFFICES ASSUME NEW f \in queue, isHead(f)
               PROVE  dirPresent(f.path)
    OBVIOUS
  <2>1. e.path \in Path /\ f.path \in Path
    BY DEF LayersInv, QueueOK, EntryOK
  <2>2. pos(e.path) <= pos(f.path) /\ pos(f.path) <= pos(e.path)
    BY <1>1 DEF isHead
  <2>3. e.path = f.path
    BY <2>1, <2>2, PosOrders
  <2> QED BY <1>1, <2>3
<1>3. CoreInv
  BY <1>2, QuietIn
<1>4. CoreInv' /\ \E m \in 0 .. MaxNode : Puts(e, m)
  BY <1>1, <1>3, UpsertStep, LinkStep, WhiteoutStep
<1> QED BY <1>1, <1>3, <1>4

\* Applying any entry keeps the invariant.
LEMMA ApplyStep ==
    ASSUME LayersInv, ApplyEntry
    PROVE  LayersInv'
<1>1. CoreInv'
  BY ApplyPuts
<1> QED BY <1>1, QuietOut, PTL

-----------------------------------------------------------------------------
(* Writing a layer. *)

\* A set of paths has one that the walk meets first.
LEMMA FirstPath ==
    ASSUME NEW S, S \subseteq Path, S # {}
    PROVE  \E q \in S : \A r \in S : pos(q) <= pos(r)
<1> DEFINE T == {pos(q) : q \in S}
<1>1. T \subseteq Nat /\ T # {}
  BY PosOrders
<1>2. PICK x \in T : \A y \in T : ~(<<y, x>> \in OpToRel(<, Nat))
  BY <1>1, NatLessThanWellFounded, WFMin, Zenon
<1>3. \A y \in T : x <= y
  <2> SUFFICES ASSUME NEW y \in T
               PROVE  x <= y
    OBVIOUS
  <2>1. x \in Nat /\ y \in Nat
    BY <1>1
  <2>2. ~(y < x)
    BY <1>2, <2>1 DEF OpToRel
  <2> QED BY <2>1, <2>2
<1>4. PICK q \in S : pos(q) = x
  OBVIOUS
<1> QED BY <1>3, <1>4

\* firstName names an emitted path of the same inode that comes before, if there
\* is one.
LEMMA FirstNameIs ==
    ASSUME NEW im, NEW p \in Path
    PROVE  \/ /\ firstName(im, p) = <<>>
              /\ \A q \in Path : emitted(im, q) /\ im.at[q] = im.at[p] => ~(pos(q) < pos(p))
           \/ /\ firstName(im, p) \in Path /\ firstName(im, p) # <<>>
              /\ im.at[firstName(im, p)] = im.at[p]
              /\ pos(firstName(im, p)) < pos(p)
<1> DEFINE before == {q \in Path : /\ emitted(im, q) /\ im.at[q] = im.at[p]
                                   /\ pos(q) < pos(p)}
           first == CHOOSE q \in before : \A r \in before : pos(q) <= pos(r)
<1>1. firstName(im, p) = IF before = {} THEN <<>> ELSE first
  BY DEF firstName
<1>2. CASE before = {}
  <2>1. \A q \in Path : emitted(im, q) /\ im.at[q] = im.at[p] => ~(pos(q) < pos(p))
    BY <1>2
  <2> QED BY <1>1, <1>2, <2>1
<1>3. CASE before # {}
  <2>1. \E q \in before : \A r \in before : pos(q) <= pos(r)
    BY <1>3, FirstPath
  <2>2. first \in before
    BY <2>1
  <2> HIDE DEF first
  <2>3. first \in Path /\ im.at[first] = im.at[p] /\ pos(first) < pos(p)
    BY <2>2
  <2>4. first # <<>>
    BY <2>3, PathShape
  <2> QED BY <1>1, <1>3, <2>3, <2>4
<1> QED BY <1>2, <1>3

\* A path with an inode that another path has too is hard linked.
LEMMA TwoNames ==
    ASSUME NEW im, NEW p \in Path, NEW q \in Path, p # q, im.at[p] = im.at[q]
    PROVE  NlinkOf(im, im.at[p]) > 1
<1> DEFINE S == {r \in Path : im.at[r] = im.at[p]}
<1>1. IsFiniteSet(S) /\ Cardinality(S) \in Nat
  BY PathsFinite, FS_Subset, FS_CardinalityType
<1>2. IsFiniteSet({p}) /\ Cardinality({p}) = 1
  BY FS_Singleton
<1>3. Cardinality({p} \cup {q}) = 2
  BY <1>2, FS_AddElement
<1>4. {p} \cup {q} \subseteq S
  OBVIOUS
<1>5. Cardinality({p} \cup {q}) <= Cardinality(S)
  BY <1>1, <1>4, FS_Subset
<1> QED BY <1>1, <1>3, <1>5 DEF NlinkOf

\* What the tree has is nothing, a directory or a file; under what is not a
\* directory a walk sees nothing.
LEMMA OldKinds ==
    ASSUME TypeOK, NodesOK, NEW p \in Path
    PROVE  /\ oldKind(p) = "none" \/ oldKind(p) = "dir" \/ oldKind(p) = "file"
           /\ Len(p) = 2 /\ oldKind(p) # "none" => oldKind(parentOf(p)) = "dir"
           /\ Len(p) = 1 => /\ oldKind(p) = "none" <=> lookup(p) = 0
                            /\ oldKind(p) = "dir" <=> lookup(p) # 0 /\ fkind[lookup(p)] = "dir"
<1>1. seenAt(p) = 0 \/ seenAt(p) \in Node
  BY LookupForm, LookupType
<1>2. oldKind(p) = "none" \/ oldKind(p) = "dir" \/ oldKind(p) = "file"
  BY <1>1 DEF oldKind, TypeOK
<1>3. ASSUME NEW q \in Path, Len(q) = 1
      PROVE  /\ seenAt(q) = lookup(q)
             /\ oldKind(q) = "none" <=> lookup(q) = 0
             /\ oldKind(q) = "dir" <=> lookup(q) # 0 /\ fkind[lookup(q)] = "dir"
  <2>1. seenAt(q) = lookup(q)
    BY <1>3, LookupForm
  <2>2. lookup(q) = 0 \/ lookup(q) \in Node
    BY LookupType
  <2>3. lookup(q) # 0 => fkind[lookup(q)] = "dir" \/ fkind[lookup(q)] = "file"
    BY <2>2 DEF TypeOK
  <2> QED BY <2>1, <2>3 DEF oldKind
<1>4. Len(p) = 2 /\ oldKind(p) # "none" => oldKind(parentOf(p)) = "dir"
  <2> SUFFICES ASSUME Len(p) = 2, oldKind(p) # "none"
               PROVE  oldKind(parentOf(p)) = "dir"
    OBVIOUS
  <2>1. seenAt(p) # 0
    BY DEF oldKind
  <2>2. lookup(parentOf(p)) # 0 /\ fkind[lookup(parentOf(p))] = "dir"
    BY <2>1, LookupForm
  <2>3. parentOf(p) \in Path /\ Len(parentOf(p)) = 1
    BY PathShape
  <2> QED BY <1>3, <2>2, <2>3
<1> QED BY <1>2, <1>3, <1>4

\* Where the layer has nothing to say, the tree has what the image has.
LEMMA UntouchedMatches ==
    ASSUME TypeOK, NodesOK, NEW im \in Images, NEW p \in Path,
           ~whitedOut(im, p), ~emitted(im, p),
           ~whitedOut(im, parentOf(p)), ~emitted(im, parentOf(p))
    PROVE  /\ oldKind(p) = newKind(im, p)
           /\ oldKind(p) = "file" => fdata[seenAt(p)] = im.data[im.at[p]]
<1>0. /\ newKind(im, p) = "none" \/ newKind(im, p) = "dir" \/ newKind(im, p) = "file"
      /\ parentOf(p) \in Path /\ (Len(p) = 1 \/ Len(p) = 2)
      /\ Len(parentOf(p)) = 1
  BY ImageShape, PathShape DEF parentOf
<1>1. newKind(im, parentOf(p)) = "none" \/ newKind(im, parentOf(p)) = "dir" \/ newKind(im, parentOf(p)) = "file"
  BY <1>0, ImageShape
<1>2. CASE newKind(im, p) = "none"
  <2>1. oldKind(p) = "none"
    <3> SUFFICES ASSUME oldKind(p) # "none"
                 PROVE  FALSE
      OBVIOUS
    <3>1. Len(p) = 2 /\ ~bothDirs(im, parentOf(p))
      BY <1>0, <1>2 DEF whitedOut
    <3>2. oldKind(parentOf(p)) = "dir"
      BY <3>1, OldKinds
    <3>3. newKind(im, parentOf(p)) # "dir"
      BY <3>1, <3>2 DEF bothDirs
    <3>4. CASE newKind(im, parentOf(p)) = "none"
      BY <1>0, <3>2, <3>4 DEF whitedOut
    <3>5. CASE newKind(im, parentOf(p)) = "file"
      BY <3>1, <3>2, <3>5 DEF emitted, changed
    <3> QED BY <1>1, <3>3, <3>4, <3>5
  <2> QED BY <1>2, <2>1
<1>3. CASE newKind(im, p) # "none"
  <2>1. bothDirs(im, p) \/ ~changed(im, p)
    BY <1>3 DEF emitted
  <2> QED BY <2>1 DEF bothDirs, changed
<1> QED BY <1>2, <1>3

\* What a new directory does not get was not hidden there.
LEMMA NothingUnder ==
    ASSUME TypeOK, NodesOK, Clean, NEW im \in Images, NEW p \in Path, Len(p) = 2,
           ~emitted(im, p), whitedOut(im, parentOf(p)) \/ emitted(im, parentOf(p)),
           im.at[parentOf(p)] = "dir"
    PROVE  im.at[p] = "none" /\ lookup(p) = 0
<1> DEFINE d == parentOf(p)
<1>0. d \in Path /\ Len(d) = 1
  BY PathShape
<1>1. newKind(im, d) = "dir"
  BY <1>0, ImageShape
<1>2. emitted(im, d)
  BY <1>1 DEF whitedOut
<1>3. ~bothDirs(im, d) /\ oldKind(d) # "dir"
  BY <1>0, <1>1, <1>2 DEF emitted, bothDirs
<1>4. newKind(im, p) = "none"
  BY <1>3 DEF emitted
<1>5. im.at[p] = "none"
  BY <1>4, ImageShape
<1>6. lookup(p) = 0
  <2>1. lookup(d) = 0 \/ fkind[lookup(d)] # "dir"
    BY <1>0, <1>3, OldKinds
  <2>2. lookup(d) = 0 => lookup(p) = 0
    BY LookupForm
  <2> QED BY <2>1, <2>2 DEF Clean
<1> QED BY <1>5, <1>6

\* Layers are written when nothing is left to apply.
LEMMA AtRest ==
    ASSUME LayersInv, queue = {}
    PROVE  /\ CoreInv /\ Pending = {}
           /\ \A p \in Path : Match(p)
<1>1. CoreInv
  BY QuietIn
<1>2. Pending = {}
  BY DEF Pending
<1> QED BY <1>1, <1>2 DEF CoreInv, SettledAll

\* Before the first layer there is nothing in the tree.
LEMMA EmptyTree ==
    ASSUME CoreInv, nlayers = 0, NEW p \in Path
    PROVE  lookup(p) = 0 /\ oldKind(p) = "none"
<1>0. 1 \in Node /\ p[1] \in Name
  BY LookupType, PathShape DEF CoreInv
<1>1. child[1][p[1]] = 0
  BY <1>0 DEF CoreInv, NoLayer
<1>2. lookup(p) = 0
  BY <1>1, PathShape, LookupForm
<1>3. seenAt(p) = 0
  BY <1>2, LookupForm
<1> QED BY <1>2, <1>3 DEF oldKind

\* The paths of the new layer.
LEMMA LayerPaths ==
    ASSUME NEW im, queue' = writeDiffLayer(im)
    PROVE  /\ Pending' = {p \in Path : whitedOut(im, p) \/ emitted(im, p)}
           /\ \A e \in queue' :
                 /\ e.path \in Path
                 /\ \/ whitedOut(im, e.path) /\ e = [type |-> "whiteout", path |-> e.path]
                    \/ emitted(im, e.path) /\ e = writeEntry(im, e.path)
<1>1. \A p : writeEntry(im, p).path = p
  BY DEF writeEntry
<1>2. ASSUME NEW e \in queue'
      PROVE  /\ e.path \in Path
             /\ \/ whitedOut(im, e.path) /\ e = [type |-> "whiteout", path |-> e.path]
                \/ emitted(im, e.path) /\ e = writeEntry(im, e.path)
  <2>1. CASE \E p \in Path : whitedOut(im, p) /\ e = [type |-> "whiteout", path |-> p]
    BY <2>1
  <2>2. CASE \E p \in Path : emitted(im, p) /\ e = writeEntry(im, p)
    BY <1>1, <2>2
  <2> QED BY <2>1, <2>2 DEF writeDiffLayer
<1>3. ASSUME NEW p \in Path, whitedOut(im, p)
      PROVE  \E e \in queue' : e.path = p
  <2>1. [type |-> "whiteout", path |-> p] \in queue'
    BY <1>3 DEF writeDiffLayer
  <2> QED BY <2>1
<1>4. ASSUME NEW p \in Path, emitted(im, p)
      PROVE  \E e \in queue' : e.path = p
  <2>1. writeEntry(im, p) \in queue'
    BY <1>4 DEF writeDiffLayer
  <2> QED BY <1>1, <2>1
<1>5. Pending' = {e.path : e \in queue'}
  BY DEF Pending
<1> QED BY <1>2, <1>3, <1>4, <1>5

\* What writeEntry writes for an emitted path.
LEMMA EntryForms ==
    ASSUME NEW im \in Images, NEW p \in Path, emitted(im, p)
    PROVE  LET e == writeEntry(im, p) IN
           \/ e.type = "dir" /\ im.at[p] = "dir"
           \/ /\ e.type = "reg" /\ im.at[p] \in Ino /\ e.data = tarred(im.data[im.at[p]])
              /\ NlinkOf(im, im.at[p]) > 1 => firstName(im, p) = <<>>
           \/ /\ e.type = "link" /\ im.at[p] \in Ino /\ NlinkOf(im, im.at[p]) > 1
              /\ firstName(im, p) # <<>> /\ e.target = firstName(im, p)
<1>1. im.at[p] = "dir" \/ (im.at[p] \in Ino /\ im.at[p] # "dir")
  <2>1. newKind(im, p) # "none"
    BY DEF emitted
  <2> QED BY <2>1, ImageShape
<1>2. CASE im.at[p] = "dir"
  BY <1>2 DEF writeEntry
<1>3. CASE im.at[p] # "dir" /\ NlinkOf(im, im.at[p]) > 1 /\ firstName(im, p) # <<>>
  <2>1. writeEntry(im, p) = [type |-> "link", path |-> p, target |-> firstName(im, p)]
    BY <1>3 DEF writeEntry
  <2> QED BY <1>1, <1>3, <2>1
<1>4. CASE im.at[p] # "dir" /\ ~(NlinkOf(im, im.at[p]) > 1 /\ firstName(im, p) # <<>>)
  <2>1. writeEntry(im, p) = [type |-> "reg", path |-> p, data |-> tarred(im.data[im.at[p]])]
    BY <1>4 DEF writeEntry
  <2> QED BY <1>1, <1>4, <2>1
<1> QED BY <1>2, <1>3, <1>4

\* The bits a layer drops are dropped once.
LEMMA TarredTwice ==
    ASSUME NEW d \in Data
    PROVE  tarred(d) \in Data /\ tarred(tarred(d)) = tarred(d)
BY LayerAssumption DEF tarred

\* A layer after the first, by a caller who writes none over hard links.
LEMMA NoLinksUnderDelta ==
    ASSUME LayersInv, ~DeltaOverLinks, nlayers' = nlayers + 1
    PROVE  nlayers > 0 => ~hardLinked(image) /\ ~hardLinked(image')
<1>1. nlayers \in Nat /\ nlayers' # nlayers
  BY DEF LayersInv, TypeOK
<1> QED BY <1>1 DEF DeltaOverLinks

\* Every entry of a layer says what the image has at its path; link entries come
\* after the entry of their target, and only in a full layer.
LEMMA LayerQueueOK ==
    ASSUME LayersInv, ~DeltaOverLinks, NEW im \in Images, AddLayer(im)
    PROVE  QueueOK'
<1>1. /\ queue = {} /\ image' = im /\ nlayers' = nlayers + 1
      /\ queue' = writeDiffLayer(im)
  BY DEF AddLayer
<1>2. CoreInv /\ TypeOK /\ NodesOK /\ nlayers \in Nat
  BY <1>1, AtRest DEF CoreInv, TypeOK
<1>3. \A e \in queue' :
         /\ e.path \in Path
         /\ \/ whitedOut(im, e.path) /\ e = [type |-> "whiteout", path |-> e.path]
            \/ emitted(im, e.path) /\ e = writeEntry(im, e.path)
  BY <1>1, LayerPaths
<1>4. ASSUME NEW e \in queue'
      PROVE  EntryOK(e)'
  <2> DEFINE p == e.path
  <2>0. p \in Path
    BY <1>3
  <2>1. CASE whitedOut(im, p) /\ e = [type |-> "whiteout", path |-> p]
    <3>1. e.type = "whiteout"
      BY <2>1
    <3>2. im.at[p] = "none"
      BY <2>0, <2>1, ImageShape DEF whitedOut
    <3>3. nlayers' > 1
      <4>1. nlayers # 0
        BY <1>2, <2>0, <2>1, EmptyTree DEF whitedOut
      <4> QED BY <1>1, <1>2, <4>1
    <3>4. Len(p) = 2 => im.at[parentOf(p)] = "dir"
      <4> SUFFICES ASSUME Len(p) = 2
                   PROVE  im.at[parentOf(p)] = "dir"
        OBVIOUS
      <4>1. newKind(im, parentOf(p)) = "dir" /\ parentOf(p) \in Path
        BY <2>0, <2>1, PathShape DEF whitedOut, bothDirs
      <4> QED BY <4>1, ImageShape
    <3> QED BY <1>1, <2>0, <3>1, <3>2, <3>3, <3>4 DEF EntryOK
  <2>2. CASE emitted(im, p) /\ e = writeEntry(im, p)
    <3>1. \/ e.type = "dir" /\ im.at[p] = "dir"
          \/ /\ e.type = "reg" /\ im.at[p] \in Ino /\ e.data = tarred(im.data[im.at[p]])
          \/ /\ e.type = "link" /\ im.at[p] \in Ino /\ NlinkOf(im, im.at[p]) > 1
             /\ firstName(im, p) # <<>> /\ e.target = firstName(im, p)
      BY <2>0, <2>2, EntryForms
    <3>2. CASE e.type = "dir" /\ im.at[p] = "dir"
      BY <1>1, <2>0, <3>2 DEF EntryOK
    <3>3. CASE e.type = "reg" /\ im.at[p] \in Ino /\ e.data = tarred(im.data[im.at[p]])
      <4>1. im.data[im.at[p]] \in Data
        BY <2>0, <3>3, ImageShape
      <4>2. e.data \in Data /\ tarred(e.data) = tarred(im.data[im.at[p]])
        BY <3>3, <4>1, TarredTwice
      <4> QED BY <1>1, <2>0, <3>3, <4>2 DEF EntryOK, tarred
    <3>4. CASE /\ e.type = "link" /\ im.at[p] \in Ino /\ NlinkOf(im, im.at[p]) > 1
               /\ firstName(im, p) # <<>> /\ e.target = firstName(im, p)
      <4>1. nlayers' = 1
        BY <1>1, <1>2, <3>4, NoLinksUnderDelta DEF hardLinked
      <4>2. e.target \in Path /\ im.at[e.target] = im.at[p] /\ pos(e.target) < pos(p)
        BY <2>0, <3>4, FirstNameIs
      <4> QED BY <1>1, <2>0, <3>4, <4>1, <4>2 DEF EntryOK
    <3> QED BY <3>1, <3>2, <3>3, <3>4
  <2> QED BY <1>3, <2>1, <2>2
<1>5. \A e, f \in queue' : e.path = f.path => e = f
  <2> SUFFICES ASSUME NEW e \in queue', NEW f \in queue', e.path = f.path
               PROVE  e = f
    OBVIOUS
  <2>1. ~(whitedOut(im, e.path) /\ emitted(im, e.path))
    BY DEF whitedOut, emitted
  <2> QED BY <1>3, <2>1
<1> QED BY <1>4, <1>5 DEF QueueOK

\* A step that leaves the tree alone leaves what is found in it alone.
LEMMA TreeKept ==
    ASSUME UNCHANGED treeVars, NEW p \in Path
    PROVE  /\ lookup(p)' = lookup(p) /\ seenAt(p)' = seenAt(p) /\ oldKind(p)' = oldKind(p)
           /\ lookup(parentOf(p))' = lookup(parentOf(p))
           /\ dirPresent(p)' <=> dirPresent(p)
<1>1. child' = child /\ fkind' = fkind
  BY DEF treeVars
<1>2. \A q : lookup(q)' = lookup(q)
  BY <1>1 DEF lookup, findChild
<1>3. seenAt(p)' = seenAt(p)
  BY <1>1, <1>2 DEF seenAt
<1>4. oldKind(p)' = oldKind(p)
  BY <1>1, <1>3 DEF oldKind
<1>5. dirPresent(p)' <=> dirPresent(p)
  BY <1>1, <1>2 DEF dirPresent, ensureDir
<1> QED BY <1>2, <1>3, <1>4, <1>5

\* Once no image has hard links, paths share no node.
LEMMA UnsharedKept ==
    ASSUME CoreInv, UNCHANGED treeVars, nlayers' = nlayers + 1,
           nlayers > 0 => ~hardLinked(image)
    PROVE  Unshared'
<1>1. \A p \in Path : lookup(p)' = lookup(p)
  BY TreeKept
<1>2. nlayers \in Nat
  BY DEF CoreInv, TypeOK
<1> SUFFICES ASSUME NEW p \in Path, NEW q \in Path, lookup(p) = lookup(q), lookup(p) # 0
             PROVE  p = q
  BY <1>1 DEF Unshared
<1>3. nlayers # 0
  BY EmptyTree
<1>4. p = q \/ (image.at[p] = image.at[q] /\ image.at[p] \in Ino)
  BY DEF CoreInv, Unshared
<1> QED BY <1>2, <1>3, <1>4, TwoNames DEF hardLinked

\* The nodes of one layer fewer are left.
LEMMA RoomForLayer ==
    ASSUME CoreInv, queue = {}, nlayers < MaxLayers, nlayers' = nlayers + 1
    PROVE  /\ (MaxLayers - nlayers) * Room = (MaxLayers - nlayers') * Room + Room
           /\ (MaxLayers - nlayers') * Room \in Nat /\ Room = Len(PathSeq) + 1
           /\ fresh + (MaxLayers - nlayers) * Room <= MaxNode + 1
           /\ fresh \in Nat /\ MaxNode \in Nat /\ Len(PathSeq) \in Nat
           /\ nlayers' \in 0 .. MaxLayers
<1>1. /\ nlayers \in Nat /\ MaxLayers \in Nat /\ Len(PathSeq) \in Nat /\ Room \in Nat
      /\ Room = Len(PathSeq) + 1 /\ MaxNode \in Nat /\ fresh \in Nat
  <2>1. nlayers \in Nat /\ MaxLayers \in Nat /\ Len(PathSeq) \in Nat
    BY PathsFinite, LayerAssumption DEF CoreInv, TypeOK
  <2>2. MaxNode \in Nat /\ fresh \in Nat
    BY <2>1 DEF MaxNode, CoreInv, TypeOK
  <2> QED BY <2>1, <2>2 DEF Room
<1>2. PICK k \in Nat : MaxLayers - nlayers = k + 1 /\ MaxLayers - nlayers' = k
  BY <1>1
<1>3. \A a, b \in Nat : (a + 1) * b = a * b + b /\ a * b \in Nat
  OBVIOUS
<1>4. (k + 1) * Room = k * Room + Room /\ k * Room \in Nat
  BY <1>1, <1>3
<1>5. Cardinality(Pending) = 0
  <2>1. Pending = {}
    BY DEF Pending
  <2> QED BY <2>1, FS_EmptySet
<1>6. fresh + Cardinality(Pending) + (MaxLayers - nlayers) * Room <= MaxNode + 1
  BY DEF CoreInv, Fits
<1> HIDE DEF Room
<1>7. fresh + (k + 1) * Room <= MaxNode + 1
  BY <1>1, <1>2, <1>4, <1>5, <1>6
<1> QED BY <1>1, <1>2, <1>4, <1>7

\* The full layer is written over an empty tree.
LEMMA FullLayerStarts ==
    ASSUME LayersInv, NEW im \in Images, AddLayer(im), nlayers = 0
    PROVE  FullLayer'
<1>1. /\ queue = {} /\ image' = im /\ queue' = writeDiffLayer(im) /\ UNCHANGED treeVars
  BY DEF AddLayer
<1>2. CoreInv
  BY <1>1, AtRest
<1>3. \A p \in Path : lookup(p)' = 0 /\ oldKind(p) = "none"
  BY <1>1, <1>2, EmptyTree, TreeKept
<1>4. /\ Pending' = {p \in Path : whitedOut(im, p) \/ emitted(im, p)}
      /\ \A e \in queue' :
            /\ e.path \in Path
            /\ \/ whitedOut(im, e.path) /\ e = [type |-> "whiteout", path |-> e.path]
               \/ emitted(im, e.path) /\ e = writeEntry(im, e.path)
  BY <1>1, LayerPaths
<1>5. ASSUME NEW p \in Path, im.at[p] # "none"
      PROVE  emitted(im, p) /\ p \in Pending'
  <2>1. newKind(im, p) # "none"
    BY <1>5, ImageShape
  <2> QED BY <1>3, <1>4, <2>1 DEF emitted
<1>6. ASSUME NEW e \in queue', e.type = "reg", NEW p \in Path, im.at[p] = im.at[e.path]
      PROVE  pos(e.path) <= pos(p)
  <2>1. e.path \in Path /\ emitted(im, e.path) /\ e = writeEntry(im, e.path)
    <3>1. e # [type |-> "whiteout", path |-> e.path]
      BY <1>6
    <3> QED BY <1>4, <3>1
  <2>2. NlinkOf(im, im.at[e.path]) > 1 => firstName(im, e.path) = <<>>
    BY <1>6, <2>1, EntryForms
  <2>3. CASE p = e.path
    BY <2>1, <2>3, PosOrders
  <2>4. CASE p # e.path
    <3>1. NlinkOf(im, im.at[e.path]) > 1
      BY <1>6, <2>1, <2>4, TwoNames
    <3>2. newKind(im, e.path) # "none"
      BY <2>1 DEF emitted
    <3>3. im.at[p] # "none"
      BY <1>6, <2>1, <3>2, ImageShape
    <3>4. emitted(im, p)
      BY <1>5, <3>3
    <3>5. ~(pos(p) < pos(e.path))
      BY <1>6, <2>1, <2>2, <3>1, <3>4, FirstNameIs
    <3> QED BY <2>1, <3>5, PosOrders
  <2> QED BY <2>3, <2>4
<1>7. \A n \in Node, x \in Name : child'[n][x] = 0
  BY <1>1, <1>2 DEF CoreInv, NoLayer, treeVars
<1>8. "none" \notin Ino
  BY LayerAssumption
<1> QED BY <1>1, <1>3, <1>4, <1>5, <1>6, <1>7, <1>8 DEF FullLayer

\* Writing a layer for an image: what it does not mention is as it should be.
LEMMA AddStep ==
    ASSUME LayersInv, ~DeltaOverLinks, Clean, NEW im \in Images, AddLayer(im)
    PROVE  LayersInv'
<1>1. /\ queue = {} /\ image' = im /\ nlayers < MaxLayers /\ nlayers' = nlayers + 1
      /\ queue' = writeDiffLayer(im) /\ UNCHANGED treeVars
      /\ nlayers > 0 => ~hardLinked(image)
  BY NoLinksUnderDelta DEF AddLayer
<1>2. CoreInv /\ TypeOK /\ NodesOK /\ nlayers \in Nat
  BY <1>1, AtRest DEF CoreInv, TypeOK
<1>3. \A p \in Path : lookup(p)' = lookup(p) /\ seenAt(p)' = seenAt(p) /\ oldKind(p)' = oldKind(p)
  BY <1>1, TreeKept
<1>4. Pending' = {p \in Path : whitedOut(im, p) \/ emitted(im, p)}
  BY <1>1, LayerPaths
<1>5. /\ (MaxLayers - nlayers) * Room = (MaxLayers - nlayers') * Room + Room
      /\ (MaxLayers - nlayers') * Room \in Nat /\ Room = Len(PathSeq) + 1
      /\ fresh + (MaxLayers - nlayers) * Room <= MaxNode + 1
      /\ fresh \in Nat /\ MaxNode \in Nat /\ Len(PathSeq) \in Nat
      /\ nlayers' \in 0 .. MaxLayers
  BY <1>1, <1>2, RoomForLayer
<1>6. TypeOK' /\ NodesOK'
  BY <1>1, <1>2, <1>5 DEF TypeOK, NodesOK, treeVars
<1>7. QueueOK'
  BY LayerQueueOK
<1>8. Unshared'
  BY <1>1, <1>2, UnsharedKept
<1>9. SettledAll'
  <2> SUFFICES ASSUME NEW p \in Path, p \notin Pending', parentOf(p) \notin Pending'
               PROVE  Match(p)'
    BY DEF SettledAll
  <2>1. parentOf(p) \in Path
    BY PathShape
  <2>2. /\ oldKind(p) = newKind(im, p)
        /\ oldKind(p) = "file" => fdata[seenAt(p)] = im.data[im.at[p]]
    BY <1>2, <1>4, <2>1, UntouchedMatches
  <2> QED BY <1>1, <1>3, <2>2 DEF Match, newKind, treeVars, tarred
<1>10. NothingHidden'
  <2> SUFFICES ASSUME NEW p \in Path, Len(p) = 2, p \notin Pending',
                      parentOf(p) \in Pending', im.at[parentOf(p)] = "dir"
               PROVE  im.at[p] = "none" /\ lookup(p) = 0
    BY <1>1, <1>3 DEF NothingHidden
  <2> QED BY <1>2, <1>4, NothingUnder
<1>11. Fits'
  <2>1. Cardinality(Pending') <= Len(PathSeq) /\ Cardinality(Pending') \in Nat
    <3>1. Pending' \subseteq Path
      BY <1>4
    <3>2. IsFiniteSet(Pending') /\ Cardinality(Pending') <= Cardinality(Path)
      BY <3>1, PathsFinite, FS_Subset
    <3>3. Cardinality(Pending') \in Nat
      BY <3>2, FS_CardinalityType
    <3> QED BY <3>2, <3>3, PathsFinite
  <2>2. Fits' <=> fresh + Cardinality(Pending') + (MaxLayers - nlayers') * Room <= MaxNode + 1
    BY <1>1 DEF Fits, MaxNode, Room, treeVars
  <2> HIDE DEF Room
  <2> QED BY <1>5, <2>1, <2>2
<1>12. FullLayer'
  <2>1. CASE nlayers = 0
    BY <2>1, FullLayerStarts
  <2>2. CASE nlayers # 0
    BY <1>1, <1>2, <2>2 DEF FullLayer
  <2> QED BY <2>1, <2>2
<1>13. NoLayer'
  BY <1>1, <1>2 DEF NoLayer
<1>14. CoreInv'
  BY <1>6, <1>7, <1>8, <1>9, <1>10, <1>11, <1>12, <1>13 DEF CoreInv
<1> QED BY <1>14, QuietOut, PTL

\* What a foreign layer makes of the image.
LEMMA ForeignImage ==
    ASSUME LayersInv, NEW p \in Path, NEW i \in Ino, NEW d \in Data, ForeignLayer(p, i, d)
    PROVE  /\ image'.at[p] = i /\ image'.data[i] = d
           /\ Len(p) = 2 => image'.at[parentOf(p)] = "dir"
           /\ \A q \in Path : Len(q) = 2 /\ parentOf(q) = p => image'.at[q] = "none"
           /\ \A q \in Path : q # p /\ parentOf(q) # p /\ ~(Len(p) = 2 /\ q = parentOf(p)) =>
                 /\ image'.at[q] = image.at[q]
                 /\ image.at[q] \in Ino => image'.data[image'.at[q]] = image.data[image.at[q]]
           /\ image' \in Images
<1>0. image \in Images
  BY DEF LayersInv, TypeOK
<1> DEFINE at == [q \in Path |-> CASE q = p -> i
                                  [] Len(p) = 2 /\ q = parentOf(p) -> "dir"
                                  [] Len(q) = 2 /\ parentOf(q) = p -> "none"
                                  [] OTHER -> image.at[q]]
           data == [image.data EXCEPT ![i] = d]
<1>1. image' = [at |-> at, data |-> data]
  BY DEF ForeignLayer
<1>2. image'.at = at /\ image'.data = data
  BY <1>1
<1>3. Len(p) = 1 \/ Len(p) = 2
  BY PathShape
<1>4. at[p] = i
  <2>1. ~(Len(p) = 2 /\ p = parentOf(p)) /\ ~(Len(p) = 2 /\ parentOf(p) = p)
    BY PathShape
  <2> QED BY <2>1
<1>5. Len(p) = 2 => at[parentOf(p)] = "dir"
  <2> SUFFICES ASSUME Len(p) = 2
               PROVE  at[parentOf(p)] = "dir"
    OBVIOUS
  <2>1. parentOf(p) \in Path /\ parentOf(p) # p /\ Len(parentOf(p)) = 1
    BY PathShape
  <2> QED BY <2>1
<1>6. ASSUME NEW q \in Path, Len(q) = 2, parentOf(q) = p
      PROVE  at[q] = "none"
  <2>1. Len(p) = 1 /\ q # p
    BY <1>6, PathShape
  <2> QED BY <1>6, <2>1
<1>7. ASSUME NEW q \in Path, q # p, parentOf(q) # p, ~(Len(p) = 2 /\ q = parentOf(p))
      PROVE  at[q] = image.at[q]
  BY <1>7
<1>8. /\ image.at \in [Path -> {"none", "dir"} \cup Ino] /\ image.data \in [Ino -> Data]
      /\ data \in [Ino -> Data] /\ data[i] = d
      /\ \A j \in Ino : j # i => data[j] = image.data[j]
  BY <1>0, ImageShape
<1>9. ASSUME NEW q \in Path
      PROVE  image.at[q] # i
  <2> SUFFICES ASSUME image.at[q] = i
               PROVE  FALSE
    OBVIOUS
  <2> DEFINE S == {r \in Path : image.at[r] = i}
  <2>1. Cardinality(S) = 0
    BY DEF ForeignLayer, NlinkOf
  <2>2. IsFiniteSet(S)
    BY PathsFinite, FS_Subset
  <2>3. S = {}
    BY <2>1, <2>2, FS_EmptySet
  <2> QED BY <2>3
<1>10. at \in [Path -> {"none", "dir"} \cup Ino]
  <2> SUFFICES ASSUME NEW q \in Path
               PROVE  at[q] \in {"none", "dir"} \cup Ino
    OBVIOUS
  <2>1. CASE q = p
    BY <1>4, <2>1
  <2>2. CASE Len(p) = 2 /\ q = parentOf(p)
    BY <1>5, <2>2
  <2>3. CASE q # p /\ parentOf(q) = p
    <3>1. Len(q) = 2
      BY <2>3, PathShape
    <3> QED BY <1>6, <2>3, <3>1
  <2>4. CASE q # p /\ parentOf(q) # p /\ ~(Len(p) = 2 /\ q = parentOf(p))
    BY <1>7, <1>8, <2>4
  <2> QED BY <2>1, <2>2, <2>3, <2>4
<1> HIDE DEF at, data
<1>11. ASSUME NEW q \in Path, Len(q) = 2
       PROVE  at[q] # "dir" /\ (at[q] # "none" => at[parentOf(q)] = "dir")
  <2>0. "dir" \notin Ino /\ parentOf(q) \in Path /\ Len(parentOf(q)) = 1
        /\ parentOf(parentOf(q)) = parentOf(q)
    BY <1>11, PathShape, LayerAssumption
  <2>1. CASE q = p
    BY <1>4, <1>5, <1>11, <2>0, <2>1
  <2>2. CASE q # p /\ parentOf(q) = p
    BY <1>6, <1>11, <2>2
  <2>3. CASE q # p /\ parentOf(q) # p
    <3>1. ~(Len(p) = 2 /\ q = parentOf(p))
      BY <1>11, PathShape
    <3>2. at[q] = image.at[q]
      BY <1>7, <2>3, <3>1
    <3>3. image.at[q] # "dir" /\ (image.at[q] # "none" => image.at[parentOf(q)] = "dir")
      BY <1>0, <1>11, ImageShape
    <3>4. image.at[parentOf(q)] = "dir" => at[parentOf(q)] = "dir"
      <4>1. CASE Len(p) = 2 /\ parentOf(q) = parentOf(p)
        BY <1>5, <4>1
      <4>2. CASE ~(Len(p) = 2 /\ parentOf(q) = parentOf(p))
        BY <1>7, <2>0, <2>3, <4>2
      <4> QED BY <4>1, <4>2
    <3> QED BY <3>2, <3>3, <3>4
  <2> QED BY <2>1, <2>2, <2>3
<1>12. image' \in Images
  <2>1. image' \in [at : [Path -> {"none", "dir"} \cup Ino], data : [Ino -> Data]]
    BY <1>1, <1>8, <1>10
  <2>2. ASSUME NEW q \in Path, Len(q) > 1
        PROVE  Len(q) = 2
    <3>1. Len(q) = 1 \/ Len(q) = 2
      BY PathShape
    <3>2. Len(q) = 1 => ~(Len(q) > 1)
      OBVIOUS
    <3> QED BY <2>2, <3>1, <3>2, Zenon
  <2> QED BY <1>2, <1>11, <2>1, <2>2 DEF Images
<1> QED BY <1>2, <1>4, <1>5, <1>6, <1>7, <1>8, <1>9, <1>12

\* A foreign layer: only its own directory may be missing.
LEMMA ForeignStep ==
    ASSUME LayersInv, ~DeltaOverLinks, NEW p \in Path, NEW i \in Ino, NEW d \in Data,
           ForeignLayer(p, i, d)
    PROVE  LayersInv'
<1> DEFINE e == [type |-> "reg", path |-> p, data |-> d]
<1>1. /\ queue = {} /\ nlayers < MaxLayers /\ nlayers' = nlayers + 1 /\ 0 < nlayers
      /\ queue' = {e} /\ UNCHANGED treeVars
      /\ ~hardLinked(image)
  BY NoLinksUnderDelta DEF ForeignLayer
<1>2. CoreInv /\ TypeOK /\ NodesOK /\ nlayers \in Nat /\ image \in Images
  BY <1>1, AtRest DEF CoreInv, TypeOK
<1>3. \A q \in Path : Match(q)
  BY <1>1, AtRest
<1>4. /\ image'.at[p] = i /\ image'.data[i] = d
      /\ Len(p) = 2 => image'.at[parentOf(p)] = "dir"
      /\ \A q \in Path : Len(q) = 2 /\ parentOf(q) = p => image'.at[q] = "none"
      /\ \A q \in Path : q # p /\ parentOf(q) # p /\ ~(Len(p) = 2 /\ q = parentOf(p)) =>
            /\ image'.at[q] = image.at[q]
            /\ image.at[q] \in Ino => image'.data[image'.at[q]] = image.data[image.at[q]]
      /\ image' \in Images
  BY ForeignImage
<1>5. e.type = "reg" /\ e.path = p /\ e.data = d /\ Pending' = {p}
  BY <1>1 DEF Pending
<1> HIDE DEF e
<1>6. /\ (MaxLayers - nlayers) * Room = (MaxLayers - nlayers') * Room + Room
      /\ (MaxLayers - nlayers') * Room \in Nat /\ Room = Len(PathSeq) + 1
      /\ fresh + (MaxLayers - nlayers) * Room <= MaxNode + 1
      /\ fresh \in Nat /\ MaxNode \in Nat /\ Len(PathSeq) \in Nat
      /\ nlayers' \in 0 .. MaxLayers
  BY <1>1, <1>2, RoomForLayer
<1>7. TypeOK' /\ NodesOK'
  BY <1>1, <1>2, <1>4, <1>6 DEF TypeOK, NodesOK, treeVars
<1>8. QueueOK'
  BY <1>1, <1>4, <1>5 DEF QueueOK, EntryOK, tarred
<1>9. Unshared'
  BY <1>1, <1>2, UnsharedKept
<1>10. \A q \in Path : /\ lookup(q)' = lookup(q) /\ seenAt(q)' = seenAt(q) /\ oldKind(q)' = oldKind(q)
                       /\ dirPresent(q)' <=> dirPresent(q)
  BY <1>1, TreeKept
<1>11. ASSUME Len(p) = 2
       PROVE  /\ parentOf(p) \in Path /\ Len(parentOf(p)) = 1 /\ parentOf(p) # p
              /\ dirPresent(p) <=> oldKind(parentOf(p)) = "dir"
  <2>1. parentOf(p) \in Path /\ Len(parentOf(p)) = 1 /\ parentOf(p) # p
    BY <1>11, PathShape
  <2>2. oldKind(parentOf(p)) = "dir" <=> lookup(parentOf(p)) # 0 /\ fkind[lookup(parentOf(p))] = "dir"
    BY <1>2, <2>1, OldKinds
  <2> QED BY <1>11, <2>1, <2>2 DEF dirPresent, ensureDir
<1>12. AwaitsDir(e)' <=> Len(p) = 2 /\ ~dirPresent(p)
  <2>1. AwaitsDir(e)' <=> parentOf(p) \notin Pending' /\ ~(dirPresent(p)')
    BY <1>5 DEF AwaitsDir
  <2>2. Len(p) = 1 => parentOf(p) = p
    BY PathShape
  <2>3. Len(p) = 1 \/ Len(p) = 2
    BY PathShape
  <2> QED BY <1>5, <1>10, <1>11, <2>1, <2>2, <2>3
<1>13. AwaitsOK'
  <2> SUFFICES ASSUME Len(p) = 2, ~dirPresent(p)
               PROVE  /\ nlayers' > 1 /\ image'.at[parentOf(p)] = "dir"
                      /\ \A r \in Path : Len(r) = 2 /\ parentOf(r) = parentOf(p) /\ r # p
                             => image'.at[r] = "none"
    BY <1>1, <1>5, <1>12 DEF AwaitsOK
  <2>1. image.at[parentOf(p)] # "dir"
    <3>1. oldKind(parentOf(p)) = newKind(image, parentOf(p)) /\ oldKind(parentOf(p)) # "dir"
      BY <1>3, <1>11 DEF Match
    <3> QED BY <1>2, <1>11, <3>1, ImageShape
  <2>2. ASSUME NEW r \in Path, Len(r) = 2, parentOf(r) = parentOf(p), r # p
        PROVE  image'.at[r] = "none"
    <3>1. image.at[r] = "none"
      BY <1>2, <2>1, <2>2, ImageShape
    <3>2. parentOf(r) # p /\ r # parentOf(p)
      BY <1>11, <2>2
    <3> QED BY <1>4, <2>2, <3>1, <3>2
  <2> QED BY <1>1, <1>2, <1>4, <2>2
<1>14. Settled'
  <2> SUFFICES ASSUME NEW r \in Path, r # p, parentOf(r) # p,
                      Len(p) = 2 /\ ~dirPresent(p) => parentOf(r) # parentOf(p)
               PROVE  Match(r)'
    BY <1>1, <1>5, <1>12 DEF Settled
  <2>0. Match(r)' <=> /\ oldKind(r) = newKind(image', r)
                      /\ oldKind(r) = "file" =>
                            tarred(fdata[seenAt(r)]) = tarred(image'.data[image'.at[r]])
    BY <1>1, <1>10 DEF Match, newKind, treeVars, tarred
  <2>1. CASE Len(p) = 2 /\ r = parentOf(p)
    <3>1. parentOf(r) = parentOf(p)
      BY <2>1, PathShape
    <3>2. oldKind(r) = "dir"
      BY <1>11, <2>1, <3>1
    <3>3. newKind(image', r) = "dir"
      BY <1>4, <2>1, ImageShape
    <3> QED BY <2>0, <3>2, <3>3
  <2>2. CASE ~(Len(p) = 2 /\ r = parentOf(p))
    <3>1. /\ image'.at[r] = image.at[r]
          /\ image.at[r] \in Ino => image'.data[image'.at[r]] = image.data[image.at[r]]
      BY <1>4, <2>2
    <3>2. newKind(image', r) = newKind(image, r)
      BY <3>1 DEF newKind
    <3>3. Match(r)
      BY <1>3
    <3>4. oldKind(r) = "file" => image.at[r] \in Ino
      BY <1>2, <3>3, ImageShape DEF Match
    <3> QED BY <2>0, <3>1, <3>2, <3>3, <3>4 DEF Match
  <2> QED BY <2>1, <2>2
<1>15. NothingHidden'
  <2>1. "dir" \notin Ino
    BY LayerAssumption
  <2> QED BY <1>4, <1>5, <2>1 DEF NothingHidden
<1>16. NodesLeft'
  <2>1. Cardinality(Pending') = 1
    BY <1>5, FS_Singleton
  <2>2. Len(PathSeq) >= 1
    BY <1>6, PosPlace
  <2>3. fresh' = fresh
    BY <1>1 DEF treeVars
  <2> DEFINE left == (MaxLayers - nlayers') * Room
             used == fresh + Cardinality(Pending') + left
  <2>4. NodesLeft' <=> /\ used <= MaxNode + 1
                       /\ (\E f \in queue' : AwaitsDir(f)') => used <= MaxNode
    BY <2>3 DEF NodesLeft, MaxNode, Room
  <2>5. left \in Nat /\ fresh + (left + Room) <= MaxNode + 1
    BY <1>6
  <2> HIDE DEF left
  <2>6. used <= MaxNode
    BY <1>6, <2>1, <2>2, <2>5
  <2>7. used \in Int
    BY <1>6, <2>1, <2>5
  <2> QED BY <1>6, <2>4, <2>6, <2>7
<1>17. FullLayer' /\ NoLayer'
  BY <1>1, <1>2 DEF FullLayer, NoLayer
<1> QED BY <1>7, <1>8, <1>9, <1>13, <1>14, <1>15, <1>16, <1>17 DEF LayersInv

-----------------------------------------------------------------------------
(* A directory that a foreign layer does not mention. *)

\* ensureDir puts a fresh and empty directory where the entry needs one.
LEMMA CreateCore ==
    ASSUME LayersInv, CreateParent
    PROVE  /\ CoreInv'
           /\ \A r \in Path : Len(r) = 2 /\ lookup(r)' # 0 =>
                 /\ lookup(r)' = lookup(r) /\ lookup(parentOf(r)) # 0
                 /\ fkind'[lookup(parentOf(r))'] = fkind[lookup(parentOf(r))]
           /\ \A e \in queue' : Len(e.path) = 2
<1>1. PICK e \in queue :
         /\ isHead(e) /\ ~dirPresent(e.path)
         /\ child' = [child EXCEPT ![1][e.path[1]] = fresh]
         /\ fkind' = [fkind EXCEPT ![fresh] = "dir"]
         /\ fnlink' = [fnlink EXCEPT ![fresh] = 2]
         /\ fresh' = fresh + 1
         /\ UNCHANGED <<image, nlayers, queue, fdata>>
  BY DEF CreateParent
<1> DEFINE p == e.path
           q == parentOf(p)
<1>2. TypeOK /\ NodesOK /\ QueueOK /\ p \in Path /\ image \in Images
  BY DEF LayersInv, QueueOK, EntryOK, TypeOK
<1>3. Len(p) = 2
  BY <1>1, <1>2, RootPresent, PathShape
<1>4. /\ q \in Path /\ Len(q) = 1 /\ q[1] = p[1] /\ q # p /\ parentOf(q) = q
      /\ base(q) = q[1] /\ pos(q) < pos(p)
  <2>1. q \in Path /\ Len(q) = 1 /\ q[1] = p[1] /\ q # p /\ parentOf(q) = q /\ pos(q) < pos(p)
    BY <1>2, <1>3, PathShape
  <2>2. base(q) = q[1]
    BY <2>1, PathShape
  <2> QED BY <2>1, <2>2
<1>5. q \notin Pending
  <2> SUFFICES ASSUME NEW f \in queue, f.path = q
               PROVE  FALSE
    BY DEF Pending
  <2>1. pos(p) <= pos(q)
    BY <1>1 DEF isHead
  <2> QED BY <1>2, <1>4, <2>1, PosOrders
<1>6. AwaitsDir(e)
  BY <1>1, <1>5 DEF AwaitsDir
<1>7. /\ queue = {e} /\ e.type = "reg" /\ nlayers > 1 /\ image.at[q] = "dir"
      /\ \A r \in Path : Len(r) = 2 /\ parentOf(r) = q /\ r # p => image.at[r] = "none"
  BY <1>6 DEF LayersInv, AwaitsOK
<1>8. Pending = {p} /\ Pending' = {p} /\ queue' = queue
  BY <1>1, <1>7 DEF Pending
<1>9. /\ fresh \in Node /\ fresh \in 0 .. MaxNode /\ fresh # 1 /\ fresh # 0 /\ fresh \in Nat
      /\ MaxNode \in Nat /\ 1 \in Node /\ fresh >= 2
      /\ fresh + 1 + Cardinality(Pending) + (MaxLayers - nlayers) * Room <= MaxNode + 1
      /\ fresh + 1 \in 2 .. MaxNode + 1
  <2>1. fresh \in Nat /\ MaxNode \in Nat /\ 1 \in Node /\ fresh >= 2
    BY <1>2, LookupType DEF TypeOK
  <2>2. fresh + Cardinality(Pending) + (MaxLayers - nlayers) * Room <= MaxNode
    BY <1>6 DEF LayersInv, NodesLeft
  <2>3. Cardinality(Pending) = 1 /\ (MaxLayers - nlayers) * Room \in Nat
    BY <1>2, <1>8, FS_Singleton, PendingCounts
  <2> DEFINE left == (MaxLayers - nlayers) * Room
  <2> HIDE DEF left
  <2>4. fresh + 1 + Cardinality(Pending) + left <= MaxNode + 1 /\ fresh <= MaxNode
    BY <2>1, <2>2, <2>3 DEF left
  <2>5. fresh \in Node /\ fresh \in 0 .. MaxNode
    BY <2>1, <2>4 DEF Node
  <2> QED BY <2>1, <2>4, <2>5 DEF left
<1>10. ensureDir(q) = 1 /\ OnlyDirOf(q)
  BY <1>4 DEF ensureDir, OnlyDirOf
<1>11. child' = [child EXCEPT ![ensureDir(q)][base(q)] = fresh]
  BY <1>1, <1>4, <1>10
<1>12. /\ lookup(q)' = fresh
       /\ \A r \in Path : r # q /\ parentOf(r) # q =>
             lookup(r)' = lookup(r) /\ lookup(parentOf(r))' = lookup(parentOf(r))
       /\ \A r \in Path : Len(r) = 2 /\ parentOf(r) = q =>
             lookup(r)' = IF fresh = 0 THEN 0 ELSE child[fresh][r[2]]
       /\ child' \in [Node -> [Name -> 0 .. MaxNode]]
       /\ base(q) \in Name
  <2>1. ensureDir(q) # 0
    BY <1>10
  <2>2. TypeOK /\ NodesOK /\ q \in Path /\ fresh \in 0 .. MaxNode /\ fresh # 1
    BY <1>2, <1>4, <1>9
  <2> HIDE DEF q
  <2> QED BY <1>10, <1>11, <2>1, <2>2, TreePut
<1>13. ASSUME NEW r \in Path, r # q, parentOf(r) = q
       PROVE  lookup(r)' = 0 /\ Len(r) = 2
  <2>1. Len(r) = 2 /\ r[2] \in Name
    BY <1>13, PathShape
  <2>2. child[fresh][r[2]] = 0
    BY <1>2, <1>9, <2>1 DEF NodesOK
  <2> QED BY <1>12, <1>13, <2>1, <2>2
<1>14. /\ fkind' \in [Node -> {"dir", "file"}] /\ fkind'[fresh] = "dir"
       /\ \A n \in Node : n # fresh => fkind'[n] = fkind[n]
       /\ fnlink' \in [Node -> Nat] /\ fdata' = fdata
  BY <1>1, <1>2, <1>9 DEF TypeOK
<1>15. ASSUME NEW r \in Path, lookup(r) # 0
       PROVE  lookup(r) \in Node /\ lookup(r) # fresh /\ fkind'[lookup(r)] = fkind[lookup(r)]
  <2>1. lookup(r) \in Node /\ lookup(r) \in 2 .. fresh - 1
    BY <1>2, <1>15, LookupType
  <2> QED BY <1>9, <1>14, <2>1
<1>16. TypeOK'
  BY <1>1, <1>2, <1>9, <1>12, <1>14 DEF TypeOK
<1>17. QueueOK'
  <2>1. \A f \in queue' : EntryOK(f)'
    BY <1>1, <1>2 DEF QueueOK, EntryOK
  <2> QED BY <1>1, <1>2, <2>1 DEF QueueOK
<1>18. NodesOK'
  <2>1. fkind'[1] = "dir"
    BY <1>2, <1>9, <1>14 DEF NodesOK
  <2>2. ASSUME NEW n \in Node, NEW x \in Name
        PROVE  /\ child'[n][x] = 0 \/ child'[n][x] \in 2 .. fresh' - 1
               /\ n >= fresh' => child'[n][x] = 0
    <3>0. n \in Int
      BY DEF Node
    <3>1. CASE n = 1 /\ x = base(q)
      <4>1. child'[n][x] = fresh
        BY <1>2, <1>9, <1>10, <1>11, <1>12, <3>1 DEF TypeOK
      <4> QED BY <1>1, <1>9, <3>0, <3>1, <4>1
    <3>2. CASE ~(n = 1 /\ x = base(q))
      <4>1. child'[n][x] = child[n][x]
        BY <1>2, <1>10, <1>11, <3>2 DEF TypeOK
      <4> QED BY <1>1, <1>2, <1>9, <3>0, <4>1 DEF NodesOK
    <3> QED BY <3>1, <3>2
  <2> QED BY <2>1, <2>2 DEF NodesOK
<1>19. \A r \in Path : r # q /\ lookup(r)' # 0 => lookup(r)' = lookup(r) /\ parentOf(r) # q
  BY <1>12, <1>13
<1>20. Unshared'
  <2> SUFFICES ASSUME NEW r \in Path, NEW s \in Path, lookup(r)' = lookup(s)', lookup(r)' # 0
               PROVE  r = s
    BY DEF Unshared
  <2>1. CASE r # q /\ s # q
    BY <1>7, <1>19, <2>1 DEF LayersInv, Unshared
  <2>2. CASE r = q
    BY <1>12, <1>15, <1>19, <2>2
  <2>3. CASE s = q
    BY <1>12, <1>15, <1>19, <2>3
  <2> QED BY <2>1, <2>2, <2>3
<1>21. SettledAll'
  <2> SUFFICES ASSUME NEW r \in Path, r # p
               PROVE  Match(r)'
    BY <1>8 DEF SettledAll
  <2>1. SeenForms' /\ MatchForms'
    BY <1>16, <1>18, SeenFormsHold, MatchFormsHold, PTL
  <2>2. CASE r = q
    <3>1. seenAt(r)' = fresh
      BY <1>4, <1>12, <2>1, <2>2 DEF SeenForms
    <3> QED BY <1>1, <1>7, <1>9, <1>14, <2>1, <2>2, <3>1 DEF MatchForms
  <2>3. CASE r # q /\ parentOf(r) = q
    <3>1. lookup(r)' = 0 /\ image.at[r] = "none"
      BY <1>7, <1>13, <2>3
    <3>2. seenAt(r)' = 0
      BY <2>1, <3>1 DEF SeenForms
    <3> QED BY <1>1, <2>1, <3>1, <3>2 DEF MatchForms
  <2>4. CASE r # q /\ parentOf(r) # q
    <3>1. parentOf(r) \notin Pending /\ r \notin Pending
      BY <1>3, <1>8, PathShape
    <3>2. Match(r)
      BY <1>7, <2>4, <3>1 DEF LayersInv, Settled
    <3>3. parentOf(r) \in Path
      BY PathShape
    <3>4. lookup(r)' = lookup(r) /\ lookup(parentOf(r))' = lookup(parentOf(r))
      BY <1>12, <2>4
    <3> QED BY <1>1, <1>2, <1>14, <1>15, <3>2, <3>3, <3>4, MatchKept
  <2> QED BY <2>2, <2>3, <2>4
<1>22. NothingHidden'
  BY <1>3, <1>8, PathShape DEF NothingHidden
<1>23. Fits'
  <2>1. Fits' <=> fresh + 1 + Cardinality(Pending) + (MaxLayers - nlayers) * Room <= MaxNode + 1
    BY <1>1, <1>8 DEF Fits, MaxNode, Room
  <2> QED BY <1>9, <2>1
<1>24. FullLayer' /\ NoLayer'
  BY <1>1, <1>2, <1>7 DEF FullLayer, NoLayer, TypeOK
<1>25. CoreInv'
  BY <1>16, <1>17, <1>18, <1>20, <1>21, <1>22, <1>23, <1>24 DEF CoreInv
<1>26. ASSUME NEW r \in Path, Len(r) = 2, lookup(r)' # 0
       PROVE  /\ lookup(r)' = lookup(r) /\ lookup(parentOf(r)) # 0
              /\ fkind'[lookup(parentOf(r))'] = fkind[lookup(parentOf(r))]
  <2>1. r # q /\ parentOf(r) # q /\ lookup(r)' = lookup(r) /\ parentOf(r) \in Path
    BY <1>4, <1>19, <1>26, PathShape
  <2>2. lookup(parentOf(r))' = lookup(parentOf(r))
    BY <1>12, <2>1
  <2>3. lookup(parentOf(r)) # 0
    BY <1>26, <2>1, LookupForm
  <2> QED BY <1>15, <2>1, <2>2, <2>3
<1> QED BY <1>3, <1>7, <1>8, <1>25, <1>26

\* Creating the directory keeps the invariant.
LEMMA CreateStep ==
    ASSUME LayersInv, CreateParent
    PROVE  LayersInv'
<1>1. CoreInv'
  BY CreateCore
<1> QED BY <1>1, QuietOut, PTL

\* The tree that Flatten starts from.
LEMMA InitLayers == Init => LayersInv
<1> SUFFICES ASSUME Init
             PROVE  LayersInv
  OBVIOUS
<1>0. /\ MaxLayers \in Nat /\ Len(PathSeq) \in Nat /\ MaxNode \in Nat /\ 1 \in Node
      /\ MaxNode = MaxLayers * Room + 1 /\ MaxLayers * Room \in Nat
  <2>1. MaxLayers \in Nat /\ Len(PathSeq) \in Nat
    BY LayerAssumption
  <2>2. Len(PathSeq) + 1 \in Nat
    BY <2>1
  <2>3. \A a, b \in Nat : a * b \in Nat
    OBVIOUS
  <2>4. MaxLayers * Room \in Nat /\ MaxNode = MaxLayers * Room + 1
    BY <2>1, <2>2, <2>3 DEF Room, MaxNode
  <2>5. MaxNode \in Nat
    BY <2>4
  <2> QED BY <2>1, <2>4, <2>5 DEF Node
<1>1. /\ image = Empty /\ nlayers = 0 /\ queue = {} /\ fresh = 2
      /\ child = [m \in Node |-> [x \in Name |-> 0]]
      /\ fkind = [m \in Node |-> "dir"] /\ fdata = [m \in Node |-> Plain]
      /\ fnlink = [m \in Node |-> 2]
  BY DEF Init
<1>2. Empty \in Images /\ \A p \in Path : Empty.at[p] = "none"
  <2>1. Empty \in [at : [Path -> {"none", "dir"} \cup Ino], data : [Ino -> Data]]
    BY LayerAssumption DEF Empty
  <2>2. \A p \in Path : Empty.at[p] = "none"
    BY DEF Empty
  <2> QED BY <2>1, <2>2 DEF Images
<1>3. TypeOK
  <2>1. child \in [Node -> [Name -> 0 .. MaxNode]]
    BY <1>0, <1>1
  <2> QED BY <1>0, <1>1, <1>2, <2>1, LayerAssumption DEF TypeOK
<1>4. QueueOK /\ NoLayer /\ FullLayer /\ NodesOK
  BY <1>0, <1>1 DEF QueueOK, NoLayer, FullLayer, NodesOK
<1>5. Pending = {}
  BY <1>1 DEF Pending
<1>6. ASSUME NEW p \in Path
      PROVE  lookup(p) = 0
  <2>1. p[1] \in Name
    BY PathShape
  <2>2. child[1][p[1]] = 0
    BY <1>0, <1>1, <2>1
  <2> QED BY <2>2, PathShape, LookupForm
<1>7. Unshared
  BY <1>6 DEF Unshared
<1>8. SettledAll
  <2> SUFFICES ASSUME NEW p \in Path
               PROVE  Match(p)
    BY DEF SettledAll
  <2>1. seenAt(p) = 0
    BY <1>6, LookupForm
  <2> QED BY <1>1, <1>2, <1>3, <1>4, <2>1, MatchForm
<1>9. NothingHidden
  BY <1>5 DEF NothingHidden
<1>10. Fits
  <2>1. Cardinality(Pending) = 0
    BY <1>5, FS_EmptySet
  <2>2. MaxLayers - nlayers = MaxLayers
    BY <1>0, <1>1
  <2>3. Fits <=> 2 + 0 + MaxLayers * Room <= MaxNode + 1
    BY <1>1, <2>1, <2>2 DEF Fits
  <2> HIDE DEF Room
  <2> QED BY <1>0, <2>3
<1>11. CoreInv
  BY <1>3, <1>4, <1>7, <1>8, <1>9, <1>10 DEF CoreInv
<1> QED BY <1>11, QuietOut

-----------------------------------------------------------------------------
(* When is nothing hidden: no more than two layers, or no buried directory. *)

\* While there is at most one layer, files have nothing under them.
LEMMA OneLayerClean ==
    ASSUME LayersInv, nlayers <= 1
    PROVE  Clean
<1> SUFFICES ASSUME NEW p \in Path, Len(p) = 2, lookup(p) # 0
             PROVE  fkind[lookup(parentOf(p))] = "dir"
  BY DEF Clean
<1>0. TypeOK /\ NodesOK /\ nlayers \in Nat
  BY DEF LayersInv, TypeOK
<1>1. /\ lookup(parentOf(p)) # 0 /\ lookup(p) = child[lookup(parentOf(p))][p[2]]
      /\ p[2] \in Name
  BY LookupForm, PathShape
<1>2. lookup(parentOf(p)) \in Node
  BY <1>0, <1>1, LookupType
<1>3. nlayers # 0
  BY <1>1, <1>2 DEF LayersInv, NoLayer
<1>4. nlayers = 1
  BY <1>0, <1>3
<1>5. fkind[lookup(parentOf(p))] # "file"
  BY <1>1, <1>2, <1>4 DEF LayersInv, FullLayer
<1> QED BY <1>0, <1>2, <1>5 DEF TypeOK

\* Nothing happens when nothing changes.
LEMMA StutterKeeps ==
    ASSUME LayersInv, UNCHANGED vars
    PROVE  LayersInv'
<1>1. /\ image' = image /\ nlayers' = nlayers /\ queue' = queue /\ child' = child
      /\ fkind' = fkind /\ fdata' = fdata /\ fnlink' = fnlink /\ fresh' = fresh
      /\ UNCHANGED treeVars
  BY DEF vars, treeVars
<1>2. Pending' = Pending
  BY <1>1 DEF Pending
<1>3. \A p : lookup(p)' = lookup(p)
  BY <1>1 DEF lookup, findChild
<1>5. ASSUME NEW p \in Path
      PROVE  Match(p)' <=> Match(p)
  <2>1. seenAt(p)' = seenAt(p) /\ oldKind(p)' = oldKind(p)
    BY <1>1, TreeKept
  <2> QED BY <1>1, <2>1 DEF Match, newKind, tarred
<1>6. TypeOK' /\ NodesOK' /\ NoLayer'
  BY <1>1 DEF LayersInv, TypeOK, NodesOK, NoLayer
<1>7. \A e \in queue : EntryOK(e)' <=> EntryOK(e)
  BY <1>1 DEF EntryOK
<1>8. QueueOK'
  BY <1>1, <1>7 DEF LayersInv, QueueOK
<1>9. ASSUME NEW e \in queue
      PROVE  AwaitsDir(e)' <=> AwaitsDir(e)
  <2>1. e.path \in Path
    BY DEF LayersInv, QueueOK, EntryOK
  <2>2. dirPresent(e.path)' <=> dirPresent(e.path)
    BY <1>1, <2>1, TreeKept
  <2> QED BY <1>2, <2>2 DEF AwaitsDir
<1>10. AwaitsOK'
  BY <1>1, <1>9 DEF LayersInv, AwaitsOK
<1>11. Unshared' /\ NothingHidden'
  BY <1>1, <1>2, <1>3 DEF LayersInv, Unshared, NothingHidden
<1>12. Settled'
  BY <1>1, <1>2, <1>5, <1>9 DEF LayersInv, Settled
<1>13. NodesLeft'
  BY <1>1, <1>2, <1>9 DEF LayersInv, NodesLeft
<1>14. FullLayer'
  BY <1>1, <1>2, <1>3 DEF LayersInv, FullLayer
<1> QED BY <1>6, <1>8, <1>10, <1>11, <1>12, <1>13, <1>14 DEF LayersInv

\* One step, when nothing is hidden at the start of a layer.
LEMMA LayersStep ==
    ASSUME LayersInv, ~DeltaOverLinks, [Next]_vars, queue = {} => Clean
    PROVE  LayersInv'
<1>1. CASE \E im \in Images : AddLayer(im)
  <2>1. PICK im \in Images : AddLayer(im)
    BY <1>1
  <2>2. Clean
    BY <2>1 DEF AddLayer
  <2> QED BY <2>1, <2>2, AddStep
<1>2. CASE \E p \in Path, i \in Ino, d \in Data : ForeignLayer(p, i, d)
  BY <1>2, ForeignStep
<1>3. CASE CreateParent
  BY <1>3, CreateStep
<1>4. CASE ApplyEntry
  BY <1>4, ApplyStep
<1>5. CASE UNCHANGED vars
  BY <1>5, StutterKeeps
<1> QED BY <1>1, <1>2, <1>3, <1>4, <1>5 DEF Next

CleanInv == LayersInv /\ Clean /\ KeepsClean

\* A layer that buries no directory keeps files without anything under them.
LEMMA WrittenClean ==
    ASSUME CleanInv, queue = {}, UNCHANGED treeVars, ~BuriesTree, QueueOK'
    PROVE  Clean' /\ KeepsClean'
<1>1. \A p \in Path : lookup(p)' = lookup(p) /\ lookup(parentOf(p))' = lookup(parentOf(p))
  BY TreeKept
<1>2. Clean'
  BY <1>1 DEF Clean, CleanInv, treeVars
<1>3. KeepsClean'
  <2> SUFFICES ASSUME NEW p \in Path, NEW e \in queue', Len(p) = 2, lookup(p) # 0,
                      parentOf(p) = e.path, e.type = "reg"
               PROVE  FALSE
    BY <1>1 DEF KeepsClean
  <2>1. image'.at[e.path] \in Ino
    BY DEF QueueOK, EntryOK
  <2>2. lookup(parentOf(p)) # 0 /\ fkind[lookup(parentOf(p))] = "dir"
    BY LookupForm DEF CleanInv, Clean
  <2>3. seenAt(p) # 0
    BY <2>2, LookupForm
  <2>4. Match(p) /\ TypeOK /\ NodesOK
    BY AtRest DEF CleanInv, LayersInv
  <2>5. image.at[p] # "none"
    BY <2>3, <2>4, MatchForm
  <2> QED BY <2>1, <2>5 DEF BuriesTree
<1> QED BY <1>2, <1>3

\* Applying an entry of such a layer does too.
LEMMA AppliedClean ==
    ASSUME CleanInv, ApplyEntry
    PROVE  Clean' /\ KeepsClean'
<1>1. CoreInv /\ \E e \in queue : /\ isHead(e) /\ dirPresent(e.path)
                                  /\ \E m \in 0 .. MaxNode : Puts(e, m)
  BY ApplyPuts DEF CleanInv
<1>2. PICK e \in queue : /\ isHead(e) /\ dirPresent(e.path)
                         /\ \E m \in 0 .. MaxNode : Puts(e, m)
  BY <1>1
<1>3. PICK m \in 0 .. MaxNode : Puts(e, m)
  BY <1>2
<1> DEFINE p == e.path
<1>4. /\ p \in Path /\ EntryOK(e) /\ Pending' = Pending \ {p}
      /\ Len(p) = 2 => parentOf(p) \notin Pending
      /\ fkind[ensureDir(p)] = "dir" /\ ensureDir(p) # 0
      /\ queue' = queue \ {e}
  <2>1. queue' = queue \ {e}
    BY <1>3 DEF Puts
  <2> QED BY <1>1, <1>2, <2>1, HeadFacts
<1>5. /\ lookup(p)' = m
      /\ \A r \in Path : r # p /\ parentOf(r) # p =>
            lookup(r)' = lookup(r) /\ lookup(parentOf(r))' = lookup(parentOf(r))
      /\ \A r \in Path : Len(r) = 2 /\ parentOf(r) = p => lookup(r)' = IF m = 0 THEN 0 ELSE child[m][r[2]]
  BY <1>1, <1>2, <1>3, PutsTypes
<1>6. ASSUME NEW r \in Path, r # p, lookup(r) # 0
      PROVE  fkind'[lookup(r)] = fkind[lookup(r)]
  <2>1. lookup(r) \in Node
    BY <1>1, <1>6, LookupType DEF CoreInv
  <2> QED BY <1>3, <1>6, <2>1 DEF Puts
<1>7. Clean'
  <2> SUFFICES ASSUME NEW r \in Path, Len(r) = 2, lookup(r)' # 0
               PROVE  fkind'[lookup(parentOf(r))'] = "dir"
    BY DEF Clean
  <2>1. /\ parentOf(r) \in Path /\ parentOf(r) # r /\ parentOf(parentOf(r)) = parentOf(r)
        /\ r[2] \in Name
    BY PathShape
  <2>2. CASE r = p
    <3>1. lookup(parentOf(p))' = lookup(parentOf(p)) /\ parentOf(p) # p
      BY <1>5, <2>1, <2>2
    <3>2. ensureDir(p) = lookup(parentOf(p))
      BY <2>2 DEF ensureDir
    <3> QED BY <1>4, <1>6, <2>1, <2>2, <3>1, <3>2
  <2>3. CASE parentOf(r) = p
    <3>1. m # 0 /\ child[m][r[2]] # 0 /\ lookup(parentOf(r))' = m
      BY <1>5, <2>3
    <3>2. image \in Images
      BY <1>1 DEF CoreInv, TypeOK
    <3>3. CASE image.at[p] = "dir"
      BY <1>3, <3>1, <3>3 DEF Puts
    <3>4. CASE image.at[p] = "none"
      BY <1>3, <3>1, <3>4 DEF Puts
    <3>5. CASE image.at[p] \in Ino
      <4>0. "none" \notin Ino /\ "dir" \notin Ino
        BY LayerAssumption
      <4>1. CASE e.type = "link"
        <5>1. nlayers = 1
          BY <1>4, <4>1 DEF EntryOK
        <5>2. LayersInv
          BY DEF CleanInv
        <5>3. \A n \in Node, x \in Name : fkind[n] = "file" => child[n][x] = 0
          BY <5>1, <5>2 DEF LayersInv, FullLayer
        <5>4. applyLink(e)
          <6>1. PICK f \in queue :
                   /\ isHead(f)
                   /\ applyDir(f) \/ applyReg(f) \/ applyLink(f) \/ applyWhiteout(f)
                   /\ queue' = queue \ {f}
            BY DEF ApplyEntry
          <6>2. f = e
            BY <1>4, <6>1
          <6> QED BY <4>1, <6>1, <6>2 DEF applyDir, applyReg, applyWhiteout
        <5>5. fkind' = fkind
          BY <5>4 DEF applyLink
        <5>6. fkind[m] = "file" /\ m \in Node
          <6>1. m \in Node
            BY <1>1, <1>4, <3>1, LookupType DEF Node, CoreInv
          <6> QED BY <1>3, <3>5, <5>5, <6>1 DEF Puts
        <5> QED BY <2>1, <3>1, <5>3, <5>6
      <4>2. CASE e.type # "link"
        <5>1. e.type = "reg"
          BY <1>4, <3>5, <4>0, <4>2 DEF EntryOK
        <5>2. lookup(r) # 0
          BY <1>3, <2>3, <3>1, <4>2 DEF Puts
        <5> QED BY <2>3, <5>1, <5>2 DEF CleanInv, KeepsClean
      <4> QED BY <4>1, <4>2
    <3> QED BY <1>4, <3>2, <3>3, <3>4, <3>5, ImageShape
  <2>4. CASE r # p /\ parentOf(r) # p
    <3>1. lookup(r)' = lookup(r) /\ lookup(parentOf(r))' = lookup(parentOf(r))
      BY <1>5, <2>4
    <3>2. lookup(parentOf(r)) # 0
      BY <3>1, LookupForm
    <3>3. fkind[lookup(parentOf(r))] = "dir"
      BY <3>1 DEF CleanInv, Clean
    <3> QED BY <1>6, <2>1, <2>4, <3>1, <3>2, <3>3
  <2> QED BY <2>2, <2>3, <2>4
<1>8. KeepsClean'
  <2> SUFFICES ASSUME NEW r \in Path, NEW f \in queue', Len(r) = 2, lookup(r)' # 0,
                      parentOf(r) = f.path
               PROVE  f.type # "reg"
    BY DEF KeepsClean
  <2>1. f \in queue /\ f # e /\ f.path \in Pending /\ f.path # p
    BY <1>1, <1>4 DEF Pending, CoreInv, QueueOK
  <2>2. r # p
    BY <1>4, <2>1
  <2>3. lookup(r)' = lookup(r)
    BY <1>5, <2>1, <2>2
  <2> QED BY <2>1, <2>3 DEF CleanInv, KeepsClean
<1> QED BY <1>7, <1>8

\* As long as no layer puts a file where a directory with something in it was,
\* nothing is ever hidden.
LEMMA CleanStep ==
    ASSUME CleanInv, [CarefulNext]_vars
    PROVE  CleanInv'
<1>0. [Next]_vars /\ ~DeltaOverLinks
  BY DEF CarefulNext, DeltaOverLinks, vars
<1>1. LayersInv'
  BY <1>0, LayersStep DEF CleanInv
<1>2. CASE UNCHANGED vars
  <2>1. image' = image /\ queue' = queue /\ child' = child /\ fkind' = fkind
    BY <1>2 DEF vars, treeVars
  <2>2. Clean' /\ KeepsClean'
    BY <2>1 DEF CleanInv, Clean, KeepsClean, lookup, findChild, parentOf
  <2> QED BY <1>1, <2>2 DEF CleanInv
<1>3. CASE ApplyEntry
  BY <1>1, <1>3, AppliedClean DEF CleanInv
<1>4. CASE CreateParent
  <2>1. /\ \A r \in Path : Len(r) = 2 /\ lookup(r)' # 0 =>
              /\ lookup(r)' = lookup(r) /\ lookup(parentOf(r)) # 0
              /\ fkind'[lookup(parentOf(r))'] = fkind[lookup(parentOf(r))]
        /\ \A e \in queue' : Len(e.path) = 2
    BY <1>4, CreateCore DEF CleanInv
  <2>2. Clean'
    BY <2>1 DEF CleanInv, Clean
  <2>3. KeepsClean'
    <3>1. \A r \in Path : Len(parentOf(r)) = 1
      BY DEF parentOf
    <3> QED BY <2>1, <3>1 DEF KeepsClean
  <2> QED BY <1>1, <2>2, <2>3 DEF CleanInv
<1>5. CASE /\ ~UNCHANGED vars
           /\ \/ \E im \in Images : AddLayer(im)
              \/ \E p \in Path, i \in Ino, d \in Data : ForeignLayer(p, i, d)
  <2>1. queue = {} /\ UNCHANGED treeVars
    BY <1>5 DEF AddLayer, ForeignLayer
  <2>2. ~BuriesTree
    BY <1>5 DEF CarefulNext
  <2>3. QueueOK'
    BY <1>1 DEF LayersInv
  <2> QED BY <1>1, <2>1, <2>2, <2>3, WrittenClean DEF CleanInv
<1> QED BY <1>0, <1>2, <1>3, <1>4, <1>5 DEF Next

-----------------------------------------------------------------------------
(* The theorems. *)

\* In the full layer no entry waits for a directory.
LEMMA FullLayerQuiet ==
    ASSUME LayersInv, nlayers <= 1
    PROVE  CoreInv
<1>0. nlayers \in Nat
  BY DEF LayersInv, TypeOK
<1>1. ASSUME NEW e \in queue, isHead(e)
      PROVE  dirPresent(e.path)
  <2> SUFFICES ASSUME ~dirPresent(e.path)
               PROVE  FALSE
    OBVIOUS
  <2>1. e.path \in Path /\ NodesOK
    BY DEF LayersInv, QueueOK, EntryOK
  <2>2. Len(e.path) = 2
    BY <2>1, RootPresent, PathShape
  <2>3. parentOf(e.path) \notin Pending
    <3> SUFFICES ASSUME NEW f \in queue, f.path = parentOf(e.path)
                 PROVE  FALSE
      BY DEF Pending
    <3>1. pos(e.path) <= pos(parentOf(e.path))
      BY <1>1 DEF isHead
    <3>2. pos(parentOf(e.path)) < pos(e.path) /\ parentOf(e.path) \in Path
      BY <2>1, <2>2, PathShape
    <3> QED BY <2>1, <3>1, <3>2, PosOrders
  <2>4. nlayers > 1
    BY <2>3 DEF LayersInv, AwaitsOK, AwaitsDir
  <2> QED BY <1>0, <2>4
<1> QED BY <1>1, QuietIn

\* Link entries are written in full layers only, where their target comes first.
LinkInv ==
    /\ nlayers \in Nat
    /\ nlayers <= 1 => LayersInv
    /\ nlayers > 1 => \A e \in queue : e.type # "link"

\* The step of that invariant.
LEMMA LinkStepInv ==
    ASSUME LinkInv, ~DeltaOverLinks, [Next]_vars
    PROVE  LinkInv'
<1>1. ASSUME nlayers' <= 1, nlayers <= 1
      PROVE  LinkInv'
  <2>1. LayersInv /\ Clean
    BY <1>1, OneLayerClean DEF LinkInv
  <2>2. LayersInv'
    BY <2>1, LayersStep
  <2>3. nlayers' \in Nat
    BY <2>2 DEF LayersInv, TypeOK
  <2> QED BY <1>1, <2>2, <2>3 DEF LinkInv
<1>2. CASE \E im \in Images : AddLayer(im)
  <2>1. PICK im \in Images : AddLayer(im)
    BY <1>2
  <2>2. /\ nlayers' = nlayers + 1 /\ queue' = writeDiffLayer(im) /\ nlayers \in Nat
        /\ nlayers' # nlayers /\ image' = im
    BY <2>1 DEF AddLayer, LinkInv
  <2>3. CASE nlayers = 0
    BY <1>1, <2>2, <2>3
  <2>4. CASE nlayers # 0
    <3>1. ~hardLinked(im)
      BY <2>2, <2>4 DEF DeltaOverLinks
    <3>2. ASSUME NEW e \in queue'
          PROVE  e.type # "link"
      <4>1. /\ e.path \in Path
            /\ \/ whitedOut(im, e.path) /\ e = [type |-> "whiteout", path |-> e.path]
               \/ emitted(im, e.path) /\ e = writeEntry(im, e.path)
        BY <2>2, <3>2, LayerPaths
      <4>2. CASE e = [type |-> "whiteout", path |-> e.path]
        BY <4>2
      <4>3. CASE emitted(im, e.path) /\ e = writeEntry(im, e.path)
        <5>1. e.type = "link" => im.at[e.path] \in Ino /\ NlinkOf(im, im.at[e.path]) > 1
          BY <4>1, <4>3, EntryForms
        <5> QED BY <3>1, <5>1 DEF hardLinked
      <4> QED BY <4>1, <4>2, <4>3
    <3> QED BY <2>2, <2>4, <3>2 DEF LinkInv
  <2> QED BY <2>3, <2>4
<1>3. CASE \E p \in Path, i \in Ino, d \in Data : ForeignLayer(p, i, d)
  <2>1. PICK p \in Path, i \in Ino, d \in Data : ForeignLayer(p, i, d)
    BY <1>3
  <2>2. /\ nlayers \in Nat /\ 0 < nlayers /\ nlayers' = nlayers + 1
        /\ queue' = {[type |-> "reg", path |-> p, data |-> d]}
    BY <2>1 DEF ForeignLayer, LinkInv
  <2> QED BY <2>2 DEF LinkInv
<1>4. CASE CreateParent \/ ApplyEntry \/ UNCHANGED vars
  <2>1. nlayers' = nlayers /\ queue' \subseteq queue
    BY <1>4 DEF CreateParent, ApplyEntry, vars
  <2>2. CASE nlayers <= 1
    BY <1>1, <2>1, <2>2
  <2>3. CASE ~(nlayers <= 1)
    BY <2>1, <2>3 DEF LinkInv
  <2> QED BY <2>2, <2>3
<1> QED BY <1>2, <1>3, <1>4 DEF Next

\* A hard link entry always finds its target, however many layers there are, if none
\* but the first is for an image with hard links or over one: writeEntry names a path
\* that it has written before, and no entry in between removes it.
THEOREM LinkTargetsArePresent ==
    Spec /\ [][~DeltaOverLinks]_vars => []LinkTargetPresent
<1>1. Init => LinkInv
  <2> SUFFICES ASSUME Init
               PROVE  LinkInv
    OBVIOUS
  <2>1. LayersInv /\ nlayers = 0
    BY InitLayers DEF Init
  <2> QED BY <2>1 DEF LinkInv
<1>2. LinkInv /\ [Next]_vars /\ [~DeltaOverLinks]_vars => LinkInv'
  BY LinkStepInv DEF DeltaOverLinks, vars
<1>3. LinkInv => LinkTargetPresent
  <2> SUFFICES ASSUME LinkInv, NEW e \in queue, isHead(e), e.type = "link"
               PROVE  lookup(e.target) # 0 /\ fkind[lookup(e.target)] = "file"
    BY DEF LinkTargetPresent
  <2>1. nlayers <= 1
    BY DEF LinkInv
  <2>2. CoreInv
    BY <2>1, FullLayerQuiet DEF LinkInv
  <2> QED BY <2>2, TargetFound
<1> QED BY <1>1, <1>2, <1>3, PTL DEF Spec

\* The invariant gives the image back.
LEMMA InvRestores ==
    ASSUME LayersInv
    PROVE  FlattenRestores /\ (Special = {} => RoundTrip)
<1>1. queue = {} => \A p \in Path : Match(p)
  BY AtRest
<1>2. ASSUME Special = {}
      PROVE  RoundTrip
  <2> SUFFICES ASSUME queue = {}, NEW p \in Path
               PROVE  /\ oldKind(p) = newKind(image, p)
                      /\ oldKind(p) = "file" => fdata[seenAt(p)] = image.data[image.at[p]]
    BY DEF RoundTrip
  <2>1. Match(p)
    BY AtRest
  <2>2. \A d : tarred(d) = d
    BY <1>2 DEF tarred
  <2> QED BY <2>1, <2>2 DEF Match
<1>3. SharingKept
  <2> SUFFICES ASSUME queue = {}, nlayers = 1, NEW p \in Path, NEW q \in Path,
                      image.at[p] \in Ino, image.at[q] \in Ino
               PROVE  /\ image.at[p] = image.at[q] <=> seenAt(p) = seenAt(q)
                      /\ fnlink[seenAt(p)] = NlinkOf(image, image.at[p])
    BY DEF SharingKept
  <2>1. CoreInv /\ Pending = {} /\ Match(p) /\ Match(q) /\ TypeOK /\ NodesOK
    BY AtRest DEF CoreInv
  <2>2. seenAt(p) # 0 /\ seenAt(q) # 0
    BY <2>1, MatchForm
  <2>3. seenAt(p) = lookup(p) /\ seenAt(q) = lookup(q)
    BY <2>2, LookupForm
  <2>4. p \in Path \ Pending /\ q \in Path \ Pending
    BY <2>1
  <2>5. image.at[p] = image.at[q] => lookup(p) = lookup(q)
    BY <2>1, <2>4 DEF CoreInv, FullLayer
  <2>6. lookup(p) = lookup(q) => image.at[p] = image.at[q]
    BY <2>1, <2>2, <2>3 DEF CoreInv, Unshared
  <2>7. fnlink[lookup(p)] = Cardinality({r \in Path \ Pending : image.at[r] = image.at[p]})
    BY <2>1, <2>4 DEF CoreInv, FullLayer
  <2>8. {r \in Path \ Pending : image.at[r] = image.at[p]} = {r \in Path : image.at[r] = image.at[p]}
    BY <2>1
  <2> QED BY <2>3, <2>5, <2>6, <2>7, <2>8 DEF NlinkOf
<1> QED BY <1>1, <1>2, <1>3 DEF FlattenRestores

\* With at most two layers LayersInv is an invariant.
LEMMA TwoLayersInv ==
    ASSUME MaxLayers <= 2
    PROVE  Spec /\ [][~DeltaOverLinks]_vars => []LayersInv
<1>1. Init => LayersInv
  BY InitLayers
<1>2. LayersInv /\ [Next]_vars /\ [~DeltaOverLinks]_vars => LayersInv'
  <2> SUFFICES ASSUME LayersInv, [Next]_vars, ~DeltaOverLinks
               PROVE  LayersInv'
    BY DEF DeltaOverLinks, vars
  <2>1. CASE nlayers <= 1
    BY <2>1, OneLayerClean, LayersStep
  <2>2. CASE ~(nlayers <= 1)
    <3>1. nlayers \in Nat /\ MaxLayers \in Nat
      BY LayerAssumption DEF LayersInv, TypeOK
    <3>2. ~(nlayers < MaxLayers)
      BY <2>2, <3>1
    <3>3. CreateParent \/ ApplyEntry \/ UNCHANGED vars
      BY <3>2 DEF Next, AddLayer, ForeignLayer
    <3> QED BY <3>3, CreateStep, ApplyStep, StutterKeeps
  <2> QED BY <2>1, <2>2
<1> QED BY <1>1, <1>2, PTL DEF Spec

\* Of a careful caller's layers it is one for any number of them.
LEMMA CarefulInv == CarefulSpec => []LayersInv
<1>1. Init => CleanInv
  <2> SUFFICES ASSUME Init
               PROVE  CleanInv
    OBVIOUS
  <2>1. LayersInv /\ nlayers = 0 /\ queue = {}
    BY InitLayers DEF Init
  <2>2. Clean
    BY <2>1, OneLayerClean
  <2> QED BY <2>1, <2>2 DEF CleanInv, KeepsClean
<1>2. CleanInv /\ [CarefulNext]_vars => CleanInv'
  BY CleanStep
<1>3. CleanInv => LayersInv
  BY DEF CleanInv
<1> QED BY <1>1, <1>2, <1>3, PTL DEF CarefulSpec

\* One layer and a delta over it, neither over hard links: flattening them restores
\* the image, whatever it was and whatever the second layer puts in its place.
THEOREM TwoLayersRestore ==
    ASSUME MaxLayers <= 2
    PROVE  Spec /\ [][~DeltaOverLinks]_vars => []FlattenRestores
<1>1. LayersInv => FlattenRestores
  BY InvRestores
<1> QED BY <1>1, TwoLayersInv, PTL

\* Any number of layers, if none is over hard links and none puts a file where a
\* directory with something in it was.
THEOREM CarefulLayersRestore == CarefulSpec => []FlattenRestores
<1>1. LayersInv => FlattenRestores
  BY InvRestores
<1> QED BY <1>1, CarefulInv, PTL

\* Of files without setuid, setgid and sticky bits they are the exact image that the
\* comments of AddLayerDiff and writeDiffLayer promise: the three exceptions are all
\* there are.
THEOREM CarefulLayersAreExact ==
    ASSUME Special = {}
    PROVE  CarefulSpec => []RoundTrip
<1>1. LayersInv => RoundTrip
  BY InvRestores
<1> QED BY <1>1, CarefulInv, PTL
=============================================================================
