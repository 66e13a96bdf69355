---------------------------- MODULE GraftProofs ----------------------------
(***************************************************************************)
(* Proofs about module Graft, for trees of any size and with any names:    *)
(* Graft makes a copy of the source, hard links and link counts included,  *)
(* or stops at a name the destination already had.                         *)
(***************************************************************************)
EXTENDS Graft, ImageTreeProofs

\* What is proved of an image tree holds of the destination too.
D == INSTANCE ImageTreeProofs
       WITH kind <- dkind, entries <- dentries, nlink <- dnlink, ret <- dret,
            StaleEdits <- FALSE, MaxNodes <- MaxNodes + MaxOwn

DNode == 0 .. MaxNodes + MaxOwn - 1

-----------------------------------------------------------------------------
(* The inductive invariant.  The source, edited through live handles, has  *)
(* module ImageTreeProofs' LiveInv.                                        *)

\* The destination nodes that Graft has made, the source entry that an entry of theirs
\* stands for, and the source entries that have one.
Made == {m \in DNode : copyOf[m] # NotCopied}
Copy(g) == Entry(copyOf[g.dir], g.name, copyOf[g.node])
Copied(f) == \E g \in dentries : g.node \in Made /\ Copy(g) = f

\* What has been made is a copy of a part of the source.  Whatever else the destination
\* holds is a file in its root.
CopyOK ==
    /\ copyOf \in [DNode -> Node \cup {NotCopied}] /\ copyOf[root] = root
    /\ \A m, k \in Made : copyOf[m] = copyOf[k] => m = k
    /\ \A m \in Made : dkind[m] = kind[copyOf[m]] /\ dkind[m] # "none"
    /\ \A m \in DNode : dkind[m] = "dir" => m \in Made
    /\ \A g \in dentries : g.dir \in Made
    /\ \A g \in dentries : g.node \notin Made => g.dir = root /\ dkind[g.node] = "file"
    /\ \A g \in dentries : g.node \in Made => Copy(g) \in entries
    /\ \A m \in Made : m # root => \E g \in dentries : g.node = m

\* The loops have left what is not copied yet of the directories that are, and nothing
\* else.
RestOK ==
    /\ rest \in [DNode -> SUBSET entries]
    /\ \A d \in DNode : \A f \in rest[d] : d \in Made /\ f.dir = copyOf[d] /\ ~Copied(f)
    /\ phase \in {"graft", "done"} =>
          \A d \in Made : \A f \in Children(copyOf[d]) : f \in rest[d] \/ Copied(f)

\* The seen map leads to the copy, and has every copy that another name may ask for.
SeenOK ==
    /\ seen \in [Node -> DNode]
    /\ \A m \in Node : seen[m] # root => seen[m] \in Made /\ copyOf[seen[m]] = m
    /\ \A k \in Made : kind[copyOf[k]] = "file" /\ nlink[copyOf[k]] > 1 => seen[copyOf[k]] = k

PhaseOK ==
    /\ phase \in {"edit", "graft", "done", "failed"}
    /\ phase = "edit" => /\ \A m \in Made : m = root
                         /\ \A m \in DNode : rest[m] = {}
                         /\ \A m \in Node : seen[m] = root
    /\ phase = "graft" => /\ stack \in Seq(DNode) /\ stack # <<>>
                          /\ \A d \in DNode : rest[d] # {} =>
                                \E i \in 1 .. Len(stack) : stack[i] = d
    /\ phase = "done" => \A d \in DNode : rest[d] = {}

GraftInv == LiveInv /\ D!TreeInv /\ CopyOK /\ RestOK /\ SeenOK /\ PhaseOK /\ GraftFailsOnCollision

-----------------------------------------------------------------------------
(* The destination is an image tree. *)

\* What its proofs assume holds of it.
LEMMA DstAssumption ==
    /\ D!TreeAssumption /\ D!Node = DNode /\ dst!Node = DNode
    /\ root \in Node /\ root \in DNode /\ root # NotCopied
  BY TreeAssumption, OwnAssumption DEF D!TreeAssumption, D!Node, dst!Node, DNode, Node, root, NotCopied

\* Module Graft's view of the destination and the one the proofs use are the same.
LEMMA SameCalls ==
    /\ \A d, x : /\ dst!Mkdir(d, x) <=> D!Mkdir(d, x)
                 /\ dst!Create(d, x) <=> D!Create(d, x)
                 /\ dst!Symlink(d, x) <=> D!Symlink(d, x)
                 /\ dst!Mknod(d, x) <=> D!Mknod(d, x)
    /\ \A d, x, f : dst!Link(d, x, f) <=> D!Link(d, x, f)
<1>1. dst!Node = D!Node /\ dst!root = D!root
  BY DEF dst!Node, D!Node, dst!root, D!root
<1>2. dst!Reachable = D!Reachable
  BY <1>1 DEF dst!Reachable, D!Reachable, dst!Walked, D!Walked
<1>3. dst!Fresh = D!Fresh
  BY <1>1 DEF dst!Fresh, D!Fresh
<1>4. \A d, x : dst!nameError(d, x) = D!nameError(d, x)
  BY DEF dst!nameError, D!nameError, dst!find, D!find, dst!Children, D!Children
<1>5. \A d : dst!Editable(d) <=> D!Editable(d)
  BY <1>2 DEF dst!Editable, D!Editable
<1>6. \A d, x : dst!refuse(d, x) <=> D!refuse(d, x)
  BY <1>4, <1>5 DEF dst!refuse, D!refuse
<1>7. \A d, x, m, k : dst!newChild(d, x, m, k) <=> D!newChild(d, x, m, k)
  BY <1>4, <1>5 DEF dst!newChild, D!newChild, dst!Entry, D!Entry
<1>8. \A d, x : /\ dst!Mkdir(d, x) <=> D!Mkdir(d, x)
                /\ dst!Create(d, x) <=> D!Create(d, x)
                /\ dst!Symlink(d, x) <=> D!Symlink(d, x)
                /\ dst!Mknod(d, x) <=> D!Mknod(d, x)
  BY <1>3, <1>6, <1>7, Zenon DEF dst!Mkdir, D!Mkdir, dst!Create, D!Create, dst!Symlink, D!Symlink,
     dst!Mknod, D!Mknod
<1>9. \A d, x, f : dst!Link(d, x, f) <=> D!Link(d, x, f)
  BY <1>4, <1>5, <1>6, Zenon DEF dst!Link, D!Link, dst!Entry, D!Entry
<1> QED BY <1>8, <1>9, Zenon

\* The entries of the destination are of its nodes; a node not yet made has none.
LEMMA DstEntries ==
    ASSUME D!TreeInv
    PROVE  /\ dkind \in [DNode -> {"none", "dir"} \cup Leaf]
           /\ \A g \in dentries : /\ g \in [dir : DNode, name : Name, node : DNode]
                                  /\ dkind[g.dir] = "dir" /\ dkind[g.node] # "none"
                                  /\ g.node # root
           /\ \A g, h \in dentries : g.dir = h.dir /\ g.name = h.name => g = h
<1>1. /\ dkind \in [DNode -> {"none", "dir"} \cup Leaf]
      /\ dentries \subseteq [dir : DNode, name : Name, node : DNode]
  BY DstAssumption DEF D!TreeInv, D!TreeShape, D!TypeOK, D!Leaf, Leaf
<1>2. ASSUME NEW g \in dentries
      PROVE  dkind[g.dir] = "dir" /\ dkind[g.node] # "none"
  <2>1. g.dir \in DNode /\ g.node \in DNode /\ g \in D!Children(g.dir) /\ g \in D!Naming(g.node)
    BY <1>1 DEF D!Children, D!Naming
  <2>2. dkind[g.dir] \notin {"none"} \cup Leaf
    BY <2>1, DstAssumption DEF D!TreeInv, D!CountsReferences, D!Leaf, Leaf
  <2>3. dkind[g.node] # "none"
    BY <2>1, DstAssumption DEF D!TreeInv, D!CountsReferences
  <2> QED BY <1>1, <2>1, <2>2, <2>3
<1>3. \A g \in dentries : g.node # root
  BY DEF D!TreeInv, D!TreeShape, D!DirectoriesFormTree, D!Naming, D!root, root
<1>4. \A g, h \in dentries : g.dir = h.dir /\ g.name = h.name => g = h
  BY DEF D!TreeInv, D!TreeShape, D!NamesUnique
<1> QED BY <1>1, <1>2, <1>3, <1>4

\* What a call that creates may do: make a node of the kind, or find the name taken.
Makes(d, x, k) ==
    \E m \in DNode :
        /\ m # root /\ dkind[m] = "none" /\ dkind' = [dkind EXCEPT ![m] = k]
        /\ dentries' = dentries \cup {Entry(d, x, m)} /\ dret' = "nil"

Refused(d, x) ==
    /\ UNCHANGED <<dkind, dentries, dnlink>> /\ dret' # "nil"
    /\ \E g \in dentries : g.dir = d /\ g.name = x

\* So do Mkdir, Create, Symlink and Mknod.
LEMMA DstCreates ==
    ASSUME D!TreeInv, NEW d \in DNode, NEW x \in Name,
           NEW k \in {"dir"} \cup Leaf,
           \/ k = "dir" /\ dst!Mkdir(d, x)
           \/ k = "file" /\ dst!Create(d, x)
           \/ k = "symlink" /\ dst!Symlink(d, x)
           \/ k = "special" /\ dst!Mknod(d, x)
    PROVE  D!TreeInv' /\ (Makes(d, x, k) \/ Refused(d, x))
<1>1. d \in D!Node /\ x \in Name \cup BadName /\ D!TreeAssumption
  BY DstAssumption
<1>2. D!Mkdir(d, x) \/ D!Create(d, x) \/ D!Symlink(d, x) \/ D!Mknod(d, x)
  BY SameCalls
<1>3. D!Edit
  BY <1>1, <1>2, Zenon DEF D!Edit
<1>4. D!TreeInv'
  BY <1>1, <1>3, D!TreeInvInductive
<1>5. CASE D!refuse(d, x)
  <2>1. x \notin BadName
    BY TreeAssumption
  <2> QED BY <1>4, <1>5, <2>1 DEF D!refuse, D!nameError, D!find, D!Children, Refused
<1>6. ASSUME NEW m \in D!Fresh, D!newChild(d, x, m, k)
      PROVE  Makes(d, x, k)
  <2>1. dkind[d] = "dir"
    BY <1>6 DEF D!newChild, D!Editable
  <2>2. m \in D!Node /\ dkind[m] = "none" /\ m # D!root
    BY <1>1, <2>1, D!FreshIsUnnamed
  <2> QED BY <1>6, <2>2, DstAssumption DEF D!newChild, Makes, D!Entry, Entry, D!root, root
<1>7. (\E m \in D!Fresh : D!newChild(d, x, m, k)) \/ D!refuse(d, x)
  <2>1. /\ k = "dir" => D!Mkdir(d, x)
        /\ k = "file" => D!Create(d, x)
        /\ k = "symlink" => D!Symlink(d, x)
        /\ k = "special" => D!Mknod(d, x)
    BY SameCalls
  <2> QED BY <2>1 DEF D!Mkdir, D!Create, D!Symlink, D!Mknod, Leaf
<1> QED BY <1>4, <1>5, <1>6, <1>7

\* Link gives an existing file the name, or finds it taken.
LEMMA DstLinks ==
    ASSUME D!TreeInv, NEW d \in DNode, NEW x \in Name, NEW f \in DNode, dst!Link(d, x, f)
    PROVE  /\ D!TreeInv'
           /\ \/ /\ dkind' = dkind /\ dentries' = dentries \cup {Entry(d, x, f)} /\ dret' = "nil"
              \/ Refused(d, x)
<1>1. d \in D!Node /\ x \in Name \cup BadName /\ D!TreeAssumption /\ f \in D!Node
  BY DstAssumption
<1>2. D!Link(d, x, f)
  BY SameCalls
<1>3. D!Edit
  BY <1>1, <1>2, Zenon DEF D!Edit
<1>4. D!TreeInv'
  BY <1>1, <1>3, D!TreeInvInductive
<1>5. CASE D!refuse(d, x)
  <2>1. x \notin BadName
    BY TreeAssumption
  <2> QED BY <1>4, <1>5, <2>1 DEF D!refuse, D!nameError, D!find, D!Children, Refused
<1> QED BY <1>2, <1>4, <1>5 DEF D!Link, D!Entry, Entry

-----------------------------------------------------------------------------
(* Before Graft is called. *)

\* Nothing is made yet but the root, which has a root to stand for.
Untouched ==
    /\ phase = "edit"
    /\ copyOf = [m \in DNode |-> IF m = root THEN root ELSE NotCopied]
    /\ rest = [m \in DNode |-> {}]
    /\ seen = [m \in Node |-> root]

\* The destination's own entries: files in its root.
OwnFiles == \A g \in dentries : g.dir = root /\ dkind[g.node] = "file"
OneDir == \A m \in DNode : dkind[m] = "dir" => m = root

\* Then the invariant says nothing more than the trees do.
LEMMA UntouchedIsGraftInv ==
    ASSUME LiveInv, D!TreeInv, Untouched, OwnFiles, OneDir
    PROVE  GraftInv
<1>1. /\ root \in Node /\ root \in DNode /\ kind[root] = "dir" /\ dkind[root] = "dir"
  BY DstAssumption DEF LiveInv, TreeInv, D!TreeInv, root, D!root, Node, DNode
<1>2. /\ copyOf \in [DNode -> Node \cup {NotCopied}] /\ copyOf[root] = root
      /\ \A m \in DNode : m # root => copyOf[m] = NotCopied
      /\ root # NotCopied
  BY <1>1 DEF Untouched, NotCopied, root
<1>3. Made = {root}
  BY <1>1, <1>2 DEF Made
<1>4. \A g \in dentries : g.node \notin Made
  BY <1>1, <1>3 DEF OwnFiles
<1>5. CopyOK
  BY <1>1, <1>2, <1>3, <1>4 DEF CopyOK, OwnFiles, OneDir
<1>6. RestOK
  BY <1>3 DEF RestOK, Untouched
<1>7. SeenOK
  BY <1>1, <1>2, <1>3 DEF SeenOK, Untouched
<1>8. PhaseOK /\ GraftFailsOnCollision
  BY <1>3 DEF PhaseOK, GraftFailsOnCollision, Untouched
<1> QED BY <1>5, <1>6, <1>7, <1>8 DEF GraftInv

\* Conversely, in the phase of edits nothing is made.
LEMMA EditIsUntouched ==
    ASSUME GraftInv, phase = "edit"
    PROVE  Untouched /\ OwnFiles /\ OneDir
<1>1. /\ copyOf \in [DNode -> Node \cup {NotCopied}] /\ copyOf[root] = root /\ \A m \in Made : m = root
      /\ rest \in [DNode -> SUBSET entries] /\ \A m \in DNode : rest[m] = {}
      /\ seen \in [Node -> DNode] /\ \A m \in Node : seen[m] = root
  BY DEF GraftInv, CopyOK, RestOK, SeenOK, PhaseOK
<1>2. \A m \in DNode : copyOf[m] = IF m = root THEN root ELSE NotCopied
  BY <1>1 DEF Made
<1>3. Untouched
  BY <1>1, <1>2 DEF Untouched
<1>4. \A g \in dentries : g.node # root
  BY DEF GraftInv, D!TreeInv, D!TreeShape, D!DirectoriesFormTree, D!Naming, D!root, root
<1>5. OwnFiles /\ OneDir
  BY <1>1, <1>4 DEF GraftInv, CopyOK, OwnFiles, OneDir
<1> QED BY <1>3, <1>5

\* It holds when both trees are empty.
LEMMA GraftInvInit ==
    ASSUME GraftInit
    PROVE  GraftInv
<1>1. TreeInv /\ entries = {}
  BY TreeInvInit DEF GraftInit, NewMem
<1>2. LiveInv
  BY <1>1 DEF LiveInv, AllReached, SingleNamed
<1>3. D!NewMem
  BY DEF GraftInit, dst!NewMem, D!NewMem, dst!Node, D!Node, dst!root, D!root
<1>4. D!TreeInv
  BY <1>3, DstAssumption, D!TreeInvInit
<1>5. OwnFiles /\ OneDir
  BY <1>3, DstAssumption DEF D!NewMem, OwnFiles, OneDir, D!root, root
<1>6. Untouched
  BY DstAssumption DEF GraftInit, Untouched
<1> QED BY <1>2, <1>4, <1>5, <1>6, UntouchedIsGraftInv

\* The source is edited.
LEMMA EditSourceKeeps ==
    ASSUME ~StaleEdits, GraftInv, EditSource
    PROVE  GraftInv'
<1>1. Untouched /\ OwnFiles /\ OneDir /\ LiveInv /\ D!TreeInv
  BY EditIsUntouched DEF EditSource, GraftInv
<1>2. LiveInv'
  BY <1>1, EditKeepsLive DEF EditSource
<1>3. Untouched' /\ OwnFiles' /\ OneDir'
  BY <1>1 DEF EditSource, Untouched, OwnFiles, OneDir, dvars
<1>4. D!TreeInv'
  BY <1>1, DstAssumption, D!TreeInvInductive DEF EditSource, dvars, D!vars
<1> QED BY <1>2, <1>3, <1>4, UntouchedIsGraftInv, PTL

\* The source does not change.
LEMMA QuietSource ==
    ASSUME LiveInv, UNCHANGED vars
    PROVE  LiveInv' /\ Reachable' = Reachable /\ \A d : Children(d)' = Children(d)
<1>1. TreeInv'
  BY TreeInvInductive DEF LiveInv
<1> QED BY <1>1 DEF LiveInv, AllReached, SingleNamed, Reachable, Walked, vars, Children

\* The destination gets a file of its own, or refuses it.
LEMMA EditDestinationKeeps ==
    ASSUME GraftInv, EditDestination
    PROVE  GraftInv'
<1>1. Untouched /\ OwnFiles /\ OneDir /\ LiveInv /\ D!TreeInv
  BY EditIsUntouched DEF EditDestination, GraftInv
<1>2. LiveInv'
  BY <1>1, QuietSource DEF EditDestination
<1>3. PICK x \in Name : dst!Create(root, x)
  BY DEF EditDestination
<1>4. D!TreeInv' /\ (Makes(root, x, "file") \/ Refused(root, x))
  <2>1. root \in DNode
    BY DstAssumption DEF root, DNode
  <2> QED BY <1>1, <1>3, <2>1, DstCreates DEF Leaf
<1>5. Untouched'
  BY <1>1 DEF EditDestination, Untouched
<1>6. dkind \in [DNode -> {"none", "dir"} \cup Leaf]
  BY <1>1, DstAssumption DEF D!TreeInv, D!TreeShape, D!TypeOK, D!Leaf, Leaf
<1>7. OwnFiles' /\ OneDir'
  <2>1. CASE Refused(root, x)
    BY <1>1, <2>1 DEF Refused, OwnFiles, OneDir
  <2>2. CASE Makes(root, x, "file")
    <3>1. PICK m \in DNode : /\ dkind' = [dkind EXCEPT ![m] = "file"]
                             /\ dentries' = dentries \cup {Entry(root, x, m)}
      BY <2>2 DEF Makes
    <3>2. \A g \in dentries' : g \in dentries \/ (g.dir = root /\ g.node = m)
      BY <3>1 DEF Entry
    <3>3. \A g \in dentries : g.node \in DNode
      BY <1>1, DstEntries
    <3> QED BY <1>1, <1>6, <3>1, <3>2, <3>3 DEF OwnFiles, OneDir
  <2> QED BY <1>4, <2>1, <2>2
<1> QED BY <1>2, <1>4, <1>5, <1>7, UntouchedIsGraftInv, PTL

\* Graft is called: the loop over the root's children has all of them to handle.
LEMMA StartGraftKeeps ==
    ASSUME GraftInv, StartGraft
    PROVE  GraftInv'
<1>1. Untouched /\ LiveInv /\ D!TreeInv /\ CopyOK /\ RestOK /\ SeenOK
  BY EditIsUntouched DEF StartGraft, GraftInv
<1>2. LiveInv' /\ \A d : Children(d)' = Children(d)
  BY <1>1, QuietSource DEF StartGraft
<1>3. D!TreeInv'
  BY <1>1, DstAssumption, D!TreeInvInductive DEF StartGraft, dvars, D!vars
<1>4. CopyOK'
  BY <1>1 DEF StartGraft, CopyOK, Made, Copy, vars, dvars
<1>5. root \in DNode /\ Made' = {root} /\ Made = {root} /\ copyOf'[root] = root
  <2>1. root \in DNode /\ root # NotCopied
    BY DstAssumption DEF root, DNode, NotCopied
  <2>2. Made = {root} /\ copyOf[root] = root
    BY <1>1, <2>1 DEF Untouched, Made
  <2> QED BY <2>1, <2>2 DEF StartGraft, Made
<1>6. \A g \in dentries' : g.node \notin Made'
  BY <1>3, <1>5 DEF D!TreeInv, D!TreeShape, D!DirectoriesFormTree, D!Naming, D!root, root
<1>7. \A f : ~Copied(f)'
  BY <1>6 DEF Copied
<1>8. rest' = [m \in DNode |-> IF m = root THEN Children(root) ELSE {}]
  BY <1>1, <1>5 DEF StartGraft, Untouched
<1>9. RestOK'
  <2>1. rest' \in [DNode -> SUBSET entries']
    BY <1>8 DEF Children, StartGraft, vars
  <2>2. \A d \in DNode : \A f \in rest'[d] : d = root /\ f.dir = root
    BY <1>8 DEF Children
  <2>3. ASSUME NEW d \in Made', NEW f \in Children(copyOf[d])'
        PROVE  f \in rest'[d]
    BY <1>5, <1>8, <2>3 DEF Children, StartGraft, vars
  <2> QED BY <1>5, <1>7, <2>1, <2>2, <2>3 DEF RestOK
<1>10. SeenOK'
  BY <1>1, <1>5 DEF StartGraft, SeenOK, vars
<1>11. PhaseOK' /\ GraftFailsOnCollision'
  <2>1. phase' = "graft" /\ stack' = <<root>>
    BY DEF StartGraft
  <2>2. stack' \in Seq(DNode) /\ stack' # <<>> /\ Len(stack') = 1 /\ stack'[1] = root
    BY <1>5, <2>1
  <2>3. \A d \in DNode : rest'[d] # {} => \E i \in 1 .. Len(stack') : stack'[i] = d
    BY <1>8, <2>2
  <2> QED BY <2>1, <2>2, <2>3 DEF PhaseOK, GraftFailsOnCollision
<1> QED BY <1>2, <1>3, <1>4, <1>9, <1>10, <1>11 DEF GraftInv

-----------------------------------------------------------------------------
(* One entry. *)

\* The innermost loop works in a directory that was made, on an entry of the directory it
\* stands for that has no copy yet.
LEMMA EntryAtHand ==
    ASSUME GraftInv, phase = "graft", NEW e \in rest[here]
    PROVE  /\ here \in DNode /\ here \in Made /\ copyOf[here] = e.dir /\ e \in entries /\ ~Copied(e)
           /\ e.dir \in Node /\ e.name \in Name /\ e.node \in Node /\ e.node # root
           /\ kind[e.node] \in {"dir"} \cup Leaf
<1>1. stack \in Seq(DNode) /\ stack # <<>>
  BY DEF GraftInv, PhaseOK
<1>2. here \in DNode
  BY <1>1 DEF here
<1>3. here \in Made /\ copyOf[here] = e.dir /\ e \in entries /\ ~Copied(e)
  BY <1>2 DEF GraftInv, RestOK
<1>4. /\ entries \subseteq [dir : Node, name : Name, node : Node]
      /\ kind \in [Node -> {"none", "dir"} \cup Leaf] /\ Naming(root) = {}
  BY DEF GraftInv, LiveInv, TreeInv, TreeShape, TypeOK, DirectoriesFormTree
<1>5. e.dir \in Node /\ e.name \in Name /\ e.node \in Node /\ e.node # root
  BY <1>3, <1>4 DEF Naming
<1>6. kind[e.node] # "none"
  BY <1>3, <1>5 DEF GraftInv, LiveInv, TreeInv, CountsReferences, Naming
<1> QED BY <1>2, <1>3, <1>4, <1>5, <1>6

\* An entry whose copy would be made afresh names a node that has none: a node with two
\* names is a file with a count above one, and the seen map has its copy.
LEMMA NotYet ==
    ASSUME GraftInv, NEW e \in entries, ~Copied(e), e.node \in Node, e.node # root,
           kind[e.node] = "file" => seen[e.node] = root
    PROVE  \A k \in Made : copyOf[k] # e.node
<1> SUFFICES ASSUME NEW k \in Made, copyOf[k] = e.node
             PROVE  FALSE
  OBVIOUS
<1>1. k # root
  BY DEF GraftInv, CopyOK
<1>2. PICK g \in dentries : g.node = k
  BY <1>1 DEF GraftInv, CopyOK
<1>3. PICK f : f = Copy(g)
  OBVIOUS
<1>4. f \in entries /\ f.node = e.node /\ f # e
  BY <1>2, <1>3 DEF GraftInv, CopyOK, Copied, Copy, Entry
<1>5. kind[e.node] = "file"
  BY <1>4 DEF GraftInv, LiveInv, SingleNamed
<1>6. nlink[e.node] = Cardinality(Naming(e.node)) /\ IsFiniteSet(entries)
  BY <1>5 DEF GraftInv, LiveInv, TreeInv, CountsReferences, Leaf
<1>7. e \in Naming(e.node) /\ f \in Naming(e.node) \ {e}
  BY <1>4 DEF Naming
<1>8. nlink[e.node] > 1
  <2>1. PICK S : S = Naming(e.node)
    OBVIOUS
  <2>2. IsFiniteSet(S) /\ IsFiniteSet(S \ {e}) /\ Cardinality(S) \in Nat /\ Cardinality(S \ {e}) \in Nat
    BY <1>6, <2>1, PartsAreFinite, FS_RemoveElement, FS_CardinalityType
  <2>3. Cardinality(S \ {e}) = Cardinality(S) - 1
    BY <1>7, <2>1, <2>2, AtMostOne
  <2>4. Cardinality(S \ {e}) # 0
    BY <1>7, <2>1, <2>2, AtMostOne
  <2> QED BY <1>6, <2>1, <2>2, <2>3, <2>4
<1>9. seen[e.node] = k
  BY <1>5, <1>8 DEF GraftInv, SeenOK
<1> QED BY <1>1, <1>5, <1>9

\* The entry is copied: n, made now or earlier, stands for its node.
Puts(e, n) ==
    /\ n \in DNode /\ n # root
    /\ dentries' = dentries \cup {Entry(here, e.name, n)}
    /\ copyOf' = [copyOf EXCEPT ![n] = e.node]
    /\ \/ dkind[n] = "none" /\ dkind' = [dkind EXCEPT ![n] = kind[e.node]]
                            /\ \A k \in Made : copyOf[k] # e.node
       \/ dkind' = dkind /\ n \in Made /\ copyOf[n] = e.node /\ dkind[n] = "file"
    /\ UNCHANGED vars

\* Then it has a copy, and no other entry gets one or loses it.
LEMMA PutCopies ==
    ASSUME GraftInv, NEW e \in entries, ~Copied(e), e.node \in Node, here \in Made, copyOf[here] = e.dir,
           NEW n, Puts(e, n)
    PROVE  /\ copyOf' \in [DNode -> Node \cup {NotCopied}] /\ copyOf'[n] = e.node
           /\ \A k \in DNode : k # n => copyOf'[k] = copyOf[k]
           /\ Made' = Made \cup {n}
           /\ \A k \in Made : copyOf'[k] = copyOf[k]
           /\ \A g \in dentries : Copy(g)' = Copy(g) /\ (g.node \in Made' <=> g.node \in Made)
           /\ \A f : Copied(f)' <=> Copied(f) \/ f = e
<1>1. /\ copyOf \in [DNode -> Node \cup {NotCopied}] /\ e \in [dir : Node, name : Name, node : Node]
      /\ \A k \in Made : dkind[k] # "none" /\ k \in DNode
  BY DEF GraftInv, CopyOK, LiveInv, TreeInv, TreeShape, TypeOK, Made
<1>2. /\ copyOf' \in [DNode -> Node \cup {NotCopied}] /\ copyOf'[n] = e.node /\ n \in DNode
      /\ \A k \in DNode : k # n => copyOf'[k] = copyOf[k]
  BY <1>1 DEF Puts
<1>3. e.node # NotCopied
  BY DEF Node, NotCopied
<1>4. Made' = Made \cup {n}
  BY <1>2, <1>3 DEF Made
<1>5. \A k \in Made : copyOf'[k] = copyOf[k]
  BY <1>1, <1>2 DEF Puts
<1>6. ASSUME NEW g \in dentries
      PROVE  Copy(g)' = Copy(g) /\ (g.node \in Made' <=> g.node \in Made)
  <2>1. g.dir \in DNode /\ g.node \in DNode /\ dkind[g.dir] # "none" /\ dkind[g.node] # "none"
    BY DstEntries DEF GraftInv
  <2>2. copyOf'[g.dir] = copyOf[g.dir] /\ copyOf'[g.node] = copyOf[g.node]
    BY <1>2, <2>1 DEF Puts
  <2> QED BY <1>2, <2>1, <2>2 DEF Copy, Made
<1>7. PICK h : h = Entry(here, e.name, n)
  OBVIOUS
<1>8. h.dir = here /\ h.name = e.name /\ h.node = n /\ dentries' = dentries \cup {h}
  BY <1>7 DEF Entry, Puts
<1>9. Copy(h)' = e
  <2>1. copyOf'[here] = e.dir
    BY <1>5
  <2>2. Copy(h)' = Entry(e.dir, e.name, e.node)
    BY <1>2, <1>8, <2>1 DEF Copy
  <2> QED BY <1>1, <2>2 DEF Entry
<1>10. \A f : Copied(f)' <=> Copied(f) \/ f = e
  <2> TAKE f
  <2>1. Copied(f)' => Copied(f) \/ f = e
    BY <1>4, <1>6, <1>8, <1>9 DEF Copied
  <2>2. Copied(f) => Copied(f)'
    BY <1>6, <1>8 DEF Copied
  <2>3. Copied(e)'
    BY <1>4, <1>8, <1>9 DEF Copied
  <2> QED BY <2>1, <2>2, <2>3
<1> QED BY <1>2, <1>4, <1>5, <1>6, <1>10

\* What was made is still a copy of a part of the source.
LEMMA PutKeepsCopy ==
    ASSUME GraftInv, NEW e \in entries, ~Copied(e), e.node \in Node, here \in Made, copyOf[here] = e.dir,
           kind[e.node] \in {"dir"} \cup Leaf, NEW n, Puts(e, n)
    PROVE  CopyOK'
<1>1. /\ copyOf' \in [DNode -> Node \cup {NotCopied}] /\ copyOf'[n] = e.node
      /\ \A k \in DNode : k # n => copyOf'[k] = copyOf[k]
      /\ Made' = Made \cup {n} /\ \A k \in Made : copyOf'[k] = copyOf[k]
      /\ \A g \in dentries : Copy(g)' = Copy(g) /\ (g.node \in Made' <=> g.node \in Made)
      /\ \A f : Copied(f)' <=> Copied(f) \/ f = e
  BY PutCopies
<1>2. CopyOK /\ n \in DNode /\ n # root /\ UNCHANGED vars /\ dkind \in [DNode -> {"none", "dir"} \cup Leaf]
  BY DstEntries DEF GraftInv, Puts
<1>3. PICK h : h = Entry(here, e.name, n)
  OBVIOUS
<1>4. h.dir = here /\ h.node = n /\ dentries' = dentries \cup {h}
  BY <1>3 DEF Entry, Puts
<1>5. UNCHANGED <<kind, entries>>
  BY <1>2 DEF vars
<1>6. copyOf'[root] = root
  BY <1>1, <1>2, DstAssumption DEF CopyOK, root, DNode
<1>7. \A m, k \in Made' : copyOf'[m] = copyOf'[k] => m = k
  BY <1>1, <1>2 DEF CopyOK, Puts
<1>8. /\ \A m \in Made' : dkind'[m] = kind'[copyOf'[m]] /\ dkind'[m] # "none"
      /\ \A m \in DNode : dkind'[m] = "dir" => m \in Made'
      /\ \A m \in DNode : dkind[m] # "none" => dkind'[m] = dkind[m]
  <2>1. CASE dkind[n] = "none" /\ dkind' = [dkind EXCEPT ![n] = kind[e.node]]
    <3>1. dkind'[n] = kind[e.node] /\ \A m \in DNode : m # n => dkind'[m] = dkind[m]
      BY <1>2, <2>1
    <3>2. kind[e.node] # "none"
      BY DEF Leaf
    <3>3. \A m \in Made : m # n /\ m \in DNode
      BY <1>2, <2>1 DEF CopyOK, Made
    <3> QED BY <1>1, <1>2, <1>5, <2>1, <3>1, <3>2, <3>3 DEF CopyOK
  <2>2. CASE dkind' = dkind /\ n \in Made /\ copyOf[n] = e.node /\ dkind[n] = "file"
    BY <1>1, <1>2, <1>5, <2>2 DEF CopyOK
  <2> QED BY <2>1, <2>2 DEF Puts
<1>9. \A g \in dentries' : g.dir \in Made'
  BY <1>1, <1>2, <1>4 DEF CopyOK
<1>10. \A g \in dentries' : g.node \notin Made' => g.dir = root /\ dkind'[g.node] = "file"
  <2>1. \A g \in dentries : g.node \in DNode /\ dkind[g.node] # "none"
    BY DstEntries DEF GraftInv
  <2> QED BY <1>1, <1>2, <1>4, <1>8, <2>1 DEF CopyOK
<1>11. ASSUME NEW g \in dentries', g.node \in Made'
       PROVE  Copy(g)' \in entries'
  <2>1. CASE g \in dentries
    BY <1>1, <1>2, <1>5, <1>11, <2>1 DEF CopyOK
  <2>2. CASE g = h
    <3>1. copyOf'[here] = e.dir
      BY <1>1
    <3>2. Copy(g)' = Entry(e.dir, e.name, e.node)
      BY <1>1, <1>3, <1>4, <2>2, <3>1 DEF Copy, Entry
    <3>3. e \in [dir : Node, name : Name, node : Node]
      BY DEF GraftInv, LiveInv, TreeInv, TreeShape, TypeOK
    <3> QED BY <1>5, <3>2, <3>3 DEF Entry
  <2> QED BY <1>4, <2>1, <2>2
<1>12. \A m \in Made' : m # root => \E g \in dentries' : g.node = m
  BY <1>1, <1>2, <1>4 DEF CopyOK
<1> QED BY <1>1, <1>6, <1>7, <1>8, <1>9, <1>10, <1>11, <1>12 DEF CopyOK

\* The loops have still to handle what is not copied: the entry leaves its loop, and the
\* children of a directory just made are the work of a loop of their own.
LEMMA PutKeepsRest ==
    ASSUME GraftInv, NEW e \in entries, ~Copied(e), e.node \in Node, here \in Made, copyOf[here] = e.dir,
           phase = "graft", NEW n, Puts(e, n),
           kind[e.node] = "dir" => dkind[n] = "none",
           kind[e.node] \in {"dir"} \cup Leaf,
           rest' = [d \in DNode |-> IF d = here THEN rest[d] \ {e}
                                    ELSE IF d = n /\ kind[e.node] = "dir" THEN rest[d] \cup Children(e.node)
                                    ELSE rest[d]]
    PROVE  RestOK'
<1>1. /\ copyOf'[n] = e.node /\ Made' = Made \cup {n} /\ \A k \in Made : copyOf'[k] = copyOf[k]
      /\ \A f : Copied(f)' <=> Copied(f) \/ f = e
  BY PutCopies
<1>2. /\ RestOK /\ CopyOK /\ n \in DNode /\ UNCHANGED <<kind, entries>>
  BY DEF GraftInv, Puts, vars
<1>3. rest' \in [DNode -> SUBSET entries']
  BY <1>2 DEF RestOK, Children
<1>4. ASSUME kind[e.node] = "dir"
      PROVE  /\ n # here /\ n \notin Made /\ \A k \in Made : copyOf[k] # e.node
             /\ rest'[n] = Children(e.node)
  <2>1. dkind[n] = "none" /\ n \notin Made
    BY <1>2, <1>4 DEF CopyOK
  <2>2. rest[n] = {} /\ n # here
    BY <1>2, <2>1 DEF RestOK
  <2>3. \A k \in Made : copyOf[k] # e.node
    BY <2>1 DEF Puts
  <2> QED BY <1>2, <1>4, <2>1, <2>2, <2>3
<1>5. ASSUME NEW d \in DNode, NEW f \in rest'[d]
      PROVE  d \in Made' /\ f.dir = copyOf'[d] /\ ~Copied(f)'
  <2>1. CASE f \in rest[d]
    <3>1. d \in Made /\ f.dir = copyOf[d] /\ ~Copied(f)
      BY <1>2, <2>1 DEF RestOK
    <3>2. f # e
      <4>1. CASE d = here
        BY <1>5, <4>1
      <4>2. CASE d # here
        BY <1>2, <3>1, <4>2 DEF CopyOK
      <4> QED BY <4>1, <4>2
    <3> QED BY <1>1, <3>1, <3>2
  <2>2. CASE f \notin rest[d]
    <3>1. d = n /\ kind[e.node] = "dir" /\ f \in Children(e.node)
      BY <1>5, <2>2
    <3>2. f.dir = e.node
      BY <3>1 DEF Children
    <3>3. ~Copied(f)
      BY <1>2, <1>4, <3>1, <3>2 DEF Copied, Copy, Entry, CopyOK
    <3>4. f # e
      BY <1>4, <3>1, <3>2
    <3> QED BY <1>1, <3>1, <3>2, <3>3, <3>4
  <2> QED BY <2>1, <2>2
<1>6. ASSUME NEW d \in Made', NEW f \in Children(copyOf[d])'
      PROVE  f \in rest'[d] \/ Copied(f)'
  <2>1. f \in entries /\ f.dir = copyOf'[d]
    BY <1>2 DEF Children
  <2>2. CASE d \in Made
    <3>1. d \in DNode /\ f \in Children(copyOf[d])
      BY <1>1, <2>1, <2>2 DEF Children, Made
    <3>2. f \in rest[d] \/ Copied(f)
      BY <1>2, <2>2, <3>1 DEF RestOK
    <3> QED BY <1>1, <3>1, <3>2
  <2>3. CASE d = n /\ d \notin Made
    <3>1. f \in Children(e.node)
      BY <1>1, <2>1, <2>3 DEF Children
    <3>2. kind[e.node] \notin Leaf
      BY <3>1 DEF GraftInv, LiveInv, TreeInv, CountsReferences
    <3> QED BY <1>4, <2>3, <3>1, <3>2
  <2> QED BY <1>1, <2>2, <2>3
<1> QED BY <1>3, <1>5, <1>6 DEF RestOK

\* The copies recorded are those of the nodes whose kind has changed.
Records(e) == copyOf' = [m \in dst!Node |-> IF dkind[m] # dkind'[m] THEN e.node ELSE copyOf[m]]

\* A node is made for the entry: it is the one Created finds.
LEMMA MadeIsPut ==
    ASSUME GraftInv, NEW e \in entries, kind[e.node] \in {"dir"} \cup Leaf,
           \A k \in Made : copyOf[k] # e.node,
           Makes(here, e.name, kind[e.node]), Records(e), UNCHANGED vars
    PROVE  \E n : Puts(e, n) /\ dkind[n] = "none" /\ Created = n /\ dret' = "nil"
<1>1. PICK n \in DNode : /\ n # root /\ dkind[n] = "none" /\ dkind' = [dkind EXCEPT ![n] = kind[e.node]]
                         /\ dentries' = dentries \cup {Entry(here, e.name, n)} /\ dret' = "nil"
  BY DEF Makes
<1>2. /\ dkind \in [DNode -> {"none", "dir"} \cup Leaf] /\ copyOf \in [DNode -> Node \cup {NotCopied}]
      /\ kind[e.node] # "none"
  BY DstEntries DEF GraftInv, CopyOK, Leaf
<1>3. dkind'[n] = kind[e.node] /\ \A m \in DNode : m # n => dkind'[m] = dkind[m]
  BY <1>1, <1>2
<1>4. copyOf' = [copyOf EXCEPT ![n] = e.node]
  BY <1>1, <1>2, <1>3, DstAssumption DEF Records
<1>5. Created = n
  BY <1>1, <1>2, <1>3, DstAssumption DEF Created
<1> QED BY <1>1, <1>4, <1>5 DEF Puts

\* The name is taken: by something the destination had before, in its root.
LEMMA RefusalIsCollision ==
    ASSUME GraftInv, phase = "graft", NEW e \in rest[here], Refused(here, e.name), Records(e), UNCHANGED vars
    PROVE  /\ CopyOK' /\ copyOf' = copyOf
           /\ \E g \in dentries' : copyOf'[g.node] = NotCopied /\ find(root, g.name)' # {}
<1>1. /\ here \in DNode /\ here \in Made /\ copyOf[here] = e.dir /\ e \in entries /\ ~Copied(e)
      /\ CopyOK /\ copyOf \in [DNode -> Node \cup {NotCopied}]
  BY EntryAtHand DEF GraftInv, CopyOK
<1>2. copyOf' = copyOf /\ dkind' = dkind /\ dentries' = dentries /\ kind' = kind /\ entries' = entries
  BY <1>1, DstAssumption DEF Records, Refused, vars
<1>3. CopyOK'
  BY <1>1, <1>2 DEF CopyOK, Made, Copy
<1>4. PICK g \in dentries : g.dir = here /\ g.name = e.name
  BY DEF Refused
<1>5. g.node \notin Made
  <2> SUFFICES ASSUME g.node \in Made PROVE FALSE
    OBVIOUS
  <2>1. Copy(g) \in entries /\ Copy(g).dir = e.dir /\ Copy(g).name = e.name
    BY <1>1, <1>4 DEF CopyOK, Copy, Entry
  <2>2. Copy(g) = e
    BY <1>1, <2>1 DEF GraftInv, LiveInv, TreeInv, TreeShape, NamesUnique
  <2> QED BY <1>1, <2>2 DEF Copied
<1>6. g.dir = root /\ g.node \in DNode
  BY <1>1, <1>5, DstEntries DEF CopyOK, GraftInv
<1>7. e.dir = root
  BY <1>1, <1>4, <1>6 DEF CopyOK
<1>8. e \in find(root, g.name)'
  BY <1>1, <1>2, <1>4, <1>7 DEF find, Children
<1> QED BY <1>2, <1>3, <1>5, <1>6, <1>8 DEF Made

\* The seen map after an entry is handled.
LEMMA PutKeepsSeen ==
    ASSUME GraftInv, NEW e \in entries, ~Copied(e), e.node \in Node, here \in Made, copyOf[here] = e.dir,
           NEW n, Puts(e, n),
           \/ seen' = seen /\ (kind[e.node] # "file" \/ nlink[e.node] <= 1 \/ n = seen[e.node])
           \/ seen' = [seen EXCEPT ![e.node] = n],
           nlink[e.node] \in Nat
    PROVE  SeenOK'
<1>1. /\ copyOf'[n] = e.node /\ Made' = Made \cup {n} /\ \A k \in Made : copyOf'[k] = copyOf[k]
  BY PutCopies
<1>2. /\ SeenOK /\ CopyOK /\ n \in DNode /\ n # root /\ UNCHANGED <<kind, nlink>>
      /\ seen \in [Node -> DNode]
  BY DEF GraftInv, Puts, vars, SeenOK
<1>3. \A k \in Made : copyOf[k] = e.node => k = n
  BY <1>2 DEF Puts, CopyOK
<1>4. CASE seen' = seen /\ (kind[e.node] # "file" \/ nlink[e.node] <= 1 \/ n = seen[e.node])
  <2>1. \A m \in Node : seen[m] # root => seen[m] \in Made' /\ copyOf'[seen[m]] = m
    BY <1>1, <1>2 DEF SeenOK
  <2>2. ASSUME NEW k \in Made', kind[copyOf'[k]] = "file" /\ nlink[copyOf'[k]] > 1
        PROVE  seen[copyOf'[k]] = k
    <3>1. CASE k \in Made
      BY <1>1, <1>2, <2>2, <3>1 DEF SeenOK
    <3>2. CASE k = n
      BY <1>1, <1>4, <2>2, <3>2
    <3> QED BY <1>1, <3>1, <3>2
  <2> QED BY <1>2, <1>4, <2>1, <2>2 DEF SeenOK
<1>5. CASE seen' = [seen EXCEPT ![e.node] = n]
  <2>1. seen' \in [Node -> DNode] /\ seen'[e.node] = n /\ \A m \in Node : m # e.node => seen'[m] = seen[m]
    BY <1>2, <1>5
  <2>2. \A m \in Node : seen'[m] # root => seen'[m] \in Made' /\ copyOf'[seen'[m]] = m
    BY <1>1, <1>2, <2>1 DEF SeenOK
  <2>3. ASSUME NEW k \in Made', kind[copyOf'[k]] = "file" /\ nlink[copyOf'[k]] > 1
        PROVE  seen'[copyOf'[k]] = k
    <3>1. CASE k \in Made /\ k # n
      <4>1. copyOf'[k] = copyOf[k] /\ copyOf[k] # e.node /\ copyOf[k] \in Node
        BY <1>1, <1>2, <1>3, <3>1 DEF CopyOK, Made
      <4> QED BY <1>2, <2>1, <2>3, <3>1, <4>1 DEF SeenOK
    <3>2. CASE k = n
      BY <1>1, <2>1, <3>2
    <3> QED BY <1>1, <3>1, <3>2
  <2> QED BY <1>2, <2>1, <2>2, <2>3 DEF SeenOK
<1> QED BY <1>4, <1>5

\* graftOne's call on the destination, whatever the kind of the node: the name is taken,
\* or the entry gets its copy.
LEMMA CallOutcome ==
    ASSUME GraftInv, phase = "graft", NEW e \in rest[here],
           \/ kind[e.node] = "dir" /\ dst!Mkdir(here, e.name) /\ UNCHANGED seen
           \/ graftLeaf(here, e.name, e.node),
           Records(e), UNCHANGED vars
    PROVE  /\ D!TreeInv'
           /\ \/ Refused(here, e.name) /\ seen' = seen
              \/ /\ dret' = "nil" /\ SeenOK'
                 /\ \E n : Puts(e, n) /\ (kind[e.node] = "dir" => dkind[n] = "none" /\ Created = n)
<1>1. /\ here \in DNode /\ here \in Made /\ copyOf[here] = e.dir /\ e \in entries /\ ~Copied(e)
      /\ e.dir \in Node /\ e.name \in Name /\ e.node \in Node /\ e.node # root
      /\ kind[e.node] \in {"dir"} \cup Leaf
  BY EntryAtHand
<1>2. /\ D!TreeInv /\ nlink[e.node] \in Nat /\ seen \in [Node -> DNode]
      /\ copyOf \in [DNode -> Node \cup {NotCopied}]
  BY <1>1 DEF GraftInv, LiveInv, TreeInv, TreeShape, TypeOK, SeenOK, CopyOK
<1>3. CASE kind[e.node] = "file" /\ seen[e.node] # root
  <2>1. dst!Link(here, e.name, seen[e.node]) /\ UNCHANGED seen
    BY <1>3 DEF graftLeaf
  <2>2. PICK n : n = seen[e.node]
    OBVIOUS
  <2>3. n \in DNode /\ n # root /\ n \in Made /\ copyOf[n] = e.node /\ dkind[n] = "file"
    BY <1>1, <1>3, <2>2 DEF GraftInv, SeenOK, CopyOK, Made
  <2>4. /\ D!TreeInv'
        /\ \/ /\ dkind' = dkind /\ dentries' = dentries \cup {Entry(here, e.name, n)} /\ dret' = "nil"
           \/ Refused(here, e.name)
    BY <1>1, <1>2, <2>1, <2>2, <2>3, DstLinks
  <2>5. ASSUME dkind' = dkind, dentries' = dentries \cup {Entry(here, e.name, n)}
        PROVE  Puts(e, n) /\ SeenOK'
    <3>1. copyOf' = copyOf /\ copyOf = [copyOf EXCEPT ![n] = e.node]
      BY <1>2, <2>3, <2>5, DstAssumption DEF Records
    <3>2. Puts(e, n)
      BY <2>3, <2>5, <3>1 DEF Puts
    <3> QED BY <1>1, <1>2, <2>1, <2>2, <3>2, PutKeepsSeen
  <2> QED BY <1>3, <2>1, <2>4, <2>5
<1>4. CASE kind[e.node] = "file" => seen[e.node] = root
  <2>1. /\ kind[e.node] = "dir" => dst!Mkdir(here, e.name) /\ seen' = seen
        /\ kind[e.node] = "symlink" => dst!Symlink(here, e.name) /\ seen' = seen
        /\ kind[e.node] = "special" => dst!Mknod(here, e.name) /\ seen' = seen
        /\ kind[e.node] = "file" =>
              /\ dst!Create(here, e.name)
              /\ seen' = IF dret' = "nil" /\ nlink[e.node] > 1 THEN [seen EXCEPT ![e.node] = Created] ELSE seen
    BY <1>4 DEF graftLeaf, remember
  <2>2. D!TreeInv' /\ (Makes(here, e.name, kind[e.node]) \/ Refused(here, e.name))
    <3>1. \/ kind[e.node] = "dir" /\ dst!Mkdir(here, e.name)
          \/ kind[e.node] = "file" /\ dst!Create(here, e.name)
          \/ kind[e.node] = "symlink" /\ dst!Symlink(here, e.name)
          \/ kind[e.node] = "special" /\ dst!Mknod(here, e.name)
      BY <1>1, <2>1 DEF Leaf
    <3> QED BY <1>1, <1>2, <3>1, DstCreates
  <2>3. CASE Refused(here, e.name)
    <3>1. seen' = seen
      BY <1>1, <2>1, <2>3 DEF Refused, Leaf
    <3> QED BY <2>2, <2>3, <3>1
  <2>4. CASE Makes(here, e.name, kind[e.node])
    <3>1. \A k \in Made : copyOf[k] # e.node
      BY <1>1, <1>4, NotYet
    <3>2. PICK n : Puts(e, n) /\ dkind[n] = "none" /\ Created = n /\ dret' = "nil"
      BY <1>1, <2>4, <3>1, MadeIsPut
    <3>3. \/ seen' = seen /\ (kind[e.node] # "file" \/ nlink[e.node] <= 1)
          \/ seen' = [seen EXCEPT ![e.node] = n]
      BY <1>1, <1>2, <2>1, <3>2 DEF Leaf
    <3>4. SeenOK'
      BY <1>1, <1>2, <3>2, <3>3, PutKeepsSeen
    <3> QED BY <2>2, <3>2, <3>4
  <2> QED BY <2>2, <2>3, <2>4
<1> QED BY <1>3, <1>4

\* One entry, and the loop that its children get if it is a directory.
LEMMA GraftOneKeeps ==
    ASSUME GraftInv, graftOne
    PROVE  GraftInv'
<1>1. PICK e \in sortedEntries(rest[here]) :
        /\ \/ kind[e.node] = "dir" /\ dst!Mkdir(here, e.name) /\ UNCHANGED seen
           \/ graftLeaf(here, e.name, e.node)
        /\ copyOf' = [m \in dst!Node |-> IF dkind[m] # dkind'[m] THEN e.node ELSE copyOf[m]]
        /\ \/ dret' # "nil" /\ phase' = "failed" /\ UNCHANGED <<stack, rest>>
           \/ /\ dret' = "nil" /\ kind[e.node] = "dir"
              /\ stack' = Append(stack, sub)
              /\ rest' = [rest EXCEPT ![here] = @ \ {e}, ![sub] = @ \cup Children(e.node)]
              /\ UNCHANGED phase
           \/ /\ dret' = "nil" /\ kind[e.node] # "dir"
              /\ rest' = [rest EXCEPT ![here] = @ \ {e}]
              /\ UNCHANGED <<phase, stack>>
  BY DEF graftOne
<1>2. phase = "graft" /\ UNCHANGED vars /\ Records(e) /\ e \in rest[here]
  BY <1>1 DEF graftOne, Records, sortedEntries
<1>3. /\ here \in DNode /\ here \in Made /\ copyOf[here] = e.dir /\ e \in entries /\ ~Copied(e)
      /\ e.node \in Node /\ kind[e.node] \in {"dir"} \cup Leaf
  BY <1>2, EntryAtHand
<1>4. /\ stack \in Seq(DNode) /\ stack # <<>> /\ rest \in [DNode -> SUBSET entries]
      /\ \A d \in DNode : rest[d] # {} => \E i \in 1 .. Len(stack) : stack[i] = d
  BY <1>2 DEF GraftInv, PhaseOK, RestOK
<1>5. LiveInv' /\ \A d : Children(d)' = Children(d)
  BY <1>2, QuietSource DEF GraftInv
<1>6. /\ D!TreeInv'
      /\ \/ Refused(here, e.name) /\ seen' = seen
         \/ /\ dret' = "nil" /\ SeenOK'
            /\ \E n : Puts(e, n) /\ (kind[e.node] = "dir" => dkind[n] = "none" /\ Created = n)
  BY <1>1, <1>2, CallOutcome
<1>7. CASE Refused(here, e.name) /\ seen' = seen
  <2>1. phase' = "failed" /\ UNCHANGED <<stack, rest>>
    BY <1>1, <1>7 DEF Refused
  <2>2. /\ CopyOK' /\ copyOf' = copyOf
        /\ \E g \in dentries' : copyOf'[g.node] = NotCopied /\ find(root, g.name)' # {}
    BY <1>2, <1>7, RefusalIsCollision
  <2>3. GraftFailsOnCollision'
    BY <2>2 DEF GraftFailsOnCollision
  <2>4. dentries' = dentries /\ Made' = Made /\ UNCHANGED <<kind, entries, nlink>>
    BY <1>2, <1>7, <2>2 DEF Refused, Made, vars
  <2>5. \A f : Copied(f)' <=> Copied(f)
    BY <2>2, <2>4 DEF Copied, Copy
  <2>6. RestOK'
    BY <2>1, <2>2, <2>4, <2>5 DEF GraftInv, RestOK
  <2>7. SeenOK'
    BY <1>7, <2>2, <2>4 DEF GraftInv, SeenOK
  <2>8. PhaseOK'
    BY <2>1 DEF PhaseOK
  <2> QED BY <1>5, <1>6, <2>2, <2>3, <2>6, <2>7, <2>8 DEF GraftInv
<1>8. ASSUME dret' = "nil", SeenOK', NEW n, Puts(e, n),
             kind[e.node] = "dir" => dkind[n] = "none" /\ Created = n
      PROVE  GraftInv'
  <2>1. n \in DNode
    BY <1>8 DEF Puts
  <2>2. CopyOK'
    BY <1>3, <1>8, PutKeepsCopy
  <2>3. kind[e.node] = "dir" => n # here /\ sub = n
    BY <1>3, <1>8 DEF GraftInv, CopyOK, sub
  <2>4. /\ rest' = [d \in DNode |-> IF d = here THEN rest[d] \ {e}
                                    ELSE IF d = n /\ kind[e.node] = "dir" THEN rest[d] \cup Children(e.node)
                                    ELSE rest[d]]
        /\ phase' = "graft" /\ stack' = IF kind[e.node] = "dir" THEN Append(stack, n) ELSE stack
    BY <1>1, <1>2, <1>3, <1>4, <1>8, <2>1, <2>3
  <2>5. RestOK'
    BY <1>2, <1>3, <1>8, <2>4, PutKeepsRest
  <2>6. PhaseOK'
    <3>1. stack' \in Seq(DNode) /\ stack' # <<>>
      BY <1>4, <2>1, <2>4
    <3>2. ASSUME NEW d \in DNode, rest'[d] # {}
          PROVE  \E i \in 1 .. Len(stack') : stack'[i] = d
      <4>1. CASE rest[d] # {}
        <5>1. PICK i \in 1 .. Len(stack) : stack[i] = d
          BY <1>4, <4>1
        <5>2. i \in 1 .. Len(stack') /\ stack'[i] = d
          BY <1>4, <2>1, <2>4, <5>1
        <5> QED BY <5>2
      <4>2. CASE rest[d] = {}
        <5>1. d = n /\ kind[e.node] = "dir"
          BY <2>4, <3>2, <4>2
        <5>2. stack' = Append(stack, n) /\ Len(stack) \in Nat
          BY <1>4, <2>4, <5>1
        <5>3. Len(stack') = Len(stack) + 1 /\ stack'[Len(stack) + 1] = n
          BY <1>4, <2>1, <5>2
        <5> QED BY <5>1, <5>2, <5>3
      <4> QED BY <4>1, <4>2
    <3> QED BY <2>4, <3>1, <3>2 DEF PhaseOK
  <2>7. GraftFailsOnCollision'
    BY <2>4 DEF GraftFailsOnCollision
  <2> QED BY <1>5, <1>6, <1>8, <2>2, <2>5, <2>6, <2>7 DEF GraftInv
<1> QED BY <1>6, <1>7, <1>8

\* A loop returns: it leaves nothing, and the loops around it are still to go on.
LEMMA GraftReturnsKeeps ==
    ASSUME GraftInv, GraftReturns
    PROVE  GraftInv'
<1>1. /\ phase = "graft" /\ stack \in Seq(DNode) /\ stack # <<>> /\ rest[here] = {}
      /\ \A d \in DNode : rest[d] # {} => \E i \in 1 .. Len(stack) : stack[i] = d
      /\ UNCHANGED <<vars, rest, seen, dvars, copyOf>>
  BY DEF GraftInv, PhaseOK, GraftReturns
<1>2. LiveInv' /\ D!TreeInv'
  BY <1>1, QuietSource, DstAssumption, D!TreeInvInductive DEF GraftInv, dvars, D!vars
<1>3. UNCHANGED <<kind, entries, nlink, dkind, dentries, Made>> /\ copyOf' = copyOf /\ seen' = seen /\ rest' = rest
  BY <1>1 DEF vars, dvars, Made
<1>4. CopyOK' /\ SeenOK'
  BY <1>3 DEF GraftInv, CopyOK, SeenOK, Copy
<1>5. RestOK'
  <2>1. \A f : Copied(f)' <=> Copied(f)
    BY <1>3 DEF Copied, Copy
  <2> QED BY <1>1, <1>3, <2>1 DEF GraftInv, RestOK, Children
<1>6. PICK n \in Nat \ {0} : n = Len(stack)
  BY <1>1
<1>7. ASSUME NEW d \in DNode, rest[d] # {}
      PROVE  \E i \in 1 .. n - 1 : stack[i] = d
  <2>1. PICK i \in 1 .. n : stack[i] = d
    BY <1>1, <1>6, <1>7
  <2>2. i # n
    BY <1>1, <1>6, <1>7, <2>1 DEF here
  <2> QED BY <2>1, <2>2
<1>8. CASE n = 1
  <2>1. phase' = "done"
    BY <1>6, <1>8 DEF GraftReturns
  <2>2. \A d \in DNode : rest'[d] = {}
    BY <1>3, <1>7, <1>8
  <2> QED BY <1>2, <1>4, <1>5, <2>1, <2>2 DEF GraftInv, PhaseOK, GraftFailsOnCollision
<1>9. CASE n # 1
  <2>1. phase' = "graft" /\ stack' = SubSeq(stack, 1, n - 1)
    BY <1>6, <1>9 DEF GraftReturns
  <2>2. /\ stack' \in Seq(DNode) /\ Len(stack') = n - 1
        /\ \A i \in 1 .. n - 1 : stack'[i] = stack[i]
    BY <1>1, <1>6, <2>1
  <2>3. stack' # <<>>
    BY <1>6, <1>9, <2>2
  <2>4. \A d \in DNode : rest'[d] # {} => \E i \in 1 .. Len(stack') : stack'[i] = d
    BY <1>3, <1>7, <2>2
  <2> QED BY <1>2, <1>4, <1>5, <2>1, <2>2, <2>3, <2>4 DEF GraftInv, PhaseOK, GraftFailsOnCollision
<1> QED BY <1>8, <1>9

\* Nothing changes.
LEMMA GraftStutters ==
    ASSUME GraftInv, UNCHANGED graftVars
    PROVE  GraftInv'
<1>1. UNCHANGED <<vars, dvars>> /\ UNCHANGED <<phase, stack, rest, seen, copyOf>>
  BY DEF graftVars
<1>2. LiveInv' /\ D!TreeInv'
  BY <1>1, QuietSource, DstAssumption, D!TreeInvInductive DEF GraftInv, dvars, D!vars
<1>3. UNCHANGED <<kind, entries, nlink, dkind, dentries, Made>>
  BY <1>1 DEF vars, dvars, Made
<1>4. CopyOK' /\ SeenOK'
  BY <1>1, <1>3 DEF GraftInv, CopyOK, SeenOK, Copy
<1>5. RestOK'
  <2>1. \A f : Copied(f)' <=> Copied(f)
    BY <1>1, <1>3 DEF Copied, Copy
  <2> QED BY <1>1, <1>3, <2>1 DEF GraftInv, RestOK, Children
<1>6. PhaseOK' /\ GraftFailsOnCollision'
  BY <1>1, <1>3 DEF GraftInv, PhaseOK, GraftFailsOnCollision, find, Children
<1> QED BY <1>2, <1>4, <1>5, <1>6 DEF GraftInv

\* Every step keeps the invariant.
LEMMA GraftInvInductive ==
    ASSUME ~StaleEdits, GraftInv, [GraftNext]_graftVars
    PROVE  GraftInv'
  BY EditSourceKeeps, EditDestinationKeeps, StartGraftKeeps, GraftOneKeeps, GraftReturnsKeeps,
     GraftStutters DEF GraftNext, Walk

-----------------------------------------------------------------------------
(* What a finished Graft has made. *)

\* Every entry of the source has its copy: what the copies stand for is closed under the
\* walk, so it has all that the walk reaches.
LEMMA AllIsCopied ==
    ASSUME GraftInv, phase = "done", NEW e \in entries
    PROVE  Copied(e)
<1> DEFINE S == {m \in Node : \E k \in Made : copyOf[k] = m}
<1>1. CopyOK /\ copyOf[root] = root /\ root \in Made /\ root \in Node
  <2>1. root \in Node /\ root \in DNode /\ root # NotCopied
    BY DstAssumption DEF root, Node, DNode, NotCopied
  <2> QED BY <2>1 DEF GraftInv, CopyOK, Made
<1>2. ASSUME NEW f \in entries, f.dir \in S
      PROVE  Copied(f)
  <2>1. PICK k \in Made : copyOf[k] = f.dir
    BY <1>2
  <2>2. f \in Children(copyOf[k]) /\ k \in DNode
    BY <2>1 DEF Children, Made
  <2>3. rest[k] = {}
    BY <2>2 DEF GraftInv, PhaseOK
  <2> QED BY <2>1, <2>2, <2>3 DEF GraftInv, RestOK
<1>3. Walked(S)
  <2>1. root \in S
    BY <1>1
  <2>2. ASSUME NEW f \in entries, f.dir \in S
        PROVE  f.node \in S
    <3>1. PICK g \in dentries : g.node \in Made /\ Copy(g) = f
      BY <1>2, <2>2 DEF Copied
    <3>2. copyOf[g.node] = f.node
      BY <3>1 DEF Copy, Entry
    <3>3. f.node \in Node
      BY DEF GraftInv, LiveInv, TreeInv, TreeShape, TypeOK
    <3> QED BY <3>1, <3>2, <3>3
  <2> QED BY <2>1, <2>2 DEF Walked
<1>4. S \in SUBSET Node
  OBVIOUS
<1> HIDE DEF S
<1>5. e.dir \in S
  BY <1>3, <1>4 DEF GraftInv, LiveInv, AllReached, Reachable
<1> QED BY <1>2, <1>5

\* Copying is one to one on the entries of what was made, so that what is counted in the
\* copy is what was counted in the source.
LEMMA CopiesAreAsMany ==
    ASSUME GraftInv, phase = "done", NEW S, NEW T, S \subseteq dentries, IsFiniteSet(S),
           \A g \in S : g.node \in Made /\ Copy(g) \in T,
           T \subseteq entries,
           \A g \in dentries : g.node \in Made /\ Copy(g) \in T => g \in S
    PROVE  Cardinality(S) = Cardinality(T)
<1> DEFINE F == [g \in S |-> Copy(g)]
<1>1. F \in [S -> T]
  OBVIOUS
<1>2. ASSUME NEW g \in S, NEW h \in S, F[g] = F[h]
      PROVE  g = h
  <2>1. Copy(g) = Copy(h)
    BY <1>2
  <2>2. copyOf[g.dir] = copyOf[h.dir] /\ g.name = h.name
    BY <2>1 DEF Copy, Entry
  <2>3. g.dir = h.dir
    BY <2>2 DEF GraftInv, CopyOK
  <2> QED BY <2>2, <2>3, DstEntries DEF GraftInv
<1>3. ASSUME NEW f \in T
      PROVE  \E g \in S : F[g] = f
  <2>1. PICK g \in dentries : g.node \in Made /\ Copy(g) = f
    BY AllIsCopied DEF Copied
  <2> QED BY <2>1
<1> HIDE DEF F
<1>4. F \in Bijection(S, T)
  BY <1>1, <1>2, <1>3 DEF Bijection, Injection, Surjection, IsInjective
<1>5. ExistsBijection(S, T)
  BY <1>4 DEF ExistsBijection
<1> QED BY <1>5, FS_Bijection

\* A node and its copy have the same link count, the root's included.
LEMMA SameCounts ==
    ASSUME GraftInv, phase = "done", NEW m \in Made
    PROVE  dnlink[m] = nlink[copyOf[m]]
<1>1. PICK k : k = copyOf[m]
  OBVIOUS
<1>2. /\ m \in DNode /\ k \in Node /\ dkind[m] = kind[k] /\ dkind[m] \in {"dir"} \cup Leaf
      /\ (m = root <=> k = root) /\ root \in Made /\ copyOf[root] = root
  <2>1. root \in DNode /\ root # NotCopied
    BY DstAssumption DEF root, DNode, NotCopied
  <2>2. CopyOK /\ dkind \in [DNode -> {"none", "dir"} \cup Leaf]
    BY DstEntries DEF GraftInv
  <2> QED BY <1>1, <2>1, <2>2 DEF CopyOK, Made
<1>3. \A S : D!Cardinality(S) = Cardinality(S) /\ (D!IsFiniteSet(S) <=> IsFiniteSet(S))
  BY DEF D!Cardinality, Cardinality, D!IsFiniteSet, IsFiniteSet
<1>4. IsFiniteSet(dentries)
  BY <1>3 DEF GraftInv, D!TreeInv
<1>5. D!Naming(m) \subseteq dentries /\ D!SubDirs(m) \subseteq dentries
  BY DEF D!Naming, D!SubDirs, D!Children
<1>6. IsFiniteSet(D!Naming(m)) /\ IsFiniteSet(D!SubDirs(m))
  BY <1>4, <1>5, FS_Subset
<1>7. \A g \in dentries : g.node \in Made =>
          /\ Copy(g) \in entries /\ Copy(g).dir = copyOf[g.dir] /\ Copy(g).node = copyOf[g.node]
          /\ g.dir \in Made /\ dkind[g.node] = kind[copyOf[g.node]]
          /\ (g.node = m <=> Copy(g).node = k) /\ (g.dir = m <=> Copy(g).dir = k)
  BY <1>1 DEF GraftInv, CopyOK, Copy, Entry
<1>8. Cardinality(D!Naming(m)) = Cardinality(Naming(k))
  <2>1. \A g \in D!Naming(m) : g.node \in Made /\ Copy(g) \in Naming(k)
    BY <1>7 DEF D!Naming, Naming
  <2>2. \A g \in dentries : g.node \in Made /\ Copy(g) \in Naming(k) => g \in D!Naming(m)
    BY <1>7 DEF D!Naming, Naming
  <2>3. Naming(k) \subseteq entries
    BY DEF Naming
  <2> QED BY <1>5, <1>6, <2>1, <2>2, <2>3, CopiesAreAsMany
<1>9. Cardinality(D!SubDirs(m)) = Cardinality(SubDirs(k))
  <2>1. \A g \in D!SubDirs(m) : g \in dentries /\ g.dir = m /\ dkind[g.node] = "dir" /\ g.node \in DNode
    BY DstEntries DEF D!SubDirs, D!Children, GraftInv
  <2>2. \A g \in D!SubDirs(m) : g.node \in Made
    BY <2>1 DEF GraftInv, CopyOK
  <2>3. \A g \in D!SubDirs(m) : Copy(g) \in SubDirs(k)
    BY <1>7, <2>1, <2>2 DEF SubDirs, Children
  <2>4. \A g \in dentries : g.node \in Made /\ Copy(g) \in SubDirs(k) => g \in D!SubDirs(m)
    BY <1>7 DEF D!SubDirs, D!Children, SubDirs, Children
  <2>5. SubDirs(k) \subseteq entries
    BY DEF SubDirs, Children
  <2> QED BY <1>5, <1>6, <2>2, <2>3, <2>4, <2>5, CopiesAreAsMany
<1>10. /\ kind[k] \in Leaf => nlink[k] = Cardinality(Naming(k))
       /\ kind[k] = "dir" => nlink[k] = Cardinality(SubDirs(k)) + Cardinality(Naming(k))
                                        + (IF k = root THEN 2 ELSE 1)
  BY <1>2 DEF GraftInv, LiveInv, TreeInv, CountsReferences
<1>11. /\ dkind[m] \in Leaf => dnlink[m] = Cardinality(D!Naming(m))
       /\ dkind[m] = "dir" => dnlink[m] = Cardinality(D!SubDirs(m)) + Cardinality(D!Naming(m))
                                          + (IF m = root THEN 2 ELSE 1)
  BY <1>2, <1>3, DstAssumption DEF GraftInv, D!TreeInv, D!CountsReferences, D!Leaf, Leaf, D!root, root
<1> QED BY <1>1, <1>2, <1>8, <1>9, <1>10, <1>11 DEF Leaf

\* So a finished Graft has made a copy of all the source.
LEMMA FinishedIsCopy ==
    ASSUME GraftInv
    PROVE  GraftIsCopy
<1> SUFFICES ASSUME phase = "done"
             PROVE  /\ \A m, k \in Made : copyOf[m] = copyOf[k] => m = k
                    /\ {Entry(copyOf[g.dir], g.name, copyOf[g.node]) : g \in {f \in dentries : f.node \in Made}}
                         = {e \in entries : e.dir \in Reachable}
                    /\ \A m \in Made : dkind[m] = kind[copyOf[m]] /\ dnlink[m] = nlink[copyOf[m]]
  BY DstAssumption DEF GraftIsCopy, Made
<1>1. CopyOK
  BY DEF GraftInv
<1>2. \A m \in Made : dkind[m] = kind[copyOf[m]] /\ dnlink[m] = nlink[copyOf[m]]
  BY <1>1, SameCounts DEF CopyOK
<1>3. \A e \in entries : e.dir \in Reachable
  BY DEF GraftInv, LiveInv, AllReached
<1>4. \A g \in dentries : g.node \in Made => Entry(copyOf[g.dir], g.name, copyOf[g.node]) \in entries
  BY <1>1 DEF CopyOK, Copy
<1>5. \A e \in entries : \E g \in dentries : g.node \in Made /\ Entry(copyOf[g.dir], g.name, copyOf[g.node]) = e
  BY AllIsCopied DEF Copied, Copy
<1>6. {Entry(copyOf[g.dir], g.name, copyOf[g.node]) : g \in {f \in dentries : f.node \in Made}}
         = {e \in entries : e.dir \in Reachable}
  BY <1>3, <1>4, <1>5
<1> QED BY <1>1, <1>2, <1>6 DEF CopyOK

\* Graft of a source that was edited through live handles, into a destination that may
\* hold files of its own in its root, makes an exact copy, hard links and link counts included, or
\* stops at a name the destination's root already had.
THEOREM GraftCopies ==
    ASSUME ~StaleEdits
    PROVE  GraftSpec => []GraftOutcome
<1>1. GraftInit => GraftInv
  BY GraftInvInit
<1>2. GraftInv /\ [GraftNext]_graftVars => GraftInv'
  BY GraftInvInductive
<1>3. GraftInv => GraftOutcome
  BY FinishedIsCopy DEF GraftInv, GraftOutcome
<1> QED BY <1>1, <1>2, <1>3, PTL DEF GraftSpec
=============================================================================
