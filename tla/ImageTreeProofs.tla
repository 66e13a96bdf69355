-------------------------- MODULE ImageTreeProofs --------------------------
(***************************************************************************)
(* Proofs about module ImageTree, for any number of nodes, any names and   *)
(* any use of the handles of removed directories: names stay valid and     *)
(* unique, directories form a tree, and every link count is exact, in the  *)
(* tree and in the image an engine writes of it.                           *)
(***************************************************************************)
EXTENDS ImageTree, FiniteSetTheorems, TLAPS

\* TreeShape and CountsReferences support each other: a count can be decremented
\* because an entry names the node, and a fresh node has no entry.
TreeInv ==
    /\ TreeShape
    /\ CountsReferences
    /\ kind[root] = "dir"
    /\ IsFiniteSet(entries)

\* The same before the counts: what a call must establish about the shape.
ShapeInv == TreeShape /\ kind[root] = "dir" /\ IsFiniteSet(entries)

-----------------------------------------------------------------------------
(* Entries and their numbers. *)

\* The sets the counts are about are finite.
LEMMA PartsAreFinite ==
    ASSUME IsFiniteSet(entries)
    PROVE  \A m : /\ IsFiniteSet(Naming(m)) /\ Cardinality(Naming(m)) \in Nat
                  /\ IsFiniteSet(SubDirs(m)) /\ Cardinality(SubDirs(m)) \in Nat
<1> TAKE m
<1>1. Naming(m) \in SUBSET entries /\ SubDirs(m) \in SUBSET entries
  BY DEF Naming, SubDirs, Children
<1> QED BY <1>1, FS_Subset, FS_CardinalityType

\* Two different elements: a set with them has more than one.
LEMMA AtMostOne ==
    ASSUME NEW S, IsFiniteSet(S), NEW e
    PROVE  /\ e \notin S => Cardinality(S \cup {e}) = Cardinality(S) + 1
           /\ e \in S => Cardinality(S \ {e}) = Cardinality(S) - 1
           /\ S = {} => Cardinality(S) = 0
           /\ Cardinality(S) = 0 => S = {}
  BY FS_AddElement, FS_RemoveElement, FS_EmptySet

-----------------------------------------------------------------------------
(* newChild. *)

\* The node newChild links is not named yet and has no children; its directory
\* is another one.
LEMMA FreshIsUnnamed ==
    ASSUME TreeInv, NEW m \in Fresh, NEW d \in Node, kind[d] = "dir"
    PROVE  /\ m \in Node /\ kind[m] = "none" /\ m # d /\ m # root
           /\ nlink[m] = 0 /\ Naming(m) = {} /\ Children(m) = {}
  BY DEF TreeInv, CountsReferences, Fresh

\* What newChild does to the entries of every node.
LEMMA NewChildEntries ==
    ASSUME TreeInv, NEW d \in Node, NEW x \in Name \cup BadName, NEW m \in Fresh,
           NEW k \in {"dir"} \cup Leaf, newChild(d, x, m, k)
    PROVE  /\ Entry(d, x, m) \notin entries
           /\ \A n : Naming(n)' = IF n = m THEN {Entry(d, x, m)} ELSE Naming(n)
           /\ \A n : Children(n)' = IF n = d THEN Children(n) \cup {Entry(d, x, m)}
                                    ELSE Children(n)
           /\ \A n : SubDirs(n)' = IF n = d /\ k = "dir" THEN SubDirs(n) \cup {Entry(d, x, m)}
                                   ELSE SubDirs(n)
<1>1. /\ kind[d] = "dir" /\ kind \in [Node -> {"none", "dir"} \cup Leaf]
      /\ kind' = [kind EXCEPT ![m] = k] /\ entries' = entries \cup {Entry(d, x, m)}
      /\ entries \subseteq [dir : Node, name : Name, node : Node]
  BY DEF newChild, Editable, TreeInv, TreeShape, TypeOK
<1>2. m \in Node /\ m # d /\ Naming(m) = {} /\ kind[m] = "none"
  BY <1>1, FreshIsUnnamed
<1>3. PICK e : e = Entry(d, x, m)
  OBVIOUS
<1>4. e.dir = d /\ e.node = m
  BY <1>3 DEF Entry
<1>5. e \notin entries
  BY <1>2, <1>4 DEF Naming
<1>6. \A n : Naming(n)' = IF n = m THEN {e} ELSE Naming(n)
  BY <1>1, <1>2, <1>3, <1>4 DEF Naming
<1>7. \A n : Children(n)' = IF n = d THEN Children(n) \cup {e} ELSE Children(n)
  BY <1>1, <1>3, <1>4 DEF Children
<1>8. kind'[m] = k /\ \A f \in entries : f.node # m /\ kind'[f.node] = kind[f.node]
  BY <1>1, <1>2 DEF Naming
<1>9. \A n : SubDirs(n)' = IF n = d /\ k = "dir" THEN SubDirs(n) \cup {e} ELSE SubDirs(n)
  BY <1>1, <1>3, <1>4, <1>8 DEF SubDirs, Children
<1> QED BY <1>3, <1>5, <1>6, <1>7, <1>9

\* An entry of a valid name that its directory does not hold yet, of a node that
\* is no directory or has no entry yet, keeps the shape of the tree.
LEMMA AddKeepsShape ==
    ASSUME TreeInv, NEW d \in Node, NEW x \in Name \cup BadName, NEW m \in Node, m # root,
           nameError(d, x) = "nil", entries' = entries \cup {Entry(d, x, m)},
           kind' \in [Node -> {"none", "dir"} \cup Leaf], kind'[root] = "dir",
           nlink' \in [Node -> Nat], ret' = "nil",
           \A n \in Node : kind'[n] = "dir" => kind[n] = "dir" \/ n = m,
           kind'[m] = "dir" => Naming(m) = {}
    PROVE  ShapeInv'
<1>1. PICK e : e = Entry(d, x, m)
  OBVIOUS
<1>2. e.dir = d /\ e.name = x /\ e.node = m /\ x \in Name /\ find(d, x) = {}
  BY <1>1 DEF Entry, nameError
<1>3. e \in [dir : Node, name : Name, node : Node]
  BY <1>1, <1>2 DEF Entry
<1>4. TypeOK'
  BY <1>1, <1>3 DEF TreeInv, TreeShape, TypeOK
<1>5. NamesUnique'
  BY <1>1, <1>2 DEF TreeInv, TreeShape, NamesUnique, find, Children
<1>6. IsFiniteSet(entries')
  BY <1>1, FS_AddElement DEF TreeInv
<1>7. Naming(root)' = {}
  BY <1>1, <1>2 DEF TreeInv, TreeShape, DirectoriesFormTree, Naming
<1>8. ASSUME NEW n \in Node, kind'[n] = "dir"
      PROVE  Cardinality(Naming(n)') <= 1
  <2>1. CASE n = m
    <3>1. Naming(n)' = {e}
      BY <1>1, <1>2, <1>8, <2>1 DEF Naming
    <3> QED BY <3>1, FS_Singleton
  <2>2. CASE n # m
    <3>1. Naming(n)' = Naming(n)
      BY <1>1, <1>2, <2>2 DEF Naming
    <3> QED BY <1>8, <2>2, <3>1 DEF TreeInv, TreeShape, DirectoriesFormTree
  <2> QED BY <2>1, <2>2
<1>9. DirectoriesFormTree'
  BY <1>7, <1>8 DEF DirectoriesFormTree
<1> QED BY <1>4, <1>5, <1>6, <1>9 DEF ShapeInv, TreeShape

\* A new directory counts itself and its entry, and one more for its parent; a
\* new leaf counts its entry.
LEMMA NewChildKeeps ==
    ASSUME TreeInv, NEW d \in Node, NEW x \in Name \cup BadName, NEW m \in Fresh,
           NEW k \in {"dir"} \cup Leaf, newChild(d, x, m, k),
           nlink' \in [Node -> Nat], nlink'[m] = (IF k = "dir" THEN 2 ELSE 1),
           \A n \in Node \ {m} :
               nlink'[n] = IF n = d /\ k = "dir" THEN nlink[n] + 1 ELSE nlink[n]
    PROVE  TreeInv'
<1>1. /\ kind[d] = "dir" /\ kind \in [Node -> {"none", "dir"} \cup Leaf]
      /\ kind' = [kind EXCEPT ![m] = k] /\ entries' = entries \cup {Entry(d, x, m)}
      /\ ret' = "nil" /\ nameError(d, x) = "nil" /\ nlink \in [Node -> Nat]
      /\ kind[root] = "dir" /\ IsFiniteSet(entries)
  BY DEF newChild, Editable, TreeInv, TreeShape, TypeOK
<1>2. /\ m \in Node /\ kind[m] = "none" /\ m # d /\ m # root
      /\ nlink[m] = 0 /\ Naming(m) = {} /\ Children(m) = {}
  BY <1>1, FreshIsUnnamed
<1>3. /\ Entry(d, x, m) \notin entries
      /\ \A n : Naming(n)' = IF n = m THEN {Entry(d, x, m)} ELSE Naming(n)
      /\ \A n : Children(n)' = IF n = d THEN Children(n) \cup {Entry(d, x, m)} ELSE Children(n)
      /\ \A n : SubDirs(n)' = IF n = d /\ k = "dir" THEN SubDirs(n) \cup {Entry(d, x, m)}
                               ELSE SubDirs(n)
  BY NewChildEntries
<1>4. PICK e : e = Entry(d, x, m)
  OBVIOUS
<1>5. ShapeInv'
  <2>1. kind' \in [Node -> {"none", "dir"} \cup Leaf] /\ kind'[root] = "dir"
    BY <1>1, <1>2 DEF root, Node
  <2>3. \A n \in Node : kind'[n] = "dir" => kind[n] = "dir" \/ n = m
    BY <1>1
  <2> QED BY <1>1, <1>2, <2>1, <2>3, AddKeepsShape
<1>6. ASSUME NEW n \in Node, n # m, n # d
      PROVE  kind'[n] = kind[n] /\ nlink'[n] = nlink[n] /\ Naming(n)' = Naming(n)
             /\ Children(n)' = Children(n) /\ SubDirs(n)' = SubDirs(n)
  BY <1>1, <1>3, <1>6
<1>7. /\ kind'[m] = k /\ nlink'[m] = (IF k = "dir" THEN 2 ELSE 1)
      /\ Children(m)' = {} /\ Cardinality(Naming(m)') = 1 /\ Cardinality(SubDirs(m)') = 0
  <2>1. SubDirs(m)' = {} /\ Children(m)' = {} /\ Naming(m)' = {e}
    BY <1>2, <1>3, <1>4 DEF SubDirs
  <2> QED BY <1>1, <1>2, <2>1, FS_Singleton, FS_EmptySet
<1>8. /\ kind'[d] = "dir" /\ nlink'[d] = (IF k = "dir" THEN nlink[d] + 1 ELSE nlink[d])
      /\ Cardinality(Naming(d)') = Cardinality(Naming(d))
      /\ Cardinality(SubDirs(d)') = Cardinality(SubDirs(d)) + (IF k = "dir" THEN 1 ELSE 0)
  <2>1. e \notin SubDirs(d) /\ IsFiniteSet(SubDirs(d)) /\ Cardinality(SubDirs(d)) \in Nat
    BY <1>1, <1>3, <1>4, PartsAreFinite DEF SubDirs, Children
  <2>2. Cardinality(SubDirs(d) \cup {e}) = Cardinality(SubDirs(d)) + 1
    BY <2>1, AtMostOne
  <2>3. Naming(d)' = Naming(d) /\ kind'[d] = "dir"
    BY <1>1, <1>2, <1>3
  <2>4. nlink'[d] = (IF k = "dir" THEN nlink[d] + 1 ELSE nlink[d])
    BY <1>2
  <2>5. SubDirs(d)' = IF k = "dir" THEN SubDirs(d) \cup {e} ELSE SubDirs(d)
    BY <1>3, <1>4
  <2>6. Cardinality(SubDirs(d)') = Cardinality(SubDirs(d)) + (IF k = "dir" THEN 1 ELSE 0)
    BY <2>1, <2>2, <2>5
  <2> QED BY <2>3, <2>4, <2>6
<1>9. ASSUME NEW n \in Node
      PROVE  /\ kind'[n] = "none" => nlink'[n] = 0 /\ Naming(n)' = {} /\ Children(n)' = {}
             /\ kind'[n] \in Leaf => nlink'[n] = Cardinality(Naming(n)') /\ Children(n)' = {}
             /\ kind'[n] = "dir" =>
                   nlink'[n] = Cardinality(SubDirs(n)') + Cardinality(Naming(n)')
                               + (IF n = root THEN 2 ELSE 1)
  <2>1. CASE n # m /\ n # d
    BY <1>6, <2>1 DEF TreeInv, CountsReferences
  <2>2. CASE n = m
    BY <1>2, <1>7, <2>2 DEF Leaf
  <2>3. CASE n = d
    <3>1. /\ nlink[d] = Cardinality(SubDirs(d)) + Cardinality(Naming(d))
                          + (IF d = root THEN 2 ELSE 1)
          /\ Cardinality(SubDirs(d)) \in Nat /\ Cardinality(Naming(d)) \in Nat
      BY <1>1, PartsAreFinite DEF TreeInv, CountsReferences
    <3> QED BY <1>8, <2>3, <3>1 DEF Leaf
  <2> QED BY <2>1, <2>2, <2>3
<1>10. CountsReferences'
  BY <1>9 DEF CountsReferences
<1> QED BY <1>5, <1>10 DEF TreeInv, ShapeInv

-----------------------------------------------------------------------------
(* The calls. *)

\* A call that changes neither the tree nor the counts.
LEMMA QuietKeeps ==
    ASSUME TreeInv, UNCHANGED <<kind, entries, nlink>>,
           ret' \in {"nil", "badName", "exist", "notExist", "notEmpty"}
    PROVE  TreeInv'
<1>1. \A n : Naming(n)' = Naming(n) /\ Children(n)' = Children(n) /\ SubDirs(n)' = SubDirs(n)
  BY DEF Naming, Children, SubDirs
<1>2. TypeOK' /\ NamesUnique' /\ kind'[root] = "dir" /\ IsFiniteSet(entries')
  BY DEF TreeInv, TreeShape, TypeOK, NamesUnique
<1>3. DirectoriesFormTree' /\ CountsReferences'
  BY <1>1 DEF TreeInv, TreeShape, DirectoriesFormTree, CountsReferences
<1> QED BY <1>2, <1>3 DEF TreeInv, TreeShape

\* A refused name.
LEMMA RefuseKeeps ==
    ASSUME TreeInv, NEW d, NEW x, refuse(d, x)
    PROVE  TreeInv'
<1>1. ret' \in {"nil", "badName", "exist", "notExist", "notEmpty"}
  BY DEF refuse, nameError
<1> QED BY <1>1, QuietKeeps DEF refuse

\* Mkdir: two counts change.
LEMMA MkdirKeeps ==
    ASSUME TreeInv, NEW d \in Node, NEW x \in Name \cup BadName, Mkdir(d, x)
    PROVE  TreeInv'
<1>1. ASSUME NEW m \in Fresh, newChild(d, x, m, "dir"),
             nlink' = [nlink EXCEPT ![m] = 2, ![d] = @ + 1]
      PROVE  TreeInv'
  <2>1. kind[d] = "dir" /\ nlink \in [Node -> Nat]
    BY <1>1 DEF newChild, Editable, TreeInv, TreeShape, TypeOK
  <2>2. m \in Node /\ m # d
    BY <1>1, <2>1, FreshIsUnnamed
  <2>3. /\ nlink' \in [Node -> Nat] /\ nlink'[m] = 2
        /\ \A n \in Node \ {m} : nlink'[n] = IF n = d THEN nlink[n] + 1 ELSE nlink[n]
    BY <1>1, <2>1, <2>2
  <2> QED BY <1>1, <2>3, NewChildKeeps
<1> QED BY <1>1, RefuseKeeps DEF Mkdir

\* Create, Symlink and Mknod: a leaf.
LEMMA LeafKeeps ==
    ASSUME TreeInv, NEW d \in Node, NEW x \in Name \cup BadName, NEW k \in Leaf,
           NEW m \in Fresh, newChild(d, x, m, k), nlink' = [nlink EXCEPT ![m] = 1]
    PROVE  TreeInv'
<1>1. kind[d] = "dir" /\ nlink \in [Node -> Nat] /\ k # "dir"
  BY DEF newChild, Editable, TreeInv, TreeShape, TypeOK, Leaf
<1>2. m \in Node
  BY <1>1, FreshIsUnnamed
<1>3. /\ nlink' \in [Node -> Nat] /\ nlink'[m] = 1
      /\ \A n \in Node \ {m} : nlink'[n] = nlink[n]
  BY <1>1, <1>2
<1> QED BY <1>1, <1>3, NewChildKeeps

\* Link: one more name of a file, although its last one may be gone.
LEMMA LinkKeeps ==
    ASSUME TreeInv, NEW d \in Node, NEW x \in Name \cup BadName, NEW f \in Node, Link(d, x, f)
    PROVE  TreeInv'
<1>1. CASE refuse(d, x)
  BY <1>1, RefuseKeeps
<1>2. CASE /\ Editable(d) /\ nameError(d, x) = "nil" /\ ret' = "nil"
           /\ nlink' = [nlink EXCEPT ![f] = @ + 1]
           /\ entries' = entries \cup {Entry(d, x, f)} /\ UNCHANGED kind
  <2>1. /\ kind[f] = "file" /\ kind[d] = "dir" /\ kind[root] = "dir"
        /\ kind \in [Node -> {"none", "dir"} \cup Leaf] /\ nlink \in [Node -> Nat]
        /\ IsFiniteSet(entries)
    BY <1>2 DEF Link, Editable, TreeInv, TreeShape, TypeOK
  <2>2. PICK e : e = Entry(d, x, f)
    OBVIOUS
  <2>3. e.dir = d /\ e.name = x /\ e.node = f /\ e \notin entries
    BY <1>2, <2>2 DEF Entry, nameError, find, Children
  <2>4. ShapeInv'
    <3>1. nlink' \in [Node -> Nat]
      BY <1>2, <2>1
    <3> QED BY <1>2, <2>1, <3>1, AddKeepsShape
  <2>5. ASSUME NEW n \in Node, n # f
        PROVE  nlink'[n] = nlink[n] /\ Naming(n)' = Naming(n) /\ SubDirs(n)' = SubDirs(n)
    BY <1>2, <2>1, <2>2, <2>3, <2>5 DEF Naming, SubDirs, Children
  <2>6. \A n \in Node : kind[n] # "dir" => Children(n)' = Children(n)
    BY <1>2, <2>1, <2>2, <2>3 DEF Children
  <2>7. nlink'[f] = Cardinality(Naming(f)')
    <3>1. Naming(f)' = Naming(f) \cup {e} /\ e \notin Naming(f)
      BY <1>2, <2>2, <2>3 DEF Naming
    <3>2. Cardinality(Naming(f) \cup {e}) = Cardinality(Naming(f)) + 1
      BY <2>1, <3>1, PartsAreFinite, AtMostOne
    <3>3. nlink[f] = Cardinality(Naming(f))
      BY <2>1 DEF TreeInv, CountsReferences, Leaf
    <3> QED BY <1>2, <2>1, <3>1, <3>2, <3>3
  <2>8. ASSUME NEW n \in Node
        PROVE  /\ kind'[n] = "none" => nlink'[n] = 0 /\ Naming(n)' = {} /\ Children(n)' = {}
               /\ kind'[n] \in Leaf => nlink'[n] = Cardinality(Naming(n)') /\ Children(n)' = {}
               /\ kind'[n] = "dir" =>
                     nlink'[n] = Cardinality(SubDirs(n)') + Cardinality(Naming(n)')
                                 + (IF n = root THEN 2 ELSE 1)
    <3>1. CASE n # f
      BY <1>2, <2>5, <2>6, <3>1 DEF TreeInv, CountsReferences, Leaf
    <3>2. CASE n = f
      BY <1>2, <2>1, <2>6, <2>7, <3>2 DEF TreeInv, CountsReferences, Leaf
    <3> QED BY <3>1, <3>2
  <2>9. CountsReferences'
    BY <2>8 DEF CountsReferences
  <2> QED BY <2>4, <2>9 DEF TreeInv, ShapeInv
<1> QED BY <1>1, <1>2 DEF Link

\* Remove: an entry goes, and with a directory one of its parent's counts.  The
\* node keeps its other names and, through a handle, its own children.
LEMMA DetachKeeps ==
    ASSUME TreeInv, NEW d \in Node, kind[d] = "dir", NEW e \in entries, e.dir = d,
           kind[e.node] = "dir" => Children(e.node) = {},
           ret' = "nil", entries' = entries \ {e}, UNCHANGED kind,
           nlink' = [m \in Node |-> nlink[m] - (IF m = e.node THEN 1 ELSE 0)
                                    - (IF m = d /\ kind[e.node] = "dir" THEN 1 ELSE 0)]
    PROVE  TreeInv'
<1>1. /\ kind[root] = "dir" /\ IsFiniteSet(entries) /\ nlink \in [Node -> Nat]
      /\ kind \in [Node -> {"none", "dir"} \cup Leaf]
      /\ entries \subseteq [dir : Node, name : Name, node : Node]
  BY DEF TreeInv, TreeShape, TypeOK
<1>2. PICK m : m = e.node
  OBVIOUS
<1>3. m \in Node /\ m # d
  BY <1>1, <1>2 DEF Children
<1>4. e \in Naming(m) /\ kind[m] # "none" /\ m # root
  BY <1>1, <1>2, <1>3 DEF Naming, TreeInv, TreeShape, DirectoriesFormTree, CountsReferences
<1>5. \A n : Naming(n)' = IF n = m THEN Naming(n) \ {e} ELSE Naming(n)
  BY <1>2 DEF Naming
<1>6. \A n : SubDirs(n)' = IF n = d /\ kind[m] = "dir" THEN SubDirs(n) \ {e} ELSE SubDirs(n)
  BY <1>2 DEF SubDirs, Children
<1>7. \A n : Children(n)' \subseteq Children(n)
  BY DEF Children
<1>8. /\ Cardinality(Naming(m)') = Cardinality(Naming(m)) - 1
      /\ Cardinality(Naming(m)) \in Nat /\ Cardinality(Naming(m)') \in Nat
      /\ IsFiniteSet(Naming(m)')
  <2>1. IsFiniteSet(Naming(m)) /\ IsFiniteSet(Naming(m) \ {e})
    BY <1>1, PartsAreFinite, FS_RemoveElement
  <2> QED BY <1>4, <1>5, <2>1, AtMostOne, FS_CardinalityType
<1>9. kind[m] = "dir" =>
          /\ Cardinality(SubDirs(d)') = Cardinality(SubDirs(d)) - 1
          /\ Cardinality(SubDirs(d)) \in Nat /\ Cardinality(SubDirs(d)') \in Nat
  <2>1. kind[m] = "dir" => e \in SubDirs(d)
    BY <1>2 DEF SubDirs, Children
  <2>2. IsFiniteSet(SubDirs(d)) /\ IsFiniteSet(SubDirs(d) \ {e})
    BY <1>1, PartsAreFinite, FS_RemoveElement
  <2> QED BY <1>6, <2>1, <2>2, AtMostOne, FS_CardinalityType
<1>10. ASSUME NEW n \in Node
       PROVE  /\ nlink'[n] \in Nat
              /\ kind[n] = "none" => nlink'[n] = 0 /\ Naming(n)' = {} /\ Children(n)' = {}
              /\ kind[n] \in Leaf => nlink'[n] = Cardinality(Naming(n)') /\ Children(n)' = {}
              /\ kind[n] = "dir" =>
                    nlink'[n] = Cardinality(SubDirs(n)') + Cardinality(Naming(n)')
                                + (IF n = root THEN 2 ELSE 1)
  <2>1. CASE n # m /\ n # d
    <3>1. nlink'[n] = nlink[n] /\ Naming(n)' = Naming(n) /\ SubDirs(n)' = SubDirs(n)
      BY <1>1, <1>2, <1>5, <1>6, <2>1
    <3> QED BY <1>1, <1>7, <3>1 DEF TreeInv, CountsReferences
  <2>2. CASE n = m
    <3>1. nlink'[n] = nlink[n] - 1 /\ SubDirs(n)' = SubDirs(n)
      BY <1>1, <1>2, <1>3, <1>6, <2>2
    <3>2. Cardinality(SubDirs(n)) \in Nat
      BY <1>1, PartsAreFinite
    <3>3. CASE kind[m] \in Leaf
      BY <1>7, <1>8, <2>2, <3>1, <3>3 DEF TreeInv, CountsReferences, Leaf
    <3>4. CASE kind[m] = "dir"
      BY <1>4, <1>8, <2>2, <3>1, <3>2, <3>4 DEF TreeInv, CountsReferences, Leaf
    <3> QED BY <1>1, <1>3, <1>4, <3>3, <3>4
  <2>3. CASE n = d
    <3>1. /\ Naming(n)' = Naming(n) /\ Cardinality(Naming(n)) \in Nat
          /\ Cardinality(SubDirs(n)) \in Nat
          /\ nlink[n] = Cardinality(SubDirs(n)) + Cardinality(Naming(n))
                         + (IF n = root THEN 2 ELSE 1)
      BY <1>1, <1>3, <1>5, <2>3, PartsAreFinite DEF TreeInv, CountsReferences
    <3>2. CASE kind[m] = "dir"
      <4>1. nlink'[n] = nlink[n] - 1
        BY <1>1, <1>2, <1>3, <2>3, <3>2
      <4> QED BY <1>9, <2>3, <3>1, <3>2, <4>1 DEF Leaf
    <3>3. CASE kind[m] # "dir"
      <4>1. nlink'[n] = nlink[n] /\ SubDirs(n)' = SubDirs(n)
        BY <1>1, <1>2, <1>3, <1>6, <2>3, <3>3
      <4> QED BY <2>3, <3>1, <4>1 DEF Leaf
    <3> QED BY <3>2, <3>3
  <2> QED BY <2>1, <2>2, <2>3
<1>11. TypeOK'
  BY <1>1, <1>10 DEF TypeOK
<1>12. NamesUnique' /\ IsFiniteSet(entries') /\ kind'[root] = "dir"
  BY <1>1, FS_RemoveElement DEF TreeInv, TreeShape, NamesUnique
<1>13. DirectoriesFormTree'
  <2>1. Naming(root)' = {}
    BY <1>4, <1>5 DEF TreeInv, TreeShape, DirectoriesFormTree
  <2>2. \A n \in Node : kind[n] = "dir" => Cardinality(Naming(n)') <= 1
    BY <1>5, <1>8 DEF TreeInv, TreeShape, DirectoriesFormTree
  <2> QED BY <2>1, <2>2 DEF DirectoriesFormTree
<1>14. CountsReferences'
  BY <1>10 DEF CountsReferences
<1> QED BY <1>11, <1>12, <1>13, <1>14 DEF TreeInv, TreeShape

\* Remove refuses, or detaches the entry.
LEMMA RemoveKeeps ==
    ASSUME TreeInv, NEW d \in Node, NEW x, Remove(d, x)
    PROVE  TreeInv'
<1>1. kind[d] = "dir" /\ UNCHANGED kind
  BY DEF Remove, Editable
<1>2. CASE ret' \in {"notExist", "notEmpty"} /\ UNCHANGED <<entries, nlink>>
  BY <1>1, <1>2, QuietKeeps
<1>3. ASSUME NEW e \in find(d, x), kind[e.node] = "dir" => Children(e.node) = {},
             ret' = "nil", entries' = entries \ {e},
             nlink' = [m \in Node |-> nlink[m] - (IF m = e.node THEN 1 ELSE 0)
                                      - (IF m = d /\ kind[e.node] = "dir" THEN 1 ELSE 0)]
      PROVE  TreeInv'
  <2>1. e \in entries /\ e.dir = d
    BY DEF find, Children
  <2> QED BY <1>1, <1>3, <2>1, DetachKeeps
<1> QED BY <1>2, <1>3 DEF Remove

-----------------------------------------------------------------------------
(* The theorems. *)

\* The empty tree.
LEMMA TreeInvInit ==
    ASSUME NewMem
    PROVE  TreeInv
<1>1. /\ root \in Node /\ kind[root] = "dir" /\ entries = {} /\ IsFiniteSet(entries)
      /\ \A m : Naming(m) = {} /\ Children(m) = {} /\ SubDirs(m) = {}
  BY TreeAssumption, FS_EmptySet DEF NewMem, root, Node, Naming, Children, SubDirs
<1>2. Cardinality({}) = 0
  BY FS_EmptySet
<1>3. TypeOK /\ NamesUnique
  BY <1>1 DEF NewMem, TypeOK, NamesUnique
<1>4. DirectoriesFormTree /\ CountsReferences
  BY <1>1, <1>2 DEF NewMem, DirectoriesFormTree, CountsReferences, Leaf
<1> QED BY <1>1, <1>3, <1>4 DEF TreeInv, TreeShape

\* Every call keeps the invariant, whether it succeeds or not.
LEMMA TreeInvInductive ==
    ASSUME TreeInv, [Edit]_vars
    PROVE  TreeInv'
<1>1. CASE UNCHANGED vars
  <2>1. UNCHANGED <<kind, entries, nlink>> /\ ret' = ret
    BY <1>1 DEF vars
  <2> QED BY <2>1, QuietKeeps DEF TreeInv, TreeShape, TypeOK
<1>2. ASSUME NEW d \in Node, NEW x \in Name \cup BadName,
             \/ Mkdir(d, x) \/ Create(d, x) \/ Symlink(d, x) \/ Mknod(d, x)
             \/ \E f \in Node : Link(d, x, f)
             \/ Remove(d, x)
      PROVE  TreeInv'
  <2>1. CASE Mkdir(d, x)
    BY <2>1, MkdirKeeps
  <2>2. CASE Create(d, x)
    BY <2>2, LeafKeeps, RefuseKeeps DEF Create, Leaf
  <2>3. CASE Symlink(d, x)
    BY <2>3, LeafKeeps, RefuseKeeps DEF Symlink, Leaf
  <2>4. CASE Mknod(d, x)
    BY <2>4, LeafKeeps, RefuseKeeps DEF Mknod, Leaf
  <2>5. CASE \E f \in Node : Link(d, x, f)
    BY <2>5, LinkKeeps
  <2>6. CASE Remove(d, x)
    BY <2>6, RemoveKeeps
  <2> QED BY <1>2, <2>1, <2>2, <2>3, <2>4, <2>5, <2>6
<1> QED BY <1>1, <1>2 DEF Edit

\* So it holds of every behaviour.
LEMMA TreeInvHolds == Spec => []TreeInv
  BY TreeInvInit, TreeInvInductive, PTL DEF Spec

-----------------------------------------------------------------------------
(* A tree edited through live handles only. *)

\* Then every entry is in a directory that the walk reaches; and only files have
\* several names, for Link takes nothing else.
AllReached == \A e \in entries : e.dir \in Reachable
SingleNamed == \A e, f \in entries : e.node = f.node /\ kind[e.node] # "file" => e = f
LiveInv == TreeInv /\ AllReached /\ SingleNamed

\* The least walk contains the root.
LEMMA RootIsReached == root \in Reachable
  BY TreeAssumption DEF Reachable, Walked, root, Node

\* More entries, more is reached.
LEMMA ReachedGrows ==
    ASSUME entries \subseteq entries'
    PROVE  Reachable \subseteq Reachable'
<1>1. \A S : Walked(S)' => Walked(S)
  BY DEF Walked
<1> QED BY <1>1 DEF Reachable

\* One more name of a node that had none, or of a file.
LEMMA AddKeepsLive ==
    ASSUME LiveInv, TreeInv', NEW d \in Reachable, NEW x, NEW m,
           entries' = entries \cup {Entry(d, x, m)},
           \A f \in entries : kind'[f.node] = kind[f.node],
           Naming(m) = {} \/ kind'[m] = "file"
    PROVE  LiveInv'
<1>1. AllReached'
  <2>1. Reachable \subseteq Reachable'
    BY ReachedGrows
  <2>2. \A f \in entries' : f \in entries \/ f.dir = d
    BY DEF Entry
  <2> QED BY <2>1, <2>2 DEF LiveInv, AllReached
<1>2. SingleNamed'
  <2>1. PICK e : e = Entry(d, x, m)
    OBVIOUS
  <2>2. e.node = m /\ \A f \in entries' : f \in entries \/ f = e
    BY <2>1 DEF Entry
  <2>3. Naming(m) = {} => \A f \in entries : f.node # m
    BY DEF Naming
  <2> QED BY <2>2, <2>3 DEF LiveInv, SingleNamed
<1> QED BY <1>1, <1>2 DEF LiveInv

\* The node of an entry that goes has no children, so nothing was reached through it.
LEMMA DetachKeepsLive ==
    ASSUME LiveInv, TreeInv', NEW e \in entries, Children(e.node) = {},
           entries' = entries \ {e}, UNCHANGED kind
    PROVE  LiveInv'
<1>1. entries \subseteq [dir : Node, name : Name, node : Node]
  BY DEF LiveInv, TreeInv, TreeShape, TypeOK
<1>2. \A f \in entries : f.dir # e.node
  BY DEF Children
<1>3. ASSUME NEW f \in entries', NEW S \in SUBSET Node, Walked(S)'
      PROVE  f.dir \in S
  <2>1. PICK T : T = S \cup {e.node}
    OBVIOUS
  <2>2. T \in SUBSET Node
    BY <1>1, <2>1
  <2>3. Walked(T)
    BY <1>2, <1>3, <2>1 DEF Walked
  <2>4. f \in entries /\ f.dir \in T
    BY <2>2, <2>3 DEF LiveInv, AllReached, Reachable
  <2> QED BY <1>2, <2>1, <2>4
<1>4. AllReached'
  <2>1. \A f \in entries' : f.dir \in Node
    BY <1>1
  <2> QED BY <1>3, <2>1 DEF AllReached, Reachable
<1>5. SingleNamed'
  BY DEF LiveInv, SingleNamed
<1> QED BY <1>4, <1>5 DEF LiveInv

\* Every edit keeps this.
LEMMA EditKeepsLive ==
    ASSUME ~StaleEdits, LiveInv, Edit
    PROVE  LiveInv'
<1>1. TreeInv' /\ TreeInv
  BY TreeInvInductive DEF LiveInv
<1>2. kind \in [Node -> {"none", "dir"} \cup Leaf] /\ entries \subseteq [dir : Node, name : Name, node : Node]
  BY <1>1 DEF TreeInv, TreeShape, TypeOK
<1>3. ASSUME UNCHANGED <<kind, entries>>
      PROVE  LiveInv'
  BY <1>1, <1>3 DEF LiveInv, AllReached, SingleNamed, Reachable, Walked
<1>4. PICK d \in Node, x \in Name \cup BadName :
        \/ Mkdir(d, x) \/ Create(d, x) \/ Symlink(d, x) \/ Mknod(d, x)
        \/ \E f \in Node : Link(d, x, f)
        \/ Remove(d, x)
  BY DEF Edit
<1>5. CASE refuse(d, x)
  BY <1>3, <1>5 DEF refuse
<1>6. ASSUME NEW m \in Fresh, NEW k \in {"dir"} \cup Leaf, newChild(d, x, m, k)
      PROVE  LiveInv'
  <2>1. /\ d \in Reachable /\ kind[d] = "dir" /\ entries' = entries \cup {Entry(d, x, m)}
        /\ kind' = [kind EXCEPT ![m] = k]
    BY <1>6 DEF newChild, Editable
  <2>2. Naming(m) = {}
    BY <1>1, <2>1, FreshIsUnnamed
  <2>3. \A f \in entries : kind'[f.node] = kind[f.node]
    BY <1>2, <2>1, <2>2 DEF Naming
  <2> QED BY <1>1, <2>1, <2>2, <2>3, AddKeepsLive
<1>7. CASE Mkdir(d, x)
  BY <1>5, <1>6, <1>7 DEF Mkdir
<1>8. CASE Create(d, x)
  BY <1>5, <1>6, <1>8 DEF Create, Leaf
<1>9. CASE Symlink(d, x)
  BY <1>5, <1>6, <1>9 DEF Symlink, Leaf
<1>10. CASE Mknod(d, x)
  BY <1>5, <1>6, <1>10 DEF Mknod, Leaf
<1>11. ASSUME NEW f \in Node, Link(d, x, f)
       PROVE  LiveInv'
  <2>1. CASE ~refuse(d, x)
    <3>1. /\ d \in Reachable /\ kind[f] = "file" /\ UNCHANGED kind
          /\ entries' = entries \cup {Entry(d, x, f)}
      BY <1>11, <2>1 DEF Link, Editable
    <3> QED BY <1>1, <3>1, AddKeepsLive
  <2> QED BY <1>5, <2>1
<1>12. CASE Remove(d, x)
  <2>1. CASE UNCHANGED entries
    BY <1>3, <1>12, <2>1 DEF Remove
  <2>2. ASSUME NEW e \in find(d, x), kind[e.node] = "dir" => Children(e.node) = {},
               entries' = entries \ {e}
        PROVE  LiveInv'
    <3>1. e \in entries /\ e.node \in Node /\ UNCHANGED kind
      BY <1>2, <1>12 DEF find, Children, Remove
    <3>2. Children(e.node) = {}
      BY <1>1, <1>2, <2>2, <3>1 DEF TreeInv, CountsReferences
    <3> QED BY <1>1, <2>2, <3>1, <3>2, DetachKeepsLive
  <2> QED BY <1>12, <2>1, <2>2 DEF Remove
<1> QED BY <1>4, <1>7, <1>8, <1>9, <1>10, <1>11, <1>12

\* What a walk finds is the root or has an entry.
LEMMA WalkedIsNamed ==
    ASSUME TypeOK, NEW m \in Reachable, m # root
    PROVE  Naming(m) # {}
<1> DEFINE S == {n \in Node : n = root \/ Naming(n) # {}}
<1>1. Walked(S)
  <2>1. root \in S
    BY TreeAssumption DEF root, Node
  <2>2. ASSUME NEW e \in entries
        PROVE  e.node \in S
    BY DEF TypeOK, Naming
  <2> QED BY <2>1, <2>2 DEF Walked
<1>2. S \in SUBSET Node
  OBVIOUS
<1> HIDE DEF S
<1>3. m \in S
  BY <1>1, <1>2 DEF Reachable
<1> QED BY <1>3 DEF S

\* The counts of the nodes a walk finds, by what the walk finds and what it does not.
LEMMA WalkedCounts ==
    ASSUME TreeInv, NEW m \in Reachable
    PROVE  /\ Cardinality({e \in Left : e.node = m /\ kind[m] # "dir"}) \in Nat
           /\ fsckCount(m) \in Nat
           /\ nlink[m] = fsckCount(m) + Cardinality({e \in Left : e.node = m /\ kind[m] # "dir"})
<1> DEFINE here == {e \in OnDisk : e.node = m}
           gone == {e \in Left : e.node = m /\ kind[m] # "dir"}
<1>1. m \in Node /\ kind[m] \in {"none", "dir"} \cup Leaf /\ IsFiniteSet(entries)
  BY DEF Reachable, TreeInv, TreeShape, TypeOK
<1>2. /\ {e \in OnDisk : e.dir = m /\ kind[e.node] = "dir"} = SubDirs(m)
      /\ here \subseteq Naming(m) /\ here \subseteq entries /\ gone \subseteq entries
  BY DEF SubDirs, Children, Naming, OnDisk, Left
<1>3. /\ Cardinality(SubDirs(m)) \in Nat /\ Cardinality(Naming(m)) \in Nat
      /\ IsFiniteSet(Naming(m))
  BY <1>1, PartsAreFinite
<1>4. IsFiniteSet(here) /\ IsFiniteSet(gone) /\ Cardinality(here) \in Nat /\ Cardinality(gone) \in Nat
  BY <1>1, <1>2, FS_Subset, FS_CardinalityType
<1>5. m # root => Naming(m) # {} /\ Cardinality(Naming(m)) # 0
  <2>1. m # root => Naming(m) # {}
    BY WalkedIsNamed DEF TreeInv, TreeShape
  <2> QED BY <1>3, <2>1, AtMostOne
<1>6. kind[m] # "none"
  BY <1>1, <1>5 DEF TreeInv, CountsReferences
<1>7. CASE kind[m] = "dir"
  <2>1. Cardinality(Naming(m)) = IF m = root THEN 0 ELSE 1
    <3>1. CASE m = root
      BY <3>1, FS_EmptySet DEF TreeInv, TreeShape, DirectoriesFormTree
    <3>2. CASE m # root
      BY <1>1, <1>3, <1>5, <1>7, <3>2 DEF TreeInv, TreeShape, DirectoriesFormTree
    <3> QED BY <3>1, <3>2
  <2>2. nlink[m] = 2 + Cardinality(SubDirs(m))
    BY <1>1, <1>3, <1>7, <2>1 DEF TreeInv, CountsReferences
  <2>3. fsckCount(m) = 2 + Cardinality(SubDirs(m))
    BY <1>2, <1>7 DEF fsckCount
  <2>4. gone = {}
    BY <1>7
  <2>5. Cardinality(gone) = 0
    BY <2>4, FS_EmptySet
  <2> HIDE DEF gone
  <2>6. nlink[m] = fsckCount(m) + Cardinality(gone) /\ fsckCount(m) \in Nat
    BY <1>3, <2>2, <2>3, <2>5
  <2> QED BY <1>4, <2>6 DEF gone
<1>8. CASE kind[m] \in Leaf
  <2>1. Naming(m) = here \cup gone /\ here \cap gone = {}
    BY <1>8 DEF Naming, OnDisk, Left, Leaf
  <2>2. nlink[m] = Cardinality(Naming(m))
    BY <1>1, <1>8 DEF TreeInv, CountsReferences
  <2>3. fsckCount(m) = Cardinality(here)
    BY <1>8 DEF fsckCount, Leaf
  <2>4. Cardinality(here \cup gone) = Cardinality(here) + Cardinality(gone)
    <3> HIDE DEF here, gone
    <3>1. Cardinality(here \cup gone) = Cardinality(here) + Cardinality(gone) - Cardinality(here \cap gone)
      BY <1>4, FS_Union
    <3>2. Cardinality(here \cap gone) = 0
      <4>1. here \cap gone = {}
        BY <2>1
      <4> QED BY <4>1, FS_EmptySet
    <3> QED BY <1>4, <3>1, <3>2
  <2> HIDE DEF here, gone
  <2>5. nlink[m] = fsckCount(m) + Cardinality(gone) /\ fsckCount(m) \in Nat
    BY <1>4, <2>1, <2>2, <2>3, <2>4
  <2> QED BY <1>4, <2>5 DEF gone
<1> QED BY <1>1, <1>6, <1>7, <1>8

\* Where every entry is reached nothing is left, and the counts are those of fsck.
LEMMA DiskCounts ==
    ASSUME LiveInv
    PROVE  DiskLinkCount
<1> SUFFICES ASSUME NEW m \in Reachable
             PROVE  nlink[m] = fsckCount(m)
  BY DEF DiskLinkCount
<1>1. {e \in Left : e.node = m /\ kind[m] # "dir"} = {}
  BY DEF LiveInv, AllReached, Left, OnDisk
<1>2. Cardinality({e \in Left : e.node = m /\ kind[m] # "dir"}) = 0
  BY <1>1, FS_EmptySet
<1> QED BY <1>2, WalkedCounts DEF LiveInv

\* Names are valid and unique in their directory and directories form a tree,
\* after any calls through any handles: every walk ends and visits no entry twice.
THEOREM ShapeIsKept == Spec => []TreeShape
<1>1. TreeInv => TreeShape
  BY DEF TreeInv
<1> QED BY <1>1, TreeInvHolds, PTL

\* Handles of removed directories included, every Nlink is the number of references
\* to its node, and the counts an engine writes are those of fsck, but for the names
\* a node has in removed directories.
THEOREM LinksAreCounted == Spec => []LinkLedger
<1>1. TreeInv => CountsReferences
  BY DEF TreeInv
<1>2. TreeInv => StaleLinkCount
  BY WalkedCounts DEF StaleLinkCount
<1>3. TreeInv => LinkLedger
  BY <1>1, <1>2 DEF LinkLedger
<1> QED BY <1>3, TreeInvHolds, PTL

\* If callers edit only directories that are still in the tree, the counts an engine
\* writes are the ones fsck derives from the finished image.
THEOREM LiveTreesAreCountedAsFsck ==
    ASSUME ~StaleEdits
    PROVE  Spec => []DiskLinkCount
<1>1. NewMem => LiveInv
  BY TreeInvInit DEF NewMem, LiveInv, AllReached, SingleNamed
<1>2. LiveInv /\ [Edit]_vars => LiveInv'
  <2>1. ASSUME LiveInv, UNCHANGED vars
        PROVE  LiveInv'
    <3>1. TreeInv'
      BY <2>1, TreeInvInductive DEF LiveInv
    <3> QED BY <2>1, <3>1 DEF LiveInv, AllReached, SingleNamed, Reachable, Walked, vars
  <2> QED BY <2>1, EditKeepsLive
<1>3. LiveInv => DiskLinkCount
  BY DiskCounts
<1> QED BY <1>1, <1>2, <1>3, PTL DEF Spec
=============================================================================
