------------------------------ MODULE ImageTree ------------------------------
(***************************************************************************)
(* pkg/image: the editable in-memory tree (mem.go) that every engine lays  *)
(* out.  A node carries its kind and its link count; the Children slices   *)
(* of all directories together are a set of entries <<dir, name, node>>.   *)
(* A Dir or File handle points at a node, so a caller may still edit       *)
(* through the handle of a directory that has been removed.                *)
(***************************************************************************)
EXTENDS Integers, FiniteSets

CONSTANTS MaxNodes,   \* bound on the nodes a behaviour may create
          Name,       \* entry names ValidName accepts
          BadName,    \* names it refuses
          StaleEdits  \* whether callers edit through handles of removed directories

ASSUME TreeAssumption ==
    /\ MaxNodes \in Nat \ {0}
    /\ Name \cap BadName = {}
    /\ StaleEdits \in BOOLEAN

VARIABLES kind,     \* Node.Mode's type bits, "none" for a node not yet created
          entries,  \* the Children of every directory
          nlink,    \* Node.Nlink
          ret       \* error of the last call

vars == <<kind, entries, nlink, ret>>

Node == 0 .. MaxNodes - 1
root == 0
Leaf == {"file", "symlink", "special"}

Entry(d, x, m) == [dir |-> d, name |-> x, node |-> m]
Naming(m) == {e \in entries : e.node = m}
Children(d) == {e \in entries : e.dir = d}
SubDirs(d) == {e \in Children(d) : kind[e.node] = "dir"}

\* What the engines' walks from the root visit: the least set with the root and
\* the children of its directories.
Walked(S) == root \in S /\ \A e \in entries : e.dir \in S => e.node \in S
Reachable == {m \in Node : \A S \in SUBSET Node : Walked(S) => m \in S}

\* The node that is allocated next.
Fresh == {m \in Node : kind[m] = "none" /\ \A k \in Node : k < m => kind[k] # "none"}

\* A directory the caller has a handle of and edits through.
Editable(d) == kind[d] = "dir" /\ (StaleEdits \/ d \in Reachable)

NewMem ==
    /\ kind = [m \in Node |-> IF m = root THEN "dir" ELSE "none"]
    /\ entries = {}
    /\ nlink = [m \in Node |-> IF m = root THEN 2 ELSE 0]
    /\ ret = "nil"

-----------------------------------------------------------------------------
find(d, x) == {e \in Children(d) : e.name = x}

\* Mutant: names are not validated.
nameError_dotsAllowed(d, x) == IF find(d, x) # {} THEN "exist" ELSE "nil"

\* Why newChild (or Link) refuses the name x, "nil" if it does not.
nameError(d, x) ==
    CASE x \in BadName     -> "badName"
      [] find(d, x) # {}   -> "exist"
      [] OTHER             -> "nil"

\* Mutant: the name is not looked up first.
newChild_unchecked(d, x, m, k) ==
    /\ Editable(d)
    /\ x \notin BadName
    /\ ret' = "nil"
    /\ kind' = [kind EXCEPT ![m] = k]
    /\ entries' = entries \cup {Entry(d, x, m)}

\* newChild and add: the fresh node m of kind k becomes the entry x of d.
newChild(d, x, m, k) ==
    /\ Editable(d)
    /\ nameError(d, x) = "nil"
    /\ ret' = "nil"
    /\ kind' = [kind EXCEPT ![m] = k]
    /\ entries' = entries \cup {Entry(d, x, m)}

refuse(d, x) ==
    /\ Editable(d)
    /\ nameError(d, x) # "nil"
    /\ ret' = nameError(d, x)
    /\ UNCHANGED <<kind, entries, nlink>>

\* Mutant: the parent's count is forgotten.
Mkdir_parentForgotten(d, x) ==
    \E m \in Fresh : newChild(d, x, m, "dir") /\ nlink' = [nlink EXCEPT ![m] = 2]

Mkdir(d, x) ==
    \/ \E m \in Fresh : /\ newChild(d, x, m, "dir")
                       /\ nlink' = [nlink EXCEPT ![m] = 2, ![d] = @ + 1]
    \/ refuse(d, x)

Create(d, x) ==
    \/ \E m \in Fresh : newChild(d, x, m, "file") /\ nlink' = [nlink EXCEPT ![m] = 1]
    \/ refuse(d, x)

Symlink(d, x) ==
    \/ \E m \in Fresh : newChild(d, x, m, "symlink") /\ nlink' = [nlink EXCEPT ![m] = 1]
    \/ refuse(d, x)

Mknod(d, x) ==
    \/ \E m \in Fresh : newChild(d, x, m, "special") /\ nlink' = [nlink EXCEPT ![m] = 1]
    \/ refuse(d, x)

\* Mutant: a directory can be linked to.
Link_anyTarget(d, x, f) ==
    /\ kind[f] \in {"file", "dir"}
    /\ Editable(d) /\ nameError(d, x) = "nil"
    /\ ret' = "nil"
    /\ nlink' = [nlink EXCEPT ![f] = @ + 1]
    /\ entries' = entries \cup {Entry(d, x, f)}
    /\ UNCHANGED kind

\* Only Create returns a File handle, so the target f is a regular file, one
\* whose last name may be gone.
Link(d, x, f) ==
    /\ kind[f] = "file"
    /\ \/ /\ Editable(d)
          /\ nameError(d, x) = "nil"
          /\ ret' = "nil"
          /\ nlink' = [nlink EXCEPT ![f] = @ + 1]
          /\ entries' = entries \cup {Entry(d, x, f)}
          /\ UNCHANGED kind
       \/ refuse(d, x)

\* Mutant: the parent of a removed directory keeps its count.
Remove_countKept(d, x) ==
    /\ Editable(d)
    /\ \E e \in find(d, x) :
          /\ kind[e.node] = "dir" => Children(e.node) = {}
          /\ ret' = "nil"
          /\ nlink' = [nlink EXCEPT ![e.node] = @ - 1]
          /\ entries' = entries \ {e}
    /\ UNCHANGED kind

Remove(d, x) ==
    /\ Editable(d)
    /\ \/ /\ find(d, x) = {}
          /\ ret' = "notExist"
          /\ UNCHANGED <<entries, nlink>>
       \/ \E e \in find(d, x) :
             \/ /\ kind[e.node] = "dir"
                /\ Children(e.node) # {}
                /\ ret' = "notEmpty"
                /\ UNCHANGED <<entries, nlink>>
             \/ /\ kind[e.node] = "dir" => Children(e.node) = {}
                /\ ret' = "nil"
                /\ nlink' = [m \in Node |-> nlink[m] - (IF m = e.node THEN 1 ELSE 0)
                                            - (IF m = d /\ kind[e.node] = "dir" THEN 1 ELSE 0)]
                /\ entries' = entries \ {e}
    /\ UNCHANGED kind

-----------------------------------------------------------------------------
Edit ==
    \E d \in Node, x \in Name \cup BadName :
        \/ Mkdir(d, x) \/ Create(d, x) \/ Symlink(d, x) \/ Mknod(d, x)
        \/ \E f \in Node : Link(d, x, f)
        \/ Remove(d, x)

Spec == NewMem /\ [][Edit]_vars

-----------------------------------------------------------------------------
(* Properties. *)

\* Nodes, entries and counts have their types, and entries hold valid names.
TypeOK ==
    /\ kind \in [Node -> {"none", "dir"} \cup Leaf]
    /\ entries \subseteq [dir : Node, name : Name, node : Node]
    /\ nlink \in [Node -> Nat]
    /\ ret \in {"nil", "badName", "exist", "notExist", "notEmpty"}

\* A directory never holds two entries of one name, although names are only
\* compared by a scan of the slice.
NamesUnique ==
    \A e, f \in entries : e.dir = f.dir /\ e.name = f.name => e = f

\* Nlink counts references: a leaf has one per entry naming it; a directory
\* its ".", the entry naming it (the root counts itself) and its children's
\* "..".  This holds even for nodes only a stale handle reaches.
CountsReferences ==
    \A m \in Node :
        /\ kind[m] = "none" => nlink[m] = 0 /\ Naming(m) = {} /\ Children(m) = {}
        /\ kind[m] \in Leaf => nlink[m] = Cardinality(Naming(m)) /\ Children(m) = {}
        /\ kind[m] = "dir" =>
              nlink[m] = Cardinality(SubDirs(m)) + Cardinality(Naming(m))
                         + (IF m = root THEN 2 ELSE 1)

\* The entries that a finished image has, and those left in removed directories.
OnDisk == {e \in entries : e.dir \in Reachable}
Left == entries \ OnDisk

\* What fsck counts for a node of the finished image.
fsckCount(m) ==
    IF kind[m] = "dir"
    THEN 2 + Cardinality({e \in OnDisk : e.dir = m /\ kind[e.node] = "dir"})
    ELSE Cardinality({e \in OnDisk : e.node = m})

\* The count an engine writes for a node is the one fsck computes from the finished
\* image ("image.Dir does that accounting", doc/architecture.md).  It is so when
\* callers edit only directories that are still in the tree.
DiskLinkCount == \A m \in Reachable : nlink[m] = fsckCount(m)

\* Whatever handles callers use, the counts of directories are those of fsck, and of
\* anything else too high by its names in removed directories and by no more: a handle
\* that outlives its directory spoils no other count.
StaleLinkCount ==
    \A m \in Reachable : nlink[m] = fsckCount(m) + Cardinality({e \in Left : e.node = m /\ kind[m] # "dir"})

\* The books of mem.go: every Nlink counts the references there are, and what an
\* engine takes for the finished image differs from it by stale names only.
LinkLedger == CountsReferences /\ StaleLinkCount

\* The directories form a tree: each is named at most once, the root never,
\* so every walk from the root ends.
DirectoriesFormTree ==
    /\ Naming(root) = {}
    /\ \A m \in Node : kind[m] = "dir" => Cardinality(Naming(m)) <= 1

\* What the engines and Graft take for granted when they walk: valid names, no
\* two alike in a directory, and directories that form a tree.
TreeShape == TypeOK /\ NamesUnique /\ DirectoriesFormTree
=============================================================================
