-------------------------------- MODULE Graft --------------------------------
(***************************************************************************)
(* populate.go's Graft: an image tree, built with the editing interface,   *)
(* is recreated through the same interface under the root of a second one  *)
(* (conversion between formats, OCI flattening into an image).  The source *)
(* is an ImageTree, the destination another; one step handles one entry,   *)
(* depth first in the order of names, as graftOne's recursion does.        *)
(***************************************************************************)
EXTENDS ImageTree, Sequences

CONSTANTS NameOrder,  \* the names of the source, in the order sort gives them
          MaxOwn      \* bound on the files the destination holds of its own

ASSUME OwnAssumption == MaxOwn \in Nat

VARIABLES phase,      \* "edit" the source, "graft", "done" or "failed"
          stack,      \* the destination directories of the loops in progress
          rest,       \* the source entries that the loop of each has still to handle
          seen,       \* the seen map: source node -> destination file, root if absent
          dkind, dentries, dnlink, dret,  \* the destination tree
          copyOf      \* history: destination node -> source node, or NotCopied

dst == INSTANCE ImageTree
         WITH kind <- dkind, entries <- dentries, nlink <- dnlink, ret <- dret,
              StaleEdits <- FALSE,
              MaxNodes <- MaxNodes + MaxOwn

NotCopied == -1

dvars == <<dkind, dentries, dnlink, dret>>
graftVars == <<vars, phase, stack, rest, seen, dvars, copyOf>>

\* The innermost loop, and the entry it handles next: the first in the order of names.
here == stack[Len(stack)]
sortedEntries(S) == {e \in S : \A f \in S : NameOrder[e.name] <= NameOrder[f.name]}

GraftInit ==
    /\ NewMem
    /\ dst!NewMem
    /\ phase = "edit"
    /\ stack = <<>>
    /\ rest = [m \in dst!Node |-> {}]
    /\ seen = [m \in Node |-> root]
    /\ copyOf = [m \in dst!Node |-> IF m = root THEN root ELSE NotCopied]

EditSource ==
    /\ phase = "edit"
    /\ Edit
    /\ UNCHANGED <<phase, stack, rest, seen, dvars, copyOf>>

\* The destination may already hold files under its root.
EditDestination ==
    /\ phase = "edit"
    /\ Cardinality(dentries) < MaxOwn
    /\ \E x \in Name : dst!Create(root, x)
    /\ UNCHANGED <<vars, phase, stack, rest, seen, copyOf>>

StartGraft ==
    /\ phase = "edit"
    /\ phase' = "graft"
    /\ stack' = <<root>>
    /\ rest' = [rest EXCEPT ![root] = Children(root)]
    /\ UNCHANGED <<vars, seen, dvars, copyOf>>

\* The destination node that the last creation made.
Created == CHOOSE m \in dst!Node : dkind[m] = "none" /\ dkind'[m] # "none"

\* Mutant: a file is remembered only from its third link on.
remember_late(m) == nlink[m] > 2

\* Whether the file just created for m goes into the seen map.
remember(m) == nlink[m] > 1

\* graftOne for anything that is not a directory: node m becomes the entry x of d.
graftLeaf(d, x, m) ==
    \/ /\ kind[m] = "symlink"
       /\ dst!Symlink(d, x)
       /\ UNCHANGED seen
    \/ /\ kind[m] = "special"
       /\ dst!Mknod(d, x)
       /\ UNCHANGED seen
    \/ /\ kind[m] = "file" /\ seen[m] # root
       /\ dst!Link(d, x, seen[m])
       /\ UNCHANGED seen
    \/ /\ kind[m] = "file" /\ seen[m] = root
       /\ dst!Create(d, x)
       /\ seen' = IF dret' = "nil" /\ remember(m) THEN [seen EXCEPT ![m] = Created] ELSE seen

\* Mutant: the children of a directory are grafted beside it.
sub_beside == here

\* The directory that graftOne's loop over the children of a directory works in.
sub == Created

graftOne ==
    /\ phase = "graft"
    /\ \E e \in sortedEntries(rest[here]) :
          /\ \/ kind[e.node] = "dir" /\ dst!Mkdir(here, e.name) /\ UNCHANGED seen
             \/ graftLeaf(here, e.name, e.node)
          /\ copyOf' = [m \in dst!Node |-> IF dkind[m] # dkind'[m] THEN e.node ELSE copyOf[m]]
          /\ \/ dret' # "nil" /\ phase' = "failed" /\ UNCHANGED <<stack, rest>>
             \/ /\ dret' = "nil" /\ kind[e.node] = "dir"
                /\ stack' = Append(stack, sub)
                /\ rest' = [rest EXCEPT ![here] = @ \ {e}, ![sub] = @ \cup Children(e.node)]
                /\ UNCHANGED phase
             \/ /\ dret' = "nil" /\ kind[e.node] # "dir"
                /\ rest' = [rest EXCEPT ![here] = @ \ {e}]
                /\ UNCHANGED <<phase, stack>>
    /\ UNCHANGED vars

\* A loop is through: graftOne returns to the one around it, or Graft to its caller.
GraftReturns ==
    /\ phase = "graft"
    /\ rest[here] = {}
    /\ stack' = SubSeq(stack, 1, Len(stack) - 1)
    /\ phase' = IF Len(stack) = 1 THEN "done" ELSE "graft"
    /\ UNCHANGED <<vars, rest, seen, dvars, copyOf>>

Walk == graftOne \/ GraftReturns
GraftNext == EditSource \/ EditDestination \/ StartGraft \/ Walk

\* Once it has been called, Graft keeps walking.
GraftSpec == GraftInit /\ [][GraftNext]_graftVars /\ WF_graftVars(Walk)

-----------------------------------------------------------------------------
(* Properties. *)

\* A finished Graft has made a copy: the same names under the same directories,
\* two names of one file still one file, nothing shared that was not, and the
\* same link counts, whatever edits, links and removals built the source.
GraftIsCopy ==
    phase = "done" =>
        LET made == {m \in dst!Node : copyOf[m] # NotCopied}
        IN  /\ \A m, k \in made : copyOf[m] = copyOf[k] => m = k
            /\ {Entry(copyOf[e.dir], e.name, copyOf[e.node]) : e \in {f \in dentries : f.node \in made}}
                  = {e \in entries : e.dir \in Reachable}
            /\ \A m \in made : dkind[m] = kind[copyOf[m]] /\ dnlink[m] = nlink[copyOf[m]]

\* Graft fails only because the destination's root already held one of the
\* names: the source's own names never collide with one another.
GraftFailsOnCollision ==
    phase = "failed" =>
        \E e \in dentries : copyOf[e.node] = NotCopied /\ find(root, e.name) # {}

\* Graft makes a copy or stops at a name that was taken, and for no other reason.
GraftOutcome == GraftIsCopy /\ GraftFailsOnCollision

\* Graft ends: the directories of the source form a tree.
GraftEnds == phase = "graft" ~> phase \in {"done", "failed"}
=============================================================================
