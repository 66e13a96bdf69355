---------------------------- MODULE MCExtLayout ----------------------------
(***************************************************************************)
(* Instances of ExtLayout for TLC.  The trees: a first node a of any kind, *)
(* size and attributes, alone, with a second name, beside a file b, or     *)
(* inside a directory with a second name outside it.                       *)
(***************************************************************************)
EXTENDS ExtLayout

A == 11
B == 12
D == 13
R == 2

Data(m, n) == [i \in 1 .. n |-> [t |-> "data", of |-> m, i |-> i]]
File(m, n) == [kind |-> "file", attr |-> "none", nlink |-> 1, short |-> FALSE, lazy |-> FALSE, src |-> Data(m, n)]
Link(m, n, fast) == [File(m, n) EXCEPT !.kind = "symlink", !.short = fast]
Special == [File(A, 0) EXCEPT !.kind = "special"]
Directory(n) == [File(A, 0) EXCEPT !.kind = "dir", !.nlink = n]

Kinds == {File(A, n) : n \in {0, 1, 5}} \cup {Link(A, 1, TRUE), Link(A, 2, FALSE), Special}
Attrs == {"none", "small", "big", "huge"}

Tree(f, es) == [node |-> f, ents |-> es]

\* The trees around a node n with the given attributes.
Shapes(n) ==
    LET one == {Entry(R, 1, A)}
        two == [n EXCEPT !.nlink = 2]
    IN  {Tree((R :> Directory(2)) @@ (A :> n), one),
         Tree((R :> Directory(2)) @@ (A :> two), one \cup {Entry(R, 3, A)}),
         Tree((R :> Directory(2)) @@ (A :> n) @@ (B :> File(B, 3)), one \cup {Entry(R, 3, B)}),
         Tree((R :> Directory(3)) @@ (A :> two) @@ (D :> [Directory(2) EXCEPT !.attr = n.attr]),
              one \cup {Entry(R, 3, D), Entry(D, 1, A)})}

MCTrees == UNION {Shapes([n EXCEPT !.attr = x]) : n \in Kinds, x \in Attrs}
=============================================================================
