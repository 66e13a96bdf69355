-------------------------------- MODULE Mtree --------------------------------
(***************************************************************************)
(* pkg/mtree: a specification is parsed line by line into entries (Parse), *)
(* which are laid over a tree one by one (Apply), between the populate and *)
(* the finalize of a build; Write describes a tree as a specification.     *)
(*                                                                         *)
(* A line is one of /set, /unset, ".." and an entry, whose name is "." or  *)
(* a bare name (the classic dialect) or a path (the 2.0 dialect).  A       *)
(* keyword's value Bad stands for one that does not parse.  Minor numbers  *)
(* are below 256: larger ones run into the major number.                   *)
(***************************************************************************)
EXTENDS Integers, Sequences, FiniteSets, SequencesExt, FiniteSetsExt, TLC

CONSTANTS Cases,   \* the populated tree, the lines of the specification and, if any, the tree they describe
          Bad, Up, \* a malformed value; ".." inside a path
          Xattrs   \* the keywords xattr.<name>, each standing for its attribute too

VARIABLES tree,      \* the populated tree: node -> node record, the root is 1
          want,      \* the tree the specification describes, or NoFn
          lines, pos,
          dir,       \* the directory the classic dialect is in
          defaults,  \* what /set has set
          entries, applied,
          born,      \* history: node -> the kind it was populated or made with
          stage, err

vars == <<tree, want, lines, pos, dir, defaults, entries, applied, born, stage, err>>

Root == 1
NoFn == <<>>
NoNode == 0

Init ==
    /\ \E c \in Cases : tree = c.tree /\ lines = c.lines /\ want = c.want
    /\ pos = 1 /\ dir = <<>> /\ defaults = NoFn
    /\ entries = <<>> /\ applied = 0
    /\ born = [n \in DOMAIN tree |-> tree[n].kind]
    /\ stage = "parse" /\ err = "nil"

Fails(why) ==
    /\ err' = why /\ stage' = "done"
    /\ UNCHANGED <<want, lines, pos, dir, defaults, entries, applied, born>>
-----------------------------------------------------------------------------
(* Parse. *)

\* Mutant: a line's keywords do not override what /set has set.
keywords_defaults(kw) == defaults @@ kw

keywords(kw) == kw @@ defaults

\* path.Clean of the path below the root.
clean(p) == FoldLeft(LAMBDA a, c : IF c # Up THEN Append(a, c) ELSE IF a = <<>> THEN a ELSE Front(a), <<>>, p)

\* buildEntry
entryPath(l) == IF l.form = "root" THEN <<>> ELSE clean(IF l.form = "bare" THEN dir \o l.path ELSE l.path)

\* A bare directory entry opens a level of the classic dialect.
opensLevel(l, kw) == "type" \in DOMAIN kw /\ kw["type"] = "dir" /\ l.form = "bare"

Parsing == stage = "parse" /\ pos <= Len(lines)
Line == lines[pos]

\* A word of /set that is not keyword=value ends Parse; a value is not looked at yet.
ParseSet ==
    /\ Parsing /\ Line.op = "set"
    /\ \/ Line.bare /\ Fails("parse") /\ UNCHANGED tree
       \/ /\ ~Line.bare
          /\ defaults' = Line.kw @@ defaults
          /\ pos' = pos + 1
          /\ UNCHANGED <<tree, want, lines, dir, entries, applied, born, stage, err>>

ParseUnset ==
    /\ Parsing /\ Line.op = "unset"
    /\ defaults' = [k \in DOMAIN defaults \ Line.keys |-> defaults[k]]
    /\ pos' = pos + 1
    /\ UNCHANGED <<tree, want, lines, dir, entries, applied, born, stage, err>>

ParseUp ==
    /\ Parsing /\ Line.op = "up"
    /\ dir' = IF dir = <<>> THEN dir ELSE Front(dir)
    /\ pos' = pos + 1
    /\ UNCHANGED <<tree, want, lines, defaults, entries, applied, born, stage, err>>

\* A keyword that does not parse ends Parse, wherever it was set.
ParseEntry ==
    /\ Parsing /\ Line.op = "entry"
    /\ LET kw == keywords(Line.kw)
       IN  IF \E k \in DOMAIN kw : kw[k] = Bad THEN Fails("parse") /\ UNCHANGED tree
           ELSE /\ entries' = Append(entries, [path |-> entryPath(Line), kw |-> kw])
                /\ dir' = IF opensLevel(Line, kw) THEN dir \o Line.path ELSE dir
                /\ pos' = pos + 1
                /\ UNCHANGED <<tree, want, lines, defaults, applied, born, stage, err>>

ParseEnds ==
    /\ stage = "parse" /\ pos > Len(lines)
    /\ stage' = "apply"
    /\ UNCHANGED <<tree, want, lines, pos, dir, defaults, entries, applied, born, err>>
-----------------------------------------------------------------------------
(* Apply. *)

kindOf(kw) == IF "type" \in DOMAIN kw THEN kw["type"] ELSE "file"

defaultModeFor(kw) ==
    CASE kindOf(kw) = "dir" -> 755
      [] kindOf(kw) = "link" -> 777
      [] kindOf(kw) = "file" -> 644
      [] OTHER -> 600

NewNode(kind, mode, nlink) ==
    [kind |-> kind, mode |-> mode, nlink |-> nlink, uid |-> 0, link |-> "", rdev |-> 0,
     content |-> "nil", xattrs |-> NoFn, kids |-> NoFn]

findChild(t, n, x) == IF x \in DOMAIN t[n].kids THEN t[n].kids[x] ELSE NoNode


\* AddChild, and the link the ".." of a new directory is to its parent.
added(t, d, x, node) ==
    [t EXCEPT ![d].kids = (x :> Cardinality(DOMAIN t) + 1) @@ @,
              ![d].nlink = @ + IF node.kind = "dir" THEN 1 ELSE 0] @@ (Cardinality(DOMAIN t) + 1 :> node)

\* image.ValidName: of the components a path may have, ".." is the one it refuses.
ValidName(x) == x # Up

\* childDir: a step towards the entry's parent.
childDir(s, x) ==
    LET n == findChild(s.t, s.n, x)
    IN  CASE s.err # "nil" -> s
          [] s.err = "nil" /\ ~ValidName(x) -> [s EXCEPT !.err = "invalid name"]
          [] n = NoNode -> [s EXCEPT !.t = added(s.t, s.n, x, NewNode("dir", 755, 2)),
                                     !.n = Cardinality(DOMAIN s.t) + 1]
          [] n # NoNode /\ s.t[n].kind # "dir" -> [s EXCEPT !.err = "not a directory"]
          [] OTHER -> [s EXCEPT !.n = n]

\* The node of an entry, made when it is not there.
target(e) ==
    LET s == FoldLeft(childDir, [t |-> tree, n |-> Root, err |-> "nil"], Front(e.path))
        x == Last(e.path)
    IN  IF e.path = <<>> THEN [t |-> tree, n |-> Root, err |-> "nil"]
        ELSE IF s.err # "nil" THEN s
        ELSE IF ~ValidName(x) THEN [s EXCEPT !.err = "invalid name"]
        ELSE IF findChild(s.t, s.n, x) # NoNode THEN [s EXCEPT !.n = findChild(s.t, s.n, x)]
        ELSE [s EXCEPT !.t = added(s.t, s.n, x, NewNode(kindOf(e.kw), defaultModeFor(e.kw),
                                                        IF kindOf(e.kw) = "dir" THEN 2 ELSE 1)),
                       !.n = Cardinality(DOMAIN s.t) + 1]

\* Mutant: a node whose entry has no owner is given to root.
given_owner(kw, k, old) == IF k \in DOMAIN kw THEN kw[k] ELSE IF k = "uid" THEN 0 ELSE old

given(kw, k, old) == IF k \in DOMAIN kw THEN kw[k] ELSE old

\* amend: only the keywords that are there.
amended(n, kw) ==
    LET r == [n EXCEPT !.kind = given(kw, "type", @), !.mode = given(kw, "mode", @), !.uid = given(kw, "uid", @),
                       !.link = given(kw, "link", @), !.rdev = given(kw, "device", @),
                       !.content = given(kw, "contents", @), !.xattrs = [k \in DOMAIN kw \cap Xattrs |-> kw[k]] @@ @]
    IN  [r EXCEPT !.content = IF r.kind = "file" /\ @ = "nil" THEN "empty" ELSE @]

\* A directory that has entries cannot become something else.
populated(n, kw) == given(kw, "type", n.kind) # n.kind /\ n.kids # NoFn

\* applyEntry.  The host file of contents= may be missing; what was made on the
\* way to an entry that fails stays.
ApplyEntry ==
    /\ stage = "apply" /\ applied < Len(entries)
    /\ LET e == entries[applied + 1]
       IN  \E s \in {target(e)} :
             \/ /\ s.err # "nil"
                /\ Fails(s.err) /\ tree' = s.t
             \/ /\ s.err = "nil" /\ populated(s.t[s.n], e.kw)
                /\ Fails("non-empty directory") /\ tree' = s.t
             \/ /\ s.err = "nil" /\ ~populated(s.t[s.n], e.kw) /\ "contents" \in DOMAIN e.kw
                /\ Fails("contents")
                /\ tree' = [s.t EXCEPT ![s.n] = [amended(@, e.kw) EXCEPT !.content = s.t[s.n].content]]
             \/ /\ s.err = "nil" /\ ~populated(s.t[s.n], e.kw)
                /\ tree' = [s.t EXCEPT ![s.n] = amended(@, e.kw)]
                /\ born' = [n \in DOMAIN s.t |-> IF n \in DOMAIN born THEN born[n] ELSE s.t[n].kind]
                /\ applied' = applied + 1
                /\ UNCHANGED <<want, lines, pos, dir, defaults, entries, stage, err>>

\* The tree goes to the engine; the host files are read then.
Finalize ==
    /\ stage = "apply" /\ applied = Len(entries)
    /\ stage' = "done"
    /\ UNCHANGED <<tree, want, lines, pos, dir, defaults, entries, applied, born, err>>

Done == stage = "done" /\ UNCHANGED vars

Next == \/ ParseSet \/ ParseUnset \/ ParseUp \/ ParseEntry \/ ParseEnds
        \/ ApplyEntry \/ Finalize \/ Done

Spec == Init /\ [][Next]_vars
-----------------------------------------------------------------------------
(* Write. *)

keywordsOf(n) ==
    ("type" :> n.kind) @@ ("mode" :> n.mode) @@ ("uid" :> n.uid)
       @@ (IF n.kind = "link" THEN "link" :> n.link ELSE NoFn)
       @@ (IF n.kind \in {"block", "char"} THEN "device" :> n.rdev ELSE NoFn)
       @@ n.xattrs

EntryLine(form, path, kw) == [op |-> "entry", form |-> form, path |-> path, kw |-> kw]

sortedKids(t, n) == SetToSortSeq(DOMAIN t[n].kids, <)

RECURSIVE walk(_, _, _)
walk(t, n, prefix) ==
    FlattenSeq([i \in DOMAIN sortedKids(t, n) |->
        LET x == sortedKids(t, n)[i]
            c == t[n].kids[x]
        IN  <<EntryLine("path", Append(prefix, x), keywordsOf(t[c]))>>
              \o IF t[c].kind = "dir" THEN walk(t, c, Append(prefix, x)) ELSE <<>>])

Write(t) == <<EntryLine("root", <<>>, keywordsOf(t[Root]))>> \o walk(t, Root, <<>>)
-----------------------------------------------------------------------------
Applied == stage = "done" /\ err = "nil"

\* The nodes by path.
RECURSIVE nodesAt(_, _, _)
nodesAt(t, n, prefix) ==
    {[path |-> prefix, node |-> n]}
      \cup UNION {nodesAt(t, t[n].kids[x], Append(prefix, x)) : x \in DOMAIN t[n].kids}

\* What an entry says of a node, and the links of a directory.
facts(t, p) ==
    LET n == t[p.node]
    IN  [path |-> p.path, kind |-> n.kind, mode |-> n.mode, uid |-> n.uid, xattrs |-> n.xattrs,
         link |-> IF n.kind = "link" THEN n.link ELSE "",
         rdev |-> IF n.kind \in {"block", "char"} THEN n.rdev ELSE 0,
         nlink |-> IF n.kind = "dir" THEN n.nlink ELSE 1]

\* A specification of a tree, in either dialect or in both, laid over a checkout
\* that lacks owners, modes, special files and empty directories, gives the tree.
SpecRebuilds ==
    Applied /\ want # NoFn =>
        {facts(tree, p) : p \in nodesAt(tree, Root, <<>>)} = {facts(want, p) : p \in nodesAt(want, Root, <<>>)}


\* The keyword a field of a node is set by.
fieldOf == [type |-> "kind", mode |-> "mode", uid |-> "uid", link |-> "link", device |-> "rdev"]

\* An entry changes the node it names, and of that only what its keywords name
\* ("only the keywords present in the spec are changed", Apply), attribute by
\* attribute; contents change only where the entry has some, or a file had none at
\* all; nothing is removed.
AmendsOnlyNamed ==
    [][stage = "apply" /\ applied < Len(entries) =>
        LET e == entries[applied + 1]
            named(p) == [path |-> e.path, node |-> p.node] \in nodesAt(tree, Root, <<>>)
        IN  \A p \in nodesAt(tree, Root, <<>>) :
              LET old == tree[p.node]
                  new == tree'[p.node]
              IN  /\ \A x \in DOMAIN old.kids : x \in DOMAIN new.kids /\ new.kids[x] = old.kids[x]
                  /\ \A k \in DOMAIN fieldOf : new[fieldOf[k]] # old[fieldOf[k]] => k \in DOMAIN e.kw /\ named(p)
                  /\ DOMAIN old.xattrs \subseteq DOMAIN new.xattrs
                  /\ \A k \in DOMAIN new.xattrs :
                        \/ k \in DOMAIN old.xattrs /\ new.xattrs[k] = old.xattrs[k]
                        \/ k \in DOMAIN e.kw /\ named(p)
                  /\ new.content # old.content => named(p) /\ ("contents" \in DOMAIN e.kw \/ old.content = "nil")]_vars
=============================================================================
