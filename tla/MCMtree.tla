------------------------------ MODULE MCMtree ------------------------------
(* Instances of Mtree for TLC.  Names are numbers. *)
EXTENDS Mtree

Dir(kids, mode, nlink) == [NewNode("dir", mode, nlink) EXCEPT !.kids = kids]
File(mode, uid) == [NewNode("file", mode, 1) EXCEPT !.uid = uid, !.content = "data"]

\* bin/ping, dev/console and the like, var/tmp, run: a root file system.
Leaves == {File(4755, 7), [NewNode("link", 777, 1) EXCEPT !.link = "t"], [NewNode("char", 600, 1) EXCEPT !.rdev = 1281],
           NewNode("fifo", 600, 1), [NewNode("block", 660, 1) EXCEPT !.rdev = 2048, !.uid = 3],
           [File(644, 0) EXCEPT !.xattrs = ("xattr.cap" :> 1) @@ ("xattr.acl" :> 2)]}
Wants == {(1 :> Dir((1 :> 2) @@ (2 :> 3) @@ (3 :> 4) @@ (4 :> 5), 755, 4)) @@ (2 :> [Dir(1 :> 6, 750, 2) EXCEPT !.uid = 9])
            @@ (3 :> a) @@ (4 :> Dir((2 :> 7) @@ (5 :> 8), 1777, 3)) @@ (5 :> File(600, 7))
            @@ (6 :> b) @@ (7 :> Dir(NoFn, 700, 2)) @@ (8 :> File(640, 2)) : a, b \in Leaves}

\* What a checkout keeps: no special files, one owner, no special bits, and maybe
\* neither the empty directories nor the directories of special files.
Special == {"char", "block", "fifo"}
Kept(t, bare) == {n \in DOMAIN t : /\ t[n].kind \notin Special
                                   /\ ~bare \/ n = Root \/ t[n].kind # "dir"
                                      \/ \E x \in DOMAIN t[n].kids : t[t[n].kids[x]].kind \notin Special \cup {"dir"}}
Checkout(t, bare) ==
    LET keep == Kept(t, bare)
        number(n) == Cardinality({m \in keep : m <= n})
        kids(n) == {x \in DOMAIN t[n].kids : t[n].kids[x] \in keep}
    IN  [i \in 1 .. Cardinality(keep) |->
            LET n == CHOOSE m \in keep : number(m) = i
            IN  [t[n] EXCEPT !.uid = 1000, !.mode = 755, !.xattrs = NoFn,
                             !.kids = IF kids(n) = {} THEN NoFn ELSE [x \in kids(n) |-> number(t[n].kids[x])],
                             !.nlink = IF t[n].kind = "dir"
                                       THEN 2 + Cardinality({x \in kids(n) : t[t[n].kids[x]].kind = "dir"}) ELSE 1]]

Set(kw) == [op |-> "set", kw |-> kw, bare |-> FALSE]
SetBare == [op |-> "set", kw |-> NoFn, bare |-> TRUE]
Unset(keys) == [op |-> "unset", keys |-> keys]
GoUp == [op |-> "up"]

\* The classic dialect: the owner of the most files and the type of the most entries
\* are set for all, and left out where they are right.  A file with attributes gets
\* one from /set and has another value of the other.
Common(kind) == ("uid" :> 7) @@ ("type" :> kind)
RECURSIVE Hierarchy(_, _, _)
Hierarchy(t, n, kind) ==
    FlattenSeq([i \in DOMAIN sortedKids(t, n) |->
        LET x == sortedKids(t, n)[i]
            c == t[n].kids[x]
            kw == keywordsOf(t[c])
            said == {k \in DOMAIN Common(kind) : kw[k] = Common(kind)[k]} \cup {"xattr.cap"}
            line == EntryLine("bare", <<x>>, [k \in DOMAIN kw \ said |-> kw[k]])
        IN  IF t[c].xattrs # NoFn
            THEN <<Set([t[c].xattrs EXCEPT !["xattr.acl"] = 9]), line, Unset(Xattrs)>>
            ELSE <<line>> \o IF t[c].kind = "dir" THEN Hierarchy(t, c, kind) \o <<GoUp>> ELSE <<>>])
Classic(t, kind) ==
    <<EntryLine("root", <<>>, keywordsOf(t[Root])), Set(Common(kind))>>
       \o Hierarchy(t, Root, kind) \o <<GoUp, Unset({"uid", "type"})>>

\* A path, through a directory above it, in the middle of the classic dialect.
Mixed(t) ==
    LET c == Classic(t, "file")
        i == CHOOSE i \in DOMAIN c : c[i].op = "entry" /\ c[i].form = "bare" /\ c[i].path = <<3>>
    IN  SubSeq(c, 1, i) \o <<EntryLine("path", <<3, 2, Up, 2>>, keywordsOf(t[7]))>> \o SubSeq(c, i + 1, Len(c))

Rebuilt == UNION {{[tree |-> Checkout(t, bare), lines |-> l, want |-> t] : bare \in BOOLEAN, l \in {Write(t), Classic(t, "file"), Classic(t, "dir"), Mixed(t)}} :
                    t \in Wants}

\* Specifications written by hand, over a checkout with a hard link: owners only,
\* new nodes below new directories, contents from the host, and what is refused.
Small == (1 :> Dir((1 :> 2) @@ (2 :> 3) @@ (3 :> 3), 755, 3)) @@ (2 :> Dir(1 :> 4, 755, 2)) @@ (3 :> [File(644, 5) EXCEPT !.nlink = 2])
           @@ (4 :> File(600, 5))
Types == {"file", "dir", "link", "char"}
Hand == {<<Set("uid" :> 0), EntryLine("path", p, kw), EntryLine("path", q, "mode" :> 400)>> :
            p \in {<<1>>, <<2>>, <<1, 1>>, <<1, 4, 5>>, <<2, 1>>, <<Up, 4>>},
            q \in {<<3>>, <<4>>, <<1, 4>>},
            kw \in {NoFn, "mode" :> Bad, "contents" :> "host"} \cup {"type" :> t : t \in {"file", "dir"}}}
          \cup {<<EntryLine("root", <<>>, "type" :> t), EntryLine("bare", <<1>>, NoFn), EntryLine("path", <<1, 1>>, "type" :> u)>> : t, u \in Types}
          \cup {<<SetBare, EntryLine("path", <<1>>, NoFn)>>,
                <<Set("type" :> "dir"), EntryLine("bare", <<1>>, NoFn), EntryLine("bare", <<1>>, NoFn)>>,
                <<Set("xattr.cap" :> 1), EntryLine("path", <<2>>, NoFn), EntryLine("path", <<3>>, "xattr.acl" :> 2)>>}

\* The specification of README.md makes a link of var/run, which the checkout has
\* as an empty directory.
VarRun == [tree |-> (1 :> Dir(1 :> 2, 755, 3)) @@ (2 :> Dir(2 :> 3, 755, 3)) @@ (3 :> Dir(NoFn, 755, 2)),
           lines |-> <<Set("uid" :> 0), EntryLine("path", <<1, 2>>, ("type" :> "link") @@ ("link" :> "../run"))>>,
           want |-> NoFn]

MCCases == Rebuilt \cup {[tree |-> Small, lines |-> l, want |-> NoFn] : l \in Hand} \cup {VarRun}
=============================================================================
