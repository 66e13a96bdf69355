----------------------------- MODULE MCArchives -----------------------------
(* Instances of Archives for TLC. *)
EXTENDS Archives

\* Names of every alignment; the sixth is longer than cramfs can store, and the
\* names from ten on are those of a large directory.
MCNameLen == [x \in 1 .. 40 |->
    CASE x <= 6 -> <<1, 3, 8, 15, 252, 253>>[x]
      [] x <= 9 -> 40
      [] x <= 27 -> 250
      [] x <= 29 -> 40000
      [] x = 30 -> 255
      [] OTHER -> 120]

Node(kind, len) == [kind |-> kind, len |-> len, rdev |-> 0, exec |-> FALSE, owner |-> 0, nlink |-> 1,
                    src |-> "ok", xattrs |-> <<>>, kids |-> NoFn]
Dir(kids) == [Node("dir", 0) EXCEPT !.kids = kids]

\* The link counts the editing operations leave.
Counted(t) ==
    LET names(n) == {e \in {<<d, x>> : d \in DOMAIN t, x \in DOMAIN MCNameLen} :
                        e[2] \in DOMAIN t[e[1]].kids /\ t[e[1]].kids[e[2]] = n}
        dirs(n) == {x \in DOMAIN t[n].kids : t[t[n].kids[x]].kind = "dir"}
    IN  [n \in DOMAIN t |-> [t[n] EXCEPT !.nlink =
            IF t[n].kind = "dir" THEN 2 + Cardinality(dirs(n)) ELSE Cardinality(names(n))]]

Files == {Node("reg", 0), Node("reg", 5), Node("reg", 4096), [Node("reg", 5000) EXCEPT !.exec = TRUE],
          [Node("reg", 40) EXCEPT !.src = "fails"], [Node("reg", 70) EXCEPT !.xattrs = <<Attribute(2716, "user"), Attribute(21, "security")>>],
          Node("symlink", 7), [Node("device", 0) EXCEPT !.rdev = 1283], Node("fifo", 0)}
Second == {Node("reg", 4096), [Node("symlink", 7) EXCEPT !.xattrs = <<Attribute(70000, "user")>>], Node("fifo", 0)}

Empty == 1 :> Dir(NoFn)
One == {(1 :> Dir(x :> 2)) @@ (2 :> f) : x \in {1, 5, 6}, f \in Files}
Nested == {(1 :> Dir((1 :> 2) @@ (2 :> 3) @@ (4 :> 4))) @@ (2 :> f)
             @@ (3 :> [Dir(1 :> 5) EXCEPT !.xattrs = <<Attribute(30, "user")>>, !.owner = 7])
             @@ (4 :> Node("reg", 17)) @@ (5 :> g) : f \in Files, g \in Second}
Deep == {(1 :> Dir((1 :> 2) @@ (2 :> 3) @@ (3 :> 4))) @@ (2 :> Dir((3 :> 5) @@ (4 :> 6)))
             @@ (3 :> f) @@ (4 :> Dir(NoFn)) @@ (5 :> Dir(2 :> 7)) @@ (6 :> Node("reg", 9))
             @@ (7 :> Node("symlink", 30)) : f \in Files}

\* Two names of a file, in two directories.
HardLinks == {(1 :> Dir((1 :> 2) @@ (2 :> 3) @@ (4 :> 4))) @@ (2 :> f) @@ (3 :> Dir((1 :> 2) @@ (3 :> 5)))
             @@ (4 :> Node("reg", 33)) @@ (5 :> Node("reg", 6)) : f \in Files}

\* A directory that does not fit one block.
Large(names) == {(1 :> Dir([x \in names |-> IF x = Min(names) THEN 2 ELSE 3])) @@ (2 :> Dir(NoFn)) @@ (3 :> Node("reg", 1))}

\* Targets that fill a metadata block exactly, or nearly, or run over its end.
LongLinks == {(1 :> Dir((1 :> 2) @@ (2 :> 3) @@ (3 :> 4) @@ (4 :> 5))) @@ (2 :> Node("symlink", len))
                @@ (3 :> Node("symlink", 4000))
                @@ (4 :> [Dir(1 :> 6) EXCEPT !.xattrs = <<Attribute(21, "security")>>])
                @@ (5 :> [Node("reg", 3) EXCEPT !.xattrs = <<Attribute(21, "security")>>])
                @@ (6 :> [Node("reg", 5) EXCEPT !.xattrs = <<Attribute(22, "security")>>]) :
                len \in {4096, 4100, 4144, 8168, 8170}}

\* An attribute squashfs has no code for, and names too long for its directories.
Refused == {(1 :> Dir(1 :> 2)) @@ (2 :> [Node("reg", 5) EXCEPT !.xattrs = <<Attribute(9, "system")>>]),
            (1 :> Dir(1 :> 2)) @@ (2 :> Dir((28 :> 3) @@ (29 :> 3))) @@ (3 :> Node("fifo", 0))}

\* Nine directories one in the other.
TooDeep == [n \in 1 .. 9 |-> Dir(IF n < 9 THEN 1 :> n + 1 ELSE NoFn)]

All == {Empty} \cup One \cup Nested \cup Deep

\* Trees of directories and files, for the engines that know nothing else: two
\* levels, a hard link, files of more than a cluster, a directory of several.
Plain == {(1 :> Dir((1 :> 2) @@ (2 :> 3) @@ (3 :> 4) @@ (4 :> 5))) @@ (2 :> f) @@ (3 :> Dir((3 :> 2) @@ (4 :> 6)))
            @@ (4 :> Node("reg", n)) @@ (5 :> Dir(NoFn)) @@ (6 :> Dir(1 :> 4)) :
            f \in {Node("reg", 0), Node("reg", 4097), [Node("reg", 40) EXCEPT !.src = "fails"]}, n \in {512, 1500}}
MCVolumes == {Empty} \cup Plain \cup Large(10 .. 27) \cup Large(5 .. 27 \cup 30 .. 40)
               \cup {(1 :> Dir(1 :> 2)) @@ (2 :> Node("symlink", 7)), (1 :> Dir((1 :> 2) @@ (2 :> 3)))
                        @@ (2 :> Node("reg", 5)) @@ (3 :> Dir(1 :> 4)) @@ (4 :> Node("fifo", 0))}

\* The names from 2 to 4 have the same base; 3 is the alias that 2 is given.
MCShort83 == [x \in DOMAIN MCNameLen |->
    [fits |-> x \in {1, 3}, short |-> IF x = 3 THEN <<2, 1>> ELSE <<x, 0>>, base |-> IF x = 4 THEN 2 ELSE x]]

\* Four attributes of 64 kB and a small one, each of which EROFS takes.
Heavy ==
    LET heavy == [i \in 1 .. 4 |-> [Attribute(65530, "user") EXCEPT !.name = i]]
    IN  {(1 :> Dir((1 :> 2) @@ (2 :> 3)))
           @@ (2 :> [Node("reg", 9) EXCEPT !.xattrs = heavy \o <<Attribute(20, "security")>>])
           @@ (3 :> [Node("reg", 9) EXCEPT !.xattrs = SubSeq(heavy, 1, 3)])}

\* Two files with different attributes, one of which has a value with NULs in it that
\* spells out the second attribute of the other.
Pair(x, value) == [Attribute(4 + Len(value), "user") EXCEPT !.name = x, !.value = value]
Keys ==
    LET one == <<Pair(1, <<5, 0, 48, 0, 2, 0, 6>>)>>
        two == <<Pair(1, <<5>>), Pair(2, <<6>>)>>
    IN  {(1 :> Dir((1 :> 2) @@ (2 :> 3))) @@ (2 :> [Node("reg", 5) EXCEPT !.xattrs = xs])
           @@ (3 :> [Node("reg", 5) EXCEPT !.xattrs = two]) : xs \in {one, <<Pair(1, <<5>>)>>, two}}

MCTrees == LET c(S) == {Counted(t) : t \in S}
           IN  [romfs |-> c(All), cramfs |-> c(All), cpio |-> c(All \cup HardLinks),
                erofs |-> c(All \cup HardLinks \cup Large(10 .. 27) \cup Heavy),
                iso |-> c(All \cup HardLinks \cup Large(31 .. 40) \cup {TooDeep}),
                udf |-> c(All \cup HardLinks \cup Large(10 .. 27)),
                squashfs |-> c(All \cup HardLinks \cup LongLinks \cup Refused \cup Keys),
                fat |-> c(MCVolumes), exfat |-> c(MCVolumes)]

\* Sectors around which the geometry of FAT changes: the smallest volume, the
\* widths, the sizes of a cluster, and where the table needs another sector.
FatSectors == 26 .. 28 \cup 30 .. 46 \cup 373 .. 377 \cup {700, 1400, 4000, 8399, 8400, 8401}
                \cup 32680 .. 32681 \cup 262144 .. 262145 \cup 524288 .. 524289 \cup 1048575 .. 1048576
ExfatSectors == {24, 26, 33, 40, 47, 48, 56, 64, 72, 79, 80, 88, 96, 97, 104, 112, 120, 160, 1048, 1056, 1057, 1064,
                 1048576, 1048577}

\* A file, which grows, and in-memory devices, which do not.
MCSizes == [e \in DOMAIN MCTrees |->
               CASE e = "fat" -> {700} \cup {512 * n : n \in FatSectors}
                 [] e = "exfat" -> {700} \cup {512 * n : n \in ExfatSectors}
                 [] e = "iso" -> {Grows, 45056} [] e = "udf" -> {Grows, 550000}
                 [] OTHER -> {Grows, 100, 700, 20000}]

\* Eight files in a directory, with names of capital letters.
UpperTrees == [fat |-> {Counted((1 :> Dir(1 :> 2)) @@ (2 :> Dir([x \in 2 .. 9 |-> 3])) @@ (3 :> Node("reg", 9)))}]
UpperLen == [x \in 1 .. 9 |-> 8]
Upper83 == [x \in 1 .. 9 |-> [fits |-> TRUE, short |-> <<x, 0>>, base |-> x]]


=============================================================================
