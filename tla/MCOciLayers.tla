---------------------------- MODULE MCOciLayers ----------------------------
(* Instances of OciLayers for TLC: two names, directories one level deep. *)
EXTENDS OciLayers, TLC
Walk == << <<"a">>, <<"a", "a">>, <<"b">>, <<"b", "a">> >>
Paths == {<<"a">>, <<"a", "a">>, <<"b">>, <<"b", "a">>}

\* Which inode is which tells no two images apart.
Inodes == Permutations(Ino)

\* The smallest instance in which a layer does not reproduce its image.
FlatWalk == << <<"a">>, <<"b">> >>
FlatPaths == {<<"a">>, <<"b">>}
=============================================================================
