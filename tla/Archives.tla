------------------------------ MODULE Archives ------------------------------
(***************************************************************************)
(* The engines that write an image once, in order, and cannot edit it: the *)
(* builder picks one of them by name (EngineFor) and hands it the tree.    *)
(***************************************************************************)
EXTENDS Target

CONSTANT Short83   \* the 8.3 names of the names (Fat)

romfs == INSTANCE Romfs
cramfs == INSTANCE Cramfs
cpio == INSTANCE Cpio
erofs == INSTANCE Erofs
squashfs == INSTANCE Squashfs
iso == INSTANCE Iso
udf == INSTANCE Udf
fat == INSTANCE Fat
exfat == INSTANCE Exfat

Done == stage = "done" /\ UNCHANGED vars

Next == \/ romfs!Next \/ cramfs!Next \/ cpio!Next \/ erofs!Next
        \/ squashfs!Next \/ iso!Next \/ udf!Next
        \/ fat!Next \/ exfat!Next \/ Done

Spec == Init /\ [][Next]_vars
-----------------------------------------------------------------------------
\* What Finalize accepts is stored: the reader of the same format finds the tree
\* that was given to the engine in the image, once it has been trimmed.  Each
\* engine says what its format keeps of a tree.  ISO 9660 has the directories a second
\* time, in path tables that fsforge's own reader does not use.
StoredTree ==
    /\ romfs!RomfsReadBack /\ cramfs!CramfsReadBack /\ cpio!CpioReadBack
    /\ erofs!ErofsReadBack /\ squashfs!SquashReadBack
    /\ iso!IsoReadBack /\ iso!IsoPathTables /\ udf!UdfReadBack
    /\ fat!FatReadBack /\ exfat!ExfatReadBack

\* The clusters of a volume are accounted for: the chains, or the bitmap, say what
\* the directories say, each cluster taken once, and both copies agree.
ClustersExact == fat!FatChainsExact /\ exfat!ExfatBitmapExact

\* The number of clusters, the size of the table and the width of its entries that
\* computeGeometry settles on fit each other and the device.
FatGeometrySound == fat!FatGeometrySound

\* Records stay in the blocks other readers look for them in: the inodes of EROFS,
\* whatever attributes lie between them, and the directory records of ISO 9660.
RecordsInBlocks == erofs!ErofsInodesInBlocks /\ iso!IsoRecordsInSectors

\* The trim leaves a UDF image its second anchor and everything up to it.
UdfAnchored == udf!UdfAnchored

\* Mutant: a second name is not looked for.
graftedNames_third(i) == IF i.nlink > 2 THEN i.names ELSE {i.item.path}

\* graftOne in populate.go, over an opened image: it makes one file of the names
\* of a node when the node says that it has several.
graftedNames(i) == IF i.nlink > 1 THEN i.names ELSE {i.item.path}

KeepsLinks(open) == \A i \in open : i.item.kind = "reg" => graftedNames(i) = i.names

\* Building an image, opening it and copying it into another tree keeps the hard
\* links between files ("preserving hard links", Graft), in the formats that say
\* how many names a file has; a cpio archive folds its sets of links.
LinksConverted ==
    /\ cpio!CpioSharing
    /\ stage = "done" /\ err = "nil" =>
        /\ fs = "erofs" => KeepsLinks(erofs!Open)
        /\ fs = "udf" => KeepsLinks(udf!Open)

\* The checksum of an image that carries one covers what the image finally holds.
Sealed == romfs!RomfsSealed /\ cramfs!CramfsSealed

\* Finalize returns, with an error if it has to, whatever the names and the size
\* of the volume are ("lfnCount is the number of LFN entries a name needs", fat.go).
FinalizeReturns == stage = "done" => err # "panic"
=============================================================================
