------------------------------- MODULE Qcow2 -------------------------------
(***************************************************************************)
(* pkg/qcow2: a virtual disk kept sparsely in the clusters of a host file. *)
(* The writer allocates a host cluster on the first non-zero write to a    *)
(* guest cluster and keeps the mapping in memory; Finalize writes the L2   *)
(* tables, the L1 table, the refcounts and, last, the header.  The reader  *)
(* resolves a sector through header, L1 and L2.  A table entry is the host *)
(* cluster index whose offset the code stores (0: unallocated); the code's *)
(* flag bits do not reach the offset that the reader masks out.  Every     *)
(* write to the host file may fail, leaving the old or the new contents.   *)
(***************************************************************************)
EXTENDS Integers, FiniteSets

CONSTANTS Size,        \* virtual size, in sectors
          ClSize,      \* sectors per cluster (clusterSize)
          Entries,     \* table entries per cluster (l2Entries)
          RefsPerCl,   \* refcounts per cluster (refcountsPerCl)
          Val          \* contents of a sector, 0 being all zeros

ASSUME QcowAssumption ==
    /\ {Size, ClSize, Entries, RefsPerCl} \subseteq Nat \ {0}
    /\ Val \subseteq Nat /\ 0 \in Val

VARIABLES l2map,     \* guest cluster -> host cluster, 0 if unallocated
          nextHost,  \* next free host cluster
          finalized,
          host,      \* the clusters of the host file that were written
          pc,        \* "open", the point Finalize has reached, "done", "failed"
          l1,        \* Finalize's L1 table
          todoL2,    \* L1 indices whose L2 table is still to be written
          l1Off, rb, rt, rtOff, rbOff,  \* locals of Finalize and writeRefcounts
          disk       \* history: what the virtual disk holds

vars == <<l2map, nextHost, finalized, host, pc, l1, todoL2, l1Off, rb, rt, rtOff, rbOff, disk>>
planVars == <<l1Off, rb, rt, rtOff, rbOff>>

ceilDiv(a, b) == (a + b - 1) \div b

Sectors == 0 .. Size - 1
Guest == 0 .. ceilDiv(Size, ClSize) - 1
InCl == 0 .. ClSize - 1
l1Size == ceilDiv(Size, ClSize * Entries)

\* Contents of a host cluster.
Hole == [type |-> "hole"]
Data(c) == [type |-> "data", c |-> c]
Table(e) == [type |-> "table", e |-> e]
Refs(c) == [type |-> "refs", counts |-> c]
Header(l, lo, r, n) == [type |-> "header", l1Size |-> l, l1Off |-> lo, rtOff |-> r, rtClusters |-> n]

\* A cluster of the host file; what was never written reads as zeros.
hostAt(h) == IF h \in DOMAIN host THEN host[h] ELSE Hole
SectorOf(content, i) == IF content.type = "data" THEN content.c[i] ELSE 0
EntryOf(content, i) == IF content.type = "table" THEN content.e[i] ELSE 0

\* Mutant: no cluster is kept for the header.
firstCluster_none == 0

\* The first host cluster for data; cluster 0 is for the header.
firstCluster == 1

NewWriter ==
    /\ l2map = [g \in Guest |-> 0]
    /\ nextHost = firstCluster
    /\ finalized = FALSE
    /\ host = [h \in {} |-> Hole]
    /\ pc = "open"
    /\ l1 = [i \in 0 .. l1Size - 1 |-> 0]
    /\ todoL2 = {}
    /\ l1Off = 0 /\ rb = 1 /\ rt = 1 /\ rtOff = 0 /\ rbOff = 0
    /\ disk = [s \in Sectors |-> 0]

-----------------------------------------------------------------------------
(* The outcome of a write of clusters to the host file: it succeeds, or it  *)
(* fails with the contents old ("lost") or new ("late").                    *)
Outcome == {"ok", "lost", "late"}
hostAfter(new, res) ==
    IF res = "lost" THEN host
    ELSE [h \in DOMAIN host \cup DOMAIN new |-> IF h \in DOMAIN new THEN new[h] ELSE host[h]]

\* Mutant: an all-zero chunk is skipped even if the cluster is allocated.
skips_always(gc, chunk) == \A i \in DOMAIN chunk : chunk[i] = 0

\* WriteAt leaves an unallocated cluster alone when it is written zeros.
skips(gc, chunk) == l2map[gc] = 0 /\ \A i \in DOMAIN chunk : chunk[i] = 0

\* The host cluster that a write to guest cluster gc goes to.
hostFor(gc) == IF l2map[gc] = 0 THEN nextHost ELSE l2map[gc]

\* One turn of WriteAt's loop: the part of the buffer that falls into guest
\* cluster gc, a function from the sectors of the cluster to values.  A WriteAt
\* over several clusters is a sequence of these, cut short by an error.
WriteChunk(gc, chunk, res) ==
    LET h   == hostFor(gc)
        new == [i \in InCl |-> IF i \in DOMAIN chunk THEN chunk[i] ELSE SectorOf(hostAt(h), i)]
    IN  /\ pc = "open"
        /\ DOMAIN chunk # {}
        /\ \A i \in DOMAIN chunk : gc * ClSize + i < Size
        /\ \/ /\ skips(gc, chunk)
              /\ res = "ok"
              /\ UNCHANGED <<l2map, nextHost, host>>
           \/ /\ ~skips(gc, chunk)
              /\ l2map' = [l2map EXCEPT ![gc] = h]
              /\ nextHost' = IF h = nextHost THEN nextHost + 1 ELSE nextHost
              /\ host' = hostAfter([x \in {h} |-> Data(new)], res)
        /\ disk' = IF res = "lost" THEN disk
                   ELSE [s \in Sectors |->
                            IF s \div ClSize = gc /\ s % ClSize \in DOMAIN chunk
                            THEN chunk[s % ClSize] ELSE disk[s]]
        /\ UNCHANGED <<finalized, pc, l1, todoL2, planVars>>

\* Writer.ReadAt, one sector.
writerRead(s) ==
    LET h == l2map[s \div ClSize]
    IN  IF h = 0 THEN 0 ELSE SectorOf(hostAt(h), s % ClSize)

-----------------------------------------------------------------------------
(* Finalize. *)

Finalize ==
    /\ ~finalized
    /\ pc = "open"
    /\ finalized' = TRUE
    /\ pc' = "l2"
    /\ todoL2' = {g \div Entries : g \in {c \in Guest : l2map[c] # 0}}
    /\ UNCHANGED <<l2map, nextHost, host, l1, planVars, disk>>

\* Mutant: the error of the write is dropped.
goOn_errorDropped(res, p) == pc' = p

\* The next point of Finalize, unless the write it depends on failed.
goOn(res, p) == pc' = IF res = "ok" THEN p ELSE "failed"

l2Of(idx) == [i \in 0 .. Entries - 1 |->
                 IF idx * Entries + i \in Guest THEN l2map[idx * Entries + i] ELSE 0]

WriteL2Table(res) ==
    /\ pc = "l2"
    /\ \E idx \in todoL2 :
          /\ \A k \in todoL2 : idx <= k
          /\ host' = hostAfter([x \in {nextHost} |-> Table(l2Of(idx))], res)
          /\ l1' = IF res = "ok" THEN [l1 EXCEPT ![idx] = nextHost] ELSE l1
          /\ todoL2' = todoL2 \ {idx}
    /\ nextHost' = nextHost + 1
    /\ goOn(res, "l2")
    /\ UNCHANGED <<l2map, finalized, planVars, disk>>

\* Entries first .. first + Entries - 1 of a table longer than a cluster.
slice(t, first) == [i \in 0 .. Entries - 1 |-> IF first + i \in DOMAIN t THEN t[first + i] ELSE 0]

l1Clusters == ceilDiv(l1Size, Entries)

WriteL1Table(res) ==
    /\ pc = "l2" /\ todoL2 = {}
    /\ l1Off' = nextHost
    /\ nextHost' = nextHost + l1Clusters
    /\ host' = hostAfter([h \in nextHost .. nextHost + l1Clusters - 1 |->
                             Table(slice(l1, (h - nextHost) * Entries))], res)
    /\ goOn(res, "plan")
    /\ UNCHANGED <<l2map, finalized, l1, todoL2, rb, rt, rtOff, rbOff, disk>>

\* Mutant: the clusters of the refcount structures are not counted.
refcounted_usedOnly == nextHost

\* The clusters that need a refcount, with the structures as planned so far.
refcounted == nextHost + rt + rb

\* Mutant: the loop ends only when the plan shrinks.
planned_shrinks(nrb, nrt) == nrb < rb

\* The plan is a fixpoint.
planned(nrb, nrt) == nrb = rb /\ nrt = rt

\* One turn of writeRefcounts' loop: size the refcount structures until they
\* have room for their own clusters too.
PlanRefcounts ==
    /\ pc = "plan"
    /\ LET nrb == ceilDiv(refcounted, RefsPerCl)
           nrt == ceilDiv(nrb, Entries)
       IN  IF planned(nrb, nrt)
           THEN /\ pc' = "refs"
                /\ rtOff' = nextHost
                /\ rbOff' = nextHost + rt
                /\ nextHost' = nextHost + rt + rb
                /\ UNCHANGED <<rb, rt>>
           ELSE /\ rb' = nrb /\ rt' = nrt
                /\ UNCHANGED <<pc, nextHost, rtOff, rbOff>>
    /\ UNCHANGED <<l2map, finalized, host, l1, todoL2, l1Off, disk>>

\* The refcount block b: every cluster of the file is counted once.
refBlock(b) == Refs([i \in 0 .. RefsPerCl - 1 |-> IF b * RefsPerCl + i < nextHost THEN 1 ELSE 0])

WriteRefBlocks(res) ==
    /\ pc = "refs"
    /\ host' = hostAfter([h \in rbOff .. rbOff + rb - 1 |-> refBlock(h - rbOff)], res)
    /\ goOn(res, "refTable")
    /\ UNCHANGED <<l2map, nextHost, finalized, l1, todoL2, planVars, disk>>

\* The refcount table: where the blocks are.
refTable == [b \in 0 .. rb - 1 |-> rbOff + b]

WriteRefTable(res) ==
    /\ pc = "refTable"
    /\ host' = hostAfter([h \in rtOff .. rtOff + rt - 1 |->
                             Table(slice(refTable, (h - rtOff) * Entries))], res)
    /\ goOn(res, "header")
    /\ UNCHANGED <<l2map, nextHost, finalized, l1, todoL2, planVars, disk>>

WriteHeader(res) ==
    /\ pc = "header"
    /\ host' = hostAfter([x \in {0} |-> Header(l1Size, l1Off, rtOff, rt)], res)
    /\ goOn(res, "truncate")
    /\ UNCHANGED <<l2map, nextHost, finalized, l1, todoL2, planVars, disk>>

\* Truncate sets the file's length; clusters never written read as zeros.
Truncate(res) ==
    /\ pc = "truncate"
    /\ goOn(res, "done")
    /\ UNCHANGED <<l2map, nextHost, finalized, host, l1, todoL2, planVars, disk>>

FinalizeStep ==
    \/ PlanRefcounts
    \/ \E res \in Outcome : \/ WriteL2Table(res) \/ WriteL1Table(res) \/ WriteRefBlocks(res)
                            \/ WriteRefTable(res) \/ WriteHeader(res) \/ Truncate(res)

-----------------------------------------------------------------------------
(* The reader. *)

opens == hostAt(0).type = "header"

\* Entry k of the table that starts at host cluster h.
tableEntry(h, k) == EntryOf(hostAt(h + k \div Entries), k % Entries)

hostOffset(gc) ==
    LET idx == gc \div Entries
        l2  == tableEntry(hostAt(0).l1Off, idx)
    IN  IF idx >= hostAt(0).l1Size \/ l2 = 0 THEN 0 ELSE tableEntry(l2, gc % Entries)

\* Reader.ReadAt, one sector.
readerRead(s) ==
    LET h == hostOffset(s \div ClSize)
    IN  IF h = 0 THEN 0 ELSE SectorOf(hostAt(h), s % ClSize)

-----------------------------------------------------------------------------
\* The contents that a write can give to the sectors from lo on of a cluster.
Chunks(lo) == UNION {[lo .. hi -> Val] : hi \in lo .. ClSize - 1}

Next ==
    \/ \E gc \in Guest, lo \in InCl, res \in Outcome :
          \E chunk \in Chunks(lo) : WriteChunk(gc, chunk, res)
    \/ Finalize
    \/ FinalizeStep

\* Finalize keeps running once called.
Spec == NewWriter /\ [][Next]_vars /\ WF_vars(FinalizeStep)

-----------------------------------------------------------------------------
(* Properties. *)

\* The fields and locals stay in range: in particular the file has no cluster that
\* was not handed out.
TypeOK ==
    /\ l2map \in [Guest -> Nat]
    /\ nextHost \in Nat \ {0}
    /\ finalized \in BOOLEAN
    /\ DOMAIN host \subseteq 0 .. nextHost - 1
    /\ disk \in [Sectors -> Val]
    /\ {l1Off, rb, rt, rtOff, rbOff} \subseteq Nat

\* The device reads back what was written to it at every moment until it is
\* finalized, Finalize's own writes included: zeros that were skipped, parts of
\* clusters never written, writes that failed.
WriterReadsBack == \A s \in Sectors : writerRead(s) = disk[s]

\* A file that opens as QCOW2 holds the whole disk: the header is written when
\* everything it leads to is in place, so a Finalize that failed on the way
\* leaves a file that is not taken for an image, and one that went through
\* gives every sector back through header, L1 and L2.
ImageHoldsDisk == opens => \A s \in Sectors : readerRead(s) = disk[s]

Referenced(h) ==
    IF h = 0 THEN 1 ELSE   \* the header
    Cardinality({g \in Guest : hostOffset(g) = h})
    + Cardinality({i \in 0 .. l1Size - 1 : tableEntry(hostAt(0).l1Off, i) = h})
    + (IF h \in l1Off .. l1Off + l1Clusters - 1 \/ h \in rtOff .. rtOff + rt - 1 THEN 1 ELSE 0)
    + Cardinality({b \in 0 .. rb - 1 : tableEntry(rtOff, b) = h})

refcountOf(h) ==
    LET block == tableEntry(hostAt(0).rtOff, h \div RefsPerCl)
    IN  IF h \div RefsPerCl >= hostAt(0).rtClusters * Entries \/ block = 0 THEN 0
        ELSE hostAt(block).counts[h % RefsPerCl]

\* The clusters of the file, and all that the refcount table has room for.
Counted == 0 .. nextHost + rt * Entries * RefsPerCl

\* "Every allocated cluster (including the refcount structures themselves) has
\* refcount 1": in a finished image each cluster of the file is referenced
\* exactly once from the header on and counted exactly once, nothing leaked.
RefcountsExact ==
    opens => \A h \in Counted : /\ refcountOf(h) = (IF h < nextHost THEN 1 ELSE 0)
                                /\ Referenced(h) = refcountOf(h)

\* Finalize ends: the sizing of the refcount structures reaches a fixpoint.
FinalizeEnds == finalized ~> pc \in {"done", "failed"}
=============================================================================
